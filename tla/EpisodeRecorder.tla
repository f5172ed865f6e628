--------------------------- MODULE EpisodeRecorder ---------------------------
(***************************************************************************)
(* The recording of episodes: EpisodeWriter with its worker thread         *)
(* (control/utils/episode_writer.py), the part of the main loop that       *)
(* drives it and its close at the end of the session (control/session.py). *)
(*                                                                         *)
(* An episode's file is the items written to it, its separators and how    *)
(* often its end was; images and the live view are left out.  Each access to a flag the two   *)
(* threads share is a step, as is each operation on the queue, which has   *)
(* a lock of its own.  The disk does not fail under the end of a file.     *)
(***************************************************************************)
EXTENDS Integers, Sequences

CONSTANTS MaxEpisodes,   \* bound: episodes of a session
          MaxItems,      \* bound: items of an episode
          MaxFaults      \* bound: items that cannot be written

ASSUME RecorderAssumption ==
    /\ MaxEpisodes \in Nat \ {0} /\ MaxItems \in Nat /\ MaxFaults \in Nat

VARIABLES
    RECORD_TOGGLE, RECORD_RUNNING,    \* flags of the session
    main,            \* place of the main thread
    is_available, need_save, stop_worker,
    episode_id, item_id,
    item_data_queue, \* the items not taken
    unfinished,      \* items put and not yet marked done
    worker,          \* place of the worker thread
    item,            \* the item it holds
    items, ends,     \* the file: its items, and how often it was ended
    separators,      \* and the commas written between items
    failed,          \* history: the items that could not be written
    recFaults        \* failures so far (bound)

flags == <<RECORD_TOGGLE, RECORD_RUNNING>>
handover == <<item_data_queue, unfinished>>
episode == <<episode_id, item_id>>
disk == <<items, ends, separators, failed, recFaults>>
recorderVars == <<RECORD_TOGGLE, RECORD_RUNNING, main, is_available, need_save,
                  stop_worker, episode_id, item_id, item_data_queue,
                  unfinished, worker, item, items, ends, separators, failed,
                  recFaults>>

NoItem == MaxItems

RecorderInit ==
    /\ RECORD_TOGGLE = FALSE /\ RECORD_RUNNING = FALSE /\ main = "loop"
    /\ is_available = TRUE /\ need_save = FALSE /\ stop_worker = FALSE
    /\ episode_id = 0 /\ item_id = 0
    /\ item_data_queue = <<>> /\ unfinished = 0
    /\ worker = "top" /\ item = NoItem
    /\ items = <<>> /\ ends = 0 /\ separators = 0
    /\ failed = {} /\ recFaults = 0

-----------------------------------------------------------------------------
(* The main thread: one iteration of the loop, then the end of the session.*)

\* The operator presses the key (the keyboard is read when a person runs it).
Toggle ==
    /\ ~RECORD_TOGGLE /\ RECORD_TOGGLE' = TRUE
    /\ UNCHANGED <<RECORD_RUNNING, main, is_available, need_save, stop_worker,
                   episode, handover, worker, item, disk>>

\* create_episode: refused while the last episode is not closed; it may fail
\* on the disk, which ends the session.  item_id begins at 0 here.
create_episode ==
    \/ /\ ~is_available
       /\ UNCHANGED <<RECORD_RUNNING, main, is_available, episode, items, ends,
                      separators, failed>>
    \/ /\ is_available /\ episode_id < MaxEpisodes
       /\ item_id' = 0 /\ episode_id' = episode_id + 1
       /\ items' = <<>> /\ ends' = 0 /\ separators' = 0 /\ failed' = {}
       /\ \/ /\ RECORD_RUNNING' = TRUE /\ is_available' = FALSE
             /\ UNCHANGED main
          \/ main' = "close" /\ UNCHANGED <<RECORD_RUNNING, is_available>>

HandleToggle ==
    /\ main = "loop" /\ RECORD_TOGGLE /\ RECORD_TOGGLE' = FALSE
    /\ IF ~RECORD_RUNNING
       THEN create_episode /\ UNCHANGED need_save
       ELSE /\ RECORD_RUNNING' = FALSE /\ need_save' = TRUE
            /\ UNCHANGED <<main, is_available, episode, items, ends, separators,
                           failed>>
    /\ UNCHANGED <<stop_worker, handover, worker, item, recFaults>>

add_item ==
    /\ item_data_queue' = Append(item_data_queue, item_id)
    /\ unfinished' = unfinished + 1
    /\ item_id' = item_id + 1

\* An iteration of the loop records what it saw and what it commanded.
RecordItem ==
    /\ main = "loop" /\ RECORD_RUNNING /\ item_id < MaxItems
    /\ add_item
    /\ UNCHANGED <<flags, main, is_available, need_save, stop_worker,
                   episode_id, worker, item, disk>>

\* The session is stopped, or an iteration raises.
SessionEnds ==
    /\ main = "loop" /\ main' = "close"
    /\ UNCHANGED <<flags, is_available, need_save, stop_worker, episode,
                   handover, worker, item, disk>>

\* close: every item is through, an episode not closed is to be, and the
\* worker may end.  Then nothing more is asked of the recorder.
JoinQueue ==
    /\ main = "close" /\ unfinished = 0 /\ main' = "look"
    /\ UNCHANGED <<flags, is_available, need_save, stop_worker, episode,
                   handover, worker, item, disk>>

LookAtAvailable ==
    /\ main = "look"
    /\ main' = IF is_available THEN "wait" ELSE "save"
    /\ UNCHANGED <<flags, is_available, need_save, stop_worker, episode,
                   handover, worker, item, disk>>

save_episode ==
    /\ main = "save" /\ main' = "wait" /\ need_save' = TRUE
    /\ UNCHANGED <<flags, is_available, stop_worker, episode, handover, worker,
                   item, disk>>

StopWorker ==
    /\ main = "wait" /\ is_available /\ main' = "join" /\ stop_worker' = TRUE
    /\ UNCHANGED <<flags, is_available, need_save, episode, handover, worker,
                   item, disk>>

JoinWorker ==
    /\ main = "join" /\ worker = "ended" /\ main' = "closed"
    /\ UNCHANGED <<flags, is_available, need_save, stop_worker, episode,
                   handover, worker, item, disk>>

-----------------------------------------------------------------------------
(* The worker thread: process_queue.                                       *)

\* The top of the loop, and the get with its timeout of a second.
TakeItem ==
    /\ worker = "top"
    /\ IF item_data_queue # <<>>
       THEN /\ item' = Head(item_data_queue) /\ worker' = "process"
            /\ item_data_queue' = Tail(item_data_queue)
       ELSE /\ worker' = IF stop_worker THEN "ended" ELSE "check"
            /\ UNCHANGED <<item, item_data_queue>>
    /\ UNCHANGED <<flags, main, is_available, need_save, stop_worker, episode,
                   unfinished, disk>>

\* The separator before an item that is not the first one (first_item).
WriteSeparator == separators' = IF items = <<>> THEN 0 ELSE separators + 1

\* _process_item_data.  It may raise before it opens the file, or when the
\* item cannot be encoded, which is after the separator was written.  (What
\* the live view raises comes when the item is in the file.)
ProcessItem ==
    /\ worker = "process" /\ worker' = "done"
    /\ \/ /\ WriteSeparator /\ items' = Append(items, item)
          /\ UNCHANGED <<failed, recFaults>>
       \/ /\ WriteSeparator \/ UNCHANGED separators
          /\ recFaults < MaxFaults /\ recFaults' = recFaults + 1
          /\ failed' = failed \cup {item}
          /\ UNCHANGED items
    /\ UNCHANGED <<flags, main, is_available, need_save, stop_worker, episode,
                   handover, item, ends>>

task_done ==
    /\ worker = "done" /\ worker' = "check"
    /\ unfinished' = unfinished - 1 /\ item' = NoItem
    /\ UNCHANGED <<flags, main, is_available, need_save, stop_worker, episode,
                   item_data_queue, disk>>

\* Mutant: a save is not kept waiting by items.
CheckSaveAtOnce ==
    /\ worker = "check"
    /\ worker' = IF need_save THEN "end" ELSE "top"
    /\ UNCHANGED <<flags, main, is_available, need_save, stop_worker, episode,
                   handover, item, disk>>

\* Was a save asked for, and is every item through?
CheckSave ==
    /\ worker = "check"
    /\ worker' = IF need_save /\ item_data_queue = <<>> THEN "end" ELSE "top"
    /\ UNCHANGED <<flags, main, is_available, need_save, stop_worker, episode,
                   handover, item, disk>>

\* _save_episode: the end of the file, then the two flags.
WriteEnd ==
    /\ worker = "end" /\ worker' = "reset"
    /\ ends' = ends + 1
    /\ UNCHANGED <<flags, main, is_available, need_save, stop_worker, episode,
                   handover, item, items, separators, failed, recFaults>>

ResetNeed ==
    /\ worker = "reset" /\ worker' = "release" /\ need_save' = FALSE
    /\ UNCHANGED <<flags, main, is_available, stop_worker, episode, handover,
                   item, disk>>

Release ==
    /\ worker = "release" /\ worker' = "top" /\ is_available' = TRUE
    /\ UNCHANGED <<flags, main, need_save, stop_worker, episode, handover,
                   item, disk>>

RecorderWorker ==
    \/ TakeItem \/ ProcessItem \/ task_done \/ CheckSave \/ WriteEnd
    \/ ResetNeed \/ Release

close == \/ JoinQueue \/ LookAtAvailable \/ save_episode \/ StopWorker
         \/ JoinWorker

RecorderNext ==
    \/ Toggle \/ HandleToggle \/ RecordItem \/ SessionEnds
    \/ close \/ RecorderWorker

RecorderSpec == RecorderInit /\ [][RecorderNext]_recorderVars

-----------------------------------------------------------------------------
\* The items an episode should hold: those added to it and not failed.
Wanted == (0 .. item_id - 1) \ failed

Increasing(s) == \A i, j \in DOMAIN s : i < j => s[i] < s[j]

\* When the recorder is available again, the file of the last episode holds
\* every item that was added to it, in order and once, and none of another
\* episode, and it was ended: a save asked for while items wait, or by close,
\* does not cut the episode short, and a new one does not begin in the old
\* file.  If no item failed the file can be read: there is a separator between
\* two items and no other.  (One that could not be encoded leaves its
\* separator behind, and the file is no longer JSON.)
EpisodeIsWhole ==
    is_available /\ (items # <<>> \/ ends > 0)
        => /\ {items[i] : i \in DOMAIN items} = Wanted /\ Increasing(items)
           /\ ends > 0
           /\ failed = {} /\ items # <<>> => separators = Len(items) - 1
=============================================================================
