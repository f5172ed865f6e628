------------------------------ MODULE XrInput ------------------------------
(***************************************************************************)
(* The way of the operator's motion from the headset to the bridge.        *)
(*                                                                         *)
(* The process of the Vuer server (xr/televuer.py) writes the events into  *)
(* shared memory.  The sampler thread of the session (control/session.py)  *)
(* reads it (xr/tv_wrapper.py), numbers the sample and publishes it into   *)
(* the shared frame of control/process_channel.py, where the monitor       *)
(* thread of the bridge (control/runtime.py) takes it to the bus.  Control *)
(* processes come and go; the shared frame and the bus stay.               *)
(*                                                                         *)
(* An event writes field by field, and a sample reads field by field, each *)
(* under its own lock, so a sample mixes neighbouring events.  The model   *)
(* follows one field, the pose of an arm, as the number of the event it is *)
(* from; 0 stands for what is there before any event: zeros in shared      *)
(* memory, the constant pose of tv_wrapper.py in a sample.                 *)
(***************************************************************************)
EXTENDS Naturals

CONSTANTS MaxGenerations, \* bound: control processes started
          MaxEvents,   \* bound: events of the headset
          MaxSamples   \* bound: samples taken

ASSUME XrAssumption ==
    /\ MaxGenerations \in Nat \ {0}
    /\ MaxEvents \in Nat \ {0} /\ MaxSamples \in Nat \ {0}

VARIABLES
    generation, alive, \* the control process: its number, and whether it runs
    events,        \* how many events there were
    tracked,       \* whether the arm was tracked in the last one
    arm_pose,      \* the shared memory
    sampling,      \* place of the sampler: "idle", "number", "publish",
                   \* "signal"
    sample,        \* the pose it has read
    seq,           \* the number of the newest sample
    vr_frame,      \* the shared frame
    updated,       \* its event
    monitor,       \* place of the monitor of each generation
    taken,         \* the frame each has just read
    last_vr_sequence,
    bus,           \* the frames published to the bridge, the last one
    late           \* history: frames the monitor of each generation published
                   \* when there was a later one

child == <<generation, alive>>
headset == <<events, tracked, arm_pose>>
sampler == <<sampling, sample, seq>>
exchange == <<vr_frame, updated>>
watcher == <<monitor, taken, last_vr_sequence, bus, late>>
xrVars  == <<generation, alive, events, tracked, arm_pose, sampling, sample,
             seq, vr_frame, updated, monitor, taken, last_vr_sequence, bus,
             late>>

Generations == 1 .. MaxGenerations
NoVr == [of |-> 0, seq |-> 0, arm |-> 0]

XrInit ==
    /\ generation = 1 /\ alive = TRUE
    /\ events = 0 /\ tracked = FALSE /\ arm_pose = 0
    /\ sampling = "idle" /\ sample = 0 /\ seq = 0
    /\ vr_frame = NoVr /\ updated = FALSE
    /\ monitor = [g \in Generations |-> IF g = 1 THEN "read" ELSE "none"]
    /\ taken = [g \in Generations |-> NoVr]
    /\ last_vr_sequence = [g \in Generations |-> 0]
    /\ bus = NoVr /\ late = [g \in Generations |-> 0]

-----------------------------------------------------------------------------
(* The Vuer process: on_hand_move, on_controller_move.  An event that lacks *)
(* the pose raises and changes nothing; an arm that is not tracked has a    *)
(* singular matrix.                                                         *)

on_move ==
    /\ alive /\ events < MaxEvents
    /\ events' = events + 1
    /\ arm_pose' = events' /\ tracked' \in BOOLEAN
    /\ UNCHANGED <<child, sampler, exchange, watcher>>

-----------------------------------------------------------------------------
(* The sampler: sample_xr_input of the session.                             *)

\* safe_mat_update: an arm that is not tracked, or has not been heard of,
\* gives the constant pose.
Sampled == IF tracked THEN arm_pose ELSE 0

get_tele_data ==
    /\ alive /\ sampling = "idle" /\ seq < MaxSamples
    /\ sampling' = "number" /\ sample' = Sampled
    /\ UNCHANGED <<child, headset, seq, exchange, watcher>>

\* update_latest_vr_input numbers the sample.
update_latest_vr_input ==
    /\ sampling = "number"
    /\ sampling' = "publish" /\ seq' = seq + 1
    /\ UNCHANGED <<child, headset, sample, exchange, watcher>>

\* publish, up to the release of the lock of the frame.
publish ==
    /\ sampling = "publish" /\ sampling' = "signal"
    /\ vr_frame' = [of |-> generation, seq |-> seq, arm |-> sample]
    /\ sample' = 0
    /\ UNCHANGED <<child, headset, seq, updated, watcher>>

\* The event is set afterwards.
PublishSignals ==
    /\ sampling = "signal" /\ sampling' = "idle"
    /\ updated' = TRUE
    /\ UNCHANGED <<child, headset, sample, seq, vr_frame, watcher>>

-----------------------------------------------------------------------------
(* The monitor of each generation, and the generations.  start_component    *)
(* may find the monitor of the last one still at work: stop_component joins *)
(* it for a second, and a process that dies is not waited for at all.       *)

\* read_after, up to the release of the lock: only a newer frame counts.  It
\* is read once more when the process is gone.
MonitorReads(g) ==
    /\ monitor[g] \in {"read", "final"}
    /\ IF vr_frame.seq > last_vr_sequence[g]
       THEN /\ taken' = [taken EXCEPT ![g] = vr_frame]
            /\ monitor' = [monitor EXCEPT ![g] =
                              IF @ = "read" THEN "publish" ELSE "last"]
       ELSE /\ UNCHANGED taken
            /\ monitor' = [monitor EXCEPT ![g] =
                              IF @ = "read" THEN "check" ELSE "done"]
    /\ UNCHANGED <<child, headset, sampler, exchange, last_vr_sequence, bus,
                   late>>

\* The event is cleared after the lock is released, whatever was published
\* meanwhile, and the frame goes to the bus, whoever runs by now.
MonitorPublishes(g) ==
    /\ monitor[g] \in {"publish", "last"}
    /\ monitor' = [monitor EXCEPT ![g] =
                      IF @ = "publish" THEN "check" ELSE "done"]
    /\ updated' = FALSE
    /\ last_vr_sequence' = [last_vr_sequence EXCEPT ![g] = taken[g].seq]
    /\ bus' = taken[g] /\ taken' = [taken EXCEPT ![g] = NoVr]
    /\ late' = IF g < generation /\ late[g] < 3
               THEN [late EXCEPT ![g] = @ + 1] ELSE late
    /\ UNCHANGED <<child, headset, sampler, vr_frame>>

\* Mutant: the process the runtime has by now.
MonitorChecksCurrent(g) ==
    /\ monitor[g] = "check"
    /\ monitor' = [monitor EXCEPT ![g] = IF alive THEN "wait" ELSE "final"]
    /\ UNCHANGED <<child, headset, sampler, exchange, taken, last_vr_sequence,
                   bus, late>>

\* Its process, not the one the runtime has by now.
MonitorChecks(g) ==
    /\ monitor[g] = "check"
    /\ monitor' = [monitor EXCEPT ![g] =
                      IF g = generation /\ alive THEN "wait" ELSE "final"]
    /\ UNCHANGED <<child, headset, sampler, exchange, taken, last_vr_sequence,
                   bus, late>>

\* Mutant: without the timeout.
MonitorWaitsForEvent(g) ==
    /\ monitor[g] = "wait" /\ updated
    /\ monitor' = [monitor EXCEPT ![g] = "read"]
    /\ UNCHANGED <<child, headset, sampler, exchange, taken, last_vr_sequence,
                   bus, late>>

\* updated_event.wait(0.01): the event or the timeout.
MonitorWaits(g) ==
    /\ monitor[g] = "wait" /\ monitor' = [monitor EXCEPT ![g] = "read"]
    /\ UNCHANGED <<child, headset, sampler, exchange, taken, last_vr_sequence,
                   bus, late>>

\* The process dies or is stopped, with the Vuer process it has started; it
\* does not hold the lock of the frame.
ChildDies ==
    /\ alive /\ alive' = FALSE
    /\ sampling' = "idle" /\ sample' = 0
    /\ UNCHANGED <<generation, headset, seq, exchange, watcher>>

\* The shared frame and the channel of the bus are cleared before the new
\* process starts, whose shared memory and numbers are new.
start_component ==
    /\ ~alive /\ generation < MaxGenerations
    /\ alive' = TRUE /\ generation' = generation + 1
    /\ arm_pose' = 0 /\ tracked' = FALSE /\ seq' = 0
    /\ vr_frame' = NoVr /\ updated' = FALSE /\ bus' = NoVr
    /\ monitor' = [monitor EXCEPT ![generation'] = "read"]
    /\ UNCHANGED <<events, sampling, sample, taken, last_vr_sequence, late>>

-----------------------------------------------------------------------------
XrSampler == \/ get_tele_data \/ update_latest_vr_input
             \/ publish \/ PublishSignals
XrMonitor(g) == \/ MonitorReads(g) \/ MonitorPublishes(g) \/ MonitorChecks(g)
                \/ MonitorWaits(g)

XrNext ==
    \/ on_move \/ XrSampler
    \/ \E g \in Generations : XrMonitor(g)
    \/ ChildDies \/ start_component

XrFairness ==
    /\ WF_xrVars(XrSampler)
    /\ \A g \in Generations : WF_xrVars(XrMonitor(g))

XrSpec == XrInit /\ [][XrNext]_xrVars /\ XrFairness

-----------------------------------------------------------------------------
(* The bridge never shows an older pose of a session after a newer one,     *)
(* neither a frame nor the pose of an arm that is tracked, unless a monitor *)
(* of an earlier session has outlived its process; and each such monitor    *)
(* publishes two frames at most, the one it had in hand and one more when   *)
(* it ends.                                                                 *)
VrInOrder ==
    [][/\ \A g \in Generations : late'[g] <= 2
       /\ generation' = generation /\ (\A g \in Generations : late'[g] = 0)
             => /\ bus'.seq > bus.seq
                /\ bus'.arm # 0 => bus'.arm >= bus.arm]_<<bus, late>>

(* The monitor of a session catches up with its sampler when that rests or  *)
(* has died: also with a frame that was published between the monitor's     *)
(* look and its clearing of the event, and while an old monitor clears the  *)
(* event of the new session.                                                *)
NewestVrArrives ==
    \A g \in Generations :
        vr_frame.of = g
            ~> last_vr_sequence[g] = vr_frame.seq \/ vr_frame.of # g
=============================================================================
