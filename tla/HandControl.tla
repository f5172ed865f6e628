---------------------------- MODULE HandControl ----------------------------
(***************************************************************************)
(* The hand controllers of hand_drivers/brainco, inspire and unitree: the  *)
(* part of a control session that turns the hand input of the XR device    *)
(* into commands for the hands.                                            *)
(*                                                                         *)
(* The session writes the input into shared arrays, part by part, each     *)
(* under its lock.  Five of the six controllers read the parts in a loop   *)
(* of their own and send a command in each turn.  The BrainCo controller   *)
(* for hand tracking (brainco_hand) has one process per hand that solves   *)
(* for its target and a thread that sends the newest targets.              *)
(*                                                                         *)
(* A value is the number of the XR frame it was computed from: 1 stands    *)
(* for the zeros the arrays are created with, and 0 for the pose of a      *)
(* controller that has not computed a target.  The motion_data_ready flag  *)
(* is None in every context the plugins make, and reads as TRUE.           *)
(***************************************************************************)
EXTENDS Naturals, Sequences, SequencesExt

CONSTANTS HandKinds,      \* the controllers to consider
          MaxHandFrames,  \* bound: XR frames, the zeros included
          MaxHandFaults   \* bound: exceptions, and waits that run out

ASSUME HandAssumption ==
    /\ HandKinds \subseteq {"brainco_hand", "brainco_ctrl", "inspire_dfx",
                            "inspire_ftp", "dex3", "dex1"}
    /\ MaxHandFrames \in Nat \ {0} /\ MaxHandFaults \in Nat

Sides == {"left", "right"}
AllParts == {"left", "right", "squeeze_left", "squeeze_right"}

VARIABLES
    handKind,     \* which controller this is
    handFaults,   \* how many failures there were (bound)
    input,        \* the shared arrays the session writes, by part
    sampled,      \* the parts of the current XR frame already written
    stopRequested,\* the session's stop event
    constructed,  \* the constructor: "waiting", "done", "failed"
    heard,        \* the sides whose state the controller has received
    closing,      \* close(): "no", "joining", "reaping", "dds", "closed"
    running, close_event,     \* what tells the loop to end
    retarget_running,         \* and the solvers
    endpoints,    \* the sides whose DDS publisher is open
    loop,         \* place of the control loop
    parts,        \* the parts it has read in this turn, with their values
    command,      \* the targets it sends
    solver,       \* place of the solving process of each side
    solving,      \* the input it solves for, or 0
    last_input,   \* the last input it solved
    retarget_q_target,        \* the shared targets, 0 before retarget_ready
    handWire          \* the last command sent, by part

session  == <<input, sampled>>
lifetime == <<constructed, heard, running, close_event, retarget_running,
              endpoints>>
turn     == <<loop, parts, command>>
solvers  == <<solver, solving, last_input, retarget_q_target>>
handVars == <<handKind, handFaults, input, sampled, stopRequested,
              constructed, heard, closing, running, close_event,
              retarget_running, endpoints, loop, parts, command,
              solver, solving, last_input, retarget_q_target, handWire>>

BrainCo == handKind \in {"brainco_hand", "brainco_ctrl"}
Solves  == handKind = "brainco_hand"

\* The inputs, in the order in which the session writes them and a loop
\* reads them.
Order == IF handKind = "brainco_ctrl"
         THEN <<"left", "squeeze_left", "right", "squeeze_right">>
         ELSE <<"left", "right">>

HandInit ==
    /\ handKind \in HandKinds /\ handFaults = 0
    /\ input = [p \in AllParts |-> 1] /\ sampled = {}
    /\ stopRequested = FALSE
    /\ constructed = "waiting" /\ heard = {}
    /\ closing = "no" /\ running = FALSE /\ close_event = FALSE
    /\ retarget_running = FALSE /\ endpoints = Sides
    /\ loop = "none" /\ parts = <<>>
    /\ command = [p \in AllParts |-> 0]
    /\ solver = [s \in Sides |-> "none"] /\ solving = [s \in Sides |-> 0]
    /\ last_input = [s \in Sides |-> 0]
    /\ retarget_q_target = [s \in Sides |-> 0]
    /\ handWire = command

_stop_requested == close_event \/ stopRequested

HandFault == handFaults < MaxHandFaults /\ handFaults' = handFaults + 1

-----------------------------------------------------------------------------
(* The session.                                                            *)

\* The session loop writes the next part of an XR frame.  It has no frame
\* to write before the controller exists.
SessionWrites ==
    /\ constructed = "done" /\ closing = "no"
    /\ \E i \in DOMAIN Order :
          LET p == Order[i] IN
          /\ sampled = {Order[j] : j \in 1 .. i - 1}
          /\ input[p] < MaxHandFrames
          /\ input' = [input EXCEPT ![p] = @ + 1]
          /\ sampled' = IF i = Len(Order) THEN {} ELSE sampled \cup {p}
    /\ UNCHANGED <<handKind, handFaults, stopRequested, lifetime, closing,
                   turn, solvers, handWire>>

HandStop ==
    /\ ~stopRequested /\ stopRequested' = TRUE
    /\ UNCHANGED <<handKind, handFaults, session, lifetime, closing, turn,
                   solvers, handWire>>

-----------------------------------------------------------------------------
(* Construction.                                                           *)

\* A message on the state topic of the hands.  The BrainCo callbacks take
\* one side each and ignore it after a stop; the others read both sides,
\* in one message or, for dex3 and dex1, only when both messages are there.
StateHeard(s) ==
    /\ constructed = "waiting"
    /\ BrainCo => ~_stop_requested
    /\ heard' = heard \cup (IF BrainCo \/ handKind = "inspire_ftp"
                            THEN {s} ELSE Sides)
    /\ UNCHANGED <<handKind, handFaults, session, stopRequested, constructed,
                   closing, running, close_event, retarget_running, endpoints,
                   turn, solvers, handWire>>

Enough == IF handKind = "inspire_ftp" THEN heard # {} ELSE heard = Sides

\* The constructor goes on: the solvers and the loop start.
Constructed ==
    /\ constructed = "waiting" /\ constructed' = "done"
    /\ loop' = "begin"
    /\ IF Solves THEN /\ retarget_running' = TRUE
                      /\ solver' = [s \in Sides |-> "read"]
                 ELSE UNCHANGED <<retarget_running, solver>>
    /\ UNCHANGED <<handKind, session, stopRequested, heard, closing, running,
                   close_event, endpoints, parts, command, solving,
                   last_input, retarget_q_target, handWire>>

StatesArrived == Enough /\ Constructed /\ UNCHANGED handFaults

\* BrainCo's startup_timeout (degraded mode), inspire_ftp's five seconds.
\* inspire_dfx, dex3 and dex1 wait for as long as it takes.
WaitRunsOut ==
    /\ ~Enough /\ handKind \in {"brainco_hand", "brainco_ctrl", "inspire_ftp"}
    /\ BrainCo => ~_stop_requested
    /\ HandFault /\ Constructed

\* Only the BrainCo constructor looks at the stop event.
_wait_until_dds_ready ==
    /\ constructed = "waiting" /\ BrainCo /\ ~Enough /\ _stop_requested
    /\ constructed' = "failed"
    /\ UNCHANGED <<handKind, handFaults, session, stopRequested, heard,
                   closing, running, close_event, retarget_running, endpoints,
                   turn, solvers, handWire>>

-----------------------------------------------------------------------------
(* The control loop: control_process, control_thread, _dds_write_loop.     *)

\* self.running = True is the loop's own first statement.  In a process of
\* its own it sets the flag of the process.
LoopBegins ==
    /\ loop = "begin" /\ loop' = "top" /\ running' = TRUE
    /\ UNCHANGED <<handKind, handFaults, session, stopRequested, constructed,
                   heard, closing, close_event, retarget_running, endpoints,
                   parts, command, solvers, handWire>>

\* Only the BrainCo loops look at anything but the flag they set themselves.
LoopTurns ==
    /\ loop = "top"
    /\ loop' = IF running /\ (BrainCo => ~_stop_requested)
               THEN "read" ELSE "ended"
    /\ UNCHANGED <<handKind, handFaults, session, stopRequested, lifetime,
                   closing, parts, command, solvers, handWire>>

\* One array, under its lock.
LoopReads ==
    /\ loop = "read" /\ ~Solves
    /\ LET p == Order[Len(parts) + 1] IN
          /\ parts' = Append(parts, <<p, input[p]>>)
          /\ loop' = IF Len(parts') = Len(Order) THEN "target" ELSE "read"
    /\ UNCHANGED <<handKind, handFaults, session, stopRequested, lifetime,
                   closing, command, solvers, handWire>>

\* The thread of brainco_hand takes both targets under their lock; a side
\* that has none yet keeps the pose of the start.
LoopTakesTargets ==
    /\ loop = "read" /\ Solves /\ loop' = "target"
    /\ parts' = <<<<"left", retarget_q_target["left"]>>,
                  <<"right", retarget_q_target["right"]>>>>
    /\ UNCHANGED <<handKind, handFaults, session, stopRequested, lifetime,
                   closing, command, solvers, handWire>>

\* The targets are computed; the loop then puts them, with the state of the
\* hands, under dual_hand_data_lock where the session reads them.
LoopTargets ==
    /\ loop = "target" /\ loop' = "send"
    /\ command' = [p \in AllParts |->
                      IF \E t \in ToSet(parts) : t[1] = p
                      THEN (CHOOSE t \in ToSet(parts) : t[1] = p)[2]
                      ELSE command[p]]
    /\ parts' = <<>>
    /\ UNCHANGED <<handKind, handFaults, session, stopRequested, lifetime,
                   closing, solvers, handWire>>

Writing == {"write_left", "write_right"}

PartsOf == [left  |-> {"left", "squeeze_left"},
            right |-> {"right", "squeeze_right"}]
Sent(s) == [p \in AllParts |->
               IF p \in PartsOf[s] THEN command[p] ELSE handWire[p]]

\* ctrl_dual_hand, ctrl_dual_gripper.  Nothing closes the publishers of the
\* controllers other than BrainCo's.
LoopSends ==
    /\ loop = "send" /\ handKind # "inspire_ftp" /\ ~BrainCo
    /\ loop' = "top" /\ handWire' = command
    /\ UNCHANGED <<handKind, handFaults, session, stopRequested, lifetime,
                   closing, parts, command, solvers>>

\* BrainCo's ctrl_dual_hand calls Write for the left hand and then for the
\* right one.  A publisher that is closed raises, which the loop logs and
\* survives; one that was open when Write was called may be closed under it.
LoopWrites ==
    /\ BrainCo
    /\ \/ /\ loop = "send" /\ UNCHANGED handWire
          /\ loop' = IF "left" \in endpoints THEN "write_left" ELSE "top"
       \/ /\ loop = "write_left" /\ handWire' = Sent("left")
          /\ loop' = "between"
       \/ /\ loop = "between" /\ UNCHANGED handWire
          /\ loop' = IF "right" \in endpoints THEN "write_right" ELSE "top"
       \/ /\ loop = "write_right" /\ handWire' = Sent("right")
          /\ loop' = "top"
    /\ UNCHANGED <<handKind, handFaults, session, stopRequested, lifetime,
                   closing, parts, command, solvers>>

\* _send_hand_command names inspire_hand_default, which only __init__
\* imported, for itself: the call raises NameError and the loop is over.
_send_hand_command ==
    /\ loop = "send" /\ handKind = "inspire_ftp"
    /\ loop' = "ended"
    /\ UNCHANGED <<handKind, handFaults, session, stopRequested, lifetime,
                   closing, parts, command, solvers, handWire>>

\* Something in the turn raises: a solver that does not converge, a write
\* that fails.  The BrainCo loops guard the write, and only that; the others
\* guard nothing.  Nobody looks at whether the loop still runs.
LoopRaises ==
    /\ loop \in {"target", "send"} \cup Writing /\ HandFault
    /\ loop' = IF BrainCo /\ loop # "target" THEN "top" ELSE "ended"
    /\ UNCHANGED <<handKind, session, stopRequested, lifetime, closing, parts,
                   command, solvers, handWire>>

-----------------------------------------------------------------------------
(* The solving processes: _brainco_hand_retarget_side_fn.                  *)

\* The process looks at its flag, reads its array and skips an input it has
\* solved.
SolverReads(s) ==
    /\ solver[s] = "read"
    /\ solver' = [solver EXCEPT ![s] =
                     IF ~retarget_running THEN "ended"
                     ELSE IF input[s] = last_input[s] THEN "read" ELSE "solve"]
    /\ solving' = [solving EXCEPT ![s] =
                      IF solver'[s] = "solve" THEN input[s] ELSE 0]
    /\ UNCHANGED <<handKind, handFaults, session, stopRequested, lifetime,
                   closing, turn, last_input, retarget_q_target, handWire>>

\* The target is written under the lock, with its ready flag and its
\* sequence number after it.
SolverWrites(s) ==
    /\ solver[s] = "solve" /\ solver' = [solver EXCEPT ![s] = "read"]
    /\ retarget_q_target' = [retarget_q_target EXCEPT ![s] = solving[s]]
    /\ last_input' = [last_input EXCEPT ![s] = solving[s]]
    /\ solving' = [solving EXCEPT ![s] = 0]
    /\ UNCHANGED <<handKind, handFaults, session, stopRequested, lifetime,
                   closing, turn, handWire>>

\* Mutant: the input that failed counts as solved.
SolverRaisesAfter(s) ==
    /\ solver[s] = "solve" /\ solver' = [solver EXCEPT ![s] = "read"]
    /\ last_input' = [last_input EXCEPT ![s] = solving[s]]
    /\ solving' = [solving EXCEPT ![s] = 0]
    /\ HandFault
    /\ UNCHANGED <<handKind, session, stopRequested, lifetime, closing, turn,
                   retarget_q_target, handWire>>

\* An exception in an iteration: the process tries again.
SolverRaises(s) ==
    /\ solver[s] = "solve" /\ solver' = [solver EXCEPT ![s] = "read"]
    /\ solving' = [solving EXCEPT ![s] = 0]
    /\ HandFault
    /\ UNCHANGED <<handKind, session, stopRequested, lifetime, closing, turn,
                   last_input, retarget_q_target, handWire>>

-----------------------------------------------------------------------------
(* close, which only the BrainCo controllers have.  The session calls it   *)
(* when it ends and has a controller.                                      *)

Close ==
    /\ constructed = "done" /\ BrainCo /\ closing = "no"
    /\ closing' = "joining"
    /\ running' = FALSE /\ close_event' = TRUE
    /\ retarget_running' = FALSE
    /\ UNCHANGED <<handKind, handFaults, session, stopRequested, constructed,
                   heard, endpoints, turn, solvers, handWire>>

\* thread.join(timeout=1.0): the thread has ended, or is stuck in a write.
CloseJoined ==
    /\ closing = "joining" /\ closing' = "reaping"
    /\ \/ loop \in {"none", "ended"} /\ UNCHANGED handFaults
       \/ loop \notin {"none", "ended"} /\ HandFault
    /\ UNCHANGED <<handKind, session, stopRequested, lifetime, turn, solvers,
                   handWire>>

\* A solver that does not end in its second is terminated.
CloseReaps ==
    /\ closing = "reaping" /\ closing' = "dds"
    /\ solver' = [s \in Sides |->
                     IF solver[s] = "none" THEN "none" ELSE "ended"]
    /\ UNCHANGED <<handKind, handFaults, session, stopRequested, lifetime,
                   turn, solving, last_input, retarget_q_target, handWire>>

\* Mutant: the right publisher stays open.
_close_dds_left ==
    /\ closing = "dds"
    /\ endpoints' = {"right"} /\ closing' = "closed"
    /\ UNCHANGED <<handKind, handFaults, session, stopRequested, constructed,
                   heard, running, close_event, retarget_running, turn,
                   solvers, handWire>>

\* At last the publishers are closed, the left one first.
_close_dds ==
    /\ closing = "dds"
    /\ IF "left" \in endpoints
       THEN endpoints' = {"right"} /\ UNCHANGED closing
       ELSE endpoints' = {} /\ closing' = "closed"
    /\ UNCHANGED <<handKind, handFaults, session, stopRequested, constructed,
                   heard, running, close_event, retarget_running, turn,
                   solvers, handWire>>

-----------------------------------------------------------------------------
HandLoop == \/ LoopBegins \/ LoopTurns \/ LoopReads \/ LoopTakesTargets
            \/ LoopTargets \/ LoopSends \/ LoopWrites \/ _send_hand_command

HandSolver(s) == SolverReads(s) \/ SolverWrites(s)

HandClose == CloseJoined \/ CloseReaps \/ _close_dds

HandNext ==
    \/ SessionWrites \/ HandStop
    \/ \E s \in Sides : StateHeard(s)
    \/ StatesArrived \/ WaitRunsOut \/ _wait_until_dds_ready
    \/ HandLoop \/ LoopRaises
    \/ \E s \in Sides : HandSolver(s) \/ SolverRaises(s)
    \/ Close \/ HandClose

\* Threads and processes run, and the constructor goes on with what it has.
HandFairness ==
    /\ WF_handVars((StatesArrived \/ _wait_until_dds_ready))
    /\ WF_handVars(HandLoop)
    /\ \A s \in Sides : WF_handVars(HandSolver(s))
    /\ WF_handVars(HandClose)

HandSpec == HandInit /\ [][HandNext]_handVars /\ HandFairness

-----------------------------------------------------------------------------
(* Once close has returned, no Write to a hand begins, and what still       *)
(* reaches a hand is from a Write that was in progress: one message at most,*)
(* to one hand.  That holds wherever the loop was when close gave up        *)
(* waiting for it: stuck in a Write, between the two, or only starting when *)
(* close cleared its flag.                                                  *)
CloseEndsCommands ==
    [][closing = "closed"
         => /\ handWire' # handWire => loop \in Writing
            /\ loop' \in Writing => loop' = loop]_<<loop, handWire>>

(* The pose the user holds reaches the hand: the last XR frame is           *)
(* commanded, unless the session stops or closes or a loop has died.  It    *)
(* is not enough that each side moves: a frame that failed once is solved   *)
(* again.                                                                   *)
Over == stopRequested \/ closing # "no" \/ loop = "ended"

LastPoseCommanded ==
    (\A p \in ToSet(Order) : input[p] = MaxHandFrames)
        ~> (Over \/ \A p \in ToSet(Order) : handWire[p] = MaxHandFrames)

(* The command is computed from the pose of the hands.  Inspire FTP, source *)
(* line 247: "Send scaled angle commands [0-1000] to both hands."           *)
SendsCommands == loop = "send" ~> handWire = command \/ stopRequested
=============================================================================
