----------------------------- MODULE IkPipeline -----------------------------
(***************************************************************************)
(* From the main loop of session.run to the motors: the loop submits a     *)
(* target to the LatestIkWorker (control/ik_worker.py) and hands the       *)
(* newest solution to the arm controller (control/robots/unitree/arm.py),  *)
(* whose publish thread sends it; at the end the worker is closed and the  *)
(* arms are sent home.                                                     *)
(*                                                                         *)
(* Three threads: the main thread, the worker, which waits on a condition  *)
(* variable, and the publish thread.  A section under a lock is one step.  *)
(* A request and its solution are the number the worker gave it.  Of what  *)
(* the arms are told, only whether it is a solution or home is kept; the   *)
(* torques go with it, except that go home leaves those of the last one.   *)
(***************************************************************************)
EXTENDS Naturals

CONSTANTS MaxRequests,   \* bound: targets submitted in a session
          MaxPauses,     \* bound: pauses in a session
          MaxAttempts,   \* go home: max_attempts (100 in the code)
          MaxWeight,     \* go home: steps that release the arms (100)
          MotionMode     \* the arms are shared with the robot's own motion

ASSUME PipelineAssumption ==
    /\ MaxRequests \in Nat /\ MaxPauses \in Nat /\ MaxAttempts \in Nat
    /\ MaxWeight \in Nat \ {0} /\ MotionMode \in BOOLEAN

None == 0        \* no request
Targets == {"home", "solution"}
Cycles == 2      \* publish cycles (4 ms) a pause of 20 ms surely contains

VARIABLES
    next_sequence, pending, latest, ikStop,   \* LatestIkWorker, under its lock
    worker,      \* place of the worker thread
    solving,     \* the request the worker thread holds
    taken,       \* history: the last request the worker took
    main,        \* place of the main thread
    used,        \* ik_result_sequence
    PAUSED, STOP, pauses,
    resumedAt,   \* history: next_sequence at the last resume
    stale,       \* history: arm targets since then that are not newer (0..4)
    q_target,    \* the arm controller, under ctrl_lock; home at first
    attempts,    \* current_attempts of go home
    weight,      \* motor_cmd[kNotUsedJoint0].q in the shared message
    publisher,   \* place of the publish thread
    msg,         \* the targets in the shared message
    crc,         \* the weight the check sum was made with
    cycles,      \* publish cycles since the sleep began (0..Cycles)
    accepted     \* the last message with a valid check sum

ik    == <<next_sequence, pending, latest, ikStop, worker, solving, taken>>
loop  == <<used, resumedAt, stale>>
flags == <<PAUSED, STOP, pauses>>
arm   == <<q_target, attempts, weight>>
pub   == <<publisher, msg, crc, cycles, accepted>>
vars  == <<next_sequence, pending, latest, ikStop, worker, solving, taken,
           main, used, PAUSED, STOP, pauses, resumedAt, stale, q_target,
           attempts, weight, publisher, msg, crc, cycles, accepted>>

Requests == 0..MaxRequests
Messages == [q : Targets, weight : 0..MaxWeight]

MainPlaces == {"start", "loop", "submit", "take", "apply", "close",
               "join", "home", "homing", "sleep", "done"}
WorkerPlaces == {"none", "check", "waiting", "solving", "ended"}

WorkerTypeOK ==
    /\ {next_sequence, pending, latest, solving, taken, used} \subseteq Requests
    /\ ikStop \in BOOLEAN /\ worker \in WorkerPlaces

LoopTypeOK ==
    /\ main \in MainPlaces
    /\ PAUSED \in BOOLEAN /\ STOP \in BOOLEAN /\ pauses \in 0..MaxPauses
    /\ resumedAt \in Requests /\ stale \in 0..4

ArmTypeOK ==
    /\ q_target \in Targets
    /\ attempts \in 0..MaxAttempts /\ weight \in 0..MaxWeight
    /\ publisher \in {"get", "crc", "write"} /\ msg \in Targets
    /\ crc \in 0..MaxWeight /\ cycles \in 0..Cycles /\ accepted \in Messages

TypeOK == WorkerTypeOK /\ LoopTypeOK /\ ArmTypeOK

Init ==
    /\ next_sequence = 0 /\ pending = None /\ latest = None /\ ikStop = FALSE
    /\ worker = "none" /\ solving = None /\ taken = None
    /\ main = "start" /\ used = 0
    /\ PAUSED = FALSE /\ STOP = FALSE /\ pauses = 0
    /\ resumedAt = 0 /\ stale = 0
    /\ q_target = "home"
    /\ attempts = 0 /\ weight = MaxWeight
    /\ publisher = "get" /\ msg = "home"
    /\ crc = MaxWeight /\ cycles = 0
    /\ accepted = [q |-> "home", weight |-> MaxWeight]

-----------------------------------------------------------------------------
(* The command thread of the process: only what reaches the loop.          *)

request_pause ==
    /\ ~PAUSED /\ pauses < MaxPauses
    /\ PAUSED' = TRUE /\ pauses' = pauses + 1
    /\ UNCHANGED <<STOP, ik, main, loop, arm, pub>>

request_resume ==
    /\ PAUSED
    /\ PAUSED' = FALSE
    /\ resumedAt' = next_sequence /\ stale' = 0
    /\ UNCHANGED <<STOP, pauses, ik, main, used, arm, pub>>

request_stop ==
    /\ ~STOP
    /\ STOP' = TRUE /\ PAUSED' = FALSE
    /\ UNCHANGED <<pauses, ik, main, loop, arm, pub>>

-----------------------------------------------------------------------------
(* LatestIkWorker: the worker thread.                                      *)

WorkerWaits ==
    /\ worker = "check" /\ pending = None /\ ~ikStop
    /\ worker' = "waiting"
    /\ UNCHANGED <<next_sequence, pending, latest, ikStop, solving, taken, main, loop,
                   flags, arm, pub>>

WorkerEnds ==
    /\ worker = "check" /\ ikStop
    /\ worker' = "ended"
    /\ UNCHANGED <<next_sequence, pending, latest, ikStop, solving, taken, main, loop,
                   flags, arm, pub>>

WorkerTakes ==
    /\ worker = "check" /\ pending # None /\ ~ikStop
    /\ worker' = "solving" /\ solving' = pending /\ pending' = None
    /\ taken' = pending
    /\ UNCHANGED <<next_sequence, latest, ikStop, main, loop, flags, arm, pub>>

Solved ==
    /\ worker = "solving"
    /\ worker' = "check" /\ latest' = solving /\ solving' = None
    /\ UNCHANGED <<next_sequence, pending, ikStop, taken, main, loop, flags, arm, pub>>

SolveFails ==
    /\ worker = "solving"
    /\ worker' = "check" /\ solving' = None
    /\ UNCHANGED <<next_sequence, pending, latest, ikStop, taken, main, loop, flags,
                   arm, pub>>

(* Condition.notify: the worker is the only thread that waits.             *)
Notified == IF worker = "waiting" THEN "check" ELSE worker

-----------------------------------------------------------------------------
(* The main thread follows the operator.                                   *)

MainGoto(from, place) == main = from /\ main' = place

StartWorker ==
    /\ MainGoto("start", "loop")
    /\ worker' = "check" /\ ikStop' = FALSE
    /\ UNCHANGED <<next_sequence, pending, latest, solving, taken, loop, flags, arm, pub>>

LoopExits ==
    /\ STOP /\ MainGoto("loop", "close")
    /\ UNCHANGED <<ik, loop, flags, arm, pub>>

(* Without a sample of the XR device the loop stays where it is.           *)
LoopFollows ==
    /\ ~STOP /\ ~PAUSED /\ next_sequence < MaxRequests
    /\ MainGoto("loop", "submit")
    /\ UNCHANGED <<ik, loop, flags, arm, pub>>

(* Mutants: the request that waits is kept; the worker is not woken.       *)
SubmitKeepsOld ==
    /\ MainGoto("submit", "take")
    /\ next_sequence' = next_sequence + 1
    /\ pending' = IF pending = None THEN next_sequence + 1 ELSE pending
    /\ worker' = Notified
    /\ UNCHANGED <<latest, ikStop, solving, taken, loop, flags, arm, pub>>

SubmitSilent ==
    /\ MainGoto("submit", "take")
    /\ next_sequence' = next_sequence + 1
    /\ pending' = next_sequence + 1
    /\ UNCHANGED <<latest, ikStop, worker, solving, taken, loop, flags, arm, pub>>

submit ==
    /\ MainGoto("submit", "take")
    /\ next_sequence' = next_sequence + 1
    /\ pending' = next_sequence + 1
    /\ worker' = Notified
    /\ UNCHANGED <<latest, ikStop, solving, taken, loop, flags, arm, pub>>

(* latest_after: a solution is used once, and none older than it later.    *)
NothingNew ==
    /\ latest <= used /\ MainGoto("take", "loop")
    /\ UNCHANGED <<ik, loop, flags, arm, pub>>

(* Mutant: the last solution is taken again when there is no newer one.    *)
TakesAgain ==
    /\ latest # None /\ MainGoto("take", "apply")
    /\ used' = latest
    /\ UNCHANGED <<ik, resumedAt, stale, flags, arm, pub>>

TakesLatest ==
    /\ latest > used /\ MainGoto("take", "apply")
    /\ used' = latest
    /\ UNCHANGED <<ik, resumedAt, stale, flags, arm, pub>>

ctrl_dual_arm ==
    /\ MainGoto("apply", "loop")
    /\ q_target' = "solution"
    /\ stale' = IF used <= resumedAt /\ stale < 4 THEN stale + 1 ELSE stale
    /\ UNCHANGED <<ik, used, resumedAt, flags, attempts, weight, pub>>

(* An exception, or KeyboardInterrupt, anywhere before the finally.        *)
IterationFails ==
    /\ main \in {"start", "loop", "submit", "take", "apply"}
    /\ main' = "close"
    /\ UNCHANGED <<ik, loop, flags, arm, pub>>

-----------------------------------------------------------------------------
(* The main thread cleans up.                                              *)

close ==
    /\ MainGoto("close", "join")
    /\ ikStop' = (worker # "none") /\ pending' = None
    /\ worker' = Notified
    /\ UNCHANGED <<next_sequence, latest, solving, taken, loop, flags, arm, pub>>

(* Mutant: a join without a timeout.                                       *)
JoinForever ==
    /\ worker \in {"none", "ended"}
    /\ MainGoto("join", "home")
    /\ UNCHANGED <<ik, loop, flags, arm, pub>>

(* The join of 1 s ends with the thread, or without it: then the solution  *)
(* in progress is computed and never used.                                 *)
Join ==
    /\ MainGoto("join", "home")
    /\ UNCHANGED <<ik, loop, flags, arm, pub>>

(* The torques of the last solution stay (the code resets q only).         *)
ctrl_dual_arm_go_home ==
    /\ MainGoto("home", "homing")
    /\ q_target' = "home"
    /\ UNCHANGED <<ik, loop, flags, attempts, weight, pub>>

NotYetHome ==
    /\ attempts < MaxAttempts /\ main = "homing"
    /\ attempts' = attempts + 1
    /\ UNCHANGED <<ik, main, loop, flags, q_target, weight, pub>>

GiveUp ==
    /\ attempts = MaxAttempts /\ MainGoto("homing", "done")
    /\ UNCHANGED <<ik, loop, flags, arm, pub>>

(* All joints are near zero: done, or in motion mode release the arms:     *)
(* linspace(1, 0) begins with the weight the arms have.                    *)
HomeReached ==
    /\ attempts < MaxAttempts
    /\ MainGoto("homing", IF MotionMode THEN "sleep" ELSE "done")
    /\ weight' = MaxWeight /\ cycles' = 0
    /\ UNCHANGED <<ik, loop, flags, q_target, attempts, publisher,
                   msg, crc, accepted>>

(* The next weight, after sleep(0.02): the publish thread, which runs every *)
(* 4 ms, has gone through its cycle since.                                 *)
ReleaseMore ==
    /\ main = "sleep" /\ cycles = Cycles /\ weight > 0
    /\ weight' = weight - 1 /\ cycles' = 0
    /\ UNCHANGED <<ik, main, loop, flags, q_target, attempts,
                   publisher, msg, crc, accepted>>

(* Mutant: no sleep after the last weight.                                 *)
ReleasedAtOnce ==
    /\ weight = 0 /\ MainGoto("sleep", "done")
    /\ UNCHANGED <<ik, loop, flags, arm, pub>>

Released ==
    /\ cycles = Cycles /\ weight = 0 /\ MainGoto("sleep", "done")
    /\ UNCHANGED <<ik, loop, flags, arm, pub>>

-----------------------------------------------------------------------------
(* The publish thread: _ctrl_motor_state.  The message is shared with go   *)
(* home, which writes the weight without a lock.                           *)

(* Read the targets under the lock, clip them, and fill the message.       *)
FillMessage ==
    /\ publisher = "get" /\ publisher' = "crc"
    /\ msg' = q_target
    /\ UNCHANGED <<ik, main, loop, flags, arm, crc, cycles, accepted>>

CheckSum ==
    /\ publisher = "crc" /\ publisher' = "write"
    /\ crc' = weight
    /\ UNCHANGED <<ik, main, loop, flags, arm, msg, cycles, accepted>>

(* A weight set since the check sum makes the message invalid.             *)
WriteMessage ==
    /\ publisher = "write" /\ publisher' = "get"
    /\ accepted' = IF crc = weight
                   THEN [q |-> msg, weight |-> weight]
                   ELSE accepted
    /\ cycles' = IF main = "sleep" /\ cycles < Cycles THEN cycles + 1 ELSE cycles
    /\ UNCHANGED <<ik, main, loop, flags, arm, msg, crc>>

-----------------------------------------------------------------------------
WorkerStep == WorkerWaits \/ WorkerEnds \/ WorkerTakes

SolveEnds == Solved \/ SolveFails

Iteration ==
    \/ StartWorker \/ LoopExits \/ LoopFollows \/ submit \/ NothingNew \/ TakesLatest \/ ctrl_dual_arm

CleanUp ==
    \/ close \/ Join \/ ctrl_dual_arm_go_home \/ NotYetHome \/ GiveUp
    \/ HomeReached \/ ReleaseMore \/ Released

Publish == FillMessage \/ CheckSum \/ WriteMessage

Operator == request_pause \/ request_resume \/ request_stop

Next ==
    \/ WorkerStep \/ SolveEnds \/ Iteration \/ IterationFails \/ CleanUp
    \/ Publish \/ Operator

Spec == Init /\ [][Next]_vars

(* The threads are scheduled; a solve may take for ever, and nothing is    *)
(* asked of the operator.                                                  *)
FairSpec ==
    /\ Spec
    /\ WF_vars(WorkerStep) /\ WF_vars(CleanUp) /\ WF_vars(Publish)

-----------------------------------------------------------------------------
(* The worker never turns to a target while there is a newer one, so that  *)
(* the robot does not execute a queue of old poses; what the loop uses is  *)
(* never repeated and never older than what it used, failed solves or not. *)
Exchange == INSTANCE LatestValue WITH newest <- next_sequence, chosen <- taken
ImplementsLatestValue == Exchange!Spec

(* After a resume the arms still get targets from before it: the solution  *)
(* nobody used, the one in progress, the one pending and the one the loop  *)
(* holds, but never all four.                                              *)
StaleTargetsBounded == stale <= 3

(* In motion mode arms that reached home are handed back: the last message *)
(* the robot can accept, when go home returns, has their weight at zero    *)
(* and home as the target, although the weight is written while the other  *)
(* thread computes check sums.                                             *)
HandsOverAtHome ==
    main = "done" /\ MotionMode /\ attempts < MaxAttempts =>
        accepted.q = "home" /\ accepted.weight = 0

(* A request wakes the worker: no notification is lost between its look at *)
(* the pending request and its wait.                                       *)
RequestIsTaken ==
    (pending # None /\ solving = None) ~> (solving # None \/ main = "done")

(* A stop ends everything: the cleanup ends, with the arms sent home, even  *)
(* if a solve never ends and the arms never arrive, and a worker that is    *)
(* not in the middle of a solve ends when it is closed.                     *)
CleanUpEnds ==
    /\ (main = "close") ~> (main = "done")
    /\ (ikStop /\ worker # "solving") ~> (worker = "ended")
=============================================================================
