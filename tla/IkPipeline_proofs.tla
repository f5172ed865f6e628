------------------------- MODULE IkPipeline_proofs -------------------------
(***************************************************************************)
(* Proofs about IkPipeline, for any number of targets, pauses, attempts    *)
(* and weights: its types, that the worker is a latest-value exchange, and *)
(* the bound on targets from before a resume.                              *)
(***************************************************************************)
EXTENDS IkPipeline, TLAPS

USE PipelineAssumption

(* A target is only submitted while the bound allows another one.          *)
Room == main = "submit" => next_sequence < MaxRequests

(* There is no worker thread before the loop starts it.                    *)
NoWorkerYet == main = "start" => worker = "none"

(* The inductive type invariant.                                           *)
Typed == TypeOK /\ Room /\ NoWorkerYet

LEMMA TypedStep == Typed /\ [Next]_vars => Typed'
<1> SUFFICES ASSUME Typed, [Next]_vars PROVE Typed'
  OBVIOUS
<1> USE DEF Typed, Room, NoWorkerYet, TypeOK, WorkerTypeOK, LoopTypeOK, ArmTypeOK, Requests,
            Messages, Targets, MainPlaces, WorkerPlaces, None, Cycles, MainGoto,
            ik, loop, flags, arm, pub
<1>1. CASE WorkerStep
  BY <1>1 DEF WorkerStep, WorkerWaits, WorkerEnds, WorkerTakes
<1>2. CASE SolveEnds
  BY <1>2 DEF SolveEnds, Solved, SolveFails
<1>3. CASE Iteration
  <2>1. CASE StartWorker
    BY <2>1 DEF StartWorker
  <2>2. CASE LoopExits
    BY <2>2 DEF LoopExits
  <2>3. CASE LoopFollows
    BY <2>3 DEF LoopFollows
  <2>4. CASE submit
    BY <2>4 DEF submit, Notified
  <2>5. CASE NothingNew
    BY <2>5 DEF NothingNew
  <2>6. CASE TakesLatest
    BY <2>6 DEF TakesLatest
  <2>7. CASE ctrl_dual_arm
    BY <2>7 DEF ctrl_dual_arm
  <2> QED
    BY <1>3, <2>1, <2>2, <2>3, <2>4, <2>5, <2>6, <2>7 DEF Iteration
<1>4. CASE IterationFails
  BY <1>4 DEF IterationFails
<1>5. CASE CleanUp
  <2>1. CASE close
    BY <2>1 DEF close, Notified
  <2>2. CASE Join \/ ctrl_dual_arm_go_home
    BY <2>2 DEF Join, ctrl_dual_arm_go_home
  <2>3. CASE NotYetHome \/ GiveUp
    BY <2>3 DEF NotYetHome, GiveUp
  <2>4. CASE HomeReached
    BY <2>4 DEF HomeReached
  <2>5. CASE ReleaseMore \/ Released
    BY <2>5 DEF ReleaseMore, Released
  <2> QED
    BY <1>5, <2>1, <2>2, <2>3, <2>4, <2>5 DEF CleanUp
<1>6. CASE Publish
  <2>1. CASE FillMessage \/ CheckSum
    BY <2>1 DEF FillMessage, CheckSum
  <2>2. CASE WriteMessage
    BY <2>2 DEF WriteMessage
  <2> QED
    BY <1>6, <2>1, <2>2 DEF Publish
<1>7. CASE Operator
  <2>1. CASE request_pause
    BY <2>1 DEF request_pause
  <2>2. CASE request_resume
    <3>1. {PAUSED', STOP'} \subseteq BOOLEAN
      BY <2>2, Zenon DEF request_resume
    <3>2. WorkerTypeOK' /\ ArmTypeOK' /\ main' = main /\ pauses' = pauses
      BY <2>2 DEF request_resume
    <3>3. resumedAt' \in Requests /\ stale' \in 0..4
      BY <2>2 DEF request_resume
    <3> QED
      BY <3>1, <3>2, <3>3, <2>2 DEF request_resume
  <2>3. CASE request_stop
    <3>1. {PAUSED', STOP'} \subseteq BOOLEAN
      BY <2>3, Zenon DEF request_stop
    <3>2. WorkerTypeOK' /\ ArmTypeOK' /\ main' = main /\ pauses' = pauses
      BY <2>3 DEF request_stop
    <3> QED
      BY <3>1, <3>2, <2>3 DEF request_stop
  <2> QED
    BY <1>7, <2>1, <2>2, <2>3 DEF Operator
<1>8. CASE UNCHANGED vars
  BY <1>8 DEF vars
<1> QED
  BY <1>1, <1>2, <1>3, <1>4, <1>5, <1>6, <1>7, <1>8 DEF Next

LEMMA TypedInit == Init => Typed
<1> SUFFICES ASSUME Init PROVE Typed
  OBVIOUS
<1> USE DEF Init, Requests, Messages, Targets, MainPlaces, WorkerPlaces, None,
            Cycles
<1>1. WorkerTypeOK
  <2>1. ikStop \in BOOLEAN
    BY Zenon
  <2> QED
    BY <2>1 DEF WorkerTypeOK
<1>2. LoopTypeOK
  <2>1. PAUSED \in BOOLEAN /\ STOP \in BOOLEAN
    BY Zenon
  <2> QED
    BY <2>1 DEF LoopTypeOK
<1>3. ArmTypeOK
  BY DEF ArmTypeOK
<1> QED
  BY <1>1, <1>2, <1>3 DEF Typed, Room, NoWorkerYet, TypeOK

(* Every reachable state is well typed: no bound of the code is passed.    *)
THEOREM TypeCorrect == Spec => []TypeOK
<1>1. Typed => TypeOK
  BY DEF Typed
<1> QED
  BY <1>1, TypedInit, TypedStep, PTL DEF Spec
-----------------------------------------------------------------------------
(* Requests pass through the worker in order: what waits is the newest,    *)
(* what is being solved is the last one taken.                             *)
InOrder ==
    /\ used <= latest /\ latest <= taken /\ taken <= next_sequence
    /\ pending # None => pending = next_sequence /\ taken < pending
    /\ solving # None => solving = taken /\ latest < solving

(* A request is held exactly while it is being solved.                     *)
Holding == worker = "solving" <=> solving # None

Ordered == InOrder /\ Holding

LEMMA OrderedStep == Typed /\ Ordered /\ [Next]_vars => Ordered'
<1> SUFFICES ASSUME Typed, Ordered, [Next]_vars PROVE Ordered'
  OBVIOUS
<1> USE DEF Typed, NoWorkerYet, TypeOK, WorkerTypeOK, Requests, WorkerPlaces, None,
            Ordered, InOrder, Holding, MainGoto, ik, loop
<1>1. CASE WorkerStep
  BY <1>1 DEF WorkerStep, WorkerWaits, WorkerEnds, WorkerTakes
<1>2. CASE SolveEnds
  BY <1>2 DEF SolveEnds, Solved, SolveFails
<1>3. CASE submit
  BY <1>3 DEF submit, Notified
<1>4. CASE TakesLatest
  BY <1>4 DEF TakesLatest
<1>5. CASE close
  BY <1>5 DEF close, Notified
<1>6. CASE StartWorker
  BY <1>6 DEF StartWorker
<1>7. CASE UNCHANGED <<ik, used>>
  BY <1>7
<1> QED
  BY <1>1, <1>2, <1>3, <1>4, <1>5, <1>6, <1>7 DEF Next, vars, Iteration,
     LoopExits, LoopFollows, NothingNew, ctrl_dual_arm, IterationFails,
     CleanUp, Join, ctrl_dual_arm_go_home, NotYetHome, GiveUp, HomeReached,
     ReleaseMore, Released, Publish, FillMessage, CheckSum, WriteMessage,
     Operator, request_pause, request_resume, request_stop

LEMMA OrderedInit == Init => Ordered
<1> SUFFICES ASSUME Init PROVE Ordered
  OBVIOUS
<1> QED
  BY DEF Init, Ordered, InOrder, Holding, None

(* The worker is a latest-value exchange: it turns only to the newest      *)
(* request, and the loop uses solutions in order and never twice.          *)
THEOREM IsLatestValueExchange == Spec => ImplementsLatestValue
<1>1. Init => Exchange!Init
  BY DEF Init, Exchange!Init, None
<1>2. ASSUME Typed, Ordered, [Next]_vars
      PROVE  [Exchange!Next]_<<next_sequence, taken, used>>
  <2> USE <1>2 DEF Typed, TypeOK, WorkerTypeOK, Requests, Ordered, InOrder, None,
                   MainGoto, ik, loop
  <2>1. CASE WorkerTakes
    BY <2>1 DEF WorkerTakes, Exchange!Next, Exchange!Choose
  <2>2. CASE submit
    BY <2>2 DEF submit, Exchange!Next, Exchange!Submit
  <2>3. CASE TakesLatest
    <3>1. used' \in (used + 1)..taken
      BY <2>3 DEF TakesLatest
    <3> QED
      BY <2>3, <3>1 DEF TakesLatest, Exchange!Next, Exchange!Use
  <2>4. CASE UNCHANGED <<next_sequence, taken, used>>
    BY <2>4
  <2> QED
    BY <2>1, <2>2, <2>3, <2>4 DEF Next, vars, WorkerStep, WorkerWaits,
       WorkerEnds, SolveEnds, Solved, SolveFails, Iteration, StartWorker,
       LoopExits, LoopFollows, NothingNew, ctrl_dual_arm, IterationFails,
       CleanUp, close, Join, ctrl_dual_arm_go_home, NotYetHome, GiveUp,
       HomeReached, ReleaseMore, Released, Publish, FillMessage, CheckSum,
       WriteMessage, Operator, request_pause, request_resume, request_stop
<1> QED
  BY <1>1, <1>2, TypedInit, OrderedInit, TypedStep, OrderedStep,
     PTL DEF Spec, ImplementsLatestValue, Exchange!Spec
-----------------------------------------------------------------------------
(* What may still become a target from before the last resume: one each    *)
(* for what the loop holds, the solution not used, the request in progress *)
(* and the one that waits.                                                 *)
One(holds) == IF holds THEN 1 ELSE 0

HeldOld    == main = "apply" /\ used <= resumedAt
UnusedOld  == latest > used /\ latest <= resumedAt
SolvingOld == solving # None /\ solving <= resumedAt
PendingOld == pending # None /\ pending <= resumedAt

Left == One(HeldOld) + One(UnusedOld) + One(SolvingOld) + One(PendingOld)

(* While the loop holds a solution it submits nothing, so that one of the  *)
(* other three places is empty.                                            *)
NeverFour ==
    ~(main = "apply" /\ latest > used /\ solving # None /\ pending # None)

(* The solutions used and those left are three at most.                    *)
FewLeft ==
    /\ resumedAt <= next_sequence
    /\ NeverFour
    /\ stale + Left <= 3

LEMMA FewLeftStep == Typed /\ Ordered /\ FewLeft /\ [Next]_vars => FewLeft'
<1> SUFFICES ASSUME Typed, Ordered, FewLeft, [Next]_vars PROVE FewLeft'
  OBVIOUS
<1> USE DEF Typed, TypeOK, WorkerTypeOK, LoopTypeOK, Requests, None, Ordered,
            InOrder, Holding, MainGoto, FewLeft, NeverFour, Left, One, HeldOld,
            UnusedOld, SolvingOld, PendingOld, ik, loop
<1>1. CASE WorkerStep
  BY <1>1 DEF WorkerStep, WorkerWaits, WorkerEnds, WorkerTakes
<1>2. CASE SolveEnds
  BY <1>2 DEF SolveEnds, Solved, SolveFails
<1>3. CASE submit
  BY <1>3 DEF submit
<1>4. CASE TakesLatest
  BY <1>4 DEF TakesLatest
<1>5. CASE ctrl_dual_arm
  BY <1>5 DEF ctrl_dual_arm
<1>6. CASE close
  BY <1>6 DEF close
<1>7. CASE request_resume
  BY <1>7 DEF request_resume
<1>8. CASE /\ UNCHANGED <<next_sequence, pending, latest, solving, loop>>
           /\ main' = main \/ main' # "apply"
  BY <1>8
<1> QED
  BY <1>1, <1>2, <1>3, <1>4, <1>5, <1>6, <1>7, <1>8 DEF Next, vars,
     Iteration, StartWorker, LoopExits, LoopFollows, NothingNew,
     IterationFails, CleanUp, Join, ctrl_dual_arm_go_home, NotYetHome, GiveUp,
     HomeReached, ReleaseMore, Released, Publish, FillMessage, CheckSum,
     WriteMessage, Operator, request_pause, request_stop

(* After a resume at most three targets from before it reach the arms.     *)
THEOREM StaleIsBounded == Spec => []StaleTargetsBounded
<1>1. Init => FewLeft
  <2> SUFFICES ASSUME Init PROVE FewLeft
    OBVIOUS
  <2> QED
    BY DEF Init, FewLeft, NeverFour, Left, One, HeldOld, UnusedOld, SolvingOld,
           PendingOld, None
<1>2. Typed /\ FewLeft => StaleTargetsBounded
  BY DEF Typed, TypeOK, LoopTypeOK, FewLeft, Left, One, StaleTargetsBounded
<1> QED
  BY <1>1, <1>2, TypedInit, OrderedInit, TypedStep, OrderedStep, FewLeftStep,
     PTL DEF Spec
-----------------------------------------------------------------------------
(* Once go home began, home is the target.                                 *)
TargetIsHome == main \in {"homing", "sleep", "done"} => q_target = "home"

(* A message begun since the weight was set: home, and a valid check sum.  *)
GoodSoFar ==
    /\ publisher # "get" => msg = "home"
    /\ publisher = "write" => crc = weight

HandedBack == MotionMode /\ main = "done" /\ attempts < MaxAttempts

(* The first message written during a sleep may be spoilt by the change of *)
(* the weight; from then on every message is good, and the second one is   *)
(* accepted.                                                               *)
Releasing ==
    /\ (main = "sleep" /\ cycles > 0) \/ HandedBack => GoodSoFar
    /\ (main = "sleep" /\ cycles = Cycles) \/ HandedBack =>
          accepted.q = "home" /\ accepted.weight = weight
    /\ HandedBack => weight = 0

Release == TargetIsHome /\ Releasing

LEMMA ReleaseStep == Typed /\ Release /\ [Next]_vars => Release'
<1> SUFFICES ASSUME Typed, Release, [Next]_vars PROVE Release'
  OBVIOUS
<1> USE DEF Typed, TypeOK, ArmTypeOK, Release, TargetIsHome, Releasing,
            GoodSoFar, HandedBack, Cycles, MainGoto, arm, pub
<1>1. CASE FillMessage
  BY <1>1 DEF FillMessage
<1>2. CASE CheckSum
  BY <1>2 DEF CheckSum
<1>3. CASE WriteMessage
  BY <1>3 DEF WriteMessage
<1>4. CASE ctrl_dual_arm_go_home
  BY <1>4 DEF ctrl_dual_arm_go_home
<1>5. CASE NotYetHome \/ GiveUp
  BY <1>5 DEF NotYetHome, GiveUp
<1>6. CASE HomeReached
  BY <1>6 DEF HomeReached
<1>7. CASE ReleaseMore
  BY <1>7 DEF ReleaseMore
<1>8. CASE Released
  BY <1>8 DEF Released
<1>9. CASE /\ UNCHANGED <<attempts, weight, pub>>
           /\ \/ main' = main /\ UNCHANGED q_target
              \/ main' \notin {"homing", "sleep", "done"}
  BY <1>9
<1> QED
  BY <1>1, <1>2, <1>3, <1>4, <1>5, <1>6, <1>7, <1>8, <1>9 DEF Next, vars,
     WorkerStep, WorkerWaits, WorkerEnds, WorkerTakes, SolveEnds, Solved,
     SolveFails, Iteration, StartWorker, LoopExits, LoopFollows, submit,
     NothingNew, TakesLatest, ctrl_dual_arm, IterationFails, CleanUp, close,
     Join, Publish, Operator, request_pause, request_resume, request_stop

(* Arms that reached home are handed back with their weight at zero, in a  *)
(* message the robot accepts.                                              *)
THEOREM HandedBackAtHome == Spec => []HandsOverAtHome
<1>1. Init => Release
  BY DEF Init, Release, TargetIsHome, Releasing, HandedBack
<1>2. Release => HandsOverAtHome
  BY DEF Release, Releasing, HandedBack, HandsOverAtHome
<1> QED
  BY <1>1, <1>2, TypedInit, TypedStep, ReleaseStep, PTL DEF Spec
-----------------------------------------------------------------------------
(* The safety half of RequestIsTaken: nothing that the worker has to do is *)
(* there while it waits on the condition variable.  Its look at the        *)
(* request and its wait are one section under the lock, and whoever gives  *)
(* it something to do wakes it in the section that does (_run, submit,     *)
(* close).                                                                 *)
NoLostWakeUp == worker = "waiting" => pending = None /\ ~ikStop

(* The worker never waits while there is something to do: NoLostWakeUp      *)
(* holds in every behaviour (LatestIkWorker).                              *)
THEOREM NoWakeUpIsLost == Spec => []NoLostWakeUp
<1>1. Init => NoLostWakeUp
  BY DEF Init, NoLostWakeUp
<1>2. NoLostWakeUp /\ [Next]_vars => NoLostWakeUp'
  <2> SUFFICES ASSUME NoLostWakeUp, [Next]_vars, worker' = "waiting"
               PROVE  pending' = None /\ ~ikStop'
    BY DEF NoLostWakeUp
  <2>1. CASE WorkerWaits
    BY <2>1 DEF WorkerWaits
  <2>2. CASE worker' # "waiting"
    BY <2>2
  <2>3. CASE UNCHANGED <<worker, pending, ikStop>>
    BY <2>3 DEF NoLostWakeUp
  <2>4. \/ WorkerWaits \/ worker' # "waiting"
        \/ UNCHANGED <<worker, pending, ikStop>>
    BY DEF Next, vars, WorkerStep, WorkerEnds, WorkerTakes, SolveEnds, Solved,
       SolveFails, Iteration, StartWorker, LoopExits, LoopFollows, submit,
       NothingNew, TakesLatest, ctrl_dual_arm, IterationFails, CleanUp, close,
       Notified, Join, ctrl_dual_arm_go_home, NotYetHome, GiveUp, HomeReached,
       ReleaseMore, Released, Publish, FillMessage, CheckSum, WriteMessage,
       Operator, request_pause, request_resume, request_stop, ik
  <2> QED BY <2>1, <2>2, <2>3, <2>4
<1> QED BY <1>1, <1>2, PTL DEF Spec
=============================================================================
