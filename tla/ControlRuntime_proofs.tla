------------------------ MODULE ControlRuntime_proofs ------------------------
(***************************************************************************)
(* What TLAPS proves of ControlRuntime, for any number of generations, any *)
(* bound of the pipes and any set of callers.  Beside the types, three     *)
(* inductive predicates carry the safety of the supervisor: Owner (which   *)
(* generation owns the process, the connection and the open pipe), Late    *)
(* (what a monitor may still hold of an earlier generation) and Taken      *)
(* (what a caller in the middle of a stop took).                           *)
(***************************************************************************)
EXTENDS ControlRuntime, TLAPS

(* Facts about the pipes, as sequences of states.                          *)
LEMMA EmptyPipe == <<>> \in Seq(States)
  OBVIOUS

LEMMA PipeReceives ==
  ASSUME NEW s \in Seq(States), s # <<>>
  PROVE  Head(s) \in States /\ Tail(s) \in Seq(States)
  OBVIOUS

LEMMA PipeSends ==
  ASSUME NEW s \in Seq(States), NEW e \in States
  PROVE  Append(s, e) \in Seq(States)
  OBVIOUS

(* Only members of States are ever in the pipes.                           *)
LEMMA ReportsAreStates ==
  ASSUME NEW g \in Gens, NEW u, NEW e
  PROVE  Child(g)!Reports(u, e) \subseteq States
  BY DEF Child!Reports, States

(* dispose empties the pipe of the connection and leaves the others.       *)
LEMMA DisposeTypes ==
  ASSUME TypeOK, dispose
  PROVE  /\ process' \in 0..MaxGen /\ connection' \in 0..MaxGen
         /\ open' \subseteq Gens /\ disposed' \subseteq Gens
         /\ pipe' \in [Gens -> Seq(States)]
<1> USE RuntimeAssumption DEF RuntimeAssumption, TypeOK, ParentOK, ChildOK
<1>1. pipe' \in [Gens -> Seq(States)]
  BY EmptyPipe DEF dispose
<1>2. process' \in 0..MaxGen /\ connection' \in 0..MaxGen
  BY DEF dispose
<1>3. open' \subseteq Gens
  BY DEF dispose
<1>4. disposed' \subseteq Gens
  BY DEF dispose, Gens
<1> QED BY <1>1, <1>2, <1>3, <1>4

(* A send that failed returns to the teleop command, or goes on to join.   *)
LEMMA FailSendTypes ==
  ASSUME CallersOK, NEW c \in Callers, FailSend(c), UNCHANGED wish
  PROVE  CallersOK'
<1> USE RuntimeAssumption DEF RuntimeAssumption, CallersOK, CallerPlaces
<1>1. CASE c = "loop"
  BY <1>1 DEF FailSend, Return
<1>2. CASE c # "loop"
  BY <1>2 DEF FailSend, Go
<1> QED BY <1>1, <1>2

-----------------------------------------------------------------------------
(* The variables keep their types.                                         *)

LEMMA TypeInit == Init => TypeOK
<1> SUFFICES ASSUME Init PROVE TypeOK
  OBVIOUS
<1> USE RuntimeAssumption DEF Init, RuntimeAssumption
<1>1. ParentOK
  <2>1. process \in 0..MaxGen /\ connection \in 0..MaxGen /\ gen \in 0..MaxGen
    OBVIOUS
  <2> QED BY <2>1 DEF ParentOK, States
<1>2. CallersOK
  BY DEF CallersOK, CallerPlaces, States
<1>3. MonitorOK
  BY DEF MonitorOK, MonitorPlaces, States
<1>4. ChildOK
  BY EmptyPipe DEF ChildOK
<1> QED BY <1>1, <1>2, <1>3, <1>4 DEF TypeOK

LEMMA TypeStep == TypeOK /\ [Next]_vars => TypeOK'
<1> SUFFICES ASSUME TypeOK, [Next]_vars PROVE TypeOK'
  OBVIOUS
<1> USE RuntimeAssumption DEF RuntimeAssumption, TypeOK, ParentOK, CallersOK,
    MonitorOK, ChildOK
<1>1. CASE StartAgain
  BY <1>1 DEF StartAgain, Await, Return, Go, CallerPlaces, Callers, parent,
    supervised, monitor, child
<1>2. CASE start_component
  <2>1. gen' \in Gens
    BY <1>2 DEF start_component, Gens
  <2>2. ParentOK'
    <3>1. /\ process' \in 0..MaxGen /\ connection' \in 0..MaxGen
          /\ gen' \in 0..MaxGen
      BY <1>2 DEF start_component
    <3>2. open' \subseteq Gens
      BY <1>2, <2>1 DEF start_component
    <3>3. disposed' \subseteq Gens
      BY <1>2 DEF start_component, Gens
    <3> QED BY <1>2, <3>1, <3>2, <3>3 DEF start_component, States
  <2>3. CallersOK'
    BY <1>2 DEF start_component, Await, Return, Go, CallerPlaces, Callers
  <2>4. MonitorOK'
    BY <1>2, <2>1 DEF start_component, MonitorPlaces
  <2>5. ChildOK'
    BY <1>2, <2>1, EmptyPipe DEF start_component
  <2> QED BY <2>2, <2>3, <2>4, <2>5
<1>3. CASE StartFails
  <2>1. ParentOK'
    BY <1>3, DisposeTypes DEF StartFails, States
  <2>2. CallersOK'
    BY <1>3 DEF StartFails, Go, CallerPlaces, Callers
  <2>3. MonitorOK'
    BY <1>3 DEF StartFails, monitor
  <2>4. ChildOK'
    BY <1>3, DisposeTypes DEF StartFails
  <2> QED BY <2>1, <2>2, <2>3, <2>4
<1>4. CASE wait_until_ready
  BY <1>4 DEF wait_until_ready, Return, CallerPlaces, Callers, parent,
    supervised, monitor, child
<1>5. CASE NotReady
  BY <1>5 DEF NotReady, Go, CallerPlaces, Callers, parent, supervised, monitor,
    child
<1>6. ASSUME NEW c \in Stoppers, StopFinished(c) \/ StopEnds(c)
      PROVE  TypeOK'
  <2>1. ParentOK'
    BY <1>6, DisposeTypes DEF StopFinished, StopEnds, States
  <2>2. CallersOK'
    BY <1>6 DEF StopFinished, StopEnds, Return, CallerPlaces, Callers
  <2>3. MonitorOK'
    BY <1>6 DEF StopFinished, StopEnds, monitor
  <2>4. ChildOK'
    BY <1>6, DisposeTypes DEF StopFinished, StopEnds
  <2> QED BY <2>1, <2>2, <2>3, <2>4
<1>7. ASSUME NEW c \in Stoppers, StopBegins(c)
      PROVE  TypeOK'
  BY <1>7 DEF StopBegins, Go, CallerPlaces, Callers, supervised, monitor, child,
    States
<1>8. ASSUME NEW c \in Stoppers, JoinRaises(c) \/ Joined(c) \/ Raised(c)
      PROVE  TypeOK'
  <2>1. CASE JoinRaises(c)
    BY <1>8, <2>1 DEF JoinRaises, Return, Go, CallerPlaces, Callers, parent,
      supervised, monitor, child
  <2>2. CASE Joined(c)
    BY <1>8, <2>2 DEF Joined, Return, Go, CallerPlaces, Callers, parent,
      supervised, monitor, child
  <2>3. CASE Raised(c)
    BY <1>8, <2>3 DEF Raised, Return, Go, CallerPlaces, Callers, parent,
      supervised, monitor, child
  <2> QED BY <1>8, <2>1, <2>2, <2>3
<1>9. ASSUME NEW c \in Stoppers, JoinTimesOut(c)
      PROVE  TypeOK'
  <2>1. ParentOK' /\ CallersOK' /\ MonitorOK'
    BY <1>9 DEF JoinTimesOut, Go, CallerPlaces, Callers, parent, supervised,
      monitor
  <2>2. ChildOK'
    BY <1>9 DEF JoinTimesOut, Dies
  <2> QED BY <2>1, <2>2
<1>10. ASSUME NEW c \in Stoppers, StopMonitor(c) \/ StopFails(c)
       PROVE  TypeOK'
  <2>1. CASE StopMonitor(c)
    BY <2>1 DEF StopMonitor, Go, CallerPlaces, Callers, monitor, child
  <2>2. CASE StopFails(c)
    BY <2>2 DEF StopFails, Return, CallerPlaces, Callers, supervised, monitor,
      child, States
  <2> QED BY <1>10, <2>1, <2>2
<1>11. ASSUME NEW c \in Callers, SendUnconnected(c) \/ TakeConnection(c)
       PROVE  TypeOK'
  <2>1. CASE SendUnconnected(c)
    <3>1. CallersOK'
      BY <2>1, FailSendTypes DEF SendUnconnected
    <3> QED
      BY <2>1, <3>1 DEF SendUnconnected, parent, supervised, monitor, child
  <2>2. CASE TakeConnection(c)
    BY <2>2 DEF TakeConnection, Go, CallerPlaces, parent, supervised, monitor,
      child
  <2> QED BY <1>11, <2>1, <2>2
<1>12. ASSUME NEW c \in Callers, SendSucceeds(c)
       PROVE  TypeOK'
  BY <1>12 DEF SendSucceeds, Reachable, Go, CallerPlaces, parent, supervised,
    monitor, child
<1>13. ASSUME NEW c \in Callers, SendFails(c)
       PROVE  TypeOK'
  <2>1. CallersOK'
    BY <1>13, FailSendTypes DEF SendFails
  <2> QED
    BY <1>13, <2>1 DEF SendFails, supervised, monitor, child, States
<1>14. ASSUME NEW s \in Teleop, RequestTeleop(s)
       PROVE  TypeOK'
  BY <1>14 DEF RequestTeleop, Go, CallerPlaces, Callers, parent, supervised,
    monitor, child, States
<1>15. CASE TeleopSets
  BY <1>15 DEF TeleopSets, Return, CallerPlaces, Callers, supervised, monitor,
    child
<1>16. ASSUME NEW g \in Gens, MonStep(g)
       PROVE  TypeOK'
  <2>1. CASE MonReceives(g)
    BY <2>1, PipeReceives DEF MonReceives, HasMessage, MonGo, MonitorPlaces,
      parent, supervised, callers
  <2>2. CASE MonApplies(g)
    <3>1. mon' \in [Gens -> MonitorPlaces]
      BY <2>2 DEF MonApplies, MonGo, MonitorPlaces
    <3>2. stale' \in [Gens -> 0..2]
      <4>1. CASE stale' = stale
        BY <4>1
      <4>2. CASE stale[g] # 2 /\ stale' = [stale EXCEPT ![g] = @ + 1]
        <5>1. stale[g] \in 0..2 /\ stale[g] # 2
          BY <4>2
        <5>2. stale[g] + 1 \in 0..2
          BY <5>1
        <5> QED BY <4>2, <5>2
      <4> QED BY <2>2, <4>1, <4>2 DEF MonApplies
    <3>3. held' \in [Gens -> States] /\ state' \in States
      BY <2>2 DEF MonApplies, States
    <3> QED
      BY <2>2, <3>1, <3>2, <3>3 DEF MonApplies, supervised, callers, child
  <2>3. CASE MonReports(g)
    BY <2>3 DEF MonReports, MonGo, MonitorPlaces, supervised, callers, child,
      States
  <2>4. CASE \/ MonContinues(g) \/ MonStops(g) \/ MonQuiet(g)
             \/ MonRaises(g) \/ MonChecks(g)
    BY <2>4 DEF MonContinues, MonStops, MonQuiet, MonRaises, MonChecks, MonGo,
      MonitorPlaces, parent, supervised, callers, child
  <2> QED BY <1>16, <2>1, <2>2, <2>3, <2>4 DEF MonStep
<1>17. ASSUME NEW g \in Gens, ChildReports(g)
       PROVE  TypeOK'
  <2>1. PICK s \in States : pipe' = [pipe EXCEPT ![g] = Append(@, s)]
    BY <1>17, ReportsAreStates DEF ChildReports
  <2> QED
    BY <1>17, <2>1, PipeSends DEF ChildReports, parent, supervised, callers,
      monitor
<1>18. ASSUME NEW g \in Gens, ChildSetsUp(g) \/ ChildEnds(g) \/ ChildExits(g)
       PROVE  TypeOK'
  BY <1>18 DEF ChildSetsUp, ChildEnds, ChildExits, Dies, parent, supervised,
    callers, monitor
<1>19. CASE UNCHANGED vars
  BY <1>19 DEF vars
<1> QED
  BY <1>1, <1>2, <1>3, <1>4, <1>5, <1>6, <1>7, <1>8, <1>9, <1>10, <1>11, <1>12,
    <1>13, <1>14, <1>15, <1>16, <1>17, <1>18, <1>19 DEF Next, StopStep, SendStep

(* TypeOK holds in every behaviour.                                        *)
THEOREM TypeCorrect == Spec => []TypeOK
  BY TypeInit, TypeStep, PTL DEF Spec

-----------------------------------------------------------------------------
(* Ownership: the supervised process is the last generation or none; its   *)
(* connection is the only one open; every live process is the supervised   *)
(* one; the Process objects closed are those of earlier generations.       *)
Owner ==
    /\ process \in {0, gen} /\ connection = process
    /\ open = {process} \ {0}
    /\ \A g \in Gens : alive[g] => g = process
    /\ disposed \subseteq 1..gen /\ process \notin disposed

LEMMA OwnerInit == Init => Owner
  BY RuntimeAssumption DEF Init, Owner, RuntimeAssumption, Gens

(* Disposing of a process that is dead leaves no owner.                    *)
LEMMA DisposeOwner ==
  ASSUME TypeOK, Owner, dispose, ~Alive(process),
         UNCHANGED <<gen, alive>>
  PROVE  Owner'
<1> USE RuntimeAssumption DEF RuntimeAssumption, TypeOK, ParentOK, ChildOK, Owner,
    dispose, Alive
<1>1. \A g \in Gens : ~alive[g]
  BY DEF Gens
<1>2. disposed' \subseteq 1..gen /\ 0 \notin disposed'
  BY DEF Gens
<1> QED BY <1>1, <1>2

LEMMA OwnerStep == TypeOK /\ Owner /\ [Next]_vars => Owner'
<1> SUFFICES ASSUME TypeOK, Owner, [Next]_vars PROVE Owner'
  OBVIOUS
<1> USE RuntimeAssumption DEF RuntimeAssumption, TypeOK, ParentOK, ChildOK
<1>1. CASE start_component
  <2>1. gen' = gen + 1 /\ gen' \in Gens /\ process' = gen' /\ connection' = gen'
    BY <1>1 DEF start_component, Gens
  <2>2. \A g \in Gens : ~alive[g]
    BY <1>1 DEF start_component, Owner, Alive, Gens
  <2>3. \A g \in Gens : alive'[g] => g = process'
    BY <1>1, <2>1, <2>2 DEF start_component
  <2>4. open' = {process'} \ {0}
    BY <1>1, <2>1 DEF start_component, Owner, Gens
  <2>5. disposed' \subseteq 1..gen' /\ process' \notin disposed'
    BY <1>1, <2>1 DEF start_component, Owner, Gens
  <2> QED BY <2>1, <2>3, <2>4, <2>5 DEF Owner
<1>2. CASE StartFails
  BY <1>2, DisposeOwner DEF StartFails
<1>3. ASSUME NEW c \in Stoppers, StopFinished(c)
      PROVE  Owner'
  BY <1>3, DisposeOwner DEF StopFinished
<1>4. ASSUME NEW c \in Stoppers, StopEnds(c)
      PROVE  Owner'
  <2>1. CASE Alive(process)
    <3>1. UNCHANGED <<process, connection, gen, open, disposed, alive>>
      BY <1>4, <2>1 DEF StopEnds
    <3> QED BY <3>1 DEF Owner
  <2>2. CASE ~Alive(process)
    BY <1>4, <2>2, DisposeOwner DEF StopEnds
  <2> QED BY <2>1, <2>2
<1>5. ASSUME NEW g \in Gens, Dies(g) \/ UNCHANGED alive,
             UNCHANGED <<process, connection, gen, open, disposed>>
      PROVE  Owner'
  BY <1>5 DEF Owner, Dies
<1>6. ASSUME NEW c \in Stoppers, JoinTimesOut(c)
      PROVE  Owner'
  <2>1. mine[c] \in Gens
    BY <1>6 DEF JoinTimesOut, Alive, CallersOK, Gens, Callers
  <2> QED BY <1>5, <1>6, <2>1 DEF JoinTimesOut, parent, supervised
<1>7. ASSUME NEW g \in Gens, ChildExits(g)
      PROVE  Owner'
  BY <1>5, <1>7 DEF ChildExits, parent, supervised
<1>8. ASSUME UNCHANGED <<process, connection, gen, open, disposed, alive>>
      PROVE  Owner'
  BY <1>8 DEF Owner
<1>9. CASE StartAgain \/ wait_until_ready \/ NotReady \/ TeleopSets
  BY <1>8, <1>9 DEF StartAgain, wait_until_ready, NotReady, TeleopSets, parent,
    supervised, child
<1>10. ASSUME NEW c \in Stoppers,
             \/ StopBegins(c) \/ JoinRaises(c) \/ Raised(c) \/ Joined(c)
             \/ StopMonitor(c) \/ StopFails(c)
       PROVE  Owner'
  BY <1>8, <1>10 DEF StopBegins, JoinRaises, Raised, Joined, StopMonitor,
    StopFails, parent, supervised, child
<1>11. ASSUME NEW c \in Callers, SendStep(c)
       PROVE  Owner'
  BY <1>8, <1>11 DEF SendStep, SendUnconnected, TakeConnection, SendSucceeds,
    SendFails, parent, supervised, child
<1>12. ASSUME NEW s \in Teleop, RequestTeleop(s)
       PROVE  Owner'
  BY <1>8, <1>12 DEF RequestTeleop, parent, supervised, child
<1>13. ASSUME NEW g \in Gens, MonStep(g)
       PROVE  Owner'
  BY <1>8, <1>13 DEF MonStep, MonContinues, MonStops, MonReceives, MonApplies,
    MonQuiet, MonRaises, MonChecks, MonReports, parent, supervised, child
<1>14. ASSUME NEW g \in Gens, ChildReports(g) \/ ChildSetsUp(g) \/ ChildEnds(g)
       PROVE  Owner'
  BY <1>8, <1>14 DEF ChildReports, ChildSetsUp, ChildEnds, parent, supervised
<1>15. CASE UNCHANGED vars
  BY <1>8, <1>15 DEF vars
<1> QED
  BY <1>1, <1>2, <1>3, <1>4, <1>6, <1>7, <1>9, <1>10, <1>11, <1>12, <1>13, <1>14,
    <1>15 DEF Next, StopStep

(* There is never a second control process.                                *)
THEOREM OnlyOneProcess == Spec => []OneControlProcess
<1>1. Owner => OneControlProcess
  BY DEF Owner, OneControlProcess
<1> QED
  BY TypeCorrect, OwnerInit, OwnerStep, <1>1, PTL DEF Spec

(* The connection and the Process object of a live process stay usable.    *)
THEOREM Supervised == Spec => []LiveIsSupervised
<1>1. TypeOK /\ Owner => LiveIsSupervised
  BY DEF Owner, LiveIsSupervised, TypeOK, ParentOK, Gens
<1> QED
  BY TypeCorrect, OwnerInit, OwnerStep, <1>1, PTL DEF Spec

-----------------------------------------------------------------------------
(* Monitors that outlive their generation: a generation not started yet    *)
(* has none, and one that applied a message to a later generation holds no *)
(* other and, its pipe being closed (Owner), receives no more.             *)
Late ==
    \A g \in Gens :
        /\ g > gen => mon[g] = "none"
        /\ stale[g] <= 1
        /\ stale[g] # 0 => g < gen /\ mon[g] \notin {"held", "drainheld"}

LEMMA LateInit == Init => Late
  BY RuntimeAssumption DEF Init, Late, RuntimeAssumption, Gens

LEMMA LateStep == TypeOK /\ Owner /\ Late /\ [Next]_vars => Late'
<1> SUFFICES ASSUME TypeOK, Owner, Late, [Next]_vars PROVE Late'
  OBVIOUS
<1> USE RuntimeAssumption DEF RuntimeAssumption, TypeOK, ParentOK, MonitorOK, Gens
<1>1. CASE start_component
  BY <1>1 DEF start_component, Late
<1>2. ASSUME NEW g \in Gens, MonReceives(g)
      PROVE  Late'
  <2>1. g = gen
    BY <1>2 DEF MonReceives, HasMessage, Owner
  <2>2. stale[g] = 0
    BY <2>1 DEF Late
  <2>3. mon[g] # "none" /\ gen' = gen /\ stale' = stale
    BY <1>2 DEF MonReceives, MonGo, parent, supervised
  <2> QED BY <1>2, <2>1, <2>2, <2>3 DEF MonReceives, MonGo, Late
<1>3. ASSUME NEW g \in Gens, MonApplies(g)
      PROVE  Late'
  <2>1. mon[g] \in {"held", "drainheld"} /\ gen' = gen
    BY <1>3 DEF MonApplies, MonGo, supervised
  <2>2. stale[g] = 0 /\ g <= gen
    BY <2>1 DEF Late
  <2>3. mon'[g] \in {"poll", "drain"}
    BY <1>3 DEF MonApplies, MonGo
  <2>4. \A h \in Gens \ {g} : mon'[h] = mon[h] /\ stale'[h] = stale[h]
    BY <1>3 DEF MonApplies, MonGo
  <2>5. stale'[g] <= 1 /\ (stale'[g] # 0 => g < gen)
    BY <1>3, <2>2 DEF MonApplies
  <2> QED BY <2>1, <2>2, <2>3, <2>4, <2>5 DEF Late
<1>4. ASSUME NEW g \in Gens,
             \/ MonContinues(g) \/ MonStops(g) \/ MonQuiet(g) \/ MonRaises(g)
             \/ MonChecks(g) \/ MonReports(g)
      PROVE  Late'
  <2>1. /\ mon[g] # "none" /\ gen' = gen /\ stale' = stale
        /\ \E place \in MonitorPlaces \ {"held", "drainheld"} :
             mon' = [mon EXCEPT ![g] = place]
    BY <1>4 DEF MonContinues, MonStops, MonQuiet, MonRaises, MonChecks,
      MonReports, MonGo, MonitorPlaces, parent, supervised
  <2> QED BY <2>1 DEF Late
<1>5. ASSUME UNCHANGED <<gen, mon, stale>>
      PROVE  Late'
  BY <1>5 DEF Late
<1>6. CASE StartAgain \/ StartFails \/ wait_until_ready \/ NotReady \/ TeleopSets
  BY <1>5, <1>6 DEF StartAgain, StartFails, wait_until_ready, NotReady,
    TeleopSets, parent, supervised, monitor
<1>7. ASSUME NEW c \in Stoppers, StopFinished(c) \/ StopBegins(c) \/ StopStep(c)
      PROVE  Late'
  BY <1>5, <1>7 DEF StopFinished, StopBegins, StopStep, JoinRaises, Raised,
    Joined, JoinTimesOut, StopMonitor, StopFails, StopEnds, parent, supervised,
    monitor
<1>8. ASSUME NEW c \in Callers, SendStep(c)
      PROVE  Late'
  BY <1>5, <1>8 DEF SendStep, SendUnconnected, TakeConnection, SendSucceeds,
    SendFails, parent, supervised, monitor
<1>9. ASSUME NEW s \in Teleop, RequestTeleop(s)
      PROVE  Late'
  BY <1>5, <1>9 DEF RequestTeleop, parent, supervised, monitor
<1>10. ASSUME NEW g \in Gens,
              \/ ChildReports(g) \/ ChildSetsUp(g) \/ ChildEnds(g)
              \/ ChildExits(g)
       PROVE  Late'
  BY <1>5, <1>10 DEF ChildReports, ChildSetsUp, ChildEnds, ChildExits, parent,
    supervised, monitor
<1>11. CASE UNCHANGED vars
  BY <1>5, <1>11 DEF vars
<1> QED
  BY <1>1, <1>2, <1>3, <1>4, <1>6, <1>7, <1>8, <1>9, <1>10, <1>11
    DEF Next, MonStep

(* A monitor that outlives its generation applies at most one message.     *)
THEOREM StaleWrites == Spec => []StaleWritesBounded
<1>1. Late => StaleWritesBounded
  BY DEF Late, StaleWritesBounded
<1>2. Init => TypeOK /\ Owner /\ Late
  BY TypeInit, OwnerInit, LateInit
<1>3. TypeOK /\ Owner /\ Late /\ [Next]_vars => (TypeOK /\ Owner /\ Late)'
  BY TypeStep, OwnerStep, LateStep
<1> QED
  BY <1>1, <1>2, <1>3, PTL DEF Spec

-----------------------------------------------------------------------------
(* What a caller in the middle of a stop took is a process that is still   *)
(* supervised or whose Process object is closed.                           *)
Stopping == {"snapshot", "send", "join", "monstop", "finish"}

Taken ==
    \A c \in Callers \ {"loop"} :
        pc[c] \in Stopping =>
            mine[c] \in 1..gen /\ (mine[c] = process \/ mine[c] \in disposed)

LEMMA TakenInit == Init => Taken
  BY DEF Init, Taken, Stopping

(* Nothing changes for the callers but that the process may be replaced.   *)
LEMMA TakenKept ==
  ASSUME TypeOK, Owner, Taken, gen' \in {gen, gen + 1},
         disposed \subseteq disposed',
         process' = process \/ process = 0 \/ process \in disposed',
         \A c \in Callers \ {"loop"} :
            pc'[c] \in Stopping => pc[c] \in Stopping /\ mine'[c] = mine[c]
  PROVE  Taken'
  BY DEF Taken, TypeOK, ParentOK, Gens

LEMMA TakenStep == TypeOK /\ Owner /\ Taken /\ [Next]_vars => Taken'
<1> SUFFICES ASSUME TypeOK, Owner, Taken, [Next]_vars PROVE Taken'
  OBVIOUS
<1> USE RuntimeAssumption DEF RuntimeAssumption, TypeOK, ParentOK, CallersOK
<1>1. ASSUME NEW c \in Stoppers, StopBegins(c)
      PROVE  Taken'
  <2>1. mine'[c] = process /\ process \in 1..gen
    BY <1>1 DEF StopBegins, Alive, Owner, Callers
  <2>2. \A d \in Callers \ {c} : pc'[d] = pc[d] /\ mine'[d] = mine[d]
    BY <1>1 DEF StopBegins, Go
  <2>3. UNCHANGED <<process, gen, disposed>>
    BY <1>1 DEF StopBegins, supervised
  <2> QED BY <2>1, <2>2, <2>3 DEF Taken
<1>2. CASE start_component \/ StartFails
  <2>1. gen' \in {gen, gen + 1} /\ disposed \subseteq disposed'
    BY <1>2 DEF start_component, StartFails, dispose
  <2>2. process = 0 \/ process \in disposed'
    BY <1>2 DEF start_component, StartFails, dispose
  <2>3. \A c \in Callers \ {"loop"} :
          pc'[c] \in Stopping => pc[c] \in Stopping /\ mine'[c] = mine[c]
    BY <1>2 DEF start_component, StartFails, Await, Return, Go, Stopping, Callers
  <2> QED BY <2>1, <2>2, <2>3, TakenKept
<1>3. ASSUME NEW c \in Stoppers, StopFinished(c) \/ StopEnds(c)
      PROVE  Taken'
  <2>1. gen' = gen /\ disposed \subseteq disposed'
    BY <1>3 DEF StopFinished, StopEnds, dispose
  <2>2. process' = process \/ process = 0 \/ process \in disposed'
    BY <1>3 DEF StopFinished, StopEnds, dispose
  <2>3. \A d \in Callers \ {"loop"} :
          pc'[d] \in Stopping => pc[d] \in Stopping /\ mine'[d] = mine[d]
    BY <1>3 DEF StopFinished, StopEnds, Return, Stopping, Callers
  <2> QED BY <2>1, <2>2, <2>3, TakenKept
<1>4. ASSUME UNCHANGED <<process, gen, disposed>>,
             \A c \in Callers \ {"loop"} :
                pc'[c] \in Stopping => pc[c] \in Stopping /\ mine'[c] = mine[c]
      PROVE  Taken'
  BY <1>4, TakenKept
<1>5. CASE StartAgain \/ wait_until_ready \/ NotReady \/ TeleopSets
  <2>1. UNCHANGED <<process, gen, disposed>>
    BY <1>5 DEF StartAgain, wait_until_ready, NotReady, TeleopSets, parent,
      supervised
  <2>2. \A c \in Callers \ {"loop"} :
          pc'[c] \in Stopping => pc[c] \in Stopping /\ mine'[c] = mine[c]
    BY <1>5 DEF StartAgain, Await, wait_until_ready, NotReady, TeleopSets,
      Return, Go, Stopping, Callers
  <2> QED BY <1>4, <2>1, <2>2
<1>6. ASSUME NEW c \in Stoppers,
             \/ JoinRaises(c) \/ Raised(c) \/ Joined(c) \/ JoinTimesOut(c)
             \/ StopMonitor(c) \/ StopFails(c)
      PROVE  Taken'
  <2>1. UNCHANGED <<process, gen, disposed>>
    BY <1>6 DEF JoinRaises, Raised, Joined, JoinTimesOut, StopMonitor, StopFails,
      parent, supervised
  <2>2. \A d \in Callers \ {"loop"} :
          pc'[d] \in Stopping => pc[d] \in Stopping /\ mine'[d] = mine[d]
    BY <1>6 DEF JoinRaises, Raised, Joined, JoinTimesOut, StopMonitor, StopFails,
      Return, Go, Stopping, Callers
  <2> QED BY <1>4, <2>1, <2>2
<1>7. ASSUME NEW c \in Callers, SendStep(c)
      PROVE  Taken'
  <2>1. UNCHANGED <<process, gen, disposed>>
    BY <1>7 DEF SendStep, SendUnconnected, TakeConnection, SendSucceeds,
      SendFails, parent, supervised
  <2>2. \A d \in Callers \ {"loop"} :
          pc'[d] \in Stopping => pc[d] \in Stopping /\ mine'[d] = mine[d]
    <3>1. CASE c = "loop"
      BY <1>7, <3>1 DEF SendStep, SendUnconnected, TakeConnection, SendSucceeds,
        SendFails, FailSend, Return, Go, Callers
    <3>2. CASE c # "loop"
      BY <1>7, <3>2 DEF SendStep, SendUnconnected, TakeConnection, SendSucceeds,
        SendFails, FailSend, Go, Stopping, Callers
    <3> QED BY <3>1, <3>2
  <2> QED BY <1>4, <2>1, <2>2
<1>8. ASSUME NEW s \in Teleop, RequestTeleop(s)
      PROVE  Taken'
  BY <1>4, <1>8 DEF RequestTeleop, Go, parent, supervised, Callers
<1>9. ASSUME NEW g \in Gens, MonStep(g)
      PROVE  Taken'
  BY <1>4, <1>9 DEF MonStep, MonContinues, MonStops, MonReceives, MonApplies,
    MonQuiet, MonRaises, MonChecks, MonReports, parent, supervised, callers
<1>10. ASSUME NEW g \in Gens,
              \/ ChildReports(g) \/ ChildSetsUp(g) \/ ChildEnds(g)
              \/ ChildExits(g)
       PROVE  Taken'
  BY <1>4, <1>10 DEF ChildReports, ChildSetsUp, ChildEnds, ChildExits, parent,
    supervised, callers
<1>11. CASE UNCHANGED vars
  BY <1>4, <1>11 DEF vars
<1> QED
  BY <1>1, <1>2, <1>3, <1>5, <1>6, <1>7, <1>8, <1>9, <1>10, <1>11
    DEF Next, StopStep

(* The last locked section of a stop is left in one of three ways.         *)
LEMMA FinishLeaves ==
  ASSUME TypeOK, Next, NEW c \in Stoppers, pc[c] = "finish", pc'[c] # "finish"
  PROVE  StopEnds(c) \/ StopFails(c) \/ JoinRaises(c)
<1> USE RuntimeAssumption DEF RuntimeAssumption, TypeOK, CallersOK, Callers
<1>1. CASE StartAgain \/ start_component \/ StartFails \/ wait_until_ready
           \/ NotReady
  BY <1>1 DEF StartAgain, start_component, StartFails, wait_until_ready, NotReady,
    Await, Return, Go
<1>2. CASE TeleopSets
  BY <1>2 DEF TeleopSets, Return
<1>3. ASSUME NEW d \in Stoppers,
             StopFinished(d) \/ StopBegins(d) \/ StopStep(d)
      PROVE  StopEnds(c) \/ StopFails(c) \/ JoinRaises(c)
  <2>1. CASE StopFinished(d) \/ StopBegins(d)
    BY <1>3, <2>1 DEF StopFinished, StopBegins, MayStop, Return, Go
  <2>2. CASE Raised(d) \/ Joined(d) \/ JoinTimesOut(d) \/ StopMonitor(d)
    BY <1>3, <2>2 DEF Raised, Joined, JoinTimesOut, StopMonitor, Return, Go
  <2>3. CASE StopEnds(d) \/ StopFails(d) \/ JoinRaises(d)
    <3>1. d = c
      BY <1>3, <2>3 DEF StopEnds, StopFails, JoinRaises, Return, Go
    <3> QED BY <2>3, <3>1
  <2> QED BY <1>3, <2>1, <2>2, <2>3 DEF StopStep
<1>4. ASSUME NEW d \in Callers, SendStep(d)
      PROVE  FALSE
  BY <1>4 DEF SendStep, SendUnconnected, TakeConnection, SendSucceeds, SendFails,
    FailSend, Return, Go
<1>5. ASSUME NEW s \in Teleop, RequestTeleop(s)
      PROVE  FALSE
  BY <1>5 DEF RequestTeleop, Go
<1>6. ASSUME NEW g \in Gens,
             \/ MonStep(g) \/ ChildReports(g) \/ ChildSetsUp(g) \/ ChildEnds(g)
             \/ ChildExits(g)
      PROVE  FALSE
  BY <1>6 DEF MonStep, MonContinues, MonStops, MonReceives, MonApplies, MonQuiet,
    MonRaises, MonChecks, MonReports, ChildReports, ChildSetsUp, ChildEnds,
    ChildExits, callers
<1> QED
  BY <1>1, <1>2, <1>3, <1>4, <1>5, <1>6 DEF Next

(* A stop that answers "ok" leaves no live process: the one it took, which *)
(* is still the supervised one (Taken) and the only one (Owner), is dead.  *)
THEOREM StopIsFinal == Spec => StopMeansStopped
<1>1. TypeOK /\ Owner /\ Taken /\ [Next]_vars =>
        [\A c \in Stoppers :
           pc[c] = "finish" /\ pc'[c] \in {"idle", "done"} /\ state' = "STOPPED"
              => ~Alive(mine[c]) /\ ~Alive(process')]_vars
  <2> SUFFICES ASSUME TypeOK, Owner, Taken, Next, NEW c \in Stoppers,
                      pc[c] = "finish", pc'[c] \in {"idle", "done"},
                      state' = "STOPPED"
               PROVE  ~Alive(mine[c]) /\ ~Alive(process')
    OBVIOUS
  <2> USE RuntimeAssumption DEF RuntimeAssumption, TypeOK, ParentOK, CallersOK
  <2>1. StopEnds(c)
    <3>1. ~StopFails(c)
      BY DEF StopFails
    <3>2. ~JoinRaises(c)
      BY DEF JoinRaises, Go, Callers
    <3> QED BY <3>1, <3>2, FinishLeaves
  <2>2. ~Alive(mine[c]) /\ mine[c] \notin disposed
    BY <2>1 DEF StopEnds
  <2>3. mine[c] = process
    BY <2>2 DEF Taken, Stopping, Callers
  <2>4. process' = 0
    BY <2>1, <2>2, <2>3 DEF StopEnds, dispose
  <2> QED BY <2>2, <2>4 DEF Alive
<1>2. Init => TypeOK /\ Owner /\ Taken
  BY TypeInit, OwnerInit, TakenInit
<1>3. TypeOK /\ Owner /\ Taken /\ [Next]_vars => (TypeOK /\ Owner /\ Taken)'
  BY TypeStep, OwnerStep, TakenStep
<1> QED
  BY <1>1, <1>2, <1>3, PTL DEF Spec, StopMeansStopped
=============================================================================
