------------------------ MODULE ManagedProcess_proofs ------------------------
(***************************************************************************)
(* Proofs about the supervised service, for any number of crashes allowed  *)
(* and of processes spawned.                                               *)
(*                                                                         *)
(* start(), stop() and check_health work on the same fields without a      *)
(* lock, so what a thread has looked at may be stale when it acts.  The    *)
(* inductive invariant says what is still known of the process at each     *)
(* place of the health thread, as long as no request has raced with it.    *)
(***************************************************************************)
EXTENDS ManagedProcess, TLAPS

TypesOK ==
    /\ state \in States
    /\ autoRestart \in BOOLEAN /\ stopRequested \in BOOLEAN
    /\ cooled \in BOOLEAN /\ stableDone \in BOOLEAN
    /\ monitoring \in BOOLEAN /\ seen \in BOOLEAN
    /\ asked \in BOOLEAN /\ raced \in BOOLEAN
    /\ process \in 0..MaxSpawn /\ spawned \in 0..MaxSpawn
    /\ pgid \in 0..MaxSpawn
    /\ crashes \in 0..(MaxRestarts + 1)
    /\ os \in [Pids -> {"unborn", "run", "term", "dead"}]
    /\ children \subseteq Pids
    /\ pc \in [Threads -> LoopPlaces \cup HealthPlaces]
    /\ pc["loop"] \in LoopPlaces /\ pc["health"] \in HealthPlaces
    /\ then \in {"idle", "startservice", "stopall", "stopmon"}

(* Past the look of start(); the health thread on its way to its own.      *)
InStart(t) == pc[t] \in {"begin", "clear", "spawn", "spawned"}
Resolved   == pc["health"] \in {"retry", "crash", "decide", "start", "begin",
                                "clear"}

(* Only one thread starts, and what it replaces is dead.                   *)
Alone ==
    ~raced => /\ ~(InStart("loop") /\ InStart("health"))
              /\ \A t \in Threads :
                   pc[t] \in {"begin", "clear", "spawn"} => ~Alive(process)

(* Nothing lives, and nobody spawns, behind a DEGRADED service, ...        *)
Degraded ==
    ~raced /\ state = "DEGRADED"
        => /\ ~Alive(process)
           /\ \A t \in Threads : pc[t] \notin {"clear", "spawn", "spawned"}

(* ... nor after the health thread has seen the process dead, until it     *)
(* starts the service again, ...                                           *)
Judged ==
    ~raced /\ (Resolved \/ (pc["health"] = "judge" /\ ~seen))
        => ~Alive(process) /\ ~InStart("loop")

(* ... which no stop of a living process has asked it to leave alone.      *)
Decided == ~raced /\ Resolved => ~(stopRequested /\ asked)

(* A group that was signalled is waited for, and one that was killed stays *)
(* without members.                                                        *)
Killed ==
    /\ process <= spawned /\ pgid <= spawned
    /\ pgid # 0 => pc["loop"] \in {"wait", "reap"}
    /\ pc["loop"] = "reap" /\ pgid # 0
         => os[pgid] = "dead" /\ pgid \notin children

(* On its way to an automatic start: few crashes, or the cool-down over.   *)
Throttled ==
    pc["health"] \in {"retry", "decide", "start", "begin", "clear", "spawn"}
        => crashes <= MaxRestarts \/ cooled

Known == Alone /\ Degraded /\ Judged /\ Decided /\ NoForgottenProcess

-----------------------------------------------------------------------------
(* The variables keep their types.                                         *)
LEMMA TypeStart ==
  ASSUME TypesOK, NEW t \in Threads, StartStep(t)
  PROVE  TypesOK'
<1> USE ServiceAssumption
    DEF ServiceAssumption, TypesOK, Threads, LoopPlaces, HealthPlaces, States,
        Starting, Go, Leave, switches, system, service, history
<1>1. CASE StartLooks(t)
  <2>1. pc' \in [Threads -> LoopPlaces \cup HealthPlaces]
    BY <1>1 DEF StartLooks
  <2>2. raced' \in BOOLEAN
    BY <1>1, Zenon DEF StartLooks, Busy
  <2> QED BY <1>1, <2>1, <2>2 DEF StartLooks
<1>2. CASE StartAlive(t)
  BY <1>2 DEF StartAlive
<1>3. CASE StartBegins(t)
  BY <1>3 DEF StartBegins
<1>4. CASE StartClears(t)
  <2>1. stopRequested' \in BOOLEAN /\ asked' \in BOOLEAN
    BY <1>4, Zenon DEF StartClears
  <2> QED BY <1>4, <2>1 DEF StartClears
<1>5. CASE Spawn(t)
  BY <1>5 DEF Spawn, Pids
<1>6. CASE SpawnFails(t)
  BY <1>6 DEF SpawnFails
<1>7. CASE Started(t)
  <2>1. stableDone' \in BOOLEAN
    BY <1>7, Zenon DEF Started
  <2> QED BY <1>7, <2>1 DEF Started
<1> QED BY <1>1, <1>2, <1>3, <1>4, <1>5, <1>6, <1>7 DEF StartStep

LEMMA TypeStep == TypesOK /\ [Next]_vars => TypesOK'
<1> SUFFICES ASSUME TypesOK, [Next]_vars PROVE TypesOK'
  OBVIOUS
<1> USE ServiceAssumption
    DEF ServiceAssumption, TypesOK, Threads, LoopPlaces, HealthPlaces, States,
        Starting, Go, Leave, switches, system, service, local, history,
        HealthKeeps, HealthLeaves
<1>1. CASE RequestStart
  BY <1>1 DEF RequestStart, Request
<1>2. CASE stop_service
  BY <1>2 DEF stop_service, Request
<1>3. CASE restart_service
  BY <1>3 DEF restart_service, Request
<1>4. CASE Shutdown
  BY <1>4 DEF Shutdown, Request
<1>5. CASE start_service
  <2>1. pc' \in [Threads -> LoopPlaces \cup HealthPlaces]
    BY <1>5 DEF start_service
  <2>2. crashes' \in 0..(MaxRestarts + 1)
    BY <1>5 DEF start_service
  <2>3. cooled' \in BOOLEAN
    <3>1. cooled' = TRUE \/ cooled' = cooled
      BY <1>5 DEF start_service
    <3> QED BY <3>1
  <2> QED BY <1>5, <2>1, <2>2, <2>3 DEF start_service
<1>6. CASE stop_all
  BY <1>6 DEF stop_all
<1>7. CASE stop_monitoring
  <2>1. pc' \in [Threads -> LoopPlaces \cup HealthPlaces]
    BY <1>7 DEF stop_monitoring
  <2>2. monitoring' \in BOOLEAN
    BY <1>7, Zenon DEF stop_monitoring
  <2> QED BY <1>7, <2>1, <2>2 DEF stop_monitoring
<1>8. CASE StopLooks
  BY <1>8 DEF StopLooks, StopGoesOn
<1>9. CASE StopDead
  BY <1>9 DEF StopDead, StopReturns
<1>10. CASE StopMarks
  BY <1>10 DEF StopMarks, StopGoesOn
<1>11. CASE StopFlags
  <2>1. pc' \in [Threads -> LoopPlaces \cup HealthPlaces]
    BY <1>11 DEF StopFlags, StopGoesOn
  <2>2. stopRequested' \in BOOLEAN /\ asked' \in BOOLEAN
    BY <1>11, Zenon DEF StopFlags, Alive
  <2> QED BY <1>11, <2>1, <2>2 DEF StopFlags, StopGoesOn
<1>12. CASE Terminate
  <2>1. pc' \in [Threads -> LoopPlaces \cup HealthPlaces]
    BY <1>12 DEF Terminate, StopGoesOn
  <2>2. os' \in [Pids -> {"unborn", "run", "term", "dead"}]
    BY <1>12 DEF Terminate
  <2> QED BY <1>12, <2>1, <2>2 DEF Terminate, StopGoesOn
<1>13. CASE StopGone
  BY <1>13 DEF StopGone, StopReturns
<1>14. CASE Kill
  <2>1. pc' \in [Threads -> LoopPlaces \cup HealthPlaces]
    BY <1>14 DEF Kill, StopGoesOn
  <2>2. os' \in [Pids -> {"unborn", "run", "term", "dead"}]
    BY <1>14 DEF Kill
  <2> QED BY <1>14, <2>1, <2>2 DEF Kill, StopGoesOn
<1>15. CASE KillFindsNothing
  BY <1>15 DEF KillFindsNothing, StopReturns
<1>16. CASE StopFails
  BY <1>16 DEF StopFails, StopReturns
<1>17. CASE CheckDegraded
  <2>1. pc' \in [Threads -> LoopPlaces \cup HealthPlaces]
    BY <1>17 DEF CheckDegraded, HealthSees
  <2>2. raced' \in BOOLEAN
    <3>1. raced' = raced \/ raced' = (raced \/ Busy("loop"))
      BY <1>17, Zenon DEF CheckDegraded
    <3> QED BY <3>1, Zenon DEF Busy
  <2> QED BY <1>17, <2>1, <2>2 DEF CheckDegraded, HealthSees
<1>18. CASE Retry
  BY <1>18 DEF Retry
<1>19. CASE CheckUnstarted
  BY <1>19 DEF CheckUnstarted, HealthSees
<1>20. CASE SetStopped
  BY <1>20 DEF SetStopped
<1>21. CASE Poll
  <2>1. pc' \in [Threads -> LoopPlaces \cup HealthPlaces]
    BY <1>21 DEF Poll, HealthSees
  <2>2. seen' \in BOOLEAN /\ raced' \in BOOLEAN
    BY <1>21, Zenon DEF Poll, Alive, Busy
  <2> QED BY <1>21, <2>1, <2>2 DEF Poll, HealthSees
<1>22. CASE JudgeAlive
  <2>1. pc' \in [Threads -> LoopPlaces \cup HealthPlaces]
    BY <1>22 DEF JudgeAlive
  <2>2. crashes' \in 0..(MaxRestarts + 1)
    BY <1>22 DEF JudgeAlive
  <2>3. stableDone' \in BOOLEAN
    <3>1. stableDone' = TRUE \/ stableDone' = stableDone
      BY <1>22 DEF JudgeAlive
    <3> QED BY <3>1
  <2> QED BY <1>22, <2>1, <2>2, <2>3 DEF JudgeAlive
<1>23. CASE JudgeDead
  BY <1>23 DEF JudgeDead, HealthSees
<1>24. CASE JudgeCrash
  <2>1. pc' \in [Threads -> LoopPlaces \cup HealthPlaces]
    BY <1>24 DEF JudgeCrash
  <2>2. crashes' \in 0..(MaxRestarts + 1)
    <3>1. \A kept \in 0..crashes :
             (IF kept <= MaxRestarts THEN kept + 1 ELSE kept)
               \in 0..(MaxRestarts + 1)
      OBVIOUS
    <3>2. \/ crashes' = crashes
          \/ \E kept \in 0..crashes :
               crashes' = IF kept <= MaxRestarts THEN kept + 1 ELSE kept
      BY <1>24 DEF JudgeCrash
    <3> QED BY <3>1, <3>2
  <2>3. cooled' \in BOOLEAN
    <3>1. cooled' = FALSE \/ cooled' = cooled
      BY <1>24 DEF JudgeCrash
    <3> QED BY <3>1
  <2>4. state' \in States
    BY <1>24 DEF JudgeCrash
  <2> QED BY <1>24, <2>1, <2>2, <2>3, <2>4 DEF JudgeCrash
<1>25. CASE Decide
  BY <1>25 DEF Decide, should_auto_restart
<1>26. CASE HealthEnds
  BY <1>26 DEF HealthEnds
<1>27. CASE CoolsDown
  BY <1>27 DEF CoolsDown
<1>28. CASE \E p \in Pids : Exits(p) \/ Forks(p) \/ ChildrenEnd(p)
  BY <1>28 DEF Exits, Forks, ChildrenEnd
<1>29. CASE StartStep("loop")
  BY <1>29, TypeStart DEF Threads
<1>30. CASE StartStep("health")
  BY <1>30, TypeStart DEF Threads
<1>31. CASE UNCHANGED vars
  BY <1>31 DEF vars
<1> QED BY <1>1, <1>2, <1>3, <1>4, <1>5, <1>6, <1>7, <1>8, <1>9, <1>10,
           <1>11, <1>12, <1>13, <1>14, <1>15, <1>16, <1>17, <1>18,
           <1>19, <1>20, <1>21, <1>22, <1>23, <1>24, <1>25, <1>26,
           <1>27, <1>28, <1>29, <1>30, <1>31
        DEF Next, LoopStep, StopStep, HealthStep

(* Every variable keeps its type.                                          *)
THEOREM TypeCorrect == Spec => []TypesOK
<1>1. Init => TypesOK
  <2> SUFFICES ASSUME Init PROVE TypesOK
    OBVIOUS
  <2> USE ServiceAssumption DEF Init, ServiceAssumption
  <2>1. pc \in [Threads -> LoopPlaces \cup HealthPlaces]
    BY DEF Threads, LoopPlaces, HealthPlaces
  <2>2. pc["loop"] \in LoopPlaces /\ pc["health"] \in HealthPlaces
    BY DEF Threads, LoopPlaces, HealthPlaces
  <2>3. os \in [Pids -> {"unborn", "run", "term", "dead"}]
    OBVIOUS
  <2>4. /\ stopRequested \in BOOLEAN /\ cooled \in BOOLEAN
        /\ stableDone \in BOOLEAN /\ monitoring \in BOOLEAN
        /\ seen \in BOOLEAN /\ asked \in BOOLEAN /\ raced \in BOOLEAN
    BY Zenon
  <2> QED BY <2>1, <2>2, <2>3, <2>4 DEF TypesOK, States
<1> QED BY <1>1, TypeStep, PTL DEF Spec

LEMMA TypesAreTypeOK == TypesOK => TypeOK
  BY DEF TypesOK, TypeOK

-----------------------------------------------------------------------------
(* What is known of the process stays true: the two threads cannot both be *)
(* in start() unless a request raced with the health thread, and only a    *)
(* spawn makes a process live.                                             *)
LEMMA KnownStart ==
  ASSUME TypesOK, Known, NEW t \in Threads, StartStep(t)
  PROVE  Known'
<1> USE ServiceAssumption
    DEF ServiceAssumption, TypesOK, Threads, Go, Leave, switches, system,
        service, history, Known, Alone, Degraded, Judged, Decided, Resolved,
        NoForgottenProcess, Alive, InStart, Busy, Starting, Pids
<1>1. CASE StartLooks(t)
  <2>1. CASE Alive(process) /\ Go(t, "already") /\ UNCHANGED raced
    BY <1>1, <2>1 DEF StartLooks
  <2>2. CASE /\ ~Alive(process) /\ Go(t, "begin")
             /\ raced' = (raced \/ \E u \in Threads \ {t} : Busy(u))
    <3>1. CASE t = "loop"
      <4>1. raced' \/ ~Busy("health")
        BY <2>2, <3>1
      <4> QED BY <1>1, <2>2, <3>1, <4>1 DEF StartLooks
    <3>2. CASE t = "health"
      <4>1. raced' \/ ~Busy("loop")
        BY <2>2, <3>2
      <4> QED BY <1>1, <2>2, <3>2, <4>1 DEF StartLooks
    <3> QED BY <3>1, <3>2
  <2> QED BY <1>1, <2>1, <2>2 DEF StartLooks
<1>2. CASE StartAlive(t)
  BY <1>2 DEF StartAlive
<1>3. CASE StartBegins(t)
  BY <1>3 DEF StartBegins
<1>4. CASE StartClears(t)
  BY <1>4 DEF StartClears
<1>5. CASE Spawn(t)
  BY <1>5 DEF Spawn
<1>6. CASE SpawnFails(t)
  BY <1>6 DEF SpawnFails
<1>7. CASE Started(t)
  BY <1>7 DEF Started
<1> QED BY <1>1, <1>2, <1>3, <1>4, <1>5, <1>6, <1>7 DEF StartStep

LEMMA KnownStep == TypesOK /\ Known /\ [Next]_vars => Known'
<1> SUFFICES ASSUME TypesOK, Known, [Next]_vars PROVE Known'
  OBVIOUS
<1> USE ServiceAssumption
    DEF ServiceAssumption, TypesOK, Threads, Go, Leave, switches, system,
        service, history, Known, Alone, Degraded, Judged, Decided, Resolved,
        NoForgottenProcess, Alive, InStart, Busy, Starting, Pids, local,
        HealthKeeps, HealthLeaves
<1>1. CASE RequestStart
  BY <1>1 DEF RequestStart, Request
<1>2. CASE stop_service
  BY <1>2 DEF stop_service, Request
<1>3. CASE restart_service
  BY <1>3 DEF restart_service, Request
<1>4. CASE Shutdown
  BY <1>4 DEF Shutdown, Request
<1>5. CASE start_service
  BY <1>5 DEF start_service
<1>6. CASE stop_all
  BY <1>6 DEF stop_all
<1>7. CASE stop_monitoring
  BY <1>7 DEF stop_monitoring
<1>8. CASE StopLooks
  BY <1>8 DEF StopLooks, StopGoesOn
<1>9. CASE StopDead
  BY <1>9 DEF StopDead, StopReturns
<1>10. CASE StopMarks
  BY <1>10 DEF StopMarks, StopGoesOn
<1>11. CASE StopFlags
  BY <1>11 DEF StopFlags, StopGoesOn
<1>12. CASE Terminate
  BY <1>12 DEF Terminate, StopGoesOn
<1>13. CASE StopGone
  BY <1>13 DEF StopGone, StopReturns
<1>14. CASE Kill
  BY <1>14 DEF Kill, StopGoesOn
<1>15. CASE KillFindsNothing
  BY <1>15 DEF KillFindsNothing, StopReturns
<1>16. CASE StopFails
  BY <1>16 DEF StopFails, StopReturns
<1>17. CASE CheckDegraded
  <2>1. CASE /\ ~stopRequested /\ autoRestart /\ cooled /\ HealthSees("retry")
             /\ raced' = (raced \/ Busy("loop"))
    BY <1>17, <2>1 DEF CheckDegraded, HealthSees
  <2>2. CASE stopRequested /\ HealthSees("planned") /\ UNCHANGED raced
    BY <1>17, <2>2 DEF CheckDegraded, HealthSees
  <2> QED BY <1>17, <2>1, <2>2 DEF CheckDegraded
<1>18. CASE Retry
  BY <1>18 DEF Retry
<1>19. CASE CheckUnstarted
  BY <1>19 DEF CheckUnstarted, HealthSees
<1>20. CASE SetStopped
  BY <1>20 DEF SetStopped
<1>21. CASE Poll
  BY <1>21 DEF Poll, HealthSees
<1>22. CASE JudgeAlive
  BY <1>22 DEF JudgeAlive
<1>23. CASE JudgeDead
  BY <1>23 DEF JudgeDead, HealthSees
<1>24. CASE JudgeCrash
  BY <1>24 DEF JudgeCrash
<1>25. CASE Decide
  BY <1>25 DEF Decide, should_auto_restart
<1>26. CASE HealthEnds
  BY <1>26 DEF HealthEnds
<1>27. CASE CoolsDown
  BY <1>27 DEF CoolsDown
<1>28. CASE \E p \in Pids : Exits(p) \/ Forks(p) \/ ChildrenEnd(p)
  BY <1>28 DEF Exits, Forks, ChildrenEnd
<1>29. CASE StartStep("loop")
  BY <1>29, KnownStart DEF Threads
<1>30. CASE StartStep("health")
  BY <1>30, KnownStart DEF Threads
<1>31. CASE UNCHANGED vars
  BY <1>31 DEF vars
<1> QED BY <1>1, <1>2, <1>3, <1>4, <1>5, <1>6, <1>7, <1>8, <1>9, <1>10,
           <1>11, <1>12, <1>13, <1>14, <1>15, <1>16, <1>17, <1>18,
           <1>19, <1>20, <1>21, <1>22, <1>23, <1>24, <1>25, <1>26,
           <1>27, <1>28, <1>29, <1>30, <1>31
        DEF Next, LoopStep, StopStep, HealthStep

LEMMA KnownInit == Init => Known
  BY DEF Init, Known, Alone, Degraded, Judged, Decided, Resolved,
     NoForgottenProcess, Alive, InStart, Threads, Pids

LEMMA KnownAlways == Spec => [](TypesOK /\ Known)
  BY KnownInit, KnownStep, TypeCorrect, PTL DEF Spec

(* Unless a request raced with the health thread on start(), only the      *)
(* process of the Popen object runs (start, stop and check_health).        *)
THEOREM NoneForgotten == Spec => []NoForgottenProcess
  BY KnownAlways, PTL DEF Known

(* A stop that was written while the process was alive sticks: wherever it *)
(* falls between the looks and the writes of the health thread, that       *)
(* thread does not start the service again over it (stop, check_health,    *)
(* should_auto_restart, start).                                            *)
THEOREM StopHolds == Spec => StopSticks
<1>1. TypesOK /\ Known /\ [Next]_vars
        => (pc["health"] = "clear" /\ pc'["health"] = "spawn" /\ ~raced
              => ~(stopRequested /\ asked))
  BY DEF Known, Decided, Resolved
<1> QED BY <1>1, KnownAlways, PTL DEF Spec, StopSticks

-----------------------------------------------------------------------------
(* A group that was killed stays without members: its leader cannot start  *)
(* anything, and no process gets its number.                               *)
LEMMA KilledStart ==
  ASSUME TypesOK, Killed, NEW t \in Threads, StartStep(t)
  PROVE  Killed' /\ UNCHANGED pgid
<1> USE ServiceAssumption
    DEF ServiceAssumption, TypesOK, Threads, LoopPlaces, HealthPlaces, Starting,
        Go, Leave, switches, system, service, history, Killed, Pids
<1>1. CASE StartLooks(t)
  BY <1>1 DEF StartLooks
<1>2. CASE StartAlive(t)
  BY <1>2 DEF StartAlive
<1>3. CASE StartBegins(t)
  BY <1>3 DEF StartBegins
<1>4. CASE StartClears(t)
  BY <1>4 DEF StartClears
<1>5. CASE Spawn(t)
  BY <1>5 DEF Spawn
<1>6. CASE SpawnFails(t)
  BY <1>6 DEF SpawnFails
<1>7. CASE Started(t)
  BY <1>7 DEF Started
<1> QED BY <1>1, <1>2, <1>3, <1>4, <1>5, <1>6, <1>7 DEF StartStep

LEMMA KilledStep == TypesOK /\ Killed /\ [Next]_vars => Killed'
<1> SUFFICES ASSUME TypesOK, Killed, [Next]_vars PROVE Killed'
  OBVIOUS
<1> USE ServiceAssumption
    DEF ServiceAssumption, TypesOK, Threads, Go, switches, system, service,
        local, history, HealthKeeps, HealthLeaves, Killed, Alive, Pids
<1>1. CASE RequestStart
  BY <1>1 DEF RequestStart, Request
<1>2. CASE stop_service
  BY <1>2 DEF stop_service, Request
<1>3. CASE restart_service
  BY <1>3 DEF restart_service, Request
<1>4. CASE Shutdown
  BY <1>4 DEF Shutdown, Request
<1>5. CASE start_service
  BY <1>5 DEF start_service
<1>6. CASE stop_all
  BY <1>6 DEF stop_all
<1>7. CASE stop_monitoring
  BY <1>7 DEF stop_monitoring
<1>8. CASE StopLooks
  BY <1>8 DEF StopLooks, StopGoesOn
<1>9. CASE StopDead
  BY <1>9 DEF StopDead, StopReturns
<1>10. CASE StopMarks
  BY <1>10 DEF StopMarks, StopGoesOn
<1>11. CASE StopFlags
  BY <1>11 DEF StopFlags, StopGoesOn
<1>12. CASE Terminate
  BY <1>12 DEF Terminate, StopGoesOn
<1>13. CASE StopGone
  BY <1>13 DEF StopGone, StopReturns
<1>14. CASE Kill
  BY <1>14 DEF Kill, StopGoesOn
<1>15. CASE KillFindsNothing
  BY <1>15 DEF KillFindsNothing, StopReturns
<1>16. CASE StopFails
  BY <1>16 DEF StopFails, StopReturns
<1>17. CASE CheckDegraded
  BY <1>17 DEF CheckDegraded, HealthSees
<1>18. CASE Retry
  BY <1>18 DEF Retry
<1>19. CASE CheckUnstarted
  BY <1>19 DEF CheckUnstarted, HealthSees
<1>20. CASE SetStopped
  BY <1>20 DEF SetStopped
<1>21. CASE Poll
  BY <1>21 DEF Poll, HealthSees
<1>22. CASE JudgeAlive
  BY <1>22 DEF JudgeAlive
<1>23. CASE JudgeDead
  BY <1>23 DEF JudgeDead, HealthSees
<1>24. CASE JudgeCrash
  BY <1>24 DEF JudgeCrash
<1>25. CASE Decide
  BY <1>25 DEF Decide, should_auto_restart
<1>26. CASE HealthEnds
  BY <1>26 DEF HealthEnds
<1>27. CASE CoolsDown
  BY <1>27 DEF CoolsDown
<1>28. CASE \E p \in Pids : Exits(p) \/ Forks(p) \/ ChildrenEnd(p)
  BY <1>28 DEF Exits, Forks, ChildrenEnd
<1>29. CASE StartStep("loop")
  BY <1>29, KilledStart DEF Threads
<1>30. CASE StartStep("health")
  BY <1>30, KilledStart DEF Threads
<1>31. CASE UNCHANGED vars
  BY <1>31 DEF vars
<1> QED BY <1>1, <1>2, <1>3, <1>4, <1>5, <1>6, <1>7, <1>8, <1>9, <1>10,
           <1>11, <1>12, <1>13, <1>14, <1>15, <1>16, <1>17, <1>18,
           <1>19, <1>20, <1>21, <1>22, <1>23, <1>24, <1>25, <1>26,
           <1>27, <1>28, <1>29, <1>30, <1>31
        DEF Next, LoopStep, StopStep, HealthStep

LEMMA KilledAlways == Spec => [](TypesOK /\ Killed)
<1>1. Init => Killed
  BY DEF Init, Killed, Threads
<1> QED BY <1>1, KilledStep, TypeCorrect, PTL DEF Spec

(* stop() answers STOPPED only when the leader of the group it signalled   *)
(* is gone, and after SIGKILL only when all of the group is.               *)
THEOREM StopEndsGroup == Spec => StopKillsGroup
<1>1. TypesOK /\ Known /\ Killed /\ [Next]_vars
        => (pgid # 0 /\ pgid' = 0 /\ state' = "STOPPED" /\ ~raced
              => /\ ~Alive(pgid)
                 /\ pc["loop"] = "reap" => pgid \notin children)
  <2> SUFFICES ASSUME TypesOK, Known, Killed, [Next]_vars,
                      pgid # 0, pgid' = 0, state' = "STOPPED", ~raced
               PROVE  /\ ~Alive(pgid)
                      /\ pc["loop"] = "reap" => pgid \notin children
    OBVIOUS
  <2>1. pgid \in Pids
    BY ServiceAssumption DEF TypesOK, Pids, ServiceAssumption
  <2>2. ~Alive(process) => ~Alive(pgid)
    BY <2>1 DEF Known, NoForgottenProcess
  <2>3. pc["loop"] = "reap" => pgid \notin children
    BY DEF Killed
  <2>4. CASE StopGone
    BY <2>2, <2>3, <2>4 DEF StopGone
  <2>5. CASE KillFindsNothing
    BY <2>3, <2>5 DEF KillFindsNothing
  <2>6. pc["loop"] \in {"wait", "reap"}
    BY DEF Killed
  <2>7. StopDead \/ StopLooks \/ StopMarks \/ StopFlags \/ Terminate \/ StopFails
          => FALSE
    BY <2>6 DEF StopDead, StopLooks, StopMarks, StopFlags, Terminate, StopFails
  <2>8. CASE Kill
    BY <2>8 DEF Kill, StopGoesOn
  <2>9. \A t \in Threads : StartStep(t) => UNCHANGED pgid
    BY KilledStart
  <2>10. HealthStep => UNCHANGED pgid
    BY <2>9 DEF HealthStep, CheckDegraded, Retry, CheckUnstarted, SetStopped,
       Poll, JudgeAlive, JudgeDead, JudgeCrash, Decide, HealthEnds, HealthSees,
       HealthLeaves, HealthKeeps, Threads
  <2>11. LoopStep /\ ~StopStep => UNCHANGED pgid
    BY <2>9 DEF LoopStep, start_service, stop_all, stop_monitoring, Threads
  <2>12. RequestStart \/ stop_service \/ restart_service \/ Shutdown
           => UNCHANGED pgid
    BY DEF RequestStart, stop_service, restart_service, Shutdown, Request
  <2>13. CoolsDown \/ (\E p \in Pids : Exits(p) \/ Forks(p) \/ ChildrenEnd(p))
            \/ UNCHANGED vars
           => UNCHANGED pgid
    BY DEF CoolsDown, Exits, Forks, ChildrenEnd, local, vars
  <2> QED BY <2>4, <2>5, <2>7, <2>8, <2>10, <2>11, <2>12, <2>13
          DEF Next, StopStep
<1> QED BY <1>1, KnownAlways, KilledAlways, PTL DEF Spec, StopKillsGroup

-----------------------------------------------------------------------------
(* On the way to an automatic start.                                       *)
LEMMA ThrottledStart ==
  ASSUME TypesOK, Throttled, NEW t \in Threads, StartStep(t)
  PROVE  Throttled'
<1> USE DEF TypesOK, Throttled, Threads, Go, Leave, service, switches, system,
        history
<1>1. CASE StartLooks(t)
  BY <1>1 DEF StartLooks
<1>2. CASE StartAlive(t)
  BY <1>2 DEF StartAlive
<1>3. CASE StartBegins(t)
  BY <1>3 DEF StartBegins
<1>4. CASE StartClears(t)
  BY <1>4 DEF StartClears
<1>5. CASE Spawn(t)
  BY <1>5 DEF Spawn
<1>6. CASE SpawnFails(t)
  BY <1>6 DEF SpawnFails
<1>7. CASE Started(t)
  BY <1>7 DEF Started
<1> QED BY <1>1, <1>2, <1>3, <1>4, <1>5, <1>6, <1>7 DEF StartStep

LEMMA ThrottledStep == TypesOK /\ Throttled /\ [Next]_vars => Throttled'
<1> SUFFICES ASSUME TypesOK, Throttled, [Next]_vars PROVE Throttled'
  OBVIOUS
<1> USE ServiceAssumption
    DEF ServiceAssumption, TypesOK, Throttled, Threads, Go, switches, system,
        service, local, history, HealthKeeps, HealthLeaves
<1>1. CASE RequestStart
  BY <1>1 DEF RequestStart, Request
<1>2. CASE stop_service
  BY <1>2 DEF stop_service, Request
<1>3. CASE restart_service
  BY <1>3 DEF restart_service, Request
<1>4. CASE Shutdown
  BY <1>4 DEF Shutdown, Request
<1>5. CASE start_service
  BY <1>5 DEF start_service
<1>6. CASE stop_all
  BY <1>6 DEF stop_all
<1>7. CASE stop_monitoring
  BY <1>7 DEF stop_monitoring
<1>8. CASE StopLooks
  BY <1>8 DEF StopLooks, StopGoesOn
<1>9. CASE StopDead
  BY <1>9 DEF StopDead, StopReturns
<1>10. CASE StopMarks
  BY <1>10 DEF StopMarks, StopGoesOn
<1>11. CASE StopFlags
  BY <1>11 DEF StopFlags, StopGoesOn
<1>12. CASE Terminate
  BY <1>12 DEF Terminate, StopGoesOn
<1>13. CASE StopGone
  BY <1>13 DEF StopGone, StopReturns
<1>14. CASE Kill
  BY <1>14 DEF Kill, StopGoesOn
<1>15. CASE KillFindsNothing
  BY <1>15 DEF KillFindsNothing, StopReturns
<1>16. CASE StopFails
  BY <1>16 DEF StopFails, StopReturns
<1>17. CASE CheckDegraded
  <2>1. CASE /\ ~stopRequested /\ autoRestart /\ cooled /\ HealthSees("retry")
             /\ raced' = (raced \/ Busy("loop"))
    BY <1>17, <2>1 DEF CheckDegraded, HealthSees
  <2>2. CASE stopRequested /\ HealthSees("planned") /\ UNCHANGED raced
    BY <1>17, <2>2 DEF CheckDegraded, HealthSees
  <2> QED BY <1>17, <2>1, <2>2 DEF CheckDegraded
<1>18. CASE Retry
  BY <1>18 DEF Retry
<1>19. CASE CheckUnstarted
  BY <1>19 DEF CheckUnstarted, HealthSees
<1>20. CASE SetStopped
  BY <1>20 DEF SetStopped
<1>21. CASE Poll
  BY <1>21 DEF Poll, HealthSees
<1>22. CASE JudgeAlive
  BY <1>22 DEF JudgeAlive
<1>23. CASE JudgeDead
  BY <1>23 DEF JudgeDead, HealthSees
<1>24. CASE JudgeCrash
  <2>1. pc'["health"] = "decide" => crashes' <= MaxRestarts
    BY <1>24 DEF JudgeCrash
  <2> QED BY <1>24, <2>1 DEF JudgeCrash
<1>25. CASE Decide
  BY <1>25 DEF Decide, should_auto_restart
<1>26. CASE HealthEnds
  BY <1>26 DEF HealthEnds
<1>27. CASE CoolsDown
  BY <1>27 DEF CoolsDown
<1>28. CASE \E p \in Pids : Exits(p) \/ Forks(p) \/ ChildrenEnd(p)
  BY <1>28 DEF Exits, Forks, ChildrenEnd
<1>29. CASE StartStep("loop")
  BY <1>29, ThrottledStart DEF Threads
<1>30. CASE StartStep("health")
  BY <1>30, ThrottledStart DEF Threads
<1>31. CASE UNCHANGED vars
  BY <1>31 DEF vars
<1> QED BY <1>1, <1>2, <1>3, <1>4, <1>5, <1>6, <1>7, <1>8, <1>9, <1>10,
           <1>11, <1>12, <1>13, <1>14, <1>15, <1>16, <1>17, <1>18,
           <1>19, <1>20, <1>21, <1>22, <1>23, <1>24, <1>25, <1>26,
           <1>27, <1>28, <1>29, <1>30, <1>31
        DEF Next, LoopStep, StopStep, HealthStep

(* Beyond max_restarts crashes in the window, a process is spawned only    *)
(* after the cool-down, also when requests race (check_health,             *)
(* should_auto_restart).                                                   *)
THEOREM RestartsLimited == Spec => RestartsThrottled
<1>1. Init => Throttled
  BY DEF Init, Throttled, Threads
<1>2. Throttled /\ [Next]_vars
        => (pc["health"] = "spawn" /\ pc'["health"] = "spawned"
              => crashes <= MaxRestarts \/ cooled)
  BY DEF Throttled
<1> QED BY <1>1, <1>2, ThrottledStep, TypeCorrect, PTL
        DEF Spec, RestartsThrottled
=============================================================================
