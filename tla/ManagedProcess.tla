--------------------------- MODULE ManagedProcess ---------------------------
(***************************************************************************)
(* A supervised service (the camera server, the native hand driver):       *)
(* classes ManagedProcess and ProcessManager of bridge/process_manager.py. *)
(*                                                                         *)
(* Two threads of the bridge work on the same fields without a lock, so    *)
(* that what a thread has looked at may have changed when it writes:       *)
(*   "loop"    the event loop: start, stop and restart requests, and the   *)
(*             shutdown of app.py (hand driver stopped, stop_all,          *)
(*             stop_monitoring)                                            *)
(*   "health"  _health_loop, once a second: check_health, automatic start  *)
(* The operating system may end a process at any time.  Clock readings     *)
(* (crash window, stable time, cool-down) are nondeterministic choices.    *)
(***************************************************************************)
EXTENDS Naturals, FiniteSets

CONSTANTS MaxRestarts,   \* max_restarts of the configuration
          SignalsFail,   \* whether sending a signal may raise an exception
          MaxSpawn,      \* bound: processes spawned
          MaxGroups      \* bound: groups that have children at one time

ASSUME ServiceAssumption ==
    /\ MaxRestarts \in Nat /\ MaxSpawn \in Nat \ {0} /\ MaxGroups \in Nat
    /\ SignalsFail \in BOOLEAN

Pids    == 1..MaxSpawn
Threads == {"loop", "health"}
States  == {"STOPPED", "STARTING", "RUNNING", "STOPPING", "CRASHED", "FATAL",
            "DEGRADED"}

VARIABLES
    autoRestart,  \* auto_restart of the configuration, never changed
    state, stopRequested,
    process,      \* the Popen object: a pid, 0 for None
    crashes,      \* len(_crash_times), counted up to MaxRestarts + 1
    cooled,       \* time.time() >= next_retry_at
    stableDone,   \* _stable_reset_done
    monitoring,   \* ProcessManager._running
    os,           \* each process: "unborn", "run", "term" (signalled), "dead"
    children,     \* processes whose group has live members beside them
    spawned,      \* processes spawned so far
    pc,           \* where each thread is
    then,         \* where the loop thread goes when stop() returns: "idle"
                  \* during and after a stop request, not after a start
    pgid,         \* process group captured by stop(), 0 outside it
    seen,         \* whether poll() of check_health found the process alive
    asked,        \* history: the stop in stop_requested was written while
                  \* the process was alive
    raced         \* history: a request was inside start() while the health
                  \* thread, having seen the service dead, was on its way
                  \* through its own

service == <<state, stopRequested, process, crashes, cooled, stableDone>>
switches == <<autoRestart, monitoring>>
system  == <<os, children, spawned>>
local   == <<pc, then, pgid, seen>>
history == <<asked, raced>>
vars == <<autoRestart, state, stopRequested, process, crashes, cooled,
          stableDone, monitoring, os, children, spawned, pc, then, pgid, seen,
          asked, raced>>

Starting == {"start", "already", "begin", "clear", "spawn", "spawned"}
LoopPlaces == Starting \cup
              {"idle", "startservice", "stop", "gone", "mark", "flag", "term",
               "wait", "reap", "stopall", "stopmon", "down"}
HealthPlaces == Starting \cup
                {"sleep", "unstarted", "retry", "judge", "planned", "crash",
                 "decide", "ended"}

TypeOK ==
    /\ state \in States
    /\ {autoRestart, stopRequested, cooled, stableDone, monitoring, seen, asked,
        raced} \subseteq BOOLEAN
    /\ process \in 0..MaxSpawn /\ spawned \in 0..MaxSpawn
    /\ pgid \in 0..MaxSpawn
    /\ crashes \in 0..(MaxRestarts + 1)
    /\ os \in [Pids -> {"unborn", "run", "term", "dead"}]
    /\ children \subseteq Pids
    /\ pc["loop"] \in LoopPlaces /\ pc["health"] \in HealthPlaces
    /\ then \in {"idle", "startservice", "stopall", "stopmon"}

Init ==
    /\ autoRestart \in BOOLEAN
    /\ state = "STOPPED" /\ stopRequested = FALSE /\ process = 0
    /\ crashes = 0 /\ cooled = TRUE /\ stableDone = FALSE
    /\ monitoring = TRUE
    /\ os = [p \in Pids |-> "unborn"] /\ children = {} /\ spawned = 0
    /\ pc = [t \in Threads |-> IF t = "loop" THEN "idle" ELSE "sleep"]
    /\ then = "idle" /\ pgid = 0 /\ seen = FALSE
    /\ asked = FALSE /\ raced = FALSE

Alive(p) == p # 0 /\ os[p] \in {"run", "term"}
Go(t, place) == pc' = [pc EXCEPT ![t] = place]

(* On the way to a start, or through it.                                   *)
Busy(t) == \/ pc[t] \in Starting \cup {"retry", "crash", "decide"}
           \/ pc[t] = "judge" /\ ~seen

-----------------------------------------------------------------------------
(* ManagedProcess.start, by a request or by the health thread.             *)

Leave(t) == Go(t, IF t = "loop" THEN "idle" ELSE "sleep")

(* Mutant: a running process is not looked for.                            *)
StartLooksNot(t) ==
    /\ pc[t] = "start" /\ Go(t, "begin")
    /\ raced' = (raced \/ \E u \in Threads \ {t} : Busy(u))
    /\ UNCHANGED <<service, switches, system, then, pgid, seen, asked>>

StartLooks(t) ==
    /\ pc[t] = "start"
    /\ \/ Alive(process) /\ Go(t, "already") /\ UNCHANGED raced
       \/ /\ ~Alive(process) /\ Go(t, "begin")
          /\ raced' = (raced \/ \E u \in Threads \ {t} : Busy(u))
    /\ UNCHANGED <<service, switches, system, then, pgid, seen, asked>>

StartAlive(t) ==
    /\ pc[t] = "already"
    /\ state' = "RUNNING"
    /\ Leave(t)
    /\ UNCHANGED <<stopRequested, process, crashes, cooled, stableDone,
                   switches, system, then, pgid, seen, history>>

StartBegins(t) ==
    /\ pc[t] = "begin"
    /\ state' = "STARTING"
    /\ Go(t, "clear")
    /\ UNCHANGED <<stopRequested, process, crashes, cooled, stableDone,
                   switches, system, then, pgid, seen, history>>

StartClears(t) ==
    /\ pc[t] = "clear"
    /\ stopRequested' = FALSE /\ asked' = FALSE
    /\ Go(t, "spawn")
    /\ UNCHANGED <<state, process, crashes, cooled, stableDone, switches,
                   system, then, pgid, seen, raced>>

Spawn(t) ==
    /\ pc[t] = "spawn" /\ spawned < MaxSpawn
    /\ spawned' = spawned + 1
    /\ process' = spawned'
    /\ os' = [os EXCEPT ![spawned'] = "run"]
    /\ Go(t, "spawned")
    /\ UNCHANGED <<state, stopRequested, crashes, cooled, stableDone,
                   switches, children, then, pgid, seen, history>>

(* No such directory or file, or any other exception of Popen.             *)
SpawnFails(t) ==
    /\ pc[t] = "spawn"
    /\ state' = "FATAL"
    /\ Leave(t)
    /\ UNCHANGED <<stopRequested, process, crashes, cooled, stableDone,
                   switches, system, then, pgid, seen, history>>

Started(t) ==
    /\ pc[t] = "spawned"
    /\ stableDone' = FALSE
    /\ state' = "RUNNING"
    /\ Leave(t)
    /\ UNCHANGED <<stopRequested, process, crashes, cooled, switches, system,
                   then, pgid, seen, history>>

StartStep(t) ==
    \/ StartLooks(t) \/ StartAlive(t) \/ StartBegins(t) \/ StartClears(t)
    \/ Spawn(t) \/ SpawnFails(t) \/ Started(t)

-----------------------------------------------------------------------------
(* The requests, on the event loop.                                        *)

Request(place, next) ==
    /\ pc["loop"] = "idle"
    /\ Go("loop", place)
    /\ then' = next
    /\ UNCHANGED <<service, switches, system, pgid, seen, history>>

RequestStart   == Request("startservice", "startservice")
stop_service   == Request("stop", "idle")
restart_service == Request("stop", "startservice")

(* app.shutdown: the selected hand driver is stopped first, then stop_all. *)
Shutdown == Request("stop", "stopall") \/ Request("stopall", "idle")

(* An explicit start of a service that is not running begins a new cycle.  *)
start_service ==
    /\ pc["loop"] = "startservice"
    /\ IF state \in {"STOPPED", "FATAL", "DEGRADED"}
       THEN crashes' = 0 /\ cooled' = TRUE
       ELSE UNCHANGED <<crashes, cooled>>
    /\ Go("loop", "start")
    /\ UNCHANGED <<state, stopRequested, process, stableDone, switches,
                   system, then, pgid, seen, history>>

stop_all ==
    /\ pc["loop"] = "stopall"
    /\ Go("loop", IF state \in {"RUNNING", "STARTING", "CRASHED"} THEN "stop"
                  ELSE "stopmon")
    /\ then' = "stopmon"
    /\ UNCHANGED <<service, switches, system, pgid, seen, history>>

stop_monitoring ==
    /\ pc["loop"] = "stopmon"
    /\ monitoring' = FALSE
    /\ Go("loop", "down")
    /\ UNCHANGED <<autoRestart, service, system, then, pgid, seen, history>>

-----------------------------------------------------------------------------
(* ManagedProcess.stop.                                                    *)

StopReturns(result) ==
    /\ state' = result
    /\ pgid' = 0
    /\ Go("loop", then)
    /\ UNCHANGED <<stopRequested, process, crashes, cooled, stableDone,
                   switches, system, then, seen, history>>

StopGoesOn(place) ==
    /\ Go("loop", place)
    /\ UNCHANGED <<process, crashes, cooled, stableDone, switches, then, seen,
                   raced>>

StopLooks ==
    /\ pc["loop"] = "stop"
    /\ StopGoesOn(IF Alive(process) THEN "mark" ELSE "gone")
    /\ UNCHANGED <<state, stopRequested, system, pgid, asked>>

(* Nothing ran when it looked: stop_requested keeps its value.             *)
StopDead == pc["loop"] = "gone" /\ StopReturns("STOPPED")

StopMarks ==
    /\ pc["loop"] = "mark"
    /\ state' = "STOPPING"
    /\ StopGoesOn("flag")
    /\ UNCHANGED <<stopRequested, system, pgid, asked>>

StopFlags ==
    /\ pc["loop"] = "flag"
    /\ stopRequested' = TRUE
    /\ asked' = (Alive(process) \/ (stopRequested /\ asked))
    /\ StopGoesOn("term")
    /\ UNCHANGED <<state, system, pgid>>

(* SIGTERM to the group of the Popen object: of the process, or of one     *)
(* that has died and has not been waited for.  Each member may take it or  *)
(* not.                                                                    *)
Terminate ==
    /\ pc["loop"] = "term"
    /\ os' = IF Alive(process) THEN [os EXCEPT ![process] = "term"] ELSE os
    /\ pgid' = process
    /\ StopGoesOn("wait")
    /\ UNCHANGED <<state, stopRequested, children, spawned, asked>>

(* Another exception of getpgid or killpg.                                 *)
StopFails ==
    /\ SignalsFail
    /\ pc["loop"] = "term"
    /\ StopReturns("FATAL")

(* Mutant: the wait is over when its timeout is.                           *)
StopGoneEarly ==
    /\ pc["loop"] \in {"term", "wait", "reap"}
    /\ StopReturns("STOPPED")

(* poll() of the wait loop, or ProcessLookupError: the process is gone.    *)
(* Only the leader of the group is looked for.                             *)
StopGone ==
    /\ pc["loop"] \in {"term", "wait", "reap"} /\ ~Alive(process)
    /\ StopReturns("STOPPED")

(* The timeout elapsed: SIGKILL to the group that was captured (a zombie   *)
(* may still be there to take it), then wait() for the current Popen.      *)
Kill ==
    /\ pc["loop"] = "wait"
    /\ os' = [os EXCEPT ![pgid] = "dead"]
    /\ children' = children \ {pgid}
    /\ StopGoesOn("reap")
    /\ UNCHANGED <<state, stopRequested, spawned, pgid, asked>>

KillFindsNothing ==
    /\ pc["loop"] = "wait" /\ ~Alive(pgid) /\ pgid \notin children
    /\ StopReturns("STOPPED")

StopStep ==
    \/ StopLooks \/ StopDead \/ StopMarks \/ StopFlags \/ Terminate
    \/ StopGone \/ Kill \/ KillFindsNothing

-----------------------------------------------------------------------------
(* The health thread: check_health, should_auto_restart, start.            *)

HealthKeeps(unchanged) ==
    UNCHANGED <<unchanged, stopRequested, process, switches, system, then, pgid,
                asked>>
HealthLeaves(unchanged) == HealthKeeps(<<unchanged, raced>>)
HealthSees(place) ==
    /\ Go("health", place)
    /\ HealthKeeps(<<state, crashes, cooled, stableDone>>)

(* Mutant: a DEGRADED service waits for a request.                         *)
CheckDegradedForever ==
    /\ pc["health"] = "sleep" /\ monitoring /\ state = "DEGRADED"
    /\ stopRequested /\ HealthSees("planned") /\ UNCHANGED <<seen, raced>>

CheckDegraded ==
    /\ pc["health"] = "sleep" /\ monitoring /\ state = "DEGRADED"
    /\ \/ stopRequested /\ HealthSees("planned") /\ UNCHANGED raced
       \/ /\ ~stopRequested /\ autoRestart /\ cooled /\ HealthSees("retry")
          /\ raced' = (raced \/ Busy("loop"))
    /\ UNCHANGED seen

Retry ==
    /\ pc["health"] = "retry"
    /\ state' = "CRASHED"
    /\ Go("health", "decide")
    /\ HealthLeaves(<<crashes, cooled, stableDone, seen>>)

CheckUnstarted ==
    /\ pc["health"] = "sleep" /\ monitoring
    /\ state \notin {"FATAL", "DEGRADED"} /\ process = 0
    /\ HealthSees("unstarted") /\ UNCHANGED <<seen, raced>>

(* Nothing was ever started, or what was has exited as planned.            *)
SetStopped ==
    /\ pc["health"] \in {"unstarted", "planned"}
    /\ state' = "STOPPED"
    /\ Go("health", "sleep")
    /\ HealthLeaves(<<crashes, cooled, stableDone, seen>>)

Poll ==
    /\ pc["health"] = "sleep" /\ monitoring
    /\ state \notin {"FATAL", "DEGRADED"} /\ process # 0
    /\ seen' = Alive(process)
    /\ raced' = (raced \/ (~Alive(process) /\ Busy("loop")))
    /\ HealthSees("judge")

JudgeAlive ==
    /\ pc["health"] = "judge" /\ seen
    /\ state' = "RUNNING"
    /\ \/ UNCHANGED <<crashes, stableDone>>
       \/ ~stableDone /\ crashes' = 0 /\ stableDone' = TRUE
    /\ Go("health", "sleep")
    /\ HealthLeaves(<<cooled, seen>>)

(* Mutant: a requested stop counts as a crash.                             *)
JudgeDeadAlways ==
    /\ pc["health"] = "judge" /\ ~seen /\ state # "CRASHED"
    /\ HealthSees("crash") /\ UNCHANGED <<seen, raced>>

(* stop_requested decides whether the exit was planned.  (The early return *)
(* of a crash that is known already cannot be reached: the thread that     *)
(* stores CRASHED decides at once.)                                        *)
JudgeDead ==
    /\ pc["health"] = "judge" /\ ~seen
    /\ \/ stopRequested /\ HealthSees("planned")
       \/ ~stopRequested /\ state # "CRASHED" /\ HealthSees("crash")
    /\ UNCHANGED <<seen, raced>>

(* Mutant: the limit is compared with the crashes before this one.         *)
JudgeCrashLate ==
    /\ pc["health"] = "crash"
    /\ \E kept \in 0..crashes :
         crashes' = IF kept <= MaxRestarts THEN kept + 1 ELSE kept
    /\ IF crashes > MaxRestarts
       THEN state' = "DEGRADED" /\ cooled' = FALSE /\ Go("health", "sleep")
       ELSE state' = "CRASHED" /\ Go("health", "decide") /\ UNCHANGED cooled
    /\ HealthLeaves(<<stableDone, seen>>)

(* A crash, written after the log was read: those outside the window are   *)
(* forgotten; too many in it, and the service is DEGRADED until it has     *)
(* cooled down.                                                            *)
JudgeCrash ==
    /\ pc["health"] = "crash"
    /\ \/ /\ ~autoRestart
          /\ state' = "FATAL" /\ Go("health", "sleep")
          /\ UNCHANGED <<crashes, cooled>>
       \/ /\ autoRestart
          /\ \E kept \in 0..crashes :
               crashes' = IF kept <= MaxRestarts THEN kept + 1 ELSE kept
          /\ IF crashes' > MaxRestarts
             THEN state' = "DEGRADED" /\ cooled' = FALSE /\ Go("health", "sleep")
             ELSE state' = "CRASHED" /\ Go("health", "decide") /\ UNCHANGED cooled
    /\ HealthLeaves(<<stableDone, seen>>)

should_auto_restart == autoRestart /\ state = "CRASHED"

Decide ==
    /\ pc["health"] = "decide"
    /\ Go("health", IF should_auto_restart THEN "start" ELSE "sleep")
    /\ HealthLeaves(<<state, crashes, cooled, stableDone, seen>>)

HealthEnds ==
    /\ pc["health"] = "sleep" /\ ~monitoring
    /\ Go("health", "ended")
    /\ HealthLeaves(<<state, crashes, cooled, stableDone, seen>>)

HealthStep ==
    \/ CheckDegraded \/ Retry \/ CheckUnstarted \/ SetStopped \/ Poll
    \/ JudgeAlive \/ JudgeDead \/ JudgeCrash \/ Decide \/ HealthEnds
    \/ StartStep("health")

-----------------------------------------------------------------------------
(* The operating system and the clock.                                     *)

Exits(p) ==
    /\ Alive(p)
    /\ os' = [os EXCEPT ![p] = "dead"]
    /\ UNCHANGED <<service, switches, children, spawned, local, history>>

(* A service starts programs of its own, which are in its group; they may  *)
(* end before it, with it or after it.                                     *)
Forks(p) ==
    /\ Alive(p) /\ p \notin children /\ Cardinality(children) < MaxGroups
    /\ children' = children \cup {p}
    /\ UNCHANGED <<service, switches, os, spawned, local, history>>

ChildrenEnd(p) ==
    /\ p \in children
    /\ children' = children \ {p}
    /\ UNCHANGED <<service, switches, os, spawned, local, history>>

CoolsDown ==
    /\ ~cooled /\ cooled' = TRUE
    /\ UNCHANGED <<state, stopRequested, process, crashes, stableDone,
                   switches, system, local, history>>

LoopStep ==
    \/ start_service \/ StartStep("loop") \/ StopStep \/ stop_all
    \/ stop_monitoring

Next ==
    \/ RequestStart \/ stop_service \/ restart_service \/ Shutdown
    \/ LoopStep \/ StopFails
    \/ HealthStep
    \/ CoolsDown
    \/ \E p \in Pids : Exits(p) \/ Forks(p) \/ ChildrenEnd(p)

Spec == Init /\ [][Next]_vars

(* Both threads are scheduled and the clock advances.                      *)
FairSpec ==
    /\ Spec
    /\ WF_vars(LoopStep) /\ WF_vars(HealthStep) /\ WF_vars(CoolsDown)

-----------------------------------------------------------------------------
(* Only the process of the Popen object runs: none is forgotten by a       *)
(* start, a crash, an automatic restart or a stop, unless a request raced  *)
(* with the health thread on start().                                      *)
NoForgottenProcess ==
    ~raced => \A p \in Pids : Alive(p) => p = process

(* A stop sticks that wrote its request while the process was alive: the   *)
(* health thread does not take it back by a start of its own, whatever it  *)
(* had seen before.  (A process that dies by itself after stop() looked    *)
(* and before it writes stop_requested can be taken for a crash; its       *)
(* restart is then not held up by the stop.)                               *)
StopSticks ==
    [][pc["health"] = "clear" /\ pc'["health"] = "spawn" /\ ~raced
         => ~(stopRequested /\ asked)]_vars

(* Automatic restarts are throttled: beyond max_restarts crashes in the    *)
(* window the service is started only after the cool-down.                 *)
RestartsThrottled ==
    [][pc["health"] = "spawn" /\ pc'["health"] = "spawned"
         => crashes <= MaxRestarts \/ cooled]_vars

(* stop() that signalled a group returns STOPPED only when its leader is   *)
(* gone, and if it had to kill, only when the whole group is; again unless *)
(* a request raced with the health thread on start().  (After SIGTERM it   *)
(* waits for the leader alone: a member that ignores it outlives a stop.)  *)
StopKillsGroup ==
    [][pgid # 0 /\ pgid' = 0 /\ state' = "STOPPED" /\ ~raced
         => ~Alive(pgid) /\ (pc["loop"] = "reap" => pgid \notin children)]_vars

(* A crashed service is started again, or given up explicitly, or a        *)
(* request takes over: it is not left dead with nobody trying.             *)
CrashHandled ==
    (autoRestart /\ process # 0 /\ ~Alive(process) /\ ~stopRequested)
        ~> (Alive(process) \/ stopRequested \/ state = "FATAL"
              \/ ~monitoring \/ pc["loop"] # "idle" \/ spawned = MaxSpawn)

(* "STOPPED: stopped as planned" (process_manager.py:275, check_health):   *)
(* a service that a stop request left STOPPED stays so until it is started *)
(* by a request: it is not taken for crashed.                              *)
StoppedMeansStopped ==
    [][pc["loop"] = "idle" /\ then = "idle" /\ state = "STOPPED"
         => state' \notin {"CRASHED", "DEGRADED"}]_vars
=============================================================================
