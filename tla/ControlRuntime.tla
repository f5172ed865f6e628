--------------------------- MODULE ControlRuntime ---------------------------
(***************************************************************************)
(* The supervisor of the control process in the bridge: class              *)
(* ControlRuntime of control/runtime.py, driven by the requests of         *)
(* bridge/controller.py and by the shutdown of app.py.                     *)
(*                                                                         *)
(* Threads of the bridge:                                                  *)
(*   "rpc"       the lifecycle request in progress (start, stop, restart   *)
(*               are serialised by the WebSocket server), in a worker      *)
(*   "shutdown"  app.shutdown, which stops the component on its own        *)
(*   "loop"      the event loop, where start/pause/resume run              *)
(*   one monitor thread per generation of the process                      *)
(* self._lock makes each locked section one step; what happens between     *)
(* two locked sections interleaves.  A generation of the process keeps the *)
(* promises of ChildContract.                                              *)
(***************************************************************************)
EXTENDS Naturals, Sequences

CONSTANTS MaxGen,      \* bound: generations of the control process
          MaxPipe,     \* bound: messages in the pipe of a generation
          Reported,    \* bound: the states a process is seen to report
          Stoppers,    \* the callers that stop the component
          Teleop       \* the states teleop commands ask for

Gens    == 1..MaxGen
Callers == {"rpc", "shutdown", "loop"}
States  == {"STARTING", "READY", "RUNNING", "PAUSED", "STOPPING", "STOPPED",
            "ERROR"}

ASSUME RuntimeAssumption ==
    /\ MaxGen \in Nat \ {0} /\ MaxPipe \in Nat \ {0}
    /\ Reported \subseteq States
    /\ Stoppers \subseteq {"rpc", "shutdown"}
    /\ Teleop \subseteq {"RUNNING", "PAUSED"}

Active  == {"READY", "RUNNING", "PAUSED"}

VARIABLES
    state,        \* self._state
    process,      \* self._process: a generation, 0 for None
    connection,   \* self._connection: a generation, 0 for None
    monitorStop,  \* self._monitor_stop is set
    gen,          \* generations started so far
    open,         \* generations whose parent connection is open
    disposed,     \* generations whose Process object is closed
    pc,           \* where each caller is
    mine,         \* the process a caller took under the lock
    line,         \* the connection a caller took under the lock
    wish,         \* the state a teleop command will set
    mon,          \* where the monitor of each generation is
    held,         \* the message a monitor received and has not applied
    stale,        \* history: messages applied to a later generation (0..2)
    alive,        \* the process of each generation runs
    up, ending,   \* where a live process is (ChildContract)
    pipe          \* messages from each process

supervised == <<process, connection, monitorStop, gen, open, disposed>>
parent  == <<state, supervised>>
callers == <<pc, mine, line, wish>>
monitor == <<mon, held, stale>>
child   == <<alive, up, ending, pipe>>
vars == <<state, process, connection, monitorStop, gen, open, disposed, pc,
          mine, line, wish, mon, held, stale, alive, up, ending, pipe>>

CallerPlaces == {"idle", "waiting", "rollback", "snapshot", "send", "join",
                 "monstop", "finish", "set", "raised", "done"}
MonitorPlaces == {"none", "loop", "poll", "held", "check", "drain",
                  "drainheld", "final", "done"}

ParentOK ==
    /\ state \in States
    /\ process \in 0..MaxGen /\ connection \in 0..MaxGen /\ gen \in 0..MaxGen
    /\ monitorStop \in BOOLEAN
    /\ open \subseteq Gens /\ disposed \subseteq Gens

CallersOK ==
    /\ pc \in [Callers -> CallerPlaces]
    /\ mine \in [Callers -> 0..MaxGen] /\ line \in [Callers -> 0..MaxGen]
    /\ wish \in States

MonitorOK ==
    /\ mon \in [Gens -> MonitorPlaces] /\ held \in [Gens -> States]
    /\ stale \in [Gens -> 0..2]

ChildOK ==
    /\ alive \in [Gens -> BOOLEAN] /\ up \in [Gens -> BOOLEAN]
    /\ ending \in [Gens -> BOOLEAN]
    /\ pipe \in [Gens -> Seq(States)]

TypeOK == ParentOK /\ CallersOK /\ MonitorOK /\ ChildOK

Init ==
    /\ state = "STOPPED" /\ process = 0 /\ connection = 0
    /\ monitorStop = FALSE /\ gen = 0 /\ open = {} /\ disposed = {}
    /\ pc = [c \in Callers |-> "idle"] /\ mine = [c \in Callers |-> 0]
    /\ line = [c \in Callers |-> 0]
    /\ wish = "RUNNING"
    /\ mon = [g \in Gens |-> "none"] /\ held = [g \in Gens |-> "STARTING"]
    /\ stale = [g \in Gens |-> 0]
    /\ alive = [g \in Gens |-> FALSE] /\ up = [g \in Gens |-> FALSE]
    /\ ending = [g \in Gens |-> FALSE] /\ pipe = [g \in Gens |-> <<>>]

Alive(p) == p # 0 /\ alive[p]
Go(c, place) == pc' = [pc EXCEPT ![c] = place]

(* The call of c returns; what it took is forgotten.  The shutdown stops   *)
(* the component once.                                                     *)
Return(c) ==
    /\ pc' = [pc EXCEPT ![c] = IF c = "shutdown" THEN "done" ELSE "idle"]
    /\ mine' = [mine EXCEPT ![c] = 0]
    /\ line' = [line EXCEPT ![c] = 0]

(* _dispose_finished_locked of a process that is not alive: its connection *)
(* is closed, with the messages left in it, and so is its Process object.  *)
dispose ==
    /\ open' = open \ {connection}
    /\ pipe' = [g \in Gens |-> IF g = connection THEN <<>> ELSE pipe[g]]
    /\ disposed' = IF process = 0 THEN disposed ELSE disposed \cup {process}
    /\ connection' = 0 /\ process' = 0

Dies(g) ==
    /\ alive' = [alive EXCEPT ![g] = FALSE]
    /\ up' = [up EXCEPT ![g] = FALSE]
    /\ ending' = [ending EXCEPT ![g] = FALSE]

-----------------------------------------------------------------------------
(* start_component and wait_until_ready, for a start or restart request,   *)
(* which may ask not to wait (wait_ready).                                 *)

Await == Return("rpc") \/ (Go("rpc", "waiting") /\ UNCHANGED <<mine, line>>)

StartAgain ==
    /\ pc["rpc"] = "idle" /\ Alive(process)
    /\ Await
    /\ UNCHANGED <<parent, wish, monitor, child>>

(* Mutant: a live process is not looked for.                               *)
start_component_unchecked ==
    /\ pc["rpc"] = "idle" /\ gen < MaxGen
    /\ gen' = gen + 1
    /\ process' = gen' /\ connection' = gen'
    /\ open' = open \cup {gen'}
    /\ monitorStop' = FALSE
    /\ state' = "STARTING"
    /\ alive' = [alive EXCEPT ![gen'] = TRUE]
    /\ mon' = [mon EXCEPT ![gen'] = "loop"]
    /\ Await
    /\ UNCHANGED <<disposed, wish, held, stale, up, ending, pipe>>

(* Mutant: the connection of the finished process is left open.            *)
start_component_leaky ==
    /\ pc["rpc"] = "idle" /\ ~Alive(process) /\ gen < MaxGen
    /\ gen' = gen + 1
    /\ process' = gen' /\ connection' = gen'
    /\ disposed' = IF process = 0 THEN disposed ELSE disposed \cup {process}
    /\ open' = open \cup {gen'}
    /\ monitorStop' = FALSE
    /\ state' = "STARTING"
    /\ alive' = [alive EXCEPT ![gen'] = TRUE]
    /\ mon' = [mon EXCEPT ![gen'] = "loop"]
    /\ Await
    /\ UNCHANGED <<wish, held, stale, up, ending, pipe>>

start_component ==
    /\ pc["rpc"] = "idle" /\ ~Alive(process) /\ gen < MaxGen
    /\ gen' = gen + 1
    /\ process' = gen' /\ connection' = gen'
    /\ disposed' = IF process = 0 THEN disposed ELSE disposed \cup {process}
    /\ open' = (open \ {connection}) \cup {gen'}
    /\ pipe' = [g \in Gens |-> IF g = connection THEN <<>> ELSE pipe[g]]
    /\ monitorStop' = FALSE
    /\ state' = "STARTING"
    /\ alive' = [alive EXCEPT ![gen'] = TRUE]
    /\ mon' = [mon EXCEPT ![gen'] = "loop"]
    /\ Await
    /\ UNCHANGED <<wish, held, stale, up, ending>>

(* process.start() raises: the new pipe and process are dropped.           *)
StartFails ==
    /\ pc["rpc"] = "idle" /\ ~Alive(process)
    /\ dispose
    /\ monitorStop' = FALSE
    /\ state' = "ERROR"
    /\ Go("rpc", "waiting")
    /\ UNCHANGED <<gen, mine, line, wish, monitor, alive, up, ending>>

wait_until_ready ==
    /\ pc["rpc"] = "waiting" /\ state \in Active
    /\ Return("rpc")
    /\ UNCHANGED <<parent, wish, monitor, child>>

(* ERROR, STOPPED or the timeout: the failed start is rolled back.         *)
NotReady ==
    /\ pc["rpc"] = "waiting" /\ state \notin Active
    /\ Go("rpc", "rollback")
    /\ UNCHANGED <<parent, mine, line, wish, monitor, child>>

-----------------------------------------------------------------------------
(* stop_component, by a request, a rollback or the shutdown.               *)

MayStop(c) == c \in Stoppers /\ pc[c] \in {"idle", "rollback"}

(* Mutant: the process is disposed of without a look at whether it lives.  *)
StopFinishedUnchecked(c) ==
    /\ MayStop(c)
    /\ dispose
    /\ state' = "STOPPED"
    /\ Return(c)
    /\ UNCHANGED <<monitorStop, gen, wish, monitor, alive, up, ending>>

StopFinished(c) ==
    /\ MayStop(c) /\ ~Alive(process)
    /\ dispose
    /\ state' = "STOPPED"
    /\ Return(c)
    /\ UNCHANGED <<monitorStop, gen, wish, monitor, alive, up, ending>>

StopBegins(c) ==
    /\ MayStop(c) /\ Alive(process)
    /\ state' = "STOPPING"
    /\ mine' = [mine EXCEPT ![c] = process]
    /\ Go(c, "snapshot")
    /\ UNCHANGED <<supervised, line, wish, monitor, child>>

(* process.join() and is_alive() of a Process another caller closed raise  *)
(* ValueError: the call ends there.                                        *)
JoinRaises(c) ==
    /\ pc[c] \in {"join", "finish"} /\ mine[c] \in disposed
    /\ Go(c, "raised")
    /\ UNCHANGED <<parent, mine, line, wish, monitor, child>>

Raised(c) ==
    /\ pc[c] = "raised" /\ Return(c)
    /\ UNCHANGED <<parent, wish, monitor, child>>

Joined(c) ==
    /\ pc[c] = "join" /\ mine[c] \notin disposed /\ ~alive[mine[c]]
    /\ Go(c, "monstop")
    /\ UNCHANGED <<parent, mine, line, wish, monitor, child>>

(* The timeout elapsed: _terminate_process_tree, which may not end it.     *)
JoinTimesOut(c) ==
    /\ pc[c] = "join" /\ Alive(mine[c])
    /\ Dies(mine[c]) \/ UNCHANGED <<alive, up, ending>>
    /\ Go(c, "monstop")
    /\ UNCHANGED <<parent, mine, line, wish, monitor, pipe>>

(* The monitor is told to stop; it is joined for at most a second.         *)
StopMonitor(c) ==
    /\ pc[c] = "monstop"
    /\ monitorStop' = TRUE
    /\ Go(c, "finish")
    /\ UNCHANGED <<state, process, connection, gen, open, disposed, mine, line,
                   wish, monitor, child>>

StopFails(c) ==
    /\ pc[c] = "finish" /\ Alive(mine[c])
    /\ state' = "ERROR"
    /\ Return(c)
    /\ UNCHANGED <<supervised, wish, monitor, child>>

(* Mutant: the process is taken for dead once the timeouts have elapsed.   *)
StopEndsAnyway(c) ==
    /\ pc[c] = "finish" /\ mine[c] \notin disposed
    /\ dispose
    /\ state' = "STOPPED"
    /\ Return(c)
    /\ UNCHANGED <<monitorStop, gen, wish, monitor, alive, up, ending>>

StopEnds(c) ==
    /\ pc[c] = "finish" /\ mine[c] \notin disposed /\ ~Alive(mine[c])
    /\ IF Alive(process)
       THEN UNCHANGED <<process, connection, open, disposed, pipe>>
       ELSE dispose
    /\ state' = "STOPPED"
    /\ Return(c)
    /\ UNCHANGED <<monitorStop, gen, wish, monitor, alive, up, ending>>

-----------------------------------------------------------------------------
(* _send_raw: the connection is read under the lock and used outside it.   *)
(* A stop swallows a failure; a teleop command is answered with it.        *)

FailSend(c) == IF c = "loop" THEN Return(c)
               ELSE Go(c, "join") /\ UNCHANGED <<mine, line>>

SendUnconnected(c) ==
    /\ pc[c] = "snapshot" /\ connection = 0
    /\ FailSend(c)
    /\ UNCHANGED <<parent, wish, monitor, child>>

TakeConnection(c) ==
    /\ pc[c] = "snapshot" /\ connection # 0
    /\ line' = [line EXCEPT ![c] = connection]
    /\ Go(c, "send")
    /\ UNCHANGED <<parent, mine, wish, monitor, child>>

Reachable(g) == g \in open /\ alive[g]

SendSucceeds(c) ==
    /\ pc[c] = "send" /\ Reachable(line[c])
    /\ Go(c, IF c = "loop" THEN "set" ELSE "join")
    /\ line' = [line EXCEPT ![c] = 0]
    /\ UNCHANGED <<parent, mine, wish, monitor, child>>

SendFails(c) ==
    /\ pc[c] = "send" /\ ~Reachable(line[c])
    /\ state' = "ERROR"
    /\ FailSend(c)
    /\ UNCHANGED <<supervised, wish, monitor, child>>

-----------------------------------------------------------------------------
(* start_teleop, resume (RUNNING) and pause (PAUSED): _send_command.       *)

RequestTeleop(s) ==
    /\ pc["loop"] = "idle" /\ Alive(process)
    /\ wish' = s
    /\ Go("loop", "snapshot")
    /\ UNCHANGED <<parent, mine, line, monitor, child>>

TeleopSets ==
    /\ pc["loop"] = "set"
    /\ state' = wish
    /\ Return("loop")
    /\ UNCHANGED <<supervised, wish, monitor, child>>

-----------------------------------------------------------------------------
(* _monitor of generation g, whose process and connection are its own.     *)

MonGo(g, from, place) == mon[g] = from /\ mon' = [mon EXCEPT ![g] = place]

MonContinues(g) ==
    /\ ~monitorStop /\ MonGo(g, "loop", "poll")
    /\ UNCHANGED <<parent, callers, held, stale, child>>

MonStops(g) ==
    /\ monitorStop /\ MonGo(g, "loop", "drain")
    /\ UNCHANGED <<parent, callers, held, stale, child>>

HasMessage(g) == g \in open /\ pipe[g] # <<>>

MonReceives(g) ==
    /\ HasMessage(g)
    /\ \/ MonGo(g, "poll", "held")
       \/ MonGo(g, "drain", "drainheld")
    /\ held' = [held EXCEPT ![g] = Head(pipe[g])]
    /\ pipe' = [pipe EXCEPT ![g] = Tail(pipe[g])]
    /\ UNCHANGED <<parent, callers, stale, alive, up, ending>>

(* _handle_message does not look at the generation.                        *)
MonApplies(g) ==
    /\ \/ MonGo(g, "held", "poll")
       \/ MonGo(g, "drainheld", "drain")
    /\ state' = held[g]
    /\ stale' = IF g = gen \/ stale[g] = 2 THEN stale
                ELSE [stale EXCEPT ![g] = @ + 1]
    /\ held' = [held EXCEPT ![g] = "STARTING"]
    /\ UNCHANGED <<supervised, callers, child>>

(* Nothing to read, the end of the pipe, or a connection that was closed.  *)
MonQuiet(g) ==
    /\ ~HasMessage(g)
    /\ \/ MonGo(g, "poll", "check")
       \/ MonGo(g, "drain", "final")
    /\ UNCHANGED <<parent, callers, held, stale, child>>

(* process.is_alive() of a closed Process raises: the thread ends.         *)
MonRaises(g) ==
    /\ g \in disposed /\ MonGo(g, "check", "done")
    /\ UNCHANGED <<parent, callers, held, stale, child>>

MonChecks(g) ==
    /\ g \notin disposed
    /\ \/ alive[g] /\ MonGo(g, "check", "loop")
       \/ ~alive[g] /\ MonGo(g, "check", "drain")
    /\ UNCHANGED <<parent, callers, held, stale, child>>

(* The end of the monitor: an exit nobody asked for is an ERROR, unless    *)
(* the process is no longer the one supervised.                            *)
(* Mutant: an exit before the robot follows is taken for a normal one.     *)
MonReportsRunning(g) ==
    /\ MonGo(g, "final", "done")
    /\ state' = IF process = g /\ state = "RUNNING" THEN "ERROR" ELSE state
    /\ UNCHANGED <<supervised, callers, held, stale, child>>

MonReports(g) ==
    /\ MonGo(g, "final", "done")
    /\ state' = IF process = g /\ state \notin {"ERROR", "STOPPED", "STOPPING"}
                THEN "ERROR" ELSE state
    /\ UNCHANGED <<supervised, callers, held, stale, child>>

MonStep(g) ==
    \/ MonContinues(g) \/ MonStops(g) \/ MonReceives(g) \/ MonApplies(g)
    \/ MonQuiet(g) \/ MonRaises(g) \/ MonChecks(g) \/ MonReports(g)

-----------------------------------------------------------------------------
(* A generation of the process, as ChildContract promises.                 *)

Child(g) == INSTANCE ChildContract
    WITH up <- up[g], ending <- ending[g], gone <- ~alive[g],
         report <- "STARTING"   \* only its operator Reports is used

ChildReports(g) ==
    /\ alive[g] /\ Len(pipe[g]) < MaxPipe
    /\ \E s \in Reported \cap Child(g)!Reports(up[g], ending[g]) :
         pipe' = [pipe EXCEPT ![g] = Append(@, s)]
    /\ UNCHANGED <<parent, callers, monitor, alive, up, ending>>

ChildSetsUp(g) ==
    /\ alive[g] /\ ~ending[g] /\ ~up[g]
    /\ up' = [up EXCEPT ![g] = TRUE]
    /\ UNCHANGED <<parent, callers, monitor, alive, ending, pipe>>

ChildEnds(g) ==
    /\ alive[g] /\ ~ending[g]
    /\ ending' = [ending EXCEPT ![g] = TRUE]
    /\ UNCHANGED <<parent, callers, monitor, alive, up, pipe>>

(* The process exits, or is killed from outside in any situation.          *)
ChildExits(g) ==
    /\ alive[g]
    /\ Dies(g)
    /\ UNCHANGED <<parent, callers, monitor, pipe>>

StopStep(c) ==
    \/ JoinRaises(c) \/ Raised(c) \/ Joined(c) \/ JoinTimesOut(c) \/ StopMonitor(c)
    \/ StopFails(c) \/ StopEnds(c)

SendStep(c) ==
    \/ SendUnconnected(c) \/ TakeConnection(c) \/ SendSucceeds(c)
    \/ SendFails(c)

Next ==
    \/ StartAgain \/ start_component \/ StartFails
    \/ wait_until_ready \/ NotReady
    \/ \E c \in Stoppers :
         StopFinished(c) \/ StopBegins(c) \/ StopStep(c)
    \/ \E c \in Callers : SendStep(c)
    \/ \E s \in Teleop : RequestTeleop(s)
    \/ TeleopSets
    \/ \E g \in Gens :
         \/ MonStep(g)
         \/ ChildReports(g) \/ ChildSetsUp(g) \/ ChildEnds(g) \/ ChildExits(g)

Spec == Init /\ [][Next]_vars

(* Threads are scheduled.  Nothing is asked of the processes: one that was *)
(* sent a stop may stay in its set-up (ControlChild), and the join of its  *)
(* stopper times out.                                                      *)
FairSpec ==
    /\ Spec
    /\ \A g \in Gens : WF_vars(MonStep(g))
    /\ \A c \in Stoppers : WF_vars(StopStep(c) \/ SendStep(c))
    /\ WF_vars(TeleopSets \/ SendStep("loop"))
    /\ WF_vars(wait_until_ready \/ NotReady)

-----------------------------------------------------------------------------
(* There is never a second control process: whatever starts, stops,        *)
(* crashes and late threads do, a live process is the one supervised.      *)
OneControlProcess == \A g \in Gens : alive[g] => process = g

(* The pipe of the supervised process stays open while it is alive, and    *)
(* its Process object is not closed under the threads that use it.         *)
LiveIsSupervised ==
    \A g \in Gens : alive[g] => g \in open /\ connection = g /\ g \notin disposed

(* A monitor that outlives its generation applies at most the one message  *)
(* it had already received: the pipe of a replaced process is closed.      *)
StaleWritesBounded == \A g \in Gens : stale[g] <= 1

(* A stop is answered "ok" only when the process it stopped is gone, and   *)
(* leaves none that is dead behind.                                        *)
StopMeansStopped ==
    [][\A c \in Stoppers :
         pc[c] = "finish" /\ pc'[c] \in {"idle", "done"} /\ state' = "STOPPED"
            => ~Alive(mine[c]) /\ ~Alive(process')]_vars

(* The monitor reports every exit: the state does not stay READY, RUNNING  *)
(* or PAUSED under a monitor that has not ended yet.                       *)
ExitNoticed ==
    \A g \in Gens :
        (~alive[g] /\ process = g /\ mon[g] # "done")
            ~> (state \notin Active \/ process # g)
=============================================================================
