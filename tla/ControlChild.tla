---------------------------- MODULE ControlChild ----------------------------
(***************************************************************************)
(* The isolated control process DexFullControl: control/runtime.py         *)
(* (_control_process_entry and ProcessRuntimeHooks) together with the      *)
(* lifecycle of control/session.py (run and the request_* functions).      *)
(*                                                                         *)
(* Two threads share the process.  The command thread ("cmd") reads the    *)
(* pipe of the bridge and applies what it reads; the main thread ("main")  *)
(* imports the session, sets the hardware up, follows the operator and     *)
(* cleans up.  Both report states through ProcessRuntimeHooks.set_state,   *)
(* which writes current_state, reads it back for the message, and sends:   *)
(* three steps that the other thread can interleave with.                  *)
(*                                                                         *)
(* The bridge is the environment: it writes commands into the pipe and may *)
(* die.  The pipe delivers in order and what was written before the death  *)
(* is still delivered.                                                     *)
(***************************************************************************)
EXTENDS Naturals, Sequences

CONSTANT MaxCommands   \* bound: commands the bridge writes in one generation

ASSUME MaxCommandsAssumption == MaxCommands \in Nat

Threads     == {"main", "cmd"}
FollowCommands == {"start", "pause", "resume"}
Commands    == FollowCommands \cup {"stop"}
States      == {"STARTING", "READY", "RUNNING", "PAUSED", "STOPPING",
                "STOPPED", "ERROR"}

VARIABLES
    inbox,        \* commands in the pipe, written by the bridge
    sent,         \* how many the bridge wrote (bounded by MaxCommands)
    bridgeUp,     \* the bridge process holds the other end of the pipe
    reported,     \* the last state the bridge can learn from the pipe
    stopEvent,    \* threading.Event stop_event
    commandStop,  \* threading.Event command_stop
    loaded,       \* module_holder["module"] is not None
    pending,      \* pending_commands, local to the command thread
    current,      \* hooks.current_state
    START, STOP, PAUSED,   \* the globals of session.py
    READY,        \* session.py: the hardware is set up
    pc,           \* program counter of each thread
    goal,         \* argument of the set_state call a thread is in
    msg,          \* the state a thread read back for its message
    after,        \* where a thread goes when its set_state returns
    failed,       \* an exception reached the handler of the entry point
    followed,     \* history: start or resume was applied
    afterPause    \* history: arm commands since the pause in force (0..2)

flags   == <<START, STOP, PAUSED, READY>>
pipe    == <<inbox, sent, bridgeUp>>
calls   == <<pc, goal, msg, after>>
history == <<followed, afterPause>>
vars == <<inbox, sent, bridgeUp, reported, stopEvent, commandStop, loaded,
          pending, current, START, STOP, PAUSED, READY, pc, goal, msg, after,
          failed, followed, afterPause>>

SetSteps  == {"assign", "read", "send"}
CmdPlaces == {"poll", "hand", "drain", "reqstop", "stopped", "eof", "ended"}
MainPlaces == {"boot", "import", "check1", "reset", "check2", "setup", "wait",
               "loop", "sample", "command", "unwind", "clean", "raise",
               "entry", "fin", "unload", "join", "close", "done"}
CmdDone   == {"stopped", "eof", "ended"}

(* Where a thread is: the place it continues at while inside set_state.    *)
Loc(t) == IF pc[t] \in SetSteps THEN after[t] ELSE pc[t]

CallsOK ==
    /\ pc \in [Threads -> SetSteps \cup CmdPlaces \cup MainPlaces]
    /\ after \in [Threads -> CmdPlaces \cup MainPlaces]
    /\ Loc("main") \in MainPlaces /\ Loc("cmd") \in CmdPlaces
    /\ goal \in [Threads -> States] /\ msg \in [Threads -> States]

QueuesOK ==
    /\ inbox \in Seq(Commands) /\ pending \in Seq(FollowCommands)
    /\ sent \in 0..MaxCommands
    /\ current \in States /\ reported \in States

FlagsOK ==
    /\ {bridgeUp, stopEvent, commandStop, loaded} \subseteq BOOLEAN
    /\ {START, STOP, PAUSED, READY, failed, followed} \subseteq BOOLEAN
    /\ afterPause \in 0..2

TypeOK == CallsOK /\ QueuesOK /\ FlagsOK

Init ==
    /\ inbox = <<>> /\ sent = 0 /\ bridgeUp = TRUE
    /\ reported = "STARTING" /\ current = "STARTING"
    /\ stopEvent = FALSE /\ commandStop = FALSE
    /\ loaded = FALSE /\ pending = <<>>
    /\ START = FALSE /\ STOP = FALSE /\ PAUSED = FALSE /\ READY = FALSE
    /\ pc = [t \in Threads |-> IF t = "main" THEN "boot" ELSE "poll"]
    /\ after = [t \in Threads |-> IF t = "main" THEN "boot" ELSE "poll"]
    /\ goal = [t \in Threads |-> "STARTING"]
    /\ msg = [t \in Threads |-> "STARTING"]
    /\ failed = FALSE /\ followed = FALSE /\ afterPause = 0

-----------------------------------------------------------------------------
(* The environment: the bridge process.                                    *)

BridgeSends(c) ==
    /\ bridgeUp /\ sent < MaxCommands /\ pc["main"] # "done"
    /\ inbox' = Append(inbox, c)
    /\ sent' = sent + 1
    /\ UNCHANGED <<bridgeUp, reported, stopEvent, commandStop, loaded, pending,
                   current, flags, calls, failed, history>>

BridgeDies ==
    /\ bridgeUp
    /\ bridgeUp' = FALSE
    /\ UNCHANGED <<inbox, sent, reported, stopEvent, commandStop, loaded,
                   pending, current, flags, calls, failed, history>>

-----------------------------------------------------------------------------
(* ProcessRuntimeHooks.set_state: assign, read back, send.                 *)

Goto(t, place) == pc' = [pc EXCEPT ![t] = place] /\ UNCHANGED <<goal, msg, after>>

CallSetState(t, state, place) ==
    /\ pc' = [pc EXCEPT ![t] = "assign"]
    /\ goal' = [goal EXCEPT ![t] = state]
    /\ after' = [after EXCEPT ![t] = place]
    /\ UNCHANGED msg

AssignState(t) ==
    /\ pc[t] = "assign"
    /\ current' = goal[t]
    /\ Goto(t, "read")
    /\ UNCHANGED <<pipe, reported, stopEvent, commandStop, loaded, pending,
                   flags, failed, history>>

ReadState(t) ==
    /\ pc[t] = "read"
    /\ pc' = [pc EXCEPT ![t] = "send"]
    /\ msg' = [msg EXCEPT ![t] = current]
    /\ UNCHANGED <<goal, after>>
    /\ UNCHANGED <<pipe, reported, stopEvent, commandStop, loaded, pending,
                   current, flags, failed, history>>

(* Mutant: the failed send is only logged.                                 *)
SendStateIgnoresLoss(t) ==
    /\ pc[t] = "send"
    /\ reported' = IF bridgeUp THEN msg[t] ELSE reported
    /\ Goto(t, after[t])
    /\ UNCHANGED <<pipe, stopEvent, commandStop, loaded, pending, current,
                   flags, failed, history>>

(* A send to a bridge that died raises; _send then sets stop_event.        *)
SendState(t) ==
    /\ pc[t] = "send"
    /\ reported' = IF bridgeUp THEN msg[t] ELSE reported
    /\ stopEvent' = (stopEvent \/ ~bridgeUp)
    /\ Goto(t, after[t])
    /\ UNCHANGED <<pipe, commandStop, loaded, pending, current, flags, failed,
                   history>>

SetState(t) == AssignState(t) \/ ReadState(t) \/ SendState(t)

-----------------------------------------------------------------------------
(* The command thread: command_loop and apply_command.                     *)

CmdEnd ==
    /\ pc["cmd"] = "poll" /\ commandStop
    /\ Goto("cmd", "ended")
    /\ UNCHANGED <<pipe, reported, stopEvent, commandStop, loaded, pending,
                   current, flags, failed, history>>

CmdRecvStop ==
    /\ pc["cmd"] = "poll" /\ ~commandStop
    /\ inbox # <<>> /\ Head(inbox) = "stop"
    /\ inbox' = Tail(inbox)
    /\ stopEvent' = TRUE
    /\ pending' = <<>>
    /\ Goto("cmd", "hand")
    /\ UNCHANGED <<sent, bridgeUp, reported, commandStop, loaded, current,
                   flags, failed, history>>

CmdRecvFollow ==
    /\ pc["cmd"] = "poll" /\ ~commandStop
    /\ inbox # <<>> /\ Head(inbox) \in FollowCommands
    /\ inbox' = Tail(inbox)
    /\ pending' = Append(pending, Head(inbox))
    /\ Goto("cmd", "hand")
    /\ UNCHANGED <<sent, bridgeUp, reported, stopEvent, commandStop, loaded,
                   current, flags, failed, history>>

(* poll(0.1) elapsed without a command.                                    *)
CmdTimeout ==
    /\ pc["cmd"] = "poll" /\ ~commandStop
    /\ inbox = <<>> /\ bridgeUp
    /\ Goto("cmd", "hand")
    /\ UNCHANGED <<pipe, reported, stopEvent, commandStop, loaded, pending,
                   current, flags, failed, history>>

(* The bridge is gone and its last command was read: recv raises EOFError. *)
CmdEof ==
    /\ pc["cmd"] = "poll" /\ ~commandStop
    /\ inbox = <<>> /\ ~bridgeUp
    /\ stopEvent' = TRUE
    /\ Goto("cmd", "eof")
    /\ UNCHANGED <<pipe, reported, commandStop, loaded, pending, current,
                   flags, failed, history>>

(* Mutant: commands are applied as soon as the module is there.            *)
MustWaitForModule == ~loaded

(* No module yet, or the session is still STARTING: what was read stays in *)
(* pending_commands.  (A stop is applied whatever the state is.)           *)
MustWait == ~loaded \/ (~stopEvent /\ current = "STARTING")

(* Mutant: the commands read while waiting are forgotten.                  *)
CmdWaitForgets ==
    /\ pc["cmd"] = "hand" /\ MustWait
    /\ pending' = <<>>
    /\ Goto("cmd", "poll")
    /\ UNCHANGED <<pipe, reported, stopEvent, commandStop, loaded, current,
                   flags, failed, history>>

CmdWait ==
    /\ pc["cmd"] = "hand" /\ MustWait
    /\ Goto("cmd", "poll")
    /\ UNCHANGED <<pipe, reported, stopEvent, commandStop, loaded, pending,
                   current, flags, failed, history>>

CmdStop ==
    /\ pc["cmd"] = "hand" /\ ~MustWait /\ stopEvent
    /\ CallSetState("cmd", "STOPPING", "reqstop")
    /\ UNCHANGED <<pipe, reported, stopEvent, commandStop, loaded, pending,
                   current, flags, failed, history>>

(* Mutant: following ends but STOP is not set.                             *)
request_stop_incomplete ==
    /\ pc["cmd"] = "reqstop"
    /\ START' = FALSE /\ PAUSED' = FALSE
    /\ Goto("cmd", "stopped")
    /\ UNCHANGED <<STOP, READY, pipe, reported, stopEvent, commandStop, loaded,
                   pending, current, failed, history>>

request_stop ==
    /\ pc["cmd"] = "reqstop"
    /\ START' = FALSE /\ PAUSED' = FALSE /\ STOP' = TRUE
    /\ Goto("cmd", "stopped")
    /\ UNCHANGED <<READY, pipe, reported, stopEvent, commandStop, loaded, pending,
                   current, failed, history>>

CmdDrain ==
    /\ pc["cmd"] = "hand" /\ ~MustWait /\ ~stopEvent
    /\ Goto("cmd", "drain")
    /\ UNCHANGED <<pipe, reported, stopEvent, commandStop, loaded, pending,
                   current, flags, failed, history>>

(* One command of pending_commands: the request_* function, then its       *)
(* set_state.                                                              *)
Drain(c, state) ==
    /\ pc["cmd"] = "drain" /\ pending # <<>> /\ Head(pending) = c
    /\ pending' = Tail(pending)
    /\ CallSetState("cmd", state, "drain")
    /\ UNCHANGED <<pipe, reported, stopEvent, commandStop, loaded, current,
                   failed>>

request_start ==
    /\ Drain("start", "RUNNING")
    /\ STOP' = FALSE /\ START' = TRUE /\ PAUSED' = FALSE
    /\ followed' = TRUE
    /\ UNCHANGED <<READY, afterPause>>

request_pause ==
    /\ Drain("pause", "PAUSED")
    /\ PAUSED' = TRUE
    /\ afterPause' = IF PAUSED THEN afterPause ELSE 0
    /\ UNCHANGED <<START, STOP, READY, followed>>

request_resume ==
    /\ Drain("resume", "RUNNING")
    /\ START' = TRUE /\ PAUSED' = FALSE
    /\ followed' = TRUE
    /\ UNCHANGED <<STOP, READY, afterPause>>

CmdDrained ==
    /\ pc["cmd"] = "drain" /\ pending = <<>>
    /\ Goto("cmd", "poll")
    /\ UNCHANGED <<pipe, reported, stopEvent, commandStop, loaded, pending,
                   current, flags, failed, history>>

CmdStep ==
    \/ CmdEnd \/ CmdRecvStop \/ CmdRecvFollow \/ CmdTimeout \/ CmdEof
    \/ CmdWait \/ CmdStop \/ request_stop \/ CmdDrain
    \/ request_start \/ request_pause \/ request_resume \/ CmdDrained
    \/ SetState("cmd")

-----------------------------------------------------------------------------
(* The main thread: the entry point and session.run.                       *)

MainGoto(from, place) ==
    /\ pc["main"] = from
    /\ Goto("main", place)
    /\ UNCHANGED <<pipe, reported, commandStop, loaded, pending, current,
                   failed, history>>

MainSets(from, state, place) ==
    /\ pc["main"] = from
    /\ CallSetState("main", state, place)
    /\ UNCHANGED <<pipe, reported, commandStop, loaded, pending, current,
                   failed, history>>

Boot == MainSets("boot", "STARTING", "import") /\ UNCHANGED <<stopEvent, flags>>

ImportModule ==
    /\ pc["main"] = "import"
    /\ loaded' = TRUE
    /\ Goto("main", "check1")
    /\ UNCHANGED <<pipe, reported, stopEvent, commandStop, pending, current,
                   flags, failed, history>>

(* Stopped while importing: the session never runs.                        *)
StopBeforeRun ==
    /\ stopEvent
    /\ MainSets("check1", "STOPPED", "fin") /\ UNCHANGED <<stopEvent, flags>>

EnterRun ==
    /\ ~stopEvent
    /\ MainGoto("check1", "reset") /\ UNCHANGED <<stopEvent, flags>>

ResetFlags ==
    /\ MainSets("reset", "STARTING", "check2")
    /\ START' = FALSE /\ STOP' = FALSE /\ PAUSED' = FALSE /\ READY' = FALSE
    /\ UNCHANGED stopEvent

(* run() looks at stop_event once more, after the flags were reset: a stop *)
(* applied before the reset is found here.                                 *)
StopBeforeSetup ==
    /\ stopEvent
    /\ MainSets("check2", "STOPPED", "fin") /\ UNCHANGED <<stopEvent, flags>>

(* Mutant: run() does not look at stop_event again after its reset.        *)
EnterSetupUnchecked == MainGoto("check2", "setup") /\ UNCHANGED <<stopEvent, flags>>

EnterSetup ==
    /\ ~stopEvent
    /\ MainGoto("check2", "setup") /\ UNCHANGED <<stopEvent, flags>>

(* Set-up waits for the robot to be heard (lowstate), without a bound and  *)
(* without a look at the stop: it may never be done.                       *)
SetupDone ==
    /\ MainSets("setup", "READY", "wait")
    /\ READY' = TRUE
    /\ UNCHANGED <<stopEvent, START, STOP, PAUSED>>

LeaveWait ==
    /\ START \/ STOP
    /\ MainSets("wait", "RUNNING", "loop") /\ UNCHANGED <<stopEvent, flags>>

LoopExits ==
    /\ STOP
    /\ MainSets("loop", "STOPPING", "clean") /\ UNCHANGED <<stopEvent, flags>>

(* Mutants: the loop is entered without a look at STOP, or at PAUSED.      *)
LoopFollowsOnce ==
    /\ ~PAUSED
    /\ MainGoto("loop", "sample") /\ UNCHANGED <<stopEvent, flags>>

LoopIgnoresPause ==
    /\ ~STOP
    /\ MainGoto("loop", "sample") /\ UNCHANGED <<stopEvent, flags>>

LoopFollows ==
    /\ ~STOP /\ ~PAUSED
    /\ MainGoto("loop", "sample") /\ UNCHANGED <<stopEvent, flags>>

(* The sampler has no XR frame yet: the iteration is abandoned.            *)
NoSample == MainGoto("sample", "loop") /\ UNCHANGED <<stopEvent, flags>>

Sample == MainGoto("sample", "command") /\ UNCHANGED <<stopEvent, flags>>

(* Controller mode with motion: the operator presses A to quit.            *)
OperatorQuits ==
    /\ MainGoto("sample", "command")
    /\ START' = FALSE /\ STOP' = TRUE
    /\ UNCHANGED <<stopEvent, PAUSED, READY>>

(* ctrl_dual_arm: the robot is given a new target.                         *)
CommandArm ==
    /\ pc["main"] = "command"
    /\ Goto("main", "loop")
    /\ afterPause' = IF PAUSED /\ afterPause < 2 THEN afterPause + 1
                     ELSE afterPause
    /\ UNCHANGED <<pipe, reported, stopEvent, commandStop, loaded, pending,
                   current, flags, failed, followed>>

(* No IK result newer than the last one: nothing is sent to the arm.       *)
SkipCommand == MainGoto("command", "loop") /\ UNCHANGED <<stopEvent, flags>>

(* An exception inside the try block of run(): ERROR, then its finally.    *)
SessionFails ==
    /\ pc["main"] \in {"setup", "wait", "loop", "sample", "command"}
    /\ CallSetState("main", "ERROR", "unwind")
    /\ failed' = TRUE
    /\ UNCHANGED <<pipe, reported, stopEvent, commandStop, loaded, pending,
                   current, flags, history>>

SessionUnwinds ==
    MainSets("unwind", "STOPPING", "clean") /\ UNCHANGED <<stopEvent, flags>>

(* KeyboardInterrupt inside the try block: swallowed, then its finally.    *)
SessionInterrupted ==
    /\ \E p \in {"setup", "wait", "loop", "sample", "command"} :
         MainSets(p, "STOPPING", "clean")
    /\ UNCHANGED <<stopEvent, flags>>

(* The finally of run(): workers closed, arm sent home, STOPPED; an        *)
(* exception goes on to the handler of the entry point.                    *)
CleanUp ==
    /\ MainSets("clean", "STOPPED", IF failed THEN "raise" ELSE "fin")
    /\ UNCHANGED <<stopEvent, flags>>

(* An exception outside the try block: the import, or run() before it      *)
(* (its parser leaves with SystemExit).                                    *)
ImportFails ==
    /\ pc["main"] \in {"import", "reset"}
    /\ Goto("main", "raise")
    /\ failed' = TRUE
    /\ UNCHANGED <<pipe, reported, stopEvent, commandStop, loaded, pending,
                   current, flags, history>>

(* KeyboardInterrupt outside the try block of run(): the entry point takes *)
(* it for a stop.                                                          *)
EntryInterrupted ==
    /\ pc["main"] \in {"import", "reset"}
    /\ stopEvent' = TRUE
    /\ Goto("main", "fin")
    /\ UNCHANGED <<pipe, reported, commandStop, loaded, pending, current,
                   flags, failed, history>>

(* except BaseException of the entry point, and SystemExit with a code of  *)
(* failure: send_error, which the bridge reads as ERROR, then              *)
(* set_state(ERROR).                                                       *)
SendError ==
    /\ pc["main"] = "raise"
    /\ reported' = IF bridgeUp THEN "ERROR" ELSE reported
    /\ stopEvent' = (stopEvent \/ ~bridgeUp)
    /\ Goto("main", "entry")
    /\ UNCHANGED <<pipe, commandStop, loaded, pending, current, flags, failed,
                   history>>

EntryError == MainSets("entry", "ERROR", "fin") /\ UNCHANGED <<stopEvent, flags>>

(* finally of the entry point.                                             *)
Finally ==
    /\ pc["main"] = "fin"
    /\ stopEvent' = TRUE /\ commandStop' = TRUE
    /\ Goto("main", "unload")
    /\ UNCHANGED <<pipe, reported, loaded, pending, current, flags, failed,
                   history>>

UnloadModule ==
    /\ pc["main"] = "unload"
    /\ loaded' = FALSE
    /\ Goto("main", "join")
    /\ UNCHANGED <<pipe, reported, stopEvent, commandStop, pending, current,
                   flags, failed, history>>

(* Mutant: STOPPED is reported whatever the state is.                      *)
JoinReportsAlways ==
    /\ pc["cmd"] \in CmdDone
    /\ MainSets("join", "STOPPED", "close") /\ UNCHANGED <<stopEvent, flags>>

(* join(0.5) of the command thread, which polls every 0.1 s.               *)
JoinReports ==
    /\ pc["cmd"] \in CmdDone /\ current # "ERROR"
    /\ MainSets("join", "STOPPED", "close") /\ UNCHANGED <<stopEvent, flags>>

JoinKeepsError ==
    /\ pc["cmd"] \in CmdDone /\ current = "ERROR"
    /\ MainGoto("join", "close") /\ UNCHANGED <<stopEvent, flags>>

Close == MainGoto("close", "done") /\ UNCHANGED <<stopEvent, flags>>

MainStep ==
    \/ Boot \/ ImportModule \/ StopBeforeRun \/ EnterRun \/ ResetFlags
    \/ StopBeforeSetup \/ EnterSetup \/ LeaveWait \/ LoopExits
    \/ LoopFollows \/ NoSample \/ Sample \/ CommandArm \/ SkipCommand
    \/ SessionUnwinds \/ CleanUp \/ SendError \/ EntryError \/ Finally
    \/ UnloadModule \/ JoinReports \/ JoinKeepsError \/ Close
    \/ SetState("main")

Faults == SessionFails \/ SessionInterrupted \/ ImportFails \/ EntryInterrupted

Next ==
    \/ \E c \in Commands : BridgeSends(c)
    \/ BridgeDies
    \/ CmdStep
    \/ MainStep \/ SetupDone \/ OperatorQuits \/ Faults

Spec == Init /\ [][Next]_vars

(* Both threads are scheduled and their steps end, but for the set-up,     *)
(* which ends when the robot is heard; commands, faults and the operator   *)
(* are free.                                                               *)
FairSpec == Spec /\ WF_vars(MainStep) /\ WF_vars(CmdStep)

-----------------------------------------------------------------------------
(* Places of the main thread: the session is set up or following.          *)
InSession == {"setup", "wait", "loop", "sample", "command"}

(* A stop the command thread applied is in force for as long as the        *)
(* session could still follow the operator, although run() resets STOP     *)
(* when it begins and request_start clears it: no stop is ever lost.       *)
StopNeverLost ==
    pc["cmd"] = "stopped" /\ Loc("main") \in InSession => STOP

(* The arm is only given targets after the operator asked for it: neither  *)
(* a stop nor a fault on the way to the loop lets an iteration through.    *)
NoMotionBeforeStart == pc["main"] \in {"sample", "command"} => followed

(* Once a pause is applied at most one target, that of the iteration in    *)
(* progress, still reaches the arm before the session is resumed.          *)
PauseBoundsMotion == afterPause <= 1

(* What the bridge reads last before the pipe closes: STOPPED of a session *)
(* that ended, whatever the two threads wrote over each other.  Of one     *)
(* that failed by itself, with no command sent, it is ERROR, unless the    *)
(* command thread saw the stop event that the finally of the entry point   *)
(* sets before it took the module away: the thread then applies a stop     *)
(* nobody asked for, its STOPPING overwrites the ERROR, and STOPPED is     *)
(* reported.                                                               *)
LastReport ==
    pc["main"] = "done" /\ bridgeUp =>
        /\ ~failed => reported = "STOPPED"
        /\ failed /\ sent = 0 =>
              reported = IF pc["cmd"] = "stopped" THEN "STOPPED" ELSE "ERROR"

(* Places of the main thread once the session is over.                     *)
Ending == {"unwind", "clean", "raise", "entry", "fin", "unload", "join",
           "close", "done"}

(* The contract of a control process, with two threads writing states over *)
(* each other: READY reaches the bridge only from a process whose hardware *)
(* is set up, and commands are not acknowledged while it is starting.      *)
Contract == INSTANCE ChildContract
    WITH up <- READY, ending <- (Loc("main") \in Ending),
         gone <- (pc["main"] = "done"), report <- reported
ImplementsContract == Contract!Spec

(* The set-up never returns: the robot is not heard, and nothing fails.    *)
SetupHangs == [](pc["main"] = "setup")

(* A stop in the pipe ends the process, from every place of either thread  *)
(* and even if the bridge dies after sending it.  The one exception is the *)
(* set-up, which does not look at the stop: as long as the robot is silent *)
(* the process stays in it, and goes when the robot is heard.              *)
StopEndsProcess ==
    (\E i \in DOMAIN inbox : inbox[i] = "stop")
        ~> (pc["main"] = "done" \/ SetupHangs)

(* A start read while the session is STARTING is not dropped: it is        *)
(* applied, unless the process stops first or its set-up never returns.    *)
StartNotDropped ==
    (\E i \in DOMAIN pending : pending[i] = "start")
        ~> (followed \/ pc["main"] = "done" \/ stopEvent \/ SetupHangs)

(* A child that learns of the death of its bridge when it reports STARTING *)
(* never touches the hardware and ends: one whose bridge died before the   *)
(* STARTING that run() reports was sent.  (A bridge that dies after it is  *)
(* noticed by the command thread alone, and the orphan goes on.)           *)
OrphanNeverSetsUp ==
    (/\ ~bridgeUp
     /\ \/ Loc("main") \in {"boot", "import", "check1", "reset"}
        \/ Loc("main") = "check2" /\ pc["main"] \in SetSteps)
        ~> (pc["main"] = "done" /\ ~READY)
=============================================================================
