------------------------- MODULE ControlChild_proofs -------------------------
(***************************************************************************)
(* What TLAPS proves of ControlChild, whatever the number of commands the  *)
(* bridge sends: the types, the three safety properties of following, and  *)
(* that the two threads together keep the contract of the control process. *)
(***************************************************************************)
EXTENDS ControlChild, TLAPS

(* Facts about the queues of commands.                                     *)
LEMMA EmptyQueue == \A S : <<>> \in Seq(S)
  OBVIOUS

LEMMA QueueTakes ==
  ASSUME NEW S, NEW s \in Seq(S), s # <<>>
  PROVE  Head(s) \in S /\ Tail(s) \in Seq(S)
  OBVIOUS

LEMMA QueueGrows ==
  ASSUME NEW S, NEW s \in Seq(S), NEW e \in S
  PROVE  Append(s, e) \in Seq(S)
  OBVIOUS

PlacesOf(t) == IF t = "main" THEN MainPlaces ELSE CmdPlaces

(* A thread that goes to one of its places is there afterwards, and the    *)
(* other thread stays where it was.                                        *)
LEMMA GotoPlace ==
  ASSUME CallsOK, NEW t \in Threads, NEW place \in PlacesOf(t), Goto(t, place)
  PROVE  /\ CallsOK' /\ Loc(t)' = place /\ pc'[t] = place
         /\ \A u \in Threads \ {t} : Loc(u)' = Loc(u) /\ pc'[u] = pc[u]
<1> USE DEF CallsOK, Goto, Loc, PlacesOf, Threads, SetSteps
<1>1. /\ Loc(t)' = place /\ pc'[t] = place
      /\ \A u \in Threads \ {t} : Loc(u)' = Loc(u) /\ pc'[u] = pc[u]
  BY DEF MainPlaces, CmdPlaces
<1>2. pc' \in [Threads -> SetSteps \cup CmdPlaces \cup MainPlaces]
  BY DEF MainPlaces, CmdPlaces
<1>3. Loc("main")' \in MainPlaces /\ Loc("cmd")' \in CmdPlaces
  BY <1>1
<1> QED BY <1>1, <1>2, <1>3

(* The same of a call of set_state: the thread is at the place where it    *)
(* continues.                                                              *)
LEMMA CallPlace ==
  ASSUME CallsOK, NEW t \in Threads, NEW place \in PlacesOf(t),
         NEW state \in States, CallSetState(t, state, place)
  PROVE  /\ CallsOK' /\ Loc(t)' = place /\ pc'[t] = "assign"
         /\ goal'[t] = state
         /\ \A u \in Threads \ {t} : Loc(u)' = Loc(u) /\ pc'[u] = pc[u]
                                     /\ goal'[u] = goal[u]
<1> USE DEF CallsOK, CallSetState, Loc, PlacesOf, Threads, SetSteps
<1>1. /\ Loc(t)' = place /\ pc'[t] = "assign" /\ goal'[t] = state
      /\ \A u \in Threads \ {t} : Loc(u)' = Loc(u) /\ pc'[u] = pc[u]
                                  /\ goal'[u] = goal[u]
  BY DEF MainPlaces, CmdPlaces
<1>2. /\ pc' \in [Threads -> SetSteps \cup CmdPlaces \cup MainPlaces]
      /\ after' \in [Threads -> CmdPlaces \cup MainPlaces]
  BY DEF MainPlaces, CmdPlaces
<1>3. goal' \in [Threads -> States] /\ msg' \in [Threads -> States]
  OBVIOUS
<1>4. Loc("main")' \in MainPlaces /\ Loc("cmd")' \in CmdPlaces
  BY <1>1
<1> QED BY <1>1, <1>2, <1>3, <1>4

(* The three steps inside set_state move no thread.                        *)
LEMMA SetStatePlace ==
  ASSUME CallsOK, QueuesOK, NEW t \in Threads, SetState(t)
  PROVE  /\ CallsOK' /\ \A u \in Threads : Loc(u)' = Loc(u)
         /\ \A u \in Threads \ {t} : pc'[u] = pc[u]
         /\ pc[t] \in SetSteps /\ goal' = goal
<1> USE DEF CallsOK, QueuesOK, Loc, Threads, SetSteps
<1>1. CASE AssignState(t)
  BY <1>1 DEF AssignState, Goto
<1>2. CASE ReadState(t)
  BY <1>2 DEF ReadState
<1>3. CASE SendState(t)
  <2>1. after[t] \notin SetSteps
    BY DEF MainPlaces, CmdPlaces
  <2>2. \A u \in Threads : Loc(u)' = Loc(u)
    BY <1>3, <2>1 DEF SendState, Goto
  <2> QED BY <1>3, <2>1, <2>2 DEF SendState, Goto
<1> QED BY <1>1, <1>2, <1>3 DEF SetState

-----------------------------------------------------------------------------
(* The actions of each thread, by what they do to its place.               *)
CmdGoes ==
    \/ CmdEnd \/ CmdTimeout \/ CmdEof \/ CmdWait \/ CmdDrain \/ CmdDrained
    \/ CmdRecvStop \/ CmdRecvFollow \/ request_stop

CmdCalls == CmdStop \/ request_start \/ request_pause \/ request_resume

MainGoes ==
    \/ ImportModule \/ EnterRun \/ EnterSetup \/ LoopFollows \/ NoSample
    \/ Sample \/ OperatorQuits \/ CommandArm \/ SkipCommand \/ ImportFails
    \/ EntryInterrupted \/ SendError \/ Finally \/ UnloadModule
    \/ JoinKeepsError \/ Close

MainCalls ==
    \/ Boot \/ StopBeforeRun \/ ResetFlags \/ StopBeforeSetup \/ SetupDone
    \/ LeaveWait \/ LoopExits \/ SessionFails \/ SessionUnwinds
    \/ SessionInterrupted \/ CleanUp \/ EntryError \/ JoinReports

(* The cases of Next that the proofs below distinguish.                    *)
LEMMA NextCases ==
  ASSUME Next
  PROVE  \/ \E c \in Commands : BridgeSends(c)
         \/ BridgeDies
         \/ CmdGoes \/ CmdCalls \/ MainGoes \/ MainCalls
         \/ \E t \in Threads : SetState(t)
  BY DEF Next, CmdStep, MainStep, Faults, CmdGoes, CmdCalls, MainGoes, MainCalls,
    Threads

LEMMA CmdGoesPlace ==
  ASSUME CmdGoes
  PROVE  \E place \in CmdPlaces : Goto("cmd", place)
  BY DEF CmdGoes, CmdEnd, CmdTimeout, CmdEof, CmdWait, CmdDrain, CmdDrained,
    CmdRecvStop, CmdRecvFollow, request_stop, CmdPlaces

LEMMA CmdCallsPlace ==
  ASSUME CmdCalls
  PROVE  \E place \in CmdPlaces, state \in States :
            CallSetState("cmd", state, place)
  BY DEF CmdCalls, CmdStop, request_start, request_pause, request_resume, Drain,
    CmdPlaces, States

LEMMA MainGoesPlace ==
  ASSUME MainGoes
  PROVE  \E place \in MainPlaces : Goto("main", place)
<1>1. CASE \/ ImportModule \/ CommandArm \/ ImportFails \/ SendError
           \/ Finally \/ UnloadModule \/ EntryInterrupted
  BY <1>1 DEF ImportModule, CommandArm, ImportFails, SendError, Finally,
    UnloadModule, EntryInterrupted, MainPlaces
<1>2. CASE \/ EnterRun \/ EnterSetup \/ LoopFollows \/ NoSample \/ Sample
           \/ OperatorQuits \/ SkipCommand \/ JoinKeepsError \/ Close
  BY <1>2 DEF EnterRun, EnterSetup, LoopFollows, NoSample, Sample, OperatorQuits,
    SkipCommand, JoinKeepsError, Close, MainGoto, MainPlaces
<1> QED BY <1>1, <1>2 DEF MainGoes

LEMMA MainCallsPlace ==
  ASSUME MainCalls
  PROVE  \E place \in MainPlaces, state \in States :
            CallSetState("main", state, place)
<1>1. CASE \/ Boot \/ StopBeforeRun \/ ResetFlags \/ StopBeforeSetup
           \/ SetupDone \/ LeaveWait \/ LoopExits
  BY <1>1 DEF Boot, StopBeforeRun, ResetFlags, StopBeforeSetup, SetupDone,
    LeaveWait, LoopExits, MainSets, MainPlaces, States
<1>2. CASE \/ SessionFails \/ SessionUnwinds \/ SessionInterrupted
           \/ EntryError \/ JoinReports
  BY <1>2 DEF SessionFails, SessionUnwinds, SessionInterrupted, EntryError,
    JoinReports, MainSets, MainPlaces, States
<1>3. CASE CleanUp
  BY <1>3 DEF CleanUp, MainSets, MainPlaces, States
<1> QED BY <1>1, <1>2, <1>3 DEF MainCalls

-----------------------------------------------------------------------------
(* The variables keep their types.                                         *)
LEMMA TypeInit == Init => TypeOK
<1> SUFFICES ASSUME Init PROVE TypeOK
  OBVIOUS
<1> USE MaxCommandsAssumption DEF Init, MaxCommandsAssumption
<1>1. CallsOK
  <2>1. Loc("main") \in MainPlaces /\ Loc("cmd") \in CmdPlaces
    BY DEF Loc, Threads, SetSteps, MainPlaces, CmdPlaces
  <2>2. /\ pc \in [Threads -> SetSteps \cup CmdPlaces \cup MainPlaces]
        /\ after \in [Threads -> CmdPlaces \cup MainPlaces]
    BY DEF CmdPlaces, MainPlaces
  <2>3. goal \in [Threads -> States] /\ msg \in [Threads -> States]
    BY DEF States
  <2> QED BY <2>1, <2>2, <2>3 DEF CallsOK
<1>2. QueuesOK
  <2>1. inbox \in Seq(Commands) /\ pending \in Seq(FollowCommands)
    BY EmptyQueue
  <2>2. sent \in 0..MaxCommands
    OBVIOUS
  <2> QED BY <2>1, <2>2 DEF QueuesOK, States
<1>3. FlagsOK
  <2>1. /\ bridgeUp \in BOOLEAN /\ stopEvent \in BOOLEAN
        /\ commandStop \in BOOLEAN /\ loaded \in BOOLEAN
    OBVIOUS
  <2>2. /\ START \in BOOLEAN /\ STOP \in BOOLEAN /\ PAUSED \in BOOLEAN
        /\ READY \in BOOLEAN /\ failed \in BOOLEAN /\ followed \in BOOLEAN
    OBVIOUS
  <2>3. afterPause \in 0..2
    OBVIOUS
  <2> QED BY <2>1, <2>2, <2>3, Zenon DEF FlagsOK
<1> QED BY <1>1, <1>2, <1>3 DEF TypeOK

LEMMA CallsStep == TypeOK /\ [Next]_vars => CallsOK'
<1> SUFFICES ASSUME TypeOK, [Next]_vars PROVE CallsOK'
  OBVIOUS
<1> USE DEF TypeOK
<1>1. CASE (\E c \in Commands : BridgeSends(c)) \/ BridgeDies \/ UNCHANGED vars
  BY <1>1 DEF BridgeSends, BridgeDies, calls, vars, CallsOK, Loc
<1>2. CASE CmdGoes
  BY <1>2, CmdGoesPlace, GotoPlace DEF PlacesOf, Threads
<1>3. CASE CmdCalls
  BY <1>3, CmdCallsPlace, CallPlace DEF PlacesOf, Threads
<1>4. CASE MainGoes
  BY <1>4, MainGoesPlace, GotoPlace DEF PlacesOf, Threads
<1>5. CASE MainCalls
  BY <1>5, MainCallsPlace, CallPlace DEF PlacesOf, Threads
<1>6. CASE \E t \in Threads : SetState(t)
  BY <1>6, SetStatePlace
<1> QED BY <1>1, <1>2, <1>3, <1>4, <1>5, <1>6, NextCases

LEMMA QueuesStep == TypeOK /\ [Next]_vars => QueuesOK'
<1> SUFFICES ASSUME TypeOK, [Next]_vars PROVE QueuesOK'
  OBVIOUS
<1> USE MaxCommandsAssumption DEF MaxCommandsAssumption, TypeOK, QueuesOK
<1>1. ASSUME NEW c \in Commands, BridgeSends(c)
      PROVE  QueuesOK'
  BY <1>1, QueueGrows DEF BridgeSends
<1>2. CASE BridgeDies \/ UNCHANGED vars
  BY <1>2 DEF BridgeDies, vars
<1>3. CASE CmdRecvStop
  BY <1>3, QueueTakes, EmptyQueue DEF CmdRecvStop
<1>4. CASE CmdRecvFollow
  BY <1>4, QueueTakes, QueueGrows DEF CmdRecvFollow
<1>5. CASE \/ CmdEnd \/ CmdTimeout \/ CmdEof \/ CmdWait \/ CmdDrain
           \/ CmdDrained \/ request_stop \/ CmdStop
  BY <1>5 DEF CmdEnd, CmdTimeout, CmdEof, CmdWait, CmdDrain, CmdDrained,
    request_stop, CmdStop, pipe
<1>6. CASE request_start \/ request_pause \/ request_resume
  BY <1>6, QueueTakes DEF request_start, request_pause, request_resume, Drain, pipe
<1>7. CASE MainGoes
  <2>1. CASE \/ ImportModule \/ CommandArm \/ ImportFails \/ SendError
             \/ Finally \/ UnloadModule \/ EntryInterrupted
    BY <2>1 DEF ImportModule, CommandArm, ImportFails, SendError, Finally,
      UnloadModule, EntryInterrupted, pipe, States
  <2>2. CASE \/ EnterRun \/ EnterSetup \/ LoopFollows \/ NoSample \/ Sample
             \/ OperatorQuits \/ SkipCommand \/ JoinKeepsError \/ Close
    BY <2>2 DEF EnterRun, EnterSetup, LoopFollows, NoSample, Sample,
      OperatorQuits, SkipCommand, JoinKeepsError, Close, MainGoto, pipe
  <2> QED BY <1>7, <2>1, <2>2 DEF MainGoes
<1>8. CASE MainCalls
  BY <1>8 DEF MainCalls, Boot, StopBeforeRun, ResetFlags, StopBeforeSetup,
    SetupDone, LeaveWait, LoopExits, SessionFails, SessionUnwinds,
    SessionInterrupted, CleanUp, EntryError, JoinReports, MainSets, pipe
<1>9. ASSUME NEW t \in Threads, SetState(t)
      PROVE  QueuesOK'
  BY <1>9 DEF SetState, AssignState, ReadState, SendState, pipe, CallsOK
<1> QED
  BY <1>1, <1>2, <1>3, <1>4, <1>5, <1>6, <1>7, <1>8, <1>9, NextCases
    DEF CmdGoes, CmdCalls

LEMMA FlagsStep == TypeOK /\ [Next]_vars => FlagsOK'
<1> SUFFICES ASSUME TypeOK, [Next]_vars PROVE FlagsOK'
  OBVIOUS
<1> USE DEF TypeOK, FlagsOK
<1>1. CASE (\E c \in Commands : BridgeSends(c)) \/ BridgeDies \/ UNCHANGED vars
  BY <1>1 DEF BridgeSends, BridgeDies, vars, flags, history
<1>2. CASE CmdGoes
  <2>1. CASE CmdEnd \/ CmdTimeout \/ CmdWait \/ CmdDrain \/ CmdDrained
    BY <2>1 DEF CmdEnd, CmdTimeout, CmdWait, CmdDrain, CmdDrained, pipe, flags,
      history
  <2>2. CASE CmdEof \/ CmdRecvFollow
    BY <2>2 DEF CmdEof, CmdRecvFollow, pipe, flags, history
  <2>3. CASE CmdRecvStop
    BY <2>3 DEF CmdRecvStop, flags, history
  <2>4. CASE request_stop
    BY <2>4 DEF request_stop, pipe, history
  <2> QED BY <1>2, <2>1, <2>2, <2>3, <2>4 DEF CmdGoes
<1>3. CASE CmdCalls
  <2>1. CASE CmdStop
    BY <2>1 DEF CmdStop, pipe, flags, history
  <2>2. CASE request_start
    BY <2>2 DEF request_start, Drain, pipe
  <2>3. CASE request_pause
    <3>1. afterPause' \in 0..2
      BY <2>3 DEF request_pause
    <3>2. /\ {bridgeUp, stopEvent, commandStop, loaded}' \subseteq BOOLEAN
          /\ {START, STOP, PAUSED, READY, failed, followed}' \subseteq BOOLEAN
      BY <2>3 DEF request_pause, Drain, pipe
    <3> QED BY <3>1, <3>2
  <2>4. CASE request_resume
    BY <2>4 DEF request_resume, Drain, pipe
  <2> QED BY <1>3, <2>1, <2>2, <2>3, <2>4 DEF CmdCalls
<1>4. CASE CommandArm
  BY <1>4 DEF CommandArm, pipe, flags
<1>5. CASE \/ ImportModule \/ ImportFails \/ SendError \/ Finally \/ UnloadModule
           \/ EntryInterrupted
  BY <1>5 DEF ImportModule, ImportFails, SendError, Finally, UnloadModule,
    EntryInterrupted, pipe, flags, history
<1>6. CASE \/ EnterRun \/ EnterSetup \/ LoopFollows \/ NoSample \/ Sample
           \/ OperatorQuits \/ SkipCommand \/ JoinKeepsError \/ Close
  BY <1>6 DEF EnterRun, EnterSetup, LoopFollows, NoSample, Sample, OperatorQuits,
    SkipCommand, JoinKeepsError, Close, MainGoto, pipe, flags, history
<1>7. CASE MainCalls
  BY <1>7 DEF MainCalls, Boot, StopBeforeRun, ResetFlags, StopBeforeSetup,
    SetupDone, LeaveWait, LoopExits, SessionFails, SessionUnwinds,
    SessionInterrupted, CleanUp, EntryError, JoinReports, MainSets, pipe, flags,
    history
<1>8. ASSUME NEW t \in Threads, SetState(t)
      PROVE  FlagsOK'
  BY <1>8 DEF SetState, AssignState, ReadState, SendState, pipe, flags, history
<1> QED
  BY <1>1, <1>2, <1>3, <1>4, <1>5, <1>6, <1>7, <1>8, NextCases DEF MainGoes

(* TypeOK holds in every behaviour.                                        *)
THEOREM TypeCorrect == Spec => []TypeOK
<1>1. TypeOK /\ [Next]_vars => TypeOK'
  BY CallsStep, QueuesStep, FlagsStep DEF TypeOK
<1> QED BY TypeInit, <1>1, PTL DEF Spec

-----------------------------------------------------------------------------
(* Where the actions of a thread take it, and that the other one stays.    *)
LEMMA MainGoesFrom ==
  ASSUME CallsOK, NEW from \in MainPlaces, NEW to \in MainPlaces,
         pc["main"] = from, Goto("main", to)
  PROVE  /\ Loc("main") = from /\ Loc("main")' = to /\ pc["main"]' = to
         /\ Loc("cmd")' = Loc("cmd") /\ pc["cmd"]' = pc["cmd"]
  BY GotoPlace DEF Loc, PlacesOf, Threads, MainPlaces, SetSteps

LEMMA MainCallsFrom ==
  ASSUME CallsOK, NEW from \in MainPlaces, NEW to \in MainPlaces,
         NEW state \in States,
         pc["main"] = from, CallSetState("main", state, to)
  PROVE  /\ Loc("main") = from /\ Loc("main")' = to /\ pc["main"]' = "assign"
         /\ Loc("cmd")' = Loc("cmd") /\ pc["cmd"]' = pc["cmd"]
  BY CallPlace DEF Loc, PlacesOf, Threads, MainPlaces, SetSteps

(* An exception in the session is caught where the main thread is.         *)
LEMMA SessionFailsFrom ==
  ASSUME CallsOK, SessionFails
  PROVE  /\ pc["main"] \in {"setup", "wait", "loop", "sample", "command"}
         /\ Loc("main") = pc["main"] /\ Loc("main")' = "unwind"
         /\ pc["main"]' = "assign"
         /\ Loc("cmd")' = Loc("cmd") /\ pc["cmd"]' = pc["cmd"]
<1>1. /\ pc["main"] \in {"setup", "wait", "loop", "sample", "command"}
      /\ CallSetState("main", "ERROR", "unwind")
  BY DEF SessionFails
<1>2. PICK from \in MainPlaces : pc["main"] = from
  BY <1>1 DEF MainPlaces
<1>3. "unwind" \in MainPlaces /\ "ERROR" \in States
  BY DEF MainPlaces, States
<1>4. Loc("main") = from
  BY <1>1, <1>2, <1>3, MainCallsFrom
<1>5. /\ Loc("main")' = "unwind" /\ pc["main"]' = "assign"
      /\ Loc("cmd")' = Loc("cmd") /\ pc["cmd"]' = pc["cmd"]
  BY <1>1, <1>2, <1>3, MainCallsFrom
<1> QED BY <1>1, <1>2, <1>4, <1>5

(* What a move of the main thread to another place leaves alone.           *)
Moves(from, to) ==
    /\ Loc("main") = from /\ Loc("main")' = to /\ Loc("cmd")' = Loc("cmd")
    /\ UNCHANGED <<followed, afterPause>>

LEMMA MainMoves ==
  ASSUME CallsOK, NEW from \in MainPlaces, NEW to \in MainPlaces,
         \/ MainGoto(from, to)
         \/ \E state \in States : MainSets(from, state, to)
  PROVE  Moves(from, to)
<1>1. CASE MainGoto(from, to)
  BY <1>1, MainGoesFrom DEF MainGoto, Moves, history
<1>2. CASE \E state \in States : MainSets(from, state, to)
  BY <1>2, MainCallsFrom DEF MainSets, Moves, history
<1> QED BY <1>1, <1>2

LEMMA CmdGoesFrom ==
  ASSUME CallsOK, NEW from \in CmdPlaces, NEW to \in CmdPlaces,
         pc["cmd"] = from, Goto("cmd", to)
  PROVE  /\ Loc("cmd") = from /\ Loc("cmd")' = to /\ pc["cmd"]' = to
         /\ Loc("main")' = Loc("main") /\ pc["main"]' = pc["main"]
  BY GotoPlace DEF Loc, PlacesOf, Threads, CmdPlaces, SetSteps

LEMMA CmdCallsFrom ==
  ASSUME CallsOK, NEW from \in CmdPlaces, NEW to \in CmdPlaces,
         NEW state \in States,
         pc["cmd"] = from, CallSetState("cmd", state, to)
  PROVE  /\ Loc("cmd") = from /\ Loc("cmd")' = to /\ pc["cmd"]' = "assign"
         /\ Loc("main")' = Loc("main") /\ pc["main"]' = pc["main"]
  BY CallPlace DEF Loc, PlacesOf, Threads, CmdPlaces, SetSteps

(* The actions that begin or end a command, and those of the main thread   *)
(* that set up the session, follow, or do neither.                         *)
CmdQuiet ==
    \/ CmdEnd \/ CmdTimeout \/ CmdEof \/ CmdWait \/ CmdDrain \/ CmdDrained
    \/ CmdRecvStop \/ CmdRecvFollow

(* What a step of the command thread that applies no command does: no flag *)
(* of the session changes, and it is not at a place of a stop afterwards.  *)
LEMMA CmdQuietStep ==
  ASSUME CallsOK, CmdQuiet
  PROVE  /\ Loc("cmd") \in {"poll", "hand", "drain"}
         /\ Loc("cmd")' \in {"poll", "hand", "drain", "eof", "ended"}
         /\ Loc("main")' = Loc("main")
         /\ UNCHANGED <<START, STOP, PAUSED, READY, followed, afterPause,
                        reported, failed, current, goal, msg>>
         /\ stopEvent => stopEvent'
<1>1. CASE CmdEnd \/ CmdTimeout \/ CmdWait \/ CmdDrain \/ CmdDrained
  BY <1>1, CmdGoesFrom DEF CmdEnd, CmdTimeout, CmdWait, CmdDrain, CmdDrained,
    pipe, flags, history, CmdPlaces, Goto
<1>2. CASE CmdEof \/ CmdRecvStop \/ CmdRecvFollow
  BY <1>2, CmdGoesFrom DEF CmdEof, CmdRecvStop, CmdRecvFollow, pipe, flags,
    history, CmdPlaces, Goto
<1> QED BY <1>1, <1>2 DEF CmdQuiet

(* A command that is applied: stop, start, pause and resume.               *)
LEMMA StopStep ==
  ASSUME CallsOK
  PROVE  /\ CmdStop => /\ Loc("cmd") = "hand" /\ Loc("cmd")' = "reqstop"
                       /\ Loc("main")' = Loc("main") /\ stopEvent
                       /\ UNCHANGED <<START, STOP, PAUSED, READY, followed,
                                      afterPause, stopEvent>>
         /\ request_stop => /\ Loc("cmd") = "reqstop" /\ Loc("cmd")' = "stopped"
                            /\ Loc("main")' = Loc("main")
                            /\ ~START' /\ ~PAUSED' /\ STOP'
                            /\ UNCHANGED <<READY, followed, afterPause, stopEvent>>
<1>1. CmdStop => /\ Loc("cmd") = "hand" /\ Loc("cmd")' = "reqstop"
                 /\ Loc("main")' = Loc("main") /\ stopEvent
                 /\ UNCHANGED <<START, STOP, PAUSED, READY, followed, afterPause,
                                stopEvent>>
  BY CmdCallsFrom DEF CmdStop, flags, history, CmdPlaces, States
<1>2. request_stop => /\ Loc("cmd") = "reqstop" /\ Loc("cmd")' = "stopped"
                      /\ Loc("main")' = Loc("main")
                      /\ ~START' /\ ~PAUSED' /\ STOP'
                      /\ UNCHANGED <<READY, followed, afterPause, stopEvent>>
  BY CmdGoesFrom DEF request_stop, history, CmdPlaces
<1> QED BY <1>1, <1>2

LEMMA DrainStep ==
  ASSUME CallsOK, NEW c, NEW state \in States, Drain(c, state)
  PROVE  /\ Loc("cmd") = "drain" /\ Loc("cmd")' = "drain"
         /\ Loc("main")' = Loc("main") /\ stopEvent' = stopEvent
  BY CmdCallsFrom DEF Drain, CmdPlaces

(* The actions of the main thread after which it is not in the session:    *)
(* they leave the flags of the session as they are.                        *)
MainQuiet ==
    \/ Boot \/ ImportModule \/ StopBeforeRun \/ EnterRun \/ StopBeforeSetup
    \/ LoopExits \/ SessionFails \/ SessionUnwinds \/ SessionInterrupted
    \/ CleanUp \/ ImportFails \/ EntryInterrupted \/ SendError
    \/ EntryError \/ Finally
    \/ UnloadModule \/ JoinReports \/ JoinKeepsError \/ Close

MainActive ==
    \/ ResetFlags \/ EnterSetup \/ SetupDone \/ LeaveWait \/ LoopFollows
    \/ NoSample \/ Sample \/ OperatorQuits \/ CommandArm \/ SkipCommand

LEMMA MainQuietStep ==
  ASSUME CallsOK, MainQuiet
  PROVE  /\ Loc("main")' \in MainPlaces \ InSession
         /\ Loc("cmd")' = Loc("cmd")
         /\ UNCHANGED <<START, STOP, PAUSED, READY, followed, afterPause>>
         /\ stopEvent => stopEvent'
<1> USE DEF MainPlaces, InSession
<1>1. CASE \/ ImportModule \/ ImportFails \/ SendError \/ Finally \/ UnloadModule
           \/ EntryInterrupted
  <2>1. CASE ImportModule \/ UnloadModule
    BY <2>1, MainGoesFrom DEF ImportModule, UnloadModule, flags, history
  <2>2. CASE ImportFails
    BY <2>2, MainGoesFrom DEF ImportFails, flags, history
  <2>3. CASE SendError
    BY <2>3, MainGoesFrom DEF SendError, flags, history
  <2>4. CASE Finally
    BY <2>4, MainGoesFrom DEF Finally, flags, history
  <2>5. CASE EntryInterrupted
    BY <2>5, MainGoesFrom DEF EntryInterrupted, flags, history
  <2> QED BY <1>1, <2>1, <2>2, <2>3, <2>4, <2>5
<1>2. CASE EnterRun \/ JoinKeepsError \/ Close
  BY <1>2, MainMoves DEF Moves, EnterRun, JoinKeepsError, Close, flags
<1>3. CASE \/ Boot \/ StopBeforeRun \/ StopBeforeSetup \/ LoopExits
           \/ SessionUnwinds
  BY <1>3, MainMoves DEF Moves, Boot, StopBeforeRun, StopBeforeSetup, LoopExits,
    SessionUnwinds, flags, States
<1>4. CASE EntryError \/ JoinReports
  BY <1>4, MainMoves DEF Moves, EntryError, JoinReports, flags, States
<1>5. CASE CleanUp
  BY <1>5, MainMoves DEF Moves, CleanUp, flags, States
<1>6. CASE SessionFails
  BY <1>6, SessionFailsFrom DEF SessionFails, flags, history
<1>7. CASE SessionInterrupted
  BY <1>7, MainMoves DEF Moves, SessionInterrupted, flags, States
<1> QED BY <1>1, <1>2, <1>3, <1>4, <1>5, <1>6, <1>7 DEF MainQuiet

(* Every step of the specification is one of these.                        *)
LEMMA StepCases ==
  ASSUME [Next]_vars
  PROVE  \/ \E c \in Commands : BridgeSends(c)
         \/ BridgeDies \/ UNCHANGED vars
         \/ CmdQuiet \/ CmdStop \/ request_stop
         \/ request_start \/ request_pause \/ request_resume
         \/ MainQuiet \/ MainActive
         \/ \E t \in Threads : SetState(t)
  BY NextCases DEF CmdGoes, CmdCalls, MainGoes, MainCalls, CmdQuiet, MainQuiet,
    MainActive

(* What the other steps leave alone: the environment moves no thread, and  *)
(* inside set_state only the state that is reported changes.               *)
LEMMA OtherStep ==
  ASSUME CallsOK, QueuesOK,
         \/ \E c \in Commands : BridgeSends(c)
         \/ BridgeDies \/ UNCHANGED vars
         \/ \E t \in Threads : SetState(t)
  PROVE  /\ Loc("main")' = Loc("main") /\ Loc("cmd")' = Loc("cmd")
         /\ UNCHANGED <<START, STOP, PAUSED, READY, followed, afterPause>>
         /\ stopEvent => stopEvent'
<1>1. CASE (\E c \in Commands : BridgeSends(c)) \/ BridgeDies \/ UNCHANGED vars
  BY <1>1 DEF BridgeSends, BridgeDies, vars, calls, flags, history, Loc
<1>2. ASSUME NEW t \in Threads, SetState(t)
      PROVE  /\ Loc("main")' = Loc("main") /\ Loc("cmd")' = Loc("cmd")
             /\ UNCHANGED <<START, STOP, PAUSED, READY, followed, afterPause>>
             /\ stopEvent => stopEvent'
  <2>1. Loc("main")' = Loc("main") /\ Loc("cmd")' = Loc("cmd")
    BY <1>2, SetStatePlace DEF Threads
  <2>2. /\ UNCHANGED <<START, STOP, PAUSED, READY, followed, afterPause>>
        /\ stopEvent => stopEvent'
    <3>1. CASE AssignState(t) \/ ReadState(t)
      BY <3>1 DEF AssignState, ReadState, flags, history
    <3>2. CASE SendState(t)
      BY <3>2 DEF SendState, flags, history
    <3> QED BY <1>2, <3>1, <3>2 DEF SetState
  <2> QED BY <2>1, <2>2
<1> QED BY <1>1, <1>2

-----------------------------------------------------------------------------
(* A stop that was begun is known to stop_event, which nothing clears; run *)
(* looks at stop_event after its reset of the flags and before the         *)
(* session, so a stop that was applied before cannot be undone by it.      *)
StopInForce ==
    /\ Loc("cmd") \in {"reqstop", "stopped"} => stopEvent
    /\ Loc("cmd") = "stopped" /\ Loc("main") \in InSession => STOP

LEMMA StopInForceStep == TypeOK /\ StopInForce /\ [Next]_vars => StopInForce'
<1> SUFFICES ASSUME TypeOK, StopInForce, [Next]_vars PROVE StopInForce'
  OBVIOUS
<1> USE DEF TypeOK
<1>1. CASE \/ \E c \in Commands : BridgeSends(c)
           \/ BridgeDies \/ UNCHANGED vars
           \/ \E t \in Threads : SetState(t)
  BY <1>1, OtherStep DEF StopInForce
<1>2. CASE CmdQuiet
  BY <1>2, CmdQuietStep DEF StopInForce
<1>3. CASE CmdStop \/ request_stop
  BY <1>3, StopStep DEF StopInForce
<1>4. CASE request_start \/ request_pause \/ request_resume
  BY <1>4, DrainStep DEF StopInForce, request_start, request_pause,
    request_resume, States
<1>5. CASE MainQuiet
  BY <1>5, MainQuietStep DEF StopInForce
<1>6. CASE MainActive
  <2> USE MainMoves DEF Moves, StopInForce, InSession, MainPlaces, States
  <2>1. CASE ResetFlags
    BY <2>1 DEF ResetFlags
  <2>2. CASE EnterSetup
    BY <2>2 DEF EnterSetup
  <2>3. CASE SetupDone \/ LeaveWait
    BY <2>3 DEF SetupDone, LeaveWait, flags
  <2>4. CASE LoopFollows \/ NoSample \/ Sample \/ OperatorQuits \/ SkipCommand
    BY <2>4 DEF LoopFollows, NoSample, Sample, OperatorQuits, SkipCommand,
      flags
  <2>5. CASE CommandArm
    BY <2>5, MainGoesFrom DEF CommandArm, flags
  <2> QED BY <1>6, <2>1, <2>2, <2>3, <2>4, <2>5 DEF MainActive
<1> QED BY <1>1, <1>2, <1>3, <1>4, <1>5, <1>6, StepCases

(* A stop that was applied is never lost: StopNeverLost holds in every     *)
(* behaviour (session.py request_stop against the reset in run).           *)
THEOREM StopIsNeverLost == Spec => []StopNeverLost
<1>1. Init => StopInForce
  BY DEF Init, StopInForce, Loc, Threads, SetSteps
<1>2. TypeOK /\ StopInForce => StopNeverLost
  BY DEF TypeOK, CallsOK, StopInForce, StopNeverLost, Loc, SetSteps
<1> QED BY TypeCorrect, StopInForceStep, <1>1, <1>2, PTL DEF Spec

-----------------------------------------------------------------------------
(* Nobody but the operator starts following: START is only set with a      *)
(* start or a resume, and the loop is entered with START or on the way out *)
(* with STOP, which no iteration gets past.                                *)
FollowsAsked ==
    /\ START => followed
    /\ Loc("main") \in {"loop", "sample", "command"} => followed \/ STOP
    /\ Loc("main") \in {"sample", "command"} => followed

LEMMA FollowsAskedStep == TypeOK /\ FollowsAsked /\ [Next]_vars => FollowsAsked'
<1> SUFFICES ASSUME TypeOK, FollowsAsked, [Next]_vars PROVE FollowsAsked'
  OBVIOUS
<1> USE DEF TypeOK
<1>1. CASE \/ \E c \in Commands : BridgeSends(c)
           \/ BridgeDies \/ UNCHANGED vars
           \/ \E t \in Threads : SetState(t)
  BY <1>1, OtherStep DEF FollowsAsked
<1>2. CASE CmdQuiet
  BY <1>2, CmdQuietStep DEF FollowsAsked
<1>3. CASE CmdStop \/ request_stop
  BY <1>3, StopStep DEF FollowsAsked
<1>4. CASE request_start \/ request_pause \/ request_resume
  BY <1>4, DrainStep DEF FollowsAsked, request_start, request_pause,
    request_resume, States
<1>5. CASE MainQuiet
  BY <1>5, MainQuietStep DEF FollowsAsked, InSession
<1>6. CASE MainActive
  <2> USE MainMoves DEF Moves, FollowsAsked, MainPlaces, States
  <2>1. CASE ResetFlags
    BY <2>1 DEF ResetFlags
  <2>2. CASE EnterSetup
    BY <2>2 DEF EnterSetup, flags
  <2>3. CASE SetupDone
    BY <2>3 DEF SetupDone
  <2>4. CASE LeaveWait
    BY <2>4 DEF LeaveWait, flags
  <2>5. CASE LoopFollows
    BY <2>5 DEF LoopFollows, flags
  <2>6. CASE NoSample \/ Sample
    BY <2>6 DEF NoSample, Sample, flags
  <2>7. CASE SkipCommand
    BY <2>7 DEF SkipCommand, flags
  <2>8. CASE OperatorQuits
    BY <2>8 DEF OperatorQuits
  <2>9. CASE CommandArm
    BY <2>9, MainGoesFrom DEF CommandArm, flags
  <2> QED BY <1>6, <2>1, <2>2, <2>3, <2>4, <2>5, <2>6, <2>7, <2>8, <2>9
        DEF MainActive
<1> QED BY <1>1, <1>2, <1>3, <1>4, <1>5, <1>6, StepCases

(* The arm is given no target before the operator asked for following:     *)
(* NoMotionBeforeStart holds in every behaviour.                           *)
THEOREM NoEarlyMotion == Spec => []NoMotionBeforeStart
<1>1. Init => FollowsAsked
  BY DEF Init, FollowsAsked, Loc, Threads, SetSteps
<1>2. TypeOK /\ FollowsAsked => NoMotionBeforeStart
  BY DEF TypeOK, CallsOK, FollowsAsked, NoMotionBeforeStart, Loc, SetSteps
<1> QED BY TypeCorrect, FollowsAskedStep, <1>1, <1>2, PTL DEF Spec

-----------------------------------------------------------------------------
(* An iteration looks at PAUSED when it begins: the one that was under way *)
(* when the pause was applied is the only one that still commands the arm. *)
OneIterationLeft ==
    /\ afterPause \in {0, 1}
    /\ PAUSED /\ afterPause = 1 => Loc("main") \notin {"sample", "command"}

LEMMA OneIterationLeftStep ==
  TypeOK /\ OneIterationLeft /\ [Next]_vars => OneIterationLeft'
<1> SUFFICES ASSUME TypeOK, OneIterationLeft, [Next]_vars
             PROVE  OneIterationLeft'
  OBVIOUS
<1> USE DEF TypeOK
<1>1. CASE \/ \E c \in Commands : BridgeSends(c)
           \/ BridgeDies \/ UNCHANGED vars
           \/ \E t \in Threads : SetState(t)
  BY <1>1, OtherStep DEF OneIterationLeft
<1>2. CASE CmdQuiet
  BY <1>2, CmdQuietStep DEF OneIterationLeft
<1>3. CASE CmdStop \/ request_stop
  BY <1>3, StopStep DEF OneIterationLeft
<1>4. CASE request_start \/ request_resume
  BY <1>4, DrainStep DEF OneIterationLeft, request_start, request_resume, States
<1>5. CASE request_pause
  <2>1. Loc("main")' = Loc("main")
    BY <1>5, DrainStep DEF request_pause, States
  <2>2. CASE PAUSED
    BY <1>5, <2>1, <2>2 DEF OneIterationLeft, request_pause
  <2>3. CASE ~PAUSED
    BY <1>5, <2>3 DEF OneIterationLeft, request_pause
  <2> QED BY <2>2, <2>3
<1>6. CASE MainQuiet
  BY <1>6, MainQuietStep DEF OneIterationLeft, InSession
<1>7. CASE MainActive
  <2> USE MainMoves DEF Moves, OneIterationLeft, MainPlaces, States
  <2>1. CASE ResetFlags
    BY <2>1 DEF ResetFlags
  <2>2. CASE EnterSetup
    BY <2>2 DEF EnterSetup, flags
  <2>3. CASE SetupDone
    BY <2>3 DEF SetupDone
  <2>4. CASE LeaveWait
    BY <2>4 DEF LeaveWait, flags
  <2>5. CASE LoopFollows
    BY <2>5 DEF LoopFollows, flags
  <2>6. CASE NoSample \/ Sample
    BY <2>6 DEF NoSample, Sample, flags
  <2>7. CASE SkipCommand
    BY <2>7 DEF SkipCommand, flags
  <2>8. CASE OperatorQuits
    BY <2>8 DEF OperatorQuits
  <2>9. CASE CommandArm
    <3>1. Loc("main") = "command" /\ Loc("main")' = "loop"
      BY <2>9, MainGoesFrom DEF CommandArm
    <3>2. PAUSED => afterPause = 0
      BY <3>1
    <3>3. afterPause' \in {0, 1}
      BY <2>9, <3>2 DEF CommandArm
    <3> QED BY <3>1, <3>3
  <2> HIDE MainMoves DEF Moves, OneIterationLeft, MainPlaces, States
  <2> QED BY <1>7, <2>1, <2>2, <2>3, <2>4, <2>5, <2>6, <2>7, <2>8, <2>9
        DEF MainActive
<1> QED BY <1>1, <1>2, <1>3, <1>4, <1>5, <1>6, <1>7, StepCases

(* Once a pause is applied at most one more target reaches the arm before  *)
(* the session is resumed: PauseBoundsMotion holds in every behaviour.     *)
THEOREM PauseIsPrompt == Spec => []PauseBoundsMotion
<1>1. Init => OneIterationLeft
  BY DEF Init, OneIterationLeft, Loc, Threads, SetSteps
<1>2. OneIterationLeft => PauseBoundsMotion
  BY DEF OneIterationLeft, PauseBoundsMotion
<1> QED BY TypeCorrect, OneIterationLeftStep, <1>1, <1>2, PTL DEF Spec

-----------------------------------------------------------------------------
(* The contract.  First the phases of the process: the hardware is up from *)
(* SetupDone on and never taken down in between, the session only ends     *)
(* once, and the command thread is gone before the main thread leaves.     *)
BeforeUp == {"boot", "import", "check1", "reset", "check2", "setup"}
WhileUp  == {"wait", "loop", "sample", "command"}
Leaving  == {"close", "done"}

Phases ==
    /\ Loc("main") \in BeforeUp => ~READY
    /\ Loc("main") \in WhileUp => READY
    /\ Loc("main") = "done" => pc["main"] = "done"
    /\ Loc("main") \in Leaving => pc["cmd"] \in CmdDone

(* What any action of the command thread outside set_state has in common.  *)
LEMMA CmdMoves ==
  ASSUME CallsOK, CmdGoes \/ CmdCalls
  PROVE  /\ pc["cmd"] \in {"poll", "hand", "drain", "reqstop"}
         /\ Loc("cmd") = pc["cmd"]
         /\ Loc("main")' = Loc("main") /\ pc["main"]' = pc["main"]
         /\ UNCHANGED <<READY, current, reported, msg>>
         /\ goal'["main"] = goal["main"]
<1>1. CASE CmdEnd \/ CmdTimeout \/ CmdWait \/ CmdDrain \/ CmdDrained
  BY <1>1, CmdGoesFrom DEF CmdEnd, CmdTimeout, CmdWait, CmdDrain, CmdDrained,
    pipe, flags, CmdPlaces, Goto
<1>2. CASE CmdEof \/ CmdRecvStop \/ CmdRecvFollow \/ request_stop
  BY <1>2, CmdGoesFrom DEF CmdEof, CmdRecvStop, CmdRecvFollow, request_stop,
    pipe, flags, CmdPlaces, Goto
<1>3. CASE CmdStop
  BY <1>3, CmdCallsFrom DEF CmdStop, flags, CmdPlaces, States, CallSetState,
    CallsOK, Threads
<1>4. ASSUME NEW c, NEW state \in States, Drain(c, state), READY' = READY
      PROVE  /\ pc["cmd"] \in {"poll", "hand", "drain", "reqstop"}
             /\ Loc("cmd") = pc["cmd"]
             /\ Loc("main")' = Loc("main") /\ pc["main"]' = pc["main"]
             /\ UNCHANGED <<READY, current, reported, msg>>
             /\ goal'["main"] = goal["main"]
  BY <1>4, CmdCallsFrom DEF Drain, CmdPlaces, CallSetState, CallsOK, Threads
<1>5. CASE request_start \/ request_pause \/ request_resume
  BY <1>5, <1>4 DEF request_start, request_pause, request_resume, States
<1> QED BY <1>1, <1>2, <1>3, <1>5 DEF CmdGoes, CmdCalls

(* A step of the main thread that goes to a place, and one that calls      *)
(* set_state: what changes besides the place.                              *)
MainTo(from, to) ==
    /\ Loc("main") = from /\ Loc("main")' = to /\ pc["main"]' = to
    /\ pc["main"] = from /\ pc["cmd"]' = pc["cmd"] /\ Loc("cmd")' = Loc("cmd")
    /\ UNCHANGED <<current, msg, goal>>

MainSays(from, state, to) ==
    /\ Loc("main") = from /\ Loc("main")' = to /\ pc["main"]' = "assign"
    /\ pc["main"] = from /\ pc["cmd"]' = pc["cmd"] /\ Loc("cmd")' = Loc("cmd")
    /\ UNCHANGED <<current, msg, reported>>
    /\ goal'["main"] = state /\ goal'["cmd"] = goal["cmd"]

LEMMA MainTakes ==
  ASSUME CallsOK, NEW from \in MainPlaces, NEW to \in MainPlaces,
         pc["main"] = from, Goto("main", to), current' = current
  PROVE  MainTo(from, to)
  BY MainGoesFrom DEF MainTo, Goto

LEMMA MainReports ==
  ASSUME CallsOK, NEW from \in MainPlaces, NEW to \in MainPlaces,
         NEW state \in States, MainSets(from, state, to)
  PROVE  MainSays(from, state, to)
  BY MainCallsFrom DEF MainSays, MainSets, CallSetState, CallsOK, Threads

(* Any step of the main thread that leaves the contract's state to its     *)
(* place: it may call set_state with a state that can always be reported.  *)
(* It never goes back to an earlier phase, and it leaves after the command *)
(* thread.                                                                 *)
Plain == {"STARTING", "STOPPING", "STOPPED", "ERROR"}

MainTurn(from, to) ==
    /\ READY' = READY /\ reported' = reported
    /\ from \in Ending => to \in Ending
    /\ from # "done" /\ (to = "done" => from = "close" /\ MainTo(from, to))
    /\ to \in BeforeUp => from \in BeforeUp
    /\ to \in WhileUp => from \in WhileUp
    /\ to = "close" => pc["cmd"] \in CmdDone
    /\ \/ MainTo(from, to)
       \/ \E state \in Plain : /\ MainSays(from, state, to)
                               /\ to \in Ending \/ state = "STARTING"

LEMMA MainTurns ==
  ASSUME TypeOK, Phases, MainGoes \/ MainCalls
  PROVE  \/ \E from, to \in MainPlaces : MainTurn(from, to)
         \/ /\ MainSays("setup", "READY", "wait") /\ SetupDone
         \/ /\ MainSays("wait", "RUNNING", "loop") /\ READY' = READY
         \/ /\ MainTo("raise", "entry") /\ READY' = READY
            /\ reported' \in {reported, "ERROR"}
<1> USE MainTakes, MainReports
    DEF TypeOK, MainTurn, MainPlaces, States, Plain, Ending, BeforeUp, WhileUp
<1>1. ImportModule => MainTurn("import", "check1")
  BY DEF ImportModule, flags
<1>2. UnloadModule => MainTurn("unload", "join")
  BY DEF UnloadModule, flags
<1>3. EnterRun => MainTurn("check1", "reset")
  BY DEF EnterRun, MainGoto, flags
<1>4. EnterSetup => MainTurn("check2", "setup")
  BY DEF EnterSetup, MainGoto, flags
<1>5. LoopFollows => MainTurn("loop", "sample")
  BY DEF LoopFollows, MainGoto, flags
<1>6. NoSample => MainTurn("sample", "loop")
  BY DEF NoSample, MainGoto, flags
<1>7. Sample => MainTurn("sample", "command")
  BY DEF Sample, MainGoto, flags
<1>8. OperatorQuits => MainTurn("sample", "command")
  BY DEF OperatorQuits, MainGoto
<1>9. CommandArm => MainTurn("command", "loop")
  BY DEF CommandArm, flags
<1>10. SkipCommand => MainTurn("command", "loop")
  BY DEF SkipCommand, MainGoto, flags
<1>11. ImportFails => MainTurn("import", "raise") \/ MainTurn("reset", "raise")
  <2>1. ImportFails => MainTo("import", "raise") \/ MainTo("reset", "raise")
    BY DEF ImportFails
  <2> QED BY <2>1 DEF ImportFails, flags
<1>12. Finally => MainTurn("fin", "unload")
  BY DEF Finally, flags
<1>13. JoinKeepsError => MainTurn("join", "close")
  BY DEF JoinKeepsError, MainGoto, flags
<1>14. Close => MainTurn("close", "done")
  BY DEF Close, MainGoto, flags
<1>15. SendError => /\ MainTo("raise", "entry") /\ READY' = READY
                    /\ reported' \in {reported, "ERROR"}
  BY DEF SendError, flags
<1>16. EntryInterrupted => MainTurn("import", "fin") \/ MainTurn("reset", "fin")
  <2>1. EntryInterrupted => MainTo("import", "fin") \/ MainTo("reset", "fin")
    BY DEF EntryInterrupted
  <2> QED BY <2>1 DEF EntryInterrupted, flags
<1>21. Boot => MainTurn("boot", "import")
  BY DEF Boot, flags, MainSets
<1>22. StopBeforeRun => MainTurn("check1", "fin")
  BY DEF StopBeforeRun, flags, MainSets
<1>23. ResetFlags => MainTurn("reset", "check2")
  <2>1. ASSUME ResetFlags
        PROVE  MainSays("reset", "STARTING", "check2")
    BY <2>1 DEF ResetFlags
  <2>2. ASSUME ResetFlags
        PROVE  READY' = READY /\ reported' = reported
    BY <2>1, <2>2 DEF ResetFlags, MainSays, Phases, BeforeUp, FlagsOK, MainSets
  <2> QED BY <2>1, <2>2
<1>24. StopBeforeSetup => MainTurn("check2", "fin")
  BY DEF StopBeforeSetup, flags, MainSets
<1>25. SetupDone => MainSays("setup", "READY", "wait")
  BY DEF SetupDone
<1>26. LeaveWait => MainSays("wait", "RUNNING", "loop") /\ READY' = READY
  BY DEF LeaveWait, flags
<1>27. LoopExits => MainTurn("loop", "clean")
  BY DEF LoopExits, flags, MainSets
<1>28. SessionFails => \E from \in MainPlaces : MainTurn(from, "unwind")
  <2>1. ASSUME SessionFails
        PROVE  MainSays(pc["main"], "ERROR", "unwind")
    <3>1. pc["main"] \in MainPlaces
      BY <2>1 DEF SessionFails
    <3>2. goal'["main"] = "ERROR" /\ goal'["cmd"] = goal["cmd"]
      BY <2>1 DEF SessionFails, CallSetState, CallsOK, Threads
    <3>3. /\ Loc("main") = pc["main"] /\ Loc("main")' = "unwind"
          /\ pc["main"]' = "assign" /\ Loc("cmd")' = Loc("cmd")
          /\ pc["cmd"]' = pc["cmd"]
      BY <2>1, SessionFailsFrom
    <3>4. UNCHANGED <<current, msg, reported>>
      BY <2>1 DEF SessionFails, CallSetState
    <3> QED BY <3>2, <3>3, <3>4 DEF MainSays
  <2>2. ASSUME SessionFails
        PROVE  pc["main"] \in MainPlaces \ Ending /\ reported' = reported
    BY <2>2 DEF SessionFails
  <2> QED BY <2>1, <2>2 DEF SessionFails, flags
<1>29. SessionUnwinds => MainTurn("unwind", "clean")
  BY DEF SessionUnwinds, flags, MainSets
<1>30. SessionInterrupted => \E from \in MainPlaces : MainTurn(from, "clean")
  BY DEF SessionInterrupted, flags, MainSets
<1>31. CleanUp => MainTurn("clean", "raise") \/ MainTurn("clean", "fin")
  BY DEF CleanUp, flags, MainSets
<1>32. EntryError => MainTurn("entry", "fin")
  BY DEF EntryError, flags, MainSets
<1>33. JoinReports => MainTurn("join", "close")
  BY DEF JoinReports, flags, MainSets
<1> HIDE MainTakes, MainReports
    DEF TypeOK, MainTurn, States, Plain, Ending, BeforeUp, WhileUp
<1>34. CASE MainGoes
  BY <1>1, <1>2, <1>3, <1>4, <1>5, <1>6, <1>7, <1>8, <1>9, <1>10, <1>11, <1>12,
     <1>13, <1>14, <1>15, <1>16, <1>34 DEF MainGoes
<1>35. CASE MainCalls
  BY <1>21, <1>22, <1>23, <1>24, <1>25, <1>26, <1>27, <1>28, <1>29, <1>30, <1>31,
     <1>32, <1>33, <1>35 DEF MainCalls
<1> QED BY <1>34, <1>35

LEMMA PhasesStep == TypeOK /\ Phases /\ [Next]_vars => Phases'
<1> SUFFICES ASSUME TypeOK, Phases, [Next]_vars PROVE Phases'
  OBVIOUS
<1> USE DEF TypeOK
<1>1. CASE (\E c \in Commands : BridgeSends(c)) \/ BridgeDies \/ UNCHANGED vars
  BY <1>1 DEF BridgeSends, BridgeDies, vars, calls, flags, Loc, Phases
<1>2. CASE CmdGoes \/ CmdCalls
  BY <1>2, CmdMoves DEF Phases, CmdDone
<1>3. ASSUME NEW t \in Threads, SetState(t)
      PROVE  Phases'
  <2>1. READY' = READY
    BY <1>3 DEF SetState, AssignState, ReadState, SendState, flags
  <2>2. /\ Loc("main")' = Loc("main") /\ pc[t] \in SetSteps
        /\ \A u \in Threads \ {t} : pc'[u] = pc[u]
    BY <1>3, SetStatePlace DEF Threads
  <2> QED BY <2>1, <2>2 DEF Phases, Threads, SetSteps, CmdDone
<1>4. ASSUME NEW from \in MainPlaces, NEW to \in MainPlaces, MainTurn(from, to)
      PROVE  Phases'
  <2>1. /\ READY' = READY /\ pc["cmd"]' = pc["cmd"]
        /\ Loc("main") = from /\ Loc("main")' = to
        /\ to = "done" => pc["main"]' = "done"
    BY <1>4 DEF MainTurn, MainTo, MainSays
  <2>2. /\ to \in BeforeUp => from \in BeforeUp
        /\ to \in WhileUp => from \in WhileUp
        /\ to = "close" => pc["cmd"] \in CmdDone
        /\ to = "done" => from = "close"
    BY <1>4 DEF MainTurn
  <2> QED BY <2>1, <2>2 DEF Phases, Leaving
<1>5. CASE MainSays("setup", "READY", "wait") /\ SetupDone
  <2>1. READY' /\ Loc("main")' = "wait"
    BY <1>5 DEF SetupDone, MainSays
  <2> QED BY <2>1 DEF Phases, BeforeUp, Leaving
<1>6. CASE MainSays("wait", "RUNNING", "loop") /\ READY' = READY
  BY <1>6 DEF MainSays, Phases, BeforeUp, WhileUp, Leaving
<1>7. CASE MainTo("raise", "entry") /\ READY' = READY
  BY <1>7 DEF MainTo, Phases, BeforeUp, WhileUp, Leaving
<1> QED
  <2>1. CASE MainGoes \/ MainCalls
    BY <1>4, <1>5, <1>6, <1>7, <2>1, MainTurns
  <2> QED BY <1>1, <1>2, <1>3, <2>1, NextCases

-----------------------------------------------------------------------------
(* What may be on its way to the bridge.  The session is live once it was  *)
(* set up or is over; the command thread waits until then, so whatever is  *)
(* current, about to be assigned or about to be sent can be reported now.  *)
Live   == READY \/ Loc("main") \in Ending
CanSay == Contract!Reports(READY, Loc("main") \in Ending)

Waits ==
    /\ pc["cmd"] \in SetSteps => Loc("cmd") \in {"drain", "reqstop"}
    /\ Loc("cmd") = "drain" => Live
    /\ pc["main"] = "assign" => goal["main"] = "STARTING" \/ Live
    /\ current # "STARTING" => Live \/ Loc("cmd") \in {"reqstop", "stopped"}

Says ==
    /\ current \in CanSay
    /\ \A t \in Threads : /\ pc[t] = "assign" => goal[t] \in CanSay
                          /\ pc[t] = "send" => msg[t] \in CanSay

LEMMA ReportsGrow ==
  ASSUME READY => READY', Loc("main") \in Ending => Loc("main")' \in Ending
  PROVE  CanSay \subseteq CanSay' /\ (Live => Live')
  BY DEF CanSay, Contract!Reports, Live

LEMMA SaysStep ==
  TypeOK /\ Phases /\ Waits /\ Says /\ [Next]_vars => Waits' /\ Says'
<1> SUFFICES ASSUME TypeOK, Phases, Waits, Says, [Next]_vars
             PROVE  Waits' /\ Says'
  OBVIOUS
<1> USE DEF TypeOK
<1>1. CASE (\E c \in Commands : BridgeSends(c)) \/ BridgeDies \/ UNCHANGED vars
  <2>1. UNCHANGED <<pc, goal, msg, after, READY, current>>
    BY <1>1 DEF BridgeSends, BridgeDies, vars, calls, flags
  <2> QED BY <2>1 DEF Waits, Says, Live, CanSay, Loc
<1>2. CASE CmdQuiet
  <2>1. /\ Loc("main")' = Loc("main") /\ pc["main"]' = pc["main"]
        /\ UNCHANGED <<READY, current, reported, msg>>
        /\ goal'["main"] = goal["main"]
        /\ pc["cmd"] \in {"poll", "hand", "drain", "reqstop"}
    BY <1>2, CmdMoves DEF CmdQuiet, CmdGoes
  <2>2. Loc("cmd")' \in {"poll", "hand", "drain", "eof", "ended"}
    BY <1>2, CmdQuietStep
  <2>3. pc["cmd"]' = Loc("cmd")' /\ Loc("cmd") = pc["cmd"]
    BY <1>2, CmdGoesFrom DEF CmdQuiet, CmdEnd, CmdTimeout, CmdEof, CmdWait,
      CmdDrain, CmdDrained, CmdRecvStop, CmdRecvFollow, CmdPlaces
  <2>4. Loc("cmd")' = "drain" => current # "STARTING" /\ pc["cmd"] = "hand"
    BY <1>2, CmdGoesFrom DEF CmdQuiet, CmdEnd, CmdTimeout, CmdEof, CmdWait,
      CmdDrain, CmdDrained, CmdRecvStop, CmdRecvFollow, CmdPlaces, MustWait
  <2>5. CanSay' = CanSay /\ Live' = Live
    BY <2>1 DEF CanSay, Live
  <2>6. current # "STARTING" => Live
    BY <1>2, CmdQuietStep DEF Waits
  <2>7. Waits'
    BY <2>1, <2>2, <2>3, <2>4, <2>5, <2>6 DEF Waits, SetSteps
  <2>8. Says'
    BY <2>1, <2>2, <2>3, <2>5 DEF Says, Threads
  <2> QED BY <2>7, <2>8
<1>3. CASE CmdStop
  <2>1. /\ Loc("cmd")' = "reqstop" /\ pc["cmd"]' = "assign"
        /\ goal'["cmd"] = "STOPPING" /\ Loc("main")' = Loc("main")
        /\ pc["main"]' = pc["main"]
    BY <1>3, CmdCallsFrom DEF CmdStop, CmdPlaces, States, CallSetState, CallsOK,
      Threads
  <2>2. UNCHANGED <<READY, current, msg>> /\ goal'["main"] = goal["main"]
    BY <1>3, CmdMoves DEF CmdCalls
  <2>3. CanSay' = CanSay /\ Live' = Live
    BY <2>1, <2>2 DEF CanSay, Live
  <2>4. "STOPPING" \in CanSay
    BY DEF CanSay, Contract!Reports
  <2>5. Waits'
    BY <2>1, <2>2, <2>3 DEF Waits
  <2>6. Says'
    BY <2>1, <2>2, <2>3, <2>4 DEF Says, Threads
  <2> QED BY <2>5, <2>6
<1>4. CASE request_stop
  <2>1. /\ Loc("cmd")' = "stopped" /\ pc["cmd"]' = "stopped"
        /\ Loc("main")' = Loc("main") /\ pc["main"]' = pc["main"]
    BY <1>4, CmdGoesFrom DEF request_stop, CmdPlaces
  <2>2. UNCHANGED <<READY, current, msg>> /\ goal'["main"] = goal["main"]
    BY <1>4, CmdMoves DEF CmdGoes
  <2>3. CanSay' = CanSay /\ Live' = Live
    BY <2>1, <2>2 DEF CanSay, Live
  <2>4. Waits'
    BY <2>1, <2>2, <2>3 DEF Waits, SetSteps
  <2>5. Says'
    BY <2>1, <2>2, <2>3 DEF Says, Threads
  <2> QED BY <2>4, <2>5
<1>5. ASSUME NEW c, NEW state \in {"RUNNING", "PAUSED"}, Drain(c, state),
             request_start \/ request_pause \/ request_resume
      PROVE  Waits' /\ Says'
  <2>1. /\ Loc("cmd") = "drain" /\ Loc("cmd")' = "drain" /\ pc["cmd"]' = "assign"
        /\ Loc("main")' = Loc("main") /\ pc["main"]' = pc["main"]
    BY <1>5, CmdCallsFrom DEF Drain, CmdPlaces, States
  <2>2. goal'["cmd"] = state
    BY <1>5 DEF Drain, CallSetState, CallsOK, Threads
  <2>3. UNCHANGED <<READY, current, msg>> /\ goal'["main"] = goal["main"]
    BY <1>5, CmdMoves DEF CmdCalls
  <2>4. CanSay' = CanSay /\ Live' = Live
    BY <2>1, <2>3 DEF CanSay, Live
  <2>5. Live /\ state \in CanSay
    BY <1>5, <2>1 DEF Waits, Live, CanSay, Contract!Reports
  <2>6. Waits'
    BY <2>1, <2>3, <2>4, <2>5 DEF Waits
  <2>7. Says'
    BY <2>1, <2>2, <2>3, <2>4, <2>5 DEF Says, Threads
  <2> QED BY <2>6, <2>7
<1>6. CASE request_start \/ request_pause \/ request_resume
  BY <1>5, <1>6 DEF request_start, request_pause, request_resume
<1>7. ASSUME NEW from \in MainPlaces, NEW to \in MainPlaces, MainTurn(from, to)
      PROVE  Waits' /\ Says'
  <2>1. /\ Loc("main") = from /\ Loc("main")' = to /\ READY' = READY
        /\ pc["cmd"]' = pc["cmd"] /\ Loc("cmd")' = Loc("cmd")
        /\ UNCHANGED <<current, msg>> /\ goal'["cmd"] = goal["cmd"]
    BY <1>7 DEF MainTurn, MainTo, MainSays
  <2>2. CanSay \subseteq CanSay' /\ (Live => Live')
    BY <1>7, <2>1, ReportsGrow DEF MainTurn
  <2>3. \/ pc["main"]' = to
        \/ /\ pc["main"]' = "assign" /\ goal'["main"] \in Plain
           /\ to \in Ending \/ goal'["main"] = "STARTING"
    BY <1>7 DEF MainTurn, MainTo, MainSays
  <2>4. \A state \in Plain : state \in CanSay'
    BY DEF CanSay, Contract!Reports, Plain
  <2>5. to \notin SetSteps
    BY DEF MainPlaces, SetSteps
  <2>6. Waits'
    BY <2>1, <2>2, <2>3, <2>5 DEF Waits, Live, SetSteps
  <2>7. Says'
    BY <2>1, <2>2, <2>3, <2>4, <2>5 DEF Says, Threads, SetSteps
  <2> QED BY <2>6, <2>7
<1>8. ASSUME NEW from \in WhileUp \cup {"setup"}, NEW state \in {"READY", "RUNNING"},
             NEW to \in WhileUp, MainSays(from, state, to), READY'
      PROVE  Waits' /\ Says'
  <2>1. /\ Loc("main") = from /\ Loc("main")' = to /\ pc["main"]' = "assign"
        /\ pc["cmd"]' = pc["cmd"] /\ Loc("cmd")' = Loc("cmd")
        /\ UNCHANGED <<current, msg>> /\ goal'["cmd"] = goal["cmd"]
        /\ goal'["main"] = state
    BY <1>8 DEF MainSays
  <2>2. CanSay \subseteq CanSay' /\ Live'
    BY <1>8, <2>1, ReportsGrow DEF Live, WhileUp, Ending
  <2>3. state \in CanSay'
    BY <1>8 DEF CanSay, Contract!Reports
  <2>4. Waits'
    BY <2>1, <2>2 DEF Waits
  <2>5. Says'
    BY <2>1, <2>2, <2>3 DEF Says, Threads
  <2> QED BY <2>4, <2>5
<1>9. CASE MainTo("raise", "entry") /\ READY' = READY
  <2>1. /\ Loc("main")' = "entry" /\ pc["main"]' = "entry" /\ Loc("main") = "raise"
        /\ pc["cmd"]' = pc["cmd"] /\ Loc("cmd")' = Loc("cmd")
        /\ UNCHANGED <<current, msg, goal, READY>>
    BY <1>9 DEF MainTo
  <2>2. CanSay' = CanSay /\ Live' = Live
    BY <2>1 DEF CanSay, Live, Ending
  <2> QED BY <2>1, <2>2 DEF Waits, Says, Threads
<1>10. CASE MainGoes \/ MainCalls
  <2>1. SetupDone => READY'
    BY DEF SetupDone
  <2>2. Loc("main") = "wait" => READY
    BY DEF Phases, WhileUp
  <2>3. CASE MainSays("wait", "RUNNING", "loop") /\ READY' = READY
    BY <1>8, <2>2, <2>3 DEF WhileUp, MainSays
  <2>4. CASE MainSays("setup", "READY", "wait") /\ SetupDone
    BY <1>8, <2>1, <2>4 DEF WhileUp
  <2> QED BY <1>7, <1>9, <1>10, <2>3, <2>4, MainTurns
<1>11. ASSUME NEW t \in Threads, SetState(t)
       PROVE  Waits' /\ Says'
  <2>1. /\ \A u \in Threads : Loc(u)' = Loc(u)
        /\ \A u \in Threads \ {t} : pc'[u] = pc[u]
        /\ pc[t] \in SetSteps /\ goal' = goal
    BY <1>11, SetStatePlace
  <2>2. READY' = READY
    BY <1>11 DEF SetState, AssignState, ReadState, SendState, flags
  <2>3. CanSay' = CanSay /\ Live' = Live
    BY <2>1, <2>2 DEF CanSay, Live, Threads
  <2>4. CASE AssignState(t)
    <3>1. pc[t] = "assign" /\ pc'[t] = "read" /\ current' = goal[t] /\ msg' = msg
      BY <2>4 DEF AssignState, Goto, CallsOK
    <3>2. current' # "STARTING" => Live \/ Loc("cmd") \in {"reqstop", "stopped"}
      BY <3>1 DEF Waits, Threads, SetSteps
    <3>3. Waits'
      BY <2>1, <2>3, <3>1, <3>2 DEF Waits, Threads, SetSteps
    <3>4. Says'
      BY <2>1, <2>3, <3>1 DEF Says, Threads
    <3> QED BY <3>3, <3>4
  <2>5. CASE ReadState(t)
    <3>1. /\ pc'[t] = "send" /\ current' = current /\ msg'[t] = current
          /\ \A u \in Threads \ {t} : msg'[u] = msg[u]
      BY <2>5 DEF ReadState, CallsOK
    <3>2. Waits'
      BY <2>1, <2>3, <3>1 DEF Waits, Threads, SetSteps
    <3>3. Says'
      BY <2>1, <2>3, <3>1 DEF Says, Threads
    <3> QED BY <3>2, <3>3
  <2>6. CASE SendState(t)
    <3>1. /\ pc'[t] = after[t] /\ current' = current /\ msg' = msg
      BY <2>6 DEF SendState, Goto, CallsOK
    <3>2. after[t] \notin SetSteps
      BY DEF CallsOK, SetSteps, CmdPlaces, MainPlaces
    <3>3. Waits'
      BY <2>1, <2>3, <3>1, <3>2 DEF Waits, Threads, SetSteps
    <3>4. Says'
      BY <2>1, <2>3, <3>1, <3>2 DEF Says, Threads, SetSteps
    <3> QED BY <3>3, <3>4
  <2> QED BY <1>11, <2>4, <2>5, <2>6 DEF SetState
<1> QED
  BY <1>1, <1>2, <1>3, <1>4, <1>6, <1>10, <1>11, NextCases
    DEF CmdGoes, CmdCalls, CmdQuiet

KeepsContract == TypeOK /\ Phases /\ Waits /\ Says

(* Each step of the two threads is one the contract allows, or none of its *)
(* business.                                                               *)
LEMMA ContractStep == KeepsContract /\ [Next]_vars => [Contract!Next]_(Contract!vars)
<1> SUFFICES ASSUME KeepsContract, [Next]_vars
             PROVE  [Contract!Next]_(Contract!vars)
  OBVIOUS
<1> USE DEF KeepsContract, TypeOK
<1> DEFINE ending == Loc("main") \in Ending
           gone == pc["main"] = "done"
<1>1. CASE (\E c \in Commands : BridgeSends(c)) \/ BridgeDies \/ UNCHANGED vars
  <2>1. UNCHANGED <<READY, pc, after, reported>>
    BY <1>1 DEF BridgeSends, BridgeDies, vars, flags, calls
  <2> QED BY <2>1 DEF Contract!vars, Loc
<1>2. CASE CmdGoes \/ CmdCalls
  BY <1>2, CmdMoves DEF Contract!vars
<1>3. ASSUME NEW from \in MainPlaces, NEW to \in MainPlaces, MainTurn(from, to)
      PROVE  [Contract!Next]_(Contract!vars)
  <2>1. /\ Loc("main") = from /\ Loc("main")' = to /\ pc["main"] = from
        /\ READY' = READY /\ reported' = reported
        /\ from \in Ending => to \in Ending
        /\ from # "done" /\ (to = "done" => from = "close")
        /\ pc["main"]' = to \/ pc["main"]' = "assign"
    BY <1>3 DEF MainTurn, MainTo, MainSays
  <2>2. CASE pc["main"]' = "done"
    <3>1. from = "close"
      BY <2>1, <2>2
    <3>2. Contract!Exit
      BY <2>1, <2>2, <3>1 DEF Contract!Exit, Ending
    <3> QED BY <3>2 DEF Contract!Next
  <2>3. CASE pc["main"]' # "done" /\ (from \in Ending <=> to \in Ending)
    BY <2>1, <2>3 DEF Contract!vars
  <2>4. CASE pc["main"]' # "done" /\ from \notin Ending /\ to \in Ending
    BY <2>1, <2>4 DEF Contract!Next, Contract!End
  <2> QED BY <2>1, <2>2, <2>3, <2>4
<1>4. CASE MainSays("setup", "READY", "wait") /\ SetupDone
  <2>1. /\ Loc("main") = "setup" /\ Loc("main")' = "wait" /\ READY' = TRUE
        /\ pc["main"] = "setup" /\ pc["main"]' = "assign" /\ reported' = reported
    BY <1>4 DEF MainSays, SetupDone
  <2>2. ~READY
    BY <2>1 DEF Phases, BeforeUp
  <2>3. Contract!SetUp
    BY <2>1, <2>2 DEF Contract!SetUp, Ending
  <2> QED BY <2>3 DEF Contract!Next
<1>5. CASE MainSays("wait", "RUNNING", "loop") /\ READY' = READY
  BY <1>5 DEF MainSays, Ending, Contract!vars
<1>6. CASE MainTo("raise", "entry") /\ READY' = READY /\ reported' \in {reported, "ERROR"}
  <2>1. /\ Loc("main") = "raise" /\ Loc("main")' = "entry"
        /\ pc["main"] = "raise" /\ pc["main"]' = "entry"
    BY <1>6 DEF MainTo
  <2>2. CASE reported' = reported
    BY <1>6, <2>1, <2>2 DEF Contract!vars, Ending
  <2>3. CASE reported' = "ERROR"
    BY <1>6, <2>1, <2>3 DEF Contract!Next, Contract!Report, Contract!Reports, Ending
  <2> QED BY <1>6, <2>2, <2>3
<1>7. ASSUME NEW t \in Threads, SetState(t)
      PROVE  [Contract!Next]_(Contract!vars)
  <2>1. /\ \A u \in Threads : Loc(u)' = Loc(u)
        /\ \A u \in Threads \ {t} : pc'[u] = pc[u]
        /\ pc[t] \in SetSteps /\ CallsOK'
    BY <1>7, SetStatePlace
  <2>2. READY' = READY /\ ending' = ending
    BY <1>7, <2>1 DEF SetState, AssignState, ReadState, SendState, flags, Threads
  <2>3. ~gone /\ ~gone'
    <3>1. Loc("main") # "done"
      BY <2>1 DEF Phases, Leaving, Threads, SetSteps, CmdDone
    <3>2. pc["main"]' \in SetSteps \/ pc["main"]' = Loc("main")'
      BY DEF Loc
    <3> QED BY <2>1, <3>1, <3>2 DEF Loc, Threads, SetSteps
  <2>4. CASE AssignState(t) \/ ReadState(t)
    BY <2>2, <2>3, <2>4 DEF AssignState, ReadState, Contract!vars
  <2>5. CASE SendState(t)
    <3>1. reported' = reported \/ reported' = msg[t]
      BY <2>5 DEF SendState
    <3>2. msg[t] \in CanSay
      BY <2>5 DEF SendState, Says
    <3>3. CASE reported' = reported
      BY <2>2, <2>3, <3>3 DEF Contract!vars
    <3>4. CASE reported' = msg[t]
      <4>1. Contract!Report
        BY <2>2, <2>3, <3>2, <3>4 DEF Contract!Report, CanSay
      <4> QED BY <4>1 DEF Contract!Next
    <3> QED BY <3>1, <3>3, <3>4
  <2> QED BY <1>7, <2>4, <2>5 DEF SetState
<1> QED
  BY <1>1, <1>2, <1>3, <1>4, <1>5, <1>6, <1>7, NextCases, MainTurns

(* The control process keeps its contract: READY reaches the bridge only   *)
(* from a process whose hardware is set up, no command is acknowledged     *)
(* while it is starting, and it says nothing once it is gone, however the  *)
(* two threads interleave inside set_state.                                *)
THEOREM KeepsItsContract == Spec => ImplementsContract
<1>1. Init => Contract!Init
  BY DEF Init, Contract!Init, Loc, Threads, SetSteps, Ending
<1>2. Init => Phases /\ Waits /\ Says
  BY DEF Init, Phases, Waits, Says, BeforeUp, WhileUp, Leaving, Loc, Threads,
    SetSteps, CanSay, Contract!Reports
<1>3. KeepsContract /\ [Next]_vars => KeepsContract'
  <2>1. KeepsContract /\ [Next]_vars => TypeOK'
    BY CallsStep, QueuesStep, FlagsStep DEF KeepsContract, TypeOK
  <2> QED BY <2>1, PhasesStep, SaysStep DEF KeepsContract
<1>4. Init => KeepsContract
  BY TypeInit, <1>2 DEF KeepsContract
<1> QED
  BY <1>1, <1>3, <1>4, ContractStep, PTL DEF Spec, ImplementsContract, Contract!Spec

-----------------------------------------------------------------------------
(* The last report.  What has failed is over and says so; what has not     *)
(* never had ERROR in a state.                                             *)
Failures ==
    /\ failed => Loc("main") \in Ending
    /\ ~failed => /\ Loc("main") \notin {"unwind", "raise", "entry"}
                  /\ current # "ERROR"
                  /\ \A t \in Threads : goal[t] # "ERROR" /\ msg[t] # "ERROR"

(* The last set_state of a session that has not failed, or whose failure   *)
(* the command thread has overruled: nobody overwrites its STOPPED, since  *)
(* the command thread is gone.                                             *)
Overruled == sent = 0 /\ pc["cmd"] = "stopped"

Farewell ==
    (~failed \/ Overruled) /\ bridgeUp /\ Loc("main") \in Leaving =>
        /\ pc["main"] = "assign" => goal["main"] = "STOPPED"
        /\ pc["main"] = "read" => current = "STOPPED"
        /\ pc["main"] = "send" => msg["main"] = "STOPPED"
        /\ pc["main"] \in Leaving => reported = "STOPPED"

(* Without a command the command thread calls set_state only for the end   *)
(* of the session, and does not come back from it.                         *)
Unasked ==
    sent = 0 => /\ inbox = <<>> /\ pending = <<>>
                /\ pc["cmd"] \in SetSteps => Loc("cmd") = "reqstop"

Idle == sent = 0 /\ pc["cmd"] \in {"poll", "hand", "drain", "ended"}

(* As long as it has not, the main thread alone writes the state of a      *)
(* session that failed: ERROR from the handler of the entry point on.      *)
Confession ==
    failed /\ Idle =>
        /\ pc["main"] \in SetSteps
              => Loc("main") \in {"unwind", "clean", "raise", "fin"}
        /\ Loc("main") \in {"entry", "fin", "unload", "join", "close", "done"}
              => (bridgeUp => reported = "ERROR")
        /\ Loc("main") = "fin" =>
              /\ pc["main"] = "assign" => goal["main"] = "ERROR"
              /\ pc["main"] \in {"read", "send"} => current = "ERROR"
              /\ pc["main"] = "send" => msg["main"] = "ERROR"
        /\ pc["main"] \in {"fin", "unload", "join", "close", "done"}
              => current = "ERROR"

(* Without a command, and while the bridge lives, nothing stops the        *)
(* process but its own end: the command thread begins a stop then only,    *)
(* and its STOPPING is what the main thread finds when it has failed.      *)
Over == {"unload", "join", "close", "done"}
Cut  == {"read", "send", "reqstop", "stopped"}

Overrules ==
    /\ pc["main"] \in SetSteps => Loc("main") \notin {"unload", "join", "done"}
    /\ sent = 0 /\ bridgeUp =>
          /\ stopEvent => \/ Loc("main") \in Over
                          \/ Loc("main") = "fin" /\ ~failed
          /\ pc["cmd"] # "eof"
          /\ pc["cmd"] = "assign" => goal["cmd"] = "STOPPING"
          /\ failed /\ pc["cmd"] \in Cut /\ Loc("main") \in {"unload", "join"}
                => current # "ERROR"

LastWords == Failures /\ Farewell /\ Unasked /\ Confession /\ Overrules

(* The main thread leaves the pipe and the queue of commands alone; before *)
(* its end it has not failed and says nothing of an error.                 *)
LEMMA MainLeavesQueues ==
  ASSUME MainGoes \/ MainCalls
  PROVE  UNCHANGED <<inbox, sent, bridgeUp, pending>>
<1>1. CASE MainGoes
  BY <1>1 DEF MainGoes, ImportModule, EnterRun, EnterSetup, LoopFollows,
    NoSample, Sample, OperatorQuits, CommandArm, SkipCommand, ImportFails,
    EntryInterrupted, SendError, Finally, UnloadModule, JoinKeepsError, Close,
    MainGoto, pipe
<1>2. CASE MainCalls
  BY <1>2 DEF MainCalls, Boot, StopBeforeRun, ResetFlags, StopBeforeSetup,
    SetupDone, LeaveWait, LoopExits, SessionFails, SessionUnwinds,
    SessionInterrupted, CleanUp, EntryError, JoinReports, MainSets, pipe
<1> QED BY <1>1, <1>2

MainGoesOn ==
    \/ Boot \/ ImportModule \/ EnterRun \/ ResetFlags \/ EnterSetup
    \/ SetupDone \/ LeaveWait \/ LoopExits \/ LoopFollows \/ NoSample
    \/ Sample \/ OperatorQuits \/ CommandArm \/ SkipCommand
    \/ SessionInterrupted

(* What an interrupt of the entry point does.                              *)
LEMMA Interrupts ==
  ASSUME CallsOK, EntryInterrupted
  PROVE  /\ MainTo("import", "fin") \/ MainTo("reset", "fin")
         /\ UNCHANGED <<failed, reported>>
  BY MainTakes DEF EntryInterrupted, MainPlaces

LEMMA GoesOn ==
  ASSUME CallsOK, MainGoesOn
  PROVE  /\ failed' = failed
         /\ \E from \in MainPlaces \ Ending,
               to \in MainPlaces \ (Ending \ {"clean"}) :
              \/ MainTo(from, to)
              \/ \E state \in States \ {"ERROR"} : MainSays(from, state, to)
<1> DEFINE G(from, to) ==
      \/ MainTo(from, to)
      \/ \E state \in States \ {"ERROR"} : MainSays(from, state, to)
<1> USE MainTakes, MainReports DEF MainPlaces, States
<1>1. ImportModule => failed' = failed /\ G("import", "check1")
  BY DEF ImportModule
<1>2. EnterRun => failed' = failed /\ G("check1", "reset")
  BY DEF EnterRun, MainGoto
<1>3. EnterSetup => failed' = failed /\ G("check2", "setup")
  BY DEF EnterSetup, MainGoto
<1>4. LoopFollows => failed' = failed /\ G("loop", "sample")
  BY DEF LoopFollows, MainGoto
<1>5. NoSample => failed' = failed /\ G("sample", "loop")
  BY DEF NoSample, MainGoto
<1>6. Sample \/ OperatorQuits => failed' = failed /\ G("sample", "command")
  BY DEF Sample, OperatorQuits, MainGoto
<1>7. CommandArm \/ SkipCommand => failed' = failed /\ G("command", "loop")
  BY DEF CommandArm, SkipCommand, MainGoto
<1>8. Boot => failed' = failed /\ G("boot", "import")
  BY DEF Boot, MainSets
<1>9. ResetFlags => failed' = failed /\ G("reset", "check2")
  BY DEF ResetFlags, MainSets
<1>10. SetupDone => failed' = failed /\ G("setup", "wait")
  BY DEF SetupDone, MainSets
<1>11. LeaveWait => failed' = failed /\ G("wait", "loop")
  BY DEF LeaveWait, MainSets
<1>12. LoopExits => failed' = failed /\ G("loop", "clean")
  BY DEF LoopExits, MainSets
<1>13. SessionInterrupted
         => /\ failed' = failed
            /\ \E from \in {"setup", "wait", "loop", "sample", "command"} :
                  G(from, "clean")
  BY DEF SessionInterrupted, MainSets
<1> HIDE MainTakes, MainReports DEF G, States
<1>14. /\ failed' = failed
       /\ \E from \in MainPlaces \ Ending,
             to \in MainPlaces \ (Ending \ {"clean"}) : G(from, to)
  BY <1>1, <1>2, <1>3, <1>4, <1>5, <1>6, <1>7, <1>8, <1>9, <1>10, <1>11, <1>12,
     <1>13 DEF MainGoesOn, Ending
<1> QED BY <1>14 DEF G

LEMMA Ends ==
  ASSUME CallsOK
  PROVE  /\ StopBeforeRun => MainSays("check1", "STOPPED", "fin")
         /\ StopBeforeSetup => MainSays("check2", "STOPPED", "fin")
         /\ SessionUnwinds => MainSays("unwind", "STOPPING", "clean")
         /\ CleanUp => MainSays("clean", "STOPPED",
                                IF failed THEN "raise" ELSE "fin")
         /\ SendError => MainTo("raise", "entry")
         /\ EntryError => MainSays("entry", "ERROR", "fin")
         /\ Finally => MainTo("fin", "unload")
         /\ UnloadModule => MainTo("unload", "join")
         /\ JoinReports => MainSays("join", "STOPPED", "close")
         /\ JoinKeepsError => MainTo("join", "close")
         /\ Close => MainTo("close", "done")
<1> USE MainTakes, MainReports DEF MainPlaces, States
<1>1. StopBeforeRun => MainSays("check1", "STOPPED", "fin")
  BY DEF StopBeforeRun
<1>2. StopBeforeSetup => MainSays("check2", "STOPPED", "fin")
  BY DEF StopBeforeSetup
<1>3. SessionUnwinds => MainSays("unwind", "STOPPING", "clean")
  BY DEF SessionUnwinds
<1>4. CleanUp => MainSays("clean", "STOPPED", IF failed THEN "raise" ELSE "fin")
  BY DEF CleanUp
<1>5. SendError => MainTo("raise", "entry")
  BY DEF SendError
<1>6. EntryError => MainSays("entry", "ERROR", "fin")
  BY DEF EntryError
<1>7. Finally => MainTo("fin", "unload")
  BY DEF Finally
<1>8. UnloadModule => MainTo("unload", "join")
  BY DEF UnloadModule
<1>9. JoinReports => MainSays("join", "STOPPED", "close")
  BY DEF JoinReports
<1>10. JoinKeepsError => MainTo("join", "close")
  BY DEF JoinKeepsError, MainGoto
<1>11. Close => MainTo("close", "done")
  BY DEF Close, MainGoto
<1> QED BY <1>1, <1>2, <1>3, <1>4, <1>5, <1>6, <1>7, <1>8, <1>9, <1>10, <1>11

(* A failure leads to the handler of the entry point.                      *)
LEMMA Fails ==
  ASSUME CallsOK, SessionFails \/ ImportFails
  PROVE  /\ failed' /\ pc["main"] = Loc("main") /\ Loc("main") \notin Ending
         /\ Loc("main")' \in {"unwind", "raise"}
         /\ Loc("cmd")' = Loc("cmd") /\ pc["cmd"]' = pc["cmd"]
         /\ pc["main"]' \in {"assign", "raise"}
<1>1. CASE SessionFails
  <2>1. failed' /\ pc["main"] \notin Ending
    BY <1>1 DEF SessionFails, Ending
  <2> QED BY <1>1, <2>1, SessionFailsFrom
<1>2. CASE ImportFails
  <2>1. PICK from \in {"import", "reset"} : pc["main"] = from
    BY <1>2 DEF ImportFails
  <2>2. Goto("main", "raise") /\ failed'
    BY <1>2 DEF ImportFails
  <2> QED BY <2>1, <2>2, MainGoesFrom DEF MainPlaces, Ending
<1> QED BY <1>1, <1>2

LEMMA FailuresByMain ==
  ASSUME TypeOK, Failures, MainGoes \/ MainCalls
  PROVE  Failures'
<1> USE DEF TypeOK
<1>1. CASE MainGoesOn
  <2>1. PICK from \in MainPlaces \ Ending,
             to \in MainPlaces \ (Ending \ {"clean"}) :
          \/ MainTo(from, to)
          \/ \E state \in States \ {"ERROR"} : MainSays(from, state, to)
    BY <1>1, GoesOn
  <2>2. failed' = failed /\ Loc("main") = from /\ Loc("main")' = to
    BY <1>1, <2>1, GoesOn DEF MainTo, MainSays
  <2>3. ~failed
    BY <2>2 DEF Failures
  <2>4. current' = current /\ msg' = msg
    BY <2>1 DEF MainTo, MainSays
  <2>5. \A t \in Threads : goal'[t] # "ERROR"
    BY <2>1, <2>3 DEF MainTo, MainSays, Failures, Threads
  <2>6. to \notin {"unwind", "raise", "entry"}
    BY <2>1 DEF Ending
  <2> QED BY <2>2, <2>3, <2>4, <2>5, <2>6 DEF Failures
<1>2. CASE SessionFails \/ ImportFails
  BY <1>2, Fails DEF Failures, Ending
<1>3. ASSUME NEW from, NEW to \in Ending,
             MainTo(from, to), failed' = failed,
             ~failed => to \notin {"unwind", "raise", "entry"}
      PROVE  Failures'
  BY <1>3 DEF MainTo, Failures
<1>4. ASSUME NEW from, NEW to \in Ending,
             NEW state \in States, MainSays(from, state, to), failed' = failed,
             ~failed => state # "ERROR" /\ to \notin {"unwind", "raise", "entry"}
      PROVE  Failures'
  <2>1. \A t \in Threads : ~failed => goal'[t] # "ERROR"
    BY <1>4 DEF MainSays, Failures, Threads
  <2> QED BY <1>4, <2>1 DEF MainSays, Failures
<1>5. CASE SendError \/ Finally \/ UnloadModule \/ JoinKeepsError \/ Close
  <2>1. failed' = failed
    BY <1>5 DEF SendError, Finally, UnloadModule, JoinKeepsError, Close,
      MainGoto
  <2>2. SendError => failed
    BY Ends DEF MainTo, Failures
  <2> QED BY <1>5, <1>3, <2>1, <2>2, Ends DEF Ending
<1>6. CASE \/ StopBeforeRun \/ StopBeforeSetup \/ SessionUnwinds
           \/ CleanUp \/ EntryError \/ JoinReports
  <2>1. failed' = failed
    BY <1>6 DEF StopBeforeRun, StopBeforeSetup, SessionUnwinds, CleanUp,
      EntryError, JoinReports, MainSets
  <2>2. EntryError => failed
    BY Ends DEF MainSays, Failures
  <2> QED BY <1>6, <1>4, <2>1, <2>2, Ends DEF Ending, States
<1>7. CASE EntryInterrupted
  BY <1>7, <1>3, Interrupts DEF Ending
<1> QED BY <1>1, <1>2, <1>5, <1>6, <1>7 DEF MainGoes, MainCalls, MainGoesOn

(* A step of the main thread neither wakes the command thread up nor gives *)
(* it anything to do.                                                      *)
LEMMA UnaskedByMain ==
  ASSUME TypeOK, Unasked, MainGoes \/ MainCalls
  PROVE  /\ Unasked' /\ (Idle' <=> Idle) /\ bridgeUp' = bridgeUp
         /\ pc["cmd"]' = pc["cmd"]
<1>1. pc["cmd"]' = pc["cmd"] /\ Loc("cmd")' = Loc("cmd")
  <2>1. CASE MainGoesOn
    BY <2>1, GoesOn DEF TypeOK, MainTo, MainSays
  <2>2. CASE SessionFails \/ ImportFails
    BY <2>2, Fails DEF TypeOK
  <2>3. CASE EntryInterrupted
    BY <2>3, Interrupts DEF TypeOK, MainTo
  <2>4. CASE ~(MainGoesOn \/ SessionFails \/ ImportFails \/ EntryInterrupted)
    BY <2>4, Ends
       DEF TypeOK, MainTo, MainSays, MainGoes, MainCalls, MainGoesOn
  <2> QED BY <2>1, <2>2, <2>3, <2>4
<1> QED BY <1>1, MainLeavesQueues DEF Unasked, Idle

(* Outside set_state the main thread changes no state, and the command     *)
(* thread's call is its own.                                               *)
LEMMA MainKeepsStates ==
  ASSUME TypeOK, MainGoes \/ MainCalls
  PROVE  goal'["cmd"] = goal["cmd"] /\ current' = current
<1>1. CASE MainGoesOn
  BY <1>1, GoesOn DEF TypeOK, MainTo, MainSays
<1>2. CASE SessionFails
  BY <1>2 DEF SessionFails, CallSetState, TypeOK, CallsOK, Threads
<1>3. CASE ImportFails \/ EntryInterrupted
  BY <1>3 DEF ImportFails, EntryInterrupted, Goto
<1>4. CASE ~(MainGoesOn \/ SessionFails \/ ImportFails \/ EntryInterrupted)
  BY <1>4, Ends DEF TypeOK, MainTo, MainSays, MainGoes, MainCalls, MainGoesOn
<1> QED BY <1>1, <1>2, <1>3, <1>4

LEMMA FarewellByMain ==
  ASSUME TypeOK, Failures, Farewell, Unasked, Overrules, MainGoes \/ MainCalls
  PROVE  Farewell'
<1> USE DEF TypeOK
<1>1. CASE MainGoesOn
  BY <1>1, GoesOn DEF MainTo, MainSays, Farewell, Leaving, Ending
<1>2. CASE SessionFails \/ ImportFails
  BY <1>2, Fails DEF Farewell, Leaving
<1>3. CASE \/ StopBeforeRun \/ StopBeforeSetup \/ SessionUnwinds
           \/ CleanUp \/ EntryError \/ SendError \/ Finally \/ UnloadModule
  BY <1>3, Ends DEF MainTo, MainSays, Farewell, Leaving
<1>4. CASE JoinReports
  BY <1>4, Ends DEF MainSays, Farewell, Leaving
<1>5. CASE JoinKeepsError
  <2>1. /\ failed /\ failed' = failed /\ current = "ERROR"
        /\ Loc("main") = "join" /\ UNCHANGED <<sent, bridgeUp>>
        /\ pc["cmd"]' = pc["cmd"]
    BY <1>5, Ends DEF JoinKeepsError, MainGoto, MainTo, Failures, pipe
  <2>2. ~(Overruled /\ bridgeUp)
    BY <2>1 DEF Overrules, Overruled, Cut
  <2> QED BY <2>1, <2>2 DEF Farewell, Overruled
<1>6. CASE Close
  <2>1. /\ failed' = failed /\ bridgeUp' = bridgeUp /\ reported' = reported
        /\ sent' = sent /\ pc["cmd"]' = pc["cmd"]
        /\ pc["main"] = "close" /\ Loc("main") = "close"
        /\ pc["main"]' = "done"
    BY <1>6, Ends DEF Close, MainGoto, MainTo, pipe
  <2> QED BY <2>1 DEF Farewell, Leaving, Overruled
<1>7. CASE EntryInterrupted
  BY <1>7, Interrupts DEF MainTo, Farewell, Leaving
<1> QED BY <1>1, <1>2, <1>3, <1>4, <1>5, <1>6, <1>7
        DEF MainGoes, MainCalls, MainGoesOn

LEMMA ConfessionByMain ==
  ASSUME TypeOK, Failures, Confession, Unasked, MainGoes \/ MainCalls
  PROVE  Confession'
<1> USE UnaskedByMain DEF TypeOK
<1>1. CASE MainGoesOn
  BY <1>1, GoesOn DEF MainTo, MainSays, Confession, Failures
<1>2. CASE SessionFails \/ ImportFails
  BY <1>2, Fails DEF Confession, SetSteps
<1>3. CASE StopBeforeRun \/ StopBeforeSetup
  <2>1. failed' = failed /\ ~failed
    BY <1>3, Ends DEF StopBeforeRun, StopBeforeSetup, MainSets, MainSays,
      Failures, Ending
  <2> QED BY <2>1 DEF Confession
<1>4. CASE SessionUnwinds
  BY <1>4, Ends DEF MainSays, Confession, SetSteps
<1>5. CASE CleanUp
  <2>1. failed' = failed
    BY <1>5 DEF CleanUp, MainSets
  <2> QED BY <1>5, <2>1, Ends DEF MainSays, Confession, SetSteps
<1>6. CASE SendError
  <2>1. bridgeUp => reported' = "ERROR"
    BY <1>6 DEF SendError
  <2> QED BY <1>6, <2>1, Ends DEF MainTo, Confession, SetSteps
<1>7. CASE EntryError
  <2>1. failed' = failed
    BY <1>7 DEF EntryError, MainSets
  <2> QED BY <1>7, <2>1, Ends DEF MainSays, Confession, SetSteps
<1>8. CASE Finally \/ UnloadModule \/ JoinKeepsError \/ Close
  <2>1. failed' = failed /\ reported' = reported
    BY <1>8 DEF Finally, UnloadModule, JoinKeepsError, Close, MainGoto
  <2> QED BY <1>8, <2>1, Ends DEF MainTo, Confession, SetSteps
<1>9. CASE JoinReports
  <2>1. failed' = failed /\ current # "ERROR" /\ pc["main"] = "join"
    BY <1>9 DEF JoinReports, MainSets
  <2>2. ~(failed /\ Idle)
    BY <2>1 DEF Confession
  <2> QED BY <2>1, <2>2 DEF Confession
<1>10. CASE EntryInterrupted
  BY <1>10, Interrupts DEF MainTo, Confession, Failures, Ending
<1> QED BY <1>1, <1>2, <1>3, <1>4, <1>5, <1>6, <1>7, <1>8, <1>9, <1>10
        DEF MainGoes, MainCalls, MainGoesOn

(* The main thread sets stop_event at its end alone, when ERROR was said;  *)
(* it says nothing more until the command thread is gone.                  *)
LEMMA OverrulesByMain ==
  ASSUME TypeOK, StopInForce, Failures, Overrules, Unasked,
         MainGoes \/ MainCalls
  PROVE  Overrules'
<1> USE UnaskedByMain, MainLeavesQueues DEF TypeOK
<1>a. goal'["cmd"] = goal["cmd"] /\ current' = current
  BY MainKeepsStates
<1>b. pc["cmd"] \in Cut => stopEvent \/ sent # 0
  BY DEF StopInForce, Cut, Unasked, Loc, SetSteps
<1>1. CASE MainGoesOn
  <2>1. stopEvent' = stopEvent
    BY <1>1 DEF MainGoesOn, Boot, ImportModule, EnterRun, ResetFlags, EnterSetup,
      SetupDone, LeaveWait, LoopExits, LoopFollows, NoSample, Sample,
      OperatorQuits, CommandArm, SkipCommand, SessionInterrupted
  <2>2. /\ Loc("main") \notin Ending /\ failed' = failed
        /\ Loc("main")' \notin {"unload", "join", "done"}
    BY <1>1, GoesOn DEF MainTo, MainSays, Ending
  <2> QED BY <1>a, <2>1, <2>2 DEF Overrules, Over, Ending
<1>2. CASE SessionFails \/ ImportFails
  <2>1. stopEvent' = stopEvent
    BY <1>2 DEF SessionFails, ImportFails
  <2>2. Loc("main") \notin Ending /\ Loc("main")' \in {"unwind", "raise"}
    BY <1>2, Fails
  <2> QED BY <1>a, <2>1, <2>2 DEF Overrules, Over, Ending
<1>3. CASE EntryInterrupted
  BY <1>a, <1>3, Interrupts DEF MainTo, Overrules, Failures, Ending, SetSteps
<1>4. CASE \/ StopBeforeRun \/ StopBeforeSetup \/ SessionUnwinds
           \/ CleanUp \/ EntryError
  <2>1. /\ UNCHANGED <<stopEvent, failed>>
        /\ Loc("main") \in {"check1", "check2", "unwind", "clean", "entry"}
        /\ Loc("main")' \notin {"unload", "join", "done"}
    BY <1>4, Ends DEF StopBeforeRun, StopBeforeSetup, SessionUnwinds, CleanUp,
      EntryError, MainSets, MainSays
  <2> QED BY <1>a, <2>1 DEF Overrules, Over
<1>5. CASE SendError
  <2>1. /\ failed' = failed /\ (bridgeUp => stopEvent' = stopEvent)
        /\ Loc("main") = "raise" /\ Loc("main")' = "entry"
        /\ pc["main"]' = "entry"
    BY <1>5, Ends DEF SendError, MainTo, FlagsOK
  <2> QED BY <1>a, <2>1 DEF Overrules, Over, SetSteps
<1>6. CASE Finally
  <2>1. /\ failed' = failed /\ Loc("main") = "fin"
        /\ Loc("main")' = "unload" /\ pc["main"]' = "unload"
    BY <1>6, Ends DEF Finally, MainTo
  <2>2. UNCHANGED <<sent, bridgeUp>> /\ pc["cmd"]' = pc["cmd"]
    OBVIOUS
  <2>3. sent = 0 /\ bridgeUp /\ failed => pc["cmd"] \notin Cut
    BY <1>b, <2>1 DEF Overrules, Over
  <2> QED BY <1>a, <2>1, <2>2, <2>3 DEF Overrules, Over, SetSteps
<1>7. CASE UnloadModule
  <2>1. /\ UNCHANGED <<failed, stopEvent>> /\ Loc("main") = "unload"
        /\ Loc("main")' = "join" /\ pc["main"]' = "join"
    BY <1>7, Ends DEF UnloadModule, MainTo
  <2> QED BY <1>a, <2>1 DEF Overrules, Over, SetSteps
<1>8. CASE JoinReports \/ JoinKeepsError \/ Close
  <2>1. /\ UNCHANGED <<failed, stopEvent>> /\ Loc("main") \in {"join", "close"}
        /\ \/ Loc("main")' = "close"
           \/ Loc("main")' = "done" /\ pc["main"]' = "done"
    BY <1>8, Ends DEF JoinReports, JoinKeepsError, Close, MainTo, MainSays,
      MainGoto, MainSets
  <2> QED BY <1>a, <2>1 DEF Overrules, Over, SetSteps
<1> QED BY <1>1, <1>2, <1>3, <1>4, <1>5, <1>6, <1>7, <1>8
        DEF MainGoes, MainCalls, MainGoesOn

(* The command thread outside set_state: it changes no state, and without  *)
(* a command it stays idle or goes to its stop.                            *)
LEMMA CmdSays ==
  ASSUME TypeOK, CmdGoes \/ CmdCalls, Unasked
  PROVE  /\ goal'["cmd"] \in {goal["cmd"], "STOPPING", "RUNNING", "PAUSED"}
         /\ UNCHANGED <<failed, bridgeUp, sent>>
         /\ Unasked' /\ (Idle' => Idle)
<1> USE DEF TypeOK
<1>1. CASE CmdQuiet
  <2>1. UNCHANGED <<goal, failed, bridgeUp, sent>>
    BY <1>1 DEF CmdQuiet, CmdEnd, CmdTimeout, CmdEof, CmdWait, CmdDrain,
      CmdDrained, CmdRecvStop, CmdRecvFollow, Goto, pipe
  <2>2. pc["cmd"] \in {"poll", "hand", "drain"}
    BY <1>1 DEF CmdQuiet, CmdEnd, CmdTimeout, CmdEof, CmdWait, CmdDrain,
      CmdDrained, CmdRecvStop, CmdRecvFollow
  <2>3. sent = 0 => UNCHANGED <<inbox, pending>>
    BY <1>1 DEF CmdQuiet, CmdEnd, CmdTimeout, CmdEof, CmdWait, CmdDrain,
      CmdDrained, CmdRecvStop, CmdRecvFollow, Unasked, pipe
  <2>4. pc["cmd"]' \notin SetSteps
    BY <1>1, CmdGoesFrom DEF CmdQuiet, CmdEnd, CmdTimeout, CmdEof, CmdWait,
      CmdDrain, CmdDrained, CmdRecvStop, CmdRecvFollow, CmdPlaces, SetSteps
  <2> QED BY <2>1, <2>2, <2>3, <2>4 DEF Unasked, Idle
<1>2. CASE CmdStop
  <2>1. /\ goal'["cmd"] = "STOPPING" /\ pc["cmd"] = "hand"
        /\ UNCHANGED <<failed, bridgeUp, sent, inbox, pending>>
    BY <1>2 DEF CmdStop, CallSetState, CallsOK, Threads, pipe
  <2>2. Loc("cmd")' = "reqstop"
    BY <1>2, StopStep
  <2> QED BY <2>1, <2>2 DEF Unasked, Idle
<1>3. CASE request_stop
  <2>1. UNCHANGED <<goal, failed, bridgeUp, sent, inbox, pending>>
    BY <1>3 DEF request_stop, Goto, pipe
  <2>2. pc["cmd"]' = "stopped"
    BY <1>3, CmdGoesFrom DEF request_stop, CmdPlaces
  <2> QED BY <2>1, <2>2 DEF Unasked, Idle, SetSteps
<1>4. ASSUME NEW c, NEW state \in {"RUNNING", "PAUSED"}, Drain(c, state)
      PROVE  /\ goal'["cmd"] = state /\ sent # 0
             /\ UNCHANGED <<failed, bridgeUp, sent>>
  <2>1. goal'["cmd"] = state /\ UNCHANGED <<failed, bridgeUp, sent>>
    BY <1>4 DEF Drain, CallSetState, CallsOK, Threads, pipe
  <2>2. sent # 0
    BY <1>4 DEF Drain, Unasked
  <2> QED BY <2>1, <2>2
<1>5. CASE request_start \/ request_pause \/ request_resume
  BY <1>5, <1>4 DEF request_start, request_pause, request_resume, Unasked, Idle
<1> QED BY <1>1, <1>2, <1>3, <1>5 DEF CmdGoes, CmdCalls, CmdQuiet

(* The command thread sets stop_event only for a stop it read or for a     *)
(* bridge that is gone, and calls set_state unasked only for a stop.       *)
LEMMA OverrulesByCmd ==
  ASSUME TypeOK, StopInForce, LastWords, CmdGoes \/ CmdCalls
  PROVE  Overrules'
<1>0. /\ Loc("main")' = Loc("main") /\ pc["main"]' = pc["main"]
      /\ UNCHANGED <<current, sent, bridgeUp, failed>> /\ Loc("cmd") = pc["cmd"]
  BY CmdMoves, CmdSays DEF TypeOK, LastWords
<1>1. CASE CmdQuiet
  <2>1. /\ pc["cmd"]' \in {"poll", "hand", "drain", "eof", "ended"}
        /\ pc["cmd"]' = "eof" => ~bridgeUp
    BY <1>1, CmdGoesFrom DEF TypeOK, CmdQuiet, CmdEnd, CmdTimeout, CmdEof,
      CmdWait, CmdDrain, CmdDrained, CmdRecvStop, CmdRecvFollow, CmdPlaces
  <2>2. sent = 0 /\ bridgeUp => stopEvent' = stopEvent
    BY <1>1 DEF CmdQuiet, CmdEnd, CmdTimeout, CmdEof, CmdWait, CmdDrain,
      CmdDrained, CmdRecvStop, CmdRecvFollow, LastWords, Unasked
  <2> QED BY <1>0, <2>1, <2>2 DEF LastWords, Overrules, Cut
<1>2. CASE CmdStop
  <2>1. /\ goal'["cmd"] = "STOPPING" /\ pc["cmd"]' = "assign"
        /\ stopEvent' = stopEvent
    BY <1>2 DEF CmdStop, CallSetState, TypeOK, CallsOK, Threads
  <2> QED BY <1>0, <2>1 DEF LastWords, Overrules, Cut
<1>3. CASE request_stop
  <2>1. pc["cmd"] = "reqstop" /\ pc["cmd"]' = "stopped" /\ stopEvent' = stopEvent
    BY <1>3, CmdGoesFrom DEF request_stop, CmdPlaces, TypeOK
  <2> QED BY <1>0, <2>1 DEF LastWords, Overrules, Cut
<1>4. CASE request_start \/ request_pause \/ request_resume
  <2>1. sent # 0
    BY <1>4 DEF request_start, request_pause, request_resume, Drain, LastWords,
      Unasked
  <2> QED BY <1>0, <2>1 DEF LastWords, Overrules
<1> QED BY <1>1, <1>2, <1>3, <1>4 DEF CmdGoes, CmdCalls, CmdQuiet

LEMMA LastWordsByCmd ==
  ASSUME TypeOK, StopInForce, Phases, LastWords, CmdGoes \/ CmdCalls
  PROVE  LastWords'
<1>1. /\ Loc("main")' = Loc("main") /\ pc["main"]' = pc["main"]
      /\ UNCHANGED <<current, reported, msg>> /\ goal'["main"] = goal["main"]
  BY CmdMoves DEF TypeOK
<1>2. /\ goal'["cmd"] \in {goal["cmd"], "STOPPING", "RUNNING", "PAUSED"}
      /\ UNCHANGED <<failed, bridgeUp, sent>>
      /\ Unasked' /\ (Idle' => Idle)
  BY CmdSays DEF LastWords
<1>3. Failures'
  BY <1>1, <1>2 DEF LastWords, Failures, Threads
<1>4. Farewell'
  <2>1. Loc("main") \notin Leaving
    BY CmdMoves DEF TypeOK, Phases, CmdDone
  <2> QED BY <1>1, <2>1 DEF Farewell
<1>5. Confession'
  BY <1>1, <1>2 DEF LastWords, Confession
<1> QED BY <1>2, <1>3, <1>4, <1>5, OverrulesByCmd DEF LastWords

(* The steps of set_state.  Those of the command thread do not disturb     *)
(* what the main thread says at the end: it is gone, or was not idle.      *)
LEMMA LastWordsBySet ==
  ASSUME TypeOK, Phases, LastWords, NEW t \in Threads, SetState(t)
  PROVE  LastWords'
<1>1. /\ Loc("main")' = Loc("main") /\ Loc("cmd")' = Loc("cmd")
      /\ \A u \in Threads \ {t} : pc'[u] = pc[u]
      /\ pc[t] \in SetSteps /\ goal' = goal
  BY SetStatePlace DEF TypeOK, Threads
<1>2. UNCHANGED <<failed, inbox, sent, bridgeUp, pending>>
  BY DEF SetState, AssignState, ReadState, SendState, pipe
<1>3. /\ pc[t] = "assign" => /\ pc'[t] = "read" /\ current' = goal[t]
                             /\ UNCHANGED <<msg, reported>>
      /\ pc[t] = "read" => /\ pc'[t] = "send" /\ msg'[t] = current
                           /\ \A u \in Threads \ {t} : msg'[u] = msg[u]
                           /\ UNCHANGED <<current, reported>>
      /\ pc[t] = "send" => /\ pc'[t] = Loc(t) /\ UNCHANGED <<current, msg>>
                           /\ reported' = IF bridgeUp THEN msg[t] ELSE reported
  BY DEF TypeOK, CallsOK, SetState, AssignState, ReadState, SendState, Goto,
    Loc, SetSteps
<1>4. Failures'
  <2>1. ~failed => current' # "ERROR"
    BY <1>1, <1>3 DEF LastWords, Failures, SetSteps
  <2>2. ~failed => \A u \in Threads : msg'[u] # "ERROR"
    BY <1>1, <1>3 DEF LastWords, Failures, SetSteps
  <2> QED BY <1>1, <1>2, <2>1, <2>2 DEF LastWords, Failures
<1>5. Unasked' /\ (Idle' => Idle)
  <2>1. CASE t = "main"
    BY <1>1, <1>2, <2>1 DEF LastWords, Unasked, Idle, Threads
  <2>2. CASE t = "cmd"
    BY <1>1, <1>2, <1>3, <2>2 DEF LastWords, Unasked, Idle, SetSteps
  <2> QED BY <2>1, <2>2 DEF Threads
<1>6. CASE t = "cmd"
  <2>1. pc["main"]' = pc["main"] /\ pc["cmd"] \in SetSteps
    BY <1>1, <1>6 DEF Threads
  <2>2. Loc("main") \notin Leaving
    BY <2>1 DEF Phases, CmdDone, SetSteps
  <2>3. Farewell'
    BY <1>1, <2>2 DEF Farewell
  <2>4. ~Idle
    BY <2>1 DEF Idle, SetSteps
  <2>5. Confession'
    BY <1>5, <2>4 DEF Confession
  <2>6. Overrules'
    <3>1. CASE sent = 0 /\ bridgeUp
      <4>1. stopEvent' = stopEvent
        BY <3>1 DEF SetState, AssignState, ReadState, SendState, TypeOK, FlagsOK
      <4>2. /\ pc["cmd"] = "assign" => current' = "STOPPING"
            /\ pc["cmd"] # "assign" => current' = current
        BY <1>1, <1>3, <1>6, <3>1 DEF LastWords, Overrules, SetSteps
      <4>3. pc["cmd"]' # "assign" /\ (pc["cmd"] = "assign" \/ pc["cmd"] \in Cut)
        BY <1>1, <1>3, <1>6 DEF SetSteps, Cut, TypeOK, CallsOK, CmdPlaces, Loc
      <4>4. pc["cmd"]' # "eof"
        BY <1>1, <1>3, <1>6, <3>1 DEF LastWords, Unasked, SetSteps
      <4> QED BY <1>1, <1>2, <2>1, <4>1, <4>2, <4>3, <4>4
              DEF LastWords, Overrules, Cut
    <3>2. CASE ~(sent = 0 /\ bridgeUp)
      BY <1>1, <1>2, <2>1, <3>2 DEF LastWords, Overrules
    <3> QED BY <3>1, <3>2
  <2> QED BY <1>4, <1>5, <2>3, <2>5, <2>6 DEF LastWords
<1>7. CASE t = "main"
  <2>0. pc["cmd"]' = pc["cmd"]
    BY <1>1, <1>7 DEF Threads
  <2>1. Farewell'
    BY <1>1, <1>2, <1>3, <1>7, <2>0
       DEF LastWords, Farewell, Overruled, SetSteps, Leaving
  <2>2. Confession'
    <3> SUFFICES ASSUME failed, Idle PROVE Confession'
      BY <1>2, <1>5 DEF Confession
    <3>1. Loc("main") \in {"unwind", "clean", "raise", "fin"}
      BY <1>1, <1>7 DEF LastWords, Confession
    <3>2. CASE pc["main"] = "assign"
      BY <1>1, <1>2, <1>3, <1>7, <3>1, <3>2
         DEF LastWords, Confession, SetSteps
    <3>3. CASE pc["main"] = "read"
      BY <1>1, <1>2, <1>3, <1>7, <3>1, <3>3
         DEF LastWords, Confession, SetSteps
    <3>4. CASE pc["main"] = "send"
      <4>1. /\ pc'["main"] = Loc("main") /\ Loc("main")' = Loc("main")
            /\ current' = current
            /\ reported' = IF bridgeUp THEN msg["main"] ELSE reported
        BY <1>1, <1>3, <1>7, <3>4
      <4>2. CASE Loc("main") = "fin"
        <5>1. /\ msg["main"] = "ERROR" /\ current = "ERROR"
              /\ bridgeUp => reported = "ERROR"
          BY <3>4, <4>2 DEF LastWords, Confession
        <5> QED BY <1>2, <4>1, <4>2, <5>1 DEF Confession, SetSteps
      <4>3. CASE Loc("main") # "fin"
        BY <3>1, <4>1, <4>3 DEF Confession, SetSteps
      <4> QED BY <4>2, <4>3
    <3> QED BY <1>1, <1>7, <3>2, <3>3, <3>4 DEF SetSteps
  <2>3. Overrules'
    <3>1. Loc("main") \notin {"unload", "join", "done"}
      BY <1>1, <1>7 DEF LastWords, Overrules
    <3>2. sent = 0 /\ bridgeUp => stopEvent' = stopEvent
      BY DEF SetState, AssignState, ReadState, SendState, TypeOK, FlagsOK
    <3> QED BY <1>1, <1>2, <2>0, <3>1, <3>2 DEF LastWords, Overrules
  <2> QED BY <1>4, <1>5, <2>1, <2>2, <2>3 DEF LastWords
<1> QED BY <1>6, <1>7 DEF Threads

LEMMA LastWordsStep ==
  TypeOK /\ StopInForce /\ Phases /\ LastWords /\ [Next]_vars => LastWords'
<1> SUFFICES ASSUME TypeOK, StopInForce, Phases, LastWords, [Next]_vars
             PROVE  LastWords'
  OBVIOUS
<1>1. CASE \E c \in Commands : BridgeSends(c)
  <2>1. /\ UNCHANGED <<pc, goal, msg, after, current, reported, failed,
                       bridgeUp, stopEvent>>
        /\ sent' # 0
    BY <1>1 DEF BridgeSends, calls, TypeOK, QueuesOK
  <2>2. Overrules' /\ Farewell'
    BY <2>1 DEF LastWords, Overrules, Farewell, Overruled, Loc
  <2> QED BY <2>1, <2>2 DEF LastWords, Failures, Unasked, Idle, Confession, Loc
<1>2. CASE BridgeDies \/ UNCHANGED vars
  <2>1. /\ UNCHANGED <<pc, goal, msg, after, current, reported, failed, inbox,
                       pending, sent, stopEvent>>
        /\ bridgeUp' => bridgeUp
    BY <1>2 DEF BridgeDies, calls, vars
  <2>2. Overrules' /\ Farewell'
    BY <2>1 DEF LastWords, Overrules, Farewell, Overruled, Loc
  <2> QED BY <2>1, <2>2 DEF LastWords, Failures, Unasked, Idle, Confession, Loc
<1>3. CASE MainGoes \/ MainCalls
  BY <1>3, FailuresByMain, FarewellByMain, UnaskedByMain, ConfessionByMain,
     OverrulesByMain DEF LastWords
<1> QED BY <1>1, <1>2, <1>3, LastWordsByCmd, LastWordsBySet, NextCases

(* What the bridge reads last is STOPPED of a session that has not failed; *)
(* of one that has, with no command sent, it is STOPPED if the command     *)
(* thread applied the stop of the finally, and ERROR if it did not         *)
(* (set_state, command_loop and the finally of _control_process_entry).    *)
THEOREM LastReportIsTrue == Spec => []LastReport
<1>1. Init => StopInForce /\ Phases /\ LastWords
  BY DEF Init, Phases, BeforeUp, WhileUp, Leaving, Loc, Threads, SetSteps,
    LastWords, Failures, Farewell, Unasked, Idle, Confession, Ending, Overrules,
    Cut, StopInForce
<1>2. TypeOK /\ Phases /\ LastWords => LastReport
  <2> SUFFICES ASSUME TypeOK, Phases, LastWords, pc["main"] = "done", bridgeUp
               PROVE  /\ ~failed => reported = "STOPPED"
                      /\ failed /\ sent = 0 =>
                            reported = IF pc["cmd"] = "stopped" THEN "STOPPED"
                                                              ELSE "ERROR"
    BY DEF LastReport
  <2>1. Loc("main") = "done"
    BY DEF Loc, SetSteps
  <2>2. ~failed \/ Overruled => reported = "STOPPED"
    BY <2>1 DEF LastWords, Farewell, Leaving
  <2>3. sent = 0 => pc["cmd"] \in {"stopped", "ended"}
    BY <2>1 DEF Phases, CmdDone, Leaving, LastWords, Overrules
  <2>4. failed /\ sent = 0 /\ pc["cmd"] = "ended" => reported = "ERROR"
    BY <2>1 DEF LastWords, Confession, Idle
  <2> QED BY <2>2, <2>3, <2>4 DEF Overruled
<1> QED BY <1>1, <1>2, StopInForceStep, PhasesStep, LastWordsStep, TypeCorrect,
           PTL DEF Spec

-----------------------------------------------------------------------------
(* What the safety half of StopEndsProcess and StartNotDropped comes to:   *)
(* the command that was read is kept.                                      *)
Waiting(c, queue) == \E i \in DOMAIN queue : queue[i] = c

LEMMA WaitsBehindHead ==
  ASSUME NEW S, NEW s \in Seq(S), s # <<>>, NEW c, Waiting(c, s), Head(s) # c
  PROVE  Waiting(c, Tail(s))
<1>1. PICK i \in 1 .. Len(s) : s[i] = c
  BY DEF Waiting
<1>2. i # 1 /\ Head(s) = s[1]
  BY <1>1
<1>3. Len(s) \in Nat /\ i - 1 \in 1 .. Len(s) - 1 /\ (i - 1) + 1 = i
  BY <1>1, <1>2
<1>4. Len(Tail(s)) = Len(s) - 1 /\ Tail(s)[i - 1] = s[i]
  BY <1>3
<1>5. i - 1 \in DOMAIN Tail(s)
  BY <1>3, <1>4, QueueTakes
<1> QED BY <1>1, <1>4, <1>5 DEF Waiting

LEMMA WaitsInLine ==
  ASSUME NEW S, NEW s \in Seq(S), NEW e \in S
  PROVE  /\ Waiting(e, Append(s, e))
         /\ \A c : Waiting(c, s) => Waiting(c, Append(s, e))
<1>1. Append(s, e)[Len(s) + 1] = e /\ Len(s) + 1 \in DOMAIN Append(s, e)
  OBVIOUS
<1>2. \A i \in DOMAIN s : Append(s, e)[i] = s[i] /\ i \in DOMAIN Append(s, e)
  OBVIOUS
<1> QED BY <1>1, <1>2 DEF Waiting

LEMMA InboxLine ==
  ASSUME QueuesOK
  PROVE  /\ \A c, e \in Commands : Waiting(c, inbox) => Waiting(c, Append(inbox, e))
         /\ \A c \in Commands : inbox # <<>> /\ Waiting(c, inbox) /\ Head(inbox) # c
                                 => Waiting(c, Tail(inbox))
<1>1. inbox \in Seq(Commands)
  BY DEF QueuesOK
<1>2. \A c, e \in Commands : Waiting(c, inbox) => Waiting(c, Append(inbox, e))
  BY <1>1, WaitsInLine
<1>3. ASSUME NEW c \in Commands, inbox # <<>>, Waiting(c, inbox), Head(inbox) # c
      PROVE  Waiting(c, Tail(inbox))
  BY <1>1, <1>3, WaitsBehindHead
<1> QED BY <1>2, <1>3

LEMMA PendingLine ==
  ASSUME QueuesOK
  PROVE  /\ \A c \in FollowCommands :
              /\ Waiting(c, Append(pending, c))
              /\ Waiting("start", pending) => Waiting("start", Append(pending, c))
         /\ pending # <<>> /\ Waiting("start", pending) /\ Head(pending) # "start"
              => Waiting("start", Tail(pending))
<1>1. pending \in Seq(FollowCommands)
  BY DEF QueuesOK
<1>2. ASSUME NEW c \in FollowCommands
      PROVE  /\ Waiting(c, Append(pending, c))
             /\ Waiting("start", pending) => Waiting("start", Append(pending, c))
  BY <1>1, WaitsInLine
<1>3. ASSUME pending # <<>>, Waiting("start", pending), Head(pending) # "start"
      PROVE  Waiting("start", Tail(pending))
  BY <1>1, <1>3, WaitsBehindHead
<1> QED BY <1>2, <1>3

(* A stop of the process is not taken back by the main thread.             *)
LEMMA MainKeepsStop ==
  ASSUME CallsOK, MainGoes \/ MainCalls, stopEvent
  PROVE  stopEvent'
<1>1. MainQuiet \/ MainActive
  BY DEF MainGoes, MainCalls, MainQuiet, MainActive
<1>2. CASE MainQuiet
  BY <1>2, MainQuietStep
<1>3. CASE MainActive
  BY <1>3 DEF MainActive, ResetFlags, EnterSetup, SetupDone, LeaveWait,
    LoopFollows, NoSample, Sample, OperatorQuits, CommandArm, SkipCommand
<1> QED BY <1>1, <1>2, <1>3

(* No command is lost on its way through the process: a stop leaves the    *)
(* pipe for stop_event, which nothing clears, any other command leaves it  *)
(* for pending_commands, and a start leaves these only when it is applied  *)
(* or a stop takes its place (command_loop, apply_command).                *)
KeepsAll ==
    /\ Waiting("stop", inbox) => Waiting("stop", inbox') \/ stopEvent'
    /\ \A c \in FollowCommands :
         Waiting(c, inbox) => Waiting(c, inbox') \/ Waiting(c, pending')
    /\ Waiting("start", pending)
         => Waiting("start", pending') \/ followed' \/ stopEvent'
    /\ stopEvent => stopEvent'
CommandsKept == [][KeepsAll]_vars

(* No command is lost between the pipe and the session: CommandsKept holds  *)
(* of every step (command_loop and what it does after the set-up).         *)
THEOREM CommandsAreKept == Spec => CommandsKept
<1>1. ASSUME TypeOK, [Next]_vars PROVE KeepsAll
  <2>0. CallsOK /\ QueuesOK
    BY <1>1 DEF TypeOK
  <2>a. /\ "stop" \in Commands /\ "start" \in FollowCommands
        /\ FollowCommands \subseteq Commands /\ "stop" \notin FollowCommands
    BY DEF Commands, FollowCommands
  <2>1. CASE \E c \in Commands : BridgeSends(c)
    <3>1. PICK c \in Commands : inbox' = Append(inbox, c)
      BY <2>1 DEF BridgeSends
    <3>2. UNCHANGED <<pending, stopEvent>>
      BY <2>1 DEF BridgeSends
    <3>3. \A d \in Commands : Waiting(d, inbox) => Waiting(d, inbox')
      BY <2>0, <3>1, InboxLine
    <3> QED BY <2>a, <3>2, <3>3 DEF KeepsAll
  <2>2. CASE CmdRecvStop
    <3>1. inbox # <<>> /\ Head(inbox) = "stop" /\ inbox' = Tail(inbox)
      BY <2>2 DEF CmdRecvStop
    <3>2. \A c \in FollowCommands : Waiting(c, inbox) => Waiting(c, inbox')
      BY <2>0, <2>a, <3>1, InboxLine
    <3>3. stopEvent'
      BY <2>2 DEF CmdRecvStop
    <3> QED BY <3>2, <3>3 DEF KeepsAll
  <2>3. CASE CmdRecvFollow
    <3>1. /\ inbox # <<>> /\ Head(inbox) \in FollowCommands
          /\ inbox' = Tail(inbox) /\ pending' = Append(pending, Head(inbox))
          /\ stopEvent' = stopEvent
      BY <2>3 DEF CmdRecvFollow
    <3>2. \A c \in Commands : Waiting(c, inbox)
                                 => Waiting(c, inbox') \/ c = Head(inbox)
      BY <2>0, <3>1, InboxLine
    <3>3. /\ Waiting(Head(inbox), pending')
          /\ Waiting("start", pending) => Waiting("start", pending')
      BY <2>0, <3>1, PendingLine
    <3> QED BY <2>a, <3>1, <3>2, <3>3 DEF KeepsAll
  <2>4. ASSUME NEW c \in FollowCommands, NEW state, Drain(c, state),
               c = "start" => followed'
        PROVE  KeepsAll
    <3>1. /\ pending # <<>> /\ Head(pending) = c /\ pending' = Tail(pending)
          /\ UNCHANGED <<stopEvent, inbox>>
      BY <2>4 DEF Drain, pipe
    <3>2. c # "start" => (Waiting("start", pending) => Waiting("start", pending'))
      BY <2>0, <3>1, PendingLine
    <3> QED BY <2>4, <3>1, <3>2 DEF KeepsAll
  <2>5. CASE request_start \/ request_pause \/ request_resume
    <3>1. CASE request_start
      BY <3>1, <2>4 DEF request_start, FollowCommands
    <3>2. CASE request_pause
      BY <3>2, <2>4 DEF request_pause, FollowCommands
    <3>3. CASE request_resume
      BY <3>3, <2>4 DEF request_resume, FollowCommands
    <3> QED BY <2>5, <3>1, <3>2, <3>3
  <2>6. CASE \/ CmdEnd \/ CmdTimeout \/ CmdEof \/ CmdWait \/ CmdDrain
             \/ CmdDrained \/ request_stop \/ CmdStop
    <3>1. UNCHANGED <<inbox, pending>> /\ (stopEvent => stopEvent')
      BY <2>6 DEF CmdEnd, CmdTimeout, CmdEof, CmdWait, CmdDrain, CmdDrained,
        request_stop, CmdStop, pipe
    <3> QED BY <3>1 DEF KeepsAll
  <2>7. CASE MainGoes \/ MainCalls
    <3>1. UNCHANGED <<inbox, pending>>
      BY <2>7, MainLeavesQueues
    <3>2. stopEvent => stopEvent'
      BY <2>0, <2>7, MainKeepsStop
    <3> QED BY <3>1, <3>2 DEF KeepsAll
  <2>8. CASE \E t \in Threads : SetState(t)
    <3>1. PICK t \in Threads : AssignState(t) \/ ReadState(t) \/ SendState(t)
      BY <2>8 DEF SetState
    <3>2. UNCHANGED <<inbox, pending>>
      BY <3>1 DEF AssignState, ReadState, SendState, pipe
    <3>3. UNCHANGED stopEvent \/ stopEvent' = (stopEvent \/ ~bridgeUp)
      BY <3>1 DEF AssignState, ReadState, SendState
    <3>4. stopEvent => stopEvent'
      BY <3>3
    <3> QED BY <3>2, <3>4 DEF KeepsAll
  <2>9. CASE BridgeDies \/ UNCHANGED vars
    <3>1. UNCHANGED <<inbox, pending, stopEvent>>
      BY <2>9 DEF BridgeDies, vars
    <3> QED BY <3>1 DEF KeepsAll
  <2>10. CASE CmdGoes \/ CmdCalls
    BY <2>2, <2>3, <2>5, <2>6, <2>10 DEF CmdGoes, CmdCalls
  <2> QED BY <1>1, <2>1, <2>7, <2>8, <2>9, <2>10, NextCases
<1> QED BY <1>1, TypeCorrect, PTL DEF Spec, CommandsKept
=============================================================================
