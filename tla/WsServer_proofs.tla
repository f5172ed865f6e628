-------------------------- MODULE WsServer_proofs --------------------------
(***************************************************************************)
(* What TLAPS proves of WsServer, for any set of clients, any of the two   *)
(* streams and any number of frames, control messages and requests: the    *)
(* types; that a stream never goes back; that control messages are not     *)
(* crowded out; and that at most one frame comes late.                     *)
(***************************************************************************)
EXTENDS WsServer, TLAPS

(* The numbers on the bus are spent from the bound, and what the histories *)
(* may be.                                                                 *)
Budgeted ==
    /\ budget \in [frames : Nat, control : Nat, requests : Nat]
    /\ \A ch \in Channels : seq[ch] <= MaxFrames - budget.frames

HistoryOK ==
    /\ seen \in [Clients -> [Channels -> Frames]]
    /\ crowd \in [Clients -> 0..3]
    /\ late \in [Clients -> [Channels -> 0..3]]

TypesOK == TypeOK /\ Budgeted /\ HistoryOK

(* A connection not yet accepted has nothing; one that is up is among the  *)
(* clients, and its sender is at work.                                     *)
Connected(c) ==
    /\ link[c] = "new" => /\ c \notin clients /\ alive[c]
                          /\ sender[c] = "pick" /\ handler[c] = "read"
                          /\ queued[c] = 0 /\ slot[c] = NoFrames
                          /\ seen[c] = NoFrames /\ crowd[c] = 0
                          /\ late[c] = NoFrames
                          /\ enabled[c] = [ch \in Channels |-> TRUE]
    /\ link[c] = "up" => alive[c] /\ c \in clients
    /\ sender[c] = "ended" => link[c] \in {"down", "gone"}

Connections == \A c \in Clients : Connected(c)

(* What a sender may hold, by where it is.                                 *)
HoldsOf(c) ==
    /\ sender[c] \in {"pick", "send"} => taken[c] = NoFrames
    /\ sender[c] \in {"pick", "wait"} => out[c] = "none"

Holds == \A c \in Clients : HoldsOf(c)

(* A frame that went before a control message is the last to do so: the    *)
(* sender goes to its queues next, and there is one.                       *)
ControlNextOf(c) ==
    /\ crowd[c] \in {0, 1}
    /\ crowd[c] = 1 => \/ sender[c] = "pick" /\ queued[c] > 0
                       \/ sender[c] = "send" /\ out[c] = "control"
                       \/ sender[c] = "ended"

ControlNext == \A c \in Clients : ControlNextOf(c)

(* With the stream off, one of: the late frame was sent, is being sent,    *)
(* has been taken, or was put back into the queue.                         *)
Gate(c, ch) == streaming[ch] /\ enabled[c][ch]

OneLateOf(c, ch) ==
    /\ late[c][ch] \in {0, 1}
    /\ Gate(c, ch) => late[c][ch] = 0
    /\ ~Gate(c, ch) /\ link[c] = "up" =>
          /\ out[c] = ch => late[c][ch] = 0
          /\ taken[c][ch] # 0 => late[c][ch] = 0
          /\ slot[c][ch] # 0 => /\ late[c][ch] = 0 /\ out[c] # ch
                                /\ taken[c][ch] = 0

OneLate == \A c \in Clients, ch \in Channels : OneLateOf(c, ch)

(* On its way to a client a stream is in order, and nothing on the way is  *)
(* newer than what the event loop keeps to send again, or, if that was     *)
(* forgotten, than what it has seen on the bus.                            *)
BusInOrder ==
    \A ch \in Channels : /\ bus[ch] \in {0, seq[ch]}
                         /\ last[ch] <= streamed[ch]
                         /\ streamed[ch] <= seq[ch]

Behind(f, ch) == f <= streamed[ch] /\ (last[ch] # 0 => f <= last[ch])

WayInOrderOf(c, ch) ==
    /\ Behind(seen[c][ch], ch) /\ Behind(slot[c][ch], ch)
    /\ Behind(taken[c][ch], ch)
    /\ slot[c][ch] # 0 => /\ seen[c][ch] <= slot[c][ch]
                          /\ taken[c][ch] <= slot[c][ch]
    /\ taken[c][ch] # 0 => seen[c][ch] <= taken[c][ch]
    /\ out[c] = ch => /\ seen[c][ch] <= outFrame[c]
                      /\ Behind(outFrame[c], ch)
                      /\ slot[c][ch] # 0 => outFrame[c] <= slot[c][ch]

WayInOrder == \A c \in Clients, ch \in Channels : WayInOrderOf(c, ch)

-----------------------------------------------------------------------------
(* Lemmas about the operators.                                             *)
LEMMA ChannelFacts ==
  /\ Channels \subseteq {"vr", "robot"}
  /\ "control" \notin Channels /\ "none" \notin Channels
  /\ 0 \in Frames /\ Frames \subseteq Nat
  /\ NoFrames \in [Channels -> Frames]
  /\ \A ch \in Channels : NoFrames[ch] = 0
  BY WsAssumption DEF WsAssumption, Frames, NoFrames

(* What goes first, from the queues and from what the getters have taken.  *)
LEMMA FirstOfQueues ==
  ASSUME ClientsOK, NEW c \in Clients,
         NEW first, first = First(queued[c] > 0, slot[c])
  PROVE  /\ first \in Channels \cup {"control", "none"}
         /\ first = "control" <=> queued[c] > 0
         /\ first \in Channels => slot[c][first] # 0
  BY ChannelFacts DEF First

LEMMA FirstOfTaken ==
  ASSUME SendersOK, NEW c \in Clients,
         NEW first, first = First(takenCtl[c], taken[c])
  PROVE  /\ first \in Channels \cup {"control", "none"}
         /\ first = "control" <=> takenCtl[c]
         /\ first \in Channels => taken[c][first] # 0
  BY ChannelFacts DEF First, SendersOK

LEMMA ControlQueued ==
  ASSUME ClientsOK, NEW to, QueueControl(to)
  PROVE  queued' \in [Clients -> 0..QueueSize]
<1>1. ASSUME NEW c \in Clients
      PROVE  Least(queued[c] + 1, QueueSize) \in 0..QueueSize
  BY WsAssumption DEF ClientsOK, Least
<1> QED BY <1>1 DEF ClientsOK, QueueControl

LEMMA LatestQueued ==
  ASSUME ClientsOK, NEW ch \in Channels, NEW frame \in Frames,
         QueueLatest(ch, frame)
  PROVE  slot' \in [Clients -> [Channels -> Frames]]
  BY DEF ClientsOK, QueueLatest

LEMMA GatedHistory ==
  ASSUME HistoryOK, GateHistory
  PROVE  HistoryOK'
<1>1. late' \in [Clients -> [Channels -> 0..3]]
  BY DEF HistoryOK, GateHistory
<1> QED BY <1>1 DEF HistoryOK, GateHistory

-----------------------------------------------------------------------------
(* The types.                                                              *)
LEMMA InitTyped == Init => TypesOK
<1> SUFFICES ASSUME Init PROVE TypesOK
  OBVIOUS
<1>1. BusOK
  BY ChannelFacts DEF Init, BusOK
<1>4. Budgeted
  <2>1. budget \in [frames : Nat, control : Nat, requests : Nat]
        /\ budget.frames = MaxFrames
    BY WsAssumption DEF Init
  <2>2. \A ch \in Channels : seq[ch] = 0
    BY ChannelFacts DEF Init
  <2> QED BY <2>1, <2>2, WsAssumption DEF Budgeted
<1>2. ClientsOK
  BY WsAssumption, ChannelFacts DEF Init, ClientsOK
<1>3. SendersOK /\ HistoryOK
  BY ChannelFacts DEF Init, SendersOK, HistoryOK, NoFrames
<1> QED BY <1>1, <1>2, <1>3, <1>4 DEF TypesOK, TypeOK

LEMMA BusStep == TypesOK /\ [Next]_vars => BusOK' /\ Budgeted'
<1> SUFFICES ASSUME TypesOK, [Next]_vars PROVE BusOK' /\ Budgeted'
  OBVIOUS
<1> USE DEF TypesOK, TypeOK, BusOK, Budgeted, bridge, gates
<1>1. ASSUME NEW ch \in Channels, Publish(ch)
      PROVE  BusOK' /\ Budgeted'
  <2>1. /\ budget' \in [frames : Nat, control : Nat, requests : Nat]
        /\ budget'.frames = budget.frames - 1 /\ budget.frames \in Nat
    BY <1>1 DEF Publish
  <2>2. seq[ch] + 1 \in Frames
    BY <1>1, <2>1, WsAssumption DEF Publish, Frames
  <2>3. seq' \in [Channels -> Frames] /\ bus' \in [Channels -> Frames]
    BY <1>1, <2>2 DEF Publish
  <2>4. \A d \in Channels : seq'[d] <= MaxFrames - budget'.frames
    BY <1>1, <2>1, ChannelFacts, WsAssumption DEF Publish, Frames
  <2> QED BY <1>1, <2>1, <2>3, <2>4 DEF Publish
<1>2. CASE clear_channel
  BY <1>2, ChannelFacts DEF clear_channel
<1>3. CASE \/ \E ch \in Channels : SkipInvalid(ch)
           \/ broadcast_vr_input \/ broadcast_robot_stream
  BY <1>3 DEF SkipInvalid, broadcast_vr_input, broadcast_robot_stream, NextFrame
<1>4. CASE Broadcast
  BY <1>4 DEF Broadcast
<1>5. ASSUME NEW c \in Clients, NEW on \in BOOLEAN,
             \/ TeleopCall(c, on)
             \/ \E ch \in Channels : Subscribe(c, ch, on)
      PROVE  BusOK' /\ Budgeted'
  BY <1>5 DEF TeleopCall, Subscribe
<1>6. ASSUME NEW c \in Clients,
             \/ Connect(c) \/ CloseClient(c) \/ Lost(c) \/ Respond(c)
             \/ HandlerEnds(c)
      PROVE  BusOK' /\ Budgeted'
  BY <1>6 DEF Connect, CloseClient, Lost, Respond, HandlerEnds
<1>7. ASSUME NEW c \in Clients, TurnOn(c) \/ TurnOff(c)
      PROVE  BusOK' /\ Budgeted'
  BY <1>7, ChannelFacts DEF TurnOn, TurnOff
<1>8. ASSUME NEW c \in Clients, SenderStep(c)
      PROVE  UNCHANGED <<seq, bus, streamed, last, lastState, streaming, budget>>
  BY <1>8 DEF SenderStep, Pick, SenderEnds, TakeControl, WakeUp, SendControl,
     SendFails, TakeFrame, SendFrame, Sent, SenderKeeps
<1>9. CASE UNCHANGED vars
  BY <1>9 DEF vars
<1> QED BY <1>1, <1>2, <1>3, <1>4, <1>5, <1>6, <1>7, <1>8, <1>9
        DEF Next, HandlerStep

LEMMA ClientsStep == TypesOK /\ [Next]_vars => ClientsOK'
<1> SUFFICES ASSUME TypesOK, [Next]_vars PROVE ClientsOK'
  OBVIOUS
<1> USE DEF TypesOK, TypeOK, ClientsOK, queues, conn, request
<1>1. CASE \E ch \in Channels : Publish(ch) \/ SkipInvalid(ch)
  BY <1>1 DEF Publish, SkipInvalid, NextFrame
<1>2. CASE clear_channel
  BY <1>2 DEF clear_channel
<1>3. CASE broadcast_vr_input
  <2>1. bus["vr"] \in Frames /\ "vr" \in Channels
    BY <1>3 DEF broadcast_vr_input, BusOK
  <2> QED BY <1>3, <2>1, LatestQueued
          DEF broadcast_vr_input, NextFrame, Listening
<1>4. CASE broadcast_robot_stream
  <2>1. bus["robot"] \in Frames /\ "robot" \in Channels
    BY <1>4 DEF broadcast_robot_stream, BusOK
  <2> QED BY <1>4, <2>1, LatestQueued, ControlQueued
          DEF broadcast_robot_stream, NextFrame, Listening
<1>5. CASE Broadcast
  BY <1>5, ControlQueued DEF Broadcast, Listening
<1>6. ASSUME NEW c \in Clients, NEW on \in BOOLEAN,
             \/ TeleopCall(c, on)
             \/ \E ch \in Channels : Subscribe(c, ch, on)
      PROVE  ClientsOK'
  <2>1. CASE TeleopCall(c, on)
    BY <2>1 DEF TeleopCall
  <2>2. ASSUME NEW ch \in Channels, Subscribe(c, ch, on)
        PROVE  ClientsOK'
    BY <2>2, ChannelFacts DEF Subscribe
  <2> QED BY <1>6, <2>1, <2>2
<1>7. ASSUME NEW c \in Clients, Connect(c)
      PROVE  ClientsOK'
  <2>1. slot' \in [Clients -> [Channels -> Frames]]
    BY <1>7, ChannelFacts DEF Connect, BusOK
  <2>2. queued' \in [Clients -> 0..QueueSize]
    BY <1>7, WsAssumption DEF Connect
  <2> QED BY <1>7, <2>1, <2>2 DEF Connect
<1>8. ASSUME NEW c \in Clients,
             CloseClient(c) \/ Lost(c) \/ Respond(c) \/ HandlerEnds(c)
      PROVE  ClientsOK'
  BY <1>8 DEF CloseClient, Lost, Respond, HandlerEnds
<1>9. ASSUME NEW c \in Clients, TurnOn(c)
      PROVE  ClientsOK'
  <2>1. /\ slot' \in [Clients -> [Channels -> Frames]]
        /\ queued' \in [Clients -> 0..QueueSize] /\ clients' \subseteq Clients
    BY <1>9, LatestQueued, ControlQueued DEF TurnOn, BusOK, Listening
  <2> QED BY <1>9, <2>1 DEF TurnOn
<1>10. ASSUME NEW c \in Clients, TurnOff(c)
       PROVE  ClientsOK'
  BY <1>10, ChannelFacts DEF TurnOff
<1>11. ASSUME NEW c \in Clients, SenderStep(c)
       PROVE  ClientsOK'
  <2> USE DEF SenderKeeps
  <2>1. CASE Pick(c)
    <3>1. queued' \in [Clients -> 0..QueueSize]
      <4>1. First(queued[c] > 0, slot[c]) = "control" => queued[c] > 0
        BY FirstOfQueues
      <4> QED BY <2>1, <4>1, WsAssumption DEF Pick
    <3>2. slot' \in [Clients -> [Channels -> Frames]]
      <4> DEFINE first == First(queued[c] > 0, slot[c])
      <4>1. \/ slot' = slot
            \/ first \in Channels /\ slot' = [slot EXCEPT ![c][first] = 0]
        BY <2>1 DEF Pick
      <4> HIDE DEF first
      <4>2. CASE first \in Channels /\ slot' = [slot EXCEPT ![c][first] = 0]
        BY <4>2, ChannelFacts
      <4> QED BY <4>1, <4>2
    <3> QED BY <2>1, <3>1, <3>2 DEF Pick
  <2>2. CASE TakeControl(c)
    BY <2>2, WsAssumption DEF TakeControl
  <2>3. CASE \E ch \in Channels : TakeFrame(c, ch)
    BY <2>3, ChannelFacts DEF TakeFrame
  <2>4. CASE WakeUp(c)
    BY <2>4 DEF WakeUp, requeue, SendersOK
  <2>5. CASE \/ SenderEnds(c) \/ SendControl(c) \/ SendFails(c)
             \/ \E ch \in Channels : SendFrame(c, ch)
    BY <2>5 DEF SenderEnds, SendControl, SendFails, SendFrame, Sent
  <2> QED BY <1>11, <2>1, <2>2, <2>3, <2>4, <2>5 DEF SenderStep
<1>12. CASE UNCHANGED vars
  BY <1>12 DEF vars
<1> QED BY <1>1, <1>2, <1>3, <1>4, <1>5, <1>6, <1>7, <1>8, <1>9, <1>10,
           <1>11, <1>12
        DEF Next, HandlerStep

(* What a step outside the sender of a client leaves to it.                *)
LEMMA OutsideSenders ==
  ASSUME TypesOK, [Next]_vars, ~\E c \in Clients : SenderStep(c)
  PROVE  /\ UNCHANGED <<taken, takenCtl, out, outFrame, seen, crowd>>
         /\ \/ UNCHANGED <<sender, late, streaming, enabled>>
            \/ UNCHANGED sender /\ GateHistory
            \/ /\ \E c \in Clients : HandlerEnds(c)
               /\ UNCHANGED <<late, streaming, enabled>>
<1> USE DEF sending, history, gates, SenderKeeps
<1>1. CASE \/ \E ch \in Channels : Publish(ch) \/ SkipInvalid(ch)
           \/ clear_channel \/ broadcast_vr_input \/ broadcast_robot_stream
           \/ Broadcast
  BY <1>1 DEF Publish, SkipInvalid, clear_channel, broadcast_vr_input,
     broadcast_robot_stream, Broadcast, NextFrame
<1>2. CASE \E c \in Clients, on \in BOOLEAN :
              \/ TeleopCall(c, on)
              \/ \E ch \in Channels : Subscribe(c, ch, on)
  BY <1>2 DEF TeleopCall, Subscribe, GateHistory
<1>3. CASE \E c \in Clients :
              Connect(c) \/ CloseClient(c) \/ Lost(c) \/ Respond(c)
  BY <1>3 DEF Connect, CloseClient, Lost, Respond
<1>4. CASE \E c \in Clients : HandlerEnds(c)
  BY <1>4 DEF HandlerEnds
<1>5. CASE \E c \in Clients : TurnOn(c) \/ TurnOff(c)
  BY <1>5 DEF TurnOn, TurnOff, GateHistory
<1>6. CASE UNCHANGED vars
  BY <1>6 DEF vars
<1> QED BY <1>1, <1>2, <1>3, <1>4, <1>5, <1>6 DEF Next, HandlerStep

LEMMA SendersStep == TypesOK /\ [Next]_vars => SendersOK' /\ HistoryOK'
<1> SUFFICES ASSUME TypesOK, [Next]_vars PROVE SendersOK' /\ HistoryOK'
  OBVIOUS
<1> USE DEF TypesOK, TypeOK, SendersOK, HistoryOK
<1>1. CASE ~\E c \in Clients : SenderStep(c)
  <2>1. UNCHANGED <<taken, takenCtl, out, outFrame, seen, crowd>>
    BY <1>1, OutsideSenders
  <2>2. sender' \in [Clients -> {"pick", "wait", "send", "ended"}]
    BY <1>1, OutsideSenders DEF HandlerEnds
  <2>3. late' \in [Clients -> [Channels -> 0..3]]
    <3>1. CASE GateHistory
      BY <3>1, GatedHistory
    <3>2. CASE UNCHANGED late
      BY <3>2
    <3> QED BY <1>1, <3>1, <3>2, OutsideSenders
  <2> QED BY <2>1, <2>2, <2>3
<1>2. ASSUME NEW c \in Clients, SenderStep(c)
      PROVE  SendersOK' /\ HistoryOK'
  <2>1. CASE Pick(c)
    <3> DEFINE first == First(queued[c] > 0, slot[c])
    <3>1. first \in Channels \cup {"control", "none"}
      BY FirstOfQueues
    <3>2. /\ out' = [out EXCEPT ![c] = first]
          /\ sender' = [sender EXCEPT ![c] = IF first = "none" THEN "wait"
                                             ELSE "send"]
          /\ \/ outFrame' = [outFrame EXCEPT ![c] = slot[c][first]]
                /\ first \in Channels
             \/ outFrame' = outFrame
          /\ UNCHANGED <<taken, takenCtl, history>>
      BY <2>1 DEF Pick
    <3> HIDE DEF first
    <3>3. /\ out' \in [Clients -> Channels \cup {"control", "none"}]
          /\ sender' \in [Clients -> {"pick", "wait", "send", "ended"}]
      BY <3>1, <3>2
    <3>4. outFrame' \in [Clients -> Frames]
      <4>1. first \in Channels => slot[c][first] \in Frames
        BY DEF ClientsOK
      <4> QED BY <3>2, <4>1
    <3> QED BY <3>2, <3>3, <3>4 DEF history
  <2>2. CASE TakeControl(c) \/ SenderEnds(c) \/ SendFails(c)
    BY <2>2 DEF TakeControl, SenderEnds, SendFails, history
  <2>3. CASE \E ch \in Channels : TakeFrame(c, ch)
    BY <2>3 DEF TakeFrame, ClientsOK, history
  <2>4. CASE WakeUp(c)
    <3> DEFINE first == First(takenCtl[c], taken[c])
    <3>1. first \in Channels \cup {"control", "none"}
      BY FirstOfTaken
    <3>2. /\ out' = [out EXCEPT ![c] = first]
          /\ sender' = [sender EXCEPT ![c] = "send"]
          /\ \/ outFrame' = [outFrame EXCEPT ![c] = taken[c][first]]
                /\ first \in Channels
             \/ outFrame' = [outFrame EXCEPT ![c] = @]
          /\ taken' = [taken EXCEPT ![c] = NoFrames]
          /\ takenCtl' = [takenCtl EXCEPT ![c] = FALSE]
          /\ UNCHANGED history
      BY <2>4 DEF WakeUp, requeue
    <3> HIDE DEF first
    <3>3. /\ out' \in [Clients -> Channels \cup {"control", "none"}]
          /\ sender' \in [Clients -> {"pick", "wait", "send", "ended"}]
      BY <3>1, <3>2
    <3>4. outFrame' \in [Clients -> Frames]
      <4>1. first \in Channels => taken[c][first] \in Frames
        OBVIOUS
      <4> QED BY <3>2, <4>1
    <3>5. /\ taken' \in [Clients -> [Channels -> Frames]]
          /\ takenCtl' \in [Clients -> BOOLEAN]
      BY <3>2, ChannelFacts
    <3> QED BY <3>2, <3>3, <3>4, <3>5 DEF history
  <2>5. CASE SendControl(c)
    BY <2>5, ChannelFacts DEF SendControl, Sent
  <2>6. ASSUME NEW ch \in Channels, SendFrame(c, ch)
        PROVE  SendersOK' /\ HistoryOK'
    <3>1. SendersOK'
      BY <2>6, ChannelFacts DEF SendFrame, Sent
    <3>2. \A n \in 0..3 : Least(n + 1, 3) \in 0..3
      BY DEF Least
    <3>3. seen' \in [Clients -> [Channels -> Frames]]
      BY <2>6 DEF SendFrame
    <3>4. crowd' \in [Clients -> 0..3]
      <4>1. (IF queued[c] > 0 THEN Least(crowd[c] + 1, 3) ELSE 0) \in 0..3
        <5>1. crowd[c] \in 0..3
          OBVIOUS
        <5>2. Least(crowd[c] + 1, 3) \in 0..3
          BY <3>2, <5>1
        <5> QED BY <5>2
      <4> QED BY <2>6, <4>1 DEF SendFrame
    <3>5. late' \in [Clients -> [Channels -> 0..3]]
      <4>1. (IF streaming[ch] /\ enabled[c][ch] THEN 0
             ELSE Least(late[c][ch] + 1, 3)) \in 0..3
        <5>1. late[c][ch] \in 0..3
          OBVIOUS
        <5>2. Least(late[c][ch] + 1, 3) \in 0..3
          BY <3>2, <5>1
        <5> QED BY <5>2
      <4> QED BY <2>6, <4>1 DEF SendFrame
    <3> QED BY <3>1, <3>3, <3>4, <3>5
  <2> QED BY <1>2, <2>1, <2>2, <2>3, <2>4, <2>5, <2>6 DEF SenderStep
<1> QED BY <1>1, <1>2

(* Every variable of the server and its clients keeps its type, for any     *)
(* clients and queue sizes.                                                *)
THEOREM TypeCorrect == Spec => []TypesOK
<1>1. TypesOK /\ [Next]_vars => TypesOK'
  BY BusStep, ClientsStep, SendersStep DEF TypesOK, TypeOK
<1> QED BY InitTyped, <1>1, PTL DEF Spec

-----------------------------------------------------------------------------
(* Connections and senders.                                                *)
LEMMA ConnectionsStep ==
  TypesOK /\ Connections /\ [Next]_vars => Connections'
<1> SUFFICES ASSUME TypesOK, Connections, [Next]_vars, NEW d \in Clients
             PROVE  Connected(d)'
  BY DEF Connections
<1>0. Connected(d)
  BY DEF Connections
<1> USE DEF TypesOK, TypeOK, ClientsOK, queues, conn, request, sending, history
<1>1. CASE \/ \E ch \in Channels : Publish(ch) \/ SkipInvalid(ch)
           \/ clear_channel
  BY <1>0, <1>1 DEF Publish, SkipInvalid, clear_channel, NextFrame, Connected
<1>2. CASE broadcast_vr_input \/ broadcast_robot_stream \/ Broadcast
  <2>1. /\ UNCHANGED <<link, alive, enabled, sender, handler, seen, crowd, late>>
        /\ clients' \in {clients, Listening}
        /\ queued'[d] = queued[d] \/ d \in Listening
        /\ slot'[d] = slot[d] \/ d \in Listening
    BY <1>2 DEF broadcast_vr_input, broadcast_robot_stream, Broadcast, NextFrame,
       QueueControl, QueueLatest, Subscribers
  <2> QED BY <1>0, <2>1 DEF Connected, Listening
<1>3. ASSUME NEW c \in Clients, NEW on \in BOOLEAN,
             \/ TeleopCall(c, on)
             \/ \E ch \in Channels : Subscribe(c, ch, on)
      PROVE  Connected(d)'
  <2>1. CASE TeleopCall(c, on)
    BY <1>0, <2>1 DEF TeleopCall, Connected
  <2>2. ASSUME NEW ch \in Channels, Subscribe(c, ch, on)
        PROVE  Connected(d)'
    BY <1>0, <2>2, ChannelFacts DEF Subscribe, GateHistory, Connected, NoFrames
  <2> QED BY <1>3, <2>1, <2>2
<1>4. ASSUME NEW c \in Clients, Connect(c)
      PROVE  Connected(d)'
  BY <1>0, <1>4 DEF Connect, Connected, Connections
<1>5. ASSUME NEW c \in Clients,
             CloseClient(c) \/ Lost(c) \/ Respond(c) \/ HandlerEnds(c)
      PROVE  Connected(d)'
  <2>1. CASE CloseClient(c) \/ Lost(c)
    BY <1>0, <2>1 DEF CloseClient, Lost, Connected
  <2>2. CASE Respond(c)
    BY <1>0, <2>2 DEF Respond, Connected
  <2>3. CASE HandlerEnds(c)
    BY <1>0, <2>3 DEF HandlerEnds, Connected
  <2> QED BY <1>5, <2>1, <2>2, <2>3
<1>6. ASSUME NEW c \in Clients, TurnOn(c) \/ TurnOff(c)
      PROVE  Connected(d)'
  <2>1. /\ UNCHANGED <<link, alive, enabled, sender, seen, crowd>>
        /\ clients' \in {clients, Listening}
        /\ handler'[d] \in {handler[d], "read"}
        /\ queued'[d] = queued[d] \/ d \in Listening
        /\ slot'[d] \in {slot[d], NoFrames} \/ d \in Listening
        /\ late[d] = NoFrames => late'[d] = NoFrames
    BY <1>6 DEF TurnOn, TurnOff, GateHistory, QueueControl, QueueLatest,
       Subscribers, NoFrames
  <2> QED BY <1>0, <2>1 DEF Connected, Listening
<1>7. ASSUME NEW c \in Clients, SenderStep(c)
      PROVE  Connected(d)'
  <2>1. UNCHANGED <<link, clients, alive, enabled, handler>>
    BY <1>7 DEF SenderStep, Pick, SenderEnds, TakeControl, WakeUp, SendControl,
       SendFails, TakeFrame, SendFrame, Sent, SenderKeeps
  <2>2. link[c] # "new" /\ (sender'[c] = "ended" => link[c] \in {"down", "gone"})
    <3>1. Connected(c)
      BY DEF Connections
    <3>2. CASE Pick(c)
      BY <3>1, <3>2 DEF Pick, Connected
    <3>3. CASE SenderEnds(c) \/ SendFails(c)
      BY <3>1, <3>3 DEF SenderEnds, SendFails, Connected
    <3>4. CASE TakeControl(c) \/ \E ch \in Channels : TakeFrame(c, ch)
      BY <3>1, <3>4 DEF TakeControl, TakeFrame, Connected
    <3>5. CASE \/ WakeUp(c) \/ SendControl(c)
               \/ \E ch \in Channels : SendFrame(c, ch)
      BY <3>1, <3>5 DEF WakeUp, SendControl, SendFrame, Sent, Connected,
         SendersOK
    <3> QED BY <1>7, <3>2, <3>3, <3>4, <3>5 DEF SenderStep
  <2>3. d # c => /\ sender'[d] = sender[d] /\ queued'[d] = queued[d]
                 /\ slot'[d] = slot[d] /\ seen'[d] = seen[d]
                 /\ crowd'[d] = crowd[d] /\ late'[d] = late[d]
    BY <1>7 DEF SenderStep, Pick, SenderEnds, TakeControl, WakeUp, SendControl,
       SendFails, TakeFrame, SendFrame, Sent, SenderKeeps, requeue, SendersOK,
       HistoryOK
  <2> QED BY <1>0, <2>1, <2>2, <2>3 DEF Connected
<1>8. CASE UNCHANGED vars
  BY <1>0, <1>8 DEF vars, Connected
<1> QED BY <1>1, <1>2, <1>3, <1>4, <1>5, <1>6, <1>7, <1>8
        DEF Next, HandlerStep

LEMMA HoldsStep == TypesOK /\ Holds /\ [Next]_vars => Holds'
<1> SUFFICES ASSUME TypesOK, Holds, [Next]_vars, NEW d \in Clients
             PROVE  HoldsOf(d)'
  BY DEF Holds
<1>0. HoldsOf(d)
  BY DEF Holds
<1> USE DEF TypesOK, TypeOK, SendersOK
<1>1. CASE ~\E c \in Clients : SenderStep(c)
  <2>1. /\ UNCHANGED <<taken, out>>
        /\ sender'[d] \in {sender[d], "ended"}
    BY <1>1, OutsideSenders DEF HandlerEnds
  <2> QED BY <1>0, <2>1 DEF HoldsOf
<1>2. ASSUME NEW c \in Clients, SenderStep(c), c # d
      PROVE  HoldsOf(d)'
  <2>1. UNCHANGED <<sender[d], taken[d], out[d]>>
    BY <1>2 DEF SenderStep, Pick, SenderEnds, TakeControl, WakeUp, SendControl,
       SendFails, TakeFrame, SendFrame, Sent, requeue
  <2> QED BY <1>0, <2>1 DEF HoldsOf
<1>3. CASE SenderStep(d)
  <2>1. CASE Pick(d)
    <3>1. /\ sender'[d] \in {"wait", "send"} /\ taken' = taken
          /\ sender[d] = "pick"
          /\ sender'[d] = "wait" => out'[d] = "none"
      BY <2>1 DEF Pick
    <3> QED BY <1>0, <3>1 DEF HoldsOf
  <2>2. CASE SenderEnds(d) \/ SendFails(d)
    BY <1>0, <2>2 DEF SenderEnds, SendFails, HoldsOf
  <2>3. CASE TakeControl(d) \/ \E ch \in Channels : TakeFrame(d, ch)
    BY <1>0, <2>3 DEF TakeControl, TakeFrame, HoldsOf
  <2>4. CASE WakeUp(d)
    BY <1>0, <2>4 DEF WakeUp, requeue, HoldsOf
  <2>5. CASE SendControl(d) \/ \E ch \in Channels : SendFrame(d, ch)
    BY <1>0, <2>5 DEF SendControl, SendFrame, Sent, HoldsOf
  <2> QED BY <1>3, <2>1, <2>2, <2>3, <2>4, <2>5 DEF SenderStep
<1> QED BY <1>1, <1>2, <1>3

-----------------------------------------------------------------------------
(* Only the sender of a client takes from its control queue.               *)
LEMMA ControlStays ==
  ASSUME TypesOK, Connections, [Next]_vars, NEW d \in Clients, ~SenderStep(d),
         link[d] # "new"
  PROVE  queued'[d] >= queued[d]
<1> USE DEF TypesOK, TypeOK, ClientsOK, queues
<1>1. \A to : QueueControl(to) => queued'[d] >= queued[d]
  BY WsAssumption DEF QueueControl, Least
<1>2. CASE UNCHANGED queued
  BY <1>2
<1>3. CASE \/ \E ch \in Channels : Publish(ch) \/ SkipInvalid(ch)
           \/ clear_channel \/ broadcast_vr_input
  BY <1>2, <1>3 DEF Publish, SkipInvalid, clear_channel, broadcast_vr_input
<1>4. CASE broadcast_robot_stream \/ Broadcast
  BY <1>1, <1>2, <1>4 DEF broadcast_robot_stream, Broadcast
<1>5. CASE \E c \in Clients, on \in BOOLEAN :
              \/ TeleopCall(c, on)
              \/ \E ch \in Channels : Subscribe(c, ch, on)
  BY <1>2, <1>5 DEF TeleopCall, Subscribe
<1>6. ASSUME NEW c \in Clients,
             CloseClient(c) \/ Lost(c) \/ Respond(c) \/ HandlerEnds(c)
      PROVE  queued'[d] >= queued[d]
  BY <1>2, <1>6 DEF CloseClient, Lost, Respond, HandlerEnds
<1>7. ASSUME NEW c \in Clients, Connect(c)
      PROVE  queued'[d] >= queued[d]
  BY <1>7 DEF Connect
<1>8. ASSUME NEW c \in Clients, TurnOn(c) \/ TurnOff(c)
      PROVE  queued'[d] >= queued[d]
  BY <1>1, <1>2, <1>8 DEF TurnOn, TurnOff
<1>9. ASSUME NEW c \in Clients, SenderStep(c), c # d
      PROVE  queued'[d] >= queued[d]
  BY <1>9 DEF SenderStep, Pick, SenderEnds, TakeControl, WakeUp, SendControl,
     SendFails, TakeFrame, SendFrame, Sent
<1>10. CASE UNCHANGED vars
  BY <1>2, <1>10 DEF vars
<1> QED BY <1>3, <1>4, <1>5, <1>6, <1>7, <1>8, <1>9, <1>10
        DEF Next, HandlerStep

LEMMA ControlNextStep ==
  TypesOK /\ Connections /\ Holds /\ ControlNext /\ [Next]_vars => ControlNext'
<1> SUFFICES ASSUME TypesOK, Connections, Holds, ControlNext, [Next]_vars,
                    NEW d \in Clients
             PROVE  ControlNextOf(d)'
  BY DEF ControlNext
<1>0. ControlNextOf(d) /\ Connected(d)
  BY DEF ControlNext, Connections
<1> USE DEF TypesOK, TypeOK, SendersOK
<1>1. CASE ~SenderStep(d)
  <2>1. /\ crowd'[d] = crowd[d] /\ out'[d] = out[d]
        /\ sender'[d] \in {sender[d], "ended"}
    <3>1. CASE ~\E c \in Clients : SenderStep(c)
      BY <3>1, OutsideSenders DEF HandlerEnds
    <3>2. ASSUME NEW c \in Clients, SenderStep(c), c # d
          PROVE  UNCHANGED <<crowd[d], out[d], sender[d]>>
      BY <3>2 DEF SenderStep, Pick, SenderEnds, TakeControl, WakeUp,
         SendControl, SendFails, TakeFrame, SendFrame, Sent, HistoryOK, history
    <3> QED BY <1>1, <3>1, <3>2
  <2>2. CASE link[d] = "new"
    BY <1>0, <2>1, <2>2 DEF Connected, ControlNextOf
  <2>3. CASE link[d] # "new"
    <3>1. queued'[d] >= queued[d]
      BY <1>1, <2>3, ControlStays
    <3>2. queued[d] \in Nat /\ queued'[d] \in Nat
      BY ClientsStep, WsAssumption DEF ClientsOK
    <3> QED BY <1>0, <2>1, <3>1, <3>2 DEF ControlNextOf
  <2> QED BY <2>2, <2>3
<1>2. CASE SenderStep(d)
  <2> USE DEF history
  <2>1. CASE Pick(d)
    <3> DEFINE first == First(queued[d] > 0, slot[d])
    <3>1. first = "control" <=> queued[d] > 0
      BY FirstOfQueues
    <3>2. /\ out'[d] = first /\ sender[d] = "pick" /\ crowd' = crowd
          /\ sender'[d] = IF first = "none" THEN "wait" ELSE "send"
      BY <2>1 DEF Pick
    <3> QED BY <1>0, <3>1, <3>2 DEF ControlNextOf
  <2>2. CASE SenderEnds(d) \/ SendFails(d)
    BY <1>0, <2>2 DEF SenderEnds, SendFails, ControlNextOf
  <2>3. CASE \/ TakeControl(d) \/ \E ch \in Channels : TakeFrame(d, ch)
             \/ WakeUp(d)
    BY <1>0, <2>3 DEF TakeControl, TakeFrame, WakeUp, ControlNextOf
  <2>4. CASE SendControl(d)
    BY <2>4 DEF SendControl, HistoryOK, ControlNextOf
  <2>5. ASSUME NEW ch \in Channels, SendFrame(d, ch)
        PROVE  ControlNextOf(d)'
    <3>1. crowd[d] = 0
      BY <1>0, <2>5, ChannelFacts DEF SendFrame, ControlNextOf
    <3>2. /\ crowd'[d] = IF queued[d] > 0 THEN Least(crowd[d] + 1, 3) ELSE 0
          /\ sender'[d] = "pick" /\ queued' = queued
      BY <2>5 DEF SendFrame, Sent, HistoryOK, queues
    <3>3. Least(0 + 1, 3) = 1
      BY DEF Least
    <3> QED BY <3>1, <3>2, <3>3 DEF ControlNextOf
  <2> QED BY <1>2, <2>1, <2>2, <2>3, <2>4, <2>5 DEF SenderStep
<1> QED BY <1>1, <1>2

(* However many frames there are, at most one is sent while a control      *)
(* message waits: _client_sender_loop goes back to the control queue after *)
(* each message (ws_server.py).                                            *)
THEOREM ControlGoesFirst == Spec => []ControlNotCrowdedOut
<1>1. Init => Connections /\ Holds /\ ControlNext
  BY ChannelFacts DEF Init, Connections, Connected, Holds, HoldsOf,
     ControlNext, ControlNextOf
<1>2. ControlNext => ControlNotCrowdedOut
  BY DEF ControlNext, ControlNextOf, ControlNotCrowdedOut
<1> QED BY <1>1, <1>2, TypeCorrect, ConnectionsStep, HoldsStep,
           ControlNextStep, PTL DEF Spec

-----------------------------------------------------------------------------
(* What a step outside its sender may do to a frame that waits for a       *)
(* client, to the gate of the stream and to the connection.                *)
LEMMA SlotOutside ==
  ASSUME TypesOK, Connections, [Next]_vars, NEW d \in Clients,
         NEW ch \in Channels, ~SenderStep(d)
  PROVE  \/ slot'[d][ch] = slot[d][ch]
         \/ slot'[d][ch] = 0
         \/ /\ Gate(d, ch)' /\ slot'[d][ch] = last[ch]'
            /\ \/ last' = last
               \/ last'[ch] = bus[ch] /\ bus[ch] # 0 /\ bus[ch] # streamed[ch]
<1> USE DEF TypesOK, TypeOK, BusOK, ClientsOK, queues, gates, bridge, Gate
<1>1. CASE \/ \E e \in Channels : Publish(e) \/ SkipInvalid(e)
           \/ clear_channel \/ Broadcast
  BY <1>1 DEF Publish, SkipInvalid, clear_channel, Broadcast, NextFrame
<1>2. CASE broadcast_vr_input
  BY <1>2 DEF broadcast_vr_input, NextFrame, QueueLatest, Subscribers
<1>3. CASE broadcast_robot_stream
  BY <1>3 DEF broadcast_robot_stream, NextFrame, QueueLatest, Subscribers
<1>4. ASSUME NEW c \in Clients, NEW on \in BOOLEAN,
             \/ TeleopCall(c, on)
             \/ \E e \in Channels : Subscribe(c, e, on)
      PROVE  slot'[d][ch] = slot[d][ch] \/ slot'[d][ch] = 0
  <2>1. CASE TeleopCall(c, on)
    BY <2>1 DEF TeleopCall
  <2>2. ASSUME NEW e \in Channels, Subscribe(c, e, on)
        PROVE  slot'[d][ch] = slot[d][ch] \/ slot'[d][ch] = 0
    <3>1. \/ slot' = slot
          \/ slot' = [slot EXCEPT ![c] = [slot[c] EXCEPT ![e] = 0]]
      BY <2>2 DEF Subscribe
    <3>2. slot \in [Clients -> [Channels -> Frames]]
      OBVIOUS
    <3>3. slot'[d] = slot[d] \/ slot'[d] = [slot[d] EXCEPT ![e] = 0]
      BY <3>1, <3>2
    <3>4. slot[d] \in [Channels -> Frames]
      BY <3>2
    <3> HIDE DEF TypesOK, TypeOK, ClientsOK
    <3> QED BY <3>3, <3>4
  <2> QED BY <1>4, <2>1, <2>2
<1>5. ASSUME NEW c \in Clients, Connect(c)
      PROVE  \/ slot'[d][ch] = slot[d][ch] \/ slot'[d][ch] = 0
             \/ Gate(d, ch)' /\ slot'[d][ch] = last[ch]' /\ last' = last
  <2>1. CASE c # d
    BY <1>5, <2>1 DEF Connect
  <2>2. CASE c = d
    <3>1. enabled'[d][ch] /\ last' = last /\ streaming' = streaming
      BY <1>5, <2>2 DEF Connect, Connections, Connected
    <3>2. slot'[d][ch] = IF streaming[ch] THEN last[ch] ELSE 0
      BY <1>5, <2>2 DEF Connect
    <3> QED BY <3>1, <3>2
  <2> QED BY <2>1, <2>2
<1>6. ASSUME NEW c \in Clients,
             CloseClient(c) \/ Lost(c) \/ Respond(c) \/ HandlerEnds(c)
      PROVE  slot' = slot
  BY <1>6 DEF CloseClient, Lost, Respond, HandlerEnds
<1>7. ASSUME NEW c \in Clients, TurnOn(c)
      PROVE  \/ slot'[d][ch] = slot[d][ch]
             \/ Gate(d, ch)' /\ slot'[d][ch] = last[ch]' /\ last' = last
  BY <1>7 DEF TurnOn, QueueLatest, Subscribers
<1>8. ASSUME NEW c \in Clients, TurnOff(c)
      PROVE  slot'[d][ch] = slot[d][ch] \/ slot'[d][ch] = 0
  BY <1>8, ChannelFacts DEF TurnOff
<1>9. ASSUME NEW c \in Clients, SenderStep(c), c # d
      PROVE  slot'[d][ch] = slot[d][ch]
  BY <1>9 DEF SenderStep, Pick, SenderEnds, TakeControl, WakeUp, SendControl,
     SendFails, TakeFrame, SendFrame, Sent, requeue
<1>10. CASE UNCHANGED vars
  BY <1>10 DEF vars
<1> QED BY <1>1, <1>2, <1>3, <1>4, <1>5, <1>6, <1>7, <1>8, <1>9, <1>10
        DEF Next, HandlerStep

(* Closing the gate drops the frame that waits.                            *)
LEMMA GateCloses ==
  ASSUME TypesOK, Connections, [Next]_vars, NEW d \in Clients,
         NEW ch \in Channels, link[d] = "up", Gate(d, ch), ~Gate(d, ch)'
  PROVE  slot'[d][ch] = 0
<1> USE DEF TypesOK, TypeOK, BusOK, ClientsOK, gates, Gate
<1>1. ASSUME UNCHANGED <<streaming, enabled>> PROVE FALSE
  BY <1>1
<1>2. CASE \/ \E e \in Channels : Publish(e) \/ SkipInvalid(e)
           \/ clear_channel \/ broadcast_vr_input \/ broadcast_robot_stream
           \/ Broadcast
  BY <1>1, <1>2 DEF Publish, SkipInvalid, clear_channel, broadcast_vr_input,
     broadcast_robot_stream, Broadcast, NextFrame
<1>3. ASSUME NEW c \in Clients, NEW on \in BOOLEAN,
             \/ TeleopCall(c, on)
             \/ \E e \in Channels : Subscribe(c, e, on)
      PROVE  slot'[d][ch] = 0
  <2>1. CASE TeleopCall(c, on)
    BY <1>1, <2>1 DEF TeleopCall
  <2>2. ASSUME NEW e \in Channels, Subscribe(c, e, on)
        PROVE  slot'[d][ch] = 0
    <3>1. /\ streaming' = streaming
          /\ enabled' = [enabled EXCEPT ![c] = [enabled[c] EXCEPT ![e] = on]]
          /\ ~on => slot' = [slot EXCEPT ![c] = [slot[c] EXCEPT ![e] = 0]]
      BY <2>2 DEF Subscribe
    <3>2. c = d /\ e = ch /\ ~on
      <4>1. /\ c # d => enabled'[d] = enabled[d]
            /\ c = d => enabled'[d] = [enabled[d] EXCEPT ![e] = on]
            /\ enabled[d] \in [Channels -> BOOLEAN]
        BY <3>1
      <4> QED BY <3>1, <4>1
    <3>3. slot'[d] = [slot[d] EXCEPT ![ch] = 0]
      BY <3>1, <3>2
    <3>4. slot[d] \in [Channels -> Frames]
      OBVIOUS
    <3> HIDE DEF TypesOK, TypeOK, ClientsOK
    <3> QED BY <3>3, <3>4
  <2> QED BY <1>3, <2>1, <2>2
<1>4. ASSUME NEW c \in Clients,
             \/ Connect(c) \/ CloseClient(c) \/ Lost(c) \/ Respond(c)
             \/ HandlerEnds(c) \/ SenderStep(c)
      PROVE  FALSE
  BY <1>1, <1>4 DEF Connect, CloseClient, Lost, Respond, HandlerEnds,
     SenderStep, Pick, SenderEnds, TakeControl, WakeUp, SendControl, SendFails,
     TakeFrame, SendFrame, Sent, SenderKeeps
<1>5. ASSUME NEW c \in Clients, TurnOn(c)
      PROVE  FALSE
  BY <1>5 DEF TurnOn
<1>6. ASSUME NEW c \in Clients, TurnOff(c)
      PROVE  slot'[d][ch] = 0
  BY <1>6, ChannelFacts DEF TurnOff, Connections, Connected
<1>7. CASE UNCHANGED vars
  BY <1>1, <1>7 DEF vars
<1> QED BY <1>2, <1>3, <1>4, <1>5, <1>6, <1>7 DEF Next, HandlerStep

LEMMA LinkComesUp ==
  ASSUME TypesOK, [Next]_vars, NEW d \in Clients, link'[d] = "up"
  PROVE  link[d] \in {"new", "up"}
<1> USE DEF TypesOK, TypeOK, ClientsOK, conn
<1>1. CASE UNCHANGED link
  BY <1>1
<1>2. CASE \E c \in Clients :
              Connect(c) \/ CloseClient(c) \/ Lost(c) \/ HandlerEnds(c)
  BY <1>2 DEF Connect, CloseClient, Lost, HandlerEnds
<1>3. CASE \/ \E ch \in Channels : Publish(ch) \/ SkipInvalid(ch)
           \/ clear_channel \/ broadcast_vr_input \/ broadcast_robot_stream
           \/ Broadcast \/ UNCHANGED vars
  BY <1>1, <1>3 DEF Publish, SkipInvalid, clear_channel, broadcast_vr_input,
     broadcast_robot_stream, Broadcast, NextFrame, vars
<1>4. CASE \E c \in Clients :
              \/ \E on \in BOOLEAN :
                    \/ TeleopCall(c, on)
                    \/ \E ch \in Channels : Subscribe(c, ch, on)
              \/ Respond(c) \/ TurnOn(c) \/ TurnOff(c)
  BY <1>1, <1>4 DEF TeleopCall, Subscribe, Respond, TurnOn, TurnOff
<1>5. CASE \E c \in Clients : SenderStep(c)
  BY <1>1, <1>5 DEF SenderStep, Pick, SenderEnds, TakeControl, WakeUp,
     SendControl, SendFails, TakeFrame, SendFrame, Sent, SenderKeeps
<1> QED BY <1>2, <1>3, <1>4, <1>5 DEF Next, HandlerStep

(* A step outside the sender of a client changes nothing the sender holds, *)
(* nor what the client has seen, and counts no late frame.                 *)
LEMMA HeldOutside ==
  ASSUME TypesOK, [Next]_vars, NEW d \in Clients, NEW ch \in Channels,
         ~SenderStep(d)
  PROVE  /\ UNCHANGED <<taken[d], out[d], outFrame[d], seen[d]>>
         /\ \/ late'[d][ch] = late[d][ch] /\ Gate(d, ch)' = Gate(d, ch)
            \/ late'[d][ch] = IF Gate(d, ch)' THEN 0 ELSE late[d][ch]
<1> USE DEF TypesOK, TypeOK, SendersOK, HistoryOK, Gate
<1>1. CASE ~\E c \in Clients : SenderStep(c)
  BY <1>1, OutsideSenders DEF GateHistory
<1>2. ASSUME NEW c \in Clients, SenderStep(c), c # d
      PROVE  /\ UNCHANGED <<taken[d], out[d], outFrame[d], seen[d], late[d]>>
             /\ UNCHANGED <<streaming, enabled>>
  BY <1>2 DEF SenderStep, Pick, SenderEnds, TakeControl, WakeUp, SendControl,
     SendFails, TakeFrame, SendFrame, Sent, SenderKeeps, requeue, gates, history
<1> QED BY <1>1, <1>2

LEMMA OneLateOutside ==
  ASSUME TypesOK, Connections, Holds, OneLate, [Next]_vars,
         NEW d \in Clients, NEW ch \in Channels, ~SenderStep(d)
  PROVE  OneLateOf(d, ch)'
<1>0. OneLateOf(d, ch) /\ Connected(d)
  BY DEF OneLate, Connections
<1>1. /\ UNCHANGED <<taken[d], out[d], outFrame[d], seen[d]>>
      /\ \/ late'[d][ch] = late[d][ch] /\ Gate(d, ch)' = Gate(d, ch)
         \/ late'[d][ch] = IF Gate(d, ch)' THEN 0 ELSE late[d][ch]
  BY HeldOutside
<1>2. /\ late'[d][ch] \in {0, late[d][ch]}
      /\ Gate(d, ch)' => late'[d][ch] = 0
  BY <1>0, <1>1 DEF OneLateOf
<1>3. ASSUME ~Gate(d, ch)', link'[d] = "up"
      PROVE  /\ out'[d] = ch => late'[d][ch] = 0
             /\ taken'[d][ch] # 0 => late'[d][ch] = 0
             /\ slot'[d][ch] # 0 => /\ late'[d][ch] = 0 /\ out'[d] # ch
                                    /\ taken'[d][ch] = 0
  <2>1. slot'[d][ch] \in {0, slot[d][ch]}
    BY <1>3, SlotOutside
  <2>2. CASE link[d] = "up" /\ ~Gate(d, ch)
    BY <1>0, <1>1, <1>2, <2>1, <2>2 DEF OneLateOf
  <2>3. CASE link[d] = "up" /\ Gate(d, ch)
    <3>1. slot'[d][ch] = 0
      BY <1>3, <2>3, GateCloses
    <3>2. late[d][ch] = 0
      BY <1>0, <2>3 DEF OneLateOf
    <3> QED BY <1>2, <3>1, <3>2
  <2>4. CASE link[d] = "new"
    <3>1. late[d][ch] = 0 /\ slot[d][ch] = 0
      BY <1>0, <2>4, ChannelFacts DEF Connected
    <3> QED BY <1>2, <2>1, <3>1
  <2> QED BY <1>3, <2>2, <2>3, <2>4, LinkComesUp
<1> QED BY <1>0, <1>2, <1>3 DEF OneLateOf

(* What a step of its sender does to one stream of a client.               *)
LEMMA SenderMoves ==
  ASSUME TypesOK, Holds, NEW d \in Clients, NEW ch \in Channels, SenderStep(d)
  PROVE  /\ UNCHANGED <<seq, bus, streamed, last, streaming, enabled, link>>
         /\ \/ \* another message is turned to, or none
               /\ out'[d] # ch
               /\ UNCHANGED <<slot[d][ch], taken[d][ch], seen[d][ch], late[d][ch]>>
            \/ \* the frame that was taken is put back
               /\ taken[d][ch] # 0 /\ taken'[d][ch] = 0 /\ out'[d] # ch
               /\ slot'[d][ch] = taken[d][ch]
               /\ UNCHANGED <<seen[d][ch], late[d][ch]>>
            \/ \* the sender ends
               UNCHANGED <<slot[d], taken[d], out[d], outFrame[d], seen[d], late[d]>>
            \/ \* its waiting frame is taken
               /\ slot[d][ch] # 0 /\ slot'[d][ch] = 0 /\ taken[d][ch] = 0
               /\ taken'[d][ch] = slot[d][ch] /\ out'[d] # ch
               /\ UNCHANGED <<seen[d][ch], late[d][ch]>>
            \/ \* its waiting frame is sent next
               /\ slot[d][ch] # 0 /\ slot'[d][ch] = 0 /\ taken[d][ch] = 0
               /\ taken'[d][ch] = 0 /\ out'[d] = ch
               /\ outFrame'[d] = slot[d][ch]
               /\ UNCHANGED <<seen[d][ch], late[d][ch]>>
            \/ \* the frame that was taken is sent next
               /\ taken[d][ch] # 0 /\ taken'[d][ch] = 0 /\ out'[d] = ch
               /\ outFrame'[d] = taken[d][ch] /\ slot'[d][ch] = slot[d][ch]
               /\ UNCHANGED <<seen[d][ch], late[d][ch]>>
            \/ \* its frame is sent
               /\ out[d] = ch /\ out'[d] # ch /\ link[d] = "up"
               /\ taken[d][ch] = 0 /\ taken'[d][ch] = 0
               /\ slot'[d][ch] = slot[d][ch] /\ seen'[d][ch] = outFrame[d]
               /\ late'[d][ch] = IF Gate(d, ch) THEN 0
                                 ELSE Least(late[d][ch] + 1, 3)
<1> USE DEF TypesOK, TypeOK, ClientsOK, SendersOK, HistoryOK, SenderKeeps,
            queues, gates, history
<1>0. HoldsOf(d)
  BY DEF Holds
<1>1. UNCHANGED <<seq, bus, streamed, last, streaming, enabled, link>>
  BY DEF SenderStep, Pick, SenderEnds, TakeControl, WakeUp, SendControl,
     SendFails, TakeFrame, SendFrame, Sent, bridge, conn
<1>2. CASE Pick(d)
  <2> DEFINE first == First(queued[d] > 0, slot[d])
  <2>1. /\ first \in Channels \cup {"control", "none"}
        /\ first \in Channels => slot[d][first] # 0
    BY FirstOfQueues
  <2>2. /\ out'[d] = first /\ UNCHANGED <<taken, seen, late>>
        /\ first \notin Channels => slot' = slot
        /\ first \in Channels =>
              /\ outFrame'[d] = slot[d][first]
              /\ slot' = [slot EXCEPT ![d] = [slot[d] EXCEPT ![first] = 0]]
        /\ sender[d] = "pick"
    BY <1>2 DEF Pick
  <2> HIDE DEF first
  <2>3. taken[d][ch] = 0
    BY <1>0, <2>2, ChannelFacts DEF HoldsOf
  <2>4. first \in Channels => slot'[d] = [slot[d] EXCEPT ![first] = 0]
    BY <2>2
  <2>5. slot[d] \in [Channels -> Frames]
    OBVIOUS
  <2> HIDE DEF TypesOK, TypeOK, ClientsOK, SendersOK, HistoryOK
  <2>6. CASE first = ch
    <3>1. slot'[d][ch] = 0
      BY <2>4, <2>5, <2>6
    <3> QED BY <1>1, <2>1, <2>2, <2>3, <2>6, <3>1
  <2>7. CASE first # ch
    <3>1. slot'[d][ch] = slot[d][ch]
      BY <2>1, <2>2, <2>4, <2>5, <2>7
    <3> QED BY <1>1, <2>2, <2>3, <2>7, <3>1
  <2> QED BY <2>6, <2>7
<1>3. CASE SenderEnds(d) \/ SendFails(d)
  BY <1>1, <1>3 DEF SenderEnds, SendFails
<1>4. CASE TakeControl(d)
  BY <1>1, <1>4 DEF TakeControl
<1>5. ASSUME NEW e \in Channels, TakeFrame(d, e)
      PROVE  \/ UNCHANGED <<slot[d][ch], taken[d][ch]>>
             \/ /\ slot[d][ch] # 0 /\ slot'[d][ch] = 0 /\ taken[d][ch] = 0
                /\ taken'[d][ch] = slot[d][ch]
  <2>1. /\ slot[d][e] # 0 /\ taken[d][e] = 0
        /\ taken'[d] = [taken[d] EXCEPT ![e] = slot[d][e]]
        /\ slot'[d] = [slot[d] EXCEPT ![e] = 0]
        /\ slot[d] \in [Channels -> Frames] /\ taken[d] \in [Channels -> Frames]
    BY <1>5 DEF TakeFrame
  <2> HIDE DEF TypesOK, TypeOK, ClientsOK, SendersOK, HistoryOK
  <2> QED BY <2>1
<1>6. ASSUME NEW e \in Channels, TakeFrame(d, e)
      PROVE  out'[d] # ch /\ UNCHANGED <<out[d], outFrame[d], seen[d], late[d]>>
  BY <1>0, <1>6, ChannelFacts DEF TakeFrame, HoldsOf
<1>7. CASE WakeUp(d)
  <2> DEFINE first == First(takenCtl[d], taken[d])
  <2>1. /\ first \in Channels \cup {"control", "none"}
        /\ first \in Channels => taken[d][first] # 0
    BY FirstOfTaken
  <2>2. /\ out'[d] = first /\ UNCHANGED <<seen, late>>
        /\ first \in Channels => outFrame'[d] = taken[d][first]
        /\ taken'[d] = NoFrames
        /\ slot'[d][ch] = IF ch # first /\ taken[d][ch] # 0 THEN taken[d][ch]
                          ELSE slot[d][ch]
    BY <1>7 DEF WakeUp, requeue
  <2>3. taken'[d][ch] = 0
    BY <2>2, ChannelFacts
  <2> HIDE DEF first, TypesOK, TypeOK, ClientsOK, SendersOK, HistoryOK
  <2>4. CASE first = ch
    BY <1>1, <2>1, <2>2, <2>3, <2>4
  <2>5. CASE first # ch
    BY <1>1, <2>1, <2>2, <2>3, <2>5
  <2> QED BY <2>4, <2>5
<1>8. CASE SendControl(d)
  BY <1>1, <1>8, ChannelFacts DEF SendControl, Sent
<1>9. ASSUME NEW e \in Channels, SendFrame(d, e)
      PROVE  /\ UNCHANGED <<slot, taken>> /\ out'[d] # ch /\ out[d] = e
             /\ link[d] = "up" /\ sender[d] = "send"
             /\ e # ch => UNCHANGED <<seen[d][ch], late[d][ch]>>
             /\ e = ch => /\ seen'[d][ch] = outFrame[d]
                          /\ late'[d][ch] = IF Gate(d, ch) THEN 0
                                            ELSE Least(late[d][ch] + 1, 3)
  BY <1>9, ChannelFacts DEF SendFrame, Sent, Gate
<1>10. ASSUME NEW e \in Channels, SendFrame(d, e)
       PROVE  taken[d][ch] = 0
  BY <1>0, <1>9, <1>10, ChannelFacts DEF HoldsOf
<1> HIDE DEF TypesOK, TypeOK, ClientsOK, SendersOK, HistoryOK
<1>11. CASE \E e \in Channels : TakeFrame(d, e)
  BY <1>1, <1>5, <1>6, <1>11
<1>12. CASE \E e \in Channels : SendFrame(d, e)
  BY <1>1, <1>9, <1>10, <1>12
<1> QED BY <1>2, <1>3, <1>4, <1>7, <1>8, <1>11, <1>12 DEF SenderStep

LEMMA OneLateSender ==
  ASSUME TypesOK, Holds, OneLate, NEW d \in Clients, NEW ch \in Channels,
         SenderStep(d)
  PROVE  OneLateOf(d, ch)'
<1>1. OneLateOf(d, ch)
  BY DEF OneLate
<1>2. Least(0 + 1, 3) = 1
  BY DEF Least
<1>3. Gate(d, ch)' = Gate(d, ch) /\ link' = link
  BY SenderMoves DEF Gate
<1> QED BY <1>1, <1>2, <1>3, SenderMoves DEF OneLateOf

(* Once a stream is off for a client at most one more frame reaches it:    *)
(* what was broadcast, taken, put back and sent around the request is one  *)
(* frame (_requeue_latest_best_effort, set_streaming_enabled).             *)
THEOREM OneFrameLate == Spec => []LateFramesBounded
<1>1. Init => Connections /\ Holds /\ OneLate
  BY ChannelFacts DEF Init, Connections, Connected, Holds, HoldsOf, OneLate,
     OneLateOf
<1>2. /\ TypesOK /\ Connections /\ Holds /\ OneLate /\ [Next]_vars => OneLate'
  <2> SUFFICES ASSUME TypesOK, Connections, Holds, OneLate, [Next]_vars,
                      NEW d \in Clients, NEW ch \in Channels
               PROVE  OneLateOf(d, ch)'
    BY DEF OneLate
  <2> QED BY OneLateOutside, OneLateSender
<1>3. OneLate => LateFramesBounded
  BY DEF OneLate, OneLateOf, LateFramesBounded
<1> QED BY <1>1, <1>2, <1>3, TypeCorrect, ConnectionsStep, HoldsStep, PTL
        DEF Spec

-----------------------------------------------------------------------------
(* The order of frames.                                                    *)
LEMMA BusMoves ==
  ASSUME TypesOK, BusInOrder, [Next]_vars
  PROVE  /\ BusInOrder'
         /\ \A ch \in Channels :
               /\ streamed[ch] <= streamed'[ch]
               /\ \/ last'[ch] \in {0, last[ch]}
                  \/ last'[ch] = bus[ch] /\ streamed[ch] <= bus[ch]
<1> USE DEF TypesOK, TypeOK, BusOK
<1>0. /\ seq \in [Channels -> Nat] /\ bus \in [Channels -> Nat]
      /\ streamed \in [Channels -> Nat] /\ last \in [Channels -> Nat]
  BY ChannelFacts
<1> HIDE DEF TypesOK, TypeOK, BusOK
<1>1. CASE UNCHANGED <<seq, bus, streamed, last>>
  BY <1>0, <1>1 DEF BusInOrder
<1>2. ASSUME NEW ch \in Channels, Publish(ch)
      PROVE  /\ seq' = [seq EXCEPT ![ch] = seq[ch] + 1]
             /\ bus' = [bus EXCEPT ![ch] = seq[ch] + 1]
             /\ UNCHANGED <<streamed, last>>
  BY <1>0, <1>2 DEF Publish
<1>3. CASE \E ch \in Channels : Publish(ch)
  BY <1>0, <1>2, <1>3 DEF BusInOrder
<1>4. CASE clear_channel
  BY <1>0, <1>4 DEF clear_channel, BusInOrder
<1>5. ASSUME NEW ch \in Channels, NextFrame(ch),
             last' \in {last, [last EXCEPT ![ch] = bus[ch]]}
      PROVE  /\ BusInOrder'
             /\ \A e \in Channels :
                   /\ streamed[e] <= streamed'[e]
                   /\ \/ last'[e] \in {0, last[e]}
                      \/ last'[e] = bus[e] /\ streamed[e] <= bus[e]
  BY <1>0, <1>5 DEF NextFrame, BusInOrder
<1>6. CASE \/ \E ch \in Channels : SkipInvalid(ch)
           \/ broadcast_vr_input \/ broadcast_robot_stream
  BY <1>5, <1>6 DEF SkipInvalid, broadcast_vr_input, broadcast_robot_stream
<1>7. CASE Broadcast \/ UNCHANGED vars
  BY <1>1, <1>7 DEF Broadcast, vars, bridge
<1>8. CASE \E c \in Clients, on \in BOOLEAN :
              \/ TeleopCall(c, on)
              \/ \E ch \in Channels : Subscribe(c, ch, on)
  BY <1>1, <1>8 DEF TeleopCall, Subscribe, bridge
<1>9. CASE \E c \in Clients :
              \/ Connect(c) \/ CloseClient(c) \/ Lost(c) \/ Respond(c)
              \/ TurnOn(c) \/ HandlerEnds(c)
  BY <1>1, <1>9 DEF Connect, CloseClient, Lost, Respond, TurnOn, HandlerEnds,
     bridge
<1>10. CASE \E c \in Clients : TurnOff(c)
  <2>1. /\ UNCHANGED <<seq, bus, streamed>>
        /\ \A ch \in Channels : last'[ch] = 0
    BY <1>10, ChannelFacts DEF TurnOff
  <2> QED BY <1>0, <2>1 DEF BusInOrder
<1>11. CASE \E c \in Clients : SenderStep(c)
  BY <1>1, <1>11 DEF SenderStep, Pick, SenderEnds, TakeControl, WakeUp,
     SendControl, SendFails, TakeFrame, SendFrame, Sent, SenderKeeps, bridge
<1> QED BY <1>3, <1>4, <1>6, <1>7, <1>8, <1>9, <1>10, <1>11
        DEF Next, HandlerStep

LEMMA FramesAreNumbers ==
  ASSUME TypesOK, NEW d \in Clients, NEW ch \in Channels
  PROVE  /\ seq[ch] \in Nat /\ bus[ch] \in Nat /\ streamed[ch] \in Nat
         /\ last[ch] \in Nat /\ slot[d][ch] \in Nat
         /\ taken[d][ch] \in Nat /\ outFrame[d] \in Nat
         /\ seen[d][ch] \in Nat
<1>1. \A f \in [Channels -> Frames] : f[ch] \in Nat
  BY ChannelFacts
<1>2. /\ seq[ch] \in Nat /\ bus[ch] \in Nat /\ streamed[ch] \in Nat
      /\ last[ch] \in Nat
  BY <1>1 DEF TypesOK, TypeOK, BusOK
<1>3. slot[d][ch] \in Nat
  BY <1>1 DEF TypesOK, TypeOK, ClientsOK
<1>4. /\ taken[d][ch] \in Nat /\ outFrame[d] \in Nat
      /\ seen[d][ch] \in Nat
  BY <1>1, ChannelFacts DEF TypesOK, TypeOK, SendersOK, HistoryOK
<1> QED BY <1>2, <1>3, <1>4

LEMMA NextFramesAreNumbers ==
  ASSUME TypesOK', NEW d \in Clients, NEW ch \in Channels
  PROVE  streamed'[ch] \in Nat /\ last'[ch] \in Nat /\ slot'[d][ch] \in Nat
<1>1. \A f \in [Channels -> Frames] : f[ch] \in Nat
  BY ChannelFacts
<1>2. streamed'[ch] \in Nat /\ last'[ch] \in Nat
  BY <1>1 DEF TypesOK, TypeOK, BusOK
<1>3. slot'[d][ch] \in Nat
  BY <1>1 DEF TypesOK, TypeOK, ClientsOK
<1> QED BY <1>2, <1>3

LEMMA OrderOutside ==
  ASSUME TypesOK, TypesOK', Connections, BusInOrder, WayInOrder, [Next]_vars,
         NEW d \in Clients, NEW ch \in Channels, ~SenderStep(d)
  PROVE  /\ WayInOrderOf(d, ch)'
         /\ seen'[d][ch] = seen[d][ch]
<1>1. WayInOrderOf(d, ch)
  BY DEF WayInOrder
<1>2. UNCHANGED <<taken[d], out[d], outFrame[d], seen[d]>>
  BY HeldOutside
<1>3. /\ streamed[ch] <= streamed'[ch]
      /\ \/ last'[ch] \in {0, last[ch]}
         \/ last'[ch] = bus[ch] /\ streamed[ch] <= bus[ch]
      /\ last'[ch] <= streamed'[ch] /\ last[ch] <= streamed[ch]
  BY BusMoves DEF BusInOrder
<1>4. /\ seq[ch] \in Nat /\ bus[ch] \in Nat /\ streamed[ch] \in Nat
      /\ last[ch] \in Nat /\ slot[d][ch] \in Nat /\ taken[d][ch] \in Nat
      /\ outFrame[d] \in Nat /\ seen[d][ch] \in Nat
      /\ streamed'[ch] \in Nat /\ last'[ch] \in Nat /\ slot'[d][ch] \in Nat
  BY FramesAreNumbers, NextFramesAreNumbers
<1>5. \A f \in Nat : Behind(f, ch) => Behind(f, ch)'
  BY <1>3, <1>4 DEF Behind
<1>6. \/ slot'[d][ch] \in {0, slot[d][ch]}
      \/ /\ slot'[d][ch] = last'[ch]
         /\ \A f \in Nat : Behind(f, ch) => f <= last'[ch] \/ last'[ch] = 0
  <2>1. CASE slot'[d][ch] = last'[ch] /\ last' = last
    BY <2>1 DEF Behind
  <2>2. CASE slot'[d][ch] = last'[ch] /\ last'[ch] = bus[ch] /\ bus[ch] # 0
    <3>1. streamed[ch] <= bus[ch]
      BY <2>2, <1>4 DEF BusInOrder
    <3> QED BY <2>2, <3>1, <1>4 DEF Behind
  <2> QED BY <2>1, <2>2, SlotOutside
<1>7. WayInOrderOf(d, ch)'
  <2>1. /\ Behind(seen[d][ch], ch)' /\ Behind(taken[d][ch], ch)'
        /\ out[d] = ch => Behind(outFrame[d], ch)'
    BY <1>1, <1>2, <1>4, <1>5 DEF WayInOrderOf
  <2>2. Behind(slot[d][ch], ch)'
    BY <1>1, <1>3, <1>4, <1>5, <1>6 DEF WayInOrderOf, Behind
  <2>3. slot'[d][ch] # 0 => /\ seen'[d][ch] <= slot'[d][ch]
                            /\ taken'[d][ch] <= slot'[d][ch]
                            /\ out[d] = ch => outFrame[d] <= slot'[d][ch]
    BY <1>1, <1>2, <1>4, <1>6 DEF WayInOrderOf
  <2> QED BY <1>1, <1>2, <2>1, <2>2, <2>3 DEF WayInOrderOf
<1> QED BY <1>2, <1>7

LEMMA OrderSender ==
  ASSUME TypesOK, Holds, WayInOrder, NEW d \in Clients, NEW ch \in Channels,
         SenderStep(d)
  PROVE  /\ WayInOrderOf(d, ch)'
         /\ seen'[d][ch] >= seen[d][ch]
<1>1. WayInOrderOf(d, ch)
  BY DEF WayInOrder
<1>2. UNCHANGED <<streamed, last>>
  BY SenderMoves
<1>3. \A f : Behind(f, ch)' = Behind(f, ch)
  BY <1>2 DEF Behind
<1>4. Behind(0, ch)
  BY FramesAreNumbers DEF Behind
<1> QED BY <1>1, <1>2, <1>4, SenderMoves, FramesAreNumbers
        DEF WayInOrderOf, Behind

(* Whatever is replaced, taken, put back, kept for new clients, forgotten  *)
(* or turned off and on again, each client sees each stream in the order   *)
(* of the bus (LatestStateBus, DirectStateStreamer, TeleopWebSocketServer).*)
THEOREM StreamsInOrder == Spec => NeverBackwards
<1>1. Init => Connections /\ Holds /\ BusInOrder /\ WayInOrder
  BY ChannelFacts DEF Init, Connections, Connected, Holds, HoldsOf, BusInOrder,
     WayInOrder, WayInOrderOf, Behind
<1>2. TypesOK /\ TypesOK' /\ Connections /\ Holds /\ BusInOrder /\ WayInOrder
        /\ [Next]_vars
      => /\ WayInOrder' /\ BusInOrder'
         /\ \A c \in Clients, ch \in Channels : seen'[c][ch] >= seen[c][ch]
  <2> SUFFICES ASSUME TypesOK, TypesOK', Connections, Holds, BusInOrder,
                      WayInOrder, [Next]_vars
               PROVE  /\ WayInOrder' /\ BusInOrder'
                      /\ \A c \in Clients, ch \in Channels :
                            seen'[c][ch] >= seen[c][ch]
    OBVIOUS
  <2>1. ASSUME NEW d \in Clients, NEW ch \in Channels
        PROVE  WayInOrderOf(d, ch)' /\ seen'[d][ch] >= seen[d][ch]
    <3>1. CASE SenderStep(d)
      BY <3>1, OrderSender
    <3>2. CASE ~SenderStep(d)
      BY <3>2, OrderOutside, FramesAreNumbers
    <3> QED BY <3>1, <3>2
  <2> QED BY <2>1, BusMoves DEF WayInOrder
<1> QED BY <1>1, <1>2, TypeCorrect, ConnectionsStep, HoldsStep, PTL
        DEF Spec, NeverBackwards

-----------------------------------------------------------------------------
(* Frames are kept.                                                        *)
LEMMA OpenGateKeepsFrame ==
  ASSUME TypesOK, Connections, [Next]_vars, NEW d \in Clients,
         NEW ch \in Channels, ~SenderStep(d), Gate(d, ch)', slot'[d][ch] = 0
  PROVE  slot[d][ch] = 0
<1> USE DEF TypesOK, TypeOK, BusOK, ClientsOK, queues, Gate
<1>1. CASE \/ \E e \in Channels : Publish(e) \/ SkipInvalid(e)
           \/ clear_channel \/ Broadcast \/ UNCHANGED vars
  BY <1>1 DEF Publish, SkipInvalid, clear_channel, Broadcast, NextFrame, vars
<1>2. CASE broadcast_vr_input
  BY <1>2 DEF broadcast_vr_input, NextFrame, QueueLatest
<1>r. ASSUME NEW e \in Channels, NEW frame, frame # 0, QueueLatest(e, frame)
      PROVE  slot[d][ch] = 0
  <2>1. slot'[d] \in {slot[d], [slot[d] EXCEPT ![e] = frame]}
    BY <1>r DEF QueueLatest
  <2>2. slot[d] \in [Channels -> Frames]
    OBVIOUS
  <2> HIDE DEF TypesOK, TypeOK, BusOK, ClientsOK
  <2> QED BY <1>r, <2>1, <2>2
<1>3. CASE broadcast_robot_stream
  <2>1. \/ UNCHANGED slot
        \/ /\ "robot" \in Channels /\ bus["robot"] # 0
           /\ QueueLatest("robot", bus["robot"])
    BY <1>3 DEF broadcast_robot_stream, NextFrame
  <2> QED BY <1>r, <2>1
<1>4. ASSUME NEW c \in Clients, NEW on \in BOOLEAN, NEW e \in Channels,
             Subscribe(c, e, on)
      PROVE  slot[d][ch] = 0
  <2>1. /\ enabled' = [enabled EXCEPT ![c] = [enabled[c] EXCEPT ![e] = on]]
        /\ on => slot' = slot
        /\ ~on => slot' = [slot EXCEPT ![c] = [slot[c] EXCEPT ![e] = 0]]
    BY <1>4 DEF Subscribe
  <2>2. CASE slot' = slot
    BY <2>2
  <2>3. CASE ~on /\ slot' = [slot EXCEPT ![c] = [slot[c] EXCEPT ![e] = 0]]
    <3>1. ~(c = d /\ e = ch)
      <4> SUFFICES ASSUME c = d, e = ch PROVE FALSE
        OBVIOUS
      <4>1. /\ enabled'[d] = [enabled[d] EXCEPT ![ch] = on]
            /\ enabled[d] \in [Channels -> BOOLEAN]
        BY <2>1
      <4>2. enabled'[d][ch]
        OBVIOUS
      <4> HIDE DEF TypesOK, TypeOK, BusOK, ClientsOK
      <4> QED BY <2>3, <4>1, <4>2
    <3>2. /\ c # d => slot'[d] = slot[d]
          /\ c = d => slot'[d] = [slot[d] EXCEPT ![e] = 0]
          /\ slot[d] \in [Channels -> Frames]
      BY <2>3
    <3> HIDE DEF TypesOK, TypeOK, BusOK, ClientsOK
    <3> QED BY <3>1, <3>2
  <2> QED BY <2>1, <2>2, <2>3
<1>5. ASSUME NEW c \in Clients,
             \/ CloseClient(c) \/ Lost(c) \/ Respond(c) \/ HandlerEnds(c)
             \/ \E on \in BOOLEAN : TeleopCall(c, on)
      PROVE  slot' = slot
  BY <1>5 DEF CloseClient, Lost, Respond, HandlerEnds, TeleopCall
<1>6. ASSUME NEW c \in Clients, Connect(c)
      PROVE  slot[d][ch] = 0
  BY <1>6, ChannelFacts DEF Connect, Connections, Connected
<1>7. ASSUME NEW c \in Clients, TurnOn(c)
      PROVE  slot[d][ch] = 0
  <2>1. \/ UNCHANGED slot
        \/ /\ "robot" \in Channels /\ last["robot"] # 0
           /\ QueueLatest("robot", last["robot"])
    BY <1>7 DEF TurnOn
  <2> QED BY <1>r, <2>1
<1>8. ASSUME NEW c \in Clients, TurnOff(c)
      PROVE  FALSE
  BY <1>8 DEF TurnOff
<1>9. ASSUME NEW c \in Clients, SenderStep(c), c # d
      PROVE  slot'[d][ch] = slot[d][ch]
  BY <1>9 DEF SenderStep, Pick, SenderEnds, TakeControl, WakeUp, SendControl,
     SendFails, TakeFrame, SendFrame, Sent, requeue
<1> QED BY <1>1, <1>2, <1>3, <1>4, <1>5, <1>6, <1>7, <1>8, <1>9
        DEF Next, HandlerStep

(* Frame f of a stream, or a newer one, was sent to the client or is on its*)
(* way to it.                                                              *)
Kept(c, ch, f) ==
    \/ seen[c][ch] >= f
    \/ out[c] = ch /\ outFrame[c] >= f
    \/ taken[c][ch] >= f
    \/ taken[c][ch] = 0 /\ slot[c][ch] >= f

LEMMA KeptOutside ==
  ASSUME TypesOK, TypesOK', Connections, BusInOrder, WayInOrder, [Next]_vars,
         NEW d \in Clients, NEW ch \in Channels, NEW f \in 1 .. MaxFrames,
         ~SenderStep(d), Gate(d, ch)', Kept(d, ch, f)
  PROVE  Kept(d, ch, f)'
<1>1. UNCHANGED <<taken[d], out[d], outFrame[d], seen[d]>>
  BY HeldOutside
<1>2. /\ seq[ch] \in Nat /\ bus[ch] \in Nat /\ streamed[ch] \in Nat
      /\ last[ch] \in Nat /\ slot[d][ch] \in Nat
      /\ last'[ch] \in Nat /\ slot'[d][ch] \in Nat
  BY FramesAreNumbers, NextFramesAreNumbers
<1>3. f \in Nat /\ f >= 1
  BY WsAssumption
<1>4. ASSUME slot[d][ch] >= f PROVE slot'[d][ch] >= f
  <2>1. slot'[d][ch] # 0
    BY <1>2, <1>3, <1>4, OpenGateKeepsFrame
  <2>2. Behind(slot[d][ch], ch)
    BY DEF WayInOrder, WayInOrderOf
  <2>3. CASE slot'[d][ch] = slot[d][ch]
    BY <1>4, <2>3
  <2>4. CASE slot'[d][ch] = last'[ch] /\ last' = last
    BY <1>2, <1>3, <1>4, <2>1, <2>2, <2>4 DEF Behind
  <2>5. CASE slot'[d][ch] = last'[ch] /\ last'[ch] = bus[ch] /\ bus[ch] # 0
    <3>1. streamed[ch] <= bus[ch]
      BY <1>2, <2>5 DEF BusInOrder
    <3> QED BY <1>2, <1>3, <1>4, <2>2, <2>5, <3>1 DEF Behind
  <2> QED BY <2>1, <2>3, <2>4, <2>5, SlotOutside
<1> QED BY <1>1, <1>4 DEF Kept

(* While a frame is being sent the sender does nothing else.               *)
LEMMA SenderIsBusy ==
  ASSUME TypesOK, Holds, NEW d \in Clients, NEW ch \in Channels,
         SenderStep(d), out[d] = ch
  PROVE  /\ UNCHANGED <<slot, taken>>
         /\ \/ UNCHANGED <<out, outFrame, seen>>
            \/ seen'[d][ch] = outFrame[d]
<1>1. sender[d] \notin {"pick", "wait"}
  BY ChannelFacts DEF Holds, HoldsOf
<1>2. CASE SendFails(d)
  BY <1>2 DEF SendFails, queues, history
<1>3. CASE SendFrame(d, ch)
  BY <1>3 DEF SendFrame, Sent, queues, TypesOK, HistoryOK
<1>4. SendFails(d) \/ SendFrame(d, ch)
  BY <1>1, ChannelFacts DEF SenderStep, Pick, SenderEnds, TakeControl, WakeUp,
     SendControl, TakeFrame, SendFrame
<1> QED BY <1>2, <1>3, <1>4

LEMMA KeptBySender ==
  ASSUME TypesOK, Holds, WayInOrder, NEW d \in Clients, NEW ch \in Channels,
         NEW f \in 1 .. MaxFrames, SenderStep(d), Kept(d, ch, f)
  PROVE  Kept(d, ch, f)'
<1>1. /\ slot[d][ch] \in Nat /\ taken[d][ch] \in Nat
      /\ outFrame[d] \in Nat /\ seen[d][ch] \in Nat
  BY FramesAreNumbers
<1>2. f \in Nat /\ f >= 1
  BY WsAssumption
<1>3. CASE out[d] = ch
  <2>1. seen[d][ch] <= outFrame[d]
    BY <1>3 DEF WayInOrder, WayInOrderOf
  <2> QED BY <1>1, <1>2, <1>3, <2>1, SenderIsBusy DEF Kept
<1>4. CASE out[d] # ch
  BY <1>1, <1>2, <1>4, SenderMoves DEF Kept
<1> QED BY <1>3, <1>4

(* A frame that is on its way to a client is given up only for a newer one *)
(* or when the stream is closed to the client, also when the sender turns  *)
(* to a message of higher priority and puts it back: the safety half of    *)
(* TakenFrameDelivered (_requeue_latest_best_effort, _queue_latest).       *)
FramesKept ==
    [][\A c \in Clients, ch \in Channels, f \in 1 .. MaxFrames :
          Kept(c, ch, f) /\ Open(c, ch)' => Kept(c, ch, f)']_vars

(* Nothing is lost on the way of a stream but for a newer frame: FramesKept *)
(* holds of every step (_client_sender_loop, _queue_latest_vr_input).       *)
THEOREM FramesAreKept == Spec => FramesKept
<1>1. Init => Connections /\ Holds /\ BusInOrder /\ WayInOrder
  BY ChannelFacts DEF Init, Connections, Connected, Holds, HoldsOf, BusInOrder,
     WayInOrder, WayInOrderOf, Behind
<1>2. TypesOK /\ TypesOK' /\ Connections /\ Holds /\ BusInOrder /\ WayInOrder
        /\ [Next]_vars
      => /\ WayInOrder' /\ BusInOrder'
         /\ \A c \in Clients, ch \in Channels, f \in 1 .. MaxFrames :
              Kept(c, ch, f) /\ Open(c, ch)' => Kept(c, ch, f)'
  <2> SUFFICES ASSUME TypesOK, TypesOK', Connections, Holds, BusInOrder,
                      WayInOrder, [Next]_vars
               PROVE  /\ WayInOrder' /\ BusInOrder'
                      /\ \A c \in Clients, ch \in Channels,
                            f \in 1 .. MaxFrames :
                            Kept(c, ch, f) /\ Open(c, ch)' => Kept(c, ch, f)'
    OBVIOUS
  <2>1. ASSUME NEW d \in Clients, NEW ch \in Channels
        PROVE  WayInOrderOf(d, ch)'
    BY OrderSender, OrderOutside
  <2>2. ASSUME NEW d \in Clients, NEW ch \in Channels,
               NEW f \in 1 .. MaxFrames, Kept(d, ch, f), Open(d, ch)'
        PROVE  Kept(d, ch, f)'
    <3>1. Gate(d, ch)'
      BY <2>2 DEF Open, Gate
    <3> QED BY <2>2, <3>1, KeptOutside, KeptBySender
  <2> QED BY <2>1, <2>2, BusMoves DEF WayInOrder
<1> QED BY <1>1, <1>2, TypeCorrect, ConnectionsStep, HoldsStep, PTL
        DEF Spec, FramesKept
=============================================================================
