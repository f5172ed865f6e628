------------------------------ MODULE WsServer ------------------------------
(***************************************************************************)
(* The realtime streams of the bridge, from the state bus to the clients:  *)
(* LatestStateBus (common/state_bus.py), DirectStateStreamer               *)
(* (bridge/streamer.py), the stream loop of app.py and                     *)
(* TeleopWebSocketServer (bridge/ws_server.py).                            *)
(*                                                                         *)
(* All of it but the publishers of the bus runs on one event loop: an      *)
(* action is what a coroutine does from one await that can suspend to the  *)
(* next.  Each client has a handler, which reads requests one at a time,   *)
(* and a sender, which empties three queues: control messages first, then  *)
(* the newest VR frame, then the newest robot frame.  A frame is its       *)
(* sequence number on the bus, 0 for none.                                 *)
(***************************************************************************)
EXTENDS Naturals, FiniteSets

CONSTANTS Clients,     \* the connections accepted, one after the other
          Channels,    \* the streams in use, "vr" and "robot"
          QueueSize,   \* maxsize of the control queue of a client
          MaxFrames,   \* bound: frames published
          MaxControl,  \* bound: control messages broadcast
          MaxRequests  \* bound: teleop and subscription requests

ASSUME WsAssumption ==
    /\ Channels \subseteq {"vr", "robot"}
    /\ QueueSize \in Nat \ {0}
    /\ MaxFrames \in Nat /\ MaxControl \in Nat /\ MaxRequests \in Nat

VARIABLES
    seq,        \* the sequence number of each channel of the bus
    bus,        \* the frame in each channel of the bus
    streamed,   \* _last_sequences of the streamer
    last,       \* _last_vr_input and _last_robot_datas
    lastState,  \* _last_robot_state is there
    streaming,  \* vr_input_streaming and robot_datas_streaming
    clients,    \* self._clients
    link,       \* each connection: "new", "up", "down" (closed), "gone"
    alive,      \* client.alive
    enabled,    \* client.vr_input_enabled and client.robot_datas_enabled
    queued,     \* length of client.queue
    slot,       \* client.vr_input_queue and robot_datas_queue (maxsize 1)
    handler,    \* each handler: "read", "respond", "apply"
    wanted,     \* whether the request in a handler enables the streams
    sender,     \* each sender: "pick", "wait", "send", "ended"
    taken,      \* what the getter tasks of a waiting sender have taken
    takenCtl,   \* whether the control getter has taken a message
    out,        \* what the sender is sending: "control", a channel or "none"
    outFrame,   \* the frame it is sending
    seen,       \* history: the last frame each client was sent
    crowd,      \* history: frames sent while a control message waits
    late,       \* history: frames sent since the stream was turned off
    budget      \* frames, control messages and requests left (bounds)

bridge  == <<seq, bus, streamed, last, lastState>>
gates   == <<streaming>>
queues  == <<queued, slot>>
request == <<handler, wanted>>
conn    == <<clients, link, alive>>
sending == <<sender, taken, takenCtl, out, outFrame>>
history == <<seen, crowd, late>>
vars == <<seq, bus, streamed, last, lastState, streaming, clients,
          link, alive, enabled, queued, slot, handler, wanted, sender, taken,
          takenCtl, out, outFrame, seen, crowd, late, budget>>

Frames == 0..MaxFrames

BusOK ==
    /\ seq \in [Channels -> Frames] /\ bus \in [Channels -> Frames]
    /\ streamed \in [Channels -> Frames] /\ last \in [Channels -> Frames]
    /\ lastState \in BOOLEAN
    /\ streaming \in [Channels -> BOOLEAN]

ClientsOK ==
    /\ clients \subseteq Clients
    /\ link \in [Clients -> {"new", "up", "down", "gone"}]
    /\ alive \in [Clients -> BOOLEAN]
    /\ enabled \in [Clients -> [Channels -> BOOLEAN]]
    /\ queued \in [Clients -> 0..QueueSize]
    /\ slot \in [Clients -> [Channels -> Frames]]
    /\ handler \in [Clients -> {"read", "respond", "apply"}]
    /\ wanted \in [Clients -> BOOLEAN]

SendersOK ==
    /\ sender \in [Clients -> {"pick", "wait", "send", "ended"}]
    /\ taken \in [Clients -> [Channels -> Frames]]
    /\ takenCtl \in [Clients -> BOOLEAN]
    /\ out \in [Clients -> Channels \cup {"control", "none"}]
    /\ outFrame \in [Clients -> Frames]

TypeOK == BusOK /\ ClientsOK /\ SendersOK

NoFrames == [ch \in Channels |-> 0]

Init ==
    /\ seq = NoFrames /\ bus = NoFrames /\ streamed = NoFrames
    /\ last = NoFrames /\ lastState = FALSE
    /\ streaming = [ch \in Channels |-> FALSE]
    /\ clients = {} /\ link = [c \in Clients |-> "new"]
    /\ alive = [c \in Clients |-> TRUE]
    /\ enabled = [c \in Clients |-> [ch \in Channels |-> TRUE]]
    /\ queued = [c \in Clients |-> 0] /\ slot = [c \in Clients |-> NoFrames]
    /\ handler = [c \in Clients |-> "read"]
    /\ wanted = [c \in Clients |-> FALSE]
    /\ sender = [c \in Clients |-> "pick"]
    /\ taken = [c \in Clients |-> NoFrames]
    /\ takenCtl = [c \in Clients |-> FALSE]
    /\ out = [c \in Clients |-> "none"] /\ outFrame = [c \in Clients |-> 0]
    /\ seen = [c \in Clients |-> NoFrames] /\ crowd = [c \in Clients |-> 0]
    /\ late = [c \in Clients |-> NoFrames]
    /\ budget = [frames |-> MaxFrames, control |-> MaxControl,
                 requests |-> MaxRequests]

Least(a, b) == IF a <= b THEN a ELSE b

-----------------------------------------------------------------------------
(* The bus: written by the collector and by the monitor of the runtime.    *)

Publish(ch) ==
    /\ budget.frames > 0
    /\ budget' = [budget EXCEPT !.frames = @ - 1]
    /\ seq' = [seq EXCEPT ![ch] = @ + 1]
    /\ bus' = [bus EXCEPT ![ch] = seq'[ch]]
    /\ UNCHANGED <<streamed, last, lastState, gates, conn, enabled, queues,
                   request, sending, history>>

(* A new control process: the last VR frame is forgotten, its number not.  *)
clear_channel ==
    /\ "vr" \in Channels /\ bus["vr"] # 0
    /\ bus' = [bus EXCEPT !["vr"] = 0]
    /\ UNCHANGED <<seq, streamed, last, lastState, gates, conn, enabled, queues,
                   request, sending, history, budget>>

-----------------------------------------------------------------------------
(* Putting messages into the queues of the clients.                        *)

(* Who a broadcast reaches: the clients it finds alive, while it forgets   *)
(* the others.                                                             *)
Listening == {c \in clients : alive[c]}

(* put_nowait into the control queue: dropped when it is full.             *)
QueueControl(to) ==
    queued' = [c \in Clients |-> IF c \in to THEN Least(queued[c] + 1, QueueSize)
                                 ELSE queued[c]]

Subscribers(ch) == {c \in Listening : enabled[c][ch]}

(* _queue_latest_*: the frame that waits is replaced by the newest one.    *)
QueueLatest(ch, frame) ==
    slot' = [c \in Clients |-> IF c \in Subscribers(ch)
                               THEN [slot[c] EXCEPT ![ch] = frame] ELSE slot[c]]

(* The event loop finds a new frame in the bus.  One that is not valid is  *)
(* skipped; the robot state goes with a frame once a second.               *)
NextFrame(ch) ==
    /\ bus[ch] # 0 /\ bus[ch] # streamed[ch]
    /\ streamed' = [streamed EXCEPT ![ch] = bus[ch]]
    /\ UNCHANGED <<seq, bus, gates, link, alive, enabled, request, sending,
                   history, budget>>

SkipInvalid(ch) ==
    NextFrame(ch) /\ UNCHANGED <<last, lastState, clients, queues>>

broadcast_vr_input ==
    /\ "vr" \in Channels /\ NextFrame("vr")
    /\ last' = [last EXCEPT !["vr"] = bus["vr"]]
    /\ IF streaming["vr"]
       THEN QueueLatest("vr", bus["vr"]) /\ clients' = Listening
       ELSE UNCHANGED <<slot, clients>>
    /\ UNCHANGED <<lastState, queued>>

broadcast_robot_stream ==
    /\ "robot" \in Channels /\ NextFrame("robot")
    /\ last' = [last EXCEPT !["robot"] = bus["robot"]]
    /\ \E include_state \in BOOLEAN :
         /\ lastState' = (lastState \/ include_state)
         /\ IF streaming["robot"]
            THEN /\ QueueLatest("robot", bus["robot"]) /\ clients' = Listening
                 /\ QueueControl(IF include_state THEN Subscribers("robot") ELSE {})
            ELSE UNCHANGED <<queues, clients>>

(* A state change, a device event or an error for every client.            *)
Broadcast ==
    /\ budget.control > 0
    /\ budget' = [budget EXCEPT !.control = @ - 1]
    /\ QueueControl(Listening) /\ clients' = Listening
    /\ UNCHANGED <<bridge, gates, link, alive, enabled, slot, request, sending,
                   history>>

-----------------------------------------------------------------------------
(* The handler of a client: connection, requests, end.                     *)

(* _handler: the client joins and is given the last frames at once.        *)
Connect(c) ==
    /\ link[c] = "new"
    /\ link' = [link EXCEPT ![c] = "up"]
    /\ clients' = clients \cup {c}
    /\ slot' = [slot EXCEPT ![c] = [ch \in Channels |->
                                      IF streaming[ch] THEN last[ch] ELSE 0]]
    /\ queued' = [queued EXCEPT ![c] =
                    IF "robot" \in Channels /\ slot'[c]["robot"] # 0 /\ lastState
                    THEN 1 ELSE 0]
    /\ UNCHANGED <<bridge, gates, alive, enabled, request, sending, history,
                   budget>>

(* start_teleop, resume_teleop (on), pause_teleop, stop_teleop (off): the  *)
(* bridge calls the runtime and sends the response, ...                    *)
TeleopCall(c, on) ==
    /\ link[c] = "up" /\ handler[c] = "read" /\ budget.requests > 0
    /\ budget' = [budget EXCEPT !.requests = @ - 1]
    /\ wanted' = [wanted EXCEPT ![c] = on]
    /\ handler' = [handler EXCEPT ![c] = "respond"]
    /\ UNCHANGED <<bridge, streaming, conn, enabled, queues, sending, history>>

Respond(c) ==
    /\ handler[c] = "respond"
    /\ handler' = [handler EXCEPT ![c] = "apply"]
    /\ alive' = [alive EXCEPT ![c] = @ /\ link[c] = "up"]
    /\ UNCHANGED <<bridge, gates, clients, link, enabled, queues, wanted,
                   sending, history, budget>>

(* A stream that is on for a client is not late.                           *)
GateHistory ==
    /\ late' = [c \in Clients |-> [ch \in Channels |->
                  IF streaming'[ch] /\ enabled'[c][ch] THEN 0 ELSE late[c][ch]]]
    /\ UNCHANGED <<seen, crowd>>

(* ... and only then turns the streams on, with the last robot frame, ...  *)
TurnOn(c) ==
    /\ handler[c] = "apply" /\ wanted[c]
    /\ streaming' = [ch \in Channels |-> TRUE]
    /\ IF "robot" \in Channels /\ last["robot"] # 0
       THEN /\ QueueLatest("robot", last["robot"]) /\ clients' = Listening
            /\ QueueControl(IF lastState THEN Subscribers("robot") ELSE {})
       ELSE UNCHANGED <<queues, clients>>
    /\ handler' = [handler EXCEPT ![c] = "read"]
    /\ UNCHANGED <<bridge, link, alive, enabled, wanted, sending, budget>>
    /\ GateHistory

(* ... or off: the last frames are forgotten, the waiting ones dropped.    *)
TurnOff(c) ==
    /\ handler[c] = "apply" /\ ~wanted[c]
    /\ streaming' = [ch \in Channels |-> FALSE]
    /\ last' = NoFrames /\ lastState' = FALSE
    /\ slot' = [d \in Clients |-> IF d \in clients THEN NoFrames ELSE slot[d]]
    /\ handler' = [handler EXCEPT ![c] = "read"]
    /\ UNCHANGED <<seq, bus, streamed, conn, enabled, queued, wanted,
                   sending, budget>>
    /\ GateHistory

(* Mutant: the frame that waits for the client is left in its queue.       *)
SubscribeKeepsFrame(c, ch, on) ==
    /\ link[c] = "up" /\ handler[c] = "read"
    /\ budget.requests > 0
    /\ budget' = [budget EXCEPT !.requests = @ - 1]
    /\ enabled' = [enabled EXCEPT ![c][ch] = on]
    /\ UNCHANGED streaming /\ GateHistory
    /\ UNCHANGED <<bridge, conn, queues, request, sending>>

(* set_robot_datas, set_vr_input: one client turns one stream on or off.   *)
Subscribe(c, ch, on) ==
    /\ link[c] = "up" /\ handler[c] = "read"
    /\ budget.requests > 0
    /\ budget' = [budget EXCEPT !.requests = @ - 1]
    /\ enabled' = [enabled EXCEPT ![c][ch] = on]
    /\ slot' = IF on THEN slot ELSE [slot EXCEPT ![c][ch] = 0]
    /\ UNCHANGED streaming /\ GateHistory
    /\ UNCHANGED <<bridge, conn, queued, request, sending>>

(* _close_client: a disconnect request, or no pong in time.                *)
CloseClient(c) ==
    /\ link[c] = "up"
    /\ alive' = [alive EXCEPT ![c] = FALSE]
    /\ link' = [link EXCEPT ![c] = "down"]
    /\ UNCHANGED <<bridge, gates, clients, enabled, queues, request, sending,
                   history, budget>>

(* The connection is lost.                                                 *)
Lost(c) ==
    /\ link[c] = "up"
    /\ link' = [link EXCEPT ![c] = "down"]
    /\ UNCHANGED <<bridge, gates, clients, alive, enabled, queues, request,
                   sending, history, budget>>

(* The handler finds the connection closed: its sender is cancelled.       *)
HandlerEnds(c) ==
    /\ link[c] = "down" /\ handler[c] = "read"
    /\ link' = [link EXCEPT ![c] = "gone"]
    /\ alive' = [alive EXCEPT ![c] = FALSE]
    /\ clients' = clients \ {c}
    /\ sender' = [sender EXCEPT ![c] = "ended"]
    /\ UNCHANGED <<bridge, gates, enabled, queues, request, taken, takenCtl,
                   out, outFrame, history, budget>>

HandlerStep(c) == Respond(c) \/ TurnOn(c) \/ TurnOff(c) \/ HandlerEnds(c)

-----------------------------------------------------------------------------
(* _client_sender_loop.                                                    *)

(* Mutant: the frames go first.                                            *)
FirstFrames(control, frames) ==
    CASE \E ch \in Channels : frames[ch] # 0 ->
           (CHOOSE ch \in Channels : frames[ch] # 0)
      [] control /\ \A ch \in Channels : frames[ch] = 0 -> "control"
      [] OTHER -> "none"

(* What goes first: control messages, then VR, then robot frames.          *)
First(control, frames) ==
    CASE control -> "control"
      [] ~control /\ "vr" \in Channels /\ frames["vr"] # 0 -> "vr"
      [] ~control /\ ~("vr" \in Channels /\ frames["vr"] # 0)
           /\ "robot" \in Channels /\ frames["robot"] # 0 -> "robot"
      [] OTHER -> "none"

SenderKeeps == UNCHANGED <<bridge, gates, conn, enabled, request, budget>>

(* The queues are looked at in order; all empty, a getter task waits for   *)
(* each of them.                                                           *)
Pick(c) ==
    LET first == First(queued[c] > 0, slot[c]) IN
    /\ link[c] # "new" /\ sender[c] = "pick" /\ alive[c]
    /\ out' = [out EXCEPT ![c] = first]
    /\ sender' = [sender EXCEPT ![c] = IF first = "none" THEN "wait" ELSE "send"]
    /\ IF first \in Channels
       THEN /\ outFrame' = [outFrame EXCEPT ![c] = slot[c][first]]
            /\ slot' = [slot EXCEPT ![c][first] = 0]
       ELSE UNCHANGED <<outFrame, slot>>
    /\ queued' = [queued EXCEPT ![c] = IF first = "control" THEN @ - 1 ELSE @]
    /\ UNCHANGED <<taken, takenCtl, history>>
    /\ SenderKeeps

SenderEnds(c) ==
    /\ sender[c] = "pick" /\ ~alive[c]
    /\ sender' = [sender EXCEPT ![c] = "ended"]
    /\ UNCHANGED <<taken, takenCtl, out, outFrame, queues, history>>
    /\ SenderKeeps

(* A getter task takes what its queue has got; the sender wakes up after   *)
(* the first of them, and the others may still take theirs before it does. *)
TakeControl(c) ==
    /\ sender[c] = "wait" /\ ~takenCtl[c] /\ queued[c] > 0
    /\ takenCtl' = [takenCtl EXCEPT ![c] = TRUE]
    /\ queued' = [queued EXCEPT ![c] = @ - 1]
    /\ UNCHANGED <<sender, taken, out, outFrame, slot, history>>
    /\ SenderKeeps

TakeFrame(c, ch) ==
    /\ sender[c] = "wait" /\ taken[c][ch] = 0 /\ slot[c][ch] # 0
    /\ taken' = [taken EXCEPT ![c][ch] = slot[c][ch]]
    /\ slot' = [slot EXCEPT ![c][ch] = 0]
    /\ UNCHANGED <<sender, takenCtl, out, outFrame, queued, history>>
    /\ SenderKeeps

(* Mutants: the frames that were taken and do not go first are dropped, or *)
(* kept for the next time.                                                 *)
requeue_drops(c, first) ==
    /\ UNCHANGED slot
    /\ taken' = [taken EXCEPT ![c] = NoFrames]

requeue_keeps(c, first) ==
    /\ UNCHANGED slot
    /\ taken' = [taken EXCEPT ![c] = [ch \in Channels |->
                                        IF ch = first THEN 0 ELSE @[ch]]]

(* _requeue_latest_best_effort: a frame that was taken and does not go     *)
(* first replaces whatever came into its queue since.                      *)
requeue(c, first) ==
    /\ slot' = [slot EXCEPT ![c] = [ch \in Channels |->
                  IF ch # first /\ taken[c][ch] # 0 THEN taken[c][ch] ELSE @[ch]]]
    /\ taken' = [taken EXCEPT ![c] = NoFrames]

WakeUp(c) ==
    LET first == First(takenCtl[c], taken[c]) IN
    /\ sender[c] = "wait" /\ first # "none"
    /\ out' = [out EXCEPT ![c] = first]
    /\ outFrame' = [outFrame EXCEPT ![c] =
                      IF first \in Channels THEN taken[c][first] ELSE @]
    /\ requeue(c, first)
    /\ takenCtl' = [takenCtl EXCEPT ![c] = FALSE]
    /\ sender' = [sender EXCEPT ![c] = "send"]
    /\ UNCHANGED <<queued, history>>
    /\ SenderKeeps

Sent(c) ==
    /\ sender' = [sender EXCEPT ![c] = "pick"]
    /\ out' = [out EXCEPT ![c] = "none"]
    /\ outFrame' = [outFrame EXCEPT ![c] = 0]
    /\ UNCHANGED <<taken, takenCtl, queues>>
    /\ SenderKeeps

SendControl(c) ==
    /\ sender[c] = "send" /\ link[c] = "up" /\ out[c] = "control"
    /\ crowd' = [crowd EXCEPT ![c] = 0]
    /\ UNCHANGED <<seen, late>>
    /\ Sent(c)

SendFrame(c, ch) ==
    /\ sender[c] = "send" /\ link[c] = "up" /\ out[c] = ch
    /\ seen' = [seen EXCEPT ![c][ch] = outFrame[c]]
    /\ crowd' = [crowd EXCEPT ![c] = IF queued[c] > 0 THEN Least(@ + 1, 3) ELSE 0]
    /\ late' = [late EXCEPT ![c][ch] = IF streaming[ch] /\ enabled[c][ch] THEN 0
                                       ELSE Least(@ + 1, 3)]
    /\ Sent(c)

(* ConnectionClosed: the sender ends by itself.                            *)
SendFails(c) ==
    /\ sender[c] = "send" /\ link[c] = "down"
    /\ sender' = [sender EXCEPT ![c] = "ended"]
    /\ UNCHANGED <<taken, takenCtl, out, outFrame, queues, history>>
    /\ SenderKeeps

SenderStep(c) ==
    \/ Pick(c) \/ SenderEnds(c) \/ TakeControl(c) \/ WakeUp(c)
    \/ SendControl(c) \/ SendFails(c)
    \/ \E ch \in Channels : TakeFrame(c, ch) \/ SendFrame(c, ch)

Next ==
    \/ \E ch \in Channels : Publish(ch) \/ SkipInvalid(ch)
    \/ clear_channel \/ broadcast_vr_input \/ broadcast_robot_stream \/ Broadcast
    \/ \E c \in Clients :
         \/ Connect(c) \/ CloseClient(c) \/ Lost(c)
         \/ HandlerStep(c) \/ SenderStep(c)
         \/ \E on \in BOOLEAN :
              \/ TeleopCall(c, on)
              \/ \E ch \in Channels : Subscribe(c, ch, on)

Spec == Init /\ [][Next]_vars

(* The event loop runs every coroutine that can go on.                     *)
FairSpec ==
    /\ Spec
    /\ \A c \in Clients : WF_vars(SenderStep(c)) /\ WF_vars(HandlerStep(c))

-----------------------------------------------------------------------------
Open(c, ch) == streaming[ch] /\ enabled[c][ch] /\ link[c] = "up" /\ alive[c]

(* A client never sees a stream go back: whatever was replaced, taken,     *)
(* queued again, repeated for a new client or turned off and on, the       *)
(* frames it is sent are in the order of the bus.                          *)
NeverBackwards ==
    [][\A c \in Clients, ch \in Channels : seen'[c][ch] >= seen[c][ch]]_vars

(* Control messages are "not crowded out by high-frequency realtime        *)
(* streams" (ws_server.py:73): one frame at most goes before them.         *)
ControlNotCrowdedOut == \A c \in Clients : crowd[c] <= 1

(* Once a stream is off for a client, at most one more frame reaches it:   *)
(* the one its sender had taken already.                                   *)
LateFramesBounded == \A c \in Clients, ch \in Channels : late[c][ch] <= 1

(* A frame the sender has taken is not lost when a message of higher       *)
(* priority goes first: it, or a newer one, is sent while the stream is on.*)
TakenFrameDelivered ==
    \A c \in Clients, ch \in Channels, f \in 1..MaxFrames :
        (taken[c][ch] = f) ~> (seen[c][ch] >= f \/ ~Open(c, ch))
=============================================================================
