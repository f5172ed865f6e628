--------------------------- MODULE Headset_proofs ---------------------------
(***************************************************************************)
(* What TLAPS proves of ImageClient, for any readers, any range of packets *)
(* and any number of interruptions of the camera: the types, and that what *)
(* readers see and what is displayed is in order.  And of XrInput, for any *)
(* number of control processes, events and samples: that the bridge gets   *)
(* the frames of a session in order.  And of XrDisplay, for any number of  *)
(* images: that the thread overlooks none.                                 *)
(***************************************************************************)
EXTENDS ImageClient, XrInput, XrDisplay, TLAPS

Packets == [n : Nat, frame : BOOLEAN]

ClientTypeOK ==
    /\ receiver \in {"poll", "queue", "take", "put", "ended"}
    /\ packet \in Packets /\ packet_ring \in Packets
    /\ decodeQueue = <<>> \/ \E p \in Packets : decodeQueue = <<p>>
    /\ decoder \in {"get", "write", "ended"}
    /\ decoding \in Packets /\ bgr_ring \in Packets
    /\ subscribed \in BOOLEAN
    /\ reading \in [Readers -> {"idle", "image", "sink", "ended"}]
    /\ seen \in [Readers -> Packets]
    /\ pump_latest \in Packets /\ pump_stop \in BOOLEAN
    /\ sinkAfterClose \in 0..2
    /\ session \in {"request", "running", "joining", "closed"}

(* From the camera to the readers, and on to the decoder and the pump, no   *)
(* packet is newer than the one before it on the way.                       *)
Chain ==
    /\ packet_ring = packet
    /\ \A r \in Readers : seen[r].n <= packet.n
    /\ decodeQueue # <<>> => /\ decodeQueue[1].n <= packet.n
                             /\ decoding.n <= decodeQueue[1].n
    /\ decoding.n <= packet.n
    /\ bgr_ring.n <= decoding.n
    /\ pump_latest.n <= bgr_ring.n

(* An image that was on its way when the pump was told to close is the last *)
(* one: after it the pump looks at its stop event.                          *)
LastSink ==
    /\ sinkAfterClose \in {0, 1}
    /\ ~pump_stop \/ reading["pump"] \in {"image", "sink"}
          => sinkAfterClose = 0

LEMMA ClientInitTyped == ClientInit => ClientTypeOK
<1> SUFFICES ASSUME ClientInit PROVE ClientTypeOK
  OBVIOUS
<1>1. Nothing \in Packets
  BY DEF Nothing, Packets
<1>2. sinkAfterClose \in 0..2
  BY DEF ClientInit
<1> QED BY <1>1, <1>2 DEF ClientInit, ClientTypeOK

LEMMA LaterIsLater ==
  ASSUME NEW m \in Nat
  PROVE  Later(m) \in Nat /\ m <= Later(m)
  BY ClientAssumption DEF Later

LEMMA ClientStepTyped ==
  ClientTypeOK /\ [ClientNext]_clientVars => ClientTypeOK'
<1> SUFFICES ASSUME ClientTypeOK, [ClientNext]_clientVars
             PROVE  ClientTypeOK'
  OBVIOUS
<1> USE DEF ClientTypeOK, receiverVars, decoderVars, readerVars
<1>1. CASE Configure
  BY <1>1 DEF Configure
<1>2. CASE Poll
  <2>1. packet' \in Packets /\ packet_ring' \in Packets
    <3>1. \A f \in BOOLEAN : [n |-> Later(packet.n), frame |-> f] \in Packets
      BY LaterIsLater DEF Packets
    <3> QED BY <1>2, <3>1 DEF Poll, Received, RingWrite
  <2> QED BY <1>2, <2>1 DEF Poll, Received
<1>3. CASE LookAtQueue
  BY <1>3 DEF LookAtQueue
<1>4. CASE TakeOld
  BY <1>4 DEF TakeOld
<1>5. CASE PutNew
  BY <1>5 DEF PutNew
<1>6. CASE DecoderTakes
  <2>1. decoding' \in Packets /\ (decodeQueue' = <<>> \/ decodeQueue' = decodeQueue)
    BY <1>6 DEF DecoderTakes
  <2> QED BY <1>6, <2>1 DEF DecoderTakes
<1>7. CASE DecoderWrites
  <2>1. bgr_ring' \in Packets
    BY <1>7 DEF DecoderWrites, RingWrite, Packets
  <2> QED BY <1>7, <2>1 DEF DecoderWrites
<1>8. ASSUME NEW r \in Readers, ReadsPacket(r)
      PROVE  ClientTypeOK'
  BY <1>8 DEF ReadsPacket
<1>9. ASSUME NEW r \in Readers, ReadsImage(r)
       PROVE  ClientTypeOK'
  BY <1>9 DEF ReadsImage
<1>10. CASE PumpSinks
  BY <1>10, ClientAssumption DEF PumpSinks
<1>11. CASE ClosePump
  BY <1>11 DEF ClosePump
<1>12. CASE CloseClient
  BY <1>12 DEF CloseClient
<1>13. CASE UNCHANGED clientVars
  BY <1>13 DEF clientVars
<1> QED
  BY <1>1, <1>2, <1>3, <1>4, <1>5, <1>6, <1>7, <1>8, <1>9, <1>10, <1>11,
     <1>12, <1>13
  DEF ClientNext, Receiver, Decoder, Reader

(* Every variable of the image client and the pump keeps its type, for any  *)
(* readers and packets.                                                    *)
THEOREM ClientTypeCorrect == ClientSpec => []ClientTypeOK
  BY ClientInitTyped, ClientStepTyped, PTL DEF ClientSpec

-----------------------------------------------------------------------------
LEMMA ChainStep ==
  ClientTypeOK /\ Chain /\ [ClientNext]_clientVars
     => /\ Chain'
        /\ \A r \in Readers : seen'[r].n >= seen[r].n
        /\ pump_latest'.n >= pump_latest.n
<1> DEFINE Goal == /\ Chain'
                   /\ \A r \in Readers : seen'[r].n >= seen[r].n
                   /\ pump_latest'.n >= pump_latest.n
<1> SUFFICES ASSUME ClientTypeOK, Chain, [ClientNext]_clientVars
             PROVE  Goal
  OBVIOUS
<1>0. /\ packet.n \in Nat /\ packet_ring.n \in Nat /\ decoding.n \in Nat
      /\ bgr_ring.n \in Nat /\ pump_latest.n \in Nat
      /\ \A r \in Readers : seen[r].n \in Nat
      /\ decodeQueue # <<>> => decodeQueue[1].n \in Nat
  BY DEF ClientTypeOK, Packets
<1> USE DEF receiverVars, decoderVars, readerVars
<1>1. ASSUME UNCHANGED <<packet, packet_ring, decodeQueue, decoding, bgr_ring,
                         seen, pump_latest>>
      PROVE  Goal
  BY <1>0, <1>1 DEF Chain
<1>2. CASE Poll
  <2>1. CASE UNCHANGED <<packet, packet_ring>>
    BY <1>1, <1>2, <2>1 DEF Poll
  <2>2. CASE packet'.n = Later(packet.n) /\ packet_ring' = packet'
    <3>1. packet'.n \in Nat /\ packet.n <= packet'.n
      BY <1>0, <2>2, LaterIsLater
    <3>2. UNCHANGED <<decodeQueue, decoding, bgr_ring, seen, pump_latest>>
      BY <1>2 DEF Poll
    <3> QED BY <1>0, <2>2, <3>1, <3>2 DEF Chain
  <2> QED BY <1>2, <2>1, <2>2 DEF Poll, Received, RingWrite
<1>3. CASE TakeOld
  BY <1>0, <1>3 DEF TakeOld, Chain
<1>4. CASE PutNew
  BY <1>0, <1>4 DEF PutNew, Chain
<1>5. CASE DecoderTakes
  <2>1. CASE decodeQueue # <<>> /\ decodeQueue' = <<>> /\ decoding' = decodeQueue[1]
    <3>1. UNCHANGED <<packet, packet_ring, bgr_ring, seen, pump_latest>>
      BY <1>5 DEF DecoderTakes
    <3> QED BY <1>0, <2>1, <3>1 DEF Chain
  <2>2. CASE UNCHANGED <<decodeQueue, decoding>>
    BY <1>1, <1>5, <2>2 DEF DecoderTakes
  <2> QED BY <1>5, <2>1, <2>2 DEF DecoderTakes
<1>6. CASE DecoderWrites
  <2>1. bgr_ring'.n = decoding.n
    BY <1>6 DEF DecoderWrites, RingWrite, ClientTypeOK, Packets
  <2> QED BY <1>0, <1>6, <2>1 DEF DecoderWrites, Chain
<1>7. ASSUME NEW r \in Readers, ReadsPacket(r)
      PROVE  Goal
  <2>1. CASE seen' = [seen EXCEPT ![r] = packet_ring]
    <3>1. \A q \in Readers : seen'[q] = seen[q] \/ seen'[q] = packet
      BY <2>1 DEF Chain, ClientTypeOK
    <3>2. UNCHANGED <<packet, packet_ring, decodeQueue, decoding, bgr_ring,
                      pump_latest>>
      BY <1>7 DEF ReadsPacket
    <3> QED BY <1>0, <3>1, <3>2 DEF Chain
  <2>2. CASE seen' = seen
    BY <1>1, <1>7, <2>2 DEF ReadsPacket
  <2> QED BY <1>7, <2>1, <2>2 DEF ReadsPacket
<1>8. ASSUME NEW r \in Readers, ReadsImage(r)
      PROVE  Goal
  BY <1>0, <1>8 DEF ReadsImage, Chain
<1>9. CASE \/ Configure \/ LookAtQueue \/ PumpSinks \/ ClosePump
           \/ CloseClient \/ UNCHANGED clientVars
  BY <1>1, <1>9 DEF Configure, LookAtQueue, PumpSinks, ClosePump,
     CloseClient, clientVars
<1> QED
  BY <1>2, <1>3, <1>4, <1>5, <1>6, <1>7, <1>8, <1>9
  DEF ClientNext, Receiver, Decoder, Reader

LEMMA LastSinkStep ==
  ClientTypeOK /\ LastSink /\ [ClientNext]_clientVars => LastSink'
<1> SUFFICES ASSUME ClientTypeOK, LastSink, [ClientNext]_clientVars
             PROVE  LastSink'
  OBVIOUS
<1>0. "pump" \in Readers /\ reading \in [Readers -> {"idle", "image", "sink", "ended"}]
  BY ClientAssumption DEF ClientTypeOK
<1> USE DEF readerVars
<1>1. ASSUME NEW r \in Readers, ReadsPacket(r)
      PROVE  LastSink'
  BY <1>0, <1>1 DEF ReadsPacket, LastSink
<1>2. ASSUME NEW r \in Readers, ReadsImage(r)
      PROVE  LastSink'
  BY <1>0, <1>2 DEF ReadsImage, LastSink
<1>3. CASE PumpSinks
  BY <1>0, <1>3 DEF PumpSinks, LastSink
<1>4. CASE ClosePump
  BY <1>0, <1>4 DEF ClosePump, LastSink
<1>5. CASE UNCHANGED <<pump_stop, reading, sinkAfterClose>>
  BY <1>5 DEF LastSink
<1>6. ASSUME \/ Configure \/ Receiver \/ Decoder \/ CloseClient
             \/ UNCHANGED clientVars
      PROVE  UNCHANGED <<pump_stop, reading, sinkAfterClose>>
  BY <1>6 DEF Configure, Receiver, Poll, LookAtQueue, TakeOld,
     PutNew, Decoder, DecoderTakes, DecoderWrites, CloseClient, clientVars
<1> QED
  BY <1>1, <1>2, <1>3, <1>4, <1>5, <1>6 DEF ClientNext, Reader

(* Images come in order to every reader and to the display, and at most one *)
(* more after the pump was told to close.                                   *)
THEOREM ImagesInOrder == ClientSpec => DisplayInOrder
<1>1. ClientInit => Chain /\ LastSink
  BY ClientAssumption DEF ClientInit, Chain, LastSink, Nothing
<1>2. ClientTypeOK /\ Chain /\ LastSink /\ [ClientNext]_clientVars
        => [/\ \A r \in Readers : seen'[r].n >= seen[r].n
            /\ pump_latest'.n >= pump_latest.n
            /\ sinkAfterClose' <= 1]_clientVars
  BY ChainStep, LastSinkStep DEF LastSink
<1> QED
  BY <1>1, <1>2, ClientTypeCorrect, ChainStep, LastSinkStep, PTL
  DEF ClientSpec, DisplayInOrder

-----------------------------------------------------------------------------
(* The poses of the operator, from the headset to the bus.                 *)

MonitorPlaces == {"none", "read", "publish", "check", "wait", "final", "last",
                  "done"}
VrFrames == [of : Nat, seq : Nat, arm : Nat]

XrTypeOK ==
    /\ generation \in Generations /\ alive \in BOOLEAN
    /\ events \in Nat /\ tracked \in BOOLEAN /\ arm_pose \in Nat
    /\ sampling \in {"idle", "number", "publish", "signal"}
    /\ sample \in Nat /\ seq \in Nat
    /\ vr_frame \in VrFrames /\ bus \in VrFrames /\ updated \in BOOLEAN
    /\ monitor \in [Generations -> MonitorPlaces]
    /\ taken \in [Generations -> VrFrames]
    /\ last_vr_sequence \in [Generations -> Nat]
    /\ late \in [Generations -> 0 .. 3]

(* How much a monitor has published after its time: its next check is the  *)
(* last one.                                                               *)
Outlives(g) ==
    /\ late[g] <= 2
    /\ g > generation => monitor[g] = "none"
    /\ monitor[g] \in {"final", "last"} => late[g] <= 1
    /\ monitor[g] = "check" => late[g] = 0 \/ (late[g] = 1 /\ g < generation)
    /\ monitor[g] \in {"none", "read", "publish", "wait"} => late[g] = 0

(* What a monitor has taken is newer than what it has published.           *)
InHand(g) ==
    IF monitor[g] \in {"publish", "last"}
    THEN taken[g].seq > last_vr_sequence[g]
    ELSE taken[g] = NoVr

Monitors == \A g \in Generations : Outlives(g) /\ InHand(g)

(* From the bus back to the headset, each pose is at least as new as those *)
(* before it, or none (0), and none is newer than the events.              *)
Newer(a, b) == b # 0 => b >= a
VrWay ==
    (\A g \in Generations : late[g] = 0) =>
        /\ bus.seq <= last_vr_sequence[generation]
        /\ \A b \in {taken[generation].arm, vr_frame.arm, sample, arm_pose} :
                Newer(bus.arm, b)
        /\ \A b \in {vr_frame.arm, sample, arm_pose} :
                Newer(taken[generation].arm, b)
        /\ Newer(vr_frame.arm, sample) /\ Newer(vr_frame.arm, arm_pose)
        /\ Newer(sample, arm_pose)
        /\ \A a \in {bus.arm, taken[generation].arm, vr_frame.arm, sample,
                     arm_pose} : a <= events

LEMMA FramesHoldNumbers ==
  \A f \in VrFrames : f.seq \in Nat /\ f.arm \in Nat
  BY DEF VrFrames

LEMMA NoVrIsAFrame == NoVr \in VrFrames /\ NoVr.seq = 0 /\ NoVr.arm = 0
  BY DEF NoVr, VrFrames

LEMMA GenerationsAreNumbers ==
  /\ \A g \in Generations : g \in Nat
  /\ \A g \in Generations : g < MaxGenerations => g + 1 \in Generations
  /\ 1 \in Generations
  BY XrAssumption DEF Generations, XrAssumption

LEMMA XrStepTyped == XrTypeOK /\ [XrNext]_xrVars => XrTypeOK'
<1> SUFFICES ASSUME XrTypeOK, [XrNext]_xrVars PROVE XrTypeOK'
  OBVIOUS
<1> USE NoVrIsAFrame, GenerationsAreNumbers
    DEF XrTypeOK, MonitorPlaces,
        child, headset, sampler, exchange, watcher
<1>1. CASE on_move
  BY <1>1 DEF on_move
<1>2. CASE get_tele_data
  BY <1>2 DEF get_tele_data, Sampled
<1>3. CASE update_latest_vr_input
  BY <1>3 DEF update_latest_vr_input
<1>4. CASE publish
  <2>1. vr_frame' \in VrFrames
    BY <1>4 DEF publish, VrFrames
  <2> QED BY <1>4, <2>1 DEF publish
<1>5. CASE PublishSignals
  BY <1>5 DEF PublishSignals
<1>6. CASE ChildDies
  BY <1>6 DEF ChildDies
<1>7. CASE start_component
  BY <1>7 DEF start_component
<1>8. ASSUME NEW g \in Generations, MonitorReads(g) PROVE XrTypeOK'
  BY <1>8 DEF MonitorReads
<1>9. ASSUME NEW g \in Generations, MonitorPublishes(g) PROVE XrTypeOK'
  <2>1. late' \in [Generations -> 0 .. 3]
    BY <1>9 DEF MonitorPublishes
  <2>2. last_vr_sequence' \in [Generations -> Nat]
    BY <1>9 DEF MonitorPublishes, VrFrames
  <2>3. monitor' \in [Generations -> MonitorPlaces]
    BY <1>9 DEF MonitorPublishes
  <2>4. taken' \in [Generations -> VrFrames] /\ bus' \in VrFrames
    BY <1>9 DEF MonitorPublishes
  <2> QED BY <1>9, <2>1, <2>2, <2>3, <2>4 DEF MonitorPublishes
<1>10. ASSUME NEW g \in Generations, MonitorChecks(g) PROVE XrTypeOK'
  BY <1>10 DEF MonitorChecks
<1>11. ASSUME NEW g \in Generations, MonitorWaits(g) PROVE XrTypeOK'
  BY <1>11 DEF MonitorWaits
<1>12. CASE UNCHANGED xrVars
  BY <1>12 DEF xrVars
<1> QED BY <1>1, <1>2, <1>3, <1>4, <1>5, <1>6, <1>7, <1>8, <1>9, <1>10, <1>11, <1>12
        DEF XrNext, XrSampler, XrMonitor

LEMMA MonitorsStep ==
  XrTypeOK /\ Monitors /\ [XrNext]_xrVars => Monitors'
<1> SUFFICES ASSUME XrTypeOK, Monitors, [XrNext]_xrVars PROVE Monitors'
  OBVIOUS
<1> USE NoVrIsAFrame, GenerationsAreNumbers DEF XrTypeOK, Monitors, Outlives, InHand,
        child, headset, sampler, exchange, watcher
<1>1. CASE on_move
  BY <1>1 DEF on_move
<1>2. CASE get_tele_data
  BY <1>2 DEF get_tele_data, Sampled
<1>3. CASE update_latest_vr_input
  BY <1>3 DEF update_latest_vr_input
<1>4. CASE publish
  BY <1>4 DEF publish
<1>5. CASE PublishSignals
  BY <1>5 DEF PublishSignals
<1>6. CASE ChildDies
  BY <1>6 DEF ChildDies
<1>7. CASE start_component
  BY <1>7 DEF start_component
<1>8. ASSUME NEW g \in Generations, MonitorReads(g) PROVE Monitors'
  BY <1>8 DEF MonitorReads
<1>9. ASSUME NEW g \in Generations, MonitorPublishes(g) PROVE Monitors'
  BY <1>9 DEF MonitorPublishes
<1>10. ASSUME NEW g \in Generations, MonitorChecks(g) PROVE Monitors'
  BY <1>10 DEF MonitorChecks
<1>11. ASSUME NEW g \in Generations, MonitorWaits(g) PROVE Monitors'
  BY <1>11 DEF MonitorWaits
<1>12. CASE UNCHANGED xrVars
  BY <1>12 DEF xrVars
<1> QED BY <1>1, <1>2, <1>3, <1>4, <1>5, <1>6, <1>7, <1>8, <1>9, <1>10, <1>11, <1>12
        DEF XrNext, XrSampler, XrMonitor

(* As long as no monitor is late, only that of the session publishes.      *)
LEMMA PunctualPublisher ==
  ASSUME XrTypeOK, Monitors, NEW g \in Generations, MonitorPublishes(g),
         \A u \in Generations : late'[u] = 0
  PROVE  g = generation /\ late' = late
<1> USE GenerationsAreNumbers
    DEF XrTypeOK, Monitors, Outlives, MonitorPublishes
<1>1. g <= generation
  OBVIOUS
<1>2. ~(g < generation)
  OBVIOUS
<1> QED BY <1>1, <1>2

LEMMA VrWayStep ==
  XrTypeOK /\ Monitors /\ VrWay /\ [XrNext]_xrVars => VrWay'
<1> SUFFICES ASSUME XrTypeOK, Monitors, VrWay, [XrNext]_xrVars PROVE VrWay'
  OBVIOUS
<1> USE NoVrIsAFrame, GenerationsAreNumbers, FramesHoldNumbers
    DEF XrTypeOK, Monitors, Outlives, InHand,
        VrWay, Newer, child, headset, sampler, exchange, watcher
<1>1. CASE on_move
  BY <1>1 DEF on_move
<1>2. CASE get_tele_data
  BY <1>2 DEF get_tele_data, Sampled
<1>3. CASE update_latest_vr_input
  BY <1>3 DEF update_latest_vr_input
<1>4. CASE publish
  <2>1. vr_frame'.arm = sample /\ sample' = 0
    BY <1>4 DEF publish
  <2> QED BY <1>4, <2>1 DEF publish
<1>5. CASE PublishSignals
  BY <1>5 DEF PublishSignals
<1>6. CASE ChildDies
  BY <1>6 DEF ChildDies
<1>7. CASE start_component
  BY <1>7 DEF start_component
<1>8. ASSUME NEW g \in Generations, MonitorReads(g) PROVE VrWay'
  <2>1. \/ taken'[generation] = vr_frame
        \/ taken'[generation] = taken[generation]
    BY <1>8 DEF MonitorReads
  <2> QED BY <1>8, <2>1 DEF MonitorReads
<1>9. ASSUME NEW g \in Generations, MonitorPublishes(g) PROVE VrWay'
  <2> SUFFICES ASSUME \A u \in Generations : late'[u] = 0 PROVE VrWay'
    BY DEF VrWay
  <2>1. g = generation /\ late' = late
    BY <1>9, PunctualPublisher
  <2>2. /\ bus' = taken[g] /\ taken'[g] = NoVr
        /\ last_vr_sequence'[g] = taken[g].seq
    BY <1>9 DEF MonitorPublishes
  <2> QED BY <1>9, <2>1, <2>2 DEF MonitorPublishes
<1>10. ASSUME NEW g \in Generations, MonitorChecks(g) PROVE VrWay'
  BY <1>10 DEF MonitorChecks
<1>11. ASSUME NEW g \in Generations, MonitorWaits(g) PROVE VrWay'
  BY <1>11 DEF MonitorWaits
<1>12. CASE UNCHANGED xrVars
  BY <1>12 DEF xrVars
<1> QED BY <1>1, <1>2, <1>3, <1>4, <1>5, <1>6, <1>7, <1>8, <1>9, <1>10, <1>11, <1>12
        DEF XrNext, XrSampler, XrMonitor

(* The bridge never shows an older frame, or an older pose, of a session   *)
(* after a newer one, unless the monitor of an earlier session outlives    *)
(* its process; and that one publishes two frames at most (_monitor of     *)
(* control/runtime.py).                                                    *)
THEOREM VrFramesInOrder == XrSpec => VrInOrder
<1>1. XrInit => XrTypeOK /\ Monitors /\ VrWay
  <2> SUFFICES ASSUME XrInit PROVE XrTypeOK /\ Monitors /\ VrWay
    OBVIOUS
  <2> USE NoVrIsAFrame, GenerationsAreNumbers DEF XrInit
  <2>1. XrTypeOK
    <3>1. alive \in BOOLEAN /\ tracked \in BOOLEAN /\ updated \in BOOLEAN
      BY Zenon
    <3>2. /\ monitor \in [Generations -> MonitorPlaces]
          /\ taken \in [Generations -> VrFrames]
      BY DEF MonitorPlaces
    <3>3. /\ last_vr_sequence \in [Generations -> Nat]
          /\ late \in [Generations -> 0 .. 3]
      OBVIOUS
    <3> QED BY <3>1, <3>2, <3>3 DEF XrTypeOK
  <2>2. Monitors
    BY DEF Monitors, Outlives, InHand
  <2>3. VrWay
    BY DEF VrWay, Newer
  <2> QED BY <2>1, <2>2, <2>3
<1>2. XrTypeOK /\ Monitors /\ VrWay /\ Monitors' /\ [XrNext]_xrVars
      => [/\ \A g \in Generations : late'[g] <= 2
          /\ generation' = generation /\ (\A g \in Generations : late'[g] = 0)
                => /\ bus'.seq > bus.seq
                   /\ bus'.arm # 0 => bus'.arm >= bus.arm]_<<bus, late>>
  <2> SUFFICES ASSUME XrTypeOK, Monitors, VrWay, Monitors', [XrNext]_xrVars,
                      <<bus, late>>' # <<bus, late>>
               PROVE  /\ \A g \in Generations : late'[g] <= 2
                      /\ generation' = generation
                           /\ (\A g \in Generations : late'[g] = 0)
                         => /\ bus'.seq > bus.seq
                            /\ bus'.arm # 0 => bus'.arm >= bus.arm
    BY Zenon
  <2>1. \A g \in Generations : late'[g] <= 2
    BY DEF Monitors, Outlives
  <2>2. CASE start_component
    BY <2>1, <2>2, GenerationsAreNumbers DEF start_component, XrTypeOK
  <2>3. ASSUME NEW g \in Generations, MonitorPublishes(g),
               \A u \in Generations : late'[u] = 0
        PROVE  bus'.seq > bus.seq /\ (bus'.arm # 0 => bus'.arm >= bus.arm)
    <3>1. g = generation /\ late' = late
      BY <2>3, PunctualPublisher
    <3>2. bus' = taken[g]
      BY <2>3 DEF MonitorPublishes
    <3>3. taken[g].seq > last_vr_sequence[g]
      BY <2>3 DEF MonitorPublishes, Monitors, InHand
    <3>4. /\ bus.seq <= last_vr_sequence[g]
          /\ taken[g].arm # 0 => taken[g].arm >= bus.arm
      BY <2>3, <3>1 DEF VrWay, Newer
    <3> QED BY <2>3, <3>2, <3>3, <3>4, FramesHoldNumbers DEF XrTypeOK
  <2>4. CASE UNCHANGED <<bus, late>>
    BY <2>4
  <2>5. ASSUME \/ on_move \/ XrSampler \/ ChildDies
               \/ \E g \in Generations :
                     MonitorReads(g) \/ MonitorChecks(g) \/ MonitorWaits(g)
               \/ UNCHANGED xrVars
        PROVE  UNCHANGED <<bus, late>>
    BY <2>5 DEF on_move, XrSampler, get_tele_data, update_latest_vr_input, publish,
       PublishSignals, ChildDies, MonitorReads, MonitorChecks, MonitorWaits,
       watcher, xrVars
  <2>6. CASE \E g \in Generations : MonitorPublishes(g)
    BY <2>1, <2>3, <2>6
  <2>7. \/ start_component \/ \E g \in Generations : MonitorPublishes(g)
        \/ UNCHANGED <<bus, late>>
    BY <2>5, Zenon DEF XrNext, XrMonitor
  <2> QED BY <2>2, <2>4, <2>6, <2>7
<1> QED BY <1>1, <1>2, XrStepTyped, MonitorsStep, VrWayStep, PTL
        DEF XrSpec, VrInOrder
-----------------------------------------------------------------------------
(* XrDisplay: the thread that copies images into the shared memory.  While *)
(* it waits, the memory holds the image given last or the event is set;    *)
(* while it writes, it holds that image or will turn to it.                *)
NoImageOverlooked ==
    /\ renderer = "wait"  => img2display = latest_frame \/ new_frame_event
    /\ renderer = "write" => rendering = latest_frame \/ new_frame_event

(* Before the first image there is nothing to write.                       *)
BlackAtFirst ==
    /\ latest_frame \in Nat
    /\ latest_frame = 0 => img2display = 0 /\ renderer # "write"

LEMMA NoImageOverlookedStep ==
  NoImageOverlooked /\ BlackAtFirst /\ [DisplayNext]_displayVars
    => NoImageOverlooked' /\ BlackAtFirst'
<1> SUFFICES ASSUME NoImageOverlooked, BlackAtFirst, [DisplayNext]_displayVars
             PROVE  NoImageOverlooked' /\ BlackAtFirst'
  OBVIOUS
<1> USE DEF NoImageOverlooked, BlackAtFirst, picture, rendererVars
<1>1. CASE render_to_xr
  <2>1. latest_frame' = latest_frame + 1 /\ new_frame_event'
    BY <1>1 DEF render_to_xr
  <2> QED BY <2>1
<1>2. CASE Renderer \/ RendererFails
  BY <1>2 DEF Renderer, RendererWaits, RendererClears, RendererReads,
     RendererWrites, RendererFails
<1>3. CASE XrClose
  <2>1. /\ UNCHANGED <<latest_frame, rendererVars>>
        /\ new_frame_event' \/ new_frame_event' = new_frame_event
    BY <1>3 DEF XrClose
  <2> QED BY <2>1
<1>4. CASE UNCHANGED <<picture, rendererVars>>
  BY <1>4
<1> QED BY <1>1, <1>2, <1>3, <1>4 DEF DisplayNext, HeadsetConnects,
     HeadsetLeaves, Coroutine, main_image_zmq, main_image_webrtc, XrCloseEnds,
     displayVars

(* No image is overlooked by the thread, because it clears the event before *)
(* it reads the image (_xr_render_loop, render_to_xr): the safety half of   *)
(* LastImageSeen.                                                          *)
THEOREM NoImageIsOverlooked == DisplaySpec => []NoImageOverlooked
<1>1. DisplayInit => NoImageOverlooked /\ BlackAtFirst
  BY DEF DisplayInit, NoImageOverlooked, BlackAtFirst
<1> QED BY <1>1, NoImageOverlookedStep, PTL DEF DisplaySpec
=============================================================================
