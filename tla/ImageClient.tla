----------------------------- MODULE ImageClient -----------------------------
(***************************************************************************)
(* One camera as the control process sees it: the subscriber and decoder   *)
(* threads of ZMQ_SubscriberThread with their two TripleRingBuffers, the   *)
(* configuration ImageClient begins with (imaging/image_client.py), the    *)
(* readers, one of which is the LatestImagePump that feeds the XR display  *)
(* (control/image_pump.py), and the end of the session.                    *)
(*                                                                         *)
(* A packet is its number, in which everything above MaxPackets counts as  *)
(* that, and whether it is a frame: a poll without one writes None, a      *)
(* frame may fail to decode.  What is in an image is left out.             *)
(***************************************************************************)
EXTENDS Naturals, Sequences

CONSTANTS Readers,     \* threads that read the frames; "pump" is one
          MaxPackets   \* bound: packets told apart

ASSUME ClientAssumption == "pump" \in Readers /\ MaxPackets \in Nat \ {0}

VARIABLES
    receiver,           \* place of the subscriber thread
    packet,             \* the packet it handles
    packet_ring,        \* _packet_3ring_buffer
    decodeQueue,        \* _bgr_decode_queue, of one place
    decoder,            \* place of the decoder thread
    decoding,           \* the frame it took
    bgr_ring,           \* _bgr_3ring_buffer
    subscribed,         \* _running of the subscriber thread
    reading,            \* place of each reader
    seen,               \* the packet each reader read last
    pump_latest,        \* _latest of the pump
    pump_stop,          \* its stop event
    sinkAfterClose,     \* history: images forwarded after close was called
    session             \* place of the main thread

receiverVars == <<receiver, packet, packet_ring>>
decoderVars == <<decoder, decoding, bgr_ring>>
readerVars == <<reading, seen, pump_latest, sinkAfterClose>>
clientVars == <<receiver, packet, packet_ring,
                decodeQueue, decoder, decoding, bgr_ring, subscribed, reading,
                seen, pump_latest, pump_stop, sinkAfterClose, session>>

-----------------------------------------------------------------------------
(* TripleRingBuffer, as its newest entry: a read returns what was newest   *)
(* when it took the lock, for the writer passes over the slot of the       *)
(* reader.                                                                 *)

Nothing == [n |-> 0, frame |-> FALSE]
RingWrite(entry) == entry

ClientInit ==
    /\ receiver = "poll" /\ packet = Nothing /\ packet_ring = Nothing
    /\ decodeQueue = <<>>
    /\ decoder = "get" /\ decoding = Nothing /\ bgr_ring = Nothing
    /\ subscribed = FALSE
    /\ reading = [r \in Readers |-> "idle"]
    /\ seen = [r \in Readers |-> Nothing]
    /\ pump_latest = Nothing /\ pump_stop = FALSE /\ sinkAfterClose = 0
    /\ session = "request"

-----------------------------------------------------------------------------
(* ZMQ_Requester.request: the answer of the server, kept for the next time *)
(* if the disk allows, else a local file, else nothing.                    *)

request(answered, local) ==
    IF answered THEN "server" ELSE IF local THEN "local" ELSE "none"

Configure ==
    /\ session = "request"
    /\ \E answered, local \in BOOLEAN :
          IF request(answered, local) = "none"
          THEN session' = "closed" /\ UNCHANGED subscribed
          ELSE session' = "running" /\ subscribed' = TRUE
    /\ UNCHANGED <<receiverVars, decodeQueue, decoderVars,
                   readerVars, pump_stop>>

-----------------------------------------------------------------------------
(* The subscriber thread.                                                  *)

Later(n) == IF n = MaxPackets THEN n ELSE n + 1

Received(frame) ==
    /\ packet' = [n |-> Later(packet.n), frame |-> frame]
    /\ packet_ring' = RingWrite(packet')
    /\ receiver' = "queue"

\* A poll brings the newest frame, or nothing in its 100 ms: the camera may
\* fall silent and send again at any time.
Poll ==
    /\ receiver = "poll" /\ session # "request"
    /\ \/ \E frame \in BOOLEAN : subscribed /\ Received(frame)
       \/ /\ ~subscribed /\ receiver' = "ended"
          /\ UNCHANGED <<packet, packet_ring>>
    /\ UNCHANGED <<decodeQueue, decoderVars, subscribed, readerVars,
                   pump_stop, session>>

\* Is the queue full?  The decoder may empty it after the look.
LookAtQueue ==
    /\ receiver = "queue"
    /\ receiver' = IF decodeQueue = <<>> THEN "put" ELSE "take"
    /\ UNCHANGED <<packet, packet_ring, decodeQueue, decoderVars,
                   subscribed, readerVars, pump_stop, session>>

\* get_nowait raises Empty, which no handler but the last one of the thread
\* knows: the thread ends.
TakeOld ==
    /\ receiver = "take"
    /\ IF decodeQueue = <<>> THEN receiver' = "ended" ELSE receiver' = "put"
    /\ decodeQueue' = <<>>
    /\ UNCHANGED <<packet, packet_ring, decoderVars, subscribed,
                   readerVars, pump_stop, session>>

PutNew ==
    /\ receiver = "put" /\ receiver' = "poll"
    /\ decodeQueue' = <<packet>>
    /\ UNCHANGED <<packet, packet_ring, decoderVars, subscribed,
                   readerVars, pump_stop, session>>

-----------------------------------------------------------------------------
(* _decoder_loop: None is skipped, so that the last image stays for as long *)
(* as the camera is silent.                                                *)

\* Mutant: None ends the thread.
DecoderTakesOnce ==
    /\ decoder = "get"
    /\ IF ~subscribed /\ session # "request"
       THEN decoder' = "ended" /\ UNCHANGED <<decodeQueue, decoding>>
       ELSE /\ decodeQueue # <<>> /\ decodeQueue' = <<>>
            /\ decoding' = Head(decodeQueue)
            /\ decoder' = IF decoding'.frame THEN "write" ELSE "ended"
    /\ UNCHANGED <<receiverVars, bgr_ring, subscribed, readerVars,
                   pump_stop, session>>

DecoderTakes ==
    /\ decoder = "get"
    /\ IF ~subscribed /\ session # "request"
       THEN decoder' = "ended" /\ UNCHANGED <<decodeQueue, decoding>>
       ELSE /\ decodeQueue # <<>> /\ decodeQueue' = <<>>
            /\ decoding' = Head(decodeQueue)
            /\ decoder' = IF decoding'.frame THEN "write" ELSE "get"
    /\ UNCHANGED <<receiverVars, bgr_ring, subscribed, readerVars,
                   pump_stop, session>>

DecoderWrites ==
    /\ decoder = "write" /\ decoder' = "get"
    /\ \E readable \in BOOLEAN :
          bgr_ring' = RingWrite([decoding EXCEPT !.frame = readable])
    /\ UNCHANGED <<receiverVars, decodeQueue, decoding, subscribed,
                   readerVars, pump_stop, session>>

-----------------------------------------------------------------------------
(* recv, of each reader: the packet, then the image.                       *)

\* Mutant: the pump does not look at its stop event.
ReadsPacketAnyway(r) ==
    /\ reading[r] = "idle" /\ session \notin {"request", "closed"}
    /\ seen' = [seen EXCEPT ![r] = packet_ring]
    /\ reading' = [reading EXCEPT ![r] = "image"]
    /\ UNCHANGED <<receiverVars, decodeQueue, decoderVars,
                   subscribed, pump_latest, pump_stop, sinkAfterClose,
                   session>>

\* The pump looks at its stop event first; a closed client raises.
ReadsPacket(r) ==
    /\ reading[r] = "idle" /\ session # "request"
    /\ IF r = "pump" /\ pump_stop
       THEN reading' = [reading EXCEPT ![r] = "ended"] /\ UNCHANGED seen
       ELSE /\ session # "closed"
            /\ seen' = [seen EXCEPT ![r] = packet_ring]
            /\ reading' = [reading EXCEPT ![r] = "image"]
    /\ UNCHANGED <<receiverVars, decodeQueue, decoderVars,
                   subscribed, pump_latest, pump_stop, sinkAfterClose,
                   session>>

\* The pump keeps an image for the recorder, then gives it to the display.
ReadsImage(r) ==
    /\ reading[r] = "image"
    /\ IF r = "pump" /\ bgr_ring.frame
       THEN /\ pump_latest' = bgr_ring
            /\ reading' = [reading EXCEPT ![r] = "sink"]
       ELSE /\ UNCHANGED pump_latest
            /\ reading' = [reading EXCEPT ![r] = "idle"]
    /\ UNCHANGED <<receiverVars, decodeQueue, decoderVars,
                   subscribed, seen, pump_stop, sinkAfterClose, session>>

PumpSinks ==
    /\ reading["pump"] = "sink"
    /\ reading' = [reading EXCEPT !["pump"] = "idle"]
    /\ sinkAfterClose' = IF pump_stop /\ sinkAfterClose < 2
                         THEN sinkAfterClose + 1 ELSE sinkAfterClose
    /\ UNCHANGED <<receiverVars, decodeQueue, decoderVars,
                   subscribed, seen, pump_latest, pump_stop, session>>

-----------------------------------------------------------------------------
(* The end of the session: the pump, then the subscribers.                 *)

ClosePump ==
    /\ session = "running" /\ session' = "joining" /\ pump_stop' = TRUE
    /\ UNCHANGED <<receiverVars, decodeQueue, decoderVars,
                   subscribed, readerVars>>

\* The pump is joined, or its second is over; every thread is told to end.
CloseClient ==
    /\ session = "joining" /\ session' = "closed" /\ subscribed' = FALSE
    /\ UNCHANGED <<receiverVars, decodeQueue, decoderVars,
                   readerVars, pump_stop>>

Receiver == Poll \/ LookAtQueue \/ TakeOld \/ PutNew
Decoder == DecoderTakes \/ DecoderWrites
Reader(r) == \/ ReadsPacket(r) \/ ReadsImage(r)
             \/ r = "pump" /\ PumpSinks

ClientNext ==
    \/ Configure \/ Receiver \/ Decoder
    \/ \E r \in Readers : Reader(r)
    \/ ClosePump \/ CloseClient

\* Threads run.  The decoder blocks in the queue's get, and is not beaten to
\* what is put there for ever.
ClientFairness ==
    /\ WF_clientVars(Receiver) /\ WF_clientVars(Decoder)
    /\ SF_clientVars(DecoderTakes)
    /\ \A r \in Readers : WF_clientVars(Reader(r))

ClientSpec == ClientInit /\ [][ClientNext]_clientVars /\ ClientFairness
-----------------------------------------------------------------------------
\* Neither what a reader is given nor what is displayed goes back to an older
\* frame, through the two rings, the queue and the decoder; and once the pump
\* was told to close at most one more image reaches the display, which is
\* torn down soon after.
DisplayInOrder ==
    [][/\ \A r \in Readers : seen'[r].n >= seen[r].n
       /\ pump_latest'.n >= pump_latest.n
       /\ sinkAfterClose' <= 1]_clientVars

\* A camera that sends is displayed, whatever silences there were before, as
\* long as the subscriber thread lives and the frames can be decoded: what is
\* queued for a poll without a packet holds up neither the decoder nor the
\* pump.  (MaxPackets stands for every later frame.)  Nothing is said of the
\* silence itself: the packet then says that there is no frame, but the
\* session looks only at the image, which stays.
FramesFlow == <>[][/\ receiver = "poll" /\ receiver' = "queue" => packet'.frame
                   /\ decoder = "write" /\ decoder' = "get" => bgr_ring'.frame
                  ]_<<receiver, decoder>>

DisplayFollows ==
    FramesFlow /\ <>[](session = "running" /\ receiver # "ended")
        => <>(pump_latest.n = MaxPackets)

\* The thread "handles receiving the latest message" until it is stopped
\* (image_client.py:374, 468): nothing the decoder does ends it.
ReceiverStays == receiver = "ended" => ~subscribed
=============================================================================
