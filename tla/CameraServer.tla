---------------------------- MODULE CameraServer ----------------------------
(***************************************************************************)
(* One camera of the image service: its supervisor thread                  *)
(* (ImageServer._camera_loop of imaging/image_server.py), the capture      *)
(* process it may own (realsense_worker.py, opencv_worker.py), the thread  *)
(* that publishes its frames, over ZMQ (image_client.py) or WebRTC, and    *)
(* the shutdown.                                                           *)
(*                                                                         *)
(* A frame is the number of the camera object that captured it and its     *)
(* sequence number, in which everything above MaxSequence counts as that.  *)
(* Pixels, encoding and the recording of timings are left out.  Every      *)
(* timeout may elapse, but not while the camera works: with a camera that  *)
(* works a start and a frame arrive in time.                               *)
(***************************************************************************)
EXTENDS Naturals, Sequences

CONSTANTS Kinds,        \* the kinds of camera configured
          Streams,      \* the ways to publish to consider
          MaxFaults,    \* bound: times the camera or a publisher fails
          MaxSequence,  \* bound: sequence numbers told apart
          QueueLimit    \* maxsize of the queue of a capture process (2)

ASSUME CameraAssumption ==
    /\ Kinds \subseteq {"isolated", "realsense", "opencv", "uvc", "isaacsim"}
    /\ Streams \subseteq {"zmq", "webrtc"}
    /\ MaxFaults \in Nat /\ MaxSequence \in Nat \ {0}
    /\ QueueLimit \in Nat \ {0}

NoFrame == <<0, 0>>

VARIABLES
    kind,        \* which camera this is
    stream,      \* and how it is published
    device,      \* whether the camera works
    faults,      \* how often it has failed (bound)
    blocked,     \* whether the supervisor is in a call that does not return
    place,       \* place of the supervisor thread
    attempt,     \* whether attempt is above zero
    was_online,
    camStatus,   \* the state in the status file
    camera,      \* number of the current camera object, odd while it is held
    ready,       \* its event: a frame was seen
    newest,      \* the newest frame in its buffer
    capture,     \* its capture process
    message,     \* what the process sent on its status connection
    captured,    \* last sequence number of the process
    frames,      \* the queue of the process
    slot,        \* the queue of the publisher thread, of one frame
    publisher,   \* the publisher thread of the manager
    wire,        \* the last frame sent, or put on the video track
    camStop, cleaned, managerOpen    \* shutdown

which      == <<kind, stream>>
supervisor == <<place, attempt, was_online, camStatus>>
object     == <<camera, ready, newest>>
process    == <<capture, message, captured, frames>>
publishing == <<slot, publisher, wire, managerOpen>>
hardware   == <<device, faults, blocked>>
cameraVars == <<kind, stream, device, faults, blocked, place, attempt,
                was_online, camStatus, camera, ready, newest, capture,
                message, captured, frames, slot, publisher, wire, camStop,
                cleaned, managerOpen>>

NoProcess == /\ capture = "none" /\ message = "none" /\ captured = 0
             /\ frames = <<>>

CameraInit ==
    /\ kind \in Kinds /\ stream \in Streams /\ device \in BOOLEAN /\ faults = 0
    /\ blocked = FALSE
    /\ place = "top" /\ attempt = 0 /\ was_online = FALSE
    /\ camStatus = "none"
    /\ camera = 0 /\ ready = FALSE /\ newest = NoFrame
    /\ NoProcess
    /\ slot = NoFrame /\ publisher = "none" /\ wire = NoFrame
    /\ camStop = FALSE /\ cleaned = FALSE /\ managerOpen = TRUE

Isolated == kind = "isolated"
Later(n) == IF n = MaxSequence THEN n ELSE n + 1

\* The camera is pulled out, put back, or hangs: a process that is in the
\* driver when the camera fails does not return from it.
CameraFails ==
    /\ device /\ faults < MaxFaults /\ faults' = faults + 1
    /\ device' = FALSE
    /\ \E hangs \in BOOLEAN :
          capture' = IF hangs /\ capture \in {"starting", "running"}
                     THEN "hung" ELSE capture
    /\ UNCHANGED <<which, blocked, supervisor, object, message, captured,
                   frames, publishing, camStop, cleaned>>

CameraReturns ==
    /\ ~device /\ device' = TRUE
    /\ UNCHANGED <<which, faults, blocked, supervisor, object, process,
                   publishing, camStop, cleaned>>

\* Without a process of its own a camera is opened, read and released in the
\* supervisor thread itself, which then hangs with the driver, for how long
\* ever.  (UVC cameras are not released: "may hang forever".)
DriverHangs ==
    /\ kind \in {"realsense", "opencv", "uvc"} /\ ~device /\ ~blocked
    /\ \/ place \in {"open", "update"}
       \/ place = "release" /\ kind # "uvc" /\ camera % 2 = 1
    /\ blocked' = TRUE
    /\ UNCHANGED <<which, device, faults, supervisor, object, process,
                   publishing, camStop, cleaned>>

DriverReturns ==
    /\ blocked /\ blocked' = FALSE
    /\ UNCHANGED <<which, device, faults, supervisor, object, process,
                   publishing, camStop, cleaned>>

-----------------------------------------------------------------------------
(* The capture process: _realsense_capture_entry, _opencv_capture_entry.   *)

CaptureOpens ==
    /\ capture = "starting"
    /\ IF device THEN capture' = "running" /\ message' = "ready"
                 ELSE capture' = "ended" /\ message' = "error"
    /\ UNCHANGED <<which, hardware, supervisor, object, captured, frames,
                   publishing, camStop, cleaned>>

\* _put_latest: what can be taken out of the queue is, and the new frame put
\* in.  The last frame may not have reached the pipe and stay: put_nowait
\* then finds the queue full, and the new frame is dropped.
put_latest(frame) ==
    \E kept \in {<<>>, frames} :
        frames' = IF Len(kept) = QueueLimit THEN kept ELSE Append(kept, frame)

CaptureFrame ==
    /\ capture = "running" /\ device
    /\ captured' = Later(captured)
    /\ put_latest(<<camera, captured'>>)
    /\ UNCHANGED <<which, hardware, supervisor, object, capture, message,
                   publishing, camStop, cleaned>>

\* The driver reports the failure: the process says so and ends.
CaptureFails ==
    /\ capture = "running" /\ ~device
    /\ capture' = "ended" /\ message' = "error"
    /\ UNCHANGED <<which, hardware, supervisor, object, captured, frames,
                   publishing, camStop, cleaned>>

\* CaptureProcess.close: stop, terminate, kill; the queue goes with it.
close == /\ capture' = "none" /\ message' = "none" /\ captured' = 0
         /\ frames' = <<>>

-----------------------------------------------------------------------------
(* The supervisor thread.                                                  *)

Goto(p) == place' = p

LoopTop ==
    /\ place = "top"
    /\ IF camStop THEN Goto("ended") /\ UNCHANGED camStatus
       ELSE /\ camStatus' = IF attempt = 0 THEN "DISCONNECTED"
                                           ELSE "RECONNECTING"
            /\ Goto("open")
    /\ UNCHANGED <<which, hardware, attempt, was_online, object, process,
                   publishing, camStop, cleaned>>

\* _create_camera: discovery, then the constructor.  A simulated camera is
\* there at once, and ready before its first frame.
OpenCamera ==
    /\ place = "open"
    /\ \/ /\ device \/ kind = "isaacsim"
          /\ camera' = camera + 1 /\ newest' = NoFrame
          /\ ready' = (kind = "isaacsim")
          /\ IF Isolated THEN Goto("starting") /\ capture' = "starting"
                         ELSE Goto("update") /\ UNCHANGED capture
       \/ /\ ~device /\ kind # "isaacsim" /\ Goto("failed")
          /\ UNCHANGED <<object, capture>>
    /\ UNCHANGED <<which, hardware, attempt, was_online, camStatus, message,
                   captured, frames, publishing, camStop, cleaned>>

\* CaptureProcess.start and the error path of the constructor, which closes
\* the process whatever the reason.
StartEnds ==
    /\ place = "starting"
    /\ \/ /\ message = "ready" /\ Goto("update") /\ message' = "none"
          /\ UNCHANGED <<camera, capture, captured, frames>>
       \/ /\ message = "error" \/ capture \in {"ended", "hung"} \/ ~device
          /\ Goto("failed") /\ camera' = camera + 1 /\ close
    /\ UNCHANGED <<which, hardware, attempt, was_online, camStatus, ready,
                   newest, publishing, camStop, cleaned>>

\* What an _update_frame may do: find a frame, return without one, or raise,
\* which the loop also does when the first frame does not come in time.
Finds(frame) == newest' = frame /\ ready' = TRUE /\ Goto("announce")

FindsNone(is_ready) ==
    /\ ready' = is_ready /\ Goto(IF is_ready THEN "announce" ELSE "update")
    /\ UNCHANGED newest

Raises == Goto("failed") /\ UNCHANGED <<ready, newest>>

\* _write_newest numbers the frames of a camera without a process.
Numbered == <<camera, Later(newest[2])>>

\* Mutant: a frame of the process is waited for until the process ends.
IsolatedUpdateForever ==
    \/ frames # <<>> /\ frames' = Tail(frames) /\ Finds(Head(frames))
    \/ /\ frames # <<>> /\ frames' = Tail(frames)
       /\ stream = "webrtc" /\ FindsNone(TRUE)
    \/ /\ frames = <<>> /\ capture = "ended" /\ Raises /\ UNCHANGED frames

\* The frame is read from the process, which has numbered it.  For WebRTC it
\* is decoded again, if it can be.
IsolatedUpdate ==
    \/ frames # <<>> /\ frames' = Tail(frames) /\ Finds(Head(frames))
    \/ /\ frames # <<>> /\ frames' = Tail(frames)
       /\ stream = "webrtc" /\ FindsNone(TRUE)
    \/ /\ frames = <<>> /\ (capture # "running" \/ ~device)
       /\ Raises /\ UNCHANGED frames

\* Frames may come without a colour frame.  One that cannot be encoded is
\* not there, and the camera is ready all the same; WebRTC takes it as it is.
RealSenseUpdate ==
    /\ \/ device /\ (Finds(Numbered) \/ FindsNone(ready))
       \/ device /\ stream = "zmq" /\ FindsNone(TRUE)
       \/ ~device /\ Raises
    /\ UNCHANGED frames

UVCUpdate ==
    /\ \/ device /\ (Finds(Numbered) \/ FindsNone(TRUE))
       \/ ~device /\ Raises
    /\ UNCHANGED frames

\* Read up to three times.
OpenCVUpdate ==
    /\ \/ device /\ Finds(Numbered)
       \/ device /\ stream = "zmq" /\ FindsNone(TRUE)
       \/ ~device /\ Raises
    /\ UNCHANGED frames

\* There is an image in the simulator's memory, or not yet.
IsaacSimUpdate == (Finds(Numbered) \/ FindsNone(ready)) /\ UNCHANGED frames

_update_frame == CASE kind = "isolated" -> IsolatedUpdate
                   [] kind = "realsense" -> RealSenseUpdate
                   [] kind = "uvc" -> UVCUpdate
                   [] kind = "opencv" -> OpenCVUpdate
                   [] kind = "isaacsim" -> IsaacSimUpdate

UpdateFrame ==
    /\ place = "update"
    /\ IF camStop THEN Goto("release") /\ UNCHANGED <<ready, newest, frames>>
       ELSE _update_frame
    /\ UNCHANGED <<which, hardware, attempt, was_online, camStatus, camera,
                   capture, message, captured, publishing, camStop, cleaned>>

AnnounceOnline ==
    /\ place = "announce" /\ Goto("publish")
    /\ was_online' = TRUE
    /\ IF was_online THEN UNCHANGED <<attempt, camStatus>>
                     ELSE attempt' = 0 /\ camStatus' = "ONLINE"
    /\ UNCHANGED <<which, hardware, object, process, publishing, camStop,
                   cleaned>>

\* ZMQ_PublisherManager.publish: a closed manager and a publisher that does
\* not start raise; a publisher that has ended stays in the table.  send
\* replaces what the thread has not taken.
PublishOverZmq ==
    \/ /\ managerOpen /\ Goto("update") /\ slot' = newest
       /\ publisher' = IF publisher = "none" THEN "running" ELSE publisher
       /\ UNCHANGED faults
    \/ /\ ~managerOpen /\ Goto("failed")
       /\ UNCHANGED <<slot, publisher, faults>>
    \/ /\ managerOpen /\ publisher = "none"
       /\ faults < MaxFaults /\ faults' = faults + 1
       /\ Goto("failed") /\ UNCHANGED <<slot, publisher>>

\* WebRTC_PublisherManager.publish: nothing of that reaches the loop.  send
\* looks at the queue before it replaces what is there.
PublishOverWebRtc ==
    \/ /\ managerOpen
       /\ publisher' = IF publisher = "none" THEN "running" ELSE publisher
       /\ IF slot = NoFrame THEN Goto("update") /\ slot' = newest
                            ELSE Goto("replace") /\ UNCHANGED slot
       /\ UNCHANGED faults
    \/ ~managerOpen /\ Goto("update") /\ UNCHANGED <<slot, publisher, faults>>
    \/ /\ managerOpen /\ publisher = "none"
       /\ faults < MaxFaults /\ faults' = faults + 1
       /\ Goto("update") /\ UNCHANGED <<slot, publisher>>

PublishFrame ==
    /\ place = "publish"
    /\ IF newest = NoFrame
       THEN Goto("update") /\ UNCHANGED <<slot, publisher, faults>>
       ELSE IF stream = "zmq" THEN PublishOverZmq ELSE PublishOverWebRtc
    /\ UNCHANGED <<which, device, attempt, was_online, camStatus, object,
                   process, wire, managerOpen, blocked, camStop, cleaned>>

\* When the thread has emptied the queue meanwhile the new frame is lost: the
\* Empty of get_nowait skips the put.
ReplaceFrame ==
    /\ place = "replace" /\ Goto("update")
    /\ slot' = IF slot = NoFrame THEN NoFrame ELSE newest
    /\ UNCHANGED <<which, hardware, attempt, was_online, camStatus,
                   object, process, publisher, wire, managerOpen, camStop,
                   cleaned>>

\* Mutant: the loop does not forget that it was online.
LoopFailedKeepsOnline ==
    /\ place = "failed" /\ Goto("backoff")
    /\ attempt' = 1 /\ camStatus' = "RECONNECTING"
    /\ UNCHANGED <<which, hardware, was_online, object, process, publishing,
                   camStop, cleaned>>

LoopFailed ==
    /\ place = "failed" /\ Goto("backoff")
    /\ was_online' = FALSE /\ attempt' = 1 /\ camStatus' = "RECONNECTING"
    /\ UNCHANGED <<which, hardware, object, process, publishing, camStop,
                   cleaned>>

\* The pause ends after its delay or with the service; the camera is held
\* until then.
BackoffEnds ==
    /\ place = "backoff" /\ Goto("release")
    /\ UNCHANGED <<which, hardware, attempt, was_online, camStatus, object,
                   process, publishing, camStop, cleaned>>

\* Mutant: the process is left to the next camera object.
ReleaseCameraOnly ==
    /\ place = "release" /\ Goto("top")
    /\ IF camera % 2 = 1 THEN camera' = camera + 1 ELSE UNCHANGED camera
    /\ newest' = NoFrame /\ ready' = FALSE
    /\ UNCHANGED <<which, hardware, attempt, was_online, camStatus, process,
                   publishing, camStop, cleaned>>

\* The finally clause, and release of the camera if there is one.
ReleaseCamera ==
    /\ place = "release" /\ Goto("top")
    /\ IF camera % 2 = 1 THEN camera' = camera + 1 ELSE UNCHANGED camera
    /\ newest' = NoFrame /\ ready' = FALSE
    /\ close
    /\ UNCHANGED <<which, hardware, attempt, was_online, camStatus, publishing,
                   camStop, cleaned>>

-----------------------------------------------------------------------------
(* The publisher thread, and the end of the service.                       *)

\* The frame is sent, or dropped: at the high water mark, or because it cannot
\* be converted for the video track.
SendFrame ==
    /\ publisher = "running" /\ slot # NoFrame /\ slot' = NoFrame
    /\ wire' \in {slot, wire}
    /\ UNCHANGED <<which, hardware, supervisor, object, process, publisher,
                   managerOpen, camStop, cleaned>>

\* A socket error ends the thread; the manager does not notice.  The WebRTC
\* thread survives what its loop meets.
PublisherDies ==
    /\ stream = "zmq" /\ publisher = "running"
    /\ faults < MaxFaults /\ faults' = faults + 1
    /\ publisher' = "dead"
    /\ UNCHANGED <<which, device, blocked, supervisor, object, process, slot,
                   wire, managerOpen, camStop, cleaned>>

StopService ==
    /\ ~camStop /\ camStop' = TRUE
    /\ UNCHANGED <<which, hardware, supervisor, object, process, publishing,
                   cleaned>>

\* _clean_up: the supervisor is given two seconds, and may still be anywhere
\* when the publishers are stopped.
CleanUp ==
    /\ camStop /\ ~cleaned /\ cleaned' = TRUE
    /\ managerOpen' = FALSE /\ publisher' = "none"
    /\ UNCHANGED <<which, hardware, supervisor, object, process, slot, wire,
                   camStop>>

Supervisor ==
    /\ ~blocked
    /\ \/ LoopTop \/ OpenCamera \/ StartEnds \/ UpdateFrame \/ AnnounceOnline
       \/ PublishFrame \/ ReplaceFrame \/ LoopFailed \/ BackoffEnds
       \/ ReleaseCamera

Capture == CaptureOpens \/ CaptureFrame \/ CaptureFails

CameraNext ==
    \/ CameraFails \/ CameraReturns \/ DriverHangs \/ DriverReturns
    \/ Supervisor \/ Capture \/ SendFrame \/ PublisherDies
    \/ StopService \/ CleanUp

\* Threads and processes run, but a call that hangs need not return; a frame
\* that arrives is not missed for ever.
CameraFairness ==
    /\ WF_cameraVars(Supervisor) /\ WF_cameraVars(Capture)
    /\ SF_cameraVars(place = "update" /\ Supervisor /\ place' = "announce")

CameraSpec == CameraInit /\ [][CameraNext]_cameraVars /\ CameraFairness
-----------------------------------------------------------------------------
Newer(f, g) == f[1] > g[1] \/ (f[1] = g[1] /\ f[2] >= g[2])

\* The status file and the stream agree: a frame is published only under
\* ONLINE, the pause before a retry is spent under RECONNECTING, and ONLINE
\* outlives the stream only while the failure is being handled or the service
\* ends.  (A status that stays ONLINE hides a lost camera from the operator.)
StatusFollowsStream ==
    /\ place = "publish" => camStatus = "ONLINE"
    /\ place = "backoff" => camStatus = "RECONNECTING"
    /\ camStatus = "ONLINE" =>
          place \in {"update", "announce", "publish", "replace", "failed"}
             \/ camStop

\* What reaches the subscribers never goes back to an older frame, over
\* reconnections too, and a camera is opened only when the process that held
\* it is gone: every way out of a start or a stream closes it.
OneCaptureInOrder ==
    [][/\ Newer(wire', wire)
       /\ capture' = "starting" => capture \in {"none", "starting"}]_cameraVars

\* "Unavailable cameras will reconnect indefinitely": a camera that works
\* again is ONLINE again, whatever the start, the driver or the loop were
\* doing when it failed, and one that is gone does not stay ONLINE.  (For a
\* camera with a capture process that holds also when its driver hangs, for
\* the process is killed; the others need the call to return.)
CameraRecovers ==
    /\ <>[](device /\ ~blocked /\ ~camStop) => <>[](camStatus = "ONLINE")
    /\ <>[](~device /\ ~blocked /\ ~camStop /\ kind # "isaacsim")
         => <>[](camStatus # "ONLINE")
=============================================================================
