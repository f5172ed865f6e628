--------------------------- MODULE Devices_proofs ---------------------------
(***************************************************************************)
(* What TLAPS proves of CameraServer, HandControl and DeviceStatus.  For   *)
(* every kind of camera, any number of failures, any range of sequence     *)
(* numbers and any length of the queue: the types, that the status file    *)
(* follows the stream, and that frames reach the subscribers in order, from*)
(* one capture process at a time.  For every hand controller: when close   *)
(* has returned, no Write to a hand begins, wherever the loop is.  For any *)
(* devices and clients: a failure that was told stays on record.           *)
(***************************************************************************)
EXTENDS DeviceStatus, CameraServer, HandControl, TLAPS

Places == {"top", "open", "starting", "update", "announce", "publish",
           "replace", "failed", "backoff", "release", "ended"}
FrameIds == Nat \X Nat

CameraTypeOK ==
    /\ kind \in Kinds /\ stream \in Streams
    /\ device \in BOOLEAN /\ faults \in 0..MaxFaults /\ blocked \in BOOLEAN
    /\ place \in Places /\ attempt \in {0, 1} /\ was_online \in BOOLEAN
    /\ camStatus \in {"none", "DISCONNECTED", "RECONNECTING", "ONLINE"}
    /\ camera \in Nat /\ ready \in BOOLEAN /\ newest \in FrameIds
    /\ capture \in {"none", "starting", "running", "hung", "ended"}
    /\ message \in {"none", "ready", "error"}
    /\ captured \in Nat /\ frames \in Seq(FrameIds)
    /\ slot \in FrameIds /\ wire \in FrameIds
    /\ publisher \in {"none", "running", "dead"}
    /\ camStop \in BOOLEAN /\ cleaned \in BOOLEAN /\ managerOpen \in BOOLEAN

(* The thread knows that it is online only under ONLINE; the status it sets *)
(* at the top of the loop stays until the stream is there; and it leaves a  *)
(* stream without a failure only when the service ends.                     *)
Announced ==
    /\ was_online => camStatus = "ONLINE"
    /\ place \in {"publish", "replace"} => camStatus = "ONLINE"
    /\ place \in {"open", "starting"} => camStatus # "ONLINE"
    /\ place = "backoff" => camStatus = "RECONNECTING"
    /\ place \in {"top", "release"} => camStatus # "ONLINE" \/ camStop
    /\ place = "ended" => camStop

-----------------------------------------------------------------------------
(* Where the objects are: a camera is held from its opening to its release, *)
(* a process only beside one, and a frame only of the camera that is held.  *)
Held ==
    /\ place \in {"top", "open"} => camera % 2 = 0 /\ capture = "none"
    /\ place \in {"starting", "update", "announce", "publish", "replace"}
          => camera % 2 = 1
    /\ place = "starting" => newest = NoFrame
    /\ newest # NoFrame => newest[1] = camera /\ camera % 2 = 1
    /\ capture = "none" => frames = <<>>
    /\ ~Isolated => capture = "none"

(* What waits in the queue of the process is in order, of the camera that   *)
(* is held, and not older than the newest frame taken out.                  *)
Waiting ==
    /\ \A i \in 1..Len(frames) :
          /\ frames[i][1] = camera
          /\ newest[2] <= frames[i][2] /\ frames[i][2] <= captured
    /\ \A i, j \in 1..Len(frames) : i < j => frames[i][2] <= frames[j][2]
    /\ capture # "none" => newest[2] <= captured

(* What the publisher has is behind what the supervisor has.                *)
Behind(f) == f[1] < camera \/ Newer(newest, f)

Published ==
    /\ Behind(slot) /\ Behind(wire)
    /\ slot # NoFrame => Newer(slot, wire)

InOrder == Held /\ Waiting /\ Published

-----------------------------------------------------------------------------
(* Facts about frames and queues.                                          *)
LEMMA NewerIsOrder ==
  ASSUME NEW f \in FrameIds, NEW g \in FrameIds, NEW h \in FrameIds
  PROVE  /\ Newer(f, f) /\ Newer(f, NoFrame)
         /\ Newer(f, g) /\ Newer(g, h) => Newer(f, h)
         /\ Newer(NoFrame, f) => f = NoFrame
         /\ f[1] \in Nat /\ f[2] \in Nat /\ NoFrame \in FrameIds
  BY DEF Newer, FrameIds, NoFrame

LEMMA QueueShrinks ==
  ASSUME NEW q \in Seq(FrameIds), q # <<>>
  PROVE  /\ Head(q) \in FrameIds /\ Head(q) = q[1] /\ 1 \in 1..Len(q)
         /\ Tail(q) \in Seq(FrameIds) /\ Len(Tail(q)) = Len(q) - 1
         /\ \A i \in 1..Len(Tail(q)) :
               /\ Tail(q)[i] = q[i + 1] /\ i + 1 \in 1..Len(q)
               /\ 1 < i + 1
  OBVIOUS

LEMMA QueueGrows ==
  ASSUME NEW q \in Seq(FrameIds), NEW f \in FrameIds
  PROVE  /\ Append(q, f) \in Seq(FrameIds) /\ Len(Append(q, f)) = Len(q) + 1
         /\ \A i \in 1..Len(q) : Append(q, f)[i] = q[i]
         /\ Append(q, f)[Len(q) + 1] = f
  OBVIOUS

LEMMA LaterIsLater ==
  ASSUME NEW n \in Nat
  PROVE  Later(n) \in Nat /\ n <= Later(n)
  BY CameraAssumption DEF Later

LEMMA NothingWaits ==
  /\ <<>> \in Seq(FrameIds) /\ Len(<<>>) = 0
  /\ NoFrame \in FrameIds /\ NoFrame[1] = 0 /\ NoFrame[2] = 0
  BY DEF NoFrame, FrameIds

-----------------------------------------------------------------------------
(* The variables have their types: `CameraTypeOK`.                         *)
LEMMA CameraInitTyped == CameraInit => CameraTypeOK
<1> SUFFICES ASSUME CameraInit PROVE CameraTypeOK
  OBVIOUS
<1>1. place \in Places /\ faults \in 0..MaxFaults /\ camera \in Nat
  BY CameraAssumption DEF CameraInit, Places
<1>2. /\ captured \in Nat /\ frames \in Seq(FrameIds)
      /\ newest \in FrameIds /\ slot \in FrameIds /\ wire \in FrameIds
  BY NothingWaits DEF CameraInit, NoProcess
<1> QED BY <1>1, <1>2 DEF CameraInit, CameraTypeOK, NoProcess

(* What an update may do, whatever the camera: take a frame from the queue  *)
(* of the process, number one, or neither.                                  *)
LEMMA UpdateOutcomes ==
  ASSUME CameraTypeOK, UpdateFrame
  PROVE  /\ place = "update"
         /\ \/ /\ camStop /\ place' = "release"
               /\ UNCHANGED <<ready, newest, frames>>
            \/ /\ Isolated /\ frames # <<>> /\ place' = "announce"
               /\ newest' = Head(frames) /\ frames' = Tail(frames)
            \/ /\ ~Isolated /\ place' = "announce"
               /\ newest' = Numbered /\ frames' = frames
            \/ /\ place' \in {"update", "announce", "failed"}
               /\ newest' = newest
               /\ \/ frames' = frames
                  \/ Isolated /\ frames # <<>> /\ frames' = Tail(frames)
         /\ ready' \in BOOLEAN
         /\ UNCHANGED <<which, hardware, attempt, was_online, camStatus,
                        camera, capture, message, captured, publishing,
                        camStop, cleaned>>
<1> USE DEF CameraTypeOK, UpdateFrame, Finds, FindsNone, Raises, Goto
<1>1. CASE camStop
  BY <1>1
<1>2. CASE ~camStop /\ kind = "isolated"
  BY <1>2 DEF _update_frame, IsolatedUpdate, Isolated
<1>3. CASE ~camStop /\ kind = "realsense"
  BY <1>3 DEF _update_frame, RealSenseUpdate, Isolated
<1>4. CASE ~camStop /\ kind = "uvc"
  BY <1>4 DEF _update_frame, UVCUpdate, Isolated
<1>5. CASE ~camStop /\ kind = "opencv"
  BY <1>5 DEF _update_frame, OpenCVUpdate, Isolated
<1>6. CASE ~camStop /\ kind = "isaacsim"
  BY <1>6 DEF _update_frame, IsaacSimUpdate, Isolated
<1> QED BY <1>1, <1>2, <1>3, <1>4, <1>5, <1>6, CameraAssumption

LEMMA CameraStepTyped == CameraTypeOK /\ [CameraNext]_cameraVars => CameraTypeOK'
<1> SUFFICES ASSUME CameraTypeOK, [CameraNext]_cameraVars
             PROVE  CameraTypeOK'
  OBVIOUS
<1> USE DEF CameraTypeOK, which, supervisor, object, process, publishing,
            hardware
<1>1. CASE CameraFails
  <2>1. faults' \in 0..MaxFaults
    BY <1>1, CameraAssumption DEF CameraFails
  <2>2. capture' \in {"none", "starting", "running", "hung", "ended"}
    BY <1>1 DEF CameraFails
  <2>3. /\ device' \in BOOLEAN
        /\ UNCHANGED <<which, blocked, supervisor, object, message, captured,
                       frames, publishing, camStop, cleaned>>
    BY <1>1 DEF CameraFails
  <2> QED BY <2>1, <2>2, <2>3
<1>2. CASE CameraReturns \/ DriverHangs \/ DriverReturns
  <2>1. /\ device' \in BOOLEAN /\ blocked' \in BOOLEAN
        /\ UNCHANGED <<which, faults, supervisor, object, process,
                       publishing, camStop, cleaned>>
    BY <1>2 DEF CameraReturns, DriverHangs, DriverReturns
  <2> QED BY <2>1
<1>3. CASE LoopTop
  BY <1>3 DEF LoopTop, Goto, Places
<1>4. CASE OpenCamera
  <2>1. place' \in Places
    BY <1>4 DEF OpenCamera, Goto, Places
  <2>2. camera' \in Nat
    BY <1>4 DEF OpenCamera
  <2>3. ready' \in BOOLEAN /\ newest' \in FrameIds
    BY <1>4, NothingWaits DEF OpenCamera
  <2>4. capture' \in {capture, "starting"}
    BY <1>4 DEF OpenCamera
  <2> QED BY <1>4, <2>1, <2>2, <2>3, <2>4 DEF OpenCamera
<1>5. CASE StartEnds
  <2>1. place' \in Places
    BY <1>5 DEF StartEnds, Goto, Places
  <2>2. camera' \in Nat
    BY <1>5 DEF StartEnds
  <2>3. message' = "none"
    BY <1>5 DEF StartEnds, close
  <2>4. UNCHANGED <<which, hardware, attempt, was_online, camStatus, ready,
                    newest, publishing, camStop, cleaned>>
    BY <1>5 DEF StartEnds
  <2>5. capture' \in {"none", "starting", "running", "hung", "ended"}
    BY <1>5 DEF StartEnds, close
  <2>6. captured' \in Nat
    BY <1>5 DEF StartEnds, close
  <2>7. frames' \in Seq(FrameIds)
    BY <1>5, NothingWaits DEF StartEnds, close
  <2> QED BY <2>1, <2>2, <2>3, <2>4, <2>5, <2>6, <2>7
<1>6. CASE UpdateFrame
  <2> DEFINE number == Numbered
  <2>1. number \in FrameIds
    <3>1. newest[2] \in Nat
      BY DEF FrameIds
    <3> QED BY <3>1, LaterIsLater DEF Numbered, FrameIds
  <2>2. frames # <<>> => Head(frames) \in FrameIds /\ Tail(frames) \in Seq(FrameIds)
    BY QueueShrinks
  <2>3. place' \in Places
    BY <1>6, UpdateOutcomes DEF Places
  <2>4. newest' \in FrameIds /\ frames' \in Seq(FrameIds)
    BY <1>6, UpdateOutcomes, <2>1, <2>2
  <2> QED BY <1>6, UpdateOutcomes, <2>3, <2>4
<1>7. CASE AnnounceOnline
  BY <1>7 DEF AnnounceOnline, Goto, Places
<1>8. CASE PublishFrame
  BY <1>8, CameraAssumption DEF PublishFrame, PublishOverZmq, PublishOverWebRtc, Goto, Places
<1>9. CASE ReplaceFrame
  BY <1>9, NothingWaits DEF ReplaceFrame, Goto, Places
<1>10. CASE LoopFailed
  BY <1>10 DEF LoopFailed, Goto, Places
<1>11. CASE BackoffEnds
  BY <1>11 DEF BackoffEnds, Goto, Places
<1>12. CASE ReleaseCamera
  <2>1. place' \in Places
    BY <1>12 DEF ReleaseCamera, Goto, Places
  <2>2. camera' \in Nat
    BY <1>12 DEF ReleaseCamera
  <2>3. capture' = "none" /\ message' = "none" /\ captured' = 0 /\ frames' = <<>>
    BY <1>12 DEF ReleaseCamera, close
  <2> QED BY <1>12, <2>1, <2>2, <2>3, NothingWaits DEF ReleaseCamera
<1>13. CASE CaptureOpens
  BY <1>13 DEF CaptureOpens
<1>14. CASE CaptureFrame
  <2>1. <<camera, captured'>> \in FrameIds /\ captured' \in Nat
    BY <1>14, LaterIsLater DEF CaptureFrame, FrameIds
  <2>2. frames' \in Seq(FrameIds)
    <3>1. \A kept \in {<<>>, frames} :
             Append(kept, <<camera, captured'>>) \in Seq(FrameIds)
      BY <2>1, QueueGrows, NothingWaits
    <3> QED BY <1>14, <3>1, NothingWaits DEF CaptureFrame, put_latest
  <2> QED
    BY <1>14, <2>1, <2>2 DEF CaptureFrame
<1>15. CASE CaptureFails
  BY <1>15 DEF CaptureFails
<1>16. CASE SendFrame
  BY <1>16, NothingWaits DEF SendFrame
<1>17. CASE PublisherDies
  BY <1>17, CameraAssumption DEF PublisherDies
<1>18. CASE StopService
  BY <1>18 DEF StopService
<1>19. CASE CleanUp
  BY <1>19 DEF CleanUp
<1>20. CASE UNCHANGED cameraVars
  BY <1>20 DEF cameraVars
<1> QED
  BY <1>1, <1>2, <1>3, <1>4, <1>5, <1>6, <1>7, <1>8, <1>9, <1>10, <1>11,
     <1>12, <1>13, <1>14, <1>15, <1>16, <1>17, <1>18, <1>19, <1>20
  DEF CameraNext, Supervisor, Capture

(* Every variable of the camera service keeps its type, for every kind of   *)
(* camera and any number of failures.                                      *)
THEOREM CameraTypeCorrect == CameraSpec => []CameraTypeOK
  BY CameraInitTyped, CameraStepTyped, PTL DEF CameraSpec

-----------------------------------------------------------------------------
(* The status follows the stream: `StatusFollowsStream`, from `Announced`.  *)
LEMMA AnnouncedStep ==
  CameraTypeOK /\ Announced /\ [CameraNext]_cameraVars => Announced'
<1> SUFFICES ASSUME CameraTypeOK, Announced, [CameraNext]_cameraVars
             PROVE  Announced'
  OBVIOUS
<1> USE DEF Announced, Goto
<1>1. CASE UNCHANGED <<supervisor, camStop>>
  BY <1>1 DEF supervisor
<1>2. CASE LoopTop
  BY <1>2 DEF LoopTop
<1>3. CASE OpenCamera
  BY <1>3 DEF OpenCamera
<1>4. CASE StartEnds
  BY <1>4 DEF StartEnds
<1>5. CASE UpdateFrame
  BY <1>5, UpdateOutcomes
<1>6. CASE AnnounceOnline
  BY <1>6 DEF AnnounceOnline
<1>7. CASE PublishFrame
  BY <1>7 DEF PublishFrame, PublishOverZmq, PublishOverWebRtc
<1>8. CASE ReplaceFrame
  BY <1>8 DEF ReplaceFrame
<1>9. CASE LoopFailed
  BY <1>9 DEF LoopFailed
<1>10. CASE BackoffEnds
  BY <1>10 DEF BackoffEnds
<1>11. CASE ReleaseCamera
  BY <1>11 DEF ReleaseCamera
<1>12. CASE StopService
  BY <1>12 DEF StopService, supervisor
<1>13. ASSUME \/ CameraFails \/ CameraReturns \/ DriverHangs \/ DriverReturns
              \/ Capture \/ SendFrame \/ PublisherDies \/ CleanUp
       PROVE  UNCHANGED <<supervisor, camStop>>
  BY <1>13 DEF CameraFails, CameraReturns, DriverHangs, DriverReturns,
     Capture, CaptureOpens, CaptureFrame, CaptureFails, SendFrame,
     PublisherDies, CleanUp
<1> QED
  BY <1>1, <1>2, <1>3, <1>4, <1>5, <1>6, <1>7, <1>8, <1>9, <1>10, <1>11,
     <1>12, <1>13
  DEF CameraNext, Supervisor, cameraVars, supervisor

(* Frames are published only under ONLINE, and ONLINE outlives the stream   *)
(* only until the failure is handled or the service has ended: the          *)
(* invariant of _camera_loop's status file.                                 *)
THEOREM StatusIsTrue == CameraSpec => []StatusFollowsStream
<1>1. CameraInit => Announced
  BY DEF CameraInit, Announced
<1>2. CameraTypeOK /\ Announced => StatusFollowsStream
  BY DEF CameraTypeOK, Announced, StatusFollowsStream, Places
<1> QED
  BY <1>1, <1>2, CameraTypeCorrect, AnnouncedStep, PTL DEF CameraSpec

-----------------------------------------------------------------------------
(* Frames in order: the parts of `InOrder`.                                 *)

(* No step changes which camera this is.                                    *)
LEMMA KindStays ==
  ASSUME [CameraNext]_cameraVars
  PROVE  Isolated' = Isolated
<1> USE DEF Isolated, which
<1>1. CASE Capture
  BY <1>1 DEF Capture, CaptureOpens, CaptureFrame, CaptureFails
<1>2. CASE LoopTop \/ OpenCamera \/ StartEnds \/ UpdateFrame
  BY <1>2 DEF LoopTop, OpenCamera, StartEnds, UpdateFrame
<1>3. CASE AnnounceOnline \/ PublishFrame \/ ReplaceFrame
  BY <1>3 DEF AnnounceOnline, PublishFrame, ReplaceFrame
<1>4. CASE LoopFailed \/ BackoffEnds \/ ReleaseCamera
  BY <1>4 DEF LoopFailed, BackoffEnds, ReleaseCamera
<1>5. CASE \/ CameraFails \/ CameraReturns \/ DriverHangs \/ DriverReturns
           \/ SendFrame \/ PublisherDies \/ StopService \/ CleanUp
           \/ UNCHANGED cameraVars
  BY <1>5 DEF CameraFails, CameraReturns, DriverHangs, DriverReturns,
     SendFrame, PublisherDies, StopService, CleanUp, cameraVars
<1> QED BY <1>1, <1>2, <1>3, <1>4, <1>5 DEF CameraNext, Supervisor

LEMMA Parity ==
  ASSUME NEW n \in Nat
  PROVE  /\ n % 2 = 0 \/ n % 2 = 1
         /\ n % 2 = 0 => (n + 1) % 2 = 1
         /\ n % 2 = 1 => (n + 1) % 2 = 0
  OBVIOUS

LEMMA HeldStep ==
  CameraTypeOK /\ Held /\ Waiting /\ [CameraNext]_cameraVars => Held'
<1> SUFFICES ASSUME CameraTypeOK, Held, Waiting, [CameraNext]_cameraVars
             PROVE  Held'
  OBVIOUS
<1>0. /\ camera \in Nat /\ Isolated' = Isolated
      /\ camera % 2 = 0 \/ camera % 2 = 1
      /\ camera % 2 = 0 => (camera + 1) % 2 = 1
      /\ camera % 2 = 1 => (camera + 1) % 2 = 0
  BY KindStays, Parity DEF CameraTypeOK
<1> USE DEF Held, Goto, process, object
<1>1. CASE LoopTop
  BY <1>1, <1>0 DEF LoopTop
<1>2. CASE OpenCamera
  BY <1>2, <1>0 DEF OpenCamera
<1>3. CASE StartEnds
  BY <1>3, <1>0 DEF StartEnds, close
<1>4. CASE UpdateFrame
  <2>1. frames # <<>> => Head(frames)[1] = camera
    BY QueueShrinks DEF CameraTypeOK, Waiting
  <2> QED BY <1>4, <1>0, <2>1, UpdateOutcomes DEF Numbered
<1>5. CASE AnnounceOnline
  BY <1>5, <1>0 DEF AnnounceOnline
<1>6. CASE PublishFrame
  BY <1>6, <1>0 DEF PublishFrame, PublishOverZmq, PublishOverWebRtc
<1>7. CASE ReplaceFrame
  BY <1>7, <1>0 DEF ReplaceFrame
<1>8. CASE LoopFailed
  BY <1>8, <1>0 DEF LoopFailed
<1>9. CASE BackoffEnds
  BY <1>9, <1>0 DEF BackoffEnds
<1>10. CASE ReleaseCamera
  BY <1>10, <1>0 DEF ReleaseCamera, close
<1>11. CASE CaptureOpens
  BY <1>11, <1>0 DEF CaptureOpens, supervisor
<1>12. CASE CaptureFrame
  BY <1>12, <1>0 DEF CaptureFrame, supervisor
<1>13. CASE CaptureFails
  BY <1>13, <1>0 DEF CaptureFails, supervisor
<1>14. CASE CameraFails
  BY <1>14, <1>0 DEF CameraFails, supervisor
<1>15. CASE UNCHANGED <<place, object, process>>
  BY <1>15, <1>0
<1>16. ASSUME \/ CameraReturns \/ DriverHangs \/ DriverReturns \/ SendFrame
              \/ PublisherDies \/ StopService
              \/ CleanUp \/ UNCHANGED cameraVars
       PROVE  UNCHANGED <<place, object, process>>
  BY <1>16 DEF CameraReturns, DriverHangs, DriverReturns, SendFrame,
     PublisherDies, StopService, CleanUp,
     cameraVars, supervisor
<1> QED
  BY <1>1, <1>2, <1>3, <1>4, <1>5, <1>6, <1>7, <1>8, <1>9, <1>10, <1>11,
     <1>12, <1>13, <1>14, <1>15, <1>16
  DEF CameraNext, Supervisor, Capture

LEMMA WaitingStep ==
  CameraTypeOK /\ Held /\ Waiting /\ [CameraNext]_cameraVars => Waiting'
<1> SUFFICES ASSUME CameraTypeOK, Held, Waiting, [CameraNext]_cameraVars
             PROVE  Waiting'
  OBVIOUS
<1>0. /\ captured \in Nat /\ frames \in Seq(FrameIds)
      /\ newest \in FrameIds /\ newest[2] \in Nat
  BY DEF CameraTypeOK, FrameIds
<1>e. capture' = "none" /\ frames' = <<>> => Waiting'
  BY DEF Waiting
<1>1. CASE UNCHANGED <<object, process>>
  BY <1>1 DEF Waiting, object, process
<1>2. CASE OpenCamera
  BY <1>2, <1>0, NothingWaits DEF OpenCamera, Held, Waiting
<1>3. CASE StartEnds
  BY <1>3, <1>e DEF StartEnds, close, Waiting
<1>4. CASE UpdateFrame
  <2>1. CASE newest' = newest /\ frames' = frames
    BY <1>4, <2>1, UpdateOutcomes DEF Waiting
  <2>2. CASE ~Isolated
    BY <1>4, <2>2, <1>e, UpdateOutcomes DEF Held
  <2>3. CASE /\ frames # <<>> /\ frames' = Tail(frames)
             /\ newest' = newest \/ newest' = Head(frames)
    <3>1. /\ captured' = captured /\ camera' = camera
          /\ newest'[2] = newest[2] \/ newest'[2] = frames[1][2]
      BY <1>4, <2>3, UpdateOutcomes, QueueShrinks, <1>0
    <3>2. \A i \in 1..Len(frames') :
             /\ frames'[i] = frames[i + 1]
             /\ i + 1 \in 1..Len(frames) /\ 1 < i + 1
      BY <2>3, <1>0, QueueShrinks
    <3>3. 1 \in 1..Len(frames)
      BY <2>3, <1>0, QueueShrinks
    <3>4. /\ \A i \in 1..Len(frames') :
                 frames'[i][1] = camera /\ frames'[i][2] <= captured
          /\ newest'[2] <= captured
      <4>1. frames[1][2] <= captured /\ newest[2] <= captured
        BY <2>3, <3>3 DEF Waiting, Held
      <4> QED BY <4>1, <3>1, <3>2 DEF Waiting
    <3>5. ASSUME NEW i \in 1..Len(frames')
          PROVE  newest'[2] <= frames'[i][2]
      <4>1. /\ newest[2] <= frames[i + 1][2]
            /\ frames[1][2] <= frames[i + 1][2]
        BY <3>2, <3>3 DEF Waiting
      <4> QED BY <4>1, <3>1, <3>2
    <3>6. ASSUME NEW i \in 1..Len(frames'), NEW j \in 1..Len(frames'), i < j
          PROVE  frames'[i][2] <= frames'[j][2]
      BY <3>2, <3>6 DEF Waiting
    <3> QED BY <3>1, <3>4, <3>5, <3>6 DEF Waiting
  <2> QED BY <1>4, <2>1, <2>2, <2>3, UpdateOutcomes
<1>5. CASE ReleaseCamera
  BY <1>5, <1>e DEF ReleaseCamera, close
<1>6. CASE CaptureOpens
  BY <1>6 DEF CaptureOpens, Waiting, object
<1>7. CASE CaptureFails
  BY <1>7 DEF CaptureFails, Waiting, object
<1>8. CASE CameraFails
  BY <1>8 DEF CameraFails, Waiting, object
<1>9. CASE CaptureFrame
  <2>1. /\ captured' \in Nat /\ captured <= captured' /\ newest[2] <= captured
        /\ newest' = newest /\ camera' = camera /\ capture' = capture
    BY <1>9, <1>0, LaterIsLater DEF CaptureFrame, Waiting, object
  <2> DEFINE new == <<camera, captured'>>
  <2>2. new \in FrameIds /\ new[1] = camera /\ new[2] = captured'
    BY <2>1 DEF CameraTypeOK, FrameIds
  <2>3. PICK kept \in {<<>>, frames} : frames' \in {kept, Append(kept, new)}
    BY <1>9 DEF CaptureFrame, put_latest
  <2>4. /\ kept \in Seq(FrameIds)
        /\ \A i \in 1..Len(kept) :
              /\ kept[i][1] = camera
              /\ newest[2] <= kept[i][2] /\ kept[i][2] <= captured
        /\ \A i, j \in 1..Len(kept) : i < j => kept[i][2] <= kept[j][2]
    <3>1. CASE kept = frames
      BY <3>1, <1>0 DEF Waiting
    <3>2. CASE kept = <<>>
      BY <3>2, NothingWaits
    <3> QED BY <3>1, <3>2
  <2>5. \A i \in 1..Len(kept) : kept[i][2] \in Nat
    BY <2>4 DEF FrameIds
  <2>6. CASE frames' = kept
    BY <2>6, <2>1, <2>4, <2>5, <1>0 DEF Waiting
  <2>7. CASE frames' = Append(kept, new)
    <3>1. /\ Len(frames') = Len(kept) + 1 /\ Len(kept) \in Nat
          /\ \A i \in 1..Len(kept) : frames'[i] = kept[i]
          /\ frames'[Len(kept) + 1] = new
      BY <2>7, <2>2, <2>4, QueueGrows
    <3>2. \A i \in 1..Len(frames') : i \in 1..Len(kept) \/ frames'[i] = new
      BY <3>1
    <3>3. \A i \in 1..Len(frames') :
             /\ frames'[i][1] = camera
             /\ newest[2] <= frames'[i][2] /\ frames'[i][2] <= captured'
      BY <3>1, <3>2, <2>1, <2>2, <2>4, <2>5, <1>0
    <3>4. ASSUME NEW i \in 1..Len(frames'), NEW j \in 1..Len(frames'), i < j
          PROVE  frames'[i][2] <= frames'[j][2]
      <4>1. CASE j \in 1..Len(kept)
        BY <4>1, <3>1, <3>4, <2>4
      <4>2. CASE frames'[j] = new
        BY <4>2, <3>3, <2>2
      <4> QED BY <4>1, <4>2, <3>2
    <3> QED BY <3>3, <3>4, <2>1, <1>0 DEF Waiting
  <2> QED BY <2>3, <2>6, <2>7
<1>10. ASSUME \/ LoopTop \/ AnnounceOnline \/ PublishFrame \/ ReplaceFrame
              \/ LoopFailed \/ BackoffEnds \/ CameraReturns
              \/ DriverHangs \/ DriverReturns \/ SendFrame \/ PublisherDies
              \/ StopService \/ CleanUp
              \/ UNCHANGED cameraVars
       PROVE  UNCHANGED <<object, process>>
  BY <1>10 DEF LoopTop, AnnounceOnline, PublishFrame, ReplaceFrame, LoopFailed,
     BackoffEnds, CameraReturns, DriverHangs, DriverReturns, SendFrame,
     PublisherDies, StopService, CleanUp, cameraVars, object, process
<1> QED
  BY <1>1, <1>2, <1>3, <1>4, <1>5, <1>6, <1>7, <1>8, <1>9, <1>10
  DEF CameraNext, Supervisor, Capture

(* The publisher stays behind the supervisor.  The cases: a new object, a   *)
(* new frame, a frame handed over, a frame sent.                            *)
LEMMA PublishedStep ==
  CameraTypeOK /\ InOrder /\ [CameraNext]_cameraVars => Published'
<1> SUFFICES ASSUME CameraTypeOK, InOrder, [CameraNext]_cameraVars
             PROVE  Published'
  OBVIOUS
<1>0. /\ camera \in Nat /\ newest \in FrameIds /\ slot \in FrameIds
      /\ wire \in FrameIds /\ NoFrame \in FrameIds
      /\ newest[1] \in Nat /\ newest[2] \in Nat /\ slot[1] \in Nat
      /\ slot[2] \in Nat /\ wire[1] \in Nat /\ wire[2] \in Nat
      /\ NoFrame[1] = 0 /\ NoFrame[2] = 0
  BY NothingWaits, NewerIsOrder DEF CameraTypeOK
<1>1. CASE UNCHANGED <<camera, newest, slot, wire>>
  BY <1>1 DEF InOrder, Published, Behind
(* The number of the object grows, and its first frame is yet to come.      *)
<1>2. ASSUME camera' = camera + 1, newest' = NoFrame \/ newest' = newest,
             UNCHANGED <<slot, wire>>
      PROVE  Published'
  <2>1. ASSUME NEW f \in FrameIds, Behind(f)
        PROVE  f[1] < camera'
    BY <1>0, <1>2, <2>1 DEF Behind, Newer, InOrder, Held, FrameIds
  <2> QED BY <1>0, <1>2, <2>1 DEF InOrder, Published, Behind
(* A newer frame takes the place of the newest.                             *)
<1>3. ASSUME newest' \in FrameIds, Newer(newest', newest),
             UNCHANGED <<camera, slot, wire>>
      PROVE  Published'
  BY <1>0, <1>3, NewerIsOrder DEF InOrder, Published, Behind
<1>4. CASE OpenCamera
  BY <1>1, <1>2, <1>4 DEF OpenCamera, publishing, object
<1>5. CASE StartEnds
  BY <1>1, <1>2, <1>5 DEF StartEnds, publishing
<1>6. CASE UpdateFrame
  <2>1. CASE newest' = newest
    BY <1>1, <1>6, <2>1, UpdateOutcomes DEF publishing
  <2>2. CASE Isolated /\ frames # <<>> /\ newest' = Head(frames)
    <3>1. newest' \in FrameIds /\ newest' = frames[1] /\ 1 \in 1..Len(frames)
      BY <2>2, QueueShrinks DEF CameraTypeOK
    <3>2. newest'[1] = camera /\ newest[2] <= newest'[2]
      BY <3>1 DEF InOrder, Waiting
    <3>3. Newer(newest', newest)
      BY <3>2, <3>1, <1>0, NewerIsOrder DEF Newer, InOrder, Held
    <3> QED BY <1>3, <1>6, <3>1, <3>3, UpdateOutcomes DEF publishing
  <2>3. CASE newest' = Numbered
    <3>1. /\ newest'[1] = camera /\ newest[2] <= newest'[2]
          /\ newest' \in FrameIds
      BY <2>3, <1>0, LaterIsLater DEF Numbered, FrameIds
    <3>2. newest[1] <= camera
      BY <1>0 DEF InOrder, Held
    <3>3. Newer(newest', newest)
      BY <3>1, <3>2, <1>0, NewerIsOrder DEF Newer
    <3> QED BY <1>3, <1>6, <3>1, <3>3, UpdateOutcomes DEF publishing
  <2> QED BY <1>6, <2>1, <2>2, <2>3, UpdateOutcomes
<1>7. CASE ReleaseCamera
  <2>1. CASE camera % 2 = 1
    BY <1>2, <1>7, <2>1 DEF ReleaseCamera, publishing
  <2>2. CASE camera % 2 # 1
    BY <1>1, <1>7, <2>2 DEF ReleaseCamera, publishing, InOrder, Held
  <2> QED BY <2>1, <2>2
(* The newest frame is handed over.                                         *)
<1>8. ASSUME slot' \in {slot, newest, NoFrame}, UNCHANGED <<camera, newest, wire>>
      PROVE  Published'
  <2>1. Behind(newest) /\ Behind(NoFrame)
    BY <1>0, NewerIsOrder DEF Behind
  <2>2. newest # NoFrame => Newer(newest, wire)
    BY <1>0 DEF InOrder, Published, Behind, Newer, Held
  <2> QED BY <1>8, <2>1, <2>2 DEF InOrder, Published, Behind
<1>9. CASE PublishFrame
  BY <1>8, <1>9 DEF PublishFrame, PublishOverZmq, PublishOverWebRtc, object
<1>10. CASE ReplaceFrame
  BY <1>8, <1>10 DEF ReplaceFrame, object
<1>11. CASE SendFrame
  BY <1>11, <1>0, NewerIsOrder
  DEF SendFrame, InOrder, Published, Behind, object
<1>12. ASSUME \/ LoopTop \/ AnnounceOnline \/ LoopFailed \/ BackoffEnds
              \/ CameraReturns \/ DriverHangs \/ DriverReturns \/ CameraFails
              \/ Capture \/ PublisherDies \/ StopService \/ CleanUp
              \/ UNCHANGED cameraVars
       PROVE  UNCHANGED <<camera, newest, slot, wire>>
  BY <1>12 DEF LoopTop, AnnounceOnline, LoopFailed, BackoffEnds,
     CameraReturns, DriverHangs, DriverReturns, CameraFails, Capture,
     CaptureOpens, CaptureFrame, CaptureFails,
     PublisherDies, StopService, CleanUp, cameraVars, object, publishing
<1> QED
  BY <1>1, <1>4, <1>5, <1>6, <1>7, <1>9, <1>10, <1>11, <1>12
  DEF CameraNext, Supervisor

(* Frames reach the subscribers in order, and a capture process is started  *)
(* only when there is none: what the reconnections of _camera_loop keep.    *)
THEOREM FramesInOrder == CameraSpec => OneCaptureInOrder
<1>1. CameraInit => InOrder
  BY NothingWaits, NewerIsOrder
  DEF CameraInit, NoProcess, InOrder, Held, Waiting, Published, Behind
<1>2. CameraTypeOK /\ InOrder /\ [CameraNext]_cameraVars => InOrder'
  BY HeldStep, WaitingStep, PublishedStep DEF InOrder
<1>3. CameraTypeOK /\ InOrder /\ [CameraNext]_cameraVars
        => [/\ Newer(wire', wire)
            /\ capture' = "starting"
                  => capture \in {"none", "starting"}]_cameraVars
  <2> SUFFICES ASSUME CameraTypeOK, InOrder, CameraNext
               PROVE  /\ Newer(wire', wire)
                      /\ capture' = "starting"
                            => capture \in {"none", "starting"}
    OBVIOUS
  <2>1. wire \in FrameIds /\ slot \in FrameIds
    BY DEF CameraTypeOK
  <2>2. CASE SendFrame
    BY <2>1, <2>2, NewerIsOrder
    DEF SendFrame, InOrder, Published, process
  <2>3. CASE OpenCamera
    BY <2>1, <2>3, NewerIsOrder DEF OpenCamera, InOrder, Held, publishing
  <2>4. ASSUME wire' = wire, capture' = capture \/ capture' # "starting"
        PROVE  /\ Newer(wire', wire)
               /\ capture' = "starting" => capture \in {"none", "starting"}
    BY <2>1, <2>4, NewerIsOrder
  <2>5. CASE StartEnds \/ ReleaseCamera \/ UpdateFrame
    BY <2>4, <2>5, UpdateOutcomes
    DEF StartEnds, ReleaseCamera, close, publishing
  <2>6. CASE CameraFails \/ Capture
    BY <2>4, <2>6 DEF CameraFails, Capture, CaptureOpens, CaptureFrame,
       CaptureFails, publishing
  <2>7. CASE \/ LoopTop \/ AnnounceOnline \/ PublishFrame \/ ReplaceFrame
             \/ LoopFailed \/ BackoffEnds \/ CameraReturns \/ DriverHangs
             \/ DriverReturns \/ PublisherDies \/ StopService \/ CleanUp
    BY <2>4, <2>7 DEF LoopTop, AnnounceOnline, PublishFrame, ReplaceFrame,
       LoopFailed, BackoffEnds, CameraReturns, DriverHangs, DriverReturns,
       PublisherDies, StopService, CleanUp, publishing, process
  <2> QED
    BY <2>2, <2>3, <2>5, <2>6, <2>7 DEF CameraNext, Supervisor
<1> QED
  BY <1>1, <1>2, <1>3, CameraTypeCorrect, PTL DEF CameraSpec, OneCaptureInOrder

-----------------------------------------------------------------------------
(* close returns with both publishers closed and nothing opens one again;   *)
(* only the BrainCo controllers are closed.                                 *)
ClosedIsClosed ==
    /\ closing = "closed" => endpoints = {}
    /\ closing # "no" => BrainCo

(* A Write begins only through a publisher that is open, and only a Write   *)
(* that has begun reaches a hand.                                           *)
NothingBegins ==
    closing = "closed" => /\ handWire' # handWire => loop \in Writing
                          /\ loop' \in Writing => loop' = loop

LEMMA ClosedStep ==
  ClosedIsClosed /\ [HandNext]_handVars => ClosedIsClosed' /\ NothingBegins
<1> SUFFICES ASSUME ClosedIsClosed, [HandNext]_handVars
             PROVE  ClosedIsClosed' /\ NothingBegins
  OBVIOUS
<1> USE DEF ClosedIsClosed, NothingBegins, BrainCo
<1>1. ASSUME UNCHANGED <<handKind, closing, endpoints, handWire>>,
             loop' \in Writing => loop' = loop
      PROVE  ClosedIsClosed' /\ NothingBegins
  BY <1>1
<1>2. CASE LoopSends
  BY <1>2 DEF LoopSends, lifetime, Writing
<1>3. CASE LoopWrites
  <2>1. UNCHANGED <<handKind, closing, endpoints>>
    BY <1>3 DEF LoopWrites, lifetime
  <2>2. NothingBegins
    BY <1>3 DEF LoopWrites, Writing
  <2> QED BY <2>1, <2>2
<1>4. CASE Close
  BY <1>4 DEF Close, turn
<1>5. CASE CloseJoined \/ CloseReaps
  BY <1>5 DEF CloseJoined, CloseReaps, lifetime, turn
<1>6. CASE _close_dds
  BY <1>6 DEF _close_dds, turn
<1>7. CASE SessionWrites \/ HandStop \/ UNCHANGED handVars
  BY <1>1, <1>7 DEF SessionWrites, HandStop, handVars, lifetime, turn
<1>8. CASE StatesArrived \/ WaitRunsOut \/ _wait_until_dds_ready
  BY <1>1, <1>8 DEF StatesArrived, WaitRunsOut, Constructed, turn, Writing,
     _wait_until_dds_ready
<1>9. CASE \E s \in Sides : StateHeard(s)
  BY <1>1, <1>9 DEF StateHeard, turn
<1>10. CASE \/ LoopBegins \/ LoopTurns \/ LoopReads \/ LoopTakesTargets
            \/ LoopTargets \/ _send_hand_command \/ LoopRaises
  BY <1>1, <1>10 DEF LoopBegins, LoopTurns, LoopReads, LoopTakesTargets,
     LoopTargets, _send_hand_command, LoopRaises, lifetime, Writing
<1>11. CASE \E s \in Sides : HandSolver(s) \/ SolverRaises(s)
  BY <1>1, <1>11 DEF HandSolver, SolverReads, SolverWrites, SolverRaises,
     lifetime, turn
<1> QED
  BY <1>2, <1>3, <1>4, <1>5, <1>6, <1>7, <1>8, <1>9, <1>10, <1>11
  DEF HandNext, HandLoop, HandClose

(* After close() of a controller no Write to a hand begins: not in a loop   *)
(* that was between its two Writes or computing when close gave up waiting  *)
(* for it, nor in one that was only starting when close cleared its flag.   *)
(* Only a Write that had begun can still reach its hand.                    *)
THEOREM NothingAfterClose == HandSpec => CloseEndsCommands
<1>1. HandInit => ClosedIsClosed
  BY DEF HandInit, ClosedIsClosed
<1>2. ClosedIsClosed /\ [HandNext]_handVars
        => [closing = "closed"
              => /\ handWire' # handWire => loop \in Writing
                 /\ loop' \in Writing => loop' = loop]_<<loop, handWire>>
  BY ClosedStep DEF NothingBegins
<1> QED
  BY <1>1, <1>2, ClosedStep, PTL DEF HandSpec, CloseEndsCommands
-----------------------------------------------------------------------------
(* DeviceStatus: what the loop of the application finds and records.       *)
Found == Failures \cup {"ONLINE", Absent}

ReportTypeOK ==
    /\ file \in [Cameras -> [pid : Nat, state : Found]]
    /\ hand \in [Hands -> Found]
    /\ pid \in [Services -> Nat] /\ starts \in Nat
    /\ picture \in [Keys -> Found]
    /\ device_states \in [Keys -> Found]
    /\ told \in [Keys -> {"nothing", "failed", "recovered"}]
    /\ deviceClients \in Nat

(* The clients of a failure are gone, or the failure is still recorded.    *)
NoFailureForgotten ==
    \A k \in Keys : told[k] = "failed" => /\ device_states[k] \in Failures
                                          /\ deviceClients > 0

LEMMA ReportTypeInit == DeviceInit => ReportTypeOK /\ NoFailureForgotten
  BY DEF DeviceInit, ReportTypeOK, NoFailureForgotten, Found, Failures, Absent,
     NoPicture

LEMMA ReportTypeStep ==
  ReportTypeOK /\ [DeviceNext]_deviceVars => ReportTypeOK'
<1> SUFFICES ASSUME ReportTypeOK, [DeviceNext]_deviceVars PROVE ReportTypeOK'
  OBVIOUS
<1> USE DEF ReportTypeOK, Found, Failures, sources, visitors, reporter
<1>1. CASE \E s \in Services :
              ServiceStarts(s) \/ ServiceRetries(s) \/ ServiceStops(s)
  BY <1>1 DEF ServiceStarts, ServiceRetries, ServiceStops
<1>2. CASE \E s \in Services : ServiceCrashes(s)
  BY <1>2 DEF ServiceCrashes, Keys
<1>3. CASE \E c \in Cameras : CameraReports(c)
  <2>1. "teleimager" \in Services /\ pid["teleimager"] \in Nat
    BY DEF Services
  <2> QED BY <1>3, <2>1 DEF CameraReports, publish
<1>4. CASE \E h \in Hands : HandChanges(h)
  BY <1>4 DEF HandChanges
<1>5. CASE ClientArrives
  BY <1>5 DEF ClientArrives
<1>6. CASE ClientLeaves
  BY <1>6 DEF ClientLeaves
<1>7. CASE TakePicture
  <2>1. \A known : current_device_states(known) \in [Keys -> Found]
    BY DEF current_device_states
  <2> QED BY <1>7, <2>1 DEF TakePicture
<1>8. CASE \E k \in Keys : GraceEnds(k)
  BY <1>8 DEF GraceEnds
<1>9. CASE \E k \in Keys : HandleKey(k)
  BY <1>9 DEF HandleKey, publish_device_transition
<1>10. CASE UNCHANGED deviceVars
  BY <1>10 DEF deviceVars
<1> QED BY <1>1, <1>2, <1>3, <1>4, <1>5, <1>6, <1>7, <1>8, <1>9, <1>10
        DEF DeviceNext

LEMMA NoFailureForgottenStep ==
  ReportTypeOK /\ NoFailureForgotten /\ [DeviceNext]_deviceVars
    => NoFailureForgotten'
<1> SUFFICES ASSUME ReportTypeOK, NoFailureForgotten,
                    [DeviceNext]_deviceVars
             PROVE  NoFailureForgotten'
  OBVIOUS
<1> USE DEF ReportTypeOK, NoFailureForgotten, sources, visitors, reporter
<1>1. CASE \E k \in Keys : HandleKey(k)
  <2>1. PICK k \in Keys : HandleKey(k)
    BY <1>1
  <2>2. picture[k] \in Found \ {Absent} /\ deviceClients' = deviceClients
    BY <2>1 DEF HandleKey
  <2>3. CASE UNCHANGED <<device_states, told>>
    BY <2>2, <2>3
  <2>4. CASE /\ device_states' = [device_states EXCEPT ![k] = picture[k]]
             /\ UNCHANGED told
             /\ \/ deviceClients = 0
                \/ picture[k] = "ONLINE" /\ device_states[k] = Absent
    BY <2>2, <2>4 DEF Failures, Absent
  <2>5. CASE /\ device_states' = [device_states EXCEPT ![k] = picture[k]]
             /\ told' = [told EXCEPT ![k] =
                           IF picture[k] = "ONLINE" THEN "recovered"
                           ELSE "failed"]
             /\ deviceClients # 0
    BY <2>2, <2>5 DEF Found
  <2> QED BY <2>1, <2>3, <2>4, <2>5 DEF HandleKey, publish_device_transition
<1>2. CASE \E s \in Services : ServiceCrashes(s)
  BY <1>2 DEF ServiceCrashes
<1>3. CASE ClientLeaves
  BY <1>3 DEF ClientLeaves
<1>4. CASE ClientArrives
  BY <1>4 DEF ClientArrives
<1>5. CASE UNCHANGED <<told, device_states, deviceClients>>
  BY <1>5
<1> QED BY <1>1, <1>2, <1>3, <1>4, <1>5 DEF DeviceNext, ServiceStarts,
     ServiceRetries, ServiceStops, CameraReports, HandChanges, TakePicture,
     GraceEnds, deviceVars

(* While the clients that were told of a failure are there, the failure is *)
(* on record, so that the recovery is a transition and not a first sight,  *)
(* which _publish_device_transition does not broadcast: the safety half of *)
(* ChangesReported.                                                        *)
THEOREM FailuresStayOnRecord == DeviceSpec => []NoFailureForgotten
  BY ReportTypeInit, ReportTypeStep, NoFailureForgottenStep, PTL DEF DeviceSpec
=============================================================================
