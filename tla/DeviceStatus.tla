---------------------------- MODULE DeviceStatus ----------------------------
(***************************************************************************)
(* The health of the devices, from the processes that own them to the      *)
(* operator: DeviceStatusWriter and read_device_statuses                   *)
(* (common/device_status.py), the device loop of app.py and the event it   *)
(* broadcasts.  The camera service writes one file per camera, the hands   *)
(* are online while their samples are fresh, the process manager knows the *)
(* state of the two services.                                              *)
(*                                                                         *)
(* The loop takes a picture of all that, then handles it key by key; the   *)
(* broadcast is awaited, so clients may come and go in between.  A pid is  *)
(* the number of the start, 0 when it has none.  What a message says is    *)
(* left out; a file is replaced in one step (os.replace).                  *)
(***************************************************************************)
EXTENDS Naturals

CONSTANTS Cameras,    \* the cameras of the camera service
          Hands,      \* the sides of the hand service
          MaxStarts,  \* bound: starts of the services
          MaxChanges, \* bound: changes of a device
          MaxVisits   \* bound: connections accepted

ASSUME DeviceAssumption ==
    MaxStarts \in Nat \ {0} /\ MaxChanges \in Nat /\ MaxVisits \in Nat

Services == {"teleimager", "brainco"}
Keys == Cameras \cup Hands \cup Services
Failures == {"DISCONNECTED", "RECONNECTING", "CRASHED", "DEGRADED"}
Absent == "absent"     \* the key is not in the picture, or not recorded
NoPicture == [k \in Keys |-> Absent]

VARIABLES
    file,       \* each camera: the pid and state in its status file
    hand,       \* each hand: ONLINE while its samples are fresh
    service,    \* state of each managed process
    pid,        \* pid of each managed process
    asked,      \* stop_requested of each managed process
    starts,     \* starts of the services so far
    changes,    \* changes of the devices (bound)
    deviceClients,  \* connections of the server
    visits,     \* connections so far (bound)
    device_states, first_seen, known_camera_devices,   \* the application
    picture,    \* devices: what the loop found and has not handled yet
    told        \* history: what the clients present were last told of a key

sources == <<file, hand, service, pid, asked, starts, changes>>
visitors == <<deviceClients, visits>>
reporter == <<device_states, first_seen, known_camera_devices, picture>>
deviceVars == <<file, hand, service, pid, asked, starts, changes,
                deviceClients, visits, device_states, first_seen,
                known_camera_devices, picture, told>>

DeviceInit ==
    /\ file = [c \in Cameras |-> [pid |-> 0, state |-> Absent]]
    /\ hand = [h \in Hands |-> "DISCONNECTED"]
    /\ service = [s \in Services |-> "STOPPED"]
    /\ pid = [s \in Services |-> 0] /\ asked = [s \in Services |-> FALSE]
    /\ starts = 0 /\ changes = 0
    /\ deviceClients = 0 /\ visits = 0
    /\ device_states = [k \in Keys |-> Absent]
    /\ first_seen = [k \in Keys |-> "never"]
    /\ known_camera_devices = {}
    /\ picture = NoPicture
    /\ told = [k \in Keys |-> "nothing"]

-----------------------------------------------------------------------------
(* The services, as the process manager shows them.                        *)

\* A request or the health thread starts a service.
ServiceStarts(s) ==
    /\ service[s] # "RUNNING" /\ starts < MaxStarts
    /\ starts' = starts + 1
    /\ service' = [service EXCEPT ![s] = "RUNNING"]
    /\ pid' = [pid EXCEPT ![s] = starts + 1]
    /\ asked' = [asked EXCEPT ![s] = FALSE]
    /\ UNCHANGED <<file, hand, changes, visitors, reporter, told>>

\* The health thread finds the process dead.
ServiceCrashes(s) ==
    /\ service[s] = "RUNNING"
    /\ \E st \in {"CRASHED", "DEGRADED"} :
          service' = [service EXCEPT ![s] = st]
    /\ pid' = [pid EXCEPT ![s] = 0]
    /\ UNCHANGED <<file, hand, asked, starts, changes, visitors, reporter>>
    /\ told' = [told EXCEPT ![s] = "nothing"]

\* The pause of a degraded service is over; it is started after this.
ServiceRetries(s) ==
    /\ service[s] = "DEGRADED" /\ starts < MaxStarts
    /\ service' = [service EXCEPT ![s] = "CRASHED"]
    /\ UNCHANGED <<file, hand, pid, asked, starts, changes, visitors,
                   reporter, told>>

\* stop() does not set stop_requested when the process is dead already.
ServiceStops(s) ==
    /\ service[s] # "STOPPED"
    /\ service' = [service EXCEPT ![s] = "STOPPED"]
    /\ pid' = [pid EXCEPT ![s] = 0]
    /\ asked' = [asked EXCEPT ![s] = @ \/ service[s] = "RUNNING"]
    /\ UNCHANGED <<file, hand, starts, changes, visitors, reporter, told>>

-----------------------------------------------------------------------------
(* DeviceStatusWriter.publish, called by the supervisor of a camera: a     *)
(* process first reports that it waits for the camera.                     *)

publish(c, state) ==
    file' = [file EXCEPT ![c] = [pid |-> pid["teleimager"], state |-> state]]

CameraReports(c) ==
    /\ pid["teleimager"] # 0
    /\ \/ /\ file[c].pid # pid["teleimager"]
          /\ publish(c, "DISCONNECTED") /\ UNCHANGED changes
       \/ /\ file[c].pid = pid["teleimager"] /\ changes < MaxChanges
          /\ \E state \in {"ONLINE", "RECONNECTING"} \ {file[c].state} :
                publish(c, state)
          /\ changes' = changes + 1
    /\ UNCHANGED <<hand, service, pid, asked, starts, visitors, reporter,
                   told>>

\* The samples of a hand arrive again, or have stopped for too long.
HandChanges(h) ==
    /\ changes < MaxChanges /\ changes' = changes + 1
    /\ \/ /\ hand[h] = "DISCONNECTED" /\ service["brainco"] = "RUNNING"
          /\ hand' = [hand EXCEPT ![h] = "ONLINE"]
       \/ hand[h] = "ONLINE" /\ hand' = [hand EXCEPT ![h] = "DISCONNECTED"]
    /\ UNCHANGED <<file, service, pid, asked, starts, visitors, reporter,
                   told>>

-----------------------------------------------------------------------------
(* The connections.                                                        *)

ClientArrives ==
    /\ visits < MaxVisits /\ visits' = visits + 1
    /\ deviceClients' = deviceClients + 1
    /\ UNCHANGED <<sources, reporter, told>>

ClientLeaves ==
    /\ deviceClients > 0 /\ deviceClients' = deviceClients - 1
    /\ told' = IF deviceClients = 1 THEN [k \in Keys |-> "nothing"] ELSE told
    /\ UNCHANGED <<sources, visits, reporter>>

-----------------------------------------------------------------------------
(* The device loop of the application.                                     *)

\* read_device_statuses, and the files of another process left out.
Reported(c) == pid["teleimager"] # 0 /\ file[c].pid = pid["teleimager"]

current_device_states(known) ==
    [k \in Keys |->
        CASE k \in Hands /\ service["brainco"] # "STOPPED" -> hand[k]
          [] k \in Cameras /\ Reported(k) -> file[k].state
          [] k \in known /\ ~Reported(k) -> "DISCONNECTED"
          [] k \in Services /\ ~asked[k] /\ service[k] \in Failures
                -> service[k]
          [] OTHER -> Absent]

\* Mutant: a device that is not in the picture is forgotten.
TakePictureForgets ==
    /\ picture = NoPicture
    /\ known_camera_devices' =
          known_camera_devices \cup {c \in Cameras : Reported(c)}
    /\ picture' = current_device_states(known_camera_devices')
    /\ device_states' = [k \in Keys |-> IF picture'[k] = Absent THEN Absent
                                        ELSE device_states[k]]
    /\ UNCHANGED <<sources, visitors, first_seen, told>>

\* The top of an iteration, reached when the last one is through.
TakePicture ==
    /\ picture = NoPicture
    /\ known_camera_devices' =
          known_camera_devices \cup {c \in Cameras : Reported(c)}
    /\ picture' = current_device_states(known_camera_devices')
    /\ UNCHANGED <<sources, visitors, device_states, first_seen, told>>

\* The startup grace of a key is over.
GraceEnds(k) ==
    /\ first_seen[k] = "recent"
    /\ first_seen' = [first_seen EXCEPT ![k] = "old"]
    /\ UNCHANGED <<sources, visitors, device_states, known_camera_devices,
                   picture, told>>

\* Which transitions are broadcast, and which are kept for later.
Withheld(state) == state # "ONLINE" /\ deviceClients = 0

publish_device_transition(k, state) ==
    IF device_states[k] = state \/ Withheld(state)
    THEN UNCHANGED <<device_states, told>>
    ELSE /\ device_states' = [device_states EXCEPT ![k] = state]
         /\ told' =
              IF deviceClients = 0 \/ (state = "ONLINE"
                                          /\ device_states[k] = Absent)
              THEN told
              ELSE [told EXCEPT ![k] =
                      IF state = "ONLINE" THEN "recovered" ELSE "failed"]

\* The order of the keys in the picture.
Rank(k) == IF k \in Hands THEN 1 ELSE IF k \in Cameras THEN 2 ELSE 3

HandleKey(k) ==
    /\ picture[k] # Absent
    /\ \A other \in Keys : picture[other] # Absent => Rank(k) <= Rank(other)
    /\ first_seen' = [first_seen EXCEPT ![k] =
                         IF @ = "never" THEN "recent" ELSE @]
    /\ IF picture[k] = "ONLINE" \/ first_seen[k] = "old"
       THEN publish_device_transition(k, picture[k])
       ELSE UNCHANGED <<device_states, told>>
    /\ picture' = [picture EXCEPT ![k] = Absent]
    /\ UNCHANGED <<sources, visitors, known_camera_devices>>

DeviceNext ==
    \/ \E s \in Services :
          ServiceStarts(s) \/ ServiceCrashes(s) \/ ServiceRetries(s)
             \/ ServiceStops(s)
    \/ \E c \in Cameras : CameraReports(c)
    \/ \E h \in Hands : HandChanges(h)
    \/ ClientArrives \/ ClientLeaves \/ TakePicture
    \/ \E k \in Keys : GraceEnds(k) \/ HandleKey(k)

\* The loop sleeps half a second between two iterations, and time passes.
DeviceFairness ==
    /\ WF_deviceVars(TakePicture)
    /\ \A k \in Keys : /\ WF_deviceVars(HandleKey(k))
                       /\ WF_deviceVars(GraceEnds(k))

DeviceSpec == DeviceInit /\ [][DeviceNext]_deviceVars /\ DeviceFairness

-----------------------------------------------------------------------------
Devices == Cameras \cup Hands

\* What the next picture would show of a device.
Shown(k) == current_device_states(known_camera_devices)[k]

\* Failures reach the record and recoveries reach the operator.
\* 1. A device that fails and stays so while a client is connected is recorded
\* as failed, whoever was connected when it failed: the transition is kept
\* while nobody listens, and a picture taken before the failure, or a status
\* file of a dead camera service, does not hide it for good.
\* 2. Clients that were told that a device failed are told when it works
\* again, however the failure, the camera service and the clients interleave.
ChangesReported ==
    \A k \in Devices :
        /\ <>[](Shown(k) \in Failures /\ deviceClients > 0)
              => <>[](device_states[k] \in Failures)
        /\ <>[](Shown(k) = "ONLINE" /\ deviceClients > 0)
              => <>[](told[k] # "failed")

=============================================================================
