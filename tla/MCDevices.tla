------------------------------ MODULE MCDevices ------------------------------
(***************************************************************************)
(* Instances of the modules about cameras, hands and the report of their   *)
(* states, checked in one run: a behaviour is about one of them, which     *)
(* `focus` names.  The report is checked with one service at a time        *)
(* starting and stopping.                                                  *)
(***************************************************************************)
EXTENDS DeviceStatus, CameraServer, HandControl

VARIABLE focus   \* "camera", "hands", or the service that changes

mcVars == <<focus, deviceVars, cameraVars, handVars>>

MCInit ==
    /\ focus \in Services \cup {"camera", "hands"}
    /\ DeviceInit /\ CameraInit /\ HandInit
    /\ focus # "camera" => /\ ~device /\ kind = CHOOSE k \in Kinds : TRUE
                           /\ stream = CHOOSE s \in Streams : TRUE
    /\ focus # "hands" => handKind = CHOOSE k \in HandKinds : TRUE

MCNext ==
    \/ /\ focus \in Services /\ DeviceNext
       /\ \A s \in Services \ {focus} : service'[s] = service[s]
       /\ UNCHANGED <<focus, cameraVars, handVars>>
    \/ /\ focus = "camera" /\ CameraNext
       /\ UNCHANGED <<focus, deviceVars, handVars>>
    \/ /\ focus = "hands" /\ HandNext
       /\ UNCHANGED <<focus, deviceVars, cameraVars>>

(* The fairness of each module, for the one in focus.                       *)
MCFairness ==
    /\ WF_deviceVars(focus \in Services /\ TakePicture)
    /\ \A k \in Keys : /\ WF_deviceVars(focus \in Services /\ HandleKey(k))
                       /\ WF_deviceVars(focus \in Services /\ GraceEnds(k))
    /\ WF_cameraVars(focus = "camera" /\ Supervisor)
    /\ WF_cameraVars(focus = "camera" /\ Capture)
    /\ SF_cameraVars(/\ focus = "camera" /\ place = "update" /\ Supervisor
                     /\ place' = "announce")
    /\ WF_handVars(focus = "hands" /\ (StatesArrived \/ _wait_until_dds_ready))
    /\ WF_handVars(focus = "hands" /\ HandLoop)
    /\ \A s \in Sides : WF_handVars(focus = "hands" /\ HandSolver(s))
    /\ WF_handVars(focus = "hands" /\ HandClose)

MCSpec == MCInit /\ [][MCNext]_mcVars /\ MCFairness
=============================================================================
