------------------------------- MODULE MCRobot -------------------------------
(***************************************************************************)
(* Instances of the arm controller and the recorder, checked in one run: a *)
(* behaviour is about the one that `focus` names.                          *)
(***************************************************************************)
EXTENDS EpisodeRecorder, ArmController

VARIABLE focus

mcVars == <<focus, recorderVars, armVars>>

MCInit == /\ focus \in {"recorder", "arms"}
          /\ RecorderInit /\ ArmInit
          /\ focus # "arms" =>
                /\ robot = CHOOSE r \in Robots : TRUE
                /\ ~motion_mode /\ ~simulation_mode
                /\ position = [m \in Motors |-> 0]

MCNext ==
    /\ UNCHANGED focus
    /\ \/ focus = "recorder" /\ RecorderNext /\ UNCHANGED armVars
       \/ focus = "arms" /\ ArmNext /\ UNCHANGED recorderVars

MCSpec == MCInit /\ [][MCNext]_mcVars
=============================================================================
