------------------------------ MODULE MCHeadset ------------------------------
(***************************************************************************)
(* Instances of the modules about what the user sees and does, checked in  *)
(* one run: a behaviour is about the one that `focus` names.               *)
(***************************************************************************)
EXTENDS ImageClient, XrInput, XrDisplay

VARIABLE focus

mcVars == <<focus, clientVars, xrVars, displayVars>>

MCInit == /\ focus \in {"images", "input", "display"}
          /\ ClientInit /\ XrInit /\ DisplayInit
          /\ focus # "display" =>
                display_mode = CHOOSE m \in DisplayModes : TRUE

MCNext ==
    /\ UNCHANGED focus
    /\ \/ focus = "images" /\ ClientNext /\ UNCHANGED <<xrVars, displayVars>>
       \/ focus = "input" /\ XrNext /\ UNCHANGED <<clientVars, displayVars>>
       \/ focus = "display" /\ DisplayNext /\ UNCHANGED <<clientVars, xrVars>>

(* The fairness of each module, for the one in focus.                       *)
MCFairness ==
    /\ WF_clientVars(focus = "images" /\ Receiver)
    /\ WF_clientVars(focus = "images" /\ Decoder)
    /\ SF_clientVars(focus = "images" /\ DecoderTakes)
    /\ \A r \in Readers : WF_clientVars(focus = "images" /\ Reader(r))
    /\ WF_xrVars(focus = "input" /\ XrSampler)
    /\ \A g \in Generations : WF_xrVars(focus = "input" /\ XrMonitor(g))
    /\ WF_displayVars(focus = "display" /\ Renderer)
    /\ \A c \in 1 .. MaxVisits :
          WF_displayVars(focus = "display" /\ Coroutine(c))

MCSpec == MCInit /\ [][MCNext]_mcVars /\ MCFairness
=============================================================================
