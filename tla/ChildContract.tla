---------------------------- MODULE ChildContract ---------------------------
(***************************************************************************)
(* What a control process promises the bridge that supervises it.  It is   *)
(* starting, then up (XR, arm and hand are set up), then ending, or ending *)
(* without ever having been up.  It reports READY only once it is up;      *)
(* RUNNING and PAUSED acknowledge commands, never while it is starting:    *)
(* commands that arrive then wait.  It says nothing after it exited.       *)
(*                                                                         *)
(* ControlChild implements this contract; ControlRuntime assumes it of     *)
(* each generation of the process.                                         *)
(***************************************************************************)

VARIABLES
    up,      \* the hardware was set up (READY of session.py)
    ending,  \* the session is over: it was stopped, or it failed
    gone,    \* the pipe is closed, the process exits
    report   \* the last state written to the pipe

vars == <<up, ending, gone, report>>

(* What may be written to the pipe by a process in this situation.         *)
Reports(isUp, isEnding) ==
    {"STARTING", "STOPPING", "STOPPED", "ERROR"}
        \cup (IF isUp THEN {"READY"} ELSE {})
        \cup (IF isUp \/ isEnding THEN {"RUNNING", "PAUSED"} ELSE {})

Init == up = FALSE /\ ending = FALSE /\ gone = FALSE /\ report = "STARTING"

SetUp == ~ending /\ ~up /\ up' = TRUE /\ UNCHANGED <<ending, gone, report>>

End == ~ending /\ ending' = TRUE /\ UNCHANGED <<up, gone, report>>

Report ==
    /\ ~gone
    /\ report' \in Reports(up, ending)
    /\ UNCHANGED <<up, ending, gone>>

Exit == ending /\ ~gone /\ gone' = TRUE /\ UNCHANGED <<up, ending, report>>

Next == SetUp \/ End \/ Report \/ Exit

Spec == Init /\ [][Next]_vars
=============================================================================
