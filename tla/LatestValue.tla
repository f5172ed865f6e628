---------------------------- MODULE LatestValue ----------------------------
(***************************************************************************)
(* What a latest-value exchange promises: requests are numbered as they    *)
(* are submitted, the server turns only to the newest one there is, and    *)
(* what the client uses is in the order of submission, without repetition. *)
(* Requests that were never the newest when the server looked are skipped. *)
(***************************************************************************)
EXTENDS Naturals

VARIABLES newest,   \* number of the last request submitted
          chosen,   \* the last request the server turned to
          used      \* the last request whose result the client used

Init == newest = 0 /\ chosen = 0 /\ used = 0

Submit == newest' = newest + 1 /\ UNCHANGED <<chosen, used>>

Choose == newest > chosen /\ chosen' = newest /\ UNCHANGED <<newest, used>>

Use ==
    /\ used' \in (used + 1)..chosen
    /\ UNCHANGED <<newest, chosen>>

Next == Submit \/ Choose \/ Use

Spec == Init /\ [][Next]_<<newest, chosen, used>>
=============================================================================
