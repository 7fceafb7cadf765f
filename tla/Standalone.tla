----------------------------- MODULE Standalone -----------------------------
(* The parts that are not linked with the server: the two programs for hash  *)
(* indexes, each of which reads its rows and then answers searches, and the  *)
(* page cache.  They share nothing; one of them runs.                        *)
EXTENDS LinearHash, ExtendibleHash, Pager

VARIABLE part
vars == <<part, lvars, evars, pvars>>

Init == part \in {"linear", "extendible", "pager"} /\ LH_Init /\ EH_Init /\ PG_Init

Next == \/ part = "linear" /\ LH_Next /\ UNCHANGED <<part, evars, pvars>>
        \/ part = "extendible" /\ EH_Next /\ UNCHANGED <<part, lvars, pvars>>
        \/ part = "pager" /\ PG_Next /\ UNCHANGED <<part, lvars, evars>>

Spec == Init /\ [][Next]_vars
=============================================================================
