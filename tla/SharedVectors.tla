--------------------------- MODULE SharedVectors ---------------------------
(***************************************************************************)
(* What the copy-on-write vector of COW.cpp promises: each vector has a    *)
(* value of its own, a call changes the value of one vector at one moment, *)
(* and a read-only copy keeps the value it was taken of.  Sharing, counting*)
(* and copying do not appear.                                              *)
(***************************************************************************)
EXTENDS Sequences, SequencesExt, VectorElements

CONSTANTS Threads, Vectors, Elements

VARIABLES
  value,        \* vector -> its elements
  fetched,      \* thread -> what its assignment in progress has read
  kept          \* thread -> the elements its read-only copy shows

vars == <<value, fetched, kept>>

Init ==
  /\ value = [v \in Vectors |-> << >>]
  /\ fetched = [t \in Threads |-> << >>]
  /\ kept = [t \in Threads |-> << >>]

Changes(elems) ==
  {<< >>} \cup UNION { {<<e>> \o elems, Append(elems, e), Others(elems, e),
                        RemoveFirst(elems, e),
                        Reverse(RemoveFirst(Reverse(elems), e))} : e \in Elements }

Change(v) ==
  /\ \E new \in Changes(value[v]) : value' = [value EXCEPT ![v] = new]
  /\ UNCHANGED <<fetched, kept>>

(* An assignment reads one vector and later writes another.                *)
Fetch(t) ==
  /\ \E v \in Vectors : fetched' = [fetched EXCEPT ![t] = value[v]]
  /\ UNCHANGED <<value, kept>>

Assign(t) ==
  /\ \E v \in Vectors : value' = [value EXCEPT ![v] = fetched[t]]
  /\ fetched' = [fetched EXCEPT ![t] = << >>]
  /\ UNCHANGED kept

Keep(t) ==
  /\ \E new \in {<< >>} \cup {value[v] : v \in Vectors} \cup {kept[u] : u \in Threads} :
       kept' = [kept EXCEPT ![t] = new]
  /\ UNCHANGED <<value, fetched>>

Next ==
  \/ \E v \in Vectors : Change(v)
  \/ \E t \in Threads : Fetch(t) \/ Assign(t) \/ Keep(t)

Spec == Init /\ [][Next]_vars
============================================================================
