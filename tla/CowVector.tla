----------------------------- MODULE CowVector -----------------------------
(***************************************************************************)
(* The copy-on-write vector of COW.cpp, shared by threads.                 *)
(*                                                                         *)
(* A vector object has a lock and a pointer to a reference-counted storage.*)
(* Copies of the vector, read-only copies and iterators share the storage. *)
(* A modification, under the object's lock, changes the storage in place   *)
(* when use_count() is 1, and else publishes a changed copy.  References   *)
(* are dropped, and read-only copies copied, without any lock.             *)
(*                                                                         *)
(* A step is what other threads can tell apart: taking the lock, looking at*)
(* use_count(), changing or copying the storage, publishing, each of the   *)
(* two looks at _storage that a search takes without the lock, and its     *)
(* look at each element.  Predicates are "equals elem".                    *)
(***************************************************************************)
EXTENDS Integers, Sequences, FiniteSets, SequencesExt, VectorElements

CONSTANTS
  Threads, Vectors, Storages, Elements,
  Calls,        \* the member functions that threads call
  MaxLen,       \* bound: no push starts that could make a vector longer
  Null

Pushes   == {"push_front", "push_back"}
Removals == {"remove", "removeFirst", "removeLast"}
Writers  == Pushes \cup Removals \cup {"data"}

ASSUME CowAssumption ==
  /\ Calls \subseteq Writers \cup {"clear", "assign", "search", "keep"}
  /\ MaxLen \in Nat
  /\ Null \notin Storages \cup Threads

VARIABLES
  heap,         \* allocated storage -> its elements
  storage,      \* vector -> its storage, or Null
  lock,         \* vector -> the thread that holds its lock, or Null
  pc, call,     \* thread -> where it is, and in which call
  local,        \* thread -> the storage a local shared_ptr holds, or Null
  raw,          \* thread -> the storage it is about to look at unprotected:
                \*   through _storage, or with the iterators of its loop;
                \*   Null when those do not lead into the storage any more
  ahead,        \* thread -> the places its loop has still to look at
  kept,         \* thread -> the storage of its read-only copy or iterator
  hits          \* history: what a search could have answered since it began

vars == <<heap, storage, lock, pc, call, local, raw, ahead, kept, hits>>

Idle == [do |-> "none"]
Call == [do : Writers \cup {"search"}, vec : Vectors, elem : Elements]
          \cup [do : {"clear"}, vec : Vectors]
          \cup [do : {"assign"}, vec : Vectors, from : Vectors]

Init ==
  /\ heap = << >>
  /\ storage = [v \in Vectors |-> Null]
  /\ lock = [v \in Vectors |-> Null]
  /\ pc = [t \in Threads |-> "ready"]
  /\ call = [t \in Threads |-> Idle]
  /\ local = [t \in Threads |-> Null]
  /\ raw = [t \in Threads |-> Null]
  /\ ahead = [t \in Threads |-> << >>]
  /\ kept = [t \in Threads |-> Null]
  /\ hits = [t \in Threads |-> {}]

----------------------------------------------------------------------------
(* References and contents                                                 *)

Holders(s) ==
  {<<"vector", v>> : v \in {w \in Vectors : storage[w] = s}}
    \cup {<<"local", t>> : t \in {u \in Threads : local[u] = s}}
    \cup {<<"kept", t>> : t \in {u \in Threads : kept[u] = s}}

(* _storage.use_count() == 1                                               *)
Unshared(v) == storage[v] # Null /\ Holders(storage[v]) = {<<"vector", v>>}

Contents(s) == IF s = Null THEN << >> ELSE heap[s]

Value(v) == Contents(storage[v])

(* Mutants stand before the definitions they are mutants of; nothing else  *)
(* uses them.  This one counts the references of vectors only.             *)
AliveInVectors(mem) ==
  [s \in {r \in DOMAIN mem : \E v \in Vectors : storage'[v] = r} |-> mem[s]]

(* The last reference to go frees a storage: `mem' without the storages    *)
(* that nothing refers to after the step.                                  *)
Alive(mem) == [s \in {r \in DOMAIN mem : Holders(r)' # {}} |-> mem[s]]

Allocated(s, elems) == [r \in DOMAIN heap \cup {s} |->
                          IF r = s THEN elems ELSE heap[r]]

(* What a call makes of the elements.                                      *)
Result(c, elems) ==
  CASE c.do = "push_front"  -> <<c.elem>> \o elems
    [] c.do \in {"push_back", "data"} -> Append(elems, c.elem)
    [] c.do = "remove"      -> Others(elems, c.elem)
    [] c.do = "removeFirst" -> RemoveFirst(elems, c.elem)
    [] c.do = "removeLast"  -> Reverse(RemoveFirst(Reverse(elems), c.elem))

----------------------------------------------------------------------------
(* Threads                                                                 *)

Go(t, where) == pc' = [pc EXCEPT ![t] = where]

Growing == {t \in Threads : call[t].do \in Pushes \cup {"data"}}

HasRoom == \A v \in Vectors : Len(Value(v)) + Cardinality(Growing) < MaxLen

Target(t) == call[t].vec
Here(t, where) == pc[t] = where

(* A call that changes the vector takes its lock first; while it waits for *)
(* the lock it has done nothing.                                           *)
Enter(t) ==
  /\ Here(t, "ready")
  /\ \E c \in Call :
       /\ c.do \in Calls \cap (Writers \cup {"clear"})
       /\ c.do \in Pushes \cup {"data"} => HasRoom
       /\ lock[c.vec] = Null /\ lock' = [lock EXCEPT ![c.vec] = t]
       /\ call' = [call EXCEPT ![t] = c]
  /\ Go(t, "locked")
  /\ UNCHANGED <<heap, storage, local, raw, ahead, kept>>

(* The call returns.                                                       *)
Return(t) ==
  /\ Go(t, "ready")
  /\ call' = [call EXCEPT ![t] = Idle]

Unlock(t) == lock' = [lock EXCEPT ![Target(t)] = Null]

Doing(t, what) == Here(t, "locked") /\ call[t].do \in what

Finds(t) == call[t].elem \in {Value(Target(t))[i] : i \in DOMAIN Value(Target(t))}

(* A removal from a vector with no elements, or of an element that is not  *)
(* there.                                                                  *)
NothingToRemove(t) ==
  \/ Value(Target(t)) = << >>
  \/ call[t].do \in {"removeFirst", "removeLast"} /\ ~Finds(t)

RemovesOnly(t) ==
  call[t].do \in {"removeFirst", "removeLast"} /\ Len(Value(Target(t))) = 1

Refuse(t) ==
  /\ Doing(t, Removals) /\ NothingToRemove(t)
  /\ Unlock(t) /\ Return(t)
  /\ UNCHANGED <<heap, storage, local, raw, ahead, kept>>

Reset(t) ==
  /\ \/ Doing(t, {"clear"})
     \/ Doing(t, Removals) /\ ~NothingToRemove(t) /\ RemovesOnly(t)
  /\ storage' = [storage EXCEPT ![Target(t)] = Null]
  /\ Unlock(t) /\ Return(t)
  /\ UNCHANGED <<local, raw, ahead, kept>>
  /\ heap' = Alive(heap)

(* The look at use_count().                                                *)
Check(t) ==
  /\ \/ Doing(t, Pushes)
     \/ Doing(t, Removals) /\ ~NothingToRemove(t) /\ ~RemovesOnly(t)
  /\ Go(t, IF Unshared(Target(t)) THEN "inplace" ELSE "copy")
  /\ UNCHANGED <<heap, storage, lock, call, local, raw, ahead, kept>>

(* Searches whose loops are in storage s.                                  *)
Looping(s) == {u \in Threads : Here(u, "scan") /\ raw[u] = s}

(* A push into a storage that has no room left moves its elements, and the *)
(* iterators that loops have of it lead nowhere.  Only a caller of data()  *)
(* changes a storage that a search holds.                                  *)
ChangeInPlace(t) ==
  /\ Here(t, "inplace")
  /\ heap' = [heap EXCEPT ![storage[Target(t)]] = Result(call[t], @)]
  /\ \/ UNCHANGED raw
     \/ raw' = [u \in Threads |->
                  IF u \in Looping(storage[Target(t)]) THEN Null ELSE raw[u]]
  /\ Unlock(t) /\ Return(t)
  /\ UNCHANGED <<storage, local, ahead, kept>>

(* Mutant: the lock is released before the changed copy is published.      *)
CopyChangedUnlocked(t) ==
  /\ Here(t, "copy")
  /\ \E s \in Storages \ DOMAIN heap :
       /\ heap' = Allocated(s, Result(call[t], Value(Target(t))))
       /\ local' = [local EXCEPT ![t] = s]
  /\ Go(t, "publish")
  /\ Unlock(t)
  /\ UNCHANGED <<storage, call, raw, ahead, kept>>

(* remove publishes nothing when it found nothing, and no empty storage.   *)
CopyChanged(t) ==
  /\ Here(t, "copy")
  /\ LET old == Value(Target(t))
         new == Result(call[t], old)
     IN  \/ /\ call[t].do = "remove" /\ new = old
            /\ Unlock(t) /\ Return(t)
            /\ UNCHANGED <<heap, storage, local>>
         \/ /\ call[t].do = "remove" /\ new = << >>
            /\ storage' = [storage EXCEPT ![Target(t)] = Null]
            /\ Unlock(t) /\ Return(t)
            /\ UNCHANGED <<local, kept>>
            /\ heap' = Alive(heap)
         \/ /\ call[t].do = "remove" => new \notin {old, << >>}
            /\ \E s \in Storages \ DOMAIN heap :
                 heap' = Allocated(s, new) /\ local' = [local EXCEPT ![t] = s]
            /\ Go(t, "publish")
            /\ UNCHANGED <<storage, lock, call>>
  /\ UNCHANGED <<raw, ahead, kept>>

Publish(t) ==
  /\ Here(t, "publish")
  /\ storage' = [storage EXCEPT ![Target(t)] = local[t]]
  /\ local' = [local EXCEPT ![t] = Null]
  /\ Unlock(t) /\ Return(t)
  /\ UNCHANGED <<raw, ahead, kept>>
  /\ heap' = Alive(heap)

(* data() hands out the storage itself, whoever shares it; the caller then *)
(* changes it.                                                             *)
Data(t) ==
  /\ Doing(t, {"data"})
  /\ \/ storage[Target(t)] # Null /\ UNCHANGED <<heap, storage>>
     \/ /\ storage[Target(t)] = Null
        /\ \E s \in Storages \ DOMAIN heap :
             /\ heap' = Allocated(s, << >>)
             /\ storage' = [storage EXCEPT ![Target(t)] = s]
  /\ Go(t, "inplace")
  /\ UNCHANGED <<lock, call, local, raw, ahead, kept>>

----------------------------------------------------------------------------
(* copy(): operator= and the searches first take a reference of their own, *)
(* under the lock of the vector they read.                                 *)

Source(c) == IF c.do = "assign" THEN c.from ELSE c.vec

(* Mutants: copy() forgets to release the lock; it takes no lock.          *)
FetchHolding(t) ==
  /\ Here(t, "ready")
  /\ \E c \in Call :
       /\ c.do \in Calls \cap {"assign", "search"}
       /\ lock[Source(c)] = Null /\ lock' = [lock EXCEPT ![Source(c)] = t]
       /\ call' = [call EXCEPT ![t] = c]
       /\ local' = [local EXCEPT ![t] = storage[Source(c)]]
       /\ Go(t, IF c.do = "assign" THEN "store" ELSE "test")
  /\ UNCHANGED <<heap, storage, raw, ahead, kept>>

FetchUnlocked(t) ==
  /\ Here(t, "ready")
  /\ \E c \in Call :
       /\ c.do \in Calls \cap {"assign", "search"}
       /\ call' = [call EXCEPT ![t] = c]
       /\ local' = [local EXCEPT ![t] = storage[Source(c)]]
       /\ Go(t, IF c.do = "assign" THEN "store" ELSE "test")
  /\ UNCHANGED <<heap, storage, lock, raw, ahead, kept>>

Fetch(t) ==
  /\ Here(t, "ready")
  /\ \E c \in Call :
       /\ c.do \in Calls \cap {"assign", "search"}
       /\ lock[Source(c)] = Null
       /\ call' = [call EXCEPT ![t] = c]
       /\ local' = [local EXCEPT ![t] = storage[Source(c)]]
       /\ Go(t, IF c.do = "assign" THEN "store" ELSE "test")
  /\ UNCHANGED <<heap, storage, lock, raw, ahead, kept>>

Store(t) ==
  /\ Here(t, "store") /\ lock[Target(t)] = Null
  /\ storage' = [storage EXCEPT ![Target(t)] = local[t]]
  /\ Go(t, "release")
  /\ UNCHANGED <<lock, call, local, raw, ahead, kept>>
  /\ heap' = Alive(heap)

(* The reference goes when the call returns.                               *)
Release(t) ==
  /\ pc[t] \in {"release", "absent", "found"}
  /\ local' = [local EXCEPT ![t] = Null]
  /\ Return(t)
  /\ UNCHANGED <<storage, lock, raw, ahead, kept>>
  /\ heap' = Alive(heap)

(* A search asks whether its copy is null, and then whether what _storage  *)
(* refers to by now is empty.                                              *)
Test(t) ==
  /\ Here(t, "test")
  /\ \/ local[t] = Null /\ Go(t, "absent") /\ UNCHANGED raw
     \/ /\ local[t] # Null /\ Go(t, "probe")
        /\ raw' = [raw EXCEPT ![t] = storage[Target(t)]]
  /\ UNCHANGED <<heap, storage, lock, call, local, ahead, kept>>

(* Through a null or a freed pointer the process dies, as far as one can   *)
(* tell.                                                                   *)
Probe(t) ==
  /\ Here(t, "probe")
  /\ \/ raw[t] \notin DOMAIN heap /\ Go(t, "fault")
     \/ raw[t] \in DOMAIN heap /\ heap[raw[t]] = << >> /\ Go(t, "absent")
     \/ raw[t] \in DOMAIN heap /\ heap[raw[t]] # << >> /\ Go(t, "begin")
  /\ raw' = [raw EXCEPT ![t] = Null]
  /\ UNCHANGED <<heap, storage, lock, call, local, ahead, kept>>

Forward(elems) == [n \in 1 .. Len(elems) |-> n]

(* The loop over the search's own copy takes its iterators: exists and     *)
(* find_first from the first place to the last, find_last from the last to *)
(* the first.  Elements that are added later are not looked at.            *)
Begin(t) ==
  /\ Here(t, "begin") /\ Go(t, "scan")
  /\ raw' = [raw EXCEPT ![t] = local[t]]
  /\ \E order \in {Forward(heap[local[t]]), Reverse(Forward(heap[local[t]]))} :
       ahead' = [ahead EXCEPT ![t] = order]
  /\ UNCHANGED <<heap, storage, lock, call, local, kept>>

Leave(t, where) ==
  /\ Go(t, where)
  /\ raw' = [raw EXCEPT ![t] = Null] /\ ahead' = [ahead EXCEPT ![t] = << >>]

(* Mutant: the loop looks at the places of the vector, not of its copy.    *)
LookThere(t) ==
  /\ Here(t, "scan")
  /\ LET elems == Value(Target(t))
     IN  \/ ahead[t] = << >> /\ Leave(t, "absent")
         \/ /\ ahead[t] # << >>
            /\ IF Head(ahead[t]) <= Len(elems) /\ elems[Head(ahead[t])] = call[t].elem
               THEN Leave(t, "found")
               ELSE ahead' = [ahead EXCEPT ![t] = Tail(@)] /\ UNCHANGED <<pc, raw>>
  /\ UNCHANGED <<heap, storage, lock, call, local, kept>>

(* The look at one element.  With iterators that lead nowhere the process  *)
(* dies or the search returns some answer.                                 *)
Look(t) ==
  /\ Here(t, "scan")
  /\ \/ raw[t] = Null /\ (Leave(t, "fault") \/ Leave(t, "release"))
     \/ raw[t] # Null /\ ahead[t] = << >> /\ Leave(t, "absent")
     \/ /\ raw[t] # Null /\ ahead[t] # << >>
        /\ IF heap[raw[t]][Head(ahead[t])] = call[t].elem
           THEN Leave(t, "found")
           ELSE ahead' = [ahead EXCEPT ![t] = Tail(@)] /\ UNCHANGED <<pc, raw>>
  /\ UNCHANGED <<heap, storage, lock, call, local, kept>>

----------------------------------------------------------------------------
(* Read-only copies and iterators                                          *)

(* Mutant: the reference is taken without the lock.                        *)
KeepUnlocked(t) ==
  /\ Here(t, "ready") /\ "keep" \in Calls
  /\ \E v \in Vectors : kept' = [kept EXCEPT ![t] = storage[v]]
  /\ UNCHANGED <<storage, lock, pc, call, local, raw, ahead>>
  /\ heap' = Alive(heap)

(* read_only_copy() and begin()                                            *)
Keep(t) ==
  /\ Here(t, "ready") /\ "keep" \in Calls
  /\ \E v \in Vectors :
       lock[v] = Null /\ kept' = [kept EXCEPT ![t] = storage[v]]
  /\ UNCHANGED <<storage, lock, pc, call, local, raw, ahead>>
  /\ heap' = Alive(heap)

(* A copy of another thread's read-only copy: no lock is involved.         *)
CopyKept(t) ==
  /\ Here(t, "ready")
  /\ \E u \in Threads : kept' = [kept EXCEPT ![t] = kept[u]]
  /\ UNCHANGED <<storage, lock, pc, call, local, raw, ahead>>
  /\ heap' = Alive(heap)

Drop(t) ==
  /\ Here(t, "ready") /\ kept[t] # Null
  /\ kept' = [kept EXCEPT ![t] = Null]
  /\ UNCHANGED <<storage, lock, pc, call, local, raw, ahead>>
  /\ heap' = Alive(heap)

----------------------------------------------------------------------------
(* A search may answer what was true at any moment since it began.         *)
Searching(t) == call[t].do = "search"

Observe ==
  hits' = [t \in Threads |->
             IF Searching(t)' THEN hits[t] \cup {Finds(t)'} ELSE {}]

Write(t) == \/ Refuse(t) \/ Reset(t) \/ Check(t)
            \/ ChangeInPlace(t) \/ CopyChanged(t) \/ Publish(t) \/ Data(t)

Copy(t) == Store(t) \/ Test(t) \/ Probe(t) \/ Begin(t) \/ Look(t) \/ Release(t)

Continue(t) == Write(t) \/ Copy(t)

Faulted == \E t \in Threads : Here(t, "fault")

Next ==
  /\ ~Faulted
  /\ \E t \in Threads : \/ Enter(t) \/ Fetch(t) \/ Continue(t)
                        \/ Keep(t) \/ CopyKept(t) \/ Drop(t)
  /\ Observe

Spec == Init /\ [][Next]_vars

(* A thread inside a call runs on when it can; a free lock goes to any of  *)
(* the threads that wait for it.                                           *)
FairSpec ==
  Spec /\ \A t \in Threads : WF_vars(~Faulted /\ Continue(t) /\ Observe)
----------------------------------------------------------------------------
(* Properties                                                              *)

Referenced == {s \in Storages : Holders(s) # {}}

(* Every variable has its type; what is referred to is allocated, and what *)
(* is allocated is referred to: nothing is freed early or leaked.          *)
TypeOK ==
  /\ DOMAIN heap = Referenced
  /\ storage \in [Vectors -> Storages \cup {Null}]
  /\ lock \in [Vectors -> Threads \cup {Null}]
  /\ pc \in [Threads -> {"ready", "locked", "inplace", "copy", "publish", "store",
                         "test", "probe", "begin", "scan", "absent", "found",
                         "release", "fault"}]
  /\ call \in [Threads -> Call \cup {Idle}]
  /\ local \in [Threads -> Storages \cup {Null}]
  /\ raw \in [Threads -> Storages \cup {Null}]
  /\ ahead \in [Threads -> Seq(Nat)]
  /\ kept \in [Threads -> Storages \cup {Null}]
  /\ hits \in [Threads -> SUBSET BOOLEAN]

(* When a thread is about to change a storage in place nobody else holds   *)
(* it, although it looked at use_count() a step earlier and references come*)
(* and go without its lock.                                                *)
NoSharedWrite ==
  \A t \in Threads : Here(t, "inplace") => Unshared(Target(t))

(* A read-only copy or an iterator never sees its elements change.         *)
SnapshotsFrozen ==
  [][\A t \in Threads : kept'[t] = kept[t] =>
       Contents(kept[t])' = Contents(kept[t])]_vars

(* Whatever the threads call, only a caller of data() that writes through  *)
(* its pointer changes the elements that a read-only copy shows.           *)
OnlyDataThaws ==
  [][\/ \A t \in Threads : kept'[t] = kept[t] =>
            Contents(kept[t])' = Contents(kept[t])
     \/ \E t \in Threads : Here(t, "inplace") /\ call[t].do = "data"]_vars

(* Vectors that share a storage behave as if each had its own.             *)
Shared == INSTANCE SharedVectors WITH
  value   <- [v \in Vectors |-> Value(v)],
  fetched <- [t \in Threads |->
                IF Here(t, "store") THEN Contents(local[t]) ELSE << >>],
  kept    <- [t \in Threads |-> Contents(kept[t])]

Isolated == Shared!Spec

(* A search that is not stopped by its unlocked look at _storage, and whose*)
(* iterators no data() invalidates, answers what was true at some moment   *)
(* between its call and its return: it looks at one element after the      *)
(* other while the vector, and through data() its own copy, change.        *)
SearchRight ==
  \A t \in Threads :
    /\ Here(t, "absent") => FALSE \in hits[t]
    /\ Here(t, "found") => TRUE \in hits[t]

(* A lock that is held is released: no two calls wait for each other.      *)
LockReleased == \A v \in Vectors : lock[v] # Null ~> lock[v] = Null
============================================================================
