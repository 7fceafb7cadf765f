-------------------------- MODULE CowVector_proofs --------------------------
(***************************************************************************)
(* Theorems about the copy-on-write vector for any threads, vectors,       *)
(* storages and elements: what is referred to is allocated and nothing     *)
(* else is, nobody else holds a storage that is changed in place, and      *)
(* read-only copies do not change, as long as no caller uses data(); a     *)
(* search answers what was true during the call; no lock is leaked; and    *)
(* the vector implements SharedVectors.                                    *)
(***************************************************************************)
EXTENDS CowVector, Induction, SequenceTheorems, TLAPS

(* Who is where: a call in progress is a call, a thread has a local        *)
(* reference only where it uses one, and holds the lock of the vector it   *)
(* changes.                                                                *)
Shape ==
  \A t \in Threads :
    /\ pc[t] # "ready" => call[t] \in Call
    /\ pc[t] \in {"ready", "locked", "inplace", "copy"} => local[t] = Null
    /\ pc[t] \in {"locked", "inplace", "copy", "publish"} => lock[Target(t)] = t

(* The types of everything but the heap's domain.                          *)
Typed ==
  /\ storage \in [Vectors -> Storages \cup {Null}]
  /\ lock \in [Vectors -> Threads \cup {Null}]
  /\ pc \in [Threads -> {"ready", "locked", "inplace", "copy", "publish", "store",
                         "test", "probe", "begin", "scan", "absent", "found",
                         "release", "fault"}]
  /\ call \in [Threads -> Call \cup {Idle}]
  /\ local \in [Threads -> Storages \cup {Null}]
  /\ raw \in [Threads -> Storages \cup {Null}]
  /\ kept \in [Threads -> Storages \cup {Null}]
  /\ hits \in [Threads -> SUBSET BOOLEAN]

Exact == DOMAIN heap = Referenced

AheadTyped == ahead \in [Threads -> Seq(Nat)]

LEMMA TypeParts == TypeOK <=> Exact /\ Typed /\ AheadTyped
  BY DEF TypeOK, Exact, Typed, AheadTyped

(***************************************************************************)
(* Calls, holders and what is alive                                        *)
(***************************************************************************)

LEMMA CallTypes ==
  ASSUME NEW c \in Call
  PROVE  /\ c.vec \in Vectors
         /\ c.do \in Calls \cap {"assign", "search"} => Source(c) \in Vectors
  BY DEF Call, Source, Writers, Pushes, Removals

(* Somebody refers to s.                                                   *)
Refers(s) == \/ \E v \in Vectors : storage[v] = s
             \/ \E t \in Threads : local[t] = s \/ kept[t] = s

LEMMA HoldersRefer ==
  /\ \A s : Holders(s) # {} <=> Refers(s)
  /\ \A s : Holders(s)' # {} <=> Refers(s)'
  BY DEF Holders, Refers

(* Nobody but v refers to its storage.                                     *)
Sole(v) == /\ storage[v] # Null
           /\ \A w \in Vectors : storage[w] = storage[v] => w = v
           /\ \A t \in Threads : local[t] # storage[v] /\ kept[t] # storage[v]

Tagged(A, B, C) == {<<"vector", w>> : w \in A} \cup {<<"local", t>> : t \in B}
                     \cup {<<"kept", t>> : t \in C}

LEMMA OneTag ==
  ASSUME NEW A, NEW B, NEW C, NEW v, v \in A
  PROVE  Tagged(A, B, C) = {<<"vector", v>>} <=> (\A w \in A : w = v) /\ B = {} /\ C = {}
  <1> DEFINE H == Tagged(A, B, C)
  <1> USE DEF Tagged
  <1>1. ASSUME H = {<<"vector", v>>} PROVE (\A w \in A : w = v) /\ B = {} /\ C = {}
    <2>1. \A x \in H : x[1] = "vector" /\ x[2] = v
      BY <1>1
    <2>2. ASSUME NEW w \in A PROVE w = v
      <3>1. <<"vector", w>> \in H
        OBVIOUS
      <3>2. <<"vector", w>>[2] = v
        BY <2>1, <3>1
      <3>3. QED
        BY <3>2
    <2>3. ASSUME NEW t \in B PROVE FALSE
      <3>1. <<"local", t>> \in H
        OBVIOUS
      <3>2. <<"local", t>>[1] = "vector"
        BY <2>1, <3>1
      <3>3. QED
        BY <3>2
    <2>4. ASSUME NEW t \in C PROVE FALSE
      <3>1. <<"kept", t>> \in H
        OBVIOUS
      <3>2. <<"kept", t>>[1] = "vector"
        BY <2>1, <3>1
      <3>3. QED
        BY <3>2
    <2>5. QED
      BY <2>2, <2>3, <2>4
  <1>2. ASSUME \A w \in A : w = v, B = {}, C = {} PROVE H = {<<"vector", v>>}
    BY <1>2
  <1>3. QED
    BY <1>1, <1>2

LEMMA UnsharedSole ==
  /\ \A v \in Vectors : Unshared(v) <=> Sole(v)
  /\ \A v \in Vectors : Unshared(v)' <=> Sole(v)'
  <1>1. ASSUME NEW v \in Vectors PROVE Unshared(v) <=> Sole(v)
    <2> DEFINE A == {w \in Vectors : storage[w] = storage[v]}
               B == {t \in Threads : local[t] = storage[v]}
               C == {t \in Threads : kept[t] = storage[v]}
    <2>1. Holders(storage[v]) = Tagged(A, B, C)
      BY DEF Holders, Tagged
    <2>2. v \in A
      OBVIOUS
    <2>3. Tagged(A, B, C) = {<<"vector", v>>} <=> (\A w \in A : w = v) /\ B = {} /\ C = {}
      <3> HIDE DEF A, B, C
      <3>1. QED
        BY <2>2, OneTag
    <2>4. QED
      BY <2>1, <2>3 DEF Unshared, Sole
  <1>2. ASSUME NEW v \in Vectors PROVE Unshared(v)' <=> Sole(v)'
    <2> DEFINE A == {w \in Vectors : storage'[w] = storage'[v]}
               B == {t \in Threads : local'[t] = storage'[v]}
               C == {t \in Threads : kept'[t] = storage'[v]}
    <2>1. Holders(storage[v])' = Tagged(A, B, C)
      BY DEF Holders, Tagged
    <2>2. v \in A
      OBVIOUS
    <2>3. Tagged(A, B, C) = {<<"vector", v>>} <=> (\A w \in A : w = v) /\ B = {} /\ C = {}
      <3> HIDE DEF A, B, C
      <3>1. QED
        BY <2>2, OneTag
    <2>4. QED
      BY <2>1, <2>3 DEF Unshared, Sole
  <1>3. QED
    BY <1>1, <1>2

LEMMA ExactAlive ==
  ASSUME Exact, heap' = Alive(heap),
         \A s \in Storages : Refers(s)' => Refers(s)
  PROVE  Exact'
  BY HoldersRefer DEF Exact, Referenced, Alive

LEMMA ExactSame ==
  ASSUME Exact, DOMAIN heap' = DOMAIN heap,
         \A s \in Storages : Refers(s)' <=> Refers(s)
  PROVE  Exact'
  BY HoldersRefer DEF Exact, Referenced

LEMMA ExactAllocated ==
  ASSUME Exact, NEW s \in Storages, NEW elems, heap' = Allocated(s, elems),
         \A r \in Storages : Refers(r)' <=> r = s \/ Refers(r)
  PROVE  Exact'
  BY HoldersRefer DEF Exact, Referenced, Allocated

(***************************************************************************)
(* Types and shape                                                         *)
(***************************************************************************)

LEMMA InitHolds == Init => Exact /\ Typed /\ Shape
  <1> SUFFICES ASSUME Init PROVE Exact /\ Typed /\ Shape
    OBVIOUS
  <1>1. Typed /\ Shape
    BY DEF Init, Typed, Shape
  <1>2. \A s \in Storages : ~Refers(s)
    BY CowAssumption DEF Init, Refers
  <1>3. QED
    BY <1>1, <1>2, HoldersRefer DEF Init, Exact, Referenced

LEMMA HitsType == Typed /\ Observe => hits' \in [Threads -> SUBSET BOOLEAN]
  <1>1. \A t \in Threads : Finds(t)' \in BOOLEAN
    BY DEF Finds
  <1>2. QED
    BY <1>1 DEF Observe, Typed

LEMMA TypedStep == Typed /\ Shape /\ Next => Typed'
  <1> SUFFICES ASSUME Typed, Shape, NEW t \in Threads, Observe,
                      \/ Enter(t) \/ Fetch(t) \/ Continue(t)
                      \/ Keep(t) \/ CopyKept(t) \/ Drop(t)
               PROVE  Typed'
    BY DEF Next
  <1> USE DEF Here, Go, Return, Unlock
  <1>1. hits' \in [Threads -> SUBSET BOOLEAN]
    BY HitsType
  <1>2. \A u \in Threads : pc[u] # "ready" => Target(u) \in Vectors
    BY CallTypes DEF Shape, Target
  <1>3. CASE Enter(t)
    <2>1. PICK c \in Call : /\ lock' = [lock EXCEPT ![c.vec] = t]
                            /\ call' = [call EXCEPT ![t] = c]
      BY <1>3 DEF Enter
    <2>2. QED
      BY <1>1, <1>3, <2>1 DEF Typed, Enter
  <1>4. CASE Fetch(t)
    <2>1. PICK c \in Call :
            /\ c.do \in Calls \cap {"assign", "search"}
            /\ call' = [call EXCEPT ![t] = c]
            /\ local' = [local EXCEPT ![t] = storage[Source(c)]]
            /\ pc' = [pc EXCEPT ![t] = IF c.do = "assign" THEN "store" ELSE "test"]
      BY <1>4 DEF Fetch
    <2>2. storage[Source(c)] \in Storages \cup {Null}
      BY <2>1, CallTypes DEF Typed
    <2>3. QED
      BY <1>1, <1>4, <2>1, <2>2 DEF Typed, Fetch
  <1>5. CASE Refuse(t) \/ Reset(t) \/ Check(t) \/ ChangeInPlace(t)
    BY <1>1, <1>5 DEF Typed, Refuse, Reset, Check, ChangeInPlace, Doing
  <1>6. CASE CopyChanged(t)
    BY <1>1, <1>6 DEF Typed, CopyChanged
  <1>7. CASE Publish(t) \/ Data(t) \/ Store(t) \/ Release(t)
    <2>1. CASE Publish(t) \/ Store(t)
      BY <1>1, <2>1 DEF Typed, Publish, Store
    <2>2. CASE Data(t)
      BY <1>1, <2>2 DEF Typed, Data, Doing
    <2>3. CASE Release(t)
      BY <1>1, <2>3 DEF Typed, Release
    <2>4. QED
      BY <1>7, <2>1, <2>2, <2>3
  <1>8. CASE Test(t)
    <2>1. storage[Target(t)] \in Storages \cup {Null}
      BY <1>2, <1>8 DEF Typed, Test
    <2>2. QED
      BY <1>1, <1>8, <2>1 DEF Typed, Test
  <1>9. CASE Probe(t) \/ Begin(t) \/ Look(t)
    BY <1>1, <1>9 DEF Typed, Probe, Begin, Look, Leave
  <1>10. CASE Keep(t) \/ CopyKept(t) \/ Drop(t)
    BY <1>1, <1>10 DEF Typed, Keep, CopyKept, Drop
  <1>11. QED
    BY <1>3, <1>4, <1>5, <1>6, <1>7, <1>8, <1>9, <1>10 DEF Continue, Write, Copy

(* A step of thread t leaves the other threads where they are, and changes *)
(* no lock that another thread holds.                                      *)
Elsewhere(t) ==
  \A u \in Threads \ {t} :
    /\ pc'[u] = pc[u] /\ call'[u] = call[u] /\ local'[u] = local[u]
    /\ \A v \in Vectors : lock[v] = u => lock'[v] = u

LEMMA ShapeStep ==
  ASSUME Typed, Shape, NEW t \in Threads,
         \/ Enter(t) \/ Fetch(t) \/ Continue(t)
         \/ Keep(t) \/ CopyKept(t) \/ Drop(t)
  PROVE  Shape' /\ Elsewhere(t)
  <1> USE DEF Here, Go, Return, Unlock
  <1>1. \A u \in Threads : pc[u] # "ready" => Target(u) \in Vectors
    BY CallTypes DEF Shape, Target
  <1>2. Null \notin Threads
    BY CowAssumption
  <1>3. Elsewhere(t)
    <2>1. CASE Enter(t)
      BY <1>2, <2>1 DEF Typed, Enter, Elsewhere
    <2>2. CASE Fetch(t)
      BY <2>2 DEF Typed, Fetch, Elsewhere
    <2>3. CASE Refuse(t) \/ Reset(t) \/ Check(t) \/ ChangeInPlace(t)
      BY <1>1, <2>3 DEF Typed, Shape, Refuse, Reset, Check, ChangeInPlace, Doing, Elsewhere
    <2>4. CASE CopyChanged(t)
      BY <1>1, <2>4 DEF Typed, Shape, CopyChanged, Elsewhere
    <2>5. CASE Publish(t) \/ Data(t) \/ Store(t) \/ Release(t)
      BY <1>1, <2>5 DEF Typed, Shape, Publish, Data, Store, Release, Doing, Elsewhere
    <2>6. CASE Test(t) \/ Probe(t) \/ Begin(t) \/ Look(t) \/ Keep(t) \/ CopyKept(t)
               \/ Drop(t)
      BY <2>6 DEF Typed, Test, Probe, Begin, Look, Leave, Keep, CopyKept, Drop, Elsewhere
    <2>7. QED
      BY <2>1, <2>2, <2>3, <2>4, <2>5, <2>6 DEF Continue, Write, Copy
  <1>4. /\ pc'[t] # "ready" => call'[t] \in Call
        /\ pc'[t] \in {"ready", "locked", "inplace", "copy"} => local'[t] = Null
        /\ pc'[t] \in {"locked", "inplace", "copy", "publish"} => lock'[Target(t)'] = t
    <2>1. CASE Enter(t)
      <3>1. PICK c \in Call : /\ lock' = [lock EXCEPT ![c.vec] = t]
                              /\ call' = [call EXCEPT ![t] = c]
        BY <2>1 DEF Enter
      <3>2. c.vec \in Vectors
        BY CallTypes
      <3>3. QED
        BY <2>1, <3>1, <3>2 DEF Typed, Shape, Enter, Target
    <2>2. CASE Fetch(t)
      BY <2>2 DEF Typed, Fetch
    <2>3. CASE Refuse(t) \/ Reset(t) \/ Check(t) \/ ChangeInPlace(t)
      BY <2>3 DEF Typed, Shape, Refuse, Reset, Check, ChangeInPlace, Doing, Target
    <2>4. CASE CopyChanged(t)
      BY <2>4 DEF Typed, Shape, CopyChanged, Target
    <2>5. CASE Publish(t) \/ Data(t) \/ Store(t) \/ Release(t)
      BY <2>5 DEF Typed, Shape, Publish, Data, Store, Release, Doing, Target
    <2>6. CASE Test(t) \/ Probe(t) \/ Begin(t) \/ Look(t) \/ Keep(t) \/ CopyKept(t)
               \/ Drop(t)
      BY <2>6 DEF Typed, Shape, Test, Probe, Begin, Look, Leave, Keep, CopyKept, Drop,
                  Target
    <2>7. QED
      BY <2>1, <2>2, <2>3, <2>4, <2>5, <2>6 DEF Continue, Write, Copy
  <1>5. ASSUME NEW u \in Threads \ {t}
        PROVE  /\ pc'[u] # "ready" => call'[u] \in Call
               /\ pc'[u] \in {"ready", "locked", "inplace", "copy"} => local'[u] = Null
               /\ pc'[u] \in {"locked", "inplace", "copy", "publish"} =>
                    lock'[Target(u)'] = u
    BY <1>1, <1>3 DEF Elsewhere, Shape, Target
  <1>6. QED
    BY <1>3, <1>4, <1>5 DEF Shape
(***************************************************************************)
(* Allocation                                                              *)
(***************************************************************************)

LEMMA ExactStep ==
  ASSUME Typed, Shape, Exact, NEW t \in Threads,
         \/ Enter(t) \/ Fetch(t) \/ Continue(t)
         \/ Keep(t) \/ CopyKept(t) \/ Drop(t)
  PROVE  Exact'
  <1> USE DEF Here
  <1>1. Null \notin Storages
    BY CowAssumption
  <1>2. CASE Enter(t) \/ Refuse(t) \/ Check(t) \/ Test(t) \/ Probe(t) \/ Begin(t) \/ Look(t)
    <2>1. UNCHANGED <<heap, storage, local, kept>>
      BY <1>2 DEF Enter, Refuse, Check, Test, Probe, Begin, Look, Leave
    <2>2. QED
      BY <2>1, ExactSame DEF Refers
  <1>3. CASE Fetch(t)
    <2>1. PICK c \in Call : /\ c.do \in Calls \cap {"assign", "search"}
                            /\ local' = [local EXCEPT ![t] = storage[Source(c)]]
      BY <1>3 DEF Fetch
    <2>2. Source(c) \in Vectors /\ UNCHANGED <<heap, storage, kept>> /\ local[t] = Null
      BY <1>3, <2>1, CallTypes DEF Fetch, Shape
    <2>3. \A s \in Storages : Refers(s)' <=> Refers(s)
      BY <1>1, <2>1, <2>2 DEF Refers, Typed
    <2>4. QED
      BY <2>2, <2>3, ExactSame
  <1>4. CASE Reset(t) \/ Publish(t) \/ Store(t) \/ Release(t) \/ Keep(t)
             \/ CopyKept(t) \/ Drop(t)
    <2>1. heap' = Alive(heap)
      BY <1>4 DEF Reset, Publish, Store, Release, Keep, CopyKept, Drop
    <2>2. CASE Reset(t) \/ Publish(t) \/ Store(t)
      BY <1>1, <2>1, <2>2, ExactAlive DEF Reset, Publish, Store, Refers, Typed
    <2>3. CASE Release(t) \/ Drop(t)
      BY <1>1, <2>1, <2>3, ExactAlive DEF Release, Drop, Refers, Typed
    <2>4. CASE Keep(t) \/ CopyKept(t)
      BY <1>1, <2>1, <2>4, ExactAlive DEF Keep, CopyKept, Refers, Typed
    <2>5. QED
      BY <1>4, <2>2, <2>3, <2>4
  <1>5. CASE ChangeInPlace(t)
    <2>1. DOMAIN heap' = DOMAIN heap /\ UNCHANGED <<storage, local, kept>>
      BY <1>5 DEF ChangeInPlace
    <2>2. QED
      BY <2>1, ExactSame DEF Refers
  <1>6. CASE CopyChanged(t)
    <2> DEFINE new == Result(call[t], Value(Target(t)))
    <2>1. CASE UNCHANGED <<heap, storage, local, kept>>
      BY <2>1, ExactSame DEF Refers
    <2>2. CASE /\ storage' = [storage EXCEPT ![Target(t)] = Null]
               /\ UNCHANGED <<local, kept>> /\ heap' = Alive(heap)
      BY <1>1, <2>2, ExactAlive DEF Refers, Typed
    <2>3. CASE /\ \E s \in Storages \ DOMAIN heap :
                    /\ heap' = Allocated(s, new)
                    /\ local' = [local EXCEPT ![t] = s]
               /\ UNCHANGED <<storage, kept>>
      <3>1. PICK s \in Storages : /\ heap' = Allocated(s, new)
                                  /\ local' = [local EXCEPT ![t] = s]
        BY <2>3
      <3>2. local[t] = Null
        BY <1>6 DEF CopyChanged, Shape
      <3>3. \A r \in Storages : Refers(r)' <=> r = s \/ Refers(r)
        BY <1>1, <2>3, <3>1, <3>2 DEF Refers, Typed
      <3>4. QED
        BY <3>1, <3>3, ExactAllocated
    <2>4. QED
      BY <1>6, <2>1, <2>2, <2>3 DEF CopyChanged
  <1>7. CASE Data(t)
    <2>1. CASE UNCHANGED <<heap, storage>>
      BY <1>7, <2>1, ExactSame DEF Data, Refers
    <2>2. CASE /\ storage[Target(t)] = Null
               /\ \E s \in Storages \ DOMAIN heap :
                    /\ heap' = Allocated(s, << >>)
                    /\ storage' = [storage EXCEPT ![Target(t)] = s]
      <3>1. PICK s \in Storages : /\ heap' = Allocated(s, << >>)
                                  /\ storage' = [storage EXCEPT ![Target(t)] = s]
        BY <2>2
      <3>2. Target(t) \in Vectors /\ UNCHANGED <<local, kept>>
        BY <1>7, CallTypes DEF Data, Doing, Shape, Target
      <3>3. \A r \in Storages : Refers(r)' <=> r = s \/ Refers(r)
        BY <1>1, <2>2, <3>1, <3>2 DEF Refers, Typed
      <3>4. QED
        BY <3>1, <3>3, ExactAllocated
    <2>3. QED
      BY <1>7, <2>1, <2>2 DEF Data
  <1>8. QED
    BY <1>2, <1>3, <1>4, <1>5, <1>6, <1>7 DEF Continue, Write, Copy
(***************************************************************************)
(* Changes in place                                                        *)
(***************************************************************************)

NoData == "data" \notin Calls

(* Without data() in use, no call is one.                                  *)
NoDataCall == \A t \in Threads : call[t].do # "data"

LEMMA NoDataStep ==
  ASSUME NoData, Typed, NoDataCall, NEW t \in Threads,
         \/ Enter(t) \/ Fetch(t) \/ Continue(t)
         \/ Keep(t) \/ CopyKept(t) \/ Drop(t)
  PROVE  NoDataCall'
  <1>1. CASE Enter(t)
    <2>1. PICK c \in Call : /\ c.do \in Calls
                            /\ call' = [call EXCEPT ![t] = c]
      BY <1>1 DEF Enter
    <2>2. QED
      BY <2>1 DEF NoData, NoDataCall, Typed
  <1>2. CASE Fetch(t)
    <2>1. PICK c \in Call : /\ c.do \in Calls
                            /\ call' = [call EXCEPT ![t] = c]
      BY <1>2 DEF Fetch
    <2>2. QED
      BY <2>1 DEF NoData, NoDataCall, Typed
  <1>3. CASE \/ call' = call
             \/ call' = [call EXCEPT ![t] = Idle]
    BY <1>3 DEF NoDataCall, Typed, Idle
  <1>4. QED
    BY <1>1, <1>2, <1>3
    DEF Continue, Write, Copy, Refuse, Reset, Check, ChangeInPlace, CopyChanged,
        Publish, Data, Store, Release, Test, Probe, Begin, Look, Leave, Keep, CopyKept,
        Drop, Return

(* Nobody else holds the storage that a thread other than a caller of      *)
(* data() is about to change in place.                                     *)
OwnWrite ==
  \A t \in Threads : Here(t, "inplace") /\ call[t].do # "data" => Unshared(Target(t))

(* While a thread holds the lock of a vector whose storage nobody else     *)
(* refers to, no other thread can come by a reference to it.               *)
LEMMA SoleStays ==
  ASSUME Typed, Shape, Exact, NEW t \in Threads,
         \/ Enter(t) \/ Fetch(t) \/ Continue(t)
         \/ Keep(t) \/ CopyKept(t) \/ Drop(t),
         NEW v \in Vectors, Sole(v), lock[v] \in Threads \ {t}
  PROVE  Sole(v)'
  <1> USE DEF Here
  <1>1. Null \notin Storages \cup Threads
    BY CowAssumption
  <1>2. storage[v] \in DOMAIN heap
    BY HoldersRefer DEF Sole, Typed, Exact, Referenced, Refers
  <1>3. pc[t] \in {"locked", "inplace", "copy", "publish"} => Target(t) # v
    BY DEF Shape
  <1>4. UNCHANGED <<storage, local, kept>> => Sole(v)'
    BY DEF Sole
  <1>5. CASE Enter(t) \/ Refuse(t) \/ Check(t) \/ Test(t) \/ Probe(t) \/ Begin(t)
             \/ Look(t) \/ ChangeInPlace(t)
    BY <1>4, <1>5 DEF Enter, Refuse, Check, Test, Probe, Begin, Look, Leave, ChangeInPlace
  <1>6. CASE Fetch(t)
    <2>1. PICK c \in Call : /\ c.do \in Calls \cap {"assign", "search"}
                            /\ lock[Source(c)] = Null
                            /\ local' = [local EXCEPT ![t] = storage[Source(c)]]
      BY <1>6 DEF Fetch
    <2>2. Source(c) \in Vectors /\ Source(c) # v
      BY <1>1, <2>1, CallTypes
    <2>3. storage[Source(c)] # storage[v]
      BY <2>2 DEF Sole
    <2>4. QED
      BY <1>6, <2>1, <2>3 DEF Fetch, Sole, Typed
  <1>7. CASE Reset(t) \/ Publish(t)
    <2>1. Target(t) # v
      BY <1>3, <1>7 DEF Reset, Publish, Doing
    <2>2. QED
      BY <1>1, <1>7, <2>1 DEF Reset, Publish, Sole, Typed
  <1>8. CASE Store(t)
    <2>1. Target(t) # v
      BY <1>1, <1>8 DEF Store
    <2>2. QED
      BY <1>8, <2>1 DEF Store, Sole, Typed
  <1>9. CASE CopyChanged(t)
    <2>1. CASE UNCHANGED <<storage, local, kept>>
      BY <1>4, <2>1
    <2>2. CASE /\ storage' = [storage EXCEPT ![Target(t)] = Null]
               /\ UNCHANGED <<local, kept>>
      BY <1>1, <1>3, <1>9, <2>2 DEF CopyChanged, Sole, Typed
    <2>3. CASE /\ \E s \in Storages \ DOMAIN heap :
                    local' = [local EXCEPT ![t] = s]
               /\ UNCHANGED <<storage, kept>>
      BY <1>2, <2>3 DEF Sole, Typed
    <2>4. QED
      BY <1>9, <2>1, <2>2, <2>3 DEF CopyChanged
  <1>10. CASE Data(t)
    <2>1. Target(t) # v
      BY <1>3, <1>10 DEF Data, Doing
    <2>2. CASE storage' = storage
      BY <1>4, <1>10, <2>2 DEF Data
    <2>3. CASE \E s \in Storages \ DOMAIN heap :
                 storage' = [storage EXCEPT ![Target(t)] = s]
      <3>1. storage'[v] = storage[v]
        BY <2>1, <2>3 DEF Typed
      <3>2. \A w \in Vectors : storage'[w] = storage[v] => w = v
        BY <1>2, <2>1, <2>3 DEF Sole, Typed
      <3>3. QED
        BY <1>10, <3>1, <3>2 DEF Data, Sole
    <2>4. QED
      BY <1>10, <2>2, <2>3 DEF Data
  <1>11. CASE Release(t) \/ Drop(t)
    BY <1>1, <1>11 DEF Release, Drop, Sole, Typed
  <1>12. CASE Keep(t)
    <2>1. PICK w \in Vectors : lock[w] = Null /\ kept' = [kept EXCEPT ![t] = storage[w]]
      BY <1>12 DEF Keep
    <2>2. storage[w] # storage[v]
      BY <1>1, <2>1 DEF Sole
    <2>3. QED
      BY <1>12, <2>1, <2>2 DEF Keep, Sole, Typed
  <1>13. CASE CopyKept(t)
    BY <1>13 DEF CopyKept, Sole, Typed
  <1>14. QED
    BY <1>5, <1>6, <1>7, <1>8, <1>9, <1>10, <1>11, <1>12, <1>13
    DEF Continue, Write, Copy

LEMMA OwnWriteStep ==
  ASSUME Typed, Shape, Exact, OwnWrite, NEW t \in Threads,
         \/ Enter(t) \/ Fetch(t) \/ Continue(t)
         \/ Keep(t) \/ CopyKept(t) \/ Drop(t)
  PROVE  OwnWrite'
  <1> USE DEF Here, Go, Return
  <1>1. ASSUME NEW u \in Threads \ {t}, pc'[u] = "inplace", call'[u].do # "data"
        PROVE  Unshared(Target(u))'
    <2>1. pc[u] = "inplace" /\ call'[u] = call[u] /\ call[u].do # "data"
      BY <1>1, ShapeStep DEF Elsewhere
    <2>2. Target(u) \in Vectors /\ lock[Target(u)] = u /\ Sole(Target(u))
      BY <2>1, CallTypes, UnsharedSole DEF Shape, OwnWrite, Target
    <2>3. Sole(Target(u))'
      <3>1. \A v \in Vectors : Sole(v) /\ lock[v] = u => Sole(v)'
        BY SoleStays
      <3>2. call[u].vec \in Vectors /\ lock[call[u].vec] = u /\ Sole(call[u].vec)
        BY <2>2 DEF Target
      <3>3. Sole(call[u].vec)'
        BY <2>1, <3>1, <3>2 DEF Sole
      <3>4. QED
        BY <2>1, <3>3 DEF Sole, Target
    <2>4. QED
      BY <2>1, <2>2, <2>3, UnsharedSole DEF Target, Unshared, Holders, Sole
  <1>2. ASSUME pc'[t] = "inplace", call'[t].do # "data" PROVE Unshared(Target(t))'
    <2>1. Check(t) /\ Unshared(Target(t))
      BY <1>2
      DEF Enter, Fetch, Continue, Write, Copy, Refuse, Reset, Check, ChangeInPlace,
          CopyChanged, Publish, Data, Store, Release, Test, Probe, Begin, Look, Leave,
          Keep, CopyKept,
          Drop, Doing, Typed
    <2>2. QED
      BY <2>1 DEF Check, Unshared, Holders, Target
  <1>3. QED
    BY <1>1, <1>2 DEF OwnWrite

(***************************************************************************)
(* The invariants                                                          *)
(***************************************************************************)

IInv == Exact /\ Typed /\ Shape

LEMMA StutterStep ==
  ASSUME UNCHANGED vars
  PROVE  /\ IInv => IInv'
         /\ OwnWrite => OwnWrite'
         /\ NoDataCall => NoDataCall'
  BY DEF vars, IInv, Exact, Typed, Shape, Referenced, Holders, Target, NoDataCall,
         OwnWrite, Here, Unshared

LEMMA Inductive == Spec => []IInv
  <1>1. Init => IInv
    BY InitHolds DEF IInv
  <1>2. IInv /\ [Next]_vars => IInv'
    <2>1. ASSUME IInv, Next PROVE IInv'
      <3>1. PICK t \in Threads : \/ Enter(t) \/ Fetch(t) \/ Continue(t)
                                 \/ Keep(t) \/ CopyKept(t) \/ Drop(t)
        BY <2>1 DEF Next
      <3>2. QED
        BY <2>1, <3>1, TypedStep, ShapeStep, ExactStep DEF IInv
    <2>2. QED
      BY <2>1, StutterStep
  <1>3. QED
    BY <1>1, <1>2, PTL DEF Spec

LEMMA InductiveWrite == Spec => []OwnWrite
  <1>1. Init => OwnWrite
    BY DEF Init, OwnWrite, Here
  <1>2. IInv /\ OwnWrite /\ [Next]_vars => OwnWrite'
    <2>1. ASSUME IInv, OwnWrite, Next PROVE OwnWrite'
      <3>1. PICK t \in Threads : \/ Enter(t) \/ Fetch(t) \/ Continue(t)
                                 \/ Keep(t) \/ CopyKept(t) \/ Drop(t)
        BY <2>1 DEF Next
      <3>2. QED
        BY <2>1, <3>1, OwnWriteStep DEF IInv
    <2>2. QED
      BY <2>1, StutterStep
  <1>3. QED
    BY <1>1, <1>2, Inductive, PTL DEF Spec

LEMMA InductiveNoData ==
  ASSUME NoData
  PROVE  Spec => [](NoDataCall /\ NoSharedWrite)
  <1>1. Init => NoDataCall
    BY DEF Init, NoDataCall, Idle
  <1>2. IInv /\ NoDataCall /\ [Next]_vars => NoDataCall'
    <2>1. ASSUME IInv, NoDataCall, Next PROVE NoDataCall'
      <3>1. PICK t \in Threads : \/ Enter(t) \/ Fetch(t) \/ Continue(t)
                                 \/ Keep(t) \/ CopyKept(t) \/ Drop(t)
        BY <2>1 DEF Next
      <3>2. QED
        BY <2>1, <3>1, NoDataStep DEF IInv
    <2>2. QED
      BY <2>1, StutterStep
  <1>3. NoDataCall /\ OwnWrite => NoSharedWrite
    BY DEF NoDataCall, OwnWrite, NoSharedWrite
  <1>4. QED
    BY <1>1, <1>2, <1>3, Inductive, InductiveWrite, PTL DEF Spec

(* One step of any thread leaves the elements of a storage as they were    *)
(* as long as a read-only copy of it stays, unless data() is at work.      *)
LEMMA FrozenStep ==
  ASSUME IInv, OwnWrite, Next,
         \A t \in Threads : Here(t, "inplace") => call[t].do # "data",
         NEW u \in Threads, kept'[u] = kept[u]
  PROVE  Contents(kept[u])' = Contents(kept[u])
  <1> USE DEF Here
  <1>1. PICK t \in Threads : \/ Enter(t) \/ Fetch(t) \/ Continue(t)
                             \/ Keep(t) \/ CopyKept(t) \/ Drop(t)
    BY DEF Next
  <1>2. CASE kept[u] = Null
    BY <1>2 DEF Contents
  <1>3. CASE kept[u] # Null
    <2> DEFINE s == kept[u]
    <2>1. s \in DOMAIN heap
      BY <1>3, HoldersRefer DEF IInv, Typed, Exact, Referenced, Refers
    <2>2. SUFFICES heap'[s] = heap[s]
      BY <1>3 DEF Contents
    <2>3. CASE heap' = heap
      BY <2>3
    <2>4. CASE heap' = Alive(heap)
      <3>1. Holders(s)' # {}
        BY HoldersRefer DEF Refers
      <3>2. QED
        BY <2>1, <2>4, <3>1 DEF Alive
    <2>5. CASE \E r \in Storages \ DOMAIN heap : \E elems : heap' = Allocated(r, elems)
      BY <2>1, <2>5 DEF Allocated
    <2>6. CASE ChangeInPlace(t)
      <3>1. Target(t) \in Vectors /\ Sole(Target(t))
        BY <2>6, CallTypes, UnsharedSole
        DEF ChangeInPlace, IInv, Shape, OwnWrite, Target
      <3>2. storage[Target(t)] # s
        BY <3>1 DEF Sole
      <3>3. QED
        BY <2>6, <3>2 DEF ChangeInPlace
    <2>7. CASE CopyChanged(t)
      BY <2>3, <2>4, <2>5, <2>7 DEF CopyChanged
    <2>8. QED
      BY <1>1, <2>3, <2>4, <2>5, <2>6, <2>7
      DEF Enter, Fetch, Continue, Write, Copy, Refuse, Reset, Check, Publish, Data,
          Store, Release, Test, Probe, Begin, Look, Leave, Keep, CopyKept, Drop
  <1>4. QED
    BY <1>2, <1>3

(***************************************************************************)
(* Searches                                                                *)
(***************************************************************************)

(* COW.cpp:131: remove keeps a sequence a sequence.                        *)
LEMMA OthersType ==
  ASSUME NEW S, NEW elems \in Seq(S), NEW e
  PROVE  Others(elems, e) \in Seq(S)
  <1> DEFINE N == Len(elems)
             T == Seq(S)
             body(f) == [n \in 0 .. N |->
                           IF n = 0 THEN << >>
                           ELSE IF elems[n] = e THEN f[n - 1]
                           ELSE Append(f[n - 1], elems[n])]
             first == CHOOSE f : f = body(f)
             step == [n \in 1 .. N |->
                        [s \in T |-> IF elems[n] = e THEN s ELSE Append(s, elems[n])]]
  <1>1. N \in Nat /\ << >> \in T
    OBVIOUS
  <1>2. \A n \in 1 .. N, s \in T : Append(s, elems[n]) \in T
    OBVIOUS
  <1>3. \E f : f = body(f)
    <2>1. Steps(step, N, T)
      <3> HIDE DEF T, N
      <3>1. QED
        BY <1>2 DEF Steps
    <2>2. PICK f : Run(f, N, T, << >>, step)
      <3> HIDE DEF N, T, step
      <3>1. QED
        BY <1>1, <2>1, Recursion
    <2> HIDE DEF N, T
    <2>3. ASSUME NEW n \in 1 .. N
          PROVE  f[n] = IF elems[n] = e THEN f[n - 1] ELSE Append(f[n - 1], elems[n])
      <3>1. f[n - 1] \in T
        BY <1>1, <2>2 DEF Run
      <3>2. QED
        BY <2>2, <3>1 DEF Run
    <2>4. ASSUME NEW n \in 0 .. N PROVE f[n] = body(f)[n]
      <3>1. CASE n = 0
        BY <2>2, <3>1 DEF Run
      <3>2. CASE n # 0
        <4>1. n \in 1 .. N
          BY <1>1, <3>2
        <4>2. QED
          BY <2>3, <3>2, <4>1
      <3>3. QED
        BY <3>1, <3>2
    <2>5. f = body(f)
      BY <2>2, <2>4 DEF Run
    <2>6. QED
      BY <2>5
  <1>4. first = body(first)
    <2> HIDE DEF body
    <2>1. QED
      BY <1>3
  <1>5. Others(elems, e) = first[N]
    BY DEF Others
  <1> HIDE DEF first, N, T
  <1>6. N \in {n \in 0 .. N : first[n] \in T}
    <2> DEFINE A == {n \in 0 .. N : first[n] \in T}
    <2>1. 0 \in A
      BY <1>1, <1>4
    <2>2. ASSUME NEW n \in 0 .. N - 1, n \in A PROVE n + 1 \in A
      <3>1. n + 1 \in 0 .. N /\ n + 1 \in 1 .. N /\ n + 1 # 0 /\ (n + 1) - 1 = n
        BY <1>1
      <3>2. first[n + 1] = IF elems[n + 1] = e THEN first[n]
                           ELSE Append(first[n], elems[n + 1])
        BY <1>4, <3>1
      <3>3. first[n] \in T
        BY <2>2
      <3>4. first[n + 1] \in T
        BY <1>2, <3>1, <3>2, <3>3
      <3>5. QED
        BY <3>1, <3>4
    <2>3. 0 .. N \subseteq A
      <3> HIDE DEF A
      <3>1. QED
        BY <1>1, <2>1, <2>2, BoundedInduction
    <2>4. QED
      BY <1>1, <2>3
  <1>7. QED
    BY <1>5, <1>6 DEF T

LEMMA SeveralElements ==
  ASSUME NEW S, NEW elems \in Seq(S), elems # << >>, Len(elems) # 1
  PROVE  Len(elems) > 1
  BY EmptySeq

(* Removing one of several elements leaves some.                           *)
LEMMA RemoveFirstType ==
  ASSUME NEW S, NEW elems \in Seq(S), NEW e
  PROVE  /\ RemoveFirst(elems, e) \in Seq(S)
         /\ Len(elems) > 1 => RemoveFirst(elems, e) # << >>
  <1>1. CASE \E i \in 1 .. Len(elems) : elems[i] = e
    <2> DEFINE I == {i \in 1 .. Len(elems) : elems[i] = e}
               i == Min(I)
    <2>1. i \in 1 .. Len(elems)
      <3>1. PICK m \in I : \A n \in I : m <= n
        <4>1. I \in SUBSET Nat /\ I # {}
          BY <1>1
        <4> HIDE DEF I
        <4>2. QED
          BY <4>1, Least
      <3>2. i \in I
        BY <3>1 DEF Min
      <3>3. QED
        BY <3>2
    <2>2. RemoveFirst(elems, e) = SubSeq(elems, 1, i - 1) \o SubSeq(elems, i + 1,
    Len(elems))
      BY <1>1 DEF RemoveFirst, RemoveAt, SelectInSeq
    <2> HIDE DEF i
    <2> DEFINE before == SubSeq(elems, 1, i - 1)
               after == SubSeq(elems, i + 1, Len(elems))
    <2>3. /\ before \in Seq(S) /\ after \in Seq(S)
          /\ Len(before) = i - 1 /\ Len(after) = Len(elems) - i
      BY <2>1
    <2>4. RemoveFirst(elems, e) = before \o after
      BY <2>2
    <2> HIDE DEF before, after
    <2>5. /\ before \o after \in Seq(S)
          /\ Len(before \o after) = Len(elems) - 1
      BY <2>1, <2>3
    <2>6. QED
      BY <2>4, <2>5
  <1>2. CASE ~\E i \in 1 .. Len(elems) : elems[i] = e
    BY <1>2 DEF RemoveFirst
  <1>3. QED
    BY <1>1, <1>2

LEMMA ReverseType ==
  ASSUME NEW S, NEW elems \in Seq(S)
  PROVE  Reverse(elems) \in Seq(S) /\ Len(Reverse(elems)) = Len(elems)
  BY DEF Reverse

LEMMA ResultType ==
  ASSUME NEW c \in Call, c.do \in Pushes \cup Removals \cup {"data"},
         NEW elems \in Seq(Elements)
  PROVE  /\ Result(c, elems) \in Seq(Elements)
         /\ c.do \in Pushes => Result(c, elems) # << >>
         /\ c.do \in {"removeFirst", "removeLast"} /\ Len(elems) > 1 =>
              Result(c, elems) # << >>
  <1>1. c.elem \in Elements
    BY DEF Call, Writers, Pushes, Removals
  <1>2. CASE c.do \in {"push_front", "push_back", "data"}
    BY <1>1, <1>2 DEF Result, Pushes, Removals
  <1>3. CASE c.do = "remove"
    BY <1>3, OthersType DEF Result, Pushes
  <1>4. CASE c.do = "removeFirst"
    BY <1>4, RemoveFirstType DEF Result, Pushes
  <1>5. CASE c.do = "removeLast"
    <2> DEFINE back == Reverse(elems)
               rest == RemoveFirst(back, c.elem)
    <2>1. back \in Seq(Elements) /\ Len(back) = Len(elems)
      BY ReverseType
    <2>2. rest \in Seq(Elements) /\ (Len(elems) > 1 => rest # << >>)
      <3> HIDE DEF back
      <3>1. QED
        BY <2>1, RemoveFirstType
    <2>3. Result(c, elems) = Reverse(rest)
      BY <1>5 DEF Result
    <2>4. Reverse(rest) \in Seq(Elements) /\ Len(Reverse(rest)) = Len(rest)
      <3> HIDE DEF rest
      <3>1. QED
        BY <2>2, ReverseType
    <2> HIDE DEF rest
    <2>5. QED
      BY <1>5, <2>2, <2>3, <2>4 DEF Pushes
  <1>6. QED
    BY <1>2, <1>3, <1>4, <1>5 DEF Pushes, Removals

(* Where a search is after it has its copy and before it returns an answer.*)
Looks == {"test", "probe", "begin", "scan", "absent", "found"}

(* Which call a thread is in, and that a search that did not find its copy *)
(* null has one.                                                           *)
Roles ==
  \A t \in Threads :
    /\ pc[t] = "inplace" => call[t].do \in Pushes \cup Removals \cup {"data"}
    /\ pc[t] = "copy" => call[t].do \in Pushes \cup Removals
    /\ pc[t] \in Looks => call[t].do = "search"
    /\ pc[t] \in {"probe", "begin", "scan"} => local[t] # Null

Sequenced == \A s \in DOMAIN heap : heap[s] \in Seq(Elements)

(* A changed copy that is about to be made is not empty, unless remove     *)
(* makes it, which looks.                                                  *)
Ample ==
  \A t \in Threads :
    Here(t, "copy") => \/ call[t].do = "remove"
                       \/ Result(call[t], Value(Target(t))) # << >>

(* What a search finds in its copy.                                        *)
Copied(t) ==
  IF local[t] = Null THEN FALSE
  ELSE \E n \in DOMAIN heap[local[t]] : heap[local[t]][n] = call[t].elem

(* A loop is in the search's own copy.  Unless the search may answer no,   *)
(* the element is at a place that the loop has still to look at.           *)
Underway(t) ==
  /\ raw[t] = local[t]
  /\ \A n \in DOMAIN ahead[t] : ahead[t][n] \in DOMAIN heap[local[t]]
  /\ \/ FALSE \in hits[t]
     \/ \E n \in DOMAIN ahead[t] : heap[local[t]][ahead[t][n]] = call[t].elem

(* What a search would answer from what it has seen was true since it      *)
(* began.                                                                  *)
Seen(t) ==
  /\ Copied(t) \in hits[t]
  /\ pc[t] = "absent" => FALSE \in hits[t]
  /\ pc[t] = "found" => TRUE \in hits[t]
  /\ pc[t] = "probe" /\ raw[t] \in DOMAIN heap /\ heap[raw[t]] = << >> =>
       FALSE \in hits[t]
  /\ pc[t] = "scan" /\ raw[t] # Null => Underway(t)

Witnessed == \A t \in Threads : pc[t] \in Looks => Seen(t)

Scanned == Roles /\ Sequenced /\ AheadTyped

SearchInv == Ample /\ Witnessed

Step(t) == \/ Enter(t) \/ Fetch(t) \/ Continue(t)
           \/ Keep(t) \/ CopyKept(t) \/ Drop(t)

LEMMA RolesStep ==
  ASSUME IInv, Roles, NEW t \in Threads, Step(t)
  PROVE  Roles'
  <1> USE DEF Here, Go, Return, Looks
  <1>1. Shape' /\ Elsewhere(t)
    BY ShapeStep DEF IInv, Step
  <1>2. ASSUME NEW u \in Threads \ {t}
        PROVE  /\ pc'[u] = "inplace" => call'[u].do \in Pushes \cup Removals \cup {"data"}
               /\ pc'[u] = "copy" => call'[u].do \in Pushes \cup Removals
               /\ pc'[u] \in Looks => call'[u].do = "search"
               /\ pc'[u] \in {"probe", "begin", "scan"} => local'[u] # Null
    BY <1>1 DEF Elsewhere, Roles
  <1>3. /\ pc'[t] = "inplace" => call'[t].do \in Pushes \cup Removals \cup {"data"}
        /\ pc'[t] = "copy" => call'[t].do \in Pushes \cup Removals
        /\ pc'[t] \in Looks => call'[t].do = "search"
        /\ pc'[t] \in {"probe", "begin", "scan"} => local'[t] # Null
    <2> USE DEF IInv, Typed
    <2>1. CASE Enter(t) \/ Refuse(t) \/ Reset(t) \/ ChangeInPlace(t) \/ CopyChanged(t)
               \/ Publish(t) \/ Store(t) \/ Release(t)
      <3>1. pc'[t] \in {"locked", "ready", "publish", "release"}
        BY <2>1 DEF Enter, Refuse, Reset, ChangeInPlace, CopyChanged, Publish, Store,
                    Release
      <3>2. QED
        BY <3>1
    <2>2. CASE Fetch(t)
      <3>1. PICK c \in Call :
              /\ c.do \in Calls \cap {"assign", "search"}
              /\ call' = [call EXCEPT ![t] = c]
              /\ pc' = [pc EXCEPT ![t] = IF c.do = "assign" THEN "store" ELSE "test"]
        BY <2>2 DEF Fetch
      <3>2. QED
        BY <3>1
    <2>3. CASE Check(t)
      BY <2>3 DEF Check, Doing
    <2>4. CASE Data(t)
      BY <2>4 DEF Data, Doing
    <2>5. CASE Test(t) \/ Probe(t) \/ Begin(t) \/ Look(t)
      BY <2>5 DEF Test, Probe, Begin, Look, Leave, Roles
    <2>6. CASE Keep(t) \/ CopyKept(t) \/ Drop(t)
      BY <2>6 DEF Keep, CopyKept, Drop
    <2>7. QED
      BY <2>1, <2>2, <2>3, <2>4, <2>5, <2>6 DEF Step, Continue, Write, Copy
  <1>4. QED
    BY <1>2, <1>3 DEF Roles

LEMMA ValueType ==
  ASSUME IInv, Sequenced, NEW v \in Vectors
  PROVE  /\ Value(v) \in Seq(Elements)
         /\ storage[v] # Null => storage[v] \in DOMAIN heap
  <1>1. storage[v] # Null => storage[v] \in DOMAIN heap
    BY HoldersRefer DEF IInv, Typed, Exact, Referenced, Refers
  <1>2. QED
    BY <1>1 DEF Sequenced, Value, Contents

LEMMA SequencedStep ==
  ASSUME IInv, Roles, Sequenced, NEW t \in Threads, Step(t)
  PROVE  Sequenced'
  <1> USE DEF Here
  <1>1. pc[t] # "ready" => call[t] \in Call /\ Target(t) \in Vectors
    BY CallTypes DEF IInv, Shape, Target
  <1> DEFINE new == Result(call[t], Value(Target(t)))
  <1>2. heap' = heap \/ heap' = Alive(heap) => Sequenced'
    BY DEF Sequenced, Alive
  <1>3. CASE ChangeInPlace(t)
    <2>1. Value(Target(t)) \in Seq(Elements)
      BY <1>1, <1>3, ValueType DEF ChangeInPlace
    <2>2. CASE storage[Target(t)] \in DOMAIN heap
      <3>1. storage[Target(t)] # Null
        BY <2>2, CowAssumption DEF IInv, Exact, Referenced
      <3>2. heap' = [heap EXCEPT ![storage[Target(t)]] = new]
        BY <1>3, <3>1 DEF ChangeInPlace, Value, Contents
      <3>3. new \in Seq(Elements)
        BY <1>1, <1>3, <2>1, ResultType DEF ChangeInPlace, Roles
      <3> HIDE DEF new
      <3>4. QED
        BY <3>2, <3>3 DEF Sequenced
    <2>3. CASE storage[Target(t)] \notin DOMAIN heap
      <3>1. heap' = [s \in DOMAIN heap |-> heap[s]]
        BY <1>3, <2>3 DEF ChangeInPlace
      <3>2. QED
        BY <3>1 DEF Sequenced
    <2>4. QED
      BY <2>2, <2>3
  <1>4. CASE CopyChanged(t)
    <2>1. CASE heap' = heap \/ heap' = Alive(heap)
      BY <1>2, <2>1
    <2>2. CASE \E s \in Storages \ DOMAIN heap : heap' = Allocated(s, new)
      <3>1. Value(Target(t)) \in Seq(Elements)
        BY <1>1, <1>4, ValueType DEF CopyChanged
      <3>2. new \in Seq(Elements)
        BY <1>1, <1>4, <3>1, ResultType DEF CopyChanged, Roles
      <3> HIDE DEF new
      <3>3. QED
        BY <2>2, <3>2 DEF Allocated, Sequenced
    <2>3. QED
      BY <1>4, <2>1, <2>2 DEF CopyChanged
  <1>5. CASE Data(t)
    <2>1. CASE UNCHANGED heap
      BY <1>2, <2>1
    <2>2. CASE \E s \in Storages \ DOMAIN heap : heap' = Allocated(s, << >>)
      <3>1. << >> \in Seq(Elements)
        OBVIOUS
      <3>2. QED
        BY <2>2, <3>1 DEF Allocated, Sequenced
    <2>3. QED
      BY <1>5, <2>1, <2>2 DEF Data
  <1>6. CASE \/ Enter(t) \/ Fetch(t) \/ Refuse(t) \/ Check(t) \/ Test(t) \/ Probe(t)
             \/ Begin(t) \/ Look(t) \/ Reset(t) \/ Publish(t) \/ Store(t) \/ Release(t)
             \/ Keep(t) \/ CopyKept(t) \/ Drop(t)
    <2>1. heap' = heap \/ heap' = Alive(heap)
      BY <1>6 DEF Enter, Fetch, Refuse, Check, Test, Probe, Begin, Look, Reset, Publish,
                  Store, Release, Keep, CopyKept, Drop
    <2>2. QED
      BY <1>2, <2>1
  <1>7. QED
    BY <1>3, <1>4, <1>5, <1>6 DEF Step, Continue, Write, Copy

LEMMA ForwardType ==
  ASSUME NEW elems \in Seq(Elements),
         NEW order \in {Forward(elems), Reverse(Forward(elems))}
  PROVE  /\ order \in Seq(Nat)
         /\ \A n \in DOMAIN order : order[n] \in DOMAIN elems
         /\ \A m \in DOMAIN elems : \E n \in DOMAIN order : order[n] = m
  <1> DEFINE k == Len(elems)
             f == [n \in 1 .. k |-> n]
             b == [n \in 1 .. k |-> f[(k - n) + 1]]
  <1>1. k \in Nat /\ DOMAIN elems = 1 .. k
    OBVIOUS
  <1>2. Forward(elems) = f /\ f \in Seq(Nat) /\ Len(f) = k
    BY <1>1 DEF Forward
  <1>3. Reverse(Forward(elems)) = b
    BY <1>1, <1>2 DEF Reverse
  <1>4. \A n \in 1 .. k : (k - n) + 1 \in 1 .. k /\ k - ((k - n) + 1) + 1 = n
    BY <1>1
  <1>5. b \in Seq(Nat) /\ DOMAIN b = 1 .. k /\ \A n \in 1 .. k : b[n] = (k - n) + 1
    BY <1>1, <1>4
  <1>6. CASE order = f
    BY <1>1, <1>2, <1>6
  <1>7. CASE order = b
    <2>1. ASSUME NEW m \in 1 .. k
          PROVE  (k - m) + 1 \in DOMAIN b /\ b[(k - m) + 1] = m
      <3>1. (k - m) + 1 \in 1 .. k
        BY <1>4
      <3>2. b[(k - m) + 1] = (k - ((k - m) + 1)) + 1
        BY <1>5, <3>1
      <3>3. QED
        BY <1>4, <1>5, <3>1, <3>2
    <2>2. \A n \in DOMAIN b : b[n] \in DOMAIN elems
      BY <1>1, <1>4, <1>5
    <2> HIDE DEF b, f, k
    <2>3. \A m \in DOMAIN elems : \E n \in DOMAIN b : b[n] = m
      BY <1>1, <2>1
    <2>4. QED
      BY <1>5, <1>7, <2>2, <2>3
  <1>8. QED
    BY <1>2, <1>3, <1>6, <1>7

LEMMA AheadStep ==
  ASSUME IInv, Sequenced, AheadTyped, Roles, NEW t \in Threads, Step(t)
  PROVE  AheadTyped'
  <1> USE DEF Here
  <1>1. CASE Begin(t)
    <2>1. local[t] \in DOMAIN heap
      <3>1. local[t] # Null
        BY <1>1 DEF Begin, Roles
      <3>2. local[t] \in Storages /\ Holders(local[t]) # {}
        BY <3>1, HoldersRefer DEF IInv, Typed, Refers
      <3>3. QED
        BY <3>2 DEF IInv, Exact, Referenced
    <2>2. PICK order \in {Forward(heap[local[t]]), Reverse(Forward(heap[local[t]]))} :
            ahead' = [ahead EXCEPT ![t] = order]
      BY <1>1 DEF Begin
    <2>3. order \in Seq(Nat)
      BY <2>1, ForwardType DEF Sequenced
    <2>4. QED
      BY <2>2, <2>3 DEF AheadTyped
  <1>2. CASE Look(t)
    <2>1. ahead[t] # << >> => Tail(ahead[t]) \in Seq(Nat)
      BY DEF AheadTyped
    <2>2. << >> \in Seq(Nat)
      OBVIOUS
    <2>3. QED
      BY <1>2, <2>1, <2>2 DEF Look, Leave, AheadTyped
  <1>3. CASE ahead' = ahead
    BY <1>3 DEF AheadTyped
  <1>4. QED
    BY <1>1, <1>2, <1>3
    DEF Step, Enter, Fetch, Continue, Write, Copy, Refuse, Reset, Check, ChangeInPlace,
        CopyChanged, Publish, Data, Store, Release, Test, Probe, Keep, CopyKept, Drop

(* What a step makes of the storages: a storage that is there is as it was *)
(* before the step, or it is a vector's, or it is new and not empty.       *)
LEMMA HeapStep ==
  ASSUME IInv, Roles, Sequenced, Ample, NEW t \in Threads, Step(t)
  PROVE  \A s \in DOMAIN heap' :
           \/ s \in DOMAIN heap /\ heap'[s] = heap[s]
           \/ \E v \in Vectors : storage'[v] = s
           \/ s \notin DOMAIN heap /\ heap'[s] # << >>
  <1> USE DEF Here
  <1>1. pc[t] # "ready" => call[t] \in Call /\ Target(t) \in Vectors
    BY CallTypes DEF IInv, Shape, Target
  <1> DEFINE new == Result(call[t], Value(Target(t)))
             Fine == \A s \in DOMAIN heap' :
                       \/ s \in DOMAIN heap /\ heap'[s] = heap[s]
                       \/ \E v \in Vectors : storage'[v] = s
                       \/ s \notin DOMAIN heap /\ heap'[s] # << >>
  <1>2. heap' = heap \/ heap' = Alive(heap) => Fine
    BY DEF Alive
  <1>3. CASE ChangeInPlace(t)
    <2>1. \A s \in DOMAIN heap' :
            s \in DOMAIN heap /\ (s # storage[Target(t)] => heap'[s] = heap[s])
      BY <1>3 DEF ChangeInPlace
    <2>2. Target(t) \in Vectors /\ storage' = storage
      BY <1>1, <1>3 DEF ChangeInPlace
    <2>3. QED
      BY <2>1, <2>2
  <1>4. CASE CopyChanged(t)
    <2>1. CASE heap' = heap \/ heap' = Alive(heap)
      BY <1>2, <2>1
    <2>2. CASE /\ call[t].do = "remove" => new # << >>
               /\ \E s \in Storages \ DOMAIN heap : heap' = Allocated(s, new)
      <3>1. new # << >>
        BY <1>4, <2>2 DEF CopyChanged, Ample
      <3> HIDE DEF new
      <3>2. QED
        BY <2>2, <3>1 DEF Allocated
    <2>3. QED
      BY <1>4, <2>1, <2>2 DEF CopyChanged
  <1>5. CASE Data(t)
    <2>1. CASE UNCHANGED heap
      BY <1>2, <2>1
    <2>2. CASE \E s \in Storages \ DOMAIN heap :
                 /\ heap' = Allocated(s, << >>)
                 /\ storage' = [storage EXCEPT ![Target(t)] = s]
      <3>1. PICK s \in Storages : /\ heap' = Allocated(s, << >>)
                                  /\ storage' = [storage EXCEPT ![Target(t)] = s]
        BY <2>2
      <3>2. storage'[Target(t)] = s
        BY <1>1, <1>5, <3>1 DEF Data, Doing, IInv, Typed
      <3>3. \A r \in DOMAIN heap' : IF r = s THEN heap'[r] = << >>
                                    ELSE r \in DOMAIN heap /\ heap'[r] = heap[r]
        BY <3>1 DEF Allocated
      <3>4. QED
        BY <1>1, <1>5, <3>2, <3>3 DEF Data, Doing
    <2>3. QED
      BY <1>5, <2>1, <2>2 DEF Data
  <1>6. CASE \/ Enter(t) \/ Fetch(t) \/ Refuse(t) \/ Check(t) \/ Test(t) \/ Probe(t)
             \/ Begin(t) \/ Look(t) \/ Reset(t) \/ Publish(t) \/ Store(t) \/ Release(t)
             \/ Keep(t) \/ CopyKept(t) \/ Drop(t)
    <2>1. heap' = heap \/ heap' = Alive(heap)
      BY <1>6 DEF Enter, Fetch, Refuse, Check, Test, Probe, Begin, Look, Leave, Reset,
                  Publish, Store,
                  Release, Keep, CopyKept, Drop
    <2>2. QED
      BY <1>2, <2>1
  <1>7. QED
    BY <1>3, <1>4, <1>5, <1>6 DEF Step, Continue, Write, Copy

(* What a thread holds a reference of changes through data() only, which   *)
(* adds an element at the end.                                             *)
LEMMA OnlyAppended ==
  ASSUME IInv, IInv', OwnWrite, Roles, NEW t \in Threads, Step(t),
         NEW u \in Threads, local[u] # Null, local'[u] = local[u]
  PROVE  /\ local[u] \in DOMAIN heap /\ local[u] \in DOMAIN heap'
         /\ \/ heap'[local[u]] = heap[local[u]]
            \/ \E e \in Elements : heap'[local[u]] = Append(heap[local[u]], e)
  <1> USE DEF Here
  <1>1. local[u] \in DOMAIN heap /\ local[u] \in DOMAIN heap'
    BY HoldersRefer DEF IInv, Typed, Exact, Referenced, Refers
  <1>2. CASE ChangeInPlace(t)
    <2>1. heap' = [heap EXCEPT ![storage[Target(t)]] = Result(call[t], @)]
      BY <1>2 DEF ChangeInPlace
    <2>2. CASE local[u] # storage[Target(t)]
      BY <1>1, <2>1, <2>2
    <2>3. CASE local[u] = storage[Target(t)]
      <3>1. call[t].do = "data"
        <4>1. Target(t) \in Vectors
          BY <1>2, CallTypes DEF ChangeInPlace, IInv, Shape, Target
        <4>2. ~Unshared(Target(t))
          BY <2>3, <4>1, UnsharedSole DEF Sole
        <4>3. QED
          BY <1>2, <4>2 DEF ChangeInPlace, OwnWrite
      <3>2. call[t] \in Call
        BY <1>2 DEF ChangeInPlace, IInv, Shape
      <3>3. call[t].elem \in Elements
        BY <3>1, <3>2 DEF Call
      <3>4. heap'[local[u]] = Append(heap[local[u]], call[t].elem)
        BY <1>1, <2>1, <2>3, <3>1 DEF Result
      <3>5. QED
        BY <1>1, <3>3, <3>4
    <2>4. QED
      BY <2>2, <2>3
  <1>3. CASE \/ heap' = heap \/ heap' = Alive(heap)
             \/ \E s \in Storages \ DOMAIN heap : \E elems : heap' = Allocated(s, elems)
    BY <1>1, <1>3 DEF Alive, Allocated
  <1>4. CASE CopyChanged(t)
    BY <1>3, <1>4 DEF CopyChanged
  <1>5. CASE Data(t)
    BY <1>3, <1>5 DEF Data
  <1>6. QED
    BY <1>2, <1>3, <1>4, <1>5
    DEF Step, Enter, Fetch, Continue, Write, Copy, Refuse, Reset, Check, Publish,
        Store, Release, Test, Probe, Begin, Look, Keep, CopyKept, Drop

OneVector == \A v, w \in Vectors : v = w

(* While a thread holds the lock of the only vector no other thread changes*)
(* the vector or its elements.                                             *)
LEMMA LockKeepsValue ==
  ASSUME OneVector, IInv, IInv', NEW t \in Threads, Step(t), NEW u \in Threads \ {t},
         NEW v \in Vectors, lock[v] = u
  PROVE  Value(v)' = Value(v)
  <1> USE DEF Here
  <1>1. Null \notin Threads /\ Null \notin Storages
    BY CowAssumption
  <1>2. pc[t] \notin {"locked", "inplace", "copy", "publish"}
    <2>1. pc[t] # "ready" => Target(t) \in Vectors
      BY CallTypes DEF IInv, Shape, Target
    <2>2. QED
      BY <2>1 DEF OneVector, IInv, Shape
  <1>3. ~Enter(t) /\ ~Fetch(t) /\ ~Store(t) /\ ~Keep(t)
    <2>1. ~Enter(t)
      BY <1>1, CallTypes DEF Enter, OneVector
    <2>2. ~Fetch(t)
      BY <1>1, CallTypes DEF Fetch, OneVector
    <2>3. ~Store(t)
      BY <1>1, CallTypes DEF Store, OneVector, IInv, Shape, Target
    <2>4. ~Keep(t)
      BY <1>1 DEF Keep, OneVector
    <2>5. QED
      BY <2>1, <2>2, <2>3, <2>4
  <1>4. Test(t) \/ Probe(t) \/ Begin(t) \/ Look(t) \/ Release(t) \/ CopyKept(t) \/ Drop(t)
    BY <1>2, <1>3 DEF Step, Continue, Write, Copy, Refuse, Reset, Check, ChangeInPlace,
                      CopyChanged, Publish, Data, Doing
  <1>5. storage' = storage /\ (heap' = heap \/ heap' = Alive(heap))
    BY <1>4 DEF Test, Probe, Begin, Look, Leave, Release, CopyKept, Drop
  <1>6. storage[v] # Null => storage[v] \in DOMAIN heap'
    BY <1>5, HoldersRefer DEF IInv, Typed, Exact, Referenced, Refers
  <1>7. CASE storage[v] = Null
    BY <1>5, <1>7 DEF Value, Contents
  <1>8. CASE storage[v] # Null
    <2>1. heap'[storage[v]] = heap[storage[v]]
      BY <1>5, <1>6, <1>8 DEF Alive
    <2>2. QED
      BY <1>5, <1>8, <2>1 DEF Value, Contents
  <1>9. QED
    BY <1>7, <1>8

LEMMA AmpleStep ==
  ASSUME OneVector, IInv, IInv', Sequenced, Ample, NEW t \in Threads, Step(t)
  PROVE  Ample'
  <1> USE DEF Here, Go, Return
  <1>1. ASSUME NEW u \in Threads \ {t}, pc'[u] = "copy"
        PROVE  call'[u].do = "remove" \/ Result(call[u], Value(Target(u)))' # << >>
    <2>1. pc[u] = "copy" /\ call'[u] = call[u]
      BY <1>1, ShapeStep DEF Elsewhere, IInv, Step
    <2>2. PICK v \in Vectors : v = call[u].vec /\ lock[v] = u
      BY <2>1, CallTypes DEF IInv, Shape, Target
    <2>3. Value(v)' = Value(v)
      BY <2>2, LockKeepsValue
    <2>4. Result(call[u], Value(Target(u)))' = Result(call[u], Value(Target(u)))
      <3>1. Value(Target(u))' = Value(v)' /\ Value(Target(u)) = Value(v)
        BY <2>1, <2>2 DEF Target, Value, Contents
      <3>2. QED
        BY <2>1, <2>3, <3>1 DEF Result
    <2>5. QED
      BY <2>1, <2>4 DEF Ample
  <1>2. ASSUME pc'[t] = "copy"
        PROVE  call'[t].do = "remove" \/ Result(call[t], Value(Target(t)))' # << >>
    <2>1. Check(t)
      BY <1>2
      DEF Step, Enter, Fetch, Continue, Write, Copy, Refuse, Reset, Check, ChangeInPlace,
          CopyChanged, Publish, Data, Store, Release, Test, Probe, Begin, Look, Leave,
          Keep, CopyKept,
          Drop, Doing, IInv, Typed
    <2>2. /\ call[t] \in Call /\ Target(t) \in Vectors
          /\ call[t].do \in Pushes \cup Removals
      BY <2>1, CallTypes DEF Check, Doing, IInv, Shape, Target
    <2>3. Value(Target(t)) \in Seq(Elements)
      BY <2>2, ValueType
    <2>4. ASSUME call[t].do \in {"removeFirst", "removeLast"}
          PROVE  Len(Value(Target(t))) > 1
      <3>1. Value(Target(t)) # << >> /\ Len(Value(Target(t))) # 1
        BY <2>1, <2>4 DEF Check, Doing, NothingToRemove, RemovesOnly, Pushes
      <3>2. QED
        BY <2>3, <3>1, SeveralElements
    <2>5. call[t].do = "remove" \/ Result(call[t], Value(Target(t))) # << >>
      BY <2>2, <2>3, <2>4, ResultType DEF Removals
    <2>6. UNCHANGED <<heap, storage, call>>
      BY <2>1 DEF Check
    <2>7. Result(call[t], Value(Target(t)))' = Result(call[t], Value(Target(t)))
      BY <2>6 DEF Result, Target, Value, Contents
    <2>8. QED
      BY <2>5, <2>6, <2>7
  <1>3. QED
    BY <1>1, <1>2 DEF Ample

(* A search of the only vector that looks at a storage of it finds what the*)
(* vector holds.                                                           *)
LEMMA FindsThere ==
  ASSUME NEW u \in Threads, storage[Target(u)] # Null
  PROVE  Finds(u) <=> \E n \in DOMAIN heap[storage[Target(u)]] :
                         heap[storage[Target(u)]][n] = call[u].elem
  BY DEF Finds, Value, Contents

LEMMA WitnessedStep ==
  ASSUME OneVector, IInv, IInv', OwnWrite, Scanned, SearchInv,
         NEW t \in Threads, Step(t), Observe
  PROVE  Witnessed'
  <1> USE DEF Here, Go, Return, Looks, Scanned
  <1>1. Roles' /\ Shape' /\ Elsewhere(t)
    BY RolesStep, ShapeStep DEF IInv, Step
  <1>2. ASSUME NEW u \in Threads, pc'[u] \in Looks
        PROVE  /\ hits'[u] = hits[u] \cup {Finds(u)'}
               /\ Target(u)' \in Vectors
    <2>1. call'[u].do = "search" /\ call'[u] \in Call
      BY <1>1, <1>2 DEF Roles, Shape
    <2>2. QED
      BY <2>1, CallTypes DEF Observe, Searching, Target
  (* What a search finds in the vector's storage is noted.                 *)
  <1>3. ASSUME NEW u \in Threads, pc'[u] \in Looks, storage'[Target(u)'] # Null
        PROVE  (\E n \in DOMAIN heap'[storage'[Target(u)']] :
                   heap'[storage'[Target(u)']][n] = call'[u].elem) \in hits'[u]
    <2>1. Finds(u)' <=> \E n \in DOMAIN heap'[storage'[Target(u)']] :
                          heap'[storage'[Target(u)']][n] = call'[u].elem
      BY <1>3 DEF Finds, Value, Contents, Target
    <2>2. Finds(u)' \in BOOLEAN
      BY DEF Finds
    <2>3. QED
      BY <1>2, <1>3, <2>1, <2>2
  <1>4. ASSUME NEW u \in Threads, pc'[u] \in Looks, storage'[Target(u)'] = Null
        PROVE  FALSE \in hits'[u]
    <2>1. Finds(u)' = FALSE
      BY <1>4 DEF Finds, Value, Contents, Target
    <2>2. QED
      BY <1>2, <1>4, <2>1
  <1>5. ASSUME NEW u \in Threads \ {t}, pc'[u] \in Looks
        PROVE  Seen(u)'
    <2>1. /\ pc'[u] = pc[u] /\ call'[u] = call[u] /\ local'[u] = local[u]
          /\ pc[u] \in Looks /\ Seen(u)
      BY <1>1, <1>5 DEF Elsewhere, SearchInv, Witnessed
    <2>2. hits[u] \subseteq hits'[u]
      BY <1>2, <1>5
    <2>3. /\ ahead'[u] = ahead[u]
          /\ raw'[u] = raw[u] \/ (pc[u] = "scan" /\ raw'[u] = Null)
      <3>1. CASE ChangeInPlace(t)
        BY <3>1 DEF ChangeInPlace, Looping, IInv, Typed
      <3>2. CASE Begin(t) \/ Look(t) \/ Test(t) \/ Probe(t)
        BY <3>2 DEF Begin, Look, Leave, Test, Probe, IInv, Typed, AheadTyped
      <3>3. CASE UNCHANGED <<raw, ahead>>
        BY <3>3
      <3>4. QED
        BY <3>1, <3>2, <3>3
        DEF Step, Enter, Fetch, Continue, Write, Copy, Refuse, Reset, Check,
            CopyChanged, Publish, Data, Store, Release, Keep, CopyKept, Drop
    <2>4. \A s \in DOMAIN heap' : \/ s \in DOMAIN heap /\ heap'[s] = heap[s]
                                  \/ storage'[Target(u)'] = s
                                  \/ s \notin DOMAIN heap /\ heap'[s] # << >>
      BY <1>2, <1>5, HeapStep DEF SearchInv, OneVector
    <2>5. Copied(u)' \in hits'[u]
      <3>1. CASE local[u] = Null
        BY <2>1, <2>2, <3>1 DEF Copied, Seen
      <3>2. CASE local[u] # Null
        <4>1. local[u] \in DOMAIN heap /\ local[u] \in DOMAIN heap'
          BY <2>1, <3>2, HoldersRefer DEF IInv, Typed, Exact, Referenced, Refers
        <4>2. CASE heap'[local[u]] = heap[local[u]]
          BY <2>1, <2>2, <3>2, <4>2 DEF Copied, Seen
        <4>3. CASE storage'[Target(u)'] = local[u]
          BY <1>3, <1>5, <2>1, <3>2, <4>3 DEF Copied
        <4>4. QED
          BY <2>4, <4>1, <4>2, <4>3
      <3>3. QED
        BY <3>1, <3>2
    <2>6. /\ pc'[u] = "absent" => FALSE \in hits'[u]
          /\ pc'[u] = "found" => TRUE \in hits'[u]
      BY <2>1, <2>2 DEF Seen
    <2>7. ASSUME pc'[u] = "probe", raw'[u] \in DOMAIN heap', heap'[raw'[u]] = << >>
          PROVE  FALSE \in hits'[u]
      <3>1. raw'[u] = raw[u]
        BY <2>1, <2>3, <2>7
      <3>2. CASE raw[u] \in DOMAIN heap /\ heap'[raw[u]] = heap[raw[u]]
        BY <2>1, <2>2, <2>7, <3>1, <3>2 DEF Seen
      <3>3. CASE storage'[Target(u)'] = raw[u]
        <4>1. storage'[Target(u)'] # Null
          BY <2>7, <3>1, <3>3, CowAssumption DEF IInv, Exact, Referenced
        <4>2. (\E n \in DOMAIN heap'[raw[u]] : heap'[raw[u]][n] = call'[u].elem) = FALSE
          BY <2>7, <3>1
        <4>3. QED
          BY <1>3, <1>5, <3>3, <4>1, <4>2
      <3>4. QED
        BY <2>4, <2>7, <3>1, <3>2, <3>3
    <2>8. ASSUME pc'[u] = "scan", raw'[u] # Null PROVE Underway(u)'
      <3>1. raw'[u] = raw[u] /\ Underway(u) /\ local[u] # Null
        BY <2>1, <2>3, <2>8 DEF Seen, Roles
      <3>2. /\ local[u] \in DOMAIN heap
            /\ \/ heap'[local[u]] = heap[local[u]]
               \/ \E e \in Elements : heap'[local[u]] = Append(heap[local[u]], e)
        BY <2>1, <3>1, OnlyAppended
      <3>3. heap[local[u]] \in Seq(Elements)
        BY <3>2 DEF Sequenced
      <3>4. \A n \in DOMAIN heap[local[u]] : /\ n \in DOMAIN heap'[local[u]]
                                             /\ heap'[local[u]][n] = heap[local[u]][n]
        BY <3>2, <3>3
      <3>5. QED
        BY <2>1, <2>2, <2>3, <3>1, <3>4 DEF Underway
    <2>9. QED
      BY <2>5, <2>6, <2>7, <2>8 DEF Seen
  <1>6. ASSUME pc'[t] \in Looks PROVE Seen(t)'
    <2> USE DEF IInv, Typed
    <2>1. Fetch(t) \/ Test(t) \/ Probe(t) \/ Begin(t) \/ Look(t)
      <3>1. ~(Keep(t) \/ CopyKept(t) \/ Drop(t))
        BY <1>6 DEF Keep, CopyKept, Drop
      <3>2. QED
        BY <1>6, <3>1
        DEF Step, Enter, Continue, Write, Copy, Refuse, Reset, Check, ChangeInPlace,
            CopyChanged, Publish, Data, Store, Release, Doing
    <2>2. hits[t] \subseteq hits'[t]
      BY <1>2, <1>6
    <2>3. ~Fetch(t) => /\ UNCHANGED <<heap, storage, call, local>>
                       /\ pc[t] \in Looks /\ Seen(t) /\ Copied(t)' = Copied(t)
      <3>1. ASSUME ~Fetch(t)
            PROVE  UNCHANGED <<heap, storage, call, local>> /\ pc[t] \in Looks
        BY <2>1, <3>1 DEF Test, Probe, Begin, Look
      <3>2. QED
        BY <3>1 DEF SearchInv, Witnessed, Copied
    <2>4. ~Fetch(t) => Copied(t)' \in hits'[t]
      BY <2>2, <2>3 DEF Seen
    <2>5. CASE Fetch(t)
      <3>1. PICK c \in Call :
              /\ c.do \in Calls \cap {"assign", "search"}
              /\ call' = [call EXCEPT ![t] = c]
              /\ local' = [local EXCEPT ![t] = storage[Source(c)]]
              /\ pc' = [pc EXCEPT ![t] = IF c.do = "assign" THEN "store" ELSE "test"]
        BY <2>5 DEF Fetch
      <3>2. pc'[t] = "test" /\ call'[t] = c /\ c.do = "search"
        BY <1>6, <3>1
      <3>3. UNCHANGED <<heap, storage>> /\ local'[t] = storage'[Target(t)']
        BY <2>5, <3>1, <3>2 DEF Fetch, Source, Target
      <3>4. Copied(t)' \in hits'[t]
        <4>1. CASE local'[t] = Null
          BY <1>4, <1>6, <3>3, <4>1 DEF Copied
        <4>2. CASE local'[t] # Null
          BY <1>3, <1>6, <3>3, <4>2 DEF Copied
        <4>3. QED
          BY <4>1, <4>2
      <3>5. QED
        BY <3>2, <3>4 DEF Seen
    <2>6. CASE Test(t)
      <3>1. /\ \/ local[t] = Null /\ pc'[t] = "absent"
               \/ /\ local[t] # Null /\ pc'[t] = "probe"
                  /\ raw'[t] = storage[Target(t)]
            /\ ~Fetch(t)
        BY <2>6 DEF Test, Fetch
      <3>2. pc'[t] = "absent" => FALSE \in hits'[t]
        BY <2>3, <2>4, <3>1 DEF Copied
      <3>3. ASSUME pc'[t] = "probe", raw'[t] \in DOMAIN heap', heap'[raw'[t]] = << >>
            PROVE  FALSE \in hits'[t]
        <4>1. raw'[t] = storage'[Target(t)'] /\ raw'[t] # Null
          BY <2>3, <3>1, <3>3, CowAssumption DEF Target, Exact, Referenced
        <4>2. (\E n \in DOMAIN heap'[raw'[t]] : heap'[raw'[t]][n] = call'[t].elem) = FALSE
          BY <3>3
        <4>3. QED
          BY <1>3, <1>6, <4>1, <4>2
      <3>4. QED
        BY <2>4, <3>1, <3>2, <3>3 DEF Seen
    <2>7. CASE Probe(t)
      <3>1. /\ pc[t] = "probe" /\ ~Fetch(t)
            /\ \/ pc'[t] = "fault"
               \/ /\ raw[t] \in DOMAIN heap /\ heap[raw[t]] = << >>
                  /\ pc'[t] = "absent"
               \/ pc'[t] = "begin"
        BY <2>7 DEF Probe, Fetch
      <3>2. pc'[t] = "absent" => FALSE \in hits'[t]
        BY <2>2, <2>3, <3>1 DEF Seen
      <3>3. QED
        BY <2>4, <3>1, <3>2 DEF Seen
    <2>8. CASE Begin(t)
      <3>1. /\ pc[t] = "begin" /\ pc'[t] = "scan" /\ ~Fetch(t) /\ local[t] # Null
            /\ raw'[t] = local[t]
        BY <2>8 DEF Begin, Fetch, Roles
      <3>2. PICK order \in {Forward(heap[local[t]]), Reverse(Forward(heap[local[t]]))} :
              ahead'[t] = order
        BY <2>8 DEF Begin, AheadTyped
      <3>3. heap[local[t]] \in Seq(Elements)
        BY <3>1, HoldersRefer DEF Exact, Referenced, Refers, Sequenced
      <3>4. /\ \A n \in DOMAIN order : order[n] \in DOMAIN heap[local[t]]
            /\ \A m \in DOMAIN heap[local[t]] : \E n \in DOMAIN order : order[n] = m
        BY <3>2, <3>3, ForwardType
      <3>5. \/ FALSE \in hits'[t]
            \/ \E n \in DOMAIN order : heap[local[t]][order[n]] = call[t].elem
        <4>1. Copied(t) \in hits'[t]
          BY <2>3, <2>4, <3>1
        <4>2. CASE \E m \in DOMAIN heap[local[t]] : heap[local[t]][m] = call[t].elem
          BY <3>4, <4>2
        <4>3. CASE \A m \in DOMAIN heap[local[t]] : heap[local[t]][m] # call[t].elem
          <5>1. Copied(t) = FALSE
            BY <3>1, <4>3 DEF Copied
          <5>2. QED
            BY <4>1, <5>1
        <4>4. QED
          BY <4>2, <4>3
      <3>6. Underway(t)'
        BY <2>3, <3>1, <3>2, <3>4, <3>5 DEF Underway
      <3>7. QED
        BY <2>4, <3>1, <3>6 DEF Seen
    <2>9. CASE Look(t)
      <3>1. pc[t] = "scan" /\ ~Fetch(t) /\ local[t] # Null /\ ahead[t] \in Seq(Nat)
        BY <2>9 DEF Look, Fetch, Roles, AheadTyped
      <3>2. raw[t] # Null => Underway(t)
        BY <2>3, <3>1 DEF Seen
      <3>3. CASE pc'[t] = "absent"
        <4>1. raw[t] # Null /\ ahead[t] = << >>
          BY <2>9, <3>3 DEF Look, Leave
        <4>2. DOMAIN ahead[t] = {}
          BY <4>1
        <4>3. FALSE \in hits[t]
          BY <3>2, <4>1, <4>2 DEF Underway
        <4>4. FALSE \in hits'[t]
          BY <2>2, <4>3
        <4>5. QED
          BY <2>4, <3>1, <3>3, <4>4 DEF Seen
      <3>4. CASE pc'[t] = "found"
        <4>1. /\ raw[t] # Null /\ ahead[t] # << >>
              /\ heap[raw[t]][Head(ahead[t])] = call[t].elem
          BY <2>9, <3>4 DEF Look, Leave
        <4>2. 1 \in DOMAIN ahead[t] /\ Head(ahead[t]) = ahead[t][1]
          BY <3>1, <4>1
        <4>3. Copied(t) = TRUE
          BY <3>1, <3>2, <4>1, <4>2 DEF Underway, Copied
        <4>4. QED
          BY <2>3, <2>4, <3>1, <3>4, <4>3 DEF Seen
      <3>5. CASE pc'[t] = "scan"
        <4>1. /\ raw[t] # Null /\ ahead[t] # << >> /\ raw'[t] = raw[t]
              /\ heap[raw[t]][Head(ahead[t])] # call[t].elem
              /\ ahead'[t] = Tail(ahead[t])
          BY <2>9, <3>5 DEF Look, Leave, AheadTyped
        <4>2. /\ Head(ahead[t]) = ahead[t][1]
              /\ \A n \in DOMAIN ahead'[t] :
                   n + 1 \in DOMAIN ahead[t] /\ ahead'[t][n] = ahead[t][n + 1]
              /\ \A n \in DOMAIN ahead[t] :
                   n # 1 => n - 1 \in DOMAIN ahead'[t] /\ ahead'[t][n - 1] = ahead[t][n]
          <5>1. PICK s \in Seq(Nat) : s = ahead[t]
            BY <3>1
          <5>2. PICK r : r = ahead'[t]
            OBVIOUS
          <5>3. /\ s # << >> /\ r = Tail(s)
                /\ Len(s) \in Nat /\ DOMAIN s = 1 .. Len(s)
            BY <4>1, <5>1, <5>2
          <5>4. /\ r \in Seq(Nat) /\ Len(r) = Len(s) - 1
                /\ \A i \in 1 .. Len(r) : r[i] = s[i + 1]
            BY <5>3, HeadTailProperties
          <5>5. /\ \A n \in DOMAIN r : n + 1 \in DOMAIN s /\ r[n] = s[n + 1]
                /\ \A n \in DOMAIN s : n # 1 => n - 1 \in DOMAIN r /\ r[n - 1] = s[n]
            BY <5>3, <5>4
          <5>6. Head(s) = s[1]
            BY <5>3
          <5>7. QED
            BY <5>1, <5>2, <5>5, <5>6
        <4>3. Underway(t)'
          <5>1. /\ raw[t] = local[t]
                /\ \A n \in DOMAIN ahead'[t] : ahead'[t][n] \in DOMAIN heap[local[t]]
            BY <3>2, <4>1, <4>2 DEF Underway
          <5>2. CASE FALSE \in hits[t]
            BY <2>2, <2>3, <3>1, <4>1, <5>1, <5>2 DEF Underway
          <5>3. CASE \E n \in DOMAIN ahead[t] : heap[local[t]][ahead[t][n]] = call[t].elem
            <6>1. PICK n \in DOMAIN ahead[t] : heap[local[t]][ahead[t][n]] = call[t].elem
              BY <5>3
            <6>2. n # 1
              BY <4>1, <4>2, <5>1, <6>1
            <6>3. \E m \in DOMAIN ahead'[t] : heap[local[t]][ahead'[t][m]] = call[t].elem
              BY <4>2, <6>1, <6>2
            <6>4. QED
              BY <2>3, <3>1, <4>1, <5>1, <6>3 DEF Underway
          <5>4. QED
            BY <3>2, <4>1, <5>2, <5>3 DEF Underway
        <4>4. QED
          BY <2>4, <3>1, <3>5, <4>3 DEF Seen
      <3>6. pc'[t] \in {"absent", "found", "scan", "release", "fault"}
        BY <2>9, <3>1 DEF Look, Leave
      <3>7. QED
        BY <1>6, <3>3, <3>4, <3>5, <3>6
    <2>10. QED
      BY <2>1, <2>5, <2>6, <2>7, <2>8, <2>9
  <1>7. QED
    BY <1>5, <1>6 DEF Witnessed

LEMMA InductiveScanned == Spec => []Scanned
  <1>1. Init => Scanned
    <2>1. << >> \in Seq(Nat)
      OBVIOUS
    <2>2. QED
      BY <2>1 DEF Init, Scanned, Roles, Sequenced, AheadTyped, Looks
  <1>2. IInv /\ Scanned /\ [Next]_vars => Scanned'
    <2>1. ASSUME IInv, Scanned, Next PROVE Scanned'
      <3>1. PICK t \in Threads : Step(t)
        BY <2>1 DEF Next, Step
      <3>2. QED
        BY <2>1, <3>1, RolesStep, SequencedStep, AheadStep DEF Scanned
    <2>2. ASSUME Scanned, UNCHANGED vars PROVE Scanned'
      BY <2>2 DEF vars, Scanned, Roles, Sequenced, AheadTyped
    <2>3. QED
      BY <2>1, <2>2
  <1>3. QED
    BY <1>1, <1>2, Inductive, PTL DEF Spec

LEMMA InductiveSearch ==
  ASSUME OneVector
  PROVE  Spec => []SearchInv
  <1>1. Init => SearchInv
    BY DEF Init, SearchInv, Ample, Witnessed, Looks, Here
  <1>2. IInv /\ IInv' /\ OwnWrite /\ Scanned /\ SearchInv /\ [Next]_vars => SearchInv'
    <2>1. ASSUME IInv, IInv', OwnWrite, Scanned, SearchInv, Next PROVE SearchInv'
      <3>1. PICK t \in Threads : Step(t)
        BY <2>1 DEF Next, Step
      <3>2. QED
        BY <2>1, <3>1, AmpleStep, WitnessedStep DEF SearchInv, Scanned, Next
    <2>2. ASSUME SearchInv, UNCHANGED vars PROVE SearchInv'
      BY <2>2 DEF vars, SearchInv, Ample, Witnessed, Seen, Underway, Copied, Here,
                  Result, Value, Contents, Target
    <2>3. QED
      BY <2>1, <2>2
  <1>3. QED
    BY <1>1, <1>2, Inductive, InductiveWrite, InductiveScanned, PTL DEF Spec

(***************************************************************************)
(* Locks                                                                   *)
(***************************************************************************)

Holding == {"locked", "inplace", "copy", "publish"}

(* How many steps a thread is at most from giving its lock back.           *)
Distance(where) ==
  CASE where = "locked" -> 3 [] where = "copy" -> 2 [] where \in {"inplace", "publish"} -> 1
    [] OTHER -> 0

(* A lock is held by a thread in a call that changes its vector.           *)
LocksOwned ==
  \A v \in Vectors : lock[v] # Null =>
    /\ lock[v] \in Threads
    /\ pc[lock[v]] \in Holding /\ Target(lock[v]) = v

(* Who holds a lock is left where it is, or comes nearer to the release.   *)
Nearer ==
  \A v \in Vectors : lock[v] # Null =>
    LET t == lock[v]
    IN  \/ lock'[v] = t /\ pc'[t] = pc[t] /\ call'[t] = call[t]
        \/ /\ Distance(pc'[t]) < Distance(pc[t])
           /\ lock'[v] = IF pc'[t] \in Holding THEN t ELSE Null

(* What a step of t makes of the locks: it takes one, gives back the one   *)
(* of its call, or goes on.                                                *)
Takes(t) ==
  \E v \in Vectors : /\ pc[t] = "ready" /\ pc'[t] = "locked" /\ lock[v] = Null
                     /\ lock' = [lock EXCEPT ![v] = t] /\ call'[t].vec = v

GivesBack(t) ==
  pc[t] \in Holding /\ pc'[t] = "ready" /\ lock' = [lock EXCEPT ![Target(t)] = Null]

GoesOn(t) ==
  /\ lock' = lock
  /\ pc[t] \in Holding =>
       pc'[t] \in Holding /\ call'[t] = call[t] /\ Distance(pc'[t]) < Distance(pc[t])

LEMMA LockStep ==
  ASSUME Typed, Shape, NEW t \in Threads,
         \/ Enter(t) \/ Fetch(t) \/ Continue(t)
         \/ Keep(t) \/ CopyKept(t) \/ Drop(t)
  PROVE  Takes(t) \/ GivesBack(t) \/ GoesOn(t)
  <1> USE DEF Here, Go, Return, Unlock
  <1>1. CASE Enter(t)
    <2>1. PICK c \in Call : /\ lock[c.vec] = Null /\ lock' = [lock EXCEPT ![c.vec] = t]
                            /\ call' = [call EXCEPT ![t] = c]
      BY <1>1 DEF Enter
    <2>2. c.vec \in Vectors
      BY CallTypes
    <2>3. QED
      BY <1>1, <2>1, <2>2 DEF Typed, Enter, Takes
  <1>2. CASE Refuse(t) \/ Reset(t) \/ ChangeInPlace(t) \/ Publish(t)
    BY <1>2 DEF Typed, Refuse, Reset, ChangeInPlace, Publish, Doing, GivesBack, Holding
  <1>3. CASE Check(t) \/ Data(t)
    BY <1>3 DEF Typed, Check, Data, Doing, GoesOn, Holding, Distance
  <1>4. CASE CopyChanged(t)
    <2>1. /\ pc[t] = "copy"
          /\ \/ pc' = [pc EXCEPT ![t] = "ready"] /\ lock' = [lock EXCEPT ![Target(t)] = Null]
             \/ pc' = [pc EXCEPT ![t] = "publish"] /\ lock' = lock /\ call' = call
      BY <1>4 DEF CopyChanged
    <2>2. QED
      BY <2>1 DEF Typed, GivesBack, GoesOn, Holding, Distance
  <1>5. CASE \/ Fetch(t) \/ Store(t) \/ Test(t) \/ Probe(t) \/ Begin(t) \/ Look(t)
             \/ Release(t)
             \/ Keep(t) \/ CopyKept(t) \/ Drop(t)
    <2>1. lock' = lock /\ pc[t] \notin Holding
      BY <1>5 DEF Fetch, Store, Test, Probe, Begin, Look, Leave, Release, Keep, CopyKept,
                  Drop, Holding
    <2>2. QED
      BY <2>1 DEF GoesOn
  <1>6. QED
    BY <1>1, <1>2, <1>3, <1>4, <1>5 DEF Continue, Write, Copy

LEMMA OwnedStep ==
  ASSUME Typed, Shape, LocksOwned, NEW t \in Threads, Elsewhere(t),
         Takes(t) \/ GivesBack(t) \/ GoesOn(t)
  PROVE  LocksOwned' /\ Nearer
  <1>0. Null \notin Threads
    BY CowAssumption
  <1>1. ASSUME NEW v \in Vectors, lock[v] # Null, lock[v] # t
        PROVE  /\ lock'[v] = lock[v] /\ lock[v] \in Threads
               /\ pc'[lock[v]] = pc[lock[v]] /\ call'[lock[v]] = call[lock[v]]
    <2>1. lock[v] \in Threads \ {t}
      BY <1>1 DEF LocksOwned
    <2>2. QED
      BY <2>1 DEF Elsewhere
  <1>2. ASSUME NEW v \in Vectors, lock[v] = t
        PROVE  /\ pc[t] \in Holding /\ Target(t) = v /\ lock[v] # Null
    BY <1>0, <1>2 DEF LocksOwned
  <1>3. ASSUME NEW v \in Vectors, lock[v] = t
        PROVE  \/ /\ pc'[t] \in Holding /\ lock'[v] = t /\ call'[t] = call[t]
                  /\ Distance(pc'[t]) < Distance(pc[t])
               \/ /\ pc'[t] = "ready" /\ lock'[v] = Null /\ Distance(pc'[t]) < Distance(pc[t])
    <2>1. ~Takes(t)
      BY <1>2, <1>3 DEF Takes, Holding
    <2>2. CASE GivesBack(t)
      BY <1>2, <1>3, <2>2 DEF GivesBack, Typed, Holding, Distance
    <2>3. CASE GoesOn(t)
      BY <1>2, <1>3, <2>3 DEF GoesOn
    <2>4. QED
      BY <2>1, <2>2, <2>3
  <1>4. "ready" \notin Holding
    BY DEF Holding
  <1>5. Nearer
    BY <1>1, <1>3, <1>4 DEF Nearer
  <1>6. ASSUME NEW v \in Vectors, lock[v] = Null, lock'[v] # Null
        PROVE  lock'[v] = t /\ pc'[t] = "locked" /\ call'[t].vec = v
    BY <1>6 DEF Takes, GivesBack, GoesOn, Typed
  <1>7. ASSUME NEW v \in Vectors, lock'[v] # Null
        PROVE  /\ lock'[v] \in Threads /\ pc'[lock'[v]] \in Holding
               /\ call'[lock'[v]].vec = v
    <2>1. CASE lock[v] = Null
      BY <1>6, <1>7, <2>1 DEF Holding
    <2>2. CASE lock[v] = t
      BY <1>2, <1>3, <1>7, <2>2 DEF Target
    <2>3. CASE lock[v] # Null /\ lock[v] # t
      BY <1>1, <2>3 DEF LocksOwned, Target
    <2>4. QED
      BY <2>1, <2>2, <2>3
  <1>8. LocksOwned'
    BY <1>7 DEF LocksOwned, Target
  <1>9. QED
    BY <1>5, <1>8

(***************************************************************************)
(* The theorems                                                            *)
(***************************************************************************)

(* COW.cpp, the copies of shared_ptr and make_shared: for any threads and  *)
(* calls, exactly the storages somebody refers to are allocated; none is   *)
(* freed early, none is leaked.                                            *)
THEOREM TypeCorrect == Spec => []TypeOK
  <1>1. IInv /\ Scanned => TypeOK
    BY TypeParts DEF IInv, Scanned
  <1>2. QED
    BY Inductive, InductiveScanned, <1>1, PTL

(* COW.cpp:55, 80, 102, 129: unless data() is used, nobody else holds the  *)
(* storage a thread is about to change in place, although use_count() was  *)
(* read a step before and references come and go without the lock.         *)
THEOREM WritesUnshared ==
  ASSUME NoData
  PROVE  Spec => []NoSharedWrite
  <1>1. NoDataCall /\ NoSharedWrite => NoSharedWrite
    OBVIOUS
  <1>2. QED
    BY InductiveNoData, <1>1, PTL

(* COW.cpp:411: whatever the threads call, only a write through the   *)
(* pointer that data() returned changes the elements that a read-only copy *)
(* or an iterator shows.                                                   *)
THEOREM OnlyDataThawsCopies == Spec => OnlyDataThaws
  <1> DEFINE Frozen == \A t \in Threads : kept'[t] = kept[t] =>
                         Contents(kept[t])' = Contents(kept[t])
             ByData == \E t \in Threads : Here(t, "inplace") /\ call[t].do = "data"
  <1>1. IInv /\ OwnWrite /\ [Next]_vars => [Frozen \/ ByData]_vars
    BY FrozenStep
  <1>2. QED
    BY <1>1, Inductive, InductiveWrite, PTL DEF Spec, OnlyDataThaws

(* COW.cpp, the early returns and ends of the calls that take the lock: no *)
(* lock is leaked.  A held lock belongs to a thread in a call that changes *)
(* its vector, and every step of that thread, of which there are at most   *)
(* three, brings it nearer to giving the lock back; no step of another     *)
(* thread takes it farther.  What LockReleased adds is that it goes on.    *)
THEOREM HoldersFinish == Spec => []LocksOwned /\ [][Nearer]_vars
  <1>1. Init => LocksOwned
    BY DEF Init, LocksOwned
  <1>2. IInv /\ LocksOwned /\ [Next]_vars => LocksOwned' /\ [Nearer]_vars
    <2>1. ASSUME IInv, LocksOwned, Next PROVE LocksOwned' /\ Nearer
      <3>1. PICK t \in Threads : \/ Enter(t) \/ Fetch(t) \/ Continue(t)
                                 \/ Keep(t) \/ CopyKept(t) \/ Drop(t)
        BY <2>1 DEF Next
      <3>2. Elsewhere(t) /\ (Takes(t) \/ GivesBack(t) \/ GoesOn(t))
        BY <2>1, <3>1, ShapeStep, LockStep DEF IInv
      <3>3. QED
        BY <2>1, <3>2, OwnedStep DEF IInv
    <2>2. ASSUME LocksOwned, UNCHANGED vars PROVE LocksOwned'
      BY <2>2 DEF vars, LocksOwned, Target
    <2>3. QED
      BY <2>1, <2>2
  <1>3. QED
    BY <1>1, <1>2, Inductive, PTL DEF Spec

(* COW.cpp:411: unless data() is used, a read-only copy and an iterator    *)
(* never see their elements change.                                        *)
THEOREM CopiesFrozen ==
  ASSUME NoData
  PROVE  Spec => SnapshotsFrozen
  <1> DEFINE Frozen == \A t \in Threads : kept'[t] = kept[t] =>
                         Contents(kept[t])' = Contents(kept[t])
  <1>1. IInv /\ NoDataCall /\ OwnWrite /\ [Next]_vars => [Frozen]_vars
    BY FrozenStep DEF NoDataCall
  <1>2. QED
    BY <1>1, Inductive, InductiveWrite, InductiveNoData, PTL DEF Spec, SnapshotsFrozen

(* COW.cpp:195 to 238: a search looks at the elements of its copy one after*)
(* the other, without the lock.  Where it gets past its look at _storage   *)
(* and no data() invalidates its iterators, it answers what was true at    *)
(* some moment between its call and its return, whatever other threads do  *)
(* to the vector between two of these looks, data() on the copy itself     *)
(* included.  Where there are two vectors the storage that the first look  *)
(* is at may have been freed and come back as the other's.                 *)
THEOREM SearchesRight ==
  ASSUME OneVector
  PROVE  Spec => []SearchRight
  <1>1. SearchInv => SearchRight
    BY DEF SearchInv, Witnessed, Seen, SearchRight, Here, Looks
  <1>2. QED
    BY InductiveSearch, <1>1, PTL

(***************************************************************************)
(* Without data(), the copy-on-write vector implements SharedVectors: for  *)
(* any threads, vectors and calls, vectors that share a storage behave as  *)
(* if each had a value of its own, and each call takes effect in one step. *)
(***************************************************************************)

AnyCall(t) == \/ Enter(t) \/ Fetch(t) \/ Continue(t)
              \/ Keep(t) \/ CopyKept(t) \/ Drop(t)

(* A changed copy that waits to be published is still the change of what   *)
(* the vector holds: the lock keeps others from changing it meanwhile.     *)
Prepared ==
  \A t \in Threads :
    pc[t] = "publish" =>
      /\ local[t] \in DOMAIN heap
      /\ heap[local[t]] = Result(call[t], Value(Target(t)))
      /\ call[t].do \in Writers

(* What a thread's assignment in progress has read.                        *)
Fetched(t) == IF Here(t, "store") THEN Contents(local[t]) ELSE << >>

Safe == IInv /\ NoDataCall /\ NoSharedWrite

(***************************************************************************)
(* The abstract changes are those of the vector's functions                *)
(***************************************************************************)

LEMMA SameRemovals ==
  ASSUME NEW s, NEW e
  PROVE  /\ Shared!Others(s, e) = Others(s, e)
         /\ Shared!Reverse(s) = Reverse(s)
         /\ Shared!RemoveFirst(s, e) = RemoveFirst(s, e)
  <1>1. Shared!Others(s, e) = Others(s, e)
    BY DEF Shared!Others, Others
  <1>2. Shared!Reverse(s) = Reverse(s)
    BY DEF Shared!Reverse, Reverse
  <1>3. Shared!RemoveFirst(s, e) = RemoveFirst(s, e)
    BY DEF Shared!RemoveFirst, RemoveFirst, Shared!RemoveAt, RemoveAt,
           Shared!SelectInSeq, SelectInSeq, Shared!Min, Min
  <1>4. QED
    BY <1>1, <1>2, <1>3

LEMMA SameReversedRemoval ==
  ASSUME NEW s, NEW e
  PROVE  Shared!Reverse(Shared!RemoveFirst(Shared!Reverse(s), e))
           = Reverse(RemoveFirst(Reverse(s), e))
  BY SameRemovals

LEMMA ResultIsChange ==
  ASSUME NEW c \in Call, c.do \in Writers, NEW elems
  PROVE  Result(c, elems) \in Shared!Changes(elems)
  <1>1. c.elem \in Elements
    BY DEF Call, Writers, Pushes, Removals
  <1> DEFINE e == c.elem
  <1>2. \A x \in {<<e>> \o elems, Append(elems, e), Shared!Others(elems, e),
                  Shared!RemoveFirst(elems, e),
                  Shared!Reverse(Shared!RemoveFirst(Shared!Reverse(elems), e))} :
          x \in Shared!Changes(elems)
    BY <1>1 DEF Shared!Changes
  <1>3. CASE c.do = "push_front"
    BY <1>2, <1>3 DEF Result
  <1>4. CASE c.do \in {"push_back", "data"}
    BY <1>2, <1>4 DEF Result
  <1>5. CASE c.do = "remove"
    BY <1>2, <1>5, SameRemovals DEF Result
  <1>6. CASE c.do = "removeFirst"
    BY <1>2, <1>6, SameRemovals DEF Result
  <1>7. CASE c.do = "removeLast"
    BY <1>2, <1>7, SameReversedRemoval DEF Result
  <1>8. QED
    BY <1>3, <1>4, <1>5, <1>6, <1>7 DEF Writers, Pushes, Removals

LEMMA NothingIsChange == \A elems : << >> \in Shared!Changes(elems)
  BY DEF Shared!Changes

(***************************************************************************)
(* What a step leaves as it was                                            *)
(***************************************************************************)

(* A storage that stays referred to keeps its elements, unless it is       *)
(* changed in place.                                                       *)
LEMMA ContentsStay ==
  ASSUME IInv,
         \/ heap' = heap
         \/ heap' = Alive(heap)
         \/ \E s \in Storages \ DOMAIN heap : \E elems : heap' = Allocated(s, elems),
         NEW r, r = Null \/ (r \in Storages /\ Refers(r) /\ Refers(r)')
  PROVE  IF r = Null THEN Contents(r)' = << >> /\ Contents(r) = << >>
         ELSE r \in DOMAIN heap /\ r \in DOMAIN heap' /\ heap'[r] = heap[r]
  <1>1. CASE r = Null
    BY <1>1 DEF Contents
  <1>2. CASE r # Null
    <2>1. r \in DOMAIN heap /\ Holders(r)' # {}
      BY <1>2, HoldersRefer DEF IInv, Exact, Referenced
    <2>2. QED
      BY <1>2, <2>1 DEF Alive, Allocated
  <1>3. QED
    BY <1>1, <1>2
LEMMA HeapForms ==
  ASSUME NoDataCall, NEW t \in Threads, AnyCall(t)
  PROVE  \/ heap' = heap
         \/ heap' = Alive(heap)
         \/ \E s \in Storages \ DOMAIN heap : \E elems : heap' = Allocated(s, elems)
         \/ ChangeInPlace(t)
  <1>1. CASE CopyChanged(t)
    BY <1>1 DEF CopyChanged
  <1>2. CASE Data(t)
    BY <1>2 DEF Data, Doing, NoDataCall
  <1>3. QED
    BY <1>1, <1>2
    DEF AnyCall, Enter, Fetch, Continue, Write, Copy, Refuse, Reset, Check, Publish,
        Store, Release, Test, Probe, Begin, Look, Leave, Keep, CopyKept, Drop

LEMMA ChangeIsSole ==
  ASSUME Safe, NEW t \in Threads, ChangeInPlace(t)
  PROVE  /\ Target(t) \in Vectors /\ Sole(Target(t))
         /\ storage[Target(t)] \in DOMAIN heap
  <1>1. Target(t) \in Vectors /\ Sole(Target(t))
    BY CallTypes, UnsharedSole
    DEF ChangeInPlace, Here, Safe, IInv, Shape, NoSharedWrite, Target
  <1>2. storage[Target(t)] \in DOMAIN heap
    BY <1>1, HoldersRefer DEF Sole, Safe, IInv, Typed, Exact, Referenced, Refers
  <1>3. QED
    BY <1>1, <1>2

LEMMA Undisturbed ==
  ASSUME NoData, Safe, NEW t \in Threads, AnyCall(t),
         NEW r, r = Null \/ (r \in Storages /\ Refers(r) /\ Refers(r)'),
         ChangeInPlace(t) => r # storage[Target(t)]
  PROVE  IF r = Null THEN Contents(r)' = << >> /\ Contents(r) = << >>
         ELSE r \in DOMAIN heap /\ r \in DOMAIN heap' /\ heap'[r] = heap[r]
  <1>1. CASE ChangeInPlace(t)
    <2>1. CASE r = Null
      BY <2>1 DEF Contents
    <2>2. CASE r # Null
      <3>1. r \in DOMAIN heap
        BY <2>2, HoldersRefer DEF Safe, IInv, Exact, Referenced
      <3>2. QED
        BY <1>1, <2>2, <3>1 DEF ChangeInPlace
    <2>3. QED
      BY <2>1, <2>2
  <1>2. CASE ~ChangeInPlace(t)
    BY <1>2, HeapForms, ContentsStay DEF Safe
  <1>3. QED
    BY <1>1, <1>2

(* The value of a vector whose storage stays, and which is not changed in  *)
(* place, stays.                                                           *)
LEMMA ValueStays ==
  ASSUME NoData, Safe, NEW t \in Threads, AnyCall(t),
         NEW v \in Vectors, storage'[v] = storage[v],
         ChangeInPlace(t) => v # Target(t)
  PROVE  Value(v)' = Value(v)
  <1> DEFINE r == storage[v]
  <1>1. r = Null \/ (r \in Storages /\ Refers(r) /\ Refers(r)')
    BY DEF Safe, IInv, Typed, Refers
  <1>2. ChangeInPlace(t) => r # storage[Target(t)]
    BY ChangeIsSole DEF Sole
  <1>3. IF r = Null THEN Contents(r)' = << >> /\ Contents(r) = << >>
        ELSE heap'[r] = heap[r]
    BY <1>1, <1>2, Undisturbed
  <1>4. QED
    BY <1>3 DEF Value, Contents

LEMMA LocalStays ==
  ASSUME NoData, Safe, NEW t \in Threads, AnyCall(t),
         NEW u \in Threads, local'[u] = local[u]
  PROVE  /\ Contents(local[u])' = Contents(local[u])
         /\ local[u] # Null => /\ local[u] \in DOMAIN heap /\ local[u] \in DOMAIN heap'
                               /\ heap'[local[u]] = heap[local[u]]
  <1> DEFINE r == local[u]
  <1>1. r = Null \/ (r \in Storages /\ Refers(r) /\ Refers(r)')
    BY DEF Safe, IInv, Typed, Refers
  <1>2. ChangeInPlace(t) => r # storage[Target(t)]
    BY ChangeIsSole DEF Sole
  <1>3. IF r = Null THEN Contents(r)' = << >> /\ Contents(r) = << >>
        ELSE r \in DOMAIN heap /\ r \in DOMAIN heap' /\ heap'[r] = heap[r]
    BY <1>1, <1>2, Undisturbed
  <1>4. QED
    BY <1>3 DEF Contents

LEMMA KeptStays ==
  ASSUME NoData, Safe, NEW t \in Threads, AnyCall(t),
         NEW u \in Threads, kept'[u] = kept[u]
  PROVE  Contents(kept[u])' = Contents(kept[u])
  <1> DEFINE r == kept[u]
  <1>1. r = Null \/ (r \in Storages /\ Refers(r) /\ Refers(r)')
    BY DEF Safe, IInv, Typed, Refers
  <1>2. ChangeInPlace(t) => r # storage[Target(t)]
    BY ChangeIsSole DEF Sole
  <1>3. IF r = Null THEN Contents(r)' = << >> /\ Contents(r) = << >>
        ELSE r \in DOMAIN heap /\ r \in DOMAIN heap' /\ heap'[r] = heap[r]
    BY <1>1, <1>2, Undisturbed
  <1>4. QED
    BY <1>3 DEF Contents

(* The lock of a vector keeps other threads from changing it.              *)
LEMMA LockedStays ==
  ASSUME Safe, NEW t \in Threads, AnyCall(t),
         NEW v \in Vectors, lock[v] \in Threads \ {t}
  PROVE  storage'[v] = storage[v] /\ (ChangeInPlace(t) => v # Target(t))
  <1> USE DEF Here
  <1>1. Null \notin Threads
    BY CowAssumption
  <1>2. pc[t] \in {"locked", "inplace", "copy", "publish"} => Target(t) # v
    BY DEF Safe, IInv, Shape
  <1>3. CASE Reset(t) \/ Publish(t) \/ ChangeInPlace(t)
    BY <1>2, <1>3 DEF Reset, Publish, ChangeInPlace, Doing, Safe, IInv, Typed
  <1>4. CASE CopyChanged(t) \/ Data(t)
    BY <1>2, <1>4 DEF CopyChanged, Data, Doing, Safe, IInv, Typed, ChangeInPlace
  <1>5. CASE Store(t)
    BY <1>1, <1>5 DEF Store, ChangeInPlace, Safe, IInv, Typed
  <1>6. QED
    BY <1>2, <1>3, <1>4, <1>5
    DEF AnyCall, Enter, Fetch, Continue, Write, Copy, Refuse, Check, Release, Test,
        Probe, Begin, Look, Leave, Keep, CopyKept, Drop, ChangeInPlace

(***************************************************************************)
(* Copies waiting to be published                                          *)
(***************************************************************************)

(* A thread that changes a vector is in a call that changes vectors.       *)
Writing ==
  \A t \in Threads : pc[t] \in {"inplace", "copy"} => call[t].do \in Writers

LEMMA PreparedStep ==
  ASSUME NoData, Safe, Prepared, Writing, NEW t \in Threads, AnyCall(t)
  PROVE  Prepared' /\ Writing'
  <1> USE DEF Here, Go, Return
  <1>1. Elsewhere(t)
    BY ShapeStep DEF AnyCall, Safe, IInv
  <1>2. ASSUME NEW u \in Threads \ {t}, pc'[u] = "publish"
        PROVE  /\ local'[u] \in DOMAIN heap'
               /\ heap'[local'[u]] = Result(call'[u], Value(Target(u))')
               /\ call'[u].do \in Writers
    <2>1. pc[u] = "publish" /\ call'[u] = call[u] /\ local'[u] = local[u]
      BY <1>1, <1>2 DEF Elsewhere
    <2>2. Target(u) \in Vectors /\ lock[Target(u)] = u
      BY <2>1, CallTypes DEF Safe, IInv, Shape, Target
    <2>3. PICK w \in Vectors : w = Target(u)
      BY <2>2
    <2>4. Value(w)' = Value(w)
      BY <2>2, <2>3, LockedStays, ValueStays
    <2>5. Value(Target(u))' = Value(Target(u))
      <3>1. w = Target(u)'
        BY <2>1, <2>3 DEF Target
      <3>2. QED
        BY <2>3, <2>4, <3>1 DEF Value
    <2>6. local[u] \in DOMAIN heap /\ local[u] # Null
      BY <2>1, CowAssumption DEF Prepared, Safe, IInv, Exact, Referenced
    <2>7. local[u] \in DOMAIN heap' /\ heap'[local[u]] = heap[local[u]]
      BY <2>1, <2>6, LocalStays
    <2>8. QED
      BY <2>1, <2>5, <2>6, <2>7 DEF Prepared
  <1>3. ASSUME pc'[t] = "publish"
        PROVE  /\ local'[t] \in DOMAIN heap'
               /\ heap'[local'[t]] = Result(call'[t], Value(Target(t))')
               /\ call'[t].do \in Writers
    <2>1. CopyChanged(t)
      BY <1>3
      DEF AnyCall, Enter, Fetch, Continue, Write, Copy, Refuse, Reset, Check,
          ChangeInPlace, Publish, Data, Store, Release, Test, Probe, Begin, Look, Leave,
          Keep, CopyKept,
          Drop, Doing, Safe, IInv, Typed
    <2>2. PICK s \in Storages \ DOMAIN heap :
            /\ heap' = Allocated(s, Result(call[t], Value(Target(t))))
            /\ local' = [local EXCEPT ![t] = s] /\ UNCHANGED <<storage, call>>
            /\ pc[t] = "copy"
      BY <1>3, <2>1 DEF CopyChanged, Safe, IInv, Typed
    <2>3. Target(t) \in Vectors /\ ~ChangeInPlace(t)
      BY <2>2, CallTypes DEF Safe, IInv, Shape, Target, ChangeInPlace
    <2>4. \A v \in Vectors : Value(v)' = Value(v)
      BY <2>2, <2>3, ValueStays
    <2>5. Value(Target(t))' = Value(Target(t))
      <3>1. PICK w \in Vectors : w = Target(t)
        BY <2>3
      <3>2. w = Target(t)'
        BY <2>2, <3>1 DEF Target
      <3>3. QED
        BY <2>4, <3>1, <3>2 DEF Value
    <2>6. local'[t] = s /\ s \in DOMAIN heap'
          /\ heap'[s] = Result(call[t], Value(Target(t)))
      BY <2>2 DEF Allocated, Safe, IInv, Typed
    <2>7. QED
      BY <2>2, <2>5, <2>6 DEF Writing
  <1>4. ASSUME NEW u \in Threads, pc'[u] \in {"inplace", "copy"}
        PROVE  call'[u].do \in Writers
    <2>1. CASE u # t
      BY <1>1, <1>4, <2>1 DEF Elsewhere, Writing
    <2>2. CASE u = t
      <3>1. Check(t) \/ Data(t)
        BY <1>4, <2>2
        DEF AnyCall, Enter, Fetch, Continue, Write, Copy, Refuse, Reset, Check,
            ChangeInPlace, CopyChanged, Publish, Data, Store, Release, Test, Probe,
            Begin, Look, Leave,
            Keep, CopyKept, Drop, Doing, Safe, IInv, Typed
      <3>2. QED
        BY <2>2, <3>1 DEF Check, Data, Doing, Writers
    <2>3. QED
      BY <2>1, <2>2
  <1>5. QED
    BY <1>2, <1>3, <1>4 DEF Prepared, Writing
(***************************************************************************)
(* Every step maps to a step of SharedVectors or to none                   *)
(***************************************************************************)

Values == [v \in Vectors |-> Value(v)]
Fetches == [t \in Threads |-> Fetched(t)]
Copies == [t \in Threads |-> Contents(kept[t])]

LEMMA SharedVars ==
  UNCHANGED <<Values, Fetches, Copies>> => UNCHANGED Shared!vars
  BY DEF Shared!vars, Values, Fetches, Copies, Fetched

LEMMA StepMaps ==
  ASSUME NoData, Safe, Prepared, Writing, NEW t \in Threads, AnyCall(t)
  PROVE  Shared!Next \/ UNCHANGED <<Values, Fetches, Copies>>
  <1> USE DEF Here, Go, Return
  <1>1. /\ \A u \in Threads : Fetched(u)' = Fetched(u)
        => Fetches' = Fetches
    BY DEF Fetches
  <1>2. ASSUME NEW u \in Threads, u # t PROVE Fetched(u)' = Fetched(u)
    <2>1. pc'[u] = pc[u] /\ local'[u] = local[u]
      BY <1>2, ShapeStep DEF AnyCall, Safe, IInv, Elsewhere
    <2>2. Contents(local[u])' = Contents(local[u])
      BY <2>1, LocalStays
    <2>3. QED
      BY <2>1, <2>2 DEF Fetched
  <1>3. pc'[t] # "store" /\ pc[t] # "store" => Fetched(t)' = Fetched(t)
    BY DEF Fetched
  <1>4. pc'[t] # "store" /\ pc[t] # "store" => Fetches' = Fetches
    BY <1>1, <1>2, <1>3
  <1>5. kept' = kept => Copies' = Copies
    BY KeptStays DEF Copies
  <1>6. storage' = storage /\ ~ChangeInPlace(t) => Values' = Values
    BY ValueStays DEF Values
  <1>7. ASSUME NEW v \in Vectors, NEW new \in Shared!Changes(Value(v)),
               Value(v)' = new, kept' = kept,
               \A w \in Vectors : w # v => Value(w)' = Value(w),
               pc'[t] # "store" /\ pc[t] # "store"
        PROVE  Shared!Next
    <2>1. Values' = [Values EXCEPT ![v] = new]
      BY <1>7 DEF Values
    <2>2. Values[v] = Value(v)
      BY DEF Values
    <2>3. Shared!Change(v)
      BY <1>4, <1>5, <1>7, <2>1, <2>2
      DEF Shared!Change, Values, Fetches, Copies, Fetched
    <2>4. QED
      BY <2>3 DEF Shared!Next
  <1>8. pc[t] \in {"locked", "inplace", "copy", "publish", "store"} =>
          Target(t) \in Vectors
    BY CallTypes DEF Safe, IInv, Shape, Target
  <1>9. (\A v \in Vectors : v # Target(t) => storage'[v] = storage[v])
          => \A v \in Vectors : v # Target(t) => Value(v)' = Value(v)
    BY ValueStays
  <1>10. CASE Enter(t) \/ Refuse(t) \/ Check(t) \/ Test(t) \/ Probe(t) \/ Begin(t)
              \/ Look(t) \/ Release(t)
    <2>1. /\ storage' = storage /\ kept' = kept /\ ~ChangeInPlace(t)
          /\ pc'[t] # "store" /\ pc[t] # "store"
      BY <1>10
      DEF Enter, Refuse, Check, Test, Probe, Begin, Look, Leave, Release, Doing,
          ChangeInPlace, Safe, IInv,
          Typed
    <2>2. QED
      BY <1>4, <1>5, <1>6, <2>1
  <1>11. CASE Reset(t)
    <2>1. PICK v \in Vectors : v = Target(t)
      BY <1>8, <1>11 DEF Reset, Doing
    <2>2. /\ storage' = [storage EXCEPT ![v] = Null] /\ kept' = kept
          /\ pc'[t] # "store" /\ pc[t] # "store"
      BY <1>11, <2>1 DEF Reset, Doing, Safe, IInv, Typed
    <2>3. Value(v)' = << >>
      BY <2>2 DEF Value, Contents, Safe, IInv, Typed
    <2>4. \A w \in Vectors : w # v => Value(w)' = Value(w)
      BY <1>9, <2>1, <2>2
    <2>5. QED
      BY <1>7, <2>2, <2>3, <2>4, NothingIsChange
  <1>12. CASE ChangeInPlace(t)
    <2>1. PICK v \in Vectors : v = Target(t)
      BY <1>8, <1>12 DEF ChangeInPlace
    <2>2. /\ heap' = [heap EXCEPT ![storage[v]] = Result(call[t], @)]
          /\ storage' = storage /\ kept' = kept
          /\ pc'[t] # "store" /\ pc[t] # "store" /\ pc[t] = "inplace"
      BY <1>12, <2>1 DEF ChangeInPlace, Safe, IInv, Typed
    <2>3. storage[v] \in DOMAIN heap /\ storage[v] # Null
      BY <1>12, <2>1, ChangeIsSole DEF Sole
    <2>4. Value(v)' = Result(call[t], Value(v))
      BY <2>2, <2>3 DEF Value, Contents
    <2>5. \A w \in Vectors : w # v => Value(w)' = Value(w)
      BY <1>9, <2>1, <2>2
    <2>6. Result(call[t], Value(v)) \in Shared!Changes(Value(v))
      BY <2>2, ResultIsChange DEF Writing, Safe, IInv, Shape
    <2>7. QED
      BY <1>7, <2>2, <2>4, <2>5, <2>6
  <1>13. CASE CopyChanged(t)
    <2>1. PICK v \in Vectors : v = Target(t)
      BY <1>8, <1>13 DEF CopyChanged
    <2>2. pc'[t] # "store" /\ pc[t] # "store" /\ kept' = kept /\ ~ChangeInPlace(t)
      BY <1>13 DEF CopyChanged, ChangeInPlace, Safe, IInv, Typed
    <2>3. CASE storage' = storage
      BY <1>4, <1>5, <1>6, <2>2, <2>3
    <2>4. CASE storage' = [storage EXCEPT ![v] = Null]
      <3>1. Value(v)' = << >>
        BY <2>4 DEF Value, Contents, Safe, IInv, Typed
      <3>2. \A w \in Vectors : w # v => Value(w)' = Value(w)
        BY <1>9, <2>1, <2>4
      <3>3. QED
        BY <1>7, <2>2, <3>1, <3>2, NothingIsChange
    <2>5. QED
      BY <1>13, <2>1, <2>3, <2>4 DEF CopyChanged
  <1>14. CASE Publish(t)
    <2>1. PICK v \in Vectors : v = Target(t)
      BY <1>8, <1>14 DEF Publish
    <2>2. /\ storage' = [storage EXCEPT ![v] = local[t]] /\ kept' = kept
          /\ pc'[t] # "store" /\ pc[t] # "store" /\ pc[t] = "publish"
          /\ ~ChangeInPlace(t)
      BY <1>14, <2>1 DEF Publish, ChangeInPlace, Safe, IInv, Typed
    <2>3. PICK r \in Storages : r = local[t]
      BY <2>2 DEF Prepared, Safe, IInv, Exact, Referenced
    <2>4. r # Null /\ storage'[v] = r
      BY <2>2, <2>3, CowAssumption DEF Safe, IInv, Typed
    <2>5. Refers(r) /\ Refers(r)'
      BY <2>3, <2>4 DEF Refers
    <2>6. heap'[r] = heap[r]
      BY <2>2, <2>4, <2>5, Undisturbed
    <2>7. Value(v)' = Result(call[t], Value(v))
      BY <2>1, <2>2, <2>3, <2>4, <2>6 DEF Prepared, Value, Contents
    <2>8. \A w \in Vectors : w # v => Value(w)' = Value(w)
      BY <1>9, <2>1, <2>2
    <2>9. Result(call[t], Value(v)) \in Shared!Changes(Value(v))
      BY <2>2, ResultIsChange DEF Prepared, Safe, IInv, Shape
    <2>10. QED
      BY <1>7, <2>2, <2>7, <2>8, <2>9
  <1>15. CASE Data(t)
    BY <1>15 DEF Data, Doing, Safe, NoDataCall
  <1>16. CASE Store(t)
    <2>1. PICK v \in Vectors : v = Target(t)
      BY <1>8, <1>16 DEF Store
    <2>2. /\ storage' = [storage EXCEPT ![v] = local[t]] /\ kept' = kept
          /\ local' = local /\ pc[t] = "store" /\ pc'[t] = "release"
      BY <1>16, <2>1 DEF Store, Safe, IInv, Typed
    <2>3. Value(v)' = Fetched(t)
      <3>1. storage'[v] = local[t]
        BY <2>2 DEF Safe, IInv, Typed
      <3>2. Contents(local[t])' = Contents(local[t])
        BY <2>2, LocalStays
      <3>3. QED
        BY <2>2, <3>1, <3>2 DEF Value, Fetched, Contents
    <2>4. \A w \in Vectors : w # v => Value(w)' = Value(w)
      BY <1>9, <2>1, <2>2
    <2>5. Values' = [Values EXCEPT ![v] = Fetched(t)]
      BY <2>3, <2>4 DEF Values
    <2>6. Fetched(t)' = << >>
      BY <2>2 DEF Fetched
    <2>7. Fetches' = [Fetches EXCEPT ![t] = << >>]
      BY <1>2, <2>6 DEF Fetches
    <2>8. Fetches[t] = Fetched(t) /\ Copies' = Copies
      BY <1>5, <2>2 DEF Fetches
    <2>9. Shared!Assign(t)
      BY <2>5, <2>7, <2>8 DEF Shared!Assign, Values, Fetches, Copies, Fetched
    <2>10. QED
      BY <2>9 DEF Shared!Next
  <1>17. CASE Fetch(t)
    <2>1. PICK c \in Call :
            /\ c.do \in Calls \cap {"assign", "search"}
            /\ local' = [local EXCEPT ![t] = storage[Source(c)]]
            /\ pc' = [pc EXCEPT ![t] = IF c.do = "assign" THEN "store" ELSE "test"]
      BY <1>17 DEF Fetch
    <2>2. /\ UNCHANGED <<heap, storage, kept>> /\ ~ChangeInPlace(t) /\ pc[t] = "ready"
          /\ Source(c) \in Vectors
      BY <1>17, <2>1, CallTypes DEF Fetch, ChangeInPlace
    <2>3. Values' = Values /\ Copies' = Copies
      BY <1>5, <1>6, <2>2
    <2>4. CASE c.do = "search"
      BY <1>4, <2>1, <2>2, <2>3, <2>4 DEF Safe, IInv, Typed
    <2>5. CASE c.do = "assign"
      <3>1. pc'[t] = "store" /\ local'[t] = storage[Source(c)]
        BY <2>1, <2>5 DEF Safe, IInv, Typed
      <3>2. Fetched(t)' = Value(Source(c))
        BY <2>2, <3>1 DEF Fetched, Value, Contents
      <3>3. Fetches' = [Fetches EXCEPT ![t] = Values[Source(c)]]
        BY <1>2, <2>2, <3>2 DEF Fetches, Values
      <3>4. Shared!Fetch(t)
        BY <2>2, <2>3, <3>3 DEF Shared!Fetch, Values, Fetches, Copies, Fetched
      <3>5. QED
        BY <3>4 DEF Shared!Next
    <2>6. QED
      BY <2>1, <2>4, <2>5
  <1>18. CASE Keep(t) \/ CopyKept(t) \/ Drop(t)
    <2>1. /\ storage' = storage /\ ~ChangeInPlace(t)
          /\ pc'[t] # "store" /\ pc[t] # "store"
      BY <1>18 DEF Keep, CopyKept, Drop, ChangeInPlace
    <2>2. Values' = Values /\ Fetches' = Fetches
      BY <1>4, <1>6, <2>1
    <2>3. ASSUME NEW new \in {<< >>} \cup {Values[v] : v \in Vectors}
                               \cup {Copies[u] : u \in Threads},
                 Contents(kept[t])' = new,
                 \A u \in Threads : u # t => kept'[u] = kept[u]
          PROVE  Shared!Next
      <3>1. Copies' = [Copies EXCEPT ![t] = new]
        BY <2>3, KeptStays DEF Copies
      <3>2. Shared!Keep(t)
        BY <2>2, <3>1 DEF Shared!Keep, Values, Fetches, Copies, Fetched
      <3>3. QED
        BY <3>2 DEF Shared!Next
    <2>4. CASE Keep(t)
      <3>1. PICK v \in Vectors : kept' = [kept EXCEPT ![t] = storage[v]]
        BY <2>4 DEF Keep
      <3>2. Contents(kept[t])' = Value(v)'
        BY <2>1, <3>1 DEF Contents, Value, Safe, IInv, Typed
      <3>3. Contents(kept[t])' = Values[v]
        BY <2>1, <3>2, ValueStays DEF Values
      <3>4. QED
        BY <2>3, <3>1, <3>3 DEF Safe, IInv, Typed
    <2>5. CASE CopyKept(t)
      <3>1. PICK u \in Threads : kept' = [kept EXCEPT ![t] = kept[u]]
        BY <2>5 DEF CopyKept
      <3>2. kept'[u] = kept[u] /\ kept'[t] = kept[u]
        BY <3>1 DEF Safe, IInv, Typed
      <3>3. Contents(kept[t])' = Copies[u]
        BY <3>2, KeptStays DEF Copies, Contents
      <3>4. QED
        BY <2>3, <3>1, <3>3 DEF Safe, IInv, Typed
    <2>6. CASE Drop(t)
      BY <2>3, <2>6 DEF Drop, Contents, Safe, IInv, Typed
    <2>7. QED
      BY <1>18, <2>4, <2>5, <2>6
  <1>19. QED
    BY <1>10, <1>11, <1>12, <1>13, <1>14, <1>15, <1>16, <1>17, <1>18
    DEF AnyCall, Continue, Write, Copy

LEMMA InitMaps == Init => Shared!Init
  BY DEF Init, Shared!Init, Value, Contents, Here

(* COW.cpp, class vector: unless data() is used, the vectors behave as if  *)
(* each had elements of its own, changed by one call at a time, and a      *)
(* read-only copy or an iterator shows the elements it was taken of.       *)
THEOREM Isolation ==
  ASSUME NoData
  PROVE  Spec => Isolated
  <1> DEFINE Inv == Safe /\ Prepared /\ Writing
  <1>1. Init => Prepared /\ Writing
    BY DEF Init, Prepared, Writing
  <1>2. Safe /\ Prepared /\ Writing /\ [Next]_vars => (Prepared /\ Writing)'
    <2>1. Safe /\ Prepared /\ Writing /\ Next => (Prepared /\ Writing)'
      BY PreparedStep DEF Next, AnyCall
    <2>2. Prepared /\ Writing /\ UNCHANGED vars => (Prepared /\ Writing)'
      BY DEF Prepared, Writing, vars, Value, Contents, Target
    <2>3. QED
      BY <2>1, <2>2
  <1>3. Inv /\ [Next]_vars => [Shared!Next]_(Shared!vars)
    <2>1. Inv /\ Next => Shared!Next \/ UNCHANGED <<Values, Fetches, Copies>>
      BY StepMaps DEF Next, AnyCall
    <2>2. UNCHANGED vars => UNCHANGED <<Values, Fetches, Copies>>
      BY DEF vars, Values, Fetches, Copies, Value, Fetched, Contents, Here
    <2>3. QED
      BY <2>1, <2>2, SharedVars
  <1>4. Spec => []Safe
    BY Inductive, InductiveNoData, PTL DEF Safe
  <1>5. QED
    BY <1>1, <1>2, <1>3, <1>4, InitMaps, PTL DEF Spec, Isolated, Shared!Spec
============================================================================
