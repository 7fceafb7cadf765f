------------------------------- MODULE KeyBag -------------------------------
(* What an index of keys promises: it holds a bag of keys; insert adds one *)
(* copy, remove takes one copy or reports that there is none.  A call      *)
(* begins, and takes effect when it returns.                               *)
EXTENDS Integers

CONSTANTS Keys, NoCall, Calls

VARIABLES bag, call, answer
vars == <<bag, call, answer>>

Init == bag = [k \in Keys |-> 0] /\ call = NoCall /\ answer = "none"

Begin(c) == call = NoCall /\ call' = c /\ answer' = "none" /\ UNCHANGED bag

Return(do, result) ==
  call # NoCall /\ call.do = do /\ call' = NoCall /\ answer' = result

Insert(k) == /\ Return("insert", "done") /\ call.key = k
             /\ bag' = [bag EXCEPT ![k] = @ + 1]

Remove(k) == /\ Return("remove", "done") /\ call.key = k
             /\ bag[k] > 0 /\ bag' = [bag EXCEPT ![k] = @ - 1]

Missing(k) == /\ Return("remove", "missing") /\ call.key = k
              /\ bag[k] = 0 /\ UNCHANGED bag

Finish == \E k \in Keys : Insert(k) \/ Remove(k) \/ Missing(k)

Next == (\E c \in Calls : Begin(c)) \/ Finish

Spec == Init /\ [][Next]_vars
=============================================================================
