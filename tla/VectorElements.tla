---------------------------- MODULE VectorElements ----------------------------
(* What removing elements makes of a sequence, for the vector and for what   *)
(* it promises.  The first and the last occurrence are library operators.    *)
EXTENDS Integers, Sequences

(* The elements other than e, taken one after the other.                     *)
Others(elems, e) ==
  LET first[n \in 0 .. Len(elems)] ==
        IF n = 0 THEN << >>
        ELSE IF elems[n] = e THEN first[n - 1]
        ELSE Append(first[n - 1], elems[n])
  IN  first[Len(elems)]
===============================================================================
