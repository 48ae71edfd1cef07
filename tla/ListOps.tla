------------------------------ MODULE ListOps -------------------------------
(***************************************************************************)
(* Operators on lists of the kernel: sequences without repetitions, and    *)
(* what is left of one when it is walked and some elements are removed.    *)
(***************************************************************************)
EXTENDS Integers, Sequences

\* No element is twice on a list.
NoRepeat(s) == \A i, j \in 1 .. Len(s) : s[i] = s[j] => i = j

\* The elements of list s that are in S, in their order.
Those(s, S) ==
    LET upto[i \in 0 .. Len(s)] ==
          IF i = 0 THEN <<>>
          ELSE IF s[i] \in S THEN Append(upto[i - 1], s[i]) ELSE upto[i - 1]
    IN  upto[Len(s)]
=============================================================================
