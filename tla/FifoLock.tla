------------------------------ MODULE FifoLock ------------------------------
(***************************************************************************)
(* What a spin lock of the kernel promises: customers stand in line in     *)
(* front of each lock, only the first in line is let in, and it leaves the *)
(* line when it gives the lock back.                                       *)
(***************************************************************************)
EXTENDS Sequences, FiniteSets, Naturals

CONSTANTS Customers, Lines

VARIABLES
    line,    \* for each lock the customers that asked for it, oldest first
    inside   \* the customers that hold the lock they asked for

Init == line = [l \in Lines |-> <<>>] /\ inside = {}

InLine(c) == \E l \in Lines : \E i \in 1 .. Len(line[l]) : line[l][i] = c

Ask(c, l) ==
    /\ ~InLine(c)
    /\ line' = [line EXCEPT ![l] = Append(@, c)]
    /\ UNCHANGED inside

Enter(l) ==
    /\ line[l] /= <<>>
    /\ Head(line[l]) \notin inside
    /\ inside' = inside \cup {Head(line[l])}
    /\ UNCHANGED line

Leave(l) ==
    /\ line[l] /= <<>>
    /\ Head(line[l]) \in inside
    /\ inside' = inside \ {Head(line[l])}
    /\ line' = [line EXCEPT ![l] = Tail(@)]

Next == \E l \in Lines :
            (\E c \in Customers : Ask(c, l)) \/ Enter(l) \/ Leave(l)

Spec == Init /\ [][Next]_<<line, inside>>
=============================================================================
