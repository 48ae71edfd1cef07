----------------------------- MODULE BoundedPipe -----------------------------
(***************************************************************************)
(* What a pipe promises its users: it is one bounded queue of bytes.  A    *)
(* write moves its bytes into it in order and ends short only when it is   *)
(* full, a read moves bytes out of it in order and ends short only when it *)
(* is empty.  Several calls can be under way at once; their pieces may     *)
(* alternate, but no byte is lost, doubled or made up.                     *)
(***************************************************************************)
EXTENDS Naturals, Sequences

CONSTANTS Callers, Bytes, Capacity

VARIABLES
    queue,   \* the bytes in the pipe, oldest first
    call,    \* what each caller does: "none", "read" or "write"
    todo,    \* the bytes a writer has still to put into the pipe
    want,    \* how many bytes a reader still asks for
    got      \* the bytes a reader has received

vars == <<queue, call, todo, want, got>>

Init ==
    /\ queue = <<>>
    /\ call = [c \in Callers |-> "none"]
    /\ todo = [c \in Callers |-> <<>>]
    /\ want = [c \in Callers |-> 0]
    /\ got  = [c \in Callers |-> <<>>]

StartWrite(c) ==
    /\ call[c] = "none"
    /\ call' = [call EXCEPT ![c] = "write"]
    /\ todo'[c] \in Seq(Bytes)
    /\ todo' = [todo EXCEPT ![c] = todo'[c]]
    /\ UNCHANGED <<queue, want, got>>

StartRead(c) ==
    /\ call[c] = "none"
    /\ call' = [call EXCEPT ![c] = "read"]
    /\ want'[c] \in Nat
    /\ want' = [want EXCEPT ![c] = want'[c]]
    /\ UNCHANGED <<queue, todo, got>>

Put(c) ==
    /\ call[c] = "write"
    /\ \E k \in 1 .. Len(todo[c]) :
        /\ Len(queue) + k <= Capacity
        /\ queue' = queue \o SubSeq(todo[c], 1, k)
        /\ todo' = [todo EXCEPT ![c] = SubSeq(@, k + 1, Len(@))]
    /\ UNCHANGED <<call, want, got>>

Get(c) ==
    /\ call[c] = "read"
    /\ \E k \in 1 .. want[c] :
        /\ k <= Len(queue)
        /\ got' = [got EXCEPT ![c] = @ \o SubSeq(queue, 1, k)]
        /\ queue' = SubSeq(queue, k + 1, Len(queue))
        /\ want' = [want EXCEPT ![c] = @ - k]
    /\ UNCHANGED <<call, todo>>

Return(c) ==
    /\ \/ call[c] = "write" /\ (todo[c] = <<>> \/ Len(queue) = Capacity)
       \/ call[c] = "read"  /\ (want[c] = 0 \/ queue = <<>>)
    /\ call' = [call EXCEPT ![c] = "none"]
    /\ todo' = [todo EXCEPT ![c] = <<>>]
    /\ want' = [want EXCEPT ![c] = 0]
    /\ got'  = [got  EXCEPT ![c] = <<>>]
    /\ UNCHANGED queue

Next == \E c \in Callers :
            StartWrite(c) \/ StartRead(c) \/ Put(c) \/ Get(c) \/ Return(c)

Spec == Init /\ [][Next]_vars
==============================================================================
