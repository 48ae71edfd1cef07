----------------------------- MODULE CxxRuntime -----------------------------
(***************************************************************************)
(* What compiled C++ code calls behind the programmer's back, in libcxxrt: *)
(* the guard of a static local object (guard.cc), operators new and delete *)
(* with the new handler (memory.cc), and the list of destructors to run at *)
(* the end (cxa_atexit.c) under its lock (process/pthread.c).  Memory is a *)
(* pool of cells that malloc takes from and free gives back to.  Reading a *)
(* cell after free finds what was there unless somebody was given the cell *)
(* in between; then the model stops with a fault.                          *)
(***************************************************************************)
EXTENDS Integers, Sequences, FiniteSets

CONSTANTS
    Threads,
    Pool,        \* cells of memory
    Dsos,        \* values of __dso_handle
    MaxReg       \* bound: destructors ever registered

VARIABLE cx
    \* guard  the guard word                 built   objects constructed
    \* lock   of the list                    list    entries, head first
    \* free   cells malloc can give          held    cells new has given
    \* handl  new_handl is set               pc      place of a thread
    \* arg    dso of a call                  at      entry of the walk
    \* regs   destructors registered so far  ran     those run, in order
    \* taken  the freed entry of the walk has been given to somebody, perhaps given back
    \* fault  what the code has broken

INITIAL     == 0
INITIALISED == 1
LOCKED      == 2
AnyDso      == "null"
NoEntry     == [cell |-> 0, dso |-> AnyDso, reg |-> 0]

Init ==
    cx = [guard |-> INITIAL, built |-> 0, lock |-> FALSE, list |-> <<>>,
          free |-> Pool, held |-> {}, handl |-> FALSE,
          pc |-> [t \in Threads |-> "idle"], arg |-> [t \in Threads |-> AnyDso],
          at |-> NoEntry, taken |-> FALSE, regs |-> 0, ran |-> <<>>, fault |-> FALSE]

At(t, where) == cx.pc[t] = where
Go(t, where) == cx' = [cx EXCEPT !.pc[t] = where]

\* __cxa_guard_acquire: a plain read first, then compare-and-swap until the object is
\* there or the guard is ours.  Lock and flag are one word on this machine.
guard_read(t) ==
    /\ At(t, "idle")
    /\ Go(t, IF cx.guard = INITIALISED THEN "use" ELSE "cas")

guard_casBlind(t) ==
    /\ At(t, "cas")
    /\ cx' = IF cx.guard # LOCKED
             THEN [cx EXCEPT !.guard = LOCKED, !.pc[t] = "build"]
             ELSE cx

guard_cas(t) ==
    /\ At(t, "cas")
    /\ cx' = CASE cx.guard = INITIAL     -> [cx EXCEPT !.guard = LOCKED, !.pc[t] = "build"]
               [] cx.guard = INITIALISED -> [cx EXCEPT !.pc[t] = "use"]
               [] cx.guard = LOCKED      -> cx

\* The constructor, which may give up.
__cxa_guard_abort(t) ==
    /\ At(t, "build")
    /\ cx' = [cx EXCEPT !.guard = INITIAL, !.pc[t] = "idle"]

construct(t) ==
    /\ At(t, "build")
    /\ cx' = [cx EXCEPT !.built = @ + 1, !.pc[t] = "built"]

__cxa_guard_release(t) ==
    /\ At(t, "built")
    /\ cx' = [cx EXCEPT !.guard = INITIALISED, !.pc[t] = "use"]

use_static(t) == At(t, "use") /\ Go(t, "idle")

\* operator new: malloc; while there is nothing, the handler, or null without one.
\* (malloc may fail here, as C lets it; kmalloc below it stops the machine first.)
operator_new(t) ==
    /\ At(t, "idle") \/ At(t, "again")
    /\ IF cx.free = {} THEN Go(t, "look")
       ELSE \E c \in cx.free :
              cx' = [cx EXCEPT !.free = @ \ {c}, !.held = @ \cup {c}, !.pc[t] = "idle",
                               !.taken = @ \/ c = cx.at.cell]

get_new_handler(t) ==
    /\ At(t, "look")
    /\ Go(t, IF cx.handl THEN "handler" ELSE "idle")

\* A handler gives some memory back or removes itself.
call_handler(t) ==
    /\ At(t, "handler")
    /\ \/ \E c \in cx.held :
            cx' = [cx EXCEPT !.held = @ \ {c}, !.free = @ \cup {c}, !.pc[t] = "again"]
       \/ cx' = [cx EXCEPT !.handl = FALSE, !.pc[t] = "again"]

set_new_handler(t) ==
    /\ At(t, "idle")
    /\ \E on \in BOOLEAN : cx' = [cx EXCEPT !.handl = on]

operator_delete(t) ==
    /\ At(t, "idle")
    /\ \E c \in cx.held : cx' = [cx EXCEPT !.held = @ \ {c}, !.free = @ \cup {c}]

\* __cxa_atexit and __cxa_finalize begin with the lock.
call_locked(t, what, dso) ==
    /\ At(t, "idle")
    /\ cx' = [cx EXCEPT !.pc[t] = what, !.arg[t] = dso]

pthread_mutex_lock(t, what, then) ==
    /\ At(t, what) /\ ~cx.lock
    /\ cx' = [cx EXCEPT !.lock = TRUE, !.pc[t] = then]

__cxa_atexit(t) ==
    /\ At(t, "register")
    /\ IF cx.free = {} THEN Go(t, "unlock")
       ELSE \E c \in cx.free :
              cx' = [cx EXCEPT !.free = @ \ {c}, !.pc[t] = "unlock", !.regs = @ + 1,
                               !.list = <<[cell |-> c, dso |-> cx.arg[t],
                                           reg |-> cx.regs + 1]>> \o @]

\* The walk over the list: the entries not yet looked at follow the current one, and
\* what the walk has kept precedes them.
After(e) == SelectSeq(cx.list, LAMBDA x : x.reg < e.reg)
First(s) == IF s = <<>> THEN NoEntry ELSE s[1]

finalize_start(t) ==
    /\ At(t, "first")
    /\ cx' = [cx EXCEPT !.at = First(cx.list), !.pc[t] = "walk"]

\* A match is taken out of the list and called; the lock stays taken.
finalize_entry(t) ==
    /\ At(t, "walk")
    /\ cx' = IF cx.at = NoEntry THEN [cx EXCEPT !.pc[t] = "unlock"]
             ELSE IF cx.arg[t] \in {AnyDso, cx.at.dso}
             THEN [cx EXCEPT !.list = SelectSeq(@, LAMBDA x : x.reg # cx.at.reg),
                             !.ran = Append(@, cx.at.reg), !.pc[t] = "free"]
             ELSE [cx EXCEPT !.at = First(After(cx.at))]

finalize_free(t) ==
    /\ At(t, "free")
    /\ cx' = [cx EXCEPT !.free = @ \cup {cx.at.cell}, !.pc[t] = "next"]

\* h = h->next reads the entry that has just been freed.
finalize_next(t) ==
    /\ At(t, "next")
    /\ cx' = IF cx.taken THEN [cx EXCEPT !.fault = TRUE]
             ELSE [cx EXCEPT !.at = First(After(cx.at)), !.pc[t] = "walk"]

pthread_mutex_unlock(t) ==
    /\ At(t, "unlock")
    /\ cx' = [cx EXCEPT !.lock = FALSE, !.at = NoEntry, !.pc[t] = "idle", !.arg[t] = AnyDso]

Next ==
    /\ ~cx.fault
    /\ \E t \in Threads :
        \/ guard_read(t) \/ guard_cas(t) \/ construct(t)
        \/ __cxa_guard_abort(t) \/ __cxa_guard_release(t) \/ use_static(t)
        \/ operator_new(t) \/ get_new_handler(t) \/ call_handler(t)
        \/ set_new_handler(t) \/ operator_delete(t)
        \/ \E d \in Dsos : cx.regs < MaxReg /\ call_locked(t, "atexit", d)
        \/ \E d \in Dsos \cup {AnyDso} : call_locked(t, "finalize", d)
        \/ pthread_mutex_lock(t, "atexit", "register") \/ __cxa_atexit(t)
        \/ pthread_mutex_lock(t, "finalize", "first") \/ finalize_start(t)
        \/ finalize_entry(t) \/ finalize_free(t) \/ finalize_next(t)
        \/ pthread_mutex_unlock(t)

-----------------------------------------------------------------------------
Listed == {cx.list[i].reg : i \in DOMAIN cx.list}
Walker(t) == cx.pc[t] \in {"walk", "free", "next"}

\* What libcxxrt promises to compiled code with several threads: a static object is
\* constructed once, whoever comes first and however often a constructor gives up, and
\* nobody uses it before; every registered destructor is on the list or has run, never
\* both and never twice, those of one list in reverse order of registration, and a
\* finalize that ends leaves none of its own; and no memory is lost or given twice.
CxxRuntimeSound ==
    /\ cx.built <= 1
    /\ Cardinality({t \in Threads : cx.pc[t] \in {"build", "built"}}) <= 1
    /\ (\E t \in Threads : At(t, "use")) => cx.built = 1
    /\ \A i, j \in DOMAIN cx.ran : i # j => cx.ran[i] # cx.ran[j]
    /\ Listed \cup {cx.ran[i] : i \in DOMAIN cx.ran} = 1 .. cx.regs
    /\ Listed \cap {cx.ran[i] : i \in DOMAIN cx.ran} = {}
    /\ \A t \in Threads : Walker(t) =>
         \A i \in DOMAIN cx.list :
            cx.arg[t] \in {AnyDso, cx.list[i].dso} => cx.list[i].reg <= cx.at.reg
    /\ ~cx.fault =>
         /\ Cardinality(cx.free) + Cardinality(cx.held) + Len(cx.list)
              + Cardinality({t \in Threads : At(t, "free")}) = Cardinality(Pool)
         /\ cx.free \cap cx.held = {}
=============================================================================
