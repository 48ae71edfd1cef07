------------------------------ MODULE Signals ------------------------------
(***************************************************************************)
(* Signals of one type, process/signal.cpp.  A broadcast travels along the *)
(* list of handlers, one process at a time, until a process says it has    *)
(* handled it, and ends at the handler registered as the last one.         *)
(* currentItem says how far it is: none for a unicast, the item of the     *)
(* handler, or the head of the list.                                       *)
(***************************************************************************)
EXTENDS Integers, Sequences, SequencesExt, FiniteSets

CONSTANTS
    Procs,       \* processes
    Able,        \* those that have a signalHandler
    Items,       \* SignalHandlerItems kmalloc can return
    Wrappers     \* SignalWrappers kmalloc can return: bounds the signals

VARIABLE sig
    \* handlers  items registered, in order      owner   process of an item
    \* last      signalHandlersFinally           queue   signal_ist of a process
    \* live      processes that exist            cur     currentItem of a wrapper
    \* state     "free", "sent" or "lost"        busy    signal a process handles
    \* seen      items a wrapper was sent to     stray   freed memory or NULL used
    \* loose     wrappers whose item is freed

None    == "none"
TheHead == "head"

signal_init ==
    sig = [handlers |-> <<>>, owner |-> [i \in Items |-> None], last |-> None,
           live |-> Procs, queue |-> [p \in Procs |-> <<>>],
           state |-> [w \in Wrappers |-> "free"], cur |-> [w \in Wrappers |-> None],
           busy |-> [p \in Procs |-> None], seen |-> [w \in Wrappers |-> {}],
           loose |-> {}, stray |-> FALSE]

signalSend(s, w, p) == [s EXCEPT !.queue[p] = Append(@, w), !.stray = p \notin s.live]
signalDestroy(s, w) ==
    [s EXCEPT !.state[w] = "free", !.cur[w] = None, !.seen[w] = {}, !.loose = @ \ {w}]

Place(s, i) == CHOOSE k \in DOMAIN s.handlers : s.handlers[k] = i
Follower(s, w) ==
    LET from == IF s.cur[w] = None THEN 0 ELSE Place(s, s.cur[w])
    IN  IF from < Len(s.handlers) THEN s.handlers[from + 1] ELSE TheHead

\* A wrapper whose item was unregistered points into freed memory.
Dangling(s, w) == s.cur[w] \notin {None, TheHead} \cup ToSet(s.handlers)

signalNext(s, w) ==
    LET next == Follower(s, w)
        at   == [s EXCEPT !.cur[w] = next]
    IN  CASE Dangling(s, w)      -> [s EXCEPT !.stray = TRUE]
          [] s.cur[w] = TheHead  -> signalDestroy(s, w)
          [] next # TheHead      -> signalSend([at EXCEPT !.seen[w] = @ \cup {next}],
                                               w, s.owner[next])
          [] s.last # None       -> signalSend(at, w, s.last)
          [] OTHER               -> signalDestroy(s, w)

\* do_signal to one process, where a refused signal leaves its wrapper behind, and
\* to all.
signal_one(w, p) ==
    /\ ~sig.stray /\ sig.state[w] = "free"
    /\ sig' = IF p \in sig.live /\ p \in Able
                THEN signalSend([sig EXCEPT !.state[w] = "sent"], w, p)
                ELSE [sig EXCEPT !.state[w] = "lost"]
signal_all(w) ==
    /\ ~sig.stray /\ sig.state[w] = "free"
    /\ sig' = signalNext([sig EXCEPT !.state[w] = "sent"], w)

signalRegister(p, how) ==
    /\ ~sig.stray /\ p \in sig.live
    /\ \/ /\ how = "finally"
          /\ sig' = [sig EXCEPT !.last = p]
       \/ /\ how # "finally"
          /\ Items \ ToSet(sig.handlers) # {}
          /\ LET i == CHOOSE i \in Items : i \notin ToSet(sig.handlers)
             IN  sig' = [sig EXCEPT !.owner[i] = p,
                           !.handlers = IF how = "front" THEN <<i>> \o @ ELSE Append(@, i)]

\* The first item of the process is removed and freed; a broadcast at that item
\* is cut loose.
Unregistered(s, p) ==
    LET own  == SelectInSeq(s.handlers, LAMBDA i : s.owner[i] = p)
        item == {s.handlers[k] : k \in {own} \ {0}}
    IN  [s EXCEPT !.handlers = IF own = 0 THEN @ ELSE RemoveAt(@, own),
                  !.owner = [i \in Items |-> IF i \in item THEN None ELSE @[i]],
                  !.seen = [w \in Wrappers |-> @[w] \ item],
                  !.loose = @ \cup {w \in Wrappers : s.cur[w] \in item},
                  !.last = IF @ = p THEN None ELSE @]
signalUnregister(p) ==
    /\ ~sig.stray /\ p \in sig.live
    /\ sig' = Unregistered(sig, p)

\* signalCheck when p is switched in: the first signal is taken from the list and
\* the handler called, which can take long and call the functions above.
signalCheckPeek(p) ==
    /\ ~sig.stray /\ p \in sig.live
    /\ sig.busy[p] = None /\ sig.queue[p] # <<>>
    /\ sig' = [sig EXCEPT !.busy[p] = Head(sig.queue[p]), !.stray = p \notin Able]
signalCheck(p) ==
    /\ ~sig.stray /\ p \in sig.live
    /\ sig.busy[p] = None /\ sig.queue[p] # <<>>
    /\ sig' = [sig EXCEPT !.busy[p] = Head(sig.queue[p]), !.queue[p] = Tail(@),
                          !.stray = p \notin Able]
signalChecked(p, res) ==
    /\ ~sig.stray /\ p \in sig.live /\ sig.busy[p] # None
    /\ LET w == sig.busy[p]
           s == [sig EXCEPT !.busy[p] = None]
       IN  sig' = IF res \/ sig.cur[w] = None THEN signalDestroy(s, w) ELSE signalNext(s, w)

\* destroy_process unregisters the process and forgets the signals it has not
\* handled.
destroy_process(p) ==
    /\ ~sig.stray /\ p \in sig.live
    /\ LET gone == ToSet(sig.queue[p]) \cup {sig.busy[p]}
       IN  sig' = [Unregistered(sig, p) EXCEPT
                     !.live = @ \ {p}, !.queue[p] = <<>>, !.busy[p] = None,
                     !.state = [w \in Wrappers |-> IF w \in gone THEN "lost" ELSE @[w]]]

Init == signal_init
Next ==
    \/ \E w \in Wrappers : signal_all(w) \/ \E p \in Procs : signal_one(w, p)
    \/ \E p \in Procs :
         \/ \E how \in {"normal", "front", "finally"} : signalRegister(p, how)
         \/ signalUnregister(p) \/ signalCheck(p) \/ destroy_process(p)
         \/ \E res \in BOOLEAN : signalChecked(p, res)

-----------------------------------------------------------------------------
Holders(w) ==
    {<<p, k>> \in Procs \X (0 .. Cardinality(Wrappers)) :
        IF k = 0 THEN sig.busy[p] = w
                 ELSE k <= Len(sig.queue[p]) /\ sig.queue[p][k] = w}

\* Until freed memory is used, a wrapper on its way is held by exactly one process
\* and a freed or forgotten one by none, and a broadcast has only been to handlers
\* up to its current one, so that no handler gets it twice, however processes
\* register, unregister and end meanwhile, unless the current one is unregistered
\* itself (signalNext, signalCheck).
SignalsSound ==
    ~sig.stray => \A w \in Wrappers :
      /\ Cardinality(Holders(w)) = (IF sig.state[w] = "sent" THEN 1 ELSE 0)
      /\ w \notin sig.loose /\ sig.cur[w] \in ToSet(sig.handlers) =>
           \A i \in sig.seen[w] : Place(sig, i) <= Place(sig, sig.cur[w])
=============================================================================
