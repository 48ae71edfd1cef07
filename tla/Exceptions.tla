----------------------------- MODULE Exceptions -----------------------------
(***************************************************************************)
(* libcxxrt/exception.cc: exceptions of one thread.  The program calls     *)
(* functions, throws, catches and rethrows; the unwinder and the code of   *)
(* the landing pads are external.  An unwind up to the first landing pad   *)
(* is one step: nothing else of the thread runs inside it.                 *)
(*                                                                         *)
(* thread_info() gives a new structure in every call, because pthread_once *)
(* (process/pthread.c) runs init_key in every call but the first, and the  *)
(* new key has no structure yet.  So what __cxa_begin_catch has put into   *)
(* the structure is only there until the next call of the runtime, the     *)
(* current exception is never found for a rethrow or an exception pointer, *)
(* and there are no dependent exceptions.  malloc never returns null, so   *)
(* that the emergency buffers are not used.                                *)
(***************************************************************************)
EXTENDS Integers, Sequences, SequencesExt, FiniteSetsExt

CONSTANTS
    Ids,         \* bound: exception objects, 1 .. n
    Depth,       \* bound: frames of the stack
    Names,       \* the call sites the program uses for its calls
    Handlers,    \* site and class of exception -> what the tables say (Personality!Table)
    Meaning,     \* what the source has at a site: [kind, clauses, filters]
    Meant,       \* clause and type -> where C++ lets the clause catch it
    Casts,       \* the results of dynamic_cast
    Thrown,      \* types thrown
    MaxKeys      \* keys of pthread_key_create

VARIABLE eh
    \* stack     frames, the innermost last     ex        the exception objects
    \* calls     calls of thread_info           caught, foreign   of the last structure
    \* dead      terminated, or a failed assert
    \* fault     undefined behaviour follows
    \* last      the last throw: the sites of the stack, the type, and where it went

Frame(site) == [site |-> site, open |-> 0, pad |-> 0]
NoThrow     == [sites |-> <<>>, type |-> "none", at |-> 0, clause |-> 0, adj |-> 0]
Dead        == [live |-> FALSE, cls |-> "none", type |-> "none", ref |-> 0, hc |-> 0,
                next |-> 0, temp |-> 0, sel |-> 0, adj |-> 0, dest |-> 0]

Init ==
    eh = [stack |-> <<Frame("nopad")>>, ex |-> [i \in Ids |-> Dead], calls |-> 0, caught |-> 0,
          foreign |-> "none", dead |-> FALSE, fault |-> FALSE, last |-> NoThrow]

terminate(s) == [s EXCEPT !.dead = TRUE]
isCXXException(e) == e.cls = "cxx"

\* A new structure, with a new key but for the first call; without one left the
\* assert of pthread_key_create fails.  Of the counts of uncaught exceptions none is
\* ever read again: uncaught_exception starts from a new structure too.
thread_info(s) ==
    IF s.calls = MaxKeys + 1 THEN terminate(s)
    ELSE [s EXCEPT !.calls = @ + 1, !.caught = 0, !.foreign = "none"]

-----------------------------------------------------------------------------
(* Memory of exceptions.                                                   *)

free_exception(s, id) == [s EXCEPT !.ex[id] = Dead, !.fault = @ \/ ~s.ex[id].live]

\* The last reference frees an exception.
releaseExceptionFetchFirst(s, id) ==
    IF s.ex[id].ref = 0 THEN free_exception(s, id) ELSE [s EXCEPT !.ex[id].ref = @ - 1]
releaseException(s, id) ==
    IF s.ex[id].ref = 1 THEN free_exception(s, id) ELSE [s EXCEPT !.ex[id].ref = @ - 1]

-----------------------------------------------------------------------------
(* Catching.                                                               *)

\* __cxa_begin_catch: an exception that is not being handled goes on top of the
\* caught ones.
begin_catch(s0, id) ==
    LET s == thread_info(s0)
        e == s.ex[id]
        n == IF e.hc < 0 THEN 1 - e.hc ELSE e.hc + 1
        t == [s EXCEPT !.foreign = "none", !.ex[id].hc = n]
    IN  IF s.dead THEN s
        ELSE IF ~isCXXException(e)
          THEN IF s.caught # 0 THEN terminate(s)
               ELSE [s EXCEPT !.caught = id, !.foreign = "caught"]
        ELSE IF e.hc = 0 THEN [t EXCEPT !.ex[id].next = s.caught, !.caught = id] ELSE t

\* __cxa_end_catch: of the exception on top in the last structure, which the assert
\* says there is; not freed if it has been rethrown.
end_catch(s) ==
    LET id == s.caught
        e  == s.ex[id]
        n  == IF e.hc < 0 THEN e.hc + 1 ELSE e.hc - 1
        t  == [s EXCEPT !.ex[id].hc = n]
        u  == [t EXCEPT !.caught = e.next, !.ex[id].next = 0]
    IN  IF id = 0 THEN terminate(s)
        ELSE IF s.foreign # "none"
          THEN LET f == [s EXCEPT !.caught = 0, !.foreign = "none"]
               IN  IF s.foreign = "rethrown" THEN f ELSE free_exception(f, id)
        ELSE IF n # 0 THEN t
        ELSE IF e.hc < 0 THEN u ELSE releaseException(u, id)

-----------------------------------------------------------------------------
(* The personality function.                                               *)

\* What the tables say about frame k, for the type of an exception.
Found(s, id, k) == Handlers[<<s.stack[k].site, <<s.ex[id].cls, s.ex[id].type>>>>]

\* Phase 1 from frame k outwards: the frame with a handler, or one without a call
\* site, where the exception may not pass.  The landing pad and selector are kept.
saveLandingPad(s, id, k, f) ==
    IF isCXXException(s.ex[id]) /\ f.kind = "catch"
      THEN [s EXCEPT !.ex[id] = [@ EXCEPT !.dest = k, !.temp = f.pad, !.sel = f.sel, !.adj = f.adj]]
      ELSE [s EXCEPT !.ex[id].dest = k]
RECURSIVE search(_, _, _)
search(s, id, k) ==
    IF k = 0 THEN [s EXCEPT !.ex[id].dest = 0]
    ELSE LET f == Found(s, id, k)
         IN  IF f.kind \in {"gap", "catch"} THEN saveLandingPad(s, id, k, f)
             ELSE search(s, id, k - 1)

\* A landing pad, in the compiler's code.  Selector 0: a cleanup, in which nothing
\* may leave; in the body of a catch it is the call of __cxa_end_catch.  Below 0:
\* __cxa_call_unexpected, whose handler may throw something else.
land(s, id, k, sel) ==
    LET t == [s EXCEPT !.stack = SubSeq(@, 1, k)]
    IN  CASE sel > 0 -> begin_catch([t EXCEPT !.stack[k] = [@ EXCEPT !.site = "body", !.open = id]], id)
          [] sel = 0 -> [t EXCEPT !.stack[k] = [@ EXCEPT !.site = "gap", !.pad = id]]
          [] sel < 0 -> begin_catch([t EXCEPT !.stack = Append([@ EXCEPT ![k].site = "nopad"],
                                          [Frame("unexpected") EXCEPT !.open = id])], id)

\* Phase 2 from frame k outwards: cleanups on the way, then the handler.
handle(s, id, k, f) ==
    IF ~isCXXException(s.ex[id])
      THEN IF f.kind = "gap" THEN [s EXCEPT !.fault = TRUE] ELSE land(s, id, k, f.sel)
    ELSE IF s.ex[id].temp = 0 THEN terminate(s)
    ELSE land([s EXCEPT !.ex[id].temp = 0, !.ex[id].sel = 0], id, k, s.ex[id].sel)
RECURSIVE unwind(_, _, _)
pass(s, id, k, f) ==
    IF f.pad = 0 \/ f.kind # "cleanup" THEN unwind(s, id, k - 1)
    ELSE IF s.stack[k].open # 0 THEN unwind(end_catch(s), id, k - 1)
    ELSE land(s, id, k, f.sel)
unwind(s, id, k) ==
    IF s.dead \/ s.fault THEN s
    ELSE IF k = s.ex[id].dest THEN handle(s, id, k, Found(s, id, k))
    ELSE pass(s, id, k, Found(s, id, k))

\* _Unwind_RaiseException; without a handler it returns and report_failure ends it.
raise2(t, id, n, sites) ==
    LET r == IF t.ex[id].dest = 0 THEN terminate(begin_catch(t, id)) ELSE unwind(t, id, n)
    IN  [r EXCEPT !.last = [sites |-> sites, type |-> t.ex[id].type, at |-> t.ex[id].dest,
                            clause |-> t.ex[id].sel, adj |-> t.ex[id].adj]]
raise(s, id) ==
    raise2(search(s, id, Len(s.stack)), id, Len(s.stack),
           [k \in DOMAIN s.stack |-> s.stack[k].site])

-----------------------------------------------------------------------------
(* The program.                                                            *)

Running == ~eh.dead /\ ~eh.fault
Top     == eh.stack[Len(eh.stack)]
Quiet   == [eh EXCEPT !.last = NoThrow]
Unused  == {i \in Ids : ~eh.ex[i].live}

\* calloc clears nothing: a step that takes memory may find anything in it.
Do(s) ==
    \/ eh' = s
    \/ s.calls > eh.calls /\ eh' = [Quiet EXCEPT !.fault = TRUE]

Call(site) ==
    /\ Running /\ Len(eh.stack) < Depth /\ Top.site # "unexpected"
    /\ Do([Quiet EXCEPT !.stack = Append(@, Frame(site))])
Return ==
    /\ Running /\ Len(eh.stack) > 1 /\ Top.open = 0 /\ Top.pad = 0
    /\ Do([Quiet EXCEPT !.stack = SubSeq(@, 1, Len(@) - 1)])

\* __cxa_allocate_exception and __cxa_throw.
throw_exception(s, id) == LET t == thread_info(s) IN IF t.dead THEN t ELSE raise(t, id)
cxa_throw(type) ==
    /\ Running /\ Unused # {}
    /\ LET id == Min(Unused)
       IN  Do(throw_exception([Quiet EXCEPT !.ex[id] = [Dead EXCEPT !.live = TRUE, !.cls = "cxx",
                                                            !.type = type, !.ref = 1]], id))
\* An exception of another language.
throw_foreign ==
    /\ Running /\ Unused # {} /\ \A i \in Ids : eh.ex[i].cls # "foreign"
    /\ LET id == Min(Unused)
       IN  Do(raise([Quiet EXCEPT !.ex[id] = [Dead EXCEPT !.live = TRUE, !.cls = "foreign"]], id))

\* __cxa_rethrow finds no exception in its new structure.
cxa_rethrow ==
    /\ Running
    /\ Do(terminate(thread_info(Quiet)))

\* __cxa_current_primary_exception, __cxa_current_exception_type, uncaught_exception:
\* each returns null or 0, from a new structure.
CurrentException ==
    /\ Running
    /\ Do(thread_info(Quiet))

\* The end of a catch, and the end of a cleanup (_Unwind_Resume).
CatchEnds ==
    /\ Running /\ Top.open # 0 /\ Top.pad = 0 /\ Top.site = "body"
    /\ Do([end_catch(Quiet) EXCEPT !.stack[Len(eh.stack)] = Frame("nopad")])
CleanupEnds ==
    /\ Running /\ Top.pad # 0
    /\ Do(unwind(Quiet, Top.pad, Len(eh.stack) - 1))

Next ==
    \/ \E site \in Names : Call(site)
    \/ \E t \in Thrown : cxa_throw(t)
    \/ Return \/ throw_foreign \/ cxa_rethrow \/ CurrentException \/ CatchEnds \/ CleanupEnds

-----------------------------------------------------------------------------
Opened == {k \in DOMAIN eh.stack : eh.stack[k].open # 0}
Flying == {eh.stack[k].pad : k \in DOMAIN eh.stack} \ {0}

\* The frame the source sends an exception to, and with which clause.
Stops(site, type) ==
    LET m == Meaning[site]
    IN  CASE m.kind = "gap"   -> TRUE
          [] m.kind = "catch" -> \E c \in Range(m.clauses) : c = "..." \/ Meant[<<c, type>>] # {}
          [] m.kind = "spec"  -> \A c \in Range(m.clauses) : Meant[<<c, type>>] = {}
          [] OTHER            -> FALSE
SentRight ==
    LET l    == eh.last
        stop == {k \in DOMAIN l.sites : Stops(l.sites[k], l.type)}
        m    == Meaning[l.sites[l.at]]
        hits == {i \in DOMAIN m.clauses : m.clauses[i] = "..." \/ Meant[<<m.clauses[i], l.type>>] # {}}
    IN  /\ l.at = IF stop = {} THEN 0 ELSE Max(stop)
        /\ l.at # 0 /\ m.kind = "catch" =>
             /\ l.clause = m.filters[Min(hits)]
             /\ m.clauses[Min(hits)] # "..." => l.adj \in Meant[<<m.clauses[Min(hits)], l.type>>]

CastsMeet ==
    \A x \in DOMAIN Casts : Casts[x] \in IF Meant[x] = {} THEN {-1} ELSE Meant[x]

\* Every exception goes to the innermost handler of the source that C++ lets catch
\* it, with the right subobject, as the tables are parsed (search, check_action_record,
\* dwarf_eh_find_callsite, do_catch).  While the program runs, in every nesting of
\* throws, catches and cleanups, an exception is in memory exactly as long as a catch
\* or an unwind uses it, is counted once for every catch, and what __cxa_end_catch
\* would free is nothing or the exception of the innermost catch, never that of
\* another (begin_catch, end_catch, releaseException); and dynamic_cast finds every base.
ExceptionsSound ==
    /\ eh.last.type \in Thrown => SentRight
    /\ CastsMeet
    /\ Running =>
         /\ \A i \in Ids :
              /\ eh.ex[i].live <=> i \in Flying \cup {eh.stack[k].open : k \in Opened}
              /\ isCXXException(eh.ex[i]) =>
                   eh.ex[i].hc = Cardinality({k \in Opened : eh.stack[k].open = i})
         /\ eh.caught # 0 => Opened # {} /\ eh.caught = eh.stack[Max(Opened)].open
=============================================================================
