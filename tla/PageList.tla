------------------------------ MODULE PageList ------------------------------
(***************************************************************************)
(* The page lists of memory/page.c.  All lists share the next and prev     *)
(* fields of page_arr, and a list is a pair (head, tail), so a page is on  *)
(* at most one list at a time.  The operations are functions of a record   *)
(* m with the fields                                                       *)
(*     next, prev : page -> page or NOPAGE        (page_arr[p].next, prev) *)
(*     head, tail : list -> page or NOPAGE        (PageList)               *)
(* and leave the other fields of m alone.                                  *)
(***************************************************************************)
EXTENDS Integers

NOPAGE == -1          \* (u32)(-1)

\* The assignment f[p] = v; no effect when p is NOPAGE.
Store(f, p, v) == [q \in DOMAIN f |-> IF q = p THEN v ELSE f[q]]

\* A new record of links: the other fields of m stay.
Links(m, next, prev, head, tail) ==
    [m EXCEPT !.next = next, !.prev = prev, !.head = head, !.tail = tail]

pglist_is_empty(m, l) == m.head[l] = NOPAGE /\ m.tail[l] = NOPAGE

pglist_push_head(m, l, p) ==
    Links(m, Store(m.next, p, m.head[l]),
             Store(Store(m.prev, p, NOPAGE), m.head[l], p),
             Store(m.head, l, p),
             IF m.tail[l] = NOPAGE THEN Store(m.tail, l, p) ELSE m.tail)

pglist_push_tail(m, l, p) ==
    Links(m, Store(Store(m.next, p, NOPAGE), m.tail[l], p),
             Store(m.prev, p, m.tail[l]),
             IF m.head[l] = NOPAGE THEN Store(m.head, l, p) ELSE m.head,
             Store(m.tail, l, p))

pglist_pop_tailKeepsHead(m, l) ==
    LET p == m.tail[l] IN
    IF p = NOPAGE THEN m
    ELSE Links(m, Store(m.next, p, NOPAGE), Store(m.prev, p, NOPAGE),
                  m.head, Store(m.tail, l, m.prev[p]))
\* The list without its last page.  The page that becomes the last one keeps
\* its next field, which still names the page that is gone.
pglist_pop_tail(m, l) ==
    LET p == m.tail[l] IN
    IF p = NOPAGE THEN m
    ELSE Links(m, Store(m.next, p, NOPAGE),
                  Store(m.prev, p, NOPAGE),
                  IF m.prev[p] = NOPAGE THEN Store(m.head, l, NOPAGE) ELSE m.head,
                  Store(m.tail, l, m.prev[p]))

pglist_remove(m, l, p) ==
    LET b == m.prev[p]
        a == m.next[p] IN
    Links(m, Store(Store(m.next, b, a), p, NOPAGE),
             Store(Store(m.prev, a, b), p, NOPAGE),
             IF b = NOPAGE THEN Store(m.head, l, a) ELSE m.head,
             IF a = NOPAGE THEN Store(m.tail, l, b) ELSE m.tail)

-----------------------------------------------------------------------------
\* The n-th page from the tail along prev, and the pages found that way: the
\* order in which pglist_pop_tail takes them.
FromTail(m, l, bound) ==
    LET walk[n \in 0 .. bound] ==
          IF n = 0 THEN m.tail[l]
          ELSE IF walk[n - 1] = NOPAGE THEN NOPAGE ELSE m.prev[walk[n - 1]]
    IN  walk

PagesOf(m, l, bound) ==
    {FromTail(m, l, bound)[n] : n \in 0 .. bound} \ {NOPAGE}

\* A list that can be taken apart from its tail: the walk along prev ends at
\* the head, and next runs the other way.  The tail's own next may be stale.
WellLinked(m, l, bound) ==
    LET walk == FromTail(m, l, bound) IN
    /\ walk[bound] = NOPAGE
    /\ m.head[l] = NOPAGE <=> m.tail[l] = NOPAGE
    /\ \A n \in 1 .. bound : walk[n - 1] # NOPAGE =>
          IF walk[n] = NOPAGE THEN m.head[l] = walk[n - 1]
          ELSE m.next[walk[n]] = walk[n - 1]
=============================================================================
