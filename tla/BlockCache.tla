----------------------------- MODULE BlockCache -----------------------------
(***************************************************************************)
(* The block device of the file system: Dev::SataDev in dev/sata_dev.cpp,  *)
(* a pool of sector buffers kept in order of use by os::LRU, libc++/       *)
(* include/lru.hpp, whose list is libc++/include/list.hpp.                 *)
(* read and write take no lock; a call is one step here, so the module is  *)
(* about calls that come one after the other.                              *)
(***************************************************************************)
EXTENDS Integers, Sequences, SequencesExt, FiniteSets

CONSTANTS
    Sectors,     \* sectors of the disk
    PoolSize     \* max_size of the pool, 10 in the code

VARIABLE blk
    \* pool   the buffers: key, cnt, dirty, data; most recently used first
    \* disk   what the sectors hold     good  sectors no write or error has touched
    \* asked  sectors asked for, the last one first      wrote  sectors written to

Junk(k)  == "junk"               \* bytes that belong to no sector
Clean(k) == k                    \* the content of sector k on the image
Value    == "new"                \* what is written

Init ==
    blk = [pool |-> <<>>, disk |-> [k \in Sectors |-> Clean(k)], good |-> Sectors,
           asked |-> <<>>, wrote |-> {}]

Place(k) == SelectInSeq(blk.pool, LAMBDA e : e.key = k)

\* list::move(from, begin()), push_front.
ToFrontInPlace(pool, at, e) == [pool EXCEPT ![at] = e]
ToFront(pool, at, e) == <<e>> \o RemoveAt(pool, at)

\* LRU::get on a hit, with room, and with the last buffer swapped out, where a dirty
\* one is written to the disk from the address virt_to_pfn gives: not its own.
get(k, dirty) ==
    LET at   == Place(k)
        hit  == blk.pool[at]
        last == Last(blk.pool)
        new  == [key |-> k, cnt |-> 1, dirty |-> dirty, data |-> Junk(k)]
    IN  IF at # 0
          THEN [pool |-> ToFront(blk.pool, at,
                           [hit EXCEPT !.cnt = 2, !.dirty = @ \/ dirty]),
                disk |-> blk.disk]
        ELSE IF Len(blk.pool) < PoolSize
          THEN [pool |-> <<new>> \o blk.pool, disk |-> blk.disk]
        ELSE [pool |-> ToFront(blk.pool, PoolSize,
                         [last EXCEPT !.key = k, !.cnt = 1, !.dirty = dirty]),
              disk |-> [blk.disk EXCEPT ![last.key] = IF last.dirty THEN Junk(k) ELSE @]]

\* A buffer that get returns for the first time is filled from the disk; when the
\* drive reports an error the buffer keeps what it held.
Filled(g, err) ==
    IF g.pool[1].cnt = 1 /\ ~err
      THEN [g.pool EXCEPT ![1].data = g.disk[g.pool[1].key]] ELSE g.pool
Asked(k) == <<k>> \o SelectSeq(blk.asked, LAMBDA j : j # k)

\* read of bytes of one sector; a longer one is several.
read(k, err) ==
    LET g == get(k, FALSE)
    IN  blk' = [blk EXCEPT !.pool = Filled(g, err), !.disk = g.disk,
                     !.good = IF err /\ g.pool[1].cnt = 1 THEN @ \ {k} ELSE @,
                     !.asked = Asked(k)]

\* write of a whole sector, which is not read first, or of a part of it.  memcpy
\* moves the bytes from the buffer to the caller.
write(k, whole, err) ==
    LET g == get(k, TRUE)
    IN  blk' = [blk EXCEPT !.pool = IF whole THEN g.pool ELSE Filled(g, err),
                     !.disk = g.disk, !.good = @ \ {k}, !.asked = Asked(k),
                     !.wrote = @ \cup {k}]

Next == \E k \in Sectors, err \in BOOLEAN :
          read(k, err) \/ \E whole \in BOOLEAN : write(k, whole, err)
Spec == Init /\ [][Next]_blk

-----------------------------------------------------------------------------
\* The pool holds the sectors asked for last, each once, the most recent one first,
\* and a sector that was never written and never failed to be read is in its buffer
\* what it is on the disk, whatever else is swapped in and out (LRU::get,
\* list::move, SataDev::read).
PoolSound ==
    LET keys == [j \in DOMAIN blk.pool |-> blk.pool[j].key]
    IN  /\ keys = SubSeq(blk.asked, 1, IF Len(blk.asked) < PoolSize THEN Len(blk.asked)
                                       ELSE PoolSize)
        /\ \A j \in DOMAIN keys : keys[j] \in blk.good => blk.pool[j].data = Clean(keys[j])
        /\ \A k \in blk.good : blk.disk[k] = Clean(k)

\* What write was given is in the buffer of its sector, as the comment on its memcpy
\* says.
WriteInCache ==
    \A j \in DOMAIN blk.pool :
      blk.pool[j].key \in blk.wrote /\ blk.pool[j].dirty => blk.pool[j].data = Value
=============================================================================
