-------------------------------- MODULE Slab --------------------------------
(***************************************************************************)
(* The object caches of memory/slab.c and the size classes of              *)
(* memory/kmalloc.c, on top of the page frames of page.c.  A slab is one   *)
(* frame; its free objects form a chain through the objects themselves     *)
(* that starts in page_arr[].obj.  The classes larger than a page are left *)
(* out.  Addresses are pairs of a frame and an object number.              *)
(***************************************************************************)
EXTENDS PageFrames, FiniteSets

CONSTANTS
    NumFrames,   \* frames the kernel has left; frame 0 is the failure value
    ClassSize,   \* kmalloc_info: name of a cache -> size of its objects
    PageSize,    \* size of a slab
    Sizes,       \* sizes the callers ask for
    PartialMax,  \* 5: partial slabs a cache keeps before it gives slabs back
    MaxCnt       \* bound on partial_cnt, which slabs given back let grow

Frames  == 0 .. NumFrames
Classes == DOMAIN ClassSize
ObjCnt(c) == PageSize \div ClassSize[c]
Offsets == 0 .. PageSize - 1
NOOBJ   == -1                  \* (u16)(-1)
Lists   == {"free", "occupied"} \cup Classes
States  == {"AVAILABLE", "KERNEL", "DMA", "POOL"}

\* page_arr and the lists of frames, with mem_free_cnt and mem_occupied_cnt.
Memory ==
    [state : [Frames -> States],
     next : [Frames -> Frames \cup {NOPAGE}], prev : [Frames -> Frames \cup {NOPAGE}],
     head : [Lists -> Frames \cup {NOPAGE}], tail : [Lists -> Frames \cup {NOPAGE}],
     free_cnt : Nat, occupied_cnt : Nat]

ASSUME SlabAssumption ==
    /\ NumFrames \in Nat \ {0} /\ PageSize \in Nat \ {0} /\ PartialMax \in Nat \ {0}
    /\ MaxCnt \in Nat
    /\ {"free", "occupied"} \cap Classes = {}
    /\ \A c \in Classes : ClassSize[c] \in 1 .. PageSize
    /\ \A s \in Sizes : \E c \in Classes : s <= ClassSize[c]

VARIABLES
    m,             \* page_arr (state, next, prev) and the lists of frames; the
                   \* list of class c is cache->partial
    obj,           \* page_arr[].obj: number of the first free object of a slab
    inuse,         \* page_arr[].inuse
    link,          \* the u16 at the start of each free object
    partial_cnt,   \* cache->partial_cnt
    live,          \* the size asked for, for every address in use
    users,         \* frames that other parts of the kernel hold
    stray,         \* slabs given back while on a partial list
    halted         \* a failed assert has stopped the machine

vars == <<m, obj, inuse, link, partial_cnt, live, users, stray, halted>>

TypeOK ==
    /\ m \in Memory
    /\ obj \in [Frames -> Offsets \cup {NOOBJ}]
    /\ inuse \in [Frames -> 0 .. PageSize]
    /\ link \in [Frames -> [Offsets -> Offsets \cup {NOOBJ}]]
    /\ partial_cnt \in [Classes -> Nat]
    /\ DOMAIN live \subseteq Frames \X Offsets
    /\ \A a \in DOMAIN live : live[a] \in Sizes
    /\ users \subseteq Frames /\ stray \subseteq Frames
    /\ halted \in BOOLEAN

\* After cache_init of all classes: frames 1 .. NumFrames are free, in the
\* order in which page_init pushed them.
Init ==
    /\ m = [state |-> [f \in Frames |-> IF f = 0 THEN "DMA" ELSE "AVAILABLE"],
            next |-> [f \in Frames |-> IF f <= 1 THEN NOPAGE ELSE f - 1],
            prev |-> [f \in Frames |-> IF f \in {0, NumFrames} THEN NOPAGE ELSE f + 1],
            head |-> [l \in Lists |-> IF l = "free" THEN NumFrames ELSE NOPAGE],
            tail |-> [l \in Lists |-> IF l = "free" THEN 1 ELSE NOPAGE],
            free_cnt |-> NumFrames, occupied_cnt |-> 0]
    /\ obj = [f \in Frames |-> 0]
    /\ inuse = [f \in Frames |-> 0]
    /\ link = [f \in Frames |-> [o \in Offsets |-> 0]]
    /\ partial_cnt = [c \in Classes |-> 0]
    /\ live = << >>
    /\ users = {} /\ stray = {}
    /\ halted = FALSE

-----------------------------------------------------------------------------
\* The slab operations are functions of the record of the variables they change.
State == [m |-> m, obj |-> obj, inuse |-> inuse, link |-> link, cnt |-> partial_cnt]
Becomes(s) ==
    /\ \A c \in Classes : s.cnt[c] <= MaxCnt
    /\ m' = s.m /\ obj' = s.obj /\ inuse' = s.inuse /\ link' = s.link
    /\ partial_cnt' = s.cnt

cache_add_slabOneMore(s, c, page, mem) ==
    [m     |-> pglist_push_tail(mem, c, page),
     obj   |-> Store(s.obj, page, 0),
     inuse |-> Store(s.inuse, page, 0),
     link  |-> Store(s.link, page,
                 [o \in Offsets |-> IF o < ObjCnt(c) THEN o + 1
                                    ELSE s.link[page][o]]),
     cnt   |-> Store(s.cnt, c, s.cnt[c] + 1)]
\* cache_add_slab: a fresh slab, its objects chained in ascending order.
cache_add_slab(s, c, page, mem) ==
    [m     |-> pglist_push_tail(mem, c, page),
     obj   |-> Store(s.obj, page, 0),
     inuse |-> Store(s.inuse, page, 0),
     link  |-> Store(s.link, page,
                 [o \in Offsets |-> IF o < ObjCnt(c) - 1 THEN o + 1
                                    ELSE IF o = ObjCnt(c) - 1 THEN NOOBJ
                                    ELSE s.link[page][o]]),
     cnt   |-> Store(s.cnt, c, s.cnt[c] + 1)]

\* cache_obj_alloc on a cache whose partial list is not empty.
cache_obj_allocKeepsFull(s, c) ==
    LET slab == s.m.head[c]
        rest == s.link[slab][s.obj[slab]]
    IN  [s EXCEPT !.obj = Store(s.obj, slab, rest),
                  !.inuse = Store(s.inuse, slab, s.inuse[slab] + 1)]
cache_obj_alloc(s, c) ==
    LET slab == s.m.head[c]
        rest == s.link[slab][s.obj[slab]]
        s1   == [s EXCEPT !.obj = Store(s.obj, slab, rest),
                          !.inuse = Store(s.inuse, slab, s.inuse[slab] + 1)]
    IN  IF rest # NOOBJ THEN s1
        ELSE [s1 EXCEPT !.m = pglist_remove(s.m, c, slab),
                        !.cnt = Store(s.cnt, c, s.cnt[c] - 1)]

\* cache_obj_release.  The slab goes back to the frame allocator when its last
\* object is released and the cache has slabs enough.
GivesBack(s, c, slab) == s.inuse[slab] = 1 /\ s.cnt[c] >= PartialMax
Floating(s, slab) == s.m.prev[slab] = NOPAGE /\ s.m.next[slab] = NOPAGE

cache_obj_releaseNoCount(s, c, slab, o) ==
    LET full == s.obj[slab] = NOOBJ IN
    IF GivesBack(s, c, slab)
    THEN [s EXCEPT !.m = frame_release(
                            IF Floating(s, slab) THEN s.m ELSE pglist_remove(s.m, c, slab),
                            slab)]
    ELSE [s EXCEPT !.m = IF full THEN pglist_push_tail(s.m, c, slab) ELSE s.m,
                   !.link = Store(s.link, slab, Store(s.link[slab], o, s.obj[slab])),
                   !.obj = Store(s.obj, slab, o),
                   !.inuse = Store(s.inuse, slab, s.inuse[slab] - 1)]
cache_obj_releaseNoLink(s, c, slab, o) ==
    LET full == s.obj[slab] = NOOBJ IN
    IF GivesBack(s, c, slab)
    THEN [s EXCEPT !.m = frame_release(
                            IF Floating(s, slab) THEN s.m ELSE pglist_remove(s.m, c, slab),
                            slab)]
    ELSE [s EXCEPT !.m = IF full THEN pglist_push_tail(s.m, c, slab) ELSE s.m,
                   !.cnt = IF full THEN Store(s.cnt, c, s.cnt[c] + 1) ELSE s.cnt,
                   !.obj = Store(s.obj, slab, o),
                   !.inuse = Store(s.inuse, slab, s.inuse[slab] - 1)]
cache_obj_release(s, c, slab, o) ==
    LET full == s.obj[slab] = NOOBJ IN
    IF GivesBack(s, c, slab)
    THEN [s EXCEPT !.m = frame_release(
                            IF Floating(s, slab) THEN s.m ELSE pglist_remove(s.m, c, slab),
                            slab)]
    ELSE [s EXCEPT !.m = IF full THEN pglist_push_tail(s.m, c, slab) ELSE s.m,
                   !.cnt = IF full THEN Store(s.cnt, c, s.cnt[c] + 1) ELSE s.cnt,
                   !.link = Store(s.link, slab, Store(s.link[slab], o, s.obj[slab])),
                   !.obj = Store(s.obj, slab, o),
                   !.inuse = Store(s.inuse, slab, s.inuse[slab] - 1)]

-----------------------------------------------------------------------------
\* get_kmalloc_cache: the smallest class that fits.
get_kmalloc_cache(size) ==
    CHOOSE c \in Classes :
        /\ size <= ClassSize[c]
        /\ \A d \in Classes : size <= ClassSize[d] => ClassSize[c] <= ClassSize[d]

\* What kmalloc_s(size) makes of the state s: the address, and the state
\* afterwards.  NOPAGE as its frame stands for a failed assert: of frame_alloc,
\* or of cache_add_slab when frame_alloc returns 0.
Malloc(s, size) ==
    LET c  == get_kmalloc_cache(size)
        a  == frame_alloc(s.m, "POOL")
        s1 == IF pglist_is_empty(s.m, c)
                THEN cache_add_slab(s, c, a.frame, a.mem) ELSE s
        slab == s1.m.head[c]
    IN  IF pglist_is_empty(s.m, c) /\ a.frame \in {0, NOPAGE}
        THEN [addr |-> <<NOPAGE, 0>>, state |-> s]
        ELSE [addr |-> <<slab, s1.obj[slab]>>, state |-> cache_obj_alloc(s1, c)]

\* What kfree_s(size, addr) makes of the state s.
Free(s, size, addr) ==
    cache_obj_release(s, get_kmalloc_cache(size), addr[1], addr[2])

\* Whether kfree_s gives back a slab that is still on its partial list.
StrayFree(s, size, addr) ==
    LET c == get_kmalloc_cache(size) IN
    IF GivesBack(s, c, addr[1]) /\ Floating(s, addr[1]) /\ s.m.head[c] = addr[1]
    THEN {addr[1]} ELSE {}

Without(f, x) == [y \in DOMAIN f \ {x} |-> f[y]]
With(f, x, v) == [y \in DOMAIN f \cup {x} |-> IF y = x THEN v ELSE f[y]]

Running == ~halted /\ stray = {}

\* kmalloc is kmalloc_s of a size that includes its header.
kmalloc_s(size) ==
    LET r == Malloc(State, size) IN
    /\ Running
    /\ Becomes(r.state)
    /\ halted' = (r.addr[1] = NOPAGE)
    /\ live' = IF halted' THEN live ELSE With(live, r.addr, size)
    /\ UNCHANGED <<users, stray>>

\* kfree finds in the header the size that kfree_s is given.
kfree_s(addr) ==
    /\ Running
    /\ Becomes(Free(State, live[addr], addr))
    /\ live' = Without(live, addr)
    /\ stray' = StrayFree(State, live[addr], addr)
    /\ UNCHANGED <<users, halted>>

\* krealloc: in place within a class, else a new object, the old_size bytes copied
\* to it, and kfree_s of the old.  A copy into a smaller class would run over the
\* objects behind the new one, so the model has the requests that the callers make:
\* os::vector (vector.hpp:24) and __cxa_demangle (typeinfo.cc:91) only ask for more.
krealloc(addr, size) ==
    LET r == Malloc(State, size)
        moves == get_kmalloc_cache(live[addr]) # get_kmalloc_cache(size)
        fails == moves /\ r.addr[1] = NOPAGE
    IN  /\ Running
        /\ size >= live[addr]
        /\ halted' = fails
        /\ Becomes(IF moves /\ ~fails THEN Free(r.state, live[addr], addr) ELSE State)
        /\ live' = IF fails THEN live
                   ELSE IF moves THEN With(Without(live, addr), r.addr, size)
                   ELSE With(live, addr, size)
        /\ stray' = IF moves /\ ~fails THEN StrayFree(r.state, live[addr], addr) ELSE {}
        /\ UNCHANGED users

\* Another part of the kernel takes or releases a page.
kernel_page_alloc ==
    LET a == frame_alloc(m, "KERNEL") IN
    /\ Running /\ a.frame \notin {0, NOPAGE}
    /\ m' = a.mem
    /\ users' = users \cup {a.frame}
    /\ UNCHANGED <<obj, inuse, link, partial_cnt, live, stray, halted>>

kernel_page_release(f) ==
    /\ Running
    /\ m' = frame_release(m, f)
    /\ users' = users \ {f}
    /\ UNCHANGED <<obj, inuse, link, partial_cnt, live, stray, halted>>

Next ==
    \/ \E size \in Sizes : kmalloc_s(size)
    \/ \E addr \in DOMAIN live : kfree_s(addr)
    \/ \E addr \in DOMAIN live, size \in Sizes : krealloc(addr, size)
    \/ kernel_page_alloc
    \/ \E f \in users : kernel_page_release(f)

Spec == Init /\ [][Next]_vars

-----------------------------------------------------------------------------
LiveIn(f) == {a \in DOMAIN live : a[1] = f}
Slabs == {f \in Frames : m.state[f] = "POOL"}

\* The class a slab belongs to: that of its objects in use, or of the list it
\* is on.
Partial(c) == PagesOf(m, c, NumFrames)
SlabOf(c) == {f \in Slabs : f \in Partial(c)
                 \/ \E a \in LiveIn(f) : get_kmalloc_cache(live[a]) = c}

\* The chain of free objects of a slab.
FreeChain(f) ==
    LET walk[n \in 0 .. PageSize] ==
          IF n = 0 THEN obj[f]
          ELSE IF walk[n - 1] = NOOBJ THEN NOOBJ ELSE link[f][walk[n - 1]]
    IN  walk

\* In every slab the chain of free objects ends, and it holds exactly the
\* objects that nobody uses; inuse counts the others.  So kmalloc never hands
\* out an object twice and loses none, whatever the order of kmalloc, kfree and
\* growing krealloc.
ObjectsSound ==
    \A c \in Classes : \A f \in SlabOf(c) :
        LET walk  == FreeChain(f)
            chain == {walk[n] : n \in 0 .. PageSize} \ {NOOBJ} IN
        /\ walk[ObjCnt(c)] = NOOBJ
        /\ chain = {o \in 0 .. ObjCnt(c) - 1 : <<f, o>> \notin DOMAIN live}
        /\ inuse[f] = Cardinality(LiveIn(f))

\* Until a slab is given back while listed, a cache's partial list holds the
\* slabs of its class that have a free object, each slab belongs to one class,
\* every object in use lies in a slab, and no other user has that frame.
SlabsSound ==
    stray = {} =>
        /\ \A c \in Classes :
              /\ WellLinked(m, c, NumFrames)
              /\ Partial(c) = {f \in SlabOf(c) : obj[f] # NOOBJ}
              /\ \A d \in Classes \ {c} : SlabOf(c) \cap SlabOf(d) = {}
        /\ \A a \in DOMAIN live : a[1] \in Slabs
        /\ users \cap Slabs = {}

\* partial_cnt never falls below the length of the partial list: a cache gives
\* a slab back too early, never too late.
PartialCntCovers ==
    stray = {} => \A c \in Classes : partial_cnt[c] >= Cardinality(Partial(c))

\* slab.c, cache_obj_release: a slab without neighbours is not on the partial
\* list, so that it need not be removed from it.
FloatingIsNotListed == stray = {}
=============================================================================
