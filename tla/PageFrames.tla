----------------------------- MODULE PageFrames -----------------------------
(***************************************************************************)
(* frame_alloc and frame_release of memory/page.c, as functions of the     *)
(* memory: a record with the links of PageList, the field state of         *)
(* page_arr, mem_free_cnt and mem_occupied_cnt.  FrameAllocator and Slab   *)
(* are the state machines built on them.                                   *)
(***************************************************************************)
EXTENDS PageList

SetState(mm, f, s) == [mm EXCEPT !.state = Store(mm.state, f, s)]

\* The list of free frames that pages of state s come from and go back to.
ListFor(s) == IF s = "NORMAL" THEN "map" ELSE "free"

frame_allocNoState(mm, s) ==
    LET f  == mm.tail[ListFor(s)]
        m1 == [pglist_pop_tail(mm, ListFor(s)) EXCEPT !.free_cnt = @ - 1]
        m2 == IF s = "POOL" THEN m1
              ELSE pglist_push_head([m1 EXCEPT !.occupied_cnt = @ + 1], "occupied", f)
    IN  IF mm.free_cnt = 0 THEN [mem |-> mm, frame |-> 0]
        ELSE IF f = NOPAGE THEN [mem |-> mm, frame |-> NOPAGE]
        ELSE [mem |-> m2, frame |-> f]
\* frame_alloc(s) as a function of the memory: the memory afterwards and the
\* frame it returns.  NOPAGE stands for a failed assert: the list is empty
\* although mem_free_cnt, which counts both lists, is not zero, or its last frame
\* is in use.
frame_alloc(mm, s) ==
    LET f  == mm.tail[ListFor(s)]
        m1 == SetState(pglist_pop_tail(mm, ListFor(s)), f, s)
        m2 == [m1 EXCEPT !.free_cnt = @ - 1]
        m3 == IF s = "POOL" THEN m2
              ELSE pglist_push_head([m2 EXCEPT !.occupied_cnt = @ + 1], "occupied", f)
    IN  IF mm.free_cnt = 0 THEN [mem |-> mm, frame |-> 0]
        ELSE IF f = NOPAGE \/ mm.state[f] # "AVAILABLE"
             THEN [mem |-> mm, frame |-> NOPAGE]
        ELSE [mem |-> m3, frame |-> f]

frame_releaseNoCount(mm, f) ==
    LET m1 == IF mm.state[f] \in {"KERNEL", "NORMAL"}
                THEN pglist_remove(mm, "occupied", f) ELSE mm
        m2 == IF mm.state[f] \in {"KERNEL", "NORMAL", "POOL"}
                THEN pglist_push_head(SetState(m1, f, "AVAILABLE"),
                                      ListFor(mm.state[f]), f)
                ELSE m1
    IN  [m2 EXCEPT !.free_cnt = @ + 1]
\* A frame in any other state is left where it is, yet counted as free.
frame_release(mm, f) ==
    LET m1 == IF mm.state[f] \in {"KERNEL", "NORMAL"}
                THEN [pglist_remove(mm, "occupied", f) EXCEPT !.occupied_cnt = @ - 1]
                ELSE mm
        m2 == IF mm.state[f] \in {"KERNEL", "NORMAL", "POOL"}
                THEN pglist_push_head(SetState(m1, f, "AVAILABLE"),
                                      ListFor(mm.state[f]), f)
                ELSE m1
    IN  [m2 EXCEPT !.free_cnt = @ + 1]
=============================================================================
