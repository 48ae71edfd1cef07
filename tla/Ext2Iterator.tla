---------------------------- MODULE Ext2Iterator ----------------------------
(***************************************************************************)
(* The block pointers of an ext2 inode and the iterator over them,         *)
(* fs/ext2/ext2_inode.cpp: direct pointers in the inode, then index blocks *)
(* of one and of two levels, which the iterator buffers, fills and writes  *)
(* back.  resize drives it forward with automatic allocation to grow a     *)
(* file and backward to shrink it; read and write walk from any block.     *)
(* Three levels need more blocks than the image has.                       *)
(***************************************************************************)
EXTENDS Integers, Sequences, SequencesExt, FiniteSets, FiniteSetsExt

CONSTANTS
    Direct,      \* direct pointers, 12 in the code
    Per,         \* pointers in an index block, 256 in the code
    NBlocks,     \* blocks of the disk
    MaxFile      \* bound: blocks of the file, below what two levels reach

VARIABLE tree
    \* ptr    i->block            index  index blocks on the disk   used  bitmap
    \* blocks length in blocks    it     the iterator               left  steps to go
    \* job    what resize does    list   data blocks of the file    fault what broke

Levels == 1 .. 2
Blocks == 1 .. NBlocks
NoBuf  == [j \in 0 .. Per - 1 |-> -1]
Zeroes == [j \in 0 .. Per - 1 |-> 0]

Init ==
    tree = [ptr |-> [k \in 0 .. Direct + 2 |-> 0], index |-> [b \in Blocks |-> Zeroes],
            used |-> {}, blocks |-> 0, it |-> <<>>, left |-> 0, job |-> "idle",
            list |-> <<>>, fault |-> "none"]

Sub(t) == IF t = 0 THEN Direct ELSE Per

\* getInstance(i, n): no index block is in a buffer yet.  block_pos is 0; `from' is
\* the block a buffer really holds.
getInstance(n, auto) ==
    LET one == n - Direct
        two == n - Direct - Per
    IN  [level |-> IF one < 0 THEN 0 ELSE IF two < 0 THEN 1 ELSE 2,
         ix    |-> IF one < 0 THEN <<n, 0, 0>>
                   ELSE IF two < 0 THEN <<Direct, one, 0>>
                   ELSE <<Direct + 1, two \div Per, two % Per>>,
         buf   |-> [t \in Levels |-> NoBuf], pos |-> [t \in Levels |-> 0],
         from  |-> [t \in Levels |-> 0], dirty |-> {}, auto |-> auto]
Ix(x, t) == x.it.ix[t + 1]

\* write_back: block 0 is where the superblock is.
Written(x, dirty) ==
    [x EXCEPT !.index = [b \in Blocks |->
                 IF \E t \in dirty : x.it.pos[t] = b
                   THEN x.it.buf[CHOOSE t \in dirty : x.it.pos[t] = b] ELSE @[b]],
              !.it.dirty = {},
              !.fault = IF \E t \in dirty : x.it.pos[t] = 0 THEN "super" ELSE @]
write_backLevel1(x) == Written(x, x.it.dirty \cap {1})
write_back(x) == Written(x, x.it.dirty)

alloc_block(x) == Min(Blocks \ x.used)

\* What level t points to, and the state with that pointer set.
Points(x, t) == IF t = 0 THEN x.ptr[Ix(x, 0)] ELSE x.it.buf[t][Ix(x, t)]
Point(x, t, b) ==
    IF t = 0 THEN [x EXCEPT !.ptr[Ix(x, 0)] = b, !.used = @ \cup {b}]
    ELSE [x EXCEPT !.it.buf[t][Ix(x, t)] = b, !.it.dirty = @ \cup {t}, !.used = @ \cup {b}]

\* One turn of the loop of load_buf: the block that level t points to becomes the
\* buffer of level t + 1.  block_pos is set for a new block and not for an old one.
load_level(x, y, t) ==
    CASE t > 0 /\ x.it.buf[t] = NoBuf -> [x EXCEPT !.fault = "null"]
      [] OTHER ->
           IF Points(y, t) # 0
             THEN [y EXCEPT !.it.buf[t + 1] = y.index[Points(y, t)], !.it.from[t + 1] = Points(y, t)]
           ELSE IF ~x.it.auto THEN [y EXCEPT !.fault = "assert"]
           ELSE [Point(y, t, alloc_block(y)) EXCEPT
                   !.it.pos[t + 1] = alloc_block(y), !.it.from[t + 1] = alloc_block(y),
                   !.it.buf[t + 1] = Zeroes]
RECURSIVE load_buf(_, _)
load_buf(x, t) ==
    IF t >= x.it.level \/ x.fault # "none" THEN x
    ELSE load_buf(load_level(x, write_back(x), t), t + 1)

\* operator++ carries into the level above; from the highest it opens a new level.
increment(x) ==
    LET full == {t \in 0 .. x.it.level : Ix(x, t) + 1 >= Sub(t)}
        top  == Max({0} \cup {t \in 0 .. x.it.level :
                                t \notin full /\ (t + 1) .. x.it.level \subseteq full})
        y    == [x EXCEPT !.it.ix = [k \in 1 .. 3 |->
                                       IF k = top + 1 THEN @[k] + 1
                                       ELSE IF k > top + 1 /\ k <= x.it.level + 1 THEN 0
                                       ELSE @[k]]]
    IN  IF x.it.level \notin full THEN y
        ELSE load_buf([y EXCEPT !.it.level = IF top = 0 THEN @ + 1 ELSE @], top)

\* operator-- borrows from the level above.
decrement(x) ==
    LET t == Max({t \in 0 .. x.it.level : Ix(x, t) # 0})
        y == [x EXCEPT !.it.ix = [k \in 1 .. 3 |->
                                    IF k = t + 1 THEN @[k] - 1
                                    ELSE IF k > t + 1 /\ k <= x.it.level + 1 THEN Sub(k - 1) - 1
                                    ELSE @[k]]]
        level == IF t > 0 THEN x.it.level
                 ELSE IF Ix(y, 0) < Direct THEN 0 ELSE Ix(y, 0) - (Direct - 1)
    IN  load_buf([y EXCEPT !.it.level = level], t)

\* operator*: the block, in the state that has it.
derefed(x) ==
    LET y == IF x.it.level > 0 /\ x.it.buf[x.it.level] = NoBuf THEN load_buf(x, 0) ELSE x
    IN  IF y.fault = "none" /\ Points(y, y.it.level) = 0 /\ y.it.auto
          THEN Point(y, y.it.level, alloc_block(y)) ELSE y
deref(x) == Points(x, x.it.level)

-----------------------------------------------------------------------------
Ready == tree.fault = "none"

\* resize starts with alloc_iter.
resize(n) ==
    /\ Ready /\ tree.job = "idle" /\ n # tree.blocks
    /\ tree' = [tree EXCEPT !.it = getInstance(tree.blocks, TRUE), !.left = n,
                            !.job = IF n > tree.blocks THEN "grow" ELSE "shrink"]

\* One block more: dereference, which allocates, and step.  A pointer that shrinking
\* has left behind is taken for the block.
grow ==
    /\ Ready /\ tree.job = "grow" /\ tree.blocks # tree.left
    /\ LET x == derefed(tree)
       IN  tree' = IF x.fault # "none" THEN x
                   ELSE IF deref(x) \notin x.used \ tree.used
                     THEN [x EXCEPT !.fault = "reuse"]
                   ELSE increment([x EXCEPT !.list = Append(@, deref(x)),
                                            !.blocks = @ + 1])

\* One block less; the index blocks stay.
shrink ==
    /\ Ready /\ tree.job = "shrink" /\ tree.blocks # tree.left
    /\ LET y == decrement(tree)
           x == IF y.fault = "none" THEN derefed(y) ELSE y
       IN  tree' = IF x.fault # "none" THEN x
                   ELSE [x EXCEPT !.used = @ \ {deref(x)}, !.list = Front(@),
                                  !.blocks = @ - 1]

\* The iterator is destroyed when resize returns.
resized ==
    /\ Ready /\ tree.job # "idle" /\ tree.blocks = tree.left
    /\ tree' = [write_back(tree) EXCEPT !.it = <<>>, !.job = "idle", !.left = 0]

\* The inode is read again: EXT2_Inode clears what is behind the length.
reopen ==
    /\ Ready /\ tree.job = "idle"
    /\ tree' = [tree EXCEPT !.ptr = [k \in DOMAIN @ |-> IF k >= tree.blocks THEN 0 ELSE @[k]]]

\* The disk never gets full.
Next ==
    \/ \E n \in 0 .. MaxFile :
         /\ Cardinality(Blocks \ tree.used) >= MaxFile + 4 - tree.blocks
         /\ resize(n)
    \/ grow \/ shrink \/ resized \/ reopen
Spec == Init /\ [][Next]_tree

-----------------------------------------------------------------------------
\* The k blocks read and write meet from the place of x on.
RECURSIVE Meets(_, _)
Meets(x, k) ==
    IF k = 1 THEN <<deref(x)>> ELSE <<deref(x)>> \o Meets(derefed(increment(x)), k - 1)
Walk(n) == Meets(derefed([tree EXCEPT !.it = getInstance(n, FALSE)]), tree.blocks - n)

\* Whatever a file was grown and shortened by, and whether or not its inode was read
\* again, reading from any block on meets the data blocks of the file in order, and
\* each of them is in use for this file only, up to a fault (getInstance,
\* operator++, operator--, load_buf, write_back).
WalkMeetsFile ==
    Ready /\ tree.job = "idle" =>
      /\ \A n \in 0 .. tree.blocks - 1 : Walk(n) = SubSeq(tree.list, n + 1, tree.blocks)
      /\ IsInjective(tree.list) /\ ToSet(tree.list) \subseteq tree.used

\* block_pos is the number of the block in the buffer, as its declaration says.
BlockPosReal ==
    tree.job # "idle" /\ Ready =>
      \A t \in Levels : tree.it.buf[t] # NoBuf => tree.it.pos[t] = tree.it.from[t]
=============================================================================
