-------------------------------- MODULE Ext2 --------------------------------
(***************************************************************************)
(* The ext2 file system, fs/ext2/: bitmaps and counters in memory and on   *)
(* the disk, inodes, the tree of directory entries, open files.  The       *)
(* calls of the kernel run one after the other, so an operation is one     *)
(* step; operators that take a state s return the state the function       *)
(* leaves behind.  Files stay below the twelve direct blocks and a         *)
(* directory is one block; the disk keeps what is written to it.  Where    *)
(* the code goes on with a wrong pointer, a wrong block or the name of an  *)
(* inode that was given back, the step ends in a fault, which stops the    *)
(* model.                                                                  *)
(***************************************************************************)
EXTENDS Integers, Sequences, SequencesExt, FiniteSets, FiniteSetsExt

CONSTANTS
    Names, Dirs, \* names of files and of directories in the root
    NInodes,     \* inodes_per_group of the one group
    NBlocks,     \* blocks of the group that hold data
    BlockSize,   \* units of data in a block
    MaxBlocks,   \* blocks of the largest file, at most 11
    DirCap,      \* entries that fit in the block of a directory
    Handles      \* open files of the kernel

VARIABLE fs
    \* disk   meta, inode and data on the disk    meta   the same, in memory
    \* dent   the EXT2_DEntries, by path          file   the EXT2_Files
    \* left   names whose file the system call has unlinked   fault  what is broken, or "none"

Inos   == 1 .. NInodes
Blocks == 1 .. NBlocks
Root   == <<>>
Paths  == {Root} \cup {<<n>> : n \in Names \cup Dirs} \cup (Dirs \X Names)
NoInode  == [type |-> "none", links |-> 0, size |-> 0, blocks |-> 0, ptr |-> <<>>]
NoFile   == [path |-> Root, pos |-> 0, size |-> 0, live |-> FALSE]
NullPtrs == [k \in 1 .. MaxBlocks + 1 |-> 0]
Blank    == [list |-> <<>>, unit |-> [k \in 0 .. BlockSize - 1 |-> <<0, 0>>]]

\* EXT2_DEntry(fs, parent, inode_n, type, name)
NewEntry(up, ino, type) ==
    [ino |-> ino, type |-> type, up |-> up, copy |-> NoInode, sync |-> TRUE,
     kids |-> <<>>, loaded |-> FALSE, removed |-> FALSE]

\* mount: superblock and descriptors are read, the bitmaps when first needed.
Mounted(disk) ==
    [disk |-> disk, meta |-> disk.meta, file |-> [h \in Handles |-> NoFile],
     dent |-> [p \in {Root} |-> NewEntry(Root, 1, "dir")], left |-> {}, fault |-> "none"]

\* The image mkfs.ext2 makes: a root directory in the first block.
Image ==
    [meta |-> [sbBlocks |-> NBlocks - 1, sbInodes |-> NInodes - 1, dirs |-> 1,
               gdBlocks |-> NBlocks - 1, gdInodes |-> NInodes - 1,
               blockMap |-> {1}, inodeMap |-> {1}],
     inode |-> [i \in Inos |-> IF i # 1 THEN NoInode ELSE
                  [type |-> "dir", links |-> 2, size |-> BlockSize, blocks |-> 1,
                   ptr |-> [NullPtrs EXCEPT ![1] = 1]]],
     data |-> [b \in Blocks |-> Blank]]

Fault(s, f) == [s EXCEPT !.fault = IF @ = "none" THEN f ELSE @]
FaultIf(cond, s, f) == IF cond THEN Fault(s, f) ELSE s

-----------------------------------------------------------------------------
(* Allocation: ext2_fs.cpp and ext2_group_descriptor.cpp.                  *)

\* The n lowest clear bits of a bitmap, fewer when there are fewer.
lowest_0(map, all, n) ==
    LET clear == SetToSortSeq(all \ map, <)
    IN  SubSeq(clear, 1, IF n < Len(clear) THEN n ELSE Len(clear))

alloc_inode(s) ==
    LET got == lowest_0(s.meta.inodeMap, Inos, IF s.meta.gdInodes = 0 THEN 0 ELSE 1)
    IN  [num   |-> IF got = <<>> THEN 0 ELSE got[1],
         state |-> [s EXCEPT !.meta.inodeMap = @ \cup ToSet(got),
                             !.meta.gdInodes = @ - Len(got),
                             !.meta.sbInodes = @ - Len(got)]]
alloc_blocksNoMark(s, n) ==
    LET got == lowest_0(s.meta.blockMap, Blocks,
                        IF n < s.meta.gdBlocks THEN n ELSE s.meta.gdBlocks)
    IN  [nums  |-> got,
         state |-> [s EXCEPT !.meta.gdBlocks = @ - Len(got), !.meta.sbBlocks = @ - Len(got)]]
alloc_blocks(s, n) ==
    LET got == lowest_0(s.meta.blockMap, Blocks,
                        IF n < s.meta.gdBlocks THEN n ELSE s.meta.gdBlocks)
    IN  [nums  |-> got,
         state |-> [s EXCEPT !.meta.blockMap = @ \cup ToSet(got),
                             !.meta.gdBlocks = @ - Len(got),
                             !.meta.sbBlocks = @ - Len(got)]]

\* The group of the last inode is computed one too high.
release_inode(s, i) ==
    FaultIf(i \div NInodes > 0,
            [s EXCEPT !.meta.inodeMap = @ \ {i}, !.meta.gdInodes = @ + 1,
                      !.meta.sbInodes = @ + 1], "group")
release_blocksGroupOnly(s, bs) ==
    [s EXCEPT !.meta.blockMap = @ \ bs, !.meta.gdBlocks = @ + Cardinality(bs)]
release_blocks(s, bs) ==
    [s EXCEPT !.meta.blockMap = @ \ bs, !.meta.gdBlocks = @ + Cardinality(bs),
              !.meta.sbBlocks = @ + Cardinality(bs)]

write_super(s) ==
    [s EXCEPT !.disk.meta.sbBlocks = s.meta.sbBlocks,
              !.disk.meta.sbInodes = s.meta.sbInodes]
write_gdt(s) ==
    [s EXCEPT !.disk.meta = [s.meta EXCEPT !.sbBlocks = s.disk.meta.sbBlocks,
                                           !.sbInodes = s.disk.meta.sbInodes]]

-----------------------------------------------------------------------------
(* Inodes: ext2_inode.cpp.                                                 *)

\* EXT2_Inode(fs, n, i): pointers past the length are cleared.
FromDisk(s, i) ==
    LET d == s.disk.inode[i]
    IN  IF d.type = "link" THEN d
        ELSE [d EXCEPT !.ptr = [k \in DOMAIN NullPtrs |->
                                  IF k <= d.blocks THEN d.ptr[k] ELSE 0]]

write_inode(s, p) == [s EXCEPT !.disk.inode[s.dent[p].ino] = s.dent[p].copy]

\* An inode object that is deleted leaves its open files without one.
Unhook(s, p) == [h \in Handles |-> IF s.file[h].path = p
                                     THEN [s.file[h] EXCEPT !.live = FALSE]
                                     ELSE s.file[h]]

inflate(s, p) ==
    IF s.dent[p].copy # NoInode /\ ~s.dent[p].sync THEN s
    ELSE [s EXCEPT !.dent[p].copy = FromDisk(s, s.dent[p].ino),
                   !.dent[p].sync = FALSE,
                   !.file = IF s.dent[p].copy = NoInode THEN @ ELSE Unhook(s, p)]

\* Every entry has a copy of its inode: with several names they differ.
Same(a, b) ==
    /\ a.links = b.links /\ a.size = b.size /\ a.blocks = b.blocks
    /\ \A k \in 1 .. a.blocks : a.ptr[k] = b.ptr[k]
Stale(s, p) ==
    /\ s.dent[p].copy # NoInode
    /\ ~Same(s.dent[p].copy, s.disk.inode[s.dent[p].ino])

-----------------------------------------------------------------------------
(* Files: ext2_file.cpp.                                                   *)

\* resize of the file of p.  Growing keeps pointers that are not null, shrinking
\* keeps the pointers of the blocks it releases.
resize(s, p, size) ==
    LET c      == s.dent[p].copy
        target == (size + BlockSize - 1) \div BlockSize
        more   == (c.blocks + 1) .. target
        less   == (target + 1) .. c.blocks
        got    == alloc_blocks(s, Cardinality({k \in more : c.ptr[k] = 0}))
        ptrs   == [k \in DOMAIN c.ptr |-> IF k \in more /\ k - c.blocks <= Len(got.nums)
                                            THEN got.nums[k - c.blocks] ELSE c.ptr[k]]
        sized  == [c EXCEPT !.size = size, !.blocks = target, !.ptr = ptrs]
        moved  == IF more # {} THEN got.state
                  ELSE release_blocks(s, {c.ptr[k] : k \in less})
        kept   == write_inode([moved EXCEPT !.dent[p].copy = sized], p)
    IN  CASE target = c.blocks                 -> kept
          [] \E k \in more : c.ptr[k] # 0      -> Fault(s, "reuse")
          [] \E k \in 1 .. target : ptrs[k] = 0 -> Fault(s, "super")
          [] OTHER                             -> write_super(write_gdt(kept))

\* The units from `from' to `to' - 1 of the file of p, written to their blocks.
Written(s, p, from, to) ==
    LET c == s.dent[p].copy
        Touched(b) == {k \in from .. to - 1 : c.ptr[k \div BlockSize + 1] = b}
    IN  [s EXCEPT !.disk.data = [b \in Blocks |->
           [@[b] EXCEPT !.unit = [j \in DOMAIN @ |->
              IF \E k \in Touched(b) : k % BlockSize = j
                THEN <<s.dent[p].ino, CHOOSE k \in Touched(b) : k % BlockSize = j>>
                ELSE @[j]]]]]

\* write: the file ends where the write ends, also when it was longer.
file_write(s, p, pos, len) ==
    LET r == resize(s, p, pos + len)
    IN  IF r.fault # "none" THEN r ELSE Written(r, p, pos, pos + len)

-----------------------------------------------------------------------------
(* Directory entries: ext2_dentry.cpp.  "." and ".." are always the first  *)
(* two entries and are left out.                                           *)

Kid(p, n) == Append(p, n)
Block(s, p) == s.dent[p].copy.ptr[1]

load_children(s, p) ==
    IF s.dent[p].copy # NoInode /\ s.dent[p].loaded THEN s
    ELSE LET t     == inflate(s, p)
             list  == t.disk.data[Block(t, p)].list
             found == {Kid(p, list[k].name) : k \in DOMAIN list}
             Of(q) == list[CHOOSE k \in DOMAIN list : Kid(p, list[k].name) = q]
         IN  [t EXCEPT !.dent = [q \in DOMAIN t.dent \cup found |->
                           IF q \in DOMAIN t.dent THEN t.dent[q]
                           ELSE NewEntry(p, Of(q).ino, Of(q).type)],
                       !.dent[p].kids = [k \in DOMAIN list |-> list[k].name],
                       !.dent[p].loaded = TRUE]

\* The children are written one after the other; the last one fills the block,
\* and its length wraps around when they do not fit.  The last one is told by the
\* size of the list, which a removal does not lower: then none is padded, and the
\* directory ends inside its block.
Length(d) == IF d.removed THEN BlockSize - 1 ELSE BlockSize
write_children(s, p) ==
    LET d    == s.dent[p]
        list == [k \in DOMAIN d.kids |->
                   [name |-> d.kids[k], ino  |-> s.dent[Kid(p, d.kids[k])].ino,
                                        type |-> s.dent[Kid(p, d.kids[k])].type]]
    IN  IF Len(d.kids) > DirCap THEN Fault(s, "dirfull")
        ELSE write_inode([s EXCEPT !.disk.data[Block(s, p)].list = list,
                                   !.dent[p].copy.size = Length(d)], p)

\* children.push_back(new EXT2_DEntry)
WithChild(s, p, n, entry) ==
    [s EXCEPT !.dent = [q \in DOMAIN @ \cup {Kid(p, n)} |->
                          IF q = Kid(p, n) THEN entry ELSE @[q]],
              !.dent[p].kids = Append(@, n)]
Inode(type, links, block) ==
    [type |-> type, links |-> links, size |-> IF type = "dir" THEN BlockSize ELSE 0,
     blocks |-> IF type = "dir" THEN 1 ELSE 0, ptr |-> [NullPtrs EXCEPT ![1] = block]]

mkdir(s, p, n) ==
    LET i   == alloc_inode(s)
        b   == alloc_blocks([i.state EXCEPT !.meta.dirs = @ + 1], 1)
        t   == load_children(b.state, p)
        new == [NewEntry(p, i.num, "dir") EXCEPT !.copy = Inode("dir", 2, b.nums[1])]
        u   == write_children(write_inode(WithChild(t, p, n, new), Kid(p, n)), p)
        v   == write_inode([u EXCEPT !.dent[p].copy.links = @ + 1], p)
        w   == [v EXCEPT !.disk.data[b.nums[1]].list = <<>>]
    IN  CASE i.num = 0     -> Fault(s, "null")
          [] b.nums = <<>> -> Fault(s, "super")
          [] OTHER         -> write_super(write_gdt(w))

create(s, p, n, type) ==
    LET i   == alloc_inode(inflate(s, p))
        new == [NewEntry(p, i.num, type) EXCEPT !.copy = Inode(type, 1, 0)]
        t   == [i.state EXCEPT !.disk.inode[i.num] = new.copy]
        u   == write_children(WithChild(load_children(t, p), p, n, new), p)
    IN  IF i.num = 0 THEN Fault(s, "assert") ELSE write_super(write_gdt(u))

\* unlink(): the last name releases blocks and inode, of a directory the last but
\* one.
unlink_selfKeepsInode(s, p) ==
    LET t    == inflate(s, p)
        left == t.dent[p].copy.links - 1
        u    == [t EXCEPT !.dent[p].copy.links = left]
    IN  write_inode(u, p)
unlink_self(s, p) ==
    LET t    == inflate(s, p)
        left == t.dent[p].copy.links - 1
        u    == [t EXCEPT !.dent[p].copy.links = left]
        gone == left = 0 \/ (t.dent[p].type = "dir" /\ left = 1)
        v    == release_inode([resize(u, p, 0) EXCEPT !.dent[p].copy.links = 0],
                              t.dent[p].ino)
    IN  CASE Stale(t, p)                 -> Fault(t, "stale")
          [] t.dent[p].copy.links = 0    -> t
          [] gone                        -> write_inode(write_super(write_gdt(v)), p)
          [] OTHER                       -> write_inode(u, p)

\* unlink(d): the entry is deleted together with the entries below it.
Below(s, p) == {q \in DOMAIN s.dent : IsPrefix(p, q)}
Without(s, up, name, gone) ==
    [s EXCEPT !.dent = [q \in DOMAIN @ \ gone |-> @[q]],
              !.dent[up].kids = SelectSeq(@, LAMBDA n : n # name), !.dent[up].removed = TRUE,
              !.file = [h \in Handles |-> IF @[h].path \in gone
                                             THEN [@[h] EXCEPT !.live = FALSE] ELSE @[h]]]
OneDirLess(s, up) ==
    write_gdt(write_inode([s EXCEPT !.dent[up].copy.links = @ - 1, !.meta.dirs = @ - 1], up))
TakeOut(s, p) == write_children(Without(s, Front(p), Last(p), Below(s, p)), Front(p))
HasEntries(s, p) ==
    s.dent[p].type = "dir" /\ s.disk.data[s.disk.inode[s.dent[p].ino].ptr[1]].list # <<>>
unlink(s, p) ==
    LET t == load_children(s, Front(p))
        u == IF s.dent[p].type = "dir" THEN OneDirLess(t, Front(p)) ELSE t
    IN  FaultIf(HasEntries(s, p), TakeOut(unlink_self(u, p), p), "lost")

\* The system call: the entry of the parent stays, in memory and on the disk, and so
\* do the counts of a directory.
do_unlink(s, p) ==
    LET t == load_children(s, Front(p))
    IN  [FaultIf(HasEntries(t, p), unlink_self(t, p), "lost") EXCEPT
           !.left = @ \cup {[dir |-> t.dent[Front(p)].ino, name |-> Last(p), path |-> p,
                             type |-> t.dent[p].type]}]

\* link: a new entry in the directory d, whose parent is the one of p.
link(s, p, d, n) ==
    LET new == NewEntry(s.dent[p].up, s.dent[p].ino, s.dent[p].type)
        t   == inflate(write_children(WithChild(load_children(s, d), d, n, new), d), p)
        u   == write_inode([t EXCEPT !.dent[p].copy.links = @ + 1], p)
    IN  CASE s.dent[p].type = "dir" -> s
          [] Stale(t, p)            -> Fault(t, "stale")
          [] OTHER                  -> u

-----------------------------------------------------------------------------
(* The calls.                                                              *)

\* The state after a call.  What free blocks and free inodes still hold is not told
\* apart, nobody reads it, and nothing is claimed of the state behind a fault.
Forget(s) ==
    [s EXCEPT !.disk.data = [b \in Blocks |-> IF b \in s.disk.meta.blockMap THEN @[b] ELSE Blank],
              !.disk.inode = [i \in Inos |-> IF i \in s.disk.meta.inodeMap THEN @[i] ELSE NoInode]]
Ready   == fs.fault = "none"
Ends(s) == fs' = IF s.fault = "none" THEN Forget(s)
                 ELSE [Mounted(Image) EXCEPT !.fault = s.fault]
Has(p)  == p \in DOMAIN fs.dent
Dir(p)  == Has(p) /\ fs.dent[p].type = "dir"
File(p) == Has(p) /\ fs.dent[p].type # "dir"
\* A call by these paths.  Behind a name that was left the inode may be gone or be
\* another file's.
Left(p) == \E l \in fs.left : IsPrefix(l.path, p)
By(ps, s) == Ends(IF \E p \in ps : Left(p) THEN Fault(fs, "left") ELSE s)
\* A name that is free; the callers look before they create.
Kids(p) == LET d == load_children(fs, p).dent[p] IN {d.kids[k] : k \in DOMAIN d.kids}
Fresh(p, n) == Dir(p) /\ (~Left(p) => n \notin Kids(p))

Remount == Ready /\ Ends([Mounted(fs.disk) EXCEPT !.left = fs.left])
GetChild(p) == Ready /\ Dir(p) /\ By({p}, load_children(fs, p))
Mkdir(p, n) == Ready /\ Fresh(p, n) /\ By({p}, mkdir(fs, p, n))
Create(p, n) == Ready /\ Fresh(p, n) /\ By({p}, create(fs, p, n, "file"))
Link(p, d, n) == Ready /\ File(p) /\ Fresh(d, n) /\ By({p, d}, link(fs, p, d, n))
Unlink(p) == Ready /\ Has(p) /\ p # Root /\ By({p}, unlink(fs, p))
SysUnlink(p, n) ==
    /\ Ready /\ Dir(p) /\ (~Left(p) => n \in Kids(p))
    /\ By({Kid(p, n)}, do_unlink(fs, Kid(p, n)))

\* move: for a directory link refuses, and the directory is deleted all the same.
Move(p, d, n) ==
    /\ Ready /\ Has(p) /\ p # Root /\ Fresh(d, n) /\ ~IsPrefix(p, d)
    /\ By({p, d}, IF fs.dent[p].up # Front(p) THEN Fault(fs, "parent")
                  ELSE unlink(link(fs, p, d, n), p))

\* symlink: printed_path always gives the same text, kept in the pointers.
Symlink(p, n) ==
    /\ Ready /\ Fresh(p, n)
    /\ LET s == create(fs, p, n, "link")
       IN  By({p}, IF s.fault # "none" THEN s
                   ELSE write_children(write_inode(
                          [s EXCEPT !.dent[Kid(p, n)].copy.size = 1], Kid(p, n)), p))

\* open(): a symbolic link is followed to nowhere.
Opened(s, p) == IF s.dent[p].copy = NoInode THEN inflate(s, p) ELSE s
open(s, p, h) ==
    CASE s.dent[p].type = "link" -> Fault(s, "null")
      [] s.dent[p].type # "link" /\ Stale(s, p) -> Fault(s, "stale")
      [] OTHER -> [s EXCEPT !.file[h] = [path |-> p, pos |-> 0, live |-> TRUE,
                                         size |-> s.dent[p].copy.size]]
OpenFile(p, h) == Ready /\ File(p) /\ ~fs.file[h].live /\ By({p}, open(Opened(fs, p), p, h))

\* copy: create, read all, write all.
copy_data(s, p, q) ==
    IF Stale(s, p) THEN Fault(s, "stale") ELSE file_write(s, q, 0, s.dent[p].copy.size)
copy(s, p, q) ==
    IF s.fault # "none" THEN s
    ELSE IF s.dent[p].type = "link" THEN Fault(s, "null")
    ELSE copy_data(Opened(s, p), p, q)
Copy(p, d, n) ==
    Ready /\ File(p) /\ Fresh(d, n) /\ By({p, d}, copy(create(fs, d, n, "file"), p, Kid(d, n)))

Usable(h) == fs.file[h].path # Root
Broken(h) ==
    LET f == fs.file[h]
    IN  ~f.live \/ f.size # fs.dent[f.path].copy.size \/ Stale(fs, f.path)
Write(h, len) ==
    /\ Ready /\ Usable(h) /\ fs.file[h].pos + len <= MaxBlocks * BlockSize
    /\ LET f == fs.file[h]
       IN  By({f.path}, IF Broken(h) THEN Fault(fs, "file")
                 ELSE [file_write(fs, f.path, f.pos, len) EXCEPT
                         !.file[h].pos = @ + len, !.file[h].size = f.pos + len])
Read(h, len) ==
    /\ Ready /\ Usable(h)
    /\ LET f == fs.file[h]
       IN  By({f.path}, IF Broken(h) THEN Fault(fs, "file")
                 ELSE [fs EXCEPT !.file[h].pos = Min({f.pos + len, f.size})])
Seek(h, pos) ==
    /\ Ready /\ Usable(h) /\ pos <= fs.file[h].size
    /\ Ends([fs EXCEPT !.file[h].pos = pos])
Close(h) == Ready /\ Usable(h) /\ Ends([fs EXCEPT !.file[h] = NoFile])

Init == fs = Mounted(Image)
Next ==
    \/ Remount
    \/ \E p \in Paths :
         \/ GetChild(p) \/ Unlink(p)
         \/ \E n \in Names \cup Dirs : SysUnlink(p, n)
         \/ \E n \in Names : Create(p, n) \/ Symlink(p, n)
         \/ \E n \in Dirs : p = Root /\ Mkdir(p, n)
         \/ \E h \in Handles : OpenFile(p, h)
         \/ \E d \in Paths, n \in Names : Link(p, d, n) \/ Move(p, d, n) \/ Copy(p, d, n)
    \/ \E h \in Handles :
         \/ \E len \in 1 .. BlockSize + 1 : Write(h, len) \/ Read(h, len)
         \/ \E pos \in 0 .. MaxBlocks * BlockSize : Seek(h, pos)
         \/ Close(h)
Spec == Init /\ [][Next]_fs

-----------------------------------------------------------------------------
disk == fs.disk
UsedInodes == disk.meta.inodeMap
Owned(i) == {disk.inode[i].ptr[k] : k \in 1 .. disk.inode[i].blocks}
Entries == UNION {{<<i, k>> : k \in DOMAIN disk.data[disk.inode[i].ptr[1]].list} :
                    i \in {i \in UsedInodes : disk.inode[i].type = "dir"}}
EntryAt(e) == disk.data[disk.inode[e[1]].ptr[1]].list[e[2]]
SubDirs(i) == {e \in Entries : e[1] = i /\ EntryAt(e).type = "dir"}
IsLeft(e)  == \E l \in fs.left : l.dir = e[1] /\ l.name = EntryAt(e).name
NamesOf(i) == {e \in Entries : EntryAt(e).ino = i /\ ~IsLeft(e)}

\* What memory holds is on the disk after every call, the counters of superblock
\* and group agree with the bitmaps and with the directories there are, those the
\* system call unlinked included, and an entry in memory lists what its directory
\* lists (write_gdt, write_super, write_children at the end of every operation).
DiskIsCurrent ==
    Ready =>
      /\ fs.meta = disk.meta
      /\ disk.meta.sbBlocks = NBlocks - Cardinality(disk.meta.blockMap)
      /\ disk.meta.sbInodes = NInodes - Cardinality(UsedInodes)
      /\ disk.meta.gdBlocks = disk.meta.sbBlocks /\ disk.meta.gdInodes = disk.meta.sbInodes
      /\ disk.meta.dirs = Cardinality({i \in UsedInodes : disk.inode[i].type = "dir"})
                           + Cardinality({l \in fs.left : l.type = "dir"})
      /\ \A p \in DOMAIN fs.dent : fs.dent[p].loaded /\ ~Left(p) =>
           fs.dent[p].kids = [k \in DOMAIN disk.data[Block(fs, p)].list |->
                                disk.data[Block(fs, p)].list[k].name]

\* The disk passes a check of the file system after every call but for the names the
\* system call leaves behind: a block in use belongs to exactly one file, an inode in
\* use has as many names as links, and every name is the name of an inode in use of
\* its type (unlink, do_unlink, link, mkdir).
FsckClean ==
    Ready =>
      /\ UNION {Owned(i) : i \in UsedInodes} = disk.meta.blockMap
      /\ \A i, j \in UsedInodes : i # j => Owned(i) \cap Owned(j) = {}
      /\ \A i \in UsedInodes : Cardinality(Owned(i)) = disk.inode[i].blocks
      /\ \A e \in Entries : ~IsLeft(e) => /\ EntryAt(e).ino \in UsedInodes
                                          /\ disk.inode[EntryAt(e).ino].type = EntryAt(e).type
      /\ \A l \in fs.left : \E e \in Entries : e[1] = l.dir /\ EntryAt(e).name = l.name
      /\ \A i \in UsedInodes :
           disk.inode[i].links =
             IF disk.inode[i].type = "dir" THEN 2 + Cardinality(SubDirs(i))
             ELSE Cardinality(NamesOf(i))

\* Every unit of a file on the disk is the one last written there, whatever other
\* files were written, shortened and deleted before (EXT2_File::write, resize).
ContentsKept ==
    Ready =>
      \A i \in UsedInodes : disk.inode[i].type = "file" =>
        \A k \in 0 .. disk.inode[i].size - 1 :
          disk.data[disk.inode[i].ptr[k \div BlockSize + 1]].unit[k % BlockSize] = <<i, k>>
=============================================================================
