----------------------------- MODULE UserMemory -----------------------------
(***************************************************************************)
(* Address spaces of processes: page tables in memory/page.c, stacks and   *)
(* mem_list in process/process.c, the program loader and the arguments in  *)
(* process/process_helper.cpp and process/elf.c, and the heap in           *)
(* memory/sbrk.c.  An address is a cell number, PageSize cells a page; a   *)
(* table of level 2 covers Per pages and one of level 3 Per of those.      *)
(* Loading a program is one step for each segment, since reading a file    *)
(* lets others run.  Free frames are sets: of one list, those never used   *)
(* go first, as pop_tail and push_head have it.  Where the code writes     *)
(* through a wrong entry, releases what it does not own or fails an        *)
(* assert, the step ends in a fault, which stops the model.                *)
(***************************************************************************)
EXTENDS Integers, Sequences, FiniteSets, FiniteSetsExt, TLC

CONSTANTS
    Procs,          \* processes besides init
    Programs,       \* command lines: [text, found, segs, syms], see exec below
    PageSize, Per,
    LinearStart,    \* page of linear_start, 0x400000
    StackBase,      \* first page tried for a stack, 2 GiB
    NKernel, NNormal,  \* free frames of the two lists
    MaxEnded,       \* bound: kernel processes that may end
    Incs            \* what programs ask of sbrk

VARIABLE um
    \* kfree, nfree  free frames of the two lists    dirty  frames that were used before
    \* space   of a process: tables present, their frames, pages mapped, cells
    \* proc    what there is of a process           fault  what the code has broken

NoProc  == [state |-> "none"]
Spaces  == Procs \cup {"init"}
Cells   == 0 .. StackBase * PageSize - 1
Junk    == 99                   \* what a frame held before
Space   == 101                  \* characters of a command line
Quote   == 102
PtrSize == 2                    \* cells of a pointer, the low one first

Up(n) == (n + PageSize - 1) \div PageSize
Fail(u, what) == [u EXCEPT !.fault = IF @ = "no" THEN what ELSE @]
Fine(u) == u.fault = "no"

\* Kernel frames go back to kfree, frames of users to nfree.
frame_release(u, list, f) ==
    [u EXCEPT ![list] = @ \cup {f}, !.dirty = @ \cup {f}]

\* The frame frame_alloc takes next from a list.
NextOf(u, free) == Min(IF free \subseteq u.dirty THEN free ELSE free \ u.dirty)

\* The first page at or above one that has no entry.
find_virtual_addr(u, s, above) ==
    Min({v \in above .. above + Cardinality(DOMAIN u.space[s].map) :
            v \notin DOMAIN u.space[s].map})

\* A table that is not there is put into a kernel frame, which nothing clears.
AutoAlloc(u, s, table) ==
    IF ~Fine(u) \/ table \in u.space[s].dirs THEN u
    ELSE IF u.kfree = {} THEN Fail(u, "no frame")
    ELSE IF NextOf(u, u.kfree) \in u.dirty THEN Fail(u, "table with old entries")
    ELSE [u EXCEPT !.kfree = @ \ {NextOf(u, @)},
                   !.space[s].dirs = @ \cup {table},
                   !.space[s].tables = @ \cup {NextOf(u, u.kfree)}]

MapPage(u, s, v, f) ==
    IF v \in DOMAIN u.space[s].map THEN Fail(u, "page mapped twice")
    ELSE [u EXCEPT !.space[s].map = (v :> f) @@ @]

\* Walks down from the top, making tables, and sets the entry of page v.
page_table_set_entry(u, s, v, f) ==
    MapPage(AutoAlloc(AutoAlloc(u, s, <<3, v \div (Per * Per)>>), s, <<2, v \div Per>>),
            s, v, f)

RECURSIVE MapFrom(_, _, _, _)
MapFrom(u, s, v, n) ==
    IF n = 0 \/ ~Fine(u) THEN u
    ELSE IF u.nfree = {} THEN Fail(u, "no frame")
    ELSE MapFrom(page_table_set_entry([u EXCEPT !.nfree = @ \ {NextOf(u, @)}], s, v, NextOf(u, u.nfree)),
                 s, v + 1, n - 1)

\* Only the first page is known to be free.
normal_pages_alloc(u, s, above, n) == MapFrom(u, s, find_virtual_addr(u, s, above), n)

normal_page_release(u, s, v) ==
    frame_release([u EXCEPT !.space[s].map = [w \in DOMAIN @ \ {v} |-> @[w]]],
                  "nfree", u.space[s].map[v])

RECURSIVE NextFrames(_, _, _)
NextFrames(u, free, n) ==
    IF n = 0 THEN {}
    ELSE {NextOf(u, free)} \cup NextFrames(u, free \ {NextOf(u, free)}, n - 1)

\* Five tables: the top one, [0], [511], [0][2] over the stacks and [0][2][511].
create_user_page(u, p) ==
    IF Cardinality(u.kfree) < 5 THEN Fail(u, "no frame")
    ELSE [u EXCEPT !.kfree = @ \ NextFrames(u, u.kfree, 5),
                   !.space[p] = [dirs   |-> {<<3, StackBase \div (Per * Per)>>},
                                 tables |-> NextFrames(u, u.kfree, 5),
                                 map    |-> <<>>,
                                 cells  |-> [a \in Cells |-> Junk]]]

\* A stack and a kernel stack, both put on mem_list.
create_thread(u, p) ==
    IF ~Fine(u) \/ u.nfree = {} \/ u.kfree = {} THEN Fail(u, "no frame")
    ELSE page_table_set_entry(
           [u EXCEPT !.nfree = @ \ {NextOf(u, @)}, !.kfree = @ \ {NextOf(u, @)},
                     !.proc[p].stack = find_virtual_addr(u, u.proc[p].space, StackBase),
                     !.proc[p].kstack = NextOf(u, u.kfree)],
           u.proc[p].space, find_virtual_addr(u, u.proc[p].space, StackBase), NextOf(u, u.nfree))

NewProc(type, s, program) ==
    [state |-> IF program = {} THEN "run" ELSE "load", type |-> type, space |-> s,
     lend |-> LinearStart, hend |-> LinearStart * PageSize, stack |-> 0, kstack |-> 0,
     program |-> program, seg |-> 1, handler |-> 0, argc |-> 0, argv |-> 0]

\* A user process gets tables of its own and starts in sys_real_exec; a kernel process
\* runs in the address space of its creator.
create_process(p, type, creator, program) ==
    /\ um.proc[p] = NoProc
    /\ creator \in Procs => um.proc[creator] # NoProc /\ um.proc[creator].state = "run"
    /\ um' = IF type = "user"
             THEN create_thread([create_user_page(um, p) EXCEPT
                                    !.proc[p] = NewProc("user", p, {program})], p)
             ELSE create_thread([um EXCEPT !.proc[p] =
                    NewProc("kernel", IF creator = "init" THEN "init"
                                      ELSE um.proc[creator].space, {})], p)

\* destroy_thread, then destroy_process: for each table the latter also releases the page
\* at VIRTUAL(frame number), which is the first page of the kernel.
destroy_process(u, p) ==
    IF u.proc[p].type = "user" THEN Fail(u, "kernel page released")
    ELSE [u EXCEPT !.proc[p] = NoProc]

destroy_thread(u, p) ==
    destroy_process(
        frame_release(normal_page_release(u, u.proc[p].space, u.proc[p].stack),
                      "kfree", u.proc[p].kstack), p)

do_quit_thread(p) ==
    /\ um.proc[p] # NoProc
    /\ um.proc[p].state = "run"
    /\ um.proc[p].type = "kernel" => Cardinality(um.dirty \cap 1 .. NKernel) < MaxEnded
    /\ um' = destroy_thread(um, p)

The(set) == CHOOSE x \in set : TRUE
Program(u, p) == The(u.proc[p].program)

Mapped(u, p, a) == a \div PageSize \in DOMAIN u.space[p].map

Store(u, p, from, to, value(_)) ==
    [u EXCEPT !.space[p].cells = [a \in Cells |->
        IF a \in from .. to - 1 /\ Mapped(u, p, a) THEN value(a) ELSE @[a]]]

\* Reads p_filesz cells of the file to p_vaddr and clears the rest of p_memsz.
ReadSegment(u, p, g) ==
    Store(Store(u, p, g.vaddr, g.vaddr + g.filesz, LAMBDA a : g.first + a - g.vaddr),
          p, g.vaddr + g.filesz, g.vaddr + g.memsz, LAMBDA a : 0)

Extend(u, p, pages) ==
    [normal_pages_alloc(u, p, u.proc[p].lend, pages) EXCEPT !.proc[p].lend = @ + pages]

load_segmentShort(u, p, g) ==
    ReadSegment(IF g.vaddr + g.memsz > u.proc[p].lend * PageSize
                THEN Extend(u, p, (g.vaddr + g.memsz - u.proc[p].lend * PageSize) \div PageSize)
                ELSE u, p, g)

load_segment(u, p, g) ==
    ReadSegment(IF g.vaddr + g.memsz > u.proc[p].lend * PageSize
                THEN Extend(u, p, Up(g.vaddr + g.memsz - u.proc[p].lend * PageSize))
                ELSE u, p, g)

\* The address of the first symbol with a name, or 0.
RECURSIVE elf_get_symbol(_, _)
elf_get_symbol(syms, name) ==
    IF syms = <<>> THEN 0
    ELSE IF Head(syms).name = name THEN Head(syms).value
    ELSE elf_get_symbol(Tail(syms), name)

\* The end of loading: a program without on_signal keeps the handler of the one before.
EnterProgram(u, p, handler) ==
    IF handler = 0 /\ u.proc[p].handler # 0 THEN Fail(u, "handler of the old program")
    ELSE [u EXCEPT !.proc[p].handler = handler,
                   !.proc[p].hend = u.proc[p].lend * PageSize,
                   !.proc[p].state = "args"]

do_real_exec(p) ==
    /\ um.proc[p].state = "load"
    /\ um' = IF ~Program(um, p).found THEN destroy_thread(um, p)
             ELSE IF um.proc[p].seg > Len(Program(um, p).segs)
             THEN EnterProgram(um, p, elf_get_symbol(Program(um, p).syms, "on_signal"))
             ELSE [load_segment(um, p, Program(um, p).segs[um.proc[p].seg])
                     EXCEPT !.proc[p].seg = @ + 1]

\* A program replaces itself; pages of the old one stay.
do_exec(p, program) ==
    /\ um.proc[p].state = "run" /\ um.proc[p].type = "user"
    /\ um' = [um EXCEPT !.proc[p].program = {program}, !.proc[p].seg = 1,
                        !.proc[p].state = "load"]

\* The heap end moves by inc.  Shrinking by a page or more hands the number of pages to
\* normal_pages_release as the page table.
SetHeap(u, p, heap) ==
    IF heap > u.proc[p].lend * PageSize
    THEN IF find_virtual_addr(u, p, u.proc[p].lend) # u.proc[p].lend
         THEN Fail(u, "assert new_mem == linear_end")
         ELSE [Extend(u, p, Up(heap - u.proc[p].lend * PageSize)) EXCEPT !.proc[p].hend = heap]
    ELSE IF u.proc[p].lend * PageSize - heap >= PageSize THEN Fail(u, "arguments swapped")
    ELSE [u EXCEPT !.proc[p].hend = heap]

sbrk(u, p, inc) == SetHeap(u, p, u.proc[p].hend + inc)

do_sbrk(p, inc) ==
    /\ um.proc[p].state = "run" /\ um.proc[p].type = "user"
    /\ um' = sbrk(um, p, inc)

\* Skips one argument, with what is between quotes, then clears the blanks after it.
RECURSIVE EndQuote(_, _)
EndQuote(c, a) == IF c[a] = Quote THEN a ELSE EndQuote(c, a + 1)

RECURSIVE EndWord(_, _)
EndWord(c, a) ==
    IF c[a] \in {0, Space} THEN a
    ELSE EndWord(c, (IF c[a] = Quote THEN EndQuote(c, a + 1) ELSE a) + 1)

RECURSIVE EndBlanks(_, _)
EndBlanks(c, a) == IF c[a] = Space THEN EndBlanks(c, a + 1) ELSE a

Clear(u, p, from) ==
    Store(u, p, from, EndBlanks(u.space[p].cells, from), LAMBDA a : 0)

Pointer(to, i) == IF i = 0 THEN to % PageSize ELSE to \div PageSize

\* One more pointer at the end of the heap.
PutArg(u, p, to) ==
    [Store(sbrk(u, p, PtrSize), p, u.proc[p].hend, u.proc[p].hend + PtrSize,
           LAMBDA a : Pointer(to, a - u.proc[p].hend))
        EXCEPT !.proc[p].argc = @ + 1,
               !.proc[p].argv = IF u.proc[p].argc = 0 THEN u.proc[p].hend ELSE @]

AfterWord(u, p, a) == EndBlanks(u.space[p].cells, EndWord(u.space[p].cells, a))

\* The text has no zero at its end: the low cell of the first pointer is read instead.
RECURSIVE SplitArgs(_, _, _)
SplitArgs(u, p, a) ==
    IF ~Fine(u) \/ u.space[p].cells[a] = 0 THEN u
    ELSE IF ~Fine(sbrk(u, p, PtrSize)) THEN sbrk(u, p, PtrSize)
    ELSE SplitArgs(Clear(PutArg(u, p, a), p, EndWord(PutArg(u, p, a).space[p].cells, a)),
                   p, AfterWord(PutArg(u, p, a), p, a))

CopyText(u, p, text) ==
    Store(sbrk(u, p, Len(text)), p, u.proc[p].hend, u.proc[p].hend + Len(text),
          LAMBDA a : text[a - u.proc[p].hend + 1])

build_argsText(u, p) == SplitArgs(CopyText(u, p, Program(u, p).text), p, u.proc[p].hend)

\* crt0 calls it before anything else of the program has run.
do_build_args(p) ==
    /\ um.proc[p].state = "args"
    /\ um' = [build_argsText([um EXCEPT !.proc[p].argc = 0], p) EXCEPT !.proc[p].state = "run"]

Init ==
    um = [kfree |-> 1 .. NKernel,
          nfree |-> NKernel + 1 .. NKernel + NNormal,
          dirty |-> {}, fault |-> "no",
          space |-> [s \in Spaces |-> [dirs |-> {}, tables |-> {}, map |-> <<>>,
                                       cells |-> [a \in Cells |-> Junk]]],
          proc |-> [p \in Procs |-> NoProc]]

Live(p) == um.proc[p] # NoProc

Next ==
    /\ Fine(um)
    /\ \E p \in Procs :
        \/ \E program \in Programs : create_process(p, "user", "init", program)
        \/ \E creator \in (Procs \ {p}) \cup {"init"} : create_process(p, "kernel", creator, {})
        \/ Live(p) /\ do_real_exec(p)
        \/ Live(p) /\ \E program \in Programs : do_exec(p, program)
        \/ Live(p) /\ \E inc \in Incs : do_sbrk(p, inc)
        \/ Live(p) /\ do_build_args(p)
        \/ do_quit_thread(p)

-----------------------------------------------------------------------------
Running == {p \in Procs : Live(p) /\ um.proc[p].type = "user" /\ um.proc[p].state = "run"}

\* How often a frame is free, mapped, a table or a kernel stack.
UsesOf(f) ==
    Cardinality({f} \cap um.kfree) + Cardinality({f} \cap um.nfree)
    + Cardinality({x \in UNION {{<<s, v>> : v \in DOMAIN um.space[s].map} : s \in Spaces} :
                      um.space[x[1]].map[x[2]] = f})
    + Cardinality({s \in Spaces : f \in um.space[s].tables})
    + Cardinality({p \in Procs : Live(p) /\ um.proc[p].kstack = f})

\* The program's cells and its zeros, wherever a later segment does not cover them.
ImageLoaded(p) ==
    \A i \in DOMAIN Program(um, p).segs :
        \A a \in Program(um, p).segs[i].vaddr ..
                 Program(um, p).segs[i].vaddr + Program(um, p).segs[i].memsz - 1 :
            /\ Mapped(um, p, a)
            /\ um.space[p].cells[a] =
                   IF a < Program(um, p).segs[i].vaddr + Program(um, p).segs[i].filesz
                   THEN Program(um, p).segs[i].first + a - Program(um, p).segs[i].vaddr
                   ELSE 0

\* The arguments a reader of the command line would expect.
RECURSIVE Words(_, _, _, _)
Words(text, done, word, quoted) ==
    IF text = <<>> THEN IF word = <<>> THEN done ELSE Append(done, word)
    ELSE IF Head(text) = Space /\ ~quoted
    THEN Words(Tail(text), IF word = <<>> THEN done ELSE Append(done, word), <<>>, FALSE)
    ELSE Words(Tail(text), done, Append(word, Head(text)), (Head(text) = Quote) # quoted)

RECURSIVE StringAt(_, _)
StringAt(c, a) == IF c[a] = 0 THEN <<>> ELSE <<c[a]>> \o StringAt(c, a + 1)

Arg(p, i) ==
    StringAt(um.space[p].cells,
             um.space[p].cells[um.proc[p].argv + (i - 1) * PtrSize]
             + PageSize * um.space[p].cells[um.proc[p].argv + (i - 1) * PtrSize + 1])

\* What create_process, the program loader and do_sbrk build up: until the code breaks
\* something, every frame has exactly one use and none is lost, the pages from
\* linear_start to linear_end are mapped with the heap's end in the last of them, a
\* running program finds its segments with zeros behind them, its own signal handler, and
\* its arguments, each ended by a zero.
UserMemorySound ==
    Fine(um) =>
        /\ \A f \in 1 .. NKernel + NNormal : UsesOf(f) = 1
        /\ \A p \in Running :
             /\ LinearStart .. um.proc[p].lend - 1 \subseteq DOMAIN um.space[p].map
             /\ um.proc[p].lend * PageSize - um.proc[p].hend \in 0 .. PageSize - 1
             /\ ImageLoaded(p)
             /\ um.proc[p].handler = elf_get_symbol(Program(um, p).syms, "on_signal")
             /\ [i \in 1 .. um.proc[p].argc |-> Arg(p, i)]
                  = Words(Program(um, p).text, <<>>, <<>>, FALSE)
=============================================================================
