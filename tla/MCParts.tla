------------------------------ MODULE MCParts ------------------------------
(***************************************************************************)
(* A bench for the parts of the system that share no state in the model:   *)
(* each behaviour chooses one of them and runs it on a small instance.     *)
(* What a part needs of the others is in its own module; a part that is    *)
(* not chosen has the value 0 in its variable.  Tables of inputs with      *)
(* their results are constants, so that TLC computes them once.            *)
(***************************************************************************)
EXTENDS Integers, Sequences

CONSTANTS PathCases, FormatCases, HandlerCases, MeantCases, CastCases

VARIABLES part, ipc, sig, tree, blk, ahci, path, ft, kbd, eh, fm, pf, um, cx

-----------------------------------------------------------------------------
I == INSTANCE Ipc WITH Senders <- {"s1", "s2"}, Reader <- "r", Sizes <- {0, 1}, TicketMod <- 4

S == INSTANCE Signals WITH Procs <- {"p1", "p2"}, Able <- {"p1"}, Items <- {"i1", "i2"},
                           Wrappers <- {"w1", "w2"}

T == INSTANCE Ext2Iterator WITH Direct <- 2, Per <- 2, NBlocks <- 14, MaxFile <- 7

B == INSTANCE BlockCache WITH Sectors <- {"s1", "s2", "s3"}, PoolSize <- 2

A == INSTANCE Ahci WITH Callers <- {"c1", "c2"}, Ports <- {1, 2}, Lbas <- {"s1", "s2"},
                        Kinds <- {"absent", "asleep", "ata", "atapi", "semb", "pm", "?"}

F == INSTANCE Files WITH Procs <- {"p1", "p2"}, NFds <- 3, Opened <- {"o1"}, BufSizes <- {2, 4},
       PathNames <- {[abs |-> TRUE, segs |-> <<"d", "f">>], [abs |-> FALSE, segs |-> <<".", "d">>],
                     [abs |-> FALSE, segs |-> <<"..", "d", "f">>]}

K == INSTANCE Keyboard WITH MaxTyped <- 4,
       Keys <- {"KEY_A", "KEY_ENTER", "KEY_LEFTSHIFT", "KEY_RIGHT", "KEY_PRTSC", "KEY_PAUSE"}

Boot == INSTANCE PlatformInputs
Z == INSTANCE Platform WITH Legacy <- 3, MaxApics <- 4, MaxCpus <- 64,
                            Firmwares <- Boot!PfFirmwares

C == INSTANCE CxxRuntime WITH Threads <- {"t1", "t2"}, Pool <- {1, 2}, Dsos <- {"a", "b"},
                              MaxReg <- 3

\* Command lines: one program with two segments and a handler, one with an argument in
\* quotes and no handler, and one that does not exist.
Segment(vaddr, filesz, memsz, first) ==
    [vaddr |-> vaddr, filesz |-> filesz, memsz |-> memsz, first |-> first]
Symbol(name, value) == [name |-> name, value |-> value]
Line(text, found, segs, syms) == [text |-> text, found |-> found, segs |-> segs, syms |-> syms]
UserPrograms ==
    {Line(<<1>>, TRUE, <<Segment(0, 3, 3, 10), Segment(5, 1, 2, 20)>>,
          <<Symbol("main", 4), Symbol("on_signal", 5)>>),
     Line(<<2, 101, 102, 101, 102>>, TRUE, <<Segment(1, 2, 3, 30)>>, <<Symbol("main", 4)>>),
     Line(<<3>>, FALSE, <<>>, <<>>)}
U == INSTANCE UserMemory WITH Procs <- {"p1", "p2"}, Programs <- UserPrograms, PageSize <- 4,
       Per <- 2, LinearStart <- 0, StackBase <- 4, NKernel <- 20, NNormal <- 9, MaxEnded <- 1,
       Incs <- {6, -3}

\* Paths of up to five pieces for calls with one path, up to two for calls with two.
PathOps == INSTANCE Paths
PathTable ==
    LET one == PathOps!Texts({<<"/">>, <<".">>, <<"x">>, <<"x", "y">>}, 5)
        two == PathOps!Texts({<<"/">>, <<"/", "x">>, <<"/", "x", "y">>, <<"/", ".", ".">>, <<"x">>}, 2)
    IN  PathOps!Singles(one, {0, 1, 3, 9}) \cup PathOps!Pairs(two, 9)
P == INSTANCE PathCalls WITH Calls <- PathCases

\* Directives of printf: numbers with every flag, characters and strings in small buffers.
V == INSTANCE Format WITH Calls <- FormatCases, CharBits <- 3, IntBits <- 5, LongBits <- 7
FormatTable ==
    LET widths  == {<<>>, <<"5">>, <<"*">>}
        numbers == [flags : {<<>>, <<"-">>, <<"0">>, <<"+">>, <<" ">>, <<"#">>, <<"#", "0">>, <<"-", "+">>},
                    width : widths, star : {6}, prec : {<<>>, <<".", "2">>},
                    qual : {<<>>, <<"l">>, <<"l", "l">>, <<"h", "h">>},
                    conv : {"d", "u", "x", "X", "o", "p"},
                    arg : [kind : {"int"}, v : {-3, 0, 3, 11, 45}]]
        Text(convs, args) ==
                   [flags : {<<>>, <<"-">>, <<"0">>}, width : widths, star : {6},
                    prec : {<<>>, <<".", "0">>, <<".", "2">>}, qual : {<<>>},
                    conv : convs, arg : args]
        chars   == Text({"c", "%"}, [kind : {"int"}, v : {"k"}])
        strings == Text({"s"}, [kind : {"str"}, v : {<<"a", "b", "c">>}])
    IN  V!Results(numbers, {5}) \cup V!Results(chars \cup strings, {0, 1, 2, 4})

\* The classes and functions of EhInputs, with what the personality finds for them.
Eh == INSTANCE EhInputs
L == INSTANCE Personality WITH Info <- Eh!EhInfo, Vbase <- Eh!EhVbase, Ctx <- Eh!EhCtx,
                               TypeAt <- Eh!EhTypeAt
ThrownTypes   == {"D", "F", "D*"}
HandlersTable == LET sites == Eh!EhSites IN L!Table(sites, ThrownTypes)
MeantTable    == LET meant == L!Meant IN meant
CastsTable    == LET casts == L!Casts IN casts
X == INSTANCE Exceptions WITH Ids <- {1, 2, 3}, Depth <- 4, Meaning <- Eh!EhMeaning,
       Names <- {"cleanup", "try_A", "try_two", "spec", "try_C"}, Thrown <- ThrownTypes,
       MaxKeys <- 6, Handlers <- HandlerCases, Meant <- MeantCases, Casts <- CastCases

\* The theorems about the mailbox and the disk apply to these instances.
ASSUME PartsAssumption == I!IpcAssumption /\ A!AhciAssumption

-----------------------------------------------------------------------------
Parts == {"mailbox", "signals", "iterator", "cache", "disk", "paths", "files", "keyboard",
          "exceptions", "format", "boot", "memory", "runtime"}

Init ==
    /\ part \in Parts
    /\ IF part = "mailbox"    THEN I!Init ELSE ipc = 0
    /\ IF part = "signals"    THEN S!Init ELSE sig = 0
    /\ IF part = "iterator"   THEN T!Init ELSE tree = 0
    /\ IF part = "cache"      THEN B!Init ELSE blk = 0
    /\ IF part = "disk"       THEN A!Init ELSE ahci = 0
    /\ IF part = "paths"      THEN P!Init ELSE path = 0
    /\ IF part = "files"      THEN F!Init ELSE ft = 0
    /\ IF part = "keyboard"   THEN K!Init ELSE kbd = 0
    /\ IF part = "exceptions" THEN X!Init ELSE eh = 0
    /\ IF part = "format"     THEN V!Init ELSE fm = 0
    /\ IF part = "boot"       THEN Z!Init ELSE pf = 0
    /\ IF part = "memory"     THEN U!Init ELSE um = 0
    /\ IF part = "runtime"    THEN C!Init ELSE cx = 0

Next ==
    \/ part = "mailbox" /\ I!Next
       /\ UNCHANGED <<part, sig, tree, blk, ahci, path, ft, kbd, eh, fm, pf, um, cx>>
    \/ part = "signals" /\ S!Next
       /\ UNCHANGED <<part, ipc, tree, blk, ahci, path, ft, kbd, eh, fm, pf, um, cx>>
    \/ part = "iterator" /\ T!Next
       /\ UNCHANGED <<part, ipc, sig, blk, ahci, path, ft, kbd, eh, fm, pf, um, cx>>
    \/ part = "cache" /\ B!Next
       /\ UNCHANGED <<part, ipc, sig, tree, ahci, path, ft, kbd, eh, fm, pf, um, cx>>
    \/ part = "disk" /\ A!Next
       /\ UNCHANGED <<part, ipc, sig, tree, blk, path, ft, kbd, eh, fm, pf, um, cx>>
    \/ part = "paths" /\ P!Next
       /\ UNCHANGED <<part, ipc, sig, tree, blk, ahci, ft, kbd, eh, fm, pf, um, cx>>
    \/ part = "files" /\ F!Next
       /\ UNCHANGED <<part, ipc, sig, tree, blk, ahci, path, kbd, eh, fm, pf, um, cx>>
    \/ part = "keyboard" /\ K!Next
       /\ UNCHANGED <<part, ipc, sig, tree, blk, ahci, path, ft, eh, fm, pf, um, cx>>
    \/ part = "exceptions" /\ X!Next
       /\ UNCHANGED <<part, ipc, sig, tree, blk, ahci, path, ft, kbd, fm, pf, um, cx>>
    \/ part = "format" /\ V!Next
       /\ UNCHANGED <<part, ipc, sig, tree, blk, ahci, path, ft, kbd, eh, pf, um, cx>>
    \/ part = "boot" /\ Z!Next
       /\ UNCHANGED <<part, ipc, sig, tree, blk, ahci, path, ft, kbd, eh, fm, um, cx>>
    \/ part = "memory" /\ U!Next
       /\ UNCHANGED <<part, ipc, sig, tree, blk, ahci, path, ft, kbd, eh, fm, pf, cx>>
    \/ part = "runtime" /\ C!Next
       /\ UNCHANGED <<part, ipc, sig, tree, blk, ahci, path, ft, kbd, eh, fm, pf, um>>

vars == <<part, ipc, sig, tree, blk, ahci, path, ft, kbd, eh, fm, pf, um, cx>>
Spec == Init /\ [][Next]_vars

-----------------------------------------------------------------------------
\* As long as no empty message was read, a message is never overwritten before it was
\* read, never read twice or half written, and nobody waits for nothing: an empty mailbox
\* serves a waiting sender, a full one the reader (do_send_message, do_read_message).
MailboxSound == part = "mailbox" => I!MailboxSound

\* Until freed memory is used, a signal wrapper on its way is held by exactly one process,
\* a freed one by none, and no handler gets a broadcast twice, however processes register,
\* unregister and end meanwhile (signalNext, signalCheck).
SignalsSound == part = "signals" => S!SignalsSound

\* Whatever a file was grown and shortened by, reading from any block on meets its data
\* blocks in order, each in use for this file only, up to a fault (getInstance, operator++,
\* operator--, load_buf, write_back).
WalkMeetsFile == part = "iterator" => T!WalkMeetsFile

\* The pool holds the sectors asked for last, each once and the most recent first, and a
\* sector that was never written and never failed to be read is in its buffer what it is on
\* the disk (LRU::get, list::move, SataDev::read).
PoolSound == part = "cache" => B!PoolSound

\* The driver uses a port with a disk, and the drive works only while a call waits for it.
\* A call that no other overlaps has the command table and the drive to itself, also after
\* calls that overlapped or failed: a write that returns 0 has moved exactly its sector, one
\* that returns -1 nothing, a read its sector or nothing (ahci_init, sata_read, sata_write).
TransferIsTheCall == part = "disk" => A!TransferIsTheCall

\* In a buffer of any size the result of a path function is cut off and ended, with its full
\* length returned; a normalised path has the names that are left when every ".." has taken
\* one away, a relative path leads to the other path, the intersection is the longest common
\* beginning, and a part replaced by itself changes nothing (cwalk.c).
PathsSound == part = "paths" => P!PathsSound

\* Until a broken pointer is used, a pipe counts the descriptors that children of init have
\* of it, an open file has a descriptor, exactly one until a child inherits it, no
\* descriptor leads to a deleted file that was not inherited, and an ended process holds
\* nothing (do_open, do_close, copy_file, destroy_process).
FilesSound == part = "files" => F!FilesSound

\* However the bytes are split between interrupts and the signals come between the
\* characters the shell looks at, what it has read, what is in its buffer and in stdin, and
\* what is still on its way make up what was typed, in order, until the buffer is
\* overwritten while it is read (digest_scan_code, keycode2ascii, main).
TypedIsRead == part = "keyboard" => K!TypedIsRead

\* Every exception goes to the innermost handler of the source that C++ lets catch it, with
\* the right subobject; while the program runs, in every nesting of throws, catches and
\* cleanups, an exception is in memory exactly as long as a catch or an unwind uses it, and
\* the end of a catch frees its own exception or stops the program, although every call of
\* the runtime starts from a new structure (exception.cc).
ExceptionsSound == part = "exceptions" => X!ExceptionsSound

\* Whatever its directive, a call writes inside its buffer exactly the beginning of what it
\* writes when there is room, with a zero behind it, and returns the length of the whole; it
\* fails to return, or takes a wrong argument, only when a number or a character is cut off;
\* and where the code is not known to differ the text is what C says (vsnprintf).
FormatSound == part = "format" => V!FormatSound

\* Whatever the firmware's tables, their order and the number of IO APICs, when the machine is
\* up the keyboard's pin, and no other, is unmasked, in its mode, and leads to the keyboard's
\* handler, no interrupt meets the handler that stops the machine, and every AHCI controller
\* was found once (kernel_main, parse_madt, ioapic_all_init, pci_check_bus).
PlatformSound == part = "boot" => Z!PlatformSound

\* Until the code breaks something, every frame has exactly one use and none is lost, the
\* pages up to linear_end are mapped, and a running program finds its segments with zeros
\* behind them, its own signal handler, and its arguments, each ended by a zero (create_process,
\* do_real_exec, do_sbrk, do_build_args).
UserMemorySound == part = "memory" => U!UserMemorySound

\* A static object is constructed once, whoever comes first, and nobody uses it before; every
\* registered destructor is on the list or has run, never both and never twice, in reverse
\* order; and no memory is lost or given twice (__cxa_guard_acquire, __cxa_finalize, operator new).
CxxRuntimeSound == part = "runtime" => C!CxxRuntimeSound
=============================================================================
