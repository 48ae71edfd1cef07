--------------------------- MODULE FrameAllocator ---------------------------
(***************************************************************************)
(* The page frame allocator of memory/page.c: how page_init and            *)
(* rebuild_kernel_page fill the lists of frames at boot, frame_alloc and   *)
(* frame_release, and the operations on kernel and normal pages the rest   *)
(* of the kernel calls.  Page tables are abstracted to the frames that     *)
(* page_table_set_entry allocates for them; virtual addresses are left     *)
(* out.  The frame numbers are those of the machine: frame 0 is the value  *)
(* frame_alloc returns when it has no frame.                               *)
(***************************************************************************)
EXTENDS PageFrames, FiniteSets

CONSTANTS
    NumFrames,    \* mem_frame_cnt
    Reserved,     \* frames of memory map entries of type 2, and holes
    KernelMem,    \* frames below 2 GiB, which the kernel maps at a fixed offset
    MapMem,       \* frames beyond, mapped freely.  The rest is DMA memory: the
                  \* lowest 16 MiB, and the frames beyond 2 GiB whose address
                  \* falls below 16 MiB when page_init computes it as an int
    Image,        \* frames of the kernel image and the early heap
    EarlyTables,  \* frames of the boot page tables, a part of the image
    BootTables,   \* frames the new kernel page table needs at boot
    MaxFail,      \* bound: how many callers hold frame 0 after a failure
    MaxDrift      \* bound: how far mem_free_cnt may run ahead of the lists

Frames == 0 .. NumFrames - 1

ASSUME FramesAssumption ==
    /\ NumFrames \in Nat \ {0}
    /\ Reserved \cup KernelMem \cup MapMem \subseteq Frames \ {0}
    /\ Reserved \cap KernelMem = {} /\ Reserved \cap MapMem = {}
    /\ KernelMem \cap MapMem = {}
    /\ EarlyTables \subseteq Image /\ Image \subseteq KernelMem
    /\ BootTables \in Nat /\ MaxFail \in Nat /\ MaxDrift \in Nat

Lists  == {"free", "occupied", "map"}
States == {"unset", "AVAILABLE", "KERNEL", "DMA", "RESERVE", "POOL", "NORMAL"}

VARIABLES
    m,        \* page_arr, mem_free_head, mem_occupied_head, mem_map_head and
              \* the counters mem_free_cnt and mem_occupied_cnt
    boot,     \* how far page_init has come, and the frame it is at
    held,     \* how many callers hold each frame
    tables,   \* frames used as page tables of the kernel; never released
    halted    \* a failed assert has stopped the machine

vars == <<m, boot, held, tables, halted>>

Memory == [state : [Frames -> States],
           next : [Frames -> Frames \cup {NOPAGE}],
           prev : [Frames -> Frames \cup {NOPAGE}],
           head : [Lists -> Frames \cup {NOPAGE}],
           tail : [Lists -> Frames \cup {NOPAGE}],
           free_cnt : Int, occupied_cnt : Int]

TypeOK ==
    /\ m \in Memory
    /\ boot \in [phase : {"scan", "image", "tables", "early", "done"}, at : Nat]
    /\ boot.phase = "tables" => boot.at <= BootTables
    /\ boot.phase # "tables" => boot.at <= NumFrames
    /\ held \in [Frames -> Nat]
    /\ tables \subseteq Frames
    /\ halted \in BOOLEAN

Init ==
    /\ m = [state |-> [f \in Frames |-> "unset"],
            next |-> [f \in Frames |-> NOPAGE],
            prev |-> [f \in Frames |-> NOPAGE],
            head |-> [l \in Lists |-> NOPAGE],
            tail |-> [l \in Lists |-> NOPAGE],
            free_cnt |-> 0, occupied_cnt |-> 0]
    /\ boot = [phase |-> "scan", at |-> 0]
    /\ held = [f \in Frames |-> 0]
    /\ tables = {}
    /\ halted = FALSE

-----------------------------------------------------------------------------
(* Boot.                                                                   *)

Scanning(phase) == boot.phase = phase /\ ~halted

page_initOneMore ==
    /\ Scanning("scan") /\ boot.at <= NumFrames
    /\ LET f == boot.at
           s == IF f \in Reserved THEN "RESERVE"
                ELSE IF f \in KernelMem \cup MapMem THEN "AVAILABLE" ELSE "DMA"
           l == IF f \in KernelMem THEN "free" ELSE "map"
           m1 == SetState(m, f, s)
       IN  m' = IF s # "AVAILABLE" THEN m1
                ELSE pglist_push_head([m1 EXCEPT !.free_cnt = @ + 1], l, f)
    /\ boot' = [boot EXCEPT !.at = @ + 1]
    /\ UNCHANGED <<held, tables, halted>>
\* page_init: one frame of the memory map, in ascending order.
page_init ==
    /\ Scanning("scan") /\ boot.at < NumFrames
    /\ LET f == boot.at
           s == IF f \in Reserved THEN "RESERVE"
                ELSE IF f \in KernelMem \cup MapMem THEN "AVAILABLE" ELSE "DMA"
           l == IF f \in KernelMem THEN "free" ELSE "map"
           m1 == SetState(m, f, s)
       IN  m' = IF s # "AVAILABLE" THEN m1
                ELSE pglist_push_head([m1 EXCEPT !.free_cnt = @ + 1], l, f)
    /\ boot' = [boot EXCEPT !.at = @ + 1]
    /\ UNCHANGED <<held, tables, halted>>

\* The loops of rebuild_kernel_page visit the frames of a set in ascending
\* order, and step from phase to phase.
NextPhase(from, to, at) ==
    /\ Scanning(from)
    /\ boot' = [phase |-> to, at |-> at]
    /\ UNCHANGED <<m, held, tables, halted>>

NextIn(S) == {f \in S : f >= boot.at /\ \A g \in S : g >= boot.at => f <= g}

\* rebuild_kernel_page: the frames of the kernel image become occupied.
reserve_image ==
    \/ boot.at = NumFrames /\ NextPhase("scan", "image", 0)
    \/ /\ Scanning("image")
       /\ m.tail["free"] # NOPAGE
       /\ \E f \in NextIn(Image) :
            /\ m' = [pglist_push_head(
                        pglist_remove(SetState(m, f, "KERNEL"), "free", f),
                        "occupied", f)
                     EXCEPT !.free_cnt = @ - 1, !.occupied_cnt = @ + 1]
            /\ boot' = [boot EXCEPT !.at = f + 1]
       /\ UNCHANGED <<held, tables, halted>>

\* write_new_kernel_page_table: the frames of the new kernel page table.
write_new_kernel_page_table ==
    \/ NextIn(Image) = {} /\ NextPhase("image", "tables", 0)
    \/ /\ Scanning("tables") /\ boot.at < BootTables
       /\ LET a == frame_alloc(m, "KERNEL") IN
            /\ m' = a.mem
            /\ halted' = (a.frame = NOPAGE)
            /\ tables' = tables \cup ({a.frame} \ {NOPAGE})
       /\ boot' = [boot EXCEPT !.at = @ + 1]
       /\ UNCHANGED held

\* The end of rebuild_kernel_page: the frames of the boot page tables are no
\* longer occupied; no list gets them, and they are not counted as free.
release_early_tables ==
    \/ boot.at = BootTables /\ NextPhase("tables", "early", 0)
    \/ /\ Scanning("early")
       /\ \E f \in NextIn(EarlyTables) :
            /\ m' = [SetState(pglist_remove(m, "occupied", f), f, "AVAILABLE")
                     EXCEPT !.occupied_cnt = @ - 1]
            /\ boot' = [boot EXCEPT !.at = f + 1]
       /\ UNCHANGED <<held, tables, halted>>
    \/ NextIn(EarlyTables) = {} /\ NextPhase("early", "done", 0)

-----------------------------------------------------------------------------
(* Operations of the running kernel.                                       *)

Running == boot.phase = "done" /\ ~halted

\* A page for a caller: its frame, then k frames for page tables that
\* page_table_set_entry finds missing.
AllocPage(s, k) ==
    LET a == frame_alloc(m, s)
        b == IF k = 0 \/ a.frame = NOPAGE THEN a ELSE frame_alloc(a.mem, "KERNEL")
    IN  /\ Running
        /\ a.frame = 0 => held[0] < MaxFail
        /\ m' = b.mem
        /\ halted' = (b.frame = NOPAGE)
        /\ held' = IF a.frame = NOPAGE THEN held
                   ELSE [held EXCEPT ![a.frame] = @ + 1]
        /\ tables' = IF k = 0 THEN tables ELSE tables \cup ({b.frame} \ {NOPAGE})
        /\ UNCHANGED boot

\* kernel_pages_alloc for one page, as every caller but the 8192 byte cache has
\* it, and normal_page_alloc.
kernel_page_alloc(s, k) == s \in {"KERNEL", "POOL"} /\ AllocPage(s, k)
normal_page_alloc(k)    == AllocPage("NORMAL", k)

\* Callers release the pages they hold, and frame 0 when they got that.
ReleasePage(f, mm) ==
    /\ Running /\ held[f] > 0
    /\ m' = mm
    /\ held' = [held EXCEPT ![f] = @ - 1]
    /\ UNCHANGED <<boot, tables, halted>>

Drift(mm) == mm.free_cnt - Cardinality({f \in Frames :
                f \notin EarlyTables /\ mm.state[f] = "AVAILABLE"})

kernel_page_release(f) ==
    /\ m.state[f] # "NORMAL"
    /\ f = 0 => Drift(m) < MaxDrift
    /\ ReleasePage(f, frame_release(m, f))

normal_page_release(f) ==
    /\ m.state[f] = "NORMAL"
    /\ ReleasePage(f, frame_release(m, f))

\* The loop of destroy_process, for one page table in mem_list: frame_release of the frame,
\* then normal_page_release of mem->addr, which create_user_page computed from
\* the frame number instead of the address, so that it names a low frame.
release_mem_list(f, low) ==
    /\ m.state[f] = "KERNEL"
    /\ Drift(m) < MaxDrift
    /\ ReleasePage(f, frame_release(frame_release(m, f), low))

Next ==
    \/ page_init \/ reserve_image \/ write_new_kernel_page_table
    \/ release_early_tables
    \/ \E s \in {"KERNEL", "POOL"}, k \in 0 .. 1 : kernel_page_alloc(s, k)
    \/ \E k \in 0 .. 1 : normal_page_alloc(k)
    \/ \E f \in Frames : kernel_page_release(f) \/ normal_page_release(f)
    \/ \E f \in KernelMem, low \in Frames \ (KernelMem \cup MapMem) : release_mem_list(f, low)

Spec == Init /\ [][Next]_vars

-----------------------------------------------------------------------------
\* The frames that belong on a list by their state.
Released == boot.phase = "done" \/ boot.phase = "early"
Leaked == {f \in EarlyTables : m.state[f] = "AVAILABLE" /\ Released}
Belongs(l) ==
    {f \in Frames :
        CASE l = "free" -> f \in KernelMem \ Leaked /\ m.state[f] = "AVAILABLE"
          [] l = "map"  -> f \in MapMem /\ m.state[f] = "AVAILABLE"
          [] OTHER      -> m.state[f] \in {"KERNEL", "NORMAL"}}

\* The three lists can be taken apart and hold exactly the frames whose state
\* says so, although they share their links and pglist_pop_tail leaves a stale
\* next behind: no frame is lost, and none is on two lists.
ListsSound ==
    /\ \A l \in Lists : WellLinked(m, l, NumFrames) /\ PagesOf(m, l, NumFrames) = Belongs(l)
    /\ m.tail["occupied"] # NOPAGE => m.next[m.tail["occupied"]] = NOPAGE

\* mem_occupied_cnt is exact, and mem_free_cnt never counts too few frames:
\* frame_alloc does not refuse while the lists have frames.
CountsSound ==
    /\ m.occupied_cnt = Cardinality(Belongs("occupied"))
    /\ m.free_cnt >= Cardinality(Belongs("free")) + Cardinality(Belongs("map"))

\* No frame but the failure value 0 is in two hands: two callers, a caller and
\* a page table, or a caller and a list of free frames.
NoDoubleUse ==
    \A f \in Frames \ {0} :
        /\ held[f] <= 1
        /\ f \in tables => held[f] = 0
        /\ m.state[f] = "AVAILABLE" => held[f] = 0 /\ f \notin tables
=============================================================================
