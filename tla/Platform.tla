------------------------------ MODULE Platform ------------------------------
(***************************************************************************)
(* Boot of the machine, arch/x86_64/kernel.c: kernel_main finds the tables *)
(* of the firmware (dev/acpi.c), learns of CPUs and interrupt controllers, *)
(* sets up descriptor tables (init/), the local APIC, the IO APICs, the    *)
(* PCI devices (dev/pci.c) and the keyboard, and starts init, from where   *)
(* on interrupts arrive.  The firmware is one of Firmwares.  Only the CPU  *)
(* that boots runs: nothing calls wakeup_aps.                              *)
(***************************************************************************)
EXTENDS Integers, Sequences, SequencesExt, FiniteSetsExt

CONSTANTS
    Legacy,      \* interrupts of the ISA bus, 16 in the code
    MaxApics,    \* length of ioapic_devs, 4 in the code
    MaxCpus,     \* length of loapic_devs, 64 in the code
    Firmwares
        \* rsdp    "ebda", "bios", "none": where it is; rev its revision, sums the
        \*         structures with a right checksum, tables the signatures in the list
        \* madt    its entries           pins   how many pins the IO APIC at an address has
        \* kbd     the pin and mode of the keyboard
        \* pci     <<bus, device, function>> -> class, or the bus behind a bridge
        \* multi   devices with the multi-function bit      disks   its AHCI controllers

VARIABLE pf
    \* fw     the firmware            pc      place in kernel_main
    \* found  tables stored           entry   next entry of the MADT
    \* cpus   loapic_devs             apics   ioapic_devs: addr, rednum
    \* gsi    irq_to_gsi              flg     gsi_to_flg
    \* isr    isr_tbl                 red     redirection entries of the IO APICs
    \* base   local APIC address      timer   it is running, with its handler
    \* sata   controllers given to ahci_init, in order
    \* heap   early_kmalloc: areas    took    handlers that ran     fault   what broke

TIMER    == 252
SPURIOUS == 255
Vector(gsi) == 64 + gsi
Masked   == [vec |-> 0, mask |-> TRUE, mode |-> "reset"]

Init ==
    \E fw \in Firmwares :
      pf = [fw |-> fw, pc |-> 1, found |-> {}, entry |-> 1, cpus |-> <<>>, apics |-> <<>>,
            gsi |-> [i \in 0 .. Legacy - 1 |-> 0], flg |-> [i \in 0 .. Legacy - 1 |-> "none"],
            isr |-> <<>>,
            red |-> [a \in DOMAIN fw.pins |-> [p \in 0 .. fw.pins[a] - 1 |-> Masked]],
            base |-> "default", timer |-> "off", sata |-> <<>>, heap |-> <<>>, took |-> {},
            fault |-> "none"]

\* The order of kernel_main; the memory, process and signal modules have their own
\* models.
kernel_mainKeyboardFirst ==
    <<"acpi_tbl_init", "parse_madt", "cpu_init", "gdt_init", "per_cpu_init", "idt_init",
      "tss_init", "loapic_dev_init", "ps2kbd_dev_init", "ioapic_all_init", "pci_probe_all", "start">>
kernel_main ==
    <<"acpi_tbl_init", "parse_madt", "cpu_init", "gdt_init", "per_cpu_init", "idt_init",
      "tss_init", "loapic_dev_init", "ioapic_all_init", "pci_probe_all", "ps2kbd_dev_init", "start">>
At(step) == pf.fault = "none" /\ pf.pc <= Len(kernel_main) /\ kernel_main[pf.pc] = step
Done(x)  == pf' = [x EXCEPT !.pc = @ + 1]

-----------------------------------------------------------------------------
(* Tables of the firmware.                                                 *)

\* The RSDP is searched in the EBDA, then in the BIOS area; revision 0 has an RSDT,
\* later ones an XSDT.  A wrong checksum leaves the tables unknown.
store_acpi_tbl(tables) == tables \cap {"APIC", "MCFG", "HPET", "FACP"}
parse_list(fw, list) == IF list \in fw.sums THEN store_acpi_tbl(fw.tables) ELSE {}
acpi_tbl_init ==
    /\ At("acpi_tbl_init")
    /\ Done([pf EXCEPT !.found =
               IF pf.fw.rsdp = "none" \/ "RSDP" \notin pf.fw.sums THEN {}
               ELSE parse_list(pf.fw, IF pf.fw.rev = 0 THEN "RSDT" ELSE "XSDT")])

\* One entry of the MADT.  An override of an interrupt beyond the table is written
\* behind it; top bit set: redirected.
ioapic_dev_add(x, e) ==
    IF Len(x.apics) < MaxApics THEN [x EXCEPT !.apics = Append(@, [addr |-> e.addr, rednum |-> 0])] ELSE x
ioapic_int_override(x, e) ==
    IF e.irq >= Legacy THEN x
    ELSE IF e.gsi >= Legacy THEN [x EXCEPT !.fault = "gsi_to_flg"]
    ELSE [x EXCEPT !.gsi[e.irq] = 128 + e.gsi, !.flg[e.gsi] = e.mode]
loapic_dev_add(x, e) == IF Len(x.cpus) < MaxCpus THEN [x EXCEPT !.cpus = Append(@, e.id)] ELSE x
madt_entry(x, e) ==
    CASE e.type = "ioapic"   -> ioapic_dev_add(x, e)
      [] e.type = "override" -> ioapic_int_override(x, e)
      [] e.type = "loapic"   -> loapic_dev_add(x, e)
      [] e.type = "address"  -> [x EXCEPT !.base = e.addr]
      [] OTHER               -> x
parse_madt ==
    /\ At("parse_madt") /\ "APIC" \in pf.found /\ pf.entry <= Len(pf.fw.madt)
    /\ pf' = [madt_entry(pf, pf.fw.madt[pf.entry]) EXCEPT !.entry = @ + 1]
parse_madt_ends ==
    /\ At("parse_madt") /\ "APIC" \in pf.found /\ pf.entry > Len(pf.fw.madt)
    /\ Done(pf)
\* Nothing looks whether there is one.
no_madt ==
    /\ At("parse_madt") /\ "APIC" \notin pf.found
    /\ pf' = [pf EXCEPT !.fault = "no madt"]

-----------------------------------------------------------------------------
(* CPU and descriptor tables.  early_kmalloc hands out areas one after the *)
(* other.                                                                  *)

early_kmalloc(x, what, size) == [x EXCEPT !.heap = Append(@, [what |-> what, size |-> size])]
cpu_init == At("cpu_init") /\ Done(pf)
gdt_init == At("gdt_init") /\ Done(early_kmalloc(pf, "gdt", 6 + 2 * Len(pf.cpus)))
\* percpu_size counts words, and is used as a number of bytes.
per_cpu_init == At("per_cpu_init") /\ Done(early_kmalloc(pf, "percpu", Len(pf.cpus)))
idt_init == At("idt_init") /\ Done([pf EXCEPT !.isr = [v \in 0 .. 255 |-> "interrupt_stub"]])
\* The task register of CPU 0, entries 6 and 7 of the GDT.
tss_init ==
    /\ At("tss_init")
    /\ Done([pf EXCEPT !.fault = IF pf.cpus = <<>> THEN "gdt" ELSE @])

-----------------------------------------------------------------------------
(* Interrupt controllers and devices.                                      *)

\* The frequency that calibrate_freq measures is not 0: the timer runs.
loapic_dev_init ==
    /\ At("loapic_dev_init")
    /\ Done([pf EXCEPT !.isr = [@ EXCEPT ![240] = "resched", ![241] = "flushmmu",
                                         ![SPURIOUS] = "svr", ![TIMER] = "timer"],
                       !.timer = "on"])

\* The version register has the number of the last pin, which is taken for the count:
\* the last pin is left as it is.  The ISA pins of the first IO APIC have the mode of
\* their override, or are edge-triggered and high; the others are level and low.
\* Every IO APIC counts its pins from 0.
Entry(x, i, p) ==
    [vec |-> Vector(p) % 256, mask |-> TRUE,
     mode |-> IF i = 1 /\ p < Legacy THEN (IF x.flg[p] = "low level" THEN "low level" ELSE "high edge")
              ELSE "low level"]
ioapic_init(x, i) ==
    LET a == x.apics[i].addr
        n == x.fw.pins[a] - 1
    IN  [x EXCEPT !.apics[i].rednum = n,
                  !.red[a] = [p \in DOMAIN @ |-> IF p < n \/ (i = 1 /\ p < Legacy) THEN Entry(x, i, p)
                                                 ELSE @[p]]]
RECURSIVE ioapics_from(_, _)
ioapics_from(x, i) == IF i > Len(x.apics) THEN x ELSE ioapics_from(ioapic_init(x, i), i + 1)
ioapic_all_init == At("ioapic_all_init") /\ Done(ioapics_from(pf, 1))

\* gsi, less the pins of the IO APICs before it.
RECURSIVE gsi_unmask(_, _, _)
gsi_unmask(x, gsi, i) ==
    IF i > Len(x.apics) THEN x
    ELSE IF gsi < x.apics[i].rednum THEN [x EXCEPT !.red[x.apics[i].addr][gsi].mask = FALSE]
    ELSE gsi_unmask(x, gsi - x.apics[i].rednum, i + 1)
ioapic_gsi_unmask(x, gsi) == gsi_unmask(x, gsi, 1)
ioapic_irq_to_gsi(irq) == IF irq < Legacy /\ pf.gsi[irq] >= 128 THEN pf.gsi[irq] - 128 ELSE irq
ps2kbd_dev_init ==
    /\ At("ps2kbd_dev_init")
    /\ Done(ioapic_gsi_unmask([pf EXCEPT !.isr[Vector(ioapic_irq_to_gsi(1))] = "keyboard"],
                              ioapic_irq_to_gsi(1)))

\* Bus after bus, device after device; the functions of a device with several.
\* pci[f] is a class, or the number of the bus behind a bridge.
RECURSIVE pci_check_bus(_, _, _)
pci_check_func(fw, x, f) ==
    CASE f \notin DOMAIN fw.pci      -> x
      [] f \in DOMAIN fw.pci -> IF fw.pci[f].bridge # 0 THEN pci_check_bus(fw, x, fw.pci[f].bridge)
                                ELSE IF fw.pci[f].class = "ahci" THEN Append(x, f) ELSE x
RECURSIVE pci_funcs(_, _, _, _, _)
pci_funcs(fw, x, bus, dev, fs) ==
    IF fs = <<>> THEN x
    ELSE pci_funcs(fw, pci_check_func(fw, x, <<bus, dev, Head(fs)>>), bus, dev, Tail(fs))
pci_check_dev(fw, x, bus, dev) ==
    IF <<bus, dev, 0>> \notin DOMAIN fw.pci THEN x
    ELSE pci_funcs(fw, x, bus, dev, IF <<bus, dev>> \in fw.multi THEN <<0, 1, 2>> ELSE <<0>>)
RECURSIVE pci_devs(_, _, _, _)
pci_devs(fw, x, bus, devs) ==
    IF devs = <<>> THEN x
    ELSE pci_devs(fw, pci_check_dev(fw, x, bus, Head(devs)), bus, Tail(devs))
pci_check_bus(fw, x, bus) == pci_devs(fw, x, bus, <<0, 1, 2>>)
pci_probe_all ==
    /\ At("pci_probe_all")
    /\ Done([pf EXCEPT !.sata = pci_check_bus(pf.fw, <<>>, 0)])

\* init runs, with interrupts enabled.
start == At("start") /\ Done(pf)

-----------------------------------------------------------------------------
(* Interrupts, after boot: a handler that is interrupt_stub never returns. *)

Up == pf.pc > Len(kernel_main) /\ pf.fault = "none"
Taken(vec) == [pf EXCEPT !.took = @ \cup {pf.isr[vec]},
                         !.fault = IF pf.isr[vec] = "interrupt_stub" THEN "stub" ELSE @]
timer_interrupt == Up /\ pf.timer = "on" /\ pf' = Taken(TIMER)
\* The keyboard, on the pin the firmware wired it to.
keyboard_interrupt ==
    /\ Up /\ ~pf.red[pf.fw.kbd.addr][pf.fw.kbd.pin].mask
    /\ pf' = Taken(pf.red[pf.fw.kbd.addr][pf.fw.kbd.pin].vec)

Next ==
    \/ acpi_tbl_init \/ parse_madt \/ parse_madt_ends \/ no_madt
    \/ cpu_init \/ gdt_init \/ per_cpu_init \/ idt_init \/ tss_init
    \/ loapic_dev_init \/ ioapic_all_init \/ ps2kbd_dev_init \/ pci_probe_all \/ start
    \/ timer_interrupt \/ keyboard_interrupt

-----------------------------------------------------------------------------
\* Pins whose entry the last-pin error of ioapic_all_init does not touch, in the first
\* IO APIC.
Wired(fw) ==
    /\ \E i \in DOMAIN fw.madt :
         /\ fw.madt[i].type = "ioapic" /\ fw.madt[i].addr = fw.kbd.addr
         /\ \A j \in 1 .. i - 1 : fw.madt[j].type # "ioapic"
    /\ fw.kbd.pin < fw.pins[fw.kbd.addr] - 1 /\ fw.kbd.pin < Legacy

\* Whatever the order of the firmware's tables, its overrides and its number of IO
\* APICs, when the machine is up the keyboard's pin, and no other, is unmasked, in the
\* mode the firmware asks for, and leads to the keyboard's handler; no interrupt meets
\* the handler that stops the machine; every AHCI controller behind every bridge was
\* found once; and the tables are looked at only with right checksums (kernel_main,
\* acpi_tbl_init, parse_madt, ioapic_all_init, ps2kbd_dev_init, pci_check_bus).
PlatformSound ==
    /\ pf.fault # "stub"
    /\ pf.pc > 2 => {"RSDP", IF pf.fw.rev = 0 THEN "RSDT" ELSE "XSDT"} \subseteq pf.fw.sums
    /\ Up =>
         /\ pf.sata = pf.fw.disks
         /\ pf.isr[TIMER] = "timer"
         /\ Wired(pf.fw) =>
              \A a \in DOMAIN pf.red : \A p \in DOMAIN pf.red[a] :
                IF a = pf.fw.kbd.addr /\ p = pf.fw.kbd.pin
                  THEN /\ ~pf.red[a][p].mask /\ pf.isr[pf.red[a][p].vec] = "keyboard"
                       /\ pf.red[a][p].mode = pf.fw.kbd.mode
                  ELSE pf.red[a][p].mask
=============================================================================
