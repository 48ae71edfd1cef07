--------------------------- MODULE PlatformInputs ---------------------------
(***************************************************************************)
(* The machines the boot part is checked with: every order of the entries  *)
(* of the MADT, one or two IO APICs, the keyboard's interrupt where it is  *)
(* or moved, wrong checksums, and a tree of PCI buses.                     *)
(***************************************************************************)
EXTENDS Integers, Sequences, SequencesExt, TLC

Apic(a)           == [type |-> "ioapic", addr |-> a]
Cpu(n)            == [type |-> "loapic", id |-> n]
Move(irq, g, m)   == [type |-> "override", irq |-> irq, gsi |-> g, mode |-> m]
Kbd(pin, m)       == [addr |-> "A", pin |-> pin, mode |-> m]
PfMadts ==
    ({Apic("A"), Cpu(0), Cpu(1), Move(0, 2, "high edge")} :> Kbd(1, "high edge"))
      @@ ({Apic("A"), Apic("B"), Cpu(0), Move(1, 2, "low level")} :> Kbd(2, "low level"))
      @@ ({Apic("A"), Cpu(0), Move(0, 1, "none"), Move(1, 0, "high edge")} :> Kbd(0, "high edge"))
      @@ ({Apic("A"), Cpu(0), [type |-> "nmi"], [type |-> "address", addr |-> "fee"]}
            :> Kbd(1, "high edge"))
      @@ ({Apic("A"), Cpu(0), Move(1, 4, "low level")} :> Kbd(4, "low level"))

Class(c)  == [class |-> c, bridge |-> 0]
Bridge(b) == [class |-> "bridge", bridge |-> b]
PfPci ==
    (<<0, 0, 0>> :> Class("host")) @@ (<<0, 1, 0>> :> Class("ide")) @@ (<<0, 1, 1>> :> Class("ahci"))
      @@ (<<0, 2, 0>> :> Bridge(1)) @@ (<<1, 0, 0>> :> Class("ahci")) @@ (<<1, 2, 0>> :> Bridge(2))
      @@ (<<2, 1, 0>> :> Class("vga")) @@ (<<2, 1, 2>> :> Class("ahci"))

Firmware(rsdp, rev, sums, order, kbd) ==
    [rsdp |-> rsdp, rev |-> rev, sums |-> sums, tables |-> {"APIC", "FACP", "SSDT"},
     madt |-> order, pins |-> ("A" :> 5) @@ ("B" :> 4), kbd |-> kbd, pci |-> PfPci,
     multi |-> {<<0, 1>>, <<2, 1>>}, disks |-> <<<<0, 1, 1>>, <<1, 0, 0>>, <<2, 1, 2>>>>]
PfOrders == UNION {{<<o, PfMadts[m]>> : o \in SetToSeqs(m)} : m \in DOMAIN PfMadts}
PfFirmwares ==
    {Firmware("bios", 0, {"RSDP", "RSDT"}, o[1], o[2]) : o \in PfOrders}
      \cup {Firmware(r, v, s, <<Apic("A"), Cpu(0)>>, Kbd(1, "high edge")) :
              r \in {"none", "ebda"}, v \in {0, 2}, s \in SUBSET {"RSDP", "RSDT", "XSDT"}}
=============================================================================
