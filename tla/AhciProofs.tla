----------------------------- MODULE AhciProofs -----------------------------
(***************************************************************************)
(* Proofs about Ahci, for any number of callers, ports and sectors: a call *)
(* that no other call overlaps has the command table and the drive to      *)
(* itself, whatever calls there were before it.                            *)
(***************************************************************************)
EXTENDS Ahci, Lemmas

\* The record of the state; a table under construction has no sector yet.
Commands == [w : BOOLEAN, lba : Lbas \cup {"none", "clear"}]
TypeOK ==
    ahci \in [kind : [Ports -> Kinds], sata : Ports \cup {NoPort},
              mode : {"boot", "up", "dead"}, table : Commands, ctba : BOOLEAN,
              ci : SUBSET {Slot}, tfes : BOOLEAN, work : Commands, halt : BOOLEAN,
              pc : [Callers -> {"idle", "build", "busy", "wait"}],
              cmd : [Callers -> Commands], ret : [Callers -> {NoRet, 0, -1}],
              moved : [Callers -> SUBSET Commands], alone : [Callers -> BOOLEAN]]

\* The port the driver uses has a disk on it.
PortInv == ahci.sata # NoPort => ahci.kind[ahci.sata] = "ata"

\* An error stops the drive for good, with the bit of the slot set.  While it is not
\* stopped it has a command only when some call waits for it; the table has a page.
DriveInv ==
    /\ ahci.tfes => ahci.halt
    /\ ahci.halt => Slot \in ahci.ci
    /\ ahci.work # Nothing => Slot \in ahci.ci /\ ~ahci.halt
    /\ Slot \in ahci.ci /\ ~ahci.halt => \E c \in Callers : ahci.pc[c] = "wait"
    /\ \A c \in Callers : ahci.pc[c] # "idle" => ahci.ctba

\* While a call that is alone is under way no other is.
AloneInv ==
    \A c, d \in Callers : ahci.alone[c] /\ ahci.pc[c] # "idle" /\ d # c => ahci.pc[d] = "idle"

\* Then the table holds its command, and the bit of ci says whether the drive is done.
CallOf(c) ==
    LET cmd == ahci.cmd[c] IN
    /\ ahci.pc[c] = "build" => ahci.table.w = cmd.w /\ ahci.moved[c] = {}
    /\ ahci.pc[c] = "busy" => ahci.table = cmd /\ ahci.moved[c] = {}
    /\ ahci.pc[c] = "wait" =>
          /\ ahci.table = cmd
          /\ ahci.work # Nothing => ahci.work = cmd
          /\ ahci.moved[c] = IF Slot \in ahci.ci THEN {} ELSE {cmd}
    /\ ahci.pc[c] = "idle" /\ ahci.ret[c] # NoRet =>
          \/ ahci.ret[c] = 0 /\ ahci.moved[c] = {cmd}
          \/ ahci.ret[c] = (IF cmd.w THEN -1 ELSE 0) /\ ahci.moved[c] = {}
CallInv == \A c \in Callers : ahci.alone[c] => CallOf(c)

IInv == TypeOK /\ PortInv /\ DriveInv /\ AloneInv /\ CallInv

-----------------------------------------------------------------------------
\* A set of ports that is not empty has a last one.
LEMMA LastPort ==
    ASSUME AhciAssumption, NEW S, S \subseteq Ports, S # {}
    PROVE  \E p \in S : \A q \in S : q <= p
<1>1. PICK n \in Nat : Ports = 1 .. n
  BY FS_CardinalityType DEF AhciAssumption
<1> DEFINE D == {n - p : p \in S}
<1>2. D \subseteq Nat /\ D # {}
  <2>1. \A p \in S : n - p \in Nat
    BY <1>1
  <2> QED  BY <2>1
<1>3. PICK d \in D : \A e \in D : d <= e
  <2> HIDE DEF D
  <2> QED  BY <1>2, LeastNat
<1>4. PICK p \in S : d = n - p
  OBVIOUS
<1>5. ASSUME NEW q \in S PROVE q <= p
  <2>1. n - p <= n - q
    BY <1>3, <1>4
  <2> QED  BY <1>1, <2>1
<1> QED  BY <1>5

\* ahci_init finds a disk, or no port.
LEMMA InitStep == ASSUME AhciAssumption, IInv, ahci_init PROVE IInv'
<1> DEFINE disks == {p \in Ports : check_type(ahci.kind[p]) = "AHCI_DEV_SATA"}
           last == CHOOSE p \in disks : \A q \in disks : q <= p
<1>1. ahci.mode = "boot"
      /\ ahci' = [ahci EXCEPT !.mode = "up", !.sata = IF disks = {} THEN NoPort ELSE last]
  BY DEF ahci_init
<1>2. disks # {} => last \in disks
  <2>1. disks \subseteq Ports
    OBVIOUS
  <2> HIDE DEF disks
  <2> QED  BY <2>1, LastPort
<1>3. \A k : check_type(k) = "AHCI_DEV_SATA" => k = "ata"
  BY DEF check_type
<1>4. disks # {} => last \in Ports /\ ahci.kind[last] = "ata"
  <2> HIDE DEF last
  <2> QED  BY <1>2, <1>3
<1> HIDE DEF last, disks
<1>5. TypeOK'
  BY <1>1, <1>4 DEF IInv, TypeOK
<1>6. PortInv'
  BY <1>1, <1>4 DEF IInv, TypeOK, PortInv
<1>7. /\ ahci'.table = ahci.table /\ ahci'.ctba = ahci.ctba /\ ahci'.ci = ahci.ci
      /\ ahci'.tfes = ahci.tfes /\ ahci'.work = ahci.work /\ ahci'.halt = ahci.halt
      /\ ahci'.pc = ahci.pc /\ ahci'.cmd = ahci.cmd /\ ahci'.ret = ahci.ret
      /\ ahci'.moved = ahci.moved /\ ahci'.alone = ahci.alone
  BY <1>1 DEF IInv, TypeOK
<1>8. DriveInv' /\ AloneInv' /\ CallInv'
  BY <1>7 DEF IInv, DriveInv, AloneInv, CallInv, CallOf
<1> QED  BY <1>5, <1>6, <1>8 DEF IInv

\* A call starts: it is alone when no other is under way, and then the drive is idle.
LEMMA BeginStep ==
    ASSUME IInv, NEW c \in Callers, NEW w \in BOOLEAN, NEW lba \in Lbas, begin(c, w, lba)
    PROVE  IInv'
<1> USE DEF IInv
<1>a. /\ ahci.mode = "up" /\ ahci.sata # NoPort /\ ahci.pc[c] = "idle"
      /\ ahci' = [ahci EXCEPT !.pc = ahci'.pc, !.cmd = ahci'.cmd, !.table = ahci'.table,
                              !.ctba = TRUE, !.tfes = ahci'.tfes, !.ret = ahci'.ret,
                              !.moved = ahci'.moved, !.alone = ahci'.alone]
      /\ ahci'.pc = [ahci.pc EXCEPT ![c] = "build"]
      /\ ahci'.cmd = [ahci.cmd EXCEPT ![c] = [w |-> w, lba |-> lba]]
      /\ ahci'.table = [w |-> w, lba |-> "clear"]
      /\ ahci'.tfes = IF w THEN FALSE ELSE ahci.tfes
      /\ ahci'.ret = [ahci.ret EXCEPT ![c] = NoRet]
      /\ ahci'.moved = [d \in Callers |-> IF d \in UnderWay \cup {c} THEN {}
                                         ELSE ahci.moved[d]]
      /\ ahci'.alone = [d \in Callers |-> IF d = c THEN UnderWay = {}
                                         ELSE d \notin UnderWay /\ ahci.alone[d]]
  BY DEF begin, TypeOK
<1>b. ahci'.table \in Commands /\ ahci'.cmd \in [Callers -> Commands]
  BY <1>a DEF TypeOK, Commands
<1>c. ahci'.pc \in [Callers -> {"idle", "build", "busy", "wait"}]
      /\ ahci'.ret \in [Callers -> {NoRet, 0, -1}]
      /\ ahci'.moved \in [Callers -> SUBSET Commands]
  BY <1>a DEF TypeOK
<1>d. ahci'.alone \in [Callers -> BOOLEAN] /\ ahci'.tfes \in BOOLEAN
  <2>1. \A d \in Callers : (IF d = c THEN UnderWay = {}
                           ELSE d \notin UnderWay /\ ahci.alone[d]) \in BOOLEAN
    OBVIOUS
  <2>2. (IF w THEN FALSE ELSE ahci.tfes) \in BOOLEAN
    BY DEF TypeOK
  <2> QED  BY <1>a, <2>1, <2>2
<1>1. TypeOK'
  BY ZenonT(30), <1>a, <1>b, <1>c, <1>d DEF TypeOK
<1>2. PortInv'
  BY DEF TypeOK, PortInv, begin
<1>3. DriveInv'
  BY DEF TypeOK, DriveInv, begin
<1>4. AloneInv'
  BY ZenonT(30) DEF TypeOK, AloneInv, begin, UnderWay
<1>5. ASSUME NEW d \in Callers, ahci'.alone[d] PROVE CallOf(d)'
  <2>1. CASE d = c
    BY <1>5, <2>1 DEF TypeOK, begin, CallOf
  <2>2. CASE d # c
    <3>1. ahci.pc[d] = "idle" /\ ahci.alone[d]
      BY <1>5, <2>2 DEF TypeOK, begin, UnderWay
    <3>2. /\ ahci'.pc[d] = ahci.pc[d] /\ ahci'.cmd[d] = ahci.cmd[d]
          /\ ahci'.ret[d] = ahci.ret[d] /\ ahci'.moved[d] = ahci.moved[d]
      BY <2>2, <3>1 DEF TypeOK, begin, UnderWay
    <3> QED  BY <3>1, <3>2 DEF CallInv, CallOf
  <2> QED  BY <2>1, <2>2
<1>6. CallInv'
  BY <1>5 DEF CallInv
<1> QED  BY <1>1, <1>2, <1>3, <1>4, <1>6

\* What the steps of one call change, field by field.
Same ==
    /\ ahci'.kind = ahci.kind /\ ahci'.sata = ahci.sata /\ ahci'.ctba = ahci.ctba
    /\ ahci'.tfes = ahci.tfes /\ ahci'.work = ahci.work /\ ahci'.halt = ahci.halt
    /\ ahci'.moved = ahci.moved /\ ahci'.alone = ahci.alone
Local(c, p, m, r) ==
    /\ ahci'.pc = [ahci.pc EXCEPT ![c] = p]
    /\ ahci'.cmd = [ahci.cmd EXCEPT ![c] = m]
    /\ ahci'.ret = [ahci.ret EXCEPT ![c] = r]
Built(c) ==
    /\ ahci.pc[c] = "build" /\ Local(c, "busy", ahci.cmd[c], ahci.ret[c])
    /\ ahci'.ci = ahci.ci /\ ahci'.table = [ahci.table EXCEPT !.lba = ahci.cmd[c].lba]
Issued(c) ==
    /\ ahci.pc[c] = "busy" /\ Local(c, "wait", ahci.cmd[c], ahci.ret[c])
    /\ ahci'.ci = {Slot} /\ ahci'.table = ahci.table
Ended(c, f) ==
    /\ ahci.pc[c] \in {"busy", "wait"}
    /\ Local(c, "idle", IF ahci.alone[c] THEN ahci.cmd[c] ELSE Nothing,
             IF f /\ ahci.cmd[c].w THEN -1 ELSE 0)
    /\ ahci'.ci = ahci.ci /\ ahci'.table = ahci.table
Hung(c) == ahci.pc[c] = "busy" /\ Ended(c, TRUE)
Waited(c) ==
    ahci.pc[c] = "wait" /\ (Slot \notin ahci.ci \/ ahci.tfes) /\ Ended(c, ahci.tfes)

LEMMA CallFields ==
    ASSUME TypeOK, NEW c \in Callers, build(c) \/ hung(c) \/ issue(c) \/ wait(c)
    PROVE  TypeOK' /\ Same /\ (Built(c) \/ Issued(c) \/ Hung(c) \/ Waited(c))
<1>1. \A x, y \in Commands : [x EXCEPT !.lba = y.lba] \in Commands
  BY DEF Commands
<1>2. Nothing \in Commands
  BY DEF Commands, Nothing
<1>3. /\ ahci.cmd = [ahci.cmd EXCEPT ![c] = ahci.cmd[c]]
      /\ ahci.ret = [ahci.ret EXCEPT ![c] = ahci.ret[c]]
      /\ ahci.cmd[c] \in Commands /\ ahci.table \in Commands
  BY DEF TypeOK
<1>4. CASE build(c)
  <2>1. TypeOK'
    BY <1>1, <1>3, <1>4 DEF build, TypeOK
  <2>2. Same /\ Built(c)
    BY <1>3, <1>4 DEF build, TypeOK, Same, Built, Local
  <2> QED  BY <2>1, <2>2
<1>5. CASE issue(c)
  <2>1. TypeOK'
    BY <1>5 DEF issue, TypeOK, find_cmdslot
  <2>2. Same /\ Issued(c)
    BY <1>3, <1>5 DEF issue, TypeOK, find_cmdslot, Same, Issued, Local
  <2> QED  BY <2>1, <2>2
<1>6. ASSUME NEW f \in BOOLEAN, ahci.pc[c] \in {"busy", "wait"}, ahci' = Returns(c, f)
      PROVE  TypeOK' /\ Same /\ Ended(c, f)
  <2> DEFINE r == IF f /\ ahci.cmd[c].w THEN -1 ELSE 0
             m == IF ahci.alone[c] THEN ahci.cmd[c] ELSE Nothing
  <2>1. ahci' = [ahci EXCEPT !.pc[c] = "idle", !.ret[c] = r, !.cmd[c] = m]
    BY <1>6 DEF Returns
  <2>2. r \in {0, -1} /\ m \in Commands
    BY <1>2, <1>3
  <2> HIDE DEF r, m
  <2>3. TypeOK'
    BY <2>1, <2>2 DEF TypeOK
  <2>4. Same /\ ahci'.ci = ahci.ci /\ ahci'.table = ahci.table /\ Local(c, "idle", m, r)
    BY <2>1 DEF TypeOK, Same, Local
  <2> QED  BY <1>6, <2>3, <2>4 DEF Ended, r, m
<1>7. CASE hung(c)
  BY <1>6, <1>7 DEF hung, Hung
<1>8. CASE wait(c)
  <2>1. ahci.tfes \in BOOLEAN
    BY DEF TypeOK
  <2> QED  BY <1>6, <1>8, <2>1 DEF wait, Waited, find_cmdslot
<1> QED  BY <1>4, <1>5, <1>7, <1>8

\* The steps of one call.  The others keep what they have; if one of them is alone it
\* is idle.
LEMMA CallStep ==
    ASSUME IInv, NEW c \in Callers, build(c) \/ hung(c) \/ issue(c) \/ wait(c)
    PROVE  IInv'
<1> USE DEF IInv
<1>1. TypeOK' /\ Same /\ (Built(c) \/ Issued(c) \/ Hung(c) \/ Waited(c))
  BY CallFields
<1>2. PortInv'
  BY <1>1 DEF PortInv, Same
<1>3. /\ ahci.pc[c] # "idle"
      /\ \A d \in Callers : d # c => /\ ahci'.pc[d] = ahci.pc[d] /\ ahci'.cmd[d] = ahci.cmd[d]
                                    /\ ahci'.ret[d] = ahci.ret[d]
      /\ ahci'.pc[c] = "wait" => ahci'.ci = {Slot}
      /\ ahci'.pc[c] # "wait" => ahci'.ci = ahci.ci
      /\ ahci'.pc[c] # "wait" /\ ahci.pc[c] = "wait" => Slot \notin ahci.ci \/ ahci.tfes
  BY <1>1 DEF TypeOK, Built, Issued, Hung, Waited, Ended, Local
<1>4. DriveInv'
  BY <1>1, <1>3 DEF TypeOK, DriveInv, Same
<1>5. AloneInv'
  BY <1>1, <1>3 DEF AloneInv, Same
<1>6. ASSUME NEW d \in Callers, ahci'.alone[d] PROVE CallOf(d)'
  <2>1. ahci.alone[d] /\ ahci'.moved = ahci.moved /\ ahci'.work = ahci.work
    BY <1>1, <1>6 DEF Same
  <2>2. CASE d = c
    <3>1. CallOf(c)
      BY <2>1, <2>2 DEF CallInv
    <3>2. \A x, y \in Commands : x.w = y.w => [x EXCEPT !.lba = y.lba] = y
      BY DEF Commands
    <3>3. ahci.table \in Commands /\ ahci.cmd[c] \in Commands
      BY DEF TypeOK
    <3>4. CASE Built(c)
      BY <2>1, <2>2, <3>1, <3>2, <3>3, <3>4 DEF CallOf, Built, Local, TypeOK
    <3>5. CASE Issued(c)
      <4>1. ahci.work = Nothing
        BY <2>1, <2>2, <3>5 DEF DriveInv, AloneInv, Issued
      <4> QED  BY <2>1, <2>2, <3>1, <3>5, <4>1 DEF CallOf, Issued, Local, TypeOK
    <3>6. CASE Hung(c)
      BY <2>1, <2>2, <3>1, <3>6 DEF CallOf, Hung, Ended, Local, TypeOK
    <3>7. CASE Waited(c)
      BY <2>1, <2>2, <3>1, <3>7 DEF CallOf, Waited, Ended, Local, TypeOK, DriveInv
    <3> QED  BY <1>1, <3>4, <3>5, <3>6, <3>7
  <2>3. CASE d # c
    <3>1. ahci.pc[d] = "idle"
      BY <1>3, <2>1, <2>3 DEF AloneInv
    <3> QED  BY <1>3, <2>1, <2>3, <3>1 DEF CallInv, CallOf
  <2> QED  BY <2>2, <2>3
<1>7. CallInv'
  BY <1>6 DEF CallInv
<1> QED  BY <1>1, <1>2, <1>4, <1>5, <1>7

\* The steps of the drive: a call that is alone and under way is the one that waits.
LEMMA DriveStep ==
    ASSUME IInv, drive_takes \/ drive_ends \/ drive_fails
    PROVE  IInv'
<1> USE DEF IInv
<1>1. /\ ahci'.kind = ahci.kind /\ ahci'.sata = ahci.sata /\ ahci'.ctba = ahci.ctba
      /\ ahci'.table = ahci.table /\ ahci'.pc = ahci.pc /\ ahci'.cmd = ahci.cmd
      /\ ahci'.ret = ahci.ret /\ ahci'.alone = ahci.alone
  BY DEF TypeOK, drive_takes, drive_ends, drive_fails
<1> DEFINE Moved == [c \in Callers |-> IF c \in UnderWay /\ ahci.alone[c]
                                         THEN ahci.moved[c] \cup {ahci.work} ELSE ahci.moved[c]]
<1>2. Moved \in [Callers -> SUBSET Commands] /\ Nothing \in Commands /\ {} \in SUBSET {Slot}
  BY DEF TypeOK, Commands, Nothing
<1>3. TypeOK'
  <2>1. CASE drive_takes
    BY <2>1 DEF TypeOK, drive_takes
  <2>2. CASE drive_ends
    <3>1. ahci' = [ahci EXCEPT !.work = Nothing, !.ci = {}, !.moved = Moved]
      BY <2>2 DEF drive_ends
    <3> HIDE DEF Moved
    <3> QED  BY <1>2, <3>1 DEF TypeOK
  <2>3. CASE drive_fails
    BY <1>2, <2>3 DEF TypeOK, drive_fails
  <2> QED  BY <2>1, <2>2, <2>3
<1>4. \/ /\ Slot \in ahci.ci /\ ~ahci.halt /\ ahci.work = Nothing
         /\ ahci'.work = ahci.table /\ ahci'.moved = ahci.moved
         /\ ahci'.ci = ahci.ci /\ ahci'.tfes = ahci.tfes /\ ahci'.halt = ahci.halt
      \/ /\ ahci.work # Nothing /\ ahci'.work = Nothing /\ ahci'.moved = Moved
         /\ ahci'.ci = {} /\ ahci'.tfes = ahci.tfes /\ ahci'.halt = ahci.halt
      \/ /\ ahci.work # Nothing /\ ahci'.work = Nothing /\ ahci'.moved = ahci.moved
         /\ ahci'.ci = ahci.ci /\ ahci'.tfes = TRUE /\ ahci'.halt = TRUE
  BY DEF TypeOK, drive_takes, drive_ends, drive_fails
<1>5. PortInv' /\ AloneInv'
  BY <1>1 DEF PortInv, AloneInv
<1>6. DriveInv'
  BY <1>1, <1>4 DEF DriveInv
<1>7. ASSUME NEW c \in Callers, ahci'.alone[c] PROVE CallOf(c)'
  <2>1. ahci.alone[c] /\ CallOf(c)
    BY <1>1, <1>7 DEF CallInv
  <2>2. CASE ahci.pc[c] = "idle"
    <3>1. ahci'.moved[c] = ahci.moved[c]
      BY <1>4, <2>2 DEF UnderWay
    <3> QED  BY <1>1, <2>1, <2>2, <3>1 DEF CallOf
  <2>3. CASE ahci.pc[c] # "idle"
    <3>1. ahci.pc[c] = "wait" /\ Slot \in ahci.ci
      BY <1>4, <2>1, <2>3 DEF DriveInv, AloneInv
    <3>2. ahci.moved[c] = {} /\ Moved[c] = ahci.moved[c] \cup {ahci.work}
      BY <2>1, <2>3, <3>1 DEF CallOf, UnderWay
    <3> HIDE DEF Moved
    <3>3. ahci.work # Nothing => ahci.work = ahci.cmd[c]
      BY <2>1, <3>1 DEF CallOf
    <3> QED  BY <1>1, <1>4, <2>1, <3>1, <3>2, <3>3 DEF CallOf
  <2> QED  BY <2>2, <2>3
<1>8. CallInv'
  BY <1>7 DEF CallInv
<1> QED  BY <1>3, <1>5, <1>6, <1>8

\* The driver uses a port with a disk, the drive works only while a call waits for it,
\* and a call that no other overlaps has the drive to itself and reports what was moved
\* as far as its result tells (ahci_init, sata_read, sata_write): for any number of
\* callers, overlapping calls and failures before it.
THEOREM TransferIsTheCallHolds ==
    ASSUME AhciAssumption
    PROVE  Spec => []TransferIsTheCall
<1>1. Init => IInv
  BY DEF Init, IInv, TypeOK, PortInv, DriveInv, AloneInv, CallInv, CallOf, Commands,
         Nothing, NoPort, NoRet, Slot
<1>2. IInv /\ [Next]_ahci => IInv'
  <2> SUFFICES ASSUME IInv, [Next]_ahci PROVE IInv'
    OBVIOUS
  <2>1. CASE no_port
    <3>1. TypeOK'
      BY <2>1 DEF no_port, IInv, TypeOK
    <3>2. Same /\ ahci'.pc = ahci.pc /\ ahci'.cmd = ahci.cmd /\ ahci'.ret = ahci.ret
          /\ ahci'.ci = ahci.ci /\ ahci'.table = ahci.table
      BY <2>1 DEF no_port, IInv, TypeOK, Same
    <3> QED  BY SMTT(30), <3>1, <3>2 DEF Same, IInv, PortInv, DriveInv, AloneInv, CallInv, CallOf
  <2>2. ASSUME NEW c \in Callers, NEW lba \in Lbas, sata_read(c, lba) \/ sata_write(c, lba)
        PROVE  IInv'
    BY <2>2, BeginStep DEF sata_read, sata_write
  <2>3. CASE UNCHANGED ahci
    BY <2>3 DEF IInv, TypeOK, PortInv, DriveInv, AloneInv, CallInv, CallOf
  <2> QED  BY <2>1, <2>2, <2>3, InitStep, CallStep, DriveStep DEF Next
<1>3. IInv => TransferIsTheCall
  BY DEF IInv, PortInv, DriveInv, CallInv, CallOf, TransferIsTheCall
<1> QED  BY <1>1, <1>2, <1>3, PTL DEF Spec
=============================================================================
