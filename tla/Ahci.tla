-------------------------------- MODULE Ahci --------------------------------
(***************************************************************************)
(* The AHCI driver, dev/ahci.c, and the drive it talks to.  The driver     *)
(* builds a command table, sets the bit of its slot in ci and polls; the   *)
(* drive works on the command, moves the data and clears the bit, or sets  *)
(* the task file error in is and stops.  Nothing keeps a second thread out *)
(* of the driver while a call is under way, and all calls use slot 0.      *)
(***************************************************************************)
EXTENDS Integers, FiniteSets

CONSTANTS
    Callers,     \* threads that read and write sectors
    Ports,       \* ports of the controller, in order: 1 .. n
    Kinds,       \* what may be attached: signatures, and "absent", "asleep"
    Lbas         \* sectors

\* The ports are numbered; port 0 stands for none.
AhciAssumption == IsFiniteSet(Ports) /\ Ports = 1 .. Cardinality(Ports)

VARIABLE ahci
    \* kind   what is at a port              sata    the port the driver uses
    \* mode   "boot", "up", or "dead" after a failed assert
    \* table  header and table of slot 0     ctba    the table has a page
    \* ci     issued slots                   tfes    task file error in is
    \* work   the command the drive works on, or Nothing         halt   it has stopped
    \* For each caller:
    \* pc     place in the driver            cmd     arguments of the call
    \* ret    what the last call returned, or NoRet
    \* alone  no other call overlapped it    moved   transfers during a call that is alone

Nothing == [w |-> FALSE, lba |-> "none"]
NoPort  == 0
NoRet   == 1
Slot    == 0

Init ==
    \E kind \in [Ports -> Kinds] :
      ahci = [kind |-> kind, sata |-> NoPort, mode |-> "boot",
              table |-> Nothing, ctba |-> FALSE, ci |-> {}, tfes |-> FALSE,
              work |-> Nothing, halt |-> FALSE,
              pc |-> [c \in Callers |-> "idle"], cmd |-> [c \in Callers |-> Nothing],
              ret |-> [c \in Callers |-> NoRet], moved |-> [c \in Callers |-> {}],
              alone |-> [c \in Callers |-> TRUE]]

\* The port must have a drive (det), awake (ipm), with the signature of a disk.
check_type(k) ==
    CASE k \in {"absent", "asleep"}        -> "AHCI_DEV_NULL"
      [] k = "ata"                         -> "AHCI_DEV_SATA"
      [] k = "atapi"                       -> "AHCI_DEV_SATAPI"
      [] k \in {"semb", "pm"}              -> "AHCI_DEV_OTHER"
      [] OTHER                             -> "AHCI_DEV_NULL"

\* Every implemented port is looked at; the last disk is kept.
ahci_init ==
    /\ ahci.mode = "boot"
    /\ LET disks == {p \in Ports : check_type(ahci.kind[p]) = "AHCI_DEV_SATA"}
       IN  ahci' = [ahci EXCEPT !.mode = "up",
                      !.sata = IF disks = {} THEN NoPort
                               ELSE CHOOSE p \in disks : \A q \in disks : q <= p]

\* find_cmdslot looks at no bit of sact and ci: slot 0 is always free.
find_cmdslot == Slot

\* A call starts.  sata_write clears the pending bits of is, sata_read does not; the
\* header of the slot gets the direction and, once, a page, and the table is cleared.
UnderWay == {d \in Callers : ahci.pc[d] # "idle"}
begin(c, w, lba) ==
    /\ ahci.mode = "up" /\ ahci.sata # NoPort /\ ahci.pc[c] = "idle"
    /\ ahci' = [ahci EXCEPT !.pc[c] = "build", !.cmd[c] = [w |-> w, lba |-> lba],
                  !.table = [w |-> w, lba |-> "clear"], !.ctba = TRUE,
                  !.tfes = IF w THEN FALSE ELSE @,
                  !.ret[c] = NoRet,
                  !.moved = [d \in Callers |-> IF d \in UnderWay \cup {c} THEN {} ELSE @[d]],
                  !.alone = [d \in Callers |-> IF d = c THEN UnderWay = {}
                                               ELSE d \notin UnderWay /\ @[d]]]
sata_read(c, lba) == begin(c, FALSE, lba)
sata_write(c, lba) == begin(c, TRUE, lba)

\* The assert on the port stops the machine.
no_port ==
    /\ ahci.mode = "up" /\ ahci.sata = NoPort
    /\ ahci' = [ahci EXCEPT !.mode = "dead"]

\* The command goes into the table.
build(c) ==
    /\ ahci.pc[c] = "build"
    /\ ahci' = [ahci EXCEPT !.pc[c] = "busy", !.table.lba = ahci.cmd[c].lba]

\* A failed read returns false, which is the 0 of success; a failed write -1.  The
\* locals of a call are gone; of one that was alone its arguments are remembered.
Returns(c, failed) ==
    [ahci EXCEPT !.pc[c] = "idle", !.ret[c] = IF failed /\ ahci.cmd[c].w THEN -1 ELSE 0,
                 !.cmd[c] = IF ahci.alone[c] THEN @ ELSE Nothing]

\* The port is busy for 1000000 polls, or becomes free and the command is issued:
\* ci |= 1 << slot, or ci = 1 << slot.
hung(c) ==
    /\ ahci.pc[c] = "busy"
    /\ ahci' = Returns(c, TRUE)
issue(c) ==
    /\ ahci.pc[c] = "busy"
    /\ ahci' = [ahci EXCEPT !.pc[c] = "wait", !.ci = {find_cmdslot}]

\* Both loops leave when the bit is clear or the error is set.
waitNoRecheck(c) ==
    /\ ahci.pc[c] = "wait" /\ (find_cmdslot \notin ahci.ci \/ ahci.tfes)
    /\ ahci' = Returns(c, FALSE)
wait(c) ==
    /\ ahci.pc[c] = "wait" /\ (find_cmdslot \notin ahci.ci \/ ahci.tfes)
    /\ ahci' = Returns(c, ahci.tfes)

\* The drive: takes the command of the slot, unless it has stopped on an error, ends
\* it, or fails.  After an error the bit stays and the port waits for a restart,
\* which the driver never does.
drive_takes ==
    /\ Slot \in ahci.ci /\ ahci.work = Nothing /\ ~ahci.halt
    /\ ahci' = [ahci EXCEPT !.work = ahci.table]
drive_ends ==
    /\ ahci.work # Nothing
    /\ ahci' = [ahci EXCEPT !.work = Nothing, !.ci = {},
                  !.moved = [c \in Callers |-> IF c \in UnderWay /\ ahci.alone[c]
                                                 THEN @[c] \cup {ahci.work} ELSE @[c]]]
drive_fails ==
    /\ ahci.work # Nothing
    /\ ahci' = [ahci EXCEPT !.work = Nothing, !.tfes = TRUE, !.halt = TRUE]

Next ==
    \/ ahci_init \/ no_port
    \/ \E c \in Callers : build(c) \/ hung(c) \/ issue(c) \/ wait(c)
    \/ \E c \in Callers, lba \in Lbas : sata_read(c, lba) \/ sata_write(c, lba)
    \/ drive_takes \/ drive_ends \/ drive_fails

Spec == Init /\ [][Next]_ahci

-----------------------------------------------------------------------------
\* The driver uses a port with a disk on it, and the drive works on a command only
\* while a call waits for it (ahci_init, sata_read, sata_write).  As long as no other
\* thread calls the driver, also after calls that overlapped or failed, the drive has
\* the caller's command, complete and untouched; a write that returns 0 has moved
\* exactly its sector, a write that returns -1 nothing, and a read, which returns 0
\* whether it failed or not, its sector or nothing.
TransferIsTheCall ==
    /\ ahci.sata # NoPort => ahci.kind[ahci.sata] = "ata"
    /\ ahci.work # Nothing => ahci.ctba /\ \E c \in Callers : ahci.pc[c] = "wait"
    /\ \A c \in Callers : ahci.alone[c] =>
        /\ ahci.pc[c] = "wait" /\ ahci.work # Nothing =>
              ahci.work = ahci.cmd[c] /\ ahci.table = ahci.cmd[c]
        /\ ahci.pc[c] = "idle" /\ ahci.ret[c] # NoRet =>
              \/ ahci.ret[c] = 0 /\ ahci.moved[c] = {ahci.cmd[c]}
              \/ ahci.ret[c] = (IF ahci.cmd[c].w THEN -1 ELSE 0) /\ ahci.moved[c] = {}
=============================================================================
