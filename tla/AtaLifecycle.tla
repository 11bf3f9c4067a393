----------------------------- MODULE AtaLifecycle -----------------------------
(***************************************************************************)
(* Controller bring-up of the PATA/ATAPI driver (src/libc/unistd/execvp.c):*)
(* ata_initialize scans PCI for the IDE controller, installs the IRQ       *)
(* handlers, creates the ATAPI wait queue and calls ata_device_detect on   *)
(* the four legacy devices in order.  Detection reads the signature; a     *)
(* PATA drive gets a node /dev/hd<letter>, mounted, then ata_device_init   *)
(* (IDENTIFY, PRDT and DMA buffer, bus mastering, BAR4); an ATAPI drive is *)
(* probed by atapi_device_init (IDENTIFY PACKET, READ CAPACITY) and gets   *)
(* /dev/cdrom<n> only if the probe succeeds.                               *)
(*                                                                         *)
(* The hardware is a record hw chosen in Init: the PCI device found, its   *)
(* COMMAND bit 2 and BAR4, and per device its signature, IDENTIFY capacity *)
(* and READ CAPACITY answer (err: a poll saw ERR; else the last LBA and   *)
(* the block size).  Module initialisation is one thread, so each call of *)
(* ata_device_detect is one action.                                        *)
(***************************************************************************)
EXTENDS Integers, FiniteSets

CONSTANTS
  Slots,        \* the four devices, in ata_initialize's order: 1 .. 4
  HwConfigs,    \* the hardware configurations Init may choose from
  SectorSize    \* ATA_SECTOR_SIZE

ASSUME LifecycleSlotsAssumption ==
  IsFiniteSet(Slots) /\ Slots # {} /\ Slots = 1 .. Cardinality(Slots)
ASSUME LifecycleSectorSizeAssumption == SectorSize \in Nat \ {0}

(* The PCI functions the driver may end up addressing: the IDE controller, *)
(* or config address 0 (bus 0, device 0: the host bridge) when the scan    *)
(* found nothing.                                                          *)
PciFunctions == {"ide", "host"}

VARIABLES
  hw,            \* the machine
  stage,         \* "load" before ata_initialize, "probe", "done"
  next,          \* the device ata_initialize probes next
  ata_pci,       \* the PCI function ata_pci designates
  drive_char,    \* ata_drive_char - 'a'
  cdrom_number,
  dev,           \* the four struct ata_device
  nodes,         \* the nodes mounted in the VFS
  pci_writes     \* the PCI functions whose COMMAND register was written

vars == <<hw, stage, next, ata_pci, drive_char, cdrom_number, dev, nodes,
          pci_writes>>

Ident == [sectors_48 : Nat, sectors_28 : Nat]

(* A static struct ata_device: zero but for io_base, control and slave. *)
ZeroDev == [is_atapi |-> FALSE, identity |-> [sectors_48 |-> 0, sectors_28 |-> 0],
            dma |-> FALSE, bar4 |-> 0, atapi_lba |-> 0, atapi_sector_size |-> 0]

(* What the driver reads from the hardware: the COMMAND bit per function, *)
(* BAR4, and per device the signature class, IDENTIFY capacity and READ    *)
(* CAPACITY answer.                                                        *)
ASSUME LifecycleHwAssumption ==
  \A h \in HwConfigs :
    /\ h.busmaster \in [PciFunctions -> BOOLEAN]
    /\ h.bar4 \in Nat
    /\ h.sig \in [Slots -> {"absent", "other", "pata", "atapi"}]
    /\ h.ident \in [Slots -> Ident]
    /\ h.probe \in [Slots -> [err : BOOLEAN, lba : Nat, size : Nat]]

Node == [name : {"hd", "cdrom"} \X Nat, slot : Slots, length : Nat]

TypeOK ==
  /\ hw \in HwConfigs
  /\ stage \in {"load", "probe", "done"}
  /\ next \in Slots \cup {Cardinality(Slots) + 1}
  /\ ata_pci \in PciFunctions
  /\ drive_char \in Nat
  /\ cdrom_number \in Nat
  /\ dev \in [Slots -> [is_atapi : BOOLEAN, identity : Ident, dma : BOOLEAN,
                        bar4 : Nat, atapi_lba : Nat, atapi_sector_size : Nat]]
  /\ nodes \subseteq Node
  /\ pci_writes \subseteq PciFunctions

Init ==
  /\ hw \in HwConfigs
  /\ stage = "load"
  /\ next = 1
  /\ ata_pci = "host"
  /\ drive_char = 0
  /\ cdrom_number = 0
  /\ dev = [k \in Slots |-> ZeroDev]
  /\ nodes = {}
  /\ pci_writes = {}

-----------------------------------------------------------------------------

(* Mutant: only the 82371SB (8086:7010) is recognised. *)
IsPiixOnly7010(id) == id = "8086:7010"

(* find_ata_pci (80-84): vendor 8086, device 7010 or 7111. *)
IsPiix(id) == id \in {"8086:7010", "8086:7111"}

(* ata_initialize (881-898) up to the probes: pci_scan leaves ata_pci 0   *)
(* when no function matches.                                               *)
Load ==
  /\ stage = "load"
  /\ stage' = "probe"
  /\ ata_pci' = IF IsPiix(hw.pci) THEN "ide" ELSE "host"
  /\ UNCHANGED <<hw, next, drive_char, cdrom_number, dev, nodes, pci_writes>>

(* ata_max_offset (135-143) of a device. *)
MaxOffset(d) ==
  (IF d.identity.sectors_48 # 0 THEN d.identity.sectors_48
                                ELSE d.identity.sectors_28) * SectorSize

(* atapi_max_offset (145-151). *)
AtapiMaxOffset(d) ==
  IF d.atapi_lba = 0 THEN 0 ELSE (d.atapi_lba + 1) * d.atapi_sector_size

(* Mutant: the BAR4 value used without masking its low bits. *)
MaskBarUnmasked(b) == b

(* dev->bar4 & 0xFFFFFFFC (497). *)
MaskBar(b) == b - (b % 4)

(* ata_device_init (426-506): IDENTIFY into dev->identity, is_atapi = 0, *)
(* PRDT and DMA buffer, bus mastering set in the COMMAND register of       *)
(* ata_pci if not already set, then BAR4 of ata_pci; a BAR4 without bit 0  *)
(* returns early, leaving bar4 unmasked.  The host bridge's BAR4 reads 0.  *)
AtaDeviceInit(d, k) ==
  LET bar == IF ata_pci = "ide" THEN hw.bar4 ELSE 0
  IN [d EXCEPT !.identity = hw.ident[k], !.is_atapi = FALSE, !.dma = TRUE,
               !.bar4 = IF bar % 2 = 1 THEN MaskBar(bar) ELSE bar]

(* Mutant: a medium is taken to be present only from LBA 2 on. *)
MediumPresentFromTwo(lba) == lba > 1

(* if (!lba) return 1; (598) *)
MediumPresent(lba) == lba # 0

(* Mutant: the cdrom counter is not advanced. *)
NextCdromSame(n) == n

NextCdrom(n) == n + 1

(* Mutant: the drive letter is stepped backwards. *)
NextDriveCharBack(c) == c - 1

NextDriveChar(c) == c + 1

(* ata_device_create (346-365): /dev/hd<letter>, length ata_max_offset. *)
AtaDeviceCreate(k) ==
  [name |-> <<"hd", drive_char>>, slot |-> k, length |-> MaxOffset(dev[k])]

(* atapi_device_create (324-343): /dev/cdrom<n>, length atapi_max_offset. *)
AtapiDeviceCreate(d, k) ==
  [name |-> <<"cdrom", cdrom_number>>, slot |-> k, length |-> AtapiMaxOffset(d)]

(* atapi_device_init (508-611): is_atapi = 1, IDENTIFY PACKET, then READ  *)
(* CAPACITY; an ERR in either poll returns before atapi_lba is set.        *)
AtapiDeviceInit(d, k) ==
  LET probe == hw.probe[k]
  IN [d EXCEPT !.is_atapi = TRUE, !.identity = hw.ident[k],
               !.atapi_lba = IF probe.err THEN @ ELSE probe.lba,
               !.atapi_sector_size = IF probe.err THEN @ ELSE probe.size]

(* ata_device_detect (613-661) for device k.                              *)
Detect ==
  LET k == next
      sig == hw.sig[k]
      probe == hw.probe[k]
  IN /\ stage = "probe"
     /\ UNCHANGED <<hw, ata_pci>>
     /\ next' = k + 1
     /\ stage' = IF k = Cardinality(Slots) THEN "done" ELSE "probe"
     /\ \/ /\ sig \in {"absent", "other"}
           /\ UNCHANGED <<drive_char, cdrom_number, dev, nodes, pci_writes>>
        \* 630-641: create and mount the node, then ata_device_init
        \/ /\ sig = "pata"
           /\ nodes' = nodes \cup {AtaDeviceCreate(k)}
           /\ drive_char' = NextDriveChar(drive_char)
           /\ dev' = [dev EXCEPT ![k] = AtaDeviceInit(@, k)]
           /\ pci_writes' = IF hw.busmaster[ata_pci] THEN pci_writes
                                                    ELSE pci_writes \cup {ata_pci}
           /\ UNCHANGED cdrom_number
        \* 642-656: the node only when atapi_device_init returns 0
        \/ /\ sig = "atapi"
           /\ LET d == AtapiDeviceInit(dev[k], k)
              IN /\ dev' = [dev EXCEPT ![k] = d]
                 /\ IF ~probe.err /\ MediumPresent(probe.lba)
                      THEN /\ nodes' = nodes \cup {AtapiDeviceCreate(d, k)}
                           /\ cdrom_number' = NextCdrom(cdrom_number)
                      ELSE UNCHANGED <<nodes, cdrom_number>>
           /\ UNCHANGED <<drive_char, pci_writes>>

Next == Load \/ Detect

Spec == Init /\ [][Next]_vars

-----------------------------------------------------------------------------
(* Properties.                                                             *)

(* The capacity the driver serves for a device: read_ata and read_atapi   *)
(* clamp against these.                                                    *)
Capacity(n) ==
  IF n.name[1] = "hd" THEN MaxOffset(dev[n.slot]) ELSE AtapiMaxOffset(dev[n.slot])

(* Every mounted node records the length of the device it stands for, as  *)
(* ata_max_offset and atapi_max_offset compute it once the device is       *)
(* probed (ata_device_create and atapi_device_create fill fnode->length).   *)
NodeLengthIsCapacity == \A n \in nodes : n.length = Capacity(n)

(* The spec's capacity probe: every ATAPI drive that answers READ         *)
(* CAPACITY gets a /dev/cdrom node once probing is over, with or without a *)
(* medium.                                                                 *)
CdromForEveryAtapi ==
  stage = "done" =>
    \A k \in Slots : hw.sig[k] = "atapi" /\ ~hw.probe[k].err =>
      \E n \in nodes : n.slot = k /\ n.name[1] = "cdrom"

(* Every /dev/hd node's device has as its bus-master base the IDE         *)
(* controller's BAR4 with the two low bits cleared, and that BAR4 is an    *)
(* I/O BAR: ata_device_read_sector programs that base for every read.      *)
DmaBaseValid ==
  \A n \in nodes : n.name[1] = "hd" =>
    /\ ata_pci = "ide"
    /\ hw.bar4 % 2 = 1
    /\ dev[n.slot].bar4 = hw.bar4 - (hw.bar4 % 4)

(* ata_device_init writes the PCI COMMAND register of the IDE controller  *)
(* and of no other PCI function.                                           *)
PciWritesOnlyController == pci_writes \subseteq {"ide"}

(* ata_drive_char and cdrom_number give every mounted node its own name,  *)
(* and no device is mounted twice.                                         *)
NamesDistinct ==
  \A n1, n2 \in nodes : (n1.name = n2.name \/ n1.slot = n2.slot) => n1 = n2

=============================================================================
