------------------------- MODULE AtaLifecycleProofs -------------------------
(***************************************************************************)
(* Proofs about AtaLifecycle for every set of devices and every machine.   *)
(***************************************************************************)
EXTENDS AtaLifecycle, FiniteSetTheorems, TLAPS

N == Cardinality(Slots)

(* Node naming, strengthened: every mounted node belongs to a device      *)
(* already probed, and its number is below the counter that named it, so  *)
(* the next name ata_device_detect hands out is new.                      *)
NamesInv ==
  /\ TypeOK
  /\ stage = "load" => next = 1
  /\ stage = "probe" => next \in Slots
  /\ \A n \in nodes : n.slot < next
  /\ \A n \in nodes : n.name[1] = "hd" => n.name[2] < drive_char
  /\ \A n \in nodes : n.name[1] = "cdrom" => n.name[2] < cdrom_number
  /\ NamesDistinct

(* On a machine whose IDE function is recognised, ata_pci designates it   *)
(* from the end of the scan on; COMMAND writes happen only after it.      *)
PciInv ==
  /\ hw \in HwConfigs
  /\ stage # "load" => ata_pci = "ide"
  /\ PciWritesOnlyController

(* A device with a /dev/hd node is not touched again once probed, and it  *)
(* was given the masked BAR4 of the controller when it was.               *)
DmaInv ==
  /\ NamesInv
  /\ PciInv
  /\ stage = "load" => nodes = {}
  /\ DmaBaseValid

(* The machines on which find_ata_pci finds the controller. *)
PiixMachines == \A h \in HwConfigs : IsPiix(h.pci)

(* The machines whose controller's BAR4 is an I/O BAR. *)
IoBarMachines == \A h \in HwConfigs : h.bar4 % 2 = 1

(* The machines whose ATAPI drives, when READ CAPACITY answers, hold a    *)
(* medium (a last LBA other than 0).                                       *)
MediumMachines ==
  \A h \in HwConfigs : \A k \in Slots :
    h.sig[k] = "atapi" /\ ~h.probe[k].err => h.probe[k].lba # 0

(* The capacity probe, strengthened: every device already probed that is  *)
(* an answering ATAPI drive has its /dev/cdrom node, and probing is over  *)
(* only once the last device has been probed.                              *)
CdromInv ==
  /\ NamesInv
  /\ stage = "done" => next = N + 1
  /\ \A k \in Slots :
       k < next /\ hw.sig[k] = "atapi" /\ ~hw.probe[k].err =>
         \E n \in nodes : n.slot = k /\ n.name[1] = "cdrom"

-----------------------------------------------------------------------------

(* The devices are 1 .. N for a positive N. *)
LEMMA SlotFacts == N \in Nat \ {0} /\ Slots = 1 .. N
<1>1. N \in Nat
  BY LifecycleSlotsAssumption, FS_CardinalityType DEF N
<1>2. QED
  BY <1>1, LifecycleSlotsAssumption DEF N

(* What a machine offers the driver for device k. *)
LEMMA HwFacts ==
  ASSUME NEW h \in HwConfigs, NEW k \in Slots
  PROVE  /\ h.busmaster \in [PciFunctions -> BOOLEAN]
         /\ h.bar4 \in Nat
         /\ h.sig[k] \in {"absent", "other", "pata", "atapi"}
         /\ h.ident[k] \in Ident
         /\ h.probe[k] \in [err : BOOLEAN, lba : Nat, size : Nat]
BY LifecycleHwAssumption

LEMMA InitTypeOK == Init => TypeOK
BY SlotFacts DEF Init, TypeOK, ZeroDev, Ident, PciFunctions

LEMMA LoadTypeOK == TypeOK /\ Load => TypeOK'
BY DEF Load, TypeOK, PciFunctions

DevType == [is_atapi : BOOLEAN, identity : Ident, dma : BOOLEAN,
            bar4 : Nat, atapi_lba : Nat, atapi_sector_size : Nat]

(* Probing a device keeps its descriptor, and the node made for it, typed. *)
LEMMA DeviceTypes ==
  ASSUME TypeOK, NEW k \in Slots
  PROVE  /\ AtaDeviceInit(dev[k], k) \in DevType
         /\ AtapiDeviceInit(dev[k], k) \in DevType
         /\ \A d \in DevType : AtaDeviceCreate(k) \in Node
                               /\ AtapiDeviceCreate(d, k) \in Node
<1>1. /\ hw.bar4 \in Nat /\ hw.ident[k] \in Ident
      /\ hw.probe[k] \in [err : BOOLEAN, lba : Nat, size : Nat]
  BY HwFacts DEF TypeOK
<1>2. AtaDeviceInit(dev[k], k) \in DevType
  <2>. DEFINE bar == IF ata_pci = "ide" THEN hw.bar4 ELSE 0
  <2>1. bar \in Nat
    BY <1>1
  <2>2. (IF bar % 2 = 1 THEN MaskBar(bar) ELSE bar) \in Nat
    BY <2>1 DEF MaskBar
  <2>3. dev[k] \in DevType
    BY DEF TypeOK, DevType
  <2>4. QED
    BY <1>1, <2>2, <2>3 DEF AtaDeviceInit, DevType
<1>3. AtapiDeviceInit(dev[k], k) \in DevType
  BY <1>1 DEF AtapiDeviceInit, TypeOK, DevType
<1>4. \A d \in DevType : AtaDeviceCreate(k) \in Node /\ AtapiDeviceCreate(d, k) \in Node
  BY LifecycleSectorSizeAssumption
  DEF AtaDeviceCreate, AtapiDeviceCreate, MaxOffset, AtapiMaxOffset, TypeOK,
      DevType, Ident, Node
<1>5. QED
  BY <1>2, <1>3, <1>4

LEMMA DetectTypeOK ==
  ASSUME TypeOK, stage = "probe" => next \in Slots, Detect
  PROVE  TypeOK'
<1>1. next \in Slots /\ stage = "probe"
  BY DEF Detect
<1>2. hw.sig[next] \in {"absent", "other", "pata", "atapi"}
  BY <1>1, HwFacts DEF TypeOK
<1>3. /\ next' \in Slots \cup {N + 1}
      /\ stage' \in {"load", "probe", "done"}
  BY <1>1, SlotFacts DEF Detect, N
<1>4. CASE hw.sig[next] \in {"absent", "other"}
  BY <1>3, <1>4 DEF Detect, TypeOK, N
<1>5. CASE hw.sig[next] = "pata"
  <2>1. pci_writes' \subseteq PciFunctions
    BY <1>5 DEF Detect, TypeOK
  <2>2. QED
    BY <1>1, <1>3, <1>5, <2>1, DeviceTypes DEF Detect, TypeOK, N, DevType, NextDriveChar
<1>6. CASE hw.sig[next] = "atapi"
  BY <1>1, <1>3, <1>6, DeviceTypes DEF Detect, TypeOK, N, DevType, NextCdrom
<1>7. QED
  BY <1>2, <1>4, <1>5, <1>6

LEMMA NamesInit == Init => NamesInv
BY InitTypeOK DEF Init, NamesInv, NamesDistinct

(* The fields of a node, one by one. *)
LEMMA NodeFields ==
  ASSUME NEW nd \in Node
  PROVE  /\ nd.slot \in Slots /\ nd.name[1] \in {"hd", "cdrom"} /\ nd.name[2] \in Nat
BY DEF Node

(* A node made for device next, with a number no mounted node of its kind *)
(* has reached, is distinct from every mounted node and keeps the bounds.  *)
LEMMA FreshNode ==
  ASSUME NamesInv, NEW m \in Node, m.slot = next,
         m.name[1] = "hd" => m.name[2] = drive_char,
         m.name[1] = "cdrom" => m.name[2] = cdrom_number
  PROVE  \A n \in nodes : n.name # m.name /\ n.slot # m.slot
<1>. SUFFICES ASSUME NEW n \in nodes PROVE n.name # m.name /\ n.slot # m.slot
  OBVIOUS
<1>1. n \in Node /\ n.slot < next /\ next \in Int
  BY SlotFacts DEF NamesInv, TypeOK, N
<1>2. n.name[1] = "hd" => n.name[2] < drive_char
  BY DEF NamesInv
<1>3. n.name[1] = "cdrom" => n.name[2] < cdrom_number
  BY DEF NamesInv
<1>4. n.name # m.name
  BY <1>1, <1>2, <1>3 DEF Node
<1>5. n.slot # m.slot
  BY <1>1, NodeFields, SlotFacts
<1>6. QED
  BY <1>4, <1>5

(* The bounds on a set of nodes that NamesInv states, for given counters. *)
NodeBounds(ns, nx, dc, cn) ==
  /\ \A n \in ns : n.slot < nx
  /\ \A n \in ns : n.name[1] = "hd" => n.name[2] < dc
  /\ \A n \in ns : n.name[1] = "cdrom" => n.name[2] < cn

LEMMA DetectNames ==
  ASSUME NamesInv, Detect
  PROVE  NamesInv'
<1>. DEFINE k == next
<1>1. /\ TypeOK /\ k \in Slots /\ stage = "probe" /\ TypeOK'
      /\ NodeBounds(nodes, next, drive_char, cdrom_number)
      /\ NamesDistinct
  BY DetectTypeOK DEF Detect, NamesInv, NodeBounds
<1>2. /\ next' = k + 1
      /\ stage' = "load" => next' = 1
      /\ stage' = "probe" => next' \in Slots
  BY <1>1, SlotFacts DEF Detect, N
<1>3. /\ drive_char' \in {drive_char, drive_char + 1}
      /\ cdrom_number' \in {cdrom_number, cdrom_number + 1}
  BY DEF Detect, NextDriveChar, NextCdrom
<1>4. NodeBounds(nodes, next', drive_char', cdrom_number')
  <2>a. nodes \in SUBSET Node /\ drive_char \in Nat /\ cdrom_number \in Nat
    BY <1>1 DEF TypeOK
  <2>b. next \in Int /\ next' \in Int /\ next <= next'
    BY <1>1, <1>2, SlotFacts
  <2>1. /\ nodes \in SUBSET Node
        /\ next \in Int /\ drive_char \in Int /\ cdrom_number \in Int
        /\ next' \in Int /\ drive_char' \in Int /\ cdrom_number' \in Int
        /\ next <= next' /\ drive_char <= drive_char' /\ cdrom_number <= cdrom_number'
    BY <1>3, <2>a, <2>b
  <2>2. \A n \in nodes : n.slot \in Int /\ n.name[2] \in Int
    BY <2>1, NodeFields, SlotFacts
  <2>3. QED
    BY <1>1, <2>1, <2>2 DEF NodeBounds
<1>5. SUFFICES /\ NodeBounds(nodes', next', drive_char', cdrom_number')
               /\ NamesDistinct'
  BY <1>1, <1>2 DEF NamesInv, NodeBounds
<1>6. CASE UNCHANGED nodes
  BY <1>1, <1>4, <1>6 DEF NamesDistinct
<1>7. CASE hw.sig[k] = "pata"
  <2>. DEFINE m == AtaDeviceCreate(k)
  <2>1. /\ nodes' = nodes \cup {m}
        /\ drive_char' = drive_char + 1
    BY <1>7 DEF Detect, NextDriveChar
  <2>2. m \in Node /\ m.slot = k /\ m.name = <<"hd", drive_char>>
    BY <1>1, DeviceTypes DEF AtaDeviceCreate
  <2>3. \A n \in nodes : n.name # m.name /\ n.slot # m.slot
    BY <2>2, FreshNode
  <2>4. NodeBounds({m}, next', drive_char', cdrom_number')
    <3>1. m.slot < next' /\ drive_char < drive_char'
      BY <1>1, <1>2, <2>1, <2>2, SlotFacts DEF TypeOK
    <3>2. m.name[1] = "hd" /\ m.name[2] = drive_char
      BY <2>2
    <3>3. QED
      BY <3>1, <3>2 DEF NodeBounds
  <2>5. QED
    BY <1>1, <1>4, <2>1, <2>3, <2>4 DEF NodeBounds, NamesDistinct
<1>8. CASE hw.sig[k] = "atapi" /\ ~hw.probe[k].err /\ MediumPresent(hw.probe[k].lba)
  <2>. DEFINE m == AtapiDeviceCreate(AtapiDeviceInit(dev[k], k), k)
  <2>1. /\ nodes' = nodes \cup {m}
        /\ cdrom_number' = cdrom_number + 1
    BY <1>8 DEF Detect, NextCdrom
  <2>2. m \in Node /\ m.slot = k /\ m.name = <<"cdrom", cdrom_number>>
    BY <1>1, DeviceTypes DEF AtapiDeviceCreate
  <2>3. \A n \in nodes : n.name # m.name /\ n.slot # m.slot
    BY <2>2, FreshNode
  <2>4. NodeBounds({m}, next', drive_char', cdrom_number')
    <3>1. m.slot < next' /\ cdrom_number < cdrom_number'
      BY <1>1, <1>2, <2>1, <2>2, SlotFacts DEF TypeOK
    <3>2. m.name[1] = "cdrom" /\ m.name[2] = cdrom_number
      BY <2>2
    <3>3. QED
      BY <3>1, <3>2 DEF NodeBounds
  <2>5. QED
    BY <1>1, <1>4, <2>1, <2>3, <2>4 DEF NodeBounds, NamesDistinct
<1>9. QED
  <2>1. hw.sig[k] \in {"absent", "other", "pata", "atapi"}
    BY <1>1, HwFacts DEF TypeOK
  <2>2. hw.sig[k] \in {"absent", "other"} \/ (hw.sig[k] = "atapi"
          /\ ~(~hw.probe[k].err /\ MediumPresent(hw.probe[k].lba)))
        => UNCHANGED nodes
    BY DEF Detect
  <2>3. QED
    BY <1>6, <1>7, <1>8, <2>1, <2>2

LEMMA NamesNext == NamesInv /\ [Next]_vars => NamesInv'
<1>. SUFFICES ASSUME NamesInv, [Next]_vars PROVE NamesInv'
  OBVIOUS
<1>1. CASE Load
  BY <1>1, LoadTypeOK, SlotFacts DEF Load, NamesInv, NamesDistinct
<1>2. CASE Detect
  BY <1>2, DetectNames
<1>3. CASE UNCHANGED vars
  BY <1>3 DEF vars, NamesInv, NamesDistinct, TypeOK
<1>4. QED
  BY <1>1, <1>2, <1>3 DEF Next

(* ata_device_detect names nodes with ata_drive_char and cdrom_number,    *)
(* each advanced past the name it hands out: no two mounted nodes share a *)
(* name or a device, for any number of devices and any machine.           *)
THEOREM NamesAlwaysDistinct == Spec => []NamesDistinct
<1>1. NamesInv => NamesDistinct
  BY DEF NamesInv
<1>2. QED
  BY <1>1, NamesInit, NamesNext, PTL DEF Spec

(* Every variable of the bring-up keeps its type, for every set of        *)
(* devices and every machine: ata_device_detect indexes only the devices  *)
(* ata_initialize enumerates and mounts only well-formed nodes.           *)
THEOREM LifecycleTypeCorrect == Spec => []TypeOK
<1>1. NamesInv => TypeOK
  BY DEF NamesInv
<1>2. QED
  BY <1>1, NamesInit, NamesNext, PTL DEF Spec

LEMMA PciNext ==
  ASSUME PiixMachines, PciInv, [Next]_vars
  PROVE  PciInv'
<1>1. CASE Load
  BY <1>1 DEF Load, PciInv, PiixMachines, PciWritesOnlyController
<1>2. CASE Detect
  <2>1. stage = "probe" /\ stage' # "load" /\ UNCHANGED <<hw, ata_pci>>
    BY <1>2 DEF Detect
  <2>2. pci_writes' \subseteq pci_writes \cup {ata_pci}
    BY <1>2 DEF Detect
  <2>3. QED
    BY <2>1, <2>2 DEF PciInv, PciWritesOnlyController
<1>3. CASE UNCHANGED vars
  BY <1>3 DEF vars, PciInv, PciWritesOnlyController
<1>4. QED
  BY <1>1, <1>2, <1>3 DEF Next

(* On a machine whose IDE function find_ata_pci recognises, ata_device_init *)
(* sets bus mastering in that function's COMMAND register and in no other  *)
(* PCI function's: the write to the host bridge needs a failed scan.       *)
THEOREM PciWritesOnIdeController ==
  ASSUME PiixMachines
  PROVE  Spec => []PciWritesOnlyController
<1>1. Init => PciInv
  BY DEF Init, PciInv, PciWritesOnlyController
<1>2. PciInv => PciWritesOnlyController
  BY DEF PciInv
<1>3. QED
  BY <1>1, <1>2, PciNext, PTL DEF Spec

LEMMA DetectDma ==
  ASSUME PiixMachines, IoBarMachines, DmaInv, Detect
  PROVE  DmaBaseValid'
<1>. DEFINE k == next
<1>1. /\ TypeOK /\ k \in Slots /\ \A n \in nodes : n.slot < k
      /\ ata_pci = "ide" /\ ata_pci' = "ide"
      /\ hw' = hw /\ hw.bar4 \in Nat /\ hw.bar4 % 2 = 1
  BY LifecycleHwAssumption DEF Detect, DmaInv, NamesInv, PciInv, IoBarMachines, TypeOK
<1>2. \A j \in Slots \ {k} : dev'[j] = dev[j]
  BY <1>1 DEF Detect, TypeOK
<1>3. \A n \in nodes : n.name[1] = "hd" => dev'[n.slot].bar4 = hw.bar4 - (hw.bar4 % 4)
  <2>1. \A n \in nodes : n.slot \in Slots \ {k}
    BY <1>1, NodeFields, SlotFacts DEF TypeOK
  <2>2. QED
    BY <1>2, <2>1 DEF DmaInv, DmaBaseValid
<1>4. CASE UNCHANGED nodes
  BY <1>1, <1>3, <1>4 DEF DmaBaseValid
<1>5. CASE hw.sig[k] = "pata"
  <2>1. /\ nodes' = nodes \cup {AtaDeviceCreate(k)}
        /\ dev' = [dev EXCEPT ![k] = AtaDeviceInit(dev[k], k)]
    BY <1>5 DEF Detect
  <2>2. dev'[k].bar4 = hw.bar4 - (hw.bar4 % 4)
    BY <1>1, <2>1 DEF AtaDeviceInit, MaskBar, TypeOK
  <2>3. AtaDeviceCreate(k).slot = k
    BY DEF AtaDeviceCreate
  <2>4. QED
    BY <1>1, <1>3, <2>1, <2>2, <2>3 DEF DmaBaseValid
<1>6. CASE hw.sig[k] = "atapi" /\ ~hw.probe[k].err /\ MediumPresent(hw.probe[k].lba)
  <2>1. nodes' = nodes \cup {AtapiDeviceCreate(AtapiDeviceInit(dev[k], k), k)}
    BY <1>6 DEF Detect
  <2>2. AtapiDeviceCreate(AtapiDeviceInit(dev[k], k), k).name[1] = "cdrom"
    BY DEF AtapiDeviceCreate
  <2>3. QED
    BY <1>1, <1>3, <2>1, <2>2 DEF DmaBaseValid
<1>7. QED
  <2>1. hw.sig[k] \in {"absent", "other", "pata", "atapi"}
    BY <1>1, HwFacts DEF TypeOK
  <2>2. hw.sig[k] \in {"absent", "other"} \/ (hw.sig[k] = "atapi"
          /\ ~(~hw.probe[k].err /\ MediumPresent(hw.probe[k].lba)))
        => UNCHANGED nodes
    BY DEF Detect
  <2>3. QED
    BY <1>4, <1>5, <1>6, <2>1, <2>2

LEMMA DmaNext ==
  ASSUME PiixMachines, IoBarMachines, DmaInv, [Next]_vars
  PROVE  DmaInv'
<1>1. NamesInv' /\ PciInv'
  BY NamesNext, PciNext DEF DmaInv
<1>2. CASE Load
  BY <1>1, <1>2 DEF Load, DmaInv, DmaBaseValid
<1>3. CASE Detect
  <2>1. stage' # "load"
    BY <1>3 DEF Detect
  <2>2. QED
    BY <1>1, <1>3, <2>1, DetectDma DEF DmaInv
<1>4. CASE UNCHANGED vars
  BY <1>1, <1>4 DEF vars, DmaInv, DmaBaseValid
<1>5. QED
  BY <1>2, <1>3, <1>4 DEF Next

(* On a machine with a recognised controller whose BAR4 is an I/O BAR,    *)
(* every /dev/hd device is given that BAR4, masked, as its bus-master     *)
(* base, and keeps it: ata_device_create mounts the node in the same call *)
(* of ata_device_detect that runs ata_device_init, and no later call       *)
(* touches the device again.                                               *)
THEOREM DmaBaseAlwaysValid ==
  ASSUME PiixMachines, IoBarMachines
  PROVE  Spec => []DmaBaseValid
<1>1. Init => DmaInv
  BY NamesInit DEF Init, DmaInv, PciInv, PciWritesOnlyController, DmaBaseValid
<1>2. DmaInv => DmaBaseValid
  BY DEF DmaInv
<1>3. QED
  BY <1>1, <1>2, DmaNext, PTL DEF Spec

LEMMA DetectCdrom ==
  ASSUME MediumMachines, CdromInv, Detect
  PROVE  CdromInv'
<1>. DEFINE k == next
<1>1. /\ NamesInv' /\ TypeOK /\ k \in Slots /\ hw' = hw
      /\ next' = k + 1 /\ nodes \subseteq nodes'
      /\ (stage' = "done" => k = N)
  <2>1. NamesInv'
    BY NamesNext DEF CdromInv, Next
  <2>2. TypeOK /\ k \in Slots
    BY DEF CdromInv, NamesInv, Detect
  <2>3. hw' = hw /\ next' = k + 1 /\ (stage' = "done" => k = N)
    BY DEF Detect, N
  <2>4. nodes \subseteq nodes'
    BY Zenon DEF Detect
  <2>5. QED
    BY <2>1, <2>2, <2>3, <2>4
<1>2. stage' = "done" => next' = N + 1
  BY <1>1
<1>3. ASSUME NEW j \in Slots, j < k, hw.sig[j] = "atapi", ~hw.probe[j].err
      PROVE  \E n \in nodes' : n.slot = j /\ n.name[1] = "cdrom"
  BY <1>1, <1>3 DEF CdromInv
<1>4. ASSUME hw.sig[k] = "atapi", ~hw.probe[k].err
      PROVE  \E n \in nodes' : n.slot = k /\ n.name[1] = "cdrom"
  <2>1. MediumPresent(hw.probe[k].lba)
    BY <1>1, <1>4 DEF MediumMachines, MediumPresent, TypeOK
  <2>2. AtapiDeviceCreate(AtapiDeviceInit(dev[k], k), k) \in nodes'
    BY <1>4, <2>1 DEF Detect
  <2>3. QED
    BY <2>2 DEF AtapiDeviceCreate
<1>5. \A j \in Slots : j < next' => j < k \/ j = k
  BY <1>1, SlotFacts
<1>6. QED
  BY <1>1, <1>2, <1>3, <1>4, <1>5 DEF CdromInv

LEMMA CdromNext ==
  ASSUME MediumMachines, CdromInv, [Next]_vars
  PROVE  CdromInv'
<1>1. NamesInv'
  BY NamesNext DEF CdromInv
<1>2. CASE Load
  BY <1>1, <1>2 DEF Load, CdromInv
<1>3. CASE Detect
  BY <1>3, DetectCdrom
<1>4. CASE UNCHANGED vars
  BY <1>1, <1>4 DEF vars, CdromInv
<1>5. QED
  BY <1>2, <1>3, <1>4 DEF Next

(* On a machine whose ATAPI drives hold media, every drive that answers   *)
(* IDENTIFY PACKET and READ CAPACITY has a /dev/cdrom node once           *)
(* ata_initialize has probed the four devices: ata_device_detect mounts   *)
(* it in the call that probes the drive and never unmounts it.  Without  *)
(* the medium hypothesis atapi_device_init returns 1 at 598 and the spec's *)
(* promise fails (lifecycle_no_medium.cfg).                                *)
THEOREM CdromForEveryAnsweringAtapi ==
  ASSUME MediumMachines
  PROVE  Spec => []CdromForEveryAtapi
<1>1. Init => CdromInv
  BY NamesInit, SlotFacts DEF Init, CdromInv
<1>2. CdromInv => CdromForEveryAtapi
  BY SlotFacts DEF CdromInv, CdromForEveryAtapi, NamesInv, TypeOK
<1>3. QED
  BY <1>1, <1>2, CdromNext, PTL DEF Spec

=============================================================================
