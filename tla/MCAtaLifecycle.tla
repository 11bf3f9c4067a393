---------------------------- MODULE MCAtaLifecycle ----------------------------
(***************************************************************************)
(* Machines for AtaLifecycle: the four legacy devices, each absent, an    *)
(* unknown signature, a PATA drive or an ATAPI drive, behind a PCI IDE     *)
(* function that the driver may or may not recognise.                      *)
(***************************************************************************)
EXTENDS AtaLifecycle, TLC

MCSlots == 1 .. 4
MCSectorSize == 4

(* Two IDENTIFY capacities: sectors_48 set, and only sectors_28 set. *)
Idents == {[sectors_48 |-> 3, sectors_28 |-> 2], [sectors_48 |-> 0, sectors_28 |-> 2]}

(* BAR4 values: an I/O BAR (bit 0 set) and a memory BAR. *)
IoBar4 == 49
MemBar4 == 48

(* The machines a run draws from: PCI ids, BAR4 values, signatures and    *)
(* READ CAPACITY answers.                                                  *)
Machines(pcis, bars, sigs, probes) ==
  [pci : pcis, busmaster : [PciFunctions -> BOOLEAN], bar4 : bars,
   sig : [MCSlots -> sigs], ident : [MCSlots -> {[sectors_48 |-> 3, sectors_28 |-> 2]}],
   probe : [MCSlots -> probes]]

Media == {[err |-> FALSE, lba |-> 1, size |-> 2], [err |-> FALSE, lba |-> 2, size |-> 2]}

(* READ CAPACITY failing with ERR. *)
ProbeError == [err |-> TRUE, lba |-> 0, size |-> 0]

(* A recognised controller with an I/O BAR4, media in every ATAPI drive.  *)
GoodMachines ==
  Machines({"8086:7010", "8086:7111"}, {IoBar4}, {"absent", "other", "pata", "atapi"},
           Media \cup {ProbeError})

(* Machines with a drive without a medium (READ CAPACITY returns LBA 0). *)
NoMediumMachines ==
  Machines({"8086:7010"}, {IoBar4}, {"absent", "atapi"},
           {[err |-> FALSE, lba |-> 0, size |-> 0], [err |-> FALSE, lba |-> 1, size |-> 2]})

(* Machines whose BAR4 is a memory BAR. *)
MemBarMachines == Machines({"8086:7010"}, {MemBar4}, {"absent", "pata"}, {ProbeError})

(* Machines with a PCI IDE function of another vendor (VIA 1106:0571). *)
OtherPciMachines == Machines({"1106:0571"}, {IoBar4}, {"absent", "pata"}, {ProbeError})

(* Machines with PATA drives of both IDENTIFY kinds. *)
PataMachines ==
  [pci : {"8086:7010"}, busmaster : [PciFunctions -> BOOLEAN], bar4 : {IoBar4},
   sig : [MCSlots -> {"absent", "pata"}], ident : [MCSlots -> Idents],
   probe : [MCSlots -> {ProbeError}]]

=============================================================================
