------------------------------ MODULE MCAtaDisk ------------------------------
(***************************************************************************)
(* Small instances of AtaDisk for TLC: a 3-sector drive with 4-byte       *)
(* sectors (sectors_48 = 3 wins over sectors_28 = 2), and the request      *)
(* shapes the runs draw from.                                              *)
(***************************************************************************)
EXTENDS AtaDisk, TLC

MCSectorSize == 4
MCSectors48 == 3
MCSectors28 == 2
MCSectorLimit == 5
\* the largest modulus TLC's integers allow; every comparison the model
\* makes is against values below MCSectorLimit, so 2^64 behaves the same
MCUllRange == 2147483647

(* Every (offset, size) whose range ends at most one sector past the end.  *)
AnyRequests ==
  {r \in [offset : 0 .. MaxOffset + 1, size : 1 .. MaxOffset + 1] :
     r.offset + r.size <= MaxOffset + SectorSize}

(* Requests that lie inside the drive. *)
InCapacityRequests == {r \in AnyRequests : r.offset + r.size <= MaxOffset}

(* Requests inside the drive that are whole sectors, or that cross at     *)
(* least one sector boundary (the shapes the file system above issues),    *)
(* and requests that start past the end.                                   *)
HandledRequests == {r \in AnyRequests : HandledRequest(r)}

(* The requests OnDriveRequest admits. *)
OnDriveRequests == {r \in AnyRequests : OnDriveRequest(r)}

WriterSymmetry == Permutations(Writers)

=============================================================================
