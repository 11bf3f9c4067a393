------------------------------- MODULE MCAtapi -------------------------------
(***************************************************************************)
(* Small instances of Atapi for TLC: a medium of 3 blocks of 2 bytes       *)
(* (atapi_lba = 2), and the request shapes the runs draw from.             *)
(***************************************************************************)
EXTENDS Atapi, TLC

MCCdSectorSize == 2
MCCdLastLba == 2
MCSectorLimit == 4
\* the largest modulus TLC's integers allow; every comparison the model
\* makes is against values below MCSectorLimit, so 2^64 behaves the same
MCUllRange == 2147483647

(* Requests inside the medium that are whole blocks or cross a block      *)
(* boundary, and requests that start past its end.                         *)
CdHandledRequests ==
  {r \in [offset : 0 .. CdMaxOffset + 1, size : 1 .. CdMaxOffset] :
     \/ r.offset > CdMaxOffset /\ r.size = 1
     \/ /\ r.offset + r.size <= CdMaxOffset
        /\ \/ r.offset % CdSectorSize = 0 /\ r.size % CdSectorSize = 0
           \/ r.offset \div CdSectorSize
                < (r.offset + r.size - 1) \div CdSectorSize}

(* Every request InMediumRequest admits, up to the size of the medium. *)
CdInMediumRequests ==
  {r \in [offset : 0 .. CdMaxOffset, size : 1 .. CdMaxOffset] : InMediumRequest(r)}

ReaderSymmetry == Permutations(CdReaders)

=============================================================================
