----------------------------- MODULE MCAtaLegacy -----------------------------
(***************************************************************************)
(* Small instances of AtaLegacy for TLC: the drive of MCAtaDisk (3 sectors *)
(* of 4 bytes), and the request shapes the runs draw from.                 *)
(***************************************************************************)
EXTENDS AtaLegacy, TLC

MCSectorSize == 4
MCSectors48 == 3
MCSectors28 == 2
MCSectorLimit == 5
\* 2^32 stands above every offset and size the runs use, except in
\* legacy_alias, where a 32-bit word narrower than the drive stands for a
\* drive larger than 4 GiB
MCU32Range == 2147483647
MCSmallU32Range == 8

(* Every (offset, size) whose range ends at most one sector past the end.  *)
AnyRequests ==
  {r \in [offset : 0 .. MaxOffset + 1, size : 1 .. MaxOffset + 1] :
     r.offset + r.size <= MaxOffset + SectorSize}

InCapacityRequests == {r \in AnyRequests : r.offset + r.size <= MaxOffset}

(* An unaligned start reaches the next sector boundary (prefix_size bytes *)
(* are copied whatever the size).                                          *)
HeadFits(r) ==
  r.offset % SectorSize = 0
  \/ r.offset \div SectorSize < (r.offset + r.size - 1) \div SectorSize

(* An unaligned end lies in a sector after the one following the prefix   *)
(* (the postfix needs start_block < end_block).                            *)
TailFits(r) ==
  (r.offset + r.size) % SectorSize = 0
  \/ (r.offset + SectorSize - 1) \div SectorSize
       < (r.offset + r.size - 1) \div SectorSize

(* The shapes the legacy adapter serves correctly, and requests that      *)
(* start past the end.                                                     *)
LegacyHandledRequests ==
  {r \in AnyRequests :
     \/ r.offset > MaxOffset
     \/ r \in InCapacityRequests /\ HeadFits(r) /\ TailFits(r)}

(* Requests inside the drive whose end is unaligned and lies in the       *)
(* sector right after the prefix, or in the first sector.                  *)
TailOverflowRequests ==
  {r \in InCapacityRequests : HeadFits(r) /\ ~TailFits(r)}

(* Handled requests at offsets from 2^32 on, in the narrow-word instance. *)
AliasRequests ==
  {r \in LegacyHandledRequests : r.offset >= MCSmallU32Range
                                 /\ r.offset <= MaxOffset}

=============================================================================
