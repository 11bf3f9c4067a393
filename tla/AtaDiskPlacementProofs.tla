------------------------ MODULE AtaDiskPlacementProofs ------------------------
(***************************************************************************)
(* Proofs that read_ata stays inside the caller's buffer, that write_ata   *)
(* puts every byte where it belongs, and that read_ata hands back the      *)
(* bytes of the range it was asked for, for every sector size, capacity    *)
(* and number of readers and writers.  The inductive invariants grow in    *)
(* three layers: PosInv (where each caller stands in its request), then    *)
(* PlaceInv (what the disk and the staged sector images hold), then        *)
(* ReadInv (what each reader's buffer holds so far).                       *)
(***************************************************************************)
EXTENDS AtaDiskProofs

(* Every request a caller may pass is one HandledRequest admits. *)
AllRequestsHandled == \A r \in Requests : HandledRequest(r)

(* Every request fits the caller buffer the model gives a reader. *)
RequestsFitBuffer == \A r \in Requests : 0 .. r.size - 1 \subseteq BufIdx

(* Where a caller of read_ata or write_ata stands relative to its request: *)
(* x_offset is 0 until the prefix; from the postfix on, offset + x_offset  *)
(* is the first byte of sector start_block; the postfix finds              *)
(* start_block <= end_block; in the loop size is the requested size and   *)
(* the sectors up to end_block end where the request's partial last       *)
(* sector, if any, begins.                                                 *)
Position(p) ==
  /\ pc[p] = "prefix" => x_offset[p] = 0
  /\ pc[p] \in {"postfix", "loop"} =>
       Off(p) + x_offset[p] = start_block[p] * SectorSize
  /\ pc[p] = "postfix" => start_block[p] <= end_block[p]
  /\ pc[p] = "loop" =>
       /\ size[p] = req[p].size
       /\ (end_block[p] + 1) * SectorSize
            = Off(p) + req[p].size - ((Off(p) + req[p].size) % SectorSize)

(* A sector image handed to write_sector_retry holds only bytes that      *)
(* belong in the sector it is written to.                                  *)
Staged(w) ==
  retry[w] # "none" =>
    \A j \in ByteIdx : WellPlaced(tmp[w][j], lba[w] * SectorSize + j)

(* The parts of a reader's buffer filled so far hold the bytes of the     *)
(* request's range: the bytes before x_offset from the postfix on, the     *)
(* partial last sector in the loop, all of them once read_ata returns.     *)
ReaderPlace(r) ==
  /\ pc[r] \in {"postfix", "loop"} =>
       \A k \in 0 .. x_offset[r] - 1 : WellPlaced(buffer[r][k], Off(r) + k)
  /\ pc[r] = "loop" =>
       \A k \in (end_block[r] + 1) * SectorSize - Off(r) .. req[r].size - 1 :
         WellPlaced(buffer[r][k], Off(r) + k)
  /\ pc[r] = "done" =>
       \A k \in 0 .. size[r] - 1 : WellPlaced(buffer[r][k], Off(r) + k)

PosInv ==
  /\ DiskBusInv
  /\ \A p \in Procs : Position(p)
  /\ NoBufferOverflow

PlaceInv ==
  /\ PosInv
  /\ DiskPlacement
  /\ \A w \in Writers : Staged(w)

ReadInv ==
  /\ PlaceInv
  /\ \A r \in Readers : ReaderPlace(r)

-----------------------------------------------------------------------------
(* Division by the sector size.                                            *)

(* A byte position is its sector times the sector size plus its place in  *)
(* the sector.                                                             *)
LEMMA DivId ==
  ASSUME NEW x \in Nat
  PROVE  x = SectorSize * (x \div SectorSize) + (x % SectorSize)
BY SectorSizeAssumption

(* ... and that decomposition is the only one. *)
LEMMA DivUnique ==
  ASSUME NEW x \in Int, NEW q \in Int, NEW m \in 0 .. SectorSize - 1,
         x = SectorSize * q + m
  PROVE  x \div SectorSize = q /\ x % SectorSize = m
BY SectorSizeAssumption

(* The sector holding byte x starts at or before it. *)
LEMMA DivBelow ==
  ASSUME NEW x \in Nat
  PROVE  (x \div SectorSize) * SectorSize <= x
BY SectorSizeAssumption

LEMMA MulMono ==
  ASSUME NEW a \in Int, NEW b \in Int, a <= b
  PROVE  a * SectorSize <= b * SectorSize
BY SectorSizeAssumption

(* A range ending inside a sector has its last byte in the sector of its  *)
(* end.                                                                    *)
LEMMA TailBlock ==
  ASSUME NEW y \in Nat \ {0}, y % SectorSize # 0
  PROVE  (y - 1) \div SectorSize = y \div SectorSize
<1>1. y = SectorSize * (y \div SectorSize) + (y % SectorSize)
  BY SectorSizeAssumption
<1>2. (y % SectorSize) - 1 \in 0 .. SectorSize - 1 /\ y \div SectorSize \in Int
  BY SectorSizeAssumption
<1>3. y - 1 = SectorSize * (y \div SectorSize) + ((y % SectorSize) - 1)
  BY <1>1, <1>2, SectorSizeAssumption
<1>4. QED BY <1>2, <1>3, DivUnique

(* A range ending on a sector boundary ends with the sector of its last   *)
(* byte.                                                                   *)
LEMMA AlignedEnd ==
  ASSUME NEW y \in Nat \ {0}, y % SectorSize = 0
  PROVE  ((y - 1) \div SectorSize + 1) * SectorSize = y
<1>1. y = SectorSize * (y \div SectorSize)
  BY SectorSizeAssumption
<1>2. y - 1 = SectorSize * (y \div SectorSize - 1) + (SectorSize - 1)
  BY <1>1, SectorSizeAssumption
<1>3. (y - 1) \div SectorSize = y \div SectorSize - 1
  BY <1>2, DivUnique, SectorSizeAssumption
<1>4. QED BY <1>1, <1>3, SectorSizeAssumption

(* Later bytes lie in the same or a later sector. *)
LEMMA DivMonotone ==
  ASSUME NEW a \in Nat, NEW b \in Nat, a <= b
  PROVE  a \div SectorSize <= b \div SectorSize
<1>1. PICK qa \in Nat, qb \in Nat : qa = a \div SectorSize /\ qb = b \div SectorSize
  BY DivMod
<1>2. qa * SectorSize <= a
  BY <1>1, DivBelow
<1>2a. PICK mb \in 0 .. SectorSize - 1 : b = SectorSize * qb + mb
  BY <1>1, DivId, DivMod
<1>2b. b < (qb + 1) * SectorSize
  BY <1>1, <1>2a, SectorSizeAssumption
<1>3. SUFFICES ASSUME qb + 1 <= qa PROVE FALSE
  BY <1>1
<1>4. (qb + 1) * SectorSize <= qa * SectorSize
  BY <1>1, <1>3, MulMono
<1>5. QED BY <1>2, <1>2b, <1>4, SectorSizeAssumption

(* A request ending inside a sector ends at that sector's start plus      *)
(* (offset + size) % SectorSize.                                           *)
LEMMA TailSplit ==
  ASSUME NEW o \in Nat, NEW n \in Nat \ {0}, (o + n) % SectorSize # 0
  PROVE  o + n = SectorSize * ((o + n - 1) \div SectorSize)
                   + ((o + n) % SectorSize)
<1>1. (o + n - 1) \div SectorSize = (o + n) \div SectorSize
  BY TailBlock
<1>2. o + n = SectorSize * ((o + n) \div SectorSize) + ((o + n) % SectorSize)
  BY DivId
<1>3. QED BY <1>1, <1>2, Zenon

(* end_block-- on a sector of the drive other than 0 does not wrap: the   *)
(* sector count fits in 64 bits.                                           *)
LEMMA DecExact ==
  ASSUME NEW e \in Sectors, e # 0
  PROVE  Dec(e) = e - 1
<1>1. e \in 1 .. NumSectors - 1
  BY DEF Sectors
<1>2. NumSectors \in Nat /\ UllRange \in Nat /\ NumSectors < UllRange
  BY ConstantFacts, SectorCountAssumption
<1>3. e - 1 \in 0 .. UllRange - 1
  BY <1>1, <1>2
<1>4. QED BY <1>2, <1>3 DEF Dec

(* The requests HandledRequest admits are among those OnDriveRequest      *)
(* admits: a piece of sector 0 neither is whole sectors nor crosses a     *)
(* boundary.                                                               *)
LEMMA HandledOnDrive == AllRequestsHandled => AllRequestsOnDrive
<1> SUFFICES ASSUME AllRequestsHandled, NEW r \in Requests
             PROVE  OnDriveRequest(r)
  BY DEF AllRequestsOnDrive
<1>1. r.offset \in Nat /\ r.size \in Nat \ {0} /\ HandledRequest(r)
  BY ConstantFacts DEF AllRequestsHandled
<1>2. CASE r.offset = 0 /\ r.size < SectorSize /\ ~(r.offset > MaxOffset)
  <2>1. r.size = SectorSize * 0 + r.size /\ r.size \in 0 .. SectorSize - 1
    BY <1>1, <1>2, SectorSizeAssumption
  <2>2. r.size % SectorSize = r.size
    BY <1>1, <2>1, DivUnique
  <2>3. (r.size - 1) \div SectorSize = 0 /\ 0 \div SectorSize = 0
    <3>1. r.size - 1 = SectorSize * 0 + (r.size - 1) /\ r.size - 1 \in 0 .. SectorSize - 1
      BY <1>1, <1>2, SectorSizeAssumption
    <3>2. 0 = SectorSize * 0 + 0 /\ 0 \in 0 .. SectorSize - 1
      BY SectorSizeAssumption
    <3>3. QED BY <3>1, <3>2, DivUnique
  <2>3a. ~(r.offset % SectorSize = 0 /\ r.size % SectorSize = 0)
    BY <1>1, <2>2
  <2>3b. ~(r.offset \div SectorSize < (r.offset + r.size - 1) \div SectorSize)
    BY <1>1, <1>2, <2>3
  <2>4. QED BY <1>1, <1>2, <2>3a, <2>3b DEF HandledRequest
<1>3. QED BY <1>1, <1>2 DEF HandledRequest, OnDriveRequest

(* What HandledRequest says of a caller's request once it is past Start. *)
LEMMA HandledFacts ==
  ASSUME TypeOK, AllRequestsHandled, NEW p \in Procs, Off(p) <= MaxOffset
  PROVE  /\ Off(p) + req[p].size <= MaxOffset
         /\ \/ Off(p) % SectorSize = 0 /\ req[p].size % SectorSize = 0
            \/ Off(p) \div SectorSize
                 < (Off(p) + req[p].size - 1) \div SectorSize
BY ConstantFacts DEF TypeOK, AllRequestsHandled, HandledRequest, Off

(* A request starting hd bytes into sector q and ending in a later sector *)
(* last is longer than the rest of sector q: the prefix write_ata merges   *)
(* is made of the caller's bytes only.                                     *)
LEMMA HeadFits ==
  ASSUME NEW o \in Nat, NEW n \in Nat, NEW q \in Nat, NEW last \in Nat,
         NEW hd \in 0 .. SectorSize - 1,
         o = SectorSize * q + hd, q < last, last * SectorSize <= o + n - 1
  PROVE  SectorSize - hd < n
<1>1. (q + 1) * SectorSize <= last * SectorSize
  BY MulMono
<1>2. QED BY <1>1, SectorSizeAssumption

-----------------------------------------------------------------------------
(* Frames.                                                                 *)

(* Without hardware failures a read of a sector of the drive loads it     *)
(* into the DMA buffer.                                                    *)
LEMMA DmaReadFresh ==
  ASSUME HwFailures = FALSE, NEW n \in Sectors, DmaRead(n)
  PROVE  dma_start' = disk[n]
BY DEF DmaRead, Outcomes

(* read_ata and write_ata never touch the disk themselves, nor the        *)
(* locals of another caller.                                               *)
LEMMA AdapterKeeps ==
  ASSUME TypeOK, NEW p \in Procs,
         Start(p) \/ Prefix(p) \/ Postfix(p) \/ Loop(p)
  PROVE  /\ disk' = disk /\ req' = req
         /\ \A x \in Procs \ {p} :
              /\ x_offset'[x] = x_offset[x]
              /\ x \in Writers => tmp'[x] = tmp[x]
              /\ x \in Readers => buffer'[x] = buffer[x]
BY DEF Start, Prefix, Postfix, Loop, BeginRetry, TypeOK

(* The disk placement speaks of the disk and the requests only. *)
LEMMA DiskFrame ==
  ASSUME DiskPlacement, disk' = disk, req' = req
  PROVE  DiskPlacement'
BY DEF DiskPlacement, WellPlaced

(* Position(x), Staged(x) and ReaderPlace(x) speak of caller x's locals *)
(* and the requests only.                                                  *)
LEMMA PositionFrame ==
  ASSUME NEW x \in Procs, Position(x), req' = req,
         pc'[x] = pc[x], size'[x] = size[x], x_offset'[x] = x_offset[x],
         start_block'[x] = start_block[x], end_block'[x] = end_block[x]
  PROVE  Position(x)'
BY DEF Position, Off

LEMMA StagedFrame ==
  ASSUME NEW x \in Writers, Staged(x), req' = req,
         retry'[x] = retry[x], tmp'[x] = tmp[x], lba'[x] = lba[x]
  PROVE  Staged(x)'
BY SMTT(10) DEF Staged, WellPlaced

LEMMA ReaderFrame ==
  ASSUME NEW x \in Readers, ReaderPlace(x), req' = req,
         pc'[x] = pc[x], size'[x] = size[x], x_offset'[x] = x_offset[x],
         end_block'[x] = end_block[x], buffer'[x] = buffer[x]
  PROVE  ReaderPlace(x)'
BY DEF ReaderPlace, WellPlaced, Off

-----------------------------------------------------------------------------
(* Where each caller stands, and that read_ata stays inside the caller's  *)
(* buffer.                                                                 *)

(* A copy into a reader's buffer that ends inside the request leaves the  *)
(* bytes past the request untouched.                                       *)
LEMMA CopyFits ==
  ASSUME TypeOK, NoBufferOverflow, req' = req, NEW r \in Readers,
         NEW at \in Int, NEW len \in Int, at + len <= req[r].size,
         \E data, from :
           buffer' = [buffer EXCEPT ![r] = CopyOut(r, at, data, from, len)]
  PROVE  NoBufferOverflow'
<1> SUFFICES ASSUME NEW x \in Readers, NEW k \in BufIdx, k >= req'[x].size
             PROVE  buffer'[x][k] = Empty
  BY DEF NoBufferOverflow
<1>1. k \in Int /\ req[r].size \in Nat
  BY ConstantFacts, SMTT(10) DEF BufIdx, TypeOK, Procs
<1>2. CASE x = r
  <2>0. PICK data, from :
          buffer' = [buffer EXCEPT ![r] = CopyOut(r, at, data, from, len)]
    BY Zenon
  <2>1. buffer'[r][k] = buffer[r][k]
    BY <1>1, <1>2, <2>0 DEF CopyOut, TypeOK
  <2>2. QED BY <1>2, <2>1 DEF NoBufferOverflow
<1>3. CASE x # r
  <2>0. PICK data, from :
          buffer' = [buffer EXCEPT ![r] = CopyOut(r, at, data, from, len)]
    BY Zenon
  <2>1. QED BY <1>3, <2>0 DEF NoBufferOverflow, TypeOK
<1>4. QED BY <1>2, <1>3

(* Start sets x_offset to 0 and leaves the buffers alone. *)
LEMMA StartPos ==
  ASSUME PosInv, NEW p \in Procs, Start(p)
  PROVE  Position(p)' /\ NoBufferOverflow'
<1>0. /\ TypeOK /\ NoBufferOverflow /\ buffer' = buffer /\ req' = req
      /\ x_offset'[p] = 0 /\ pc'[p] \in {"done", "prefix"}
  BY DEF PosInv, DiskBusInv, Start, TypeOK
<1>1. Position(p)'
  BY <1>0 DEF Position
<1>2. NoBufferOverflow'
  BY <1>0 DEF NoBufferOverflow
<1>3. QED BY <1>1, <1>2

(* The prefix moves x_offset and start_block past a partial first sector, *)
(* which a handled request crosses the end of, so start_block stays at or *)
(* before end_block and the bytes copied out lie inside the request.       *)
LEMMA PrefixPos ==
  ASSUME PosInv, AllRequestsHandled, NEW p \in Procs, Prefix(p)
  PROVE  Position(p)' /\ NoBufferOverflow'
<1> DEFINE o == Off(p)
           n == req[p].size
           S == SectorSize
<1> USE DEF o, n, S
<1>0. /\ TypeOK /\ ProcBus(p) /\ Position(p) /\ NoBufferOverflow
      /\ pc[p] = "prefix" /\ pc'[p] = "postfix" /\ req' = req
      /\ end_block'[p] = end_block[p]
  BY DEF PosInv, DiskBusInv, Prefix, TypeOK
<1>1. /\ o \in Nat /\ n \in Nat \ {0} /\ o <= MaxOffset
      /\ Off(p)' = o /\ req'[p].size = n
  BY <1>0, HandledOnDrive, ReqFacts DEF ProcBus, Off
<1>2. S \in Nat \ {0} /\ o + n - 1 \in Nat
  BY <1>1, SectorSizeAssumption
<1>3. PICK q \in Nat, hd \in 0 .. S - 1, last \in Nat :
        /\ q = o \div S /\ hd = o % S
        /\ last = (o + n - 1) \div S
  BY <1>1, <1>2, DivMod, Zenon
<1>3a. q \in Nat /\ hd \in 0 .. S - 1 /\ last \in Nat
  BY <1>3
<1>4. o = S * q + hd
  <2>1. o = S * (o \div S) + (o % S)
    BY <1>1, DivId
  <2>2. QED BY <1>3, <2>1, Zenon
<1>5. /\ start_block[p] = q /\ end_block[p] = last /\ x_offset[p] = 0
  BY <1>0, <1>3 DEF ProcBus, Position, LastBlock
<1>6. CASE hd = 0
  <2>1. UNCHANGED <<x_offset, start_block, buffer>>
    BY <1>3, <1>6 DEF Prefix
  <2>2. q <= last
    <3>1. o <= o + n - 1
      BY <1>1
    <3>2. o \div S <= (o + n - 1) \div S
      BY <1>1, <1>2, <3>1, DivMonotone
    <3>3. QED BY <1>3, <3>2, Zenon
  <2>2a. x_offset'[p] = 0 /\ start_block'[p] = q
    BY <1>5, <2>1
  <2>3. o + x_offset'[p] = start_block'[p] * S
    BY <1>1, <1>2, <1>3a, <1>4, <1>6, <2>2a
  <2>4. start_block'[p] <= end_block'[p]
    BY <1>0, <1>5, <2>1, <2>2
  <2>5. Position(p)'
    BY <1>0, <1>1, <2>3, <2>4 DEF Position
  <2>6. NoBufferOverflow'
    BY <1>0, <2>1 DEF NoBufferOverflow
  <2>7. QED BY <2>5, <2>6
<1>7. CASE hd # 0
  <2>1. /\ x_offset' = [x_offset EXCEPT ![p] = @ + (SectorSize - hd)]
        /\ start_block' = [start_block EXCEPT ![p] = @ + 1]
        /\ p \in Readers =>
             buffer' = [buffer EXCEPT ![p] = CopyHead(p, dma_start', hd)]
        /\ p \notin Readers => buffer' = buffer
    BY <1>3, <1>7 DEF Prefix
  <2>2. x_offset'[p] = S - hd /\ start_block'[p] = q + 1
    <3>1. p \in DOMAIN x_offset /\ p \in DOMAIN start_block
      BY <1>0 DEF TypeOK
    <3>2. /\ x_offset'[p] = x_offset[p] + (SectorSize - hd)
          /\ start_block'[p] = start_block[p] + 1
      BY <2>1, <3>1
    <3>3. QED BY <1>2, <1>3a, <1>5, <3>2
  (* A handled request starting inside a sector crosses its end. *)
  <2>3. q < last
    <3>1. ~(o % S = 0 /\ n % S = 0)
      BY <1>3, <1>7
    <3>2. QED BY <1>0, <1>1, <1>3, <3>1, HandledFacts
  <2>4. last * S <= o + n - 1
    <3>1. ((o + n - 1) \div S) * S <= o + n - 1
      BY <1>2, DivBelow
    <3>2. QED BY <1>3, <3>1, Zenon
  <2>5. S - hd < n
    BY <1>1, <1>3a, <1>4, <2>3, <2>4, HeadFits
  <2>6. o + x_offset'[p] = start_block'[p] * S
    BY <1>2, <1>3a, <1>4, <2>2
  <2>7. start_block'[p] <= end_block'[p]
    BY <1>0, <1>5, <2>2, <2>3
  <2>8. Position(p)'
    BY <1>0, <1>1, <2>6, <2>7 DEF Position
  <2>9. NoBufferOverflow'
    <3>1. CASE p \in Readers
      <4>1. 0 + (S - hd) <= req[p].size
        BY <1>1, <1>2, <1>3a, <2>5
      <4>2. buffer' = [buffer EXCEPT ![p] = CopyOut(p, 0, dma_start', hd, S - hd)]
        BY <2>1, <3>1 DEF CopyHead
      <4>3. \E data, from :
              buffer' = [buffer EXCEPT ![p] = CopyOut(p, 0, data, from, S - hd)]
        BY <4>2, Zenon
      <4>4. 0 \in Int /\ S - hd \in Int
        BY <1>2, <1>3a
      <4>5. QED BY <1>0, <3>1, <4>1, <4>3, <4>4, CopyFits, Zenon
    <3>2. CASE p \notin Readers
      BY <1>0, <2>1, <3>2 DEF NoBufferOverflow
    <3>3. QED BY <3>1, <3>2
  <2>10. QED BY <2>8, <2>9
<1>8. QED BY <1>6, <1>7


(* The postfix handles sector end_block, which holds the request's last   *)
(* byte, when the request ends inside it; end_block-- then names the last *)
(* sector wholly inside the request, and does not wrap.  Without a postfix *)
(* the request ends on a sector boundary, at the end of sector end_block.  *)
(* read_ata copies the last (offset + size) % SectorSize bytes to the end *)
(* of the request's part of the buffer.                                    *)
LEMMA PostfixPos ==
  ASSUME PosInv, AllRequestsHandled, NEW p \in Procs, Postfix(p)
  PROVE  Position(p)' /\ NoBufferOverflow'
<1> DEFINE o == Off(p)
           n == req[p].size
           S == SectorSize
<1> USE DEF o, n, S
<1>0. /\ TypeOK /\ ProcBus(p) /\ Position(p) /\ NoBufferOverflow
      /\ pc[p] = "postfix" /\ pc'[p] = "loop" /\ req' = req
      /\ UNCHANGED <<x_offset, start_block, size>>
  BY DEF PosInv, DiskBusInv, Postfix, TypeOK
<1>1. /\ o \in Nat /\ n \in Nat \ {0} /\ o <= MaxOffset /\ o + n <= MaxOffset
      /\ ~(o = 0 /\ n < S) /\ Off(p)' = o /\ req'[p].size = n
  BY <1>0, HandledOnDrive, ReqFacts DEF ProcBus, Off
<1>2. S \in Nat \ {0} /\ o + n - 1 \in Nat /\ o + n \in Nat \ {0}
  BY <1>1, SectorSizeAssumption
(* The sector of the last byte, and the bytes of the request in it. *)
<1>3. PICK E \in Nat, ps \in 0 .. S - 1 :
        E = (o + n - 1) \div S /\ ps = (o + n) % S
  BY <1>2, DivMod
<1>3a. E \in Nat /\ ps \in 0 .. S - 1
  BY <1>3
<1>4. /\ size[p] = n /\ end_block[p] = E
      /\ start_block[p] <= end_block[p]
      /\ start_block[p] \in Nat /\ end_block[p] \in Nat
  BY <1>0, <1>3 DEF ProcBus, Position, LastBlock, TypeOK
<1>5. /\ size'[p] = n /\ o + x_offset'[p] = start_block'[p] * S
  BY <1>0, <1>4 DEF Position
(* What remains is where the sectors left for the loop end. *)
<1>6. SUFFICES /\ (end_block'[p] + 1) * S = o + n - ps
               /\ NoBufferOverflow'
  BY <1>0, <1>1, <1>3, <1>5 DEF Position
<1>7. CASE ~HasPostfix(p)
  <2>1. end_block' = end_block /\ buffer' = buffer
    BY <1>7 DEF Postfix
  <2>2. ps = 0
    BY <1>3, <1>4, <1>7 DEF HasPostfix, Off
  <2>3. (o + n) % S = 0
    BY <1>3, <2>2, Zenon
  <2>4. (E + 1) * S = o + n
    <3>1. PICK y \in Nat \ {0} : y = o + n
      BY <1>2
    <3>2. ((y - 1) \div S + 1) * S = y
      BY <2>3, <3>1, AlignedEnd
    <3>3. E = (y - 1) \div S
      BY <1>1, <1>2, <1>3, <3>1
    <3>4. QED BY <1>1, <1>3a, <3>1, <3>2, <3>3
  <2>5. (end_block'[p] + 1) * S = o + n - ps
    <3>1. end_block'[p] = E
      BY <1>4, <2>1
    <3>2. QED BY <1>1, <1>2, <1>3a, <2>2, <2>4, <3>1
  <2>6. NoBufferOverflow'
    BY <1>0, <2>1 DEF NoBufferOverflow
  <2>7. QED BY <2>5, <2>6
<1>8. CASE HasPostfix(p)
  <2>1. ps # 0
    BY <1>3, <1>4, <1>8 DEF HasPostfix, Off
  <2>2. o + n = S * E + ps
    <3>1. o + n = S * ((o + n - 1) \div S) + ((o + n) % S)
      BY <1>1, <1>3, <2>1, TailSplit, Zenon
    <3>2. QED BY <1>3, <3>1, Zenon
  (* end_block = 0 here would be a piece of sector 0, which is not handled. *)
  <2>3. E # 0
    <3>1. SUFFICES ASSUME E = 0 PROVE FALSE
      OBVIOUS
    <3>2. /\ end_block[p] = LastBlock(o, n)
          /\ start_block[p] = o \div S + (IF o % S # 0 THEN 1 ELSE 0)
      BY <1>0 DEF ProcBus
    <3>3. LastBlock(o, n) = 0 /\ start_block[p] <= 0 /\ (o + n) % S # 0
      BY <1>3, <1>4, <2>1, <3>1, <3>2
    <3>4. QED BY <1>1, <3>2, <3>3, PostfixNoWrap
  <2>4. E \in Sectors
    <3>1. o + n - 1 < MaxOffset
      BY <1>1, ConstantFacts, SMTT(10)
    <3>2. QED BY <1>2, <1>3, <3>1, SectorOnDrive
  <2>5. /\ end_block' = [end_block EXCEPT ![p] = Dec(@)]
        /\ p \in Readers =>
             buffer' = [buffer EXCEPT ![p] =
                          CopyOut(p, n - ps, dma_start', 0, ps)]
        /\ p \notin Readers => buffer' = buffer
    BY <1>3, <1>4, <1>8 DEF Postfix
  <2>6. end_block'[p] = E - 1
    <3>1. end_block'[p] = Dec(E)
      BY <1>0, <1>4, <2>5 DEF TypeOK
    <3>2. QED BY <2>3, <2>4, <3>1, DecExact
  <2>7. (end_block'[p] + 1) * S = o + n - ps
    <3>1. (end_block'[p] + 1) * S = S * E
      BY <1>2, <1>3a, <2>6
    <3>2. QED BY <1>1, <1>2, <1>3a, <2>2, <3>1
  <2>8. NoBufferOverflow'
    <3>1. CASE p \in Readers
      <4>1. \E data, from :
              buffer' = [buffer EXCEPT ![p] = CopyOut(p, n - ps, data, from, ps)]
        BY <2>5, <3>1
      <4>2. n - ps \in Int /\ ps \in Int /\ (n - ps) + ps <= req[p].size
        BY <1>1, <1>3a
      <4>3. QED BY <1>0, <3>1, <4>1, <4>2, CopyFits, Zenon
    <3>2. CASE p \notin Readers
      BY <1>0, <2>5, <3>2 DEF NoBufferOverflow
    <3>3. QED BY <3>1, <3>2
  <2>9. QED BY <2>7, <2>8
<1>9. QED BY <1>7, <1>8

(* Each turn of the loop moves x_offset and start_block one sector on; a  *)
(* sector up to end_block ends at or before the request's end, so read_ata *)
(* copies it into the request's part of the buffer.                        *)
LEMMA LoopPos ==
  ASSUME PosInv, NEW p \in Procs, Loop(p)
  PROVE  Position(p)' /\ NoBufferOverflow'
<1> DEFINE o == Off(p)
           n == req[p].size
           S == SectorSize
<1> USE DEF o, n, S
<1>0. /\ TypeOK /\ Position(p) /\ NoBufferOverflow
      /\ pc[p] = "loop" /\ req' = req
  BY DEF PosInv, DiskBusInv, Loop
<1>1. o \in Nat /\ n \in Nat \ {0} /\ S \in Nat \ {0} /\ o + n \in Nat
  BY <1>0, ConstantFacts DEF TypeOK, Off, Procs
<1>2. PICK ps \in 0 .. S - 1 : ps = (o + n) % S
  BY <1>1, DivMod
<1>3. /\ size[p] = n /\ (end_block[p] + 1) * S = o + n - ps
      /\ o + x_offset[p] = start_block[p] * S
      /\ start_block[p] \in Nat /\ end_block[p] \in Nat /\ x_offset[p] \in Nat
  BY <1>0, <1>2 DEF Position, TypeOK
<1>4. CASE /\ start_block[p] <= end_block[p]
           /\ x_offset' = [x_offset EXCEPT ![p] = @ + SectorSize]
           /\ start_block' = [start_block EXCEPT ![p] = @ + 1]
           /\ UNCHANGED <<pc, req, size, end_block>>
           /\ p \in Readers =>
                buffer' = [buffer EXCEPT ![p] =
                  CopyOut(p, x_offset[p], dma_start', 0, SectorSize)]
           /\ p \notin Readers => buffer' = buffer
  <2>1. x_offset'[p] = x_offset[p] + S /\ start_block'[p] = start_block[p] + 1
    BY <1>0, <1>4 DEF TypeOK
  <2>2. o + x_offset'[p] = start_block'[p] * S
    <3>1. (start_block[p] + 1) * S = start_block[p] * S + S
      BY <1>1, <1>3
    <3>2. QED BY <1>1, <1>3, <2>1, <3>1
  <2>3. Position(p)'
    <3>1. pc'[p] = "loop" /\ size'[p] = size[p] /\ end_block'[p] = end_block[p]
      BY <1>0, <1>4
    <3>2. /\ size[p] = req[p].size
          /\ (end_block[p] + 1) * SectorSize
               = Off(p) + req[p].size - ((Off(p) + req[p].size) % SectorSize)
      BY <1>0 DEF Position
    <3>3. QED BY <1>0, <2>2, <3>1, <3>2, Zenon DEF Position, Off
  (* The sector copied lies inside the request. *)
  <2>4. x_offset[p] + S <= n
    <3>1. (start_block[p] + 1) * S <= (end_block[p] + 1) * S
      BY <1>3, <1>4, MulMono
    <3>2. QED BY <1>1, <1>2, <1>3, <3>1
  <2>5. NoBufferOverflow'
    <3>1. CASE p \in Readers
      <4>1. \E data, from :
              buffer' = [buffer EXCEPT ![p] =
                           CopyOut(p, x_offset[p], data, from, S)]
        BY <1>4, <3>1
      <4>2. x_offset[p] \in Int /\ S \in Int /\ x_offset[p] + S <= req[p].size
        BY <1>1, <1>3, <2>4
      <4>3. QED BY <1>0, <3>1, <4>1, <4>2, CopyFits, Zenon
    <3>2. CASE p \notin Readers
      BY <1>0, <1>4, <3>2 DEF NoBufferOverflow
    <3>3. QED BY <3>1, <3>2
  <2>6. QED BY <2>3, <2>5
<1>5. CASE pc' = [pc EXCEPT ![p] = "done"] /\ buffer' = buffer
  <2>1. pc'[p] = "done"
    BY <1>0, <1>5 DEF TypeOK
  <2>2. QED BY <1>0, <1>5, <2>1 DEF Position, NoBufferOverflow
<1>6. QED BY <1>4, <1>5 DEF Loop

(* The retry loop of write_sector_retry leaves every caller's position  *)
(* and every buffer of read_ata alone.                                      *)
LEMMA RetryPos ==
  ASSUME PosInv, NEW w \in Writers, RetryWrite(w) \/ RetryVerify(w)
  PROVE  (\A x \in Procs : Position(x)') /\ NoBufferOverflow'
<1>1. UNCHANGED <<req, pc, size, start_block, end_block, x_offset, buffer>>
  BY DEF RetryWrite, RetryVerify
<1>2. QED BY <1>1, SMTT(10) DEF PosInv, Position, Off, NoBufferOverflow

LEMMA InitPos == Init => PosInv
<1> SUFFICES ASSUME Init PROVE PosInv
  OBVIOUS
<1>1. DiskBusInv
  BY InitBusInv
<1>2. \A p \in Procs : Position(p)
  BY DEF Init, Position
<1>3. NoBufferOverflow
  BY DEF Init, NoBufferOverflow
<1>4. QED BY <1>1, <1>2, <1>3 DEF PosInv

LEMMA NextPos ==
  AllRequestsHandled /\ PosInv /\ [Next]_vars => PosInv'
<1> SUFFICES ASSUME AllRequestsHandled, PosInv, [Next]_vars
             PROVE  PosInv'
  OBVIOUS
<1>0. DiskBusInv' /\ TypeOK
  BY HandledOnDrive, NextBusInv DEF PosInv, DiskBusInv
<1>1. ASSUME NEW p \in Procs, Start(p) \/ Prefix(p) \/ Postfix(p) \/ Loop(p)
      PROVE  PosInv'
  <2>1. Position(p)' /\ NoBufferOverflow'
    BY <1>1, StartPos, PrefixPos, PostfixPos, LoopPos, SMTT(10)
  <2>2. ASSUME NEW x \in Procs, x # p PROVE Position(x)'
    BY <1>0, <1>1, <2>2, AdapterFrame, AdapterKeeps, PositionFrame DEF PosInv
  <2>3. QED BY <1>0, <2>1, <2>2 DEF PosInv
<1>2. ASSUME NEW w \in Writers, RetryWrite(w) \/ RetryVerify(w)
      PROVE  PosInv'
  BY <1>0, <1>2, RetryPos DEF PosInv
<1>3. CASE UNCHANGED vars
  BY <1>0, <1>3 DEF vars, PosInv, Position, Off, NoBufferOverflow
<1>4. QED
  BY <1>1, <1>2, <1>3 DEF Next

(* read_ata never stores past the end of the caller's request, for every  *)
(* sector size, capacity and number of readers and writers, with or        *)
(* without hardware failures, for the requests write_ata and read_ata      *)
(* handle (HandledRequest).  The requests inside a single sector cannot    *)
(* be admitted: the prefix copies prefix_size = SectorSize - offset %      *)
(* SectorSize bytes whatever the size (read_overflow.cfg).                 *)
THEOREM NoOverflow ==
  ASSUME AllRequestsHandled
  PROVE  Spec => []NoBufferOverflow
<1>1. PosInv => NoBufferOverflow
  BY DEF PosInv
<1>2. PosInv /\ [Next]_vars => PosInv'
  BY NextPos, SMTT(10)
<1>3. QED BY <1>1, <1>2, InitPos, PTL DEF Spec

-----------------------------------------------------------------------------
(* write_ata stages only bytes that belong where they are written.        *)

(* Start leaves a writer's staged image alone. *)
LEMMA StartStaged ==
  ASSUME PlaceInv, NEW p \in Writers, Start(p)
  PROVE  Staged(p)'
BY StagedFrame, Zenon DEF PlaceInv, Start

(* The prefix of write_ata reads sector start_block, the one holding the  *)
(* request's first byte, lays the caller's first bytes over its tail from  *)
(* offset % SectorSize on and stages it for that sector.                   *)
LEMMA PrefixStaged ==
  ASSUME PlaceInv, AllRequestsHandled, HwFailures = FALSE,
         NEW p \in Writers, Prefix(p)
  PROVE  Staged(p)'
<1> DEFINE o == Off(p)
           n == req[p].size
           S == SectorSize
<1> USE DEF o, n, S
<1>0. /\ TypeOK /\ ProcBus(p) /\ Position(p) /\ DiskPlacement
      /\ pc[p] = "prefix" /\ req' = req /\ retry[p] = "none"
      /\ p \in Procs /\ p \notin Readers
  BY ProcsAssumption, SMTT(10) DEF PlaceInv, PosInv, DiskBusInv, Prefix, Idle, Procs
<1>1. /\ o \in Nat /\ n \in Nat \ {0} /\ o <= MaxOffset /\ o + n <= MaxOffset
  BY <1>0, HandledOnDrive, ReqFacts DEF ProcBus, Off
<1>2. S \in Nat \ {0} /\ o + n - 1 \in Nat
  BY <1>1, SectorSizeAssumption
<1>3. PICK q \in Nat, hd \in 0 .. S - 1, last \in Nat :
        /\ q = o \div S /\ hd = o % S
        /\ last = (o + n - 1) \div S
  BY <1>1, <1>2, DivMod, Zenon
<1>3a. q \in Nat /\ hd \in 0 .. S - 1 /\ last \in Nat
  BY <1>3
<1>4. o = S * q + hd
  <2>1. o = S * (o \div S) + (o % S)
    BY <1>1, DivId
  <2>2. QED BY <1>3, <2>1, Zenon
<1>5. start_block[p] = q
  BY <1>0, <1>3 DEF ProcBus
<1>6. q \in Sectors
  <2>1. o < MaxOffset
    BY <1>1, ConstantFacts
  <2>2. QED BY <1>1, <1>3, <2>1, SectorOnDrive
<1>7. CASE hd = 0
  <2>1. retry' = retry
    BY <1>3, <1>7 DEF Prefix
  <2>2. QED BY <1>0, <2>1, SMTT(10) DEF Staged
<1>8. CASE hd # 0
  <2>1. /\ DmaRead(start_block[p])
        /\ BeginRetry(p, start_block[p], MergeHead(p, dma_start', hd))
    BY <1>0, <1>3, <1>8, Zenon DEF Prefix
  <2>2. dma_start' = disk[q]
    BY <1>5, <1>6, <2>1, DmaReadFresh, Zenon
  <2>3. /\ tmp'[p] = MergeHead(p, disk[q], hd) /\ lba'[p] = q
        /\ retry'[p] = "write"
    BY <1>0, <1>5, <2>1, <2>2 DEF BeginRetry, TypeOK
  (* A handled request starting inside a sector crosses its end. *)
  <2>4. S - hd < n
    <3>1. q < last
      <4>1. ~(o % S = 0 /\ n % S = 0)
        BY <1>3, <1>8
      <4>2. QED BY <1>0, <1>1, <1>3, <4>1, HandledFacts
    <3>2. last * S <= o + n - 1
      <4>1. ((o + n - 1) \div S) * S <= o + n - 1
        BY <1>2, DivBelow, SMTT(10)
      <4>2. QED BY <1>3, <4>1, Zenon
    <3>3. QED BY <1>1, <1>3a, <1>4, <3>1, <3>2, HeadFits, SMTT(10)
  <2>5. SUFFICES ASSUME NEW j \in ByteIdx
                 PROVE  WellPlaced(tmp'[p][j], q * S + j)
    BY <1>0, <2>3 DEF Staged, WellPlaced
  <2>6. j \in 0 .. S - 1
    BY SMTT(10) DEF ByteIdx
  <2>7. CASE j >= hd
    <3>1. tmp'[p][j] = <<p, j - hd>>
      BY <1>3a, <2>3, <2>6, <2>7 DEF MergeHead
    <3>2. j - hd < n /\ o + (j - hd) = q * S + j
      BY <1>1, <1>2, <1>3a, <1>4, <2>4, <2>6, SMTT(10)
    <3>3. QED BY <1>0, <3>1, <3>2, SMTT(10) DEF WellPlaced, Off
  <2>8. CASE j < hd
    <3>1. tmp'[p][j] = disk[q][j]
      BY <1>3a, <2>3, <2>6, <2>8 DEF MergeHead
    <3>2. WellPlaced(disk[q][j], q * S + j)
      BY <1>0, <1>6 DEF DiskPlacement
    <3>3. QED BY <3>1, <3>2
  <2>9. QED BY <1>3a, <2>6, <2>7, <2>8, SMTT(10)
<1>9. QED BY <1>7, <1>8

(* The postfix of write_ata reads sector end_block, the one holding the   *)
(* request's last byte, lays the caller's last (offset + size) %           *)
(* SectorSize bytes over its head and stages it for that sector.           *)
LEMMA PostfixStaged ==
  ASSUME PlaceInv, AllRequestsHandled, HwFailures = FALSE,
         NEW p \in Writers, Postfix(p)
  PROVE  Staged(p)'
<1> DEFINE o == Off(p)
           n == req[p].size
           S == SectorSize
<1> USE DEF o, n, S
<1>0. /\ TypeOK /\ ProcBus(p) /\ DiskPlacement
      /\ pc[p] = "postfix" /\ req' = req /\ retry[p] = "none"
      /\ p \in Procs /\ p \notin Readers
  BY ProcsAssumption, Zenon DEF PlaceInv, PosInv, DiskBusInv, Postfix, Idle, Procs
<1>1. /\ o \in Nat /\ n \in Nat \ {0} /\ o + n <= MaxOffset
  BY <1>0, HandledOnDrive, ReqFacts DEF ProcBus, Off
<1>2. S \in Nat \ {0} /\ o + n - 1 \in Nat /\ o + n \in Nat \ {0}
  BY <1>1, SectorSizeAssumption
<1>3. PICK E \in Nat, ps \in 0 .. S - 1 :
        E = (o + n - 1) \div S /\ ps = (o + n) % S
  BY <1>2, DivMod, Zenon
<1>3a. E \in Nat /\ ps \in 0 .. S - 1
  BY <1>3
<1>4. size[p] = n /\ end_block[p] = E
  BY <1>0, <1>3 DEF ProcBus, LastBlock
<1>5. E \in Sectors
  <2>1. o + n - 1 < MaxOffset
    BY <1>1, ConstantFacts
  <2>2. QED BY <1>2, <1>3, <2>1, SectorOnDrive
<1>6. CASE ~HasPostfix(p)
  <2>1. retry' = retry
    BY <1>6 DEF Postfix
  <2>2. QED BY <1>0, <2>1 DEF Staged
<1>7. CASE HasPostfix(p)
  <2>1. ps # 0
    BY <1>3, <1>4, <1>7 DEF HasPostfix, Off
  <2>2. o + n = S * E + ps
    <3>1. o + n = S * ((o + n - 1) \div S) + ((o + n) % S)
      BY <1>1, <1>3, <2>1, TailSplit, Zenon
    <3>2. QED BY <1>3, <3>1, Zenon
  <2>3. /\ DmaRead(end_block[p])
        /\ BeginRetry(p, end_block[p], MergeTail(p, dma_start', n - ps, ps))
    BY <1>0, <1>3, <1>4, <1>7, Zenon DEF Postfix
  <2>4. dma_start' = disk[E]
    BY <1>4, <1>5, <2>3, DmaReadFresh, Zenon
  <2>5. /\ tmp'[p] = MergeTail(p, disk[E], n - ps, ps) /\ lba'[p] = E
        /\ retry'[p] = "write"
    BY <1>0, <1>4, <2>3, <2>4 DEF BeginRetry, TypeOK
  <2>6. SUFFICES ASSUME NEW j \in ByteIdx
                 PROVE  WellPlaced(tmp'[p][j], E * S + j)
    BY <1>0, <2>5, Zenon DEF Staged, WellPlaced
  <2>7. j \in 0 .. S - 1
    BY SMTT(10) DEF ByteIdx
  <2>8. CASE j < ps
    <3>1. tmp'[p][j] = <<p, n - ps + j>>
      BY <1>3a, <2>5, <2>7, <2>8, SMTT(10) DEF MergeTail
    <3>2. n - ps + j < n /\ o + (n - ps + j) = E * S + j
      <4>1. n - ps + j < n
        BY <1>1, <1>3a, <2>7, <2>8
      <4>2. S * E = E * S
        BY <1>2, <1>3a
      <4>3. QED BY <1>1, <1>2, <1>3a, <2>2, <2>7, <4>1, <4>2
    <3>3. QED BY <1>0, <3>1, <3>2, SMTT(10) DEF WellPlaced, Off
  <2>9. CASE j >= ps
    <3>1. tmp'[p][j] = disk[E][j]
      BY <1>3a, <2>5, <2>7, <2>9 DEF MergeTail
    <3>2. WellPlaced(disk[E][j], E * S + j)
      BY <1>0, <1>5 DEF DiskPlacement
    <3>3. QED BY <3>1, <3>2
  <2>10. QED BY <1>3a, <2>7, <2>8, <2>9, SMTT(10)
<1>8. QED BY <1>6, <1>7, SMTT(10)

(* The loop stages sector start_block filled with the caller's bytes from *)
(* x_offset on; a sector up to end_block ends at or before the request's  *)
(* end, so all SectorSize of them are the caller's and belong there.       *)
LEMMA LoopStaged ==
  ASSUME PlaceInv, NEW p \in Writers, Loop(p)
  PROVE  Staged(p)'
<1> DEFINE o == Off(p)
           n == req[p].size
           S == SectorSize
           x == x_offset[p]
           sb == start_block[p]
           eb == end_block[p]
<1> USE DEF o, n, S, x, sb, eb
<1>0. /\ TypeOK /\ Position(p) /\ pc[p] = "loop" /\ retry[p] = "none"
      /\ p \in Procs /\ p \notin Readers
  BY ProcsAssumption DEF PlaceInv, PosInv, DiskBusInv, Loop, Idle, Procs
<1>1. /\ o \in Nat /\ n \in Nat /\ S \in Nat \ {0} /\ o + n \in Nat
      /\ x \in Nat /\ sb \in Nat /\ eb \in Nat
  BY <1>0, ConstantFacts DEF TypeOK, Off, Procs
<1>2. PICK ps \in 0 .. S - 1 : ps = (o + n) % S
  BY <1>1, DivMod
<1>3. (eb + 1) * S = o + n - ps /\ o + x = sb * S
  BY <1>0, <1>2, SMTT(10) DEF Position
<1>4. CASE sb <= eb
  <2>1. /\ BeginRetry(p, sb, [j \in ByteIdx |-> <<p, x + j>>])
        /\ req' = req
    BY <1>0, <1>1, <1>4 DEF Loop
  <2>2. /\ tmp'[p] = [j \in ByteIdx |-> <<p, x + j>>] /\ lba'[p] = sb
        /\ retry'[p] = "write"
    BY <1>0, <2>1 DEF BeginRetry, TypeOK
  (* The sector staged lies inside the request. *)
  <2>3. x + S <= n
    <3>1. (sb + 1) * S <= (eb + 1) * S
      BY <1>1, <1>4, MulMono
    <3>2. (sb + 1) * S = sb * S + S
      BY <1>1, SMTT(10)
    <3>3. QED BY <1>1, <1>2, <1>3, <3>1, <3>2
  <2>4. SUFFICES ASSUME NEW j \in ByteIdx
                 PROVE  WellPlaced(tmp'[p][j], sb * S + j)
    BY <2>1, <2>2 DEF Staged, WellPlaced
  <2>5. j \in 0 .. S - 1
    BY SMTT(10) DEF ByteIdx
  <2>6. x + j < n /\ o + (x + j) = sb * S + j
    BY <1>1, <1>3, <2>3, <2>5, SMTT(10)
  <2>7. QED BY <1>0, <2>1, <2>2, <2>6, SMTT(10) DEF WellPlaced, Off
<1>5. CASE sb > eb
  <2>1. retry' = retry
    BY <1>0, <1>1, <1>5 DEF Loop
  <2>2. QED BY <1>0, <2>1, SMTT(10) DEF Staged
<1>6. QED BY <1>1, <1>4, <1>5, SMTT(10)

(* write_sector_retry writes the staged image to the sector it was staged *)
(* for, or (when the write fails) leaves the disk as it was.               *)
LEMMA RetryWritePlace ==
  ASSUME PlaceInv, NEW w \in Writers, RetryWrite(w)
  PROVE  DiskPlacement' /\ \A x \in Writers : Staged(x)'
<1>0. /\ TypeOK /\ Staged(w) /\ DiskPlacement /\ retry[w] = "write"
      /\ \A x \in Writers : Staged(x)
      /\ lba[w] \in Sectors
      /\ UNCHANGED <<req, tmp, lba>>
      /\ retry' = [retry EXCEPT ![w] = "verify"]
  <2>1. w \in Procs
    BY DEF Procs
  <2>2. QED BY <2>1 DEF PlaceInv, PosInv, DiskBusInv, ProcBus, RetryWrite
<1>1. \A j \in ByteIdx : WellPlaced(tmp[w][j], lba[w] * SectorSize + j)
  BY <1>0 DEF Staged
<1>2. DiskPlacement'
  <2>1. PICK ok \in Outcomes :
          disk' = IF ok /\ lba[w] \in Sectors
                    THEN [disk EXCEPT ![lba[w]] = tmp[w]] ELSE disk
    BY SMTT(10) DEF RetryWrite, PioWrite
  <2>2. SUFFICES ASSUME NEW s \in Sectors, NEW j \in ByteIdx
                 PROVE  WellPlaced(disk'[s][j], s * SectorSize + j)
    BY <1>0 DEF DiskPlacement, WellPlaced
  <2>3. CASE ok /\ s = lba[w]
    <3>1. disk'[s][j] = tmp[w][j]
      BY <1>0, <2>1, <2>3 DEF TypeOK
    <3>2. QED BY <1>1, <2>3, <3>1
  <2>4. CASE ~(ok /\ s = lba[w])
    <3>1. disk'[s][j] = disk[s][j]
      BY <1>0, <2>1, <2>4 DEF TypeOK
    <3>2. QED BY <1>0, <3>1 DEF DiskPlacement
  <2>5. QED BY <2>3, <2>4
<1>3. ASSUME NEW x \in Writers PROVE Staged(x)'
  <2>1. CASE x = w
    BY <1>0, <1>1, <2>1, Zenon DEF Staged, WellPlaced, TypeOK
  <2>2. CASE x # w
    BY <1>0, <2>2, StagedFrame DEF TypeOK
  <2>3. QED BY <2>1, <2>2, SMTT(10)
<1>4. QED BY <1>2, <1>3, SMTT(10)

(* The read back leaves the disk and the staged image alone. *)
LEMMA RetryVerifyPlace ==
  ASSUME PlaceInv, NEW w \in Writers, RetryVerify(w)
  PROVE  DiskPlacement' /\ \A x \in Writers : Staged(x)'
<1>0. /\ TypeOK /\ DiskPlacement /\ retry[w] = "verify"
      /\ \A x \in Writers : Staged(x)
      /\ UNCHANGED <<disk, req, tmp, lba>>
      /\ retry'[w] \in {"write", "none"}
      /\ \A x \in Writers \ {w} : retry'[x] = retry[x]
  BY DEF PlaceInv, PosInv, DiskBusInv, RetryVerify, TypeOK
<1>1. DiskPlacement'
  BY <1>0, DiskFrame, SMTT(10)
<1>2. ASSUME NEW x \in Writers PROVE Staged(x)'
  <2>1. CASE x = w
    BY <1>0, <2>1, SMTT(10) DEF Staged, WellPlaced
  <2>2. CASE x # w
    BY <1>0, <2>2, StagedFrame
  <2>3. QED BY <2>1, <2>2
<1>3. QED BY <1>1, <1>2

LEMMA InitPlace == Init => PlaceInv
<1> SUFFICES ASSUME Init PROVE PlaceInv
  OBVIOUS
<1>1. PosInv
  BY InitPos
<1>2. DiskPlacement
  BY DEF Init, DiskPlacement, WellPlaced
<1>3. \A w \in Writers : Staged(w)
  BY DEF Init, Staged
<1>4. QED BY <1>1, <1>2, <1>3 DEF PlaceInv

LEMMA NextPlace ==
  ASSUME AllRequestsHandled, HwFailures = FALSE, PlaceInv, [Next]_vars
  PROVE  PlaceInv'
<1>0. TypeOK /\ PosInv'
  BY NextPos DEF PlaceInv, PosInv, DiskBusInv
<1>1. ASSUME NEW p \in Procs, Start(p) \/ Prefix(p) \/ Postfix(p) \/ Loop(p)
      PROVE  PlaceInv'
  <2>1. /\ disk' = disk /\ req' = req
        /\ \A x \in Procs \ {p} : x \in Writers => tmp'[x] = tmp[x]
    BY <1>0, <1>1, AdapterKeeps
  <2>2. DiskPlacement'
    BY <2>1, DiskFrame DEF PlaceInv
  <2>3. ASSUME NEW x \in Writers PROVE Staged(x)'
    <3>1. CASE x = p
      BY <1>1, <3>1, StartStaged, PrefixStaged, PostfixStaged, LoopStaged, Zenon
    <3>2. CASE x # p
      <4>1. x \in Procs
        BY SMTT(10) DEF Procs
      <4>2. retry'[x] = retry[x] /\ lba'[x] = lba[x]
        BY <1>0, <1>1, <3>2, <4>1, AdapterFrame
      <4>3. QED BY <2>1, <3>2, <4>1, <4>2, StagedFrame DEF PlaceInv
    <3>3. QED BY <3>1, <3>2
  <2>4. QED BY <1>0, <2>2, <2>3 DEF PlaceInv
<1>2. ASSUME NEW w \in Writers, RetryWrite(w) \/ RetryVerify(w)
      PROVE  PlaceInv'
  BY <1>0, <1>2, RetryWritePlace, RetryVerifyPlace, SMTT(10) DEF PlaceInv
<1>3. CASE UNCHANGED vars
  BY <1>0, <1>3, Zenon DEF vars, PlaceInv, DiskPlacement, Staged, WellPlaced
<1>4. QED
  BY <1>1, <1>2, <1>3 DEF Next

(* For requests that are whole sectors or cross a sector boundary, and     *)
(* without hardware failures, write_ata never puts a byte where it does   *)
(* not belong, whatever the number of concurrent readers and writers, the *)
(* sector size or the capacity: every byte on the disk is the original    *)
(* one or one a write request addressed to that very position, despite    *)
(* the read-modify-write of partial sectors racing with other writers.    *)
(* Both hypotheses are needed: a write inside one sector copies           *)
(* prefix_size bytes whatever its size (write_clobber.cfg), and a failed  *)
(* DMA read leaves a stale sector image that the prefix or postfix then   *)
(* writes back to another sector.                                          *)
THEOREM WritesPlaced ==
  ASSUME AllRequestsHandled, HwFailures = FALSE
  PROVE  Spec => []DiskPlacement
<1>1. PlaceInv => DiskPlacement
  BY DEF PlaceInv
<1>2. PlaceInv /\ [Next]_vars => PlaceInv'
  BY NextPlace, Zenon
<1>3. QED BY <1>1, <1>2, InitPlace, PTL DEF Spec

-----------------------------------------------------------------------------
(* read_ata hands back the bytes of the request's range.                  *)

(* Start sends a request past ata_max_offset to done with size 0, and any *)
(* other to the prefix.                                                    *)
LEMMA StartRead ==
  ASSUME ReadInv, NEW p \in Readers, Start(p)
  PROVE  ReaderPlace(p)'
<1>0. TypeOK /\ p \in Procs
  BY DEF ReadInv, PlaceInv, PosInv, DiskBusInv, Procs
<1>1. CASE Off(p) > MaxOffset
  <2>1. pc'[p] = "done" /\ size'[p] = 0
    BY <1>0, <1>1, SMTT(10) DEF Start, TypeOK
  <2>2. QED BY <2>1 DEF ReaderPlace
<1>2. CASE ~(Off(p) > MaxOffset)
  <2>1. pc'[p] = "prefix"
    BY <1>0, <1>2, SMTT(10) DEF Start, TypeOK
  <2>2. QED BY <2>1 DEF ReaderPlace
<1>3. QED BY <1>1, <1>2

(* The prefix of read_ata reads sector start_block and copies its bytes   *)
(* from offset % SectorSize on to the start of the caller's buffer: the    *)
(* first SectorSize - offset % SectorSize bytes of the request.            *)
LEMMA PrefixRead ==
  ASSUME ReadInv, AllRequestsHandled, HwFailures = FALSE, RequestsFitBuffer,
         NEW p \in Readers, Prefix(p)
  PROVE  ReaderPlace(p)'
<1> DEFINE o == Off(p)
           n == req[p].size
           S == SectorSize
<1> USE DEF o, n, S
<1>0. /\ TypeOK /\ ProcBus(p) /\ Position(p) /\ DiskPlacement
      /\ pc[p] = "prefix" /\ pc'[p] = "postfix" /\ req' = req
      /\ p \in Procs
  BY SMTT(10) DEF ReadInv, PlaceInv, PosInv, DiskBusInv, Prefix, TypeOK, Procs
<1>1. /\ o \in Nat /\ n \in Nat \ {0} /\ o <= MaxOffset /\ o + n <= MaxOffset
      /\ 0 .. n - 1 \subseteq BufIdx
  BY <1>0, HandledOnDrive, ReqFacts DEF ProcBus, Off, RequestsFitBuffer, TypeOK
<1>2. S \in Nat \ {0} /\ o + n - 1 \in Nat
  BY <1>1, SectorSizeAssumption, SMTT(10)
<1>3. PICK q \in Nat, hd \in 0 .. S - 1, last \in Nat :
        /\ q = o \div S /\ hd = o % S
        /\ last = (o + n - 1) \div S
  BY <1>1, <1>2, DivMod
<1>3a. q \in Nat /\ hd \in 0 .. S - 1 /\ last \in Nat
  BY <1>3
<1>4. o = S * q + hd
  <2>1. o = S * (o \div S) + (o % S)
    BY <1>1, DivId, SMTT(10)
  <2>2. QED BY <1>3, <2>1, Zenon
<1>5. start_block[p] = q /\ x_offset[p] = 0
  BY <1>0, <1>3, SMTT(10) DEF ProcBus, Position
<1>6. q \in Sectors
  <2>1. o < MaxOffset
    BY <1>1, ConstantFacts, SMTT(10)
  <2>2. QED BY <1>1, <1>3, <2>1, SectorOnDrive
(* From the postfix on only the bytes before x_offset are claimed. *)
<1>7. SUFFICES \A k \in 0 .. x_offset'[p] - 1 : WellPlaced(buffer'[p][k], o + k)
  BY <1>0, Zenon DEF ReaderPlace, WellPlaced, Off
<1>8. CASE hd = 0
  <2>1. x_offset' = x_offset
    BY <1>3, <1>8, Zenon DEF Prefix
  <2>2. QED BY <1>5, <2>1, SMTT(10)
<1>9. CASE hd # 0
  <2>1. /\ DmaRead(start_block[p])
        /\ buffer' = [buffer EXCEPT ![p] = CopyHead(p, dma_start', hd)]
        /\ x_offset' = [x_offset EXCEPT ![p] = @ + (SectorSize - hd)]
    BY <1>0, <1>3, <1>9, Zenon DEF Prefix
  <2>2. dma_start' = disk[q]
    BY <1>5, <1>6, <2>1, DmaReadFresh, Zenon
  <2>3. /\ buffer'[p] = CopyOut(p, 0, disk[q], hd, S - hd)
        /\ x_offset'[p] = S - hd
    BY <1>0, <1>2, <1>3a, <1>5, <2>1, <2>2, SMTT(10) DEF CopyHead, TypeOK
  (* A handled request starting inside a sector crosses its end. *)
  <2>4. S - hd < n
    <3>1. q < last
      <4>1. ~(o % S = 0 /\ n % S = 0)
        BY <1>3, <1>9
      <4>2. QED BY <1>0, <1>1, <1>3, <4>1, HandledFacts
    <3>2. last * S <= o + n - 1
      <4>1. ((o + n - 1) \div S) * S <= o + n - 1
        BY <1>2, DivBelow
      <4>2. QED BY <1>3, <4>1, Zenon
    <3>3. QED BY <1>1, <1>3a, <1>4, <3>1, <3>2, HeadFits, SMTT(10)
  <2>5. SUFFICES ASSUME NEW k \in 0 .. x_offset'[p] - 1
                 PROVE  WellPlaced(buffer'[p][k], o + k)
    BY Zenon
  <2>6. k \in 0 .. S - hd - 1 /\ k \in BufIdx /\ hd + k \in ByteIdx
    BY <1>1, <1>2, <1>3a, <2>3, <2>4, SMTT(10) DEF ByteIdx
  <2>7. buffer'[p][k] = disk[q][hd + k]
    BY <1>2, <1>3a, <2>3, <2>6, SMTT(10) DEF CopyOut
  <2>8. WellPlaced(disk[q][hd + k], q * S + (hd + k))
    BY <1>0, <1>6, <2>6, SMTT(10) DEF DiskPlacement
  <2>9. q * S + (hd + k) = o + k
    BY <1>1, <1>2, <1>3a, <1>4, <2>6, SMTT(10)
  <2>10. QED BY <2>7, <2>8, <2>9, SMTT(10)
<1>10. QED BY <1>8, <1>9, SMTT(10)

(* The postfix of read_ata reads sector end_block and copies its first     *)
(* (offset + size) % SectorSize bytes to the end of the request's part of  *)
(* the buffer, past the bytes already read, which end where sector         *)
(* start_block begins.                                                     *)
LEMMA PostfixRead ==
  ASSUME ReadInv, AllRequestsHandled, HwFailures = FALSE, RequestsFitBuffer,
         NEW p \in Readers, Postfix(p)
  PROVE  ReaderPlace(p)'
<1> DEFINE o == Off(p)
           n == req[p].size
           S == SectorSize
<1> USE DEF o, n, S
<1>0. /\ TypeOK /\ ProcBus(p) /\ Position(p) /\ ReaderPlace(p) /\ DiskPlacement
      /\ PosInv /\ pc[p] = "postfix" /\ pc'[p] = "loop" /\ req' = req
      /\ UNCHANGED <<x_offset, start_block, size>>
      /\ p \in Procs
  BY SMTT(10) DEF ReadInv, PlaceInv, PosInv, DiskBusInv, Postfix, TypeOK, Procs
<1>1. /\ o \in Nat /\ n \in Nat \ {0} /\ o + n <= MaxOffset
      /\ 0 .. n - 1 \subseteq BufIdx
  BY <1>0, HandledOnDrive, ReqFacts, SMTT(10) DEF ProcBus, Off, RequestsFitBuffer, TypeOK
<1>2. S \in Nat \ {0} /\ o + n - 1 \in Nat /\ o + n \in Nat \ {0}
  BY <1>1, SectorSizeAssumption
<1>3. PICK E \in Nat, ps \in 0 .. S - 1 :
        E = (o + n - 1) \div S /\ ps = (o + n) % S
  BY <1>2, DivMod, Zenon
<1>3a. E \in Nat /\ ps \in 0 .. S - 1
  BY <1>3, SMTT(10)
<1>4. /\ size[p] = n /\ end_block[p] = E
      /\ start_block[p] <= end_block[p]
      /\ o + x_offset[p] = start_block[p] * S
      /\ start_block[p] \in Nat /\ x_offset[p] \in Nat
  BY <1>0, <1>3, SMTT(10) DEF ProcBus, Position, LastBlock, TypeOK
<1>4a. \A k \in 0 .. x_offset[p] - 1 : WellPlaced(buffer[p][k], o + k)
  BY <1>0, Zenon DEF ReaderPlace
(* Where the loop's sectors end: the postfix step of the positions. *)
<1>5. (end_block'[p] + 1) * S - o = n - ps
  <2>1. Position(p)'
    BY <1>0, PostfixPos, Zenon
  <2>2. (end_block'[p] + 1) * S = o + n - ps
    BY <1>0, <1>3, <2>1, Zenon DEF Position, Off
  <2>3. (o + n - ps) - o = n - ps
    BY <1>1, SMTT(10)
  <2>4. QED BY <2>2, <2>3, Zenon
<1>6. SUFFICES /\ \A k \in 0 .. x_offset[p] - 1 :
                    WellPlaced(buffer'[p][k], o + k)
               /\ \A k \in n - ps .. n - 1 :
                    WellPlaced(buffer'[p][k], o + k)
  BY <1>0, <1>5, Zenon DEF ReaderPlace, WellPlaced, Off
<1>7. CASE ~HasPostfix(p)
  <2>1. buffer' = buffer
    BY <1>7 DEF Postfix
  <2>2. ps = 0
    BY <1>3, <1>4, <1>7 DEF HasPostfix, Off
  <2>3. n - ps .. n - 1 = {}
    BY <1>1, <2>2, SMTT(10)
  <2>4. QED BY <1>4a, <2>1, <2>3, Zenon
<1>8. CASE HasPostfix(p)
  <2>1. ps # 0
    BY <1>3, <1>4, <1>8 DEF HasPostfix, Off
  <2>2. o + n = S * E + ps
    <3>1. o + n = S * ((o + n - 1) \div S) + ((o + n) % S)
      BY <1>1, <1>3, <2>1, TailSplit, Zenon
    <3>2. QED BY <1>3, <3>1, Zenon
  <2>3. E \in Sectors
    <3>1. o + n - 1 < MaxOffset
      BY <1>1, ConstantFacts, SMTT(10)
    <3>2. QED BY <1>2, <1>3, <3>1, SectorOnDrive
  <2>4. /\ DmaRead(end_block[p])
        /\ buffer' = [buffer EXCEPT ![p] = CopyOut(p, n - ps, dma_start', 0, ps)]
    BY <1>0, <1>3, <1>4, <1>8, Zenon DEF Postfix
  <2>5. buffer'[p] = CopyOut(p, n - ps, disk[E], 0, ps)
    <3>0. DmaRead(E)
      BY <1>4, <2>4
    <3>1. dma_start' = disk[E]
      BY <2>3, <3>0, DmaReadFresh, Zenon
    <3>2. p \in DOMAIN buffer
      BY <1>0 DEF TypeOK
    <3>3. QED BY <2>4, <3>1, <3>2
  (* The bytes read so far end before the postfix. *)
  <2>6. x_offset[p] <= n - ps
    <3>0. /\ o + x_offset[p] = start_block[p] * S
          /\ start_block[p] \in Nat /\ x_offset[p] \in Nat
          /\ start_block[p] <= E
      BY <1>4
    <3>1. start_block[p] * S <= E * S
      BY <1>3a, <3>0, MulMono
    <3>2. E * S = S * E
      BY <1>2, <1>3a, SMTT(10)
    <3>3. QED BY <1>1, <1>2, <1>3a, <2>2, <3>0, <3>1, <3>2
  <2>7. ASSUME NEW k \in 0 .. x_offset[p] - 1
        PROVE  WellPlaced(buffer'[p][k], o + k)
    <3>1. k \in BufIdx /\ k < n - ps
      BY <1>1, <1>3a, <1>4, <2>6, SMTT(10)
    <3>2. buffer'[p][k] = buffer[p][k]
      BY <1>1, <1>3a, <2>5, <3>1, SMTT(10) DEF CopyOut
    <3>3. QED BY <1>4a, <3>2, SMTT(10)
  <2>8. ASSUME NEW k \in n - ps .. n - 1
        PROVE  WellPlaced(buffer'[p][k], o + k)
    <3>1. k \in BufIdx /\ k - (n - ps) \in ByteIdx
      BY <1>1, <1>2, <1>3a, <1>4, <2>6, SMTT(10) DEF ByteIdx
    <3>2. buffer'[p][k] = disk[E][k - (n - ps)]
      BY <1>1, <1>3a, <2>5, <3>1, SMTT(10) DEF CopyOut
    <3>3. WellPlaced(disk[E][k - (n - ps)], E * S + (k - (n - ps)))
      BY <1>0, <2>3, <3>1, SMTT(10) DEF DiskPlacement
    <3>4. E * S + (k - (n - ps)) = o + k
      <4>1. E * S = o + n - ps
        BY <1>1, <1>2, <1>3a, <2>2, SMTT(10)
      <4>2. QED BY <1>1, <1>3a, <4>1, SMTT(10)
    <3>5. QED BY <3>2, <3>3, <3>4, SMTT(10)
  <2>9. QED BY <2>7, <2>8, SMTT(10)
<1>9. QED BY <1>7, <1>8, SMTT(10)

(* What a reader in the loop must have read, after a step. *)
LEMMA ReaderLoopStep ==
  ASSUME NEW r \in Readers, req' = req, pc'[r] = "loop",
         \A k \in 0 .. x_offset'[r] - 1 : WellPlaced(buffer'[r][k], Off(r) + k),
         \A k \in (end_block'[r] + 1) * SectorSize - Off(r) .. req[r].size - 1 :
           WellPlaced(buffer'[r][k], Off(r) + k)
  PROVE  ReaderPlace(r)'
BY DEF ReaderPlace, WellPlaced, Off

(* Each turn of read_ata's loop copies sector start_block right after the  *)
(* bytes read so far, before the postfix's bytes; when start_block passes *)
(* end_block the two parts meet, and the whole request has been read.      *)
LEMMA LoopRead ==
  ASSUME ReadInv, HwFailures = FALSE, RequestsFitBuffer,
         NEW p \in Readers, Loop(p)
  PROVE  ReaderPlace(p)'
<1> DEFINE o == Off(p)
           n == req[p].size
           S == SectorSize
           x == x_offset[p]
           sb == start_block[p]
           eb == end_block[p]
<1> USE DEF o, n, S, x, sb, eb
<1>0. /\ TypeOK /\ ProcBus(p) /\ Position(p) /\ ReaderPlace(p) /\ DiskPlacement
      /\ pc[p] = "loop" /\ p \in Procs
  BY DEF ReadInv, PlaceInv, PosInv, DiskBusInv, Loop, Procs
<1>0a. pc[p] = "loop"
  BY SMTT(10) DEF Loop
<1>0b. \/ /\ sb <= eb
          /\ DmaRead(sb)
          /\ buffer' = [buffer EXCEPT ![p] = CopyOut(p, x, dma_start', 0, S)]
          /\ x_offset' = [x_offset EXCEPT ![p] = @ + SectorSize]
          /\ UNCHANGED <<pc, req, end_block>>
       \/ /\ sb > eb
          /\ pc' = [pc EXCEPT ![p] = "done"]
          /\ UNCHANGED <<req, size, buffer>>
  BY DEF Loop
<1>0c. p \in DOMAIN pc /\ p \in DOMAIN buffer /\ p \in DOMAIN x_offset
  BY <1>0, SMTT(10) DEF TypeOK, Procs
<1>1. /\ o \in Nat /\ n \in Nat \ {0} /\ S \in Nat \ {0} /\ o + n \in Nat
      /\ x \in Nat /\ sb \in Nat /\ eb \in Nat
      /\ 0 .. n - 1 \subseteq BufIdx
  BY <1>0, ConstantFacts, SMTT(10) DEF TypeOK, Off, Procs, RequestsFitBuffer
<1>2. PICK ps \in 0 .. S - 1 : ps = (o + n) % S
  BY <1>1, DivMod, SMTT(10)
<1>3. /\ size[p] = n /\ (eb + 1) * S = o + n - ps /\ o + x = sb * S
      /\ eb < NumSectors
  BY <1>0, <1>2, Zenon DEF Position, ProcBus
<1>4. /\ \A k \in 0 .. x - 1 : WellPlaced(buffer[p][k], o + k)
      /\ \A k \in (eb + 1) * S - o .. n - 1 : WellPlaced(buffer[p][k], o + k)
  BY <1>0, SMTT(10) DEF ReaderPlace
<1>5. CASE sb <= eb
  <2>1. /\ DmaRead(sb)
        /\ buffer' = [buffer EXCEPT ![p] = CopyOut(p, x, dma_start', 0, S)]
        /\ x_offset' = [x_offset EXCEPT ![p] = @ + SectorSize]
        /\ UNCHANGED <<pc, req, end_block>>
    <3>0. ~(sb > eb)
      BY <1>1, <1>5, SMTT(10)
    <3>1. QED BY <1>0b, <3>0, Zenon
  <2>2. sb \in Sectors
    BY <1>1, <1>3, <1>5, ConstantFacts, SMTT(10) DEF Sectors
  <2>3. /\ buffer'[p] = CopyOut(p, x, disk[sb], 0, S)
        /\ x_offset'[p] = x + S
    <3>1. dma_start' = disk[sb]
      BY <2>1, <2>2, DmaReadFresh, Zenon
    <3>2. QED BY <1>0c, <2>1, <3>1
  (* The sector read lies between the bytes read so far and the postfix. *)
  <2>4. x + S <= (eb + 1) * S - o
    <3>1. (sb + 1) * S <= (eb + 1) * S
      BY <1>1, <1>5, MulMono
    <3>2. (sb + 1) * S = sb * S + S
      BY <1>1
    <3>3. o + x = sb * S
      BY <1>3
    <3>4. QED BY <1>1, <3>1, <3>2, <3>3
  <2>5. (eb + 1) * S - o <= n
    BY <1>1, <1>2, <1>3, SMTT(10)
  <2>6. pc'[p] = "loop" /\ end_block'[p] = eb /\ req' = req
    BY <1>0a, <2>1
  <2>7. ASSUME NEW k \in 0 .. x_offset'[p] - 1
        PROVE  WellPlaced(buffer'[p][k], o + k)
    <3>0. k \in 0 .. x + S - 1
      BY <1>1, <2>3
    <3>1. k \in BufIdx
      BY <1>1, <2>4, <2>5, <3>0, SMTT(10)
    <3>2. CASE k < x
      <4>1. buffer'[p][k] = buffer[p][k]
        BY <1>1, <2>3, <3>1, <3>2 DEF CopyOut
      <4>2. QED BY <1>1, <1>4, <3>0, <3>2, <4>1, SMTT(10)
    <3>3. CASE k >= x
      <4>1. k - x \in ByteIdx
        BY <1>1, <3>0, <3>3, SMTT(10) DEF ByteIdx
      <4>2. buffer'[p][k] = disk[sb][k - x]
        BY <1>1, <2>3, <3>1, <3>3, SMTT(10) DEF CopyOut
      <4>3. WellPlaced(disk[sb][k - x], sb * S + (k - x))
        BY <1>0, <2>2, <4>1, SMTT(10) DEF DiskPlacement
      <4>4. sb * S + (k - x) = o + k
        BY <1>1, <1>3, <3>0, SMTT(10)
      <4>5. QED BY <4>2, <4>3, <4>4
    <3>4. QED BY <1>1, <3>0, <3>2, <3>3, SMTT(10)
  <2>8. ASSUME NEW k \in (end_block'[p] + 1) * S - o .. n - 1
        PROVE  WellPlaced(buffer'[p][k], o + k)
    <3>0. k \in (eb + 1) * S - o .. n - 1
      BY <2>6
    <3>1. k \in BufIdx /\ ~(x <= k /\ k < x + S)
      BY <1>1, <2>4, <3>0, SMTT(10)
    <3>2. buffer'[p][k] = buffer[p][k]
      BY <1>1, <2>3, <3>1, SMTT(10) DEF CopyOut
    <3>3. QED BY <1>4, <3>0, <3>2
  <2>9. QED BY <2>6, <2>7, <2>8, ReaderLoopStep
<1>6. CASE sb > eb
  <2>1. pc'[p] = "done" /\ UNCHANGED <<req, size, buffer>>
    <3>0. ~(sb <= eb)
      BY <1>1, <1>6
    <3>1. pc' = [pc EXCEPT ![p] = "done"] /\ UNCHANGED <<req, size, buffer>>
      BY <1>0b, <3>0, Zenon
    <3>2. QED BY <1>0c, <3>1, SMTT(10)
  (* Past the loop the bytes read so far reach the postfix's bytes. *)
  <2>2. (eb + 1) * S - o <= x
    <3>1. (eb + 1) * S <= sb * S
      BY <1>1, <1>6, MulMono, SMTT(10)
    <3>2. o + x = sb * S
      BY <1>3
    <3>3. QED BY <1>1, <3>1, <3>2
  <2>3. \A k \in 0 .. n - 1 : WellPlaced(buffer[p][k], o + k)
    BY <1>1, <1>4, <2>2, SMTT(10)
  <2>4. QED BY <1>3, <2>1, <2>3, Zenon DEF ReaderPlace, WellPlaced, Off
<1>7. sb <= eb \/ sb > eb
  BY <1>1
<1>8. QED BY <1>5, <1>6, <1>7, Zenon

(* The retry loop of write_sector_retry leaves every reader alone. *)
LEMMA RetryRead ==
  ASSUME ReadInv, NEW w \in Writers, RetryWrite(w) \/ RetryVerify(w)
  PROVE  \A r \in Readers : ReaderPlace(r)'
<1>1. UNCHANGED <<req, pc, size, end_block, x_offset, buffer>>
  BY DEF RetryWrite, RetryVerify
<1>2. QED BY <1>1, ReaderFrame, SMTT(10) DEF ReadInv

LEMMA InitRead == Init => ReadInv
<1> SUFFICES ASSUME Init PROVE ReadInv
  OBVIOUS
<1>1. PlaceInv
  BY InitPlace
<1>2. \A r \in Readers : ReaderPlace(r)
  BY DEF Init, ReaderPlace, Procs
<1>3. QED BY <1>1, <1>2, SMTT(10) DEF ReadInv

LEMMA NextRead ==
  ASSUME AllRequestsHandled, HwFailures = FALSE, RequestsFitBuffer,
         ReadInv, [Next]_vars
  PROVE  ReadInv'
<1>0. TypeOK /\ PlaceInv'
  BY NextPlace, Zenon DEF ReadInv, PlaceInv, PosInv, DiskBusInv
<1>1. ASSUME NEW p \in Procs, Start(p) \/ Prefix(p) \/ Postfix(p) \/ Loop(p)
      PROVE  ReadInv'
  <2>1. ASSUME NEW r \in Readers PROVE ReaderPlace(r)'
    <3>1. CASE r = p
      BY <1>1, <3>1, StartRead, PrefixRead, PostfixRead, LoopRead, Zenon
    <3>2. CASE r # p
      <4>1. r \in Procs
        BY SMTT(10) DEF Procs
      <4>2. /\ pc'[r] = pc[r] /\ size'[r] = size[r] /\ req' = req
            /\ end_block'[r] = end_block[r]
        BY <1>0, <1>1, <3>2, <4>1, AdapterFrame, SMTT(10)
      <4>3. x_offset'[r] = x_offset[r] /\ buffer'[r] = buffer[r]
        BY <1>0, <1>1, <3>2, <4>1, AdapterKeeps
      <4>4. QED BY <4>2, <4>3, ReaderFrame DEF ReadInv
    <3>3. QED BY <3>1, <3>2
  <2>2. QED BY <1>0, <2>1 DEF ReadInv
<1>2. ASSUME NEW w \in Writers, RetryWrite(w) \/ RetryVerify(w)
      PROVE  ReadInv'
  BY <1>0, <1>2, RetryRead, SMTT(10) DEF ReadInv
<1>3. CASE UNCHANGED vars
  BY <1>0, <1>3, Zenon DEF vars, ReadInv, ReaderPlace, WellPlaced, Off
<1>4. QED
  BY <1>1, <1>2, <1>3 DEF Next

(* For the requests write_ata and read_ata handle, whose range fits the    *)
(* caller's buffer, and without hardware failures, read_ata hands back    *)
(* the bytes of the range it was asked for: when it returns n, bytes       *)
(* 0 .. n-1 of the buffer are the disk's bytes at offset .. offset+n-1,    *)
(* whatever the concurrent writers do, for every sector size and capacity. *)
(* The prefix, the whole sectors and the postfix are copied to the right   *)
(* places and, once start_block passes end_block, meet without a gap.      *)
(* Without the hardware hypothesis it fails: after a failed DMA read the   *)
(* copy takes whatever the DMA buffer held from an earlier transfer        *)
(* (stale_dma.cfg).                                                        *)
THEOREM ReadsPlaced ==
  ASSUME AllRequestsHandled, HwFailures = FALSE, RequestsFitBuffer
  PROVE  Spec => []ReadPlacement
<1>1. ReadInv => ReadPlacement
  BY Zenon DEF ReadInv, ReaderPlace, ReadPlacement
<1>2. ReadInv /\ [Next]_vars => ReadInv'
  BY NextRead, Zenon
<1>3. QED BY <1>1, <1>2, InitRead, PTL DEF Spec

=============================================================================
