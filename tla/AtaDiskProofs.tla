---------------------------- MODULE AtaDiskProofs ----------------------------
(***************************************************************************)
(* Proofs about AtaDisk for every value of its constants.                  *)
(***************************************************************************)
EXTENDS AtaDisk, TLAPS

(* Facts about the constants the steps below keep citing. *)
LEMMA ConstantFacts ==
  /\ SectorSize \in Nat \ {0}
  /\ UllRange \in Nat \ {0}
  /\ NumSectors \in Nat
  /\ MaxOffset \in Nat
  /\ \A r \in Requests : r.offset \in Nat /\ r.size \in Nat \ {0}
BY SectorSizeAssumption, SectorsAssumption, BoundsAssumption,
   RequestsAssumption DEF NumSectors, MaxOffset

(* A byte is a provenance tag: who wrote it, and at which position.      *)
LEMMA ByteTuple ==
  \A a \in Writers \cup {Orig, Junk}, i \in Int : <<a, i>> \in Byte
BY DEF Byte

(* Reading a sector into the DMA buffer keeps the buffer a sector image  *)
(* and the task file a command on a natural LBA.                           *)
LEMMA DmaReadType ==
  ASSUME TypeOK, NEW n \in Nat, DmaRead(n)
  PROVE  /\ dma_start' \in [ByteIdx -> Byte]
         /\ taskfile' \in [cmd : {"none", "read_dma", "write_pio"}, lba : Nat]
BY DEF DmaRead, TypeOK, Sectors

(* Copying bytes of a sector image into a caller buffer keeps the buffer  *)
(* typed as long as every byte read lies inside the sector image.          *)
LEMMA CopyOutType ==
  ASSUME TypeOK, NEW r \in Readers, NEW data \in [ByteIdx -> Byte],
         NEW at \in Int, NEW from \in Int, NEW len \in Int,
         \A k \in BufIdx : at <= k /\ k < at + len => from + k - at \in ByteIdx
  PROVE  CopyOut(r, at, data, from, len) \in [BufIdx -> Byte \cup {Empty}]
BY DEF TypeOK, CopyOut

(* Merging a writer's bytes into a sector image yields a sector image.     *)
LEMMA MergeType ==
  ASSUME NEW w \in Writers, NEW data \in [ByteIdx -> Byte],
         NEW at \in Int, NEW len \in Int
  PROVE  /\ MergeHead(w, data, at) \in [ByteIdx -> Byte]
         /\ MergeTail(w, data, at, len) \in [ByteIdx -> Byte]
BY ByteTuple DEF MergeHead, MergeTail, ByteIdx

LEMMA InitTypeOK == Init => TypeOK
<1>. SUFFICES ASSUME Init PROVE TypeOK
  OBVIOUS
<1>1. disk \in [Sectors -> [ByteIdx -> Byte]]
  <2>1. \A s \in Sectors, j \in ByteIdx : s * SectorSize + j \in Int
    BY ConstantFacts DEF Sectors, ByteIdx
  <2>2. \A s \in Sectors, j \in ByteIdx : <<Orig, s * SectorSize + j>> \in Byte
    BY <2>1, ByteTuple
  <2>3. QED
    BY <2>2 DEF Init
<1>2. <<Junk, 0>> \in Byte
  BY ByteTuple
<1>3. /\ dma_start \in [ByteIdx -> Byte]
      /\ tmp \in [Writers -> [ByteIdx -> Byte]]
  BY <1>2 DEF Init
<1>4. QED
  BY <1>1, <1>3 DEF Init, TypeOK

LEMMA StartTypeOK ==
  ASSUME TypeOK, NEW p \in Procs, Start(p)
  PROVE  TypeOK'
<1>1. Off(p) \in Nat /\ req[p].size \in Nat \ {0}
  BY ConstantFacts DEF TypeOK, Off
<1>2. Off(p) \div SectorSize \in Nat /\ LastBlock(Off(p), req[p].size) \in Nat
  BY <1>1, ConstantFacts DEF LastBlock
<1>3. size' \in [Procs -> Nat]
  BY <1>1, ConstantFacts DEF Start, TypeOK
<1>4. QED
  BY <1>2, <1>3 DEF Start, TypeOK

LEMMA PrefixTypeOK ==
  ASSUME TypeOK, NEW p \in Procs, Prefix(p)
  PROVE  TypeOK'
<1>. DEFINE head_size == Off(p) % SectorSize
<1>1. head_size \in ByteIdx /\ SectorSize - head_size \in Nat
  BY ConstantFacts DEF TypeOK, Off, ByteIdx
<1>2. pc' \in [Procs -> {"start", "prefix", "postfix", "loop", "done"}]
  BY DEF Prefix, TypeOK
<1>3. CASE head_size = 0
  BY <1>2, <1>3 DEF Prefix, TypeOK
<1>4. CASE head_size # 0
  <2>1. /\ DmaRead(start_block[p])
        /\ x_offset' = [x_offset EXCEPT ![p] = @ + (SectorSize - head_size)]
        /\ start_block' = [start_block EXCEPT ![p] = @ + 1]
        /\ UNCHANGED <<disk, req, size, end_block>>
    BY <1>4 DEF Prefix
  <2>2. /\ dma_start' \in [ByteIdx -> Byte]
        /\ taskfile' \in [cmd : {"none", "read_dma", "write_pio"}, lba : Nat]
    BY <2>1, DmaReadType DEF TypeOK
  <2>6. x_offset' \in [Procs -> Nat] /\ start_block' \in [Procs -> Nat]
    BY <1>1, <2>1 DEF TypeOK
  <2>3. CASE p \in Readers
    <3>1. /\ buffer' = [buffer EXCEPT ![p] = CopyHead(p, dma_start', head_size)]
          /\ UNCHANGED <<tmp, lba, retry>>
      BY <1>4, <2>3 DEF Prefix
    <3>2. \A k \in BufIdx : 0 <= k /\ k < 0 + (SectorSize - head_size)
                              => head_size + k - 0 \in ByteIdx
      BY <1>1, ConstantFacts DEF ByteIdx, BufIdx
    <3>3. CopyHead(p, dma_start', head_size) \in [BufIdx -> Byte \cup {Empty}]
      BY <1>1, <2>2, <2>3, <3>2, CopyOutType, ConstantFacts DEF CopyHead, ByteIdx
    <3>4. QED
      BY <1>2, <2>1, <2>2, <2>6, <3>1, <3>3 DEF TypeOK
  <2>4. CASE p \notin Readers
    <3>1. p \in Writers
      BY <2>4 DEF Procs
    <3>2. /\ BeginRetry(p, start_block[p], MergeHead(p, dma_start', head_size))
          /\ UNCHANGED buffer
      BY <1>4, <2>4 DEF Prefix
    <3>3. MergeHead(p, dma_start', head_size) \in [ByteIdx -> Byte]
      <4>1. head_size \in Int /\ dma_start' \in [ByteIdx -> Byte]
        BY <1>1, <2>2, SectorSizeAssumption DEF ByteIdx
      <4>2. QED
        BY <3>1, <4>1, MergeType
    <3>4. QED
      BY <1>2, <2>1, <2>2, <2>6, <3>1, <3>2, <3>3 DEF BeginRetry, TypeOK
  <2>5. QED
    BY <2>3, <2>4
<1>5. QED
  BY <1>3, <1>4

LEMMA PostfixTypeOK ==
  ASSUME TypeOK, NEW p \in Procs, Postfix(p)
  PROVE  TypeOK'
<1>. DEFINE postfix_size == (Off(p) + size[p]) % SectorSize
            at == size[p] - postfix_size
<1>1. postfix_size \in ByteIdx /\ at \in Int
  BY ConstantFacts DEF TypeOK, Off, ByteIdx
<1>2. pc' \in [Procs -> {"start", "prefix", "postfix", "loop", "done"}]
  BY DEF Postfix, TypeOK
<1>3. CASE ~HasPostfix(p)
  BY <1>2, <1>3 DEF Postfix, TypeOK
<1>4. CASE HasPostfix(p)
  <2>1. /\ DmaRead(end_block[p])
        /\ end_block' = [end_block EXCEPT ![p] = Dec(@)]
        /\ UNCHANGED <<disk, req, size, start_block, x_offset>>
    BY <1>4 DEF Postfix
  <2>2. Dec(end_block[p]) \in Nat
    BY ConstantFacts DEF Dec, TypeOK
  <2>3. /\ dma_start' \in [ByteIdx -> Byte]
        /\ taskfile' \in [cmd : {"none", "read_dma", "write_pio"}, lba : Nat]
        /\ end_block' \in [Procs -> Nat]
    BY <2>1, <2>2, DmaReadType DEF TypeOK
  <2>4. CASE p \in Readers
    <3>1. /\ buffer' = [buffer EXCEPT ![p] =
                          CopyOut(p, at, dma_start', 0, postfix_size)]
          /\ UNCHANGED <<tmp, lba, retry>>
      BY <1>4, <2>4 DEF Postfix
    <3>2. \A k \in BufIdx : at <= k /\ k < at + postfix_size
                              => 0 + k - at \in ByteIdx
      BY <1>1, ConstantFacts DEF ByteIdx, BufIdx
    <3>3. CopyOut(p, at, dma_start', 0, postfix_size)
            \in [BufIdx -> Byte \cup {Empty}]
      BY <1>1, <2>3, <2>4, <3>2, CopyOutType DEF ByteIdx
    <3>4. QED
      BY <1>2, <2>1, <2>3, <3>1, <3>3 DEF TypeOK
  <2>5. CASE p \notin Readers
    <3>1. p \in Writers
      BY <2>5 DEF Procs
    <3>2. /\ BeginRetry(p, end_block[p],
                        MergeTail(p, dma_start', at, postfix_size))
          /\ UNCHANGED buffer
      BY <1>4, <2>5 DEF Postfix
    <3>3. MergeTail(p, dma_start', at, postfix_size) \in [ByteIdx -> Byte]
      BY <1>1, <2>3, <3>1, MergeType DEF ByteIdx
    <3>4. QED
      BY <1>2, <2>1, <2>3, <3>1, <3>2, <3>3 DEF BeginRetry, TypeOK
  <2>6. QED
    BY <2>4, <2>5
<1>5. QED
  BY <1>3, <1>4

LEMMA LoopTypeOK ==
  ASSUME TypeOK, NEW p \in Procs, Loop(p)
  PROVE  TypeOK'
<1>1. CASE start_block[p] > end_block[p]
  BY <1>1 DEF Loop, TypeOK
<1>2. CASE start_block[p] <= end_block[p]
  <2>1. /\ x_offset' = [x_offset EXCEPT ![p] = @ + SectorSize]
        /\ start_block' = [start_block EXCEPT ![p] = @ + 1]
        /\ UNCHANGED <<pc, req, size, end_block>>
    BY <1>2 DEF Loop, TypeOK
  <2>2. x_offset' \in [Procs -> Nat] /\ start_block' \in [Procs -> Nat]
    BY <2>1, SectorSizeAssumption DEF TypeOK
  <2>3. CASE p \in Readers
    <3>1. /\ DmaRead(start_block[p])
          /\ buffer' = [buffer EXCEPT ![p] =
                          CopyOut(p, x_offset[p], dma_start', 0, SectorSize)]
          /\ UNCHANGED <<disk, tmp, lba, retry>>
      BY <1>2, <2>3 DEF Loop, TypeOK
    <3>2. /\ dma_start' \in [ByteIdx -> Byte]
          /\ taskfile' \in [cmd : {"none", "read_dma", "write_pio"}, lba : Nat]
      BY <3>1, DmaReadType DEF TypeOK
    <3>3. \A k \in BufIdx : x_offset[p] <= k /\ k < x_offset[p] + SectorSize
                              => 0 + k - x_offset[p] \in ByteIdx
      BY SectorSizeAssumption DEF ByteIdx, BufIdx, TypeOK
    <3>4. CopyOut(p, x_offset[p], dma_start', 0, SectorSize)
            \in [BufIdx -> Byte \cup {Empty}]
      BY <2>3, <3>2, <3>3, CopyOutType, SectorSizeAssumption DEF TypeOK
    <3>5. QED
      BY <2>1, <2>2, <3>1, <3>2, <3>4 DEF TypeOK
  <2>4. CASE p \notin Readers
    <3>1. p \in Writers
      BY <2>4 DEF Procs
    <3>2. /\ BeginRetry(p, start_block[p],
                        [j \in ByteIdx |-> <<p, x_offset[p] + j>>])
          /\ UNCHANGED <<disk, dma_start, taskfile, buffer>>
      BY <1>2, <2>4 DEF Loop, TypeOK
    <3>3. [j \in ByteIdx |-> <<p, x_offset[p] + j>>] \in [ByteIdx -> Byte]
      BY <3>1, ByteTuple DEF TypeOK, ByteIdx
    <3>4. QED
      BY <2>1, <2>2, <3>1, <3>2, <3>3 DEF BeginRetry, TypeOK
  <2>5. QED
    BY <2>3, <2>4
<1>3. QED
  BY <1>1, <1>2 DEF TypeOK

LEMMA RetryWriteTypeOK ==
  ASSUME TypeOK, NEW w \in Writers, RetryWrite(w)
  PROVE  TypeOK'
BY DEF RetryWrite, PioWrite, TypeOK, Sectors

LEMMA RetryVerifyTypeOK ==
  ASSUME TypeOK, NEW w \in Writers, RetryVerify(w)
  PROVE  TypeOK'
BY DEF RetryVerify, DmaRead, TypeOK, Sectors

LEMMA NextTypeOK == TypeOK /\ [Next]_vars => TypeOK'
<1>. SUFFICES ASSUME TypeOK, [Next]_vars PROVE TypeOK'
  OBVIOUS
<1>1. CASE \E p \in Procs : Start(p) \/ Prefix(p) \/ Postfix(p) \/ Loop(p)
  BY <1>1, StartTypeOK, PrefixTypeOK, PostfixTypeOK, LoopTypeOK
<1>2. CASE \E w \in Writers : RetryWrite(w) \/ RetryVerify(w)
  BY <1>2, RetryWriteTypeOK, RetryVerifyTypeOK
<1>3. CASE UNCHANGED vars
  BY <1>3 DEF vars, TypeOK
<1>4. QED
  BY <1>1, <1>2, <1>3 DEF Next

(* Type correctness: every variable keeps its type in every reachable     *)
(* state, for every sector size, capacity, set of callers and requests.    *)
THEOREM TypeCorrect == Spec => []TypeOK
BY InitTypeOK, NextTypeOK, PTL DEF Spec

-----------------------------------------------------------------------------
(* Requests on the drive never reach past it.                             *)

(* Every request a caller may pass is one OnDriveRequest admits. *)
AllRequestsOnDrive == \A r \in Requests : OnDriveRequest(r)

(* The block bounds of a caller of read_ata or write_ata, phase by phase: *)
(* a caller past Start has a request that starts on the drive; Start      *)
(* records the block numbers of the unclamped request; the prefix moves   *)
(* start_block past a partial first sector; from the loop on end_block is *)
(* a sector of the drive; a sector handed to write_sector_retry is one.   *)
ProcBus(p) ==
  /\ pc[p] \in {"prefix", "postfix", "loop"} => Off(p) <= MaxOffset
  /\ pc[p] = "prefix" =>
       /\ size[p] = req[p].size
       /\ start_block[p] = Off(p) \div SectorSize
       /\ end_block[p] = LastBlock(Off(p), req[p].size)
  /\ pc[p] = "postfix" =>
       /\ size[p] = req[p].size
       /\ start_block[p] = Off(p) \div SectorSize
                           + (IF Off(p) % SectorSize # 0 THEN 1 ELSE 0)
       /\ end_block[p] = LastBlock(Off(p), req[p].size)
  /\ pc[p] = "loop" => end_block[p] < NumSectors
  /\ p \in Writers /\ retry[p] # "none" => lba[p] \in Sectors

DiskBusInv == TypeOK /\ BusWithinCapacity /\ \A p \in Procs : ProcBus(p)

(* Division by the sector size, in the forms the provers handle. *)
LEMMA DivMod ==
  ASSUME NEW x \in Nat
  PROVE  /\ x \div SectorSize \in Nat
         /\ x % SectorSize \in 0 .. SectorSize - 1
         /\ x \div SectorSize = 0 => x < SectorSize
         /\ x \div SectorSize = 0 /\ x % SectorSize = 0 => x = 0
BY SectorSizeAssumption

(* A byte before ata_max_offset lies in a sector of the drive. *)
LEMMA SectorOnDrive ==
  ASSUME NEW x \in Nat, x < MaxOffset
  PROVE  x \div SectorSize \in Sectors
<1>1. NumSectors \in Nat /\ MaxOffset = NumSectors * SectorSize
  BY ConstantFacts DEF MaxOffset
<1>2. NumSectors # 0
  BY <1>1, SectorSizeAssumption
<1>3. x < ((NumSectors - 1) + 1) * SectorSize
  BY <1>1
<1>4. x \div SectorSize <= NumSectors - 1
  BY <1>1, <1>2, <1>3, SectorSizeAssumption
<1>5. QED
  BY <1>4, DivMod DEF Sectors

(* The postfix of a request on the drive never decrements an end_block of *)
(* 0: with start_block <= 0 there was no prefix, so the request starts at *)
(* byte 0 and ends inside sector 0 without filling it, which              *)
(* OnDriveRequest excludes.                                                *)
LEMMA PostfixNoWrap ==
  ASSUME NEW o \in Nat, NEW n \in Nat \ {0},
         ~(o = 0 /\ n < SectorSize),
         (o + n) % SectorSize # 0,
         LastBlock(o, n) = 0,
         o \div SectorSize + (IF o % SectorSize # 0 THEN 1 ELSE 0) <= 0
  PROVE  FALSE
<1>1. o % SectorSize = 0 /\ o \div SectorSize = 0
  BY DivMod
<1>2. o = 0
  BY <1>1, DivMod
<1>3. n - 1 < SectorSize
  <2>1. (n - 1) \div SectorSize = 0
    BY <1>2 DEF LastBlock
  <2>2. QED BY <2>1, DivMod
<1>4. n # SectorSize
  <2>1. SectorSize % SectorSize = 0
    BY SectorSizeAssumption
  <2>2. QED BY <1>2, <2>1
<1>5. QED
  BY <1>2, <1>3, <1>4, SectorSizeAssumption

(* What OnDriveRequest says of a caller's request once it is past Start. *)
LEMMA ReqFacts ==
  ASSUME TypeOK, AllRequestsOnDrive, NEW p \in Procs
  PROVE  /\ Off(p) \in Nat /\ req[p].size \in Nat \ {0}
         /\ Off(p) <= MaxOffset =>
              /\ Off(p) + req[p].size <= MaxOffset
              /\ ~(Off(p) = 0 /\ req[p].size < SectorSize)
BY ConstantFacts DEF TypeOK, AllRequestsOnDrive, OnDriveRequest, Off

(* A step of read_ata or write_ata changes the locals of its own caller   *)
(* only.                                                                   *)
LEMMA AdapterFrame ==
  ASSUME TypeOK, NEW p \in Procs,
         Start(p) \/ Prefix(p) \/ Postfix(p) \/ Loop(p),
         NEW x \in Procs, x # p
  PROVE  /\ pc'[x] = pc[x] /\ size'[x] = size[x] /\ req' = req
         /\ start_block'[x] = start_block[x] /\ end_block'[x] = end_block[x]
         /\ x \in Writers => retry'[x] = retry[x] /\ lba'[x] = lba[x]
<1>1. CASE Start(p)
  BY <1>1 DEF Start, TypeOK
<1>2. CASE Prefix(p)
  BY <1>2 DEF Prefix, BeginRetry, TypeOK
<1>3. CASE Postfix(p)
  BY <1>3 DEF Postfix, BeginRetry, TypeOK
<1>4. CASE Loop(p)
  BY <1>4 DEF Loop, BeginRetry, TypeOK
<1>5. QED
  BY <1>1, <1>2, <1>3, <1>4

(* ProcBus(x) speaks only of caller x's locals and request. *)
LEMMA BusFrame ==
  ASSUME NEW x \in Procs, ProcBus(x),
         pc'[x] = pc[x], size'[x] = size[x], req'[x] = req[x],
         start_block'[x] = start_block[x], end_block'[x] = end_block[x],
         x \in Writers => retry'[x] = retry[x] /\ lba'[x] = lba[x]
  PROVE  ProcBus(x)'
BY DEF ProcBus, Off

(* Start records the block numbers of the request; one that starts on the *)
(* drive ends on it, so its size is not clamped.                           *)
LEMMA StartBus ==
  ASSUME DiskBusInv, AllRequestsOnDrive, NEW p \in Procs, Start(p)
  PROVE  ProcBus(p)' /\ BusWithinCapacity'
<1> DEFINE o == Off(p)
           n == req[p].size
<1> USE DEF o, n
<1>0. /\ TypeOK /\ ProcBus(p) /\ UNCHANGED <<taskfile, req, retry, lba>>
      /\ o \in Nat /\ n \in Nat \ {0}
      /\ Off(p)' = o /\ req'[p].size = n
  BY ReqFacts DEF DiskBusInv, Start, Off
<1>1. BusWithinCapacity'
  BY <1>0 DEF DiskBusInv, BusWithinCapacity
<1>2. CASE o > MaxOffset
  <2>1. pc'[p] = "done"
    BY <1>0, <1>2 DEF Start, TypeOK
  <2>2. QED
    BY <1>0, <1>1, <2>1 DEF ProcBus
<1>3. CASE ~(o > MaxOffset)
  <2>1. o + n <= MaxOffset
    BY <1>0, <1>3, ReqFacts, ConstantFacts DEF DiskBusInv
  <2>2. /\ pc'[p] = "prefix" /\ size'[p] = n
        /\ start_block'[p] = o \div SectorSize
        /\ end_block'[p] = LastBlock(o, n)
    BY <1>0, <1>3, <2>1, ConstantFacts DEF Start, TypeOK
  <2>3. QED
    BY <1>0, <1>1, <1>3, <2>2, ConstantFacts DEF ProcBus
<1>4. QED
  BY <1>2, <1>3

(* The prefix reads sector offset / ATA_SECTOR_SIZE, which lies on the    *)
(* drive, hands that same sector to write_sector_retry, and moves          *)
(* start_block past it.                                                    *)
LEMMA PrefixBus ==
  ASSUME DiskBusInv, AllRequestsOnDrive, NEW p \in Procs, Prefix(p)
  PROVE  ProcBus(p)' /\ BusWithinCapacity'
<1> DEFINE o == Off(p)
           n == req[p].size
           S == SectorSize
<1> USE DEF o, n, S
<1>0. /\ TypeOK /\ ProcBus(p) /\ pc[p] = "prefix" /\ pc'[p] = "postfix"
      /\ req' = req /\ size'[p] = size[p] /\ end_block'[p] = end_block[p]
      /\ Idle(p)
  BY DEF DiskBusInv, Prefix, TypeOK
<1>1. /\ o \in Nat /\ n \in Nat \ {0} /\ o + n <= MaxOffset
      /\ Off(p)' = o /\ req'[p].size = n
  BY <1>0, ReqFacts DEF ProcBus, Off
<1>2. /\ size[p] = n /\ start_block[p] = o \div S
      /\ end_block[p] = LastBlock(o, n)
  BY <1>0 DEF ProcBus
<1>3. o \div S \in Sectors
  BY <1>1, SectorOnDrive, ConstantFacts
<1>4. CASE o % S # 0
  <2>1. /\ taskfile' = [cmd |-> "read_dma", lba |-> start_block[p]]
        /\ start_block'[p] = start_block[p] + 1
        /\ p \in Writers => lba'[p] = start_block[p] /\ retry'[p] = "write"
    <3>1. /\ taskfile' = [cmd |-> "read_dma", lba |-> start_block[p]]
          /\ start_block'[p] = start_block[p] + 1
      BY <1>0, <1>4 DEF Prefix, DmaRead, TypeOK, Off
    <3>2. ASSUME p \in Writers PROVE lba'[p] = start_block[p] /\ retry'[p] = "write"
      <4>1. p \notin Readers
        BY <3>2, ProcsAssumption
      <4>2. BeginRetry(p, start_block[p], MergeHead(p, dma_start', o % S))
        BY <1>0, <1>4, <4>1 DEF Prefix, Off
      <4>3. QED BY <3>2, <4>2, <1>0 DEF BeginRetry, TypeOK
    <3>3. QED BY <3>1, <3>2
  <2>2. BusWithinCapacity'
    BY <1>2, <1>3, <2>1 DEF BusWithinCapacity
  <2>3. ProcBus(p)'
    BY <1>0, <1>1, <1>2, <1>3, <1>4, <2>1 DEF ProcBus
  <2>4. QED BY <2>2, <2>3
<1>5. CASE o % S = 0
  <2>1. UNCHANGED <<taskfile, start_block, retry, lba>>
    BY <1>0, <1>5 DEF Prefix, Off
  <2>2. o \div S \in Nat
    BY <1>1, DivMod
  <2>3. start_block'[p] = o \div S + (IF o % S # 0 THEN 1 ELSE 0)
    BY <1>2, <1>5, <2>1, <2>2
  <2>4. QED
    BY <1>0, <1>1, <1>2, <1>5, <2>1, <2>3 DEF ProcBus, DiskBusInv, BusWithinCapacity
<1>6. QED BY <1>4, <1>5

(* The postfix reads sector end_block, the last one the request touches,  *)
(* hands it to write_sector_retry, and decrements end_block without       *)
(* wrapping.                                                               *)
LEMMA PostfixBus ==
  ASSUME DiskBusInv, AllRequestsOnDrive, NEW p \in Procs, Postfix(p)
  PROVE  ProcBus(p)' /\ BusWithinCapacity'
<1> DEFINE o == Off(p)
           n == req[p].size
           S == SectorSize
<1> USE DEF o, n, S
<1>0. /\ TypeOK /\ ProcBus(p) /\ pc[p] = "postfix" /\ pc'[p] = "loop"
      /\ req' = req /\ Idle(p)
  BY DEF DiskBusInv, Postfix, TypeOK
<1>1. /\ o \in Nat /\ n \in Nat \ {0} /\ o + n <= MaxOffset
      /\ ~(o = 0 /\ n < S)
  BY <1>0, ReqFacts DEF ProcBus
<1>2. /\ size[p] = n
      /\ start_block[p] = o \div S + (IF o % S # 0 THEN 1 ELSE 0)
      /\ end_block[p] = LastBlock(o, n)
  BY <1>0 DEF ProcBus
<1>3. end_block[p] \in Sectors
  <2>1. o + n - 1 \in Nat /\ o + n - 1 < MaxOffset
    BY <1>1, ConstantFacts
  <2>2. QED BY <1>2, <2>1, SectorOnDrive DEF LastBlock
<1>4. CASE HasPostfix(p)
  <2>1. /\ taskfile' = [cmd |-> "read_dma", lba |-> end_block[p]]
        /\ end_block'[p] = Dec(end_block[p])
    BY <1>0, <1>4 DEF Postfix, DmaRead, TypeOK
  <2>2. ASSUME p \in Writers PROVE lba'[p] = end_block[p] /\ retry'[p] = "write"
    <3>1. p \notin Readers
      BY <2>2, ProcsAssumption
    <3>2. \E data : BeginRetry(p, end_block[p], data)
      BY <1>0, <1>4, <3>1, Zenon DEF Postfix
    <3>3. QED BY <1>0, <2>2, <3>2 DEF BeginRetry, TypeOK
  <2>3. end_block[p] # 0
    <3>1. SUFFICES ASSUME end_block[p] = 0 PROVE FALSE
      OBVIOUS
    <3>2. (o + n) % S # 0 /\ start_block[p] <= 0
      BY <1>2, <1>4, <3>1 DEF HasPostfix
    <3>3. QED
      BY <1>1, <1>2, <3>1, <3>2, PostfixNoWrap
  <2>4. Dec(end_block[p]) < NumSectors
    <3>1. end_block[p] \in Nat /\ end_block[p] < NumSectors
      BY <1>3, ConstantFacts DEF Sectors
    <3>2. (end_block[p] - 1) % UllRange <= end_block[p] - 1
      BY <2>3, <3>1, ConstantFacts
    <3>3. QED BY <3>1, <3>2, ConstantFacts DEF Dec
  <2>5. QED
    BY <1>0, <1>3, <2>1, <2>2, <2>4 DEF ProcBus, BusWithinCapacity, Off
<1>5. CASE ~HasPostfix(p)
  <2>1. UNCHANGED <<taskfile, end_block, retry, lba>>
    BY <1>0, <1>5 DEF Postfix
  <2>2. QED
    BY <1>0, <1>3, <2>1, ConstantFacts DEF ProcBus, DiskBusInv, BusWithinCapacity, Sectors, Off
<1>6. QED BY <1>4, <1>5

(* The loop reads or hands to write_sector_retry only sectors up to       *)
(* end_block, which lies on the drive.                                     *)
LEMMA LoopBus ==
  ASSUME DiskBusInv, NEW p \in Procs, Loop(p)
  PROVE  ProcBus(p)' /\ BusWithinCapacity'
<1>0. /\ TypeOK /\ ProcBus(p) /\ BusWithinCapacity /\ pc[p] = "loop"
      /\ end_block[p] < NumSectors
  BY DEF DiskBusInv, Loop, ProcBus
<1>1. CASE /\ start_block[p] <= end_block[p]
           /\ start_block[p] < SectorLimit
           /\ IF p \in Readers
                THEN /\ DmaRead(start_block[p])
                     /\ buffer' = [buffer EXCEPT ![p] =
                          CopyOut(p, x_offset[p], dma_start', 0, SectorSize)]
                     /\ UNCHANGED <<disk, tmp, lba, retry>>
                ELSE /\ BeginRetry(p, start_block[p],
                          [j \in ByteIdx |-> <<p, x_offset[p] + j>>])
                     /\ UNCHANGED <<disk, dma_start, taskfile, buffer>>
           /\ x_offset' = [x_offset EXCEPT ![p] = @ + SectorSize]
           /\ start_block' = [start_block EXCEPT ![p] = @ + 1]
           /\ UNCHANGED <<pc, req, size, end_block>>
  <2>1. start_block[p] \in Sectors
    BY <1>0, <1>1, ConstantFacts DEF TypeOK, Sectors
  <2>2. CASE p \in Readers
    <3>1. /\ taskfile' = [cmd |-> "read_dma", lba |-> start_block[p]]
          /\ UNCHANGED <<lba, retry>>
      BY <1>1, <2>2 DEF DmaRead
    <3>2. QED
      BY <1>0, <1>1, <2>1, <3>1 DEF ProcBus, BusWithinCapacity, Off
  <2>3. CASE p \notin Readers
    <3>1. p \in Writers
      BY <2>3 DEF Procs
    <3>2. /\ UNCHANGED taskfile
          /\ lba'[p] = start_block[p] /\ retry'[p] = "write"
      BY <1>0, <1>1, <2>3, <3>1 DEF BeginRetry, TypeOK
    <3>3. QED
      BY <1>0, <1>1, <2>1, <3>2 DEF ProcBus, BusWithinCapacity, Off
  <2>4. QED BY <2>2, <2>3
<1>2. CASE /\ start_block[p] > end_block[p]
           /\ pc' = [pc EXCEPT ![p] = "done"]
           /\ UNCHANGED <<disk, dma_start, taskfile, req, size, start_block,
                          end_block, x_offset, buffer, tmp, lba, retry>>
  BY <1>0, <1>2 DEF ProcBus, BusWithinCapacity, TypeOK
<1>3. QED
  BY <1>1, <1>2 DEF Loop

(* ata_device_write_sector_retry writes and reads back the sector it was  *)
(* handed, and touches no caller's read_ata / write_ata locals.            *)
LEMMA RetryBus ==
  ASSUME DiskBusInv, NEW w \in Writers, RetryWrite(w) \/ RetryVerify(w)
  PROVE  /\ \A x \in Procs : ProcBus(x)'
         /\ BusWithinCapacity'
<1>0. /\ TypeOK /\ \A x \in Procs : ProcBus(x)
      /\ retry[w] # "none" /\ lba[w] \in Sectors
      /\ UNCHANGED <<req, pc, size, start_block, end_block, lba>>
      /\ \A x \in Writers \ {w} : retry'[x] = retry[x]
  <2>1. w \in Procs
    BY DEF Procs
  <2>2. QED
    BY <2>1 DEF DiskBusInv, ProcBus, RetryWrite, RetryVerify, TypeOK
<1>1. taskfile'.lba = lba[w]
  BY DEF RetryWrite, RetryVerify, PioWrite, DmaRead
<1>2. ASSUME NEW x \in Procs PROVE ProcBus(x)'
  <2>1. CASE x = w
    BY <1>0, <2>1 DEF ProcBus, Off
  <2>2. CASE x # w
    BY <1>0, <2>2, BusFrame
  <2>3. QED BY <2>1, <2>2
<1>3. QED
  BY <1>0, <1>1, <1>2 DEF BusWithinCapacity

LEMMA InitBusInv == Init => DiskBusInv
<1> SUFFICES ASSUME Init PROVE DiskBusInv
  OBVIOUS
<1>1. TypeOK
  BY InitTypeOK
<1>2. BusWithinCapacity /\ \A p \in Procs : ProcBus(p)
  BY DEF Init, BusWithinCapacity, ProcBus
<1>3. QED BY <1>1, <1>2 DEF DiskBusInv

LEMMA NextBusInv ==
  AllRequestsOnDrive /\ DiskBusInv /\ [Next]_vars => DiskBusInv'
<1> SUFFICES ASSUME AllRequestsOnDrive, DiskBusInv, [Next]_vars
             PROVE  DiskBusInv'
  OBVIOUS
<1>0. TypeOK /\ TypeOK'
  BY NextTypeOK DEF DiskBusInv
<1>1. ASSUME NEW p \in Procs, Start(p) \/ Prefix(p) \/ Postfix(p) \/ Loop(p)
      PROVE  DiskBusInv'
  <2>1. ProcBus(p)' /\ BusWithinCapacity'
    BY <1>1, StartBus, PrefixBus, PostfixBus, LoopBus
  <2>2. ASSUME NEW x \in Procs, x # p PROVE ProcBus(x)'
    BY <1>0, <1>1, <2>2, AdapterFrame, BusFrame DEF DiskBusInv
  <2>3. QED BY <1>0, <2>1, <2>2 DEF DiskBusInv
<1>2. ASSUME NEW w \in Writers, RetryWrite(w) \/ RetryVerify(w)
      PROVE  DiskBusInv'
  BY <1>0, <1>2, RetryBus DEF DiskBusInv
<1>3. CASE UNCHANGED vars
  BY <1>0, <1>3 DEF vars, DiskBusInv, ProcBus, Off, BusWithinCapacity
<1>4. QED
  BY <1>1, <1>2, <1>3 DEF Next

(* For requests that end on the drive and are not a piece of sector 0,    *)
(* and requests starting past it, read_ata and write_ata never put a       *)
(* command for a sector past the drive on the bus, for every sector size, *)
(* capacity and number of readers and writers, with or without hardware   *)
(* failures. The requests left out are exactly those for which they do:    *)
(* one starting at ata_max_offset passes the `offset > max` test, one      *)
(* running past the end computes end_block from the unclamped size        *)
(* (past_capacity.cfg), and one inside sector 0 wraps end_block            *)
(* (wrap_hang.cfg).                                                        *)
THEOREM BusAlwaysWithinCapacity ==
  ASSUME AllRequestsOnDrive
  PROVE  Spec => []BusWithinCapacity
<1>1. DiskBusInv => BusWithinCapacity
  BY DEF DiskBusInv
<1>2. DiskBusInv /\ [Next]_vars => DiskBusInv'
  BY NextBusInv
<1>3. QED BY <1>1, <1>2, InitBusInv, PTL DEF Spec

=============================================================================
