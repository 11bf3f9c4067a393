--------------------------- MODULE AtaLegacyProofs ---------------------------
(***************************************************************************)
(* Proofs about AtaLegacy for every value of its constants.                *)
(***************************************************************************)
EXTENDS AtaLegacy, TLAPS

(* Facts about the constants the steps below keep citing. *)
LEMMA ConstantFacts ==
  /\ SectorSize \in Nat \ {0}
  /\ U32Range \in Nat \ {0}
  /\ NumSectors \in Nat
  /\ MaxOffset \in Nat
  /\ \A r \in Requests : r.offset \in Nat /\ r.size \in 1 .. U32Range - 1
BY LegacySectorSizeAssumption, LegacySectorsAssumption, LegacyBoundsAssumption,
   LegacyRequestsAssumption DEF NumSectors, MaxOffset

(* unsigned int arithmetic stays in 0 .. 2^32 - 1. *)
LEMMA Word ==
  ASSUME NEW x \in Int
  PROVE  x % U32Range \in 0 .. U32Range - 1
BY ConstantFacts

(* A block number computed from a 32-bit byte offset is a 32-bit value. *)
LEMMA BlockOfWord ==
  ASSUME NEW x \in 0 .. U32Range - 1
  PROVE  x \div SectorSize \in 0 .. U32Range - 1
<1>1. x \div SectorSize \in Nat
  BY ConstantFacts
<1>2. (x + 1) * SectorSize >= x + 1
  BY ConstantFacts
<1>3. x < (x + 1) * SectorSize
  BY <1>2, ConstantFacts
<1>4. x \div SectorSize <= x
  BY <1>3, ConstantFacts
<1>5. QED BY <1>1, <1>4, ConstantFacts

(* A byte is a provenance tag: who wrote it, and at which position.      *)
LEMMA ByteTuple ==
  \A a \in Writers \cup {Orig, Junk}, i \in Int : <<a, i>> \in Byte
BY DEF Byte

(* A fresh malloc and a sector of the drive are sector images. *)
LEMMA FreshType == Fresh \in [ByteIdx -> Byte]
BY ByteTuple DEF Fresh

(* What a PIO read of sector n delivers: the sector when it succeeds,     *)
(* which needs n on the drive, or the untouched fresh buffer.              *)
LEMMA SectorData ==
  ASSUME TypeOK, NEW n \in Nat, NEW ok \in Outcomes(n)
  PROVE  /\ ok \in BOOLEAN
         /\ (IF ok THEN disk[n] ELSE Fresh) \in [ByteIdx -> Byte]
         /\ ok => disk[n] \in [ByteIdx -> Byte]
<1>1. ok \in BOOLEAN /\ (ok => n \in Sectors)
  BY LegacyHwFailuresAssumption DEF Outcomes
<1>2. QED
  BY <1>1, FreshType DEF TypeOK

(* Copying bytes of a sector image into a caller buffer keeps the buffer  *)
(* typed as long as every byte read lies inside the sector image.          *)
LEMMA CopyOutType ==
  ASSUME TypeOK, NEW r \in Readers, NEW data \in [ByteIdx -> Byte],
         NEW at \in Int, NEW from \in Int, NEW len \in Int,
         \A k \in BufIdx : at <= k /\ k < at + len => from + k - at \in ByteIdx
  PROVE  CopyOut(r, at, data, from, len) \in [BufIdx -> Byte \cup {Empty}]
BY DEF TypeOK, CopyOut

(* Merging a writer's first bytes into a sector image yields a sector     *)
(* image.                                                                  *)
LEMMA MergeHeadType ==
  ASSUME NEW w \in Writers, NEW data \in [ByteIdx -> Byte], NEW at \in Int
  PROVE  MergeHead(w, data, at) \in [ByteIdx -> Byte]
BY ByteTuple DEF MergeHead, ByteIdx

(* Merging a writer's last bytes into a sector image yields a sector      *)
(* image.                                                                  *)
LEMMA MergeTailType ==
  ASSUME NEW w \in Writers, NEW data \in [ByteIdx -> Byte],
         NEW at \in Int, NEW len \in Int
  PROVE  MergeTail(w, data, at, len) \in [ByteIdx -> Byte]
BY ByteTuple DEF MergeTail, ByteIdx

(* A sector image handed to write_sector_retry keeps the writer's locals  *)
(* typed.                                                                  *)
LEMMA BeginRetryType ==
  ASSUME TypeOK, NEW w \in Writers, NEW n \in Nat,
         NEW data \in [ByteIdx -> Byte], BeginRetry(w, n, data)
  PROVE  /\ tmp' \in [Writers -> [ByteIdx -> Byte]]
         /\ lba' \in [Writers -> Nat]
         /\ read_buf' \in [Writers -> [ByteIdx -> Byte]]
         /\ retry' \in [Writers -> {"none", "write", "verify"}]
BY FreshType DEF BeginRetry, TypeOK

LEMMA InitTypeOK == Init => TypeOK
<1>. SUFFICES ASSUME Init PROVE TypeOK
  OBVIOUS
<1>1. disk \in [Sectors -> [ByteIdx -> Byte]]
  <2>1. \A s \in Sectors, j \in ByteIdx : s * SectorSize + j \in Int
    BY ConstantFacts DEF Sectors, ByteIdx
  <2>2. \A s \in Sectors, j \in ByteIdx : <<Orig, s * SectorSize + j>> \in Byte
    BY <2>1, ByteTuple
  <2>3. QED
    BY <2>2 DEF Init
<1>2. /\ tmp \in [Writers -> [ByteIdx -> Byte]]
      /\ read_buf \in [Writers -> [ByteIdx -> Byte]]
  BY FreshType DEF Init
<1>3. /\ size \in [Procs -> 0 .. U32Range - 1]
      /\ end_block \in [Procs -> 0 .. U32Range - 1]
  BY ConstantFacts DEF Init
<1>4. QED
  BY <1>1, <1>2, <1>3, LegacyProcsAssumption DEF Init, TypeOK

(* The 32-bit offset and the request size of a caller. *)
LEMMA ReqType ==
  ASSUME TypeOK, NEW p \in Procs
  PROVE  /\ Off(p) \in 0 .. U32Range - 1
         /\ req[p].size \in 1 .. U32Range - 1
<1>1. req[p].offset \in Nat /\ req[p].size \in 1 .. U32Range - 1
  BY ConstantFacts DEF TypeOK
<1>2. QED BY <1>1, Word DEF Off

LEMMA StartTypeOK ==
  ASSUME TypeOK, NEW p \in Procs, Start(p), UNCHANGED irq_off
  PROVE  TypeOK'
<1> DEFINE o == Off(p)
           n == req[p].size
<1> USE DEF o, n
<1>1. o \in 0 .. U32Range - 1 /\ n \in 1 .. U32Range - 1
  BY ReqType
<1>2. /\ o \div SectorSize \in Nat
      /\ Sub32(Add32(o, n), 1) \div SectorSize \in 0 .. U32Range - 1
  <2>1. Sub32(Add32(o, n), 1) \in 0 .. U32Range - 1
    BY <1>1, Word DEF Sub32, Add32
  <2>2. QED BY <1>1, <2>1, BlockOfWord, ConstantFacts
<1>3. size' \in [Procs -> 0 .. U32Range - 1]
  <2>1. Sub32(MaxOffset, o) \in 0 .. U32Range - 1
    BY <1>1, Word, ConstantFacts DEF Sub32
  <2>2. 0 \in 0 .. U32Range - 1
    BY ConstantFacts
  <2>3. QED BY <1>1, <2>1, <2>2 DEF Start, TypeOK
<1>4. pc' \in [Procs -> {"start", "prefix", "postfix", "loop", "done"}]
  BY DEF Start, TypeOK
<1>5. QED
  BY <1>2, <1>3, <1>4 DEF Start, TypeOK

LEMMA PrefixTypeOK ==
  ASSUME TypeOK, NEW p \in Procs, Prefix(p), UNCHANGED irq_off
  PROVE  TypeOK'
<1> DEFINE hd == Off(p) % SectorSize
           n == start_block[p]
           D(ok) == IF ok THEN disk[n] ELSE Fresh
<1> USE DEF hd, n
<1>1. hd \in ByteIdx /\ n \in Nat
  BY ConstantFacts DEF TypeOK, Off, ByteIdx
<1>2. pc' \in [Procs -> {"start", "prefix", "postfix", "loop", "done"}]
  BY DEF Prefix, TypeOK
<1>3. CASE hd = 0
  BY <1>2, <1>3 DEF Prefix, TypeOK
<1>4. CASE hd # 0
  <2>1. /\ x_offset' = [x_offset EXCEPT ![p] = @ + PrefixSize(Off(p))]
        /\ start_block' = [start_block EXCEPT ![p] = @ + 1]
        /\ UNCHANGED <<disk, req, size, end_block>>
    BY <1>4 DEF Prefix
  <2>2. x_offset' \in [Procs -> Nat] /\ start_block' \in [Procs -> Nat]
    BY <1>1, <2>1, ConstantFacts DEF TypeOK, PrefixSize, ByteIdx
  <2>3. PICK ok \in BOOLEAN :
          /\ PioRead(n, ok)
          /\ p \in Readers =>
               /\ buffer' = [buffer EXCEPT ![p] = CopyHead(p, D(ok), hd)]
               /\ UNCHANGED <<tmp, lba, read_buf, retry>>
          /\ p \notin Readers =>
               /\ BeginRetry(p, n, MergeHead(p, D(ok), hd))
               /\ UNCHANGED buffer
    BY <1>4 DEF Prefix, D
  <2>4. /\ D(ok) \in [ByteIdx -> Byte]
        /\ taskfile' \in [cmd : {"none", "read_pio", "write_pio"}, lba : Nat]
    BY <1>1, <2>3, SectorData DEF PioRead, D
  <2>5. PICK dat \in [ByteIdx -> Byte] : dat = D(ok)
    BY <2>4
  <2>6. CASE p \in Readers
    <3>1. \A k \in BufIdx : 0 <= k /\ k < 0 + (SectorSize - hd)
                              => hd + k - 0 \in ByteIdx
      BY <1>1, ConstantFacts DEF ByteIdx, BufIdx
    <3>2. CopyOut(p, 0, dat, hd, SectorSize - hd) \in [BufIdx -> Byte \cup {Empty}]
      <4>1. hd \in Int /\ SectorSize - hd \in Int
        BY <1>1, ConstantFacts DEF ByteIdx
      <4>2. QED BY <2>6, <3>1, <4>1, CopyOutType
    <3>3. buffer' = [buffer EXCEPT ![p] = CopyOut(p, 0, dat, hd, SectorSize - hd)]
      BY <2>3, <2>5, <2>6 DEF CopyHead
    <3>4. QED
      BY <1>2, <2>1, <2>2, <2>3, <2>4, <2>6, <3>2, <3>3 DEF TypeOK
  <2>7. CASE p \notin Readers
    <3>1. p \in Writers
      BY <2>7 DEF Procs
    <3>2. MergeHead(p, dat, hd) \in [ByteIdx -> Byte]
      <4>1. hd \in Int
        BY <1>1, ConstantFacts DEF ByteIdx
      <4>2. QED BY <3>1, <4>1, MergeHeadType
    <3>3. BeginRetry(p, n, MergeHead(p, dat, hd)) /\ UNCHANGED buffer
      BY <2>3, <2>5, <2>7
    <3>4. /\ tmp' \in [Writers -> [ByteIdx -> Byte]]
          /\ lba' \in [Writers -> Nat]
          /\ read_buf' \in [Writers -> [ByteIdx -> Byte]]
          /\ retry' \in [Writers -> {"none", "write", "verify"}]
      BY <1>1, <3>1, <3>2, <3>3, BeginRetryType
    <3>5. QED
      BY <1>2, <2>1, <2>2, <2>4, <3>3, <3>4 DEF TypeOK
  <2>8. QED BY <2>6, <2>7
<1>5. QED BY <1>3, <1>4

LEMMA PostfixTypeOK ==
  ASSUME TypeOK, NEW p \in Procs, Postfix(p), UNCHANGED irq_off
  PROVE  TypeOK'
<1> DEFINE len == Add32(Off(p), size[p]) % SectorSize
           at == size[p] - len
           n == end_block[p]
           D(ok) == IF ok THEN disk[n] ELSE Fresh
<1> USE DEF len, at, n
<1>1. len \in ByteIdx /\ at \in Int /\ n \in Nat
  <2>1. Add32(Off(p), size[p]) \in Int
    BY ReqType, Word DEF TypeOK, Add32
  <2>2. QED BY <2>1, ConstantFacts DEF TypeOK, ByteIdx
<1>2. pc' \in [Procs -> {"start", "prefix", "postfix", "loop", "done"}]
  BY DEF Postfix, TypeOK
<1>3. CASE ~HasPostfix(p)
  BY <1>2, <1>3 DEF Postfix, TypeOK
<1>4. CASE HasPostfix(p)
  <2>1. /\ end_block' = [end_block EXCEPT ![p] = Sub32(@, 1)]
        /\ UNCHANGED <<disk, req, size, start_block, x_offset>>
    BY <1>4 DEF Postfix
  <2>2. end_block' \in [Procs -> 0 .. U32Range - 1]
    BY <1>1, <2>1, Word DEF Sub32, TypeOK
  <2>3. PICK ok \in BOOLEAN :
          /\ PioRead(n, ok)
          /\ p \in Readers =>
               /\ buffer' = [buffer EXCEPT ![p] = CopyOut(p, at, D(ok), 0, len)]
               /\ UNCHANGED <<tmp, lba, read_buf, retry>>
          /\ p \notin Readers =>
               /\ BeginRetry(p, n, MergeTail(p, D(ok), at, len))
               /\ UNCHANGED buffer
    BY <1>4 DEF Postfix, D
  <2>4. /\ D(ok) \in [ByteIdx -> Byte]
        /\ taskfile' \in [cmd : {"none", "read_pio", "write_pio"}, lba : Nat]
    BY <1>1, <2>3, SectorData DEF PioRead, D
  <2>5. PICK dat \in [ByteIdx -> Byte] : dat = D(ok)
    BY <2>4
  <2>6. CASE p \in Readers
    <3>1. \A k \in BufIdx : at <= k /\ k < at + len => 0 + k - at \in ByteIdx
      BY <1>1, ConstantFacts DEF ByteIdx, BufIdx
    <3>2. CopyOut(p, at, dat, 0, len) \in [BufIdx -> Byte \cup {Empty}]
      <4>1. len \in Int
        BY <1>1, ConstantFacts DEF ByteIdx
      <4>2. QED BY <1>1, <2>6, <3>1, <4>1, CopyOutType
    <3>3. buffer' = [buffer EXCEPT ![p] = CopyOut(p, at, dat, 0, len)]
      BY <2>3, <2>5, <2>6
    <3>4. QED
      BY <1>2, <2>1, <2>2, <2>3, <2>4, <2>6, <3>2, <3>3 DEF TypeOK
  <2>7. CASE p \notin Readers
    <3>1. p \in Writers
      BY <2>7 DEF Procs
    <3>2. MergeTail(p, dat, at, len) \in [ByteIdx -> Byte]
      <4>1. len \in Int
        BY <1>1, ConstantFacts DEF ByteIdx
      <4>2. QED BY <1>1, <3>1, <4>1, MergeTailType
    <3>3. BeginRetry(p, n, MergeTail(p, dat, at, len)) /\ UNCHANGED buffer
      BY <2>3, <2>5, <2>7
    <3>4. /\ tmp' \in [Writers -> [ByteIdx -> Byte]]
          /\ lba' \in [Writers -> Nat]
          /\ read_buf' \in [Writers -> [ByteIdx -> Byte]]
          /\ retry' \in [Writers -> {"none", "write", "verify"}]
      BY <1>1, <3>1, <3>2, <3>3, BeginRetryType
    <3>5. QED
      BY <1>2, <2>1, <2>2, <2>4, <3>3, <3>4 DEF TypeOK
  <2>8. QED BY <2>6, <2>7
<1>5. QED BY <1>3, <1>4

LEMMA LoopTypeOK ==
  ASSUME TypeOK, NEW p \in Procs, Loop(p), UNCHANGED irq_off
  PROVE  TypeOK'
<1> DEFINE n == start_block[p]
<1> USE DEF n
<1>1. CASE ~LoopMore(p)
  BY <1>1 DEF Loop, TypeOK
<1>2. CASE LoopMore(p)
  <2>1. /\ x_offset' = [x_offset EXCEPT ![p] = @ + SectorSize]
        /\ start_block' = [start_block EXCEPT ![p] = @ + 1]
        /\ UNCHANGED <<disk, pc, req, size, end_block>>
    BY <1>2 DEF Loop
  <2>2. x_offset' \in [Procs -> Nat] /\ start_block' \in [Procs -> Nat]
    BY <2>1, ConstantFacts DEF TypeOK
  <2>3. CASE p \in Readers
    <3>1. PICK ok \in BOOLEAN :
            /\ PioRead(n, ok)
            /\ buffer' = [buffer EXCEPT ![p] =
                 IF ok THEN CopyOut(p, x_offset[p], disk[n], 0, SectorSize)
                       ELSE @]
            /\ UNCHANGED <<tmp, lba, read_buf, retry>>
      BY <1>2, <2>3 DEF Loop
    <3>2. /\ taskfile' \in [cmd : {"none", "read_pio", "write_pio"}, lba : Nat]
          /\ ok => disk[n] \in [ByteIdx -> Byte]
      BY <3>1, SectorData DEF PioRead, TypeOK
    <3>3. ok => CopyOut(p, x_offset[p], disk[n], 0, SectorSize)
                  \in [BufIdx -> Byte \cup {Empty}]
      <4>1. SUFFICES ASSUME ok PROVE CopyOut(p, x_offset[p], disk[n], 0, SectorSize)
                                       \in [BufIdx -> Byte \cup {Empty}]
        OBVIOUS
      <4>2. PICK dat \in [ByteIdx -> Byte] : dat = disk[n]
        BY <3>2, <4>1
      <4>3. \A k \in BufIdx : x_offset[p] <= k /\ k < x_offset[p] + SectorSize
                                => 0 + k - x_offset[p] \in ByteIdx
        BY ConstantFacts DEF ByteIdx, BufIdx, TypeOK
      <4>4. CopyOut(p, x_offset[p], dat, 0, SectorSize) \in [BufIdx -> Byte \cup {Empty}]
        <5>1. x_offset[p] \in Int
          BY DEF TypeOK
        <5>2. QED BY <2>3, <4>3, <5>1, CopyOutType, ConstantFacts
      <4>5. QED BY <4>2, <4>4
    <3>4. buffer' \in [Readers -> [BufIdx -> Byte \cup {Empty}]]
      BY <2>3, <3>1, <3>3 DEF TypeOK
    <3>5. QED
      BY <2>1, <2>2, <3>1, <3>2, <3>4 DEF TypeOK
  <2>4. CASE p \notin Readers
    <3>1. p \in Writers
      BY <2>4 DEF Procs
    <3>2. /\ BeginRetry(p, n, [j \in ByteIdx |-> <<p, x_offset[p] + j>>])
          /\ UNCHANGED <<taskfile, buffer>>
      BY <1>2, <2>4 DEF Loop
    <3>3. [j \in ByteIdx |-> <<p, x_offset[p] + j>>] \in [ByteIdx -> Byte]
      BY <3>1, ByteTuple DEF TypeOK, ByteIdx
    <3>4. /\ tmp' \in [Writers -> [ByteIdx -> Byte]]
          /\ lba' \in [Writers -> Nat]
          /\ read_buf' \in [Writers -> [ByteIdx -> Byte]]
          /\ retry' \in [Writers -> {"none", "write", "verify"}]
      BY <3>1, <3>2, <3>3, BeginRetryType DEF TypeOK
    <3>5. QED
      BY <2>1, <2>2, <3>2, <3>4 DEF TypeOK
  <2>5. QED BY <2>3, <2>4
<1>3. QED BY <1>1, <1>2 DEF Loop

(* WRITE PIO with interrupts off: the drive keeps its sector images, and  *)
(* a sector is written only when it is on the drive.                       *)
LEMMA RetryWriteTypeOK ==
  ASSUME TypeOK, NEW w \in Writers, RetryWrite(w)
  PROVE  TypeOK'
<1>1. PICK ok \in Outcomes(lba[w]) :
        disk' = IF ok THEN [disk EXCEPT ![lba[w]] = tmp[w]] ELSE disk
  BY DEF RetryWrite, PioWrite
<1>2. ok => lba[w] \in Sectors
  BY LegacyHwFailuresAssumption DEF Outcomes
<1>3. disk' \in [Sectors -> [ByteIdx -> Byte]]
  BY <1>1, <1>2 DEF TypeOK
<1>4. QED
  BY <1>3 DEF RetryWrite, PioWrite, TypeOK

(* The read-back fills read_buf with the sector when it arrives, and ends *)
(* the IRQ_OFF section when the two agree.                                 *)
LEMMA RetryVerifyTypeOK ==
  ASSUME TypeOK, NEW w \in Writers, RetryVerify(w)
  PROVE  TypeOK'
<1>1. PICK ok \in BOOLEAN :
        /\ PioRead(lba[w], ok)
        /\ read_buf' = [read_buf EXCEPT ![w] = IF ok THEN disk[lba[w]] ELSE @]
  BY DEF RetryVerify
<1>2. /\ ok => disk[lba[w]] \in [ByteIdx -> Byte]
      /\ taskfile' \in [cmd : {"none", "read_pio", "write_pio"}, lba : Nat]
  BY <1>1, SectorData DEF PioRead, TypeOK
<1>3. read_buf' \in [Writers -> [ByteIdx -> Byte]]
  BY <1>1, <1>2 DEF TypeOK
<1>4. /\ retry' \in [Writers -> {"none", "write", "verify"}]
      /\ irq_off' \in Writers \cup {NoOne}
  BY DEF RetryVerify, TypeOK
<1>5. QED
  BY <1>2, <1>3, <1>4 DEF RetryVerify, TypeOK

LEMMA NextTypeOK == TypeOK /\ [Next]_vars => TypeOK'
<1>. SUFFICES ASSUME TypeOK, [Next]_vars PROVE TypeOK'
  OBVIOUS
<1>1. ASSUME NEW p \in Procs, Adapter(p) PROVE TypeOK'
  <2>1. UNCHANGED irq_off /\ (Start(p) \/ Prefix(p) \/ Postfix(p) \/ Loop(p))
    BY <1>1 DEF Adapter
  <2>2. QED
    BY <2>1, StartTypeOK, PrefixTypeOK, PostfixTypeOK, LoopTypeOK
<1>2. ASSUME NEW w \in Writers, RetryWrite(w) \/ RetryVerify(w) PROVE TypeOK'
  BY <1>2, RetryWriteTypeOK, RetryVerifyTypeOK
<1>3. CASE UNCHANGED vars
  BY <1>3 DEF vars, TypeOK
<1>4. QED
  BY <1>1, <1>2, <1>3 DEF Next

(* Every variable of the older driver keeps its type, for every sector     *)
(* size, capacity, 32-bit word width, set of callers and requests, with or *)
(* without failing transfers: in particular size and end_block stay        *)
(* 32-bit values through the uint32_t offset, the unsigned block           *)
(* arithmetic and the postfix's end_block--, and a sector is read into a   *)
(* buffer or written to the drive only when it lies on the drive.          *)
THEOREM LegacyTypeCorrect == Spec => []TypeOK
BY InitTypeOK, NextTypeOK, PTL DEF Spec

=============================================================================
