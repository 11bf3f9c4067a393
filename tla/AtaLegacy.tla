------------------------------ MODULE AtaLegacy ------------------------------
(***************************************************************************)
(* The older PIO-only PATA driver (src/unnamed/part_001): the same byte-   *)
(* range adapter as AtaDisk, but                                           *)
(*  - the 64-bit koff_t offset is stored in a uint32_t, and the block      *)
(*    arithmetic is unsigned int;                                          *)
(*  - the postfix test is start_block < end_block;                         *)
(*  - a sector read is PIO, retried on error and abandoned after the fifth *)
(*    error, leaving the destination as it was;                            *)
(*  - ata_device_write_sector_retry runs its write/verify loop with        *)
(*    interrupts off (IRQ_OFF ... IRQ_RES), so on this uniprocessor kernel *)
(*    no other thread runs until it returns.                               *)
(*                                                                         *)
(* Bytes are provenance tags as in AtaDisk.  Each transfer is one step: it *)
(* runs inside ata_lock.                                                   *)
(***************************************************************************)
EXTENDS Integers

CONSTANTS
  SectorSize,   \* ATA_SECTOR_SIZE
  Sectors48,    \* identity.sectors_48
  Sectors28,    \* identity.sectors_28
  Readers, Writers,
  Requests,     \* (offset, size) pairs; offset is the 64-bit koff_t
  HwFailures,   \* TRUE: a transfer may fail
  SectorLimit,  \* bound on the sector index a request may reach
  U32Range,     \* 2^32 in the code: uint32_t and unsigned int wrap modulo it
  Orig, Junk, Empty, NoOne

ASSUME LegacySectorSizeAssumption == SectorSize \in Nat \ {0}
ASSUME LegacySectorsAssumption == Sectors48 \in Nat /\ Sectors28 \in Nat
ASSUME LegacyProcsAssumption ==
  Readers \cap Writers = {} /\ NoOne \notin Readers \cup Writers
\* read_ata and write_ata take the size as a uint32_t (52, 105)
ASSUME LegacyRequestsAssumption ==
  Requests \subseteq [offset : Nat, size : 1 .. U32Range - 1]
ASSUME LegacyBoundsAssumption ==
  SectorLimit \in Nat /\ U32Range \in Nat /\ U32Range > SectorLimit
ASSUME LegacyHwFailuresAssumption == HwFailures \in BOOLEAN

Procs == Readers \cup Writers

(* ata_max_offset (42-50): sectors_48, or sectors_28 when it is 0. *)
NumSectors == IF Sectors48 # 0 THEN Sectors48 ELSE Sectors28

(* Mutant: one sector too many. *)
MaxOffsetPlusOne == (NumSectors + 1) * SectorSize

MaxOffset == NumSectors * SectorSize

Sectors == 0 .. NumSectors - 1
ByteIdx == 0 .. SectorSize - 1
BufIdx == 0 .. (SectorLimit + 1) * SectorSize - 1
Byte == (Writers \cup {Orig, Junk}) \X Int

(* A sector-sized malloc: uninitialised memory. *)
Fresh == [j \in ByteIdx |-> <<Junk, 0>>]

VARIABLES
  disk,         \* disk[s][j]: byte j of sector s
  taskfile,     \* command and LBA last written to the task-file registers
  irq_off,      \* the thread inside the IRQ_OFF section of write_sector_retry
  req, pc, size, start_block, end_block, x_offset,
  buffer,       \* the caller buffer of each reader
  tmp,          \* the sector image a writer passes to write_sector_retry
  lba,          \* the lba it passes
  read_buf,     \* write_sector_retry's read_buf
  retry         \* where a writer is in write_sector_retry

vars == <<disk, taskfile, irq_off, req, pc, size, start_block, end_block,
          x_offset, buffer, tmp, lba, read_buf, retry>>

TypeOK ==
  /\ disk \in [Sectors -> [ByteIdx -> Byte]]
  /\ taskfile \in [cmd : {"none", "read_pio", "write_pio"}, lba : Nat]
  /\ irq_off \in Writers \cup {NoOne}
  /\ req \in [Procs -> Requests]
  /\ pc \in [Procs -> {"start", "prefix", "postfix", "loop", "done"}]
  /\ size \in [Procs -> 0 .. U32Range - 1]
  /\ start_block \in [Procs -> Nat]
  /\ end_block \in [Procs -> 0 .. U32Range - 1]
  /\ x_offset \in [Procs -> Nat]
  /\ buffer \in [Readers -> [BufIdx -> Byte \cup {Empty}]]
  /\ tmp \in [Writers -> [ByteIdx -> Byte]]
  /\ lba \in [Writers -> Nat]
  /\ read_buf \in [Writers -> [ByteIdx -> Byte]]
  /\ retry \in [Writers -> {"none", "write", "verify"}]

Init ==
  /\ disk = [s \in Sectors |-> [j \in ByteIdx |-> <<Orig, s * SectorSize + j>>]]
  /\ taskfile = [cmd |-> "none", lba |-> 0]
  /\ irq_off = NoOne
  /\ req \in [Procs -> Requests]
  /\ pc = [p \in Procs |-> "start"]
  /\ size = [p \in Procs |-> 0]
  /\ start_block = [p \in Procs |-> 0]
  /\ end_block = [p \in Procs |-> 0]
  /\ x_offset = [p \in Procs |-> 0]
  /\ buffer = [r \in Readers |-> [k \in BufIdx |-> Empty]]
  /\ tmp = [w \in Writers |-> Fresh]
  /\ lba = [w \in Writers |-> 0]
  /\ read_buf = [w \in Writers |-> Fresh]
  /\ retry = [w \in Writers |-> "none"]

-----------------------------------------------------------------------------
(* Sector transport (306-390).                                             *)

(* Whether a transfer of sector n succeeds.  A sector past the end of the *)
(* drive is refused by the drive (ERR); otherwise only a failing drive     *)
(* fails.                                                                  *)
Outcomes(n) ==
  IF n \notin Sectors THEN {FALSE} ELSE IF HwFailures THEN BOOLEAN ELSE {TRUE}

(* ata_device_read_sector (306-341): READ PIO, up to five attempts; after *)
(* the fifth error it unlocks and returns with buf untouched.  ok says     *)
(* whether the data arrived.                                               *)
PioRead(n, ok) ==
  /\ ok \in Outcomes(n)
  /\ taskfile' = [cmd |-> "read_pio", lba |-> n]

(* ata_device_write_sector (343-367): WRITE PIO and CACHE FLUSH, with no  *)
(* status check.                                                           *)
PioWrite(n, data) ==
  /\ \E ok \in Outcomes(n) :
       disk' = IF ok THEN [disk EXCEPT ![n] = data] ELSE disk
  /\ taskfile' = [cmd |-> "write_pio", lba |-> n]

(* buffer_compare (369-379): 1 when the two sectors differ. *)
BufferCompare(a, b) == a # b

(* Mutant: write_sector_retry without IRQ_OFF. *)
RunsAlways(p) == TRUE

(* Thread p can be scheduled: no other thread has interrupts off (383). *)
Runs(p) == irq_off \in {NoOne, p}

(* Hand a sector image to ata_device_write_sector_retry; read_buf is      *)
(* malloc'd (382).                                                         *)
BeginRetry(w, n, data) ==
  /\ tmp' = [tmp EXCEPT ![w] = data]
  /\ lba' = [lba EXCEPT ![w] = n]
  /\ read_buf' = [read_buf EXCEPT ![w] = Fresh]
  /\ retry' = [retry EXCEPT ![w] = "write"]

Idle(p) == p \in Writers => retry[p] = "none"

(* 383-385: IRQ_OFF, then ata_device_write_sector. *)
RetryWrite(w) ==
  /\ retry[w] = "write"
  /\ Runs(w)
  /\ irq_off' = w
  /\ PioWrite(lba[w], tmp[w])
  /\ retry' = [retry EXCEPT ![w] = "verify"]
  /\ UNCHANGED <<req, pc, size, start_block, end_block, x_offset, buffer, tmp,
                 lba, read_buf>>

(* 386-388: read back into read_buf; loop while it differs, else IRQ_RES. *)
RetryVerify(w) ==
  /\ retry[w] = "verify"
  /\ \E ok \in BOOLEAN :
       /\ PioRead(lba[w], ok)
       /\ read_buf' = [read_buf EXCEPT ![w] =
                         IF ok THEN disk[lba[w]] ELSE @]
  /\ IF BufferCompare(tmp[w], read_buf'[w])
       THEN /\ retry' = [retry EXCEPT ![w] = "write"]
            /\ UNCHANGED irq_off
       ELSE /\ retry' = [retry EXCEPT ![w] = "none"]
            /\ irq_off' = NoOne
  /\ UNCHANGED <<disk, req, pc, size, start_block, end_block, x_offset,
                 buffer, tmp, lba>>

-----------------------------------------------------------------------------
(* read_ata / write_ata (52-162).                                          *)

(* uint32_t offset = _offset (53, 106): the koff_t is truncated. *)
Off(p) == req[p].offset % U32Range

(* The uint32_t / unsigned int sum and difference. *)
Add32(a, b) == (a + b) % U32Range
Sub32(a, b) == (a - b) % U32Range

(* Entry (57-69 / 109-121): block bounds from the unclamped size in 32-bit *)
(* arithmetic, the range check and the clamp.                              *)
Start(p) ==
  LET o == Off(p)
      n == req[p].size
  IN /\ pc[p] = "start"
     /\ start_block' = [start_block EXCEPT ![p] = o \div SectorSize]
     /\ end_block' = [end_block EXCEPT ![p] =
                        Sub32(Add32(o, n), 1) \div SectorSize]
     /\ x_offset' = [x_offset EXCEPT ![p] = 0]
     /\ IF o > MaxOffset
          THEN /\ size' = [size EXCEPT ![p] = 0]
               /\ pc' = [pc EXCEPT ![p] = "done"]
          ELSE /\ size' = [size EXCEPT ![p] =
                     IF Add32(o, n) > MaxOffset THEN Sub32(MaxOffset, o) ELSE n]
               /\ pc' = [pc EXCEPT ![p] = "prefix"]
     /\ UNCHANGED <<disk, taskfile, req, buffer, tmp, lba, read_buf, retry>>

(* The caller's buffer after bytes [at, at + len) are copied into it from  *)
(* data[from ...].                                                          *)
CopyOut(r, at, data, from, len) ==
  [k \in BufIdx |-> IF at <= k /\ k < at + len THEN data[from + k - at]
                                                ELSE buffer[r][k]]

(* Mutant: the head copied from the start of tmp. *)
CopyHeadUnshifted(r, data, head) == CopyOut(r, 0, data, 0, SectorSize - head)

(* memcpy(buffer, tmp + offset % SECTOR, prefix_size) (76). *)
CopyHead(r, data, head) == CopyOut(r, 0, data, head, SectorSize - head)

(* Mutant: prefix_size with its operands swapped. *)
PrefixSizeSwapped(o) == (o % SectorSize) - SectorSize

(* prefix_size = ATA_SECTOR_SIZE - offset % ATA_SECTOR_SIZE (72 / 124). *)
PrefixSize(o) == SectorSize - (o % SectorSize)

(* Mutant: the head merged at the start of tmp. *)
MergeHeadUnshifted(w, data, head) ==
  [j \in ByteIdx |-> IF j < SectorSize - head THEN <<w, j>> ELSE data[j]]

(* memcpy(tmp + offset % SECTOR, buffer, prefix_size) (131). *)
MergeHead(w, data, head) ==
  [j \in ByteIdx |-> IF j >= head THEN <<w, j - head>> ELSE data[j]]

(* memcpy(tmp, buffer + size - postfix_size, postfix_size) (147). *)
MergeTail(w, data, at, len) ==
  [j \in ByteIdx |-> IF j < len THEN <<w, at + j>> ELSE data[j]]

(* Mutant: the newer driver's test start_block <= end_block. *)
HasPostfixNonStrict(p) ==
  Add32(Off(p), size[p]) % SectorSize # 0 /\ start_block[p] <= end_block[p]

(* The postfix test (84 / 139). *)
HasPostfix(p) ==
  Add32(Off(p), size[p]) % SectorSize # 0 /\ start_block[p] < end_block[p]

(* 71-82 / 123-137: read sector start_block into a fresh tmp; copy its     *)
(* tail out, or merge the caller's head into it and write it back.         *)
Prefix(p) ==
  LET o == Off(p)
      head == o % SectorSize
      n == start_block[p]
  IN /\ pc[p] = "prefix"
     /\ pc' = [pc EXCEPT ![p] = "postfix"]
     /\ \/ /\ head # 0
           /\ \E ok \in BOOLEAN :
                LET data == IF ok THEN disk[n] ELSE Fresh
                IN /\ PioRead(n, ok)
                   /\ IF p \in Readers
                        THEN /\ buffer' = [buffer EXCEPT ![p] =
                                             CopyHead(p, data, head)]
                             /\ UNCHANGED <<tmp, lba, read_buf, retry>>
                        ELSE /\ BeginRetry(p, n, MergeHead(p, data, head))
                             /\ UNCHANGED buffer
           /\ x_offset' = [x_offset EXCEPT ![p] = @ + PrefixSize(o)]
           /\ start_block' = [start_block EXCEPT ![p] = @ + 1]
           /\ UNCHANGED <<disk, req, size, end_block>>
        \/ /\ head = 0
           /\ UNCHANGED <<disk, taskfile, req, size, start_block, end_block,
                          x_offset, buffer, tmp, lba, read_buf, retry>>

(* 84-94 / 139-153: the partial last sector, when HasPostfix. *)
Postfix(p) ==
  LET postfix_size == Add32(Off(p), size[p]) % SectorSize
      at == size[p] - postfix_size
      n == end_block[p]
  IN /\ pc[p] = "postfix"
     /\ pc' = [pc EXCEPT ![p] = "loop"]
     /\ \/ /\ HasPostfix(p)
           /\ \E ok \in BOOLEAN :
                LET data == IF ok THEN disk[n] ELSE Fresh
                IN /\ PioRead(n, ok)
                   /\ IF p \in Readers
                        THEN /\ buffer' = [buffer EXCEPT ![p] =
                                   CopyOut(p, at, data, 0, postfix_size)]
                             /\ UNCHANGED <<tmp, lba, read_buf, retry>>
                        ELSE /\ BeginRetry(p, n,
                                   MergeTail(p, data, at, postfix_size))
                             /\ UNCHANGED buffer
           /\ end_block' = [end_block EXCEPT ![p] = Sub32(@, 1)]
           /\ UNCHANGED <<disk, req, size, start_block, x_offset>>
        \/ /\ ~HasPostfix(p)
           /\ UNCHANGED <<disk, taskfile, req, size, start_block, end_block,
                          x_offset, buffer, tmp, lba, read_buf, retry>>

(* Mutant: the loop runs one sector further. *)
LoopMoreOneExtra(p) == start_block[p] <= end_block[p] + 1

(* while (start_block <= end_block) (96 / 155). *)
LoopMore(p) == start_block[p] <= end_block[p]

(* 96-102 / 155-161: whole sectors straight to or from the caller's       *)
(* buffer; a read that is abandoned leaves the buffer as it was.           *)
Loop(p) ==
  LET n == start_block[p]
  IN /\ pc[p] = "loop"
     /\ \/ /\ LoopMore(p)
           /\ n < SectorLimit
           /\ IF p \in Readers
                THEN \E ok \in BOOLEAN :
                       /\ PioRead(n, ok)
                       /\ buffer' = [buffer EXCEPT ![p] =
                            IF ok THEN CopyOut(p, x_offset[p], disk[n], 0,
                                               SectorSize)
                                  ELSE @]
                       /\ UNCHANGED <<tmp, lba, read_buf, retry>>
                ELSE /\ BeginRetry(p, n,
                          [j \in ByteIdx |-> <<p, x_offset[p] + j>>])
                     /\ UNCHANGED <<taskfile, buffer>>
           /\ x_offset' = [x_offset EXCEPT ![p] = @ + SectorSize]
           /\ start_block' = [start_block EXCEPT ![p] = @ + 1]
           /\ UNCHANGED <<disk, pc, req, size, end_block>>
        \/ /\ ~LoopMore(p)
           /\ pc' = [pc EXCEPT ![p] = "done"]
           /\ UNCHANGED <<disk, taskfile, req, size, start_block, end_block,
                          x_offset, buffer, tmp, lba, read_buf, retry>>

(* An adapter step of p: p runs, and is not inside write_sector_retry. *)
Adapter(p) ==
  /\ Runs(p)
  /\ Idle(p)
  /\ Start(p) \/ Prefix(p) \/ Postfix(p) \/ Loop(p)
  /\ UNCHANGED irq_off

Step(p) == Adapter(p) \/ (p \in Writers /\ (RetryWrite(p) \/ RetryVerify(p)))

Next ==
  \/ \E p \in Procs : Adapter(p)
  \/ \E w \in Writers : RetryWrite(w) \/ RetryVerify(w)

(* The scheduler keeps running every runnable thread. *)
Fairness == \A p \in Procs : WF_vars(Step(p))

Spec == Init /\ [][Next]_vars /\ Fairness

-----------------------------------------------------------------------------
(* Properties.                                                             *)

(* b belongs at disk position pos: the original byte, or byte k of a      *)
(* write request that addresses pos (never a byte left unwritten).         *)
WellPlaced(b, pos) ==
  \/ b = <<Orig, pos>>
  \/ /\ b # Empty
     /\ b[1] \in Writers
     /\ b[2] < req[b[1]].size
     /\ req[b[1]].offset + b[2] = pos

(* Every byte on the drive is its original byte or one a write_ata call   *)
(* addressed to exactly that position (64-bit offset).                     *)
DiskPlacement ==
  \A s \in Sectors, j \in ByteIdx : WellPlaced(disk[s][j], s * SectorSize + j)

(* When read_ata returns n, the caller's bytes 0 .. n-1 are drive bytes   *)
(* from offset .. offset + n - 1.                                          *)
ReadPlacement ==
  \A r \in Readers : pc[r] = "done" =>
    \A k \in 0 .. size[r] - 1 : WellPlaced(buffer[r][k], req[r].offset + k)

(* read_ata never stores past the end of the caller's buffer. *)
NoBufferOverflow ==
  \A r \in Readers, k \in BufIdx : k >= req[r].size => buffer[r][k] = Empty

(* Every command on the bus addresses a sector the drive has. *)
BusWithinCapacity ==
  taskfile.cmd # "none" => taskfile.lba \in Sectors

(* Every read_ata and write_ata returns, concurrent writers of one sector *)
(* included: write_sector_retry's IRQ_OFF keeps their verify loops apart. *)
RequestsComplete == \A p \in Procs : <>(pc[p] = "done")

=============================================================================
