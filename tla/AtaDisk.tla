------------------------------- MODULE AtaDisk -------------------------------
(***************************************************************************)
(* The byte-range adapter and sector transport of the PATA driver          *)
(* (src/libc/unistd/execvp.c): read_ata and write_ata turn a byte range    *)
(* into a prefix, a postfix and a run of whole sectors; each sector is     *)
(* moved by ata_device_read_sector (bus-master DMA through the device's    *)
(* one-sector DMA buffer) or by ata_device_write_sector_retry (PIO write,  *)
(* then a DMA read back, repeated until the two agree).                    *)
(*                                                                         *)
(* Every sector transfer runs entirely inside ata_lock and touches only    *)
(* the disk, the DMA buffer and the task-file registers, so each transfer  *)
(* is one atomic action here; callers interleave between transfers, which  *)
(* is exactly where the lock is released.                                  *)
(*                                                                         *)
(* Bytes are abstracted to their provenance: <<Orig, pos>> is the byte the *)
(* disk held at position pos before any write, <<w, k>> is byte k of       *)
(* writer w's caller buffer (k >= the request size is memory past the end  *)
(* of that buffer), <<Junk, 0>> is uninitialised memory.                    *)
(***************************************************************************)
EXTENDS Integers

CONSTANTS
  SectorSize,   \* ATA_SECTOR_SIZE (512 in the code)
  Sectors48,    \* identity.sectors_48 of the drive
  Sectors28,    \* identity.sectors_28 of the drive
  Readers,      \* threads calling read_ata on the node
  Writers,      \* threads calling write_ata on the node
  Requests,     \* the (offset, size) pairs a caller may pass
  HwFailures,   \* TRUE: a DMA read or a PIO write may fail without a trace
  SectorLimit,  \* bound on the sector index a request may reach
  UllRange,     \* 2^64 in the code: unsigned long long wraps modulo this
  Orig, Junk, Empty

ASSUME SectorSizeAssumption == SectorSize \in Nat \ {0}
ASSUME SectorsAssumption == Sectors48 \in Nat /\ Sectors28 \in Nat
ASSUME ProcsAssumption == Readers \cap Writers = {}
ASSUME RequestsAssumption ==
  Requests \subseteq [offset : Nat, size : Nat \ {0}]
ASSUME BoundsAssumption ==
  /\ SectorLimit \in Nat
  /\ UllRange \in Nat /\ UllRange > SectorLimit
ASSUME HwFailuresAssumption == HwFailures \in BOOLEAN

Procs == Readers \cup Writers

(* The drive's sectors: sectors_48 takes precedence over sectors_28. *)
NumSectors == IF Sectors48 # 0 THEN Sectors48 ELSE Sectors28

\* ata_max_offset holds the sector count in a uint64_t (136)
ASSUME SectorCountAssumption == NumSectors < UllRange

(* Mutant: the sector count taken as the last LBA, as atapi_max_offset does. *)
MaxOffsetLastLba == (NumSectors + 1) * SectorSize

(* ata_max_offset *)
MaxOffset == NumSectors * SectorSize

Sectors == 0 .. NumSectors - 1
ByteIdx == 0 .. SectorSize - 1
BufIdx == 0 .. (SectorLimit + 1) * SectorSize - 1

Byte == (Writers \cup {Orig, Junk}) \X Int

VARIABLES
  disk,         \* disk[s][j]: byte j of sector s
  dma_start,    \* the device's DMA buffer (first sector of it)
  taskfile,     \* command and LBA last written to the task-file registers
  req,          \* the request each caller is serving
  pc,           \* where each caller is in read_ata / write_ata
  size,         \* local size (clamped); the value returned at "done"
  start_block,  \* local start_block
  end_block,    \* local end_block
  x_offset,     \* local x_offset
  buffer,       \* the caller buffer of each reader
  tmp,          \* the sector image a writer passes to write_sector_retry
  lba,          \* the lba a writer passes to write_sector_retry
  retry         \* where a writer is in ata_device_write_sector_retry

vars == <<disk, dma_start, taskfile, req, pc, size, start_block, end_block,
          x_offset, buffer, tmp, lba, retry>>

TypeOK ==
  /\ disk \in [Sectors -> [ByteIdx -> Byte]]
  /\ dma_start \in [ByteIdx -> Byte]
  /\ taskfile \in [cmd : {"none", "read_dma", "write_pio"}, lba : Nat]
  /\ req \in [Procs -> Requests]
  /\ pc \in [Procs -> {"start", "prefix", "postfix", "loop", "done"}]
  /\ size \in [Procs -> Nat]
  /\ start_block \in [Procs -> Nat]
  /\ end_block \in [Procs -> Nat]
  /\ x_offset \in [Procs -> Nat]
  /\ buffer \in [Readers -> [BufIdx -> Byte \cup {Empty}]]
  /\ tmp \in [Writers -> [ByteIdx -> Byte]]
  /\ lba \in [Writers -> Nat]
  /\ retry \in [Writers -> {"none", "write", "verify"}]

Init ==
  /\ disk = [s \in Sectors |-> [j \in ByteIdx |-> <<Orig, s * SectorSize + j>>]]
  /\ dma_start = [j \in ByteIdx |-> <<Junk, 0>>]
  /\ taskfile = [cmd |-> "none", lba |-> 0]
  /\ req \in [Procs -> Requests]
  /\ pc = [p \in Procs |-> "start"]
  /\ size = [p \in Procs |-> 0]
  /\ start_block = [p \in Procs |-> 0]
  /\ end_block = [p \in Procs |-> 0]
  /\ x_offset = [p \in Procs |-> 0]
  /\ buffer = [r \in Readers |-> [k \in BufIdx |-> Empty]]
  /\ tmp = [w \in Writers |-> [j \in ByteIdx |-> <<Junk, 0>>]]
  /\ lba = [w \in Writers |-> 0]
  /\ retry = [w \in Writers |-> "none"]

-----------------------------------------------------------------------------
(* Sector transport.                                                       *)

(* A transfer outcome: without hardware failures every command on an      *)
(* existing sector succeeds; a command on a sector past the end fails.     *)
Outcomes == IF HwFailures THEN BOOLEAN ELSE {TRUE}

(* Mutant: the LBA registers are loaded with n - 1. *)
DmaReadLbaMinusOne(n) ==
  /\ \E ok \in Outcomes :
       dma_start' = IF ok /\ n \in Sectors THEN disk[n] ELSE dma_start
  /\ taskfile' = [cmd |-> "read_dma", lba |-> n - 1]

(* ata_device_read_sector: program the bus master, issue READ DMA for     *)
(* sector n, spin until the bus master reports an interrupt, copy the DMA  *)
(* buffer out.  The error check after the transfer is compiled out, so a   *)
(* failed transfer leaves the DMA buffer as it was and that is copied.     *)
DmaRead(n) ==
  /\ \E ok \in Outcomes :
       dma_start' = IF ok /\ n \in Sectors THEN disk[n] ELSE dma_start
  /\ taskfile' = [cmd |-> "read_dma", lba |-> n]

(* ata_device_write_sector: WRITE PIO of one sector, then CACHE FLUSH;    *)
(* no status is checked.                                                   *)
PioWrite(n, data) ==
  /\ \E ok \in Outcomes :
       disk' = IF ok /\ n \in Sectors THEN [disk EXCEPT ![n] = data] ELSE disk
  /\ taskfile' = [cmd |-> "write_pio", lba |-> n]

(* end_block-- on an unsigned long long. *)
Dec(n) == (n - 1) % UllRange

(* end_block = (offset + size - 1) / ATA_SECTOR_SIZE. *)
LastBlock(o, n) == (o + n - 1) \div SectorSize

(* Mutant: buffer_compare with the sense of its result swapped. *)
BufferCompareSwapped(a, b) == a = b

(* buffer_compare: 1 when the two sectors differ. *)
BufferCompare(a, b) == a # b

-----------------------------------------------------------------------------
(* read_ata / write_ata.                                                   *)

Off(p) == req[p].offset

(* Entry: block bounds from the requested size, the range check and the   *)
(* clamp of size against ata_max_offset.                                   *)
Start(p) ==
  LET o == Off(p)
      n == req[p].size
  IN /\ pc[p] = "start"
     /\ start_block' = [start_block EXCEPT ![p] = o \div SectorSize]
     /\ end_block' = [end_block EXCEPT ![p] = LastBlock(o, n)]
     /\ x_offset' = [x_offset EXCEPT ![p] = 0]
     /\ IF o > MaxOffset
          THEN /\ size' = [size EXCEPT ![p] = 0]
               /\ pc' = [pc EXCEPT ![p] = "done"]
          ELSE /\ size' = [size EXCEPT ![p] =
                             IF o + n > MaxOffset THEN MaxOffset - o ELSE n]
               /\ pc' = [pc EXCEPT ![p] = "prefix"]
     /\ UNCHANGED <<disk, dma_start, taskfile, req, buffer, tmp, lba, retry>>

(* The caller's buffer after bytes [at, at + len) are copied into it from  *)
(* data[from ...].                                                          *)
CopyOut(r, at, data, from, len) ==
  [k \in BufIdx |-> IF at <= k /\ k < at + len THEN data[from + k - at]
                                                ELSE buffer[r][k]]

(* Mutant: the head copied from the start of tmp, not from offset % size. *)
CopyHeadUnshifted(r, data, head) == CopyOut(r, 0, data, 0, SectorSize - head)

(* memcpy(buffer, tmp + offset % SECTOR, prefix_size). *)
CopyHead(r, data, head) == CopyOut(r, 0, data, head, SectorSize - head)

(* Hand a sector image to ata_device_write_sector_retry. *)
BeginRetry(w, n, data) ==
  /\ tmp' = [tmp EXCEPT ![w] = data]
  /\ lba' = [lba EXCEPT ![w] = n]
  /\ retry' = [retry EXCEPT ![w] = "write"]

Idle(p) == p \in Writers => retry[p] = "none"

(* Mutant: the head merged at the start of tmp, not at offset % size. *)
MergeHeadUnshifted(w, data, head) ==
  [j \in ByteIdx |-> IF j < SectorSize - head THEN <<w, j>> ELSE data[j]]

(* memcpy(tmp + offset % SECTOR, buffer, prefix_size) into the sector read. *)
MergeHead(w, data, head) ==
  [j \in ByteIdx |-> IF j >= head THEN <<w, j - head>> ELSE data[j]]

(* Mutant: one byte more than postfix_size taken from the caller. *)
MergeTailOneMore(w, data, at, len) ==
  [j \in ByteIdx |-> IF j <= len THEN <<w, at + j>> ELSE data[j]]

(* memcpy(tmp, buffer + size - postfix_size, postfix_size). *)
MergeTail(w, data, at, len) ==
  [j \in ByteIdx |-> IF j < len THEN <<w, at + j>> ELSE data[j]]

(* Mutant: the older driver's test start_block < end_block. *)
HasPostfixStrict(p) ==
  (Off(p) + size[p]) % SectorSize # 0 /\ start_block[p] < end_block[p]

(* The postfix test: the clamped range ends inside a sector and           *)
(* start_block <= end_block.                                               *)
HasPostfix(p) ==
  (Off(p) + size[p]) % SectorSize # 0 /\ start_block[p] <= end_block[p]

(* The unaligned head: read sector start_block, copy its tail out (read)  *)
(* or merge the caller's first bytes into it and write it back (write).    *)
(* prefix_size is SectorSize - offset % SectorSize whatever the size.      *)
Prefix(p) ==
  LET o == Off(p)
      head == o % SectorSize
      prefix_size == SectorSize - head
  IN /\ pc[p] = "prefix"
     /\ Idle(p)
     /\ pc' = [pc EXCEPT ![p] = "postfix"]
     /\ \/ /\ head # 0
           /\ DmaRead(start_block[p])
           /\ IF p \in Readers
                THEN /\ buffer' = [buffer EXCEPT ![p] =
                          CopyHead(p, dma_start', head)]
                     /\ UNCHANGED <<tmp, lba, retry>>
                ELSE /\ BeginRetry(p, start_block[p],
                                     MergeHead(p, dma_start', head))
                     /\ UNCHANGED buffer
           /\ x_offset' = [x_offset EXCEPT ![p] = @ + prefix_size]
           /\ start_block' = [start_block EXCEPT ![p] = @ + 1]
           /\ UNCHANGED <<disk, req, size, end_block>>
        \/ /\ head = 0
           /\ UNCHANGED <<disk, dma_start, taskfile, req, size, start_block,
                          end_block, x_offset, buffer, tmp, lba, retry>>

(* The unaligned tail: sector end_block, when the clamped range does not  *)
(* end on a sector boundary and start_block <= end_block.                  *)
Postfix(p) ==
  LET o == Off(p)
      postfix_size == (o + size[p]) % SectorSize
      at == size[p] - postfix_size
  IN /\ pc[p] = "postfix"
     /\ Idle(p)
     /\ pc' = [pc EXCEPT ![p] = "loop"]
     /\ \/ /\ HasPostfix(p)
           /\ DmaRead(end_block[p])
           /\ IF p \in Readers
                THEN /\ buffer' = [buffer EXCEPT ![p] =
                          CopyOut(p, at, dma_start', 0, postfix_size)]
                     /\ UNCHANGED <<tmp, lba, retry>>
                ELSE /\ BeginRetry(p, end_block[p],
                          MergeTail(p, dma_start', at, postfix_size))
                     /\ UNCHANGED buffer
           /\ end_block' = [end_block EXCEPT ![p] = Dec(@)]
           /\ UNCHANGED <<disk, req, size, start_block, x_offset>>
        \/ /\ ~HasPostfix(p)
           /\ UNCHANGED <<disk, dma_start, taskfile, req, size, start_block,
                          end_block, x_offset, buffer, tmp, lba, retry>>

(* The whole sectors start_block .. end_block, straight to or from the    *)
(* caller's buffer at x_offset; the request returns size when done.        *)
Loop(p) ==
  /\ pc[p] = "loop"
  /\ Idle(p)
  /\ \/ /\ start_block[p] <= end_block[p]
        /\ start_block[p] < SectorLimit
        /\ IF p \in Readers
             THEN /\ DmaRead(start_block[p])
                  /\ buffer' = [buffer EXCEPT ![p] =
                       CopyOut(p, x_offset[p], dma_start', 0, SectorSize)]
                  /\ UNCHANGED <<disk, tmp, lba, retry>>
             ELSE /\ BeginRetry(p, start_block[p],
                       [j \in ByteIdx |-> <<p, x_offset[p] + j>>])
                  /\ UNCHANGED <<disk, dma_start, taskfile, buffer>>
        /\ x_offset' = [x_offset EXCEPT ![p] = @ + SectorSize]
        /\ start_block' = [start_block EXCEPT ![p] = @ + 1]
        /\ UNCHANGED <<pc, req, size, end_block>>
     \/ /\ start_block[p] > end_block[p]
        /\ pc' = [pc EXCEPT ![p] = "done"]
        /\ UNCHANGED <<disk, dma_start, taskfile, req, size, start_block,
                       end_block, x_offset, buffer, tmp, lba, retry>>

(* ata_device_write_sector_retry: write, read back into read_buf, and    *)
(* start over while buffer_compare finds a difference.                     *)
RetryWrite(w) ==
  /\ retry[w] = "write"
  /\ PioWrite(lba[w], tmp[w])
  /\ retry' = [retry EXCEPT ![w] = "verify"]
  /\ UNCHANGED <<dma_start, req, pc, size, start_block, end_block, x_offset,
                 buffer, tmp, lba>>

RetryVerify(w) ==
  /\ retry[w] = "verify"
  /\ DmaRead(lba[w])
  /\ retry' = [retry EXCEPT ![w] =
                IF BufferCompare(tmp[w], dma_start') THEN "write" ELSE "none"]
  /\ UNCHANGED <<disk, req, pc, size, start_block, end_block, x_offset,
                 buffer, tmp, lba>>

Step(p) ==
  \/ Start(p) \/ Prefix(p) \/ Postfix(p) \/ Loop(p)
  \/ p \in Writers /\ (RetryWrite(p) \/ RetryVerify(p))

Next ==
  \/ \E p \in Procs : Start(p) \/ Prefix(p) \/ Postfix(p) \/ Loop(p)
  \/ \E w \in Writers : RetryWrite(w) \/ RetryVerify(w)

(* Every caller is a kernel thread the scheduler keeps running: ata_lock  *)
(* is a yielding spin lock and no transfer here sleeps.                    *)
Fairness == \A p \in Procs : WF_vars(Step(p))

Spec == Init /\ [][Next]_vars /\ Fairness

-----------------------------------------------------------------------------
(* Properties.                                                             *)

(* b is a byte that belongs at disk position pos: the original byte there, *)
(* or byte k of a write request whose range puts byte k at pos.            *)
WellPlaced(b, pos) ==
  \/ b = <<Orig, pos>>
  \/ /\ b[1] \in Writers
     /\ b[2] < req[b[1]].size
     /\ req[b[1]].offset + b[2] = pos

(* No write ever puts a byte where it does not belong: every byte of every *)
(* sector is the original one or one a write request addressed to that     *)
(* position (write_ata's prefix, postfix and loop offsets, and the         *)
(* read-modify-write of partial sectors).                                  *)
DiskPlacement ==
  \A s \in Sectors, j \in ByteIdx : WellPlaced(disk[s][j], s * SectorSize + j)

(* When read_ata returns n, bytes 0 .. n-1 of the caller's buffer are the   *)
(* bytes at offset .. offset+n-1 of the disk (as of some transfer).        *)
ReadPlacement ==
  \A r \in Readers : pc[r] = "done" =>
    \A k \in 0 .. size[r] - 1 : WellPlaced(buffer[r][k], Off(r) + k)

(* read_ata never stores past the end of the caller's buffer. *)
NoBufferOverflow ==
  \A r \in Readers, k \in BufIdx : k >= req[r].size => buffer[r][k] = Empty

(* The requests read_ata and write_ata keep on the drive: those starting  *)
(* past ata_max_offset, which the range check turns away, and those that   *)
(* end on the drive and are not a piece of sector 0, for which the postfix *)
(* decrements end_block = 0 and wraps it.                                  *)
OnDriveRequest(r) ==
  \/ r.offset > MaxOffset
  \/ /\ r.offset + r.size <= MaxOffset
     /\ ~(r.offset = 0 /\ r.size < SectorSize)

(* The requests write_ata places correctly: those past ata_max_offset,    *)
(* and those on the drive that are whole sectors or cross a sector        *)
(* boundary.  One inside a single sector gets the whole prefix_size bytes *)
(* of the caller's buffer; one running past the end is clamped after its   *)
(* block bounds are fixed.                                                 *)
HandledRequest(r) ==
  \/ r.offset > MaxOffset
  \/ /\ r.offset + r.size <= MaxOffset
     /\ \/ r.offset % SectorSize = 0 /\ r.size % SectorSize = 0
        \/ r.offset \div SectorSize < (r.offset + r.size - 1) \div SectorSize

(* Every command on the bus addresses a sector the drive has. *)
BusWithinCapacity ==
  taskfile.cmd # "none" => taskfile.lba \in Sectors

(* Every read_ata and write_ata call returns. *)
RequestsComplete == \A p \in Procs : <>(pc[p] = "done")

(* w2's request covers disk position pos. *)
Covers(w2, pos) == Off(w2) <= pos /\ pos < Off(w2) + req[w2].size

(* Once write_ata has returned, the bytes it wrote that no other writer    *)
(* addresses are on the disk: a concurrent write to other bytes of the     *)
(* same sector does not undo it.                                           *)
CompletedWritesDurable ==
  \A w \in Writers : pc[w] = "done" =>
    \A k \in 0 .. size[w] - 1 :
      LET pos == Off(w) + k
      IN  (\A w2 \in Writers \ {w} : ~Covers(w2, pos)) =>
            disk[pos \div SectorSize][pos % SectorSize] = <<w, k>>

=============================================================================
