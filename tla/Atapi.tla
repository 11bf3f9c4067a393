-------------------------------- MODULE Atapi --------------------------------
(***************************************************************************)
(* The ATAPI read path of the ToaruOS ATA driver (src/libc/unistd/execvp.c) *)
(* and its interaction with disk transfers through the one ata_lock.      *)
(*                                                                         *)
(*  - read_atapi (205-255) splits a byte range into sector reads, like     *)
(*    read_ata, against atapi_max_offset (145-151).                        *)
(*  - ata_device_read_sector_atapi (760-829) takes ata_lock, sets          *)
(*    atapi_in_progress, sends a PACKET READ(12) and calls sleep_on on     *)
(*    atapi_waiter while still holding the lock.                           *)
(*  - the IRQ handlers (408-424) wake the queue when atapi_in_progress is  *)
(*    set.                                                                 *)
(*  - a disk caller (ata_device_read_sector, 663-758) only needs the lock. *)
(* Bytes are not tracked here: AtaDisk does that for the same adapter.     *)
(***************************************************************************)
EXTENDS Integers

CONSTANTS
  CdReaders,    \* threads calling read_atapi on /dev/cdrom0
  DiskCallers,  \* threads doing one ata_device_read_sector on a disk
  CdSectorSize, \* dev->atapi_sector_size
  CdLastLba,    \* dev->atapi_lba: the last block of the medium
  CdRequests,   \* the (offset, size) pairs a reader may pass
  HwErrors,     \* TRUE: the drive may set ERR in a status poll
  SectorLimit,  \* bound on the block index a request may reach
  UllRange,     \* 2^64: unsigned long long wraps modulo this
  NoOne         \* ata_lock is free

ASSUME CdSectorSizeAssumption == CdSectorSize \in Nat \ {0}
\* atapi_device_init returns 1 when atapi_lba is 0, so no node exists then.
ASSUME CdLastLbaAssumption == CdLastLba \in Nat \ {0}
ASSUME CdRequestsAssumption == CdRequests \subseteq [offset : Nat, size : Nat \ {0}]
ASSUME CdBoundsAssumption ==
  /\ SectorLimit \in Nat /\ UllRange \in Nat /\ UllRange > SectorLimit
ASSUME CallersAssumption ==
  /\ CdReaders \cap DiskCallers = {}
  /\ NoOne \notin CdReaders \cup DiskCallers
ASSUME HwErrorsAssumption == HwErrors \in BOOLEAN

Threads == CdReaders \cup DiskCallers

(* atapi_max_offset: one past the last byte of the medium. *)
CdMaxOffsetTwoPast == (CdLastLba + 2) * CdSectorSize
CdMaxOffset == (CdLastLba + 1) * CdSectorSize

VARIABLES
  lock,         \* ata_lock: its holder, or NoOne
  in_progress,  \* atapi_in_progress
  waiters,      \* the threads on atapi_waiter
  device,       \* the drive: "idle", "busy" (packet sent), "ready" (IRQ raised)
  packet_lba,   \* LBA of the last READ(12) packet, -1 before any
  req,          \* the request each reader is serving
  pc,           \* where each reader is in read_atapi
  spc,          \* where each reader is in ata_device_read_sector_atapi
  cur,          \* the lba argument of the current sector read
  size, start_block, end_block,
  dpc           \* where each disk caller is

vars == <<lock, in_progress, waiters, device, packet_lba, req, pc, spc, cur,
          size, start_block, end_block, dpc>>

Errs == IF HwErrors THEN BOOLEAN ELSE {FALSE}

TypeOK ==
  /\ lock \in Threads \cup {NoOne}
  /\ in_progress \in BOOLEAN
  /\ waiters \subseteq CdReaders
  /\ device \in {"idle", "busy", "ready"}
  /\ packet_lba \in Int
  /\ req \in [CdReaders -> CdRequests]
  /\ pc \in [CdReaders -> {"start", "prefix", "postfix", "loop", "done"}]
  /\ spc \in [CdReaders -> {"none", "lock", "setup", "sleep", "asleep", "data"}]
  /\ cur \in [CdReaders -> Nat]
  /\ size \in [CdReaders -> Nat]
  /\ start_block \in [CdReaders -> Nat]
  /\ end_block \in [CdReaders -> Nat]
  /\ dpc \in [DiskCallers -> {"lock", "transfer", "done"}]

Init ==
  /\ lock = NoOne
  /\ in_progress = FALSE
  /\ waiters = {}
  /\ device = "idle"
  /\ packet_lba = -1
  /\ req \in [CdReaders -> CdRequests]
  /\ pc = [c \in CdReaders |-> "start"]
  /\ spc = [c \in CdReaders |-> "none"]
  /\ cur = [c \in CdReaders |-> 0]
  /\ size = [c \in CdReaders |-> 0]
  /\ start_block = [c \in CdReaders |-> 0]
  /\ end_block = [c \in CdReaders |-> 0]
  /\ dpc = [d \in DiskCallers |-> "lock"]

-----------------------------------------------------------------------------
(* read_atapi.  Its locals are private to the caller, so each phase is one *)
(* step that also starts the sector read the phase calls.                  *)

Off(c) == req[c].offset

(* unsigned long long end_block-- (245), modulo 2^64. *)
Dec(n) == (n - 1) % UllRange

(* The caller is not inside ata_device_read_sector_atapi. *)
Between(c) == spc[c] = "none"

(* ata_device_read_sector_atapi(dev, n, ...) is called. *)
BeginRead(c, n) ==
  /\ spc' = [spc EXCEPT ![c] = "lock"]
  /\ cur' = [cur EXCEPT ![c] = n]

(* Mutant: the first block is taken from the byte before the offset. *)
FirstBlockOfPrevByte(o) == (o - 1) \div CdSectorSize

(* Line 209: start_block = offset / atapi_sector_size. *)
FirstBlock(o) == o \div CdSectorSize

(* Lines 218-221: a request running past the medium is cut at its end. *)
Clamp(o, n) == IF o + n > CdMaxOffset THEN CdMaxOffset - o ELSE n

(* Lines 209-221: block numbers from the unclamped size, range check, clamp. *)
Start(c) ==
  LET o == Off(c)
      n == req[c].size
  IN /\ pc[c] = "start"
     /\ start_block' = [start_block EXCEPT ![c] = FirstBlock(o)]
     /\ end_block' = [end_block EXCEPT ![c] = (o + n - 1) \div CdSectorSize]
     /\ IF o > CdMaxOffset
          THEN /\ size' = [size EXCEPT ![c] = 0]
               /\ pc' = [pc EXCEPT ![c] = "done"]
          ELSE /\ size' = [size EXCEPT ![c] = Clamp(o, n)]
               /\ pc' = [pc EXCEPT ![c] = "prefix"]
     /\ UNCHANGED <<spc, cur>>

(* Lines 223-234: read the first block of an unaligned range. *)
Prefix(c) ==
  /\ pc[c] = "prefix"
  /\ pc' = [pc EXCEPT ![c] = "postfix"]
  /\ IF Off(c) % CdSectorSize # 0
       THEN /\ BeginRead(c, start_block[c])
            /\ start_block' = [start_block EXCEPT ![c] = @ + 1]
       ELSE UNCHANGED <<spc, cur, start_block>>
  /\ UNCHANGED <<size, end_block>>

(* Lines 236-246: read the last block of a range with an unaligned end. *)
Postfix(c) ==
  /\ pc[c] = "postfix"
  /\ pc' = [pc EXCEPT ![c] = "loop"]
  /\ IF (Off(c) + size[c]) % CdSectorSize # 0 /\ start_block[c] <= end_block[c]
       THEN /\ BeginRead(c, end_block[c])
            /\ end_block' = [end_block EXCEPT ![c] = Dec(@)]
       ELSE UNCHANGED <<spc, cur, end_block>>
  /\ UNCHANGED <<size, start_block>>

(* Lines 248-254: read the whole blocks in between, then return size. *)
Loop(c) ==
  /\ pc[c] = "loop"
  /\ \/ /\ start_block[c] <= end_block[c]
        /\ start_block[c] < SectorLimit
        /\ BeginRead(c, start_block[c])
        /\ start_block' = [start_block EXCEPT ![c] = @ + 1]
        /\ UNCHANGED <<pc, end_block>>
     \/ /\ start_block[c] > end_block[c]
        /\ pc' = [pc EXCEPT ![c] = "done"]
        /\ UNCHANGED <<spc, cur, start_block, end_block>>
  /\ UNCHANGED size

Adapter(c) ==
  /\ Between(c)
  /\ Start(c) \/ Prefix(c) \/ Postfix(c) \/ Loop(c)
  /\ UNCHANGED <<lock, in_progress, waiters, device, packet_lba, req, dpc>>

-----------------------------------------------------------------------------
(* ata_device_read_sector_atapi, one step per stretch of code that ends at  *)
(* a lock operation, a wait or a sleep.                                    *)

(* Line 765: spin_lock(ata_lock). *)
Acquire(c) ==
  /\ spc[c] = "lock"
  /\ lock = NoOne
  /\ lock' = c
  /\ spc' = [spc EXCEPT ![c] = "setup"]
  /\ UNCHANGED <<in_progress, waiters, device, packet_lba>>

(* Lines 767-801: select the drive, send PACKET, poll for DRQ (an ERR     *)
(* jumps to the unlock at 826), set atapi_in_progress, send READ(12).      *)
SendPacket(c) ==
  /\ spc[c] = "setup"
  /\ \E err \in Errs :
       IF err
         THEN /\ lock' = NoOne
              /\ spc' = [spc EXCEPT ![c] = "none"]
              /\ UNCHANGED <<in_progress, device, packet_lba>>
         ELSE /\ in_progress' = TRUE
              /\ device' = "busy"
              /\ packet_lba' = cur[c]
              /\ spc' = [spc EXCEPT ![c] = "sleep"]
              /\ UNCHANGED lock
  /\ UNCHANGED waiters

(* Line 804: sleep_on(atapi_waiter), still holding ata_lock. *)
Sleep(c) ==
  /\ spc[c] = "sleep"
  /\ waiters' = waiters \cup {c}
  /\ spc' = [spc EXCEPT ![c] = "asleep"]
  /\ UNCHANGED <<lock, in_progress, device, packet_lba>>

(* Mutant: the flag is left set after the wakeup. *)
ResumeKeepsFlag(c) ==
  /\ spc[c] = "asleep"
  /\ c \notin waiters
  /\ spc' = [spc EXCEPT ![c] = "data"]
  /\ UNCHANGED <<lock, in_progress, waiters, device, packet_lba>>

(* Line 806: woken, clear atapi_in_progress. *)
Resume(c) ==
  /\ spc[c] = "asleep"
  /\ c \notin waiters
  /\ in_progress' = FALSE
  /\ spc' = [spc EXCEPT ![c] = "data"]
  /\ UNCHANGED <<lock, waiters, device, packet_lba>>

(* Lines 808-827: poll for DRQ, read the block, poll for DRDY, unlock; an  *)
(* ERR in either poll skips to the unlock.                                 *)
ReadData(c) ==
  /\ spc[c] = "data"
  /\ \E err \in Errs : err \/ device = "ready"
  /\ device' = "idle"
  /\ lock' = NoOne
  /\ spc' = [spc EXCEPT ![c] = "none"]
  /\ UNCHANGED <<in_progress, waiters, packet_lba>>

SectorRead(c) ==
  /\ Acquire(c) \/ SendPacket(c) \/ Sleep(c) \/ Resume(c) \/ ReadData(c)
  /\ UNCHANGED <<req, pc, cur, size, start_block, end_block, dpc>>

(* Mutant: the handler wakes the queue only when no packet is in flight. *)
IrqInverted ==
  /\ device = "busy"
  /\ device' = "ready"
  /\ waiters' = IF in_progress THEN waiters ELSE {}
  /\ UNCHANGED <<lock, in_progress, packet_lba, req, pc, spc, cur, size,
                 start_block, end_block, dpc>>

(* Lines 408-424: the drive raises its IRQ once it has the block; the     *)
(* handler wakes every thread on atapi_waiter if atapi_in_progress is set. *)
Irq ==
  /\ device = "busy"
  /\ device' = "ready"
  /\ waiters' = IF in_progress THEN {} ELSE waiters
  /\ UNCHANGED <<lock, in_progress, packet_lba, req, pc, spc, cur, size,
                 start_block, end_block, dpc>>

(* ata_device_read_sector on a disk: spin_lock (669) ... spin_unlock (757). *)
DiskAcquire(d) ==
  /\ dpc[d] = "lock"
  /\ lock = NoOne
  /\ lock' = d
  /\ dpc' = [dpc EXCEPT ![d] = "transfer"]

DiskRelease(d) ==
  /\ dpc[d] = "transfer"
  /\ lock' = NoOne
  /\ dpc' = [dpc EXCEPT ![d] = "done"]

DiskStep(d) ==
  /\ DiskAcquire(d) \/ DiskRelease(d)
  /\ UNCHANGED <<in_progress, waiters, device, packet_lba, req, pc, spc, cur,
                 size, start_block, end_block>>

Next ==
  \/ \E c \in CdReaders : Adapter(c) \/ SectorRead(c)
  \/ \E d \in DiskCallers : DiskStep(d)
  \/ Irq

(* Every runnable thread is scheduled, and the drive answers every packet. *)
Fairness ==
  /\ \A c \in CdReaders : WF_vars(Adapter(c) \/ SectorRead(c))
  /\ \A d \in DiskCallers : WF_vars(DiskStep(d))
  /\ WF_vars(Irq)

Spec == Init /\ [][Next]_vars /\ Fairness

-----------------------------------------------------------------------------
(* Properties. *)

(* The spec's invariant on atapi_in_progress, as the code can keep it: the *)
(* flag is set only while the ata_lock holder is a reader between sending  *)
(* its packet and being woken, so the IRQ handler never wakes the queue on *)
(* behalf of a transfer that has already finished.                         *)
InProgressOwned ==
  in_progress => lock \in CdReaders /\ spc[lock] \in {"sleep", "asleep"}

(* The requests read_atapi serves inside the medium: the range ends on   *)
(* the medium, and it is not a piece of block 0 shorter than a block,     *)
(* whose postfix end_block-- wraps from 0.                                 *)
InMediumRequest(r) ==
  /\ r.offset + r.size <= CdMaxOffset
  /\ ~(r.offset = 0 /\ r.size < CdSectorSize)

(* read_atapi never sends a READ(12) for a block beyond the medium. *)
CdBusWithinMedium == packet_lba \in -1 .. CdLastLba

(* A reader asleep on atapi_waiter with its packet in flight is woken by   *)
(* the IRQ handler.                                                        *)
SleeperWoken ==
  \A c \in CdReaders : (c \in waiters /\ device = "busy") ~> (c \notin waiters)

(* The spec's serialisation rule: no thread sleeps on atapi_waiter while  *)
(* holding ata_lock (the code calls sleep_on at 804 inside the lock).      *)
NoLockAcrossSleep == \A c \in waiters : lock # c

(* Every read_atapi and every disk transfer returns. *)
AllCallersComplete ==
  /\ \A c \in CdReaders : <>(pc[c] = "done")
  /\ \A d \in DiskCallers : <>(dpc[d] = "done")

=============================================================================
