------------------------------ MODULE AtapiProofs ------------------------------
(***************************************************************************)
(* Proofs about Atapi for every number of CD readers and disk callers,     *)
(* every medium and block size, and with or without drive errors.          *)
(***************************************************************************)
EXTENDS Atapi, TLAPS

(* The stretch of ata_device_read_sector_atapi that runs under ata_lock:   *)
(* from spin_lock at 765 to spin_unlock at 828.                            *)
Locked == {"setup", "sleep", "asleep", "data"}

(* ata_lock is held by exactly the thread inside its locked section: a    *)
(* reader between Acquire and ReadData, or a disk caller between its lock  *)
(* and unlock. With it, atapi_in_progress is owned by the holder.         *)
LockInv ==
  /\ TypeOK
  /\ \A c \in CdReaders : spc[c] \in Locked <=> lock = c
  /\ \A d \in DiskCallers : dpc[d] = "transfer" <=> lock = d
  /\ InProgressOwned

(* What read_atapi's locals hold in each phase for a request inside the  *)
(* medium: the block numbers of lines 209-210 until the prefix, the first *)
(* whole block after it, an end_block on the medium in the loop, and a    *)
(* sector read in progress is for a block on the medium.                  *)
ReaderBus(c) ==
  /\ pc[c] = "prefix" =>
       /\ size[c] = req[c].size
       /\ start_block[c] = Off(c) \div CdSectorSize
       /\ end_block[c] = (Off(c) + req[c].size - 1) \div CdSectorSize
  /\ pc[c] = "postfix" =>
       /\ size[c] = req[c].size
       /\ start_block[c] = Off(c) \div CdSectorSize
                           + (IF Off(c) % CdSectorSize # 0 THEN 1 ELSE 0)
       /\ end_block[c] = (Off(c) + req[c].size - 1) \div CdSectorSize
  /\ pc[c] = "loop" => end_block[c] <= CdLastLba
  /\ spc[c] # "none" => cur[c] <= CdLastLba

BusInv == LockInv /\ CdBusWithinMedium /\ \A c \in CdReaders : ReaderBus(c)

(* Facts about the constants that the steps below keep citing. *)
LEMMA ConstantFacts ==
  /\ CdSectorSize \in Nat \ {0}
  /\ UllRange \in Nat \ {0}
  /\ CdMaxOffset \in Nat
  /\ \A r \in CdRequests : r.offset \in Nat /\ r.size \in Nat \ {0}
  /\ NoOne \notin CdReaders /\ NoOne \notin DiskCallers
  /\ \A c \in CdReaders : c \notin DiskCallers
BY CdSectorSizeAssumption, CdLastLbaAssumption, CdRequestsAssumption,
   CdBoundsAssumption, CallersAssumption DEF CdMaxOffset

-----------------------------------------------------------------------------
(* Block arithmetic. *)

(* Division by the block size: quotient and remainder of a natural. *)
LEMMA DivMod ==
  ASSUME NEW x \in Nat
  PROVE  /\ x \div CdSectorSize \in Nat
         /\ x % CdSectorSize \in 0 .. CdSectorSize - 1
         /\ x \div CdSectorSize = 0 => x < CdSectorSize
         /\ x \div CdSectorSize = 0 /\ x % CdSectorSize = 0 => x = 0
BY CdSectorSizeAssumption

(* A byte before atapi_max_offset lies in a block on the medium. *)
LEMMA BlockOnMedium ==
  ASSUME NEW x \in Nat, x < CdMaxOffset
  PROVE  x \div CdSectorSize <= CdLastLba
BY CdSectorSizeAssumption, CdLastLbaAssumption DEF CdMaxOffset

(* The postfix of a request inside the medium never decrements an         *)
(* end_block of 0: with start_block <= 0 there was no prefix, so the      *)
(* request starts at byte 0 and ends inside block 0, and a request that   *)
(* ends inside block 0 without filling it is what InMediumRequest         *)
(* excludes.                                                               *)
LEMMA PostfixNoWrap ==
  ASSUME NEW o \in Nat, NEW n \in Nat \ {0},
         ~(o = 0 /\ n < CdSectorSize),
         (o + n) % CdSectorSize # 0,
         (o + n - 1) \div CdSectorSize = 0,
         o \div CdSectorSize + (IF o % CdSectorSize # 0 THEN 1 ELSE 0) <= 0
  PROVE  FALSE
<1>1. o % CdSectorSize = 0 /\ o \div CdSectorSize = 0
  BY DivMod
<1>2. o = 0
  BY <1>1, DivMod
<1>3. n - 1 < CdSectorSize
  <2>1. (n - 1) \div CdSectorSize = 0
    BY <1>2
  <2>2. QED BY <2>1, DivMod
<1>4. n # CdSectorSize
  <2>1. CdSectorSize % CdSectorSize = 0
    BY CdSectorSizeAssumption
  <2>2. QED BY <1>2, <2>1
<1>5. QED
  BY <1>2, <1>3, <1>4, CdSectorSizeAssumption

LEMMA InitLockInv == Init => LockInv
<1> SUFFICES ASSUME Init PROVE LockInv
  OBVIOUS
<1>1. /\ lock \in Threads \cup {NoOne} /\ in_progress \in BOOLEAN
      /\ waiters \subseteq CdReaders /\ device \in {"idle", "busy", "ready"}
      /\ req \in [CdReaders -> CdRequests]
  BY Zenon DEF Init
<1>0. packet_lba \in Int
  BY DEF Init
<1>2. /\ pc \in [CdReaders -> {"start", "prefix", "postfix", "loop", "done"}]
      /\ spc \in [CdReaders -> {"none", "lock", "setup", "sleep", "asleep", "data"}]
      /\ cur \in [CdReaders -> Nat] /\ size \in [CdReaders -> Nat]
      /\ start_block \in [CdReaders -> Nat] /\ end_block \in [CdReaders -> Nat]
      /\ dpc \in [DiskCallers -> {"lock", "transfer", "done"}]
  BY DEF Init
<1>3. TypeOK
  BY <1>0, <1>1, <1>2 DEF TypeOK
<1>4. QED
  BY <1>3, ConstantFacts DEF Init, LockInv, Locked, InProgressOwned

(* The phases of read_atapi keep every local of the caller a natural     *)
(* number: the block numbers are quotients of naturals, the clamped size  *)
(* is non-negative because the range check rejected offsets past the end, *)
(* and end_block-- stays in 0 .. 2^64 - 1.                                *)
LEMMA AdapterType ==
  ASSUME TypeOK, NEW c \in CdReaders, Adapter(c)
  PROVE  TypeOK'
<1> USE DEF TypeOK
<1>1. Off(c) \in Nat /\ req[c].size \in Nat \ {0}
  BY ConstantFacts DEF Off
<1>2. UNCHANGED <<lock, in_progress, waiters, device, packet_lba, req, dpc>>
  BY DEF Adapter
<1>3. CASE Start(c)
  <2>1. FirstBlock(Off(c)) \in Nat
    BY <1>1, ConstantFacts DEF FirstBlock
  <2>2. (Off(c) + req[c].size - 1) \div CdSectorSize \in Nat
    <3>1. Off(c) + req[c].size - 1 \in Nat
      BY <1>1
    <3>2. \A x \in Nat : x \div CdSectorSize \in Nat
      BY ConstantFacts
    <3>3. QED BY <3>1, <3>2
  <2>3. Off(c) <= CdMaxOffset => Clamp(Off(c), req[c].size) \in Nat
    BY <1>1, ConstantFacts DEF Clamp
  <2>4. size' \in [CdReaders -> Nat]
    <3>1. CASE Off(c) > CdMaxOffset
      <4>1. size' = [size EXCEPT ![c] = 0]
        BY <1>3, <3>1 DEF Start
      <4>2. QED BY <4>1
    <3>2. CASE ~(Off(c) > CdMaxOffset)
      <4>1. size' = [size EXCEPT ![c] = Clamp(Off(c), req[c].size)]
        BY <1>3, <3>2 DEF Start
      <4>2. Off(c) <= CdMaxOffset
        BY <1>1, <3>2, ConstantFacts
      <4>3. QED BY <2>3, <4>1, <4>2
    <3>3. QED BY <3>1, <3>2
  <2>5. QED
    BY <1>2, <1>3, <2>1, <2>2, <2>4 DEF Start, Off
<1>4. CASE Prefix(c)
  BY <1>2, <1>4 DEF Prefix, BeginRead
<1>5. CASE Postfix(c)
  <2>1. Dec(end_block[c]) \in Nat
    BY ConstantFacts DEF Dec
  <2>2. QED
    BY <1>2, <1>5, <2>1 DEF Postfix, BeginRead
<1>6. CASE Loop(c)
  BY <1>2, <1>6 DEF Loop, BeginRead
<1>7. QED
  BY <1>3, <1>4, <1>5, <1>6 DEF Adapter

(* read_atapi's phases do not touch ata_lock, atapi_in_progress or the     *)
(* disk callers, and move their caller from outside the sector read to    *)
(* its first step, which is outside the locked section.                   *)
LEMMA AdapterLock ==
  ASSUME LockInv, NEW c \in CdReaders, Adapter(c)
  PROVE  /\ UNCHANGED <<lock, in_progress, dpc>>
         /\ \A x \in CdReaders : spc'[x] \in Locked <=> spc[x] \in Locked
         /\ \A x \in CdReaders : spc[x] \in Locked => spc'[x] = spc[x]
<1>1. UNCHANGED <<lock, in_progress, dpc>>
  BY DEF Adapter
<1>2. spc' = spc \/ spc' = [spc EXCEPT ![c] = "lock"]
  BY DEF Adapter, Start, Prefix, Postfix, Loop, BeginRead
<1>3. spc[c] = "none"
  BY DEF Adapter, Between
<1>4. QED
  BY <1>1, <1>2, <1>3 DEF LockInv, TypeOK, Locked

LEMMA AdapterInv ==
  ASSUME LockInv, NEW c \in CdReaders, Adapter(c)
  PROVE  LockInv'
<1>1. TypeOK'
  BY AdapterType DEF LockInv
<1>2. QED
  BY <1>1, AdapterLock DEF LockInv, InProgressOwned, TypeOK

(* The steps of ata_device_read_sector_atapi. Acquire takes a free lock,  *)
(* so no one else was inside a locked section; SendPacket sets            *)
(* atapi_in_progress as the holder goes to sleep, or releases the lock on *)
(* ERR while the flag is clear; Resume clears the flag before ReadData    *)
(* releases the lock.                                                      *)
LEMMA SectorReadInv ==
  ASSUME LockInv, NEW c \in CdReaders, SectorRead(c)
  PROVE  LockInv'
<1> USE ConstantFacts DEF LockInv, TypeOK, Locked, InProgressOwned, Threads
<1>1. CASE Acquire(c)
  <2>1. \A x \in CdReaders : spc[x] \notin Locked
    BY <1>1 DEF Acquire
  <2>2. \A d \in DiskCallers : dpc[d] # "transfer"
    BY <1>1 DEF Acquire
  <2>3. ~in_progress
    BY <1>1 DEF Acquire
  <2>4. QED
    BY <1>1, <2>1, <2>2, <2>3 DEF SectorRead, Acquire
<1>2. CASE SendPacket(c)
  <2>1. lock = c
    BY <1>2 DEF SendPacket
  <2>2. ~in_progress
    BY <1>2, <2>1 DEF SendPacket
  <2>3. PICK err \in Errs :
          IF err
            THEN /\ lock' = NoOne
                 /\ spc' = [spc EXCEPT ![c] = "none"]
                 /\ UNCHANGED <<in_progress, device, packet_lba>>
            ELSE /\ in_progress' = TRUE
                 /\ device' = "busy"
                 /\ packet_lba' = cur[c]
                 /\ spc' = [spc EXCEPT ![c] = "sleep"]
                 /\ UNCHANGED lock
    BY <1>2 DEF SendPacket
  <2>4. CASE err
    BY <1>2, <2>1, <2>2, <2>3, <2>4 DEF SectorRead, SendPacket
  <2>5. CASE ~err
    BY <1>2, <2>1, <2>3, <2>5 DEF SectorRead, SendPacket
  <2>6. QED BY <2>4, <2>5
<1>3. CASE Sleep(c)
  BY <1>3 DEF SectorRead, Sleep
<1>4. CASE Resume(c)
  BY <1>4 DEF SectorRead, Resume
<1>5. CASE ReadData(c)
  <2>1. lock = c /\ ~in_progress
    BY <1>5 DEF ReadData
  <2>2. QED
    BY <1>5, <2>1 DEF SectorRead, ReadData
<1>6. QED
  BY <1>1, <1>2, <1>3, <1>4, <1>5 DEF SectorRead

(* A disk transfer takes and releases the lock only between the locked    *)
(* sections of the readers, and never while atapi_in_progress is set.     *)
LEMMA DiskStepInv ==
  ASSUME LockInv, NEW d \in DiskCallers, DiskStep(d)
  PROVE  LockInv'
<1> USE ConstantFacts DEF LockInv, TypeOK, Locked, InProgressOwned, Threads
<1>1. CASE DiskAcquire(d)
  BY <1>1 DEF DiskStep, DiskAcquire
<1>2. CASE DiskRelease(d)
  <2>1. lock = d /\ ~in_progress
    BY <1>2 DEF DiskRelease
  <2>2. QED
    BY <1>2, <2>1 DEF DiskStep, DiskRelease
<1>3. QED
  BY <1>1, <1>2 DEF DiskStep

(* The IRQ handler touches only the drive and the wait queue. *)
LEMMA IrqInv ==
  ASSUME LockInv, Irq
  PROVE  LockInv'
BY DEF LockInv, TypeOK, Locked, InProgressOwned, Irq

LEMMA NextLockInv == LockInv /\ [Next]_vars => LockInv'
<1> SUFFICES ASSUME LockInv, [Next]_vars PROVE LockInv'
  OBVIOUS
<1>1. ASSUME NEW c \in CdReaders, Adapter(c) PROVE LockInv'
  BY <1>1, AdapterInv
<1>2. ASSUME NEW c \in CdReaders, SectorRead(c) PROVE LockInv'
  BY <1>2, SectorReadInv
<1>3. ASSUME NEW d \in DiskCallers, DiskStep(d) PROVE LockInv'
  BY <1>3, DiskStepInv
<1>4. CASE Irq
  BY <1>4, IrqInv
<1>5. CASE UNCHANGED vars
  BY <1>5 DEF vars, LockInv, TypeOK, Locked, InProgressOwned
<1>6. QED
  BY <1>1, <1>2, <1>3, <1>4, <1>5 DEF Next

(* LockInv holds in every reachable state. *)
THEOREM LockInvariant == Spec => []LockInv
BY InitLockInv, NextLockInv, PTL DEF Spec

(* Every variable of the ATAPI read path keeps its type, for every number *)
(* of readers and disk callers, every medium and every block size: the    *)
(* block numbers and sizes read_atapi computes stay natural numbers.      *)
THEOREM AtapiTypeCorrect == Spec => []TypeOK
<1>1. LockInv => TypeOK
  BY DEF LockInv
<1>2. QED BY <1>1, LockInvariant, PTL

(* atapi_in_progress is set only while the ata_lock holder is a CD reader *)
(* that has sent its READ(12) and not yet been woken, for any number of   *)
(* readers and disk callers: the IRQ handler never wakes atapi_waiter on  *)
(* behalf of a transfer that has already finished.                         *)
THEOREM InProgressAlwaysOwned == Spec => []InProgressOwned
<1>1. LockInv => InProgressOwned
  BY DEF LockInv
<1>2. QED BY <1>1, LockInvariant, PTL

-----------------------------------------------------------------------------
(* Requests inside the medium never reach past it. *)

(* Every request a reader may pass is one InMediumRequest admits. *)
InMediumRequests == \A r \in CdRequests : InMediumRequest(r)

LEMMA ReqFacts ==
  ASSUME TypeOK, InMediumRequests, NEW c \in CdReaders
  PROVE  /\ Off(c) \in Nat /\ req[c].size \in Nat \ {0}
         /\ Off(c) + req[c].size <= CdMaxOffset
         /\ ~(Off(c) = 0 /\ req[c].size < CdSectorSize)
BY ConstantFacts DEF TypeOK, InMediumRequests, InMediumRequest, Off

(* A step of read_atapi changes the locals of its own caller only. *)
LEMMA AdapterFrame ==
  ASSUME TypeOK, NEW c \in CdReaders, Adapter(c), NEW x \in CdReaders, x # c
  PROVE  /\ pc'[x] = pc[x] /\ spc'[x] = spc[x] /\ cur'[x] = cur[x]
         /\ size'[x] = size[x] /\ start_block'[x] = start_block[x]
         /\ end_block'[x] = end_block[x] /\ req' = req
<1>1. CASE Start(c)
  BY <1>1 DEF Start, TypeOK, Adapter
<1>2. CASE Prefix(c)
  BY <1>2 DEF Prefix, BeginRead, TypeOK, Adapter
<1>3. CASE Postfix(c)
  BY <1>3 DEF Postfix, BeginRead, TypeOK, Adapter
<1>4. CASE Loop(c)
  BY <1>4 DEF Loop, BeginRead, TypeOK, Adapter
<1>5. QED
  BY <1>1, <1>2, <1>3, <1>4 DEF Adapter

(* The phases of read_atapi on a request inside the medium: Start records *)
(* the block numbers with the size unclamped, the prefix reads block      *)
(* offset / atapi_sector_size and moves past it, the postfix reads        *)
(* end_block and decrements it without wrapping, and the loop reads only  *)
(* blocks up to end_block.                                                 *)
LEMMA AdapterBus ==
  ASSUME BusInv, InMediumRequests, NEW c \in CdReaders, Adapter(c)
  PROVE  ReaderBus(c)'
<1> DEFINE o == Off(c)
           n == req[c].size
           S == CdSectorSize
<1> USE DEF o, n, S
<1>0. /\ TypeOK /\ ReaderBus(c) /\ spc[c] = "none"
      /\ UNCHANGED <<req>>
  BY DEF BusInv, LockInv, Adapter, Between
<1>1. /\ o \in Nat /\ n \in Nat \ {0} /\ o + n <= CdMaxOffset
      /\ ~(o = 0 /\ n < S)
  BY <1>0, ReqFacts
<1>2. Off(c)' = o /\ req[c]'.size = n
  BY <1>0 DEF Off
<1>3. CASE Start(c)
  <2>1. CASE o > CdMaxOffset
    BY <1>1, <2>1, ConstantFacts
  <2>2. CASE ~(o > CdMaxOffset)
    <3>1. Clamp(o, n) = n
      BY <1>1, ConstantFacts DEF Clamp
    <3>2. /\ pc'[c] = "prefix" /\ size'[c] = n
          /\ start_block'[c] = o \div S
          /\ end_block'[c] = (o + n - 1) \div S
          /\ spc'[c] = spc[c]
      BY <1>0, <1>3, <2>2, <3>1 DEF Start, FirstBlock, TypeOK, Off
    <3>3. QED
      BY <1>0, <1>2, <3>2 DEF ReaderBus
  <2>3. QED BY <2>1, <2>2
<1>4. CASE Prefix(c)
  <2>1. /\ pc[c] = "prefix" /\ pc'[c] = "postfix"
        /\ size'[c] = size[c] /\ end_block'[c] = end_block[c]
    BY <1>0, <1>4 DEF Prefix, TypeOK
  <2>2. /\ size[c] = n
        /\ start_block[c] = o \div S
        /\ end_block[c] = (o + n - 1) \div S
    BY <1>0, <2>1 DEF ReaderBus
  <2>3. CASE o % S # 0
    <3>1. /\ cur'[c] = start_block[c]
          /\ start_block'[c] = start_block[c] + 1
      BY <1>0, <1>4, <2>3 DEF Prefix, BeginRead, TypeOK, Off
    <3>2. o \div S <= CdLastLba
      <4>1. o < CdMaxOffset
        BY <1>1, ConstantFacts
      <4>2. QED BY <1>1, <4>1, BlockOnMedium
    <3>3. QED
      BY <1>2, <2>1, <2>2, <2>3, <3>1, <3>2 DEF ReaderBus
  <2>4. CASE o % S = 0
    <3>1. /\ spc'[c] = spc[c] /\ start_block'[c] = start_block[c]
      BY <1>0, <1>4, <2>4 DEF Prefix, Off
    <3>2. o \div S \in Nat
      BY <1>1, DivMod
    <3>3. /\ start_block'[c] = Off(c)' \div CdSectorSize
                              + (IF Off(c)' % CdSectorSize # 0 THEN 1 ELSE 0)
          /\ size'[c] = req'[c].size
          /\ end_block'[c] = (Off(c)' + req'[c].size - 1) \div CdSectorSize
      BY <1>0, <1>2, <2>1, <2>2, <2>4, <3>1, <3>2
    <3>4. QED
      BY <1>0, <2>1, <3>1, <3>3 DEF ReaderBus
  <2>5. QED BY <2>3, <2>4
<1>5. CASE Postfix(c)
  <2>1. /\ pc[c] = "postfix" /\ pc'[c] = "loop"
    BY <1>0, <1>5 DEF Postfix, TypeOK
  <2>2. /\ size[c] = n
        /\ start_block[c] = o \div S + (IF o % S # 0 THEN 1 ELSE 0)
        /\ end_block[c] = (o + n - 1) \div S
    BY <1>0, <2>1 DEF ReaderBus
  <2>3. end_block[c] <= CdLastLba
    <3>1. o + n - 1 \in Nat /\ o + n - 1 < CdMaxOffset
      BY <1>1, ConstantFacts
    <3>2. QED BY <2>2, <3>1, BlockOnMedium
  <2>4. CASE (o + size[c]) % S # 0 /\ start_block[c] <= end_block[c]
    <3>1. /\ cur'[c] = end_block[c]
          /\ end_block'[c] = Dec(end_block[c])
      BY <1>0, <1>5, <2>4 DEF Postfix, BeginRead, TypeOK, Off
    <3>2. end_block[c] # 0
      <4>1. SUFFICES ASSUME end_block[c] = 0 PROVE FALSE
        OBVIOUS
      <4>2. o \div S + (IF o % S # 0 THEN 1 ELSE 0) <= 0
        BY <2>2, <2>4, <4>1
      <4>3. QED
        BY <1>1, <2>2, <2>4, <4>1, <4>2, PostfixNoWrap
    <3>3. Dec(end_block[c]) <= CdLastLba
      <4>1. end_block[c] \in Nat
        BY <1>0 DEF TypeOK
      <4>2. (end_block[c] - 1) % UllRange <= end_block[c] - 1
        BY <3>2, <4>1, ConstantFacts
      <4>3. QED BY <2>3, <4>1, <4>2, CdLastLbaAssumption, ConstantFacts DEF Dec
    <3>4. /\ pc'[c] = "loop" /\ end_block'[c] <= CdLastLba /\ cur'[c] <= CdLastLba
      BY <2>1, <2>3, <3>1, <3>3
    <3>5. QED
      BY <3>4 DEF ReaderBus
  <2>5. CASE ~((o + size[c]) % S # 0 /\ start_block[c] <= end_block[c])
    <3>1. spc'[c] = spc[c] /\ end_block'[c] = end_block[c]
      BY <1>0, <1>5, <2>5 DEF Postfix, Off
    <3>2. QED
      BY <1>0, <2>1, <2>3, <3>1 DEF ReaderBus
  <2>6. QED BY <2>4, <2>5
<1>6. CASE Loop(c)
  <2>1. pc[c] = "loop" /\ end_block[c] <= CdLastLba
    BY <1>0, <1>6 DEF Loop, ReaderBus
  <2>2. CASE start_block[c] <= end_block[c] /\ start_block[c] < SectorLimit
             /\ BeginRead(c, start_block[c])
             /\ start_block' = [start_block EXCEPT ![c] = @ + 1]
             /\ UNCHANGED <<pc, end_block>>
    <3>1. /\ pc'[c] = "loop" /\ end_block'[c] = end_block[c]
          /\ cur'[c] = start_block[c]
      BY <1>0, <2>1, <2>2 DEF BeginRead, TypeOK
    <3>2. cur'[c] <= CdLastLba
      BY <2>1, <2>2, <3>1, <1>0, ConstantFacts, CdLastLbaAssumption DEF TypeOK
    <3>3. QED BY <2>1, <3>1, <3>2 DEF ReaderBus
  <2>3. CASE start_block[c] > end_block[c] /\ pc' = [pc EXCEPT ![c] = "done"]
             /\ UNCHANGED <<spc, cur, start_block, end_block>>
    BY <1>0, <2>3 DEF ReaderBus, TypeOK
  <2>4. QED BY <1>6, <2>2, <2>3 DEF Loop
<1>7. QED
  BY <1>3, <1>4, <1>5, <1>6 DEF Adapter

(* ReaderBus(x) speaks only of reader x's locals and request. *)
LEMMA BusFrame ==
  ASSUME NEW x \in CdReaders, ReaderBus(x),
         pc'[x] = pc[x], spc'[x] = spc[x], cur'[x] = cur[x],
         size'[x] = size[x], start_block'[x] = start_block[x],
         end_block'[x] = end_block[x], req'[x] = req[x]
  PROVE  ReaderBus(x)'
BY DEF ReaderBus, Off

(* Inside ata_device_read_sector_atapi a reader's read_atapi locals stay  *)
(* put, and the only packet sent is for the block the sector read was     *)
(* called with.                                                            *)
LEMMA SectorReadBus ==
  ASSUME BusInv, NEW c \in CdReaders, SectorRead(c)
  PROVE  /\ \A x \in CdReaders : ReaderBus(x)'
         /\ CdBusWithinMedium'
<1>0. /\ TypeOK /\ \A x \in CdReaders : ReaderBus(x)
      /\ CdBusWithinMedium
  BY DEF BusInv, LockInv
<1>1. /\ UNCHANGED <<req, pc, cur, size, start_block, end_block>>
      /\ spc[c] # "none"
      /\ \A x \in CdReaders \ {c} : spc'[x] = spc[x]
  BY <1>0 DEF SectorRead, Acquire, SendPacket, Sleep, Resume, ReadData, TypeOK
<1>2. ASSUME NEW x \in CdReaders PROVE ReaderBus(x)'
  <2>1. CASE x = c
    <3>1. cur[c] <= CdLastLba
      BY <1>0, <1>1 DEF ReaderBus
    <3>2. QED
      BY <1>0, <1>1, <2>1, <3>1 DEF ReaderBus, Off
  <2>2. CASE x # c
    BY <1>0, <1>1, <2>2, BusFrame
  <2>3. QED BY <2>1, <2>2
<1>3. CdBusWithinMedium'
  <2>1. CASE SendPacket(c)
    <3>1. spc[c] = "setup" /\ cur[c] \in Nat /\ cur[c] <= CdLastLba
      BY <1>0, <1>1, <2>1 DEF SendPacket, ReaderBus, TypeOK
    <3>2. packet_lba' = packet_lba \/ packet_lba' = cur[c]
      BY <2>1 DEF SendPacket
    <3>3. QED
      BY <1>0, <3>1, <3>2 DEF CdBusWithinMedium
  <2>2. CASE ~SendPacket(c)
    <3>1. UNCHANGED packet_lba
      BY <2>2 DEF SectorRead, Acquire, Sleep, Resume, ReadData
    <3>2. QED BY <1>0, <3>1 DEF CdBusWithinMedium
  <2>3. QED BY <2>1, <2>2
<1>4. QED BY <1>2, <1>3

LEMMA InitBusInv == Init => BusInv
<1> SUFFICES ASSUME Init PROVE BusInv
  OBVIOUS
<1>1. LockInv
  BY InitLockInv
<1>2. CdBusWithinMedium
  BY CdLastLbaAssumption DEF Init, CdBusWithinMedium
<1>3. \A c \in CdReaders : ReaderBus(c)
  BY DEF Init, ReaderBus
<1>4. QED BY <1>1, <1>2, <1>3 DEF BusInv

LEMMA NextBusInv ==
  InMediumRequests /\ BusInv /\ [Next]_vars => BusInv'
<1> SUFFICES ASSUME InMediumRequests, BusInv, [Next]_vars PROVE BusInv'
  OBVIOUS
<1>0. LockInv' /\ TypeOK
  BY NextLockInv DEF BusInv, LockInv
<1>1. ASSUME NEW c \in CdReaders, Adapter(c) PROVE BusInv'
  <2>1. ReaderBus(c)'
    BY <1>1, AdapterBus
  <2>2. ASSUME NEW x \in CdReaders, x # c PROVE ReaderBus(x)'
    BY <1>0, <1>1, <2>2, AdapterFrame, BusFrame DEF BusInv
  <2>3. CdBusWithinMedium'
    BY <1>1 DEF Adapter, BusInv, CdBusWithinMedium
  <2>4. QED BY <1>0, <2>1, <2>2, <2>3 DEF BusInv
<1>2. ASSUME NEW c \in CdReaders, SectorRead(c) PROVE BusInv'
  BY <1>0, <1>2, SectorReadBus DEF BusInv
<1>3. ASSUME NEW d \in DiskCallers, DiskStep(d) PROVE BusInv'
  BY <1>0, <1>3 DEF DiskStep, BusInv, ReaderBus, Off, CdBusWithinMedium
<1>4. CASE Irq
  BY <1>0, <1>4 DEF Irq, BusInv, ReaderBus, Off, CdBusWithinMedium
<1>5. CASE UNCHANGED vars
  BY <1>0, <1>5 DEF vars, BusInv, ReaderBus, Off, CdBusWithinMedium
<1>6. QED
  BY <1>1, <1>2, <1>3, <1>4, <1>5 DEF Next

(* For requests that end on the medium and are not a piece of block 0,    *)
(* read_atapi never sends a READ(12) for a block past the medium, for     *)
(* every block size, medium size and number of readers. The requests left *)
(* out are exactly those for which it does: one starting at               *)
(* atapi_max_offset passes the `offset > atapi_max_offset` test, one      *)
(* running past the end computes end_block from the unclamped size, and   *)
(* one inside block 0 wraps end_block.                                     *)
THEOREM CdBusAlwaysWithinMedium ==
  ASSUME InMediumRequests
  PROVE  Spec => []CdBusWithinMedium
<1>1. BusInv => CdBusWithinMedium
  BY DEF BusInv
<1>2. BusInv /\ [Next]_vars => BusInv'
  BY NextBusInv
<1>3. QED BY <1>1, <1>2, InitBusInv, PTL DEF Spec

=============================================================================
