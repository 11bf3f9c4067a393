# Verification of the ToaruOS ATA/ATAPI driver and unix pipe

TLA+ models of the block-device driver in `src/libc/unistd/execvp.c`
(from line 55), checked with TLC on small drives and proved with TLAPS for
every drive. The same file starts with `execvp`. `src/kernel/fs/unixpipe.c`
holds the unix pipe and a graphics library. `src/unnamed/part_001` is an
older PIO-only version of the ATA driver.

## 1. The system

| Part | Code | State | Operations |
|---|---|---|---|
| Byte-range adapter | `read_ata` 153–203, `write_ata` 258–314, `ata_max_offset` 135–143 | per call: `size`, `start_block`, `end_block`, `x_offset`, a malloc'd `tmp` sector | clamp to capacity; unaligned prefix sector; unaligned postfix sector; whole-sector loop; return `size` |
| Sector transport | `ata_device_read_sector` 663–758 (DMA), `ata_device_write_sector` 831–858 (PIO), `ata_device_write_sector_retry` 872–879, `buffer_compare` 860–870 | the drive's sectors; one DMA buffer `dma_start` per device; the task-file registers; `ata_lock` | read one sector by bus-master DMA; write one sector by PIO and flush; write, read back and compare until equal |
| ATAPI transport | `read_atapi` 205–255, `ata_device_read_sector_atapi` 760–829, IRQ handlers 408–424 | `atapi_in_progress`, the `atapi_waiter` queue | send a PACKET READ(12), sleep holding `ata_lock`, be woken by IRQ 14/15 |
| Lifecycle | `ata_initialize` 881–898, `ata_device_detect` 613–661, `ata_device_init` 426–506, `atapi_device_init` 508–611 | device descriptors, node names | reset, probe the signature, IDENTIFY, set up the PRDT and DMA buffer, create and mount `/dev/hdX` or `/dev/cdromN` |
| Legacy PIO driver | `src/unnamed/part_001` | as the adapter | the same adapter over PIO transfers |
| Unix pipe | `unixpipe.c` 1–152 | `read_closed`, `write_closed`, a 512-byte ring buffer | read until size or newline; write until size or reader closed; close either end; select check and wait |
| Graphics library | `unixpipe.c` 153–885 | image buffers | blending, blurring, sprite drawing |
| PATH search | `execvp.c` 1–53 | none | search PATH and call `execve` |

How the parts interact:

- A VFS read or write on `/dev/hdX` enters the adapter.
- The adapter plans at most one prefix sector, at most one postfix sector, and a run of whole sectors. It calls the transport once per sector.
- Every transport call takes the single global spin lock `ata_lock` for the whole transfer, so the transfers of all callers on all four devices are serialised.
- Nothing else in the adapter is serialised. Two callers interleave between sector transfers, including between the read and the write of one partial sector's read-modify-write.

What makes the adapter hard to test:

- Arithmetic edge cases: requests that start and end in one sector, requests that reach or cross capacity, and requests that end in sector 0.
- Concurrent callers on one sector.
- Silent transfer failure: the DMA error check is compiled out.
- A retry loop with no bound.

## 2. Modules

- **`AtaDisk`** models the byte-range adapter and the sector transport, for any number of concurrent callers.
  - Each caller is a reader or a writer with one request `req[p] = [offset, size]`. Its program counter `pc[p]` walks `start → prefix → postfix → loop → done`, as `read_ata`/`write_ata` do.
  - The adapter locals (`size`, `start_block`, `end_block`, `x_offset`) are per-caller functions.
  - A writer inside `ata_device_write_sector_retry` keeps `tmp`, `lba` and `retry ∈ {none, write, verify}`. Its adapter steps are disabled (`Idle`) until the retry returns.
  - **Data abstraction.** A byte is a provenance tag, not a value:
    - `<<Orig, pos>>` is the drive's original byte at position `pos`;
    - `<<w, k>>` is byte `k` of writer `w`'s buffer (`k >= size` means a byte read past the end of that buffer);
    - `<<Junk, 0>>` is the initial contents of a DMA buffer.

    This lets properties say where every byte came from without enumerating byte values.
  - **Atomic steps.** One transfer is one step (`DmaRead`, `PioWrite`), because the code holds `ata_lock` for all of it. One adapter phase (for example the prefix: read the sector, copy out or merge, advance `start_block`) is one action, since its only shared effect is that one transfer.
  - **Hardware failure.** With `HwFailures`, a DMA read may leave `dma_start` unchanged and a PIO write may leave the sector unchanged; the code cannot tell.
  - **Integer width.** `unsigned long long` wraps modulo `UllRange` in `Dec`. Other arithmetic stays far below 2^32 in every model.
- **`MCAtaDisk`** instantiates `AtaDisk` for TLC:
  - 4-byte sectors;
  - a drive of 3 sectors (`sectors_48 = 3`, `sectors_28 = 2`, so the 48-bit count is the one used);
  - at most 5 sector indices per request;
  - `UllRange` = 2^31 - 1, the largest integer TLC holds. The wrap bug only needs `Dec(0)` to be huge; any value above `SectorLimit` gives that.

  It also defines three request sets:
  - `AnyRequests`: any offset and size up to one sector past the end;
  - `InCapacityRequests`: requests inside the drive;
  - `HandledRequests`: the shapes the code handles correctly. These are whole-sector requests, requests that cross a sector boundary, and requests starting past the end.
- **`AtaDiskProofs`** holds the TLAPS proofs of type correctness and of `BusWithinCapacity` for `AtaDisk`; **`AtaDiskPlacementProofs`** extends it with the proofs of the byte-placement invariants.
- **`Atapi`** models the CD-ROM read path against the IRQ handlers and a disk caller.
  - `read_atapi` is `Start`, `Prefix`, `Postfix` and `Loop`, the same phases as in `AtaDisk`, on the medium size `atapi_max_offset`. Each phase that reads a block calls `BeginRead`, which enters `ata_device_read_sector_atapi`.
  - `ata_device_read_sector_atapi` is split at every lock operation, wait and sleep. The steps are `Acquire` (765), `SendPacket` (767–801, ending with `atapi_in_progress = 1` and READ(12)), `Sleep` (804), `Resume` (806, clearing the flag) and `ReadData` (808–828, ending with the unlock). A poll that sees ERR jumps to the unlock, and `HwErrors` allows that.
  - `Irq` is either IRQ handler (408–424). The drive is `busy` from READ(12) until it raises the IRQ. The handler wakes the whole queue only if `atapi_in_progress` is set.
  - A disk caller (`DiskAcquire`, `DiskRelease`) stands for `ata_device_read_sector`'s lock section.
  - Block data is not tracked. The byte placement is the arithmetic `AtaDisk` already checks.
- **`MCAtapi`** uses 2-byte blocks and a medium whose last LBA is 2. `atapi_rw` enumerates every request that ends inside the medium and is not a sub-block read at offset 0 (`CdInMediumRequests`, by `InMediumRequest`). The violation configurations use the request shapes the adapter handles.
- **`AtapiProofs`** holds the TLAPS proofs about `Atapi`.
- **`AtaLegacy`** models the older driver in `src/unnamed/part_001` with the same byte abstraction as `AtaDisk`. It differs where the code differs:
  - `Off` truncates the 64-bit `koff_t` to `uint32_t`, and `Add32`/`Sub32` are the 32-bit block arithmetic;
  - `HasPostfix` is the strict `start_block < end_block`;
  - `PioRead` either gets the sector or, after the fifth error, leaves the destination untouched (a fresh `malloc` for the prefix and postfix, the caller buffer in the loop);
  - `irq_off` is the writer inside `ata_device_write_sector_retry`'s `IRQ_OFF` section. The kernel is uniprocessor and `ata_lock` is never held between steps, so while it is set no other thread is scheduled (`Runs`).
- **`AtaLegacyProofs`** holds the TLAPS proof of type correctness for `AtaLegacy`.
- **`MCAtaLegacy`** uses the drive of `MCAtaDisk`. It defines the request shapes the legacy adapter serves (`HeadFits`, `TailFits`), the shapes whose tail it mishandles, and an instance whose 32-bit word (8) is narrower than the drive (12 bytes), standing for a drive larger than 4 GiB.
- **`AtaLifecycle`** models `ata_initialize`. `hw`, chosen in `Init`, is the machine: the PCI function found, its COMMAND bit 2, BAR4, and per device the signature, IDENTIFY capacity and READ CAPACITY answer.
  - `Load` is the PCI scan (`IsPiix` is `find_ata_pci`).
  - `Detect` is one call of `ata_device_detect`. It uses `AtaDeviceCreate` and `AtaDeviceInit` for a PATA drive, and `AtapiDeviceInit` and `AtapiDeviceCreate` for an ATAPI drive.
  - Initialisation runs on one thread, so each call is one step. The run ends after the fourth device: deadlock checking is off because probing really stops.
- **`MCAtaLifecycle`** builds the machine sets: all four devices with every signature, both PIIX ids, media and probe errors (`GoodMachines`), and one set per hardware condition a violation run needs.

- **`UnixPipe`** models `unixpipe.c` lines 1–152: one reader thread, one writer thread, and a thread selecting on the read end.
  - The reader's `rpc` walks `idle → check → ring → check … → idle`:
    - `ReadCall` enters `read_unixpipe`;
    - `ReadCheck` is the loop test and the end-of-file test (35–38);
    - `RingRead` is one `ring_buffer_read` of one byte and what the loop does with it (39–46).
  - The writer mirrors it with `WriteCall`, `WriteCheck` (53–59) and `RingWrite` (60–64). `CloseRead` and `CloseWrite` are the two close handlers.
  - A ring call on an empty (full) buffer leaves its thread at `sleep`. Only the other end's ring call (`Wake(…, "ring")`) or a close's `ring_buffer_interrupt` (`Wake(…, "check")`, the call returning 0 to the loop) moves the thread on.
  - `SelectCheck` is `check_pipe` and `SelectWait` is `wait_pipe`. They are separate steps, because `unixpipe.c` holds no lock across them.
  - **The ring buffer contract.** The ring buffer (`kernel/ds/ringbuffer.c`) is not in this repository. The model takes from it only what the pipe relies on: each call takes or puts one byte, or sleeps, in one locked step; a put wakes a sleeping reader and alerts select waiters; a take wakes a sleeping writer.
- **`PipeChannel`** is the abstract pipe: a stream of bytes, and per end `idle`, `busy` or `closed` with the bytes left in the current call. `UnixPipe` maps onto it with `stream = buf`, `reader = Call(rpc)` (every in-call pc is `busy`) and `rleft = rsize - rread` (likewise for the writer). Under this mapping:
  - each `RingRead` or `RingWrite` that moves a byte is a `Get` or a `Put`;
  - a loop test that ends the call is `EndRead` or `EndWrite`;
  - the other ring, loop and select steps are stutters.
- **`MCUnixPipe`** gives the pipe's constants (below).

| `AtaDisk` | code |
|---|---|
| `Start` | lines 157–169 / 261–273: block numbers, range check, clamp |
| `Prefix` | 171–182 / 275–289; `CopyHead` is the `memcpy` at 176; `MergeHead` is the `memcpy` at 283 |
| `Postfix` | 184–194 / 291–305; `CopyOut` is 189; `MergeTail` is 299; `Dec` is the `end_block--` |
| `Loop` | 196–202 / 307–313 |
| `DmaRead` | `ata_device_read_sector`, with `Outcomes` standing for the compiled-out error check |
| `PioWrite` | `ata_device_write_sector` |
| `RetryWrite`, `RetryVerify` | the `do … while (buffer_compare(...))` loop |

## 3. Runs

A run uses `MCAtaDisk` unless another MC module is named. Deadlock checking is off in every run. Every caller makes one call, so the state where all callers are done is final; a call that never returns is caught by `RequestsComplete` or `AllCallersComplete`. Lifecycle probing stops after the fourth device. Both ends of a pipe make at most `Calls` calls and then close, so a pipe with both ends closed is final; a call stuck in the ring buffer is caught by `CallsReturn`.

| run | checks | result |
|---|---|---|
| `disk_rw` | `TypeOK`, `DiskPlacement`, `ReadPlacement`, `BusWithinCapacity`, `NoBufferOverflow`, `RequestsComplete`; one reader, one writer, `HandledRequests` | pass, 313,588 states |
| `read_overflow` | `NoBufferOverflow` | violated by a 1-byte read at offset 1 |
| `lost_update` | `CompletedWritesDurable` | violated by two writers on disjoint bytes of sector 0 |
| `writer_livelock` | `RequestsComplete` | violated by two whole-sector writers of sector 0 |
| `atapi_rw` (`MCAtapi`) | `TypeOK`, `InProgressOwned`, `CdBusWithinMedium`, `SleeperWoken`; two CD readers, one disk caller, errors possible, every in-medium request | pass, 349,937 states |
| `atapi_lost_wakeup` (`MCAtapi`) | `AllCallersComplete` | violated: the IRQ arrives between READ(12) and `sleep_on`, and the reader sleeps forever holding `ata_lock` |
| `legacy_rw` (`MCAtaLegacy`) | `TypeOK`, `DiskPlacement`, `ReadPlacement`, `BusWithinCapacity`, `NoBufferOverflow`; a reader and a writer, legacy-served shapes | pass, 130,640 states |
| `legacy_writers` (`MCAtaLegacy`) | `RequestsComplete`; two writers | pass, 264,114 states: `IRQ_OFF` prevents the livelock of `writer_livelock` |
| `lifecycle_ok` (`MCAtaLifecycle`) | `TypeOK`, `CdromForEveryAtapi`, `DmaBaseValid`, `PciWritesOnlyController`, `NamesDistinct` | pass, 995,328 states |
| `pipe_rw` (`MCUnixPipe`) | `TypeOK`, `ImplementsChannel`; a reader, a writer and a selecting thread, closes in every order | pass, 6,962 states |
| `pipe_hang` (`MCUnixPipe`) | `CallsReturn` | violated: the write end closes between the reader's end-of-file test and its `ring_buffer_read`, and the read never returns |
| `pipe_select_race` (`MCUnixPipe`) | `SelectWaitJustified` | violated: the write end closes between `check_pipe` and `wait_pipe`, and the selecting thread waits on a pipe at end of file |

What the properties say:

- **`DiskPlacement`**: every byte on the drive is its original byte or a byte some writer's request addressed to exactly that position.
- **`ReadPlacement`**: every byte a finished reader returns is such a byte, for the position it asked for.
- **`NoBufferOverflow`**: no reader's buffer is written past the requested size.
- **`BusWithinCapacity`**: no command reaches the task file for a sector outside the drive.
- **`CompletedWritesDurable`**: once a writer has returned, its bytes are on disk unless a later writer overlapped them.
- **`RequestsComplete`**: every call returns.
- **`InProgressOwned`**: `atapi_in_progress` is set only while the `ata_lock` holder is a CD reader between sending its packet and being woken. So an IRQ never wakes the queue for a transfer that has already finished.
- **`CdBusWithinMedium`**: no READ(12) addresses a block past the medium.
- **`SleeperWoken`**: a reader on the wait queue while its packet is in flight is eventually woken.
- **`AllCallersComplete`**: every CD read and every disk transfer returns.
- **`NoLockAcrossSleep`**: no thread sleeps on the ATAPI queue while it holds `ata_lock`.
- **`NodeLengthIsCapacity`**: every mounted node records its device's capacity.
- **`CdromForEveryAtapi`**: after probing, every ATAPI drive that answered READ CAPACITY has a `/dev/cdrom` node.
- **`DmaBaseValid`**: every `/dev/hd` device's bus-master base is the controller's I/O BAR4 with its low two bits cleared.
- **`PciWritesOnlyController`**: no PCI function other than the IDE controller has its COMMAND register written.
- **`NamesDistinct`**: no two mounted nodes share a name or a device.
- **`ImplementsChannel`**: `UnixPipe` implements `PipeChannel` under the mapping below, so bytes leave the pipe in the order they entered, each once. A read returns short only right after a `'\n'` or at end of file, and a write returns short only once the read end is closed.
- **`CallsReturn`**: every read and every write call on the pipe returns.
- **`SelectWaitJustified`**: a thread waiting in select on the read end never waits on a pipe that `check_pipe` would report ready.

**Why the bounds are enough.** A 3-sector drive with 4-byte sectors has all of these:

- aligned and unaligned starts and ends;
- requests inside one sector, across two sectors and across three;
- requests that reach, cross and start past capacity;
- two callers on one sector.

The arithmetic depends only on `offset mod S`, `(offset + size) mod S`, and how `offset` and `offset + size` compare with capacity. All of those cases occur.

**Fairness.** There is weak fairness per caller (`WF_vars(Step(p))`). A thread that can take its next step eventually does: the kernel's scheduler keeps running a runnable thread, and every transfer is a bounded critical section under a spin lock. In `Atapi` there is also weak fairness on `Irq`: a drive that has received a READ(12) raises its interrupt. This is the assumption under which the lost wakeup is a code bug and not a hardware fault.

Every property of a passing run also has a mutant in `PROJECT.json`: a plausible bug in the mapped code that the property catches. Those bugs are:
- an off-by-one task-file LBA;
- an unshifted prefix copy or merge;
- capacity counted one sector too large;
- a strict postfix guard;
- an inverted compare;
- a postfix merge one byte too long;
- a ring buffer that accepts one byte past its capacity;
- end of file taken as soon as the write end closes, with bytes still buffered.

**Pipe bounds and fairness.** `MCUnixPipe` uses a 2-byte ring buffer, the bytes `{a, '\n'}`, call sizes 1 and 2, and two calls per end. These give:
- a full buffer and an empty one;
- a read cut short by a newline with bytes left behind;
- a write of more bytes than the buffer holds, so the writer sleeps;
- every order of the two closes against a sleeping or testing peer.

Each thread has weak fairness (`WF_vars(Reader)`, `WF_vars(Writer)`), since the scheduler keeps running a runnable thread. A thread asleep in the ring buffer has no enabled step, so fairness does not wake it: only the other end's ring call or interrupt does.


Further configurations ship beside the runs: each one is a `.cfg` of the same MC module, run with `tlc -config <name>.cfg <module>`. They show further disagreements found while modelling, and the second writer of `disk_writers`.

| configuration | checks | result |
|---|---|---|
| `disk_bus` | `TypeOK`, `BusWithinCapacity` on the requests `OnDriveRequest` admits | pass, 516,819 states |
| `disk_writers` | `DiskPlacement`; two writers with overlapping requests (writer symmetry) | pass, 477,545 states |
| `past_capacity` | `BusWithinCapacity` | violated by a request at offset 9, size 5 on a 12-byte drive |
| `wrap_hang` | `RequestsComplete` | violated by a 1-byte read at offset 0 |
| `stale_dma` | `ReadPlacement` | violated once a DMA read may fail |
| `atapi_lock_sleep` (`MCAtapi`) | `NoLockAcrossSleep` | violated: `sleep_on` is called inside the lock, which the spec forbids |
| `legacy_tail_overflow` | `NoBufferOverflow` | violated by `read(0, 1)`: the strict postfix test skips the tail and the loop copies a whole sector |
| `legacy_bail` | `ReadPlacement` | violated when a sector read fails five times: `read_ata` still returns `size` |
| `lifecycle_no_medium` | `CdromForEveryAtapi` | violated: no node for a drive without a medium (the spec creates one) |
| `lifecycle_membar` | `DmaBaseValid` | violated: a memory BAR4 is kept unmasked and DMA is still used (the spec falls back to PIO) |
| `lifecycle_other_pci` | `PciWritesOnlyController` | violated: without a PIIX function, bus mastering is set on PCI 0:0.0 |
| `write_clobber` | `DiskPlacement` | violated by a 2-byte write at offset 1 |
| `legacy_alias` (`MCAtaLegacy`) | `DiskPlacement` | violated by a write at offset 2^32 (8 in the model), which lands at 0 |
| `lifecycle_node_length` (`MCAtaLifecycle`) | `NodeLengthIsCapacity` | violated: `/dev/hd` nodes are created before IDENTIFY, with length 0 |

## 4. Proofs

`AtaDiskProofs` proves **`TypeCorrect`**, `Spec => []TypeOK`, for every sector size, drive capacity and set of readers, writers and requests. It relies on the assumptions declared in `AtaDisk`:
- the sector size is positive;
- the request offsets are natural numbers and the sizes are positive;
- `UllRange > SectorLimit`.

`TypeOK` is inductive on its own. The argument has one lemma per action. The arithmetic facts are:
- `offset mod S` and `(offset + size) mod S` lie in `0..S-1`, so every `memcpy` model reads inside the sector image;
- the clamped size is `MaxOffset - offset >= 0` when it is clamped;
- `Dec` stays in `0..UllRange-1`.

Three helper lemmas carry the data facts: `DmaReadType`, `CopyOutType` and `MergeType`.

`AtaLifecycleProofs` proves three theorems about `ata_initialize` for any number of devices and any machine in `HwConfigs`. They rely on the assumptions in `AtaLifecycle`:
- the devices are `1..N` with `N > 0`;
- the sector size is positive;
- `LifecycleHwAssumption`: every machine gives a COMMAND bit per PCI function, a natural BAR4, and per device a signature class, an IDENTIFY record and a READ CAPACITY answer.

The theorems:
- **`NamesAlwaysDistinct`**, `Spec => []NamesDistinct`, holds on every machine. `NamesDistinct` is not inductive: a fresh node could collide with an old one. The strengthening `NamesInv` adds type correctness, `next` in range while probing, and that every node's slot is below `next` and its number below the counter (`ata_drive_char` or `cdrom_number`) that named it. The lemma `FreshNode` then shows that the node `ata_device_detect` creates differs from every mounted one.
- **`PciWritesOnIdeController`** assumes `PiixMachines` (every machine's IDE function is recognised). Its invariant `PciInv` says that `ata_pci` designates the controller from the end of the scan on.
- **`DmaBaseAlwaysValid`** assumes `PiixMachines` and `IoBarMachines` (BAR4 has bit 0 set). Its invariant `DmaInv` combines `NamesInv`, `PciInv`, "no node before the scan" and `DmaBaseValid`. The argument: a `/dev/hd` device was given the masked BAR4 in the step that mounted its node, and `NamesInv` keeps every later step off it, since probing only touches the device `next`, above every mounted slot.

The two hypotheses are exactly what the configurations `lifecycle_other_pci` and `lifecycle_membar` drop. So the theorems and those counterexamples together delimit when the code is right. Each invariant was checked with TLC on `GoodMachines` before it was proved.

Two further theorems in `AtaLifecycleProofs`:
- **`LifecycleTypeCorrect`**, `Spec => []TypeOK`, follows from `NamesInv` on every machine.
- **`CdromForEveryAnsweringAtapi`** assumes `MediumMachines`: an ATAPI drive that answers READ CAPACITY reports a last LBA other than 0. `CdromForEveryAtapi` talks only about the state at the end of probing, so it is not inductive. Its invariant `CdromInv` adds `NamesInv`, "probing is over only when `next = N + 1`", and "every device below `next` that is an answering ATAPI drive has a `/dev/cdrom` node". `DetectCdrom` shows that the call that probes such a drive mounts its node (`MediumPresent` holds by the hypothesis), and that nodes are never removed. The hypothesis is exactly what `lifecycle_no_medium` drops.

`AtapiProofs` proves four theorems about the CD-ROM read path, for every block size, medium size, set of readers, disk callers and requests. They use the assumptions of `Atapi`:
- a positive block size and a positive last LBA (`atapi_device_init` creates no node for LBA 0);
- natural request offsets and positive sizes;
- `UllRange > SectorLimit`;
- readers and disk callers are disjoint.
- **`LockInvariant`**, `Spec => []LockInv`. `LockInv` is the lock discipline of `ata_device_read_sector_atapi` and `ata_device_read_sector`:
  - a reader is in `setup`, `sleep`, `asleep` or `data` exactly when it holds `ata_lock`;
  - a disk caller is in `transfer` exactly when it holds the lock;
  - `InProgressOwned` holds.
  
  `LockInv` is inductive. `NextLockInv` has one case per action. `AdapterLock` shows that the phases of `read_atapi` never enter or leave a locked section, and `IrqInv` shows that the IRQ handler changes neither the lock nor the flag.
- **`AtapiTypeCorrect`** (`[]TypeOK`) and **`InProgressAlwaysOwned`** (`[]InProgressOwned`) follow from `LockInv`.
- **`CdBusAlwaysWithinMedium`** assumes `InMediumRequests`: every request satisfies `InMediumRequest`, meaning it ends inside the medium and is not a read of less than a block at offset 0. `CdBusWithinMedium` is not inductive: the block of the next READ(12) depends on the reader's phase.
  - `BusInv` adds `LockInv` and, per reader, `ReaderBus`. In the prefix phase `start_block` and `end_block` are `offset div S` and `(offset + size - 1) div S`. In the postfix phase the start is advanced past a partial first block. In the loop phase `end_block` is on the medium. A reader inside a sector read addresses a block on the medium.
  - The arithmetic lemmas `DivMod`, `BlockOnMedium` and `PostfixNoWrap` state the facts about `div` and `mod` by a symbolic block size that SMT proves directly. The identity `x = S * (x div S) + x mod S` is avoided, since the provers do not find it.
  - The hypothesis is exact. With arbitrary requests TLC finds `CdBusWithinMedium` violated: a request at `offset = atapi_max_offset` passes the `>` check at execvp.c:214 and reads one block past the medium. A 1-byte read at offset 0 makes `end_block--` wrap. This is why `atapi_rw` enumerates the in-medium requests.

`LockInv` and `BusInv` were checked with TLC on `atapi_rw`, and `CdromInv` on `GoodMachines`, before they were proved.

`UnixPipeProofs` proves two theorems about the pipe, for every ring capacity, byte set, call sizes and number of calls. They use only `PipeAssumption`: `'\n'` is not among the other bytes, the capacity is positive, and sizes are positive.
- **`PipeImplementsChannel`**, `Spec => ImplementsChannel`, is the refinement. Initial states map to `PipeChannel!Init`, and the lemma `StepRefines` shows that every step maps to a `PipeChannel` step or a stutter.
  - The step needs the invariant `PipeInv`. It says that `rread <= rsize`, `written <= wsize`, and that a thread at `ring` or `sleep` still has a byte to move (`rread < rsize`). Without it, a `RingRead` could map to a `Get` with `rleft = 0`, which the abstract pipe forbids.
  - `PipeInv` is inductive (`InitInv`, `NextInv`). `NextInv` has one step per action, and the lemma `WakeKeepsCall` shows that a wake-up never changes the abstract view.
- **`PipeTypeCorrect`**, `Spec => []TypeOK`, follows from `PipeInv`. In particular the buffer never exceeds its capacity.

`PipeInv` was checked with TLC on `MCUnixPipe` before it was proved.

`AtaDiskProofs` also proves **`BusAlwaysWithinCapacity`**, `Spec => []BusWithinCapacity`, under the hypothesis `AllRequestsOnDrive`: every request either starts past the drive (`offset > ata_max_offset`, rejected by `Start`) or ends on it and is not a read of less than a sector at offset 0 (`OnDriveRequest`). It holds with or without hardware failures. The hypothesis is exact: `past_capacity` (a request running past the end computes `end_block` from the unclamped size) and `wrap_hang` (a request inside sector 0 wraps `end_block--`) are what it leaves out. `BusWithinCapacity` is not inductive, because the next sector put on the bus depends on the caller's phase. `DiskBusInv` adds `TypeOK` and, per caller, `ProcBus`: the block numbers `Start` records, the prefix's advance past a partial first sector, and that from the loop on `end_block` is a sector of the drive. It also uses `SectorCountAssumption`, `NumSectors < UllRange`: the sector count is a `uint64_t` (execvp.c:136), so `Dec` of a nonzero block is the block minus one.

`AtaDiskPlacementProofs` proves the three placement invariants for every sector size, capacity and number of readers and writers, under `AllRequestsHandled`: every request satisfies `HandledRequest` (whole-sector requests, requests that cross a sector boundary, and requests starting past the end). The inductive invariant grows in three layers:
- `PosInv` is `DiskBusInv`, `NoBufferOverflow` and, per caller, `Position`. `x_offset` is 0 until the prefix. From the postfix on, `offset + x_offset` is the first byte of `start_block`, and the postfix finds `start_block <= end_block`. In the loop, the sectors up to `end_block` end where the request's partial last sector begins. **`NoOverflow`**, `Spec => []NoBufferOverflow`, follows, with or without hardware failures. `read_overflow` shows that a request inside a single sector, outside the hypothesis, overflows.
- `PlaceInv` adds `DiskPlacement` and, per writer inside `ata_device_write_sector_retry`, `Staged`: the sector image being written holds only bytes that belong in that sector. **`WritesPlaced`**, `Spec => []DiskPlacement`, also assumes `HwFailures = FALSE`. With failures, a failed DMA read leaves a stale image that the merge writes back (`write_clobber`, `stale_dma`).
- `ReadInv` adds, per reader, `ReaderPlace`: the bytes of the caller buffer copied so far come from the requested range. **`ReadsPlaced`**, `Spec => []ReadPlacement`, also assumes `RequestsFitBuffer`, which says that the model's reader buffer is large enough for the request, as the caller's buffer is in the code.

Arithmetic lemmas (`DivMonotone`, `TailSplit`, `AlignedEnd`, `HeadFits`, `DecExact`) state the facts about `div` and `mod` by a symbolic sector size. Each of them is over fresh names, since the provers time out when `div` terms are in context. Frame lemmas show that a step of one caller leaves every other caller's `Position`, `Staged` and `ReaderPlace` alone. `PosInv` was checked with TLC with `HwFailures = TRUE`, and `ReadInv` on `disk_rw` and `disk_writers`, before they were proved.

`AtaLegacyProofs` proves **`LegacyTypeCorrect`**, `Spec => []TypeOK`, for the older driver. It holds for every word width, with or without failing transfers, and relies on `LegacyRequestsAssumption`: sizes are positive `uint32_t` values, as `read_ata` and `write_ata` take them. `TypeOK` is inductive. The lemmas show that `size` and `end_block` stay 32-bit values through the `uint32_t` offset, the unsigned block arithmetic and `end_block--`, and that a sector is transferred only when it is on the drive.

What stays with TLC:
- liveness (`RequestsComplete`, `SleeperWoken`, `AllCallersComplete`, `CallsReturn`): TLAPS does not handle fairness and `ENABLED` here;
- the legacy placement, overflow and bus invariants, and the ATAPI invariants outside the proved hypotheses;
- the `AtaDisk` invariants outside their hypotheses. These are exactly the cases where TLC finds them violated.

## 5. Not modelled, and the plan

In the legacy runs the 32-bit word is far wider than the drive, except in `legacy_alias`. The lifecycle runs enumerate every combination of signatures over the four devices.

Not modelled, with the reason:
- The register-level protocol inside one transfer: busy-waits over port reads, whose only effect is that the transfer finishes.
- The graphics library: pure pixel arithmetic.
- `close_complete` in `unixpipe.c`: it is never called, since both "should clean up" branches only log. The ring buffer's internals are outside the repository (see `UnixPipe`).
- `execvp`: sequential string handling.
- `part_000`: declarations only.

Planned modules, in order:
1. **`AtaDriver`**: composes `AtaDisk` and `Atapi` under the one `ata_lock`. A disk caller waits while an ATAPI caller sleeps.
2. **`BlockDevice`**: an abstract byte array with atomic `read`/`write`. `AtaDisk` refines it on requests to distinct sectors, and the refinement fails where `lost_update` shows.
3. Proofs: the placement invariants of `AtaLegacy` on the shapes it serves, and the step lemmas of the `BlockDevice` refinement.
