------------------------------- MODULE UnixPipe -------------------------------
(***************************************************************************)
(* The kernel pipe of src/kernel/fs/unixpipe.c: one reader thread calling  *)
(* read_unixpipe and one writer thread calling write_unixpipe on the two   *)
(* ends of a pipe, each closing its end once done with it.                 *)
(*                                                                         *)
(* Both loops move one byte per ring_buffer_read/ring_buffer_write call.   *)
(* The ring buffer itself (kernel/ds/ringbuffer.c) is not part of this     *)
(* repository; it is modelled by the contract unixpipe.c relies on: a call *)
(* takes or puts one byte under the ring's lock, or puts the caller to     *)
(* sleep on the ring's wait queue in the same locked step; the opposite    *)
(* operation wakes that queue; ring_buffer_interrupt wakes whoever is on   *)
(* the queues at that moment, and an interrupted call returns 0.           *)
(***************************************************************************)
EXTENDS Naturals, Sequences

CONSTANTS
  Data,       \* the bytes other than '\n'
  NL,         \* '\n'
  Capacity,   \* the bytes the ring buffer holds (UNIX_PIPE_BUFFER, small)
  Sizes,      \* the size arguments of read and write calls
  Calls       \* the calls each end makes before closing

ASSUME PipeAssumption ==
  /\ NL \notin Data
  /\ Capacity \in Nat \ {0}
  /\ Sizes \subseteq Nat \ {0}
  /\ Calls \in Nat

Bytes == Data \cup {NL}

VARIABLES
  buf,            \* the bytes in the ring buffer, oldest first
  read_closed,    \* self->read_closed
  write_closed,   \* self->write_closed
  rpc,            \* the reader: "idle", "check", "ring", "sleep", "closed"
  rsize, rread,   \* the size argument and `read` of the reader's call
  rcalls,         \* the reader's calls so far
  wpc,            \* the writer: "idle", "check", "ring", "sleep", "closed"
  wsize, written, \* the size argument and `written` of the writer's call
  wcalls,
  spc             \* a thread in select on the read end: "idle", "checked",
                  \* "wait", "ready"

vars == <<buf, read_closed, write_closed, rpc, rsize, rread, rcalls,
          wpc, wsize, written, wcalls, spc>>

Pcs == {"idle", "check", "ring", "sleep", "closed"}

TypeOK ==
  /\ buf \in Seq(Bytes) /\ Len(buf) <= Capacity
  /\ read_closed \in BOOLEAN /\ write_closed \in BOOLEAN
  /\ rpc \in Pcs /\ wpc \in Pcs
  /\ rsize \in Nat /\ rread \in Nat /\ rcalls \in 0 .. Calls
  /\ wsize \in Nat /\ written \in Nat /\ wcalls \in 0 .. Calls
  /\ spc \in {"idle", "checked", "wait", "ready"}

(* make_unix_pipe: both ends open, an empty ring buffer. *)
Init ==
  /\ buf = <<>>
  /\ read_closed = FALSE /\ write_closed = FALSE
  /\ rpc = "idle" /\ rsize = 0 /\ rread = 0 /\ rcalls = 0
  /\ wpc = "idle" /\ wsize = 0 /\ written = 0 /\ wcalls = 0
  /\ spc = "idle"

(* wakeup_queue and wakeup_queue_interrupted: a sleeper on the queue goes  *)
(* back to `to`; anyone else is unaffected.                                *)
Wake(pc, to) == IF pc = "sleep" THEN to ELSE pc

(* ring_buffer_alert_waiters: a thread waiting in select becomes ready. *)
Alert(pc) == IF pc = "wait" THEN "ready" ELSE pc

(* Mutant: the write's byte is not counted when the buffer is full. *)
HasRoomOneMore == Len(buf) <= Capacity

(* ring_buffer_available(...) > 0 *)
HasRoom == Len(buf) < Capacity

-----------------------------------------------------------------------------
(* The reader. *)

ReadCall(n) ==
  /\ rpc = "idle" /\ rcalls < Calls
  /\ rpc' = "check" /\ rsize' = n /\ rread' = 0 /\ rcalls' = rcalls + 1
  /\ UNCHANGED <<buf, read_closed, write_closed, wpc, wsize, written, wcalls, spc>>

(* Mutant: end of file seen as soon as the write end is closed. *)
EofClosedOnly == write_closed

(* self->write_closed && !ring_buffer_unread(self->buffer) *)
Eof == write_closed /\ buf = <<>>

(* The head of the while loop of read_unixpipe: return once size bytes    *)
(* are read, or at end of file; otherwise call ring_buffer_read.          *)
ReadCheck ==
  /\ rpc = "check"
  /\ rpc' = IF rread >= rsize \/ Eof THEN "idle" ELSE "ring"
  /\ UNCHANGED <<buf, read_closed, write_closed, rsize, rread, rcalls,
                 wpc, wsize, written, wcalls, spc>>

(* ring_buffer_read(self->buffer, 1, ...) and what read_unixpipe does with *)
(* its result: a byte wakes a writer sleeping on a full buffer; a '\n'    *)
(* returns read+1 at once; an empty buffer puts the reader to sleep.       *)
RingRead ==
  /\ rpc = "ring"
  /\ IF buf # <<>>
       THEN /\ buf' = Tail(buf)
            /\ wpc' = Wake(wpc, "ring")
            /\ rpc' = IF Head(buf) = NL THEN "idle" ELSE "check"
            /\ rread' = rread + 1
       ELSE /\ rpc' = "sleep"
            /\ UNCHANGED <<buf, wpc, rread>>
  /\ UNCHANGED <<read_closed, write_closed, rsize, rcalls, wsize, written, wcalls, spc>>

(* close_read_pipe: the read end closes once no thread uses it, so with  *)
(* the reader idle and no select in progress on it. The interrupt makes a *)
(* writer asleep in ring_buffer_write return 0 to the loop.               *)
CloseRead ==
  /\ rpc = "idle" /\ spc \notin {"checked", "wait"}
  /\ rpc' = "closed" /\ read_closed' = TRUE
  /\ wpc' = IF write_closed THEN wpc ELSE Wake(wpc, "check")
  /\ UNCHANGED <<buf, write_closed, rsize, rread, rcalls, wsize, written, wcalls, spc>>

-----------------------------------------------------------------------------
(* The writer. *)

WriteCall(n) ==
  /\ wpc = "idle" /\ wcalls < Calls
  /\ wpc' = "check" /\ wsize' = n /\ written' = 0 /\ wcalls' = wcalls + 1
  /\ UNCHANGED <<buf, read_closed, write_closed, rpc, rsize, rread, rcalls, spc>>

(* The head of the while loop of write_unixpipe: return once size bytes   *)
(* are written, or (after SIGPIPE) once the read end is closed.           *)
WriteCheck ==
  /\ wpc = "check"
  /\ wpc' = IF written >= wsize \/ read_closed THEN "idle" ELSE "ring"
  /\ UNCHANGED <<buf, read_closed, write_closed, rpc, rsize, rread, rcalls,
                 wsize, written, wcalls, spc>>

(* ring_buffer_write(self->buffer, 1, ...): a byte of the caller's buffer *)
(* goes in, wakes a sleeping reader and alerts select waiters; a full     *)
(* buffer puts the writer to sleep.                                        *)
RingWrite ==
  /\ wpc = "ring"
  /\ IF HasRoom
       THEN /\ \E b \in Bytes : buf' = Append(buf, b)
            /\ rpc' = Wake(rpc, "ring")
            /\ spc' = Alert(spc)
            /\ wpc' = "check"
            /\ written' = written + 1
       ELSE /\ wpc' = "sleep"
            /\ UNCHANGED <<buf, rpc, spc, written>>
  /\ UNCHANGED <<read_closed, write_closed, rsize, rread, rcalls, wsize, wcalls>>

(* close_write_pipe: the interrupt makes a reader asleep in               *)
(* ring_buffer_read return 0 to its loop, which then sees end of file;    *)
(* select waiters are alerted when nothing is left to read.               *)
CloseWrite ==
  /\ wpc = "idle"
  /\ wpc' = "closed" /\ write_closed' = TRUE
  /\ rpc' = IF read_closed THEN rpc ELSE Wake(rpc, "check")
  /\ spc' = IF ~read_closed /\ buf = <<>> THEN Alert(spc) ELSE spc
  /\ UNCHANGED <<buf, read_closed, rsize, rread, rcalls, wsize, written, wcalls>>

-----------------------------------------------------------------------------
(* A thread selecting on the read end. *)

(* check_pipe: 0 (ready) when there is data or the write end is closed.   *)
CheckPipe == IF buf # <<>> \/ write_closed THEN 0 ELSE 1

(* The selectcheck call of a select on the read end: check_pipe. *)
SelectCheck ==
  /\ spc = "idle" /\ ~read_closed
  /\ spc' = IF CheckPipe = 0 THEN "ready" ELSE "checked"
  /\ UNCHANGED <<buf, read_closed, write_closed, rpc, rsize, rread, rcalls,
                 wpc, wsize, written, wcalls>>

(* The selectwait call after check_pipe said not ready: wait_pipe puts    *)
(* the thread on the ring's alert list, with no second check and no lock  *)
(* held since check_pipe.                                                  *)
SelectWait ==
  /\ spc = "checked" /\ spc' = "wait"
  /\ UNCHANGED <<buf, read_closed, write_closed, rpc, rsize, rread, rcalls,
                 wpc, wsize, written, wcalls>>

(* The selecting thread goes on and selects again later. *)
SelectReturn ==
  /\ spc = "ready" /\ spc' = "idle"
  /\ UNCHANGED <<buf, read_closed, write_closed, rpc, rsize, rread, rcalls,
                 wpc, wsize, written, wcalls>>

-----------------------------------------------------------------------------

Reader == (\E n \in Sizes : ReadCall(n)) \/ ReadCheck \/ RingRead \/ CloseRead
Writer == (\E n \in Sizes : WriteCall(n)) \/ WriteCheck \/ RingWrite \/ CloseWrite

Next == Reader \/ Writer \/ SelectCheck \/ SelectWait \/ SelectReturn

(* Both threads are scheduled fairly; a sleeping thread is not enabled.   *)
Spec == Init /\ [][Next]_vars /\ WF_vars(Reader) /\ WF_vars(Writer)

-----------------------------------------------------------------------------
(* Properties. *)

(* The pipe as its ends see it: the ring buffer is the stream, a thread  *)
(* inside read_unixpipe or write_unixpipe is busy, and a call has size   *)
(* minus the bytes it moved left to do.                                  *)
Call(pc) == IF pc \in {"check", "ring", "sleep"} THEN "busy" ELSE pc

Channel == INSTANCE PipeChannel WITH
  stream <- buf, reader <- Call(rpc), rleft <- rsize - rread,
  writer <- Call(wpc), wleft <- wsize - written

(* read_unixpipe and write_unixpipe implement the pipe: bytes come out in *)
(* the order they went in, a read returns short only after a '\n' or at   *)
(* end of file, and a write returns short only once the read end closed.  *)
ImplementsChannel == Channel!SafeSpec

(* A thread waiting in select on the read end never waits on a pipe that *)
(* check_pipe would report ready: ring_buffer_write alerts the waiters,   *)
(* and close_write_pipe alerts them when it leaves nothing to read.       *)
SelectWaitJustified == spc = "wait" => CheckPipe = 1

(* Every read and every write call returns: close_read_pipe and           *)
(* close_write_pipe interrupt the ring buffer so that the other end's     *)
(* blocked call sees the close.                                            *)
CallsReturn ==
  /\ rpc \in {"check", "ring", "sleep"} ~> rpc = "idle"
  /\ wpc \in {"check", "ring", "sleep"} ~> wpc = "idle"

=============================================================================
