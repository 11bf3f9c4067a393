---------------------------- MODULE UnixPipeProofs ----------------------------
(***************************************************************************)
(* Proofs about UnixPipe for every capacity, byte set, call sizes and      *)
(* number of calls: type correctness, and that the pipe implements        *)
(* PipeChannel.                                                            *)
(***************************************************************************)
EXTENDS UnixPipe, TLAPS

(* A thread between the loop test of read_unixpipe (write_unixpipe) and   *)
(* the return of its ring buffer call still has a byte to move: the test  *)
(* `read < size` holds across the call even when the thread sleeps in it. *)
PipeInv ==
  /\ TypeOK
  /\ rread <= rsize /\ written <= wsize
  /\ rpc \in {"ring", "sleep"} => rread < rsize
  /\ wpc \in {"ring", "sleep"} => written < wsize

(* A sleeper woken by a ring call or an interrupt stays inside its call. *)
LEMMA WakeKeepsCall ==
  ASSUME NEW pc \in Pcs, NEW to \in {"check", "ring"}
  PROVE  /\ Call(Wake(pc, to)) = Call(pc)
         /\ Wake(pc, to) \in Pcs
         /\ Wake(pc, to) \in {"ring", "sleep"} => pc \in {"ring", "sleep"}
BY DEF Call, Wake, Pcs

(* The pipe starts in a state of the invariant. *)
LEMMA InitInv == Init => PipeInv
<1> SUFFICES ASSUME Init PROVE PipeInv
  OBVIOUS
<1>1. buf \in Seq(Bytes) /\ Len(buf) <= Capacity
  BY PipeAssumption DEF Init
<1>2. rcalls \in 0 .. Calls /\ wcalls \in 0 .. Calls
  BY PipeAssumption DEF Init
<1>3. /\ read_closed \in BOOLEAN /\ write_closed \in BOOLEAN
      /\ rpc \in Pcs /\ wpc \in Pcs
      /\ rsize \in Nat /\ rread \in Nat /\ wsize \in Nat /\ written \in Nat
      /\ spc \in {"idle", "checked", "wait", "ready"}
  BY DEF Init, Pcs
<1>4. TypeOK
  BY <1>1, <1>2, <1>3 DEF TypeOK
<1>5. QED
  BY <1>4 DEF Init, PipeInv

(* Every step of the reader, the writer and the selector keeps PipeInv:   *)
(* a thread enters its ring call only when the loop test holds, and each  *)
(* byte it moves is one the call still had to move.                       *)
LEMMA NextInv == PipeInv /\ [Next]_vars => PipeInv'
<1> SUFFICES ASSUME PipeInv, [Next]_vars PROVE PipeInv'
  OBVIOUS
<1> USE PipeAssumption DEF PipeInv, TypeOK
<1>1. ASSUME NEW n \in Sizes, ReadCall(n) PROVE PipeInv'
  BY <1>1 DEF ReadCall, Pcs
<1>2. CASE ReadCheck
  BY <1>2 DEF ReadCheck, Eof, Pcs
<1>3. CASE RingRead
  <2>1. CASE buf # <<>>
    <3>1. buf' = Tail(buf) /\ rread' = rread + 1 /\ rpc' \in {"idle", "check"}
          /\ wpc' = Wake(wpc, "ring")
          /\ UNCHANGED <<read_closed, write_closed, rsize, rcalls, wsize, written, wcalls, spc>>
      BY <1>3, <2>1 DEF RingRead
    <3>2. buf' \in Seq(Bytes) /\ Len(buf') <= Capacity
      BY <2>1, <3>1
    <3>3. rread' <= rsize'
      BY <1>3, <3>1 DEF RingRead
    <3>4. wpc' \in Pcs /\ (wpc' \in {"ring", "sleep"} => wpc \in {"ring", "sleep"})
      BY <3>1, WakeKeepsCall
    <3>5. QED BY <3>1, <3>2, <3>3, <3>4 DEF Pcs
  <2>2. CASE buf = <<>>
    BY <1>3, <2>2 DEF RingRead, Pcs
  <2>3. QED BY <2>1, <2>2
<1>4. CASE CloseRead
  BY <1>4, WakeKeepsCall DEF CloseRead, Pcs
<1>5. ASSUME NEW n \in Sizes, WriteCall(n) PROVE PipeInv'
  BY <1>5 DEF WriteCall, Pcs
<1>6. CASE WriteCheck
  BY <1>6 DEF WriteCheck, Pcs
<1>7. CASE RingWrite
  <2>1. CASE HasRoom
    BY <1>7, <2>1, WakeKeepsCall DEF RingWrite, HasRoom, Alert, Pcs
  <2>2. CASE ~HasRoom
    BY <1>7, <2>2 DEF RingWrite, Pcs
  <2>3. QED BY <2>1, <2>2
<1>8. CASE CloseWrite
  BY <1>8, WakeKeepsCall DEF CloseWrite, Alert, Pcs
<1>9. CASE SelectCheck \/ SelectWait
  BY <1>9 DEF SelectCheck, SelectWait
<1>10. CASE SelectReturn
  BY <1>10 DEF SelectReturn
<1>11. CASE UNCHANGED vars
  BY <1>11 DEF vars
<1>12. QED
  BY <1>1, <1>2, <1>3, <1>4, <1>5, <1>6, <1>7, <1>8, <1>9, <1>10, <1>11
     DEF Next, Reader, Writer

(* PipeInv holds in every reachable state of the pipe. *)
THEOREM PipeInvariant == Spec => []PipeInv
BY InitInv, NextInv, PTL DEF Spec

(* Every variable of the pipe keeps its type whatever the two ends and a *)
(* selecting thread do: in particular the ring buffer never holds more    *)
(* than its capacity, since ring_buffer_write puts a byte only into room. *)
THEOREM PipeTypeCorrect == Spec => []TypeOK
<1>1. PipeInv => TypeOK
  BY DEF PipeInv
<1>2. QED BY <1>1, PipeInvariant, PTL

-----------------------------------------------------------------------------
(* The refinement. *)

(* Every step of the pipe, from a state of PipeInv, is a step of          *)
(* PipeChannel or leaves the channel's view unchanged: a call and its     *)
(* first loop test begin a call, each byte moved is a Get or a Put, and a *)
(* failing loop test ends the call.                                        *)
LEMMA StepRefines == PipeInv /\ [Next]_vars => [Channel!Next]_Channel!avars
<1> SUFFICES ASSUME PipeInv, [Next]_vars PROVE [Channel!Next]_Channel!avars
  OBVIOUS
<1> USE PipeAssumption DEF PipeInv, TypeOK
<1>1. ASSUME NEW n \in Sizes, ReadCall(n) PROVE Channel!BeginRead(n)
  BY <1>1 DEF ReadCall, Channel!BeginRead, Call
<1>2. CASE ReadCheck
  <2>1. CASE rread >= rsize \/ Eof
    <3>1. Channel!EndRead
      BY <1>2, <2>1 DEF ReadCheck, Eof, Channel!EndRead, Call
    <3>2. QED BY <3>1 DEF Channel!Next
  <2>2. CASE ~(rread >= rsize \/ Eof)
    BY <1>2, <2>2 DEF ReadCheck, Channel!avars, Call
  <2>3. QED BY <2>1, <2>2
<1>3. CASE RingRead
  <2>1. CASE buf # <<>>
    <3>1. Call(wpc') = Call(wpc)
      BY <1>3, <2>1, WakeKeepsCall DEF RingRead
    <3>2. Channel!Get
      BY <1>3, <2>1, <3>1 DEF RingRead, Channel!Get, Call
    <3>3. QED BY <3>2 DEF Channel!Next
  <2>2. CASE buf = <<>>
    BY <1>3, <2>2 DEF RingRead, Channel!avars, Call
  <2>3. QED BY <2>1, <2>2
<1>4. CASE CloseRead
  <2>1. Call(wpc') = Call(wpc)
    BY <1>4, WakeKeepsCall DEF CloseRead
  <2>2. Channel!CloseRead
    BY <1>4, <2>1 DEF CloseRead, Channel!CloseRead, Call
  <2>3. QED BY <2>2 DEF Channel!Next
<1>5. ASSUME NEW n \in Sizes, WriteCall(n) PROVE Channel!BeginWrite(n)
  BY <1>5 DEF WriteCall, Channel!BeginWrite, Call
<1>6. CASE WriteCheck
  <2>1. CASE written >= wsize \/ read_closed
    <3>1. Channel!EndWrite
      BY <1>6, <2>1 DEF WriteCheck, Channel!EndWrite, Call
    <3>2. QED BY <3>1 DEF Channel!Next
  <2>2. CASE ~(written >= wsize \/ read_closed)
    BY <1>6, <2>2 DEF WriteCheck, Channel!avars, Call
  <2>3. QED BY <2>1, <2>2
<1>7. CASE RingWrite
  <2>1. CASE HasRoom
    <3>1. Call(rpc') = Call(rpc)
      BY <1>7, <2>1, WakeKeepsCall DEF RingWrite
    <3>2. Channel!Put
      BY <1>7, <2>1, <3>1 DEF RingWrite, Channel!Put, Channel!Bytes, Bytes, Call
    <3>3. QED BY <3>2 DEF Channel!Next
  <2>2. CASE ~HasRoom
    BY <1>7, <2>2 DEF RingWrite, Channel!avars, Call
  <2>3. QED BY <2>1, <2>2
<1>8. CASE CloseWrite
  <2>1. Call(rpc') = Call(rpc)
    BY <1>8, WakeKeepsCall DEF CloseWrite
  <2>2. Channel!CloseWrite
    BY <1>8, <2>1 DEF CloseWrite, Channel!CloseWrite, Call
  <2>3. QED BY <2>2 DEF Channel!Next
<1>9. CASE SelectCheck \/ SelectWait \/ SelectReturn \/ UNCHANGED vars
  BY <1>9 DEF SelectCheck, SelectWait, SelectReturn, vars, Channel!avars
<1>10. QED
  BY <1>1, <1>2, <1>3, <1>4, <1>5, <1>6, <1>7, <1>8, <1>9
     DEF Next, Reader, Writer, Channel!Next

(* read_unixpipe and write_unixpipe implement the pipe of PipeChannel for *)
(* every capacity of the ring buffer, byte set and call sizes: bytes come *)
(* out in the order they went in, a read returns short only after a '\n'  *)
(* or at end of file, a write short only once the read end closed.        *)
THEOREM PipeImplementsChannel == Spec => ImplementsChannel
<1>1. Init => Channel!Init
  BY DEF Init, Channel!Init, Call
<1>2. QED
  BY <1>1, InitInv, NextInv, StepRefines, PTL
     DEF Spec, ImplementsChannel, Channel!SafeSpec

=============================================================================
