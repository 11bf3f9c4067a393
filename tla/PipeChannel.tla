------------------------------ MODULE PipeChannel ------------------------------
(***************************************************************************)
(* What a pipe promises its two ends, one call at a time: the bytes       *)
(* written come out in order, each once; a read returns when it has size  *)
(* bytes, right after a '\n', or at end of file (the write end closed and *)
(* nothing left); a write returns when all its bytes are in, or once the  *)
(* read end is closed. How many bytes the pipe holds is not part of it.   *)
(***************************************************************************)
EXTENDS Naturals, Sequences

CONSTANTS Data, NL, Sizes

Bytes == Data \cup {NL}

VARIABLES
  stream,         \* the bytes written and not yet read
  read_closed, write_closed,
  reader,         \* "idle", "busy" (in a read call) or "closed"
  rleft,          \* the bytes the reader's call still wants
  writer,         \* "idle", "busy" or "closed"
  wleft           \* the bytes the writer's call still has to put

avars == <<stream, read_closed, write_closed, reader, rleft, writer, wleft>>

Init ==
  /\ stream = <<>>
  /\ read_closed = FALSE /\ write_closed = FALSE
  /\ reader = "idle" /\ writer = "idle"
  /\ rleft = 0 /\ wleft = 0

BeginRead(n) ==
  /\ reader = "idle" /\ reader' = "busy" /\ rleft' = n
  /\ UNCHANGED <<stream, read_closed, write_closed, writer, wleft>>

(* The reader takes the oldest byte; a '\n' ends its call. *)
Get ==
  /\ reader = "busy" /\ rleft > 0 /\ stream # <<>>
  /\ stream' = Tail(stream)
  /\ rleft' = rleft - 1
  /\ reader' = IF Head(stream) = NL THEN "idle" ELSE "busy"
  /\ UNCHANGED <<read_closed, write_closed, writer, wleft>>

EndRead ==
  /\ reader = "busy"
  /\ rleft = 0 \/ (write_closed /\ stream = <<>>)
  /\ reader' = "idle"
  /\ UNCHANGED <<stream, read_closed, write_closed, rleft, writer, wleft>>

CloseRead ==
  /\ reader = "idle" /\ reader' = "closed" /\ read_closed' = TRUE
  /\ UNCHANGED <<stream, write_closed, rleft, writer, wleft>>

BeginWrite(n) ==
  /\ writer = "idle" /\ writer' = "busy" /\ wleft' = n
  /\ UNCHANGED <<stream, read_closed, write_closed, reader, rleft>>

Put ==
  /\ writer = "busy" /\ wleft > 0
  /\ \E b \in Bytes : stream' = Append(stream, b)
  /\ wleft' = wleft - 1
  /\ UNCHANGED <<read_closed, write_closed, reader, rleft, writer>>

EndWrite ==
  /\ writer = "busy"
  /\ wleft = 0 \/ read_closed
  /\ writer' = "idle"
  /\ UNCHANGED <<stream, read_closed, write_closed, reader, rleft, wleft>>

CloseWrite ==
  /\ writer = "idle" /\ writer' = "closed" /\ write_closed' = TRUE
  /\ UNCHANGED <<stream, read_closed, reader, rleft, wleft>>

Next ==
  \/ \E n \in Sizes : BeginRead(n) \/ BeginWrite(n)
  \/ Get \/ EndRead \/ CloseRead \/ Put \/ EndWrite \/ CloseWrite

SafeSpec == Init /\ [][Next]_avars

=============================================================================
