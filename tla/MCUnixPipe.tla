------------------------------ MODULE MCUnixPipe ------------------------------
(***************************************************************************)
(* A pipe of two bytes between a reader and a writer that make two calls  *)
(* of one or two bytes each, with one ordinary byte and '\n'.              *)
(***************************************************************************)
EXTENDS UnixPipe

CONSTANTS a, nl

MCData == {a}
MCCapacity == 2
MCSizes == {1, 2}
MCCalls == 2

=============================================================================
