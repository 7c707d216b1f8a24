--------------------------- MODULE MCSocketWriter ---------------------------
(* Buffers of four units with the mark at two: a message of one unit and   *)
(* one that takes most of a buffer.                                        *)
EXTENDS SocketWriter

MCSizes == {1, 3}
=============================================================================
