------------------------------- MODULE MCUart -------------------------------
(* A few bytes on a short line.                                            *)
EXTENDS Uart
=============================================================================
