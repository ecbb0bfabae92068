--------------------------- MODULE MCUartTransfer ---------------------------
(***************************************************************************)
(* A file for root, and one for the child that it starts.                  *)
(***************************************************************************)
EXTENDS UartTransfer

MCPrograms == <<"root", "child">>
MCSizes == <<6, 5>>
=============================================================================
