----------------------------- MODULE MCSerialTc -----------------------------
(* Three telecommands, the first one long enough for its middle to be all that *)
(* is left of it.                                                              *)
EXTENDS SerialTc

MCSize == <<3, 1, 1>>
=============================================================================
