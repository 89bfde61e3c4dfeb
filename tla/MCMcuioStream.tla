--------------------------- MODULE MCMcuioStream ---------------------------
(* Small instances of McuioStream for TLC.                                 *)
EXTENDS McuioStream
=============================================================================
