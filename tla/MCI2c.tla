------------------------------- MODULE MCI2c -------------------------------
(* Small instances of I2c for TLC.                                         *)
EXTENDS I2c
=============================================================================
