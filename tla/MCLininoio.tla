----------------------------- MODULE MCLininoio -----------------------------
(* Instances of Lininoio for TLC.                                          *)
EXTENDS Lininoio
=============================================================================
