----------------------------- MODULE MCTransmit -----------------------------
(* Small instances of Transmit for TLC. *)
EXTENDS Transmit
=============================================================================
