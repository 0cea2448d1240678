----------------------------- MODULE MCLabStore -----------------------------
(* LabStore for TLC: two names, a canonical single-leg strategy in the     *)
(* seed, and a combo, which requests may save and run.                     *)
EXTENDS LabStore

MCEntry == [lead |-> "intraday|trail", combo |-> None]
MCScore == [lead |-> 1, combo |-> 2]
MCCatalogue == << [name |-> 1, cfg |-> "lead", canonical |-> TRUE] >>

=============================================================================
