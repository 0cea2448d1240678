----------------------------- MODULE MCLiveFeed -----------------------------
(* LiveFeed for TLC: pollers are interchangeable.                          *)
EXTENDS LiveFeed, TLC

PollerSymmetry == Permutations(Pollers)

=============================================================================
