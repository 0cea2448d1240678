---------------------------- MODULE MCPortfolio -----------------------------
(* Portfolio for TLC.                                                      *)
EXTENDS Portfolio

MCMoves == {-6, 6}

=============================================================================
