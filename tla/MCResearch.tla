----------------------------- MODULE MCResearch -----------------------------
(* The research on small inputs: three events of a search, which a tool    *)
(* scores from three, two or one on, six results of a walk-forward with    *)
(* two folds and an embargo of one day, six bars, four days of two         *)
(* symbols, four minutes of which two are replayed, two tickers of which   *)
(* one is enriched, three polls, four pairs in two bins.                   *)
EXTENDS Research

MCDepth == [search |-> 3, folds |-> 6, fade |-> 6, universe |-> 4,
            minutes |-> 4, scan |-> 2, polls |-> 3, screen |-> 4]

=============================================================================
