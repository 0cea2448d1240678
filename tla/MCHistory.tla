----------------------------- MODULE MCHistory ------------------------------
(* History for TLC: a path with two sets of parameters, one of them the    *)
(* provider's to remember, asked for by two runs.                          *)
EXTENDS History

MCSeries  == [path |-> "range", params |-> "adjusted"]
MCRequests == {MCSeries, [path |-> "range", params |-> "split"]}
MCPartial == {MCSeries}
MCRemembered == {MCSeries}

=============================================================================
