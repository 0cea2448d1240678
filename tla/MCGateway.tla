----------------------------- MODULE MCGateway ------------------------------
(* Gateway for TLC: a search that finds the listing, one that does not.    *)
EXTENDS Gateway

MCSearches ==
  {<<[conid |-> 1, stock |-> TRUE, currency |-> "MXN", venue |-> "BMV"],
     [conid |-> 2, stock |-> TRUE, currency |-> "", venue |-> "US"]>>,
   <<[conid |-> 1, stock |-> TRUE, currency |-> "MXN", venue |-> "BMV"]>>}

=============================================================================
