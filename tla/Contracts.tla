----------------------------- MODULE Contracts -----------------------------
(***************************************************************************)
(* How broker/cp/client.py chooses a contract among the listings that a    *)
(* search for a symbol returns.  A listing is [conid, stock, currency,     *)
(* venue]: whether it or a section of it has the type that is wanted, and  *)
(* "USD" or "US" where they are what is wanted, "" where the gateway says  *)
(* nothing, and anything else.                                             *)
(***************************************************************************)
EXTENDS Integers, Sequences, FiniteSets

NoConid == 0

Listing == [conid : Nat \ {NoConid}, stock : BOOLEAN, currency : STRING,
            venue : STRING]

(* Not of another currency, nor, when no currency is given, of a venue     *)
(* that is known not to be in the US.                                      *)
Eligible(row) ==
  /\ row.stock
  /\ row.currency \in {"USD", ""}
  /\ row.currency = "USD" \/ row.venue \in {"US", ""}

Rank(row) == (IF row.currency = "USD" THEN 2 ELSE 0)
           + (IF row.venue = "US" THEN 1 ELSE 0)

(* The best rank, the first of equals.                                     *)
ResolveConid(rows) ==
  LET eligible == {i \in DOMAIN rows : Eligible(rows[i])}
      better(i, j) == \/ Rank(rows[i]) > Rank(rows[j])
                      \/ Rank(rows[i]) = Rank(rows[j]) /\ i <= j
  IN IF eligible = {} THEN NoConid
     ELSE rows[CHOOSE i \in eligible : \A j \in eligible : better(i, j)].conid

=============================================================================
