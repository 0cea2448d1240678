----------------------------- MODULE IntentFifo -----------------------------
(***************************************************************************)
(* What the transmission of intended orders promises, whatever the broker, *)
(* the gateway, the journal or the process do: an intended event reaches   *)
(* the broker at most once, and never after a later one.  Events are       *)
(* numbered in the order the engine produced them.  Any of them may be     *)
(* dropped; none that was dropped or sent comes back.                      *)
(***************************************************************************)
EXTENDS Naturals

CONSTANT Last   \* the number of the last event

VARIABLE fate   \* per event: unborn, waiting, sent or dropped

Numbers == 1 .. Last

Fates == {"unborn", "waiting", "sent", "dropped"}

Waiting == {i \in Numbers : fate[i] = "waiting"}

Init == fate = [i \in Numbers |-> "unborn"]

(* The engine produces the next event.                                     *)
Issue ==
  \E i \in Numbers :
    /\ fate[i] = "unborn"
    /\ \A j \in 1 .. i - 1 : fate[j] # "unborn"
    /\ fate' = [fate EXCEPT ![i] = "waiting"]

(* The oldest waiting event reaches the broker; others may be lost on the  *)
(* way.                                                                    *)
Send ==
  \E i \in Waiting : \E lost \in SUBSET (Waiting \ {i}) :
    /\ \A j \in Waiting : i <= j
    /\ fate' = [j \in Numbers |-> IF j = i THEN "sent"
                                  ELSE IF j \in lost THEN "dropped"
                                  ELSE fate[j]]

Drop ==
  \E lost \in SUBSET Waiting :
    fate' = [j \in Numbers |-> IF j \in lost THEN "dropped" ELSE fate[j]]

Next == Issue \/ Send \/ Drop

Spec == Init /\ [][Next]_fate

=============================================================================
