------------------------------ MODULE Gateway ------------------------------
(***************************************************************************)
(* The client of the IBKR Client Portal gateway (broker/cp/client.py and   *)
(* gateway.py) as the server uses it: the keepalive task, the account, the *)
(* placement of an order through the broker's warnings, and the portfolio  *)
(* page, each a coroutine that the others run between the awaits of.       *)
(* The gateway and the broker are modelled from what the code expects.     *)
(***************************************************************************)
EXTENDS Contracts

CONSTANTS
  Accounts,     \* accounts a login can be for
  Configured,   \* the account in the configuration, or NoAccount
  NoAccount,
  Searches,     \* what a search for the symbol may return
  MaxLoops,     \* _MAX_REPLY_LOOPS
  Interval,     \* ticks between two tickles
  CallTime,     \* ticks after which a tickle has timed out
  Expiry,       \* ticks without a tickle after which a session is over
  MaxPlaced,    \* bound: placements
  MaxFaults     \* bound: failed or lost requests, logins

ASSUME GatewayAssumption ==
  /\ Configured \in Accounts \cup {NoAccount} /\ NoAccount \notin Accounts
  /\ {MaxLoops, Interval, CallTime, Expiry} \subseteq Nat \ {0}
  /\ {MaxPlaced, MaxFaults} \subseteq Nat
  /\ Searches \subseteq Seq(Listing)

VARIABLES
  session,  \* the gateway's: "out", "in", "competing"
  login,    \* the account it is logged in for
  quiet,    \* ticks since it last saw a tickle
  order,    \* the broker's order: "none", "pending", "working", "dead"
  account,  \* account_id of the client
  conid,    \* the client's cached contract of the symbol
  walk,     \* the placement: [at, account, loops]
  page,     \* the portfolio page: [at, account]
  alive,    \* the keepalive task: [at, left]
  stamp,    \* ticks since last_tickle_at
  missed,   \* history: tickles in a row that failed
  lost,     \* history: a reply of this placement was lost
  moved,    \* history: another login while an account was being resolved
  placed, faults

gateway == <<session, login, quiet>>
task    == <<alive, stamp, missed>>
sending == <<order, walk, conid, lost, placed>>
vars == <<gateway, task, sending, account, page, moved, faults>>

MaxQuiet == (MaxFaults + 2) * (Interval + CallTime) + 1

Init ==
  /\ session = "out" /\ quiet = 0
  /\ login \in Accounts
  /\ order = "none"
  /\ account = Configured
  /\ conid = NoConid
  /\ walk = [at |-> "idle", account |-> NoAccount, loops |-> 0]
  /\ page = [at |-> "idle", account |-> NoAccount]
  /\ alive = [at |-> "call", left |-> CallTime]
  /\ stamp = MaxQuiet
  /\ missed = 0 /\ lost = FALSE /\ moved = FALSE
  /\ placed = 0 /\ faults = 0

-----------------------------------------------------------------------------
(* The gateway.  A competing login elsewhere takes the session; a login    *)
(* here, for any account, takes it back.                                   *)
Fault == faults < MaxFaults /\ faults' = faults + 1

Resolving == "resolve" \in {walk.at, page.at}

Login ==
  /\ session # "in"
  /\ session' = "in" /\ login' \in Accounts
  /\ moved' = (moved \/ (Resolving /\ login' # login))
  /\ UNCHANGED <<quiet, task, sending, account, page, faults>>

Competes ==
  /\ Fault
  /\ session = "in" /\ session' = "competing"
  /\ UNCHANGED <<login, quiet, task, sending, account, page, moved>>

Expires ==
  /\ session = "in" /\ quiet >= Expiry
  /\ session' = "out"
  /\ UNCHANGED <<login, quiet, task, sending, account, page, moved, faults>>

(* What _ensure_authenticated finds, and any request at all needs.         *)
Authenticated == session = "in"

(* A request that is not carried out.                                      *)
Refused == \/ ~Authenticated /\ UNCHANGED faults
           \/ Authenticated /\ Fault

-----------------------------------------------------------------------------
(* keepalive_loop.                                                         *)

(* Mutant: an error ends the loop.                                         *)
EndLoop == [at |-> "ended", left |-> 0]

(* Errors are logged; the loop sleeps and goes on.                         *)
AfterError == [at |-> "sleep", left |-> Interval]

Later(n) == IF n < MaxQuiet THEN n + 1 ELSE n

Wake ==
  /\ alive = [at |-> "sleep", left |-> 0]
  /\ alive' = [at |-> "call", left |-> CallTime]
  /\ UNCHANGED <<gateway, stamp, missed, sending, account, page, moved, faults>>

StampAfterError == stamp

Tickle ==
  /\ alive.at = "call"
  /\ \/ /\ quiet' = 0 /\ stamp' = 0 /\ missed' = 0
        /\ alive' = [at |-> "sleep", left |-> Interval]
        /\ UNCHANGED faults
     \/ /\ Fault
        /\ quiet' \in {0, quiet}
        /\ missed' = missed + 1
        /\ stamp' = StampAfterError
        /\ alive' = AfterError
  /\ UNCHANGED <<session, login, sending, account, page, moved>>

(* Time: the event loop is prompt, and a call has timed out in its time.   *)
Tick ==
  /\ alive.left > 0 \/ alive.at = "ended"
  /\ alive' = IF alive.left > 0 THEN [alive EXCEPT !.left = @ - 1] ELSE alive
  /\ quiet' = Later(quiet)
  /\ stamp' = Later(stamp)
  /\ UNCHANGED <<session, login, missed, sending, account, page, moved, faults>>

-----------------------------------------------------------------------------
(* The account: the client's, else the first that the gateway reports.     *)

(* Mutant: the account is not kept.                                        *)
Forget(a) == account

Keep(a) == a

(* resolve_account_id of one coroutine; without accounts it raises.        *)
ResolveTo(a) ==
  /\ Authenticated /\ a = login
  /\ account' = Keep(a)

-----------------------------------------------------------------------------
(* The placement of one order: account, contract, session, and the walk    *)
(* through the broker's warnings.                                          *)

Goto(at) == walk' = [walk EXCEPT !.at = at]

Place ==
  /\ walk.at \in {"idle", "returned", "halted", "raised"} /\ placed < MaxPlaced
  /\ placed' = placed + 1
  /\ order' = "none" /\ lost' = FALSE
  /\ walk' = [at |-> IF account # NoAccount THEN "conid" ELSE "resolve",
              account |-> account, loops |-> 0]
  /\ UNCHANGED <<gateway, task, account, conid, page, moved, faults>>

PlaceResolve ==
  /\ walk.at = "resolve"
  /\ \E a \in Accounts :
       ResolveTo(a) /\ walk' = [walk EXCEPT !.at = "conid", !.account = a]
  /\ UNCHANGED <<gateway, task, order, conid, lost, placed, page, moved, faults>>

PlaceRaises ==
  /\ walk.at = "resolve" /\ Refused
  /\ Goto("raised")
  /\ UNCHANGED <<gateway, task, order, conid, lost, placed, account, page, moved>>

Found(c) == IF c = NoConid THEN "raised" ELSE "auth"

(* resolve_conid: the cache first; a search that fails, or finds no        *)
(* contract, is an error.                                                  *)
PlaceConid ==
  /\ walk.at = "conid"
  /\ \/ /\ conid # NoConid
        /\ Goto("auth")
        /\ UNCHANGED <<conid, faults>>
     \/ /\ conid = NoConid /\ Authenticated
        /\ \E rows \in Searches :
             /\ conid' = ResolveConid(rows)
             /\ Goto(Found(conid'))
        /\ UNCHANGED faults
     \/ /\ conid = NoConid /\ Refused
        /\ Goto("raised")
        /\ UNCHANGED conid
  /\ UNCHANGED <<gateway, task, order, lost, placed, account, page, moved>>

PlaceAuth ==
  /\ walk.at = "auth"
  /\ Goto(IF Authenticated THEN "post" ELSE "raised")
  /\ UNCHANGED <<gateway, task, order, conid, lost, placed, account, page, moved,
                 faults>>

(* What the broker may answer to an order or a confirmation: the rows of   *)
(* accepted orders, an object with an order or an error, or a warning,     *)
(* whose first message is on the allowlist or not.                         *)
Answers ==
  [kind : {"rows"}, state : {"working"}]
  \cup [kind : {"object"}, state : {"working", "dead"}]
  \cup [kind : {"listed", "unlisted"}, state : {"pending"}]

(* Mutant: after the last round, what there is is returned.                *)
GiveBack(answer, loops) ==
  IF loops = MaxLoops \/ answer.kind \in {"rows", "object"} THEN "returned"
  ELSE IF answer.kind = "listed" THEN "confirm" ELSE "halted"

(* The head of the loop: the answer to the last confirmation is not looked *)
(* at any more.                                                            *)
Judge(answer, loops) ==
  CASE loops = MaxLoops -> "halted"
    [] loops < MaxLoops /\ answer.kind \in {"rows", "object"} -> "returned"
    [] loops < MaxLoops /\ answer.kind = "unlisted" -> "halted"
    [] loops < MaxLoops /\ answer.kind = "listed" -> "confirm"

(* A request of the walk: not carried out, or answered, or carried out and *)
(* its reply lost.                                                         *)
Request(loops) ==
  /\ \/ /\ Refused
        /\ Goto("raised")
        /\ UNCHANGED <<order, lost>>
     \/ /\ Authenticated
        /\ \E answer \in Answers :
             /\ order' = answer.state
             /\ \/ /\ walk' = [walk EXCEPT !.at = Judge(answer, loops),
                                           !.loops = loops]
                   /\ UNCHANGED <<lost, faults>>
                \/ /\ Fault
                   /\ Goto("raised")
                   /\ lost' = TRUE
  /\ UNCHANGED <<gateway, task, conid, placed, account, page, moved>>

Post    == walk.at = "post" /\ Request(0)
Confirm == walk.at = "confirm" /\ Request(walk.loops + 1)

-----------------------------------------------------------------------------
(* The portfolio page: the account, its summary with the ledger, and its   *)
(* positions, each asked for with a session; any error is the answer.      *)
Page ==
  /\ page.at \in {"idle", "shown", "error"}
  /\ page' = [at |-> IF account # NoAccount THEN "summary" ELSE "resolve",
              account |-> account]
  /\ UNCHANGED <<gateway, task, sending, account, moved, faults>>

PageResolve ==
  /\ page.at = "resolve"
  /\ \/ /\ \E a \in Accounts :
             ResolveTo(a) /\ page' = [at |-> "summary", account |-> a]
        /\ UNCHANGED faults
     \/ /\ Refused
        /\ page' = [page EXCEPT !.at = "error"]
        /\ UNCHANGED account
  /\ UNCHANGED <<gateway, task, sending, moved>>

(* The gateway answers for the account it is logged in for.                *)
PageRead ==
  LET answered == Authenticated /\ login = page.account
      next     == IF page.at = "summary" THEN "positions" ELSE "shown"
  IN /\ page.at \in {"summary", "positions"}
     /\ page' = [page EXCEPT !.at = IF answered THEN next ELSE "error"]
     /\ UNCHANGED <<gateway, task, sending, account, moved, faults>>

-----------------------------------------------------------------------------
Next ==
  \/ Login \/ Competes \/ Expires
  \/ Wake \/ Tickle \/ Tick
  \/ Place \/ PlaceResolve \/ PlaceRaises \/ PlaceConid \/ PlaceAuth
  \/ Post \/ Confirm
  \/ Page \/ PageResolve \/ PageRead

Spec == Init /\ [][Next]_vars

-----------------------------------------------------------------------------
(* Types of the coroutines' and the gateway's state.                       *)
TypeOK ==
  /\ session \in {"out", "in", "competing"} /\ login \in Accounts
  /\ order \in {"none", "pending", "working", "dead"}
  /\ account \in Accounts \cup {NoAccount}
  /\ walk.at \in {"idle", "resolve", "conid", "auth", "post", "confirm",
                  "returned", "halted", "raised"}
  /\ walk.loops \in 0 .. MaxLoops
  /\ walk.at \in {"auth", "post", "confirm"} => conid # NoConid
  /\ page.at \in {"idle", "resolve", "summary", "positions", "shown", "error"}
  /\ {quiet, stamp} \subseteq 0 .. MaxQuiet
  /\ alive.left \in 0 .. Interval + CallTime

(* What the walk reports is true of the broker's order, as far as it can   *)
(* be: returned, it is decided; halted, it is not there, unless in the     *)
(* last round, whose outcome nobody looks at; and an error leaves it       *)
(* working only where a reply was lost.                                    *)
WalkTellsTruth ==
  /\ walk.at = "returned" => order \in {"working", "dead"}
  /\ walk.at = "halted" => order = "pending" \/ walk.loops = MaxLoops
  /\ walk.at = "raised" /\ order = "working" => lost

(* Whatever the page's requests and the placement do in between, both work *)
(* on the client's account, which stays the same, unless the gateway was   *)
(* logged in for another one while an account was being resolved.          *)
OneAccount ==
  /\ TypeOK
  /\ ~moved =>
    /\ walk.at \in {"conid", "auth", "post", "confirm"} => walk.account = account
    /\ page.at \in {"summary", "positions", "shown"} => page.account = account

(* A session never goes without a tickle for longer than the failures in a *)
(* row explain: no error stops the loop; and the banner's last tickle is   *)
(* one that the gateway did see, or earlier than the last that it saw.     *)
KeptAlive ==
  /\ quiet <= (missed + 1) * (Interval + CallTime)
  /\ quiet <= stamp

=============================================================================
