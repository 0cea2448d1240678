--------------------------- MODULE Gateway_proofs ---------------------------
(***************************************************************************)
(* Proofs of the properties of Gateway, for every number of accounts, of   *)
(* rounds of the broker's warnings, of ticks and of faults.                *)
(***************************************************************************)
EXTENDS Gateway, WellFoundedInduction, TLAPS

WalkAt == {"idle", "resolve", "conid", "auth", "post", "confirm", "returned",
           "halted", "raised"}
PageAt == {"idle", "resolve", "summary", "positions", "shown", "error"}
Held   == Accounts \cup {NoAccount}

(* TypeOK, with the shape of the records; and a confirmation is asked for  *)
(* only while rounds are left.                                             *)
TypeInv ==
  /\ session \in {"out", "in", "competing"} /\ login \in Accounts
  /\ order \in {"none", "pending", "working", "dead"}
  /\ account \in Held
  /\ walk \in [at : WalkAt, account : Held, loops : 0 .. MaxLoops]
  /\ page \in [at : PageAt, account : Held]
  /\ alive \in [at : {"sleep", "call"}, left : 0 .. Interval + CallTime]
  /\ quiet \in 0 .. MaxQuiet /\ stamp \in 0 .. MaxQuiet
  /\ missed \in Nat /\ faults \in 0 .. MaxFaults
  /\ walk.at \in {"auth", "post", "confirm"} => conid # NoConid
  /\ walk.at = "confirm" => walk.loops < MaxLoops

(* The order of the walk, in each of its places.                           *)
WalkInv ==
  /\ walk.at \in {"resolve", "conid", "auth", "post"} => order = "none"
  /\ walk.at = "confirm" => order = "pending"
  /\ WalkTellsTruth

(* The account of whoever uses one is the client's; and whoever is still   *)
(* resolving would find it again.                                          *)
AccountInv ==
  ~moved =>
    /\ Resolving /\ account # NoAccount => account = login
    /\ walk.at \in {"conid", "auth", "post", "confirm"} =>
         account # NoAccount /\ walk.account = account
    /\ page.at \in {"summary", "positions", "shown"} =>
         account # NoAccount /\ page.account = account

(* Ticks since the last tickle ended, well or badly.                       *)
Period  == Interval + CallTime
Elapsed == IF alive.at = "sleep" THEN Interval - alive.left
           ELSE Period - alive.left

AliveInv ==
  /\ alive.at = "sleep" => alive.left <= Interval
  /\ alive.at = "call" => alive.left <= CallTime
  /\ quiet <= missed * Period + Elapsed
  /\ quiet <= stamp
  /\ missed <= faults

-----------------------------------------------------------------------------
(* The constants, and the cap on the counters of ticks.                    *)
LEMMA Constants ==
  /\ MaxLoops \in Nat \ {0} /\ Interval \in Nat \ {0} /\ CallTime \in Nat \ {0}
  /\ Expiry \in Nat \ {0} /\ MaxPlaced \in Nat /\ MaxFaults \in Nat
  /\ Configured \in Held /\ NoAccount \notin Accounts
BY GatewayAssumption DEF Held

(* The product of two naturals is one.                                     *)
LEMMA Product == \A m, n \in Nat : m * n \in Nat
OBVIOUS

(* ... and grows with its first factor.                                    *)
LEMMA ProductGrows ==
  ASSUME NEW m \in Nat, NEW n \in Nat, NEW k \in Nat, m <= n
  PROVE  m * k <= n * k
<1>1. PICK d \in Nat : n = m + d
  <2>1. n - m \in Nat /\ n = m + (n - m)
    OBVIOUS
  <2> QED BY <2>1
<1>2. (m + d) * k = m * k + d * k
  OBVIOUS
<1>3. d * k \in Nat /\ m * k \in Nat
  BY Product
<1> QED BY <1>1, <1>2, <1>3

LEMMA Times == MaxQuiet \in Nat /\ MaxQuiet > (MaxFaults + 1) * Period
               /\ Period \in Nat
<1>1. Period \in Nat
  BY Constants DEF Period
<1>2. (MaxFaults + 2) * Period \in Nat /\ (MaxFaults + 1) * Period \in Nat
  BY <1>1, Product, Constants
<1>3. (MaxFaults + 1) * Period <= (MaxFaults + 2) * Period
  BY <1>1, ProductGrows, Constants
<1> QED BY <1>1, <1>2, <1>3 DEF MaxQuiet, Period

(* One more tick, up to the cap.                                           *)
LEMMA LaterIs ==
  ASSUME NEW n \in 0 .. MaxQuiet
  PROVE  /\ Later(n) \in 0 .. MaxQuiet /\ Later(n) <= n + 1 /\ n <= Later(n)
         /\ \A m \in 0 .. MaxQuiet : n <= m => Later(n) <= Later(m)
BY Times DEF Later

(* The head of the loop: where a walk goes with an answer.                 *)
LEMMA JudgeIs ==
  ASSUME NEW answer \in Answers, NEW loops \in 0 .. MaxLoops
  PROVE  /\ Judge(answer, loops) \in {"returned", "halted", "confirm"}
         /\ answer.state \in {"pending", "working", "dead"}
         /\ Judge(answer, loops) = "returned" => answer.state \in {"working", "dead"}
         /\ Judge(answer, loops) = "halted" =>
              answer.state = "pending" \/ loops = MaxLoops
         /\ Judge(answer, loops) = "confirm" =>
              answer.state = "pending" /\ loops < MaxLoops
<1>1. CASE loops = MaxLoops
  BY <1>1, Constants DEF Judge, Answers
<1>2. CASE loops # MaxLoops
  <2>1. loops < MaxLoops
    BY <1>2, Constants
  <2>2. CASE answer.kind \in {"rows", "object"}
    <3>1. Judge(answer, loops) = "returned"
      BY <1>2, <2>1, <2>2 DEF Judge
    <3> QED BY <3>1, <2>2, <1>2 DEF Answers
  <2>3. CASE answer.kind = "unlisted"
    <3>1. Judge(answer, loops) = "halted"
      BY <1>2, <2>1, <2>3 DEF Judge
    <3> QED BY <3>1, <2>3, <1>2 DEF Answers
  <2>4. CASE answer.kind = "listed"
    <3>1. Judge(answer, loops) = "confirm"
      BY <1>2, <2>1, <2>4 DEF Judge
    <3> QED BY <3>1, <2>4, <2>1, <1>2 DEF Answers
  <2> QED BY <2>2, <2>3, <2>4 DEF Answers
<1> QED BY <1>1, <1>2

-----------------------------------------------------------------------------
(* Types.                                                                  *)

(* A request of the walk leaves it well-formed: it is over, or it waits    *)
(* for a confirmation of a round that is left.                             *)
LEMMA RequestTyped ==
  ASSUME TypeInv, NEW loops \in 0 .. MaxLoops, Request(loops),
         walk.at \in {"post", "confirm"}
  PROVE  TypeInv'
<1> USE DEF TypeInv
<1>0. faults' \in 0 .. MaxFaults
  <2>1. faults' = faults \/ Fault
    BY DEF Request, Refused
  <2> QED BY <2>1, Constants DEF Fault
<1>1. UNCHANGED <<session, login, quiet, alive, stamp, missed, account, page,
                  conid>>
  BY DEF Request, gateway, task
<1>2. order' \in {"none", "pending", "working", "dead"}
  BY JudgeIs DEF Request
<1>3. /\ walk' \in [at : WalkAt, account : Held, loops : 0 .. MaxLoops]
      /\ walk'.at = "confirm" => walk'.loops < MaxLoops
      /\ walk'.at \in {"raised", "returned", "halted", "confirm"}
  <2>1. CASE walk' = [walk EXCEPT !.at = "raised"]
    BY <2>1 DEF WalkAt
  <2>2. ASSUME NEW answer \in Answers,
               walk' = [walk EXCEPT !.at = Judge(answer, loops), !.loops = loops]
        PROVE  <1>3
    <3>1. /\ Judge(answer, loops) \in {"returned", "halted", "confirm"}
          /\ Judge(answer, loops) = "confirm" => loops < MaxLoops
      BY JudgeIs
    <3> QED BY <2>2, <3>1 DEF WalkAt
  <2> QED BY <2>1, <2>2 DEF Request, Goto
<1>4. walk'.at \in {"auth", "post", "confirm"} => conid' # NoConid
  BY <1>1
<1> QED BY <1>0, <1>1, <1>2, <1>3, <1>4

LEMMA TypeStep == TypeInv /\ [Next]_vars => TypeInv'
<1> SUFFICES ASSUME TypeInv, [Next]_vars PROVE TypeInv'
  OBVIOUS
<1> USE Constants, Times
<1>1. CASE Login
  BY <1>1 DEF TypeInv, Login, task, sending
<1>2. CASE Competes
  BY <1>2 DEF TypeInv, Competes, Fault, task, sending
<1>3. CASE Expires
  BY <1>3 DEF TypeInv, Expires, task, sending
<1>4. CASE Wake
  BY <1>4 DEF TypeInv, Wake, gateway, sending
<1>5. CASE Tickle
  <2>1. /\ quiet' \in 0 .. MaxQuiet /\ stamp' \in 0 .. MaxQuiet
        /\ missed' \in Nat /\ faults' \in 0 .. MaxFaults
    BY <1>5 DEF TypeInv, Tickle, Fault, StampAfterError
  <2>2. alive' \in [at : {"sleep", "call"}, left : 0 .. Interval + CallTime]
    BY <1>5 DEF Tickle, AfterError
  <2> QED BY <1>5, <2>1, <2>2 DEF TypeInv, Tickle, sending
<1>6. CASE Tick
  <2>1. quiet' \in 0 .. MaxQuiet /\ stamp' \in 0 .. MaxQuiet
    BY <1>6, LaterIs DEF TypeInv, Tick
  <2>2. alive' \in [at : {"sleep", "call"}, left : 0 .. Interval + CallTime]
    <3>1. CASE alive.left > 0
      BY <1>6, <3>1 DEF TypeInv, Tick
    <3>2. CASE ~(alive.left > 0)
      BY <1>6, <3>2 DEF TypeInv, Tick
    <3> QED BY <3>1, <3>2
  <2> QED BY <1>6, <2>1, <2>2 DEF TypeInv, Tick, sending
<1>7. CASE Place
  <2>1. walk' \in [at : WalkAt, account : Held, loops : 0 .. MaxLoops]
    BY <1>7 DEF TypeInv, Place, WalkAt
  <2>2. walk'.at \in {"conid", "resolve"}
    BY <1>7 DEF Place
  <2> QED BY <1>7, <2>1, <2>2 DEF TypeInv, Place, gateway, task
<1>8. CASE PlaceResolve
  <2>1. PICK a \in Accounts : ResolveTo(a) /\ walk' = [walk EXCEPT !.at = "conid", !.account = a]
    BY <1>8 DEF PlaceResolve
  <2>2. /\ walk' \in [at : WalkAt, account : Held, loops : 0 .. MaxLoops]
        /\ walk'.at = "conid"
    BY <2>1 DEF TypeInv, WalkAt, Held
  <2>3. account' \in Held
    BY <2>1 DEF ResolveTo, Keep, Held
  <2> QED BY <1>8, <2>2, <2>3 DEF TypeInv, PlaceResolve, gateway, task
<1>9. CASE PlaceRaises
  <2>1. /\ walk' \in [at : WalkAt, account : Held, loops : 0 .. MaxLoops]
        /\ walk'.at = "raised"
    BY <1>9 DEF TypeInv, PlaceRaises, Goto, WalkAt
  <2>2. faults' \in 0 .. MaxFaults
    BY <1>9 DEF TypeInv, PlaceRaises, Refused, Fault
  <2> QED BY <1>9, <2>1, <2>2 DEF TypeInv, PlaceRaises, gateway, task
<1>10. CASE PlaceConid
  <2>1. \/ walk' = [walk EXCEPT !.at = "auth"] /\ conid' # NoConid
        \/ walk' = [walk EXCEPT !.at = "raised"]
    BY <1>10 DEF PlaceConid, Goto, Found
  <2>2. walk' \in [at : WalkAt, account : Held, loops : 0 .. MaxLoops]
    BY <2>1 DEF TypeInv, WalkAt
  <2>3. \/ walk'.at = "auth" /\ conid' # NoConid
        \/ walk'.at = "raised"
    BY <2>1 DEF TypeInv
  <2>4. faults' \in 0 .. MaxFaults
    BY <1>10 DEF TypeInv, PlaceConid, Refused, Fault
  <2> QED BY <1>10, <2>2, <2>3, <2>4 DEF TypeInv, PlaceConid, gateway, task
<1>11. CASE PlaceAuth
  <2>1. /\ walk' \in [at : WalkAt, account : Held, loops : 0 .. MaxLoops]
        /\ walk'.at \in {"post", "raised"}
    BY <1>11 DEF TypeInv, PlaceAuth, Goto, WalkAt
  <2> QED BY <1>11, <2>1 DEF TypeInv, PlaceAuth, gateway, task
<1>12. CASE Post
  BY <1>12, RequestTyped DEF Post
<1>13. CASE Confirm
  <2>1. walk.loops + 1 \in 0 .. MaxLoops
    BY <1>13 DEF TypeInv, Confirm
  <2> QED BY <1>13, <2>1, RequestTyped DEF Confirm
<1>14. CASE Page
  <2>1. page' \in [at : PageAt, account : Held]
    BY <1>14 DEF TypeInv, Page, PageAt
  <2> QED BY <1>14, <2>1 DEF TypeInv, Page, gateway, task, sending
<1>15. CASE PageResolve
  <2>1. page' \in [at : PageAt, account : Held]
    BY <1>15 DEF TypeInv, PageResolve, PageAt, Held
  <2>2. account' \in Held /\ faults' \in 0 .. MaxFaults
    BY <1>15 DEF TypeInv, PageResolve, ResolveTo, Keep, Held, Refused, Fault
  <2> QED BY <1>15, <2>1, <2>2 DEF TypeInv, PageResolve, gateway, task, sending
<1>16. CASE PageRead
  <2>1. page' \in [at : PageAt, account : Held]
    BY <1>16 DEF TypeInv, PageRead, PageAt
  <2> QED BY <1>16, <2>1 DEF TypeInv, PageRead, gateway, task, sending
<1>17. CASE UNCHANGED vars
  BY <1>17 DEF TypeInv, vars, gateway, task, sending
<1> QED BY <1>1, <1>2, <1>3, <1>4, <1>5, <1>6, <1>7, <1>8, <1>9, <1>10, <1>11,
           <1>12, <1>13, <1>14, <1>15, <1>16, <1>17 DEF Next

LEMMA TypeInit == Init => TypeInv
<1> SUFFICES ASSUME Init PROVE TypeInv
  OBVIOUS
<1>1. /\ walk \in [at : WalkAt, account : Held, loops : 0 .. MaxLoops]
      /\ page \in [at : PageAt, account : Held]
      /\ alive \in [at : {"sleep", "call"}, left : 0 .. Interval + CallTime]
  BY Constants DEF Init, WalkAt, PageAt, Held
<1>2. walk.at = "idle"
  BY DEF Init
<1> QED BY <1>1, <1>2, Constants, Times DEF Init, TypeInv, Held

(* The states of the coroutines and of the gateway are well-formed.        *)
THEOREM TypeCorrect == Spec => []TypeInv
<1> QED BY TypeInit, TypeStep, PTL DEF Spec

LEMMA TypeImplies == TypeInv => TypeOK
BY DEF TypeInv, TypeOK, WalkAt, PageAt, Held

-----------------------------------------------------------------------------
(* The placement.                                                          *)

LEMMA RequestTells ==
  ASSUME TypeInv, WalkInv, NEW loops \in 0 .. MaxLoops, Request(loops),
         walk.at \in {"post", "confirm"}
  PROVE  WalkInv'
<1>1. CASE Goto("raised") /\ UNCHANGED <<order, lost>>
  <2>1. walk'.at = "raised" /\ order' \in {"none", "pending"}
    BY <1>1 DEF TypeInv, WalkInv, Goto
  <2> QED BY <2>1 DEF WalkInv, WalkTellsTruth
<1>2. ASSUME NEW answer \in Answers, order' = answer.state,
             walk' = [walk EXCEPT !.at = Judge(answer, loops), !.loops = loops]
      PROVE  WalkInv'
  <2>1. walk'.at = Judge(answer, loops) /\ walk'.loops = loops
    BY <1>2 DEF TypeInv
  <2> QED BY <1>2, <2>1, JudgeIs DEF WalkInv, WalkTellsTruth
<1>3. CASE Goto("raised") /\ lost' = TRUE
  <2>1. walk'.at = "raised" /\ lost'
    BY <1>3 DEF TypeInv, Goto
  <2> QED BY <2>1 DEF WalkInv, WalkTellsTruth
<1> QED BY <1>1, <1>2, <1>3 DEF Request

LEMMA WalkStep == TypeInv /\ WalkInv /\ [Next]_vars => WalkInv'
<1> SUFFICES ASSUME TypeInv, WalkInv, [Next]_vars PROVE WalkInv'
  OBVIOUS
<1>1. CASE UNCHANGED <<walk, order, lost>>
  BY <1>1 DEF WalkInv, WalkTellsTruth
<1>2. CASE Place
  <2>1. walk'.at \in {"conid", "resolve"} /\ order' = "none"
    BY <1>2 DEF Place
  <2> QED BY <2>1 DEF WalkInv, WalkTellsTruth
<1>3. CASE PlaceResolve \/ PlaceRaises \/ PlaceConid \/ PlaceAuth
  <2>1. walk'.at \in {"conid", "raised", "auth", "post"}
    BY <1>3 DEF TypeInv, PlaceResolve, PlaceRaises, PlaceConid, PlaceAuth, Goto,
                Found
  <2>2. order' = order /\ order = "none"
    BY <1>3 DEF WalkInv, PlaceResolve, PlaceRaises, PlaceConid, PlaceAuth
  <2> QED BY <2>1, <2>2 DEF WalkInv, WalkTellsTruth
<1>4. CASE Post
  BY <1>4, Constants, RequestTells DEF Post
<1>5. CASE Confirm
  <2>1. walk.loops + 1 \in 0 .. MaxLoops
    BY <1>5, Constants DEF TypeInv, Confirm
  <2> QED BY <1>5, <2>1, RequestTells DEF Confirm
<1>6. CASE \/ Login \/ Competes \/ Expires \/ Wake \/ Tickle \/ Tick
           \/ Page \/ PageResolve \/ PageRead \/ UNCHANGED vars
  BY <1>1, <1>6 DEF Login, Competes, Expires, Wake, Tickle, Tick, Page,
                    PageResolve, PageRead, vars, sending
<1> QED BY <1>2, <1>3, <1>4, <1>5, <1>6 DEF Next

(* What a placement reports of the broker's order is true, for every       *)
(* number of rounds, and of warnings in a round.                           *)
THEOREM WalkCorrect == Spec => []WalkTellsTruth
<1>1. Init => WalkInv
  BY DEF Init, WalkInv, WalkTellsTruth
<1>2. WalkInv => WalkTellsTruth
  BY DEF WalkInv
<1> QED BY <1>1, <1>2, WalkStep, TypeCorrect, PTL DEF Spec

-----------------------------------------------------------------------------
(* The account.                                                            *)

(* A coroutine that resolves the account when another one did so before    *)
(* finds the same, and leaves the client's account as it is.               *)
LEMMA ResolvesTheSame ==
  ASSUME AccountInv, ~moved, Resolving, NEW a \in Accounts, ResolveTo(a)
  PROVE  /\ account' = a /\ a = login
         /\ account # NoAccount => account' = account
BY DEF AccountInv, ResolveTo, Keep

LEMMA AccountStep == TypeInv /\ AccountInv /\ [Next]_vars => AccountInv'
<1> SUFFICES ASSUME TypeInv, AccountInv, [Next]_vars, ~moved' PROVE AccountInv'
  BY DEF AccountInv
<1>a. ~moved
  BY DEF Next, Login, Competes, Expires, Wake, Tickle, Tick, Place, PlaceResolve,
         PlaceRaises, PlaceConid, PlaceAuth, Post, Confirm, Request, Page,
         PageResolve, PageRead, vars
<1>b. NoAccount \notin Accounts
  BY Constants
<1>1. CASE Login
  <2>1. ~Resolving \/ login' = login
    BY <1>1 DEF Login
  <2>2. UNCHANGED <<walk, page, account>> /\ Resolving' = Resolving
    BY <1>1 DEF Login, sending, Resolving
  <2> QED BY <1>a, <2>1, <2>2 DEF AccountInv
<1>2. CASE \/ Competes \/ Expires \/ Wake \/ Tickle \/ Tick \/ UNCHANGED vars
  <2>1. UNCHANGED <<walk, page, account, login>>
    BY <1>2 DEF Competes, Expires, Wake, Tickle, Tick, vars, sending, gateway
  <2> QED BY <1>a, <2>1 DEF AccountInv, Resolving
<1>3. CASE Place
  <2>1. /\ UNCHANGED <<account, login, page>>
        /\ walk'.account = account
        /\ walk'.at = IF account # NoAccount THEN "conid" ELSE "resolve"
    BY <1>3 DEF Place, gateway
  <2> QED BY <1>a, <2>1 DEF AccountInv, Resolving
<1>4. CASE PlaceResolve
  <2>1. PICK a \in Accounts :
          /\ ResolveTo(a)
          /\ walk' = [walk EXCEPT !.at = "conid", !.account = a]
    BY <1>4 DEF PlaceResolve
  <2>2. walk'.at = "conid" /\ walk'.account = a
    BY <2>1 DEF TypeInv
  <2>3. /\ account' = a /\ a = login /\ login' = login /\ page' = page
        /\ account # NoAccount => account' = account
    BY <1>4, <1>a, <2>1, ResolvesTheSame DEF PlaceResolve, Resolving, gateway
  <2> QED BY <1>a, <1>b, <2>2, <2>3 DEF AccountInv, Resolving
<1>5. CASE PlaceRaises \/ PlaceConid \/ PlaceAuth \/ Post \/ Confirm
  <2>1. UNCHANGED <<account, login, page>>
    BY <1>5 DEF PlaceRaises, PlaceConid, PlaceAuth, Post, Confirm, Request,
                gateway
  <2>2. walk'.account = walk.account
    BY <1>5 DEF TypeInv, PlaceRaises, PlaceConid, PlaceAuth, Post, Confirm,
                Request, Goto
  <2>3. walk'.at = "raised" \/ walk.at \in {"conid", "auth", "post", "confirm"}
    BY <1>5 DEF TypeInv, PlaceRaises, PlaceConid, PlaceAuth, Post, Confirm, Goto
  <2>4. walk'.at # "resolve"
    <3>1. CASE PlaceRaises \/ PlaceConid \/ PlaceAuth
      BY <3>1 DEF TypeInv, PlaceRaises, PlaceConid, PlaceAuth, Goto, Found
    <3>2. ASSUME NEW loops \in 0 .. MaxLoops, Request(loops)
          PROVE  walk'.at # "resolve"
      BY <3>2, JudgeIs DEF TypeInv, Request, Goto
    <3>3. CASE Post
      BY <3>2, <3>3, Constants DEF Post
    <3>4. CASE Confirm
      <4>1. walk.loops + 1 \in 0 .. MaxLoops
        BY <3>4, Constants DEF TypeInv, Confirm
      <4> QED BY <3>2, <3>4, <4>1 DEF Confirm
    <3> QED BY <1>5, <3>1, <3>3, <3>4
  <2> QED BY <1>a, <2>1, <2>2, <2>3, <2>4 DEF AccountInv, Resolving
<1>6. CASE Page
  <2>1. /\ UNCHANGED <<account, login, walk>>
        /\ page'.account = account
        /\ page'.at = IF account # NoAccount THEN "summary" ELSE "resolve"
    BY <1>6 DEF Page, gateway, sending
  <2> QED BY <1>a, <2>1 DEF AccountInv, Resolving
<1>7. CASE PageResolve
  <2>1. login' = login /\ walk' = walk /\ page.at = "resolve"
    BY <1>7 DEF PageResolve, gateway, sending
  <2>2. CASE page' = [page EXCEPT !.at = "error"] /\ UNCHANGED account
    <3>1. page'.at = "error"
      BY <2>2 DEF TypeInv
    <3> QED BY <1>a, <2>1, <2>2, <3>1 DEF AccountInv, Resolving
  <2>3. ASSUME NEW a \in Accounts, ResolveTo(a),
               page' = [at |-> "summary", account |-> a]
        PROVE  AccountInv'
    <3>1. page'.at = "summary" /\ page'.account = a
      BY <2>3
    <3>2. /\ account' = a /\ a = login
          /\ account # NoAccount => account' = account
      BY <1>a, <2>1, <2>3, ResolvesTheSame DEF Resolving
    <3> QED BY <1>a, <1>b, <2>1, <3>1, <3>2 DEF AccountInv, Resolving
  <2> QED BY <1>7, <2>2, <2>3 DEF PageResolve
<1>8. CASE PageRead
  <2>1. /\ UNCHANGED <<account, login, walk>>
        /\ page.at \in {"summary", "positions"}
        /\ page'.account = page.account
        /\ page'.at # "resolve"
    BY <1>8 DEF TypeInv, PageRead, gateway, sending
  <2> QED BY <1>a, <2>1 DEF AccountInv, Resolving
<1> QED BY <1>1, <1>2, <1>3, <1>4, <1>5, <1>6, <1>7, <1>8 DEF Next

(* Whatever the page and the placement do in between, both work on the     *)
(* client's account, for every number of accounts and of logins.           *)
THEOREM AccountCorrect == Spec => []OneAccount
<1>1. Init => AccountInv
  <2> SUFFICES ASSUME Init PROVE AccountInv
    OBVIOUS
  <2>1. walk.at = "idle" /\ page.at = "idle"
    BY DEF Init
  <2> QED BY <2>1 DEF AccountInv, Resolving
<1>2. TypeInv /\ AccountInv => OneAccount
  BY TypeImplies DEF AccountInv, OneAccount
<1> QED BY <1>1, <1>2, AccountStep, TypeCorrect, PTL DEF Spec

-----------------------------------------------------------------------------
(* The keepalive task.                                                     *)

LEMMA AliveStep == TypeInv /\ TypeInv' /\ AliveInv /\ [Next]_vars => AliveInv'
<1> SUFFICES ASSUME TypeInv, TypeInv', AliveInv, [Next]_vars PROVE AliveInv'
  OBVIOUS
<1> DEFINE Bound == missed * Period
<1>a. /\ Interval \in Nat /\ CallTime \in Nat
      /\ Period = Interval + CallTime /\ Period \in Nat
  BY Constants DEF Period
<1>b. Bound \in Nat
  BY <1>a, Product DEF TypeInv
<1>c. quiet \in 0 .. MaxQuiet /\ stamp \in 0 .. MaxQuiet /\ MaxQuiet \in Nat
      /\ alive.left \in 0 .. Period /\ alive.at \in {"sleep", "call"}
      /\ missed \in Nat /\ faults \in Nat
  BY <1>a, Times, Constants DEF TypeInv
<1>d. /\ alive.at = "sleep" => alive.left <= Interval
      /\ alive.at = "call" => alive.left <= CallTime
      /\ quiet <= Bound + Elapsed
      /\ quiet <= stamp
      /\ missed <= faults
  BY DEF AliveInv
<1>e. Elapsed = IF alive.at = "sleep" THEN Interval - alive.left
                ELSE Period - alive.left
  BY DEF Elapsed
<1>f. Elapsed' = IF alive'.at = "sleep" THEN Interval - alive'.left
                 ELSE Period - alive'.left
  BY DEF Elapsed, Period
<1>g. Period' = Period
  BY DEF Period
<1> HIDE DEF Bound
<1>1. CASE UNCHANGED <<alive, quiet, stamp, missed>> /\ faults' \in {faults, faults + 1}
  <2>1. Elapsed' = Elapsed /\ Bound' = Bound
    BY <1>1, <1>e, <1>f, <1>g DEF Bound
  <2>2. missed' <= faults'
    BY <1>1, <1>c, <1>d
  <2> QED BY <1>1, <1>d, <2>1, <2>2 DEF AliveInv, Bound
<1>2. CASE Wake
  <2>1. /\ alive.at = "sleep" /\ alive.left = 0
        /\ alive'.at = "call" /\ alive'.left = CallTime
        /\ UNCHANGED <<quiet, stamp, missed, faults>>
    BY <1>2 DEF Wake, gateway
  <2>2. Elapsed' = Elapsed /\ Bound' = Bound
    BY <2>1, <1>a, <1>e, <1>f, <1>g DEF Bound
  <2> QED BY <2>1, <2>2, <1>a, <1>d DEF AliveInv, Bound
<1>3. CASE Tickle
  <2>1. /\ alive'.at = "sleep" /\ alive'.left = Interval
        /\ Elapsed' = 0
    BY <1>3, <1>a, <1>f DEF Tickle, AfterError
  <2>2. CASE quiet' = 0 /\ stamp' = 0 /\ missed' = 0 /\ UNCHANGED faults
    <3>1. missed' * Period' = 0
      BY <2>2, <1>a, <1>g
    <3> QED BY <2>1, <2>2, <3>1, <1>a, <1>c DEF AliveInv
  <2>3. CASE Fault /\ quiet' \in {0, quiet} /\ missed' = missed + 1 /\ stamp' = stamp
    <3>1. missed' * Period' = Bound + Period
      BY <2>3, <1>a, <1>c, <1>g DEF Bound
    <3>2. Elapsed <= Period
      BY <1>a, <1>c, <1>d, <1>e
    <3>3. Elapsed \in Nat
      BY <1>a, <1>c, <1>d, <1>e
    <3>4. quiet' <= quiet /\ quiet' \in Nat
      BY <2>3, <1>c
    <3>5. quiet' <= missed' * Period' + Elapsed'
      BY <2>1, <3>1, <3>2, <3>3, <3>4, <1>a, <1>b, <1>c, <1>d
    <3>6. quiet' <= stamp' /\ missed' <= faults'
      BY <2>3, <3>4, <1>c, <1>d DEF Fault
    <3> QED BY <2>1, <3>5, <3>6, <1>a DEF AliveInv
  <2> QED BY <1>3, <2>2, <2>3 DEF Tickle, StampAfterError
<1>4. CASE Tick
  <2>1. /\ alive.left > 0 /\ alive'.at = alive.at /\ alive'.left = alive.left - 1
        /\ quiet' = Later(quiet) /\ stamp' = Later(stamp)
        /\ UNCHANGED <<missed, faults>>
    BY <1>4, <1>c DEF Tick, TypeInv
  <2>2. Elapsed' = Elapsed + 1 /\ Elapsed \in Int
    BY <2>1, <1>a, <1>c, <1>e, <1>f
  <2>3. /\ quiet' <= quiet + 1 /\ quiet' <= stamp'
        /\ quiet' \in 0 .. MaxQuiet /\ stamp' \in 0 .. MaxQuiet
    BY <2>1, <1>c, <1>d, LaterIs
  <2>4. Bound' = Bound
    BY <2>1, <1>g DEF Bound
  <2>5. quiet' <= Bound' + Elapsed'
    BY <2>2, <2>3, <2>4, <1>b, <1>c, <1>d
  <2>6. /\ alive'.at = "sleep" => alive'.left <= Interval
        /\ alive'.at = "call" => alive'.left <= CallTime
    BY <2>1, <1>a, <1>c, <1>d
  <2> QED BY <2>1, <2>3, <2>5, <2>6, <1>d DEF AliveInv, Bound
<1>5. CASE \/ Login \/ Competes \/ Expires \/ Place \/ PlaceResolve
           \/ PlaceRaises \/ PlaceConid \/ PlaceAuth \/ Post \/ Confirm
           \/ Page \/ PageResolve \/ PageRead \/ UNCHANGED vars
  <2>1. UNCHANGED <<alive, quiet, stamp, missed>>
    BY <1>5 DEF Login, Competes, Expires, Place, PlaceResolve, PlaceRaises,
                PlaceConid, PlaceAuth, Post, Confirm, Request, Page, PageResolve,
                PageRead, vars, task, gateway
  <2>2. faults' \in {faults, faults + 1}
    BY <1>5 DEF Login, Competes, Expires, Place, PlaceResolve, PlaceRaises,
                PlaceConid, PlaceAuth, Post, Confirm, Request, Refused, Fault,
                Page, PageResolve, PageRead, vars
  <2> QED BY <2>1, <2>2, <1>1
<1> QED BY <1>2, <1>3, <1>4, <1>5 DEF Next

LEMMA AliveInit == Init => AliveInv
<1> SUFFICES ASSUME Init PROVE AliveInv
  OBVIOUS
<1>1. Elapsed = Interval /\ Interval \in Nat /\ CallTime \in Nat
  BY Constants DEF Init, Elapsed, Period
<1>2. missed * Period = 0
  BY Times DEF Init
<1> QED BY <1>1, <1>2, Times, Constants DEF Init, AliveInv

LEMMA AliveImplies ==
  TypeInv /\ AliveInv =>
    /\ KeptAlive
    /\ quiet <= (faults + 1) * Period
<1> SUFFICES ASSUME TypeInv, AliveInv
             PROVE  KeptAlive /\ quiet <= (faults + 1) * Period
  OBVIOUS
<1>1. /\ Period \in Nat /\ missed \in Nat /\ faults \in Nat /\ quiet \in Nat
      /\ missed * Period \in Nat
  BY Product, Times, Constants DEF TypeInv
<1>2. Elapsed \in Nat /\ Elapsed <= Period
  BY Constants DEF TypeInv, AliveInv, Elapsed, Period
<1>3. (missed + 1) * Period = missed * Period + Period
  BY <1>1
<1>4. quiet <= (missed + 1) * Period
  BY <1>1, <1>2, <1>3 DEF AliveInv
<1>5. (missed + 1) * Period <= (faults + 1) * Period
  BY <1>1, ProductGrows DEF AliveInv
<1>6. (missed + 1) * Period \in Nat /\ (faults + 1) * Period \in Nat
  BY <1>1, Product
<1>7. quiet <= (faults + 1) * Period
  BY <1>1, <1>4, <1>5, <1>6
<1> QED BY <1>4, <1>7 DEF KeptAlive, AliveInv, Period

(* No failure stops the keepalive: between two tickles that the gateway    *)
(* sees there is never more than the failures in a row explain, for every  *)
(* interval and timeout.                                                   *)
THEOREM AliveCorrect == Spec => []KeptAlive
<1> QED BY AliveInit, AliveStep, AliveImplies, TypeCorrect, PTL DEF Spec

(* The counters of ticks never reach their cap, which therefore hides      *)
(* nothing: KeptAlive is not true by the cap.                              *)
THEOREM NeverAtTheCap == Spec => [](quiet < MaxQuiet)
<1>1. TypeInv /\ AliveInv => quiet < MaxQuiet
  <2> SUFFICES ASSUME TypeInv, AliveInv PROVE quiet < MaxQuiet
    OBVIOUS
  <2>1. /\ faults + 1 \in Nat /\ MaxFaults + 1 \in Nat /\ faults + 1 <= MaxFaults + 1
        /\ quiet \in Nat
    BY Constants, Times DEF TypeInv
  <2>2. (faults + 1) * Period <= (MaxFaults + 1) * Period
    BY <2>1, Times, ProductGrows
  <2>3. (faults + 1) * Period \in Nat /\ (MaxFaults + 1) * Period \in Nat
    BY <2>1, Times, Product
  <2>4. quiet <= (faults + 1) * Period
    BY AliveImplies
  <2> QED BY <2>1, <2>2, <2>3, <2>4, Times
<1> QED BY <1>1, AliveInit, AliveStep, TypeCorrect, PTL DEF Spec

-----------------------------------------------------------------------------
(* The contract.                                                           *)

(* A set of naturals that is not empty has a least member.                 *)
LEMMA LeastNatural ==
  ASSUME NEW T, T \subseteq Nat, T # {}
  PROVE  \E x \in T : \A y \in T : x <= y
<1>1. PICK x \in T : \A y \in T : <<y, x>> \notin OpToRel(<, Nat)
  BY NatLessThanWellFounded, WFMin
<1>2. ASSUME NEW y \in T PROVE x <= y
  <2>1. ~(y < x)
    BY <1>1 DEF OpToRel
  <2> QED BY <2>1
<1> QED BY <1>2

Outranks(a, b) == Rank(a) > Rank(b)

(* ResolveConid: no contract where no listing is eligible, else that of    *)
(* the first eligible listing that no other outranks.                      *)
LEMMA ResolveIs ==
  ASSUME NEW rows \in Seq(Listing)
  PROVE  \/ /\ \A i \in DOMAIN rows : ~Eligible(rows[i])
            /\ ResolveConid(rows) = NoConid
         \/ \E i \in DOMAIN rows :
              /\ Eligible(rows[i]) /\ ResolveConid(rows) = rows[i].conid
              /\ \A j \in DOMAIN rows :
                   Eligible(rows[j]) => ~Outranks(rows[j], rows[i])
<1> DEFINE eligible == {i \in DOMAIN rows : Eligible(rows[i])}
           better(i, j) == \/ Rank(rows[i]) > Rank(rows[j])
                           \/ Rank(rows[i]) = Rank(rows[j]) /\ i <= j
<1>1. CASE eligible = {}
  BY <1>1 DEF ResolveConid
<1>2. CASE eligible # {}
  <2>1. \A r : Rank(r) \in 0 .. 3
    BY DEF Rank
  <2>2. DOMAIN rows \subseteq Nat
    OBVIOUS
  <2> DEFINE shortfalls == {3 - Rank(rows[i]) : i \in eligible}
  <2>3. PICK least \in shortfalls : \A s \in shortfalls : least <= s
    <3>1. shortfalls \subseteq Nat /\ shortfalls # {}
      BY <1>2, <2>1
    <3> QED BY <3>1, LeastNatural
  <2> DEFINE best == {i \in eligible : 3 - Rank(rows[i]) = least}
  <2>4. PICK first \in best : \A j \in best : first <= j
    <3>1. best \subseteq Nat /\ best # {}
      BY <2>2, <2>3
    <3> QED BY <3>1, LeastNatural
  <2>5. \A j \in eligible : better(first, j)
    <3> SUFFICES ASSUME NEW j \in eligible PROVE better(first, j)
      OBVIOUS
    <3>1. 3 - Rank(rows[first]) <= 3 - Rank(rows[j])
      BY <2>3, <2>4
    <3>2. Rank(rows[first]) \in 0 .. 3 /\ Rank(rows[j]) \in 0 .. 3
      BY <2>1
    <3>3. CASE Rank(rows[first]) = Rank(rows[j])
      BY <2>4, <3>3
    <3>4. CASE Rank(rows[first]) # Rank(rows[j])
      BY <3>1, <3>2, <3>4
    <3> QED BY <3>3, <3>4
  <2> DEFINE i == CHOOSE k \in eligible : \A j \in eligible : better(k, j)
  <2>6. i \in eligible /\ \A j \in eligible : better(i, j)
    BY <2>4, <2>5
  <2>7. ResolveConid(rows) = rows[i].conid
    BY <1>2 DEF ResolveConid
  <2>8. ASSUME NEW j \in DOMAIN rows, Eligible(rows[j])
        PROVE  ~Outranks(rows[j], rows[i])
    <3>1. Rank(rows[i]) \in 0 .. 3 /\ Rank(rows[j]) \in 0 .. 3
      BY <2>1
    <3>2. better(i, j)
      BY <2>6, <2>8
    <3> QED BY <3>1, <3>2 DEF Outranks
  <2> QED BY <2>6, <2>7, <2>8
<1> QED BY <1>1, <1>2

(* The contract that the client works with, and keeps, is a listing that   *)
(* a search returned: in dollars, or in the US where no currency is given, *)
(* and none that was eligible outranked it.                                *)
ContractIsBest ==
  conid # NoConid =>
    \E rows \in Searches : \E i \in DOMAIN rows :
      /\ Eligible(rows[i]) /\ rows[i].conid = conid
      /\ \A j \in DOMAIN rows :
           Eligible(rows[j]) => ~Outranks(rows[j], rows[i])

THEOREM ContractCorrect == Spec => []ContractIsBest
<1>1. Init => ContractIsBest
  BY DEF Init, ContractIsBest
<1>2. ContractIsBest /\ [Next]_vars => ContractIsBest'
  <2> SUFFICES ASSUME ContractIsBest, [Next]_vars PROVE ContractIsBest'
    OBVIOUS
  <2>1. CASE conid' = conid
    BY <2>1 DEF ContractIsBest
  <2>2. CASE PlaceConid /\ conid' # conid
    <3>1. PICK rows \in Searches : conid' = ResolveConid(rows)
      BY <2>2 DEF PlaceConid
    <3>2. rows \in Seq(Listing)
      BY GatewayAssumption
    <3> QED BY <3>1, <3>2, ResolveIs DEF ContractIsBest
  <2>3. conid' = conid \/ PlaceConid
    BY DEF Next, Login, Competes, Expires, Wake, Tickle, Tick, Place,
           PlaceResolve, PlaceRaises, PlaceAuth, Post, Confirm, Request, Page,
           PageResolve, PageRead, vars, sending
  <2> QED BY <2>1, <2>2, <2>3
<1> QED BY <1>1, <1>2, PTL DEF Spec

=============================================================================
