------------------------------ MODULE History ------------------------------
(***************************************************************************)
(* Historical data: the cached, rate-limited client of backtest/client.py  *)
(* under the providers of backtest/providers.py.                           *)
(*                                                                         *)
(* Every run makes a provider with a client, a limiter and memories of its *)
(* own; all of them, in the server's threads and in the scripts, share one *)
(* cache directory.  A file is opened, which empties it, and then written; *)
(* others may read it in between, and a kill leaves it as it is.           *)
(* Time is counted in ticks of the limiter's and the back-off's sleeps.    *)
(***************************************************************************)
EXTENDS Integers, FiniteSets

CONSTANTS
  Clients,      \* runs, each with a provider and a client
  Requests,     \* requests: [path, params]
  Remembered,   \* requests whose outcome a provider remembers
  Partial,      \* requests the vendor cannot answer in full at first
  MinInterval,  \* ticks between two calls of a client
  MaxRetries,   \* calls for one request
  MaxGets,      \* bound: gets
  MaxFaults     \* bound: kills, ends of runs and failed writes

(* A request is its path and its parameters, nothing else.                 *)
ASSUME HistoryAssumption ==
  /\ \A r \in Requests : r = [path |-> r.path, params |-> r.params]
  /\ Remembered \subseteq Requests /\ Partial \subseteq Requests
  /\ MinInterval \in Nat /\ MaxRetries \in Nat \ {0}
  /\ MaxGets \in Nat /\ MaxFaults \in Nat

VARIABLES
  file,     \* the cache directory: key -> answer, or Torn
  vendor,   \* what the vendor has for each request: 0 in part, 1 all of it
  task,     \* what each client does: [at, request, attempt, outcome]
  memo,     \* what each provider remembers
  since,    \* ticks since the limiter's stamp, up to MinInterval
  pause,    \* ticks of sleep left
  gap,      \* history: ticks since the client's last call, up to MinInterval
  spoiled,  \* history: requests worked on twice at a time, or cut in a write
  gets, faults

limiter == <<since, pause, gap>>
bounds  == <<gets, faults>>
vars    == <<file, vendor, task, memo, limiter, spoiled, bounds>>

Torn      == [no |-> "json"]
Unread    == [no |-> "outcome"]
Refused   == [no |-> "answer"]  \* an HTTPError or a timeout is raised
Broken    == [no |-> "file"]    \* it does not parse, or cannot be written
NoRequest == [no |-> "request"]
Answers == [of : Requests, version : {0, 1}]
Outcomes == Answers \cup {Unread, Refused, Broken}

Idle == [at |-> "idle", request |-> NoRequest, attempt |-> 0, outcome |-> Unread]

Init ==
  /\ file = <<>>
  /\ vendor = [r \in Requests |-> IF r \in Partial THEN 0 ELSE 1]
  /\ task = [c \in Clients |-> Idle]
  /\ memo = [c \in Clients |-> [r \in Remembered |-> Unread]]
  /\ since = [c \in Clients |-> MinInterval]
  /\ pause = [c \in Clients |-> 0]
  /\ gap = [c \in Clients |-> MinInterval]
  /\ spoiled = {}
  /\ gets = 0 /\ faults = 0

-----------------------------------------------------------------------------
(* Mutant: the parameters are not part of the key.                         *)
PathKey(r) == <<r.path, "none">>

(* The key has the path and the sorted parameters, not the API key.        *)
CacheKey(r) == <<r.path, r.params>>

(* Mutant: the directory is not looked at.                                 *)
NoCache(r) == FALSE

Cached(r) == CacheKey(r) \in DOMAIN file

Busy(c) == task[c].at # "idle"
Working(r) == {c \in Clients : Busy(c) /\ task[c].request = r}

Step(c, at) == task' = [task EXCEPT ![c].at = at]

(* A get is over: the provider remembers what came of it, failures too,    *)
(* which it takes for a day without bars.                                  *)
Finish(c, outcome) ==
  LET r == task[c].request
  IN /\ task' = [task EXCEPT ![c].at = "idle", ![c].outcome = outcome]
     /\ memo' = IF r \in Remembered THEN [memo EXCEPT ![c][r] = outcome]
                ELSE memo

(* Mutant: a retry has waited already.                                     *)
FirstWaits(c) == IF Busy(c) THEN 0 ELSE MinInterval - since[c]

(* The limiter: what is left of the interval.                              *)
ToWait(c) == MinInterval - since[c]

(* A provider needs a request: from its memory, from the directory, or     *)
(* from the vendor.                                                        *)
Get(c, r) ==
  LET known == r \in Remembered /\ memo[c][r] # Unread
      at    == CASE known -> "idle"
                 [] ~known /\ Cached(r) -> "read"
                 [] OTHER -> "sleep"
  IN /\ ~Busy(c) /\ gets < MaxGets
     /\ gets' = gets + 1
     /\ pause' = [pause EXCEPT ![c] = IF at = "sleep" THEN ToWait(c) ELSE 0]
     /\ task' = [task EXCEPT ![c] =
          [at |-> at, request |-> r, attempt |-> 0,
           outcome |-> IF known THEN memo[c][r] ELSE Unread]]
     /\ spoiled' = IF Working(r) # {} THEN spoiled \cup {r} ELSE spoiled
     /\ UNCHANGED <<file, vendor, memo, since, gap, faults>>

Read(c) ==
  LET found == file[CacheKey(task[c].request)]
  IN /\ task[c].at = "read"
     /\ Finish(c, IF found = Torn THEN Broken ELSE found)
     /\ UNCHANGED <<file, vendor, limiter, spoiled, bounds>>

(* After a back-off the limiter is asked again.                            *)
Wait(c) ==
  /\ task[c].at = "wait" /\ pause[c] = 0
  /\ pause' = [pause EXCEPT ![c] = ToWait(c)]
  /\ Step(c, "sleep")
  /\ UNCHANGED <<file, vendor, memo, since, gap, spoiled, bounds>>

Put(r, content) ==
  file' = [k \in DOMAIN file \cup {CacheKey(r)} |->
             IF k = CacheKey(r) THEN content ELSE file[k]]

(* Mutant: the file is opened before the call.                             *)
SendIntoFile(c) ==
  /\ task[c].at = "sleep" /\ pause[c] = 0
  /\ since' = [since EXCEPT ![c] = 0]
  /\ gap' = [gap EXCEPT ![c] = 0]
  /\ Step(c, "call")
  /\ Put(task[c].request, Torn)
  /\ UNCHANGED <<vendor, memo, pause, spoiled, bounds>>

(* The stamp, and the call.                                                *)
Send(c) ==
  /\ task[c].at = "sleep" /\ pause[c] = 0
  /\ since' = [since EXCEPT ![c] = 0]
  /\ gap' = [gap EXCEPT ![c] = 0]
  /\ Step(c, "call")
  /\ UNCHANGED <<file, vendor, memo, pause, spoiled, bounds>>

(* The answer, and write_text: the file is opened, which empties it.       *)
Answer(c) ==
  LET r == task[c].request
  IN /\ task[c].at = "call"
     /\ task' = [task EXCEPT ![c].at = "write",
          ![c].outcome = [of |-> r, version |-> vendor[r]]]
     /\ Put(r, Torn)
     /\ UNCHANGED <<vendor, memo, limiter, spoiled, bounds>>

(* Mutant: the attempts are not counted.                                   *)
TryForEver(c) == task[c].attempt

NextAttempt(c) == task[c].attempt + 1

LastAttempt(c) == task[c].attempt >= MaxRetries - 1

(* A 429 is tried again after a back-off, unless it was the last attempt.  *)
TooMany(c) ==
  /\ task[c].at = "call"
  /\ \/ /\ ~LastAttempt(c)
        /\ pause' = [pause EXCEPT ![c] = 2 ^ task[c].attempt]
        /\ task' = [task EXCEPT ![c].at = "wait", ![c].attempt = NextAttempt(c)]
        /\ UNCHANGED memo
     \/ /\ LastAttempt(c)
        /\ Finish(c, Refused)
        /\ UNCHANGED pause
  /\ UNCHANGED <<file, vendor, since, gap, spoiled, bounds>>

(* Any other error, a timeout among them, is raised.                       *)
Error(c) ==
  /\ task[c].at = "call"
  /\ Finish(c, Refused)
  /\ UNCHANGED <<file, vendor, limiter, spoiled, bounds>>

(* The text is written.  Over an answer that another client wrote since    *)
(* the file was opened, a shorter one leaves a tail.                       *)
Write(c) ==
  LET r     == task[c].request
      found == file[CacheKey(r)]
      mine  == task[c].outcome
  IN /\ task[c].at = "write"
     /\ \/ Put(r, mine)
        \/ found \notin {Torn, mine} /\ Put(r, Torn)
     /\ Finish(c, mine)
     /\ UNCHANGED <<vendor, limiter, spoiled, bounds>>

-----------------------------------------------------------------------------
Fault == faults < MaxFaults /\ faults' = faults + 1

WriteFails(c) ==
  /\ Fault
  /\ task[c].at = "write"
  /\ Finish(c, Broken)
  /\ spoiled' = spoiled \cup {task[c].request}
  /\ UNCHANGED <<file, vendor, limiter, gets>>

(* A run is over, or killed wherever it is; the next one has nothing of it *)
(* but the directory.                                                      *)
NewRun(c) ==
  /\ Fault
  /\ task' = [task EXCEPT ![c] = Idle]
  /\ memo' = [memo EXCEPT ![c] = [r \in Remembered |-> Unread]]
  /\ since' = [since EXCEPT ![c] = MinInterval]
  /\ pause' = [pause EXCEPT ![c] = 0]
  /\ gap' = [gap EXCEPT ![c] = MinInterval]
  /\ spoiled' = IF task[c].at = "write" THEN spoiled \cup {task[c].request}
                ELSE spoiled
  /\ UNCHANGED <<file, vendor, gets>>

(* The vendor completes its data: a day it had in part, or not at all.     *)
Publish(r) ==
  /\ vendor[r] = 0
  /\ vendor' = [vendor EXCEPT ![r] = 1]
  /\ UNCHANGED <<file, task, memo, limiter, spoiled, bounds>>

Tick ==
  LET later(n) == IF n < MinInterval THEN n + 1 ELSE n
  IN /\ since' = [c \in Clients |-> later(since[c])]
     /\ gap' = [c \in Clients |-> later(gap[c])]
     /\ pause' = [c \in Clients |-> IF pause[c] > 0 THEN pause[c] - 1 ELSE 0]
     /\ limiter' # limiter
     /\ UNCHANGED <<file, vendor, task, memo, spoiled, bounds>>

Go(c) ==
  \/ Read(c) \/ Wait(c) \/ Send(c) \/ Answer(c) \/ TooMany(c) \/ Error(c)
  \/ Write(c)

Next ==
  \/ \E c \in Clients : Go(c) \/ WriteFails(c) \/ NewRun(c)
  \/ \E c \in Clients, r \in Requests : Get(c, r)
  \/ \E r \in Requests : Publish(r)
  \/ Tick

Spec == Init /\ [][Next]_vars

(* A client goes on, its call ends by its timeout, and time passes.        *)
FairSpec == Spec /\ WF_vars(Tick) /\ \A c \in Clients : WF_vars(Go(c))

-----------------------------------------------------------------------------
(* Types of the directory, the tasks and the limiters.                     *)
TypeOK ==
  /\ \A k \in DOMAIN file : file[k] \in Answers \cup {Torn}
  /\ \A c \in Clients :
       /\ task[c].at \in {"idle", "read", "wait", "sleep", "call", "write"}
       /\ task[c].attempt \in 0 .. MaxRetries - 1
       /\ task[c].outcome \in Outcomes
       /\ {since[c], gap[c]} \subseteq 0 .. MinInterval
       /\ pause[c] \in 0 .. MinInterval + 2 ^ MaxRetries

(* Whatever a run is given, from the vendor, the directory or its memory,  *)
(* is the answer to its own request.                                       *)
RightAnswer ==
  /\ TypeOK
  /\ \A c \in Clients :
       task[c].outcome \in Answers => task[c].outcome.of = task[c].request
  /\ \A c \in Clients, r \in Remembered :
       memo[c][r] \in Answers => memo[c][r].of = r

(* Two calls of a client are never less than the interval apart, retries   *)
(* after a back-off included.                                              *)
Spaced ==
  [][\A c \in Clients :
       task[c].at # "call" /\ task'[c].at = "call" => gap[c] >= MinInterval]_vars

(* A request answered once is paid for once: when its file is there and    *)
(* nobody works on it, it is never called for again, nor does it change.   *)
Settled(r) ==
  CacheKey(r) \in DOMAIN file /\ \A c \in Working(r) : task[c].at = "read"
PaidOnce ==
  [][\A r \in Requests : Settled(r) =>
       Settled(r)' /\ file'[CacheKey(r)] = file[CacheKey(r)]]_vars

(* A run loses an answer to the directory only where two runs worked on    *)
(* the request at the same time, or the write was cut or failed.           *)
BrokenOnlyIf ==
  \A c \in Clients :
    task[c].outcome = Broken => task[c].request \in spoiled

(* Every get comes to an end, whatever the vendor answers.                 *)
GetsEnd == \A c \in Clients : Busy(c) ~> ~Busy(c)

=============================================================================
