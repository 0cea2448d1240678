--------------------------- MODULE History_proofs ---------------------------
(***************************************************************************)
(* Proofs of the safety properties of History, for every number of runs,   *)
(* requests and retries, and for every interval of the limiter; and that  *)
(* the candidates of a backtest day depend on nothing that comes later.    *)
(***************************************************************************)
EXTENDS History, Universe, FiniteSetTheorems, TLAPS

At    == {"idle", "read", "wait", "sleep", "call", "write"}
Tasks == [at : At, request : Requests \cup {NoRequest},
          attempt : 0 .. MaxRetries - 1, outcome : Outcomes]
Long  == MinInterval + 2 ^ MaxRetries

(* TypeOK, with the shape of the functions and records; a client at work   *)
(* has a request, and an answer when it writes; and a file that is read or *)
(* written is there.                                                       *)
TaskInv ==
  /\ task \in [Clients -> Tasks]
  /\ \A c \in Clients :
       /\ task[c].at # "idle" => task[c].request \in Requests
       /\ task[c].at \in {"read", "write"} =>
            CacheKey(task[c].request) \in DOMAIN file
       /\ task[c].at = "write" => task[c].outcome \in Answers

TypeInv ==
  /\ \A k \in DOMAIN file : file[k] \in Answers \cup {Torn}
  /\ vendor \in [Requests -> {0, 1}]
  /\ TaskInv
  /\ memo \in [Clients -> [Remembered -> Outcomes]]
  /\ since \in [Clients -> 0 .. MinInterval]
  /\ gap \in [Clients -> 0 .. MinInterval]
  /\ pause \in [Clients -> 0 .. Long]

(* An answer is where its request looks for it: in the file of its key, in *)
(* the hands of who asked for it, and in its place of the memory.          *)
RightInv ==
  /\ \A k \in DOMAIN file : file[k] \in Answers => CacheKey(file[k].of) = k
  /\ \A c \in Clients :
       task[c].outcome \in Answers => task[c].outcome.of = task[c].request
  /\ \A c \in Clients, r \in Remembered :
       memo[c][r] \in Answers => memo[c][r].of = r

(* Two clients on one request have spoiled it; a file that does not parse  *)
(* is being written, or its request is spoiled; and a file that is being   *)
(* written stays empty until then, unless its request is spoiled.          *)
Writing(c, r) == task[c].at = "write" /\ task[c].request = r

TwoSpoil ==
  \A c, d \in Clients :
    c # d /\ task[c].at # "idle" /\ task[d].at # "idle"
      /\ task[c].request = task[d].request
    => task[c].request \in spoiled
TornIsWritten ==
  \A r \in Requests :
    CacheKey(r) \in DOMAIN file /\ file[CacheKey(r)] = Torn =>
      r \in spoiled \/ \E c \in Clients : Writing(c, r)
WrittenIsTorn ==
  \A c \in Clients, r \in Requests :
    Writing(c, r) => r \in spoiled \/ file[CacheKey(r)] = Torn
LostIsSpoiled ==
  /\ \A c \in Clients, r \in Remembered : memo[c][r] = Broken => r \in spoiled
  /\ BrokenOnlyIf
TornInv == TwoSpoil /\ TornIsWritten /\ WrittenIsTorn /\ LostIsSpoiled

(* The stamp is that of the last call, and a sleep lasts for what is left  *)
(* of the interval.                                                        *)
SpacedInv ==
  \A c \in Clients :
    /\ gap[c] = since[c]
    /\ task[c].at = "sleep" => pause[c] >= MinInterval - since[c]

-----------------------------------------------------------------------------
(* The constants.                                                          *)
LEMMA Constants ==
  /\ Remembered \subseteq Requests
  /\ MinInterval \in Nat /\ MaxRetries \in Nat \ {0}
BY HistoryAssumption

(* Requests with the same key are the same.                                *)
LEMMA KeysDiffer ==
  ASSUME NEW q \in Requests, NEW r \in Requests, CacheKey(q) = CacheKey(r)
  PROVE  q = r
<1>1. q.path = r.path /\ q.params = r.params
  BY DEF CacheKey
<1>2. q = [path |-> q.path, params |-> q.params]
  BY HistoryAssumption
<1>3. r = [path |-> r.path, params |-> r.params]
  BY HistoryAssumption
<1> QED BY <1>1, <1>2, <1>3

(* What a file or an outcome is: an answer is none of the marks.           *)
LEMMA Marks ==
  /\ Torn \notin Answers /\ Unread \notin Answers /\ Refused \notin Answers
  /\ Broken \notin Answers /\ Broken # Unread /\ Broken # Refused
  /\ Unread \in Outcomes /\ Refused \in Outcomes /\ Broken \in Outcomes
  /\ Answers \subseteq Outcomes
BY DEF Torn, Unread, Refused, Broken, Answers, Outcomes

(* Powers of two are naturals and grow: the sizes of sets of subsets.      *)
LEMMA Powers ==
  ASSUME NEW m \in Nat, NEW n \in Nat, m <= n
  PROVE  2 ^ m \in Nat /\ 2 ^ n \in Nat /\ 2 ^ m <= 2 ^ n
<1>1. \A k \in Nat : /\ IsFiniteSet(1 .. k) /\ Cardinality(1 .. k) = k
  BY FS_Interval
<1>2. \A k \in Nat : /\ IsFiniteSet(SUBSET (1 .. k))
                     /\ Cardinality(SUBSET (1 .. k)) = 2 ^ k
  BY <1>1, FS_SUBSET
<1>3. \A k \in Nat : 2 ^ k \in Nat
  BY <1>2, FS_CardinalityType
<1>4. SUBSET (1 .. m) \subseteq SUBSET (1 .. n)
  OBVIOUS
<1>5. Cardinality(SUBSET (1 .. m)) <= Cardinality(SUBSET (1 .. n))
  BY <1>2, <1>4, FS_Subset
<1> QED BY <1>2, <1>3, <1>5

LEMMA Pauses ==
  /\ Long \in Nat /\ MinInterval <= Long
  /\ \A n \in 0 .. MaxRetries - 1 : 2 ^ n \in 0 .. Long
<1>1. 2 ^ MaxRetries \in Nat
  BY Constants, Powers
<1>2. \A n \in 0 .. MaxRetries - 1 : 2 ^ n \in Nat /\ 2 ^ n <= 2 ^ MaxRetries
  BY Constants, Powers
<1> QED BY <1>1, <1>2, Constants DEF Long

(* What the end of a get leaves.                                           *)
LEMMA FinishIs ==
  ASSUME TypeInv, NEW c \in Clients, NEW outcome \in Outcomes, Finish(c, outcome)
  PROVE  /\ task' \in [Clients -> Tasks]
         /\ task'[c].at = "idle" /\ task'[c].outcome = outcome
         /\ task'[c].request = task[c].request
         /\ \A d \in Clients \ {c} : task'[d] = task[d]
         /\ memo' \in [Clients -> [Remembered -> Outcomes]]
         /\ \A d \in Clients, r \in Remembered :
              \/ memo'[d][r] = memo[d][r]
              \/ d = c /\ r = task[c].request /\ memo'[d][r] = outcome
<1>1. /\ task \in [Clients -> Tasks]
      /\ memo \in [Clients -> [Remembered -> Outcomes]]
  BY DEF TypeInv, TaskInv
<1>2. task' = [task EXCEPT ![c].at = "idle", ![c].outcome = outcome]
  BY DEF Finish
<1>3. [task[c] EXCEPT !.at = "idle", !.outcome = outcome] \in Tasks
  BY <1>1 DEF Tasks, At
<1>4. /\ task' \in [Clients -> Tasks]
      /\ task'[c].at = "idle" /\ task'[c].outcome = outcome
      /\ task'[c].request = task[c].request
      /\ \A d \in Clients \ {c} : task'[d] = task[d]
  BY <1>1, <1>2, <1>3 DEF Tasks
<1>5. CASE task[c].request \in Remembered
  <2>1. memo' = [memo EXCEPT ![c][task[c].request] = outcome]
    BY <1>5 DEF Finish
  <2> QED BY <1>1, <1>4, <1>5, <2>1
<1>6. CASE task[c].request \notin Remembered
  <2>1. memo' = memo
    BY <1>6 DEF Finish
  <2> QED BY <1>1, <1>4, <2>1
<1> QED BY <1>5, <1>6

(* What a write to the directory leaves.                                   *)
LEMMA PutIs ==
  ASSUME NEW r \in Requests, NEW content, Put(r, content)
  PROVE  /\ DOMAIN file' = DOMAIN file \cup {CacheKey(r)}
         /\ file'[CacheKey(r)] = content
         /\ \A k \in DOMAIN file : k # CacheKey(r) => file'[k] = file[k]
BY DEF Put

-----------------------------------------------------------------------------
(* Types.                                                                  *)

(* No step removes a file.                                                 *)
LEMMA FilesStay ==
  ASSUME NEW r, NEW content, Put(r, content)
  PROVE  DOMAIN file \subseteq DOMAIN file'
BY DEF Put

LEMMA PutTyped ==
  ASSUME TypeInv, NEW r \in Requests, NEW content \in Answers \cup {Torn},
         Put(r, content)
  PROVE  \A k \in DOMAIN file' : file'[k] \in Answers \cup {Torn}
<1>1. \A k \in DOMAIN file : file[k] \in Answers \cup {Torn}
  BY DEF TypeInv
<1> QED BY <1>1, PutIs

LEMMA PutSpares ==
  ASSUME NEW r \in Requests, NEW content, Put(r, content),
         NEW q \in Requests \ {r}
  PROVE  /\ CacheKey(q) \in DOMAIN file' => CacheKey(q) \in DOMAIN file
         /\ CacheKey(q) \in DOMAIN file => file'[CacheKey(q)] = file[CacheKey(q)]
<1>1. CacheKey(q) # CacheKey(r)
  BY KeysDiffer
<1>2. DOMAIN file' = DOMAIN file \cup {CacheKey(r)}
  BY PutIs
<1>3. \A k \in DOMAIN file : k # CacheKey(r) => file'[k] = file[k]
  BY PutIs
<1> QED BY <1>1, <1>2, <1>3

(* A step of one client leaves it well-formed, and with it all of them.    *)
LEMMA OneTaskTyped ==
  ASSUME TaskInv, NEW c \in Clients, NEW new \in Tasks,
         task' = [task EXCEPT ![c] = new],
         new.at # "idle" => new.request \in Requests,
         new.at \in {"read", "write"} => CacheKey(new.request) \in DOMAIN file',
         new.at = "write" => new.outcome \in Answers,
         DOMAIN file \subseteq DOMAIN file'
  PROVE  TaskInv'
<1>1. task \in [Clients -> Tasks]
  BY DEF TaskInv
<1>2. task' \in [Clients -> Tasks]
  BY <1>1
<1>3. task'[c] = new /\ \A d \in Clients \ {c} : task'[d] = task[d]
  BY <1>1
<1>4. ASSUME NEW d \in Clients
      PROVE  /\ task'[d].at # "idle" => task'[d].request \in Requests
             /\ task'[d].at \in {"read", "write"} =>
                  CacheKey(task'[d].request) \in DOMAIN file'
             /\ task'[d].at = "write" => task'[d].outcome \in Answers
  <2>1. CASE d = c
    BY <1>3, <2>1
  <2>2. CASE d # c
    BY <1>3, <2>2 DEF TaskInv
  <2> QED BY <2>1, <2>2
<1> QED BY <1>2, <1>4 DEF TaskInv

(* The end of a get leaves everything well-formed.                         *)
LEMMA FinishTyped ==
  ASSUME TypeInv, NEW c \in Clients, NEW outcome \in Outcomes, Finish(c, outcome),
         \A k \in DOMAIN file' : file'[k] \in Answers \cup {Torn},
         DOMAIN file \subseteq DOMAIN file',
         UNCHANGED <<vendor, limiter>>
  PROVE  TypeInv'
<1>1. TaskInv
  BY DEF TypeInv
<1>2. PICK new \in Tasks : new.at = "idle" /\ task' = [task EXCEPT ![c] = new]
  <2>1. task'[c] \in Tasks /\ task'[c].at = "idle"
    BY FinishIs
  <2>2. task' = [task EXCEPT ![c] = task'[c]]
    BY <1>1 DEF Finish, TaskInv
  <2> QED BY <2>1, <2>2
<1>3. TaskInv'
  BY <1>1, <1>2, OneTaskTyped
<1>4. memo' \in [Clients -> [Remembered -> Outcomes]]
  BY FinishIs
<1> QED BY <1>3, <1>4 DEF TypeInv, limiter

(* A step of one client that is not over.                                  *)
LEMMA StepTyped ==
  ASSUME TypeInv, NEW c \in Clients, NEW at \in {"wait", "sleep", "call"},
         NEW attempt \in 0 .. MaxRetries - 1,
         task[c].at # "idle", UNCHANGED file,
         task' = [task EXCEPT ![c].at = at, ![c].attempt = attempt]
  PROVE  TaskInv'
<1>1. TaskInv
  BY DEF TypeInv
<1> DEFINE new == [task[c] EXCEPT !.at = at, !.attempt = attempt]
<1>2. new \in Tasks /\ new.at = at /\ new.request = task[c].request
  BY <1>1 DEF TaskInv, Tasks, At
<1>3. task' = [task EXCEPT ![c] = new] /\ new.request \in Requests
  BY <1>1, <1>2 DEF TaskInv
<1> HIDE DEF new
<1> QED BY <1>1, <1>2, <1>3, OneTaskTyped

LEMMA TypeStep == TypeInv /\ [Next]_vars => TypeInv'
<1> SUFFICES ASSUME TypeInv, [Next]_vars PROVE TypeInv'
  OBVIOUS
<1>a. /\ \A k \in DOMAIN file : file[k] \in Answers \cup {Torn}
      /\ vendor \in [Requests -> {0, 1}]
      /\ TaskInv
      /\ memo \in [Clients -> [Remembered -> Outcomes]]
      /\ since \in [Clients -> 0 .. MinInterval]
      /\ gap \in [Clients -> 0 .. MinInterval]
      /\ pause \in [Clients -> 0 .. Long]
  BY DEF TypeInv
<1>b. \A c \in Clients : /\ task[c] \in Tasks
                         /\ task[c].attempt \in 0 .. MaxRetries - 1
  BY <1>a DEF TaskInv, Tasks
<1>1. ASSUME NEW c \in Clients, Read(c) PROVE TypeInv'
  <2>1. CacheKey(task[c].request) \in DOMAIN file
    BY <1>1, <1>a DEF Read, TaskInv
  <2>2. file[CacheKey(task[c].request)] \in Answers \cup {Torn}
    BY <1>a, <2>1
  <2>3. PICK outcome \in Outcomes : Finish(c, outcome)
    BY <1>1, <2>2, Marks DEF Read
  <2>4. UNCHANGED <<file, vendor, limiter>>
    BY <1>1 DEF Read
  <2> QED BY <1>a, <2>3, <2>4, FinishTyped
<1>2. ASSUME NEW c \in Clients, Wait(c) PROVE TypeInv'
  <2>1. ToWait(c) \in 0 .. Long
    BY <1>a, Pauses, Constants DEF ToWait
  <2>2. pause' \in [Clients -> 0 .. Long]
    BY <1>2, <1>a, <2>1 DEF Wait
  <2>3. task' = [task EXCEPT ![c].at = "sleep", ![c].attempt = task[c].attempt]
    BY <1>2, <1>b DEF Wait, Step, Tasks
  <2>4. TaskInv'
    BY <1>2, <1>b, <2>3, StepTyped DEF Wait
  <2> QED BY <1>2, <1>a, <2>2, <2>4 DEF TypeInv, Wait
<1>3. ASSUME NEW c \in Clients, Send(c) PROVE TypeInv'
  <2>1. /\ since' \in [Clients -> 0 .. MinInterval]
        /\ gap' \in [Clients -> 0 .. MinInterval]
    BY <1>3, <1>a, Constants DEF Send
  <2>2. task' = [task EXCEPT ![c].at = "call", ![c].attempt = task[c].attempt]
    BY <1>3, <1>b DEF Send, Step, Tasks
  <2>3. TaskInv'
    BY <1>3, <1>b, <2>2, StepTyped DEF Send
  <2> QED BY <1>3, <1>a, <2>1, <2>3 DEF TypeInv, Send
<1>4. ASSUME NEW c \in Clients, Answer(c) PROVE TypeInv'
  <2> DEFINE r == task[c].request
             mine == [of |-> r, version |-> vendor[r]]
             new == [task[c] EXCEPT !.at = "write", !.outcome = mine]
  <2>1. r \in Requests
    BY <1>4, <1>a DEF Answer, TaskInv
  <2>2. mine \in Answers
    BY <1>a, <2>1 DEF Answers
  <2>3. new \in Tasks /\ new.at = "write" /\ new.request = r /\ new.outcome = mine
    BY <1>b, <2>2, Marks DEF Tasks, At
  <2>4. task' = [task EXCEPT ![c] = new] /\ Put(r, Torn)
    BY <1>4, <1>b DEF Answer
  <2>5. DOMAIN file \subseteq DOMAIN file' /\ CacheKey(r) \in DOMAIN file'
    BY <2>1, <2>4, PutIs
  <2>6. \A k \in DOMAIN file' : file'[k] \in Answers \cup {Torn}
    BY <2>1, <2>4, PutTyped
  <2> HIDE DEF new
  <2>7. TaskInv'
    BY <1>a, <2>1, <2>2, <2>3, <2>4, <2>5, OneTaskTyped
  <2> QED BY <1>4, <1>a, <2>6, <2>7 DEF TypeInv, Answer, limiter
<1>5. ASSUME NEW c \in Clients, TooMany(c) PROVE TypeInv'
  <2>1. CASE LastAttempt(c)
    <3>1. Finish(c, Refused) /\ UNCHANGED <<file, vendor, limiter>>
      BY <1>5, <2>1 DEF TooMany, limiter
    <3> QED BY <1>a, <3>1, FinishTyped, Marks
  <2>2. CASE ~LastAttempt(c)
    <3>1. NextAttempt(c) \in 0 .. MaxRetries - 1
      BY <1>b, <2>2, Constants DEF LastAttempt, NextAttempt
    <3>2. pause' \in [Clients -> 0 .. Long]
      BY <1>5, <1>a, <1>b, <2>2, Pauses DEF TooMany
    <3>3. TaskInv'
      BY <1>5, <2>2, <3>1, StepTyped DEF TooMany
    <3> QED BY <1>5, <1>a, <2>2, <3>2, <3>3 DEF TypeInv, TooMany
  <2> QED BY <2>1, <2>2
<1>6. ASSUME NEW c \in Clients, Error(c) PROVE TypeInv'
  <2>1. Finish(c, Refused) /\ UNCHANGED <<file, vendor, limiter>>
    BY <1>6 DEF Error
  <2> QED BY <1>a, <2>1, FinishTyped, Marks
<1>7. ASSUME NEW c \in Clients, Write(c) PROVE TypeInv'
  <2>1. task[c].request \in Requests /\ task[c].outcome \in Answers
    BY <1>7, <1>a DEF Write, TaskInv
  <2>2. PICK content \in Answers \cup {Torn} : Put(task[c].request, content)
    BY <1>7, <2>1 DEF Write
  <2>3. \A k \in DOMAIN file' : file'[k] \in Answers \cup {Torn}
    BY <2>1, <2>2, PutTyped
  <2>4. Finish(c, task[c].outcome) /\ UNCHANGED <<vendor, limiter>>
    BY <1>7 DEF Write
  <2>5. DOMAIN file \subseteq DOMAIN file'
    BY <2>2, FilesStay
  <2> QED BY <2>1, <2>3, <2>4, <2>5, FinishTyped, Marks
<1>8. ASSUME NEW c \in Clients, WriteFails(c) PROVE TypeInv'
  <2>1. Finish(c, Broken) /\ UNCHANGED <<file, vendor, limiter>>
    BY <1>8 DEF WriteFails
  <2> QED BY <1>a, <2>1, FinishTyped, Marks
<1>9. ASSUME NEW c \in Clients, NewRun(c) PROVE TypeInv'
  <2>1. Idle \in Tasks /\ Idle.at = "idle"
    BY Constants, Marks DEF Idle, Tasks, At
  <2>2. TaskInv'
    BY <1>9, <1>a, <2>1, OneTaskTyped DEF NewRun
  <2>3. memo' \in [Clients -> [Remembered -> Outcomes]]
    BY <1>9, <1>a, Marks DEF NewRun
  <2>4. /\ since' \in [Clients -> 0 .. MinInterval]
        /\ gap' \in [Clients -> 0 .. MinInterval]
        /\ pause' \in [Clients -> 0 .. Long]
    BY <1>9, <1>a, Constants, Pauses DEF NewRun
  <2> QED BY <1>9, <1>a, <2>2, <2>3, <2>4 DEF TypeInv, NewRun
<1>10. ASSUME NEW c \in Clients, NEW r \in Requests, Get(c, r) PROVE TypeInv'
  <2> DEFINE known == r \in Remembered /\ memo[c][r] # Unread
             at    == CASE known -> "idle"
                        [] ~known /\ Cached(r) -> "read"
                        [] OTHER -> "sleep"
             new   == [at |-> at, request |-> r, attempt |-> 0,
                       outcome |-> IF known THEN memo[c][r] ELSE Unread]
  <2>1. at \in {"idle", "read", "sleep"} /\ (at = "read" => Cached(r))
    OBVIOUS
  <2>2. ToWait(c) \in 0 .. Long
    BY <1>a, Pauses, Constants DEF ToWait
  <2>3. task' = [task EXCEPT ![c] = new] /\ UNCHANGED file
    BY <1>10 DEF Get
  <2>4. pause' = [pause EXCEPT ![c] = IF at = "sleep" THEN ToWait(c) ELSE 0]
    BY <1>10 DEF Get
  <2> HIDE DEF at
  <2>5. pause' \in [Clients -> 0 .. Long]
    BY <1>a, <2>2, <2>4, Pauses
  <2>6. (IF known THEN memo[c][r] ELSE Unread) \in Outcomes
    BY <1>a, Marks
  <2>7. new \in Tasks /\ new.at = at /\ new.request = r
    BY <2>1, <2>6, Constants DEF Tasks, At
  <2>8. at = "read" => CacheKey(r) \in DOMAIN file
    BY <2>1 DEF Cached
  <2> HIDE DEF new, known
  <2>9. TaskInv'
    BY <1>a, <2>1, <2>3, <2>7, <2>8, OneTaskTyped
  <2> QED BY <1>10, <1>a, <2>5, <2>9 DEF TypeInv, Get
<1>11. ASSUME NEW r \in Requests, Publish(r) PROVE TypeInv'
  BY <1>11, <1>a DEF TypeInv, Publish, TaskInv, limiter
<1>12. CASE Tick
  <2>1. /\ since' \in [Clients -> 0 .. MinInterval]
        /\ gap' \in [Clients -> 0 .. MinInterval]
        /\ pause' \in [Clients -> 0 .. Long]
    BY <1>12, <1>a, Constants, Pauses DEF Tick
  <2> QED BY <1>12, <1>a, <2>1 DEF TypeInv, Tick, TaskInv
<1>13. CASE UNCHANGED vars
  BY <1>13, <1>a DEF TypeInv, vars, TaskInv, limiter
<1> QED BY <1>1, <1>2, <1>3, <1>4, <1>5, <1>6, <1>7, <1>8, <1>9, <1>10, <1>11,
           <1>12, <1>13 DEF Next, Go

LEMMA TypeInit == Init => TypeInv
<1> SUFFICES ASSUME Init PROVE TypeInv
  OBVIOUS
<1>1. DOMAIN file = {}
  BY DEF Init
<1>2. Idle \in Tasks /\ Idle.at = "idle"
  BY Constants, Marks DEF Idle, Tasks, At
<1>3. TaskInv
  BY <1>2 DEF Init, TaskInv
<1>4. vendor \in [Requests -> {0, 1}]
  BY DEF Init
<1>5. memo \in [Clients -> [Remembered -> Outcomes]]
  BY Marks DEF Init
<1>6. /\ since \in [Clients -> 0 .. MinInterval]
      /\ gap \in [Clients -> 0 .. MinInterval]
      /\ pause \in [Clients -> 0 .. Long]
  BY Constants, Pauses DEF Init
<1> QED BY <1>1, <1>3, <1>4, <1>5, <1>6 DEF TypeInv

(* The directory, the runs and their limiters are well-formed.             *)
THEOREM TypeCorrect == Spec => []TypeInv
<1> QED BY TypeInit, TypeStep, PTL DEF Spec

LEMMA TypeImplies == TypeInv => TypeOK
<1> SUFFICES ASSUME TypeInv PROVE TypeOK
  OBVIOUS
<1>1. ASSUME NEW c \in Clients
      PROVE  /\ task[c].at \in At
             /\ task[c].attempt \in 0 .. MaxRetries - 1
             /\ task[c].outcome \in Outcomes
  BY DEF TypeInv, TaskInv, Tasks
<1>2. ASSUME NEW c \in Clients
      PROVE  {since[c], gap[c]} \subseteq 0 .. MinInterval /\ pause[c] \in 0 .. Long
  BY DEF TypeInv
<1>3. \A k \in DOMAIN file : file[k] \in Answers \cup {Torn}
  BY DEF TypeInv
<1> QED BY <1>1, <1>2, <1>3 DEF TypeOK, At, Long

-----------------------------------------------------------------------------
(* The right answer.                                                       *)

(* A get that ends with nothing, or with an answer to its own request,     *)
(* leaves every answer where it belongs.                                   *)
LEMMA FinishRight ==
  ASSUME TypeInv, RightInv, NEW c \in Clients, NEW outcome \in Outcomes,
         Finish(c, outcome),
         outcome \in Answers => outcome.of = task[c].request,
         \A k \in DOMAIN file' : file'[k] \in Answers => CacheKey(file'[k].of) = k
  PROVE  RightInv'
<1>1. ASSUME NEW d \in Clients, task'[d].outcome \in Answers
      PROVE  task'[d].outcome.of = task'[d].request
  <2>1. CASE d = c
    BY <1>1, <2>1, FinishIs
  <2>2. CASE d # c
    BY <1>1, <2>2, FinishIs DEF RightInv
  <2> QED BY <2>1, <2>2
<1>2. ASSUME NEW d \in Clients, NEW r \in Remembered, memo'[d][r] \in Answers
      PROVE  memo'[d][r].of = r
  <2>1. CASE memo'[d][r] = memo[d][r]
    BY <1>2, <2>1 DEF RightInv
  <2>2. CASE r = task[c].request /\ memo'[d][r] = outcome
    BY <1>2, <2>2
  <2> QED BY <2>1, <2>2, FinishIs
<1> QED BY <1>1, <1>2 DEF RightInv

(* A step of one client that is not over, with the outcome it had or an    *)
(* answer to its request.                                                  *)
LEMMA StepRight ==
  ASSUME TypeInv, RightInv, NEW c \in Clients, NEW new,
         task' = [task EXCEPT ![c] = new], UNCHANGED memo,
         new.outcome \in Answers => new.outcome.of = new.request,
         \A k \in DOMAIN file' : file'[k] \in Answers => CacheKey(file'[k].of) = k
  PROVE  RightInv'
<1>1. task'[c] = new /\ \A d \in Clients \ {c} : task'[d] = task[d]
  BY DEF TypeInv, TaskInv
<1>2. ASSUME NEW d \in Clients, task'[d].outcome \in Answers
      PROVE  task'[d].outcome.of = task'[d].request
  BY <1>1, <1>2 DEF RightInv
<1> QED BY <1>2 DEF RightInv

(* Writing an answer into the file of its request, or nothing, keeps the   *)
(* directory right.                                                        *)
LEMMA PutRight ==
  ASSUME RightInv, NEW r \in Requests, NEW content, Put(r, content),
         content \in Answers => content.of = r
  PROVE  \A k \in DOMAIN file' : file'[k] \in Answers => CacheKey(file'[k].of) = k
<1> SUFFICES ASSUME NEW k \in DOMAIN file', file'[k] \in Answers
             PROVE  CacheKey(file'[k].of) = k
  OBVIOUS
<1>1. CASE k = CacheKey(r)
  BY <1>1, PutIs
<1>2. CASE k # CacheKey(r)
  <2>1. DOMAIN file' = DOMAIN file \cup {CacheKey(r)}
    BY PutIs
  <2>2. k \in DOMAIN file
    BY <1>2, <2>1
  <2>3. file'[k] = file[k]
    BY <1>2, <2>2, PutIs
  <2> QED BY <2>2, <2>3 DEF RightInv
<1> QED BY <1>1, <1>2

LEMMA RightStep == TypeInv /\ RightInv /\ [Next]_vars => RightInv'
<1> SUFFICES ASSUME TypeInv, RightInv, [Next]_vars PROVE RightInv'
  OBVIOUS
<1>a. /\ task \in [Clients -> Tasks] /\ memo \in [Clients -> [Remembered -> Outcomes]]
      /\ \A k \in DOMAIN file : file[k] \in Answers => CacheKey(file[k].of) = k
      /\ \A c \in Clients : task[c] \in Tasks
  BY DEF TypeInv, TaskInv, RightInv
<1>1. ASSUME NEW c \in Clients, Read(c) PROVE RightInv'
  <2> DEFINE r == task[c].request
             found == file[CacheKey(r)]
             outcome == IF found = Torn THEN Broken ELSE found
  <2>1. r \in Requests /\ CacheKey(r) \in DOMAIN file
    BY <1>1 DEF Read, TypeInv, TaskInv
  <2>2. found \in Answers \cup {Torn}
    BY <2>1 DEF TypeInv
  <2>3. outcome \in Outcomes
    BY <2>2, Marks
  <2>4. ASSUME outcome \in Answers PROVE outcome.of = r
    <3>1. outcome = found /\ found \in Answers
      BY <2>4, Marks
    <3>2. CacheKey(found.of) = CacheKey(r)
      BY <1>a, <2>1, <3>1
    <3>3. found.of \in Requests
      BY <3>1 DEF Answers
    <3> QED BY <2>1, <3>1, <3>2, <3>3, KeysDiffer
  <2>5. Finish(c, outcome) /\ UNCHANGED file
    BY <1>1 DEF Read
  <2> HIDE DEF outcome
  <2> QED BY <1>a, <2>3, <2>4, <2>5, FinishRight
<1>2. ASSUME NEW c \in Clients, Wait(c) \/ Send(c) PROVE RightInv'
  <2>1. PICK at : /\ task' = [task EXCEPT ![c].at = at]
                  /\ UNCHANGED <<file, memo>>
    BY <1>2 DEF Wait, Send, Step
  <2> DEFINE new == [task[c] EXCEPT !.at = at]
  <2>2. /\ task' = [task EXCEPT ![c] = new]
        /\ new.outcome = task[c].outcome /\ new.request = task[c].request
    BY <1>a, <2>1 DEF Tasks
  <2>3. new.outcome \in Answers => new.outcome.of = new.request
    BY <2>2 DEF RightInv
  <2> HIDE DEF new
  <2> QED BY <1>a, <2>1, <2>2, <2>3, StepRight
<1>3. ASSUME NEW c \in Clients, Answer(c) PROVE RightInv'
  <2> DEFINE r == task[c].request
             mine == [of |-> r, version |-> vendor[r]]
             new == [task[c] EXCEPT !.at = "write", !.outcome = mine]
  <2>1. r \in Requests
    BY <1>3 DEF Answer, TypeInv, TaskInv
  <2>2. /\ task' = [task EXCEPT ![c] = new] /\ Put(r, Torn) /\ UNCHANGED memo
        /\ new.outcome.of = new.request
    BY <1>3, <1>a DEF Answer, Tasks
  <2> HIDE DEF new
  <2> QED BY <2>1, <2>2, Marks, PutRight, StepRight
<1>4. ASSUME NEW c \in Clients, TooMany(c) PROVE RightInv'
  <2>1. CASE LastAttempt(c)
    <3>1. Finish(c, Refused) /\ UNCHANGED file
      BY <1>4, <2>1 DEF TooMany
    <3> QED BY <1>a, <3>1, FinishRight, Marks
  <2>2. CASE ~LastAttempt(c)
    <3> DEFINE new == [task[c] EXCEPT !.at = "wait", !.attempt = NextAttempt(c)]
    <3>1. /\ task' = [task EXCEPT ![c] = new] /\ UNCHANGED <<file, memo>>
          /\ new.outcome = task[c].outcome /\ new.request = task[c].request
      BY <1>4, <1>a, <2>2 DEF TooMany, Tasks
    <3>2. new.outcome \in Answers => new.outcome.of = new.request
      BY <3>1 DEF RightInv
    <3> HIDE DEF new
    <3> QED BY <1>a, <3>1, <3>2, StepRight
  <2> QED BY <2>1, <2>2
<1>5. ASSUME NEW c \in Clients, Error(c) \/ WriteFails(c) PROVE RightInv'
  <2>1. PICK outcome \in {Refused, Broken} : Finish(c, outcome) /\ UNCHANGED file
    BY <1>5 DEF Error, WriteFails
  <2> QED BY <1>a, <2>1, FinishRight, Marks
<1>6. ASSUME NEW c \in Clients, Write(c) PROVE RightInv'
  <2> DEFINE r == task[c].request
             mine == task[c].outcome
  <2>1. r \in Requests /\ mine \in Answers
    BY <1>6 DEF Write, TypeInv, TaskInv
  <2>2. mine.of = r
    BY <2>1 DEF RightInv
  <2>3. PICK content \in {mine, Torn} : Put(r, content)
    BY <1>6 DEF Write
  <2>4. content \in Answers => content.of = r
    BY <2>2, Marks
  <2>5. \A k \in DOMAIN file' : file'[k] \in Answers => CacheKey(file'[k].of) = k
    BY <2>1, <2>3, <2>4, PutRight
  <2>6. Finish(c, mine) /\ mine \in Outcomes
    BY <1>6, <2>1, Marks DEF Write
  <2> QED BY <2>2, <2>5, <2>6, FinishRight
<1>7. ASSUME NEW c \in Clients, NewRun(c) PROVE RightInv'
  <2>1. task' = [task EXCEPT ![c] = Idle] /\ file' = file /\ Idle.outcome = Unread
    BY <1>7 DEF NewRun, Idle
  <2>2. ASSUME NEW d \in Clients, task'[d].outcome \in Answers
        PROVE  task'[d].outcome.of = task'[d].request
    BY <1>a, <2>1, <2>2, Marks DEF RightInv
  <2>3. ASSUME NEW d \in Clients, NEW r \in Remembered, memo'[d][r] \in Answers
        PROVE  memo'[d][r].of = r
    <3>1. memo'[d][r] = Unread \/ memo'[d][r] = memo[d][r]
      BY <1>7, <1>a DEF NewRun
    <3> QED BY <2>3, <3>1, Marks DEF RightInv
  <2> QED BY <1>a, <2>1, <2>2, <2>3 DEF RightInv
<1>8. ASSUME NEW c \in Clients, NEW r \in Requests, Get(c, r) PROVE RightInv'
  <2> DEFINE known == r \in Remembered /\ memo[c][r] # Unread
             at    == CASE known -> "idle"
                        [] ~known /\ Cached(r) -> "read"
                        [] OTHER -> "sleep"
             new   == [at |-> at, request |-> r, attempt |-> 0,
                       outcome |-> IF known THEN memo[c][r] ELSE Unread]
  <2>a. task' = [task EXCEPT ![c] = new] /\ UNCHANGED <<file, memo>>
    BY <1>8 DEF Get
  <2> HIDE DEF at
  <2>1. /\ task' = [task EXCEPT ![c] = new] /\ UNCHANGED <<file, memo>>
        /\ new.request = r
        /\ \/ r \in Remembered /\ new.outcome = memo[c][r]
           \/ new.outcome = Unread
    BY <2>a
  <2> HIDE DEF new
  <2>2. new.outcome \in Answers => new.outcome.of = new.request
    BY <2>1, Marks DEF RightInv
  <2> QED BY <1>a, <2>1, <2>2, StepRight
<1>9. CASE (\E r \in Requests : Publish(r)) \/ Tick \/ UNCHANGED vars
  BY <1>9 DEF RightInv, Publish, Tick, vars
<1> QED BY <1>1, <1>2, <1>3, <1>4, <1>5, <1>6, <1>7, <1>8, <1>9 DEF Next, Go

(* Whatever a run is given is the answer to its own request, whoever       *)
(* shares the directory with it and whenever they are killed.              *)
THEOREM RightCorrect == Spec => []RightAnswer
<1>1. Init => RightInv
  <2> SUFFICES ASSUME Init PROVE RightInv
    OBVIOUS
  <2>1. /\ DOMAIN file = {}
        /\ \A c \in Clients : task[c].outcome = Unread
        /\ \A c \in Clients, r \in Remembered : memo[c][r] = Unread
    BY DEF Init, Idle
  <2> QED BY <2>1, Marks DEF RightInv
<1>2. TypeInv /\ RightInv => RightAnswer
  BY TypeImplies DEF RightInv, RightAnswer
<1> QED BY <1>1, <1>2, RightStep, TypeCorrect, PTL DEF Spec

-----------------------------------------------------------------------------
(* What a run loses.                                                       *)

(* The steps of one client leave the others where they are.                *)
LEMMA OthersStay ==
  ASSUME TypeInv, NEW c \in Clients,
         Go(c) \/ WriteFails(c) \/ NewRun(c) \/ \E r \in Requests : Get(c, r)
  PROVE  \A d \in Clients \ {c} : task'[d] = task[d]
<1>1. task \in [Clients -> Tasks]
  BY DEF TypeInv, TaskInv
<1>2. PICK new : task' = [task EXCEPT ![c] = new]
  <2>1. CASE Go(c) \/ WriteFails(c)
    BY <2>1, <1>1 DEF Go, Read, Wait, Send, Answer, TooMany, Error, Write, WriteFails,
                      Finish, Step
  <2>2. CASE NewRun(c)
    BY <2>2 DEF NewRun
  <2>3. ASSUME NEW r \in Requests, Get(c, r) PROVE \E new : task' = [task EXCEPT ![c] = new]
    BY <2>3 DEF Get
  <2> QED BY <2>1, <2>2, <2>3
<1> QED BY <1>1, <1>2

(* Requests once spoiled stay so.                                          *)
LEMMA SpoiledStays == [Next]_vars => spoiled \subseteq spoiled'
BY DEF Next, Go, Read, Wait, Send, Answer, TooMany, Error, Write, WriteFails,
       NewRun, Get, Publish, Tick, vars

(* A client that is at work after a step was so before, with the same      *)
(* request, unless the step was its get.                                   *)
LEMMA AtWorkStays ==
  ASSUME TypeInv, [Next]_vars, ~\E c \in Clients, r \in Requests : Get(c, r),
         NEW d \in Clients, task'[d].at # "idle"
  PROVE  task[d].at # "idle" /\ task'[d].request = task[d].request
<1>1. task \in [Clients -> Tasks]
  BY DEF TypeInv, TaskInv
<1>2. ASSUME NEW c \in Clients, Go(c) \/ WriteFails(c) \/ NewRun(c) PROVE
        task[d].at # "idle" /\ task'[d].request = task[d].request
  <2>1. CASE d # c
    BY <1>2, <2>1, OthersStay
  <2>2. CASE d = c /\ Go(c)
    <3>1. CASE Read(c) \/ Error(c) \/ Write(c)
      BY <1>1, <2>2, <3>1 DEF Read, Error, Write, Finish, Tasks
    <3>2. CASE Wait(c) \/ Send(c) \/ Answer(c)
      BY <1>1, <2>2, <3>2 DEF Wait, Send, Answer, Step, Tasks
    <3>3. CASE TooMany(c)
      BY <1>1, <2>2, <3>3 DEF TooMany, Finish, Tasks
    <3> QED BY <2>2, <3>1, <3>2, <3>3 DEF Go
  <2>3. CASE d = c /\ WriteFails(c)
    BY <1>1, <2>3 DEF WriteFails, Finish, Tasks
  <2>4. CASE d = c /\ NewRun(c)
    BY <1>1, <2>4 DEF NewRun, Idle
  <2> QED BY <1>2, <2>1, <2>2, <2>3, <2>4
<1>3. CASE (\E r \in Requests : Publish(r)) \/ Tick \/ UNCHANGED vars
  BY <1>3 DEF Publish, Tick, vars
<1> QED BY <1>2, <1>3 DEF Next

LEMMA TwoStep == TypeInv /\ TwoSpoil /\ [Next]_vars => TwoSpoil'
<1> SUFFICES ASSUME TypeInv, TwoSpoil, [Next]_vars,
                    NEW c \in Clients, NEW d \in Clients,
                    c # d, task'[c].at # "idle", task'[d].at # "idle",
                    task'[c].request = task'[d].request
             PROVE  task'[c].request \in spoiled'
  BY DEF TwoSpoil
<1>1. CASE ~\E e \in Clients, r \in Requests : Get(e, r)
  <2>1. /\ task[c].at # "idle" /\ task[d].at # "idle"
        /\ task[c].request = task[d].request /\ task'[c].request = task[c].request
    BY <1>1, AtWorkStays
  <2> QED BY <2>1, SpoiledStays DEF TwoSpoil
<1>2. ASSUME NEW e \in Clients, NEW r \in Requests, Get(e, r)
      PROVE  task'[c].request \in spoiled'
  <2>1. \A f \in Clients \ {e} : task'[f] = task[f]
    BY <1>2, OthersStay
  <2>2. task'[e].request = r
    BY <1>2 DEF Get, TypeInv, TaskInv
  <2>3. CASE c # e /\ d # e
    BY <2>1, <2>3, SpoiledStays DEF TwoSpoil
  <2>4. CASE c = e \/ d = e
    <3>1. PICK f \in {c, d} : f # e
      BY <2>4
    <3>2. f \in Working(r)
      BY <2>1, <2>2, <2>4, <3>1 DEF Working, Busy
    <3>3. r \in spoiled'
      BY <1>2, <3>2 DEF Get
    <3> QED BY <2>2, <2>4, <3>3
  <2> QED BY <2>3, <2>4
<1> QED BY <1>1, <1>2

(* A step that leaves the directory alone, and in which nobody opens or    *)
(* closes a file, except one whose request it spoils.                      *)
LEMMA DirectoryStays ==
  ASSUME TornIsWritten, WrittenIsTorn, UNCHANGED file, spoiled \subseteq spoiled',
         \A d \in Clients, r \in Requests : Writing(d, r)' => Writing(d, r),
         \A d \in Clients, r \in Requests :
           Writing(d, r) => Writing(d, r)' \/ r \in spoiled'
  PROVE  TornIsWritten' /\ WrittenIsTorn'
BY DEF TornIsWritten, WrittenIsTorn

LEMMA DirectoryStep ==
  TypeInv /\ TornInv /\ [Next]_vars => TornIsWritten' /\ WrittenIsTorn'
<1> SUFFICES ASSUME TypeInv, TornInv, [Next]_vars
             PROVE  TornIsWritten' /\ WrittenIsTorn'
  OBVIOUS
<1>a. /\ task \in [Clients -> Tasks] /\ \A c \in Clients : task[c] \in Tasks
      /\ TwoSpoil /\ TornIsWritten /\ WrittenIsTorn
      /\ spoiled \subseteq spoiled'
  BY SpoiledStays DEF TypeInv, TaskInv, TornInv
<1>1. ASSUME NEW c \in Clients,
             \/ Read(c) \/ Wait(c) \/ Send(c) \/ TooMany(c) \/ Error(c)
             \/ WriteFails(c) \/ NewRun(c) \/ \E r \in Requests : Get(c, r)
      PROVE  TornIsWritten' /\ WrittenIsTorn'
  <2>1. UNCHANGED file
    BY <1>1 DEF Read, Wait, Send, TooMany, Error, WriteFails, NewRun, Get
  <2>2. task'[c].at # "write"
    <3>1. CASE Read(c) \/ Error(c) \/ WriteFails(c)
      BY <1>a, <3>1 DEF Read, Error, WriteFails, Finish, Tasks
    <3>2. CASE Wait(c) \/ Send(c)
      BY <1>a, <3>2 DEF Wait, Send, Step, Tasks
    <3>3. CASE TooMany(c)
      BY <1>a, <3>3 DEF TooMany, Finish, Tasks
    <3>4. CASE NewRun(c)
      BY <1>a, <3>4 DEF NewRun, Idle
    <3>5. CASE \E r \in Requests : Get(c, r)
      BY <1>a, <3>5 DEF Get
    <3> QED BY <1>1, <3>1, <3>2, <3>3, <3>4, <3>5
  <2>3. \A r \in Requests : Writing(c, r) => r \in spoiled'
    BY <1>1 DEF Writing, Read, Wait, Send, TooMany, Error, WriteFails, NewRun,
                Get, Busy
  <2>4. \A d \in Clients \ {c} : task'[d] = task[d]
    BY <1>1, OthersStay DEF Go
  <2>5. ASSUME NEW d \in Clients, NEW r \in Requests
        PROVE  /\ Writing(d, r)' => Writing(d, r)
               /\ Writing(d, r) => Writing(d, r)' \/ r \in spoiled'
    BY <2>2, <2>3, <2>4 DEF Writing
  <2> QED BY <1>a, <2>1, <2>5, DirectoryStays
<1>2. ASSUME NEW c \in Clients, Answer(c) PROVE TornIsWritten' /\ WrittenIsTorn'
  <2>1. PICK r \in Requests : /\ r = task[c].request /\ Put(r, Torn)
                             /\ task[c].at = "call"
    BY <1>2 DEF Answer, TypeInv, TaskInv
  <2>2. Writing(c, r)'
    BY <1>2, <1>a, <2>1 DEF Answer, Writing, Tasks
  <2>3. \A d \in Clients \ {c} : task'[d] = task[d]
    BY <1>2, OthersStay DEF Go
  <2>4. file'[CacheKey(r)] = Torn
    BY <2>1, PutIs
  <2>5. \A q \in Requests \ {r} :
          /\ CacheKey(q) \in DOMAIN file' => CacheKey(q) \in DOMAIN file
          /\ CacheKey(q) \in DOMAIN file => file'[CacheKey(q)] = file[CacheKey(q)]
    BY <2>1, PutSpares
  <2>6. ASSUME NEW d \in Clients, NEW q \in Requests \ {r}
        PROVE  Writing(d, q)' <=> Writing(d, q)
    BY <2>1, <2>2, <2>3 DEF Writing
  <2>7. TornIsWritten'
    BY <1>a, <2>2, <2>5, <2>6 DEF TornIsWritten
  <2>8. ASSUME NEW d \in Clients, NEW q \in Requests, Writing(d, q)'
        PROVE  q \in spoiled' \/ file'[CacheKey(q)] = Torn
    <3>1. CASE q # r
      <4>1. Writing(d, q) /\ CacheKey(q) \in DOMAIN file
        BY <2>6, <2>8, <3>1 DEF Writing, TypeInv, TaskInv
      <4> QED BY <1>a, <2>5, <3>1, <4>1 DEF WrittenIsTorn
    <3> QED BY <2>4, <3>1
  <2>9. WrittenIsTorn'
    BY <2>8 DEF WrittenIsTorn
  <2> QED BY <2>7, <2>9
<1>3. ASSUME NEW c \in Clients, Write(c) PROVE TornIsWritten' /\ WrittenIsTorn'
  <2>1. PICK r \in Requests : /\ r = task[c].request /\ Writing(c, r)
                             /\ task[c].outcome \in Answers
    BY <1>3 DEF Write, TypeInv, TaskInv, Writing
  <2>2. PICK content : /\ Put(r, content)
                       /\ content = Torn => r \in spoiled
    BY <1>3, <1>a, <2>1, Marks DEF Write, WrittenIsTorn
  <2>3. task'[c].at = "idle"
    BY <1>3, <1>a DEF Write, Finish, Tasks
  <2>4. \A d \in Clients \ {c} : task'[d] = task[d]
    BY <1>3, OthersStay DEF Go
  <2>5. \A q \in Requests \ {r} :
          /\ CacheKey(q) \in DOMAIN file' => CacheKey(q) \in DOMAIN file
          /\ CacheKey(q) \in DOMAIN file => file'[CacheKey(q)] = file[CacheKey(q)]
    BY <2>2, PutSpares
  <2>6. file'[CacheKey(r)] = content
    BY <2>1, <2>2, PutIs
  <2>7. ASSUME NEW d \in Clients, NEW q \in Requests \ {r}
        PROVE  Writing(d, q)' <=> Writing(d, q)
    BY <2>1, <2>3, <2>4 DEF Writing
  <2>8. TornIsWritten'
    BY <1>a, <2>2, <2>5, <2>6, <2>7 DEF TornIsWritten
  <2>9. ASSUME NEW d \in Clients, NEW q \in Requests, Writing(d, q)'
        PROVE  q \in spoiled' \/ file'[CacheKey(q)] = Torn
    <3>1. CASE q # r
      <4>1. Writing(d, q) /\ CacheKey(q) \in DOMAIN file
        BY <2>7, <2>9, <3>1 DEF Writing, TypeInv, TaskInv
      <4> QED BY <1>a, <2>5, <3>1, <4>1 DEF WrittenIsTorn
    <3>2. CASE q = r
      <4>1. d # c /\ task[d] = task'[d]
        BY <2>3, <2>4, <2>9 DEF Writing
      <4>2. r \in spoiled
        BY <1>a, <2>1, <2>9, <3>2, <4>1 DEF TwoSpoil, Writing
      <4> QED BY <1>a, <3>2, <4>2
    <3> QED BY <3>1, <3>2
  <2>10. WrittenIsTorn'
    BY <2>9 DEF WrittenIsTorn
  <2> QED BY <2>8, <2>10
<1>4. CASE (\E r \in Requests : Publish(r)) \/ Tick \/ UNCHANGED vars
  <2>1. UNCHANGED <<file, task, spoiled>>
    BY <1>4 DEF Publish, Tick, vars
  <2>2. \A d \in Clients, r \in Requests : Writing(d, r)' <=> Writing(d, r)
    BY <2>1 DEF Writing
  <2> QED BY <1>a, <2>1, <2>2, DirectoryStays
<1> QED BY <1>1, <1>2, <1>3, <1>4 DEF Next, Go

(* A get that ends with what is lost only where its request is spoiled.    *)
LEMMA FinishLost ==
  ASSUME TypeInv, LostIsSpoiled, spoiled \subseteq spoiled',
         NEW c \in Clients, NEW outcome \in Outcomes, Finish(c, outcome),
         outcome = Broken => task[c].request \in spoiled'
  PROVE  LostIsSpoiled'
<1>1. ASSUME NEW d \in Clients, task'[d].outcome = Broken
      PROVE  task'[d].request \in spoiled'
  <2>1. CASE d = c
    BY <1>1, <2>1, FinishIs
  <2>2. CASE d # c
    BY <1>1, <2>2, FinishIs DEF LostIsSpoiled, BrokenOnlyIf
  <2> QED BY <2>1, <2>2
<1>2. ASSUME NEW d \in Clients, NEW r \in Remembered, memo'[d][r] = Broken
      PROVE  r \in spoiled'
  <2>1. CASE memo'[d][r] = memo[d][r]
    BY <1>2, <2>1 DEF LostIsSpoiled
  <2>2. CASE r = task[c].request /\ memo'[d][r] = outcome
    BY <1>2, <2>2
  <2> QED BY <2>1, <2>2, FinishIs
<1> QED BY <1>1, <1>2 DEF LostIsSpoiled, BrokenOnlyIf

(* A step of one client that leaves its memory alone.                      *)
LEMMA StepLost ==
  ASSUME TypeInv, LostIsSpoiled, spoiled \subseteq spoiled',
         NEW c \in Clients, UNCHANGED memo,
         \A d \in Clients \ {c} : task'[d] = task[d],
         task'[c].outcome = Broken => task'[c].request \in spoiled'
  PROVE  LostIsSpoiled'
BY DEF LostIsSpoiled, BrokenOnlyIf

LEMMA LostStep == TypeInv /\ TornInv /\ [Next]_vars => LostIsSpoiled'
<1> SUFFICES ASSUME TypeInv, TornInv, [Next]_vars PROVE LostIsSpoiled'
  OBVIOUS
<1>a. /\ task \in [Clients -> Tasks] /\ \A c \in Clients : task[c] \in Tasks
      /\ memo \in [Clients -> [Remembered -> Outcomes]]
      /\ TwoSpoil /\ TornIsWritten /\ LostIsSpoiled
      /\ spoiled \subseteq spoiled'
  BY SpoiledStays DEF TypeInv, TaskInv, TornInv
<1>1. ASSUME NEW c \in Clients, Read(c) PROVE LostIsSpoiled'
  <2>1. PICK r \in Requests : /\ r = task[c].request /\ CacheKey(r) \in DOMAIN file
                             /\ task[c].at = "read"
    BY <1>1 DEF Read, TypeInv, TaskInv
  <2> DEFINE outcome == IF file[CacheKey(r)] = Torn THEN Broken
                        ELSE file[CacheKey(r)]
  <2>2. outcome \in Outcomes
    BY <2>1, Marks DEF TypeInv
  <2>3. ASSUME outcome = Broken PROVE r \in spoiled
    <3>1. file[CacheKey(r)] = Torn
      BY <2>1, <2>3, Marks DEF TypeInv
    <3>2. CASE r \in spoiled
      BY <3>2
    <3>3. ASSUME NEW d \in Clients, Writing(d, r) PROVE r \in spoiled
      BY <1>a, <2>1, <3>3 DEF TwoSpoil, Writing
    <3> QED BY <1>a, <2>1, <3>1, <3>2, <3>3 DEF TornIsWritten
  <2>4. Finish(c, outcome)
    BY <1>1, <2>1 DEF Read
  <2> HIDE DEF outcome
  <2> QED BY <1>a, <2>1, <2>2, <2>3, <2>4, FinishLost
<1>2. ASSUME NEW c \in Clients, Wait(c) \/ Send(c) PROVE LostIsSpoiled'
  <2>1. /\ task'[c].outcome = task[c].outcome /\ task'[c].request = task[c].request
        /\ UNCHANGED memo
    BY <1>2, <1>a DEF Wait, Send, Step, Tasks
  <2>2. \A d \in Clients \ {c} : task'[d] = task[d]
    BY <1>2, OthersStay DEF Go
  <2>3. task'[c].outcome = Broken => task'[c].request \in spoiled'
    BY <1>a, <2>1 DEF LostIsSpoiled, BrokenOnlyIf
  <2> QED BY <1>a, <2>1, <2>2, <2>3, StepLost
<1>3. ASSUME NEW c \in Clients, Answer(c) PROVE LostIsSpoiled'
  <2>1. task'[c].outcome \in Answers
    <3>1. task[c].request \in Requests /\ vendor \in [Requests -> {0, 1}]
      BY <1>3 DEF Answer, TypeInv, TaskInv
    <3>2. [of |-> task[c].request, version |-> vendor[task[c].request]] \in Answers
      BY <3>1 DEF Answers
    <3> QED BY <1>3, <1>a, <3>2 DEF Answer, Tasks
  <2>2. \A d \in Clients \ {c} : task'[d] = task[d]
    BY <1>3, OthersStay DEF Go
  <2>3. UNCHANGED memo
    BY <1>3 DEF Answer
  <2> QED BY <1>a, <2>1, <2>2, <2>3, StepLost, Marks
<1>4. ASSUME NEW c \in Clients, TooMany(c) PROVE LostIsSpoiled'
  <2>1. CASE LastAttempt(c)
    <3>1. Finish(c, Refused)
      BY <1>4, <2>1 DEF TooMany
    <3> QED BY <1>a, <3>1, FinishLost, Marks
  <2>2. CASE ~LastAttempt(c)
    <3>1. /\ task'[c].outcome = task[c].outcome /\ task'[c].request = task[c].request
          /\ UNCHANGED memo
      BY <1>4, <2>2, <1>a DEF TooMany, Tasks
    <3>2. \A d \in Clients \ {c} : task'[d] = task[d]
      BY <1>4, OthersStay DEF Go
    <3>3. task'[c].outcome = Broken => task'[c].request \in spoiled'
      BY <1>a, <3>1 DEF LostIsSpoiled, BrokenOnlyIf
    <3> QED BY <1>a, <3>1, <3>2, <3>3, StepLost
  <2> QED BY <2>1, <2>2
<1>5. ASSUME NEW c \in Clients, Error(c) PROVE LostIsSpoiled'
  BY <1>5, <1>a, FinishLost, Marks DEF Error
<1>6. ASSUME NEW c \in Clients, Write(c) PROVE LostIsSpoiled'
  <2>1. task[c].outcome \in Answers
    BY <1>6 DEF Write, TypeInv, TaskInv
  <2> QED BY <1>6, <1>a, <2>1, FinishLost, Marks DEF Write
<1>7. ASSUME NEW c \in Clients, WriteFails(c) PROVE LostIsSpoiled'
  <2>1. task[c].request \in spoiled' /\ Finish(c, Broken)
    BY <1>7 DEF WriteFails
  <2> QED BY <1>a, <2>1, FinishLost, Marks
<1>8. ASSUME NEW c \in Clients, NewRun(c) PROVE LostIsSpoiled'
  <2>1. task'[c].outcome = Unread
    BY <1>8, <1>a DEF NewRun, Idle
  <2>2. \A d \in Clients \ {c} : task'[d] = task[d]
    BY <1>8, OthersStay
  <2>3. ASSUME NEW d \in Clients, NEW r \in Remembered, memo'[d][r] = Broken
        PROVE  r \in spoiled'
    <3>1. memo'[d][r] = Unread \/ memo'[d][r] = memo[d][r]
      BY <1>8, <1>a DEF NewRun
    <3> QED BY <1>a, <2>3, <3>1, Marks DEF LostIsSpoiled
  <2>4. ASSUME NEW d \in Clients, task'[d].outcome = Broken
        PROVE  task'[d].request \in spoiled'
    <3>1. d # c
      BY <2>1, <2>4, Marks
    <3> QED BY <1>a, <2>2, <2>4, <3>1 DEF LostIsSpoiled, BrokenOnlyIf
  <2> QED BY <2>3, <2>4 DEF LostIsSpoiled, BrokenOnlyIf
<1>9. ASSUME NEW c \in Clients, NEW r \in Requests, Get(c, r) PROVE LostIsSpoiled'
  <2>1. UNCHANGED memo /\ task'[c].request = r
    BY <1>9, <1>a DEF Get
  <2>2. \/ r \in Remembered /\ task'[c].outcome = memo[c][r]
        \/ task'[c].outcome = Unread
    BY <1>9, <1>a DEF Get
  <2>3. task'[c].outcome = Broken => task'[c].request \in spoiled'
    BY <1>a, <2>1, <2>2, Marks DEF LostIsSpoiled
  <2>4. \A d \in Clients \ {c} : task'[d] = task[d]
    BY <1>9, OthersStay
  <2> QED BY <1>a, <2>1, <2>3, <2>4, StepLost
<1>10. CASE (\E r \in Requests : Publish(r)) \/ Tick \/ UNCHANGED vars
  BY <1>10, <1>a DEF LostIsSpoiled, BrokenOnlyIf, Publish, Tick, vars
<1> QED BY <1>1, <1>2, <1>3, <1>4, <1>5, <1>6, <1>7, <1>8, <1>9, <1>10
        DEF Next, Go

LEMMA TornInit == Init => TornInv
<1> SUFFICES ASSUME Init PROVE TornInv
  OBVIOUS
<1>1. /\ DOMAIN file = {}
      /\ \A c \in Clients : task[c].outcome = Unread /\ task[c].at = "idle"
      /\ \A c \in Clients, r \in Remembered : memo[c][r] = Unread
  BY DEF Init, Idle
<1> QED BY <1>1, Marks DEF TornInv, TwoSpoil, TornIsWritten, WrittenIsTorn,
                        Writing, LostIsSpoiled, BrokenOnlyIf

(* A run loses an answer to the directory only where two runs worked on    *)
(* the request at a time, or a write was cut or failed.                    *)
THEOREM BrokenCorrect == Spec => []BrokenOnlyIf
<1>1. TypeInv /\ TornInv /\ [Next]_vars => TornInv'
  BY TwoStep, DirectoryStep, LostStep DEF TornInv
<1>2. TornInv => BrokenOnlyIf
  BY DEF TornInv, LostIsSpoiled
<1> QED BY <1>1, <1>2, TornInit, TypeCorrect, PTL DEF Spec

-----------------------------------------------------------------------------
(* The limiter.                                                            *)

LEMMA SpacedStep == TypeInv /\ SpacedInv /\ [Next]_vars => SpacedInv'
<1> SUFFICES ASSUME TypeInv, SpacedInv, [Next]_vars, NEW d \in Clients
             PROVE  /\ gap'[d] = since'[d]
                    /\ task'[d].at = "sleep" => pause'[d] >= MinInterval - since'[d]
  BY DEF SpacedInv
<1>a. /\ task \in [Clients -> Tasks] /\ \A c \in Clients : task[c] \in Tasks
      /\ since \in [Clients -> 0 .. MinInterval]
      /\ gap \in [Clients -> 0 .. MinInterval]
      /\ pause \in [Clients -> 0 .. Long]
      /\ MinInterval \in Nat /\ Long \in Nat
      /\ gap[d] = since[d]
      /\ task[d].at = "sleep" => pause[d] >= MinInterval - since[d]
  BY Constants, Pauses DEF TypeInv, TaskInv, SpacedInv
<1>1. ASSUME NEW c \in Clients,
             \/ Read(c) \/ Answer(c) \/ Error(c) \/ Write(c) \/ WriteFails(c)
      PROVE  /\ UNCHANGED <<since, gap, pause>>
             /\ task'[d].at = "sleep" => task[d].at = "sleep"
  <2>1. CASE Read(c) \/ Error(c) \/ Write(c) \/ WriteFails(c)
    BY <1>a, <2>1 DEF Read, Error, Write, WriteFails, Finish, limiter, Tasks
  <2>2. CASE Answer(c)
    BY <1>a, <2>2 DEF Answer, limiter, Tasks
  <2> QED BY <1>1, <2>1, <2>2
<1>2. ASSUME NEW c \in Clients, TooMany(c)
      PROVE  /\ UNCHANGED <<since, gap>>
             /\ d # c => pause'[d] = pause[d] /\ task'[d] = task[d]
             /\ d = c => task'[d].at # "sleep"
  <2>1. CASE LastAttempt(c)
    BY <1>2, <1>a, <2>1 DEF TooMany, Finish, Tasks
  <2>2. CASE ~LastAttempt(c)
    BY <1>2, <1>a, <2>2 DEF TooMany, Tasks
  <2> QED BY <2>1, <2>2
<1>3. ASSUME NEW c \in Clients, Wait(c)
      PROVE  /\ UNCHANGED <<since, gap>>
             /\ d # c => pause'[d] = pause[d] /\ task'[d] = task[d]
             /\ d = c => pause'[d] = MinInterval - since[d]
  BY <1>3, <1>a DEF Wait, Step, ToWait
<1>4. ASSUME NEW c \in Clients, Send(c)
      PROVE  /\ pause' = pause
             /\ d # c => /\ since'[d] = since[d] /\ gap'[d] = gap[d]
                        /\ task'[d] = task[d]
             /\ d = c => since'[d] = 0 /\ gap'[d] = 0 /\ task'[d].at = "call"
  BY <1>4, <1>a DEF Send, Step, Tasks
<1>5. ASSUME NEW c \in Clients, NewRun(c)
      PROVE  /\ d # c => /\ since'[d] = since[d] /\ gap'[d] = gap[d]
                        /\ pause'[d] = pause[d] /\ task'[d] = task[d]
             /\ d = c => since'[d] = gap'[d] /\ task'[d].at = "idle"
  BY <1>5, <1>a DEF NewRun, Idle
<1>6. ASSUME NEW c \in Clients, NEW r \in Requests, Get(c, r)
      PROVE  /\ UNCHANGED <<since, gap>>
             /\ d # c => pause'[d] = pause[d] /\ task'[d] = task[d]
             /\ d = c /\ task'[d].at = "sleep" => pause'[d] = MinInterval - since[d]
  BY <1>6, <1>a DEF Get, ToWait
<1>7. CASE Tick
  <2>1. /\ task' = task
        /\ since'[d] = IF since[d] < MinInterval THEN since[d] + 1 ELSE since[d]
        /\ gap'[d] = IF gap[d] < MinInterval THEN gap[d] + 1 ELSE gap[d]
        /\ pause'[d] = IF pause[d] > 0 THEN pause[d] - 1 ELSE 0
    BY <1>7 DEF Tick
  <2>2. since[d] \in 0 .. MinInterval /\ pause[d] \in 0 .. Long
    BY <1>a
  <2> QED BY <1>a, <2>1, <2>2
<1>8. CASE (\E r \in Requests : Publish(r)) \/ UNCHANGED vars
  BY <1>8, <1>a DEF Publish, vars, limiter
<1>9. since[d] \in 0 .. MinInterval /\ pause[d] \in 0 .. Long
  BY <1>a
<1>10. ASSUME NEW c \in Clients,
              Go(c) \/ WriteFails(c) \/ NewRun(c) \/ \E r \in Requests : Get(c, r)
       PROVE  /\ gap'[d] = since'[d]
              /\ task'[d].at = "sleep" => pause'[d] >= MinInterval - since'[d]
  <2>1. CASE Read(c) \/ Answer(c) \/ Error(c) \/ Write(c) \/ WriteFails(c)
    BY <1>1, <1>a, <2>1
  <2>2. CASE TooMany(c)
    BY <1>2, <1>a, <2>2
  <2>3. CASE Wait(c)
    BY <1>3, <1>9, <1>a, <2>3
  <2>4. CASE Send(c)
    BY <1>4, <1>a, <2>4
  <2>5. CASE NewRun(c)
    BY <1>5, <1>a, <2>5
  <2>6. CASE \E r \in Requests : Get(c, r)
    BY <1>6, <1>9, <1>a, <2>6
  <2> QED BY <1>10, <2>1, <2>2, <2>3, <2>4, <2>5, <2>6 DEF Go
<1> QED BY <1>7, <1>8, <1>10 DEF Next

LEMMA SpacedInit == Init => SpacedInv
<1> SUFFICES ASSUME Init, NEW c \in Clients
             PROVE  gap[c] = since[c] /\ task[c].at # "sleep"
  BY DEF SpacedInv
<1> QED BY DEF Init, Idle

(* A step that makes a call is a Send of that client.                      *)
LEMMA OnlySendCalls ==
  ASSUME TypeInv, [Next]_vars, NEW c \in Clients,
         task[c].at # "call", task'[c].at = "call"
  PROVE  Send(c)
<1>a. task \in [Clients -> Tasks] /\ \A d \in Clients : task[d] \in Tasks
  BY DEF TypeInv, TaskInv
<1>1. ASSUME NEW d \in Clients,
             Go(d) \/ WriteFails(d) \/ NewRun(d) \/ \E r \in Requests : Get(d, r)
      PROVE  Send(c)
  <2>1. d = c
    BY <1>1, OthersStay
  <2>2. CASE Read(c) \/ Error(c) \/ Write(c) \/ WriteFails(c)
    BY <1>a, <2>2 DEF Read, Error, Write, WriteFails, Finish, Tasks
  <2>3. CASE Wait(c) \/ Answer(c)
    BY <1>a, <2>3 DEF Wait, Answer, Step, Tasks
  <2>4. CASE TooMany(c)
    BY <1>a, <2>4 DEF TooMany, Finish, Tasks
  <2>5. CASE NewRun(c)
    BY <1>a, <2>5 DEF NewRun, Idle
  <2>6. CASE \E r \in Requests : Get(c, r)
    BY <1>a, <2>6 DEF Get
  <2> QED BY <1>1, <2>1, <2>2, <2>3, <2>4, <2>5, <2>6 DEF Go
<1>2. CASE (\E r \in Requests : Publish(r)) \/ Tick \/ UNCHANGED vars
  BY <1>2 DEF Publish, Tick, vars
<1> QED BY <1>1, <1>2 DEF Next

(* Two calls of a client are never less than the interval apart, for every *)
(* interval and every number of retries.                                   *)
THEOREM SpacedCorrect == Spec => Spaced
<1>1. TypeInv /\ SpacedInv /\ [Next]_vars =>
        [\A c \in Clients :
           task[c].at # "call" /\ task'[c].at = "call" => gap[c] >= MinInterval]_vars
  <2> SUFFICES ASSUME TypeInv, SpacedInv, [Next]_vars, NEW c \in Clients,
                      task[c].at # "call", task'[c].at = "call"
               PROVE  gap[c] >= MinInterval
    OBVIOUS
  <2>1. task[c].at = "sleep" /\ pause[c] = 0
    BY OnlySendCalls DEF Send
  <2>2. gap[c] = since[c] /\ pause[c] >= MinInterval - since[c]
    BY <2>1 DEF SpacedInv
  <2>3. since[c] \in 0 .. MinInterval
    BY DEF TypeInv
  <2> QED BY <2>1, <2>2, <2>3, Constants
<1> QED BY <1>1, SpacedInit, SpacedStep, TypeCorrect, PTL DEF Spec, Spaced

-----------------------------------------------------------------------------
(* What is paid for.                                                       *)

(* A request that is answered, and that nobody calls for, stays so.        *)
LEMMA SettledStep ==
  ASSUME TypeInv, [Next]_vars, NEW r \in Requests, Settled(r)
  PROVE  Settled(r)' /\ file'[CacheKey(r)] = file[CacheKey(r)]
<1>a. /\ task \in [Clients -> Tasks] /\ \A d \in Clients : task[d] \in Tasks
      /\ CacheKey(r) \in DOMAIN file
      /\ \A c \in Clients : task[c].at # "idle" /\ task[c].request = r =>
                             task[c].at = "read"
  BY DEF TypeInv, TaskInv, Settled, Working, Busy
<1>1. CacheKey(r) \in DOMAIN file' /\ file'[CacheKey(r)] = file[CacheKey(r)]
  <2>1. ASSUME NEW c \in Clients, Answer(c) \/ Write(c) PROVE <1>1
    <3>1. PICK q \in Requests : q = task[c].request /\ \E content : Put(q, content)
      BY <2>1 DEF Answer, Write, TypeInv, TaskInv
    <3>2. q # r
      BY <1>a, <2>1, <3>1 DEF Answer, Write
    <3>3. DOMAIN file \subseteq DOMAIN file'
      BY <3>1, FilesStay
    <3> QED BY <1>a, <3>1, <3>2, <3>3, PutSpares
  <2>2. CASE UNCHANGED file
    BY <1>a, <2>2
  <2> QED BY <2>1, <2>2 DEF Next, Go, Read, Wait, Send, TooMany, Error, WriteFails,
             NewRun, Get, Publish, Tick, vars
<1>2. ASSUME NEW d \in Clients, task'[d].at # "idle", task'[d].request = r
      PROVE  task'[d].at = "read"
  <2>1. CASE task'[d] = task[d]
    BY <1>a, <1>2, <2>1
  <2>2. CASE \E q \in Requests : Get(d, q)
    <3>1. Get(d, r)
      BY <1>2, <1>a, <2>2 DEF Get
    <3> QED BY <1>2, <1>a, <3>1 DEF Get, Cached
  <2>3. CASE task[d].at # "idle" /\ task[d].request = r /\ task'[d] # task[d]
    <3>1. task[d].at = "read"
      BY <1>a, <2>3
    <3>2. PICK c \in Clients : Go(c) \/ WriteFails(c) \/ NewRun(c) \/ \E q \in Requests : Get(c, q)
      BY <2>3 DEF Next, Publish, Tick, vars
    <3>3. d = c
      BY <2>3, <3>2, OthersStay
    <3>4. Read(d) \/ NewRun(d)
      BY <3>1, <3>2, <3>3 DEF Go, Wait, Send, Answer, TooMany, Error, Write,
                              WriteFails, Get, Busy
    <3>5. CASE Read(d)
      BY <1>a, <1>2, <3>5 DEF Read, Finish, Tasks
    <3>6. CASE NewRun(d)
      BY <1>a, <1>2, <3>6 DEF NewRun, Idle
    <3> QED BY <3>4, <3>5, <3>6
  <2>4. CASE ~\E c \in Clients, q \in Requests : Get(c, q)
    <3>1. task[d].at # "idle" /\ task[d].request = r
      BY <1>2, <2>4, AtWorkStays
    <3> QED BY <2>1, <2>3, <3>1
  <2>5. ASSUME NEW c \in Clients, NEW q \in Requests, Get(c, q), c # d
        PROVE  task'[d] = task[d]
    BY <2>5, OthersStay
  <2> QED BY <2>1, <2>2, <2>4, <2>5
<1> QED BY <1>1, <1>2 DEF Settled, Working, Busy

(* A request answered once is paid for once, for every number of runs.     *)
THEOREM PaidCorrect == Spec => PaidOnce
<1>1. TypeInv /\ [Next]_vars =>
        [\A r \in Requests : Settled(r) =>
           Settled(r)' /\ file'[CacheKey(r)] = file[CacheKey(r)]]_vars
  BY SettledStep
<1> QED BY <1>1, TypeCorrect, PTL DEF Spec, PaidOnce

-----------------------------------------------------------------------------
(* What is asked of the vendor for a backtest day.                         *)

(* What the days before a day make of a name.                              *)
LEMMA PastIsSame ==
  ASSUME NEW T, NEW m \in Seq(T), NEW n \in Seq(T), NEW d \in Nat \ {0, 1},
         d \in DOMAIN m, d \in DOMAIN n, \A e \in 1 .. d - 1 : m[e] = n[e], NEW s
  PROVE  /\ m[d - 1] = n[d - 1] /\ Traded(m, d - 1) = Traded(n, d - 1)
         /\ AvgVol20d(m, s, d) = AvgVol20d(n, s, d)
<1> DEFINE P(x) == {e \in DOMAIN x : e < d /\ s \in Traded(x, e)}
           Span(S) == {e \in S : Cardinality({x \in S : x > e}) < AvgSpan}
           Avg(x, S) == IF Cardinality(S) >= AvgMin
                        THEN SumFunction([e \in Span(S) |-> x[e][s].v])
                               \div Cardinality(Span(S))
                        ELSE Max({1, x[d - 1][s].v})
<1>1. \A e : e \in DOMAIN m /\ e < d <=> e \in DOMAIN n /\ e < d
  <2>1. PICK M \in Nat, N \in Nat : DOMAIN m = 1 .. M /\ DOMAIN n = 1 .. N
    OBVIOUS
  <2>2. d <= M /\ d <= N
    BY <2>1
  <2>3. \A e : (e \in 1 .. M /\ e < d) <=> (e \in 1 .. N /\ e < d)
    BY <2>2
  <2> QED BY <2>1, <2>3
<1>2. ASSUME NEW e \in DOMAIN m, e < d PROVE m[e] = n[e]
  <2>1. e \in 1 .. d - 1
    BY <1>2
  <2> QED BY <2>1
<1>3. P(m) = P(n)
  BY <1>1, <1>2 DEF Traded
<1>4. d - 1 \in 1 .. d - 1
  OBVIOUS
<1>5. m[d - 1] = n[d - 1] /\ Traded(m, d - 1) = Traded(n, d - 1)
  BY <1>4 DEF Traded
<1>6. AvgVol20d(m, s, d) = Avg(m, P(m)) /\ AvgVol20d(n, s, d) = Avg(n, P(n))
  BY DEF AvgVol20d
<1>7. Span(P(m)) \subseteq P(m)
  OBVIOUS
<1>8. [e \in Span(P(m)) |-> m[e][s].v] = [e \in Span(P(m)) |-> n[e][s].v]
  <2>1. \A e \in P(m) : m[e] = n[e]
    BY <1>2
  <2> HIDE DEF P, Span
  <2> QED BY <1>7, <2>1
<1>9. Avg(m, P(m)) = Avg(n, P(n))
  <2> HIDE DEF P, Span
  <2> QED BY <1>3, <1>5, <1>8
<1> QED BY <1>5, <1>6, <1>9

(* providers.py: no lookahead.  The gappers of a day, with what the        *)
(* backtest is told of them, are those of any other market that is the     *)
(* same at its open: neither what trades in the day nor any later day      *)
(* makes a difference.                                                     *)
THEOREM GappersAreKnown ==
  ASSUME NEW T, NEW m \in Seq(T), NEW n \in Seq(T),
         NEW d \in DOMAIN m, d \in DOMAIN n, SameAtOpen(m, n, d)
  PROVE  Candidates(m, d, "gap") = Candidates(n, d, "gap")
<1>1. CASE d = 1
  BY <1>1 DEF Candidates
<1>2. CASE d # 1
  <2>1. d \in Nat \ {0, 1}
    BY <1>2
  <2>2. \A e \in 1 .. d - 1 : m[e] = n[e]
    BY DEF SameAtOpen
  <2>3. \A s : AvgVol20d(m, s, d) = AvgVol20d(n, s, d)
    BY <2>1, <2>2, PastIsSame
  <2>4. m[d - 1] = n[d - 1] /\ Traded(m, d - 1) = Traded(n, d - 1)
    BY <2>1, <2>2, PastIsSame
  <2>5. Traded(m, d) = Traded(n, d) /\ Traded(m, d) \subseteq DOMAIN m[d]
    BY DEF SameAtOpen, Traded
  <2>6. \A s \in Traded(m, d) : /\ m[d][s].o = n[d][s].o
                                /\ PremarketNews(m[d][s]) = PremarketNews(n[d][s])
    BY <2>5 DEF SameAtOpen
  <2>7. Rows(m, d) = Rows(n, d) /\ Rows(m, d) \subseteq Traded(m, d)
    BY <2>4, <2>5, <2>6 DEF Rows
  <2>8. \A s \in Rows(m, d) : Gap(m, s, d) = Gap(n, s, d)
    BY <2>4, <2>6, <2>7 DEF Gap
  <2>9. Gappers(m, d) = Gappers(n, d) /\ Gappers(m, d) \subseteq Rows(m, d)
    <3> DEFINE G(x) == {s \in Rows(x, d) : Gap(x, s, d) >= 10000 * MinGap}
    <3>1. G(m) = G(n) /\ G(m) \subseteq Rows(m, d)
      BY <2>7, <2>8
    <3>2. Gappers(m, d) = Top([s \in G(m) |-> Gap(m, s, d)], MaxCandidates)
      BY DEF Gappers
    <3>3. Gappers(n, d) = Top([s \in G(n) |-> Gap(n, s, d)], MaxCandidates)
      BY DEF Gappers
    <3> HIDE DEF G
    <3>4. [s \in G(m) |-> Gap(m, s, d)] = [s \in G(n) |-> Gap(n, s, d)]
      BY <2>8, <3>1
    <3>5. Top([s \in G(m) |-> Gap(m, s, d)], MaxCandidates) \subseteq G(m)
      BY DEF Top
    <3> QED BY <3>1, <3>2, <3>3, <3>4, <3>5
  <2> DEFINE C(x, s) == [symbol |-> s, prevClose |-> x[d - 1][s].c,
                         dayOpen |-> x[d][s].o, avg |-> AvgVol20d(x, s, d),
                         news |-> PremarketNews(x[d][s])]
  <2>10. \A s \in Gappers(m, d) : C(m, s) = C(n, s)
    BY <2>3, <2>4, <2>6, <2>7, <2>9
  <2>11. /\ Candidates(m, d, "gap") = {C(m, s) : s \in Gappers(m, d)}
         /\ Candidates(n, d, "gap") = {C(n, s) : s \in Gappers(n, d)}
    BY <1>2 DEF Candidates
  <2> HIDE DEF C
  <2> QED BY <2>9, <2>10, <2>11
<1> QED BY <1>1, <1>2

(* providers.py: the most active names of a day, which are chosen at its   *)
(* end, are those of any other market that is the same by then.            *)
THEOREM ActiveAreKnown ==
  ASSUME NEW T, NEW m \in Seq(T), NEW n \in Seq(T),
         NEW d \in DOMAIN m, d \in DOMAIN n, SameAtClose(m, n, d)
  PROVE  Candidates(m, d, "active") = Candidates(n, d, "active")
<1>1. CASE d = 1
  BY <1>1 DEF Candidates
<1>2. CASE d # 1
  <2>1. d \in Nat \ {0, 1} /\ d \in 1 .. d
    BY <1>2
  <2>2. \A e \in 1 .. d - 1 : m[e] = n[e]
    <3>1. \A e \in 1 .. d - 1 : e \in 1 .. d
      BY <2>1
    <3> QED BY <3>1 DEF SameAtClose
  <2>3. m[d] = n[d]
    BY <2>1 DEF SameAtClose
  <2>4. \A s : AvgVol20d(m, s, d) = AvgVol20d(n, s, d)
    BY <2>1, <2>2, PastIsSame
  <2>5. m[d - 1] = n[d - 1] /\ Traded(m, d - 1) = Traded(n, d - 1)
    BY <2>1, <2>2, PastIsSame
  <2>6. Rows(m, d) = Rows(n, d)
    BY <2>3, <2>5 DEF Rows, Traded
  <2> DEFINE vol(x, s) == Max({1, x[d][s].v})
             low(x, s) == IF x[d][s].l = 0 THEN x[d][s].o ELSE x[d][s].l
             rng(x, s) == IF low(x, s) > 0
                          THEN (1000000 * (x[d][s].h - low(x, s))) \div low(x, s)
                          ELSE 0
             rvol(x, s) == IF AvgVol20d(x, s, d) > 0
                           THEN (1000000 * vol(x, s)) \div AvgVol20d(x, s, d) ELSE 0
             wide(x) == Top([s \in Rows(x, d) |-> vol(x, s)], Superset)
                          \cup Top([s \in Rows(x, d) |-> rng(x, s)], Superset)
             act(x) == {s \in wide(x) : rvol(x, s) >= 1000000 * MinRvol}
  <2>7. \A x : ActiveUniverse(x, d) = Top([s \in act(x) |-> rvol(x, s)], MaxCandidates)
    BY DEF ActiveUniverse
  <2>8. \A s : vol(m, s) = vol(n, s) /\ rng(m, s) = rng(n, s) /\ rvol(m, s) = rvol(n, s)
    BY <2>3, <2>4
  <2> HIDE DEF vol, rng, rvol
  <2>9. wide(m) = wide(n)
    <3>1. [s \in Rows(m, d) |-> vol(m, s)] = [s \in Rows(n, d) |-> vol(n, s)]
      BY <2>6, <2>8
    <3>2. [s \in Rows(m, d) |-> rng(m, s)] = [s \in Rows(n, d) |-> rng(n, s)]
      BY <2>6, <2>8
    <3> QED BY <3>1, <3>2
  <2> HIDE DEF wide
  <2>10. act(m) = act(n)
    BY <2>8, <2>9
  <2> HIDE DEF act
  <2>11. ActiveUniverse(m, d) = ActiveUniverse(n, d)
    <3>1. [s \in act(m) |-> rvol(m, s)] = [s \in act(n) |-> rvol(n, s)]
      BY <2>8, <2>10
    <3> QED BY <2>7, <3>1
  <2> DEFINE C(x, s) == [symbol |-> s, prevClose |-> x[d - 1][s].c,
                         dayOpen |-> x[d][s].o, avg |-> AvgVol20d(x, s, d),
                         news |-> PremarketNews(x[d][s])]
  <2>12. \A s : C(m, s) = C(n, s)
    BY <2>3, <2>4, <2>5
  <2>13. /\ Candidates(m, d, "active") = {C(m, s) : s \in ActiveUniverse(m, d)}
         /\ Candidates(n, d, "active") = {C(n, s) : s \in ActiveUniverse(n, d)}
    BY <1>2 DEF Candidates
  <2> HIDE DEF C
  <2> QED BY <2>11, <2>12, <2>13
<1> QED BY <1>1, <1>2

=============================================================================
