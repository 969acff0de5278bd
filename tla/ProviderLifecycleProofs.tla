------------------------ MODULE ProviderLifecycleProofs ------------------------
(***************************************************************************)
(* Theorems about ProviderLifecycle for any requests, commands, retries    *)
(* and sizes: one dataset per operation, no abandoned operation, no stolen *)
(* handle.  Almost every step is that of a task on its own operation or of *)
(* a control call on one; a lemma each says what such a step must keep.    *)
(***************************************************************************)
EXTENDS ProviderLifecycle, FiniteSetTheorems, TLAPS

R == Records(Nat, Attempts, {0})
Maybe(S) == S \cup {None}

\* The updates that execute and the report helpers make.
Updates ==
  [bytes : Maybe(Nat), offset : Maybe(Nat), total : Maybe(Nat), token : {None},
   attempt : Attempts, state : {"connecting", "running"}]

USE LifecycleOK DEF Given, Operations, Maybe

-------------------------------------------------------------------------------
(* The record operators *)

\* An update that passes sets state and attempt within the total; a refused one keeps
\* the state; an ended operation refuses every update.
LEMMA UpdatedFacts ==
  ASSUME NEW r \in R, NEW u \in Updates
  PROVE  LET s == Updated(r, u, 0)
         IN /\ s \in R
            /\ Terminal(r) => ~ UpdatePass(r, u)
            /\ ~ UpdatePass(r, u) => s.state = r.state
            /\ UpdatePass(r, u) =>
                 s.state = u.state /\ s.attempt = u.attempt /\ WithinTotal(s)
<1> DEFINE c == WithCounters(r, u)
           d == [c EXCEPT !.token = IF Given(u.token) /\ TokenPass(r, u) THEN u.token ELSE @]
           s == Updated(r, u, 0)
<1>1. c \in R /\ c.state = r.state
  BY DEF WithCounters, R, Records, Updates
<1>2. UpdatePass(r, u) => WithinTotal(c)
  BY DEF UpdatePass, TokenPass, WithinPass
<1>3. Terminal(r) => ~ UpdatePass(r, u)
  BY DEF UpdatePass, TokenPass, WithinPass, TotalPass, OffsetPass, BytesPass, MayUpdate
<1> HIDE DEF c
<1>4. d = c
  BY <1>1 DEF R, Records, Updates
<1>5. s = IF ~ UpdatePass(r, u) THEN d
          ELSE [d EXCEPT !.attempt = IF Given(u.attempt) THEN u.attempt ELSE @,
                         !.state = UpdatedState(r, u),
                         !.lastActivity = IF Activity(r, u) THEN 0 ELSE @]
  BY DEF c, Updated
<1>6. UpdatedState(r, u) = u.state /\ u.state \in States /\ u.attempt \in Attempts /\ u.attempt # None
  BY DEF UpdatedState, Updates, States, Attempts
<1> HIDE DEF d, s
<1>7. CASE ~ UpdatePass(r, u)
  BY <1>1, <1>3, <1>4, <1>5, <1>7 DEF s
<1>8. CASE UpdatePass(r, u)
  <2> DEFINE l == IF Activity(r, u) THEN 0 ELSE c.lastActivity
  <2>1. l = 0
    BY <1>1 DEF R, Records
  <2>2. s = [c EXCEPT !.attempt = u.attempt, !.state = u.state, !.lastActivity = 0]
    BY <1>1, <1>4, <1>5, <1>6, <1>8, <2>1
  <2>3. s \in R /\ s.state = u.state /\ s.attempt = u.attempt
    BY <1>1, <1>6, <2>2 DEF R, Records
  <2>4. WithinTotal(s)
    BY <1>1, <1>2, <1>8, <2>2 DEF WithinTotal, ProgressBytes, R, Records
  <2>. QED
    BY <1>3, <1>8, <2>3, <2>4 DEF s
<1>. QED
  BY <1>7, <1>8

\* The update at the head of the attempt loop passes on a record in order.
LEMMA ConnectPasses ==
  ASSUME NEW r \in R, NEW a \in Attempts, ~ Terminal(r), WithinTotal(r), r.attempt <= a
  PROVE  UpdatePass(r, Connecting(a))
<1> DEFINE u == Connecting(a)
<1>1. /\ u.bytes = None /\ u.offset = None /\ u.total = None /\ u.token = None
      /\ u.attempt = a /\ u.state = "connecting"
  BY DEF Connecting, NoUpdate
<1> HIDE DEF u
<1>2. TotalPass(r, u) /\ WithCounters(r, u) = r
  BY <1>1 DEF TotalPass, OffsetPass, BytesPass, MayUpdate, WithCounters, TerminalStates, R, Records
<1>3. UpdatePass(r, u)
  BY <1>1, <1>2 DEF UpdatePass, TokenPass, WithinPass, ValidToken
<1>. QED
  BY <1>3 DEF u

LEMMA ConnectingUpdates ==
  ASSUME NEW a \in Attempts
  PROVE  /\ Connecting(a) \in Updates
         /\ Connecting(a).state = "connecting" /\ Connecting(a).attempt = a
BY DEF Connecting, NoUpdate, Updates

\* Ending an operation ends it, unless it has ended already.
LEMMA FinishedFacts ==
  ASSUME NEW r \in R, NEW e \in TerminalStates
  PROVE  LET s == Finished(r, e, 0)
         IN /\ s \in R /\ Terminal(s)
            /\ Terminal(r) => s = r
            /\ ~ Terminal(r) => s.state = e
<1>1. ActiveElapsed(r, 0) = 0
  BY DEF ActiveElapsed, R, Records
<1>2. CASE Terminal(r)
  BY <1>2 DEF Finished, MayFinish
<1>3. CASE ~ Terminal(r)
  <2>1. Finished(r, e, 0) = [r EXCEPT !.activeFor = 0, !.activeFrom = None, !.state = e]
    BY <1>1, <1>3 DEF Finished, MayFinish, Stopped, R, Records
  <2>. QED
    BY <1>3, <2>1 DEF R, Records, Terminal, TerminalStates, States
<1>. QED
  BY <1>2, <1>3

LEMMA PausedFacts ==
  ASSUME NEW r \in R, ~ Terminal(r)
  PROVE  Paused(r, 0) \in R
<1>1. ActiveElapsed(r, 0) = 0
  BY DEF ActiveElapsed, R, Records
<1>2. CASE r.state = "paused"
  BY <1>2 DEF Paused
<1>3. CASE r.state # "paused"
  <2>1. Paused(r, 0) = [r EXCEPT !.activeFor = 0, !.activeFrom = None, !.state = "paused"]
    BY <1>1, <1>3 DEF Paused, Stopped, R, Records
  <2>. QED
    BY <2>1 DEF R, Records, States
<1>. QED
  BY <1>2, <1>3

\* Only a paused operation is resumed.
LEMMA ResumedFacts ==
  ASSUME NEW r \in R, NEW offset \in Maybe(Nat), NEW token \in Maybe(Tokens)
  PROVE  LET s == Resumed(r, offset, TRUE, token, 0)
         IN /\ s \in R
            /\ r.state # "paused" => s = r
            /\ r.state = "paused" => s.state \in {"paused", "resuming"}
            /\ ~ ResumePass(r, offset, TRUE, token) => s.state = r.state
            /\ s.attempt = r.attempt
<1> DEFINE moved == [r EXCEPT
        !.offset = IF Given(offset) /\ ResumeOffsetPass(r, offset) THEN offset ELSE @,
        !.token = IF Given(token) /\ ResumeBlockPass(r, offset, TRUE) THEN token ELSE @]
<1>1. moved \in R /\ moved.state = r.state /\ moved.attempt = r.attempt
  BY DEF R, Records
<1>2. r.state # "paused" => moved = r /\ ~ ResumePass(r, offset, TRUE, token)
  BY DEF ResumePass, ResumeBlockPass, ResumeOffsetPass, MayResume, R, Records
<1>3. Resumed(r, offset, TRUE, token, 0) =
        IF ResumePass(r, offset, TRUE, token)
        THEN [moved EXCEPT !.state = "resuming", !.activeFrom = 0] ELSE moved
  BY DEF Resumed
<1> HIDE DEF moved
<1>4. [moved EXCEPT !.state = "resuming", !.activeFrom = 0] \in R
  BY <1>1 DEF R, Records, States
<1>5. CASE ResumePass(r, offset, TRUE, token)
  BY <1>1, <1>2, <1>3, <1>4, <1>5 DEF R, Records
<1>6. CASE ~ ResumePass(r, offset, TRUE, token)
  BY <1>1, <1>2, <1>3, <1>6
<1>. QED
  BY <1>5, <1>6

-------------------------------------------------------------------------------
(* The invariant *)

Running == {"fetching", "retrying"}

\* What the place of a task says of its variables and of the record it would begin.
PlaceInv ==
  \A k \in Tasks :
    /\ pc[k] = "none" => answer[k] = None
    /\ pc[k] \in {"none", "created"} =>
         records[k] = NoRecord /\ op[k] = None /\ result[k] = None
    /\ pc[k] # "none" => command[k] \in Commands
    /\ pc[k] = "created" => Background[command[k]] /\ answer[k] = None
    /\ pc[k] \in Running => op[k] # None /\ attempt[k] \in Attempts
    /\ pc[k] = "retrying" => attempt[k] <= MaxRetries
    /\ result[k] # None => pc[k] = "done"
    /\ result[k] = "dataset" => op[k] # None

\* Only operations that were paused have tasks beside the one that began them.
OperationInv ==
  /\ \A k \in Tasks : op[k] # None =>
       records[op[k]] # NoRecord /\ (op[k] # k => op[k] \in paused)
  /\ \A o \in Existing : records[o].state = "paused" => o \in paused

\* An operation nobody paused or cancelled has ended, or is run by its task, whose next
\* connection the record will not refuse.
Ran(r, place, a) ==
  \/ Terminal(r)
  \/ /\ place \in Running /\ WithinTotal(r)
     /\ r.attempt <= (IF place = "retrying" THEN a + 1 ELSE a)
LiveInv ==
  \A o \in Existing \ (paused \cup cancelAsked) :
    Ran(records[o], pc[o], attempt[o]) /\ (~ Terminal(records[o]) => op[o] = o)

\* A background start that has not answered holds the start lock, so nobody else's
\* background operation has appeared since it noted the keys.
Pending(k) == pc[k] # "none" /\ Background[command[k]] /\ answer[k] = None
HandleInv ==
  /\ \A k \in Tasks : Pending(k) =>
       /\ startLock = k
       /\ \A j \in Existing \ before[k] : j = k \/ ~ Background[command[j]]
  /\ \A k \in Tasks : answer[k] \in Tasks => records[answer[k]] # NoRecord

IInv ==
  TypeOK /\ PlaceInv /\ OperationInv /\ LiveInv /\ HandleInv /\ OneDataset /\ NoStolenHandle

LEMMA RecordsExist ==
  /\ \A r \in R : r # NoRecord /\ r.state # None
  /\ NoRecord.state = None
<1>1. NoRecord.state = None
  BY DEF NoRecord
<1>2. \A r \in R : r.state # None
  BY DEF R, Records
<1>. QED
  BY <1>1, <1>2

LEMMA InitInv == Init => IInv
<1> SUFFICES ASSUME Init PROVE IInv
  OBVIOUS
<1>1. TypeOK
  BY DEF Init, TypeOK, TaskSteps, Bytes
<1>2. PlaceInv
  BY DEF Init, PlaceInv, Running
<1>5. OperationInv /\ LiveInv
  BY DEF Init, OperationInv, LiveInv, Existing
<1>3. HandleInv /\ NoStolenHandle
  BY DEF Init, HandleInv, Pending, NoStolenHandle
<1>4. OneDataset
  BY DEF Init, OneDataset
<1>. QED
  BY <1>1, <1>2, <1>3, <1>4, <1>5 DEF IInv

\* A task's step: k, now for the command c, leaves operation o with the record s and goes
\* on to p with attempt a and g bytes, or is over with the result h.
TaskMove(k, o, s, c, p, a, g, h) ==
  /\ o \in Tasks /\ s \in R /\ c \in Commands /\ p \in Running \cup {"done"}
  /\ a \in 0 .. MaxRetries + 1 /\ g \in Bytes /\ h \in {None, "dataset", "error", "refused"}
  /\ records' = [records EXCEPT ![o] = s] /\ op' = [op EXCEPT ![k] = o]
  /\ pc' = [pc EXCEPT ![k] = p] /\ attempt' = [attempt EXCEPT ![k] = a]
  /\ got' = [got EXCEPT ![k] = g] /\ result' = [result EXCEPT ![k] = h]
  /\ command' = [command EXCEPT ![k] = c] /\ UNCHANGED <<cancelAsked, server, paused>>
  /\ pc[k] # "done"
  /\ IF pc[k] = "none" THEN ~ Background[c] ELSE c = command[k]
  /\ IF pc[k] \in {"none", "created"} THEN o = k \/ records[o] # NoRecord ELSE o = op[k]
  /\ o = k \/ o \in paused
  /\ h # None => p = "done"
  /\ p \in Running => a \in Attempts
  /\ p = "retrying" => a <= MaxRetries
  /\ s.state = "paused" => o \in paused
  /\ records[o] # NoRecord /\ Terminal(records[o]) => s.state = records[o].state
  /\ h = "dataset" => s.state = "completed" /\ records[o] # NoRecord /\ ~ Terminal(records[o])
  /\ o = k /\ k \notin paused \cup cancelAsked => Ran(s, p, a)

LEMMA TaskStep ==
  ASSUME IInv, NEW k \in Tasks, NEW o, NEW s, NEW c, NEW p, NEW a, NEW g, NEW h,
         TaskMove(k, o, s, c, p, a, g, h)
  PROVE  IInv'
<1> USE DEF TaskMove
<1> USE DEF IInv, server
<1>1. TypeOK'
  BY DEF TypeOK, R, TaskSteps, Running
<1>2. PlaceInv'
  <2> SUFFICES ASSUME NEW m \in Tasks
               PROVE  /\ pc'[m] = "none" => answer'[m] = None
                      /\ pc'[m] \in {"none", "created"} =>
                           records'[m] = NoRecord /\ op'[m] = None /\ result'[m] = None
                      /\ pc'[m] # "none" => command'[m] \in Commands
                      /\ pc'[m] = "created" => Background[command'[m]] /\ answer'[m] = None
                      /\ pc'[m] \in Running => op'[m] # None /\ attempt'[m] \in Attempts
                      /\ pc'[m] = "retrying" => attempt'[m] <= MaxRetries
                      /\ result'[m] # None => pc'[m] = "done"
                      /\ result'[m] = "dataset" => op'[m] # None
    BY DEF PlaceInv
  <2>1. CASE m = k
    BY <2>1 DEF TypeOK, Running
  <2>2. CASE m # k
    <3>1. m = o => records[m] # NoRecord
      BY <2>2 DEF PlaceInv, OperationInv, TypeOK, TaskSteps
    <3>. QED
      BY <2>2, <3>1 DEF TypeOK, PlaceInv
  <2>. QED
    BY <2>1, <2>2
<1>3. OperationInv'
  BY RecordsExist DEF TypeOK, PlaceInv, OperationInv, Existing, Running
<1>4. LiveInv'
  BY RecordsExist DEF TypeOK, PlaceInv, OperationInv, LiveInv, Existing, Ran
<1>5. HandleInv'
  <2>1. \A m \in Tasks : Pending(m)' => Pending(m)
    BY DEF TypeOK, PlaceInv, Pending
  <2>2. \A j \in Tasks : records'[j] # NoRecord => records[j] # NoRecord \/ j = o
    BY DEF TypeOK
  <2>3. \A j \in Tasks : records[j] # NoRecord => records'[j] # NoRecord /\ command'[j] = command[j]
    BY RecordsExist DEF TypeOK, PlaceInv
  <2>4. ASSUME NEW m \in Tasks, Pending(m), NEW j \in Tasks, records'[j] # NoRecord,
               j \notin before[m]
        PROVE  j = m \/ ~ Background[command'[j]]
    <3>1. CASE records[j] # NoRecord
      BY <2>3, <2>4, <3>1 DEF HandleInv, Existing
    <3>2. CASE records[j] = NoRecord
      <4>1. j = o /\ o = k /\ pc[k] \in {"none", "created"}
        BY <2>2, <2>4, <3>2 DEF PlaceInv, OperationInv, TypeOK, TaskSteps, Running
      <4>2. command'[k] = c
        BY DEF TypeOK
      <4>3. pc[k] = "created" => startLock = k
        BY DEF PlaceInv, HandleInv, Pending
      <4>. QED
        BY <2>4, <4>1, <4>2, <4>3 DEF HandleInv
    <3>. QED
      BY <3>1, <3>2
  <2>. QED
    BY <2>1, <2>3, <2>4 DEF HandleInv, Existing, TypeOK
<1>6. NoStolenHandle'
  BY DEF TypeOK, PlaceInv, HandleInv, NoStolenHandle
<1>7. OneDataset'
  <2>1. ASSUME NEW m \in Tasks, result'[m] = "dataset"
        PROVE  /\ op'[m] \in Tasks /\ records'[op'[m]].state = "completed"
               /\ m # k => result[m] = "dataset" /\ op'[m] = op[m] /\ records[op[m]].state = "completed"
    <3>1. CASE m = k
      BY <2>1, <3>1 DEF TypeOK
    <3>2. CASE m # k
      <4>1. result[m] = "dataset" /\ op'[m] = op[m] /\ op[m] \in Tasks
        BY <2>1, <3>2 DEF TypeOK, PlaceInv
      <4>2. records[op[m]].state = "completed"
        BY <4>1 DEF OneDataset, Record
      <4>3. records[op[m]] # NoRecord /\ Terminal(records[op[m]])
        BY <4>2, RecordsExist DEF Terminal, TerminalStates, States
      <4>. QED
        BY <3>2, <4>1, <4>2, <4>3 DEF TypeOK
    <3>. QED
      BY <3>1, <3>2
  <2>2. ASSUME NEW j \in Tasks, NEW m \in Tasks, j # m,
               result'[j] = "dataset", result'[m] = "dataset", op'[j] = op'[m]
        PROVE  FALSE
    <3>1. CASE j # k /\ m # k
      BY <2>1, <2>2, <3>1 DEF OneDataset
    <3>2. ASSUME NEW n \in Tasks, n # k, op'[n] = op'[k], result'[n] = "dataset",
                 result'[k] = "dataset"
          PROVE  FALSE
      <4>1. h = "dataset" /\ op'[k] = o
        BY <3>2 DEF TypeOK
      <4>2. records[o].state = "completed"
        BY <2>1, <3>2, <4>1
      <4>. QED
        BY <4>1, <4>2 DEF Terminal, TerminalStates
    <3>. QED
      BY <2>2, <3>1, <3>2
  <2>. QED
    BY <2>1, <2>2 DEF OneDataset, Record
<1>. QED
  BY <1>1, <1>2, <1>3, <1>4, <1>5, <1>6, <1>7

\* A request that is refused before its operation is found or begun.
LEMMA RefusedStep ==
  ASSUME IInv, NEW k \in Tasks, NEW c \in Commands,
         pc[k] \in {"none", "created"}, IF pc[k] = "none" THEN ~ Background[c] ELSE c = command[k],
         End(k, "error"), command' = [command EXCEPT ![k] = c],
         UNCHANGED <<records, op, cancelAsked, server, paused>>
  PROVE  IInv'
<1> USE DEF IInv, server, End
<1>1. TypeOK'
  BY DEF TypeOK, TaskSteps, Bytes
<1>2. PlaceInv'
  BY DEF TypeOK, PlaceInv, Running
<1>3. OperationInv' /\ LiveInv'
  BY DEF TypeOK, PlaceInv, OperationInv, LiveInv, Existing, Ran
<1>4. HandleInv' /\ NoStolenHandle'
  <2>1. \A m \in Tasks : Pending(m)' => Pending(m)
    BY DEF TypeOK, PlaceInv, Pending
  <2>2. \A j \in Tasks : records[j] # NoRecord => command'[j] = command[j]
    BY DEF TypeOK, PlaceInv
  <2>. QED
    BY <2>1, <2>2 DEF HandleInv, NoStolenHandle, Existing
<1>5. OneDataset'
  BY DEF TypeOK, PlaceInv, OneDataset, Record
<1>. QED
  BY <1>1, <1>2, <1>3, <1>4, <1>5

\* A step of the control command on operation o, which it leaves with the record s.
LEMMA ControlStep ==
  ASSUME IInv, NEW o \in Existing, NEW s \in R,
         records' = [records EXCEPT ![o] = s], UNCHANGED <<tasks, cancelAsked, server>>,
         paused' \in {paused, paused \cup {o}},
         Terminal(records[o]) => s.state = records[o].state,
         s.state = "paused" => o \in paused',
         o \notin paused' => Terminal(s) \/ s = records[o]
  PROVE  IInv'
<1> USE RecordsExist DEF IInv, server, tasks
<1>1. TypeOK'
  BY DEF TypeOK, R, Existing
<1>2. PlaceInv'
  BY DEF TypeOK, PlaceInv, Existing
<1>3. OperationInv'
  BY DEF TypeOK, OperationInv, Existing
<1>4. LiveInv'
  BY DEF TypeOK, LiveInv, Existing, Ran
<1>5. HandleInv' /\ NoStolenHandle'
  <2>1. Existing' = Existing
    BY DEF TypeOK, Existing
  <2>. QED
    BY <2>1 DEF TypeOK, HandleInv, NoStolenHandle, Pending, Existing
<1>6. OneDataset'
  BY DEF TypeOK, OneDataset, Record, Existing, Terminal, TerminalStates
<1>. QED
  BY <1>1, <1>2, <1>3, <1>4, <1>5, <1>6

LEMMA RequestBackgroundStep ==
  ASSUME IInv, NEW k \in Tasks, NEW c \in Commands, RequestBackground(k, c)
  PROVE  IInv'
<1> USE DEF IInv, RequestBackground
<1>1. TypeOK'
  BY DEF TypeOK, TaskSteps, Existing
<1>2. PlaceInv'
  BY DEF TypeOK, PlaceInv, Running
<1>3. OperationInv' /\ LiveInv'
  BY DEF TypeOK, PlaceInv, OperationInv, LiveInv, Existing, Ran
<1>4. HandleInv' /\ NoStolenHandle'
  <2>1. \A m \in Tasks : Pending(m)' => m = k
    BY DEF TypeOK, HandleInv, Pending
  <2>2. \A j \in Tasks : records[j] # NoRecord => command'[j] = command[j]
    BY DEF TypeOK, PlaceInv
  <2>3. before'[k] = Existing /\ startLock' = k
    BY DEF TypeOK
  <2>. QED
    BY <2>1, <2>2, <2>3 DEF HandleInv, NoStolenHandle, Existing
<1>5. OneDataset'
  BY DEF TypeOK, PlaceInv, OneDataset, Record
<1>. QED
  BY <1>1, <1>2, <1>3, <1>4, <1>5

\* The start that answers holds the lock: what is new is its own, or a direct request's.
LEMMA AnswerStep ==
  ASSUME IInv, NEW k \in Tasks, Answer(k)
  PROVE  IInv'
<1> DEFINE created == Existing \ before[k]
<1> USE DEF IInv, tasks
<1>0. UNCHANGED <<records, tasks, paused>> /\ startLock' = None /\ Pending(k)
  BY DEF Answer, Pending
<1>1. PICK x \in Operations \cup {"error"} :
        /\ answer' = [answer EXCEPT ![k] = x]
        /\ cancelAsked \subseteq cancelAsked' /\ cancelAsked' \subseteq Tasks
        /\ x # "error" => x \in created
  <2>1. CASE Cardinality(created) = 1
    <3>1. ASSUME created = {} PROVE FALSE
      <4>1. Cardinality({}) = 1
        BY <2>1, <3>1
      <4>. QED
        BY <4>1, FS_EmptySet
    <3>. QED
      BY <2>1, <3>1 DEF Answer, Existing, TypeOK
  <2>2. CASE Cardinality(created) # 1
    BY <2>2 DEF Answer, TypeOK
  <2>. QED
    BY <2>1, <2>2
<1>2. before' = [before EXCEPT ![k] = {}]
  BY DEF Answer
<1>3. TypeOK'
  BY <1>0, <1>1, <1>2 DEF TypeOK
<1>4. PlaceInv'
  BY <1>0, <1>1 DEF TypeOK, PlaceInv, Answer
<1>5. OperationInv' /\ LiveInv' /\ OneDataset'
  BY <1>0, <1>1 DEF OperationInv, LiveInv, OneDataset, Existing, Record
<1>6. HandleInv' /\ NoStolenHandle'
  <2>1. \A m \in Tasks : Pending(m)' => FALSE
    BY <1>0, <1>1 DEF TypeOK, HandleInv, Pending
  <2>2. x # "error" => records[x] # NoRecord /\ (x = k \/ ~ Background[command[x]])
    BY <1>0, <1>1 DEF HandleInv, Existing
  <2>. QED
    BY <1>0, <1>1, <2>1, <2>2 DEF HandleInv, NoStolenHandle, TypeOK
<1>. QED
  BY <1>3, <1>4, <1>5, <1>6

-------------------------------------------------------------------------------
(* The actions *)

\* What opening an operation amounts to, for a direct request and for a created task.
LEMMA OpenStep ==
  ASSUME IInv, NEW k \in Tasks, NEW c \in Commands, Open(k, c),
         pc[k] \in {"none", "created"}, IF pc[k] = "none" THEN ~ Background[c] ELSE c = command[k],
         command' = [command EXCEPT ![k] = c], UNCHANGED <<cancelAsked, server, paused>>
  PROVE  IInv'
<1> USE DEF IInv
<1>1. 1 \in Attempts /\ 0 \in Bytes /\ 1 \in 0 .. MaxRetries + 1 /\ 0 \in 0 .. MaxRetries + 1
  BY DEF Attempts, Bytes
<1>2. PICK o \in Tasks \cup {None}, offset \in Offsets, token \in Tokens \cup {None} :
        \/ o = None /\ OpenNew(k, c, offset, token)
        \/ o # None /\ OpenPaused(k, c, o, offset, token)
        \/ o # None /\ OpenRefused(k, c, o)
  BY DEF Open
<1>3. CASE OpenNew(k, c, offset, token)
  <2> DEFINE r == NewRecord(CapsOf[c], None, offset, token, 0)
             s == Updated(r, Connecting(1), 0)
  <2>1. r \in R /\ ~ Terminal(r) /\ WithinTotal(r) /\ r.attempt = 1
    BY <1>1 DEF NewRecord, R, Records, States, Terminal, TerminalStates, WithinTotal
  <2>2. UpdatePass(r, Connecting(1)) /\ Connecting(1) \in Updates
    BY <1>1, <2>1, ConnectPasses, ConnectingUpdates
  <2>3. s \in R /\ s.state = "connecting" /\ s.attempt = 1 /\ WithinTotal(s)
    BY <1>1, <2>1, <2>2, UpdatedFacts, ConnectingUpdates
  <2>4. /\ records' = [records EXCEPT ![k] = s] /\ op' = [op EXCEPT ![k] = k]
        /\ pc' = [pc EXCEPT ![k] = "fetching"] /\ attempt' = [attempt EXCEPT ![k] = 1]
        /\ got' = [got EXCEPT ![k] = 0] /\ UNCHANGED result
    BY <1>3, <2>2 DEF OpenNew, Connect, SetRecord
  <2>5. result' = [result EXCEPT ![k] = None]
    BY <2>4 DEF TypeOK, PlaceInv
  <2> HIDE DEF r, s
  <2>6. Ran(s, "fetching", 1)
    BY <2>3 DEF Ran, Running
  <2>7. records[k] = NoRecord /\ pc[k] # "done"
    BY DEF PlaceInv
  <2>8. TaskMove(k, k, s, c, "fetching", 1, 0, None)
    BY <1>1, <2>3, <2>4, <2>5, <2>6, <2>7 DEF TaskMove, Running
  <2>. QED
    BY <2>8, TaskStep
<1>4. CASE o # None /\ OpenPaused(k, c, o, offset, token)
  <2> DEFINE f == ResumeOffset(offset)
             r == Resumed(records[o], f, TRUE, token, 0)
             s == Updated(r, Connecting(1), 0)
  <2>1. records[o] # NoRecord /\ records[o] \in R /\ records[o].state = "paused" /\ o \in paused
    BY <1>4 DEF OpenPaused, Resumable, Existing, OperationInv, TypeOK, R
  <2>2. f \in Maybe(Nat)
    <3>1. offset \in Nat
      OBVIOUS
    <3>. QED
      BY <3>1 DEF ResumeOffset
  <2>3. r \in R /\ r.state \in {"paused", "resuming"}
    BY <2>1, <2>2, ResumedFacts
  <2>4. Connecting(1) \in Updates /\ Connecting(1).state = "connecting"
    BY <1>1, ConnectingUpdates
  <2>5. /\ s \in R
        /\ ~ UpdatePass(r, Connecting(1)) => s.state = r.state
        /\ UpdatePass(r, Connecting(1)) => s.state = "connecting"
    BY <2>3, <2>4, UpdatedFacts
  <2>6. ~ Terminal(records[o]) /\ pc[k] # "done" /\ result[k] = None
    BY <2>1 DEF Terminal, TerminalStates, PlaceInv
  <2>7. op' = [op EXCEPT ![k] = o]
    BY <1>4 DEF OpenPaused
  <2>8. CASE ResumePass(records[o], f, TRUE, token) /\ UpdatePass(r, Connecting(1))
    <3>1. /\ records' = [records EXCEPT ![o] = s]
          /\ pc' = [pc EXCEPT ![k] = "fetching"] /\ attempt' = [attempt EXCEPT ![k] = 1]
          /\ got' = [got EXCEPT ![k] = 0] /\ UNCHANGED result
      BY <1>4, <2>8 DEF OpenPaused, Connect, SetRecord
    <3>2. result' = [result EXCEPT ![k] = None]
      BY <2>6, <3>1 DEF TypeOK
    <3>3. o # k
      BY <2>1 DEF PlaceInv
    <3> HIDE DEF f, r, s
    <3>4. TaskMove(k, o, s, c, "fetching", 1, 0, None)
      BY <1>1, <1>4, <2>1, <2>5, <2>6, <2>7, <2>8, <3>1, <3>2, <3>3 DEF TaskMove, Running
    <3>. QED
      BY <3>4, TaskStep
  <2>9. ASSUME NEW z \in {r, s}, SetRecord(o, z), End(k, "error")
        PROVE  IInv'
    <3>1. z \in R
      BY <2>3, <2>5, <2>9
    <3>2. /\ records' = [records EXCEPT ![o] = z]
          /\ pc' = [pc EXCEPT ![k] = "done"] /\ attempt' = [attempt EXCEPT ![k] = 0]
          /\ got' = [got EXCEPT ![k] = 0] /\ result' = [result EXCEPT ![k] = "error"]
      BY <2>9 DEF SetRecord, End
    <3>3. o # k
      BY <2>1 DEF PlaceInv
    <3> HIDE DEF f, r, s
    <3>4. TaskMove(k, o, z, c, "done", 0, 0, "error")
      BY <1>1, <1>4, <2>1, <2>3, <2>5, <2>6, <2>7, <2>9, <3>1, <3>2, <3>3 DEF TaskMove, Running
    <3>. QED
      BY <3>4, TaskStep
  <2>. QED
    BY <1>4, <2>8, <2>9 DEF OpenPaused, Connect
<1>5. CASE OpenRefused(k, c, o)
  BY <1>5, RefusedStep DEF OpenRefused
<1>. QED
  BY <1>2, <1>3, <1>4, <1>5

\* What is known of a task inside its attempt loop.
LEMMA RunningFacts ==
  ASSUME IInv, NEW k \in Tasks, pc[k] \in Running
  PROVE  /\ op[k] \in Tasks /\ command[k] \in Commands
         /\ Record(k) \in R /\ Record(k) # NoRecord
         /\ op[k] = k \/ op[k] \in paused
         /\ Record(k).state = "paused" => op[k] \in paused
         /\ attempt[k] \in Attempts /\ got[k] \in Bytes /\ result[k] = None
         /\ op[k] = k /\ k \notin paused \cup cancelAsked =>
              Ran(Record(k), pc[k], attempt[k])
<1> USE DEF IInv
<1>1. op[k] \in Tasks /\ command[k] \in Commands /\ attempt[k] \in Attempts /\ result[k] = None
  BY DEF TypeOK, PlaceInv, Running
<1>2. Record(k) \in R /\ Record(k) # NoRecord
  BY <1>1 DEF TypeOK, OperationInv, Record, R
<1>. QED
  BY <1>1, <1>2 DEF TypeOK, OperationInv, LiveInv, Existing, Record

\* A task's step on its own operation, while it goes on or when it is over.
OwnMove(k, s, p, a, g, h) ==
  /\ pc[k] \in Running /\ s \in R /\ p \in Running \cup {"done"}
  /\ a \in 0 .. MaxRetries + 1 /\ g \in Bytes /\ h \in {None, "dataset", "error", "refused"}
  /\ records' = [records EXCEPT ![op[k]] = s]
  /\ pc' = [pc EXCEPT ![k] = p] /\ attempt' = [attempt EXCEPT ![k] = a]
  /\ got' = [got EXCEPT ![k] = g] /\ result' = [result EXCEPT ![k] = h]
  /\ UNCHANGED <<command, op, cancelAsked, server, paused>>
  /\ h # None => p = "done"
  /\ p \in Running => a \in Attempts
  /\ p = "retrying" => a <= MaxRetries
  /\ s.state = "paused" => op[k] \in paused
  /\ Terminal(Record(k)) => s.state = Record(k).state
  /\ h = "dataset" => s.state = "completed" /\ ~ Terminal(Record(k))
  /\ op[k] = k /\ k \notin paused \cup cancelAsked => Ran(s, p, a)

LEMMA OwnStep ==
  ASSUME IInv, NEW k \in Tasks, NEW s, NEW p, NEW a, NEW g, NEW h, OwnMove(k, s, p, a, g, h)
  PROVE  IInv'
<1>1. pc[k] \in Running
  BY DEF OwnMove
<1>2. /\ op[k] \in Tasks /\ command[k] \in Commands /\ records[op[k]] # NoRecord
      /\ op[k] = k \/ op[k] \in paused
  BY <1>1, RunningFacts DEF Record
<1>3. op' = [op EXCEPT ![k] = op[k]] /\ command' = [command EXCEPT ![k] = command[k]]
  BY DEF OwnMove, IInv, TypeOK
<1>4. pc[k] \notin {"none", "created", "done"}
  BY <1>1 DEF Running
<1>5. TaskMove(k, op[k], s, command[k], p, a, g, h)
  BY <1>2, <1>3, <1>4 DEF OwnMove, TaskMove, Record
<1>. QED
  BY <1>5, TaskStep

\* A task that ends on its operation.
EndMove(k, s, h) ==
  /\ pc[k] \in Running /\ s \in R /\ h \in {"dataset", "error", "refused"}
  /\ records' = [records EXCEPT ![op[k]] = s] /\ End(k, h)
  /\ UNCHANGED <<command, op, cancelAsked, server, paused>>
  /\ s.state = "paused" => op[k] \in paused
  /\ Terminal(Record(k)) => s.state = Record(k).state
  /\ h = "dataset" => s.state = "completed" /\ ~ Terminal(Record(k))
  /\ op[k] = k /\ k \notin paused \cup cancelAsked => Terminal(s)

LEMMA EndStep ==
  ASSUME IInv, NEW k \in Tasks, NEW s, NEW h, EndMove(k, s, h)
  PROVE  IInv'
<1>1. 0 \in 0 .. MaxRetries + 1 /\ 0 \in Bytes
  BY DEF Bytes
<1>2. OwnMove(k, s, "done", 0, 0, h)
  BY <1>1 DEF EndMove, OwnMove, End, Ran, Running
<1>. QED
  BY <1>2, OwnStep

\* A report: the counters move, or the operation fails.
LEMMA ReportStep ==
  ASSUME IInv, NEW k \in Tasks, pc[k] = "fetching", NEW n \in Nat, got[k] + n \in Bytes,
         NEW u, [u EXCEPT !.attempt = attempt[k]] \in Updates,
         [u EXCEPT !.attempt = attempt[k]].attempt = attempt[k],
         [u EXCEPT !.attempt = attempt[k]].state = "running",
         Report(k, n, u), UNCHANGED <<command, op, cancelAsked, server, paused>>
  PROVE  IInv'
<1> DEFINE v == [u EXCEPT !.attempt = attempt[k]]
           r == Updated(Record(k), v, 0)
<1>0. pc[k] \in Running
  BY DEF Running
<1>1. /\ Record(k) \in R /\ attempt[k] \in Attempts /\ result[k] = None
      /\ Record(k).state = "paused" => op[k] \in paused
  BY <1>0, RunningFacts
<1>2. /\ r \in R
      /\ Terminal(Record(k)) => ~ UpdatePass(Record(k), v)
      /\ ~ UpdatePass(Record(k), v) => r.state = Record(k).state
      /\ UpdatePass(Record(k), v) =>
           r.state = "running" /\ r.attempt = attempt[k] /\ WithinTotal(r)
  BY <1>1, UpdatedFacts
<1>3. CASE UpdatePass(Record(k), v)
  <2>1. /\ records' = [records EXCEPT ![op[k]] = r] /\ got' = [got EXCEPT ![k] = got[k] + n]
        /\ UNCHANGED <<pc, attempt, result>>
    BY <1>3 DEF Report, SetRecord
  <2>2. /\ pc' = [pc EXCEPT ![k] = "fetching"] /\ attempt' = [attempt EXCEPT ![k] = attempt[k]]
        /\ result' = [result EXCEPT ![k] = None]
    BY <1>1, <2>1 DEF IInv, TypeOK
  <2> HIDE DEF v, r
  <2>3. Ran(r, "fetching", attempt[k])
    BY <1>1, <1>2, <1>3 DEF Ran, Running, Attempts, R, Records
  <2>. QED
    <3>1. attempt[k] \in 0 .. MaxRetries + 1 /\ r.state # "paused" /\ ~ Terminal(Record(k))
      BY <1>1, <1>2, <1>3 DEF Attempts
    <3>2. OwnMove(k, r, "fetching", attempt[k], got[k] + n, None)
      BY <1>0, <1>1, <1>2, <2>1, <2>2, <2>3, <3>1 DEF OwnMove, Running
    <3>. QED
      BY <3>2, OwnStep
<1>4. CASE ~ UpdatePass(Record(k), v)
  <2> DEFINE s == Failed(r)
             h == IF Terminal(r) THEN "error" ELSE "refused"
  <2>1. records' = [records EXCEPT ![op[k]] = s] /\ End(k, h)
    BY <1>4 DEF Report, SetRecord
  <2>2. s \in R /\ Terminal(s) /\ (Terminal(r) => s = r)
    BY <1>2, FinishedFacts DEF Failed, TerminalStates
  <2>3. h \in {"error", "refused"}
    OBVIOUS
  <2>4. Terminal(Record(k)) => s.state = Record(k).state
    BY <1>2, <1>4, <2>2 DEF Terminal
  <2>5. s.state # "paused"
    BY <2>2 DEF Terminal, TerminalStates
  <2> HIDE DEF v, r, s, h
  <2>6. EndMove(k, s, h)
    BY <1>0, <2>1, <2>2, <2>3, <2>4, <2>5 DEF EndMove
  <2>. QED
    BY <2>6, EndStep
<1>. QED
  BY <1>3, <1>4

LEMMA ReportsStep ==
  ASSUME IInv, NEW k \in Tasks, ReportSize(k) \/ ReportChunk(k)
  PROVE  IInv'
<1>1. pc[k] = "fetching" /\ pc[k] \in Running
  BY DEF ReportSize, ReportChunk, Fetching, Running
<1>2. Record(k) \in R /\ attempt[k] \in Attempts /\ got[k] \in Bytes
  BY <1>1, RunningFacts
<1>3. CASE ReportSize(k)
  <2> DEFINE u == [NoUpdate EXCEPT !.total = SourceSize, !.state = "running"]
             v == [u EXCEPT !.attempt = attempt[k]]
  <2>1. v \in Updates /\ v.attempt = attempt[k] /\ v.state = "running"
    BY <1>2 DEF NoUpdate, Updates
  <2>2. Report(k, 0, u) /\ UNCHANGED <<command, op, cancelAsked, server, paused>>
    BY <1>3 DEF ReportSize
  <2>3. 0 \in Nat /\ got[k] + 0 \in Bytes
    BY <1>2 DEF Bytes
  <2> HIDE DEF u
  <2>. QED
    BY <1>1, <2>1, <2>2, <2>3, ReportStep
<1>4. CASE ReportChunk(k)
  <2> DEFINE u == [NoUpdate EXCEPT !.bytes = Record(k).bytes + 1,
                                   !.offset = Record(k).offset + 1,
                                   !.state = "running"]
             v == [u EXCEPT !.attempt = attempt[k]]
  <2>1. Record(k).bytes + 1 \in Nat /\ Record(k).offset + 1 \in Nat
    BY <1>2 DEF R, Records
  <2>2. v \in Updates /\ v.attempt = attempt[k] /\ v.state = "running"
    BY <1>2, <2>1 DEF NoUpdate, Updates
  <2>3. Report(k, 1, u) /\ UNCHANGED <<command, op, cancelAsked, server, paused>>
    BY <1>4 DEF ReportChunk
  <2>4. 1 \in Nat /\ got[k] + 1 \in Bytes
    BY <1>2, <1>4 DEF Bytes, ReportChunk
  <2> HIDE DEF u
  <2>. QED
    BY <1>1, <2>2, <2>3, <2>4, ReportStep
<1>. QED
  BY <1>3, <1>4

LEMMA FetchReturnStep ==
  ASSUME IInv, NEW k \in Tasks, NEW whole \in BOOLEAN, NEW normal \in BOOLEAN,
         FetchReturn(k, whole, normal)
  PROVE  IInv'
<1> DEFINE u == RawUpdate(k, whole)
           r == Updated(Record(k), u, 0)
           passed == UpdatePass(Record(k), u)
<1>1. pc[k] \in Running
  BY DEF FetchReturn, Fetching, Running
<1>2. Record(k) \in R /\ attempt[k] \in Attempts
  BY <1>1, RunningFacts
<1>3. u \in Updates
  BY <1>2 DEF RawUpdate, Updates, R, Records
<1>4. /\ r \in R
      /\ Terminal(Record(k)) => ~ passed
      /\ ~ passed => r.state = Record(k).state
      /\ passed => r.state = u.state
  BY <1>2, <1>3, UpdatedFacts
<1>5. u.state = "running"
  BY DEF RawUpdate
<1>6. UNCHANGED <<command, op, cancelAsked, server, paused>>
  BY DEF FetchReturn
<1>7. CASE /\ passed /\ SetRecord(op[k], Finished(r, "completed", 0)) /\ End(k, "dataset")
  <2> DEFINE s == Finished(r, "completed", 0)
  <2>1. ~ Terminal(r) /\ "completed" \in TerminalStates
    BY <1>4, <1>5, <1>7 DEF Terminal, TerminalStates
  <2>2. s \in R /\ Terminal(s) /\ s.state = "completed"
    BY <1>4, <2>1, FinishedFacts
  <2>3. records' = [records EXCEPT ![op[k]] = s] /\ ~ Terminal(Record(k)) /\ End(k, "dataset")
    BY <1>4, <1>7 DEF SetRecord
  <2> HIDE DEF u, r, passed, s
  <2>4. EndMove(k, s, "dataset")
    BY <1>1, <1>6, <2>2, <2>3 DEF EndMove
  <2>. QED
    BY <2>4, EndStep
<1>8. ASSUME NEW h \in {"error", "refused"}, SetRecord(op[k], Failed(r)), End(k, h)
      PROVE  IInv'
  <2> DEFINE s == Failed(r)
  <2>1. s \in R /\ Terminal(s) /\ (Terminal(r) => s = r)
    BY <1>4, FinishedFacts DEF Failed, TerminalStates
  <2>2. Terminal(Record(k)) => s.state = Record(k).state
    BY <1>4, <2>1 DEF Terminal
  <2>3. s.state # "paused"
    BY <2>1 DEF Terminal, TerminalStates
  <2>4. records' = [records EXCEPT ![op[k]] = s]
    BY <1>8 DEF SetRecord
  <2> HIDE DEF u, r, passed, s
  <2>5. EndMove(k, s, h)
    BY <1>1, <1>6, <1>8, <2>1, <2>2, <2>3, <2>4 DEF EndMove
  <2>. QED
    BY <2>5, EndStep
<1>. QED
  BY <1>7, <1>8 DEF FetchReturn

LEMMA FetchRaiseStep ==
  ASSUME IInv, NEW k \in Tasks, NEW retryable \in BOOLEAN, FetchRaise(k, retryable)
  PROVE  IInv'
<1> DEFINE a == attempt[k] + 1
           u == Connecting(a)
           r == Record(k)
           s == Updated(r, u, 0)
<1>1. pc[k] \in Running /\ pc[k] = "fetching" /\ UNCHANGED <<command, op, cancelAsked, server, paused>>
  BY DEF FetchRaise, Fetching, Running
<1>2. /\ r \in R /\ attempt[k] \in Attempts /\ got[k] \in Bytes /\ result[k] = None
      /\ r.state = "paused" => op[k] \in paused
      /\ op[k] = k /\ k \notin paused \cup cancelAsked => Ran(r, pc[k], attempt[k])
  BY <1>1, RunningFacts
<1>3. CASE AttemptsLeft(k) /\ UpdatePass(r, u) /\ SetRecord(op[k], s)
           /\ pc' = [pc EXCEPT ![k] = "retrying"] /\ UNCHANGED <<attempt, got, result>>
  <2>1. a \in Attempts /\ attempt[k] <= MaxRetries /\ attempt[k] \in 0 .. MaxRetries + 1
    BY <1>2, <1>3 DEF AttemptsLeft, Attempts
  <2>2. u \in Updates /\ u.state = "connecting" /\ u.attempt = a
    BY <2>1, ConnectingUpdates
  <2> HIDE DEF a, u, r, s
  <2>3. s \in R /\ s.state = "connecting" /\ s.attempt = a /\ WithinTotal(s) /\ ~ Terminal(r)
    BY <1>2, <1>3, <2>2, UpdatedFacts DEF s
  <2>4. Ran(s, "retrying", attempt[k])
    BY <2>1, <2>3 DEF Ran, Running, a, Attempts
  <2>5. /\ records' = [records EXCEPT ![op[k]] = s] /\ attempt' = [attempt EXCEPT ![k] = attempt[k]]
        /\ got' = [got EXCEPT ![k] = got[k]] /\ result' = [result EXCEPT ![k] = None]
    BY <1>2, <1>3 DEF SetRecord, IInv, TypeOK
  <2>6. OwnMove(k, s, "retrying", attempt[k], got[k], None)
    BY <1>1, <1>2, <1>3, <2>1, <2>3, <2>4, <2>5 DEF OwnMove, Running, r
  <2>. QED
    BY <2>6, OwnStep
<1>4. CASE AttemptsLeft(k) /\ ~ UpdatePass(r, u) /\ End(k, "error") /\ UNCHANGED records
  <2>1. a \in Attempts /\ attempt[k] <= a
    BY <1>2, <1>4 DEF AttemptsLeft, Attempts
  <2>2. op[k] = k /\ k \notin paused \cup cancelAsked => Terminal(r)
    <3> SUFFICES ASSUME op[k] = k, k \notin paused \cup cancelAsked, ~ Terminal(r) PROVE FALSE
      OBVIOUS
    <3>1. WithinTotal(r) /\ r.attempt <= attempt[k]
      BY <1>1, <1>2 DEF Ran
    <3>2. r.attempt <= a
      BY <1>2, <2>1, <3>1 DEF R, Records, Attempts
    <3>. QED
      BY <1>2, <1>4, <2>1, <3>1, <3>2, ConnectPasses
  <2>3. records' = [records EXCEPT ![op[k]] = r]
    BY <1>4 DEF IInv, TypeOK, Record
  <2> HIDE DEF a, u, s
  <2>4. EndMove(k, r, "error")
    BY <1>1, <1>2, <1>4, <2>2, <2>3 DEF EndMove
  <2>. QED
    BY <2>4, EndStep
<1>5. CASE SetRecord(op[k], Failed(r)) /\ End(k, "error")
  <2>1. Failed(r) \in R /\ Terminal(Failed(r)) /\ (Terminal(r) => Failed(r) = r)
    BY <1>2, FinishedFacts DEF Failed, TerminalStates
  <2>2. EndMove(k, Failed(r), "error")
    BY <1>1, <1>2, <1>5, <2>1 DEF EndMove, SetRecord, Terminal, TerminalStates
  <2>. QED
    BY <2>2, EndStep
<1>. QED
  BY <1>3, <1>4, <1>5 DEF FetchRaise

LEMMA RetryStep ==
  ASSUME IInv, NEW k \in Tasks, Retry(k) PROVE IInv'
<1> DEFINE a == attempt[k] + 1
           u == Connecting(a)
           r == Record(k)
           s == Updated(r, u, 0)
<1>1. pc[k] \in Running /\ pc[k] = "retrying" /\ UNCHANGED <<command, op, cancelAsked, server, paused>>
  BY DEF Retry, Running
<1>2. /\ r \in R /\ attempt[k] \in Attempts /\ result[k] = None
      /\ r.state = "paused" => op[k] \in paused
      /\ op[k] = k /\ k \notin paused \cup cancelAsked => Ran(r, pc[k], attempt[k])
  BY <1>1, RunningFacts
<1>3. a \in Attempts /\ a \in 0 .. MaxRetries + 1 /\ 0 \in Bytes
  BY <1>1, <1>2 DEF IInv, PlaceInv, Attempts, Bytes
<1>4. u \in Updates /\ u.state = "connecting" /\ u.attempt = a
  BY <1>3, ConnectingUpdates
<1>5. /\ s \in R
      /\ Terminal(r) => ~ UpdatePass(r, u)
      /\ ~ UpdatePass(r, u) => s.state = r.state
      /\ UpdatePass(r, u) => s.state = "connecting" /\ s.attempt = a /\ WithinTotal(s)
  BY <1>2, <1>4, UpdatedFacts
<1>6. records' = [records EXCEPT ![op[k]] = s]
  BY DEF Retry, Connect, SetRecord
<1>7. CASE UpdatePass(r, u)
  <2>1. /\ pc' = [pc EXCEPT ![k] = "fetching"] /\ attempt' = [attempt EXCEPT ![k] = a]
        /\ got' = [got EXCEPT ![k] = 0] /\ UNCHANGED result
    BY <1>7 DEF Retry, Connect
  <2>2. result' = [result EXCEPT ![k] = None]
    BY <1>2, <2>1 DEF IInv, TypeOK
  <2> HIDE DEF a, u, s
  <2>3. Ran(s, "fetching", a)
    BY <1>3, <1>5, <1>7 DEF Ran, Running, Attempts
  <2>4. OwnMove(k, s, "fetching", a, 0, None)
    BY <1>1, <1>2, <1>3, <1>5, <1>6, <1>7, <2>1, <2>2, <2>3 DEF OwnMove, Running
  <2>. QED
    BY <2>4, OwnStep
<1>8. CASE ~ UpdatePass(r, u)
  <2>1. End(k, "error")
    BY <1>8 DEF Retry, Connect
  <2>2. op[k] = k /\ k \notin paused \cup cancelAsked => Terminal(r)
    BY <1>1, <1>2, <1>3, <1>8, ConnectPasses DEF Ran
  <2>3. Terminal(r) => Terminal(s)
    BY <1>5, <1>8 DEF Terminal
  <2> HIDE DEF a, u, s
  <2>4. EndMove(k, s, "error")
    BY <1>1, <1>2, <1>5, <1>6, <1>8, <2>1, <2>2, <2>3 DEF EndMove
  <2>. QED
    BY <2>4, EndStep
<1>. QED
  BY <1>7, <1>8

LEMMA CancelStep ==
  ASSUME IInv, NEW k \in Tasks, CancelDelivered(k) PROVE IInv'
<1> DEFINE r == Record(k)
           s == Finished(r, "cancelled", 0)
<1>1. /\ pc[k] \in Running /\ k \in cancelAsked /\ End(k, "error")
      /\ UNCHANGED <<command, op, cancelAsked, server, paused>>
  BY DEF CancelDelivered, Running
<1>2. r \in R /\ (r.state = "paused" => op[k] \in paused)
  BY <1>1, RunningFacts
<1>3. CASE pc[k] = "fetching"
  <2>1. s \in R /\ Terminal(s) /\ (Terminal(r) => s = r)
    BY <1>2, FinishedFacts DEF TerminalStates
  <2>2. EndMove(k, s, "error")
    BY <1>1, <1>2, <1>3, <2>1 DEF EndMove, CancelDelivered, SetRecord, Terminal, TerminalStates
  <2>. QED
    BY <2>2, EndStep
<1>4. CASE pc[k] # "fetching"
  <2>1. records' = [records EXCEPT ![op[k]] = r]
    BY <1>4 DEF CancelDelivered, IInv, TypeOK, Record
  <2>2. EndMove(k, r, "error")
    BY <1>1, <1>2, <2>1 DEF EndMove
  <2>. QED
    BY <2>2, EndStep
<1>. QED
  BY <1>3, <1>4
LEMMA ControlPauseStep ==
  ASSUME IInv, NEW o \in Operations, ControlPause(o) PROVE IInv'
<1> DEFINE s == Paused(records[o], 0)
<1>1. o \in Existing /\ records[o] \in R /\ ~ Terminal(records[o])
  BY DEF ControlPause, Existing, IInv, TypeOK, R
<1>2. s \in R
  BY <1>1, PausedFacts
<1>3. /\ records' = [records EXCEPT ![o] = s] /\ UNCHANGED <<tasks, cancelAsked, server>>
      /\ paused' = paused \cup {o}
  BY DEF ControlPause, SetRecord
<1>4. o \in paused' /\ paused' \in {paused, paused \cup {o}}
  BY <1>3
<1> HIDE DEF s
<1>. QED
  BY <1>1, <1>2, <1>3, <1>4, ControlStep

LEMMA ControlResumeStep ==
  ASSUME IInv, NEW o \in Operations, NEW offset \in Offsets \cup {None},
         NEW token \in Tokens \cup {None}, ControlResume(o, offset, token)
  PROVE  IInv'
<1> DEFINE s == Resumed(records[o], offset, TRUE, token, 0)
<1>1. o \in Existing /\ records[o] \in R
  BY DEF ControlResume, Existing, IInv, TypeOK, R
<1>2. offset \in Maybe(Nat) /\ token \in Maybe(Tokens)
  <2>1. \A n \in 0 .. SourceSize : n \in Nat
    OBVIOUS
  <2>. QED
    BY <2>1
<1>3. /\ s \in R
      /\ records[o].state # "paused" => s = records[o]
      /\ records[o].state = "paused" => s.state \in {"paused", "resuming"}
  <2> DEFINE r == records[o]
  <2>1. r \in R
    BY <1>1
  <2> HIDE DEF r
  <2>2. LET t == Resumed(r, offset, TRUE, token, 0)
        IN t \in R /\ (r.state # "paused" => t = r)
           /\ (r.state = "paused" => t.state \in {"paused", "resuming"})
    BY <1>2, <2>1, ResumedFacts
  <2>. QED
    BY <2>2 DEF r
<1>4. /\ records' = [records EXCEPT ![o] = s] /\ UNCHANGED <<tasks, cancelAsked, server>>
      /\ paused' = paused
  BY DEF ControlResume, SetRecord
<1>5. records[o].state = "paused" => o \in paused
  BY <1>1 DEF IInv, OperationInv
<1>6. /\ Terminal(records[o]) => s.state = records[o].state
      /\ s.state = "paused" => o \in paused'
      /\ o \notin paused' => Terminal(s) \/ s = records[o]
  BY <1>3, <1>4, <1>5 DEF Terminal, TerminalStates
<1>7. paused' \in {paused, paused \cup {o}}
  BY <1>4
<1> HIDE DEF s
<1>. QED
  BY <1>1, <1>3, <1>4, <1>6, <1>7, ControlStep

LEMMA ControlCancelStep ==
  ASSUME IInv, NEW o \in Operations, ControlCancel(o) PROVE IInv'
<1> DEFINE s == Finished(records[o], "cancelled", 0)
<1>1. o \in Existing /\ records[o] \in R
  BY DEF ControlCancel, Existing, IInv, TypeOK, R
<1>2. s \in R /\ Terminal(s) /\ (Terminal(records[o]) => s = records[o])
  BY <1>1, FinishedFacts DEF TerminalStates
<1>3. /\ records' = [records EXCEPT ![o] = s] /\ UNCHANGED <<tasks, cancelAsked, server>>
      /\ paused' = paused
  BY DEF ControlCancel, SetRecord
<1>4. s.state # "paused"
  BY <1>2 DEF Terminal, TerminalStates
<1>5. paused' \in {paused, paused \cup {o}}
  BY <1>3
<1> HIDE DEF s
<1>. QED
  BY <1>1, <1>2, <1>3, <1>4, <1>5, ControlStep

LEMMA NextInv == IInv /\ [Next]_vars => IInv'
<1> SUFFICES ASSUME IInv, [Next]_vars PROVE IInv'
  OBVIOUS
<1>1. ASSUME NEW k \in Tasks, NEW c \in Asks[k], RequestDirect(k, c) PROVE IInv'
  <2>1. c \in Commands
    OBVIOUS
  <2>. QED
    BY <1>1, <2>1, OpenStep DEF RequestDirect
<1>2. ASSUME NEW k \in Tasks, NEW c \in Asks[k], RequestBackground(k, c) PROVE IInv'
  <2>1. c \in Commands
    OBVIOUS
  <2>. QED
    BY <1>2, <2>1, RequestBackgroundStep
<1>3. ASSUME NEW k \in Tasks, TaskStart(k) PROVE IInv'
  <2>1. command[k] \in Commands
    BY <1>3 DEF TaskStart, IInv, PlaceInv
  <2>2. command' = [command EXCEPT ![k] = command[k]]
    BY <1>3 DEF TaskStart, IInv, TypeOK
  <2>. QED
    BY <1>3, <2>1, <2>2, OpenStep DEF TaskStart
<1>4. ASSUME NEW k \in Tasks, FetchEnds(k) PROVE IInv'
  BY <1>4, FetchReturnStep, FetchRaiseStep DEF FetchEnds
<1>5. ASSUME UNCHANGED vars PROVE IInv'
  BY <1>5 DEF vars, tasks, server, IInv, TypeOK, PlaceInv, OperationInv, LiveInv, HandleInv,
              OneDataset, NoStolenHandle, Existing, Record, Pending, Ran
<1>. QED
  BY <1>1, <1>2, <1>3, <1>4, <1>5, AnswerStep, ReportsStep, RetryStep, CancelStep,
     ControlPauseStep, ControlResumeStep, ControlCancelStep DEF Next

-------------------------------------------------------------------------------
(* The theorems *)

\* The lifecycle's state stays well formed; in particular no task counts an attempt
\* beyond the retry limit or receives more bytes than the source has.
THEOREM LifecycleTypeCorrect == Spec => []TypeOK
<1>1. IInv => TypeOK
  BY DEF IInv
<1>. QED
  BY InitInv, NextInv, <1>1, PTL DEF Spec

\* Whatever pauses, resumes, cancellations and retries meet it, an operation yields at
\* most one dataset, and only by completing.
THEOREM DatasetOnce == Spec => []OneDataset
<1>1. IInv => OneDataset
  BY DEF IInv
<1>. QED
  BY InitInv, NextInv, <1>1, PTL DEF Spec

\* An operation nobody paused or cancelled is never left behind by execute: it has ended
\* or its task is in the attempt loop.
THEOREM NeverSilentlyAbandoned == Spec => []NeverAbandoned
<1>1. IInv => NeverAbandoned
  BY DEF IInv, LiveInv, NeverAbandoned, Ran, Running, Live, Existing
<1>. QED
  BY InitInv, NextInv, <1>1, PTL DEF Spec

\* The handle that a background start finds by comparing key sets is never the
\* operation of another background start.
THEOREM HandleNotStolen == Spec => []NoStolenHandle
<1>1. IInv => NoStolenHandle
  BY DEF IInv
<1>. QED
  BY InitInv, NextInv, <1>1, PTL DEF Spec
===============================================================================
