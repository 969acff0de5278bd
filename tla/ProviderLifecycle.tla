---------------------------- MODULE ProviderLifecycle ----------------------------
(***************************************************************************)
(* The provider lifecycle on one asyncio loop: requests for a provider's   *)
(* commands (server.py), the common attempt loop of execute                *)
(* (provider_contract.py), the control command, and the tracker's records  *)
(* that they share.  Code between two awaits is one step.  A command that  *)
(* can report or resume runs as a background task: the server creates the  *)
(* task, yields once, and finds the operation by comparing the tracker's   *)
(* keys before and after.  Concrete providers are outside the repository:  *)
(* what fetch_raw may do to the operation is any sequence of the base      *)
(* classes' reports, then a response or an error.                          *)
(***************************************************************************)
EXTENDS ProgressRecord, FiniteSets

CONSTANTS
  Tasks,       \* requests; an operation bears the name of the task that began it
  Commands, CapsOf, Background,
  Asks,        \* the commands that each request may be for
  MaxRetries,
  SourceSize,  \* bytes of the source that a command streams
  Offsets      \* byte offsets callers ask for

ASSUME LifecycleOK ==
  /\ CapsOf \in [Commands -> Capabilities]
  /\ Background \in [Commands -> BOOLEAN] /\ Asks \in [Tasks -> SUBSET Commands]
  /\ \A c \in Commands : CapsOf[c].resume # "unsupported" => Background[c]
  /\ MaxRetries \in Nat /\ SourceSize \in Nat
  /\ Offsets \subseteq 0 .. SourceSize /\ 0 \in Offsets
  /\ None \notin Nat \cup Tasks \cup Tokens \cup States \cup Commands
  /\ None \notin {"dataset", "error", "refused"} /\ "error" \notin Tasks

Operations == Tasks
Attempts == 1 .. MaxRetries + 1
Bytes == 0 .. SourceSize
NoRecord == [state |-> None]
TaskSteps == {"none", "created", "fetching", "retrying", "done"}
Live == {"created", "fetching", "retrying"}

VARIABLES
  records,   \* the tracker's records
  pc, command, op, attempt,  \* the tasks running execute
  got,       \* bytes of the source a task's current attempt has received
  result,    \* how a task ended: a dataset, an error, or a report the tracker
             \* refused on an operation that had not ended
  cancelAsked,   \* tasks on which Task.cancel has been called
  startLock,     \* holder of the provider's start lock
  before,        \* tracker keys the starting request saw before its task ran
  answer,        \* what the background start answered: an operation, "error"
  paused         \* history: operations a caller has paused

tasks == <<pc, command, op, attempt, got, result>>
server == <<startLock, before, answer>>
vars == <<records, tasks, cancelAsked, server, paused>>

Existing == {o \in Operations : records[o] # NoRecord}
Record(k) == records[op[k]]

\* The clocks are the tracker's own subject; here all happens at second 0.
SetRecord(o, r) == records' = [records EXCEPT ![o] = r]

\* The task of k is over and its local variables are gone.
End(k, how) ==
  /\ pc' = [pc EXCEPT ![k] = "done"]
  /\ result' = [result EXCEPT ![k] = how]
  /\ attempt' = [attempt EXCEPT ![k] = 0]
  /\ got' = [got EXCEPT ![k] = 0]

-------------------------------------------------------------------------------
(* The first segment of execute: prepare or begin, then the update at the head *)
(* of the attempt loop, which is outside its try block                         *)

Connecting(a) == [NoUpdate EXCEPT !.state = "connecting", !.attempt = a]

\* Attempt a of k connects with record r of operation o; a refusal ends the task
\* with a bare ValueError and leaves r as the refused update left it.
Connect(k, o, r, a) ==
  /\ SetRecord(o, Updated(r, Connecting(a), 0))
  /\ IF UpdatePass(r, Connecting(a))
     THEN /\ pc' = [pc EXCEPT ![k] = "fetching"]
          /\ attempt' = [attempt EXCEPT ![k] = a]
          /\ got' = [got EXCEPT ![k] = 0]
          /\ UNCHANGED result
     ELSE End(k, "error")

\* begin_operation, for a request that names no operation.
OpenNew(k, c, offset, token) ==
  /\ ValidOffset(CapsOf[c], offset) /\ ValidToken(CapsOf[c], token)
  /\ op' = [op EXCEPT ![k] = k]
  /\ Connect(k, k, NewRecord(CapsOf[c], None, offset, token, 0), 1)

\* _prepare_existing_operation, when the request names a paused operation of its
\* own command (task o began it, and its capabilities are the command's).  Offset
\* zero stands for no offset.  Here, as in the resume control, the block size has been
\* validated before the tracker sees it.
ResumeOffset(offset) == IF offset = 0 THEN None ELSE offset
Resumable(c, o) == o \in Existing /\ command[o] = c /\ records[o].state = "paused"
OpenPaused(k, c, o, offset, token) ==
  LET r == Resumed(records[o], ResumeOffset(offset), TRUE, token, 0)
  IN /\ Resumable(c, o)
     /\ op' = [op EXCEPT ![k] = o]
     /\ IF ResumePass(records[o], ResumeOffset(offset), TRUE, token)
        THEN Connect(k, o, r, 1)
        ELSE SetRecord(o, r) /\ End(k, "error")

OpenRefused(k, c, o) ==
  /\ ~ Resumable(c, o)
  /\ End(k, "error")
  /\ UNCHANGED <<records, op>>

\* validate_capabilities has already demanded a token of a cursor resume.
Open(k, c) ==
  \E o \in Operations \cup {None}, offset \in Offsets, token \in Tokens \cup {None} :
    /\ ValidOffset(CapsOf[c], offset) /\ ValidToken(CapsOf[c], token)
    /\ o # None => CapsOf[c].resume # "unsupported"
    /\ o # None /\ CapsOf[c].resume = "cursor" => token # None
    /\ \/ o = None /\ OpenNew(k, c, offset, token)
       \/ o # None /\ OpenPaused(k, c, o, offset, token)
       \/ o # None /\ OpenRefused(k, c, o)

-------------------------------------------------------------------------------
(* Requests (server.py, ScientificProviderCommand.execute) *)

\* A command without progress or resume is executed inside the request.
RequestDirect(k, c) ==
  /\ pc[k] = "none" /\ ~ Background[c]
  /\ command' = [command EXCEPT ![k] = c]
  /\ Open(k, c)
  /\ UNCHANGED <<cancelAsked, server, paused>>

\* Mutant: starts are not serialised.
RequestBackgroundUnlocked(k, c) ==
  /\ pc[k] = "none" /\ Background[c]
  /\ command' = [command EXCEPT ![k] = c]
  /\ before' = [before EXCEPT ![k] = Existing]
  /\ pc' = [pc EXCEPT ![k] = "created"]
  /\ UNCHANGED <<records, op, attempt, got, result, cancelAsked, startLock, answer,
                 paused>>

\* Under the start lock: the keys are noted, the task is created, and the request
\* yields with sleep(0).
RequestBackground(k, c) ==
  /\ pc[k] = "none" /\ Background[c]
  /\ startLock = None
  /\ startLock' = k
  /\ command' = [command EXCEPT ![k] = c]
  /\ before' = [before EXCEPT ![k] = Existing]
  /\ pc' = [pc EXCEPT ![k] = "created"]
  /\ UNCHANGED <<records, op, attempt, got, result, cancelAsked, answer, paused>>

\* The created task runs up to its first await.
TaskStart(k) ==
  /\ pc[k] = "created"
  /\ Open(k, command[k])
  /\ UNCHANGED <<command, cancelAsked, server, paused>>

\* The loop runs ready callbacks in order, so the request continues after its task's
\* first segment; other tasks may have run too.  Exactly one new key is the handle;
\* otherwise the task is cancelled.
Answer(k) ==
  LET created == Existing \ before[k]
  IN
  /\ pc[k] \notin {"none", "created"} /\ Background[command[k]]
  /\ answer[k] = None
  /\ startLock' = None
  /\ IF Cardinality(created) = 1
     THEN /\ answer' = [answer EXCEPT ![k] = CHOOSE o \in created : TRUE]
          /\ UNCHANGED cancelAsked
     ELSE /\ answer' = [answer EXCEPT ![k] = "error"]
          /\ cancelAsked' = IF pc[k] = "done" THEN cancelAsked ELSE cancelAsked \cup {k}
  /\ before' = [before EXCEPT ![k] = {}]
  /\ UNCHANGED <<records, tasks, paused>>

-------------------------------------------------------------------------------
(* Inside fetch_raw, and what execute makes of its outcome *)

Fetching(k) == pc[k] = "fetching" /\ k \notin cancelAsked

\* _fail_operation: the failure is recorded unless the operation has ended.
Failed(r) == Finished(r, "failed", 0)

\* report_progress with the task's attempt, after n bytes were read.  A refusal raises
\* a ProviderValidationError, which is not retryable, through fetch_raw: the
\* operation fails.
Report(k, n, u) ==
  LET v == [u EXCEPT !.attempt = attempt[k]]
      r == Updated(Record(k), v, 0)
  IN IF UpdatePass(Record(k), v)
     THEN /\ SetRecord(op[k], r)
          /\ got' = [got EXCEPT ![k] = @ + n]
          /\ UNCHANGED <<pc, attempt, result>>
     ELSE /\ SetRecord(op[k], Failed(r))
          /\ End(k, IF Terminal(r) THEN "error" ELSE "refused")

\* report_http_response, report_file_size: the source's size becomes known.
ReportSize(k) ==
  /\ Fetching(k)
  /\ got[k] = 0
  /\ Report(k, 0, [NoUpdate EXCEPT !.total = SourceSize, !.state = "running"])
  /\ UNCHANGED <<command, op, cancelAsked, server, paused>>

\* report_http_chunk, report_file_chunk: the counters are read and advanced by the
\* chunk without an await between.
ReportChunk(k) ==
  /\ Fetching(k)
  /\ got[k] < SourceSize
  /\ Report(k, 1, [NoUpdate EXCEPT !.bytes = Record(k).bytes + 1,
                                   !.offset = Record(k).offset + 1,
                                   !.state = "running"])
  /\ UNCHANGED <<command, op, cancelAsked, server, paused>>

\* The update _apply_raw_progress makes from a raw response: one that carries the
\* source whole with its size, or one that counts nothing because it was streamed.
RawUpdate(k, whole) ==
  [bytes |-> IF whole /\ SourceSize > Record(k).bytes THEN SourceSize
             ELSE Record(k).bytes,
   offset |-> Record(k).offset,
   total |-> IF whole THEN SourceSize ELSE None,
   token |-> None, attempt |-> attempt[k], state |-> "running"]

\* Mutant: a completion that is too late is swallowed like a late failure.
FetchReturnAnyway(k, whole, normal) ==
  /\ Fetching(k)
  /\ LET r == Updated(Record(k), RawUpdate(k, whole), 0)
     IN SetRecord(op[k], Finished(r, IF normal THEN "completed" ELSE "failed", 0))
  /\ End(k, IF normal THEN "dataset" ELSE "error")
  /\ UNCHANGED <<command, op, cancelAsked, server, paused>>

\* fetch_raw returned: progress is applied, the response normalised and validated,
\* and the operation completed, all without an await.
FetchReturn(k, whole, normal) ==
  LET u == RawUpdate(k, whole)
      r == Updated(Record(k), u, 0)
      passed == UpdatePass(Record(k), u)
  IN
  /\ Fetching(k)
  /\ \/ /\ passed /\ normal
        /\ SetRecord(op[k], Finished(r, "completed", 0))
        /\ End(k, "dataset")
     \/ /\ ~ (passed /\ normal)
        /\ SetRecord(op[k], Failed(r))
        /\ End(k, IF passed \/ Terminal(r) THEN "error" ELSE "refused")
  /\ UNCHANGED <<command, op, cancelAsked, server, paused>>

\* Mutant: one attempt too many.
AttemptsLeftOneMore(k) == attempt[k] <= MaxRetries + 1

AttemptsLeft(k) == attempt[k] <= MaxRetries

\* Mutant: the last attempt's retryable error is retried too, and the exhausted
\* loop raises without failing the operation.
FetchRaiseExhausting(k, retryable) ==
  /\ Fetching(k)
  /\ IF retryable
     THEN /\ UNCHANGED records
          /\ IF AttemptsLeft(k)
             THEN /\ pc' = [pc EXCEPT ![k] = "retrying"]
                  /\ UNCHANGED <<attempt, got, result>>
             ELSE End(k, "error")
     ELSE SetRecord(op[k], Failed(Record(k))) /\ End(k, "error")
  /\ UNCHANGED <<command, op, cancelAsked, server, paused>>

\* fetch_raw raised or timed out: a retryable error announces the next attempt
\* (again outside the try block) and sleeps; any other fails the operation.
FetchRaise(k, retryable) ==
  LET retry == retryable /\ AttemptsLeft(k)
      u == Connecting(attempt[k] + 1)
  IN
  /\ Fetching(k)
  /\ \/ /\ retry /\ UpdatePass(Record(k), u)
        /\ SetRecord(op[k], Updated(Record(k), u, 0))
        /\ pc' = [pc EXCEPT ![k] = "retrying"]
        /\ UNCHANGED <<attempt, got, result>>
     \/ /\ retry /\ ~ UpdatePass(Record(k), u)
        /\ End(k, "error")
        /\ UNCHANGED records
     \/ /\ ~ retry
        /\ SetRecord(op[k], Failed(Record(k)))
        /\ End(k, "error")
  /\ UNCHANGED <<command, op, cancelAsked, server, paused>>

\* The backoff is over and the loop takes its next attempt.
Retry(k) ==
  /\ pc[k] = "retrying" /\ k \notin cancelAsked
  /\ Connect(k, op[k], Record(k), attempt[k] + 1)
  /\ UNCHANGED <<command, op, cancelAsked, server, paused>>

\* CancelledError arrives at the task's await: inside the try block the operation
\* is cancelled, in the backoff sleep it is not.
CancelDelivered(k) ==
  /\ pc[k] \in {"fetching", "retrying"} /\ k \in cancelAsked
  /\ IF pc[k] = "fetching"
     THEN SetRecord(op[k], Finished(Record(k), "cancelled", 0))
     ELSE UNCHANGED records
  /\ End(k, "error")
  /\ UNCHANGED <<command, op, cancelAsked, server, paused>>

-------------------------------------------------------------------------------
(* The control command: pause, resume, cancel; no task hears of it *)

ControlPause(o) ==
  /\ o \in Existing
  /\ records[o].caps.resume # "unsupported"
  /\ ~ Terminal(records[o])
  /\ SetRecord(o, Paused(records[o], 0))
  /\ paused' = paused \cup {o}
  /\ UNCHANGED <<tasks, cancelAsked, server>>

\* _validate_resume_controls
ControlsAllowed(caps, offset, token) ==
  \/ caps.resume = "byte_range" /\ token = None
  \/ caps.resume = "cursor" /\ offset = None /\ token # None
  \/ caps.resume = "client_managed" /\ offset = None

ControlResume(o, offset, token) ==
  /\ o \in Existing
  /\ ControlsAllowed(records[o].caps, offset, token)
  /\ SetRecord(o, Resumed(records[o], offset, TRUE, token, 0))
  /\ UNCHANGED <<tasks, cancelAsked, server, paused>>

ControlCancel(o) ==
  /\ o \in Existing
  /\ MayFinish(records[o])
  /\ SetRecord(o, Finished(records[o], "cancelled", 0))
  /\ UNCHANGED <<tasks, cancelAsked, server, paused>>

-------------------------------------------------------------------------------
Init ==
  /\ records = [o \in Operations |-> NoRecord]
  /\ pc = [k \in Tasks |-> "none"]
  /\ command = [k \in Tasks |-> None]
  /\ op = [k \in Tasks |-> None]
  /\ attempt = [k \in Tasks |-> 0]
  /\ got = [k \in Tasks |-> 0]
  /\ result = [k \in Tasks |-> None]
  /\ cancelAsked = {}
  /\ startLock = None
  /\ before = [k \in Tasks |-> {}]
  /\ answer = [k \in Tasks |-> None]
  /\ paused = {}

FetchEnds(k) ==
  \/ \E whole, normal \in BOOLEAN : FetchReturn(k, whole, normal)
  \/ \E retryable \in BOOLEAN : FetchRaise(k, retryable)

Next ==
  \/ \E k \in Tasks :
       \/ \E c \in Asks[k] : RequestDirect(k, c) \/ RequestBackground(k, c)
       \/ TaskStart(k) \/ Answer(k)
       \/ ReportSize(k) \/ ReportChunk(k) \/ FetchEnds(k)
       \/ Retry(k) \/ CancelDelivered(k)
  \/ \E o \in Operations :
       \/ ControlPause(o)
       \/ \E offset \in Offsets \cup {None}, token \in Tokens \cup {None} :
            ControlResume(o, offset, token)
       \/ ControlCancel(o)

Spec == Init /\ [][Next]_vars

\* The event loop runs every ready callback, and asyncio.timeout ends every fetch
\* with a retryable error (provider_contract.py:990), unless it ended before.
Run(k) ==
  TaskStart(k) \/ Answer(k) \/ FetchRaise(k, TRUE) \/ Retry(k) \/ CancelDelivered(k)
Fairness == \A k \in Tasks : WF_vars(Run(k))

FairSpec == Spec /\ Fairness

-------------------------------------------------------------------------------
(* Properties *)

TypeOK ==
  /\ records \in [Operations ->
                    Records(Nat, Attempts, {0}) \cup {NoRecord}]
  /\ pc \in [Tasks -> TaskSteps]
  /\ command \in [Tasks -> Commands \cup {None}]
  /\ op \in [Tasks -> Operations \cup {None}]
  /\ attempt \in [Tasks -> 0 .. MaxRetries + 1]
  /\ got \in [Tasks -> Bytes]
  /\ result \in [Tasks -> {None, "dataset", "error", "refused"}]
  /\ cancelAsked \subseteq Tasks
  /\ startLock \in Tasks \cup {None}
  /\ before \in [Tasks -> SUBSET Operations]
  /\ answer \in [Tasks -> Operations \cup {None, "error"}]
  /\ paused \subseteq Operations

\* An operation yields at most one dataset, and only by completing: not after it was
\* cancelled or failed, and not twice although a paused operation's first task keeps
\* running beside the one that resumed it.
OneDataset ==
  /\ \A k \in Tasks : result[k] = "dataset" => Record(k).state = "completed"
  /\ \A j, k \in Tasks :
       result[j] = "dataset" /\ result[k] = "dataset" /\ op[j] = op[k] => j = k

\* An operation no caller has paused, and whose task nobody cancelled, has a task
\* that is still running it or has ended: it is never silently abandoned.
NeverAbandoned ==
  \A o \in Existing \ (paused \cup cancelAsked) :
    Terminal(records[o]) \/ \E k \in Tasks : op[k] = o /\ pc[k] \in Live

\* A background start never answers with the operation of another background
\* request, though the handle is found by comparing key sets across an await.
NoStolenHandle ==
  \A j, k \in Tasks : answer[k] = j /\ j # k => ~ Background[command[j]]

\* An operation nobody pauses reaches a terminal state.
OperationEnds ==
  \A o \in Operations :
    o \in Existing ~> o \in paused \cup cancelAsked \/ Terminal(records[o])

\* "Optional operation identifier to resume" (ProviderRequest.resume_operation_id,
\* provider_contract.py:202): a request that resumes an operation does not end it;
\* an operation becomes cancelled by the control command only.
CancelledOnlyOnRequest ==
  [][\A o \in Operations :
       records'[o].state = "cancelled" /\ records[o].state # "cancelled" =>
         ControlCancel(o)]_records
===============================================================================
