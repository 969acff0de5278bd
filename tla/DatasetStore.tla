------------------------------ MODULE DatasetStore ------------------------------
(***************************************************************************)
(* The scientific dataset store (services/scientific_dataset_store.py): a  *)
(* normalized dataset is serialized, uploaded block by block through the   *)
(* server's own streaming transfer, verified, published by os.replace, and *)
(* described by a provenance manifest, while a checkpoint sidecar and the  *)
(* progress tracker's record follow it.                                    *)
(*                                                                         *)
(* A worker is a thread that makes one call of store_sync; all run in one  *)
(* process and share its tracker and the disk.  A provider that times out  *)
(* leaves its thread storing, and its next attempt stores the same         *)
(* operation again beside it.  An action is the code between two durable   *)
(* writes.  No time passes: clocks are the subject of ProgressTracker.     *)
(***************************************************************************)
EXTENDS ProgressRecord, Sequences, FiniteSets

CONSTANTS
  Workers, Ops, Targets, Contents, Validators, Transfers,
  Identities,  \* the validators that hold a provider-specific identity
  Describable, \* the contents, with their validators, that a manifest accepts
  Size,        \* blocks of a serialized dataset
  FirstRecords,\* what the tracker may hold of an operation before it stores
  MaxAttempts, \* bound: attempts of one operation
  MaxMishaps   \* bound: I/O errors, crashes, timeouts and control calls

ASSUME StoreAssumption ==
  /\ Size \in Nat /\ MaxMishaps \in Nat /\ MaxAttempts \in Nat
  /\ None \notin Nat \cup Ops \cup Transfers \cup Contents \cup Validators \cup States

\* TransferState, as far as the upload goes by it.
TransferStates ==
  [content : Contents, target : Targets, overwrite : BOOLEAN, offset : Nat,
   status : {"created", "failed", "completed"}]

\* None is none of the things it stands in for: a record, a transfer's state, a file.
ASSUME RecordsAssumption ==
  /\ FirstRecords \subseteq Records(Nat, Nat, {0})
  /\ None \notin Records(Nat, Nat, {0}) \cup TransferStates
  /\ \A n \in 0..Size : None \notin [1..n -> Contents \X Nat]

VARIABLES
  target,      \* disk: the published dataset of each path
  manifest,    \* disk: the content the provenance manifest describes
  checkpoint,  \* disk: the checkpoint sidecar of each target
  saved,       \* disk: the JSON state of each transfer
  temp,        \* disk: the .part file of each transfer
  tracker,     \* memory: the record of each operation
  begun,       \* operation ids given out; a UUID is never given out again
  pc, job,     \* each worker: where it is, and the arguments of its call
  xfer, at,    \* each worker: its transfer, and the offset it goes on from
  view,        \* each worker: the transfer state it has loaded
  ckpt,        \* each worker: store_sync's variable checkpoint
  base,        \* each worker: base_bytes, base_offset and total_bytes
  resumed,     \* each worker: store_sync's variable resumed
  mishaps,
  disturbed,   \* history: the call met a fault, a control call, another store of its
               \* operation, a store of its target that overlaps or follows, or the
               \* checkpoint of a failed one
  origin,      \* history: the transfer that each published dataset came from
  overlapped   \* history: transfers that two calls used at once

disk == <<target, manifest, checkpoint, saved, temp>>
calls == <<job, xfer, at, view, ckpt, base, resumed>>
history == <<disturbed, origin, overlapped>>
vars == <<disk, tracker, begun, pc, calls, mishaps, history>>

Block(c, i) == <<c, i>>
Whole(c) == [i \in 1..Size |-> Block(c, i)]

Jobs == [op : Ops, attempt : 1 .. MaxAttempts, target : Targets, content : Contents,
         validator : Validators \cup {None}, resume : BOOLEAN, overwrite : BOOLEAN]

\* TransferCheckpoint, as it is first written: expected_size, expected_sha256, block
\* size and format are those of the content.
TransferCheckpoint(j, x) ==
  [op |-> j.op, xfer |-> x, content |-> j.content, validator |-> j.validator,
   offset |-> 0, status |-> "partial"]
NoBase == [bytes |-> 0, offset |-> 0, total |-> 0]

Active(w) == pc[w] \notin {"idle", "returned", "raised", "dead"}
Uploading(w) ==
  pc[w] \in {"mark", "chunk", "append", "save", "follow", "check", "replace"}

\* _checkpoint_mismatch, negated
Matches(c, j) == c.op = j.op /\ c.content = j.content /\ c.validator = j.validator

Init ==
  /\ target = [t \in Targets |-> None]
  /\ manifest = [t \in Targets |-> None]
  /\ checkpoint = [t \in Targets |-> None]
  /\ saved = [x \in Transfers |-> None]
  /\ temp = [x \in Transfers |-> None]
  /\ tracker = [o \in Ops |-> None]
  /\ begun = {}
  /\ pc = [w \in Workers |-> "idle"]
  /\ job = [w \in Workers |-> None]
  /\ xfer = [w \in Workers |-> None]
  /\ at = [w \in Workers |-> 0]
  /\ view = [w \in Workers |-> None]
  /\ ckpt = [w \in Workers |-> None]
  /\ base = [w \in Workers |-> NoBase]
  /\ mishaps = 0
  /\ resumed = [w \in Workers |-> FALSE]
  /\ disturbed = [w \in Workers |-> FALSE]
  /\ origin = [t \in Targets |-> None]
  /\ overlapped = {}

Goto(w, label) == pc' = [pc EXCEPT ![w] = label]

\* The tracker's update: the record changes as far as the checks let it, and the
\* worker goes on at label, or to the failure handler if the call raised.
Report(w, u, label) ==
  LET op == job[w].op IN
  /\ tracker' = [tracker EXCEPT ![op] = Updated(@, u, 0)]
  /\ Goto(w, IF UpdatePass(tracker[op], u) THEN label ELSE "handle")

StateOnly(state) == [NoUpdate EXCEPT !.state = state]

-------------------------------------------------------------------------------
(* store_sync up to the transfer *)

\* The refusals before the try block change nothing and are left out.  Nobody but its
\* fetch has touched an operation before its first store; later stores are those of
\* further attempts, or late ones of earlier attempts.  The attempt of the call goes
\* with the first update.
Start(w, j) ==
  /\ pc[w] = "idle"
  /\ j.op \in begun => tracker[j.op] # None
  /\ \E r \in IF j.op \in begun THEN {tracker[j.op]} ELSE FirstRecords :
       LET u == [StateOnly("running") EXCEPT !.attempt = j.attempt] IN
       /\ j.attempt <= r.attempt
       /\ j.resume => r.caps.resume # "unsupported" /\ j.validator # None
       /\ tracker' = [tracker EXCEPT ![j.op] = Updated(r, u, 0)]
       /\ Goto(w, IF UpdatePass(r, u) THEN "measure" ELSE "handle")
  /\ begun' = begun \cup {j.op}
  /\ job' = [job EXCEPT ![w] = j]
  /\ LET others == {v \in Workers : pc[v] # "idle" /\ job[v].target = j.target}
         beside == {v \in Workers : Active(v) /\ (v \in others \/ job[v].op = j.op)} IN
     disturbed' = [v \in Workers |->
       IF v = w THEN checkpoint[j.target] # None \/ beside # {}
       ELSE disturbed[v] \/ v \in others \cup beside]
  /\ UNCHANGED <<disk, xfer, at, view, ckpt, base, resumed, mishaps, origin, overlapped>>

\* Mutant: the bytes the fetch has received are left out of the total.
TotalOfStore(r) == IF Given(r.total) /\ r.total > Size THEN r.total ELSE Size

Total(r) ==
  IF Given(r.total) /\ r.total > r.bytes + Size THEN r.total ELSE r.bytes + Size

\* The serialized size is known: base counters and total_bytes.
Measure(w) ==
  /\ pc[w] = "measure"
  /\ LET r == tracker[job[w].op] IN
     /\ base' = [base EXCEPT ![w] = [bytes |-> r.bytes, offset |-> r.offset,
                                     total |-> Total(r)]]
     /\ Report(w, [StateOnly("running") EXCEPT !.total = Total(r)], "prepare")
  /\ UNCHANGED <<disk, begun, job, xfer, at, view, ckpt, resumed, mishaps, history>>

FindsCheckpoint(w) == job[w].resume /\ checkpoint[job[w].target] # None

\* A checkpoint of this operation and content: the transfer says how far it is.  If
\* the tracker refuses the call, store_sync never learns of the checkpoint.
ResumeTransfer(w) ==
  /\ pc[w] = "prepare" /\ FindsCheckpoint(w)
  /\ LET t == job[w].target
         c == checkpoint[t] IN
     /\ Matches(c, job[w])
     /\ IF saved[c.xfer] = None
        THEN /\ Goto(w, "handle")
             /\ UNCHANGED <<checkpoint, tracker, ckpt, xfer, at, resumed, overlapped>>
        ELSE LET again == [c EXCEPT !.offset = saved[c.xfer].offset,
                                    !.status = "partial"] IN
             /\ checkpoint' = [checkpoint EXCEPT ![t] = again]
             /\ Report(w, StateOnly("resuming"), "chunk")
             /\ IF UpdatePass(tracker[job[w].op], StateOnly("resuming"))
                THEN /\ ckpt' = [ckpt EXCEPT ![w] = again]
                     /\ xfer' = [xfer EXCEPT ![w] = c.xfer]
                     /\ at' = [at EXCEPT ![w] = again.offset]
                     /\ resumed' = [resumed EXCEPT ![w] = TRUE]
                     /\ overlapped' = overlapped \cup
                          {x \in {c.xfer} : \E v \in Workers : Uploading(v) /\ xfer[v] = x}
                ELSE UNCHANGED <<ckpt, xfer, at, resumed, overlapped>>
  /\ UNCHANGED <<target, manifest, saved, temp, begun, job, view, base, mishaps, disturbed,
                 origin>>

\* _discard_transfer
Discard(x) ==
  /\ saved' = [saved EXCEPT ![x] = None]
  /\ temp' = [temp EXCEPT ![x] = IF saved[x] = None THEN @ ELSE None]

\* Any other checkpoint is discarded with its transfer, whoever is using it.
DiscardStale(w) ==
  /\ pc[w] = "prepare" /\ FindsCheckpoint(w)
  /\ LET t == job[w].target IN
     /\ ~ Matches(checkpoint[t], job[w])
     /\ Discard(checkpoint[t].xfer)
     /\ checkpoint' = [checkpoint EXCEPT ![t] = None]
  /\ Report(w, StateOnly("running"), "begin")
  /\ UNCHANGED <<target, manifest, begun, calls, mishaps, history>>

\* upload_begin
BeginTransfer(w) ==
  /\ pc[w] = "begin" \/ (pc[w] = "prepare" /\ ~ FindsCheckpoint(w))
  /\ LET j == job[w] IN
     IF target[j.target] # None /\ ~ j.overwrite
     THEN Goto(w, "handle") /\ UNCHANGED <<saved, temp, xfer>>
     ELSE \E x \in Transfers :
            /\ saved[x] = None /\ temp[x] = None
            /\ \A v \in Workers : xfer[v] # x
            /\ \A t \in Targets : checkpoint[t] # None => checkpoint[t].xfer # x
            /\ saved' = [saved EXCEPT ![x] =
                 [content |-> j.content, target |-> j.target,
                  overwrite |-> j.overwrite, offset |-> 0, status |-> "created"]]
            /\ temp' = [temp EXCEPT ![x] = <<>>]
            /\ xfer' = [xfer EXCEPT ![w] = x]
            /\ Goto(w, "mark")
  /\ UNCHANGED <<target, manifest, checkpoint, tracker, begun, job, at, view, ckpt,
                 base, resumed, mishaps, history>>

\* The checkpoint of the new transfer replaces whatever is there.
MarkTransfer(w) ==
  /\ pc[w] = "mark"
  /\ LET c == TransferCheckpoint(job[w], xfer[w]) IN
     /\ checkpoint' = [checkpoint EXCEPT ![job[w].target] = c]
     /\ ckpt' = [ckpt EXCEPT ![w] = c]
  /\ Goto(w, "chunk")
  /\ UNCHANGED <<target, manifest, saved, temp, tracker, begun, job, xfer, at, view,
                 base, resumed, mishaps, history>>

-------------------------------------------------------------------------------
(* _upload_serialized and upload_complete *)

\* upload_chunk loads the state and checks it.
LoadChunk(w) ==
  /\ pc[w] = "chunk" /\ at[w] < Size
  /\ LET s == saved[xfer[w]] IN
     IF s # None /\ s.status = "created" /\ s.offset = at[w]
     THEN view' = [view EXCEPT ![w] = s] /\ Goto(w, "append")
     ELSE UNCHANGED view /\ Goto(w, "handle")
  /\ UNCHANGED <<disk, tracker, begun, job, xfer, at, ckpt, base, resumed, mishaps,
                 history>>

\* It appends the block, creating the file if it is gone.
AppendChunk(w) ==
  /\ pc[w] = "append"
  /\ temp' = [temp EXCEPT ![xfer[w]] =
                Append(IF @ = None THEN <<>> ELSE @, Block(job[w].content, at[w] + 1))]
  /\ Goto(w, "save")
  /\ UNCHANGED <<target, manifest, checkpoint, saved, tracker, begun, calls, mishaps,
                 history>>

\* It saves the state it has loaded, with the new offset.
SaveChunk(w) ==
  /\ pc[w] = "save"
  /\ saved' = [saved EXCEPT ![xfer[w]] = [view[w] EXCEPT !.offset = at[w] + 1]]
  /\ at' = [at EXCEPT ![w] = @ + 1]
  /\ Goto(w, "follow")
  /\ UNCHANGED <<target, manifest, checkpoint, temp, tracker, begun, job, xfer, view,
                 ckpt, base, resumed, mishaps, history>>

\* The checkpoint and the progress follow.
FollowChunk(w) ==
  /\ pc[w] = "follow"
  /\ checkpoint' = [checkpoint EXCEPT ![job[w].target] = [ckpt[w] EXCEPT !.offset = at[w]]]
  /\ Report(w, [StateOnly("running") EXCEPT !.bytes = base[w].bytes + at[w],
                                            !.offset = base[w].offset + at[w],
                                            !.total = base[w].total], "chunk")
  /\ UNCHANGED <<target, manifest, saved, temp, begun, calls, mishaps, history>>

\* Mutant: the digest of the temporary file is not compared.
VerifiedAnyway(w) == temp[xfer[w]] # None

Verified(w) == temp[xfer[w]] = Whole(saved[xfer[w]].content)

\* upload_complete up to the digest.
Verify(w) ==
  /\ pc[w] = "chunk" /\ at[w] = Size
  /\ LET x == xfer[w]
         s == saved[x] IN
     IF s # None /\ s.status = "completed"
     THEN Goto(w, "manifest") /\ UNCHANGED <<saved, temp, view>>
     ELSE IF s = None \/ s.offset # Size \/ temp[x] = None
     THEN Goto(w, "handle") /\ UNCHANGED <<saved, temp, view>>
     ELSE IF Verified(w)
     THEN /\ view' = [view EXCEPT ![w] = s]
          /\ Goto(w, "check")
          /\ UNCHANGED <<saved, temp>>
     ELSE /\ saved' = [saved EXCEPT ![x].status = "failed"]
          /\ temp' = [temp EXCEPT ![x] = None]
          /\ Goto(w, "handle")
          /\ UNCHANGED view
  /\ UNCHANGED <<target, manifest, checkpoint, tracker, begun, job, xfer, at, ckpt,
                 base, resumed, mishaps, history>>

CheckTarget(w) ==
  /\ pc[w] = "check"
  /\ Goto(w, IF target[view[w].target] # None /\ ~ view[w].overwrite
             THEN "handle" ELSE "replace")
  /\ UNCHANGED <<disk, tracker, begun, calls, mishaps, history>>

Replace(w) ==
  /\ pc[w] = "replace"
  /\ LET x == xfer[w] IN
     IF temp[x] = None
     THEN Goto(w, "handle") /\ UNCHANGED <<target, temp, origin>>
     ELSE /\ target' = [target EXCEPT ![view[w].target] = temp[x]]
          /\ origin' = [origin EXCEPT ![view[w].target] = x]
          /\ temp' = [temp EXCEPT ![x] = None]
          /\ Goto(w, "complete")
  /\ UNCHANGED <<manifest, checkpoint, saved, tracker, begun, calls, mishaps, disturbed,
                 overlapped>>

SaveCompleted(w) ==
  /\ pc[w] = "complete"
  /\ saved' = [saved EXCEPT ![xfer[w]] = [view[w] EXCEPT !.status = "completed"]]
  /\ Goto(w, "manifest")
  /\ UNCHANGED <<target, manifest, checkpoint, temp, tracker, begun, calls, mishaps,
                 history>>

-------------------------------------------------------------------------------
(* After the publication *)

\* The record of the transfer, in the provenance of a resumed store, has the validator's
\* identity as actual_cursor, which only a command with cursor resume may have.  Its
\* other checks hold of whatever a store gives it.
CursorAllowed(w) ==
  resumed[w] /\ job[w].validator \in Identities => tracker[job[w].op].caps.resume = "cursor"

\* _completed_manifest: the manifest also holds the metadata of the dataset and of its
\* source, which it may refuse.
Described(w) ==
  <<job[w].content, job[w].validator>> \in Describable /\ CursorAllowed(w)

\* A store whose manifest is refused fails after its dataset is published.
WriteManifest(w) ==
  /\ pc[w] = "manifest"
  /\ IF Described(w)
     THEN manifest' = [manifest EXCEPT ![job[w].target] = job[w].content] /\ Goto(w, "unlink")
     ELSE UNCHANGED manifest /\ Goto(w, "handle")
  /\ UNCHANGED <<target, checkpoint, saved, temp, tracker, begun, calls, mishaps, history>>

\* Mutant: a checkpoint is unlinked only when it was resumed.
UnlinkResumed(w) == [checkpoint EXCEPT ![job[w].target] = IF job[w].resume THEN None ELSE @]

Unlinked(w) == [checkpoint EXCEPT ![job[w].target] = None]

UnlinkCheckpoint(w) ==
  /\ pc[w] = "unlink"
  /\ checkpoint' = Unlinked(w)
  /\ Goto(w, "finish")
  /\ UNCHANGED <<target, manifest, saved, temp, tracker, begun, calls, mishaps, history>>

Finish(w) ==
  /\ pc[w] = "finish"
  /\ LET op == job[w].op IN
     /\ tracker' = [tracker EXCEPT ![op] = Finished(@, "completed", 0)]
     /\ Goto(w, IF MayFinish(tracker[op]) THEN "returned" ELSE "handle")
  /\ UNCHANGED <<disk, begun, calls, mishaps, history>>

\* _handle_failure: what fail raises is swallowed.  The checkpoint it preserves is
\* the one of _prepare_transfer: blocks uploaded since are not counted in it.
HandleFailure(w) ==
  /\ pc[w] = "handle"
  /\ LET j == job[w]
         resumable == /\ ckpt[w] # None
                      /\ tracker[j.op].caps.resume # "unsupported"
                      /\ j.validator # None IN
     /\ \/ /\ ckpt[w] = None
           /\ UNCHANGED <<checkpoint, saved, temp>>
        \/ /\ resumable
           /\ checkpoint' = [checkpoint EXCEPT ![j.target] =
                               [ckpt[w] EXCEPT !.status = "failed"]]
           /\ UNCHANGED <<saved, temp>>
        \/ /\ ckpt[w] # None /\ ~ resumable
           /\ Discard(ckpt[w].xfer)
           /\ checkpoint' = [checkpoint EXCEPT ![j.target] = None]
     /\ tracker' = [tracker EXCEPT ![j.op] = Finished(@, "failed", 0)]
  /\ Goto(w, "raised")
  /\ UNCHANGED <<target, manifest, begun, calls, mishaps, history>>

\* An I/O error raises in the call, or out of its failure handler, which then does
\* not reach the tracker.
Fault(w) ==
  /\ Active(w) /\ mishaps < MaxMishaps
  /\ pc[w] = "handle" => ckpt[w] # None
  /\ Goto(w, IF pc[w] = "handle" THEN "raised" ELSE "handle")
  /\ mishaps' = mishaps + 1
  /\ disturbed' = [disturbed EXCEPT ![w] = TRUE]
  /\ UNCHANGED <<disk, tracker, begun, calls, origin, overlapped>>

-------------------------------------------------------------------------------
(* What goes on around the store *)

\* A control call on an operation that is being stored, or its provider giving up.
Cancel(op) ==
  /\ mishaps < MaxMishaps
  /\ tracker[op] # None /\ MayFinish(tracker[op])
  /\ tracker' = [tracker EXCEPT ![op] = Finished(@, "cancelled", 0)]
  /\ disturbed' = [w \in Workers |-> disturbed[w] \/ (Active(w) /\ job[w].op = op)]
  /\ mishaps' = mishaps + 1
  /\ UNCHANGED <<disk, begun, pc, calls, origin, overlapped>>

\* The provider's attempt times out, which does not stop the thread that stores for
\* it, and the next attempt connects.
Retry(op) ==
  /\ mishaps < MaxMishaps
  /\ tracker[op] # None /\ MayFinish(tracker[op]) /\ tracker[op].attempt < MaxAttempts
  /\ tracker' = [tracker EXCEPT ![op] =
       Updated(@, [StateOnly("connecting") EXCEPT !.attempt = tracker[op].attempt + 1], 0)]
  /\ mishaps' = mishaps + 1
  /\ UNCHANGED <<disk, begun, pc, calls, history>>

\* The process dies: the disk stays, and no operation of it is known again.
Crash ==
  /\ mishaps < MaxMishaps
  /\ \E w \in Workers : Active(w)
  /\ tracker' = [o \in Ops |-> None]
  /\ pc' = [w \in Workers |-> IF Active(w) THEN "dead" ELSE pc[w]]
  /\ mishaps' = mishaps + 1
  /\ UNCHANGED <<disk, begun, calls, history>>

Step(w) ==
  \/ Measure(w) \/ ResumeTransfer(w) \/ DiscardStale(w) \/ BeginTransfer(w)
  \/ MarkTransfer(w) \/ LoadChunk(w) \/ AppendChunk(w) \/ SaveChunk(w) \/ FollowChunk(w)
  \/ Verify(w) \/ CheckTarget(w) \/ Replace(w) \/ SaveCompleted(w) \/ WriteManifest(w)
  \/ UnlinkCheckpoint(w) \/ Finish(w) \/ HandleFailure(w)

Next ==
  \/ \E w \in Workers : Step(w) \/ Fault(w) \/ \E j \in Jobs : Start(w, j)
  \/ \E op \in Ops : Cancel(op) \/ Retry(op)
  \/ Crash

Spec == Init /\ [][Next]_vars
-------------------------------------------------------------------------------
\* "Atomic persistence adapter for normalized scientific datasets" (line 1): a path
\* never holds anything but a whole dataset, whatever faults, stale checkpoints and
\* discarded transfers came before; temporary files are unlinked by other stores and
\* created again by the append while their upload is still going on.  Only a transfer
\* that the retry of a timed-out attempt resumes while the first thread still uploads
\* to it can break that.
PublishedWhole ==
  \A t \in Targets :
    target[t] # None /\ origin[t] \notin overlapped => \E c \in Contents : target[t] = Whole(c)

\* A call that returned, and was alone with its target and operation, left on disk
\* what its result says: the dataset and the manifest of its content, no checkpoint.
ReturnedIsStored ==
  \A w \in Workers :
    pc[w] = "returned" /\ ~ disturbed[w] =>
      /\ target[job[w].target] = Whole(job[w].content)
      /\ manifest[job[w].target] = job[w].content
      /\ checkpoint[job[w].target] = None

\* An undisturbed call raises only for these causes: an operation that is terminal,
\* or beyond its total already when the store begins, or in a later attempt than the
\* call then; an existing target; a command without offsets (whose tracker refuses
\* the offset every block reports); a fetch whose offset is ahead of its bytes
\* (total_bytes counts from the bytes, current_offset from the offset); and, after the
\* publication, a manifest that is refused.
RaisedForCause ==
  \A w \in Workers :
    pc[w] = "handle" /\ ~ disturbed[w] =>
      \/ Terminal(tracker[job[w].op])
      \/ base[w] = NoBase /\ ~ WithinTotal(tracker[job[w].op])
      \/ base[w] = NoBase /\ job[w].attempt < tracker[job[w].op].attempt
      \/ target[job[w].target] # None /\ ~ job[w].overwrite
      \/ ~ tracker[job[w].op].caps.offsets
      \/ base[w].offset > base[w].bytes
      \/ target[job[w].target] = Whole(job[w].content) /\ ~ Described(w)
===============================================================================
