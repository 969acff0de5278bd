------------------------------- MODULE McpUpload -------------------------------
(***************************************************************************)
(* Streaming upload (services/mcp_transfer.py) and the client that drives  *)
(* it (client.py, upload_file).  A transfer is a JSON state and a .part    *)
(* file; chunks are appended at the saved offset, and completion verifies  *)
(* the whole file and moves it to its target.  The service holds no lock:  *)
(* a call is a thread ("worker") that loads the state, acts on the file,   *)
(* and saves the state it loaded, changed.  The client repeats a call that *)
(* times out, and its user runs it again to resume an interrupted upload.  *)
(* Positions count chunks: chunk k of a file is the number k.              *)
(***************************************************************************)
EXTENDS Naturals, Sequences

CONSTANTS
  Clients, Targets, TargetOf, Overwrite,  \* each client uploads one file
  Size,         \* chunks of a file
  Workers,      \* threads of the server, one for each call that runs at a time
  MaxBegins,    \* bound on the transfers a client begins
  MaxTimeouts,  \* bound on calls given up while they may still be running
  MaxBreaks,    \* bound on calls that end half-way (I/O error, process death)
  None, Foreign

Transfers == Clients \X (1 .. MaxBegins)
Owner(x) == x[1]
Target(x) == TargetOf[Owner(x)]
Chunks == 0 .. Size - 1
Offsets == 0 .. Size

ASSUME UploadOK ==
  /\ TargetOf \in [Clients -> Targets]
  /\ Overwrite \in [Clients -> BOOLEAN]
  /\ Size \in Nat /\ MaxBegins \in Nat /\ MaxTimeouts \in Nat /\ MaxBreaks \in Nat
  /\ None \notin Transfers \cup Seq(Chunks) /\ Foreign \notin Transfers

VARIABLES
  (* the server's disk *)
  saved,    \* state files: status and offset; "none" before the transfer exists
  temp,     \* .part files, None when there is none
  target,   \* files at the target paths
  (* calls in flight *)
  requests, pc, call, view,  \* view: the state a worker's call has loaded
  (* the client: its point in upload_file, offset, and sidecar file *)
  phase, position, sidecar, waiting,
  (* bookkeeping of the model *)
  published, timeouts, breaks,
  discarded,   \* transfers whose .part file was removed after a mismatch
  overlapped,  \* transfers with a chunk call beside another call
  torn         \* transfers with a call that ended between two of its writes

disk == <<saved, temp, target, published, discarded>>
worker == <<pc, call, view>>
client == <<phase, position, sidecar, waiting>>
history == <<overlapped, torn>>
vars == <<disk, requests, worker, client, timeouts, breaks, history>>

NoFile == [of |-> None, body |-> <<>>]
ForeignFile == [of |-> Foreign, body |-> <<>>]
Whole == [k \in 1 .. Size |-> k - 1]
NoState == [status |-> "none", offset |-> 0]
Created == [status |-> "created", offset |-> 0]
Calls == {"begin", "status", "chunk", "complete"}
Requests == [from : Clients, kind : Calls, transfer : Transfers \cup {None},
             offset : Offsets, awaited : BOOLEAN]

-------------------------------------------------------------------------------
(* The client *)

\* upload_file with a sidecar of the same file asks for the saved offset, without
\* one it begins a transfer.
Start(c) ==
  /\ phase[c] = "idle"
  /\ phase' = [phase EXCEPT ![c] = IF sidecar[c] = None THEN "begin" ELSE "status"]
  /\ position' = [position EXCEPT ![c] = 0]
  /\ UNCHANGED <<disk, requests, worker, sidecar, waiting, timeouts, breaks, history>>

Send(c) ==
  /\ phase[c] \in Calls /\ ~ waiting[c]
  /\ requests' = requests \cup
       {[from |-> c, kind |-> phase[c], transfer |-> sidecar[c],
         offset |-> position[c], awaited |-> TRUE]}
  /\ waiting' = [waiting EXCEPT ![c] = TRUE]
  /\ UNCHANGED <<disk, worker, phase, position, sidecar, timeouts, breaks, history>>

Abandoned(r, c) == IF r.from = c THEN [r EXCEPT !.awaited = FALSE] ELSE r

\* The client stops waiting; its request or call goes on.  It repeats the call
\* unless its retries are used up or it dies, which ends upload_file.
TimeOut(c) ==
  /\ waiting[c]
  /\ timeouts < MaxTimeouts
  /\ timeouts' = timeouts + 1
  /\ waiting' = [waiting EXCEPT ![c] = FALSE]
  /\ \/ UNCHANGED phase
     \/ phase' = [phase EXCEPT ![c] = "idle"]
  /\ requests' = {Abandoned(r, c) : r \in requests}
  /\ call' = [w \in Workers |-> IF pc[w] = "idle" THEN call[w] ELSE Abandoned(call[w], c)]
  /\ UNCHANGED <<disk, pc, view, position, sidecar, breaks, history>>

\* What an awaited answer makes the client do; nobody hears any other.
Raised(c) ==
  /\ phase' = [phase EXCEPT ![c] = "idle"]
  /\ waiting' = [waiting EXCEPT ![c] = FALSE]
  /\ UNCHANGED <<position, sidecar>>
Refuse(r) == IF r.awaited THEN Raised(r.from) ELSE UNCHANGED client

\* An offset lets it go on with the chunk there, or complete.
Proceed(r, x, offset) ==
  IF r.awaited
  THEN /\ phase' = [phase EXCEPT ![r.from] = IF offset < Size THEN "chunk" ELSE "complete"]
       /\ position' = [position EXCEPT ![r.from] = offset]
       /\ sidecar' = [sidecar EXCEPT ![r.from] = x]
       /\ waiting' = [waiting EXCEPT ![r.from] = FALSE]
  ELSE UNCHANGED client

\* The record of the completed file must have the local file's size and digest.
Finish(r, file) ==
  IF ~ r.awaited THEN UNCHANGED client
  ELSE IF file.body # Whole THEN Raised(r.from)
  ELSE /\ phase' = [phase EXCEPT ![r.from] = "done"]
       /\ sidecar' = [sidecar EXCEPT ![r.from] = None]
       /\ waiting' = [waiting EXCEPT ![r.from] = FALSE]
       /\ UNCHANGED position

-------------------------------------------------------------------------------
(* The service *)

\* Mutant: the flag is ignored.
TargetFreeIgnoringFlag(c) == TRUE

TargetFree(c) == Overwrite[c] \/ target[TargetOf[c]] = NoFile

\* A worker takes a request of a kind ...
Take(w, r, kind) ==
  /\ pc[w] = "idle"
  /\ r \in requests /\ r.kind = kind
  /\ requests' = requests \ {r}

\* A chunk call of a transfer beside another call of it.
Beside(x, kind) ==
  \E v \in Workers :
    pc[v] # "idle" /\ call[v].transfer = x /\ "chunk" \in {kind, call[v].kind}

\* ... and stays with it ...
Hold(w, r, step) ==
  /\ pc' = [pc EXCEPT ![w] = step]
  /\ call' = [call EXCEPT ![w] = r]
  /\ view' = [view EXCEPT ![w] = saved[r.transfer]]
  /\ overlapped' = overlapped \cup {x \in {r.transfer} : Beside(x, r.kind)}
  /\ UNCHANGED <<client, torn>>

\* ... until its call ends.
Goto(w, step) == pc' = [pc EXCEPT ![w] = step] /\ UNCHANGED <<call, view>>
Release(w) ==
  /\ pc' = [pc EXCEPT ![w] = "idle"]
  /\ call' = [call EXCEPT ![w] = None]
  /\ view' = [view EXCEPT ![w] = NoState]

Begun(c) == {x \in Transfers : Owner(x) = c /\ saved[x].status # "none"}

\* upload_begin: a new transfer with an empty file, unless the target is taken.  The
\* file is nobody's until the state is saved, so the two writes are one step.
UploadBegin(w, r) ==
  /\ Take(w, r, "begin")
  /\ \/ /\ TargetFree(r.from)
        /\ \E x \in Transfers \ Begun(r.from) :
             /\ Owner(x) = r.from
             /\ \A y \in Transfers \ Begun(r.from) : Owner(y) = r.from => x[2] <= y[2]
             /\ saved' = [saved EXCEPT ![x] = Created]
             /\ temp' = [temp EXCEPT ![x] = <<>>]
             /\ Proceed(r, x, 0)
     \/ /\ ~ TargetFree(r.from)
        /\ Refuse(r)
        /\ UNCHANGED <<saved, temp>>
  /\ UNCHANGED <<worker, target, published, discarded, timeouts, breaks, history>>

\* Mutant: the offset after the next chunk.
UploadStatusAhead(w, r) ==
  /\ Take(w, r, "status")
  /\ Proceed(r, r.transfer, saved[r.transfer].offset + 1)
  /\ UNCHANGED <<disk, worker, timeouts, breaks, history>>

UploadStatus(w, r) ==
  /\ Take(w, r, "status")
  /\ Proceed(r, r.transfer, saved[r.transfer].offset)
  /\ UNCHANGED <<disk, worker, timeouts, breaks, history>>

\* Mutant: a chunk is taken wherever the client is.
ChunkFitsAnywhere(r) ==
  saved[r.transfer].status \notin {"completed", "failed"} /\ saved[r.transfer].offset < Size

\* upload_chunk's checks on the loaded state.
ChunkFits(r) ==
  /\ saved[r.transfer].status \notin {"completed", "failed"}
  /\ r.offset = saved[r.transfer].offset
  /\ saved[r.transfer].offset < Size

UploadChunk(w, r) ==
  /\ Take(w, r, "chunk")
  /\ \/ ChunkFits(r) /\ Hold(w, r, "append")
     \/ ~ ChunkFits(r) /\ Refuse(r) /\ UNCHANGED <<worker, history>>
  /\ UNCHANGED <<disk, timeouts, breaks>>

\* Mutant: open("wb").
ChunkAppendAfresh(w) ==
  /\ pc[w] = "append"
  /\ temp' = [temp EXCEPT ![call[w].transfer] = <<call[w].offset>>]
  /\ Goto(w, "save_offset")
  /\ UNCHANGED <<saved, target, published, discarded, requests, client, timeouts, breaks, history>>

\* open("ab") makes the file if it is gone.
ChunkAppend(w) ==
  LET x == call[w].transfer
  IN
  /\ pc[w] = "append"
  /\ temp' = [temp EXCEPT ![x] = Append(IF @ = None THEN <<>> ELSE @, call[w].offset)]
  /\ Goto(w, "save_offset")
  /\ UNCHANGED <<saved, target, published, discarded, requests, client, timeouts, breaks, history>>

ChunkSave(w) ==
  LET next == view[w].offset + 1
  IN
  /\ pc[w] = "save_offset"
  /\ saved' = [saved EXCEPT ![call[w].transfer] =
                 [status |-> IF next < Size THEN "uploading" ELSE "uploaded",
                  offset |-> next]]
  /\ Proceed(call[w], call[w].transfer, next)
  /\ Release(w)
  /\ UNCHANGED <<temp, target, published, discarded, requests, timeouts, breaks, history>>

\* Mutant: a completed transfer cannot be completed again.
UploadCompleteOnce(w, r) ==
  LET s == saved[r.transfer]
  IN
  /\ Take(w, r, "complete")
  /\ \/ s.status # "completed" /\ s.offset = Size /\ Hold(w, r, "verify")
     \/ (s.status = "completed" \/ s.offset # Size) /\ Refuse(r) /\ UNCHANGED <<worker, history>>
  /\ UNCHANGED <<disk, timeouts, breaks>>

\* upload_complete: a completed transfer answers with the file that is now at the
\* target; an incomplete one is refused; a failed one is not.
UploadComplete(w, r) ==
  LET s == saved[r.transfer]
  IN
  /\ Take(w, r, "complete")
  /\ \/ s.status = "completed" /\ Finish(r, target[Target(r.transfer)]) /\ UNCHANGED <<worker, history>>
     \/ s.status # "completed" /\ s.offset # Size /\ Refuse(r) /\ UNCHANGED <<worker, history>>
     \/ s.status # "completed" /\ s.offset = Size /\ Hold(w, r, "verify")
  /\ UNCHANGED <<disk, timeouts, breaks>>

\* Mutant: only the length is compared.
VerifiedSize(x) == temp[x] # None

\* The digest of the .part file is the declared one.
Verified(x) == temp[x] = Whole

CompleteVerify(w) ==
  /\ pc[w] = "verify" /\ temp[call[w].transfer] # None
  /\ Goto(w, IF Verified(call[w].transfer) THEN "target_check" ELSE "save_failed")
  /\ UNCHANGED <<disk, requests, client, timeouts, breaks, history>>

\* Mutant: the transfer is completed before the replacement.
CompleteCheckSaving(w) ==
  /\ pc[w] = "target_check"
  /\ TargetFree(Owner(call[w].transfer))
  /\ saved' = [saved EXCEPT ![call[w].transfer].status = "completed"]
  /\ Goto(w, "replace")
  /\ UNCHANGED <<temp, target, published, discarded, requests, client, timeouts, breaks, history>>

CompleteCheck(w) ==
  /\ pc[w] = "target_check"
  /\ TargetFree(Owner(call[w].transfer))
  /\ Goto(w, "replace")
  /\ UNCHANGED <<disk, requests, client, timeouts, breaks, history>>

CompleteReplace(w) ==
  LET x == call[w].transfer
  IN
  /\ pc[w] = "replace" /\ temp[x] # None
  /\ target' = [target EXCEPT ![Target(x)] = [of |-> x, body |-> temp[x]]]
  /\ temp' = [temp EXCEPT ![x] = None]
  /\ published' = published \cup {x}
  /\ Goto(w, "save_completed")
  /\ UNCHANGED <<saved, discarded, requests, client, timeouts, breaks, history>>

CompleteSave(w) ==
  LET x == call[w].transfer
  IN
  /\ pc[w] = "save_completed"
  /\ saved' = [saved EXCEPT ![x] = [view[w] EXCEPT !.status = "completed"]]
  /\ Finish(call[w], target[Target(x)])
  /\ Release(w)
  /\ UNCHANGED <<temp, target, published, discarded, requests, timeouts, breaks, history>>

\* A mismatch fails the transfer, ...
FailSave(w) ==
  /\ pc[w] = "save_failed"
  /\ saved' = [saved EXCEPT ![call[w].transfer] = [view[w] EXCEPT !.status = "failed"]]
  /\ Goto(w, "unlink_failed")
  /\ UNCHANGED <<temp, target, published, discarded, requests, client, timeouts, breaks, history>>

\* ... removes its file, and raises.
FailUnlink(w) ==
  /\ pc[w] = "unlink_failed"
  /\ temp' = [temp EXCEPT ![call[w].transfer] = None]
  /\ discarded' = discarded \cup {call[w].transfer}
  /\ Refuse(call[w])
  /\ Release(w)
  /\ UNCHANGED <<saved, target, published, requests, timeouts, breaks, history>>

\* What raises without a trace: the .part file is gone, or the target is taken.
CompleteRaise(w) ==
  /\ \/ pc[w] \in {"verify", "replace"} /\ temp[call[w].transfer] = None
     \/ pc[w] = "target_check" /\ ~ TargetFree(Owner(call[w].transfer))
  /\ Refuse(call[w])
  /\ Release(w)
  /\ UNCHANGED <<disk, requests, timeouts, breaks, history>>

\* A call ends between two durable writes: an I/O error, or the process dies.
Break(w) ==
  /\ pc[w] # "idle"
  /\ breaks < MaxBreaks
  /\ breaks' = breaks + 1
  /\ torn' = torn \cup
       {x \in {call[w].transfer} : pc[w] \in {"save_offset", "save_completed"}}
  /\ Refuse(call[w])
  /\ Release(w)
  /\ UNCHANGED <<disk, requests, timeouts, overlapped>>

-------------------------------------------------------------------------------
Init ==
  /\ saved = [x \in Transfers |-> NoState]
  /\ temp = [x \in Transfers |-> None]
  /\ target \in [Targets -> {NoFile, ForeignFile}]
  /\ published = {}
  /\ requests = {}
  /\ pc = [w \in Workers |-> "idle"]
  /\ call = [w \in Workers |-> None]
  /\ view = [w \in Workers |-> NoState]
  /\ phase = [c \in Clients |-> "idle"]
  /\ position = [c \in Clients |-> 0]
  /\ sidecar = [c \in Clients |-> None]
  /\ waiting = [c \in Clients |-> FALSE]
  /\ timeouts = 0
  /\ breaks = 0
  /\ discarded = {}
  /\ overlapped = {}
  /\ torn = {}

Accept(w) ==
  \E r \in requests :
    UploadBegin(w, r) \/ UploadStatus(w, r) \/ UploadChunk(w, r) \/ UploadComplete(w, r)

Work(w) ==
  \/ ChunkAppend(w) \/ ChunkSave(w)
  \/ CompleteVerify(w) \/ CompleteCheck(w) \/ CompleteReplace(w) \/ CompleteSave(w)
  \/ FailSave(w) \/ FailUnlink(w) \/ CompleteRaise(w)

Next ==
  \/ \E c \in Clients : Start(c) \/ Send(c) \/ TimeOut(c)
  \/ \E w \in Workers : Accept(w) \/ Work(w) \/ Break(w)

Spec == Init /\ [][Next]_vars

\* The operating system runs the server's threads, requests that are not lost are
\* taken, a running client goes on, and its user runs it again after a failure
\* (client/README.md:57).  Timeouts and breaks are not fair.
Fairness ==
  /\ \A c \in Clients : WF_vars(Start(c)) /\ WF_vars(Send(c))
  /\ \A w \in Workers : WF_vars(Accept(w)) /\ WF_vars(Work(w))

FairSpec == Spec /\ Fairness

-------------------------------------------------------------------------------
(* Properties *)

Steps == {"idle", "append", "save_offset", "verify", "target_check", "replace",
          "save_completed", "save_failed", "unlink_failed"}
States == [status : {"none", "created", "uploading", "uploaded", "completed", "failed"},
           offset : Offsets]
File == [of : Transfers \cup {None, Foreign}, body : Seq(Chunks)]

TypeOK ==
  /\ saved \in [Transfers -> States]
  /\ temp \in [Transfers -> Seq(Chunks) \cup {None}]
  /\ target \in [Targets -> File]
  /\ published \subseteq Transfers
  /\ requests \subseteq Requests
  /\ pc \in [Workers -> Steps]
  /\ call \in [Workers -> Requests \cup {None}]
  /\ view \in [Workers -> States]
  /\ phase \in [Clients -> Calls \cup {"idle", "done"}]
  /\ position \in [Clients -> Offsets]
  /\ sidecar \in [Clients -> Transfers \cup {None}]
  /\ waiting \in [Clients -> BOOLEAN]
  /\ timeouts \in 0 .. MaxTimeouts
  /\ breaks \in 0 .. MaxBreaks
  /\ discarded \cup overlapped \cup torn \subseteq Transfers

\* "Verify size and SHA-256 and atomically install the uploaded file"
\* (transfer_metadata.py:106).  Calls run in threads and take no lock, so a chunk call
\* beside a completion can write between its digest check and its replacement.  What
\* else may happen, two completions at once, late and repeated calls, calls that end
\* half-way, leaves what is installed whole.
InstalledWhole ==
  \A t \in Targets : target[t].of \in Transfers \ overlapped => target[t].body = Whole

\* A transfer that says completed has reached its target, though the replacement
\* and the saved status are two writes, and late calls save what they loaded earlier.
CompletedIsInstalled ==
  \A x \in Transfers : saved[x].status = "completed" => x \in published

\* A client resumes at the saved offset and never sends an acknowledged chunk again:
\* each of them is in the file until the file is installed or removed.  The file may
\* hold more, from calls that overlap or end before they save, but never less.
AcknowledgedKept ==
  \A x \in Transfers \ (published \cup discarded) : \A k \in Chunks :
    k < saved[x].offset => temp[x] # None /\ \E i \in 1 .. Len(temp[x]) : temp[x][i] = k

\* "Retry with the same paths to resume" (client/README.md:57): a client whose user
\* runs it again after failures ends with its file at the target, though its late
\* calls still run beside the new ones and calls end half-way: unless a chunk call
\* met another call of its transfer, a call ended between an append and the saved
\* offset or between the replacement and the saved status, or the target was taken.
UploadSucceeds ==
  \A c \in Clients :
    <>(\/ phase[c] = "done"
       \/ \E x \in overlapped \cup torn : Owner(x) = c
       \/ target[TargetOf[c]] = ForeignFile)
===============================================================================
