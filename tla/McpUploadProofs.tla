--------------------------- MODULE McpUploadProofs ---------------------------
(***************************************************************************)
(* Theorems about McpUpload for any clients, files, bounds and number of   *)
(* calls at a time: what is completed is installed, acknowledged chunks    *)
(* are kept, and what is installed is whole unless a chunk call ran beside *)
(* another call of its transfer.                                           *)
(***************************************************************************)
EXTENDS McpUpload, TLAPS

\* Transfers that exist.
Known == {x \in Transfers : saved[x].status # "none"}

\* A client past the beginning knows its transfer.
ClientInv ==
  /\ phase \in [Clients -> Calls \cup {"idle", "done"}]
  /\ position \in [Clients -> Offsets]
  /\ sidecar \in [Clients -> Transfers \cup {None}]
  /\ waiting \in [Clients -> BOOLEAN]
  /\ \A c \in Clients : sidecar[c] # None => sidecar[c] \in Known
  /\ \A c \in Clients : phase[c] \in {"status", "chunk", "complete"} => sidecar[c] \in Known

\* So does every request and every call.
RequestInv ==
  /\ requests \subseteq Requests
  /\ \A r \in requests : r.kind # "begin" => r.transfer \in Known

\* What a worker keeps of a call it is in.
CallInv ==
  /\ pc \in [Workers -> Steps]
  /\ call \in [Workers -> Requests \cup {None}]
  /\ view \in [Workers -> States]
  /\ \A w \in Workers : pc[w] # "idle" =>
       call[w] \in Requests /\ call[w].transfer \in Known
  /\ \A w \in Workers : pc[w] \in {"append", "save_offset"} =>
       view[w].offset < Size /\ call[w].offset = view[w].offset
  /\ \A w \in Workers : pc[w] = "save_completed" => call[w].transfer \in published

DiskInv ==
  /\ saved \in [Transfers -> States]
  /\ temp \in [Transfers -> Seq(Chunks) \cup {None}]
  /\ target \in [Targets -> File]
  /\ published \subseteq Transfers
  /\ timeouts \in 0 .. MaxTimeouts
  /\ breaks \in 0 .. MaxBreaks

IInv == ClientInv /\ RequestInv /\ CallInv /\ DiskInv /\ CompletedIsInstalled

-------------------------------------------------------------------------------
(* The client's part of a step *)

\* Any answer leaves the client in order, if the transfers it may name exist.
LEMMA ClientAnswers ==
  ASSUME ClientInv, Known \subseteq Known', NEW r \in Requests,
         \/ UNCHANGED client
         \/ Refuse(r)
         \/ \E x \in Known', o \in Offsets : x \in Transfers /\ Proceed(r, x, o)
         \/ \E f : Finish(r, f)
  PROVE  ClientInv'
<1>1. CASE UNCHANGED client
  BY <1>1 DEF ClientInv, client
<1>2. CASE Refuse(r)
  BY <1>2 DEF ClientInv, client, Refuse, Raised, Requests
<1>3. CASE \E x \in Known', o \in Offsets : x \in Transfers /\ Proceed(r, x, o)
  <2>1. PICK x \in Known', o \in Offsets : x \in Transfers /\ Proceed(r, x, o)
    BY <1>3
  <2>2. CASE ~ r.awaited
    BY <2>1, <2>2 DEF ClientInv, client, Proceed
  <2>3. CASE r.awaited
    BY <2>1, <2>3, ZenonT(60) DEF ClientInv, Proceed, Requests, Calls
  <2>4. QED BY <2>2, <2>3
<1>4. CASE \E f : Finish(r, f)
  <2>1. PICK f : Finish(r, f)
    BY <1>4
  <2>2. CASE UNCHANGED client
    BY <2>2 DEF ClientInv, client
  <2>3. CASE Raised(r.from)
    BY <2>3 DEF ClientInv, client, Raised, Requests
  <2>4. CASE /\ phase' = [phase EXCEPT ![r.from] = "done"]
             /\ sidecar' = [sidecar EXCEPT ![r.from] = None]
             /\ waiting' = [waiting EXCEPT ![r.from] = FALSE]
             /\ UNCHANGED position
    BY <2>4 DEF ClientInv, Requests
  <2>5. QED BY <2>1, <2>2, <2>3, <2>4 DEF Finish
<1>5. QED BY <1>1, <1>2, <1>3, <1>4

\* Requests leave the set when they are taken.
LEMMA Taken ==
  ASSUME RequestInv, Known \subseteq Known', NEW w \in Workers, NEW r, NEW kind,
         Take(w, r, kind)
  PROVE  /\ r \in Requests /\ r.kind = kind
         /\ kind # "begin" => r.transfer \in Known
         /\ RequestInv'
BY DEF Take, RequestInv

\* A worker whose call ends leaves the calls in order.
LEMMA Released ==
  ASSUME CallInv, Known \subseteq Known', published \subseteq published',
         NEW w \in Workers, Release(w), Size \in Nat
  PROVE  CallInv'
<1>1. NoState \in States
  BY DEF NoState, States, Offsets
<1>2. QED BY <1>1 DEF CallInv, Release, Steps

\* A worker that takes a request holds a call that is in order.
LEMMA Held ==
  ASSUME CallInv, DiskInv, saved' = saved, published' = published,
         NEW w \in Workers, NEW r \in Requests, r.transfer \in Known,
         NEW step \in {"append", "verify"}, Hold(w, r, step),
         step = "append" => ChunkFits(r)
  PROVE  CallInv'
<1>1. saved[r.transfer] \in States /\ Known' = Known
  BY DEF Known, DiskInv
<1>2. step \in Steps
  BY DEF Steps
<1>3. step = "append" => saved[r.transfer].offset < Size /\ r.offset = saved[r.transfer].offset
  BY DEF ChunkFits
<1>4. QED BY <1>1, <1>2, <1>3 DEF CallInv, Hold

\* A worker that goes on with its call keeps it in order.
LEMMA GoneOn ==
  ASSUME CallInv, Known \subseteq Known', published \subseteq published',
         NEW w \in Workers, NEW step \in Steps, Goto(w, step), pc[w] # "idle",
         step \in {"append", "save_offset"} => pc[w] = "append",
         step = "save_completed" => call[w].transfer \in published'
  PROVE  CallInv'
BY DEF CallInv, Goto

-------------------------------------------------------------------------------
(* The inductive invariant *)

LEMMA IInvInit == Init => IInv
<1> SUFFICES ASSUME Init PROVE IInv
  OBVIOUS
<1> USE UploadOK
<1>1. NoState \in States /\ 0 \in Offsets
  BY DEF NoState, States, Offsets
<1>2. ClientInv
  BY <1>1 DEF Init, ClientInv, Known, Calls
<1>3. RequestInv
  BY DEF Init, RequestInv
<1>4. CallInv
  BY <1>1 DEF Init, CallInv, Steps
<1>5. DiskInv
  <2>1. NoFile \in File /\ ForeignFile \in File
    BY DEF NoFile, ForeignFile, File
  <2>2. QED BY <1>1, <2>1 DEF Init, DiskInv
<1>6. CompletedIsInstalled
  BY DEF Init, CompletedIsInstalled, NoState
<1>7. QED BY <1>2, <1>3, <1>4, <1>5, <1>6 DEF IInv

LEMMA IInvNext == IInv /\ [Next]_vars => IInv'
<1> SUFFICES ASSUME IInv, [Next]_vars PROVE IInv'
  OBVIOUS
<1> USE UploadOK DEF IInv
<1> DEFINE SameSaved == saved' = saved /\ published' = published
<1>0. ASSUME SameSaved PROVE Known' = Known /\ CompletedIsInstalled'
  BY <1>0 DEF Known, CompletedIsInstalled
<1>1. ASSUME NEW c \in Clients, Start(c) PROVE IInv'
  <2>1. SameSaved /\ DiskInv'
    BY <1>1 DEF Start, disk, DiskInv
  <2>2. RequestInv' /\ CallInv'
    BY <1>0, <1>1, <2>1 DEF Start, worker, RequestInv, CallInv
  <2>3. ClientInv'
    BY <1>0, <1>1, <2>1 DEF Start, ClientInv, Calls, Offsets
  <2>4. QED BY <1>0, <2>1, <2>2, <2>3
<1>2. ASSUME NEW c \in Clients, Send(c) PROVE IInv'
  <2>1. SameSaved /\ DiskInv'
    BY <1>2 DEF Send, disk, DiskInv
  <2>2. CallInv'
    BY <1>0, <1>2, <2>1 DEF Send, worker, CallInv
  <2>3. ClientInv'
    BY <1>0, <1>2, <2>1 DEF Send, ClientInv
  <2>4. RequestInv'
    <3> DEFINE new == [from |-> c, kind |-> phase[c], transfer |-> sidecar[c],
                       offset |-> position[c], awaited |-> TRUE]
    <3>1. new \in Requests
      BY <1>2 DEF Send, ClientInv, Requests
    <3>2. new.kind # "begin" => new.transfer \in Known
      BY <1>2 DEF Send, ClientInv, Calls
    <3>3. requests' = requests \cup {new}
      BY <1>2 DEF Send
    <3> HIDE DEF new
    <3>4. QED BY <1>0, <2>1, <3>1, <3>2, <3>3 DEF RequestInv
  <2>5. QED BY <1>0, <2>1, <2>2, <2>3, <2>4
<1>3. ASSUME NEW c \in Clients, TimeOut(c) PROVE IInv'
  <2>1. SameSaved /\ DiskInv'
    BY <1>3 DEF TimeOut, disk, DiskInv
  <2>2. ClientInv'
    BY <1>0, <1>3, <2>1 DEF TimeOut, ClientInv
  <2>3. \A r \in Requests : /\ Abandoned(r, c) \in Requests
                             /\ Abandoned(r, c).kind = r.kind
                             /\ Abandoned(r, c).transfer = r.transfer
                             /\ Abandoned(r, c).offset = r.offset
    BY DEF Abandoned, Requests
  <2>4. RequestInv'
    BY <1>0, <1>3, <2>1, <2>3 DEF TimeOut, RequestInv
  <2>5. CallInv'
    BY <1>0, <1>3, <2>1, <2>3 DEF TimeOut, CallInv
  <2>6. QED BY <1>0, <2>1, <2>2, <2>4, <2>5
<1>4. ASSUME NEW w \in Workers, NEW r \in requests, UploadBegin(w, r) PROVE IInv'
  <2>1. CASE TargetFree(r.from) /\ \E x \in Transfers \ Begun(r.from) :
             /\ Owner(x) = r.from
             /\ saved' = [saved EXCEPT ![x] = Created]
             /\ temp' = [temp EXCEPT ![x] = <<>>]
             /\ Proceed(r, x, 0)
    <3>1. PICK x \in Transfers \ Begun(r.from) :
             /\ saved' = [saved EXCEPT ![x] = Created]
             /\ temp' = [temp EXCEPT ![x] = <<>>]
             /\ Proceed(r, x, 0)
      BY <2>1
    <3>2. Created \in States /\ Created.status = "created"
      BY DEF Created, States, Offsets
    <3>3. Known \subseteq Known' /\ x \in Known'
      BY <3>1, <3>2 DEF Known, DiskInv
    <3>4. DiskInv'
      BY <1>4, <3>1, <3>2 DEF UploadBegin, DiskInv
    <3>5. CompletedIsInstalled'
      BY <1>4, <3>1, <3>2 DEF UploadBegin, CompletedIsInstalled, DiskInv
    <3>6. r \in Requests /\ RequestInv'
      BY <1>4, <3>3, Taken DEF UploadBegin
    <3>7. ClientInv'
      BY <3>1, <3>3, <3>6, ClientAnswers DEF Offsets
    <3>8. CallInv'
      BY <1>4, <3>3 DEF UploadBegin, worker, CallInv
    <3>9. QED BY <3>4, <3>5, <3>6, <3>7, <3>8
  <2>2. CASE Refuse(r) /\ UNCHANGED <<saved, temp>>
    <3>1. SameSaved /\ DiskInv'
      BY <1>4, <2>2 DEF UploadBegin, DiskInv
    <3>2. r \in Requests /\ RequestInv'
      BY <1>0, <1>4, <3>1, Taken DEF UploadBegin
    <3>3. ClientInv'
      BY <1>0, <2>2, <3>1, <3>2, ClientAnswers
    <3>4. CallInv'
      BY <1>0, <1>4, <3>1 DEF UploadBegin, worker, CallInv
    <3>5. QED BY <1>0, <3>1, <3>2, <3>3, <3>4
  <2>3. QED BY <1>4, <2>1, <2>2 DEF UploadBegin
<1>5. ASSUME NEW w \in Workers, NEW r \in requests,
             UploadStatus(w, r) \/ UploadChunk(w, r) \/ UploadComplete(w, r)
      PROVE  IInv'
  <2>1. SameSaved /\ DiskInv'
    BY <1>5 DEF UploadStatus, UploadChunk, UploadComplete, disk, DiskInv
  <2>2. PICK kind \in {"status", "chunk", "complete"} : Take(w, r, kind)
    BY <1>5 DEF UploadStatus, UploadChunk, UploadComplete
  <2>3. r \in Requests /\ r.transfer \in Known /\ RequestInv'
    BY <1>0, <2>1, <2>2, Taken
  <2>4. saved[r.transfer].offset \in Offsets
    BY <2>3 DEF DiskInv, Known, States
  <2>5. ClientInv'
    <3>1. UNCHANGED client \/ Refuse(r) \/ (\E f : Finish(r, f))
          \/ Proceed(r, r.transfer, saved[r.transfer].offset)
      BY <1>5 DEF UploadStatus, UploadChunk, UploadComplete, Hold
    <3>2. r.transfer \in Known' /\ r.transfer \in Transfers
      BY <1>0, <2>1, <2>3 DEF Known
    <3>3. QED BY <1>0, <2>1, <2>3, <2>4, <3>1, <3>2, ClientAnswers
  <2>6. CallInv'
    <3>1. CASE UNCHANGED worker
      BY <1>0, <2>1, <3>1 DEF worker, CallInv
    <3>2. CASE ChunkFits(r) /\ Hold(w, r, "append")
      BY <2>1, <2>3, <3>2, Held
    <3>3. CASE Hold(w, r, "verify")
      BY <2>1, <2>3, <3>3, Held
    <3>4. QED BY <1>5, <3>1, <3>2, <3>3 DEF UploadStatus, UploadChunk, UploadComplete
  <2>7. QED BY <1>0, <2>1, <2>3, <2>5, <2>6
<1>6. ASSUME NEW w \in Workers, ChunkAppend(w) PROVE IInv'
  <2>1. SameSaved
    BY <1>6 DEF ChunkAppend
  <2>2. call[w].transfer \in Transfers /\ call[w].offset \in Chunks
    BY <1>6 DEF ChunkAppend, CallInv, Known, Requests, Offsets, Chunks
  <2>3. DiskInv'
    <3>1. (IF temp[call[w].transfer] = None THEN <<>> ELSE temp[call[w].transfer]) \in Seq(Chunks)
      BY <2>2 DEF DiskInv
    <3>2. QED BY <1>6, <2>1, <2>2, <3>1 DEF ChunkAppend, DiskInv
  <2>4. ClientInv' /\ RequestInv'
    BY <1>0, <1>6, <2>1 DEF ChunkAppend, client, ClientInv, RequestInv
  <2>5. CallInv'
    BY <1>0, <1>6, <2>1, GoneOn DEF ChunkAppend, Steps
  <2>6. QED BY <1>0, <2>1, <2>3, <2>4, <2>5
<1>7. ASSUME NEW w \in Workers, ChunkSave(w) PROVE IInv'
  <2> DEFINE next == view[w].offset + 1
             after == [status |-> IF next < Size THEN "uploading" ELSE "uploaded",
                       offset |-> next]
  <2>1. call[w] \in Requests /\ call[w].transfer \in Known /\ next \in Offsets
    BY <1>7 DEF ChunkSave, CallInv, States, Offsets
  <2>2. after \in States /\ after.status \notin {"none", "completed"}
    BY <2>1 DEF States
  <2>3. saved' = [saved EXCEPT ![call[w].transfer] = after] /\ published' = published
    BY <1>7 DEF ChunkSave
  <2>4. Proceed(call[w], call[w].transfer, next)
    BY <1>7 DEF ChunkSave
  <2> HIDE DEF next, after
  <2>5. Known \subseteq Known' /\ call[w].transfer \in Known'
    BY <2>1, <2>2, <2>3 DEF Known, DiskInv
  <2>6. DiskInv'
    BY <1>7, <2>1, <2>2, <2>3 DEF ChunkSave, DiskInv, Known
  <2>7. CompletedIsInstalled'
    BY <2>1, <2>2, <2>3 DEF CompletedIsInstalled, DiskInv, Known
  <2>8. ClientInv'
    BY <2>1, <2>4, <2>5, ClientAnswers DEF Known
  <2>9. RequestInv'
    BY <1>7, <2>5 DEF ChunkSave, RequestInv
  <2>10. CallInv'
    BY <1>7, <2>3, <2>5, Released DEF ChunkSave
  <2>11. QED BY <2>6, <2>7, <2>8, <2>9, <2>10
<1>8. ASSUME NEW w \in Workers, CompleteVerify(w) \/ CompleteCheck(w) PROVE IInv'
  <2>1. SameSaved /\ DiskInv'
    BY <1>8 DEF CompleteVerify, CompleteCheck, disk, DiskInv
  <2>2. ClientInv' /\ RequestInv'
    BY <1>0, <1>8, <2>1 DEF CompleteVerify, CompleteCheck, client, ClientInv, RequestInv
  <2>3. PICK step \in {"target_check", "save_failed", "replace"} :
          Goto(w, step) /\ pc[w] # "idle"
    BY <1>8 DEF CompleteVerify, CompleteCheck
  <2>4. CallInv'
    BY <1>0, <2>1, <2>3, GoneOn DEF Steps
  <2>5. QED BY <1>0, <2>1, <2>2, <2>4
<1>9. ASSUME NEW w \in Workers, CompleteReplace(w) PROVE IInv'
  <2>1. call[w].transfer \in Transfers /\ temp[call[w].transfer] \in Seq(Chunks)
    BY <1>9 DEF CompleteReplace, CallInv, Known, DiskInv
  <2>2. saved' = saved /\ published' = published \cup {call[w].transfer} /\ Known' = Known
    BY <1>9 DEF CompleteReplace, Known
  <2>3. [of |-> call[w].transfer, body |-> temp[call[w].transfer]] \in File
    BY <2>1 DEF File
  <2>4. DiskInv'
    BY <1>9, <2>1, <2>2, <2>3 DEF CompleteReplace, DiskInv
  <2>5. CompletedIsInstalled'
    BY <2>2 DEF CompletedIsInstalled
  <2>6. ClientInv' /\ RequestInv'
    BY <1>9, <2>2 DEF CompleteReplace, client, ClientInv, RequestInv
  <2>7. CallInv'
    BY <1>9, <2>2, GoneOn DEF CompleteReplace, Steps
  <2>8. QED BY <2>4, <2>5, <2>6, <2>7
<1>10. ASSUME NEW w \in Workers, CompleteSave(w) \/ FailSave(w) PROVE IInv'
  <2>0. call[w] \in Requests /\ call[w].transfer \in Known
    BY <1>10 DEF CompleteSave, FailSave, CallInv
  <2>1. PICK x \in Transfers : x = call[w].transfer /\ x \in Known
    BY <2>0 DEF Known
  <2>2. PICK s \in States : /\ saved' = [saved EXCEPT ![x] = s]
                            /\ s.status # "none"
                            /\ s.status = "completed" => x \in published
    <3>1. CASE CompleteSave(w)
      <4>1. [view[w] EXCEPT !.status = "completed"] \in States
        BY DEF CallInv, States
      <4>2. x \in published
        BY <2>1, <3>1 DEF CompleteSave, CallInv
      <4>3. QED BY <2>1, <3>1, <4>1, <4>2 DEF CompleteSave, CallInv, States
    <3>2. CASE FailSave(w)
      <4>1. [view[w] EXCEPT !.status = "failed"] \in States
        BY DEF CallInv, States
      <4>2. QED BY <2>1, <3>2, <4>1 DEF FailSave, CallInv, States
    <3>3. QED BY <1>10, <3>1, <3>2
  <2>3. published' = published /\ requests' = requests
    BY <1>10 DEF CompleteSave, FailSave
  <2>4. Known \subseteq Known'
    BY <2>1, <2>2 DEF Known, DiskInv
  <2>5. DiskInv'
    BY <1>10, <2>1, <2>2, <2>3 DEF CompleteSave, FailSave, DiskInv
  <2>6. CompletedIsInstalled'
    BY <2>1, <2>2, <2>3 DEF CompletedIsInstalled, DiskInv
  <2>7. ClientInv'
    <3>1. UNCHANGED client \/ \E f : Finish(call[w], f)
      BY <1>10 DEF CompleteSave, FailSave
    <3>2. QED BY <2>0, <2>4, <3>1, ClientAnswers
  <2>8. RequestInv'
    BY <2>3, <2>4 DEF RequestInv
  <2>9. CallInv'
    <3>1. CASE CompleteSave(w)
      BY <2>3, <2>4, <3>1, Released DEF CompleteSave
    <3>2. CASE FailSave(w)
      BY <2>3, <2>4, <3>2, GoneOn DEF FailSave, Steps
    <3>3. QED BY <1>10, <3>1, <3>2
  <2>10. QED BY <2>5, <2>6, <2>7, <2>8, <2>9
<1>11. ASSUME NEW w \in Workers, FailUnlink(w) \/ CompleteRaise(w) \/ Break(w) PROVE IInv'
  <2>1. SameSaved /\ requests' = requests /\ Refuse(call[w]) /\ Release(w)
    BY <1>11 DEF FailUnlink, CompleteRaise, Break, disk
  <2>2. call[w] \in Requests
    BY <1>11 DEF FailUnlink, CompleteRaise, Break, CallInv
  <2>3. DiskInv'
    BY <1>11, <2>1 DEF FailUnlink, CompleteRaise, Break, disk, DiskInv
  <2>4. ClientInv'
    BY <1>0, <2>1, <2>2, ClientAnswers
  <2>5. RequestInv'
    BY <1>0, <2>1 DEF RequestInv
  <2>6. CallInv'
    BY <1>0, <2>1, Released
  <2>7. QED BY <1>0, <2>1, <2>3, <2>4, <2>5, <2>6
<1>12. CASE UNCHANGED vars
  BY <1>12 DEF vars, disk, worker, client, ClientInv, RequestInv, CallInv, DiskInv,
               Known, CompletedIsInstalled
<1>13. QED
  BY <1>1, <1>2, <1>3, <1>4, <1>5, <1>6, <1>7, <1>8, <1>9, <1>10, <1>11, <1>12
     DEF Next, Accept, Work

\* What is remembered about transfers is about transfers.
HistoryInv == discarded \cup overlapped \cup torn \subseteq Transfers

LEMMA HistoryInit == Init => HistoryInv
BY DEF Init, HistoryInv

LEMMA HistoryNext == IInv /\ HistoryInv /\ [Next]_vars => HistoryInv'
<1> SUFFICES ASSUME IInv, HistoryInv, [Next]_vars PROVE HistoryInv'
  OBVIOUS
<1>0. \A w \in Workers : pc[w] # "idle" => call[w].transfer \in Transfers
  BY DEF IInv, CallInv, Known
<1>1. ASSUME NEW w \in Workers, NEW r \in requests, UploadChunk(w, r) \/ UploadComplete(w, r)
      PROVE  HistoryInv'
  <2>1. r.transfer \in Transfers
    BY <1>1 DEF UploadChunk, UploadComplete, Take, IInv, RequestInv, Known
  <2>2. QED BY <1>1, <2>1 DEF UploadChunk, UploadComplete, Hold, HistoryInv, history, disk
<1>2. ASSUME NEW w \in Workers, FailUnlink(w) \/ Break(w) PROVE HistoryInv'
  BY <1>0, <1>2 DEF FailUnlink, Break, HistoryInv, history, disk
<1>3. ASSUME \/ \E c \in Clients : Start(c) \/ Send(c) \/ TimeOut(c)
             \/ \E w \in Workers, r \in requests : UploadBegin(w, r) \/ UploadStatus(w, r)
             \/ \E w \in Workers :
                  \/ ChunkAppend(w) \/ ChunkSave(w) \/ CompleteVerify(w) \/ CompleteCheck(w)
                  \/ CompleteReplace(w) \/ CompleteSave(w) \/ FailSave(w) \/ CompleteRaise(w)
             \/ UNCHANGED vars
      PROVE  HistoryInv'
  <2>1. UNCHANGED <<discarded, overlapped, torn>>
    BY <1>3 DEF Start, Send, TimeOut, UploadBegin, UploadStatus, ChunkAppend, ChunkSave,
       CompleteVerify, CompleteCheck, CompleteReplace, CompleteSave, FailSave, CompleteRaise,
       vars, disk, history
  <2>2. QED BY <2>1 DEF HistoryInv
<1>4. QED
  BY <1>1, <1>2, <1>3 DEF Next, Accept, Work

\* Every variable keeps its type, for any clients, workers, files and bounds.
THEOREM UploadTypeCorrect == Spec => []TypeOK
<1>1. Init => IInv /\ HistoryInv
  BY IInvInit, HistoryInit
<1>2. IInv /\ HistoryInv /\ [Next]_vars => (IInv /\ HistoryInv)'
  BY IInvNext, HistoryNext
<1>3. IInv /\ HistoryInv => TypeOK
  BY DEF IInv, ClientInv, RequestInv, CallInv, DiskInv, HistoryInv, TypeOK
<1>4. QED BY <1>1, <1>2, <1>3, PTL DEF Spec

\* A transfer that upload_complete reports as completed has been moved to its
\* target, however calls overlap, repeat, come late or end half-way.
THEOREM CompletedInstalled == Spec => []CompletedIsInstalled
<1>1. IInv => CompletedIsInstalled
  BY DEF IInv
<1>2. QED BY <1>1, IInvInit, IInvNext, PTL DEF Spec

-------------------------------------------------------------------------------
(* Integrity beside other calls *)

Appending == {"append", "save_offset"}
Checked == {"target_check", "replace"}

\* Chunk calls beside another call of their transfer are remembered; so a file whose
\* digest was right stays right until it is moved away.
OverlapInv ==
  /\ \A w \in Workers : pc[w] \in Appending => call[w].kind = "chunk"
  /\ \A v, w \in Workers :
       /\ v # w /\ pc[v] # "idle" /\ pc[w] # "idle"
       /\ call[v].transfer = call[w].transfer /\ call[v].kind = "chunk"
       => call[w].transfer \in overlapped
CheckedInv ==
  \A w \in Workers : pc[w] \in Checked =>
    call[w].transfer \in overlapped \/ temp[call[w].transfer] \in {Whole, None}
WholeInv == OverlapInv /\ CheckedInv /\ InstalledWhole

LEMMA WholeInit == Init => WholeInv
<1>1. Init => InstalledWhole
  BY UploadOK DEF Init, InstalledWhole, NoFile, ForeignFile
<1>2. Init => OverlapInv /\ CheckedInv
  BY DEF Init, OverlapInv, CheckedInv, Appending, Checked
<1>3. QED BY <1>1, <1>2 DEF WholeInv

\* A step of workers that go on with their calls or end them, and leave the files alone.
LEMMA WholeStill ==
  ASSUME WholeInv, UNCHANGED <<temp, target, overlapped>>,
         \A w \in Workers : pc'[w] # "idle" =>
           /\ pc[w] # "idle"
           /\ call'[w].transfer = call[w].transfer /\ call'[w].kind = call[w].kind
           /\ pc'[w] \in Appending => pc[w] \in Appending
           /\ pc'[w] \in Checked => pc[w] \in Checked \/ temp[call[w].transfer] = Whole
  PROVE  WholeInv'
<1>1. OverlapInv'
  BY DEF WholeInv, OverlapInv, Appending
<1>2. CheckedInv'
  BY DEF WholeInv, CheckedInv, Checked
<1>3. QED BY <1>1, <1>2 DEF WholeInv, InstalledWhole

\* A worker that takes a request is remembered when a chunk call is then beside
\* another call.
LEMMA WholeHeld ==
  ASSUME IInv, WholeInv, NEW w \in Workers, NEW r, pc[w] = "idle",
         UNCHANGED <<temp, target>>,
         \/ r.kind = "chunk" /\ Hold(w, r, "append")
         \/ r.kind = "complete" /\ Hold(w, r, "verify")
  PROVE  WholeInv'
<1>1. /\ pc' = [pc EXCEPT ![w] = pc'[w]] /\ pc'[w] \in {"append", "verify"}
      /\ call' = [call EXCEPT ![w] = r]
      /\ pc'[w] \in Appending => r.kind = "chunk"
      /\ overlapped \subseteq overlapped'
      /\ Beside(r.transfer, r.kind) => r.transfer \in overlapped'
  BY DEF Hold, IInv, CallInv, Appending
<1>2. \A v \in Workers \ {w} : pc'[v] = pc[v] /\ call'[v] = call[v]
  BY <1>1 DEF IInv, CallInv
<1>3. call'[w] = r
  BY <1>1 DEF IInv, CallInv
<1>4. OverlapInv'
  <2>1. ASSUME NEW v \in Workers, pc'[v] \in Appending PROVE call'[v].kind = "chunk"
    BY <1>1, <1>2, <1>3, <2>1 DEF WholeInv, OverlapInv
  <2>2. ASSUME NEW u \in Workers, NEW v \in Workers, u # v, pc'[u] # "idle", pc'[v] # "idle",
               call'[u].transfer = call'[v].transfer, call'[u].kind = "chunk"
        PROVE  call'[v].transfer \in overlapped'
    <3>1. CASE u # w /\ v # w
      BY <1>1, <1>2, <2>2, <3>1 DEF WholeInv, OverlapInv
    <3>2. CASE u = w
      BY <1>1, <1>2, <1>3, <2>2, <3>2 DEF Beside
    <3>3. CASE v = w
      BY <1>1, <1>2, <1>3, <2>2, <3>3 DEF Beside
    <3>4. QED BY <3>1, <3>2, <3>3
  <2>3. QED BY <2>1, <2>2 DEF OverlapInv
<1>5. CheckedInv'
  BY <1>1, <1>2 DEF WholeInv, CheckedInv, Checked
<1>6. InstalledWhole'
  BY <1>1 DEF WholeInv, InstalledWhole
<1>7. QED BY <1>4, <1>5, <1>6 DEF WholeInv

LEMMA WholeNext == IInv /\ WholeInv /\ [Next]_vars => WholeInv'
<1> SUFFICES ASSUME IInv, WholeInv, [Next]_vars PROVE WholeInv'
  OBVIOUS
<1> USE UploadOK DEF IInv
<1>0. \A w \in Workers : pc[w] # "idle" =>
        call[w] \in Requests /\ call[w].transfer \in Known /\ call[w].transfer \in Transfers
  BY DEF CallInv, Known
<1>1. ASSUME NEW c \in Clients, Start(c) \/ Send(c) PROVE WholeInv'
  BY <1>1, WholeStill DEF Start, Send, disk, worker, history
<1>2. ASSUME NEW c \in Clients, TimeOut(c) PROVE WholeInv'
  <2>1. \A w \in Workers : pc[w] # "idle" =>
          call'[w].transfer = call[w].transfer /\ call'[w].kind = call[w].kind
    BY <1>0, <1>2 DEF TimeOut, Abandoned, Requests
  <2>2. QED BY <1>2, <2>1, WholeStill DEF TimeOut, disk, history
<1>3. ASSUME NEW w \in Workers, NEW r \in requests, UploadBegin(w, r) PROVE WholeInv'
  <2>1. CASE UNCHANGED temp
    BY <1>3, <2>1, WholeStill DEF UploadBegin, worker, history
  <2>2. CASE \E x \in Transfers \ Begun(r.from) : Owner(x) = r.from /\ temp' = [temp EXCEPT ![x] = <<>>]
    <3>1. PICK x \in Transfers : x \notin Known /\ temp' = [temp EXCEPT ![x] = <<>>]
      BY <2>2 DEF Begun, Known
    <3>2. \A v \in Workers : pc[v] # "idle" => temp'[call[v].transfer] = temp[call[v].transfer]
      BY <1>0, <3>1 DEF DiskInv
    <3>3. UNCHANGED <<worker, target, overlapped>>
      BY <1>3 DEF UploadBegin, history
    <3>4. CheckedInv'
      BY <3>2, <3>3 DEF worker, WholeInv, CheckedInv, Checked
    <3>5. QED BY <3>3, <3>4 DEF worker, WholeInv, OverlapInv, InstalledWhole
  <2>3. QED BY <1>3, <2>1, <2>2 DEF UploadBegin
<1>4. ASSUME NEW w \in Workers, NEW r \in requests,
             UploadStatus(w, r) \/ UploadChunk(w, r) \/ UploadComplete(w, r)
      PROVE  WholeInv'
  <2>1. CASE UNCHANGED <<worker, history>>
    BY <1>4, <2>1, WholeStill
       DEF UploadStatus, UploadChunk, UploadComplete, disk, worker, history
  <2>2. CASE ~ UNCHANGED <<worker, history>>
    <3>1. /\ pc[w] = "idle" /\ UNCHANGED disk
          /\ \/ r.kind = "chunk" /\ Hold(w, r, "append")
             \/ r.kind = "complete" /\ Hold(w, r, "verify")
      BY <1>4, <2>2 DEF UploadStatus, UploadChunk, UploadComplete, Take
    <3>2. QED BY <3>1, WholeHeld DEF disk
  <2>3. QED BY <2>1, <2>2
<1>5. ASSUME NEW w \in Workers, ChunkAppend(w) PROVE WholeInv'
  <2>1. PICK x \in Transfers : x = call[w].transfer
    BY <1>0, <1>5 DEF ChunkAppend
  <2>2. /\ \A v \in Workers \ {w} : pc'[v] = pc[v]
        /\ pc'[w] = "save_offset" /\ pc[w] = "append"
        /\ UNCHANGED <<call, target, overlapped>>
    BY <1>5 DEF ChunkAppend, Goto, CallInv, history
  <2>3. \A y \in Transfers \ {x} : temp'[y] = temp[y]
    BY <1>5, <2>1 DEF ChunkAppend, DiskInv
  <2>4. OverlapInv'
    BY <2>2 DEF WholeInv, OverlapInv, Appending
  <2>5. CheckedInv'
    <3> SUFFICES ASSUME NEW v \in Workers, pc'[v] \in Checked
                 PROVE  call[v].transfer \in overlapped \/ temp'[call[v].transfer] \in {Whole, None}
      BY <2>2 DEF CheckedInv
    <3>1. v # w /\ pc[v] \in Checked
      BY <2>2 DEF Checked
    <3>2. CASE call[v].transfer = x
      <4>1. call[w].kind = "chunk"
        BY <2>2 DEF WholeInv, OverlapInv, Appending
      <4>2. QED BY <2>1, <2>2, <3>1, <3>2, <4>1 DEF WholeInv, OverlapInv, Checked
    <3>3. CASE call[v].transfer # x
      <4>1. temp'[call[v].transfer] = temp[call[v].transfer]
        BY <1>0, <2>3, <3>1, <3>3 DEF Checked
      <4>2. QED BY <3>1, <4>1 DEF WholeInv, CheckedInv
    <3>4. QED BY <3>2, <3>3
  <2>6. QED BY <2>2, <2>4, <2>5 DEF WholeInv, InstalledWhole
<1>6. ASSUME NEW w \in Workers,
             \/ ChunkSave(w) \/ CompleteSave(w) \/ CompleteRaise(w) \/ Break(w)
      PROVE  WholeInv'
  <2>1. Release(w) /\ UNCHANGED <<temp, target, overlapped>>
    BY <1>6 DEF ChunkSave, CompleteSave, CompleteRaise, Break, disk, history
  <2>2. QED BY <2>1, WholeStill DEF Release, CallInv
<1>7. ASSUME NEW w \in Workers, CompleteVerify(w) \/ CompleteCheck(w) \/ FailSave(w)
      PROVE  WholeInv'
  <2>1. PICK step \in {"target_check", "save_failed", "replace", "unlink_failed"} :
          /\ Goto(w, step) /\ UNCHANGED <<temp, target, overlapped>>
          /\ pc[w] # "idle"
          /\ step = "replace" => pc[w] = "target_check"
          /\ step = "target_check" => temp[call[w].transfer] = Whole
    BY <1>7 DEF CompleteVerify, CompleteCheck, FailSave, Verified, disk, history
  <2>2. QED BY <2>1, WholeStill DEF Goto, CallInv, Appending, Checked
<1>8. ASSUME NEW w \in Workers, CompleteReplace(w) PROVE WholeInv'
  <2>1. PICK x \in Transfers : x = call[w].transfer
    BY <1>0, <1>8 DEF CompleteReplace
  <2>2. x \in overlapped \/ temp[x] = Whole
    BY <1>8, <2>1 DEF CompleteReplace, WholeInv, CheckedInv, Checked
  <2>3. /\ \A v \in Workers \ {w} : pc'[v] = pc[v]
        /\ pc'[w] = "save_completed" /\ pc[w] = "replace"
        /\ UNCHANGED <<call, overlapped>>
    BY <1>8 DEF CompleteReplace, Goto, CallInv, history
  <2>4. OverlapInv'
    BY <2>3 DEF WholeInv, OverlapInv, Appending
  <2>5. \A y \in Transfers : temp'[y] = temp[y] \/ temp'[y] = None
    BY <1>8, <2>1 DEF CompleteReplace, DiskInv
  <2>6. CheckedInv'
    BY <1>0, <2>3, <2>5 DEF WholeInv, CheckedInv, Checked
  <2>7. InstalledWhole'
    BY <1>8, <2>1, <2>2, <2>3 DEF CompleteReplace, WholeInv, InstalledWhole, DiskInv
  <2>8. QED BY <2>4, <2>6, <2>7 DEF WholeInv
<1>9. ASSUME NEW w \in Workers, FailUnlink(w) PROVE WholeInv'
  <2>1. PICK x \in Transfers : x = call[w].transfer
    BY <1>0, <1>9 DEF FailUnlink
  <2>2. /\ \A v \in Workers \ {w} : pc'[v] = pc[v] /\ call'[v] = call[v]
        /\ pc'[w] = "idle"
        /\ UNCHANGED <<target, overlapped>>
    BY <1>9 DEF FailUnlink, Release, CallInv, history
  <2>3. \A y \in Transfers : temp'[y] = temp[y] \/ temp'[y] = None
    BY <1>9, <2>1 DEF FailUnlink, DiskInv
  <2>4. OverlapInv'
    BY <2>2 DEF WholeInv, OverlapInv, Appending
  <2>5. CheckedInv'
    BY <1>0, <2>2, <2>3 DEF WholeInv, CheckedInv, Checked
  <2>6. QED BY <2>2, <2>4, <2>5 DEF WholeInv, InstalledWhole
<1>10. CASE UNCHANGED vars
  BY <1>10, WholeStill DEF vars, disk, worker, history
<1>11. QED
  BY <1>1, <1>2, <1>3, <1>4, <1>5, <1>6, <1>7, <1>8, <1>9, <1>10 DEF Next, Accept, Work

\* What an upload puts at its target is whole, with any number of calls at a time,
\* unless a chunk call of the transfer ran beside another call of it.
THEOREM UploadWhole == Spec => []InstalledWhole
<1>1. Init => IInv /\ WholeInv
  BY IInvInit, WholeInit
<1>2. IInv /\ WholeInv /\ [Next]_vars => (IInv /\ WholeInv)'
  BY IInvNext, WholeNext
<1>3. WholeInv => InstalledWhole
  BY DEF WholeInv
<1>4. QED BY <1>1, <1>2, <1>3, PTL DEF Spec

-------------------------------------------------------------------------------
(* Acknowledged chunks *)

\* The file has the chunks before an offset.
Keeps(file, offset) ==
  \A k \in Chunks : k < offset => file # None /\ \E i \in 1 .. Len(file) : file[i] = k
Gone == published \cup discarded

\* It has those before the offset a call has loaded too, which the call may save
\* long after; and the chunk the call has appended.
KeptInv ==
  /\ \A x \in Transfers \ Gone : Keeps(temp[x], saved[x].offset)
  /\ \A w \in Workers : pc[w] # "idle" /\ call[w].transfer \notin Gone =>
       Keeps(temp[call[w].transfer], view[w].offset)
  /\ \A w \in Workers : pc[w] = "save_offset" /\ call[w].transfer \notin Gone =>
       Keeps(temp[call[w].transfer], view[w].offset + 1)

LEMMA KeptInit == Init => KeptInv
<1> SUFFICES ASSUME Init PROVE KeptInv
  OBVIOUS
<1>1. \A x \in Transfers : saved[x].offset = 0
  BY DEF Init, NoState
<1>2. \A f : Keeps(f, 0)
  BY UploadOK DEF Keeps, Chunks
<1>3. QED BY <1>1, <1>2 DEF Init, KeptInv

\* Files only grow until they are gone; what is saved is kept, and what a call has
\* loaded was saved.
LEMMA KeptGrows ==
  ASSUME KeptInv, Gone \subseteq Gone',
         \A x \in Transfers \ Gone' : \A n \in Nat : Keeps(temp[x], n) => Keeps(temp'[x], n),
         \A x \in Transfers \ Gone' : Keeps(temp'[x], saved'[x].offset),
         view \in [Workers -> States], saved \in [Transfers -> States],
         \A w \in Workers : pc'[w] # "idle" =>
           /\ call'[w].transfer \in Transfers
           /\ \/ /\ pc[w] # "idle" /\ view'[w] = view[w]
                 /\ call'[w].transfer = call[w].transfer
              \/ view'[w] = saved[call'[w].transfer]
           /\ pc'[w] = "save_offset" =>
                \/ /\ pc[w] = "save_offset" /\ view'[w] = view[w]
                   /\ call'[w].transfer = call[w].transfer
                \/ Keeps(temp'[call'[w].transfer], view'[w].offset + 1)
  PROVE  KeptInv'
<1>1. \A s \in States : s.offset \in Nat /\ s.offset + 1 \in Nat
  BY UploadOK DEF States, Offsets
<1>2. ASSUME NEW w \in Workers, pc'[w] # "idle", call'[w].transfer \notin Gone'
      PROVE  Keeps(temp'[call'[w].transfer], view'[w].offset)
  <2>1. CASE pc[w] # "idle" /\ view'[w] = view[w] /\ call'[w].transfer = call[w].transfer
    BY <1>1, <1>2, <2>1 DEF KeptInv
  <2>2. CASE view'[w] = saved[call'[w].transfer]
    BY <1>1, <1>2, <2>2 DEF KeptInv
  <2>3. QED BY <1>2, <2>1, <2>2
<1>3. ASSUME NEW w \in Workers, pc'[w] = "save_offset", call'[w].transfer \notin Gone'
      PROVE  Keeps(temp'[call'[w].transfer], view'[w].offset + 1)
  <2>1. CASE pc[w] = "save_offset" /\ view'[w] = view[w] /\ call'[w].transfer = call[w].transfer
    BY <1>1, <1>3, <2>1 DEF KeptInv
  <2>2. QED BY <1>3, <2>1
<1>4. QED BY <1>2, <1>3 DEF KeptInv

\* A step that leaves the disk alone, and in which workers go on or take requests.
LEMMA KeptStill ==
  ASSUME KeptInv, UNCHANGED disk,
         view \in [Workers -> States], saved \in [Transfers -> States],
         \A w \in Workers : pc'[w] # "idle" =>
           /\ call'[w].transfer \in Transfers
           /\ \/ /\ pc[w] # "idle" /\ view'[w] = view[w]
                 /\ call'[w].transfer = call[w].transfer
              \/ view'[w] = saved[call'[w].transfer]
           /\ pc'[w] = "save_offset" =>
                /\ pc[w] = "save_offset" /\ view'[w] = view[w]
                /\ call'[w].transfer = call[w].transfer
  PROVE  KeptInv'
<1>1. Gone' = Gone /\ temp' = temp /\ saved' = saved
  BY DEF disk, Gone
<1>2. \A x \in Transfers \ Gone' : Keeps(temp'[x], saved'[x].offset)
  BY <1>1 DEF KeptInv
<1>3. QED BY <1>1, <1>2, KeptGrows

LEMMA KeptNext == IInv /\ KeptInv /\ [Next]_vars => KeptInv'
<1> SUFFICES ASSUME IInv, KeptInv, [Next]_vars PROVE KeptInv'
  OBVIOUS
<1> USE UploadOK DEF IInv
<1>0. \A w \in Workers : pc[w] # "idle" =>
        call[w] \in Requests /\ call[w].transfer \in Known /\ call[w].transfer \in Transfers
  BY DEF CallInv, Known
<1>a. view \in [Workers -> States] /\ saved \in [Transfers -> States]
  BY DEF CallInv, DiskInv
<1>1. ASSUME NEW c \in Clients, Start(c) \/ Send(c) PROVE KeptInv'
  BY <1>0, <1>a, <1>1, KeptStill DEF Start, Send, worker
<1>2. ASSUME NEW c \in Clients, TimeOut(c) PROVE KeptInv'
  <2>1. \A w \in Workers : pc[w] # "idle" => call'[w].transfer = call[w].transfer
    BY <1>0, <1>2 DEF TimeOut, Abandoned, Requests
  <2>2. QED BY <1>0, <1>a, <1>2, <2>1, KeptStill DEF TimeOut
<1>3. ASSUME NEW w \in Workers, NEW r \in requests, UploadBegin(w, r) PROVE KeptInv'
  <2>1. CASE UNCHANGED <<saved, temp>>
    BY <1>0, <1>a, <1>3, <2>1, KeptStill DEF UploadBegin, worker, disk
  <2>2. CASE \E x \in Transfers \ Begun(r.from) :
               /\ Owner(x) = r.from
               /\ saved' = [saved EXCEPT ![x] = Created]
               /\ temp' = [temp EXCEPT ![x] = <<>>]
    <3>1. PICK x \in Transfers :
               /\ x \notin Known
               /\ saved' = [saved EXCEPT ![x] = Created]
               /\ temp' = [temp EXCEPT ![x] = <<>>]
      BY <2>2 DEF Begun, Known
    <3>2. UNCHANGED worker /\ Gone' = Gone
      BY <1>3 DEF UploadBegin, Gone
    <3>3. \A y \in Transfers \ {x} : saved'[y] = saved[y] /\ temp'[y] = temp[y]
      BY <3>1 DEF DiskInv
    <3>4. \A f : Keeps(f, 0)
      BY DEF Keeps, Chunks
    <3>5. saved'[x].offset = 0
      BY <1>a, <3>1 DEF Created
    <3>6. \A y \in Transfers \ Gone' : Keeps(temp'[y], saved'[y].offset)
      BY <3>2, <3>3, <3>4, <3>5 DEF KeptInv
    <3>7. \A v \in Workers : pc[v] # "idle" => temp'[call[v].transfer] = temp[call[v].transfer]
      BY <1>0, <3>1, <3>3
    <3>8. QED BY <3>2, <3>6, <3>7 DEF worker, KeptInv
  <2>3. QED BY <1>3, <2>1, <2>2 DEF UploadBegin
<1>4. ASSUME NEW w \in Workers, NEW r \in requests,
             UploadStatus(w, r) \/ UploadChunk(w, r) \/ UploadComplete(w, r)
      PROVE  KeptInv'
  <2>1. UNCHANGED disk
    BY <1>4 DEF UploadStatus, UploadChunk, UploadComplete
  <2>2. CASE UNCHANGED worker
    BY <1>0, <1>a, <2>1, <2>2, KeptStill DEF worker
  <2>3. CASE \E step \in {"append", "verify"} : Hold(w, r, step)
    <3>1. r.transfer \in Transfers /\ pc[w] = "idle"
      BY <1>4, <2>3 DEF UploadStatus, UploadChunk, UploadComplete, Take, RequestInv, Known
    <3>2. PICK step \in {"append", "verify"} :
            /\ pc' = [pc EXCEPT ![w] = step]
            /\ call' = [call EXCEPT ![w] = r]
            /\ view' = [view EXCEPT ![w] = saved[r.transfer]]
      BY <2>3 DEF Hold
    <3>3. QED BY <1>0, <1>a, <2>1, <3>1, <3>2, KeptStill DEF CallInv
  <2>4. QED BY <1>4, <2>2, <2>3 DEF UploadStatus, UploadChunk, UploadComplete
<1>5. ASSUME NEW w \in Workers, ChunkAppend(w) PROVE KeptInv'
  <2>1. PICK x \in Transfers : x = call[w].transfer
    BY <1>0, <1>5 DEF ChunkAppend
  <2> DEFINE n == view[w].offset
             before == IF temp[x] = None THEN <<>> ELSE temp[x]
  <2>2. n \in Chunks /\ call[w].offset = n
    BY <1>5 DEF ChunkAppend, CallInv, States, Offsets, Chunks
  <2>3. temp'[x] = Append(before, n) /\ before \in Seq(Chunks)
    BY <1>5, <2>1, <2>2 DEF ChunkAppend, DiskInv
  <2>4. \A y \in Transfers \ {x} : temp'[y] = temp[y]
    BY <1>5, <2>1 DEF ChunkAppend, DiskInv
  <2>5. /\ temp'[x] # None /\ Len(temp'[x]) = Len(before) + 1
        /\ temp'[x][Len(before) + 1] = n
        /\ \A i \in 1 .. Len(before) : temp'[x][i] = before[i]
    <3> HIDE DEF before, n
    <3>1. Append(before, n) \in Seq(Chunks)
      BY <2>2, <2>3
    <3>2. temp'[x] # None
      BY <2>3, <3>1
    <3>3. /\ Len(Append(before, n)) = Len(before) + 1
          /\ Append(before, n)[Len(before) + 1] = n
          /\ \A i \in 1 .. Len(before) : Append(before, n)[i] = before[i]
      BY <2>2, <2>3
    <3>4. QED BY <2>3, <3>2, <3>3
  <2>6. Len(before) \in Nat
    BY <2>3
  <2>7. ASSUME NEW k \in Chunks, temp[x] # None, \E i \in 1 .. Len(temp[x]) : temp[x][i] = k
        PROVE  \E i \in 1 .. Len(temp'[x]) : temp'[x][i] = k
    <3>1. before = temp[x]
      BY <2>7
    <3>2. PICK i \in 1 .. Len(before) : before[i] = k
      BY <2>7, <3>1
    <3> HIDE DEF before
    <3>3. i \in 1 .. Len(temp'[x]) /\ temp'[x][i] = k
      BY <2>5, <2>6, <3>2
    <3>4. QED BY <3>3
  <2>8. \A m \in Nat : Keeps(temp[x], m) => Keeps(temp'[x], m)
    BY <2>5, <2>7 DEF Keeps
  <2>9. Keeps(temp'[x], n) => Keeps(temp'[x], n + 1)
    <3> SUFFICES ASSUME Keeps(temp'[x], n), NEW k \in Chunks, k < n + 1
                 PROVE  temp'[x] # None /\ \E i \in 1 .. Len(temp'[x]) : temp'[x][i] = k
      BY DEF Keeps
    <3>1. k < n \/ k = n
      BY <2>2 DEF Chunks
    <3>2. CASE k < n
      BY <3>2 DEF Keeps
    <3>3. CASE k = n
      <4> HIDE DEF before, n
      <4>1. Len(before) + 1 \in 1 .. Len(temp'[x])
        BY <2>5, <2>6
      <4>2. QED BY <2>5, <3>3, <4>1
    <3>4. QED BY <3>1, <3>2, <3>3
  <2>10. /\ UNCHANGED <<saved, call, view>> /\ Gone' = Gone
         /\ \A v \in Workers \ {w} : pc'[v] = pc[v]
         /\ pc[w] = "append" /\ pc'[w] = "save_offset"
    BY <1>5 DEF ChunkAppend, Goto, CallInv, Gone
  <2>11. n \in Nat /\ \A y \in Transfers : saved[y].offset \in Nat
    BY <1>a, <2>2 DEF States, Offsets, Chunks
  <2>12. \A y \in Transfers \ Gone' : \A m \in Nat : Keeps(temp[y], m) => Keeps(temp'[y], m)
    BY <2>4, <2>8
  <2>13. \A y \in Transfers \ Gone' : Keeps(temp'[y], saved'[y].offset)
    BY <2>10, <2>11, <2>12 DEF KeptInv
  <2>14. x \notin Gone' => Keeps(temp'[x], view'[w].offset + 1)
    BY <2>1, <2>8, <2>9, <2>10, <2>11 DEF KeptInv
  <2>15. ASSUME NEW v \in Workers, pc'[v] # "idle", call[v].transfer \notin Gone
         PROVE  Keeps(temp'[call[v].transfer], view[v].offset)
    <3>1. pc[v] # "idle" /\ view[v].offset \in Nat
      BY <1>a, <2>10, <2>15 DEF States, Offsets
    <3>2. QED BY <1>0, <2>10, <2>12, <2>15, <3>1 DEF KeptInv
  <2>16. ASSUME NEW v \in Workers, pc'[v] = "save_offset", call[v].transfer \notin Gone
         PROVE  Keeps(temp'[call[v].transfer], view[v].offset + 1)
    <3>1. CASE v = w
      BY <2>1, <2>10, <2>14, <2>16, <3>1
    <3>2. CASE v # w
      <4>1. pc[v] = "save_offset" /\ view[v].offset + 1 \in Nat
        BY <1>a, <2>10, <2>16, <3>2 DEF States, Offsets
      <4>2. QED BY <1>0, <2>10, <2>12, <2>16, <4>1 DEF KeptInv
    <3>3. QED BY <3>1, <3>2
  <2>17. QED BY <2>10, <2>13, <2>15, <2>16 DEF KeptInv
<1>6. ASSUME NEW w \in Workers, ChunkSave(w) PROVE KeptInv'
  <2>1. PICK x \in Transfers : x = call[w].transfer
    BY <1>0, <1>6 DEF ChunkSave
  <2>2. saved'[x].offset = view[w].offset + 1 /\ \A y \in Transfers \ {x} : saved'[y] = saved[y]
    BY <1>6, <2>1 DEF ChunkSave, DiskInv
  <2>3. temp' = temp /\ Gone' = Gone /\ Release(w)
    BY <1>6 DEF ChunkSave, Gone
  <2>4. \A y \in Transfers \ Gone' : Keeps(temp'[y], saved'[y].offset)
    BY <1>6, <2>1, <2>2, <2>3 DEF ChunkSave, KeptInv
  <2>5. \A v \in Workers : pc'[v] # "idle" =>
          pc'[v] = pc[v] /\ view'[v] = view[v] /\ call'[v] = call[v]
    BY <2>3 DEF Release, CallInv
  <2>6. QED BY <2>3, <2>4, <2>5 DEF KeptInv
<1>7. ASSUME NEW w \in Workers, CompleteVerify(w) \/ CompleteCheck(w) PROVE KeptInv'
  <2>1. UNCHANGED <<disk, call, view>> /\ pc[w] # "idle"
        /\ \E step \in {"target_check", "save_failed", "replace"} : pc' = [pc EXCEPT ![w] = step]
    BY <1>7 DEF CompleteVerify, CompleteCheck, Goto
  <2>2. \A v \in Workers : pc'[v] # "idle" =>
          pc[v] # "idle" /\ (pc'[v] = "save_offset" => pc[v] = "save_offset")
    BY <2>1 DEF CallInv
  <2>3. QED BY <1>0, <1>a, <2>1, <2>2, KeptStill
<1>8. ASSUME NEW w \in Workers, CompleteReplace(w) PROVE KeptInv'
  <2>1. PICK x \in Transfers : x = call[w].transfer
    BY <1>0, <1>8 DEF CompleteReplace
  <2>2. /\ UNCHANGED <<saved, call, view>> /\ x \in Gone' /\ Gone \subseteq Gone'
        /\ \A y \in Transfers \ {x} : temp'[y] = temp[y]
        /\ pc[w] # "idle" /\ \A v \in Workers \ {w} : pc'[v] = pc[v]
        /\ pc'[w] = "save_completed"
    BY <1>8, <2>1 DEF CompleteReplace, Goto, DiskInv, CallInv, Gone
  <2>3. \A y \in Transfers \ Gone' : temp'[y] = temp[y] /\ Keeps(temp'[y], saved'[y].offset)
    BY <2>2 DEF KeptInv
  <2>4. \A v \in Workers : pc'[v] # "idle" =>
          pc[v] # "idle" /\ (pc'[v] = "save_offset" => pc[v] = "save_offset")
    BY <2>2
  <2>5. QED BY <1>0, <1>a, <2>2, <2>3, <2>4, KeptGrows
<1>9. ASSUME NEW w \in Workers, CompleteSave(w) \/ FailSave(w) PROVE KeptInv'
  <2>1. PICK x \in Transfers : x = call[w].transfer
    BY <1>0, <1>9 DEF CompleteSave, FailSave
  <2>2. saved'[x].offset = view[w].offset /\ \A y \in Transfers \ {x} : saved'[y] = saved[y]
    BY <1>9, <2>1 DEF CompleteSave, FailSave, DiskInv, CallInv, States
  <2>3. temp' = temp /\ Gone' = Gone /\ pc[w] # "idle"
    BY <1>9 DEF CompleteSave, FailSave, Gone
  <2>4. \A y \in Transfers \ Gone' : Keeps(temp'[y], saved'[y].offset)
    BY <2>1, <2>2, <2>3 DEF KeptInv
  <2>5. \A v \in Workers : pc'[v] # "idle" =>
          /\ pc[v] # "idle" /\ (pc'[v] = "save_offset" => pc[v] = "save_offset")
          /\ view'[v] = view[v] /\ call'[v] = call[v]
    BY <1>9 DEF CompleteSave, FailSave, Release, Goto, CallInv
  <2>6. QED BY <2>3, <2>4, <2>5 DEF KeptInv
<1>10. ASSUME NEW w \in Workers, FailUnlink(w) PROVE KeptInv'
  <2>1. PICK x \in Transfers : x = call[w].transfer
    BY <1>0, <1>10 DEF FailUnlink
  <2>2. /\ UNCHANGED saved /\ x \in Gone' /\ Gone \subseteq Gone'
        /\ \A y \in Transfers \ {x} : temp'[y] = temp[y]
        /\ Release(w)
    BY <1>10, <2>1 DEF FailUnlink, DiskInv, Gone
  <2>3. \A y \in Transfers \ Gone' : temp'[y] = temp[y] /\ Keeps(temp'[y], saved'[y].offset)
    BY <2>2 DEF KeptInv
  <2>4. \A v \in Workers : pc'[v] # "idle" =>
          pc'[v] = pc[v] /\ view'[v] = view[v] /\ call'[v] = call[v]
    BY <2>2 DEF Release, CallInv
  <2>5. QED BY <1>0, <1>a, <2>2, <2>3, <2>4, KeptGrows
<1>11. ASSUME NEW w \in Workers, CompleteRaise(w) \/ Break(w) PROVE KeptInv'
  <2>1. UNCHANGED disk /\ Release(w)
    BY <1>11 DEF CompleteRaise, Break
  <2>2. \A v \in Workers : pc'[v] # "idle" =>
          pc'[v] = pc[v] /\ view'[v] = view[v] /\ call'[v] = call[v]
    BY <2>1 DEF Release, CallInv
  <2>3. QED BY <1>0, <1>a, <2>1, <2>2, KeptStill
<1>12. CASE UNCHANGED vars
  BY <1>0, <1>a, <1>12, KeptStill DEF vars, worker
<1>13. QED
  BY <1>1, <1>2, <1>3, <1>4, <1>5, <1>6, <1>7, <1>8, <1>9, <1>10, <1>11, <1>12
     DEF Next, Accept, Work

\* The saved offset, at which upload_status makes a client resume, never claims a
\* chunk the file does not have: not with any number of calls at a time that save
\* what they loaded earlier, and not when calls end between the append and the save.
THEOREM AcknowledgedChunksKept == Spec => []AcknowledgedKept
<1>1. Init => IInv /\ KeptInv
  BY IInvInit, KeptInit
<1>2. IInv /\ KeptInv /\ [Next]_vars => (IInv /\ KeptInv)'
  BY IInvNext, KeptNext
<1>3. KeptInv => AcknowledgedKept
  BY DEF KeptInv, Keeps, Gone, AcknowledgedKept
<1>4. QED BY <1>1, <1>2, <1>3, PTL DEF Spec

===============================================================================
