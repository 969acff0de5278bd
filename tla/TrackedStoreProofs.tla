--------------------------- MODULE TrackedStoreProofs ---------------------------
(***************************************************************************)
(* Theorems about DatasetStore and about the ProgressTracker that it       *)
(* reports to, for any workers, operations, targets and sizes.             *)
(*                                                                         *)
(* DatasetStore: only calls of one operation ever share a transfer, and a  *)
(* path holds a whole dataset unless two such calls used its transfer at   *)
(* once; and a call that is alone with its target and operation stores     *)
(* what it was given, or fails for a cause that is listed, because its     *)
(* transfer holds exactly the blocks it has reported.                      *)
(*                                                                         *)
(* ProgressTracker: one step does one thing to one record, so the work is  *)
(* in lemmas about the record operators: each keeps the record well        *)
(* formed, moves no counter back, leaves a terminal record alone and never *)
(* runs the active clock of a paused or ended operation.                   *)
(***************************************************************************)
EXTENDS DatasetStore, ProgressTracker, TLAPS

Checkpoints ==
  [op : Ops, xfer : Transfers, content : Contents, validator : Validators \cup {None},
   offset : Nat, status : {"partial", "failed"}]
Places == {"idle", "measure", "prepare", "begin", "mark", "chunk", "append", "save", "follow",
           "check", "replace", "complete", "manifest", "unlink", "finish", "handle",
           "returned", "raised", "dead"}

TypeInv ==
  /\ DOMAIN target = Targets /\ DOMAIN temp = Transfers /\ DOMAIN origin = Targets
  /\ checkpoint \in [Targets -> Checkpoints \cup {None}]
  /\ saved \in [Transfers -> TransferStates \cup {None}]
  /\ pc \in [Workers -> Places]
  /\ job \in [Workers -> Jobs \cup {None}]
  /\ xfer \in [Workers -> Transfers \cup {None}]
  /\ at \in [Workers -> Nat]
  /\ view \in [Workers -> TransferStates \cup {None}]
  /\ ckpt \in [Workers -> Checkpoints \cup {None}]

\* What a worker's place says of its variables.
PlaceInv ==
  \A w \in Workers :
    /\ pc[w] # "idle" => job[w] \in Jobs
    /\ pc[w] \in {"idle", "measure", "prepare", "begin"} => xfer[w] = None /\ ckpt[w] = None
    /\ pc[w] \in {"mark", "chunk", "append", "save", "follow", "check", "replace", "complete"} =>
         xfer[w] \in Transfers
    /\ pc[w] \in {"append", "save", "check", "replace", "complete"} => view[w] \in TransferStates
    /\ ckpt[w] # None \/ pc[w] \in {"chunk", "append", "save", "follow"} =>
         ckpt[w] \in Checkpoints /\ ckpt[w].xfer = xfer[w] /\ ckpt[w].op = job[w].op

\* A transfer belongs to one operation.
OwnerInv ==
  /\ \A v, w \in Workers : xfer[v] # None /\ xfer[v] = xfer[w] => job[v].op = job[w].op
  /\ \A t \in Targets, w \in Workers :
       checkpoint[t] # None /\ checkpoint[t].xfer = xfer[w] => checkpoint[t].op = job[w].op
  /\ \A t, u \in Targets :
       checkpoint[t] # None /\ checkpoint[u] # None /\ checkpoint[t].xfer = checkpoint[u].xfer =>
         checkpoint[t].op = checkpoint[u].op

\* Two calls that upload to one transfer are known to overlap.
OverlapInv ==
  \A v, w \in Workers :
    Uploading(v) /\ Uploading(w) /\ v # w /\ xfer[v] = xfer[w] => xfer[w] \in overlapped

\* What has been verified stays whole until it is published, or is discarded, unless
\* another call appends to it.
VerifiedInv ==
  \A w \in Workers :
    pc[w] \in {"check", "replace"} =>
      \/ temp[xfer[w]] = None
      \/ \E c \in Contents : temp[xfer[w]] = Whole(c)
      \/ xfer[w] \in overlapped

SharedInv == OverlapInv /\ VerifiedInv /\ PublishedWhole

IInv == TypeInv /\ PlaceInv /\ OwnerInv /\ SharedInv

\* A step that leaves the transfers alone, and brings no call to its upload.
LEMMA SharedStays ==
  ASSUME SharedInv, TypeInv, UNCHANGED <<target, temp, xfer, origin, overlapped>>,
         \A v \in Workers : Uploading(v)' => Uploading(v),
         \A v \in Workers : pc'[v] \in {"check", "replace"} => pc[v] \in {"check", "replace"}
  PROVE  SharedInv'
<1>1. OverlapInv'
  BY DEF SharedInv, OverlapInv
<1>2. VerifiedInv'
  BY DEF SharedInv, VerifiedInv, Whole, Block
<1>3. PublishedWhole'
  BY DEF SharedInv, PublishedWhole, Whole, Block
<1>. QED
  BY <1>1, <1>2, <1>3 DEF SharedInv

\* A checkpoint that moves on, or is marked, stays one of its transfer and operation.
LEMMA CheckpointMoves ==
  ASSUME NEW c \in Checkpoints, NEW n \in Nat, NEW s \in {"partial", "failed"}
  PROVE  /\ [c EXCEPT !.offset = n] \in Checkpoints
         /\ [c EXCEPT !.offset = n, !.status = s] \in Checkpoints
         /\ [c EXCEPT !.status = s] \in Checkpoints
BY DEF Checkpoints

LEMMA StateMoves ==
  ASSUME NEW state \in TransferStates, NEW n \in Nat, NEW s \in {"failed", "completed"}
  PROVE  /\ [state EXCEPT !.offset = n] \in TransferStates
         /\ [state EXCEPT !.status = s] \in TransferStates
BY DEF TransferStates

LEMMA InitInv == ASSUME Init PROVE IInv
BY StoreAssumption DEF Init, IInv, TypeInv, PlaceInv, OwnerInv, SharedInv, OverlapInv, VerifiedInv,
   PublishedWhole, Places, Uploading

LEMMA NoneApart ==
  Size \in Nat /\ None \notin Ops \cup Transfers \cup Contents \cup Validators
BY StoreAssumption

LEMMA NextInv ==
  ASSUME IInv, [Next]_vars PROVE IInv'
<1> USE NoneApart DEF IInv, TypeInv, PlaceInv, OwnerInv, Goto, Active, Uploading, Places, disk,
   calls, history, Jobs
<1>1. ASSUME NEW w \in Workers, NEW j \in Jobs, Start(w, j) PROVE IInv'
  <2>1. /\ pc[w] = "idle" /\ job' = [job EXCEPT ![w] = j]
        /\ \E l \in {"measure", "handle"} : pc' = [pc EXCEPT ![w] = l]
        /\ UNCHANGED <<disk, xfer, at, view, ckpt, origin, overlapped>>
    BY <1>1 DEF Start
  <2>2. TypeInv' /\ PlaceInv'
    BY <2>1
  <2>3. OwnerInv'
    BY <2>1 DEF Checkpoints
  <2>. QED
    BY <2>1, <2>2, <2>3 DEF SharedInv, OverlapInv, VerifiedInv, PublishedWhole
<1>2. ASSUME NEW w \in Workers, Measure(w) PROVE IInv'
  <2>1. TypeInv' /\ PlaceInv'
    BY <1>2 DEF Measure, Report
  <2>2. OwnerInv'
    BY <1>2 DEF Measure, Report
  <2>3. SharedInv'
    BY <1>2, SharedStays DEF Measure, Report
  <2>. QED
    BY <2>1, <2>2, <2>3
<1>3. ASSUME NEW w \in Workers, ResumeTransfer(w) PROVE IInv'
  <2>1. PICK t \in Targets : t = job[w].target
    BY <1>3 DEF ResumeTransfer
  <2> DEFINE c == checkpoint[t]
             n == saved[c.xfer].offset
             again == [c EXCEPT !.offset = n, !.status = "partial"]
  <2>2. /\ pc[w] = "prepare" /\ c \in Checkpoints /\ c # None /\ c.op = job[w].op
        /\ UNCHANGED <<target, saved, temp, origin, job, view>>
    BY <1>3, <2>1 DEF ResumeTransfer, Matches, FindsCheckpoint
  <2>3. \/ /\ pc' = [pc EXCEPT ![w] = "handle"]
           /\ UNCHANGED <<checkpoint, ckpt, xfer, at, overlapped>>
        \/ /\ saved[c.xfer] # None
           /\ checkpoint' = [checkpoint EXCEPT ![t] = again]
           /\ \/ /\ pc' = [pc EXCEPT ![w] = "handle"]
                 /\ UNCHANGED <<ckpt, xfer, at, overlapped>>
              \/ /\ pc' = [pc EXCEPT ![w] = "chunk"]
                 /\ ckpt' = [ckpt EXCEPT ![w] = again]
                 /\ xfer' = [xfer EXCEPT ![w] = c.xfer]
                 /\ at' = [at EXCEPT ![w] = again.offset]
                 /\ overlapped' = overlapped \cup
                      {x \in {c.xfer} : \E v \in Workers : Uploading(v) /\ xfer[v] = x}
    BY <1>3, <2>1 DEF ResumeTransfer, Report
  <2>4. CASE UNCHANGED <<checkpoint, ckpt, xfer, at, overlapped>> /\ pc' = [pc EXCEPT ![w] = "handle"]
    BY <2>2, <2>4 DEF SharedInv, OverlapInv, VerifiedInv, PublishedWhole
  <2>5. CASE /\ saved[c.xfer] # None
             /\ checkpoint' = [checkpoint EXCEPT ![t] = again]
             /\ \/ /\ pc' = [pc EXCEPT ![w] = "handle"]
                   /\ UNCHANGED <<ckpt, xfer, at, overlapped>>
                \/ /\ pc' = [pc EXCEPT ![w] = "chunk"]
                   /\ ckpt' = [ckpt EXCEPT ![w] = again]
                   /\ xfer' = [xfer EXCEPT ![w] = c.xfer]
                   /\ at' = [at EXCEPT ![w] = again.offset]
                   /\ overlapped' = overlapped \cup
                        {x \in {c.xfer} : \E v \in Workers : Uploading(v) /\ xfer[v] = x}
    <3>1. c.xfer \in Transfers /\ n \in Nat
      BY <2>2, <2>5 DEF Checkpoints, TransferStates
    <3>2. again \in Checkpoints
      BY <2>2, <3>1, CheckpointMoves
    <3>3. again.xfer = c.xfer /\ again.op = c.op /\ again.offset = n
      BY <2>2 DEF Checkpoints
    <3> HIDE DEF again, n
    <3>4. \A u \in Targets :
            checkpoint'[u] # None =>
              \E t0 \in Targets : /\ checkpoint[t0] # None
                               /\ checkpoint'[u].xfer = checkpoint[t0].xfer
                               /\ checkpoint'[u].op = checkpoint[t0].op
      BY <2>2, <2>5, <3>3
    <3>5. checkpoint' \in [Targets -> Checkpoints \cup {None}]
      BY <2>5, <3>2
    <3>6. CASE pc' = [pc EXCEPT ![w] = "handle"] /\ UNCHANGED <<ckpt, xfer, at, overlapped>>
      <4>1. TypeInv' /\ PlaceInv'
        BY <2>2, <3>5, <3>6
      <4>2. \A u \in Targets, v \in Workers :
              checkpoint'[u] # None /\ checkpoint'[u].xfer = xfer'[v] => checkpoint'[u].op = job'[v].op
        BY <2>2, <3>4, <3>6
      <4>3. OwnerInv'
        BY <2>2, <3>4, <3>6, <4>2
      <4>4. SharedInv'
        BY <2>2, <3>6, SharedStays
      <4>. QED
        BY <4>1, <4>3, <4>4
    <3>7. CASE /\ pc' = [pc EXCEPT ![w] = "chunk"]
               /\ ckpt' = [ckpt EXCEPT ![w] = again]
               /\ xfer' = [xfer EXCEPT ![w] = c.xfer]
               /\ at' = [at EXCEPT ![w] = again.offset]
               /\ overlapped' = overlapped \cup
                    {x \in {c.xfer} : \E v \in Workers : Uploading(v) /\ xfer[v] = x}
      <4>1. TypeInv'
        BY <2>2, <3>1, <3>2, <3>3, <3>5, <3>7
      <4>2. PlaceInv'
        BY <2>2, <3>1, <3>2, <3>3, <3>7
      <4>3. \A v, u \in Workers : xfer'[v] # None /\ xfer'[v] = xfer'[u] => job'[v].op = job'[u].op
        BY <2>2, <3>1, <3>7
      <4>4. \A u \in Targets, v \in Workers :
              checkpoint'[u] # None /\ checkpoint'[u].xfer = xfer'[v] => checkpoint'[u].op = job'[v].op
        BY <2>2, <3>1, <3>4, <3>7
      <4>5. OwnerInv'
        BY <2>2, <3>4, <3>7, <4>3, <4>4
      <4>6. OverlapInv'
        BY <2>2, <3>1, <3>7 DEF SharedInv, OverlapInv
      <4>7. VerifiedInv' /\ PublishedWhole'
        BY <2>2, <3>7 DEF SharedInv, VerifiedInv, PublishedWhole
      <4>. QED
        BY <4>1, <4>2, <4>5, <4>6, <4>7 DEF SharedInv
    <3>. QED
      BY <2>5, <3>6, <3>7
  <2>. QED
    BY <2>3, <2>4, <2>5
<1>4. ASSUME NEW w \in Workers, DiscardStale(w) PROVE IInv'
  <2>1. PICK t \in Targets : t = job[w].target
    BY <1>4 DEF DiscardStale
  <2>2. /\ pc[w] = "prepare" /\ checkpoint[t] # None
        /\ \E l \in {"begin", "handle"} : pc' = [pc EXCEPT ![w] = l]
        /\ checkpoint' = [checkpoint EXCEPT ![t] = None]
        /\ UNCHANGED <<target, origin, overlapped, job, xfer, at, view, ckpt>>
    BY <1>4, <2>1 DEF DiscardStale, Report, FindsCheckpoint
  <2>3. PICK x \in Transfers : Discard(x)
    BY <1>4, <2>1, <2>2 DEF DiscardStale, Checkpoints
  <2>4. TypeInv' /\ PlaceInv'
    BY <2>2, <2>3 DEF Discard
  <2>5. OwnerInv'
    BY <2>2
  <2>. QED
    BY <2>2, <2>3, <2>4, <2>5 DEF Discard, SharedInv, OverlapInv, VerifiedInv, PublishedWhole
<1>5. ASSUME NEW w \in Workers, BeginTransfer(w) PROVE IInv'
  <2>1. CASE pc' = [pc EXCEPT ![w] = "handle"] /\ UNCHANGED <<saved, temp, xfer>>
    BY <1>5, <2>1, SharedStays DEF BeginTransfer
  <2>2. ASSUME NEW x \in Transfers, NEW state \in TransferStates,
               \A v \in Workers : xfer[v] # x,
               \A t \in Targets : checkpoint[t] # None => checkpoint[t].xfer # x,
               saved' = [saved EXCEPT ![x] = state],
               temp' = [temp EXCEPT ![x] = <<>>],
               xfer' = [xfer EXCEPT ![w] = x],
               pc' = [pc EXCEPT ![w] = "mark"]
        PROVE  IInv'
    <3>1. pc[w] \in {"prepare", "begin"} /\ UNCHANGED <<target, checkpoint, origin, overlapped, job, at, view, ckpt>>
      BY <1>5 DEF BeginTransfer
    <3>2. TypeInv' /\ PlaceInv'
      BY <2>2, <3>1
    <3>3. OwnerInv'
      BY <2>2, <3>1
    <3>. QED
      BY <2>2, <3>1, <3>2, <3>3 DEF SharedInv, OverlapInv, VerifiedInv, PublishedWhole
  <2>3. \/ pc' = [pc EXCEPT ![w] = "handle"] /\ UNCHANGED <<saved, temp, xfer>>
        \/ \E x \in Transfers :
             /\ \A v \in Workers : xfer[v] # x
             /\ \A t \in Targets : checkpoint[t] # None => checkpoint[t].xfer # x
             /\ saved' = [saved EXCEPT ![x] =
                  [content |-> job[w].content, target |-> job[w].target,
                   overwrite |-> job[w].overwrite, offset |-> 0, status |-> "created"]]
             /\ temp' = [temp EXCEPT ![x] = <<>>]
             /\ xfer' = [xfer EXCEPT ![w] = x]
             /\ pc' = [pc EXCEPT ![w] = "mark"]
    BY <1>5 DEF BeginTransfer
  <2>4. job[w] \in Jobs
    BY <1>5 DEF BeginTransfer
  <2>5. [content |-> job[w].content, target |-> job[w].target,
         overwrite |-> job[w].overwrite, offset |-> 0, status |-> "created"] \in TransferStates
    BY <2>4 DEF TransferStates
  <2>. QED
    BY <2>1, <2>2, <2>3, <2>5
<1>6. ASSUME NEW w \in Workers, MarkTransfer(w) PROVE IInv'
  <2>1. TypeInv' /\ PlaceInv'
    BY <1>6 DEF MarkTransfer, TransferCheckpoint, Checkpoints
  <2>2. OwnerInv'
    BY <1>6 DEF MarkTransfer, TransferCheckpoint, Checkpoints
  <2>3. SharedInv'
    BY <1>6, SharedStays DEF MarkTransfer, TransferCheckpoint, Checkpoints
  <2>. QED
    BY <2>1, <2>2, <2>3
<1>7. ASSUME NEW w \in Workers, LoadChunk(w) PROVE IInv'
  <2>1. /\ pc[w] = "chunk" /\ UNCHANGED <<disk, origin, overlapped, job, xfer, at, ckpt>>
        /\ \/ UNCHANGED view /\ pc' = [pc EXCEPT ![w] = "handle"]
           \/ /\ saved[xfer[w]] # None
              /\ view' = [view EXCEPT ![w] = saved[xfer[w]]]
              /\ pc' = [pc EXCEPT ![w] = "append"]
    BY <1>7 DEF LoadChunk
  <2>2. saved[xfer[w]] # None => saved[xfer[w]] \in TransferStates
    BY <2>1
  <2>3. TypeInv'
    BY <2>1, <2>2
  <2>4. PlaceInv'
    <3>1. CASE UNCHANGED view /\ pc' = [pc EXCEPT ![w] = "handle"]
      BY <2>1, <3>1
    <3>2. CASE pc' = [pc EXCEPT ![w] = "append"]
      BY <2>1, <2>2, <3>2
    <3>. QED
      BY <2>1, <3>1, <3>2
  <2>5. OwnerInv'
    <3>1. \E l \in {"handle", "append"} : pc' = [pc EXCEPT ![w] = l]
      BY <2>1
    <3>. QED
      BY <2>1, <3>1
  <2>. QED
    BY <2>1, <2>3, <2>4, <2>5, SMTT(30) DEF SharedInv, OverlapInv, VerifiedInv, PublishedWhole
<1>8. ASSUME NEW w \in Workers, AppendChunk(w) PROVE IInv'
  <2>1. /\ pc[w] = "append" /\ pc' = [pc EXCEPT ![w] = "save"]
        /\ \A x \in Transfers : x # xfer[w] => temp'[x] = temp[x]
        /\ DOMAIN temp' = Transfers
        /\ UNCHANGED <<target, checkpoint, saved, origin, overlapped, job, xfer, at, view, ckpt>>
    BY <1>8 DEF AppendChunk
  <2>2. TypeInv' /\ PlaceInv'
    BY <2>1
  <2>3. OwnerInv'
    BY <2>1
  <2>4. VerifiedInv'
    <3> SUFFICES ASSUME NEW v \in Workers, pc'[v] \in {"check", "replace"}
                 PROVE  temp'[xfer[v]] = temp[xfer[v]] \/ xfer[v] \in overlapped
      BY <2>1 DEF SharedInv, VerifiedInv
    <3>1. v # w /\ pc[v] = pc'[v]
      BY <2>1
    <3>2. xfer[v] \in Transfers /\ xfer[w] \in Transfers
      BY <2>1, <3>1
    <3>3. CASE xfer[v] = xfer[w]
      BY <2>1, <3>1, <3>3 DEF SharedInv, OverlapInv
    <3>4. CASE xfer[v] # xfer[w]
      BY <2>1, <3>2, <3>4
    <3>. QED
      BY <3>3, <3>4
  <2>. QED
    BY <2>1, <2>2, <2>3, <2>4 DEF SharedInv, OverlapInv, PublishedWhole
<1>9. ASSUME NEW w \in Workers, SaveChunk(w) PROVE IInv'
  <2>1. /\ pc[w] = "save" /\ pc' = [pc EXCEPT ![w] = "follow"]
        /\ at' = [at EXCEPT ![w] = at[w] + 1]
        /\ saved' = [saved EXCEPT ![xfer[w]] = [view[w] EXCEPT !.offset = at[w] + 1]]
        /\ UNCHANGED <<target, checkpoint, temp, origin, overlapped, job, xfer, view, ckpt>>
    BY <1>9 DEF SaveChunk
  <2>2. [view[w] EXCEPT !.offset = at[w] + 1] \in TransferStates
    <3>1. view[w] \in TransferStates /\ at[w] + 1 \in Nat
      BY <2>1
    <3>. QED
      BY <3>1, StateMoves
  <2>3. TypeInv' /\ PlaceInv'
    BY <2>1, <2>2
  <2>4. OwnerInv'
    BY <2>1
  <2>. QED
    BY <2>1, <2>3, <2>4 DEF SharedInv, OverlapInv, VerifiedInv, PublishedWhole
<1>10. ASSUME NEW w \in Workers, FollowChunk(w) PROVE IInv'
  <2>1. PICK t \in Targets : t = job[w].target
    BY <1>10 DEF FollowChunk
  <2> DEFINE n == at[w]
             c == [ckpt[w] EXCEPT !.offset = n]
  <2>2. /\ pc[w] = "follow" /\ checkpoint' = [checkpoint EXCEPT ![t] = c]
        /\ \E l \in {"chunk", "handle"} : pc' = [pc EXCEPT ![w] = l]
        /\ UNCHANGED <<target, saved, temp, origin, overlapped, job, xfer, at, view, ckpt>>
    BY <1>10, <2>1 DEF FollowChunk, Report
  <2>3. ckpt[w] \in Checkpoints /\ n \in Nat /\ xfer[w] \in Transfers
    BY <2>2
  <2>4. c \in Checkpoints
    BY <2>3, CheckpointMoves
  <2>5. c.xfer = ckpt[w].xfer /\ c.op = ckpt[w].op
    BY <2>3 DEF Checkpoints
  <2> HIDE DEF c, n
  <2>6. TypeInv' /\ PlaceInv'
    BY <2>2, <2>4
  <2>7. c.xfer = xfer[w] /\ c.op = job[w].op
    BY <2>2, <2>5
  <2>8. OwnerInv'
    BY <2>2, <2>4, <2>7
  <2>. QED
    BY <2>2, <2>6, <2>8 DEF SharedInv, OverlapInv, VerifiedInv, PublishedWhole
<1>11. ASSUME NEW w \in Workers, Verify(w) PROVE IInv'
  <2>1. /\ pc[w] = "chunk" /\ UNCHANGED <<target, checkpoint, origin, overlapped, job, xfer, at, ckpt>>
        /\ \/ /\ \E l \in {"manifest", "handle"} : pc' = [pc EXCEPT ![w] = l]
              /\ UNCHANGED <<saved, temp, view>>
           \/ /\ saved[xfer[w]] # None /\ Verified(w)
              /\ view' = [view EXCEPT ![w] = saved[xfer[w]]]
              /\ pc' = [pc EXCEPT ![w] = "check"]
              /\ UNCHANGED <<saved, temp>>
           \/ /\ saved[xfer[w]] # None
              /\ saved' = [saved EXCEPT ![xfer[w]] = [saved[xfer[w]] EXCEPT !.status = "failed"]]
              /\ temp' = [temp EXCEPT ![xfer[w]] = None]
              /\ pc' = [pc EXCEPT ![w] = "handle"]
              /\ UNCHANGED view
    BY <1>11 DEF Verify
  <2>2. CASE /\ \E l \in {"manifest", "handle"} : pc' = [pc EXCEPT ![w] = l]
             /\ UNCHANGED <<saved, temp, view>>
    <3>1. TypeInv' /\ PlaceInv'
      BY <2>1, <2>2
    <3>2. OwnerInv'
      BY <2>1, <2>2
    <3>. QED
      BY <2>1, <2>2, <3>1, <3>2 DEF SharedInv, OverlapInv, VerifiedInv, PublishedWhole
  <2>3. CASE /\ saved[xfer[w]] # None /\ Verified(w)
             /\ view' = [view EXCEPT ![w] = saved[xfer[w]]]
             /\ pc' = [pc EXCEPT ![w] = "check"]
             /\ UNCHANGED <<saved, temp>>
    <3>1. saved[xfer[w]] \in TransferStates
      BY <2>1, <2>3
    <3>2. TypeInv' /\ PlaceInv'
      BY <2>1, <2>3, <3>1
    <3>3. OwnerInv'
      BY <2>1, <2>3
    <3>4. \E c \in Contents : temp[xfer[w]] = Whole(c)
      BY <2>3, <3>1 DEF Verified, TransferStates
    <3>. QED
      BY <2>1, <2>3, <3>2, <3>3, <3>4 DEF SharedInv, OverlapInv, VerifiedInv, PublishedWhole
  <2>4. CASE /\ saved[xfer[w]] # None
             /\ saved' = [saved EXCEPT ![xfer[w]] = [saved[xfer[w]] EXCEPT !.status = "failed"]]
             /\ temp' = [temp EXCEPT ![xfer[w]] = None]
             /\ pc' = [pc EXCEPT ![w] = "handle"]
             /\ UNCHANGED view
    <3>1. [saved[xfer[w]] EXCEPT !.status = "failed"] \in TransferStates
      <4>1. saved[xfer[w]] \in TransferStates
        BY <2>1, <2>4
      <4>. QED
        BY <4>1, StateMoves
    <3>2. TypeInv' /\ PlaceInv'
      BY <2>1, <2>4, <3>1
    <3>3. OwnerInv'
      BY <2>1, <2>4
    <3>. QED
      BY <2>1, <2>4, <3>2, <3>3 DEF SharedInv, OverlapInv, VerifiedInv, PublishedWhole
  <2>. QED
    BY <2>1, <2>2, <2>3, <2>4
<1>12. ASSUME NEW w \in Workers, CheckTarget(w) PROVE IInv'
  <2>1. TypeInv' /\ PlaceInv'
    BY <1>12 DEF CheckTarget
  <2>2. OwnerInv'
    BY <1>12 DEF CheckTarget
  <2>3. SharedInv'
    BY <1>12, SharedStays DEF CheckTarget
  <2>. QED
    BY <2>1, <2>2, <2>3
<1>13. ASSUME NEW w \in Workers, Replace(w) PROVE IInv'
  <2>1. /\ pc[w] = "replace" /\ UNCHANGED <<checkpoint, saved, overlapped, job, xfer, at, view, ckpt>>
        /\ \E l \in {"handle", "complete"} : pc' = [pc EXCEPT ![w] = l]
        /\ \/ UNCHANGED <<target, temp, origin>>
           \/ /\ temp[xfer[w]] # None
              /\ target' = [target EXCEPT ![view[w].target] = temp[xfer[w]]]
              /\ origin' = [origin EXCEPT ![view[w].target] = xfer[w]]
              /\ temp' = [temp EXCEPT ![xfer[w]] = None]
    BY <1>13 DEF Replace
  <2>2. TypeInv' /\ PlaceInv'
    BY <2>1
  <2>3. OwnerInv'
    BY <2>1
  <2>4. OverlapInv' /\ VerifiedInv'
    BY <2>1 DEF SharedInv, OverlapInv, VerifiedInv
  <2>5. PublishedWhole'
    BY <2>1 DEF SharedInv, VerifiedInv, PublishedWhole
  <2>. QED
    BY <2>2, <2>3, <2>4, <2>5 DEF SharedInv
<1>14. ASSUME NEW w \in Workers, SaveCompleted(w) PROVE IInv'
  <2>1. TypeInv' /\ PlaceInv'
    BY <1>14 DEF SaveCompleted, TransferStates
  <2>2. OwnerInv'
    BY <1>14 DEF SaveCompleted, TransferStates
  <2>3. SharedInv'
    BY <1>14, SharedStays DEF SaveCompleted, TransferStates
  <2>. QED
    BY <2>1, <2>2, <2>3
<1>15. ASSUME NEW w \in Workers, WriteManifest(w) PROVE IInv'
  <2>1. TypeInv' /\ PlaceInv'
    BY <1>15 DEF WriteManifest
  <2>2. OwnerInv'
    BY <1>15 DEF WriteManifest
  <2>3. SharedInv'
    BY <1>15, SharedStays DEF WriteManifest
  <2>. QED
    BY <2>1, <2>2, <2>3
<1>16. ASSUME NEW w \in Workers, UnlinkCheckpoint(w) PROVE IInv'
  <2>1. TypeInv' /\ PlaceInv'
    BY <1>16 DEF UnlinkCheckpoint, Unlinked
  <2>2. OwnerInv'
    BY <1>16 DEF UnlinkCheckpoint, Unlinked
  <2>3. SharedInv'
    BY <1>16, SharedStays DEF UnlinkCheckpoint, Unlinked
  <2>. QED
    BY <2>1, <2>2, <2>3
<1>17. ASSUME NEW w \in Workers, Finish(w) PROVE IInv'
  <2>1. TypeInv' /\ PlaceInv'
    BY <1>17 DEF Finish
  <2>2. OwnerInv'
    BY <1>17 DEF Finish
  <2>3. SharedInv'
    BY <1>17, SharedStays DEF Finish
  <2>. QED
    BY <2>1, <2>2, <2>3
<1>18. ASSUME NEW w \in Workers, HandleFailure(w) PROVE IInv'
  <2>1. PICK t \in Targets : t = job[w].target
    BY <1>18 DEF HandleFailure
  <2> DEFINE c == [ckpt[w] EXCEPT !.status = "failed"]
  <2>2. /\ pc[w] = "handle" /\ pc' = [pc EXCEPT ![w] = "raised"]
        /\ UNCHANGED <<target, origin, overlapped, job, xfer, at, view, ckpt>>
        /\ \/ UNCHANGED <<checkpoint, saved, temp>>
           \/ /\ ckpt[w] # None /\ checkpoint' = [checkpoint EXCEPT ![t] = c]
              /\ UNCHANGED <<saved, temp>>
           \/ /\ ckpt[w] # None /\ Discard(ckpt[w].xfer)
              /\ checkpoint' = [checkpoint EXCEPT ![t] = None]
    BY <1>18, <2>1 DEF HandleFailure
  <2>3. ckpt[w] # None =>
          /\ c \in Checkpoints /\ c.xfer = xfer[w] /\ c.op = job[w].op
          /\ ckpt[w].xfer \in Transfers
    <3>1. ckpt[w] # None => ckpt[w] \in Checkpoints /\ ckpt[w].xfer = xfer[w] /\ ckpt[w].op = job[w].op
      BY <2>2
    <3>. QED
      BY <3>1, CheckpointMoves DEF Checkpoints
  <2> HIDE DEF c
  <2>4. TypeInv' /\ PlaceInv'
    <3>1. checkpoint' \in [Targets -> Checkpoints \cup {None}]
      BY <2>2, <2>3
    <3>2. DOMAIN temp' = Transfers /\ saved' \in [Transfers -> TransferStates \cup {None}]
      BY <2>2 DEF Discard
    <3>3. pc' \in [Workers -> Places]
      BY <2>2
    <3>4. PlaceInv'
      BY <2>2
    <3>. QED
      BY <2>2, <3>1, <3>2, <3>3, <3>4
  <2>5. OwnerInv'
    <3>1. CASE UNCHANGED checkpoint
      BY <2>2, <3>1
    <3>2. CASE ckpt[w] # None /\ checkpoint' = [checkpoint EXCEPT ![t] = c]
      BY <2>2, <2>3, <3>2
    <3>3. CASE checkpoint' = [checkpoint EXCEPT ![t] = None]
      BY <2>2, <3>3
    <3>. QED
      BY <2>2, <3>1, <3>2, <3>3
  <2>. QED
    BY <2>2, <2>3, <2>4, <2>5 DEF Discard, SharedInv, OverlapInv, VerifiedInv, PublishedWhole
<1>19. ASSUME NEW w \in Workers, Fault(w) PROVE IInv'
  <2>1. TypeInv' /\ PlaceInv'
    BY <1>19 DEF Fault
  <2>2. OwnerInv'
    BY <1>19 DEF Fault
  <2>3. SharedInv'
    BY <1>19, SharedStays DEF Fault
  <2>. QED
    BY <2>1, <2>2, <2>3
<1>20. ASSUME NEW op \in Ops, Cancel(op) \/ Retry(op) PROVE IInv'
  BY <1>20, SharedStays DEF Cancel, Retry
<1>21. CASE Crash
  BY <1>21, SharedStays DEF Crash, Active
<1>22. CASE UNCHANGED vars
  BY <1>22, SharedStays DEF vars
<1>. QED
  BY <1>1, <1>2, <1>3, <1>4, <1>5, <1>6, <1>7, <1>8, <1>9, <1>10, <1>11, <1>12,
     <1>13, <1>14, <1>15, <1>16, <1>17, <1>18, <1>19, <1>20, <1>21, <1>22 DEF Next, Step

\* Calls that share a transfer are stores of one operation: whatever checkpoints faults,
\* crashes and discarded transfers leave behind, nobody resumes one of another's.
THEOREM TransferHasOneOperation ==
  Spec => [](\A v, w \in Workers :
               xfer[v] # None /\ xfer[v] = xfer[w] => job[v].op = job[w].op)
<1>1. IInv => \A v, w \in Workers :
                xfer[v] # None /\ xfer[v] = xfer[w] => job[v].op = job[w].op
  BY DEF IInv, OwnerInv
<1>. QED
  BY InitInv, NextInv, <1>1, PTL DEF Spec

\* What os.replace puts at a path is a whole dataset, whatever faults, crashes, stale
\* checkpoints and discarded transfers there are, unless two stores of one operation
\* used its transfer at once.
THEOREM PublishedIsWhole == Spec => []PublishedWhole
<1>1. IInv => PublishedWhole
  BY DEF IInv, SharedInv
<1>. QED
  BY InitInv, NextInv, <1>1, PTL DEF Spec
-------------------------------------------------------------------------------
(* The calls that are alone with their target and operation *)

R == Records(Nat, Nat, {0})

\* A thread that has not called yet has uploaded nothing.
FreshInv ==
  /\ DOMAIN resumed = Workers
  /\ \A w \in Workers : pc[w] = "idle" => at[w] = 0 /\ base[w] = NoBase

\* The tracker knows the operation of every call that runs.
RecordInv ==
  /\ DOMAIN manifest = Targets
  /\ tracker \in [Ops -> R \cup {None}]
  /\ base \in [Workers -> [bytes : Nat, offset : Nat, total : Nat]]
  /\ disturbed \in [Workers -> BOOLEAN]
  /\ \A w \in Workers : Active(w) => tracker[job[w].op] # None

\* A transfer and its states belong to one target.
LinkInv ==
  /\ \A v, w \in Workers : xfer[v] # None /\ xfer[v] = xfer[w] => job[v].target = job[w].target
  /\ \A t \in Targets, w \in Workers :
       checkpoint[t] # None /\ checkpoint[t].xfer = xfer[w] => job[w].target = t
  /\ \A t, u \in Targets :
       checkpoint[t] # None /\ checkpoint[u] # None /\ checkpoint[t].xfer = checkpoint[u].xfer =>
         t = u
  /\ \A w \in Workers :
       xfer[w] # None /\ saved[xfer[w]] # None => saved[xfer[w]].target = job[w].target
  /\ \A t \in Targets :
       checkpoint[t] # None /\ saved[checkpoint[t].xfer] # None =>
         saved[checkpoint[t].xfer].target = t
  /\ \A w \in Workers :
       pc[w] \in {"append", "save", "check", "replace", "complete"} =>
         view[w].target = job[w].target

\* No other call that runs has the target of an undisturbed one, nor, while that runs,
\* its operation.
AloneInv ==
  \A v, w \in Workers :
    v # w /\ ~ disturbed[w] /\ pc[w] # "idle" /\ Active(v) =>
      job[v].target # job[w].target /\ (Active(w) => job[v].op # job[w].op)

Blocks(c, n) == [i \in 1..n |-> Block(c, i)]
UploadPlaces == {"mark", "chunk", "append", "save", "follow"}
Publishing == {"check", "replace"}
Published == {"manifest", "unlink", "finish", "returned"}

\* How far the progress of w's operation has come, in blocks.
Reported(w) == IF pc[w] = "follow" THEN at[w] - 1 ELSE at[w]

\* The transfer of an undisturbed call is its own fresh one.
TransferInv(w) ==
  LET x == xfer[w]
      s == saved[x] IN
  /\ pc[w] \in UploadPlaces =>
       /\ s # None /\ s.content = job[w].content /\ s.overwrite = job[w].overwrite
       /\ s.status = "created" /\ s.offset = at[w]
       /\ temp[x] = Blocks(job[w].content, IF pc[w] = "save" THEN at[w] + 1 ELSE at[w])
  /\ pc[w] \in {"append", "save"} => at[w] < Size /\ view[w] = s
  /\ pc[w] \in Publishing =>
       temp[x] = Whole(job[w].content) /\ view[w].overwrite = job[w].overwrite
  /\ pc[w] \in {"prepare", "mark"} => at[w] = 0

\* Its operation is alive, and its progress is what it has reported.
ProgressInv(w) ==
  LET r == tracker[job[w].op] IN
  /\ Active(w) /\ pc[w] # "handle" => ~ Terminal(r)
  /\ pc[w] = "measure" => WithinTotal(r) /\ at[w] = 0
  /\ pc[w] \in {"prepare"} \cup UploadPlaces =>
       /\ r.bytes = base[w].bytes + Reported(w) /\ r.offset = base[w].offset + Reported(w)
       /\ r.total = base[w].total /\ base[w].total >= base[w].bytes + Size
       /\ at[w] <= Size /\ (pc[w] = "follow" => at[w] > 0)

\* What it has published and written stays.
ResultInv(w) ==
  LET t == job[w].target IN
  /\ pc[w] \in {"measure", "prepare"} => checkpoint[t] = None
  /\ pc[w] # "begin"
  /\ pc[w] \in {"complete"} \cup Published => target[t] = Whole(job[w].content)
  /\ pc[w] \in Published \ {"manifest"} => manifest[t] = job[w].content
  /\ pc[w] \in {"finish", "returned"} => checkpoint[t] = None

\* It fails for a cause of the list.
CauseInv(w) ==
  pc[w] = "handle" =>
    \/ Terminal(tracker[job[w].op])
    \/ base[w] = NoBase /\ ~ WithinTotal(tracker[job[w].op])
    \/ base[w] = NoBase /\ job[w].attempt < tracker[job[w].op].attempt
    \/ target[job[w].target] # None /\ ~ job[w].overwrite
    \/ ~ tracker[job[w].op].caps.offsets
    \/ base[w].offset > base[w].bytes
    \/ target[job[w].target] = Whole(job[w].content) /\ ~ Described(w)

StoreOf(w) == TransferInv(w) /\ ProgressInv(w) /\ ResultInv(w) /\ CauseInv(w)
StoreInv == \A w \in Workers : ~ disturbed[w] => StoreOf(w)

SInv == IInv /\ FreshInv /\ RecordInv /\ LinkInv /\ AloneInv /\ StoreInv

\* The updates a store makes, and a further attempt of its operation.
StoreUpdates ==
  [bytes : Nat \cup {None}, offset : Nat \cup {None}, total : Nat \cup {None}, token : {None},
   attempt : Nat \cup {None}, state : {"running", "resuming", "connecting"}]

\* An update that passes sets what it gives and ends within the total; a refused one
\* keeps the state and the attempt.
LEMMA UpdateFacts ==
  ASSUME NEW r \in R, NEW u \in StoreUpdates
  PROVE  LET s == Updated(r, u, 0)
         IN /\ s \in R /\ s.caps = r.caps
            /\ Terminal(r) => ~ UpdatePass(r, u)
            /\ ~ UpdatePass(r, u) => s.state = r.state /\ s.attempt = r.attempt
            /\ UpdatePass(r, u) =>
                 /\ ~ Terminal(s) /\ WithinTotal(s) /\ s.attempt >= r.attempt
                 /\ s.bytes = (IF Given(u.bytes) THEN u.bytes ELSE r.bytes)
                 /\ s.offset = (IF Given(u.offset) THEN u.offset ELSE r.offset)
                 /\ s.total = (IF Given(u.total) THEN u.total ELSE r.total)
<1> USE StoreAssumption DEF Given
<1> DEFINE c == WithCounters(r, u)
           d == [c EXCEPT !.token = IF Given(u.token) /\ TokenPass(r, u) THEN u.token ELSE @]
           s == Updated(r, u, 0)
<1>1. c \in R /\ c.state = r.state /\ c.caps = r.caps /\ c.attempt = r.attempt
  BY DEF WithCounters, R, Records, StoreUpdates
<1>2. UpdatePass(r, u) =>
        /\ WithinTotal(c)
        /\ c.bytes = (IF Given(u.bytes) THEN u.bytes ELSE r.bytes)
        /\ c.offset = (IF Given(u.offset) THEN u.offset ELSE r.offset)
        /\ c.total = (IF Given(u.total) THEN u.total ELSE r.total)
  <2> SUFFICES ASSUME UpdatePass(r, u)
               PROVE  /\ WithinTotal(c)
                      /\ c.bytes = (IF Given(u.bytes) THEN u.bytes ELSE r.bytes)
                      /\ c.offset = (IF Given(u.offset) THEN u.offset ELSE r.offset)
                      /\ c.total = (IF Given(u.total) THEN u.total ELSE r.total)
    OBVIOUS
  <2>1. WithinPass(r, u) /\ TotalPass(r, u)
    BY DEF UpdatePass, TokenPass, WithinPass
  <2>2. OffsetPass(r, u) /\ BytesPass(r, u)
    BY <2>1 DEF TotalPass, OffsetPass
  <2>. QED
    BY <2>1, <2>2 DEF WithinPass, WithCounters, R, Records
<1>3. Terminal(r) => ~ UpdatePass(r, u)
  BY DEF UpdatePass, TokenPass, WithinPass, TotalPass, OffsetPass, BytesPass, MayUpdate
<1> HIDE DEF c
<1>4. d = c
  BY <1>1 DEF R, Records, StoreUpdates
<1>5. s = IF ~ UpdatePass(r, u) THEN d
          ELSE [d EXCEPT !.attempt = IF Given(u.attempt) THEN u.attempt ELSE @,
                         !.state = UpdatedState(r, u),
                         !.lastActivity = IF Activity(r, u) THEN 0 ELSE @]
  BY DEF c, Updated
<1>6. UpdatedState(r, u) = u.state /\ u.state \in {"running", "resuming", "connecting"}
  BY DEF UpdatedState, StoreUpdates, States
<1> HIDE DEF d, s
<1>7. CASE ~ UpdatePass(r, u)
  BY <1>1, <1>3, <1>4, <1>5, <1>7 DEF s
<1>8. CASE UpdatePass(r, u)
  <2> DEFINE a == IF Given(u.attempt) THEN u.attempt ELSE c.attempt
  <2>1. a \in Nat /\ a >= r.attempt
    BY <1>1, <1>8 DEF UpdatePass, StoreUpdates, R, Records
  <2>2. s = [c EXCEPT !.attempt = a, !.state = u.state, !.lastActivity = 0]
    <3>1. c.lastActivity = 0
      BY <1>1 DEF R, Records
    <3>. QED
      BY <1>1, <1>4, <1>5, <1>6, <1>8, <3>1
  <2> HIDE DEF a
  <2>3. s \in R /\ s.state = u.state /\ s.bytes = c.bytes /\ s.offset = c.offset /\ s.total = c.total
        /\ s.caps = c.caps /\ s.attempt = a
    BY <1>1, <1>6, <2>1, <2>2 DEF R, Records, States
  <2>4. WithinTotal(s) /\ ~ Terminal(s)
    BY <1>2, <1>6, <1>8, <2>3 DEF WithinTotal, ProgressBytes, Terminal, TerminalStates
  <2>. QED
    BY <1>1, <1>2, <1>3, <1>8, <2>1, <2>3, <2>4 DEF s
<1>. QED
  BY <1>7, <1>8

\* An update of the state and the attempt is refused to an ended operation, to one
\* beyond its total, and to an earlier attempt.
LEMMA AttemptFacts ==
  ASSUME NEW state \in {"running", "resuming", "connecting"}, NEW n \in Nat \cup {None},
         NEW r \in R
  PROVE  LET u == [StateOnly(state) EXCEPT !.attempt = n]
             s == Updated(r, u, 0)
         IN /\ u \in StoreUpdates
            /\ s.bytes = r.bytes /\ s.offset = r.offset /\ s.total = r.total
            /\ UpdatePass(r, u) <=>
                 ~ Terminal(r) /\ WithinTotal(r) /\ (Given(n) => n >= r.attempt)
<1> USE StoreAssumption DEF Given
<1> DEFINE u == [StateOnly(state) EXCEPT !.attempt = n]
<1>1. /\ u \in StoreUpdates /\ u.bytes = None /\ u.offset = None /\ u.total = None
      /\ u.token = None /\ u.attempt = n /\ u.state = state
  BY DEF StateOnly, NoUpdate, StoreUpdates
<1> HIDE DEF u
<1>2. WithCounters(r, u) = r
  BY <1>1 DEF WithCounters, R, Records
<1>3. MayUpdate(r, u) <=> ~ Terminal(r)
  BY <1>1 DEF MayUpdate, TerminalStates
<1>4. UpdatePass(r, u) <=> ~ Terminal(r) /\ WithinTotal(r) /\ (Given(n) => n >= r.attempt)
  BY <1>1, <1>2, <1>3 DEF UpdatePass, TokenPass, WithinPass, TotalPass, OffsetPass, BytesPass, ValidToken
<1>5. LET s == Updated(r, u, 0) IN s.bytes = r.bytes /\ s.offset = r.offset /\ s.total = r.total
  BY <1>1, <1>2 DEF Updated, R, Records
<1>. QED
  BY <1>1, <1>4, <1>5 DEF u

LEMMA StateOnlyFacts ==
  ASSUME NEW state \in {"running", "resuming"}, NEW r \in R
  PROVE  /\ StateOnly(state) \in StoreUpdates
         /\ LET s == Updated(r, StateOnly(state), 0)
            IN s.bytes = r.bytes /\ s.offset = r.offset /\ s.total = r.total
         /\ UpdatePass(r, StateOnly(state)) <=> ~ Terminal(r) /\ WithinTotal(r)
<1>1. StateOnly(state) = [bytes |-> None, offset |-> None, total |-> None, token |-> None,
                          attempt |-> None, state |-> state]
  BY DEF StateOnly, NoUpdate
<1>2. StateOnly(state) = [StateOnly(state) EXCEPT !.attempt = None]
  BY <1>1
<1>. QED
  BY <1>2, AttemptFacts DEF Given

\* The update that announces the total is refused only when the offset is ahead.
LEMMA MeasureFacts ==
  ASSUME NEW r \in R, ~ Terminal(r)
  PROVE  LET u == [StateOnly("running") EXCEPT !.total = Total(r)]
             s == Updated(r, u, 0)
         IN /\ u \in StoreUpdates /\ Total(r) \in Nat /\ Total(r) >= r.bytes + Size
            /\ UpdatePass(r, u) \/ r.offset > r.bytes
            /\ UpdatePass(r, u) => s.total = Total(r) /\ s.bytes = r.bytes /\ s.offset = r.offset
<1> USE StoreAssumption DEF Given
<1> DEFINE u == [StateOnly("running") EXCEPT !.total = Total(r)]
<1>1. Total(r) \in Nat /\ Total(r) >= r.bytes + Size /\ (r.total # None => Total(r) >= r.total)
  BY DEF Total, R, Records
<1>2. /\ u \in StoreUpdates /\ u.bytes = None /\ u.offset = None /\ u.total = Total(r)
      /\ u.token = None /\ u.attempt = None /\ u.state = "running"
  BY <1>1 DEF StateOnly, NoUpdate, StoreUpdates
<1> HIDE DEF u
<1>3. TotalPass(r, u)
  BY <1>1, <1>2 DEF TotalPass, OffsetPass, BytesPass, MayUpdate, TerminalStates
<1>4. WithCounters(r, u) = [r EXCEPT !.total = Total(r)]
  BY <1>1, <1>2, <1>3 DEF WithCounters, R, Records
<1>5. WithinTotal(WithCounters(r, u)) \/ r.offset > r.bytes
  BY <1>1, <1>4 DEF WithinTotal, ProgressBytes, R, Records
<1>6. UpdatePass(r, u) \/ r.offset > r.bytes
  BY <1>2, <1>3, <1>5 DEF UpdatePass, TokenPass, WithinPass, ValidToken
<1>7. UpdatePass(r, u) => LET s == Updated(r, u, 0)
                          IN s.total = Total(r) /\ s.bytes = r.bytes /\ s.offset = r.offset
  BY <1>1, <1>2, UpdateFacts
<1>. QED
  BY <1>1, <1>2, <1>6, <1>7 DEF u

\* A block's report is refused for a command without offsets, or when the offset is ahead.
LEMMA FollowFacts ==
  ASSUME NEW r \in R, ~ Terminal(r), NEW b \in [bytes : Nat, offset : Nat, total : Nat],
         NEW n \in Nat, 0 < n, n <= Size, b.total >= b.bytes + Size,
         r.bytes = b.bytes + (n - 1), r.offset = b.offset + (n - 1), r.total = b.total
  PROVE  LET u == [StateOnly("running") EXCEPT !.bytes = b.bytes + n, !.offset = b.offset + n,
                                               !.total = b.total]
             s == Updated(r, u, 0)
         IN /\ u \in StoreUpdates
            /\ UpdatePass(r, u) \/ ~ r.caps.offsets \/ b.offset > b.bytes
            /\ UpdatePass(r, u) =>
                 s.total = b.total /\ s.bytes = b.bytes + n /\ s.offset = b.offset + n
<1> USE StoreAssumption DEF Given
<1> DEFINE u == [StateOnly("running") EXCEPT !.bytes = b.bytes + n, !.offset = b.offset + n,
                                             !.total = b.total]
<1>0. b.bytes + n \in Nat /\ b.offset + n \in Nat /\ b.total \in Nat
  OBVIOUS
<1>1. /\ u \in StoreUpdates /\ u.bytes = b.bytes + n /\ u.offset = b.offset + n
      /\ u.total = b.total /\ u.token = None /\ u.attempt = None /\ u.state = "running"
  BY <1>0 DEF StateOnly, NoUpdate, StoreUpdates
<1> HIDE DEF u
<1>2. u.bytes \in Nat /\ u.offset \in Nat /\ u.total \in Nat /\ u.bytes # None
      /\ u.offset # None /\ u.total # None
  BY <1>1
<1>3. CASE r.caps.offsets
  <2>1. BytesPass(r, u)
    BY <1>1, <1>2 DEF BytesPass, MayUpdate, TerminalStates
  <2>2. OffsetPass(r, u)
    BY <1>1, <1>2, <1>3, <2>1 DEF OffsetPass, ValidOffset
  <2>3. TotalPass(r, u)
    BY <1>1, <1>2, <2>2 DEF TotalPass
  <2>4. LET c == WithCounters(r, u)
        IN c.bytes = u.bytes /\ c.offset = u.offset /\ c.total = u.total
    BY <1>2, <2>1, <2>2, <2>3 DEF WithCounters, R, Records
  <2>5. WithinTotal(WithCounters(r, u)) \/ b.offset > b.bytes
    BY <1>1, <1>2, <2>4 DEF WithinTotal, ProgressBytes
  <2>6. UpdatePass(r, u) \/ b.offset > b.bytes
    BY <1>1, <2>3, <2>5 DEF UpdatePass, TokenPass, WithinPass, ValidToken
  <2>. QED
    BY <1>1, <1>2, <2>6, UpdateFacts DEF u
<1>4. CASE ~ r.caps.offsets
  BY <1>1, <1>2, <1>4, UpdateFacts DEF u
<1>. QED
  BY <1>3, <1>4

LEMMA FinishFacts ==
  ASSUME NEW r \in R, NEW e \in TerminalStates
  PROVE  Finished(r, e, 0) \in R /\ (Terminal(r) => Finished(r, e, 0) = r)
<1> USE StoreAssumption DEF Given
<1>1. CASE Terminal(r)
  BY <1>1 DEF Finished, MayFinish
<1>2. CASE ~ Terminal(r)
  <2>1. ActiveElapsed(r, 0) = 0
    BY DEF ActiveElapsed, R, Records
  <2>2. Finished(r, e, 0) = [r EXCEPT !.activeFor = 0, !.activeFrom = None, !.state = e]
    BY <1>2, <2>1 DEF Finished, MayFinish, Stopped, R, Records
  <2>. QED
    BY <1>2, <2>2 DEF R, Records, TerminalStates, States
<1>. QED
  BY <1>1, <1>2

\* What a report of w leaves in the tracker.
LEMMA ReportFacts ==
  ASSUME SInv, NEW w \in Workers, Active(w), NEW u \in StoreUpdates, NEW label, Report(w, u, label)
  PROVE  LET op == job[w].op
         IN /\ op \in Ops /\ tracker[op] \in R /\ Updated(tracker[op], u, 0) \in R
            /\ tracker' = [tracker EXCEPT ![op] = Updated(tracker[op], u, 0)]
            /\ pc' = [pc EXCEPT ![w] = IF UpdatePass(tracker[op], u) THEN label ELSE "handle"]
<1>1. job[w] \in Jobs /\ tracker[job[w].op] # None
  BY DEF SInv, IInv, PlaceInv, RecordInv, Active
<1>2. job[w].op \in Ops /\ tracker[job[w].op] \in R
  BY <1>1 DEF Jobs, SInv, RecordInv
<1>. QED
  BY <1>2, UpdateFacts DEF Report, Goto

LEMMA StoreInit == ASSUME Init PROVE SInv
<1>1. IInv
  BY InitInv
<1>2. RecordInv
  BY DEF Init, RecordInv, NoBase, Active
<1>3. LinkInv /\ AloneInv /\ FreshInv
  BY DEF Init, LinkInv, AloneInv, FreshInv, Active
<1>4. StoreInv
  BY DEF Init, StoreInv, StoreOf, TransferInv, ProgressInv, ResultInv, CauseInv, UploadPlaces,
         Publishing, Published, Active
<1>. QED
  BY <1>1, <1>2, <1>3, <1>4 DEF SInv

\* A further attempt: the counters stay and the attempt goes up.
LEMMA RetryFacts ==
  ASSUME RecordInv, NEW op \in Ops, Retry(op)
  PROVE  LET r == tracker[op]
         IN /\ r \in R /\ ~ Terminal(r)
            /\ \E s \in R :
                 /\ tracker' = [tracker EXCEPT ![op] = s]
                 /\ ~ Terminal(s) /\ s.caps = r.caps /\ s.bytes = r.bytes /\ s.offset = r.offset
                 /\ s.total = r.total /\ s.attempt >= r.attempt
<1> DEFINE r == tracker[op]
           u == [StateOnly("connecting") EXCEPT !.attempt = r.attempt + 1]
           s == Updated(r, u, 0)
<1>1. r \in R /\ ~ Terminal(r) /\ tracker' = [tracker EXCEPT ![op] = s]
  BY DEF Retry, MayFinish, RecordInv
<1>2. r.attempt \in Nat /\ r.attempt + 1 \in Nat
  BY <1>1 DEF R, Records
<1>3. u \in StoreUpdates /\ s.bytes = r.bytes /\ s.offset = r.offset /\ s.total = r.total
  BY <1>1, <1>2, AttemptFacts
<1> HIDE DEF u
<1>4. /\ s \in R /\ s.caps = r.caps
      /\ \/ ~ Terminal(s) /\ s.attempt >= r.attempt
         \/ s.state = r.state /\ s.attempt = r.attempt
  BY <1>1, <1>3, UpdateFacts
<1>5. ~ Terminal(s) /\ s.attempt >= r.attempt
  BY <1>1, <1>2, <1>4 DEF Terminal
<1>. QED
  BY <1>1, <1>3, <1>4, <1>5

LEMMA RecordStep ==
  ASSUME SInv, [Next]_vars PROVE RecordInv'
<1> USE DEF disk, calls, history, Active, Goto
<1>0. IInv /\ RecordInv
  BY DEF SInv
<1>1. ASSUME NEW w \in Workers, NEW j \in Jobs, Start(w, j) PROVE RecordInv'
  <2> DEFINE u == [StateOnly("running") EXCEPT !.attempt = j.attempt]
  <2>1. PICK r \in IF j.op \in begun THEN {tracker[j.op]} ELSE FirstRecords :
          /\ tracker' = [tracker EXCEPT ![j.op] = Updated(r, u, 0)]
          /\ \E l \in {"measure", "handle"} : pc' = [pc EXCEPT ![w] = l]
    BY <1>1 DEF Start
  <2>2. j.op \in Ops /\ r \in R
    BY <1>0, <1>1, RecordsAssumption DEF Start, Jobs, RecordInv, R
  <2>3. Updated(r, u, 0) \in R /\ Updated(r, u, 0) # None
    <3>1. None \notin R
      BY RecordsAssumption DEF R
    <3>2. j.attempt \in Nat
      BY StoreAssumption DEF Jobs
    <3>. QED
      BY <2>2, <3>1, <3>2, AttemptFacts, UpdateFacts
  <2> HIDE DEF u
  <2>4. /\ job' = [job EXCEPT ![w] = j] /\ UNCHANGED <<manifest, base>>
        /\ disturbed' \in [Workers -> BOOLEAN]
    BY <1>0, <1>1 DEF Start, RecordInv
  <2>. QED
    BY <1>0, <2>1, <2>2, <2>3, <2>4 DEF RecordInv, IInv, TypeInv
<1>2. ASSUME NEW w \in Workers, Active(w), NEW r \in R,
             tracker' = [tracker EXCEPT ![job[w].op] = r],
             \E l \in Places : pc' = [pc EXCEPT ![w] = l],
             base' \in [Workers -> [bytes : Nat, offset : Nat, total : Nat]],
             UNCHANGED <<manifest, job, disturbed>>
      PROVE  RecordInv'
  <2>1. job[w].op \in Ops /\ r # None
    BY <1>0, <1>2, RecordsAssumption DEF R, PlaceInv, IInv, Jobs
  <2>2. \A v \in Workers : Active(v)' => Active(v)
    BY <1>0, <1>2 DEF IInv, TypeInv
  <2>3. tracker' \in [Ops -> R \cup {None}]
    BY <1>0, <1>2, <2>1 DEF RecordInv
  <2>4. \A op \in Ops : tracker[op] # None => tracker'[op] # None
    BY <1>0, <1>2, <2>1 DEF RecordInv
  <2>5. \A v \in Workers : Active(v) => job[v].op \in Ops
    BY <1>0 DEF IInv, PlaceInv, Jobs
  <2> HIDE DEF Active
  <2>6. \A v \in Workers : Active(v)' => tracker'[job'[v].op] # None
    BY <1>0, <1>2, <2>2, <2>4, <2>5 DEF RecordInv
  <2>. QED
    BY <1>0, <1>2, <2>3, <2>6 DEF RecordInv
<1>3. ASSUME NEW w \in Workers, NEW u \in StoreUpdates, NEW label \in Places, Active(w),
             Report(w, u, label),
             base' \in [Workers -> [bytes : Nat, offset : Nat, total : Nat]],
             UNCHANGED <<manifest, job, disturbed>>
      PROVE  RecordInv'
  <2>1. PICK r \in R : tracker' = [tracker EXCEPT ![job[w].op] = r]
    BY <1>3, ReportFacts
  <2>2. \E l \in Places : pc' = [pc EXCEPT ![w] = l]
    BY <1>3, ReportFacts DEF Places
  <2>. QED
    BY <1>2, <1>3, <2>1, <2>2
<1>4. ASSUME NEW w \in Workers, Measure(w) PROVE RecordInv'
  <2> DEFINE r == tracker[job[w].op]
             u == [StateOnly("running") EXCEPT !.total = Total(r)]
  <2>1. Active(w) /\ Report(w, u, "prepare") /\ UNCHANGED <<manifest, job, disturbed>>
    BY <1>4 DEF Measure
  <2>2. r \in R
    BY <1>0, <2>1, RecordsAssumption DEF PlaceInv, IInv, Jobs, RecordInv, R
  <2>3. Total(r) \in Nat /\ r.bytes \in Nat /\ r.offset \in Nat
    BY <2>2, StoreAssumption DEF Total, R, Records, Given
  <2>4. u \in StoreUpdates
    BY <2>3 DEF StateOnly, NoUpdate, StoreUpdates
  <2>5. base' = [base EXCEPT ![w] = [bytes |-> r.bytes, offset |-> r.offset, total |-> Total(r)]]
    BY <1>4 DEF Measure
  <2> HIDE DEF r, u
  <2>6. base' \in [Workers -> [bytes : Nat, offset : Nat, total : Nat]]
    BY <1>0, <2>3, <2>5 DEF RecordInv
  <2>. QED
    BY <1>3, <2>1, <2>4, <2>6 DEF Places
<1>5. ASSUME NEW w \in Workers, ResumeTransfer(w) PROVE RecordInv'
  <2>1. Active(w) /\ UNCHANGED <<manifest, job, base, disturbed>> /\ "chunk" \in Places
    BY <1>5 DEF ResumeTransfer, Places
  <2>2. StateOnly("resuming") \in StoreUpdates
    BY DEF StateOnly, NoUpdate, StoreUpdates
  <2>3. base' \in [Workers -> [bytes : Nat, offset : Nat, total : Nat]]
    BY <1>0, <2>1 DEF RecordInv
  <2>4. CASE Report(w, StateOnly("resuming"), "chunk")
    BY <1>3, <2>1, <2>2, <2>3, <2>4
  <2>5. CASE UNCHANGED tracker /\ Goto(w, "handle")
    BY <1>0, <2>1, <2>5 DEF RecordInv, IInv, TypeInv
  <2>. QED
    BY <1>5, <2>4, <2>5 DEF ResumeTransfer
<1>6. ASSUME NEW w \in Workers, DiscardStale(w) PROVE RecordInv'
  <2>1. /\ Active(w) /\ UNCHANGED <<manifest, job, base, disturbed>>
        /\ Report(w, StateOnly("running"), "begin") /\ "begin" \in Places
    BY <1>6 DEF DiscardStale, Places
  <2>2. StateOnly("running") \in StoreUpdates
    BY DEF StateOnly, NoUpdate, StoreUpdates
  <2>3. base' \in [Workers -> [bytes : Nat, offset : Nat, total : Nat]]
    BY <1>0, <2>1 DEF RecordInv
  <2>. QED
    BY <1>3, <2>1, <2>2, <2>3
<1>7. ASSUME NEW w \in Workers, FollowChunk(w) PROVE RecordInv'
  <2> DEFINE u == [StateOnly("running") EXCEPT !.bytes = base[w].bytes + at[w],
                                               !.offset = base[w].offset + at[w],
                                               !.total = base[w].total]
  <2>1. /\ Active(w) /\ UNCHANGED <<manifest, job, base, disturbed>>
        /\ Report(w, u, "chunk") /\ "chunk" \in Places
    BY <1>7 DEF FollowChunk, Places
  <2>2. base[w] \in [bytes : Nat, offset : Nat, total : Nat] /\ at[w] \in Nat
    BY <1>0 DEF RecordInv, IInv, TypeInv
  <2>3. base[w].bytes + at[w] \in Nat /\ base[w].offset + at[w] \in Nat /\ base[w].total \in Nat
    BY <2>2
  <2>4. u \in StoreUpdates
    BY <2>3 DEF StateOnly, NoUpdate, StoreUpdates
  <2> HIDE DEF u
  <2>5. base' \in [Workers -> [bytes : Nat, offset : Nat, total : Nat]]
    BY <1>0, <2>1 DEF RecordInv
  <2>. QED
    BY <1>3, <2>1, <2>4, <2>5
<1>8. ASSUME NEW w \in Workers, Finish(w) \/ HandleFailure(w) PROVE RecordInv'
  <2>1. Active(w) /\ UNCHANGED <<manifest, job, base, disturbed>>
    BY <1>8 DEF Finish, HandleFailure
  <2>2. job[w].op \in Ops /\ tracker[job[w].op] \in R
    BY <1>0, <2>1 DEF PlaceInv, IInv, Jobs, RecordInv
  <2>3. PICK r \in R : tracker' = [tracker EXCEPT ![job[w].op] = r]
    BY <1>8, <2>2, FinishFacts DEF Finish, HandleFailure, TerminalStates
  <2>4. \E l \in Places : pc' = [pc EXCEPT ![w] = l]
    BY <1>8 DEF Finish, HandleFailure, Places
  <2>5. base' \in [Workers -> [bytes : Nat, offset : Nat, total : Nat]]
    BY <1>0, <2>1 DEF RecordInv
  <2>. QED
    BY <1>2, <2>1, <2>3, <2>4, <2>5
<1>9. ASSUME NEW w \in Workers,
             \/ BeginTransfer(w) \/ MarkTransfer(w) \/ LoadChunk(w) \/ AppendChunk(w)
             \/ SaveChunk(w) \/ Verify(w) \/ CheckTarget(w) \/ Replace(w) \/ SaveCompleted(w)
             \/ WriteManifest(w) \/ UnlinkCheckpoint(w) \/ Fault(w)
      PROVE  RecordInv'
  <2>1. Active(w) /\ UNCHANGED <<tracker, job, base>> /\ \E l \in Places : pc' = [pc EXCEPT ![w] = l]
    BY <1>9 DEF BeginTransfer, MarkTransfer, LoadChunk, AppendChunk, SaveChunk, Verify,
                CheckTarget, Replace, SaveCompleted, WriteManifest, UnlinkCheckpoint, Fault, Places
  <2>2. DOMAIN manifest' = Targets /\ disturbed' \in [Workers -> BOOLEAN]
    BY <1>0, <1>9 DEF BeginTransfer, MarkTransfer, LoadChunk, AppendChunk, SaveChunk, Verify,
                CheckTarget, Replace, SaveCompleted, WriteManifest, UnlinkCheckpoint, Fault, RecordInv
  <2>. QED
    BY <1>0, <2>1, <2>2 DEF RecordInv, IInv, TypeInv
<1>10. ASSUME NEW op \in Ops, Cancel(op) PROVE RecordInv'
  <2>1. Finished(tracker[op], "cancelled", 0) \in R
    BY <1>0, <1>10, FinishFacts DEF Cancel, RecordInv, TerminalStates
  <2>2. disturbed' \in [Workers -> BOOLEAN]
    BY <1>0, <1>10 DEF Cancel, RecordInv
  <2>. QED
    BY <1>0, <1>10, <2>1, <2>2, RecordsAssumption DEF Cancel, RecordInv, R
<1>11. ASSUME NEW op \in Ops, Retry(op) PROVE RecordInv'
  <2>1. PICK r \in R : tracker' = [tracker EXCEPT ![op] = r]
    BY <1>0, <1>11, RetryFacts
  <2>2. UNCHANGED <<manifest, base, disturbed, pc, job>>
    BY <1>11 DEF Retry
  <2>3. r # None
    BY RecordsAssumption DEF R
  <2>. QED
    BY <1>0, <2>1, <2>2, <2>3 DEF RecordInv
<1>12. CASE Crash
  BY <1>0, <1>12 DEF Crash, RecordInv
<1>13. CASE UNCHANGED vars
  BY <1>0, <1>13 DEF vars, RecordInv
<1>. QED
  BY <1>1, <1>4, <1>5, <1>6, <1>7, <1>8, <1>9, <1>10, <1>11, <1>12, <1>13 DEF Next, Step

LEMMA LinkStep ==
  ASSUME SInv, [Next]_vars PROVE LinkInv'
<1> USE NoneApart DEF disk, calls, history, Goto, LinkInv
<1>0. TypeInv /\ PlaceInv /\ LinkInv
  BY DEF SInv, IInv
<1>1. ASSUME NEW w \in Workers, NEW j \in Jobs, Start(w, j) PROVE LinkInv'
  <2>1. /\ xfer[w] = None /\ job' = [job EXCEPT ![w] = j]
        /\ \E l \in {"measure", "handle"} : pc' = [pc EXCEPT ![w] = l]
        /\ UNCHANGED <<disk, xfer, view>>
    BY <1>0, <1>1 DEF Start, PlaceInv
  <2>2. \A t \in Targets : checkpoint[t] # None => checkpoint[t].xfer # None
    BY <1>0 DEF TypeInv, Checkpoints
  <2>. QED
    BY <1>0, <2>1, <2>2 DEF TypeInv
<1>2. ASSUME NEW w \in Workers, ResumeTransfer(w) PROVE LinkInv'
  <2>1. PICK t \in Targets : t = job[w].target
    BY <1>0, <1>2 DEF ResumeTransfer, PlaceInv, Jobs
  <2> DEFINE c == checkpoint[t]
             again == [c EXCEPT !.offset = saved[c.xfer].offset, !.status = "partial"]
  <2>2. /\ c \in Checkpoints /\ c # None /\ UNCHANGED <<saved, job, view>>
        /\ \E l \in {"handle", "chunk"} : pc' = [pc EXCEPT ![w] = l]
    BY <1>0, <1>2, <2>1 DEF ResumeTransfer, FindsCheckpoint, Report, TypeInv
  <2>3. \/ UNCHANGED <<checkpoint, xfer>>
        \/ /\ checkpoint' = [checkpoint EXCEPT ![t] = again]
           /\ UNCHANGED xfer \/ xfer' = [xfer EXCEPT ![w] = c.xfer]
    BY <1>2, <2>1 DEF ResumeTransfer
  <2>4. again.xfer = c.xfer /\ c.xfer \in Transfers
    BY <2>2 DEF Checkpoints
  <2> HIDE DEF again
  <2>5. \A u \in Targets : checkpoint'[u] # None =>
          checkpoint[u] # None /\ checkpoint'[u].xfer = checkpoint[u].xfer
    BY <1>0, <2>2, <2>3, <2>4 DEF TypeInv
  <2>6. \A v \in Workers : xfer'[v] = xfer[v] \/ (v = w /\ xfer'[v] = c.xfer)
    BY <1>0, <2>3 DEF TypeInv
  <2>7. \A v, u \in Workers : xfer'[v] # None /\ xfer'[v] = xfer'[u] => job'[v].target = job'[u].target
    BY <1>0, <2>1, <2>2, <2>6
  <2>8. \A u \in Targets, v \in Workers :
          checkpoint'[u] # None /\ checkpoint'[u].xfer = xfer'[v] => job'[v].target = u
    BY <1>0, <2>1, <2>2, <2>5, <2>6
  <2>9. \A v \in Workers :
          xfer'[v] # None /\ saved'[xfer'[v]] # None => saved'[xfer'[v]].target = job'[v].target
    BY <1>0, <2>1, <2>2, <2>6
  <2>10. \A v \in Workers :
       pc'[v] \in {"append", "save", "check", "replace", "complete"} =>
         view'[v].target = job'[v].target
    BY <1>0, <2>2 DEF TypeInv
  <2>. QED
    BY <1>0, <2>2, <2>5, <2>7, <2>8, <2>9, <2>10
<1>3. ASSUME NEW w \in Workers, DiscardStale(w) PROVE LinkInv'
  <2>1. PICK t \in Targets : t = job[w].target
    BY <1>0, <1>3 DEF DiscardStale, PlaceInv, Jobs
  <2>2. /\ \E l \in {"begin", "handle"} : pc' = [pc EXCEPT ![w] = l]
        /\ checkpoint' = [checkpoint EXCEPT ![t] = None]
        /\ UNCHANGED <<job, xfer, view>>
        /\ \E x \in Transfers : saved' = [saved EXCEPT ![x] = None]
    <3>1. checkpoint[t] \in Checkpoints
      BY <1>0, <1>3, <2>1 DEF DiscardStale, FindsCheckpoint, TypeInv
    <3>2. checkpoint[t].xfer \in Transfers
      BY <3>1 DEF Checkpoints
    <3>. QED
      BY <1>3, <2>1, <3>2 DEF DiscardStale, Report, Discard
  <2>. QED
    BY <1>0, <2>2 DEF TypeInv
<1>4. ASSUME NEW w \in Workers, BeginTransfer(w) PROVE LinkInv'
  <2>1. CASE UNCHANGED <<saved, xfer>> /\ Goto(w, "handle")
    BY <1>0, <1>4, <2>1 DEF BeginTransfer, TypeInv
  <2>2. ASSUME NEW x \in Transfers, NEW s,
               \A v \in Workers : xfer[v] # x,
               \A t \in Targets : checkpoint[t] # None => checkpoint[t].xfer # x,
               s.target = job[w].target,
               saved' = [saved EXCEPT ![x] = s], xfer' = [xfer EXCEPT ![w] = x], Goto(w, "mark")
        PROVE  LinkInv'
    <3>1. UNCHANGED <<checkpoint, job, view>>
      BY <1>4 DEF BeginTransfer
    <3>. QED
      BY <1>0, <2>2, <3>1 DEF TypeInv
  <2>3. \/ UNCHANGED <<saved, xfer>> /\ Goto(w, "handle")
        \/ \E x \in Transfers :
             /\ \A v \in Workers : xfer[v] # x
             /\ \A t \in Targets : checkpoint[t] # None => checkpoint[t].xfer # x
             /\ saved' = [saved EXCEPT ![x] =
                  [content |-> job[w].content, target |-> job[w].target,
                   overwrite |-> job[w].overwrite, offset |-> 0, status |-> "created"]]
             /\ xfer' = [xfer EXCEPT ![w] = x] /\ Goto(w, "mark")
    BY <1>4 DEF BeginTransfer
  <2>4. [content |-> job[w].content, target |-> job[w].target, overwrite |-> job[w].overwrite,
         offset |-> 0, status |-> "created"].target = job[w].target
    OBVIOUS
  <2>. QED
    BY <2>1, <2>2, <2>3, <2>4
<1>5. ASSUME NEW w \in Workers, NEW t \in Targets, t = job[w].target, xfer[w] \in Transfers,
             NEW c \in Checkpoints, c.xfer = xfer[w], checkpoint' = [checkpoint EXCEPT ![t] = c],
             \E l \in {"chunk", "handle", "raised"} : pc' = [pc EXCEPT ![w] = l],
             UNCHANGED <<saved, job, xfer, view>>
      PROVE  LinkInv'
  BY <1>0, <1>5 DEF TypeInv
<1>6. ASSUME NEW w \in Workers, MarkTransfer(w) \/ FollowChunk(w) PROVE LinkInv'
  <2> DEFINE c == IF pc[w] = "mark" THEN TransferCheckpoint(job[w], xfer[w])
                  ELSE [ckpt[w] EXCEPT !.offset = at[w]]
  <2>1. /\ checkpoint' = [checkpoint EXCEPT ![job[w].target] = c]
        /\ \E l \in {"chunk", "handle"} : pc' = [pc EXCEPT ![w] = l]
        /\ UNCHANGED <<saved, job, xfer, view>>
        /\ pc[w] \in {"mark", "follow"}
    BY <1>6 DEF MarkTransfer, FollowChunk, Report
  <2>2. xfer[w] \in Transfers /\ job[w] \in Jobs /\ job[w].target \in Targets
    BY <1>0, <2>1 DEF PlaceInv, Jobs
  <2>3. CASE pc[w] = "mark"
    <3>1. c \in Checkpoints /\ c.xfer = xfer[w]
      BY <2>2, <2>3 DEF TransferCheckpoint, Checkpoints, Jobs
    <3>. QED
      BY <1>5, <2>1, <2>2, <3>1
  <2>4. CASE pc[w] = "follow"
    <3>1. ckpt[w] \in Checkpoints /\ ckpt[w].xfer = xfer[w] /\ at[w] \in Nat
      BY <1>0, <2>4 DEF PlaceInv, TypeInv
    <3>2. [ckpt[w] EXCEPT !.offset = at[w]] \in Checkpoints
      BY <3>1, CheckpointMoves
    <3>3. c \in Checkpoints /\ c.xfer = xfer[w]
      BY <2>4, <3>1, <3>2 DEF Checkpoints
    <3>. QED
      BY <1>5, <2>1, <2>2, <3>3
  <2>. QED
    BY <2>1, <2>3, <2>4
<1>7. ASSUME NEW w \in Workers, LoadChunk(w) \/ Verify(w) PROVE LinkInv'
  <2>1. /\ UNCHANGED <<checkpoint, job, xfer>> /\ xfer[w] \in Transfers
        /\ \/ /\ \E l \in {"handle", "manifest"} : pc' = [pc EXCEPT ![w] = l]
              /\ UNCHANGED <<saved, view>>
           \/ /\ saved[xfer[w]] # None /\ view' = [view EXCEPT ![w] = saved[xfer[w]]]
              /\ \E l \in {"append", "check"} : pc' = [pc EXCEPT ![w] = l]
              /\ UNCHANGED saved
           \/ /\ saved[xfer[w]] # None /\ UNCHANGED view /\ pc' = [pc EXCEPT ![w] = "handle"]
              /\ saved' = [saved EXCEPT ![xfer[w]] = [saved[xfer[w]] EXCEPT !.status = "failed"]]
    BY <1>0, <1>7 DEF LoadChunk, Verify, PlaceInv
  <2>2. saved[xfer[w]] # None =>
          [saved[xfer[w]] EXCEPT !.status = "failed"].target = saved[xfer[w]].target
    BY <1>0, <2>1 DEF TypeInv, TransferStates
  <2>3. CASE \/ /\ \E l \in {"handle", "manifest"} : pc' = [pc EXCEPT ![w] = l]
                /\ UNCHANGED <<saved, view>>
             \/ /\ saved[xfer[w]] # None /\ view' = [view EXCEPT ![w] = saved[xfer[w]]]
                /\ \E l \in {"append", "check"} : pc' = [pc EXCEPT ![w] = l]
                /\ UNCHANGED saved
    BY <1>0, <2>1, <2>3 DEF TypeInv
  <2>4. CASE /\ saved[xfer[w]] # None /\ UNCHANGED view /\ pc' = [pc EXCEPT ![w] = "handle"]
             /\ saved' = [saved EXCEPT ![xfer[w]] = [saved[xfer[w]] EXCEPT !.status = "failed"]]
    BY <1>0, <2>1, <2>2, <2>4 DEF TypeInv
  <2>. QED
    BY <2>1, <2>3, <2>4
<1>8. ASSUME NEW w \in Workers, SaveChunk(w) \/ SaveCompleted(w) PROVE LinkInv'
  <2>1. PICK s : /\ saved' = [saved EXCEPT ![xfer[w]] = s] /\ s.target = view[w].target
                 /\ \E l \in {"follow", "manifest"} : pc' = [pc EXCEPT ![w] = l]
                 /\ UNCHANGED <<checkpoint, job, xfer, view>> /\ pc[w] \in {"save", "complete"}
    <3>1. pc[w] \in {"save", "complete"} /\ view[w] \in TransferStates
      BY <1>0, <1>8 DEF SaveChunk, SaveCompleted, PlaceInv
    <3>2. /\ [view[w] EXCEPT !.offset = at[w] + 1].target = view[w].target
          /\ [view[w] EXCEPT !.status = "completed"].target = view[w].target
      BY <3>1 DEF TransferStates
    <3>. QED
      BY <1>8, <3>1, <3>2 DEF SaveChunk, SaveCompleted
  <2>2. xfer[w] \in Transfers /\ s.target = job[w].target
    BY <1>0, <2>1 DEF PlaceInv
  <2>. QED
    BY <1>0, <2>1, <2>2 DEF TypeInv
<1>9. ASSUME NEW w \in Workers, UnlinkCheckpoint(w) PROVE LinkInv'
  BY <1>0, <1>9 DEF UnlinkCheckpoint, Unlinked, TypeInv
<1>10. ASSUME NEW w \in Workers, HandleFailure(w) PROVE LinkInv'
  <2>1. PICK t \in Targets : t = job[w].target
    BY <1>0, <1>10 DEF HandleFailure, PlaceInv, Jobs
  <2> DEFINE c == [ckpt[w] EXCEPT !.status = "failed"]
  <2>2. /\ pc' = [pc EXCEPT ![w] = "raised"] /\ UNCHANGED <<job, xfer, view>>
        /\ \/ UNCHANGED <<checkpoint, saved>>
           \/ /\ ckpt[w] # None /\ checkpoint' = [checkpoint EXCEPT ![t] = c] /\ UNCHANGED saved
           \/ /\ ckpt[w] # None /\ saved' = [saved EXCEPT ![ckpt[w].xfer] = None]
              /\ checkpoint' = [checkpoint EXCEPT ![t] = None]
    BY <1>10, <2>1 DEF HandleFailure, Discard
  <2>3. CASE UNCHANGED <<checkpoint, saved>>
    BY <1>0, <2>2, <2>3 DEF TypeInv
  <2>4. CASE ckpt[w] # None /\ checkpoint' = [checkpoint EXCEPT ![t] = c] /\ UNCHANGED saved
    <3>1. ckpt[w] \in Checkpoints /\ ckpt[w].xfer = xfer[w]
      BY <1>0, <2>4 DEF PlaceInv
    <3>2. c \in Checkpoints /\ c.xfer = xfer[w] /\ xfer[w] \in Transfers
      BY <3>1, CheckpointMoves DEF Checkpoints
    <3>. QED
      BY <1>5, <2>1, <2>2, <2>4, <3>2
  <2>5. CASE /\ ckpt[w] # None /\ saved' = [saved EXCEPT ![ckpt[w].xfer] = None]
             /\ checkpoint' = [checkpoint EXCEPT ![t] = None]
    BY <1>0, <2>2, <2>5 DEF TypeInv
  <2>. QED
    BY <2>2, <2>3, <2>4, <2>5
<1>11. ASSUME NEW w \in Workers, \/ Measure(w) \/ AppendChunk(w) \/ CheckTarget(w) \/ Replace(w)
                                 \/ WriteManifest(w) \/ Finish(w) \/ Fault(w)
       PROVE  LinkInv'
  <2>1. UNCHANGED <<checkpoint, saved, job, xfer, view>>
    BY <1>11 DEF Measure, AppendChunk, CheckTarget, Replace, WriteManifest, Finish, Fault
  <2>2. \A v \in Workers :
          pc'[v] \in {"append", "save", "check", "replace", "complete"} =>
            pc[v] \in {"append", "save", "check", "replace", "complete"}
    BY <1>0, <1>11 DEF Measure, AppendChunk, CheckTarget, Replace, WriteManifest, Finish, Fault,
                       Report, TypeInv
  <2>. QED
    BY <1>0, <2>1, <2>2
<1>12. ASSUME NEW op \in Ops, Cancel(op) \/ Retry(op) PROVE LinkInv'
  BY <1>0, <1>12 DEF Cancel, Retry
<1>13. CASE Crash
  BY <1>0, <1>13 DEF Crash
<1>14. CASE UNCHANGED vars
  BY <1>0, <1>14 DEF vars
<1>. QED
  BY <1>1, <1>2, <1>3, <1>4, <1>6, <1>7, <1>8, <1>9, <1>10, <1>11, <1>12, <1>13, <1>14
     DEF Next, Step

LEMMA AloneStep ==
  ASSUME SInv, [Next]_vars PROVE AloneInv'
<1> USE DEF disk, calls, history, Goto, Active, AloneInv
<1>0. TypeInv /\ AloneInv /\ disturbed \in [Workers -> BOOLEAN]
  BY DEF SInv, IInv, RecordInv
<1>1. ASSUME NEW w \in Workers, NEW j \in Jobs, Start(w, j) PROVE AloneInv'
  <2>1. /\ pc[w] = "idle" /\ job' = [job EXCEPT ![w] = j]
        /\ \E l \in {"measure", "handle"} : pc' = [pc EXCEPT ![w] = l]
    BY <1>1 DEF Start
  <2>2. \A v \in Workers :
          v # w /\ pc[v] # "idle" /\ (job[v].target = j.target \/ (Active(v) /\ job[v].op = j.op)) =>
            disturbed'[v]
    BY <1>1 DEF Start
  <2>3. ~ disturbed'[w] =>
          \A v \in Workers : Active(v) => job[v].target # j.target /\ job[v].op # j.op
    BY <1>1 DEF Start
  <2>4. \A v \in Workers : disturbed[v] /\ v # w => disturbed'[v]
    BY <1>1 DEF Start
  <2>. QED
    BY <1>0, <2>1, <2>2, <2>3, <2>4 DEF TypeInv
<1>2. ASSUME NEW w \in Workers, Step(w) \/ Fault(w) PROVE AloneInv'
  <2>1. UNCHANGED job /\ Active(w) /\ \E l \in Places : pc' = [pc EXCEPT ![w] = l]
    BY <1>2 DEF Step, Measure, ResumeTransfer, DiscardStale, BeginTransfer, MarkTransfer, LoadChunk,
      AppendChunk, SaveChunk, FollowChunk, Verify, CheckTarget, Replace, SaveCompleted,
      WriteManifest, UnlinkCheckpoint, Finish, HandleFailure, Fault, Report, Places
  <2>2. \A v \in Workers : ~ disturbed'[v] => ~ disturbed[v]
    BY <1>0, <1>2 DEF Step, Measure, ResumeTransfer, DiscardStale, BeginTransfer, MarkTransfer, LoadChunk,
      AppendChunk, SaveChunk, FollowChunk, Verify, CheckTarget, Replace, SaveCompleted,
      WriteManifest, UnlinkCheckpoint, Finish, HandleFailure, Fault
  <2>. QED
    BY <1>0, <2>1, <2>2 DEF TypeInv
<1>3. ASSUME NEW op \in Ops, Cancel(op) \/ Retry(op) PROVE AloneInv'
  BY <1>0, <1>3 DEF Cancel, Retry
<1>4. CASE Crash
  BY <1>0, <1>4 DEF Crash
<1>5. CASE UNCHANGED vars
  BY <1>0, <1>5 DEF vars
<1>. QED
  BY <1>1, <1>2, <1>3, <1>4, <1>5 DEF Next

\* A step of v stays with its operation, its target and the transfers of its target.
Frame(v) ==
  /\ \A w \in Workers \ {v} :
       /\ pc'[w] = pc[w] /\ job'[w] = job[w] /\ xfer'[w] = xfer[w] /\ at'[w] = at[w]
       /\ view'[w] = view[w] /\ base'[w] = base[w] /\ resumed'[w] = resumed[w]
       /\ disturbed[w] => disturbed'[w]
  /\ \A op \in Ops : op # job'[v].op => tracker'[op] = tracker[op]
  /\ \A t \in Targets : t # job'[v].target =>
       target'[t] = target[t] /\ manifest'[t] = manifest[t] /\ checkpoint'[t] = checkpoint[t]
  /\ \A x \in Transfers :
       \/ saved'[x] = saved[x] /\ temp'[x] = temp[x]
       \/ \A w \in Workers : xfer[w] = x => job[w].target = job'[v].target

LEMMA OthersKept ==
  ASSUME SInv, IInv', AloneInv', NEW v \in Workers, Frame(v),
         (Active(v) /\ job'[v] = job[v]) \/ Active(v)',
         NEW w \in Workers, w # v, ~ disturbed'[w]
  PROVE  StoreOf(w)'
<1>1. /\ pc'[w] = pc[w] /\ job'[w] = job[w] /\ xfer'[w] = xfer[w] /\ at'[w] = at[w]
      /\ view'[w] = view[w] /\ base'[w] = base[w] /\ resumed'[w] = resumed[w] /\ ~ disturbed[w]
  BY DEF Frame
<1>2. StoreOf(w)
  BY <1>1 DEF SInv, StoreInv
<1>3. CASE pc[w] = "idle"
  BY <1>1, <1>3 DEF StoreOf, TransferInv, ProgressInv, ResultInv, CauseInv, UploadPlaces, Publishing,
                    Published, Active
<1>4. CASE pc[w] # "idle"
  <2>1. job[w].target # job'[v].target
    BY <1>1, <1>4 DEF SInv, AloneInv
  <2>2. Active(w) <=> Active(w)'
    BY <1>1 DEF Active
  <2>3. Active(w) => job[w].op # job'[v].op
    BY <1>1, <1>4, <2>2 DEF SInv, AloneInv
  <2>4. job[w] \in Jobs
    BY <1>4 DEF SInv, IInv, PlaceInv
  <2>5. Active(w) => tracker'[job[w].op] = tracker[job[w].op]
    BY <2>3, <2>4 DEF Frame, Jobs
  <2>6. /\ target'[job[w].target] = target[job[w].target]
        /\ manifest'[job[w].target] = manifest[job[w].target]
        /\ checkpoint'[job[w].target] = checkpoint[job[w].target]
    BY <2>1, <2>4 DEF Frame, Jobs
  <2>7. xfer[w] # None => saved'[xfer[w]] = saved[xfer[w]] /\ temp'[xfer[w]] = temp[xfer[w]]
    <3>1. xfer[w] # None => xfer[w] \in Transfers
      BY DEF SInv, IInv, TypeInv
    <3>. QED
      BY <2>1, <3>1 DEF Frame
  <2>8. pc[w] \in UploadPlaces \cup Publishing => xfer[w] # None
    BY NoneApart DEF SInv, IInv, PlaceInv, UploadPlaces, Publishing
  <2>9. TransferInv(w)'
    BY <1>1, <1>2, <2>7, <2>8 DEF StoreOf, TransferInv, UploadPlaces, Publishing
  <2>10. ProgressInv(w)'
    BY <1>1, <1>2, <2>2, <2>5 DEF StoreOf, ProgressInv, UploadPlaces, Reported, Active
  <2>11. ResultInv(w)' /\ CauseInv(w)'
    BY <1>1, <1>2, <2>5, <2>6 DEF StoreOf, ResultInv, CauseInv, Active, Published,
       Described, CursorAllowed
  <2>. QED
    BY <2>9, <2>10, <2>11 DEF StoreOf
<1>. QED
  BY <1>3, <1>4

LEMMA StepFrame ==
  ASSUME SInv, NEW v \in Workers, Step(v) \/ Fault(v)
  PROVE  Frame(v) /\ Active(v) /\ job'[v] = job[v]
<1> USE NoneApart DEF disk, calls, history, Goto
<1>0. TypeInv /\ PlaceInv /\ RecordInv /\ LinkInv /\ FreshInv
  BY DEF SInv, IInv
<1>1. /\ Active(v) /\ job' = job /\ \E l \in Places : pc' = [pc EXCEPT ![v] = l]
      /\ UNCHANGED base \/ \E b : base' = [base EXCEPT ![v] = b]
      /\ UNCHANGED xfer \/ \E b : xfer' = [xfer EXCEPT ![v] = b]
      /\ UNCHANGED at \/ \E b : at' = [at EXCEPT ![v] = b]
      /\ UNCHANGED view \/ \E b : view' = [view EXCEPT ![v] = b]
      /\ UNCHANGED resumed \/ \E b : resumed' = [resumed EXCEPT ![v] = b]
      /\ UNCHANGED disturbed \/ disturbed' = [disturbed EXCEPT ![v] = TRUE]
      /\ UNCHANGED tracker \/ \E b : tracker' = [tracker EXCEPT ![job[v].op] = b]
  <2>1. /\ Active(v) /\ job' = job /\ \E l \in Places : pc' = [pc EXCEPT ![v] = l]
        /\ UNCHANGED tracker \/ \E b : tracker' = [tracker EXCEPT ![job[v].op] = b]
    BY DEF Step, Measure, ResumeTransfer, DiscardStale, BeginTransfer, MarkTransfer, LoadChunk,
      AppendChunk, SaveChunk, FollowChunk, Verify, CheckTarget, Replace, SaveCompleted,
      WriteManifest, UnlinkCheckpoint, Finish, HandleFailure, Fault, Report, Places, Active
  <2>2. /\ UNCHANGED base \/ \E b : base' = [base EXCEPT ![v] = b]
        /\ UNCHANGED xfer \/ \E b : xfer' = [xfer EXCEPT ![v] = b]
        /\ UNCHANGED at \/ \E b : at' = [at EXCEPT ![v] = b]
        /\ UNCHANGED view \/ \E b : view' = [view EXCEPT ![v] = b]
        /\ UNCHANGED resumed \/ \E b : resumed' = [resumed EXCEPT ![v] = b]
        /\ UNCHANGED disturbed \/ disturbed' = [disturbed EXCEPT ![v] = TRUE]
    BY DEF Step, Measure, ResumeTransfer, DiscardStale, BeginTransfer, MarkTransfer, LoadChunk,
      AppendChunk, SaveChunk, FollowChunk, Verify, CheckTarget, Replace, SaveCompleted,
      WriteManifest, UnlinkCheckpoint, Finish, HandleFailure, Fault
  <2>. QED
    BY <2>1, <2>2
<1>2. \A w \in Workers \ {v} :
        /\ pc'[w] = pc[w] /\ job'[w] = job[w] /\ xfer'[w] = xfer[w] /\ at'[w] = at[w]
        /\ view'[w] = view[w] /\ base'[w] = base[w] /\ resumed'[w] = resumed[w]
        /\ disturbed[w] => disturbed'[w]
  BY <1>0, <1>1 DEF TypeInv, RecordInv, FreshInv
<1>3. \A op \in Ops : op # job[v].op => tracker'[op] = tracker[op]
  BY <1>0, <1>1 DEF RecordInv
<1>4. job[v] \in Jobs
  BY <1>0, <1>1 DEF PlaceInv, Active
<1>5. \A t \in Targets : t # job[v].target =>
       target'[t] = target[t] /\ manifest'[t] = manifest[t] /\ checkpoint'[t] = checkpoint[t]
  <2>1. UNCHANGED manifest \/ \E b : manifest' = [manifest EXCEPT ![job[v].target] = b]
    BY DEF Step, Measure, ResumeTransfer, DiscardStale, BeginTransfer, MarkTransfer, LoadChunk,
      AppendChunk, SaveChunk, FollowChunk, Verify, CheckTarget, Replace, SaveCompleted,
      WriteManifest, UnlinkCheckpoint, Finish, HandleFailure, Fault
  <2>2. UNCHANGED checkpoint \/ \E b : checkpoint' = [checkpoint EXCEPT ![job[v].target] = b]
    BY DEF Step, Measure, ResumeTransfer, DiscardStale, BeginTransfer, MarkTransfer, LoadChunk,
      AppendChunk, SaveChunk, FollowChunk, Verify, CheckTarget, Replace, SaveCompleted,
      WriteManifest, UnlinkCheckpoint, Finish, HandleFailure, Fault, Unlinked
  <2>3. UNCHANGED target \/ \E b : target' = [target EXCEPT ![job[v].target] = b]
    <3>1. CASE Replace(v)
      <4>1. view[v].target = job[v].target
        BY <1>0, <3>1 DEF LinkInv, Replace
      <4>. QED
        BY <3>1, <4>1 DEF Replace
    <3>2. CASE ~ Replace(v)
      BY <3>2 DEF Step, Measure, ResumeTransfer, DiscardStale, BeginTransfer, MarkTransfer, LoadChunk,
        AppendChunk, SaveChunk, FollowChunk, Verify, CheckTarget, SaveCompleted,
        WriteManifest, UnlinkCheckpoint, Finish, HandleFailure, Fault
    <3>. QED
      BY <3>1, <3>2
  <2>. QED
    BY <1>0, <2>1, <2>2, <2>3 DEF TypeInv, RecordInv
<1>6. \A x \in Transfers :
       \/ saved'[x] = saved[x] /\ temp'[x] = temp[x]
       \/ \A w \in Workers : xfer[w] = x => job[w].target = job[v].target
  <2>1. ASSUME NEW y \in Transfers, \A w \in Workers : xfer[w] = y => job[w].target = job[v].target,
               UNCHANGED saved \/ \E b : saved' = [saved EXCEPT ![y] = b],
               UNCHANGED temp \/ \E b : temp' = [temp EXCEPT ![y] = b]
        PROVE  \A x \in Transfers :
                 \/ saved'[x] = saved[x] /\ temp'[x] = temp[x]
                 \/ \A w \in Workers : xfer[w] = x => job[w].target = job[v].target
    BY <1>0, <2>1 DEF TypeInv
  <2>2. CASE pc[v] \in {"append", "save", "chunk", "check", "replace", "complete"}
    <3>1. xfer[v] \in Transfers
      BY <1>0, <2>2 DEF PlaceInv
    <3>2. \A w \in Workers : xfer[w] = xfer[v] => job[w].target = job[v].target
      BY <1>0, <3>1 DEF LinkInv
    <3>3. /\ UNCHANGED saved \/ \E b : saved' = [saved EXCEPT ![xfer[v]] = b]
          /\ UNCHANGED temp \/ \E b : temp' = [temp EXCEPT ![xfer[v]] = b]
      BY <2>2 DEF Step, Measure, ResumeTransfer, DiscardStale, BeginTransfer, MarkTransfer, LoadChunk,
        AppendChunk, SaveChunk, FollowChunk, Verify, CheckTarget, Replace, SaveCompleted,
        WriteManifest, UnlinkCheckpoint, Finish, HandleFailure, Fault
    <3>. QED
      BY <2>1, <3>1, <3>2, <3>3
  <2>3. CASE DiscardStale(v)
    <3>1. checkpoint[job[v].target] \in Checkpoints /\ checkpoint[job[v].target] # None
      BY <1>0, <1>4, <2>3 DEF DiscardStale, FindsCheckpoint, TypeInv, Jobs
    <3>2. checkpoint[job[v].target].xfer \in Transfers
      BY <3>1 DEF Checkpoints
    <3>3. \A w \in Workers : xfer[w] = checkpoint[job[v].target].xfer => job[w].target = job[v].target
      BY <1>0, <1>4, <3>1 DEF LinkInv, Jobs
    <3>. QED
      BY <2>1, <2>3, <3>2, <3>3 DEF DiscardStale, Discard
  <2>4. CASE HandleFailure(v)
    <3>1. CASE UNCHANGED <<saved, temp>>
      BY <3>1
    <3>2. CASE ckpt[v] # None /\ Discard(ckpt[v].xfer)
      <4>1. ckpt[v].xfer = xfer[v] /\ ckpt[v] \in Checkpoints
        BY <1>0, <3>2 DEF PlaceInv
      <4>2. xfer[v] \in Transfers
        BY <4>1 DEF Checkpoints
      <4>3. \A w \in Workers : xfer[w] = xfer[v] => job[w].target = job[v].target
        BY <1>0, <4>2 DEF LinkInv
      <4>. QED
        BY <2>1, <3>2, <4>1, <4>2, <4>3 DEF Discard
    <3>. QED
      BY <2>4, <3>1, <3>2 DEF HandleFailure
  <2>5. CASE BeginTransfer(v)
    <3>1. \/ UNCHANGED <<saved, temp>>
          \/ \E x \in Transfers :
               /\ \A w \in Workers : xfer[w] # x
               /\ \E b : saved' = [saved EXCEPT ![x] = b]
               /\ \E b : temp' = [temp EXCEPT ![x] = b]
      BY <2>5 DEF BeginTransfer
    <3>. QED
      BY <2>1, <3>1
  <2>6. CASE UNCHANGED <<saved, temp>>
    BY <2>6
  <2>7. \/ pc[v] \in {"append", "save", "chunk", "check", "replace", "complete"}
        \/ DiscardStale(v) \/ HandleFailure(v) \/ BeginTransfer(v) \/ UNCHANGED <<saved, temp>>
    BY DEF Step, Measure, ResumeTransfer, MarkTransfer, LoadChunk,
        AppendChunk, SaveChunk, FollowChunk, Verify, CheckTarget, Replace, SaveCompleted,
        WriteManifest, UnlinkCheckpoint, Finish, Fault
  <2>. QED
    BY <2>2, <2>3, <2>4, <2>5, <2>6, <2>7
<1>. QED
  BY <1>1, <1>2, <1>3, <1>5, <1>6 DEF Frame

\* A call that is not under way, or fails for a cause, has nothing else to keep.
LEMMA EndedStore ==
  ASSUME NEW v \in Workers,
         pc'[v] \in {"idle", "raised", "dead"} \/ (pc'[v] = "handle" /\ CauseInv(v)')
  PROVE  StoreOf(v)'
BY DEF StoreOf, TransferInv, ProgressInv, ResultInv, CauseInv, UploadPlaces, Publishing, Published,
       Active

LEMMA BlocksFacts ==
  ASSUME NEW c \in Contents
  PROVE  /\ Blocks(c, 0) = <<>> /\ Blocks(c, Size) = Whole(c)
         /\ \A n \in 0..Size : Blocks(c, n) # None
         /\ \A n \in 0..Size : Append(Blocks(c, n), Block(c, n + 1)) = Blocks(c, n + 1)
<1>1. Blocks(c, 0) = <<>> /\ Blocks(c, Size) = Whole(c)
  BY DEF Blocks, Whole
<1>2. \A n \in 0..Size : Blocks(c, n) \in [1..n -> Contents \X Nat]
  BY DEF Blocks, Block
<1>3. ASSUME NEW n \in 0..Size PROVE Append(Blocks(c, n), Block(c, n + 1)) = Blocks(c, n + 1)
  <2>1. n \in Nat
    BY NoneApart
  <2>2. Blocks(c, n) \in Seq(Contents \X Nat) /\ Len(Blocks(c, n)) = n
    BY <1>2, <2>1 DEF Blocks
  <2>3. Block(c, n + 1) \in Contents \X Nat
    BY <2>1 DEF Block
  <2> DEFINE a == Append(Blocks(c, n), Block(c, n + 1))
             b == Blocks(c, n + 1)
  <2>4. DOMAIN a = 1..(n + 1) /\ a = [i \in 1..(n + 1) |-> a[i]]
    BY <2>1, <2>2, <2>3
  <2>5. \A i \in 1..(n + 1) : a[i] = Block(c, i)
    BY <2>1, <2>2, <2>3 DEF Blocks
  <2>. QED
    BY <2>4, <2>5 DEF Blocks
<1>. QED
  BY <1>1, <1>2, <1>3, RecordsAssumption

\* What an undisturbed call has when it takes a step.
Own(v) ==
  /\ TypeInv /\ PlaceInv /\ RecordInv /\ LinkInv /\ StoreOf(v) /\ Active(v)
  /\ job[v] \in Jobs /\ job[v].op \in Ops /\ job[v].target \in Targets /\ job[v].content \in Contents
  /\ tracker[job[v].op] \in R
  /\ job' = job

LEMMA OwnFacts ==
  ASSUME SInv, NEW v \in Workers, Step(v), ~ disturbed'[v]
  PROVE  Own(v)
<1>1. ~ disturbed[v]
  BY StepFrame DEF Step, Measure, ResumeTransfer, DiscardStale, BeginTransfer, MarkTransfer, LoadChunk,
      AppendChunk, SaveChunk, FollowChunk, Verify, CheckTarget, Replace, SaveCompleted,
      WriteManifest, UnlinkCheckpoint, Finish, HandleFailure, history
<1>2. Active(v) /\ job' = job
  BY DEF Step, Measure, ResumeTransfer, DiscardStale, BeginTransfer, MarkTransfer, LoadChunk,
      AppendChunk, SaveChunk, FollowChunk, Verify, CheckTarget, Replace, SaveCompleted,
      WriteManifest, UnlinkCheckpoint, Finish, HandleFailure, Active, calls, history
<1>3. job[v] \in Jobs
  BY <1>2 DEF SInv, IInv, PlaceInv, Active
<1>4. job[v].op \in Ops /\ job[v].target \in Targets /\ job[v].content \in Contents
  BY <1>3 DEF Jobs
<1>5. tracker[job[v].op] \in R
  BY <1>2, <1>4 DEF SInv, RecordInv
<1>. QED
  BY <1>1, <1>2, <1>3, <1>4, <1>5 DEF SInv, IInv, StoreInv, Own

LEMMA MeasureOwn ==
  ASSUME SInv, NEW v \in Workers, Own(v), Measure(v) PROVE StoreOf(v)'
<1> DEFINE op == job[v].op
           r == tracker[op]
           u == [StateOnly("running") EXCEPT !.total = Total(r)]
           s == Updated(r, u, 0)
<1>1. /\ pc[v] = "measure" /\ Active(v) /\ Report(v, u, "prepare")
      /\ base' = [base EXCEPT ![v] = [bytes |-> r.bytes, offset |-> r.offset, total |-> Total(r)]]
      /\ UNCHANGED <<disk, xfer, at>>
  BY DEF Measure, Own
<1>2. r \in R /\ ~ Terminal(r) /\ at[v] = 0 /\ checkpoint[job[v].target] = None
  BY <1>1 DEF Own, StoreOf, ProgressInv, ResultInv
<1>3. /\ u \in StoreUpdates /\ Total(r) \in Nat /\ Total(r) >= r.bytes + Size
      /\ UpdatePass(r, u) \/ r.offset > r.bytes
      /\ UpdatePass(r, u) => s.total = Total(r) /\ s.bytes = r.bytes /\ s.offset = r.offset
  BY <1>2, MeasureFacts
<1>4. /\ tracker' = [tracker EXCEPT ![op] = s]
      /\ pc' = [pc EXCEPT ![v] = IF UpdatePass(r, u) THEN "prepare" ELSE "handle"]
      /\ UpdatePass(r, u) => ~ Terminal(s)
  BY <1>1, <1>2, <1>3, ReportFacts, UpdateFacts
<1>5. /\ job' = job /\ tracker'[op] = s
      /\ base'[v].bytes = r.bytes /\ base'[v].offset = r.offset /\ base'[v].total = Total(r)
      /\ pc'[v] = IF UpdatePass(r, u) THEN "prepare" ELSE "handle"
  BY <1>1, <1>4 DEF Own, TypeInv, RecordInv
<1>6. r.bytes \in Nat /\ r.offset \in Nat /\ Size \in Nat
  BY <1>2, NoneApart DEF R, Records
<1> HIDE DEF u, s, r, op
<1>7. CASE UpdatePass(r, u)
  <2>1. pc'[v] = "prepare" /\ at'[v] = 0 /\ checkpoint'[job'[v].target] = None /\ tracker'[job'[v].op] = s
    BY <1>1, <1>2, <1>5, <1>7 DEF disk, op
  <2>2. TransferInv(v)' /\ ResultInv(v)' /\ CauseInv(v)'
    BY <2>1 DEF TransferInv, ResultInv, CauseInv, UploadPlaces, Publishing, Published
  <2>3. ProgressInv(v)'
    BY <1>3, <1>4, <1>5, <1>6, <1>7, <2>1 DEF ProgressInv, Reported, UploadPlaces
  <2>. QED
    BY <2>2, <2>3 DEF StoreOf
<1>8. CASE ~ UpdatePass(r, u)
  <2>1. pc'[v] = "handle" /\ CauseInv(v)'
    BY <1>3, <1>5, <1>8 DEF CauseInv
  <2>. QED
    BY <2>1, EndedStore
<1>. QED
  BY <1>7, <1>8

LEMMA BeginOwn ==
  ASSUME SInv, NEW v \in Workers, Own(v),
         ResumeTransfer(v) \/ DiscardStale(v) \/ BeginTransfer(v)
  PROVE  StoreOf(v)'
<1> DEFINE j == job[v]
<1>1. pc[v] = "prepare" /\ checkpoint[j.target] = None /\ BeginTransfer(v) /\ at[v] = 0
  BY DEF Own, StoreOf, ResultInv, TransferInv, ResumeTransfer, DiscardStale, BeginTransfer, FindsCheckpoint
<1>2. UNCHANGED <<target, manifest, checkpoint, tracker, job, at, view, base>>
  BY <1>1 DEF BeginTransfer
<1>3. CASE Goto(v, "handle") /\ target[j.target] # None /\ ~ j.overwrite
  <2>1. pc'[v] = "handle" /\ CauseInv(v)'
    BY <1>2, <1>3 DEF Own, TypeInv, Goto, CauseInv
  <2>. QED
    BY <2>1, EndedStore
<1>4. ASSUME NEW x \in Transfers,
             saved' = [saved EXCEPT ![x] =
                 [content |-> j.content, target |-> j.target,
                  overwrite |-> j.overwrite, offset |-> 0, status |-> "created"]],
             temp' = [temp EXCEPT ![x] = <<>>], xfer' = [xfer EXCEPT ![v] = x], Goto(v, "mark")
      PROVE  StoreOf(v)'
  <2> DEFINE s == [content |-> j.content, target |-> j.target,
                   overwrite |-> j.overwrite, offset |-> 0, status |-> "created"]
  <2>1. s \in TransferStates
    BY DEF TransferStates, Own, Jobs
  <2>2. s # None /\ s.content = j.content /\ s.overwrite = j.overwrite /\ s.status = "created" /\ s.offset = 0
    BY <2>1, RecordsAssumption
  <2> HIDE DEF s
  <2>3. pc'[v] = "mark" /\ xfer'[v] = x /\ saved'[x] = s /\ temp'[x] = <<>> /\ at'[v] = 0 /\ job' = job
    BY <1>1, <1>2, <1>4 DEF Own, TypeInv, Goto, s
  <2>4. TransferInv(v)'
    BY <2>2, <2>3, BlocksFacts DEF TransferInv, Own, UploadPlaces, Publishing
  <2>5. ProgressInv(v)'
    BY <1>1, <1>2, <2>3 DEF Own, StoreOf, ProgressInv, Reported, UploadPlaces, Active
  <2>6. ResultInv(v)' /\ CauseInv(v)'
    BY <2>3 DEF ResultInv, CauseInv, Published
  <2>. QED
    BY <2>4, <2>5, <2>6 DEF StoreOf
<1>. QED
  BY <1>1, <1>3, <1>4 DEF BeginTransfer

LEMMA ChunkOwn ==
  ASSUME SInv, NEW v \in Workers, Own(v),
         MarkTransfer(v) \/ LoadChunk(v) \/ AppendChunk(v) \/ SaveChunk(v)
  PROVE  StoreOf(v)'
<1> USE DEF Goto, UploadPlaces, Publishing, disk, calls
<1> DEFINE x == xfer[v]
           s == saved[x]
<1>1. pc[v] \in UploadPlaces /\ x \in Transfers /\ Size \in Nat /\ at[v] \in Nat
  BY NoneApart DEF Own, PlaceInv, TypeInv, MarkTransfer, LoadChunk, AppendChunk, SaveChunk
<1>2. /\ s # None /\ s.content = job[v].content /\ s.overwrite = job[v].overwrite
      /\ s.status = "created" /\ s.offset = at[v] /\ s \in TransferStates
      /\ temp[x] = Blocks(job[v].content, IF pc[v] = "save" THEN at[v] + 1 ELSE at[v])
      /\ at[v] <= Size
  BY <1>1 DEF Own, StoreOf, TransferInv, ProgressInv, TypeInv
<1>3. /\ job' = job /\ xfer' = xfer /\ base' = base /\ tracker' = tracker
      /\ ~ Terminal(tracker[job[v].op])
  BY <1>1 DEF Own, StoreOf, ProgressInv, MarkTransfer, LoadChunk, AppendChunk, SaveChunk
<1>4. ASSUME pc'[v] \in UploadPlaces,
             pc'[v] = "follow" => at'[v] = at[v] + 1 /\ at[v] < Size,
             pc'[v] # "follow" => at' = at,
             pc[v] # "follow"
      PROVE  ProgressInv(v)'
  BY <1>1, <1>2, <1>3, <1>4 DEF Own, StoreOf, ProgressInv, Reported, Active
<1>5. pc'[v] \in UploadPlaces => ResultInv(v)' /\ CauseInv(v)'
  BY DEF ResultInv, CauseInv, Published
<1>6. CASE MarkTransfer(v)
  <2>1. pc[v] = "mark" /\ pc'[v] = "chunk" /\ saved' = saved /\ temp' = temp /\ at' = at
    BY <1>6 DEF MarkTransfer, Own, TypeInv
  <2>2. TransferInv(v)'
    BY <1>2, <1>3, <2>1 DEF TransferInv
  <2>. QED
    BY <1>4, <1>5, <2>1, <2>2 DEF StoreOf
<1>7. CASE LoadChunk(v)
  <2>1. /\ pc[v] = "chunk" /\ pc'[v] = "append" /\ saved' = saved /\ temp' = temp /\ at' = at
        /\ at[v] < Size /\ view'[v] = s
    BY <1>2, <1>7 DEF LoadChunk, Own, TypeInv
  <2>2. TransferInv(v)'
    BY <1>2, <1>3, <2>1 DEF TransferInv
  <2>. QED
    BY <1>4, <1>5, <2>1, <2>2 DEF StoreOf
<1>8. CASE AppendChunk(v)
  <2>1. /\ pc[v] = "append" /\ pc'[v] = "save" /\ saved' = saved /\ at' = at /\ view' = view
        /\ temp'[x] = Append(IF temp[x] = None THEN <<>> ELSE temp[x],
                             Block(job[v].content, at[v] + 1))
    BY <1>1, <1>8 DEF AppendChunk, Own, TypeInv
  <2>2. at[v] < Size /\ view[v] = s
    BY <2>1 DEF Own, StoreOf, TransferInv
  <2>3. temp'[x] = Blocks(job[v].content, at[v] + 1)
    <3>1. /\ job[v].content \in Contents /\ at[v] \in 0..Size
          /\ temp[x] = Blocks(job[v].content, at[v])
      BY <1>1, <1>2, <2>1 DEF Own
    <3>2. /\ temp[x] # None
          /\ Append(temp[x], Block(job[v].content, at[v] + 1))
               = Blocks(job[v].content, at[v] + 1)
      <4>. HIDE DEF x
      <4>. QED  BY <3>1, BlocksFacts
    <3>. QED  BY <2>1, <3>2
  <2>4. TransferInv(v)'
    BY <1>2, <1>3, <2>1, <2>2, <2>3 DEF TransferInv
  <2>. QED
    BY <1>4, <1>5, <2>1, <2>4 DEF StoreOf
<1>9. CASE SaveChunk(v)
  <2>1. pc[v] = "save" /\ at[v] < Size /\ view[v] = s
    BY <1>9 DEF Own, StoreOf, TransferInv, SaveChunk
  <2>2. /\ pc'[v] = "follow" /\ temp' = temp /\ at'[v] = at[v] + 1
        /\ saved'[x] = [s EXCEPT !.offset = at[v] + 1]
    BY <1>1, <1>9, <2>1 DEF SaveChunk, Own, TypeInv
  <2> DEFINE n == [s EXCEPT !.offset = at[v] + 1]
  <2>3. /\ n # None /\ n.content = s.content /\ n.overwrite = s.overwrite
        /\ n.status = s.status /\ n.offset = at[v] + 1
    <3>1. n \in TransferStates
      BY <1>1, <1>2 DEF TransferStates
    <3>. QED
      BY <1>2, <3>1, RecordsAssumption DEF TransferStates
  <2> HIDE DEF n
  <2>4. saved'[x] = n
    BY <2>2 DEF n
  <2>5. TransferInv(v)'
    BY <1>2, <1>3, <2>1, <2>2, <2>3, <2>4 DEF TransferInv
  <2>. QED
    BY <1>4, <1>5, <2>1, <2>2, <2>5 DEF StoreOf
<1>. QED
  BY <1>6, <1>7, <1>8, <1>9

LEMMA FollowOwn ==
  ASSUME SInv, NEW v \in Workers, Own(v), FollowChunk(v) PROVE StoreOf(v)'
<1> DEFINE op == job[v].op
           r == tracker[op]
           b == base[v]
           u == [StateOnly("running") EXCEPT !.bytes = b.bytes + at[v], !.offset = b.offset + at[v],
                                             !.total = b.total]
           s == Updated(r, u, 0)
<1>1. /\ pc[v] = "follow" /\ Active(v) /\ Report(v, u, "chunk")
      /\ UNCHANGED <<target, manifest, saved, temp, job, xfer, at, view, base>>
  BY DEF FollowChunk, Own, calls
<1>2. /\ r \in R /\ ~ Terminal(r) /\ b \in [bytes : Nat, offset : Nat, total : Nat]
      /\ at[v] \in Nat /\ 0 < at[v] /\ at[v] <= Size /\ b.total >= b.bytes + Size
      /\ r.bytes = b.bytes + (at[v] - 1) /\ r.offset = b.offset + (at[v] - 1) /\ r.total = b.total
  BY <1>1 DEF Own, StoreOf, ProgressInv, Reported, UploadPlaces, Active, RecordInv, TypeInv
<1>3. /\ u \in StoreUpdates
      /\ UpdatePass(r, u) \/ ~ r.caps.offsets \/ b.offset > b.bytes
      /\ UpdatePass(r, u) => s.total = b.total /\ s.bytes = b.bytes + at[v] /\ s.offset = b.offset + at[v]
  BY <1>2, FollowFacts
<1>4. /\ tracker' = [tracker EXCEPT ![op] = s]
      /\ pc' = [pc EXCEPT ![v] = IF UpdatePass(r, u) THEN "chunk" ELSE "handle"]
      /\ UpdatePass(r, u) => ~ Terminal(s)
      /\ s.caps = r.caps
  BY <1>1, <1>2, <1>3, ReportFacts, UpdateFacts
<1>5. /\ job' = job /\ tracker'[op] = s
      /\ pc'[v] = IF UpdatePass(r, u) THEN "chunk" ELSE "handle"
  BY <1>1, <1>4 DEF Own, TypeInv, RecordInv
<1>6. TransferInv(v)
  BY DEF Own, StoreOf
<1> HIDE DEF u, s, r
<1>7. CASE UpdatePass(r, u)
  <2>1. pc'[v] = "chunk" /\ at' = at /\ base' = base /\ tracker'[job'[v].op] = s
    BY <1>1, <1>5, <1>7
  <2>2. TransferInv(v)'
    BY <1>1, <1>6, <2>1 DEF TransferInv, UploadPlaces, Publishing
  <2>3. ResultInv(v)' /\ CauseInv(v)'
    BY <2>1 DEF ResultInv, CauseInv, Published
  <2>4. ProgressInv(v)'
    BY <1>2, <1>3, <1>4, <1>7, <2>1 DEF ProgressInv, Reported, UploadPlaces
  <2>. QED
    BY <2>2, <2>3, <2>4 DEF StoreOf
<1>8. CASE ~ UpdatePass(r, u)
  <2>1. pc'[v] = "handle" /\ CauseInv(v)'
    BY <1>1, <1>3, <1>4, <1>5, <1>8 DEF CauseInv
  <2>. QED
    BY <2>1, EndedStore
<1>. QED
  BY <1>7, <1>8

LEMMA PublishOwn ==
  ASSUME SInv, NEW v \in Workers, Own(v),
         Verify(v) \/ CheckTarget(v) \/ Replace(v) \/ SaveCompleted(v)
  PROVE  StoreOf(v)'
<1> USE DEF Goto, disk, calls
<1> DEFINE x == xfer[v]
           s == saved[x]
           t == job[v].target
<1>1. /\ job' = job /\ tracker' = tracker /\ ~ Terminal(tracker[job[v].op])
      /\ x \in Transfers /\ view[v] # None => view[v] \in TransferStates
  BY DEF Own, PlaceInv, TypeInv, StoreOf, ProgressInv, Active, Verify, CheckTarget, Replace, SaveCompleted
<1>2. pc'[v] \in {"check", "replace", "complete", "manifest"} => ProgressInv(v)' /\ CauseInv(v)'
  BY <1>1 DEF ProgressInv, CauseInv, UploadPlaces
<1>3. CASE Verify(v)
  <2>1. /\ pc[v] = "chunk" /\ at[v] = Size /\ s # None /\ s.content = job[v].content
        /\ s.overwrite = job[v].overwrite /\ s.status = "created" /\ s.offset = Size
        /\ temp[x] = Whole(job[v].content) /\ temp[x] # None
    BY <1>3, NoneApart, BlocksFacts DEF Verify, Own, StoreOf, TransferInv, UploadPlaces
  <2>2. pc'[v] = "check" /\ view'[v] = s /\ temp' = temp /\ xfer' = xfer
    BY <1>3, <2>1 DEF Verify, Verified, Own, TypeInv
  <2>3. TransferInv(v)' /\ ResultInv(v)'
    BY <1>1, <2>1, <2>2 DEF TransferInv, ResultInv, UploadPlaces, Publishing, Published
  <2>. QED
    BY <1>2, <2>2, <2>3 DEF StoreOf
<1>4. CASE CheckTarget(v)
  <2>1. pc[v] = "check" /\ view[v].target = t /\ view[v].overwrite = job[v].overwrite
    BY <1>4 DEF CheckTarget, Own, LinkInv, StoreOf, TransferInv, Publishing
  <2>2. CASE pc'[v] = "replace"
    <3>1. TransferInv(v)' /\ ResultInv(v)'
      BY <1>1, <1>4, <2>1, <2>2 DEF CheckTarget, Own, StoreOf, TransferInv, ResultInv, UploadPlaces,
         Publishing, Published
    <3>. QED
      BY <1>2, <2>2, <3>1 DEF StoreOf
  <2>3. CASE pc'[v] = "handle"
    <3>1. target[t] # None /\ ~ job[v].overwrite /\ target' = target
      BY <1>4, <2>1, <2>3 DEF CheckTarget, Own, TypeInv
    <3>2. CauseInv(v)'
      BY <1>1, <3>1 DEF CauseInv
    <3>. QED
      BY <2>3, <3>2, EndedStore
  <2>. QED
    BY <1>4, <2>2, <2>3 DEF CheckTarget, Own, TypeInv
<1>5. CASE Replace(v)
  <2>1. /\ pc[v] = "replace" /\ view[v].target = t /\ temp[x] = Whole(job[v].content)
        /\ temp[x] # None
    BY <1>5, NoneApart, BlocksFacts DEF Replace, Own, LinkInv, StoreOf, TransferInv, Publishing
  <2>2. pc'[v] = "complete" /\ target'[t] = Whole(job[v].content)
    BY <1>5, <2>1 DEF Replace, Own, TypeInv
  <2>3. TransferInv(v)' /\ ResultInv(v)'
    BY <1>1, <2>2 DEF TransferInv, ResultInv, UploadPlaces, Publishing, Published
  <2>. QED
    BY <1>2, <2>2, <2>3 DEF StoreOf
<1>6. CASE SaveCompleted(v)
  <2>1. pc[v] = "complete" /\ target[t] = Whole(job[v].content)
    BY <1>6 DEF SaveCompleted, Own, StoreOf, ResultInv
  <2>2. pc'[v] = "manifest" /\ target' = target
    BY <1>6 DEF SaveCompleted, Own, TypeInv
  <2>3. TransferInv(v)' /\ ResultInv(v)'
    BY <1>1, <2>1, <2>2 DEF TransferInv, ResultInv, UploadPlaces, Publishing, Published
  <2>. QED
    BY <1>2, <2>2, <2>3 DEF StoreOf
<1>. QED
  BY <1>3, <1>4, <1>5, <1>6

LEMMA FinishOwn ==
  ASSUME SInv, NEW v \in Workers, Own(v),
         WriteManifest(v) \/ UnlinkCheckpoint(v) \/ Finish(v) \/ HandleFailure(v)
  PROVE  StoreOf(v)'
<1> USE DEF Goto, disk, calls
<1> DEFINE t == job[v].target
<1>1. job' = job /\ t \in Targets /\ DOMAIN manifest = Targets /\ DOMAIN checkpoint = Targets
      /\ DOMAIN pc = Workers
  BY DEF Own, RecordInv, TypeInv
<1>2. ASSUME pc'[v] \in Published, tracker' = tracker, pc[v] # "handle"
      PROVE  ProgressInv(v)' /\ CauseInv(v)' /\ TransferInv(v)'
  BY <1>1, <1>2 DEF Own, StoreOf, ProgressInv, CauseInv, TransferInv, Published, UploadPlaces, Publishing,
     Active
<1>3. CASE WriteManifest(v)
  <2>1. /\ pc[v] = "manifest" /\ tracker' = tracker /\ target' = target /\ resumed' = resumed
        /\ target[t] = Whole(job[v].content)
    BY <1>1, <1>3 DEF WriteManifest, Own, StoreOf, ResultInv, Published
  <2>2. CASE Described(v)
    <3>1. pc'[v] = "unlink" /\ manifest'[t] = job[v].content
      BY <1>1, <1>3, <2>2 DEF WriteManifest
    <3>2. ResultInv(v)'
      BY <1>1, <2>1, <3>1 DEF ResultInv, Published
    <3>. QED
      BY <1>2, <2>1, <3>1, <3>2 DEF StoreOf, Published
  <2>3. CASE ~ Described(v)
    <3>1. pc'[v] = "handle"
      BY <1>1, <1>3, <2>3 DEF WriteManifest
    <3>2. CauseInv(v)'
      BY <1>1, <2>1, <2>3 DEF CauseInv, Described, CursorAllowed
    <3>. QED
      BY <3>1, <3>2, EndedStore
  <2>. QED
    BY <2>2, <2>3
<1>4. CASE UnlinkCheckpoint(v)
  <2>1. /\ pc[v] = "unlink" /\ pc'[v] = "finish" /\ tracker' = tracker /\ target' = target
        /\ manifest' = manifest /\ checkpoint'[t] = None
        /\ manifest[t] = job[v].content /\ target[t] = Whole(job[v].content)
    BY <1>1, <1>4 DEF UnlinkCheckpoint, Unlinked, Own, StoreOf, ResultInv, Published
  <2>2. ResultInv(v)'
    BY <1>1, <2>1 DEF ResultInv, Published
  <2>. QED
    BY <1>2, <2>1, <2>2 DEF StoreOf, Published
<1>5. CASE Finish(v)
  <2>1. /\ pc[v] = "finish" /\ ~ Terminal(tracker[job[v].op]) /\ checkpoint[t] = None
        /\ manifest[t] = job[v].content /\ target[t] = Whole(job[v].content)
    BY <1>5 DEF Finish, Own, StoreOf, ResultInv, ProgressInv, Published, Active
  <2>2. pc'[v] = "returned" /\ UNCHANGED disk
    BY <1>1, <1>5, <2>1 DEF Finish, MayFinish
  <2>3. ResultInv(v)'
    BY <1>1, <2>1, <2>2 DEF ResultInv, Published
  <2>4. ProgressInv(v)' /\ CauseInv(v)' /\ TransferInv(v)'
    BY <2>2 DEF ProgressInv, CauseInv, TransferInv, Published, UploadPlaces, Publishing, Active
  <2>. QED
    BY <2>3, <2>4 DEF StoreOf
<1>6. CASE HandleFailure(v)
  BY <1>1, <1>6, EndedStore DEF HandleFailure
<1>. QED
  BY <1>3, <1>4, <1>5, <1>6

LEMMA FreshStep ==
  ASSUME SInv, [Next]_vars PROVE FreshInv'
<1> USE DEF FreshInv, disk, calls, history, Goto
<1>0. TypeInv /\ FreshInv
  BY DEF SInv, IInv
<1>1. ASSUME NEW v \in Workers, NEW j \in Jobs, Start(v, j) PROVE FreshInv'
  <2>1. UNCHANGED <<at, base, resumed>> /\ \E l \in {"measure", "handle"} : pc' = [pc EXCEPT ![v] = l]
    BY <1>1 DEF Start
  <2>. QED
    BY <1>0, <2>1 DEF TypeInv
<1>2. ASSUME NEW v \in Workers, Step(v) \/ Fault(v) PROVE FreshInv'
  <2>1. pc'[v] # "idle"
    BY <1>0, <1>2 DEF Step, Measure, ResumeTransfer, DiscardStale, BeginTransfer, MarkTransfer, LoadChunk,
      AppendChunk, SaveChunk, FollowChunk, Verify, CheckTarget, Replace, SaveCompleted,
      WriteManifest, UnlinkCheckpoint, Finish, HandleFailure, Fault, Report, TypeInv
  <2>2. \A w \in Workers \ {v} : pc'[w] = pc[w] /\ at'[w] = at[w] /\ base'[w] = base[w]
    BY <1>2, StepFrame DEF Frame
  <2>3. DOMAIN resumed' = Workers
    BY <1>0, <1>2 DEF Step, Measure, ResumeTransfer, DiscardStale, BeginTransfer, MarkTransfer, LoadChunk,
      AppendChunk, SaveChunk, FollowChunk, Verify, CheckTarget, Replace, SaveCompleted,
      WriteManifest, UnlinkCheckpoint, Finish, HandleFailure, Fault
  <2>. QED
    BY <1>0, <2>1, <2>2, <2>3
<1>3. ASSUME NEW op \in Ops, Cancel(op) \/ Retry(op) PROVE FreshInv'
  BY <1>0, <1>3 DEF Cancel, Retry
<1>4. CASE Crash
  BY <1>0, <1>4 DEF Crash, Active
<1>5. CASE UNCHANGED vars
  BY <1>0, <1>5 DEF vars
<1>. QED
  BY <1>1, <1>2, <1>3, <1>4, <1>5 DEF Next

\* A new call is alive, within its total and not superseded, or fails for that cause;
\* it touches nothing of the others.
LEMMA StartStore ==
  ASSUME SInv, IInv', AloneInv', NEW v \in Workers, NEW j \in Jobs, Start(v, j)
  PROVE  StoreInv'
<1>0. TypeInv /\ RecordInv /\ FreshInv
  BY DEF SInv, IInv
<1>1. /\ pc[v] = "idle" /\ job' = [job EXCEPT ![v] = j]
      /\ UNCHANGED <<disk, xfer, at, view, base, resumed>>
      /\ j.op \in Ops /\ at[v] = 0 /\ base[v] = NoBase
      /\ ~ disturbed'[v] => checkpoint[j.target] = None
      /\ \A w \in Workers \ {v} : disturbed[w] => disturbed'[w]
  BY <1>0 DEF Start, FreshInv, Jobs
<1> DEFINE u == [StateOnly("running") EXCEPT !.attempt = j.attempt]
<1>2. PICK r \in IF j.op \in begun THEN {tracker[j.op]} ELSE FirstRecords :
        /\ tracker' = [tracker EXCEPT ![j.op] = Updated(r, u, 0)]
        /\ Goto(v, IF UpdatePass(r, u) THEN "measure" ELSE "handle")
  BY DEF Start
<1> DEFINE s == Updated(r, u, 0)
<1>3. r \in R
  BY <1>0, <1>1, <1>2, RecordsAssumption DEF Start, RecordInv, R
<1>4. /\ s.bytes = r.bytes /\ s.offset = r.offset /\ s.total = r.total
      /\ UpdatePass(r, u) => ~ Terminal(s) /\ WithinTotal(s)
      /\ ~ UpdatePass(r, u) =>
           /\ s.state = r.state /\ s.attempt = r.attempt
           /\ Terminal(r) \/ ~ WithinTotal(r) \/ j.attempt < r.attempt
  <2>1. j.attempt \in Nat /\ Given(j.attempt) /\ r.attempt \in Nat
    BY <1>3, StoreAssumption DEF Jobs, Given, R, Records
  <2>2. /\ u \in StoreUpdates /\ s.bytes = r.bytes /\ s.offset = r.offset /\ s.total = r.total
        /\ UpdatePass(r, u) <=> ~ Terminal(r) /\ WithinTotal(r) /\ j.attempt >= r.attempt
    BY <1>3, <2>1, AttemptFacts
  <2> HIDE DEF u
  <2>. QED
    BY <1>3, <2>1, <2>2, UpdateFacts
<1>5. /\ tracker'[j.op] = s /\ job'[v] = j
      /\ pc'[v] = IF UpdatePass(r, u) THEN "measure" ELSE "handle"
  BY <1>0, <1>1, <1>2 DEF RecordInv, TypeInv, Goto
<1> HIDE DEF u, s
<1>6. StoreOf(v)' \/ disturbed'[v]
  <2>1. CASE UpdatePass(r, u) /\ ~ disturbed'[v]
    <3>1. pc'[v] = "measure" /\ ~ Terminal(s) /\ WithinTotal(s) /\ at'[v] = 0
          /\ checkpoint'[job'[v].target] = None /\ tracker'[job'[v].op] = s
      BY <1>1, <1>4, <1>5, <2>1 DEF disk
    <3>. QED
      BY <3>1 DEF StoreOf, TransferInv, ProgressInv, ResultInv, CauseInv, UploadPlaces, Publishing,
         Published
  <2>2. CASE ~ UpdatePass(r, u)
    <3>1. pc'[v] = "handle" /\ tracker'[job'[v].op] = s /\ base'[v] = NoBase
          /\ (Terminal(s) \/ ~ WithinTotal(s) \/ job'[v].attempt < s.attempt)
      BY <1>1, <1>4, <1>5, <2>2 DEF Terminal, WithinTotal, ProgressBytes
    <3>2. CauseInv(v)'
      BY <3>1 DEF CauseInv
    <3>. QED
      BY <3>1, <3>2, EndedStore
  <2>. QED
    BY <2>1, <2>2
<1>7. Frame(v) /\ Active(v)'
  <2>1. \A w \in Workers \ {v} : pc'[w] = pc[w] /\ job'[w] = job[w]
    BY <1>0, <1>1, <1>2 DEF TypeInv, Goto
  <2>2. \A op \in Ops : op # j.op => tracker'[op] = tracker[op]
    BY <1>0, <1>1, <1>2 DEF RecordInv
  <2>3. Active(v)'
    BY <1>5 DEF Active
  <2>. QED
    BY <1>1, <1>5, <2>1, <2>2, <2>3 DEF Frame, disk
<1>. QED
  BY <1>6, <1>7, OthersKept DEF StoreInv

\* A further attempt of an operation leaves the stores of it that still run alone.
LEMMA RetryStore ==
  ASSUME SInv, NEW op \in Ops, Retry(op) PROVE StoreInv'
<1>1. UNCHANGED <<disk, pc, calls, disturbed>> /\ DOMAIN tracker = Ops
  BY DEF Retry, history, SInv, RecordInv
<1>2. PICK r \in R :
        /\ tracker' = [tracker EXCEPT ![op] = r] /\ ~ Terminal(r)
        /\ r.caps = tracker[op].caps /\ r.bytes = tracker[op].bytes
        /\ r.offset = tracker[op].offset /\ r.total = tracker[op].total
        /\ r.attempt >= tracker[op].attempt /\ tracker[op] \in R /\ ~ Terminal(tracker[op])
  BY RetryFacts DEF SInv
<1>3. \A o \in Ops :
        /\ Terminal(tracker'[o]) <=> Terminal(tracker[o])
        /\ WithinTotal(tracker'[o]) <=> WithinTotal(tracker[o])
        /\ tracker'[o].bytes = tracker[o].bytes /\ tracker'[o].offset = tracker[o].offset
        /\ tracker'[o].total = tracker[o].total /\ tracker'[o].caps = tracker[o].caps
  BY <1>1, <1>2 DEF WithinTotal, ProgressBytes
<1>4. \A o \in Ops, n \in Nat : n < tracker[o].attempt => n < tracker'[o].attempt
  <2> SUFFICES ASSUME NEW o \in Ops, NEW n \in Nat, n < tracker[o].attempt
               PROVE  n < tracker'[o].attempt
    OBVIOUS
  <2>1. CASE o = op
    BY <1>1, <1>2, <2>1 DEF R, Records
  <2>2. CASE o # op
    BY <1>1, <1>2, <2>2
  <2>. QED
    BY <2>1, <2>2
<1>5. ASSUME NEW w \in Workers, ~ disturbed'[w] PROVE StoreOf(w)'
  <2>1. StoreOf(w)
    BY <1>1, <1>5 DEF SInv, StoreInv
  <2>2. Active(w) => job[w].op \in Ops /\ job[w].attempt \in Nat
    BY StoreAssumption DEF SInv, IInv, PlaceInv, Active, Jobs
  <2>3. TransferInv(w)' /\ ResultInv(w)'
    BY <1>1, <2>1 DEF StoreOf, TransferInv, ResultInv, disk, calls
  <2>4. ProgressInv(w)'
    BY <1>1, <1>3, <2>1, <2>2 DEF StoreOf, ProgressInv, Reported, UploadPlaces, Active, calls
  <2>5. CauseInv(w)'
    <3> SUFFICES ASSUME pc[w] = "handle" PROVE CauseInv(w)'
      BY <1>1 DEF CauseInv
    <3>1. job[w].op \in Ops /\ job[w].attempt \in Nat
      BY <2>2 DEF Active
    <3>. QED
      BY <1>1, <1>3, <1>4, <2>1, <3>1 DEF StoreOf, CauseInv, Described, CursorAllowed, disk, calls
  <2>. QED
    BY <2>3, <2>4, <2>5 DEF StoreOf
<1>. QED
  BY <1>5 DEF StoreInv

LEMMA StoreStep ==
  ASSUME SInv, [Next]_vars, IInv', AloneInv' PROVE StoreInv'
<1> USE DEF disk, calls
<1>1. ASSUME NEW v \in Workers, NEW j \in Jobs, Start(v, j) PROVE StoreInv'
  BY <1>1, StartStore
<1>2. ASSUME NEW v \in Workers, Step(v) \/ Fault(v) PROVE StoreInv'
  <2>1. Frame(v) /\ Active(v) /\ job'[v] = job[v]
    BY <1>2, StepFrame
  <2>2. ASSUME NEW w \in Workers, w # v, ~ disturbed'[w] PROVE StoreOf(w)'
    BY <2>1, <2>2, OthersKept
  <2>3. ASSUME ~ disturbed'[v] PROVE StoreOf(v)'
    <3>1. Step(v)
      BY <1>2, <2>3 DEF Fault, SInv, RecordInv
    <3>2. Own(v)
      BY <2>3, <3>1, OwnFacts
    <3>. QED
      BY <3>1, <3>2, MeasureOwn, BeginOwn, ChunkOwn, FollowOwn, PublishOwn, FinishOwn DEF Step
  <2>. QED
    BY <2>2, <2>3 DEF StoreInv
<1>3. ASSUME NEW op \in Ops, Cancel(op) PROVE StoreInv'
  <2>1. UNCHANGED <<disk, pc, calls>> /\ \A o \in Ops : o # op => tracker'[o] = tracker[o]
    BY <1>3 DEF Cancel, SInv, RecordInv
  <2>2. ASSUME NEW w \in Workers, ~ disturbed'[w] PROVE StoreOf(w)'
    <3>1. StoreOf(w) /\ (Active(w) => job[w].op # op)
      BY <1>3, <2>2 DEF Cancel, SInv, StoreInv
    <3>2. Active(w) => tracker'[job[w].op] = tracker[job[w].op]
      BY <2>1, <3>1 DEF SInv, IInv, PlaceInv, Active, Jobs
    <3>3. TransferInv(w)' /\ ResultInv(w)'
      BY <2>1, <3>1 DEF StoreOf, TransferInv, ResultInv
    <3>4. ProgressInv(w)' /\ CauseInv(w)'
      BY <2>1, <3>1, <3>2 DEF StoreOf, ProgressInv, CauseInv, Described, CursorAllowed, Reported,
         UploadPlaces, Active
    <3>. QED
      BY <3>3, <3>4 DEF StoreOf
  <2>. QED
    BY <2>2 DEF StoreInv
<1>4. CASE Crash
  <2>1. ASSUME NEW w \in Workers, ~ disturbed'[w] PROVE StoreOf(w)'
    <3>1. CASE Active(w)
      BY <1>4, <3>1, EndedStore DEF Crash
    <3>2. CASE ~ Active(w)
      <4>1. StoreOf(w) /\ pc'[w] = pc[w] /\ UNCHANGED <<disk, calls>>
        BY <1>4, <2>1, <3>2 DEF Crash, SInv, StoreInv, history
      <4>2. ResultInv(w)' /\ TransferInv(w)'
        BY <4>1 DEF StoreOf, ResultInv, TransferInv
      <4>3. ProgressInv(w)' /\ CauseInv(w)'
        BY <3>2, <4>1 DEF ProgressInv, CauseInv, UploadPlaces, Active
      <4>. QED
        BY <4>2, <4>3 DEF StoreOf
    <3>. QED
      BY <3>1, <3>2
  <2>. QED
    BY <2>1 DEF StoreInv
<1>5. CASE UNCHANGED vars
  <2>1. UNCHANGED <<disk, pc, calls, tracker, disturbed>>
    BY <1>5 DEF vars, history
  <2>2. ASSUME NEW w \in Workers, ~ disturbed'[w] PROVE StoreOf(w)'
    BY <2>1, <2>2 DEF SInv, StoreInv, StoreOf, TransferInv, ProgressInv, ResultInv, CauseInv,
       Described, CursorAllowed, Reported, UploadPlaces, Active
  <2>. QED
    BY <2>2 DEF StoreInv
<1>6. ASSUME NEW op \in Ops, Retry(op) PROVE StoreInv'
  BY <1>6, RetryStore
<1>. QED
  BY <1>1, <1>2, <1>3, <1>4, <1>5, <1>6 DEF Next

LEMMA StoreInductive ==
  Spec => []SInv
<1>1. Init => SInv
  BY StoreInit
<1>2. SInv /\ [Next]_vars => SInv'
  <2>1. ASSUME SInv, [Next]_vars PROVE SInv'
    <3>1. IInv'
      BY <2>1, NextInv DEF SInv
    <3>2. FreshInv' /\ RecordInv' /\ LinkInv' /\ AloneInv'
      BY <2>1, FreshStep, RecordStep, LinkStep, AloneStep
    <3>3. StoreInv'
      BY <2>1, <3>1, <3>2, StoreStep
    <3>. QED
      BY <3>1, <3>2, <3>3 DEF SInv
  <2>. QED
    BY <2>1
<1>. QED
  BY <1>1, <1>2, PTL DEF Spec

\* A call that returned and was alone with its target and operation left the dataset and
\* the manifest of its content, and no checkpoint: whatever other calls, faults, retries,
\* cancellations and crashes went on around it.
THEOREM ReturnedStored == Spec => []ReturnedIsStored
<1>1. SInv => ReturnedIsStored
  BY DEF SInv, StoreInv, StoreOf, ResultInv, Published, ReturnedIsStored
<1>. QED
  BY <1>1, StoreInductive, PTL

\* An undisturbed call fails only for a cause of the list: a block, a verification or a
\* publication of its own never does, also when its attempt has timed out and the next
\* one has connected.
THEOREM RaisedOnlyForCause == Spec => []RaisedForCause
<1>1. SInv => RaisedForCause
  BY DEF SInv, StoreInv, StoreOf, CauseInv, RaisedForCause
<1>. QED
  BY <1>1, StoreInductive, PTL

-------------------------------------------------------------------------------
(* The progress tracker: its own records, of any operations *)

ProperRecords == Records(Bytes, Attempts, Times)

\* The active clock runs only while the operation is neither paused nor ended, and
\* started in the past.
ClockSound(r, time) ==
  Given(r.activeFrom) =>
    r.activeFrom <= time /\ r.state \notin TerminalStates \cup {"paused"}

\* The strengthening of TypeOK and ActiveNeverOvercounted that every step keeps.
TrackerInv ==
  /\ TypeOK
  /\ \A o \in Operations : Exists(o) => ClockSound(records[o], now)
  /\ ActiveNeverOvercounted
  /\ \A o \in Operations : worked[o] <= now

USE TrackerOK DEF Maybe, Given

-------------------------------------------------------------------------------
(* Lemmas about the record operators *)

\* A fresh record is well formed, and its clock starts now.
LEMMA NewRecordSound ==
  ASSUME NEW caps \in Declared, NEW total \in Maybe(Bytes), NEW offset \in Bytes,
         NEW token \in Maybe(Tokens), NEW time \in Times
  PROVE  LET r == NewRecord(caps, total, offset, token, time)
         IN /\ r \in ProperRecords
            /\ ClockSound(r, time)
            /\ ActiveElapsed(r, time) = 0
  BY DEF NewRecord, ProperRecords, Records, Bytes, Attempts, Times, States,
         ClockSound, ActiveElapsed, TerminalStates

\* update keeps the record well formed and its clock as it was, also when it
\* raises after some of its assignments.
LEMMA UpdatedSound ==
  ASSUME NEW r \in ProperRecords, NEW u \in Updates, NEW time \in Times
  PROVE  LET s == Updated(r, u, time)
         IN /\ s \in ProperRecords
            /\ s.activeFrom = r.activeFrom /\ s.activeFor = r.activeFor
            /\ s.state \in TerminalStates \cup {"paused"} => s.state = r.state
            /\ Forward(r, s)
            /\ Terminal(r) => s = r
  <1> DEFINE c == WithCounters(r, u)
             s == Updated(r, u, time)
  <1>1. /\ c \in ProperRecords
        /\ c.activeFrom = r.activeFrom /\ c.activeFor = r.activeFor
        /\ c.state = r.state /\ c.attempt = r.attempt
        /\ Forward(r, c)
        /\ Terminal(r) => c = r
    <2>1. c \in ProperRecords
      BY ZenonT(60) DEF WithCounters, ProperRecords, Records, Updates
    <2>2. /\ c.activeFrom = r.activeFrom /\ c.activeFor = r.activeFor
          /\ c.state = r.state /\ c.attempt = r.attempt
      BY DEF WithCounters, ProperRecords, Records
    <2>3. Forward(r, c)
      BY DEF WithCounters, TotalPass, OffsetPass, BytesPass, Forward, NotBack,
             ProperRecords, Records, Updates, Bytes, Attempts
    <2>4. Terminal(r) => c = r
      BY DEF WithCounters, TotalPass, OffsetPass, BytesPass, MayUpdate, Terminal,
             ProperRecords, Records
    <2> QED BY <2>1, <2>2, <2>3, <2>4
  <1> HIDE DEF c
  <1>2. s \in ProperRecords
    <2> DEFINE d == [c EXCEPT
                       !.token = IF Given(u.token) /\ TokenPass(r, u) THEN u.token
                                 ELSE @]
    <2>1. d \in ProperRecords
      BY <1>1 DEF ProperRecords, Records, Updates
    <2>2. UpdatedState(r, u) \in States
      BY DEF UpdatedState, ProperRecords, Records, Updates, States
    <2>3. /\ (IF Given(u.attempt) THEN u.attempt ELSE d.attempt) \in Attempts
          /\ (IF Activity(r, u) THEN time ELSE d.lastActivity) \in Times
      BY <2>1 DEF ProperRecords, Records, Updates
    <2>4. s = IF ~ UpdatePass(r, u) THEN d
              ELSE [d EXCEPT
                      !.attempt = IF Given(u.attempt) THEN u.attempt ELSE @,
                      !.state = UpdatedState(r, u),
                      !.lastActivity = IF Activity(r, u) THEN time ELSE @]
      BY DEF c, Updated
    <2> HIDE DEF d, s
    <2> QED BY <2>1, <2>2, <2>3, <2>4, ZenonT(60) DEF ProperRecords, Records
  <1>3. s.activeFrom = r.activeFrom /\ s.activeFor = r.activeFor
    BY <1>1 DEF c, Updated, ProperRecords, Records
  <1>4. s.state \in TerminalStates \cup {"paused"} => s.state = r.state
    BY <1>1 DEF c, Updated, UpdatedState, UpdatePass, TokenPass, WithinPass,
                TotalPass, OffsetPass, BytesPass, MayUpdate, TerminalStates,
                ProperRecords, Records
  <1>5. Forward(r, s)
    BY <1>1 DEF c, Updated, UpdatePass, Forward, NotBack, ProperRecords, Records,
                Updates, Attempts, Bytes
  <1>6. Terminal(r) => s = r
    BY <1>1 DEF c, Updated, UpdatePass, TokenPass, WithinPass, TotalPass,
                OffsetPass, BytesPass, MayUpdate, Terminal, ProperRecords, Records
  <1> QED BY <1>2, <1>3, <1>4, <1>5, <1>6

\* Stopping the clock moves the running interval into the sum.
LEMMA StoppedSound ==
  ASSUME NEW r \in ProperRecords, NEW time \in Times, ClockSound(r, time),
         ActiveElapsed(r, time) <= time
  PROVE  LET s == Stopped(r, time)
         IN /\ s \in ProperRecords
            /\ s.activeFrom = None
            /\ ActiveElapsed(s, time) = ActiveElapsed(r, time)
            /\ s = [r EXCEPT !.activeFor = ActiveElapsed(r, time), !.activeFrom = None]
            /\ Forward(r, s)
  <1>1. ActiveElapsed(r, time) \in Times
    BY DEF ActiveElapsed, ClockSound, ProperRecords, Records, Times
  <1>2. Stopped(r, time) \in ProperRecords
    BY <1>1 DEF Stopped, ProperRecords, Records
  <1>3. ActiveElapsed(Stopped(r, time), time) = ActiveElapsed(r, time)
    <2> DEFINE a == ActiveElapsed(r, time)
    <2>1. Stopped(r, time).activeFor = a /\ Stopped(r, time).activeFrom = None
      BY DEF Stopped, ProperRecords, Records
    <2>2. a \in Nat
      BY <1>1 DEF Times
    <2> HIDE DEF a
    <2> QED BY <2>1, <2>2 DEF ActiveElapsed, a
  <1>4. Forward(r, Stopped(r, time))
    BY DEF Stopped, Forward, NotBack, ProperRecords, Records, Bytes, Attempts
  <1> QED BY <1>2, <1>3, <1>4 DEF Stopped, ProperRecords, Records

\* pause stops the clock of a working operation and touches no other record.
LEMMA PausedSound ==
  ASSUME NEW r \in ProperRecords, NEW time \in Times, ClockSound(r, time),
         ActiveElapsed(r, time) <= time
  PROVE  LET s == Paused(r, time)
         IN /\ s \in ProperRecords
            /\ ClockSound(s, time)
            /\ ActiveElapsed(s, time) = ActiveElapsed(r, time)
            /\ Forward(r, s)
            /\ Terminal(r) => s = r
  <1>1. CASE Terminal(r) \/ r.state = "paused"
    BY <1>1 DEF Paused, Forward, NotBack, ProperRecords, Records, Bytes, Attempts
  <1>2. CASE ~ (Terminal(r) \/ r.state = "paused")
    <2> DEFINE q == Stopped(r, time)
               s == [q EXCEPT !.state = "paused"]
    <2>1. /\ q \in ProperRecords /\ q.activeFrom = None /\ Forward(r, q)
          /\ ActiveElapsed(q, time) = ActiveElapsed(r, time)
      BY StoppedSound
    <2> HIDE DEF q
    <2>2. /\ s \in ProperRecords
          /\ s.activeFrom = None /\ s.activeFor = q.activeFor
          /\ s.bytes = q.bytes /\ s.offset = q.offset /\ s.attempt = q.attempt
          /\ s.total = q.total
      BY <2>1 DEF ProperRecords, Records, States
    <2>3. ClockSound(s, time) /\ ActiveElapsed(s, time) = ActiveElapsed(r, time)
      BY <2>1, <2>2 DEF ClockSound, ActiveElapsed
    <2>4. Forward(r, s)
      BY <2>1, <2>2 DEF Forward, NotBack
    <2>5. s = Paused(r, time)
      BY <1>2 DEF Paused, q
    <2> HIDE DEF s
    <2> QED BY <1>2, <2>2, <2>3, <2>4, <2>5
  <1> QED BY <1>1, <1>2

\* resume restarts the clock only when it returns; the checks it raises at leave
\* the clock stopped.
LEMMA ResumedSound ==
  ASSUME NEW r \in ProperRecords, NEW offset \in Maybe(Bytes), NEW fits \in BOOLEAN,
         NEW token \in Maybe(Tokens), NEW time \in Times, ClockSound(r, time)
  PROVE  LET s == Resumed(r, offset, fits, token, time)
         IN /\ s \in ProperRecords
            /\ ClockSound(s, time)
            /\ ActiveElapsed(s, time) = ActiveElapsed(r, time)
            /\ Forward(r, s)
            /\ Terminal(r) => s = r
  <1> DEFINE s == Resumed(r, offset, fits, token, time)
  <1>1. CASE ~ MayResume(r)
    <2>1. s = r
      BY <1>1 DEF Resumed, ResumePass, ResumeBlockPass, ResumeOffsetPass, ProperRecords, Records
    <2>2. Forward(r, r)
      BY DEF Forward, NotBack, ProperRecords, Records, Bytes, Attempts
    <2> HIDE DEF s
    <2> QED BY <2>1, <2>2 DEF s
  <1>2. CASE MayResume(r)
    <2>1. r.state = "paused" /\ r.activeFrom = None
      BY <1>2 DEF MayResume, ClockSound
    <2>2. s \in ProperRecords
      BY ZenonT(60) DEF Resumed, ProperRecords, Records, States
    <2>3. Forward(r, s)
      BY DEF Resumed, ResumeOffsetPass, Forward, NotBack, ProperRecords, Records,
             Bytes, Attempts
    <2>4. /\ s.activeFor = r.activeFor
          /\ \/ s.activeFrom = None /\ s.state = "paused"
             \/ s.activeFrom = time /\ s.state = "resuming"
      BY <2>1 DEF Resumed, ProperRecords, Records
    <2> HIDE DEF s
    <2>5. ClockSound(s, time)
      BY <2>4 DEF ClockSound, TerminalStates, Times
    <2>6. ActiveElapsed(s, time) = ActiveElapsed(r, time)
      BY <2>1, <2>2, <2>4 DEF ActiveElapsed, ProperRecords, Records, Times
    <2> QED BY <2>1, <2>2, <2>3, <2>5, <2>6 DEF s, Terminal, TerminalStates
  <1> QED BY <1>1, <1>2

\* A terminal transition stops the clock and happens once.
LEMMA FinishedSound ==
  ASSUME NEW r \in ProperRecords, NEW state \in TerminalStates, NEW time \in Times,
         ClockSound(r, time), ActiveElapsed(r, time) <= time
  PROVE  LET s == Finished(r, state, time)
         IN /\ s \in ProperRecords
            /\ ClockSound(s, time)
            /\ ActiveElapsed(s, time) = ActiveElapsed(r, time)
            /\ Forward(r, s)
            /\ Terminal(r) => s = r
  <1>1. CASE Terminal(r)
    BY <1>1 DEF Finished, MayFinish, Forward, NotBack, ProperRecords, Records, Bytes,
                Attempts
  <1>2. CASE ~ Terminal(r)
    <2> DEFINE q == Stopped(r, time)
               s == [q EXCEPT !.state = state]
    <2>1. /\ q \in ProperRecords /\ q.activeFrom = None /\ Forward(r, q)
          /\ ActiveElapsed(q, time) = ActiveElapsed(r, time)
      BY StoppedSound
    <2> HIDE DEF q
    <2>2. /\ s \in ProperRecords
          /\ s.activeFrom = None /\ s.activeFor = q.activeFor
          /\ s.bytes = q.bytes /\ s.offset = q.offset /\ s.attempt = q.attempt
          /\ s.total = q.total
      BY <2>1 DEF ProperRecords, Records, States, TerminalStates
    <2>3. ClockSound(s, time) /\ ActiveElapsed(s, time) = ActiveElapsed(r, time)
      BY <2>1, <2>2 DEF ClockSound, ActiveElapsed
    <2>4. Forward(r, s)
      BY <2>1, <2>2 DEF Forward, NotBack
    <2>5. s = Finished(r, state, time)
      BY <1>2 DEF Finished, MayFinish, q
    <2> HIDE DEF s
    <2> QED BY <1>2, <2>2, <2>3, <2>4, <2>5
  <1> QED BY <1>1, <1>2
-------------------------------------------------------------------------------
(* The invariant *)

\* A call that puts a sound record in place of operation o's keeps the invariant.
LEMMA PutSound ==
  ASSUME TrackerInv, NEW o \in Operations, Exists(o), NEW s \in ProperRecords,
         ClockSound(s, now), ActiveElapsed(s, now) = ActiveElapsed(records[o], now),
         Put(o, s)
  PROVE  TrackerInv'
  <1>1. s # NoRecord
    BY DEF ProperRecords, Records, NoRecord
  <1>2. TypeOK'
    BY DEF TrackerInv, TypeOK, Put, ProperRecords
  <1>3. \A p \in Operations : records'[p] = IF p = o THEN s ELSE records[p]
    BY DEF TrackerInv, TypeOK, Put
  <1>4. now' = now /\ worked' = worked
    BY DEF Put
  <1>5. ActiveNeverOvercounted'
    BY <1>3, <1>4 DEF TrackerInv, ActiveNeverOvercounted, Exists, ActiveElapsed
  <1>6. \A p \in Operations : Exists(p)' => ClockSound(records[p], now)'
    BY <1>3, <1>4 DEF TrackerInv, Exists, ClockSound
  <1> QED BY <1>2, <1>4, <1>5, <1>6 DEF TrackerInv

\* The record of an existing operation is well formed, its clock is sound, and its
\* active seconds are not more than the clock shows.
LEMMA RecordSound ==
  ASSUME TrackerInv, NEW o \in Operations, Exists(o)
  PROVE  /\ records[o] \in ProperRecords
         /\ now \in Times
         /\ ClockSound(records[o], now)
         /\ ActiveElapsed(records[o], now) <= now
  <1>1. records[o] \in ProperRecords /\ now \in Times /\ worked[o] \in Times
    BY DEF TrackerInv, TypeOK, Exists, ProperRecords
  <1>2. ActiveElapsed(records[o], now) \in Nat
    BY <1>1 DEF TrackerInv, ClockSound, ActiveElapsed, ProperRecords, Records, Times
  <1> QED BY <1>1, <1>2 DEF TrackerInv, ActiveNeverOvercounted, Times

\* What one step does to an existing record: the facts the action properties need.
StepSound(r, s) == Forward(r, s) /\ (Terminal(r) => s = r)

LEMMA InitInvariant == TrackerInit => TrackerInv
  BY DEF TrackerInit, TrackerInv, TypeOK, ActiveNeverOvercounted, Exists, Times

LEMMA BeginKeeps ==
  ASSUME TrackerInv, NEW o \in Operations, NEW caps \in Declared, NEW total \in Maybe(Bytes),
         NEW offset \in Bytes, NEW token \in Maybe(Tokens),
         Begin(o, caps, total, offset, token)
  PROVE  TrackerInv' /\ \A p \in Operations : Exists(p) => records'[p] = records[p]
  <1> DEFINE s == NewRecord(caps, total, offset, token, now)
  <1>1. now \in Times
    BY DEF TrackerInv, TypeOK
  <1>2. s \in ProperRecords /\ ClockSound(s, now) /\ ActiveElapsed(s, now) = 0
    BY <1>1, NewRecordSound
  <1>3. Put(o, s) /\ ~ Exists(o)
    BY DEF Begin
  <1> HIDE DEF s
  <1>4. TypeOK'
    BY <1>2, <1>3 DEF TrackerInv, TypeOK, Put, ProperRecords
  <1>5. /\ \A p \in Operations : records'[p] = IF p = o THEN s ELSE records[p]
        /\ now' = now /\ worked' = worked
    BY <1>3 DEF TrackerInv, TypeOK, Put
  <1>6. worked[o] >= 0
    BY DEF TrackerInv, TypeOK, Times
  <1>7. ActiveNeverOvercounted'
    BY <1>2, <1>5, <1>6 DEF TrackerInv, ActiveNeverOvercounted, Exists, ActiveElapsed
  <1>8. \A p \in Operations : Exists(p)' => ClockSound(records[p], now)'
    BY <1>2, <1>5 DEF TrackerInv, Exists, ClockSound
  <1> QED BY <1>3, <1>4, <1>5, <1>7, <1>8 DEF TrackerInv

LEMMA TickKeeps ==
  ASSUME TrackerInv, Tick
  PROVE  TrackerInv' /\ records' = records
  <1> USE DEF Tick
  <1>1. TypeOK'
    BY DEF TrackerInv, TypeOK, Times
  <1>2. \A o \in Operations : Exists(o) => ClockSound(records[o], now')
    BY DEF TrackerInv, TypeOK, ClockSound, Exists, Records, Times
  <1>3. ASSUME NEW o \in Operations, Exists(o)
        PROVE  ActiveElapsed(records[o], now') <= worked'[o]
    <2>1. /\ records[o] \in ProperRecords /\ now \in Times /\ worked[o] \in Times
          /\ ClockSound(records[o], now)
          /\ ActiveElapsed(records[o], now) <= worked[o]
      BY <1>3, RecordSound DEF TrackerInv, TypeOK, ActiveNeverOvercounted
    <2>2. worked'[o] = IF Working(o) THEN worked[o] + 1 ELSE worked[o]
      OBVIOUS
    <2>3. CASE Given(records[o].activeFrom)
      <3>1. Working(o)
        BY <1>3, <2>1, <2>3 DEF Working, ClockSound
      <3> QED BY <2>1, <2>2, <2>3, <3>1
              DEF ActiveElapsed, ProperRecords, Records, Times
    <2>4. CASE ~ Given(records[o].activeFrom)
      BY <2>1, <2>2, <2>4 DEF ActiveElapsed, ProperRecords, Records, Times
    <2> QED BY <2>3, <2>4
  <1>4. \A o \in Operations : worked'[o] <= now'
    BY DEF TrackerInv, TypeOK, Times
  <1> QED BY <1>1, <1>2, <1>3, <1>4
          DEF TrackerInv, ActiveNeverOvercounted, Exists, ClockSound, ActiveElapsed

\* Every step keeps the invariant and moves no existing record back.
LEMMA StepKeeps ==
  ASSUME TrackerInv, TrackerNext
  PROVE  TrackerInv' /\ \A p \in Operations :
                    Exists(p) => records'[p] = records[p]
                                 \/ StepSound(records[p], records'[p])
  <1>1. CASE Tick
    BY <1>1, TickKeeps
  <1>2. ASSUME NEW o \in Operations, NEW caps \in Declared, NEW total \in Maybe(Bytes),
               NEW offset \in Bytes, NEW token \in Maybe(Tokens),
               Begin(o, caps, total, offset, token)
        PROVE  TrackerInv' /\ \A p \in Operations : Exists(p) => records'[p] = records[p]
    BY <1>2, BeginKeeps
  <1>3. ASSUME NEW o \in Operations, Exists(o), NEW s \in ProperRecords,
               ClockSound(s, now),
               ActiveElapsed(s, now) = ActiveElapsed(records[o], now),
               StepSound(records[o], s), Put(o, s)
        PROVE  TrackerInv' /\ \A p \in Operations :
                          Exists(p) => records'[p] = records[p]
                                       \/ StepSound(records[p], records'[p])
    <2>1. TrackerInv'
      BY <1>3, PutSound
    <2>2. \A p \in Operations : records'[p] = IF p = o THEN s ELSE records[p]
      BY <1>3 DEF TrackerInv, TypeOK, Put
    <2> QED BY <1>3, <2>1, <2>2
  <1>4. ASSUME NEW o \in Operations, NEW u \in Updates, Update(o, u)
        PROVE  TrackerInv' /\ \A p \in Operations :
                          Exists(p) => records'[p] = records[p]
                                       \/ StepSound(records[p], records'[p])
    <2> DEFINE r == records[o]
               s == Updated(r, u, now)
    <2>1. Exists(o) /\ Put(o, s)
      BY <1>4 DEF Update
    <2>2. /\ r \in ProperRecords /\ now \in Times /\ ClockSound(r, now)
      BY <2>1, RecordSound
    <2>3. /\ s \in ProperRecords
          /\ s.activeFrom = r.activeFrom /\ s.activeFor = r.activeFor
          /\ s.state \in TerminalStates \cup {"paused"} => s.state = r.state
          /\ StepSound(r, s)
      BY <2>2, UpdatedSound DEF StepSound
    <2>4. ClockSound(s, now) /\ ActiveElapsed(s, now) = ActiveElapsed(r, now)
      BY <2>2, <2>3 DEF ClockSound, ActiveElapsed
    <2> HIDE DEF s
    <2> QED BY <1>3, <2>1, <2>3, <2>4
  <1>5. ASSUME NEW o \in Operations, Pause(o)
        PROVE  TrackerInv' /\ \A p \in Operations :
                          Exists(p) => records'[p] = records[p]
                                       \/ StepSound(records[p], records'[p])
    <2> DEFINE s == Paused(records[o], now)
    <2>1. Exists(o) /\ Put(o, s)
      BY <1>5 DEF Pause
    <2>2. /\ s \in ProperRecords /\ ClockSound(s, now) /\ StepSound(records[o], s)
          /\ ActiveElapsed(s, now) = ActiveElapsed(records[o], now)
      BY <2>1, RecordSound, PausedSound DEF StepSound
    <2> HIDE DEF s
    <2> QED BY <1>3, <2>1, <2>2
  <1>6. ASSUME NEW o \in Operations, NEW offset \in Maybe(Bytes),
               NEW fits \in BOOLEAN, NEW token \in Maybe(Tokens), Resume(o, offset, fits, token)
        PROVE  TrackerInv' /\ \A p \in Operations :
                          Exists(p) => records'[p] = records[p]
                                       \/ StepSound(records[p], records'[p])
    <2> DEFINE s == Resumed(records[o], offset, fits, token, now)
    <2>1. Exists(o) /\ Put(o, s)
      BY <1>6 DEF Resume
    <2>2. /\ s \in ProperRecords /\ ClockSound(s, now) /\ StepSound(records[o], s)
          /\ ActiveElapsed(s, now) = ActiveElapsed(records[o], now)
      BY <2>1, RecordSound, ResumedSound DEF StepSound
    <2> HIDE DEF s
    <2> QED BY <1>3, <2>1, <2>2
  <1>7. ASSUME NEW o \in Operations, NEW state \in {"completed", "failed", "cancelled"},
               EndOperation(o, state)
        PROVE  TrackerInv' /\ \A p \in Operations :
                          Exists(p) => records'[p] = records[p]
                                       \/ StepSound(records[p], records'[p])
    <2> DEFINE s == Finished(records[o], state, now)
    <2>1. Exists(o) /\ Put(o, s)
      BY <1>7 DEF EndOperation
    <2>2. state \in TerminalStates
      BY DEF TerminalStates
    <2>3. /\ s \in ProperRecords /\ ClockSound(s, now) /\ StepSound(records[o], s)
          /\ ActiveElapsed(s, now) = ActiveElapsed(records[o], now)
      BY <2>1, <2>2, RecordSound, FinishedSound DEF StepSound
    <2> HIDE DEF s
    <2> QED BY <1>3, <2>1, <2>3
  <1> QED BY <1>1, <1>2, <1>4, <1>5, <1>6, <1>7 DEF TrackerNext

THEOREM TrackerInvariant == TrackerSpec => []TrackerInv
  <1>1. TrackerInv /\ UNCHANGED trackerVars => TrackerInv'
    BY DEF TrackerInv, TypeOK, ActiveNeverOvercounted, Exists, ClockSound, ActiveElapsed, trackerVars
  <1>2. TrackerInv /\ [TrackerNext]_trackerVars => TrackerInv'
    BY <1>1, StepKeeps
  <1> QED BY <1>2, InitInvariant, PTL DEF TrackerSpec

-------------------------------------------------------------------------------
(* What a reader should know of *)

\* Every reachable tracker state is well formed.
THEOREM TrackerTypeCorrect == TrackerSpec => []TypeOK
  <1>1. TrackerInv => TypeOK
    BY DEF TrackerInv
  <1> QED BY <1>1, TrackerInvariant, PTL

\* The active clock never counts a paused or ended second.
THEOREM NeverOvercounted == TrackerSpec => []ActiveNeverOvercounted
  <1>1. TrackerInv => ActiveNeverOvercounted
    BY DEF TrackerInv
  <1> QED BY <1>1, TrackerInvariant, PTL

\* A terminal operation never changes again.
THEOREM TerminalStays == TrackerSpec => TerminalImmutable
  <1>1. TrackerInv /\ [TrackerNext]_trackerVars =>
          [\A o \in Operations :
             Exists(o) /\ Terminal(records[o]) => records'[o] = records[o]]_records
    BY StepKeeps DEF StepSound, trackerVars
  <1> QED BY <1>1, TrackerInvariant, PTL DEF TrackerSpec, TerminalImmutable

\* No counter ever goes back, whether calls return or raise.
THEOREM CountersMoveForward == TrackerSpec => CountersNeverGoBack
  <1>1. ASSUME TrackerInv, TrackerNext
        PROVE  \A o \in Operations : Exists(o) => Forward(records[o], records'[o])
    <2> SUFFICES ASSUME NEW o \in Operations, Exists(o)
                 PROVE  Forward(records[o], records'[o])
      OBVIOUS
    <2>1. records[o] \in ProperRecords
      BY RecordSound, <1>1
    <2>2. Forward(records[o], records[o])
      BY <2>1 DEF Forward, NotBack, ProperRecords, Records, Bytes, Attempts
    <2> QED BY <1>1, <2>2, StepKeeps DEF StepSound
  <1>2. TrackerInv /\ [TrackerNext]_trackerVars =>
          [\A o \in Operations : Exists(o) => Forward(records[o], records'[o])]_records
    BY <1>1 DEF trackerVars
  <1> QED BY <1>2, TrackerInvariant, PTL DEF TrackerSpec, CountersNeverGoBack
===============================================================================
