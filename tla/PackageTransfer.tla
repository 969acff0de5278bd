---------------------------- MODULE PackageTransfer ----------------------------
(***************************************************************************)
(* Parallel package transfer (services/package_transfer.py).  Parts of a   *)
(* package arrive in any order, each an independent call; a wait call      *)
(* assembles the file once every part is stored.  Calls run as threads or  *)
(* queue jobs ("workers") that share only the disk: a manifest, the part   *)
(* files, a temporary file and a file lock per package, and the target     *)
(* files.  A worker may die between any two durable writes; the kernel     *)
(* then drops its file lock and everything on disk stays.                  *)
(***************************************************************************)
EXTENDS Naturals, Sequences

CONSTANTS Packages, Targets, TargetOf, Overwrite, PartCount, Contents,
          None, Foreign,
          Workers,     \* threads and queue workers executing the calls
          MaxCrashes,  \* bound on worker deaths
          MaxFaults    \* bound on I/O errors raised inside _assemble

Parts == 0 .. PartCount - 1

ASSUME ConstantsOK ==
  /\ TargetOf \in [Packages -> Targets]
  /\ Overwrite \in [Packages -> BOOLEAN]
  /\ PartCount \in Nat \ {0}
  /\ Parts \subseteq Contents
  /\ None \notin Packages \cup Workers \cup Contents \cup {Foreign}
  /\ Foreign \notin Packages
  /\ MaxCrashes \in Nat
  /\ MaxFaults \in Nat

VARIABLES
  (* on disk *)
  status,         \* manifest status; "none" before the manifest exists
  received,       \* manifest "received": content whose digest is recorded
  completedFile,  \* manifest "completed_file"
  stored,         \* part files
  temp, tempBy,   \* the .assembling file: its content, and the worker whose
                  \* open stream it is (None when there is no such file)
  target,         \* files at the target paths
  (* in the kernel and in the workers' memory *)
  lock,           \* holder of the package's file lock
  pc, job,        \* control point of a worker and the arguments of its call
  hashed,         \* contents fed to the worker's running SHA-256
  fileRecord,     \* result of _file_record(target) in _assemble
  (* bookkeeping of the model *)
  published,      \* packages whose os.replace has happened
  crashes, faults

manifest == <<status, received, completedFile>>
disk == <<manifest, stored, temp, tempBy, target, published>>
local == <<pc, job, hashed, fileRecord>>
vars == <<disk, lock, local, crashes, faults>>

Promise == INSTANCE VerifiedUpload WITH accepted <- received

NoFile == [of |-> None, body |-> <<>>]
ForeignFile == [of |-> Foreign, body |-> <<>>]
File == [of : Packages \cup {Foreign, None}, body : Seq(Contents)]
Whole == [k \in 1 .. PartCount |-> k - 1]
WholeFile(p) == [of |-> p, body |-> Whole]
NoJob == [pkg |-> None, part |-> None, content |-> None]

Pkg(w) == job[w].pkg

LockedSteps == {"receive_part", "record_part"}
AssemblySteps == {"begin", "copy", "target_check", "replace", "read_record",
                  "complete"}
FailureSteps == {"failing", "mark_failed"}
Steps == {"idle", "wait", "cleanup"} \cup LockedSteps \cup AssemblySteps
           \cup FailureSteps

-------------------------------------------------------------------------------
(* Shared pieces of the handlers *)

\* _missing_indices is empty.
AllReceived(r) == \A i \in Parts : r[i] # None

\* The call of w ends and its memory is gone; its durable effects stay.
Return(w) ==
  /\ pc' = [pc EXCEPT ![w] = "idle"]
  /\ job' = [job EXCEPT ![w] = NoJob]
  /\ hashed' = [hashed EXCEPT ![w] = <<>>]
  /\ fileRecord' = [fileRecord EXCEPT ![w] = NoFile]

\* w moves on to control point s with nothing else changed in its memory.
Goto(w, s) ==
  /\ pc' = [pc EXCEPT ![w] = s]
  /\ UNCHANGED <<job, hashed, fileRecord>>

\* A new call starts in w.
Call(w, s, j) ==
  /\ pc[w] = "idle"
  /\ pc' = [pc EXCEPT ![w] = s]
  /\ job' = [job EXCEPT ![w] = j]
  /\ UNCHANGED <<hashed, fileRecord>>

Release(p) == lock' = [lock EXCEPT ![p] = None]

\* Mutant: the flag is ignored.
TargetFreeIgnoringFlag(p) == TRUE

\* The manifest permits overwriting, or there is nothing to overwrite.
TargetFree(p) == Overwrite[p] \/ target[TargetOf[p]] = NoFile

\* _get_or_create_manifest: an existing manifest is reused; a new one is refused
\* when the target exists and may not be overwritten.
GetOrCreateManifest(p) ==
  \/ /\ status[p] # "none"
     /\ UNCHANGED status
  \/ /\ status[p] = "none"
     /\ TargetFree(p)
     /\ status' = [status EXCEPT ![p] = "receiving"]

-------------------------------------------------------------------------------
(* receive_part: everything under the package lock *)

\* The lock is taken and the manifest is read or created.
ReceiveOpen(w, p, i, c) ==
  /\ lock[p] = None
  /\ lock' = [lock EXCEPT ![p] = w]
  /\ GetOrCreateManifest(p)
  /\ Call(w, "receive_part", [pkg |-> p, part |-> i, content |-> c])
  /\ UNCHANGED <<received, completedFile, stored, temp, tempBy, target,
                 published, crashes, faults>>

\* Mutant: a part that exists is overwritten without comparing it.
ReceiveStoreOverwriting(w) ==
  /\ pc[w] = "receive_part"
  /\ status[Pkg(w)] \in {"receiving", "ready"}
  /\ stored' = [stored EXCEPT ![Pkg(w)][job[w].part] = job[w].content]
  /\ Goto(w, "record_part")
  /\ UNCHANGED <<manifest, temp, tempBy, target, published, lock, crashes, faults>>

\* The part must be written (or be there already, identical) before its digest is
\* recorded; while assembling nothing is written and nothing is recorded.
ReceiveStore(w) ==
  LET p == Pkg(w)
      i == job[w].part
      c == job[w].content
  IN
  /\ pc[w] = "receive_part"
  /\ status[p] \in {"receiving", "ready"}
  /\ stored[p][i] \in {None, c}
  /\ stored' = [stored EXCEPT ![p][i] = c]
  /\ Goto(w, "record_part")
  /\ UNCHANGED <<manifest, temp, tempBy, target, published, lock, crashes, faults>>

\* Mutant: an early return that leaves the lock taken.
ReceiveAnswerKeepingLock(w) ==
  /\ pc[w] = "receive_part"
  /\ \/ status[Pkg(w)] \in {"completed", "failed", "assembling"}
     \/ stored[Pkg(w)][job[w].part] \notin {None, job[w].content}
  /\ Return(w)
  /\ UNCHANGED <<disk, lock, crashes, faults>>

\* Every other outcome of the checks answers or raises without a durable write:
\* completed, failed, conflicting content, or any part while assembling.
ReceiveAnswer(w) ==
  LET p == Pkg(w)
  IN
  /\ pc[w] = "receive_part"
  /\ \/ status[p] \in {"completed", "failed", "assembling"}
     \/ stored[p][job[w].part] \notin {None, job[w].content}
  /\ Release(p)
  /\ Return(w)
  /\ UNCHANGED <<disk, crashes, faults>>

\* The manifest takes the digest and its status is recomputed.
ReceiveRecord(w) ==
  LET p == Pkg(w)
      r == [received[p] EXCEPT ![job[w].part] = job[w].content]
  IN
  /\ pc[w] = "record_part"
  /\ received' = [received EXCEPT ![p] = r]
  /\ status' = [status EXCEPT ![p] = IF AllReceived(r) THEN "ready" ELSE "receiving"]
  /\ Release(p)
  /\ Return(w)
  /\ UNCHANGED <<completedFile, stored, temp, tempBy, target, published, crashes,
                 faults>>

-------------------------------------------------------------------------------
(* wait_and_assemble: the waiting loop *)

\* The manifest is created (or validated) before the first poll.
WaitOpen(w, p) ==
  /\ lock[p] = None
  /\ GetOrCreateManifest(p)
  /\ Call(w, "wait", [NoJob EXCEPT !.pkg = p])
  /\ UNCHANGED <<received, completedFile, stored, temp, tempBy, target,
                 published, lock, crashes, faults>>

\* Mutants: a poll takes any complete package outside the given statuses.
TakeOwnershipUnless(w, excluded) ==
  /\ pc[w] = "wait"
  /\ lock[Pkg(w)] = None
  /\ status[Pkg(w)] \notin excluded
  /\ AllReceived(received[Pkg(w)])
  /\ status' = [status EXCEPT ![Pkg(w)] = "assembling"]
  /\ Goto(w, "begin")
  /\ UNCHANGED <<received, completedFile, stored, temp, tempBy, target,
                 published, lock, crashes, faults>>
TakeOwnershipTwice(w) == TakeOwnershipUnless(w, {"completed", "failed"})
TakeOwnershipAgain(w) == TakeOwnershipUnless(w, {"failed", "assembling"})

\* _assemble_owner under the lock: the first poll that finds every part takes the
\* package.
TakeOwnership(w) ==
  LET p == Pkg(w)
  IN
  /\ pc[w] = "wait"
  /\ lock[p] = None
  /\ status[p] \notin {"completed", "failed", "assembling"}
  /\ AllReceived(received[p])
  /\ status' = [status EXCEPT ![p] = "assembling"]
  /\ Goto(w, "begin")
  /\ UNCHANGED <<received, completedFile, stored, temp, tempBy, target,
                 published, lock, crashes, faults>>

\* A poll that finds the package completed or failed answers; one that finds it
\* incomplete or owned by another worker may hit the deadline.  A poll that
\* neither owns nor ends the call changes nothing and is a stuttering step.
WaitReturn(w) ==
  LET p == Pkg(w)
  IN
  /\ pc[w] = "wait"
  /\ lock[p] = None
  /\ \/ status[p] \in {"completed", "failed", "assembling"}
     \/ ~ AllReceived(received[p])
  /\ Return(w)
  /\ UNCHANGED <<disk, lock, crashes, faults>>

-------------------------------------------------------------------------------
(* _assemble: not under the lock until the manifest is completed or failed *)

\* An old temporary file is unlinked and a new one opened.
AssembleBegin(w) ==
  /\ pc[w] = "begin"
  /\ temp' = [temp EXCEPT ![Pkg(w)] = <<>>]
  /\ tempBy' = [tempBy EXCEPT ![Pkg(w)] = w]
  /\ Goto(w, "copy")
  /\ UNCHANGED <<manifest, stored, target, published, lock, crashes, faults>>

NextPart(w) == Len(hashed[w])

\* The part file must still hold what the manifest recorded; it is hashed and
\* appended to the file this worker opened.
PartIntact(w) ==
  LET p == Pkg(w)
      k == NextPart(w)
  IN stored[p][k] # None /\ stored[p][k] = received[p][k]

CopyPart(w) ==
  LET p == Pkg(w)
      c == stored[p][NextPart(w)]
  IN
  /\ pc[w] = "copy"
  /\ NextPart(w) < PartCount
  /\ PartIntact(w)
  /\ hashed' = [hashed EXCEPT ![w] = Append(hashed[w], c)]
  /\ temp' = IF tempBy[p] = w THEN [temp EXCEPT ![p] = Append(temp[p], c)] ELSE temp
  /\ UNCHANGED <<manifest, stored, tempBy, target, published, lock, pc, job,
                 fileRecord, crashes, faults>>

\* Mutant: the size is compared, the digest is not.
WholeFileSizeVerified(w) == Len(hashed[w]) = PartCount

\* Whole-file size and SHA-256 are those of the manifest.
WholeFileVerified(w) == hashed[w] = Whole

VerifyWhole(w) ==
  /\ pc[w] = "copy"
  /\ NextPart(w) = PartCount
  /\ WholeFileVerified(w)
  /\ Goto(w, "target_check")
  /\ UNCHANGED <<disk, lock, crashes, faults>>

\* Mutant: the manifest is completed before the replacement.
CheckTargetCompleting(w) ==
  /\ pc[w] = "target_check"
  /\ TargetFree(Pkg(w))
  /\ status' = [status EXCEPT ![Pkg(w)] = "completed"]
  /\ Goto(w, "replace")
  /\ UNCHANGED <<received, completedFile, stored, temp, tempBy, target, published,
                 lock, crashes, faults>>

\* The last check before the replacement looks at the target once.
CheckTarget(w) ==
  /\ pc[w] = "target_check"
  /\ TargetFree(Pkg(w))
  /\ Goto(w, "replace")
  /\ UNCHANGED <<disk, lock, crashes, faults>>

\* os.replace moves whatever is at the temporary path now.
Replace(w) ==
  LET p == Pkg(w)
  IN
  /\ pc[w] = "replace"
  /\ tempBy[p] # None
  /\ target' = [target EXCEPT ![TargetOf[p]] = [of |-> p, body |-> temp[p]]]
  /\ temp' = [temp EXCEPT ![p] = <<>>]
  /\ tempBy' = [tempBy EXCEPT ![p] = None]
  /\ published' = published \cup {p}
  /\ Goto(w, "read_record")
  /\ UNCHANGED <<manifest, stored, lock, crashes, faults>>

\* _file_record(target) describes the file at the path now.
ReadRecord(w) ==
  /\ pc[w] = "read_record"
  /\ fileRecord' = [fileRecord EXCEPT ![w] = target[TargetOf[Pkg(w)]]]
  /\ pc' = [pc EXCEPT ![w] = "complete"]
  /\ UNCHANGED <<disk, lock, job, hashed, crashes, faults>>

\* Mutant: the record is the package identifier instead of a file record.
CompleteWithoutRecord(w) ==
  /\ pc[w] = "complete"
  /\ lock[Pkg(w)] = None
  /\ status' = [status EXCEPT ![Pkg(w)] = "completed"]
  /\ completedFile' = [completedFile EXCEPT ![Pkg(w)] = Pkg(w)]
  /\ Goto(w, "cleanup")
  /\ UNCHANGED <<received, stored, temp, tempBy, target, published, lock, crashes,
                 faults>>

Complete(w) ==
  LET p == Pkg(w)
  IN
  /\ pc[w] = "complete"
  /\ lock[p] = None
  /\ status' = [status EXCEPT ![p] = "completed"]
  /\ completedFile' = [completedFile EXCEPT ![p] = fileRecord[w]]
  /\ Goto(w, "cleanup")
  /\ UNCHANGED <<received, stored, temp, tempBy, target, published, lock, crashes,
                 faults>>

\* The parts directory is removed and the call answers.
Cleanup(w) ==
  LET p == Pkg(w)
  IN
  /\ pc[w] = "cleanup"
  /\ stored' = [stored EXCEPT ![p] = [i \in Parts |-> None]]
  /\ Return(w)
  /\ UNCHANGED <<manifest, temp, tempBy, target, published, lock, crashes, faults>>

\* The checks of _assemble that raise.
AssembleReject(w) ==
  /\ \/ pc[w] = "copy" /\ NextPart(w) < PartCount /\ ~ PartIntact(w)
     \/ pc[w] = "copy" /\ NextPart(w) = PartCount /\ ~ WholeFileVerified(w)
     \/ pc[w] = "target_check" /\ ~ TargetFree(Pkg(w))
     \/ pc[w] = "replace" /\ tempBy[Pkg(w)] = None
  /\ Goto(w, "failing")
  /\ UNCHANGED <<disk, lock, crashes, faults>>

\* An I/O error anywhere in the try block, which reaches past the replacement and
\* past the completed manifest (rmtree is inside it).
AssembleFault(w) ==
  /\ pc[w] \in (AssemblySteps \ {"begin"}) \cup {"cleanup"}
  /\ faults < MaxFaults
  /\ faults' = faults + 1
  /\ Goto(w, "failing")
  /\ UNCHANGED <<disk, lock, crashes>>

\* Mutant: the parts are removed with the temporary file.
FailUnlinkParts(w) ==
  /\ pc[w] = "failing"
  /\ temp' = [temp EXCEPT ![Pkg(w)] = <<>>]
  /\ tempBy' = [tempBy EXCEPT ![Pkg(w)] = None]
  /\ stored' = [stored EXCEPT ![Pkg(w)] = [i \in Parts |-> None]]
  /\ Goto(w, "mark_failed")
  /\ UNCHANGED <<manifest, target, published, lock, crashes, faults>>

\* except: the temporary path is unlinked, ...
FailUnlink(w) ==
  /\ pc[w] = "failing"
  /\ temp' = [temp EXCEPT ![Pkg(w)] = <<>>]
  /\ tempBy' = [tempBy EXCEPT ![Pkg(w)] = None]
  /\ Goto(w, "mark_failed")
  /\ UNCHANGED <<manifest, stored, target, published, lock, crashes, faults>>

\* Mutant: the error is raised without failing the manifest.
MarkFailedNowhere(w) ==
  /\ pc[w] = "mark_failed"
  /\ lock[Pkg(w)] = None
  /\ Return(w)
  /\ UNCHANGED <<disk, lock, crashes, faults>>

\* ... and the manifest is failed under the lock, whatever its status was.
MarkFailed(w) ==
  LET p == Pkg(w)
  IN
  /\ pc[w] = "mark_failed"
  /\ lock[p] = None
  /\ status' = [status EXCEPT ![p] = "failed"]
  /\ Return(w)
  /\ UNCHANGED <<received, completedFile, stored, temp, tempBy, target, published,
                 lock, crashes, faults>>

-------------------------------------------------------------------------------
\* A worker dies, or raises outside the try block of _assemble: its lock is
\* released by the kernel and the disk stays as it is.
Crash(w) ==
  /\ pc[w] # "idle"
  /\ crashes < MaxCrashes
  /\ crashes' = crashes + 1
  /\ lock' = [p \in Packages |-> IF lock[p] = w THEN None ELSE lock[p]]
  /\ Return(w)
  /\ UNCHANGED <<disk, faults>>

Init ==
  /\ status = [p \in Packages |-> "none"]
  /\ received = [p \in Packages |-> [i \in Parts |-> None]]
  /\ completedFile = [p \in Packages |-> NoFile]
  /\ stored = [p \in Packages |-> [i \in Parts |-> None]]
  /\ temp = [p \in Packages |-> <<>>]
  /\ tempBy = [p \in Packages |-> None]
  /\ target \in [Targets -> {NoFile, ForeignFile}]
  /\ lock = [p \in Packages |-> None]
  /\ pc = [w \in Workers |-> "idle"]
  /\ job = [w \in Workers |-> NoJob]
  /\ hashed = [w \in Workers |-> <<>>]
  /\ fileRecord = [w \in Workers |-> NoFile]
  /\ published = {}
  /\ crashes = 0
  /\ faults = 0

Receive(w) == ReceiveStore(w) \/ ReceiveAnswer(w) \/ ReceiveRecord(w)

Poll(w) == TakeOwnership(w) \/ WaitReturn(w)

Assemble(w) ==
  \/ AssembleBegin(w) \/ CopyPart(w) \/ VerifyWhole(w) \/ CheckTarget(w)
  \/ Replace(w) \/ ReadRecord(w) \/ Complete(w) \/ Cleanup(w)
  \/ AssembleReject(w) \/ FailUnlink(w) \/ MarkFailed(w)

Next ==
  \E w \in Workers :
    \/ \E p \in Packages, i \in Parts, c \in Contents : ReceiveOpen(w, p, i, c)
    \/ \E p \in Packages : WaitOpen(w, p)
    \/ Receive(w)
    \/ Poll(w)
    \/ Assemble(w)
    \/ AssembleFault(w)
    \/ Crash(w)

Spec == Init /\ [][Next]_vars

(***************************************************************************)
(* A started call keeps running: the operating system schedules threads    *)
(* and queue workers, and its file-lock queue serves a blocked worker, so  *)
(* steps that need the lock are strongly fair.  A wait call has a finite   *)
(* deadline (at most a day), so it polls until it returns.  Callers follow *)
(* the documented advice and keep calling wait (package_metadata.py:33).   *)
(* Part calls, crashes and I/O errors are not fair.                        *)
(***************************************************************************)
Fairness ==
  /\ \A w \in Workers : WF_vars(Receive(w))
                          /\ SF_vars(Assemble(w))
                          /\ SF_vars(Poll(w))
  /\ \A p \in Packages : SF_vars(\E w \in Workers : WaitOpen(w, p))

FairSpec == Spec /\ Fairness

-------------------------------------------------------------------------------
(* Properties *)

TypeOK ==
  /\ status \in [Packages -> {"none", "receiving", "ready", "assembling",
                             "completed", "failed"}]
  /\ received \in [Packages -> [Parts -> Contents \cup {None}]]
  /\ completedFile \in [Packages -> File]
  /\ stored \in [Packages -> [Parts -> Contents \cup {None}]]
  /\ temp \in [Packages -> Seq(Contents)]
  /\ tempBy \in [Packages -> Workers \cup {None}]
  /\ target \in [Targets -> File]
  /\ lock \in [Packages -> Workers \cup {None}]
  /\ pc \in [Workers -> Steps]
  /\ job \in [Workers -> [pkg : Packages \cup {None}, part : Parts \cup {None},
                         content : Contents \cup {None}]]
  /\ \A w \in Workers : pc[w] # "idle" => Pkg(w) \in Packages
  /\ hashed \in [Workers -> Seq(Contents)]
  /\ fileRecord \in [Workers -> File]
  /\ published \in SUBSET Packages
  /\ crashes \in 0 .. MaxCrashes
  /\ faults \in 0 .. MaxFaults

\* w is inside _assemble for package p.
Assembling(w, p) ==
  /\ Pkg(w) = p
  /\ pc[w] \in AssemblySteps \cup FailureSteps \cup {"cleanup"}

\* Only one waiter becomes the assembler (_assemble_owner's docstring), also when
\* waiters time out and return, and workers die: no two workers are ever inside
\* _assemble for one package.
SingleAssembler ==
  \A p \in Packages : \A v, w \in Workers :
    Assembling(v, p) /\ Assembling(w, p) => v = w

\* A file published by a package is byte for byte the declared one, although the
\* assembler reads the parts and the temporary file outside the lock.
PublishedVerified ==
  \A t \in Targets : target[t].of \in Packages => target[t].body = Whole

\* A part the service has acknowledged stays on disk as acknowledged until its
\* package has reached the target ("durable", module docstring).
AcknowledgedIsDurable ==
  \A p \in Packages : p \notin published =>
    \A i \in Parts : received[p][i] # None => stored[p][i] = received[p][i]

\* A package that reports completed has replaced its target, and the record it
\* keeps for repeated calls is that of a verified file.
CompletedIsPublished ==
  \A p \in Packages : status[p] = "completed" =>
    p \in published /\ completedFile[p].body = Whole

\* Without I/O errors a package that reports failed has not touched its target:
\* every check that can fail comes before the replacement.
FailedIsUnpublished ==
  faults = 0 => \A p \in Packages : status[p] = "failed" => p \notin published

\* Package.overwrite = false never replaces an existing file.
NoSilentOverwrite ==
  [][\A t \in Targets : target'[t] # target[t] =>
       target[t] = NoFile \/ Overwrite[target'[t].of]]_target

\* The service implements VerifiedUpload: accepted parts never change and the
\* publication is one atomic, verified, once-only step.
KeepsPromise == Promise!Spec

\* A package being assembled ends completed or failed unless a worker dies.
AssemblyEnds ==
  \A p \in Packages :
    status[p] = "assembling" ~> (status[p] \in {"completed", "failed"} \/ crashes > 0)

\* A package whose parts are all recorded is assembled while callers keep calling
\* wait, whatever parts are sent again meanwhile, unless a worker dies.
ReadyIsAssembled ==
  \A p \in Packages :
    status[p] = "ready" ~> (status[p] \in {"completed", "failed"} \/ crashes > 0)

\* PACKAGE_TIMEOUT's advice (package_metadata.py:33): keep sending parts and call
\* wait again, and the package with all its parts is eventually decided.
WaitAgainSucceeds ==
  \A p \in Packages :
    status[p] = "ready" ~> status[p] \in {"completed", "failed"}
===============================================================================
