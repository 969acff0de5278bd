------------------------- MODULE PackageTransferProofs -------------------------
(***************************************************************************)
(* Theorems about PackageTransfer for every set of packages, targets and   *)
(* workers, every number of parts and every bound on crashes and faults.   *)
(***************************************************************************)
EXTENDS PackageTransfer, TLAPS

-------------------------------------------------------------------------------
(* The inductive invariant, by topic *)

\* A call under way is about a package; a part call is about a part of it and
\* holds the package lock.
CallInv ==
  \A w \in Workers :
    /\ pc[w] # "idle" => Pkg(w) \in Packages
    /\ pc[w] \in LockedSteps =>
         /\ job[w].part \in Parts
         /\ job[w].content \in Contents
         /\ lock[Pkg(w)] = w

\* Between writing a part file and recording it the manifest still accepts parts.
RecordInv ==
  \A w \in Workers : pc[w] = "record_part" =>
    /\ status[Pkg(w)] \in {"receiving", "ready"}
    /\ stored[Pkg(w)][job[w].part] = job[w].content

\* The manifest status follows the single assembler.
OwnerInv ==
  \A w \in Workers :
    /\ pc[w] \in AssemblySteps => status[Pkg(w)] = "assembling"
    /\ pc[w] \in FailureSteps => status[Pkg(w)] \in {"assembling", "completed"}
    /\ pc[w] = "cleanup" => status[Pkg(w)] = "completed"

\* What is recorded is on disk until publication, and publication comes only
\* after ownership.
DiskInv ==
  \A p \in Packages :
    /\ p \in published => status[p] \in {"assembling", "completed", "failed"}
    /\ status[p] = "completed" => p \in published
    /\ status[p] = "completed" => completedFile[p].body = Whole

\* Where the assembler stands relative to the replacement.
PublicationInv ==
  \A w \in Workers :
    /\ pc[w] \in {"begin", "copy", "target_check", "replace"} => Pkg(w) \notin published
    /\ pc[w] \in {"read_record", "complete", "cleanup"} => Pkg(w) \in published
    /\ pc[w] = "complete" => fileRecord[w].body = Whole

\* What the assembler has hashed is what the manifest records and what its
\* temporary file holds.
HashOf(w) ==
  /\ pc[w] \in {"idle", "wait", "begin"} \cup LockedSteps => hashed[w] = <<>>
  /\ pc[w] \in {"copy", "target_check", "replace"} =>
       /\ tempBy[Pkg(w)] = w
       /\ temp[Pkg(w)] = hashed[w]
       /\ \A k \in 1 .. Len(hashed[w]) : hashed[w][k] = received[Pkg(w)][k - 1]
  /\ pc[w] = "copy" => Len(hashed[w]) <= PartCount
  /\ pc[w] \in {"target_check", "replace"} => hashed[w] = Whole

HashInv == \A w \in Workers : HashOf(w)

\* A published package's target holds a package's file, whole.
TargetInv ==
  /\ PublishedVerified
  /\ \A p \in published : target[TargetOf[p]].of \in Packages

IInv ==
  /\ CallInv
  /\ RecordInv
  /\ SingleAssembler
  /\ OwnerInv
  /\ AcknowledgedIsDurable
  /\ DiskInv
  /\ PublicationInv
  /\ HashInv
  /\ TargetInv

Inv == TypeOK /\ IInv
-------------------------------------------------------------------------------
(* Type correctness *)

\* Record and sequence values the actions write are of their types.
LEMMA ValueTypes ==
  /\ NoFile \in File
  /\ ForeignFile \in File
  /\ Whole \in Seq(Contents)
  /\ NoJob \in [pkg : Packages \cup {None}, part : Parts \cup {None},
               content : Contents \cup {None}]
<1>1. Whole \in [1 .. PartCount -> Contents]
  BY ConstantsOK DEF Whole, Parts
<1>2. Whole \in Seq(Contents)
  BY <1>1, ConstantsOK
<1>3. QED
  BY <1>2 DEF NoFile, ForeignFile, File, NoJob

LEMMA TypeInit == Init => TypeOK
BY ValueTypes, ConstantsOK DEF Init, TypeOK, Steps

\* Every action leaves every variable within its type.
LEMMA TypeNext == TypeOK /\ [Next]_vars => TypeOK'
<1> SUFFICES ASSUME TypeOK, [Next]_vars
             PROVE  TypeOK'
  OBVIOUS
<1> USE ValueTypes DEF TypeOK, Goto, Return, Call, Release, Pkg
<1>1. ASSUME NEW w \in Workers, NEW p \in Packages, NEW i \in Parts, NEW c \in Contents,
             ReceiveOpen(w, p, i, c)
      PROVE  TypeOK'
  BY <1>1 DEF ReceiveOpen, GetOrCreateManifest, Steps, LockedSteps
<1>2. ASSUME NEW w \in Workers, NEW p \in Packages, WaitOpen(w, p)
      PROVE  TypeOK'
  BY <1>2 DEF WaitOpen, GetOrCreateManifest, Steps, NoJob
<1>3. ASSUME NEW w \in Workers, ReceiveStore(w)
      PROVE  TypeOK'
  BY <1>3 DEF ReceiveStore, manifest, Steps, LockedSteps
<1>4. ASSUME NEW w \in Workers, ReceiveAnswer(w)
      PROVE  TypeOK'
  BY <1>4 DEF ReceiveAnswer, disk, manifest, Steps
<1>5. ASSUME NEW w \in Workers, ReceiveRecord(w)
      PROVE  TypeOK'
  <2> DEFINE r == [received[Pkg(w)] EXCEPT ![job[w].part] = job[w].content]
  <2>1. Pkg(w) \in Packages /\ job[w].content \in Contents \cup {None}
    BY <1>5 DEF ReceiveRecord
  <2>2. r \in [Parts -> Contents \cup {None}]
    BY <2>1
  <2>3. received' = [received EXCEPT ![Pkg(w)] = r]
    BY <1>5 DEF ReceiveRecord
  <2>4. received' \in [Packages -> [Parts -> Contents \cup {None}]]
    BY <2>1, <2>2, <2>3
  <2>5. QED
    BY <1>5, <2>1, <2>4 DEF ReceiveRecord, Steps
<1>6. ASSUME NEW w \in Workers, TakeOwnership(w)
      PROVE  TypeOK'
  BY <1>6 DEF TakeOwnership, Steps, AssemblySteps
<1>7. ASSUME NEW w \in Workers, WaitReturn(w)
      PROVE  TypeOK'
  BY <1>7 DEF WaitReturn, disk, manifest, Steps
<1>8. ASSUME NEW w \in Workers, AssembleBegin(w)
      PROVE  TypeOK'
  BY <1>8 DEF AssembleBegin, manifest, Steps, AssemblySteps
<1>9. ASSUME NEW w \in Workers, CopyPart(w)
      PROVE  TypeOK'
  <2> DEFINE p == Pkg(w)
             k == NextPart(w)
             c == stored[p][k]
  <2>1. p \in Packages /\ k \in Parts
    BY <1>9, ConstantsOK DEF CopyPart, NextPart, Parts
  <2>2. c \in Contents
    BY <1>9, <2>1 DEF CopyPart, PartIntact
  <2>3. hashed' \in [Workers -> Seq(Contents)] /\ temp' \in [Packages -> Seq(Contents)]
    <3>1. Append(hashed[w], c) \in Seq(Contents) /\ Append(temp[p], c) \in Seq(Contents)
      BY <2>1, <2>2
    <3>2. QED
      BY <1>9, <3>1 DEF CopyPart
  <2>4. QED
    BY <1>9, <2>3 DEF CopyPart, manifest
<1>10. ASSUME NEW w \in Workers, VerifyWhole(w)
       PROVE  TypeOK'
  BY <1>10 DEF VerifyWhole, disk, manifest, Steps, AssemblySteps
<1>11. ASSUME NEW w \in Workers, CheckTarget(w)
       PROVE  TypeOK'
  BY <1>11 DEF CheckTarget, disk, manifest, Steps, AssemblySteps
<1>12. ASSUME NEW w \in Workers, Replace(w)
       PROVE  TypeOK'
  <2>1. Pkg(w) \in Packages
    BY <1>12 DEF Replace
  <2>2. [of |-> Pkg(w), body |-> temp[Pkg(w)]] \in File
    BY <2>1 DEF File
  <2>3. target' \in [Targets -> File]
    <3> HIDE DEF File
    <3>1. QED  BY <1>12, <2>2 DEF Replace
  <2>4. QED
    BY <1>12, <2>1, <2>3 DEF Replace, manifest, Steps, AssemblySteps
<1>13. ASSUME NEW w \in Workers, ReadRecord(w)
       PROVE  TypeOK'
  <2>1. TargetOf[Pkg(w)] \in Targets
    BY <1>13, ConstantsOK DEF ReadRecord
  <2>2. fileRecord' \in [Workers -> File]
    BY <1>13, <2>1 DEF ReadRecord
  <2>3. QED
    BY <1>13, <2>2 DEF ReadRecord, disk, manifest, Steps, AssemblySteps
<1>14. ASSUME NEW w \in Workers, Complete(w)
       PROVE  TypeOK'
  BY <1>14 DEF Complete, Steps
<1>15. ASSUME NEW w \in Workers, Cleanup(w)
       PROVE  TypeOK'
  BY <1>15 DEF Cleanup, manifest, Steps
<1>16. ASSUME NEW w \in Workers, AssembleReject(w)
       PROVE  TypeOK'
  BY <1>16 DEF AssembleReject, disk, manifest, Steps, FailureSteps
<1>17. ASSUME NEW w \in Workers, FailUnlink(w)
       PROVE  TypeOK'
  BY <1>17 DEF FailUnlink, manifest, Steps, FailureSteps
<1>18. ASSUME NEW w \in Workers, MarkFailed(w)
       PROVE  TypeOK'
  BY <1>18 DEF MarkFailed, Steps
<1>19. ASSUME NEW w \in Workers, AssembleFault(w)
       PROVE  TypeOK'
  <2>1. pc[w] # "idle" /\ faults' \in 0 .. MaxFaults
    BY <1>19, ConstantsOK DEF AssembleFault, AssemblySteps
  <2>2. QED
    BY <1>19, <2>1 DEF AssembleFault, disk, manifest, Steps, FailureSteps
<1>20. ASSUME NEW w \in Workers, Crash(w)
       PROVE  TypeOK'
  BY <1>20, ConstantsOK DEF Crash, disk, manifest, Steps
<1>21. CASE UNCHANGED vars
  BY <1>21 DEF vars, disk, manifest, local
<1>22. QED
  BY <1>1, <1>2, <1>3, <1>4, <1>5, <1>6, <1>7, <1>8, <1>9, <1>10, <1>11, <1>12,
     <1>13, <1>14, <1>15, <1>16, <1>17, <1>18, <1>19, <1>20, <1>21
  DEF Next, Receive, Poll, Assemble

\* Every variable of the package transfer keeps its type.
THEOREM TypeCorrect == Spec => []TypeOK
BY TypeInit, TypeNext, PTL DEF Spec
\* A call keeps its arguments while it runs, and a part call keeps the lock it took.
LEMMA CallStep == TypeOK /\ IInv /\ [Next]_vars => CallInv'
<1> SUFFICES ASSUME TypeOK, CallInv, [Next]_vars
             PROVE  CallInv'
  BY DEF IInv
<1> USE DEF TypeOK, Pkg, LockedSteps, AssemblySteps, FailureSteps, Steps, CallInv
<1>1. ASSUME NEW w \in Workers, NEW p \in Packages, NEW i \in Parts, NEW c \in Contents,
             ReceiveOpen(w, p, i, c)
      PROVE  CallInv'
  BY <1>1, ConstantsOK DEF ReceiveOpen, GetOrCreateManifest, Call
<1>2. ASSUME NEW w \in Workers, NEW p \in Packages, WaitOpen(w, p)
      PROVE  CallInv'
  BY <1>2 DEF WaitOpen, GetOrCreateManifest, Call, NoJob
<1>3. ASSUME NEW w \in Workers, ReceiveStore(w)
      PROVE  CallInv'
  BY <1>3 DEF ReceiveStore, Goto, manifest
<1>4. ASSUME NEW w \in Workers, ReceiveAnswer(w)
      PROVE  CallInv'
  BY <1>4 DEF ReceiveAnswer, Return, Release, disk, manifest, NoJob
<1>5. ASSUME NEW w \in Workers, ReceiveRecord(w)
      PROVE  CallInv'
  BY <1>5 DEF ReceiveRecord, Return, Release, NoJob
<1>6. ASSUME NEW w \in Workers, TakeOwnership(w)
      PROVE  CallInv'
  BY <1>6 DEF TakeOwnership, Goto
<1>7. ASSUME NEW w \in Workers, WaitReturn(w)
      PROVE  CallInv'
  BY <1>7 DEF WaitReturn, Return, disk, manifest, NoJob
<1>8. ASSUME NEW w \in Workers, AssembleBegin(w)
      PROVE  CallInv'
  BY <1>8 DEF AssembleBegin, Goto, manifest
<1>9. ASSUME NEW w \in Workers, CopyPart(w)
      PROVE  CallInv'
  BY <1>9 DEF CopyPart, PartIntact, NextPart, manifest
<1>10. ASSUME NEW w \in Workers, VerifyWhole(w)
      PROVE  CallInv'
  BY <1>10 DEF VerifyWhole, Goto, disk, manifest
<1>11. ASSUME NEW w \in Workers, CheckTarget(w)
      PROVE  CallInv'
  BY <1>11 DEF CheckTarget, Goto, disk, manifest
<1>12. ASSUME NEW w \in Workers, Replace(w)
      PROVE  CallInv'
  BY <1>12 DEF Replace, Goto, manifest
<1>13. ASSUME NEW w \in Workers, ReadRecord(w)
      PROVE  CallInv'
  BY <1>13 DEF ReadRecord, disk, manifest
<1>14. ASSUME NEW w \in Workers, Complete(w)
      PROVE  CallInv'
  BY <1>14 DEF Complete, Goto
<1>15. ASSUME NEW w \in Workers, Cleanup(w)
      PROVE  CallInv'
  BY <1>15 DEF Cleanup, Return, manifest, NoJob
<1>16. ASSUME NEW w \in Workers, AssembleReject(w)
      PROVE  CallInv'
  BY <1>16 DEF AssembleReject, Goto, disk, manifest
<1>17. ASSUME NEW w \in Workers, FailUnlink(w)
      PROVE  CallInv'
  BY <1>17 DEF FailUnlink, Goto, manifest
<1>18. ASSUME NEW w \in Workers, MarkFailed(w)
      PROVE  CallInv'
  BY <1>18 DEF MarkFailed, Return, NoJob
<1>19. ASSUME NEW w \in Workers, AssembleFault(w)
      PROVE  CallInv'
  BY <1>19 DEF AssembleFault, Goto, disk, manifest
<1>20. ASSUME NEW w \in Workers, Crash(w)
      PROVE  CallInv'
  BY <1>20 DEF Crash, Return, disk, manifest, NoJob
<1>21. CASE UNCHANGED vars
  BY <1>21 DEF vars, disk, manifest, local
<1>22. QED
  BY <1>1, <1>2, <1>3, <1>4, <1>5, <1>6, <1>7, <1>8, <1>9, <1>10, <1>11,
     <1>12, <1>13, <1>14, <1>15, <1>16, <1>17, <1>18, <1>19, <1>20, <1>21
  DEF Next, Receive, Poll, Assemble


\* While a part waits to be recorded its worker has the lock, so nobody else moves the
\* manifest, and no assembler is there to remove the part.
LEMMA RecordStep == TypeOK /\ IInv /\ [Next]_vars => RecordInv'
<1> SUFFICES ASSUME TypeOK, CallInv, RecordInv, OwnerInv, [Next]_vars
             PROVE  RecordInv'
  BY DEF IInv
<1> USE DEF TypeOK, Pkg, LockedSteps, AssemblySteps, FailureSteps, Steps, CallInv, RecordInv, OwnerInv
<1>1. ASSUME NEW w \in Workers, NEW p \in Packages, NEW i \in Parts, NEW c \in Contents,
             ReceiveOpen(w, p, i, c)
      PROVE  RecordInv'
  BY <1>1 DEF ReceiveOpen, GetOrCreateManifest, Call
<1>2. ASSUME NEW w \in Workers, NEW p \in Packages, WaitOpen(w, p)
      PROVE  RecordInv'
  BY <1>2 DEF WaitOpen, GetOrCreateManifest, Call, NoJob
<1>3. ASSUME NEW w \in Workers, ReceiveStore(w)
      PROVE  RecordInv'
  BY <1>3 DEF ReceiveStore, Goto, manifest
<1>4. ASSUME NEW w \in Workers, ReceiveAnswer(w)
      PROVE  RecordInv'
  BY <1>4 DEF ReceiveAnswer, Return, Release, disk, manifest, NoJob
<1>5. ASSUME NEW w \in Workers, ReceiveRecord(w)
      PROVE  RecordInv'
  BY <1>5 DEF ReceiveRecord, Return, Release, NoJob
<1>6. ASSUME NEW w \in Workers, TakeOwnership(w)
      PROVE  RecordInv'
  BY <1>6, ConstantsOK DEF TakeOwnership, Goto
<1>7. ASSUME NEW w \in Workers, WaitReturn(w)
      PROVE  RecordInv'
  BY <1>7 DEF WaitReturn, Return, disk, manifest, NoJob
<1>8. ASSUME NEW w \in Workers, AssembleBegin(w)
      PROVE  RecordInv'
  BY <1>8 DEF AssembleBegin, Goto, manifest
<1>9. ASSUME NEW w \in Workers, CopyPart(w)
      PROVE  RecordInv'
  BY <1>9 DEF CopyPart, PartIntact, NextPart, manifest
<1>10. ASSUME NEW w \in Workers, VerifyWhole(w)
      PROVE  RecordInv'
  BY <1>10 DEF VerifyWhole, Goto, disk, manifest
<1>11. ASSUME NEW w \in Workers, CheckTarget(w)
      PROVE  RecordInv'
  BY <1>11 DEF CheckTarget, Goto, disk, manifest
<1>12. ASSUME NEW w \in Workers, Replace(w)
      PROVE  RecordInv'
  BY <1>12 DEF Replace, Goto, manifest
<1>13. ASSUME NEW w \in Workers, ReadRecord(w)
      PROVE  RecordInv'
  BY <1>13 DEF ReadRecord, disk, manifest
<1>14. ASSUME NEW w \in Workers, Complete(w)
      PROVE  RecordInv'
  BY <1>14 DEF Complete, Goto
<1>15. ASSUME NEW w \in Workers, Cleanup(w)
      PROVE  RecordInv'
  BY <1>15 DEF Cleanup, Return, manifest, NoJob
<1>16. ASSUME NEW w \in Workers, AssembleReject(w)
      PROVE  RecordInv'
  BY <1>16 DEF AssembleReject, Goto, disk, manifest
<1>17. ASSUME NEW w \in Workers, FailUnlink(w)
      PROVE  RecordInv'
  BY <1>17 DEF FailUnlink, Goto, manifest
<1>18. ASSUME NEW w \in Workers, MarkFailed(w)
      PROVE  RecordInv'
  BY <1>18, ZenonT(60) DEF MarkFailed, Return, NoJob
<1>19. ASSUME NEW w \in Workers, AssembleFault(w)
      PROVE  RecordInv'
  BY <1>19 DEF AssembleFault, Goto, disk, manifest
<1>20. ASSUME NEW w \in Workers, Crash(w)
      PROVE  RecordInv'
  BY <1>20 DEF Crash, Return, disk, manifest, NoJob
<1>21. CASE UNCHANGED vars
  BY <1>21 DEF vars, disk, manifest, local
<1>22. QED
  BY <1>1, <1>2, <1>3, <1>4, <1>5, <1>6, <1>7, <1>8, <1>9, <1>10, <1>11,
     <1>12, <1>13, <1>14, <1>15, <1>16, <1>17, <1>18, <1>19, <1>20, <1>21
  DEF Next, Receive, Poll, Assemble


\* A second worker cannot enter _assemble: the manifest of an owned package says
\* assembling or completed.
LEMMA SingleStep == TypeOK /\ IInv /\ [Next]_vars => SingleAssembler'
<1> SUFFICES ASSUME TypeOK, SingleAssembler, OwnerInv, [Next]_vars
             PROVE  SingleAssembler'
  BY DEF IInv
<1> USE DEF TypeOK, Pkg, LockedSteps, AssemblySteps, FailureSteps, Steps, SingleAssembler, OwnerInv, Assembling
<1>1. ASSUME NEW w \in Workers, NEW p \in Packages, NEW i \in Parts, NEW c \in Contents,
             ReceiveOpen(w, p, i, c)
      PROVE  SingleAssembler'
  BY <1>1 DEF ReceiveOpen, GetOrCreateManifest, Call
<1>2. ASSUME NEW w \in Workers, NEW p \in Packages, WaitOpen(w, p)
      PROVE  SingleAssembler'
  BY <1>2 DEF WaitOpen, GetOrCreateManifest, Call, NoJob
<1>3. ASSUME NEW w \in Workers, ReceiveStore(w)
      PROVE  SingleAssembler'
  BY <1>3 DEF ReceiveStore, Goto, manifest
<1>4. ASSUME NEW w \in Workers, ReceiveAnswer(w)
      PROVE  SingleAssembler'
  BY <1>4 DEF ReceiveAnswer, Return, Release, disk, manifest, NoJob
<1>5. ASSUME NEW w \in Workers, ReceiveRecord(w)
      PROVE  SingleAssembler'
  BY <1>5 DEF ReceiveRecord, Return, Release, NoJob
<1>6. ASSUME NEW w \in Workers, TakeOwnership(w)
      PROVE  SingleAssembler'
  BY <1>6 DEF TakeOwnership, Goto
<1>7. ASSUME NEW w \in Workers, WaitReturn(w)
      PROVE  SingleAssembler'
  BY <1>7 DEF WaitReturn, Return, disk, manifest, NoJob
<1>8. ASSUME NEW w \in Workers, AssembleBegin(w)
      PROVE  SingleAssembler'
  BY <1>8 DEF AssembleBegin, Goto, manifest
<1>9. ASSUME NEW w \in Workers, CopyPart(w)
      PROVE  SingleAssembler'
  BY <1>9 DEF CopyPart, PartIntact, NextPart, manifest
<1>10. ASSUME NEW w \in Workers, VerifyWhole(w)
      PROVE  SingleAssembler'
  BY <1>10 DEF VerifyWhole, Goto, disk, manifest
<1>11. ASSUME NEW w \in Workers, CheckTarget(w)
      PROVE  SingleAssembler'
  BY <1>11 DEF CheckTarget, Goto, disk, manifest
<1>12. ASSUME NEW w \in Workers, Replace(w)
      PROVE  SingleAssembler'
  BY <1>12 DEF Replace, Goto, manifest
<1>13. ASSUME NEW w \in Workers, ReadRecord(w)
      PROVE  SingleAssembler'
  BY <1>13 DEF ReadRecord, disk, manifest
<1>14. ASSUME NEW w \in Workers, Complete(w)
      PROVE  SingleAssembler'
  BY <1>14 DEF Complete, Goto
<1>15. ASSUME NEW w \in Workers, Cleanup(w)
      PROVE  SingleAssembler'
  BY <1>15 DEF Cleanup, Return, manifest, NoJob
<1>16. ASSUME NEW w \in Workers, AssembleReject(w)
      PROVE  SingleAssembler'
  BY <1>16 DEF AssembleReject, Goto, disk, manifest
<1>17. ASSUME NEW w \in Workers, FailUnlink(w)
      PROVE  SingleAssembler'
  BY <1>17 DEF FailUnlink, Goto, manifest
<1>18. ASSUME NEW w \in Workers, MarkFailed(w)
      PROVE  SingleAssembler'
  BY <1>18 DEF MarkFailed, Return, NoJob
<1>19. ASSUME NEW w \in Workers, AssembleFault(w)
      PROVE  SingleAssembler'
  BY <1>19 DEF AssembleFault, Goto, disk, manifest
<1>20. ASSUME NEW w \in Workers, Crash(w)
      PROVE  SingleAssembler'
  BY <1>20 DEF Crash, Return, disk, manifest, NoJob
<1>21. CASE UNCHANGED vars
  BY <1>21 DEF vars, disk, manifest, local
<1>22. QED
  BY <1>1, <1>2, <1>3, <1>4, <1>5, <1>6, <1>7, <1>8, <1>9, <1>10, <1>11,
     <1>12, <1>13, <1>14, <1>15, <1>16, <1>17, <1>18, <1>19, <1>20, <1>21
  DEF Next, Receive, Poll, Assemble


\* The status of an owned package is moved by its owner only.
LEMMA OwnerStep == TypeOK /\ IInv /\ [Next]_vars => OwnerInv'
<1> SUFFICES ASSUME TypeOK, CallInv, RecordInv, SingleAssembler, OwnerInv, [Next]_vars
             PROVE  OwnerInv'
  BY DEF IInv
<1> USE DEF TypeOK, Pkg, LockedSteps, AssemblySteps, FailureSteps, Steps, CallInv, RecordInv, SingleAssembler, OwnerInv, Assembling
<1>1. ASSUME NEW w \in Workers, NEW p \in Packages, NEW i \in Parts, NEW c \in Contents,
             ReceiveOpen(w, p, i, c)
      PROVE  OwnerInv'
  BY <1>1 DEF ReceiveOpen, GetOrCreateManifest, Call
<1>2. ASSUME NEW w \in Workers, NEW p \in Packages, WaitOpen(w, p)
      PROVE  OwnerInv'
  BY <1>2 DEF WaitOpen, GetOrCreateManifest, Call, NoJob
<1>3. ASSUME NEW w \in Workers, ReceiveStore(w)
      PROVE  OwnerInv'
  BY <1>3 DEF ReceiveStore, Goto, manifest
<1>4. ASSUME NEW w \in Workers, ReceiveAnswer(w)
      PROVE  OwnerInv'
  BY <1>4 DEF ReceiveAnswer, Return, Release, disk, manifest, NoJob
<1>5. ASSUME NEW w \in Workers, ReceiveRecord(w)
      PROVE  OwnerInv'
  BY <1>5 DEF ReceiveRecord, Return, Release, NoJob
<1>6. ASSUME NEW w \in Workers, TakeOwnership(w)
      PROVE  OwnerInv'
  BY <1>6 DEF TakeOwnership, Goto
<1>7. ASSUME NEW w \in Workers, WaitReturn(w)
      PROVE  OwnerInv'
  BY <1>7 DEF WaitReturn, Return, disk, manifest, NoJob
<1>8. ASSUME NEW w \in Workers, AssembleBegin(w)
      PROVE  OwnerInv'
  BY <1>8 DEF AssembleBegin, Goto, manifest
<1>9. ASSUME NEW w \in Workers, CopyPart(w)
      PROVE  OwnerInv'
  BY <1>9 DEF CopyPart, PartIntact, NextPart, manifest
<1>10. ASSUME NEW w \in Workers, VerifyWhole(w)
      PROVE  OwnerInv'
  BY <1>10 DEF VerifyWhole, Goto, disk, manifest
<1>11. ASSUME NEW w \in Workers, CheckTarget(w)
      PROVE  OwnerInv'
  BY <1>11 DEF CheckTarget, Goto, disk, manifest
<1>12. ASSUME NEW w \in Workers, Replace(w)
      PROVE  OwnerInv'
  BY <1>12 DEF Replace, Goto, manifest
<1>13. ASSUME NEW w \in Workers, ReadRecord(w)
      PROVE  OwnerInv'
  BY <1>13 DEF ReadRecord, disk, manifest
<1>14. ASSUME NEW w \in Workers, Complete(w)
      PROVE  OwnerInv'
  BY <1>14 DEF Complete, Goto
<1>15. ASSUME NEW w \in Workers, Cleanup(w)
      PROVE  OwnerInv'
  BY <1>15 DEF Cleanup, Return, manifest, NoJob
<1>16. ASSUME NEW w \in Workers, AssembleReject(w)
      PROVE  OwnerInv'
  BY <1>16 DEF AssembleReject, Goto, disk, manifest
<1>17. ASSUME NEW w \in Workers, FailUnlink(w)
      PROVE  OwnerInv'
  BY <1>17 DEF FailUnlink, Goto, manifest
<1>18. ASSUME NEW w \in Workers, MarkFailed(w)
      PROVE  OwnerInv'
  BY <1>18 DEF MarkFailed, Return, NoJob
<1>19. ASSUME NEW w \in Workers, AssembleFault(w)
      PROVE  OwnerInv'
  BY <1>19 DEF AssembleFault, Goto, disk, manifest
<1>20. ASSUME NEW w \in Workers, Crash(w)
      PROVE  OwnerInv'
  BY <1>20 DEF Crash, Return, disk, manifest, NoJob
<1>21. CASE UNCHANGED vars
  BY <1>21 DEF vars, disk, manifest, local
<1>22. QED
  BY <1>1, <1>2, <1>3, <1>4, <1>5, <1>6, <1>7, <1>8, <1>9, <1>10, <1>11,
     <1>12, <1>13, <1>14, <1>15, <1>16, <1>17, <1>18, <1>19, <1>20, <1>21
  DEF Next, Receive, Poll, Assemble


\* A recorded part file is not rewritten, and is removed only after publication.
LEMMA DurableStep == TypeOK /\ IInv /\ [Next]_vars => AcknowledgedIsDurable'
<1> SUFFICES ASSUME TypeOK, CallInv, RecordInv, AcknowledgedIsDurable, PublicationInv, [Next]_vars
             PROVE  AcknowledgedIsDurable'
  BY DEF IInv
<1> USE DEF TypeOK, Pkg, LockedSteps, AssemblySteps, FailureSteps, Steps, CallInv, RecordInv, AcknowledgedIsDurable, PublicationInv
<1>1. ASSUME NEW w \in Workers, NEW p \in Packages, NEW i \in Parts, NEW c \in Contents,
             ReceiveOpen(w, p, i, c)
      PROVE  AcknowledgedIsDurable'
  BY <1>1 DEF ReceiveOpen, GetOrCreateManifest, Call
<1>2. ASSUME NEW w \in Workers, NEW p \in Packages, WaitOpen(w, p)
      PROVE  AcknowledgedIsDurable'
  BY <1>2 DEF WaitOpen, GetOrCreateManifest, Call, NoJob
<1>3. ASSUME NEW w \in Workers, ReceiveStore(w)
      PROVE  AcknowledgedIsDurable'
  BY <1>3 DEF ReceiveStore, Goto, manifest
<1>4. ASSUME NEW w \in Workers, ReceiveAnswer(w)
      PROVE  AcknowledgedIsDurable'
  BY <1>4 DEF ReceiveAnswer, Return, Release, disk, manifest, NoJob
<1>5. ASSUME NEW w \in Workers, ReceiveRecord(w)
      PROVE  AcknowledgedIsDurable'
  BY <1>5 DEF ReceiveRecord, Return, Release, NoJob
<1>6. ASSUME NEW w \in Workers, TakeOwnership(w)
      PROVE  AcknowledgedIsDurable'
  BY <1>6 DEF TakeOwnership, Goto
<1>7. ASSUME NEW w \in Workers, WaitReturn(w)
      PROVE  AcknowledgedIsDurable'
  BY <1>7 DEF WaitReturn, Return, disk, manifest, NoJob
<1>8. ASSUME NEW w \in Workers, AssembleBegin(w)
      PROVE  AcknowledgedIsDurable'
  BY <1>8 DEF AssembleBegin, Goto, manifest
<1>9. ASSUME NEW w \in Workers, CopyPart(w)
      PROVE  AcknowledgedIsDurable'
  BY <1>9 DEF CopyPart, PartIntact, NextPart, manifest
<1>10. ASSUME NEW w \in Workers, VerifyWhole(w)
      PROVE  AcknowledgedIsDurable'
  BY <1>10 DEF VerifyWhole, Goto, disk, manifest
<1>11. ASSUME NEW w \in Workers, CheckTarget(w)
      PROVE  AcknowledgedIsDurable'
  BY <1>11 DEF CheckTarget, Goto, disk, manifest
<1>12. ASSUME NEW w \in Workers, Replace(w)
      PROVE  AcknowledgedIsDurable'
  BY <1>12 DEF Replace, Goto, manifest
<1>13. ASSUME NEW w \in Workers, ReadRecord(w)
      PROVE  AcknowledgedIsDurable'
  BY <1>13 DEF ReadRecord, disk, manifest
<1>14. ASSUME NEW w \in Workers, Complete(w)
      PROVE  AcknowledgedIsDurable'
  BY <1>14 DEF Complete, Goto
<1>15. ASSUME NEW w \in Workers, Cleanup(w)
      PROVE  AcknowledgedIsDurable'
  BY <1>15 DEF Cleanup, Return, manifest, NoJob
<1>16. ASSUME NEW w \in Workers, AssembleReject(w)
      PROVE  AcknowledgedIsDurable'
  BY <1>16 DEF AssembleReject, Goto, disk, manifest
<1>17. ASSUME NEW w \in Workers, FailUnlink(w)
      PROVE  AcknowledgedIsDurable'
  BY <1>17 DEF FailUnlink, Goto, manifest
<1>18. ASSUME NEW w \in Workers, MarkFailed(w)
      PROVE  AcknowledgedIsDurable'
  BY <1>18 DEF MarkFailed, Return, NoJob
<1>19. ASSUME NEW w \in Workers, AssembleFault(w)
      PROVE  AcknowledgedIsDurable'
  BY <1>19 DEF AssembleFault, Goto, disk, manifest
<1>20. ASSUME NEW w \in Workers, Crash(w)
      PROVE  AcknowledgedIsDurable'
  BY <1>20 DEF Crash, Return, disk, manifest, NoJob
<1>21. CASE UNCHANGED vars
  BY <1>21 DEF vars, disk, manifest, local
<1>22. QED
  BY <1>1, <1>2, <1>3, <1>4, <1>5, <1>6, <1>7, <1>8, <1>9, <1>10, <1>11,
     <1>12, <1>13, <1>14, <1>15, <1>16, <1>17, <1>18, <1>19, <1>20, <1>21
  DEF Next, Receive, Poll, Assemble


\* Publication happens to owned packages, completion to published ones.
LEMMA DiskStep == TypeOK /\ IInv /\ [Next]_vars => DiskInv'
<1> SUFFICES ASSUME TypeOK, CallInv, RecordInv, OwnerInv, DiskInv, PublicationInv, [Next]_vars
             PROVE  DiskInv'
  BY DEF IInv
<1> USE DEF TypeOK, Pkg, LockedSteps, AssemblySteps, FailureSteps, Steps, CallInv, RecordInv, OwnerInv, DiskInv, PublicationInv, NoFile
<1>1. ASSUME NEW w \in Workers, NEW p \in Packages, NEW i \in Parts, NEW c \in Contents,
             ReceiveOpen(w, p, i, c)
      PROVE  DiskInv'
  BY <1>1 DEF ReceiveOpen, GetOrCreateManifest, Call
<1>2. ASSUME NEW w \in Workers, NEW p \in Packages, WaitOpen(w, p)
      PROVE  DiskInv'
  BY <1>2 DEF WaitOpen, GetOrCreateManifest, Call, NoJob
<1>3. ASSUME NEW w \in Workers, ReceiveStore(w)
      PROVE  DiskInv'
  BY <1>3 DEF ReceiveStore, Goto, manifest
<1>4. ASSUME NEW w \in Workers, ReceiveAnswer(w)
      PROVE  DiskInv'
  BY <1>4 DEF ReceiveAnswer, Return, Release, disk, manifest, NoJob
<1>5. ASSUME NEW w \in Workers, ReceiveRecord(w)
      PROVE  DiskInv'
  BY <1>5, ZenonT(60) DEF ReceiveRecord, Return, Release, NoJob
<1>6. ASSUME NEW w \in Workers, TakeOwnership(w)
      PROVE  DiskInv'
  BY <1>6 DEF TakeOwnership, Goto
<1>7. ASSUME NEW w \in Workers, WaitReturn(w)
      PROVE  DiskInv'
  BY <1>7 DEF WaitReturn, Return, disk, manifest, NoJob
<1>8. ASSUME NEW w \in Workers, AssembleBegin(w)
      PROVE  DiskInv'
  BY <1>8 DEF AssembleBegin, Goto, manifest
<1>9. ASSUME NEW w \in Workers, CopyPart(w)
      PROVE  DiskInv'
  BY <1>9 DEF CopyPart, PartIntact, NextPart, manifest
<1>10. ASSUME NEW w \in Workers, VerifyWhole(w)
      PROVE  DiskInv'
  BY <1>10 DEF VerifyWhole, Goto, disk, manifest
<1>11. ASSUME NEW w \in Workers, CheckTarget(w)
      PROVE  DiskInv'
  BY <1>11 DEF CheckTarget, Goto, disk, manifest
<1>12. ASSUME NEW w \in Workers, Replace(w)
      PROVE  DiskInv'
  BY <1>12 DEF Replace, Goto, manifest
<1>13. ASSUME NEW w \in Workers, ReadRecord(w)
      PROVE  DiskInv'
  BY <1>13 DEF ReadRecord, disk, manifest
<1>14. ASSUME NEW w \in Workers, Complete(w)
      PROVE  DiskInv'
  BY <1>14 DEF Complete, Goto
<1>15. ASSUME NEW w \in Workers, Cleanup(w)
      PROVE  DiskInv'
  BY <1>15 DEF Cleanup, Return, manifest, NoJob
<1>16. ASSUME NEW w \in Workers, AssembleReject(w)
      PROVE  DiskInv'
  BY <1>16 DEF AssembleReject, Goto, disk, manifest
<1>17. ASSUME NEW w \in Workers, FailUnlink(w)
      PROVE  DiskInv'
  BY <1>17 DEF FailUnlink, Goto, manifest
<1>18. ASSUME NEW w \in Workers, MarkFailed(w)
      PROVE  DiskInv'
  BY <1>18 DEF MarkFailed, Return, NoJob
<1>19. ASSUME NEW w \in Workers, AssembleFault(w)
      PROVE  DiskInv'
  BY <1>19 DEF AssembleFault, Goto, disk, manifest
<1>20. ASSUME NEW w \in Workers, Crash(w)
      PROVE  DiskInv'
  BY <1>20 DEF Crash, Return, disk, manifest, NoJob
<1>21. CASE UNCHANGED vars
  BY <1>21 DEF vars, disk, manifest, local
<1>22. QED
  BY <1>1, <1>2, <1>3, <1>4, <1>5, <1>6, <1>7, <1>8, <1>9, <1>10, <1>11,
     <1>12, <1>13, <1>14, <1>15, <1>16, <1>17, <1>18, <1>19, <1>20, <1>21
  DEF Next, Receive, Poll, Assemble


\* The owner alone publishes, once, and reads back a verified file.
LEMMA PublicationStep == TypeOK /\ IInv /\ [Next]_vars => PublicationInv'
<1> SUFFICES ASSUME TypeOK, CallInv, SingleAssembler, OwnerInv, DiskInv, PublicationInv, TargetInv, [Next]_vars
             PROVE  PublicationInv'
  BY DEF IInv
<1> USE DEF TypeOK, Pkg, LockedSteps, AssemblySteps, FailureSteps, Steps, CallInv, SingleAssembler, OwnerInv, DiskInv, PublicationInv
<1>1. ASSUME NEW w \in Workers, NEW p \in Packages, NEW i \in Parts, NEW c \in Contents,
             ReceiveOpen(w, p, i, c)
      PROVE  PublicationInv'
  BY <1>1 DEF ReceiveOpen, GetOrCreateManifest, Call
<1>2. ASSUME NEW w \in Workers, NEW p \in Packages, WaitOpen(w, p)
      PROVE  PublicationInv'
  BY <1>2 DEF WaitOpen, GetOrCreateManifest, Call, NoJob
<1>3. ASSUME NEW w \in Workers, ReceiveStore(w)
      PROVE  PublicationInv'
  BY <1>3 DEF ReceiveStore, Goto, manifest
<1>4. ASSUME NEW w \in Workers, ReceiveAnswer(w)
      PROVE  PublicationInv'
  BY <1>4 DEF ReceiveAnswer, Return, Release, disk, manifest, NoJob
<1>5. ASSUME NEW w \in Workers, ReceiveRecord(w)
      PROVE  PublicationInv'
  BY <1>5 DEF ReceiveRecord, Return, Release, NoJob
<1>6. ASSUME NEW w \in Workers, TakeOwnership(w)
      PROVE  PublicationInv'
  BY <1>6 DEF TakeOwnership, Goto
<1>7. ASSUME NEW w \in Workers, WaitReturn(w)
      PROVE  PublicationInv'
  BY <1>7 DEF WaitReturn, Return, disk, manifest, NoJob
<1>8. ASSUME NEW w \in Workers, AssembleBegin(w)
      PROVE  PublicationInv'
  BY <1>8 DEF AssembleBegin, Goto, manifest
<1>9. ASSUME NEW w \in Workers, CopyPart(w)
      PROVE  PublicationInv'
  BY <1>9 DEF CopyPart, PartIntact, NextPart, manifest
<1>10. ASSUME NEW w \in Workers, VerifyWhole(w)
      PROVE  PublicationInv'
  BY <1>10 DEF VerifyWhole, Goto, disk, manifest
<1>11. ASSUME NEW w \in Workers, CheckTarget(w)
      PROVE  PublicationInv'
  BY <1>11 DEF CheckTarget, Goto, disk, manifest
<1>12. ASSUME NEW w \in Workers, Replace(w)
      PROVE  PublicationInv'
  <2>1. \A u \in Workers : u # w /\ pc[u] \in AssemblySteps => Pkg(u) # Pkg(w)
    BY <1>12 DEF Replace, SingleAssembler, Assembling
  <2>2. /\ pc' = [pc EXCEPT ![w] = "read_record"] /\ job' = job /\ fileRecord' = fileRecord
        /\ published' = published \cup {Pkg(w)}
    BY <1>12 DEF Replace, Goto
  <2>3. QED
    BY <2>1, <2>2
<1>13. ASSUME NEW w \in Workers, ReadRecord(w)
      PROVE  PublicationInv'
  <2>1. fileRecord'[w].body = Whole
    <3>1. Pkg(w) \in published /\ TargetOf[Pkg(w)] \in Targets
      BY <1>13, ConstantsOK DEF ReadRecord
    <3>2. target[TargetOf[Pkg(w)]].body = Whole
      BY <3>1 DEF TargetInv, PublishedVerified
    <3>3. QED
      BY <1>13, <3>2 DEF ReadRecord
  <2>2. QED
    BY <1>13, <2>1 DEF ReadRecord, disk, manifest
<1>14. ASSUME NEW w \in Workers, Complete(w)
      PROVE  PublicationInv'
  BY <1>14 DEF Complete, Goto
<1>15. ASSUME NEW w \in Workers, Cleanup(w)
      PROVE  PublicationInv'
  BY <1>15 DEF Cleanup, Return, manifest, NoJob
<1>16. ASSUME NEW w \in Workers, AssembleReject(w)
      PROVE  PublicationInv'
  BY <1>16 DEF AssembleReject, Goto, disk, manifest
<1>17. ASSUME NEW w \in Workers, FailUnlink(w)
      PROVE  PublicationInv'
  BY <1>17 DEF FailUnlink, Goto, manifest
<1>18. ASSUME NEW w \in Workers, MarkFailed(w)
      PROVE  PublicationInv'
  BY <1>18 DEF MarkFailed, Return, NoJob
<1>19. ASSUME NEW w \in Workers, AssembleFault(w)
      PROVE  PublicationInv'
  BY <1>19 DEF AssembleFault, Goto, disk, manifest
<1>20. ASSUME NEW w \in Workers, Crash(w)
      PROVE  PublicationInv'
  BY <1>20 DEF Crash, Return, disk, manifest, NoJob
<1>21. CASE UNCHANGED vars
  BY <1>21 DEF vars, disk, manifest, local
<1>22. QED
  BY <1>1, <1>2, <1>3, <1>4, <1>5, <1>6, <1>7, <1>8, <1>9, <1>10, <1>11,
     <1>12, <1>13, <1>14, <1>15, <1>16, <1>17, <1>18, <1>19, <1>20, <1>21
  DEF Next, Receive, Poll, Assemble


\* The parts an assembler has hashed and its temporary file are disturbed by nobody.
LEMMA HashStep == TypeOK /\ IInv /\ [Next]_vars => HashInv'
<1> SUFFICES ASSUME TypeOK, CallInv, RecordInv, SingleAssembler, OwnerInv, HashInv, [Next]_vars
             PROVE  HashInv'
  BY DEF IInv
<1> USE DEF TypeOK, Pkg, LockedSteps, AssemblySteps, FailureSteps, Steps, CallInv, RecordInv, SingleAssembler, OwnerInv, HashInv, HashOf, Assembling
<1>1. ASSUME NEW w \in Workers, NEW p \in Packages, NEW i \in Parts, NEW c \in Contents,
             ReceiveOpen(w, p, i, c)
      PROVE  HashInv'
  BY <1>1 DEF ReceiveOpen, GetOrCreateManifest, Call
<1>2. ASSUME NEW w \in Workers, NEW p \in Packages, WaitOpen(w, p)
      PROVE  HashInv'
  BY <1>2 DEF WaitOpen, GetOrCreateManifest, Call, NoJob
<1>3. ASSUME NEW w \in Workers, ReceiveStore(w)
      PROVE  HashInv'
  BY <1>3 DEF ReceiveStore, Goto, manifest
<1>4. ASSUME NEW w \in Workers, ReceiveAnswer(w)
      PROVE  HashInv'
  BY <1>4 DEF ReceiveAnswer, Return, Release, disk, manifest, NoJob
<1>5. ASSUME NEW w \in Workers, ReceiveRecord(w)
      PROVE  HashInv'
  <2>1. ASSUME NEW u \in Workers
        PROVE  HashOf(u)'
    <3>1. u # w => pc'[u] = pc[u] /\ job'[u] = job[u] /\ hashed'[u] = hashed[u]
      BY <1>5 DEF ReceiveRecord, Return
    <3>2. pc[u] \in AssemblySteps => Pkg(u) # Pkg(w)
      BY <1>5 DEF ReceiveRecord
    <3>3. Pkg(u) # Pkg(w) => received'[Pkg(u)] = received[Pkg(u)]
      BY <1>5 DEF ReceiveRecord
    <3>4. pc'[w] = "idle" /\ hashed'[w] = <<>>
      BY <1>5 DEF ReceiveRecord, Return
    <3>5. temp' = temp /\ tempBy' = tempBy
      BY <1>5 DEF ReceiveRecord
    <3>6. CASE u = w
      BY <3>4, <3>6
    <3>7. CASE u # w
      BY <3>1, <3>2, <3>3, <3>5, <3>7
    <3>8. QED
      BY <3>6, <3>7
  <2>2. QED
    BY <2>1
<1>6. ASSUME NEW w \in Workers, TakeOwnership(w)
      PROVE  HashInv'
  BY <1>6 DEF TakeOwnership, Goto
<1>7. ASSUME NEW w \in Workers, WaitReturn(w)
      PROVE  HashInv'
  BY <1>7 DEF WaitReturn, Return, disk, manifest, NoJob
<1>8. ASSUME NEW w \in Workers, AssembleBegin(w)
      PROVE  HashInv'
  <2>1. ASSUME NEW u \in Workers
        PROVE  HashOf(u)'
    <3>1. pc' = [pc EXCEPT ![w] = "copy"] /\ job' = job /\ hashed' = hashed /\ received' = received
      BY <1>8 DEF AssembleBegin, Goto, manifest
    <3>2. tempBy'[Pkg(w)] = w /\ temp'[Pkg(w)] = <<>> /\ hashed[w] = <<>>
      BY <1>8 DEF AssembleBegin
    <3>3. CASE u = w
      BY <3>1, <3>2, <3>3, ConstantsOK
    <3>4. CASE u # w
      <4>1. pc[u] \in AssemblySteps => Pkg(u) # Pkg(w)
        BY <1>8, <3>4 DEF AssembleBegin
      <4>2. Pkg(u) # Pkg(w) => tempBy'[Pkg(u)] = tempBy[Pkg(u)] /\ temp'[Pkg(u)] = temp[Pkg(u)]
        BY <1>8 DEF AssembleBegin
      <4>3. QED
        BY <3>1, <3>4, <4>1, <4>2
    <3>5. QED
      BY <3>3, <3>4
  <2>2. QED
    BY <2>1
<1>9. ASSUME NEW w \in Workers, CopyPart(w)
      PROVE  HashInv'
  <2>1. ASSUME NEW u \in Workers
        PROVE  HashOf(u)'
    <3> DEFINE c == stored[Pkg(w)][NextPart(w)]
    <3>1. /\ pc' = pc /\ job' = job /\ received' = received /\ tempBy' = tempBy
          /\ tempBy[Pkg(w)] = w
          /\ hashed' = [hashed EXCEPT ![w] = Append(hashed[w], c)]
          /\ temp' = [temp EXCEPT ![Pkg(w)] = Append(temp[Pkg(w)], c)]
      BY <1>9 DEF CopyPart, manifest
    <3>2. CASE u = w
      <4>1. c = received[Pkg(w)][Len(hashed[w])] /\ Len(hashed[w]) < PartCount
        BY <1>9 DEF CopyPart, PartIntact, NextPart
      <4>2. /\ Len(hashed'[w]) = Len(hashed[w]) + 1
            /\ \A k \in 1 .. Len(hashed[w]) : hashed'[w][k] = hashed[w][k]
            /\ hashed'[w][Len(hashed[w]) + 1] = c
        BY <3>1
      <4>3. \A k \in 1 .. Len(hashed'[w]) : hashed'[w][k] = received[Pkg(w)][k - 1]
        BY <1>9, <4>1, <4>2 DEF CopyPart
      <4>4. temp'[Pkg(w)] = hashed'[w]
        BY <1>9, <3>1 DEF CopyPart
      <4>5. QED
        BY <1>9, <3>1, <3>2, <4>1, <4>2, <4>3, <4>4, ConstantsOK DEF CopyPart
    <3>3. CASE u # w
      <4>1. pc[u] \in AssemblySteps => Pkg(u) # Pkg(w)
        BY <1>9, <3>3 DEF CopyPart
      <4>2. Pkg(u) # Pkg(w) => temp'[Pkg(u)] = temp[Pkg(u)]
        BY <3>1
      <4>3. hashed'[u] = hashed[u]
        BY <3>1, <3>3
      <4>4. QED
        BY <3>1, <4>1, <4>2, <4>3
    <3>4. QED
      BY <3>2, <3>3
  <2>2. QED
    BY <2>1
<1>10. ASSUME NEW w \in Workers, VerifyWhole(w)
      PROVE  HashInv'
  BY <1>10 DEF VerifyWhole, WholeFileVerified, Goto, disk, manifest
<1>11. ASSUME NEW w \in Workers, CheckTarget(w)
      PROVE  HashInv'
  BY <1>11 DEF CheckTarget, Goto, disk, manifest
<1>12. ASSUME NEW w \in Workers, Replace(w)
      PROVE  HashInv'
  BY <1>12 DEF Replace, Goto, manifest
<1>13. ASSUME NEW w \in Workers, ReadRecord(w)
      PROVE  HashInv'
  BY <1>13 DEF ReadRecord, disk, manifest
<1>14. ASSUME NEW w \in Workers, Complete(w)
      PROVE  HashInv'
  BY <1>14 DEF Complete, Goto
<1>15. ASSUME NEW w \in Workers, Cleanup(w)
      PROVE  HashInv'
  BY <1>15 DEF Cleanup, Return, manifest, NoJob
<1>16. ASSUME NEW w \in Workers, AssembleReject(w)
      PROVE  HashInv'
  BY <1>16 DEF AssembleReject, Goto, disk, manifest
<1>17. ASSUME NEW w \in Workers, FailUnlink(w)
      PROVE  HashInv'
  BY <1>17 DEF FailUnlink, Goto, manifest
<1>18. ASSUME NEW w \in Workers, MarkFailed(w)
      PROVE  HashInv'
  BY <1>18 DEF MarkFailed, Return, NoJob
<1>19. ASSUME NEW w \in Workers, AssembleFault(w)
      PROVE  HashInv'
  BY <1>19 DEF AssembleFault, Goto, disk, manifest
<1>20. ASSUME NEW w \in Workers, Crash(w)
      PROVE  HashInv'
  BY <1>20 DEF Crash, Return, disk, manifest, NoJob
<1>21. CASE UNCHANGED vars
  BY <1>21 DEF vars, disk, manifest, local
<1>22. QED
  BY <1>1, <1>2, <1>3, <1>4, <1>5, <1>6, <1>7, <1>8, <1>9, <1>10, <1>11,
     <1>12, <1>13, <1>14, <1>15, <1>16, <1>17, <1>18, <1>19, <1>20, <1>21
  DEF Next, Receive, Poll, Assemble


\* The file moved to a target is the one the owner verified.
LEMMA TargetStep == TypeOK /\ IInv /\ [Next]_vars => TargetInv'
<1> SUFFICES ASSUME TypeOK, CallInv, HashInv, TargetInv, [Next]_vars
             PROVE  TargetInv'
  BY DEF IInv
<1> USE DEF TypeOK, Pkg, LockedSteps, AssemblySteps, FailureSteps, Steps, CallInv, TargetInv, PublishedVerified
<1>1. ASSUME NEW w \in Workers, NEW p \in Packages, NEW i \in Parts, NEW c \in Contents,
             ReceiveOpen(w, p, i, c)
      PROVE  TargetInv'
  BY <1>1 DEF ReceiveOpen, GetOrCreateManifest, Call
<1>2. ASSUME NEW w \in Workers, NEW p \in Packages, WaitOpen(w, p)
      PROVE  TargetInv'
  BY <1>2 DEF WaitOpen, GetOrCreateManifest, Call, NoJob
<1>3. ASSUME NEW w \in Workers, ReceiveStore(w)
      PROVE  TargetInv'
  BY <1>3 DEF ReceiveStore, Goto, manifest
<1>4. ASSUME NEW w \in Workers, ReceiveAnswer(w)
      PROVE  TargetInv'
  BY <1>4 DEF ReceiveAnswer, Return, Release, disk, manifest, NoJob
<1>5. ASSUME NEW w \in Workers, ReceiveRecord(w)
      PROVE  TargetInv'
  BY <1>5 DEF ReceiveRecord, Return, Release, NoJob
<1>6. ASSUME NEW w \in Workers, TakeOwnership(w)
      PROVE  TargetInv'
  BY <1>6 DEF TakeOwnership, Goto
<1>7. ASSUME NEW w \in Workers, WaitReturn(w)
      PROVE  TargetInv'
  BY <1>7 DEF WaitReturn, Return, disk, manifest, NoJob
<1>8. ASSUME NEW w \in Workers, AssembleBegin(w)
      PROVE  TargetInv'
  BY <1>8 DEF AssembleBegin, Goto, manifest
<1>9. ASSUME NEW w \in Workers, CopyPart(w)
      PROVE  TargetInv'
  BY <1>9 DEF CopyPart, PartIntact, NextPart, manifest
<1>10. ASSUME NEW w \in Workers, VerifyWhole(w)
      PROVE  TargetInv'
  BY <1>10 DEF VerifyWhole, Goto, disk, manifest
<1>11. ASSUME NEW w \in Workers, CheckTarget(w)
      PROVE  TargetInv'
  BY <1>11 DEF CheckTarget, Goto, disk, manifest
<1>12. ASSUME NEW w \in Workers, Replace(w)
      PROVE  TargetInv'
  <2>1. Pkg(w) \in Packages /\ TargetOf[Pkg(w)] \in Targets /\ temp[Pkg(w)] = Whole
    BY <1>12, ConstantsOK DEF Replace, HashInv, HashOf
  <2>2. /\ target' = [target EXCEPT ![TargetOf[Pkg(w)]] = [of |-> Pkg(w), body |-> Whole]]
        /\ published' = published \cup {Pkg(w)}
    BY <1>12, <2>1 DEF Replace
  <2>3. PublishedVerified'
    BY <2>2
  <2>4. \A p \in published' : target'[TargetOf[p]].of \in Packages
    BY <2>1, <2>2, ConstantsOK
  <2>5. QED
    BY <2>3, <2>4
<1>13. ASSUME NEW w \in Workers, ReadRecord(w)
      PROVE  TargetInv'
  BY <1>13 DEF ReadRecord, disk, manifest
<1>14. ASSUME NEW w \in Workers, Complete(w)
      PROVE  TargetInv'
  BY <1>14 DEF Complete, Goto
<1>15. ASSUME NEW w \in Workers, Cleanup(w)
      PROVE  TargetInv'
  BY <1>15 DEF Cleanup, Return, manifest, NoJob
<1>16. ASSUME NEW w \in Workers, AssembleReject(w)
      PROVE  TargetInv'
  BY <1>16 DEF AssembleReject, Goto, disk, manifest
<1>17. ASSUME NEW w \in Workers, FailUnlink(w)
      PROVE  TargetInv'
  BY <1>17 DEF FailUnlink, Goto, manifest
<1>18. ASSUME NEW w \in Workers, MarkFailed(w)
      PROVE  TargetInv'
  BY <1>18 DEF MarkFailed, Return, NoJob
<1>19. ASSUME NEW w \in Workers, AssembleFault(w)
      PROVE  TargetInv'
  BY <1>19 DEF AssembleFault, Goto, disk, manifest
<1>20. ASSUME NEW w \in Workers, Crash(w)
      PROVE  TargetInv'
  BY <1>20 DEF Crash, Return, disk, manifest, NoJob
<1>21. CASE UNCHANGED vars
  BY <1>21 DEF vars, disk, manifest, local
<1>22. QED
  BY <1>1, <1>2, <1>3, <1>4, <1>5, <1>6, <1>7, <1>8, <1>9, <1>10, <1>11,
     <1>12, <1>13, <1>14, <1>15, <1>16, <1>17, <1>18, <1>19, <1>20, <1>21
  DEF Next, Receive, Poll, Assemble

-------------------------------------------------------------------------------
(* The invariant holds *)

LEMMA InvInit == Init => IInv
<1> SUFFICES ASSUME Init PROVE IInv
  OBVIOUS
<1> USE ConstantsOK
<1>1. \A w \in Workers : pc[w] = "idle"
  BY DEF Init
<1>2. CallInv /\ RecordInv
  BY <1>1 DEF CallInv, RecordInv, LockedSteps, Init, NoJob
<1>3. SingleAssembler /\ OwnerInv
  BY <1>1 DEF SingleAssembler, OwnerInv, Assembling, AssemblySteps, FailureSteps
<1>4. AcknowledgedIsDurable /\ DiskInv
  BY <1>1 DEF Init, AcknowledgedIsDurable, DiskInv
<1>5. PublicationInv /\ HashInv
  BY <1>1 DEF Init, PublicationInv, HashInv, HashOf, Assembling, AssemblySteps
<1>6. TargetInv
  <2>1. published = {} /\ \A t \in Targets : target[t] \in {NoFile, ForeignFile}
    BY DEF Init
  <2>2. NoFile.of \notin Packages /\ ForeignFile.of \notin Packages
    BY DEF NoFile, ForeignFile
  <2>3. QED BY <2>1, <2>2 DEF TargetInv, PublishedVerified
<1>7. QED BY <1>2, <1>3, <1>4, <1>5, <1>6 DEF IInv

LEMMA InvNext == TypeOK /\ IInv /\ [Next]_vars => IInv'
BY CallStep, RecordStep, SingleStep, OwnerStep, DurableStep, DiskStep, PublicationStep,
   HashStep, TargetStep DEF IInv

\* The inductive invariant with the types: all of the theorems below rest on it.
THEOREM Invariance == Spec => [](TypeOK /\ IInv)
<1>1. Init => TypeOK /\ IInv
  BY TypeInit, InvInit
<1>2. TypeOK /\ IInv /\ [Next]_vars => (TypeOK /\ IInv)'
  BY TypeNext, InvNext
<1>3. QED
  BY <1>1, <1>2, PTL DEF Spec

\* Only one waiter ever assembles a package, whatever times out or dies.
THEOREM OnlyOneAssembler == Spec => []SingleAssembler
<1>1. TypeOK /\ IInv => SingleAssembler
  BY DEF IInv
<1>2. QED
  BY <1>1, Invariance, PTL

\* A file a package publishes is the declared one.
THEOREM OnlyVerifiedPublished == Spec => []PublishedVerified
<1>1. TypeOK /\ IInv => PublishedVerified
  BY DEF IInv, TargetInv
<1>2. QED
  BY <1>1, Invariance, PTL

\* An acknowledged part is on disk until its package is published.
THEOREM AcknowledgedStays == Spec => []AcknowledgedIsDurable
<1>1. TypeOK /\ IInv => AcknowledgedIsDurable
  BY DEF IInv
<1>2. QED
  BY <1>1, Invariance, PTL

\* A completed package has been published, with the record of a verified file.
THEOREM CompletedWasPublished == Spec => []CompletedIsPublished
<1>1. TypeOK /\ IInv => CompletedIsPublished
  BY DEF IInv, DiskInv, CompletedIsPublished
<1>2. QED
  BY <1>1, Invariance, PTL

-------------------------------------------------------------------------------
(* Failure without I/O errors *)

\* As long as no I/O error has happened, whoever fails a package has not
\* published it.
FaultInv ==
  faults = 0 =>
    /\ \A w \in Workers : pc[w] \in FailureSteps => Pkg(w) \notin published
    /\ \A p \in Packages : status[p] = "failed" => p \notin published

\* The checks that fail an assembly come before its replacement.
LEMMA FaultStep == TypeOK /\ IInv /\ FaultInv /\ [Next]_vars => FaultInv'
<1> SUFFICES ASSUME TypeOK, SingleAssembler, OwnerInv, PublicationInv, FaultInv, [Next]_vars
             PROVE  FaultInv'
  BY DEF IInv
<1> USE DEF TypeOK, Pkg, LockedSteps, AssemblySteps, FailureSteps, Steps, SingleAssembler, OwnerInv, PublicationInv, FaultInv, Assembling
<1>1. ASSUME NEW w \in Workers, NEW p \in Packages, NEW i \in Parts, NEW c \in Contents,
             ReceiveOpen(w, p, i, c)
      PROVE  FaultInv'
  BY <1>1 DEF ReceiveOpen, GetOrCreateManifest, Call
<1>2. ASSUME NEW w \in Workers, NEW p \in Packages, WaitOpen(w, p)
      PROVE  FaultInv'
  BY <1>2 DEF WaitOpen, GetOrCreateManifest, Call, NoJob
<1>3. ASSUME NEW w \in Workers, ReceiveStore(w)
      PROVE  FaultInv'
  BY <1>3 DEF ReceiveStore, Goto, manifest
<1>4. ASSUME NEW w \in Workers, ReceiveAnswer(w)
      PROVE  FaultInv'
  BY <1>4 DEF ReceiveAnswer, Return, Release, disk, manifest, NoJob
<1>5. ASSUME NEW w \in Workers, ReceiveRecord(w)
      PROVE  FaultInv'
  BY <1>5 DEF ReceiveRecord, Return, Release, NoJob
<1>6. ASSUME NEW w \in Workers, TakeOwnership(w)
      PROVE  FaultInv'
  BY <1>6 DEF TakeOwnership, Goto
<1>7. ASSUME NEW w \in Workers, WaitReturn(w)
      PROVE  FaultInv'
  BY <1>7 DEF WaitReturn, Return, disk, manifest, NoJob
<1>8. ASSUME NEW w \in Workers, AssembleBegin(w)
      PROVE  FaultInv'
  BY <1>8 DEF AssembleBegin, Goto, manifest
<1>9. ASSUME NEW w \in Workers, CopyPart(w)
      PROVE  FaultInv'
  BY <1>9 DEF CopyPart, PartIntact, NextPart, manifest
<1>10. ASSUME NEW w \in Workers, VerifyWhole(w)
      PROVE  FaultInv'
  BY <1>10 DEF VerifyWhole, Goto, disk, manifest
<1>11. ASSUME NEW w \in Workers, CheckTarget(w)
      PROVE  FaultInv'
  BY <1>11 DEF CheckTarget, Goto, disk, manifest
<1>12. ASSUME NEW w \in Workers, Replace(w)
      PROVE  FaultInv'
  BY <1>12 DEF Replace, Goto, manifest
<1>13. ASSUME NEW w \in Workers, ReadRecord(w)
      PROVE  FaultInv'
  BY <1>13 DEF ReadRecord, disk, manifest
<1>14. ASSUME NEW w \in Workers, Complete(w)
      PROVE  FaultInv'
  BY <1>14 DEF Complete, Goto
<1>15. ASSUME NEW w \in Workers, Cleanup(w)
      PROVE  FaultInv'
  BY <1>15 DEF Cleanup, Return, manifest, NoJob
<1>16. ASSUME NEW w \in Workers, AssembleReject(w)
      PROVE  FaultInv'
  BY <1>16 DEF AssembleReject, Goto, disk, manifest
<1>17. ASSUME NEW w \in Workers, FailUnlink(w)
      PROVE  FaultInv'
  BY <1>17 DEF FailUnlink, Goto, manifest
<1>18. ASSUME NEW w \in Workers, MarkFailed(w)
      PROVE  FaultInv'
  BY <1>18 DEF MarkFailed, Return, NoJob
<1>19. ASSUME NEW w \in Workers, AssembleFault(w)
      PROVE  FaultInv'
  BY <1>19 DEF AssembleFault, Goto, disk, manifest
<1>20. ASSUME NEW w \in Workers, Crash(w)
      PROVE  FaultInv'
  BY <1>20 DEF Crash, Return, disk, manifest, NoJob
<1>21. CASE UNCHANGED vars
  BY <1>21 DEF vars, disk, manifest, local
<1>22. QED
  BY <1>1, <1>2, <1>3, <1>4, <1>5, <1>6, <1>7, <1>8, <1>9, <1>10, <1>11,
     <1>12, <1>13, <1>14, <1>15, <1>16, <1>17, <1>18, <1>19, <1>20, <1>21
  DEF Next, Receive, Poll, Assemble


\* Without I/O errors a failed package has not touched its target.
THEOREM FailedWasNotPublished == Spec => []FailedIsUnpublished
<1>1. Init => FaultInv
  BY DEF Init, FaultInv, FailureSteps
<1>2. TypeOK /\ IInv /\ FaultInv /\ [Next]_vars => FaultInv'
  BY FaultStep
<1>3. FaultInv => FailedIsUnpublished
  BY DEF FaultInv, FailedIsUnpublished
<1>4. QED
  BY <1>1, <1>2, <1>3, Invariance, PTL DEF Spec

-------------------------------------------------------------------------------
(* Overwriting and refinement, when nobody else writes the target of a package
   that may not overwrite *)

PrivateTargets ==
  \A p, q \in Packages : ~ Overwrite[p] /\ TargetOf[p] = TargetOf[q] => p = q

\* What the existence check saw still holds at the replacement.
FreeInv ==
  \A w \in Workers : pc[w] = "replace" => TargetFree(Pkg(w))
\* Only the owner of a package writes its private target, so the check is not outdated.
LEMMA FreeStep == PrivateTargets /\ TypeOK /\ IInv /\ FreeInv /\ [Next]_vars => FreeInv'
<1> SUFFICES ASSUME TypeOK, PrivateTargets, SingleAssembler, CallInv, FreeInv, [Next]_vars
             PROVE  FreeInv'
  BY DEF IInv
<1> USE DEF TypeOK, Pkg, LockedSteps, AssemblySteps, FailureSteps, Steps, SingleAssembler, CallInv, FreeInv, Assembling, TargetFree
<1>1. ASSUME NEW w \in Workers, NEW p \in Packages, NEW i \in Parts, NEW c \in Contents,
             ReceiveOpen(w, p, i, c)
      PROVE  FreeInv'
  BY <1>1 DEF ReceiveOpen, GetOrCreateManifest, Call
<1>2. ASSUME NEW w \in Workers, NEW p \in Packages, WaitOpen(w, p)
      PROVE  FreeInv'
  BY <1>2 DEF WaitOpen, GetOrCreateManifest, Call, NoJob
<1>3. ASSUME NEW w \in Workers, ReceiveStore(w)
      PROVE  FreeInv'
  BY <1>3 DEF ReceiveStore, Goto, manifest
<1>4. ASSUME NEW w \in Workers, ReceiveAnswer(w)
      PROVE  FreeInv'
  BY <1>4 DEF ReceiveAnswer, Return, Release, disk, manifest, NoJob
<1>5. ASSUME NEW w \in Workers, ReceiveRecord(w)
      PROVE  FreeInv'
  BY <1>5 DEF ReceiveRecord, Return, Release, NoJob
<1>6. ASSUME NEW w \in Workers, TakeOwnership(w)
      PROVE  FreeInv'
  BY <1>6 DEF TakeOwnership, Goto
<1>7. ASSUME NEW w \in Workers, WaitReturn(w)
      PROVE  FreeInv'
  BY <1>7 DEF WaitReturn, Return, disk, manifest, NoJob
<1>8. ASSUME NEW w \in Workers, AssembleBegin(w)
      PROVE  FreeInv'
  BY <1>8 DEF AssembleBegin, Goto, manifest
<1>9. ASSUME NEW w \in Workers, CopyPart(w)
      PROVE  FreeInv'
  BY <1>9 DEF CopyPart, PartIntact, NextPart, manifest
<1>10. ASSUME NEW w \in Workers, VerifyWhole(w)
      PROVE  FreeInv'
  BY <1>10 DEF VerifyWhole, Goto, disk, manifest
<1>11. ASSUME NEW w \in Workers, CheckTarget(w)
      PROVE  FreeInv'
  BY <1>11 DEF CheckTarget, Goto, disk, manifest
<1>12. ASSUME NEW w \in Workers, Replace(w)
      PROVE  FreeInv'
  <2>1. ASSUME NEW u \in Workers, pc'[u] = "replace"
        PROVE  TargetFree(Pkg(u))'
    <3>1. u # w /\ pc[u] = "replace" /\ job' = job
      BY <1>12, <2>1 DEF Replace, Goto
    <3>2. Pkg(u) \in Packages /\ Pkg(w) \in Packages /\ Pkg(u) # Pkg(w)
      BY <1>12, <3>1 DEF Replace
    <3>3. Overwrite[Pkg(u)] \/ TargetOf[Pkg(u)] # TargetOf[Pkg(w)]
      BY <3>2 DEF PrivateTargets
    <3>4. TargetOf[Pkg(u)] # TargetOf[Pkg(w)] => target'[TargetOf[Pkg(u)]] = target[TargetOf[Pkg(u)]]
      BY <1>12 DEF Replace
    <3>5. QED
      BY <3>1, <3>3, <3>4
  <2>2. QED
    BY <2>1
<1>13. ASSUME NEW w \in Workers, ReadRecord(w)
      PROVE  FreeInv'
  BY <1>13 DEF ReadRecord, disk, manifest
<1>14. ASSUME NEW w \in Workers, Complete(w)
      PROVE  FreeInv'
  BY <1>14 DEF Complete, Goto
<1>15. ASSUME NEW w \in Workers, Cleanup(w)
      PROVE  FreeInv'
  BY <1>15 DEF Cleanup, Return, manifest, NoJob
<1>16. ASSUME NEW w \in Workers, AssembleReject(w)
      PROVE  FreeInv'
  BY <1>16 DEF AssembleReject, Goto, disk, manifest
<1>17. ASSUME NEW w \in Workers, FailUnlink(w)
      PROVE  FreeInv'
  BY <1>17 DEF FailUnlink, Goto, manifest
<1>18. ASSUME NEW w \in Workers, MarkFailed(w)
      PROVE  FreeInv'
  BY <1>18 DEF MarkFailed, Return, NoJob
<1>19. ASSUME NEW w \in Workers, AssembleFault(w)
      PROVE  FreeInv'
  BY <1>19 DEF AssembleFault, Goto, disk, manifest
<1>20. ASSUME NEW w \in Workers, Crash(w)
      PROVE  FreeInv'
  BY <1>20 DEF Crash, Return, disk, manifest, NoJob
<1>21. CASE UNCHANGED vars
  BY <1>21 DEF vars, disk, manifest, local
<1>22. QED
  BY <1>1, <1>2, <1>3, <1>4, <1>5, <1>6, <1>7, <1>8, <1>9, <1>10, <1>11,
     <1>12, <1>13, <1>14, <1>15, <1>16, <1>17, <1>18, <1>19, <1>20, <1>21
  DEF Next, Receive, Poll, Assemble


\* Every step of the service is a step of the promise or leaves it alone.
LEMMA PromiseStep ==
  TypeOK /\ IInv /\ FreeInv /\ [Next]_vars => [Promise!Next]_<<received, target, published>>
<1> SUFFICES ASSUME TypeOK, IInv, FreeInv, [Next]_vars
             PROVE  [Promise!Next]_<<received, target, published>>
  OBVIOUS
<1>1. ASSUME NEW w \in Workers, ReceiveRecord(w)
      PROVE  [Promise!Next]_<<received, target, published>>
  <2> DEFINE p == Pkg(w)
             i == job[w].part
             c == job[w].content
  <2>1. p \in Packages /\ i \in Parts /\ c \in Contents
    BY <1>1 DEF ReceiveRecord, IInv, CallInv, LockedSteps
  <2>2. p \notin published /\ stored[p][i] = c
    BY <1>1, <2>1 DEF ReceiveRecord, IInv, RecordInv, DiskInv
  <2>3. received[p][i] \in {None, c}
    BY <2>1, <2>2 DEF IInv, AcknowledgedIsDurable
  <2>4. /\ received' = [received EXCEPT ![p] = [received[p] EXCEPT ![i] = c]]
        /\ target' = target /\ published' = published
    BY <1>1 DEF ReceiveRecord
  <2>5. CASE received[p][i] = None
    <3>1. Promise!Accept(p, i, c)
      BY <2>1, <2>4, <2>5 DEF Promise!Accept, TypeOK
    <3>2. QED
      BY <2>1, <3>1 DEF Promise!Next, Promise!Parts, Parts
  <2>6. CASE received[p][i] = c
    <3>1. received' = received
      BY <2>1, <2>4, <2>6 DEF TypeOK
    <3>2. QED
      BY <2>4, <3>1
  <2>7. QED
    BY <2>3, <2>5, <2>6
<1>2. ASSUME NEW w \in Workers, Replace(w)
      PROVE  [Promise!Next]_<<received, target, published>>
  <2> DEFINE p == Pkg(w)
  <2>1. /\ p \in Packages /\ p \notin published /\ temp[p] = Whole /\ hashed[w] = Whole
        /\ Overwrite[p] \/ target[TargetOf[p]] = NoFile
    BY <1>2 DEF Replace, IInv, CallInv, PublicationInv, HashInv, HashOf, FreeInv, TargetFree
  <2>2. \A i \in Parts : received[p][i] = i
    <3> SUFFICES ASSUME NEW i \in Parts
                 PROVE  received[p][i] = i
      OBVIOUS
    <3>1. i + 1 \in 1 .. Len(Whole) /\ Whole[i + 1] = i /\ (i + 1) - 1 = i
      BY ConstantsOK DEF Whole, Parts
    <3>2. \A k \in 1 .. Len(Whole) : Whole[k] = received[p][k - 1]
      BY <1>2, <2>1 DEF Replace, IInv, HashInv, HashOf
    <3>3. QED
      BY <3>1, <3>2
  <2>3. received[p] = [i \in Parts |-> i]
    BY <2>1, <2>2 DEF TypeOK
  <2>4. /\ target' = [target EXCEPT ![TargetOf[p]] = WholeFile(p)]
        /\ published' = published \cup {p} /\ received' = received
    BY <1>2, <2>1 DEF Replace, WholeFile, manifest
  <2>5. Promise!Publish(p)
    BY <2>1, <2>3, <2>4 DEF Promise!Publish, Promise!Parts, Parts, Promise!NoFile, NoFile,
       Promise!WholeFile, WholeFile, Promise!Whole, Whole
  <2>6. QED
    BY <2>1, <2>5 DEF Promise!Next

<1>3. ASSUME NEW w \in Workers, NEW p \in Packages, NEW i \in Parts, NEW c \in Contents,
             ReceiveOpen(w, p, i, c)
      PROVE  UNCHANGED <<received, target, published>>
  BY <1>3 DEF ReceiveOpen
<1>4. ASSUME NEW w \in Workers, NEW p \in Packages, WaitOpen(w, p)
      PROVE  UNCHANGED <<received, target, published>>
  BY <1>4 DEF WaitOpen
<1>5. ASSUME NEW w \in Workers, ReceiveStore(w)
      PROVE  UNCHANGED <<received, target, published>>
  BY <1>5 DEF ReceiveStore, manifest
<1>6. ASSUME NEW w \in Workers, ReceiveAnswer(w)
      PROVE  UNCHANGED <<received, target, published>>
  BY <1>6 DEF ReceiveAnswer, disk, manifest
<1>7. ASSUME NEW w \in Workers, TakeOwnership(w)
      PROVE  UNCHANGED <<received, target, published>>
  BY <1>7 DEF TakeOwnership
<1>8. ASSUME NEW w \in Workers, WaitReturn(w)
      PROVE  UNCHANGED <<received, target, published>>
  BY <1>8 DEF WaitReturn, disk, manifest
<1>9. ASSUME NEW w \in Workers, AssembleBegin(w)
      PROVE  UNCHANGED <<received, target, published>>
  BY <1>9 DEF AssembleBegin, manifest
<1>10. ASSUME NEW w \in Workers, CopyPart(w)
      PROVE  UNCHANGED <<received, target, published>>
  BY <1>10 DEF CopyPart, manifest
<1>11. ASSUME NEW w \in Workers, VerifyWhole(w)
      PROVE  UNCHANGED <<received, target, published>>
  BY <1>11 DEF VerifyWhole, disk, manifest
<1>12. ASSUME NEW w \in Workers, CheckTarget(w)
      PROVE  UNCHANGED <<received, target, published>>
  BY <1>12 DEF CheckTarget, disk, manifest
<1>13. ASSUME NEW w \in Workers, ReadRecord(w)
      PROVE  UNCHANGED <<received, target, published>>
  BY <1>13 DEF ReadRecord, disk, manifest
<1>14. ASSUME NEW w \in Workers, Complete(w)
      PROVE  UNCHANGED <<received, target, published>>
  BY <1>14 DEF Complete
<1>15. ASSUME NEW w \in Workers, Cleanup(w)
      PROVE  UNCHANGED <<received, target, published>>
  BY <1>15 DEF Cleanup, manifest
<1>16. ASSUME NEW w \in Workers, AssembleReject(w)
      PROVE  UNCHANGED <<received, target, published>>
  BY <1>16 DEF AssembleReject, disk, manifest
<1>17. ASSUME NEW w \in Workers, FailUnlink(w)
      PROVE  UNCHANGED <<received, target, published>>
  BY <1>17 DEF FailUnlink, manifest
<1>18. ASSUME NEW w \in Workers, MarkFailed(w)
      PROVE  UNCHANGED <<received, target, published>>
  BY <1>18 DEF MarkFailed
<1>19. ASSUME NEW w \in Workers, AssembleFault(w)
      PROVE  UNCHANGED <<received, target, published>>
  BY <1>19 DEF AssembleFault, disk, manifest
<1>20. ASSUME NEW w \in Workers, Crash(w)
      PROVE  UNCHANGED <<received, target, published>>
  BY <1>20 DEF Crash, disk, manifest
<1>21. CASE UNCHANGED vars
  BY <1>21 DEF vars, disk, manifest
<1>22. QED
  BY <1>1, <1>2, <1>3, <1>4, <1>5, <1>6, <1>7, <1>8, <1>9, <1>10, <1>11,
     <1>12, <1>13, <1>14, <1>15, <1>16, <1>17, <1>18, <1>19, <1>20, <1>21
  DEF Next, Receive, Poll, Assemble

\* The service implements VerifiedUpload when the targets of packages that may not
\* overwrite are their own: accepted parts never change, and each package is
\* published at most once, in one step, whole, and over nothing it may not replace.
THEOREM ImplementsPromise == PrivateTargets => (Spec => KeepsPromise)
<1> SUFFICES ASSUME PrivateTargets
             PROVE  Spec => KeepsPromise
  OBVIOUS
<1>1. Init => FreeInv
  BY DEF Init, FreeInv
<1>2. TypeOK /\ IInv /\ FreeInv /\ [Next]_vars => FreeInv'
  BY FreeStep
<1>3. Init => Promise!Init
  BY DEF Init, Promise!Init, Promise!Parts, Parts, Promise!NoFile, NoFile,
         Promise!ForeignFile, ForeignFile
<1>4. TypeOK /\ IInv /\ FreeInv /\ [Next]_vars => [Promise!Next]_Promise!vars
  BY PromiseStep DEF Promise!vars
<1>5. QED
  BY <1>1, <1>2, <1>3, <1>4, Invariance, PTL DEF Spec, KeepsPromise, Promise!Spec

\* Under the same assumption a package with overwrite = false never replaces a file.
THEOREM NeverSilentlyOverwrites == PrivateTargets => (Spec => NoSilentOverwrite)
<1> SUFFICES ASSUME PrivateTargets
             PROVE  Spec => NoSilentOverwrite
  OBVIOUS
<1> DEFINE Allowed == \A t \in Targets : target'[t] # target[t] =>
                        target[t] = NoFile \/ Overwrite[target'[t].of]
<1>1. TypeOK /\ [Promise!Next]_Promise!vars => [Allowed]_target
  <2> SUFFICES ASSUME TypeOK, [Promise!Next]_Promise!vars
               PROVE  [Allowed]_target
    OBVIOUS
  <2>1. CASE UNCHANGED target
    BY <2>1
  <2>2. ASSUME NEW p \in Packages, Promise!Publish(p)
        PROVE  Allowed
    BY <2>2 DEF Promise!Publish, Promise!NoFile, NoFile, Promise!WholeFile, TypeOK
  <2>3. QED
    BY <2>1, <2>2 DEF Promise!Next, Promise!Accept, Promise!vars
<1>2. Spec => [][Promise!Next]_Promise!vars
  BY ImplementsPromise, PTL DEF KeepsPromise, Promise!Spec
<1>3. QED
  BY <1>1, <1>2, TypeCorrect, PTL DEF NoSilentOverwrite
====
