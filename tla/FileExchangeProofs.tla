--------------------------- MODULE FileExchangeProofs ---------------------------
(***************************************************************************)
(* Theorems about FileStore and FileExchange for any workers, sessions,    *)
(* files, parts and bounds: what the store lists is whole and stored, what *)
(* goes up comes down, whatever the agent repeats, mangles or loses, and   *)
(* a session makes one file, unless a sweep unlinks its lock under a call. *)
(***************************************************************************)
EXTENDS FileExchange, FiniteSetTheorems, TLAPS

Opened == {"open", "lock"} \cup Holding

\* The variables that steps change at one place keep their domains.
DomainInv ==
  /\ DOMAIN pc = Workers /\ DOMAIN call = Workers
  /\ DOMAIN file = Workers
  /\ DOMAIN binary = Files /\ DOMAIN metadata = Files
  /\ DOMAIN trash = Files /\ DOMAIN origin = Files

\* What a worker's place says of its call: past "new", it has its session.
CallInv ==
  \A w \in Workers :
    /\ pc[w] \in {"sweep", "visit"} => call[w] \in PartCalls \cup {[op |-> "list"]}
    /\ pc[w] \in Opened \cup {"new"} => call[w] \in PartCalls
    /\ pc[w] \in Opened => Session(w) \in Sessions
    /\ pc[w] = "delete" => call[w] \in DeleteCalls

\* What a worker's place says of the file it makes or deletes.
FileInv ==
  \A w \in Workers :
    /\ pc[w] \in {"describe", "clear"} =>
         file[w] \in Files \cap given /\ origin[file[w]] = Session(w)
    /\ pc[w] = "describe" => binary[file[w]] # None /\ metadata[file[w]] = None
    /\ pc[w] \in {"move", "purge"} => file[w] \in Files
    /\ pc[w] = "move" => trash[file[w]] # None

\* No two workers make the same file, or delete it.
ApartInv ==
  \A v, w \in Workers : v # w /\ file[v] = file[w] =>
    /\ ~ (pc[v] = "describe" /\ pc[w] = "describe")
    /\ ~ (pc[v] \in {"move", "purge"} /\ pc[w] \in {"move", "purge"})

\* Every content is whole, and every sidecar belongs to an id that was given out.
ContentInv ==
  \A f \in Files :
    /\ binary[f] \in {None, Whole} /\ trash[f] \in {None, Whole}
    /\ metadata[f] # None => f \in given

AnswerInv ==
  \A a \in answers :
    /\ a \in [session : Sessions, index : Indices, file : Files \cup {None}]
    /\ a.file # None => a.file \in given /\ origin[a.file] = a.session

StoreInv ==
  DomainInv /\ CallInv /\ FileInv /\ ApartInv /\ ContentInv /\ AnswerInv /\ ListedIsStored

USE DEF Session, Goto, Indices

-------------------------------------------------------------------------------
(* The store *)

LEMMA StoreInit == ASSUME Init PROVE StoreInv
BY DEF Init, StoreInv, DomainInv, CallInv, FileInv, ApartInv, ContentInv, AnswerInv,
       ListedIsStored, Opened, Holding, NoCall

LEMMA StoreNext ==
  ASSUME StoreInv, [Next]_vars PROVE StoreInv'
<1> USE FileStoreAssumption DEF StoreInv, DomainInv, CallInv, FileInv, ApartInv,
          ContentInv, AnswerInv, ListedIsStored, Opened, Holding
<1>1. ASSUME NEW w \in Workers, NEW c \in Calls, Call(w, c) PROVE StoreInv'
  BY <1>1 DEF Call, Calls, PartCalls, DeleteCalls, stored, sessions, time, outcomes
<1>2. ASSUME NEW w \in Workers, SweepList(w) \/ SweepVisit(w) PROVE StoreInv'
  BY <1>2 DEF SweepList, SweepVisit, stored, sessions, time, outcomes
<1>3. ASSUME NEW w \in Workers, SweepEnd(w) PROVE StoreInv'
  BY <1>3 DEF SweepEnd, Ends, PartCalls, stored, sessions, time, outcomes
<1>4. ASSUME NEW w \in Workers, NewSession(w) PROVE StoreInv'
  BY <1>4 DEF NewSession, PartCalls, stored, sessions, time, outcomes
<1>5. ASSUME NEW w \in Workers, RefuseFirst(w) PROVE StoreInv'
  BY <1>5 DEF RefuseFirst, Ends, stored, sessions, time, outcomes
<1>6. ASSUME NEW w \in Workers, OpenLock(w) PROVE StoreInv'
  BY <1>6 DEF OpenLock, stored, sessions, time, outcomes
<1>7. ASSUME NEW w \in Workers, Load(w) PROVE StoreInv'
  BY <1>7 DEF Load, Ends, stored, sessions, time, outcomes
<1>8. ASSUME NEW w \in Workers, WriteFragment(w) PROVE StoreInv'
  BY <1>8 DEF WriteFragment, Ends, stored, sessions, time, outcomes
<1>9. ASSUME NEW w \in Workers, SaveManifest(w) PROVE StoreInv'
  <2>1. /\ Session(w) \in Sessions /\ call[w].index \in Indices
        /\ UNCHANGED <<fragments, lockFile, stored, time, given, torn, split>>
    BY <1>9 DEF SaveManifest, PartCalls
  <2>2. CASE Received(w) = Indices
    BY <1>9, <2>1, <2>2 DEF SaveManifest, stored
  <2>3. CASE Received(w) # Indices
    <3>1. answers' = answers \cup {Acknowledged(w)} /\ Ends(w)
      BY <1>9, <2>3 DEF SaveManifest
    <3>2. Acknowledged(w) \in [session : Sessions, index : Indices, file : Files \cup {None}]
          /\ Acknowledged(w).file = None
      BY <2>1 DEF Acknowledged
    <3>3. AnswerInv'
      BY <2>1, <3>1, <3>2 DEF stored
    <3>. QED
      BY <1>9, <2>1, <3>1, <3>3 DEF SaveManifest, Ends, stored
  <2>. QED
    BY <2>2, <2>3
<1>10. ASSUME NEW w \in Workers, ReadPart(w) \/ RefuseContent(w) PROVE StoreInv'
  BY <1>10 DEF ReadPart, RefuseContent, Ends, stored, sessions, time, outcomes
<1>11. ASSUME NEW w \in Workers, Publish(w) PROVE StoreInv'
  BY <1>11 DEF Publish, Verified, stored, sessions, time, outcomes
<1>12. ASSUME NEW w \in Workers, Describe(w) PROVE StoreInv'
  BY <1>12 DEF Describe, stored, sessions, time, outcomes
<1>13. ASSUME NEW w \in Workers, Complete(w) PROVE StoreInv'
  BY <1>13 DEF Complete, Ends, PartCalls, Acknowledged, stored, sessions, time, outcomes
<1>14. ASSUME NEW w \in Workers, MoveBinary(w) PROVE StoreInv'
  BY <1>14 DEF MoveBinary, Ends, DeleteCalls, Loadable, FileLockFree, stored, sessions, time, outcomes
<1>15. ASSUME NEW w \in Workers, MoveMetadata(w) PROVE StoreInv'
  BY <1>15 DEF MoveMetadata, stored, sessions, time, outcomes
<1>16. ASSUME NEW w \in Workers, MoveFails(w) PROVE StoreInv'
  BY <1>16 DEF MoveFails, Ends, Rollback, stored, sessions, time, outcomes
<1>17. ASSUME NEW w \in Workers, Purge(w) PROVE StoreInv'
  BY <1>17 DEF Purge, Ends, stored, sessions, time, outcomes
<1>18. ASSUME NEW w \in Workers, WriteFails(w) PROVE StoreInv'
  BY <1>18 DEF WriteFails, Ends, stored, sessions, time, outcomes
<1>19. CASE Restart
  BY <1>19 DEF Restart, stored, sessions, outcomes
<1>20. CASE Tick
  BY <1>20 DEF Tick, stored, sessions, calls, caller, outcomes
<1>21. CASE UNCHANGED vars
  BY <1>21 DEF vars, stored, sessions, calls, caller, outcomes
<1>22. ASSUME NEW w \in Workers, Removal(w) PROVE StoreInv'
  BY <1>22, SMTT(30) DEF Removal, ListDirectory, ListParts, UnlinkPart, UnlinkManifest, UnlinkLock,
              UnlinkFails, caller, stored, outcomes
<1>23. ASSUME NEW w \in Workers, Expire(w) \/ Disturbed(w) PROVE StoreInv'
  BY <1>23 DEF Expire, Disturbed, Ends, stored, outcomes
<1>24. QED
  BY <1>1, <1>2, <1>3, <1>4, <1>5, <1>6, <1>7, <1>8, <1>9, <1>10, <1>11, <1>12, <1>13,
     <1>14, <1>15, <1>16, <1>17, <1>18, <1>19, <1>20, <1>21, <1>22, <1>23
  DEF Next, Step

\* Ids are given out once, and the origin of a file never changes.
LEMMA OriginKept ==
  ASSUME DomainInv, [Next]_vars
  PROVE  /\ given \subseteq given'
         /\ \A f \in given \cap Files : origin'[f] = origin[f]
<1>1. ASSUME NEW w \in Workers, Publish(w) PROVE given \subseteq given'
                /\ \A f \in given \cap Files : origin'[f] = origin[f]
  BY <1>1 DEF Publish, DomainInv
<1>2. ASSUME NEW w \in Workers, NewSession(w) PROVE given \subseteq given' /\ origin' = origin
  BY <1>2 DEF NewSession, stored
<1>3. ASSUME NEW w \in Workers, Step(w), ~ Publish(w), ~ NewSession(w)
      PROVE  given' = given /\ origin' = origin
  BY <1>3 DEF Step, SweepList, SweepVisit, SweepEnd, Removal, ListDirectory, ListParts, UnlinkPart,
              UnlinkManifest, UnlinkLock, UnlinkFails, Expire, RefuseFirst, OpenLock, Load,
              WriteFragment, SaveManifest, ReadPart, RefuseContent, Describe, Complete,
              MoveBinary, MoveMetadata, MoveFails, Purge, WriteFails, Disturbed, stored
<1>4. ASSUME NEW w \in Workers, NEW c \in Calls, Call(w, c)
      PROVE  given' = given /\ origin' = origin
  BY <1>4 DEF Call, stored
<1>5. CASE Restart \/ Tick \/ UNCHANGED vars
  BY <1>5 DEF Restart, Tick, vars, stored
<1>. QED
  BY <1>1, <1>2, <1>3, <1>4, <1>5 DEF Next

\* Whoever calls, however its calls overlap: a file that is listed has its content, unless
\* its deletion is under way or was cut short by a restart.
THEOREM ListedFilesStored == Spec => []ListedIsStored
<1>1. StoreInv => ListedIsStored
  BY DEF StoreInv
<1>. QED
  BY StoreInit, StoreNext, <1>1, PTL DEF Spec

\* The store never holds a content that is not whole, nor answers with another's file.
THEOREM StoredContentWhole == Spec => []StoredWhole
<1>1. StoreInv => StoredWhole
  BY DEF StoreInv, ContentInv, AnswerInv, StoredWhole
<1>. QED
  BY StoreInit, StoreNext, <1>1, PTL DEF Spec

-------------------------------------------------------------------------------
(* The store with the agent *)

\* The upload's state names a file of its session only.
UploadInv ==
  /\ upload \in [next : Nat, session : Sessions \cup {None}, file : Files \cup {None}]
  /\ upload.file # None =>
       /\ upload.session # None
       /\ upload.file \in given /\ origin[upload.file] = upload.session

\* A download is done, or about to be, only with the whole file in its place.
DownloadInv ==
  /\ download # None =>
       download \in [file : Files, next : Nat, overwrite : BOOLEAN,
                    status : {"prepared", "receiving", "completed"}]
  /\ output # None => output = Downloaded
  /\ download # None /\ download.status = "completed" => output = Downloaded
  /\ step = "replaced" => output = Downloaded
  /\ step # "idle" => download # None

IInv == StoreInv /\ UploadInv /\ DownloadInv

StoreUntouched ==
  UNCHANGED <<sessions, stored, calls, now, given, outcomes>>

\* What the agent and others do is a step of the store, or does not touch it.
LEMMA ExIsNext ==
  ASSUME UploadInv, ExNext
  PROVE  [Next]_vars \/ StoreUntouched
<1> USE FileStoreAssumption
<1>1. ASSUME NEW w \in Workers, SendPart(w) PROVE Next
  <2>1. PICK fragment \in {"good", "bad"} :
          Call(w, [op |-> "part", session |-> upload.session, index |-> upload.next,
                   fragment |-> fragment])
    BY <1>1 DEF SendPart
  <2>2. [op |-> "part", session |-> upload.session, index |-> upload.next,
         fragment |-> fragment] \in Calls
    BY <1>1 DEF SendPart, UploadInv, Calls, PartCalls
  <2>. QED
    BY <2>1, <2>2 DEF Next
<1>2. ASSUME NEW w \in Workers, OthersCall(w) PROVE Next
  <2>1. PICK c \in {[op |-> "list"]} \cup {[op |-> "delete", file |-> f] : f \in given \cap Files}
                   \cup {p \in PartCalls : p.session = None /\ p.index # 0 /\ p.fragment = "good"} :
          Call(w, c)
    BY <1>2 DEF OthersCall
  <2>2. c \in Calls
    BY DEF Calls, DeleteCalls
  <2>. QED
    BY <2>1, <2>2 DEF Next
<1>3. CASE StoreStep
  BY <1>3 DEF StoreStep, Next
<1>4. CASE AcceptUpload \/ GetPart \/ AppendPart \/ InstallOutput \/ SaveDownload
  BY <1>4 DEF AcceptUpload, GetPart, AppendPart, InstallOutput, SaveDownload
<1>5. CASE \E overwrite \in BOOLEAN : PrepareDownload(overwrite)
  BY <1>5 DEF PrepareDownload
<1>6. CASE SaveFails \/ ScriptEnds
  BY <1>6 DEF SaveFails, ScriptEnds, StoreUntouched
<1>. QED
  BY <1>1, <1>2, <1>3, <1>4, <1>5, <1>6 DEF ExNext

LEMMA StoreKept ==
  ASSUME StoreInv, StoreUntouched
  PROVE  StoreInv' /\ given' = given /\ origin' = origin
BY DEF StoreUntouched, StoreInv, DomainInv, CallInv, FileInv, ApartInv, ContentInv, AnswerInv,
       ListedIsStored, stored, sessions, calls, caller, outcomes

LEMMA UploadKept ==
  ASSUME StoreInv, UploadInv, ExNext, given \subseteq given',
         \A f \in given \cap Files : origin'[f] = origin[f]
  PROVE  UploadInv'
<1> USE FileStoreAssumption DEF UploadInv
<1>1. CASE AcceptUpload
  <2>1. PICK a \in answers :
          /\ OfThisSession(a)
          /\ upload' = [next |-> IF a.file = None /\ a.index = upload.next
                                THEN upload.next + 1 ELSE upload.next,
                        session |-> a.session,
                        file |-> IF a.file = None THEN upload.file ELSE a.file]
    BY <1>1 DEF AcceptUpload
  <2>2. /\ a.session \in Sessions /\ a.file \in Files \cup {None}
        /\ a.file # None => a.file \in given /\ origin[a.file] = a.session
    BY DEF StoreInv, AnswerInv
  <2>. QED
    BY <2>1, <2>2 DEF OfThisSession
<1>2. CASE UNCHANGED upload
  BY <1>2
<1>3. AcceptUpload \/ UNCHANGED upload
  BY DEF ExNext, SendPart, OthersCall, agent, PrepareDownload, GetPart, AppendPart,
         InstallOutput, SaveDownload, SaveFails, ScriptEnds
<1>. QED
  BY <1>1, <1>2, <1>3

LEMMA DownloadKept ==
  ASSUME UploadInv, DownloadInv, ExNext
  PROVE  DownloadInv'
<1> USE FileStoreAssumption DEF DownloadInv, Downloaded
<1>1. CASE UNCHANGED <<download, output, step>>
  BY <1>1
<1>2. ASSUME NEW overwrite \in BOOLEAN, PrepareDownload(overwrite) PROVE DownloadInv'
  BY <1>2 DEF PrepareDownload, UploadInv
<1>3. CASE AppendPart
  BY <1>3 DEF AppendPart
<1>4. CASE InstallOutput
  BY <1>4 DEF InstallOutput, DigestMatches
<1>5. CASE SaveDownload
  <2>1. /\ download # None /\ UNCHANGED output /\ step' = "idle"
        /\ Eof(gotten) => output = Downloaded
    BY <1>5 DEF SaveDownload
  <2>2. ASSUME NEW n \in Nat, NEW s \in {"receiving", "completed"},
               download' = [download EXCEPT !.next = n, !.status = s],
               s = "completed" => output = Downloaded
        PROVE  DownloadInv'
    BY <2>1, <2>2
  <2>3. CASE Eof(gotten)
    <3>1. download' = [download EXCEPT !.next = download.next + 1, !.status = "completed"]
      BY <1>5, <2>3 DEF SaveDownload
    <3>2. download.next + 1 \in Nat
      BY <2>1
    <3>. QED
      BY <2>1, <2>2, <2>3, <3>1, <3>2
  <2>4. CASE ~ Eof(gotten)
    <3>1. download' = [download EXCEPT !.next = download.next + 1, !.status = "receiving"]
      BY <1>5, <2>4 DEF SaveDownload
    <3>2. download.next + 1 \in Nat
      BY <2>1
    <3>. QED
      BY <2>1, <2>2, <2>4, <3>1, <3>2
  <2>. QED
    BY <2>3, <2>4
<1>6. CASE SaveFails \/ ScriptEnds
  BY <1>6 DEF SaveFails, ScriptEnds
<1>. QED
  BY <1>1, <1>2, <1>3, <1>4, <1>5, <1>6
  DEF ExNext, SendPart, OthersCall, agent, local, AcceptUpload, GetPart

LEMMA ExInitial == ExInit => IInv
BY StoreInit, FileStoreAssumption DEF ExInit, IInv, UploadInv, DownloadInv

LEMMA ExStep ==
  ASSUME IInv, [ExNext]_<<vars, agent>> PROVE IInv'
<1>1. CASE ExNext
  <2>1. /\ StoreInv' /\ given \subseteq given'
        /\ \A f \in given \cap Files : origin'[f] = origin[f]
    BY <1>1, ExIsNext, StoreNext, StoreKept, OriginKept DEF IInv, StoreInv
  <2>. QED
    BY <1>1, <2>1, UploadKept, DownloadKept DEF IInv
<1>2. CASE UNCHANGED <<vars, agent>>
  <2>1. StoreInv' /\ given' = given /\ origin' = origin
    BY <1>2, StoreKept DEF IInv, StoreUntouched, vars, time
  <2>. QED
    BY <1>2, <2>1 DEF IInv, UploadInv, DownloadInv, agent, local, Downloaded
<1>. QED
  BY <1>1, <1>2

\* What the script verifies is what went up, and the store never lists what it has not.
THEOREM RoundTrip == ExSpec => [](RoundTripWhole /\ ListedIsStored)
<1>1. IInv => RoundTripWhole /\ ListedIsStored
  BY DEF IInv, StoreInv, ContentInv, AnswerInv, StoredWhole, UploadInv, DownloadInv,
         RoundTripWhole
<1>. QED
  BY ExInitial, ExStep, <1>1, PTL DEF ExSpec

-------------------------------------------------------------------------------
(* One session makes one file *)

Entries == {"directory", "manifest", "lock", "parts"}
Removals == [session : Sessions \cup {None}, names : SUBSET Entries, parts : SUBSET Indices]

PlaceInv ==
  /\ DOMAIN manifest = Sessions /\ DOMAIN lockFile = Sessions
  /\ DOMAIN locked = Workers
  /\ DOMAIN removing = Workers /\ \A w \in Workers : removing[w] \in Removals
  /\ now \in Nat /\ \A s \in Sessions : manifest[s] # None => manifest[s].deadline \in Nat
  /\ \A w \in Workers :
       /\ locked[w] # None <=> pc[w] \in Holding \cup {"lock"}
       /\ ~ Done(w) => pc[w] \in {"visit", "expire", "clear"}
       /\ pc[w] \in {"expire", "clear"} => removing[w].session = Session(w)

\* No call makes a file of the session any more, and none will: it is gone, expired,
\* or closed for parts.
Making == {"write", "save", "decode", "publish"}
Closed(s) ==
  /\ \A w \in Workers : pc[w] \in Making => Session(w) # s
  /\ manifest[s] = None \/ Expired(manifest[s]) \/ manifest[s].status = "decoding"

\* The lock keeps all but one call out: whoever has opened a .lock file of the session
\* has the one that is in its directory, and the last part has closed the session.
SameLock(s) == \A w \in Workers : HasLockOpen(w, s) => locked[w] = lockFile[s]
OneHolder(s) ==
  \A v, w \in Workers :
    pc[v] \in Holding /\ pc[w] \in Holding /\ Session(v) = s /\ Session(w) = s => v = w
LastPart(s) ==
  \A w \in Workers :
    pc[w] \in {"decode", "publish", "describe"} /\ Session(w) = s =>
      manifest[s] = None \/ manifest[s].status = "decoding"
Orderly(s) == SameLock(s) /\ OneHolder(s) /\ LastPart(s)

Made(s) == \E f \in Files : origin[f] = s
Leaving(s) == \E w \in Workers : pc[w] \in {"expire", "clear"} /\ Session(w) = s

\* A session whose id has not been given out has at most a .lock file, which whoever has
\* guessed the id has made.
FreshInv ==
  \A s \in Sessions \ given :
    /\ manifest[s] = None /\ ~ Made(s) /\ SameLock(s)
    /\ \A w \in Workers :
         (pc[w] \in Holding => Session(w) # s) /\ (~ Done(w) => removing[w].session # s)

\* A session that no sweep has split is orderly until it is closed, and it is closed as
\* soon as it has a file or a call removes it: its lock may be lost then.
LockInv ==
  \A s \in Sessions \ split :
    /\ Closed(s) \/ Orderly(s)
    /\ Made(s) \/ Leaving(s) => Closed(s)

OneInv == StoreInv /\ PlaceInv /\ FreshInv /\ LockInv /\ SessionMakesOneFile

\* There is an inode for whoever opens a new .lock file.
LEMMA InodeFacts ==
  ASSUME DOMAIN locked = Workers PROVE NewInode # None
<1> DEFINE N == Cardinality(Workers)
           Held == {locked[o] : o \in Workers}
<1>1. IsFiniteSet(Held) /\ Cardinality(Held) <= N /\ N \in Nat
  <2> DEFINE held == [o \in Workers |-> locked[o]]
  <2>1. held \in Surjection(Workers, Held)
    BY DEF Surjection
  <2>2. IsFiniteSet(Held) /\ Cardinality(Held) <= N
    BY <2>1, ThreadsAssumption, FS_Surjection
  <2>. QED
    BY <2>2, ThreadsAssumption, FS_CardinalityType
<1>2. IsFiniteSet(0..N) /\ Cardinality(0..N) = N + 1
  BY <1>1, FS_Interval
<1>3. ~ (0..N \subseteq Held)
  <2> HIDE DEF N, Held
  <2>1. 0..N \subseteq Held => Cardinality(0..N) <= Cardinality(Held)
    BY <1>1, FS_Subset
  <2>2. N \in Nat /\ Cardinality(Held) \in Nat
    BY <1>1, FS_CardinalityType
  <2>. QED
    BY <1>1, <1>2, <2>1, <2>2
<1>4. \E n \in 0..N : \A o \in Workers : locked[o] # n
  BY <1>3
<1>5. NewInode \in 0..N
  BY <1>4 DEF NewInode
<1>. QED
  BY <1>1, <1>5, ThreadsAssumption


\* A step of rmtree leaves its session and the other workers' removals alone.
LEMMA RemovalStep ==
  ASSUME PlaceInv, NEW w \in Workers, Removal(w)
  PROVE  /\ DOMAIN removing' = Workers /\ removing'[w] \in Removals
         /\ \A v \in Workers \ {w} : removing'[v] = removing[v]
         /\ removing'[w].session = removing[w].session
         /\ ~ Done(w)
<1> DEFINE r == removing[w]
<1>1. r \in Removals /\ DOMAIN removing = Workers
  BY DEF PlaceInv
<1>2. ASSUME NEW names \in SUBSET Entries, removing' = [removing EXCEPT ![w].names = names]
      PROVE  /\ DOMAIN removing' = Workers /\ removing'[w] \in Removals
             /\ \A v \in Workers \ {w} : removing'[v] = removing[v]
             /\ removing'[w].session = removing[w].session
  BY <1>1, <1>2 DEF Removals
<1>3. ASSUME NEW parts \in SUBSET Indices, removing' = [removing EXCEPT ![w].parts = parts]
      PROVE  /\ DOMAIN removing' = Workers /\ removing'[w] \in Removals
             /\ \A v \in Workers \ {w} : removing'[v] = removing[v]
             /\ removing'[w].session = removing[w].session
  BY <1>1, <1>3 DEF Removals
<1>4. CASE ListDirectory(w)
  <2>1. Listed(removing[w].session) \in SUBSET Entries
    BY DEF Listed, Entries
  <2>. QED
    BY <1>2, <1>4, <2>1 DEF ListDirectory, Done
<1>5. CASE ListParts(w)
  BY <1>1, <1>5 DEF ListParts, Done, Removals
<1>6. ASSUME NEW i \in r.parts, removing' = [removing EXCEPT ![w].parts = @ \ {i}]
      PROVE  /\ DOMAIN removing' = Workers /\ removing'[w] \in Removals
             /\ \A v \in Workers \ {w} : removing'[v] = removing[v]
             /\ removing'[w].session = removing[w].session
             /\ ~ Done(w)
  <2>1. r.parts \ {i} \in SUBSET Indices
    BY <1>1 DEF Removals
  <2>2. removing' = [removing EXCEPT ![w].parts = r.parts \ {i}]
    BY <1>6
  <2>. QED
    BY <1>3, <1>6, <2>1, <2>2 DEF Done
<1>7. ASSUME NEW n \in r.names, removing' = [removing EXCEPT ![w].names = @ \ {n}]
      PROVE  /\ DOMAIN removing' = Workers /\ removing'[w] \in Removals
             /\ \A v \in Workers \ {w} : removing'[v] = removing[v]
             /\ removing'[w].session = removing[w].session
             /\ ~ Done(w)
  <2>1. r.names \ {n} \in SUBSET Entries
    BY <1>1 DEF Removals
  <2>2. removing' = [removing EXCEPT ![w].names = r.names \ {n}]
    BY <1>7
  <2>. QED
    BY <1>2, <1>7, <2>1, <2>2 DEF Done
<1>8. \/ ListDirectory(w) \/ ListParts(w)
      \/ \E i \in r.parts : removing' = [removing EXCEPT ![w].parts = @ \ {i}]
      \/ \E n \in r.names : removing' = [removing EXCEPT ![w].names = @ \ {n}]
  BY DEF Removal, UnlinkPart, UnlinkManifest, UnlinkLock, UnlinkFails
<1>. QED
  BY <1>4, <1>5, <1>6, <1>7, <1>8

LEMMA FirstRemovals ==
  /\ Removed \in Removals /\ Removed.names = {} /\ Removed.parts = {}
  /\ \A s \in Sessions : [session |-> s, names |-> {"directory"}, parts |-> {}] \in Removals
BY DEF Removed, Removals, Entries

LEMMA PlaceStep ==
  ASSUME OneInv, [Next]_vars PROVE PlaceInv'
<1> USE FileStoreAssumption, FirstRemovals DEF OneInv, StoreInv, DomainInv, PlaceInv, Holding, Done,
        Removes
<1>1. ASSUME NEW w \in Workers, NEW c \in Calls, Call(w, c) PROVE PlaceInv'
  BY <1>1 DEF Call, sessions, time
<1>2. ASSUME NEW w \in Workers, SweepList(w) \/ SweepVisit(w) \/ SweepEnd(w) PROVE PlaceInv'
  BY <1>2 DEF SweepList, SweepVisit, SweepEnd, Expiring, Ends, sessions, time
<1>3. ASSUME NEW w \in Workers, Removal(w) PROVE PlaceInv'
  <2>1. /\ UNCHANGED <<pc, call, locked, now>>
        /\ \A s \in Sessions : manifest'[s] \in {None, manifest[s]}
        /\ DOMAIN manifest' = Sessions /\ DOMAIN lockFile' = Sessions
    BY <1>3 DEF Removal, ListDirectory, ListParts, UnlinkPart, UnlinkManifest, UnlinkLock, UnlinkFails,
       caller, sessions, time
  <2>. QED
    BY <1>3, <2>1, RemovalStep
<1>4. ASSUME NEW w \in Workers, NewSession(w) \/ RefuseFirst(w) PROVE PlaceInv'
  BY <1>4 DEF NewSession, RefuseFirst, Ends, sessions, time
<1>5. ASSUME NEW w \in Workers, OpenLock(w) PROVE PlaceInv'
  BY <1>5, InodeFacts DEF OpenLock, time, CallInv, Opened
<1>6. ASSUME NEW w \in Workers, Load(w) \/ Expire(w) \/ WriteFragment(w) PROVE PlaceInv'
  BY <1>6 DEF Load, Expire, WriteFragment, Ends, CallInv, Opened, sessions, time
<1>7. ASSUME NEW w \in Workers, SaveManifest(w) \/ Disturbed(w) PROVE PlaceInv'
  BY <1>7 DEF SaveManifest, Disturbed, Refreshed, Ends, sessions, time
<1>8. ASSUME NEW w \in Workers,
             ReadPart(w) \/ RefuseContent(w) \/ Publish(w) \/ Describe(w) \/ Complete(w)
      PROVE PlaceInv'
  BY <1>8 DEF ReadPart, RefuseContent, Publish, Describe, Complete, Ends, CallInv, Opened, sessions, time
<1>9. ASSUME NEW w \in Workers,
             MoveBinary(w) \/ MoveMetadata(w) \/ MoveFails(w) \/ Purge(w) \/ WriteFails(w)
      PROVE PlaceInv'
  BY <1>9 DEF MoveBinary, MoveMetadata, MoveFails, Purge, WriteFails, Ends, sessions, time
<1>10. CASE Restart \/ Tick \/ UNCHANGED vars
  BY <1>10 DEF Restart, Tick, vars, sessions, calls, caller, time
<1>. QED
  BY <1>1, <1>2, <1>3, <1>4, <1>5, <1>6, <1>7, <1>8, <1>9, <1>10 DEF Next, Step

LEMMA FreshStep ==
  ASSUME OneInv, [Next]_vars PROVE FreshInv'
<1> USE FileStoreAssumption DEF OneInv, StoreInv, DomainInv, PlaceInv, FreshInv, Made, SameLock,
        HasLockOpen, Holding, Done
<1>1. ASSUME NEW w \in Workers, NEW c \in Calls, Call(w, c) PROVE FreshInv'
  BY <1>1 DEF Call, sessions, stored
<1>2. ASSUME NEW w \in Workers, SweepList(w) \/ SweepVisit(w) \/ SweepEnd(w) PROVE FreshInv'
  BY <1>2, FirstRemovals DEF SweepList, SweepVisit, SweepEnd, Expiring, Ends, Removes, sessions, stored
<1>3. ASSUME NEW w \in Workers, Removal(w) PROVE FreshInv'
  <2>1. /\ UNCHANGED <<pc, call, locked, given, origin>>
        /\ \A s \in Sessions \ {removing[w].session} :
             manifest'[s] = manifest[s] /\ lockFile'[s] = lockFile[s]
    BY <1>3 DEF Removal, ListDirectory, ListParts, UnlinkPart, UnlinkManifest, UnlinkLock, UnlinkFails,
       caller, sessions, stored
  <2>. QED
    BY <1>3, <2>1, RemovalStep
<1>4. ASSUME NEW w \in Workers, NewSession(w) \/ RefuseFirst(w) PROVE FreshInv'
  BY <1>4, FirstRemovals DEF NewSession, RefuseFirst, Ends, sessions, stored
<1>5. ASSUME NEW w \in Workers, OpenLock(w) PROVE FreshInv'
  BY <1>5 DEF OpenLock, stored, CallInv, Opened
<1>6. ASSUME NEW w \in Workers, Load(w) \/ Expire(w) \/ WriteFragment(w) PROVE FreshInv'
  BY <1>6, FirstRemovals DEF Load, Expire, WriteFragment, Ends, Removes, CallInv, Opened, sessions, stored
<1>7. ASSUME NEW w \in Workers, SaveManifest(w) \/ ReadPart(w) \/ RefuseContent(w) PROVE FreshInv'
  BY <1>7, FirstRemovals DEF SaveManifest, ReadPart, RefuseContent, Ends, sessions, stored
<1>8. ASSUME NEW w \in Workers, Publish(w) \/ Describe(w) \/ Complete(w) PROVE FreshInv'
  BY <1>8, FirstRemovals DEF Publish, Describe, Complete, Ends, Removes, sessions, stored
<1>9. ASSUME NEW w \in Workers,
             MoveBinary(w) \/ MoveMetadata(w) \/ MoveFails(w) \/ Purge(w) \/ WriteFails(w)
      PROVE FreshInv'
  BY <1>9, FirstRemovals
  DEF MoveBinary, MoveMetadata, MoveFails, Purge, WriteFails, Ends, sessions, stored
<1>10. ASSUME NEW w \in Workers, Disturbed(w) PROVE FreshInv'
  BY <1>10, FirstRemovals DEF Disturbed, Ends, sessions, stored
<1>11. CASE Restart \/ Tick \/ UNCHANGED vars
  BY <1>11, FirstRemovals DEF Restart, Tick, vars, sessions, stored, calls, caller
<1>. QED
  BY <1>1, <1>2, <1>3, <1>4, <1>5, <1>6, <1>7, <1>8, <1>9, <1>10, <1>11 DEF Next, Step

LEMMA LockStep ==
  ASSUME OneInv, [Next]_vars PROVE LockInv'
<1> USE FileStoreAssumption DEF OneInv, StoreInv, DomainInv, PlaceInv, LockInv, Closed, Orderly,
        Made, Leaving, SameLock, OneHolder, LastPart, HasLockOpen, Holding, Making, Expired
<1>1. ASSUME NEW w \in Workers, NEW c \in Calls, Call(w, c) PROVE LockInv'
  BY <1>1 DEF Call, sessions, stored, time, outcomes
<1>2. ASSUME NEW w \in Workers, SweepList(w) \/ SweepVisit(w) \/ SweepEnd(w) PROVE LockInv'
  BY <1>2 DEF SweepList, SweepVisit, SweepEnd, Ends, sessions, stored, time, outcomes
<1>3. ASSUME NEW w \in Workers, Removal(w) PROVE LockInv'
  <2>1. UNCHANGED <<pc, call, locked, now, origin>>
        /\ \A s \in Sessions : manifest'[s] \in {None, manifest[s]}
    BY <1>3 DEF Removal, ListDirectory, ListParts, UnlinkPart, UnlinkManifest, UnlinkLock, UnlinkFails,
       caller, sessions, stored, time
  <2>2. CASE UNCHANGED <<lockFile, split>>
    BY <2>1, <2>2
  <2>3. CASE UnlinkLock(w)
    <3>1. /\ \A s \in Sessions \ {removing[w].session} : lockFile'[s] = lockFile[s]
          /\ split \subseteq split'
          /\ removing[w].session \notin split' =>
               pc[w] # "visit" \/ \A v \in Workers : ~ HasLockOpen(v, removing[w].session)
      BY <2>3 DEF UnlinkLock
    <3>2. pc[w] = "visit" \/ (pc[w] \in {"expire", "clear"} /\ removing[w].session = Session(w))
      BY <1>3, RemovalStep
    <3>. QED
      BY <2>1, <3>1, <3>2
  <2>. QED
    BY <1>3, <2>2, <2>3 DEF Removal, ListDirectory, ListParts, UnlinkPart, UnlinkManifest, UnlinkFails,
       sessions, outcomes
<1>4. ASSUME NEW w \in Workers, NewSession(w) \/ RefuseFirst(w) PROVE LockInv'
  BY <1>4 DEF NewSession, RefuseFirst, Ends, FreshInv, sessions, stored, time, outcomes
<1>5. ASSUME NEW w \in Workers, OpenLock(w) PROVE LockInv'
  BY <1>5 DEF OpenLock, stored, CallInv, Opened, time, outcomes
<1>6. ASSUME NEW w \in Workers, Load(w) PROVE LockInv'
  BY <1>6 DEF Load, LockFree, Ends, CallInv, Opened, sessions, stored, time, outcomes
<1>7. ASSUME NEW w \in Workers, Expire(w) \/ WriteFragment(w) PROVE LockInv'
  BY <1>7 DEF Expire, WriteFragment, Ends, CallInv, Opened, sessions, stored, time, outcomes
<1>8. ASSUME NEW w \in Workers, SaveManifest(w) PROVE LockInv'
  BY <1>8 DEF SaveManifest, Refreshed, Status, Ends, sessions, stored, time, CallInv, Opened
<1>9. ASSUME NEW w \in Workers, ReadPart(w) \/ RefuseContent(w) PROVE LockInv'
  BY <1>9 DEF ReadPart, RefuseContent, Ends, sessions, stored, time, outcomes
<1>10. ASSUME NEW w \in Workers, Publish(w) PROVE LockInv'
  BY <1>10 DEF Publish, sessions, stored, time, outcomes, CallInv, Opened
<1>11. ASSUME NEW w \in Workers, Describe(w) \/ Complete(w) PROVE LockInv'
  BY <1>11 DEF Describe, Complete, Ends, sessions, stored, time, outcomes, CallInv, Opened
<1>12. ASSUME NEW w \in Workers,
             MoveBinary(w) \/ MoveMetadata(w) \/ MoveFails(w) \/ Purge(w) \/ WriteFails(w)
      PROVE LockInv'
  BY <1>12
  DEF MoveBinary, MoveMetadata, MoveFails, Purge, WriteFails, Ends, sessions, stored, time, outcomes
<1>13. ASSUME NEW w \in Workers, Disturbed(w) PROVE LockInv'
  BY <1>13 DEF Disturbed, Ends, sessions, stored, time, outcomes
<1>14. CASE Restart \/ Tick \/ UNCHANGED vars
  BY <1>14 DEF Restart, Tick, vars, sessions, stored, calls, caller, time, outcomes
<1>. QED
  BY <1>1, <1>2, <1>3, <1>4, <1>5, <1>6, <1>7, <1>8, <1>9, <1>10, <1>11, <1>12, <1>13, <1>14
  DEF Next, Step

LEMMA OnceStep ==
  ASSUME OneInv, [Next]_vars PROVE SessionMakesOneFile'
<1>1. CASE split \subseteq split' /\ UNCHANGED origin
  BY <1>1 DEF OneInv, SessionMakesOneFile
<1>2. ASSUME NEW w \in Workers, Publish(w) PROVE SessionMakesOneFile'
  <2>1. PICK f \in Files : origin' = [origin EXCEPT ![f] = Session(w)]
    BY <1>2 DEF Publish
  <2>2. Session(w) \in Sessions /\ split' = split
    BY <1>2 DEF Publish, outcomes, OneInv, StoreInv, CallInv, Opened, Holding
  <2>3. Session(w) \notin split => ~ Made(Session(w))
    BY <1>2, <2>2 DEF Publish, OneInv, LockInv, Closed, Making
  <2>. QED
    BY <2>1, <2>2, <2>3 DEF OneInv, StoreInv, DomainInv, SessionMakesOneFile, Made
<1>3. ASSUME NEW w \in Workers, Step(w), ~ Publish(w) PROVE split \subseteq split' /\ UNCHANGED origin
  <2>1. CASE Removal(w)
    BY <2>1 DEF Removal, ListDirectory, ListParts, UnlinkPart, UnlinkManifest, UnlinkLock, UnlinkFails,
       stored, outcomes
  <2>2. CASE ~ Removal(w)
    BY <1>3, <2>2 DEF Step, SweepList, SweepVisit, SweepEnd, Expire, NewSession, RefuseFirst, OpenLock,
       Load, WriteFragment, SaveManifest, ReadPart, RefuseContent, Describe, Complete, MoveBinary,
       MoveMetadata, MoveFails, Purge, WriteFails, Disturbed, stored, outcomes
  <2>. QED
    BY <2>1, <2>2
<1>4. ASSUME NEW w \in Workers, NEW c \in Calls, Call(w, c) PROVE split' = split /\ UNCHANGED origin
  BY <1>4 DEF Call, stored, outcomes
<1>5. CASE Restart \/ Tick \/ UNCHANGED vars
  BY <1>1, <1>5 DEF Restart, Tick, vars, stored, outcomes
<1>. QED
  BY <1>1, <1>2, <1>3, <1>4, <1>5 DEF Next

LEMMA OneNext ==
  ASSUME OneInv, [Next]_vars PROVE OneInv'
BY StoreNext, PlaceStep, FreshStep, LockStep, OnceStep DEF OneInv

LEMMA OneInit ==
  ASSUME Init PROVE OneInv
BY StoreInit, FileStoreAssumption, FirstRemovals
DEF Init, OneInv, PlaceInv, FreshInv, LockInv, Closed, Made, Leaving, SameLock, HasLockOpen, Making,
    Holding, Done, SessionMakesOneFile

\* Whoever calls, and however often, at once, under sweeps, expiry and restarts: the parts
\* of a session make one file, unless a sweep has unlinked the lock file that a call of
\* the session had open.
THEOREM OneFilePerSession == Spec => []SessionMakesOneFile
<1>1. OneInv => SessionMakesOneFile
  BY DEF OneInv
<1>. QED
  BY OneInit, OneNext, <1>1, PTL DEF Spec

\* So does the file the agent sends, however it repeats, loses or overlaps its calls.
THEOREM OneFilePerUpload == ExSpec => []SessionMakesOneFile
<1>1. ExInit => IInv /\ OneInv
  BY ExInitial, OneInit DEF ExInit
<1>2. ASSUME IInv, OneInv, [ExNext]_<<vars, agent>> PROVE OneInv'
  <2>1. CASE [Next]_vars
    BY <1>2, <2>1, OneNext
  <2>2. CASE StoreUntouched
    <3>1. StoreInv'
      BY <1>2, <2>2, StoreKept DEF IInv
    <3>. QED
      BY <1>2, <2>2, <3>1
      DEF StoreUntouched, sessions, stored, calls, caller, outcomes, OneInv, PlaceInv, FreshInv, LockInv,
          Closed, Orderly, Made, Leaving, SameLock, OneHolder, LastPart, HasLockOpen, Done, Expired,
          SessionMakesOneFile
  <2>. QED
    BY <1>2, <2>1, <2>2, ExIsNext DEF IInv, vars
<1>3. OneInv => SessionMakesOneFile
  BY DEF OneInv
<1>. QED
  BY <1>1, <1>2, <1>3, ExStep, PTL DEF ExSpec
===============================================================================
