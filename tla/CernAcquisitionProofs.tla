------------------------- MODULE CernAcquisitionProofs -------------------------
(***************************************************************************)
(* What CernAcquisition keeps for every number of versions, blocks,        *)
(* projects, rows on a page, commands and changes: the manifests beside    *)
(* their artifacts, the declared content, and the reason of "not found".   *)
(***************************************************************************)
EXTENDS CernAcquisition, FiniteSetTheorems, SequenceTheorems, TLAPS

Files == {"record", "record.manifest", "file", "file.manifest"}

Before == {"fetch", "request", "stream", "enter", "resolve", "session"}
WithFiles == {"enter", "resolve", "session", "upload"}
Ending == {"exit", "cleanup", "answered"}

TypeInv ==
  /\ remote \in Versions
  /\ listing \in Seq(Projects)
  /\ command \in Nat
  /\ kind \in Kinds
  /\ pc \in {"idle", "upload"} \cup Before \cup Ending
  /\ page \in Nat \ {0}
  /\ \A s \in project : s.command \in Nat /\ s.command <= command

\* The response is one content; what passed its verification is whole, and has
\* the declared checksum if one is declared.
StagingInv ==
  /\ pc \in {"request", "stream"} =>
       staging = [partial |-> staging.partial, final |-> staging.final]
  /\ pc = "request" => staging.partial = <<>>
  /\ pc = "stream" =>
       /\ serving \in Versions
       /\ staging.partial \in Seq({Block(serving, i) : i \in 1..Size})
       /\ Len(staging.partial) <= Size
       /\ \A i \in 1..Len(staging.partial) : staging.partial[i] = Block(serving, i)
  /\ kind = "download" /\ pc \in WithFiles =>
       /\ \E v \in Versions : staging.final = Whole(v)
       /\ declared # None => Checksum(staging.final) = declared

\* How many uploads the command has done.
Done == Len(Uploads(kind)) - Len(todo)

\* The uploads come in their order, each after the ones before it are stored, and
\* before the first the project has nothing of the command.
UploadInv ==
  /\ pc \in Before =>
       /\ todo = Uploads(kind)
       /\ \A s \in project : s.command # command
  /\ pc = "upload" =>
       /\ todo \in Seq(Files) /\ Len(todo) <= Len(Uploads(kind))
       /\ \A i \in 1..Len(todo) : todo[i] = Uploads(kind)[Done + i]
       /\ \A i \in 1..Done : Stored(Uploads(kind)[i]) \in project
  /\ pc \in Ending /\ outcome = "success" =>
       \A i \in DOMAIN Uploads(kind) :
         \E s \in project : s.command = command /\ s.file = Uploads(kind)[i]

\* A manifest is beside its artifact (the first part of ManifestHasArtifact).
ArtifactInv ==
  \A s \in project : \A f \in {"record", "file"} :
    s.file = ManifestOf[f] =>
      \E a \in project : a.command = s.command /\ a.file = f /\ a.content = s.content

\* The pages that were read did not list the project.
PageInv ==
  pc = "resolve" /\ ~ shifted =>
    \A i \in DOMAIN listing : i <= (page - 1) * PageSize => listing[i] # Wanted

IInv == TypeInv /\ StagingInv /\ UploadInv /\ ArtifactInv /\ FileIsDeclared /\ PageInv

-------------------------------------------------------------------------------
(* The uploads of a command, and its content. *)

\* Every upload is one of the four files; a manifest is the upload after its artifact.
LEMMA UploadsOrder ==
  ASSUME NEW k \in Kinds
  PROVE  /\ Uploads(k) \in Seq(Files) /\ Len(Uploads(k)) \in {2, 4}
         /\ \A i \in 1..Len(Uploads(k)) : \A f \in {"record", "file"} :
              Uploads(k)[i] = ManifestOf[f] => i > 1 /\ Uploads(k)[i - 1] = f
         /\ \A i \in 1..Len(Uploads(k)) : Uploads(k)[i] = "file" => k = "download"
<1>1. CASE k = "record"
  <2>1. Uploads(k) = <<"record", "record.manifest">>  BY <1>1 DEF Uploads
  <2>2. Uploads(k) \in Seq(Files) /\ Len(Uploads(k)) = 2
    BY <2>1 DEF Files
  <2>3. ASSUME NEW i \in 1..2, NEW f \in {"record", "file"}, Uploads(k)[i] = ManifestOf[f]
        PROVE  i > 1 /\ Uploads(k)[i - 1] = f
    <3>1. i = 1 \/ i = 2  OBVIOUS
    <3>. QED  BY <2>1, <2>3, <3>1 DEF ManifestOf
  <2>4. ASSUME NEW i \in 1..2
        PROVE  Uploads(k)[i] # "file"
    <3>1. i = 1 \/ i = 2  OBVIOUS
    <3>. QED  BY <2>1, <3>1
  <2>. QED  BY <2>2, <2>3, <2>4
<1>2. CASE k = "download"
  <2>1. Uploads(k) = <<"record", "record.manifest", "file", "file.manifest">>
    BY <1>2 DEF Uploads
  <2>2. Uploads(k) \in Seq(Files) /\ Len(Uploads(k)) = 4
    BY <2>1 DEF Files
  <2>3. ASSUME NEW i \in 1..4, NEW f \in {"record", "file"}, Uploads(k)[i] = ManifestOf[f]
        PROVE  i > 1 /\ Uploads(k)[i - 1] = f
    <3>1. i = 1 \/ i = 2 \/ i = 3 \/ i = 4  OBVIOUS
    <3>. QED  BY <2>1, <2>3, <3>1 DEF ManifestOf
  <2>. QED  BY <1>2, <2>2, <2>3
<1>. QED  BY <1>1, <1>2 DEF Kinds

\* A manifest carries the content of its artifact.
LEMMA ManifestContent ==
  ASSUME NEW f \in {"record", "file"}
  PROVE  ContentOf(ManifestOf[f]) = ContentOf(f)
BY DEF ContentOf, ManifestOf

\* The next upload of a command, and the ones after it.
LEMMA NextUpload ==
  ASSUME IInv, pc = "upload", todo # <<>>
  PROVE  /\ Head(todo) = Uploads(kind)[Done + 1]
         /\ Done \in 0..(Len(Uploads(kind)) - 1)
         /\ Tail(todo) \in Seq(Files) /\ Len(Tail(todo)) = Len(todo) - 1
         /\ \A i \in 1..Len(Tail(todo)) : Tail(todo)[i] = Uploads(kind)[Done + 1 + i]
<1>1. /\ todo \in Seq(Files) /\ Len(todo) <= Len(Uploads(kind))
      /\ \A i \in 1..Len(todo) : todo[i] = Uploads(kind)[Done + i]
  BY DEF IInv, UploadInv
<1>2. Len(todo) \in Nat \ {0} /\ Head(todo) = todo[1]
  <2>1. Len(todo) \in Nat /\ (Len(todo) = 0 => todo = <<>>)
    BY <1>1
  <2>. QED  BY <1>1, <2>1
<1>3. /\ Tail(todo) \in Seq(Files) /\ Len(Tail(todo)) = Len(todo) - 1
      /\ \A i \in 1..Len(Tail(todo)) : Tail(todo)[i] = todo[i + 1]
  BY <1>1, HeadTailProperties
<1>4. Len(Uploads(kind)) \in Nat
  BY UploadsOrder DEF IInv, TypeInv
<1>5. Done \in 0..(Len(Uploads(kind)) - 1)
  BY <1>1, <1>2, <1>4 DEF Done
<1>6. ASSUME NEW i \in 1..Len(Tail(todo))
      PROVE  Tail(todo)[i] = Uploads(kind)[Done + 1 + i]
  <2>1. i + 1 \in 1..Len(todo) /\ Done + (i + 1) = Done + 1 + i
    BY <1>2, <1>3, <1>5
  <2>2. todo[i + 1] = Uploads(kind)[Done + (i + 1)]
    BY <1>1, <2>1
  <2>. QED  BY <1>3, <2>1, <2>2
<1>. QED  BY <1>1, <1>2, <1>3, <1>5, <1>6

-------------------------------------------------------------------------------
(* The invariant holds initially, and every step keeps it. *)

LEMMA InitInv == Init => IInv
<1>1. SUFFICES ASSUME Init PROVE IInv
  OBVIOUS
<1>2. listing \in Seq(Projects)
  <2>1. Cardinality(Projects) \in Nat
    BY CernAssumption, FS_CardinalityType
  <2>2. listing \in [1..Cardinality(Projects) -> Projects]
    BY <1>1 DEF Init
  <2>. QED  BY <2>1, <2>2
<1>3. TypeInv
  BY <1>1, <1>2 DEF Init, TypeInv, Kinds
<1>4. StagingInv /\ UploadInv /\ ArtifactInv /\ FileIsDeclared /\ PageInv
  BY <1>1 DEF Init, StagingInv, UploadInv, ArtifactInv, FileIsDeclared, PageInv, Before,
              WithFiles, Ending
<1>. QED  BY <1>3, <1>4 DEF IInv

\* A listing without one of its rows is a listing.
LEMMA RowRemoved ==
  ASSUME NEW s \in Seq(Projects), NEW i \in DOMAIN s
  PROVE  SubSeq(s, 1, i - 1) \o SubSeq(s, i + 1, Len(s)) \in Seq(Projects)
<1>1. i \in 1..Len(s) /\ Len(s) \in Nat
  OBVIOUS
<1>2. SubSeq(s, 1, i - 1) \in Seq(Projects)
  BY <1>1, SubSeqProperties
<1>3. SubSeq(s, i + 1, Len(s)) \in Seq(Projects)
  BY <1>1, SubSeqProperties
<1>. QED  BY <1>2, <1>3, ConcatProperties

LEMMA TypeStep ==
  ASSUME TypeInv, [Next]_vars
  PROVE  TypeInv'
<1>1. listing' \in Seq(Projects)
  <2>1. CASE ListingChanges
    BY <2>1, RowRemoved DEF ListingChanges, TypeInv
  <2>2. CASE ~ ListingChanges
    <3>1. listing' = listing
      BY <2>2 DEF Next, vars, remoteSide, Begin, FetchRecord, RequestFile, ReceiveBlock,
         StoreFile, AcquisitionFails, EnterWriter, ResolvePage, CreateSession, EnterFails,
         UploadNext, UploadFails, UploadsDone, ExitWriter, ExitFails, Answer, Leave, Cancel,
         CancelInEnter, CancelInExit, RemoteChanges
    <3>. QED  BY <3>1 DEF TypeInv
  <2>. QED  BY <2>1, <2>2
<1>2. remote' \in Versions /\ kind' \in Kinds /\ command' \in Nat /\ page' \in Nat \ {0}
      /\ pc' \in {"idle", "upload"} \cup Before \cup Ending
  BY DEF TypeInv, Next, vars, remoteSide, acquired, connection, Unwinding, EnterRaises,
     Before, Ending, Begin, FetchRecord, RequestFile, ReceiveBlock, StoreFile,
     AcquisitionFails, EnterWriter, ResolvePage, CreateSession, EnterFails, UploadNext,
     UploadFails, UploadsDone, ExitWriter, ExitFails, Answer, Leave, Cancel, CancelInEnter,
     CancelInExit, RemoteChanges, ListingChanges
<1>3. \A s \in project' : s.command \in Nat /\ s.command <= command'
  <2>1. CASE UploadNext \/ UploadFails
    BY <2>1 DEF TypeInv, UploadNext, UploadFails, Stored
  <2>2. CASE ~ (UploadNext \/ UploadFails)
    <3>1. project' = project /\ command' \in Nat /\ command <= command'
      BY <2>2 DEF TypeInv, Next, vars, remoteSide, Begin, FetchRecord, RequestFile,
         ReceiveBlock, StoreFile, AcquisitionFails, EnterWriter, ResolvePage, CreateSession,
         EnterFails, UploadsDone, ExitWriter, ExitFails, Answer, Leave, Cancel,
         CancelInEnter, CancelInExit, RemoteChanges, ListingChanges
    <3>. QED  BY <3>1 DEF TypeInv
  <2>. QED  BY <2>1, <2>2
<1>. QED  BY <1>1, <1>2, <1>3 DEF TypeInv

\* A whole response is the content it streams.
LEMMA WholeResponse ==
  ASSUME NEW v \in Versions, NEW s \in Seq({Block(v, i) : i \in 1..Size}), Len(s) = Size,
         \A i \in 1..Len(s) : s[i] = Block(v, i)
  PROVE  s = Whole(v)
BY CernAssumption DEF Whole

LEMMA StagingStep ==
  ASSUME IInv, [Next]_vars
  PROVE  StagingInv'
<1>. USE DEF WithFiles
<1>1. CASE \E k \in Kinds : Begin(k)
  BY <1>1 DEF Begin, StagingInv
<1>2. CASE FetchRecord
  BY <1>2 DEF FetchRecord, StagingInv
<1>3. CASE RequestFile
  <2>1. /\ pc' = "stream" /\ serving' = remote /\ serving' \in Versions
        /\ staging' = staging /\ staging.partial = <<>>
        /\ staging = [partial |-> staging.partial, final |-> staging.final]
    BY <1>3 DEF RequestFile, IInv, TypeInv, StagingInv
  <2>2. <<>> \in Seq({Block(serving', i) : i \in 1..Size}) /\ Len(<<>>) = 0
    OBVIOUS
  <2>. QED  BY <2>1, <2>2, CernAssumption DEF StagingInv
<1>4. CASE ReceiveBlock
  <2>. DEFINE S == {Block(serving, i) : i \in 1..Size}
              p == staging.partial
  <2>1. /\ pc = "stream" /\ pc' = pc /\ serving' = serving /\ serving \in Versions
        /\ staging = [partial |-> p, final |-> staging.final]
        /\ staging' = [staging EXCEPT !.partial = Append(@, Block(serving, Len(@) + 1))]
        /\ p \in Seq(S) /\ Len(p) < Size
        /\ \A i \in 1..Len(p) : p[i] = Block(serving, i)
    BY <1>4 DEF ReceiveBlock, IInv, StagingInv
  <2>2. staging' = [partial |-> Append(p, Block(serving, Len(p) + 1)),
                    final |-> staging.final]
    BY <2>1
  <2>3. Len(p) \in Nat /\ Block(serving, Len(p) + 1) \in S
    BY <2>1, CernAssumption
  <2>4. /\ Append(p, Block(serving, Len(p) + 1)) \in Seq(S)
        /\ Len(Append(p, Block(serving, Len(p) + 1))) = Len(p) + 1
        /\ \A i \in 1..Len(p) : Append(p, Block(serving, Len(p) + 1))[i] = p[i]
        /\ Append(p, Block(serving, Len(p) + 1))[Len(p) + 1] = Block(serving, Len(p) + 1)
    <3>. HIDE DEF S, p
    <3>. QED  BY <2>1, <2>3, AppendProperties
  <2>5. staging'.partial \in Seq(S) /\ Len(staging'.partial) <= Size
    BY <2>1, <2>2, <2>3, <2>4, CernAssumption
  <2>6. ASSUME NEW i \in 1..Len(staging'.partial)
        PROVE  staging'.partial[i] = Block(serving, i)
    <3>1. i \in 1..Len(p) \/ i = Len(p) + 1
      BY <2>2, <2>3, <2>4
    <3>. QED  BY <2>1, <2>2, <2>4, <3>1
  <2>. QED  BY <2>1, <2>2, <2>5, <2>6, ZenonT(60) DEF StagingInv
<1>5. CASE StoreFile
  <2>1. CASE ChecksumHolds
    <3>1. staging.partial = Whole(serving) /\ serving \in Versions
      BY <1>5, WholeResponse DEF StoreFile, IInv, StagingInv
    <3>2. staging'.final = staging.partial /\ pc' = "enter" /\ declared' = declared
      BY <1>5, <2>1 DEF StoreFile
    <3>. QED  BY <2>1, <3>1, <3>2 DEF StagingInv, ChecksumHolds
  <2>2. CASE ~ ChecksumHolds
    BY <1>5, <2>2 DEF StoreFile, Unwinding, StagingInv
  <2>. QED  BY <2>1, <2>2
<1>6. CASE EnterWriter \/ ResolvePage \/ CreateSession \/ UploadNext \/ Leave
           \/ RemoteChanges \/ ListingChanges \/ UNCHANGED vars
  <2>1. /\ kind' = kind /\ declared' = declared /\ staging' = staging /\ serving' = serving
        /\ \/ pc' = pc
           \/ pc' \in {"idle", "cleanup"}
           \/ pc' \in WithFiles /\ pc \in WithFiles
    <3>1. CASE EnterWriter \/ CreateSession \/ UploadNext \/ Leave
      BY <3>1 DEF EnterWriter, CreateSession, UploadNext, Leave, acquired
    <3>2. CASE ResolvePage
      BY <3>2 DEF ResolvePage, EnterRaises, acquired
    <3>3. CASE RemoteChanges \/ ListingChanges \/ UNCHANGED vars
      BY <3>3 DEF RemoteChanges, ListingChanges, vars, acquired
    <3>. QED  BY <1>6, <3>1, <3>2, <3>3
  <2>. QED  BY <2>1 DEF IInv, StagingInv
<1>7. CASE AcquisitionFails \/ EnterFails \/ UploadFails \/ UploadsDone \/ ExitWriter
           \/ ExitFails \/ Answer \/ Cancel \/ CancelInEnter \/ CancelInExit
  <2>1. pc' \in Ending
    BY <1>7 DEF AcquisitionFails, EnterFails, EnterRaises, UploadFails, UploadsDone,
       ExitWriter, ExitFails, Answer, Cancel, CancelInEnter, CancelInExit, Unwinding, Ending
  <2>. QED  BY <2>1 DEF StagingInv, Ending
<1>. QED  BY <1>1, <1>2, <1>3, <1>4, <1>5, <1>6, <1>7 DEF Next

\* Steps that store nothing and have no upload begin or end.
Still ==
  /\ kind' = kind /\ command' = command /\ project' = project /\ todo' = todo
  /\ \/ pc' = pc /\ (pc = "upload" => staging' = staging)
     \/ pc \in Before /\ pc' \in Before
     \/ pc \in Ending /\ pc' \in Ending \cup {"idle"}
  /\ outcome' # outcome => outcome' # "success"

LEMMA StillSteps ==
  ASSUME \/ FetchRecord \/ RequestFile \/ ReceiveBlock \/ EnterWriter
         \/ (StoreFile /\ ChecksumHolds) \/ (ResolvePage /\ pc' # "cleanup")
         \/ ExitWriter \/ Answer \/ Leave \/ RemoteChanges \/ ListingChanges
         \/ UNCHANGED vars
  PROVE  Still
<1>. USE DEF Still, Before, Ending
<1>1. CASE FetchRecord \/ RequestFile \/ ReceiveBlock \/ EnterWriter
  BY <1>1 DEF FetchRecord, RequestFile, ReceiveBlock, EnterWriter
<1>2. CASE (StoreFile /\ ChecksumHolds) \/ (ResolvePage /\ pc' # "cleanup")
  BY <1>2 DEF StoreFile, ResolvePage, EnterRaises
<1>3. CASE ExitWriter \/ Answer \/ Leave
  BY <1>3 DEF ExitWriter, Answer, Leave
<1>4. CASE RemoteChanges \/ ListingChanges \/ UNCHANGED vars
  BY <1>4 DEF RemoteChanges, ListingChanges, vars, acquired
<1>. QED  BY <1>1, <1>2, <1>3, <1>4

\* Steps that end the command with an error and store nothing.
Gives(code) == outcome' = code /\ pc' \in Ending /\ code # "success"

LEMMA FailingSteps ==
  ASSUME \/ AcquisitionFails \/ (StoreFile /\ ~ ChecksumHolds)
         \/ (ResolvePage /\ pc' = "cleanup") \/ EnterFails \/ ExitFails \/ Cancel
         \/ CancelInEnter \/ CancelInExit \/ UploadFails
  PROVE  \E code : Gives(code)
<1>. USE DEF Gives, Ending
<1>1. CASE \/ AcquisitionFails \/ (StoreFile /\ ~ ChecksumHolds)
           \/ EnterFails \/ ExitFails \/ Cancel
  BY <1>1 DEF AcquisitionFails, StoreFile, EnterFails, EnterRaises, ExitFails, Cancel,
              Unwinding
<1>2. CASE ResolvePage /\ pc' = "cleanup"
  BY <1>2 DEF ResolvePage, EnterRaises
<1>3. CASE CancelInEnter \/ CancelInExit \/ UploadFails
  BY <1>3 DEF CancelInEnter, CancelInExit, UploadFails, Unwinding
<1>. QED  BY <1>1, <1>2, <1>3

LEMMA UploadStep ==
  ASSUME IInv, [Next]_vars
  PROVE  UploadInv'
<1>1. CASE \E k \in Kinds : Begin(k)
  <2>1. /\ pc' = "fetch" /\ todo' = Uploads(kind') /\ project' = project
        /\ command' = command + 1
    BY <1>1 DEF Begin
  <2>2. \A s \in project' : s.command # command'
    BY <2>1 DEF IInv, TypeInv
  <2>. QED  BY <2>1, <2>2 DEF UploadInv, Ending
<1>2. CASE Still
  <2>1. CASE pc \in Before /\ pc' \in Before
    BY <1>2, <2>1 DEF Still, IInv, UploadInv, Before, Ending
  <2>2. CASE pc \in Ending /\ pc' \in Ending \cup {"idle"}
    BY <1>2, <2>2 DEF Still, IInv, UploadInv, Before, Ending
  <2>3. CASE pc' = pc /\ pc = "upload"
    BY <1>2, <2>3 DEF Still, IInv, UploadInv, Before, Ending, Done, Stored, ContentOf
  <2>4. CASE pc' = pc /\ pc \notin Before \cup Ending \cup {"upload"}
    BY <2>4 DEF UploadInv
  <2>. QED  BY <1>2, <2>1, <2>2, <2>3, <2>4 DEF Still
<1>3. CASE \E code : Gives(code)
  BY <1>3 DEF Gives, UploadInv, Before, Ending
<1>4. CASE CreateSession
  <2>1. /\ pc' = "upload" /\ todo' = todo /\ kind' = kind /\ todo = Uploads(kind)
        /\ kind \in Kinds
    BY <1>4 DEF CreateSession, IInv, UploadInv, TypeInv, Before
  <2>2. Uploads(kind) \in Seq(Files) /\ Len(Uploads(kind)) \in Nat
    BY <2>1, UploadsOrder
  <2>3. Done' = 0
    BY <2>1, <2>2 DEF Done
  <2>. QED  BY <2>1, <2>2, <2>3 DEF UploadInv, Before, Ending
<1>5. CASE UploadNext
  <2>1. /\ pc = "upload" /\ pc' = "upload" /\ todo # <<>> /\ todo' = Tail(todo)
        /\ project' = project \cup {Stored(Head(todo))}
        /\ kind' = kind /\ command' = command /\ staging' = staging /\ kind \in Kinds
    BY <1>5 DEF UploadNext, acquired, IInv, TypeInv
  <2>2. /\ Head(todo) = Uploads(kind)[Done + 1]
        /\ Done \in 0..(Len(Uploads(kind)) - 1)
        /\ Tail(todo) \in Seq(Files) /\ Len(Tail(todo)) = Len(todo) - 1
        /\ \A i \in 1..Len(Tail(todo)) : Tail(todo)[i] = Uploads(kind)[Done + 1 + i]
    BY <2>1, NextUpload
  <2>3. Done' = Done + 1 /\ Len(todo') <= Len(Uploads(kind))
    <3>1. Len(Uploads(kind)) \in Nat /\ Len(todo) \in Int
      <4>1. todo \in Seq(Files)
        BY <2>1 DEF IInv, UploadInv
      <4>. QED  BY <2>1, <4>1, UploadsOrder
    <3>. QED  BY <2>1, <2>2, <3>1 DEF Done
  <2>4. \A f : Stored(f)' = Stored(f)
    BY <2>1 DEF Stored, ContentOf
  <2>5. ASSUME NEW i \in 1..Done'
        PROVE  Stored(Uploads(kind)[i])' \in project'
    <3>1. CASE i \in 1..Done
      <4>1. Stored(Uploads(kind)[i]) \in project
        BY <2>1, <3>1 DEF IInv, UploadInv
      <4>. QED  BY <2>1, <4>1 DEF Stored, ContentOf
    <3>2. CASE i = Done + 1
      BY <2>1, <2>2, <3>2 DEF Stored, ContentOf
    <3>. QED  BY <2>2, <2>3, <3>1, <3>2
  <2>. QED  BY <2>1, <2>2, <2>3, <2>5 DEF UploadInv, Before, Ending
<1>6. CASE UploadsDone
  <2>1. /\ pc = "upload" /\ pc' = "exit" /\ todo = <<>> /\ kind' = kind
        /\ command' = command /\ project' = project /\ kind \in Kinds
    BY <1>6 DEF UploadsDone, IInv, TypeInv
  <2>2. DOMAIN Uploads(kind) = 1..Done
    <3>1. Uploads(kind) \in Seq(Files) /\ Done = Len(Uploads(kind))
      BY <2>1, UploadsOrder DEF Done
    <3>. QED  BY <3>1
  <2>3. \A i \in DOMAIN Uploads(kind) : Stored(Uploads(kind)[i]) \in project
    BY <2>1, <2>2 DEF IInv, UploadInv
  <2>4. \A i \in DOMAIN Uploads(kind) :
          \E s \in project : s.command = command /\ s.file = Uploads(kind)[i]
    BY <2>3 DEF Stored
  <2>. QED  BY <2>1, <2>4 DEF UploadInv, Before, Ending
<1>. QED
  <2>1. CASE \/ FetchRecord \/ RequestFile \/ ReceiveBlock \/ EnterWriter
             \/ (StoreFile /\ ChecksumHolds) \/ (ResolvePage /\ pc' # "cleanup")
             \/ ExitWriter \/ Answer \/ Leave \/ RemoteChanges \/ ListingChanges
             \/ UNCHANGED vars
    BY <1>2, <2>1, StillSteps
  <2>2. CASE \/ AcquisitionFails \/ (StoreFile /\ ~ ChecksumHolds)
             \/ (ResolvePage /\ pc' = "cleanup") \/ EnterFails \/ ExitFails \/ Cancel
             \/ CancelInEnter \/ CancelInExit \/ UploadFails
    BY <1>3, <2>2, FailingSteps
  <2>. QED  BY <1>1, <1>4, <1>5, <1>6, <2>1, <2>2 DEF Next

\* Only an upload changes the project, by the file at the head of the list at most.
LEMMA ProjectChanges ==
  ASSUME [Next]_vars, project' # project
  PROVE  /\ pc = "upload" /\ todo # <<>>
         /\ project' = project \cup {Stored(Head(todo))}
         /\ command' = command /\ declared' = declared
<1>1. CASE UploadNext \/ UploadFails
  BY <1>1 DEF UploadNext, UploadFails, acquired
<1>2. CASE ~ (UploadNext \/ UploadFails)
  BY <1>2 DEF Next, vars, remoteSide, Begin, FetchRecord, RequestFile, ReceiveBlock,
     StoreFile, AcquisitionFails, EnterWriter, ResolvePage, CreateSession, EnterFails,
     UploadsDone, ExitWriter, ExitFails, Answer, Leave, Cancel, CancelInEnter,
     CancelInExit, RemoteChanges, ListingChanges
<1>. QED  BY <1>1, <1>2

LEMMA ArtifactStep ==
  ASSUME IInv, [Next]_vars
  PROVE  ArtifactInv'
<1>1. CASE project' = project
  BY <1>1 DEF IInv, ArtifactInv
<1>2. CASE project' # project
  <2>1. /\ pc = "upload" /\ todo # <<>> /\ kind \in Kinds
        /\ project' = project \cup {Stored(Head(todo))}
    BY <1>2, ProjectChanges DEF IInv, TypeInv
  <2>2. Head(todo) = Uploads(kind)[Done + 1] /\ Done \in 0..(Len(Uploads(kind)) - 1)
    BY <2>1, NextUpload
  <2>3. ASSUME NEW f \in {"record", "file"}, Stored(Head(todo)).file = ManifestOf[f]
        PROVE  \E a \in project' : /\ a.command = Stored(Head(todo)).command /\ a.file = f
                                   /\ a.content = Stored(Head(todo)).content
    <3>1. Head(todo) = ManifestOf[f]
      BY <2>3 DEF Stored
    <3>2. Done > 0 /\ Uploads(kind)[Done] = f
      <4>1. Done + 1 \in 1..Len(Uploads(kind)) /\ Done + 1 - 1 = Done
        BY <2>2
      <4>. QED  BY <2>1, <2>2, <3>1, <4>1, UploadsOrder
    <3>3. Stored(f) \in project
      BY <2>1, <2>2, <3>2 DEF IInv, UploadInv
    <3>4. Stored(f).content = Stored(Head(todo)).content
      BY <3>1, ManifestContent DEF Stored
    <3>. QED  BY <2>1, <3>3, <3>4 DEF Stored
  <2>4. ASSUME NEW s \in project', NEW f \in {"record", "file"}, s.file = ManifestOf[f]
        PROVE  \E a \in project' : a.command = s.command /\ a.file = f
                                   /\ a.content = s.content
    <3>1. CASE s \in project
      BY <2>1, <2>4, <3>1 DEF IInv, ArtifactInv
    <3>2. CASE s = Stored(Head(todo))
      BY <2>3, <2>4, <3>2
    <3>. QED  BY <2>1, <3>1, <3>2
  <2>. QED  BY <2>4 DEF ArtifactInv
<1>. QED  BY <1>1, <1>2

\* The declared checksum changes only before the command has stored anything.
LEMMA DeclaredChanges ==
  ASSUME IInv, [Next]_vars, declared' # declared \/ command' # command
  PROVE  project' = project /\ \A s \in project : s.command # command'
<1>1. CASE \E k \in Kinds : Begin(k)
  BY <1>1 DEF Begin, IInv, TypeInv
<1>2. CASE FetchRecord
  BY <1>2 DEF FetchRecord, IInv, UploadInv, Before
<1>3. CASE ~ (FetchRecord \/ \E k \in Kinds : Begin(k))
  BY <1>3 DEF Next, vars, acquired, RequestFile, ReceiveBlock,
     StoreFile, AcquisitionFails, EnterWriter, ResolvePage, CreateSession, EnterFails,
     UploadNext, UploadFails, UploadsDone, ExitWriter, ExitFails, Answer, Leave, Cancel,
     CancelInEnter, CancelInExit, RemoteChanges, ListingChanges
<1>. QED  BY <1>1, <1>2, <1>3

LEMMA DeclaredStep ==
  ASSUME IInv, [Next]_vars
  PROVE  FileIsDeclared'
<1>1. CASE declared' # declared \/ command' # command
  BY <1>1, DeclaredChanges DEF IInv, FileIsDeclared
<1>2. CASE declared' = declared /\ command' = command /\ project' = project
  BY <1>2 DEF IInv, FileIsDeclared
<1>3. CASE declared' = declared /\ command' = command /\ project' # project
  <2>1. /\ pc = "upload" /\ todo # <<>> /\ kind \in Kinds
        /\ project' = project \cup {Stored(Head(todo))}
    BY <1>3, ProjectChanges DEF IInv, TypeInv
  <2>2. Head(todo) = Uploads(kind)[Done + 1] /\ Done \in 0..(Len(Uploads(kind)) - 1)
    BY <2>1, NextUpload
  <2>3. Head(todo) = "file" =>
          /\ \E v \in Versions : Stored(Head(todo)).content = Whole(v)
          /\ declared # None => Checksum(Stored(Head(todo)).content) = declared
    <3>1. SUFFICES ASSUME Head(todo) = "file"
                   PROVE  /\ \E v \in Versions : staging.final = Whole(v)
                          /\ declared # None => Checksum(staging.final) = declared
      BY DEF Stored, ContentOf
    <3>2. Done + 1 \in 1..Len(Uploads(kind))
      BY <2>2
    <3>3. kind = "download"
      BY <2>1, <2>2, <3>1, <3>2, UploadsOrder
    <3>. QED  BY <2>1, <3>3 DEF IInv, StagingInv, WithFiles
  <2>4. ASSUME NEW s \in project', s.file = "file"
        PROVE  /\ \E v \in Versions : s.content = Whole(v)
               /\ s.command = command /\ declared # None => Checksum(s.content) = declared
    <3>1. CASE s \in project
      BY <2>4, <3>1 DEF IInv, FileIsDeclared
    <3>2. CASE s = Stored(Head(todo))
      <4>1. Head(todo) = "file"
        BY <2>4, <3>2 DEF Stored
      <4>. QED  BY <2>3, <3>2, <4>1
    <3>. QED  BY <2>1, <3>1, <3>2
  <2>. QED  BY <1>3, <2>4 DEF FileIsDeclared
<1>. QED  BY <1>1, <1>2, <1>3

-------------------------------------------------------------------------------
(* The pages of the listing. *)

\* Where page n ends, page n + 1 begins.
LEMMA Pages ==
  ASSUME NEW n \in Nat \ {0}
  PROVE  /\ (n - 1) * PageSize \in Nat /\ n * PageSize \in Nat
         /\ (n + 1 - 1) * PageSize = n * PageSize
         /\ n = 1 => (n - 1) * PageSize = 0
BY CernAssumption

\* A page without the project, after pages without it.
LEMMA PageRead ==
  ASSUME IInv, pc = "resolve", ~ shifted, Wanted \notin Page(page)
  PROVE  \A i \in DOMAIN listing : i <= page * PageSize => listing[i] # Wanted
<1>1. ASSUME NEW i \in DOMAIN listing, i <= page * PageSize, listing[i] = Wanted
      PROVE  FALSE
  <2>1. i \in Nat /\ (page - 1) * PageSize \in Nat
    BY Pages DEF IInv, TypeInv
  <2>2. ~ (i <= (page - 1) * PageSize)
    BY <1>1 DEF IInv, PageInv
  <2>3. (page - 1) * PageSize < i
    BY <2>1, <2>2
  <2>. QED  BY <1>1, <2>3 DEF Page
<1>. QED  BY <1>1

LEMMA PageStep ==
  ASSUME IInv, [Next]_vars
  PROVE  PageInv'
<1>. SUFFICES ASSUME pc' = "resolve", ~ shifted'
              PROVE  \A i \in DOMAIN listing' :
                       i <= (page' - 1) * PageSize => listing'[i] # Wanted
  BY DEF PageInv
<1>1. CASE EnterWriter
  <2>1. page' = 1 /\ listing' = listing /\ (page' - 1) * PageSize = 0
    BY <1>1, Pages DEF EnterWriter, remoteSide
  <2>2. \A i \in DOMAIN listing : i \in Nat \ {0}
    BY DEF IInv, TypeInv
  <2>. QED  BY <2>1, <2>2
<1>2. CASE ResolvePage
  <2>1. /\ pc = "resolve" /\ ~ shifted /\ Wanted \notin Page(page)
        /\ page' = page + 1 /\ listing' = listing
    BY <1>2 DEF ResolvePage, EnterRaises, remoteSide
  <2>2. (page' - 1) * PageSize = page * PageSize
    BY <2>1, Pages DEF IInv, TypeInv
  <2>. QED  BY <2>1, <2>2, PageRead
<1>3. CASE ListingChanges
  BY <1>3 DEF ListingChanges
<1>4. CASE RemoteChanges \/ UNCHANGED vars
  <2>1. pc' = pc /\ shifted' = shifted /\ page' = page /\ listing' = listing
    BY <1>4 DEF RemoteChanges, vars, remoteSide, connection
  <2>. QED  BY <2>1 DEF IInv, PageInv
<1>5. CASE ~ (EnterWriter \/ ResolvePage \/ ListingChanges \/ RemoteChanges
              \/ UNCHANGED vars)
  BY <1>5 DEF Next, Begin, FetchRecord, RequestFile, ReceiveBlock, StoreFile,
     AcquisitionFails, CreateSession, EnterFails, EnterRaises, UploadNext, UploadFails,
     UploadsDone, ExitWriter, ExitFails, Answer, Leave, Cancel, CancelInEnter,
     CancelInExit, Unwinding
<1>. QED  BY <1>1, <1>2, <1>3, <1>4, <1>5

-------------------------------------------------------------------------------
LEMMA Inductive ==
  ASSUME IInv, [Next]_vars
  PROVE  IInv'
<1>1. TypeInv'  BY TypeStep DEF IInv
<1>. QED  BY <1>1, StagingStep, UploadStep, ArtifactStep, DeclaredStep, PageStep DEF IInv

LEMMA AlwaysIInv == Spec => []IInv
BY InitInv, Inductive, PTL DEF Spec

LEMMA IInvManifest == IInv => ManifestHasArtifact
BY DEF IInv, ArtifactInv, UploadInv, ManifestHasArtifact, Ending

\* No manifest is in the project without the artifact it describes, whatever fails; a
\* command that answers success has stored all its files.
THEOREM ManifestsKept == Spec => []ManifestHasArtifact
BY AlwaysIInv, IInvManifest, PTL

\* What the project holds as the file is one version, whole, and has the
\* checksum the record declares, if any.
THEOREM FilesDeclared == Spec => []FileIsDeclared
<1>1. IInv => FileIsDeclared
  BY DEF IInv
<1>. QED  BY AlwaysIInv, <1>1, PTL

\* "Was not found" is said only of a project that is on no page of the listing, unless
\* the listing changed while it was read.
THEOREM NotFoundTrue == Spec => NotFoundIsAbsent
<1>1. ASSUME IInv, ResolvePage, pc' = "cleanup", ~ shifted
      PROVE  \A i \in DOMAIN listing : listing[i] # Wanted
  <2>1. pc = "resolve" /\ Wanted \notin Page(page) /\ ~ HasMore(page)
    BY <1>1 DEF ResolvePage
  <2>2. page * PageSize \in Nat /\ Len(listing) <= page * PageSize
    BY <1>1, <2>1, Pages DEF HasMore, IInv, TypeInv
  <2>3. \A i \in DOMAIN listing : i <= page * PageSize
    BY <1>1, <2>2 DEF IInv, TypeInv
  <2>. QED  BY <1>1, <2>1, <2>3, PageRead
<1>2. IInv => (ResolvePage /\ pc' = "cleanup" /\ ~ shifted =>
                 \A i \in DOMAIN listing : listing[i] # Wanted)
  BY <1>1
<1>. QED  BY AlwaysIInv, <1>2, PTL DEF NotFoundIsAbsent

===============================================================================
