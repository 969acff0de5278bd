---------------------------- MODULE CernAcquisition ----------------------------
(***************************************************************************)
(* The CERN Open Data commands (commands/cern_open_data_commands.py): fetch *)
(* a record, download one of its files into a staging directory, verify it *)
(* and create the files, each with its manifest, in a Code Analysis        *)
(* project, through a session of the Code Analysis server (CAS).           *)
(*                                                                         *)
(* The staging directory is the command's own and every stored name is     *)
(* unique, so commands meet only in the project: one command at a time is  *)
(* followed through its awaits, at each of which the remote side may fail, *)
(* change, or the command's task be cancelled.                             *)
(***************************************************************************)
EXTENDS Naturals, Sequences, FiniteSets

CONSTANTS
  None,
  Versions,      \* contents the remote file may have
  Size,          \* blocks of each
  Checksum(_),   \* of a content: adler32 or sha256; adler32 has 32 bits, so two
                 \* contents may have the same
  Projects,      \* what list_projects may list
  Wanted,        \* the project the commands are for
  PageSize,      \* rows on a page of list_projects
  MaxCommands,   \* bound: commands
  MaxChanges     \* bound: changes of the remote file and of the listing

ASSUME CernAssumption ==
  /\ IsFiniteSet(Projects) /\ Wanted \in Projects /\ None \notin Versions
  /\ Size \in Nat \ {0} /\ PageSize \in Nat \ {0}

VARIABLES
  remote,        \* CERN: the file's content
  listing,       \* CAS: the projects in the order they are listed
  sessions,      \* CAS: the open sessions, by command
  project,       \* CAS: the files of the wanted project
  command,       \* how many commands have begun
  kind,          \* "record" (also a search, which stores one JSON) or "download"
  pc,
  declared,      \* the checksum in the fetched record, or None
  serving,       \* the content the open response streams, or None
  staging,       \* None, or the staged file: "partial" blocks and "final" blocks
  client,        \* the CAS client: "none", "open" or "closed"
  writer,        \* __aenter__ has completed and __aexit__ has not
  page,          \* block_position
  todo,          \* the uploads left, in order
  outcome,       \* how the command is ending: what its finally clauses run under
  changes,
  shifted        \* history: the listing changed while it was read

remoteSide == <<remote, listing, changes>>
vars == <<remoteSide, sessions, project, command, kind, pc, declared, serving, staging,
          client, writer, page, todo, outcome, shifted>>

Block(v, i) == <<v, i>>
Whole(v) == [i \in 1..Size |-> Block(v, i)]

Kinds == {"record", "download"}
\* Mutant: the manifest is uploaded before its artifact.
ManifestFirst(k) == IF k = "record" THEN <<"record.manifest", "record">>
                    ELSE <<"record.manifest", "record", "file.manifest", "file">>

\* What the command stores: the record and its manifest; the file and its manifest.
Uploads(k) == IF k = "record" THEN <<"record", "record.manifest">>
              ELSE <<"record", "record.manifest", "file", "file.manifest">>
ManifestOf == [f \in {"record", "file"} |->
                 IF f = "record" THEN "record.manifest" ELSE "file.manifest"]

Init ==
  /\ remote \in Versions
  /\ listing \in {s \in [1..Cardinality(Projects) -> Projects] :
                    \A p \in Projects : \E i \in DOMAIN s : s[i] = p}
  /\ sessions = {} /\ project = {} /\ command = 0 /\ kind = "record" /\ pc = "idle"
  /\ declared = None /\ serving = None /\ staging = None
  /\ client = "none" /\ writer = FALSE /\ page = 1 /\ todo = <<>>
  /\ outcome = "success" /\ changes = 0 /\ shifted = FALSE

acquired == <<declared, serving, staging>>
connection == <<client, writer, page, shifted>>

\* The awaits at which the command may be: a failure there leads to the finally
\* clauses that are in force, and then to the answer.  Of the codes _error_result
\* knows the model uses two: VALIDATION_ERROR would be one more failed answer, which
\* nothing tells apart from them.
Unwinding(code) ==
  /\ outcome' = code
  /\ pc' = IF writer THEN "exit" ELSE "cleanup"

-------------------------------------------------------------------------------
(* fetch_cern_json, select_record_file, download_record_file *)

Begin(k) ==
  /\ pc = "idle" /\ command < MaxCommands
  /\ command' = command + 1 /\ kind' = k /\ pc' = "fetch"
  /\ outcome' = "success" /\ todo' = Uploads(k)
  /\ declared' = None /\ serving' = None /\ staging' = None
  /\ client' = "none" /\ writer' = FALSE /\ page' = 1 /\ shifted' = FALSE
  /\ UNCHANGED <<remoteSide, sessions, project>>

\* The record declares the checksum of the content it was written for.  A record
\* without one, and one whose checksum has no colon, which _expected_checksum takes
\* for none, declare None.  The staging directory is made and the record stored in it.
FetchRecord ==
  /\ pc = "fetch"
  /\ \E d \in {None, Checksum(Whole(remote))} : declared' = d
  /\ staging' = [partial |-> <<>>, final |-> None]
  /\ pc' = IF kind = "download" THEN "request" ELSE "enter"
  /\ UNCHANGED <<remoteSide, sessions, project, command, kind, serving, connection, todo,
                 outcome>>

\* The response streams the file as it is when the request arrives.  The partial file
\* of a fresh staging directory is empty, so the request carries no Range.
RequestFile ==
  /\ pc = "request"
  /\ serving' = remote
  /\ pc' = "stream"
  /\ UNCHANGED <<remoteSide, sessions, project, command, kind, declared, staging,
                 connection, todo, outcome>>

ReceiveBlock ==
  /\ pc = "stream" /\ Len(staging.partial) < Size
  /\ staging' = [staging EXCEPT
                   !.partial = Append(@, Block(serving, Len(@) + 1))]
  /\ UNCHANGED <<remoteSide, sessions, project, command, kind, pc, declared, serving,
                 connection, todo, outcome>>

\* Mutant: the checksum is computed but not compared.
AnyChecksum == TRUE

\* A checksum of an unknown algorithm is refused like one that differs
\* (AcquisitionFails).
ChecksumHolds == declared # None => Checksum(staging.partial) = declared

\* The end of the response: _verify_checksum, replace, the manifest.
StoreFile ==
  /\ pc = "stream" /\ Len(staging.partial) = Size
  /\ serving' = None
  /\ IF ChecksumHolds
     THEN /\ staging' = [partial |-> <<>>, final |-> staging.partial]
          /\ pc' = "enter"
          /\ UNCHANGED outcome
     ELSE Unwinding("CERN_OPEN_DATA_ERROR") /\ UNCHANGED staging
  /\ UNCHANGED <<remoteSide, sessions, project, command, kind, declared, connection, todo>>

\* A failed request, invalid JSON, no such file, max_bytes, an I/O error.
AcquisitionFails ==
  /\ pc \in {"fetch", "request", "stream"}
  /\ Unwinding("CERN_OPEN_DATA_ERROR")
  /\ UNCHANGED <<remoteSide, sessions, project, command, kind, acquired, connection, todo>>

-------------------------------------------------------------------------------
(* CodeAnalysisProjectWriter.__aenter__ *)

EnterWriter ==
  /\ pc = "enter"
  /\ client' = "open" /\ page' = 1 /\ shifted' = FALSE
  /\ pc' = "resolve"
  /\ UNCHANGED <<remoteSide, sessions, project, command, kind, acquired, writer, todo,
                 outcome>>

Page(n) == {listing[i] : i \in {j \in DOMAIN listing :
                                  (n - 1) * PageSize < j /\ j <= n * PageSize}}

\* Mutant: has_more is taken from the page that was asked for before.
HasMoreAfter(n) == Len(listing) > (n + 1) * PageSize

HasMore(n) == Len(listing) > n * PageSize

\* __aenter__'s except clause: the client is closed, no session is known.
EnterRaises(code) ==
  /\ client' = "closed"
  /\ outcome' = code /\ pc' = "cleanup"

\* resolve_project, page by page.
ResolvePage ==
  /\ pc = "resolve"
  /\ IF Wanted \in Page(page)
     THEN pc' = "session" /\ UNCHANGED <<client, page, outcome>>
     ELSE IF HasMore(page)
     THEN page' = page + 1 /\ UNCHANGED <<pc, client, outcome>>
     ELSE EnterRaises("PROJECT_RESOLUTION_ERROR") /\ UNCHANGED page
  /\ UNCHANGED <<remoteSide, sessions, project, command, kind, acquired, writer, shifted,
                 todo>>

CreateSession ==
  /\ pc = "session"
  /\ sessions' = sessions \cup {command}
  /\ writer' = TRUE
  /\ pc' = "upload"
  /\ UNCHANGED <<remoteSide, project, command, kind, acquired, client, page, shifted, todo,
                 outcome>>

\* The CAS client raises an exception of its own, or CAS answers with a failure; a
\* call whose answer is lost may have created the session.
EnterFails ==
  /\ pc \in {"resolve", "session"}
  /\ \E code \in {"CERN_OPEN_DATA_ERROR", "PROJECT_RESOLUTION_ERROR"} : EnterRaises(code)
  /\ sessions' \in {sessions} \cup {sessions \cup {command} : p \in {pc} \cap {"session"}}
  /\ UNCHANGED <<remoteSide, project, command, kind, acquired, writer, page, shifted, todo>>

-------------------------------------------------------------------------------
(* _upload_stored_artifact, __aexit__, the answer *)

\* The content of a JSON document is left out.
ContentOf(f) == IF f \in {"file", "file.manifest"} THEN staging.final ELSE <<>>
Stored(f) == [command |-> command, file |-> f, content |-> ContentOf(f)]

\* upload_path: the transfer to CAS, its save and the file_id of the answer.
UploadNext ==
  /\ pc = "upload" /\ todo # <<>>
  /\ project' = project \cup {Stored(Head(todo))}
  /\ todo' = Tail(todo)
  /\ UNCHANGED <<remoteSide, sessions, command, kind, pc, acquired, connection, outcome>>

\* The transfer or its save fails, before CAS stores the file or after it; then
\* nothing more is uploaded.
UploadFails ==
  /\ pc = "upload" /\ todo # <<>>
  /\ project' \in {project, project \cup {Stored(Head(todo))}}
  /\ \E code \in {"CERN_OPEN_DATA_ERROR", "PROJECT_RESOLUTION_ERROR"} : Unwinding(code)
  /\ UNCHANGED <<remoteSide, sessions, command, kind, acquired, connection, todo>>

UploadsDone ==
  /\ pc = "upload" /\ todo = <<>>
  /\ pc' = "exit"
  /\ UNCHANGED <<remoteSide, sessions, project, command, kind, acquired, connection, todo,
                 outcome>>

\* __aexit__: delete_session, and in its finally clause close.
ExitWriter ==
  /\ pc = "exit"
  /\ sessions' = sessions \ {command}
  /\ client' = "closed" /\ writer' = FALSE
  /\ pc' = "cleanup"
  /\ UNCHANGED <<remoteSide, project, command, kind, acquired, page, shifted, todo, outcome>>

\* The exception of delete_session takes the place of the block's result, success and
\* cancellation included.
ExitFails ==
  /\ pc = "exit"
  /\ client' = "closed" /\ writer' = FALSE
  /\ outcome' = "CERN_OPEN_DATA_ERROR"
  /\ pc' = "cleanup"
  /\ UNCHANGED <<remoteSide, sessions, project, command, kind, acquired, page, shifted,
                 todo>>

\* The staging directory is removed and the answer returned.
Answer ==
  /\ pc = "cleanup"
  /\ staging' = None /\ pc' = "answered"
  /\ UNCHANGED <<remoteSide, sessions, project, command, kind, declared, serving,
                 connection, todo, outcome>>

Leave ==
  /\ pc = "answered"
  /\ pc' = "idle"
  /\ UNCHANGED <<remoteSide, sessions, project, command, kind, acquired, connection, todo,
                 outcome>>

\* CancelledError at an await.  Inside __aenter__ it passes the except clause, which
\* catches Exception: the client stays open and a session may have been created.
CancelInEnter ==
  /\ pc \in {"resolve", "session"}
  /\ outcome' = "cancelled" /\ pc' = "cleanup"
  /\ sessions' \in {sessions} \cup {sessions \cup {command} : p \in {pc} \cap {"session"}}
  /\ UNCHANGED <<remoteSide, project, command, kind, acquired, connection, todo>>

\* Inside __aexit__ the finally clause still closes the client.
CancelInExit ==
  /\ pc = "exit"
  /\ outcome' = "cancelled" /\ pc' = "cleanup"
  /\ client' = "closed" /\ writer' = FALSE
  /\ sessions' \in {sessions, sessions \ {command}}
  /\ UNCHANGED <<remoteSide, project, command, kind, acquired, page, shifted, todo>>

Cancel ==
  /\ pc \in {"fetch", "request", "stream", "upload"}
  /\ Unwinding("cancelled")
  /\ UNCHANGED <<remoteSide, sessions, project, command, kind, acquired, connection, todo>>

-------------------------------------------------------------------------------
RemoteChanges ==
  /\ changes < MaxChanges /\ pc # "idle"
  /\ changes' = changes + 1
  /\ \E v \in Versions \ {remote} : remote' = v
  /\ UNCHANGED <<listing, sessions, project, command, kind, pc, acquired, connection, todo,
                 outcome>>

\* A project goes; the rows behind it move up.
ListingChanges ==
  /\ changes < MaxChanges /\ pc # "idle"
  /\ changes' = changes + 1
  /\ \E i \in DOMAIN listing :
       listing' = SubSeq(listing, 1, i - 1) \o SubSeq(listing, i + 1, Len(listing))
  /\ shifted' = TRUE
  /\ UNCHANGED <<remote, sessions, project, command, kind, pc, acquired, client, writer,
                 page, todo, outcome>>

Next ==
  \/ \E k \in Kinds : Begin(k)
  \/ FetchRecord \/ RequestFile \/ ReceiveBlock \/ StoreFile \/ AcquisitionFails
  \/ EnterWriter \/ ResolvePage \/ CreateSession \/ EnterFails
  \/ UploadNext \/ UploadFails \/ UploadsDone \/ ExitWriter \/ ExitFails
  \/ Answer \/ Leave \/ Cancel \/ CancelInEnter \/ CancelInExit
  \/ RemoteChanges \/ ListingChanges

Spec == Init /\ [][Next]_vars
-------------------------------------------------------------------------------
\* "Keep every generated manifest beside its corresponding artifact" (line 106 of the
\* commands): the project never holds a manifest whose artifact is not there with the
\* content the manifest describes, wherever uploads fail or are cancelled; and a
\* command that answers success has stored all its files.
ManifestHasArtifact ==
  /\ \A s \in project : \A f \in {"record", "file"} :
       s.file = ManifestOf[f] =>
         \E a \in project : a.command = s.command /\ a.file = f /\ a.content = s.content
  /\ pc = "answered" /\ outcome = "success" =>
       \A i \in DOMAIN Uploads(kind) :
         \E s \in project : s.command = command /\ s.file = Uploads(kind)[i]

\* What reaches the project as the file is one content of the remote file, whole; if
\* the record declared a checksum, it has that checksum, although the file may have
\* changed between the record's fetch and the request.
FileIsDeclared ==
  \A s \in project :
    s.file = "file" =>
      /\ \E v \in Versions : s.content = Whole(v)
      /\ s.command = command /\ declared # None => Checksum(s.content) = declared

\* resolve_project: "was not found" is said only of a project that is not listed,
\* unless the listing changed while it was read.
NotFoundIsAbsent ==
  [][ResolvePage /\ pc' = "cleanup" /\ ~ shifted =>
       \A i \in DOMAIN listing : listing[i] # Wanted]_vars

===============================================================================
