-------------------------------- MODULE FileStore --------------------------------
(***************************************************************************)
(* The file store (services/file_store.py): uploads in parts through        *)
(* sessions with a time to live, files with a metadata sidecar, and their  *)
(* deletion.                                                               *)
(*                                                                         *)
(* A worker is a thread that runs one call (commands/file_commands.py); an *)
(* action is the code between two durable steps.  A session's lock is a   *)
(* flock on a file in the session's own directory, and shutil.rmtree, which *)
(* removes that directory, unlinks one file at a time: callers that come   *)
(* after the lock file has gone lock another one.  Every stored content is *)
(* one fragment per part, and a declared SHA-256 is that of Whole.         *)
(***************************************************************************)
EXTENDS Naturals, Sequences, FiniteSets

CONSTANTS
  None,
  Workers, Sessions, Files,  \* ids are UUIDs: each is given out once
  Parts,                     \* parts of an upload
  TTL,                       \* ticks that a session lives without a part
  MaxTicks, MaxFaults        \* bounds: time; I/O errors and restarts

Indices == 0..(Parts - 1)
Whole == [i \in 1..Parts |-> "good"]

ASSUME FileStoreAssumption ==
  /\ Parts \in Nat \ {0} /\ TTL \in Nat \ {0} /\ MaxTicks \in Nat
  /\ None \notin Sessions \cup Files \cup Workers /\ None # Whole

\* The server has finitely many threads; None is no inode and no fragment.
ASSUME ThreadsAssumption == IsFiniteSet(Workers) /\ None \notin Nat \cup {"good", "bad"}

VARIABLES
  manifest,    \* disk: manifest.json of each session
  fragments,   \* disk: the part files of each session
  lockFile,    \* disk: which .lock file each session's directory holds, if any
  binary,      \* disk: the stored content of each file
  metadata,    \* disk: the session whose upload each sidecar describes
  trash,       \* disk: the transaction directory of each deletion
  now, faults,
  given,       \* the session and file ids given out
  pc, call,    \* each worker: where it is, and its call
  locked,      \* each worker: the .lock file it has opened
  view,        \* each worker: the manifest it has loaded, the parts it has decoded
  doomed,      \* each worker: the sessions its sweep has still to visit
  removing,    \* each worker: the entries its rmtree has still to unlink
  file,        \* each worker: the file it makes or deletes
  answers,     \* the answers of successful calls
  origin,      \* history: the session each binary was made from
  torn,        \* history: the files whose deletion was cut short by a restart
  split        \* history: the sessions whose .lock a sweep has unlinked under a call

sessions == <<manifest, fragments, lockFile>>
stored == <<binary, metadata, trash, origin>>
caller == <<pc, call, locked, view, doomed, file>>
calls == <<caller, removing>>
time == <<now, faults>>
outcomes == <<answers, torn, split>>
vars == <<sessions, stored, calls, time, given, outcomes>>

NoFragments == [i \in Indices |-> None]
NoCall == [op |-> "none"]
Removed == [session |-> None, names |-> {}, parts |-> {}]

PartCalls == [op : {"part"}, session : Sessions \cup {None}, index : Indices,
              fragment : {"good", "bad"}]
DeleteCalls == [op : {"delete"}, file : Files]
Calls == PartCalls \cup DeleteCalls \cup {[op |-> "list"]}

Init ==
  /\ manifest = [s \in Sessions |-> None]
  /\ fragments = [s \in Sessions |-> NoFragments]
  /\ lockFile = [s \in Sessions |-> None]
  /\ binary = [f \in Files |-> None] /\ metadata = [f \in Files |-> None]
  /\ trash = [f \in Files |-> None] /\ origin = [f \in Files |-> None]
  /\ now = 0 /\ faults = 0 /\ given = {}
  /\ pc = [w \in Workers |-> "idle"] /\ call = [w \in Workers |-> NoCall]
  /\ locked = [w \in Workers |-> None] /\ view = [w \in Workers |-> None]
  /\ doomed = [w \in Workers |-> {}] /\ file = [w \in Workers |-> None]
  /\ removing = [w \in Workers |-> Removed]
  /\ answers = {} /\ torn = {} /\ split = {}

Expired(m) == m.deadline <= now
Expiring == {s \in Sessions : manifest[s] # None /\ Expired(manifest[s])}

Session(w) == call[w].session
Goto(w, place) == pc' = [pc EXCEPT ![w] = place]

\* The call returns or raises: its locks are released and its variables gone.
Ends(w) ==
  /\ Goto(w, "idle")
  /\ call' = [call EXCEPT ![w] = NoCall]
  /\ locked' = [locked EXCEPT ![w] = None]
  /\ view' = [view EXCEPT ![w] = None]
  /\ doomed' = [doomed EXCEPT ![w] = {}]
  /\ removing' = [removing EXCEPT ![w] = Removed]
  /\ file' = [file EXCEPT ![w] = None]

-------------------------------------------------------------------------------
(* shutil.rmtree(directory, ignore_errors=True), as the sweep calls it without a lock,
   _ensure_live under the session's lock, and a completed upload before it answers *)

Removes(w, s) ==
  removing' = [removing EXCEPT ![w] = [session |-> s, names |-> {"directory"}, parts |-> {}]]
Done(w) == removing[w].names = {} /\ removing[w].parts = {}

\* What a listing of the directory finds; the directory of the parts may be empty.
Listed(s) ==
  {n \in {"manifest", "lock", "parts"} :
     (n = "manifest" => manifest[s] # None) /\ (n = "lock" => lockFile[s] # None)}

ListDirectory(w) ==
  /\ "directory" \in removing[w].names
  /\ removing' = [removing EXCEPT ![w].names = Listed(removing[w].session)]
  /\ UNCHANGED <<sessions, stored, caller, time, given, outcomes>>

\* The directory of the parts is listed when it is reached, and emptied before the rest.
ListParts(w) ==
  /\ "parts" \in removing[w].names /\ removing[w].parts = {}
  /\ removing' = [removing EXCEPT
       ![w].names = @ \ {"parts"},
       ![w].parts = {i \in Indices : fragments[removing[w].session][i] # None}]
  /\ UNCHANGED <<sessions, stored, caller, time, given, outcomes>>

UnlinkPart(w) ==
  /\ \E i \in removing[w].parts :
       /\ fragments' = [fragments EXCEPT ![removing[w].session][i] = None]
       /\ removing' = [removing EXCEPT ![w].parts = @ \ {i}]
  /\ UNCHANGED <<manifest, lockFile, stored, caller, time, given, outcomes>>

UnlinkManifest(w) ==
  /\ "manifest" \in removing[w].names /\ removing[w].parts = {}
  /\ manifest' = [manifest EXCEPT ![removing[w].session] = None]
  /\ removing' = [removing EXCEPT ![w].names = @ \ {"manifest"}]
  /\ UNCHANGED <<fragments, lockFile, stored, caller, time, given, outcomes>>

HasLockOpen(o, s) == locked[o] # None /\ Session(o) = s

UnlinkLock(w) ==
  /\ "lock" \in removing[w].names /\ removing[w].parts = {}
  /\ LET s == removing[w].session
     IN  /\ lockFile' = [lockFile EXCEPT ![s] = None]
         /\ split' = IF pc[w] = "visit" /\ \E o \in Workers : HasLockOpen(o, s)
                     THEN split \cup {s} ELSE split
  /\ removing' = [removing EXCEPT ![w].names = @ \ {"lock"}]
  /\ UNCHANGED <<manifest, fragments, stored, caller, time, given, answers, torn>>

\* ignore_errors: what cannot be listed or unlinked stays.
UnlinkFails(w) ==
  /\ faults < MaxFaults /\ faults' = faults + 1
  /\ \/ \E n \in removing[w].names :
          /\ removing[w].parts = {}
          /\ removing' = [removing EXCEPT ![w].names = @ \ {n}]
     \/ \E i \in removing[w].parts : removing' = [removing EXCEPT ![w].parts = @ \ {i}]
  /\ UNCHANGED <<sessions, stored, caller, now, given, outcomes>>

Removal(w) ==
  \/ ListDirectory(w) \/ ListParts(w) \/ UnlinkPart(w) \/ UnlinkManifest(w) \/ UnlinkLock(w)
  \/ UnlinkFails(w)

-------------------------------------------------------------------------------
(* _cleanup_expired_sessions, which every part and every list_files begins with *)

Call(w, c) ==
  /\ pc[w] = "idle"
  /\ call' = [call EXCEPT ![w] = c]
  /\ Goto(w, IF c.op = "delete" THEN "delete" ELSE "sweep")
  /\ UNCHANGED <<sessions, stored, locked, view, doomed, removing, file, time, given, outcomes>>

\* list(root.iterdir()): the call's own session is left out.
SweepList(w) ==
  /\ pc[w] = "sweep"
  /\ doomed' = [doomed EXCEPT ![w] =
                  (Sessions \cap given) \ (IF call[w].op = "part" THEN {Session(w)} ELSE {})]
  /\ Goto(w, "visit")
  /\ UNCHANGED <<sessions, stored, call, locked, view, removing, file, time, given, outcomes>>

\* Each manifest is read at its turn, without a lock; an expired session is removed.
SweepVisit(w) ==
  /\ pc[w] = "visit" /\ Done(w)
  /\ \E s \in doomed[w] :
       /\ doomed' = [doomed EXCEPT ![w] = @ \ {s}]
       /\ IF s \in Expiring THEN Removes(w, s)
          ELSE removing' = [removing EXCEPT ![w] = Removed]
  /\ UNCHANGED <<sessions, stored, pc, call, locked, view, file, time, given, outcomes>>

\* list_files only reads the sidecars after its sweep.
SweepEnd(w) ==
  /\ pc[w] = "visit" /\ Done(w) /\ doomed[w] = {}
  /\ IF call[w].op = "list" THEN Ends(w)
     ELSE /\ Goto(w, IF Session(w) = None THEN "new" ELSE "open")
          /\ removing' = [removing EXCEPT ![w] = Removed]
          /\ UNCHANGED <<call, locked, view, doomed, file>>
  /\ UNCHANGED <<sessions, stored, time, given, outcomes>>

-------------------------------------------------------------------------------
(* receive_file_part *)

\* _new_session
NewSession(w) ==
  /\ pc[w] = "new" /\ call[w].index = 0
  /\ \E s \in Sessions \ given :
       /\ manifest' = [manifest EXCEPT ![s] =
                         [received |-> {}, status |-> "receiving", deadline |-> now + TTL]]
       /\ call' = [call EXCEPT ![w].session = s]
       /\ given' = given \cup {s}
  /\ Goto(w, "open")
  /\ UNCHANGED <<fragments, lockFile, stored, locked, view, doomed, removing, file, time, outcomes>>

\* The first portion must have index 0.
RefuseFirst(w) ==
  /\ pc[w] = "new" /\ call[w].index # 0
  /\ Ends(w)
  /\ UNCHANGED <<sessions, stored, time, given, outcomes>>

\* A .lock file that no worker has open: the inode of a new one.
NewInode == CHOOSE n \in 0..Cardinality(Workers) : \A o \in Workers : locked[o] # n

\* _session_lock makes the directory if it is not there, and opens its .lock file.
OpenLock(w) ==
  /\ pc[w] = "open"
  /\ lockFile' = [lockFile EXCEPT ![Session(w)] = IF @ = None THEN NewInode ELSE @]
  /\ locked' = [locked EXCEPT ![w] = lockFile'[Session(w)]]
  /\ Goto(w, "lock")
  /\ UNCHANGED <<manifest, fragments, stored, call, view, doomed, removing, file, time, given,
                 outcomes>>

Holding == {"write", "save", "decode", "publish", "describe", "clear", "expire"}
LockFree(w) ==
  \A o \in Workers \ {w} :
    pc[o] \in Holding => Session(o) # Session(w) \/ locked[o] # locked[w]

\* The lock is taken, the manifest loaded and its session found live and receiving.
Load(w) ==
  /\ pc[w] = "lock" /\ LockFree(w)
  /\ LET m == manifest[Session(w)]
     IN  IF m = None THEN Ends(w)
         ELSE IF Expired(m)
              THEN /\ Removes(w, Session(w)) /\ Goto(w, "expire")
                   /\ UNCHANGED <<call, locked, view, doomed, file>>
         ELSE IF m.status # "receiving" THEN Ends(w)
         ELSE /\ view' = [view EXCEPT ![w] = m]
              /\ Goto(w, "write")
              /\ UNCHANGED <<call, locked, doomed, removing, file>>
  /\ UNCHANGED <<sessions, stored, time, given, outcomes>>

\* _ensure_live raises when the directory is removed.
Expire(w) ==
  /\ pc[w] = "expire" /\ Done(w)
  /\ Ends(w)
  /\ UNCHANGED <<sessions, stored, time, given, outcomes>>

\* _write_fragment: a fragment that is there stays as it is.
WriteFragment(w) ==
  /\ pc[w] = "write"
  /\ LET old == fragments[Session(w)][call[w].index]
     IN  IF old \notin {None, call[w].fragment}
         THEN Ends(w) /\ UNCHANGED fragments
         ELSE /\ fragments' = [fragments EXCEPT ![Session(w)][call[w].index] = call[w].fragment]
              /\ Goto(w, "save")
              /\ UNCHANGED <<call, locked, view, doomed, removing, file>>
  /\ UNCHANGED <<manifest, lockFile, stored, time, given, outcomes>>

Received(w) == view[w].received \cup {call[w].index}
Acknowledged(w) == [session |-> Session(w), index |-> call[w].index, file |-> None]

\* Mutant: the session stays open for parts while it is decoded.
StatusReceiving(w) == "receiving"

\* The status saved with a part: the last one closes the session.
Status(w) == IF Received(w) = Indices THEN "decoding" ELSE "receiving"

Refreshed(w) == [received |-> Received(w), status |-> Status(w), deadline |-> now + TTL]

SaveManifest(w) ==
  /\ pc[w] = "save"
  /\ manifest' = [manifest EXCEPT ![Session(w)] = Refreshed(w)]
  /\ IF Received(w) = Indices
     THEN /\ Goto(w, "decode")
          /\ view' = [view EXCEPT ![w] = <<>>]
          /\ UNCHANGED <<call, locked, doomed, removing, file, answers>>
     ELSE /\ answers' = answers \cup {Acknowledged(w)}
          /\ Ends(w)
  /\ UNCHANGED <<fragments, lockFile, stored, time, given, torn, split>>

\* _decode_complete_session: the parts are read one after the other.
ReadPart(w) ==
  /\ pc[w] = "decode"
  /\ LET part == fragments[Session(w)][Len(view[w])]
     IN  IF part = None THEN Ends(w)
         ELSE /\ view' = [view EXCEPT ![w] = Append(@, part)]
              /\ Goto(w, IF Len(view'[w]) = Parts THEN "publish" ELSE "decode")
              /\ UNCHANGED <<call, locked, doomed, removing, file>>
  /\ UNCHANGED <<sessions, stored, time, given, outcomes>>

\* Mutant: the digest is computed and not compared.
AnyContent(w) == Len(view[w]) = Parts

\* The parts decode, and match the declared size and SHA-256.
Verified(w) == view[w] = Whole

\* A failure leaves the session's status decoding.
RefuseContent(w) ==
  /\ pc[w] = "publish" /\ ~ Verified(w)
  /\ Ends(w)
  /\ UNCHANGED <<sessions, stored, time, given, outcomes>>

Publish(w) ==
  /\ pc[w] = "publish" /\ Verified(w)
  /\ \E f \in Files \ given :
       /\ binary' = [binary EXCEPT ![f] = view[w]]
       /\ origin' = [origin EXCEPT ![f] = Session(w)]
       /\ file' = [file EXCEPT ![w] = f]
       /\ given' = given \cup {f}
  /\ Goto(w, "describe")
  /\ UNCHANGED <<sessions, metadata, trash, call, locked, view, doomed, removing, time,
                 outcomes>>

Describe(w) ==
  /\ pc[w] = "describe"
  /\ metadata' = [metadata EXCEPT ![file[w]] = Session(w)]
  /\ Removes(w, Session(w))
  /\ Goto(w, "clear")
  /\ UNCHANGED <<sessions, binary, trash, origin, call, locked, view, doomed, file, time, given,
                 outcomes>>

Complete(w) ==
  /\ pc[w] = "clear" /\ Done(w)
  /\ answers' = answers \cup {[Acknowledged(w) EXCEPT !.file = file[w]]}
  /\ Ends(w)
  /\ UNCHANGED <<sessions, stored, time, given, torn, split>>

-------------------------------------------------------------------------------
(* get_file_part, delete_file *)

\* _load_file_metadata, and delete_file's own checks: sidecar and binary must be there.
Loadable(f) == metadata[f] # None /\ binary[f] # None

\* get_file_part
FilePart(f, i) == binary[f][i + 1]

FileLockFree(w) ==
  \A o \in Workers \ {w} : pc[o] \in {"move", "purge"} => file[o] # call[w].file

\* The file's lock is taken, its sidecar read, and the binary moved.
MoveBinary(w) ==
  /\ pc[w] = "delete" /\ FileLockFree(w)
  /\ LET f == call[w].file
     IN  IF ~ Loadable(f)
         THEN Ends(w) /\ UNCHANGED <<binary, trash>>
         ELSE /\ trash' = [trash EXCEPT ![f] = binary[f]]
              /\ binary' = [binary EXCEPT ![f] = None]
              /\ file' = [file EXCEPT ![w] = f]
              /\ Goto(w, "move")
              /\ UNCHANGED <<call, locked, view, doomed, removing>>
  /\ UNCHANGED <<sessions, metadata, origin, time, given, outcomes>>

MoveMetadata(w) ==
  /\ pc[w] = "move"
  /\ metadata' = [metadata EXCEPT ![file[w]] = None]
  /\ Goto(w, "purge")
  /\ UNCHANGED <<sessions, binary, trash, origin, call, locked, view, doomed, removing, file, time,
                 given, outcomes>>

\* Mutant: the transaction directory is removed with what has been moved.
RollbackNothing(w) ==
  trash' = [trash EXCEPT ![file[w]] = None] /\ UNCHANGED binary

\* The except clause: the binary is moved back.
Rollback(w) ==
  /\ binary' = [binary EXCEPT ![file[w]] = trash[file[w]]]
  /\ trash' = [trash EXCEPT ![file[w]] = None]

MoveFails(w) ==
  /\ pc[w] = "move" /\ faults < MaxFaults
  /\ faults' = faults + 1
  /\ Rollback(w)
  /\ Ends(w)
  /\ UNCHANGED <<sessions, metadata, origin, now, given, outcomes>>

Purge(w) ==
  /\ pc[w] = "purge"
  /\ trash' = [trash EXCEPT ![file[w]] = None]
  /\ Ends(w)
  /\ UNCHANGED <<sessions, binary, metadata, origin, time, given, outcomes>>

-------------------------------------------------------------------------------
(* Faults and time *)

\* A write of a part, a manifest, a binary or a sidecar fails: nothing is undone.
WriteFails(w) ==
  /\ pc[w] \in {"write", "save", "decode", "publish", "describe"} /\ faults < MaxFaults
  /\ faults' = faults + 1
  /\ Ends(w)
  /\ UNCHANGED <<sessions, stored, now, given, outcomes>>

\* What a write was about to use has gone: the directory, to another's removal, or the
\* temporary file, whose name is one for all threads, to another who holds another lock
\* of the session; then the content may be the writer's all the same, or neither's.
Disturbed(w) ==
  /\ pc[w] \in {"open", "write", "save"}
  /\ Session(w) \in split \cup {removing[o].session : o \in Workers}
  /\ Ends(w)
  /\ \/ UNCHANGED sessions
     \/ /\ pc[w] = "save" /\ Session(w) \in split
        /\ \E m \in {None, Refreshed(w)} : manifest' = [manifest EXCEPT ![Session(w)] = m]
        /\ UNCHANGED <<fragments, lockFile>>
     \/ /\ pc[w] = "write" /\ Session(w) \in split
        /\ fragments[Session(w)][call[w].index] \in {None, call[w].fragment}
        /\ \E part \in {"bad", call[w].fragment} :
             fragments' = [fragments EXCEPT ![Session(w)][call[w].index] = part]
        /\ UNCHANGED <<manifest, lockFile>>
  /\ UNCHANGED <<stored, time, given, outcomes>>

Restart ==
  /\ faults < MaxFaults
  /\ faults' = faults + 1
  /\ pc' = [w \in Workers |-> "idle"] /\ call' = [w \in Workers |-> NoCall]
  /\ locked' = [w \in Workers |-> None] /\ view' = [w \in Workers |-> None]
  /\ doomed' = [w \in Workers |-> {}] /\ file' = [w \in Workers |-> None]
  /\ removing' = [w \in Workers |-> Removed]
  /\ torn' = torn \cup {file[w] : w \in {v \in Workers : pc[v] = "move"}}
  /\ UNCHANGED <<sessions, stored, now, given, answers, split>>

Tick ==
  /\ now < MaxTicks
  /\ now' = now + 1
  /\ UNCHANGED <<sessions, stored, calls, faults, given, outcomes>>

Step(w) ==
  \/ SweepList(w) \/ SweepVisit(w) \/ SweepEnd(w)
  \/ Removal(w) \/ Expire(w)
  \/ NewSession(w) \/ RefuseFirst(w) \/ OpenLock(w) \/ Load(w) \/ WriteFragment(w)
  \/ SaveManifest(w) \/ ReadPart(w) \/ RefuseContent(w) \/ Publish(w) \/ Describe(w) \/ Complete(w)
  \/ MoveBinary(w) \/ MoveMetadata(w) \/ MoveFails(w) \/ Purge(w)
  \/ WriteFails(w) \/ Disturbed(w)

Next ==
  \/ \E w \in Workers : Step(w) \/ \E c \in Calls : Call(w, c)
  \/ Restart \/ Tick

Spec == Init /\ [][Next]_vars
-------------------------------------------------------------------------------
\* What a sidecar describes is the declared content, whole, whatever parts were sent,
\* repeated or swept meanwhile; no call lists or returns anything else.
StoredWhole ==
  /\ \A f \in Files : binary[f] \in {None, Whole} /\ trash[f] \in {None, Whole}
  /\ \A a \in answers : a.file # None => origin[a.file] = a.session

\* The parts of one session make one file, whatever is repeated, sent at once, swept or
\* cut short, unless a sweep that found the session expired has unlinked its lock file
\* under a call that was refreshing it: then two callers may each make one.
SessionMakesOneFile ==
  \A f, g \in Files : origin[f] \in Sessions \ split /\ origin[f] = origin[g] => f = g

\* "If the second move fails, the first is rolled back" (line 551): a sidecar has its
\* binary, except in the middle of a deletion or after a restart there.
ListedIsStored ==
  \A f \in Files :
    metadata[f] # None /\ binary[f] = None =>
      f \in torn \/ \E w \in Workers : pc[w] = "move" /\ file[w] = f
=================================================================================
