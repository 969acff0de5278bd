------------------------------ MODULE FileExchange ------------------------------
(***************************************************************************)
(* The agent's sender (agent/mcp_file_sender.py) with the file store: a    *)
(* file goes up part by part, then comes down again.                       *)
(*                                                                         *)
(* The agent is a model that runs one command of the script at a time and  *)
(* makes the tool calls the commands print; it may repeat a call, mangle   *)
(* what it copies, lose an answer, or accept it late or twice.             *)
(***************************************************************************)
EXTENDS FileStore

CONSTANTS MaxCalls  \* bound: calls that change something, and mangled answers

VARIABLES
  upload,      \* the upload's state file
  made,        \* how many of those there have been
  download,    \* the download's state file
  responses,   \* the answers of file_get the agent has
  temporary,   \* the .mcp.part file
  output,      \* the downloaded file
  step,        \* where download-accept is: "idle", "appended" or "replaced"
  gotten       \* the response it accepts

local == <<download, responses, temporary, output, step, gotten>>
agent == <<upload, made, local>>

ExInit ==
  /\ Init
  /\ upload = [next |-> 0, session |-> None, file |-> None]
  /\ made = 0 /\ download = None /\ responses = {}
  /\ temporary = None /\ output = None /\ step = "idle" /\ gotten = None

-------------------------------------------------------------------------------
(* Upload *)

\* cmd_next and the call it prints.
SendPart(w) ==
  /\ made < MaxCalls /\ made' = made + 1
  /\ upload.file = None /\ upload.next < Parts
  /\ \E fragment \in {"good", "bad"} :
       Call(w, [op |-> "part", session |-> upload.session, index |-> upload.next,
                fragment |-> fragment])
  /\ UNCHANGED <<upload, local>>

\* Mutant: the answer's session is taken over.
AnySession(a) == TRUE

OfThisSession(a) == upload.session \in {None, a.session}

\* cmd_accept: an answer of the final part, or of a part that is not ahead.
AcceptUpload ==
  /\ \E a \in answers :
       /\ OfThisSession(a)
       /\ a.file = None => a.index <= upload.next
       /\ upload' = [next |-> IF a.file = None /\ a.index = upload.next
                              THEN upload.next + 1 ELSE upload.next,
                     session |-> a.session,
                     file |-> IF a.file = None THEN upload.file ELSE a.file]
  /\ UNCHANGED <<vars, made, local>>

-------------------------------------------------------------------------------
(* Download *)

\* cmd_download_prepare
PrepareDownload(overwrite) ==
  /\ upload.file # None /\ step = "idle"
  /\ (output = None /\ temporary = None) \/ overwrite
  /\ temporary' = None
  /\ download' = [file |-> upload.file, next |-> 0, overwrite |-> overwrite, status |-> "prepared"]
  /\ responses' = {}
  /\ UNCHANGED <<vars, upload, made, output, step, gotten>>

\* cmd_download_next and get_file_part; the agent may mangle what it saves.
GetPart ==
  /\ download # None /\ download.status # "completed"
  /\ Loadable(download.file)
  /\ \E raw \in {FilePart(download.file, download.next), "bad"} :
       /\ raw = "bad" => made < MaxCalls
       /\ made' = made + (IF raw = "bad" THEN 1 ELSE 0)
       /\ responses' = responses \cup {[index |-> download.next, raw |-> raw]}
  /\ UNCHANGED <<vars, upload, download, temporary, output, step, gotten>>

Eof(r) == r.index = Parts - 1
Holds(r) == (IF temporary = None THEN 0 ELSE Len(temporary)) = r.index

\* cmd_download_accept: the part that is due is appended and synced; a temporary file
\* of another length is refused, and an empty one left if there was none.
AppendPart ==
  /\ download # None /\ download.status # "completed" /\ step = "idle"
  /\ \E r \in responses :
       /\ r.index = download.next
       /\ Eof(r) => output = None \/ download.overwrite
       /\ IF Holds(r)
          THEN /\ temporary' = (IF temporary = None THEN <<>> ELSE temporary) \o <<r.raw>>
               /\ step' = "appended" /\ gotten' = r
          ELSE /\ temporary' = IF temporary = None THEN <<>> ELSE temporary
               /\ UNCHANGED <<step, gotten>>
  /\ UNCHANGED <<vars, upload, made, download, responses, output>>

Downloaded == [i \in 1..Parts |-> "good"]

\* Mutant: the last part is installed without the comparison of its digest.
AnyDigest == TRUE

DigestMatches == temporary = Downloaded

\* After the last part: the size and SHA-256, then the replacement.  A mismatch cuts
\* the temporary file back.
InstallOutput ==
  /\ step = "appended" /\ Eof(gotten)
  /\ IF DigestMatches
     THEN /\ output' = temporary /\ temporary' = None
          /\ step' = "replaced" /\ UNCHANGED gotten
     ELSE /\ temporary' = SubSeq(temporary, 1, gotten.index)
          /\ step' = "idle" /\ gotten' = None
          /\ UNCHANGED output
  /\ UNCHANGED <<vars, upload, made, download, responses>>

SaveDownload ==
  /\ step = "replaced" \/ (step = "appended" /\ ~ Eof(gotten))
  /\ download' = [download EXCEPT !.next = @ + 1,
       !.status = IF Eof(gotten) THEN "completed" ELSE "receiving"]
  /\ step' = "idle" /\ gotten' = None
  /\ UNCHANGED <<vars, upload, made, responses, temporary, output>>

\* The save fails: what was appended is cut off again, if the file is still there.
SaveFails ==
  /\ step \in {"appended", "replaced"} /\ faults < MaxFaults
  /\ faults' = faults + 1
  /\ temporary' = IF temporary = None THEN None ELSE SubSeq(temporary, 1, gotten.index)
  /\ step' = "idle" /\ gotten' = None
  /\ UNCHANGED <<sessions, stored, calls, now, given, outcomes,
                 upload, made, download, responses, output>>

\* The script ends between its writes.
ScriptEnds ==
  /\ step # "idle" /\ faults < MaxFaults
  /\ faults' = faults + 1
  /\ step' = "idle" /\ gotten' = None
  /\ UNCHANGED <<sessions, stored, calls, now, given, outcomes,
                 upload, made, download, responses, temporary, output>>

-------------------------------------------------------------------------------
\* Others list the files, delete this one, or begin an upload with a wrong part.
OthersCall(w) ==
  /\ made < MaxCalls /\ made' = made + 1
  /\ \E c \in {[op |-> "list"]} \cup {[op |-> "delete", file |-> f] : f \in given \cap Files}
              \cup {p \in PartCalls : p.session = None /\ p.index # 0 /\ p.fragment = "good"} :
       Call(w, c)
  /\ UNCHANGED <<upload, local>>

StoreStep == (\E w \in Workers : Step(w)) \/ Restart \/ Tick

ExNext ==
  \/ \E w \in Workers : SendPart(w) \/ OthersCall(w)
  \/ StoreStep /\ UNCHANGED agent
  \/ AcceptUpload
  \/ \E overwrite \in BOOLEAN : PrepareDownload(overwrite)
  \/ GetPart \/ AppendPart \/ InstallOutput \/ SaveDownload \/ SaveFails \/ ScriptEnds

ExSpec == ExInit /\ [][ExNext]_<<vars, agent>>
-------------------------------------------------------------------------------
\* What the script calls "verified_sha256": whatever is repeated, mangled, lost
\* or accepted late, the upload ends with a file of its own session, which is whole on
\* the server, and the download with the file that went up.
RoundTripWhole ==
  /\ StoredWhole
  /\ upload.file # None => origin[upload.file] = upload.session
  /\ output # None => output = Downloaded
  /\ download # None /\ download.status = "completed" => output = Downloaded
================================================================================
