-------------------------------- MODULE Downloads --------------------------------
(***************************************************************************)
(* Downloads from the server: the handlers of services/mcp_transfer.py, the *)
(* client's download_file, and the script scripts/mcp_file_parts.py, with   *)
(* which an agent fetches a file part by part and assembles it.            *)
(*                                                                         *)
(* The client and the script's assemble command may run at the same time   *)
(* and for the same local path.  The served file may be replaced or removed *)
(* at any time; a local process may end between any two writes.            *)
(***************************************************************************)
EXTENDS Naturals, Sequences, FiniteSets

CONSTANTS
  None,
  Versions, SizeOf,  \* the contents the served file may have, and their blocks
  Chunk,             \* blocks in a chunk or part
  MaxTransfers, MaxChanges, MaxStops  \* bounds

ASSUME DownloadsAssumption ==
  /\ None \notin Versions /\ SizeOf \in [Versions -> Nat]
  /\ Chunk \in Nat \ {0} /\ MaxTransfers \in Nat \ {0}

VARIABLES
  source,        \* server: the content of the served file, None if it is missing
  transfers,     \* server: the JSON state of each download, by number
  destination,   \* local: the file at the path the user wants it
  part, sidecar, \* local: download_file's .part and state files
  manifest,      \* local: the script's manifest
  parts,         \* local: its .parts directory, by index
  answer,        \* local: the chunk response the agent has saved last
  assembling,    \* local: the .assembling file
  pc, args, xfer, offset,  \* download_file: where it is, its arguments and variables
  apc, aargs,    \* the assemble command, its arguments and the manifest it has loaded
  outcome,       \* how the last download_file ended
  stale,         \* history: the transfers whose source has changed since they began
  changes, stops

server == <<source, transfers>>
client == <<part, sidecar, pc, args, xfer, offset, outcome>>
script == <<manifest, parts, answer>>
assembler == <<assembling, apc, aargs>>
vars == <<server, destination, client, script, assembler, stale, changes, stops>>

Whole(v) == [i \in 1..SizeOf[v] |-> <<v, i>>]
Ids == 1..Len(transfers)
Least(a, b) == IF a < b THEN a ELSE b

Init ==
  /\ source \in Versions /\ transfers = <<>>
  /\ destination = None
  /\ part = None /\ sidecar = None
  /\ manifest = None /\ parts = <<>> /\ answer = None /\ assembling = None
  /\ pc = "idle" /\ args = None /\ xfer = None /\ offset = 0 /\ outcome = "none"
  /\ apc = "idle" /\ aargs = None
  /\ stale = {} /\ changes = 0 /\ stops = 0

-------------------------------------------------------------------------------
(* The server *)

\* download_begin.  The size and the SHA-256 are two reads: a replacement between
\* them (v # source) leaves a state that describes no file.
DownloadBegin(v) ==
  /\ source # None /\ Len(transfers) < MaxTransfers
  /\ v # source => changes < MaxChanges
  /\ transfers' = Append(transfers, [size |-> SizeOf[source], sha |-> v,
                                     offset |-> 0, status |-> "ready"])
  /\ source' = v
  /\ changes' = changes + (IF v = source THEN 0 ELSE 1)
  /\ stale' = IF v = source THEN stale ELSE 1..Len(transfers')

\* Mutant: the last block of the file is left out.
ReadShort(from, limit) ==
  SubSeq(Whole(source), from + 1, Least(from + limit, SizeOf[source] - 1))

\* What download_chunk reads: the file as it is now, from the offset on.
Read(from, limit) ==
  SubSeq(Whole(source), from + 1, Least(from + limit, SizeOf[source]))

\* download_chunk's answer is read-only but for the position it keeps.
Serve(id, from, raw) ==
  LET t == transfers[id]
      end == from + Len(raw)
  IN  transfers' = [transfers EXCEPT ![id] =
        [t EXCEPT !.offset = IF t.offset < end THEN end ELSE t.offset,
                  !.status = IF end >= t.size THEN "completed" ELSE "streaming"]]

SourceChanges ==
  /\ changes < MaxChanges
  /\ changes' = changes + 1
  /\ \E v \in (Versions \cup {None}) \ {source} : source' = v
  /\ stale' = Ids
  /\ UNCHANGED <<transfers, destination, client, script, assembler, stops>>

-------------------------------------------------------------------------------
(* download_file *)

Expected == transfers[xfer]
\* The whole of what the transfer was begun for.
Promised(t) == IF t.size = SizeOf[t.sha] THEN Whole(t.sha) ELSE None

\* download_file returns or raises; its variables are gone.
Ends(o) == pc' = "idle" /\ outcome' = o /\ args' = None /\ offset' = 0

Download(overwrite, resume) ==
  /\ pc = "idle"
  /\ destination = None \/ overwrite
  /\ args' = [overwrite |-> overwrite, resume |-> resume]
  /\ IF resume /\ sidecar # None
     THEN xfer' = sidecar /\ pc' = "open"
     ELSE xfer' = None /\ pc' = "begin"
  /\ outcome' = "none" /\ offset' = 0
  /\ UNCHANGED <<server, destination, part, sidecar, script, assembler, stale, changes, stops>>

Begin ==
  /\ pc = "begin"
  /\ \E v \in Versions : DownloadBegin(v)
  /\ xfer' = Len(transfers')
  /\ part' = None
  /\ pc' = "open"
  /\ UNCHANGED <<destination, sidecar, args, offset, outcome, script, assembler, stops>>

\* The transfer goes on where the part file ends, whatever the state file says.
Open ==
  /\ pc = "open"
  /\ LET have == IF args.resume /\ part # None THEN Len(part) ELSE 0
     IN  IF have > Expected.size
         THEN Ends("larger") /\ UNCHANGED <<part, sidecar>>
         ELSE /\ offset' = have /\ args' = args
              /\ sidecar' = xfer
              /\ part' = IF have = 0 THEN <<>> ELSE part
              /\ pc' = "loop" /\ UNCHANGED outcome
  /\ UNCHANGED <<server, destination, xfer, script, assembler, stale, changes, stops>>

\* Mutant: the position the loop goes on from is the one it has asked for.
NotAdvanced(raw) == offset

NextOffset(raw) == offset + Len(raw)

\* One chunk is fetched, appended and synced, and the state file saved.  An empty
\* answer before the end changes nothing, and is asked for again.
FetchChunk ==
  /\ pc = "loop" /\ offset < Expected.size /\ source # None
  /\ LET raw == Read(offset, Chunk)
         eof == offset + Len(raw) >= Expected.size
     IN  /\ Serve(xfer, offset, raw)
         /\ part' = part \o raw
         /\ IF eof /\ NextOffset(raw) # Expected.size
            THEN Ends("larger")
            ELSE offset' = NextOffset(raw) /\ UNCHANGED <<pc, args, outcome>>
  /\ UNCHANGED <<source, destination, sidecar, xfer, script, assembler, stale, changes,
                 stops>>

\* Mutant: the size alone decides.
SizeMatches == Len(part) = Expected.size

Matches == part = Promised(Expected)

Verify ==
  /\ pc = "loop" /\ offset >= Expected.size
  /\ IF Matches THEN pc' = "unlink" /\ UNCHANGED <<args, offset, outcome>>
     ELSE Ends("mismatch")
  /\ UNCHANGED <<server, destination, part, sidecar, xfer, script, assembler, stale, changes,
                 stops>>

Unlink ==
  /\ pc = "unlink"
  /\ destination' = IF args.overwrite THEN None ELSE destination
  /\ pc' = "replace"
  /\ UNCHANGED <<server, part, sidecar, args, xfer, offset, outcome, script, assembler, stale,
                 changes, stops>>

Replace ==
  /\ pc = "replace"
  /\ destination' = part /\ part' = None
  /\ pc' = "finish"
  /\ UNCHANGED <<server, sidecar, args, xfer, offset, outcome, script, assembler, stale,
                 changes, stops>>

Finish ==
  /\ pc = "finish"
  /\ sidecar' = None
  /\ Ends("receipt")
  /\ UNCHANGED <<server, destination, part, xfer, script, assembler, stale, changes, stops>>

\* A call fails for good, or the process ends: nothing is undone.  The write of a
\* chunk may have been cut short.
Stop ==
  /\ pc # "idle" /\ stops < MaxStops
  /\ stops' = stops + 1
  /\ part' \in {part} \cup
       IF pc = "loop" /\ source # None
       THEN {part \o SubSeq(Read(offset, Chunk), 1, n) : n \in 1..Len(Read(offset, Chunk))}
       ELSE {}
  /\ Ends("stopped")
  /\ UNCHANGED <<server, destination, sidecar, xfer, script, assembler, stale, changes>>

-------------------------------------------------------------------------------
(* The script's commands *)

PartCount(m) == IF m.size = 0 THEN 1 ELSE (m.size + Chunk - 1) \div Chunk
ExpectedPartSize(m, i) ==
  IF PartCount(m) = 1 THEN m.size
  ELSE IF i < PartCount(m) - 1 THEN Chunk ELSE m.size - Chunk * (PartCount(m) - 1)

\* data_download_begin by the agent, and init-download: the parts directory stays.
InitDownload ==
  /\ \E v \in Versions : DownloadBegin(v)
  /\ LET t == transfers'[Len(transfers')]
     IN  manifest' = [xfer |-> Len(transfers'), size |-> t.size, sha |-> t.sha]
  /\ UNCHANGED <<destination, client, parts, answer, assembler, stops>>

\* download-part-payload and the agent's call of data_download_chunk.
FetchPart ==
  /\ manifest # None /\ source # None
  /\ \E i \in 0..(PartCount(manifest) - 1) :
       LET size == ExpectedPartSize(manifest, i)
           raw == Read(i * Chunk, IF size = 0 THEN 1 ELSE size)
       IN  /\ answer' = [index |-> i, raw |-> raw, sha |-> transfers[manifest.xfer].sha]
           /\ Serve(manifest.xfer, i * Chunk, raw)
  /\ UNCHANGED <<source, destination, client, manifest, parts, assembler, stale, changes,
                 stops>>

\* accept-part, by the manifest as it is now.
AcceptPart ==
  /\ manifest # None /\ answer # None
  /\ answer.index < PartCount(manifest)
  /\ Len(answer.raw) = ExpectedPartSize(manifest, answer.index)
  /\ answer.sha = manifest.sha
  /\ answer.index \notin DOMAIN parts
  /\ parts' = [i \in DOMAIN parts \cup {answer.index} |->
                 IF i = answer.index THEN answer.raw ELSE parts[i]]
  /\ UNCHANGED <<server, destination, client, manifest, answer, assembler, stale, changes,
                 stops>>

Assemble(overwrite) ==
  /\ apc = "idle" /\ manifest # None
  /\ destination = None \/ overwrite
  /\ aargs' = [overwrite |-> overwrite, manifest |-> manifest]
  /\ apc' = "wait"
  /\ UNCHANGED <<server, destination, client, script, assembling, stale, changes, stops>>

AssembleEnds == apc' = "idle" /\ aargs' = None

Indices(m) == 0..(PartCount(m) - 1)

\* The parts in the order of their indices.
Joined(m) ==
  LET from[i \in 0..PartCount(m)] ==
        IF i = PartCount(m) THEN <<>> ELSE parts[i] \o from[i + 1]
  IN  from[0]

\* Mutant: only the sizes are compared.
JoinedSizes(m) == TRUE

JoinedMatches(m) == Joined(m) = Promised(m)

\* All parts are there: they are joined and the digest compared.  An exception
\* removes the .assembling file.
Join ==
  /\ apc = "wait"
  /\ LET m == aargs.manifest
     IN  /\ Indices(m) \subseteq DOMAIN parts
         /\ IF /\ \A i \in Indices(m) : Len(parts[i]) = ExpectedPartSize(m, i)
               /\ JoinedMatches(m)
            THEN assembling' = Joined(m) /\ apc' = "unlink" /\ UNCHANGED aargs
            ELSE assembling' = None /\ AssembleEnds
  /\ UNCHANGED <<server, destination, client, script, stale, changes, stops>>

AssembleTimeout ==
  /\ apc = "wait" /\ ~ Indices(aargs.manifest) \subseteq DOMAIN parts
  /\ AssembleEnds
  /\ UNCHANGED <<server, destination, client, script, assembling, stale, changes, stops>>

AssembleUnlink ==
  /\ apc = "unlink"
  /\ destination' = IF aargs.overwrite THEN None ELSE destination
  /\ apc' = "replace"
  /\ UNCHANGED <<server, client, script, assembling, aargs, stale, changes, stops>>

AssembleReplace ==
  /\ apc = "replace"
  /\ destination' = assembling /\ assembling' = None
  /\ AssembleEnds
  /\ UNCHANGED <<server, client, script, stale, changes, stops>>

AssembleStops ==
  /\ apc # "idle" /\ stops < MaxStops
  /\ stops' = stops + 1
  /\ AssembleEnds
  /\ UNCHANGED <<server, destination, client, script, assembling, stale, changes>>

ClientStep == Begin \/ Open \/ FetchChunk \/ Verify \/ Unlink \/ Replace \/ Finish

Next ==
  \/ \E overwrite, resume \in BOOLEAN : Download(overwrite, resume)
  \/ ClientStep \/ Stop \/ SourceChanges
  \/ \E overwrite \in BOOLEAN : Assemble(overwrite)
  \/ InitDownload \/ FetchPart \/ AcceptPart
  \/ Join \/ AssembleTimeout \/ AssembleUnlink \/ AssembleReplace \/ AssembleStops

\* download_file is a coroutine that is always resumed.
Fairness == WF_vars(Open) /\ WF_vars(FetchChunk) /\ WF_vars(Verify)

Spec == Init /\ [][Next]_vars /\ Fairness
-------------------------------------------------------------------------------
\* "TransferIntegrityError" and "integrity mismatch": whatever the served file does
\* meanwhile, what both programs put at the user's path is one whole version of it.
InstalledWhole ==
  destination # None => \E v \in Versions : destination = Whole(v)

\* A download is refused for a mismatch, a surplus or a shortage only if its source has
\* changed since it began: no interruption, torn write or earlier transfer spoils the
\* part file it resumes.
RefusedForCause ==
  outcome \in {"mismatch", "larger"} => xfer \in stale

\* A download in progress ends, unless the served file has become shorter than the
\* download expects: then every answer is empty and none is the last.
DownloadEnds ==
  [](pc = "loop" => <>(\/ pc # "loop" \/ source = None
                       \/ SizeOf[source] < Expected.size))
=================================================================================
