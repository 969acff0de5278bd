---------------------------- MODULE DownloadsProofs ----------------------------
(***************************************************************************)
(* What Downloads keeps for any versions and sizes of the served file, any *)
(* chunk size and any number of transfers, changes and interruptions.      *)
(***************************************************************************)
EXTENDS Downloads, SequenceTheorems, TLAPS

Steps == {"idle", "begin", "open", "loop", "unlink", "replace", "finish"}
States == [size : Nat, sha : Versions, offset : Nat,
           status : {"ready", "streaming", "completed"}]

IsWhole(f) == f = None \/ \E v \in Versions : f = Whole(v)

Blocks(v) == {<<v, i>> : i \in 1..SizeOf[v]}
AllBlocks == UNION {Blocks(v) : v \in Versions}

\* A manifest describes a transfer.
Describes(m) == m.xfer \in Ids /\ m.size \in Nat /\ m.sha \in Versions

TypeInv ==
  /\ source \in Versions \cup {None}
  /\ transfers \in Seq(States)
  /\ stale \subseteq Ids
  /\ pc \in Steps
  /\ sidecar # None => sidecar \in Ids
  /\ pc \notin {"idle", "begin"} => xfer \in Ids
  /\ pc # "idle" => outcome = "none"
  /\ part # None \/ pc = "loop" => part \in Seq(AllBlocks)
  /\ offset \in Nat
  /\ manifest # None => Describes(manifest)
  /\ apc # "idle" => Describes(aargs.manifest)

\* What is about to be installed is whole.
InstallInv ==
  /\ IsWhole(destination)
  /\ pc \in {"unlink", "replace"} => IsWhole(part)
  /\ apc \in {"unlink", "replace"} => IsWhole(assembling)

\* A transfer whose source has not changed describes the served file.
Fresh == Ids \ stale
FreshInv ==
  \A x \in Fresh : /\ source \in Versions
                   /\ transfers[x].sha = source /\ transfers[x].size = SizeOf[source]

BeginningOf(p, v) == Len(p) \in 0..SizeOf[v] /\ p = SubSeq(Whole(v), 1, Len(p))

\* The part file belongs to the transfer of the state file, and to the one a download
\* opens: while that one is fresh, it is a beginning of the served file, and a
\* download goes on at its end.
PartInv ==
  /\ pc = "loop" => sidecar = xfer
  /\ sidecar # None /\ sidecar \in Fresh => part = None \/ BeginningOf(part, source)
  /\ pc = "open" /\ xfer \in Fresh => part = None \/ BeginningOf(part, source)
  /\ pc = "loop" /\ xfer \in Fresh =>
       BeginningOf(part, source) /\ offset = Len(part)

IInv == TypeInv /\ InstallInv /\ FreshInv /\ PartInv /\ RefusedForCause
-------------------------------------------------------------------------------
(* What the server reads. *)

LEMMA WholeFacts ==
  ASSUME NEW v \in Versions
  PROVE  /\ SizeOf[v] \in Nat
         /\ Whole(v) \in Seq(Blocks(v)) /\ Len(Whole(v)) = SizeOf[v]
<1>1. SizeOf[v] \in Nat
  BY DownloadsAssumption
<1>2. Whole(v) \in [1..SizeOf[v] -> Blocks(v)]
  BY DEF Whole, Blocks
<1>. QED  BY <1>1, <1>2

\* A read gives some blocks, none past the end of the file.
LEMMA ReadFacts ==
  ASSUME source \in Versions, NEW from \in Nat, NEW limit \in Int
  PROVE  /\ Read(from, limit) \in Seq(Blocks(source))
         /\ from <= SizeOf[source] => from + Len(Read(from, limit)) <= SizeOf[source]
<1>. DEFINE w == Whole(source)
            end == Least(from + limit, SizeOf[source])
<1>1. w \in Seq(Blocks(source)) /\ Len(w) = SizeOf[source] /\ SizeOf[source] \in Nat
  BY WholeFacts
<1>2. end \in Int /\ end <= SizeOf[source]
  BY <1>1 DEF Least
<1>3. \A i \in (from + 1)..end : w[i] \in Blocks(source)
  <2>. HIDE DEF w, end
  <2>. QED  BY <1>1, <1>2
<1>4. /\ SubSeq(w, from + 1, end) \in Seq(Blocks(source))
      /\ Len(SubSeq(w, from + 1, end)) = IF from + 1 <= end THEN end - (from + 1) + 1 ELSE 0
  <2>. HIDE DEF w, end
  <2>. QED  BY <1>2, <1>3, SubSeqProperties
<1>5. Read(from, limit) = SubSeq(w, from + 1, end)
  BY DEF Read
<1>. QED
  <2>. HIDE DEF w, end
  <2>. QED  BY <1>1, <1>2, <1>4, <1>5

\* A beginning of the served file is a sequence; with what is read at its end, or a
\* part of that, it is a longer beginning.
LEMMA BeginningFacts ==
  ASSUME NEW v \in Versions, NEW p, BeginningOf(p, v)
  PROVE  /\ p \in Seq(Blocks(v)) /\ Len(p) \in Nat /\ Len(p) <= SizeOf[v]
         /\ Len(p) = SizeOf[v] => p = Whole(v)
<1>1. /\ Whole(v) \in Seq(Blocks(v)) /\ Len(Whole(v)) = SizeOf[v] /\ SizeOf[v] \in Nat
      /\ Len(p) \in 0..SizeOf[v] /\ p = SubSeq(Whole(v), 1, Len(p))
  BY WholeFacts DEF BeginningOf
<1>2. SubSeq(Whole(v), 1, Len(p)) \in Seq(Blocks(v))
  <2>1. \A i \in 1..Len(p) : Whole(v)[i] \in Blocks(v)
    BY <1>1
  <2>. QED  BY <1>1, <2>1, SubSeqProperties
<1>3. Len(p) = SizeOf[v] => SubSeq(Whole(v), 1, Len(p)) = Whole(v)
  BY <1>1, SubSeqFull
<1>. QED  BY <1>1, <1>2, <1>3

LEMMA Continued ==
  ASSUME NEW v \in Versions, NEW p, BeginningOf(p, v),
         NEW end \in Nat, Len(p) <= end, end <= SizeOf[v]
  PROVE  /\ BeginningOf(p \o SubSeq(Whole(v), Len(p) + 1, end), v)
         /\ Len(p \o SubSeq(Whole(v), Len(p) + 1, end)) = end
<1>1. /\ Whole(v) \in Seq(Blocks(v)) /\ Len(Whole(v)) = SizeOf[v] /\ SizeOf[v] \in Nat
      /\ Len(p) \in 0..SizeOf[v] /\ p = SubSeq(Whole(v), 1, Len(p))
  BY WholeFacts DEF BeginningOf
<1>2. ASSUME NEW w \in Seq(Blocks(v)), NEW n \in 0..Len(w), NEW m \in n..Len(w)
      PROVE  SubSeq(w, 1, n) \o SubSeq(w, n + 1, m) = SubSeq(w, 1, m)
  <2>1. 1 \in 1..(Len(w) + 1) /\ n \in (1 - 1)..Len(w) /\ m \in n..Len(w)
    OBVIOUS
  <2>. QED  BY <2>1, ConcatAdjacentSubSeq
<1>3. Len(SubSeq(Whole(v), 1, end)) = end
  <2>1. \A i \in 1..end : Whole(v)[i] \in Blocks(v)
    BY <1>1
  <2>. QED  BY <2>1, SubSeqProperties
<1>4. p \o SubSeq(Whole(v), Len(p) + 1, end) = SubSeq(Whole(v), 1, end)
  <2>1. Len(p) \in 0..Len(Whole(v)) /\ end \in Len(p)..Len(Whole(v))
    BY <1>1
  <2>2. SubSeq(Whole(v), 1, Len(p)) \o SubSeq(Whole(v), Len(p) + 1, end)
          = SubSeq(Whole(v), 1, end)
    BY <1>1, <1>2, <2>1
  <2>. QED  BY <1>1, <2>2
<1>5. SizeOf[v] \in Nat
  BY <1>1
<1>6. ASSUME NEW q, q = SubSeq(Whole(v), 1, end)
      PROVE  BeginningOf(q, v) /\ Len(q) = end
  <2>1. Len(q) = end
    BY <1>3, <1>6
  <2>2. Len(q) \in 0..SizeOf[v]
    BY <1>5, <2>1
  <2>. QED  BY <1>6, <2>1, <2>2 DEF BeginningOf
<1>. QED  BY <1>4, <1>6

\* The beginning of a read is a shorter read.
LEMMA ReadContinues ==
  ASSUME source \in Versions, NEW p, BeginningOf(p, source),
         NEW n \in 0..Len(Read(Len(p), Chunk))
  PROVE  /\ BeginningOf(p \o SubSeq(Read(Len(p), Chunk), 1, n), source)
         /\ BeginningOf(p \o Read(Len(p), Chunk), source)
         /\ Len(p \o Read(Len(p), Chunk)) = Len(p) + Len(Read(Len(p), Chunk))
<1>. DEFINE w == Whole(source)
            end == Least(Len(p) + Chunk, SizeOf[source])
            r == Read(Len(p), Chunk)
<1>1. /\ w \in Seq(Blocks(source)) /\ Len(w) = SizeOf[source] /\ SizeOf[source] \in Nat
      /\ Len(p) \in Nat /\ Len(p) <= SizeOf[source]
  BY WholeFacts, BeginningFacts
<1>2. Chunk \in Nat
  BY DownloadsAssumption
<1>3. end \in Nat /\ Len(p) <= end /\ end <= SizeOf[source]
  BY <1>1, <1>2 DEF Least
<1>4. r = SubSeq(w, Len(p) + 1, end)
  BY DEF Read
<1>5. r \in Seq(Blocks(source)) /\ Len(r) = end - Len(p)
  <2>1. \A i \in (Len(p) + 1)..end : w[i] \in Blocks(source)
    <3>. HIDE DEF w, end
    <3>. QED  BY <1>1, <1>3
  <2>. HIDE DEF w, end, r
  <2>. QED  BY <1>1, <1>3, <1>4, <2>1, SubSeqProperties
<1>6. SubSeq(r, 1, n) = SubSeq(w, Len(p) + 1, Len(p) + n)
  <2>. HIDE DEF w, end, r
  <2>0. n \in 0..Len(r)
    BY DEF r
  <2>1. CASE n = 0
    <3>1. SubSeq(r, 1, n) = <<>> /\ SubSeq(w, Len(p) + 1, Len(p) + n) = <<>>
      BY <1>1, <2>1, SubSeqEmpty
    <3>. QED  BY <3>1
  <2>2. CASE n > 0
    <3>1. /\ Len(p) + 1 \in 1..Len(w) /\ end \in 1..Len(w)
          /\ 1 \in 1..(end - (Len(p) + 1) + 1) /\ n \in 1..(end - (Len(p) + 1) + 1)
          /\ Len(p) + 1 + 1 - 1 = Len(p) + 1 /\ Len(p) + 1 + n - 1 = Len(p) + n
      BY <1>1, <1>3, <1>5, <2>0, <2>2
    <3>2. SubSeq(SubSeq(w, Len(p) + 1, end), 1, n)
            = SubSeq(w, Len(p) + 1 + 1 - 1, Len(p) + 1 + n - 1)
      BY <1>1, <3>1, SubSeqOfSubSeq
    <3>. QED  BY <1>4, <3>1, <3>2
  <2>. QED  BY <2>0, <2>1, <2>2
<1>7. BeginningOf(p \o SubSeq(w, Len(p) + 1, Len(p) + n), source)
  <2>1. Len(p) + n \in Nat /\ Len(p) <= Len(p) + n /\ Len(p) + n <= SizeOf[source]
    <3>1. n \in 0..Len(r)
      BY DEF r
    <3>. HIDE DEF w, end, r
    <3>. QED  BY <1>1, <1>3, <1>5, <3>1
  <2>. QED  BY <2>1, Continued
<1>8. BeginningOf(p \o r, source) /\ Len(p \o r) = end
  <2>1. BeginningOf(p \o SubSeq(w, Len(p) + 1, end), source)
        /\ Len(p \o SubSeq(w, Len(p) + 1, end)) = end
    <3>. HIDE DEF end
    <3>. QED  BY <1>3, Continued
  <2>. HIDE DEF r
  <2>. QED  BY <1>4, <2>1
<1>9. Len(p) + Len(r) = end
  <2>. HIDE DEF w, end, r
  <2>. QED  BY <1>1, <1>3, <1>5
<1>. QED  BY <1>6, <1>7, <1>8, <1>9

-------------------------------------------------------------------------------
(* The server's steps. *)

LEMMA InitInv == Init => IInv
<1>1. SUFFICES ASSUME Init PROVE IInv
  OBVIOUS
<1>2. transfers = <<>> /\ transfers \in Seq(States) /\ Ids = {} /\ stale = {}
  BY <1>1 DEF Init, Ids
<1>3. TypeInv
  BY <1>1, <1>2 DEF Init, TypeInv, Steps
<1>4. InstallInv /\ FreshInv /\ PartInv /\ RefusedForCause
  BY <1>1, <1>2 DEF Init, InstallInv, IsWhole, FreshInv, Fresh, PartInv, RefusedForCause
<1>. QED  BY <1>3, <1>4 DEF IInv

\* Transfers are only added, and keep what they were begun for; one that is fresh was
\* fresh before or is new, and the source is what it was.
ServerKept ==
  /\ source' \in Versions \cup {None}
  /\ transfers' \in Seq(States) /\ Ids \subseteq Ids'
  /\ \A x \in Ids : /\ transfers'[x].sha = transfers[x].sha
                    /\ transfers'[x].size = transfers[x].size
  /\ stale \subseteq stale' /\ stale' \subseteq Ids'
  /\ \A x \in Ids \cap Fresh' : x \in Fresh /\ source' = source
  /\ FreshInv'

LEMMA BeginStep ==
  ASSUME IInv, NEW v \in Versions, DownloadBegin(v)
  PROVE  /\ ServerKept
         /\ Len(transfers') \in Ids' /\ Len(transfers') \notin Ids
         /\ transfers'[Len(transfers')].sha \in Versions
<1>. DEFINE new == [size |-> SizeOf[source], sha |-> v, offset |-> 0, status |-> "ready"]
            n == Len(transfers)
<1>1. /\ transfers \in Seq(States) /\ n \in Nat /\ source \in Versions /\ stale \subseteq 1..n
      /\ transfers' = Append(transfers, new) /\ source' = v
      /\ stale' = IF v = source THEN stale ELSE 1..Len(transfers')
  BY DEF IInv, TypeInv, DownloadBegin, Ids
<1>2. new \in States
  BY <1>1, DownloadsAssumption DEF States
<1>3. /\ transfers' \in Seq(States) /\ Len(transfers') = n + 1
      /\ \A x \in 1..n : transfers'[x] = transfers[x]
      /\ transfers'[n + 1] = new
  <2>. HIDE DEF new
  <2>. QED  BY <1>1, <1>2, AppendProperties
<1>4. Ids = 1..n /\ Ids' = 1..(n + 1)
  BY <1>3 DEF Ids
<1>5. Ids \subseteq Ids' /\ n + 1 \in Ids' /\ n + 1 \notin Ids
  BY <1>1, <1>4
<1>6. stale \subseteq stale' /\ stale' \subseteq Ids'
  BY <1>1, <1>3, <1>4, <1>5
<1>7. ASSUME NEW x \in Fresh'
      PROVE  v = source /\ (x \in Fresh \/ x = n + 1)
  <2>1. x \in Ids' /\ x \notin stale'
    BY <1>7 DEF Fresh
  <2>2. v = source
    BY <1>1, <1>3, <1>4, <2>1
  <2>. QED  BY <1>1, <1>4, <2>1, <2>2 DEF Fresh
<1>8. FreshInv'
  <2>1. ASSUME NEW x \in Fresh'
        PROVE  transfers'[x].sha = source' /\ transfers'[x].size = SizeOf[source']
    <3>1. CASE x \in Fresh
      <4>1. transfers'[x] = transfers[x]
        BY <1>3, <1>4, <3>1 DEF Fresh
      <4>. QED  BY <1>1, <1>7, <2>1, <3>1, <4>1 DEF IInv, FreshInv
    <3>2. CASE x = n + 1
      BY <1>1, <1>3, <1>7, <2>1, <3>2
    <3>. QED  BY <1>7, <2>1, <3>1, <3>2
  <2>. QED  BY <1>1, <2>1 DEF FreshInv
<1>9. \A x \in Ids \cap Fresh' : x \in Fresh /\ source' = source
  BY <1>1, <1>5, <1>7
<1>10. \A x \in Ids : transfers'[x] = transfers[x]
  BY <1>3, <1>4
<1>11. source' \in Versions
  BY <1>1
<1>12. new.sha = v /\ Len(transfers') = n + 1 /\ transfers'[n + 1] = new
  BY <1>3
<1>. HIDE DEF new, n
<1>13. ServerKept
  BY <1>3, <1>5, <1>6, <1>8, <1>9, <1>10, <1>11 DEF ServerKept
<1>. QED  BY <1>5, <1>12, <1>13

LEMMA ServeStep ==
  ASSUME IInv, NEW id \in Ids, NEW from \in Nat, NEW raw, Len(raw) \in Nat,
         Serve(id, from, raw), source' = source, stale' = stale
  PROVE  ServerKept
<1>. DEFINE t == transfers[id]
            end == from + Len(raw)
            farthest == IF t.offset < end THEN end ELSE t.offset
            state == IF end >= t.size THEN "completed" ELSE "streaming"
            u == [t EXCEPT !.offset = farthest, !.status = state]
<1>1. transfers \in Seq(States) /\ Ids = 1..Len(transfers) /\ Len(transfers) \in Nat
  BY DEF IInv, TypeInv, Ids
<1>2. t \in States
  BY <1>1
<1>3. u \in States /\ u.sha = t.sha /\ u.size = t.size
  <2>1. farthest \in Nat /\ state \in {"completed", "streaming"}
    BY <1>2 DEF States
  <2>. HIDE DEF t, farthest, state
  <2>. QED  BY <1>2, <2>1 DEF States
<1>4. transfers' = [transfers EXCEPT ![id] = u]
  BY DEF Serve
<1>5. /\ transfers' \in Seq(States) /\ Len(transfers') = Len(transfers)
      /\ \A x \in Ids : transfers'[x] = IF x = id THEN u ELSE transfers[x]
  <2>. HIDE DEF u
  <2>. QED  BY <1>1, <1>3, <1>4
<1>6. \A x \in Ids : /\ transfers'[x].sha = transfers[x].sha
                     /\ transfers'[x].size = transfers[x].size
  <2>. HIDE DEF u
  <2>. QED  BY <1>3, <1>5
<1>7. Ids' = Ids /\ Fresh' = Fresh
  <2>1. Ids' = Ids
    BY <1>5 DEF Ids
  <2>. QED  BY <2>1 DEF Fresh
<1>8. FreshInv'
  <2>. HIDE DEF u, t
  <2>. QED  BY <1>6, <1>7 DEF IInv, FreshInv, Fresh
<1>9. source \in Versions \cup {None} /\ stale \subseteq Ids
  BY DEF IInv, TypeInv
<1>. HIDE DEF u, t
<1>. QED  BY <1>5, <1>6, <1>7, <1>8, <1>9 DEF ServerKept

\* Steps of a client that leave the server alone.
LEMMA QuietServer ==
  ASSUME IInv, UNCHANGED <<source, transfers, stale>>
  PROVE  ServerKept
<1>1. Ids' = Ids /\ Fresh' = Fresh
  BY DEF Ids, Fresh
<1>. QED  BY <1>1 DEF ServerKept, IInv, TypeInv, FreshInv

LEMMA SourceStep ==
  ASSUME IInv, SourceChanges
  PROVE  ServerKept
<1>1. /\ source' \in Versions \cup {None} /\ transfers' = transfers /\ stale' = Ids
  BY DEF SourceChanges, server
<1>2. Ids' = Ids /\ Fresh' = {}
  BY <1>1 DEF Ids, Fresh
<1>. QED  BY <1>1, <1>2 DEF ServerKept, IInv, TypeInv, FreshInv

LEMMA FetchServes ==
  ASSUME IInv, FetchChunk
  PROVE  /\ ServerKept
         /\ source \in Versions /\ offset \in Nat
         /\ Len(Read(offset, Chunk)) \in Nat
<1>1. source \in Versions /\ offset \in Nat /\ xfer \in Ids
  BY DEF FetchChunk, IInv, TypeInv
<1>2. Read(offset, Chunk) \in Seq(Blocks(source))
  BY <1>1, ReadFacts, DownloadsAssumption
<1>3. Len(Read(offset, Chunk)) \in Nat
  BY <1>2
<1>4. Serve(xfer, offset, Read(offset, Chunk)) /\ source' = source /\ stale' = stale
  BY DEF FetchChunk
<1>. QED  BY <1>1, <1>3, <1>4, ServeStep

LEMMA FetchPartServes ==
  ASSUME IInv, FetchPart
  PROVE  ServerKept
<1>1. source \in Versions /\ manifest.xfer \in Ids /\ manifest.size \in Nat
  BY DEF FetchPart, IInv, TypeInv, Describes
<1>2. PICK i \in 0..(PartCount(manifest) - 1) :
        Serve(manifest.xfer, i * Chunk,
              Read(i * Chunk, IF ExpectedPartSize(manifest, i) = 0 THEN 1
                              ELSE ExpectedPartSize(manifest, i)))
  BY DEF FetchPart
<1>. DEFINE size == ExpectedPartSize(manifest, i)
            raw == Read(i * Chunk, IF size = 0 THEN 1 ELSE size)
<1>3. i * Chunk \in Nat
  BY DownloadsAssumption
<1>4. size \in Int
  <2>1. PartCount(manifest) \in Int
    BY <1>1, DownloadsAssumption DEF PartCount
  <2>. QED  BY <1>1, <2>1, DownloadsAssumption DEF ExpectedPartSize
<1>5. Len(raw) \in Nat
  <2>. DEFINE limit == IF size = 0 THEN 1 ELSE size
  <2>1. limit \in Int
    BY <1>4
  <2>2. Read(i * Chunk, limit) \in Seq(Blocks(source))
    <3>. HIDE DEF limit
    <3>. QED  BY <1>1, <1>3, <2>1, ReadFacts
  <2>. QED  BY <2>2
<1>6. source' = source /\ stale' = stale
  BY DEF FetchPart
<1>. HIDE DEF raw
<1>. QED  BY <1>1, <1>2, <1>3, <1>5, <1>6, ServeStep DEF raw

LEMMA ServerStep ==
  ASSUME IInv, [Next]_vars
  PROVE  ServerKept
<1>1. CASE Begin \/ InitDownload
  BY <1>1, BeginStep DEF Begin, InitDownload
<1>2. CASE FetchChunk
  BY <1>2, FetchServes
<1>3. CASE FetchPart
  BY <1>3, FetchPartServes
<1>4. CASE SourceChanges
  BY <1>4, SourceStep
<1>5. CASE ~ (Begin \/ InitDownload \/ FetchChunk \/ FetchPart \/ SourceChanges)
  <2>1. UNCHANGED <<source, transfers, stale>>
    BY <1>5 DEF Next, ClientStep, vars, server, Download, Open, Verify, Unlink, Replace,
       Finish, Stop, Assemble, AcceptPart, Join, AssembleTimeout, AssembleUnlink,
       AssembleReplace, AssembleStops
  <2>. QED  BY <2>1, QuietServer
<1>. QED  BY <1>1, <1>2, <1>3, <1>4, <1>5

-------------------------------------------------------------------------------
(* The part file, and where a download goes on. *)

LEMMA BlocksOfAll ==
  ASSUME NEW v \in Versions
  PROVE  Seq(Blocks(v)) \subseteq Seq(AllBlocks)
<1>1. Blocks(v) \subseteq AllBlocks
  BY DEF AllBlocks
<1>. QED  BY <1>1

LEMMA PartTyped ==
  ASSUME IInv, [Next]_vars
  PROVE  part' # None \/ pc' = "loop" => part' \in Seq(AllBlocks)
<1>1. CASE FetchChunk
  <2>1. /\ pc = "loop" /\ part' = part \o Read(offset, Chunk)
        /\ source \in Versions /\ offset \in Nat /\ Chunk \in Int
    BY <1>1, FetchServes, DownloadsAssumption DEF FetchChunk
  <2>2. Read(offset, Chunk) \in Seq(AllBlocks)
    BY <2>1, ReadFacts, BlocksOfAll
  <2>3. part \in Seq(AllBlocks)
    BY <2>1 DEF IInv, TypeInv
  <2>. QED  BY <2>1, <2>2, <2>3, ConcatProperties
<1>2. CASE Stop
  <2>1. pc' = "idle"
    BY <1>2 DEF Stop, Ends
  <2>2. CASE part' = part
    BY <2>1, <2>2 DEF IInv, TypeInv
  <2>3. CASE part' # part
    <3>1. /\ pc = "loop" /\ source # None
          /\ \E n \in 1..Len(Read(offset, Chunk)) :
               part' = part \o SubSeq(Read(offset, Chunk), 1, n)
      BY <1>2, <2>3 DEF Stop
    <3>2. source \in Versions /\ offset \in Nat /\ Chunk \in Int
      BY <3>1, DownloadsAssumption DEF IInv, TypeInv
    <3>3. Read(offset, Chunk) \in Seq(AllBlocks)
      BY <3>2, ReadFacts, BlocksOfAll
    <3>4. PICK n \in 1..Len(Read(offset, Chunk)) :
                 part' = part \o SubSeq(Read(offset, Chunk), 1, n)
      BY <3>1
    <3>5. SubSeq(Read(offset, Chunk), 1, n) \in Seq(AllBlocks)
      <4>1. \A i \in 1..n : Read(offset, Chunk)[i] \in AllBlocks
        BY <3>3
      <4>. QED  BY <4>1, SubSeqProperties
    <3>6. part \in Seq(AllBlocks)
      BY <3>1 DEF IInv, TypeInv
    <3>. QED  BY <3>4, <3>5, <3>6, ConcatProperties
  <2>. QED  BY <2>2, <2>3
<1>3. CASE Open
  <2>1. part' = part \/ part' = <<>>
    BY <1>3 DEF Open
  <2>2. pc' = "loop" => part' # None \/ part' = <<>>
    BY <1>3 DEF Open, Ends
  <2>3. <<>> \in Seq(AllBlocks)
    OBVIOUS
  <2>. QED  BY <2>1, <2>2, <2>3 DEF IInv, TypeInv
<1>4. CASE Begin \/ Replace
  BY <1>4 DEF Begin, Replace
<1>5. CASE ~ (FetchChunk \/ Stop \/ Open \/ Begin \/ Replace)
  <2>1. part' = part /\ (pc' = "loop" => pc = "loop")
    BY <1>5 DEF Next, ClientStep, vars, client, Download, Ends, Verify, Unlink, Finish,
       SourceChanges, InitDownload, FetchPart, AcceptPart, Assemble, Join,
       AssembleTimeout, AssembleUnlink, AssembleReplace, AssembleStops
  <2>. QED  BY <2>1 DEF IInv, TypeInv
<1>. QED  BY <1>1, <1>2, <1>3, <1>4, <1>5

LEMMA OffsetTyped ==
  ASSUME IInv, [Next]_vars
  PROVE  offset' \in Nat
<1>1. CASE FetchChunk
  <2>1. offset \in Nat /\ Len(Read(offset, Chunk)) \in Nat
    BY <1>1, FetchServes
  <2>2. offset' = 0 \/ offset' = NextOffset(Read(offset, Chunk))
    BY <1>1 DEF FetchChunk, Ends
  <2>. QED  BY <2>1, <2>2 DEF NextOffset
<1>2. CASE Open
  <2>1. part # None => Len(part) \in Nat
    BY DEF IInv, TypeInv
  <2>. QED  BY <1>2, <2>1 DEF Open, Ends
<1>3. CASE ~ (FetchChunk \/ Open)
  <2>1. offset' = offset \/ offset' = 0
    BY <1>3 DEF Next, ClientStep, vars, client, Download, Begin, Ends, Verify, Unlink,
       Replace, Finish, Stop, SourceChanges, InitDownload, FetchPart, AcceptPart, Assemble,
       Join, AssembleTimeout, AssembleUnlink, AssembleReplace, AssembleStops
  <2>. QED  BY <2>1 DEF IInv, TypeInv
<1>. QED  BY <1>1, <1>2, <1>3

\* The transfer of a download, and that of the state file, exist.
LEMMA TransferTyped ==
  ASSUME IInv, [Next]_vars
  PROVE  /\ pc' \in Steps
         /\ sidecar' # None => sidecar' \in Ids'
         /\ pc' \notin {"idle", "begin"} => xfer' \in Ids'
<1>. USE DEF Steps
<1>1. Ids \subseteq Ids'
  BY ServerStep DEF ServerKept
<1>2. CASE Begin
  <2>1. Len(transfers') \in Ids'
    BY <1>2, BeginStep DEF Begin
  <2>. QED  BY <1>1, <1>2, <2>1 DEF Begin, IInv, TypeInv
<1>3. CASE \E overwrite, resume \in BOOLEAN : Download(overwrite, resume)
  BY <1>1, <1>3 DEF Download, IInv, TypeInv
<1>4. CASE Open \/ Stop \/ Finish
  BY <1>1, <1>4 DEF Open, Stop, Finish, Ends, IInv, TypeInv
<1>5. CASE FetchChunk \/ Verify \/ Unlink \/ Replace
  BY <1>1, <1>5 DEF FetchChunk, Verify, Unlink, Replace, Ends, IInv, TypeInv
<1>6. CASE UNCHANGED client
  BY <1>1, <1>6 DEF client, IInv, TypeInv
<1>. QED
  <2>1. \/ UNCHANGED client \/ ClientStep \/ Stop
        \/ \E overwrite, resume \in BOOLEAN : Download(overwrite, resume)
    BY DEF Next, vars, SourceChanges, InitDownload, FetchPart, AcceptPart, Assemble,
       Join, AssembleTimeout, AssembleUnlink, AssembleReplace, AssembleStops
  <2>. QED  BY <1>2, <1>3, <1>4, <1>5, <1>6, <2>1 DEF ClientStep

LEMMA ManifestTyped ==
  ASSUME IInv, [Next]_vars
  PROVE  /\ manifest' # None => Describes(manifest)'
         /\ apc' # "idle" => Describes(aargs.manifest)'
<1>1. Ids \subseteq Ids' /\ transfers' \in Seq(States)
  BY ServerStep DEF ServerKept
<1>2. \A m : Describes(m) => m.xfer \in Ids' /\ m.size \in Nat /\ m.sha \in Versions
  BY <1>1 DEF Describes
<1>3. CASE InitDownload
  <2>1. Len(transfers') \in Ids' /\ transfers'[Len(transfers')].sha \in Versions
    BY <1>3, BeginStep DEF InitDownload
  <2>2. transfers'[Len(transfers')] \in States
    BY <1>1, <2>1 DEF Ids
  <2>3. /\ manifest' = [xfer |-> Len(transfers'), size |-> transfers'[Len(transfers')].size,
                        sha |-> transfers'[Len(transfers')].sha]
        /\ apc' = apc /\ aargs' = aargs
    BY <1>3 DEF InitDownload, assembler
  <2>4. Describes(manifest)'
    BY <2>1, <2>2, <2>3 DEF Describes, States
  <2>. QED  BY <1>2, <2>3, <2>4 DEF Describes, IInv, TypeInv
<1>4. CASE \E overwrite \in BOOLEAN : Assemble(overwrite)
  <2>1. /\ manifest' = manifest /\ manifest # None /\ aargs'.manifest = manifest
    BY <1>4 DEF Assemble, script
  <2>. QED  BY <1>2, <2>1 DEF Describes, IInv, TypeInv
<1>5. CASE ~ (InitDownload \/ \E overwrite \in BOOLEAN : Assemble(overwrite))
  <2>1. manifest' = manifest /\ (apc' # "idle" => apc # "idle" /\ aargs' = aargs)
    BY <1>5 DEF Next, ClientStep, vars, script, assembler, Download, Begin, Open,
       FetchChunk, Verify, Unlink, Replace, Finish, Stop, SourceChanges, FetchPart,
       AcceptPart, Join, AssembleTimeout, AssembleUnlink, AssembleReplace, AssembleStops,
       AssembleEnds
  <2>. QED  BY <1>2, <2>1 DEF Describes, IInv, TypeInv
<1>. QED  BY <1>3, <1>4, <1>5

LEMMA OutcomeTyped ==
  ASSUME IInv, [Next]_vars
  PROVE  pc' # "idle" => outcome' = "none"
BY DEF IInv, TypeInv, Next, ClientStep, vars, client, Download, Begin, Open, FetchChunk,
   Verify, Unlink, Replace, Finish, Stop, Ends, SourceChanges, InitDownload, FetchPart,
   AcceptPart, Assemble, Join, AssembleTimeout, AssembleUnlink, AssembleReplace,
   AssembleStops

LEMMA TypeStep ==
  ASSUME IInv, [Next]_vars
  PROVE  TypeInv'
BY ServerStep, PartTyped, OffsetTyped, TransferTyped, ManifestTyped, OutcomeTyped
   DEF ServerKept, TypeInv

-------------------------------------------------------------------------------
(* What is installed. *)

LEMMA PromisedWhole ==
  ASSUME NEW t, t.sha \in Versions
  PROVE  IsWhole(Promised(t))
BY DEF Promised, IsWhole

LEMMA InstallStep ==
  ASSUME IInv, [Next]_vars
  PROVE  InstallInv'
<1>. USE DEF InstallInv
<1>1. IsWhole(None)
  BY DEF IsWhole
<1>2. CASE Verify
  <2>1. transfers[xfer] \in States
    BY <1>2 DEF Verify, IInv, TypeInv, Ids
  <2>2. IsWhole(Promised(Expected))
    BY <2>1, PromisedWhole DEF Expected, States
  <2>3. /\ part' = part /\ ((pc' = "unlink" /\ part = Promised(Expected)) \/ pc' = "idle")
        /\ destination' = destination /\ apc' = apc /\ assembling' = assembling
    BY <1>2 DEF Verify, Matches, Ends, assembler
  <2>. QED  BY <2>2, <2>3 DEF IInv, IsWhole
<1>3. CASE Unlink \/ Replace
  <2>1. /\ IsWhole(destination')
        /\ pc' \in {"unlink", "replace"} => IsWhole(part')
        /\ apc' = apc /\ assembling' = assembling
    BY <1>1, <1>3 DEF Unlink, Replace, IInv, assembler
  <2>. QED  BY <2>1 DEF IInv, IsWhole
<1>4. CASE Join
  <2>1. IsWhole(Promised(aargs.manifest))
    BY <1>4, PromisedWhole DEF Join, IInv, TypeInv, Describes
  <2>2. /\ apc' = "idle" \/ assembling' = Promised(aargs.manifest)
        /\ destination' = destination /\ pc' = pc /\ part' = part
    BY <1>4 DEF Join, JoinedMatches, AssembleEnds, client
  <2>. QED  BY <2>1, <2>2 DEF IInv, IsWhole
<1>5. CASE AssembleUnlink \/ AssembleReplace
  <2>1. /\ IsWhole(destination')
        /\ apc' \in {"unlink", "replace"} => IsWhole(assembling')
        /\ pc' = pc /\ part' = part
    BY <1>1, <1>5 DEF AssembleUnlink, AssembleReplace, AssembleEnds, IInv, client
  <2>. QED  BY <2>1 DEF IInv, IsWhole
<1>6. CASE ~ (Verify \/ Unlink \/ Replace \/ Join \/ AssembleUnlink \/ AssembleReplace)
  <2>1. /\ destination' = destination
        /\ pc' \in {"unlink", "replace"} => pc' = pc /\ part' = part
        /\ apc' \in {"unlink", "replace"} => apc' = apc /\ assembling' = assembling
    BY <1>6 DEF Next, ClientStep, vars, client, assembler, Download, Begin, Open,
       FetchChunk, Finish, Stop, Ends, SourceChanges, InitDownload, FetchPart, AcceptPart,
       Assemble, AssembleTimeout, AssembleStops, AssembleEnds
  <2>. QED  BY <2>1 DEF IInv, IsWhole
<1>. QED  BY <1>2, <1>3, <1>4, <1>5, <1>6

-------------------------------------------------------------------------------
(* The part file of a fresh transfer. *)

LEMMA FreshFacts ==
  ASSUME IInv, NEW x \in Fresh
  PROVE  /\ x \in Ids /\ source \in Versions /\ source # None
         /\ transfers[x].size = SizeOf[source] /\ transfers[x].sha = source
         /\ Promised(transfers[x]) = Whole(source)
<1>1. /\ x \in Ids /\ source \in Versions
      /\ transfers[x].size = SizeOf[source] /\ transfers[x].sha = source
  BY DEF IInv, FreshInv, Fresh
<1>. QED  BY <1>1, DownloadsAssumption DEF Promised

\* What a fresh transfer's download fetches makes its part file a longer beginning,
\* and is not too long.
LEMMA FetchFresh ==
  ASSUME IInv, FetchChunk, xfer \in Fresh
  PROVE  /\ pc' = "loop" /\ outcome' = outcome /\ BeginningOf(part', source)
         /\ offset' = Len(part')
<1>. DEFINE raw == Read(offset, Chunk)
<1>1. /\ pc = "loop" /\ offset < Expected.size /\ part' = part \o raw
      /\ IF offset + Len(raw) >= Expected.size /\ NextOffset(raw) # Expected.size
         THEN Ends("larger")
         ELSE offset' = NextOffset(raw) /\ UNCHANGED <<pc, args, outcome>>
  BY DEF FetchChunk
<1>2. source \in Versions /\ Expected.size = SizeOf[source] /\ SizeOf[source] \in Nat
  BY FreshFacts, WholeFacts DEF Expected
<1>3. BeginningOf(part, source) /\ offset = Len(part) /\ offset \in Nat
  BY <1>1 DEF IInv, PartInv, TypeInv
<1>4. raw \in Seq(Blocks(source)) /\ Chunk \in Nat
  BY <1>2, <1>3, ReadFacts, DownloadsAssumption
<1>5. Len(raw) \in Nat /\ offset + Len(raw) <= SizeOf[source]
  <2>1. Len(raw) \in Nat
    <3>. HIDE DEF raw
    <3>. QED  BY <1>4
  <2>2. offset <= SizeOf[source] => offset + Len(Read(offset, Chunk)) <= SizeOf[source]
    <3>1. source \in Versions /\ offset \in Nat /\ Chunk \in Int
      BY <1>2, <1>3, <1>4
    <3>. QED  BY <3>1, ReadFacts
  <2>. QED
    <3>. HIDE DEF raw
    <3>1. offset <= SizeOf[source]
      BY <1>1, <1>2, <1>3
    <3>. QED  BY <2>1, <2>2, <3>1 DEF raw
<1>6. BeginningOf(part \o raw, source) /\ Len(part \o raw) = offset + Len(raw)
  <2>1. 0 \in 0..Len(raw)
    <3>. HIDE DEF raw
    <3>. QED  BY <1>5
  <2>. QED  BY <1>2, <1>3, <2>1, ReadContinues
<1>. HIDE DEF raw
<1>7. ~ (offset + Len(raw) >= Expected.size /\ NextOffset(raw) # Expected.size)
  BY <1>2, <1>3, <1>5 DEF NextOffset
<1>. QED  BY <1>1, <1>6, <1>7 DEF NextOffset

\* What a write that was cut short leaves is a beginning too.
LEMMA StopFresh ==
  ASSUME IInv, Stop, pc = "loop" => sidecar \in Fresh /\ sidecar # None,
         part = None \/ BeginningOf(part, source)
  PROVE  part' = None \/ BeginningOf(part', source)
<1>1. CASE part' = part
  BY <1>1
<1>2. CASE part' # part
  <2>1. /\ pc = "loop" /\ source # None
        /\ \E n \in 1..Len(Read(offset, Chunk)) :
             part' = part \o SubSeq(Read(offset, Chunk), 1, n)
    BY <1>2 DEF Stop
  <2>2. PICK n \in 1..Len(Read(offset, Chunk)) :
               part' = part \o SubSeq(Read(offset, Chunk), 1, n)
    BY <2>1
  <2>3. source \in Versions /\ BeginningOf(part, source) /\ offset = Len(part)
    BY <2>1 DEF IInv, PartInv, TypeInv
  <2>4. n \in 0..Len(Read(Len(part), Chunk))
    BY <2>2, <2>3
  <2>. QED  BY <2>2, <2>3, <2>4, ReadContinues
<1>. QED  BY <1>1, <1>2

\* A download that opens a fresh transfer goes on at the end of the beginning it has.
LEMMA OpenFresh ==
  ASSUME IInv, Open, xfer \in Fresh
  PROVE  /\ pc' = "loop" /\ outcome' = outcome /\ sidecar' = xfer
         /\ BeginningOf(part', source) /\ offset' = Len(part')
<1>. DEFINE have == IF args.resume /\ part # None THEN Len(part) ELSE 0
<1>1. /\ source \in Versions /\ Expected.size = SizeOf[source] /\ SizeOf[source] \in Nat
      /\ Whole(source) \in Seq(Blocks(source)) /\ Len(Whole(source)) = SizeOf[source]
  BY FreshFacts, WholeFacts DEF Expected
<1>2. part = None \/ BeginningOf(part, source)
  BY DEF Open, IInv, PartInv
<1>3. have \in 0..SizeOf[source]
  BY <1>1, <1>2 DEF BeginningOf
<1>4. /\ offset' = have /\ sidecar' = xfer /\ part' = (IF have = 0 THEN <<>> ELSE part)
      /\ pc' = "loop" /\ outcome' = outcome
  <2>1. ~ (have > Expected.size)
    <3>. HIDE DEF have
    <3>. QED  BY <1>1, <1>3
  <2>. QED  BY <2>1 DEF Open
<1>5. BeginningOf(<<>>, source) /\ Len(<<>>) = 0
  <2>1. SubSeq(Whole(source), 1, 0) = <<>>
    BY SubSeqEmpty
  <2>. QED  BY <1>1, <2>1 DEF BeginningOf
<1>6. CASE have = 0
  BY <1>4, <1>5, <1>6
<1>7. CASE have # 0
  BY <1>2, <1>4, <1>7
<1>. QED  BY <1>6, <1>7

\* A verified part file of a fresh transfer matches.
LEMMA VerifyFresh ==
  ASSUME IInv, Verify, xfer \in Fresh
  PROVE  pc' = "unlink" /\ outcome' = outcome
<1>1. /\ source \in Versions /\ Expected.size = SizeOf[source]
      /\ Promised(Expected) = Whole(source)
  BY FreshFacts DEF Expected
<1>2. BeginningOf(part, source) /\ offset = Len(part) /\ offset >= Expected.size
  BY DEF Verify, IInv, PartInv
<1>3. part = Whole(source)
  <2>1. /\ Len(part) \in Nat /\ Len(part) <= SizeOf[source] /\ SizeOf[source] \in Nat
        /\ Len(part) = SizeOf[source] => part = Whole(source)
    BY <1>1, <1>2, BeginningFacts, WholeFacts
  <2>. QED  BY <1>1, <1>2, <2>1
<1>. QED  BY <1>1, <1>3 DEF Verify, Matches

\* A transfer that is known and is fresh after a step was fresh before it.
LEMMA StillFresh ==
  ASSUME IInv, [Next]_vars, NEW x \in Ids, x \in Fresh'
  PROVE  x \in Fresh /\ source' = source
BY ServerStep DEF ServerKept

LEMMA PartStep ==
  ASSUME IInv, [Next]_vars
  PROVE  PartInv'
<1>1. CASE Begin
  BY <1>1 DEF Begin, PartInv
<1>2. CASE \E overwrite, resume \in BOOLEAN : Download(overwrite, resume)
  <2>1. /\ part' = part /\ sidecar' = sidecar /\ source' = source /\ Fresh' = Fresh
        /\ \/ pc' = "open" /\ xfer' = sidecar /\ sidecar # None
           \/ pc' = "begin"
    BY <1>2 DEF Download, server, Fresh, Ids
  <2>. QED  BY <2>1 DEF IInv, PartInv, BeginningOf
<1>3. CASE Open
  <2>1. source' = source /\ xfer' = xfer /\ Fresh' = Fresh
    BY <1>3 DEF Open, server, Fresh, Ids
  <2>2. CASE xfer \in Fresh
    <3>1. /\ pc' = "loop" /\ sidecar' = xfer'
          /\ BeginningOf(part', source') /\ offset' = Len(part')
      BY <1>3, <2>1, <2>2, OpenFresh
    <3>. QED  BY <3>1 DEF PartInv, BeginningOf
  <2>3. CASE xfer \notin Fresh
    <3>1. \/ pc' = "idle" /\ part' = part /\ sidecar' = sidecar
          \/ pc' = "loop" /\ sidecar' = xfer
      BY <1>3 DEF Open, Ends
    <3>. QED  BY <2>1, <2>3, <3>1 DEF IInv, PartInv, BeginningOf
  <2>. QED  BY <2>2, <2>3
<1>4. CASE FetchChunk
  <2>1. /\ pc = "loop" /\ xfer' = xfer /\ sidecar' = sidecar /\ source' = source
        /\ pc' \in {"loop", "idle"} /\ sidecar = xfer /\ xfer \in Ids
    BY <1>4 DEF FetchChunk, Ends, IInv, PartInv, TypeInv
  <2>2. CASE xfer \in Fresh
    <3>1. BeginningOf(part', source') /\ offset' = Len(part')
      BY <1>4, <2>1, <2>2, FetchFresh
    <3>. QED  BY <2>1, <3>1 DEF PartInv, BeginningOf
  <2>3. CASE xfer \notin Fresh
    <3>1. xfer \notin Fresh'
      BY <2>1, <2>3, StillFresh
    <3>. QED  BY <2>1, <3>1 DEF PartInv
  <2>. QED  BY <2>2, <2>3
<1>5. CASE Stop
  <2>1. pc' = "idle" /\ sidecar' = sidecar /\ source' = source /\ Fresh' = Fresh
    BY <1>5 DEF Stop, Ends, server, Fresh, Ids
  <2>2. ASSUME sidecar # None, sidecar \in Fresh
        PROVE  part' = None \/ BeginningOf(part', source)
    BY <1>5, <2>2, StopFresh DEF IInv, PartInv
  <2>. QED  BY <2>1, <2>2 DEF PartInv, BeginningOf
<1>6. CASE Verify \/ Unlink \/ Replace \/ Finish
  <2>1. /\ pc' \in {"idle", "unlink", "replace", "finish"}
        /\ source' = source /\ Fresh' = Fresh
        /\ part' = None \/ part' = part
        /\ sidecar' = None \/ sidecar' = sidecar
    BY <1>6 DEF Verify, Unlink, Replace, Finish, Ends, server, Fresh, Ids
  <2>. QED  BY <2>1 DEF IInv, PartInv, BeginningOf
<1>7. CASE UNCHANGED client
  <2>1. UNCHANGED <<part, sidecar, pc, xfer, offset>>
    BY <1>7 DEF client
  <2>2. /\ sidecar # None /\ sidecar \in Fresh' => sidecar \in Fresh /\ source' = source
        /\ pc \in {"open", "loop"} /\ xfer \in Fresh' => xfer \in Fresh /\ source' = source
    BY StillFresh DEF IInv, TypeInv
  <2>. QED  BY <2>1, <2>2 DEF IInv, PartInv, BeginningOf
<1>. QED
  <2>1. \/ UNCHANGED client \/ ClientStep \/ Stop
        \/ \E overwrite, resume \in BOOLEAN : Download(overwrite, resume)
    BY DEF Next, vars, SourceChanges, InitDownload, FetchPart, AcceptPart, Assemble,
       Join, AssembleTimeout, AssembleUnlink, AssembleReplace, AssembleStops
  <2>. QED  BY <1>1, <1>2, <1>3, <1>4, <1>5, <1>6, <1>7, <2>1 DEF ClientStep

\* A download refuses only what is not fresh.
LEMMA RefusedStep ==
  ASSUME IInv, [Next]_vars
  PROVE  RefusedForCause'
<1>1. stale \subseteq stale'
  BY ServerStep DEF ServerKept
<1>2. CASE Open \/ FetchChunk \/ Verify
  <2>1. xfer' = xfer /\ xfer \in Ids /\ outcome = "none"
    BY <1>2 DEF Open, FetchChunk, Verify, IInv, TypeInv
  <2>2. CASE xfer \in Fresh
    BY <1>2, <2>1, <2>2, OpenFresh, FetchFresh, VerifyFresh DEF RefusedForCause
  <2>3. CASE xfer \notin Fresh
    BY <1>1, <2>1, <2>3 DEF RefusedForCause, Fresh
  <2>. QED  BY <2>2, <2>3
<1>3. CASE Begin
  <2>1. outcome' = "none"
    BY <1>3 DEF Begin, IInv, TypeInv
  <2>. QED  BY <2>1 DEF RefusedForCause
<1>4. CASE \/ Unlink \/ Replace \/ Finish \/ Stop
           \/ \E overwrite, resume \in BOOLEAN : Download(overwrite, resume)
  <2>1. outcome' \in {"none", "receipt", "stopped"}
    BY <1>4 DEF Unlink, Replace, Finish, Stop, Ends, Download, IInv, TypeInv
  <2>. QED  BY <2>1 DEF RefusedForCause
<1>5. CASE UNCHANGED client
  BY <1>1, <1>5 DEF client, IInv, RefusedForCause
<1>. QED
  <2>1. \/ UNCHANGED client \/ ClientStep \/ Stop
        \/ \E overwrite, resume \in BOOLEAN : Download(overwrite, resume)
    BY DEF Next, vars, SourceChanges, InitDownload, FetchPart, AcceptPart, Assemble,
       Join, AssembleTimeout, AssembleUnlink, AssembleReplace, AssembleStops
  <2>. QED  BY <1>2, <1>3, <1>4, <1>5, <2>1 DEF ClientStep

-------------------------------------------------------------------------------
LEMMA Inductive ==
  ASSUME IInv, [Next]_vars
  PROVE  IInv'
<1>1. FreshInv'
  BY ServerStep DEF ServerKept
<1>. QED  BY <1>1, TypeStep, InstallStep, PartStep, RefusedStep DEF IInv

LEMMA AlwaysIInv == Spec => []IInv
BY InitInv, Inductive, PTL DEF Spec

\* What download_file and the script's assemble put at the user's path is one whole
\* version of the served file, whatever happens to it, to them and to what they left.
THEOREM InstalledIsWhole == Spec => []InstalledWhole
<1>1. IInv => InstalledWhole
  BY DEF IInv, InstallInv, IsWhole, InstalledWhole
<1>. QED  BY AlwaysIInv, <1>1, PTL

\* A download is refused only if its source has changed since it began.
THEOREM RefusedOnlyForCause == Spec => []RefusedForCause
<1>1. IInv => RefusedForCause
  BY DEF IInv
<1>. QED  BY AlwaysIInv, <1>1, PTL

===============================================================================
