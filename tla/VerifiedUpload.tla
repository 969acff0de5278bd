---------------------------- MODULE VerifiedUpload ----------------------------
(***************************************************************************)
(* What the package transfer and the streaming upload promise, with no     *)
(* workers, locks, temporary files or crashes (package_metadata.py:147 and *)
(* :189, transfer_metadata.py:106): a part once accepted never changes,    *)
(* and a package reaches its target in one atomic step, once, only when    *)
(* every accepted part is the declared one, and only over an existing file *)
(* when overwriting was asked for.  For uploads, read transfer and chunk.  *)
(***************************************************************************)
EXTENDS Naturals, Sequences

CONSTANTS Packages,   \* package identifiers
          Targets,    \* paths below the data root
          TargetOf,   \* the path a package's manifest declares
          Overwrite,  \* the manifest's overwrite flag
          PartCount,  \* parts of a package
          Contents,   \* what a part may hold: k is the declared content of part k
          None,       \* absence of a part, a worker or a package
          Foreign     \* the writer of a file that no package published

VARIABLES accepted,   \* accepted[p][i]: content the service acknowledged for part i
          target,     \* target[t]: the file at path t
          published   \* packages that have reached their target

vars == <<accepted, target, published>>

Parts == 0 .. PartCount - 1

\* A file is known by who wrote it and by the part contents in it.
NoFile == [of |-> None, body |-> <<>>]
ForeignFile == [of |-> Foreign, body |-> <<>>]
File == [of : Packages \cup {Foreign, None}, body : Seq(Contents)]

\* The whole file a package declares: every part in place, in index order.
Whole == [k \in 1 .. PartCount |-> k - 1]
WholeFile(p) == [of |-> p, body |-> Whole]

Init ==
  /\ accepted = [p \in Packages |-> [i \in Parts |-> None]]
  /\ target \in [Targets -> {NoFile, ForeignFile}]
  /\ published = {}

Accept(p, i, c) ==
  /\ accepted[p][i] = None
  /\ accepted' = [accepted EXCEPT ![p][i] = c]
  /\ UNCHANGED <<target, published>>

Publish(p) ==
  /\ p \notin published
  /\ accepted[p] = [i \in Parts |-> i]
  /\ Overwrite[p] \/ target[TargetOf[p]] = NoFile
  /\ target' = [target EXCEPT ![TargetOf[p]] = WholeFile(p)]
  /\ published' = published \cup {p}
  /\ UNCHANGED accepted

Next ==
  \E p \in Packages :
    \/ \E i \in Parts, c \in Contents : Accept(p, i, c)
    \/ Publish(p)

Spec == Init /\ [][Next]_vars
===============================================================================
