---------------------------- MODULE ProgressTracker ----------------------------
(***************************************************************************)
(* The progress tracker (progress.py): provider tasks report, callers      *)
(* pause, resume and cancel, in any order.  Every method holds the         *)
(* tracker's lock from its first check to its last assignment, so a call   *)
(* is one step; the step happens whether the call returns or raises.       *)
(* Seconds are steps of Tick.                                              *)
(***************************************************************************)
EXTENDS ProgressRecord

CONSTANTS
  Operations, MaxBytes, MaxAttempt,
  AskedStates,  \* states asked for in updates
  Declared,     \* capabilities the providers' commands declare
  MaxTime  \* bound on the seconds that pass

ASSUME TrackerOK ==
  /\ MaxBytes \in Nat /\ MaxTime \in Nat
  /\ MaxAttempt \in Nat \ {0}
  /\ AskedStates \subseteq States
  /\ Declared \subseteq Capabilities
  /\ None \notin Nat \cup Tokens \cup States

VARIABLES
  records,  \* _records, with NoRecord for an operation that does not exist yet
  now,      \* the monotonic clock
  worked    \* history: seconds an operation has spent neither paused nor ended

trackerVars == <<records, now, worked>>

Bytes == 0 .. MaxBytes
Attempts == 1 .. MaxAttempt
Times == 0 .. MaxTime
Maybe(S) == S \cup {None}
NoRecord == [state |-> None]

Exists(o) == records[o] # NoRecord
Working(o) == Exists(o) /\ records[o].state \notin TerminalStates \cup {"paused"}

Put(o, r) ==
  /\ records' = [records EXCEPT ![o] = r]
  /\ UNCHANGED <<now, worked>>

-------------------------------------------------------------------------------
TrackerInit ==
  /\ records = [o \in Operations |-> NoRecord]
  /\ now = 0
  /\ worked = [o \in Operations |-> 0]

Begin(o, caps, total, offset, token) ==
  /\ ~ Exists(o)
  /\ MayBegin(caps, offset, token)
  /\ Put(o, NewRecord(caps, total, offset, token, now))

Update(o, u) ==
  /\ Exists(o)
  /\ Put(o, Updated(records[o], u, now))

Pause(o) ==
  /\ Exists(o)
  /\ Put(o, Paused(records[o], now))

Resume(o, offset, fits, token) ==
  /\ Exists(o)
  /\ Put(o, Resumed(records[o], offset, fits, token, now))

\* complete, fail and cancel.
EndOperation(o, state) ==
  /\ Exists(o)
  /\ Put(o, Finished(records[o], state, now))

Tick ==
  /\ now < MaxTime
  /\ now' = now + 1
  /\ worked' = [o \in Operations |-> IF Working(o) THEN worked[o] + 1 ELSE worked[o]]
  /\ UNCHANGED records

Updates ==
  [bytes : Maybe(Bytes), offset : Maybe(Bytes), total : Maybe(Bytes),
   token : Maybe(Tokens), attempt : Maybe(Attempts), state : Maybe(AskedStates)]

TrackerNext ==
  \/ Tick
  \/ \E o \in Operations :
       \/ \E caps \in Declared, total \in Maybe(Bytes), offset \in Bytes,
             token \in Maybe(Tokens) : Begin(o, caps, total, offset, token)
       \/ \E u \in Updates : Update(o, u)
       \/ Pause(o)
       \/ \E offset \in Maybe(Bytes), fits \in BOOLEAN, token \in Maybe(Tokens) :
            Resume(o, offset, fits, token)
       \/ \E state \in {"completed", "failed", "cancelled"} : EndOperation(o, state)

TrackerSpec == TrackerInit /\ [][TrackerNext]_trackerVars

-------------------------------------------------------------------------------
(* Properties *)

TypeOK ==
  /\ records \in [Operations -> Records(Bytes, Attempts, Times) \cup {NoRecord}]
  /\ now \in Times
  /\ worked \in [Operations -> Times]

\* A terminal operation is immutable (OperationState's docstring) whatever late
\* report, pause, resume or second ending reaches it.
TerminalImmutable ==
  [][\A o \in Operations :
       Exists(o) /\ Terminal(records[o]) => records'[o] = records[o]]_records

NotBack(x, y) == Given(x) => Given(y) /\ x <= y
Forward(r, s) ==
  /\ r.bytes <= s.bytes /\ r.offset <= s.offset /\ r.attempt <= s.attempt
  /\ NotBack(r.total, s.total)

\* Bytes, offset, attempt and a known total never go back (DownloadProgress:
\* "Monotonic"), also through calls that raise after assigning some of them.
CountersNeverGoBack ==
  [][\A o \in Operations : Exists(o) => Forward(records[o], records'[o])]_records

\* The active elapsed seconds never count a paused or ended second
\* (_active_elapsed: "excluding paused intervals"), however pauses, resumes and
\* reports alternate.
ActiveNeverOvercounted ==
  \A o \in Operations : Exists(o) => ActiveElapsed(records[o], now) <= worked[o]
===============================================================================
