----------------------------- MODULE ProgressRecord -----------------------------
(***************************************************************************)
(* The record the progress tracker keeps for one operation (progress.py),  *)
(* and what each tracker method makes of it.  A method raises by leaving   *)
(* the checks at the first one that fails; update and resume assign fields *)
(* between their checks, so a refused call may still have changed the      *)
(* record.  Block sizes (but for resume's refusal of one), messages, error *)
(* codes, wall-clock timestamps and speed samples are left out: no state   *)
(* change depends on them.                                                 *)
(***************************************************************************)
EXTENDS Naturals

CONSTANTS
  None,    \* Python's None: an unknown total, no token, a stopped clock, and
           \* an argument that is not given
  Tokens   \* resume tokens

States == {"queued", "connecting", "running", "paused", "resuming", "completed",
           "failed", "cancelled", "unsupported"}
TerminalStates == {"completed", "failed", "cancelled", "unsupported"}
ResumeSupports == {"byte_range", "cursor", "client_managed", "unsupported"}

\* TransferCapabilities: byte-range resume requires offset support.
Capabilities ==
  {c \in [resume : ResumeSupports, offsets : BOOLEAN] :
     c.resume = "byte_range" => c.offsets}

Terminal(r) == r.state \in TerminalStates

\* The effective progress: what is compared with total_bytes.
ProgressBytes(r) == IF r.bytes > r.offset THEN r.bytes ELSE r.offset

\* validate_offset and _validate_resume_token
ValidOffset(caps, offset) == offset = 0 \/ caps.offsets
ValidToken(caps, token) == token = None \/ caps.resume # "unsupported"

\* begin: the fresh record, whose active clock runs from the start.
NewRecord(caps, total, offset, token, time) ==
  [state |-> "queued", caps |-> caps, bytes |-> 0, total |-> total,
   offset |-> offset, token |-> token, attempt |-> 1,
   activeFrom |-> time, activeFor |-> 0, lastActivity |-> time]

MayBegin(caps, offset, token) == ValidOffset(caps, offset) /\ ValidToken(caps, token)

Given(x) == x # None

\* The arguments of update that a caller does not give.
NoUpdate == [bytes |-> None, offset |-> None, total |-> None, token |-> None,
             attempt |-> None, state |-> None]

-------------------------------------------------------------------------------
(* update, check by check, in the order of the code *)

MayUpdate(r, u) == ~ Terminal(r) /\ u.state \notin TerminalStates \cup {"paused"}
BytesPass(r, u) == MayUpdate(r, u) /\ (Given(u.bytes) => u.bytes >= r.bytes)
OffsetPass(r, u) ==
  /\ BytesPass(r, u)
  /\ Given(u.offset) => ValidOffset(r.caps, u.offset) /\ u.offset >= r.offset
TotalPass(r, u) ==
  /\ OffsetPass(r, u)
  /\ Given(u.total) /\ Given(r.total) => u.total >= r.total

\* The counters as the checks so far have left them: bytes, offset and total are
\* assigned one by one, each before the next check.
WithCounters(r, u) ==
  [r EXCEPT !.bytes = IF Given(u.bytes) /\ BytesPass(r, u) THEN u.bytes ELSE @,
            !.offset = IF Given(u.offset) /\ OffsetPass(r, u) THEN u.offset ELSE @,
            !.total = IF Given(u.total) /\ TotalPass(r, u) THEN u.total ELSE @]

WithinTotal(r) == Given(r.total) => ProgressBytes(r) <= r.total

WithinPass(r, u) == TotalPass(r, u) /\ WithinTotal(WithCounters(r, u))
TokenPass(r, u) == WithinPass(r, u) /\ ValidToken(r.caps, u.token)
UpdatePass(r, u) == TokenPass(r, u) /\ (Given(u.attempt) => u.attempt >= r.attempt)

\* Bytes, offset or token moved: the call counts as transfer activity.
Activity(r, u) ==
  \/ Given(u.bytes) /\ u.bytes > r.bytes
  \/ Given(u.offset) /\ u.offset > r.offset
  \/ Given(u.token) /\ u.token # r.token

UpdatedState(r, u) ==
  IF Given(u.state) THEN u.state
  ELSE IF Activity(r, u) /\ r.state \in {"queued", "connecting", "resuming"}
       THEN "running" ELSE r.state

\* The record after update, whether the call returned or raised.
Updated(r, u, time) ==
  LET counted == WithCounters(r, u)
      tokened == [counted EXCEPT
                    !.token = IF Given(u.token) /\ TokenPass(r, u) THEN u.token ELSE @]
  IN IF ~ UpdatePass(r, u) THEN tokened
     ELSE [tokened EXCEPT
             !.attempt = IF Given(u.attempt) THEN u.attempt ELSE @,
             !.state = UpdatedState(r, u),
             !.lastActivity = IF Activity(r, u) THEN time ELSE @]

-------------------------------------------------------------------------------
(* pause, resume and the terminal transitions *)

\* _active_elapsed and _stop_active_clock
ActiveElapsed(r, time) ==
  r.activeFor + (IF Given(r.activeFrom) THEN time - r.activeFrom ELSE 0)

\* Mutant: the interval is added up but not closed.
StoppedRunning(r, time) == [r EXCEPT !.activeFor = ActiveElapsed(r, time)]

Stopped(r, time) == [r EXCEPT !.activeFor = ActiveElapsed(r, time), !.activeFrom = None]

\* Mutant: the clock is left running.
PausedTicking(r, time) ==
  IF Terminal(r) \/ r.state = "paused" THEN r ELSE [r EXCEPT !.state = "paused"]

\* Pausing again returns the record as it is.
Paused(r, time) ==
  IF Terminal(r) \/ r.state = "paused" THEN r
  ELSE [Stopped(r, time) EXCEPT !.state = "paused"]

MayResume(r) == r.state = "paused" /\ r.caps.resume # "unsupported"

\* Mutant: the resume offset may go back.
ResumeOffsetBackPass(r, offset) ==
  MayResume(r) /\ (Given(offset) => ValidOffset(r.caps, offset))

ResumeOffsetPass(r, offset) ==
  /\ MayResume(r)
  /\ Given(offset) => ValidOffset(r.caps, offset) /\ offset >= r.offset
\* fits: the block size that comes with the call, if one does, is within the limits.
ResumeBlockPass(r, offset, fits) == ResumeOffsetPass(r, offset) /\ fits
ResumePass(r, offset, fits, token) ==
  /\ ResumeBlockPass(r, offset, fits)
  /\ r.caps.resume = "cursor" => Given(token) \/ Given(r.token)

\* The record after resume; the offset is assigned before the block size is checked,
\* both before the token is, and is not compared with the total.
Resumed(r, offset, fits, token, time) ==
  LET moved == [r EXCEPT
        !.offset = IF Given(offset) /\ ResumeOffsetPass(r, offset) THEN offset ELSE @,
        !.token = IF Given(token) /\ ResumeBlockPass(r, offset, fits) THEN token ELSE @]
  IN IF ResumePass(r, offset, fits, token)
     THEN [moved EXCEPT !.state = "resuming", !.activeFrom = time]
     ELSE moved

\* _finish: complete, fail and cancel.
\* Mutant: an ended operation ends again.
MayFinishAgain(r) == TRUE

MayFinish(r) == ~ Terminal(r)
Finished(r, state, time) ==
  IF MayFinish(r) THEN [Stopped(r, time) EXCEPT !.state = state] ELSE r

Records(Bytes, Attempts, Times) ==
  [state : States, caps : Capabilities, bytes : Bytes, total : Bytes \cup {None},
   offset : Bytes, token : Tokens \cup {None}, attempt : Attempts,
   activeFrom : Times \cup {None}, activeFor : Times, lastActivity : Times]
===============================================================================
