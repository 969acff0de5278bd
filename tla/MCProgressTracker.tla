--------------------------- MODULE MCProgressTracker ---------------------------
(* An instance of ProgressTracker for TLC: one operation, since operations share *)
(* nothing but the clock.                                                        *)
EXTENDS ProgressTracker

CONSTANTS o1, token

\* Resumable by offset, resumable by cursor without offsets, and not resumable.
OneOfEachKind ==
  {[resume |-> "byte_range", offsets |-> TRUE],
   [resume |-> "cursor", offsets |-> FALSE],
   [resume |-> "unsupported", offsets |-> FALSE]}
===============================================================================
