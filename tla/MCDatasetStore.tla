----------------------------- MODULE MCDatasetStore -----------------------------
EXTENDS DatasetStore, TLC
CONSTANTS w1, w2, o1, o2, x1, x2, c1, c2

ByteRange == [resume |-> "byte_range", offsets |-> TRUE]

\* Running operations after their fetch: in a second attempt; and with a total that a
\* refused update left below the bytes.
RunningRecord(bytes, offset) ==
  [NewRecord(ByteRange, None, offset, None, 0) EXCEPT !.bytes = bytes, !.state = "running"]
MCFirstRecords ==
  {[RunningRecord(1, 1) EXCEPT !.attempt = 2], [RunningRecord(1, 1) EXCEPT !.total = 0]}
\* Manifests without a validator are refused.
WithValidator == Contents \X Validators
MCSymmetry ==
  Permutations({w1, w2}) \cup Permutations({o1, o2}) \cup Permutations({x1, x2})
  \cup Permutations({c1, c2})
===============================================================================
