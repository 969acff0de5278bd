-------------------------- MODULE MCProviderLifecycle --------------------------
(* Instances of ProviderLifecycle for TLC: one command that streams with byte-range *)
(* resume, which the server runs in the background, and one that cannot report.     *)
EXTENDS ProviderLifecycle

CONSTANTS stream, query, k1, k2, k3

BothCaps ==
  [c \in Commands |-> IF c = stream
                      THEN [resume |-> "byte_range", offsets |-> TRUE]
                      ELSE [resume |-> "unsupported", offsets |-> FALSE]]
AnyCommand == [k \in Tasks |-> Commands]
OneStreams == [k \in Tasks |-> IF k = k1 THEN {stream} ELSE Commands]
OnlyStream == [c \in Commands |-> c = stream]
===============================================================================
