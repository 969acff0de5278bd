--------------------------- MODULE MCPackageTransfer ---------------------------
(* Instances of PackageTransfer for TLC. *)
EXTENDS PackageTransfer

CONSTANTS p1, p2, t1, t2, w1, w2, w3

\* Every package goes to one target and may not replace a file there.
OneTarget == [p \in Packages |-> t1]
NeverOverwrite == [p \in Packages |-> FALSE]
===============================================================================
