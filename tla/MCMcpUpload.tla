------------------------------ MODULE MCMcpUpload ------------------------------
(* Instances of McpUpload for TLC. *)
EXTENDS McpUpload

CONSTANTS c1, t1, w1, w2

OneTarget == [c \in Clients |-> t1]
NeverOverwrite == [c \in Clients |-> FALSE]
===============================================================================
