------------------------------ MODULE MCDownloads ------------------------------
(* An instance of Downloads for TLC: two versions of different sizes, so that a chunk *)
(* may be short, whole, torn, of the other version or too long.                      *)
EXTENDS Downloads, TLC

CONSTANTS v1, v2

MCSizeOf == (v1 :> 3) @@ (v2 :> 4)
===============================================================================
