---------------------------- MODULE MCCernAcquisition ----------------------------
(* An instance of CernAcquisition for TLC: two of three contents share their *)
(* checksum.                                                                *)
EXTENDS CernAcquisition

CONSTANTS v1, v2, v3, p1, p2, p3

Adler32(content) == IF content[1][1] = v3 THEN "a3" ELSE "a1"
===============================================================================
