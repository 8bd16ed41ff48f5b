------------------------------- MODULE MCLink -------------------------------
(* Instances of Link for TLC. *)
EXTENDS Link, TLC

CONSTANTS c1, c2
=============================================================================
