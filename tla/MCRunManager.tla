---------------------------- MODULE MCRunManager ----------------------------
(* Instances of RunManager for TLC: a prompt, a completion and the answer to a *)
(* Gateway card, on one conversation.                                          *)
EXTENDS RunManager

CONSTANTS s1, p1, c1, r1

OneLane == [t \in Turns |-> s1]
=============================================================================
