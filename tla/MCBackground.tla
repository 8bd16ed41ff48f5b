---------------------------- MODULE MCBackground ----------------------------
(* Instances of Background for TLC. *)
EXTENDS Background, TLC

CONSTANTS a1, a2

\* Nothing tells two delegations of a conversation apart.
AgentSymmetry == Permutations(Agents)

\* Nothing looks at the context of a leg that is gone, and at the lane of the completion
\* turns only what moves them along it.  (The last component is always TRUE: it has TLC
\* evaluate what the view leaves out before it writes the state down.)
WithoutSpent ==
  <<dbVars, pc, [l \in Legs |-> IF pc[l] = "gone" THEN "live" ELSE ctx[l]], running,
    askVars, procVars, scheduled, TypeOK>>
=============================================================================
