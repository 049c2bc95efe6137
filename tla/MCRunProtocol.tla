---------------------------- MODULE MCRunProtocol ------------------------------
(* Instances of RunProtocol for TLC: the calls of run() are interchangeable,   *)
(* and so are the subagents.                                                   *)
EXTENDS RunProtocol, TLC

Symmetry == Permutations(Runs) \cup Permutations(Subagents)
================================================================================
