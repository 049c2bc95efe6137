------------------------------ MODULE MCSubagents ------------------------------
(* Instances of the subagents for TLC: one conversation and its subagents.      *)
EXTENDS Subagents

CONSTANTS conversation, first, second, nobody
================================================================================
