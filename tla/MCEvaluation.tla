----------------------------- MODULE MCEvaluation -----------------------------
(* Instance of the evaluation gateway for TLC.                                *)
EXTENDS Evaluation

CONSTANTS c1, c2
================================================================================
