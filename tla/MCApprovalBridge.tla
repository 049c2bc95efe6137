--------------------------- MODULE MCApprovalBridge ----------------------------
(* Two conversations.  In A: a shell command "rm", then "rmdir", which starts   *)
(* with the word "rm", then a sandbox escalation of an "rm" command.  In B: an  *)
(* "rm" command, which A's answers must not decide.                             *)
EXTENDS ApprovalBridge, TLC

CONSTANTS rm, rmdir, escalated, other, A, B

MCSessionOf == rm :> A @@ rmdir :> A @@ escalated :> A @@ other :> B
MCToken == rm :> "rm" @@ rmdir :> "rmdir" @@ escalated :> "rm" @@ other :> "rm"
MCCovered == rm :> {"rm"} @@ rmdir :> {"rm", "rmdir"} @@ escalated :> {"rm"} @@ other :> {"rm"}
================================================================================
