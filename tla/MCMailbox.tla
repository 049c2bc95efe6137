------------------------------- MODULE MCMailbox -------------------------------
(* Instance of the mail for TLC.                                                *)
EXTENDS Mailbox

CONSTANTS parent, child, nobody
================================================================================
