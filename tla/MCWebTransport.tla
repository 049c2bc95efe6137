----------------------------- MODULE MCWebTransport -----------------------------
(* Instance of the web transport for TLC.                                       *)
EXTENDS WebTransport

CONSTANTS s1, b1, b2

Two == 1..2
OneSession == [t \in Two |-> s1]
Alternate == [t \in Two |-> IF t = 1 THEN b1 ELSE b2]
================================================================================
