------------------------------- MODULE MCLiveView -------------------------------
(* Instance of the live view for TLC.                                           *)
EXTENDS LiveView

ThreeThenOne == <<3, 1>>
================================================================================
