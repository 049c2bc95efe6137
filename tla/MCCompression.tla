----------------------------- MODULE MCCompression -----------------------------
(* Instance of the context manager for TLC.                                     *)
EXTENDS Compression
================================================================================
