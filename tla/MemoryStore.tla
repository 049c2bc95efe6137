------------------------------ MODULE MemoryStore ------------------------------
(***************************************************************************)
(* The file of long-term facts (MEMORY.md, USER.md).  A file is a list of  *)
(* entries separated by a sign, or is not there.  MemoryStore reads it,    *)
(* changes the list and writes all of it again; opening the file for       *)
(* writing empties it first.  Each use makes an instance with a lock of    *)
(* its own, so nothing keeps two of these sequences apart.                 *)
(*                                                                         *)
(* The limit in characters is a limit in entries here: what is beyond it   *)
(* is cut off, and that is the newest entry.                               *)
(***************************************************************************)
EXTENDS Naturals, Sequences, SequencesExt

CONSTANTS
    Absent,    \* "there is no such file"
    Capacity   \* bound: entries that fit in the file

ASSUME MemoryAssumption == Capacity \in Nat \ {0}

Empty == <<>>

\* _read_file and _parse_entries: no file reads like an empty one.
Entries(file) == IF file = Absent THEN Empty ELSE file

Knows(file, fact) == Contains(Entries(file), fact)

\* add_memory of a fact that is not there yet.
Added(file, fact) ==
    LET all == Append(Entries(file), fact)
    IN  IF Len(all) > Capacity THEN SubSeq(all, 1, Capacity) ELSE all
================================================================================
