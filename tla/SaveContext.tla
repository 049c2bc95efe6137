------------------------------ MODULE SaveContext ------------------------------
(***************************************************************************)
(* SQLiteStore.save_context as a function: which rows a session has after  *)
(* a save.  The history is encoded before the lock is taken (enc); the     *)
(* rows are compared with that, and what is written comes from the list    *)
(* object itself (live), which other threads may have changed since.       *)
(***************************************************************************)
EXTENDS Naturals, Sequences

IsProperPrefix(s, t) == Len(s) < Len(t) /\ s = SubSeq(t, 1, Len(s))

\* Mutants: the first new row is skipped; a session that has rows is not rewritten;
\* the whole history is added to the old rows.
CommittedOffByOne(rows, enc, live) ==
    IF IsProperPrefix(rows, enc) THEN rows \o SubSeq(live, Len(rows) + 2, Len(live)) ELSE live
CommittedOnce(rows, enc, live) == IF rows = <<>> THEN live ELSE rows
CommittedWhole(rows, enc, live) == rows \o live

Committed(rows, enc, live) ==
    IF rows = enc THEN rows
    ELSE IF IsProperPrefix(rows, enc)
         THEN rows \o SubSeq(live, Len(rows) + 1, Len(live))
         ELSE live
================================================================================
