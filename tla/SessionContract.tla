---------------------------- MODULE SessionContract ----------------------------
(***************************************************************************)
(* What a conversation promises to the people who talk to it, with every   *)
(* thread, event and lock forgotten: turns are taken one after the other,  *)
(* saving a turn saves everything before it, and a reply that was handed   *)
(* out belongs to the newest turn and is saved.                            *)
(***************************************************************************)
EXTENDS Naturals, Sequences

CONSTANT Runs

VARIABLES
    taken,     \* the turns in the transcript, oldest first
    saved,     \* the turns in the database, oldest first
    replied    \* the turns whose answer was handed to the caller

contractVars == <<taken, saved, replied>>

Among(r, log) == \E i \in 1..Len(log) : log[i] = r

ContractInit == taken = <<>> /\ saved = <<>> /\ replied = {}

Take(r) == /\ ~Among(r, taken)
           /\ taken' = Append(taken, r)
           /\ UNCHANGED <<saved, replied>>

\* A turn that failed or reached its limit is saved without a reply.
Save == /\ saved' = taken
        /\ UNCHANGED <<taken, replied>>

SaveAndReply(r) == /\ Len(taken) > 0 /\ taken[Len(taken)] = r
                   /\ saved' = taken
                   /\ replied' = replied \cup {r}
                   /\ UNCHANGED taken

ContractNext == (\E r \in Runs : Take(r) \/ SaveAndReply(r)) \/ Save

Contract == ContractInit /\ [][ContractNext]_contractVars
================================================================================
