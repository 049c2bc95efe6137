------------------------------- MODULE PostOffice ------------------------------
(***************************************************************************)
(* What the mail between agents promises: a letter that was accepted is    *)
(* carried; then it lies in the box of its addressee, where it can be read *)
(* once if it is of a kind that is read, or it is returned because the     *)
(* addressee is gone, and its sender is told by a "nack", which itself is  *)
(* not answered.  No letter is lost, doubled or read by somebody else.     *)
(* Module Mailbox is shown to implement this; module Subagents uses it.    *)
(***************************************************************************)
EXTENDS Naturals

CONSTANTS
    Owners,      \* contexts with a mailbox; an id is never used twice
    Outsider,    \* the sender id of callers that are no context ("unknown", "main")
    Letters      \* what can be sent

VARIABLES
    home,      \* "new", "open" (registered) or "closed" (unregistered), per owner
    moving,    \* letters accepted and not yet delivered or returned
    held,      \* letters in the boxes
    taken,     \* letters taken out by their addressees
    returned   \* letters that could not be delivered

letterVars == <<moving, held, taken, returned>>
officeVars == <<home, letterVars>>

ReadTypes == {"message", "steer"}
Types == ReadTypes \cup {"result", "notify", "nack"}
Senders == Owners \cup {Outsider}

Letter(type, from, to, no) == [type |-> type, from |-> from, to |-> to, no |-> no]

\* The notice to the sender; its data name the letter and the missing addressee.
Nack(l) == Letter("nack", l.to, l.from, l.no)

Everything == moving \cup held \cup taken \cup returned

OfficeInit == /\ home = [o \in Owners |-> "new"]
              /\ moving = {} /\ held = {} /\ taken = {} /\ returned = {}

Moves(o, from, to) == home[o] = from /\ home' = [home EXCEPT ![o] = to]

Register(o) == Moves(o, "new", "open") /\ UNCHANGED letterVars
Unregister(o) == Moves(o, "open", "closed") /\ UNCHANGED letterVars

\* A new letter: its number is used for the first time, its addressee exists or
\* once did, and so does its sender if it is a context.
Accept(l) == /\ l.type # "nack" /\ l.to \in Owners
             /\ \A o \in {l.from, l.to} \cap Owners : home[o] # "new"
             /\ \A k \in Everything : k.no # l.no
             /\ moving' = moving \cup {l}
             /\ UNCHANGED <<home, held, taken, returned>>

Deliver(l) == /\ l \in moving
              /\ l.to \in Owners /\ home[l.to] # "new"
              /\ moving' = moving \ {l}
              /\ held' = held \cup {l}
              /\ UNCHANGED <<home, taken, returned>>

Return(l) == /\ l \in moving
             /\ l.to \in Owners => home[l.to] = "closed"
             /\ moving' = (moving \ {l}) \cup (IF l.type = "nack" THEN {} ELSE {Nack(l)})
             /\ returned' = returned \cup {l}
             /\ UNCHANGED <<home, held, taken>>

Take(l) == /\ l \in held
           /\ l.type \in ReadTypes
           /\ held' = held \ {l}
           /\ taken' = taken \cup {l}
           /\ UNCHANGED <<home, moving, returned>>

OfficeStep == \E l \in moving : Deliver(l) \/ Return(l)

OfficeNext == \/ OfficeStep
              \/ \E l \in held : Take(l)
              \/ \E o \in Owners : Register(o) \/ Unregister(o)
              \/ \E l \in Letters : Accept(l)

Promise == OfficeInit /\ [][OfficeNext]_officeVars
================================================================================
