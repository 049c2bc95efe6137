-------------------------------- MODULE Mailbox --------------------------------
(***************************************************************************)
(* The mail between agents: any thread puts letters into one central       *)
(* queue; the Dispatcher thread takes them out one by one, looks up the    *)
(* addressee and puts them into its inbox, or returns them; an agent picks *)
(* the letters of one type out of its inbox before every model call        *)
(* (AgentContext.consume_mailbox, AgentMailbox.drain_by_type).  The        *)
(* drain lock keeps two readers of one box apart, but not the Dispatcher.  *)
(* An owner is one context with its mailbox; its id is new when it is      *)
(* registered (AgentManager.register, spawn) and is not used again.        *)
(***************************************************************************)
EXTENDS Naturals, Sequences, Functions

CONSTANTS
    Owners,     \* ids of contexts, each with a mailbox
    Outsider,   \* the sender id of callers that are no context ("unknown", "main")
    MaxPosts    \* bound: letters sent

ASSUME MailboxAssumption == Outsider \notin Owners /\ MaxPosts \in Nat

VARIABLES
    home,       \* "open" for the keys of _routes, "new" before and "closed" after
    central,    \* Dispatcher._central
    carried,    \* the letter _deliver works on and whether its addressee was found
    inbox,      \* AgentMailbox.inbox of each owner
    orphans,    \* Dispatcher.undeliverable
    reader,     \* program counter of consume_mailbox for each owner
    rest,       \* the local list "rest" of drain_by_type
    read,       \* history: the letters each owner has consumed
    posted      \* history: how many letters were ever sent

dispatcherVars == <<central, carried, orphans>>
readerVars == <<reader, rest, read>>
vars == <<home, dispatcherVars, inbox, readerVars, posted>>

Init == /\ home = [o \in Owners |-> "new"]
        /\ central = <<>> /\ carried = <<>> /\ orphans = {}
        /\ inbox = [o \in Owners |-> <<>>]
        /\ reader = [o \in Owners |-> "idle"]
        /\ rest = [o \in Owners |-> <<>>] /\ read = [o \in Owners |-> <<>>]
        /\ posted = 0

--------------------------------------------------------------------------------
(* Callers *)

Letter(type, from, to, no) == [type |-> type, from |-> from, to |-> to, no |-> no]

\* The notice to the sender; its data name the letter and the missing addressee.
Nack(l) == Letter("nack", l.to, l.from, l.no)

Register(o) == /\ home[o] = "new"
               /\ home' = [home EXCEPT ![o] = "open"]
               /\ UNCHANGED <<dispatcherVars, inbox, readerVars, posted>>

Unregister(o) == /\ home[o] = "open"
                 /\ home' = [home EXCEPT ![o] = "closed"]
                 /\ UNCHANGED <<dispatcherVars, inbox, readerVars, posted>>

\* Dispatcher.send, from any thread.
Send(type, from, to) == /\ posted < MaxPosts
                        /\ from \in Owners => home[from] # "new"
                        /\ posted' = posted + 1
                        /\ central' = Append(central, Letter(type, from, to, posted + 1))
                        /\ UNCHANGED <<home, carried, orphans, inbox, readerVars>>

\* AgentManager.steer and send_message look the addressee up first.
Steer(from, to) == home[to] = "open" /\ Send("steer", from, to)
SendMessage(from, to) == home[to] = "open" /\ Send("message", from, to)

\* AgentManager._run reports to the context that spawned it, there or not.
SendResult(from, to) == from \in Owners /\ home[to] # "new" /\ Send("result", from, to)

--------------------------------------------------------------------------------
(* The Dispatcher thread *)

Found(id) == id \in Owners /\ home[id] = "open"

\* One letter leaves the central queue and its addressee is looked up.
PickUp == /\ carried = <<>> /\ central # <<>>
          /\ carried' = <<Head(central), Found(Head(central).to)>>
          /\ central' = Tail(central)
          /\ UNCHANGED <<home, orphans, inbox, readerVars, posted>>

\* The addressee was found; it may be unregistered by now.
PutInInbox == /\ carried # <<>> /\ carried[2]
              /\ inbox' = [inbox EXCEPT ![carried[1].to] = Append(@, carried[1])]
              /\ carried' = <<>>
              /\ UNCHANGED <<home, central, orphans, readerVars, posted>>

\* Mutant: the notice is forgotten.
NoNotice(l) == <<>>

Notice(l) == IF l.type = "nack" THEN <<>> ELSE <<Nack(l)>>

\* It was not: the letter is kept for the audit, and its sender gets a notice
\* unless the letter is a notice itself.
SendBack == /\ carried # <<>> /\ ~carried[2]
            /\ orphans' = orphans \cup {carried[1]}
            /\ central' = central \o Notice(carried[1])
            /\ carried' = <<>>
            /\ UNCHANGED <<home, inbox, readerVars, posted>>

--------------------------------------------------------------------------------
(* consume_mailbox: drain the messages, then the instructions *)

Wanted(o) == IF reader[o] \in {"messages", "messagesBack"} THEN "message" ELSE "steer"
AfterScan == [messages |-> "messagesBack", steers |-> "steersBack"]
AfterBack == [messagesBack |-> "steers", steersBack |-> "idle"]

Consume(o) == /\ home[o] # "new"
              /\ reader[o] = "idle"
              /\ reader' = [reader EXCEPT ![o] = "messages"]
              /\ UNCHANGED <<home, dispatcherVars, inbox, rest, read, posted>>

TakeOne(o) == /\ reader[o] \in DOMAIN AfterScan /\ inbox[o] # <<>>
              /\ LET l == Head(inbox[o]) IN
                 IF l.type = Wanted(o)
                 THEN read' = [read EXCEPT ![o] = Append(@, l)] /\ UNCHANGED rest
                 ELSE rest' = [rest EXCEPT ![o] = Append(@, l)] /\ UNCHANGED read
              /\ inbox' = [inbox EXCEPT ![o] = Tail(@)]
              /\ UNCHANGED <<home, dispatcherVars, reader, posted>>

\* Mutant: drain() instead of drain_by_type, the other letters are dropped.
FindsEmptyAndForgets(o) == /\ reader[o] \in DOMAIN AfterScan /\ inbox[o] = <<>>
                           /\ reader' = [reader EXCEPT ![o] = AfterScan[@]]
                           /\ rest' = [rest EXCEPT ![o] = <<>>]
                           /\ UNCHANGED <<home, dispatcherVars, inbox, read, posted>>

FindsEmpty(o) == /\ reader[o] \in DOMAIN AfterScan /\ inbox[o] = <<>>
                 /\ reader' = [reader EXCEPT ![o] = AfterScan[@]]
                 /\ UNCHANGED <<home, dispatcherVars, inbox, rest, read, posted>>

\* The letters of other types go back to the end of the box, one by one, while
\* the Dispatcher may put new ones there.
PutBack(o) == /\ reader[o] \in DOMAIN AfterBack /\ rest[o] # <<>>
              /\ inbox' = [inbox EXCEPT ![o] = Append(@, Head(rest[o]))]
              /\ rest' = [rest EXCEPT ![o] = Tail(@)]
              /\ UNCHANGED <<home, dispatcherVars, reader, read, posted>>

AllBack(o) == /\ reader[o] \in DOMAIN AfterBack /\ rest[o] = <<>>
              /\ reader' = [reader EXCEPT ![o] = AfterBack[@]]
              /\ UNCHANGED <<home, dispatcherVars, inbox, rest, read, posted>>

--------------------------------------------------------------------------------
DispatcherStep == PickUp \/ PutInInbox \/ SendBack
ReaderStep(o) == TakeOne(o) \/ FindsEmpty(o) \/ PutBack(o) \/ AllBack(o)

Senders == Owners \cup {Outsider}

Next == \/ \E o \in Owners : Register(o) \/ Unregister(o) \/ Consume(o) \/ ReaderStep(o)
        \/ \E from \in Senders, to \in Owners :
              from # to /\ (Steer(from, to) \/ SendMessage(from, to) \/ SendResult(from, to))
        \/ DispatcherStep

Spec == Init /\ [][Next]_vars

\* The Dispatcher is a thread of its own that only waits for letters; an agent that
\* has begun to consume its mail comes to the end of it.
FairSpec == Spec /\ WF_vars(DispatcherStep) /\ \A o \in Owners : WF_vars(ReaderStep(o))

--------------------------------------------------------------------------------
(* Properties *)

Types == {"message", "steer", "result", "nack"}
Letters == [type : Types, from : Senders, to : Senders, no : 1..MaxPosts]

TypeOK == /\ posted \in 0..MaxPosts
          /\ home \in [Owners -> {"new", "open", "closed"}]
          /\ central \in Seq(Letters) /\ orphans \subseteq Letters
          /\ carried = <<>> \/ carried \in Letters \X BOOLEAN
          /\ reader \in [Owners -> {"idle"} \cup DOMAIN AfterScan \cup DOMAIN AfterBack]
          /\ inbox \in [Owners -> Seq(Letters)] /\ rest \in [Owners -> Seq(Letters)]
          /\ read \in [Owners -> Seq(Letters)]

\* The mail keeps its promise: whatever the interleaving of senders, Dispatcher and
\* readers, and whoever is unregistered meanwhile, no letter is lost, doubled, or
\* returned to its sender although the addressee is there.
Held(o) == Range(inbox[o]) \cup Range(rest[o])

Office == INSTANCE PostOffice WITH
    moving <- Range(central) \cup (IF carried = <<>> THEN {} ELSE {carried[1]}),
    held <- UNION {Held(o) : o \in Owners},
    taken <- UNION {Range(read[o]) : o \in Owners},
    returned <- orphans

ImplementsOffice == Office!Promise

\* A letter that was sent arrives, or its sender is told that it did not; the
\* notice, in turn, arrives or is kept for the audit if there is no such sender.
InBoxes == UNION {Held(o) \cup Range(read[o]) : o \in Owners}
Arrived(n) == \E l \in InBoxes : l.no = n /\ l.type # "nack"
Told(n) == \E l \in InBoxes \cup orphans : l.no = n /\ l.type = "nack"
Returned(n) == \E l \in orphans : l.no = n /\ l.type # "nack"

EveryLetterSettles == \A n \in 1..MaxPosts :
    (posted >= n) ~> (Arrived(n) \/ (Returned(n) /\ Told(n)))
================================================================================
