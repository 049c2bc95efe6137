------------------------------- MODULE Evaluation -------------------------------
(***************************************************************************)
(* The evaluation gateway: each case of an evaluation run asks the server  *)
(* to prepare (eval/prepare), has one conversation with a session of its   *)
(* own and asks it to clean up (eval/cleanup).  The facts the agent        *)
(* remembers and its list of todos belong to the machine and the process,  *)
(* not to the session, so prepare keeps a copy of the file of facts and    *)
(* cleanup writes it back.                                                 *)
(*                                                                         *)
(* Actors: for each case its client (gateway_runner), the server thread of *)
(* its prepare or cleanup, and the thread of its turn.  The clients may    *)
(* belong to several runs that use the same server, which ends with the    *)
(* run that started it.                                                    *)
(***************************************************************************)
EXTENDS MemoryStore

CONSTANTS
    Cases,      \* cases, each run by a client of its own
    Seeded,     \* those with todos among their preconditions
    Long,       \* those with ten turns, after which facts are extracted
    Old,        \* a fact that was remembered before
    MaxFaults   \* bound: clients that die, preconditions that are refused,
                \* prepares and restores that fail, servers that are stopped

Nobody == 0

ASSUME EvaluationAssumption ==
    /\ Seeded \subseteq Cases /\ Long \subseteq Cases
    /\ Nobody \notin Cases /\ Old \notin Cases /\ Absent \notin Cases
    /\ MaxFaults \in Nat

VARIABLES
    memory,    \* the file of facts; the fact of a case is the case itself
    todos,     \* who has an entry in the process-wide TodoStore
    lock,      \* EvaluationGateway._lock
    fixtures,  \* EvaluationGateway._fixtures
    snapshot,  \* _EvalFixture._memory_snapshot
    sessions,  \* the sessions of cases in the registry or in storage
    client,    \* program counter of _run_one
    handler,   \* program counter of _prepare, _cleanup
    writer,    \* program counter of the turn, with _auto_remember
    held,      \* what it has read from the file
    replied,   \* the cases whose message/send has been answered
    faults,    \* faults so far (bound)
    excused    \* history: the cases whose facts somebody else could still write

clients == <<client, faults>>
server == <<todos, lock, fixtures, snapshot, sessions, handler>>
writing == <<writer, held, replied>>
vars == <<memory, server, clients, writing, excused>>

Init == /\ memory \in {Absent, <<Old>>} /\ todos = {}
        /\ lock = Nobody /\ fixtures = {}
        /\ snapshot = [c \in Cases |-> Absent] /\ sessions = {}
        /\ client = [c \in Cases |-> "new"] /\ handler = [c \in Cases |-> "idle"]
        /\ writer = [c \in Cases |-> "none"]
        /\ held = [c \in Cases |-> Absent]
        /\ replied = {} /\ faults = 0 /\ excused = {}

--------------------------------------------------------------------------------
(* The client: _run_one *)

ClientGoes(c, from, to) == client[c] = from /\ client' = [client EXCEPT ![c] = to]
HandlerGoes(c, from, to) == handler[c] = from /\ handler' = [handler EXCEPT ![c] = to]
WriterGoes(c, from, to) == writer[c] = from /\ writer' = [writer EXCEPT ![c] = to]
Fault == faults < MaxFaults /\ faults' = faults + 1

PrepareAsked(c) == /\ ClientGoes(c, "new", "preparing") /\ HandlerGoes(c, "idle", "preparing")
                   /\ UNCHANGED <<memory, todos, lock, fixtures, snapshot, sessions, faults,
                                  writing, excused>>

\* An error of prepare ends the whole run: it comes before the try.
GivesUp(c) == /\ handler[c] = "refused" /\ ClientGoes(c, "preparing", "failed")
              /\ UNCHANGED <<memory, server, faults, writing, excused>>

Sends(c) == /\ handler[c] = "prepared" /\ ClientGoes(c, "preparing", "sending")
            /\ WriterGoes(c, "none", "thinking")
            /\ UNCHANGED <<memory, server, faults, held, replied, excused>>

\* Mutant: a case that ran out of time is not cleaned up.
JustFails == "failed"
AfterTimeout == "cleaning"

\* After the reply the client asks for the evidence (eval/inspect), which the server
\* gives for a prepared case that still has its context.  It takes no part in what follows.
Inspects(c) == /\ c \in replied /\ c \in fixtures /\ c \in sessions
               /\ ClientGoes(c, "sending", "inspected")
               /\ UNCHANGED <<memory, server, faults, writing, excused>>

\* The finally of _run_one, after the evidence, a timeout or an exception.
CleanupAsked(c) ==
    /\ handler[c] = "prepared"
    /\ \/ ClientGoes(c, "inspected", "cleaning")
       \/ ClientGoes(c, "sending", AfterTimeout)
    /\ handler' = [handler EXCEPT ![c] = IF client'[c] = "cleaning" THEN "cleaning" ELSE @]
    /\ UNCHANGED <<memory, todos, lock, fixtures, snapshot, sessions, faults, writing, excused>>

Finishes(c) == /\ handler[c] = "cleaned" /\ ClientGoes(c, "cleaning", "done")
               /\ UNCHANGED <<memory, server, faults, writing, excused>>

\* The client is killed or loses its connection; the server does not notice.
Dies(c) == /\ client[c] \in {"preparing", "sending", "inspected", "cleaning"} /\ Fault
           /\ client' = [client EXCEPT ![c] = "dead"]
           /\ UNCHANGED <<memory, server, writing, excused>>

\* What a thread of the server has come to when the process ends.
CutOff(c) == IF handler[c] \in {"idle", "refused", "cleaned"} THEN handler[c] ELSE "lost"
Disconnected(c) == IF client[c] \in {"preparing", "sending", "inspected", "cleaning"}
                   THEN "failed" ELSE client[c]

\* The finally of _run_all: the run that started the server terminates it when its last
\* case is over, whoever else uses it.  The lock, the fixtures with their copies of the
\* facts and the todos are gone; the next run starts a new server.
StopsServer(c) ==
    /\ client[c] \in {"done", "failed"} /\ Fault
    /\ client' = [d \in Cases |-> IF d = c THEN "left" ELSE Disconnected(d)]
    /\ handler' = [d \in Cases |-> CutOff(d)]
    /\ writer' = [d \in Cases |-> IF writer[d] = "none" THEN "none" ELSE "ended"]
    /\ held' = [d \in Cases |-> Absent] /\ snapshot' = [d \in Cases |-> Absent]
    /\ lock' = Nobody /\ fixtures' = {} /\ todos' = {}
    /\ UNCHANGED <<memory, sessions, replied, excused>>

--------------------------------------------------------------------------------
(* eval/prepare, under the lock *)

\* Mutant: the check for another case is made without the lock.
LockIgnored(c) == TRUE
LockIsFree(c) == lock \in {Nobody, c}

Refused(c) == /\ LockIsFree(c) /\ fixtures # {} /\ HandlerGoes(c, "preparing", "refused")
              /\ UNCHANGED <<memory, todos, lock, fixtures, snapshot, sessions, clients,
                             writing, excused>>

\* A new context is registered and stored.
Registers(c) == /\ LockIsFree(c) /\ fixtures = {} /\ HandlerGoes(c, "preparing", "registered")
                /\ lock' = c /\ sessions' = sessions \cup {c}
                /\ UNCHANGED <<memory, todos, fixtures, snapshot, clients, writing, excused>>

\* _EvalFixture refuses what it is given, outside the try that would undo the registration.
Rejects(c) == /\ HandlerGoes(c, "registered", "refused") /\ Fault
              /\ lock' = Nobody
              /\ UNCHANGED <<memory, todos, fixtures, snapshot, sessions, client, writing, excused>>

\* _EvalFixture copies the file of facts as it is at this moment.
Snapshots(c) == /\ HandlerGoes(c, "registered", "copied")
                /\ snapshot' = [snapshot EXCEPT ![c] = memory]
                /\ UNCHANGED <<memory, todos, lock, fixtures, sessions, clients, writing, excused>>

\* _prepare_workspace puts a new store with the todos of the case in place, if it has any.
Workspace(c) == IF c \in Seeded THEN {c} ELSE todos

Installs(c) == /\ HandlerGoes(c, "copied", "prepared")
               /\ todos' = Workspace(c)
               /\ fixtures' = fixtures \cup {c} /\ lock' = Nobody
               /\ UNCHANGED <<memory, snapshot, sessions, clients, writing, excused>>

\* If that fails the fixture is cleaned up at once.
InstallFails(c) == /\ HandlerGoes(c, "copied", "undoing") /\ Fault
                   /\ UNCHANGED <<memory, todos, lock, fixtures, snapshot, sessions, client,
                                  writing, excused>>

--------------------------------------------------------------------------------
(* eval/cleanup: only the first step is under the lock *)

Pops(c) == /\ LockIsFree(c) /\ HandlerGoes(c, "cleaning", "restoring")
           /\ fixtures' = fixtures \ {c}
           /\ UNCHANGED <<memory, todos, lock, snapshot, sessions, clients, writing, excused>>

Running(c) == writer[c] \notin {"none", "ended"}
Undoes(c) == handler[c] \in {"restoring", "undoing"}

\* Others who have the fact of c in a copy that they may write to the file.
CopyOf(c, d) == d # c /\ Knows(snapshot[d], c)
                      /\ handler[d] \notin {"idle", "preparing", "registered", "refused", "cleaned",
                                          "lost"}
StillKnown(c) == \/ Running(c)
                 \/ \E d \in Cases : Running(d) /\ Knows(held[d], c)
                 \/ \E d \in Cases : CopyOf(c, d)
Excuse(c) == excused' = IF StillKnown(c) THEN excused \cup {c} ELSE excused

\* Writing the copy back empties the file first, as every write does.
Empties(c) == /\ Undoes(c) /\ snapshot[c] # Absent /\ memory # Empty
              /\ memory' = Empty
              /\ UNCHANGED <<server, clients, writing, excused>>

\* Mutant: a file that was not there before is left as it is.
OnlyWritten(c) == IF snapshot[c] = Absent THEN memory ELSE snapshot[c]
PutBack(c) == snapshot[c]

\* _EvalFixture.cleanup: the file as it was, or none, and an empty TodoStore.
Restores(c) == /\ snapshot[c] # Absent => memory = Empty
               /\ \/ HandlerGoes(c, "restoring", "deleting")
                  \/ HandlerGoes(c, "undoing", "undone")
               /\ memory' = PutBack(c) /\ Excuse(c)
               /\ todos' = IF c \in Seeded THEN {} ELSE todos
               /\ UNCHANGED <<lock, fixtures, snapshot, sessions, clients, writing>>

\* Its error is kept for the reply.
RestoreFails(c) == /\ HandlerGoes(c, "restoring", "deleting") /\ Fault
                   /\ excused' = excused \cup {c}
                   /\ UNCHANGED <<memory, todos, lock, fixtures, snapshot, sessions, client, writing>>

\* _session_delete
Deletes(c) == /\ \/ HandlerGoes(c, "deleting", "cleaned")
                 \/ HandlerGoes(c, "undone", "refused")
              /\ sessions' = sessions \ {c}
              /\ lock' = IF lock = c THEN Nobody ELSE lock
              /\ UNCHANGED <<memory, todos, fixtures, snapshot, clients, writing, excused>>

--------------------------------------------------------------------------------
(* The turn of a case *)

\* The agent writes down a todo.
AddsTodo(c) == /\ writer[c] = "thinking" /\ c \notin todos
               /\ todos' = todos \cup {c}
               /\ UNCHANGED <<memory, lock, fixtures, snapshot, sessions, handler, clients,
                              writing, excused>>

\* After a fact, the turn is stored and answered; the extraction of facts comes last.
AfterMemory(c) == IF c \in replied THEN "ended" ELSE "saving"

\* There is nothing to remember, or the turn was stopped before.
RemembersNothing(c) == /\ writer[c] \in {"thinking", "extracting"}
                       /\ writer' = [writer EXCEPT ![c] = AfterMemory(c)]
                       /\ UNCHANGED <<memory, server, clients, held, replied, excused>>

\* _auto_remember or the extraction adds a fact: it is read whether it is known ...
Reads(c) == /\ writer[c] \in {"thinking", "extracting"}
            /\ writer' = [writer EXCEPT ![c] = IF Knows(memory, c) THEN AfterMemory(c) ELSE "reading"]
            /\ held' = [held EXCEPT ![c] = IF Knows(memory, c) THEN Absent ELSE memory]
            /\ UNCHANGED <<memory, server, clients, replied, excused>>

\* ... the file is opened ...
Opens(c) == /\ WriterGoes(c, "reading", "cut") /\ memory' = Empty
            /\ UNCHANGED <<server, clients, held, replied, excused>>

\* ... and written.
Writes(c) == /\ WriterGoes(c, "cut", AfterMemory(c))
             /\ memory' = Added(held[c], c)
             /\ held' = [held EXCEPT ![c] = Absent]
             /\ UNCHANGED <<server, clients, replied, excused>>

\* The end of AgentManager.run: the session is stored, also one that was deleted.  After
\* the tenth turn a thread that nobody waits for goes on to extract facts.
Ends(c) == /\ \/ WriterGoes(c, "saving", "ended")
              \/ c \in Long /\ WriterGoes(c, "saving", "extracting")
           /\ sessions' = sessions \cup {c} /\ replied' = replied \cup {c}
           /\ UNCHANGED <<memory, todos, lock, fixtures, snapshot, handler, clients, held, excused>>

--------------------------------------------------------------------------------

Prepare(c) == \/ Registers(c) \/ Refused(c) \/ Snapshots(c) \/ Installs(c)
Cleanup(c) == Pops(c) \/ Empties(c) \/ Restores(c) \/ Deletes(c)
Client(c) == Sends(c) \/ Inspects(c) \/ GivesUp(c) \/ CleanupAsked(c) \/ Finishes(c)
Turn(c) == \/ Reads(c) \/ Opens(c) \/ Writes(c) \/ Ends(c)
           \/ AddsTodo(c) \/ RemembersNothing(c)
Fails(c) == Rejects(c) \/ InstallFails(c) \/ RestoreFails(c) \/ Dies(c) \/ StopsServer(c)

Next == \E c \in Cases : \/ PrepareAsked(c) \/ Client(c) \/ Prepare(c) \/ Cleanup(c)
                         \/ Fails(c) \/ Turn(c)

Spec == Init /\ [][Next]_vars

\* The server's threads run, and a client waits no longer than its timeout.
FairSpec == Spec /\ \A c \in Cases : WF_vars(Client(c)) /\ WF_vars(Prepare(c))
                                      /\ WF_vars(Cleanup(c))

--------------------------------------------------------------------------------
(* Properties *)

File == {Absent} \cup Seq(Cases \cup {Old})

TypeOK ==
    /\ memory \in File /\ todos \subseteq Cases /\ lock \in Cases \cup {Nobody}
    /\ {fixtures, sessions, replied, excused} \subseteq SUBSET Cases
    /\ snapshot \in [Cases -> File] /\ held \in [Cases -> File]
    /\ client \in [Cases -> {"new", "preparing", "sending", "inspected", "cleaning", "done",
                          "failed", "dead", "left"}]
    /\ handler \in [Cases -> {"idle", "preparing", "registered", "copied", "undoing", "undone",
                             "refused", "prepared", "cleaning", "restoring", "deleting", "cleaned",
                             "lost"}]
    /\ writer \in [Cases -> {"none", "thinking", "reading", "cut", "saving", "extracting", "ended"}]
    /\ faults \in 0..MaxFaults

\* There is one case at a time between a successful check and its cleanup,
\* whichever clients ask: "only serial cases" (evaluation_gateway.py:165).
CasesAreSerial == \A c, d \in fixtures : c = d

\* After its cleanup nothing of a case is left in the file of facts, in the
\* todos or among the sessions, unless its turn outlived it, the restore
\* failed, or somebody else held a copy of the file at that moment.
CaseLeavesNoTrace == \A c \in Cases :
    handler[c] = "cleaned" /\ c \notin excused =>
        /\ ~Knows(memory, c)
        /\ c \notin sessions
        /\ c \in Seeded => c \notin todos

\* Every fixture is removed again, if only its client lives: also after a
\* timeout, since no other case can run before.
EveryCaseIsCleanedUp ==
    \A c \in Cases : c \in fixtures ~> c \notin fixtures \/ client[c] = "dead"
================================================================================
