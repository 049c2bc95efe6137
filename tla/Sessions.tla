-------------------------------- MODULE Sessions --------------------------------
(***************************************************************************)
(* Sessions as the Gateway keeps them: the rows in the database, the       *)
(* registry of context objects by session id, and the threads that serve   *)
(* message/send, session/create, session/resume, session/stop,             *)
(* session/delete and context/clear, in any order and at the same time.    *)
(* The process may crash and come back with nothing but the database.      *)
(*                                                                         *)
(* A context object is made by create or resume; a session may have had    *)
(* several.  A history is a sequence of questions and answers; the system  *)
(* message, slots and tool steps belong to RunProtocol.                    *)
(***************************************************************************)
EXTENDS Naturals, Sequences, SaveContext

CONSTANTS
    Ids,          \* session ids
    Workspaces,   \* workspaces that may be registered
    Unbound,      \* "no workspace"
    Turns,        \* calls of message/send
    MaxContexts,  \* bound: context objects made by create and resume
    MaxEvents     \* bound: stops, clears, deletes, crashes, changes of
                  \* workspaces and failures together

Contexts == 1..MaxContexts
Nobody == 0

ASSUME SessionsAssumption == /\ Unbound \notin Workspaces
                             /\ Nobody \notin Workspaces \cup {Unbound}
                             /\ MaxContexts \in Nat /\ MaxEvents \in Nat

Message == [role : {"question", "answer"}, turn : Turns]

VARIABLES
    kept,      \* the sessions with a row in table sessions
    rows,      \* table messages, for each session
    binding,   \* column workspace_id
    known,     \* table workspaces, the rows that are not removed
    maker,     \* how far create or resume has come with each context object
    owner,     \* context.id
    space,     \* context.workspace
    messages,  \* context.messages
    status, stopFlag,  \* context.status, _stop_flag; who waits for _done is woken
    listed,    \* AgentManager.contexts
    caller,    \* program counter of the thread of each message/send
    worker,    \* program counter of its worker
    at,        \* the context it runs on
    pending,   \* what its save_context has encoded, and whether that list was emptied since
    cleaner,   \* program counter of context/clear, and the context it works on
    deleter,   \* program counter of session/delete
    left,      \* how many of these events may still come (bound)
    birth,     \* history: the workspace each session was created with
    erased,    \* history: the turns that were cleared or deleted
    overtaken, \* history: the sessions that were written from an outdated copy
    reborn     \* history: the sessions that a save has inserted again

storeVars == <<kept, rows, binding, known>>
ctxVars == <<maker, owner, space, messages, status, stopFlag>>
turnVars == <<caller, worker, at, pending>>
opVars == <<cleaner, deleter, left>>
ghosts == <<birth, erased, overtaken, reborn>>
vars == <<storeVars, ctxVars, listed, turnVars, opVars, ghosts>>

NothingPending == [encoded |-> <<>>, emptied |-> FALSE]

Init == /\ kept = {} /\ rows = [s \in Ids |-> <<>>] /\ known = Workspaces
        /\ binding = [s \in Ids |-> Unbound]
        /\ maker = [c \in Contexts |-> "new"]
        /\ owner = [c \in Contexts |-> Nobody]
        /\ space = [c \in Contexts |-> Unbound]
        /\ messages = [c \in Contexts |-> <<>>]
        /\ status = [c \in Contexts |-> "idle"]
        /\ stopFlag = [c \in Contexts |-> FALSE]
        /\ listed = [s \in Ids |-> Nobody]
        /\ caller = [t \in Turns |-> "idle"] /\ worker = [t \in Turns |-> "none"]
        /\ at = [t \in Turns |-> Nobody]
        /\ pending = [t \in Turns |-> NothingPending]
        /\ cleaner = [s \in Ids |-> [pc |-> "idle", at |-> Nobody]]
        /\ deleter = [s \in Ids |-> "idle"]
        /\ left = MaxEvents
        /\ birth = [s \in Ids |-> Nobody] /\ erased = {} /\ overtaken = {} /\ reborn = {}

--------------------------------------------------------------------------------
(* Making a context object *)

Spend == left > 0 /\ left' = left - 1

Next0(c) == maker[c] = "new" /\ \A d \in 1..(c - 1) : maker[d] # "new"
MakerGoes(c, from, to) == maker[c] = from /\ maker' = [maker EXCEPT ![c] = to]
Usable(w) == w = Unbound \/ w \in known

\* SQLiteStore.create_session
Inserts(s, w) == kept' = kept \cup {s} /\ binding' = [binding EXCEPT ![s] = w]

\* _create_session: nobody knows the new id before the call returns.
Create(s, w) == \E c \in Contexts :
    /\ birth[s] = Nobody /\ Usable(w) /\ Next0(c)
    /\ MakerGoes(c, "new", "ready")
    /\ owner' = [owner EXCEPT ![c] = s] /\ space' = [space EXCEPT ![c] = w]
    /\ listed' = [listed EXCEPT ![s] = c]
    /\ Inserts(s, w)
    /\ birth' = [birth EXCEPT ![s] = w]
    /\ UNCHANGED <<rows, known, messages, status, stopFlag, turnVars, opVars,
                   erased, overtaken, reborn>>

\* Mutant: the resumed context gets no workspace.
SpaceForgotten(s) == Unbound
SpaceOf(s) == binding[s]

\* _resume_session: load the rows and refuse a removed workspace ...
ResumeLoads(s) == \E c \in Contexts :
    /\ s \in kept /\ Usable(binding[s]) /\ Next0(c)
    /\ MakerGoes(c, "new", "loaded")
    /\ owner' = [owner EXCEPT ![c] = s] /\ space' = [space EXCEPT ![c] = SpaceOf(s)]
    /\ messages' = [messages EXCEPT ![c] = rows[s]]
    /\ UNCHANGED <<storeVars, status, stopFlag, listed, turnVars, opVars, ghosts>>

\* ... and enter the new context into the registry, whoever was there before.
ResumeLists(c) == /\ MakerGoes(c, "loaded", "ready")
                  /\ listed' = [listed EXCEPT ![owner[c]] = c]
                  /\ overtaken' = IF messages[c] = rows[owner[c]] THEN overtaken
                                  ELSE overtaken \cup {owner[c]}
                  /\ UNCHANGED <<storeVars, owner, space, messages, status, stopFlag,
                                 turnVars, opVars, birth, erased, reborn>>

--------------------------------------------------------------------------------
(* message/send: the thread in AgentManager.run and its worker *)

CallerGoes(t, from, to) == caller[t] = from /\ caller' = [caller EXCEPT ![t] = to]
WorkerGoes(t, from, to) == worker[t] = from /\ worker' = [worker EXCEPT ![t] = to]
Of(t) == owner[at[t]]

\* Everybody who waits on the done event of c is woken, also if it is cleared at once.
Woken(c) == [t \in Turns |-> IF caller[t] = "waiting" /\ at[t] = c THEN "woken" ELSE caller[t]]

Holds(c, log) == messages' = [messages EXCEPT ![c] = log]

\* run() is entered, the worker started and the question appended.
Send(t, s) == LET c == listed[s] IN
    /\ c # Nobody /\ status[c] # "running"
    /\ CallerGoes(t, "idle", "waiting") /\ WorkerGoes(t, "none", "thinking")
    /\ at' = [at EXCEPT ![t] = c]
    /\ status' = [status EXCEPT ![c] = "running"]
    /\ stopFlag' = [stopFlag EXCEPT ![c] = FALSE]
    /\ Holds(c, Append(messages[c], [role |-> "question", turn |-> t]))
    /\ UNCHANGED <<storeVars, maker, owner, space, listed, pending, opVars,
                   birth, erased, overtaken, reborn>>

\* The turn ends by itself: with an answer, or with an exception (fail_chat).
Ends(t, how, last) == /\ WorkerGoes(t, "thinking", how)
                      /\ status' = [status EXCEPT ![at[t]] = last]
                      /\ caller' = Woken(at[t])
                      /\ UNCHANGED <<storeVars, maker, owner, space, stopFlag, listed, at,
                                     pending, cleaner, deleter, birth, erased, overtaken, reborn>>

Answers(t) == /\ Ends(t, "answered", "completed")
              /\ ~stopFlag[at[t]]
              /\ Holds(at[t], Append(messages[at[t]], [role |-> "answer", turn |-> t]))
              /\ UNCHANGED left
Fails(t) == Ends(t, "failed", "failed") /\ Spend /\ UNCHANGED messages

\* The worker sees the flag and leaves without writing.
GivesUp(t) == /\ WorkerGoes(t, "thinking", "stopped")
              /\ stopFlag[at[t]]
              /\ UNCHANGED <<storeVars, ctxVars, listed, caller, at, pending, opVars, ghosts>>

\* wait_stop_or_done returns, and _persist encodes the history: at once after a
\* stop, otherwise when the worker has ended, which must be within the grace period
\* (also when a clear has taken flag and event back).
Encodes(t, to) == /\ CallerGoes(t, "woken", to)
                  /\ pending' = [pending EXCEPT ![t] = [encoded |-> messages[at[t]],
                                                        emptied |-> FALSE]]
                  /\ UNCHANGED <<storeVars, ctxVars, listed, worker, at, opVars, ghosts>>

Interrupted(t) == Encodes(t, "savingStop") /\ stopFlag[at[t]]
Finished(t) == Encodes(t, "saving") /\ ~stopFlag[at[t]] /\ worker[t] # "thinking"
GraceTimeout(t) == /\ CallerGoes(t, "woken", "abandoned")
                   /\ ~stopFlag[at[t]] /\ worker[t] = "thinking"
                   /\ UNCHANGED <<storeVars, ctxVars, listed, worker, at, pending, opVars, ghosts>>

\* ... then it compares and writes, in one transaction.
Live(t) == IF pending[t].emptied THEN <<>> ELSE messages[at[t]]

\* A session that is not there is inserted, without a workspace.
Saves(s, enc, live) == /\ rows' = [rows EXCEPT ![s] = Committed(rows[s], enc, live)]
                       /\ kept' = kept \cup {s}
                       /\ binding' = IF s \in kept THEN binding
                                     ELSE [binding EXCEPT ![s] = Unbound]
                       /\ reborn' = IF s \in kept THEN reborn ELSE reborn \cup {s}
                       /\ UNCHANGED known

\* The reply is handed out if the session is still registered.
Reply(t) == IF listed[Of(t)] = Nobody THEN "not found"
            ELSE IF caller[t] = "savingStop" THEN "stopped"
            ELSE IF worker[t] = "answered" THEN "replied" ELSE "error"

Commit(t) == /\ caller[t] \in {"saving", "savingStop"}
             /\ caller' = [caller EXCEPT ![t] = Reply(t)]
             /\ Saves(Of(t), pending[t].encoded, Live(t))
             /\ overtaken' = IF pending[t].emptied \/ listed[Of(t)] # at[t]
                             THEN overtaken \cup {Of(t)} ELSE overtaken
             /\ pending' = [pending EXCEPT ![t] = NothingPending]
             /\ UNCHANGED <<ctxVars, listed, worker, at, opVars, birth, erased>>

\* Mutant: a failing save is only logged.
FailureIgnored(t) == /\ caller[t] \in {"saving", "savingStop"}
                     /\ caller' = [caller EXCEPT ![t] = Reply(t)]
                     /\ pending' = [pending EXCEPT ![t] = NothingPending] /\ Spend
                     /\ UNCHANGED <<storeVars, ctxVars, listed, worker, at, cleaner, deleter,
                                    ghosts>>

CommitFails(t) == /\ caller[t] \in {"saving", "savingStop"}
                  /\ caller' = [caller EXCEPT ![t] = "unsaved"]
                  /\ pending' = [pending EXCEPT ![t] = NothingPending] /\ Spend
                  /\ UNCHANGED <<storeVars, ctxVars, listed, worker, at, cleaner, deleter,
                                 ghosts>>

--------------------------------------------------------------------------------
(* Control: stop, clear, delete, crash *)

\* Mutant: a stop does not set the event.
StopSilently(c) == /\ stopFlag' = [stopFlag EXCEPT ![c] = TRUE]
                   /\ status' = [status EXCEPT ![c] = IF @ = "running" THEN "stopped" ELSE @]
                   /\ UNCHANGED caller

\* context.stop(), one step here; RunProtocol has its parts.
StopContext(c) == /\ stopFlag' = [stopFlag EXCEPT ![c] = TRUE]
                  /\ status' = [status EXCEPT ![c] = IF @ = "running" THEN "stopped" ELSE @]
                  /\ caller' = Woken(c)

StopIfRunning(c) == IF c # Nobody /\ status[c] = "running" THEN StopContext(c)
                    ELSE UNCHANGED <<status, stopFlag, caller>>

Stop(s) == /\ listed[s] # Nobody /\ Spend
           /\ StopContext(listed[s])
           /\ UNCHANGED <<storeVars, maker, owner, space, messages, listed, worker, at,
                          pending, cleaner, deleter, ghosts>>

CleanerGoes(s, from, to, c) == /\ cleaner[s].pc = from
                               /\ cleaner' = [cleaner EXCEPT ![s] = [pc |-> to, at |-> c]]

\* _context_clear: stop what runs, ...
ClearStops(s) == /\ listed[s] # Nobody /\ Spend
                 /\ CleanerGoes(s, "idle", "resetting", listed[s])
                 /\ StopIfRunning(listed[s])
                 /\ UNCHANGED <<storeVars, maker, owner, space, messages, listed, worker, at,
                                pending, deleter, ghosts>>

TurnsOf(s) == {t \in Turns : at[t] # Nobody /\ Of(t) = s}

\* ... reset_session: empty the list, take the flag and the event back, ...
ClearResets(s) == LET c == cleaner[s].at IN
    /\ CleanerGoes(s, "resetting", "saving", c)
    /\ Holds(c, <<>>)
    /\ status' = [status EXCEPT ![c] = "idle"]
    /\ stopFlag' = [stopFlag EXCEPT ![c] = FALSE]
    /\ pending' = [t \in Turns |-> IF at[t] = c /\ caller[t] \in {"saving", "savingStop"}
                                   THEN [pending[t] EXCEPT !.emptied = TRUE] ELSE pending[t]]
    /\ erased' = erased \cup TurnsOf(s)
    /\ UNCHANGED <<storeVars, maker, owner, space, listed, caller, worker, at, deleter, left,
                   birth, overtaken, reborn>>

\* ... and save what is left, which may fail.
ClearSaves(s) == LET c == cleaner[s].at IN
    /\ CleanerGoes(s, "saving", "idle", Nobody)
    /\ Saves(s, messages[c], messages[c])
    /\ overtaken' = IF listed[s] # c THEN overtaken \cup {s} ELSE overtaken
    /\ UNCHANGED <<ctxVars, listed, turnVars, deleter, left, birth, erased>>
ClearFails(s) == /\ CleanerGoes(s, "saving", "idle", Nobody) /\ Spend
                 /\ UNCHANGED <<storeVars, ctxVars, listed, turnVars, deleter, ghosts>>

DeleterGoes(s, from, to) == deleter[s] = from /\ deleter' = [deleter EXCEPT ![s] = to]

\* _session_delete: stop what runs, ...
DeleteStops(s) == /\ birth[s] # Nobody /\ Spend
                  /\ DeleterGoes(s, "idle", "unlisting")
                  /\ StopIfRunning(listed[s])
                  /\ UNCHANGED <<storeVars, maker, owner, space, messages, listed, worker, at,
                                 pending, cleaner, ghosts>>

\* ... unregister the context, if there is one, ...
DeleteUnlists(s) == /\ DeleterGoes(s, "unlisting", "erasing")
                    /\ listed' = [listed EXCEPT ![s] = Nobody]
                    /\ UNCHANGED <<storeVars, ctxVars, turnVars, cleaner, left, ghosts>>

\* ... and delete the rows.
DeleteRows(s) == /\ DeleterGoes(s, "erasing", "idle")
                 /\ kept' = kept \ {s} /\ rows' = [rows EXCEPT ![s] = <<>>]
                 /\ binding' = [binding EXCEPT ![s] = Unbound]
                 /\ erased' = erased \cup TurnsOf(s)
                 /\ UNCHANGED <<known, ctxVars, listed, turnVars, cleaner, left,
                                birth, overtaken, reborn>>

\* The row of a workspace is marked as removed, and the mark taken back when the
\* same path is added again; sessions that are bound to it are not touched.
Marks(spaces) == /\ Spend /\ known' = spaces
                 /\ UNCHANGED <<kept, rows, binding, ctxVars, listed, turnVars,
                                cleaner, deleter, ghosts>>

RemoveWorkspace(w) == w \in known /\ Marks(known \ {w})
AddWorkspace(w) == w \notin known /\ Marks(known \cup {w})

\* The process ends and is started again: only the database is left.
Ended == {"replied", "stopped", "error", "not found", "unsaved", "abandoned", "crashed"}
InFlight(t) == caller[t] \notin Ended \cup {"idle"}

Crash == /\ Spend
         /\ listed' = [s \in Ids |-> Nobody]
         /\ maker' = [c \in Contexts |-> IF maker[c] = "new" THEN "new" ELSE "ready"]
         /\ caller' = [t \in Turns |-> IF InFlight(t) THEN "crashed" ELSE caller[t]]
         /\ worker' = [t \in Turns |-> IF worker[t] = "thinking" THEN "failed" ELSE worker[t]]
         /\ cleaner' = [s \in Ids |-> [pc |-> "idle", at |-> Nobody]]
         /\ deleter' = [s \in Ids |-> "idle"]
         /\ messages' = [c \in Contexts |-> <<>>]
         /\ status' = [c \in Contexts |-> "idle"]
         /\ stopFlag' = [c \in Contexts |-> FALSE]
         /\ pending' = [t \in Turns |-> NothingPending]
         /\ UNCHANGED <<storeVars, owner, space, at, ghosts>>

--------------------------------------------------------------------------------
CallerStep(t) == \/ Interrupted(t) \/ Finished(t) \/ GraceTimeout(t)
                 \/ Commit(t) \/ CommitFails(t)
WorkerStep(t) == Answers(t) \/ Fails(t) \/ GivesUp(t)
ControlStep(s) == \/ ClearResets(s) \/ ClearSaves(s) \/ ClearFails(s)
                  \/ DeleteUnlists(s) \/ DeleteRows(s)

Next == \/ \E s \in Ids : \/ \E w \in Workspaces \cup {Unbound} : Create(s, w)
                          \/ ResumeLoads(s) \/ Stop(s) \/ ClearStops(s) \/ DeleteStops(s)
                          \/ ControlStep(s)
        \/ \E c \in Contexts : ResumeLists(c)
        \/ \E t \in Turns : (\E s \in Ids : Send(t, s)) \/ CallerStep(t) \/ WorkerStep(t)
        \/ \E w \in Workspaces : RemoveWorkspace(w) \/ AddWorkspace(w)
        \/ Crash

Spec == Init /\ [][Next]_vars

--------------------------------------------------------------------------------
(* Properties *)

TypeOK == /\ kept \subseteq Ids /\ rows \in [Ids -> Seq(Message)]
          /\ binding \in [Ids -> Workspaces \cup {Unbound}] /\ known \subseteq Workspaces
          /\ maker \in [Contexts -> {"new", "loaded", "ready"}]
          /\ owner \in [Contexts -> Ids \cup {Nobody}]
          /\ space \in [Contexts -> Workspaces \cup {Unbound}]
          /\ messages \in [Contexts -> Seq(Message)]
          /\ status \in [Contexts -> {"idle", "running", "completed", "failed", "stopped"}]
          /\ stopFlag \in [Contexts -> BOOLEAN]
          /\ listed \in [Ids -> Contexts \cup {Nobody}]
          /\ caller \in [Turns -> {"idle", "waiting", "woken",
                                   "savingStop", "saving"} \cup Ended]
          /\ worker \in [Turns -> {"none", "thinking", "answered", "failed", "stopped"}]
          /\ at \in [Turns -> Contexts \cup {Nobody}]
          /\ pending \in [Turns -> [encoded : Seq(Message), emptied : BOOLEAN]]
          /\ cleaner \in [Ids -> [pc : {"idle", "resetting", "saving"},
                                  at : Contexts \cup {Nobody}]]
          /\ deleter \in [Ids -> {"idle", "unlisting", "erasing"}]

\* A save never splices two histories (sqlite_store.py:172-173), whoever saves,
\* clears or resumes: no message is in the rows of a session twice, and an answer is
\* there without its question before it only if the turn was cleared or deleted.
NoSplice == \A s \in Ids : \A j \in 1..Len(rows[s]) :
    /\ \A i \in 1..(j - 1) : rows[s][i] # rows[s][j]
    /\ rows[s][j].role = "answer" /\ rows[s][j].turn \notin erased
           => \E i \in 1..(j - 1) : rows[s][i] = [role |-> "question", turn |-> rows[s][j].turn]

\* A reply that was handed out is in the database with its question, also after a
\* crash, until the session is cleared or deleted -- unless somebody wrote the
\* session from a copy that was already outdated: a resume that loaded before the
\* last save, a turn on a context that is no longer registered, or a save that was
\* encoded before a clear.
HasTurn(log, t) == \E i, j \in 1..Len(log) :
    i < j /\ log[i] = [role |-> "question", turn |-> t] /\ log[j] = [role |-> "answer", turn |-> t]
ReplySurvives == \A t \in Turns : caller[t] = "replied" /\ t \notin erased /\ Of(t) \notin overtaken
                                      => HasTurn(rows[Of(t)], t)

\* The registered context of a session is bound to the workspace that the session
\* was created with, after any resume, crash or removal of workspaces, unless a
\* late save has inserted the deleted session again.
WorkspaceKept == \A s \in Ids : listed[s] # Nobody => \/ space[listed[s]] = birth[s]
                                                      \/ s \in reborn

\* Whoever waits for a turn waits for a worker that will end it and say so: no stop,
\* clear, delete or resume takes the wake-up away (context.py:244-245 has the rule).
NobodyWaitsInVain == \A t \in Turns : caller[t] = "waiting" => /\ worker[t] = "thinking"
                                                               /\ ~stopFlag[at[t]]

\* What tests/test_gateway_s1.py:118 expects of deleting a running session: it is
\* gone from the database.  (A turn that ends after the delete saves it again.)
DeletedStaysDeleted == [][\A s \in Ids : birth[s] # Nobody /\ s \notin kept
                                             => s \notin kept']_vars
================================================================================
