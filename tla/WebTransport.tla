------------------------------ MODULE WebTransport ------------------------------
(***************************************************************************)
(* The way of a request from a browser to the kernel and of replies and    *)
(* notices back.  The web server (web/server.py) shares one websocket to   *)
(* the kernel among all browsers: ServeBridge.call numbers the requests,   *)
(* its pump is the only reader and gives replies to whoever waits for      *)
(* their number and notices to every browser.  The kernel (serve.py) makes *)
(* a task of each frame, which a thread of the executor's pool dispatches; *)
(* threads hand what they have to say to the event loop, which puts it     *)
(* into the one queue that the connection's send worker empties.  Queues   *)
(* in series keep the order and are one queue here: socket and executor on *)
(* the way in, event loop, send queue and socket on the way out.           *)
(***************************************************************************)
EXTENDS Naturals, Sequences, FiniteSets, SequencesExt

CONSTANTS
    Turns,          \* message/send requests
    Dangerous,      \* bound: those that call tools, which takes an approval
    SessionOf,      \* the session of each turn
    Browsers, Asker,    \* the browser that asks for each turn
    Threads,        \* size of the executor's pool
    MaxTools,       \* bound: tool results of a turn
    MaxFaults       \* bound: closed browsers, a closed kernel connection, stops, late replies

ASSUME BoundsAssumption ==
    /\ Threads \in Nat \ {0} /\ MaxTools \in Nat /\ MaxFaults \in Nat
    /\ Asker \in [Turns -> Browsers] /\ IsFiniteSet(Turns) /\ Dangerous \subseteq Turns
    /\ DOMAIN SessionOf = Turns

Requests == {"send"} \X Turns \cup {"respond"} \X Dangerous
Sessions == Range(SessionOf)

None == <<>>

VARIABLES
    online, seen,               \* browsers: who is there, and what each has received
    task, got,                  \* _respond tasks, and the reply each was handed
    nextId, ident, pending,     \* ServeBridge: numbers, and who waits for which
    lock,                       \* _request_lock
    pump, listeners,            \* what the pump is at, and _listeners
    up, toKernel, toWeb,        \* the websocket between web server and kernel
    busy,                       \* the executor's threads that run a turn
    turnAt, allowed, stopped,   \* the turns
    feed,                       \* _feed_stats: tool_calls of the session's turn
    faults

browsers == <<online, seen>>
web == <<task, got, nextId, ident, pending, lock, pump, listeners>>
wire == <<up, toKernel, toWeb>>
kernel == <<busy, turnAt, allowed, stopped, feed>>
vars == <<browsers, web, wire, kernel, faults>>

Init ==
    /\ online = Browsers /\ seen = [b \in Browsers |-> <<>>]
    /\ task = [r \in Requests |-> "new"] /\ got = [r \in Requests |-> None]
    /\ nextId = 1 /\ ident = [r \in Requests |-> 0] /\ pending = <<>>
    /\ lock = None /\ pump = None
    /\ listeners = Browsers
    /\ up = TRUE /\ toKernel = <<>> /\ toWeb = <<>>
    /\ busy = {} /\ turnAt = [t \in Turns |-> "no"]
    /\ allowed = {} /\ stopped = {} /\ feed = [s \in Sessions |-> 0]
    /\ faults = 0

Frame(i, r) == [id |-> i, req |-> r]
Reply(f, says) == [kind |-> "reply", id |-> f.id, req |-> f.req, says |-> says]
Notice(kind, t, n) == [kind |-> kind, turn |-> t, count |-> n]
Shown(r, f) == [kind |-> "reply", asked |-> r, req |-> f.req, says |-> f.says]
Failure(r) == [req |-> r, says |-> "error"]

Fault == faults < MaxFaults /\ faults' = faults + 1

--------------------------------------------------------------------------------
(* Browsers *)

Owner(r) == Asker[r[2]]
Saw(b, kind, t) == \E n \in DOMAIN seen[b] : seen[b][n].kind = kind /\ seen[b][n].turn = t

\* A question, or the answer to an approval the browser shows: a task of its own.
Asks(r) ==
    /\ task[r] = "new" /\ Owner(r) \in online
    /\ r[1] = "respond" => Saw(Owner(r), "approval", r[2])
    /\ task' = [task EXCEPT ![r] = "queued"]
    /\ UNCHANGED <<browsers, got, nextId, ident, pending, lock, pump, listeners,
                   wire, kernel, faults>>

Leaves(b) == /\ b \in online /\ Fault
             /\ online' = online \ {b}
             /\ UNCHANGED <<seen, web, wire, kernel>>

--------------------------------------------------------------------------------
(* ServeBridge.call *)

\* Mutant: the smallest number that nobody waits for.
ReusedId == CHOOSE i \in 1..nextId : /\ i \notin DOMAIN pending
                                     /\ \A j \in 1..i - 1 : j \in DOMAIN pending

FreshId == nextId

WithEntry(i, r) == [j \in DOMAIN pending \cup {i} |-> IF j = i THEN r ELSE pending[j]]
WithoutEntry(i) == Restrict(pending, DOMAIN pending \ {i})

TakesLock(r) ==
    /\ task[r] = "queued" /\ lock = None
    /\ lock' = r
    /\ ident' = [ident EXCEPT ![r] = FreshId]
    /\ nextId' = nextId + 1
    /\ pending' = WithEntry(FreshId, r)
    /\ task' = [task EXCEPT ![r] = "sending"]
    /\ UNCHANGED <<browsers, got, pump, listeners, wire, kernel, faults>>

Sends(r) ==
    /\ task[r] = "sending" /\ up
    /\ toKernel' = Append(toKernel, Frame(ident[r], r))
    /\ lock' = None
    /\ task' = [task EXCEPT ![r] = "waiting"]
    /\ UNCHANGED <<browsers, got, nextId, ident, pending, pump, listeners, up, toWeb,
                   kernel, faults>>

\* send raises before the try: the entry stays in the table.
SendFails(r) ==
    /\ task[r] = "sending" /\ ~up
    /\ lock' = None
    /\ task' = [task EXCEPT ![r] = "answering"] /\ got' = [got EXCEPT ![r] = Failure(r)]
    /\ UNCHANGED <<browsers, nextId, ident, pending, pump, listeners, wire, kernel, faults>>

\* wait_for gives up after 120 seconds.
Expires(r) ==
    /\ task[r] = "waiting"
    /\ IF up THEN Fault ELSE UNCHANGED faults
    /\ pending' = WithoutEntry(ident[r])
    /\ task' = [task EXCEPT ![r] = "answering"] /\ got' = [got EXCEPT ![r] = Failure(r)]
    /\ UNCHANGED <<browsers, nextId, ident, lock, pump, listeners, wire, kernel>>

\* The reply or the error goes to the browser, if it is there.
Answers(r) ==
    /\ task[r] = "answering"
    /\ seen' = IF Owner(r) \notin online THEN seen
               ELSE [seen EXCEPT ![Owner(r)] = Append(@, Shown(r, got[r]))]
    /\ task' = [task EXCEPT ![r] = "done"]
    /\ UNCHANGED <<online, got, nextId, ident, pending, lock, pump, listeners, wire,
                   kernel, faults>>

\* The receive loop of a closed browser cancels its tasks.  One that was sending may or
\* may not have sent, and leaves its entry behind.
CleansUp(b) ==
    LET open == {r \in Requests : /\ Owner(r) = b
                                  /\ task[r] \in {"queued", "sending", "waiting", "answering"}}
        sending == {r \in open : task[r] = "sending"}
        waiting == {r \in open : task[r] = "waiting"}
    IN /\ b \notin online /\ (b \in listeners \/ open # {})
       /\ listeners' = listeners \ {b}
       /\ task' = [r \in Requests |-> IF r \in open THEN "cancelled" ELSE task[r]]
       /\ pending' = Restrict(pending, DOMAIN pending \ {ident[r] : r \in waiting})
       /\ lock' = IF sending = {} THEN lock ELSE None
       /\ toKernel' \in {toKernel} \cup IF up THEN {Append(toKernel, Frame(ident[r], r)) : r \in sending}
                                        ELSE {}
       /\ UNCHANGED <<browsers, got, nextId, ident, pump, up, toWeb, kernel, faults>>

--------------------------------------------------------------------------------
(* ServeBridge.pump *)

\* A reply is for whoever waits for its number; others are ignored.
ReceivesReply ==
    /\ pump = None /\ toWeb # <<>> /\ Head(toWeb).kind = "reply"
    /\ toWeb' = Tail(toWeb)
    /\ LET f == Head(toWeb)
           known == f.id \in DOMAIN pending
           r == pending[f.id]
           waited == known /\ task[r] = "waiting"
       IN /\ pending' = IF known THEN Restrict(pending, DOMAIN pending \ {f.id}) ELSE pending
          /\ task' = IF waited THEN [task EXCEPT ![r] = "answering"] ELSE task
          /\ got' = IF waited THEN [got EXCEPT ![r] = [req |-> f.req, says |-> f.says]] ELSE got
    /\ UNCHANGED <<browsers, nextId, ident, lock, pump, listeners, up, toKernel, kernel, faults>>

\* A notice is for every browser that listens, one after the other; in which order,
\* no browser can tell.
ReceivesNotice ==
    /\ pump = None /\ toWeb # <<>> /\ Head(toWeb).kind # "reply"
    /\ toWeb' = Tail(toWeb)
    /\ pump' = IF listeners = {} THEN None ELSE [frame |-> Head(toWeb), to |-> listeners]
    /\ UNCHANGED <<browsers, task, got, nextId, ident, pending, lock, listeners,
                   up, toKernel, kernel, faults>>

Broadcasts ==
    /\ pump \notin {None, <<"ended">>}
    /\ \E b \in pump.to :
          /\ IF b \in online
             THEN seen' = [seen EXCEPT ![b] = Append(@, pump.frame)] /\ UNCHANGED listeners
             ELSE listeners' = listeners \ {b} /\ UNCHANGED seen
          /\ pump' = IF pump.to = {b} THEN None ELSE [pump EXCEPT !.to = @ \ {b}]
    /\ UNCHANGED <<online, task, got, nextId, ident, pending, lock, wire, kernel, faults>>

\* recv raises: the pump ends, and nothing starts it again.
PumpEnds ==
    /\ pump = None /\ ~up /\ toWeb = <<>>
    /\ pump' = <<"ended">>
    /\ UNCHANGED <<browsers, task, got, nextId, ident, pending, lock, listeners, wire,
                   kernel, faults>>

\* The websocket closes; what was under way may or may not arrive.
Drops ==
    /\ up /\ Fault
    /\ up' = FALSE
    /\ \E n \in 0..Len(toKernel) : toKernel' = SubSeq(toKernel, 1, n)
    /\ \E n \in 0..Len(toWeb) : toWeb' = SubSeq(toWeb, 1, n)
    /\ UNCHANGED <<browsers, web, kernel>>

--------------------------------------------------------------------------------
(* The kernel *)

\* Mutant: handle_connection waits for one frame before it reads the next.
OneFrameAtATime == busy = {}

\* A frame waits for a free thread of the executor only.
ThreadIsFree == Cardinality(busy) < Threads

\* Mutant: the reply overtakes what the loop has still to send.
OvertakingReply(f, says) == toWeb' = IF up THEN <<Reply(f, says)>> \o toWeb ELSE toWeb

\* The executor's future wakes the task through the loop, and the task calls _send.
\* The send worker of a closed connection has ended: its queue is never emptied again.
Returned(f, says) == toWeb' = IF up THEN Append(toWeb, Reply(f, says)) ELSE toWeb

\* _notify, from any thread: the loop is told to call _send, if somebody is connected.
Notifies(notice) == toWeb' = IF up THEN Append(toWeb, notice) ELSE toWeb

Running(s) == \E f \in busy : SessionOf[f.req[2]] = s

NextFrameIs(kind) == toKernel # <<>> /\ Head(toKernel).req[1] = kind /\ ThreadIsFree

\* agent/turn-start: the statistics of the session start again.
NewStatistics(s) == feed' = [feed EXCEPT ![s] = 0]

\* The notice of the end of a turn carries them.
EndNotice(t) == Notice("end", t, feed[SessionOf[t]])

\* approval/respond: the waiting turn is woken.
DispatchesAnswer ==
    /\ NextFrameIs("respond")
    /\ allowed' = allowed \cup {Head(toKernel).req[2]}
    /\ Returned(Head(toKernel), "ok")
    /\ toKernel' = Tail(toKernel)
    /\ UNCHANGED <<browsers, web, up, busy, turnAt, stopped, feed, faults>>

\* message/send: AgentManager.run refuses a turn of a session that is running, or starts
\* its worker.
DispatchesTurn ==
    /\ NextFrameIs("send")
    /\ LET f == Head(toKernel)  t == f.req[2] IN
          IF Running(SessionOf[t])
          THEN Returned(f, "refused") /\ UNCHANGED <<busy, turnAt, feed>>
          ELSE /\ busy' = busy \cup {f}
               /\ turnAt' = [turnAt EXCEPT ![t] = "works"]
               /\ NewStatistics(SessionOf[t])
               /\ UNCHANGED toWeb
    /\ toKernel' = Tail(toKernel)
    /\ UNCHANGED <<browsers, web, up, allowed, stopped, faults>>

MayGoOn(t) == turnAt[t] = IF t \in Dangerous THEN "proceeds" ELSE "works"

\* A tool has answered: counted and told.
ToolResult(t) ==
    /\ MayGoOn(t) /\ t \in Dangerous /\ feed[SessionOf[t]] < MaxTools
    /\ feed' = [feed EXCEPT ![SessionOf[t]] = @ + 1]
    /\ Notifies(Notice("result", t, 0))
    /\ UNCHANGED <<browsers, web, up, toKernel, busy, turnAt, allowed, stopped, faults>>

\* The approval bridge tells the shell and waits.
NeedsApproval(t) ==
    /\ turnAt[t] = "works" /\ t \in Dangerous
    /\ turnAt' = [turnAt EXCEPT ![t] = "asks"]
    /\ Notifies(Notice("approval", t, 0))
    /\ UNCHANGED <<browsers, web, up, toKernel, busy, allowed, stopped, feed, faults>>

\* It has the answer, or has waited for too long.
GoesOn(t) ==
    /\ turnAt[t] = "asks"
    /\ turnAt' = [turnAt EXCEPT ![t] = "proceeds"]
    /\ UNCHANGED <<browsers, web, wire, busy, allowed, stopped, feed, faults>>

IsAnswered(t) == t \in allowed

\* final-answer or turn-end
Ends(t) ==
    /\ MayGoOn(t)
    /\ turnAt' = [turnAt EXCEPT ![t] = "ended"]
    /\ Notifies(EndNotice(t))
    /\ UNCHANGED <<browsers, web, up, toKernel, busy, allowed, stopped, feed, faults>>

\* run() returns when the turn is done, or at once after a stop; then the worker may
\* still be at work.
Returns(f) ==
    /\ f \in busy
    /\ \/ turnAt[f.req[2]] = "ended" /\ Returned(f, "answer")
       \/ f.req[2] \in stopped /\ Returned(f, "stopped")
    /\ busy' = busy \ {f}
    /\ UNCHANGED <<browsers, web, up, toKernel, turnAt, allowed, stopped, feed, faults>>

Stops(t) ==
    /\ \E f \in busy : f.req[2] = t
    /\ t \notin stopped /\ Fault
    /\ stopped' = stopped \cup {t}
    /\ UNCHANGED <<browsers, web, wire, busy, turnAt, allowed, feed>>

--------------------------------------------------------------------------------
Bridge(r) == TakesLock(r) \/ Sends(r) \/ SendFails(r) \/ Answers(r)

Pump == ReceivesReply \/ ReceivesNotice \/ Broadcasts \/ PumpEnds

Works(t) == ToolResult(t) \/ NeedsApproval(t) \/ GoesOn(t) \/ Ends(t) \/ Stops(t)

Next == \/ \E r \in Requests : Asks(r) \/ Bridge(r) \/ Expires(r)
        \/ \E b \in Browsers : Leaves(b) \/ CleansUp(b)
        \/ Pump \/ Drops
        \/ DispatchesAnswer \/ DispatchesTurn
        \/ \E t \in Turns : Works(t)
        \/ \E f \in busy : Returns(f)

Spec == Init /\ [][Next]_vars

\* Tasks, threads and the pump go on, a tool or the model comes to an
\* end, and the user answers what she sees.  No limit of time is relied on, except that
\* of a call when the kernel is gone.
FairSpec ==
    /\ Spec
    /\ \A r \in Requests : /\ WF_vars(Bridge(r)) /\ WF_vars(~up /\ Expires(r))
                           /\ r[1] = "respond" => WF_vars(Asks(r))
    /\ \A b \in Browsers : WF_vars(CleansUp(b))
    /\ WF_vars(Pump) /\ WF_vars(DispatchesAnswer \/ DispatchesTurn)
    /\ \A t \in Turns : WF_vars(NeedsApproval(t) \/ Ends(t)) /\ WF_vars(IsAnswered(t) /\ GoesOn(t))
    /\ WF_vars(\E f \in busy : Returns(f))

--------------------------------------------------------------------------------
(* Properties *)

Tasks == {"new", "queued", "sending", "waiting", "answering", "done", "cancelled"}

TypeOK ==
    /\ task \in [Requests -> Tasks] /\ DOMAIN pending \subseteq 1..nextId
    /\ Range(pending) \subseteq Requests /\ lock \in Requests \cup {None}
    /\ listeners \subseteq Browsers /\ online \subseteq Browsers
    /\ Cardinality(busy) <= Threads

Replies(b, r) == {n \in DOMAIN seen[b] : seen[b][n].kind = "reply" /\ seen[b][n].asked = r}

\* Whatever expires, is cancelled or arrives late: a browser gets one answer to a
\* request at most, and it is the kernel's answer to this request or an error.
EachItsOwnReply ==
    \A b \in Browsers, r \in Requests :
       /\ Cardinality(Replies(b, r)) <= 1
       /\ \A n \in Replies(b, r) : seen[b][n].req = r

NoticesBefore(b, kind, t, n) ==
    {m \in 1..n - 1 : seen[b][m].kind = kind /\ seen[b][m].turn = t}

\* Threads, loop and send queue keep the order: a browser that reads the answer of a turn
\* has been told of its end, and the statistics of that notice count the tool results
\* that came before it, unless a stopped turn of the session may go on in the background:
\* its worker counts into the next turn's statistics, and reports them as its own.
StoryBeforeReply ==
    \A b \in Browsers : \A n \in DOMAIN seen[b] :
          /\ seen[b][n].kind = "reply" /\ seen[b][n].says = "answer" =>
                NoticesBefore(b, "end", seen[b][n].req[2], n) # {}
          /\ LET t == seen[b][n].turn IN
                seen[b][n].kind = "end"
                /\ (\A u \in stopped : SessionOf[u] # SessionOf[t]) =>
                   seen[b][n].count = Cardinality(NoticesBefore(b, "result", t, n))

\* With fewer turns than threads the loop of approvals closes: a turn that waits for
\* its approval never keeps the answer from arriving, and whatever is asked, there
\* comes a time when every request is answered or its browser has left.
NothingIsOpen == \A r \in Requests : task[r] \in {"new", "done", "cancelled"}

EveryRequestIsAnswered == []<>NothingIsOpen
================================================================================
