------------------------------ MODULE RunProtocol ------------------------------
(***************************************************************************)
(* One conversation (an AgentContext) and everybody who touches it while   *)
(* AgentManager.run executes turns on it.                                  *)
(*                                                                         *)
(*   caller  the thread inside AgentManager.run (the CLI's main thread, or *)
(*           one Gateway thread per message/send frame);                   *)
(*   worker  the daemon thread that run() starts and that executes         *)
(*           Agent.chat on the shared context;                             *)
(*   stopper whoever calls context.stop();                                 *)
(*   sub     the subagent threads that compete for the AgentPool's slots.  *)
(*                                                                         *)
(* Every action is one step between two points where the interpreter may   *)
(* switch threads and another thread could tell the difference: the two    *)
(* threading.Events, the status field, the message list and the pool       *)
(* counter are shared and only the counter is read and written under a     *)
(* lock.  Message contents are abstracted to (role, run).                  *)
(***************************************************************************)
EXTENDS Naturals, Sequences, FiniteSets, SaveContext

CONSTANTS
    Runs,          \* the calls of AgentManager.run on this context
    Subagents,     \* subagent threads sharing the pool
    MaxWorkers,    \* AgentPool.max_workers
    MaxTurns,      \* Agent.max_turns, the bound of the tool loop
    MaxStops,      \* bound: how many times stop() is called
    Serial,        \* TRUE: the next call of run comes after the previous one
                   \* returned (CLI); FALSE: any thread may call it (Gateway)
    FactoryMayFail \* TRUE: make_agent may raise

ASSUME RunsAssumption == IsFiniteSet(Runs) /\ IsFiniteSet(Subagents)
                         /\ Runs \cap Subagents = {}
ASSUME WorkersAssumption == MaxWorkers \in Nat \ {0}
ASSUME TurnsAssumption == MaxTurns \in Nat /\ MaxStops \in Nat
ASSUME FlagsAssumption == Serial \in BOOLEAN /\ FactoryMayFail \in BOOLEAN

VARIABLES
    status,    \* context.status
    stopFlag,  \* context._stop_flag
    done,      \* context._done
    messages,  \* context.messages without the system prompt
    store,     \* the messages of the session in the database
    active,    \* AgentPool._active
    caller,    \* program counter of each call of run()
    outcome,   \* how each call of run() ended
    encoded,   \* save_context's encoded_messages, per call
    worker,    \* program counter of each call's worker thread
    step,      \* the tool loop's step, per worker
    reply,     \* what the worker will put in result_box
    sub,       \* program counter of each subagent thread, reduced to the pool
    stopper,   \* program counter inside context.stop()
    stops,     \* calls of stop() so far
    asked      \* history: the calls in flight when a stop flag was raised

ctxVars == <<status, stopFlag, done>>
logVars == <<messages, store>>
callVars == <<caller, outcome, encoded>>
workVars == <<worker, step, reply>>
poolVars == <<active, sub>>
stopVars == <<stopper, stops, asked>>
vars == <<ctxVars, logVars, callVars, workVars, poolVars, stopVars>>

Statuses == {"idle", "running", "completed", "failed", "stopped"}
Roles == {"user", "calls", "results", "answer"}
Message == [role : Roles, run : Runs]
CallerPc == {"idle", "clear", "beginDone", "beginRunning", "acquire", "make",
             "wait", "woken", "grace", "release", "encode", "commit", "ended"}
Outcomes == {"none", "rejected", "factoryError", "graceTimeout", "persistError",
             "stopped", "answer", "maxTurns", "error", "stopText"}
WorkerPc == {"none", "beginDone", "beginRunning", "user", "check", "llm",
             "recheck", "append", "exec", "recheckTools", "results", "finish",
             "complete", "fail", "signal", "publish", "exit"}
Replies == {"none", "answer", "maxTurns", "error", "stopText"}

InFlight(r) == caller[r] \notin {"idle", "ended"}

\* The calls that count in AgentPool._active: from the increment in acquire to
\* the decrement in release, and for ever when the grace period ran out.
HoldsSlot(r) == \/ caller[r] \in {"make", "wait", "woken", "grace", "release"}
                \/ caller[r] = "ended" /\ outcome[r] = "graceTimeout"

Init == /\ status = "idle" /\ stopFlag = FALSE /\ done = FALSE
        /\ messages = <<>> /\ store = <<>>
        /\ active = 0
        /\ caller = [r \in Runs |-> "idle"]
        /\ outcome = [r \in Runs |-> "none"]
        /\ encoded = [r \in Runs |-> <<>>]
        /\ worker = [r \in Runs |-> "none"]
        /\ step = [r \in Runs |-> 0]
        /\ reply = [r \in Runs |-> "none"]
        /\ sub = [s \in Subagents |-> "waiting"]
        /\ stopper = "idle" /\ stops = 0 /\ asked = {}

--------------------------------------------------------------------------------
(* AgentManager.run, the calling thread *)

CallerGoes(r, from, to) == caller[r] = from /\ caller' = [caller EXCEPT ![r] = to]

EndCall(r, from, how) == /\ CallerGoes(r, from, "ended")
                         /\ outcome' = [outcome EXCEPT ![r] = how]
                         /\ UNCHANGED encoded

\* A front end that waits for its turn to end does not call run() meanwhile.
MayCall(r) == Serial => \A q \in Runs : ~InFlight(q)

Reject(r) == /\ MayCall(r)
             /\ status = "running"
             /\ EndCall(r, "idle", "rejected")
             /\ UNCHANGED <<ctxVars, logVars, workVars, poolVars, stopVars>>

Enter(r) == /\ MayCall(r)
            /\ status # "running"
            /\ CallerGoes(r, "idle", "clear")
            /\ UNCHANGED <<ctxVars, logVars, outcome, encoded, workVars, poolVars, stopVars>>

\* Mutant: run() no longer clears the flag of an earlier stop.
KeepStopFlag(r) == /\ CallerGoes(r, "clear", "beginDone")
                   /\ UNCHANGED <<ctxVars, logVars, outcome, encoded, workVars,
                                  poolVars, stopVars>>

ClearStopFlag(r) == /\ CallerGoes(r, "clear", "beginDone")
                    /\ stopFlag' = FALSE
                    /\ UNCHANGED <<status, done, logVars, outcome, encoded,
                                   workVars, poolVars, stopVars>>

\* begin_chat() called by run(), in its two observable halves.
CallerClearsDone(r) == /\ CallerGoes(r, "beginDone", "beginRunning")
                       /\ done' = FALSE
                       /\ UNCHANGED <<status, stopFlag, logVars, outcome, encoded,
                                      workVars, poolVars, stopVars>>

CallerSetsRunning(r) == /\ CallerGoes(r, "beginRunning", "acquire")
                        /\ status' = "running"
                        /\ UNCHANGED <<stopFlag, done, logVars, outcome, encoded,
                                       workVars, poolVars, stopVars>>

\* AgentPool.acquire without a timeout: poll until the counter is below the limit.
SlotFree == active < MaxWorkers

AcquireSlot(r) == /\ SlotFree
                  /\ CallerGoes(r, "acquire", "make")
                  /\ active' = active + 1
                  /\ UNCHANGED <<ctxVars, logVars, outcome, encoded, workVars, sub, stopVars>>

\* make_agent succeeds, the daemon thread starts.
StartWorker(r) == /\ CallerGoes(r, "make", "wait")
                  /\ worker' = [worker EXCEPT ![r] = "beginDone"]
                  /\ UNCHANGED <<ctxVars, logVars, outcome, encoded, step, reply,
                                 poolVars, stopVars>>

\* Mutant: acquire forgets to give the slot back.
KeepSlotOnError(r) == /\ FactoryMayFail
                      /\ EndCall(r, "make", "factoryError")
                      /\ UNCHANGED <<ctxVars, logVars, workVars, poolVars, stopVars>>

\* make_agent raises: acquire gives the slot back and run() lets it propagate.
MakeAgentRaises(r) == /\ FactoryMayFail
                      /\ EndCall(r, "make", "factoryError")
                      /\ active' = active - 1
                      /\ UNCHANGED <<ctxVars, logVars, workVars, sub, stopVars>>

\* wait_stop_or_done: first the event, then the flag.
WaitDone(r) == /\ done
               /\ CallerGoes(r, "wait", "woken")
               /\ UNCHANGED <<ctxVars, logVars, outcome, encoded, workVars, poolVars, stopVars>>

TakeStopped(r) == /\ stopFlag
                  /\ CallerGoes(r, "woken", "release")
                  /\ outcome' = [outcome EXCEPT ![r] = "stopped"]
                  /\ UNCHANGED <<ctxVars, logVars, encoded, workVars, poolVars, stopVars>>

\* Mutant: wait_stop_or_done looks at _done before it looks at the flag.
TakeDoneFirst(r) == /\ CallerGoes(r, "woken", "grace")
                    /\ UNCHANGED <<ctxVars, logVars, outcome, encoded, workVars,
                                   poolVars, stopVars>>

TakeDone(r) == /\ ~stopFlag
               /\ CallerGoes(r, "woken", "grace")
               /\ UNCHANGED <<ctxVars, logVars, outcome, encoded, workVars, poolVars, stopVars>>

GraceOk(r) == /\ worker[r] = "exit"
              /\ CallerGoes(r, "grace", "release")
              /\ UNCHANGED <<ctxVars, logVars, outcome, encoded, workVars, poolVars, stopVars>>

\* Where a worker can spend seconds: the pre-step listeners and the model call,
\* and the tool calls with their approvals.
Blocking == {"llm", "exec"}

\* done_box's event does not come within _WORKER_FINISH_GRACE_SECONDS: run()
\* raises and keeps the slot.  Only a blocking call lasts that long.
GraceTimeout(r) == /\ worker[r] \in Blocking
                   /\ EndCall(r, "grace", "graceTimeout")
                   /\ UNCHANGED <<ctxVars, logVars, workVars, poolVars, stopVars>>

Released(n) == IF n = 0 THEN 0 ELSE n - 1

ReleaseSlot(r) == /\ CallerGoes(r, "release", "encode")
                  /\ active' = Released(active)
                  /\ UNCHANGED <<ctxVars, logVars, outcome, encoded, workVars, sub, stopVars>>

\* save_context serialises the messages before it takes the lock ...
EncodeMessages(r) == /\ CallerGoes(r, "encode", "commit")
                     /\ encoded' = [encoded EXCEPT ![r] = messages]
                     /\ UNCHANGED <<ctxVars, logVars, outcome, workVars, poolVars, stopVars>>

\* ... compares that with the rows, and writes from the live list (SaveContext).
Persist(r) == /\ EndCall(r, "commit", IF outcome[r] = "stopped" THEN "stopped" ELSE reply[r])
              /\ store' = Committed(store, encoded[r], messages)
              /\ UNCHANGED <<ctxVars, messages, workVars, poolVars, stopVars>>

PersistFails(r) == /\ EndCall(r, "commit", "persistError")
                   /\ UNCHANGED <<ctxVars, logVars, workVars, poolVars, stopVars>>

--------------------------------------------------------------------------------
(* Agent.chat, the worker thread *)

WorkerGoes(r, from, to) == worker[r] = from /\ worker' = [worker EXCEPT ![r] = to]

Append1(r, role) == messages' = Append(messages, [role |-> role, run |-> r])

\* begin_chat() again, from chat().
WorkerClearsDone(r) == /\ WorkerGoes(r, "beginDone", "beginRunning")
                       /\ done' = FALSE
                       /\ UNCHANGED <<status, stopFlag, logVars, callVars, step, reply,
                                      poolVars, stopVars>>

WorkerSetsRunning(r) == /\ WorkerGoes(r, "beginRunning", "user")
                        /\ status' = "running"
                        /\ UNCHANGED <<stopFlag, done, logVars, callVars, step, reply,
                                       poolVars, stopVars>>

AppendUser(r) == /\ WorkerGoes(r, "user", "check")
                 /\ Append1(r, "user")
                 /\ UNCHANGED <<ctxVars, store, callVars, step, reply, poolVars, stopVars>>

LeaveLoop(r, from, text) == /\ WorkerGoes(r, from, "finish")
                            /\ reply' = [reply EXCEPT ![r] = text]
                            /\ UNCHANGED <<ctxVars, logVars, callVars, step, poolVars, stopVars>>

LoopExhausted(r) == step[r] >= MaxTurns /\ LeaveLoop(r, "check", "maxTurns")

\* The three places where the loop looks at the stop flag.
Checkpoint(r) == \/ step[r] < MaxTurns /\ stopFlag /\ LeaveLoop(r, "check", "stopText")
                 \/ stopFlag /\ LeaveLoop(r, "recheck", "stopText")
                 \/ stopFlag /\ LeaveLoop(r, "recheckTools", "stopText")

Continue(r) == /\ \/ step[r] < MaxTurns /\ ~stopFlag /\ WorkerGoes(r, "check", "llm")
                  \/ ~stopFlag /\ WorkerGoes(r, "recheck", "append")
                  \/ ~stopFlag /\ WorkerGoes(r, "recheckTools", "results")
               /\ UNCHANGED <<ctxVars, logVars, callVars, step, reply, poolVars, stopVars>>

\* Mutant: the results of a batch are not put into the history.
DropResults(r) == /\ \/ WorkerGoes(r, "llm", "recheck")
                     \/ WorkerGoes(r, "exec", "check")
                  /\ UNCHANGED <<ctxVars, logVars, callVars, step, reply, poolVars, stopVars>>

\* The model, or the tools of one batch, have answered.
Answered(r) == /\ \/ WorkerGoes(r, "llm", "recheck")
                  \/ WorkerGoes(r, "exec", "recheckTools")
               /\ UNCHANGED <<ctxVars, logVars, callVars, step, reply, poolVars, stopVars>>

\* Mutant: the loop itself handles the exception, fails the chat and goes on.
FailAndGoOn(r) == /\ WorkerGoes(r, "llm", "llm")
                  /\ status' = "failed" /\ done' = TRUE
                  /\ UNCHANGED <<stopFlag, logVars, callVars, step, reply, poolVars, stopVars>>

\* The model call, a listener or the executor raises.
Raises(r) == /\ \E from \in {"llm", "append", "exec"} : WorkerGoes(r, from, "fail")
             /\ reply' = [reply EXCEPT ![r] = "error"]
             /\ UNCHANGED <<ctxVars, logVars, callVars, step, poolVars, stopVars>>

AppendCalls(r) == /\ WorkerGoes(r, "append", "exec")
                  /\ Append1(r, "calls")
                  /\ UNCHANGED <<ctxVars, store, callVars, step, reply, poolVars, stopVars>>

AppendResults(r) == /\ WorkerGoes(r, "results", "check")
                    /\ Append1(r, "results")
                    /\ step' = [step EXCEPT ![r] = @ + 1]
                    /\ UNCHANGED <<ctxVars, store, callVars, reply, poolVars, stopVars>>

AppendAnswer(r) == /\ WorkerGoes(r, "append", "finish")
                   /\ Append1(r, "answer")
                   /\ reply' = [reply EXCEPT ![r] = "answer"]
                   /\ UNCHANGED <<ctxVars, store, callVars, step, poolVars, stopVars>>

\* chat() completes the context only if nobody asked it to stop.
Finish(r) == /\ WorkerGoes(r, "finish", IF stopFlag THEN "publish" ELSE "complete")
             /\ UNCHANGED <<ctxVars, logVars, callVars, step, reply, poolVars, stopVars>>

\* complete_chat() and fail_chat(): the status first ...
SetTerminal(r) == /\ \/ WorkerGoes(r, "complete", "signal") /\ status' = "completed"
                     \/ WorkerGoes(r, "fail", "signal") /\ status' = "failed"
                  /\ UNCHANGED <<stopFlag, done, logVars, callVars, step, reply,
                                 poolVars, stopVars>>

\* Mutant: nobody sets _done.
ForgetDone(r) == /\ WorkerGoes(r, "signal", "publish")
                 /\ UNCHANGED <<ctxVars, logVars, callVars, step, reply, poolVars, stopVars>>

\* ... then _done.
SignalDone(r) == /\ WorkerGoes(r, "signal", "publish")
                 /\ done' = TRUE
                 /\ UNCHANGED <<status, stopFlag, logVars, callVars, step, reply,
                                poolVars, stopVars>>

\* _worker writes result_box and sets done_box's event.
Publish(r) == /\ WorkerGoes(r, "publish", "exit")
              /\ UNCHANGED <<ctxVars, logVars, callVars, step, reply, poolVars, stopVars>>

--------------------------------------------------------------------------------
(* context.stop(), from any thread, and the other users of the pool *)

\* The calls a stop is meant for: past their own clear, not yet decided.
Stoppable(r) == caller[r] \in {"beginDone", "beginRunning", "acquire", "make", "wait", "woken"}

StopRaisesFlag == /\ stopper = "idle" /\ stops < MaxStops
                  /\ stopFlag' = TRUE
                  /\ stops' = stops + 1
                  /\ asked' = asked \cup {r \in Runs : Stoppable(r)}
                  /\ stopper' = "status"
                  /\ UNCHANGED <<status, done, logVars, callVars, workVars, poolVars>>

StopSetsStatus == /\ stopper = "status"
                  /\ status' = IF status = "running" THEN "stopped" ELSE status
                  /\ stopper' = "done"
                  /\ UNCHANGED <<stopFlag, done, logVars, callVars, workVars, poolVars,
                                 stops, asked>>

StopSetsDone == /\ stopper = "done"
                /\ done' = TRUE
                /\ stopper' = "idle"
                /\ UNCHANGED <<status, stopFlag, logVars, callVars, workVars, poolVars,
                               stops, asked>>

SubGoes(s, from, to) == sub[s] = from /\ sub' = [sub EXCEPT ![s] = to]

SubAcquires(s) == /\ SlotFree
                  /\ SubGoes(s, "waiting", "holding")
                  /\ active' = active + 1
                  /\ UNCHANGED <<ctxVars, logVars, callVars, workVars, stopVars>>

\* acquire(None, timeout=60) gives up while every slot is taken.
SubTimesOut(s) == /\ ~SlotFree
                  /\ SubGoes(s, "waiting", "gone")
                  /\ UNCHANGED <<active, ctxVars, logVars, callVars, workVars, stopVars>>

SubReleases(s) == /\ SubGoes(s, "holding", "gone")
                  /\ active' = Released(active)
                  /\ UNCHANGED <<ctxVars, logVars, callVars, workVars, stopVars>>

--------------------------------------------------------------------------------
\* What the thread inside run() does once it has been admitted.
CallerStep(r) ==
    \/ ClearStopFlag(r) \/ CallerClearsDone(r) \/ CallerSetsRunning(r)
    \/ AcquireSlot(r) \/ StartWorker(r) \/ MakeAgentRaises(r)
    \/ WaitDone(r) \/ TakeStopped(r) \/ TakeDone(r) \/ GraceOk(r) \/ GraceTimeout(r)
    \/ ReleaseSlot(r) \/ EncodeMessages(r) \/ Persist(r) \/ PersistFails(r)

WorkerStep(r) ==
    \/ WorkerClearsDone(r) \/ WorkerSetsRunning(r) \/ AppendUser(r)
    \/ LoopExhausted(r) \/ Checkpoint(r) \/ Continue(r) \/ Answered(r) \/ Raises(r)
    \/ AppendCalls(r) \/ AppendResults(r) \/ AppendAnswer(r)
    \/ Finish(r) \/ SetTerminal(r) \/ SignalDone(r) \/ Publish(r)

StopStep == StopRaisesFlag \/ StopSetsStatus \/ StopSetsDone
SubStep(s) == SubAcquires(s) \/ SubTimesOut(s) \/ SubReleases(s)

Next == \/ \E r \in Runs : Reject(r) \/ Enter(r) \/ CallerStep(r) \/ WorkerStep(r)
        \/ StopStep
        \/ \E s \in Subagents : SubStep(s)

Spec == Init /\ [][Next]_vars

\* Started threads keep running; nobody is obliged to call run() or stop(), but
\* a stop() once entered runs to its end.
Fairness == /\ \A r \in Runs : WF_vars(CallerStep(r)) /\ WF_vars(WorkerStep(r))
            /\ WF_vars(StopSetsStatus \/ StopSetsDone)
            /\ \A s \in Subagents : WF_vars(SubStep(s))

FairSpec == Spec /\ Fairness

--------------------------------------------------------------------------------
(* Properties *)

TypeOK == /\ status \in Statuses /\ stopFlag \in BOOLEAN /\ done \in BOOLEAN
          /\ messages \in Seq(Message) /\ store \in Seq(Message)
          /\ active \in Nat
          /\ caller \in [Runs -> CallerPc]
          /\ outcome \in [Runs -> Outcomes]
          /\ encoded \in [Runs -> Seq(Message)]
          /\ worker \in [Runs -> WorkerPc]
          /\ step \in [Runs -> 0..MaxTurns]
          /\ reply \in [Runs -> Replies]
          /\ sub \in [Subagents -> {"waiting", "holding", "gone"}]
          /\ stopper \in {"idle", "status", "done"}
          /\ stops \in Nat /\ asked \in SUBSET Runs

\* Everybody the pool's counter counts.
SlotHolders == {r \in Runs : HoldsSlot(r)} \cup {s \in Subagents : sub[s] = "holding"}

\* AgentPool._active is exactly the number of slot holders, whatever the order
\* in which callers, failing factories, stops and subagents acquire and release:
\* no release is lost, none is done twice (the max(0, ..) in release never bites),
\* and there are never more holders than max_workers.
SlotAccounting == active = Cardinality(SlotHolders) /\ active <= MaxWorkers

\* The positions of the messages of one run in a message list.
Positions(log, r) == {i \in 1..Len(log) : log[i].run = r}
HasTurn(log, r) == \E i, j \in 1..Len(log) : /\ i < j
                                             /\ log[i] = [role |-> "user", run |-> r]
                                             /\ log[j] = [role |-> "answer", run |-> r]

\* run() hands an answer to its caller only after the question and that answer
\* are in the database (_persist: "do not present an unsaved turn as a success"),
\* and no later save by another call loses them.
AnswerDurable == \A r \in Runs : outcome[r] = "answer" => HasTurn(store, r)

\* "interrupted" is only ever reported by a call during which stop() was called:
\* a flag left over from an earlier turn never stops a later one.
StoppedOnlyIfAsked == \A r \in Runs : outcome[r] = "stopped" => r \in asked

\* Callers one at a time: a stop() that comes before run() has looked at the
\* flag wins over a chat that completed at the same time (wait_stop_or_done).
StopWins == \A r \in Runs : r \in asked =>
                outcome[r] \notin {"answer", "error", "maxTurns", "stopText"}

\* The turns do not mix: between two messages of one run there is no message of
\* another one.
TurnsContiguous ==
    \A r \in Runs : \A i, j \in Positions(messages, r) :
        \A k \in i..j : messages[k].run = r

\* Every batch of tool calls in the history is followed at once by its results,
\* except the batch being executed and the last one of a run that raised.
ToolCallsPaired ==
    \A i \in 1..Len(messages) : messages[i].role = "calls" =>
        LET r == messages[i].run IN
        \/ i < Len(messages) /\ messages[i + 1] = [role |-> "results", run |-> r]
        \/ worker[r] \in {"exec", "recheckTools", "results"}
        \/ reply[r] = "error"

\* Every admitted call of run() returns or raises.
RunReturns == \A r \in Runs : (caller[r] = "clear") ~> (caller[r] = "ended")

\* The order in which runs put their question into a message list: the n-th question
\* is the one with n questions up to it.
Questions(log) == {i \in 1..Len(log) : log[i].role = "user"}
UpTo(log, i) == Cardinality({j \in Questions(log) : j <= i})
Asker(log, n) == CHOOSE r \in {log[i].run : i \in {j \in Questions(log) : UpTo(log, j) = n}} : TRUE
TurnOrder(log) == [n \in 1..Cardinality(Questions(log)) |-> Asker(log, n)]

\* run() and Agent.chat, used by one caller at a time and not interrupted,
\* implement the contract of SessionContract: turns are taken in order, and an
\* answer is only handed out for the newest turn, saved with all before it.
Promise == INSTANCE SessionContract WITH
    taken <- TurnOrder(messages),
    saved <- TurnOrder(store),
    replied <- {r \in Runs : outcome[r] = "answer"}

ImplementsContract == Promise!Contract
================================================================================
