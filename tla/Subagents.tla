------------------------------- MODULE Subagents -------------------------------
(***************************************************************************)
(* Background tasks of a conversation.  The Gateway (session/delegate,     *)
(* session/delegate_async) spawns a subagent context and a thread for it   *)
(* (AgentManager.spawn, _run); the thread waits for a slot, runs the task, *)
(* writes the outcome into the context and mails it to the parent, while   *)
(* others wait for it with a timeout, stop it, or delete a session.        *)
(* complete(), fail() and stop() write the status before they set the done *)
(* event, and act on a status they read earlier.  The mail is the abstract *)
(* one of module PostOffice, which module Mailbox implements.              *)
(***************************************************************************)
EXTENDS PostOffice, FiniteSets

CONSTANTS
    Parent,         \* the conversation
    Subs,           \* the subagents it may spawn
    Awaited,        \* those that are spawned by session/delegate, which waits
    MaxWorkers,     \* AgentPool.max_workers
    MaxStops,       \* bound: calls of session/stop on a subagent
    MaxDeletes,     \* bound: calls of session/delete
    AcquireMayRaise \* TRUE: building the throwaway agent in acquire may raise

ASSUME SubagentsAssumption ==
    /\ Owners = Subs \cup {Parent} /\ Parent \notin Subs /\ IsFiniteSet(Subs)
    /\ Awaited \subseteq Subs /\ Outsider \notin Owners
    /\ MaxWorkers \in Nat \ {0} /\ MaxStops \in Nat /\ MaxDeletes \in Nat
    /\ AcquireMayRaise \in BOOLEAN

VARIABLES
    status,    \* context.status of each subagent
    done,      \* context._done
    stopFlag,  \* context._stop_flag
    result,    \* context.result
    worker,    \* program counter of _run
    outcome,   \* the status field of what _run_subagent returned
    turns,     \* slots held by the conversations' own turns
    waiter,    \* program counter of the delegate call that waits for the subagent
    stopper    \* program counter of context.stop()

ctxVars == <<status, done, stopFlag, result>>
workVars == <<worker, outcome, turns>>
ctlVars == <<waiter, stopper>>
vars == <<officeVars, ctxVars, workVars, ctlVars>>

Final == {"completed", "failed", "stopped"}

Init == /\ OfficeInit
        /\ status = [s \in Subs |-> "none"]
        /\ done = [s \in Subs |-> FALSE] /\ stopFlag = [s \in Subs |-> FALSE]
        /\ result = [s \in Subs |-> "none"]
        /\ worker = [s \in Subs |-> "new"] /\ outcome = [s \in Subs |-> "none"]
        /\ turns = 0
        /\ waiter = [s \in Subs |-> "none"] /\ stopper = [s \in Subs |-> "idle"]

SetStatus(s, v) == status' = [status EXCEPT ![s] = v]
SetDone(s) == done' = [done EXCEPT ![s] = TRUE]
WorkerGoes(s, from, to) == worker[s] = from /\ worker' = [worker EXCEPT ![s] = to]
WaiterGoes(s, from, to) == waiter[s] = from /\ waiter' = [waiter EXCEPT ![s] = to]
StopperGoes(s, from, to) == stopper[s] = from /\ stopper' = [stopper EXCEPT ![s] = to]

--------------------------------------------------------------------------------
(* The slots *)

HoldsSlot(s) == worker[s] \in {"building", "running", "returned", "raised", "completing", "failing",
                               "signalling", "reporting", "releasing"}
ActiveSlots == turns + Cardinality({s \in Subs : HoldsSlot(s)})

\* A turn of some conversation takes a slot or gives it back (RunProtocol).
TurnTakes == /\ ActiveSlots < MaxWorkers
             /\ turns' = turns + 1
             /\ UNCHANGED <<officeVars, ctxVars, worker, outcome, ctlVars>>
TurnGives == /\ turns > 0
             /\ turns' = turns - 1
             /\ UNCHANGED <<officeVars, ctxVars, worker, outcome, ctlVars>>

--------------------------------------------------------------------------------
(* AgentManager.spawn and _run *)

\* session/delegate waits for the subagent, delegate_async does not.
Spawn(s) == /\ home[Parent] = "open"
            /\ WorkerGoes(s, "new", "acquiring")
            /\ SetStatus(s, "running")
            /\ waiter' = [waiter EXCEPT ![s] = IF s \in Awaited THEN "waiting" ELSE "none"]
            /\ Register(s)
            /\ UNCHANGED <<done, stopFlag, result, outcome, turns, stopper>>

Acquire(s) == /\ ActiveSlots < MaxWorkers
              /\ WorkerGoes(s, "acquiring", "building")
              /\ UNCHANGED <<officeVars, ctxVars, outcome, turns, ctlVars>>

MakeAgent(s) == /\ WorkerGoes(s, "building", "running")
                /\ UNCHANGED <<officeVars, ctxVars, outcome, turns, ctlVars>>

\* make_agent raises inside acquire, which gives the slot back; the call is not
\* inside the try of _run, so the thread ends here.
AcquireRaises(s) == /\ AcquireMayRaise
                    /\ WorkerGoes(s, "building", "dead")
                    /\ UNCHANGED <<officeVars, ctxVars, outcome, turns, ctlVars>>

\* The deadline is over at a moment when all slots are taken.
AcquireTimesOut(s) == /\ ActiveSlots >= MaxWorkers
                      /\ WorkerGoes(s, "acquiring", "refused")
                      /\ UNCHANGED <<officeVars, ctxVars, outcome, turns, ctlVars>>

\* fail(), whatever the status is.
Refuse(s) == /\ WorkerGoes(s, "refused", "refusing")
             /\ SetStatus(s, "failed")
             /\ UNCHANGED <<officeVars, done, stopFlag, result, outcome, turns, ctlVars>>

SignalRefusal(s) == /\ WorkerGoes(s, "refusing", "notifying")
                    /\ SetDone(s)
                    /\ UNCHANGED <<officeVars, status, stopFlag, result, outcome, turns, ctlVars>>

Notify(s) == /\ WorkerGoes(s, "notifying", "ended")
             /\ Accept(Letter("notify", s, Parent, s))
             /\ UNCHANGED <<ctxVars, outcome, turns, ctlVars>>

\* Mutant: every exception of chat() counts as a stop.
ReturnsStopped(s, what) == /\ WorkerGoes(s, "running", "returned")
                           /\ outcome' = [outcome EXCEPT ![s] = IF what = "failed" THEN "stopped"
                                                                ELSE what]
                           /\ UNCHANGED <<officeVars, ctxVars, turns, ctlVars>>

\* _run_subagent returns what the model said ("completed"), that chat() raised
\* ("failed"), or that the pre-step hook saw the stop flag ("stopped").
Returns(s, what) == /\ what = "stopped" => stopFlag[s]
                    /\ WorkerGoes(s, "running", "returned")
                    /\ outcome' = [outcome EXCEPT ![s] = what]
                    /\ UNCHANGED <<officeVars, ctxVars, turns, ctlVars>>

\* Mutant: nothing is mailed when the assembly of the agent raises.
RaisesSilently(s) == /\ WorkerGoes(s, "running", "releasing")
                     /\ outcome' = [outcome EXCEPT ![s] = "failed"]
                     /\ UNCHANGED <<officeVars, ctxVars, turns, ctlVars>>

\* The assembly of the agent raises.
Raises(s) == /\ WorkerGoes(s, "running", "raised")
             /\ outcome' = [outcome EXCEPT ![s] = "failed"]
             /\ UNCHANGED <<officeVars, ctxVars, turns, ctlVars>>

\* Both branches ask first whether the status is still RUNNING.
LooksAtStatus(s) ==
    /\ worker[s] \in {"returned", "raised"}
    /\ worker' = [worker EXCEPT ![s] = IF status[s] # "running" THEN "reporting"
                                       ELSE IF @ = "returned" THEN "completing" ELSE "failing"]
    /\ UNCHANGED <<officeVars, ctxVars, outcome, turns, ctlVars>>

Complete(s) == /\ WorkerGoes(s, "completing", "signalling")
               /\ result' = [result EXCEPT ![s] = outcome[s]]
               /\ SetStatus(s, "completed")
               /\ UNCHANGED <<officeVars, done, stopFlag, outcome, turns, ctlVars>>

Fail(s) == /\ WorkerGoes(s, "failing", "signalling")
           /\ SetStatus(s, "failed")
           /\ UNCHANGED <<officeVars, done, stopFlag, result, outcome, turns, ctlVars>>

Signal(s) == /\ WorkerGoes(s, "signalling", "reporting")
             /\ SetDone(s)
             /\ UNCHANGED <<officeVars, status, stopFlag, result, outcome, turns, ctlVars>>

Report(s) == /\ WorkerGoes(s, "reporting", "releasing")
             /\ Accept(Letter("result", s, Parent, s))
             /\ UNCHANGED <<ctxVars, outcome, turns, ctlVars>>

Release(s) == /\ WorkerGoes(s, "releasing", "ended")
              /\ UNCHANGED <<officeVars, ctxVars, outcome, turns, ctlVars>>

--------------------------------------------------------------------------------
(* The delegate call inside AgentContext.wait *)

WaitEnds(s) == /\ done[s]
               /\ WaiterGoes(s, "waiting", "replied")
               /\ UNCHANGED <<officeVars, ctxVars, workVars, stopper>>

\* The timeout is over and the event is not set; then the status is read.
WaitExpires(s) == /\ ~done[s]
                  /\ WaiterGoes(s, "waiting", "expired")
                  /\ UNCHANGED <<officeVars, ctxVars, workVars, stopper>>

StillRunning(s) == /\ waiter[s] = "expired"
                   /\ waiter' = [waiter EXCEPT ![s] = IF status[s] = "running" THEN "failing"
                                                     ELSE "replied"]
                   /\ UNCHANGED <<officeVars, ctxVars, workVars, stopper>>

WaiterFails(s) == /\ WaiterGoes(s, "failing", "signalling")
                  /\ SetStatus(s, "failed")
                  /\ UNCHANGED <<officeVars, done, stopFlag, result, workVars, stopper>>

WaiterSignals(s) == /\ WaiterGoes(s, "signalling", "replied")
                    /\ SetDone(s)
                    /\ UNCHANGED <<officeVars, status, stopFlag, result, workVars, stopper>>

--------------------------------------------------------------------------------
(* Control: session/stop, session/delete *)

Calls(p) == Cardinality({s \in Subs : p[s] # "idle"})

\* Mutant: the event is set together with the flag, before the status.
StopWakesFirst(s) == /\ Calls(stopper) < MaxStops
                     /\ home[s] = "open"
                     /\ StopperGoes(s, "idle", "flagged")
                     /\ stopFlag' = [stopFlag EXCEPT ![s] = TRUE]
                     /\ SetDone(s)
                     /\ UNCHANGED <<officeVars, status, result, workVars, waiter>>

StopRequested(s) == /\ Calls(stopper) < MaxStops
                    /\ home[s] = "open"
                    /\ StopperGoes(s, "idle", "flagged")
                    /\ stopFlag' = [stopFlag EXCEPT ![s] = TRUE]
                    /\ UNCHANGED <<officeVars, status, done, result, workVars, waiter>>

StopLooks(s) == /\ stopper[s] = "flagged"
                /\ stopper' = [stopper EXCEPT ![s] = IF status[s] = "running" THEN "writing"
                                                    ELSE "signalling"]
                /\ UNCHANGED <<officeVars, ctxVars, workVars, waiter>>

StopWrites(s) == /\ StopperGoes(s, "writing", "signalling")
                 /\ SetStatus(s, "stopped")
                 /\ UNCHANGED <<officeVars, done, stopFlag, result, workVars, waiter>>

StopSignals(s) == /\ StopperGoes(s, "signalling", "ended")
                  /\ SetDone(s)
                  /\ UNCHANGED <<officeVars, status, stopFlag, result, workVars, waiter>>

Create == Register(Parent) /\ UNCHANGED <<ctxVars, workVars, ctlVars>>

\* session/delete: what is still running is stopped first.
Delete(o) == /\ Cardinality({k \in Owners : home[k] = "closed"}) < MaxDeletes
             /\ o \in Subs => status[o] # "running"
             /\ Unregister(o)
             /\ UNCHANGED <<ctxVars, workVars, ctlVars>>

--------------------------------------------------------------------------------
Carry == OfficeStep /\ UNCHANGED <<ctxVars, workVars, ctlVars>>

\* What the thread of a subagent does once it has been started.
WorkerStep(s) == \/ Acquire(s) \/ MakeAgent(s) \/ AcquireTimesOut(s)
                 \/ Refuse(s) \/ SignalRefusal(s) \/ Notify(s)
                 \/ \E what \in Final : Returns(s, what)
                 \/ Raises(s) \/ LooksAtStatus(s) \/ Complete(s) \/ Fail(s) \/ Signal(s)
                 \/ Report(s) \/ Release(s)
WaiterStep(s) == \/ WaitEnds(s) \/ WaitExpires(s) \/ StillRunning(s)
                 \/ WaiterFails(s) \/ WaiterSignals(s)
StopperStep(s) == StopLooks(s) \/ StopWrites(s) \/ StopSignals(s)

Next == \/ Create \/ TurnTakes \/ TurnGives \/ Carry
        \/ \E s \in Subs : \/ Spawn(s) \/ AcquireRaises(s) \/ WorkerStep(s) \/ WaiterStep(s)
                           \/ StopRequested(s) \/ StopperStep(s)
        \/ \E o \in Owners : Delete(o)

Spec == Init /\ [][Next]_vars

\* The threads of the subagents run, a model call returns or raises (the client has
\* a timeout), and the mail is carried.  Nobody has to stop, delete or wait, and no
\* slot has to become free.
FairSpec == Spec /\ WF_vars(Carry) /\ \A s \in Subs : WF_vars(WorkerStep(s))

--------------------------------------------------------------------------------
(* Properties *)

Outcomes == Final \cup {"none"}
WorkerPc == {"new", "acquiring", "building", "dead", "refused", "refusing", "notifying",
             "running", "returned", "raised", "completing", "failing", "signalling",
             "reporting", "releasing", "ended"}

Reports == [type : {"result", "notify", "nack"}, from : Owners, to : Owners, no : Subs]

TypeOK == /\ home \in [Owners -> {"new", "open", "closed"}]
          /\ moving \subseteq Reports /\ held \subseteq Reports /\ returned \subseteq Reports
          /\ taken = {}
          /\ status \in [Subs -> Final \cup {"none", "running"}]
          /\ done \in [Subs -> BOOLEAN] /\ stopFlag \in [Subs -> BOOLEAN]
          /\ result \in [Subs -> Outcomes] /\ outcome \in [Subs -> Outcomes]
          /\ worker \in [Subs -> WorkerPc]
          /\ turns \in Nat /\ ActiveSlots <= MaxWorkers
          /\ waiter \in [Subs -> {"none", "waiting", "expired", "failing", "signalling", "replied"}]
          /\ stopper \in [Subs -> {"idle", "flagged", "writing", "signalling", "ended"}]

\* Whoever wakes up on the done event of a subagent finds it decided, and finds
\* the result if it is completed, whichever of the worker, the waiter and the
\* stopper set the event.
DoneMeansDecided == \A s \in Subs :
    done[s] => status[s] \in Final /\ (status[s] = "completed" => result[s] # "none")

\* "The parent hears of it either way, without polling" (agent_manager.py): a
\* subagent that was given a slot or was refused one mails to its parent; the
\* letter lies in the parent's box, or comes back when the parent is gone.
Reported(s) == \E l \in held \cup returned :
                  l.from = s /\ l.to = Parent /\ l.type \in {"result", "notify"}

EverySubReports == \A s \in Subs : (worker[s] \in {"running", "refused"}) ~> Reported(s)

\* A subagent whose result is "stopped" or whose status is "stopped" was stopped by
\* somebody; a subagent that failed without a report of failure was given up by the
\* delegate call that waited for it, or was refused a slot.
EveryEndHasACause == \A s \in Subs :
    /\ (status[s] = "stopped" \/ outcome[s] = "stopped") => stopFlag[s]
    /\ (status[s] = "failed" /\ outcome[s] # "failed") =>
          \/ waiter[s] \in {"signalling", "replied"}
          \/ outcome[s] = "none" /\ worker[s] \in {"refusing", "notifying", "ended"}
================================================================================
