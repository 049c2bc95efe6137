------------------------------- MODULE Telemetry -------------------------------
(***************************************************************************)
(* The spans of one conversation (telemetry_otel.py): the plugin listens   *)
(* to the events of the agent's loop and keeps, in one State, the spans it *)
(* has to end.  A worker is the thread of one turn; a worker abandoned     *)
(* after a stop goes on in its model call or its tools while the next      *)
(* turn's worker runs, and both speak to the same State under the turn     *)
(* number the context has by then.  Every listener is one step, the loops  *)
(* over the calls of one answer too, except the end of a turn, which       *)
(* exports the spans outside the lock.                                     *)
(***************************************************************************)
EXTENDS Naturals, Sequences, FiniteSets, Functions, Places

CONSTANTS
    MaxTurns,   \* bound: turns, and workers
    MaxSteps,   \* max_turns of the Agent: model calls of a turn
    MaxCalls,   \* bound: tool calls of one model answer
    MaxMishaps  \* bound: exceptions, abandoned workers and clears, together

ASSUME TelemetryAssumption == /\ MaxTurns \in Nat /\ MaxSteps \in Nat \ {0}
                              /\ MaxCalls \in Nat /\ MaxMishaps \in Nat

Workers == 1..MaxTurns

VARIABLES
    turn,       \* AgentContext.turn
    pc, step,   \* where each worker is in Agent.chat, and its model call
    asked,      \* how many tools the last answer of each worker asks for
    batch,      \* the turn its executor was called with
    left,       \* workers AgentManager.run has abandoned
    raised,     \* workers an exception has ended
    cleared,    \* how often the session was cleared: turn numbers start again
    root, turnSpan, turnNo,     \* State: keys of spans, <<>> for None
    llm,        \* State.llm_spans, keyed by turn and step
    queue,      \* State.tool_queue, per turn
    usage,      \* State.turn_usage, per turn
    ending,     \* what _on_turn_end of each worker has taken from State
    spans,      \* history: every span ever opened, by its key
    spent       \* history: what the model calls of each worker have cost

state == <<root, turnSpan, turnNo, llm, queue, usage>>
agent == <<turn, pc, step, asked, batch, left, raised, cleared>>
telemetryVars == <<agent, state, ending, spans, spent>>

Turns == 0..MaxTurns
Steps == 1..MaxSteps

None == <<>>

NoState == [root |-> None, turnSpan |-> None, turnNo |-> 0,
            llm |-> [k \in Turns \X Steps |-> None],
            queue |-> [t \in Turns |-> <<>>], usage |-> [t \in Turns |-> 0]]

NewState == /\ root' = NoState.root /\ turnSpan' = NoState.turnSpan /\ turnNo' = NoState.turnNo
            /\ llm' = NoState.llm /\ queue' = NoState.queue /\ usage' = NoState.usage

NotEnding == [root |-> None, turnSpan |-> None, used |-> 0]

TelemetryInit ==
    /\ turn = 0 /\ pc = [w \in Workers |-> "new"] /\ step = [w \in Workers |-> 0]
    /\ asked = [w \in Workers |-> 0] /\ batch = [w \in Workers |-> 0]
    /\ left = {} /\ raised = {} /\ cleared = 0
    /\ root = NoState.root /\ turnSpan = NoState.turnSpan /\ turnNo = NoState.turnNo
    /\ llm = NoState.llm /\ queue = NoState.queue /\ usage = NoState.usage
    /\ ending = [w \in Workers |-> NotEnding]
    /\ spans = <<>> /\ spent = [w \in Workers |-> 0]

--------------------------------------------------------------------------------
(* Spans *)

\* A span's key says what it is about: its kind, worker, step and call.  It keeps its
\* parent, how often it was ended and what it was ended with.  A key that is opened again
\* stands for a new span, which only an abandoned worker does.
Opened(list, key, parent) ==
    [k \in DOMAIN list \cup {key} |->
        IF k = key THEN [parent |-> parent, ends |-> 0, got |-> <<>>] ELSE list[k]]

\* Mutant: a span is never ended.
EndedNever(list, key, got) == list

\* _finish_span.
Ended(list, key, got) ==
    IF key = None THEN list
    ELSE [list EXCEPT ![key].ends = @ + 1, ![key].got = got]

TurnContext == IF turnSpan = None THEN root ELSE turnSpan

\* _ensure_root.
RootFor(w) == IF root = None THEN <<"root", w>> ELSE root
WithRoot(w) == IF RootFor(w) = root THEN spans ELSE Opened(spans, RootFor(w), None)

--------------------------------------------------------------------------------
(* The worker, and the listener of each event *)

MayFail == Cardinality(left) + Cardinality(raised) + cleared < MaxMishaps

Moves(w, there) == pc' = [pc EXCEPT ![w] = there]

OutOfTheWay(w) == pc[w] = "over" \/ w \in left

\* turn-start: the root span of the run, unless there is one.
TurnStart(w) ==
    /\ pc[w] = "new" /\ \A v \in 1..w - 1 : OutOfTheWay(v)
    /\ turn' = turn + 1
    /\ spans' = WithRoot(w) /\ root' = RootFor(w)
    /\ step' = [step EXCEPT ![w] = 1]
    /\ Moves(w, "step")
    /\ UNCHANGED <<asked, batch, left, raised, cleared, turnSpan, turnNo, llm, queue, usage,
                   ending, spent>>

\* pre-step and pre-llm: the root and the span of the turn, unless they are there,
\* and the span of the model call, which post-llm is to end.
AskModel(w) ==
    /\ pc[w] = "step"
    /\ LET opens == turnSpan = None \/ turnNo # turn
           t == IF opens THEN <<"turn", w>> ELSE turnSpan
           withTurn == IF opens THEN Opened(WithRoot(w), t, RootFor(w)) ELSE WithRoot(w)
           call == <<"llm", w, step[w]>>
       IN /\ spans' = Opened(withTurn, call, t)
          /\ root' = RootFor(w) /\ turnSpan' = t /\ turnNo' = turn
          /\ llm' = [llm EXCEPT ![<<turn, step[w]>>] = call]
    /\ Moves(w, "llm")
    /\ UNCHANGED <<turn, step, asked, batch, left, raised, cleared, queue, usage, ending, spent>>

\* post-llm: the span of the call is ended, or one is made up for the purpose, and
\* the usage, here 1, is added to the turn's.  The answer asks for tools or is the last one.
Answered(w, n) ==
    /\ pc[w] = "llm"
    /\ LET pending == llm[<<turn, step[w]>>]
           madeUp == <<"llm", w, step[w], "late">>
       IN spans' = IF pending # None THEN Ended(spans, pending, <<>>)
                   ELSE Ended(Opened(spans, madeUp, TurnContext), madeUp, <<>>)
    /\ llm' = [llm EXCEPT ![<<turn, step[w]>>] = None]
    /\ usage' = [usage EXCEPT ![turn] = @ + 1]
    /\ spent' = [spent EXCEPT ![w] = @ + 1]
    /\ asked' = [asked EXCEPT ![w] = n]
    /\ Moves(w, IF n = 0 THEN "end" ELSE "decide")
    /\ UNCHANGED <<turn, step, batch, left, raised, cleared, root, turnSpan, turnNo, queue, ending>>

\* tool-call, wrapped so that it is heard before any decision: one span per call, in
\* the queue of the turn.  A listener may raise at one of the calls.
Call(w, n) == <<"tool", w, step[w], n>>

ToolCalls(w) ==
    /\ pc[w] = "decide"
    /\ \E heard \in 0..asked[w] :
          /\ heard = asked[w] \/ MayFail
          /\ spans' = [k \in DOMAIN spans \cup {Call(w, n) : n \in 1..heard} |->
                          IF k \in DOMAIN spans THEN spans[k]
                          ELSE [parent |-> TurnContext, ends |-> 0, got |-> <<>>]]
          /\ queue' = [queue EXCEPT ![turn] = @ \o [n \in 1..heard |-> Call(w, n)]]
          /\ batch' = [batch EXCEPT ![w] = turn]
          /\ IF heard = asked[w] THEN Moves(w, "tools") /\ UNCHANGED raised
             ELSE Moves(w, "over") /\ raised' = raised \cup {w}
    /\ UNCHANGED <<turn, step, asked, left, cleared, root, turnSpan, turnNo, llm, usage,
                   ending, spent>>

\* An approval has a span of its own, over when the answer is there.
Approval(w) ==
    /\ pc[w] = "tools"
    /\ LET ask == <<"approval", w>>
           parent == IF turnSpan = None THEN RootFor(w) ELSE turnSpan
       IN /\ ask \notin DOMAIN spans
          /\ spans' = Ended(Opened(WithRoot(w), ask, parent), ask, <<>>)
    /\ root' = RootFor(w)
    /\ UNCHANGED <<agent, turnSpan, turnNo, llm, queue, usage, ending, spent>>

\* Mutant: the calls of the batch are taken from the end of the queue.
Youngest(q, n) == q[Len(q) + 1 - n]

Matching(q, n) == q[n]

\* tool-result: the n-th event is taken to be about the n-th call in the queue of the
\* turn the executor was called in, or in that of its step when the context had been
\* cleared and had no turn; without any it is ignored.
ToolResults(w) ==
    /\ pc[w] = "tools"
    /\ LET q == IF batch[w] # 0 THEN queue[batch[w]]
                ELSE queue[turnNo] \o Taking(queue[0], {n \in DOMAIN queue[0] :
                                                          turnNo # 0 /\ queue[0][n][3] = step[w]})
           met == 1..IF Len(q) < asked[w] THEN Len(q) ELSE asked[w]
           Found(k) == {n \in met : Matching(q, n) = k}
       IN /\ spans' = [k \in DOMAIN spans |->
                          IF Found(k) = {} THEN spans[k]
                          ELSE [spans[k] EXCEPT !.ends = @ + 1,
                                                !.got = Call(w, CHOOSE n \in Found(k) : TRUE)]]
          /\ queue' = [t \in Turns |-> Taking(queue[t],
                                             {n \in DOMAIN queue[t] : Found(queue[t][n]) = {}})]
    /\ Moves(w, "next")
    /\ UNCHANGED <<turn, step, asked, batch, left, raised, cleared, root, turnSpan, turnNo, llm, usage,
                   ending, spent>>

\* The next model call, or the end of the turn at the limit of steps.
NextStep(w) ==
    /\ pc[w] = "next"
    /\ IF step[w] < MaxSteps
       THEN step' = [step EXCEPT ![w] = @ + 1] /\ Moves(w, "step")
       ELSE UNCHANGED step /\ Moves(w, "end")
    /\ UNCHANGED <<turn, asked, batch, left, raised, cleared, state, ending, spans, spent>>

\* The checkpoints of the stop flag lead to the end of the turn.
StopSeen(w) ==
    /\ pc[w] \in {"step", "decide", "next"}
    /\ Moves(w, "end")
    /\ UNCHANGED <<turn, step, asked, batch, left, raised, cleared, state, ending, spans, spent>>

--------------------------------------------------------------------------------
(* turn-end or final-answer *)

\* Under the lock the listener takes the spans from State and the usage of the turn.
TakeSpans(w) ==
    /\ pc[w] = "end"
    /\ ending' = [ending EXCEPT ![w] = [root |-> root, turnSpan |-> turnSpan,
                                        used |-> usage[turnNo]]]
    /\ Moves(w, "export")
    /\ UNCHANGED <<turn, step, asked, batch, left, raised, cleared, state, spans, spent>>

\* Without it they are ended and exported, which may take seconds.
Export(w) ==
    /\ pc[w] = "export"
    /\ spans' = Ended(Ended(spans, ending[w].turnSpan, <<ending[w].used>>), ending[w].root, <<>>)
    /\ Moves(w, "reset")
    /\ UNCHANGED <<turn, step, asked, batch, left, raised, cleared, state, ending, spent>>

ResetState == NewState

EndOfTurn(w) ==
    /\ pc[w] = "reset"
    /\ ResetState
    /\ ending' = [ending EXCEPT ![w] = NotEnding]
    /\ Moves(w, "over")
    /\ UNCHANGED <<turn, step, asked, batch, left, raised, cleared, spans, spent>>

--------------------------------------------------------------------------------
(* What goes wrong *)

\* The model call or the tools' part raises: no event tells of the end.
Raises(w) == /\ pc[w] \in {"llm", "tools"} /\ MayFail
             /\ Moves(w, "over") /\ raised' = raised \cup {w}
             /\ UNCHANGED <<turn, step, asked, batch, left, cleared, state, ending, spans, spent>>

\* A stop, and the grace has run out while the worker is in a call.
Abandon(w) == /\ pc[w] \in {"llm", "tools"} /\ w \notin left /\ MayFail
              /\ left' = left \cup {w}
              /\ UNCHANGED <<turn, pc, step, asked, batch, raised, cleared, state, ending, spans, spent>>

\* context/clear between two turns.
Clear == /\ cleared = 0 /\ turn > 0 /\ MayFail
         /\ \A w \in Workers : pc[w] \in {"new", "over"} \/ w \in left
         /\ cleared' = cleared + 1 /\ turn' = 0
         /\ UNCHANGED <<pc, step, asked, batch, left, raised, state, ending, spans, spent>>

--------------------------------------------------------------------------------
LoopStep(w) == \/ TurnStart(w) \/ AskModel(w) \/ ToolCalls(w) \/ Approval(w)
               \/ ToolResults(w) \/ NextStep(w) \/ StopSeen(w)
               \/ TakeSpans(w) \/ Export(w) \/ EndOfTurn(w)
               \/ \E n \in 0..MaxCalls : Answered(w, n)

TelemetryNext == Clear \/ \E w \in Workers : LoopStep(w) \/ Raises(w) \/ Abandon(w)

TelemetrySpec == TelemetryInit /\ [][TelemetryNext]_telemetryVars

--------------------------------------------------------------------------------
(* Properties *)

Keys == DOMAIN spans \cup {None}

TelemetryTypeOK ==
    /\ turn \in Turns /\ turnNo \in Turns /\ cleared \in 0..1
    /\ left \subseteq Workers /\ raised \subseteq Workers
    /\ root \in Keys /\ turnSpan \in Keys /\ Range(llm) \subseteq Keys
    /\ \A t \in Turns : Range(queue[t]) \subseteq Keys /\ usage[t] \in Nat
    /\ pc \in [Workers -> {"new", "step", "llm", "decide", "tools", "next", "end", "export",
                           "reset", "over"}]

OfKind(kind) == {s \in DOMAIN spans : s[1] = kind}
Open(set) == {s \in set : spans[s].ends = 0}

\* As long as no worker was abandoned: no span is ended twice, between two turns only
\* what an exception has left is open, and of the roots only the one that State knows,
\* which the next turn is to end.
Undisturbed == left = {}
AtRest == \A w \in Workers : pc[w] \in {"new", "over"}
SpansAreClosed ==
    Undisturbed =>
       /\ \A s \in DOMAIN spans : spans[s].ends <= 1
       /\ AtRest /\ raised = {} => Open(DOMAIN spans) = {}
       /\ Open(OfKind("root")) \subseteq {root}

\* What is written to a span is about what the span stands for: to a call's its own
\* result, as long as no turn with the same number broke off among its tools, and to a
\* turn's the usage of its own model calls.
SpansTellTheirOwn ==
    Undisturbed =>
       /\ raised = {} \/ cleared = 0 =>
             \A s \in OfKind("tool") : spans[s].ends > 0 => spans[s].got = s
       /\ raised = {} =>
             \A s \in OfKind("turn") : spans[s].ends > 0 => spans[s].got = <<spent[s[2]]>>
================================================================================
