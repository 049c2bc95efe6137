-------------------------------- MODULE LiveView --------------------------------
(***************************************************************************)
(* A conversation as the browser shows it while it goes on: the worker of  *)
(* a turn asks the model, the text goes to the screen piece by piece, and  *)
(* the events of the agent's loop become notices (serve.py), which the     *)
(* page sorts into one bubble per turn number (useMessages.ts).  A worker  *)
(* that was left behind after a stop goes on and speaks under the number   *)
(* of the turn that runs by then.                                          *)
(*                                                                         *)
(* The transport keeps the order of notices (WebTransport), so a notice    *)
(* is shown in the step that sends it.  The loops over the calls of one    *)
(* answer are one step.                                                    *)
(***************************************************************************)
EXTENDS ChatStream

CONSTANTS
    MaxTurns,   \* bound: turns, and workers
    MaxSteps,   \* max_turns of the Agent: model calls of a turn
    MaxChunks,  \* bound: chunks of each turn
    Dangerous,  \* the calls of an answer that are refused
    MaxFaults   \* bound: stops and exceptions

ASSUME ViewAssumption == /\ MaxTurns \in Nat /\ MaxSteps \in Nat \ {0}
                         /\ MaxFaults \in Nat /\ MaxChunks \in [1..MaxTurns -> Nat]
                         /\ Dangerous \subseteq 1..MaxCalls

Workers == 1..MaxTurns

VARIABLES
    turn,       \* AgentContext.turn
    stop,       \* AgentContext._stop_flag
    pc, step,   \* where each worker is in Agent.chat, and its model call
    said,       \* what the model has sent of the current answer
    chunks,     \* how many chunks of its turn each worker has received (bound)
    acc,        \* what chat_stream has gathered of it
    batch,      \* the turn number the executor was called with
    bubbles,    \* the page: turn number -> bubble
    left,       \* workers that run() has left behind
    faults,
    spoken,     \* history: the text each worker has passed on
    broken      \* history: workers that an exception has ended

agent == <<turn, stop, step, batch>>
stream == <<said, acc, chunks>>
viewVars == <<agent, pc, stream, bubbles, left, faults, spoken, broken>>

ViewInit ==
    /\ turn = 0 /\ stop = FALSE
    /\ pc = [w \in Workers |-> "new"] /\ step = [w \in Workers |-> 0]
    /\ said = [w \in Workers |-> Silence] /\ acc = [w \in Workers |-> Nothing]
    /\ chunks = [w \in Workers |-> 0]
    /\ batch = [w \in Workers |-> 0]
    /\ bubbles = <<>> /\ left = {} /\ faults = 0
    /\ spoken = [w \in Workers |-> <<>>] /\ broken = {}

--------------------------------------------------------------------------------
(* The page *)

Bubble(t) == IF t \in DOMAIN bubbles THEN bubbles[t]
             ELSE [body |-> <<>>, state |-> "streaming", rows |-> <<>>]

Replaced(t, b) == bubbles' = [u \in DOMAIN bubbles \cup {t} |-> IF u = t THEN b ELSE bubbles[u]]

\* item/agentMessage/delta
ShowsText(t, piece) ==
    Replaced(t, [Bubble(t) EXCEPT !.body = Append(@, piece), !.state = "streaming"])

\* The decision on a call; which one it is does not matter here.
Refused(id) == id[3] \in Dangerous

Listed(b, id) == \E n \in DOMAIN b.rows : b.rows[n].call = id
Unlisted(b, ids) == Taking(ids, {n \in DOMAIN ids : ~Listed(b, ids[n])})
Row(id, status) == [call |-> id, status |-> status, progress |-> FALSE, result |-> FALSE]

\* item/toolCall, for each call in turn
ShowsCalls(t, ids) ==
    LET b == Bubble(t)
        new == Unlisted(b, ids)
    IN Replaced(t, [b EXCEPT !.rows = @ \o [n \in DOMAIN new |->
          Row(new[n], IF Refused(new[n]) THEN "blocked" ELSE "running")]])

\* item/toolProgress: only for a row that is there
ShowsProgress(t, ids) ==
    IF t \notin DOMAIN bubbles THEN UNCHANGED bubbles
    ELSE Replaced(t, [Bubble(t) EXCEPT !.rows = [n \in DOMAIN @ |->
                        IF @[n].call \in ids THEN [@[n] EXCEPT !.progress = TRUE] ELSE @[n]]])

\* item/toolResult: a row that is not there is made
ShowsResults(t, ids) ==
    LET b == Bubble(t)
        new == Unlisted(b, ids)
        rows == b.rows \o [n \in DOMAIN new |-> Row(new[n], "running")]
    IN Replaced(t, [b EXCEPT !.rows = [n \in DOMAIN rows |->
          IF rows[n].call \in Range(ids) THEN [rows[n] EXCEPT !.result = TRUE] ELSE rows[n]]])

\* turn/end: only for a bubble that is there
ShowsEnd(t, state) ==
    IF t \notin DOMAIN bubbles THEN UNCHANGED bubbles
    ELSE Replaced(t, [Bubble(t) EXCEPT !.state = state])

--------------------------------------------------------------------------------
(* The worker: Agent.chat *)

GoesTo(w, from, to) == pc[w] = from /\ pc' = [pc EXCEPT ![w] = to]
Fault == faults < MaxFaults /\ faults' = faults + 1
OutOfTheWay(w) == pc[w] = "over" \/ w \in left

\* AgentManager.run clears the stop flag and starts the worker.
TurnStart(w) ==
    /\ GoesTo(w, "new", "asks") /\ \A v \in 1..w - 1 : OutOfTheWay(v)
    /\ turn' = turn + 1 /\ stop' = FALSE
    /\ step' = [step EXCEPT ![w] = 1]
    /\ UNCHANGED <<batch, stream, bubbles, left, faults, spoken, broken>>

\* What the worker had in its hands goes with it.
IsOver(w) == /\ pc' = [pc EXCEPT ![w] = "over"]
             /\ said' = [said EXCEPT ![w] = Silence] /\ acc' = [acc EXCEPT ![w] = Nothing]
             /\ chunks' = [chunks EXCEPT ![w] = 0] /\ batch' = [batch EXCEPT ![w] = 0]

\* The turn of the notice is the one the context has now.
EndsTurn(w, state) == IsOver(w) /\ ShowsEnd(turn, state)

\* A stop is seen before each call of the model ...
StopSeen(w) ==
    /\ pc[w] = "asks" /\ stop
    /\ EndsTurn(w, "completed")
    /\ UNCHANGED <<turn, stop, step, left, faults, spoken, broken>>

AsksModel(w) ==
    /\ GoesTo(w, "asks", "streams") /\ ~stop
    /\ said' = [said EXCEPT ![w] = Silence] /\ acc' = [acc EXCEPT ![w] = Nothing]
    /\ UNCHANGED <<agent, chunks, bubbles, left, faults, spoken, broken>>

\* Mutant: the number is taken when the callback is made, before the turn begins.
NumberBefore(w) == w - 1

\* The stream callback looks the number up for each piece.
NumberNow(w) == turn

\* A chunk arrives; its text is passed on at once.
Receives(w, c) ==
    /\ pc[w] = "streams" /\ MayFollow(said[w], c) /\ chunks[w] < MaxChunks[w]
    /\ chunks' = [chunks EXCEPT ![w] = @ + 1]
    /\ said' = [said EXCEPT ![w] = Said(@, c)]
    /\ acc' = [acc EXCEPT ![w] = Taken(@, c)]
    /\ LET piece == <<w, step[w], c.piece>> IN
          IF c.kind # "text" THEN UNCHANGED <<bubbles, spoken>>
          ELSE ShowsText(NumberNow(w), piece) /\ spoken' = [spoken EXCEPT ![w] = Append(@, piece)]
    /\ UNCHANGED <<agent, pc, left, faults, broken>>

\* ... and when the answer is complete.
StreamEnds(w) ==
    /\ pc[w] = "streams"
    /\ IF stop THEN EndsTurn(w, "completed")
       ELSE /\ GoesTo(w, "streams", IF Result(acc[w]).calls = <<>> THEN "answers" ELSE "decides")
            /\ UNCHANGED <<stream, batch, bubbles>>
    /\ UNCHANGED <<turn, stop, step, left, faults, spoken, broken>>

\* final-answer
FinalAnswer(w) ==
    /\ pc[w] = "answers"
    /\ EndsTurn(w, "completed")
    /\ UNCHANGED <<turn, stop, step, left, faults, spoken, broken>>

CallIds(w) == LET calls == Result(acc[w]).calls IN
              [n \in DOMAIN calls |-> <<w, step[w], calls[n].id>>]

\* A decision is made for each call and told.
Announces(w) ==
    /\ GoesTo(w, "decides", "executes")
    /\ ShowsCalls(turn, CallIds(w))
    /\ UNCHANGED <<agent, stream, left, faults, spoken, broken>>

\* ToolExecutor.execute tells the start of each tool it is going to run ...
Executes(w) ==
    /\ GoesTo(w, "executes", "runs")
    /\ batch' = [batch EXCEPT ![w] = turn]
    /\ ShowsProgress(turn, {id \in Range(CallIds(w)) : ~Refused(id)})
    /\ UNCHANGED <<turn, stop, step, stream, left, faults, spoken, broken>>

\* ... and the result of each call.
ToolResults(w) ==
    /\ GoesTo(w, "runs", "returns")
    /\ ShowsResults(batch[w], CallIds(w))
    /\ UNCHANGED <<agent, stream, left, faults, spoken, broken>>

\* The results go into the history, or a stop is seen, or the steps are used up.
NextStep(w) ==
    /\ pc[w] = "returns"
    /\ IF stop \/ step[w] = MaxSteps
       THEN EndsTurn(w, "completed") /\ UNCHANGED step
       ELSE /\ GoesTo(w, "returns", "asks") /\ step' = [step EXCEPT ![w] = @ + 1]
            /\ UNCHANGED <<stream, batch, bubbles>>
    /\ UNCHANGED <<turn, stop, left, faults, spoken, broken>>

\* Mutant: the gateway passes an exception on and tells nobody.
TellsNobody(w) == UNCHANGED bubbles

\* Gateway._send_message: unless run() has returned before.
TellsError(w) == IF w \in left THEN UNCHANGED bubbles ELSE ShowsEnd(turn, "error")

\* The model's connection, the executor or a listener raises an exception.
Raises(w) ==
    /\ pc[w] \in {"streams", "decides", "executes", "runs"} /\ Fault
    /\ IsOver(w) /\ TellsError(w) /\ broken' = broken \cup {w}
    /\ UNCHANGED <<turn, stop, step, left, spoken>>

\* The user's stop: run() returns and leaves the worker behind.
Stops(w) ==
    /\ w = turn /\ pc[w] # "over" /\ w \notin left /\ Fault
    /\ stop' = TRUE /\ left' = left \cup {w}
    /\ UNCHANGED <<turn, step, batch, pc, stream, bubbles, spoken, broken>>

--------------------------------------------------------------------------------
GoesOn(w) ==
    \/ StopSeen(w) \/ AsksModel(w) \/ StreamEnds(w) \/ FinalAnswer(w)
    \/ Announces(w) \/ Executes(w) \/ ToolResults(w) \/ NextStep(w)

ViewNext == \E w \in Workers : \/ TurnStart(w) \/ GoesOn(w) \/ Raises(w) \/ Stops(w)
                               \/ \E c \in Chunk : Receives(w, c)

ViewSpec == ViewInit /\ [][ViewNext]_viewVars

\* Worker threads run and the model comes to an end, or the read times out.
ViewFairSpec == ViewSpec /\ \A w \in Workers : WF_viewVars(GoesOn(w))

--------------------------------------------------------------------------------
(* Properties *)

States == {"new", "asks", "streams", "answers", "decides", "executes", "runs", "returns", "over"}

ViewTypeOK ==
    /\ turn \in 0..MaxTurns /\ stop \in BOOLEAN /\ faults \in 0..MaxFaults
    /\ pc \in [Workers -> States] /\ step \in [Workers -> 0..MaxSteps]
    /\ \A w \in Workers : said[w].text \in 0..MaxText /\ DOMAIN said[w].parts \subseteq 1..MaxCalls
    /\ DOMAIN bubbles \subseteq Workers /\ left \subseteq Workers /\ broken \subseteq Workers

\* However the fragments of the calls arrive, the answer has the tool calls and the
\* arguments that the same answer has when it is not streamed, and without calls the
\* same text (llm.py:150, "isomorphic with chat").
StreamedAsMeant ==
    \A w \in Workers : pc[w] \in {"answers", "decides", "executes", "runs", "returns"} =>
        LET got == Result(acc[w])  meant == Meant(said[w]) IN
        /\ got.calls = meant.calls
        /\ got.calls = <<>> => got.content = meant.content

OwnText(t) == Taking(Bubble(t).body, {n \in DOMAIN Bubble(t).body : Bubble(t).body[n][1] = t})

\* The bubble of a turn has the text of that turn, all of it and in order, unless its
\* worker was left behind; what else is in it was said by such a worker of an earlier
\* turn.  When a turn is over, each of its tools shows its result once, unless
\* an exception came before.
BubbleTellsTheTurn ==
    \A t \in 1..turn :
       /\ t \notin left => OwnText(t) = spoken[t]
       /\ \A n \in DOMAIN Bubble(t).body :
             LET w == Bubble(t).body[n][1] IN w = t \/ (w < t /\ w \in left)
       /\ LET rows == Bubble(t).rows
              own == {n \in DOMAIN rows : rows[n].call[1] = t}
          IN /\ \A n, m \in own : rows[n].call = rows[m].call => n = m
             /\ pc[t] = "over" /\ t \notin left \cup broken => \A n \in own : rows[n].result

Streaming(t) == t \in DOMAIN bubbles /\ bubbles[t].state = "streaming"

\* A bubble does not stay open for ever, unless a worker was left behind that speaks or
\* ends under the number of a later turn, or that an exception ends without a word.
EveryBubbleSettles ==
    \A t \in Workers : Streaming(t) ~>
        \/ ~Streaming(t)
        \/ turn > t /\ left \cap 1..t # {}
        \/ left \cap broken # {}
================================================================================
