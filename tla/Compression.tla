------------------------------ MODULE Compression ------------------------------
(***************************************************************************)
(* The context manager of one conversation (plugins/builtin/               *)
(* context_manager, context/async_compressor).  Before every model call it *)
(* rewrites the history: it switches to a compressed copy that a           *)
(* background thread has made of an earlier history, if it takes that copy *)
(* for fresh, or runs the chain of strategies on the history (sticky,      *)
(* which only touches the system prompt, then compress, then window).      *)
(* After a model call that used many tokens it starts the thread.          *)
(* The conversation writes its history alone; the thread works on a copy   *)
(* and shares the snapshot and its running mark with it.                   *)
(***************************************************************************)
EXTENDS Window

CONSTANTS
    KeepRecent,  \* compress.keep_recent
    MaxGrowth,   \* async_max_growth
    Budget,      \* window.budget, in messages
    Results,     \* number of tool calls in one assistant message
    MaxAsks,     \* bound: questions of the user
    MaxSteps,    \* Agent.max_turns
    MaxClears    \* bound: calls of context/clear

ASSUME CompressionAssumption ==
    /\ KeepRecent \in Nat \ {0} /\ MaxGrowth \in Nat /\ Budget \in Nat /\ Results \in Nat \ {0}
    /\ MaxAsks \in Nat /\ MaxSteps \in Nat \ {0} /\ MaxClears \in Nat

VARIABLES
    live,      \* context.messages
    pc,        \* where the tool loop is
    over,      \* the last prompt was over the threshold (_last_prompt_tokens)
    snapshot,  \* _snapshot: the compressed messages and the groups of their source
    job,       \* the background thread; _running as long as it is not "none"
    copy,      \* the copy of the history it works on
    asks, step, clears, clock

loopVars == <<live, pc, over, asks, step, clears, clock>>
jobVars == <<snapshot, job, copy>>
compressionVars == <<loopVars, jobVars>>

NoSnapshot == [messages |-> <<>>, groups |-> 0]

CompressionInit ==
    /\ live = <<>> /\ pc = "idle" /\ over = FALSE
    /\ snapshot = NoSnapshot /\ job = "none" /\ copy = <<>>
    /\ asks = 0 /\ step = 0 /\ clears = 0 /\ clock = 1

Busy == job # "none"

--------------------------------------------------------------------------------
(* The conversation *)

Ask == /\ pc = "idle" /\ asks < MaxAsks
       /\ live' = Append(live, Message("user", clock))
       /\ pc' = "pre-step"
       /\ asks' = asks + 1 /\ step' = 0 /\ clock' = clock + 1
       /\ UNCHANGED <<over, clears, jobVars>>

\* reset_session, of a conversation that is not running; the context manager does
\* not hear of it.
Clear == /\ pc = "idle" /\ clears < MaxClears
         /\ live' = <<>>
         /\ clears' = clears + 1
         /\ UNCHANGED <<pc, over, asks, step, clock, jobVars>>

Compressible(messages) == over /\ Early(messages, KeepRecent) # <<>>

\* What a chain without and with the compress strategy makes of the history.  A
\* strategy that has changed the history is the last one.
Windowed(messages) == IF Budget = 0 THEN messages ELSE Trim(messages, Budget)
Chained(messages) == IF Compressible(messages) THEN Assemble(messages, KeepRecent)
                     ELSE Windowed(messages)

Fresh == snapshot # NoSnapshot /\ Len(Groups(live)) <= snapshot.groups + MaxGrowth

\* take_if_fresh takes the snapshot away in any case.
Switch == /\ pc = "pre-step" /\ Fresh
          /\ live' = Windowed(snapshot.messages)
          /\ snapshot' = NoSnapshot
          /\ pc' = "llm"
          /\ UNCHANGED <<over, asks, step, clears, clock, job, copy>>

NoSwitch == /\ pc = "pre-step" /\ ~Fresh
            /\ snapshot' = NoSnapshot
            /\ pc' = "looking"
            /\ UNCHANGED <<live, over, asks, step, clears, clock, job, copy>>

\* is_busy is asked after the snapshot: the thread may have ended in between.
ChainBesideJob == /\ pc = "looking" /\ Busy
                  /\ live' = Windowed(live)
                  /\ pc' = "llm"
                  /\ UNCHANGED <<over, asks, step, clears, clock, jobVars>>

ChainAlone == /\ pc = "looking" /\ ~Busy
              /\ live' = Chained(live)
              /\ pc' = "llm"
              /\ UNCHANGED <<over, asks, step, clears, clock, jobVars>>

\* The summarizer is a model call as well; when it raises the turn fails.
SummaryRaises == /\ pc = "looking" /\ ~Busy /\ Compressible(live)
                 /\ pc' = "idle"
                 /\ UNCHANGED <<live, over, asks, step, clears, clock, jobVars>>

\* AsyncCompressor.request: the thread gets a copy; if one is running, the request
\* is dropped.
Submitted == IF Busy THEN UNCHANGED <<job, copy>>
             ELSE job' = "summarising" /\ copy' = live

\* What the reply says of the tokens of its prompt: nothing, or few or too many of them
\* for should_compress.
Usage == {"unknown", "few", "many"}

\* _on_post_llm
Request(used) == /\ over' = IF used = "unknown" THEN over ELSE used = "many"
                 /\ IF used = "many" THEN Submitted ELSE UNCHANGED <<job, copy>>
                 /\ UNCHANGED snapshot

Answers(used) == /\ pc = "llm"
                 /\ Request(used)
                 /\ live' = Append(live, Message("answer", clock))
                 /\ pc' = "idle" /\ clock' = clock + 1
                 /\ UNCHANGED <<asks, step, clears>>

CallsTools(used) == /\ pc = "llm"
                    /\ Request(used)
                    /\ live' = Append(live, Message("calls", clock))
                    /\ pc' = "tools" /\ clock' = clock + 1
                    /\ UNCHANGED <<asks, step, clears>>

\* The turn was stopped before the next step.
StoppedBetweenSteps == /\ pc = "pre-step"
                       /\ pc' = "idle"
                       /\ UNCHANGED <<live, over, asks, step, clears, clock, jobVars>>

\* The turn was stopped during the model call.
Interrupted(used) == /\ pc = "llm"
                     /\ Request(used)
                     /\ pc' = "idle"
                     /\ UNCHANGED <<live, asks, step, clears, clock>>

ModelRaises == /\ pc = "llm"
               /\ pc' = "idle"
               /\ UNCHANGED <<live, over, asks, step, clears, clock, jobVars>>

ToolsReturn == /\ pc = "tools"
               /\ live' = live \o [n \in 1..Results |-> Message("tool", Last(live).stamp)]
               /\ step' = step + 1
               /\ pc' = IF step + 1 < MaxSteps THEN "pre-step" ELSE "idle"
               /\ UNCHANGED <<over, asks, clears, clock, jobVars>>

\* Stopped, or an exception, before the results are written.
ToolsInterrupted == /\ pc = "tools"
                    /\ pc' = "idle"
                    /\ UNCHANGED <<live, over, asks, step, clears, clock, jobVars>>

--------------------------------------------------------------------------------
(* AsyncCompressor._work *)

Publish == /\ job = "summarising" /\ Early(copy, KeepRecent) # <<>>
           /\ snapshot' = [messages |-> Assemble(copy, KeepRecent), groups |-> Len(Groups(copy))]
           /\ job' = "ending" /\ copy' = <<>>
           /\ UNCHANGED loopVars

\* The summarizer raises, or there is nothing to summarise.
GiveUp == /\ job = "summarising"
          /\ job' = "ending" /\ copy' = <<>>
          /\ UNCHANGED <<snapshot, loopVars>>

\* Mutant: the thread ends only when its snapshot has been taken.
EndTaken == /\ job = "ending" /\ snapshot = NoSnapshot
            /\ job' = "none"
            /\ UNCHANGED <<snapshot, copy, loopVars>>

End == /\ job = "ending"
       /\ job' = "none"
       /\ UNCHANGED <<snapshot, copy, loopVars>>

--------------------------------------------------------------------------------
ModelStep(used) == Answers(used) \/ CallsTools(used) \/ Interrupted(used)
LoopStep == \/ Switch \/ NoSwitch \/ ChainBesideJob \/ ChainAlone \/ SummaryRaises
            \/ \E used \in Usage : ModelStep(used)
            \/ StoppedBetweenSteps \/ ModelRaises \/ ToolsReturn \/ ToolsInterrupted
JobStep == Publish \/ GiveUp \/ End

CompressionNext == Ask \/ Clear \/ LoopStep \/ JobStep

CompressionSpec == CompressionInit /\ [][CompressionNext]_compressionVars

\* The background thread runs; its model call has a timeout.
CompressionFairSpec == CompressionSpec /\ WF_compressionVars(JobStep)

--------------------------------------------------------------------------------
(* Properties *)

Messages == [role : Roles, stamp : Nat]

CompressionTypeOK ==
    /\ live \in Seq(Messages) /\ copy \in Seq(Messages)
    /\ pc \in {"idle", "pre-step", "looking", "llm", "tools"}
    /\ over \in BOOLEAN
    /\ snapshot \in [messages : Seq(Messages), groups : Nat]
    /\ job \in {"none", "summarising", "ending"}
    /\ asks \in 0..MaxAsks /\ step \in 0..MaxSteps /\ clears \in 0..MaxClears
    /\ clock \in Nat

\* An assistant message with its results, all of them or, if the turn was cut off there,
\* none; or another message.
WholeGroup(g) ==
    \/ Len(g) = 1 /\ g[1].role # "tool"
    \/ /\ Len(g) = 1 + Results /\ g[1].role = "calls"
       /\ \A i \in 2..Len(g) : g[i] = Message("tool", g[1].stamp)

GroupsWhole == \A h \in {live, snapshot.messages} :
    /\ FlattenSeq(Groups(h)) = h
    /\ \A i \in DOMAIN Groups(h) : WholeGroup(Groups(h)[i])

StartsWithUser == pc = "llm" => live # <<>> /\ Head(live).role \in FromUser

\* "The whole group in, the whole group out" (window.py): whatever is switched,
\* summarised, trimmed or cleared, in any order, no tool call is parted from its
\* results, and the model never gets a history that begins with its own message.
HistoryWellFormed == GroupsWhole /\ StartsWithUser

\* The chain of strategies never takes the newest group, which holds what the model
\* is about to answer, out of the history.
ChainKeepsNewest ==
    [][ChainAlone \/ ChainBesideJob => Last(Groups(live')) = Last(Groups(live))]_compressionVars

\* A background compression always makes room for the next one.
EveryJobEnds == Busy ~> ~Busy

\* "Summary + the last N messages in the original (no detail is lost)" (compressor.py):
\* the switch keeps what came after the snapshot was taken.
LastStamp(messages) == Max({0} \cup {m.stamp : m \in ToSet(messages)})
SwitchKeepsNewer == [][Switch => \A m \in ToSet(live) :
        m.stamp > LastStamp(snapshot.messages) => m \in ToSet(live')]_compressionVars
================================================================================
