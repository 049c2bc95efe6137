----------------------------- MODULE ApprovalBridge ----------------------------
(***************************************************************************)
(* How a dangerous tool call waits for its user.  A worker thread (the     *)
(* approval gate plugin, WebInteraction, Gateway.request_approval) enters  *)
(* an approval into the Gateway's table, notifies the shell and sleeps on  *)
(* the entry's event, with a timeout; other threads bring the answers      *)
(* (Gateway._respond_approval).  The table and the results are changed     *)
(* under _approval_lock; entry.choice is read by the worker without it.    *)
(* One element of Calls is one pass of a tool call through the gate; an    *)
(* answer is one of the option values.                                     *)
(***************************************************************************)
EXTENDS Naturals, Sequences, FiniteSets

CONSTANTS
    Calls,         \* tool calls that need an approval
    Sessions,      \* conversations, each with its own gate plugin
    SessionOf,     \* the conversation a call belongs to
    OnceOnly,      \* calls whose code is a sandbox level: no "session" option
    Token,         \* the first word of each call's command
    Covered,       \* the remembered words each call's command starts with
    MaxResolved,   \* _MAX_RESOLVED_APPROVALS
    MaxAnswers,    \* bound: accepted answers
    ShellMayFail   \* TRUE: the shell callback may raise

ASSUME ApprovalAssumption ==
    /\ SessionOf \in [Calls -> Sessions] /\ OnceOnly \subseteq Calls
    /\ MaxResolved \in Nat \ {0} /\ MaxAnswers \in Nat
    /\ ShellMayFail \in BOOLEAN

VARIABLES
    asker,     \* program counter of the thread that runs each call
    choice,    \* entry.choice
    table,     \* the keys of Gateway._approvals
    results,   \* the keys of Gateway._approval_results, oldest first
    reply,     \* what request_approval returns
    memory,    \* each gate plugin's _approved_prefixes, as a set
    verdict,   \* what the gate told the executor
    answers    \* history: the accepted answers, oldest first

threadVars == <<asker, reply, verdict>>
tableVars == <<choice, table, results, answers>>
vars == <<threadVars, tableVars, memory>>

Options == {"once", "session", "deny"}
Tokens == {Token[c] : c \in Calls}

Init == /\ asker = [c \in Calls |-> "idle"]
        /\ choice = [c \in Calls |-> "none"]
        /\ table = {} /\ results = <<>>
        /\ reply = [c \in Calls |-> "none"]
        /\ memory = [s \in Sessions |-> {}]
        /\ verdict = [c \in Calls |-> "open"]
        /\ answers = <<>>

--------------------------------------------------------------------------------
(* The thread of the tool call *)

Goes(c, from, to) == asker[c] = from /\ asker' = [asker EXCEPT ![c] = to]

Decide(c, from, v) == /\ Goes(c, from, "ended")
                      /\ verdict' = [verdict EXCEPT ![c] = v]

\* A prefix the user allowed for this session; a sandbox level always asks.
Remembers(c) == c \notin OnceOnly /\ memory[SessionOf[c]] \cap Covered[c] # {}

AllowRemembered(c) == /\ Remembers(c)
                      /\ Decide(c, "idle", "allowed")
                      /\ UNCHANGED <<reply, tableVars, memory>>

\* request_approval puts a fresh entry into the table and notifies the shell;
\* nobody knows its id, and can answer, before that.
Ask(c) == /\ ~Remembers(c)
          /\ Goes(c, "idle", "waiting")
          /\ table' = table \cup {c}
          /\ UNCHANGED <<reply, verdict, choice, results, answers, memory>>

\* The notification raises: the finally clause takes the entry out again, and the
\* exception leaves the gate, which only catches InteractionUnavailableError.
AskRaises(c) == /\ ShellMayFail
                /\ ~Remembers(c)
                /\ Decide(c, "idle", "raised")
                /\ UNCHANGED <<reply, tableVars, memory>>

\* Mutant: wait() has no timeout.
ReturnAnswered(c) == /\ choice[c] # "none"
                     /\ Goes(c, "waiting", "returned")
                     /\ reply' = [reply EXCEPT ![c] = choice[c]]
                     /\ UNCHANGED <<verdict, tableVars, memory>>

\* event.wait returns, because an answer set the event or because the timeout is
\* over; the shell hears item/approvalResolved; then the choice is read for the
\* last time.  The entry is still in the table.
Return(c) == /\ Goes(c, "waiting", "returned")
             /\ reply' = [reply EXCEPT ![c] = choice[c]]
             /\ UNCHANGED <<verdict, tableVars, memory>>

\* Mutant: the pop is not in the finally clause.
LeakEntry(c) == /\ ShellMayFail
                /\ Decide(c, "waiting", "raised")
                /\ UNCHANGED <<reply, tableVars, memory>>

\* The second notification raises.
ResolvedRaises(c) == /\ ShellMayFail
                     /\ Decide(c, "waiting", "raised")
                     /\ table' = table \ {c}
                     /\ UNCHANGED <<reply, choice, results, answers, memory>>

Allows(c) == reply[c] = "once" \/ (reply[c] = "session" /\ c \notin OnceOnly)

\* Mutant: one memory for all sessions.
RememberedEverywhere(c) == IF reply[c] = "session" /\ c \notin OnceOnly
                           THEN [s \in Sessions |-> memory[s] \cup {Token[c]}]
                           ELSE memory

\* "session" adds the first word of the command to the session's memory.
Remembered(c) == IF reply[c] = "session" /\ c \notin OnceOnly
                 THEN [memory EXCEPT ![SessionOf[c]] = @ \cup {Token[c]}]
                 ELSE memory

\* The finally clause removes the entry and the gate decides: no answer, and
\* every answer it does not know, means "denied".
PopAndDecide(c) == /\ Decide(c, "returned", IF Allows(c) THEN "allowed" ELSE "denied")
                   /\ table' = table \ {c}
                   /\ memory' = Remembered(c)
                   /\ UNCHANGED <<reply, choice, results, answers>>

--------------------------------------------------------------------------------
(* Gateway._respond_approval, from any thread and any session *)

OptionsOf(c) == IF c \in OnceOnly THEN {"once", "deny"} ELSE Options

\* Otherwise the call fails with "invalid params" and changes nothing.
MayAnswer(s, c, o) == c \in table /\ SessionOf[c] = s /\ o \in OptionsOf(c)

\* An answer to an approval that is no longer in the table: acknowledged as a
\* duplicate, or refused as unknown.
Duplicate(c) == c \notin table /\ \E i \in 1..Len(results) : results[i] = c

\* Mutant: the newest result is dropped instead of the oldest.
RecordedNewestLost(res, c) ==
    LET kept == IF \E i \in 1..Len(res) : res[i] = c THEN res ELSE Append(res, c)
    IN  IF Len(kept) > MaxResolved THEN SubSeq(kept, 1, MaxResolved) ELSE kept

\* A dict keeps the position of a key that is assigned again; the oldest entry
\* is dropped when there are too many.
Recorded(res, c) ==
    LET kept == IF \E i \in 1..Len(res) : res[i] = c THEN res ELSE Append(res, c)
    IN  IF Len(kept) > MaxResolved THEN Tail(kept) ELSE kept

Respond(s, c, o) == /\ Len(answers) < MaxAnswers
                    /\ MayAnswer(s, c, o)
                    /\ choice' = [choice EXCEPT ![c] = o]
                    /\ results' = Recorded(results, c)
                    /\ answers' = Append(answers, [call |-> c, session |-> s, option |-> o])
                    /\ UNCHANGED <<threadVars, table, memory>>

--------------------------------------------------------------------------------
\* What the thread does once it has asked.
AskerStep(c) == Return(c) \/ ResolvedRaises(c) \/ PopAndDecide(c)

Next == \/ \E c \in Calls : AllowRemembered(c) \/ Ask(c) \/ AskRaises(c) \/ AskerStep(c)
        \/ \E s \in Sessions, c \in Calls, o \in Options : Respond(s, c, o)

Spec == Init /\ [][Next]_vars

\* The wait ends at the latest with its timeout, and the thread goes on to decide;
\* the users owe nothing and the shell need not fail.
FairSpec == Spec /\ \A c \in Calls : WF_vars(Return(c)) /\ WF_vars(PopAndDecide(c))

--------------------------------------------------------------------------------
(* Properties *)

TypeOK == /\ asker \in [Calls -> {"idle", "waiting", "returned", "ended"}]
          /\ choice \in [Calls -> Options \cup {"none"}]
          /\ table \subseteq Calls
          /\ results \in Seq(Calls)
          /\ reply \in [Calls -> Options \cup {"none"}]
          /\ memory \in [Sessions -> SUBSET Tokens]
          /\ verdict \in [Calls -> {"open", "allowed", "denied", "raised"}]
          /\ answers \in Seq([call : Calls, session : Sessions, option : Options])

\* The table holds exactly the approvals somebody is waiting for: an approval
\* that ended, normally, by timeout or by an exception of the shell, can not be
\* answered any more.
TableExact == table = {c \in Calls : asker[c] \in {"waiting", "returned"}}

\* The calls answered after the first answer to c.
AnsweredSince(c) == {d \in Calls \ {c} : \E i, j \in 1..Len(answers) :
                        i < j /\ answers[i].call = c /\ answers[j].call = d}

\* A front end that repeats an answer which was accepted once (because the reply
\* got lost) hears "duplicate" and not "unknown approval", unless at least
\* _MAX_RESOLVED_APPROVALS other approvals have been answered in between.
RetrySafe == \A c \in Calls :
    (\E i \in 1..Len(answers) : answers[i].call = c) /\ c \notin table
        => Duplicate(c) \/ Cardinality(AnsweredSince(c)) >= MaxResolved

\* A call that waits for approval is decided, answered or not.
EveryAskEnds == \A c \in Calls : (asker[c] = "waiting") ~> (asker[c] = "ended")

\* The bridge and the gate together implement the contract: nothing is allowed
\* without an answer of the call's own session, for the call itself or for a
\* prefix of it; sandbox levels are never remembered; a verdict is final.
Contract == INSTANCE ApprovalContract WITH
    answers <- {answers[i] : i \in 1..Len(answers)}

ImplementsApproval == Contract!Approval

\* "A repeated answer ... does not change the first one's result"
\* (tests/test_gateway_approval.py): a call whose first accepted answer is a
\* denial is not executed.
FirstAnswerStands == \A c \in Calls : \A i \in 1..Len(answers) :
    (/\ answers[i].call = c /\ answers[i].option = "deny"
     /\ \A j \in 1..(i - 1) : answers[j].call # c)
    => verdict[c] # "allowed"
================================================================================
