------------------------------ MODULE BrowserProofs -----------------------------
(***************************************************************************)
(* Proofs about the two halves of what the user sees and says in the       *)
(* browser: the approvals that the gateway asks for (ApprovalBridge), and  *)
(* the conversation as the page shows it (LiveView, ChatStream).           *)
(*                                                                         *)
(* ApprovalBridge: for any set of calls and sessions, any commands and     *)
(* prefixes, any number of answers and of kept results, nothing is         *)
(* executed without a permission.                                          *)
(*                                                                         *)
(* LiveView: for any number of turns, steps, pieces of text, calls and     *)
(* fragments, the answer put together is the one that was meant, and a     *)
(* bubble tells its own turn.  What is gathered mirrors what was said      *)
(* (Gathered), only the worker of the present turn is not left behind      *)
(* (InTurn), and a row without a result is one of the calls in the hands   *)
(* of its worker (RowsOwned).                                              *)
(***************************************************************************)
EXTENDS ApprovalBridge, LiveView, SequenceTheorems, FiniteSetTheorems, TLAPS

--------------------------------------------------------------------------------
(* The inductive invariant *)

\* The answer o to call c was accepted, from the call's own session.
Given(c, o) == \E i \in 1..Len(answers) :
                   answers[i] = [call |-> c, session |-> SessionOf[c], option |-> o]

\* Somebody said "session" in s for a command that begins with the word t.
GivenForSession(s, t) == \E d \in Calls : /\ SessionOf[d] = s /\ d \notin OnceOnly
                                          /\ Token[d] = t /\ Given(d, "session")

\* Choices, replies and memories come from accepted answers.
ChoiceGiven == \A c \in Calls : choice[c] # "none" => Given(c, choice[c])
ReplyGiven == \A c \in Calls : reply[c] # "none" => Given(c, reply[c])
MemoryGiven == \A s \in Sessions : \A t \in memory[s] : GivenForSession(s, t)
OpenTillEnd == \A c \in Calls : verdict[c] = "open" <=> asker[c] # "ended"

Inductive == TypeOK /\ TableExact /\ ChoiceGiven /\ ReplyGiven /\ MemoryGiven /\ OpenTillEnd

--------------------------------------------------------------------------------
(* The results table is a sequence of calls. *)
LEMMA RecordedType ==
    ASSUME NEW res \in Seq(Calls), NEW c \in Calls
    PROVE  Recorded(res, c) \in Seq(Calls)
<1> DEFINE kept == IF \E i \in 1..Len(res) : res[i] = c THEN res ELSE Append(res, c)
<1>1. kept \in Seq(Calls)
  BY AppendProperties
<1>2. CASE Len(kept) > MaxResolved
  <2>1. kept # <<>>
    BY <1>1, <1>2, ApprovalAssumption, EmptySeq, LenProperties
  <2>2. Tail(kept) \in Seq(Calls)
    BY <1>1, <2>1, HeadTailProperties
  <2> QED BY <1>2, <2>2 DEF Recorded
<1>3. CASE ~(Len(kept) > MaxResolved)
  BY <1>1, <1>3 DEF Recorded
<1> QED BY <1>2, <1>3

LEMMA TypeInit == Init => TypeOK
BY ApprovalAssumption, EmptySeq DEF Init, TypeOK, Options, Tokens

LEMMA TypeStep == TypeOK /\ [Next]_vars => TypeOK'
<1> SUFFICES ASSUME TypeOK, [Next]_vars PROVE TypeOK'
  OBVIOUS
<1> USE ApprovalAssumption DEF TypeOK, Goes, Decide, threadVars, tableVars
<1>1. ASSUME NEW c \in Calls, AllowRemembered(c) PROVE TypeOK'
  BY <1>1 DEF AllowRemembered
<1>2. ASSUME NEW c \in Calls, Ask(c) PROVE TypeOK'
  BY <1>2 DEF Ask
<1>3. ASSUME NEW c \in Calls, AskRaises(c) PROVE TypeOK'
  BY <1>3 DEF AskRaises
<1>4. ASSUME NEW c \in Calls, Return(c) PROVE TypeOK'
  BY <1>4 DEF Return
<1>5. ASSUME NEW c \in Calls, ResolvedRaises(c) PROVE TypeOK'
  BY <1>5 DEF ResolvedRaises
<1>6. ASSUME NEW c \in Calls, PopAndDecide(c) PROVE TypeOK'
  <2>1. memory' \in [Sessions -> SUBSET Tokens]
    BY <1>6 DEF PopAndDecide, Remembered, Tokens
  <2> QED BY <1>6, <2>1 DEF PopAndDecide
<1>7. ASSUME NEW s \in Sessions, NEW c \in Calls, NEW o \in Options, Respond(s, c, o)
      PROVE  TypeOK'
  <2>1. results' \in Seq(Calls)
    BY <1>7, RecordedType DEF Respond
  <2>2. answers' \in Seq([call : Calls, session : Sessions, option : Options])
    BY <1>7, AppendProperties DEF Respond
  <2> QED BY <1>7, <2>1, <2>2 DEF Respond
<1>8. CASE UNCHANGED vars
  BY <1>8 DEF vars
<1> QED BY <1>1, <1>2, <1>3, <1>4, <1>5, <1>6, <1>7, <1>8 DEF Next, AskerStep

(* The bridge's variables keep their types: replies are option values or None, *)
(* never another word (Gateway.request_approval, ApprovalGatePlugin).          *)
THEOREM ApprovalTypeCorrect == Spec => []TypeOK
<1>1. Init => TypeOK
  BY TypeInit
<1>2. TypeOK /\ [Next]_vars => TypeOK'
  BY TypeStep
<1> QED BY <1>1, <1>2, PTL DEF Spec

--------------------------------------------------------------------------------
(* The table *)

LEMMA TableStep == TypeOK /\ TableExact /\ [Next]_vars => TableExact'
<1> SUFFICES ASSUME TypeOK, TableExact, [Next]_vars PROVE TableExact'
  OBVIOUS
<1> USE DEF TypeOK, TableExact, Goes, Decide
<1>1. ASSUME NEW c \in Calls, AllowRemembered(c) PROVE TableExact'
  BY <1>1 DEF AllowRemembered, tableVars
<1>2. ASSUME NEW c \in Calls, Ask(c) PROVE TableExact'
  BY <1>2 DEF Ask
<1>3. ASSUME NEW c \in Calls, AskRaises(c) PROVE TableExact'
  BY <1>3 DEF AskRaises, tableVars
<1>4. ASSUME NEW c \in Calls, Return(c) PROVE TableExact'
  BY <1>4 DEF Return, tableVars
<1>5. ASSUME NEW c \in Calls, ResolvedRaises(c) PROVE TableExact'
  BY <1>5 DEF ResolvedRaises
<1>6. ASSUME NEW c \in Calls, PopAndDecide(c) PROVE TableExact'
  BY <1>6 DEF PopAndDecide
<1>7. ASSUME NEW s \in Sessions, NEW c \in Calls, NEW o \in Options, Respond(s, c, o)
      PROVE  TableExact'
  BY <1>7 DEF Respond, threadVars
<1>8. CASE UNCHANGED vars
  BY <1>8 DEF vars, threadVars, tableVars
<1> QED BY <1>1, <1>2, <1>3, <1>4, <1>5, <1>6, <1>7, <1>8 DEF Next, AskerStep

(* An approval that ended can not be answered any more, and one that waits can: *)
(* the finally clause of request_approval covers every way out.                 *)
THEOREM NoEntryLeaks == Spec => []TableExact
<1>1. Init => TypeOK /\ TableExact
  BY TypeInit DEF Init, TableExact
<1>2. TypeOK /\ TableExact /\ [Next]_vars => (TypeOK /\ TableExact)'
  BY TypeStep, TableStep
<1>3. TypeOK /\ TableExact => TableExact
  OBVIOUS
<1> QED BY <1>1, <1>2, <1>3, PTL DEF Spec

--------------------------------------------------------------------------------
(* Every choice, reply and memory has an answer behind it *)

(* Answers are only ever added. *)
LEMMA GivenStays ==
    ASSUME TypeOK, NEW s \in Sessions, NEW d \in Calls, NEW p \in Options, Respond(s, d, p),
           NEW c, NEW o, Given(c, o)
    PROVE  Given(c, o)'
<1>1. PICK i \in 1..Len(answers) :
          answers[i] = [call |-> c, session |-> SessionOf[c], option |-> o]
  BY DEF Given
<1>2. answers \in Seq([call : Calls, session : Sessions, option : Options])
  BY DEF TypeOK
<1>3. answers' = Append(answers, [call |-> d, session |-> s, option |-> p])
  BY DEF Respond
<1>4. Len(answers') = Len(answers) + 1 /\ answers'[i] = answers[i]
  BY <1>2, <1>3, AppendProperties
<1>5. i \in 1..Len(answers')
  BY <1>2, <1>4, LenProperties
<1> QED BY <1>1, <1>4, <1>5 DEF Given

(* The answer just accepted is one of them. *)
LEMMA NewAnswerGiven ==
    ASSUME TypeOK, NEW s \in Sessions, NEW c \in Calls, NEW o \in Options, Respond(s, c, o)
    PROVE  Given(c, o)'
<1>1. answers \in Seq([call : Calls, session : Sessions, option : Options])
  BY DEF TypeOK
<1>2. answers' = Append(answers, [call |-> c, session |-> s, option |-> o]) /\ s = SessionOf[c]
  BY DEF Respond, MayAnswer
<1>3. Len(answers') = Len(answers) + 1
      /\ answers'[Len(answers) + 1] = [call |-> c, session |-> SessionOf[c], option |-> o]
  BY <1>1, <1>2, AppendProperties
<1>4. Len(answers) + 1 \in 1..Len(answers')
  BY <1>1, <1>3, LenProperties
<1> QED BY <1>3, <1>4 DEF Given

LEMMA JustifiedStep == Inductive /\ [Next]_vars => (ChoiceGiven /\ ReplyGiven /\ MemoryGiven)'
<1> SUFFICES ASSUME Inductive, [Next]_vars
             PROVE  (ChoiceGiven /\ ReplyGiven /\ MemoryGiven)'
  OBVIOUS
<1> USE DEF Inductive
<1>1. ASSUME UNCHANGED answers, UNCHANGED choice, UNCHANGED reply, UNCHANGED memory
      PROVE  (ChoiceGiven /\ ReplyGiven /\ MemoryGiven)'
  BY <1>1 DEF ChoiceGiven, ReplyGiven, MemoryGiven, GivenForSession, Given
<1>2. ASSUME NEW c \in Calls, AllowRemembered(c) \/ Ask(c) \/ AskRaises(c) \/ ResolvedRaises(c)
      PROVE  (ChoiceGiven /\ ReplyGiven /\ MemoryGiven)'
  BY <1>1, <1>2 DEF AllowRemembered, Ask, AskRaises, ResolvedRaises, tableVars
<1>3. ASSUME NEW c \in Calls, Return(c) PROVE (ChoiceGiven /\ ReplyGiven /\ MemoryGiven)'
  <2>1. UNCHANGED <<answers, choice, memory>> /\ reply' = [reply EXCEPT ![c] = choice[c]]
    BY <1>3 DEF Return, tableVars
  <2>2. ReplyGiven'
    BY <2>1 DEF ChoiceGiven, ReplyGiven, Given, TypeOK
  <2> QED BY <2>1, <2>2 DEF ChoiceGiven, MemoryGiven, GivenForSession, Given
<1>4. ASSUME NEW c \in Calls, PopAndDecide(c) PROVE (ChoiceGiven /\ ReplyGiven /\ MemoryGiven)'
  <2>1. UNCHANGED <<answers, choice, reply>> /\ memory' = Remembered(c)
    BY <1>4 DEF PopAndDecide
  <2>2. MemoryGiven'
    <3> SUFFICES ASSUME NEW s \in Sessions, NEW t \in memory'[s]
                 PROVE  GivenForSession(s, t)'
      BY DEF MemoryGiven
    <3>1. CASE t \in memory[s]
      BY <2>1, <3>1 DEF MemoryGiven, GivenForSession, Given
    <3>2. CASE t \notin memory[s]
      <4>1. reply[c] = "session" /\ c \notin OnceOnly /\ s = SessionOf[c] /\ t = Token[c]
        BY <2>1, <3>2 DEF Remembered, TypeOK
      <4>2. Given(c, "session")
        BY <4>1 DEF ReplyGiven
      <4> QED BY <2>1, <4>1, <4>2 DEF GivenForSession, Given
    <3> QED BY <3>1, <3>2
  <2> QED BY <2>1, <2>2 DEF ChoiceGiven, ReplyGiven, Given
<1>5. ASSUME NEW s \in Sessions, NEW c \in Calls, NEW o \in Options, Respond(s, c, o)
      PROVE  (ChoiceGiven /\ ReplyGiven /\ MemoryGiven)'
  <2>1. choice' = [choice EXCEPT ![c] = o] /\ UNCHANGED <<reply, memory>>
    BY <1>5 DEF Respond, threadVars
  <2>2. \A d, p : Given(d, p) => Given(d, p)'
    BY <1>5, GivenStays
  <2>3. Given(c, o)'
    BY <1>5, NewAnswerGiven
  <2>4. ChoiceGiven'
    <3>1. ASSUME NEW d \in Calls, d # c PROVE (choice[d] # "none" => Given(d, choice[d]))'
      <4>1. choice'[d] = choice[d]
        BY <2>1, <3>1 DEF TypeOK
      <4>2. choice[d] # "none" => Given(d, choice[d])
        BY DEF ChoiceGiven
      <4>3. choice[d] # "none" => \E i \in 1..Len(answers)' : answers'[i] =
                [call |-> d, session |-> SessionOf[d], option |-> choice[d]]
        BY <2>2, <4>2 DEF Given
      <4> QED BY <4>1, <4>3 DEF Given
    <3>2. choice'[c] = o
      BY <2>1 DEF TypeOK
    <3>3. (choice[c] # "none" => Given(c, choice[c]))'
      BY <2>3, <3>2 DEF Given
    <3> QED BY <3>1, <3>3 DEF ChoiceGiven
  <2>5. ReplyGiven'
    BY <2>1, <2>2 DEF ReplyGiven, Given
  <2>6. MemoryGiven'
    BY <2>1, <2>2 DEF MemoryGiven, GivenForSession
  <2> QED BY <2>4, <2>5, <2>6
<1>6. CASE UNCHANGED vars
  BY <1>1, <1>6 DEF vars, threadVars, tableVars
<1> QED BY <1>2, <1>3, <1>4, <1>5, <1>6 DEF Next, AskerStep

--------------------------------------------------------------------------------
(* The bridge implements the contract *)

LEMMA OpenStep == TypeOK /\ OpenTillEnd /\ [Next]_vars => OpenTillEnd'
<1> SUFFICES ASSUME TypeOK, OpenTillEnd, [Next]_vars PROVE OpenTillEnd'
  OBVIOUS
<1> USE DEF TypeOK, OpenTillEnd, Goes, Decide
<1>1. ASSUME NEW c \in Calls, AllowRemembered(c) \/ AskRaises(c) \/ ResolvedRaises(c)
      PROVE  OpenTillEnd'
  BY <1>1 DEF AllowRemembered, AskRaises, ResolvedRaises
<1>2. ASSUME NEW c \in Calls, Ask(c) \/ Return(c) PROVE OpenTillEnd'
  BY <1>2 DEF Ask, Return
<1>3. ASSUME NEW c \in Calls, PopAndDecide(c) PROVE OpenTillEnd'
  BY <1>3 DEF PopAndDecide
<1>4. ASSUME NEW s \in Sessions, NEW c \in Calls, NEW o \in Options, Respond(s, c, o)
      PROVE  OpenTillEnd'
  BY <1>4 DEF Respond, threadVars
<1>5. CASE UNCHANGED vars
  BY <1>5 DEF vars, threadVars
<1> QED BY <1>1, <1>2, <1>3, <1>4, <1>5 DEF Next, AskerStep

LEMMA InductiveInit == Init => Inductive
BY TypeInit DEF Init, Inductive, TableExact, ChoiceGiven, ReplyGiven, MemoryGiven, OpenTillEnd

LEMMA InductiveStep == Inductive /\ [Next]_vars => Inductive'
BY TypeStep, TableStep, JustifiedStep, OpenStep DEF Inductive

(* What is in the memory of a session is a standing permission of the contract. *)
LEMMA MemoryStands ==
    ASSUME Inductive, NEW c \in Calls, Remembers(c)
    PROVE  Contract!Standing(c)
<1>1. SessionOf[c] \in Sessions
  BY ApprovalAssumption
<1>2. PICK t \in memory[SessionOf[c]] : t \in Covered[c]
  BY DEF Remembers
<1>3. PICK d \in Calls : /\ SessionOf[d] = SessionOf[c] /\ d \notin OnceOnly
                         /\ Token[d] = t /\ Given(d, "session")
  BY <1>1, <1>2 DEF Inductive, MemoryGiven, GivenForSession
<1>4. PICK i \in 1..Len(answers) :
          answers[i] = [call |-> d, session |-> SessionOf[d], option |-> "session"]
  BY <1>3 DEF Given
<1> QED BY <1>2, <1>3, <1>4 DEF Contract!Standing, Contract!Own, Remembers

(* A positive reply is a permission of the contract for this call. *)
LEMMA ReplyGrants ==
    ASSUME Inductive, NEW c \in Calls, Allows(c)
    PROVE  Contract!Granted(c)
<1>1. reply[c] \in {"once", "session"}
  BY DEF Allows
<1>2. PICK i \in 1..Len(answers) :
          answers[i] = [call |-> c, session |-> SessionOf[c], option |-> reply[c]]
  BY <1>1 DEF Inductive, ReplyGiven, Given
<1> QED BY <1>1, <1>2 DEF Contract!Granted, Contract!Own

(* An accepted answer is an answer of the contract. *)
LEMMA RespondIsAnswer ==
    ASSUME TypeOK, NEW s \in Sessions, NEW c \in Calls, NEW o \in Options, Respond(s, c, o)
    PROVE  Contract!ApprovalNext
<1> DEFINE a == [call |-> c, session |-> s, option |-> o]
<1>1. answers \in Seq([call : Calls, session : Sessions, option : Options])
  BY DEF TypeOK
<1>2. answers' = Append(answers, a) /\ UNCHANGED verdict
  BY DEF Respond, threadVars
<1>3. /\ Len(answers') = Len(answers) + 1 /\ answers'[Len(answers) + 1] = a
      /\ \A i \in 1..Len(answers) : answers'[i] = answers[i]
  BY <1>1, <1>2, AppendProperties
<1>4. 1..Len(answers') = (1..Len(answers)) \cup {Len(answers) + 1}
  BY <1>1, <1>3, LenProperties
<1>5. {answers'[i] : i \in 1..Len(answers')} = {answers[i] : i \in 1..Len(answers)} \cup {a}
  BY <1>3, <1>4
<1>6. a \in Contract!Answer
  BY DEF Contract!Answer, Options
<1>7. Contract!GiveAnswer(a)
  BY <1>2, <1>5 DEF Contract!GiveAnswer
<1> QED BY <1>6, <1>7 DEF Contract!ApprovalNext

LEMMA StepImplements ==
    Inductive /\ [Next]_vars => [Contract!ApprovalNext]_(Contract!approvalVars)
<1> SUFFICES ASSUME Inductive, [Next]_vars
             PROVE  Contract!ApprovalNext \/ UNCHANGED Contract!approvalVars
  OBVIOUS
<1> USE DEF Contract!approvalVars
<1>0. TypeOK /\ OpenTillEnd
  BY DEF Inductive
<1>1. ASSUME NEW c \in Calls, AllowRemembered(c) PROVE Contract!ApprovalNext
  <2>1. Contract!Standing(c)
    BY <1>1, MemoryStands DEF AllowRemembered
  <2>2. verdict[c] = "open" /\ verdict' = [verdict EXCEPT ![c] = "allowed"] /\ UNCHANGED answers
    BY <1>0, <1>1 DEF AllowRemembered, Decide, Goes, OpenTillEnd, tableVars
  <2> QED BY <2>1, <2>2 DEF Contract!ApprovalNext, Contract!Allow
<1>2. ASSUME NEW c \in Calls, Ask(c) \/ Return(c) PROVE UNCHANGED <<answers, verdict>>
  BY <1>2 DEF Ask, Return, tableVars
<1>3. ASSUME NEW c \in Calls, AskRaises(c) \/ ResolvedRaises(c) PROVE Contract!ApprovalNext
  <2>1. verdict[c] = "open" /\ verdict' = [verdict EXCEPT ![c] = "raised"] /\ UNCHANGED answers
    BY <1>0, <1>3 DEF AskRaises, ResolvedRaises, Decide, Goes, OpenTillEnd, tableVars
  <2> QED BY <2>1 DEF Contract!ApprovalNext, Contract!Refuse
<1>4. ASSUME NEW c \in Calls, PopAndDecide(c) PROVE Contract!ApprovalNext
  <2>1. verdict[c] = "open" /\ UNCHANGED answers
        /\ verdict' = [verdict EXCEPT ![c] = IF Allows(c) THEN "allowed" ELSE "denied"]
    BY <1>0, <1>4 DEF PopAndDecide, Decide, Goes, OpenTillEnd
  <2>2. CASE Allows(c)
    <3>1. Contract!Granted(c)
      BY <2>2, ReplyGrants
    <3> QED BY <2>1, <2>2, <3>1 DEF Contract!ApprovalNext, Contract!Allow
  <2>3. CASE ~Allows(c)
    BY <2>1, <2>3 DEF Contract!ApprovalNext, Contract!Refuse
  <2> QED BY <2>2, <2>3
<1>5. ASSUME NEW s \in Sessions, NEW c \in Calls, NEW o \in Options, Respond(s, c, o)
      PROVE  Contract!ApprovalNext
  BY <1>0, <1>5, RespondIsAnswer
<1>6. CASE UNCHANGED vars
  BY <1>6 DEF vars, threadVars, tableVars
<1> QED BY <1>1, <1>2, <1>3, <1>4, <1>5, <1>6 DEF Next, AskerStep

(* Nothing is executed without a permission of its own session: the table, the *)
(* events, the timeouts and the memories of the gates implement the contract   *)
(* (Gateway.request_approval and _respond_approval, ApprovalGatePlugin).       *)
THEOREM BridgeImplementsContract == Spec => ImplementsApproval
<1>1. Init => Contract!ApprovalInit
  BY EmptySeq DEF Init, Contract!ApprovalInit
<1>2. Init => Inductive
  BY InductiveInit
<1>3. Inductive /\ [Next]_vars => Inductive'
  BY InductiveStep
<1>4. Inductive /\ [Next]_vars => [Contract!ApprovalNext]_(Contract!approvalVars)
  BY StepImplements
<1> QED BY <1>1, <1>2, <1>3, <1>4, PTL DEF Spec, ImplementsApproval, Contract!Approval

--------------------------------------------------------------------------------
(* Repeated answers *)

Answered(c) == \E i \in 1..Len(answers) : answers[i].call = c

\* No call is twice among the results, and every one of them was answered.
ResultsOnce == /\ Len(results) <= MaxResolved
               /\ \A i, j \in 1..Len(results) : results[i] = results[j] => i = j
               /\ \A i \in 1..Len(results) : Answered(results[i])

\* An answered call is among the results and everything behind it was answered after
\* it, or so many others were that it has been dropped.
ResultsInOrder == \A c \in Calls : Answered(c) =>
    \/ \E i \in 1..Len(results) :
           results[i] = c /\ \A j \in (i + 1)..Len(results) : results[j] \in AnsweredSince(c)
    \/ Cardinality(AnsweredSince(c)) >= MaxResolved

RetryInv == ResultsOnce /\ ResultsInOrder

(* Only finitely many calls have been answered. *)
CallsIn(log) == {log[i].call : i \in 1..Len(log)}

LEMMA CallsInFinite ==
    ASSUME NEW log, Len(log) \in Nat
    PROVE  IsFiniteSet(CallsIn(log))
<1> DEFINE f == [i \in 1..Len(log) |-> log[i].call]
<1>1. IsFiniteSet(1..Len(log))
  BY FS_Interval
<1>2. f \in Surjection(1..Len(log), CallsIn(log))
  BY DEF Surjection, CallsIn
<1> QED BY <1>1, <1>2, FS_Surjection

LEMMA AnsweredFinite ==
    ASSUME TypeOK, NEW c
    PROVE  IsFiniteSet(AnsweredSince(c))
<1>1. IsFiniteSet(CallsIn(answers))
  BY LenProperties, CallsInFinite DEF TypeOK
<1>2. AnsweredSince(c) \in SUBSET CallsIn(answers)
  BY DEF AnsweredSince, CallsIn
<1> QED BY <1>1, <1>2, FS_Subset

LEMMA AnsweredFinitePrimed ==
    ASSUME TypeOK', NEW c
    PROVE  IsFiniteSet(AnsweredSince(c)')
<1>1. IsFiniteSet(CallsIn(answers'))
  BY LenProperties, CallsInFinite DEF TypeOK
<1>2. AnsweredSince(c)' \in SUBSET CallsIn(answers')
  BY DEF AnsweredSince, CallsIn
<1> QED BY <1>1, <1>2, FS_Subset

(* A list without repetitions has as many elements as places. *)
LEMMA DistinctElements ==
    ASSUME NEW n \in Nat, NEW T, IsFiniteSet(T), NEW f \in [1..n -> T],
           \A i, j \in 1..n : f[i] = f[j] => i = j
    PROVE  Cardinality(T) >= n
<1>1. f \in Injection(1..n, T)
  BY DEF Injection, IsInjective
<1>2. Cardinality(1..n) = n
  BY FS_Interval
<1>3. Cardinality(1..n) <= Cardinality(T)
  BY <1>1, FS_Injection
<1> QED BY <1>2, <1>3

(* What the accepted answer adds to the history. *)
LEMMA HistoryGrows ==
    ASSUME TypeOK, TypeOK', NEW d \in Calls, NEW s, NEW o,
           answers' = Append(answers, [call |-> d, session |-> s, option |-> o]),
           [call |-> d, session |-> s, option |-> o]
               \in [call : Calls, session : Sessions, option : Options]
    PROVE  /\ \A c : Answered(c)' <=> Answered(c) \/ c = d
           /\ \A c : AnsweredSince(c) \subseteq AnsweredSince(c)'
           /\ \A c : Answered(c) /\ c # d => d \in AnsweredSince(c)'
           /\ \A c : Cardinality(AnsweredSince(c)) >= MaxResolved
                         => Cardinality(AnsweredSince(c)') >= MaxResolved
<1>1. /\ Len(answers) \in Nat /\ Len(answers') = Len(answers) + 1
      /\ answers'[Len(answers) + 1].call = d
      /\ \A i \in 1..Len(answers) : answers'[i] = answers[i]
  BY AppendProperties, LenProperties DEF TypeOK
<1>2. \A c : Answered(c)' <=> Answered(c) \/ c = d
  BY <1>1 DEF Answered
<1>3. \A c : AnsweredSince(c) \subseteq AnsweredSince(c)'
  BY <1>1 DEF AnsweredSince
<1>4. \A c : Answered(c) /\ c # d => d \in AnsweredSince(c)'
  BY <1>1 DEF AnsweredSince, Answered
<1>5. ASSUME NEW c, Cardinality(AnsweredSince(c)) >= MaxResolved
      PROVE  Cardinality(AnsweredSince(c)') >= MaxResolved
  <2>1. IsFiniteSet(AnsweredSince(c)) /\ IsFiniteSet(AnsweredSince(c)')
    BY AnsweredFinite, AnsweredFinitePrimed
  <2>2. Cardinality(AnsweredSince(c)) <= Cardinality(AnsweredSince(c)')
    BY <1>3, <2>1, FS_Subset
  <2>3. Cardinality(AnsweredSince(c)) \in Nat /\ Cardinality(AnsweredSince(c)') \in Nat
    BY <2>1, FS_CardinalityType
  <2> QED BY <1>5, <2>2, <2>3, ApprovalAssumption
<1> QED BY <1>2, <1>3, <1>4, <1>5

LEMMA RetryKept ==
    ASSUME RetryInv, UNCHANGED <<results, answers>>
    PROVE  RetryInv'
<1>1. \A c : Answered(c)' = Answered(c)
  BY DEF Answered
<1>2. \A c : AnsweredSince(c)' = AnsweredSince(c)
  BY DEF AnsweredSince
<1>3. ResultsOnce'
  BY <1>1 DEF RetryInv, ResultsOnce
<1>4. ResultsInOrder'
  BY <1>1, <1>2 DEF RetryInv, ResultsInOrder
<1> QED BY <1>3, <1>4 DEF RetryInv

(* An accepted answer keeps the results in order, also when the oldest is dropped. *)
LEMMA RespondKeepsOrder ==
    ASSUME TypeOK, TypeOK', RetryInv, NEW s \in Sessions, NEW d \in Calls, NEW o \in Options,
           Respond(s, d, o)
    PROVE  RetryInv'
<1>1. /\ results' = Recorded(results, d)
      /\ answers' = Append(answers, [call |-> d, session |-> s, option |-> o])
      /\ [call |-> d, session |-> s, option |-> o]
             \in [call : Calls, session : Sessions, option : Options]
  BY DEF Respond
<1>2. /\ \A c : Answered(c)' <=> Answered(c) \/ c = d
      /\ \A c : AnsweredSince(c) \subseteq AnsweredSince(c)'
      /\ \A c : Answered(c) /\ c # d => d \in AnsweredSince(c)'
      /\ \A c : Cardinality(AnsweredSince(c)) >= MaxResolved
                    => Cardinality(AnsweredSince(c)') >= MaxResolved
  BY <1>1, HistoryGrows
<1>3. results \in Seq(Calls) /\ Len(results) \in Nat /\ MaxResolved \in Nat \ {0}
  BY LenProperties, ApprovalAssumption DEF TypeOK
<1>4. /\ Len(results) <= MaxResolved
      /\ \A i, j \in 1..Len(results) : results[i] = results[j] => i = j
      /\ \A i \in 1..Len(results) : Answered(results[i])
  BY DEF RetryInv, ResultsOnce
<1>5. CASE \E i \in 1..Len(results) : results[i] = d
  <2>1. results' = results
    <3> DEFINE kept == IF \E i \in 1..Len(results) : results[i] = d
                       THEN results ELSE Append(results, d)
    <3>1. kept = results
      BY <1>5
    <3>2. ~(Len(kept) > MaxResolved)
      BY <1>3, <1>4, <3>1
    <3>3. Recorded(results, d) = kept
      BY <3>2 DEF Recorded
    <3> QED BY <1>1, <3>1, <3>3
  <2>2. ResultsOnce'
    BY <1>2, <1>4, <2>1 DEF ResultsOnce
  <2>3. Answered(d)
    BY <1>4, <1>5
  <2>4. ResultsInOrder'
    <3> SUFFICES ASSUME NEW c \in Calls, Answered(c)',
                        ~(Cardinality(AnsweredSince(c)') >= MaxResolved)
                 PROVE  \E i \in 1..Len(results) :
                            /\ results[i] = c
                            /\ \A j \in (i + 1)..Len(results) : results[j] \in AnsweredSince(c)'
      BY <2>1 DEF ResultsInOrder
    <3>1. Answered(c)
      BY <1>2, <2>3
    <3>2. ~(Cardinality(AnsweredSince(c)) >= MaxResolved)
      BY <1>2
    <3>3. PICK i \in 1..Len(results) :
              results[i] = c /\ \A j \in (i + 1)..Len(results) : results[j] \in AnsweredSince(c)
      BY <3>1, <3>2 DEF RetryInv, ResultsInOrder
    <3> QED BY <1>2, <3>3
  <2> QED BY <2>2, <2>4 DEF RetryInv
<1>6. CASE \A i \in 1..Len(results) : results[i] # d
  <2> DEFINE kept == Append(results, d)
  <2>1. /\ kept \in Seq(Calls) /\ kept # <<>> /\ Len(kept) = Len(results) + 1
        /\ kept[Len(results) + 1] = d
        /\ \A i \in 1..Len(results) : kept[i] = results[i]
    BY <1>3, AppendProperties
  <2>2. results' = IF Len(kept) > MaxResolved THEN Tail(kept) ELSE kept
    BY <1>1, <1>6 DEF Recorded
  <2>3. \A i, j \in 1..Len(kept) : kept[i] = kept[j] => i = j
    BY <1>3, <1>4, <1>6, <2>1
  <2>4. \A i \in 1..Len(kept) : \A c : kept[i] = c => Answered(c)'
    <3> SUFFICES ASSUME NEW i \in 1..Len(kept), NEW c, kept[i] = c PROVE Answered(c)'
      OBVIOUS
    <3>1. CASE i \in 1..Len(results)
      BY <1>2, <1>4, <2>1, <3>1
    <3>2. CASE i = Len(results) + 1
      BY <1>2, <2>1, <3>2
    <3> QED BY <1>3, <2>1, <3>1, <3>2
  <2>5. ASSUME NEW c \in Calls, Answered(c)', ~(Cardinality(AnsweredSince(c)') >= MaxResolved)
        PROVE  \E i \in 1..Len(kept) :
                   kept[i] = c /\ \A j \in (i + 1)..Len(kept) : kept[j] \in AnsweredSince(c)'
    <3>1. CASE c = d
      BY <1>3, <2>1, <3>1
    <3>2. CASE c # d
      <4>1. Answered(c) /\ d \in AnsweredSince(c)'
        BY <1>2, <2>5, <3>2
      <4>2. ~(Cardinality(AnsweredSince(c)) >= MaxResolved)
        BY <1>2, <2>5
      <4>3. PICK i \in 1..Len(results) :
                /\ results[i] = c
                /\ \A j \in (i + 1)..Len(results) : results[j] \in AnsweredSince(c)
        BY <4>1, <4>2 DEF RetryInv, ResultsInOrder
      <4>4. i \in 1..Len(kept) /\ kept[i] = c
        BY <1>3, <2>1, <4>3
      <4>5. ASSUME NEW j \in (i + 1)..Len(kept) PROVE kept[j] \in AnsweredSince(c)'
        <5>1. CASE j = Len(results) + 1
          BY <2>1, <4>1, <5>1
        <5>2. CASE j \in (i + 1)..Len(results)
          BY <1>2, <1>3, <2>1, <4>3, <5>2
        <5> QED BY <1>3, <2>1, <5>1, <5>2
      <4> QED BY <4>4, <4>5
    <3> QED BY <3>1, <3>2
  <2>6. CASE Len(kept) <= MaxResolved
    <3>1. results' = kept
      BY <1>3, <2>1, <2>2, <2>6
    <3>2. ResultsOnce'
      BY <2>3, <2>4, <2>6, <3>1 DEF ResultsOnce
    <3>3. ResultsInOrder'
      BY <2>5, <3>1 DEF ResultsInOrder
    <3> QED BY <3>2, <3>3 DEF RetryInv
  <2>7. CASE Len(kept) = MaxResolved + 1
    <3>1. /\ results' = Tail(kept) /\ Len(results') = MaxResolved
          /\ \A i \in 1..MaxResolved : results'[i] = kept[i + 1]
      BY <1>3, <2>1, <2>2, <2>7, HeadTailProperties
    <3>2. ResultsOnce'
      <4>1. \A i, j \in 1..Len(results') : results'[i] = results'[j] => i = j
        BY <1>3, <2>3, <2>7, <3>1
      <4>2. \A i \in 1..Len(results') : \A c : results'[i] = c => Answered(c)'
        BY <1>3, <2>4, <2>7, <3>1
      <4>3. \A i \in 1..Len(results') :
                \E k \in 1..Len(answers') : answers'[k].call = results'[i]
        BY <4>2 DEF Answered
      <4>4. Len(results') <= MaxResolved
        BY <1>3, <3>1
      <4> QED BY <4>1, <4>3, <4>4 DEF ResultsOnce, Answered
    <3>3. ResultsInOrder'
      <4> SUFFICES ASSUME NEW c \in Calls, Answered(c)',
                          ~(Cardinality(AnsweredSince(c)') >= MaxResolved)
                   PROVE  \E i \in 1..Len(results') :
                             /\ results'[i] = c
                             /\ \A j \in (i + 1)..Len(results') :
                                    results'[j] \in AnsweredSince(c)'
        BY DEF ResultsInOrder
      <4>1. PICK i \in 1..Len(kept) :
                kept[i] = c /\ \A j \in (i + 1)..Len(kept) : kept[j] \in AnsweredSince(c)'
        BY <2>5
      <4>2. CASE i = 1
        <5> DEFINE T == AnsweredSince(c)'
                   f == [j \in 1..MaxResolved |-> kept[j + 1]]
        <5>1. IsFiniteSet(T)
          BY AnsweredFinitePrimed
        <5>2. f \in [1..MaxResolved -> T]
          BY <1>3, <2>7, <4>1, <4>2
        <5>3. \A a, b \in 1..MaxResolved : f[a] = f[b] => a = b
          BY <1>3, <2>3, <2>7
        <5>4. Cardinality(T) >= MaxResolved
          <6> HIDE DEF T, f
          <6> QED BY <1>3, <5>1, <5>2, <5>3, DistinctElements
        <5> QED BY <5>4
      <4>3. CASE i \in 2..Len(kept)
        <5>1. i - 1 \in 1..Len(results') /\ results'[i - 1] = c
          BY <1>3, <2>7, <3>1, <4>1, <4>3
        <5>2. \A j \in i..Len(results') : results'[j] \in AnsweredSince(c)'
          BY <1>3, <2>7, <3>1, <4>1, <4>3
        <5> QED BY <4>3, <5>1, <5>2
      <4> QED BY <1>3, <2>1, <4>2, <4>3
    <3> QED BY <3>2, <3>3 DEF RetryInv
  <2> QED BY <1>3, <1>4, <2>1, <2>6, <2>7
<1> QED BY <1>5, <1>6

\* A front end that repeats an accepted answer hears "duplicate": an answered call leaves
\* the table of results only when MaxResolved other calls have been answered after it.
THEOREM RepeatedAnswerIsKnown == Spec => []RetrySafe
<1>1. Init => RetryInv
  <2> SUFFICES ASSUME Init PROVE RetryInv
    OBVIOUS
  <2>1. Len(results) = 0 /\ Len(answers) = 0
    BY EmptySeq DEF Init
  <2>2. ResultsOnce
    BY <2>1, ApprovalAssumption DEF ResultsOnce
  <2>3. ResultsInOrder
    BY <2>1 DEF ResultsInOrder, Answered
  <2> QED BY <2>2, <2>3 DEF RetryInv
<1>2. TypeOK /\ TypeOK' /\ RetryInv /\ [Next]_vars => RetryInv'
  <2> SUFFICES ASSUME TypeOK, TypeOK', RetryInv, [Next]_vars PROVE RetryInv'
    OBVIOUS
  <2>1. ASSUME NEW c \in Calls, AllowRemembered(c) \/ Ask(c) \/ AskRaises(c) \/ AskerStep(c)
        PROVE  RetryInv'
    BY <2>1, RetryKept DEF AllowRemembered, Ask, AskRaises, AskerStep, Return, ResolvedRaises,
                           PopAndDecide, tableVars
  <2>2. ASSUME NEW s \in Sessions, NEW c \in Calls, NEW o \in Options, Respond(s, c, o)
        PROVE  RetryInv'
    BY <2>2, RespondKeepsOrder
  <2>3. CASE UNCHANGED vars
    BY <2>3, RetryKept DEF vars, tableVars
  <2> QED BY <2>1, <2>2, <2>3 DEF Next
<1>3. RetryInv => RetrySafe
  BY DEF RetryInv, ResultsInOrder, RetrySafe, Answered, Duplicate
<1> QED BY <1>1, <1>2, <1>3, ApprovalTypeCorrect, PTL DEF Spec

--------------------------------------------------------------------------------
(* What the page shows: the inductive invariant of LiveView *)

\* What chat_stream has gathered is what the model has said so far.
Answers == [text : 0..MaxText, parts : UNION {[D -> 0..MaxParts] : D \in SUBSET (1..MaxCalls)}]
Counted(n) == [i \in 1..n |-> i]
Mirrors(a, s) == a = [content |-> Counted(s.text),
                      calls |-> [i \in DOMAIN s.parts |-> [id |-> i, args |-> Counted(s.parts[i])]]]

Pieces == Workers \X (0..MaxSteps) \X (1..MaxText)
Keys == Workers \X (0..MaxSteps) \X (1..MaxCalls)
Rows == [call : Keys, status : {"blocked", "running"},
         progress : BOOLEAN, result : BOOLEAN]
BubbleType == [body : Seq(Pieces), state : {"streaming", "completed", "error"}, rows : Seq(Rows)]

ViewTypes ==
    /\ turn \in 0..MaxTurns /\ stop \in BOOLEAN /\ faults \in 0..MaxFaults
    /\ pc \in [Workers -> States] /\ step \in [Workers -> 0..MaxSteps]
    /\ said \in [Workers -> Answers] /\ DOMAIN acc = Workers
    /\ batch \in [Workers -> 0..MaxTurns]
    /\ DOMAIN bubbles \subseteq 1..turn /\ \A t \in DOMAIN bubbles : bubbles[t] \in BubbleType
    /\ left \subseteq 1..turn /\ broken \subseteq 1..turn
    /\ spoken \in [Workers -> Seq(Pieces)]

Gathered == \A w \in Workers : Mirrors(acc[w], said[w])

\* Workers begin one after the other, each when the earlier ones are out of the way.
InTurn == \A w \in Workers :
    /\ pc[w] = "new" <=> w > turn
    /\ w < turn => OutOfTheWay(w)
    /\ w > turn => spoken[w] = <<>>

\* A worker that was not left behind has its results shown in its own bubble.
BatchKnown == \A w \in Workers : pc[w] = "runs" =>
    batch[w] \in 1..turn /\ (w \notin left => batch[w] = w)

TextsOwned == \A t \in 1..turn :
    /\ t \notin left => OwnText(t) = spoken[t]
    /\ \A n \in DOMAIN Bubble(t).body :
          LET w == Bubble(t).body[n][1] IN w = t \/ (w < t /\ w \in left)

\* A row of a call has its result, or the call is one that is executed at the moment.
InHands(t, id) == pc[t] \in {"executes", "runs"} /\ id \in Range(CallIds(t))
Distinct(rows) == \A n, m \in DOMAIN rows : rows[n].call = rows[m].call => n = m
RowsAnswered(t) == \A n \in DOMAIN Bubble(t).rows : Bubble(t).rows[n].call[1] = t =>
    Bubble(t).rows[n].result \/ InHands(t, Bubble(t).rows[n].call)
RowsOwned == \A t \in 1..turn :
    Distinct(Bubble(t).rows) /\ (t \notin left \cup broken => RowsAnswered(t))

ViewInv == ViewTypes /\ Gathered /\ InTurn /\ BatchKnown /\ TextsOwned /\ RowsOwned
--------------------------------------------------------------------------------
(* The numbers of a set in their order *)

LEMMA RankFacts ==
    ASSUME NEW S \in SUBSET Nat, IsFiniteSet(S), NEW i \in S
    PROVE  /\ Rank(S, i) \in 1..Cardinality(S)
           /\ \A j \in S : i < j => Rank(S, i) < Rank(S, j)
<1> DEFINE below(k) == {j \in S : j <= k}
<1>1. ASSUME NEW k \in S
      PROVE  /\ IsFiniteSet(below(k)) /\ Cardinality(below(k)) \in Nat
             /\ Cardinality(below(k)) <= Cardinality(S) /\ Cardinality(below(k)) # 0
  <2>1. below(k) \in SUBSET S
    OBVIOUS
  <2>2. IsFiniteSet(below(k)) /\ Cardinality(below(k)) <= Cardinality(S)
    BY <2>1, FS_Subset
  <2>3. k \in below(k)
    OBVIOUS
  <2> HIDE DEF below
  <2> QED BY <2>2, <2>3, FS_CardinalityType, FS_EmptySet
<1>2. Cardinality(S) \in Nat
  BY FS_CardinalityType
<1>3. ASSUME NEW j \in S, i < j
      PROVE  Cardinality(below(i)) < Cardinality(below(j))
  <2>1. below(i) \in SUBSET below(j)
    <3>1. \A k \in S : k <= i => k <= j
      BY <1>3
    <3> QED BY <3>1
  <2>2. j \in below(j) /\ j \notin below(i)
    BY <1>3
  <2>3. below(i) # below(j)
    BY <2>2
  <2> HIDE DEF below
  <2>4. /\ IsFiniteSet(below(j))
        /\ Cardinality(below(i)) \in Nat /\ Cardinality(below(j)) \in Nat
    BY <1>1
  <2> QED BY <2>1, <2>3, <2>4, FS_Subset
<1> QED BY <1>1, <1>2, <1>3 DEF Rank

(* Every place of the list has a member of its rank, and every member has its place. *)
LEMMA InOrderFacts ==
    ASSUME NEW S \in SUBSET Nat, IsFiniteSet(S)
    PROVE  /\ Cardinality(S) \in Nat
           /\ \A n \in 1..Cardinality(S) : InOrder(S)[n] \in S /\ Rank(S, InOrder(S)[n]) = n
           /\ \A i \in S : Rank(S, i) \in 1..Cardinality(S) /\ InOrder(S)[Rank(S, i)] = i
<1> DEFINE c == Cardinality(S)
           r == [i \in S |-> Rank(S, i)]
<1>1. c \in Nat
  BY FS_CardinalityType
<1>2. \A i \in S : Rank(S, i) \in 1..c
  BY RankFacts
<1>3. ASSUME NEW i \in S, NEW j \in S, Rank(S, i) = Rank(S, j) PROVE i = j
  <2>1. Rank(S, i) \in Nat
    BY <1>1, <1>2
  <2>2. /\ i < j => Rank(S, i) < Rank(S, j)
        /\ j < i => Rank(S, j) < Rank(S, i)
    BY RankFacts
  <2> QED BY <1>3, <2>1, <2>2
<1>4. r \in Injection(S, 1..c)
  BY <1>2, <1>3 DEF Injection, IsInjective
<1>5. IsFiniteSet(1..c) /\ Cardinality(1..c) = c
  BY <1>1, FS_Interval
<1>6. r \in Surjection(S, 1..c)
  BY <1>4, <1>5, FS_Injection
<1>7. ASSUME NEW n \in 1..c PROVE \E i \in S : Rank(S, i) = n
  BY <1>6 DEF Surjection
<1>8. ASSUME NEW n \in 1..c PROVE InOrder(S)[n] \in S /\ Rank(S, InOrder(S)[n]) = n
  BY <1>7 DEF InOrder
<1>9. ASSUME NEW i \in S PROVE InOrder(S)[Rank(S, i)] = i
  BY <1>2, <1>3, <1>8
<1> QED BY <1>1, <1>2, <1>8, <1>9

(* A number beyond those of the set comes last. *)
LEMMA InOrderMore ==
    ASSUME NEW S \in SUBSET Nat, IsFiniteSet(S), NEW m \in Nat, \A i \in S : i < m
    PROVE  /\ IsFiniteSet(S \cup {m}) /\ Cardinality(S \cup {m}) = Cardinality(S) + 1
           /\ \A n \in 1..Cardinality(S) : InOrder(S \cup {m})[n] = InOrder(S)[n]
           /\ InOrder(S \cup {m})[Cardinality(S) + 1] = m
<1> DEFINE T == S \cup {m}
           c == Cardinality(S)
<1>1. T \in SUBSET Nat /\ m \notin S /\ m \in T
  OBVIOUS
<1>2. IsFiniteSet(T) /\ Cardinality(T) = c + 1
  BY <1>1, FS_AddElement
<1>3. ASSUME NEW i \in S PROVE Rank(T, i) = Rank(S, i)
  <2>1. i \in Nat /\ i < m /\ ~(m <= i)
    OBVIOUS
  <2>2. {j \in T : j <= i} = {j \in S : j <= i}
    BY <2>1
  <2> QED BY <2>2 DEF Rank
<1>4. Rank(T, m) = c + 1
  <2>1. \A j \in T : j <= m
    OBVIOUS
  <2>2. {j \in T : j <= m} = T
    BY <2>1
  <2> QED BY <1>2, <2>2 DEF Rank
<1> HIDE DEF T
<1>5. \A i \in T : InOrder(T)[Rank(T, i)] = i
  BY <1>1, <1>2, InOrderFacts
<1>6. ASSUME NEW n \in 1..c PROVE InOrder(T)[n] = InOrder(S)[n]
  <2>1. InOrder(S)[n] \in S /\ Rank(S, InOrder(S)[n]) = n
    BY InOrderFacts
  <2> QED BY <1>3, <1>5, <2>1 DEF T
<1>7. InOrder(T)[c + 1] = m
  BY <1>1, <1>4, <1>5
<1> QED BY <1>2, <1>6, <1>7 DEF T

LEMMA TakingMore ==
    ASSUME NEW L, NEW list \in Seq(L), NEW x \in L, NEW P \in SUBSET (1..Len(list))
    PROVE  /\ Taking(list, P) \in Seq(L)
           /\ Taking(Append(list, x), P) = Taking(list, P)
           /\ Taking(Append(list, x), P \cup {Len(list) + 1}) = Append(Taking(list, P), x)
<1> DEFINE more == Append(list, x)
           end == Len(list) + 1
           c == Cardinality(P)
<1>1. /\ end \in Nat /\ Len(list) \in Nat /\ more[end] = x
      /\ \A n \in 1..Len(list) : more[n] = list[n] /\ list[n] \in L
  BY AppendProperties, LenProperties, ElementOfSeq
<1>2. P \in SUBSET Nat /\ IsFiniteSet(P)
  <2>1. Len(list) \in Nat
    BY <1>1
  <2>2. IsFiniteSet(1..Len(list))
    BY <2>1, FS_Interval
  <2>3. IsFiniteSet(P)
    BY <2>2, FS_Subset
  <2> QED BY <2>1, <2>3
<1>3. c \in Nat /\ \A n \in 1..c : InOrder(P)[n] \in P
  BY <1>2, InOrderFacts
<1>4. \A n \in 1..c : list[InOrder(P)[n]] \in L /\ more[InOrder(P)[n]] = list[InOrder(P)[n]]
  BY <1>1, <1>3
<1> HIDE DEF more
<1>5. Taking(list, P) \in Seq(L) /\ Len(Taking(list, P)) = c
  <2>1. Taking(list, P) \in [1..c -> L]
    BY <1>4 DEF Taking
  <2>2. Taking(list, P) \in Seq(L)
    BY <1>3, <2>1, SeqDef
  <2> QED BY <1>3, <2>1, <2>2, LenProperties
<1>6. Taking(more, P) = Taking(list, P)
  BY <1>4 DEF Taking
<1>7. Taking(more, P \cup {end}) = Append(Taking(list, P), x)
  <2>1. \A i \in P : i < end
    BY <1>1
  <2>2. /\ Cardinality(P \cup {end}) = c + 1
        /\ \A n \in 1..c : InOrder(P \cup {end})[n] = InOrder(P)[n]
        /\ InOrder(P \cup {end})[c + 1] = end
    BY <1>1, <1>2, <2>1, InOrderMore
  <2>3. Taking(more, P \cup {end}) = [n \in 1..(c + 1) |-> IF n <= c THEN Taking(list, P)[n] ELSE x]
    <3>1. ASSUME NEW n \in 1..(c + 1)
          PROVE  more[InOrder(P \cup {end})[n]] = IF n <= c THEN Taking(list, P)[n] ELSE x
      <4>1. CASE n \in 1..c
        <5>1. Taking(list, P)[n] = list[InOrder(P)[n]]
          BY <4>1 DEF Taking
        <5>2. more[InOrder(P \cup {end})[n]] = list[InOrder(P)[n]]
          BY <1>4, <2>2, <4>1
        <5> QED BY <1>3, <4>1, <5>1, <5>2
      <4>2. CASE n = c + 1
        BY <1>1, <1>3, <2>2, <4>2
      <4> QED BY <1>3, <4>1, <4>2
    <3> QED BY <2>2, <3>1 DEF Taking
  <2>4. Append(Taking(list, P), x) = [n \in 1..(c + 1) |-> IF n <= c THEN Taking(list, P)[n] ELSE x]
    <3> DEFINE longer == Append(Taking(list, P), x)
    <3>1. /\ longer \in Seq(L) /\ Len(longer) = c + 1
          /\ \A n \in 1..c : longer[n] = Taking(list, P)[n]
          /\ longer[c + 1] = x
      BY <1>3, <1>5, AppendProperties
    <3>2. DOMAIN longer = 1..(c + 1) /\ longer = [n \in DOMAIN longer |-> longer[n]]
      BY <1>3, <3>1, LenProperties
    <3> HIDE DEF longer
    <3>3. \A n \in 1..(c + 1) : longer[n] = IF n <= c THEN Taking(list, P)[n] ELSE x
      BY <1>3, <3>1
    <3>4. longer = [n \in 1..(c + 1) |-> IF n <= c THEN Taking(list, P)[n] ELSE x]
      BY <3>2, <3>3
    <3> QED BY <3>4 DEF longer
  <2> QED BY <2>3, <2>4
<1> QED BY <1>5, <1>6, <1>7 DEF more

--------------------------------------------------------------------------------
(* What chat_stream gathers *)

LEMMA CountedFacts ==
    ASSUME NEW n \in Nat
    PROVE  /\ Counted(n) \in Seq(Nat) /\ Len(Counted(n)) = n
           /\ Append(Counted(n), n + 1) = Counted(n + 1)
           /\ Counted(0) = <<>>
<1>1. Counted(n) \in Seq(Nat) /\ Len(Counted(n)) = n
  <2>1. Counted(n) \in [1..n -> Nat]
    BY DEF Counted
  <2>2. Counted(n) \in Seq(Nat)
    BY <2>1, SeqDef
  <2> QED BY <2>1, <2>2, LenProperties
<1>2. Append(Counted(n), n + 1) = Counted(n + 1)
  <2> DEFINE longer == Append(Counted(n), n + 1)
  <2>1. /\ longer \in Seq(Nat) /\ Len(longer) = n + 1
        /\ \A i \in 1..n : longer[i] = Counted(n)[i]
        /\ longer[n + 1] = n + 1
    BY <1>1, AppendProperties
  <2>2. DOMAIN longer = 1..(n + 1) /\ longer = [i \in DOMAIN longer |-> longer[i]]
    BY <2>1, LenProperties
  <2> HIDE DEF longer
  <2>3. \A i \in 1..(n + 1) : longer[i] = i
    BY <2>1 DEF Counted
  <2>4. longer = Counted(n + 1)
    BY <2>2, <2>3 DEF Counted
  <2> QED BY <2>4 DEF longer
<1>3. Counted(0) = <<>>
  BY DEF Counted
<1> QED BY <1>1, <1>2, <1>3

(* A chunk more, and what was gathered is still what was said. *)
LEMMA ChunkMirrored ==
    ASSUME NEW s \in Answers, NEW a, Mirrors(a, s), NEW c \in Chunk, MayFollow(s, c)
    PROVE  Said(s, c) \in Answers /\ Mirrors(Taken(a, c), Said(s, c))
<1> DEFINE D == DOMAIN s.parts
           i == c.call
<1>1. /\ D \in SUBSET (1..MaxCalls) /\ s.parts \in [D -> 0..MaxParts]
      /\ s.text \in 0..MaxText /\ s = [text |-> s.text, parts |-> s.parts]
  BY DEF Answers
<1>2. /\ a.content = Counted(s.text) /\ DOMAIN a.calls = D
      /\ \A j \in D : a.calls[j] = [id |-> j, args |-> Counted(s.parts[j])]
      /\ a = [content |-> a.content, calls |-> a.calls]
  BY DEF Mirrors
<1>3. CASE c.kind = "text"
  <2>1. c.piece = s.text + 1 /\ c.piece \in 1..MaxText
    BY <1>3 DEF Chunk, MayFollow
  <2>2. Said(s, c) = [text |-> s.text + 1, parts |-> s.parts]
    BY <1>1, <1>3, <2>1 DEF Said
  <2>3. Append(Counted(s.text), s.text + 1) = Counted(s.text + 1)
    BY <1>1, ChatAssumption, CountedFacts
  <2>4. Taken(a, c) = [content |-> Counted(s.text + 1), calls |-> a.calls]
    BY <1>2, <1>3, <2>1, <2>3 DEF Taken
  <2>5. Said(s, c) \in Answers
    BY <1>1, <2>1, <2>2 DEF Answers
  <2> QED BY <1>2, <2>2, <2>4, <2>5 DEF Mirrors
<1>4. CASE c.kind \in {"call", "part"}
  <2> DEFINE fragments == IF c.kind = "call" THEN 0 ELSE s.parts[i] + 1
             E == D \cup {i}
             parts == [j \in E |-> IF j = i THEN fragments ELSE s.parts[j]]
             new == [id |-> i, args |-> Counted(fragments)]
             calls == [j \in E |-> IF j = i THEN new ELSE a.calls[j]]
  <2>1. /\ i \in 1..MaxCalls /\ c.piece = fragments /\ fragments \in 0..MaxParts
        /\ c.kind = "call" => i \notin D
        /\ c.kind = "part" => i \in D
    <3>1. CASE c.kind = "call"
      BY <3>1, ChatAssumption DEF Chunk, MayFollow
    <3>2. CASE c.kind = "part"
      BY <3>2, ChatAssumption DEF Chunk, MayFollow
    <3> QED BY <1>4, <3>1, <3>2
  <2>2. Said(s, c) = [text |-> s.text, parts |-> parts]
    BY <1>1, <1>4, <2>1 DEF Said
  <2>3. Said(s, c) \in Answers
    <3>1. E \in SUBSET (1..MaxCalls) /\ parts \in [E -> 0..MaxParts]
      BY <1>1, <2>1
    <3> HIDE DEF E, parts
    <3> QED BY <1>1, <2>2, <3>1 DEF Answers
  <2>4. Taken(a, c) = [content |-> a.content, calls |-> calls]
    <3> DEFINE old == IF i \in DOMAIN a.calls THEN a.calls[i] ELSE NoFragments
               now == IF c.kind = "call" THEN [old EXCEPT !.id = c.call]
                      ELSE [old EXCEPT !.args = Append(@, c.piece)]
    <3>1. ASSUME c.kind = "call" PROVE now = new
      <4>1. old = NoFragments
        BY <1>2, <2>1, <3>1
      <4>2. fragments = 0 /\ Counted(0) = <<>> /\ i = c.call
        BY <3>1 DEF Counted
      <4> QED BY <3>1, <4>1, <4>2 DEF NoFragments
    <3>2. ASSUME c.kind = "part" PROVE now = new
      <4>1. old = [id |-> i, args |-> Counted(s.parts[i])]
        BY <1>2, <2>1, <3>2
      <4>2. s.parts[i] \in Nat /\ c.piece = s.parts[i] + 1
        BY <1>1, <2>1, <3>2
      <4>3. Append(Counted(s.parts[i]), c.piece) = Counted(fragments)
        BY <3>2, <4>2, CountedFacts
      <4>4. now = [old EXCEPT !.args = Append(@, c.piece)]
        BY <3>2
      <4> HIDE DEF old, now, fragments
      <4>5. now = [id |-> i, args |-> Append(Counted(s.parts[i]), c.piece)]
        BY <4>1, <4>4
      <4> QED BY <4>3, <4>5
    <3>3. now = new
      BY <1>4, <3>1, <3>2
    <3>4. Taken(a, c)
            = [a EXCEPT !.calls = [j \in DOMAIN @ \cup {i} |-> IF j = i THEN now ELSE @[j]]]
      BY <1>4 DEF Taken, CallOf
    <3> HIDE DEF now, new
    <3> QED BY <1>2, <3>3, <3>4
  <2>5. calls = [j \in DOMAIN parts |-> [id |-> j, args |-> Counted(parts[j])]]
    BY <1>2
  <2> HIDE DEF calls, parts
  <2> QED BY <1>2, <2>2, <2>3, <2>4, <2>5 DEF Mirrors
<1> QED BY <1>3, <1>4 DEF Chunk

(* The answer that is put together is the one that was meant. *)
LEMMA MirrorsAsMeant ==
    ASSUME NEW s \in Answers, NEW a, Mirrors(a, s)
    PROVE  /\ Result(a).calls = Meant(s).calls
           /\ Result(a).calls = <<>> => Result(a).content = Meant(s).content
<1> DEFINE D == DOMAIN s.parts
           ids == InOrder(D)
<1>1. /\ D \in SUBSET (1..MaxCalls) /\ s.parts \in [D -> 0..MaxParts] /\ s.text \in 0..MaxText
  BY DEF Answers
<1>2. /\ a.content = Counted(s.text) /\ DOMAIN a.calls = D
      /\ \A j \in D : a.calls[j] = [id |-> j, args |-> Counted(s.parts[j])]
  BY DEF Mirrors
<1>3. D \in SUBSET Nat /\ IsFiniteSet(D)
  <2>1. IsFiniteSet(1..MaxCalls)
    BY ChatAssumption, FS_Interval
  <2>2. IsFiniteSet(D)
    BY <1>1, <2>1, FS_Subset
  <2> QED BY <1>1, <2>2, ChatAssumption
<1> HIDE DEF D
<1>4. DOMAIN ids = 1..Cardinality(D) /\ \A n \in DOMAIN ids : ids[n] \in D
  <2>1. DOMAIN ids = 1..Cardinality(D)
    BY DEF InOrder
  <2> QED BY <1>3, <2>1, InOrderFacts
<1>5. ASSUME NEW j \in D
      PROVE  Arguments(a.calls[j].args) = IF s.parts[j] = MaxParts THEN AllParts ELSE None
  <2>1. AllParts = Counted(MaxParts) /\ s.parts[j] \in Nat /\ MaxParts \in Nat
    BY <1>1, <1>5, ChatAssumption DEF AllParts, Counted
  <2>2. Len(Counted(s.parts[j])) = s.parts[j] /\ Len(Counted(MaxParts)) = MaxParts
    BY <2>1, CountedFacts
  <2>3. a.calls[j] = [id |-> j, args |-> Counted(s.parts[j])]
    BY <1>2
  <2>4. a.calls[j].args = Counted(s.parts[j])
    BY <2>3
  <2> QED BY <2>1, <2>2, <2>4 DEF Arguments
<1> HIDE DEF ids
<1>6. Result(a).calls = Meant(s).calls
  <2>1. Result(a).calls = [n \in DOMAIN ids |-> [id |-> a.calls[ids[n]].id,
                                                 args |-> Arguments(a.calls[ids[n]].args)]]
    BY <1>2 DEF Result, ChatResult, ids
  <2>2. Meant(s).calls = [n \in DOMAIN ids |->
            [id |-> ids[n], args |-> IF s.parts[ids[n]] = MaxParts THEN AllParts ELSE None]]
    BY DEF Meant, ChatResult, ids, D
  <2>3. ASSUME NEW n \in DOMAIN ids
        PROVE  /\ a.calls[ids[n]].id = ids[n]
               /\ Arguments(a.calls[ids[n]].args)
                    = IF s.parts[ids[n]] = MaxParts THEN AllParts ELSE None
    <3>1. ids[n] \in D
      BY <1>4, <2>3
    <3>2. a.calls[ids[n]] = [id |-> ids[n], args |-> Counted(s.parts[ids[n]])]
      BY <1>2, <3>1
    <3> QED BY <1>5, <3>1, <3>2
  <2> QED BY <2>1, <2>2, <2>3
<1>7. ASSUME Result(a).calls = <<>> PROVE Result(a).content = Meant(s).content
  <2>1. DOMAIN Result(a).calls = DOMAIN ids
    BY <1>2 DEF Result, ChatResult, ids
  <2>2. DOMAIN ids = {}
    BY <1>7, <2>1
  <2>3. ids = <<>>
    BY <2>2 DEF ids, InOrder
  <2>4. Result(a).content = a.content
    BY <1>2, <2>3 DEF Result, ChatResult, ids
  <2>5. Meant(s).content = Counted(s.text)
    BY DEF Meant, ChatResult, Counted
  <2> QED BY <1>2, <2>4, <2>5
<1> QED BY <1>6, <1>7

--------------------------------------------------------------------------------
(* The page *)

(* A bubble and its successor: one is replaced, the others stay as they are. *)
LEMMA ReplacedFacts ==
    ASSUME ViewTypes, NEW t \in 1..turn, NEW b \in BubbleType, Replaced(t, b)
    PROVE  /\ DOMAIN bubbles' = DOMAIN bubbles \cup {t}
           /\ \A u \in DOMAIN bubbles' : bubbles'[u] \in BubbleType
           /\ Bubble(t)' = b
           /\ \A u : u # t => Bubble(u)' = Bubble(u)
BY DEF ViewTypes, Replaced, Bubble

LEMMA BubbleTyped ==
    ASSUME ViewTypes, NEW t
    PROVE  /\ Bubble(t) \in BubbleType
           /\ Bubble(t).body \in Seq(Pieces) /\ Bubble(t).rows \in Seq(Rows)
           /\ t \notin 1..turn => Bubble(t).body = <<>> /\ Bubble(t).rows = <<>>
<1>1. <<>> \in Seq(Pieces) /\ <<>> \in Seq(Rows)
  BY EmptySeq
<1>2. Bubble(t) \in BubbleType
  BY <1>1 DEF ViewTypes, Bubble, BubbleType
<1>3. t \notin 1..turn => Bubble(t).body = <<>> /\ Bubble(t).rows = <<>>
  BY DEF ViewTypes, Bubble
<1> QED BY <1>2, <1>3 DEF BubbleType

(* The calls of an answer have keys of their own. *)
LEMMA CallIdsFacts ==
    ASSUME ViewTypes, Gathered, NEW w \in Workers
    PROVE  /\ CallIds(w) \in Seq(Keys)
           /\ \A n \in DOMAIN CallIds(w) : CallIds(w)[n][1] = w
           /\ \A n, m \in DOMAIN CallIds(w) : CallIds(w)[n] = CallIds(w)[m] => n = m
<1> DEFINE D == DOMAIN acc[w].calls
           ids == InOrder(D)
           c == Cardinality(D)
<1>1. D \in SUBSET (1..MaxCalls) /\ \A i \in D : acc[w].calls[i].id = i
  <2>1. said[w] \in Answers /\ Mirrors(acc[w], said[w])
    BY DEF ViewTypes, Gathered
  <2> QED BY <2>1 DEF Answers, Mirrors
<1>2. D \in SUBSET Nat /\ IsFiniteSet(D)
  <2>1. IsFiniteSet(1..MaxCalls)
    BY ChatAssumption, FS_Interval
  <2>2. IsFiniteSet(D)
    BY <1>1, <2>1, FS_Subset
  <2> QED BY <1>1, <2>2, ChatAssumption
<1> HIDE DEF D
<1>3. /\ c \in Nat /\ \A n \in 1..c : ids[n] \in D
      /\ \A n, m \in 1..c : ids[n] = ids[m] => n = m
  BY <1>2, InOrderFacts
<1>4. DOMAIN ids = 1..c
  BY DEF InOrder
<1> HIDE DEF ids
<1>5. CallIds(w) = [n \in 1..c |-> <<w, step[w], ids[n]>>]
  <2> DEFINE calls == Result(acc[w]).calls
  <2>1. calls = [n \in 1..c |-> [id |-> acc[w].calls[ids[n]].id,
                                 args |-> Arguments(acc[w].calls[ids[n]].args)]]
    BY <1>4 DEF Result, ChatResult, ids, D
  <2>2. ASSUME NEW n \in 1..c PROVE calls[n].id = ids[n]
    <3>1. ids[n] \in D
      BY <1>3
    <3>2. calls[n].id = acc[w].calls[ids[n]].id
      BY <2>1
    <3> QED BY <1>1, <3>1, <3>2
  <2>3. DOMAIN calls = 1..c
    BY <2>1
  <2> HIDE DEF calls
  <2>4. CallIds(w) = [n \in DOMAIN calls |-> <<w, step[w], calls[n].id>>]
    BY DEF CallIds, calls
  <2> QED BY <2>2, <2>3, <2>4
<1>6. step[w] \in 0..MaxSteps
  BY DEF ViewTypes
<1>7. CallIds(w) \in [1..c -> Keys]
  <2>1. \A n \in 1..c : ids[n] \in 1..MaxCalls
    BY <1>1, <1>3
  <2> QED BY <1>5, <1>6, <2>1 DEF Keys
<1>8. CallIds(w) \in Seq(Keys)
  BY <1>3, <1>7, SeqDef
<1> QED BY <1>3, <1>5, <1>8

(* Rows for those calls that have none yet. *)
LEMMA MoreRows ==
    ASSUME NEW b \in BubbleType, Distinct(b.rows), NEW ids \in Seq(Keys),
           \A n, m \in DOMAIN ids : ids[n] = ids[m] => n = m,
           NEW status \in [DOMAIN Unlisted(b, ids) -> {"blocked", "running"}]
    PROVE  LET new == Unlisted(b, ids)
               rows == b.rows \o [n \in DOMAIN new |-> Row(new[n], status[n])]
           IN  /\ rows \in Seq(Rows) /\ Distinct(rows)
               /\ \A n \in DOMAIN rows :
                     \/ n \in DOMAIN b.rows /\ rows[n] = b.rows[n]
                     \/ rows[n].call \in Range(ids)
<1> DEFINE places == {n \in DOMAIN ids : ~Listed(b, ids[n])}
           new == Unlisted(b, ids)
           k == Cardinality(places)
           at == InOrder(places)
           added == [n \in DOMAIN new |-> Row(new[n], status[n])]
           rows == b.rows \o added
<1>1. b.rows \in Seq(Rows) /\ Len(ids) \in Nat /\ DOMAIN ids = 1..Len(ids)
      /\ \A n \in DOMAIN ids : ids[n] \in Keys
  BY LenProperties, ElementOfSeq DEF BubbleType
<1>2. places \in SUBSET Nat /\ IsFiniteSet(places)
  <2>1. IsFiniteSet(1..Len(ids)) /\ places \in SUBSET (1..Len(ids))
    BY <1>1, FS_Interval
  <2>2. IsFiniteSet(places)
    BY <2>1, FS_Subset
  <2> QED BY <1>1, <2>1, <2>2
<1> HIDE DEF places
<1>3. /\ k \in Nat /\ \A n \in 1..k : at[n] \in places
      /\ \A n, m \in 1..k : at[n] = at[m] => n = m
  BY <1>2, InOrderFacts
<1>4. DOMAIN new = 1..k /\ \A n \in 1..k : new[n] = ids[at[n]]
  BY DEF Unlisted, Taking, places
<1> HIDE DEF new, at
<1>5. /\ \A n \in 1..k : new[n] \in Keys /\ ~Listed(b, new[n]) /\ new[n] \in Range(ids)
      /\ \A n, m \in 1..k : new[n] = new[m] => n = m
  <2>1. ASSUME NEW n \in 1..k PROVE new[n] \in Keys /\ ~Listed(b, new[n]) /\ new[n] \in Range(ids)
    <3>1. at[n] \in DOMAIN ids /\ ~Listed(b, ids[at[n]])
      BY <1>3 DEF places
    <3> QED BY <1>1, <1>4, <3>1 DEF Range
  <2>2. ASSUME NEW n \in 1..k, NEW m \in 1..k, new[n] = new[m] PROVE n = m
    <3>1. at[n] \in DOMAIN ids /\ at[m] \in DOMAIN ids
      BY <1>3 DEF places
    <3>2. ids[at[n]] = ids[at[m]]
      BY <1>4, <2>2
    <3>3. at[n] = at[m]
      BY <3>1, <3>2
    <3> QED BY <1>3, <3>3
  <2> QED BY <2>1, <2>2
<1>6. added \in Seq(Rows) /\ Len(added) = k /\ \A n \in 1..k : added[n].call = new[n]
  <2>1. added \in [1..k -> Rows] /\ \A n \in 1..k : added[n].call = new[n]
    BY <1>4, <1>5 DEF Row, Rows, new
  <2>2. added \in Seq(Rows)
    BY <1>3, <2>1, SeqDef
  <2> QED BY <1>3, <2>1, <2>2, LenProperties
<1> DEFINE l == Len(b.rows)
<1> HIDE DEF added
<1>7. /\ rows \in Seq(Rows) /\ Len(rows) = l + k /\ l \in Nat
      /\ \A n \in 1..l : rows[n] = b.rows[n]
      /\ \A n \in (l + 1)..(l + k) : rows[n] = added[n - l]
  <2>1. l \in Nat
    BY <1>1, LenProperties
  <2>2. /\ rows \in Seq(Rows) /\ Len(rows) = Len(b.rows) + Len(added)
        /\ \A n \in 1..Len(b.rows) + Len(added) :
              rows[n] = IF n <= Len(b.rows) THEN b.rows[n] ELSE added[n - Len(b.rows)]
    <3>1. PICK old, more : old = b.rows /\ more = added
      OBVIOUS
    <3>2. old \in Seq(Rows) /\ more \in Seq(Rows)
      BY <1>1, <1>6, <3>1
    <3>3. /\ old \o more \in Seq(Rows) /\ Len(old \o more) = Len(old) + Len(more)
          /\ \A n \in 1..Len(old) + Len(more) :
                (old \o more)[n] = IF n <= Len(old) THEN old[n] ELSE more[n - Len(old)]
      BY <3>2, ConcatProperties
    <3> QED BY <3>1, <3>3
  <2>3. Len(added) = k
    BY <1>6
  <2> HIDE DEF rows
  <2>4. \A n \in 1..(l + k) : rows[n] = IF n <= l THEN b.rows[n] ELSE added[n - l]
    BY <2>2, <2>3
  <2>5. Len(rows) = l + k
    BY <2>2, <2>3
  <2>6. ASSUME NEW n \in 1..l PROVE rows[n] = b.rows[n]
    BY <1>3, <2>1, <2>4
  <2>7. ASSUME NEW n \in (l + 1)..(l + k) PROVE rows[n] = added[n - l]
    BY <1>3, <2>1, <2>4
  <2> QED BY <2>1, <2>2, <2>5, <2>6, <2>7
<1>8. DOMAIN rows = 1..(l + k) /\ DOMAIN b.rows = 1..l
  BY <1>1, <1>7, LenProperties
<1> HIDE DEF rows
<1>9. ASSUME NEW n \in 1..(l + k)
      PROVE  \/ n \in 1..l /\ rows[n] = b.rows[n]
             \/ n \in (l + 1)..(l + k) /\ n - l \in 1..k /\ rows[n].call = new[n - l]
  <2>1. n \in 1..l \/ (n \in (l + 1)..(l + k) /\ n - l \in 1..k)
    <3>1. k \in Nat /\ l \in Nat
      BY <1>3, <1>7
    <3> HIDE DEF k, l
    <3> QED BY <3>1
  <2>2. n \in (l + 1)..(l + k) => rows[n] = added[n - l]
    BY <1>7
  <2>3. n - l \in 1..k => added[n - l].call = new[n - l]
    BY <1>6
  <2> QED BY <1>7, <2>1, <2>2, <2>3
<1>10. ASSUME NEW n \in 1..(l + k), NEW m \in 1..(l + k), rows[n].call = rows[m].call PROVE n = m
  <2>1. \A i \in 1..l, j \in 1..k : b.rows[i].call # new[j]
    BY <1>5, <1>8 DEF Listed
  <2>2. CASE n \in 1..l /\ m \in 1..l
    BY <1>7, <1>8, <1>10, <2>2 DEF Distinct
  <2>3. CASE n \in 1..l /\ m \notin 1..l
    BY <1>9, <1>10, <2>1, <2>3
  <2>4. CASE n \notin 1..l /\ m \in 1..l
    BY <1>9, <1>10, <2>1, <2>4
  <2>5. CASE n \notin 1..l /\ m \notin 1..l
    <3>1. n - l \in 1..k /\ m - l \in 1..k /\ new[n - l] = new[m - l]
      BY <1>9, <1>10, <2>5
    <3>2. n - l = m - l
      BY <1>5, <3>1
    <3> QED BY <1>3, <1>7, <3>2
  <2> QED BY <2>2, <2>3, <2>4, <2>5
<1>11. Distinct(rows)
  BY <1>8, <1>10 DEF Distinct
<1>12. \A n \in DOMAIN rows : \/ n \in DOMAIN b.rows /\ rows[n] = b.rows[n]
                              \/ rows[n].call \in Range(ids)
  BY <1>5, <1>8, <1>9
<1> QED BY <1>7, <1>11, <1>12 DEF rows, added, new

--------------------------------------------------------------------------------
(* The steps *)

LEMMA SilenceMirrored == Silence \in Answers /\ Mirrors(Nothing, Silence)
<1>1. Silence \in Answers
  <2>1. Silence.parts \in [{} -> 0..MaxParts] /\ {} \in SUBSET (1..MaxCalls)
    BY DEF Silence
  <2>2. Silence.text \in 0..MaxText /\ Silence = [text |-> Silence.text, parts |-> Silence.parts]
    BY ChatAssumption DEF Silence
  <2> QED BY <2>1, <2>2 DEF Answers
<1>2. Mirrors(Nothing, Silence)
  BY DEF Mirrors, Nothing, Silence, Counted
<1> QED BY <1>1, <1>2

LEMMA ViewStart == ViewInit => ViewInv
<1> SUFFICES ASSUME ViewInit PROVE ViewInv
  OBVIOUS
<1>1. Silence \in Answers /\ Mirrors(Nothing, Silence)
  BY SilenceMirrored
<1>2. <<>> \in Seq(Pieces)
  BY EmptySeq
<1>4. ViewTypes
  <2>1. /\ turn = 0 /\ 0 \in 0..MaxTurns /\ 0 \in 0..MaxFaults /\ 0 \in 0..MaxSteps
        /\ DOMAIN bubbles = {}
    BY ViewAssumption DEF ViewInit
  <2> QED BY <1>1, <1>2, <2>1 DEF ViewInit, ViewTypes, States
<1>5. Gathered
  BY <1>1 DEF ViewInit, Gathered
<1>6. InTurn
  BY ViewAssumption DEF ViewInit, InTurn, Workers
<1>7. BatchKnown /\ TextsOwned /\ RowsOwned
  BY DEF ViewInit, BatchKnown, TextsOwned, RowsOwned
<1> QED BY <1>4, <1>5, <1>6, <1>7 DEF ViewInv

(* A worker that has begun and was not left behind is that of the present turn. *)
LEMMA ActiveFacts ==
    ASSUME ViewInv, NEW w \in Workers, pc[w] # "new"
    PROVE  /\ w \in 1..turn /\ turn \in 1..MaxTurns
           /\ pc[w] # "over" /\ w \notin left => w = turn
<1>1. turn \in 0..MaxTurns /\ MaxTurns \in Nat
  BY ViewAssumption DEF ViewInv, ViewTypes
<1>2. ~(w > turn) /\ (w < turn => OutOfTheWay(w))
  BY DEF ViewInv, InTurn
<1> QED BY <1>1, <1>2 DEF Workers, OutOfTheWay

\* What a step of the worker w leaves alone.
Beside(w) == \A v \in Workers : v # w => pc'[v] = pc[v] /\ acc'[v] = acc[v] /\ step'[v] = step[v]

\* No bubble has two rows for a call, and the calls of other workers have theirs as before.
RowsFit(w) == \A t \in 1..turn :
    /\ Distinct((Bubble(t)').rows)
    /\ \A n \in DOMAIN (Bubble(t)').rows : (Bubble(t)').rows[n].call[1] # w =>
          n \in DOMAIN Bubble(t).rows /\ (Bubble(t)').rows[n] = Bubble(t).rows[n]

LEMMA TextsKept ==
    ASSUME ViewInv, turn' = turn, left \subseteq left', spoken' = spoken,
           \A t \in 1..turn : (Bubble(t)').body = Bubble(t).body
    PROVE  TextsOwned'
BY DEF ViewInv, TextsOwned, OwnText

LEMMA RowsKept ==
    ASSUME ViewInv, NEW w \in Workers, turn' = turn, left \subseteq left', broken \subseteq broken',
           Beside(w),
           RowsFit(w),
           w \in 1..turn /\ w \notin left' \cup broken' => RowsAnswered(w)'
    PROVE  RowsOwned'
<1>1. turn \in 0..MaxTurns
  BY DEF ViewInv, ViewTypes
<1>2. ASSUME NEW t \in 1..turn, t # w, NEW id PROVE InHands(t, id)' = InHands(t, id)
  <2>1. t \in Workers
    BY <1>1, ViewAssumption DEF Workers
  <2> QED BY <1>2, <2>1 DEF Beside, InHands, CallIds
<1>3. ASSUME NEW t \in 1..turn, t \notin left' \cup broken', t # w PROVE RowsAnswered(t)'
  <2>1. SUFFICES ASSUME NEW n \in DOMAIN (Bubble(t)').rows, (Bubble(t)').rows[n].call[1] = t
                 PROVE  (Bubble(t)').rows[n].result \/ InHands(t, Bubble(t).rows[n].call)'
    BY DEF RowsAnswered
  <2>2. n \in DOMAIN Bubble(t).rows /\ (Bubble(t)').rows[n] = Bubble(t).rows[n]
    BY <1>3, <2>1 DEF RowsFit
  <2>3. Bubble(t).rows[n].result \/ InHands(t, Bubble(t).rows[n].call)
    BY <1>3, <2>1, <2>2 DEF ViewInv, RowsOwned, RowsAnswered
  <2> QED BY <1>2, <1>3, <2>2, <2>3
<1>4. ASSUME NEW t \in 1..turn PROVE Distinct(Bubble(t).rows)'
  BY DEF Distinct, RowsFit
<1> QED BY <1>3, <1>4 DEF RowsOwned

LEMMA EndShown ==
    ASSUME ViewTypes, turn \in 1..MaxTurns, NEW s \in {"completed", "error"},
           ShowsEnd(turn, s) \/ UNCHANGED bubbles
    PROVE  /\ DOMAIN bubbles' = DOMAIN bubbles
           /\ \A u \in DOMAIN bubbles' : bubbles'[u] \in BubbleType
           /\ \A t : (Bubble(t)').body = Bubble(t).body /\ (Bubble(t)').rows = Bubble(t).rows
<1>1. CASE UNCHANGED bubbles
  BY <1>1 DEF ViewTypes, Bubble
<1>2. CASE turn \in DOMAIN bubbles /\ Replaced(turn, [Bubble(turn) EXCEPT !.state = s])
  <2>1. PICK t : t = turn
    OBVIOUS
  <2>2. PICK b : b = [Bubble(t) EXCEPT !.state = s]
    OBVIOUS
  <2>3. b \in BubbleType /\ b.body = Bubble(t).body /\ b.rows = Bubble(t).rows
    BY <2>2, BubbleTyped DEF BubbleType
  <2>4. t \in 1..turn /\ t \in DOMAIN bubbles /\ Replaced(t, b)
    BY <1>2, <2>1, <2>2
  <2>5. /\ DOMAIN bubbles' = DOMAIN bubbles \cup {t}
        /\ \A u \in DOMAIN bubbles' : bubbles'[u] \in BubbleType
        /\ Bubble(t)' = b
        /\ \A u : u # t => Bubble(u)' = Bubble(u)
    BY <2>3, <2>4, ReplacedFacts
  <2> QED BY <2>3, <2>4, <2>5
<1> QED BY <1>1, <1>2 DEF ShowsEnd

(* The worker ends; its turn's bubble is told, or nobody is. *)
LEMMA WorkerEnds ==
    ASSUME ViewInv, NEW w \in Workers, pc[w] # "new", IsOver(w),
           NEW s \in {"completed", "error"}, ShowsEnd(turn, s) \/ UNCHANGED bubbles,
           UNCHANGED <<turn, stop, step, left, spoken>>, faults' \in 0..MaxFaults,
           broken' \in {broken, broken \cup {w}},
           pc[w] \in {"executes", "runs"} => w \in broken'
    PROVE  ViewInv'
<1>1. w \in 1..turn /\ turn \in 1..MaxTurns
  BY ActiveFacts
<1>2. /\ DOMAIN bubbles' = DOMAIN bubbles
      /\ \A u \in DOMAIN bubbles' : bubbles'[u] \in BubbleType
      /\ \A t : (Bubble(t)').body = Bubble(t).body /\ (Bubble(t)').rows = Bubble(t).rows
  BY <1>1, EndShown DEF ViewInv
<1>3. Silence \in Answers /\ Mirrors(Nothing, Silence)
  BY SilenceMirrored
<1>4. ViewTypes'
  <2>1. /\ turn' \in 0..MaxTurns /\ stop' \in BOOLEAN /\ step' \in [Workers -> 0..MaxSteps]
        /\ spoken' \in [Workers -> Seq(Pieces)] /\ left' \subseteq 1..turn'
    BY DEF ViewInv, ViewTypes
  <2>2. pc' \in [Workers -> States] /\ said' \in [Workers -> Answers] /\ DOMAIN acc' = Workers
    BY <1>3 DEF ViewInv, ViewTypes, IsOver, States
  <2>3. batch' \in [Workers -> 0..MaxTurns]
    <3>1. 0 \in 0..MaxTurns
      BY ViewAssumption
    <3> QED BY <3>1 DEF ViewInv, ViewTypes, IsOver
  <2>4. broken' \subseteq 1..turn' /\ DOMAIN bubbles' \subseteq 1..turn'
    BY <1>1, <1>2 DEF ViewInv, ViewTypes
  <2> QED BY <1>2, <2>1, <2>2, <2>3, <2>4 DEF ViewTypes
<1>5. Gathered'
  BY <1>3 DEF ViewInv, ViewTypes, Gathered, IsOver
<1>6. InTurn' /\ BatchKnown'
  BY <1>1 DEF ViewInv, ViewTypes, InTurn, BatchKnown, IsOver, OutOfTheWay
<1>7. TextsOwned'
  BY <1>2, TextsKept
<1>8. RowsOwned'
  <2>1. Beside(w)
    BY DEF ViewInv, ViewTypes, Beside, IsOver
  <2>2. ASSUME w \notin left' \cup broken' PROVE RowsAnswered(w)'
    <3>1. \A id : ~InHands(w, id)
      BY <2>2 DEF InHands
    <3>2. w \notin left \cup broken
      BY <2>2
    <3>3. \A n \in DOMAIN Bubble(w).rows : Bubble(w).rows[n].call[1] = w => Bubble(w).rows[n].result
      BY <1>1, <3>1, <3>2 DEF ViewInv, RowsOwned, RowsAnswered
    <3> QED BY <1>2, <3>3 DEF RowsAnswered
  <2>3. ASSUME NEW t \in 1..turn PROVE Distinct((Bubble(t)').rows)
    BY <1>2 DEF ViewInv, RowsOwned
  <2>4. broken \subseteq broken'
    OBVIOUS
  <2> QED BY <1>2, <2>1, <2>2, <2>3, <2>4, RowsKept DEF RowsFit
<1> QED BY <1>4, <1>5, <1>6, <1>7, <1>8 DEF ViewInv

(* The worker goes on, and nothing is shown. *)
LEMMA WorkerGoesOn ==
    ASSUME ViewInv, NEW w \in Workers, pc[w] \in {"asks", "streams", "returns"},
           NEW to \in {"asks", "streams", "answers", "decides"}, pc' = [pc EXCEPT ![w] = to],
           UNCHANGED <<turn, stop, batch, bubbles, left, faults, spoken, broken>>,
           step' \in [Workers -> 0..MaxSteps], said' \in [Workers -> Answers],
           DOMAIN acc' = Workers, Gathered', Beside(w)
    PROVE  ViewInv'
<1>1. ViewTypes'
  BY DEF ViewInv, ViewTypes, States
<1>2. InTurn' /\ BatchKnown'
  BY DEF ViewInv, ViewTypes, InTurn, BatchKnown, OutOfTheWay
<1>3. \A t : Bubble(t)' = Bubble(t)
  BY DEF Bubble
<1>4. TextsOwned'
  BY <1>3, TextsKept
<1>5. RowsOwned'
  <2>1. ASSUME w \in 1..turn, w \notin left' \cup broken' PROVE RowsAnswered(w)'
    <3>1. \A id : ~InHands(w, id)
      BY DEF InHands
    <3>2. w \notin left \cup broken
      BY <2>1
    <3>3. \A n \in DOMAIN Bubble(w).rows : Bubble(w).rows[n].call[1] = w => Bubble(w).rows[n].result
      BY <2>1, <3>1, <3>2 DEF ViewInv, RowsOwned, RowsAnswered
    <3> QED BY <1>3, <3>3 DEF RowsAnswered
  <2>2. ASSUME NEW t \in 1..turn PROVE Distinct((Bubble(t)').rows)
    BY <1>3 DEF ViewInv, RowsOwned
  <2> QED BY <1>3, <2>1, <2>2, RowsKept DEF RowsFit
<1> QED BY <1>1, <1>2, <1>4, <1>5 DEF ViewInv

(* A new turn, with an empty bubble. *)
LEMMA TurnStartKeeps ==
    ASSUME ViewInv, NEW w \in Workers, TurnStart(w)
    PROVE  ViewInv'
<1>1. w = turn + 1 /\ turn \in Nat /\ w \in 1..MaxTurns /\ MaxTurns \in Nat
  <2>1. turn \in Nat /\ MaxTurns \in Nat /\ w \in 1..MaxTurns /\ w > turn
    BY ViewAssumption DEF ViewInv, ViewTypes, InTurn, TurnStart, GoesTo, Workers
  <2>2. ASSUME NEW v \in 1..w - 1 PROVE ~(v > turn)
    <3>1. v \in Workers
      BY <2>1 DEF Workers
    <3>2. OutOfTheWay(v)
      BY DEF TurnStart
    <3>3. pc[v] # "over" => v \in 1..turn
      BY <3>2 DEF OutOfTheWay, ViewInv, ViewTypes
    <3> QED BY <2>1, <3>1, <3>3 DEF ViewInv, InTurn
  <2> QED BY <2>1, <2>2
<1>2. w \notin left /\ w \notin broken /\ w \notin DOMAIN bubbles
  BY <1>1 DEF ViewInv, ViewTypes
<1>3. ViewTypes'
  <2>1. 1 \in 0..MaxSteps
    BY ViewAssumption
  <2>2. DOMAIN bubbles' \subseteq 1..turn' /\ left' \subseteq 1..turn' /\ broken' \subseteq 1..turn'
    BY <1>1 DEF ViewInv, ViewTypes, TurnStart
  <2>3. turn' \in 0..MaxTurns
    BY <1>1 DEF TurnStart
  <2> QED BY <2>1, <2>2, <2>3 DEF ViewInv, ViewTypes, TurnStart, GoesTo, States, stream
<1>4. Gathered'
  BY DEF ViewInv, Gathered, TurnStart, stream
<1>5. InTurn'
  <2>1. SUFFICES ASSUME NEW v \in Workers
                 PROVE  /\ pc'[v] = "new" <=> v > turn + 1
                        /\ v < turn + 1 => OutOfTheWay(v)'
                        /\ v > turn + 1 => spoken[v] = <<>>
    BY DEF InTurn, TurnStart
  <2>2. v \in Nat /\ (pc[v] = "new" <=> v > turn) /\ (v > turn => spoken[v] = <<>>)
    BY DEF ViewInv, InTurn, Workers
  <2>3. pc' = [pc EXCEPT ![w] = "asks"] /\ pc \in [Workers -> States] /\ left' = left
    BY DEF ViewInv, ViewTypes, TurnStart, GoesTo
  <2>4. CASE v = w
    BY <1>1, <2>2, <2>3, <2>4
  <2>5. CASE v # w
    <3>1. pc'[v] = pc[v]
      BY <2>3, <2>5
    <3>2. v < turn + 1 => v \in 1..w - 1
      BY <1>1, <2>1 DEF Workers
    <3>3. v < turn + 1 => OutOfTheWay(v)
      BY <3>2 DEF TurnStart
    <3>4. v < turn + 1 => OutOfTheWay(v)'
      BY <2>3, <3>1, <3>3 DEF OutOfTheWay
    <3> QED BY <1>1, <2>2, <2>5, <3>1, <3>4
  <2> QED BY <2>4, <2>5
<1>6. BatchKnown'
  BY <1>1 DEF ViewInv, ViewTypes, BatchKnown, TurnStart, GoesTo
<1>7. \A t : Bubble(t)' = Bubble(t)
  BY DEF Bubble, TurnStart
<1>8. Bubble(w).body = <<>> /\ Bubble(w).rows = <<>>
  BY <1>2 DEF Bubble
<1>9. TextsOwned'
  <2>1. OwnText(w) = <<>>
    <3> DEFINE places == {n \in DOMAIN Bubble(w).body : Bubble(w).body[n][1] = w}
    <3>1. places = {}
      BY <1>8
    <3>2. Cardinality({}) = 0
      BY FS_EmptySet
    <3>3. OwnText(w) = Taking(Bubble(w).body, places)
      BY DEF OwnText
    <3> HIDE DEF places
    <3>4. OwnText(w) = [n \in 1..0 |-> Bubble(w).body[InOrder(places)[n]]]
      BY <3>1, <3>2, <3>3 DEF Taking
    <3> QED BY <3>4
  <2>2. spoken[w] = <<>>
    BY <1>1 DEF ViewInv, InTurn
  <2>3. ASSUME NEW t \in 1..turn'
        PROVE  /\ t \notin left => OwnText(t) = spoken[t]
               /\ \A n \in DOMAIN Bubble(t).body :
                     LET v == Bubble(t).body[n][1] IN v = t \/ (v < t /\ v \in left)
    <3>1. CASE t = w
      BY <1>8, <2>1, <2>2, <3>1
    <3>2. CASE t \in 1..turn
      BY <3>2 DEF ViewInv, TextsOwned
    <3> QED BY <1>1, <2>3, <3>1, <3>2 DEF TurnStart
  <2>4. spoken' = spoken /\ left' = left
    BY DEF TurnStart
  <2> QED BY <1>7, <2>3, <2>4 DEF TextsOwned, OwnText
<1>10. RowsOwned'
  <2>1. \A v \in Workers : v # w => pc'[v] = pc[v] /\ acc'[v] = acc[v] /\ step'[v] = step[v]
    BY DEF ViewInv, ViewTypes, TurnStart, GoesTo, stream
  <2>2. ASSUME NEW t \in 1..turn', t # w PROVE t \in 1..turn /\ t \in Workers
    BY <1>1, <2>2 DEF TurnStart, Workers
  <2>3. ASSUME NEW t \in 1..turn', t # w, t \notin left' \cup broken' PROVE RowsAnswered(t)'
    <3>1. RowsAnswered(t)
      BY <2>2, <2>3 DEF ViewInv, RowsOwned, TurnStart
    <3>2. ASSUME NEW id PROVE InHands(t, id)' = InHands(t, id)
      BY <2>1, <2>2, <2>3 DEF InHands, CallIds
    <3> QED BY <1>7, <3>1, <3>2 DEF RowsAnswered
  <2>4. RowsAnswered(w)' /\ Distinct((Bubble(w)').rows)
    BY <1>7, <1>8 DEF RowsAnswered, Distinct
  <2>5. ASSUME NEW t \in 1..turn' PROVE Distinct(Bubble(t).rows)'
    <3>1. t # w => Distinct(Bubble(t).rows)
      BY <2>2, <2>5 DEF ViewInv, RowsOwned
    <3> QED BY <1>7, <2>4, <3>1 DEF Distinct
  <2> QED BY <2>3, <2>4, <2>5 DEF RowsOwned
<1> QED BY <1>3, <1>4, <1>5, <1>6, <1>9, <1>10 DEF ViewInv

(* The user's stop. *)
LEMMA StopKeeps ==
    ASSUME ViewInv, NEW w \in Workers, Stops(w)
    PROVE  ViewInv'
<1>1. w \in 1..turn /\ pc[w] # "new"
  BY DEF ViewInv, ViewTypes, InTurn, Stops, Workers
<1>2. faults' \in 0..MaxFaults
  BY ViewAssumption DEF ViewInv, ViewTypes, Stops, Fault
<1>3. ViewTypes' /\ Gathered' /\ InTurn' /\ BatchKnown'
  BY <1>1, <1>2
     DEF ViewInv, ViewTypes, Gathered, InTurn, BatchKnown, Stops, stream, OutOfTheWay
<1>4. \A t : Bubble(t)' = Bubble(t)
  BY DEF Bubble, Stops
<1>5. left \subseteq left' /\ turn' = turn /\ broken' = broken /\ spoken' = spoken
  BY DEF Stops
<1>6. TextsOwned'
  BY <1>4, <1>5, TextsKept
<1>7. RowsOwned'
  <2>1. Beside(w) /\ w \in left'
    BY DEF Beside, Stops, stream
  <2>2. ASSUME NEW t \in 1..turn PROVE Distinct((Bubble(t)').rows)
    BY <1>4 DEF ViewInv, RowsOwned
  <2> QED BY <1>4, <1>5, <2>1, <2>2, RowsKept DEF RowsFit
<1> QED BY <1>3, <1>6, <1>7 DEF ViewInv

--------------------------------------------------------------------------------
(* Text arrives *)

Own(body, t) == Taking(body, {n \in DOMAIN body : body[n][1] = t})

LEMMA OwnMore ==
    ASSUME NEW body \in Seq(Pieces), NEW piece \in Pieces, NEW t
    PROVE  /\ Own(Append(body, piece), t)
                = IF piece[1] = t THEN Append(Own(body, t), piece) ELSE Own(body, t)
           /\ Append(body, piece) \in Seq(Pieces)
           /\ \A n \in DOMAIN Append(body, piece) :
                 \/ Append(body, piece)[n] = piece
                 \/ n \in DOMAIN body /\ Append(body, piece)[n] = body[n]
<1> DEFINE more == Append(body, piece)
           end == Len(body) + 1
           places == {n \in DOMAIN body : body[n][1] = t}
           after == {n \in DOMAIN more : more[n][1] = t}
<1>1. /\ Len(body) \in Nat /\ DOMAIN body = 1..Len(body)
      /\ more \in Seq(Pieces) /\ Len(more) = end /\ more[end] = piece
      /\ \A n \in 1..Len(body) : more[n] = body[n]
  BY AppendProperties, LenProperties
<1>2. DOMAIN more = 1..end
  <2> HIDE DEF more
  <2> QED BY <1>1, LenProperties
<1> HIDE DEF more
<1>3. \A n \in 1..end : n = end \/ n \in 1..Len(body)
  BY <1>1
<1>4. after = IF piece[1] = t THEN places \cup {end} ELSE places
  BY <1>1, <1>2, <1>3
<1>5. places \in SUBSET (1..Len(body))
  BY <1>1
<1> HIDE DEF places, after
<1>6. /\ Taking(more, places) = Taking(body, places)
      /\ Taking(more, places \cup {end}) = Append(Taking(body, places), piece)
  <2>1. ASSUME NEW P \in SUBSET (1..Len(body))
        PROVE  /\ Taking(Append(body, piece), P) = Taking(body, P)
               /\ Taking(Append(body, piece), P \cup {Len(body) + 1})
                    = Append(Taking(body, P), piece)
    BY TakingMore
  <2> QED BY <1>5, <2>1 DEF more
<1>7. Own(more, t) = Taking(more, after) /\ Own(body, t) = Taking(body, places)
  BY DEF Own, after, places
<1>8. Own(more, t) = IF piece[1] = t THEN Append(Own(body, t), piece) ELSE Own(body, t)
  BY <1>4, <1>6, <1>7
<1> QED BY <1>1, <1>2, <1>3, <1>8 DEF more

(* The text of a chunk is in the bubble of the present turn. *)
LEMMA TextShown ==
    ASSUME ViewInv, NEW w \in Workers, pc[w] = "streams", NEW k \in 1..MaxText,
           ShowsText(turn, <<w, step[w], k>>),
           spoken' = [spoken EXCEPT ![w] = Append(@, <<w, step[w], k>>)],
           UNCHANGED <<turn, left>>
    PROVE  /\ DOMAIN bubbles' \subseteq 1..turn
           /\ \A t \in DOMAIN bubbles' : bubbles'[t] \in BubbleType
           /\ spoken' \in [Workers -> Seq(Pieces)]
           /\ \A t : (Bubble(t)').rows = Bubble(t).rows
           /\ \A v \in Workers : v # w => spoken'[v] = spoken[v]
           /\ TextsOwned'
<1>1. w \in 1..turn /\ turn \in 1..MaxTurns /\ (w \notin left => w = turn)
  BY ActiveFacts
<1>2. PICK piece : piece = <<w, step[w], k>>
  OBVIOUS
<1>3. piece \in Pieces /\ piece[1] = w
  BY <1>2 DEF ViewInv, ViewTypes, Pieces
<1>4. PICK u : u = turn
  OBVIOUS
<1>5. u \in 1..turn /\ Bubble(u) \in BubbleType /\ Bubble(u).body \in Seq(Pieces)
  BY <1>1, <1>4, BubbleTyped DEF ViewInv
<1>6. PICK b : b = [Bubble(u) EXCEPT !.body = Append(@, piece), !.state = "streaming"]
  OBVIOUS
<1>7. b \in BubbleType /\ b.body = Append(Bubble(u).body, piece) /\ b.rows = Bubble(u).rows
  BY <1>3, <1>5, <1>6, OwnMore DEF BubbleType
<1>8. Replaced(u, b)
  BY <1>2, <1>4, <1>6 DEF ShowsText
<1>9. /\ DOMAIN bubbles' = DOMAIN bubbles \cup {u}
      /\ \A t \in DOMAIN bubbles' : bubbles'[t] \in BubbleType
      /\ Bubble(u)' = b
      /\ \A t : t # u => Bubble(t)' = Bubble(t)
  BY <1>5, <1>7, <1>8, ReplacedFacts DEF ViewInv
<1>10. spoken' = [spoken EXCEPT ![w] = Append(@, piece)] /\ spoken \in [Workers -> Seq(Pieces)]
  BY <1>2 DEF ViewInv, ViewTypes
<1>11. /\ spoken' \in [Workers -> Seq(Pieces)] /\ spoken'[w] = Append(spoken[w], piece)
       /\ \A v \in Workers : v # w => spoken'[v] = spoken[v]
  <2>1. spoken[w] \in Seq(Pieces)
    BY <1>10
  <2>2. Append(spoken[w], piece) \in Seq(Pieces)
    BY <1>3, <2>1, AppendProperties
  <2> QED BY <1>10, <2>2
<1>12. \A t \in 1..turn : t \in Workers
  BY <1>1, ViewAssumption DEF Workers
<1>13. ASSUME NEW t \in 1..turn, t # u
       PROVE  /\ t \notin left => OwnText(t)' = spoken'[t]
              /\ \A n \in DOMAIN (Bubble(t)').body :
                    LET v == (Bubble(t)').body[n][1] IN v = t \/ (v < t /\ v \in left)
  <2>1. Bubble(t)' = Bubble(t)
    BY <1>9, <1>13
  <2>2. t \notin left => t # w
    BY <1>1, <1>4, <1>13
  <2>3. OwnText(t)' = OwnText(t)
    BY <2>1 DEF OwnText
  <2>4. t \notin left => spoken'[t] = spoken[t]
    BY <1>11, <1>12, <2>2
  <2> QED BY <2>1, <2>3, <2>4 DEF ViewInv, TextsOwned
<1>14. u \notin left => OwnText(u)' = spoken'[u]
  <2>1. /\ OwnText(u) = Own(Bubble(u).body, u)
        /\ OwnText(u)' = Own(b.body, u)
    BY <1>9 DEF OwnText, Own
  <2>2. OwnText(u)' = IF w = u THEN Append(OwnText(u), piece) ELSE OwnText(u)
    <3>1. PICK body : body = Bubble(u).body
      OBVIOUS
    <3>2. body \in Seq(Pieces) /\ piece \in Pieces
      BY <1>3, <1>5, <3>1
    <3>3. Own(Append(body, piece), u)
             = IF piece[1] = u THEN Append(Own(body, u), piece) ELSE Own(body, u)
      BY <3>2, OwnMore
    <3>4. Own(Append(body, piece), u) = IF w = u THEN Append(Own(body, u), piece) ELSE Own(body, u)
      BY <1>3, <3>3
    <3> QED BY <1>7, <2>1, <3>1, <3>4
  <2>3. u \notin left => OwnText(u) = spoken[u]
    BY <1>5 DEF ViewInv, TextsOwned
  <2>4. spoken'[u] = IF w = u THEN Append(spoken[u], piece) ELSE spoken[u]
    BY <1>5, <1>11, <1>12
  <2> QED BY <2>2, <2>3, <2>4
<1>15. ASSUME NEW n \in DOMAIN b.body
       PROVE  b.body[n][1] = u \/ (b.body[n][1] < u /\ b.body[n][1] \in left)
  <2>1. b.body[n] = piece \/ (n \in DOMAIN Bubble(u).body /\ b.body[n] = Bubble(u).body[n])
    BY <1>3, <1>5, <1>7, OwnMore
  <2>2. CASE b.body[n] = piece
    BY <1>1, <1>3, <1>4, <2>2
  <2>3. CASE n \in DOMAIN Bubble(u).body /\ b.body[n] = Bubble(u).body[n]
    BY <1>5, <2>3 DEF ViewInv, TextsOwned
  <2> QED BY <2>1, <2>2, <2>3
<1>16. TextsOwned'
  <2>1. ASSUME NEW t \in 1..turn
        PROVE  /\ t \notin left => OwnText(t)' = spoken'[t]
               /\ \A n \in DOMAIN (Bubble(t)').body :
                     LET v == (Bubble(t)').body[n][1] IN v = t \/ (v < t /\ v \in left)
    BY <1>9, <1>13, <1>14, <1>15
  <2> QED BY <2>1 DEF TextsOwned
<1>17. DOMAIN bubbles' \subseteq 1..turn
  BY <1>5, <1>9 DEF ViewInv, ViewTypes
<1>18. \A t : (Bubble(t)').rows = Bubble(t).rows
  BY <1>7, <1>9
<1> QED BY <1>9, <1>11, <1>16, <1>17, <1>18

LEMMA ReceivesKeeps ==
    ASSUME ViewInv, NEW w \in Workers, NEW c \in Chunk, Receives(w, c)
    PROVE  ViewInv'
<1>1. /\ pc[w] = "streams" /\ MayFollow(said[w], c)
      /\ said' = [said EXCEPT ![w] = Said(@, c)] /\ acc' = [acc EXCEPT ![w] = Taken(@, c)]
      /\ UNCHANGED <<turn, stop, step, batch, pc, left, faults, broken>>
  BY DEF Receives, agent
<1>2. w \in 1..turn /\ turn \in 1..MaxTurns
  BY <1>1, ActiveFacts
<1>3. /\ said[w] \in Answers /\ Mirrors(acc[w], said[w])
      /\ said \in [Workers -> Answers] /\ DOMAIN acc = Workers
  BY DEF ViewInv, ViewTypes, Gathered
<1>4. Said(said[w], c) \in Answers /\ Mirrors(Taken(acc[w], c), Said(said[w], c))
  BY <1>1, <1>3, ChunkMirrored
<1>5. said' \in [Workers -> Answers] /\ DOMAIN acc' = Workers /\ Gathered'
  BY <1>1, <1>3, <1>4 DEF ViewInv, Gathered
<1>6. Beside(w)
  BY <1>1, <1>3 DEF Beside
<1>7. /\ DOMAIN bubbles' \subseteq 1..turn
      /\ \A t \in DOMAIN bubbles' : bubbles'[t] \in BubbleType
      /\ spoken' \in [Workers -> Seq(Pieces)]
      /\ \A t : (Bubble(t)').rows = Bubble(t).rows
      /\ \A v \in Workers : v # w => spoken'[v] = spoken[v]
      /\ TextsOwned'
  <2>1. CASE c.kind # "text"
    <3>1. UNCHANGED <<bubbles, spoken>>
      BY <2>1 DEF Receives
    <3>2. \A t : Bubble(t)' = Bubble(t)
      BY <3>1 DEF Bubble
    <3>3. TextsOwned'
      BY <1>1, <3>1, <3>2, TextsKept
    <3> QED BY <3>1, <3>2, <3>3 DEF ViewInv, ViewTypes
  <2>2. CASE c.kind = "text"
    <3>1. c.piece \in 1..MaxText
      BY <2>2 DEF Chunk
    <3>2. /\ ShowsText(turn, <<w, step[w], c.piece>>)
          /\ spoken' = [spoken EXCEPT ![w] = Append(@, <<w, step[w], c.piece>>)]
      BY <2>2 DEF Receives, NumberNow
    <3> QED BY <1>1, <3>1, <3>2, TextShown
  <2> QED BY <2>1, <2>2
<1>8. ViewTypes'
  BY <1>1, <1>5, <1>7 DEF ViewInv, ViewTypes
<1>9. InTurn'
  <2>1. ~(w > turn)
    BY <1>2
  <2> QED BY <1>1, <1>7, <2>1 DEF ViewInv, InTurn, OutOfTheWay
<1>10. BatchKnown'
  BY <1>1 DEF ViewInv, BatchKnown
<1>11. RowsOwned'
  <2>1. ASSUME w \notin left' \cup broken' PROVE RowsAnswered(w)'
    <3>1. \A id : ~InHands(w, id)
      BY <1>1 DEF InHands
    <3>2. \A n \in DOMAIN Bubble(w).rows : Bubble(w).rows[n].call[1] = w => Bubble(w).rows[n].result
      BY <1>1, <1>2, <2>1, <3>1 DEF ViewInv, RowsOwned, RowsAnswered
    <3> QED BY <1>7, <3>2 DEF RowsAnswered
  <2>2. ASSUME NEW t \in 1..turn PROVE Distinct((Bubble(t)').rows)
    BY <1>7 DEF ViewInv, RowsOwned
  <2> QED BY <1>1, <1>6, <1>7, <2>1, <2>2, RowsKept DEF RowsFit
<1> QED BY <1>5, <1>7, <1>8, <1>9, <1>10, <1>11 DEF ViewInv

--------------------------------------------------------------------------------
(* The calls of an answer and their rows *)

LEMMA MarkedRows ==
    ASSUME NEW rows \in Seq(Rows), Distinct(rows),
           NEW marked \in [DOMAIN rows -> Rows],
           \A n \in DOMAIN rows : marked[n].call = rows[n].call
    PROVE  marked \in Seq(Rows) /\ Distinct(marked)
<1>1. DOMAIN rows = 1..Len(rows) /\ Len(rows) \in Nat
  BY LenProperties
<1>2. marked \in Seq(Rows)
  BY <1>1, SeqDef
<1>3. DOMAIN marked = DOMAIN rows
  OBVIOUS
<1> QED BY <1>2, <1>3 DEF Distinct

(* What a bubble's new rows mean for all of them. *)
LEMMA RowsReplaced ==
    ASSUME ViewInv, NEW w \in Workers, NEW u \in 1..turn, NEW b \in BubbleType, Replaced(u, b),
           b.body = Bubble(u).body, Distinct(b.rows),
           \A n \in DOMAIN b.rows : b.rows[n].call[1] # w =>
              n \in DOMAIN Bubble(u).rows /\ b.rows[n] = Bubble(u).rows[n]
    PROVE  /\ DOMAIN bubbles' \subseteq 1..turn
           /\ \A t \in DOMAIN bubbles' : bubbles'[t] \in BubbleType
           /\ \A t : (Bubble(t)').body = Bubble(t).body
           /\ RowsFit(w)
           /\ Bubble(u)' = b
<1>1. /\ DOMAIN bubbles' = DOMAIN bubbles \cup {u}
      /\ \A t \in DOMAIN bubbles' : bubbles'[t] \in BubbleType
      /\ Bubble(u)' = b
      /\ \A t : t # u => Bubble(t)' = Bubble(t)
  BY ReplacedFacts DEF ViewInv
<1>2. DOMAIN bubbles' \subseteq 1..turn
  BY <1>1 DEF ViewInv, ViewTypes
<1>3. \A t \in 1..turn : Distinct(Bubble(t).rows)
  BY DEF ViewInv, RowsOwned
<1> QED BY <1>1, <1>2, <1>3 DEF RowsFit

(* A step of the worker with the calls in its hands. *)
LEMMA CallsKept ==
    ASSUME ViewInv, NEW w \in Workers, pc[w] \in {"decides", "executes", "runs"},
           NEW to \in {"executes", "runs", "returns"}, pc' = [pc EXCEPT ![w] = to],
           UNCHANGED <<turn, stop, step, said, acc, left, faults, spoken, broken>>,
           batch' \in [Workers -> 0..MaxTurns], BatchKnown',
           DOMAIN bubbles' \subseteq 1..turn,
           \A t \in DOMAIN bubbles' : bubbles'[t] \in BubbleType,
           \A t : (Bubble(t)').body = Bubble(t).body,
           RowsFit(w),
           w \notin left \cup broken =>
              \A n \in DOMAIN (Bubble(w)').rows : (Bubble(w)').rows[n].call[1] = w =>
                 \/ (Bubble(w)').rows[n].result
                 \/ to # "returns" /\ (Bubble(w)').rows[n].call \in Range(CallIds(w))
    PROVE  ViewInv'
<1>1. ViewTypes'
  BY DEF ViewInv, ViewTypes, States
<1>2. Gathered'
  BY DEF ViewInv, Gathered
<1>3. InTurn'
  BY DEF ViewInv, ViewTypes, InTurn, OutOfTheWay
<1>4. TextsOwned'
  BY TextsKept
<1>5. pc'[w] = to /\ Beside(w)
  BY DEF ViewInv, ViewTypes, Beside
<1>6. ASSUME w \notin left' \cup broken' PROVE RowsAnswered(w)'
  <2>1. \A id : id \in Range(CallIds(w)) /\ to # "returns" => InHands(w, id)'
    BY <1>5 DEF InHands, CallIds
  <2> QED BY <1>6, <2>1 DEF RowsAnswered
<1>7. RowsOwned'
  BY <1>5, <1>6, RowsKept
<1> QED BY <1>1, <1>2, <1>3, <1>4, <1>7 DEF ViewInv

(* Its rows, before the step: each has its result, or is for a call in hand. *)
LEMMA RowsBefore ==
    ASSUME ViewInv, NEW w \in Workers, w \in 1..turn, w \notin left \cup broken,
           NEW n \in DOMAIN Bubble(w).rows, Bubble(w).rows[n].call[1] = w
    PROVE  Bubble(w).rows[n].result
           \/ (pc[w] \in {"executes", "runs"} /\ Bubble(w).rows[n].call \in Range(CallIds(w)))
BY DEF ViewInv, RowsOwned, RowsAnswered, InHands

LEMMA AnnouncesKeeps ==
    ASSUME ViewInv, NEW w \in Workers, Announces(w)
    PROVE  ViewInv'
<1>1. /\ pc[w] = "decides" /\ pc' = [pc EXCEPT ![w] = "executes"]
      /\ UNCHANGED <<turn, stop, step, said, acc, batch, left, faults, spoken, broken>>
  BY DEF Announces, GoesTo, agent, stream
<1>2. w \in 1..turn /\ turn \in 1..MaxTurns /\ (w \notin left => w = turn)
  BY <1>1, ActiveFacts
<1>3. PICK u : u = turn
  OBVIOUS
<1>4. PICK ids : ids = CallIds(w)
  OBVIOUS
<1>5. /\ ids \in Seq(Keys)
      /\ \A n \in DOMAIN ids : ids[n][1] = w
      /\ \A n, m \in DOMAIN ids : ids[n] = ids[m] => n = m
  BY <1>4, CallIdsFacts DEF ViewInv
<1>6. PICK old : old = Bubble(u)
  OBVIOUS
<1>7. u \in 1..turn /\ old \in BubbleType /\ Distinct(old.rows)
  BY <1>2, <1>3, <1>6, BubbleTyped DEF ViewInv, RowsOwned
<1> DEFINE new == Unlisted(old, ids)
           status == [n \in DOMAIN new |-> IF Refused(new[n]) THEN "blocked" ELSE "running"]
           rows == old.rows \o [n \in DOMAIN new |-> Row(new[n], status[n])]
           b == [old EXCEPT !.rows = rows]
<1>8. Replaced(u, b)
  <2>1. [n \in DOMAIN new |-> Row(new[n], status[n])]
          = [n \in DOMAIN new |-> Row(new[n], IF Refused(new[n]) THEN "blocked" ELSE "running")]
    <3> HIDE DEF new
    <3> QED OBVIOUS
  <2>2. ShowsCalls(u, ids)
    BY <1>3, <1>4 DEF Announces
  <2> QED BY <1>6, <2>1, <2>2 DEF ShowsCalls
<1>9. /\ rows \in Seq(Rows) /\ Distinct(rows)
      /\ \A n \in DOMAIN rows : \/ n \in DOMAIN old.rows /\ rows[n] = old.rows[n]
                                \/ rows[n].call \in Range(ids)
  <2>1. status \in [DOMAIN new -> {"blocked", "running"}]
    OBVIOUS
  <2> HIDE DEF status
  <2> QED BY <1>5, <1>7, <2>1, MoreRows
<1> HIDE DEF rows
<1>10. b \in BubbleType /\ b.rows = rows /\ b.body = old.body
  BY <1>7, <1>9 DEF BubbleType
<1> HIDE DEF b
<1>11. ASSUME NEW n \in DOMAIN b.rows, b.rows[n].call[1] # w
       PROVE  n \in DOMAIN old.rows /\ b.rows[n] = old.rows[n]
  BY <1>5, <1>9, <1>10, <1>11 DEF Range
<1>12. /\ DOMAIN bubbles' \subseteq 1..turn
       /\ \A t \in DOMAIN bubbles' : bubbles'[t] \in BubbleType
       /\ \A t : (Bubble(t)').body = Bubble(t).body
       /\ RowsFit(w)
       /\ Bubble(u)' = b
  BY <1>6, <1>7, <1>8, <1>9, <1>10, <1>11, RowsReplaced
<1>13. ASSUME w \notin left \cup broken, NEW n \in DOMAIN b.rows, b.rows[n].call[1] = w
       PROVE  b.rows[n].result \/ b.rows[n].call \in Range(ids)
  <2>1. u = w
    BY <1>2, <1>3, <1>13
  <2>2. CASE n \in DOMAIN old.rows /\ b.rows[n] = old.rows[n]
    BY <1>1, <1>2, <1>6, <1>13, <2>1, <2>2, RowsBefore
  <2> QED BY <1>9, <1>10, <1>13, <2>2
<1>14. ASSUME w \notin left \cup broken
       PROVE  \A n \in DOMAIN (Bubble(w)').rows : (Bubble(w)').rows[n].call[1] = w =>
                 \/ (Bubble(w)').rows[n].result
                 \/ (Bubble(w)').rows[n].call \in Range(CallIds(w))
  <2>1. Bubble(w)' = b
    BY <1>2, <1>3, <1>12, <1>14
  <2> QED BY <1>4, <1>13, <1>14, <2>1
<1>15. batch' \in [Workers -> 0..MaxTurns] /\ BatchKnown'
  BY <1>1 DEF ViewInv, ViewTypes, BatchKnown
<1> QED BY <1>1, <1>12, <1>14, <1>15, CallsKept

LEMMA ExecutesKeeps ==
    ASSUME ViewInv, NEW w \in Workers, Executes(w)
    PROVE  ViewInv'
<1>1. /\ pc[w] = "executes" /\ pc' = [pc EXCEPT ![w] = "runs"]
      /\ UNCHANGED <<turn, stop, step, said, acc, left, faults, spoken, broken>>
      /\ batch' = [batch EXCEPT ![w] = turn]
  BY DEF Executes, GoesTo, stream
<1>2. w \in 1..turn /\ turn \in 1..MaxTurns /\ (w \notin left => w = turn)
  BY <1>1, ActiveFacts
<1>3. PICK u : u = turn
  OBVIOUS
<1>4. PICK ids : ids = {id \in Range(CallIds(w)) : ~Refused(id)}
  OBVIOUS
<1>5. PICK old : old = Bubble(u)
  OBVIOUS
<1>6. u \in 1..turn /\ old \in BubbleType /\ old.rows \in Seq(Rows) /\ Distinct(old.rows)
  BY <1>2, <1>3, <1>5, BubbleTyped DEF ViewInv, RowsOwned
<1>7. \A id \in ids : id[1] = w
  BY <1>4, CallIdsFacts DEF ViewInv, Range
<1>8. batch' \in [Workers -> 0..MaxTurns] /\ BatchKnown'
  <2>1. batch' \in [Workers -> 0..MaxTurns] /\ batch'[w] = turn
    BY <1>1, <1>2 DEF ViewInv, ViewTypes
  <2>2. \A v \in Workers : v # w => pc'[v] = pc[v] /\ batch'[v] = batch[v]
    BY <1>1 DEF ViewInv, ViewTypes
  <2> QED BY <1>1, <1>2, <2>1, <2>2 DEF ViewInv, BatchKnown
<1>9. ASSUME w \notin left \cup broken,
             NEW n \in DOMAIN Bubble(w).rows, Bubble(w).rows[n].call[1] = w
      PROVE  Bubble(w).rows[n].result \/ Bubble(w).rows[n].call \in Range(CallIds(w))
  BY <1>2, <1>9, RowsBefore
<1>10. CASE u \notin DOMAIN bubbles
  <2>1. UNCHANGED bubbles
    BY <1>3, <1>10 DEF Executes, ShowsProgress
  <2>2. \A t : Bubble(t)' = Bubble(t)
    BY <2>1 DEF Bubble
  <2>3. /\ DOMAIN bubbles' \subseteq 1..turn
        /\ \A t \in DOMAIN bubbles' : bubbles'[t] \in BubbleType
        /\ \A t \in 1..turn : Distinct((Bubble(t)').rows)
    BY <2>1, <2>2 DEF ViewInv, ViewTypes, RowsOwned
  <2> QED BY <1>1, <1>8, <1>9, <2>2, <2>3, CallsKept DEF RowsFit
<1>11. CASE u \in DOMAIN bubbles
  <2> DEFINE rows == [n \in DOMAIN old.rows |->
                 IF old.rows[n].call \in ids THEN [old.rows[n] EXCEPT !.progress = TRUE]
                 ELSE old.rows[n]]
             b == [old EXCEPT !.rows = rows]
  <2>1. Replaced(u, b)
    <3>1. ShowsProgress(u, ids)
      BY <1>3, <1>4 DEF Executes
    <3>2. Replaced(u, [old EXCEPT !.rows = [n \in DOMAIN @ |->
                          IF @[n].call \in ids THEN [@[n] EXCEPT !.progress = TRUE] ELSE @[n]]])
      BY <1>5, <1>11, <3>1 DEF ShowsProgress
    <3> QED BY <1>6, <3>2 DEF BubbleType
  <2>2. \A n \in DOMAIN old.rows : old.rows[n] \in Rows
    BY <1>6, ElementOfSeq, LenProperties
  <2>3. /\ rows \in [DOMAIN old.rows -> Rows]
        /\ \A n \in DOMAIN old.rows : /\ rows[n].call = old.rows[n].call
                                      /\ rows[n].result = old.rows[n].result
                                      /\ old.rows[n].call \notin ids => rows[n] = old.rows[n]
    BY <2>2 DEF Rows
  <2>4. DOMAIN rows = DOMAIN old.rows
    OBVIOUS
  <2> HIDE DEF rows
  <2>5. rows \in Seq(Rows) /\ Distinct(rows)
    BY <1>6, <2>3, MarkedRows
  <2>6. b \in BubbleType /\ b.rows = rows /\ b.body = old.body
    BY <1>6, <2>5 DEF BubbleType
  <2> HIDE DEF b
  <2>7. \A n \in DOMAIN b.rows :
           b.rows[n].call[1] # w => n \in DOMAIN old.rows /\ b.rows[n] = old.rows[n]
    BY <1>7, <2>3, <2>4, <2>6
  <2>8. /\ DOMAIN bubbles' \subseteq 1..turn
        /\ \A t \in DOMAIN bubbles' : bubbles'[t] \in BubbleType
        /\ \A t : (Bubble(t)').body = Bubble(t).body
        /\ RowsFit(w)
        /\ Bubble(u)' = b
    BY <1>5, <1>6, <2>1, <2>5, <2>6, <2>7, RowsReplaced
  <2>9. ASSUME w \notin left \cup broken
        PROVE  \A n \in DOMAIN (Bubble(w)').rows : (Bubble(w)').rows[n].call[1] = w =>
                  \/ (Bubble(w)').rows[n].result
                  \/ (Bubble(w)').rows[n].call \in Range(CallIds(w))
    <3>1. u = w /\ Bubble(w)' = b
      BY <1>2, <1>3, <2>8, <2>9
    <3> QED BY <1>5, <1>9, <2>3, <2>4, <2>6, <2>9, <3>1
  <2> QED BY <1>1, <1>8, <2>8, <2>9, CallsKept
<1> QED BY <1>10, <1>11

LEMMA ToolResultsKeeps ==
    ASSUME ViewInv, NEW w \in Workers, ToolResults(w)
    PROVE  ViewInv'
<1>1. /\ pc[w] = "runs" /\ pc' = [pc EXCEPT ![w] = "returns"]
      /\ UNCHANGED <<turn, stop, step, said, acc, batch, left, faults, spoken, broken>>
  BY DEF ToolResults, GoesTo, agent, stream
<1>2. w \in 1..turn
  BY <1>1, ActiveFacts
<1>3. PICK u : u = batch[w]
  OBVIOUS
<1>4. PICK ids : ids = CallIds(w)
  OBVIOUS
<1>5. /\ ids \in Seq(Keys)
      /\ \A n \in DOMAIN ids : ids[n][1] = w
      /\ \A n, m \in DOMAIN ids : ids[n] = ids[m] => n = m
  BY <1>4, CallIdsFacts DEF ViewInv
<1>6. PICK old : old = Bubble(u)
  OBVIOUS
<1>7. u \in 1..turn /\ (w \notin left => u = w)
  BY <1>1, <1>3 DEF ViewInv, BatchKnown
<1>8. old \in BubbleType /\ Distinct(old.rows)
  BY <1>6, <1>7, BubbleTyped DEF ViewInv, RowsOwned
<1> DEFINE new == Unlisted(old, ids)
           status == [n \in DOMAIN new |-> "running"]
           more == old.rows \o [n \in DOMAIN new |-> Row(new[n], status[n])]
           rows == [n \in DOMAIN more |->
              IF more[n].call \in Range(ids) THEN [more[n] EXCEPT !.result = TRUE] ELSE more[n]]
           b == [old EXCEPT !.rows = rows]
<1>9. Replaced(u, b)
  <2>1. [n \in DOMAIN new |-> Row(new[n], status[n])]
          = [n \in DOMAIN new |-> Row(new[n], "running")]
    <3> HIDE DEF new
    <3> QED OBVIOUS
  <2>2. ShowsResults(u, ids)
    BY <1>3, <1>4 DEF ToolResults
  <2> QED BY <1>6, <2>1, <2>2 DEF ShowsResults
<1>10. /\ more \in Seq(Rows) /\ Distinct(more)
       /\ \A n \in DOMAIN more : \/ n \in DOMAIN old.rows /\ more[n] = old.rows[n]
                                 \/ more[n].call \in Range(ids)
  <2>1. status \in [DOMAIN new -> {"blocked", "running"}]
    OBVIOUS
  <2> HIDE DEF status
  <2> QED BY <1>5, <1>8, <2>1, MoreRows
<1> HIDE DEF more
<1>11. /\ DOMAIN rows = DOMAIN more /\ rows \in [DOMAIN more -> Rows]
       /\ \A n \in DOMAIN more : /\ rows[n].call = more[n].call
                                 /\ more[n].call \in Range(ids) => rows[n].result
                                 /\ more[n].call \notin Range(ids) => rows[n] = more[n]
                                 /\ more[n].result => rows[n].result
  <2>1. \A n \in DOMAIN more : more[n] \in Rows
    BY <1>10, ElementOfSeq, LenProperties
  <2> QED BY <2>1 DEF Rows
<1> HIDE DEF rows
<1>12. rows \in Seq(Rows) /\ Distinct(rows)
  BY <1>10, <1>11, MarkedRows
<1>13. b \in BubbleType /\ b.rows = rows /\ b.body = old.body
  BY <1>8, <1>12 DEF BubbleType
<1> HIDE DEF b
<1>14. ASSUME NEW n \in DOMAIN b.rows, b.rows[n].call[1] # w
       PROVE  n \in DOMAIN old.rows /\ b.rows[n] = old.rows[n]
  <2>1. more[n].call \notin Range(ids)
    BY <1>5, <1>11, <1>13, <1>14 DEF Range
  <2> QED BY <1>10, <1>11, <1>13, <1>14, <2>1
<1>15. /\ DOMAIN bubbles' \subseteq 1..turn
       /\ \A t \in DOMAIN bubbles' : bubbles'[t] \in BubbleType
       /\ \A t : (Bubble(t)').body = Bubble(t).body
       /\ RowsFit(w)
       /\ Bubble(u)' = b
  BY <1>6, <1>7, <1>9, <1>12, <1>13, <1>14, RowsReplaced
<1>16. ASSUME w \notin left \cup broken, NEW n \in DOMAIN b.rows, b.rows[n].call[1] = w
       PROVE  b.rows[n].result
  <2>1. u = w
    BY <1>7, <1>16
  <2>2. CASE more[n].call \in Range(ids)
    BY <1>11, <1>13, <1>16, <2>2
  <2>3. CASE more[n].call \notin Range(ids)
    <3>1. n \in DOMAIN old.rows /\ more[n] = old.rows[n] /\ rows[n] = more[n]
      BY <1>10, <1>11, <1>13, <1>16, <2>3
    <3>2. old.rows[n].result \/ old.rows[n].call \in Range(ids)
      BY <1>2, <1>4, <1>6, <1>13, <1>16, <2>1, <3>1, RowsBefore
    <3> QED BY <1>13, <2>3, <3>1, <3>2
  <2> QED BY <2>2, <2>3
<1>17. ASSUME w \notin left \cup broken
       PROVE  \A n \in DOMAIN (Bubble(w)').rows : (Bubble(w)').rows[n].call[1] = w =>
                 (Bubble(w)').rows[n].result
  <2>1. Bubble(w)' = b
    BY <1>7, <1>15, <1>17
  <2> QED BY <1>16, <1>17, <2>1
<1>18. batch' \in [Workers -> 0..MaxTurns] /\ BatchKnown'
  BY <1>1 DEF ViewInv, ViewTypes, BatchKnown
<1> QED BY <1>1, <1>15, <1>17, <1>18, CallsKept

--------------------------------------------------------------------------------
(* Every step keeps the invariant *)

LEMMA GoesOnKeeps ==
    ASSUME ViewInv, NEW w \in Workers, GoesOn(w)
    PROVE  ViewInv'
<1>1. /\ pc \in [Workers -> States] /\ step \in [Workers -> 0..MaxSteps]
      /\ said \in [Workers -> Answers] /\ DOMAIN acc = Workers /\ faults \in 0..MaxFaults
  BY DEF ViewInv, ViewTypes
<1>2. ASSUME EndsTurn(w, "completed"), pc[w] \in {"asks", "streams", "answers", "returns"},
             UNCHANGED <<turn, stop, step, left, faults, spoken, broken>>
      PROVE  ViewInv'
  <2>1. IsOver(w) /\ ShowsEnd(turn, "completed")
    BY <1>2 DEF EndsTurn
  <2> QED BY <1>1, <1>2, <2>1, WorkerEnds
<1>3. CASE StopSeen(w)
  BY <1>2, <1>3 DEF StopSeen
<1>4. CASE AsksModel(w)
  <2>1. /\ pc[w] = "asks" /\ pc' = [pc EXCEPT ![w] = "streams"]
        /\ said' = [said EXCEPT ![w] = Silence] /\ acc' = [acc EXCEPT ![w] = Nothing]
        /\ UNCHANGED <<turn, stop, step, batch, bubbles, left, faults, spoken, broken>>
    BY <1>4 DEF AsksModel, GoesTo, agent
  <2>2. said' \in [Workers -> Answers] /\ DOMAIN acc' = Workers /\ Gathered'
    BY <1>1, <2>1, SilenceMirrored DEF ViewInv, Gathered
  <2>3. Beside(w) /\ step' \in [Workers -> 0..MaxSteps]
    BY <1>1, <2>1 DEF Beside
  <2> QED BY <2>1, <2>2, <2>3, WorkerGoesOn
<1>5. CASE StreamEnds(w)
  <2>1. pc[w] = "streams" /\ UNCHANGED <<turn, stop, step, left, faults, spoken, broken>>
    BY <1>5 DEF StreamEnds
  <2>2. CASE stop
    BY <1>2, <1>5, <2>1, <2>2 DEF StreamEnds
  <2>3. CASE ~stop
    <3>1. PICK to \in {"answers", "decides"} : pc' = [pc EXCEPT ![w] = to]
      BY <1>5, <2>3 DEF StreamEnds, GoesTo
    <3>2. UNCHANGED <<said, acc, batch, bubbles>>
      BY <1>5, <2>3 DEF StreamEnds, stream
    <3>3. Gathered' /\ Beside(w)
      BY <1>1, <2>1, <3>1, <3>2 DEF ViewInv, Gathered, Beside
    <3> QED BY <1>1, <2>1, <3>1, <3>2, <3>3, WorkerGoesOn
  <2> QED BY <2>2, <2>3
<1>6. CASE FinalAnswer(w)
  BY <1>2, <1>6 DEF FinalAnswer
<1>7. CASE Announces(w)
  BY <1>7, AnnouncesKeeps
<1>8. CASE Executes(w)
  BY <1>8, ExecutesKeeps
<1>9. CASE ToolResults(w)
  BY <1>9, ToolResultsKeeps
<1>10. CASE NextStep(w)
  <2>1. pc[w] = "returns" /\ UNCHANGED <<turn, stop, left, faults, spoken, broken>>
    BY <1>10 DEF NextStep
  <2>2. CASE stop \/ step[w] = MaxSteps
    BY <1>2, <1>10, <2>1, <2>2 DEF NextStep
  <2>3. CASE ~(stop \/ step[w] = MaxSteps)
    <3>1. /\ pc' = [pc EXCEPT ![w] = "asks"] /\ step' = [step EXCEPT ![w] = @ + 1]
          /\ UNCHANGED <<said, acc, batch, bubbles>>
      BY <1>10, <2>3 DEF NextStep, GoesTo, stream
    <3>2. step[w] + 1 \in 0..MaxSteps
      BY <1>1, <2>3, ViewAssumption
    <3>3. step' \in [Workers -> 0..MaxSteps]
      BY <1>1, <3>1, <3>2
    <3>4. Gathered' /\ Beside(w)
      BY <1>1, <3>1 DEF ViewInv, Gathered, Beside
    <3> QED BY <1>1, <2>1, <3>1, <3>3, <3>4, WorkerGoesOn
  <2> QED BY <2>2, <2>3
<1> QED BY <1>3, <1>4, <1>5, <1>6, <1>7, <1>8, <1>9, <1>10 DEF GoesOn

LEMMA RaisesKeeps ==
    ASSUME ViewInv, NEW w \in Workers, Raises(w)
    PROVE  ViewInv'
<1>1. /\ pc[w] # "new" /\ IsOver(w) /\ broken' = broken \cup {w}
      /\ UNCHANGED <<turn, stop, step, left, spoken>>
  BY DEF Raises
<1>2. faults' \in 0..MaxFaults
  BY ViewAssumption DEF Raises, Fault, ViewInv, ViewTypes
<1>3. ShowsEnd(turn, "error") \/ UNCHANGED bubbles
  BY DEF Raises, TellsError
<1> QED BY <1>1, <1>2, <1>3, WorkerEnds

LEMMA ViewStep == ViewInv /\ [ViewNext]_viewVars => ViewInv'
<1> SUFFICES ASSUME ViewInv, [ViewNext]_viewVars PROVE ViewInv'
  OBVIOUS
<1>1. CASE UNCHANGED viewVars
  <2>1. \A t : Bubble(t)' = Bubble(t)
    BY <1>1 DEF Bubble, viewVars
  <2>2. \A t : CallIds(t)' = CallIds(t)
    BY <1>1 DEF CallIds, viewVars, agent, stream
  <2>3. ViewTypes' /\ Gathered' /\ InTurn' /\ BatchKnown'
    BY <1>1 DEF ViewInv, ViewTypes, Gathered, InTurn, OutOfTheWay, BatchKnown,
                viewVars, agent, stream
  <2>4. TextsOwned'
    BY <1>1, <2>1, TextsKept DEF viewVars, agent
  <2>5. RowsOwned'
    <3>1. \A t, id : InHands(t, id)' = InHands(t, id)
      BY <1>1, <2>2 DEF InHands, viewVars
    <3>2. \A t : RowsAnswered(t)' = RowsAnswered(t)
      BY <2>1, <3>1 DEF RowsAnswered
    <3>3. turn' = turn /\ left' = left /\ broken' = broken
      BY <1>1 DEF viewVars, agent
    <3>4. \A t : Distinct(Bubble(t).rows)' = Distinct(Bubble(t).rows)
      BY <2>1 DEF Distinct
    <3> QED BY <3>2, <3>3, <3>4 DEF ViewInv, RowsOwned
  <2> QED BY <2>3, <2>4, <2>5 DEF ViewInv
<1>2. CASE ViewNext
  <2>1. PICK w \in Workers : \/ TurnStart(w) \/ GoesOn(w) \/ Raises(w) \/ Stops(w)
                             \/ \E c \in Chunk : Receives(w, c)
    BY <1>2 DEF ViewNext
  <2> QED BY <2>1, TurnStartKeeps, GoesOnKeeps, RaisesKeeps, StopKeeps, ReceivesKeeps
<1> QED BY <1>1, <1>2

LEMMA ViewInvariant == ViewSpec => []ViewInv
<1>1. ViewInit => ViewInv
  BY ViewStart
<1>2. ViewInv /\ [ViewNext]_viewVars => ViewInv'
  BY ViewStep
<1> QED BY <1>1, <1>2, PTL DEF ViewSpec

(* The turn, the stop flag, the workers and their steps, the page and the histories       *)
(* have the values the code can give them (serve.py, useMessages.ts, agent.py).           *)
THEOREM ViewTypeCorrect == ViewSpec => []ViewTypeOK
<1>1. ViewInv => ViewTypeOK
  <2> SUFFICES ASSUME ViewInv PROVE ViewTypeOK
    OBVIOUS
  <2>1. ViewTypes
    BY DEF ViewInv
  <2>2. 1..turn \subseteq Workers
    BY <2>1, ViewAssumption DEF ViewTypes, Workers
  <2>3. \A w \in Workers : said[w].text \in 0..MaxText /\ DOMAIN said[w].parts \subseteq 1..MaxCalls
    BY <2>1 DEF ViewTypes, Answers
  <2> QED BY <2>1, <2>2, <2>3 DEF ViewTypes, ViewTypeOK
<1> QED BY <1>1, ViewInvariant, PTL

(* However the fragments of an answer arrive, chat_stream returns the calls and arguments *)
(* that chat would have returned, and without calls the same text (llm.py).               *)
THEOREM StreamsAsMeant == ViewSpec => []StreamedAsMeant
<1>1. ViewInv => StreamedAsMeant
  BY MirrorsAsMeant DEF ViewInv, ViewTypes, Gathered, StreamedAsMeant
<1> QED BY <1>1, ViewInvariant, PTL

(* The bubble of a turn has that turn's text, all of it and in order, and what else is in *)
(* it was said by a worker left behind; once the turn is over each of its calls shows its *)
(* result once (serve.py, useMessages.ts).                                                *)
THEOREM BubblesTellTheTurn == ViewSpec => []BubbleTellsTheTurn
<1>1. ViewInv => BubbleTellsTheTurn
  <2> SUFFICES ASSUME ViewInv, NEW t \in 1..turn
               PROVE  /\ t \notin left => OwnText(t) = spoken[t]
                      /\ \A n \in DOMAIN Bubble(t).body :
                            LET w == Bubble(t).body[n][1] IN w = t \/ (w < t /\ w \in left)
                      /\ LET rows == Bubble(t).rows
                             own == {n \in DOMAIN rows : rows[n].call[1] = t}
                         IN /\ \A n, m \in own : rows[n].call = rows[m].call => n = m
                            /\ pc[t] = "over" /\ t \notin left \cup broken =>
                                  \A n \in own : rows[n].result
    BY DEF BubbleTellsTheTurn
  <2>1. \A n, m \in DOMAIN Bubble(t).rows : Bubble(t).rows[n].call = Bubble(t).rows[m].call => n = m
    BY DEF ViewInv, RowsOwned, Distinct
  <2>2. ASSUME pc[t] = "over", t \notin left \cup broken,
               NEW n \in DOMAIN Bubble(t).rows, Bubble(t).rows[n].call[1] = t
        PROVE  Bubble(t).rows[n].result
    BY <2>2 DEF ViewInv, RowsOwned, RowsAnswered, InHands
  <2> QED BY <2>1, <2>2 DEF ViewInv, TextsOwned
<1> QED BY <1>1, ViewInvariant, PTL
================================================================================
