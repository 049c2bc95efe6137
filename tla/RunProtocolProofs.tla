--------------------------- MODULE RunProtocolProofs ---------------------------
(***************************************************************************)
(* Theorems about RunProtocol, for any set of calls, any number of         *)
(* subagents, any pool size, any number of stops, one caller or many.      *)
(***************************************************************************)
EXTENDS RunProtocol, SequenceTheorems, FiniteSetTheorems, TLAPS

--------------------------------------------------------------------------------
(* The inductive invariant *)

\* A worker inside a step of the tool loop has not used up its steps.
StepBound == \A r \in Runs :
    worker[r] \in {"llm", "recheck", "append", "exec", "recheckTools", "results"}
        => step[r] < MaxTurns

Inductive == TypeOK /\ StepBound /\ SlotAccounting

(* The rows after a save are a list of messages. *)
LEMMA CommittedType ==
    ASSUME NEW M, NEW rows \in Seq(M), NEW enc \in Seq(M), NEW live \in Seq(M)
    PROVE  Committed(rows, enc, live) \in Seq(M)
<1>1. CASE IsProperPrefix(rows, enc) /\ rows # enc
  <2>1. Len(rows) \in Nat /\ Len(live) \in Nat
    BY LenProperties
  <2>2. SubSeq(live, Len(rows) + 1, Len(live)) \in Seq(M)
    BY <2>1, SubSeqProperties
  <2> QED BY <1>1, <2>2, ConcatProperties DEF Committed
<1>2. CASE ~(IsProperPrefix(rows, enc) /\ rows # enc)
  BY <1>2 DEF Committed
<1> QED BY <1>1, <1>2

--------------------------------------------------------------------------------
(* The holders of slots are finitely many. *)
LEMMA HoldersFinite == IsFiniteSet(SlotHolders)
<1>1. IsFiniteSet(Runs \cup Subagents)
  BY RunsAssumption, FS_Union
<1>2. SlotHolders \subseteq Runs \cup Subagents
  BY DEF SlotHolders
<1> QED BY <1>1, <1>2, FS_Subset

(* The three ways a step may treat the pool. *)
LEMMA SameHolders ==
    ASSUME SlotAccounting, SlotHolders' = SlotHolders, active' = active
    PROVE  SlotAccounting'
BY DEF SlotAccounting

LEMMA OneMoreHolder ==
    ASSUME SlotAccounting, SlotFree, NEW x, x \notin SlotHolders,
           SlotHolders' = SlotHolders \cup {x}, active' = active + 1
    PROVE  SlotAccounting'
<1>1. IsFiniteSet(SlotHolders)
  BY HoldersFinite
<1>2. Cardinality(SlotHolders \cup {x}) = Cardinality(SlotHolders) + 1
  BY <1>1, FS_AddElement
<1>3. active \in Nat
  BY <1>1, FS_CardinalityType DEF SlotAccounting
<1> QED BY <1>2, <1>3, WorkersAssumption DEF SlotAccounting, SlotFree

LEMMA OneHolderLess ==
    ASSUME SlotAccounting, NEW x \in SlotHolders,
           SlotHolders' = SlotHolders \ {x},
           active' = Released(active) \/ active' = active - 1
    PROVE  SlotAccounting'
<1>1. IsFiniteSet(SlotHolders)
  BY HoldersFinite
<1>2. Cardinality(SlotHolders \ {x}) = Cardinality(SlotHolders) - 1
  BY <1>1, FS_RemoveElement
<1>3. active \in Nat
  BY <1>1, FS_CardinalityType DEF SlotAccounting
<1>4. Cardinality(SlotHolders \ {x}) \in Nat
  BY <1>1, FS_RemoveElement, FS_CardinalityType
<1>5. active # 0
  BY <1>2, <1>3, <1>4 DEF SlotAccounting
<1> QED BY <1>2, <1>3, <1>5, WorkersAssumption DEF SlotAccounting, Released

--------------------------------------------------------------------------------
(* Steps that leave callers and the pool alone. *)
LEMMA QuietForThePool ==
    ASSUME SlotAccounting, UNCHANGED <<callVars, poolVars>>
    PROVE  SlotAccounting'
<1>1. SlotHolders' = SlotHolders
  BY DEF SlotHolders, HoldsSlot, callVars, poolVars
<1> QED BY <1>1, SameHolders DEF poolVars

(* A caller's step that neither takes nor gives a slot. *)
LEMMA CallerKeepsSlot ==
    ASSUME TypeOK, SlotAccounting, NEW r \in Runs, NEW to,
           caller' = [caller EXCEPT ![r] = to],
           \A q \in Runs \ {r} : outcome'[q] = outcome[q],
           HoldsSlot(r)' <=> HoldsSlot(r),
           UNCHANGED poolVars
    PROVE  SlotAccounting'
<1>1. \A q \in Runs : HoldsSlot(q)' <=> HoldsSlot(q)
  BY DEF HoldsSlot, TypeOK
<1>2. SlotHolders' = SlotHolders
  BY <1>1 DEF SlotHolders, poolVars
<1> QED BY <1>2, SameHolders DEF poolVars

(* Every step keeps the pool's books. *)
LEMMA SlotStep ==
    ASSUME TypeOK, SlotAccounting, [Next]_vars
    PROVE  SlotAccounting'
<1> USE DEF TypeOK
<1>1. ASSUME NEW r \in Runs, Reject(r) PROVE SlotAccounting'
  BY <1>1, CallerKeepsSlot DEF Reject, EndCall, CallerGoes, HoldsSlot, poolVars
<1>2. ASSUME NEW r \in Runs,
             Enter(r) \/ ClearStopFlag(r) \/ CallerClearsDone(r) \/ CallerSetsRunning(r)
      PROVE  SlotAccounting'
  BY <1>2, CallerKeepsSlot
     DEF Enter, ClearStopFlag, CallerClearsDone, CallerSetsRunning, CallerGoes,
         HoldsSlot, poolVars
<1>3. ASSUME NEW r \in Runs, AcquireSlot(r) PROVE SlotAccounting'
  <2>1. r \notin SlotHolders
    BY <1>3, RunsAssumption DEF AcquireSlot, CallerGoes, SlotHolders, HoldsSlot
  <2>2. \A q \in Runs : HoldsSlot(q)' <=> HoldsSlot(q) \/ q = r
    BY <1>3 DEF AcquireSlot, CallerGoes, HoldsSlot
  <2>3. SlotHolders' = SlotHolders \cup {r}
    BY <1>3, <2>2 DEF AcquireSlot, SlotHolders
  <2> QED BY <1>3, <2>1, <2>3, OneMoreHolder DEF AcquireSlot
<1>4. ASSUME NEW r \in Runs,
             StartWorker(r) \/ WaitDone(r) \/ TakeDone(r) \/ GraceOk(r)
      PROVE  SlotAccounting'
  BY <1>4, CallerKeepsSlot
     DEF StartWorker, WaitDone, TakeDone, GraceOk, CallerGoes, HoldsSlot, poolVars
<1>5. ASSUME NEW r \in Runs, TakeStopped(r) PROVE SlotAccounting'
  BY <1>5, CallerKeepsSlot DEF TakeStopped, CallerGoes, HoldsSlot, poolVars
<1>6. ASSUME NEW r \in Runs, GraceTimeout(r) PROVE SlotAccounting'
  BY <1>6, CallerKeepsSlot DEF GraceTimeout, EndCall, CallerGoes, HoldsSlot, poolVars
<1>7. ASSUME NEW r \in Runs, MakeAgentRaises(r) \/ ReleaseSlot(r) PROVE SlotAccounting'
  <2>1. r \in SlotHolders
    BY <1>7 DEF MakeAgentRaises, ReleaseSlot, EndCall, CallerGoes, SlotHolders, HoldsSlot
  <2>2. \A q \in Runs : HoldsSlot(q)' <=> HoldsSlot(q) /\ q # r
    BY <1>7 DEF MakeAgentRaises, ReleaseSlot, EndCall, CallerGoes, HoldsSlot
  <2>3. SlotHolders' = SlotHolders \ {r}
    BY <1>7, <2>2, RunsAssumption DEF MakeAgentRaises, ReleaseSlot, SlotHolders
  <2> QED BY <1>7, <2>1, <2>3, OneHolderLess DEF MakeAgentRaises, ReleaseSlot
<1>8. ASSUME NEW r \in Runs, EncodeMessages(r) PROVE SlotAccounting'
  BY <1>8, CallerKeepsSlot DEF EncodeMessages, CallerGoes, HoldsSlot, poolVars
<1>9. ASSUME NEW r \in Runs, Persist(r) PROVE SlotAccounting'
  BY <1>9, CallerKeepsSlot
     DEF Persist, EndCall, CallerGoes, HoldsSlot, poolVars, Replies
<1>10. ASSUME NEW r \in Runs, PersistFails(r) PROVE SlotAccounting'
  BY <1>10, CallerKeepsSlot DEF PersistFails, EndCall, CallerGoes, HoldsSlot, poolVars
<1>11. ASSUME NEW r \in Runs, WorkerStep(r) PROVE SlotAccounting'
  BY <1>11, QuietForThePool
     DEF WorkerStep, WorkerClearsDone, WorkerSetsRunning, AppendUser, LoopExhausted,
         Checkpoint, LeaveLoop, Continue, Answered, Raises, AppendCalls, AppendResults,
         AppendAnswer, Finish, SetTerminal, SignalDone, Publish
<1>12. ASSUME StopStep PROVE SlotAccounting'
  BY <1>12, QuietForThePool DEF StopStep, StopRaisesFlag, StopSetsStatus, StopSetsDone
<1>13. ASSUME NEW s \in Subagents, SubAcquires(s) PROVE SlotAccounting'
  <2>1. s \notin SlotHolders
    BY <1>13, RunsAssumption DEF SubAcquires, SubGoes, SlotHolders
  <2>2. SlotHolders' = SlotHolders \cup {s}
    BY <1>13 DEF SubAcquires, SubGoes, SlotHolders, HoldsSlot, callVars
  <2> QED BY <1>13, <2>1, <2>2, OneMoreHolder DEF SubAcquires
<1>14. ASSUME NEW s \in Subagents, SubTimesOut(s) PROVE SlotAccounting'
  <2>1. SlotHolders' = SlotHolders
    BY <1>14 DEF SubTimesOut, SubGoes, SlotHolders, HoldsSlot, callVars
  <2> QED BY <1>14, <2>1, SameHolders DEF SubTimesOut
<1>15. ASSUME NEW s \in Subagents, SubReleases(s) PROVE SlotAccounting'
  <2>1. s \in SlotHolders
    BY <1>15 DEF SubReleases, SubGoes, SlotHolders
  <2>2. SlotHolders' = SlotHolders \ {s}
    BY <1>15, RunsAssumption DEF SubReleases, SubGoes, SlotHolders, HoldsSlot, callVars
  <2> QED BY <1>15, <2>1, <2>2, OneHolderLess DEF SubReleases
<1>16. CASE UNCHANGED vars
  BY <1>16, QuietForThePool DEF vars
<1> QED
  BY <1>1, <1>2, <1>3, <1>4, <1>5, <1>6, <1>7, <1>8, <1>9, <1>10, <1>11, <1>12, <1>13,
     <1>14, <1>15, <1>16
     DEF Next, CallerStep, SubStep

--------------------------------------------------------------------------------
(* The loop never runs past its last step. *)
LEMMA StepBoundStep ==
    ASSUME TypeOK, StepBound, [Next]_vars
    PROVE  StepBound' /\ step' \in [Runs -> 0..MaxTurns]
<1> USE TurnsAssumption DEF TypeOK, StepBound
<1>1. ASSUME NEW r \in Runs, Reject(r) \/ Enter(r)
      PROVE  StepBound' /\ step' \in [Runs -> 0..MaxTurns]
  BY <1>1 DEF Reject, Enter, workVars
<1>2. ASSUME NEW r \in Runs, CallerStep(r)
      PROVE  StepBound' /\ step' \in [Runs -> 0..MaxTurns]
  BY <1>2
     DEF CallerStep, ClearStopFlag, CallerClearsDone, CallerSetsRunning, AcquireSlot,
         StartWorker, MakeAgentRaises, WaitDone, TakeStopped, TakeDone, GraceOk,
         GraceTimeout, ReleaseSlot, EncodeMessages, Persist, PersistFails, workVars
<1>3. ASSUME NEW r \in Runs,
             Continue(r) \/ Answered(r) \/ Raises(r) \/ LoopExhausted(r) \/ Checkpoint(r)
      PROVE  StepBound' /\ step' \in [Runs -> 0..MaxTurns]
  BY <1>3 DEF Continue, Answered, Raises, LoopExhausted, Checkpoint, LeaveLoop, WorkerGoes
<1>4. ASSUME NEW r \in Runs,
             \/ WorkerClearsDone(r) \/ WorkerSetsRunning(r) \/ AppendUser(r)
             \/ AppendCalls(r) \/ AppendAnswer(r) \/ Finish(r) \/ SetTerminal(r)
             \/ SignalDone(r) \/ Publish(r)
      PROVE  StepBound' /\ step' \in [Runs -> 0..MaxTurns]
  BY <1>4 DEF WorkerClearsDone, WorkerSetsRunning, AppendUser, AppendCalls, AppendAnswer,
              Finish, SetTerminal, SignalDone, Publish, WorkerGoes
<1>5. ASSUME NEW r \in Runs, AppendResults(r)
      PROVE  StepBound' /\ step' \in [Runs -> 0..MaxTurns]
  BY <1>5 DEF AppendResults, WorkerGoes
<1>6. ASSUME StopStep \/ (\E s \in Subagents : SubStep(s))
      PROVE  StepBound' /\ step' \in [Runs -> 0..MaxTurns]
  BY <1>6 DEF StopStep, StopRaisesFlag, StopSetsStatus, StopSetsDone,
              SubStep, SubAcquires, SubTimesOut, SubReleases, workVars
<1>7. CASE UNCHANGED vars
  BY <1>7 DEF vars, workVars
<1> QED BY <1>1, <1>2, <1>3, <1>4, <1>5, <1>6, <1>7 DEF Next, WorkerStep

--------------------------------------------------------------------------------
(* Every variable keeps its type. *)
LEMMA MessagesGrow ==
    ASSUME TypeOK, NEW r \in Runs, NEW role \in Roles, Append1(r, role)
    PROVE  messages' \in Seq(Message)
<1>1. [role |-> role, run |-> r] \in Message
  BY DEF Message
<1> QED BY <1>1, AppendProperties DEF TypeOK, Append1

LEMMA TypeStep ==
    ASSUME Inductive, [Next]_vars
    PROVE  TypeOK'
<1>1. active' \in Nat
  <2>1. SlotAccounting'
    BY SlotStep DEF Inductive
  <2>2. IsFiniteSet(SlotHolders')
    <3>1. IsFiniteSet(Runs \cup Subagents) /\ SlotHolders' \subseteq Runs \cup Subagents
      BY RunsAssumption, FS_Union DEF SlotHolders
    <3> QED BY <3>1, FS_Subset
  <2> QED BY <2>1, <2>2, FS_CardinalityType DEF SlotAccounting
<1>2. step' \in [Runs -> 0..MaxTurns]
  BY StepBoundStep DEF Inductive
<1> USE DEF TypeOK, Inductive, Statuses, CallerPc, Outcomes, WorkerPc, Replies
<1>3. ASSUME NEW r \in Runs, Reject(r) \/ Enter(r) PROVE TypeOK'
  BY <1>1, <1>2, <1>3, ZenonT(40)
     DEF Reject, Enter, EndCall, CallerGoes, ctxVars, logVars, workVars, poolVars, stopVars
<1>4. ASSUME NEW r \in Runs,
             ClearStopFlag(r) \/ CallerClearsDone(r) \/ CallerSetsRunning(r)
      PROVE  TypeOK'
  BY <1>1, <1>2, <1>4, ZenonT(40)
     DEF ClearStopFlag, CallerClearsDone, CallerSetsRunning, CallerGoes, ctxVars, logVars,
         workVars, poolVars, stopVars
<1>5. ASSUME NEW r \in Runs, AcquireSlot(r) \/ StartWorker(r) \/ MakeAgentRaises(r)
      PROVE  TypeOK'
  BY <1>1, <1>2, <1>5, ZenonT(40)
     DEF AcquireSlot, StartWorker, MakeAgentRaises, EndCall, CallerGoes, ctxVars, logVars,
         workVars, poolVars, stopVars
<1>6. ASSUME NEW r \in Runs, WaitDone(r) \/ TakeStopped(r) \/ TakeDone(r)
      PROVE  TypeOK'
  BY <1>1, <1>2, <1>6, ZenonT(40)
     DEF WaitDone, TakeStopped, TakeDone, CallerGoes, ctxVars, logVars, workVars, poolVars,
         stopVars
<1>7. ASSUME NEW r \in Runs, GraceOk(r) \/ GraceTimeout(r) \/ ReleaseSlot(r)
      PROVE  TypeOK'
  BY <1>1, <1>2, <1>7, ZenonT(40)
     DEF GraceOk, GraceTimeout, ReleaseSlot, EndCall, CallerGoes, ctxVars, logVars,
         workVars, poolVars, stopVars
<1>8. ASSUME NEW r \in Runs, EncodeMessages(r) \/ PersistFails(r) PROVE TypeOK'
  BY <1>1, <1>2, <1>8, ZenonT(40)
     DEF EncodeMessages, PersistFails, EndCall, CallerGoes, ctxVars, logVars, workVars,
         poolVars, stopVars
<1>9. ASSUME NEW r \in Runs, Persist(r) PROVE TypeOK'
  <2>1. store' \in Seq(Message)
    BY <1>9, CommittedType DEF Persist
  <2> QED BY <1>1, <1>2, <1>9, <2>1
          DEF Persist, EndCall, CallerGoes, ctxVars, workVars, poolVars, stopVars
<1>10. ASSUME NEW r \in Runs, WorkerClearsDone(r) \/ WorkerSetsRunning(r) \/ SetTerminal(r)
                               \/ SignalDone(r) \/ Publish(r) \/ Finish(r)
       PROVE  TypeOK'
  BY <1>1, <1>2, <1>10, ZenonT(40)
     DEF WorkerClearsDone, WorkerSetsRunning, SetTerminal, SignalDone, Publish, Finish,
         WorkerGoes, ctxVars, logVars, callVars, poolVars, stopVars
<1>11. ASSUME NEW r \in Runs, LoopExhausted(r) \/ Checkpoint(r) \/ Raises(r) PROVE TypeOK'
  BY <1>1, <1>2, <1>11, ZenonT(40)
     DEF LoopExhausted, Checkpoint, Raises, LeaveLoop, WorkerGoes, ctxVars, logVars,
         callVars, poolVars, stopVars
<1>12. ASSUME NEW r \in Runs, Continue(r) \/ Answered(r) PROVE TypeOK'
  BY <1>1, <1>2, <1>12, ZenonT(40)
     DEF Continue, Answered, WorkerGoes, ctxVars, logVars, callVars, poolVars, stopVars
<1>13. ASSUME NEW r \in Runs,
              AppendUser(r) \/ AppendCalls(r) \/ AppendResults(r) \/ AppendAnswer(r)
       PROVE  TypeOK'
  <2>1. messages' \in Seq(Message)
    BY <1>13, MessagesGrow DEF AppendUser, AppendCalls, AppendResults, AppendAnswer, Roles
  <2> QED BY <1>1, <1>2, <1>13, <2>1, ZenonT(40)
          DEF AppendUser, AppendCalls, AppendResults, AppendAnswer, WorkerGoes, ctxVars,
              callVars, poolVars, stopVars
<1>14. ASSUME StopStep PROVE TypeOK'
  <2>1. CASE StopRaisesFlag
    <3>1. asked' \subseteq Runs
      BY <2>1 DEF StopRaisesFlag
    <3>2. stops' \in Nat /\ stopFlag' \in BOOLEAN
      BY <2>1 DEF StopRaisesFlag
    <3> QED BY <1>1, <1>2, <2>1, <3>1, <3>2
            DEF StopRaisesFlag, logVars, callVars, workVars, poolVars
  <2>2. CASE StopSetsStatus
    BY <1>1, <1>2, <2>2 DEF StopSetsStatus, logVars, callVars, workVars, poolVars
  <2>3. CASE StopSetsDone
    BY <1>1, <1>2, <2>3 DEF StopSetsDone, logVars, callVars, workVars, poolVars
  <2> QED BY <1>14, <2>1, <2>2, <2>3 DEF StopStep
<1>15. ASSUME NEW s \in Subagents, SubStep(s) PROVE TypeOK'
  BY <1>1, <1>2, <1>15, ZenonT(40)
     DEF SubStep, SubAcquires, SubTimesOut, SubReleases, SubGoes, ctxVars, logVars,
         callVars, workVars, stopVars
<1>16. CASE UNCHANGED vars
  BY <1>16 DEF vars, ctxVars, logVars, callVars, workVars, poolVars, stopVars
<1> QED BY <1>3, <1>4, <1>5, <1>6, <1>7, <1>8, <1>9, <1>10, <1>11, <1>12, <1>13, <1>14,
           <1>15, <1>16
        DEF Next, CallerStep, WorkerStep

--------------------------------------------------------------------------------
(* Initially nobody holds a slot and every variable is typed. *)
LEMMA InductiveInit == Init => Inductive
<1> SUFFICES ASSUME Init PROVE Inductive
  OBVIOUS
<1>1. SlotHolders = {}
  BY DEF Init, SlotHolders, HoldsSlot
<1>2. SlotAccounting
  BY <1>1, FS_EmptySet, WorkersAssumption DEF SlotAccounting, Init
<1>3. TypeOK
  <2>1. << >> \in Seq(Message)
    BY EmptySeq
  <2>2. [r \in Runs |-> 0] \in [Runs -> 0..MaxTurns]
    BY TurnsAssumption
  <2> QED BY <2>1, <2>2 DEF Init, TypeOK, Statuses, CallerPc, Outcomes, WorkerPc, Replies
<1>4. StepBound
  BY DEF Init, StepBound
<1> QED BY <1>2, <1>3, <1>4 DEF Inductive

\* Every variable of the model keeps its type, for any number of calls, subagents,
\* loop steps and stops: in particular no tool loop runs past Agent.max_turns.
THEOREM TypeCorrect == Spec => []TypeOK
<1>1. Init => Inductive
  BY InductiveInit
<1>2. Inductive /\ [Next]_vars => Inductive'
  BY SlotStep, StepBoundStep, TypeStep DEF Inductive
<1>3. Inductive => TypeOK
  BY DEF Inductive
<1> QED BY <1>1, <1>2, <1>3, PTL DEF Spec

\* AgentPool's counter is exact and within max_workers, whoever calls run(), stop()
\* and the subagent threads, in any order, with failing factories and expired
\* grace periods.
THEOREM PoolIsExact == Spec => []SlotAccounting
<1>1. Init => Inductive
  BY InductiveInit
<1>2. Inductive /\ [Next]_vars => Inductive'
  BY SlotStep, StepBoundStep, TypeStep DEF Inductive
<1>3. Inductive => SlotAccounting
  BY DEF Inductive
<1> QED BY <1>1, <1>2, <1>3, PTL DEF Spec

--------------------------------------------------------------------------------
(* Stopping *)

\* A raised flag that a call can still see was raised while that call was in flight.
FlagExplained == \A r \in Runs : stopFlag /\ Stoppable(r) => r \in asked

StopInv == TypeOK /\ FlagExplained /\ StoppedOnlyIfAsked

LEMMA StopStepwise ==
    ASSUME StopInv, [Next]_vars
    PROVE  FlagExplained' /\ StoppedOnlyIfAsked'
<1> USE DEF StopInv, TypeOK, FlagExplained, StoppedOnlyIfAsked, Stoppable
<1>1. ASSUME NEW r \in Runs, Reject(r) \/ Enter(r)
      PROVE  FlagExplained' /\ StoppedOnlyIfAsked'
  BY <1>1 DEF Reject, Enter, EndCall, CallerGoes, ctxVars, stopVars
<1>2. ASSUME NEW r \in Runs,
             \/ ClearStopFlag(r) \/ CallerClearsDone(r) \/ CallerSetsRunning(r)
             \/ AcquireSlot(r) \/ StartWorker(r) \/ MakeAgentRaises(r)
      PROVE  FlagExplained' /\ StoppedOnlyIfAsked'
  BY <1>2 DEF ClearStopFlag, CallerClearsDone, CallerSetsRunning, AcquireSlot, StartWorker,
              MakeAgentRaises, EndCall, CallerGoes, ctxVars, stopVars
<1>3. ASSUME NEW r \in Runs,
             \/ WaitDone(r) \/ TakeStopped(r) \/ TakeDone(r) \/ GraceOk(r) \/ GraceTimeout(r)
             \/ ReleaseSlot(r) \/ EncodeMessages(r) \/ PersistFails(r)
      PROVE  FlagExplained' /\ StoppedOnlyIfAsked'
  BY <1>3 DEF WaitDone, TakeStopped, TakeDone, GraceOk, GraceTimeout, ReleaseSlot,
              EncodeMessages, PersistFails, EndCall, CallerGoes, ctxVars, stopVars
<1>4. ASSUME NEW r \in Runs, Persist(r)
      PROVE  FlagExplained' /\ StoppedOnlyIfAsked'
  BY <1>4 DEF Persist, EndCall, CallerGoes, ctxVars, stopVars, Replies
<1>5. ASSUME NEW r \in Runs, WorkerStep(r)
      PROVE  FlagExplained' /\ StoppedOnlyIfAsked'
  <2>1. UNCHANGED <<stopFlag, caller, outcome, asked>>
    BY <1>5
       DEF WorkerStep, WorkerClearsDone, WorkerSetsRunning, AppendUser, LoopExhausted,
           Checkpoint, LeaveLoop, Continue, Answered, Raises, AppendCalls, AppendResults,
           AppendAnswer, Finish, SetTerminal, SignalDone, Publish, ctxVars, callVars,
           stopVars
  <2> QED BY <2>1
<1>6. ASSUME StopStep PROVE FlagExplained' /\ StoppedOnlyIfAsked'
  BY <1>6 DEF StopStep, StopRaisesFlag, StopSetsStatus, StopSetsDone, callVars
<1>7. ASSUME NEW s \in Subagents, SubStep(s) PROVE FlagExplained' /\ StoppedOnlyIfAsked'
  BY <1>7 DEF SubStep, SubAcquires, SubTimesOut, SubReleases, ctxVars, callVars, stopVars
<1>8. CASE UNCHANGED vars
  BY <1>8 DEF vars, ctxVars, callVars, stopVars
<1> QED BY <1>1, <1>2, <1>3, <1>4, <1>5, <1>6, <1>7, <1>8 DEF Next, CallerStep

\* No call of run() reports "interrupted" unless stop() was called while that call
\* was in flight, however calls and stops overlap.
THEOREM StopIsExplained == Spec => []StoppedOnlyIfAsked
<1>1. Init => StopInv
  BY InductiveInit DEF Init, StopInv, FlagExplained, StoppedOnlyIfAsked, Inductive
<1>2. StopInv /\ TypeOK' /\ [Next]_vars => StopInv'
  BY StopStepwise DEF StopInv
<1>3. StopInv => StoppedOnlyIfAsked
  BY DEF StopInv
<1> QED BY <1>1, <1>2, <1>3, TypeCorrect, PTL DEF Spec

--------------------------------------------------------------------------------
(* Durability of answers *)

Extends(s, t) == Len(s) <= Len(t) /\ \A i \in 1..Len(s) : s[i] = t[i]
HasQuestion(log, r) == \E i \in 1..Len(log) : log[i] = [role |-> "user", run |-> r]

LEMMA TurnKept ==
    ASSUME NEW s \in Seq(Message), NEW t \in Seq(Message), Extends(s, t), NEW r \in Runs
    PROVE  /\ HasTurn(s, r) => HasTurn(t, r)
           /\ HasQuestion(s, r) => HasQuestion(t, r)
<1>1. Len(s) \in Nat /\ Len(t) \in Nat
  BY LenProperties
<1>2. \A i \in 1..Len(s) : i \in 1..Len(t) /\ t[i] = s[i]
  BY <1>1 DEF Extends
<1> QED BY <1>2 DEF HasTurn, HasQuestion

LEMMA ExtendsReflexive == ASSUME NEW s \in Seq(Message) PROVE Extends(s, s)
BY LenProperties DEF Extends

LEMMA ExtendsTransitive ==
    ASSUME NEW s \in Seq(Message), NEW t \in Seq(Message), NEW u \in Seq(Message),
           Extends(s, t), Extends(t, u)
    PROVE  Extends(s, u)
<1>1. Len(s) \in Nat /\ Len(t) \in Nat /\ Len(u) \in Nat
  BY LenProperties
<1> QED BY <1>1 DEF Extends

LEMMA ExtendsAppend ==
    ASSUME NEW s \in Seq(Message), NEW m \in Message
    PROVE  Extends(s, Append(s, m))
<1>1. Len(s) \in Nat
  BY LenProperties
<1> QED BY <1>1, AppendProperties DEF Extends

(* save_context never writes anything but the live list, unless nothing is new. *)
LEMMA CommittedIsRowsOrLive ==
    ASSUME NEW rows \in Seq(Message), NEW enc \in Seq(Message), NEW live \in Seq(Message),
           Extends(rows, live)
    PROVE  \/ rows = enc /\ Committed(rows, enc, live) = enc
           \/ Committed(rows, enc, live) = live
<1>1. CASE rows # enc /\ IsProperPrefix(rows, enc)
  <2> DEFINE new == SubSeq(live, Len(rows) + 1, Len(live))
  <2>1. Len(rows) \in Nat /\ Len(live) \in Nat /\ Len(rows) <= Len(live)
    BY LenProperties DEF Extends
  <2>2. \A i \in (Len(rows) + 1)..Len(live) : live[i] \in Message
    BY <2>1
  <2>3. /\ new \in Seq(Message)
        /\ Len(new) = Len(live) - Len(rows)
        /\ \A i \in 1..(Len(live) - Len(rows)) : new[i] = live[Len(rows) + i]
    BY <2>1, <2>2, SubSeqProperties
  <2> HIDE DEF new
  <2>4. /\ rows \o new \in Seq(Message)
        /\ Len(rows \o new) = Len(live)
        /\ \A i \in 1..(Len(rows) + Len(new)) :
               (rows \o new)[i] = IF i <= Len(rows) THEN rows[i] ELSE new[i - Len(rows)]
    BY <2>1, <2>3, ConcatProperties
  <2>5. ASSUME NEW i \in 1..Len(live) PROVE (rows \o new)[i] = live[i]
    <3>1. CASE i <= Len(rows)
      BY <2>1, <2>3, <2>4, <3>1 DEF Extends
    <3>2. CASE i > Len(rows)
      <4>1. i - Len(rows) \in 1..(Len(live) - Len(rows))
        BY <2>1, <3>2
      <4>2. (rows \o new)[i] = new[i - Len(rows)]
        BY <2>1, <2>3, <2>4, <3>2
      <4>3. new[i - Len(rows)] = live[Len(rows) + (i - Len(rows))]
        BY <2>3, <4>1
      <4>4. Len(rows) + (i - Len(rows)) = i
        BY <2>1
      <4> QED BY <4>2, <4>3, <4>4
    <3>3. i <= Len(rows) \/ i > Len(rows)
      BY <2>1
    <3> QED BY <3>1, <3>2, <3>3
  <2>6. rows \o new = live
    BY <2>4, <2>5, SeqEqual
  <2> QED BY <1>1, <2>6 DEF Committed, new
<1>2. CASE ~(rows # enc /\ IsProperPrefix(rows, enc))
  BY <1>2 DEF Committed
<1> QED BY <1>1, <1>2

\* Where a worker stands once its question is in the history.
Asking == {"check", "llm", "recheck", "append", "exec", "recheckTools", "results"}

\* The calls whose chat ended by itself and that are about to save it.
Settling(r) == caller[r] \in {"release", "encode", "commit"} /\ outcome[r] # "stopped"

RowsAreAPrefix == Extends(store, messages)
EncodedIsAPrefix == \A r \in Runs : caller[r] = "commit" => Extends(encoded[r], messages)
QuestionAsked == \A r \in Runs : worker[r] \in Asking => HasQuestion(messages, r)
AnswerWritten == \A r \in Runs : reply[r] = "answer" => HasTurn(messages, r)
SettlingIsFinal == \A r \in Runs : Settling(r) => worker[r] = "exit"
EncodedHasTurn == \A r \in Runs :
    caller[r] = "commit" /\ outcome[r] # "stopped" /\ reply[r] = "answer"
        => HasTurn(encoded[r], r)

DurableInv == /\ RowsAreAPrefix /\ EncodedIsAPrefix /\ QuestionAsked /\ AnswerWritten
              /\ SettlingIsFinal /\ EncodedHasTurn /\ AnswerDurable

(* A step that leaves the message list, the rows and the encoded lists alone keeps *)
(* all that is said about them; only who stands where is left to be checked.      *)
LEMMA QuietForTheLog ==
    ASSUME TypeOK, DurableInv, UNCHANGED <<messages, store, encoded>>,
           \A r \in Runs : /\ caller'[r] = "commit" => caller[r] = "commit"
                           /\ worker'[r] \in Asking => worker[r] \in Asking
                           /\ reply'[r] = "answer" => reply[r] = "answer"
                           /\ outcome'[r] = "answer" => outcome[r] = "answer"
                           /\ Settling(r)' => worker'[r] = "exit"
                           /\ caller'[r] = "commit" /\ outcome'[r] # "stopped"
                                  => outcome[r] # "stopped"
    PROVE  DurableInv'
BY DEF DurableInv, RowsAreAPrefix, EncodedIsAPrefix, QuestionAsked, AnswerWritten,
       SettlingIsFinal, EncodedHasTurn, AnswerDurable, Extends, HasTurn, HasQuestion

LEMMA QuietWorker ==
    ASSUME TypeOK, DurableInv, NEW r \in Runs, worker[r] # "exit",
           UNCHANGED <<messages, store, callVars>>,
           \A q \in Runs \ {r} : worker'[q] = worker[q],
           worker'[r] \in Asking => worker[r] \in Asking,
           \A q \in Runs : reply'[q] = "answer" => reply[q] = "answer"
    PROVE  DurableInv'
<1>1. \A q \in Runs : Settling(q)' => worker'[q] = "exit"
  BY DEF DurableInv, SettlingIsFinal, Settling, callVars
<1>2. \A q \in Runs : worker'[q] \in Asking => worker[q] \in Asking
  OBVIOUS
<1> QED BY <1>1, <1>2, QuietForTheLog DEF callVars

(* What appending one message does to the list. *)
LEMMA AppendFacts ==
    ASSUME TypeOK, NEW r \in Runs, NEW role \in Roles, Append1(r, role)
    PROVE  /\ messages \in Seq(Message) /\ messages' \in Seq(Message)
           /\ Len(messages) \in Nat /\ Len(messages') = Len(messages) + 1
           /\ Len(messages) + 1 \in 1..Len(messages')
           /\ messages'[Len(messages) + 1] = [role |-> role, run |-> r]
           /\ Extends(messages, messages')
<1>1. [role |-> role, run |-> r] \in Message
  BY DEF Message
<1>2. messages \in Seq(Message) /\ Len(messages) \in Nat
  BY LenProperties DEF TypeOK
<1> QED BY <1>1, <1>2, AppendProperties, ExtendsAppend DEF Append1

(* A worker that appends a message. *)
LEMMA AppendKeepsLog ==
    ASSUME TypeOK, DurableInv, NEW r \in Runs, NEW role \in Roles, Append1(r, role),
           UNCHANGED <<store, callVars>>, worker[r] # "exit",
           \A q \in Runs \ {r} : worker'[q] = worker[q] /\ reply'[q] = reply[q],
           worker'[r] \in Asking => HasQuestion(messages', r),
           reply'[r] = "answer" => HasTurn(messages', r)
    PROVE  DurableInv'
<1>1. [role |-> role, run |-> r] \in Message
  BY DEF Message
<1>2. messages \in Seq(Message) /\ messages' \in Seq(Message)
      /\ store \in Seq(Message) /\ encoded \in [Runs -> Seq(Message)]
  BY MessagesGrow DEF TypeOK
<1>3. Extends(messages, messages')
  BY <1>1, <1>2, ExtendsAppend DEF Append1
<1>4. RowsAreAPrefix'
  BY <1>2, <1>3, ExtendsTransitive DEF DurableInv, RowsAreAPrefix
<1>5. EncodedIsAPrefix'
  BY <1>2, <1>3, ExtendsTransitive DEF DurableInv, EncodedIsAPrefix, callVars
<1>6. QuestionAsked'
  BY <1>2, <1>3, TurnKept DEF DurableInv, QuestionAsked
<1>7. AnswerWritten'
  BY <1>2, <1>3, TurnKept DEF DurableInv, AnswerWritten
<1>8. SettlingIsFinal'
  BY DEF DurableInv, SettlingIsFinal, Settling, callVars
<1>9. EncodedHasTurn' /\ AnswerDurable'
  <2>1. \A q \in Runs : caller[q] = "commit" /\ outcome[q] # "stopped" => q # r
    BY DEF DurableInv, SettlingIsFinal, Settling
  <2> QED BY <2>1 DEF DurableInv, EncodedHasTurn, AnswerDurable, HasTurn, callVars
<1> QED BY <1>4, <1>5, <1>6, <1>7, <1>8, <1>9 DEF DurableInv

LEMMA DurableStep ==
    ASSUME TypeOK, TypeOK', DurableInv, [Next]_vars
    PROVE  DurableInv'
<1> USE DEF TypeOK
<1>1. ASSUME NEW r \in Runs, Reject(r) \/ Enter(r) PROVE DurableInv'
  BY <1>1, QuietForTheLog
     DEF Reject, Enter, EndCall, CallerGoes, logVars, workVars, Settling, DurableInv,
         SettlingIsFinal
<1>2. ASSUME NEW r \in Runs,
             \/ ClearStopFlag(r) \/ CallerClearsDone(r) \/ CallerSetsRunning(r)
             \/ AcquireSlot(r) \/ MakeAgentRaises(r)
      PROVE  DurableInv'
  BY <1>2, QuietForTheLog, SMTT(30)
     DEF ClearStopFlag, CallerClearsDone, CallerSetsRunning, AcquireSlot, MakeAgentRaises,
         EndCall, CallerGoes, logVars, workVars, Settling, DurableInv, SettlingIsFinal
<1>3. ASSUME NEW r \in Runs, StartWorker(r) PROVE DurableInv'
  BY <1>3, QuietForTheLog
     DEF StartWorker, CallerGoes, logVars, Settling, DurableInv, SettlingIsFinal, Asking
<1>4. ASSUME NEW r \in Runs,
             \/ WaitDone(r) \/ TakeDone(r) \/ TakeStopped(r) \/ GraceOk(r)
             \/ GraceTimeout(r) \/ ReleaseSlot(r) \/ PersistFails(r)
      PROVE  DurableInv'
  <2>1. CASE WaitDone(r) \/ TakeDone(r)
    BY <2>1, QuietForTheLog
       DEF WaitDone, TakeDone, CallerGoes, logVars, workVars, Settling, DurableInv,
           SettlingIsFinal
  <2>2. CASE TakeStopped(r)
    BY <2>2, QuietForTheLog
       DEF TakeStopped, CallerGoes, logVars, workVars, Settling, DurableInv, SettlingIsFinal
  <2>3. CASE GraceOk(r) \/ ReleaseSlot(r)
    BY <2>3, QuietForTheLog
       DEF GraceOk, ReleaseSlot, CallerGoes, logVars, workVars, Settling, DurableInv,
           SettlingIsFinal
  <2>4. CASE GraceTimeout(r) \/ PersistFails(r)
    BY <2>4, QuietForTheLog
       DEF GraceTimeout, PersistFails, EndCall, CallerGoes, logVars, workVars, Settling,
           DurableInv, SettlingIsFinal
  <2> QED BY <1>4, <2>1, <2>2, <2>3, <2>4
<1>5. ASSUME NEW r \in Runs, EncodeMessages(r) PROVE DurableInv'
  <2>1. UNCHANGED <<messages, store, outcome, worker, reply>>
    BY <1>5 DEF EncodeMessages, logVars, workVars
  <2>2. /\ caller' = [caller EXCEPT ![r] = "commit"] /\ caller[r] = "encode"
        /\ encoded' = [encoded EXCEPT ![r] = messages]
    BY <1>5 DEF EncodeMessages, CallerGoes
  <2>3. RowsAreAPrefix' /\ QuestionAsked' /\ AnswerWritten' /\ AnswerDurable'
    <3>1. RowsAreAPrefix'
      BY <2>1 DEF DurableInv, RowsAreAPrefix, Extends
    <3>2. QuestionAsked'
      BY <2>1 DEF DurableInv, QuestionAsked, HasQuestion
    <3>3. AnswerWritten'
      BY <2>1 DEF DurableInv, AnswerWritten, HasTurn
    <3>4. AnswerDurable'
      BY <2>1 DEF DurableInv, AnswerDurable, HasTurn
    <3> QED BY <3>1, <3>2, <3>3, <3>4
  <2>4. EncodedIsAPrefix'
    BY <2>1, <2>2, ExtendsReflexive DEF DurableInv, EncodedIsAPrefix
  <2>5. SettlingIsFinal'
    BY <2>1, <2>2 DEF DurableInv, SettlingIsFinal, Settling
  <2>6. EncodedHasTurn'
    BY <2>1, <2>2 DEF DurableInv, EncodedHasTurn, AnswerWritten
  <2> QED BY <2>3, <2>4, <2>5, <2>6 DEF DurableInv
<1>6. ASSUME NEW r \in Runs, Persist(r) PROVE DurableInv'
  <2>1. UNCHANGED <<messages, encoded, worker, reply>>
    BY <1>6 DEF Persist, EndCall, workVars
  <2>2. /\ caller[r] = "commit" /\ caller' = [caller EXCEPT ![r] = "ended"]
        /\ outcome' = [outcome EXCEPT ![r] = IF outcome[r] = "stopped" THEN "stopped"
                                                                     ELSE reply[r]]
        /\ store' = Committed(store, encoded[r], messages)
    BY <1>6 DEF Persist, EndCall, CallerGoes
  <2>3. Extends(store, messages) /\ Extends(encoded[r], messages)
    BY <2>2 DEF DurableInv, RowsAreAPrefix, EncodedIsAPrefix
  <2>4. \/ store = encoded[r] /\ store' = encoded[r]
        \/ store' = messages
    BY <2>2, <2>3, CommittedIsRowsOrLive
  <2>5. RowsAreAPrefix'
    BY <2>1, <2>3, <2>4, ExtendsReflexive DEF RowsAreAPrefix
  <2>6. EncodedIsAPrefix' /\ QuestionAsked' /\ AnswerWritten' /\ SettlingIsFinal'
        /\ EncodedHasTurn'
    BY <2>1, <2>2 DEF DurableInv, EncodedIsAPrefix, QuestionAsked, AnswerWritten,
                      SettlingIsFinal, EncodedHasTurn, Settling
  <2>7. ASSUME NEW q \in Runs, outcome'[q] = "answer" PROVE HasTurn(store', q)
    <3>1. CASE q = r
      <4>1. outcome[r] # "stopped" /\ reply[r] = "answer"
        BY <2>2, <2>7, <3>1
      <4>2. HasTurn(encoded[r], r) /\ HasTurn(messages, r)
        BY <2>2, <4>1 DEF DurableInv, EncodedHasTurn, AnswerWritten
      <4> QED BY <2>4, <3>1, <4>2
    <3>2. CASE q # r
      <4>1. HasTurn(store, q)
        BY <2>2, <2>7, <3>2 DEF DurableInv, AnswerDurable
      <4> QED BY <2>3, <2>4, <4>1, TurnKept
    <3> QED BY <3>1, <3>2
  <2>8. AnswerDurable'
    BY <2>7 DEF AnswerDurable, HasTurn
  <2> QED BY <2>5, <2>6, <2>8 DEF DurableInv
<1>7. ASSUME NEW r \in Runs,
             \/ WorkerClearsDone(r) \/ WorkerSetsRunning(r) \/ LoopExhausted(r)
             \/ Checkpoint(r) \/ Continue(r) \/ Answered(r) \/ Raises(r) \/ Finish(r)
             \/ SetTerminal(r) \/ SignalDone(r) \/ Publish(r)
      PROVE  DurableInv'
  <2>1. CASE \/ WorkerClearsDone(r) \/ WorkerSetsRunning(r) \/ Finish(r) \/ SetTerminal(r)
             \/ SignalDone(r) \/ Publish(r)
    BY <2>1, QuietWorker, ZenonT(40)
       DEF WorkerClearsDone, WorkerSetsRunning, Finish, SetTerminal, SignalDone, Publish,
           WorkerGoes, logVars, Asking
  <2>2. CASE LoopExhausted(r) \/ Checkpoint(r) \/ Raises(r)
    BY <2>2, QuietWorker
       DEF LoopExhausted, Checkpoint, LeaveLoop, Raises, WorkerGoes, logVars, Asking
  <2>3. CASE Continue(r) \/ Answered(r)
    BY <2>3, QuietWorker DEF Continue, Answered, WorkerGoes, logVars, Asking
  <2> QED BY <1>7, <2>1, <2>2, <2>3
<1>8. ASSUME NEW r \in Runs, AppendUser(r) PROVE DurableInv'
  <2>1. Append1(r, "user") /\ "user" \in Roles
    BY <1>8 DEF AppendUser, Roles
  <2>2. HasQuestion(messages', r)
    <3>1. /\ Len(messages) + 1 \in 1..Len(messages')
          /\ messages'[Len(messages) + 1] = [role |-> "user", run |-> r]
      BY <2>1, AppendFacts
    <3> QED BY <3>1 DEF HasQuestion
  <2>3. reply' = reply /\ HasTurn(messages, r) => HasTurn(messages', r)
    BY <2>1, AppendFacts, TurnKept
  <2>4. /\ UNCHANGED <<store, callVars, reply>> /\ worker[r] # "exit"
        /\ \A q \in Runs \ {r} : worker'[q] = worker[q]
    BY <1>8 DEF AppendUser, WorkerGoes
  <2>5. reply'[r] = "answer" => HasTurn(messages', r)
    BY <2>3, <2>4 DEF DurableInv, AnswerWritten
  <2> QED BY <2>1, <2>2, <2>4, <2>5, AppendKeepsLog
<1>11. ASSUME NEW r \in Runs, AppendCalls(r) \/ AppendResults(r) PROVE DurableInv'
  <2>1. PICK role \in {"calls", "results"} : Append1(r, role)
    BY <1>11 DEF AppendCalls, AppendResults
  <2>2. role \in Roles
    BY DEF Roles
  <2>3. HasQuestion(messages, r)
    BY <1>11 DEF AppendCalls, AppendResults, WorkerGoes, Asking, DurableInv, QuestionAsked
  <2>4. /\ HasQuestion(messages', r)
        /\ HasTurn(messages, r) => HasTurn(messages', r)
    BY <2>1, <2>2, <2>3, AppendFacts, TurnKept
  <2>5. /\ UNCHANGED <<store, callVars, reply>> /\ worker[r] # "exit"
        /\ \A q \in Runs \ {r} : worker'[q] = worker[q]
    BY <1>11 DEF AppendCalls, AppendResults, WorkerGoes
  <2>6. reply'[r] = "answer" => HasTurn(messages', r)
    BY <2>4, <2>5 DEF DurableInv, AnswerWritten
  <2> QED BY <2>1, <2>2, <2>4, <2>5, <2>6, AppendKeepsLog
<1>12. ASSUME NEW r \in Runs, AppendAnswer(r) PROVE DurableInv'
  <2>1. Append1(r, "answer") /\ "answer" \in Roles
    BY <1>12 DEF AppendAnswer, Roles
  <2>2. HasQuestion(messages, r)
    BY <1>12 DEF AppendAnswer, WorkerGoes, Asking, DurableInv, QuestionAsked
  <2>3. HasQuestion(messages', r)
    BY <2>1, <2>2, AppendFacts, TurnKept
  <2>4. HasTurn(messages', r)
    <3>1. PICK i \in 1..Len(messages) : messages[i] = [role |-> "user", run |-> r]
      BY <2>2 DEF HasQuestion
    <3>2. /\ Extends(messages, messages') /\ Len(messages) \in Nat
          /\ Len(messages') = Len(messages) + 1
          /\ Len(messages) + 1 \in 1..Len(messages')
          /\ messages'[Len(messages) + 1] = [role |-> "answer", run |-> r]
      BY <2>1, AppendFacts
    <3>3. /\ i \in 1..Len(messages') /\ i < Len(messages) + 1
          /\ messages'[i] = [role |-> "user", run |-> r]
      BY <3>1, <3>2 DEF Extends
    <3> QED BY <3>2, <3>3 DEF HasTurn
  <2>5. /\ UNCHANGED <<store, callVars>> /\ worker[r] # "exit"
        /\ \A q \in Runs \ {r} : worker'[q] = worker[q] /\ reply'[q] = reply[q]
    BY <1>12 DEF AppendAnswer, WorkerGoes
  <2> QED BY <2>1, <2>3, <2>4, <2>5, AppendKeepsLog
<1>9. ASSUME StopStep \/ (\E s \in Subagents : SubStep(s)) PROVE DurableInv'
  BY <1>9, QuietForTheLog
     DEF StopStep, StopRaisesFlag, StopSetsStatus, StopSetsDone, SubStep, SubAcquires,
         SubTimesOut, SubReleases, logVars, callVars, workVars, Settling, DurableInv,
         SettlingIsFinal
<1>10. CASE UNCHANGED vars
  BY <1>10, QuietForTheLog
     DEF vars, logVars, callVars, workVars, Settling, DurableInv, SettlingIsFinal
<1> QED BY <1>1, <1>2, <1>3, <1>4, <1>5, <1>6, <1>7, <1>8, <1>9, <1>10, <1>11, <1>12
        DEF Next, CallerStep, WorkerStep

LEMMA LogIsDurable == Spec => []DurableInv
<1>1. Init => DurableInv
  BY DEF Init, DurableInv, RowsAreAPrefix, EncodedIsAPrefix, QuestionAsked, AnswerWritten,
         SettlingIsFinal, EncodedHasTurn, AnswerDurable, Settling, Asking, Extends
<1>2. TypeOK /\ TypeOK' /\ DurableInv /\ [Next]_vars => DurableInv'
  BY DurableStep
<1> QED BY <1>1, <1>2, TypeCorrect, PTL DEF Spec

\* run() never hands out an answer whose turn is not in the database, whatever the
\* number of callers, stale workers, stops and failed saves.
THEOREM AnswersAreDurable == Spec => []AnswerDurable
<1>1. DurableInv => AnswerDurable
  BY DEF DurableInv
<1> QED BY <1>1, LogIsDurable, PTL
--------------------------------------------------------------------------------
(* One caller at a time *)

\* No two calls are under way together.
OneCall == \A q, r \in Runs : InFlight(q) /\ InFlight(r) => q = r

\* A call has no outcome before it is woken.
Undecided == \A r \in Runs :
    caller[r] \notin {"release", "encode", "commit", "ended"} => outcome[r] = "none"

\* A call that was asked to stop: the flag stays up until the call sees it, and what it
\* has seen it reports.
AskedIsKept == \A r \in asked :
    \/ Stoppable(r) /\ stopFlag
    \/ caller[r] \in {"release", "encode", "commit"} /\ outcome[r] = "stopped"
    \/ caller[r] = "ended" /\ outcome[r] \notin {"answer", "error", "maxTurns", "stopText"}

SerialInv == OneCall /\ Undecided /\ AskedIsKept

LEMMA OneCallStep ==
    ASSUME Serial, TypeOK, OneCall, [Next]_vars
    PROVE  OneCall'
<1> USE DEF TypeOK, OneCall, InFlight
<1>1. ASSUME NEW r \in Runs, Reject(r) \/ Enter(r) PROVE OneCall'
  BY <1>1, ZenonT(40) DEF Reject, Enter, EndCall, CallerGoes, MayCall
<1>2. ASSUME NEW r \in Runs, CallerStep(r) PROVE OneCall'
  <2>1. PICK to : caller' = [caller EXCEPT ![r] = to] /\ caller[r] \notin {"idle", "ended"}
    BY <1>2 DEF CallerStep, ClearStopFlag, CallerClearsDone, CallerSetsRunning, AcquireSlot,
                StartWorker, MakeAgentRaises, WaitDone, TakeStopped, TakeDone, GraceOk,
                GraceTimeout, ReleaseSlot, EncodeMessages, Persist, PersistFails, EndCall,
                CallerGoes
  <2> QED BY <2>1
<1>3. ASSUME \/ \E r \in Runs : WorkerStep(r)
             \/ StopStep \/ (\E s \in Subagents : SubStep(s)) \/ UNCHANGED vars
      PROVE  OneCall'
  <2>1. UNCHANGED caller
    BY <1>3 DEF WorkerStep, WorkerClearsDone, WorkerSetsRunning, AppendUser, LoopExhausted,
                Checkpoint, LeaveLoop, Continue, Answered, Raises, AppendCalls,
                AppendResults, AppendAnswer, Finish, SetTerminal, SignalDone, Publish,
                StopStep, StopRaisesFlag, StopSetsStatus, StopSetsDone, SubStep,
                SubAcquires, SubTimesOut, SubReleases, vars, callVars
  <2> QED BY <2>1
<1> QED BY <1>1, <1>2, <1>3 DEF Next

LEMMA StopWinsStep ==
    ASSUME TypeOK, SerialInv, [Next]_vars
    PROVE  Undecided' /\ AskedIsKept'
<1> USE DEF TypeOK, SerialInv, OneCall, InFlight, Undecided, AskedIsKept, Stoppable
<1>1. ASSUME NEW r \in Runs, Reject(r) \/ Enter(r) PROVE Undecided' /\ AskedIsKept'
  BY <1>1, ZenonT(40) DEF Reject, Enter, EndCall, CallerGoes, ctxVars, stopVars
<1>2. ASSUME NEW r \in Runs, ClearStopFlag(r) PROVE Undecided' /\ AskedIsKept'
  BY <1>2 DEF ClearStopFlag, CallerGoes, stopVars
<1>3. ASSUME NEW r \in Runs,
             \/ CallerClearsDone(r) \/ CallerSetsRunning(r) \/ AcquireSlot(r)
             \/ StartWorker(r) \/ WaitDone(r) \/ TakeDone(r)
      PROVE  Undecided' /\ AskedIsKept'
  BY <1>3, ZenonT(40) DEF CallerClearsDone, CallerSetsRunning, AcquireSlot, StartWorker, WaitDone,
              TakeDone, CallerGoes, ctxVars, stopVars
<1>4. ASSUME NEW r \in Runs,
             TakeStopped(r) \/ GraceOk(r) \/ ReleaseSlot(r) \/ EncodeMessages(r)
      PROVE  Undecided' /\ AskedIsKept'
  <2>1. CASE TakeStopped(r)
    BY <2>1 DEF TakeStopped, CallerGoes, ctxVars, stopVars
  <2>2. CASE GraceOk(r)
    BY <2>2 DEF GraceOk, CallerGoes, ctxVars, stopVars
  <2>3. CASE ReleaseSlot(r)
    BY <2>3 DEF ReleaseSlot, CallerGoes, ctxVars, stopVars
  <2>4. CASE EncodeMessages(r)
    BY <2>4 DEF EncodeMessages, CallerGoes, ctxVars, stopVars
  <2> QED BY <1>4, <2>1, <2>2, <2>3, <2>4
<1>5. ASSUME NEW r \in Runs,
             MakeAgentRaises(r) \/ GraceTimeout(r) \/ Persist(r) \/ PersistFails(r)
      PROVE  Undecided' /\ AskedIsKept'
  <2>1. CASE MakeAgentRaises(r)
    BY <2>1 DEF MakeAgentRaises, EndCall, CallerGoes, ctxVars, stopVars
  <2>2. CASE GraceTimeout(r)
    BY <2>2 DEF GraceTimeout, EndCall, CallerGoes, ctxVars, stopVars
  <2>3. CASE Persist(r)
    BY <2>3, ZenonT(40) DEF Persist, EndCall, CallerGoes, stopVars
  <2>4. CASE PersistFails(r)
    BY <2>4 DEF PersistFails, EndCall, CallerGoes, ctxVars, stopVars
  <2> QED BY <1>5, <2>1, <2>2, <2>3, <2>4
<1>6. ASSUME NEW r \in Runs, WorkerStep(r) PROVE Undecided' /\ AskedIsKept'
  <2>1. UNCHANGED <<stopFlag, caller, outcome, asked>>
    BY <1>6
       DEF WorkerStep, WorkerClearsDone, WorkerSetsRunning, AppendUser, LoopExhausted,
           Checkpoint, LeaveLoop, Continue, Answered, Raises, AppendCalls, AppendResults,
           AppendAnswer, Finish, SetTerminal, SignalDone, Publish, ctxVars, callVars,
           stopVars
  <2> QED BY <2>1
<1>7. ASSUME StopStep PROVE Undecided' /\ AskedIsKept'
  BY <1>7 DEF StopStep, StopRaisesFlag, StopSetsStatus, StopSetsDone, callVars
<1>8. ASSUME (\E s \in Subagents : SubStep(s)) \/ UNCHANGED vars
      PROVE  Undecided' /\ AskedIsKept'
  BY <1>8
     DEF SubStep, SubAcquires, SubTimesOut, SubReleases, vars, ctxVars, callVars, stopVars
<1> QED BY <1>1, <1>2, <1>3, <1>4, <1>5, <1>6, <1>7, <1>8 DEF Next, CallerStep

\* A front end that makes one call at a time (the CLI, or one browser tab) and stops it
\* before the call has looked at the flag never gets anything but "stopped" or an
\* exception, although the chat may end by itself at the same moment.
THEOREM StopBeatsTheAnswer == ASSUME Serial PROVE Spec => []StopWins
<1>1. Init => SerialInv
  BY DEF Init, SerialInv, OneCall, InFlight, Undecided, AskedIsKept
<1>2. TypeOK /\ SerialInv /\ [Next]_vars => SerialInv'
  BY OneCallStep, StopWinsStep DEF SerialInv
<1>3. SerialInv => StopWins
  BY DEF SerialInv, Undecided, AskedIsKept, Stoppable, StopWins
<1> QED BY <1>1, <1>2, <1>3, TypeCorrect, PTL DEF Spec

--------------------------------------------------------------------------------
(* One caller at a time, and nobody calls stop() *)

NoStop == stopFlag = FALSE /\ stops = 0 /\ stopper = "idle"

NotStarted == {"idle", "clear", "beginDone", "beginRunning", "acquire", "make"}

\* The worker's life lies between its start and the end of the wait for it, and _done
\* tells the caller that it has finished: it is up only when no chat is under way.
Lifecycle == \A r \in Runs :
    /\ caller[r] \in NotStarted => worker[r] = "none"
    /\ worker[r] \notin {"none", "exit"} => caller[r] \in {"wait", "woken", "grace"}
    /\ caller[r] \in {"woken", "grace"} => worker[r] \in {"publish", "exit"}
    /\ caller[r] \in {"beginRunning", "acquire", "make"} => ~done
    /\ caller[r] = "wait" /\ done => worker[r] \in {"publish", "exit"}

ErrorIsFinal == \A r \in Runs :
    reply[r] = "error" => worker[r] \in {"fail", "signal", "publish", "exit"}

QuietInv == NoStop /\ OneCall /\ Lifecycle /\ ErrorIsFinal

\* A step of a live worker that tells _done only what is true.
LEMMA WorkerMoves ==
    ASSUME TypeOK, QuietInv, NEW r \in Runs, NEW to \in WorkerPc \ {"none"},
           worker[r] \notin {"none", "exit"}, worker[r] = "publish" => to = "exit",
           worker' = [worker EXCEPT ![r] = to],
           done' \in {done, FALSE, to = "publish"},
           \A q \in Runs \ {r} : reply'[q] = reply[q],
           reply'[r] = "error" => to \in {"fail", "signal", "publish", "exit"},
           UNCHANGED <<stopFlag, stops, stopper, caller>>
    PROVE  NoStop' /\ Lifecycle' /\ ErrorIsFinal'
<1> USE DEF TypeOK, QuietInv
<1>1. NoStop'
  BY DEF NoStop
<1>2. ErrorIsFinal'
  BY DEF ErrorIsFinal
<1>3. caller[r] \in {"wait", "woken", "grace"}
  BY DEF Lifecycle
<1>4. \A q \in Runs \ {r} : caller[q] \notin {"beginRunning", "acquire", "make", "wait"}
  BY <1>3 DEF OneCall, InFlight
<1>5. caller[r] \in {"woken", "grace"} => to = "exit"
  BY DEF Lifecycle
<1>6. caller[r] = "wait" /\ done' => to \in {"publish", "exit"}
  BY DEF Lifecycle
<1>7. Lifecycle'
  BY <1>3, <1>4, <1>5, <1>6 DEF Lifecycle, NotStarted
<1> QED BY <1>1, <1>2, <1>7

\* Without a stop the protocol around the chat keeps caller and worker in step.
LEMMA QuietStep ==
    ASSUME Serial, MaxStops = 0, TypeOK, QuietInv, [Next]_vars
    PROVE  QuietInv'
<1> USE DEF TypeOK
<1>1. OneCall'
  BY OneCallStep DEF QuietInv
<1>2. SUFFICES NoStop' /\ Lifecycle' /\ ErrorIsFinal'
  BY <1>1 DEF QuietInv
<1> USE DEF QuietInv
<1>3. ASSUME NEW r \in Runs, Reject(r) \/ Enter(r)
      PROVE  NoStop' /\ Lifecycle' /\ ErrorIsFinal'
  BY <1>3
     DEF NoStop, OneCall, InFlight, Lifecycle, NotStarted, ErrorIsFinal, Reject, Enter,
         EndCall, CallerGoes, ctxVars, workVars, stopVars
<1>4. ASSUME NEW r \in Runs,
             \/ ClearStopFlag(r) \/ CallerClearsDone(r) \/ CallerSetsRunning(r)
             \/ AcquireSlot(r)
      PROVE  NoStop' /\ Lifecycle' /\ ErrorIsFinal'
  <2>1. CASE ClearStopFlag(r) \/ CallerClearsDone(r)
    BY <2>1
       DEF NoStop, OneCall, InFlight, Lifecycle, NotStarted, ErrorIsFinal, ClearStopFlag,
           CallerClearsDone, CallerGoes, workVars, stopVars
  <2>2. CASE CallerSetsRunning(r) \/ AcquireSlot(r)
    BY <2>2
       DEF NoStop, OneCall, InFlight, Lifecycle, NotStarted, ErrorIsFinal,
           CallerSetsRunning, AcquireSlot, CallerGoes, ctxVars, workVars, stopVars
  <2> QED BY <1>4, <2>1, <2>2
<1>5. ASSUME NEW r \in Runs, StartWorker(r) \/ MakeAgentRaises(r)
      PROVE  NoStop' /\ Lifecycle' /\ ErrorIsFinal'
  <2>1. CASE StartWorker(r)
    BY <2>1
       DEF NoStop, OneCall, InFlight, Lifecycle, NotStarted, ErrorIsFinal, StartWorker,
           CallerGoes, ctxVars, stopVars
  <2>2. CASE MakeAgentRaises(r)
    BY <2>2
       DEF NoStop, OneCall, InFlight, Lifecycle, NotStarted, ErrorIsFinal, MakeAgentRaises,
           EndCall, CallerGoes, ctxVars, workVars, stopVars
  <2> QED BY <1>5, <2>1, <2>2
<1>6. ASSUME NEW r \in Runs, WaitDone(r) \/ TakeDone(r) \/ TakeStopped(r)
      PROVE  NoStop' /\ Lifecycle' /\ ErrorIsFinal'
  BY <1>6
     DEF NoStop, OneCall, InFlight, Lifecycle, NotStarted, ErrorIsFinal, WaitDone, TakeDone,
         TakeStopped, CallerGoes, ctxVars, workVars, stopVars
<1>7. ASSUME NEW r \in Runs,
             GraceOk(r) \/ GraceTimeout(r) \/ ReleaseSlot(r) \/ EncodeMessages(r)
      PROVE  NoStop' /\ Lifecycle' /\ ErrorIsFinal'
  <2>1. CASE GraceOk(r)
    BY <2>1
       DEF NoStop, OneCall, InFlight, Lifecycle, NotStarted, ErrorIsFinal, GraceOk,
           CallerGoes, ctxVars, workVars, stopVars
  <2>2. CASE GraceTimeout(r)
    BY <2>2
       DEF NoStop, OneCall, InFlight, Lifecycle, NotStarted, ErrorIsFinal, GraceTimeout,
           Blocking, EndCall, CallerGoes, ctxVars, workVars, stopVars
  <2>3. CASE ReleaseSlot(r) \/ EncodeMessages(r)
    BY <2>3
       DEF NoStop, OneCall, InFlight, Lifecycle, NotStarted, ErrorIsFinal, ReleaseSlot,
           EncodeMessages, CallerGoes, ctxVars, workVars, stopVars
  <2> QED BY <1>7, <2>1, <2>2, <2>3
<1>8. ASSUME NEW r \in Runs, Persist(r) \/ PersistFails(r)
      PROVE  NoStop' /\ Lifecycle' /\ ErrorIsFinal'
  BY <1>8
     DEF NoStop, OneCall, InFlight, Lifecycle, NotStarted, ErrorIsFinal, Persist,
         PersistFails, EndCall, CallerGoes, ctxVars, workVars, stopVars
<1>9. ASSUME NEW r \in Runs, WorkerClearsDone(r) \/ WorkerSetsRunning(r)
      PROVE  NoStop' /\ Lifecycle' /\ ErrorIsFinal'
  <2>1. CASE WorkerClearsDone(r)
    BY <2>1, WorkerMoves
       DEF WorkerClearsDone, WorkerGoes, WorkerPc, ErrorIsFinal, QuietInv, ctxVars,
           callVars, stopVars
  <2>2. CASE WorkerSetsRunning(r)
    BY <2>2, WorkerMoves
       DEF WorkerSetsRunning, WorkerGoes, WorkerPc, ErrorIsFinal, QuietInv, ctxVars,
           callVars, stopVars
  <2> QED BY <1>9, <2>1, <2>2
<1>10. ASSUME NEW r \in Runs, Finish(r) \/ SetTerminal(r)
      PROVE  NoStop' /\ Lifecycle' /\ ErrorIsFinal'
  <2>1. CASE Finish(r)
    BY <2>1, WorkerMoves
       DEF Finish, WorkerGoes, WorkerPc, ErrorIsFinal, QuietInv, ctxVars, callVars, stopVars
  <2>2. CASE SetTerminal(r)
    BY <2>2, WorkerMoves
       DEF SetTerminal, WorkerGoes, WorkerPc, ErrorIsFinal, QuietInv, ctxVars, callVars,
           stopVars
  <2> QED BY <1>10, <2>1, <2>2
<1>11. ASSUME NEW r \in Runs, SignalDone(r) \/ Publish(r)
      PROVE  NoStop' /\ Lifecycle' /\ ErrorIsFinal'
  <2>1. CASE SignalDone(r)
    BY <2>1, WorkerMoves
       DEF SignalDone, WorkerGoes, WorkerPc, ErrorIsFinal, QuietInv, ctxVars, callVars,
           stopVars
  <2>2. CASE Publish(r)
    BY <2>2, WorkerMoves
       DEF Publish, WorkerGoes, WorkerPc, ErrorIsFinal, QuietInv, ctxVars, callVars,
           stopVars
  <2> QED BY <1>11, <2>1, <2>2
<1>12. ASSUME NEW r \in Runs, LoopExhausted(r) \/ Checkpoint(r) \/ Raises(r)
      PROVE  NoStop' /\ Lifecycle' /\ ErrorIsFinal'
  <2>1. CASE LoopExhausted(r)
    BY <2>1, WorkerMoves
       DEF LoopExhausted, LeaveLoop, WorkerGoes, WorkerPc, ErrorIsFinal, QuietInv, ctxVars,
           callVars, stopVars
  <2>2. CASE Checkpoint(r)
    BY <2>2 DEF Checkpoint, QuietInv, NoStop
  <2>3. CASE Raises(r)
    <3>1. /\ worker[r] \in {"llm", "append", "exec"}
          /\ worker' = [worker EXCEPT ![r] = "fail"]
          /\ \A q \in Runs \ {r} : reply'[q] = reply[q]
          /\ UNCHANGED <<ctxVars, callVars, stopVars>>
      BY <2>3 DEF Raises, WorkerGoes
    <3> QED BY <3>1, WorkerMoves DEF WorkerPc, ctxVars, callVars, stopVars
  <2> QED BY <1>12, <2>1, <2>2, <2>3
<1>13. ASSUME NEW r \in Runs, Continue(r) \/ Answered(r)
      PROVE  NoStop' /\ Lifecycle' /\ ErrorIsFinal'
  <2>1. CASE Continue(r)
    BY <2>1, WorkerMoves
       DEF Continue, WorkerGoes, WorkerPc, ErrorIsFinal, QuietInv, ctxVars, callVars,
           stopVars
  <2>2. CASE Answered(r)
    BY <2>2, WorkerMoves
       DEF Answered, WorkerGoes, WorkerPc, ErrorIsFinal, QuietInv, ctxVars, callVars,
           stopVars
  <2> QED BY <1>13, <2>1, <2>2
<1>14. ASSUME NEW r \in Runs,
              AppendUser(r) \/ AppendCalls(r) \/ AppendResults(r) \/ AppendAnswer(r)
      PROVE  NoStop' /\ Lifecycle' /\ ErrorIsFinal'
  <2>1. CASE AppendUser(r)
    BY <2>1, WorkerMoves
       DEF AppendUser, WorkerGoes, WorkerPc, ErrorIsFinal, QuietInv, ctxVars, callVars,
           stopVars
  <2>2. CASE AppendCalls(r)
    BY <2>2, WorkerMoves
       DEF AppendCalls, WorkerGoes, WorkerPc, ErrorIsFinal, QuietInv, ctxVars, callVars,
           stopVars
  <2>3. CASE AppendResults(r)
    BY <2>3, WorkerMoves
       DEF AppendResults, WorkerGoes, WorkerPc, ErrorIsFinal, QuietInv, ctxVars, callVars,
           stopVars
  <2>4. CASE AppendAnswer(r)
    BY <2>4, WorkerMoves
       DEF AppendAnswer, WorkerGoes, WorkerPc, ErrorIsFinal, QuietInv, ctxVars, callVars,
           stopVars
  <2> QED BY <1>14, <2>1, <2>2, <2>3, <2>4
<1>15. ASSUME StopStep PROVE FALSE
  BY <1>15 DEF NoStop, StopStep, StopRaisesFlag, StopSetsStatus, StopSetsDone
<1>16. ASSUME (\E s \in Subagents : SubStep(s)) \/ UNCHANGED vars
       PROVE  NoStop' /\ Lifecycle' /\ ErrorIsFinal'
  BY <1>16
     DEF NoStop, Lifecycle, ErrorIsFinal, SubStep, SubAcquires, SubTimesOut, SubReleases,
         vars, ctxVars, callVars, workVars, stopVars
<1> QED BY <1>3, <1>4, <1>5, <1>6, <1>7, <1>8, <1>9, <1>10, <1>11, <1>12, <1>13, <1>14,
           <1>15, <1>16
        DEF Next, CallerStep, WorkerStep

--------------------------------------------------------------------------------
(* The turns in the history *)

\* The worker has put the calls of a batch into the history and owes the results.
Owing == {"exec", "recheckTools", "results"}

\* A batch is answered at once, or is the newest message of a worker that still owes
\* the results, or belongs to a run that raised.
BatchesAnswered ==
    \A i \in 1..Len(messages) : messages[i].role = "calls" =>
        LET r == messages[i].run IN
        \/ i < Len(messages) /\ messages[i + 1] = [role |-> "results", run |-> r]
        \/ i = Len(messages) /\ worker[r] \in Owing
        \/ reply[r] = "error"

NotYet == {"none", "beginDone", "beginRunning", "user"}

\* A run that has not asked its question has no messages; the newest message of a
\* running chat is its own.
TurnIsNewest == \A r \in Runs :
    /\ worker[r] \in NotYet => \A i \in 1..Len(messages) : messages[i].run # r
    /\ worker[r] \in Asking => Len(messages) > 0 /\ messages[Len(messages)].run = r

Contiguous == \A i, j \in 1..Len(messages) : messages[i].run = messages[j].run =>
                  \A k \in i..j : messages[k].run = messages[i].run

HistoryInv == BatchesAnswered /\ TurnIsNewest /\ Contiguous

LEMMA MessageRuns ==
    ASSUME TypeOK
    PROVE  Len(messages) \in Nat /\ \A i \in 1..Len(messages) : messages[i].run \in Runs
<1>1. messages \in Seq(Message)
  BY DEF TypeOK
<1>2. \A i \in 1..Len(messages) : messages[i] \in Message
  BY <1>1, ElementOfSeq
<1>3. Len(messages) \in Nat
  BY <1>1, LenProperties
<1> QED BY <1>2, <1>3 DEF Message

\* A step that writes nothing, and moves a worker only within its part of the turn.
LEMMA SameHistory ==
    ASSUME TypeOK, HistoryInv, UNCHANGED messages,
           \A r \in Runs : \/ worker'[r] = worker[r]
                           \/ worker'[r] \in Asking /\ worker[r] \in Asking
                           \/ worker'[r] \in NotYet /\ worker[r] \in NotYet
                           \/ worker'[r] \notin Asking /\ worker'[r] \notin NotYet,
           \A r \in Runs : worker[r] \in Owing => worker'[r] \in Owing \/ reply'[r] = "error",
           \A r \in Runs : reply[r] = "error" => reply'[r] = "error"
    PROVE  HistoryInv'
<1>1. \A i \in 1..Len(messages) : messages[i].run \in Runs
  BY MessageRuns
<1>2. BatchesAnswered'
  BY <1>1 DEF HistoryInv, BatchesAnswered
<1>3. TurnIsNewest'
  BY DEF HistoryInv, TurnIsNewest, Asking, NotYet, TypeOK
<1>4. Contiguous'
  BY DEF HistoryInv, Contiguous
<1> QED BY <1>2, <1>3, <1>4 DEF HistoryInv

\* A worker, the only one at work, appends a message of its own turn.
LEMMA OwnMessage ==
    ASSUME TypeOK, HistoryInv, NEW r \in Runs, NEW role \in Roles, Append1(r, role),
           worker[r] \in Asking \cup {"user"}, NEW to \in WorkerPc \ NotYet,
           worker' = [worker EXCEPT ![r] = to],
           \A q \in Runs \ {r} : worker[q] \in {"none", "exit"},
           role = "calls" => to \in Owing,
           worker[r] \in Owing => role = "results",
           \A q \in Runs : reply[q] = "error" => reply'[q] = "error"
    PROVE  HistoryInv'
<1>1. /\ Len(messages) \in Nat /\ Len(messages') = Len(messages) + 1
      /\ messages'[Len(messages) + 1] = [role |-> role, run |-> r]
      /\ \A i \in 1..Len(messages) : messages'[i] = messages[i] /\ messages[i].run \in Runs
  BY AppendFacts, MessageRuns DEF Extends
<1>2. BatchesAnswered'
  <2> SUFFICES ASSUME NEW i \in 1..Len(messages'), messages'[i].role = "calls",
                      reply'[messages'[i].run] # "error"
               PROVE  \/ /\ i < Len(messages')
                         /\ messages'[i + 1] = [role |-> "results", run |-> messages'[i].run]
                      \/ i = Len(messages') /\ worker'[messages'[i].run] \in Owing
    BY DEF BatchesAnswered
  <2>1. CASE i = Len(messages) + 1
    BY <1>1, <2>1 DEF TypeOK
  <2>2. CASE i \in 1..Len(messages)
    <3> DEFINE q == messages[i].run
    <3>1. q \in Runs /\ messages'[i] = messages[i] /\ reply[q] # "error"
      BY <1>1, <2>2
    <3>2. \/ i < Len(messages) /\ messages[i + 1] = [role |-> "results", run |-> q]
          \/ i = Len(messages) /\ worker[q] \in Owing
      BY <2>2, <3>1 DEF HistoryInv, BatchesAnswered
    <3>3. CASE i < Len(messages) /\ messages[i + 1] = [role |-> "results", run |-> q]
      BY <1>1, <2>2, <3>1, <3>3
    <3>4. CASE i = Len(messages) /\ worker[q] \in Owing
      <4>1. q = r
        BY <3>1, <3>4 DEF Owing
      <4> QED BY <1>1, <3>1, <3>4, <4>1
    <3> QED BY <3>2, <3>3, <3>4
  <2> QED BY <1>1, <2>1, <2>2
<1>3. TurnIsNewest'
  <2> SUFFICES ASSUME NEW q \in Runs
               PROVE  /\ worker'[q] \in NotYet =>
                            \A i \in 1..Len(messages') : messages'[i].run # q
                      /\ worker'[q] \in Asking =>
                            Len(messages') > 0 /\ messages'[Len(messages')].run = q
    BY DEF TurnIsNewest
  <2>1. CASE q = r
    BY <1>1, <2>1 DEF TypeOK
  <2>2. CASE q # r
    <3>1. worker'[q] = worker[q] /\ worker[q] \notin Asking
      BY <2>2 DEF TypeOK, Asking
    <3>2. worker[q] \in NotYet => \A i \in 1..Len(messages) : messages[i].run # q
      BY DEF HistoryInv, TurnIsNewest
    <3> QED BY <1>1, <2>2, <3>1, <3>2
  <2> QED BY <2>1, <2>2
<1>4. Contiguous'
  <2>1. \/ \A i \in 1..Len(messages) : messages[i].run # r
        \/ Len(messages) > 0 /\ messages[Len(messages)].run = r
    BY DEF HistoryInv, TurnIsNewest, NotYet
  <2> SUFFICES ASSUME NEW i \in 1..Len(messages'), NEW j \in 1..Len(messages'),
                      messages'[i].run = messages'[j].run, NEW k \in i..j
               PROVE  messages'[k].run = messages'[i].run
    BY DEF Contiguous
  <2>2. CASE j \in 1..Len(messages)
    BY <1>1, <2>2 DEF HistoryInv, Contiguous
  <2>3. CASE j = Len(messages) + 1
    <3>1. CASE i = Len(messages) + 1 \/ k = Len(messages) + 1
      BY <1>1, <2>3, <3>1
    <3>2. CASE i \in 1..Len(messages) /\ k \in 1..Len(messages)
      <4>1. messages[i].run = r /\ messages[Len(messages)].run = r
        BY <1>1, <2>1, <2>3, <3>2
      <4>2. Len(messages) \in 1..Len(messages) /\ k \in i..Len(messages)
        BY <1>1, <3>2
      <4>3. messages[k].run = messages[i].run
        BY <3>2, <4>1, <4>2 DEF HistoryInv, Contiguous
      <4> QED BY <1>1, <3>2, <4>3
    <3> QED BY <1>1, <3>1, <3>2
  <2> QED BY <1>1, <2>2, <2>3
<1> QED BY <1>2, <1>3, <1>4 DEF HistoryInv

LEMMA HistoryStep ==
    ASSUME TypeOK, QuietInv, HistoryInv, [Next]_vars
    PROVE  HistoryInv'
<1> USE DEF TypeOK
<1>1. ASSUME NEW r \in Runs, Reject(r) \/ Enter(r) PROVE HistoryInv'
  BY <1>1, SameHistory DEF Reject, Enter, logVars, workVars
<1>2. ASSUME NEW r \in Runs, StartWorker(r) PROVE HistoryInv'
  <2>1. worker[r] = "none"
    BY <1>2 DEF StartWorker, CallerGoes, QuietInv, Lifecycle, NotStarted
  <2> QED BY <1>2, <2>1, SameHistory DEF StartWorker, logVars, Owing, NotYet
<1>3. ASSUME NEW r \in Runs, CallerStep(r), ~StartWorker(r) PROVE HistoryInv'
  <2>1. UNCHANGED <<messages, workVars>>
    BY <1>3
       DEF CallerStep, ClearStopFlag, CallerClearsDone, CallerSetsRunning, AcquireSlot,
           MakeAgentRaises, WaitDone, TakeStopped, TakeDone, GraceOk, GraceTimeout,
           ReleaseSlot, EncodeMessages, Persist, PersistFails, logVars
  <2> QED BY <2>1, SameHistory DEF workVars
<1>4. ASSUME NEW r \in Runs, WorkerClearsDone(r) \/ WorkerSetsRunning(r) PROVE HistoryInv'
  BY <1>4, SameHistory
     DEF WorkerClearsDone, WorkerSetsRunning, WorkerGoes, logVars, Owing, NotYet
<1>5. ASSUME NEW r \in Runs, Finish(r) \/ SetTerminal(r) \/ SignalDone(r) \/ Publish(r)
      PROVE  HistoryInv'
  BY <1>5, SameHistory
     DEF Finish, SetTerminal, SignalDone, Publish, WorkerGoes, logVars, Asking, Owing, NotYet
<1>6. ASSUME NEW r \in Runs, LoopExhausted(r) PROVE HistoryInv'
  <2>1. reply[r] # "error"
    BY <1>6 DEF LoopExhausted, LeaveLoop, WorkerGoes, QuietInv, ErrorIsFinal
  <2> QED BY <1>6, <2>1, SameHistory
          DEF LoopExhausted, LeaveLoop, WorkerGoes, logVars, Asking, Owing, NotYet
<1>7. ASSUME NEW r \in Runs, Checkpoint(r) PROVE FALSE
  BY <1>7 DEF Checkpoint, QuietInv, NoStop
<1>8. ASSUME NEW r \in Runs, Continue(r) \/ Answered(r) PROVE HistoryInv'
  BY <1>8, SameHistory DEF Continue, Answered, WorkerGoes, logVars, Asking, Owing, NotYet
<1>9. ASSUME NEW r \in Runs, Raises(r) PROVE HistoryInv'
  BY <1>9, SameHistory DEF Raises, WorkerGoes, logVars, Asking, Owing, NotYet
<1>10. ASSUME NEW r \in Runs, worker[r] \notin {"none", "exit"}
       PROVE  \A q \in Runs \ {r} : worker[q] \in {"none", "exit"}
  BY <1>10 DEF QuietInv, Lifecycle, OneCall, InFlight
<1>11. ASSUME NEW r \in Runs, AppendUser(r) PROVE HistoryInv'
  <2>1. /\ Append1(r, "user") /\ "user" \in Roles
        /\ worker[r] = "user" /\ worker' = [worker EXCEPT ![r] = "check"]
    BY <1>11 DEF AppendUser, WorkerGoes, Roles
  <2>2. \A q \in Runs : reply[q] = "error" => reply'[q] = "error"
    BY <1>11 DEF AppendUser, WorkerGoes
  <2>3. \A q \in Runs \ {r} : worker[q] \in {"none", "exit"}
    BY <1>10, <2>1
  <2> QED BY <2>1, <2>2, <2>3, OwnMessage DEF WorkerPc, Asking, NotYet, Owing
<1>12. ASSUME NEW r \in Runs, AppendCalls(r) PROVE HistoryInv'
  <2>1. /\ Append1(r, "calls") /\ "calls" \in Roles
        /\ worker[r] = "append" /\ worker' = [worker EXCEPT ![r] = "exec"]
    BY <1>12 DEF AppendCalls, WorkerGoes, Roles
  <2>2. \A q \in Runs : reply[q] = "error" => reply'[q] = "error"
    BY <1>12 DEF AppendCalls, WorkerGoes
  <2>3. \A q \in Runs \ {r} : worker[q] \in {"none", "exit"}
    BY <1>10, <2>1
  <2> QED BY <2>1, <2>2, <2>3, OwnMessage DEF WorkerPc, Asking, NotYet, Owing
<1>13. ASSUME NEW r \in Runs, AppendResults(r) PROVE HistoryInv'
  <2>1. /\ Append1(r, "results") /\ "results" \in Roles
        /\ worker[r] = "results" /\ worker' = [worker EXCEPT ![r] = "check"]
    BY <1>13 DEF AppendResults, WorkerGoes, Roles
  <2>2. \A q \in Runs : reply[q] = "error" => reply'[q] = "error"
    BY <1>13 DEF AppendResults, WorkerGoes
  <2>3. \A q \in Runs \ {r} : worker[q] \in {"none", "exit"}
    BY <1>10, <2>1
  <2> QED BY <2>1, <2>2, <2>3, OwnMessage DEF WorkerPc, Asking, NotYet, Owing
<1>14. ASSUME NEW r \in Runs, AppendAnswer(r) PROVE HistoryInv'
  <2>1. /\ Append1(r, "answer") /\ "answer" \in Roles
        /\ worker[r] = "append" /\ worker' = [worker EXCEPT ![r] = "finish"]
    BY <1>14 DEF AppendAnswer, WorkerGoes, Roles
  <2>2. \A q \in Runs : reply[q] = "error" => reply'[q] = "error"
    BY <1>14 DEF AppendAnswer, WorkerGoes, QuietInv, ErrorIsFinal
  <2>3. \A q \in Runs \ {r} : worker[q] \in {"none", "exit"}
    BY <1>10, <2>1
  <2> QED BY <2>1, <2>2, <2>3, OwnMessage DEF WorkerPc, Asking, NotYet, Owing
<1>15. ASSUME StopStep \/ (\E s \in Subagents : SubStep(s)) \/ UNCHANGED vars
       PROVE  HistoryInv'
  <2>1. UNCHANGED <<messages, workVars>>
    BY <1>15 DEF StopStep, StopRaisesFlag, StopSetsStatus, StopSetsDone, SubStep, SubAcquires,
                 SubTimesOut, SubReleases, vars, logVars
  <2> QED BY <2>1, SameHistory DEF workVars
<1> QED BY <1>1, <1>2, <1>3, <1>4, <1>5, <1>6, <1>7, <1>8, <1>9, <1>11, <1>12, <1>13, <1>14,
           <1>15
        DEF Next, WorkerStep

LEMMA QuietHistory ==
    ASSUME Serial, MaxStops = 0
    PROVE  Spec => [](TypeOK /\ QuietInv /\ HistoryInv)
<1>1. Init => QuietInv /\ HistoryInv
  BY DEF Init, QuietInv, NoStop, OneCall, InFlight, Lifecycle, NotStarted, ErrorIsFinal,
         HistoryInv, BatchesAnswered, TurnIsNewest, Contiguous, Asking
<1>2. TypeOK /\ QuietInv /\ HistoryInv /\ [Next]_vars => QuietInv' /\ HistoryInv'
  BY QuietStep, HistoryStep
<1> QED BY <1>1, <1>2, TypeCorrect, PTL DEF Spec

\* As long as the front end makes one call at a time and nobody stops one, every batch of
\* tool calls in the history is followed at once by its results, so that the model's API
\* accepts the history: only the batch being executed and the last batch of a run that
\* raised are open, whatever the pool, the number of turns and the failures.
THEOREM BatchesGetTheirResults ==
    ASSUME Serial, MaxStops = 0
    PROVE  Spec => []ToolCallsPaired
<1>1. TypeOK /\ QuietInv /\ HistoryInv => ToolCallsPaired
  BY DEF HistoryInv, BatchesAnswered, ToolCallsPaired, Owing
<1> QED BY <1>1, QuietHistory, PTL

\* Under the same conditions the messages of two runs never mix: a new question comes
\* only after everything the earlier run wrote.
THEOREM TurnsDoNotMix ==
    ASSUME Serial, MaxStops = 0
    PROVE  Spec => []TurnsContiguous
<1>1. TypeOK /\ QuietInv /\ HistoryInv => TurnsContiguous
  BY DEF HistoryInv, Contiguous, TurnsContiguous, Positions
<1> QED BY <1>1, QuietHistory, PTL

--------------------------------------------------------------------------------
(* RunProtocol implements SessionContract *)

LEMMA QuestionsFinite ==
    ASSUME NEW log \in Seq(Message)
    PROVE  /\ Len(log) \in Nat /\ IsFiniteSet(Questions(log))
           /\ Cardinality(Questions(log)) \in Nat
           /\ \A i : /\ IsFiniteSet({j \in Questions(log) : j <= i})
                     /\ UpTo(log, i) \in Nat /\ UpTo(log, i) <= Cardinality(Questions(log))
<1>1. Len(log) \in Nat
  BY LenProperties
<1>2. IsFiniteSet(1..Len(log))
  BY <1>1, FS_Interval
<1>3. IsFiniteSet(Questions(log))
  BY <1>2, FS_Subset DEF Questions
<1>4. ASSUME NEW i
      PROVE  /\ IsFiniteSet({j \in Questions(log) : j <= i})
             /\ UpTo(log, i) \in Nat /\ UpTo(log, i) <= Cardinality(Questions(log))
  <2>1. {j \in Questions(log) : j <= i} \in SUBSET Questions(log)
    OBVIOUS
  <2> QED BY <1>3, <2>1, FS_Subset, FS_CardinalityType DEF UpTo
<1> QED BY <1>1, <1>3, <1>4, FS_CardinalityType

(* A message that asks nothing leaves the order of the turns alone; a question *)
(* puts its run at the end.                                                    *)
LEMMA OrderOfAppend ==
    ASSUME NEW log \in Seq(Message), NEW m \in Message
    PROVE  TurnOrder(Append(log, m)) = IF m.role = "user" THEN Append(TurnOrder(log), m.run)
                                       ELSE TurnOrder(log)
<1> DEFINE longer == Append(log, m)
           end == Len(log) + 1
           count == Cardinality(Questions(log))
<1>1. /\ Len(log) \in Nat /\ longer \in Seq(Message) /\ Len(longer) = end /\ longer[end] = m
      /\ \A i \in 1..Len(log) : longer[i] = log[i]
  BY AppendProperties, LenProperties
<1>2. Questions(longer) = IF m.role = "user" THEN Questions(log) \cup {end} ELSE Questions(log)
  BY <1>1 DEF Questions
<1>3. /\ \A i \in Questions(log) : i \in 1..Len(log)
      /\ end \notin Questions(log) /\ IsFiniteSet(Questions(log)) /\ count \in Nat
  BY <1>1, QuestionsFinite DEF Questions
<1> HIDE DEF longer, end
<1>4. ASSUME NEW i \in Questions(log) PROVE UpTo(longer, i) = UpTo(log, i)
  <2>1. {j \in Questions(longer) : j <= i} = {j \in Questions(log) : j <= i}
    BY <1>1, <1>2, <1>3 DEF end
  <2> QED BY <2>1 DEF UpTo
<1>5. ASSUME NEW n \in 1..count PROVE Asker(longer, n) = Asker(log, n)
  <2>1. ASSUME m.role = "user" PROVE UpTo(longer, end) = count + 1
    <3>1. {j \in Questions(longer) : j <= end} = Questions(log) \cup {end}
      BY <1>1, <1>2, <1>3, <2>1 DEF end
    <3> QED BY <1>3, <3>1, FS_AddElement DEF UpTo
  <2>2. {j \in Questions(longer) : UpTo(longer, j) = n} = {j \in Questions(log) : UpTo(log, j) = n}
    BY <1>2, <1>3, <1>4, <2>1
  <2>3. {longer[i].run : i \in {j \in Questions(longer) : UpTo(longer, j) = n}}
        = {log[i].run : i \in {j \in Questions(log) : UpTo(log, j) = n}}
    BY <1>1, <1>3, <2>2
  <2> QED BY <2>3 DEF Asker
<1>6. CASE m.role # "user"
  <2>1. Cardinality(Questions(longer)) = count
    BY <1>2, <1>6
  <2>2. TurnOrder(longer) = TurnOrder(log)
    BY <1>5, <2>1 DEF TurnOrder
  <2> QED BY <1>6, <2>2 DEF longer
<1>7. CASE m.role = "user"
  <2>1. Cardinality(Questions(longer)) = count + 1
    BY <1>2, <1>3, <1>7, FS_AddElement
  <2>2. UpTo(longer, end) = count + 1
    <3>1. {j \in Questions(longer) : j <= end} = Questions(log) \cup {end}
      BY <1>1, <1>2, <1>3, <1>7 DEF end
    <3> QED BY <1>3, <3>1, FS_AddElement DEF UpTo
  <2>3. ASSUME NEW i \in Questions(log) PROVE UpTo(longer, i) # count + 1
    <3>1. UpTo(log, i) \in Nat /\ UpTo(log, i) <= count
      BY QuestionsFinite
    <3> QED BY <1>3, <1>4, <3>1
  <2>4. {j \in Questions(longer) : UpTo(longer, j) = count + 1} = {end}
    BY <1>2, <1>7, <2>2, <2>3
  <2>5. {longer[i].run : i \in {j \in Questions(longer) : UpTo(longer, j) = count + 1}} = {m.run}
    BY <1>1, <2>4
  <2>6. Asker(longer, count + 1) = m.run
    BY <2>5 DEF Asker
  <2>7. TurnOrder(longer) = [n \in 1..count + 1 |-> IF n = count + 1 THEN m.run ELSE Asker(log, n)]
    BY <1>3, <1>5, <2>1, <2>6 DEF TurnOrder
  <2> DEFINE S == {Asker(log, n) : n \in 1..count} \cup {m.run}
             next == [n \in 1..count + 1 |-> IF n = count + 1 THEN m.run ELSE Asker(log, n)]
  <2>8. /\ TurnOrder(log) \in Seq(S) /\ Len(TurnOrder(log)) = count
        /\ \A n \in 1..count : TurnOrder(log)[n] = Asker(log, n)
    BY <1>3 DEF TurnOrder
  <2>9. /\ next \in Seq(S) /\ Len(next) = count + 1
        /\ \A n \in 1..count + 1 : next[n] = IF n = count + 1 THEN m.run ELSE Asker(log, n)
    BY <1>3
  <2>10. m.run \in S
    OBVIOUS
  <2> HIDE DEF S, next
  <2>11. next = Append(TurnOrder(log), m.run)
    <3>1. /\ Append(TurnOrder(log), m.run) \in Seq(S)
          /\ Len(Append(TurnOrder(log), m.run)) = count + 1
          /\ Append(TurnOrder(log), m.run)[count + 1] = m.run
          /\ \A n \in 1..count : Append(TurnOrder(log), m.run)[n] = Asker(log, n)
      BY <1>3, <2>8, <2>10, AppendProperties
    <3> QED BY <1>3, <2>9, <3>1, SeqEqual
  <2> QED BY <1>7, <2>7, <2>11 DEF longer, next
<1> QED BY <1>6, <1>7 DEF longer

(* The turns in the order are those whose question is in the list, the newest last. *)
OrderKept == \A r \in Runs :
    /\ worker[r] \in NotYet => ~Promise!Among(r, TurnOrder(messages))
    /\ worker[r] \notin NotYet /\ InFlight(r) =>
          LET order == TurnOrder(messages) IN Len(order) > 0 /\ order[Len(order)] = r

(* What is encoded is all there is, and only a call that is over has handed out an answer. *)
SaveIsWhole == \A r \in Runs :
    /\ caller[r] = "commit" => encoded[r] = messages
    /\ outcome[r] = "answer" => caller[r] = "ended"

PromiseInv == OrderKept /\ SaveIsWhole

LEMMA OrderIsASeq ==
    ASSUME NEW log \in Seq(Message)
    PROVE  \E S : TurnOrder(log) \in Seq(S)
<1> DEFINE n == Cardinality(Questions(log))
<1>1. n \in Nat
  BY QuestionsFinite
<1>2. TurnOrder(log) \in Seq({Asker(log, i) : i \in 1..n})
  BY <1>1 DEF TurnOrder
<1> QED BY <1>2

(* Steps that neither ask, answer nor save. *)
LEMMA SameOrder ==
    ASSUME PromiseInv, UNCHANGED <<messages, store>>,
           \A r \in Runs : /\ outcome'[r] = "answer" <=> outcome[r] = "answer"
                           /\ outcome'[r] = "answer" => caller'[r] = "ended"
                           /\ caller'[r] = "commit" => encoded'[r] = messages
                           /\ worker'[r] \in NotYet => worker[r] \in NotYet
                           /\ worker'[r] \notin NotYet /\ InFlight(r)'
                                 => worker[r] \notin NotYet /\ InFlight(r)
    PROVE  PromiseInv' /\ UNCHANGED Promise!contractVars
<1>1. TurnOrder(messages)' = TurnOrder(messages) /\ TurnOrder(store)' = TurnOrder(store)
  OBVIOUS
<1>2. OrderKept'
  BY <1>1 DEF PromiseInv, OrderKept
<1>3. SaveIsWhole'
  BY DEF SaveIsWhole
<1>4. {r \in Runs : outcome'[r] = "answer"} = {r \in Runs : outcome[r] = "answer"}
  OBVIOUS
<1>5. UNCHANGED Promise!contractVars
  BY <1>1, <1>4 DEF Promise!contractVars
<1> QED BY <1>2, <1>3, <1>5 DEF PromiseInv

(* The only worker that is under way appends a message. *)
LEMMA OrderGrows ==
    ASSUME TypeOK, QuietInv, PromiseInv, NEW r \in Runs, NEW role \in Roles, Append1(r, role),
           UNCHANGED <<store, callVars>>, worker[r] \notin {"none", "exit"},
           role = "user" <=> worker[r] = "user",
           worker[r] # "user" => worker[r] \notin NotYet,
           worker'[r] \notin NotYet, \A q \in Runs \ {r} : worker'[q] = worker[q]
    PROVE  PromiseInv' /\ [Promise!ContractNext]_(Promise!contractVars)
<1> DEFINE m == [role |-> role, run |-> r]
           order == TurnOrder(messages)
<1>1. messages \in Seq(Message) /\ m \in Message /\ messages' = Append(messages, m)
  BY DEF TypeOK, Append1, Message
<1>2. TurnOrder(messages)' = IF role = "user" THEN Append(order, r) ELSE order
  BY <1>1, OrderOfAppend
<1>3. /\ InFlight(r) /\ caller[r] # "commit" /\ InFlight(r)' /\ caller' = caller
      /\ \A q \in Runs \ {r} : ~InFlight(q) /\ ~InFlight(q)'
  BY DEF QuietInv, Lifecycle, OneCall, InFlight, callVars
<1>4. PICK S : order \in Seq(S)
  BY <1>1, OrderIsASeq
<1>5. order \in Seq(S \cup {r})
  BY <1>4, SeqMonotonic
<1> HIDE DEF m, order
<1>6. /\ Len(order) \in Nat /\ Append(order, r) \in Seq(S \cup {r})
      /\ Len(Append(order, r)) = Len(order) + 1 /\ Append(order, r)[Len(order) + 1] = r
      /\ \A i \in 1..Len(order) : Append(order, r)[i] = order[i]
  BY <1>5, AppendProperties, LenProperties
<1>7. OrderKept'
  <2>1. ASSUME NEW q \in Runs, worker'[q] \in NotYet
        PROVE  ~Promise!Among(q, TurnOrder(messages)')
    <3>1. q # r /\ ~Promise!Among(q, order)
      BY <2>1 DEF PromiseInv, OrderKept, order
    <3> QED BY <1>2, <1>6, <3>1 DEF Promise!Among
  <2>2. LET after == TurnOrder(messages)' IN Len(after) > 0 /\ after[Len(after)] = r
    <3>1. CASE role = "user"
      BY <1>2, <1>6, <3>1
    <3>2. CASE role # "user"
      BY <1>2, <1>3, <3>2 DEF PromiseInv, OrderKept, order
    <3> QED BY <3>1, <3>2
  <2> QED BY <1>3, <2>1, <2>2 DEF OrderKept
<1>8. SaveIsWhole'
  BY <1>3 DEF PromiseInv, SaveIsWhole, callVars, InFlight
<1>9. TurnOrder(store)' = TurnOrder(store) /\ outcome' = outcome
  BY DEF callVars
<1>10. CASE role # "user"
  <2>1. UNCHANGED Promise!contractVars
    BY <1>2, <1>9, <1>10 DEF Promise!contractVars, order
  <2> QED BY <1>7, <1>8, <2>1 DEF PromiseInv
<1>11. CASE role = "user"
  <2>1. ~Promise!Among(r, order)
    BY <1>11 DEF PromiseInv, OrderKept, NotYet, order
  <2>2. Promise!Take(r)
    BY <1>2, <1>9, <1>11, <2>1 DEF Promise!Take, order
  <2> QED BY <1>7, <1>8, <2>2 DEF PromiseInv, Promise!ContractNext
<1> QED BY <1>10, <1>11

(* A save writes everything there is, and hands out an answer to the newest question. *)
LEMMA OrderIsSaved ==
    ASSUME TypeOK, DurableInv, QuietInv, PromiseInv, NEW r \in Runs, Persist(r)
    PROVE  PromiseInv' /\ [Promise!ContractNext]_(Promise!contractVars)
<1> DEFINE order == TurnOrder(messages)
           how == IF outcome[r] = "stopped" THEN "stopped" ELSE reply[r]
<1>1. /\ caller[r] = "commit" /\ caller' = [caller EXCEPT ![r] = "ended"]
      /\ outcome' = [outcome EXCEPT ![r] = how]
      /\ UNCHANGED <<messages, encoded, worker>>
      /\ store' = Committed(store, encoded[r], messages) /\ encoded[r] = messages
  BY DEF Persist, EndCall, CallerGoes, PromiseInv, SaveIsWhole, workVars
<1>2. store' = messages
  BY <1>1, CommittedIsRowsOrLive DEF DurableInv, RowsAreAPrefix, TypeOK
<1>3. TurnOrder(messages)' = order /\ TurnOrder(store)' = order
  BY <1>1, <1>2
<1>4. outcome[r] # "answer"
  BY <1>1 DEF PromiseInv, SaveIsWhole
<1>5. {q \in Runs : outcome'[q] = "answer"}
      = {q \in Runs : outcome[q] = "answer"} \cup (IF how = "answer" THEN {r} ELSE {})
  BY <1>1, <1>4 DEF TypeOK
<1>6. PromiseInv'
  <2>1. OrderKept'
    BY <1>1, <1>3 DEF PromiseInv, OrderKept, InFlight, TypeOK
  <2>2. SaveIsWhole'
    BY <1>1 DEF PromiseInv, SaveIsWhole, TypeOK
  <2> QED BY <2>1, <2>2 DEF PromiseInv
<1>7. CASE how # "answer"
  <2>1. Promise!Save
    BY <1>3, <1>5, <1>7 DEF Promise!Save
  <2> QED BY <1>6, <2>1 DEF Promise!ContractNext
<1>8. CASE how = "answer"
  <2>1. worker[r] = "exit"
    BY <1>1, <1>8 DEF DurableInv, SettlingIsFinal, Settling
  <2>2. Len(order) > 0 /\ order[Len(order)] = r
    BY <1>1, <2>1 DEF PromiseInv, OrderKept, InFlight, NotYet
  <2>3. Promise!SaveAndReply(r)
    BY <1>3, <1>5, <1>8, <2>2 DEF Promise!SaveAndReply
  <2> QED BY <1>6, <2>3 DEF Promise!ContractNext
<1> QED BY <1>7, <1>8

LEMMA PromiseStep ==
    ASSUME MaxStops = 0, TypeOK, DurableInv, QuietInv, PromiseInv, [Next]_vars
    PROVE  PromiseInv' /\ [Promise!ContractNext]_(Promise!contractVars)
<1> USE DEF TypeOK
<1> DEFINE Kept == PromiseInv' /\ [Promise!ContractNext]_(Promise!contractVars)
<1>1. SUFFICES Kept
  OBVIOUS
<1>2. ASSUME PromiseInv', UNCHANGED Promise!contractVars PROVE Kept
  BY <1>2
<1>3. /\ SaveIsWhole /\ Lifecycle /\ NoStop
  BY DEF PromiseInv, QuietInv
<1> HIDE DEF Kept
<1>4. ASSUME NEW r \in Runs, Reject(r) \/ Enter(r) PROVE Kept
  <2>1. CASE Reject(r)
    BY <1>2, <1>3, <2>1, SameOrder
       DEF Reject, EndCall, CallerGoes, InFlight, SaveIsWhole, logVars, workVars
  <2>2. CASE Enter(r)
    BY <1>2, <1>3, <2>2, SameOrder
       DEF Enter, CallerGoes, InFlight, SaveIsWhole, Lifecycle, NotStarted, NotYet, logVars,
           workVars
  <2> QED BY <1>4, <2>1, <2>2
<1>5. ASSUME NEW r \in Runs,
             \/ ClearStopFlag(r) \/ CallerClearsDone(r) \/ CallerSetsRunning(r)
             \/ AcquireSlot(r) \/ WaitDone(r) \/ TakeDone(r) \/ GraceOk(r) \/ ReleaseSlot(r)
      PROVE  Kept
  <2>1. PICK from \in CallerPc \ {"idle", "ended", "commit"},
             to \in CallerPc \ {"idle", "ended", "commit"} :
            /\ caller[r] = from /\ caller' = [caller EXCEPT ![r] = to]
            /\ UNCHANGED <<messages, store, outcome, encoded, worker>>
    BY <1>5
       DEF ClearStopFlag, CallerClearsDone, CallerSetsRunning, AcquireSlot, WaitDone, TakeDone,
           GraceOk, ReleaseSlot, CallerGoes, CallerPc, logVars, workVars
  <2> QED BY <1>2, <1>3, <2>1, SameOrder DEF SaveIsWhole, InFlight
<1>6. ASSUME NEW r \in Runs, MakeAgentRaises(r) \/ GraceTimeout(r) \/ PersistFails(r) PROVE Kept
  <2>1. PICK from \in CallerPc \ {"idle", "ended"}, how \in Outcomes \ {"answer"} :
            /\ caller[r] = from /\ caller' = [caller EXCEPT ![r] = "ended"]
            /\ outcome' = [outcome EXCEPT ![r] = how]
            /\ UNCHANGED <<messages, store, encoded, worker>>
    BY <1>6
       DEF MakeAgentRaises, GraceTimeout, PersistFails, EndCall, CallerGoes, CallerPc, Outcomes,
           logVars, workVars
  <2> QED BY <1>2, <1>3, <2>1, SameOrder DEF SaveIsWhole, InFlight
<1>7. ASSUME NEW r \in Runs, StartWorker(r) PROVE Kept
  <2>1. /\ caller[r] = "make" /\ caller' = [caller EXCEPT ![r] = "wait"]
        /\ worker[r] = "none" /\ worker' = [worker EXCEPT ![r] = "beginDone"]
        /\ UNCHANGED <<messages, store, outcome, encoded>>
    BY <1>3, <1>7 DEF StartWorker, CallerGoes, Lifecycle, NotStarted, logVars
  <2> QED BY <1>2, <1>3, <2>1, SameOrder DEF SaveIsWhole, InFlight, NotYet
<1>8. ASSUME NEW r \in Runs, EncodeMessages(r) PROVE Kept
  <2>1. /\ caller[r] = "encode" /\ caller' = [caller EXCEPT ![r] = "commit"]
        /\ encoded' = [encoded EXCEPT ![r] = messages]
        /\ UNCHANGED <<messages, store, outcome, worker>>
    BY <1>8 DEF EncodeMessages, CallerGoes, logVars, workVars
  <2> QED BY <1>2, <1>3, <2>1, SameOrder DEF SaveIsWhole, InFlight
<1>9. ASSUME NEW r \in Runs, TakeStopped(r) \/ Checkpoint(r) PROVE Kept
  BY <1>3, <1>9 DEF TakeStopped, Checkpoint, NoStop
<1>10. ASSUME NEW r \in Runs, Persist(r) PROVE Kept
  BY <1>10, OrderIsSaved DEF Kept
<1>11. ASSUME NEW r \in Runs,
              \/ WorkerClearsDone(r) \/ WorkerSetsRunning(r) \/ LoopExhausted(r) \/ Continue(r)
              \/ Answered(r) \/ Raises(r) \/ Finish(r) \/ SetTerminal(r) \/ SignalDone(r)
              \/ Publish(r)
       PROVE  Kept
  <2>1. PICK from \in WorkerPc, to \in WorkerPc :
            /\ worker[r] = from /\ worker' = [worker EXCEPT ![r] = to]
            /\ from \in NotYet <=> to \in NotYet
            /\ UNCHANGED <<messages, store, caller, outcome, encoded>>
    <3>1. CASE WorkerClearsDone(r) \/ WorkerSetsRunning(r) \/ LoopExhausted(r)
      BY <3>1 DEF WorkerClearsDone, WorkerSetsRunning, LoopExhausted, LeaveLoop, WorkerGoes,
                  WorkerPc, NotYet, logVars, callVars
    <3>2. CASE Continue(r) \/ Answered(r)
      BY <3>2 DEF Continue, Answered, WorkerGoes, WorkerPc, NotYet, logVars, callVars
    <3>3. CASE Raises(r)
      BY <3>3 DEF Raises, WorkerGoes, WorkerPc, NotYet, logVars, callVars
    <3>4. CASE Finish(r) \/ SetTerminal(r)
      BY <3>4 DEF Finish, SetTerminal, WorkerGoes, WorkerPc, NotYet, logVars, callVars
    <3>5. CASE SignalDone(r) \/ Publish(r)
      BY <3>5 DEF SignalDone, Publish, WorkerGoes, WorkerPc, NotYet, logVars, callVars
    <3> QED BY <1>11, <3>1, <3>2, <3>3, <3>4, <3>5
  <2> QED BY <1>2, <1>3, <2>1, SameOrder DEF SaveIsWhole, InFlight
<1>12. ASSUME NEW r \in Runs,
              AppendUser(r) \/ AppendCalls(r) \/ AppendResults(r) \/ AppendAnswer(r)
       PROVE  Kept
  <2>1. CASE AppendUser(r)
    BY <2>1, OrderGrows DEF Kept, AppendUser, WorkerGoes, NotYet, Roles
  <2>2. CASE AppendCalls(r)
    BY <2>2, OrderGrows DEF Kept, AppendCalls, WorkerGoes, NotYet, Roles
  <2>3. CASE AppendResults(r)
    BY <2>3, OrderGrows DEF Kept, AppendResults, WorkerGoes, NotYet, Roles
  <2>4. CASE AppendAnswer(r)
    BY <2>4, OrderGrows DEF Kept, AppendAnswer, WorkerGoes, NotYet, Roles
  <2> QED BY <1>12, <2>1, <2>2, <2>3, <2>4
<1>13. ASSUME StopStep \/ (\E s \in Subagents : SubStep(s)) \/ UNCHANGED vars PROVE Kept
  <2>1. UNCHANGED <<messages, store, callVars, worker>>
    BY <1>13 DEF StopStep, StopRaisesFlag, StopSetsStatus, StopSetsDone, SubStep, SubAcquires,
                 SubTimesOut, SubReleases, vars, logVars, workVars
  <2> QED BY <1>2, <1>3, <2>1, SameOrder DEF SaveIsWhole, InFlight, callVars
<1> QED BY <1>4, <1>5, <1>6, <1>7, <1>8, <1>9, <1>10, <1>11, <1>12, <1>13
        DEF Next, CallerStep, WorkerStep

LEMMA PromiseStart == Init => PromiseInv /\ Promise!ContractInit
<1>1. ASSUME Init PROVE PromiseInv /\ Promise!ContractInit
  <2>1. Questions(<<>>) = {}
    BY DEF Questions
  <2>2. TurnOrder(<<>>) = <<>>
    <3>1. Cardinality(Questions(<<>>)) = 0
      BY <2>1, FS_EmptySet
    <3>2. TurnOrder(<<>>) = [n \in 1..0 |-> Asker(<<>>, n)]
      BY <3>1 DEF TurnOrder
    <3>3. \E S : TurnOrder(<<>>) \in Seq(S)
      BY OrderIsASeq, EmptySeq
    <3>4. Len(TurnOrder(<<>>)) = 0
      BY <3>2
    <3> QED BY <3>3, <3>4, EmptySeq
  <2>3. PromiseInv
    BY <1>1, <2>2 DEF Init, PromiseInv, OrderKept, SaveIsWhole, NotYet, Promise!Among
  <2>4. Promise!ContractInit
    BY <1>1, <2>2 DEF Init, Promise!ContractInit
  <2> QED BY <2>3, <2>4
<1> QED BY <1>1

\* A conversation used by one caller at a time and not interrupted keeps the promise of
\* SessionContract, for any number of turns and whatever fails: every question is a turn
\* of its own, in order; a save writes all the turns there are; and an answer is handed
\* out only together with a save, for the newest turn.
THEOREM TurnsKeepThePromise ==
    ASSUME Serial, MaxStops = 0
    PROVE  Spec => ImplementsContract
<1>1. Init => PromiseInv /\ Promise!ContractInit
  BY PromiseStart
<1>2. TypeOK /\ DurableInv /\ QuietInv /\ PromiseInv /\ [Next]_vars
         => PromiseInv' /\ [Promise!ContractNext]_(Promise!contractVars)
  BY PromiseStep
<1>3. Spec => [](TypeOK /\ QuietInv)
  BY QuietHistory, PTL
<1>4. Spec => []DurableInv
  BY LogIsDurable
<1> QED BY <1>1, <1>2, <1>3, <1>4, PTL DEF Spec, ImplementsContract, Promise!Contract
================================================================================
