---------------------------- MODULE BackgroundProofs ---------------------------
(***************************************************************************)
(* Proofs about what goes on in threads of its own beside the turns of a   *)
(* conversation: its subagents (module Subagents) and the compression of   *)
(* its history (modules Compression and Window).                           *)
(*                                                                         *)
(* Subagents: the done event of a subagent and its status agree, and its   *)
(* end has a cause, for any number of subagents, slots, stops and          *)
(* deletions; turns and subagents share the slots of the pool.             *)
(*                                                                         *)
(* Compression: the context manager keeps every tool call together with    *)
(* its results, for any budget, number of recent groups, number of results *)
(* and length of the history.  A history that was put together from whole  *)
(* groups falls apart into exactly these groups again (GroupsOfFlatten);   *)
(* so the invariant says that live, the thread's copy and the snapshot are *)
(* put together from whole groups, and every rewriting takes whole groups  *)
(* away or puts some in front.  The operators of Window go through a       *)
(* history message by message; what they return for all histories follows  *)
(* by induction, which is done with least elements: a set of numbers that  *)
(* has a member has a least one (Least), and so a set of sequences that    *)
(* has the empty one and is closed under Append has them all               *)
(* (AllSequences).                                                         *)
(***************************************************************************)
EXTENDS Subagents, Compression, SequenceTheorems, FiniteSetTheorems, WellFoundedInduction, TLAPS

--------------------------------------------------------------------------------
(* Subagents *)

(* The types of what the threads of a subagent share. *)
ControlType ==
    /\ home \in [Owners -> {"new", "open", "closed"}]
    /\ status \in [Subs -> Final \cup {"none", "running"}]
    /\ done \in [Subs -> BOOLEAN] /\ stopFlag \in [Subs -> BOOLEAN]
    /\ result \in [Subs -> Outcomes] /\ outcome \in [Subs -> Outcomes]
    /\ worker \in [Subs -> WorkerPc]
    /\ waiter \in [Subs -> {"none", "waiting", "expired", "failing", "signalling", "replied"}]
    /\ stopper \in [Subs -> {"idle", "flagged", "writing", "signalling", "ended"}]

(* Nobody waits for, stops or finds a subagent that has not been spawned. *)
Spawned == \A s \in Subs :
    /\ status[s] = "none" <=> worker[s] = "new"
    /\ home[s] = "new" <=> worker[s] = "new"
    /\ stopper[s] # "idle" \/ waiter[s] # "none" => worker[s] # "new"

(* Whoever is about to set the event has seen or written a final status. *)
AboutToSignal == \A s \in Subs :
    \/ worker[s] \in {"refusing", "notifying", "signalling"}
    \/ waiter[s] = "signalling"
    \/ stopper[s] = "signalling"
    => status[s] \in Final

(* What the worker knows of the run of its task at each point. *)
OutcomeKnown == \A s \in Subs :
    /\ worker[s] \in {"new", "acquiring", "building", "dead", "running", "refused",
                      "refusing", "notifying"} => outcome[s] = "none"
    /\ worker[s] \in {"returned", "completing"} => outcome[s] # "none"
    /\ worker[s] \in {"raised", "failing"} => outcome[s] = "failed"

FlagFirst == \A s \in Subs : stopper[s] # "idle" => stopFlag[s]

(* complete() writes the result before the status, so it is there before the event. *)
ResultFirst == \A s \in Subs : status[s] = "completed" => result[s] # "none"

SubagentsInv ==
    /\ ControlType /\ Spawned /\ AboutToSignal /\ OutcomeKnown /\ FlagFirst
    /\ ResultFirst /\ DoneMeansDecided /\ EveryEndHasACause

LEMMA SubagentsStart == Init => SubagentsInv
BY SubagentsAssumption
   DEF Init, OfficeInit, SubagentsInv, ControlType, Spawned, AboutToSignal, OutcomeKnown,
       FlagFirst, ResultFirst, DoneMeansDecided, EveryEndHasACause, Final, Outcomes,
       WorkerPc

(* A step that leaves the subagents' contexts, threads and routes alone. *)
LEMMA QuietStep ==
    ASSUME SubagentsInv, UNCHANGED <<home, ctxVars, worker, outcome, ctlVars>>
    PROVE  SubagentsInv'
BY DEF SubagentsInv, ControlType, Spawned, AboutToSignal, OutcomeKnown, FlagFirst,
   ResultFirst, DoneMeansDecided, EveryEndHasACause, ctxVars, ctlVars

(* The steps of the thread of a subagent. *)
LEMMA WorkerStepKeepsIt ==
    ASSUME SubagentsInv, NEW s \in Subs, WorkerStep(s)
    PROVE  SubagentsInv'
<1> USE SubagentsAssumption
       DEF SubagentsInv, ControlType, Spawned, AboutToSignal, OutcomeKnown, FlagFirst,
           ResultFirst, DoneMeansDecided, EveryEndHasACause, Final, Outcomes, WorkerPc,
           SetStatus, SetDone, WorkerGoes, WaiterGoes, StopperGoes, ctxVars, workVars,
           ctlVars, officeVars
<1>1. CASE Acquire(s)
  BY <1>1 DEF Acquire
<1>2. CASE MakeAgent(s)
  BY <1>2 DEF MakeAgent
<1>3. CASE AcquireTimesOut(s)
  BY <1>3 DEF AcquireTimesOut
<1>4. CASE Refuse(s)
  BY <1>4 DEF Refuse
<1>5. CASE SignalRefusal(s)
  BY <1>5 DEF SignalRefusal
<1>6. CASE Notify(s)
  BY <1>6 DEF Notify, Accept
<1>7. ASSUME NEW what \in Final, Returns(s, what) PROVE SubagentsInv'
  BY <1>7 DEF Returns
<1>8. CASE Raises(s)
  BY <1>8 DEF Raises
<1>9. CASE LooksAtStatus(s)
  BY <1>9 DEF LooksAtStatus
<1>10. CASE Complete(s)
  BY <1>10 DEF Complete
<1>11. CASE Fail(s)
  BY <1>11 DEF Fail
<1>12. CASE Signal(s)
  BY <1>12 DEF Signal
<1>13. CASE Report(s)
  BY <1>13 DEF Report, Accept
<1>14. CASE Release(s)
  BY <1>14 DEF Release
<1> HIDE DEF SubagentsInv, ControlType
<1> QED BY <1>1, <1>2, <1>3, <1>4, <1>5, <1>6, <1>7, <1>8, <1>9, <1>10, <1>11, <1>12,
           <1>13, <1>14
           DEF WorkerStep

(* The steps of the delegate call. *)
LEMMA WaiterStepKeepsIt ==
    ASSUME SubagentsInv, NEW s \in Subs, WaiterStep(s)
    PROVE  SubagentsInv'
<1> USE SubagentsAssumption
       DEF SubagentsInv, ControlType, Spawned, AboutToSignal, OutcomeKnown, FlagFirst,
           ResultFirst, DoneMeansDecided, EveryEndHasACause, Final, Outcomes, WorkerPc,
           SetStatus, SetDone, WorkerGoes, WaiterGoes, StopperGoes, ctxVars, workVars,
           ctlVars, officeVars
<1>1. CASE WaitEnds(s)
  BY <1>1 DEF WaitEnds
<1>2. CASE WaitExpires(s)
  BY <1>2 DEF WaitExpires
<1>3. CASE StillRunning(s)
  BY <1>3 DEF StillRunning
<1>4. CASE WaiterFails(s)
  BY <1>4 DEF WaiterFails
<1>5. CASE WaiterSignals(s)
  BY <1>5 DEF WaiterSignals
<1> QED BY <1>1, <1>2, <1>3, <1>4, <1>5 DEF WaiterStep

(* The steps of the stopping thread. *)
LEMMA StopperStepKeepsIt ==
    ASSUME SubagentsInv, NEW s \in Subs, StopperStep(s)
    PROVE  SubagentsInv'
<1> USE SubagentsAssumption
       DEF SubagentsInv, ControlType, Spawned, AboutToSignal, OutcomeKnown, FlagFirst,
           ResultFirst, DoneMeansDecided, EveryEndHasACause, Final, Outcomes, WorkerPc,
           SetStatus, SetDone, WorkerGoes, WaiterGoes, StopperGoes, ctxVars, workVars,
           ctlVars, officeVars
<1>1. CASE StopLooks(s)
  BY <1>1 DEF StopLooks
<1>2. CASE StopWrites(s)
  BY <1>2 DEF StopWrites
<1>3. CASE StopSignals(s)
  BY <1>3 DEF StopSignals
<1> QED BY <1>1, <1>2, <1>3 DEF StopperStep

LEMMA SubagentsStepKeepsIt == SubagentsInv /\ [Next]_vars => SubagentsInv'
<1> SUFFICES ASSUME SubagentsInv, [Next]_vars PROVE SubagentsInv'
  OBVIOUS
<1>1. CASE Create
  BY <1>1, SubagentsAssumption
     DEF Create, Register, Moves, SubagentsInv, ControlType, Spawned, AboutToSignal,
         OutcomeKnown, FlagFirst, ResultFirst, DoneMeansDecided, EveryEndHasACause,
         ctxVars, workVars, ctlVars
<1>2. CASE TurnTakes \/ TurnGives
  BY <1>2, QuietStep DEF TurnTakes, TurnGives, officeVars
<1>3. CASE Carry
  BY <1>3, QuietStep DEF Carry, OfficeStep, Deliver, Return, workVars
<1>4. ASSUME NEW s \in Subs, Spawn(s) PROVE SubagentsInv'
  BY <1>4, SubagentsAssumption
     DEF Spawn, Register, Moves, SetStatus, WorkerGoes, SubagentsInv, ControlType,
         Spawned, AboutToSignal, OutcomeKnown, FlagFirst, ResultFirst, DoneMeansDecided,
         EveryEndHasACause, Final, WorkerPc
<1>5. ASSUME NEW s \in Subs, AcquireRaises(s) PROVE SubagentsInv'
  BY <1>5
     DEF AcquireRaises, WorkerGoes, SubagentsInv, ControlType, Spawned, AboutToSignal,
         OutcomeKnown, FlagFirst, ResultFirst, DoneMeansDecided, EveryEndHasACause,
         WorkerPc, officeVars, ctxVars, ctlVars
<1>6. ASSUME NEW s \in Subs, WorkerStep(s) PROVE SubagentsInv'
  BY <1>6, WorkerStepKeepsIt
<1>7. ASSUME NEW s \in Subs, WaiterStep(s) PROVE SubagentsInv'
  BY <1>7, WaiterStepKeepsIt
<1>8. ASSUME NEW s \in Subs, StopRequested(s) PROVE SubagentsInv'
  BY <1>8, SubagentsAssumption
     DEF StopRequested, StopperGoes, SubagentsInv, ControlType, Spawned, AboutToSignal,
         OutcomeKnown, FlagFirst, ResultFirst, DoneMeansDecided, EveryEndHasACause,
         officeVars, workVars
<1>9. ASSUME NEW s \in Subs, StopperStep(s) PROVE SubagentsInv'
  BY <1>9, StopperStepKeepsIt
<1>10. ASSUME NEW o \in Owners, Delete(o) PROVE SubagentsInv'
  BY <1>10, SubagentsAssumption
     DEF Delete, Unregister, Moves, SubagentsInv, ControlType, Spawned, AboutToSignal,
         OutcomeKnown, FlagFirst, ResultFirst, DoneMeansDecided, EveryEndHasACause,
         ctxVars, workVars, ctlVars
<1>11. CASE UNCHANGED vars
  BY <1>11, QuietStep DEF vars, officeVars, workVars
<1> QED BY <1>1, <1>2, <1>3, <1>4, <1>5, <1>6, <1>7, <1>8, <1>9, <1>10, <1>11 DEF Next

(* Whoever wakes on the done event of a subagent (AgentContext.wait) finds a final *)
(* status, and a result if that status is COMPLETED.                               *)
THEOREM WakingIsSafe == Spec => []DoneMeansDecided
<1>1. Init => SubagentsInv
  BY SubagentsStart
<1>2. SubagentsInv /\ [Next]_vars => SubagentsInv'
  BY SubagentsStepKeepsIt
<1>3. SubagentsInv => DoneMeansDecided
  BY DEF SubagentsInv
<1> QED BY <1>1, <1>2, <1>3, PTL DEF Spec

(* A subagent ends stopped only if somebody stopped it, and failed only if it did  *)
(* fail, was refused a slot (AgentManager._run), or was given up by its waiter.    *)
THEOREM EndsAreCaused == Spec => []EveryEndHasACause
<1>1. Init => SubagentsInv
  BY SubagentsStart
<1>2. SubagentsInv /\ [Next]_vars => SubagentsInv'
  BY SubagentsStepKeepsIt
<1>3. SubagentsInv => EveryEndHasACause
  BY DEF SubagentsInv
<1> QED BY <1>1, <1>2, <1>3, PTL DEF Spec

(* Letters of subagents. *)
MailType == moving \subseteq Reports /\ held \subseteq Reports /\ returned \subseteq Reports /\ taken = {}

LEMMA MailStep ==
    ASSUME SubagentsInv, MailType, [Next]_vars
    PROVE  MailType'
<1>1. ASSUME NEW s \in Subs, NEW type \in {"result", "notify"}, Accept(Letter(type, s, Parent, s)) PROVE MailType'
  <2>1. Letter(type, s, Parent, s) \in Reports
    BY SubagentsAssumption DEF Letter, Reports
  <2> QED BY <1>1, <2>1 DEF Accept, MailType
<1>2. CASE Carry
  <2>1. PICK l \in moving : Deliver(l) \/ Return(l)
    BY <1>2 DEF Carry, OfficeStep
  <2>2. l \in Reports
    BY DEF MailType
  <2>3. Nack(l) \in Reports
    BY <2>2 DEF Nack, Letter, Reports
  <2> QED BY <2>1, <2>2, <2>3 DEF Deliver, Return, MailType
<1>3. ASSUME UNCHANGED letterVars PROVE MailType'
  BY <1>3 DEF letterVars, MailType
<1>4. CASE Create \/ \E s \in Subs : Spawn(s)
  BY <1>3, <1>4 DEF Create, Spawn, Register
<1>5. CASE \E o \in Owners : Delete(o)
  BY <1>3, <1>5 DEF Delete, Unregister
<1>6. ASSUME NEW s \in Subs, WorkerStep(s) PROVE MailType'
  <2>1. CASE Notify(s) \/ Report(s)
    BY <1>1, <2>1 DEF Notify, Report
  <2>2. CASE ~(Notify(s) \/ Report(s))
    BY <1>3, <1>6, <2>2
       DEF WorkerStep, Acquire, MakeAgent, AcquireTimesOut, Refuse, SignalRefusal, Returns, Raises,
           LooksAtStatus, Complete, Fail, Signal, Release, officeVars
  <2> QED BY <2>1, <2>2
<1>7. ASSUME NEW s \in Subs, AcquireRaises(s) \/ WaiterStep(s) \/ StopRequested(s) \/ StopperStep(s)
      PROVE  MailType'
  BY <1>3, <1>7
     DEF AcquireRaises, WaiterStep, WaitEnds, WaitExpires, StillRunning, WaiterFails, WaiterSignals,
         StopRequested, StopperStep, StopLooks, StopWrites, StopSignals, officeVars
<1>8. CASE TurnTakes \/ TurnGives \/ UNCHANGED vars
  BY <1>3, <1>8 DEF TurnTakes, TurnGives, vars, officeVars
<1> QED BY <1>2, <1>4, <1>5, <1>6, <1>7, <1>8 DEF Next

(* The slots that turns and subagents hold together. *)
Holders == {s \in Subs : HoldsSlot(s)}
SlotType == turns \in Nat /\ ActiveSlots <= MaxWorkers

LEMMA HoldersCounted == IsFiniteSet(Holders) /\ Cardinality(Holders) \in Nat /\ ActiveSlots = turns + Cardinality(Holders)
<1>1. IsFiniteSet(Subs) /\ Holders \in SUBSET Subs
  BY SubagentsAssumption DEF Holders
<1>2. IsFiniteSet(Holders)
  BY <1>1, FS_Subset
<1> QED BY <1>2, FS_CardinalityType DEF ActiveSlots, Holders

LEMMA FewerHold ==
    ASSUME SlotType, Holders' \subseteq Holders, turns' \in Nat, turns' <= turns
    PROVE  SlotType'
<1>1. PICK H, G : H = Holders /\ G = Holders'
  OBVIOUS
<1>2. IsFiniteSet(H) /\ Cardinality(H) \in Nat /\ turns \in Nat /\ turns + Cardinality(H) <= MaxWorkers /\ G \in SUBSET H
  BY <1>1, HoldersCounted DEF SlotType
<1>3. Cardinality(G) <= Cardinality(H) /\ Cardinality(G) \in Nat
  BY <1>2, FS_Subset, FS_CardinalityType
<1>4. ActiveSlots' = turns' + Cardinality(G)
  BY <1>1 DEF ActiveSlots, Holders
<1> QED BY <1>2, <1>3, <1>4, SubagentsAssumption DEF SlotType

LEMMA SlotStep ==
    ASSUME SubagentsInv, SlotType, [Next]_vars
    PROVE  SlotType'
<1>1. /\ turns \in Nat /\ MaxWorkers \in Nat /\ worker \in [Subs -> WorkerPc]
      /\ Cardinality(Holders) \in Nat /\ ActiveSlots = turns + Cardinality(Holders) /\ IsFiniteSet(Holders)
  BY HoldersCounted, SubagentsAssumption DEF SlotType, SubagentsInv, ControlType
<1>2. ASSUME UNCHANGED <<worker, turns>> PROVE SlotType'
  BY <1>2 DEF SlotType, ActiveSlots, HoldsSlot
<1>3. ASSUME NEW s \in Subs, NEW from, NEW to, WorkerGoes(s, from, to), UNCHANGED turns,
             to \in {"building", "running", "returned", "raised", "completing", "failing", "signalling",
                     "reporting", "releasing"} =>
                 from \in {"building", "running", "returned", "raised", "completing", "failing", "signalling",
                           "reporting", "releasing"}
      PROVE  SlotType'
  <2>1. worker[s] = from /\ worker'[s] = to /\ \A r \in Subs : r # s => worker'[r] = worker[r]
    BY <1>1, <1>3 DEF WorkerGoes
  <2>2. Holders' \subseteq Holders
    BY <1>3, <2>1 DEF Holders, HoldsSlot
  <2> QED BY <1>1, <1>3, <2>2, FewerHold
<1>4. ASSUME NEW s \in Subs, Acquire(s) PROVE SlotType'
  <2>1. /\ worker[s] = "acquiring" /\ worker' = [worker EXCEPT ![s] = "building"] /\ turns' = turns
        /\ ActiveSlots < MaxWorkers
    BY <1>4 DEF Acquire, WorkerGoes
  <2>2. PICK H : H = Holders
    OBVIOUS
  <2>3. Holders' = H \cup {s} /\ s \notin H
    BY <1>1, <2>1, <2>2 DEF Holders, HoldsSlot
  <2>4. Cardinality(H \cup {s}) = Cardinality(H) + 1
    BY <1>1, <2>2, <2>3, FS_AddElement
  <2>5. ActiveSlots' = turns + Cardinality(H \cup {s})
    BY <2>1, <2>3 DEF ActiveSlots, Holders
  <2> QED BY <1>1, <2>1, <2>2, <2>4, <2>5 DEF SlotType
<1>5. ASSUME NEW s \in Subs, Spawn(s) \/ AcquireRaises(s) PROVE SlotType'
  BY <1>3, <1>5 DEF Spawn, AcquireRaises
<1>6. ASSUME NEW s \in Subs, WorkerStep(s) PROVE SlotType'
  <2>1. CASE LooksAtStatus(s)
    <3>1. PICK from, to : /\ WorkerGoes(s, from, to) /\ from \in {"returned", "raised"}
                          /\ to \in {"reporting", "completing", "failing"}
      BY <2>1 DEF LooksAtStatus, WorkerGoes
    <3> QED BY <1>3, <2>1, <3>1 DEF LooksAtStatus
  <2>2. CASE ~LooksAtStatus(s) /\ ~Acquire(s)
    BY <1>3, <1>6, <2>2
       DEF WorkerStep, MakeAgent, AcquireTimesOut, Refuse, SignalRefusal, Notify, Returns, Raises,
           Complete, Fail, Signal, Report, Release
  <2> QED BY <1>4, <2>1, <2>2
<1>7. CASE Create \/ Carry \/ \E o \in Owners : Delete(o)
  BY <1>2, <1>7 DEF Create, Carry, Delete, workVars
<1>8. ASSUME NEW s \in Subs, WaiterStep(s) \/ StopRequested(s) \/ StopperStep(s) PROVE SlotType'
  BY <1>2, <1>8
     DEF WaiterStep, WaitEnds, WaitExpires, StillRunning, WaiterFails, WaiterSignals,
         StopRequested, StopperStep, StopLooks, StopWrites, StopSignals, workVars
<1>9. CASE TurnTakes
  <2>1. worker' = worker /\ turns' = turns + 1 /\ ActiveSlots < MaxWorkers
    BY <1>9 DEF TurnTakes
  <2>2. ActiveSlots' = turns' + Cardinality(Holders)
    BY <2>1 DEF ActiveSlots, Holders, HoldsSlot
  <2> QED BY <1>1, <2>1, <2>2 DEF SlotType
<1>10. CASE TurnGives
  <2>1. worker' = worker /\ turns' = turns - 1 /\ turns > 0
    BY <1>10 DEF TurnGives
  <2>2. Holders' \subseteq Holders
    BY <2>1 DEF Holders, HoldsSlot
  <2> QED BY <1>1, <2>1, <2>2, FewerHold
<1>11. CASE UNCHANGED vars
  BY <1>2, <1>11 DEF vars, workVars
<1> QED BY <1>5, <1>6, <1>7, <1>8, <1>9, <1>10, <1>11 DEF Next

(* Statuses, threads and letters are of their kinds, nobody takes a report out of its box, and turns *)
(* and subagents together never hold more slots than the pool has (AgentPool, AgentManager._run).     *)
THEOREM SubagentsTypeCorrect == Spec => []TypeOK
<1>1. Init => SubagentsInv /\ MailType /\ SlotType
  <2> SUFFICES ASSUME Init PROVE MailType /\ SlotType
    BY SubagentsStart
  <2>1. Holders = {} /\ turns = 0
    BY DEF Init, Holders, HoldsSlot
  <2>2. ActiveSlots = 0
    BY <2>1, FS_EmptySet DEF ActiveSlots, Holders
  <2> QED BY <2>1, <2>2, SubagentsAssumption DEF Init, OfficeInit, MailType, SlotType
<1>2. SubagentsInv /\ MailType /\ SlotType /\ [Next]_vars => (SubagentsInv /\ MailType /\ SlotType)'
  BY SubagentsStepKeepsIt, MailStep, SlotStep
<1>3. SubagentsInv /\ MailType /\ SlotType => TypeOK
  BY DEF SubagentsInv, ControlType, MailType, SlotType, TypeOK
<1> QED BY <1>1, <1>2, <1>3, PTL DEF Spec

--------------------------------------------------------------------------------
(* Induction *)

(* A set of natural numbers that has a member has a least one. *)
LEMMA Least ==
    ASSUME NEW T \in SUBSET Nat, T # {}
    PROVE  \E x \in T : \A y \in T : x <= y
<1> DEFINE R == OpToRel(<, Nat)
<1>1. IsWellFoundedOn(R, Nat)
  BY NatLessThanWellFounded, Zenon
<1>2. PICK x \in T : \A y \in T : <<y, x>> \notin R
  BY <1>1, WFMin, Zenon
<1>3. \A y \in T : ~(y < x)
  BY <1>2 DEF OpToRel
<1> QED BY <1>3

(* A set of sequences that has the empty one, and each one more element, has all. *)
LEMMA AllSequences ==
    ASSUME NEW S, NEW T \in SUBSET Seq(S), <<>> \in T,
           \A s \in T : \A e \in S : Append(s, e) \in T
    PROVE  T = Seq(S)
<1>1. SUFFICES ASSUME NEW u \in Seq(S), u \notin T PROVE FALSE
  OBVIOUS
<1> DEFINE Sizes == {Len(s) : s \in Seq(S) \ T}
<1>2. Sizes \in SUBSET Nat /\ Sizes # {}
  <2>1. \A s \in Seq(S) : Len(s) \in Nat
    BY LenProperties
  <2>2. Len(u) \in Sizes
    BY <1>1
  <2> QED BY <2>1, <2>2
<1> HIDE DEF Sizes
<1>3. PICK n \in Sizes : \A k \in Sizes : n <= k
  BY <1>2, Least
<1>4. PICK s \in Seq(S) \ T : n = Len(s)
  BY <1>3 DEF Sizes
<1>5. PICK r \in Seq(S), e \in S : s = Append(r, e)
  BY <1>4, SequenceEmptyOrAppend
<1>6. r \notin T
  BY <1>4, <1>5
<1>7. Len(r) \in Sizes
  BY <1>5, <1>6 DEF Sizes
<1>8. Len(s) = Len(r) + 1 /\ Len(r) \in Nat
  BY <1>5, AppendProperties, LenProperties
<1> QED BY <1>3, <1>4, <1>7, <1>8

(* A function that is defined by recursion on a bounded number exists. *)
Recursive(f, S, n, b, d) ==
    f \in [0..n -> S] /\ f[0] = b /\ \A i \in 1..n : f[i] = d[<<f[i - 1], i>>]

LEMMA Recursion ==
    ASSUME NEW S, NEW n \in Nat, NEW b \in S, NEW d \in [S \X (1..n) -> S]
    PROVE  \E f : Recursive(f, S, n, b, d)
<1> DEFINE Made(f, k) == f[0] = b /\ \A i \in 1..k : f[i] = d[<<f[i - 1], i>>]
           T == {k \in 0..n : ~ \E f \in [0..k -> S] : Made(f, k)}
<1>1. SUFFICES ASSUME T # {} PROVE FALSE
  <2>1. n \in 0..n
    OBVIOUS
  <2>2. n \notin T => \E f \in [0..n -> S] : Made(f, n)
    BY <2>1
  <2> QED BY <2>2 DEF Recursive
<1>2. PICK k \in T : \A j \in T : k <= j
  <2>1. T \in SUBSET Nat
    OBVIOUS
  <2> HIDE DEF T
  <2> QED BY <1>1, <2>1, Least
<1>3. CASE k = 0
  <2>1. [i \in 0..0 |-> b] \in [0..0 -> S] /\ Made([i \in 0..0 |-> b], 0)
    OBVIOUS
  <2> QED BY <1>2, <1>3, <2>1
<1>4. CASE k # 0
  <2>1. k - 1 \in 0..n /\ k - 1 \notin T
    BY <1>2, <1>4
  <2>2. PICK f \in [0..k - 1 -> S] : Made(f, k - 1)
    BY <2>1
  <2> DEFINE g == [i \in 0..k |-> IF i = k THEN d[<<f[k - 1], k>>] ELSE f[i]]
  <2>3. <<f[k - 1], k>> \in S \X (1..n)
    BY <1>2, <1>4, <2>2
  <2>4. g \in [0..k -> S]
    BY <1>2, <1>4, <2>2, <2>3
  <2>5. \A i \in 0..k : g[i] = IF i = k THEN d[<<f[k - 1], k>>] ELSE f[i]
    OBVIOUS
  <2> HIDE DEF g
  <2>6. g[0] = b
    BY <1>2, <1>4, <2>2, <2>5
  <2>7. ASSUME NEW i \in 1..k PROVE g[i] = d[<<g[i - 1], i>>]
    <3>1. CASE i = k
      BY <1>2, <1>4, <2>5, <3>1
    <3>2. CASE i # k
      BY <1>2, <1>4, <2>2, <2>5, <3>2
    <3> QED BY <3>1, <3>2
  <2> QED BY <1>2, <2>4, <2>6, <2>7
<1> QED BY <1>3, <1>4

(* Two functions with the same recursion agree as far as both go. *)
SameStep(f, g, n) == f[0] = g[0] /\ \A i \in 1..n : f[i - 1] = g[i - 1] => f[i] = g[i]
Agree(f, g, n) == \A i \in 0..n : f[i] = g[i]

LEMMA SameRecursion ==
    ASSUME NEW n \in Nat, NEW f, NEW g, SameStep(f, g, n)
    PROVE  Agree(f, g, n)
<1> DEFINE T == {i \in 0..n : f[i] # g[i]}
<1>1. SUFFICES ASSUME T # {} PROVE FALSE
  BY DEF Agree
<1>2. PICK k \in T : \A j \in T : k <= j
  <2>1. T \in SUBSET Nat
    OBVIOUS
  <2> HIDE DEF T
  <2> QED BY <1>1, <2>1, Least
<1>3. k \in 1..n /\ k - 1 \in 0..n /\ k - 1 \notin T
  BY <1>2 DEF SameStep
<1> QED BY <1>2, <1>3 DEF SameStep

--------------------------------------------------------------------------------
(* The groups of a history *)

Histories == Seq(Messages)
Groupings == [closed : Seq(Histories), open : Histories]
NoGroups == [closed |-> <<>>, open |-> <<>>]

(* What _group_messages has after each message of a history. *)
GroupsUpTo(h, f) == f[0] = NoGroups /\ \A i \in 1..Len(h) : f[i] = GroupNext(f[i - 1], h[i])

LEMMA GroupingTypes ==
    ASSUME NEW acc \in Groupings
    PROVE  /\ Closed(acc) \in Seq(Histories)
           /\ \A m \in Messages : GroupNext(acc, m) \in Groupings
<1>1. Closed(acc) \in Seq(Histories)
  BY AppendProperties DEF Groupings, Closed
<1>2. ASSUME NEW m \in Messages PROVE GroupNext(acc, m) \in Groupings
  <2>1. <<m>> \in Histories
    BY DEF Histories
  <2>2. /\ Append(Closed(acc), <<m>>) \in Seq(Histories)
        /\ Append(acc.open, m) \in Histories
    BY <1>1, <2>1, AppendProperties DEF Groupings, Histories
  <2>3. CASE m.role = "tool"
    BY <2>2, <2>3 DEF Groupings, GroupNext
  <2>4. CASE m.role = "calls"
    BY <1>1, <2>1, <2>4 DEF Groupings, GroupNext
  <2>5. CASE m.role \notin {"tool", "calls"}
    BY <2>2, <2>5, EmptySeq DEF Groupings, GroupNext, Histories
  <2> QED BY <2>3, <2>4, <2>5
<1> QED BY <1>1, <1>2

LEMMA GroupedUpTo ==
    ASSUME NEW h \in Histories
    PROVE  \E f \in [0..Len(h) -> Groupings] : GroupsUpTo(h, f) /\ Grouped(h) = f[Len(h)]
<1> DEFINE n == Len(h)
           d == [p \in Groupings \X (1..n) |-> GroupNext(p[1], h[p[2]])]
           stepped(f) == [i \in 0..n |-> IF i = 0 THEN NoGroups ELSE GroupNext(f[i - 1], h[i])]
           upTo == CHOOSE f : f = stepped(f)
<1>1. n \in Nat /\ \A i \in 1..n : h[i] \in Messages
  BY LenProperties, ElementOfSeq DEF Histories
<1>2. NoGroups \in Groupings
  BY EmptySeq DEF NoGroups, Groupings, Histories
<1>3. d \in [Groupings \X (1..n) -> Groupings]
  BY <1>1, GroupingTypes
<1>4. PICK f : Recursive(f, Groupings, n, NoGroups, d)
  <2> HIDE DEF d, n
  <2> QED BY <1>1, <1>2, <1>3, Recursion
<1>5. /\ f \in [0..n -> Groupings] /\ f[0] = NoGroups
      /\ \A i \in 1..n : f[i] = GroupNext(f[i - 1], h[i])
  <2>1. /\ f \in [0..n -> Groupings] /\ f[0] = NoGroups
        /\ \A i \in 1..n : f[i] = d[<<f[i - 1], i>>]
    <3> HIDE DEF d, n
    <3> QED BY <1>4 DEF Recursive
  <2>2. ASSUME NEW i \in 1..n PROVE d[<<f[i - 1], i>>] = GroupNext(f[i - 1], h[i])
    BY <1>1, <2>1
  <2> QED BY <2>1, <2>2
<1>6. f = stepped(f)
  BY <1>1, <1>5
<1>7. upTo = stepped(upTo)
  BY <1>6
<1>8. Grouped(h) = upTo[n]
  BY DEF Grouped, NoGroups
<1> HIDE DEF upTo
<1>9. upTo[0] = NoGroups /\ \A i \in 1..n : upTo[i] = GroupNext(upTo[i - 1], h[i])
  BY <1>1, <1>7
<1>10. \A i \in 0..n : upTo[i] = f[i]
  <2> HIDE DEF n
  <2>1. SameStep(upTo, f, n)
    BY <1>5, <1>9 DEF SameStep
  <2>2. n \in Nat
    BY <1>1
  <2>3. Agree(upTo, f, n)
    BY <2>1, <2>2, SameRecursion
  <2> QED BY <2>3 DEF Agree
<1> QED BY <1>1, <1>5, <1>8, <1>10 DEF GroupsUpTo

(* One message more. *)
LEMMA GroupedAppend ==
    ASSUME NEW h \in Histories, NEW m \in Messages
    PROVE  /\ Grouped(h) \in Groupings
           /\ Grouped(Append(h, m)) = GroupNext(Grouped(h), m)
<1> DEFINE longer == Append(h, m)
           n == Len(h)
<1>1. /\ longer \in Histories /\ n \in Nat /\ Len(longer) = n + 1 /\ longer[n + 1] = m
      /\ \A i \in 1..n : longer[i] = h[i]
  BY AppendProperties, LenProperties DEF Histories
<1>2. PICK f \in [0..n -> Groupings] : GroupsUpTo(h, f) /\ Grouped(h) = f[n]
  BY GroupedUpTo
<1> HIDE DEF longer
<1>3. PICK g \in [0..n + 1 -> Groupings] : GroupsUpTo(longer, g) /\ Grouped(longer) = g[n + 1]
  BY <1>1, GroupedUpTo
<1>4. \A i \in 0..n : f[i] = g[i]
  <2> HIDE DEF n
  <2>1. SameStep(f, g, n)
    BY <1>1, <1>2, <1>3 DEF GroupsUpTo, SameStep, n
  <2>2. n \in Nat
    BY <1>1
  <2>3. Agree(f, g, n)
    BY <2>1, <2>2, SameRecursion
  <2> QED BY <2>3 DEF Agree
<1>5. g[n + 1] = GroupNext(g[n], m)
  BY <1>1, <1>3 DEF GroupsUpTo
<1> QED BY <1>1, <1>2, <1>3, <1>4, <1>5 DEF longer

LEMMA GroupedEmpty == Grouped(<<>>) = NoGroups /\ Groups(<<>>) = <<>>
<1>1. <<>> \in Histories /\ Len(<<>>) = 0
  BY EmptySeq DEF Histories
<1>2. Grouped(<<>>) = NoGroups
  BY <1>1, GroupedUpTo DEF GroupsUpTo
<1> QED BY <1>2 DEF Groups, Closed, NoGroups

--------------------------------------------------------------------------------
(* Histories put together from groups *)

(* What FlattenSeq has after each group. *)
Joined(s, g) == s \o g
FlatUpTo(gs, f) == f[0] = <<>> /\ \A i \in 1..Len(gs) : f[i] = Joined(f[i - 1], gs[i])

LEMMA Flattened ==
    ASSUME NEW gs \in Seq(Histories)
    PROVE  \E f \in [0..Len(gs) -> Histories] : FlatUpTo(gs, f) /\ FlattenSeq(gs) = f[Len(gs)]
<1> DEFINE n == Len(gs)
           d == [p \in Histories \X (1..n) |-> Joined(p[1], gs[p[2]])]
           stepped(f) == [i \in 1..n |-> IF i = 1 THEN gs[i] ELSE Joined(f[i - 1], gs[i])]
           flatten == CHOOSE f : f = stepped(f)
<1>1. n \in Nat /\ \A i \in 1..n : gs[i] \in Histories
  BY LenProperties, ElementOfSeq
<1>2. <<>> \in Histories
  BY EmptySeq DEF Histories
<1>3. d \in [Histories \X (1..n) -> Histories]
  BY <1>1, ConcatProperties DEF Joined, Histories
<1>4. PICK f : Recursive(f, Histories, n, <<>>, d)
  <2> HIDE DEF d, n
  <2> QED BY <1>1, <1>2, <1>3, Recursion
<1>5. /\ f \in [0..n -> Histories] /\ f[0] = <<>>
      /\ \A i \in 1..n : f[i] = Joined(f[i - 1], gs[i])
  BY <1>1, <1>4 DEF Recursive
<1>6. CASE n = 0
  <2>1. FlattenSeq(gs) = gs /\ gs = <<>>
    BY <1>1, <1>6, EmptySeq DEF FlattenSeq
  <2> QED BY <1>5, <1>6, <2>1 DEF FlatUpTo
<1>7. CASE n # 0
  <2>1. [i \in 1..n |-> f[i]] = stepped([i \in 1..n |-> f[i]])
    <3>1. f[1] = gs[1]
      BY <1>1, <1>5, <1>7, ConcatEmptySeq DEF Joined
    <3> QED BY <1>1, <1>5, <3>1
  <2>2. flatten = stepped(flatten)
    BY <2>1
  <2>3. FlattenSeq(gs) = flatten[n]
    BY <1>7 DEF FlattenSeq, Joined
  <2> HIDE DEF flatten
  <2> DEFINE g == [i \in 0..n |-> IF i = 0 THEN <<>> ELSE flatten[i]]
  <2>4. SameStep(g, f, n)
    <3>1. f[1] = gs[1]
      BY <1>1, <1>5, <1>7, ConcatEmptySeq DEF Joined
    <3>2. flatten[1] = gs[1] /\ \A i \in 2..n : flatten[i] = Joined(flatten[i - 1], gs[i])
      BY <1>1, <1>7, <2>2
    <3>3. g[0] = <<>> /\ \A i \in 1..n : g[i] = flatten[i]
      BY <1>1
    <3> HIDE DEF g
    <3>4. ASSUME NEW i \in 1..n, g[i - 1] = f[i - 1] PROVE g[i] = f[i]
      <4>1. CASE i = 1
        BY <3>1, <3>2, <3>3, <4>1
      <4>2. CASE i # 1
        BY <1>1, <1>5, <3>2, <3>3, <3>4, <4>2
      <4> QED BY <4>1, <4>2
    <3> QED BY <1>5, <3>3, <3>4 DEF SameStep
  <2>5. g[n] = f[n]
    <3> HIDE DEF g, n
    <3>1. n \in Nat
      BY <1>1
    <3>2. Agree(g, f, n)
      BY <2>4, <3>1, SameRecursion
    <3> QED BY <3>1, <3>2 DEF Agree
  <2>6. flatten[n] = f[n]
    BY <1>1, <1>7, <2>5
  <2> QED BY <1>5, <2>3, <2>6 DEF FlatUpTo
<1> QED BY <1>6, <1>7

LEMMA FlattenAppend ==
    ASSUME NEW gs \in Seq(Histories), NEW g \in Histories
    PROVE  /\ FlattenSeq(gs) \in Histories
           /\ FlattenSeq(Append(gs, g)) = FlattenSeq(gs) \o g
<1> DEFINE longer == Append(gs, g)
           n == Len(gs)
<1>1. /\ longer \in Seq(Histories) /\ n \in Nat /\ Len(longer) = n + 1
      /\ longer[n + 1] = g /\ \A i \in 1..n : longer[i] = gs[i]
  BY AppendProperties, LenProperties
<1>2. PICK f \in [0..n -> Histories] : FlatUpTo(gs, f) /\ FlattenSeq(gs) = f[n]
  BY Flattened
<1> HIDE DEF longer
<1>3. PICK e \in [0..n + 1 -> Histories] : FlatUpTo(longer, e) /\ FlattenSeq(longer) = e[n + 1]
  BY <1>1, Flattened
<1>4. \A i \in 0..n : f[i] = e[i]
  <2> HIDE DEF n
  <2>1. SameStep(f, e, n)
    BY <1>1, <1>2, <1>3 DEF FlatUpTo, SameStep, n
  <2>2. n \in Nat
    BY <1>1
  <2>3. Agree(f, e, n)
    BY <2>1, <2>2, SameRecursion
  <2> QED BY <2>3 DEF Agree
<1>5. e[n + 1] = Joined(e[n], g)
  BY <1>1, <1>3 DEF FlatUpTo
<1>6. FlattenSeq(longer) = Joined(FlattenSeq(gs), g)
  BY <1>1, <1>2, <1>3, <1>4, <1>5
<1> QED BY <1>1, <1>2, <1>6 DEF longer, Joined

LEMMA FlattenEmpty == FlattenSeq(<<>>) = <<>>
BY EmptySeq DEF FlattenSeq

LEMMA FlattenConcat ==
    ASSUME NEW gs \in Seq(Histories), NEW hs \in Seq(Histories)
    PROVE  FlattenSeq(gs \o hs) = FlattenSeq(gs) \o FlattenSeq(hs)
<1> DEFINE T == {t \in Seq(Histories) : FlattenSeq(gs \o t) = FlattenSeq(gs) \o FlattenSeq(t)}
<1>1. <<>> \in T
  BY EmptySeq, FlattenEmpty, FlattenAppend, ConcatEmptySeq DEF Histories
<1>2. ASSUME NEW t \in T, NEW g \in Histories PROVE Append(t, g) \in T
  <2>1. Append(t, g) \in Seq(Histories) /\ gs \o t \in Seq(Histories)
    BY AppendProperties, ConcatProperties
  <2>2. gs \o Append(t, g) = Append(gs \o t, g)
    <3>1. <<g>> \in Seq(Histories)
      OBVIOUS
    <3>2. Append(t, g) = t \o <<g>>
      BY AppendIsConcat
    <3>3. Append(gs \o t, g) = (gs \o t) \o <<g>>
      BY <2>1, AppendIsConcat
    <3>4. (gs \o t) \o <<g>> = gs \o (t \o <<g>>)
      BY <3>1, ConcatAssociative
    <3> QED BY <3>2, <3>3, <3>4
  <2>3. FlattenSeq(gs \o Append(t, g)) = FlattenSeq(gs \o t) \o g
    BY <2>1, <2>2, FlattenAppend
  <2>4. FlattenSeq(Append(t, g)) = FlattenSeq(t) \o g
    BY FlattenAppend
  <2>5. (FlattenSeq(gs) \o FlattenSeq(t)) \o g = FlattenSeq(gs) \o (FlattenSeq(t) \o g)
    <3>1. FlattenSeq(gs) \in Histories /\ FlattenSeq(t) \in Histories
      BY FlattenAppend
    <3> QED BY <3>1, ConcatAssociative
  <2> QED BY <2>1, <2>3, <2>4, <2>5
<1>3. T = Seq(Histories)
  <2>1. T \in SUBSET Seq(Histories)
    OBVIOUS
  <2> HIDE DEF T
  <2> QED BY <1>1, <1>2, <2>1, AllSequences
<1> QED BY <1>3

LEMMA GroupsType ==
    ASSUME NEW h \in Histories
    PROVE  Grouped(h) \in Groupings /\ Groups(h) \in Seq(Histories)
<1>1. Grouped(h) \in Groupings
  <2>1. Message("user", 0) \in Messages
    BY DEF Messages, Message, Roles, FromUser
  <2> QED BY <2>1, GroupedAppend
<1> QED BY <1>1, GroupingTypes DEF Groups

LEMMA FlattenType ==
    ASSUME NEW gs \in Seq(Histories)
    PROVE  FlattenSeq(gs) \in Histories
<1>1. <<>> \in Histories
  BY EmptySeq DEF Histories
<1> QED BY <1>1, FlattenAppend

Wholes == {g \in Histories : WholeGroup(g)}
ToolMessages == {m \in Messages : m.role = "tool"}

(* A message that is no result begins a group ... *)
LEMMA GroupBegun ==
    ASSUME NEW h \in Histories, NEW m \in Messages, m.role # "tool"
    PROVE  /\ Groups(Append(h, m)) = Append(Groups(h), <<m>>)
           /\ m.role = "calls" => Grouped(Append(h, m)) = [closed |-> Groups(h), open |-> <<m>>]
<1>1. Grouped(Append(h, m)) = GroupNext(Grouped(h), m)
  BY GroupedAppend
<1>2. CASE m.role = "calls"
  <2>1. Grouped(Append(h, m)) = [closed |-> Groups(h), open |-> <<m>>]
    BY <1>1, <1>2 DEF GroupNext, Groups
  <2> QED BY <2>1 DEF Groups, Closed
<1>3. CASE m.role # "calls"
  <2>1. Grouped(Append(h, m)) = [closed |-> Append(Groups(h), <<m>>), open |-> <<>>]
    BY <1>1, <1>3 DEF GroupNext, Groups
  <2> QED BY <1>3, <2>1 DEF Groups, Closed
<1> QED BY <1>2, <1>3

(* ... and the results that follow it belong to it. *)
LEMMA ResultsJoin ==
    ASSUME NEW h \in Histories, NEW c \in Messages, c.role = "calls",
           NEW results \in Seq(ToolMessages)
    PROVE  /\ Append(h, c) \o results \in Histories
           /\ <<c>> \o results \in Histories
           /\ Groups(Append(h, c) \o results) = Append(Groups(h), <<c>> \o results)
<1> DEFINE begun == Append(h, c)
           T == {t \in Seq(ToolMessages) :
                   Grouped(begun \o t) = [closed |-> Groups(h), open |-> <<c>> \o t]}
<1>1. begun \in Histories /\ <<c>> \in Histories
  BY AppendProperties DEF Histories
<1>2. \A t \in Seq(ToolMessages) : t \in Histories
  <2>1. ToolMessages \subseteq Messages
    BY DEF ToolMessages
  <2> QED BY <2>1, SeqMonotonic DEF Histories
<1>3. <<>> \in T
  <2>1. begun \o <<>> = begun /\ <<c>> \o <<>> = <<c>>
    BY <1>1, ConcatEmptySeq DEF Histories
  <2>2. Grouped(begun) = [closed |-> Groups(h), open |-> <<c>>]
    BY GroupBegun
  <2> QED BY <2>1, <2>2, EmptySeq
<1>4. ASSUME NEW t \in T, NEW m \in ToolMessages PROVE Append(t, m) \in T
  <2>1. /\ t \in Seq(ToolMessages) /\ Append(t, m) \in Seq(ToolMessages) /\ t \in Histories
        /\ m \in Messages /\ m.role = "tool" /\ <<m>> \in Histories
    BY <1>2, AppendProperties DEF ToolMessages, Histories
  <2>2. ASSUME NEW u \in Histories PROVE u \o Append(t, m) = Append(u \o t, m)
    <3>1. Append(t, m) = t \o <<m>>
      BY <2>1, AppendIsConcat DEF Histories
    <3>2. u \o t \in Histories
      BY <2>1, ConcatProperties DEF Histories
    <3>3. Append(u \o t, m) = (u \o t) \o <<m>>
      BY <2>1, <3>2, AppendIsConcat DEF Histories
    <3>4. (u \o t) \o <<m>> = u \o (t \o <<m>>)
      BY <2>1, ConcatAssociative DEF Histories
    <3> QED BY <3>1, <3>3, <3>4
  <2>3. begun \o t \in Histories
    BY <1>1, <2>1, ConcatProperties DEF Histories
  <2>4. Grouped(Append(begun \o t, m)) = GroupNext(Grouped(begun \o t), m)
    BY <2>1, <2>3, GroupedAppend
  <2>5. Grouped(begun \o t) = [closed |-> Groups(h), open |-> <<c>> \o t]
    OBVIOUS
  <2>6. GroupNext(Grouped(begun \o t), m) = [closed |-> Groups(h), open |-> Append(<<c>> \o t, m)]
    <3>1. ASSUME NEW a, NEW s
          PROVE  GroupNext([closed |-> a, open |-> s], m) = [closed |-> a, open |-> Append(s, m)]
      BY <2>1 DEF GroupNext
    <3> QED BY <2>5, <3>1
  <2> QED BY <1>1, <2>1, <2>2, <2>4, <2>6
<1>5. T = Seq(ToolMessages)
  <2>1. T \in SUBSET Seq(ToolMessages)
    OBVIOUS
  <2> HIDE DEF T
  <2> QED BY <1>3, <1>4, <2>1, AllSequences
<1>6. Grouped(begun \o results) = [closed |-> Groups(h), open |-> <<c>> \o results]
  BY <1>5
<1>7. begun \o results \in Histories /\ <<c>> \o results \in Histories
  BY <1>1, <1>2, ConcatProperties DEF Histories
<1>8. <<c>> \o results # <<>>
  BY <1>1, <1>2, ConcatEqualIffEmpty DEF Histories
<1> HIDE DEF begun
<1>9. Groups(begun \o results) = Append(Groups(h), <<c>> \o results)
  BY <1>6, <1>8 DEF Groups, Closed
<1> QED BY <1>7, <1>9 DEF begun

LEMMA GroupAdded ==
    ASSUME NEW h \in Histories, NEW g \in Wholes
    PROVE  Groups(h \o g) = Append(Groups(h), g)
<1>1. g \in Seq(Messages) /\ Len(g) \in Nat /\ WholeGroup(g)
  BY LenProperties DEF Wholes, Histories
<1>2. CASE Len(g) = 1 /\ g[1].role # "tool"
  <2>1. g[1] \in Messages
    BY <1>1, <1>2, ElementOfSeq
  <2>2. g = <<g[1]>>
    BY <1>1, <1>2
  <2>3. Append(h, g[1]) = h \o <<g[1]>>
    BY <2>1, AppendIsConcat DEF Histories
  <2>4. Groups(Append(h, g[1])) = Append(Groups(h), <<g[1]>>)
    BY <1>2, <2>1, GroupBegun
  <2> QED BY <2>2, <2>3, <2>4
<1>3. CASE /\ Len(g) = 1 + Results /\ g[1].role = "calls"
           /\ \A i \in 2..Len(g) : g[i] = Message("tool", g[1].stamp)
  <2> DEFINE c == g[1]
             results == SubSeq(g, 2, Len(g))
  <2>1. Len(g) > 1
    BY <1>1, <1>3, CompressionAssumption
  <2>2. c \in Messages
    BY <1>1, <2>1, ElementOfSeq
  <2>3. \A i \in 2..Len(g) : g[i] \in ToolMessages
    BY <1>1, <1>3, ElementOfSeq DEF ToolMessages, Message
  <2>4. results \in Seq(ToolMessages)
    BY <1>1, <2>1, <2>3, SubSeqProperties
  <2>5. g = <<c>> \o results
    <3>1. SubSeq(g, 1, Len(g)) = g
      BY <1>1, SubSeqFull
    <3>2. SubSeq(g, 1, Len(g)) = <<g[1]>> \o SubSeq(g, 1 + 1, Len(g))
      BY <1>1, <2>1, SubSeqRecursiveFirst
    <3> QED BY <3>1, <3>2
  <2> HIDE DEF results, c
  <2>6. Append(h, c) = h \o <<c>> /\ <<c>> \in Histories
    BY <2>2, AppendIsConcat DEF Histories
  <2>7. results \in Histories
    <3>1. ToolMessages \subseteq Messages
      BY DEF ToolMessages
    <3> QED BY <2>4, <3>1, SeqMonotonic DEF Histories
  <2>8. (h \o <<c>>) \o results = h \o (<<c>> \o results)
    BY <2>6, <2>7, ConcatAssociative DEF Histories
  <2>9. Groups(Append(h, c) \o results) = Append(Groups(h), <<c>> \o results)
    BY <1>3, <2>2, <2>4, ResultsJoin DEF c
  <2> QED BY <2>5, <2>6, <2>8, <2>9
<1> QED BY <1>1, <1>2, <1>3 DEF WholeGroup

(* A history that was put together from whole groups falls apart into them. *)
LEMMA GroupsOfFlatten ==
    ASSUME NEW gs \in Seq(Wholes)
    PROVE  gs \in Seq(Histories) /\ FlattenSeq(gs) \in Histories /\ Groups(FlattenSeq(gs)) = gs
<1> DEFINE T == {t \in Seq(Wholes) : Groups(FlattenSeq(t)) = t}
<1>1. ASSUME NEW t \in Seq(Wholes) PROVE t \in Seq(Histories)
  <2>1. Wholes \subseteq Histories
    BY DEF Wholes
  <2> QED BY <2>1, SeqMonotonic
<1>2. <<>> \in T
  BY EmptySeq, FlattenEmpty, GroupedEmpty
<1>3. ASSUME NEW t \in T, NEW g \in Wholes PROVE Append(t, g) \in T
  <2>1. /\ t \in Seq(Wholes) /\ t \in Seq(Histories) /\ g \in Histories
        /\ Append(t, g) \in Seq(Wholes)
    BY <1>1, AppendProperties DEF Wholes
  <2>2. FlattenSeq(t) \in Histories /\ FlattenSeq(Append(t, g)) = FlattenSeq(t) \o g
    BY <2>1, FlattenAppend
  <2>3. Groups(FlattenSeq(t) \o g) = Append(Groups(FlattenSeq(t)), g)
    BY <2>2, GroupAdded
  <2>4. Groups(FlattenSeq(t)) = t
    OBVIOUS
  <2> QED BY <2>1, <2>2, <2>3, <2>4
<1>4. T = Seq(Wholes)
  <2>1. T \in SUBSET Seq(Wholes)
    OBVIOUS
  <2> HIDE DEF T
  <2> QED BY <1>2, <1>3, <2>1, AllSequences
<1> QED BY <1>1, <1>4, FlattenType

LEMMA OneGroup ==
    ASSUME NEW g \in Histories
    PROVE  FlattenSeq(<<g>>) = g
<1>1. <<>> \in Seq(Histories) /\ Append(<<>>, g) = <<g>>
  BY EmptySeq
<1>2. FlattenSeq(<<g>>) = FlattenSeq(<<>>) \o g
  BY <1>1, FlattenAppend
<1> QED BY <1>2, FlattenEmpty, ConcatEmptySeq DEF Histories

(* A history begins as its first group does. *)
LEMMA FirstMessage ==
    ASSUME NEW gs \in Seq(Wholes), gs # <<>>
    PROVE  FlattenSeq(gs) # <<>> /\ FlattenSeq(gs)[1] = gs[1][1] /\ gs[1][1].role \in Roles \ {"tool"}
<1> DEFINE first == gs[1]
           rest == SubSeq(gs, 2, Len(gs))
<1>1. Len(gs) \in Nat \ {0} /\ \A i \in 1..Len(gs) : gs[i] \in Wholes
  BY EmptySeq, ElementOfSeq
<1>2. first \in Histories /\ WholeGroup(first) /\ first \in Seq(Messages)
  BY <1>1 DEF Wholes, Histories
<1>3. Len(first) >= 1 /\ first[1].role # "tool"
  BY <1>2, CompressionAssumption DEF WholeGroup
<1>4. first[1].role \in Roles
  <2>1. Len(first) \in Nat
    BY <1>2, LenProperties
  <2> HIDE DEF first
  <2>2. first[1] \in Messages
    BY <1>2, <1>3, <2>1, ElementOfSeq
  <2> QED BY <2>2 DEF Messages
<1>5. rest \in Seq(Histories)
  <2>1. \A i \in 2..Len(gs) : gs[i] \in Histories
    BY <1>1 DEF Wholes
  <2> QED BY <1>1, <2>1, SubSeqProperties
<1>6. gs = <<first>> \o rest
  <2>1. SubSeq(gs, 1, Len(gs)) = gs
    BY SubSeqFull
  <2>2. SubSeq(gs, 1, Len(gs)) = <<gs[1]>> \o SubSeq(gs, 1 + 1, Len(gs))
    BY <1>1, SubSeqRecursiveFirst
  <2> QED BY <2>1, <2>2
<1> HIDE DEF first, rest
<1>7. FlattenSeq(gs) = first \o FlattenSeq(rest)
  <2>1. <<first>> \in Seq(Histories)
    BY <1>2
  <2> QED BY <1>2, <1>5, <1>6, <2>1, FlattenConcat, OneGroup
<1>8. FlattenSeq(rest) \in Seq(Messages)
  BY <1>5, FlattenType DEF Histories
<1>9. (first \o FlattenSeq(rest))[1] = first[1] /\ first \o FlattenSeq(rest) # <<>>
  <2>1. Len(first) \in Nat /\ Len(FlattenSeq(rest)) \in Nat
    BY <1>2, <1>8, LenProperties
  <2>2. /\ Len(first \o FlattenSeq(rest)) = Len(first) + Len(FlattenSeq(rest))
        /\ \A i \in 1..Len(first) + Len(FlattenSeq(rest)) :
              (first \o FlattenSeq(rest))[i]
                 = IF i <= Len(first) THEN first[i] ELSE FlattenSeq(rest)[i - Len(first)]
    BY <1>2, <1>8, ConcatProperties
  <2>3. (first \o FlattenSeq(rest))[1] = first[1]
    BY <1>3, <2>1, <2>2
  <2>4. first \o FlattenSeq(rest) # <<>>
    BY <1>3, <2>1, <2>2, EmptySeq
  <2> QED BY <2>3, <2>4
<1> QED BY <1>3, <1>4, <1>7, <1>9 DEF first

--------------------------------------------------------------------------------
(* The rewritings *)

Shaped(h) == \E gs \in Seq(Wholes) : h = FlattenSeq(gs)
Opens(h) == h = <<>> \/ h[1].role \in FromUser

(* The history k was made of the history h and ends in the same group. *)
Rewritten(h, k) == \E gs, ks \in Seq(Wholes) :
    /\ gs # <<>> /\ ks # <<>> /\ h = FlattenSeq(gs) /\ k = FlattenSeq(ks)
    /\ ks[Len(ks)] = gs[Len(gs)] /\ Opens(k)

LEMMA RewrittenFacts ==
    ASSUME NEW h, NEW k, Rewritten(h, k)
    PROVE  Shaped(k) /\ Opens(k) /\ k # <<>> /\ Last(Groups(k)) = Last(Groups(h))
<1>1. PICK gs, ks \in Seq(Wholes) :
        /\ gs # <<>> /\ ks # <<>> /\ h = FlattenSeq(gs) /\ k = FlattenSeq(ks)
        /\ ks[Len(ks)] = gs[Len(gs)] /\ Opens(k)
  BY DEF Rewritten
<1>2. Groups(h) = gs /\ Groups(k) = ks
  BY <1>1, GroupsOfFlatten
<1>3. k # <<>>
  BY <1>1, FirstMessage
<1> QED BY <1>1, <1>2, <1>3 DEF Shaped, Last

(* The newest groups of a history are a history. *)
LEMMA NewestGroups ==
    ASSUME NEW gs \in Seq(Wholes), NEW n \in 0..Len(gs)
    PROVE  /\ SubSeq(gs, Len(gs) - n + 1, Len(gs)) \in Seq(Wholes)
           /\ LastGroups(gs, n) = FlattenSeq(SubSeq(gs, Len(gs) - n + 1, Len(gs)))
           /\ LET ks == SubSeq(gs, Len(gs) - n + 1, Len(gs)) IN
              Len(ks) = n /\ (n > 0 => ks[n] = gs[Len(gs)])
<1>1. Len(gs) \in Nat /\ \A i \in 1..Len(gs) : gs[i] \in Wholes
  BY LenProperties, ElementOfSeq
<1> DEFINE m == Len(gs) - n + 1
           ks == SubSeq(gs, m, Len(gs))
<1>2. m \in Int /\ Len(gs) \in Int /\ \A i \in m..Len(gs) : gs[i] \in Wholes
  BY <1>1
<1>3. /\ ks \in Seq(Wholes) /\ Len(ks) = (IF m <= Len(gs) THEN Len(gs) - m + 1 ELSE 0)
      /\ \A i \in 1..Len(gs) - m + 1 : ks[i] = gs[m + i - 1]
  <2> HIDE DEF m
  <2> QED BY <1>2, SubSeqProperties
<1> HIDE DEF ks
<1>4. Len(ks) = n /\ (n > 0 => ks[n] = gs[Len(gs)])
  BY <1>1, <1>3
<1> QED BY <1>3, <1>4 DEF LastGroups, ks

(* A user's message before a history. *)
LEMMA PutBefore ==
    ASSUME NEW ks \in Seq(Wholes), NEW m \in Messages, m.role \in {"summary", "anchor"}
    PROVE  /\ <<<<m>>>> \o ks \in Seq(Wholes)
           /\ <<m>> \o FlattenSeq(ks) = FlattenSeq(<<<<m>>>> \o ks)
           /\ Len(<<<<m>>>> \o ks) = Len(ks) + 1
           /\ ks # <<>> => (<<<<m>>>> \o ks)[Len(ks) + 1] = ks[Len(ks)]
           /\ Opens(<<m>> \o FlattenSeq(ks))
<1>1. <<m>> \in Wholes
  <2>1. <<m>> \in Histories
    BY DEF Histories
  <2> QED BY <2>1 DEF Wholes, WholeGroup
<1>2. <<m>> \in Histories /\ ks \in Seq(Histories) /\ <<<<m>>>> \in Seq(Histories)
      /\ <<<<m>>>> \in Seq(Wholes)
  <2>1. Wholes \subseteq Histories
    BY DEF Wholes
  <2>2. <<<<m>>>> \in Seq(Wholes)
    BY <1>1
  <2> QED BY <1>1, <2>1, <2>2, SeqMonotonic
<1> DEFINE both == <<<<m>>>> \o ks
<1>3. Len(ks) \in Nat
  BY LenProperties
<1>4. /\ both \in Seq(Wholes) /\ Len(both) = Len(ks) + 1
      /\ \A i \in 1..Len(ks) + 1 : both[i] = IF i <= 1 THEN <<m>> ELSE ks[i - 1]
  <2>1. Len(<<<<m>>>>) = 1 /\ <<<<m>>>>[1] = <<m>>
    OBVIOUS
  <2>2. /\ both \in Seq(Wholes) /\ Len(both) = Len(<<<<m>>>>) + Len(ks)
        /\ \A i \in 1..Len(<<<<m>>>>) + Len(ks) :
               both[i] = IF i <= Len(<<<<m>>>>) THEN <<<<m>>>>[i] ELSE ks[i - Len(<<<<m>>>>)]
    BY <1>2, ConcatProperties
  <2> HIDE DEF both
  <2> QED BY <1>3, <2>1, <2>2
<1>5. FlattenSeq(both) = <<m>> \o FlattenSeq(ks)
  BY <1>2, FlattenConcat, OneGroup
<1> HIDE DEF both
<1>6. ks # <<>> => both[Len(ks) + 1] = ks[Len(ks)]
  BY <1>3, <1>4, EmptySeq
<1>7. both # <<>> /\ both[1] = <<m>>
  BY <1>3, <1>4, EmptySeq
<1>8. FlattenSeq(both)[1] = <<m>>[1]
  BY <1>4, <1>7, FirstMessage
<1>9. Opens(<<m>> \o FlattenSeq(ks))
  BY <1>5, <1>8 DEF Opens, FromUser
<1> QED BY <1>4, <1>5, <1>6, <1>9 DEF both

LEMMA SummaryAnchor ==
    /\ Summary \in Messages /\ Summary.role = "summary"
    /\ Anchor \in Messages /\ Anchor.role = "anchor"
BY DEF Summary, Anchor, Message, Messages, Roles, FromUser

(* assemble: a summary and the newest groups. *)
LEMMA Assembled ==
    ASSUME NEW gs \in Seq(Wholes)
    PROVE  LET k == Assemble(FlattenSeq(gs), KeepRecent) IN
           /\ Shaped(k) /\ Opens(k) /\ k # <<>>
           /\ gs # <<>> => Rewritten(FlattenSeq(gs), k)
<1> DEFINE n == KeepCount(gs, KeepRecent)
           ks == SubSeq(gs, Len(gs) - n + 1, Len(gs))
           k == Assemble(FlattenSeq(gs), KeepRecent)
           both == <<<<Summary>>>> \o ks
<1>1. Groups(FlattenSeq(gs)) = gs /\ Len(gs) \in Nat
  BY GroupsOfFlatten, LenProperties
<1>2. n \in 0..Len(gs) /\ (Len(gs) > 0 => n > 0)
  BY <1>1, CompressionAssumption DEF KeepCount
<1>3. Assemble(FlattenSeq(gs), KeepRecent) = <<Summary>> \o LastGroups(gs, n)
  BY <1>1 DEF Assemble, Recent
<1> HIDE DEF n
<1>4. /\ ks \in Seq(Wholes) /\ LastGroups(gs, n) = FlattenSeq(ks)
      /\ Len(ks) = n /\ (n > 0 => ks[n] = gs[Len(gs)])
  BY <1>2, NewestGroups
<1> HIDE DEF ks
<1>5. /\ both \in Seq(Wholes) /\ k = FlattenSeq(both) /\ Opens(k)
      /\ Len(both) = n + 1 /\ (ks # <<>> => both[n + 1] = ks[n])
  BY <1>3, <1>4, PutBefore, SummaryAnchor
<1> HIDE DEF both, k
<1>6. both # <<>>
  BY <1>2, <1>5, EmptySeq
<1>7. ASSUME gs # <<>> PROVE Rewritten(FlattenSeq(gs), k)
  <2>1. n > 0 /\ ks # <<>>
    BY <1>1, <1>2, <1>4, <1>7, EmptySeq
  <2>2. both[Len(both)] = gs[Len(gs)]
    BY <1>4, <1>5, <2>1
  <2> QED BY <1>5, <1>6, <1>7, <2>2 DEF Rewritten
<1>8. Shaped(k) /\ k # <<>>
  BY <1>5, <1>6, FirstMessage DEF Shaped
<1> QED BY <1>5, <1>7, <1>8 DEF k

LEMMA GreatestExists ==
    ASSUME NEW n \in Nat, NEW S \in SUBSET (1..n), S # {}
    PROVE  Max(S) \in S
<1> DEFINE T == {n - x : x \in S}
<1>1. T \in SUBSET Nat /\ T # {}
  <2>1. \A x \in S : x \in 1..n /\ n - x \in Nat
    OBVIOUS
  <2>2. PICK x : x \in S
    OBVIOUS
  <2>3. n - x \in T
    BY <2>2
  <2> QED BY <2>1, <2>3
<1> HIDE DEF T
<1>2. PICK t \in T : \A u \in T : t <= u
  BY <1>1, Least
<1>3. PICK x \in S : t = n - x
  BY <1>2 DEF T
<1>4. ASSUME NEW y \in S PROVE x >= y
  <2>1. n - y \in T
    BY DEF T
  <2>2. n - x <= n - y /\ x \in 1..n /\ y \in 1..n
    BY <1>2, <1>3, <2>1
  <2> QED BY <2>2
<1> QED BY <1>4 DEF Max

(* trim_messages: the newest groups that fit, begun by the user. *)
LEMMA Windows ==
    ASSUME NEW gs \in Seq(Wholes), gs # <<>>, Opens(FlattenSeq(gs))
    PROVE  Rewritten(FlattenSeq(gs), Windowed(FlattenSeq(gs)))
<1> DEFINE h == FlattenSeq(gs)
           n == Fitting(gs, Budget)
           ks == SubSeq(gs, Len(gs) - n + 1, Len(gs))
           kept == LastGroups(gs, n)
<1>1. Groups(h) = gs /\ Len(gs) \in Nat \ {0}
  BY GroupsOfFlatten, EmptySeq
<1>2. Rewritten(h, h)
  BY DEF Rewritten
<1>3. n \in 1..Len(gs)
  <2> DEFINE fits == {i \in 1..Len(gs) : i = 1 \/ Len(LastGroups(gs, i)) <= Budget}
  <2>1. fits \in SUBSET (1..Len(gs)) /\ 1 \in fits
    BY <1>1
  <2> HIDE DEF fits
  <2>2. Max(fits) \in fits
    BY <1>1, <2>1, GreatestExists
  <2> QED BY <2>1, <2>2 DEF Fitting, fits
<1>4. Windowed(h) \in {h, Anchored(gs, n)}
  BY <1>1 DEF Windowed, Trim
<1> HIDE DEF n, h
<1>5. /\ ks \in Seq(Wholes) /\ kept = FlattenSeq(ks)
      /\ Len(ks) = n /\ ks[n] = gs[Len(gs)]
  BY <1>1, <1>3, NewestGroups
<1> HIDE DEF ks, kept
<1>6. ks # <<>>
  BY <1>3, <1>5, EmptySeq
<1>7. kept # <<>> /\ kept[1].role \in Roles \ {"tool"} /\ Head(kept) = kept[1]
  BY <1>5, <1>6, FirstMessage
<1>8. CASE kept[1].role \in FromAssistant
  <2> DEFINE both == <<<<Anchor>>>> \o ks
  <2>1. /\ both \in Seq(Wholes) /\ <<Anchor>> \o kept = FlattenSeq(both)
        /\ Opens(<<Anchor>> \o kept) /\ Len(both) = n + 1 /\ both[n + 1] = ks[n]
    BY <1>5, <1>6, PutBefore, SummaryAnchor
  <2>2. Anchored(gs, n) = <<Anchor>> \o kept
    BY <1>7, <1>8 DEF Anchored, kept
  <2> HIDE DEF both
  <2>3. both # <<>>
    BY <1>3, <2>1, EmptySeq
  <2>4. Rewritten(h, <<Anchor>> \o kept)
    BY <1>5, <2>1, <2>3 DEF Rewritten, h
  <2> QED BY <1>2, <1>4, <2>2, <2>4 DEF h
<1>9. CASE kept[1].role \notin FromAssistant
  <2>1. Opens(kept)
    BY <1>7, <1>9 DEF Opens, Roles
  <2>2. Anchored(gs, n) = kept
    BY <1>7, <1>9 DEF Anchored, kept
  <2>3. Rewritten(h, kept)
    BY <1>5, <1>6, <2>1 DEF Rewritten, h
  <2> QED BY <1>2, <1>4, <2>2, <2>3 DEF h
<1> QED BY <1>8, <1>9

--------------------------------------------------------------------------------
(* The inductive invariant *)

\* The tools that were asked for have not answered yet.
CallOpen(h) == \E gs \in Seq(Wholes), c \in Messages :
    c.role = "calls" /\ h = Append(FlattenSeq(gs), c)

SnapshotInv == /\ Shaped(snapshot.messages) /\ Opens(snapshot.messages)
               /\ snapshot # NoSnapshot => snapshot.messages # <<>>

CompressionInv ==
    /\ CompressionTypeOK
    /\ Shaped(live) /\ Opens(live) /\ Shaped(copy) /\ SnapshotInv
    /\ pc # "idle" => live # <<>> /\ step < MaxSteps
    /\ pc = "tools" => CallOpen(live)

LEMMA ShapedType ==
    ASSUME NEW h, Shaped(h)
    PROVE  h \in Histories /\ h \in Seq(Messages)
BY GroupsOfFlatten DEF Shaped, Histories

LEMMA ShapedEmpty == Shaped(<<>>) /\ Opens(<<>>)
<1>1. <<>> \in Seq(Wholes)
  BY EmptySeq
<1> QED BY <1>1, FlattenEmpty DEF Shaped, Opens

(* One message more, that is no result. *)
LEMMA ShapedAppend ==
    ASSUME NEW h, Shaped(h), Opens(h), NEW role \in Roles \ {"tool"}, NEW stamp \in Nat,
           h # <<>> \/ role = "user"
    PROVE  LET k == Append(h, Message(role, stamp)) IN
           /\ k \in Seq(Messages) /\ Shaped(k) /\ Opens(k) /\ k # <<>>
           /\ role = "calls" => CallOpen(k)
<1> DEFINE m == Message(role, stamp)
           k == Append(h, m)
<1>1. m \in Messages /\ m.role = role
  BY DEF Messages, Message
<1>2. h \in Histories /\ h \in Seq(Messages)
  BY ShapedType
<1>3. PICK gs \in Seq(Wholes) : h = FlattenSeq(gs)
  BY DEF Shaped
<1>4. <<m>> \in Wholes
  <2>1. <<m>> \in Histories
    BY <1>1 DEF Histories
  <2> QED BY <1>1, <2>1 DEF Wholes, WholeGroup
<1>5. Append(gs, <<m>>) \in Seq(Wholes) /\ gs \in Seq(Histories) /\ <<m>> \in Histories
  BY <1>4, GroupsOfFlatten, AppendProperties DEF Wholes
<1>6. k = FlattenSeq(Append(gs, <<m>>))
  <2>1. FlattenSeq(Append(gs, <<m>>)) = FlattenSeq(gs) \o <<m>>
    BY <1>5, FlattenAppend
  <2>2. Append(h, m) = h \o <<m>>
    BY <1>1, <1>2, AppendIsConcat
  <2> QED BY <1>3, <2>1, <2>2
<1> HIDE DEF m
<1>7. k \in Seq(Messages) /\ k # <<>> /\ k[Len(h) + 1] = m /\ \A i \in 1..Len(h) : k[i] = h[i]
  BY <1>1, <1>2, AppendProperties
<1>8. Opens(k)
  <2>1. CASE h = <<>>
    BY <1>1, <1>7, <2>1, EmptySeq DEF Opens, FromUser
  <2>2. CASE h # <<>>
    <3>1. Len(h) \in Nat \ {0}
      BY <1>2, <2>2, EmptySeq
    <3> QED BY <1>7, <2>2, <3>1 DEF Opens
  <2> QED BY <2>1, <2>2
<1>9. role = "calls" => CallOpen(k)
  BY <1>1, <1>3 DEF CallOpen
<1> QED BY <1>5, <1>6, <1>7, <1>8, <1>9 DEF Shaped, m

(* The results of the newest message. *)
LEMMA ShapedResults ==
    ASSUME NEW h, CallOpen(h), Shaped(h), Opens(h), h # <<>>
    PROVE  LET k == h \o [n \in 1..Results |-> Message("tool", Last(h).stamp)] IN
           k \in Seq(Messages) /\ Shaped(k) /\ Opens(k) /\ k # <<>>
<1>1. PICK gs \in Seq(Wholes), c \in Messages : c.role = "calls" /\ h = Append(FlattenSeq(gs), c)
  BY DEF CallOpen
<1> DEFINE results == [n \in 1..Results |-> Message("tool", c.stamp)]
           g == <<c>> \o results
           k == h \o results
<1>2. /\ gs \in Seq(Histories) /\ FlattenSeq(gs) \in Histories /\ FlattenSeq(gs) \in Seq(Messages)
      /\ h \in Seq(Messages)
  BY GroupsOfFlatten, ShapedType DEF Histories
<1>3. Last(h) = c
  <2>1. Len(h) = Len(FlattenSeq(gs)) + 1 /\ h[Len(FlattenSeq(gs)) + 1] = c
    BY <1>1, <1>2, AppendProperties
  <2> QED BY <2>1 DEF Last
<1>4. Results \in Nat /\ Message("tool", c.stamp) \in ToolMessages
  BY CompressionAssumption DEF Message, ToolMessages, Messages, Roles
<1>5. /\ results \in Seq(ToolMessages) /\ Len(results) = Results
      /\ \A n \in 1..Results : results[n] = Message("tool", c.stamp)
  BY <1>4
<1> HIDE DEF results
<1>6. results \in Seq(Messages) /\ <<c>> \in Seq(Messages)
  <2>1. ToolMessages \subseteq Messages
    BY DEF ToolMessages
  <2> QED BY <1>5, <2>1, SeqMonotonic
<1>7. g \in Wholes
  <2>1. /\ g \in Seq(Messages) /\ Len(g) = Len(<<c>>) + Len(results)
        /\ \A i \in 1..Len(<<c>>) + Len(results) :
              g[i] = IF i <= Len(<<c>>) THEN <<c>>[i] ELSE results[i - Len(<<c>>)]
    BY <1>6, ConcatProperties
  <2>2. Len(<<c>>) = 1 /\ <<c>>[1] = c
    OBVIOUS
  <2> HIDE DEF g
  <2>3. Len(g) = 1 + Results /\ g[1] = c /\ \A i \in 2..1 + Results : g[i] = results[i - 1]
    BY <1>4, <1>5, <2>1, <2>2
  <2>4. \A i \in 2..1 + Results : g[i] = Message("tool", c.stamp)
    BY <1>4, <1>5, <2>3
  <2> QED BY <1>1, <2>1, <2>3, <2>4 DEF Wholes, WholeGroup, Histories
<1>8. k = FlattenSeq(Append(gs, g))
  <2>1. FlattenSeq(Append(gs, g)) = FlattenSeq(gs) \o g
    BY <1>2, <1>7, FlattenAppend DEF Wholes
  <2>2. h = FlattenSeq(gs) \o <<c>>
    BY <1>1, <1>2, AppendIsConcat
  <2>3. (FlattenSeq(gs) \o <<c>>) \o results = FlattenSeq(gs) \o (<<c>> \o results)
    BY <1>2, <1>6, ConcatAssociative
  <2> QED BY <2>1, <2>2, <2>3
<1>9. Append(gs, g) \in Seq(Wholes)
  BY <1>7, AppendProperties
<1>10. k \in Seq(Messages) /\ Opens(k) /\ k # <<>>
  <2>1. /\ k \in Seq(Messages) /\ Len(k) = Len(h) + Len(results)
        /\ \A i \in 1..Len(h) + Len(results) :
              k[i] = IF i <= Len(h) THEN h[i] ELSE results[i - Len(h)]
    BY <1>2, <1>6, ConcatProperties
  <2>2. Len(h) \in Nat \ {0} /\ Len(results) \in Nat
    BY <1>2, <1>6, EmptySeq, LenProperties
  <2> HIDE DEF k
  <2>3. k[1] = h[1] /\ Len(k) # 0
    BY <2>1, <2>2
  <2> QED BY <2>1, <2>3, EmptySeq DEF Opens
<1> QED BY <1>3, <1>8, <1>9, <1>10 DEF Shaped, results

(* What the context manager does to the history before a model call. *)
LEMMA Chains ==
    ASSUME NEW h, Shaped(h), Opens(h), h # <<>>
    PROVE  Rewritten(h, Windowed(h)) /\ Rewritten(h, Chained(h))
<1>1. PICK gs \in Seq(Wholes) : h = FlattenSeq(gs)
  BY DEF Shaped
<1>2. gs # <<>>
  BY <1>1, FlattenEmpty
<1>3. Rewritten(h, Windowed(h))
  BY <1>1, <1>2, Windows
<1>4. Rewritten(h, Assemble(h, KeepRecent))
  BY <1>1, <1>2, Assembled
<1> QED BY <1>3, <1>4 DEF Chained

LEMMA CompressionStart == CompressionInit => CompressionInv
<1>1. ASSUME CompressionInit PROVE CompressionInv
  <2>1. /\ <<>> \in Seq(Messages) /\ asks \in 0..MaxAsks /\ step \in 0..MaxSteps
        /\ clears \in 0..MaxClears
    BY <1>1, CompressionAssumption, EmptySeq DEF CompressionInit
  <2> QED BY <1>1, <2>1, ShapedEmpty
             DEF CompressionInit, CompressionInv, CompressionTypeOK, SnapshotInv,
                 NoSnapshot
<1> QED BY <1>1

(* The user asks, the session is cleared. *)
LEMMA UserStep ==
    ASSUME CompressionInv, Ask \/ Clear
    PROVE  CompressionInv'
<1>1. CASE Ask
  <2>1. clock \in Nat
    BY DEF CompressionInv, CompressionTypeOK
  <2>2. live' \in Seq(Messages) /\ Shaped(live') /\ Opens(live') /\ live' # <<>>
    BY <1>1, <2>1, ShapedAppend DEF Ask, CompressionInv, Roles, FromUser
  <2>3. SnapshotInv'
    BY <1>1 DEF Ask, jobVars, CompressionInv, SnapshotInv
  <2> QED BY <1>1, <2>2, <2>3, CompressionAssumption
             DEF Ask, CompressionInv, CompressionTypeOK, jobVars
<1>2. CASE Clear
  <2>1. SnapshotInv'
    BY <1>2 DEF Clear, jobVars, CompressionInv, SnapshotInv
  <2> QED BY <1>2, <2>1, ShapedEmpty, EmptySeq, CompressionAssumption
             DEF Clear, CompressionInv, CompressionTypeOK, jobVars
<1> QED BY <1>1, <1>2

(* The history is rewritten, or left as it is. *)
LEMMA RewriteStep ==
    ASSUME CompressionInv,
           Switch \/ NoSwitch \/ ChainBesideJob \/ ChainAlone \/ SummaryRaises
    PROVE  CompressionInv'
<1>1. CASE Switch
  <2>1. Rewritten(snapshot.messages, live')
    BY <1>1, Chains DEF Switch, Fresh, CompressionInv, SnapshotInv
  <2>2. Shaped(live') /\ Opens(live') /\ live' # <<>>
    BY <2>1, RewrittenFacts
  <2>3. live' \in Seq(Messages)
    BY <2>2, ShapedType
  <2>4. SnapshotInv' /\ snapshot' \in [messages : Seq(Messages), groups : Nat]
    BY <1>1, ShapedEmpty, EmptySeq DEF Switch, SnapshotInv, NoSnapshot
  <2> QED BY <1>1, <2>2, <2>3, <2>4 DEF Switch, CompressionInv, CompressionTypeOK
<1>2. CASE NoSwitch
  <2>1. SnapshotInv' /\ snapshot' \in [messages : Seq(Messages), groups : Nat]
    BY <1>2, ShapedEmpty, EmptySeq DEF NoSwitch, SnapshotInv, NoSnapshot
  <2> QED BY <1>2, <2>1 DEF NoSwitch, CompressionInv, CompressionTypeOK
<1>3. CASE ChainBesideJob \/ ChainAlone
  <2>1. Rewritten(live, live')
    BY <1>3, Chains DEF ChainBesideJob, ChainAlone, CompressionInv
  <2>2. Shaped(live') /\ Opens(live') /\ live' # <<>>
    BY <2>1, RewrittenFacts
  <2>3. live' \in Seq(Messages)
    BY <2>2, ShapedType
  <2>4. SnapshotInv'
    BY <1>3 DEF ChainBesideJob, ChainAlone, jobVars, CompressionInv, SnapshotInv
  <2> QED BY <1>3, <2>2, <2>3, <2>4
             DEF ChainBesideJob, ChainAlone, CompressionInv, CompressionTypeOK, jobVars
<1>4. CASE SummaryRaises
  <2>1. SnapshotInv'
    BY <1>4 DEF SummaryRaises, jobVars, CompressionInv, SnapshotInv
  <2> QED BY <1>4, <2>1 DEF SummaryRaises, CompressionInv, CompressionTypeOK, jobVars
<1> QED BY <1>1, <1>2, <1>3, <1>4

LEMMA Requests ==
    ASSUME CompressionInv, NEW used \in Usage, Request(used)
    PROVE  /\ Shaped(copy') /\ SnapshotInv' /\ over' \in BOOLEAN /\ copy' \in Seq(Messages)
           /\ job' \in {"none", "summarising", "ending"} /\ UNCHANGED snapshot
<1>1. SnapshotInv'
  BY DEF Request, CompressionInv, SnapshotInv
<1> QED BY <1>1 DEF Request, Submitted, CompressionInv, CompressionTypeOK

(* The model answers, the tools answer, or the turn breaks off. *)
LEMMA AnswerStep ==
    ASSUME CompressionInv,
           \/ \E used \in Usage : ModelStep(used)
           \/ StoppedBetweenSteps \/ ModelRaises \/ ToolsReturn \/ ToolsInterrupted
    PROVE  CompressionInv'
<1>1. clock \in Nat /\ live \in Seq(Messages) /\ Shaped(live) /\ Opens(live) /\ step \in 0..MaxSteps
  BY DEF CompressionInv, CompressionTypeOK
<1>2. ASSUME NEW used \in Usage, Answers(used) PROVE CompressionInv'
  <2>1. live' \in Seq(Messages) /\ Shaped(live') /\ Opens(live') /\ live' # <<>>
    BY <1>1, <1>2, ShapedAppend DEF Answers, CompressionInv, Roles, FromAssistant
  <2>2. Request(used)
    BY <1>2 DEF Answers
  <2> QED BY <1>1, <1>2, <2>1, <2>2, Requests
             DEF Answers, CompressionInv, CompressionTypeOK
<1>3. ASSUME NEW used \in Usage, CallsTools(used) PROVE CompressionInv'
  <2>1. /\ live' \in Seq(Messages) /\ Shaped(live') /\ Opens(live') /\ live' # <<>>
        /\ CallOpen(live')
    BY <1>1, <1>3, ShapedAppend DEF CallsTools, CompressionInv, Roles, FromAssistant
  <2>2. Request(used)
    BY <1>3 DEF CallsTools
  <2> QED BY <1>1, <1>3, <2>1, <2>2, Requests
             DEF CallsTools, CompressionInv, CompressionTypeOK
<1>4. ASSUME NEW used \in Usage, Interrupted(used) PROVE CompressionInv'
  <2>1. Request(used)
    BY <1>4 DEF Interrupted
  <2> QED BY <1>1, <1>4, <2>1, Requests DEF Interrupted, CompressionInv, CompressionTypeOK
<1>5. CASE StoppedBetweenSteps \/ ModelRaises \/ ToolsInterrupted
  <2>1. SnapshotInv'
    BY <1>5
       DEF StoppedBetweenSteps, ModelRaises, ToolsInterrupted, jobVars, CompressionInv,
           SnapshotInv
  <2> QED BY <1>5, <2>1
             DEF StoppedBetweenSteps, ModelRaises, ToolsInterrupted, CompressionInv,
                 CompressionTypeOK, jobVars
<1>6. CASE ToolsReturn
  <2>1. live' \in Seq(Messages) /\ Shaped(live') /\ Opens(live') /\ live' # <<>>
    BY <1>1, <1>6, ShapedResults DEF ToolsReturn, CompressionInv
  <2>2. SnapshotInv'
    BY <1>6 DEF ToolsReturn, jobVars, CompressionInv, SnapshotInv
  <2>3. step + 1 \in 0..MaxSteps
    BY <1>1, <1>6, CompressionAssumption DEF ToolsReturn, CompressionInv
  <2> QED BY <1>6, <2>1, <2>2, <2>3
             DEF ToolsReturn, CompressionInv, CompressionTypeOK, jobVars
<1> QED BY <1>2, <1>3, <1>4, <1>5, <1>6 DEF ModelStep

(* The background thread. *)
LEMMA JobStepKeeps ==
    ASSUME CompressionInv, JobStep
    PROVE  CompressionInv'
<1>1. CASE Publish
  <2>1. PICK gs \in Seq(Wholes) : copy = FlattenSeq(gs)
    BY DEF CompressionInv, Shaped
  <2>2. /\ Shaped(snapshot.messages)' /\ Opens(snapshot.messages)' /\ snapshot.messages' # <<>>
        /\ snapshot' = [messages |-> Assemble(copy, KeepRecent), groups |-> Len(Groups(copy))]
    BY <1>1, <2>1, Assembled DEF Publish
  <2>3. snapshot.messages' \in Seq(Messages)
    BY <2>2, ShapedType
  <2>4. Len(Groups(copy)) \in Nat
    BY <2>1, GroupsOfFlatten, LenProperties
  <2>5. SnapshotInv' /\ snapshot' \in [messages : Seq(Messages), groups : Nat]
    BY <2>2, <2>3, <2>4 DEF SnapshotInv
  <2> QED BY <1>1, <2>5, ShapedEmpty, EmptySeq
             DEF Publish, CompressionInv, CompressionTypeOK, loopVars
<1>2. CASE GiveUp \/ End
  <2>1. SnapshotInv'
    BY <1>2 DEF GiveUp, End, CompressionInv, SnapshotInv
  <2> QED BY <1>2, <2>1, ShapedEmpty, EmptySeq
             DEF GiveUp, End, CompressionInv, CompressionTypeOK, loopVars
<1> QED BY <1>1, <1>2 DEF JobStep

LEMMA CompressionStep ==
    ASSUME CompressionInv, [CompressionNext]_compressionVars
    PROVE  CompressionInv'
<1>1. CASE UNCHANGED compressionVars
  BY <1>1
     DEF compressionVars, loopVars, jobVars, CompressionInv, CompressionTypeOK,
         SnapshotInv
<1> QED BY <1>1, UserStep, RewriteStep, AnswerStep, JobStepKeeps
           DEF CompressionNext, LoopStep

LEMMA CompressionIsInvariant == CompressionSpec => []CompressionInv
<1>1. CompressionInit => CompressionInv
  BY CompressionStart
<1>2. CompressionInv /\ [CompressionNext]_compressionVars => CompressionInv'
  BY CompressionStep
<1> QED BY <1>1, <1>2, PTL DEF CompressionSpec

(* The history, the copy and the snapshot are lists of messages, and the loop and *)
(* the background thread are at one of their points.                             *)
THEOREM CompressionTypeCorrect == CompressionSpec => []CompressionTypeOK
<1>1. CompressionInv => CompressionTypeOK
  BY DEF CompressionInv
<1> QED BY <1>1, CompressionIsInvariant, PTL

(* "The whole group in, the whole group out" (context/window.py): however often the *)
(* history is switched, summarised, trimmed or cleared, in any order, no tool call  *)
(* is parted from its results, and no model call gets a history that does not begin *)
(* with a user's message.                                                           *)
THEOREM HistoriesStayWhole == CompressionSpec => []HistoryWellFormed
<1>1. ASSUME NEW h, Shaped(h)
      PROVE  /\ FlattenSeq(Groups(h)) = h
             /\ \A i \in DOMAIN Groups(h) : WholeGroup(Groups(h)[i])
  <2>1. PICK gs \in Seq(Wholes) : h = FlattenSeq(gs)
    BY <1>1 DEF Shaped
  <2>2. Groups(h) = gs
    BY <2>1, GroupsOfFlatten
  <2>3. \A i \in DOMAIN gs : gs[i] \in Wholes
    BY ElementOfSeq, LenProperties
  <2> QED BY <2>1, <2>2, <2>3 DEF Wholes
<1>2. CompressionInv => HistoryWellFormed
  <2>1. ASSUME CompressionInv PROVE GroupsWhole
    BY <1>1, <2>1 DEF CompressionInv, SnapshotInv, GroupsWhole
  <2>2. ASSUME CompressionInv PROVE StartsWithUser
    BY <2>2 DEF CompressionInv, CompressionTypeOK, Opens, StartsWithUser
  <2> QED BY <2>1, <2>2 DEF HistoryWellFormed
<1> QED BY <1>2, CompressionIsInvariant, PTL

(* The chain of strategies that the context manager runs before a model call        *)
(* (_run_chain: compress, window) never takes the newest group out of the history. *)
THEOREM NewestIsKept == CompressionSpec => ChainKeepsNewest
<1>1. CompressionInv /\ [CompressionNext]_compressionVars
      => [ChainAlone \/ ChainBesideJob
            => Last(Groups(live')) = Last(Groups(live))]_compressionVars
  <2>1. ASSUME CompressionInv, ChainAlone \/ ChainBesideJob
        PROVE  Last(Groups(live')) = Last(Groups(live))
    <3>1. Rewritten(live, live')
      BY <2>1, Chains DEF ChainBesideJob, ChainAlone, CompressionInv
    <3> QED BY <3>1, RewrittenFacts
  <2> QED BY <2>1
<1> QED BY <1>1, CompressionIsInvariant, PTL DEF CompressionSpec, ChainKeepsNewest
================================================================================
