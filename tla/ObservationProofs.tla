--------------------------- MODULE ObservationProofs ---------------------------
(***************************************************************************)
(* Two observers of the agent: the evaluation that runs cases against a    *)
(* gateway, and the telemetry that follows the events of a conversation.   *)
(*                                                                         *)
(* Evaluation: cases are serial, whatever clients come, die or fall        *)
(* behind, and whatever fails.  The lock covers a case from the check for  *)
(* another one until its fixture is entered; the invariant says which      *)
(* steps of prepare hold the lock, and that nobody holds it beside a       *)
(* fixture.  A case that was cleaned up leaves no trace, unless it is      *)
(* excused: the second invariant follows its fact and its todos from the   *)
(* fixture that holds them back to the file and the list of the process.   *)
(*                                                                         *)
(* Telemetry: as long as no worker was abandoned the workers are at work   *)
(* one after the other, and State mirrors where the one at work is: the    *)
(* spans it refers to are the open ones, its queue is what was asked and   *)
(* not answered, its usage what the turn has spent.                        *)
(***************************************************************************)
EXTENDS Evaluation, Telemetry, SequenceTheorems, FiniteSetTheorems, TLAPS

HandlerStates == {"idle", "preparing", "registered", "copied", "undoing", "undone", "refused",
                  "prepared", "cleaning", "restoring", "deleting", "cleaned", "lost"}

\* The steps of prepare that hold the lock.
UnderLock == {"registered", "copied", "undoing", "undone"}

Types == /\ handler \in [Cases -> HandlerStates]
         /\ lock \in Cases \cup {Nobody}
         /\ fixtures \subseteq Cases

LockHeld == \A c \in Cases : lock = c <=> handler[c] \in UnderLock
LockOrFixture == lock # Nobody => fixtures = {}
FixtureOpen == \A c \in fixtures : handler[c] \in {"prepared", "cleaning"}

SerialInv == Types /\ LockHeld /\ LockOrFixture /\ FixtureOpen /\ CasesAreSerial

gatewayVars == <<handler, lock, fixtures>>

\* At the start nothing is locked or entered.
LEMMA SerialInit == Init => SerialInv
<1> SUFFICES ASSUME Init PROVE SerialInv
    OBVIOUS
<1>1. Types
    BY DEF Init, Types, HandlerStates
<1>2. LockHeld
    BY EvaluationAssumption DEF Init, LockHeld, UnderLock
<1>3. LockOrFixture /\ FixtureOpen /\ CasesAreSerial
    BY DEF Init, LockOrFixture, FixtureOpen, CasesAreSerial
<1> QED
    BY <1>1, <1>2, <1>3 DEF SerialInv

\* A step that leaves lock and fixtures alone and moves one case between two states
\* of the same kind keeps the invariant.
LEMMA MoveAside ==
    ASSUME SerialInv, NEW c \in Cases, NEW to \in HandlerStates,
           handler' = [handler EXCEPT ![c] = to],
           lock' = lock, fixtures' = fixtures,
           handler[c] \in UnderLock <=> to \in UnderLock,
           c \in fixtures => to \in {"prepared", "cleaning"}
    PROVE  SerialInv'
<1>1. Types'
    BY DEF SerialInv, Types
<1>2. \A d \in Cases : handler'[d] = IF d = c THEN to ELSE handler[d]
    BY DEF SerialInv, Types
<1>3. LockHeld'
    BY <1>2 DEF SerialInv, LockHeld
<1>4. LockOrFixture' /\ CasesAreSerial'
    BY DEF SerialInv, LockOrFixture, CasesAreSerial
<1>5. FixtureOpen'
    BY <1>2 DEF SerialInv, Types, FixtureOpen
<1> QED
    BY <1>1, <1>3, <1>4, <1>5 DEF SerialInv

\* Nothing of the gateway changes.
LEMMA GatewayIdle ==
    ASSUME SerialInv, UNCHANGED gatewayVars
    PROVE  SerialInv'
BY DEF SerialInv, gatewayVars, Types, LockHeld, LockOrFixture, FixtureOpen, CasesAreSerial

\* The steps of eval/prepare.
LEMMA PrepareKeeps ==
    ASSUME SerialInv, NEW c \in Cases, Prepare(c)
    PROVE  SerialInv'
<1> USE DEF HandlerGoes
<1>1. CASE Registers(c)
  <2>1. lock = Nobody /\ lock' = c /\ fixtures' = {}
      BY <1>1 DEF Registers, LockIsFree, SerialInv, LockHeld, UnderLock
  <2>2. /\ handler' = [handler EXCEPT ![c] = "registered"]
        /\ \A d \in Cases : handler[d] \notin UnderLock
      BY <1>1, <2>1, EvaluationAssumption DEF Registers, SerialInv, LockHeld
  <2>3. Types'
      BY <2>1, <2>2 DEF SerialInv, Types, HandlerStates
  <2>4. LockHeld'
      BY <2>1, <2>2 DEF SerialInv, Types, LockHeld, UnderLock
  <2> QED
      BY <2>1, <2>3, <2>4 DEF SerialInv, LockOrFixture, FixtureOpen, CasesAreSerial
<1>2. CASE Refused(c)
    BY <1>2, MoveAside
       DEF Refused, SerialInv, Types, HandlerStates, UnderLock, LockOrFixture, FixtureOpen
<1>3. CASE Snapshots(c)
    BY <1>3, MoveAside DEF Snapshots, SerialInv, HandlerStates, UnderLock, FixtureOpen
<1>4. CASE Installs(c)
  <2>1. lock = c /\ fixtures = {}
      BY <1>4, EvaluationAssumption
         DEF Installs, SerialInv, LockHeld, UnderLock, LockOrFixture
  <2>2. lock' = Nobody /\ fixtures' = {c} /\ handler' = [handler EXCEPT ![c] = "prepared"]
      BY <1>4, <2>1 DEF Installs
  <2>3. Types'
      BY <2>2 DEF SerialInv, Types, HandlerStates
  <2>4. LockHeld'
      BY <2>1, <2>2, EvaluationAssumption DEF SerialInv, Types, LockHeld, UnderLock
  <2>5. LockOrFixture' /\ FixtureOpen' /\ CasesAreSerial'
      BY <2>2 DEF SerialInv, Types, LockOrFixture, FixtureOpen, CasesAreSerial
  <2> QED
      BY <2>3, <2>4, <2>5 DEF SerialInv
<1> QED
    BY <1>1, <1>2, <1>3, <1>4 DEF Prepare

\* The steps of eval/cleanup, which also undo a failed prepare.
LEMMA CleanupKeeps ==
    ASSUME SerialInv, NEW c \in Cases, Cleanup(c)
    PROVE  SerialInv'
<1> USE DEF HandlerGoes
<1>1. CASE Pops(c)
  <2>1. /\ handler[c] = "cleaning" /\ handler' = [handler EXCEPT ![c] = "restoring"]
        /\ fixtures' = fixtures \ {c} /\ lock' = lock
      BY <1>1 DEF Pops
  <2>2. Types'
      BY <2>1 DEF SerialInv, Types, HandlerStates
  <2>3. LockHeld'
      BY <2>1 DEF SerialInv, Types, LockHeld, UnderLock
  <2>4. LockOrFixture' /\ FixtureOpen' /\ CasesAreSerial'
      BY <2>1 DEF SerialInv, Types, LockOrFixture, FixtureOpen, CasesAreSerial
  <2> QED
      BY <2>2, <2>3, <2>4 DEF SerialInv
<1>2. CASE Empties(c)
    BY <1>2, GatewayIdle DEF Empties, server, gatewayVars
<1>3. CASE Restores(c)
    BY <1>3, MoveAside DEF Restores, SerialInv, HandlerStates, UnderLock, FixtureOpen
<1>4. CASE Deletes(c)
  <2>1. CASE handler[c] = "deleting"
    <3>1. lock # c
        BY <2>1 DEF SerialInv, LockHeld, UnderLock
    <3> QED
        BY <1>4, <2>1, <3>1, MoveAside
           DEF Deletes, SerialInv, HandlerStates, UnderLock, FixtureOpen
  <2>2. CASE handler[c] = "undone"
    <3>1. lock = c /\ fixtures = {}
        BY <2>2, EvaluationAssumption DEF SerialInv, LockHeld, UnderLock, LockOrFixture
    <3>2. lock' = Nobody /\ fixtures' = {} /\ handler' = [handler EXCEPT ![c] = "refused"]
        BY <1>4, <2>2, <3>1 DEF Deletes
    <3>3. Types'
        BY <3>2 DEF SerialInv, Types, HandlerStates
    <3>4. LockHeld'
        BY <3>1, <3>2, EvaluationAssumption DEF SerialInv, Types, LockHeld, UnderLock
    <3> QED
        BY <3>2, <3>3, <3>4 DEF SerialInv, LockOrFixture, FixtureOpen, CasesAreSerial
  <2> QED
      BY <1>4, <2>1, <2>2 DEF Deletes
<1> QED
    BY <1>1, <1>2, <1>3, <1>4 DEF Cleanup

\* What goes wrong.
LEMMA FailsKeeps ==
    ASSUME SerialInv, NEW c \in Cases, Fails(c)
    PROVE  SerialInv'
<1> USE DEF HandlerGoes
<1>1. CASE Rejects(c)
  <2>1. lock = c /\ fixtures = {}
      BY <1>1, EvaluationAssumption
         DEF Rejects, SerialInv, LockHeld, UnderLock, LockOrFixture
  <2>2. lock' = Nobody /\ fixtures' = {} /\ handler' = [handler EXCEPT ![c] = "refused"]
      BY <1>1, <2>1 DEF Rejects
  <2>3. Types'
      BY <2>2 DEF SerialInv, Types, HandlerStates
  <2>4. LockHeld'
      BY <2>1, <2>2, EvaluationAssumption DEF SerialInv, Types, LockHeld, UnderLock
  <2> QED
      BY <2>2, <2>3, <2>4 DEF SerialInv, LockOrFixture, FixtureOpen, CasesAreSerial
<1>2. CASE InstallFails(c)
    BY <1>2, MoveAside DEF InstallFails, SerialInv, HandlerStates, UnderLock, FixtureOpen
<1>3. CASE RestoreFails(c)
    BY <1>3, MoveAside DEF RestoreFails, SerialInv, HandlerStates, UnderLock, FixtureOpen
<1>4. CASE Dies(c)
    BY <1>4, GatewayIdle DEF Dies, server, gatewayVars
<1>5. CASE StopsServer(c)
  <2>1. lock' = Nobody /\ fixtures' = {} /\ handler' = [d \in Cases |-> CutOff(d)]
      BY <1>5 DEF StopsServer
  <2>2. \A d \in Cases : CutOff(d) \in {"idle", "refused", "cleaned", "lost"}
      BY DEF CutOff
  <2>3. Types'
      BY <2>1, <2>2 DEF Types, HandlerStates
  <2>4. LockHeld'
      BY <2>1, <2>2, EvaluationAssumption DEF LockHeld, UnderLock
  <2> QED
      BY <2>1, <2>3, <2>4 DEF SerialInv, LockOrFixture, FixtureOpen, CasesAreSerial
<1> QED
    BY <1>1, <1>2, <1>3, <1>4, <1>5 DEF Fails

\* The clients and the turns: only the requests move a handler.
LEMMA ClientKeeps ==
    ASSUME SerialInv, NEW c \in Cases, PrepareAsked(c) \/ Client(c) \/ Turn(c)
    PROVE  SerialInv'
<1>1. CASE PrepareAsked(c)
    BY <1>1, MoveAside DEF PrepareAsked, HandlerGoes, SerialInv, HandlerStates, UnderLock,
       FixtureOpen
<1>2. CASE CleanupAsked(c)
  <2>1. CASE client'[c] = "cleaning"
      BY <1>2, <2>1, MoveAside
         DEF CleanupAsked, SerialInv, HandlerStates, UnderLock, FixtureOpen
  <2>2. CASE client'[c] # "cleaning"
    <3>1. handler' = handler
        BY <1>2, <2>2 DEF CleanupAsked, SerialInv, Types
    <3> QED
        BY <1>2, <3>1, GatewayIdle DEF CleanupAsked, gatewayVars
  <2> QED
      BY <2>1, <2>2
<1>3. CASE Sends(c) \/ Inspects(c) \/ GivesUp(c) \/ Finishes(c)
    BY <1>3, GatewayIdle DEF Sends, Inspects, GivesUp, Finishes, server, gatewayVars
<1>4. CASE Turn(c)
    BY <1>4, GatewayIdle DEF Turn, Reads, Opens, Writes, Ends, AddsTodo, RemembersNothing,
       server, gatewayVars
<1> QED
    BY <1>1, <1>2, <1>3, <1>4 DEF Client

\* Only one case is between a successful prepare and its cleanup, for any cases,
\* clients that die and servers that are stopped, whatever fails (evaluation_gateway.py:165).
THEOREM EvaluationIsSerial == Spec => []CasesAreSerial
<1>1. SerialInv /\ [Next]_vars => SerialInv'
  <2> SUFFICES ASSUME SerialInv, [Next]_vars PROVE SerialInv'
      OBVIOUS
  <2>1. CASE UNCHANGED vars
      BY <2>1, GatewayIdle DEF vars, server, gatewayVars
  <2>2. ASSUME NEW c \in Cases,
               PrepareAsked(c) \/ Client(c) \/ Prepare(c) \/ Cleanup(c) \/ Fails(c) \/ Turn(c)
        PROVE  SerialInv'
      BY <2>2, PrepareKeeps, CleanupKeeps, FailsKeeps, ClientKeeps
  <2> QED
      BY <2>1, <2>2 DEF Next
<1>2. SerialInv => CasesAreSerial
    BY DEF SerialInv
<1> QED
    BY SerialInit, <1>1, <1>2, PTL DEF Spec

--------------------------------------------------------------------------------
(* A case leaves no trace.  What may still bring its fact back to the file *)
(* is its own turn, a turn that has read the file, and a copy in a         *)
(* fixture; the invariant follows all of them.                             *)

LEMMA AbsentKnows == \A f : ~Knows(Absent, f) /\ ~Knows(Empty, f)
BY DEF Knows, Entries, Empty, Contains

\* Adding a fact makes no other one known.
LEMMA AddedKnows ==
    ASSUME NEW file \in File, NEW c \in Cases
    PROVE  /\ Added(file, c) \in File
           /\ \A f : Knows(Added(file, c), f) => f = c \/ Knows(file, f)
<1> DEFINE S == Cases \cup {Old}
           old == Entries(file)
           all == Append(old, c)
<1>1. old \in Seq(S)
    BY DEF File, Entries, Empty
<1>2. /\ all \in Seq(S) /\ Len(all) = Len(old) + 1 /\ all[Len(all)] = c
      /\ \A i \in 1..Len(old) : all[i] = old[i]
    BY <1>1, AppendProperties
<1> HIDE DEF all
<1>3. \A i \in 1..Len(all) : all[i] = c \/ \E j \in 1..Len(old) : old[j] = all[i]
    BY <1>1, <1>2, LenProperties
<1>4. CASE Len(all) <= Capacity
  <2>1. Added(file, c) = all
      BY <1>1, <1>2, <1>4, MemoryAssumption, LenProperties DEF Added, all
  <2>2. \A f : Knows(all, f) => \E i \in 1..Len(all) : all[i] = f
      BY DEF Knows, Entries, Empty, Contains
  <2>3. \A f : Knows(all, f) => f = c \/ Knows(file, f)
      BY <1>3, <2>2 DEF Knows, Contains
  <2> HIDE DEF old
  <2> QED
      BY <1>2, <2>1, <2>3 DEF File
<1>5. CASE ~(Len(all) <= Capacity)
  <2> DEFINE cut == SubSeq(all, 1, Capacity)
  <2>1. Added(file, c) = cut
      BY <1>1, <1>2, <1>5, MemoryAssumption, LenProperties DEF Added, all
  <2>2. cut \in Seq(S) /\ \A i \in 1..Len(cut) : i \in 1..Len(all) /\ cut[i] = all[i]
    <3>1. Len(all) \in Nat /\ Capacity \in Nat /\ Capacity < Len(all)
        BY <1>2, <1>5, MemoryAssumption, LenProperties
    <3>2. \A i \in 1..Capacity : all[i] \in S
        BY <1>2, <3>1, ElementOfSeq
    <3>3. /\ cut \in Seq(S)
          /\ Len(cut) = IF 1 <= Capacity THEN Capacity - 1 + 1 ELSE 0
          /\ \A i \in 1..Capacity - 1 + 1 : cut[i] = all[1 + i - 1]
        BY <3>1, <3>2, SubSeqProperties
    <3> HIDE DEF cut
    <3> QED
        BY <3>1, <3>3
  <2> HIDE DEF cut
  <2>3. \A f : Knows(cut, f) => \E i \in 1..Len(cut) : cut[i] = f
      BY DEF Knows, Entries, Empty, Contains
  <2>4. \A f : Knows(cut, f) => f = c \/ Knows(file, f)
    <3>1. \A f : Knows(cut, f) => \E i \in 1..Len(all) : all[i] = f
        BY <2>2, <2>3
    <3> QED
        BY <1>3, <3>1 DEF Knows, Contains
  <2> HIDE DEF old
  <2> QED
      BY <2>1, <2>2, <2>4 DEF File
<1> QED
    BY <1>4, <1>5

\* Every variable keeps its type.
LEMMA TypeInit == Init => TypeOK
<1> SUFFICES ASSUME Init PROVE TypeOK
    OBVIOUS
<1>1. <<Old>> \in Seq(Cases \cup {Old})
    OBVIOUS
<1>2. memory \in File /\ Absent \in File
    BY <1>1 DEF Init, File
<1>3. /\ snapshot \in [Cases -> File] /\ held \in [Cases -> File]
      /\ faults \in 0..MaxFaults
    BY <1>2, EvaluationAssumption DEF Init
<1> QED
    BY <1>2, <1>3 DEF Init, TypeOK

LEMMA TypeStep == TypeOK /\ [Next]_vars => TypeOK'
<1> SUFFICES ASSUME TypeOK, [Next]_vars PROVE TypeOK'
    OBVIOUS
<1>1. Empty \in File /\ Absent \in File
    BY DEF Empty, File
<1>2. CASE UNCHANGED vars
    BY <1>2 DEF vars, clients, server, writing, TypeOK
<1> USE DEF HandlerGoes, ClientGoes, WriterGoes, Fault
<1>3. ASSUME NEW c \in Cases, PrepareAsked(c) \/ Client(c) PROVE TypeOK'
  <2>1. CASE PrepareAsked(c)
      BY <2>1 DEF PrepareAsked, writing, TypeOK
  <2>2. CASE Sends(c)
      BY <2>2 DEF Sends, server, TypeOK
  <2>3. CASE Inspects(c)
      BY <2>3 DEF Inspects, server, writing, TypeOK
  <2>4. CASE GivesUp(c)
      BY <2>4 DEF GivesUp, server, writing, TypeOK
  <2>5. CASE CleanupAsked(c)
      BY <2>5 DEF CleanupAsked, AfterTimeout, writing, TypeOK
  <2>6. CASE Finishes(c)
      BY <2>6 DEF Finishes, server, writing, TypeOK
  <2> QED
      BY <1>3, <2>1, <2>2, <2>3, <2>4, <2>5, <2>6 DEF Client
<1>4. ASSUME NEW c \in Cases, Prepare(c) PROVE TypeOK'
  <2>1. CASE Registers(c)
      BY <2>1 DEF Registers, clients, writing, TypeOK
  <2>2. CASE Refused(c)
      BY <2>2 DEF Refused, clients, writing, TypeOK
  <2>3. CASE Snapshots(c)
      BY <2>3 DEF Snapshots, clients, writing, TypeOK
  <2>4. CASE Installs(c)
      BY <2>4 DEF Installs, Workspace, clients, writing, TypeOK
  <2> QED
      BY <1>4, <2>1, <2>2, <2>3, <2>4 DEF Prepare
<1>5. ASSUME NEW c \in Cases, Cleanup(c) PROVE TypeOK'
  <2>1. CASE Pops(c)
      BY <2>1 DEF Pops, clients, writing, TypeOK
  <2>2. CASE Empties(c)
      BY <1>1, <2>2 DEF Empties, server, clients, writing, TypeOK
  <2>3. CASE Restores(c)
      BY <2>3 DEF Restores, PutBack, Excuse, clients, writing, TypeOK
  <2>4. CASE Deletes(c)
      BY <2>4 DEF Deletes, clients, writing, TypeOK
  <2> QED
      BY <1>5, <2>1, <2>2, <2>3, <2>4 DEF Cleanup
<1>6. ASSUME NEW c \in Cases, Fails(c) PROVE TypeOK'
  <2>1. CASE Rejects(c)
      BY <2>1, EvaluationAssumption DEF Rejects, writing, TypeOK
  <2>2. CASE InstallFails(c)
      BY <2>2, EvaluationAssumption DEF InstallFails, writing, TypeOK
  <2>3. CASE RestoreFails(c)
      BY <2>3, EvaluationAssumption DEF RestoreFails, writing, TypeOK
  <2>4. CASE Dies(c)
      BY <2>4, EvaluationAssumption DEF Dies, server, writing, TypeOK
  <2>5. CASE StopsServer(c)
    <3>1. \A d \in Cases :
             /\ CutOff(d) \in {"idle", "refused", "cleaned", "lost"}
             /\ Disconnected(d) \in {"new", "done", "failed", "dead", "left"}
        BY DEF CutOff, Disconnected, TypeOK
    <3> QED
        BY <1>1, <2>5, <3>1, EvaluationAssumption DEF StopsServer, TypeOK
  <2> QED
      BY <1>6, <2>1, <2>2, <2>3, <2>4, <2>5 DEF Fails
<1>7. ASSUME NEW c \in Cases, Turn(c) PROVE TypeOK'
  <2>1. AfterMemory(c) \in {"ended", "saving"}
      BY DEF AfterMemory
  <2>2. CASE Reads(c)
      BY <1>1, <2>1, <2>2 DEF Reads, server, clients, TypeOK
  <2>3. CASE Opens(c)
      BY <1>1, <2>3 DEF Opens, server, clients, TypeOK
  <2>4. CASE Writes(c)
    <3>1. Added(held[c], c) \in File
        BY AddedKnows DEF TypeOK
    <3> QED
        BY <1>1, <2>1, <2>4, <3>1 DEF Writes, server, clients, TypeOK
  <2>5. CASE Ends(c)
      BY <2>5 DEF Ends, clients, TypeOK
  <2>6. CASE AddsTodo(c)
      BY <2>6 DEF AddsTodo, clients, writing, TypeOK
  <2>7. CASE RemembersNothing(c)
      BY <2>1, <2>7 DEF RemembersNothing, server, clients, TypeOK
  <2> QED
      BY <1>7, <2>2, <2>3, <2>4, <2>5, <2>6, <2>7 DEF Turn
<1> QED
    BY <1>2, <1>3, <1>4, <1>5, <1>6, <1>7 DEF Next

\* Nobody holds a copy he will not write; a turn comes after a successful prepare.
Holding == \A c \in Cases : held[c] # Absent => writer[c] \in {"reading", "cut"}
BeforeTurn == \A c \in Cases :
    handler[c] \in {"idle", "preparing", "registered", "copied", "undoing", "undone", "refused"}
    => writer[c] = "none"

\* Before its turn nobody knows the fact of a case, so its own copy never has it.
Unwritten == \A c \in Cases : writer[c] = "none" =>
    ~Knows(memory, c) /\ \A d \in Cases : ~Knows(held[d], c) /\ ~Knows(snapshot[d], c)
OwnCopy == \A c \in Cases : ~Knows(snapshot[c], c)

\* Once the file is put back, the fact is gone and nobody can bring it back.
NotAround(c) == /\ ~Knows(memory, c) /\ ~Running(c)
                /\ \A d \in Cases : ~Knows(held[d], c) /\ ~CopyOf(c, d)
                /\ c \in Seeded => c \notin todos
Gone == \A c \in Cases : handler[c] \in {"deleting", "cleaned"} /\ c \notin excused =>
    NotAround(c) /\ (handler[c] = "cleaned" => c \notin sessions)

Traces == Holding /\ BeforeTurn /\ Unwritten /\ OwnCopy /\ Gone

CopyStates == {"copied", "undoing", "undone", "prepared", "cleaning", "restoring", "deleting"}
EarlyStates == {"idle", "preparing", "registered", "copied", "undoing", "undone", "refused"}

LEMMA CopyIs ==
    ASSUME TypeOK, NEW c \in Cases, NEW d \in Cases
    PROVE  CopyOf(c, d) <=> d # c /\ Knows(snapshot[d], c) /\ handler[d] \in CopyStates
<1>1. handler[d] \in HandlerStates
    BY DEF TypeOK, HandlerStates
<1> QED
    BY <1>1 DEF CopyOf, CopyStates, HandlerStates

\* At the start only the old fact is known.
LEMMA TracesInit == Init => Traces
<1> SUFFICES ASSUME Init PROVE Traces
    OBVIOUS
<1>1. \A c \in Cases : ~Knows(<<Old>>, c)
  <2> SUFFICES ASSUME NEW c \in Cases, Knows(<<Old>>, c) PROVE FALSE
      OBVIOUS
  <2>1. Entries(<<Old>>) \in {<<Old>>, Empty}
      BY DEF Entries
  <2>2. \E i \in 1..1 : <<Old>>[i] = c
      BY <2>1 DEF Knows, Contains, Empty
  <2> QED
      BY <2>2, EvaluationAssumption
<1>2. Unwritten /\ OwnCopy
    BY <1>1, AbsentKnows DEF Init, Unwritten, OwnCopy
<1> QED
    BY <1>2 DEF Init, Traces, Holding, BeforeTurn, Gone

\* A thread of the server goes on and writes nothing, neither to the file nor a copy.
LEMMA HandlerMoves ==
    ASSUME TypeOK, TypeOK', Traces, NEW c \in Cases, NEW to \in HandlerStates,
           handler' = [handler EXCEPT ![c] = to],
           UNCHANGED <<memory, snapshot, writer, held, excused>>,
           \A d \in Cases : d \in todos' => d \in todos \/ d = c,
           \A d \in Cases : d \in sessions' => d \in sessions \/ d = c,
           to \in EarlyStates => handler[c] \in EarlyStates,
           to \in CopyStates => handler[c] \in CopyStates,
           to \notin {"deleting", "cleaned"}
    PROVE  Traces'
<1>1. \A d \in Cases : handler'[d] = IF d = c THEN to ELSE handler[d]
    BY DEF TypeOK
<1>2. Holding' /\ Unwritten' /\ OwnCopy'
    BY DEF Traces, Holding, Unwritten, OwnCopy
<1>3. BeforeTurn'
    BY <1>1 DEF Traces, BeforeTurn, EarlyStates
<1>4. \A d, e \in Cases : CopyOf(d, e)' => CopyOf(d, e)
  <2> SUFFICES ASSUME NEW d \in Cases, NEW e \in Cases, CopyOf(d, e)' PROVE CopyOf(d, e)
      OBVIOUS
  <2>1. e # d /\ Knows(snapshot[e], d)
      BY DEF CopyOf
  <2>2. handler'[e] \in HandlerStates
      BY DEF TypeOK, HandlerStates
  <2>3. handler'[e] \in CopyStates
      BY <2>2 DEF CopyOf, CopyStates, HandlerStates
  <2>4. handler[e] \in CopyStates
      BY <1>1, <2>3
  <2> QED
      BY <2>1, <2>4, CopyIs
<1>5. Gone'
    BY <1>1, <1>4 DEF Traces, Gone, NotAround, Running
<1> QED
    BY <1>2, <1>3, <1>5 DEF Traces

\* Nothing happens to files, copies, turns or todos.
LEMMA TracesStay ==
    ASSUME Traces,
           UNCHANGED <<memory, snapshot, writer, held, excused, todos, sessions, handler>>
    PROVE  Traces'
BY DEF Traces, Holding, BeforeTurn, Unwritten, OwnCopy, Gone, NotAround, Running, CopyOf

\* eval/prepare, and the clients.
LEMMA PrepareLeavesTraces ==
    ASSUME TypeOK, TypeOK', Traces, NEW c \in Cases, PrepareAsked(c) \/ Client(c) \/ Prepare(c)
    PROVE  Traces'
<1> USE DEF HandlerGoes, EarlyStates, CopyStates, HandlerStates
<1>1. CASE PrepareAsked(c)
    BY <1>1, HandlerMoves DEF PrepareAsked, writing
<1>2. CASE Inspects(c) \/ GivesUp(c) \/ Finishes(c)
    BY <1>2, TracesStay DEF Inspects, GivesUp, Finishes, server, writing
<1>3. CASE CleanupAsked(c)
  <2>1. CASE client'[c] = "cleaning"
      BY <1>3, <2>1, HandlerMoves DEF CleanupAsked, writing
  <2>2. CASE client'[c] # "cleaning"
    <3>1. handler' = handler
        BY <1>3, <2>2 DEF CleanupAsked, TypeOK
    <3> QED
        BY <1>3, <3>1, TracesStay DEF CleanupAsked, writing
  <2> QED
      BY <2>1, <2>2
<1>4. CASE Sends(c)
  <2>1. /\ \A d \in Cases : writer'[d] = IF d = c THEN "thinking" ELSE writer[d]
        /\ writer[c] = "none" /\ handler[c] = "prepared"
        /\ UNCHANGED <<memory, snapshot, held, excused, todos, sessions, handler>>
      BY <1>4 DEF Sends, WriterGoes, server, TypeOK
  <2>2. held[c] = Absent
      BY <2>1 DEF Traces, Holding
  <2>3. Holding' /\ BeforeTurn' /\ Unwritten' /\ OwnCopy'
      BY <2>1, <2>2 DEF Traces, Holding, BeforeTurn, Unwritten, OwnCopy
  <2>4. Gone'
      BY <2>1 DEF Traces, Gone, NotAround, Running, CopyOf
  <2> QED
      BY <2>3, <2>4 DEF Traces
<1>5. CASE Registers(c)
    BY <1>5, HandlerMoves DEF Registers, writing
<1>6. CASE Refused(c)
    BY <1>6, HandlerMoves DEF Refused, writing
<1>7. CASE Snapshots(c)
  <2>1. /\ \A d \in Cases : handler'[d] = IF d = c THEN "copied" ELSE handler[d]
        /\ \A d \in Cases : snapshot'[d] = IF d = c THEN memory ELSE snapshot[d]
        /\ handler[c] = "registered"
        /\ UNCHANGED <<memory, held, writer, excused, todos, sessions>>
      BY <1>7 DEF Snapshots, writing, TypeOK
  <2>2. ~Knows(memory, c)
      BY <2>1 DEF Traces, BeforeTurn, Unwritten
  <2>3. Holding' /\ BeforeTurn' /\ Unwritten' /\ OwnCopy'
      BY <2>1, <2>2 DEF Traces, Holding, BeforeTurn, Unwritten, OwnCopy
  <2>4. \A d, e \in Cases : CopyOf(d, e)' => CopyOf(d, e) \/ Knows(memory, d)
      BY <2>1 DEF CopyOf
  <2>5. Gone'
      BY <2>1, <2>4 DEF Traces, Gone, NotAround, Running
  <2> QED
      BY <2>3, <2>5 DEF Traces
<1>8. CASE Installs(c)
    BY <1>8, HandlerMoves DEF Installs, Workspace, writing
<1> QED
    BY <1>1, <1>2, <1>3, <1>4, <1>5, <1>6, <1>7, <1>8 DEF Client, Prepare

\* eval/cleanup: what is put back has no fact of the case, and only those excused
\* have one elsewhere.
LEMMA CleanupLeavesTraces ==
    ASSUME TypeOK, TypeOK', Traces, NEW c \in Cases, Cleanup(c)
    PROVE  Traces'
<1> USE DEF HandlerGoes
<1>1. CASE Pops(c)
    BY <1>1, HandlerMoves DEF Pops, writing, EarlyStates, CopyStates, HandlerStates
<1>2. CASE Empties(c)
  <2>1. /\ \A d \in Cases : ~Knows(memory', d)
        /\ UNCHANGED <<snapshot, writer, held, excused, todos, sessions, handler>>
      BY <1>2, AbsentKnows DEF Empties, server, writing
  <2> QED
      BY <2>1 DEF Traces, Holding, BeforeTurn, Unwritten, OwnCopy, Gone, NotAround, Running,
                  CopyOf
<1>3. CASE Restores(c)
  <2> DEFINE to == IF handler[c] = "restoring" THEN "deleting" ELSE "undone"
  <2>1. /\ handler[c] \in {"restoring", "undoing"}
        /\ \A d \in Cases : handler'[d] = IF d = c THEN to ELSE handler[d]
        /\ memory' = snapshot[c] /\ todos' = IF c \in Seeded THEN {} ELSE todos
        /\ excused' = IF StillKnown(c) THEN excused \cup {c} ELSE excused
        /\ UNCHANGED <<snapshot, writer, held, sessions>>
      BY <1>3 DEF Restores, PutBack, Excuse, writing, TypeOK
  <2> HIDE DEF to
  <2>2. ~Knows(memory', c)
      BY <2>1 DEF Traces, OwnCopy
  <2>3. Holding' /\ OwnCopy'
      BY <2>1 DEF Traces, Holding, OwnCopy
  <2>4. Unwritten'
      BY <2>1 DEF Traces, Unwritten
  <2>5. BeforeTurn'
      BY <2>1 DEF Traces, BeforeTurn, to
  <2>6. \A d, e \in Cases : CopyOf(d, e)' => CopyOf(d, e)
      BY <2>1 DEF CopyOf
  <2>7. \A d \in Cases : d \notin excused' => d \notin excused
      BY <2>1
  <2>8. ASSUME NEW d \in Cases, d # c, handler'[d] \in {"deleting", "cleaned"}, d \notin excused'
        PROVE  NotAround(d)' /\ (handler'[d] = "cleaned" => d \notin sessions')
    <3>1. NotAround(d) /\ (handler[d] = "cleaned" => d \notin sessions)
        BY <2>1, <2>7, <2>8 DEF Traces, Gone
    <3>2. ~Knows(memory', d)
      <4>1. ~CopyOf(d, c)
          BY <3>1 DEF NotAround
      <4> QED
          BY <2>1, <2>8, <4>1, CopyIs DEF CopyStates
    <3> QED
        BY <2>1, <2>6, <2>8, <3>1, <3>2 DEF NotAround, Running
  <2>9. ASSUME handler'[c] \in {"deleting", "cleaned"}, c \notin excused'
        PROVE  NotAround(c)' /\ handler'[c] # "cleaned"
    <3>1. ~StillKnown(c)
        BY <2>1, <2>9
    <3>2. \A d \in Cases : ~Knows(held[d], c) /\ ~CopyOf(c, d)
      <4>1. \A d \in Cases : ~Running(d) => held[d] = Absent
          BY DEF Traces, Holding, Running
      <4> QED
          BY <3>1, <4>1, AbsentKnows DEF StillKnown
    <3> QED
        BY <2>1, <2>2, <2>6, <3>1, <3>2 DEF NotAround, Running, StillKnown, to
  <2>10. Gone'
      BY <2>8, <2>9 DEF Gone
  <2> QED
      BY <2>3, <2>4, <2>5, <2>10 DEF Traces
<1>4. CASE Deletes(c)
  <2> DEFINE to == IF handler[c] = "deleting" THEN "cleaned" ELSE "refused"
  <2>1. /\ handler[c] \in {"deleting", "undone"}
        /\ \A d \in Cases : handler'[d] = IF d = c THEN to ELSE handler[d]
        /\ sessions' = sessions \ {c}
        /\ UNCHANGED <<memory, snapshot, writer, held, excused, todos>>
      BY <1>4 DEF Deletes, writing, TypeOK
  <2>2. Holding' /\ BeforeTurn' /\ Unwritten' /\ OwnCopy'
      BY <2>1 DEF Traces, Holding, BeforeTurn, Unwritten, OwnCopy
  <2>3. \A d, e \in Cases : CopyOf(d, e)' => CopyOf(d, e)
      BY <2>1 DEF CopyOf
  <2>4. Gone'
      BY <2>1, <2>3 DEF Traces, Gone, NotAround, Running
  <2> QED
      BY <2>2, <2>4 DEF Traces
<1> QED
    BY <1>1, <1>2, <1>3, <1>4 DEF Cleanup

\* What goes wrong: a restore that fails excuses its case, and a server that stops
\* takes all copies with it.
LEMMA FailsLeavesTraces ==
    ASSUME TypeOK, TypeOK', Traces, NEW c \in Cases, Fails(c)
    PROVE  Traces'
<1> USE DEF HandlerGoes
<1>1. CASE Rejects(c)
    BY <1>1, HandlerMoves DEF Rejects, writing, EarlyStates, CopyStates, HandlerStates
<1>2. CASE InstallFails(c)
    BY <1>2, HandlerMoves DEF InstallFails, writing, EarlyStates, CopyStates, HandlerStates
<1>3. CASE RestoreFails(c)
  <2>1. /\ handler[c] = "restoring" /\ excused' = excused \cup {c}
        /\ \A d \in Cases : handler'[d] = IF d = c THEN "deleting" ELSE handler[d]
        /\ UNCHANGED <<memory, snapshot, writer, held, todos, sessions>>
      BY <1>3 DEF RestoreFails, writing, TypeOK
  <2>2. Holding' /\ BeforeTurn' /\ Unwritten' /\ OwnCopy'
      BY <2>1 DEF Traces, Holding, BeforeTurn, Unwritten, OwnCopy
  <2>3. \A d, e \in Cases : CopyOf(d, e)' => CopyOf(d, e)
      BY <2>1 DEF CopyOf
  <2>4. Gone'
      BY <2>1, <2>3 DEF Traces, Gone, NotAround, Running
  <2> QED
      BY <2>2, <2>4 DEF Traces
<1>4. CASE Dies(c)
    BY <1>4, TracesStay DEF Dies, server, writing
<1>5. CASE StopsServer(c)
  <2>1. /\ \A d \in Cases : held'[d] = Absent /\ snapshot'[d] = Absent
        /\ \A d \in Cases : writer'[d] = IF writer[d] = "none" THEN "none" ELSE "ended"
        /\ \A d \in Cases : handler'[d] = IF handler[d] \in {"idle", "refused", "cleaned"}
                                          THEN handler[d] ELSE "lost"
        /\ todos' = {} /\ UNCHANGED <<memory, sessions, excused>>
      BY <1>5 DEF StopsServer, CutOff
  <2>2. Holding' /\ BeforeTurn' /\ Unwritten' /\ OwnCopy'
      BY <2>1, AbsentKnows DEF Traces, Holding, BeforeTurn, Unwritten, OwnCopy
  <2>3. \A d, e \in Cases : ~CopyOf(d, e)'
      BY <2>1, AbsentKnows DEF CopyOf
  <2>4. Gone'
      BY <2>1, <2>3, AbsentKnows DEF Traces, Gone, NotAround, Running
  <2> QED
      BY <2>2, <2>4 DEF Traces
<1> QED
    BY <1>1, <1>2, <1>3, <1>4, <1>5 DEF Fails

\* A turn writes its own fact and what it has read; a turn that runs is none of a case
\* that is gone.
LEMMA TurnLeavesTraces ==
    ASSUME TypeOK, TypeOK', Traces, NEW c \in Cases, Turn(c)
    PROVE  Traces'
<1>1. Running(c) /\ writer[c] # "none" /\ handler[c] \notin EarlyStates
    BY DEF Turn, Reads, Opens, Writes, Ends, AddsTodo, RemembersNothing, WriterGoes,
           Running, Traces, BeforeTurn, EarlyStates
<1>2. /\ UNCHANGED <<snapshot, handler, excused>>
      /\ \A d \in Cases : d # c => writer'[d] = writer[d] /\ held'[d] = held[d]
      /\ writer'[c] # "none"
  <2>1. UNCHANGED <<snapshot, handler, excused>>
      BY DEF Turn, Reads, Opens, Writes, Ends, AddsTodo, RemembersNothing, server, writing
  <2>2. \A d \in Cases : d # c => writer'[d] = writer[d]
      BY DEF Turn, Reads, Opens, Writes, Ends, AddsTodo, RemembersNothing, WriterGoes,
             writing, TypeOK
  <2>3. \A d \in Cases : d # c => held'[d] = held[d]
      BY DEF Turn, Reads, Opens, Writes, Ends, AddsTodo, RemembersNothing, writing, TypeOK
  <2>4. writer'[c] # "none"
    <3>1. CASE AddsTodo(c)
        BY <1>1, <3>1 DEF AddsTodo, writing
    <3>2. CASE ~AddsTodo(c)
        BY <3>2
           DEF Turn, Reads, Opens, Writes, Ends, RemembersNothing, WriterGoes, AfterMemory,
               TypeOK
    <3> QED
        BY <3>1, <3>2
  <2> QED
      BY <2>1, <2>2, <2>3, <2>4
<1>3. \A d \in Cases : Knows(memory', d) => d = c \/ Knows(memory, d) \/ Knows(held[c], d)
  <2>1. CASE Writes(c)
      BY <2>1, AddedKnows DEF Writes, TypeOK
  <2>2. CASE Opens(c)
      BY <2>2, AbsentKnows DEF Opens
  <2>3. CASE ~Writes(c) /\ ~Opens(c)
      BY <2>3 DEF Turn, Reads, Ends, AddsTodo, RemembersNothing
  <2> QED
      BY <2>1, <2>2, <2>3
<1>4. \A d \in Cases : Knows(held'[c], d) => Knows(memory, d) \/ Knows(held[c], d)
    BY AbsentKnows
       DEF Turn, Reads, Opens, Writes, Ends, AddsTodo, RemembersNothing, writing, TypeOK
<1>5. held'[c] # Absent => writer'[c] \in {"reading", "cut"}
    BY DEF Turn, Reads, Opens, Writes, Ends, AddsTodo, RemembersNothing, WriterGoes,
           writing, Traces, Holding, TypeOK
<1>6. \A d \in Cases : /\ d \in todos' => d \in todos \/ d = c
                       /\ d \in sessions' => d \in sessions \/ d = c
    BY DEF Turn, Reads, Opens, Writes, Ends, AddsTodo, RemembersNothing, server
<1>7. Holding' /\ BeforeTurn' /\ OwnCopy'
    BY <1>1, <1>2, <1>5 DEF Traces, Holding, BeforeTurn, OwnCopy, EarlyStates
<1>8. Unwritten'
  <2> SUFFICES ASSUME NEW d \in Cases, writer'[d] = "none"
               PROVE  ~Knows(memory', d)
                      /\ \A e \in Cases : ~Knows(held'[e], d) /\ ~Knows(snapshot'[e], d)
      BY DEF Unwritten
  <2>1. d # c /\ writer[d] = "none"
      BY <1>2
  <2>2. ~Knows(memory, d) /\ \A e \in Cases : ~Knows(held[e], d) /\ ~Knows(snapshot[e], d)
      BY <2>1 DEF Traces, Unwritten
  <2> QED
      BY <1>2, <1>3, <1>4, <2>1, <2>2
<1>9. Gone'
  <2> SUFFICES ASSUME NEW d \in Cases, handler'[d] \in {"deleting", "cleaned"}, d \notin excused'
               PROVE  NotAround(d)' /\ (handler'[d] = "cleaned" => d \notin sessions')
      BY DEF Gone
  <2>1. NotAround(d) /\ (handler[d] = "cleaned" => d \notin sessions)
      BY <1>2 DEF Traces, Gone
  <2>2. d # c
      BY <1>1, <2>1 DEF NotAround
  <2>3. \A e \in Cases : ~CopyOf(d, e)'
      BY <1>2, <2>1 DEF NotAround, CopyOf
  <2>4. ~Knows(memory', d) /\ \A e \in Cases : ~Knows(held'[e], d)
      BY <1>2, <1>3, <1>4, <2>1, <2>2 DEF NotAround
  <2> QED
      BY <1>2, <1>6, <2>1, <2>2, <2>3, <2>4 DEF NotAround, Running
<1> QED
    BY <1>7, <1>8, <1>9 DEF Traces

\* After its cleanup a case has left no fact, no session and no todo, unless its turn
\* outlived it, the restore failed or somebody else held a copy: for any cases, clients
\* that die, servers that are stopped and whatever is remembered (evaluation_gateway.py).
THEOREM CleanedUpIsGone == Spec => []CaseLeavesNoTrace
<1>1. TypeOK /\ Traces /\ [Next]_vars => TypeOK' /\ Traces'
  <2> SUFFICES ASSUME TypeOK, Traces, [Next]_vars PROVE TypeOK' /\ Traces'
      OBVIOUS
  <2>1. TypeOK'
      BY TypeStep
  <2>2. CASE UNCHANGED vars
    <3>1. /\ memory' = memory /\ snapshot' = snapshot /\ writer' = writer /\ held' = held
          /\ excused' = excused /\ todos' = todos /\ sessions' = sessions /\ handler' = handler
        BY <2>2 DEF vars, server, writing
    <3> QED
        BY <2>1, <3>1, TracesStay
  <2>3. ASSUME NEW c \in Cases,
               PrepareAsked(c) \/ Client(c) \/ Prepare(c) \/ Cleanup(c) \/ Fails(c) \/ Turn(c)
        PROVE  Traces'
      BY <2>1, <2>3, PrepareLeavesTraces, CleanupLeavesTraces, FailsLeavesTraces,
         TurnLeavesTraces
  <2> QED
      BY <2>1, <2>2, <2>3 DEF Next
<1>2. TypeOK /\ Traces => CaseLeavesNoTrace
    BY DEF Traces, Gone, NotAround, CaseLeavesNoTrace
<1> QED
    BY TypeInit, TracesInit, <1>1, <1>2, PTL DEF Spec

--------------------------------------------------------------------------------
(* Telemetry: the inductive invariant *)

Begun(w) == pc[w] # "new"
Active(w) == pc[w] \notin {"new", "over"}

SpanKeys == ({"root", "turn", "approval"} \X Workers) \cup ({"llm"} \X Workers \X Steps)
            \cup ({"tool"} \X Workers \X Steps \X (1..MaxCalls))

\* A list of spans: None is no key, and each has the fields of a span.
IsSpan(s) == s = [parent |-> s.parent, ends |-> s.ends, got |-> s.got] /\ s.ends \in Nat
Proper(list) == None \notin DOMAIN list /\ \A k \in DOMAIN list : IsSpan(list[k])

PcValues == {"new", "step", "llm", "decide", "tools", "next", "end", "export", "reset", "over"}

\* Workers begin one after the other.
BegunInOrder == \E c \in 0..MaxTurns : turn \in 0..c /\ \A w \in Workers : Begun(w) <=> w <= c

AgentTypes ==
    /\ BegunInOrder /\ cleared \in 0..1
    /\ pc \in [Workers -> PcValues] /\ step \in [Workers -> 0..MaxSteps]
    /\ \A w \in Workers : Active(w) => step[w] \in Steps
    /\ asked \in [Workers -> 0..MaxCalls] /\ batch \in [Workers -> Turns]
    /\ left \subseteq Workers /\ raised \subseteq Workers /\ \A w \in left \cup raised : Begun(w)

SpanTypes ==
    /\ Proper(spans) /\ root \in Keys /\ turnSpan \in Keys /\ turnNo \in Turns
    /\ llm \in [Turns \X Steps -> Keys] /\ queue \in [Turns -> Seq(DOMAIN spans)]
    /\ usage \in [Turns -> Nat]
    /\ DOMAIN ending = Workers
    /\ \A w \in Workers : ending[w].root \in Keys /\ ending[w].turnSpan \in Keys
    /\ DOMAIN spent = Workers

\* As long as nobody was abandoned, one worker is at work.
OneAtATime == \A w \in Workers : Active(w) =>
    /\ turn # 0
    /\ \A v \in Workers : (v < w => pc[v] = "over") /\ (v > w => pc[v] = "new")

KeysKnown == \A k \in DOMAIN spans :
    /\ k \in SpanKeys /\ Begun(k[2]) /\ spans[k].ends \in {0, 1}
    /\ k[1] = "tool" => /\ k[3] <= step[k[2]]
                        /\ pc[k[2]] \in {"step", "llm", "decide"} => k[3] < step[k[2]]

\* The spans that State knows are open until they are exported, and no other root is.
RootsKnown ==
    /\ \A w \in Workers : Active(w) => root # None
    /\ root # None => root[1] = "root"
    /\ turnSpan # None => turnSpan[1] = "turn"
    /\ \A k \in {root, turnSpan} \ {None} :
           spans[k].ends = 0 <=> \A w \in Workers : pc[w] # "reset"
    /\ \A k \in DOMAIN spans : k[1] = "root" /\ spans[k].ends = 0 => k = root
    /\ \A w \in Workers : pc[w] = "export" =>
          ending[w].root = root /\ ending[w].turnSpan = turnSpan /\ ending[w].used = usage[turnNo]

ModelAsked == \A w \in Workers : pc[w] = "llm" =>
    LET call == <<"llm", w, step[w]>> IN
    llm[<<turn, step[w]>>] = call /\ call \in DOMAIN spans /\ spans[call].ends = 0

CallsOf(w) == [n \in 1..asked[w] |-> Call(w, n)]
QueueOpen ==
    /\ \A t \in Turns : \A k \in Range(queue[t]) : k[1] = "tool" /\ spans[k].ends = 0
    /\ \A w \in Workers : pc[w] = "tools" => batch[w] = turn

\* No turn with the same number has broken off among its tools.
Unmixed == raised = {} \/ cleared = 0
QueueKnown ==
    /\ \A w \in Workers : pc[w] = "tools" => queue[turn] = CallsOf(w)
    /\ \A w \in Workers : Active(w) /\ pc[w] # "tools" => queue[turn] = <<>>
    /\ \A t \in Turns : t > turn \/ (raised = {} /\ t # turn) => queue[t] = <<>>
    /\ raised = {} /\ AtRest => queue[turn] = <<>>
ToolsTell == \A s \in OfKind("tool") : spans[s].ends > 0 => spans[s].got = s

\* No exception has left anything behind.
OpenKnown == \A k \in Open(DOMAIN spans) :
    \/ k \in {root, turnSpan}
    \/ \E w \in Workers : pc[w] = "llm" /\ k = <<"llm", w, step[w]>>
    \/ \E t \in Turns : k \in Range(queue[t])
UsageKnown ==
    /\ \A w \in Workers : ~Begun(w) => spent[w] = 0
    /\ AtRest => root = None /\ turnSpan = None /\ \A t \in Turns : usage[t] = 0
    /\ \A w \in Workers : Active(w) =>
          /\ usage[turn] = spent[w]
          /\ \A t \in Turns : t # turn => usage[t] = 0
          /\ \/ turnSpan = None /\ pc[w] \in {"step", "end", "export", "reset"}
             \/ turnSpan = <<"turn", w>> /\ turnNo = turn
TurnsTell == \A s \in OfKind("turn") : spans[s].ends > 0 => spans[s].got = <<spent[s[2]]>>

Calm == /\ OneAtATime /\ KeysKnown /\ RootsKnown /\ ModelAsked /\ QueueOpen
        /\ Unmixed => QueueKnown /\ ToolsTell
        /\ raised = {} => OpenKnown /\ UsageKnown /\ TurnsTell

TelemetryInv == AgentTypes /\ SpanTypes /\ (Undisturbed => Calm)

--------------------------------------------------------------------------------
(* Spans *)

LEMMA OpenedDomain ==
    ASSUME NEW list, NEW key, NEW parent
    PROVE  DOMAIN Opened(list, key, parent) = DOMAIN list \cup {key}
BY DEF Opened

LEMMA OpenedFacts ==
    ASSUME NEW list, Proper(list), NEW key, key # None, NEW parent
    PROVE  /\ Proper(Opened(list, key, parent))
           /\ Opened(list, key, parent)[key].ends = 0
           /\ \A k \in DOMAIN list : k # key => Opened(list, key, parent)[k] = list[k]
BY DEF Proper, IsSpan, Opened

LEMMA EndedFacts ==
    ASSUME NEW list, Proper(list), NEW key \in DOMAIN list \cup {None}, NEW got
    PROVE  /\ Proper(Ended(list, key, got))
           /\ DOMAIN Ended(list, key, got) = DOMAIN list
           /\ key # None => /\ Ended(list, key, got)[key].ends = list[key].ends + 1
                            /\ Ended(list, key, got)[key].got = got
           /\ \A k \in DOMAIN list : k # key => Ended(list, key, got)[k] = list[k]
<1>1. CASE key = None
  BY <1>1 DEF Proper, Ended
<1>2. CASE key # None
  <2>1. /\ key \in DOMAIN list /\ IsSpan(list[key])
        /\ Ended(list, key, got) = [list EXCEPT ![key].ends = @ + 1, ![key].got = got]
    BY <1>2 DEF Ended, Proper
  <2>2. PICK new : new = [list[key] EXCEPT !.ends = @ + 1, !.got = got]
    OBVIOUS
  <2>3. new = [parent |-> list[key].parent, ends |-> list[key].ends + 1, got |-> got]
    BY <2>1, <2>2 DEF IsSpan
  <2>4. Ended(list, key, got) = [list EXCEPT ![key] = new]
    BY <2>1, <2>2
  <2>5. IsSpan(new)
    BY <2>1, <2>3 DEF IsSpan
  <2>6. PICK after : after = Ended(list, key, got)
    OBVIOUS
  <2>7. /\ DOMAIN after = DOMAIN list /\ after[key] = new
        /\ \A k \in DOMAIN list : k # key => after[k] = list[k]
    BY <2>1, <2>4, <2>6
  <2>8. Proper(after)
    BY <2>5, <2>7 DEF Proper
  <2>9. new.ends = list[key].ends + 1 /\ new.got = got
    BY <2>3
  <2> QED BY <1>2, <2>6, <2>7, <2>8, <2>9
<1> QED BY <1>1, <1>2

LEMMA KeysDiffer ==
    /\ \A w : <<"root", w>> # None /\ <<"turn", w>> # None /\ <<"approval", w>> # None
    /\ \A w, s : <<"llm", w, s>> # None /\ <<"llm", w, s, "late">> # None
    /\ \A w, s, n : <<"tool", w, s, n>> # None
BY DEF None

(* The calls of a queue that are not taken. *)
LEMMA TakingFacts ==
    ASSUME NEW K, NEW q \in Seq(K), NEW P \in SUBSET (DOMAIN q)
    PROVE  /\ Taking(q, P) \in Seq(K)
           /\ \A k \in Range(Taking(q, P)) : \E n \in P : k = q[n]
           /\ P = {} => Taking(q, P) = <<>>
<1> DEFINE c == Cardinality(P)
           r == [i \in P |-> Rank(P, i)]
<1>1. /\ Len(q) \in Nat /\ DOMAIN q = 1..Len(q) /\ \A n \in DOMAIN q : q[n] \in K
  BY LenProperties, ElementOfSeq
<1>2. IsFiniteSet(P) /\ c \in Nat /\ P \in SUBSET Nat
  <2>1. IsFiniteSet(1..Len(q))
    BY <1>1, FS_Interval
  <2>2. IsFiniteSet(P)
    BY <1>1, <2>1, FS_Subset
  <2> QED BY <1>1, <2>2, FS_CardinalityType
<1>3. ASSUME NEW i \in P PROVE Rank(P, i) \in 1..c
  <2>1. {j \in P : j <= i} \in SUBSET P /\ i \in {j \in P : j <= i}
    BY <1>2
  <2>2. PICK B : B = {j \in P : j <= i}
    OBVIOUS
  <2>3. IsFiniteSet(B) /\ Cardinality(B) <= c /\ Cardinality(B) \in Nat
    BY <1>2, <2>1, <2>2, FS_Subset, FS_CardinalityType
  <2>4. Cardinality(B) # 0
    BY <2>1, <2>2, <2>3, FS_EmptySet
  <2> QED BY <1>2, <2>2, <2>3, <2>4 DEF Rank
<1>4. ASSUME NEW i \in P, NEW j \in P, i < j PROVE Rank(P, i) # Rank(P, j)
  <2>1. PICK B, C : B = {k \in P : k <= i} /\ C = {k \in P : k <= j}
    OBVIOUS
  <2>2. \A k \in P : k <= i => k <= j
    BY <1>2, <1>4
  <2>3. B \in SUBSET C /\ j \in C /\ j \notin B /\ C \in SUBSET P
    BY <1>2, <1>4, <2>1, <2>2
  <2>4. IsFiniteSet(C)
    BY <1>2, <2>3, FS_Subset
  <2>5. Cardinality(B) # Cardinality(C)
    BY <2>3, <2>4, FS_Subset, FS_CardinalityType
  <2> QED BY <2>1, <2>5 DEF Rank
<1>5. r \in Injection(P, 1..c)
  <2>1. \A i, j \in P : i < j \/ j < i \/ i = j
    BY <1>2
  <2> QED BY <1>3, <1>4, <2>1 DEF Injection, IsInjective
<1>6. r \in Surjection(P, 1..c)
  BY <1>2, <1>5, FS_Interval, FS_Injection
<1>7. ASSUME NEW n \in 1..c PROVE InOrder(P)[n] \in P
  <2>1. \E i \in P : Rank(P, i) = n
    BY <1>6 DEF Surjection
  <2> QED BY <2>1 DEF InOrder
<1>8. Taking(q, P) \in [1..c -> K]
  BY <1>1, <1>7 DEF Taking
<1>9. \A k \in Range(Taking(q, P)) : \E n \in P : k = q[n]
  BY <1>7 DEF Taking, Range
<1>10. P = {} => Taking(q, P) = <<>>
  <2>1. ASSUME P = {} PROVE c = 0
    BY <2>1, FS_EmptySet
  <2> HIDE DEF c
  <2>2. ASSUME c = 0 PROVE [n \in 1..c |-> q[InOrder(P)[n]]] = <<>>
    BY <2>2
  <2> QED BY <2>1, <2>2 DEF Taking, c
<1>11. Taking(q, P) \in Seq(K)
  BY <1>2, <1>8, SeqDef
<1> QED BY <1>9, <1>10, <1>11

LEMMA SpansGrow ==
    ASSUME SpanTypes, DOMAIN spans \subseteq DOMAIN spans'
    PROVE  /\ root \in Keys' /\ turnSpan \in Keys'
           /\ llm \in [Turns \X Steps -> Keys'] /\ queue \in [Turns -> Seq(DOMAIN spans')]
           /\ \A w \in Workers : ending[w].root \in Keys' /\ ending[w].turnSpan \in Keys'
<1>1. Keys \subseteq Keys'
  BY DEF Keys
<1>2. queue \in [Turns -> Seq(DOMAIN spans')]
  <2>1. PICK S, T : S = DOMAIN spans /\ T = DOMAIN spans'
    OBVIOUS
  <2>2. \A q \in Seq(S) : q \in Seq(T)
    <3>1. ASSUME NEW q \in Seq(S) PROVE q \in Seq(T)
      <4>1. Len(q) \in Nat /\ q \in [1..Len(q) -> S]
        BY LenProperties
      <4>2. q \in [1..Len(q) -> T]
        BY <2>1, <4>1
      <4> QED BY <4>1, <4>2, SeqDef
    <3> QED BY <3>1
  <2> QED BY <2>1, <2>2 DEF SpanTypes
<1>3. llm \in [Turns \X Steps -> Keys']
  BY <1>1 DEF SpanTypes
<1> QED BY <1>1, <1>2, <1>3 DEF SpanTypes

(* The root span is there, or is opened. *)
LEMMA RootFacts ==
    ASSUME SpanTypes, NEW w \in Workers
    PROVE  /\ Proper(WithRoot(w)) /\ DOMAIN WithRoot(w) = DOMAIN spans \cup {RootFor(w)}
           /\ RootFor(w) # None /\ RootFor(w) \in {root, <<"root", w>>}
           /\ root # None => RootFor(w) = root /\ WithRoot(w) = spans
           /\ root = None => /\ RootFor(w) = <<"root", w>>
                             /\ WithRoot(w)[RootFor(w)].ends = 0
           /\ \A k \in DOMAIN spans : k # RootFor(w) => WithRoot(w)[k] = spans[k]
<1>1. CASE root # None
  BY <1>1 DEF SpanTypes, Keys, RootFor, WithRoot
<1>2. CASE root = None
  <2>1. RootFor(w) = <<"root", w>> /\ RootFor(w) # None /\ RootFor(w) # root
    BY <1>2, KeysDiffer DEF RootFor
  <2>2. WithRoot(w) = Opened(spans, RootFor(w), None)
    BY <2>1 DEF WithRoot
  <2>3. PICK key : key = RootFor(w)
    OBVIOUS
  <2>4. /\ Proper(WithRoot(w)) /\ DOMAIN WithRoot(w) = DOMAIN spans \cup {key}
        /\ WithRoot(w)[key].ends = 0
        /\ \A k \in DOMAIN spans : k # key => WithRoot(w)[k] = spans[k]
    <3>1. PICK list, parent : list = spans /\ parent = None
      OBVIOUS
    <3>2. Proper(list) /\ key # None
      BY <2>1, <2>3, <3>1 DEF SpanTypes
    <3>3. WithRoot(w) = Opened(list, key, parent)
      BY <2>2, <2>3, <3>1
    <3>4. DOMAIN Opened(list, key, parent) = DOMAIN list \cup {key}
      BY OpenedDomain
    <3>5. /\ Proper(Opened(list, key, parent))
          /\ Opened(list, key, parent)[key].ends = 0
          /\ \A k \in DOMAIN list : k # key => Opened(list, key, parent)[k] = list[k]
      BY <3>2, OpenedFacts
    <3> QED BY <3>1, <3>3, <3>4, <3>5
  <2> QED BY <1>2, <2>1, <2>3, <2>4
<1> QED BY <1>1, <1>2

(* A step of a worker that is at work. *)
LEMMA AgentMoves ==
    ASSUME AgentTypes, NEW w \in Workers, Active(w), NEW there \in PcValues \ {"new"}, Moves(w, there),
           UNCHANGED <<turn, cleared>>, left' \in {left, left \cup {w}}, raised' \in {raised, raised \cup {w}},
           step' \in [Workers -> 0..MaxSteps], step'[w] \in Steps,
           \A v \in Workers : v # w => step'[v] = step[v],
           asked' \in [Workers -> 0..MaxCalls], batch' \in [Workers -> Turns]
    PROVE  AgentTypes'
<1>1. /\ pc' \in [Workers -> PcValues] /\ pc'[w] = there
      /\ \A v \in Workers : v # w => pc'[v] = pc[v]
  BY DEF AgentTypes, Moves
<1>2. \A v \in Workers : Begun(v)' = Begun(v)
  BY <1>1 DEF Begun, Active
<1>3. BegunInOrder'
  BY <1>2 DEF AgentTypes, BegunInOrder
<1>4. \A v \in Workers : Active(v)' => step'[v] \in Steps
  BY <1>1 DEF AgentTypes, Active
<1>5. \A v \in left' \cup raised' : v \in Workers /\ Begun(v)'
  BY <1>2 DEF AgentTypes, Begun, Active
<1> QED BY <1>1, <1>3, <1>4, <1>5 DEF AgentTypes

LEMMA Alone ==
    ASSUME AgentTypes, OneAtATime, NEW w \in Workers, Active(w), NEW there \in PcValues \ {"new"},
           Moves(w, there), turn' = turn
    PROVE  /\ OneAtATime' /\ turn \in Turns /\ turn # 0 /\ ~AtRest
           /\ pc'[w] = there /\ (there # "over" => ~AtRest')
           /\ \A v \in Workers : v # w => pc'[v] = pc[v] /\ pc[v] \in {"new", "over"}
           /\ \A v \in Workers : Begun(v)' = Begun(v)
<1>1. /\ pc' \in [Workers -> PcValues] /\ pc'[w] = there
      /\ \A v \in Workers : v # w => pc'[v] = pc[v]
  BY DEF AgentTypes, Moves
<1>2. ASSUME NEW v \in Workers, v # w PROVE pc[v] \in {"new", "over"}
  <2>1. v < w \/ v > w
    BY <1>2 DEF Workers
  <2> QED BY <2>1 DEF OneAtATime
<1>3. \A v \in Workers : Begun(v)' = Begun(v)
  BY <1>1 DEF Begun, Active
<1>4. OneAtATime'
  BY <1>1, <1>2 DEF OneAtATime, Active
<1>5. turn \in Turns
  BY TelemetryAssumption DEF AgentTypes, BegunInOrder, Turns
<1> QED BY <1>1, <1>2, <1>3, <1>4, <1>5 DEF OneAtATime, AtRest, Active

--------------------------------------------------------------------------------
(* The steps *)

LEMMA TelemetryStart == TelemetryInit => TelemetryInv
<1> SUFFICES ASSUME TelemetryInit PROVE TelemetryInv
  OBVIOUS
<1>1. AgentTypes
  <2>1. BegunInOrder
    <3>1. 0 \in 0..MaxTurns /\ turn \in 0..0 /\ \A w \in Workers : Begun(w) <=> w <= 0
      BY TelemetryAssumption DEF TelemetryInit, Begun, Workers
    <3> QED BY <3>1 DEF BegunInOrder
  <2> QED BY <2>1, TelemetryAssumption DEF TelemetryInit, AgentTypes, PcValues, Active, Turns, Steps
<1>2. SpanTypes
  <2>1. None \in Keys /\ DOMAIN spans = {} /\ <<>> \in Seq(DOMAIN spans) /\ 0 \in Turns
    BY TelemetryAssumption, EmptySeq DEF TelemetryInit, Keys, None, Turns
  <2> QED BY <2>1 DEF TelemetryInit, SpanTypes, Proper, NoState, NotEnding
<1>3. Calm
  <2>1. DOMAIN spans = {} /\ AtRest /\ root = None /\ turnSpan = None
    BY DEF TelemetryInit, AtRest, NoState
  <2>2. \A w \in Workers : pc[w] = "new" /\ ~Active(w)
    BY DEF TelemetryInit, Active
  <2>3. \A t \in Turns : queue[t] = <<>> /\ Range(queue[t]) = {} /\ usage[t] = 0
    BY DEF TelemetryInit, NoState, Range
  <2>4. turn \in Turns
    BY TelemetryAssumption DEF TelemetryInit, Turns
  <2>5. OneAtATime /\ KeysKnown /\ ModelAsked /\ QueueOpen
    BY <2>1, <2>2, <2>3 DEF OneAtATime, KeysKnown, ModelAsked, QueueOpen
  <2>6. RootsKnown
    BY <2>1, <2>2 DEF RootsKnown
  <2>7. QueueKnown /\ ToolsTell /\ OpenKnown /\ TurnsTell
    BY <2>1, <2>2, <2>3, <2>4 DEF QueueKnown, ToolsTell, OpenKnown, TurnsTell, OfKind, Open
  <2>8. UsageKnown
    BY <2>1, <2>2, <2>3 DEF UsageKnown, TelemetryInit
  <2> QED BY <2>5, <2>6, <2>7, <2>8 DEF Calm
<1> QED BY <1>1, <1>2, <1>3 DEF TelemetryInv

(* The next worker begins when all before it are over: State is as the last one left it. *)
LEMMA TurnStartStays ==
    ASSUME TelemetryInv, NEW w \in Workers, TurnStart(w)
    PROVE  TelemetryInv'
<1>1. /\ pc[w] = "new" /\ pc' = [pc EXCEPT ![w] = "step"] /\ turn' = turn + 1
      /\ spans' = WithRoot(w) /\ root' = RootFor(w) /\ step' = [step EXCEPT ![w] = 1]
      /\ UNCHANGED <<asked, batch, left, raised, cleared, turnSpan, turnNo, llm, queue, usage,
                     ending, spent>>
  BY DEF TurnStart, Moves
<1>2. PICK c \in 0..MaxTurns : turn \in 0..c /\ \A v \in Workers : Begun(v) <=> v <= c
  BY DEF TelemetryInv, AgentTypes, BegunInOrder
<1>3. w = c + 1 /\ c \in Nat /\ w \in 1..MaxTurns /\ MaxTurns \in Nat
  <2>1. ~(w <= c) /\ c \in Nat /\ MaxTurns \in Nat /\ w \in 1..MaxTurns
    BY <1>1, <1>2, TelemetryAssumption DEF Begun, Workers
  <2>2. ASSUME NEW v \in 1..w - 1 PROVE v <= c
    <3>1. v \in Workers
      BY <2>1 DEF Workers
    <3>2. Begun(v)
      BY <3>1 DEF TurnStart, OutOfTheWay, TelemetryInv, AgentTypes, Begun
    <3> QED BY <1>2, <3>1, <3>2
  <2> QED BY <2>1, <2>2
<1>4. /\ pc' \in [Workers -> PcValues] /\ pc'[w] = "step" /\ step'[w] = 1 /\ 1 \in Steps
      /\ \A v \in Workers : v # w => pc'[v] = pc[v] /\ step'[v] = step[v]
      /\ step' \in [Workers -> 0..MaxSteps]
  BY <1>1, TelemetryAssumption DEF TelemetryInv, AgentTypes, PcValues, Steps
<1>5. AgentTypes'
  <2>1. c + 1 \in 0..MaxTurns /\ turn' \in 0..(c + 1)
    BY <1>1, <1>2, <1>3
  <2>2. \A v \in Workers : Begun(v)' <=> v <= c + 1
    BY <1>2, <1>3, <1>4 DEF Begun, Workers
  <2>3. BegunInOrder'
    BY <2>1, <2>2 DEF BegunInOrder
  <2>4. \A v \in Workers : Begun(v) => Begun(v)'
    BY <1>4 DEF Begun
  <2> QED BY <1>1, <1>4, <2>3, <2>4 DEF TelemetryInv, AgentTypes, Active
<1>6. /\ Proper(spans') /\ DOMAIN spans' = DOMAIN spans \cup {root'}
      /\ root' # None /\ root' \in {root, <<"root", w>>}
      /\ root # None => root' = root /\ spans' = spans
      /\ root = None => root' = <<"root", w>> /\ spans'[root'].ends = 0
      /\ \A k \in DOMAIN spans : k # root' => spans'[k] = spans[k]
  <2>1. SpanTypes
    BY DEF TelemetryInv
  <2> QED BY <1>1, <2>1, RootFacts
<1>7. SpanTypes'
  <2>1. DOMAIN spans \subseteq DOMAIN spans' /\ root' \in Keys'
    BY <1>6 DEF Keys
  <2>2. /\ turnSpan \in Keys'
        /\ llm \in [Turns \X Steps -> Keys'] /\ queue \in [Turns -> Seq(DOMAIN spans')]
        /\ \A v \in Workers : ending[v].root \in Keys' /\ ending[v].turnSpan \in Keys'
    BY <2>1, SpansGrow DEF TelemetryInv
  <2> QED BY <1>1, <1>6, <2>1, <2>2 DEF TelemetryInv, SpanTypes
<1>8. ASSUME Undisturbed' PROVE Calm'
  <2>1. Undisturbed /\ Calm
    BY <1>1, <1>8 DEF Undisturbed, TelemetryInv
  <2>2. ASSUME NEW v \in Workers, v # w
        PROVE  (v < w => pc[v] = "over") /\ (v > w => pc[v] = "new") /\ (pc[v] = "new" \/ pc[v] = "over")
    <3>1. v < w => v \in 1..w - 1
      BY <1>3 DEF Workers
    <3>2. v < w => pc[v] = "over"
      BY <2>1, <3>1 DEF TurnStart, OutOfTheWay, Undisturbed
    <3>3. v > w => pc[v] = "new"
      BY <1>2, <1>3 DEF Begun, Workers
    <3> QED BY <2>2, <3>2, <3>3 DEF Workers
  <2>3. AtRest /\ ~AtRest' /\ turn \in Nat /\ turn' # 0
    <3>1. AtRest
      BY <1>1, <2>2 DEF AtRest
    <3>2. turn \in Nat
      BY <1>2
    <3> QED BY <1>1, <1>4, <3>1, <3>2 DEF AtRest
  <2>4. OneAtATime'
    <3>1. \A v \in Workers : Active(v)' => v = w
      BY <1>4, <2>2 DEF Active
    <3>2. \A v \in Workers : v < w \/ v > w => v # w
      BY DEF Workers
    <3>3. \A v \in Workers : (v < w => pc'[v] = "over") /\ (v > w => pc'[v] = "new")
      BY <1>4, <2>2, <3>2
    <3> QED BY <2>3, <3>1, <3>3 DEF OneAtATime
  <2>5. KeysKnown'
    <3>1. \A k \in DOMAIN spans : k[2] # w \/ k[1] # "tool"
      BY <1>1, <2>1 DEF Calm, KeysKnown, Begun
    <3>2. \A k \in DOMAIN spans : k \in SpanKeys /\ k[2] # w /\ Begun(k[2])
      BY <1>1, <2>1 DEF Calm, KeysKnown, Begun
    <3>3. \A k \in DOMAIN spans : k[2] \in Workers
      BY <3>2 DEF SpanKeys
    <3>4. ASSUME NEW k \in DOMAIN spans, k # root' \/ root # None
          PROVE  /\ k \in SpanKeys /\ Begun(k[2])' /\ spans'[k].ends \in {0, 1}
                 /\ k[1] = "tool" => /\ k[3] <= step'[k[2]]
                                     /\ pc'[k[2]] \in {"step", "llm", "decide"} => k[3] < step'[k[2]]
      <4>1. spans'[k] = spans[k]
        BY <1>6, <3>4
      <4>2. pc'[k[2]] = pc[k[2]] /\ step'[k[2]] = step[k[2]]
        BY <1>4, <3>2, <3>3
      <4> QED BY <2>1, <4>1, <4>2 DEF Calm, KeysKnown, Begun
    <3>5. PICK r : r = root'
      OBVIOUS
    <3>6. ASSUME root = None
          PROVE  r \in SpanKeys /\ Begun(r[2])' /\ spans'[r].ends \in {0, 1} /\ r[1] # "tool"
      <4>1. r = <<"root", w>> /\ spans'[r].ends = 0
        BY <1>6, <3>5, <3>6
      <4>2. r[1] = "root" /\ r[2] = w /\ r \in SpanKeys
        BY <4>1 DEF SpanKeys
      <4> QED BY <1>4, <4>1, <4>2 DEF Begun
    <3>7. \A k \in DOMAIN spans' : (k \in DOMAIN spans /\ (k # root' \/ root # None))
                                   \/ (k = r /\ root = None)
      BY <1>6, <3>5
    <3>8. ASSUME NEW k \in DOMAIN spans'
          PROVE  /\ k \in SpanKeys /\ Begun(k[2])' /\ spans'[k].ends \in {0, 1}
                 /\ k[1] = "tool" => /\ k[3] <= step'[k[2]]
                                     /\ pc'[k[2]] \in {"step", "llm", "decide"} => k[3] < step'[k[2]]
      BY <3>4, <3>6, <3>7
    <3> QED BY <3>8 DEF KeysKnown
  <2>6. RootsKnown'
    <3>1. \A v \in Workers : pc'[v] \notin {"reset", "export"} /\ pc[v] \notin {"reset", "export"}
      BY <1>1, <1>4, <2>2
    <3>2. root'[1] = "root" /\ spans'[root'].ends = 0
      <4>1. CASE root = None
        BY <1>6, <4>1
      <4>2. CASE root # None
        BY <1>6, <2>1, <3>1, <4>2 DEF Calm, RootsKnown
      <4> QED BY <4>1, <4>2
    <3>3. turnSpan # None => turnSpan[1] = "turn" /\ spans'[turnSpan].ends = 0
      <4>1. turnSpan # None => turnSpan \in DOMAIN spans /\ turnSpan[1] = "turn" /\ spans[turnSpan].ends = 0
        <5>1. turnSpan # None => turnSpan \in DOMAIN spans
          BY DEF TelemetryInv, SpanTypes, Keys
        <5>2. RootsKnown
          BY <2>1 DEF Calm
        <5>3. turnSpan # None => turnSpan[1] = "turn"
          BY <5>2 DEF RootsKnown
        <5>4. turnSpan # None => spans[turnSpan].ends = 0
          BY <3>1, <5>2 DEF RootsKnown
        <5> QED BY <5>1, <5>3, <5>4
      <4>2. turnSpan # None => turnSpan # root'
        BY <3>2, <4>1
      <4> QED BY <1>6, <4>1, <4>2
    <3>4. ASSUME NEW k \in DOMAIN spans', k[1] = "root", spans'[k].ends = 0 PROVE k = root'
      <4>1. CASE k \in DOMAIN spans /\ spans'[k] = spans[k]
        <5>1. k = root
          BY <2>1, <3>4, <4>1 DEF Calm, RootsKnown
        <5>2. k # None
          BY <4>1 DEF TelemetryInv, SpanTypes, Proper
        <5> QED BY <1>6, <5>1, <5>2
      <4> QED BY <1>6, <3>4, <4>1
    <3> QED BY <1>1, <1>6, <3>1, <3>2, <3>3, <3>4 DEF RootsKnown
  <2>7. \A v \in Workers : pc'[v] \notin {"llm", "tools"}
    BY <1>4, <2>2
  <2>8. ModelAsked'
    BY <2>7 DEF ModelAsked
  <2>9. QueueOpen'
    <3>1. ASSUME NEW t \in Turns, NEW k \in Range(queue[t]) PROVE k[1] = "tool" /\ spans'[k].ends = 0
      <4>1. k[1] = "tool" /\ spans[k].ends = 0
        BY <2>1 DEF Calm, QueueOpen
      <4>2. k \in DOMAIN spans
        BY ElementOfSeq, LenProperties DEF TelemetryInv, SpanTypes, Range
      <4>3. k # root' \/ spans' = spans
        BY <1>6, <4>1
      <4> QED BY <1>6, <4>1, <4>2, <4>3
    <3> QED BY <1>1, <2>7, <3>1 DEF QueueOpen
  <2>10. ASSUME Unmixed' PROVE QueueKnown' /\ ToolsTell'
    <3>1. Unmixed /\ QueueKnown /\ ToolsTell
      BY <1>1, <2>1, <2>10 DEF Unmixed, Calm
    <3>2. \A t \in Turns : t >= turn + 1 => queue[t] = <<>>
      BY <2>3, <3>1 DEF QueueKnown, Turns
    <3>3. raised = {} => \A t \in Turns : queue[t] = <<>>
      BY <2>3, <3>1 DEF QueueKnown
    <3>4. turn + 1 \in Turns
      BY <1>2, <1>3 DEF Turns
    <3>5. QueueKnown'
      <4>1. \A t \in Turns : t > turn + 1 => t >= turn + 1
        BY <2>3 DEF Turns
      <4> QED BY <1>1, <2>3, <2>7, <3>2, <3>3, <3>4, <4>1 DEF QueueKnown
    <3>6. ASSUME NEW k \in DOMAIN spans', k[1] = "tool", spans'[k].ends > 0 PROVE spans'[k].got = k
      <4>1. k \in DOMAIN spans /\ spans'[k] = spans[k]
        BY <1>6, <3>6
      <4> QED BY <3>1, <3>6, <4>1 DEF ToolsTell, OfKind
    <3> QED BY <3>5, <3>6 DEF ToolsTell, OfKind
  <2>11. ASSUME raised' = {} PROVE OpenKnown' /\ UsageKnown' /\ TurnsTell'
    <3>1. OpenKnown /\ UsageKnown /\ TurnsTell
      BY <1>1, <2>1, <2>11 DEF Calm
    <3>2. root = None /\ turnSpan = None /\ \A t \in Turns : usage[t] = 0
      BY <2>3, <3>1 DEF UsageKnown
    <3>3. spent[w] = 0 /\ turn + 1 \in Turns
      BY <1>1, <1>2, <1>3, <3>1 DEF UsageKnown, Begun, Turns
    <3>4. UsageKnown'
      <4>1. \A v \in Workers : Active(v)' => v = w
        BY <1>4, <2>2 DEF Active
      <4>2. \A v \in Workers : ~Begun(v)' => spent[v] = 0
        BY <1>4, <3>1 DEF UsageKnown, Begun
      <4> QED BY <1>1, <1>4, <2>3, <3>2, <3>3, <4>1, <4>2 DEF UsageKnown
    <3>5. OpenKnown'
      <4>1. ASSUME NEW k \in DOMAIN spans', spans'[k].ends = 0, k # root'
            PROVE  \E t \in Turns : k \in Range(queue[t])
        <5>1. k \in DOMAIN spans /\ spans[k].ends = 0
          BY <1>6, <4>1
        <5>2. k # None
          BY <5>1 DEF TelemetryInv, SpanTypes, Proper
        <5> QED BY <1>1, <2>2, <3>1, <3>2, <5>1, <5>2 DEF OpenKnown, Open
      <4> QED BY <1>1, <4>1 DEF OpenKnown, Open
    <3>6. TurnsTell'
      <4>1. \A k \in DOMAIN spans' : k[1] = "turn" => k \in DOMAIN spans /\ spans'[k] = spans[k]
        BY <1>6
      <4> QED BY <1>1, <3>1, <4>1 DEF TurnsTell, OfKind
    <3> QED BY <3>4, <3>5, <3>6
  <2> QED BY <2>4, <2>5, <2>6, <2>8, <2>9, <2>10, <2>11 DEF Calm
<1> QED BY <1>5, <1>7, <1>8 DEF TelemetryInv

(* No span and nothing in State changes: the next model call, the stop, the spans taken, *)
(* an exception. *)
LEMMA QuietStays ==
    ASSUME TelemetryInv, NEW w \in Workers,
           NextStep(w) \/ StopSeen(w) \/ TakeSpans(w) \/ Raises(w)
    PROVE  TelemetryInv'
<1>1. PICK there \in {"step", "end", "export", "over"} :
         /\ Moves(w, there) /\ pc[w] \in {"step", "llm", "decide", "tools", "next", "end"}
         /\ pc[w] \in {"llm", "tools"} => there = "over"
         /\ there = "over" => pc[w] \in {"llm", "tools"}
         /\ there = "step" => pc[w] = "next"
  BY DEF NextStep, StopSeen, TakeSpans, Raises
<1>2. /\ UNCHANGED <<turn, asked, batch, left, cleared, state, spans, spent>>
      /\ Active(w) /\ there \in PcValues \ {"new"}
  BY <1>1 DEF NextStep, StopSeen, TakeSpans, Raises, Active, PcValues
<1>3. AgentTypes /\ SpanTypes
  BY DEF TelemetryInv
<1>4. pc \in [Workers -> PcValues] /\ pc'[w] = there /\ step[w] \in Steps /\ step \in [Workers -> 0..MaxSteps]
  BY <1>1, <1>2, <1>3 DEF AgentTypes, Moves
<1>5. raised' = IF there = "over" THEN raised \cup {w} ELSE raised
  BY <1>1, <1>4 DEF NextStep, StopSeen, TakeSpans, Raises, Moves
<1>6. /\ there = "step" => step[w] < MaxSteps /\ step' = [step EXCEPT ![w] = @ + 1]
      /\ there # "step" => step' = step
  BY <1>1, <1>4 DEF NextStep, StopSeen, TakeSpans, Raises, Moves
<1>7. /\ there = "export" => ending' = [ending EXCEPT ![w] = [root |-> root, turnSpan |-> turnSpan,
                                                             used |-> usage[turnNo]]]
      /\ there # "export" => ending' = ending
  BY <1>1, <1>4 DEF NextStep, StopSeen, TakeSpans, Raises, Moves
<1>8. /\ step' \in [Workers -> 0..MaxSteps] /\ step'[w] \in Steps
      /\ step'[w] = IF there = "step" THEN step[w] + 1 ELSE step[w]
      /\ \A v \in Workers : v # w => step'[v] = step[v]
  BY <1>4, <1>6, TelemetryAssumption DEF Steps
<1>9. AgentTypes'
  BY <1>1, <1>2, <1>3, <1>5, <1>8, AgentMoves DEF AgentTypes
<1>10. UNCHANGED <<root, turnSpan, turnNo, llm, queue, usage>>
  BY <1>2 DEF state
<1>11. SpanTypes'
  <2>1. Keys' = Keys /\ DOMAIN ending = Workers
    BY <1>2, <1>3 DEF Keys, SpanTypes
  <2>2. DOMAIN ending' = Workers /\ \A v \in Workers : ending'[v].root \in Keys /\ ending'[v].turnSpan \in Keys
    <3>1. \A v \in Workers : ending[v].root \in Keys /\ ending[v].turnSpan \in Keys
      BY <1>3 DEF SpanTypes
    <3>2. root \in Keys /\ turnSpan \in Keys
      BY <1>3 DEF SpanTypes
    <3>3. PICK new : new = [root |-> root, turnSpan |-> turnSpan, used |-> usage[turnNo]]
      OBVIOUS
    <3>4. new.root \in Keys /\ new.turnSpan \in Keys
      BY <3>2, <3>3
    <3>5. ending' = ending \/ ending' = [ending EXCEPT ![w] = new]
      BY <1>7, <3>3
    <3> QED BY <2>1, <3>1, <3>4, <3>5
  <2> QED BY <1>2, <1>3, <1>10, <2>1, <2>2 DEF SpanTypes
<1>12. ASSUME Undisturbed' PROVE Calm'
  <2>1. Undisturbed /\ Calm
    BY <1>2, <1>12 DEF Undisturbed, TelemetryInv
  <2>2. /\ OneAtATime' /\ turn \in Turns /\ turn # 0 /\ ~AtRest /\ (there # "over" => ~AtRest')
        /\ \A v \in Workers : v # w => pc'[v] = pc[v] /\ pc[v] \in {"new", "over"}
        /\ \A v \in Workers : Begun(v)' = Begun(v)
    BY <1>1, <1>2, <1>3, <2>1, Alone DEF Calm
  <2>3. /\ \A v \in Workers : pc[v] \notin {"reset", "export"} /\ pc'[v] \notin {"reset", "llm", "tools"}
        /\ \A v \in Workers : Active(v)' \/ pc'[v] = "export" => v = w
    BY <1>1, <1>4, <2>2 DEF Active
  <2>4. KeysKnown'
    <3>1. ASSUME NEW k \in DOMAIN spans
          PROVE  /\ k \in SpanKeys /\ Begun(k[2])' /\ spans[k].ends \in {0, 1}
                 /\ k[1] = "tool" => /\ k[3] <= step'[k[2]]
                                     /\ pc'[k[2]] \in {"step", "llm", "decide"} => k[3] < step'[k[2]]
      <4>1. /\ k \in SpanKeys /\ Begun(k[2]) /\ spans[k].ends \in {0, 1}
            /\ k[1] = "tool" => /\ k[3] <= step[k[2]]
                                /\ pc[k[2]] \in {"step", "llm", "decide"} => k[3] < step[k[2]]
        BY <2>1 DEF Calm, KeysKnown
      <4>2. k[2] \in Workers
        BY <4>1 DEF SpanKeys
      <4>3. Begun(k[2])'
        BY <2>2, <4>1, <4>2
      <4>4. CASE k[2] # w
        BY <1>8, <2>2, <4>1, <4>2, <4>3, <4>4
      <4>5. CASE k[2] = w /\ there = "step"
        <5>1. k[1] = "tool" => k[3] \in Steps
          BY <4>1 DEF SpanKeys
        <5>2. k[1] = "tool" => k[3] < step[w] + 1
          BY <1>4, <4>1, <4>5, <5>1 DEF Steps
        <5>3. k[1] = "tool" => k[3] <= step[w] + 1
          BY <1>4, <5>1, <5>2 DEF Steps
        <5> QED BY <1>8, <4>1, <4>3, <4>5, <5>2, <5>3
      <4>6. CASE k[2] = w /\ there # "step"
        BY <1>4, <1>8, <4>1, <4>3, <4>6
      <4> QED BY <4>4, <4>5, <4>6
    <3> QED BY <1>2, <3>1 DEF KeysKnown
  <2>5. RootsKnown'
    <3>1. root # None /\ RootsKnown
      BY <1>2, <2>1 DEF Calm, RootsKnown
    <3>2. ASSUME NEW v \in Workers, pc'[v] = "export"
          PROVE  ending'[v].root = root /\ ending'[v].turnSpan = turnSpan /\ ending'[v].used = usage[turnNo]
      <4>1. v = w /\ there = "export" /\ w \in DOMAIN ending
        BY <1>3, <1>4, <2>3, <3>2 DEF SpanTypes
      <4> QED BY <1>7, <4>1
    <3> QED BY <1>2, <1>10, <2>3, <3>1, <3>2 DEF RootsKnown
  <2>6. ModelAsked' /\ QueueOpen'
    BY <1>2, <1>10, <2>1, <2>3 DEF Calm, ModelAsked, QueueOpen
  <2>7. ASSUME Unmixed' PROVE QueueKnown' /\ ToolsTell'
    <3>1. Unmixed /\ QueueKnown /\ ToolsTell
      BY <1>2, <1>5, <2>1, <2>7 DEF Unmixed, Calm
    <3>2. ToolsTell'
      BY <1>2, <3>1 DEF ToolsTell, OfKind
    <3>3. ASSUME there # "over" PROVE queue[turn] = <<>> /\ raised' = raised
      BY <1>1, <1>2, <1>5, <3>1, <3>3 DEF QueueKnown
    <3>4. there = "over" => raised' # {} /\ \A v \in Workers : ~Active(v)'
      BY <1>4, <1>5, <2>3 DEF Active
    <3>5. \A t \in Turns : t > turn \/ (raised' = {} /\ t # turn) => queue[t] = <<>>
      BY <1>5, <3>1 DEF QueueKnown
    <3>6. \A v \in Workers : Active(v)' => queue[turn] = <<>>
      BY <3>3, <3>4
    <3> QED BY <1>2, <1>10, <2>2, <2>3, <3>2, <3>3, <3>4, <3>5, <3>6 DEF QueueKnown
  <2>8. ASSUME raised' = {} PROVE OpenKnown' /\ UsageKnown' /\ TurnsTell'
    <3>1. OpenKnown /\ UsageKnown /\ TurnsTell /\ there # "over" /\ pc[w] \notin {"llm", "tools"}
      BY <1>1, <1>5, <2>1, <2>8 DEF Calm
    <3>2. TurnsTell'
      BY <1>2, <3>1 DEF TurnsTell, OfKind
    <3>3. \A v \in Workers : pc[v] # "llm"
      BY <2>2, <3>1
    <3>4. OpenKnown'
      BY <1>2, <1>10, <3>1, <3>3 DEF OpenKnown, Open
    <3>5. \/ turnSpan = None /\ pc'[w] \in {"step", "end", "export", "reset"}
          \/ turnSpan = <<"turn", w>> /\ turnNo = turn
      BY <1>1, <1>2, <1>4, <3>1 DEF UsageKnown
    <3>6. UsageKnown'
      BY <1>2, <1>10, <2>2, <2>3, <3>1, <3>5 DEF UsageKnown
    <3> QED BY <3>2, <3>4, <3>6
  <2> QED BY <2>2, <2>4, <2>5, <2>6, <2>7, <2>8 DEF Calm
<1> QED BY <1>9, <1>11, <1>12 DEF TelemetryInv

(* From here on nothing is promised but types. *)
LEMMA AbandonStays ==
    ASSUME TelemetryInv, NEW w \in Workers, Abandon(w)
    PROVE  TelemetryInv'
<1>1. /\ left' = left \cup {w} /\ pc[w] \in {"llm", "tools"}
      /\ UNCHANGED <<turn, pc, step, asked, batch, raised, cleared, ending, spans, spent>>
      /\ UNCHANGED <<root, turnSpan, turnNo, llm, queue, usage>>
  BY DEF Abandon, state
<1>2. ~Undisturbed'
  BY <1>1 DEF Undisturbed
<1>3. AgentTypes' /\ SpanTypes'
  BY <1>1 DEF TelemetryInv, AgentTypes, SpanTypes, BegunInOrder, Begun, Active, Keys
<1> QED BY <1>2, <1>3 DEF TelemetryInv

(* Turn numbers start again while every queue is empty, or a turn has broken off. *)
LEMMA ClearStays ==
    ASSUME TelemetryInv, Clear
    PROVE  TelemetryInv'
<1>1. /\ cleared = 0 /\ cleared' = 1 /\ turn' = 0
      /\ \A w \in Workers : pc[w] \in {"new", "over"} \/ w \in left
      /\ UNCHANGED <<pc, step, asked, batch, left, raised, ending, spans, spent>>
      /\ UNCHANGED <<root, turnSpan, turnNo, llm, queue, usage>>
  BY DEF Clear, state
<1>2. AgentTypes'
  <2>1. \A w \in Workers : Begun(w)' = Begun(w) /\ Active(w)' = Active(w)
    BY <1>1 DEF Begun, Active
  <2>2. PICK c \in 0..MaxTurns : turn \in 0..c /\ \A w \in Workers : Begun(w) <=> w <= c
    BY DEF TelemetryInv, AgentTypes, BegunInOrder
  <2>3. BegunInOrder'
    <3>1. 0 \in 0..c
      BY <2>2, TelemetryAssumption
    <3> QED BY <1>1, <2>1, <2>2, <3>1 DEF BegunInOrder
  <2> QED BY <1>1, <2>1, <2>3 DEF TelemetryInv, AgentTypes
<1>3. SpanTypes'
  BY <1>1 DEF TelemetryInv, SpanTypes, Keys
<1>4. ASSUME Undisturbed' PROVE Calm'
  <2>1. Undisturbed /\ Calm
    BY <1>1, <1>4 DEF Undisturbed, TelemetryInv
  <2>2. AtRest /\ \A w \in Workers : ~Active(w) /\ pc[w] \notin {"llm", "tools", "export", "reset"}
    BY <1>1, <2>1 DEF Undisturbed, AtRest, Active
  <2>3. \A w \in Workers : ~Active(w)'
    BY <1>1, <2>2 DEF Active
  <2>4. OneAtATime' /\ ModelAsked' /\ QueueOpen' /\ AtRest'
    BY <1>1, <2>1, <2>2, <2>3 DEF OneAtATime, ModelAsked, QueueOpen, Calm, AtRest
  <2>5. KeysKnown' /\ RootsKnown'
    BY <1>1, <2>1, <2>3 DEF KeysKnown, RootsKnown, Calm, Begun
  <2>6. ASSUME Unmixed' PROVE QueueKnown' /\ ToolsTell'
    <3>1. raised = {} /\ QueueKnown /\ ToolsTell
      BY <1>1, <2>1, <2>6 DEF Unmixed, Calm
    <3>2. \A t \in Turns : queue[t] = <<>>
      BY <2>2, <3>1 DEF QueueKnown
    <3>3. 0 \in Turns
      BY TelemetryAssumption DEF Turns
    <3> QED BY <1>1, <2>2, <2>3, <3>1, <3>2, <3>3 DEF QueueKnown, ToolsTell, OfKind
  <2>7. ASSUME raised' = {} PROVE OpenKnown' /\ UsageKnown' /\ TurnsTell'
    <3>1. OpenKnown /\ UsageKnown /\ TurnsTell
      BY <1>1, <2>1, <2>7 DEF Calm
    <3>2. OpenKnown' /\ TurnsTell'
      BY <1>1, <3>1 DEF OpenKnown, TurnsTell, OfKind, Open
    <3>3. UsageKnown'
      BY <1>1, <2>2, <2>3, <3>1 DEF UsageKnown, Begun
    <3> QED BY <3>2, <3>3
  <2> QED BY <2>4, <2>5, <2>6, <2>7 DEF Calm
<1> QED BY <1>2, <1>3, <1>4 DEF TelemetryInv

(* A queue holds spans. *)
LEMMA QueueKeys ==
    ASSUME SpanTypes, NEW t \in Turns, NEW k \in Range(queue[t])
    PROVE  k \in DOMAIN spans /\ k # None
<1>1. queue[t] \in Seq(DOMAIN spans)
  BY DEF SpanTypes
<1>2. k \in DOMAIN spans
  BY <1>1, ElementOfSeq, LenProperties DEF Range
<1> QED BY <1>2 DEF SpanTypes, Proper

(* What is exported is what State still refers to, since nobody else has moved. *)
LEMMA ExportStays ==
    ASSUME TelemetryInv, NEW w \in Workers, Export(w)
    PROVE  TelemetryInv'
<1>1. /\ pc[w] = "export" /\ Moves(w, "reset") /\ Active(w) /\ "reset" \in PcValues \ {"new"}
      /\ spans' = Ended(Ended(spans, ending[w].turnSpan, <<ending[w].used>>), ending[w].root, <<>>)
      /\ UNCHANGED <<turn, step, asked, batch, left, raised, cleared, ending, spent>>
      /\ UNCHANGED <<root, turnSpan, turnNo, llm, queue, usage>>
  BY DEF Export, state, Active, PcValues
<1>2. AgentTypes /\ SpanTypes
  BY DEF TelemetryInv
<1>3. AgentTypes'
  <2>1. step[w] \in Steps
    BY <1>1, <1>2 DEF AgentTypes
  <2> QED BY <1>1, <1>2, <2>1, AgentMoves DEF AgentTypes
<1>4. PICK mine, whole, used : mine = ending[w].turnSpan /\ whole = ending[w].root /\ used = ending[w].used
  OBVIOUS
<1>5. PICK half : half = Ended(spans, mine, <<used>>)
  OBVIOUS
<1>6. /\ Proper(half) /\ DOMAIN half = DOMAIN spans
      /\ mine # None => /\ half[mine].ends = spans[mine].ends + 1 /\ half[mine].got = <<used>>
      /\ \A k \in DOMAIN spans : k # mine => half[k] = spans[k]
  <2>1. mine \in DOMAIN spans \cup {None} /\ Proper(spans)
    BY <1>2, <1>4 DEF SpanTypes, Keys
  <2>2. PICK list, got : list = spans /\ got = <<used>>
    OBVIOUS
  <2>3. Proper(list) /\ mine \in DOMAIN list \cup {None} /\ half = Ended(list, mine, got)
    BY <1>5, <2>1, <2>2
  <2>4. /\ Proper(half) /\ DOMAIN half = DOMAIN list
        /\ mine # None => /\ half[mine].ends = list[mine].ends + 1 /\ half[mine].got = got
        /\ \A k \in DOMAIN list : k # mine => half[k] = list[k]
    BY <2>3, EndedFacts
  <2> QED BY <2>2, <2>4
<1>7. /\ Proper(spans') /\ DOMAIN spans' = DOMAIN spans
      /\ whole # None => spans'[whole].ends = half[whole].ends + 1
      /\ \A k \in DOMAIN spans : k # whole => spans'[k] = half[k]
  <2>1. whole \in DOMAIN half \cup {None}
    BY <1>2, <1>4, <1>6 DEF SpanTypes, Keys
  <2>2. spans' = Ended(half, whole, <<>>)
    BY <1>1, <1>4, <1>5
  <2> QED BY <1>6, <2>1, <2>2, EndedFacts
<1>8. SpanTypes'
  <2>1. Keys' = Keys
    BY <1>7 DEF Keys
  <2> QED BY <1>1, <1>2, <1>7, <2>1 DEF SpanTypes
<1>9. ASSUME Undisturbed' PROVE Calm'
  <2>1. Undisturbed /\ Calm /\ KeysKnown /\ RootsKnown
    BY <1>1, <1>9 DEF Undisturbed, TelemetryInv, Calm
  <2>2. /\ OneAtATime' /\ turn \in Turns /\ turn # 0 /\ ~AtRest /\ ~AtRest' /\ pc'[w] = "reset"
        /\ \A v \in Workers : v # w => pc'[v] = pc[v] /\ pc[v] \in {"new", "over"}
        /\ \A v \in Workers : Begun(v)' = Begun(v)
    BY <1>1, <1>2, <2>1, Alone DEF Calm
  <2>3. /\ \A v \in Workers : pc[v] # "reset" /\ pc'[v] \notin {"export", "llm", "tools"} /\ pc[v] # "llm"
        /\ \A v \in Workers : Active(v)' => v = w
    BY <1>1, <2>2 DEF Active
  <2>4. /\ mine = turnSpan /\ whole = root /\ used = usage[turnNo] /\ root # None
        /\ root[1] = "root" /\ spans[root].ends = 0
        /\ turnSpan # None => turnSpan[1] = "turn" /\ spans[turnSpan].ends = 0
    BY <1>1, <1>4, <2>1, <2>3 DEF RootsKnown
  <2>5. root # turnSpan
    BY <2>4
  <2>6. /\ root \in DOMAIN spans /\ spans'[root].ends = 1
        /\ turnSpan # None => /\ turnSpan \in DOMAIN spans /\ spans'[turnSpan].ends = 1
                              /\ spans'[turnSpan].got = <<usage[turnNo]>>
        /\ \A k \in DOMAIN spans : k \notin {root, turnSpan} => spans'[k] = spans[k]
    <3>1. root \in DOMAIN spans /\ (turnSpan # None => turnSpan \in DOMAIN spans)
      BY <1>2, <2>4 DEF SpanTypes, Keys
    <3>2. half[root] = spans[root] /\ (turnSpan # None => spans'[turnSpan] = half[turnSpan])
      BY <1>6, <1>7, <2>4, <2>5, <3>1
    <3> QED BY <1>6, <1>7, <2>4, <3>1, <3>2
  <2>7. \A k \in DOMAIN spans : k[1] \notin {"root", "turn"} => spans'[k] = spans[k]
    <3>1. ASSUME NEW k \in DOMAIN spans, k[1] \notin {"root", "turn"} PROVE k \notin {root, turnSpan}
      <4>1. k # None
        BY <1>2 DEF SpanTypes, Proper
      <4> QED BY <2>4, <3>1, <4>1
    <3> QED BY <2>6, <3>1
  <2>8. \A k \in DOMAIN spans : spans'[k].ends = 0 => spans[k].ends = 0 /\ k \notin {root, turnSpan}
    <3>1. \A k \in DOMAIN spans : k # None
      BY <1>2 DEF SpanTypes, Proper
    <3> QED BY <2>6, <3>1
  <2>9. KeysKnown'
    <3>1. ASSUME NEW k \in DOMAIN spans
          PROVE  /\ k \in SpanKeys /\ Begun(k[2])' /\ spans'[k].ends \in {0, 1}
                 /\ k[1] = "tool" => /\ k[3] <= step[k[2]]
                                     /\ pc'[k[2]] \in {"step", "llm", "decide"} => k[3] < step[k[2]]
      <4>1. /\ k \in SpanKeys /\ Begun(k[2]) /\ spans[k].ends \in {0, 1}
            /\ k[1] = "tool" => /\ k[3] <= step[k[2]]
                                /\ pc[k[2]] \in {"step", "llm", "decide"} => k[3] < step[k[2]]
        BY <2>1 DEF KeysKnown
      <4>2. k[2] \in Workers /\ k # None
        BY <1>2, <4>1 DEF SpanKeys, SpanTypes, Proper
      <4>3. Begun(k[2])' /\ pc'[k[2]] \in {pc[k[2]], "reset"}
        BY <2>2, <4>1, <4>2
      <4>4. spans'[k].ends \in {0, 1}
        BY <2>6, <4>1, <4>2
      <4> QED BY <4>1, <4>3, <4>4
    <3> QED BY <1>1, <1>7, <3>1 DEF KeysKnown
  <2>10. RootsKnown'
    <3>1. \A k \in {root, turnSpan} \ {None} : spans'[k].ends = 0 <=> \A v \in Workers : pc'[v] # "reset"
      BY <2>2, <2>6
    <3>2. \A k \in DOMAIN spans : k[1] = "root" /\ spans'[k].ends = 0 => k = root
      BY <2>1, <2>8 DEF RootsKnown
    <3> QED BY <1>1, <1>7, <2>3, <2>4, <3>1, <3>2 DEF RootsKnown
  <2>11. ModelAsked' /\ QueueOpen'
    <3>1. \A t \in Turns : \A k \in Range(queue[t]) : k[1] = "tool" /\ spans[k].ends = 0 /\ k \in DOMAIN spans
      BY <1>2, <2>1, QueueKeys DEF Calm, QueueOpen
    <3>2. \A t \in Turns : \A k \in Range(queue[t]) : k[1] = "tool" /\ spans'[k].ends = 0
      BY <2>7, <3>1
    <3> QED BY <1>1, <2>3, <3>2 DEF ModelAsked, QueueOpen
  <2>12. ASSUME Unmixed' PROVE QueueKnown' /\ ToolsTell'
    <3>1. QueueKnown /\ ToolsTell
      BY <1>1, <2>1, <2>12 DEF Unmixed, Calm
    <3>2. QueueKnown'
      BY <1>1, <2>2, <2>3, <3>1 DEF QueueKnown
    <3>3. ToolsTell'
      BY <1>7, <2>7, <3>1 DEF ToolsTell, OfKind
    <3> QED BY <3>2, <3>3
  <2>13. ASSUME raised' = {} PROVE OpenKnown' /\ UsageKnown' /\ TurnsTell'
    <3>1. OpenKnown /\ UsageKnown /\ TurnsTell
      BY <1>1, <2>1, <2>13 DEF Calm
    <3>2. OpenKnown'
      BY <1>1, <1>7, <2>3, <2>8, <3>1 DEF OpenKnown, Open
    <3>3. UsageKnown'
      BY <1>1, <2>2, <2>3, <3>1 DEF UsageKnown
    <3>4. ASSUME NEW k \in DOMAIN spans, k[1] = "turn", spans'[k].ends > 0
          PROVE  spans'[k].got = <<spent[k[2]]>>
      <4>1. k # None
        BY <1>2 DEF SpanTypes, Proper
      <4>2. CASE k = turnSpan
        <5>1. turnSpan = <<"turn", w>> /\ turnNo = turn /\ usage[turn] = spent[w]
          BY <1>1, <3>1, <4>1, <4>2 DEF UsageKnown, Active
        <5>2. k[2] = w
          BY <4>2, <5>1
        <5> QED BY <2>6, <4>1, <4>2, <5>1, <5>2
      <4>3. CASE k # turnSpan
        <5>1. spans'[k] = spans[k]
          BY <2>4, <2>6, <3>4, <4>3
        <5> QED BY <3>1, <3>4, <5>1 DEF TurnsTell, OfKind
      <4> QED BY <4>2, <4>3
    <3>5. TurnsTell'
      BY <1>1, <1>7, <3>4 DEF TurnsTell, OfKind
    <3> QED BY <3>2, <3>3, <3>5
  <2> QED BY <2>2, <2>9, <2>10, <2>11, <2>12, <2>13 DEF Calm
<1> QED BY <1>3, <1>8, <1>9 DEF TelemetryInv

(* What State forgets was exported before. *)
LEMMA EndOfTurnStays ==
    ASSUME TelemetryInv, NEW w \in Workers, EndOfTurn(w)
    PROVE  TelemetryInv'
<1>1. /\ pc[w] = "reset" /\ Moves(w, "over") /\ Active(w) /\ "over" \in PcValues \ {"new"}
      /\ root' = None /\ turnSpan' = None /\ turnNo' = 0 /\ llm' = [k \in Turns \X Steps |-> None]
      /\ queue' = [t \in Turns |-> <<>>] /\ usage' = [t \in Turns |-> 0]
      /\ ending' = [ending EXCEPT ![w] = NotEnding]
      /\ UNCHANGED <<turn, step, asked, batch, left, raised, cleared, spans, spent>>
  BY DEF EndOfTurn, ResetState, NewState, NoState, Active, PcValues
<1>2. AgentTypes /\ SpanTypes
  BY DEF TelemetryInv
<1>3. AgentTypes'
  <2>1. step[w] \in Steps
    BY <1>1, <1>2 DEF AgentTypes
  <2> QED BY <1>1, <1>2, <2>1, AgentMoves DEF AgentTypes
<1>4. SpanTypes'
  <2>1. Keys' = Keys /\ None \in Keys /\ DOMAIN ending = Workers
    BY <1>1, <1>2 DEF Keys, SpanTypes
  <2>2. DOMAIN ending' = Workers /\ \A v \in Workers : ending'[v].root \in Keys /\ ending'[v].turnSpan \in Keys
    <3>1. NotEnding.root = None /\ NotEnding.turnSpan = None
      BY DEF NotEnding
    <3>2. \A v \in Workers : ending[v].root \in Keys /\ ending[v].turnSpan \in Keys
      BY <1>2 DEF SpanTypes
    <3> QED BY <1>1, <2>1, <3>1, <3>2
  <2>3. queue' \in [Turns -> Seq(DOMAIN spans)]
    BY <1>1, EmptySeq
  <2>4. 0 \in Turns
    BY TelemetryAssumption DEF Turns
  <2>5. llm' \in [Turns \X Steps -> Keys] /\ usage' \in [Turns -> Nat]
    BY <1>1, <2>1
  <2> QED BY <1>1, <1>2, <2>1, <2>2, <2>3, <2>4, <2>5 DEF SpanTypes
<1>5. ASSUME Undisturbed' PROVE Calm'
  <2>1. Undisturbed /\ Calm /\ KeysKnown /\ RootsKnown
    BY <1>1, <1>5 DEF Undisturbed, TelemetryInv, Calm
  <2>2. /\ OneAtATime' /\ turn \in Turns /\ pc'[w] = "over"
        /\ \A v \in Workers : v # w => pc'[v] = pc[v] /\ pc[v] \in {"new", "over"}
        /\ \A v \in Workers : Begun(v)' = Begun(v)
    BY <1>1, <1>2, <2>1, Alone DEF Calm
  <2>3. \A v \in Workers : ~Active(v)' /\ pc'[v] \in {"new", "over"} /\ pc[v] # "llm"
    BY <1>1, <2>2 DEF Active
  <2>4. \A k \in DOMAIN spans : spans[k].ends = 0 => k \notin {root, turnSpan}
    <3>1. \A k \in DOMAIN spans : k # None
      BY <1>2 DEF SpanTypes, Proper
    <3> QED BY <1>1, <2>1, <3>1 DEF RootsKnown
  <2>5. KeysKnown'
    <3>1. \A k \in DOMAIN spans : k \in SpanKeys /\ k[2] \in Workers
      BY <2>1 DEF KeysKnown, SpanKeys
    <3>2. \A v \in Workers : pc'[v] \in {pc[v], "over"}
      BY <2>2
    <3> QED BY <1>1, <2>1, <2>2, <3>1, <3>2 DEF KeysKnown
  <2>6. RootsKnown'
    <3>1. \A k \in DOMAIN spans : k[1] = "root" => spans[k].ends # 0
      BY <2>1, <2>4 DEF RootsKnown
    <3> QED BY <1>1, <2>3, <3>1 DEF RootsKnown
  <2>7. \A t \in Turns : queue'[t] = <<>> /\ Range(queue'[t]) = {}
    BY <1>1 DEF Range
  <2>8. ModelAsked' /\ QueueOpen'
    BY <2>3, <2>7 DEF ModelAsked, QueueOpen
  <2>9. ASSUME Unmixed' PROVE QueueKnown' /\ ToolsTell'
    <3>1. ToolsTell
      BY <1>1, <2>1, <2>9 DEF Unmixed, Calm
    <3>2. QueueKnown'
      BY <1>1, <2>2, <2>3, <2>7 DEF QueueKnown
    <3> QED BY <1>1, <3>1, <3>2 DEF ToolsTell, OfKind
  <2>10. ASSUME raised' = {} PROVE OpenKnown' /\ UsageKnown' /\ TurnsTell'
    <3>1. OpenKnown /\ UsageKnown /\ TurnsTell /\ QueueKnown
      BY <1>1, <2>1, <2>10 DEF Calm, Unmixed
    <3>2. \A t \in Turns : Range(queue[t]) = {}
      <4>1. \A t \in Turns : queue[t] = <<>>
        BY <1>1, <2>2, <2>10, <3>1 DEF QueueKnown
      <4> QED BY <4>1 DEF Range
    <3>3. OpenKnown'
      BY <1>1, <2>3, <2>4, <3>1, <3>2 DEF OpenKnown, Open
    <3>4. UsageKnown'
      BY <1>1, <2>2, <2>3, <3>1 DEF UsageKnown
    <3> QED BY <1>1, <3>1, <3>3, <3>4 DEF TurnsTell, OfKind
  <2> QED BY <2>2, <2>5, <2>6, <2>8, <2>9, <2>10 DEF Calm
<1> QED BY <1>3, <1>4, <1>5 DEF TelemetryInv

(* What asking the model opens. *)
LEMMA AskFacts ==
    ASSUME SpanTypes, NEW w \in Workers, AskModel(w), NEW call, call = <<"llm", w, step[w]>>,
           NEW mine, mine = <<"turn", w>>
    PROVE  /\ Proper(spans') /\ DOMAIN spans' = DOMAIN spans \cup {root', turnSpan', call}
           /\ spans'[call].ends = 0 /\ root' \in DOMAIN spans' /\ turnSpan' # None
           /\ turnNo' = turn /\ (root # None => root' = root)
           /\ turnSpan = None \/ turnNo # turn => turnSpan' = mine /\ spans'[mine].ends = 0
           /\ ~(turnSpan = None \/ turnNo # turn) => turnSpan' = turnSpan
           /\ \A k \in DOMAIN spans : root # None /\ k # call /\ (k = turnSpan' => turnSpan' = turnSpan /\ turnNo = turn)
                                         => spans'[k] = spans[k]
<1>1. PICK opens : opens = (turnSpan = None \/ turnNo # turn)
  OBVIOUS
<1>2. PICK t, withRoot : t = (IF opens THEN mine ELSE turnSpan) /\ withRoot = WithRoot(w)
  OBVIOUS
<1>3. PICK withTurn : withTurn = IF opens THEN Opened(withRoot, t, RootFor(w)) ELSE withRoot
  OBVIOUS
<1>4. /\ spans' = Opened(withTurn, call, t) /\ root' = RootFor(w) /\ turnSpan' = t /\ turnNo' = turn
  BY <1>1, <1>2, <1>3 DEF AskModel
<1>5. /\ Proper(withRoot) /\ DOMAIN withRoot = DOMAIN spans \cup {root'}
      /\ (root # None => root' = root /\ withRoot = spans)
  BY <1>2, <1>4, RootFacts
<1>6. t # None /\ mine # None /\ call # None /\ mine # call
  BY <1>1, <1>2, KeysDiffer
<1>7. ~opens => t \in DOMAIN spans
  BY <1>1, <1>2 DEF SpanTypes, Keys
<1>8. /\ Proper(withTurn) /\ DOMAIN withTurn = DOMAIN withRoot \cup {t}
      /\ opens => withTurn[t].ends = 0
      /\ \A k \in DOMAIN withRoot : k # t \/ ~opens => withTurn[k] = withRoot[k]
  <2>1. CASE opens
    <3>1. PICK above : above = RootFor(w)
      OBVIOUS
    <3>2. withTurn = Opened(withRoot, t, above)
      BY <1>3, <2>1, <3>1
    <3>3. DOMAIN Opened(withRoot, t, above) = DOMAIN withRoot \cup {t}
      BY OpenedDomain
    <3>4. /\ Proper(Opened(withRoot, t, above)) /\ Opened(withRoot, t, above)[t].ends = 0
          /\ \A k \in DOMAIN withRoot : k # t => Opened(withRoot, t, above)[k] = withRoot[k]
      BY <1>5, <1>6, OpenedFacts
    <3> QED BY <2>1, <3>2, <3>3, <3>4
  <2>2. CASE ~opens
    BY <1>3, <1>5, <1>7, <2>2
  <2> QED BY <2>1, <2>2
<1>9. DOMAIN spans' = DOMAIN withTurn \cup {call}
  <2>1. DOMAIN Opened(withTurn, call, t) = DOMAIN withTurn \cup {call}
    BY OpenedDomain
  <2> QED BY <1>4, <2>1
<1>10. /\ Proper(spans') /\ spans'[call].ends = 0
       /\ \A k \in DOMAIN withTurn : k # call => spans'[k] = withTurn[k]
  <2>1. /\ Proper(Opened(withTurn, call, t)) /\ Opened(withTurn, call, t)[call].ends = 0
        /\ \A k \in DOMAIN withTurn : k # call => Opened(withTurn, call, t)[k] = withTurn[k]
    BY <1>6, <1>8, OpenedFacts
  <2> QED BY <1>4, <2>1
<1>11. DOMAIN spans' = DOMAIN spans \cup {root', turnSpan', call}
  BY <1>4, <1>5, <1>8, <1>9
<1>12. opens => turnSpan' = mine /\ spans'[mine].ends = 0
  <2>1. ASSUME opens PROVE t = mine /\ mine \in DOMAIN withTurn /\ withTurn[mine].ends = 0
    BY <1>2, <1>8, <2>1
  <2> QED BY <1>4, <1>6, <1>10, <2>1
<1>13. ASSUME NEW k \in DOMAIN spans, root # None, k # call, k = turnSpan' => turnSpan' = turnSpan /\ turnNo = turn
       PROVE  spans'[k] = spans[k]
  <2>1. k # t \/ ~opens
    BY <1>1, <1>4, <1>6, <1>13
  <2> QED BY <1>5, <1>8, <1>10, <1>13, <2>1
<1> QED BY <1>1, <1>2, <1>4, <1>5, <1>6, <1>10, <1>11, <1>12, <1>13

(* The span of the turn is the one State knows, or a new one, and that of the call is open. *)
LEMMA AskModelStays ==
    ASSUME TelemetryInv, NEW w \in Workers, AskModel(w)
    PROVE  TelemetryInv'
<1>1. PICK call, mine : call = <<"llm", w, step[w]>> /\ mine = <<"turn", w>>
  OBVIOUS
<1>2. /\ pc[w] = "step" /\ Moves(w, "llm") /\ Active(w) /\ "llm" \in PcValues \ {"new"}
      /\ llm' = [llm EXCEPT ![<<turn, step[w]>>] = call]
      /\ UNCHANGED <<turn, step, asked, batch, left, raised, cleared, queue, usage, ending, spent>>
  BY <1>1 DEF AskModel, Active, PcValues
<1>3. AgentTypes /\ SpanTypes
  BY DEF TelemetryInv
<1>4. step[w] \in Steps /\ turn \in Turns
  BY <1>2, <1>3, TelemetryAssumption DEF AgentTypes, BegunInOrder, Turns
<1>5. AgentTypes'
  BY <1>2, <1>3, <1>4, AgentMoves DEF AgentTypes
<1>6. /\ Proper(spans') /\ DOMAIN spans' = DOMAIN spans \cup {root', turnSpan', call}
      /\ spans'[call].ends = 0 /\ root' \in DOMAIN spans' /\ turnSpan' # None
      /\ turnNo' = turn /\ (root # None => root' = root)
      /\ turnSpan = None \/ turnNo # turn => turnSpan' = mine /\ spans'[mine].ends = 0
      /\ ~(turnSpan = None \/ turnNo # turn) => turnSpan' = turnSpan
      /\ \A k \in DOMAIN spans : root # None /\ k # call /\ (k = turnSpan' => turnSpan' = turnSpan /\ turnNo = turn)
                                         => spans'[k] = spans[k]
  BY <1>1, <1>3, AskFacts
<1>7. SpanTypes'
  <2>1. DOMAIN spans \subseteq DOMAIN spans' /\ root' \in Keys' /\ turnSpan' \in Keys' /\ call \in Keys'
    BY <1>6 DEF Keys
  <2>2. /\ llm \in [Turns \X Steps -> Keys'] /\ queue \in [Turns -> Seq(DOMAIN spans')]
        /\ \A v \in Workers : ending[v].root \in Keys' /\ ending[v].turnSpan \in Keys'
    BY <1>3, <2>1, SpansGrow
  <2>3. llm' \in [Turns \X Steps -> Keys']
    BY <1>2, <2>1, <2>2
  <2> QED BY <1>2, <1>3, <1>4, <1>6, <2>1, <2>2, <2>3 DEF SpanTypes
<1>8. ASSUME Undisturbed' PROVE Calm'
  <2>1. Undisturbed /\ Calm /\ KeysKnown /\ RootsKnown /\ root # None /\ root[1] = "root" /\ root' = root
    BY <1>2, <1>6, <1>8 DEF Undisturbed, TelemetryInv, Calm, RootsKnown
  <2>2. /\ OneAtATime' /\ turn # 0 /\ ~AtRest /\ ~AtRest' /\ pc'[w] = "llm"
        /\ \A v \in Workers : v # w => pc'[v] = pc[v] /\ pc[v] \in {"new", "over"}
        /\ \A v \in Workers : Begun(v)' = Begun(v)
    BY <1>2, <1>3, <2>1, Alone DEF Calm
  <2>3. /\ \A v \in Workers : pc[v] \notin {"reset", "llm"} /\ pc'[v] \notin {"export", "reset", "tools"}
        /\ \A v \in Workers : Active(v)' => v = w
        /\ \A v \in Workers : pc'[v] = "llm" => v = w
    BY <1>2, <2>2 DEF Active
  <2>4. \A k \in DOMAIN spans : k # None
    BY <1>3 DEF SpanTypes, Proper
  <2>5. \/ turnSpan' = mine /\ spans'[mine].ends = 0 /\ (turnSpan = None \/ turnNo # turn)
        \/ turnSpan' = turnSpan /\ turnNo = turn /\ turnSpan \in DOMAIN spans /\ turnSpan[1] = "turn"
           /\ spans[turnSpan].ends = 0
    <3>1. turnSpan # None => turnSpan \in DOMAIN spans /\ turnSpan[1] = "turn" /\ spans[turnSpan].ends = 0
      BY <1>3, <2>1, <2>3 DEF SpanTypes, Keys, RootsKnown
    <3> QED BY <1>6, <3>1
  <2>6. /\ mine[1] = "turn" /\ mine[2] = w /\ mine \in SpanKeys
        /\ call[1] = "llm" /\ call[2] = w /\ call \in SpanKeys
    BY <1>1, <1>4 DEF SpanKeys
  <2>7. turnSpan'[1] = "turn" /\ spans'[turnSpan'].ends = 0
    BY <1>6, <2>1, <2>5, <2>6
  <2>8. \A k \in DOMAIN spans : k[1] \notin {"turn", "llm"} => spans'[k] = spans[k]
    BY <1>6, <2>1, <2>6, <2>7
  <2>9. \A k \in DOMAIN spans' : k \in DOMAIN spans \/ k \in {mine, call}
    <3>1. root \in DOMAIN spans
      BY <1>3, <2>1 DEF SpanTypes, Keys
    <3> QED BY <1>6, <2>1, <2>5, <3>1
  <2>10. \A k \in DOMAIN spans' : k = call \/ k = turnSpan' \/ (k \in DOMAIN spans /\ spans'[k] = spans[k])
    <3>1. root \in DOMAIN spans
      BY <1>3, <2>1 DEF SpanTypes, Keys
    <3> QED BY <1>6, <2>1, <3>1
  <2>11. KeysKnown'
    <3>1. ASSUME NEW k \in DOMAIN spans'
          PROVE  /\ k \in SpanKeys /\ Begun(k[2])' /\ spans'[k].ends \in {0, 1}
                 /\ k[1] = "tool" => /\ k[3] <= step[k[2]]
                                     /\ pc'[k[2]] \in {"step", "llm", "decide"} => k[3] < step[k[2]]
      <4>1. spans'[k].ends \in {0, 1}
        BY <1>6, <2>1, <2>7, <2>10 DEF KeysKnown
      <4>2. CASE k \in {mine, call}
        BY <2>2, <2>6, <4>1, <4>2 DEF Begun
      <4>3. CASE k \in DOMAIN spans
        <5>1. /\ k \in SpanKeys /\ Begun(k[2])
              /\ k[1] = "tool" => /\ k[3] <= step[k[2]]
                                  /\ pc[k[2]] \in {"step", "llm", "decide"} => k[3] < step[k[2]]
          BY <2>1, <4>3 DEF KeysKnown
        <5>2. k[2] \in Workers
          BY <5>1 DEF SpanKeys
        <5>3. Begun(k[2])' /\ (pc'[k[2]] = pc[k[2]] \/ pc[k[2]] = "step")
          BY <1>2, <2>2, <5>1, <5>2
        <5> QED BY <4>1, <5>1, <5>3
      <4> QED BY <2>9, <4>2, <4>3
    <3> QED BY <1>2, <3>1 DEF KeysKnown
  <2>12. RootsKnown'
    <3>1. root # turnSpan' /\ root \in DOMAIN spans
      BY <1>3, <2>1, <2>7 DEF SpanTypes, Keys
    <3>2. spans'[root].ends = 0
      <4>1. spans[root].ends = 0
        BY <2>1, <2>3 DEF RootsKnown
      <4> QED BY <2>1, <2>8, <3>1, <4>1
    <3>3. \A k \in {root, turnSpan'} \ {None} : spans'[k].ends = 0 <=> \A v \in Workers : pc'[v] # "reset"
      BY <2>3, <2>7, <3>2
    <3>4. ASSUME NEW k \in DOMAIN spans', k[1] = "root", spans'[k].ends = 0 PROVE k = root
      <4>1. k \in DOMAIN spans /\ spans'[k] = spans[k]
        BY <2>6, <2>7, <2>10, <3>4
      <4> QED BY <2>1, <3>4, <4>1 DEF RootsKnown
    <3> QED BY <2>1, <2>3, <2>7, <3>3, <3>4 DEF RootsKnown
  <2>13. ModelAsked'
    <3>1. llm'[<<turn, step[w]>>] = call
      BY <1>2, <1>3, <1>4 DEF SpanTypes
    <3>2. call \in DOMAIN spans' /\ spans'[call].ends = 0
      BY <1>6
    <3> QED BY <1>1, <1>2, <2>3, <3>1, <3>2 DEF ModelAsked
  <2>14. QueueOpen'
    <3>1. \A t \in Turns : \A k \in Range(queue[t]) : k[1] = "tool" /\ spans[k].ends = 0 /\ k \in DOMAIN spans
      BY <1>3, <2>1, QueueKeys DEF Calm, QueueOpen
    <3>2. \A t \in Turns : \A k \in Range(queue[t]) : k[1] = "tool" /\ spans'[k].ends = 0
      BY <2>8, <3>1
    <3> QED BY <1>2, <2>3, <3>2 DEF QueueOpen
  <2>15. ASSUME Unmixed' PROVE QueueKnown' /\ ToolsTell'
    <3>1. QueueKnown /\ ToolsTell
      BY <1>2, <2>1, <2>15 DEF Unmixed, Calm
    <3>2. QueueKnown'
      BY <1>2, <2>2, <2>3, <3>1 DEF QueueKnown
    <3>3. \A k \in DOMAIN spans' : k[1] = "tool" => k \in DOMAIN spans /\ spans'[k] = spans[k]
      BY <2>6, <2>7, <2>10
    <3> QED BY <3>1, <3>2, <3>3 DEF ToolsTell, OfKind
  <2>16. ASSUME raised' = {} PROVE OpenKnown' /\ UsageKnown' /\ TurnsTell'
    <3>1. OpenKnown /\ UsageKnown /\ TurnsTell
      BY <1>2, <2>1, <2>16 DEF Calm
    <3>2. turnSpan' = mine /\ (turnSpan = None \/ turnSpan = mine)
      BY <1>1, <1>2, <1>6, <2>5, <3>1 DEF UsageKnown
    <3>3. OpenKnown'
      <4>1. ASSUME NEW k \in DOMAIN spans', spans'[k].ends = 0, k \notin {root, turnSpan', call}
            PROVE  \E t \in Turns : k \in Range(queue[t])
        <5>1. k \in DOMAIN spans /\ spans[k].ends = 0 /\ k # turnSpan
          BY <2>4, <2>10, <3>2, <4>1
        <5> QED BY <2>3, <3>1, <4>1, <5>1 DEF OpenKnown, Open
      <4> QED BY <1>1, <1>2, <2>1, <2>2, <4>1 DEF OpenKnown, Open
    <3>4. UsageKnown'
      BY <1>1, <1>2, <1>6, <2>2, <2>3, <3>1, <3>2 DEF UsageKnown
    <3>5. \A k \in DOMAIN spans' : k[1] = "turn" /\ spans'[k].ends > 0 => k \in DOMAIN spans /\ spans'[k] = spans[k]
      BY <2>6, <2>7, <2>10
    <3>6. TurnsTell'
      BY <1>2, <3>1, <3>5 DEF TurnsTell, OfKind
    <3> QED BY <3>3, <3>4, <3>6
  <2> QED BY <2>2, <2>11, <2>12, <2>13, <2>14, <2>15, <2>16 DEF Calm
<1> QED BY <1>5, <1>7, <1>8 DEF TelemetryInv

(* The call whose span is ended is the one that was asked; the turn's span is still open, so
   that no ended span tells of the old usage. *)
LEMMA AnsweredStays ==
    ASSUME TelemetryInv, NEW w \in Workers, NEW n \in 0..MaxCalls, Answered(w, n)
    PROVE  TelemetryInv'
<1>1. PICK call, late, pending :
        call = <<"llm", w, step[w]>> /\ late = <<"llm", w, step[w], "late">> /\ pending = llm[<<turn, step[w]>>]
  OBVIOUS
<1>2. PICK there : there = IF n = 0 THEN "end" ELSE "decide"
  OBVIOUS
<1>3. /\ pc[w] = "llm" /\ Moves(w, there) /\ Active(w) /\ there \in PcValues \ {"new"} /\ there \in {"end", "decide"}
      /\ spans' = IF pending # None THEN Ended(spans, pending, <<>>)
                  ELSE Ended(Opened(spans, late, TurnContext), late, <<>>)
      /\ llm' = [llm EXCEPT ![<<turn, step[w]>>] = None]
      /\ usage' = [usage EXCEPT ![turn] = @ + 1] /\ spent' = [spent EXCEPT ![w] = @ + 1]
      /\ asked' = [asked EXCEPT ![w] = n]
      /\ UNCHANGED <<turn, step, batch, left, raised, cleared, root, turnSpan, turnNo, queue, ending>>
  BY <1>1, <1>2 DEF Answered, Active, PcValues
<1>4. AgentTypes /\ SpanTypes
  BY DEF TelemetryInv
<1>5. step[w] \in Steps /\ turn \in Turns
  BY <1>3, <1>4, TelemetryAssumption DEF AgentTypes, BegunInOrder, Turns
<1>6. AgentTypes'
  <2>1. asked' \in [Workers -> 0..MaxCalls]
    BY <1>3, <1>4 DEF AgentTypes
  <2> QED BY <1>3, <1>4, <1>5, <2>1, AgentMoves DEF AgentTypes
<1>7. /\ Proper(spans') /\ DOMAIN spans \subseteq DOMAIN spans'
      /\ pending # None => /\ pending \in DOMAIN spans /\ DOMAIN spans' = DOMAIN spans
                           /\ spans'[pending].ends = spans[pending].ends + 1
                           /\ \A k \in DOMAIN spans : k # pending => spans'[k] = spans[k]
  <2>1. PICK list, key, got : /\ list = (IF pending # None THEN spans ELSE Opened(spans, late, TurnContext))
                              /\ key = (IF pending # None THEN pending ELSE late) /\ got = <<>>
    OBVIOUS
  <2>2. spans' = Ended(list, key, got)
    BY <1>3, <2>1
  <2>3. pending \in DOMAIN spans \cup {None}
    BY <1>1, <1>4, <1>5 DEF SpanTypes, Keys
  <2>4. Proper(list) /\ key \in DOMAIN list /\ DOMAIN spans \subseteq DOMAIN list
    <3>1. CASE pending # None
      BY <1>4, <2>1, <2>3, <3>1 DEF SpanTypes
    <3>2. CASE pending = None
      <4>1. PICK old, above : old = spans /\ above = TurnContext
        OBVIOUS
      <4>2. list = Opened(old, late, above) /\ key = late /\ late # None /\ Proper(old)
        BY <1>1, <1>4, <2>1, <3>2, <4>1, KeysDiffer DEF SpanTypes
      <4>3. DOMAIN Opened(old, late, above) = DOMAIN old \cup {late}
        BY OpenedDomain
      <4>4. Proper(Opened(old, late, above))
        BY <4>2, OpenedFacts
      <4> QED BY <4>1, <4>2, <4>3, <4>4
    <3> QED BY <3>1, <3>2
  <2>5. key \in DOMAIN list \cup {None} /\ key # None
    BY <2>4 DEF Proper
  <2>6. /\ Proper(spans') /\ DOMAIN spans' = DOMAIN list /\ spans'[key].ends = list[key].ends + 1
        /\ \A k \in DOMAIN list : k # key => spans'[k] = list[k]
    BY <2>2, <2>4, <2>5, EndedFacts
  <2> QED BY <2>1, <2>4, <2>6
<1>8. SpanTypes'
  <2>1. None \in Keys' /\ DOMAIN spent' = Workers
    BY <1>3, <1>4 DEF Keys, SpanTypes
  <2>2. /\ root \in Keys' /\ turnSpan \in Keys'
        /\ llm \in [Turns \X Steps -> Keys'] /\ queue \in [Turns -> Seq(DOMAIN spans')]
        /\ \A v \in Workers : ending[v].root \in Keys' /\ ending[v].turnSpan \in Keys'
    BY <1>4, <1>7, SpansGrow
  <2>3. llm' \in [Turns \X Steps -> Keys']
    BY <1>3, <2>1, <2>2
  <2>4. usage' \in [Turns -> Nat]
    BY <1>3, <1>4, <1>5 DEF SpanTypes
  <2> QED BY <1>3, <1>4, <1>7, <2>1, <2>2, <2>3, <2>4 DEF SpanTypes
<1>9. ASSUME Undisturbed' PROVE Calm'
  <2>1. Undisturbed /\ Calm /\ KeysKnown /\ RootsKnown /\ root # None /\ root[1] = "root"
    BY <1>3, <1>9 DEF Undisturbed, TelemetryInv, Calm, RootsKnown
  <2>2. /\ OneAtATime' /\ turn # 0 /\ ~AtRest /\ ~AtRest' /\ pc'[w] = there
        /\ \A v \in Workers : v # w => pc'[v] = pc[v] /\ pc[v] \in {"new", "over"}
        /\ \A v \in Workers : Begun(v)' = Begun(v)
    BY <1>3, <1>4, <2>1, Alone DEF Calm
  <2>3. /\ \A v \in Workers : pc[v] # "reset" /\ pc'[v] \notin {"export", "reset", "tools", "llm"}
        /\ \A v \in Workers : Active(v)' => v = w
        /\ \A v \in Workers : pc[v] = "llm" => v = w
    BY <1>3, <2>2 DEF Active
  <2>4. pending = call /\ call \in DOMAIN spans /\ spans[call].ends = 0
    BY <1>1, <1>3, <2>1 DEF Calm, ModelAsked
  <2>5. /\ DOMAIN spans' = DOMAIN spans /\ spans'[call].ends = 1 /\ call[1] = "llm"
        /\ \A k \in DOMAIN spans : k # call => spans'[k] = spans[k]
    <3>1. call # None
      BY <1>1, KeysDiffer
    <3> QED BY <1>1, <1>7, <2>4, <3>1
  <2>6. \A k \in DOMAIN spans : k[1] # "llm" => spans'[k] = spans[k]
    BY <2>5
  <2>7. KeysKnown'
    <3>1. ASSUME NEW k \in DOMAIN spans
          PROVE  /\ k \in SpanKeys /\ Begun(k[2])' /\ spans'[k].ends \in {0, 1}
                 /\ k[1] = "tool" => /\ k[3] <= step[k[2]]
                                     /\ pc'[k[2]] \in {"step", "llm", "decide"} => k[3] < step[k[2]]
      <4>1. /\ k \in SpanKeys /\ Begun(k[2]) /\ spans[k].ends \in {0, 1}
            /\ k[1] = "tool" => /\ k[3] <= step[k[2]]
                                /\ pc[k[2]] \in {"step", "llm", "decide"} => k[3] < step[k[2]]
        BY <2>1 DEF KeysKnown
      <4>2. k[2] \in Workers /\ spans'[k].ends \in {0, 1}
        BY <2>5, <4>1 DEF SpanKeys
      <4>3. Begun(k[2])' /\ (pc'[k[2]] = pc[k[2]] \/ pc[k[2]] = "llm")
        BY <1>3, <2>2, <4>1, <4>2
      <4> QED BY <4>1, <4>2, <4>3
    <3> QED BY <1>3, <2>5, <3>1 DEF KeysKnown
  <2>8. turnSpan # None => turnSpan[1] = "turn" /\ turnSpan \in DOMAIN spans
    BY <1>4, <2>1 DEF RootsKnown, SpanTypes, Keys
  <2>9. RootsKnown'
    <3>1. root \in DOMAIN spans
      BY <1>4, <2>1 DEF SpanTypes, Keys
    <3>2. \A k \in {root, turnSpan} \ {None} : spans'[k].ends = 0 <=> \A v \in Workers : pc'[v] # "reset"
      <4>1. \A k \in {root, turnSpan} \ {None} : spans[k].ends = 0 /\ spans'[k] = spans[k]
        BY <2>1, <2>3, <2>6, <2>8, <3>1 DEF RootsKnown
      <4> QED BY <2>3, <4>1
    <3>3. \A k \in DOMAIN spans' : k[1] = "root" /\ spans'[k].ends = 0 => k = root
      BY <2>1, <2>5, <2>6 DEF RootsKnown
    <3> QED BY <1>3, <2>1, <2>3, <2>8, <3>2, <3>3 DEF RootsKnown
  <2>10. ModelAsked' /\ QueueOpen'
    <3>1. \A t \in Turns : \A k \in Range(queue[t]) : k[1] = "tool" /\ spans[k].ends = 0 /\ k \in DOMAIN spans
      BY <1>4, <2>1, QueueKeys DEF Calm, QueueOpen
    <3>2. \A t \in Turns : \A k \in Range(queue[t]) : k[1] = "tool" /\ spans'[k].ends = 0
      BY <2>6, <3>1
    <3> QED BY <1>3, <2>3, <3>2 DEF ModelAsked, QueueOpen
  <2>11. ASSUME Unmixed' PROVE QueueKnown' /\ ToolsTell'
    <3>1. QueueKnown /\ ToolsTell
      BY <1>3, <2>1, <2>11 DEF Unmixed, Calm
    <3>2. queue[turn] = <<>>
      BY <1>3, <3>1 DEF QueueKnown
    <3>3. QueueKnown'
      BY <1>3, <2>2, <2>3, <3>1, <3>2 DEF QueueKnown
    <3>4. ToolsTell'
      BY <2>5, <2>6, <3>1 DEF ToolsTell, OfKind
    <3> QED BY <3>3, <3>4
  <2>12. ASSUME raised' = {} PROVE OpenKnown' /\ UsageKnown' /\ TurnsTell'
    <3>1. OpenKnown /\ UsageKnown /\ TurnsTell
      BY <1>3, <2>1, <2>12 DEF Calm
    <3>2. OpenKnown'
      <4>1. ASSUME NEW k \in DOMAIN spans', spans'[k].ends = 0
            PROVE  k \in {root, turnSpan} \/ \E t \in Turns : k \in Range(queue[t])
        <5>1. k \in DOMAIN spans /\ k # call /\ spans[k].ends = 0
          BY <2>5, <4>1
        <5> QED BY <1>1, <2>3, <3>1, <5>1 DEF OpenKnown, Open
      <4> QED BY <1>3, <4>1 DEF OpenKnown, Open
    <3>3. /\ turnSpan = <<"turn", w>> /\ turnNo = turn /\ usage[turn] = spent[w]
          /\ \A t \in Turns : t # turn => usage[t] = 0
      BY <1>3, <3>1 DEF UsageKnown
    <3>4. /\ usage'[turn] = spent'[w] /\ \A t \in Turns : t # turn => usage'[t] = usage[t]
          /\ \A v \in Workers : v # w => spent'[v] = spent[v]
      BY <1>3, <1>4, <1>5, <3>3 DEF SpanTypes
    <3>5. UsageKnown'
      <4>1. Begun(w)'
        BY <1>3, <2>2 DEF Begun
      <4>2. \A v \in Workers : ~Begun(v)' => spent'[v] = 0
        BY <2>2, <3>1, <3>4, <4>1 DEF UsageKnown
      <4> QED BY <1>3, <2>2, <2>3, <3>3, <3>4, <4>2 DEF UsageKnown
    <3>6. ASSUME NEW k \in DOMAIN spans, k[1] = "turn", spans'[k].ends > 0
          PROVE  spans'[k].got = <<spent'[k[2]]>>
      <4>1. spans'[k] = spans[k] /\ k \in SpanKeys
        BY <2>1, <2>6, <3>6 DEF KeysKnown
      <4>2. k = <<"turn", k[2]>> /\ k[2] \in Workers
        BY <3>6, <4>1 DEF SpanKeys
      <4>3. k # turnSpan
        <5>1. turnSpan # None
          BY <3>3, KeysDiffer
        <5>2. spans[turnSpan].ends = 0
          BY <2>1, <2>3, <5>1 DEF RootsKnown
        <5> QED BY <3>6, <4>1, <5>2
      <4>4. k[2] # w
        BY <3>3, <4>2, <4>3
      <4> QED BY <3>1, <3>4, <3>6, <4>1, <4>2, <4>4 DEF TurnsTell, OfKind
    <3>7. TurnsTell'
      BY <2>5, <3>6 DEF TurnsTell, OfKind
    <3> QED BY <3>2, <3>5, <3>7
  <2> QED BY <2>2, <2>7, <2>9, <2>10, <2>11, <2>12 DEF Calm
<1> QED BY <1>6, <1>8, <1>9 DEF TelemetryInv

(* An approval's span is over as soon as it is there. *)
LEMMA ApprovalStays ==
    ASSUME TelemetryInv, NEW w \in Workers, Approval(w)
    PROVE  TelemetryInv'
<1>1. PICK ask, above : ask = <<"approval", w>> /\ above = (IF turnSpan = None THEN RootFor(w) ELSE turnSpan)
  OBVIOUS
<1>2. PICK got : got = <<>>
  OBVIOUS
<1>3. /\ pc[w] = "tools" /\ Active(w) /\ ask \notin DOMAIN spans
      /\ spans' = Ended(Opened(WithRoot(w), ask, above), ask, got) /\ root' = RootFor(w)
      /\ UNCHANGED <<turn, pc, step, asked, batch, left, raised, cleared>>
      /\ UNCHANGED <<turnSpan, turnNo, llm, queue, usage, ending, spent>>
  BY <1>1, <1>2 DEF Approval, agent, Active
<1>4. AgentTypes /\ SpanTypes
  BY DEF TelemetryInv
<1>5. AgentTypes'
  BY <1>3, <1>4 DEF AgentTypes, BegunInOrder, Begun, Active
<1>6. PICK withRoot : withRoot = WithRoot(w)
  OBVIOUS
<1>7. /\ Proper(withRoot) /\ DOMAIN withRoot = DOMAIN spans \cup {root'}
      /\ (root # None => root' = root /\ withRoot = spans)
  BY <1>3, <1>4, <1>6, RootFacts
<1>8. /\ Proper(spans') /\ DOMAIN spans' = DOMAIN withRoot \cup {ask} /\ spans'[ask].ends = 1
      /\ \A k \in DOMAIN withRoot : k # ask => spans'[k] = withRoot[k]
  <2>1. PICK list : list = Opened(withRoot, ask, above)
    OBVIOUS
  <2>2. ask # None
    BY <1>1, KeysDiffer
  <2>3. DOMAIN Opened(withRoot, ask, above) = DOMAIN withRoot \cup {ask}
    BY OpenedDomain
  <2>4. /\ Proper(Opened(withRoot, ask, above)) /\ Opened(withRoot, ask, above)[ask].ends = 0
        /\ \A k \in DOMAIN withRoot : k # ask => Opened(withRoot, ask, above)[k] = withRoot[k]
    BY <1>7, <2>2, OpenedFacts
  <2>5. spans' = Ended(list, ask, got) /\ Proper(list) /\ ask \in DOMAIN list \cup {None}
    BY <1>3, <1>6, <2>1, <2>3, <2>4
  <2>6. /\ Proper(spans') /\ DOMAIN spans' = DOMAIN list /\ spans'[ask].ends = list[ask].ends + 1
        /\ \A k \in DOMAIN list : k # ask => spans'[k] = list[k]
    BY <2>2, <2>5, EndedFacts
  <2> QED BY <2>1, <2>3, <2>4, <2>6
<1>9. SpanTypes'
  <2>1. DOMAIN spans \subseteq DOMAIN spans' /\ root' \in Keys'
    BY <1>7, <1>8 DEF Keys
  <2>2. /\ turnSpan \in Keys' /\ llm \in [Turns \X Steps -> Keys'] /\ queue \in [Turns -> Seq(DOMAIN spans')]
        /\ \A v \in Workers : ending[v].root \in Keys' /\ ending[v].turnSpan \in Keys'
    BY <1>4, <2>1, SpansGrow
  <2> QED BY <1>3, <1>4, <1>8, <2>1, <2>2 DEF SpanTypes
<1>10. ASSUME Undisturbed' PROVE Calm'
  <2>1. Undisturbed /\ Calm /\ KeysKnown /\ RootsKnown /\ root # None /\ root[1] = "root" /\ root' = root
    BY <1>3, <1>7, <1>10 DEF Undisturbed, TelemetryInv, Calm, RootsKnown
  <2>2. /\ DOMAIN spans' = DOMAIN spans \cup {ask} /\ \A k \in DOMAIN spans : spans'[k] = spans[k]
        /\ root \in DOMAIN spans /\ (turnSpan # None => turnSpan \in DOMAIN spans)
    BY <1>3, <1>4, <1>7, <1>8, <2>1 DEF SpanTypes, Keys
  <2>3. ask[1] = "approval" /\ ask[2] = w /\ ask \in SpanKeys
    BY <1>1 DEF SpanKeys
  <2>4. OneAtATime'
    BY <1>3, <2>1 DEF Calm, OneAtATime, Active
  <2>5. KeysKnown'
    <3>1. Begun(w)
      BY <1>3 DEF Begun
    <3> QED BY <1>3, <1>8, <2>1, <2>2, <2>3, <3>1 DEF KeysKnown, Begun
  <2>6. RootsKnown'
    <3>1. \A k \in {root, turnSpan} \ {None} : spans'[k].ends = 0 <=> \A v \in Workers : pc[v] # "reset"
      BY <2>1, <2>2 DEF RootsKnown
    <3>2. \A k \in DOMAIN spans' : k[1] = "root" /\ spans'[k].ends = 0 => k = root
      BY <2>1, <2>2, <2>3 DEF RootsKnown
    <3> QED BY <1>3, <2>1, <3>1, <3>2 DEF RootsKnown
  <2>7. ModelAsked' /\ QueueOpen'
    <3>1. \A t \in Turns : \A k \in Range(queue[t]) : k[1] = "tool" /\ spans[k].ends = 0 /\ k \in DOMAIN spans
      BY <1>4, <2>1, QueueKeys DEF Calm, QueueOpen
    <3>2. \A t \in Turns : \A k \in Range(queue[t]) : k[1] = "tool" /\ spans'[k].ends = 0
      BY <2>2, <3>1
    <3>3. QueueOpen'
      BY <1>3, <2>1, <3>2 DEF Calm, QueueOpen
    <3>4. ModelAsked'
      BY <1>3, <2>1, <2>2 DEF Calm, ModelAsked
    <3> QED BY <3>3, <3>4
  <2>8. ASSUME Unmixed' PROVE QueueKnown' /\ ToolsTell'
    <3>1. QueueKnown /\ ToolsTell
      BY <1>3, <2>1, <2>8 DEF Unmixed, Calm
    <3>2. QueueKnown'
      BY <1>3, <3>1 DEF QueueKnown, Active, AtRest, CallsOf, Call
    <3>3. ToolsTell'
      BY <2>2, <2>3, <3>1 DEF ToolsTell, OfKind
    <3> QED BY <3>2, <3>3
  <2>9. ASSUME raised' = {} PROVE OpenKnown' /\ UsageKnown' /\ TurnsTell'
    <3>1. OpenKnown /\ UsageKnown /\ TurnsTell
      BY <1>3, <2>1, <2>9 DEF Calm
    <3>2. OpenKnown'
      BY <1>3, <1>8, <2>1, <2>2, <3>1 DEF OpenKnown, Open
    <3>3. UsageKnown'
      <4>1. ~AtRest
        BY <1>3 DEF AtRest
      <4> QED BY <1>3, <3>1, <4>1 DEF UsageKnown, Active, AtRest, Begun
    <3>4. TurnsTell'
      BY <1>3, <2>2, <2>3, <3>1 DEF TurnsTell, OfKind
    <3> QED BY <3>2, <3>3, <3>4
  <2> QED BY <2>4, <2>5, <2>6, <2>7, <2>8, <2>9 DEF Calm
<1> QED BY <1>5, <1>9, <1>10 DEF TelemetryInv

(* What is appended to a queue. *)
LEMMA Appended ==
    ASSUME NEW S, NEW q \in Seq(S), NEW r \in Seq(S)
    PROVE  q \o r \in Seq(S) /\ \A k : k \in Range(q \o r) <=> k \in Range(q) \/ k \in Range(r)
<1>1. /\ q \o r \in Seq(S) /\ Len(q) \in Nat /\ Len(r) \in Nat /\ Len(q \o r) = Len(q) + Len(r)
      /\ DOMAIN q = 1..Len(q) /\ DOMAIN r = 1..Len(r) /\ DOMAIN (q \o r) = 1..Len(q \o r)
      /\ \A i \in 1..Len(q) : (q \o r)[i] = q[i]
      /\ \A i \in 1..Len(r) : (q \o r)[Len(q) + i] = r[i]
      /\ \A i \in 1..Len(q \o r) : i <= Len(q) \/ (i - Len(q) \in 1..Len(r) /\ i = Len(q) + (i - Len(q)))
  BY LenProperties, ConcatProperties
<1>2. ASSUME NEW k \in Range(q) PROVE k \in Range(q \o r)
  <2>1. PICK i \in 1..Len(q) : q[i] = k
    BY <1>1 DEF Range
  <2> QED BY <1>1, <2>1 DEF Range
<1>3. ASSUME NEW k \in Range(r) PROVE k \in Range(q \o r)
  <2>1. PICK i \in 1..Len(r) : r[i] = k
    BY <1>1 DEF Range
  <2>2. Len(q) + i \in 1..Len(q \o r)
    BY <1>1
  <2> QED BY <1>1, <2>1, <2>2 DEF Range
<1>4. ASSUME NEW k \in Range(q \o r) PROVE k \in Range(q) \/ k \in Range(r)
  <2>1. PICK i \in 1..Len(q \o r) : (q \o r)[i] = k
    BY <1>1 DEF Range
  <2>2. CASE i <= Len(q)
    <3>1. i \in 1..Len(q)
      BY <1>1, <2>2
    <3> QED BY <1>1, <2>1, <3>1 DEF Range
  <2>3. CASE ~(i <= Len(q))
    <3>1. i - Len(q) \in 1..Len(r) /\ (q \o r)[i] = r[i - Len(q)]
      BY <1>1, <2>3
    <3> QED BY <1>1, <2>1, <3>1 DEF Range
  <2> QED BY <2>2, <2>3
<1> QED BY <1>1, <1>2, <1>3, <1>4

(* The calls of this step are new, and are put behind an empty queue. *)
LEMMA ToolCallsStay ==
    ASSUME TelemetryInv, NEW w \in Workers, ToolCalls(w)
    PROVE  TelemetryInv'
<1>1. PICK heard \in 0..asked[w] :
        /\ heard = asked[w] \/ MayFail
        /\ spans' = [k \in DOMAIN spans \cup {Call(w, n) : n \in 1..heard} |->
                        IF k \in DOMAIN spans THEN spans[k]
                        ELSE [parent |-> TurnContext, ends |-> 0, got |-> <<>>]]
        /\ queue' = [queue EXCEPT ![turn] = @ \o [n \in 1..heard |-> Call(w, n)]]
        /\ batch' = [batch EXCEPT ![w] = turn]
        /\ IF heard = asked[w] THEN Moves(w, "tools") /\ UNCHANGED raised
           ELSE Moves(w, "over") /\ raised' = raised \cup {w}
  BY DEF ToolCalls
<1>2. PICK there : there = IF heard = asked[w] THEN "tools" ELSE "over"
  OBVIOUS
<1>3. /\ pc[w] = "decide" /\ Moves(w, there) /\ Active(w) /\ there \in PcValues \ {"new"} /\ there \in {"tools", "over"}
      /\ there = "tools" => heard = asked[w] /\ raised' = raised
      /\ there = "over" => raised' = raised \cup {w}
      /\ UNCHANGED <<turn, step, asked, left, cleared, root, turnSpan, turnNo, llm, usage, ending, spent>>
  BY <1>1, <1>2 DEF ToolCalls, Active, PcValues
<1>4. AgentTypes /\ SpanTypes
  BY DEF TelemetryInv
<1>5. step[w] \in Steps /\ turn \in Turns /\ asked[w] \in 0..MaxCalls /\ MaxCalls \in Nat
  BY <1>3, <1>4, TelemetryAssumption DEF AgentTypes, BegunInOrder, Turns
<1>6. AgentTypes'
  <2>1. batch' \in [Workers -> Turns] /\ batch'[w] = turn
    BY <1>1, <1>4, <1>5 DEF AgentTypes
  <2> QED BY <1>3, <1>4, <1>5, <2>1, AgentMoves DEF AgentTypes
<1>7. PICK new, calls : new = {Call(w, n) : n \in 1..heard} /\ calls = [n \in 1..heard |-> Call(w, n)]
  OBVIOUS
<1>8. /\ \A k \in new : k # None /\ k[1] = "tool" /\ k[2] = w /\ k[3] = step[w] /\ k \in SpanKeys
      /\ heard \in Nat
  <2>1. \A n \in 1..heard : n \in 1..MaxCalls
    BY <1>5
  <2>2. \A n \in 1..MaxCalls : LET k == Call(w, n) IN
            k # None /\ k[1] = "tool" /\ k[2] = w /\ k[3] = step[w] /\ k \in SpanKeys
    BY <1>5, KeysDiffer DEF Call, SpanKeys
  <2> QED BY <1>5, <1>7, <2>1, <2>2
<1>9. /\ DOMAIN spans' = DOMAIN spans \cup new
      /\ \A k \in DOMAIN spans : spans'[k] = spans[k]
      /\ \A k \in new \ DOMAIN spans : spans'[k].ends = 0 /\ IsSpan(spans'[k])
  BY <1>1, <1>7 DEF IsSpan
<1>10. Proper(spans')
  BY <1>4, <1>8, <1>9 DEF SpanTypes, Proper
<1>11. PICK S : S = DOMAIN spans'
  OBVIOUS
<1>12. /\ root \in Keys' /\ turnSpan \in Keys'
       /\ llm \in [Turns \X Steps -> Keys'] /\ queue \in [Turns -> Seq(S)]
       /\ \A v \in Workers : ending[v].root \in Keys' /\ ending[v].turnSpan \in Keys'
  BY <1>4, <1>9, <1>11, SpansGrow
<1>13. calls \in Seq(S) /\ Range(calls) = new
  <2>1. calls \in [1..heard -> S]
    BY <1>7, <1>9, <1>11
  <2>2. calls \in Seq(S)
    BY <1>8, <2>1, SeqDef
  <2> QED BY <1>7, <2>2 DEF Range
<1>14. PICK q : q = queue[turn]
  OBVIOUS
<1>15. /\ q \o calls \in Seq(S) /\ \A k : k \in Range(q \o calls) <=> k \in Range(q) \/ k \in new
  <2>1. q \in Seq(S)
    BY <1>5, <1>12, <1>14
  <2> QED BY <1>13, <2>1, Appended
<1>16. /\ queue' \in [Turns -> Seq(S)] /\ queue'[turn] = q \o calls
       /\ \A t \in Turns : t # turn => queue'[t] = queue[t]
  <2>1. queue' = [queue EXCEPT ![turn] = q \o calls]
    BY <1>1, <1>7, <1>14
  <2> QED BY <1>5, <1>12, <1>15, <2>1
<1>17. SpanTypes'
  BY <1>3, <1>4, <1>10, <1>11, <1>12, <1>16 DEF SpanTypes
<1>18. ASSUME Undisturbed' PROVE Calm'
  <2>1. Undisturbed /\ Calm /\ KeysKnown /\ RootsKnown /\ root # None /\ root[1] = "root"
    BY <1>3, <1>18 DEF Undisturbed, TelemetryInv, Calm, RootsKnown
  <2>2. /\ OneAtATime' /\ turn # 0 /\ ~AtRest /\ (there # "over" => ~AtRest') /\ pc'[w] = there
        /\ \A v \in Workers : v # w => pc'[v] = pc[v] /\ pc[v] \in {"new", "over"}
        /\ \A v \in Workers : Begun(v)' = Begun(v)
    BY <1>3, <1>4, <2>1, Alone DEF Calm
  <2>3. /\ \A v \in Workers : pc[v] \notin {"reset", "llm"} /\ pc'[v] \notin {"export", "reset", "llm"}
        /\ \A v \in Workers : Active(v)' \/ pc'[v] = "tools" => v = w /\ there = "tools"
    BY <1>3, <2>2 DEF Active
  <2>4. \A k \in new : k \notin DOMAIN spans
    <3>1. ASSUME NEW k \in new, k \in DOMAIN spans PROVE FALSE
      <4>1. k[3] < step[w]
        BY <1>3, <1>8, <2>1, <3>1 DEF KeysKnown
      <4>2. step[w] \in Nat
        BY <1>5 DEF Steps
      <4> QED BY <1>8, <3>1, <4>1, <4>2
    <3> QED BY <3>1
  <2>5. \A k \in new : spans'[k].ends = 0
    BY <1>9, <2>4
  <2>6. /\ root \in DOMAIN spans /\ (turnSpan # None => turnSpan[1] = "turn" /\ turnSpan \in DOMAIN spans)
    BY <1>4, <2>1 DEF RootsKnown, SpanTypes, Keys
  <2>7. KeysKnown'
    <3>1. ASSUME NEW k \in new
          PROVE  /\ k \in SpanKeys /\ Begun(k[2])' /\ spans'[k].ends \in {0, 1}
                 /\ k[1] = "tool" => /\ k[3] <= step[k[2]]
                                     /\ pc'[k[2]] \in {"step", "llm", "decide"} => k[3] < step[k[2]]
      <4>1. step[w] <= step[w] /\ pc'[w] \notin {"step", "llm", "decide"}
        BY <1>3, <1>5, <2>2 DEF Steps
      <4>2. Begun(w)'
        BY <1>3, <2>2 DEF Begun
      <4> QED BY <1>8, <2>5, <4>1, <4>2
    <3>2. ASSUME NEW k \in DOMAIN spans
          PROVE  /\ k \in SpanKeys /\ Begun(k[2])' /\ spans'[k].ends \in {0, 1}
                 /\ k[1] = "tool" => /\ k[3] <= step[k[2]]
                                     /\ pc'[k[2]] \in {"step", "llm", "decide"} => k[3] < step[k[2]]
      <4>1. /\ k \in SpanKeys /\ Begun(k[2]) /\ spans[k].ends \in {0, 1}
            /\ k[1] = "tool" => /\ k[3] <= step[k[2]]
                                /\ pc[k[2]] \in {"step", "llm", "decide"} => k[3] < step[k[2]]
        BY <2>1 DEF KeysKnown
      <4>2. k[2] \in Workers
        BY <4>1 DEF SpanKeys
      <4>3. Begun(k[2])' /\ (pc'[k[2]] = pc[k[2]] \/ pc[k[2]] = "decide")
        BY <1>3, <2>2, <4>1, <4>2
      <4> QED BY <1>9, <4>1, <4>3
    <3> QED BY <1>3, <1>9, <3>1, <3>2 DEF KeysKnown
  <2>8. RootsKnown'
    <3>1. \A k \in {root, turnSpan} \ {None} : spans'[k].ends = 0 <=> \A v \in Workers : pc'[v] # "reset"
      BY <1>9, <2>1, <2>3, <2>6 DEF RootsKnown
    <3>2. \A k \in DOMAIN spans' : k[1] = "root" /\ spans'[k].ends = 0 => k = root
      BY <1>8, <1>9, <2>1 DEF RootsKnown
    <3> QED BY <1>3, <2>1, <2>3, <3>1, <3>2 DEF RootsKnown
  <2>9. ModelAsked'
    BY <2>3 DEF ModelAsked
  <2>10. \A t \in Turns : \A k \in Range(queue'[t]) : k \in Range(queue[t]) \/ (t = turn /\ k \in new)
    BY <1>14, <1>15, <1>16
  <2>11. QueueOpen'
    <3>1. \A t \in Turns : \A k \in Range(queue[t]) : k[1] = "tool" /\ spans[k].ends = 0 /\ k \in DOMAIN spans
      BY <1>4, <2>1, QueueKeys DEF Calm, QueueOpen
    <3>2. ASSUME NEW t \in Turns, NEW k \in Range(queue'[t]) PROVE k[1] = "tool" /\ spans'[k].ends = 0
      <4>1. k \in Range(queue[t]) \/ k \in new
        BY <2>10
      <4> QED BY <1>8, <1>9, <2>5, <3>1, <4>1
    <3>3. batch'[w] = turn
      BY <1>1, <1>4 DEF AgentTypes
    <3> QED BY <1>3, <2>3, <3>2, <3>3 DEF QueueOpen
  <2>12. ASSUME Unmixed' PROVE QueueKnown' /\ ToolsTell'
    <3>1. QueueKnown /\ ToolsTell /\ Unmixed
      BY <1>3, <2>1, <2>12 DEF Unmixed, Calm
    <3>2. q = <<>>
      BY <1>3, <1>14, <3>1 DEF QueueKnown
    <3>3. queue'[turn] = calls
      <4>1. <<>> \o calls = calls
        BY <1>13, ConcatEmptySeq
      <4> QED BY <1>16, <3>2, <4>1
    <3>4. there = "tools" => CallsOf(w)' = calls
      <4>1. ASSUME there = "tools" PROVE asked'[w] = heard /\ step'[w] = step[w]
        BY <1>3, <4>1
      <4> QED BY <1>7, <4>1 DEF CallsOf, Call
    <3>5. there = "over" => raised' # {} /\ \A v \in Workers : ~Active(v)'
      BY <1>3, <2>3
    <3>6. \A v \in Workers : pc'[v] = "tools" => queue'[turn] = CallsOf(v)'
      BY <2>3, <3>3, <3>4
    <3>7. \A t \in Turns : t > turn \/ (raised' = {} /\ t # turn) => queue'[t] = <<>>
      <4>1. \A t \in Turns : t > turn => t # turn
        BY <1>5 DEF Turns
      <4> QED BY <1>3, <1>16, <3>1, <4>1 DEF QueueKnown
    <3>8. QueueKnown'
      BY <1>3, <2>2, <2>3, <3>5, <3>6, <3>7 DEF QueueKnown
    <3>9. ToolsTell'
      BY <1>9, <2>5, <3>1 DEF ToolsTell, OfKind
    <3> QED BY <3>8, <3>9
  <2>13. ASSUME raised' = {} PROVE OpenKnown' /\ UsageKnown' /\ TurnsTell'
    <3>1. OpenKnown /\ UsageKnown /\ TurnsTell /\ there = "tools"
      BY <1>3, <2>1, <2>13 DEF Calm
    <3>2. OpenKnown'
      <4>1. \A t \in Turns : \A k \in Range(queue[t]) : k \in Range(queue'[t])
        BY <1>14, <1>15, <1>16
      <4>2. ASSUME NEW k \in DOMAIN spans', spans'[k].ends = 0
            PROVE  k \in {root, turnSpan} \/ \E t \in Turns : k \in Range(queue'[t])
        <5>1. CASE k \in new
          BY <1>5, <1>15, <1>16, <5>1
        <5>2. CASE k \in DOMAIN spans
          BY <1>9, <2>3, <3>1, <4>1, <4>2, <5>2 DEF OpenKnown, Open
        <5> QED BY <1>9, <5>1, <5>2
      <4> QED BY <1>3, <4>2 DEF OpenKnown, Open
    <3>3. UsageKnown'
      BY <1>3, <2>2, <2>3, <3>1 DEF UsageKnown
    <3>4. TurnsTell'
      BY <1>3, <1>8, <1>9, <3>1 DEF TurnsTell, OfKind
    <3> QED BY <3>2, <3>3, <3>4
  <2> QED BY <2>2, <2>7, <2>8, <2>9, <2>11, <2>12, <2>13 DEF Calm
<1> QED BY <1>6, <1>17, <1>18 DEF TelemetryInv

(* The n-th result meets the n-th call of the batch, and nothing is left in the queue. *)
LEMMA ToolResultsStay ==
    ASSUME TelemetryInv, NEW w \in Workers, ToolResults(w)
    PROVE  TelemetryInv'
<1>1. PICK q : q = IF batch[w] # 0 THEN queue[batch[w]]
                   ELSE queue[turnNo] \o Taking(queue[0], {n \in DOMAIN queue[0] :
                                                             turnNo # 0 /\ queue[0][n][3] = step[w]})
  OBVIOUS
<1>2. PICK met : met = 1..IF Len(q) < asked[w] THEN Len(q) ELSE asked[w]
  OBVIOUS
<1> DEFINE Found(k) == {n \in met : q[n] = k}
<1>3. /\ spans' = [k \in DOMAIN spans |->
                      IF Found(k) = {} THEN spans[k]
                      ELSE [spans[k] EXCEPT !.ends = @ + 1,
                                            !.got = Call(w, CHOOSE n \in Found(k) : TRUE)]]
      /\ queue' = [t \in Turns |-> Taking(queue[t], {n \in DOMAIN queue[t] : Found(queue[t][n]) = {}})]
  BY <1>1, <1>2 DEF ToolResults, Matching
<1>4. /\ pc[w] = "tools" /\ Moves(w, "next") /\ Active(w) /\ "next" \in PcValues \ {"new"}
      /\ UNCHANGED <<turn, step, asked, batch, left, raised, cleared, root, turnSpan, turnNo, llm, usage,
                     ending, spent>>
  BY DEF ToolResults, Active, PcValues
<1>5. AgentTypes /\ SpanTypes
  BY DEF TelemetryInv
<1>6. step[w] \in Steps /\ turn \in Turns /\ asked[w] \in Nat
  BY <1>4, <1>5, TelemetryAssumption DEF AgentTypes, BegunInOrder, Turns
<1>7. AgentTypes'
  BY <1>4, <1>5, <1>6, AgentMoves DEF AgentTypes
<1>8. /\ DOMAIN spans' = DOMAIN spans
      /\ \A k \in DOMAIN spans : Found(k) = {} => spans'[k] = spans[k]
      /\ \A k \in DOMAIN spans : Found(k) # {} =>
            spans'[k] = [spans[k] EXCEPT !.ends = @ + 1, !.got = Call(w, CHOOSE n \in Found(k) : TRUE)]
  BY <1>3
<1>9. \A k \in DOMAIN spans : Found(k) # {} =>
         /\ IsSpan(spans'[k]) /\ spans'[k].ends = spans[k].ends + 1
         /\ \E n \in Found(k) : spans'[k].got = Call(w, n)
  <2>1. ASSUME NEW k \in DOMAIN spans, Found(k) # {}
        PROVE  /\ IsSpan(spans'[k]) /\ spans'[k].ends = spans[k].ends + 1
               /\ \E n \in Found(k) : spans'[k].got = Call(w, n)
    <3>1. PICK n : n = CHOOSE m \in Found(k) : TRUE
      OBVIOUS
    <3>2. n \in Found(k)
      BY <2>1, <3>1
    <3> HIDE DEF Found
    <3>3. PICK s, got : s = spans[k] /\ got = Call(w, n)
      OBVIOUS
    <3>4. spans'[k] = [s EXCEPT !.ends = @ + 1, !.got = got]
      BY <1>8, <2>1, <3>1, <3>3
    <3>5. s = [parent |-> s.parent, ends |-> s.ends, got |-> s.got] /\ s.ends \in Nat
      BY <1>5, <3>3 DEF SpanTypes, Proper, IsSpan
    <3>6. spans'[k] = [parent |-> s.parent, ends |-> s.ends + 1, got |-> got]
      BY <3>4, <3>5
    <3>7. IsSpan(spans'[k]) /\ spans'[k].ends = s.ends + 1 /\ spans'[k].got = got
      BY <3>5, <3>6 DEF IsSpan
    <3> QED BY <3>2, <3>3, <3>7
  <2> QED BY <2>1
<1>10. Proper(spans')
  BY <1>5, <1>8, <1>9 DEF SpanTypes, Proper
<1>11. /\ \A t \in Turns : queue'[t] \in Seq(DOMAIN spans)
       /\ \A t \in Turns : \A k \in Range(queue'[t]) : k \in Range(queue[t]) /\ Found(k) = {}
       /\ \A t \in Turns : (\A n \in DOMAIN queue[t] : Found(queue[t][n]) # {}) => queue'[t] = <<>>
  <2>1. ASSUME NEW t \in Turns
        PROVE  /\ queue'[t] \in Seq(DOMAIN spans)
               /\ \A k \in Range(queue'[t]) : k \in Range(queue[t]) /\ Found(k) = {}
               /\ (\A n \in DOMAIN queue[t] : Found(queue[t][n]) # {}) => queue'[t] = <<>>
    <3>1. PICK S, list, P : /\ S = DOMAIN spans /\ list = queue[t]
                            /\ P = {n \in DOMAIN list : Found(list[n]) = {}}
      OBVIOUS
    <3>2. list \in Seq(S) /\ P \in SUBSET (DOMAIN list)
      BY <1>5, <3>1 DEF SpanTypes
    <3>3. queue'[t] = Taking(list, P)
      BY <1>3, <3>1
    <3>4. /\ Taking(list, P) \in Seq(S)
          /\ \A k \in Range(Taking(list, P)) : \E n \in P : k = list[n]
          /\ P = {} => Taking(list, P) = <<>>
      BY <3>2, TakingFacts
    <3>5. ASSUME NEW k \in Range(queue'[t]) PROVE k \in Range(queue[t]) /\ Found(k) = {}
      <4>1. PICK n \in P : k = list[n]
        BY <3>3, <3>4
      <4>2. n \in DOMAIN list /\ Found(list[n]) = {}
        BY <3>1
      <4> QED BY <3>1, <4>1, <4>2 DEF Range
    <3>6. (\A n \in DOMAIN queue[t] : Found(queue[t][n]) # {}) => P = {}
      BY <3>1
    <3> QED BY <3>1, <3>3, <3>4, <3>5, <3>6
  <2> QED BY <2>1
<1>12. SpanTypes'
  <2>1. Keys' = Keys
    BY <1>8 DEF Keys
  <2>2. queue' \in [Turns -> Seq(DOMAIN spans)]
    BY <1>3, <1>11
  <2> QED BY <1>4, <1>5, <1>8, <1>10, <2>1, <2>2 DEF SpanTypes
<1>13. ASSUME Undisturbed' PROVE Calm'
  <2>1. Undisturbed /\ Calm /\ KeysKnown /\ RootsKnown /\ root # None /\ root[1] = "root"
    BY <1>4, <1>13 DEF Undisturbed, TelemetryInv, Calm, RootsKnown
  <2>2. /\ OneAtATime' /\ turn # 0 /\ ~AtRest /\ ~AtRest' /\ pc'[w] = "next"
        /\ \A v \in Workers : v # w => pc'[v] = pc[v] /\ pc[v] \in {"new", "over"}
        /\ \A v \in Workers : Begun(v)' = Begun(v)
    BY <1>4, <1>5, <2>1, Alone DEF Calm
  <2>3. /\ \A v \in Workers : pc[v] \notin {"reset", "llm"} /\ pc'[v] \notin {"export", "reset", "tools", "llm"}
        /\ \A v \in Workers : Active(v)' => v = w
    BY <1>4, <2>2 DEF Active
  <2>4. q = queue[turn] /\ q \in Seq(DOMAIN spans)
    <3>1. batch[w] = turn
      BY <1>4, <2>1 DEF Calm, QueueOpen
    <3> QED BY <1>1, <1>5, <1>6, <2>2, <3>1 DEF SpanTypes
  <2>5. met \subseteq DOMAIN q /\ DOMAIN q = 1..Len(q) /\ Len(q) \in Nat
    <3>1. Len(q) \in Nat /\ DOMAIN q = 1..Len(q)
      BY <2>4, LenProperties
    <3> QED BY <1>2, <1>6, <3>1
  <2>6. \A k : Found(k) # {} => k \in Range(queue[turn])
    BY <2>4, <2>5 DEF Range
  <2>7. \A t \in Turns : \A k \in Range(queue[t]) : k[1] = "tool" /\ spans[k].ends = 0 /\ k \in DOMAIN spans
    BY <1>5, <2>1, QueueKeys DEF Calm, QueueOpen
  <2>8. \A k \in DOMAIN spans : \/ spans'[k] = spans[k] /\ Found(k) = {}
                                \/ k[1] = "tool" /\ spans[k].ends = 0 /\ spans'[k].ends = 1 /\ Found(k) # {}
    <3> HIDE DEF Found
    <3>1. ASSUME NEW k \in DOMAIN spans, Found(k) # {}
          PROVE  k[1] = "tool" /\ spans[k].ends = 0 /\ spans'[k].ends = 1
      <4>1. k[1] = "tool" /\ spans[k].ends = 0
        BY <1>6, <2>6, <2>7, <3>1
      <4> QED BY <1>9, <3>1, <4>1
    <3> QED BY <1>8, <3>1
  <2>9. \A k \in DOMAIN spans : k[1] # "tool" => spans'[k] = spans[k]
    BY <2>8
  <2>10. /\ root \in DOMAIN spans /\ (turnSpan # None => turnSpan[1] = "turn" /\ turnSpan \in DOMAIN spans)
    BY <1>5, <2>1 DEF RootsKnown, SpanTypes, Keys
  <2> HIDE DEF Found
  <2>11. KeysKnown'
    <3>1. ASSUME NEW k \in DOMAIN spans
          PROVE  /\ k \in SpanKeys /\ Begun(k[2])' /\ spans'[k].ends \in {0, 1}
                 /\ k[1] = "tool" => /\ k[3] <= step[k[2]]
                                     /\ pc'[k[2]] \in {"step", "llm", "decide"} => k[3] < step[k[2]]
      <4>1. /\ k \in SpanKeys /\ Begun(k[2]) /\ spans[k].ends \in {0, 1}
            /\ k[1] = "tool" => /\ k[3] <= step[k[2]]
                                /\ pc[k[2]] \in {"step", "llm", "decide"} => k[3] < step[k[2]]
        BY <2>1 DEF KeysKnown
      <4>2. k[2] \in Workers /\ spans'[k].ends \in {0, 1}
        BY <2>8, <4>1 DEF SpanKeys
      <4>3. Begun(k[2])' /\ pc'[k[2]] \in {pc[k[2]], "next"}
        BY <2>2, <4>1, <4>2
      <4> QED BY <4>1, <4>2, <4>3
    <3> QED BY <1>4, <1>8, <3>1 DEF KeysKnown
  <2>12. RootsKnown'
    <3>1. \A k \in {root, turnSpan} \ {None} : spans'[k].ends = 0 <=> \A v \in Workers : pc'[v] # "reset"
      <4>1. \A k \in {root, turnSpan} \ {None} : k \in DOMAIN spans /\ k[1] # "tool" /\ spans[k].ends = 0
        BY <2>1, <2>3, <2>10 DEF RootsKnown
      <4> QED BY <2>3, <2>9, <4>1
    <3>2. \A k \in DOMAIN spans : k[1] = "root" /\ spans'[k].ends = 0 => k = root
      BY <2>1, <2>9 DEF RootsKnown
    <3> QED BY <1>4, <1>8, <2>1, <2>3, <3>1, <3>2 DEF RootsKnown
  <2>13. ModelAsked' /\ QueueOpen'
    <3>1. ASSUME NEW t \in Turns, NEW k \in Range(queue'[t]) PROVE k[1] = "tool" /\ spans'[k].ends = 0
      <4>1. k \in Range(queue[t]) /\ Found(k) = {}
        BY <1>11
      <4> QED BY <2>7, <2>8, <4>1
    <3> QED BY <2>3, <3>1 DEF ModelAsked, QueueOpen
  <2>14. ASSUME Unmixed PROVE QueueKnown' /\ ToolsTell' /\ queue'[turn] = <<>> /\ \A k \in Range(queue[turn]) : Found(k) # {}
    <3>1. QueueKnown /\ ToolsTell
      BY <2>1, <2>14 DEF Calm
    <3>2. q = [n \in 1..asked[w] |-> Call(w, n)]
      BY <1>4, <2>4, <3>1 DEF QueueKnown, CallsOf
    <3>3. met = 1..asked[w] /\ DOMAIN q = 1..asked[w]
      <4>1. DOMAIN q = 1..asked[w]
        BY <3>2
      <4>2. Len(q) = asked[w]
        BY <1>6, <2>5, <4>1
      <4> QED BY <1>2, <1>6, <4>1, <4>2
    <3>4. \A n \in DOMAIN queue[turn] : Found(queue[turn][n]) # {}
      BY <2>4, <3>3 DEF Found
    <3>5. queue'[turn] = <<>>
      BY <1>6, <1>11, <3>4
    <3>6. \A k \in Range(queue[turn]) : Found(k) # {}
      BY <3>4 DEF Range
    <3>7. \A t \in Turns : queue[t] = <<>> => queue'[t] = <<>>
      <4>1. ASSUME NEW t \in Turns, queue[t] = <<>> PROVE queue'[t] = <<>>
        <5>1. \A n \in DOMAIN queue[t] : Found(queue[t][n]) # {}
          BY <4>1
        <5> QED BY <1>11, <5>1
      <4> QED BY <4>1
    <3>8. QueueKnown'
      BY <1>4, <1>6, <2>2, <2>3, <3>1, <3>5, <3>7 DEF QueueKnown
    <3>9. ASSUME NEW k \in DOMAIN spans, k[1] = "tool", spans'[k].ends > 0 PROVE spans'[k].got = k
      <4>1. CASE Found(k) = {}
        BY <1>8, <3>1, <3>9, <4>1 DEF ToolsTell, OfKind
      <4>2. CASE Found(k) # {}
        <5>1. PICK n \in Found(k) : spans'[k].got = Call(w, n)
          BY <1>9, <4>2
        <5>2. n \in 1..asked[w] /\ q[n] = k
          BY <3>3, <5>1 DEF Found
        <5> QED BY <3>2, <5>1, <5>2
      <4> QED BY <4>1, <4>2
    <3>10. ToolsTell'
      BY <1>8, <3>9 DEF ToolsTell, OfKind
    <3> QED BY <3>5, <3>6, <3>8, <3>10
  <2>15. Unmixed' = Unmixed
    BY <1>4 DEF Unmixed
  <2>16. ASSUME raised' = {} PROVE OpenKnown' /\ UsageKnown' /\ TurnsTell'
    <3>1. OpenKnown /\ UsageKnown /\ TurnsTell /\ QueueKnown /\ Unmixed
      BY <1>4, <2>1, <2>16 DEF Calm, Unmixed
    <3>2. \A t \in Turns : \A k \in Range(queue[t]) : Found(k) # {}
      <4>1. \A t \in Turns : t # turn => Range(queue[t]) = {}
        <5>1. \A t \in Turns : t # turn => queue[t] = <<>>
          BY <1>4, <2>16, <3>1 DEF QueueKnown
        <5> QED BY <5>1 DEF Range
      <4> QED BY <2>14, <3>1, <4>1
    <3>3. OpenKnown'
      <4>1. ASSUME NEW k \in DOMAIN spans, spans'[k].ends = 0 PROVE k \in {root, turnSpan}
        <5>1. spans[k].ends = 0 /\ Found(k) = {}
          BY <2>8, <4>1
        <5> QED BY <2>3, <3>1, <3>2, <5>1 DEF OpenKnown, Open
      <4> QED BY <1>4, <1>8, <4>1 DEF OpenKnown, Open
    <3>4. UsageKnown'
      BY <1>4, <2>2, <2>3, <3>1 DEF UsageKnown
    <3>5. TurnsTell'
      <4>1. \A k \in DOMAIN spans : k[1] = "turn" => spans'[k] = spans[k]
        BY <2>9
      <4>2. DOMAIN spans' = DOMAIN spans
        BY <1>8
      <4> QED BY <1>4, <3>1, <4>1, <4>2 DEF TurnsTell, OfKind
    <3> QED BY <3>3, <3>4, <3>5
  <2> QED BY <2>2, <2>11, <2>12, <2>13, <2>14, <2>15, <2>16 DEF Calm
<1> QED BY <1>7, <1>12, <1>13 DEF TelemetryInv

--------------------------------------------------------------------------------
(* What is promised *)

LEMMA TelemetryInvariant == TelemetrySpec => []TelemetryInv
<1>1. TelemetryInv /\ [TelemetryNext]_telemetryVars => TelemetryInv'
  <2> SUFFICES ASSUME TelemetryInv, [TelemetryNext]_telemetryVars PROVE TelemetryInv'
    OBVIOUS
  <2>1. CASE UNCHANGED telemetryVars
    <3>1. /\ UNCHANGED <<turn, pc, step, asked, batch, left, raised, cleared, ending, spans, spent>>
          /\ UNCHANGED <<root, turnSpan, turnNo, llm, queue, usage>>
      BY <2>1 DEF telemetryVars, agent, state
    <3>2. AgentTypes'
      BY <3>1 DEF TelemetryInv, AgentTypes, BegunInOrder, Begun, Active
    <3>3. SpanTypes'
      BY <3>1 DEF TelemetryInv, SpanTypes, Keys
    <3>4. ASSUME Undisturbed' PROVE Calm'
      <4>1. Calm
        BY <3>1, <3>4 DEF TelemetryInv, Undisturbed
      <4>2. /\ OneAtATime' /\ KeysKnown' /\ ModelAsked' /\ QueueOpen'
        BY <3>1, <4>1 DEF Calm, OneAtATime, Active, KeysKnown, Begun, ModelAsked, QueueOpen
      <4>3. RootsKnown'
        BY <3>1, <4>1 DEF Calm, RootsKnown, Active
      <4>4. Unmixed' => QueueKnown' /\ ToolsTell'
        <5>1. \A w \in Workers : CallsOf(w)' = CallsOf(w)
          BY <3>1 DEF CallsOf, Call
        <5> QED BY <3>1, <4>1, <5>1 DEF Calm, Unmixed, QueueKnown, ToolsTell, Active, AtRest, OfKind
      <4>5. raised' = {} => OpenKnown' /\ UsageKnown' /\ TurnsTell'
        BY <3>1, <4>1 DEF Calm, OpenKnown, Open, UsageKnown, Begun, Active, AtRest, TurnsTell, OfKind
      <4> QED BY <4>2, <4>3, <4>4, <4>5 DEF Calm
    <3> QED BY <3>2, <3>3, <3>4 DEF TelemetryInv
  <2>2. CASE Clear
    BY <2>2, ClearStays
  <2>3. ASSUME NEW w \in Workers, LoopStep(w) \/ Raises(w) \/ Abandon(w) PROVE TelemetryInv'
    BY <2>3, TurnStartStays, AskModelStays, ToolCallsStay, ApprovalStays, ToolResultsStay, QuietStays,
       ExportStays, EndOfTurnStays, AnsweredStays, AbandonStays DEF LoopStep
  <2> QED BY <2>1, <2>2, <2>3 DEF TelemetryNext
<1> QED BY <1>1, TelemetryStart, PTL DEF TelemetrySpec

\* What State refers to is a span that was opened, in all interleavings of workers, those
\* abandoned included.
THEOREM TelemetryTypeCorrect == TelemetrySpec => []TelemetryTypeOK
<1>1. TelemetryInv => TelemetryTypeOK
  <2> SUFFICES ASSUME AgentTypes, SpanTypes PROVE TelemetryTypeOK
    BY DEF TelemetryInv
  <2>1. turn \in Turns
    BY TelemetryAssumption DEF AgentTypes, BegunInOrder, Turns
  <2>2. \A t \in Turns : Range(queue[t]) \subseteq Keys
    BY QueueKeys DEF Keys
  <2>3. Range(llm) \subseteq Keys
    BY DEF SpanTypes, Range
  <2>4. \A t \in Turns : usage[t] \in Nat
    BY DEF SpanTypes
  <2> QED BY <2>1, <2>2, <2>3, <2>4 DEF TelemetryTypeOK, AgentTypes, SpanTypes, PcValues
<1> QED BY <1>1, TelemetryInvariant, PTL

\* As long as no worker was abandoned no span is ended twice, no root is forgotten, and
\* without an exception nothing is open between two turns.
THEOREM SpansClose == TelemetrySpec => []SpansAreClosed
<1>1. TelemetryInv => SpansAreClosed
  <2> SUFFICES ASSUME TelemetryInv, Undisturbed
               PROVE  /\ \A s \in DOMAIN spans : spans[s].ends <= 1
                      /\ AtRest /\ raised = {} => Open(DOMAIN spans) = {}
                      /\ Open(OfKind("root")) \subseteq {root}
    BY DEF SpansAreClosed
  <2>1. Calm /\ SpanTypes
    BY DEF TelemetryInv
  <2>2. \A s \in DOMAIN spans : spans[s].ends <= 1
    BY <2>1 DEF Calm, KeysKnown
  <2>3. Open(OfKind("root")) \subseteq {root}
    BY <2>1 DEF Calm, RootsKnown, Open, OfKind
  <2>4. ASSUME AtRest, raised = {}, NEW s \in Open(DOMAIN spans) PROVE FALSE
    <3>1. OpenKnown /\ UsageKnown /\ QueueKnown
      BY <2>1, <2>4 DEF Calm, Unmixed
    <3>2. s # None
      BY <2>1, <2>4 DEF SpanTypes, Proper, Open
    <3>3. \A t \in Turns : queue[t] = <<>>
      BY <2>4, <3>1 DEF QueueKnown
    <3>4. \A t \in Turns : Range(queue[t]) = {}
      BY <3>3 DEF Range
    <3> QED BY <2>4, <3>1, <3>2, <3>4 DEF OpenKnown, UsageKnown, AtRest
  <2> QED BY <2>2, <2>3, <2>4
<1> QED BY <1>1, TelemetryInvariant, PTL

\* What is written to a span is about what the span stands for.
THEOREM SpansTell == TelemetrySpec => []SpansTellTheirOwn
<1>1. TelemetryInv => SpansTellTheirOwn
  BY DEF TelemetryInv, Calm, Unmixed, SpansTellTheirOwn, ToolsTell, TurnsTell
<1> QED BY <1>1, TelemetryInvariant, PTL
================================================================================
