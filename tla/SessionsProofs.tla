----------------------------- MODULE SessionsProofs -----------------------------
(***************************************************************************)
(* Proofs about Sessions, for any sessions, workspaces, turns, number of   *)
(* context objects and of stops, clears, deletes and crashes.              *)
(***************************************************************************)
EXTENDS Sessions, SequenceTheorems, TLAPS

--------------------------------------------------------------------------------
(* What save_context leaves in the rows, for messages of any kind *)

(* The rows after a save are a list of messages. *)
LEMMA CommittedType ==
    ASSUME NEW M, NEW old \in Seq(M), NEW enc \in Seq(M), NEW live \in Seq(M)
    PROVE  Committed(old, enc, live) \in Seq(M)
<1>1. CASE IsProperPrefix(old, enc) /\ old # enc
  <2>1. Len(old) \in Nat /\ Len(live) \in Nat
    BY LenProperties
  <2>2. SubSeq(live, Len(old) + 1, Len(live)) \in Seq(M)
    BY <2>1, SubSeqProperties
  <2> QED BY <1>1, <2>2, ConcatProperties DEF Committed
<1>2. CASE ~(IsProperPrefix(old, enc) /\ old # enc)
  BY <1>2 DEF Committed
<1> QED BY <1>1, <1>2

\* The list that is written starts with the messages that were encoded.
Starts(s, t) == Len(s) <= Len(t) /\ \A i \in 1..Len(s) : s[i] = t[i]

(* A save leaves the old rows or writes the list, never a part of each: the list has   *)
(* been emptied since it was encoded, or has only grown.                               *)
LEMMA CommittedIsOne ==
    ASSUME NEW M, NEW old \in Seq(M), NEW enc \in Seq(M), NEW live \in Seq(M),
           live = <<>> \/ Starts(enc, live)
    PROVE  /\ Committed(old, enc, live) \in {old, live}
           /\ old # enc /\ Starts(enc, live) => Committed(old, enc, live) = live
<1>1. CASE old # enc /\ IsProperPrefix(old, enc)
  <2> DEFINE tail == SubSeq(live, Len(old) + 1, Len(live))
  <2>1. Len(old) \in Nat /\ Len(live) \in Nat /\ Len(enc) \in Nat
    BY LenProperties
  <2>2. Committed(old, enc, live) = old \o tail
    BY <1>1 DEF Committed
  <2>3. CASE live = <<>> /\ ~Starts(enc, live)
    <3>1. tail = <<>>
      BY <2>1, <2>3, SubSeqEmpty
    <3> QED BY <2>2, <2>3, <3>1, ConcatEmptySeq
  <2>4. CASE Starts(enc, live)
    <3>1. Len(old) < Len(enc) /\ \A i \in 1..Len(old) : old[i] = live[i]
      <4>1. Len(old) < Len(enc) /\ old = SubSeq(enc, 1, Len(old))
        BY <1>1 DEF IsProperPrefix
      <4>2. \A i \in 1..Len(old) : enc[i] \in M
        BY <2>1, <4>1, ElementOfSeq
      <4>3. \A i \in 1..Len(old) - 1 + 1 : SubSeq(enc, 1, Len(old))[i] = enc[1 + i - 1]
        BY <2>1, <4>2, SubSeqProperties
      <4>4. \A i \in 1..Len(old) : old[i] = enc[i]
        BY <2>1, <4>1, <4>3
      <4> QED BY <2>1, <2>4, <4>1, <4>4 DEF Starts
    <3>2. Len(old) < Len(live)
      BY <2>1, <2>4, <3>1 DEF Starts
    <3>3. /\ tail \in Seq(M) /\ Len(tail) = Len(live) - Len(old)
          /\ \A i \in 1..Len(live) - Len(old) : tail[i] = live[Len(old) + i]
      <4>1. \A i \in Len(old) + 1..Len(live) : live[i] \in M
        BY <2>1, ElementOfSeq
      <4>2. /\ tail \in Seq(M)
            /\ Len(tail) = IF Len(old) + 1 <= Len(live) THEN Len(live) - (Len(old) + 1) + 1
                           ELSE 0
            /\ \A i \in 1..Len(live) - (Len(old) + 1) + 1 :
                  tail[i] = live[(Len(old) + 1) + i - 1]
        BY <2>1, <4>1, SubSeqProperties
      <4> HIDE DEF tail
      <4> QED BY <2>1, <3>2, <4>2
    <3> HIDE DEF tail
    <3>4. /\ old \o tail \in Seq(M) /\ Len(old \o tail) = Len(old) + Len(tail)
          /\ \A i \in 1..Len(old) + Len(tail) :
                (old \o tail)[i] = IF i <= Len(old) THEN old[i] ELSE tail[i - Len(old)]
      BY <3>3, ConcatProperties
    <3>5. Len(old \o tail) = Len(live)
      BY <2>1, <3>3, <3>4
    <3>6. \A i \in 1..Len(old \o tail) : (old \o tail)[i] = live[i]
      <4> SUFFICES ASSUME NEW i \in 1..Len(live) PROVE (old \o tail)[i] = live[i]
        BY <3>5
      <4>1. CASE i <= Len(old)
        BY <2>1, <3>1, <3>3, <3>4, <4>1
      <4>2. CASE ~(i <= Len(old))
        <5>1. i - Len(old) \in 1..Len(live) - Len(old) /\ Len(old) + (i - Len(old)) = i
          BY <2>1, <4>2
        <5> QED BY <2>1, <3>3, <3>4, <4>2, <5>1
      <4> QED BY <4>1, <4>2
    <3>7. old \o tail = live
      BY <3>4, <3>5, <3>6, SeqEqual
    <3> QED BY <2>2, <3>7
  <2> QED BY <2>3, <2>4
<1>2. CASE old = enc \/ ~IsProperPrefix(old, enc)
  BY <1>2 DEF Committed
<1> QED BY <1>1, <1>2

--------------------------------------------------------------------------------
GhostsOK == /\ birth \in [Ids -> Workspaces \cup {Unbound, Nobody}]
            /\ left \in Nat /\ erased \subseteq Turns
            /\ overtaken \subseteq Ids /\ reborn \subseteq Ids

\* A turn that has begun runs on a context object that was made.
Placed == \A t \in Turns :
    /\ caller[t] # "idle" => at[t] \in Contexts /\ maker[at[t]] # "new"
    /\ worker[t] # "none" => caller[t] # "idle"

\* A clear that has begun works on a context of its session.
Clearing == \A s \in Ids : cleaner[s].pc # "idle" =>
    /\ cleaner[s].at \in Contexts /\ maker[cleaner[s].at] # "new"
    /\ owner[cleaner[s].at] = s

Registered == \A s \in Ids : listed[s] # Nobody => /\ maker[listed[s]] = "ready"
                                                   /\ owner[listed[s]] = s

\* A context object belongs to a session that was created, and has its workspace.
Made == \A c \in Contexts : maker[c] # "new" =>
    /\ owner[c] \in Ids /\ birth[owner[c]] # Nobody
    /\ space[c] = birth[owner[c]] \/ owner[c] \in reborn

Stored == \A s \in kept : birth[s] # Nobody /\ (binding[s] = birth[s] \/ s \in reborn)

Inductive == /\ TypeOK /\ GhostsOK /\ Placed /\ Clearing
             /\ Registered /\ Made /\ Stored
--------------------------------------------------------------------------------
LEMMA InductiveInit == Init => Inductive
BY SessionsAssumption
   DEF Init, Inductive, TypeOK, GhostsOK, Placed, Clearing, Registered, Made, Stored,
       Contexts, Nobody, NothingPending, Ended, Message

(* A save writes a list of messages. *)
LEMMA SaveType ==
    ASSUME TypeOK, NEW s \in Ids, NEW enc \in Seq(Message), NEW live \in Seq(Message), Saves(s, enc, live)
    PROVE  rows' \in [Ids -> Seq(Message)]
<1>1. Committed(rows[s], enc, live) \in Seq(Message)
  BY CommittedType DEF TypeOK
<1> QED BY <1>1 DEF Saves, TypeOK
--------------------------------------------------------------------------------
(* The four groups of variables: which actions change them, and their types. *)

StoreType == /\ kept \subseteq Ids /\ rows \in [Ids -> Seq(Message)]
             /\ binding \in [Ids -> Workspaces \cup {Unbound}] /\ known \subseteq Workspaces

ObjectType == /\ maker \in [Contexts -> {"new", "loaded", "ready"}]
              /\ owner \in [Contexts -> Ids \cup {Nobody}]
              /\ space \in [Contexts -> Workspaces \cup {Unbound}]
              /\ messages \in [Contexts -> Seq(Message)]
              /\ status \in [Contexts -> {"idle", "running", "completed", "failed", "stopped"}]
              /\ stopFlag \in [Contexts -> BOOLEAN]
              /\ listed \in [Ids -> Contexts \cup {Nobody}]

CallerPc == {"idle", "waiting", "woken", "savingStop", "saving"} \cup Ended
ThreadType == /\ caller \in [Turns -> CallerPc]
              /\ worker \in [Turns -> {"none", "thinking", "answered", "failed", "stopped"}]
              /\ at \in [Turns -> Contexts \cup {Nobody}]
              /\ pending \in [Turns -> [encoded : Seq(Message), emptied : BOOLEAN]]

ControlType == /\ cleaner \in [Ids -> [pc : {"idle", "resetting", "saving"},
                                       at : Contexts \cup {Nobody}]]
               /\ deleter \in [Ids -> {"idle", "unlisting", "erasing"}]

LEMMA TypeParts == TypeOK <=> StoreType /\ ObjectType /\ ThreadType /\ ControlType
BY DEF TypeOK, StoreType, ObjectType, ThreadType, ControlType, CallerPc

Stops(s) == Stop(s) \/ ClearStops(s) \/ DeleteStops(s)

LEMMA StoreFrame ==
    ASSUME [Next]_vars
    PROVE  \/ UNCHANGED storeVars
           \/ \E s \in Ids, w \in Workspaces \cup {Unbound} : Create(s, w)
           \/ \E t \in Turns : Commit(t)
           \/ \E s \in Ids : ClearSaves(s) \/ DeleteRows(s)
           \/ \E w \in Workspaces : RemoveWorkspace(w) \/ AddWorkspace(w)
BY ZenonT(40) DEF Next, CallerStep, WorkerStep, ControlStep, vars, ResumeLoads, ResumeLists, Send,
       Answers, Fails, GivesUp, Interrupted, Finished, GraceTimeout, Encodes, CommitFails,
       Ends, Stop, ClearStops, DeleteStops, ClearResets, ClearFails, DeleteUnlists, Crash,
       storeVars

LEMMA ObjectFrame ==
    ASSUME [Next]_vars
    PROVE  \/ UNCHANGED <<ctxVars, listed>>
           \/ \E s \in Ids, w \in Workspaces \cup {Unbound} : Create(s, w)
           \/ \E s \in Ids : \/ ResumeLoads(s) \/ Stops(s) \/ ClearResets(s) \/ DeleteUnlists(s)
           \/ \E c \in Contexts : ResumeLists(c)
           \/ \E t \in Turns : (\E s \in Ids : Send(t, s)) \/ Answers(t) \/ Fails(t)
           \/ Crash
BY DEF Next, CallerStep, WorkerStep, ControlStep, Stops, vars, GivesUp, Interrupted,
       Finished, GraceTimeout, Encodes, Commit, CommitFails, ClearSaves, ClearFails,
       DeleteRows, RemoveWorkspace, AddWorkspace, Marks, ctxVars

LEMMA ThreadFrame ==
    ASSUME [Next]_vars
    PROVE  \/ UNCHANGED turnVars
           \/ \E s \in Ids : Stops(s) \/ ClearResets(s)
           \/ \E t \in Turns : (\E s \in Ids : Send(t, s)) \/ CallerStep(t) \/ WorkerStep(t)
           \/ Crash
BY DEF Next, ControlStep, Stops, vars, Create, Inserts, ResumeLoads, ResumeLists,
       ClearSaves, ClearFails, DeleteUnlists, DeleteRows, RemoveWorkspace, AddWorkspace,
       Marks, turnVars

LEMMA ControlFrame ==
    ASSUME [Next]_vars
    PROVE  \/ UNCHANGED <<cleaner, deleter>>
           \/ \E s \in Ids : ClearStops(s) \/ DeleteStops(s) \/ ControlStep(s)
           \/ Crash
BY ZenonT(40) DEF Next, CallerStep, WorkerStep, vars, Create, Inserts, ResumeLoads, ResumeLists, Send,
       Answers, Fails, GivesUp, Interrupted, Finished, GraceTimeout, Encodes, Commit,
       CommitFails, Ends, Stop, RemoveWorkspace, AddWorkspace, Marks, opVars

--------------------------------------------------------------------------------
(* Every step keeps the types. *)

LEMMA StoreTypeStep ==
    ASSUME Inductive, [Next]_vars
    PROVE  StoreType'
<1> USE DEF StoreType
<1>1. StoreType
  BY TypeParts DEF Inductive
<1>2. CASE UNCHANGED storeVars
  BY <1>1, <1>2 DEF storeVars
<1>3. ASSUME NEW s \in Ids, NEW w \in Workspaces \cup {Unbound}, Create(s, w) PROVE StoreType'
  BY <1>1, <1>3 DEF Create, Inserts
<1>4. ASSUME NEW t \in Turns, Commit(t) PROVE StoreType'
  <2>1. at[t] \in Contexts /\ Of(t) \in Ids
    BY <1>4 DEF Inductive, Commit, Placed, Made, Of
  <2>2. pending[t].encoded \in Seq(Message) /\ Live(t) \in Seq(Message)
    BY <2>1 DEF Live, Inductive, TypeOK
  <2>3. rows' \in [Ids -> Seq(Message)]
    BY <1>4, <2>1, <2>2, SaveType DEF Commit, Inductive
  <2> QED BY <1>1, <1>4, <2>1, <2>3 DEF Commit, Saves
<1>5. ASSUME NEW s \in Ids, ClearSaves(s) PROVE StoreType'
  <2>1. messages[cleaner[s].at] \in Seq(Message)
    BY <1>5 DEF ClearSaves, CleanerGoes, Clearing, Inductive, TypeOK
  <2>2. rows' \in [Ids -> Seq(Message)]
    BY <1>5, <2>1, SaveType DEF ClearSaves, Inductive
  <2> QED BY <1>1, <1>5, <2>2 DEF ClearSaves, Saves
<1>6. ASSUME NEW s \in Ids, DeleteRows(s) PROVE StoreType'
  BY <1>1, <1>6 DEF DeleteRows
<1>7. ASSUME NEW w \in Workspaces, RemoveWorkspace(w) \/ AddWorkspace(w) PROVE StoreType'
  BY <1>1, <1>7 DEF RemoveWorkspace, AddWorkspace, Marks
<1> QED BY <1>2, <1>3, <1>4, <1>5, <1>6, <1>7, StoreFrame

LEMMA ObjectTypeStep ==
    ASSUME Inductive, [Next]_vars
    PROVE  ObjectType'
<1> USE DEF ObjectType
<1>1. ObjectType
  BY TypeParts DEF Inductive
<1>2. CASE UNCHANGED <<ctxVars, listed>>
  BY <1>1, <1>2 DEF ctxVars
<1>3. ASSUME NEW s \in Ids, NEW w \in Workspaces \cup {Unbound}, Create(s, w) PROVE ObjectType'
  BY <1>1, <1>3 DEF Create, Inserts, MakerGoes
<1>4. ASSUME NEW s \in Ids, ResumeLoads(s) PROVE ObjectType'
  BY <1>1, <1>4 DEF ResumeLoads, MakerGoes, SpaceOf, Inductive, TypeOK
<1>5. ASSUME NEW s \in Ids, Stops(s) PROVE ObjectType'
  BY <1>1, <1>5 DEF Stops, Stop, ClearStops, DeleteStops, StopIfRunning, StopContext
<1>6. ASSUME NEW s \in Ids, ClearResets(s) PROVE ObjectType'
  <2>1. <<>> \in Seq(Message)
    OBVIOUS
  <2>2. /\ messages' = [messages EXCEPT ![cleaner[s].at] = <<>>]
        /\ status' = [status EXCEPT ![cleaner[s].at] = "idle"]
        /\ stopFlag' = [stopFlag EXCEPT ![cleaner[s].at] = FALSE]
        /\ UNCHANGED <<maker, owner, space, listed>>
    BY <1>6 DEF ClearResets, Holds
  <2> QED BY <1>1, <2>1, <2>2
<1>7. ASSUME NEW s \in Ids, DeleteUnlists(s) PROVE ObjectType'
  BY <1>1, <1>7 DEF DeleteUnlists, ctxVars
<1>8. ASSUME NEW c \in Contexts, ResumeLists(c) PROVE ObjectType'
  BY <1>1, <1>8 DEF ResumeLists, MakerGoes
<1>9. ASSUME NEW t \in Turns, NEW s \in Ids, Send(t, s) PROVE ObjectType'
  <2>1. [role |-> "question", turn |-> t] \in Message
    BY DEF Message
  <2>2. messages' \in [Contexts -> Seq(Message)]
    BY <1>1, <1>9, <2>1, AppendProperties DEF Send, Holds
  <2> QED BY <1>1, <1>9, <2>2 DEF Send
<1>10. ASSUME NEW t \in Turns, Answers(t) \/ Fails(t) PROVE ObjectType'
  <2>1. [role |-> "answer", turn |-> t] \in Message
    BY DEF Message
  <2>2. messages' \in [Contexts -> Seq(Message)]
    <3>1. at[t] \in Contexts
      BY <1>10 DEF Answers, Fails, Ends, WorkerGoes, Inductive, Placed
    <3>2. Append(messages[at[t]], [role |-> "answer", turn |-> t]) \in Seq(Message)
      BY <1>1, <2>1, <3>1, AppendProperties
    <3>3. messages' = messages \/ messages' = [messages EXCEPT ![at[t]] =
              Append(messages[at[t]], [role |-> "answer", turn |-> t])]
      BY <1>10 DEF Answers, Fails, Holds
    <3> QED BY <1>1, <3>2, <3>3
  <2> QED BY <1>1, <1>10, <2>2 DEF Answers, Fails, Ends
<1>11. CASE Crash
  BY <1>1, <1>11 DEF Crash
<1> QED BY <1>2, <1>3, <1>4, <1>5, <1>6, <1>7, <1>8, <1>9, <1>10, <1>11, ObjectFrame

LEMMA WokenType ==
    ASSUME ThreadType, NEW c
    PROVE  Woken(c) \in [Turns -> CallerPc]
BY DEF ThreadType, Woken, CallerPc

LEMMA ThreadTypeStep ==
    ASSUME Inductive, [Next]_vars
    PROVE  ThreadType'
<1> USE DEF ThreadType
<1>1. ThreadType
  BY TypeParts DEF Inductive
<1>2. CASE UNCHANGED turnVars
  BY <1>1, <1>2 DEF turnVars
<1>3. ASSUME NEW s \in Ids, Stops(s) PROVE ThreadType'
  BY <1>1, <1>3, WokenType
     DEF Stops, Stop, ClearStops, DeleteStops, StopIfRunning, StopContext
<1>4. ASSUME NEW s \in Ids, ClearResets(s) PROVE ThreadType'
  <2>1. pending' \in [Turns -> [encoded : Seq(Message), emptied : BOOLEAN]]
    BY <1>1, <1>4 DEF ClearResets
  <2> QED BY <1>1, <1>4, <2>1 DEF ClearResets
<1>5. ASSUME NEW t \in Turns, NEW s \in Ids, Send(t, s) PROVE ThreadType'
  BY <1>1, <1>5 DEF Send, CallerGoes, WorkerGoes, CallerPc, Inductive, TypeOK
<1>6. ASSUME NEW t \in Turns, WorkerStep(t) PROVE ThreadType'
  <2>1. \/ worker' = [worker EXCEPT ![t] = "answered"]
        \/ worker' = [worker EXCEPT ![t] = "failed"]
        \/ worker' = [worker EXCEPT ![t] = "stopped"]
    BY <1>6 DEF WorkerStep, Answers, Fails, GivesUp, Ends, WorkerGoes
  <2>2. caller' = caller \/ caller' = Woken(at[t])
    BY <1>6 DEF WorkerStep, Answers, Fails, GivesUp, Ends
  <2>3. UNCHANGED <<at, pending>>
    BY <1>6 DEF WorkerStep, Answers, Fails, GivesUp, Ends
  <2>4. caller' \in [Turns -> CallerPc]
    BY <1>1, <2>2, WokenType
  <2> QED BY <1>1, <2>1, <2>3, <2>4
<1>7. ASSUME NEW t \in Turns, Interrupted(t) \/ Finished(t) PROVE ThreadType'
  <2>1. messages[at[t]] \in Seq(Message)
    BY <1>7 DEF Inductive, Placed, TypeOK, Interrupted, Finished, Encodes, CallerGoes
  <2>2. pending' \in [Turns -> [encoded : Seq(Message), emptied : BOOLEAN]]
    <3>1. [encoded |-> messages[at[t]], emptied |-> FALSE]
              \in [encoded : Seq(Message), emptied : BOOLEAN]
      BY <2>1
    <3>2. pending' = [pending EXCEPT ![t] = [encoded |-> messages[at[t]], emptied |-> FALSE]]
      BY <1>7 DEF Interrupted, Finished, Encodes
    <3> QED BY <1>1, <3>1, <3>2
  <2> QED BY <1>1, <1>7, <2>2 DEF Interrupted, Finished, Encodes, CallerGoes, CallerPc
<1>8. ASSUME NEW t \in Turns, GraceTimeout(t) PROVE ThreadType'
  BY <1>1, <1>8 DEF GraceTimeout, CallerGoes, CallerPc, Ended
<1>9. ASSUME NEW t \in Turns, Commit(t) \/ CommitFails(t) PROVE ThreadType'
  <2>1. Reply(t) \in CallerPc /\ "unsaved" \in CallerPc
    BY DEF Reply, CallerPc, Ended
  <2>2. NothingPending \in [encoded : Seq(Message), emptied : BOOLEAN]
    BY DEF NothingPending
  <2>3. /\ \/ caller' = [caller EXCEPT ![t] = Reply(t)]
           \/ caller' = [caller EXCEPT ![t] = "unsaved"]
        /\ pending' = [pending EXCEPT ![t] = NothingPending]
        /\ UNCHANGED <<worker, at>>
    BY <1>9 DEF Commit, CommitFails
  <2> QED BY <1>1, <2>1, <2>2, <2>3, ZenonT(40)
<1>10. CASE Crash
  <2>1. NothingPending \in [encoded : Seq(Message), emptied : BOOLEAN]
    BY DEF NothingPending
  <2> QED BY <1>1, <1>10, <2>1 DEF Crash, CallerPc, Ended
<1> QED BY <1>2, <1>3, <1>4, <1>5, <1>6, <1>7, <1>8, <1>9, <1>10, ThreadFrame DEF CallerStep

LEMMA ControlTypeStep ==
    ASSUME Inductive, [Next]_vars
    PROVE  ControlType'
<1> USE DEF ControlType
<1>1. ControlType
  BY TypeParts DEF Inductive
<1>2. CASE UNCHANGED <<cleaner, deleter>>
  BY <1>1, <1>2
<1>3. ASSUME NEW s \in Ids, ClearStops(s) PROVE ControlType'
  BY <1>1, <1>3 DEF ClearStops, CleanerGoes, Inductive, TypeOK
<1>4. ASSUME NEW s \in Ids, ClearResets(s) PROVE ControlType'
  BY <1>1, <1>4 DEF ClearResets, CleanerGoes
<1>5. ASSUME NEW s \in Ids, ClearSaves(s) \/ ClearFails(s) PROVE ControlType'
  BY <1>1, <1>5 DEF ClearSaves, ClearFails, CleanerGoes
<1>6. ASSUME NEW s \in Ids, DeleteStops(s) \/ DeleteUnlists(s) \/ DeleteRows(s) PROVE ControlType'
  BY <1>1, <1>6 DEF DeleteStops, DeleteUnlists, DeleteRows, DeleterGoes
<1>7. CASE Crash
  BY <1>1, <1>7 DEF Crash
<1> QED BY <1>2, <1>3, <1>4, <1>5, <1>6, <1>7, ControlFrame DEF ControlStep

LEMMA GhostFrame ==
    ASSUME [Next]_vars
    PROVE  \/ UNCHANGED <<birth, erased, overtaken, reborn, left>>
           \/ UNCHANGED <<birth, erased, overtaken, reborn>> /\ Spend
           \/ \E s \in Ids, w \in Workspaces \cup {Unbound} : Create(s, w)
           \/ \E c \in Contexts : ResumeLists(c)
           \/ \E t \in Turns : Commit(t)
           \/ \E s \in Ids : ClearResets(s) \/ ClearSaves(s) \/ DeleteRows(s)
BY ZenonT(40) DEF Next, CallerStep, WorkerStep, ControlStep, vars, ResumeLoads, Send, Answers, Fails,
       GivesUp, Interrupted, Finished, GraceTimeout, Encodes, CommitFails, Ends, Stop,
       ClearStops, DeleteStops, ClearFails, DeleteUnlists, RemoveWorkspace, AddWorkspace,
       Marks, Crash, opVars, ghosts

LEMMA GhostsStep ==
    ASSUME Inductive, [Next]_vars
    PROVE  GhostsOK'
<1> USE DEF GhostsOK
<1>1. GhostsOK
  BY DEF Inductive
<1>2. CASE UNCHANGED <<birth, erased, overtaken, reborn, left>>
  BY <1>1, <1>2
<1>3. CASE UNCHANGED <<birth, erased, overtaken, reborn>> /\ Spend
  BY <1>1, <1>3 DEF Spend
<1>4. ASSUME NEW s \in Ids, NEW w \in Workspaces \cup {Unbound}, Create(s, w) PROVE GhostsOK'
  BY <1>1, <1>4 DEF Create, Inserts, opVars
<1>5. ASSUME NEW c \in Contexts, ResumeLists(c) PROVE GhostsOK'
  <2>1. owner[c] \in Ids
    BY <1>5 DEF ResumeLists, MakerGoes, Inductive, Made
  <2> QED BY <1>1, <1>5, <2>1 DEF ResumeLists, opVars
<1>6. ASSUME NEW t \in Turns, Commit(t) PROVE GhostsOK'
  <2>1. Of(t) \in Ids
    BY <1>6 DEF Inductive, Commit, Placed, Made, Of
  <2> QED BY <1>1, <1>6, <2>1 DEF Commit, Saves, opVars
<1>7. ASSUME NEW s \in Ids, ClearResets(s) PROVE GhostsOK'
  BY <1>1, <1>7 DEF ClearResets, TurnsOf
<1>8. ASSUME NEW s \in Ids, ClearSaves(s) PROVE GhostsOK'
  BY <1>1, <1>8 DEF ClearSaves, Saves
<1>9. ASSUME NEW s \in Ids, DeleteRows(s) PROVE GhostsOK'
  BY <1>1, <1>9 DEF DeleteRows, TurnsOf
<1> QED BY <1>2, <1>3, <1>4, <1>5, <1>6, <1>7, <1>8, <1>9, GhostFrame

--------------------------------------------------------------------------------
(* What connects the groups. *)

(* A context object, once made, stays the object of its session. *)
LEMMA ObjectsStay ==
    ASSUME Inductive, [Next]_vars, NEW c \in Contexts, maker[c] # "new"
    PROVE  maker'[c] # "new" /\ owner'[c] = owner[c] /\ space'[c] = space[c]
<1> USE DEF Inductive, TypeOK
<1>1. CASE UNCHANGED <<ctxVars, listed>>
  BY <1>1 DEF ctxVars
<1>2. ASSUME NEW s \in Ids, NEW w \in Workspaces \cup {Unbound}, Create(s, w)
      PROVE  maker'[c] # "new" /\ owner'[c] = owner[c] /\ space'[c] = space[c]
  BY <1>2 DEF Create, Inserts, MakerGoes
<1>3. ASSUME NEW s \in Ids, ResumeLoads(s)
      PROVE  maker'[c] # "new" /\ owner'[c] = owner[c] /\ space'[c] = space[c]
  BY <1>3 DEF ResumeLoads, MakerGoes
<1>4. ASSUME NEW s \in Ids, Stops(s) \/ ClearResets(s) \/ DeleteUnlists(s)
      PROVE  maker'[c] # "new" /\ owner'[c] = owner[c] /\ space'[c] = space[c]
  BY <1>4 DEF Stops, Stop, ClearStops, DeleteStops, ClearResets, DeleteUnlists, ctxVars
<1>5. ASSUME NEW d \in Contexts, ResumeLists(d)
      PROVE  maker'[c] # "new" /\ owner'[c] = owner[c] /\ space'[c] = space[c]
  BY <1>5 DEF ResumeLists, MakerGoes
<1>6. ASSUME NEW t \in Turns, (\E s \in Ids : Send(t, s)) \/ Answers(t) \/ Fails(t)
      PROVE  maker'[c] # "new" /\ owner'[c] = owner[c] /\ space'[c] = space[c]
  BY <1>6 DEF Send, Answers, Fails, Ends
<1>7. CASE Crash
  BY <1>7 DEF Crash
<1> QED BY <1>1, <1>2, <1>3, <1>4, <1>5, <1>6, <1>7, ObjectFrame

(* A session is created once, and once inserted again stays marked. *)
LEMMA BirthStays ==
    ASSUME Inductive, [Next]_vars
    PROVE  /\ \A s \in Ids : birth[s] # Nobody => birth'[s] = birth[s]
           /\ reborn \subseteq reborn'
<1> USE DEF Inductive, GhostsOK
<1>1. ASSUME NEW s \in Ids, NEW w \in Workspaces \cup {Unbound}, Create(s, w)
      PROVE  /\ \A r \in Ids : birth[r] # Nobody => birth'[r] = birth[r]
             /\ reborn \subseteq reborn'
  BY <1>1 DEF Create, Inserts
<1>2. ASSUME NEW t \in Turns, Commit(t) PROVE birth' = birth /\ reborn \subseteq reborn'
  BY <1>2 DEF Commit, Saves
<1>3. ASSUME NEW s \in Ids, ClearSaves(s) PROVE birth' = birth /\ reborn \subseteq reborn'
  BY <1>3 DEF ClearSaves, Saves
<1>4. ASSUME NEW s \in Ids, ClearResets(s) \/ DeleteRows(s) PROVE UNCHANGED <<birth, reborn>>
  BY <1>4 DEF ClearResets, DeleteRows
<1>5. ASSUME NEW c \in Contexts, ResumeLists(c) PROVE UNCHANGED <<birth, reborn>>
  BY <1>5 DEF ResumeLists
<1> QED BY <1>1, <1>2, <1>3, <1>4, <1>5, GhostFrame

LEMMA MadeStep ==
    ASSUME Inductive, [Next]_vars
    PROVE  Made'
<1> SUFFICES ASSUME NEW c \in Contexts, maker'[c] # "new"
             PROVE  /\ owner'[c] \in Ids /\ birth'[owner'[c]] # Nobody
                    /\ space'[c] = birth'[owner'[c]] \/ owner'[c] \in reborn'
  BY DEF Made
<1>1. CASE maker[c] # "new"
  BY <1>1, ObjectsStay, BirthStays DEF Inductive, Made
<1>2. CASE maker[c] = "new"
  <2> USE DEF Inductive, TypeOK, GhostsOK
  <2>1. ASSUME NEW s \in Ids, NEW w \in Workspaces \cup {Unbound}, Create(s, w)
        PROVE  owner'[c] = s /\ space'[c] = w /\ birth'[s] = w /\ w # Nobody
    BY <1>2, <2>1, SessionsAssumption DEF Create, Inserts, MakerGoes
  <2>2. ASSUME NEW s \in Ids, ResumeLoads(s)
        PROVE  /\ owner'[c] = s /\ space'[c] = binding[s] /\ s \in kept
               /\ UNCHANGED <<birth, reborn>>
    BY <1>2, <2>2 DEF ResumeLoads, MakerGoes, SpaceOf, ghosts
  <2>3. \/ \E s \in Ids, w \in Workspaces \cup {Unbound} : Create(s, w)
        \/ \E s \in Ids : ResumeLoads(s)
    <3>1. CASE UNCHANGED <<ctxVars, listed>>
      BY <1>2, <3>1 DEF ctxVars
    <3>2. ASSUME NEW s \in Ids, Stops(s) \/ ClearResets(s) \/ DeleteUnlists(s) PROVE FALSE
      BY <1>2, <3>2
         DEF Stops, Stop, ClearStops, DeleteStops, ClearResets, DeleteUnlists, ctxVars
    <3>3. ASSUME NEW d \in Contexts, ResumeLists(d) PROVE FALSE
      BY <1>2, <3>3 DEF ResumeLists, MakerGoes
    <3>4. ASSUME NEW t \in Turns, (\E s \in Ids : Send(t, s)) \/ Answers(t) \/ Fails(t)
          PROVE  FALSE
      BY <1>2, <3>4 DEF Send, Answers, Fails, Ends
    <3>5. ASSUME Crash PROVE FALSE
      BY <1>2, <3>5 DEF Crash
    <3> QED BY <3>1, <3>2, <3>3, <3>4, <3>5, ObjectFrame
  <2> QED BY <2>1, <2>2, <2>3 DEF Stored
<1> QED BY <1>1, <1>2

LEMMA StoredStep ==
    ASSUME Inductive, [Next]_vars
    PROVE  Stored'
<1> USE DEF Inductive, TypeOK, GhostsOK, Stored
<1>1. CASE UNCHANGED storeVars
  BY <1>1, BirthStays DEF storeVars
<1>2. ASSUME NEW s \in Ids, NEW w \in Workspaces \cup {Unbound}, Create(s, w) PROVE Stored'
  BY <1>2, SessionsAssumption DEF Create, Inserts
<1>3. ASSUME NEW t \in Turns, Commit(t) PROVE Stored'
  <2>1. Of(t) \in Ids /\ birth[Of(t)] # Nobody
    BY <1>3 DEF Commit, Placed, Made, Of
  <2> QED BY <1>3, <2>1 DEF Commit, Saves
<1>4. ASSUME NEW s \in Ids, ClearSaves(s) PROVE Stored'
  <2>1. birth[s] # Nobody
    BY <1>4 DEF ClearSaves, CleanerGoes, Clearing, Made
  <2> QED BY <1>4, <2>1 DEF ClearSaves, Saves
<1>5. ASSUME NEW s \in Ids, DeleteRows(s) PROVE Stored'
  BY <1>5 DEF DeleteRows
<1>6. ASSUME NEW w \in Workspaces, RemoveWorkspace(w) \/ AddWorkspace(w) PROVE Stored'
  BY <1>6 DEF RemoveWorkspace, AddWorkspace, Marks, ghosts
<1> QED BY <1>1, <1>2, <1>3, <1>4, <1>5, <1>6, StoreFrame

LEMMA RegisteredStep ==
    ASSUME Inductive, [Next]_vars
    PROVE  Registered'
<1> USE DEF Inductive, TypeOK, Registered, Nobody
<1>1. CASE UNCHANGED <<ctxVars, listed>>
  BY <1>1 DEF ctxVars
<1>2. ASSUME NEW s \in Ids, NEW w \in Workspaces \cup {Unbound}, Create(s, w) PROVE Registered'
  BY <1>2 DEF Create, Inserts, MakerGoes
<1>3. ASSUME NEW s \in Ids, ResumeLoads(s) PROVE Registered'
  BY <1>3 DEF ResumeLoads, MakerGoes
<1>4. ASSUME NEW s \in Ids, Stops(s) \/ ClearResets(s) PROVE Registered'
  BY <1>4 DEF Stops, Stop, ClearStops, DeleteStops, ClearResets
<1>5. ASSUME NEW s \in Ids, DeleteUnlists(s) PROVE Registered'
  BY <1>5 DEF DeleteUnlists, ctxVars
<1>6. ASSUME NEW c \in Contexts, ResumeLists(c) PROVE Registered'
  BY <1>6 DEF ResumeLists, MakerGoes, Made
<1>7. ASSUME NEW t \in Turns, (\E s \in Ids : Send(t, s)) \/ Answers(t) \/ Fails(t)
      PROVE  Registered'
  BY <1>7 DEF Send, Answers, Fails, Ends
<1>8. CASE Crash
  BY <1>8 DEF Crash
<1> QED BY <1>1, <1>2, <1>3, <1>4, <1>5, <1>6, <1>7, <1>8, ObjectFrame

LEMMA PlacedStep ==
    ASSUME Inductive, [Next]_vars
    PROVE  Placed'
<1>1. ASSUME NEW t \in Turns, caller[t] # "idle"
      PROVE  at[t] \in Contexts /\ maker[at[t]] # "new" /\ maker'[at[t]] # "new"
  BY <1>1, ObjectsStay DEF Inductive, Placed
<1> USE DEF Inductive, TypeOK, Placed
<1>2. CASE UNCHANGED turnVars
  BY <1>1, <1>2 DEF turnVars
<1>3. ASSUME NEW s \in Ids, Stops(s) PROVE Placed'
  <2>1. UNCHANGED <<at, worker>> /\ \A t \in Turns : caller'[t] # "idle" <=> caller[t] # "idle"
    BY <1>3 DEF Stops, Stop, ClearStops, DeleteStops, StopIfRunning, StopContext, Woken
  <2> QED BY <1>1, <2>1
<1>4. ASSUME NEW s \in Ids, ClearResets(s) PROVE Placed'
  BY <1>1, <1>4 DEF ClearResets
<1>5. ASSUME NEW t \in Turns, NEW s \in Ids, Send(t, s) PROVE Placed'
  <2>1. listed[s] \in Contexts /\ maker[listed[s]] # "new"
    BY <1>5 DEF Send, Registered
  <2>2. maker' = maker
    BY <1>5 DEF Send
  <2>3. /\ caller' = [caller EXCEPT ![t] = "waiting"]
        /\ worker' = [worker EXCEPT ![t] = "thinking"]
        /\ at' = [at EXCEPT ![t] = listed[s]]
    BY <1>5 DEF Send, CallerGoes, WorkerGoes
  <2> QED BY <1>1, <2>1, <2>2, <2>3
<1>6. ASSUME NEW t \in Turns, CallerStep(t) PROVE Placed'
  <2>1. UNCHANGED <<at, worker>> /\ caller[t] # "idle"
    BY <1>6
       DEF CallerStep, Interrupted, Finished, GraceTimeout, Encodes, CallerGoes, Commit,
           CommitFails
  <2>2. \A q \in Turns \ {t} : caller'[q] = caller[q]
    BY <1>6
       DEF CallerStep, Interrupted, Finished, GraceTimeout, Encodes, CallerGoes, Commit,
           CommitFails
  <2>3. caller'[t] # "idle"
    BY <1>6, ZenonT(40)
       DEF CallerStep, Interrupted, Finished, GraceTimeout, Encodes, CallerGoes, Commit,
           CommitFails, Reply
  <2> QED BY <1>1, <2>1, <2>2, <2>3
<1>7. ASSUME NEW t \in Turns, WorkerStep(t) PROVE Placed'
  <2>1. UNCHANGED at /\ \A q \in Turns : caller'[q] # "idle" <=> caller[q] # "idle"
    BY <1>7 DEF WorkerStep, Answers, Fails, GivesUp, Ends, Woken
  <2>2. /\ worker[t] = "thinking"
        /\ \A q \in Turns \ {t} : worker'[q] = worker[q]
    BY <1>7 DEF WorkerStep, Answers, Fails, GivesUp, Ends, WorkerGoes
  <2> QED BY <1>1, <2>1, <2>2
<1>8. CASE Crash
  <2>1. UNCHANGED at /\ \A t \in Turns : /\ caller'[t] # "idle" <=> caller[t] # "idle"
                                         /\ worker'[t] # "none" <=> worker[t] # "none"
    BY <1>8 DEF Crash, InFlight, Ended
  <2> QED BY <1>1, <2>1
<1> QED BY <1>2, <1>3, <1>4, <1>5, <1>6, <1>7, <1>8, ThreadFrame

LEMMA ClearingStep ==
    ASSUME Inductive, [Next]_vars
    PROVE  Clearing'
<1>1. ASSUME NEW s \in Ids, cleaner[s].pc # "idle"
      PROVE  /\ cleaner[s].at \in Contexts /\ maker'[cleaner[s].at] # "new"
             /\ owner'[cleaner[s].at] = s
  BY <1>1, ObjectsStay DEF Inductive, Clearing
<1> USE DEF Inductive, TypeOK, Clearing
<1>2. CASE UNCHANGED <<cleaner, deleter>>
  BY <1>1, <1>2
<1>3. ASSUME NEW s \in Ids, ClearStops(s) PROVE Clearing'
  <2>1. /\ cleaner' = [cleaner EXCEPT ![s] = [pc |-> "resetting", at |-> listed[s]]]
        /\ UNCHANGED <<maker, owner>> /\ listed[s] # Nobody
    BY <1>3 DEF ClearStops, CleanerGoes
  <2>2. listed[s] \in Contexts /\ maker[listed[s]] # "new" /\ owner[listed[s]] = s
    BY <2>1 DEF Registered
  <2> QED BY <1>1, <2>1, <2>2
<1>4. ASSUME NEW s \in Ids, ClearResets(s) PROVE Clearing'
  <2>1. /\ cleaner' = [cleaner EXCEPT ![s] = [pc |-> "saving", at |-> cleaner[s].at]]
        /\ cleaner[s].pc # "idle"
    BY <1>4 DEF ClearResets, CleanerGoes
  <2> QED BY <1>1, <2>1
<1>5. ASSUME NEW s \in Ids, ClearSaves(s) \/ ClearFails(s) PROVE Clearing'
  <2>1. cleaner' = [cleaner EXCEPT ![s] = [pc |-> "idle", at |-> Nobody]]
    BY <1>5 DEF ClearSaves, ClearFails, CleanerGoes
  <2> QED BY <1>1, <2>1
<1>6. ASSUME NEW s \in Ids, DeleteStops(s) \/ DeleteUnlists(s) \/ DeleteRows(s) PROVE Clearing'
  BY <1>1, <1>6 DEF DeleteStops, DeleteUnlists, DeleteRows
<1>7. CASE Crash
  BY <1>7 DEF Crash
<1> QED BY <1>2, <1>3, <1>4, <1>5, <1>6, <1>7, ControlFrame DEF ControlStep

LEMMA InductiveStep == Inductive /\ [Next]_vars => Inductive'
<1> SUFFICES ASSUME Inductive, [Next]_vars PROVE Inductive'
  OBVIOUS
<1>1. TypeOK'
  BY StoreTypeStep, ObjectTypeStep, ThreadTypeStep, ControlTypeStep
     DEF TypeOK, StoreType, ObjectType, ThreadType, ControlType, CallerPc
<1> QED BY <1>1, GhostsStep, PlacedStep, ClearingStep, RegisteredStep, MadeStep, StoredStep
        DEF Inductive

(* Sessions keep their types, for any number of sessions, workspaces, turns and   *)
(* context objects, whatever is stopped, cleared, deleted, resumed or crashes.    *)
THEOREM SessionsTyped == Spec => []TypeOK
<1>1. Inductive => TypeOK
  BY DEF Inductive
<1> QED BY <1>1, InductiveInit, InductiveStep, PTL DEF Spec

(* A registered context is bound to the workspace its session was created with:   *)
(* a resume takes the binding from the row, a row is written with the binding of  *)
(* its session or, if a late save inserts it again, marked (sqlite_store.py:176). *)
THEOREM WorkspacesAreKept == Spec => []WorkspaceKept
<1>1. Inductive => WorkspaceKept
  <2> SUFFICES ASSUME Inductive, NEW s \in Ids, listed[s] # Nobody
               PROVE  space[listed[s]] = birth[s] \/ s \in reborn
    BY DEF WorkspaceKept
  <2>1. listed[s] \in Contexts /\ maker[listed[s]] # "new" /\ owner[listed[s]] = s
    BY DEF Inductive, TypeOK, Registered
  <2> QED BY <2>1 DEF Inductive, Made
<1> QED BY <1>1, InductiveInit, InductiveStep, PTL DEF Spec

--------------------------------------------------------------------------------
(* No step that stops, clears, deletes or ends a turn leaves a waiter behind.     *)
LEMMA WaitersStep ==
    ASSUME Inductive, NobodyWaitsInVain, [Next]_vars
    PROVE  NobodyWaitsInVain'
<1> USE DEF Inductive, TypeOK, NobodyWaitsInVain
<1>1. ASSUME UNCHANGED turnVars, UNCHANGED stopFlag PROVE NobodyWaitsInVain'
  BY <1>1 DEF turnVars
<1>2. ASSUME NEW s \in Ids, Stops(s) PROVE NobodyWaitsInVain'
  <2>1. UNCHANGED <<worker, at>>
    BY <1>2 DEF Stops, Stop, ClearStops, DeleteStops
  <2>2. CASE UNCHANGED <<stopFlag, caller>>
    BY <2>1, <2>2
  <2>3. ASSUME NEW c \in Contexts, stopFlag' = [stopFlag EXCEPT ![c] = TRUE], caller' = Woken(c)
        PROVE  NobodyWaitsInVain'
    <3>1. \A t \in Turns : caller'[t] = "waiting" => caller[t] = "waiting" /\ at[t] # c
      BY <2>3 DEF Woken
    <3>2. \A d \in Contexts : d # c => stopFlag'[d] = stopFlag[d]
      BY <2>3
    <3> QED BY <2>1, <3>1, <3>2 DEF Placed
  <2> QED BY <1>2, <2>2, <2>3
             DEF Stops, Stop, ClearStops, DeleteStops, StopIfRunning, StopContext
<1>3. ASSUME NEW s \in Ids, ClearResets(s) PROVE NobodyWaitsInVain'
  <2>1. /\ stopFlag' = [stopFlag EXCEPT ![cleaner[s].at] = FALSE]
        /\ UNCHANGED <<caller, worker, at>>
    BY <1>3 DEF ClearResets
  <2>2. \A c \in Contexts : stopFlag'[c] => stopFlag[c]
    BY <2>1
  <2> QED BY <2>1, <2>2 DEF Placed
<1>4. ASSUME UNCHANGED turnVars PROVE NobodyWaitsInVain'
  <2>1. ASSUME NEW s \in Ids, NEW w \in Workspaces \cup {Unbound}, Create(s, w) PROVE UNCHANGED stopFlag
    BY <2>1 DEF Create, Inserts
  <2>2. ASSUME NEW s \in Ids, ResumeLoads(s) PROVE UNCHANGED stopFlag
    BY <2>2 DEF ResumeLoads
  <2>3. ASSUME NEW s \in Ids, DeleteUnlists(s) PROVE UNCHANGED stopFlag
    BY <2>3 DEF DeleteUnlists, ctxVars
  <2>4. ASSUME NEW c \in Contexts, ResumeLists(c) PROVE UNCHANGED stopFlag
    BY <2>4 DEF ResumeLists
  <2>5. CASE UNCHANGED <<ctxVars, listed>>
    BY <1>4, <2>5, <1>1 DEF ctxVars
  <2>6. ASSUME NEW t \in Turns, (\E s \in Ids : Send(t, s)) \/ Answers(t) \/ Fails(t)
        PROVE  FALSE
    BY <1>4, <2>6 DEF turnVars, Send, Answers, Fails, Ends, WorkerGoes
  <2>7. ASSUME Crash PROVE NobodyWaitsInVain'
    BY <2>7 DEF Crash, InFlight, Ended
  <2> QED BY <1>1, <1>4, <1>2, <1>3, <2>1, <2>2, <2>3, <2>4, <2>5, <2>6, <2>7, ObjectFrame
<1>5. ASSUME NEW t \in Turns, NEW s \in Ids, Send(t, s) PROVE NobodyWaitsInVain'
  <2>1. /\ caller' = [caller EXCEPT ![t] = "waiting"]
        /\ worker' = [worker EXCEPT ![t] = "thinking"]
        /\ at' = [at EXCEPT ![t] = listed[s]]
        /\ stopFlag' = [stopFlag EXCEPT ![listed[s]] = FALSE]
        /\ listed[s] \in Contexts
    BY <1>5 DEF Send, CallerGoes, WorkerGoes
  <2>2. \A c \in Contexts : stopFlag'[c] => stopFlag[c]
    BY <2>1
  <2> QED BY <2>1, <2>2 DEF Placed
<1>6. ASSUME NEW t \in Turns, Answers(t) \/ Fails(t) PROVE NobodyWaitsInVain'
  <2>1. /\ caller' = Woken(at[t]) /\ UNCHANGED <<at, stopFlag>>
        /\ \A q \in Turns \ {t} : worker'[q] = worker[q]
    BY <1>6 DEF Answers, Fails, Ends, WorkerGoes
  <2> QED BY <2>1 DEF Woken
<1>7. ASSUME NEW t \in Turns, GivesUp(t) PROVE NobodyWaitsInVain'
  <2>1. /\ stopFlag[at[t]] /\ UNCHANGED <<caller, at, stopFlag>>
        /\ \A q \in Turns \ {t} : worker'[q] = worker[q]
    BY <1>7 DEF GivesUp, WorkerGoes, ctxVars
  <2> QED BY <2>1
<1>8. ASSUME NEW t \in Turns, CallerStep(t) PROVE NobodyWaitsInVain'
  <2>1. UNCHANGED <<worker, at, stopFlag>>
    BY <1>8
       DEF CallerStep, Interrupted, Finished, GraceTimeout, Encodes, Commit, CommitFails,
           ctxVars
  <2>2. \A q \in Turns \ {t} : caller'[q] = caller[q]
    BY <1>8
       DEF CallerStep, Interrupted, Finished, GraceTimeout, Encodes, CallerGoes, Commit,
           CommitFails
  <2>3. caller'[t] # "waiting"
    BY <1>8, ZenonT(40)
       DEF CallerStep, Interrupted, Finished, GraceTimeout, Encodes, CallerGoes, Commit,
           CommitFails, Reply
  <2> QED BY <2>1, <2>2, <2>3
<1>9. CASE Crash
  <2>1. \A t \in Turns : caller'[t] # "waiting"
    BY <1>9 DEF Crash, InFlight, Ended
  <2> QED BY <2>1
<1> QED BY <1>4, <1>2, <1>3, <1>5, <1>6, <1>7, <1>8, <1>9, ThreadFrame DEF WorkerStep

(* Whoever waits for a turn waits for a worker that is still at work and has not   *)
(* been told to stop, for any number of turns, resumes, clears and deletions.     *)
THEOREM WaitersAreServed == Spec => []NobodyWaitsInVain
<1>1. Init => NobodyWaitsInVain
  BY DEF Init, NobodyWaitsInVain
<1>2. Inductive /\ NobodyWaitsInVain /\ [Next]_vars => NobodyWaitsInVain'
  BY WaitersStep
<1> QED BY <1>1, <1>2, InductiveInit, InductiveStep, PTL DEF Spec

--------------------------------------------------------------------------------
(* What is in the histories *)

Question(t) == [role |-> "question", turn |-> t]
Answer(t) == [role |-> "answer", turn |-> t]

Said(log, m) == \E i \in 1..Len(log) : log[i] = m

\* A history without repetition, in which an answer comes after its question, unless the
\* question was lost.
CleanLog(log, lost) == \A j \in 1..Len(log) :
    /\ \A i \in 1..(j - 1) : log[i] # log[j]
    /\ log[j].role = "answer" /\ log[j].turn \notin lost
           => \E i \in 1..(j - 1) : log[i] = Question(log[j].turn)

LEMMA Messages == ASSUME NEW t \in Turns
                  PROVE  /\ Question(t) \in Message /\ Answer(t) \in Message
                         /\ Question(t) # Answer(t)
                         /\ \A u \in Turns \ {t} : /\ Question(u) # Question(t)
                                                   /\ Answer(u) # Answer(t)
                         /\ \A u : Question(t) # Answer(u)
BY DEF Question, Answer, Message

(* One more message. *)
LEMMA AppendFacts ==
    ASSUME NEW log \in Seq(Message), NEW m \in Message
    PROVE  /\ Len(log) \in Nat /\ Append(log, m) \in Seq(Message)
           /\ Len(Append(log, m)) = Len(log) + 1
           /\ \A i \in 1..Len(log) : Append(log, m)[i] = log[i]
           /\ Append(log, m)[Len(log) + 1] = m
BY AppendProperties, LenProperties

LEMMA AppendSaid ==
    ASSUME NEW log \in Seq(Message), NEW m \in Message, NEW x
    PROVE  Said(Append(log, m), x) <=> Said(log, x) \/ x = m
<1> DEFINE n == Len(log)
           more == Append(log, m)
<1>1. /\ n \in Nat /\ Len(more) = n + 1 /\ more[n + 1] = m
      /\ \A i \in 1..n : more[i] = log[i]
  BY AppendFacts
<1> HIDE DEF more
<1>2. \A i \in 1..n + 1 : i \in 1..n \/ i = n + 1
  BY <1>1
<1>3. n + 1 \in 1..n + 1 /\ 1..n \subseteq 1..n + 1
  BY <1>1
<1>4. ASSUME Said(more, x) PROVE Said(log, x) \/ x = m
  BY <1>1, <1>2, <1>4 DEF Said
<1>5. ASSUME Said(log, x) \/ x = m PROVE Said(more, x)
  BY <1>1, <1>3, <1>5 DEF Said
<1> QED BY <1>4, <1>5 DEF more

LEMMA AppendClean ==
    ASSUME NEW log \in Seq(Message), NEW m \in Message, NEW lost, CleanLog(log, lost),
           ~Said(log, m),
           m.role = "answer" /\ m.turn \notin lost => Said(log, Question(m.turn))
    PROVE  CleanLog(Append(log, m), lost)
<1> DEFINE n == Len(log)
           more == Append(log, m)
<1>1. /\ n \in Nat /\ Len(more) = n + 1 /\ more[n + 1] = m
      /\ \A i \in 1..n : more[i] = log[i]
  BY AppendFacts
<1> HIDE DEF more
<1> SUFFICES ASSUME NEW j \in 1..n + 1
             PROVE  /\ \A i \in 1..(j - 1) : more[i] # more[j]
                    /\ more[j].role = "answer" /\ more[j].turn \notin lost
                          => \E i \in 1..(j - 1) : more[i] = Question(more[j].turn)
  BY <1>1 DEF CleanLog, more
<1>2. CASE j \in 1..n
  <2>1. 1..(j - 1) \subseteq 1..n /\ more[j] = log[j]
    BY <1>1, <1>2
  <2> QED BY <1>1, <1>2, <2>1 DEF CleanLog
<1>3. CASE j = n + 1
  <2>1. 1..(j - 1) = 1..n /\ more[j] = m
    BY <1>1, <1>3
  <2> QED BY <1>1, <2>1 DEF Said
<1> QED BY <1>1, <1>2, <1>3

LEMMA LostClean ==
    ASSUME NEW log, NEW lost, NEW more, lost \subseteq more, CleanLog(log, lost)
    PROVE  CleanLog(log, more)
BY DEF CleanLog

LEMMA AppendStarts ==
    ASSUME NEW s \in Seq(Message), NEW log \in Seq(Message), NEW m \in Message, Starts(s, log)
    PROVE  Starts(s, Append(log, m))
BY AppendFacts, LenProperties DEF Starts

(* The question and, later, its answer. *)
LEMMA AppendTurn ==
    ASSUME NEW log \in Seq(Message), NEW m \in Message, NEW t \in Turns
    PROVE  /\ HasTurn(log, t) => HasTurn(Append(log, m), t)
           /\ Said(log, Question(t)) /\ m = Answer(t) => HasTurn(Append(log, m), t)
<1> DEFINE n == Len(log)
           more == Append(log, m)
<1>1. /\ n \in Nat /\ Len(more) = n + 1 /\ more[n + 1] = m
      /\ \A i \in 1..n : i \in 1..n + 1 /\ more[i] = log[i] /\ i < n + 1
      /\ n + 1 \in 1..n + 1
  BY AppendFacts
<1> HIDE DEF more
<1>2. HasTurn(log, t) => HasTurn(more, t)
  BY <1>1 DEF HasTurn
<1>3. Said(log, Question(t)) /\ m = Answer(t) => HasTurn(more, t)
  BY <1>1 DEF HasTurn, Said, Question, Answer
<1> QED BY <1>2, <1>3 DEF more

(* Where a history comes from: it stays, gets a message, is loaded or is emptied. *)
LEMMA LogsCome ==
    ASSUME Inductive, [Next]_vars, NEW c \in Contexts
    PROVE  \/ messages'[c] = messages[c]
           \/ \E s \in Ids : messages'[c] = rows[s] /\ maker[c] = "new"
           \/ /\ messages'[c] = <<>>
              /\ Crash \/ \E s \in Ids : ClearResets(s) /\ cleaner[s].at = c
           \/ \E t \in Turns : /\ \E s \in Ids : Send(t, s) /\ listed[s] = c
                               /\ messages'[c] = Append(messages[c], Question(t))
           \/ \E t \in Turns : /\ Answers(t) /\ at[t] = c
                               /\ messages'[c] = Append(messages[c], Answer(t))
<1> USE DEF Inductive, TypeOK
<1>1. CASE UNCHANGED <<ctxVars, listed>>
  BY <1>1 DEF ctxVars
<1>2. ASSUME NEW s \in Ids, NEW w \in Workspaces \cup {Unbound}, Create(s, w)
      PROVE  messages' = messages
  BY <1>2 DEF Create
<1>3. ASSUME NEW s \in Ids, ResumeLoads(s)
      PROVE  messages'[c] = messages[c] \/ (messages'[c] = rows[s] /\ maker[c] = "new")
  BY <1>3 DEF ResumeLoads, Next0
<1>4. ASSUME NEW s \in Ids, Stops(s) \/ DeleteUnlists(s) PROVE messages' = messages
  BY <1>4 DEF Stops, Stop, ClearStops, DeleteStops, DeleteUnlists, ctxVars
<1>5. ASSUME NEW s \in Ids, ClearResets(s)
      PROVE  messages'[c] = messages[c] \/ (messages'[c] = <<>> /\ cleaner[s].at = c)
  BY <1>5 DEF ClearResets, Holds
<1>6. ASSUME NEW d \in Contexts, ResumeLists(d) PROVE messages' = messages
  BY <1>6 DEF ResumeLists
<1>7. ASSUME NEW t \in Turns, NEW s \in Ids, Send(t, s)
      PROVE  \/ messages'[c] = messages[c]
             \/ listed[s] = c /\ messages'[c] = Append(messages[c], Question(t))
  BY <1>7 DEF Send, Holds, Question
<1>8. ASSUME NEW t \in Turns, Answers(t)
      PROVE  \/ messages'[c] = messages[c]
             \/ at[t] = c /\ messages'[c] = Append(messages[c], Answer(t))
  BY <1>8 DEF Answers, Holds, Answer
<1>9. ASSUME NEW t \in Turns, Fails(t) PROVE messages' = messages
  BY <1>9 DEF Fails
<1>10. CASE Crash
  BY <1>10 DEF Crash
<1>11. \/ \E s \in Ids, w \in Workspaces \cup {Unbound} : Create(s, w)
       \/ \E d \in Contexts : ResumeLists(d)
       \/ \E t \in Turns : Fails(t)
       \/ \E s \in Ids : Stops(s) \/ DeleteUnlists(s)
       => messages' = messages
  BY <1>2, <1>4, <1>6, <1>9
<1> QED BY <1>1, <1>3, <1>5, <1>7, <1>8, <1>10, <1>11, ObjectFrame

\* What a thread has encoded is still in the list, unless that was emptied, and the
\* worker of a turn that ended is not at work.
Encoded == \A t \in Turns :
    /\ caller[t] \in {"saving", "savingStop"} /\ ~pending[t].emptied
       => Starts(pending[t].encoded, messages[at[t]])
    /\ caller[t] = "saving" => worker[t] # "thinking"

(* A save of a turn leaves the rows or writes the list. *)
LEMMA CommitRows ==
    ASSUME Inductive, Encoded, NEW t \in Turns, Commit(t)
    PROVE  /\ at[t] \in Contexts /\ Of(t) \in Ids
           /\ \A s \in Ids \ {Of(t)} : rows'[s] = rows[s]
           /\ rows'[Of(t)] = Committed(rows[Of(t)], pending[t].encoded, Live(t))
           /\ rows'[Of(t)] \in {rows[Of(t)], Live(t)}
<1> USE DEF Inductive, TypeOK
<1>1. caller[t] \in {"saving", "savingStop"} /\ at[t] \in Contexts /\ Of(t) \in Ids
  BY DEF Commit, Placed, Made, Of
<1>2. rows' = [rows EXCEPT ![Of(t)] = Committed(rows[Of(t)], pending[t].encoded, Live(t))]
  BY DEF Commit, Saves
<1>3. /\ rows[Of(t)] \in Seq(Message) /\ pending[t].encoded \in Seq(Message)
      /\ Live(t) \in Seq(Message)
  BY <1>1 DEF Live
<1>4. Live(t) = <<>> \/ Starts(pending[t].encoded, Live(t))
  BY <1>1 DEF Live, Encoded
<1>5. Committed(rows[Of(t)], pending[t].encoded, Live(t)) \in {rows[Of(t)], Live(t)}
  BY <1>3, <1>4, CommittedIsOne
<1> QED BY <1>1, <1>2, <1>5

LEMMA ClearRows ==
    ASSUME Inductive, NEW s \in Ids, ClearSaves(s)
    PROVE  /\ cleaner[s].at \in Contexts
           /\ \A r \in Ids \ {s} : rows'[r] = rows[r]
           /\ rows'[s] \in {rows[s], messages[cleaner[s].at]}
<1> USE DEF Inductive, TypeOK
<1> DEFINE log == messages[cleaner[s].at]
<1>1. cleaner[s].at \in Contexts
  BY DEF ClearSaves, CleanerGoes, Clearing
<1>2. rows' = [rows EXCEPT ![s] = Committed(rows[s], log, log)]
  BY DEF ClearSaves, Saves
<1>3. rows[s] \in Seq(Message) /\ log \in Seq(Message)
  BY <1>1
<1> HIDE DEF log
<1>4. Starts(log, log)
  BY <1>3, LenProperties DEF Starts
<1>5. Committed(rows[s], log, log) \in {rows[s], log}
  BY <1>3, <1>4, CommittedIsOne
<1> QED BY <1>1, <1>2, <1>5 DEF log

LEMMA RowsCome ==
    ASSUME Inductive, Encoded, [Next]_vars, NEW s \in Ids
    PROVE  \/ rows'[s] = rows[s]
           \/ rows'[s] = <<>>
           \/ \E c \in Contexts : rows'[s] = messages[c]
<1> USE DEF Inductive, TypeOK
<1>1. CASE UNCHANGED storeVars
  BY <1>1 DEF storeVars
<1>2. ASSUME NEW r \in Ids, NEW w \in Workspaces \cup {Unbound}, Create(r, w)
      PROVE  rows' = rows
  BY <1>2 DEF Create
<1>3. ASSUME NEW t \in Turns, Commit(t)
      PROVE  \/ rows'[s] = rows[s] \/ rows'[s] = <<>>
             \/ \E c \in Contexts : rows'[s] = messages[c]
  BY <1>3, CommitRows DEF Live
<1>4. ASSUME NEW r \in Ids, ClearSaves(r)
      PROVE  rows'[s] = rows[s] \/ \E c \in Contexts : rows'[s] = messages[c]
  BY <1>4, ClearRows
<1>5. ASSUME NEW r \in Ids, DeleteRows(r) PROVE rows'[s] = rows[s] \/ rows'[s] = <<>>
  BY <1>5 DEF DeleteRows
<1>6. ASSUME NEW w \in Workspaces, RemoveWorkspace(w) \/ AddWorkspace(w) PROVE rows' = rows
  BY <1>6 DEF RemoveWorkspace, AddWorkspace, Marks
<1> QED BY <1>1, <1>2, <1>3, <1>4, <1>5, <1>6, StoreFrame

(* What a step does to one turn: its own call, caller or worker moves, the process ends, *)
(* or it is at most woken and told that its list was emptied.                            *)
LEMMA TurnFrame ==
    ASSUME Inductive, [Next]_vars, NEW t \in Turns
    PROVE  \/ \E s \in Ids : Send(t, s)
           \/ CallerStep(t) \/ WorkerStep(t) \/ Crash
           \/ /\ UNCHANGED <<at[t], worker[t]>>
              /\ caller'[t] = caller[t] \/ (caller[t] = "waiting" /\ caller'[t] = "woken")
              /\ pending'[t].encoded = pending[t].encoded
              /\ pending[t].emptied => pending'[t].emptied
              /\ \A s \in Ids :
                    /\ ClearResets(s) /\ cleaner[s].at = at[t]
                    /\ caller[t] \in {"saving", "savingStop"}
                    => pending'[t].emptied
<1> USE DEF Inductive, TypeOK
<1> DEFINE Still == /\ UNCHANGED <<at[t], worker[t]>>
                    /\ caller'[t] = caller[t] \/ (caller[t] = "waiting" /\ caller'[t] = "woken")
                    /\ pending'[t].encoded = pending[t].encoded
                    /\ pending[t].emptied => pending'[t].emptied
           Told == \A s \in Ids : /\ ClearResets(s) /\ cleaner[s].at = at[t]
                                  /\ caller[t] \in {"saving", "savingStop"}
                                  => pending'[t].emptied
<1>1. ASSUME UNCHANGED turnVars PROVE Still
  BY <1>1 DEF turnVars
<1>2. ASSUME NEW s \in Ids, Stops(s) PROVE Still
  <2>1. UNCHANGED <<at, worker, pending>>
    BY <1>2 DEF Stops, Stop, ClearStops, DeleteStops
  <2>2. caller' = caller \/ \E c : caller' = Woken(c)
    BY <1>2 DEF Stops, Stop, ClearStops, DeleteStops, StopIfRunning, StopContext
  <2> QED BY <2>1, <2>2 DEF Woken
<1>3. ASSUME NEW s \in Ids, ClearResets(s) PROVE Still
  BY <1>3 DEF ClearResets
<1>4. Told
  BY DEF ClearResets
<1>5. ASSUME NEW u \in Turns \ {t}, (\E s \in Ids : Send(u, s)) \/ CallerStep(u) PROVE Still
  BY <1>5 DEF Send, CallerStep, CallerGoes, WorkerGoes, Interrupted, Finished, GraceTimeout,
              Encodes, Commit, CommitFails
<1>6. ASSUME NEW u \in Turns \ {t}, WorkerStep(u) PROVE Still
  <2>1. UNCHANGED <<at, pending>> /\ worker'[t] = worker[t]
    BY <1>6 DEF WorkerStep, Answers, Fails, GivesUp, Ends, WorkerGoes
  <2>2. caller' = caller \/ \E c : caller' = Woken(c)
    BY <1>6 DEF WorkerStep, Answers, Fails, GivesUp, Ends
  <2> QED BY <2>1, <2>2 DEF Woken
<1> HIDE DEF Still, Told
<1>7. \/ \E s \in Ids : Send(t, s)
      \/ CallerStep(t) \/ WorkerStep(t) \/ Crash \/ Still
  BY <1>1, <1>2, <1>3, <1>5, <1>6, ThreadFrame
<1> QED BY <1>4, <1>7 DEF Still, Told

\* A message is said for the first time by its own turn.
Nowhere(m) == /\ \A c \in Contexts : ~Said(messages[c], m)
              /\ \A s \in Ids : ~Said(rows[s], m)

Unsaid == \A t \in Turns :
    /\ worker[t] = "none" => Nowhere(Question(t))
    /\ worker[t] \in {"none", "thinking"} => Nowhere(Answer(t))

CleanLogs == /\ \A c \in Contexts : CleanLog(messages[c], erased)
             /\ \A s \in Ids : CleanLog(rows[s], erased)

\* The question of a turn at work is in its history, unless it was lost.
Asked == \A t \in Turns : worker[t] = "thinking" /\ t \notin erased
                              => Said(messages[at[t]], Question(t))

Histories == Inductive /\ Encoded /\ Unsaid /\ CleanLogs /\ Asked

LEMMA NowhereStays ==
    ASSUME Inductive, Encoded, [Next]_vars, NEW m, Nowhere(m),
           \A t \in Turns, s \in Ids : Send(t, s) => m # Question(t),
           \A t \in Turns : Answers(t) => m # Answer(t)
    PROVE  /\ \A c \in Contexts : ~Said(messages'[c], m)
           /\ \A s \in Ids : ~Said(rows'[s], m)
<1>1. ~Said(<<>>, m)
  BY DEF Said
<1>2. ASSUME NEW c \in Contexts PROVE ~Said(messages'[c], m)
  <2>1. messages[c] \in Seq(Message) /\ ~Said(messages[c], m)
    BY DEF Inductive, TypeOK, Nowhere
  <2>2. ASSUME NEW t \in Turns, NEW s \in Ids, Send(t, s)
        PROVE  ~Said(Append(messages[c], Question(t)), m)
    BY <2>1, <2>2, AppendSaid, Messages
  <2>3. ASSUME NEW t \in Turns, Answers(t)
        PROVE  ~Said(Append(messages[c], Answer(t)), m)
    BY <2>1, <2>3, AppendSaid, Messages
  <2>4. \A s \in Ids : ~Said(rows[s], m)
    BY DEF Nowhere
  <2> QED BY <1>1, <2>1, <2>2, <2>3, <2>4, LogsCome
<1>3. ASSUME NEW s \in Ids PROVE ~Said(rows'[s], m)
  BY <1>1, RowsCome DEF Nowhere
<1> QED BY <1>2, <1>3

LEMMA UnsaidStep ==
    ASSUME Histories, [Next]_vars
    PROVE  Unsaid'
<1> USE DEF Histories
<1>1. ASSUME NEW t \in Turns, worker'[t] \in {"none", "thinking"}
      PROVE  /\ worker[t] \in {"none", "thinking"} /\ ~Answers(t)
             /\ worker'[t] = "none" => worker[t] = "none" /\ \A s \in Ids : ~Send(t, s)
  <2> USE DEF Inductive, TypeOK
  <2>1. \A s \in Ids : Send(t, s) => worker[t] = "none" /\ worker'[t] = "thinking"
    BY DEF Send, WorkerGoes
  <2>2. CallerStep(t) => worker'[t] = worker[t]
    BY DEF CallerStep, Interrupted, Finished, GraceTimeout, Encodes, Commit, CommitFails
  <2>3. ~WorkerStep(t)
    BY <1>1 DEF WorkerStep, Answers, Fails, GivesUp, Ends, WorkerGoes
  <2>4. Crash => worker'[t] = worker[t]
    BY <1>1 DEF Crash
  <2>5. \/ \E s \in Ids : Send(t, s)
        \/ worker'[t] = worker[t]
    BY <2>2, <2>3, <2>4, TurnFrame
  <2> QED BY <1>1, <2>1, <2>3, <2>5 DEF WorkerStep
<1>2. ASSUME NEW t \in Turns, worker'[t] = "none"
      PROVE  /\ \A c \in Contexts : ~Said(messages'[c], Question(t))
             /\ \A s \in Ids : ~Said(rows'[s], Question(t))
  <2>1. worker[t] = "none" /\ \A s \in Ids : ~Send(t, s)
    BY <1>1, <1>2
  <2>2. \A u \in Turns, s \in Ids : Send(u, s) => Question(t) # Question(u)
    BY <2>1, Messages
  <2>3. Nowhere(Question(t)) /\ \A u \in Turns : Question(t) # Answer(u)
    BY <2>1, Messages DEF Unsaid
  <2> QED BY <2>2, <2>3, NowhereStays
<1>3. ASSUME NEW t \in Turns, worker'[t] \in {"none", "thinking"}
      PROVE  /\ \A c \in Contexts : ~Said(messages'[c], Answer(t))
             /\ \A s \in Ids : ~Said(rows'[s], Answer(t))
  <2>1. Nowhere(Answer(t)) /\ ~Answers(t)
    BY <1>1, <1>3 DEF Unsaid
  <2>2. \A u \in Turns : Answers(u) => Answer(t) # Answer(u)
    BY <2>1, Messages
  <2>3. \A u \in Turns, s \in Ids : Send(u, s) => Answer(t) # Question(u)
    BY Messages
  <2> QED BY <2>1, <2>2, <2>3, NowhereStays
<1> QED BY <1>2, <1>3 DEF Unsaid, Nowhere, Question, Answer

LEMMA ErasedGrows ==
    ASSUME Inductive, [Next]_vars
    PROVE  erased \subseteq erased'
BY GhostFrame DEF Create, ResumeLists, Commit, ClearResets, ClearSaves, DeleteRows

LEMMA CleanStep ==
    ASSUME Histories, [Next]_vars
    PROVE  CleanLogs'
<1> USE DEF Histories
<1>1. /\ \A c \in Contexts : messages[c] \in Seq(Message) /\ CleanLog(messages[c], erased')
      /\ \A s \in Ids : CleanLog(rows[s], erased')
      /\ CleanLog(<<>>, erased')
  BY ErasedGrows, LostClean DEF Inductive, TypeOK, CleanLogs, CleanLog
<1>2. ASSUME NEW c \in Contexts PROVE CleanLog(messages'[c], erased')
  <2>1. ASSUME NEW t \in Turns, NEW s \in Ids, Send(t, s)
        PROVE  CleanLog(Append(messages[c], Question(t)), erased')
    <3>1. worker[t] = "none"
      BY <2>1 DEF Send, WorkerGoes
    <3>2. ~Said(messages[c], Question(t)) /\ Question(t) \in Message
      BY <3>1, Messages DEF Unsaid, Nowhere
    <3> QED BY <1>1, <3>2, AppendClean DEF Question
  <2>2. ASSUME NEW t \in Turns, Answers(t), at[t] = c
        PROVE  CleanLog(Append(messages[c], Answer(t)), erased')
    <3>1. worker[t] = "thinking"
      BY <2>2 DEF Answers, Ends, WorkerGoes
    <3>2. ~Said(messages[c], Answer(t)) /\ Answer(t) \in Message
      BY <3>1, Messages DEF Unsaid, Nowhere
    <3>3. Answer(t).turn = t /\ (t \notin erased' => Said(messages[c], Question(t)))
      BY <2>2, <3>1, ErasedGrows DEF Asked, Answer
    <3> QED BY <1>1, <3>2, <3>3, AppendClean
  <2> QED BY <1>1, <2>1, <2>2, LogsCome
<1>3. ASSUME NEW s \in Ids PROVE CleanLog(rows'[s], erased')
  BY <1>1, RowsCome
<1> QED BY <1>2, <1>3 DEF CleanLogs, CleanLog

(* The list of a turn that goes on keeps what it has, unless it is emptied. *)
LEMMA ListGrows ==
    ASSUME Inductive, [Next]_vars, NEW t \in Turns, caller[t] # "idle", at'[t] = at[t]
    PROVE  \/ messages'[at[t]] = messages[at[t]]
           \/ \E m \in Message : messages'[at[t]] = Append(messages[at[t]], m)
           \/ Crash
           \/ t \in erased' /\ \E s \in Ids : ClearResets(s) /\ cleaner[s].at = at[t]
<1>1. at[t] \in Contexts /\ maker[at[t]] # "new" /\ messages[at[t]] \in Seq(Message)
  BY DEF Inductive, Placed, TypeOK
<1>2. ASSUME NEW s \in Ids, ClearResets(s), cleaner[s].at = at[t] PROVE t \in erased'
  <2>1. owner[at[t]] = s
    BY <1>2 DEF ClearResets, CleanerGoes, Inductive, Clearing
  <2>2. at[t] # Nobody
    BY <1>1 DEF Contexts, Nobody
  <2> QED BY <1>2, <2>1, <2>2 DEF ClearResets, TurnsOf, Of
<1>3. \A u \in Turns : Question(u) \in Message /\ Answer(u) \in Message
  BY Messages
<1> QED BY <1>1, <1>2, <1>3, LogsCome

LEMMA AskedStep ==
    ASSUME Histories, [Next]_vars
    PROVE  Asked'
<1> USE DEF Histories
<1> SUFFICES ASSUME NEW t \in Turns, worker'[t] = "thinking", t \notin erased'
             PROVE  Said(messages'[at'[t]], Question(t))
  BY DEF Asked, Said, Question
<1> USE DEF Inductive, TypeOK
<1>1. ASSUME NEW s \in Ids, Send(t, s) PROVE Said(messages'[at'[t]], Question(t))
  <2>1. at'[t] = listed[s] /\ listed[s] \in Contexts
    BY <1>1, LogsCome DEF Send
  <2>2. messages'[listed[s]] = Append(messages[listed[s]], Question(t))
    BY <1>1, <2>1 DEF Send, Holds, Question
  <2>3. messages[listed[s]] \in Seq(Message) /\ Question(t) \in Message
    BY <2>1, Messages
  <2> QED BY <2>1, <2>2, <2>3, AppendSaid
<1>2. CASE \A s \in Ids : ~Send(t, s)
  <2>1. worker[t] = "thinking" /\ at'[t] = at[t] /\ ~Crash
    <3>1. ~WorkerStep(t)
      BY DEF WorkerStep, Answers, Fails, GivesUp, Ends, WorkerGoes
    <3>2. CallerStep(t) => worker'[t] = worker[t] /\ at'[t] = at[t]
      BY DEF CallerStep, Interrupted, Finished, GraceTimeout, Encodes, Commit, CommitFails
    <3>3. ~Crash
      <4>1. Crash => worker'[t] # "thinking"
        BY DEF Crash
      <4> QED BY <4>1
    <3> QED BY <1>2, <3>1, <3>2, <3>3, TurnFrame
  <2>2. at[t] \in Contexts /\ Said(messages[at[t]], Question(t)) /\ caller[t] # "idle"
    BY <2>1, ErasedGrows DEF Asked, Placed
  <2>3. \A m \in Message : Said(Append(messages[at[t]], m), Question(t))
    BY <2>2, AppendSaid
  <2> HIDE DEF Inductive, TypeOK
  <2> QED BY <2>1, <2>2, <2>3, ListGrows
<1> QED BY <1>1, <1>2

LEMMA EncodedStep ==
    ASSUME Inductive, Encoded, [Next]_vars
    PROVE  Encoded'
<1> USE DEF Inductive, TypeOK
<1> SUFFICES ASSUME NEW t \in Turns
             PROVE  /\ caller'[t] \in {"saving", "savingStop"} /\ ~pending'[t].emptied
                       => Starts(pending'[t].encoded, messages'[at'[t]])
                    /\ caller'[t] = "saving" => worker'[t] # "thinking"
  BY DEF Encoded, Starts
<1>1. ASSUME NEW s \in Ids, Send(t, s) PROVE caller'[t] = "waiting"
  BY <1>1 DEF Send, CallerGoes
<1>2. CASE Interrupted(t) \/ Finished(t)
  <2>1. at[t] \in Contexts
    BY <1>2 DEF Interrupted, Finished, Encodes, CallerGoes, Placed
  <2>2. /\ pending'[t].encoded = messages[at[t]] /\ UNCHANGED <<at, messages, worker>>
        /\ caller'[t] = "saving" => worker[t] # "thinking"
    BY <1>2 DEF Interrupted, Finished, Encodes, CallerGoes, ctxVars
  <2> QED BY <2>1, <2>2, LenProperties DEF Starts
<1>3. ASSUME GraceTimeout(t) \/ Commit(t) \/ CommitFails(t)
      PROVE  caller'[t] \notin {"saving", "savingStop"}
  BY <1>3, ZenonT(40) DEF GraceTimeout, Commit, CommitFails, CallerGoes, Reply
<1>4. ASSUME Crash PROVE caller'[t] \notin {"saving", "savingStop"}
  BY <1>4 DEF Crash, InFlight, Ended
<1>5. ASSUME WorkerStep(t)
      PROVE  /\ caller[t] \in {"saving", "savingStop"} <=> caller'[t] \in {"saving", "savingStop"}
             /\ caller'[t] = "saving" => worker'[t] # "thinking"
             /\ UNCHANGED <<at, pending>>
  <2>1. worker'[t] # "thinking" /\ UNCHANGED <<at, pending>>
    BY <1>5 DEF WorkerStep, Answers, Fails, GivesUp, Ends, WorkerGoes
  <2>2. caller' = caller \/ caller' = Woken(at[t])
    BY <1>5 DEF WorkerStep, Answers, Fails, GivesUp, Ends
  <2> QED BY <2>1, <2>2 DEF Woken
<1>6. ASSUME caller[t] \in {"saving", "savingStop"}, ~pending[t].emptied, ~Crash,
             at'[t] = at[t], pending'[t].encoded = pending[t].encoded,
             \A s \in Ids : ~(ClearResets(s) /\ cleaner[s].at = at[t])
      PROVE  Starts(pending'[t].encoded, messages'[at'[t]])
  <2>1. /\ at[t] \in Contexts /\ messages[at[t]] \in Seq(Message)
        /\ pending[t].encoded \in Seq(Message)
        /\ Starts(pending[t].encoded, messages[at[t]]) /\ caller[t] # "idle"
    BY <1>6 DEF Placed, Encoded
  <2>2. \A m \in Message : Starts(pending[t].encoded, Append(messages[at[t]], m))
    BY <2>1, AppendStarts
  <2> HIDE DEF Inductive, TypeOK
  <2> QED BY <1>6, <2>1, <2>2, ListGrows
<1>7. CASE WorkerStep(t)
  <2>1. \A s \in Ids : ~ClearResets(s)
    <3>1. UNCHANGED cleaner
      BY <1>7 DEF WorkerStep, Answers, Fails, GivesUp, Ends, opVars
    <3>2. \A s \in Ids : ClearResets(s) => cleaner[s].pc = "resetting" /\ cleaner'[s].pc = "saving"
      BY DEF ClearResets, CleanerGoes
    <3> QED BY <3>1, <3>2
  <2>2. ~Crash
    <3>1. WorkerStep(t) => worker'[t] \in {"answered", "stopped"} \/ status'[at[t]] = "failed"
      BY DEF WorkerStep, Answers, Fails, GivesUp, Ends, WorkerGoes, Placed
    <3>2. at[t] \in Contexts /\ worker[t] = "thinking"
      BY <1>7 DEF WorkerStep, Answers, Fails, GivesUp, Ends, WorkerGoes, Placed
    <3>3. Crash => worker'[t] = "failed" /\ status'[at[t]] = "idle"
      BY <3>2 DEF Crash
    <3> QED BY <1>7, <3>1, <3>3
  <2> QED BY <1>5, <1>6, <1>7, <2>1, <2>2
<1>8. ASSUME at'[t] = at[t], worker'[t] = worker[t], ~Crash,
             caller'[t] = caller[t] \/ (caller[t] = "waiting" /\ caller'[t] = "woken"),
             pending'[t].encoded = pending[t].encoded,
             pending[t].emptied => pending'[t].emptied,
             \A s \in Ids : /\ ClearResets(s) /\ cleaner[s].at = at[t]
                            /\ caller[t] \in {"saving", "savingStop"}
                            => pending'[t].emptied
      PROVE  /\ caller'[t] \in {"saving", "savingStop"} /\ ~pending'[t].emptied
                => Starts(pending'[t].encoded, messages'[at'[t]])
             /\ caller'[t] = "saving" => worker'[t] # "thinking"
  BY <1>6, <1>8 DEF Encoded
<1> QED BY <1>1, <1>2, <1>3, <1>4, <1>7, <1>8, TurnFrame DEF CallerStep

LEMMA HistoriesInit == Init => Histories
<1> SUFFICES ASSUME Init PROVE Histories
  OBVIOUS
<1>1. Inductive
  BY InductiveInit
<1>2. Encoded /\ Unsaid /\ CleanLogs /\ Asked
  BY DEF Init, Encoded, Unsaid, Nowhere, Said, CleanLogs, CleanLog, Asked
<1> QED BY <1>1, <1>2 DEF Histories

LEMMA HistoriesStep == Histories /\ [Next]_vars => Histories'
BY InductiveStep, EncodedStep, UnsaidStep, CleanStep, AskedStep DEF Histories

\* No save splices two histories: whoever saves, clears, resumes or crashes, no message is
\* in the rows of a session twice, and no answer before its question unless that was
\* cleared or deleted.
THEOREM HistoriesAreNotSpliced == Spec => []NoSplice
<1>1. Histories => NoSplice
  BY DEF Histories, CleanLogs, CleanLog, NoSplice, Question
<1> QED BY <1>1, HistoriesInit, HistoriesStep, PTL DEF Spec

--------------------------------------------------------------------------------
(* Replies and what is in the database *)

\* What a worker has answered is in the list its caller will save, and once it is at it,
\* in what that caller has encoded.
Answered == \A t \in Turns : worker[t] = "answered" /\ InFlight(t) /\ t \notin erased =>
    /\ HasTurn(messages[at[t]], t)
    /\ caller[t] = "saving" => HasTurn(pending[t].encoded, t)

\* A turn whose reply was handed out is in the rows and in the registered list: whoever
\* saves that list keeps it.
Handed == \A t \in Turns : caller[t] = "replied" /\ t \notin erased /\ Of(t) \notin overtaken =>
    /\ HasTurn(rows[Of(t)], t)
    /\ listed[Of(t)] # Nobody => HasTurn(messages[listed[Of(t)]], t)

Replies == Histories /\ Answered /\ Handed

LEMMA AnsweredStep ==
    ASSUME Replies, [Next]_vars
    PROVE  Answered'
<1> SUFFICES ASSUME NEW t \in Turns, worker'[t] = "answered", InFlight(t)', t \notin erased'
             PROVE  /\ HasTurn(messages'[at'[t]], t)
                    /\ caller'[t] = "saving" => HasTurn(pending'[t].encoded, t)
  BY DEF Answered, HasTurn
<1>1. Inductive /\ Encoded /\ Asked /\ Answered /\ TypeOK /\ Placed
  BY DEF Replies, Histories, Inductive
<1>2. t \notin erased /\ caller'[t] \notin Ended \cup {"idle"}
  BY <1>1, ErasedGrows DEF InFlight
<1>3. ASSUME NEW s \in Ids, Send(t, s) PROVE FALSE
  BY <1>1, <1>3 DEF Send, WorkerGoes, TypeOK
<1>4. ASSUME Crash PROVE FALSE
  BY <1>1, <1>2, <1>4 DEF Crash, TypeOK, InFlight, Ended
<1>5. CASE CallerStep(t)
  <2>1. UNCHANGED <<at, worker, messages>> /\ at[t] \in Contexts /\ InFlight(t)
    BY <1>1, <1>5
       DEF CallerStep, Interrupted, Finished, GraceTimeout, Encodes, Commit, CommitFails,
           CallerGoes, ctxVars, InFlight, Ended, Placed
  <2>2. HasTurn(messages[at[t]], t)
    BY <1>1, <1>2, <2>1 DEF Answered
  <2>3. ~Commit(t) /\ ~CommitFails(t) /\ ~GraceTimeout(t)
    BY <1>1, <1>2, ZenonT(40) DEF Commit, CommitFails, GraceTimeout, CallerGoes, Reply, Ended, TypeOK
  <2>4. pending'[t].encoded = messages[at[t]]
    BY <1>1, <1>5, <2>3 DEF CallerStep, Interrupted, Finished, Encodes, TypeOK
  <2> QED BY <2>1, <2>2, <2>4
<1>6. CASE WorkerStep(t)
  <2>1. Answers(t) /\ worker[t] = "thinking"
    BY <1>1, <1>6 DEF WorkerStep, Answers, Fails, GivesUp, Ends, WorkerGoes, TypeOK
  <2>2. at'[t] = at[t] /\ at[t] \in Contexts /\ messages[at[t]] \in Seq(Message)
    BY <1>1, <2>1 DEF Answers, Ends, Placed, TypeOK
  <2>3. messages'[at[t]] = Append(messages[at[t]], Answer(t))
    BY <1>1, <2>1, <2>2 DEF Answers, Holds, Answer, TypeOK
  <2>4. Said(messages[at[t]], Question(t))
    BY <1>1, <1>2, <2>1 DEF Asked
  <2>5. HasTurn(messages'[at[t]], t)
    BY <2>2, <2>3, <2>4, AppendTurn, Messages
  <2>6. caller'[t] # "saving"
    <3>1. caller' = Woken(at[t])
      BY <2>1 DEF Answers, Ends
    <3>2. caller[t] # "saving"
      BY <1>1, <2>1 DEF Encoded
    <3> QED BY <3>1, <3>2 DEF Woken
  <2> QED BY <2>2, <2>5, <2>6
<1>7. CASE /\ UNCHANGED <<at[t], worker[t]>>
           /\ caller'[t] = caller[t] \/ (caller[t] = "waiting" /\ caller'[t] = "woken")
           /\ pending'[t].encoded = pending[t].encoded
  <2>1. InFlight(t) /\ caller[t] # "idle"
    BY <1>2, <1>7 DEF InFlight, Ended
  <2>2. /\ HasTurn(messages[at[t]], t)
        /\ caller[t] = "saving" => HasTurn(pending[t].encoded, t)
    BY <1>1, <1>2, <1>7, <2>1 DEF Answered
  <2>3. messages[at[t]] \in Seq(Message)
    BY <1>1, <2>1 DEF TypeOK, Placed
  <2>4. \A m \in Message : HasTurn(Append(messages[at[t]], m), t)
    BY <2>2, <2>3, AppendTurn
  <2>5. ~(\E s \in Ids : ClearResets(s) /\ cleaner[s].at = at[t]) \/ t \in erased'
    BY <1>1, <1>7, <2>1, ListGrows
       DEF ClearResets, CleanerGoes, Clearing, Inductive, TurnsOf, Of, Contexts, Nobody,
           Placed
  <2> QED BY <1>1, <1>4, <1>7, <2>1, <2>2, <2>4, ListGrows
<1> QED BY <1>1, <1>3, <1>4, <1>5, <1>6, <1>7, TurnFrame

(* Which session a turn belongs to does not change. *)
LEMMA TurnStays ==
    ASSUME Inductive, [Next]_vars, NEW t \in Turns, caller[t] # "idle"
    PROVE  /\ at'[t] = at[t] /\ at[t] \in Contexts /\ owner'[at[t]] = owner[at[t]]
           /\ Of(t) \in Ids
           /\ caller'[t] = "replied" => caller[t] = "replied" \/ Commit(t)
<1>1. at[t] \in Contexts /\ maker[at[t]] # "new" /\ TypeOK /\ Of(t) \in Ids
  BY DEF Inductive, Placed, Made, Of
<1>2. owner'[at[t]] = owner[at[t]]
  BY <1>1, ObjectsStay
<1>3. ASSUME NEW s \in Ids, Send(t, s) PROVE FALSE
  BY <1>3 DEF Send, CallerGoes
<1>4. CallerStep(t) => at'[t] = at[t] /\ (caller'[t] # "replied" \/ Commit(t))
  BY <1>1 DEF CallerStep, Interrupted, Finished, GraceTimeout, Encodes, CommitFails, Commit,
              CallerGoes, TypeOK
<1>5. WorkerStep(t) => at'[t] = at[t] /\ (caller'[t] = caller[t] \/ caller'[t] = "woken")
  <2>1. WorkerStep(t) => at' = at /\ (caller' = caller \/ caller' = Woken(at[t]))
    BY DEF WorkerStep, Answers, Fails, GivesUp, Ends
  <2> QED BY <2>1 DEF Woken
<1>6. Crash => at'[t] = at[t] /\ (caller'[t] = caller[t] \/ caller'[t] = "crashed")
  BY <1>1 DEF Crash, TypeOK
<1> QED BY <1>1, <1>2, <1>3, <1>4, <1>5, <1>6, TurnFrame

(* What was handed out is kept by whoever writes the rows or the list. *)
LEMMA HandedRows ==
    ASSUME Replies, [Next]_vars, NEW t \in Turns, caller[t] = "replied",
           t \notin erased', Of(t) \notin overtaken'
    PROVE  /\ t \notin erased /\ Of(t) \notin overtaken
           /\ HasTurn(rows'[Of(t)], t)
<1>1. Inductive /\ Encoded /\ Handed /\ TypeOK
  BY DEF Replies, Histories, Inductive
<1>2. t \notin erased /\ Of(t) \notin overtaken
  <2>1. overtaken \subseteq overtaken'
    BY GhostFrame DEF Create, ResumeLists, Commit, ClearResets, ClearSaves, DeleteRows
  <2> QED BY <1>1, <2>1, ErasedGrows
<1>3. /\ HasTurn(rows[Of(t)], t) /\ Of(t) \in Ids /\ at[t] \in Contexts
      /\ listed[Of(t)] # Nobody => HasTurn(messages[listed[Of(t)]], t)
  BY <1>1, <1>2, TurnStays DEF Handed
<1>4. ASSUME NEW u \in Turns, Commit(u) PROVE HasTurn(rows'[Of(t)], t)
  <2>1. CASE Of(u) = Of(t)
    <3>1. ~pending[u].emptied /\ listed[Of(t)] = at[u] /\ at[u] \in Contexts
      BY <1>1, <1>2, <1>4, <2>1, CommitRows DEF Commit
    <3>2. Live(u) = messages[listed[Of(t)]] /\ listed[Of(t)] # Nobody
      BY <3>1 DEF Live, Contexts, Nobody
    <3> QED BY <1>1, <1>3, <1>4, <2>1, <3>2, CommitRows
  <2>2. CASE Of(u) # Of(t)
    BY <1>1, <1>3, <1>4, <2>2, CommitRows
  <2> QED BY <2>1, <2>2
<1>5. ASSUME NEW s \in Ids, ClearSaves(s) PROVE HasTurn(rows'[Of(t)], t)
  <2>1. CASE s = Of(t)
    <3>1. listed[s] = cleaner[s].at /\ cleaner[s].at \in Contexts
      BY <1>1, <1>2, <1>5, <2>1, ClearRows DEF ClearSaves
    <3>2. listed[s] # Nobody
      BY <3>1 DEF Contexts, Nobody
    <3> QED BY <1>1, <1>3, <1>5, <2>1, <3>1, <3>2, ClearRows
  <2>2. CASE s # Of(t)
    BY <1>1, <1>3, <1>5, <2>2, ClearRows
  <2> QED BY <2>1, <2>2
<1>6. ASSUME NEW s \in Ids, DeleteRows(s) PROVE HasTurn(rows'[Of(t)], t)
  <2>1. s # Of(t)
    BY <1>3, <1>6 DEF DeleteRows, TurnsOf, Contexts, Nobody
  <2> QED BY <1>1, <1>3, <1>6, <2>1 DEF DeleteRows, TypeOK
<1>7. \/ rows' = rows
      \/ \E u \in Turns : Commit(u)
      \/ \E s \in Ids : ClearSaves(s) \/ DeleteRows(s)
  BY StoreFrame DEF storeVars, Create, RemoveWorkspace, AddWorkspace, Marks
<1> QED BY <1>2, <1>3, <1>4, <1>5, <1>6, <1>7

LEMMA HandedList ==
    ASSUME Replies, [Next]_vars, NEW t \in Turns, caller[t] = "replied",
           t \notin erased', Of(t) \notin overtaken', listed'[Of(t)] # Nobody
    PROVE  HasTurn(messages'[listed'[Of(t)]], t)
<1> DEFINE s == Of(t)
<1>1. Inductive /\ Handed /\ TypeOK /\ Registered /\ Clearing
  BY DEF Replies, Histories, Inductive
<1>2. /\ t \notin erased /\ s \notin overtaken /\ s \in Ids /\ at[t] \in Contexts
      /\ birth[s] # Nobody
  BY <1>1, HandedRows, TurnStays DEF Inductive, Made, Placed, Of
<1>3. /\ HasTurn(rows[s], t)
      /\ listed[s] # Nobody => HasTurn(messages[listed[s]], t)
  BY <1>1, <1>2 DEF Handed
<1>4. CASE listed'[s] = listed[s]
  <2> DEFINE c == listed[s]
  <2>1. /\ c \in Contexts /\ maker[c] # "new" /\ owner[c] = s /\ messages[c] \in Seq(Message)
        /\ HasTurn(messages[c], t)
    BY <1>1, <1>2, <1>3, <1>4 DEF TypeOK, Registered
  <2>2. \A m \in Message : HasTurn(Append(messages[c], m), t)
    BY <2>1, AppendTurn
  <2>3. ASSUME NEW r \in Ids, ClearResets(r), cleaner[r].at = c PROVE FALSE
    <3>1. owner[c] = r
      BY <1>1, <2>3 DEF ClearResets, CleanerGoes, Clearing
    <3>2. t \in TurnsOf(r)
      <4>1. at[t] # Nobody
        BY <1>2 DEF Contexts, Nobody
      <4>2. Of(t) = r
        BY <2>1, <3>1
      <4> QED BY <4>1, <4>2 DEF TurnsOf
    <3>3. erased' = erased \cup TurnsOf(r)
      BY <2>3 DEF ClearResets
    <3>4. t \in erased'
      BY <3>2, <3>3
    <3> QED BY <3>4
  <2>4. ~Crash
    BY <1>2, <1>4, <2>1 DEF Crash, Contexts, Nobody
  <2>5. messages'[c] = messages[c] \/ \E m \in Message : messages'[c] = Append(messages[c], m)
    BY <1>1, <2>1, <2>3, <2>4, LogsCome, Messages
  <2> QED BY <1>4, <2>1, <2>2, <2>5
<1>5. CASE listed'[s] # listed[s]
  <2>1. ASSUME NEW c \in Contexts, ResumeLists(c) PROVE HasTurn(messages'[listed'[s]], t)
    <3>1. owner[c] = s /\ listed'[s] = c /\ messages' = messages
      BY <1>1, <1>2, <1>5, <2>1 DEF ResumeLists, TypeOK
    <3>2. messages[c] = rows[s]
      BY <1>2, <2>1, <3>1 DEF ResumeLists
    <3> QED BY <1>3, <3>1, <3>2
  <2>2. ASSUME NEW r \in Ids, NEW w \in Workspaces \cup {Unbound}, Create(r, w) PROVE FALSE
    <3>1. r # s
      BY <1>2, <2>2 DEF Create
    <3> QED BY <1>1, <1>2, <1>5, <2>2, <3>1 DEF Create, TypeOK
  <2>3. ASSUME NEW r \in Ids, DeleteUnlists(r) PROVE FALSE
    BY <1>1, <1>2, <1>5, <2>3 DEF DeleteUnlists, TypeOK
  <2>4. ~Crash
    BY <1>2 DEF Crash
  <2>5. ASSUME \/ UNCHANGED <<ctxVars, listed>>
               \/ \E r \in Ids : ResumeLoads(r) \/ Stops(r) \/ ClearResets(r)
               \/ \E u \in Turns : (\E r \in Ids : Send(u, r)) \/ Answers(u) \/ Fails(u)
        PROVE  listed' = listed
    BY <2>5
       DEF ResumeLoads, Stops, Stop, ClearStops, DeleteStops, ClearResets, Send, Answers,
           Fails, Ends
  <2> QED BY <1>5, <2>1, <2>2, <2>3, <2>4, <2>5, ObjectFrame
<1> QED BY <1>4, <1>5

LEMMA HandedStep ==
    ASSUME Replies, [Next]_vars
    PROVE  Handed'
<1> SUFFICES ASSUME NEW t \in Turns, caller'[t] = "replied", t \notin erased',
                    Of(t)' \notin overtaken'
             PROVE  /\ HasTurn(rows'[Of(t)'], t)
                    /\ listed'[Of(t)'] # Nobody => HasTurn(messages'[listed'[Of(t)']], t)
  BY DEF Handed, HasTurn
<1>1. Inductive /\ Encoded /\ Answered /\ TypeOK
  BY DEF Replies, Histories, Inductive
<1>2. caller[t] # "idle"
  <2>1. ASSUME caller[t] = "idle" PROVE caller'[t] # "replied"
    <3>1. \A s \in Ids : Send(t, s) => caller'[t] = "waiting"
      BY <1>1 DEF Send, CallerGoes, TypeOK
    <3>2. ~CallerStep(t)
      BY <2>1 DEF CallerStep, Interrupted, Finished, GraceTimeout, Encodes, Commit,
                  CommitFails, CallerGoes
    <3>3. WorkerStep(t) => caller'[t] # "replied"
      <4>1. WorkerStep(t) => caller' = caller \/ caller' = Woken(at[t])
        BY DEF WorkerStep, Answers, Fails, GivesUp, Ends
      <4> QED BY <2>1, <4>1 DEF Woken
    <3>4. Crash => caller'[t] # "replied"
      BY <2>1 DEF Crash
    <3> QED BY <1>1, <2>1, <3>1, <3>2, <3>3, <3>4, TurnFrame
  <2> QED BY <2>1
<1>3. /\ at'[t] = at[t] /\ at[t] \in Contexts /\ Of(t)' = Of(t) /\ Of(t) \in Ids
      /\ caller[t] = "replied" \/ Commit(t)
  BY <1>1, <1>2, TurnStays DEF Of
<1>4. CASE caller[t] = "replied"
  BY <1>3, <1>4, HandedRows, HandedList
<1>5. CASE Commit(t)
  <2>1. caller[t] = "saving" /\ worker[t] = "answered"
    BY <1>1, <1>5 DEF Commit, Reply, TypeOK
  <2>2. /\ UNCHANGED <<messages, listed, erased>> /\ listed[Of(t)] = at[t]
        /\ ~pending[t].emptied
    BY <1>1, <1>3, <1>5 DEF Commit, ctxVars
  <2>3. HasTurn(messages[at[t]], t) /\ HasTurn(pending[t].encoded, t)
    BY <1>1, <2>1, <2>2 DEF Answered, InFlight, Ended
  <2>4. Live(t) = messages[at[t]]
    BY <2>2 DEF Live
  <2>5. HasTurn(rows'[Of(t)], t)
    <3>1. /\ rows'[Of(t)] = Committed(rows[Of(t)], pending[t].encoded, Live(t))
          /\ rows'[Of(t)] \in {rows[Of(t)], Live(t)}
      BY <1>1, <1>5, CommitRows
    <3>2. CASE rows[Of(t)] = pending[t].encoded
      BY <2>3, <2>4, <3>1, <3>2
    <3>3. CASE rows[Of(t)] # pending[t].encoded
      <4>1. Starts(pending[t].encoded, Live(t))
        BY <1>1, <2>1, <2>2, <2>4 DEF Encoded
      <4>2. /\ rows[Of(t)] \in Seq(Message) /\ pending[t].encoded \in Seq(Message)
            /\ Live(t) \in Seq(Message)
        BY <1>1, <1>3, <2>4 DEF TypeOK
      <4>3. rows'[Of(t)] = Live(t)
        BY <3>1, <3>3, <4>1, <4>2, CommittedIsOne
      <4> QED BY <2>3, <2>4, <4>3
    <3> QED BY <3>2, <3>3
  <2> QED BY <1>3, <2>2, <2>3, <2>5
<1> QED BY <1>3, <1>4, <1>5

\* A reply that was handed out is in the database with its question, also after a crash,
\* until the session is cleared or deleted, or somebody saves it from an outdated copy.
THEOREM RepliesSurvive == Spec => []ReplySurvives
<1>1. Init => Replies
  <2> SUFFICES ASSUME Init PROVE Replies
    OBVIOUS
  <2>1. Answered /\ Handed
    BY DEF Init, Answered, Handed
  <2> QED BY <2>1, HistoriesInit DEF Replies
<1>2. Replies /\ [Next]_vars => Replies'
  BY HistoriesStep, AnsweredStep, HandedStep DEF Replies
<1>3. Replies => ReplySurvives
  BY DEF Replies, Handed, ReplySurvives
<1> QED BY <1>1, <1>2, <1>3, PTL DEF Spec
================================================================================
