-------------------------- MODULE WebTransportProofs --------------------------
(***************************************************************************)
(* A browser gets one answer to a request and it is the right one, and     *)
(* what it is told comes in the order in which it happened.                *)
(*                                                                         *)
(* For the first the invariant says that a number stands for one request   *)
(* wherever it is used: in the table of those who wait, in a frame on its  *)
(* way, at a thread.                                                       *)
(*                                                                         *)
(* For the second AnswerInv follows the end of a turn and its answer from  *)
(* the queue over the pump's broadcast to the browser: the end is ahead.   *)
(* CountInv ties the statistics of a turn to the notices on their way.     *)
(***************************************************************************)
EXTENDS WebTransport, SequenceTheorems, FiniteSetTheorems, TLAPS

Says == {"ok", "answer", "refused", "stopped", "error"}
Outcomes == [req : Requests, says : Says]
Frames == [id : Nat, req : Requests]
Notices == [kind : {"result", "approval", "end"}, turn : Turns, count : Nat]
ReplyFrames == [kind : {"reply"}, id : Nat, req : Requests, says : Says]
ShownReplies == [kind : {"reply"}, asked : Requests, req : Requests, says : Says]

Telling == pump \notin {None, <<"ended">>}

WebTypes ==
    /\ online \subseteq Browsers /\ listeners \subseteq Browsers
    /\ seen \in [Browsers -> Seq(ShownReplies \cup Notices)]
    /\ task \in [Requests -> Tasks] /\ got \in [Requests -> {None} \cup Outcomes]
    /\ nextId \in Nat \ {0} /\ ident \in [Requests -> Nat]
    /\ DOMAIN pending \subseteq 1..nextId /\ \A i \in DOMAIN pending : pending[i] \in Requests
    /\ lock \in Requests \cup {None}
    /\ \A r \in Requests : task[r] = "answering" => got[r] \in Outcomes
    /\ Telling => pump \in [frame : Notices, to : SUBSET Browsers]

KernelTypes ==
    /\ up \in BOOLEAN /\ toKernel \in Seq(Frames) /\ toWeb \in Seq(ReplyFrames \cup Notices)
    /\ busy \subseteq Frames /\ allowed \subseteq Turns /\ stopped \subseteq Turns
    /\ turnAt \in [Turns -> {"no", "works", "asks", "proceeds", "ended"}]
    /\ feed \in [Sessions -> Nat]

Types == WebTypes /\ KernelTypes

LEMMA RequestParts ==
    /\ \A r \in Requests : r[1] \in {"send", "respond"} /\ r[2] \in Turns /\ r = <<r[1], r[2]>>
    /\ \A t \in Turns : SessionOf[t] \in Sessions
BY BoundsAssumption DEF Requests, Sessions, Range

\* What is shortened at its end, or loses its head, keeps its elements.
LEMMA PrefixType ==
    ASSUME NEW S, NEW s \in Seq(S), NEW n \in 0..Len(s)
    PROVE  /\ SubSeq(s, 1, n) \in Seq(S) /\ Len(SubSeq(s, 1, n)) = n
           /\ \A i \in 1..n : SubSeq(s, 1, n)[i] = s[i]
<1>1. Len(s) \in Nat /\ n \in Nat /\ \A i \in 1..n : s[i] \in S
    BY LenProperties, ElementOfSeq
<1>2. /\ SubSeq(s, 1, n) \in Seq(S)
      /\ Len(SubSeq(s, 1, n)) = IF 1 <= n THEN n - 1 + 1 ELSE 0
      /\ \A i \in 1..n - 1 + 1 : SubSeq(s, 1, n)[i] = s[1 + i - 1]
    BY <1>1, SubSeqProperties
<1> QED
    BY <1>1, <1>2

LEMMA TypesInit == Init => Types
<1> SUFFICES ASSUME Init PROVE Types
    OBVIOUS
<1>1. WebTypes
    BY DEF Init, WebTypes, Tasks, Telling, None
<1>2. KernelTypes
    BY DEF Init, KernelTypes
<1> QED
    BY <1>1, <1>2 DEF Types

\* What a step may put into the queue to the web server.
LEMMA Queued ==
    ASSUME Types, NEW x \in ReplyFrames \cup Notices
    PROVE  Append(toWeb, x) \in Seq(ReplyFrames \cup Notices)
BY AppendProperties DEF Types, KernelTypes

\* The browsers and the web server.
LEMMA WebKeepsTypes ==
    ASSUME Types, NEW r \in Requests, Asks(r) \/ Bridge(r) \/ Expires(r)
    PROVE  Types'
<1>1. CASE Asks(r)
  <2>1. KernelTypes'
      BY <1>1 DEF Asks, wire, kernel, Types, KernelTypes
  <2> QED
      BY <1>1, <2>1 DEF Asks, browsers, Types, WebTypes, Tasks, Telling
<1>2. CASE TakesLock(r)
  <2>1. KernelTypes'
      BY <1>2 DEF TakesLock, wire, kernel, Types, KernelTypes
  <2>2. /\ DOMAIN pending' = DOMAIN pending \cup {nextId}
        /\ \A i \in DOMAIN pending' : pending'[i] = IF i = nextId THEN r ELSE pending[i]
    <3>1. pending' = WithEntry(nextId, r)
        BY <1>2 DEF TakesLock, FreshId
    <3>2. DOMAIN pending' = DOMAIN pending \cup {nextId}
        BY <3>1 DEF WithEntry
    <3>3. ASSUME NEW i \in DOMAIN pending'
          PROVE  pending'[i] = IF i = nextId THEN r ELSE pending[i]
        BY <3>1, <3>2, <3>3 DEF WithEntry
    <3> QED
        BY <3>2, <3>3
  <2>3. nextId' = nextId + 1 /\ nextId \in Nat \ {0}
      BY <1>2 DEF TakesLock, Types, WebTypes
  <2>4. DOMAIN pending' \subseteq 1..nextId' /\ \A i \in DOMAIN pending' : pending'[i] \in Requests
      BY <2>2, <2>3 DEF Types, WebTypes
  <2> QED
      BY <1>2, <2>1, <2>3, <2>4
         DEF TakesLock, FreshId, browsers, Types, WebTypes, Tasks, Telling
<1>3. CASE Sends(r)
  <2>1. Append(toKernel, Frame(ident[r], r)) \in Seq(Frames)
    <3>1. Frame(ident[r], r) \in Frames
        BY DEF Frame, Frames, Types, WebTypes
    <3> QED
        BY <3>1, AppendProperties DEF Types, KernelTypes
  <2>2. KernelTypes'
      BY <1>3, <2>1 DEF Sends, kernel, Types, KernelTypes
  <2> QED
      BY <1>3, <2>2 DEF Sends, browsers, Types, WebTypes, Tasks, Telling
<1>4. Failure(r) \in Outcomes
    BY DEF Failure, Outcomes, Says
<1>5. CASE SendFails(r)
  <2>1. KernelTypes'
      BY <1>5 DEF SendFails, wire, kernel, Types, KernelTypes
  <2> QED
      BY <1>4, <1>5, <2>1 DEF SendFails, browsers, Types, WebTypes, Tasks, Telling
<1>6. CASE Expires(r)
  <2>1. KernelTypes'
      BY <1>6 DEF Expires, wire, kernel, Types, KernelTypes
  <2>2. /\ DOMAIN pending' \subseteq DOMAIN pending
        /\ \A i \in DOMAIN pending' : pending'[i] = pending[i]
      BY <1>6 DEF Expires, WithoutEntry, Restrict
  <2> QED
      BY <1>4, <1>6, <2>1, <2>2 DEF Expires, browsers, Types, WebTypes, Tasks, Telling
<1>7. CASE Answers(r)
  <2>1. KernelTypes'
      BY <1>7 DEF Answers, wire, kernel, Types, KernelTypes
  <2>2. Shown(r, got[r]) \in ShownReplies
      BY <1>7 DEF Answers, Shown, ShownReplies, Outcomes, Types, WebTypes
  <2>3. \A b \in Browsers : Append(seen[b], Shown(r, got[r])) \in Seq(ShownReplies \cup Notices)
      BY <2>2, AppendProperties DEF Types, WebTypes
  <2>4. seen' \in [Browsers -> Seq(ShownReplies \cup Notices)]
      BY <1>7, <2>3 DEF Answers, Types, WebTypes
  <2> QED
      BY <1>7, <2>1, <2>4 DEF Answers, Types, WebTypes, Tasks, Telling
<1> QED
    BY <1>1, <1>2, <1>3, <1>5, <1>6, <1>7 DEF Bridge

LEMMA BrowserKeepsTypes ==
    ASSUME Types, NEW b \in Browsers, Leaves(b) \/ CleansUp(b)
    PROVE  Types'
<1>1. CASE Leaves(b)
    BY <1>1 DEF Leaves, web, wire, kernel, Types, WebTypes, KernelTypes, Telling
<1>2. CASE CleansUp(b)
  <2>1. toKernel' \in Seq(Frames)
    <3>1. \A r \in Requests : Append(toKernel, Frame(ident[r], r)) \in Seq(Frames)
      <4>1. \A r \in Requests : Frame(ident[r], r) \in Frames
          BY DEF Frame, Frames, Types, WebTypes
      <4> QED
          BY <4>1, AppendProperties DEF Types, KernelTypes
    <3>2. toKernel' = toKernel \/ \E r \in Requests : toKernel' = Append(toKernel, Frame(ident[r], r))
        BY <1>2 DEF CleansUp
    <3> QED
        BY <3>1, <3>2 DEF Types, KernelTypes
  <2>2. /\ DOMAIN pending' \subseteq DOMAIN pending
        /\ \A i \in DOMAIN pending' : pending'[i] = pending[i]
      BY <1>2 DEF CleansUp, Restrict
  <2>3. /\ \A r \in Requests : task'[r] \in {task[r], "cancelled"}
        /\ task' \in [Requests -> Tasks] /\ lock' \in {lock, None}
        /\ listeners' \subseteq listeners
      BY <1>2 DEF CleansUp, Types, WebTypes, Tasks
  <2>4. WebTypes'
      BY <1>2, <2>2, <2>3 DEF CleansUp, browsers, Types, WebTypes, Telling
  <2>5. KernelTypes'
      BY <1>2, <2>1 DEF CleansUp, kernel, Types, KernelTypes
  <2> QED
      BY <2>4, <2>5 DEF Types
<1> QED
    BY <1>1, <1>2

LEMMA PumpKeepsTypes ==
    ASSUME Types, Pump \/ Drops
    PROVE  Types'
<1>1. toWeb # <<>> => /\ Head(toWeb) \in ReplyFrames \cup Notices
                      /\ Tail(toWeb) \in Seq(ReplyFrames \cup Notices)
    BY HeadTailProperties DEF Types, KernelTypes
<1>2. CASE ReceivesReply
  <2> DEFINE f == Head(toWeb)
  <2>1. f \in ReplyFrames
      BY <1>1, <1>2 DEF ReceivesReply, Notices
  <2>2. /\ DOMAIN pending' \subseteq DOMAIN pending
        /\ \A i \in DOMAIN pending' : pending'[i] = pending[i]
      BY <1>2 DEF ReceivesReply, Restrict
  <2>3. [req |-> f.req, says |-> f.says] \in Outcomes
      BY <2>1 DEF ReplyFrames, Outcomes
  <2>4. \/ task' = task /\ got' = got
        \/ \E r \in Requests : /\ task' = [task EXCEPT ![r] = "answering"]
                               /\ got' = [got EXCEPT ![r] = [req |-> f.req, says |-> f.says]]
      BY <1>2 DEF ReceivesReply, Types, WebTypes
  <2>5. /\ task' \in [Requests -> Tasks] /\ got' \in [Requests -> {None} \cup Outcomes]
        /\ \A r \in Requests : task'[r] = "answering" => got'[r] \in Outcomes
    <3>1. CASE task' = task /\ got' = got
        BY <3>1 DEF Types, WebTypes
    <3>2. ASSUME NEW r \in Requests, task' = [task EXCEPT ![r] = "answering"],
                 got' = [got EXCEPT ![r] = [req |-> f.req, says |-> f.says]]
          PROVE  /\ task' \in [Requests -> Tasks] /\ got' \in [Requests -> {None} \cup Outcomes]
                 /\ \A q \in Requests : task'[q] = "answering" => got'[q] \in Outcomes
      <4> DEFINE o == [req |-> f.req, says |-> f.says]
      <4> HIDE DEF o
      <4>1. /\ task \in [Requests -> Tasks] /\ got \in [Requests -> {None} \cup Outcomes]
            /\ \A q \in Requests : task[q] = "answering" => got[q] \in Outcomes
          BY DEF Types, WebTypes
      <4> QED
          BY <2>3, <3>2, <4>1 DEF Tasks, o
    <3> QED
        BY <2>4, <3>1, <3>2
  <2>6. WebTypes'
      BY <1>2, <2>2, <2>5 DEF ReceivesReply, browsers, Types, WebTypes, Telling
  <2> QED
      BY <1>1, <1>2, <2>6 DEF ReceivesReply, kernel, Types, KernelTypes
<1>3. CASE ReceivesNotice
  <2>1. Head(toWeb) \in Notices
      BY <1>1, <1>3 DEF ReceivesNotice, ReplyFrames
  <2>2. pump' = None \/ pump' \in [frame : Notices, to : SUBSET Browsers]
      BY <1>3, <2>1 DEF ReceivesNotice, Types, WebTypes
  <2>3. WebTypes'
      BY <1>3, <2>2 DEF ReceivesNotice, browsers, Types, WebTypes, Telling
  <2> QED
      BY <1>1, <1>3, <2>3 DEF ReceivesNotice, kernel, Types, KernelTypes
<1>4. CASE Broadcasts
  <2>1. pump \in [frame : Notices, to : SUBSET Browsers]
      BY <1>4 DEF Broadcasts, Telling, Types, WebTypes
  <2>2. pump' = None \/ pump' \in [frame : Notices, to : SUBSET Browsers]
      BY <1>4, <2>1 DEF Broadcasts
  <2>3. \A b \in Browsers : Append(seen[b], pump.frame) \in Seq(ShownReplies \cup Notices)
      BY <2>1, AppendProperties DEF Types, WebTypes
  <2>4. seen' \in [Browsers -> Seq(ShownReplies \cup Notices)] /\ listeners' \subseteq Browsers
    <3>1. /\ listeners' \in SUBSET listeners
          /\ \/ seen' = seen
             \/ \E b \in Browsers : seen' = [seen EXCEPT ![b] = Append(seen[b], pump.frame)]
        BY <1>4, <2>1 DEF Broadcasts
    <3> QED
        BY <2>3, <3>1 DEF Types, WebTypes
  <2>5. WebTypes'
      BY <1>4, <2>2, <2>4 DEF Broadcasts, Types, WebTypes, Telling
  <2> QED
      BY <1>4, <2>5 DEF Broadcasts, wire, kernel, Types, KernelTypes
<1>5. CASE PumpEnds
    BY <1>5 DEF PumpEnds, browsers, wire, kernel, Types, WebTypes, KernelTypes, Telling
<1>6. CASE Drops
  <2>1. toKernel' \in Seq(Frames) /\ toWeb' \in Seq(ReplyFrames \cup Notices)
      BY <1>6, PrefixType DEF Drops, Types, KernelTypes
  <2> QED
      BY <1>6, <2>1 DEF Drops, browsers, web, kernel, Types, WebTypes, KernelTypes, Telling
<1> QED
    BY <1>2, <1>3, <1>4, <1>5, <1>6 DEF Pump

LEMMA KernelKeepsTypes ==
    ASSUME Types, DispatchesAnswer \/ DispatchesTurn \/ (\E t \in Turns : Works(t))
                  \/ (\E f \in busy : Returns(f))
    PROVE  Types'
<1>1. WebTypes'
    BY DEF DispatchesAnswer, DispatchesTurn, Works, ToolResult, NeedsApproval, GoesOn, Ends,
           Stops, Returns, browsers, web, Types, WebTypes, Telling
<1>2. toKernel # <<>> => Head(toKernel) \in Frames /\ Tail(toKernel) \in Seq(Frames)
    BY HeadTailProperties DEF Types, KernelTypes
<1>3. ASSUME NEW f \in Frames, NEW says \in Says, Returned(f, says)
      PROVE  toWeb' \in Seq(ReplyFrames \cup Notices)
  <2>1. Reply(f, says) \in ReplyFrames
      BY DEF Reply, ReplyFrames, Frames
  <2> QED
      BY <1>3, <2>1, Queued DEF Returned, Types, KernelTypes
<1>4. ASSUME NEW n \in Notices, Notifies(n)
      PROVE  toWeb' \in Seq(ReplyFrames \cup Notices)
    BY <1>4, Queued DEF Notifies, Types, KernelTypes
<1>5. CASE DispatchesAnswer
  <2>1. Head(toKernel) \in Frames /\ Head(toKernel).req[2] \in Turns
      BY <1>2, <1>5, RequestParts DEF DispatchesAnswer, NextFrameIs, Frames
  <2>2. toWeb' \in Seq(ReplyFrames \cup Notices)
      BY <1>3, <1>5, <2>1 DEF DispatchesAnswer, Says
  <2> QED
      BY <1>1, <1>2, <1>5, <2>1, <2>2 DEF DispatchesAnswer, NextFrameIs, Types, KernelTypes
<1>6. CASE DispatchesTurn
  <2> DEFINE f == Head(toKernel)
             t == f.req[2]
  <2>1. f \in Frames /\ t \in Turns /\ SessionOf[t] \in Sessions
      BY <1>2, <1>6, RequestParts DEF DispatchesTurn, NextFrameIs, Frames
  <2>2. \/ UNCHANGED <<busy, turnAt, feed>> /\ Returned(f, "refused")
        \/ /\ busy' = busy \cup {f} /\ turnAt' = [turnAt EXCEPT ![t] = "works"]
           /\ feed' = [feed EXCEPT ![SessionOf[t]] = 0] /\ toWeb' = toWeb
      BY <1>6 DEF DispatchesTurn, NewStatistics
  <2>3. toKernel' \in Seq(Frames) /\ UNCHANGED <<up, allowed, stopped>>
      BY <1>2, <1>6 DEF DispatchesTurn, NextFrameIs
  <2> HIDE DEF f, t
  <2>4. toWeb' \in Seq(ReplyFrames \cup Notices)
      BY <1>3, <2>1, <2>2 DEF Says, Types, KernelTypes
  <2>5. /\ busy' \subseteq Frames
        /\ turnAt' \in [Turns -> {"no", "works", "asks", "proceeds", "ended"}]
        /\ feed' \in [Sessions -> Nat]
    <3>1. \A s \in Sessions : [feed EXCEPT ![s] = 0] \in [Sessions -> Nat]
        BY DEF Types, KernelTypes
    <3>2. feed' \in [Sessions -> Nat]
        BY <2>1, <2>2, <3>1 DEF Types, KernelTypes
    <3>3. busy' \subseteq Frames
        BY <2>1, <2>2 DEF Types, KernelTypes
    <3>4. turnAt' \in [Turns -> {"no", "works", "asks", "proceeds", "ended"}]
        BY <2>1, <2>2 DEF Types, KernelTypes
    <3> QED
        BY <3>2, <3>3, <3>4
  <2>6. up' \in BOOLEAN /\ allowed' \subseteq Turns /\ stopped' \subseteq Turns
      BY <2>3 DEF Types, KernelTypes
  <2> QED
      BY <1>1, <2>3, <2>4, <2>5, <2>6 DEF Types, KernelTypes
<1>7. ASSUME NEW t \in Turns, Works(t) PROVE Types'
  <2>1. SessionOf[t] \in Sessions /\ feed[SessionOf[t]] \in Nat
      BY RequestParts DEF Types, KernelTypes
  <2>2. /\ Notice("result", t, 0) \in Notices /\ Notice("approval", t, 0) \in Notices
        /\ EndNotice(t) \in Notices
      BY <2>1 DEF EndNotice, Notice, Notices
  <2>3. CASE ToolResult(t)
    <3>1. toWeb' \in Seq(ReplyFrames \cup Notices)
        BY <1>4, <2>2, <2>3 DEF ToolResult
    <3>2. feed' \in [Sessions -> Nat]
      <4>1. feed \in [Sessions -> Nat] /\ feed[SessionOf[t]] + 1 \in Nat
        <5>1. feed \in [Sessions -> Nat]
            BY DEF Types, KernelTypes
        <5> QED
            BY <2>1, <5>1
      <4>2. \A n \in Nat : [feed EXCEPT ![SessionOf[t]] = n] \in [Sessions -> Nat]
          BY <4>1
      <4>3. feed' = [feed EXCEPT ![SessionOf[t]] = feed[SessionOf[t]] + 1]
          BY <2>3 DEF ToolResult
      <4> QED
          BY <4>1, <4>2, <4>3
    <3> QED
        BY <1>1, <2>3, <3>1, <3>2 DEF ToolResult, Types, KernelTypes
  <2>4. CASE NeedsApproval(t)
    <3>1. toWeb' \in Seq(ReplyFrames \cup Notices)
        BY <1>4, <2>2, <2>4 DEF NeedsApproval
    <3> QED
        BY <1>1, <2>4, <3>1 DEF NeedsApproval, Types, KernelTypes
  <2>5. CASE GoesOn(t)
      BY <1>1, <2>5 DEF GoesOn, wire, Types, KernelTypes
  <2>6. CASE Ends(t)
    <3>1. toWeb' \in Seq(ReplyFrames \cup Notices)
        BY <1>4, <2>2, <2>6 DEF Ends
    <3> QED
        BY <1>1, <2>6, <3>1 DEF Ends, Types, KernelTypes
  <2>7. CASE Stops(t)
      BY <1>1, <2>7 DEF Stops, wire, Types, KernelTypes
  <2> QED
      BY <1>7, <2>3, <2>4, <2>5, <2>6, <2>7 DEF Works
<1>8. ASSUME NEW f \in busy, Returns(f) PROVE Types'
  <2>1. f \in Frames
      BY DEF Types, KernelTypes
  <2>2. toWeb' \in Seq(ReplyFrames \cup Notices)
      BY <1>3, <1>8, <2>1 DEF Returns, Says
  <2> QED
      BY <1>1, <1>8, <2>2 DEF Returns, Types, KernelTypes
<1> QED
    BY <1>5, <1>6, <1>7, <1>8

LEMMA TypesStep == Types /\ [Next]_vars => Types'
<1> SUFFICES ASSUME Types, [Next]_vars PROVE Types'
    OBVIOUS
<1>1. CASE UNCHANGED vars
    BY <1>1 DEF vars, browsers, web, wire, kernel, Types, WebTypes, KernelTypes, Telling
<1> QED
    BY <1>1, WebKeepsTypes, BrowserKeepsTypes, PumpKeepsTypes, KernelKeepsTypes DEF Next

--------------------------------------------------------------------------------
(* Elements of sequences *)

LEMMA Appended ==
    ASSUME NEW S, NEW s \in Seq(S), NEW e \in S
    PROVE  /\ Append(s, e) \in Seq(S) /\ Len(Append(s, e)) = Len(s) + 1
           /\ DOMAIN Append(s, e) = 1..Len(s) + 1 /\ DOMAIN s = 1..Len(s)
           /\ \A k \in 1..Len(s) : Append(s, e)[k] = s[k]
           /\ Append(s, e)[Len(s) + 1] = e
           /\ Len(s) \in Nat
<1>1. /\ Append(s, e) \in Seq(S) /\ Len(Append(s, e)) = Len(s) + 1
      /\ \A k \in 1..Len(s) : Append(s, e)[k] = s[k]
      /\ Append(s, e)[Len(s) + 1] = e
    BY AppendProperties
<1>2. DOMAIN s = 1..Len(s) /\ Len(s) \in Nat
    BY LenProperties
<1>3. DOMAIN Append(s, e) = 1..Len(Append(s, e))
    BY <1>1, LenProperties
<1> QED
    BY <1>1, <1>2, <1>3

LEMMA Shortened ==
    ASSUME NEW S, NEW s \in Seq(S), s # <<>>
    PROVE  /\ Tail(s) \in Seq(S) /\ Len(Tail(s)) = Len(s) - 1 /\ Len(s) \in Nat \ {0}
           /\ DOMAIN Tail(s) = 1..Len(s) - 1 /\ DOMAIN s = 1..Len(s)
           /\ \A k \in 1..Len(s) - 1 : Tail(s)[k] = s[k + 1]
           /\ Head(s) = s[1] /\ Head(s) \in S
<1>1. /\ Tail(s) \in Seq(S) /\ Len(Tail(s)) = Len(s) - 1 /\ Head(s) \in S
      /\ \A k \in 1..Len(Tail(s)) : Tail(s)[k] = s[k + 1]
    BY HeadTailProperties
<1>2. DOMAIN s = 1..Len(s) /\ Len(s) \in Nat /\ DOMAIN Tail(s) = 1..Len(Tail(s))
    BY <1>1, LenProperties
<1>3. Len(s) # 0
    BY EmptySeq
<1>4. Head(s) = s[1]
    OBVIOUS
<1> QED
    BY <1>1, <1>2, <1>3, <1>4

--------------------------------------------------------------------------------
(* What a step does to each of the queues and tables *)

\* Numbers are given by TakesLock only, and it leaves everything else alone.
LEMMA IdentStep ==
    ASSUME [Next]_vars
    PROVE  \/ UNCHANGED <<ident, nextId>>
           \/ \E r \in Requests : TakesLock(r)
BY DEF Next, Asks, Bridge, Sends, SendFails, Answers, Expires, Leaves, CleansUp, Pump,
       ReceivesReply, ReceivesNotice, Broadcasts, PumpEnds, Drops, DispatchesAnswer,
       DispatchesTurn, Works, ToolResult, NeedsApproval, GoesOn, Ends, Stops, Returns, vars, web

LEMMA PendingStep ==
    ASSUME [Next]_vars, NEW i \in DOMAIN pending'
    PROVE  \/ i \in DOMAIN pending /\ pending'[i] = pending[i]
           \/ \E r \in Requests : TakesLock(r) /\ i = nextId /\ pending'[i] = r
<1>1. ASSUME NEW r \in Requests, TakesLock(r)
      PROVE  \/ i \in DOMAIN pending /\ pending'[i] = pending[i]
             \/ i = nextId /\ pending'[i] = r
    BY <1>1 DEF TakesLock, WithEntry, FreshId
<1>2. ASSUME NEW r \in Requests, Expires(r)
      PROVE  i \in DOMAIN pending /\ pending'[i] = pending[i]
    BY <1>2 DEF Expires, WithoutEntry, Restrict
<1>3. ASSUME NEW b \in Browsers, CleansUp(b)
      PROVE  i \in DOMAIN pending /\ pending'[i] = pending[i]
    BY <1>3 DEF CleansUp, Restrict
<1>4. ASSUME ReceivesReply
      PROVE  i \in DOMAIN pending /\ pending'[i] = pending[i]
    BY <1>4 DEF ReceivesReply, Restrict
<1>5. ASSUME \A r \in Requests : ~TakesLock(r) /\ ~Expires(r),
             \A b \in Browsers : ~CleansUp(b), ~ReceivesReply
      PROVE  pending' = pending
    BY <1>5 DEF Next, Asks, Bridge, Sends, SendFails, Answers, Leaves, Pump,
       ReceivesNotice, Broadcasts, PumpEnds, Drops, DispatchesAnswer,
       DispatchesTurn, Works, ToolResult, NeedsApproval, GoesOn, Ends, Stops, Returns, vars, web
<1> QED
    BY <1>1, <1>2, <1>3, <1>4, <1>5

\* The queue to the kernel loses its head or its end, or gets a frame.
LEMMA ToKernelStep ==
    ASSUME Types, [Next]_vars
    PROVE  \/ toKernel' = toKernel
           \/ /\ toKernel # <<>> /\ toKernel' = Tail(toKernel)
              /\ DispatchesAnswer \/ DispatchesTurn
           \/ Drops /\ \E n \in 0..Len(toKernel) : toKernel' = SubSeq(toKernel, 1, n)
           \/ \E r \in Requests : /\ task[r] = "sending" /\ task'[r] # "sending"
                                  /\ toKernel' = Append(toKernel, Frame(ident[r], r))
<1>1. ASSUME NEW r \in Requests, Sends(r)
      PROVE  /\ task[r] = "sending" /\ task'[r] # "sending"
             /\ toKernel' = Append(toKernel, Frame(ident[r], r))
    BY <1>1 DEF Sends, Types, WebTypes
<1>2. ASSUME NEW b \in Browsers, CleansUp(b)
      PROVE  \/ toKernel' = toKernel
             \/ \E r \in Requests : /\ task[r] = "sending" /\ task'[r] # "sending"
                                    /\ toKernel' = Append(toKernel, Frame(ident[r], r))
    BY <1>2 DEF CleansUp
<1>3. ASSUME DispatchesAnswer \/ DispatchesTurn
      PROVE  toKernel # <<>> /\ toKernel' = Tail(toKernel)
    BY <1>3 DEF DispatchesAnswer, DispatchesTurn, NextFrameIs
<1>4. ASSUME Drops PROVE \E n \in 0..Len(toKernel) : toKernel' = SubSeq(toKernel, 1, n)
    BY <1>4 DEF Drops
<1>5. ASSUME \A r \in Requests : ~Sends(r), \A b \in Browsers : ~CleansUp(b), ~Drops,
             ~DispatchesAnswer, ~DispatchesTurn
      PROVE  toKernel' = toKernel
    BY <1>5 DEF Next, Asks, Bridge, TakesLock, SendFails, Answers, Expires, Leaves, Pump,
       ReceivesReply, ReceivesNotice, Broadcasts, PumpEnds, Works, ToolResult, NeedsApproval,
       GoesOn, Ends, Stops, Returns, vars, wire
<1> QED
    BY <1>1, <1>2, <1>3, <1>4, <1>5

\* Who may put a reply into the queue to the web server: the task of a frame that has
\* been dispatched at once, or whose turn has returned.
Dispatched(f) == \/ toKernel # <<>> /\ f = Head(toKernel)
                 \/ f \in busy

LEMMA DispatchedType == ASSUME Types PROVE \A f : Dispatched(f) => f \in Frames
BY HeadTailProperties DEF Dispatched, Types, KernelTypes

\* The queue to the web server loses its head or its end, or gets a reply or a notice.
LEMMA ToWebStep ==
    ASSUME Types, [Next]_vars
    PROVE  \/ toWeb' = toWeb
           \/ toWeb # <<>> /\ toWeb' = Tail(toWeb) /\ (ReceivesReply \/ ReceivesNotice)
           \/ Drops /\ \E n \in 0..Len(toWeb) : toWeb' = SubSeq(toWeb, 1, n)
           \/ \E f \in Frames, says \in Says : /\ Dispatched(f)
                                               /\ toWeb' = Append(toWeb, Reply(f, says))
           \/ \E n \in Notices : toWeb' = Append(toWeb, n)
<1> DEFINE Told == \/ toWeb' = toWeb
                   \/ \E f \in Frames, says \in Says : /\ Dispatched(f)
                                                       /\ toWeb' = Append(toWeb, Reply(f, says))
                   \/ \E n \in Notices : toWeb' = Append(toWeb, n)
<1>1. ASSUME NEW f \in Frames, NEW says \in Says, Dispatched(f), Returned(f, says) PROVE Told
    BY <1>1 DEF Returned
<1>2. ASSUME NEW n \in Notices, Notifies(n) PROVE Told
    BY <1>2 DEF Notifies
<1>3. CASE DispatchesAnswer
  <2>1. Dispatched(Head(toKernel)) /\ Returned(Head(toKernel), "ok")
      BY <1>3 DEF DispatchesAnswer, NextFrameIs, Dispatched
  <2>2. Told
      BY <1>1, <2>1, DispatchedType DEF Says
  <2> QED
      BY <2>2
<1>4. CASE DispatchesTurn
  <2>1. /\ Dispatched(Head(toKernel))
        /\ toWeb' = toWeb \/ Returned(Head(toKernel), "refused")
      BY <1>4 DEF DispatchesTurn, NextFrameIs, Dispatched
  <2>2. Told
      BY <1>1, <2>1, DispatchedType DEF Says
  <2> QED
      BY <2>2
<1>5. ASSUME NEW f \in busy, Returns(f) PROVE Told
  <2>1. Dispatched(f) /\ (Returned(f, "answer") \/ Returned(f, "stopped"))
      BY <1>5 DEF Returns, Dispatched
  <2> QED
      BY <1>1, <2>1, DispatchedType DEF Says
<1>6. ASSUME NEW t \in Turns, Works(t) PROVE Told
  <2>1. feed[SessionOf[t]] \in Nat
      BY RequestParts DEF Types, KernelTypes
  <2>2. /\ Notice("result", t, 0) \in Notices /\ Notice("approval", t, 0) \in Notices
        /\ EndNotice(t) \in Notices
      BY <2>1 DEF EndNotice, Notice, Notices
  <2> QED
      BY <1>2, <1>6, <2>2 DEF Works, ToolResult, NeedsApproval, GoesOn, Ends, Stops, wire
<1>7. CASE ReceivesReply \/ ReceivesNotice
    BY <1>7 DEF ReceivesReply, ReceivesNotice
<1>8. CASE Drops
    BY <1>8 DEF Drops
<1>9. ASSUME ~ReceivesReply, ~ReceivesNotice, ~Drops, ~DispatchesAnswer, ~DispatchesTurn,
             \A f \in busy : ~Returns(f), \A t \in Turns : ~Works(t)
      PROVE  toWeb' = toWeb
    BY <1>9 DEF Next, Asks, Bridge, TakesLock, Sends, SendFails, Answers, Expires, Leaves,
       CleansUp, Pump, Broadcasts, PumpEnds, vars, wire
<1> QED
    BY <1>3, <1>4, <1>5, <1>6, <1>7, <1>8, <1>9

\* A thread runs a frame that was the next one.
LEMMA BusyStep ==
    ASSUME [Next]_vars, NEW f \in busy'
    PROVE  Dispatched(f)
<1>1. CASE DispatchesTurn
    BY <1>1 DEF DispatchesTurn, NextFrameIs, Dispatched
<1>2. ASSUME NEW g \in busy, Returns(g) PROVE Dispatched(f)
    BY <1>2 DEF Returns, Dispatched
<1>3. ASSUME ~DispatchesTurn, \A g \in busy : ~Returns(g)
      PROVE  busy' = busy
    BY <1>3 DEF Next, Asks, Bridge, TakesLock, Sends, SendFails, Answers, Expires, Leaves,
       CleansUp, Pump, ReceivesReply, ReceivesNotice, Broadcasts, PumpEnds, Drops,
       DispatchesAnswer, Works, ToolResult, NeedsApproval, GoesOn, Ends, Stops, vars, kernel
<1> QED
    BY <1>1, <1>2, <1>3 DEF Dispatched

\* A browser sees a reply from its task or a notice from the pump.
LEMMA SeenStep ==
    ASSUME Types, [Next]_vars, NEW b \in Browsers
    PROVE  \/ seen'[b] = seen[b]
           \/ \E r \in Requests : /\ Answers(r) /\ b = Owner(r) /\ b \in online
                                  /\ seen'[b] = Append(seen[b], Shown(r, got[r]))
           \/ /\ Broadcasts /\ b \in pump.to /\ b \in online
              /\ pump' = IF pump.to = {b} THEN None ELSE [pump EXCEPT !.to = pump.to \ {b}]
              /\ seen'[b] = Append(seen[b], pump.frame)
<1>1. ASSUME NEW r \in Requests, Answers(r)
      PROVE  seen'[b] = seen[b] \/ /\ b = Owner(r) /\ b \in online
                                   /\ seen'[b] = Append(seen[b], Shown(r, got[r]))
    BY <1>1 DEF Answers, Types, WebTypes
<1>2. ASSUME Broadcasts
      PROVE  seen'[b] = seen[b]
             \/ /\ b \in pump.to /\ b \in online
                /\ pump' = IF pump.to = {b} THEN None ELSE [pump EXCEPT !.to = pump.to \ {b}]
                /\ seen'[b] = Append(seen[b], pump.frame)
  <2>1. PICK c \in pump.to :
           /\ IF c \in online
              THEN seen' = [seen EXCEPT ![c] = Append(seen[c], pump.frame)]
              ELSE seen' = seen
           /\ pump' = IF pump.to = {c} THEN None ELSE [pump EXCEPT !.to = pump.to \ {c}]
      BY <1>2 DEF Broadcasts
  <2>2. CASE c = b
      BY <2>1, <2>2 DEF Types, WebTypes
  <2>3. CASE c # b
      BY <2>1, <2>3 DEF Types, WebTypes
  <2> QED
      BY <2>2, <2>3
<1>3. ASSUME ~Broadcasts, \A r \in Requests : ~Answers(r)
      PROVE  seen' = seen
    BY <1>3 DEF Next, Asks, Bridge, TakesLock, Sends, SendFails, Expires, Leaves, CleansUp,
       Pump, ReceivesReply, ReceivesNotice, PumpEnds, Drops, DispatchesAnswer,
       DispatchesTurn, Works, ToolResult, NeedsApproval, GoesOn, Ends, Stops, Returns,
       vars, browsers
<1> QED
    BY <1>1, <1>2, <1>3

\* A task goes on, or its browser has left.
LEMMA TaskStep ==
    ASSUME Types, [Next]_vars, NEW r \in Requests
    PROVE  \/ task'[r] = task[r] /\ got'[r] = got[r]
           \/ task[r] = "new" /\ task'[r] = "queued"
           \/ TakesLock(r) /\ task[r] = "queued" /\ task'[r] = "sending"
           \/ task[r] = "sending" /\ task'[r] = "waiting"
           \/ /\ task[r] \in {"sending", "waiting"}
              /\ task'[r] = "answering" /\ got'[r] = Failure(r)
           \/ /\ ReceivesReply /\ task[r] = "waiting" /\ task'[r] = "answering"
              /\ Head(toWeb).id \in DOMAIN pending /\ pending[Head(toWeb).id] = r
              /\ got'[r] = [req |-> Head(toWeb).req, says |-> Head(toWeb).says]
           \/ Answers(r) /\ task[r] = "answering" /\ task'[r] = "done"
           \/ /\ task[r] \in {"queued", "sending", "waiting", "answering"}
              /\ task'[r] = "cancelled"
<1>1. ASSUME NEW q \in Requests, q # r, Asks(q) \/ Bridge(q) \/ Expires(q)
      PROVE  task'[r] = task[r] /\ got'[r] = got[r]
    BY <1>1 DEF Asks, Bridge, TakesLock, Sends, SendFails, Answers, Expires, Types, WebTypes
<1>2. CASE Asks(r)
    BY <1>2 DEF Asks, Types, WebTypes
<1>3. CASE TakesLock(r)
    BY <1>3 DEF TakesLock, Types, WebTypes
<1>4. CASE Sends(r)
    BY <1>4 DEF Sends, Types, WebTypes
<1>5. CASE SendFails(r) \/ Expires(r)
    BY <1>5 DEF SendFails, Expires, Types, WebTypes
<1>6. CASE Answers(r)
    BY <1>6 DEF Answers, Types, WebTypes
<1>7. CASE ReceivesReply
  <2> DEFINE f == Head(toWeb)
             waited == f.id \in DOMAIN pending /\ task[pending[f.id]] = "waiting"
  <2>1. CASE waited
    <3>1. /\ task' = [task EXCEPT ![pending[f.id]] = "answering"]
          /\ got' = [got EXCEPT ![pending[f.id]] = [req |-> f.req, says |-> f.says]]
          /\ pending[f.id] \in Requests
        BY <1>7, <2>1 DEF ReceivesReply, Types, WebTypes
    <3>2. CASE pending[f.id] = r
        BY <1>7, <2>1, <3>1, <3>2 DEF Types, WebTypes
    <3>3. CASE pending[f.id] # r
        BY <3>1, <3>3 DEF Types, WebTypes
    <3> QED
        BY <3>2, <3>3
  <2>2. CASE ~waited
    <3>1. task' = task /\ got' = got
        BY <1>7, <2>2 DEF ReceivesReply
    <3> QED
        BY <3>1
  <2> QED
      BY <2>1, <2>2
<1>8. ASSUME NEW b \in Browsers, CleansUp(b)
      PROVE  /\ got'[r] = got[r]
             /\ \/ task'[r] = task[r]
                \/ /\ task[r] \in {"queued", "sending", "waiting", "answering"}
                   /\ task'[r] = "cancelled"
    BY <1>8 DEF CleansUp
<1>9. ASSUME \A q \in Requests : ~Asks(q) /\ ~Bridge(q) /\ ~Expires(q),
             \A b \in Browsers : ~CleansUp(b), ~ReceivesReply
      PROVE  task' = task /\ got' = got
    BY <1>9
       DEF Next, Leaves, Pump, ReceivesNotice, Broadcasts, PumpEnds, Drops,
           DispatchesAnswer, DispatchesTurn, Works, ToolResult, NeedsApproval, GoesOn, Ends,
           Stops, Returns, vars, web
<1>10. CASE \E q \in Requests : Asks(q) \/ Bridge(q) \/ Expires(q)
    BY <1>1, <1>2, <1>3, <1>4, <1>5, <1>6, <1>10 DEF Bridge
<1>11. CASE \E b \in Browsers : CleansUp(b)
    BY <1>8, <1>11
<1> QED
    BY <1>7, <1>9, <1>10, <1>11

--------------------------------------------------------------------------------
(* One answer, and the right one *)

\* A number is given once; who has not asked has none.
Numbers ==
    /\ \A r \in Requests : ident[r] < nextId
    /\ \A r \in Requests : task[r] \in {"new", "queued"} => ident[r] = 0
    /\ \A r \in Requests : task[r] = "sending" => ident[r] # 0
    /\ \A r, q \in Requests : ident[r] # 0 /\ ident[r] = ident[q] => r = q

\* Wherever a number is used, it stands for the same request.
Names(i, r) == i # 0 /\ ident[r] = i
Named ==
    /\ \A i \in DOMAIN pending : Names(i, pending[i])
    /\ \A k \in DOMAIN toKernel : Names(toKernel[k].id, toKernel[k].req)
    /\ \A f \in busy : Names(f.id, f.req)
    /\ \A k \in DOMAIN toWeb :
          toWeb[k].kind = "reply" => Names(toWeb[k].id, toWeb[k].req)

\* So the answer a task was handed is the one to its request.
Handed == \A r \in Requests : task[r] = "answering" => got[r].req = r

\* Until its task is done nobody has seen an answer, and afterwards there is one.
Open(r) == task[r] \in {"new", "queued", "sending", "waiting", "answering"}
Unanswered == \A r \in Requests : Open(r) =>
    \A b \in Browsers : \A n \in DOMAIN seen[b] :
       seen[b][n].kind = "reply" => seen[b][n].asked # r
Once == \A b \in Browsers : \A m, n \in DOMAIN seen[b] :
    seen[b][m].kind = "reply" /\ seen[b][n].kind = "reply"
    /\ seen[b][m].asked = seen[b][n].asked => m = n
Right == \A b \in Browsers : \A n \in DOMAIN seen[b] :
    seen[b][n].kind = "reply" => seen[b][n].req = seen[b][n].asked

ReplyInv == Numbers /\ Named /\ Handed /\ Unanswered /\ Once /\ Right

LEMMA ReplyInit == Init => ReplyInv
<1> SUFFICES ASSUME Init PROVE ReplyInv
    OBVIOUS
<1>1. \A b \in Browsers : DOMAIN seen[b] = {}
    BY DEF Init
<1>2. DOMAIN pending = {} /\ DOMAIN toKernel = {} /\ DOMAIN toWeb = {}
    BY DEF Init
<1> QED
    BY <1>1, <1>2 DEF Init, ReplyInv, Numbers, Named, Handed, Unanswered, Once, Right

LEMMA NumbersStep ==
    ASSUME Types, Numbers, [Next]_vars
    PROVE  /\ Numbers'
           /\ \A r \in Requests : \A i : Names(i, r) => i # 0 /\ ident'[r] = i
<1>1. CASE UNCHANGED <<ident, nextId>>
  <2>1. \A r \in Requests : ~TakesLock(r)
      BY <1>1 DEF TakesLock, Types, WebTypes
  <2>2. \A r \in Requests : /\ task'[r] \in {"new", "queued"} => task[r] \in {"new", "queued"}
                            /\ task'[r] = "sending" => task[r] = "sending"
      BY <2>1, TaskStep
  <2> QED
      BY <1>1, <2>2 DEF Numbers, Names
<1>2. ASSUME NEW r \in Requests, TakesLock(r)
      PROVE  /\ Numbers'
             /\ \A q \in Requests : \A i : Names(i, q) => i # 0 /\ ident'[q] = i
  <2>1. /\ \A q \in Requests : ident'[q] = IF q = r THEN nextId ELSE ident[q]
        /\ \A q \in Requests : task'[q] = IF q = r THEN "sending" ELSE task[q]
        /\ nextId' = nextId + 1 /\ nextId \in Nat \ {0} /\ task[r] = "queued"
        /\ \A q \in Requests : ident[q] \in Nat
      BY <1>2 DEF TakesLock, FreshId, Types, WebTypes
  <2>2. ident[r] = 0
      BY <2>1 DEF Numbers
  <2>3. Numbers'
      BY <2>1 DEF Numbers
  <2> QED
      BY <2>1, <2>2, <2>3 DEF Names
<1> QED
    BY <1>1, <1>2, IdentStep

LEMMA NamedStep ==
    ASSUME Types, Numbers, Named, [Next]_vars
    PROVE  Named'
<1>1. \A r \in Requests : \A i : Names(i, r) => i # 0 /\ ident'[r] = i
    BY NumbersStep
<1>2. ASSUME NEW i \in DOMAIN pending' PROVE i # 0 /\ ident'[pending'[i]] = i
  <2>1. CASE i \in DOMAIN pending /\ pending'[i] = pending[i]
    <3>1. Names(i, pending[i]) /\ pending[i] \in Requests
        BY <2>1 DEF Named, Types, WebTypes
    <3> QED
        BY <1>1, <2>1, <3>1
  <2>2. ASSUME NEW r \in Requests, TakesLock(r), i = nextId, pending'[i] = r
        PROVE  i # 0 /\ ident'[pending'[i]] = i
      BY <2>2 DEF TakesLock, FreshId, Types, WebTypes
  <2> QED
      BY <2>1, <2>2, PendingStep
<1>3. ASSUME NEW k \in DOMAIN toKernel'
      PROVE  toKernel'[k].id # 0 /\ ident'[toKernel'[k].req] = toKernel'[k].id
  <2>1. ASSUME NEW j \in DOMAIN toKernel, toKernel'[k] = toKernel[j]
        PROVE  toKernel'[k].id # 0 /\ ident'[toKernel'[k].req] = toKernel'[k].id
    <3>1. Names(toKernel[j].id, toKernel[j].req) /\ toKernel[j] \in Frames
        BY LenProperties, ElementOfSeq DEF Named, Types, KernelTypes
    <3> QED
        BY <1>1, <2>1, <3>1 DEF Frames
  <2>2. CASE toKernel' = toKernel
      BY <2>1, <2>2
  <2>3. CASE toKernel # <<>> /\ toKernel' = Tail(toKernel)
    <3>1. k + 1 \in DOMAIN toKernel /\ toKernel'[k] = toKernel[k + 1]
        BY <2>3, Shortened DEF Types, KernelTypes
    <3> QED
        BY <2>1, <3>1
  <2>4. ASSUME NEW n \in 0..Len(toKernel), toKernel' = SubSeq(toKernel, 1, n)
        PROVE  toKernel'[k].id # 0 /\ ident'[toKernel'[k].req] = toKernel'[k].id
    <3>1. k \in DOMAIN toKernel /\ toKernel'[k] = toKernel[k]
      <4>1. /\ toKernel' \in Seq(Frames) /\ Len(toKernel') = n /\ toKernel \in Seq(Frames)
            /\ \A i \in 1..n : toKernel'[i] = toKernel[i]
          BY <2>4, PrefixType DEF Types, KernelTypes
      <4>2. DOMAIN toKernel' = 1..n /\ DOMAIN toKernel = 1..Len(toKernel) /\ Len(toKernel) \in Nat
          BY <4>1, LenProperties
      <4> QED
          BY <4>1, <4>2
    <3> QED
        BY <2>1, <3>1
  <2>5. ASSUME NEW r \in Requests, task[r] = "sending",
               toKernel' = Append(toKernel, Frame(ident[r], r))
        PROVE  toKernel'[k].id # 0 /\ ident'[toKernel'[k].req] = toKernel'[k].id
    <3>1. Frame(ident[r], r) \in Frames
        BY DEF Frame, Frames, Types, WebTypes
    <3>2. \/ k \in DOMAIN toKernel /\ toKernel'[k] = toKernel[k]
          \/ toKernel'[k] = Frame(ident[r], r)
        BY <2>5, <3>1, Appended DEF Types, KernelTypes
    <3>3. Names(ident[r], r)
        BY <2>5 DEF Numbers, Names
    <3> QED
        BY <1>1, <2>1, <3>2, <3>3 DEF Frame
  <2> QED
      BY <2>2, <2>3, <2>4, <2>5, ToKernelStep
<1>4. ASSUME NEW f, Dispatched(f) PROVE f \in Frames /\ f.id # 0 /\ ident'[f.req] = f.id
  <2>1. f \in Frames /\ Names(f.id, f.req)
      BY <1>4, DispatchedType, Shortened DEF Dispatched, Named, Types, KernelTypes
  <2> QED
      BY <1>1, <2>1 DEF Frames
<1>5. ASSUME NEW k \in DOMAIN toWeb', toWeb'[k].kind = "reply"
      PROVE  toWeb'[k].id # 0 /\ ident'[toWeb'[k].req] = toWeb'[k].id
  <2> DEFINE S == ReplyFrames \cup Notices
  <2>0. toWeb \in Seq(S) /\ toWeb' \in Seq(S)
      BY TypesStep DEF Types, KernelTypes
  <2>1. ASSUME NEW j \in DOMAIN toWeb, toWeb'[k] = toWeb[j]
        PROVE  toWeb'[k].id # 0 /\ ident'[toWeb'[k].req] = toWeb'[k].id
    <3>1. toWeb[j] \in S
        BY <2>0, LenProperties, ElementOfSeq
    <3>2. Names(toWeb[j].id, toWeb[j].req) /\ toWeb[j].req \in Requests
        BY <1>5, <2>1, <3>1 DEF Named, ReplyFrames, Notices
    <3> QED
        BY <1>1, <2>1, <3>2
  <2>2. CASE toWeb' = toWeb
      BY <2>1, <2>2
  <2>3. CASE toWeb # <<>> /\ toWeb' = Tail(toWeb)
    <3>1. k + 1 \in DOMAIN toWeb /\ toWeb'[k] = toWeb[k + 1]
        BY <2>0, <2>3, Shortened
    <3> QED
        BY <2>1, <3>1
  <2>4. ASSUME NEW n \in 0..Len(toWeb), toWeb' = SubSeq(toWeb, 1, n)
        PROVE  toWeb'[k].id # 0 /\ ident'[toWeb'[k].req] = toWeb'[k].id
    <3>1. k \in DOMAIN toWeb /\ toWeb'[k] = toWeb[k]
      <4>1. Len(toWeb') = n /\ \A i \in 1..n : toWeb'[i] = toWeb[i]
          BY <2>0, <2>4, PrefixType
      <4>2. DOMAIN toWeb' = 1..n /\ DOMAIN toWeb = 1..Len(toWeb) /\ Len(toWeb) \in Nat
          BY <2>0, <4>1, LenProperties
      <4> QED
          BY <4>1, <4>2
    <3> QED
        BY <2>1, <3>1
  <2>5. ASSUME NEW x \in S, toWeb' = Append(toWeb, x),
               x \in ReplyFrames => x.id # 0 /\ ident'[x.req] = x.id
        PROVE  toWeb'[k].id # 0 /\ ident'[toWeb'[k].req] = toWeb'[k].id
    <3>1. (k \in DOMAIN toWeb /\ toWeb'[k] = toWeb[k]) \/ toWeb'[k] = x
        BY <2>0, <2>5, Appended
    <3>2. x \notin ReplyFrames => x.kind # "reply"
        BY <2>5 DEF Notices
    <3> QED
        BY <1>5, <2>1, <2>5, <3>1, <3>2
  <2>6. ASSUME NEW f \in Frames, NEW says \in Says, Dispatched(f)
        PROVE  /\ Reply(f, says) \in ReplyFrames
               /\ Reply(f, says).id # 0 /\ ident'[Reply(f, says).req] = Reply(f, says).id
      BY <1>4, <2>6 DEF Reply, ReplyFrames, Frames
  <2>7. \A n \in Notices : n \notin ReplyFrames
      BY DEF Notices, ReplyFrames
  <2> HIDE DEF S
  <2>8. ReplyFrames \subseteq S /\ Notices \subseteq S
      BY DEF S
  <2> QED
      BY <2>2, <2>3, <2>4, <2>5, <2>6, <2>7, <2>8, ToWebStep
<1> QED
    BY <1>2, <1>3, <1>4, <1>5, BusyStep DEF Named, Names

LEMMA HandedStep ==
    ASSUME Types, Numbers, Named, Handed, [Next]_vars
    PROVE  Handed'
<1> SUFFICES ASSUME NEW r \in Requests, task'[r] = "answering"
             PROVE  got'[r].req = r
    BY DEF Handed
<1>1. CASE task'[r] = task[r] /\ got'[r] = got[r]
    BY <1>1 DEF Handed
<1>2. CASE got'[r] = Failure(r)
    BY <1>2 DEF Failure
<1>3. ASSUME ReceivesReply, Head(toWeb).id \in DOMAIN pending, pending[Head(toWeb).id] = r,
             got'[r] = [req |-> Head(toWeb).req, says |-> Head(toWeb).says]
      PROVE  got'[r].req = r
  <2>1. toWeb # <<>> /\ Head(toWeb).kind = "reply"
      BY <1>3 DEF ReceivesReply
  <2>2. Names(Head(toWeb).id, Head(toWeb).req) /\ Head(toWeb).req \in Requests
      BY <2>1, Shortened DEF Named, Types, KernelTypes, ReplyFrames, Notices
  <2>3. Names(Head(toWeb).id, r)
      BY <1>3 DEF Named
  <2>4. Head(toWeb).req = r
      BY <2>2, <2>3 DEF Names, Numbers
  <2> QED
      BY <1>3, <2>4
<1> QED
    BY <1>1, <1>2, <1>3, TaskStep

LEMMA RepliesStep ==
    ASSUME Types, Handed, Unanswered, Once, Right, [Next]_vars
    PROVE  Unanswered' /\ Once' /\ Right'
<1> DEFINE S == ShownReplies \cup Notices
           New(b) == \A r \in Requests :
               task'[r] \in {"new", "queued", "sending", "waiting", "answering"} =>
               \A n \in DOMAIN seen'[b] :
                  seen'[b][n].kind = "reply" => seen'[b][n].asked # r
           One(b) == \A m, n \in DOMAIN seen'[b] :
               seen'[b][m].kind = "reply" /\ seen'[b][n].kind = "reply"
               /\ seen'[b][m].asked = seen'[b][n].asked => m = n
           Own(b) == \A n \in DOMAIN seen'[b] :
               seen'[b][n].kind = "reply" => seen'[b][n].req = seen'[b][n].asked
<1>1. \A b \in Browsers : seen[b] \in Seq(S)
    BY DEF Types, WebTypes
<1>2. \A r \in Requests : task'[r] \in {"new", "queued", "sending", "waiting", "answering"} =>
                          Open(r) /\ ~Answers(r)
  <2>1. \A r \in Requests : Answers(r) => task'[r] = "done"
      BY DEF Answers, Types, WebTypes
  <2> QED
      BY <2>1, TaskStep DEF Open
<1>3. ASSUME NEW b \in Browsers
      PROVE  New(b) /\ One(b) /\ Own(b)
  <2>1. CASE seen'[b] = seen[b]
      BY <1>2, <2>1 DEF Unanswered, Once, Right
  <2>2. ASSUME NEW x \in S, seen'[b] = Append(seen[b], x),
               x.kind = "reply" => /\ x.req = x.asked
                                   /\ \A n \in DOMAIN seen[b] :
                                         seen[b][n].kind = "reply" => seen[b][n].asked # x.asked
                                   /\ \A r \in Requests : x.asked = r => Answers(r)
        PROVE  New(b) /\ One(b) /\ Own(b)
    <3> HIDE DEF S
    <3>1. /\ DOMAIN seen'[b] = 1..Len(seen[b]) + 1 /\ DOMAIN seen[b] = 1..Len(seen[b])
          /\ \A k \in 1..Len(seen[b]) : seen'[b][k] = seen[b][k]
          /\ seen'[b][Len(seen[b]) + 1] = x /\ Len(seen[b]) \in Nat
        BY <1>1, <2>2, Appended
    <3>2. \A n \in DOMAIN seen'[b] : \/ n \in DOMAIN seen[b] /\ seen'[b][n] = seen[b][n]
                                     \/ n = Len(seen[b]) + 1 /\ seen'[b][n] = x
        BY <3>1
    <3>3. New(b)
        BY <1>2, <2>2, <3>2 DEF Unanswered
    <3>4. One(b)
        BY <2>2, <3>2 DEF Once
    <3>5. Own(b)
        BY <2>2, <3>2 DEF Right
    <3> QED
        BY <3>3, <3>4, <3>5
  <2>3. ASSUME NEW r \in Requests, Answers(r), seen'[b] = Append(seen[b], Shown(r, got[r]))
        PROVE  New(b) /\ One(b) /\ Own(b)
    <3>1. /\ Shown(r, got[r]) \in S
          /\ Shown(r, got[r]).asked = r /\ Shown(r, got[r]).req = r
          /\ \A n \in DOMAIN seen[b] : seen[b][n].kind = "reply" => seen[b][n].asked # r
        BY <2>3
           DEF Answers, Shown, ShownReplies, Outcomes, Types, WebTypes, Handed, Unanswered,
               Open
    <3> QED
        BY <2>2, <2>3, <3>1
  <2>4. CASE Broadcasts /\ seen'[b] = Append(seen[b], pump.frame)
    <3>1. pump.frame \in S /\ pump.frame.kind # "reply"
        BY <2>4 DEF Broadcasts, Types, WebTypes, Telling, Notices
    <3> QED
        BY <2>2, <2>4, <3>1
  <2> QED
      BY <2>1, <2>3, <2>4, SeenStep
<1> QED
    BY <1>3 DEF Unanswered, Once, Right, Open

\* Whatever expires, is cancelled or arrives late: a browser gets one answer to a request
\* at most, and it is the kernel's answer to this request or an error, for any browsers,
\* turns and faults (ServeBridge.call and pump, server.py).
THEOREM RepliesFindTheirRequest == Spec => []EachItsOwnReply
<1>1. Types /\ ReplyInv /\ [Next]_vars => Types' /\ ReplyInv'
    BY TypesStep, NumbersStep, NamedStep, HandedStep, RepliesStep DEF ReplyInv
<1>2. ReplyInv => EachItsOwnReply
  <2> SUFFICES ASSUME ReplyInv, NEW b \in Browsers, NEW r \in Requests
               PROVE  /\ Cardinality(Replies(b, r)) <= 1
                      /\ \A n \in Replies(b, r) : seen[b][n].req = r
      BY DEF EachItsOwnReply
  <2>1. \A m, n \in Replies(b, r) : m = n
      BY DEF Replies, ReplyInv, Once
  <2>2. Replies(b, r) = {} \/ \E n : Replies(b, r) = {n}
      BY <2>1
  <2>3. Cardinality(Replies(b, r)) <= 1
      BY <2>2, FS_EmptySet, FS_Singleton
  <2> QED
      BY <2>3 DEF Replies, ReplyInv, Right
<1> QED
    BY TypesInit, ReplyInit, <1>1, <1>2, PTL DEF Spec

--------------------------------------------------------------------------------
(* What a browser is told comes in order *)

IsEnd(x, t) == x.kind = "end" /\ x.turn = t
IsResult(x, t) == x.kind = "result" /\ x.turn = t

\* The tool results of t before place n of a sequence, and how many they are.
ResultsBefore(s, t, n) == {m \in 1..n - 1 : s[m].kind = "result" /\ s[m].turn = t}
Count(s, t, n) == Cardinality(ResultsBefore(s, t, n))
One(x, t) == IF IsResult(x, t) THEN 1 ELSE 0

\* Browsers that are there are listeners, so the pump tells them all.
AllListen == online \subseteq listeners
ToTell(b) == Telling /\ b \in pump.to

\* The end of t is behind b, or before place k of the queue.
Behind(b, t) == Saw(b, "end", t) \/ (ToTell(b) /\ IsEnd(pump.frame, t))
EndKnown(b, t, k) == Behind(b, t) \/ \E j \in 1..k - 1 : IsEnd(toWeb[j], t)

\* An answer follows the end of its turn, on its way, with its task and at the browser.
IsAnswer(x, t) == x.kind = "reply" /\ x.says = "answer" /\ x.req[2] = t
AnswerQueued == \A k \in DOMAIN toWeb : \A t \in Turns : IsAnswer(toWeb[k], t) =>
    \A b \in online : EndKnown(b, t, k)
EndedIsTold == up => \A t \in Turns : turnAt[t] = "ended" =>
    \A b \in online : \A p \in {Len(toWeb) + 1} : EndKnown(b, t, p)
AnswerHanded == \A r \in Requests : \A t \in Turns :
    task[r] = "answering" /\ got[r].says = "answer" /\ got[r].req[2] = t =>
    \A b \in online : Saw(b, "end", t)
AnswerSeen == \A b \in Browsers : \A n \in DOMAIN seen[b] : \A t \in Turns :
    IsAnswer(seen[b][n], t) => \E m \in 1..n - 1 : IsEnd(seen[b][m], t)

AnswerInv == AllListen /\ AnswerQueued /\ EndedIsTold /\ AnswerHanded /\ AnswerSeen

\* A turn is dispatched once, and until it returns its session runs no other one.
AtWork == {"works", "asks", "proceeds"}
Unsent == {r \in Requests : task[r] \in {"new", "queued", "sending"}}
SentOnce ==
    /\ \A k \in DOMAIN toKernel : toKernel[k].req \notin Unsent
    /\ \A j, k \in DOMAIN toKernel : toKernel[j].req = toKernel[k].req => j = k
    /\ \A k \in DOMAIN toKernel, t \in Turns :
          toKernel[k].req = <<"send", t>> => turnAt[t] = "no"
    /\ \A t \in Turns : <<"send", t>> \in Unsent => turnAt[t] = "no"
OneAtATime ==
    /\ \A f, g \in busy : SessionOf[f.req[2]] = SessionOf[g.req[2]] => f = g
    /\ \A t \in Turns : turnAt[t] \in AtWork /\ t \notin stopped =>
                        \E f \in busy : f.req[2] = t

\* Of the results of t so many have reached b; of those before place k so many will.
Told(b, t) == Count(seen[b], t, Len(seen[b]) + 1)
              + IF ToTell(b) THEN One(pump.frame, t) ELSE 0
WillKnow(b, t, k) == Told(b, t) + Count(toWeb, t, k)

\* The statistics count what is on its way, and a notice of the end what comes before it.
Clean(t) == \A u \in stopped : SessionOf[u] # SessionOf[t]
NothingYet == \A t \in Turns : turnAt[t] = "no" =>
    /\ \A k \in DOMAIN toWeb : ~IsResult(toWeb[k], t)
    /\ \A b \in online : Told(b, t) = 0
FeedCounts == up => \A t \in Turns : turnAt[t] \in AtWork /\ Clean(t) =>
    \A b \in online : \A p \in {Len(toWeb) + 1} : feed[SessionOf[t]] = WillKnow(b, t, p)
EndQueued == \A k \in DOMAIN toWeb : \A t \in Turns : IsEnd(toWeb[k], t) /\ Clean(t) =>
    \A b \in online : toWeb[k].count = WillKnow(b, t, k)
EndNext == \A b \in online : \A t \in Turns :
    ToTell(b) /\ IsEnd(pump.frame, t) /\ Clean(t) =>
    pump.frame.count = Count(seen[b], t, Len(seen[b]) + 1)
EndSeen == \A b \in Browsers : \A n \in DOMAIN seen[b] : \A t \in Turns :
    IsEnd(seen[b][n], t) /\ Clean(t) => seen[b][n].count = Count(seen[b], t, n)

CountInv == SentOnce /\ OneAtATime /\ NothingYet /\ FeedCounts /\ EndQueued /\ EndNext /\ EndSeen

\* Counting: one more place, an equal beginning, and a sequence that has lost its head.
LEMMA CountType ==
    ASSUME NEW s, NEW t, NEW n \in Nat
    PROVE  IsFiniteSet(ResultsBefore(s, t, n)) /\ Count(s, t, n) \in Nat
<1>1. IsFiniteSet(1..n - 1)
    BY FS_Interval
<1>2. ResultsBefore(s, t, n) \in SUBSET (1..n - 1)
    BY DEF ResultsBefore
<1>3. IsFiniteSet(ResultsBefore(s, t, n))
    BY <1>1, <1>2, FS_Subset
<1> QED
    BY <1>3, FS_CardinalityType DEF Count

LEMMA CountNone ==
    ASSUME NEW s, NEW t
    PROVE  Count(s, t, 1) = 0
<1>1. ResultsBefore(s, t, 1) = {}
    BY DEF ResultsBefore
<1> QED
    BY <1>1, FS_EmptySet DEF Count

LEMMA CountAgrees ==
    ASSUME NEW s, NEW u, NEW t, NEW n \in Nat, \A m \in 1..n - 1 : s[m] = u[m]
    PROVE  Count(s, t, n) = Count(u, t, n)
<1>1. ResultsBefore(s, t, n) = ResultsBefore(u, t, n)
    BY DEF ResultsBefore
<1> QED
    BY <1>1 DEF Count

LEMMA CountNext ==
    ASSUME NEW s, NEW t, NEW n \in Nat \ {0}
    PROVE  Count(s, t, n + 1) = Count(s, t, n) + One(s[n], t)
<1>1. CASE IsResult(s[n], t)
  <2>1. /\ ResultsBefore(s, t, n + 1) = ResultsBefore(s, t, n) \cup {n}
        /\ n \notin ResultsBefore(s, t, n)
      BY <1>1 DEF ResultsBefore, IsResult
  <2>2. Cardinality(ResultsBefore(s, t, n) \cup {n}) = Cardinality(ResultsBefore(s, t, n)) + 1
      BY <2>1, CountType, FS_AddElement
  <2> QED
      BY <1>1, <2>1, <2>2 DEF Count, One
<1>2. CASE ~IsResult(s[n], t)
  <2>1. ResultsBefore(s, t, n + 1) = ResultsBefore(s, t, n)
      BY <1>2 DEF ResultsBefore, IsResult
  <2> QED
      BY <1>2, <2>1, CountType DEF Count, One
<1> QED
    BY <1>1, <1>2

LEMMA CountTail ==
    ASSUME NEW s, NEW u, NEW t, NEW n \in Nat \ {0}, \A m \in 1..n - 1 : u[m] = s[m + 1]
    PROVE  Count(s, t, n + 1) = One(s[1], t) + Count(u, t, n)
<1> DEFINE A == ResultsBefore(u, t, n)
           B == ResultsBefore(s, t, n + 1) \ {1}
           next == [m \in A |-> m + 1]
<1>1. \A m : m \in A <=> m \in 1..n - 1 /\ IsResult(u[m], t)
    BY DEF ResultsBefore, IsResult
<1>2. \A m : m \in B <=> m \in 2..n /\ IsResult(s[m], t)
    BY DEF ResultsBefore, IsResult
<1> HIDE DEF A, B
<1>3. next \in Bijection(A, B)
  <2>1. \A m \in A : next[m] = m + 1 /\ m + 1 \in B
      BY <1>1, <1>2
  <2>2. next \in Injection(A, B)
      BY <1>1, <2>1 DEF Injection, IsInjective
  <2>3. \A k \in B : k - 1 \in A /\ next[k - 1] = k
    <3>1. \A k \in B : k \in 2..n /\ k - 1 \in 1..n - 1 /\ k - 1 + 1 = k
        BY <1>2
    <3>2. \A k \in B : u[k - 1] = s[k] /\ IsResult(s[k], t)
        BY <1>2, <3>1
    <3> QED
        BY <1>1, <3>1, <3>2
  <2>4. next \in Surjection(A, B)
      BY <2>1, <2>3 DEF Surjection
  <2> QED
      BY <2>2, <2>4 DEF Bijection
<1>4. IsFiniteSet(A) /\ Cardinality(A) = Count(u, t, n) /\ Count(u, t, n) \in Nat
    BY CountType DEF A, Count
<1>5. Cardinality(B) = Count(u, t, n)
    BY <1>3, <1>4, FS_Bijection DEF ExistsBijection
<1>6. IsFiniteSet(ResultsBefore(s, t, n + 1)) /\ Count(s, t, n + 1) \in Nat
    BY CountType
<1>7. Cardinality(B) = IF 1 \in ResultsBefore(s, t, n + 1) THEN Count(s, t, n + 1) - 1
                       ELSE Count(s, t, n + 1)
    BY <1>6, FS_RemoveElement DEF B, Count
<1>8. 1 \in ResultsBefore(s, t, n + 1) <=> IsResult(s[1], t)
    BY DEF ResultsBefore, IsResult
<1> QED
    BY <1>4, <1>5, <1>6, <1>7, <1>8 DEF One

\* The statistics and the reply and notice that a thread may have to say.
LEMMA SaidStep ==
    ASSUME Types, [Next]_vars, ~ReceivesReply, ~ReceivesNotice
    PROVE  \/ toWeb' = toWeb
           \/ ~up' /\ \E n \in 0..Len(toWeb) : toWeb' = SubSeq(toWeb, 1, n)
           \/ \E f \in Frames, says \in Says :
                 /\ up /\ toWeb' = Append(toWeb, Reply(f, says))
                 /\ says = "answer" => turnAt[f.req[2]] = "ended"
           \/ \E x \in Notices :
                 /\ up /\ toWeb' = Append(toWeb, x)
                 /\ x.kind = "result" => ToolResult(x.turn)
                 /\ x.kind = "end" => /\ turnAt[x.turn] \in AtWork
                                      /\ x.count = feed[SessionOf[x.turn]]
<1> DEFINE Says1(f, says) == /\ up /\ toWeb' = Append(toWeb, Reply(f, says))
                             /\ says = "answer" => turnAt[f.req[2]] = "ended"
           Tells(x) == /\ up /\ toWeb' = Append(toWeb, x)
                       /\ x.kind = "result" => ToolResult(x.turn)
                       /\ x.kind = "end" => /\ turnAt[x.turn] \in AtWork
                                            /\ x.count = feed[SessionOf[x.turn]]
           Goal == \/ toWeb' = toWeb
                   \/ ~up' /\ \E n \in 0..Len(toWeb) : toWeb' = SubSeq(toWeb, 1, n)
                   \/ \E f \in Frames, says \in Says : Says1(f, says)
                   \/ \E x \in Notices : Tells(x)
<1>1. CASE DispatchesAnswer \/ DispatchesTurn
  <2>1. Head(toKernel) \in Frames
      BY <1>1, DispatchedType DEF DispatchesAnswer, DispatchesTurn, NextFrameIs, Dispatched
  <2>2. \/ toWeb' = toWeb \/ Returned(Head(toKernel), "ok") \/ Returned(Head(toKernel), "refused")
      BY <1>1 DEF DispatchesAnswer, DispatchesTurn
  <2> QED
      BY <2>1, <2>2 DEF Returned, Says
<1>2. ASSUME NEW f \in busy, Returns(f) PROVE Goal
  <2>1. f \in Frames
      BY DEF Types, KernelTypes
  <2>2. \/ Returned(f, "answer") /\ turnAt[f.req[2]] = "ended"
        \/ Returned(f, "stopped")
      BY <1>2 DEF Returns
  <2> QED
      BY <2>1, <2>2 DEF Returned, Says
<1>3. ASSUME NEW t \in Turns, Works(t) PROVE Goal
  <2>1. feed[SessionOf[t]] \in Nat
      BY RequestParts DEF Types, KernelTypes
  <2>2. /\ Notice("result", t, 0) \in Notices /\ Notice("approval", t, 0) \in Notices
        /\ EndNotice(t) \in Notices
      BY <2>1 DEF EndNotice, Notice, Notices
  <2>3. CASE ToolResult(t)
    <3>1. Notifies(Notice("result", t, 0))
        BY <2>3 DEF ToolResult
    <3>2. /\ Notice("result", t, 0).kind = "result" /\ Notice("result", t, 0).turn = t
        BY DEF Notice
    <3> QED
        BY <2>2, <2>3, <3>1, <3>2 DEF Notifies
  <2>4. CASE NeedsApproval(t)
    <3>1. Notifies(Notice("approval", t, 0)) /\ Notice("approval", t, 0).kind = "approval"
        BY <2>4 DEF NeedsApproval, Notice
    <3> QED
        BY <2>2, <3>1 DEF Notifies
  <2>5. CASE GoesOn(t) \/ Stops(t)
      BY <2>5 DEF GoesOn, Stops, wire
  <2>6. CASE Ends(t)
    <3>1. Notifies(EndNotice(t)) /\ turnAt[t] \in AtWork
        BY <2>6 DEF Ends, MayGoOn, AtWork
    <3>2. /\ EndNotice(t).kind = "end" /\ EndNotice(t).turn = t
          /\ EndNotice(t).count = feed[SessionOf[t]]
        BY DEF EndNotice, Notice
    <3> QED
        BY <2>2, <3>1, <3>2 DEF Notifies
  <2> QED
      BY <1>3, <2>3, <2>4, <2>5, <2>6 DEF Works
<1>4. CASE Drops
    BY <1>4 DEF Drops
<1>5. ASSUME ~Drops, ~DispatchesAnswer, ~DispatchesTurn,
             \A f \in busy : ~Returns(f), \A t \in Turns : ~Works(t)
      PROVE  toWeb' = toWeb
    BY <1>5 DEF Next, Asks, Bridge, TakesLock, Sends, SendFails, Answers, Expires, Leaves,
       CleansUp, Pump, Broadcasts, PumpEnds, vars, wire
<1> QED
    BY <1>1, <1>2, <1>3, <1>4, <1>5

LEMMA CountAppend ==
    ASSUME NEW S, NEW s \in Seq(S), NEW x \in S, NEW t
    PROVE  /\ Count(Append(s, x), t, Len(Append(s, x)) + 1) = Count(s, t, Len(s) + 1) + One(x, t)
           /\ \A n \in 1..Len(s) + 1 : Count(Append(s, x), t, n) = Count(s, t, n)
<1>1. /\ Len(Append(s, x)) = Len(s) + 1 /\ Len(s) \in Nat
      /\ \A k \in 1..Len(s) : Append(s, x)[k] = s[k]
      /\ Append(s, x)[Len(s) + 1] = x
    BY Appended
<1>2. ASSUME NEW n \in 1..Len(s) + 1
      PROVE  Count(Append(s, x), t, n) = Count(s, t, n)
  <2>1. n \in Nat /\ \A m \in 1..n - 1 : Append(s, x)[m] = s[m]
      BY <1>1
  <2> QED
      BY <2>1, CountAgrees
<1>3. Count(Append(s, x), t, Len(s) + 1 + 1) = Count(Append(s, x), t, Len(s) + 1) + One(x, t)
  <2>1. Len(s) + 1 \in Nat \ {0}
      BY <1>1
  <2> QED
      BY <1>1, <2>1, CountNext
<1> QED
    BY <1>1, <1>2, <1>3

--------------------------------------------------------------------------------
(* What a step does to what is told: nothing, or one reply or notice moves on *)

LEMMA ListenStep ==
    ASSUME Types, AllListen, [Next]_vars
    PROVE  AllListen' /\ online' \subseteq online
<1>1. CASE \E b \in Browsers : Leaves(b) \/ CleansUp(b)
    BY <1>1 DEF Leaves, CleansUp, browsers, web, AllListen
<1>2. CASE Broadcasts
    BY <1>2 DEF Broadcasts, AllListen
<1>3. ASSUME \A b \in Browsers : ~Leaves(b) /\ ~CleansUp(b), ~Broadcasts
      PROVE  online' = online /\ listeners' = listeners
    BY <1>3 DEF Next, Asks, Bridge, TakesLock, Sends, SendFails, Answers, Expires, Pump,
       ReceivesReply, ReceivesNotice, PumpEnds, Drops, DispatchesAnswer,
       DispatchesTurn, Works, ToolResult, NeedsApproval, GoesOn, Ends, Stops, Returns,
       vars, browsers, web
<1> QED
    BY <1>1, <1>2, <1>3 DEF AllListen

\* The pump takes a notice for everybody, tells this browser, or has nothing for it.
LEMMA PumpStep ==
    ASSUME Types, AllListen, [Next]_vars, NEW b \in online'
    PROVE  \/ /\ ReceivesNotice /\ ~ToTell(b) /\ ToTell(b)'
              /\ pump'.frame = Head(toWeb) /\ seen'[b] = seen[b]
           \/ /\ ~ReceivesNotice /\ ToTell(b) /\ ~ToTell(b)'
              /\ seen'[b] = Append(seen[b], pump.frame)
           \/ /\ ~ReceivesNotice /\ (ToTell(b)' <=> ToTell(b))
              /\ ToTell(b) => pump'.frame = pump.frame
              /\ \/ seen'[b] = seen[b]
                 \/ \E r \in Requests : /\ Answers(r) /\ b = Owner(r)
                                        /\ seen'[b] = Append(seen[b], Shown(r, got[r]))
<1>0. b \in online /\ b \in listeners /\ b \in Browsers
    BY ListenStep DEF AllListen, Types, WebTypes
<1>1. \A f, l : [frame |-> f, to |-> l] \notin {None, <<"ended">>}
    BY DEF None
<1>2. CASE ReceivesNotice
  <2>1. pump = None /\ pump' = [frame |-> Head(toWeb), to |-> listeners] /\ seen' = seen
      BY <1>0, <1>2 DEF ReceivesNotice, browsers
  <2>2. Telling'
      BY <1>1, <2>1 DEF Telling
  <2> QED
      BY <1>0, <1>2, <2>1, <2>2 DEF ToTell, Telling
<1>3. CASE Broadcasts
  <2>1. PICK c \in pump.to :
           /\ IF c \in online
              THEN seen' = [seen EXCEPT ![c] = Append(seen[c], pump.frame)]
              ELSE seen' = seen
           /\ pump' = IF pump.to = {c} THEN None ELSE [pump EXCEPT !.to = pump.to \ {c}]
      BY <1>3 DEF Broadcasts
  <2>2. Telling /\ pump \in [frame : Notices, to : SUBSET Browsers] /\ ~ReceivesNotice
      BY <1>3 DEF Broadcasts, ReceivesNotice, Telling, Types, WebTypes
  <2>3. pump.to # {c} => /\ pump' = [frame |-> pump.frame, to |-> pump.to \ {c}]
                         /\ Telling'
    <3>1. [pump EXCEPT !.to = pump.to \ {c}] = [frame |-> pump.frame, to |-> pump.to \ {c}]
        BY <2>2
    <3> QED
        BY <1>1, <2>1, <3>1 DEF Telling
  <2>4. pump.to = {c} => ~Telling'
      BY <2>1 DEF Telling
  <2>5. CASE c = b
    <3>1. seen'[b] = Append(seen[b], pump.frame)
        BY <1>0, <2>1, <2>5 DEF Types, WebTypes
    <3> QED
        BY <2>1, <2>2, <2>3, <2>4, <2>5, <3>1 DEF ToTell
  <2>6. CASE c # b
    <3>1. seen'[b] = seen[b]
        BY <1>0, <2>1, <2>6 DEF Types, WebTypes
    <3> QED
        BY <2>1, <2>2, <2>3, <2>4, <2>6, <3>1 DEF ToTell
  <2> QED
      BY <2>5, <2>6
<1>4. CASE PumpEnds
    BY <1>4 DEF PumpEnds, ReceivesNotice, ToTell, Telling, browsers
<1>5. CASE ~ReceivesNotice /\ ~Broadcasts /\ ~PumpEnds
  <2>1. pump' = pump
      BY <1>5 DEF Next, Asks, Bridge, TakesLock, Sends, SendFails, Answers, Expires, Leaves,
         CleansUp, Pump, ReceivesReply, Drops, DispatchesAnswer, DispatchesTurn, Works,
         ToolResult, NeedsApproval, GoesOn, Ends, Stops, Returns, vars, web
  <2>2. ToTell(b)' <=> ToTell(b)
      BY <2>1 DEF ToTell, Telling
  <2> QED
      BY <1>0, <1>5, <2>1, <2>2, SeenStep
<1> QED
    BY <1>2, <1>3, <1>4, <1>5

\* What a browser has seen stays where it is.
LEMMA SeenStays ==
    ASSUME Types, [Next]_vars, NEW b \in Browsers
    PROVE  /\ \A n \in DOMAIN seen[b] : n \in DOMAIN seen'[b] /\ seen'[b][n] = seen[b][n]
           /\ \A kind, t : Saw(b, kind, t) => Saw(b, kind, t)'
<1> DEFINE S == ShownReplies \cup Notices
<1>1. seen[b] \in Seq(S)
    BY DEF Types, WebTypes
<1>2. seen'[b] = seen[b] \/ \E x \in S : seen'[b] = Append(seen[b], x)
  <2>1. ASSUME NEW r \in Requests, Answers(r)
        PROVE  Shown(r, got[r]) \in S
      BY <2>1 DEF Answers, Shown, ShownReplies, Outcomes, Types, WebTypes
  <2>2. Broadcasts => pump.frame \in S
      BY DEF Broadcasts, Types, WebTypes, Telling
  <2> QED
      BY <2>1, <2>2, SeenStep
<1> HIDE DEF S
<1>3. \A n \in DOMAIN seen[b] : n \in DOMAIN seen'[b] /\ seen'[b][n] = seen[b][n]
  <2>1. ASSUME NEW x \in S, seen'[b] = Append(seen[b], x)
        PROVE  \A n \in DOMAIN seen[b] : n \in DOMAIN seen'[b] /\ seen'[b][n] = seen[b][n]
      BY <1>1, <2>1, Appended
  <2> QED
      BY <1>2, <2>1
<1> QED
    BY <1>3 DEF Saw

LEMMA TellingStep ==
    ASSUME Types, AllListen, [Next]_vars, NEW b \in online', NEW t \in Turns
    PROVE  /\ Behind(b, t) => Behind(b, t)'
           /\ ReceivesNotice /\ IsEnd(Head(toWeb), t) => Behind(b, t)'
           /\ ~ReceivesNotice => Told(b, t)' = Told(b, t)
           /\ ReceivesNotice => Told(b, t)' = Told(b, t) + One(Head(toWeb), t)
<1> DEFINE S == ShownReplies \cup Notices
           N == Count(seen[b], t, Len(seen[b]) + 1)
<1>0. b \in online /\ b \in Browsers /\ b \in online'
    BY ListenStep DEF AllListen, Types, WebTypes
<1>1. seen[b] \in Seq(S) /\ Len(seen[b]) \in Nat /\ N \in Nat
  <2>1. seen[b] \in Seq(S) /\ Len(seen[b]) \in Nat
      BY <1>0, LenProperties DEF Types, WebTypes
  <2> QED
      BY <2>1, CountType
<1>2. Saw(b, "end", t) => Saw(b, "end", t)'
    BY <1>0, SeenStays
<1>3. ASSUME ToTell(b) PROVE pump.frame \in S /\ pump.frame \in Notices
    BY <1>3 DEF ToTell, Types, WebTypes
<1>4. \A x : One(x, t) \in Nat
    BY DEF One
<1>5. CASE /\ ReceivesNotice /\ ~ToTell(b) /\ ToTell(b)'
           /\ pump'.frame = Head(toWeb) /\ seen'[b] = seen[b]
  <2>1. Behind(b, t) => Behind(b, t)'
      BY <1>2, <1>5 DEF Behind
  <2>2. IsEnd(Head(toWeb), t) => Behind(b, t)'
      BY <1>5 DEF Behind, IsEnd
  <2>3. Told(b, t)' = N + One(Head(toWeb), t) /\ Told(b, t) = N + 0
      BY <1>5 DEF Told
  <2> QED
      BY <1>1, <1>4, <1>5, <2>1, <2>2, <2>3
<1>6. CASE /\ ~ReceivesNotice /\ ToTell(b) /\ ~ToTell(b)'
           /\ seen'[b] = Append(seen[b], pump.frame)
  <2>1. seen'[b][Len(seen[b]) + 1] = pump.frame /\ Len(seen[b]) + 1 \in DOMAIN seen'[b]
      BY <1>1, <1>3, <1>6, Appended
  <2>2. IsEnd(pump.frame, t) => Saw(b, "end", t)'
      BY <2>1 DEF IsEnd, Saw
  <2>3. Count(seen'[b], t, Len(seen'[b]) + 1) = N + One(pump.frame, t)
      BY <1>1, <1>3, <1>6, CountAppend
  <2>4. Told(b, t)' = N + One(pump.frame, t) + 0 /\ Told(b, t) = N + One(pump.frame, t)
      BY <1>6, <2>3 DEF Told
  <2> QED
      BY <1>1, <1>2, <1>4, <1>6, <2>2, <2>4 DEF Behind
<1>7. CASE /\ ~ReceivesNotice /\ (ToTell(b)' <=> ToTell(b))
           /\ ToTell(b) => pump'.frame = pump.frame
           /\ \/ seen'[b] = seen[b]
              \/ \E r \in Requests : /\ Answers(r) /\ b = Owner(r)
                                     /\ seen'[b] = Append(seen[b], Shown(r, got[r]))
  <2>1. Count(seen'[b], t, Len(seen'[b]) + 1) = N
    <3>1. ASSUME NEW r \in Requests, Answers(r), seen'[b] = Append(seen[b], Shown(r, got[r]))
          PROVE  Count(seen'[b], t, Len(seen'[b]) + 1) = N
      <4>1. Shown(r, got[r]) \in S
          BY <3>1 DEF Answers, Shown, ShownReplies, Outcomes, Types, WebTypes
      <4>2. One(Shown(r, got[r]), t) = 0
          BY DEF Shown, One, IsResult
      <4> QED
          BY <1>1, <3>1, <4>1, <4>2, CountAppend
    <3> QED
        BY <1>7, <3>1
  <2>2. Told(b, t)' = Told(b, t)
      BY <1>7, <2>1 DEF Told
  <2>3. Behind(b, t) => Behind(b, t)'
      BY <1>2, <1>7 DEF Behind, IsEnd
  <2> QED
      BY <1>7, <2>2, <2>3
<1> QED
    BY <1>0, <1>5, <1>6, <1>7, PumpStep

\* The queue moves up a place when the pump takes its head.
LEMMA ShiftStep ==
    ASSUME Types, AllListen, [Next]_vars, ReceivesReply \/ ReceivesNotice
    PROVE  /\ toWeb # <<>> /\ toWeb' = Tail(toWeb) /\ Len(toWeb) \in Nat \ {0}
           /\ DOMAIN toWeb = 1..Len(toWeb) /\ DOMAIN toWeb' = 1..Len(toWeb) - 1
           /\ Len(toWeb') = Len(toWeb) - 1
           /\ \A k \in 1..Len(toWeb) - 1 : toWeb'[k] = toWeb[k + 1]
           /\ UNCHANGED <<up, kernel, online, seen>>
           /\ \A b \in online', t \in Turns :
                 /\ Told(b, t)' = Told(b, t) + One(toWeb[1], t)
                 /\ \A p \in 1..Len(toWeb) :
                       /\ EndKnown(b, t, p + 1) => EndKnown(b, t, p)'
                       /\ WillKnow(b, t, p)' = WillKnow(b, t, p + 1)
<1>1. toWeb # <<>> /\ toWeb' = Tail(toWeb) /\ UNCHANGED <<up, kernel, online, seen>>
    BY DEF ReceivesReply, ReceivesNotice, browsers
<1>2. /\ DOMAIN toWeb = 1..Len(toWeb) /\ DOMAIN toWeb' = 1..Len(toWeb) - 1
      /\ \A k \in 1..Len(toWeb) - 1 : toWeb'[k] = toWeb[k + 1]
      /\ Head(toWeb) = toWeb[1] /\ Len(toWeb) \in Nat \ {0}
      /\ Len(toWeb') = Len(toWeb) - 1
    BY <1>1, Shortened DEF Types, KernelTypes
<1>3. ASSUME NEW b \in online', NEW t \in Turns
      PROVE  /\ Told(b, t)' = Told(b, t) + One(toWeb[1], t)
             /\ Behind(b, t) \/ IsEnd(toWeb[1], t) => Behind(b, t)'
             /\ Told(b, t) \in Nat
  <2>1. Told(b, t) \in Nat
    <3>1. b \in Browsers
        BY ListenStep DEF AllListen, Types, WebTypes
    <3>2. seen[b] \in Seq(ShownReplies \cup Notices)
        BY <3>1 DEF Types, WebTypes
    <3>3. Len(seen[b]) + 1 \in Nat
        BY <3>2, LenProperties
    <3> QED
        BY <3>3, CountType DEF Told, One
  <2>2. CASE ReceivesNotice
      BY <1>2, <2>1, <2>2, TellingStep
  <2>3. CASE ~ReceivesNotice
    <3>1. ~IsEnd(toWeb[1], t) /\ One(toWeb[1], t) = 0
        BY <1>2, <2>3 DEF ReceivesReply, IsEnd, One, IsResult
    <3> QED
        BY <2>1, <2>3, <3>1, TellingStep
  <2> QED
      BY <2>2, <2>3
<1>4. ASSUME NEW b \in online', NEW t \in Turns, NEW p \in 1..Len(toWeb)
      PROVE  /\ EndKnown(b, t, p + 1) => EndKnown(b, t, p)'
             /\ WillKnow(b, t, p)' = WillKnow(b, t, p + 1)
  <2>1. ASSUME NEW j \in 1..p + 1 - 1, IsEnd(toWeb[j], t)
        PROVE  EndKnown(b, t, p)'
    <3>1. CASE j = 1
        BY <1>3, <2>1, <3>1 DEF EndKnown
    <3>2. CASE j # 1
      <4>1. j - 1 \in 1..p - 1 /\ toWeb'[j - 1] = toWeb[j]
          BY <1>2, <3>2
      <4>2. IsEnd(toWeb'[j - 1], t)
          BY <2>1, <4>1
      <4> QED
          BY <4>1, <4>2 DEF EndKnown, IsEnd
    <3> QED
        BY <3>1, <3>2
  <2>2. EndKnown(b, t, p + 1) => EndKnown(b, t, p)'
      BY <1>3, <2>1 DEF EndKnown
  <2>3. Count(toWeb, t, p + 1) = One(toWeb[1], t) + Count(toWeb', t, p)
    <3>1. p \in Nat \ {0} /\ \A m \in 1..p - 1 : toWeb'[m] = toWeb[m + 1]
        BY <1>2
    <3> QED
        BY <3>1, CountTail
  <2>4. Count(toWeb', t, p) \in Nat /\ One(toWeb[1], t) \in Nat
      BY CountType DEF One
  <2>5. WillKnow(b, t, p)' = Told(b, t)' + Count(toWeb', t, p)
      BY DEF WillKnow
  <2>6. WillKnow(b, t, p + 1) = Told(b, t) + Count(toWeb, t, p + 1)
      BY DEF WillKnow
  <2> QED
      BY <1>3, <2>2, <2>3, <2>4, <2>5, <2>6
<1> QED
    BY <1>1, <1>2, <1>3, <1>4

\* Else its places stay, it may be cut off, and a thread may put something behind it.
LEMMA StayStep ==
    ASSUME Types, AllListen, [Next]_vars, ~ReceivesReply, ~ReceivesNotice
    PROVE  /\ DOMAIN toWeb = 1..Len(toWeb) /\ DOMAIN toWeb' = 1..Len(toWeb')
           /\ Len(toWeb) \in Nat /\ Len(toWeb') \in Nat
           /\ \A k \in DOMAIN toWeb \cap DOMAIN toWeb' : toWeb'[k] = toWeb[k]
           /\ \/ toWeb' = toWeb
              \/ ~up' /\ Len(toWeb') <= Len(toWeb)
              \/ /\ up /\ Len(toWeb') = Len(toWeb) + 1
                 /\ \/ \E f \in Frames, says \in Says :
                          /\ toWeb'[Len(toWeb) + 1] = Reply(f, says)
                          /\ says = "answer" => turnAt[f.req[2]] = "ended"
                    \/ \E x \in Notices :
                          /\ toWeb'[Len(toWeb) + 1] = x
                          /\ x.kind = "result" => ToolResult(x.turn)
                          /\ x.kind = "end" => /\ turnAt[x.turn] \in AtWork
                                               /\ x.count = feed[SessionOf[x.turn]]
<1> DEFINE S == ReplyFrames \cup Notices
           New(x) == /\ up /\ toWeb' = Append(toWeb, x)
                     /\ \/ \E f \in Frames, says \in Says :
                              /\ x = Reply(f, says)
                              /\ says = "answer" => turnAt[f.req[2]] = "ended"
                        \/ /\ x \in Notices
                           /\ x.kind = "result" => ToolResult(x.turn)
                           /\ x.kind = "end" => /\ turnAt[x.turn] \in AtWork
                                                /\ x.count = feed[SessionOf[x.turn]]
<1>1. toWeb \in Seq(S) /\ toWeb' \in Seq(S)
    BY TypesStep DEF Types, KernelTypes
<1>2. /\ DOMAIN toWeb = 1..Len(toWeb) /\ DOMAIN toWeb' = 1..Len(toWeb')
      /\ Len(toWeb) \in Nat /\ Len(toWeb') \in Nat
    BY <1>1, LenProperties
<1>3. \/ toWeb' = toWeb
      \/ ~up' /\ \E n \in 0..Len(toWeb) : toWeb' = SubSeq(toWeb, 1, n)
      \/ \E x \in S : New(x)
  <2>1. \A f \in Frames, says \in Says : Reply(f, says) \in S
      BY DEF Reply, ReplyFrames, Frames
  <2> QED
      BY <2>1, SaidStep
<1>4. ASSUME NEW n \in 0..Len(toWeb), toWeb' = SubSeq(toWeb, 1, n)
      PROVE  /\ \A k \in DOMAIN toWeb \cap DOMAIN toWeb' : toWeb'[k] = toWeb[k]
             /\ Len(toWeb') <= Len(toWeb)
    BY <1>1, <1>2, <1>4, PrefixType
<1>5. ASSUME NEW x \in S, New(x)
      PROVE  /\ \A k \in DOMAIN toWeb \cap DOMAIN toWeb' : toWeb'[k] = toWeb[k]
             /\ Len(toWeb') = Len(toWeb) + 1 /\ toWeb'[Len(toWeb) + 1] = x
  <2> HIDE DEF S
  <2>1. toWeb' = Append(toWeb, x)
      BY <1>5
  <2> QED
      BY <1>1, <1>2, <2>1, Appended
<1> QED
    BY <1>2, <1>3, <1>4, <1>5, ZenonT(40)

LEMMA StayPlace ==
    ASSUME Types, AllListen, [Next]_vars, ~ReceivesReply, ~ReceivesNotice,
           NEW b \in online', NEW t \in Turns
    PROVE  /\ Told(b, t)' = Told(b, t)
           /\ \A p \in 1..Len(toWeb) + 1 : p <= Len(toWeb') + 1 =>
                 /\ EndKnown(b, t, p) => EndKnown(b, t, p)'
                 /\ WillKnow(b, t, p)' = WillKnow(b, t, p)
<1>1. Told(b, t)' = Told(b, t) /\ (Behind(b, t) => Behind(b, t)')
    BY TellingStep
<1>2. ASSUME NEW p \in 1..Len(toWeb) + 1, p <= Len(toWeb') + 1
      PROVE  /\ EndKnown(b, t, p) => EndKnown(b, t, p)'
             /\ WillKnow(b, t, p)' = WillKnow(b, t, p)
  <2>1. p \in Nat /\ \A m \in 1..p - 1 : toWeb[m] = toWeb'[m]
      BY <1>2, StayStep
  <2>2. Count(toWeb, t, p) = Count(toWeb', t, p)
      BY <2>1, CountAgrees
  <2>3. WillKnow(b, t, p)' = WillKnow(b, t, p)
      BY <1>1, <2>2 DEF WillKnow
  <2>4. EndKnown(b, t, p) => EndKnown(b, t, p)'
      BY <1>1, <2>1 DEF EndKnown, IsEnd
  <2> QED
      BY <2>3, <2>4
<1> QED
    BY <1>1, <1>2

--------------------------------------------------------------------------------
(* The answer comes after the end *)

LEMMA AnswerInit == Init => AnswerInv
<1> SUFFICES ASSUME Init PROVE AnswerInv
    OBVIOUS
<1>1. \A b \in Browsers : DOMAIN seen[b] = {}
    BY DEF Init
<1>2. DOMAIN toWeb = {}
    BY DEF Init
<1> QED
    BY <1>1, <1>2 DEF Init, AnswerInv, AllListen, AnswerQueued, EndedIsTold, AnswerHanded,
                      AnswerSeen

LEMMA AnswerQueuedStep ==
    ASSUME Types, AnswerInv, [Next]_vars
    PROVE  AnswerQueued'
<1> SUFFICES ASSUME NEW k \in DOMAIN toWeb', NEW t \in Turns, IsAnswer(toWeb'[k], t),
                    NEW b \in online'
             PROVE  EndKnown(b, t, k)'
    BY DEF AnswerQueued, IsAnswer
<1>0. b \in online /\ AllListen
    BY ListenStep DEF AnswerInv
<1>1. CASE ReceivesReply \/ ReceivesNotice
  <2>1. k + 1 \in DOMAIN toWeb /\ toWeb'[k] = toWeb[k + 1] /\ k \in 1..Len(toWeb)
      BY <1>0, <1>1, ShiftStep
  <2>2. EndKnown(b, t, k + 1)
      BY <1>0, <2>1 DEF AnswerInv, AnswerQueued
  <2> QED
      BY <1>0, <1>1, <2>1, <2>2, ShiftStep
<1>2. CASE ~ReceivesReply /\ ~ReceivesNotice
  <2>1. /\ DOMAIN toWeb = 1..Len(toWeb) /\ DOMAIN toWeb' = 1..Len(toWeb')
        /\ Len(toWeb) \in Nat /\ Len(toWeb') \in Nat
        /\ Len(toWeb') <= Len(toWeb) + 1
      BY <1>0, <1>2, StayStep
  <2>2. k \in 1..Len(toWeb) + 1 /\ k <= Len(toWeb') + 1
      BY <2>1
  <2>3. EndKnown(b, t, k)
    <3>1. CASE k \in DOMAIN toWeb
      <4>1. toWeb'[k] = toWeb[k]
          BY <1>0, <1>2, <3>1, StayStep
      <4> QED
          BY <1>0, <3>1, <4>1 DEF AnswerInv, AnswerQueued
    <3>2. CASE k \notin DOMAIN toWeb
      <4>1. k = Len(toWeb) + 1
          BY <2>1, <2>2, <3>2
      <4>2. \A x \in Notices : ~IsAnswer(x, t)
          BY DEF Notices, IsAnswer
      <4>3. toWeb' # toWeb /\ ~(Len(toWeb') <= Len(toWeb))
          BY <2>1, <3>2
      <4>4. up /\ \E f \in Frames, says \in Says :
                     /\ toWeb'[Len(toWeb) + 1] = Reply(f, says)
                     /\ says = "answer" => turnAt[f.req[2]] = "ended"
          BY <1>0, <1>2, <4>1, <4>2, <4>3, StayStep
      <4>5. turnAt[t] = "ended"
          BY <4>1, <4>4 DEF Reply, IsAnswer
      <4> QED
          BY <1>0, <4>1, <4>4, <4>5 DEF AnswerInv, EndedIsTold
    <3> QED
        BY <3>1, <3>2
  <2> QED
      BY <1>0, <1>2, <2>2, <2>3, StayPlace
<1> QED
    BY <1>1, <1>2

\* No turn ends but by a notice of it.
LEMMA EndingStep ==
    ASSUME Types, [Next]_vars, NEW t \in Turns, turnAt[t] # "ended", turnAt'[t] = "ended"
    PROVE  Ends(t)
<1>1. ASSUME NEW u \in Turns, Works(u), ~Ends(t) PROVE FALSE
  <2>1. CASE ToolResult(u) \/ Stops(u)
      BY <2>1 DEF ToolResult, Stops
  <2>2. ASSUME NEW at \in {"asks", "proceeds"}, turnAt' = [turnAt EXCEPT ![u] = at] PROVE FALSE
      BY <2>2 DEF Types, KernelTypes
  <2>3. CASE Ends(u)
      BY <1>1, <2>3 DEF Ends, Types, KernelTypes
  <2> QED
      BY <1>1, <2>1, <2>2, <2>3 DEF Works, NeedsApproval, GoesOn
<1>2. ~DispatchesTurn
    BY DEF DispatchesTurn, Types, KernelTypes
<1>3. ASSUME ~DispatchesTurn, \A u \in Turns : ~Works(u)
      PROVE  turnAt' = turnAt
    BY <1>3 DEF Next, Asks, Bridge, TakesLock, Sends, SendFails, Answers, Expires, Leaves,
       CleansUp, Pump, ReceivesReply, ReceivesNotice, Broadcasts, PumpEnds, Drops,
       DispatchesAnswer, Returns, vars, kernel
<1> QED
    BY <1>1, <1>2, <1>3

\* A closed connection stays closed.
LEMMA UpStep == ASSUME [Next]_vars PROVE up' => up
BY DEF Next, Asks, Bridge, TakesLock, Sends, SendFails, Answers, Expires, Leaves, CleansUp,
   Pump, ReceivesReply, ReceivesNotice, Broadcasts, PumpEnds, Drops, DispatchesAnswer,
   DispatchesTurn, Works, ToolResult, NeedsApproval, GoesOn, Ends, Stops, Returns,
   vars, wire

LEMMA EndedIsToldStep ==
    ASSUME Types, AnswerInv, [Next]_vars
    PROVE  EndedIsTold'
<1> SUFFICES ASSUME up', NEW t \in Turns, turnAt'[t] = "ended", NEW b \in online',
                    NEW p, p = Len(toWeb') + 1
             PROVE  EndKnown(b, t, p)'
    BY DEF EndedIsTold
<1>0. b \in online /\ AllListen /\ up
    BY ListenStep, UpStep DEF AnswerInv
<1>1. CASE ReceivesReply \/ ReceivesNotice
  <2>1. turnAt[t] = "ended" /\ p = Len(toWeb) /\ p \in 1..Len(toWeb) /\ p + 1 = Len(toWeb) + 1
      BY <1>0, <1>1, ShiftStep DEF kernel
  <2>2. EndKnown(b, t, p + 1)
      BY <1>0, <2>1 DEF AnswerInv, EndedIsTold
  <2> QED
      BY <1>0, <1>1, <2>1, <2>2, ShiftStep
<1>2. CASE ~ReceivesReply /\ ~ReceivesNotice /\ turnAt[t] = "ended"
  <2> DEFINE q == Len(toWeb) + 1
  <2>1. Len(toWeb) \in Nat /\ Len(toWeb') \in {Len(toWeb), Len(toWeb) + 1}
      BY <1>0, <1>2, StayStep
  <2>2. EndKnown(b, t, q)
      BY <1>0, <1>2 DEF AnswerInv, EndedIsTold
  <2>3. PICK k : k = q
      OBVIOUS
  <2>4. EndKnown(b, t, k)'
      BY <1>0, <1>2, <2>1, <2>2, <2>3, StayPlace
  <2>5. \A j \in 1..k - 1 : j \in 1..p - 1
      BY <2>1, <2>3
  <2> QED
      BY <2>4, <2>5 DEF EndKnown
<1>3. CASE turnAt[t] # "ended"
  <2>1. Ends(t)
      BY <1>3, EndingStep
  <2>2. toWeb' = Append(toWeb, EndNotice(t)) /\ EndNotice(t) \in ReplyFrames \cup Notices
    <3>1. feed[SessionOf[t]] \in Nat
        BY RequestParts DEF Types, KernelTypes
    <3> QED
        BY <1>0, <2>1, <3>1 DEF Ends, Notifies, EndNotice, Notice, Notices
  <2>3. /\ Len(toWeb') = Len(toWeb) + 1 /\ Len(toWeb) \in Nat
        /\ toWeb'[Len(toWeb) + 1] = EndNotice(t)
      BY <2>2, Appended DEF Types, KernelTypes
  <2>4. p - 1 \in 1..p - 1 /\ toWeb'[p - 1] = EndNotice(t)
      BY <2>3
  <2>5. IsEnd(toWeb'[p - 1], t)
      BY <2>4 DEF IsEnd, EndNotice, Notice
  <2> QED
      BY <2>4, <2>5 DEF EndKnown, IsEnd
<1> QED
    BY <1>1, <1>2, <1>3

LEMMA AnswerHandedStep ==
    ASSUME Types, AnswerInv, [Next]_vars
    PROVE  AnswerHanded'
<1> SUFFICES ASSUME NEW r \in Requests, NEW t \in Turns, task'[r] = "answering",
                    got'[r].says = "answer", got'[r].req[2] = t, NEW b \in online'
             PROVE  Saw(b, "end", t)'
    BY DEF AnswerHanded
<1>0. b \in online /\ AllListen /\ b \in Browsers
    BY ListenStep DEF AnswerInv, Types, WebTypes
<1>1. CASE task'[r] = task[r] /\ got'[r] = got[r]
  <2>1. Saw(b, "end", t)
      BY <1>0, <1>1 DEF AnswerInv, AnswerHanded
  <2> QED
      BY <1>0, <2>1, SeenStays
<1>2. CASE got'[r] = Failure(r)
    BY <1>2 DEF Failure
<1>3. CASE ReceivesReply /\ got'[r] = [req |-> Head(toWeb).req, says |-> Head(toWeb).says]
  <2>1. /\ pump = None /\ 1 \in DOMAIN toWeb /\ Head(toWeb) = toWeb[1]
        /\ toWeb[1].kind = "reply" /\ toWeb[1].says = "answer" /\ toWeb[1].req[2] = t
      BY <1>3, Shortened DEF ReceivesReply, Types, KernelTypes
  <2>2. EndKnown(b, t, 1)
      BY <1>0, <2>1 DEF AnswerInv, AnswerQueued, IsAnswer
  <2>3. Saw(b, "end", t)
      BY <2>1, <2>2 DEF EndKnown, Behind, ToTell, Telling
  <2> QED
      BY <1>0, <2>3, SeenStays
<1> QED
    BY <1>1, <1>2, <1>3, TaskStep

LEMMA AnswerSeenStep ==
    ASSUME Types, AnswerInv, [Next]_vars
    PROVE  AnswerSeen'
<1> SUFFICES ASSUME NEW b \in Browsers, NEW n \in DOMAIN seen'[b], NEW t \in Turns,
                    IsAnswer(seen'[b][n], t)
             PROVE  \E m \in 1..n - 1 : IsEnd(seen'[b][m], t)
    BY DEF AnswerSeen, IsEnd, IsAnswer
<1>1. /\ seen[b] \in Seq(ShownReplies \cup Notices) /\ DOMAIN seen[b] = 1..Len(seen[b])
      /\ Len(seen[b]) \in Nat
      /\ \A m \in DOMAIN seen[b] : seen'[b][m] = seen[b][m]
    BY SeenStays, LenProperties DEF Types, WebTypes
<1>2. CASE n \in DOMAIN seen[b]
  <2>1. PICK m \in 1..n - 1 : IsEnd(seen[b][m], t)
      BY <1>1, <1>2 DEF AnswerInv, AnswerSeen
  <2>2. m \in DOMAIN seen[b]
      BY <1>1, <1>2
  <2> QED
      BY <1>1, <1>2, <2>1, <2>2
<1>3. ASSUME n \notin DOMAIN seen[b], NEW r \in Requests, Answers(r), b = Owner(r), b \in online,
             seen'[b] = Append(seen[b], Shown(r, got[r]))
      PROVE  \E m \in 1..n - 1 : IsEnd(seen'[b][m], t)
  <2>1. Shown(r, got[r]) \in ShownReplies \cup Notices
      BY <1>3 DEF Answers, Shown, ShownReplies, Outcomes, Types, WebTypes
  <2>2. n = Len(seen[b]) + 1 /\ seen'[b][n] = Shown(r, got[r])
    <3>1. /\ DOMAIN seen'[b] = 1..Len(seen[b]) + 1
          /\ seen'[b][Len(seen[b]) + 1] = Shown(r, got[r])
        BY <1>1, <1>3, <2>1, Appended
    <3> QED
        BY <1>1, <1>3, <3>1
  <2>3. got[r].says = "answer" /\ got[r].req[2] = t
      BY <2>2 DEF Shown, IsAnswer
  <2>4. Saw(b, "end", t)
      BY <1>3, <2>3 DEF Answers, AnswerInv, AnswerHanded
  <2>5. PICK m \in DOMAIN seen[b] : IsEnd(seen[b][m], t)
      BY <2>4 DEF Saw, IsEnd
  <2>6. m \in 1..n - 1 /\ seen'[b][m] = seen[b][m]
      BY <1>1, <2>2
  <2> QED
      BY <2>5, <2>6
<1>4. ASSUME n \notin DOMAIN seen[b], Broadcasts, seen'[b] = Append(seen[b], pump.frame)
      PROVE  FALSE
  <2>1. pump.frame \in Notices
      BY <1>4 DEF Broadcasts, Types, WebTypes, Telling
  <2>2. /\ DOMAIN seen'[b] = 1..Len(seen[b]) + 1
        /\ seen'[b][Len(seen[b]) + 1] = pump.frame
    <3>1. pump.frame \in ShownReplies \cup Notices
        BY <2>1
    <3> QED
        BY <1>1, <1>4, <3>1, Appended
  <2>3. seen'[b][n] = pump.frame
      BY <1>1, <1>4, <2>2
  <2> QED
      BY <2>1, <2>3 DEF Notices, IsAnswer
<1> QED
    BY <1>2, <1>3, <1>4, SeenStep

LEMMA AnswerStep == Types /\ AnswerInv /\ [Next]_vars => AnswerInv'
BY ListenStep, AnswerQueuedStep, EndedIsToldStep, AnswerHandedStep, AnswerSeenStep
   DEF AnswerInv

--------------------------------------------------------------------------------
(* The statistics count what has come before *)

LEMMA CountInit == Init => CountInv
<1> SUFFICES ASSUME Init PROVE CountInv
    OBVIOUS
<1>1. /\ \A b \in Browsers : seen[b] = <<>> /\ DOMAIN seen[b] = {} /\ Len(seen[b]) + 1 = 1
      /\ DOMAIN toWeb = {} /\ DOMAIN toKernel = {} /\ busy = {} /\ ~Telling
      /\ \A t \in Turns : turnAt[t] = "no" /\ online = Browsers
    BY DEF Init, Telling
<1>2. \A b \in online, t \in Turns : Told(b, t) = 0
    BY <1>1, CountNone DEF Told, ToTell
<1> QED
    BY <1>1, <1>2
       DEF CountInv, SentOnce, OneAtATime, NothingYet, FeedCounts, EndQueued, EndNext,
           EndSeen, AtWork, ToTell

\* A turn starts with the frame that is the next one, its session being idle.
StartsTurn(t) ==
    /\ toKernel # <<>> /\ Head(toKernel).req = <<"send", t>> /\ toKernel' = Tail(toKernel)
    /\ ~Running(SessionOf[t]) /\ busy' = busy \cup {Head(toKernel)}
    /\ turnAt' = [turnAt EXCEPT ![t] = "works"]
    /\ feed' = [feed EXCEPT ![SessionOf[t]] = 0] /\ UNCHANGED <<toWeb, stopped>>

LEMMA StartStep ==
    ASSUME Types, DispatchesTurn
    PROVE  UNCHANGED <<busy, turnAt, feed>> \/ \E t \in Turns : StartsTurn(t)
<1> DEFINE f == Head(toKernel)
           t == f.req[2]
<1>1. toKernel # <<>> /\ f \in Frames /\ f.req[1] = "send"
    BY Shortened DEF DispatchesTurn, NextFrameIs, Types, KernelTypes
<1>2. t \in Turns /\ f.req = <<"send", t>>
    BY <1>1, RequestParts DEF Frames
<1> QED
    BY <1>1, <1>2 DEF DispatchesTurn, NewStatistics, StartsTurn

LEMMA TurnStep ==
    ASSUME Types, [Next]_vars, NEW t \in Turns
    PROVE  \/ turnAt'[t] = turnAt[t]
           \/ StartsTurn(t)
           \/ turnAt[t] \in AtWork /\ turnAt'[t] \in AtWork \cup {"ended"}
<1>1. ASSUME NEW u \in Turns, Works(u)
      PROVE  \/ turnAt'[t] = turnAt[t]
             \/ turnAt[t] \in AtWork /\ turnAt'[t] \in AtWork \cup {"ended"}
  <2>1. \/ turnAt' = turnAt
        \/ /\ turnAt[u] \in AtWork
           /\ \E at \in AtWork \cup {"ended"} : turnAt' = [turnAt EXCEPT ![u] = at]
      BY <1>1 DEF Works, ToolResult, NeedsApproval, GoesOn, Ends, Stops, MayGoOn, AtWork
  <2> QED
      BY <2>1 DEF Types, KernelTypes
<1>2. CASE DispatchesTurn
    BY <1>2, StartStep DEF StartsTurn, Types, KernelTypes
<1>3. ASSUME ~DispatchesTurn, \A u \in Turns : ~Works(u)
      PROVE  turnAt' = turnAt
    BY <1>3 DEF Next, Asks, Bridge, TakesLock, Sends, SendFails, Answers, Expires, Leaves,
       CleansUp, Pump, ReceivesReply, ReceivesNotice, Broadcasts, PumpEnds, Drops,
       DispatchesAnswer, Returns, vars, kernel
<1> QED
    BY <1>1, <1>2, <1>3

LEMMA SentOnceStep ==
    ASSUME Types, SentOnce, [Next]_vars
    PROVE  SentOnce'
<1>1. Unsent' \subseteq Unsent
    BY TaskStep DEF Unsent
<1>2. \A t \in Turns : turnAt[t] = "no" => turnAt'[t] = "no" \/ StartsTurn(t)
    BY TurnStep DEF AtWork
<1>3. toKernel \in Seq(Frames) /\ \A k \in DOMAIN toKernel : toKernel[k].req \in Requests
  <2>1. toKernel \in Seq(Frames)
      BY DEF Types, KernelTypes
  <2>2. \A k \in DOMAIN toKernel : toKernel[k] \in Frames
      BY <2>1, LenProperties, ElementOfSeq
  <2> QED
      BY <2>1, <2>2 DEF Frames
<1>4. \A t \in Turns : StartsTurn(t) =>
          /\ 1 \in DOMAIN toKernel /\ toKernel[1].req = <<"send", t>>
          /\ \A k \in DOMAIN toKernel' :
                k + 1 \in DOMAIN toKernel /\ toKernel'[k] = toKernel[k + 1] /\ k + 1 # 1
    BY <1>3, Shortened DEF StartsTurn
<1>5. \A t \in Turns : <<"send", t>> \in Unsent' => turnAt'[t] = "no"
  <2>1. \A t \in Turns : <<"send", t>> \in Requests
      BY DEF Requests
  <2> QED
      BY <1>1, <1>2, <1>4, <2>1 DEF SentOnce
<1>6. ASSUME NEW d \in {0, 1},
             \A k \in DOMAIN toKernel' : k + d \in DOMAIN toKernel /\ toKernel'[k] = toKernel[k + d],
             DOMAIN toKernel' \subseteq Nat, (\E t \in Turns : StartsTurn(t)) => d = 1
      PROVE  SentOnce'
  <2>1. \A k \in DOMAIN toKernel' : toKernel'[k].req \notin Unsent'
      BY <1>1, <1>3, <1>6 DEF SentOnce, Unsent
  <2>2. \A j, k \in DOMAIN toKernel' : toKernel'[j].req = toKernel'[k].req => j = k
      BY <1>6 DEF SentOnce
  <2>3. ASSUME NEW k \in DOMAIN toKernel', NEW t \in Turns, toKernel'[k].req = <<"send", t>>
        PROVE  turnAt'[t] = "no"
    <3>1. turnAt[t] = "no"
        BY <1>6, <2>3 DEF SentOnce
    <3>2. ~StartsTurn(t)
        BY <1>4, <1>6, <2>3 DEF SentOnce
    <3> QED
        BY <1>2, <3>1, <3>2
  <2> QED
      BY <1>5, <2>1, <2>2, <2>3 DEF SentOnce, Unsent
<1>7. CASE \E t \in Turns : StartsTurn(t)
  <2>1. DOMAIN toKernel' \subseteq Nat
    <3>1. toKernel # <<>> /\ toKernel' = Tail(toKernel)
        BY <1>7 DEF StartsTurn
    <3>2. DOMAIN toKernel' = 1..Len(toKernel) - 1
        BY <1>3, <3>1, Shortened
    <3> QED
        BY <3>2
  <2> QED
      BY <1>4, <1>6, <1>7, <2>1
<1>8. CASE ~\E t \in Turns : StartsTurn(t)
  <2>1. CASE toKernel' = toKernel
    <3>1. DOMAIN toKernel' \subseteq Nat /\ \A k \in DOMAIN toKernel : k + 0 = k
        BY <1>3, <2>1, LenProperties
    <3> QED
        BY <1>6, <1>8, <2>1, <3>1
  <2>2. CASE toKernel # <<>> /\ toKernel' = Tail(toKernel)
    <3>1. /\ DOMAIN toKernel' \subseteq Nat
          /\ \A k \in DOMAIN toKernel' :
                k + 1 \in DOMAIN toKernel /\ toKernel'[k] = toKernel[k + 1]
        BY <1>3, <2>2, Shortened
    <3> QED
        BY <1>6, <3>1
  <2>3. ASSUME NEW n \in 0..Len(toKernel), toKernel' = SubSeq(toKernel, 1, n)
        PROVE  SentOnce'
    <3>1. /\ toKernel' \in Seq(Frames) /\ Len(toKernel') = n
          /\ \A i \in 1..n : toKernel'[i] = toKernel[i]
        BY <1>3, <2>3, PrefixType
    <3>2. DOMAIN toKernel' = 1..n /\ DOMAIN toKernel = 1..Len(toKernel) /\ Len(toKernel) \in Nat
        BY <1>3, <3>1, LenProperties
    <3>3. /\ DOMAIN toKernel' \subseteq Nat
          /\ \A k \in DOMAIN toKernel' :
                k + 0 \in DOMAIN toKernel /\ toKernel'[k] = toKernel[k + 0]
        BY <3>1, <3>2
    <3> QED
        BY <1>6, <1>8, <3>3
  <2>4. ASSUME NEW r \in Requests, task[r] = "sending", task'[r] # "sending",
               toKernel' = Append(toKernel, Frame(ident[r], r))
        PROVE  SentOnce'
    <3>1. Frame(ident[r], r) \in Frames /\ Frame(ident[r], r).req = r
        BY DEF Frame, Frames, Types, WebTypes
    <3>2. /\ DOMAIN toKernel' = 1..Len(toKernel) + 1 /\ DOMAIN toKernel = 1..Len(toKernel)
          /\ Len(toKernel) \in Nat
          /\ \A k \in 1..Len(toKernel) : toKernel'[k] = toKernel[k]
          /\ toKernel'[Len(toKernel) + 1].req = r
        BY <1>3, <2>4, <3>1, Appended
    <3>3. \A k \in DOMAIN toKernel' : \/ k \in DOMAIN toKernel /\ toKernel'[k] = toKernel[k]
                                      \/ k = Len(toKernel) + 1 /\ toKernel'[k].req = r
        BY <3>2
    <3>4. r \in Unsent /\ r \notin Unsent'
        BY <2>4, TaskStep DEF Unsent
    <3>5. \A k \in DOMAIN toKernel : toKernel[k].req # r /\ toKernel[k].req \notin Unsent'
        BY <1>1, <1>3, <3>4 DEF SentOnce
    <3>6. \A k \in DOMAIN toKernel' : toKernel'[k].req \notin Unsent'
        BY <3>3, <3>4, <3>5 DEF Unsent
    <3>7. \A j, k \in DOMAIN toKernel' : toKernel'[j].req = toKernel'[k].req => j = k
        BY <3>3, <3>5 DEF SentOnce
    <3>8. ASSUME NEW k \in DOMAIN toKernel', NEW t \in Turns, toKernel'[k].req = <<"send", t>>
          PROVE  turnAt'[t] = "no"
      <4>1. turnAt[t] = "no"
          BY <3>3, <3>4, <3>8, ZenonT(40) DEF SentOnce
      <4> QED
          BY <1>2, <1>8, <4>1
    <3> QED
        BY <1>5, <3>6, <3>7, <3>8 DEF SentOnce, Unsent
  <2> QED
      BY <2>1, <2>2, <2>3, <2>4, ToKernelStep
<1> QED
    BY <1>7, <1>8

\* A stop is not taken back, so what is clean has been clean.
LEMMA CleanStep ==
    ASSUME Types, [Next]_vars, NEW t \in Turns
    PROVE  /\ stopped \subseteq stopped' /\ (Clean(t)' => Clean(t))
           /\ Clean(t) => t \notin stopped
<1>1. stopped \subseteq stopped'
    BY DEF Next, Asks, Bridge, TakesLock, Sends, SendFails, Answers, Expires, Leaves,
           CleansUp, Pump, ReceivesReply, ReceivesNotice, Broadcasts, PumpEnds, Drops,
           DispatchesAnswer, DispatchesTurn, Works, ToolResult, NeedsApproval, GoesOn, Ends,
           Stops, Returns, vars, kernel
<1> QED
    BY <1>1 DEF Clean

LEMMA OneAtATimeStep ==
    ASSUME Types, OneAtATime, [Next]_vars
    PROVE  OneAtATime'
<1>1. \/ \E t \in Turns : StartsTurn(t)
      \/ busy' = busy
      \/ \E f \in busy : Returns(f)
  <2>1. CASE DispatchesTurn
      BY <2>1, StartStep
  <2>2. ASSUME ~DispatchesTurn, \A f \in busy : ~Returns(f)
        PROVE  busy' = busy
      BY <2>2 DEF Next, Asks, Bridge, TakesLock, Sends, SendFails, Answers, Expires, Leaves,
         CleansUp, Pump, ReceivesReply, ReceivesNotice, Broadcasts, PumpEnds, Drops,
         DispatchesAnswer, Works, ToolResult, NeedsApproval, GoesOn, Ends, Stops, vars, kernel
  <2> QED
      BY <2>1, <2>2
<1>2. ASSUME NEW t \in Turns, turnAt'[t] \in AtWork, t \notin stopped', ~StartsTurn(t)
      PROVE  turnAt[t] \in AtWork /\ t \notin stopped /\ \E f \in busy : f.req[2] = t
  <2>1. turnAt[t] \in AtWork
      BY <1>2, TurnStep
  <2>2. t \notin stopped
      BY <1>2, CleanStep
  <2> QED
      BY <2>1, <2>2 DEF OneAtATime
<1>3. ASSUME NEW u \in Turns, StartsTurn(u) PROVE OneAtATime'
  <2>1. /\ busy' = busy \cup {Head(toKernel)} /\ Head(toKernel).req[2] = u
        /\ \A f \in busy : SessionOf[f.req[2]] # SessionOf[u]
      BY <1>3 DEF StartsTurn, Running
  <2>2. \A t \in Turns : StartsTurn(t) => t = u
      BY <1>3 DEF StartsTurn
  <2> QED
      BY <1>2, <2>1, <2>2 DEF OneAtATime
<1>4. CASE ~(\E t \in Turns : StartsTurn(t)) /\ busy' = busy
    BY <1>2, <1>4 DEF OneAtATime
<1>5. ASSUME ~(\E t \in Turns : StartsTurn(t)), NEW f \in busy, Returns(f) PROVE OneAtATime'
  <2>1. busy' = busy \ {f} /\ (turnAt[f.req[2]] = "ended" \/ f.req[2] \in stopped)
      BY <1>5 DEF Returns
  <2> QED
      BY <1>2, <1>5, <2>1 DEF OneAtATime, AtWork
<1> QED
    BY <1>1, <1>3, <1>4, <1>5

\* What is behind the last place of the queue when somebody has put something there.
LEMMA LastPlace ==
    ASSUME Types, AllListen, [Next]_vars, ~ReceivesReply, ~ReceivesNotice, up',
           NEW b \in online', NEW t \in Turns, NEW p, p = Len(toWeb) + 1,
           NEW q, q = Len(toWeb') + 1
    PROVE  \/ toWeb' = toWeb /\ q = p /\ WillKnow(b, t, q)' = WillKnow(b, t, p)
           \/ /\ q = p + 1
              /\ WillKnow(b, t, q)' = WillKnow(b, t, p) + One(toWeb'[Len(toWeb) + 1], t)
<1>1. Len(toWeb) \in Nat /\ p \in Nat \ {0} /\ (toWeb' = toWeb \/ Len(toWeb') = Len(toWeb) + 1)
    BY StayStep
<1>2. WillKnow(b, t, p)' = WillKnow(b, t, p)
    BY <1>1, StayPlace
<1>3. CASE toWeb' = toWeb
    BY <1>2, <1>3
<1>4. CASE Len(toWeb') = Len(toWeb) + 1
  <2>1. q = p + 1
      BY <1>1, <1>4
  <2>2. Count(toWeb', t, q) = Count(toWeb', t, p) + One(toWeb'[p], t)
      BY <1>1, <2>1, CountNext
  <2>3. WillKnow(b, t, q)' = Told(b, t)' + (Count(toWeb', t, p) + One(toWeb'[p], t))
      BY <2>2 DEF WillKnow
  <2>4. WillKnow(b, t, p)' = Told(b, t)' + Count(toWeb', t, p)
      BY DEF WillKnow
  <2>5. Told(b, t)' \in Nat /\ Count(toWeb', t, p) \in Nat /\ One(toWeb'[p], t) \in Nat
    <3>1. b \in Browsers
        BY ListenStep DEF AllListen, Types, WebTypes
    <3>2. seen'[b] \in Seq(ShownReplies \cup Notices)
        BY <3>1, TypesStep DEF Types, WebTypes
    <3>3. Len(seen'[b]) + 1 \in Nat
        BY <3>2, LenProperties
    <3>4. Count(seen'[b], t, Len(seen'[b]) + 1) \in Nat
        BY <3>3, CountType
    <3> QED
        BY <1>1, <3>4, CountType DEF Told, One
  <2> QED
      BY <1>2, <2>1, <2>3, <2>4, <2>5
<1> QED
    BY <1>1, <1>3, <1>4

LEMMA NothingYetStep ==
    ASSUME Types, AllListen, NothingYet, [Next]_vars
    PROVE  NothingYet'
<1> SUFFICES ASSUME NEW t \in Turns, turnAt'[t] = "no"
             PROVE  /\ \A k \in DOMAIN toWeb' : ~IsResult(toWeb'[k], t)
                    /\ \A b \in online' : Told(b, t)' = 0
    BY DEF NothingYet, IsResult
<1>0. turnAt[t] = "no"
    BY TurnStep DEF StartsTurn, AtWork, Types, KernelTypes
<1>1. /\ \A k \in DOMAIN toWeb : ~IsResult(toWeb[k], t)
      /\ \A b \in online : Told(b, t) = 0
      /\ online' \subseteq online
    BY <1>0, ListenStep DEF NothingYet
<1>2. CASE ReceivesReply \/ ReceivesNotice
  <2>1. /\ \A k \in DOMAIN toWeb' : k + 1 \in DOMAIN toWeb /\ toWeb'[k] = toWeb[k + 1]
        /\ 1 \in DOMAIN toWeb
        /\ \A b \in online' : Told(b, t)' = Told(b, t) + One(toWeb[1], t)
      BY <1>2, ShiftStep
  <2>2. One(toWeb[1], t) = 0
      BY <1>1, <2>1 DEF One
  <2> QED
      BY <1>1, <2>1, <2>2
<1>3. CASE ~ReceivesReply /\ ~ReceivesNotice
  <2>1. \A b \in online' : Told(b, t)' = Told(b, t)
      BY <1>3, StayPlace
  <2>2. ASSUME NEW k \in DOMAIN toWeb' PROVE ~IsResult(toWeb'[k], t)
    <3>1. CASE k \in DOMAIN toWeb
      <4>1. toWeb'[k] = toWeb[k]
          BY <1>3, <3>1, StayStep
      <4> QED
          BY <1>1, <3>1, <4>1
    <3>2. CASE k \notin DOMAIN toWeb
      <4>1. /\ DOMAIN toWeb = 1..Len(toWeb) /\ DOMAIN toWeb' = 1..Len(toWeb')
            /\ Len(toWeb) \in Nat /\ Len(toWeb') \in Nat /\ Len(toWeb') <= Len(toWeb) + 1
          BY <1>3, StayStep
      <4>2. k = Len(toWeb) + 1 /\ toWeb' # toWeb /\ ~(Len(toWeb') <= Len(toWeb))
          BY <3>2, <4>1
      <4>3. \/ \E f \in Frames, says \in Says : toWeb'[k] = Reply(f, says)
            \/ toWeb'[k].kind = "result" => ToolResult(toWeb'[k].turn)
          BY <1>3, <4>2, StayStep
      <4>4. \A f, says : ~IsResult(Reply(f, says), t)
          BY DEF Reply, IsResult
      <4>5. ~ToolResult(t)
          BY <1>0 DEF ToolResult, MayGoOn
      <4> QED
          BY <4>3, <4>4, <4>5 DEF IsResult
    <3> QED
        BY <3>1, <3>2
  <2> QED
      BY <1>1, <2>1, <2>2
<1> QED
    BY <1>2, <1>3

LEMMA FeedCountsStep ==
    ASSUME Types, AllListen, SentOnce, OneAtATime, NothingYet, FeedCounts, [Next]_vars
    PROVE  FeedCounts'
<1> SUFFICES ASSUME up', NEW t \in Turns, turnAt'[t] \in AtWork, Clean(t)',
                    NEW b \in online', NEW q, q = Len(toWeb') + 1
             PROVE  feed'[SessionOf[t]] = WillKnow(b, t, q)'
    BY DEF FeedCounts
<1>0. up /\ Clean(t) /\ t \notin stopped /\ b \in online /\ SessionOf[t] \in Sessions
    BY UpStep, CleanStep, ListenStep, RequestParts
<1>1. PICK p : p = Len(toWeb) + 1
    OBVIOUS
<1>2. turnAt[t] \in AtWork => feed[SessionOf[t]] = WillKnow(b, t, p)
    BY <1>0, <1>1 DEF FeedCounts
<1>3. \A u \in Turns : turnAt[t] \in AtWork /\ turnAt[u] \in AtWork
                       /\ SessionOf[u] = SessionOf[t] => u = t
  <2>1. \A u \in Turns : SessionOf[u] = SessionOf[t] => u \notin stopped
      BY <1>0 DEF Clean
  <2> QED
      BY <1>0, <2>1 DEF OneAtATime
<1>4. CASE ReceivesReply \/ ReceivesNotice
  <2>1. /\ turnAt[t] \in AtWork /\ feed' = feed /\ q \in 1..Len(toWeb) /\ p = q + 1
    <3>1. UNCHANGED kernel /\ Len(toWeb') = Len(toWeb) - 1 /\ Len(toWeb) \in Nat \ {0}
        BY <1>4, ShiftStep
    <3> QED
        BY <1>1, <3>1 DEF kernel
  <2>2. WillKnow(b, t, q)' = WillKnow(b, t, q + 1)
      BY <1>4, <2>1, ShiftStep
  <2> QED
      BY <1>2, <2>1, <2>2
<1>5. ASSUME ~ReceivesReply, ~ReceivesNotice, NEW u \in Turns, StartsTurn(u)
      PROVE  feed'[SessionOf[t]] = WillKnow(b, t, q)'
  <2>1. WillKnow(b, t, q)' = WillKnow(b, t, p)
    <3>1. toWeb' = toWeb /\ q = p /\ Len(toWeb) \in Nat
        BY <1>1, <1>5, StayStep DEF StartsTurn
    <3> QED
        BY <1>1, <1>5, <3>1, StayPlace
  <2>2. CASE u = t
    <3>1. turnAt[t] = "no"
      <4>1. 1 \in DOMAIN toKernel /\ toKernel[1].req = <<"send", t>>
          BY <1>5, <2>2, Shortened DEF StartsTurn, Types, KernelTypes
      <4> QED
          BY <4>1 DEF SentOnce
    <3>2. Told(b, t) = 0 /\ \A k \in DOMAIN toWeb : ~IsResult(toWeb[k], t)
        BY <1>0, <3>1 DEF NothingYet
    <3>3. Count(toWeb, t, p) = 0
      <4>1. p - 1 = Len(toWeb) /\ DOMAIN toWeb = 1..Len(toWeb)
          BY <1>1, <1>5, StayStep
      <4>2. ResultsBefore(toWeb, t, p) = {}
          BY <3>2, <4>1 DEF ResultsBefore, IsResult
      <4> QED
          BY <4>2, FS_EmptySet DEF Count
    <3>4. WillKnow(b, t, p) = 0
        BY <3>2, <3>3 DEF WillKnow
    <3>5. feed'[SessionOf[t]] = 0
        BY <1>0, <1>5, <2>2 DEF StartsTurn, Types, KernelTypes
    <3> QED
        BY <2>1, <3>4, <3>5
  <2>3. CASE u # t
    <3>1. turnAt[t] \in AtWork
        BY <1>5, <2>3 DEF StartsTurn, Types, KernelTypes
    <3>2. SessionOf[t] # SessionOf[u]
        BY <1>0, <1>5, <3>1 DEF OneAtATime, StartsTurn, Running
    <3>3. feed'[SessionOf[t]] = feed[SessionOf[t]]
        BY <1>5, <3>2 DEF StartsTurn, Types, KernelTypes
    <3> QED
        BY <1>2, <2>1, <3>1, <3>3
  <2> QED
      BY <2>2, <2>3
<1>6. CASE ~ReceivesReply /\ ~ReceivesNotice /\ \A u \in Turns : ~StartsTurn(u)
  <2>1. turnAt[t] \in AtWork
      BY <1>6, TurnStep
  <2>2. ASSUME NEW u \in Turns, ToolResult(u)
        PROVE  feed'[SessionOf[t]] = WillKnow(b, t, q)'
    <3>1. toWeb' = Append(toWeb, Notice("result", u, 0))
        BY <1>0, <2>2 DEF ToolResult, Notifies
    <3>2. Notice("result", u, 0) \in ReplyFrames \cup Notices
        BY DEF Notice, Notices
    <3>3. /\ toWeb'[Len(toWeb) + 1] = Notice("result", u, 0) /\ Len(toWeb) \in Nat
          /\ Len(toWeb') = Len(toWeb) + 1
        BY <3>1, <3>2, Appended DEF Types, KernelTypes
    <3>4. toWeb' # toWeb
        BY <3>3
    <3>5. WillKnow(b, t, q)' = WillKnow(b, t, p) + One(toWeb'[Len(toWeb) + 1], t)
        BY <1>1, <1>6, <3>4, LastPlace
    <3>6. One(toWeb'[Len(toWeb) + 1], t) = IF u = t THEN 1 ELSE 0
        BY <3>3 DEF One, IsResult, Notice
    <3>7. SessionOf[u] = SessionOf[t] => u = t
        BY <1>3, <2>1, <2>2 DEF ToolResult, MayGoOn, AtWork
    <3>8. feed'[SessionOf[t]] = feed[SessionOf[t]] + (IF u = t THEN 1 ELSE 0)
        BY <1>0, <2>2, <3>7 DEF ToolResult, Types, KernelTypes
    <3> QED
        BY <1>2, <2>1, <3>5, <3>6, <3>8
  <2>3. CASE \A u \in Turns : ~ToolResult(u)
    <3>1. feed' = feed
      <4>1. CASE DispatchesTurn
          BY <1>6, <4>1, StartStep
      <4>2. CASE ~DispatchesTurn
          BY <2>3, <4>2
             DEF Next, Asks, Bridge, TakesLock, Sends, SendFails, Answers, Expires, Leaves,
                 CleansUp, Pump, ReceivesReply, ReceivesNotice, Broadcasts, PumpEnds, Drops,
                 DispatchesAnswer, Works, NeedsApproval, GoesOn, Ends, Stops, Returns, vars,
                 kernel
      <4> QED
          BY <4>1, <4>2
    <3>2. CASE toWeb' = toWeb
      <4>1. WillKnow(b, t, q)' = WillKnow(b, t, p)
        <5>1. q = p /\ Len(toWeb) \in Nat
            BY <1>1, <1>6, <3>2, StayStep
        <5> QED
            BY <1>1, <1>6, <3>2, <5>1, StayPlace
      <4> QED
          BY <1>2, <2>1, <3>1, <4>1
    <3>3. CASE toWeb' # toWeb
      <4>1. \/ \E f \in Frames, says \in Says : toWeb'[Len(toWeb) + 1] = Reply(f, says)
            \/ \E x \in Notices : /\ toWeb'[Len(toWeb) + 1] = x
                                  /\ x.kind = "result" => ToolResult(x.turn)
          BY <1>6, <3>3, StayStep
      <4>2. \A f, says : ~IsResult(Reply(f, says), t)
          BY DEF Reply, IsResult
      <4>3. \A x \in Notices : x.turn \in Turns
          BY DEF Notices
      <4>4. One(toWeb'[Len(toWeb) + 1], t) = 0
          BY <2>3, <4>1, <4>2, <4>3 DEF One, IsResult
      <4>5. WillKnow(b, t, q)' = WillKnow(b, t, p) + 0
          BY <1>1, <1>6, <3>3, <4>4, LastPlace
      <4>6. feed[SessionOf[t]] \in Nat
          BY <1>0 DEF Types, KernelTypes
      <4> QED
          BY <1>2, <2>1, <3>1, <4>5, <4>6
    <3> QED
        BY <3>2, <3>3
  <2> QED
      BY <2>2, <2>3
<1> QED
    BY <1>4, <1>5, <1>6

LEMMA EndQueuedStep ==
    ASSUME Types, AllListen, FeedCounts, EndQueued, [Next]_vars
    PROVE  EndQueued'
<1> SUFFICES ASSUME NEW k \in DOMAIN toWeb', NEW t \in Turns, IsEnd(toWeb'[k], t), Clean(t)',
                    NEW b \in online'
             PROVE  toWeb'[k].count = WillKnow(b, t, k)'
    BY DEF EndQueued, IsEnd
<1>0. Clean(t) /\ b \in online
    BY CleanStep, ListenStep
<1>1. CASE ReceivesReply \/ ReceivesNotice
  <2>1. k + 1 \in DOMAIN toWeb /\ toWeb'[k] = toWeb[k + 1] /\ k \in 1..Len(toWeb)
      BY <1>1, ShiftStep
  <2>2. toWeb[k + 1].count = WillKnow(b, t, k + 1)
      BY <1>0, <2>1 DEF EndQueued
  <2>3. WillKnow(b, t, k)' = WillKnow(b, t, k + 1)
      BY <1>1, <2>1, ShiftStep
  <2> QED
      BY <2>1, <2>2, <2>3
<1>2. CASE ~ReceivesReply /\ ~ReceivesNotice
  <2>1. /\ DOMAIN toWeb = 1..Len(toWeb) /\ DOMAIN toWeb' = 1..Len(toWeb')
        /\ Len(toWeb) \in Nat /\ Len(toWeb') \in Nat /\ Len(toWeb') <= Len(toWeb) + 1
      BY <1>2, StayStep
  <2>2. k \in 1..Len(toWeb) + 1 /\ k <= Len(toWeb') + 1
      BY <2>1
  <2>3. WillKnow(b, t, k)' = WillKnow(b, t, k)
      BY <1>2, <2>2, StayPlace
  <2>4. CASE k \in DOMAIN toWeb
    <3>1. toWeb'[k] = toWeb[k]
        BY <1>2, <2>4, StayStep
    <3> QED
        BY <1>0, <2>3, <2>4, <3>1 DEF EndQueued
  <2>5. CASE k \notin DOMAIN toWeb
    <3>1. k = Len(toWeb) + 1 /\ toWeb' # toWeb /\ ~(Len(toWeb') <= Len(toWeb))
        BY <2>1, <2>5
    <3>2. /\ up
          /\ \/ \E f \in Frames, says \in Says : toWeb'[k] = Reply(f, says)
             \/ toWeb'[k].kind = "end" => /\ turnAt[toWeb'[k].turn] \in AtWork
                                          /\ toWeb'[k].count = feed[SessionOf[toWeb'[k].turn]]
        BY <1>2, <3>1, StayStep
    <3>3. \A f, says : ~IsEnd(Reply(f, says), t)
        BY DEF Reply, IsEnd
    <3>4. turnAt[t] \in AtWork /\ toWeb'[k].count = feed[SessionOf[t]]
        BY <3>2, <3>3 DEF IsEnd
    <3> QED
        BY <1>0, <2>3, <3>1, <3>2, <3>4 DEF FeedCounts
  <2> QED
      BY <2>4, <2>5
<1> QED
    BY <1>1, <1>2

LEMMA EndNextStep ==
    ASSUME Types, AllListen, EndQueued, EndNext, [Next]_vars
    PROVE  EndNext'
<1> SUFFICES ASSUME NEW b \in online', NEW t \in Turns, ToTell(b)', IsEnd(pump'.frame, t),
                    Clean(t)'
             PROVE  pump'.frame.count = Count(seen'[b], t, Len(seen'[b]) + 1)
    BY DEF EndNext, IsEnd
<1>0. Clean(t) /\ b \in online /\ b \in Browsers
    BY CleanStep, ListenStep DEF Types, WebTypes
<1>1. seen[b] \in Seq(ShownReplies \cup Notices) /\ Len(seen[b]) + 1 \in Nat
    BY <1>0, LenProperties DEF Types, WebTypes
<1>2. CASE /\ ReceivesNotice /\ ~ToTell(b) /\ ToTell(b)'
           /\ pump'.frame = Head(toWeb) /\ seen'[b] = seen[b]
  <2>1. 1 \in DOMAIN toWeb /\ Head(toWeb) = toWeb[1]
      BY <1>2, Shortened DEF ReceivesNotice, Types, KernelTypes
  <2>2. toWeb[1].count = WillKnow(b, t, 1)
      BY <1>0, <1>2, <2>1 DEF EndQueued
  <2>3. WillKnow(b, t, 1) = Count(seen[b], t, Len(seen[b]) + 1) + 0 + 0
      BY <1>2, CountNone DEF WillKnow, Told
  <2>4. Count(seen[b], t, Len(seen[b]) + 1) \in Nat
      BY <1>1, CountType
  <2> QED
      BY <1>2, <2>1, <2>2, <2>3, <2>4
<1>3. CASE /\ ToTell(b) /\ pump'.frame = pump.frame
           /\ \/ seen'[b] = seen[b]
              \/ \E r \in Requests : /\ Answers(r) /\ b = Owner(r)
                                     /\ seen'[b] = Append(seen[b], Shown(r, got[r]))
  <2>1. pump.frame.count = Count(seen[b], t, Len(seen[b]) + 1)
      BY <1>0, <1>3 DEF EndNext
  <2>2. ASSUME NEW r \in Requests, Answers(r), seen'[b] = Append(seen[b], Shown(r, got[r]))
        PROVE  Count(seen'[b], t, Len(seen'[b]) + 1) = Count(seen[b], t, Len(seen[b]) + 1)
    <3>1. Shown(r, got[r]) \in ShownReplies \cup Notices
        BY <2>2 DEF Answers, Shown, ShownReplies, Outcomes, Types, WebTypes
    <3>2. One(Shown(r, got[r]), t) = 0
        BY DEF Shown, One, IsResult
    <3>3. Count(seen[b], t, Len(seen[b]) + 1) \in Nat
        BY <1>1, CountType
    <3> QED
        BY <1>1, <2>2, <3>1, <3>2, <3>3, CountAppend
  <2> QED
      BY <1>3, <2>1, <2>2
<1> QED
    BY <1>2, <1>3, PumpStep

LEMMA EndSeenStep ==
    ASSUME Types, EndNext, EndSeen, [Next]_vars
    PROVE  EndSeen'
<1> SUFFICES ASSUME NEW b \in Browsers, NEW n \in DOMAIN seen'[b], NEW t \in Turns,
                    IsEnd(seen'[b][n], t), Clean(t)'
             PROVE  seen'[b][n].count = Count(seen'[b], t, n)
    BY DEF EndSeen, IsEnd
<1>0. Clean(t)
    BY CleanStep
<1>1. /\ seen[b] \in Seq(ShownReplies \cup Notices) /\ DOMAIN seen[b] = 1..Len(seen[b])
      /\ Len(seen[b]) \in Nat
      /\ \A m \in DOMAIN seen[b] : seen'[b][m] = seen[b][m]
    BY SeenStays, LenProperties DEF Types, WebTypes
<1>2. ASSUME NEW k \in 1..Len(seen[b]) + 1
      PROVE  Count(seen'[b], t, k) = Count(seen[b], t, k)
  <2>1. k \in Nat /\ \A m \in 1..k - 1 : seen'[b][m] = seen[b][m]
      BY <1>1
  <2> QED
      BY <2>1, CountAgrees
<1>3. CASE n \in DOMAIN seen[b]
  <2>1. seen[b][n].count = Count(seen[b], t, n) /\ n \in 1..Len(seen[b]) + 1
      BY <1>0, <1>1, <1>3 DEF EndSeen
  <2> QED
      BY <1>1, <1>2, <1>3, <2>1
<1>4. ASSUME n \notin DOMAIN seen[b], NEW r \in Requests, Answers(r),
             seen'[b] = Append(seen[b], Shown(r, got[r]))
      PROVE  FALSE
  <2>1. Shown(r, got[r]) \in ShownReplies \cup Notices
      BY <1>4 DEF Answers, Shown, ShownReplies, Outcomes, Types, WebTypes
  <2>2. /\ DOMAIN seen'[b] = 1..Len(seen[b]) + 1
        /\ seen'[b][Len(seen[b]) + 1] = Shown(r, got[r])
      BY <1>1, <1>4, <2>1, Appended
  <2>3. seen'[b][n] = Shown(r, got[r])
      BY <1>1, <1>4, <2>2
  <2> QED
      BY <2>3 DEF Shown, IsEnd
<1>5. ASSUME n \notin DOMAIN seen[b], Broadcasts, b \in pump.to, b \in online,
             seen'[b] = Append(seen[b], pump.frame)
      PROVE  seen'[b][n].count = Count(seen'[b], t, n)
  <2>1. Telling /\ pump.frame \in ShownReplies \cup Notices
      BY <1>5 DEF Broadcasts, Telling, Types, WebTypes
  <2>2. /\ DOMAIN seen'[b] = 1..Len(seen[b]) + 1
        /\ seen'[b][Len(seen[b]) + 1] = pump.frame
      BY <1>1, <1>5, <2>1, Appended
  <2>3. n = Len(seen[b]) + 1 /\ seen'[b][n] = pump.frame /\ n \in 1..Len(seen[b]) + 1
      BY <1>1, <1>5, <2>2
  <2>4. pump.frame.count = Count(seen[b], t, n)
      BY <1>0, <1>5, <2>1, <2>3 DEF EndNext, ToTell
  <2> QED
      BY <1>2, <2>3, <2>4
<1> QED
    BY <1>3, <1>4, <1>5, SeenStep

LEMMA CountStep == Types /\ AllListen /\ CountInv /\ [Next]_vars => CountInv'
BY SentOnceStep, OneAtATimeStep, NothingYetStep, FeedCountsStep, EndQueuedStep, EndNextStep,
   EndSeenStep DEF CountInv

\* A browser that reads the answer of a turn has been told of its end, and that notice
\* counts the tool results it was told of before, unless a stopped turn of the session
\* may go on, for any browsers, turns, threads and faults (serve.py: _notify, the send
\* queue and the feed's statistics; server.py: pump).
THEOREM StoriesComeInOrder == Spec => []StoryBeforeReply
<1>1. Types /\ AnswerInv /\ CountInv /\ [Next]_vars => Types' /\ AnswerInv' /\ CountInv'
    BY TypesStep, AnswerStep, CountStep DEF AnswerInv
<1>2. Types /\ AnswerInv /\ CountInv => StoryBeforeReply
  <2> SUFFICES ASSUME Types, AnswerInv, CountInv, NEW b \in Browsers, NEW n \in DOMAIN seen[b]
               PROVE  /\ seen[b][n].kind = "reply" /\ seen[b][n].says = "answer" =>
                            NoticesBefore(b, "end", seen[b][n].req[2], n) # {}
                      /\ seen[b][n].kind = "end" /\ Clean(seen[b][n].turn) =>
                            seen[b][n].count =
                            Cardinality(NoticesBefore(b, "result", seen[b][n].turn, n))
      BY DEF StoryBeforeReply, Clean
  <2>1. seen[b][n] \in ShownReplies \cup Notices
    <3>1. seen[b] \in Seq(ShownReplies \cup Notices)
        BY DEF Types, WebTypes
    <3> QED
        BY <3>1, LenProperties, ElementOfSeq
  <2>2. CASE seen[b][n].kind = "reply" /\ seen[b][n].says = "answer"
    <3>1. seen[b][n].req[2] \in Turns
        BY <2>1, <2>2, RequestParts DEF ShownReplies, Notices
    <3>2. \E m \in 1..n - 1 : IsEnd(seen[b][m], seen[b][n].req[2])
        BY <2>2, <3>1 DEF AnswerInv, AnswerSeen, IsAnswer
    <3> QED
        BY <2>2, <3>2 DEF NoticesBefore, IsEnd
  <2>3. CASE seen[b][n].kind = "end" /\ Clean(seen[b][n].turn)
    <3>1. seen[b][n].turn \in Turns
        BY <2>1, <2>3 DEF ShownReplies, Notices
    <3>2. seen[b][n].count = Count(seen[b], seen[b][n].turn, n)
        BY <2>3, <3>1 DEF CountInv, EndSeen, IsEnd
    <3> QED
        BY <2>3, <3>2 DEF Count, ResultsBefore, NoticesBefore
  <2> QED
      BY <2>2, <2>3
<1> QED
    BY TypesInit, AnswerInit, CountInit, <1>1, <1>2, PTL DEF Spec

--------------------------------------------------------------------------------
(* Types and threads *)

\* The threads of the executor are counted: one takes a frame only while one is free.
ThreadsCounted == IsFiniteSet(busy) /\ Cardinality(busy) <= Threads

LEMMA ThreadsStep == ThreadsCounted /\ [Next]_vars => ThreadsCounted'
<1> SUFFICES ASSUME ThreadsCounted, [Next]_vars PROVE ThreadsCounted'
    OBVIOUS
<1>1. Cardinality(busy) \in Nat /\ Threads \in Nat
    BY FS_CardinalityType, BoundsAssumption DEF ThreadsCounted
<1>2. CASE DispatchesTurn
  <2>1. Cardinality(busy) < Threads /\ (busy' = busy \/ \E f : busy' = busy \cup {f})
      BY <1>2 DEF DispatchesTurn, NextFrameIs, ThreadIsFree
  <2>2. CASE busy' = busy
      BY <2>2 DEF ThreadsCounted
  <2>3. ASSUME NEW f, busy' = busy \cup {f} PROVE ThreadsCounted'
    <3>1. /\ IsFiniteSet(busy \cup {f})
          /\ Cardinality(busy \cup {f}) = IF f \in busy THEN Cardinality(busy)
                                          ELSE Cardinality(busy) + 1
        BY FS_AddElement DEF ThreadsCounted
    <3> QED
        BY <2>1, <2>3, <1>1, <3>1 DEF ThreadsCounted
  <2> QED
      BY <2>1, <2>2, <2>3
<1>3. ASSUME NEW f \in busy, Returns(f) PROVE ThreadsCounted'
  <2>1. busy' \subseteq busy
      BY <1>3 DEF Returns
  <2>2. IsFiniteSet(busy') /\ Cardinality(busy') <= Cardinality(busy)
      BY <2>1, FS_Subset DEF ThreadsCounted
  <2>3. Cardinality(busy') \in Nat
      BY <2>2, FS_CardinalityType
  <2> QED
      BY <2>2, <2>3, <1>1 DEF ThreadsCounted
<1>4. ASSUME ~DispatchesTurn, \A f \in busy : ~Returns(f) PROVE busy' = busy
    BY <1>4 DEF Next, Asks, Bridge, TakesLock, Sends, SendFails, Answers, Expires, Leaves,
       CleansUp, Pump, ReceivesReply, ReceivesNotice, Broadcasts, PumpEnds, Drops,
       DispatchesAnswer, Works, ToolResult, NeedsApproval, GoesOn, Ends, Stops, vars, kernel
<1> QED
    BY <1>2, <1>3, <1>4 DEF ThreadsCounted

\* Tasks, numbers and browsers are of their kinds, only requests wait in the table of the
\* bridge, and no more turns are in the executor's hands than it has threads (run_in_executor,
\* serve.py; _pending, server.py).
THEOREM TransportTypeCorrect == Spec => []TypeOK
<1>1. Init => ThreadsCounted
  <2> SUFFICES ASSUME Init PROVE ThreadsCounted
      OBVIOUS
  <2>1. busy = {} /\ Threads \in Nat
      BY BoundsAssumption DEF Init
  <2> QED
      BY <2>1, FS_EmptySet DEF ThreadsCounted
<1>2. Types /\ ThreadsCounted => TypeOK
    BY DEF Types, WebTypes, ThreadsCounted, TypeOK, Range
<1> QED
    BY TypesInit, TypesStep, ThreadsStep, <1>1, <1>2, PTL DEF Spec
================================================================================
