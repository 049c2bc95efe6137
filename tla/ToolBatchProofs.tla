---------------------------- MODULE ToolBatchProofs ----------------------------
(***************************************************************************)
(* Theorems about ToolBatch, for any batches of calls, any files, lists of *)
(* forbidden paths and keywords, any pool size, any limits of programs and *)
(* any number of changes made by someone else.                             *)
(***************************************************************************)
EXTENDS ToolBatch, SequenceTheorems, FiniteSetTheorems, TLAPS

--------------------------------------------------------------------------------
(* The shape of the state *)

Stages == {"decide", "approve", "run", "report", "over"}
Places == {"none", "queued", "open", "fill", "remove", "watch", "measure", "wait", "kill",
           "kill_hog", "list", "done"}
Decisions == {"none", "go", "ask", "block", "denied"}

\* What a call that ran can come to.
Ends == Kinds \ {"none", "denied", "blocked"}

Shape == /\ batch \in Batches /\ guard \in BOOLEAN
         /\ stage \in Stages /\ cursor \in 1..Len(batch) + 1
         /\ decision \in [Calls -> Decisions] /\ at \in [Calls -> Places]
         /\ DOMAIN out = Calls /\ DOMAIN held = Calls
         /\ \A c \in Calls : at[c] = "done" => out[c].kind \in Ends

(* The calls of a batch are numbered. *)
LEMMA HereFacts ==
    ASSUME Shape
    PROVE  Len(batch) \in Nat /\ Here = 1..Len(batch) /\ Here \subseteq Calls
BY BatchAssumption DEF Shape, Here

(* A step of a thread of the pool is about one call, which had begun and not ended. *)
LEMMA PoolFrame ==
    ASSUME Shape, NEW c \in Here, PoolStep(c)
    PROVE  /\ UNCHANGED control
           /\ at[c] \notin {"none", "done"} /\ at'[c] # "none"
           /\ at' \in [Calls -> Places] /\ DOMAIN out' = Calls /\ DOMAIN held' = Calls
           /\ \A d \in Calls \ {c} : /\ at'[d] = at[d] /\ out'[d] = out[d]
                                     /\ held'[d] = held[d]
           /\ at'[c] = "done" => out'[c].kind \in Ends
<1> USE DEF Shape, Places
<1>1. c \in Calls
  BY HereFacts
<1>2. ASSUME NEW kind \in Ends, NEW text, Returns(c, [kind |-> kind, text |-> text])
      PROVE  /\ at'[c] # "none" /\ at' \in [Calls -> Places] /\ DOMAIN out' = Calls
             /\ \A d \in Calls \ {c} : at'[d] = at[d] /\ out'[d] = out[d]
             /\ at'[c] = "done" => out'[c].kind \in Ends
  BY <1>1, <1>2 DEF Returns, Goes
<1>3. ASSUME NEW to \in Places \ {"none", "done"}, Goes(c, to), UNCHANGED out
      PROVE  /\ at'[c] # "none" /\ at' \in [Calls -> Places] /\ DOMAIN out' = Calls
             /\ \A d \in Calls \ {c} : at'[d] = at[d] /\ out'[d] = out[d]
             /\ at'[c] = "done" => out'[c].kind \in Ends
  BY <1>1, <1>3 DEF Goes
<1> USE DEF Ends, Kinds
<1>4. CASE Rejected(c) \/ FindsNone(c) \/ ReadFile(c) \/ TodoRaises(c)
  BY <1>1, <1>2, <1>4
     DEF Rejected, FindsNone, ReadFile, TodoRaises, Accepted, Begins, Result
<1>5. CASE StartWrite(c) \/ StartPatch(c) \/ StartDelete(c)
  BY <1>1, <1>2, <1>3, <1>5
     DEF StartWrite, StartPatch, StartDelete, Accepted, Begins, Result
<1>6. CASE StartProgram(c) \/ StartTodo(c)
  BY <1>1, <1>2, <1>3, <1>6 DEF StartProgram, StartTodo, Accepted, Begins, Result
<1>7. CASE ListTodos(c) \/ Open(c) \/ Fill(c) \/ WriteFails(c) \/ DeleteFile(c)
  BY <1>1, <1>2, <1>3, <1>7 DEF ListTodos, Open, Fill, WriteFails, DeleteFile, Result
<1>8. CASE Watch(c)
  BY <1>1, <1>2, <1>3, <1>8 DEF Watch, Stays, Result
<1>9. CASE Wait(c)
  BY <1>1, <1>2, <1>3, <1>9 DEF Wait, Stays, Result
<1>10. CASE Kill(c)
  BY <1>1, <1>2, <1>10 DEF Kill, Stays, Result
<1> QED BY <1>4, <1>5, <1>6, <1>7, <1>8, <1>9, <1>10 DEF PoolStep

--------------------------------------------------------------------------------
(* The agent's thread: what is decided, started and reported *)

\* The stages in which the decisions stand.
After == {"run", "report", "over"}
Told == {"report", "over"}

AgentOK == allowed # Tools => allowed \cap ProcessTools = {}

\* A red line is blocked when it is looked at, what is not allowed at the latest when
\* its turn has come in the second stage.
Blocked == /\ guard => \A c \in Here : RedLine(batch[c]) => decision[c] \in {"none", "block"}
           /\ stage = "approve" => \A c \in Here : c < cursor /\ NotAllowed(c)
                                                       => decision[c] = "block"
           /\ stage \in After => \A c \in Here : NotAllowed(c) => decision[c] = "block"

\* Exactly what may run is started, and all of it has ended before the first report.
Started == /\ stage \notin After => \A c \in Calls : at[c] = "none"
           /\ stage \in After => \A c \in Calls : at[c] # "none" <=> c \in ToRun
           /\ stage \in Told => \A c \in ToRun : at[c] = "done"

Reported == /\ answers \in Seq([call : Calls, kind : Ends \cup {"denied", "blocked"}])
            /\ stage \notin Told => answers = <<>>
            /\ stage = "run" => cursor = 1
            /\ stage = "report" => Len(answers) = cursor - 1
            /\ \A k \in 1..Len(answers) : /\ k \in Here /\ answers[k].call = k
                                          /\ answers[k].kind = Output(k)

Control == Shape /\ AgentOK /\ Blocked /\ Started /\ Reported

LEMMA ControlInit == Init => Control
<1> SUFFICES ASSUME Init PROVE Control
  OBVIOUS
<1> USE DEF Init, Fresh
<1>1. batch \in Batches /\ Len(batch) \in Nat /\ DOMAIN batch = 1..Len(batch)
      /\ DOMAIN batch \subseteq Calls
  BY BatchAssumption
<1>2. Shape
  BY <1>1 DEF Shape, Agent, Stages, Decisions, Places
<1>3. AgentOK
  BY DEF AgentOK, Agent, Delegated, Forbidden, ReadOnlyTools, ProcessTools
<1>4. Blocked /\ Started
  BY <1>1 DEF Blocked, Started, After, Told, Here
<1>5. Reported
  BY EmptySeq DEF Reported, Told
<1> QED BY <1>2, <1>3, <1>4, <1>5 DEF Control

(* A step that leaves the plan of the batch alone and ends calls only while it runs. *)
LEMMA SameControl ==
    ASSUME Control, UNCHANGED control, Shape',
           \A c \in Calls : at'[c] # "none" <=> at[c] # "none",
           \A c \in Calls : at[c] \in {"none", "done"} => at'[c] = at[c] /\ out'[c] = out[c]
    PROVE  Control'
<1> USE DEF Control, control
<1>1. /\ UNCHANGED <<Here, ToRun>>
      /\ \A c \in Here : NotAllowed(c)' <=> NotAllowed(c)
  BY DEF Here, ToRun, NotAllowed
<1>2. AgentOK' /\ Blocked'
  BY <1>1 DEF AgentOK, Blocked
<1>3. Started'
  BY <1>1, HereFacts DEF Started, ToRun
<1>4. ASSUME stage \in Told, NEW k \in Here PROVE Output(k)' = Output(k)
  <2>1. at[k] \in {"none", "done"} /\ k \in Calls
    BY <1>4, HereFacts DEF Started, Told, After
  <2> QED BY <1>1, <2>1 DEF Output
<1>5. Reported'
  <2>1. CASE stage \in Told
    BY <1>1, <1>4, <2>1 DEF Reported
  <2>2. CASE stage \notin Told
    <3>1. Len(answers) = 0
      BY <2>2, EmptySeq DEF Reported
    <3> QED BY <2>2, <3>1 DEF Reported
  <2> QED BY <2>1, <2>2
<1> QED BY <1>2, <1>3, <1>5

LEMMA PoolControl ==
    ASSUME Control, NEW c \in Here, PoolStep(c)
    PROVE  Control'
<1>1. Shape /\ c \in Calls
  BY HereFacts DEF Control
<1>2. /\ UNCHANGED control
      /\ at[c] \notin {"none", "done"} /\ at'[c] # "none"
      /\ at' \in [Calls -> Places] /\ DOMAIN out' = Calls /\ DOMAIN held' = Calls
      /\ \A d \in Calls \ {c} : at'[d] = at[d] /\ out'[d] = out[d]
      /\ at'[c] = "done" => out'[c].kind \in Ends
  BY <1>1, PoolFrame
<1>3. Shape'
  BY <1>1, <1>2 DEF Shape, control
<1> QED BY <1>1, <1>2, <1>3, SameControl

LEMMA OtherControl ==
    ASSUME Control, (\E c \in Here : ProgramStep(c)) \/ Someone \/ UNCHANGED vars
    PROVE  Control'
<1>1. UNCHANGED control /\ UNCHANGED <<at, out, held>>
  BY DEF ProgramStep, Someone, SomeoneWrites, SomeoneDeletes, vars
<1>2. Shape'
  BY <1>1 DEF Control, Shape, control
<1> QED BY <1>1, <1>2, SameControl

LEMMA AgentControl ==
    ASSUME Control, AgentStep
    PROVE  Control'
<1> USE DEF Control
<1>1. Len(batch) \in Nat /\ Here = 1..Len(batch) /\ Here \subseteq Calls
  BY HereFacts
<1> USE DEF Shape, Stages, Decisions, After, Told
<1>2. ASSUME Decide PROVE Control'
  <2>1. /\ cursor \in Here /\ stage = "decide" /\ cursor' = cursor + 1
        /\ UNCHANGED <<guard, allowed, batch, stage, at, out, held, answers>>
        /\ decision' = [decision EXCEPT ![cursor] =
                           IF guard THEN Decision(batch[cursor], files) ELSE "go"]
    BY <1>2 DEF Decide
  <2>2. /\ Here' = Here /\ decision' \in [Calls -> Decisions]
        /\ \A c \in Here \ {cursor} : decision'[c] = decision[c]
        /\ decision'[cursor] = IF guard THEN Decision(batch[cursor], files) ELSE "go"
    BY <1>1, <2>1 DEF Here, Decision
  <2>3. Shape' /\ AgentOK'
    BY <1>1, <2>1, <2>2 DEF AgentOK
  <2>4. Blocked'
    BY <1>1, <2>1, <2>2 DEF Blocked, Decision
  <2>5. Started' /\ Reported'
    BY <2>1, EmptySeq DEF Started, Reported
  <2> QED BY <2>3, <2>4, <2>5
<1>3. ASSUME AllDecided PROVE Control'
  <2>1. /\ stage = "decide" /\ stage' = "approve" /\ cursor' = 1
        /\ UNCHANGED <<guard, allowed, batch, decision, at, out, held, answers>>
    BY <1>3 DEF AllDecided
  <2>2. Here' = Here /\ Shape' /\ AgentOK'
    BY <1>1, <2>1 DEF Here, AgentOK
  <2>3. Blocked'
    BY <1>1, <2>1, <2>2 DEF Blocked
  <2>4. Started' /\ Reported'
    BY <2>1, EmptySeq DEF Started, Reported
  <2> QED BY <2>2, <2>3, <2>4
<1>4. ASSUME NEW answer \in BOOLEAN, Settle(answer) PROVE Control'
  <2>1. /\ cursor \in Here /\ stage = "approve" /\ cursor' = cursor + 1
        /\ UNCHANGED <<guard, allowed, batch, stage, at, out, held, answers>>
    BY <1>4 DEF Settle
  <2>2. /\ Here' = Here /\ decision' \in [Calls -> Decisions]
        /\ \A c \in Here \ {cursor} : decision'[c] = decision[c]
        /\ NotAllowed(cursor) => decision'[cursor] = "block"
        /\ decision[cursor] \in {"none", "block"}
               => decision'[cursor] \in {"block", decision[cursor]}
    BY <1>1, <1>4, <2>1 DEF Settle, Here
  <2>3. Shape' /\ AgentOK'
    BY <1>1, <2>1, <2>2 DEF AgentOK
  <2>4. Blocked'
    BY <1>1, <2>1, <2>2 DEF Blocked, NotAllowed
  <2>5. Started' /\ Reported'
    BY <2>1, EmptySeq DEF Started, Reported
  <2> QED BY <2>3, <2>4, <2>5
<1>5. ASSUME Submit PROVE Control'
  <2>1. /\ cursor \notin Here /\ stage = "approve" /\ stage' = "run" /\ cursor' = 1
        /\ UNCHANGED <<guard, allowed, batch, decision, out, held, answers>>
        /\ at' = [c \in Calls |-> IF c \in ToRun THEN "queued" ELSE "none"]
    BY <1>5 DEF Submit
  <2>2. Here' = Here /\ ToRun' = ToRun
    BY <2>1 DEF Here, ToRun
  <2>3. Shape' /\ AgentOK'
    BY <1>1, <2>1 DEF AgentOK, Places
  <2>4. Blocked'
    BY <1>1, <2>1, <2>2 DEF Blocked, NotAllowed
  <2>5. Started' /\ Reported'
    BY <2>1, <2>2, EmptySeq DEF Started, Reported
  <2> QED BY <2>3, <2>4, <2>5
<1>6. ASSUME Joined PROVE Control'
  <2>1. /\ stage = "run" /\ stage' = "report" /\ \A c \in ToRun : at[c] = "done"
        /\ UNCHANGED <<guard, allowed, batch, cursor, decision, at, out, held, answers>>
    BY <1>6 DEF Joined, Done
  <2>2. Here' = Here /\ ToRun' = ToRun /\ Shape' /\ AgentOK'
    BY <2>1 DEF Here, ToRun, AgentOK
  <2>3. Blocked' /\ Started'
    BY <2>1, <2>2 DEF Blocked, NotAllowed, Started
  <2>4. Reported'
    <3>1. cursor = 1
      BY <2>1 DEF Reported
    <3> QED BY <2>1, <3>1, EmptySeq DEF Reported
  <2> QED BY <2>2, <2>3, <2>4
<1>7. ASSUME Report PROVE Control'
  <2>1. /\ cursor \in Here /\ stage = "report" /\ cursor' = cursor + 1
        /\ answers' = Append(answers, [call |-> cursor, kind |-> Output(cursor)])
        /\ UNCHANGED <<guard, allowed, batch, stage, decision, at, out, held>>
    BY <1>7 DEF Report
  <2>2. Here' = Here /\ ToRun' = ToRun /\ Shape' /\ AgentOK'
    BY <1>1, <2>1 DEF Here, ToRun, AgentOK
  <2>3. Blocked' /\ Started'
    BY <2>1, <2>2 DEF Blocked, NotAllowed, Started
  <2>4. Reported'
    <3>1. Output(cursor) \in Ends \cup {"denied", "blocked"} /\ cursor \in Calls
      BY <1>1, <2>1 DEF Output, Started, ToRun
    <3>2. /\ answers' \in Seq([call : Calls, kind : Ends \cup {"denied", "blocked"}])
          /\ Len(answers) \in Nat /\ Len(answers') = Len(answers) + 1
          /\ answers'[Len(answers) + 1] = [call |-> cursor, kind |-> Output(cursor)]
          /\ \A k \in 1..Len(answers) : answers'[k] = answers[k]
      BY <2>1, <3>1, AppendProperties, LenProperties DEF Reported
    <3>3. \A k : Output(k)' = Output(k)
      BY <2>1, <2>2 DEF Output
    <3>4. Len(answers) = cursor - 1
      BY <2>1 DEF Reported
    <3>5. ASSUME NEW k \in 1..Len(answers')
          PROVE  k \in Here /\ answers'[k].call = k /\ answers'[k].kind = Output(k)
      BY <2>1, <3>2, <3>4, <3>5 DEF Reported
    <3> QED BY <2>1, <2>2, <3>2, <3>3, <3>4, <3>5 DEF Reported
  <2> QED BY <2>2, <2>3, <2>4
<1>8. ASSUME BatchEnds PROVE Control'
  <2>1. /\ stage = "report" /\ stage' = "over"
        /\ UNCHANGED <<guard, allowed, batch, cursor, decision, at, out, held, answers>>
    BY <1>8 DEF BatchEnds
  <2>2. Here' = Here /\ ToRun' = ToRun /\ Shape' /\ AgentOK'
    BY <2>1 DEF Here, ToRun, AgentOK
  <2>3. Blocked' /\ Started'
    BY <2>1, <2>2 DEF Blocked, NotAllowed, Started
  <2>4. Reported'
    BY <2>1, <2>2 DEF Reported, Output
  <2> QED BY <2>2, <2>3, <2>4
<1> QED BY <1>2, <1>3, <1>4, <1>5, <1>6, <1>7, <1>8 DEF AgentStep

LEMMA ControlStep == Control /\ [Next]_vars => Control'
BY AgentControl, PoolControl, OtherControl DEF Next

\* The k-th message of a batch answers its k-th call with what that call came to, in
\* whatever order the pool ends the calls and whatever was blocked or denied before.
THEOREM AnswersBelongToCalls == Spec => []AnswersMatchCalls
<1>1. Control => AnswersMatchCalls
  <2> SUFFICES ASSUME Control, NEW k \in DOMAIN answers
               PROVE  /\ answers[k].call = k
                      /\ (at[k] = "done") = (answers[k].kind \notin {"denied", "blocked"})
                      /\ at[k] = "done" => answers[k].kind = out[k].kind
    BY DEF AnswersMatchCalls
  <2>1. DOMAIN answers = 1..Len(answers)
    BY LenProperties DEF Control, Reported
  <2>2. k \in Here /\ answers[k].call = k /\ answers[k].kind = Output(k)
    BY <2>1 DEF Control, Reported
  <2>3. stage \in Told
    BY <2>1, EmptySeq DEF Control, Reported
  <2>4. k \in Calls /\ (at[k] = "done" <=> k \in ToRun)
    BY <2>2, <2>3, HereFacts DEF Control, Started, Told, After
  <2>5. at[k] = "done" => out[k].kind \notin {"denied", "blocked"}
    BY <2>4 DEF Control, Shape, Ends
  <2> QED BY <2>2, <2>4, <2>5 DEF Output
<1> QED BY <1>1, ControlInit, ControlStep, PTL DEF Spec

--------------------------------------------------------------------------------
(* The threads of the pool: which call is where *)

Watching == {"watch", "measure", "wait", "kill", "kill_hog"}

\* Only an edit is at an open file, on no sensitive path; only an approved deletion is
\* about to remove one.
PlaceOfTool == \A c \in Here :
    /\ at[c] \in {"open", "fill"} => /\ batch[c].tool \in {"write_file", "patch"}
                                     /\ Target(c) \notin Sensitive
    /\ at[c] = "remove" => /\ batch[c].tool = "file_delete"
                           /\ Target(c) \notin Sensitive /\ c \in yes
    /\ at[c] = "list" => batch[c].tool = "todo"
    /\ at[c] \in Watching => batch[c].tool \in ProcessTools

\* A step of c that touches neither files nor todos and reports no text; only a program
\* comes to a good end this way.
Harmless(c) ==
    /\ UNCHANGED <<files, held, gone, others, todos>>
    /\ \/ out'[c] = out[c] /\ at'[c] # "done"
       \/ out'[c].text = {} /\ (out'[c].kind = "ok" => batch[c].tool \in ProcessTools)
    /\ at'[c] = "done" \/ (at'[c] \in Watching /\ batch[c].tool \in ProcessTools)

LEMMA HarmlessSteps ==
    ASSUME Shape, PlaceOfTool, NEW c \in Here, PoolStep(c)
    PROVE  \/ Harmless(c)
           \/ ReadFile(c) \/ StartWrite(c) \/ StartPatch(c) \/ StartDelete(c)
           \/ StartTodo(c) \/ ListTodos(c) \/ Open(c) \/ Fill(c) \/ DeleteFile(c)
<1> USE DEF Shape
<1>1. c \in Calls
  BY HereFacts
<1>2. ASSUME NEW kind, kind = "ok" => batch[c].tool \in ProcessTools,
             Returns(c, [kind |-> kind, text |-> {}]),
             UNCHANGED <<files, held, gone, others, todos>>
      PROVE  Harmless(c)
  BY <1>1, <1>2 DEF Harmless, Returns, Goes
<1>3. ASSUME NEW to \in Watching, Goes(c, to), batch[c].tool \in ProcessTools, UNCHANGED out,
             UNCHANGED <<files, held, gone, others, todos>>
      PROVE  Harmless(c)
  BY <1>1, <1>3 DEF Harmless, Goes, Watching
<1>4. CASE Rejected(c)
  BY <1>2, <1>4 DEF Rejected, Result
<1>5. CASE FindsNone(c) \/ TodoRaises(c) \/ WriteFails(c)
  BY <1>2, <1>5 DEF FindsNone, TodoRaises, WriteFails, Result
<1>6. CASE StartProgram(c)
  BY <1>2, <1>3, <1>6 DEF StartProgram, Accepted, Result, Watching, ProcessTools
<1>7. CASE Watch(c)
  <2>1. batch[c].tool \in ProcessTools
    BY <1>7 DEF Watch, PlaceOfTool, Watching
  <2> QED BY <1>2, <1>3, <1>7, <2>1 DEF Watch, Stays, Result, Watching
<1>8. CASE Wait(c)
  <2>1. batch[c].tool \in ProcessTools
    BY <1>8 DEF Wait, PlaceOfTool, Watching
  <2>2. CASE UNCHANGED <<at, out>>
    BY <1>8, <2>1, <2>2 DEF Wait, Stays, Harmless, Watching
  <2> QED BY <1>2, <1>3, <1>8, <2>1, <2>2 DEF Wait, Stays, Result, Watching
<1>9. CASE Kill(c)
  <2>1. batch[c].tool \in ProcessTools
    BY <1>9 DEF Kill, PlaceOfTool, Watching
  <2>2. CASE UNCHANGED <<at, out>>
    BY <1>9, <2>1, <2>2 DEF Kill, Stays, Harmless, Watching
  <2> QED BY <1>2, <1>9, <2>1, <2>2 DEF Kill, Stays, Result
<1> QED BY <1>4, <1>5, <1>6, <1>7, <1>8, <1>9 DEF PoolStep

LEMMA PlaceStep ==
    ASSUME Control, PlaceOfTool, [Next]_vars
    PROVE  PlaceOfTool'
<1> USE DEF Control
<1>1. ASSUME NEW c \in Here, PoolStep(c) PROVE PlaceOfTool'
  <2>1. /\ UNCHANGED <<batch, yes>> /\ Here' = Here /\ c \in Calls
        /\ \A d \in Here \ {c} : at'[d] = at[d]
    BY <1>1, PoolFrame, HereFacts DEF control, Here
  <2> SUFFICES /\ at'[c] \in {"open", "fill"} => /\ batch[c].tool \in {"write_file", "patch"}
                                                /\ Target(c) \notin Sensitive
               /\ at'[c] = "remove" => /\ batch[c].tool = "file_delete"
                                       /\ Target(c) \notin Sensitive /\ c \in yes
               /\ at'[c] = "list" => batch[c].tool = "todo"
               /\ at'[c] \in Watching => batch[c].tool \in ProcessTools
    BY <2>1 DEF PlaceOfTool, Target
  <2>2. CASE Harmless(c)
    BY <2>2 DEF Harmless, Watching
  <2>3. CASE ReadFile(c) \/ ListTodos(c) \/ Fill(c) \/ DeleteFile(c)
    <3>1. at'[c] = "done"
      BY <2>1, <2>3 DEF ReadFile, ListTodos, Fill, DeleteFile, Returns, Goes, Shape
    <3> QED BY <3>1 DEF Watching
  <2>4. CASE StartWrite(c) \/ StartPatch(c)
    <3>1. at'[c] \in {"open", "done"}
      BY <2>1, <2>4 DEF StartWrite, StartPatch, Returns, Goes, Shape
    <3>2. batch[c].tool \in {"write_file", "patch"} /\ Target(c) \notin Sensitive
      BY <2>4 DEF StartWrite, StartPatch, Accepted, Refused, RefusedPath, FileTools, Target
    <3> QED BY <3>1, <3>2 DEF Watching
  <2>5. CASE StartDelete(c)
    <3>1. at'[c] = "remove"
      BY <2>1, <2>5 DEF StartDelete, Goes, Shape
    <3>2. /\ batch[c].tool = "file_delete" /\ Target(c) \notin Sensitive /\ c \in yes
      BY <2>5 DEF StartDelete, Accepted, Refused, RefusedPath, RefusedUnapproved, FileTools,
                  Target
    <3> QED BY <3>1, <3>2 DEF Watching
  <2>6. CASE StartTodo(c)
    BY <2>1, <2>6 DEF StartTodo, Accepted, Goes, Shape, Watching
  <2>7. CASE Open(c)
    BY <2>1, <2>7 DEF Open, Goes, Shape, Watching, PlaceOfTool
  <2> QED BY <1>1, <2>2, <2>3, <2>4, <2>5, <2>6, <2>7, HarmlessSteps
<1>2. ASSUME Submit PROVE PlaceOfTool'
  BY <1>2, HereFacts DEF Submit, PlaceOfTool, Watching, Here
<1>3. ASSUME \/ Decide \/ AllDecided \/ Joined \/ Report \/ BatchEnds
             \/ \E answer \in BOOLEAN : Settle(answer)
      PROVE  PlaceOfTool'
  <2>1. UNCHANGED <<batch, at>> /\ yes \subseteq yes'
    BY <1>3 DEF Decide, AllDecided, Joined, Report, BatchEnds, Settle
  <2> QED BY <2>1 DEF PlaceOfTool, Here, Target
<1>4. ASSUME (\E c \in Here : ProgramStep(c)) \/ Someone \/ UNCHANGED vars
      PROVE  PlaceOfTool'
  <2>1. UNCHANGED <<batch, at, yes>>
    BY <1>4 DEF ProgramStep, Someone, SomeoneWrites, SomeoneDeletes, vars, control
  <2> QED BY <2>1 DEF PlaceOfTool, Here, Target
<1> QED BY <1>1, <1>2, <1>3, <1>4 DEF Next, AgentStep

--------------------------------------------------------------------------------
(* The store of todos: what its operations keep *)

Items == [id : Nat, status : Statuses]

StoreOK(store) == /\ store \in [items : Seq(Items), next : Nat]
                  /\ \A n \in DOMAIN store.items : store.items[n].id < store.next

AllCompleted(store, id) ==
    \A n \in DOMAIN store.items : store.items[n].id = id => store.items[n].status = "completed"

\* A list that went from one store to the other: numbers are not given out again and
\* what was completed stays so.
Grows(old, new) ==
    /\ StoreOK(new) /\ old.next <= new.next
    /\ \A id \in Nat : id < old.next /\ AllCompleted(old, id) => AllCompleted(new, id)

LEMMA CreatedGrows ==
    ASSUME NEW store, StoreOK(store)
    PROVE  Grows(store, Created(store)) /\ Created(store).next = store.next + 1
<1> DEFINE item == [id |-> store.next, status |-> "pending"]
           list == Append(store.items, item)
<1>1. /\ store.items \in Seq(Items) /\ store.next \in Nat /\ item \in Items
      /\ \A n \in DOMAIN store.items : store.items[n].id < store.next
      /\ DOMAIN store.items = 1..Len(store.items) /\ Len(store.items) \in Nat
  BY LenProperties DEF StoreOK, Items, Statuses
<1>2. Created(store) = [items |-> list, next |-> store.next + 1]
  BY DEF Created
<1> HIDE DEF item
<1>3. /\ list \in Seq(Items) /\ DOMAIN list = 1..Len(store.items) + 1
      /\ \A n \in 1..Len(store.items) : list[n] = store.items[n]
      /\ list[Len(store.items) + 1] = item
  BY <1>1, AppendProperties, LenProperties
<1> HIDE DEF list
<1>4. \A n \in DOMAIN list :
         list[n] = item \/ \E m \in DOMAIN store.items : list[n] = store.items[m]
  BY <1>1, <1>3
<1>5. \A n \in DOMAIN list : list[n].id < store.next + 1
  <2>1. \A n \in DOMAIN store.items : store.items[n].id \in Nat
    <3>1. \A n \in DOMAIN store.items : store.items[n] \in Items
      BY <1>1, ElementOfSeq
    <3> QED BY <3>1 DEF Items
  <2> QED BY <1>1, <1>4, <2>1 DEF item
<1>6. StoreOK(Created(store))
  BY <1>1, <1>2, <1>3, <1>5 DEF StoreOK
<1>7. ASSUME NEW id \in Nat, id < store.next, AllCompleted(store, id)
      PROVE  AllCompleted(Created(store), id)
  <2>1. item.id = store.next /\ id # store.next
    BY <1>1, <1>7 DEF item
  <2> QED BY <1>2, <1>4, <1>7, <2>1 DEF AllCompleted
<1> QED BY <1>1, <1>2, <1>6, <1>7 DEF Grows

LEMMA UpdatedGrows ==
    ASSUME NEW store, StoreOK(store), NEW id, NEW status, MayUpdate(store, id, status)
    PROVE  /\ Grows(store, Updated(store, id, status))
           /\ id \in Nat /\ id < store.next
           /\ status = "completed" => AllCompleted(Updated(store, id, status), id)
<1> DEFINE list == [n \in DOMAIN store.items |->
                       IF Matches(store.items[n], id)
                       THEN [store.items[n] EXCEPT !.status = status] ELSE store.items[n]]
           new == Updated(store, id, status)
<1>1. /\ store.items \in Seq(Items) /\ store.next \in Nat
      /\ store = [items |-> store.items, next |-> store.next]
      /\ \A n \in DOMAIN store.items :
            store.items[n] \in Items /\ store.items[n].id < store.next
      /\ DOMAIN store.items = 1..Len(store.items) /\ Len(store.items) \in Nat
  BY LenProperties, ElementOfSeq DEF StoreOK
<1>2. new = [items |-> list, next |-> store.next]
  <2>1. new = [store EXCEPT !.items = list]
    BY DEF Updated
  <2> HIDE DEF list, new
  <2> QED BY <1>1, <2>1
<1>3. \A n \in DOMAIN store.items : /\ list[n] \in Items /\ list[n].id = store.items[n].id
                                    /\ list[n].status = IF store.items[n].id = id THEN status
                                                        ELSE store.items[n].status
  BY <1>1 DEF MayUpdate, Matches, Items
<1>4. list \in Seq(Items) /\ DOMAIN list = DOMAIN store.items
  <2>1. list \in [1..Len(store.items) -> Items]
    BY <1>1, <1>3
  <2> QED BY <1>1, <2>1, SeqDef
<1> HIDE DEF list
<1>5. StoreOK(new)
  BY <1>1, <1>2, <1>3, <1>4 DEF StoreOK
<1>6. id \in Nat /\ id < store.next
  BY <1>1 DEF MayUpdate, Has, Items
<1>7. status = "completed" => AllCompleted(new, id)
  BY <1>2, <1>3, <1>4 DEF AllCompleted
<1>8. ASSUME NEW other \in Nat, other < store.next, AllCompleted(store, other)
      PROVE  AllCompleted(new, other)
  <2>1. CASE other = id
    BY <1>7, <1>8, <2>1 DEF MayUpdate, Has, Matches, AllCompleted
  <2>2. CASE other # id
    BY <1>2, <1>3, <1>4, <1>8, <2>2 DEF AllCompleted
  <2> QED BY <2>1, <2>2
<1> QED BY <1>1, <1>2, <1>5, <1>6, <1>7, <1>8 DEF Grows

(* A list without its k-th item. *)
LEMMA RemoveAtProperties ==
    ASSUME NEW S, NEW s \in Seq(S), NEW k \in 1..Len(s)
    PROVE  /\ RemoveAt(s, k) \in Seq(S)
           /\ \A n \in DOMAIN RemoveAt(s, k) : \E m \in DOMAIN s : RemoveAt(s, k)[n] = s[m]
<1> DEFINE left == SubSeq(s, 1, k - 1)
           right == SubSeq(s, k + 1, Len(s))
<1>1. Len(s) \in Nat /\ DOMAIN s = 1..Len(s) /\ \A n \in 1..Len(s) : s[n] \in S
  BY LenProperties, ElementOfSeq
<1>2. /\ left \in Seq(S) /\ Len(left) \in Nat
      /\ \A n \in 1..Len(left) : n \in 1..Len(s) /\ left[n] = s[n]
  <2>1. \A n \in 1..k - 1 : s[n] \in S
    BY <1>1
  <2>2. /\ left \in Seq(S) /\ Len(left) = IF 1 <= k - 1 THEN k - 1 - 1 + 1 ELSE 0
        /\ \A n \in 1..k - 1 - 1 + 1 : left[n] = s[1 + n - 1]
    BY <2>1, SubSeqProperties
  <2> HIDE DEF left
  <2> QED BY <1>1, <2>2
<1>3. /\ right \in Seq(S) /\ Len(right) \in Nat
      /\ \A n \in 1..Len(right) : n + k \in 1..Len(s) /\ right[n] = s[n + k]
  <2>1. \A n \in k + 1..Len(s) : s[n] \in S
    BY <1>1
  <2>2. /\ right \in Seq(S) /\ Len(right) = IF k + 1 <= Len(s) THEN Len(s) - (k + 1) + 1 ELSE 0
        /\ \A n \in 1..Len(s) - (k + 1) + 1 : right[n] = s[(k + 1) + n - 1]
    BY <1>1, <2>1, SubSeqProperties
  <2> HIDE DEF right
  <2> QED BY <1>1, <2>2, SMTT(30)
<1>4. RemoveAt(s, k) = left \o right
  BY DEF RemoveAt
<1> HIDE DEF left, right
<1>5. /\ left \o right \in Seq(S) /\ DOMAIN (left \o right) = 1..Len(left) + Len(right)
      /\ \A n \in 1..Len(left) + Len(right) :
            (left \o right)[n] = IF n <= Len(left) THEN left[n] ELSE right[n - Len(left)]
  BY <1>2, <1>3, ConcatProperties, LenProperties
<1>6. ASSUME NEW n \in 1..Len(left) + Len(right)
      PROVE  \E m \in DOMAIN s : (left \o right)[n] = s[m]
  <2>1. CASE n <= Len(left)
    BY <1>1, <1>2, <1>5, <1>6, <2>1
  <2>2. CASE ~(n <= Len(left))
    <3>1. n - Len(left) \in 1..Len(right)
      BY <1>2, <1>3, <2>2
    <3> QED BY <1>1, <1>3, <1>5, <1>6, <2>2, <3>1
  <2> QED BY <2>1, <2>2
<1> QED BY <1>4, <1>5, <1>6

LEMMA RemovedGrows ==
    ASSUME NEW store, StoreOK(store), NEW id, Has(store, id)
    PROVE  Grows(store, Removed(store, id))
<1> DEFINE list == RemoveAt(store.items, Found(store, id))
<1>1. /\ store.items \in Seq(Items) /\ store.next \in Nat
      /\ store = [items |-> store.items, next |-> store.next]
      /\ \A n \in DOMAIN store.items : store.items[n].id < store.next
      /\ DOMAIN store.items = 1..Len(store.items)
  BY LenProperties DEF StoreOK
<1>2. Found(store, id) \in 1..Len(store.items)
  BY <1>1 DEF Has, Found, Matches
<1>3. Removed(store, id) = [items |-> list, next |-> store.next]
  BY <1>1 DEF Removed
<1>4. /\ list \in Seq(Items)
      /\ \A n \in DOMAIN list : \E m \in DOMAIN store.items : list[n] = store.items[m]
  BY <1>1, <1>2, RemoveAtProperties
<1> HIDE DEF list
<1>5. StoreOK(Removed(store, id))
  BY <1>1, <1>3, <1>4 DEF StoreOK
<1>6. ASSUME NEW other \in Nat, AllCompleted(store, other)
      PROVE  AllCompleted(Removed(store, id), other)
  BY <1>3, <1>4, <1>6 DEF AllCompleted
<1> QED BY <1>1, <1>3, <1>5, <1>6 DEF Grows

--------------------------------------------------------------------------------
(* What is in the files, in the handlers' hands and in the results *)

TodosOK == StoreOK(todos)

\* Sensitive files are as they were, and their text is nowhere else.
SecretsKept ==
    /\ \A p \in Sensitive : p \in DOMAIN files /\ files[p] = before[p]
    /\ \A p \in DOMAIN files \ Sensitive : SecretText \notin files[p]
    /\ \A c \in Here : at[c] \in {"open", "fill"} => SecretText \notin held[c]
    /\ \A c \in Calls : SecretText \notin out[c].text

\* The files of the batch had the old text.  An edit writes its fragment, and one that
\* nobody approved works on a file that appeared or was changed meanwhile.
OldTextKept ==
    /\ \A p \in DOMAIN before \ Sensitive : before[p] = {OldText}
    /\ \A c \in Here : at[c] \in {"open", "fill"} =>
          /\ batch[c].put \in held[c]
          /\ c \notin yes /\ Target(c) \in DOMAIN before \cap DOMAIN files
             => files[Target(c)] # before[Target(c)]

Changed(c) == at[c] = "done" /\ out[c].kind = "ok"

\* The call that alone has to do with its file.
Alone(c) == /\ batch[c].tool \in {"write_file", "patch"} /\ Target(c) \notin others
            /\ \A d \in Here \ {c} : ~(Changes(d) /\ Target(d) = Target(c))

\* A file that is removed can be one somebody is writing; the one that a call has for
\* itself is not, and has what the call wrote.
EditKept ==
    /\ \A c \in gone : c \in Calls /\ at[c] \in {"fill", "done"}
    /\ \A c \in Here : at[c] = "fill" /\ c \notin gone => Target(c) \in DOMAIN files
    /\ \A c \in Here : Alone(c) => /\ at[c] \in {"open", "fill"} => c \notin gone
                                   /\ Changed(c) => /\ Target(c) \in DOMAIN files
                                                    /\ batch[c].put \in files[Target(c)]

\* From its operation to its result, a call of todo knows its number.
HasActed(c) == batch[c].tool = "todo" /\ (at[c] = "list" \/ Changed(c))
HasCreated(c) == HasActed(c) /\ Target(c) = "create"

TodosKept ==
    /\ \A c \in Here : HasCreated(c) =>
          \E n \in Nat : held[c] = {n} /\ n < todos.next
    /\ \A c, d \in Here : HasCreated(c) /\ HasCreated(d) /\ c # d => held[c] # held[d]
    /\ \A c \in Here : HasActed(c) /\ Target(c) = "complete" =>
          /\ TodoId(c) \in Nat /\ TodoId(c) < todos.next
          /\ AllCompleted(todos, TodoId(c))

BatchInv == /\ Control /\ PlaceOfTool /\ TodosOK /\ SecretsKept /\ OldTextKept
            /\ EditKept /\ TodosKept

(* Steps that touch none of this: those of the agent's thread and of the programs. *)
Quiet == /\ UNCHANGED <<batch, before, files, held, gone, out, others, todos>>
         /\ yes \subseteq yes'
         /\ \A c \in Calls : at'[c] = at[c] \/ (at[c] = "none" /\ at'[c] \in {"none", "queued"})

LEMMA QuietSteps ==
    ASSUME Control, AgentStep \/ (\E c \in Here : ProgramStep(c)) \/ UNCHANGED vars
    PROVE  Quiet
<1>1. CASE Submit
  <2>1. \A c \in Calls : at[c] = "none"
    BY <1>1 DEF Submit, Control, Started, After
  <2>2. /\ UNCHANGED <<batch, before, files, held, gone, out, others, todos, yes>>
        /\ \A c \in Calls : at'[c] \in {"none", "queued"}
    BY <1>1 DEF Submit
  <2> QED BY <2>1, <2>2 DEF Quiet
<1>2. CASE Decide \/ AllDecided \/ Joined \/ Report \/ BatchEnds
  BY <1>2 DEF Decide, AllDecided, Joined, Report, BatchEnds, Quiet
<1>3. CASE \E answer \in BOOLEAN : Settle(answer)
  BY <1>3 DEF Settle, Quiet
<1>4. CASE (\E c \in Here : ProgramStep(c)) \/ UNCHANGED vars
  BY <1>4 DEF ProgramStep, vars, control, Quiet
<1> QED BY <1>1, <1>2, <1>3, <1>4 DEF AgentStep

LEMMA QuietContents ==
    ASSUME BatchInv, Quiet
    PROVE  TodosOK' /\ SecretsKept' /\ OldTextKept' /\ EditKept' /\ TodosKept'
<1> USE DEF BatchInv, Quiet
<1>1. /\ Here' = Here /\ Here \subseteq Calls
      /\ \A c \in Here : /\ Target(c)' = Target(c) /\ TodoId(c)' = TodoId(c)
                         /\ Changes(c)' = Changes(c)
  BY HereFacts DEF Control, Here, Target, TodoId, Changes
<1>2. \A c \in Calls : /\ at'[c] \in {"open", "fill", "list", "done"} => at'[c] = at[c]
                       /\ at[c] \in {"open", "fill", "list", "done"} => at'[c] = at[c]
  OBVIOUS
<1>3. \A c \in Here : /\ Alone(c)' = Alone(c) /\ Changed(c)' = Changed(c)
                      /\ HasActed(c)' = HasActed(c) /\ HasCreated(c)' = HasCreated(c)
  BY <1>1, <1>2 DEF Alone, Changed, HasActed, HasCreated
<1>4. TodosOK'
  BY DEF TodosOK, StoreOK
<1>5. SecretsKept'
  BY <1>1, <1>2 DEF SecretsKept
<1>6. OldTextKept'
  BY <1>1, <1>2 DEF OldTextKept
<1>7. EditKept'
  <2>1. gone \subseteq Calls
    BY DEF EditKept
  <2> QED BY <1>1, <1>2, <1>3, <2>1 DEF EditKept
<1>8. TodosKept'
  BY <1>1, <1>3 DEF TodosKept, AllCompleted
<1> QED BY <1>4, <1>5, <1>6, <1>7, <1>8

LEMMA SomeoneContents ==
    ASSUME BatchInv, Someone
    PROVE  TodosOK' /\ SecretsKept' /\ OldTextKept' /\ EditKept' /\ TodosKept'
<1> USE DEF BatchInv
<1>1. PICK p \in Named \ Sensitive : SomeoneWrites(p) \/ SomeoneDeletes(p)
  BY DEF Someone
<1>2. /\ UNCHANGED <<control, batch, before, yes, at, held, out, todos>>
      /\ others' = others \cup {p}
      /\ \/ files' = With(p, {TheirText}) /\ gone' = gone
         \/ files' = Without(p) /\ gone' = gone \cup Writers(p)
  BY <1>1 DEF SomeoneWrites, SomeoneDeletes, control
<1>3. /\ Here' = Here /\ Here \subseteq Calls
      /\ \A c \in Here : /\ Target(c)' = Target(c) /\ TodoId(c)' = TodoId(c)
                         /\ Changes(c)' = Changes(c) /\ Changed(c)' = Changed(c)
                         /\ HasActed(c)' = HasActed(c) /\ HasCreated(c)' = HasCreated(c)
                         /\ Alone(c)' => Alone(c) /\ Target(c) # p
  BY <1>2, HereFacts
     DEF Control, Here, Target, TodoId, Changes, Changed, HasActed, HasCreated, Alone
<1>4. /\ \A q \in DOMAIN files' : files'[q] = IF q = p /\ files' = With(p, {TheirText})
                                              THEN {TheirText} ELSE files[q]
      /\ \A q : q # p => (q \in DOMAIN files' <=> q \in DOMAIN files)
      /\ DOMAIN files' \subseteq DOMAIN files \cup {p}
      /\ files' = With(p, {TheirText}) \/ p \notin DOMAIN files'
  BY <1>2 DEF With, Without
<1>5. TodosOK' /\ TodosKept'
  BY <1>2, <1>3 DEF TodosOK, StoreOK, TodosKept, AllCompleted
<1>6. SecretsKept'
  BY <1>1, <1>2, <1>3, <1>4, TextAssumption DEF SecretsKept
<1>7. OldTextKept'
  <2>1. \A q \in DOMAIN before' \ Sensitive : before'[q] = {OldText}
    BY <1>2 DEF OldTextKept
  <2>2. ASSUME NEW c \in Here, at[c] \in {"open", "fill"}
        PROVE  /\ batch[c].put \in held[c]
               /\ c \notin yes /\ Target(c) \in DOMAIN before \cap DOMAIN files'
                  => files'[Target(c)] # before[Target(c)]
    BY <1>1, <1>2, <1>4, <2>2, TextAssumption, ZenonT(40) DEF OldTextKept
  <2> QED BY <1>2, <1>3, <2>1, <2>2 DEF OldTextKept
<1>8. EditKept'
  <2>1. \A c \in gone' : c \in Calls /\ at[c] \in {"fill", "done"}
    BY <1>2, <1>3 DEF EditKept, Writers
  <2>2. ASSUME NEW c \in Here, Alone(c)'
        PROVE  /\ at[c] \in {"open", "fill"} => c \notin gone'
               /\ Changed(c) => /\ Target(c) \in DOMAIN files'
                                /\ batch[c].put \in files'[Target(c)]
    BY <1>2, <1>3, <1>4, <2>2 DEF EditKept, Writers
  <2>3. \A c \in Here : at[c] = "fill" /\ c \notin gone' => Target(c) \in DOMAIN files'
    BY <1>2, <1>4 DEF EditKept, Writers, With, Without
  <2> QED BY <1>2, <1>3, <2>1, <2>2, <2>3 DEF EditKept
<1> QED BY <1>5, <1>6, <1>7, <1>8

(* What a step of the pool leaves alone, in the words of the parts above. *)
Rest(c) == /\ UNCHANGED <<control, batch, before, yes, Here, others>>
           /\ c \in Calls /\ Here \subseteq Calls /\ at[c] \notin {"none", "done"}
           /\ \A d \in Calls \ {c} : at'[d] = at[d] /\ out'[d] = out[d] /\ held'[d] = held[d]
           /\ \A d \in Here : /\ Target(d)' = Target(d) /\ TodoId(d)' = TodoId(d)
                              /\ Changes(d)' = Changes(d) /\ Alone(d)' = Alone(d)
           /\ \A d \in Here \ {c} : /\ Changed(d)' = Changed(d)
                                    /\ HasActed(d)' = HasActed(d)
                                    /\ HasCreated(d)' = HasCreated(d)

LEMMA PoolRest ==
    ASSUME Control, NEW c \in Here, PoolStep(c)
    PROVE  Rest(c)
<1>1. /\ UNCHANGED control /\ at[c] \notin {"none", "done"}
      /\ \A d \in Calls \ {c} : at'[d] = at[d] /\ out'[d] = out[d] /\ held'[d] = held[d]
  BY PoolFrame DEF Control
<1>2. UNCHANGED others
  BY DEF PoolStep, Rejected, FindsNone, ReadFile, StartWrite, StartPatch, StartDelete,
         StartProgram, StartTodo, TodoRaises, ListTodos, Open, Fill, WriteFails, DeleteFile,
         Watch, Wait, Kill, Stays
<1>3. /\ UNCHANGED <<batch, before, yes>> /\ Here' = Here /\ Here \subseteq Calls
  BY <1>1, HereFacts DEF Control, control, Here
<1>4. \A d \in Here : /\ Target(d)' = Target(d) /\ TodoId(d)' = TodoId(d)
                      /\ Changes(d)' = Changes(d)
  BY <1>3 DEF Target, TodoId, Changes
<1>5. \A d \in Here : Alone(d)' = Alone(d)
  BY <1>2, <1>3, <1>4 DEF Alone
<1>6. \A d \in Here \ {c} : /\ Changed(d)' = Changed(d)
                            /\ HasActed(d)' = HasActed(d)
                            /\ HasCreated(d)' = HasCreated(d)
  BY <1>1, <1>3, <1>4 DEF Changed, HasActed, HasCreated
<1> QED BY <1>1, <1>2, <1>3, <1>4, <1>5, <1>6 DEF Rest

(* The fragment an edit puts. *)
LEMMA OwnFragment ==
    ASSUME Control, NEW c \in Here, batch[c].tool \in {"write_file", "patch"}
    PROVE  batch[c].put \notin {OldText, SecretText}
BY TextAssumption DEF Control, Shape, Here

(* Where the step of c leaves it. *)
LEMMA PoolGoes ==
    ASSUME Control, NEW c \in Here
    PROVE  /\ ReadFile(c) \/ ListTodos(c) \/ Fill(c) \/ DeleteFile(c) => at'[c] = "done"
           /\ StartWrite(c) => at'[c] = "open" /\ out' = out
           /\ StartPatch(c) => \/ at'[c] = "open" /\ out' = out /\ held'[c] = Edited(c)
                               \/ at'[c] = "done" /\ out'[c] = Result("error")
           /\ StartDelete(c) => at'[c] = "remove" /\ out' = out
           /\ StartTodo(c) => at'[c] = "list" /\ out' = out
           /\ Open(c) => at'[c] = "fill" /\ out' = out
           /\ StartWrite(c) \/ StartPatch(c) \/ StartDelete(c) \/ StartTodo(c) \/ ReadFile(c)
              => at[c] = "queued"
<1>1. c \in Calls /\ at \in [Calls -> Places] /\ DOMAIN out = Calls /\ DOMAIN held = Calls
  BY HereFacts DEF Control, Shape
<1>2. ReadFile(c) \/ ListTodos(c) \/ Fill(c) \/ DeleteFile(c) => at'[c] = "done"
  BY <1>1 DEF ReadFile, ListTodos, Fill, DeleteFile, Returns, Goes
<1>3. /\ StartWrite(c) => at'[c] = "open" /\ out' = out
      /\ StartDelete(c) => at'[c] = "remove" /\ out' = out
      /\ StartTodo(c) => at'[c] = "list" /\ out' = out
      /\ Open(c) => at'[c] = "fill" /\ out' = out
  BY <1>1 DEF StartWrite, StartDelete, StartTodo, Open, Goes
<1>4. StartPatch(c) => \/ at'[c] = "open" /\ out' = out /\ held'[c] = Edited(c)
                       \/ at'[c] = "done" /\ out'[c] = Result("error")
  BY <1>1 DEF StartPatch, Returns, Goes
<1>5. StartWrite(c) \/ StartPatch(c) \/ StartDelete(c) \/ StartTodo(c) \/ ReadFile(c)
      => at[c] = "queued"
  BY DEF StartWrite, StartPatch, StartDelete, StartTodo, ReadFile, Accepted, Begins
<1> QED BY <1>1, <1>2, <1>3, <1>4, <1>5

LEMMA PoolSecrets ==
    ASSUME BatchInv, NEW c \in Here, PoolStep(c)
    PROVE  SecretsKept'
<1> USE DEF BatchInv
<1>1. Rest(c) /\ DOMAIN out = Calls /\ DOMAIN held = Calls
  BY PoolRest DEF Control, Shape
<1> SUFFICES /\ \A p \in Sensitive : p \in DOMAIN files' /\ files'[p] = files[p]
             /\ \A p \in DOMAIN files' \ Sensitive : SecretText \notin files'[p]
             /\ at'[c] \in {"open", "fill"} => SecretText \notin held'[c]
             /\ SecretText \notin out'[c].text
  BY <1>1 DEF Rest, SecretsKept
<1>2. /\ \A p \in Sensitive : p \in DOMAIN files
      /\ \A p \in DOMAIN files \ Sensitive : SecretText \notin files[p]
      /\ at[c] \in {"open", "fill"} => SecretText \notin held[c]
      /\ SecretText \notin out[c].text /\ c \in Calls
  BY <1>1 DEF SecretsKept, Rest
<1>3. CASE Harmless(c)
  BY <1>2, <1>3 DEF Harmless, Watching
<1>4. CASE ReadFile(c)
  <2>1. Target(c) \in DOMAIN files \ Sensitive /\ files' = files
    BY <1>4 DEF ReadFile, Accepted, Refused, RefusedPath, FileTools, Target
  <2>2. out'[c].text = files[Target(c)]
    BY <1>1, <1>2, <1>4 DEF ReadFile, Returns
  <2> QED BY <1>2, <1>4, <2>1, <2>2, PoolGoes
<1>5. CASE StartWrite(c)
  <2>1. batch[c].tool = "write_file" /\ files' = files /\ held'[c] = {batch[c].put}
    BY <1>1, <1>2, <1>5 DEF StartWrite, Accepted
  <2> QED BY <1>2, <1>5, <2>1, OwnFragment, PoolGoes
<1>6. CASE StartPatch(c)
  <2>1. batch[c].tool = "patch" /\ files' = files /\ Target(c) \in DOMAIN files \ Sensitive
    BY <1>6 DEF StartPatch, Accepted, Refused, RefusedPath, FileTools, Target
  <2>2. SecretText \notin Edited(c)
    BY <1>2, <2>1, OwnFragment DEF Edited
  <2> QED BY <1>2, <1>6, <2>1, <2>2, PoolGoes DEF Result
<1>7. CASE StartDelete(c) \/ StartTodo(c)
  <2>1. files' = files
    BY <1>7 DEF StartDelete, StartTodo
  <2> QED BY <1>2, <1>7, <2>1, PoolGoes
<1>8. CASE ListTodos(c)
  <2>1. files' = files /\ out'[c].text = Range(todos.items)
    BY <1>1, <1>2, <1>8 DEF ListTodos, Returns
  <2>2. Range(todos.items) \subseteq Items
    BY LenProperties DEF TodosOK, StoreOK, Range
  <2> QED BY <1>2, <1>8, <2>1, <2>2, PoolGoes, TextAssumption DEF Items
<1>9. CASE Open(c)
  <2>1. at[c] = "open" /\ files' = With(Target(c), {}) /\ held' = held
    BY <1>9 DEF Open
  <2>2. Target(c) \notin Sensitive
    BY <2>1 DEF PlaceOfTool
  <2> QED BY <1>2, <1>9, <2>1, <2>2, PoolGoes DEF With, Without
<1>10. CASE Fill(c)
  <2>1. at[c] = "fill" /\ out'[c].text = {}
    BY <1>1, <1>2, <1>10 DEF Fill, Returns, Result
  <2>2. Target(c) \notin Sensitive
    BY <2>1 DEF PlaceOfTool
  <2>3. CASE c \in gone
    BY <1>2, <1>10, <2>1, <2>3, PoolGoes DEF Fill
  <2>4. CASE c \notin gone
    <3>1. PICK rest \in {{}, files[Target(c)]} : files' = With(Target(c), held[c] \cup rest)
      BY <1>10, <2>4 DEF Fill
    <3>2. SecretText \notin held[c] \cup rest
      BY <1>2, <2>1, <2>2, <2>4 DEF EditKept
    <3> QED BY <1>2, <1>10, <2>1, <2>2, <3>1, <3>2, PoolGoes DEF With, Without
  <2> QED BY <2>3, <2>4
<1>11. CASE DeleteFile(c)
  <2>1. at[c] = "remove" /\ (files' = files \/ files' = Without(Target(c))) /\ out'[c].text = {}
    BY <1>1, <1>2, <1>11 DEF DeleteFile, Returns, Result
  <2>2. Target(c) \notin Sensitive
    BY <2>1 DEF PlaceOfTool
  <2> QED BY <1>2, <1>11, <2>1, <2>2, PoolGoes DEF With, Without
<1> QED BY <1>3, <1>4, <1>5, <1>6, <1>7, <1>8, <1>9, <1>10, <1>11, HarmlessSteps DEF Control

(* What a step of the pool does to the files: it changes the one of its call, empties it,  *)
(* writes the fragment or removes it, and then whoever is writing it writes a file that is *)
(* gone.                                                                                   *)
LEMMA PoolFiles ==
    ASSUME BatchInv, NEW c \in Here, PoolStep(c)
    PROVE  /\ \A p : p # Target(c) => /\ p \in DOMAIN files' <=> p \in DOMAIN files
                                      /\ p \in DOMAIN files => files'[p] = files[p]
           /\ files' # files => at[c] \in {"open", "fill", "remove"}
           /\ \/ files' = files /\ gone' = gone
              \/ /\ at[c] \in {"open", "fill"} /\ Target(c) \in DOMAIN files' /\ gone' = gone
                 /\ files'[Target(c)] = {} \/ batch[c].put \in files'[Target(c)]
              \/ /\ at[c] = "remove" /\ Target(c) \notin DOMAIN files'
                 /\ gone' = gone \cup Writers(Target(c))
<1> USE DEF BatchInv
<1>1. CASE Harmless(c)
  BY <1>1 DEF Harmless
<1>2. CASE ReadFile(c) \/ StartWrite(c) \/ StartPatch(c) \/ StartDelete(c) \/ StartTodo(c)
           \/ ListTodos(c)
  BY <1>2 DEF ReadFile, StartWrite, StartPatch, StartDelete, StartTodo, ListTodos
<1>3. CASE Open(c)
  <2>1. at[c] = "open" /\ files' = With(Target(c), {}) /\ gone' = gone
    BY <1>3 DEF Open
  <2> QED BY <2>1 DEF With, Without
<1>4. CASE Fill(c)
  <2>1. at[c] = "fill" /\ gone' = gone
    BY <1>4 DEF Fill
  <2>2. CASE c \in gone
    BY <1>4, <2>1, <2>2 DEF Fill
  <2>3. CASE c \notin gone
    <3>1. PICK rest \in {{}, files[Target(c)]} : files' = With(Target(c), held[c] \cup rest)
      BY <1>4, <2>3 DEF Fill
    <3>2. batch[c].put \in held[c] \cup rest
      BY <2>1 DEF OldTextKept
    <3> QED BY <2>1, <3>1, <3>2 DEF With, Without
  <2> QED BY <2>2, <2>3
<1>5. CASE DeleteFile(c)
  <2>1. /\ at[c] = "remove"
        /\ \/ files' = files /\ gone' = gone
           \/ files' = Without(Target(c)) /\ gone' = gone \cup Writers(Target(c))
    BY <1>5 DEF DeleteFile
  <2> QED BY <2>1 DEF With, Without
<1> QED BY <1>1, <1>2, <1>3, <1>4, <1>5, HarmlessSteps DEF Control

(* How a call comes to have its file open, and how it leaves it. *)
LEMMA PoolOpens ==
    ASSUME BatchInv, NEW c \in Here, PoolStep(c)
    PROVE  /\ at'[c] = "open" => /\ at[c] = "queued" /\ UNCHANGED files
                                 /\ batch[c].put \in held'[c]
                                 /\ c \in yes \/ Target(c) \notin DOMAIN files
           /\ at'[c] = "fill" => /\ at[c] = "open" /\ held' = held
                                 /\ Target(c) \in DOMAIN files' /\ files'[Target(c)] = {}
           /\ at[c] = "fill" => at'[c] = "done"
<1> USE DEF BatchInv
<1>1. Rest(c) /\ DOMAIN held = Calls
  BY PoolRest DEF Control, Shape
<1>2. CASE Harmless(c)
  <2>1. at'[c] \notin {"open", "fill"}
    BY <1>2 DEF Harmless, Watching
  <2> QED BY <1>2, <2>1 DEF Harmless, PlaceOfTool, ProcessTools
<1>3. CASE ReadFile(c) \/ ListTodos(c) \/ Fill(c) \/ DeleteFile(c) \/ StartDelete(c)
           \/ StartTodo(c)
  BY <1>3, PoolGoes
<1>4. CASE StartWrite(c)
  <2>1. files' = files /\ held'[c] = {batch[c].put}
    BY <1>1, <1>4 DEF StartWrite, Rest
  <2>2. c \in yes \/ Target(c) \notin DOMAIN files
    BY <1>4 DEF StartWrite, Accepted, Refused, RefusedUnapproved, Target
  <2> QED BY <1>4, <2>1, <2>2, PoolGoes
<1>5. CASE StartPatch(c)
  <2>1. files' = files /\ batch[c].put \in Edited(c)
    BY <1>5 DEF StartPatch, Edited
  <2>2. c \in yes
    BY <1>5 DEF StartPatch, Accepted, Refused, RefusedUnapproved, Target
  <2> QED BY <1>5, <2>1, <2>2, PoolGoes
<1>6. CASE Open(c)
  <2>1. at[c] = "open" /\ held' = held /\ files' = With(Target(c), {})
    BY <1>6 DEF Open
  <2> QED BY <1>6, <2>1, PoolGoes DEF With, Without
<1> QED BY <1>2, <1>3, <1>4, <1>5, <1>6, HarmlessSteps DEF Control

LEMMA PoolOldText ==
    ASSUME BatchInv, NEW c \in Here, PoolStep(c)
    PROVE  OldTextKept'
<1> USE DEF BatchInv
<1>1. Rest(c)
  BY PoolRest
<1>2. \A p \in DOMAIN before \ Sensitive : before[p] = {OldText}
  BY DEF OldTextKept
<1>3. ASSUME NEW d \in Here, at'[d] \in {"open", "fill"}
      PROVE  /\ batch[d].put \in held'[d] /\ Target(d) \notin Sensitive
             /\ batch[d].tool \in {"write_file", "patch"}
  <2>1. CASE d # c
    BY <1>1, <1>3, <2>1 DEF Rest, OldTextKept, PlaceOfTool
  <2>2. CASE d = c /\ at'[c] = "open"
    <3>1. PlaceOfTool'
      BY PlaceStep DEF Next
    <3> QED BY <1>1, <2>2, <3>1, PoolOpens DEF Rest, PlaceOfTool
  <2>3. CASE d = c /\ at'[c] = "fill"
    BY <2>3, PoolOpens DEF OldTextKept, PlaceOfTool
  <2> QED BY <1>3, <2>1, <2>2, <2>3
<1>4. ASSUME NEW d \in Here, at'[d] \in {"open", "fill"}, d \notin yes,
             Target(d) \in DOMAIN before \cap DOMAIN files'
      PROVE  files'[Target(d)] # before[Target(d)]
  <2>1. before[Target(d)] = {OldText}
    BY <1>2, <1>3, <1>4
  <2>2. CASE d = c
    <3>1. at'[c] = "open" => Target(c) \notin DOMAIN files'
      BY <1>4, <2>2, PoolOpens
    <3> QED BY <1>4, <2>1, <2>2, <3>1, PoolOpens
  <2>3. CASE d # c
    <3>1. at[d] \in {"open", "fill"}
      BY <1>1, <1>4, <2>3 DEF Rest
    <3>2. CASE files' = files \/ Target(d) # Target(c)
      <4>1. Target(d) \in DOMAIN files /\ files'[Target(d)] = files[Target(d)]
        BY <1>4, <3>2, PoolFiles
      <4> QED BY <1>4, <3>1, <4>1 DEF OldTextKept
    <3>3. CASE files' # files /\ Target(d) = Target(c)
      <4>1. /\ at[c] \in {"open", "fill"}
            /\ files'[Target(c)] = {} \/ batch[c].put \in files'[Target(c)]
        BY <1>4, <3>3, PoolFiles
      <4>2. batch[c].put # OldText
        BY <4>1, OwnFragment DEF PlaceOfTool
      <4> QED BY <2>1, <3>3, <4>1, <4>2
    <3> QED BY <3>2, <3>3
  <2> QED BY <2>2, <2>3
<1> QED BY <1>1, <1>2, <1>3, <1>4 DEF Rest, OldTextKept

LEMMA PoolEdits ==
    ASSUME BatchInv, NEW c \in Here, PoolStep(c)
    PROVE  EditKept'
<1> USE DEF BatchInv
<1>1. Rest(c)
  BY PoolRest
<1>2. at[c] = "remove" => at'[c] = "done"
  <2>1. at[c] = "remove" => Harmless(c) \/ DeleteFile(c)
    BY HarmlessSteps, PoolGoes DEF Control, ListTodos, Open, Fill
  <2> QED BY <2>1, PoolGoes DEF Harmless, PlaceOfTool, ProcessTools
<1>3. \A d \in gone' : d \in Calls /\ at'[d] \in {"fill", "done"}
  <2>1. \A d \in gone : d \in Calls /\ at'[d] \in {"fill", "done"}
    BY <1>1, PoolOpens DEF Rest, EditKept
  <2>2. at[c] = "remove" => \A d \in Writers(Target(c)) : d \in Calls /\ at'[d] = "fill"
    BY <1>1 DEF Rest, Writers
  <2> QED BY <2>1, <2>2, PoolFiles
<1>4. ASSUME NEW d \in Here, at'[d] = "fill", d \notin gone'
      PROVE  Target(d) \in DOMAIN files'
  <2>1. CASE d = c
    BY <1>4, <2>1, PoolOpens
  <2>2. CASE d # c
    <3>1. at[d] = "fill" /\ d \notin gone
      BY <1>1, <1>4, <2>2, PoolFiles DEF Rest
    <3>2. Target(d) \in DOMAIN files
      BY <3>1 DEF EditKept
    <3>3. d \in Writers(Target(d))
      BY <3>1 DEF Writers
    <3>4. CASE Target(d) # Target(c)
      BY <3>2, <3>4, PoolFiles
    <3>5. CASE Target(d) = Target(c)
      BY <1>4, <3>2, <3>3, <3>5, PoolFiles
    <3> QED BY <3>4, <3>5
  <2> QED BY <2>1, <2>2
<1>5. ASSUME NEW d \in Here \ {c}, Alone(d)
      PROVE  /\ at'[d] \in {"open", "fill"} => d \notin gone'
             /\ Changed(d)' => Target(d) \in DOMAIN files' /\ batch[d].put \in files'[Target(d)]
  <2>1. /\ at'[d] = at[d] /\ Changed(d)' = Changed(d)
        /\ at[d] \in {"open", "fill"} => d \notin gone
        /\ Changed(d) => Target(d) \in DOMAIN files /\ batch[d].put \in files[Target(d)]
    BY <1>1, <1>5 DEF Rest, EditKept
  <2>2. CASE files' = files /\ gone' = gone
    BY <2>1, <2>2
  <2>3. CASE at[c] \in {"open", "fill", "remove"}
    <3>1. Changes(c)
      BY <2>3 DEF PlaceOfTool, Changes
    <3>2. Target(c) # Target(d)
      BY <1>5, <3>1 DEF Alone
    <3>3. d \notin Writers(Target(c))
      BY <3>2 DEF Writers
    <3> QED BY <2>1, <3>2, <3>3, PoolFiles
  <2> QED BY <2>2, <2>3, PoolFiles
<1>6. at'[c] \in {"open", "fill"} => c \notin gone'
  <2>1. at'[c] \in {"open", "fill"} => at[c] \in {"queued", "open"}
    BY PoolOpens
  <2> QED BY <2>1, PoolFiles DEF EditKept
<1>7. ASSUME Alone(c), Changed(c)'
      PROVE  Target(c) \in DOMAIN files' /\ batch[c].put \in files'[Target(c)]
  <2>1. at'[c] = "done" /\ out'[c].kind = "ok" /\ batch[c].tool \in {"write_file", "patch"}
    BY <1>1, <1>7 DEF Rest, Changed, Alone
  <2>2. Fill(c)
    <3>1. ~Harmless(c)
      BY <2>1 DEF Harmless, ProcessTools
    <3>2. ~ReadFile(c) /\ ~ListTodos(c) /\ ~DeleteFile(c)
      BY <2>1 DEF ReadFile, Accepted, ListTodos, DeleteFile, PlaceOfTool
    <3>3. /\ ~StartWrite(c) /\ ~StartPatch(c) /\ ~StartDelete(c) /\ ~StartTodo(c)
          /\ ~Open(c)
      BY <2>1, PoolGoes DEF Result
    <3> QED BY <3>1, <3>2, <3>3, HarmlessSteps DEF Control
  <2>3. at[c] = "fill" /\ c \notin gone
    BY <1>7, <2>2 DEF Fill, EditKept
  <2>4. PICK rest \in {{}, files[Target(c)]} : files' = With(Target(c), held[c] \cup rest)
    BY <2>2, <2>3 DEF Fill
  <2>5. batch[c].put \in held[c]
    BY <2>3 DEF OldTextKept
  <2> QED BY <2>4, <2>5 DEF With, Without
<1>8. \A d \in Here : Alone(d)' => Alone(d)
  BY <1>1 DEF Rest
<1> QED BY <1>1, <1>3, <1>4, <1>5, <1>6, <1>7, <1>8 DEF Rest, EditKept

(* Where a call of todo is between its operation and its end. *)
LEMMA PoolActs ==
    ASSUME BatchInv, NEW c \in Here, PoolStep(c)
    PROVE  /\ HasActed(c)' => StartTodo(c) \/ (ListTodos(c) /\ at[c] = "list")
           /\ HasActed(c) => ~StartTodo(c)
<1> USE DEF BatchInv
<1>1. Rest(c)
  BY PoolRest
<1>2. ASSUME HasActed(c)'
      PROVE  StartTodo(c) \/ (ListTodos(c) /\ at[c] = "list")
  <2>1. /\ batch[c].tool = "todo"
        /\ at'[c] = "list" \/ (at'[c] = "done" /\ out'[c].kind = "ok")
    BY <1>1, <1>2 DEF Rest, HasActed, Changed
  <2>2. ~Harmless(c)
    BY <2>1 DEF Harmless, Watching, ProcessTools
  <2>3. ~ReadFile(c) /\ ~StartWrite(c) /\ ~StartPatch(c) /\ ~StartDelete(c)
    BY <2>1 DEF ReadFile, StartWrite, StartPatch, StartDelete, Accepted
  <2>4. ~Open(c) /\ ~Fill(c) /\ ~DeleteFile(c)
    BY <2>1 DEF Open, Fill, DeleteFile, PlaceOfTool
  <2> QED BY <2>2, <2>3, <2>4, HarmlessSteps DEF Control, ListTodos
<1> QED BY <1>2, PoolGoes DEF HasActed, Changed

LEMMA PoolTodos ==
    ASSUME BatchInv, NEW c \in Here, PoolStep(c)
    PROVE  TodosOK' /\ TodosKept'
<1> USE DEF BatchInv
<1>1. Rest(c) /\ DOMAIN held = Calls
  BY PoolRest DEF Control, Shape
<1>2. CASE ~StartTodo(c)
  <2>1. todos' = todos
    BY <1>2, HarmlessSteps
       DEF Control, Harmless, ReadFile, StartWrite, StartPatch, StartDelete, ListTodos,
           Open, Fill, DeleteFile
  <2>2. HasActed(c)' => HasActed(c) /\ held' = held
    BY <1>1, <1>2, PoolActs DEF Rest, HasActed, ListTodos
  <2>3. \A d \in Here : /\ HasActed(d)' => HasActed(d) /\ held'[d] = held[d]
                        /\ HasCreated(d)' => HasCreated(d) /\ held'[d] = held[d]
    BY <1>1, <2>2 DEF Rest, HasCreated
  <2> QED BY <1>1, <2>1, <2>3 DEF Rest, TodosOK, StoreOK, TodosKept, AllCompleted
<1>3. CASE StartTodo(c)
  <2>1. /\ TodoAccepts(c) /\ todos' = TodosAfter(c)
        /\ Target(c) = "create" => held'[c] = {todos.next}
    BY <1>1, <1>3 DEF StartTodo, Rest
  <2>2. /\ Grows(todos, TodosAfter(c))
        /\ Target(c) = "create" => TodosAfter(c).next = todos.next + 1
        /\ Target(c) = "complete" => /\ TodoId(c) \in Nat /\ TodoId(c) < todos.next
                                     /\ AllCompleted(TodosAfter(c), TodoId(c))
    <3>1. CASE Target(c) = "create"
      BY <3>1, CreatedGrows DEF TodosAfter, TodosOK
    <3>2. CASE Target(c) = "list"
      BY <3>2 DEF TodosAfter, TodosOK, Grows, StoreOK
    <3>3. CASE Target(c) \in {"update", "complete"}
      BY <2>1, <3>3, UpdatedGrows DEF TodosAfter, TodoAccepts, TodosOK, TodoStatus
    <3>4. CASE Target(c) = "delete"
      BY <2>1, <3>4, RemovedGrows DEF TodosAfter, TodoAccepts, TodosOK
    <3> QED BY <2>1, <3>1, <3>2, <3>3, <3>4 DEF TodoAccepts
  <2>3. /\ todos.next \in Nat /\ todos'.next \in Nat /\ todos.next <= todos'.next
        /\ StoreOK(todos')
    BY <2>1, <2>2 DEF Grows, TodosOK, StoreOK
  <2>4. TodosOK'
    BY <2>3 DEF TodosOK, StoreOK
  <2>5. ASSUME NEW d \in Here, HasCreated(d)'
        PROVE  /\ d # c => \E n \in Nat : held'[d] = {n} /\ n < todos.next
               /\ d = c => held'[d] = {todos.next} /\ todos.next < todos'.next
    <3>1. CASE d # c
      BY <1>1, <2>5, <3>1 DEF Rest, TodosKept
    <3>2. CASE d = c
      <4>1. Target(c) = "create"
        BY <1>1, <2>5, <3>2 DEF Rest, HasCreated
      <4> QED BY <2>1, <2>2, <2>3, <3>2, <4>1
    <3> QED BY <3>1, <3>2
  <2>6. ASSUME NEW d \in Here, HasCreated(d)'
        PROVE  \E n \in Nat : held'[d] = {n} /\ n < todos'.next
    BY <2>3, <2>5, <2>6
  <2>7. ASSUME NEW d \in Here, NEW e \in Here, HasCreated(d)', HasCreated(e)', d # e
        PROVE  held'[d] # held'[e]
    <3>1. CASE d # c /\ e # c
      BY <1>1, <2>7, <3>1 DEF Rest, TodosKept
    <3>2. CASE d = c \/ e = c
      BY <2>3, <2>5, <2>7, <3>2
    <3> QED BY <3>1, <3>2
  <2>8. ASSUME NEW d \in Here, HasActed(d)', Target(d) = "complete"
        PROVE  /\ TodoId(d) \in Nat /\ TodoId(d) < todos'.next
               /\ AllCompleted(todos, TodoId(d))'
    <3>1. CASE d = c
      BY <1>1, <2>1, <2>2, <2>3, <2>8, <3>1 DEF AllCompleted, Rest
    <3>2. CASE d # c
      <4>1. TodoId(d) \in Nat /\ TodoId(d) < todos.next /\ AllCompleted(todos, TodoId(d))
        BY <1>1, <2>8, <3>2 DEF Rest, TodosKept
      <4>2. AllCompleted(TodosAfter(c), TodoId(d))
        BY <2>2, <4>1 DEF Grows
      <4> QED BY <1>1, <2>1, <2>3, <4>1, <4>2 DEF AllCompleted, Rest
    <3> QED BY <3>1, <3>2
  <2> QED BY <1>1, <2>4, <2>6, <2>7, <2>8 DEF Rest, TodosKept, AllCompleted
<1> QED BY <1>2, <1>3

LEMMA BatchInit == Init => BatchInv
<1> SUFFICES ASSUME Init PROVE BatchInv
  OBVIOUS
<1>1. Control
  BY ControlInit
<1> USE DEF Init, Fresh
<1>2. PICK kept \in SUBSET (Named \ Sensitive) :
         files = [p \in kept \cup Sensitive |->
                     IF p \in Sensitive THEN {SecretText} ELSE {OldText}]
  OBVIOUS
<1>3. Here \subseteq Calls /\ \A c \in Calls : at[c] = "none" /\ out[c] = None
  BY <1>1, HereFacts DEF Control
<1>4. PlaceOfTool
  BY <1>3 DEF PlaceOfTool, Watching
<1>5. StoreOK(NewStore)
  BY EmptySeq DEF NewStore, StoreOK
<1>6. TodosOK
  BY <1>5, CreatedGrows DEF TodosOK, Grows
<1>7. SecretsKept
  BY <1>2, <1>3, TextAssumption DEF SecretsKept, None
<1>8. OldTextKept /\ EditKept /\ TodosKept
  BY <1>2, <1>3
     DEF OldTextKept, EditKept, TodosKept, Changed, HasCreated, HasActed
<1> QED BY <1>1, <1>4, <1>6, <1>7, <1>8 DEF BatchInv

LEMMA BatchStep == BatchInv /\ [Next]_vars => BatchInv'
<1> SUFFICES ASSUME BatchInv, [Next]_vars PROVE BatchInv'
  OBVIOUS
<1>1. Control' /\ PlaceOfTool'
  BY ControlStep, PlaceStep DEF BatchInv
<1>2. TodosOK' /\ SecretsKept' /\ OldTextKept' /\ EditKept' /\ TodosKept'
  <2>1. CASE AgentStep \/ (\E c \in Here : ProgramStep(c)) \/ UNCHANGED vars
    BY <2>1, QuietSteps, QuietContents DEF BatchInv
  <2>2. CASE Someone
    BY <2>2, SomeoneContents
  <2>3. ASSUME NEW c \in Here, PoolStep(c)
        PROVE  TodosOK' /\ SecretsKept' /\ OldTextKept' /\ EditKept' /\ TodosKept'
    BY <2>3, PoolTodos, PoolSecrets, PoolOldText, PoolEdits
  <2> QED BY <2>1, <2>2, <2>3 DEF Next
<1> QED BY <1>1, <1>2 DEF BatchInv

\* Whatever is asked for and answered, a sensitive file stays as it is and its text is in
\* no result, what crosses a red line does not start, and no program starts for a
\* delegated task.
THEOREM RedLinesAreKept == Spec => []RedLinesHold
<1>1. BatchInv => RedLinesHold
  <2> SUFFICES ASSUME BatchInv PROVE RedLinesHold
    OBVIOUS
  <2> USE DEF BatchInv, Control
  <2>1. /\ \A p \in Sensitive : p \in DOMAIN files /\ files[p] = before[p]
        /\ \A c \in Calls : SecretText \notin out[c].text
    BY DEF SecretsKept
  <2>2. \A c \in Here : decision[c] # "go" => at[c] = "none"
    BY HereFacts DEF Started, ToRun
  <2>3. guard => \A c \in Here : RedLine(batch[c]) => at[c] = "none"
    BY <2>2 DEF Blocked
  <2>4. allowed # Tools => \A c \in Here : batch[c].tool \in ProcessTools => at[c] = "none"
    <3> SUFFICES ASSUME allowed # Tools, NEW c \in Here, batch[c].tool \in ProcessTools
                 PROVE  at[c] = "none"
      OBVIOUS
    <3>1. NotAllowed(c)
      BY DEF NotAllowed, AgentOK
    <3>2. stage \in After => decision[c] = "block"
      BY <3>1 DEF Blocked
    <3>3. stage \notin After => at[c] = "none"
      BY HereFacts DEF Started
    <3> QED BY <2>2, <3>2, <3>3
  <2> QED BY <2>1, <2>3, <2>4 DEF RedLinesHold
<1> QED BY <1>1, BatchInit, BatchStep, PTL DEF Spec

\* A file that still has what the batch found in it loses it to a call of the batch only
\* if that call was approved, whatever the plugin saw and whether it is there.
THEOREM OnlyAYesTouchesOldText == Spec => OldTextNeedsAYes
<1>1. ASSUME BatchInv, BatchInv', Next,
             NEW p \in DOMAIN before \cap DOMAIN files,
             files[p] = before[p], ByTheBatch,
             ~(p \in DOMAIN files' /\ files'[p] = files[p])
      PROVE  \E c \in yes : Target(c) = p /\ at'[c] # at[c]
  <2> USE DEF BatchInv
  <2>1. files' # files
    BY <1>1
  <2>2. PICK c \in Here : PoolStep(c)
    <3>1. ~Someone
      BY <1>1 DEF Someone, SomeoneWrites, SomeoneDeletes, ByTheBatch
    <3>2. ~AgentStep /\ ~(\E c \in Here : ProgramStep(c))
      BY <1>1, <2>1, QuietSteps DEF Quiet
    <3> QED BY <1>1, <3>1, <3>2 DEF Next
  <2>3. Rest(c)
    BY <1>1, <2>2, PoolRest
  <2>4. Target(c) = p /\ at[c] \in {"open", "fill", "remove"}
    BY <1>1, <2>1, <2>2, PoolFiles
  <2>5. c \in yes
    BY <1>1, <2>4 DEF OldTextKept, PlaceOfTool
  <2>6. at'[c] # at[c]
    <3>1. at[c] \in {"open", "fill"} => at'[c] # at[c]
      BY <1>1, <2>2, PoolOpens
    <3>2. at[c] = "remove" => at'[c] # at[c]
      BY <1>1, <2>2, HarmlessSteps, PoolGoes DEF Control, Harmless, Watching
    <3> QED BY <2>4, <3>1, <3>2
  <2> QED BY <2>4, <2>5, <2>6
<1>2. BatchInv /\ BatchInv' /\ [Next]_vars
      => [\A p \in DOMAIN before \cap DOMAIN files :
             /\ files[p] = before[p]
             /\ ByTheBatch /\ ~(p \in DOMAIN files' /\ files'[p] = files[p])
             => \E c \in yes : Target(c) = p /\ at'[c] # at[c]]_vars
  BY <1>1
<1> QED BY <1>2, BatchInit, BatchStep, PTL DEF Spec, OldTextNeedsAYes

\* An edit that is reported as done is in a file nobody else had to do with, two todos
\* never get one number, and what was reported as completed is not open again.
THEOREM ReportedEditsStick == Spec => []EditsStick
<1>1. BatchInv => EditsStick
  <2> SUFFICES ASSUME BatchInv, stage = "over" PROVE EditsStick
    BY DEF EditsStick
  <2> USE DEF BatchInv
  <2>1. ToRun \subseteq Here /\ \A c \in ToRun : at[c] = "done"
    BY DEF Control, Started, Told, ToRun
  <2>2. ASSUME NEW c \in ToRun, out[c].kind = "ok", batch[c].tool \in {"write_file", "patch"},
               Target(c) \notin others,
               \A d \in Here \ {c} : ~(Changes(d) /\ Target(d) = Target(c))
        PROVE  Target(c) \in DOMAIN files /\ batch[c].put \in files[Target(c)]
    BY <2>1, <2>2 DEF EditKept, Alone, Changed
  <2>3. ASSUME NEW c \in ToRun, NEW d \in ToRun, Creates(c), out[c].kind = "ok",
               Creates(d), out[d].kind = "ok", c # d
        PROVE  held[c] # held[d]
    BY <2>1, <2>3 DEF TodosKept, HasCreated, HasActed, Changed, Creates
  <2>4. ASSUME NEW c \in ToRun, NEW item \in Range(todos.items),
               batch[c].tool = "todo", Target(c) = "complete", out[c].kind = "ok",
               item.id = TodoId(c)
        PROVE  item.status = "completed"
    <3>1. AllCompleted(todos, TodoId(c))
      BY <2>1, <2>4 DEF TodosKept, HasActed, Changed
    <3> QED BY <2>4, <3>1 DEF AllCompleted, Range
  <2> QED BY <2>2, <2>3, <2>4 DEF EditsStick
<1> QED BY <1>1, BatchInit, BatchStep, PTL DEF Spec

--------------------------------------------------------------------------------
(* Types and limits *)

Kept == /\ allowed \subseteq Tools /\ yes \subseteq Calls /\ gone \subseteq Calls
        /\ DOMAIN files \subseteq Paths /\ others \subseteq Paths
        /\ \A c \in Calls : out[c].kind \in Kinds

\* The age of a program is looked at before its memory is, so that it is not watched for
\* longer than one poll after its limit.
Watched == ProcTypeOK /\ \A c \in Here : at[c] = "measure" => proc[c].age <= TimeLimit

InPool == Cardinality(Busy) <= MaxParallel

TypeInv == Control /\ PlaceOfTool /\ TodosOK /\ Kept /\ Watched /\ InPool

LEMMA Numbered == ASSUME NEW n \in Nat PROVE Cardinality(1..n) = n
<1>1. Cardinality(1..n) = IF 1 > n THEN 0 ELSE n - 1 + 1
  BY FS_Interval
<1> QED BY <1>1

LEMMA OneMore ==
    ASSUME NEW n \in Nat, NEW x \in 0..n + 1
    PROVE  0 \in 0..n + 1 /\ (x <= n => x + 1 \in 0..n + 1)
OBVIOUS

LEMMA TypeInit == Init => TypeInv
<1> SUFFICES ASSUME Init PROVE TypeInv
  OBVIOUS
<1>1. Control /\ PlaceOfTool /\ TodosOK
  BY BatchInit DEF BatchInv
<1>2. Here \subseteq Calls /\ at = Fresh("none") /\ out = Fresh(None)
  BY <1>1, HereFacts DEF Control, Init
<1>3. Kept
  <2>1. allowed \subseteq Tools
    BY BatchAssumption DEF Init, Agent, Delegated, ReadOnlyTools, Tools, FileTools
  <2>2. DOMAIN files \subseteq Paths
    BY PathsAssumption DEF Init, Named
  <2> QED BY <1>2, <2>1, <2>2 DEF Init, Kept, Fresh, None, Kinds
<1>4. Watched
  BY <1>2, LimitsAssumption DEF Init, ProcInit, Idle, Watched, ProcTypeOK, Fresh
<1>5. InPool
  <2>1. Busy = {}
    BY <1>2 DEF Busy, Fresh
  <2> QED BY <2>1, FS_EmptySet, BatchAssumption DEF InPool
<1> QED BY <1>1, <1>3, <1>4, <1>5 DEF TypeInv

(* A call has a result when it is done, and keeps it. *)
LEMMA ResultStep ==
    ASSUME Shape, NEW c \in Here, PoolStep(c)
    PROVE  out'[c] = out[c] \/ at'[c] = "done"
<1> USE DEF Shape
<1>1. c \in Calls
  BY HereFacts
<1>2. ASSUME NEW result, Returns(c, result) PROVE at'[c] = "done"
  BY <1>1, <1>2 DEF Returns, Goes
<1>3. CASE Rejected(c) \/ FindsNone(c) \/ ReadFile(c) \/ StartWrite(c) \/ StartPatch(c)
           \/ StartDelete(c) \/ StartProgram(c)
  BY <1>2, <1>3 DEF Rejected, FindsNone, ReadFile, StartWrite, StartPatch, StartDelete,
     StartProgram
<1>4. CASE StartTodo(c) \/ TodoRaises(c) \/ ListTodos(c) \/ Open(c) \/ Fill(c)
           \/ WriteFails(c) \/ DeleteFile(c)
  BY <1>2, <1>4 DEF StartTodo, TodoRaises, ListTodos, Open, Fill, WriteFails, DeleteFile
<1>5. CASE Watch(c) \/ Wait(c) \/ Kill(c)
  BY <1>2, <1>5 DEF Watch, Wait, Kill
<1> QED BY <1>3, <1>4, <1>5 DEF PoolStep

LEMMA KeptStep == TypeInv /\ [Next]_vars => Kept'
<1> SUFFICES ASSUME TypeInv, [Next]_vars PROVE Kept'
  OBVIOUS
<1> USE DEF TypeInv, Control
<1>1. Here \subseteq Calls
  BY HereFacts
<1>2. CASE AgentStep
  <2>1. /\ UNCHANGED <<allowed, gone, files, others, out>>
        /\ yes' = yes \/ (cursor \in Here /\ yes' \subseteq yes \cup {cursor})
    BY <1>2 DEF AgentStep, Decide, AllDecided, Submit, Joined, Report, BatchEnds, Settle
  <2> QED BY <1>1, <2>1 DEF Kept
<1>3. ASSUME NEW c \in Here, PoolStep(c) PROVE Kept'
  <2>1. /\ UNCHANGED <<allowed, yes>> /\ c \in Calls
        /\ at'[c] = "done" => out'[c].kind \in Ends
        /\ \A d \in Calls \ {c} : out'[d] = out[d]
    BY <1>1, <1>3, PoolFrame DEF control
  <2>2. \A d \in Calls : out'[d].kind \in Kinds
    BY <1>3, <2>1, ResultStep DEF Kept, Ends
  <2>3. gone' \subseteq Calls /\ DOMAIN files' \subseteq Paths /\ others' = others
    <3>1. CASE Harmless(c)
      BY <3>1 DEF Harmless, Kept
    <3>2. CASE ReadFile(c) \/ StartWrite(c) \/ StartPatch(c) \/ StartDelete(c)
               \/ StartTodo(c) \/ ListTodos(c)
      BY <3>2 DEF ReadFile, StartWrite, StartPatch, StartDelete, StartTodo, ListTodos, Kept
    <3>3. CASE Open(c) \/ Fill(c)
      <4>1. Target(c) \in Paths
        BY <3>3, BatchAssumption DEF Open, Fill, PlaceOfTool, FileTools, Target, Shape, Here
      <4> QED BY <3>3, <4>1 DEF Open, Fill, With, Kept
    <3>4. CASE DeleteFile(c)
      BY <1>1, <3>4 DEF DeleteFile, Without, Writers, Kept
    <3> QED BY <1>3, <3>1, <3>2, <3>3, <3>4, HarmlessSteps
  <2> QED BY <2>1, <2>2, <2>3 DEF Kept
<1>4. CASE Someone
  <2>1. PICK p \in Named \ Sensitive : SomeoneWrites(p) \/ SomeoneDeletes(p)
    BY <1>4 DEF Someone
  <2> QED BY <1>1, <2>1 DEF SomeoneWrites, SomeoneDeletes, With, Without, Writers, Named,
      control, Kept
<1>5. CASE (\E c \in Here : ProgramStep(c)) \/ UNCHANGED vars
  BY <1>5 DEF ProgramStep, vars, control, Kept
<1> QED BY <1>2, <1>3, <1>4, <1>5 DEF Next

Proc == [main : BOOLEAN, kids : SUBSET Children, forked : SUBSET Children,
         linked : SUBSET Children, age : 0..TimeLimit + 1, soft : 0..Grace + 1,
         targets : SUBSET Children]

(* Of the steps of a program or of its watcher only a poll lets it grow older. *)
LEMMA WatchedPool ==
    ASSUME TypeInv, NEW c \in Here, PoolStep(c)
    PROVE  Watched'
<1> USE DEF TypeInv, Control, Shape
<1>1. /\ c \in Calls /\ Here' = Here /\ at' \in [Calls -> Places] /\ proc \in [Calls -> Proc]
      /\ \A d \in Calls \ {c} : at'[d] = at[d]
  BY PoolFrame, HereFacts DEF control, Here, Watched, ProcTypeOK, Proc
<1>2. Here \subseteq Calls /\ TimeLimit \in Nat /\ Grace \in Nat
  BY HereFacts, LimitsAssumption
<1>3. ASSUME NEW x \in Proc, proc' = [proc EXCEPT ![c] = x],
             at'[c] = "measure" => x.age <= TimeLimit
      PROVE  Watched'
  BY <1>1, <1>2, <1>3 DEF Watched, ProcTypeOK, Proc
<1>4. ASSUME UNCHANGED proc, at'[c] # "measure" PROVE Watched'
  BY <1>1, <1>2, <1>4 DEF Watched, ProcTypeOK
<1>5. ASSUME NEW to, Goes(c, to) PROVE at'[c] = to
  BY <1>1, <1>5 DEF Goes
<1>6. ASSUME NEW result, Returns(c, result) PROVE at'[c] = "done"
  BY <1>1, <1>6 DEF Returns, Goes
<1>7. /\ proc[c] \in Proc /\ 0 \in 0..TimeLimit + 1 /\ 0 \in 0..Grace + 1
      /\ proc[c].age <= TimeLimit => proc[c].age + 1 \in 0..TimeLimit + 1
      /\ proc[c].soft <= Grace => proc[c].soft + 1 \in 0..Grace + 1
  <2>1. proc[c] \in Proc
    BY <1>1
  <2>2. proc[c].age \in 0..TimeLimit + 1 /\ proc[c].soft \in 0..Grace + 1
    BY <2>1 DEF Proc
  <2> QED BY <1>2, <2>1, <2>2, OneMore
<1>8. CASE ~(StartProgram(c) \/ Watch(c) \/ Wait(c) \/ Kill(c))
  <2>1. UNCHANGED proc
    BY <1>8 DEF PoolStep, Rejected, FindsNone, ReadFile, StartWrite, StartPatch, StartDelete,
       StartTodo, TodoRaises, ListTodos, Open, Fill, WriteFails, DeleteFile
  <2>2. at'[c] # "measure"
    <3>1. CASE Rejected(c) \/ FindsNone(c) \/ ReadFile(c) \/ StartWrite(c) \/ StartPatch(c)
               \/ StartDelete(c)
      BY <1>5, <1>6, <3>1 DEF Rejected, FindsNone, ReadFile, StartWrite, StartPatch,
         StartDelete
    <3>2. CASE StartTodo(c) \/ TodoRaises(c) \/ ListTodos(c) \/ Open(c) \/ Fill(c)
               \/ WriteFails(c) \/ DeleteFile(c)
      BY <1>5, <1>6, <3>2 DEF StartTodo, TodoRaises, ListTodos, Open, Fill, WriteFails,
         DeleteFile
    <3> QED BY <1>8, <3>1, <3>2 DEF PoolStep
  <2> QED BY <1>4, <2>1, <2>2
<1>9. CASE StartProgram(c)
  <2>1. at'[c] # "measure"
    BY <1>5, <1>6, <1>9 DEF StartProgram
  <2>2. [Idle EXCEPT !.main = TRUE] \in Proc
    BY <1>7 DEF Idle, Proc
  <2> QED BY <1>3, <1>9, <2>1, <2>2 DEF StartProgram, Popen
<1>10. CASE Watch(c)
  <2>1. CASE at[c] = "watch" /\ ListTree(c) /\ Goes(c, "measure")
    <3>1. proc' = [proc EXCEPT ![c] = [proc[c] EXCEPT !.targets = Descendants(c)]]
          /\ proc[c].age <= TimeLimit
      BY <1>2, <1>7, <2>1 DEF ListTree, Expired, Proc
    <3>2. [proc[c] EXCEPT !.targets = Descendants(c)] \in Proc
      BY <1>7 DEF Proc, Descendants
    <3> QED BY <1>3, <1>7, <3>1, <3>2 DEF Proc
  <2>2. CASE \E m \in Memory : PollGoesOn(c, m) /\ at[c] = "measure" /\ Goes(c, "watch")
    <3>1. proc[c].age <= TimeLimit /\ at'[c] = "watch"
      BY <1>5, <2>2 DEF Watched
    <3>2. CASE proc' = [proc EXCEPT ![c].age = @ + 1, ![c].soft = 0]
      <4>1. proc' = [proc EXCEPT ![c] = [proc[c] EXCEPT !.age = @ + 1, !.soft = 0]]
        BY <1>1, <3>2
      <4>2. [proc[c] EXCEPT !.age = @ + 1, !.soft = 0] \in Proc
        BY <1>7, <3>1 DEF Proc
      <4> QED BY <1>3, <3>1, <4>1, <4>2
    <3>3. CASE proc[c].soft <= Grace /\ proc' = [proc EXCEPT ![c].age = @ + 1, ![c].soft = @ + 1]
      <4>1. proc' = [proc EXCEPT ![c] = [proc[c] EXCEPT !.age = @ + 1, !.soft = @ + 1]]
        BY <1>1, <3>3
      <4>2. [proc[c] EXCEPT !.age = @ + 1, !.soft = @ + 1] \in Proc
        BY <1>7, <3>1, <3>3 DEF Proc
      <4> QED BY <1>3, <3>1, <4>1, <4>2
    <3> QED BY <2>2, <3>2, <3>3 DEF PollGoesOn
  <2>3. CASE proc' = [proc EXCEPT ![c].targets = Descendants(c)] /\ at'[c] # "measure"
    <3>1. [proc[c] EXCEPT !.targets = Descendants(c)] \in Proc
      BY <1>7 DEF Proc, Descendants
    <3> QED BY <1>3, <2>3, <3>1
  <2>4. CASE UNCHANGED proc /\ at'[c] = "done"
    BY <1>4, <2>4
  <2> QED BY <1>5, <1>6, <1>10, <2>1, <2>2, <2>3, <2>4
          DEF Watch, PollExpires, PollOverflows, PollRaises, PollFindsExit
<1>11. CASE Wait(c)
  <2>1. CASE Waits(c) /\ UNCHANGED at /\ at[c] = "wait"
    <3>1. /\ proc' = [proc EXCEPT ![c] = [proc[c] EXCEPT !.age = @ + 1]]
          /\ proc[c].age <= TimeLimit
      BY <1>2, <1>7, <2>1 DEF Waits, Expired, Proc
    <3>2. [proc[c] EXCEPT !.age = @ + 1] \in Proc
      BY <1>7, <3>1 DEF Proc
    <3> QED BY <1>3, <2>1, <3>1, <3>2
  <2>2. CASE WaitSeesEnd(c) /\ at'[c] = "done"
    BY <1>4, <2>2 DEF WaitSeesEnd
  <2>3. CASE WaitGivesUp(c) /\ at'[c] = "kill"
    <3>1. [proc[c] EXCEPT !.targets = Descendants(c)] \in Proc
      BY <1>7 DEF Proc, Descendants
    <3> QED BY <1>3, <2>3, <3>1 DEF WaitGivesUp
  <2> QED BY <1>5, <1>6, <1>11, <2>1, <2>2, <2>3 DEF Wait
<1>12. CASE Kill(c)
  <2>1. at'[c] # "measure"
    BY <1>6, <1>12 DEF Kill
  <2>2. ASSUME NEW k \in Children, KillChild(c, k) PROVE Watched'
    <3>1. proc' = [proc EXCEPT ![c] = [proc[c] EXCEPT !.kids = @ \ {k}, !.targets = @ \ {k}]]
      BY <1>1, <2>2 DEF KillChild
    <3>2. [proc[c] EXCEPT !.kids = @ \ {k}, !.targets = @ \ {k}] \in Proc
      BY <1>7 DEF Proc
    <3> QED BY <1>3, <2>1, <3>1, <3>2
  <2>3. CASE KillMeetsGhost(c)
    BY <1>4, <2>1, <2>3 DEF KillMeetsGhost
  <2>4. CASE KillMain(c)
    <3>1. proc' = [proc EXCEPT ![c] = [proc[c] EXCEPT !.main = FALSE, !.linked = {}]]
      BY <1>1, <2>4 DEF KillMain
    <3>2. [proc[c] EXCEPT !.main = FALSE, !.linked = {}] \in Proc
      BY <1>7 DEF Proc
    <3> QED BY <1>3, <2>1, <3>1, <3>2
  <2> QED BY <1>12, <2>2, <2>3, <2>4 DEF Kill
<1> QED BY <1>8, <1>9, <1>10, <1>11, <1>12

LEMMA WatchedStep == TypeInv /\ [Next]_vars => Watched'
<1> SUFFICES ASSUME TypeInv, [Next]_vars PROVE Watched'
  OBVIOUS
<1> USE DEF TypeInv, Control
<1>1. Here \subseteq Calls /\ proc \in [Calls -> Proc]
  BY HereFacts DEF Watched, ProcTypeOK, Proc
<1>2. ASSUME NEW c \in Here, ProgramStep(c) PROVE Watched'
  <2>1. UNCHANGED <<batch, at>> /\ Here' = Here /\ c \in Calls /\ proc[c] \in Proc
    BY <1>1, <1>2 DEF ProgramStep, control, Here
  <2>2. ASSUME NEW x \in Proc, proc' = [proc EXCEPT ![c] = x], x.age = proc[c].age
        PROVE  Watched'
    BY <1>1, <2>1, <2>2 DEF Watched, ProcTypeOK, Proc
  <2>3. CASE MainExits(c)
    <3>1. proc' = [proc EXCEPT ![c] = [proc[c] EXCEPT !.main = FALSE, !.linked = {}]]
      BY <1>1, <2>1, <2>3 DEF MainExits
    <3>2. [proc[c] EXCEPT !.main = FALSE, !.linked = {}] \in Proc
      BY <2>1 DEF Proc
    <3> QED BY <2>1, <2>2, <3>1, <3>2 DEF Proc
  <2>4. ASSUME NEW k \in Children, Fork(c, k) PROVE Watched'
    <3>1. proc' = [proc EXCEPT ![c] = [proc[c] EXCEPT !.kids = @ \cup {k},
                                          !.forked = @ \cup {k}, !.linked = @ \cup {k}]]
      BY <1>1, <2>1, <2>4 DEF Fork
    <3>2. [proc[c] EXCEPT !.kids = @ \cup {k}, !.forked = @ \cup {k},
                          !.linked = @ \cup {k}] \in Proc
      BY <2>1 DEF Proc
    <3> QED BY <2>1, <2>2, <3>1, <3>2 DEF Proc
  <2>5. ASSUME NEW k \in Children, ChildExits(c, k) PROVE Watched'
    <3>1. proc' = [proc EXCEPT ![c] = [proc[c] EXCEPT !.kids = @ \ {k}]]
      BY <1>1, <2>1, <2>5 DEF ChildExits
    <3>2. [proc[c] EXCEPT !.kids = @ \ {k}] \in Proc
      BY <2>1 DEF Proc
    <3> QED BY <2>1, <2>2, <3>1, <3>2 DEF Proc
  <2> QED BY <1>2, <2>3, <2>4, <2>5 DEF ProgramStep
<1>3. CASE AgentStep
  <2>1. UNCHANGED <<batch, proc>> /\ (UNCHANGED at \/ \A c \in Calls : at'[c] # "measure")
    BY <1>3 DEF AgentStep, Decide, AllDecided, Submit, Joined, Report, BatchEnds, Settle
  <2> QED BY <1>1, <2>1 DEF Watched, ProcTypeOK, Here
<1>4. CASE Someone \/ UNCHANGED vars
  <2>1. UNCHANGED <<batch, proc, at>>
    BY <1>4 DEF Someone, SomeoneWrites, SomeoneDeletes, vars, control
  <2> QED BY <2>1 DEF Watched, ProcTypeOK, Here
<1> QED BY <1>2, <1>3, <1>4, WatchedPool DEF Next

(* A call is begun only while a thread of the pool is free. *)
LEMMA InPoolStep == TypeInv /\ [Next]_vars => InPool'
<1> SUFFICES ASSUME TypeInv, [Next]_vars PROVE InPool'
  OBVIOUS
<1> USE DEF TypeInv, Control
<1>1. /\ Len(batch) \in Nat /\ Here = 1..Len(batch) /\ Here \subseteq Calls
      /\ MaxParallel \in Nat
  BY HereFacts, BatchAssumption
<1>2. IsFiniteSet(Here)
  BY <1>1, FS_Interval
<1>3. IsFiniteSet(Busy) /\ Cardinality(Busy) \in Nat
  BY <1>2, FS_Subset, FS_CardinalityType DEF Busy
<1>4. ASSUME Busy' \subseteq Busy PROVE InPool'
  <2>1. IsFiniteSet(Busy') /\ Cardinality(Busy') <= Cardinality(Busy)
    BY <1>3, <1>4, FS_Subset
  <2>2. Cardinality(Busy') \in Nat
    BY <2>1, FS_CardinalityType
  <2> QED BY <1>1, <1>3, <2>1, <2>2 DEF InPool
<1>5. ASSUME NEW c \in Here, PoolStep(c) PROVE InPool'
  <2>1. /\ c \in Calls /\ Here' = Here /\ at[c] \notin {"none", "done"}
        /\ \A d \in Calls \ {c} : at'[d] = at[d]
    BY <1>1, <1>5, PoolFrame DEF control, Here
  <2>2. CASE at[c] # "queued"
    <3>1. Busy' \subseteq Busy
      BY <1>1, <2>1, <2>2 DEF Busy
    <3> QED BY <1>4, <3>1
  <2>3. CASE at[c] = "queued"
    <3>1. Cardinality(Busy) < MaxParallel
      BY <1>5, <2>3 DEF PoolStep, Rejected, FindsNone, ReadFile, StartWrite, StartPatch,
         StartDelete, StartProgram, StartTodo, TodoRaises, ListTodos, Open, Fill, WriteFails,
         DeleteFile, Watch, Wait, Kill, Accepted, Begins
    <3>2. Busy' \subseteq Busy \cup {c}
      BY <1>1, <2>1 DEF Busy
    <3>3. /\ IsFiniteSet(Busy \cup {c})
          /\ Cardinality(Busy \cup {c}) = IF c \in Busy THEN Cardinality(Busy)
                                          ELSE Cardinality(Busy) + 1
      BY <1>3, FS_AddElement
    <3>4. IsFiniteSet(Busy') /\ Cardinality(Busy') <= Cardinality(Busy \cup {c})
      BY <3>2, <3>3, FS_Subset
    <3>5. Cardinality(Busy') \in Nat
      BY <3>4, FS_CardinalityType
    <3> QED BY <1>1, <1>3, <3>1, <3>3, <3>4, <3>5 DEF InPool
  <2> QED BY <2>2, <2>3
<1>6. CASE AgentStep
  <2>1. batch' = batch /\ (UNCHANGED at \/ \A c \in Calls : at'[c] \in {"none", "queued"})
    BY <1>6 DEF AgentStep, Decide, AllDecided, Submit, Joined, Report, BatchEnds, Settle
  <2>2. Busy' \subseteq Busy
    BY <1>1, <2>1 DEF Busy, Here
  <2> QED BY <1>4, <2>2
<1>7. CASE (\E c \in Here : ProgramStep(c)) \/ Someone \/ UNCHANGED vars
  <2>1. UNCHANGED <<batch, at>>
    BY <1>7 DEF ProgramStep, Someone, SomeoneWrites, SomeoneDeletes, vars, control
  <2>2. Busy' \subseteq Busy
    BY <2>1 DEF Busy, Here
  <2> QED BY <1>4, <2>2
<1> QED BY <1>5, <1>6, <1>7 DEF Next

\* Every variable is of its kind, no more calls of a batch are in hand than the pool has
\* threads (_MAX_PARALLEL_TOOLS), a todo never has a number that is still to be given, and a
\* program is watched at most one poll past its limit, for any batches, programs and limits
\* (ToolExecutor.execute, _run_with_limits, TodoStore).
THEOREM BatchTypeCorrect == Spec => []TypeOK
<1>1. BatchInv /\ TypeInv /\ [Next]_vars => BatchInv' /\ TypeInv'
  BY BatchStep, KeptStep, WatchedStep, InPoolStep DEF BatchInv, TypeInv
<1>2. TypeInv => TypeOK
  <2> SUFFICES ASSUME TypeInv PROVE TypeOK
    OBVIOUS
  <2> USE DEF TypeInv, Control, Shape
  <2>1. Len(batch) \in Nat /\ Here = 1..Len(batch)
    BY HereFacts
  <2>2. Cardinality(Here) = Len(batch)
    BY <2>1, Numbered
  <2>3. \A item \in Range(todos.items) : item.status \in Statuses /\ item.id < todos.next
    <3> SUFFICES ASSUME NEW n \in DOMAIN todos.items
                 PROVE  /\ todos.items[n].status \in Statuses
                        /\ todos.items[n].id < todos.next
      BY DEF Range
    <3>1. todos.items \in Seq(Items) /\ todos.items[n].id < todos.next
      BY DEF TodosOK, StoreOK
    <3>2. todos.items[n] \in Items
      BY <3>1, ElementOfSeq
    <3> QED BY <3>1, <3>2 DEF Items
  <2> QED BY <2>1, <2>2, <2>3
          DEF TypeOK, Watched, Kept, InPool, Stages, Decisions, Places
<1> QED BY BatchInit, TypeInit, <1>1, <1>2, PTL DEF Spec
================================================================================
