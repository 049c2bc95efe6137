------------------------------- MODULE ToolBatch -------------------------------
(***************************************************************************)
(* The calls of one model answer, from the decisions to the results        *)
(* (Agent._run_tool_loop, ToolExecutor.execute).  The agent's thread       *)
(* decides every call, then asks for the approvals one at a time, then     *)
(* runs what may run in a pool of threads and waits for all of it, then    *)
(* reports in the order of the calls.  The file tools of the pool work on  *)
(* the same files, each in several steps, beside whoever else does.        *)
(***************************************************************************)
EXTENDS ToolDecisions, ToolProcess, TodoStore

CONSTANTS
    Batches,        \* the sequences of calls a model may ask for
    Wishes,         \* the sets of tools a parent asks for when it delegates
    MaxParallel,    \* _MAX_PARALLEL_TOOLS
    OldText, TheirText, SecretText,     \* fragments of files
    MaxOthers       \* bound: changes made by someone else

ASSUME BatchAssumption ==
    /\ MaxParallel \in Nat \ {0} /\ MaxOthers \in Nat /\ Wishes \subseteq SUBSET Tools
    /\ \A b \in Batches :
          /\ Len(b) \in Nat /\ DOMAIN b = 1..Len(b) /\ DOMAIN b \subseteq Calls
          /\ \A c \in DOMAIN b : b[c].tool \in FileTools => b[c].target \in Paths

\* A fragment stands for who wrote it: what the files begin with and what others write
\* is told from what the calls write, and the secret is nowhere else (todos are records).
ASSUME TextAssumption == /\ SecretText \notin {OldText, TheirText} /\ OldText # TheirText
                         /\ \A b \in Batches : \A c \in DOMAIN b :
                               b[c].tool \in {"write_file", "patch"}
                               => b[c].put \notin {OldText, SecretText}
                         /\ SecretText \notin [id : Nat, status : Statuses]

VARIABLES
    guard,      \* whether the security_guard plugin listens to the agent's events
    allowed,    \* the allowlist of the agent
    files,      \* the files there are and the fragments of each
    before,     \* history: files when the batch began
    batch, stage, cursor,
    decision,   \* Agent: decisions, then ToolExecutor: pending
    yes,        \* calls with approved among their arguments
    at,         \* how far each call has come
    held,       \* the content a handler holds
    gone,       \* calls whose open file has been removed meanwhile
    out,        \* what execute_tool returned
    answers,    \* the tool-result events and messages, in order
    others,     \* history: paths someone else has changed
    todos       \* the store of todos that all calls share

control == <<guard, allowed, before, batch, stage, cursor, decision, yes, answers>>
vars == <<control, proc, files, at, held, gone, out, others, todos>>

None == [kind |-> "none", text |-> {}]
Result(kind) == [kind |-> kind, text |-> {}]
Here == DOMAIN batch
Target(c) == batch[c].target
Named == {Target(c) : c \in Here} \cap Paths
Fresh(v) == [c \in Calls |-> v]

\* A main agent has all tools, a subagent those it was given.  The plugin may be switched
\* off, and the delegate_task tool runs its subagent on an event bus without plugins; one
\* that the manager spawned has those that serve attaches when it is registered.
Agent == /\ guard \in BOOLEAN
         /\ \/ allowed = Tools
            \/ \E wish \in Wishes, mayWrite \in BOOLEAN : allowed = Delegated(wish, mayWrite)

Init == /\ Agent
        /\ batch \in Batches
        /\ \E kept \in SUBSET (Named \ Sensitive) :
              files = [p \in kept \cup Sensitive |->
                          IF p \in Sensitive THEN {SecretText} ELSE {OldText}]
        /\ before = files
        /\ stage = "decide" /\ cursor = 1
        /\ decision = Fresh("none") /\ yes = {} /\ at = Fresh("none") /\ held = Fresh({})
        /\ gone = {} /\ out = Fresh(None) /\ answers = <<>> /\ others = {}
        /\ todos = Created(NewStore)
        /\ ProcInit

--------------------------------------------------------------------------------
(* The agent's thread *)

\* bail agent/tool-call, for every call of the answer before any of them runs.
Decide == /\ stage = "decide" /\ cursor \in Here
          /\ decision' = [decision EXCEPT ![cursor] =
                             IF guard THEN Decision(batch[cursor], files) ELSE "go"]
          /\ cursor' = cursor + 1
          /\ UNCHANGED <<guard, allowed, before, batch, stage, yes, answers,
                         proc, files, at, held, gone, out, others, todos>>

AllDecided == /\ stage = "decide" /\ cursor \notin Here
              /\ stage' = "approve" /\ cursor' = 1
              /\ UNCHANGED <<guard, allowed, before, batch, decision, yes, answers,
                             proc, files, at, held, gone, out, others, todos>>

NotAllowed(c) == batch[c].tool \notin allowed

\* Stage 1 for one call: the allowlist comes before the decision; a call to approve
\* waits for the answer (of the user by ApprovalBridge, or for a subagent of the paths
\* it was granted), which may be no.
Settle(answer) ==
    /\ stage = "approve" /\ cursor \in Here
    /\ LET asks == ~NotAllowed(cursor) /\ decision[cursor] = "ask" IN
       /\ decision' = [decision EXCEPT ![cursor] =
                          IF NotAllowed(cursor) THEN "block"
                          ELSE IF ~asks THEN @ ELSE IF answer THEN "go" ELSE "denied"]
       /\ yes' = IF asks /\ answer THEN yes \cup {cursor} ELSE yes
    /\ cursor' = cursor + 1
    /\ UNCHANGED <<guard, allowed, before, batch, stage, answers,
                   proc, files, at, held, gone, out, others, todos>>

ToRun == {c \in Here : decision[c] = "go"}

\* Stage 2: everything is handed to the pool at once.
Submit == /\ stage = "approve" /\ cursor \notin Here
          /\ stage' = "run" /\ cursor' = 1
          /\ at' = [c \in Calls |-> IF c \in ToRun THEN "queued" ELSE "none"]
          /\ UNCHANGED <<guard, allowed, before, batch, decision, yes, answers,
                         proc, files, held, gone, out, others, todos>>

Done(c) == at[c] = "done"

\* The pool is left when every future has its result.
Joined == /\ stage = "run" /\ \A c \in ToRun : Done(c)
          /\ stage' = "report"
          /\ UNCHANGED <<guard, allowed, before, batch, cursor, decision, yes, answers,
                         proc, files, at, held, gone, out, others, todos>>

\* Mutant: the variable of the loop that collects the futures is used again.
LastFuture(c) == IF c \in ToRun THEN out[CHOOSE d \in ToRun : \A e \in ToRun : e <= d].kind
                 ELSE IF decision[c] = "denied" THEN "denied" ELSE "blocked"

Output(c) == IF c \in ToRun THEN out[c].kind
             ELSE IF decision[c] = "denied" THEN "denied" ELSE "blocked"

\* Stage 3, on the agent's thread again: in the order of the calls.
Report == /\ stage = "report" /\ cursor \in Here
          /\ answers' = Append(answers, [call |-> cursor, kind |-> Output(cursor)])
          /\ cursor' = cursor + 1
          /\ UNCHANGED <<guard, allowed, before, batch, stage, decision, yes,
                         proc, files, at, held, gone, out, others, todos>>

BatchEnds == /\ stage = "report" /\ cursor \notin Here
             /\ stage' = "over"
             /\ UNCHANGED <<guard, allowed, before, batch, cursor, decision, yes, answers,
                            proc, files, at, held, gone, out, others, todos>>

--------------------------------------------------------------------------------
(* The pool: execute_tool and the first part of each handler *)

Busy == {c \in Here : at[c] \notin {"none", "queued", "done"}}

\* A thread of the pool takes the next call.
Begins(c) == /\ at[c] = "queued" /\ Cardinality(Busy) < MaxParallel
             /\ \A d \in Here : at[d] = "queued" => c <= d

Goes(c, there) == at' = [at EXCEPT ![c] = there]
Returns(c, result) == Goes(c, "done") /\ out' = [out EXCEPT ![c] = result]

\* execute_tool answers for a call that does not fit; a tool for one it refuses.
Rejected(c) == /\ Begins(c)
               /\ \/ ArgumentError(batch[c]) /\ Returns(c, Result("argument_error"))
                  \/ /\ ~ArgumentError(batch[c]) /\ Refused(batch[c], c \in yes, files)
                     /\ Returns(c, Result("refused"))
               /\ UNCHANGED <<control, proc, files, held, gone, others, todos>>

Accepted(c, tool) == /\ Begins(c) /\ batch[c].tool = tool
                     /\ ~ArgumentError(batch[c]) /\ ~Refused(batch[c], c \in yes, files)

\* read_file; patch and file_delete too, for a file that is not there.
FindsNone(c) == /\ \E tool \in {"read_file", "patch", "file_delete"} : Accepted(c, tool)
                /\ Target(c) \notin DOMAIN files
                /\ Returns(c, Result("error"))
                /\ UNCHANGED <<control, proc, files, held, gone, others, todos>>

ReadFile(c) == /\ Accepted(c, "read_file") /\ Target(c) \in DOMAIN files
               /\ Returns(c, [kind |-> "ok", text |-> files[Target(c)]])
               /\ UNCHANGED <<control, proc, files, held, gone, others, todos>>

\* write_file has looked whether the file exists; it opens it in a later step.
StartWrite(c) == /\ Accepted(c, "write_file")
                 /\ held' = [held EXCEPT ![c] = {batch[c].put}]
                 /\ Goes(c, "open")
                 /\ UNCHANGED <<control, proc, files, gone, out, others, todos>>

\* patch reads the file, finds the fragment and makes the new content.
\* Mutant: an edit only takes away.
EditedAway(c) == files[Target(c)] \ {batch[c].find}

Edited(c) == (files[Target(c)] \ {batch[c].find}) \cup {batch[c].put}

StartPatch(c) == /\ Accepted(c, "patch") /\ Target(c) \in DOMAIN files
                 /\ IF batch[c].find \in files[Target(c)] /\ Edited(c) # files[Target(c)]
                    THEN /\ held' = [held EXCEPT ![c] = Edited(c)]
                         /\ Goes(c, "open") /\ UNCHANGED out
                    ELSE Returns(c, Result("error")) /\ UNCHANGED held
                 /\ UNCHANGED <<control, proc, files, gone, others, todos>>

StartDelete(c) == /\ Accepted(c, "file_delete") /\ Target(c) \in DOMAIN files
                  /\ Goes(c, "remove")
                  /\ UNCHANGED <<control, proc, files, held, gone, out, others, todos>>

\* Without a yes a program runs in the sandbox; with background a command is left alone.
StartProgram(c) == /\ \E tool \in ProcessTools : Accepted(c, tool)
                   /\ Popen(c)
                   /\ IF Target(c) = "daemon" THEN Returns(c, Result("started"))
                      ELSE /\ Goes(c, IF batch[c].tool = "shell" THEN "wait" ELSE "watch")
                           /\ UNCHANGED out
                   /\ UNCHANGED <<control, files, held, gone, others, todos>>

--------------------------------------------------------------------------------
(* The pool: files *)

With(p, text) == [q \in DOMAIN files \cup {p} |-> IF q = p THEN text ELSE files[q]]
Without(p) == [q \in DOMAIN files \ {p} |-> files[q]]
Writers(p) == {c \in Here : at[c] = "fill" /\ Target(c) = p}

\* open(path, "w") empties the file, or makes it.
Open(c) == /\ at[c] = "open"
           /\ files' = With(Target(c), {})
           /\ Goes(c, "fill")
           /\ UNCHANGED <<control, proc, held, gone, out, others, todos>>

\* What is written goes to the file that was opened, were it removed since.  Of what
\* another writer has put there since, the part that is longer may stay.
Fill(c) == /\ at[c] = "fill"
           /\ IF c \in gone THEN UNCHANGED files
              ELSE \E rest \in {{}, files[Target(c)]} :
                      files' = With(Target(c), held[c] \cup rest)
           /\ Returns(c, Result("ok"))
           /\ UNCHANGED <<control, proc, held, gone, others, todos>>

\* An OSError at the open leaves the file, one at the write leaves it empty.
WriteFails(c) == /\ at[c] \in {"open", "fill"}
                 /\ Returns(c, Result("error"))
                 /\ UNCHANGED <<control, proc, files, held, gone, others, todos>>

DeleteFile(c) == /\ at[c] = "remove"
                 /\ IF Target(c) \in DOMAIN files
                    THEN /\ files' = Without(Target(c))
                         /\ gone' = gone \cup Writers(Target(c))
                         /\ Returns(c, Result("ok"))
                    ELSE Returns(c, Result("error")) /\ UNCHANGED <<files, gone>>
                 /\ UNCHANGED <<control, proc, held, others, todos>>

--------------------------------------------------------------------------------
(* The pool: todos.  A call names the action as its target, the status to set as  *)
(* find and the id as put.                                                        *)

TodoId(c) == batch[c].put
TodoStatus(c) == IF Target(c) = "complete" THEN "completed" ELSE batch[c].find

TodoAccepts(c) ==
    \/ Target(c) \in {"list", "create"}
    \/ Target(c) \in {"update", "complete"} /\ MayUpdate(todos, TodoId(c), TodoStatus(c))
    \/ Target(c) = "delete" /\ Has(todos, TodoId(c))

TodosAfter(c) == CASE Target(c) = "create" -> Created(todos)
                   [] Target(c) = "delete" -> Removed(todos, TodoId(c))
                   [] Target(c) = "list" -> todos
                   [] OTHER -> Updated(todos, TodoId(c), TodoStatus(c))

\* The operation ...
StartTodo(c) == /\ Accepted(c, "todo") /\ TodoAccepts(c)
                /\ todos' = TodosAfter(c)
                /\ held' = [held EXCEPT ![c] = IF Target(c) = "create" THEN {todos.next} ELSE {}]
                /\ Goes(c, "list")
                /\ UNCHANGED <<control, proc, files, gone, out, others>>

\* ... or its error, also for an action there is not; ...
TodoRaises(c) == /\ Accepted(c, "todo") /\ ~TodoAccepts(c)
                 /\ Returns(c, Result("error"))
                 /\ UNCHANGED <<control, proc, files, held, gone, others, todos>>

\* ... and then the whole list, as it is by then.
ListTodos(c) == /\ at[c] = "list"
                /\ Returns(c, [kind |-> "ok", text |-> Range(todos.items)])
                /\ UNCHANGED <<control, proc, files, held, gone, others, todos>>

--------------------------------------------------------------------------------
(* The pool: programs *)

Memory == {"low", "soft", "hard"}

Stays(c) == UNCHANGED <<control, files, held, gone, others, todos>>

\* _run_with_limits: the poll, and the program's end that it sees.
Watch(c) == /\ at[c] \in {"watch", "measure"}
            /\ \/ /\ at[c] = "watch"
                  /\ \/ ListTree(c) /\ Goes(c, "measure") /\ UNCHANGED out
                     \/ PollExpires(c) /\ Goes(c, "kill") /\ UNCHANGED out
               \/ /\ at[c] = "measure"
                  /\ \/ \E m \in Memory :
                           \/ PollGoesOn(c, m) /\ Goes(c, "watch") /\ UNCHANGED out
                           \/ PollOverflows(c, m) /\ Goes(c, "kill_hog") /\ UNCHANGED out
                     \/ PollRaises(c) /\ Returns(c, Result("tool_error"))
               \/ PollFindsExit(c) /\ Returns(c, Result("ok"))
            /\ Stays(c)

\* shell: communicate(timeout).
Wait(c) == /\ at[c] = "wait"
           /\ \/ Waits(c) /\ UNCHANGED <<at, out>>
              \/ WaitSeesEnd(c) /\ Returns(c, Result("ok"))
              \/ WaitGivesUp(c) /\ Goes(c, "kill") /\ UNCHANGED out
           /\ Stays(c)

\* _kill_process_tree, then the message about the limit.
Kill(c) == /\ at[c] \in {"kill", "kill_hog"}
           /\ LET verdict == Result(IF at[c] = "kill" THEN "timeout" ELSE "memory") IN
              \/ \E k \in Children : KillChild(c, k) /\ UNCHANGED <<at, out>>
              \/ KillMeetsGhost(c) /\ Returns(c, verdict)
              \/ KillMain(c) /\ Returns(c, verdict)
           /\ Stays(c)

\* What the program does by itself.
ProgramStep(c) == /\ \/ MainExits(c)
                     \/ \E k \in Children : Fork(c, k) \/ ChildExits(c, k)
                  /\ stage # "over"
                  /\ UNCHANGED <<control, files, at, held, gone, out, others, todos>>

--------------------------------------------------------------------------------
(* Someone else: the user, another session, another agent *)

SomeoneWrites(p) == /\ Cardinality(others) < MaxOthers /\ stage # "over"
                    /\ files' = With(p, {TheirText})
                    /\ others' = others \cup {p}
                    /\ UNCHANGED <<control, proc, at, held, gone, out, todos>>

SomeoneDeletes(p) == /\ Cardinality(others) < MaxOthers /\ stage # "over"
                     /\ p \in DOMAIN files
                     /\ files' = Without(p) /\ gone' = gone \cup Writers(p)
                     /\ others' = others \cup {p}
                     /\ UNCHANGED <<control, proc, at, held, out, todos>>

--------------------------------------------------------------------------------
AgentStep == \/ Decide \/ AllDecided \/ Submit \/ Joined \/ Report \/ BatchEnds
             \/ \E answer \in BOOLEAN : Settle(answer)

PoolStep(c) == \/ Rejected(c) \/ FindsNone(c) \/ ReadFile(c)
               \/ StartWrite(c) \/ StartPatch(c) \/ StartDelete(c) \/ StartProgram(c)
               \/ StartTodo(c) \/ TodoRaises(c) \/ ListTodos(c)
               \/ Open(c) \/ Fill(c) \/ WriteFails(c) \/ DeleteFile(c)
               \/ Watch(c) \/ Wait(c) \/ Kill(c)

Someone == \E p \in Named \ Sensitive : SomeoneWrites(p) \/ SomeoneDeletes(p)

Next == AgentStep \/ (\E c \in Here : PoolStep(c) \/ ProgramStep(c)) \/ Someone

Spec == Init /\ [][Next]_vars

\* The agent's thread and each thread of the pool go on; nothing is assumed of the
\* programs.  (That every approval is answered is checked of ApprovalBridge.)
FairSpec == Spec /\ WF_vars(AgentStep) /\ \A c \in Calls : WF_vars(c \in Here /\ PoolStep(c))

--------------------------------------------------------------------------------
(* Properties *)

Kinds == {"none", "ok", "error", "refused", "argument_error", "tool_error", "started",
          "timeout", "memory", "denied", "blocked"}

TypeOK == /\ ProcTypeOK /\ guard \in BOOLEAN /\ allowed \subseteq Tools /\ yes \subseteq Calls /\ gone \subseteq Calls
          /\ stage \in {"decide", "approve", "run", "report", "over"}
          /\ cursor \in 1..Cardinality(Here) + 1 /\ Cardinality(Busy) <= MaxParallel
          /\ DOMAIN files \subseteq Paths /\ others \subseteq Paths
          /\ \A c \in Calls : /\ decision[c] \in {"none", "go", "ask", "block", "denied"}
                              /\ out[c].kind \in Kinds
                              /\ at[c] \in {"none", "queued", "open", "fill", "remove", "watch",
                                            "measure", "wait", "kill", "kill_hog", "list", "done"}
          /\ \A item \in Range(todos.items) : item.status \in Statuses /\ item.id < todos.next

\* What was in a file when the batch began is lost to the batch only through a call
\* that was approved: neither a relative path that names another file for the
\* plugin, nor a file that appears after the decision, nor a plugin that is switched
\* off lets write_file, patch or file_delete do it without.
ByTheBatch == at' # at
OldTextNeedsAYes ==
    [][\A p \in DOMAIN before \cap DOMAIN files :
          /\ files[p] = before[p]
          /\ ByTheBatch /\ ~(p \in DOMAIN files' /\ files'[p] = files[p])
          => \E c \in yes : Target(c) = p /\ at'[c] # at[c]]_vars

\* Whatever is answered and whether the plugin is there or not, a sensitive file
\* stays as it is and its text is in no answer; and no yes lifts a red line of the
\* plugin: what crosses one does not even start.  A delegated task starts no program,
\* whatever its parent wished and its model asks for.
RedLinesHold ==
    /\ \A p \in Sensitive : p \in DOMAIN files /\ files[p] = before[p]
    /\ \A c \in Calls : SecretText \notin out[c].text
    /\ guard => \A c \in Here : RedLine(batch[c]) => at[c] = "none"
    /\ allowed # Tools => \A c \in Here : batch[c].tool \in ProcessTools => at[c] = "none"

\* The k-th message answers the k-th call with what that call itself came to,
\* although the pool ends the calls in any order and some never reach it.
AnswersMatchCalls ==
    \A k \in DOMAIN answers :
       /\ answers[k].call = k
       /\ (at[k] = "done") = (answers[k].kind \notin {"denied", "blocked"})
       /\ at[k] = "done" => answers[k].kind = out[k].kind

\* An edit that is reported as done is in the file, unless another call of the batch
\* or someone else has had to do with the same file.  Two todos never get the same
\* number, and one that was reported as completed is not open again afterwards, in
\* whatever order the calls on the list come.
Changes(c) == batch[c].tool \in {"write_file", "patch", "file_delete"}
Creates(c) == batch[c].tool = "todo" /\ Target(c) = "create"
EditsStick == stage = "over" =>
    /\ \A c \in ToRun :
          /\ out[c].kind = "ok" /\ batch[c].tool \in {"write_file", "patch"}
          /\ Target(c) \notin others
          /\ \A d \in Here \ {c} : ~(Changes(d) /\ Target(d) = Target(c))
          => Target(c) \in DOMAIN files /\ batch[c].put \in files[Target(c)]
    /\ \A c, d \in ToRun : /\ Creates(c) /\ out[c].kind = "ok"
                           /\ Creates(d) /\ out[d].kind = "ok" /\ c # d
                           => held[c] # held[d]
    /\ \A c \in ToRun, item \in Range(todos.items) :
          batch[c].tool = "todo" /\ Target(c) = "complete" /\ out[c].kind = "ok"
          /\ item.id = TodoId(c) => item.status = "completed"

\* When a call has run into a limit, nothing of what it started is alive.  It does
\* not hold: see the README.
KilledTreeIsGone == \A c \in Here :
    at[c] = "done" /\ out[c].kind \in {"timeout", "memory"} => Dead(c)

\* Every batch comes to its answers, whatever its programs do.
BatchReturns == <>(stage = "over")
================================================================================
