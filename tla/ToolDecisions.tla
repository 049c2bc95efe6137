---------------------------- MODULE ToolDecisions ----------------------------
(***************************************************************************)
(* What is decided about one tool call before anything runs: the security  *)
(* plugin's verdict (security_guard.py), the approval rules the tools      *)
(* declare, the check of the arguments (registry.validate_arguments) and   *)
(* the allowlist of a restricted agent.  A call is                         *)
(*   [tool, target, find, put, args]                                       *)
(* where target is a path for the file tools and the class of the command  *)
(* or of the program for shell and run_python; put is the fragment to      *)
(* write and find the one an edit replaces; args says whether the          *)
(* arguments fit the tool's schema.                                        *)
(***************************************************************************)
EXTENDS Naturals

CONSTANTS
    Paths,      \* files the calls name
    Sensitive,  \* paths is_sensitive_path refuses
    Outside,    \* paths that leave the workspace of the session
    OffProject, \* paths outside the directory qi-agent itself is installed in
    Elsewhere,  \* relative paths: not the workspace's file for the server's own directory
    Blacklist   \* <<tool, target>> pairs with a keyword of plugins.toml

ASSUME PathsAssumption == Sensitive \cup Outside \cup OffProject \cup Elsewhere \subseteq Paths

FileTools == {"write_file", "patch", "file_delete", "read_file"}
ProcessTools == {"run_python", "shell"}
Tools == FileTools \cup ProcessTools \cup {"todo"}

\* The classes of a shell command: of the read-only list; of the list to approve; runs
\* code; of the red line; names a sensitive path; none of these.  "daemon" is of the
\* list to approve and asks for background.
ShellClasses == {"readonly", "danger", "daemon", "code", "redline", "names_secret", "other"}

\* The classes of a program: accepted; with a forbidden pattern; imports a module
\* that the sandbox does not have.
PythonClasses == {"plain", "forbidden", "imports"}

\* _ARG_PARAM_MAP: the tools whose target the plugin looks at.
Inspected == {"shell", "run_python", "read_file", "write_file"}

--------------------------------------------------------------------------------
(* The plugin *)

HitsBlacklist(call) == call.tool \in Inspected /\ <<call.tool, call.target>> \in Blacklist

HitsSensitivePath(call) ==
    \/ call.tool = "shell" /\ call.target = "names_secret"
    \/ call.tool \in {"read_file", "write_file"} /\ call.target \in Sensitive

HitsRedline(call) == call.tool = "shell" /\ call.target = "redline"

RedLine(call) == HitsBlacklist(call) \/ HitsSensitivePath(call) \/ HitsRedline(call)

\* os.path.exists in the server's own directory, not in the workspace.
SeenFromServer(p, files) == p \in DOMAIN files \ Elsewhere

\* The approval rule each tool declares when it registers.
MustAsk(call, files) ==
    \/ /\ call.tool = "write_file"
       /\ SeenFromServer(call.target, files) \/ call.target \in OffProject
    \/ call.tool \in {"patch", "file_delete"}
    \/ call.tool = "shell" /\ call.target \in {"code", "danger", "daemon"}
    \/ call.tool = "run_python" /\ call.target = "imports"

\* Mutant: the rules are asked before the red lines are drawn.
AskedFirst(call, files) ==
    IF MustAsk(call, files) THEN "ask"
    ELSE IF RedLine(call) THEN "block"
    ELSE "go"

\* _on_tool_call: the red lines come first and cannot be approved.
Decision(call, files) ==
    IF RedLine(call) THEN "block"
    ELSE IF call.tool \in Tools /\ MustAsk(call, files) THEN "ask"
    ELSE "go"

--------------------------------------------------------------------------------
(* The registry and the tools' own last checks *)

\* _run_subagent: a delegated task may use the tools it is given and those that only
\* read, never a program, and write_file if its parent named paths for it.
ReadOnlyTools == {"read_file"}
Forbidden == ProcessTools

Delegated(wish, mayWrite) ==
    ((ReadOnlyTools \cup wish) \ Forbidden) \cup (IF mayWrite THEN {"write_file"} ELSE {})

\* validate_arguments: something is missing, of a wrong type, or not declared; what
\* the agent adds itself (approved) is not looked at.
ArgumentError(call) == call.args # "fit"

\* The refusals of a tool before it touches anything: the path leaves the workspace,
\* it is sensitive, or an effect needs a yes and has none.
RefusedPath(call) == call.tool \in FileTools /\ call.target \in Outside \cup Sensitive

RefusedUnapproved(call, yes, files) ==
    /\ ~yes
    /\ \/ call.tool = "write_file" /\ call.target \in DOMAIN files
       \/ call.tool = "patch" /\ call.target \in DOMAIN files
       \/ call.tool = "file_delete"
       \/ call.tool = "shell" /\ call.target \notin {"readonly", "names_secret"}
       \/ call.tool = "run_python" /\ call.target = "forbidden"

\* Mutant: the tools trust the plugin.
NoLastCheck(call, yes, files) == RefusedPath(call)

Refused(call, yes, files) == RefusedPath(call) \/ RefusedUnapproved(call, yes, files)
================================================================================
