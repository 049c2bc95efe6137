----------------------------- MODULE MCToolBatch -----------------------------
(* Instance of a tool batch for TLC.  Each batch is a situation: two calls on   *)
(* one file, a file under another name for the server, what may not be touched, *)
(* programs at their limits, more calls than threads.                           *)
EXTENDS ToolBatch

CONSTANTS f, g, secret, off, old, theirs, token, new, newer

C(tool, target, find, put) ==
    [tool |-> tool, target |-> target, find |-> find, put |-> put, args |-> "fit"]
Write(p, t) == C("write_file", p, old, t)
Patch(p, t) == C("patch", p, old, t)
Delete(p) == C("file_delete", p, old, old)
Read(p) == C("read_file", p, old, old)
Shell(k) == C("shell", k, old, old)
Python(k) == C("run_python", k, old, old)
Todo(action, status, id) == C("todo", action, status, id)
Unfit(c) == [c EXCEPT !.args = "extra"]

FileBatches == {
    <<Write(g, new), Write(g, newer), Read(g)>>,
    <<Write(f, new), Read(f), Read(g)>>,
    <<Write(g, new), Delete(g)>>,
    <<Patch(f, new), Patch(f, newer)>>,
    <<Patch(g, new), Read(f), Delete(f)>>,
    <<Patch(secret, new), Delete(secret), Read(secret)>>,
    <<Write(secret, new), Write(off, new), Unfit(Read(f))>>,
    <<Patch(f, new), Read(f), Delete(g), Read(g)>> }

ProgramBatches == {
    <<Shell("readonly"), Python("forbidden")>>,
    <<Python("plain")>>,
    <<Python("imports"), Shell("names_secret")>>,
    <<Shell("daemon"), Shell("redline")>>,
    <<Shell("danger"), Shell("other"), Shell("code")>> }

TodoBatches == {
    <<Todo("create", old, 0), Todo("create", old, 0), Todo("complete", old, 2), Todo("list", old, 0)>>,
    <<Todo("complete", old, 1), Todo("update", "in_progress", 1), Todo("delete", old, 1)>> }

MCBatches == FileBatches \cup ProgramBatches \cup TodoBatches
MCBlacklist == {<<"shell", "danger">>}
MCWishes == {{}, {"patch", "shell"}}
================================================================================
