----------------------------- MODULE ToolProcess -----------------------------
(***************************************************************************)
(* A program that a tool call starts, and the thread that watches it.      *)
(* run_python polls: an age limit, and two limits of memory, the lower one *)
(* with a time of grace (_run_with_limits).  shell waits until everything  *)
(* that holds the pipes has ended, up to a limit (communicate).  Both kill *)
(* the whole tree at a limit, child by child, from a list they took.       *)
(***************************************************************************)
EXTENDS Naturals, FiniteSets

CONSTANTS
    Calls,      \* the calls that may start a program
    Children,   \* bound: processes a program may start
    TimeLimit,  \* polls until _TIMEOUT_SECONDS, _COMMAND_TIMEOUT have passed
    Grace       \* polls until _MEMORY_GRACE_SEC has passed

ASSUME LimitsAssumption == TimeLimit \in Nat /\ Grace \in Nat

VARIABLES
    proc    \* per call: the processes alive and what the watcher remembers of them

Idle == [main |-> FALSE, kids |-> {}, forked |-> {}, linked |-> {}, age |-> 0, soft |-> 0,
         targets |-> {}]

ProcTypeOK == proc \in [Calls ->
    [main : BOOLEAN, kids : SUBSET Children, forked : SUBSET Children, linked : SUBSET Children,
     age : 0..TimeLimit + 1, soft : 0..Grace + 1, targets : SUBSET Children]]

ProcInit == proc = [c \in Calls |-> Idle]

Dead(c) == ~proc[c].main /\ proc[c].kids = {}

Popen(c) == proc' = [proc EXCEPT ![c] = [Idle EXCEPT !.main = TRUE]]

--------------------------------------------------------------------------------
(* The program *)

Fork(c, k) == /\ proc[c].main /\ k \notin proc[c].forked
              /\ proc' = [proc EXCEPT ![c].kids = @ \cup {k}, ![c].forked = @ \cup {k},
                                      ![c].linked = @ \cup {k}]

\* Children whose parent is gone are nobody's descendants any more.
MainExits(c) == /\ proc[c].main
                /\ proc' = [proc EXCEPT ![c].main = FALSE, ![c].linked = {}]

ChildExits(c, k) == /\ k \in proc[c].kids
                    /\ proc' = [proc EXCEPT ![c].kids = @ \ {k}]

--------------------------------------------------------------------------------
(* The watcher: the guards and effects of one round *)

Descendants(c) == proc[c].linked \cap proc[c].kids

Expired(c) == proc[c].age > TimeLimit

\* The tree is listed before the memory of each process in it is asked for.
ListTree(c) == /\ proc[c].main /\ ~Expired(c)
               /\ proc' = [proc EXCEPT ![c].targets = Descendants(c)]

Vanished(c) == proc[c].targets \ proc[c].kids

\* The program may go on: below the soft limit the time above it is forgotten.
PollGoesOn(c, memory) ==
    /\ proc[c].main /\ Vanished(c) = {}
    /\ \/ memory = "low"  /\ proc' = [proc EXCEPT ![c].age = @ + 1, ![c].soft = 0]
       \/ memory = "soft" /\ proc[c].soft <= Grace
                          /\ proc' = [proc EXCEPT ![c].age = @ + 1, ![c].soft = @ + 1]

\* Mutant: the memory limits are there, the time limit is not.
NoTimeLock(c) == FALSE /\ UNCHANGED proc

\* A limit is reached: the list of the descendants to kill is taken.
PollExpires(c) == /\ proc[c].main /\ Expired(c)
                  /\ proc' = [proc EXCEPT ![c].targets = Descendants(c)]

PollOverflows(c, memory) ==
    /\ proc[c].main /\ Vanished(c) = {}
    /\ memory = "hard" \/ (memory = "soft" /\ proc[c].soft > Grace)
    /\ proc' = [proc EXCEPT ![c].targets = Descendants(c)]

PollFindsExit(c) == ~proc[c].main /\ UNCHANGED proc

\* A child that has ended since the tree was listed is an error that nothing in
\* _run_with_limits expects; nobody kills anything.
PollRaises(c) == proc[c].main /\ Vanished(c) # {} /\ UNCHANGED proc

\* communicate: the time goes on while someone holds the pipes.
Waits(c) == ~Dead(c) /\ ~Expired(c) /\ proc' = [proc EXCEPT ![c].age = @ + 1]
WaitSeesEnd(c) == Dead(c) /\ UNCHANGED proc
WaitGivesUp(c) == ~Dead(c) /\ Expired(c) /\ proc' = [proc EXCEPT ![c].targets = Descendants(c)]

--------------------------------------------------------------------------------
(* _kill_process_tree *)

KillChild(c, k) == /\ k \in proc[c].targets \cap proc[c].kids
                   /\ proc' = [proc EXCEPT ![c].kids = @ \ {k}, ![c].targets = @ \ {k}]

\* A child on the list has ended by itself: the exception ends the whole killing.
KillMeetsGhost(c) == Vanished(c) # {} /\ UNCHANGED proc

KillMain(c) == /\ proc[c].targets = {}
               /\ proc' = [proc EXCEPT ![c].main = FALSE, ![c].linked = {}]
================================================================================
