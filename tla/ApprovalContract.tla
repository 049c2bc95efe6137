---------------------------- MODULE ApprovalContract ---------------------------
(***************************************************************************)
(* What the approval of tool calls promises, with the table, the events    *)
(* and the timeouts forgotten: a call is allowed only by an answer that    *)
(* its own session gave, for this call or, with "session", for an earlier  *)
(* call whose command prefix covers this one; a verdict is final.          *)
(***************************************************************************)
CONSTANTS Calls, Sessions, SessionOf, OnceOnly, Token, Covered

VARIABLES
    answers,   \* the answers given so far: [call, session, option]
    verdict    \* what became of each call

approvalVars == <<answers, verdict>>

Answer == [call : Calls, session : Sessions, option : {"once", "session", "deny"}]

ApprovalInit == answers = {} /\ verdict = [c \in Calls |-> "open"]

Own(a) == a.session = SessionOf[a.call]

Granted(c) == \E a \in answers : a.call = c /\ Own(a) /\ a.option \in {"once", "session"}

\* "Always allow this prefix in this session"; never for the sandbox levels.
Standing(c) == /\ c \notin OnceOnly
               /\ \E a \in answers : /\ Own(a) /\ a.option = "session"
                                     /\ a.call \notin OnceOnly
                                     /\ a.session = SessionOf[c]
                                     /\ Token[a.call] \in Covered[c]

GiveAnswer(a) == answers' = answers \cup {a} /\ UNCHANGED verdict

Allow(c) == /\ verdict[c] = "open"
            /\ Granted(c) \/ Standing(c)
            /\ verdict' = [verdict EXCEPT ![c] = "allowed"]
            /\ UNCHANGED answers

\* Fail-closed: a call may be refused at any time, answered or not.
Refuse(c) == /\ verdict[c] = "open"
             /\ \E v \in {"denied", "raised"} : verdict' = [verdict EXCEPT ![c] = v]
             /\ UNCHANGED answers

ApprovalNext == \/ \E a \in Answer : GiveAnswer(a)
                \/ \E c \in Calls : Allow(c) \/ Refuse(c)

Approval == ApprovalInit /\ [][ApprovalNext]_approvalVars
================================================================================
