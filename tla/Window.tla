--------------------------------- MODULE Window ---------------------------------
(***************************************************************************)
(* The rewritings of a message history (context/window.py and              *)
(* context/compressor.py), without the system messages, which every one of *)
(* them keeps in front.  A message is its role and a stamp; the results of *)
(* a tool call carry the stamp of the assistant message that asked for     *)
(* them.  A token is a message.                                            *)
(***************************************************************************)
EXTENDS Naturals, SequencesExt, FiniteSetsExt

\* "calls" is an assistant message with tool_calls, "answer" one without; the
\* summary and the anchor have the role user in the code, and no stamp here.
FromUser == {"user", "summary", "anchor"}
FromAssistant == {"calls", "answer"}
Roles == FromUser \cup FromAssistant \cup {"tool"}
Message(role, stamp) == [role |-> role, stamp |-> stamp]

Summary == Message("summary", 0)
Anchor == Message("anchor", 0)

--------------------------------------------------------------------------------
(* _group_messages: groups that are closed, and the one that is still open *)

Closed(acc) == IF acc.open = <<>> THEN acc.closed ELSE Append(acc.closed, acc.open)

GroupNext(acc, m) ==
    CASE m.role = "tool"  -> [acc EXCEPT !.open = Append(@, m)]
      [] m.role = "calls" -> [closed |-> Closed(acc), open |-> <<m>>]
      [] OTHER            -> [closed |-> Append(Closed(acc), <<m>>), open |-> <<>>]

Grouped(messages) ==
    LET upTo[i \in 0..Len(messages)] == IF i = 0 THEN [closed |-> <<>>, open |-> <<>>]
                                        ELSE GroupNext(upTo[i - 1], messages[i])
    IN  upTo[Len(messages)]

Groups(messages) == Closed(Grouped(messages))

FirstGroups(groups, n) == FlattenSeq(SubSeq(groups, 1, n))
LastGroups(groups, n) == FlattenSeq(SubSeq(groups, Len(groups) - n + 1, Len(groups)))

--------------------------------------------------------------------------------
(* compress_messages and assemble *)

KeepCount(groups, keepRecent) == IF keepRecent < Len(groups) THEN keepRecent ELSE Len(groups)

Early(messages, keepRecent) ==
    LET groups == Groups(messages)
    IN  FirstGroups(groups, Len(groups) - KeepCount(groups, keepRecent))

\* Mutant: the split is at messages instead of groups.
RecentMessages(messages, keepRecent) ==
    SubSeq(messages, Len(messages) - KeepCount(messages, keepRecent) + 1, Len(messages))

\* Mutant: the slice is taken at the wrong end.
RecentFromFront(messages, keepRecent) ==
    LET groups == Groups(messages) IN FirstGroups(groups, KeepCount(groups, keepRecent))

Recent(messages, keepRecent) ==
    LET groups == Groups(messages) IN LastGroups(groups, KeepCount(groups, keepRecent))

Assemble(messages, keepRecent) == <<Summary>> \o Recent(messages, keepRecent)

--------------------------------------------------------------------------------
(* trim_messages *)

\* The newest groups that fit the budget, and at least one.
Fitting(groups, budget) ==
    Max({n \in 1..Len(groups) : n = 1 \/ Len(LastGroups(groups, n)) <= budget})

\* What is kept of a trimmed history begins with a message of the user.
Anchored(groups, n) ==
    LET kept == LastGroups(groups, n)
    IN  IF kept # <<>> /\ Head(kept).role \in FromAssistant THEN <<Anchor>> \o kept ELSE kept

Trim(messages, budget) ==
    LET groups == Groups(messages)
    IN  IF messages = <<>> \/ Fitting(groups, budget) = Len(groups) THEN messages
        ELSE Anchored(groups, Fitting(groups, budget))
================================================================================
