------------------------------- MODULE ChatStream -------------------------------
(***************************************************************************)
(* The answer of the language model as LLMClient.chat_stream puts it       *)
(* together (llm.py): chunks bring pieces of text and fragments of tool    *)
(* calls, each fragment with the index of its call; the first fragment of  *)
(* a call has its id and name, the others are pieces of its arguments.     *)
(* Meant is the same answer as LLMClient.chat reads it in one piece.       *)
(*                                                                         *)
(* A piece is its number in the text or in the arguments it belongs to.    *)
(***************************************************************************)
EXTENDS Naturals, Sequences, FiniteSets, Functions, Places

CONSTANTS
    MaxText,    \* bound: pieces of text of an answer
    MaxCalls,   \* bound: tool calls of an answer
    MaxParts    \* pieces of the arguments of a call

ASSUME ChatAssumption == MaxText \in Nat /\ MaxCalls \in Nat /\ MaxParts \in Nat \ {0}

None == <<>>

\* A chunk that brings several of these is the same as one after the other.
Chunk == [kind : {"text"}, call : {0}, piece : 1..MaxText]
         \cup [kind : {"call"}, call : 1..MaxCalls, piece : {0}]
         \cup [kind : {"part"}, call : 1..MaxCalls, piece : 1..MaxParts]

ChatResult(content, calls) == [content |-> content, calls |-> calls]

--------------------------------------------------------------------------------
(* The model *)

\* What it has said: how many pieces of text, and of the arguments of each call.
Silence == [text |-> 0, parts |-> <<>>]

\* What it may send next: text and arguments in their order, calls in any order and mixed
\* with each other and with the text.
MayFollow(said, c) ==
    CASE c.kind = "text" -> c.piece = said.text + 1
      [] c.kind = "call" -> c.call \notin DOMAIN said.parts
      [] c.kind = "part" -> c.call \in DOMAIN said.parts /\ c.piece = said.parts[c.call] + 1

Said(said, c) ==
    IF c.kind = "text" THEN [said EXCEPT !.text = c.piece]
    ELSE [said EXCEPT !.parts = [i \in DOMAIN @ \cup {c.call} |-> IF i = c.call THEN c.piece ELSE @[i]]]

AllParts == [n \in 1..MaxParts |-> n]

\* chat: arguments that are not JSON are no arguments, and so are those that the model
\* has not finished.
Meant(said) ==
    LET ids == InOrder(DOMAIN said.parts) IN
    ChatResult([n \in 1..said.text |-> n],
               [n \in DOMAIN ids |->
                   [id |-> ids[n], args |-> IF said.parts[ids[n]] = MaxParts THEN AllParts ELSE None]])

--------------------------------------------------------------------------------
(* chat_stream *)

NoFragments == [id |-> 0, args |-> <<>>]

Nothing == [content |-> <<>>, calls |-> <<>>]

\* Mutant: a fragment of arguments belongs to the first call, whatever its index.
FirstCall(acc, c) == IF c.kind = "call" THEN c.call
                     ELSE CHOOSE i \in DOMAIN acc.calls : \A j \in DOMAIN acc.calls : i <= j

CallOf(acc, c) == c.call

Taken(acc, c) ==
    LET i == CallOf(acc, c)
        old == IF i \in DOMAIN acc.calls THEN acc.calls[i] ELSE NoFragments
        new == IF c.kind = "call" THEN [old EXCEPT !.id = c.call]
               ELSE [old EXCEPT !.args = Append(@, c.piece)]
    IN  IF c.kind = "text" THEN [acc EXCEPT !.content = Append(@, c.piece)]
        ELSE [acc EXCEPT !.calls = [j \in DOMAIN @ \cup {i} |-> IF j = i THEN new ELSE @[j]]]

Arguments(parts) == IF parts = AllParts THEN parts ELSE None

\* Text beside tool calls is dropped from the answer.
Result(acc) ==
    LET order == InOrder(DOMAIN acc.calls) IN
    ChatResult(IF order = <<>> THEN acc.content ELSE None,
               [n \in DOMAIN order |-> [id |-> acc.calls[order[n]].id,
                                        args |-> Arguments(acc.calls[order[n]].args)]])
================================================================================
