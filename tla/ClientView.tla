----------------------------- MODULE ClientView ------------------------------
(***************************************************************************)
(* What a writer sends and what a client makes of it.  A client assembles  *)
(* an answer from blocks: texts, tool calls, images and, for Anthropic,    *)
(* thinking and searches.  A message opens a block, appends a piece to     *)
(* one, states the whole of one or closes one; a Chat Completions client   *)
(* knows a tool call by its index, a Responses client by its item id, an   *)
(* Anthropic client by the index of the content block.                     *)
(***************************************************************************)
EXTENDS Naturals, Sequences, SequencesExt

Opens(key, kind, id) == [do |-> "open", key |-> key, kind |-> kind, id |-> id, size |-> 0]

Appends(key, id, pieces) ==
  [do |-> "append", key |-> key, kind |-> key[1], id |-> id, size |-> pieces]

States(key, id, whole) ==
  [do |-> "state", key |-> key, kind |-> key[1], id |-> id, size |-> whole]

Closes(key, id) == [do |-> "close", key |-> key, kind |-> key[1], id |-> id, size |-> 0]

\* The client knows nothing of a block before the first message about it.
Unopened(out) == [kind |-> out.kind, id |-> out.id, size |-> 0, opened |-> 0, closed |-> FALSE]

ReadOne(blocks, out) ==
  LET block == IF out.key \in DOMAIN blocks THEN blocks[out.key] ELSE Unopened(out)
      read == CASE out.do = "open" -> [block EXCEPT !.opened = @ + 1, !.kind = out.kind,
                                                    !.id = out.id]
                [] out.do = "append" -> [block EXCEPT !.size = @ + out.size]
                [] out.do = "state" -> [block EXCEPT !.size = out.size]
                [] out.do = "close" -> [block EXCEPT !.closed = TRUE, !.id = out.id]
  IN [key \in DOMAIN blocks \cup {out.key} |-> IF key = out.key THEN read ELSE blocks[key]]

Read(blocks, outs) == FoldLeft(ReadOne, blocks, outs)

\* The text of an answer, whichever blocks carry it.
SizeOf(blocks, kind) ==
  FoldSet(LAMBDA key, sum : sum + blocks[key].size, 0,
          {key \in DOMAIN blocks : blocks[key].kind = kind})
==============================================================================
