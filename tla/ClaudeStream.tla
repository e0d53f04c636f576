----------------------------- MODULE ClaudeStream ----------------------------
(***************************************************************************)
(* anthropic.StreamEncoder: how an upstream event becomes events of a      *)
(* Messages stream.  Content blocks follow each other, one open at a time, *)
(* so that what the upstream interleaves must be held back: a tool call is *)
(* sent whole once it is done, no block is open and the calls before it    *)
(* are sent.  A call is known by its call id, and calls wait in the order  *)
(* they were registered in.                                                *)
(*                                                                         *)
(* An encoder step is a record [encoder, out]; Then chains two of them.    *)
(***************************************************************************)
EXTENDS Accumulator, ClientView

NewEncoder ==
  [nextIndex |-> 0, open |-> FALSE, textEmitted |-> FALSE, thinkEmitted |-> FALSE,
   thinkDeltas |-> 0,
   toolSent |-> [id \in Ids |-> -1], toolDone |-> {}, toolStates |-> [id \in Ids |-> 0],
   toolDeltas |-> [id \in Ids |-> 0], toolOrder |-> <<>>, webSearchDone |-> {}]

Then(step, Operation(_)) == [Operation(step.encoder) EXCEPT !.out = step.out \o @]

Nothing(e) == [encoder |-> e, out |-> <<>>]

Block(kind, n) == <<kind, n>>

\* The open block is the last one; its kind is text between two events, for every
\* other block is closed by the event that opens it.
CloseBlock(e) ==
  [encoder |-> [e EXCEPT !.open = FALSE],
   out |-> IF e.open THEN <<Closes(Block("text", e.nextIndex - 1), None)>> ELSE <<>>]

\* A block that is opened, filled and closed at once.
WholeBlock(e, kind, id, pieces) ==
  [encoder |-> [e EXCEPT !.nextIndex = @ + 1],
   out |-> <<Opens(Block(kind, e.nextIndex), kind, id)>>
           \o (IF pieces > 0 THEN <<Appends(Block(kind, e.nextIndex), id, pieces)>> ELSE <<>>)
           \o <<Closes(Block(kind, e.nextIndex), id)>>]

OpenText(e) ==
  IF e.open THEN Nothing(e)
  ELSE [encoder |-> [e EXCEPT !.nextIndex = @ + 1, !.open = TRUE],
        out |-> <<Opens(Block("text", e.nextIndex), "text", None)>>]

EmitText(e, pieces) ==
  IF pieces = 0 THEN Nothing(e)
  ELSE Then(OpenText(e),
            LAMBDA f : [encoder |-> [f EXCEPT !.textEmitted = TRUE],
                        out |-> <<Appends(Block("text", f.nextIndex - 1), None, pieces)>>])

-----------------------------------------------------------------------------
(* Tools *)

RegisterTool(e, a, n) ==
  LET id == a.calls[n].call
  IN [e EXCEPT !.toolOrder = IF e.toolStates[id] = 0 THEN Append(@, id) ELSE @,
               !.toolStates[id] = n]

\* Fault: a call that waits does not hold back the calls after it.
WaitingNever(e, id) == FALSE

\* The calls flushTools reaches: it stops at the first that waits to be done.
Waiting(e, id) == e.toolSent[id] < 0 /\ e.toolStates[id] # 0 /\ id \notin e.toolDone

Reached(e) ==
  LET n == SelectInSeq(e.toolOrder, LAMBDA id : Waiting(e, id))
  IN IF n = 0 THEN e.toolOrder ELSE SubSeq(e.toolOrder, 1, n - 1)

\* Fault: the arguments are sent whole after their deltas.
EmitToolTwice(e, a, id) ==
  LET call == a.calls[e.toolStates[id]]
      block == WholeBlock(e, "tool", call.call, e.toolDeltas[id] + call.size)
  IN IF e.toolSent[id] >= 0 \/ e.toolStates[id] = 0 \/ id \notin e.toolDone THEN Nothing(e)
     ELSE [block EXCEPT !.encoder.toolSent[call.call] = call.size]

\* The deltas held under the id, and the rest of the arguments by what was sent
\* under the call's own id.
EmitTool(e, a, id) ==
  LET call == a.calls[e.toolStates[id]]
      sent == IF id = call.call THEN e.toolDeltas[id] ELSE 0
      rest == IF call.size > sent THEN call.size - sent ELSE 0
      block == WholeBlock(e, "tool", call.call, e.toolDeltas[id] + rest)
  IN IF e.toolSent[id] >= 0 \/ e.toolStates[id] = 0 \/ id \notin e.toolDone THEN Nothing(e)
     ELSE [block EXCEPT !.encoder.toolSent[id] = IF e.toolDeltas[id] > 0 THEN e.toolDeltas[id] ELSE @,
                        !.encoder.toolSent[call.call] = IF rest > 0 THEN call.size ELSE sent,
                        !.encoder.toolDeltas[id] = 0]

FlushTools(e, a) ==
  IF e.open THEN Nothing(e)
  ELSE FoldLeft(LAMBDA step, id : Then(step, LAMBDA f : EmitTool(f, a, id)),
                Nothing(e), Reached(e))

CompleteTool(e, a, n) ==
  FlushTools([RegisterTool(e, a, n) EXCEPT !.toolDone = @ \cup {a.calls[n].call}], a)

-----------------------------------------------------------------------------
(* Thinking and hosted searches *)

\* Thinking is shown once, and only signed: that of the first signed item.
CompleteThinking(e, size, signed) ==
  IF e.thinkEmitted \/ ~signed THEN Nothing(e)
  ELSE Then(Then(CloseBlock(e),
                 LAMBDA f : WholeBlock(f, "thinking", None,
                                       IF f.thinkDeltas > 0 THEN f.thinkDeltas ELSE size)),
            LAMBDA f : Nothing([f EXCEPT !.thinkDeltas = 0, !.thinkEmitted = TRUE]))

\* A search is shown by two blocks: its use and its result.
CompleteWebSearch(e, item) ==
  IF item.status \notin {"", "completed"} \/ item.id \in e.webSearchDone THEN Nothing(e)
  ELSE Then(Then(CloseBlock([e EXCEPT !.webSearchDone = @ \cup {item.id}]),
                 LAMBDA f : WholeBlock(f, "search", item.id, item.size)),
            LAMBDA f : WholeBlock(f, "result", item.id, 0))

-----------------------------------------------------------------------------
(* The non-streaming answer, and the end of the stream *)

\* isExecutableToolState: unless the call says so itself, the response does.
Executable(a, call) ==
  \/ call.status = "completed"
  \/ call.status # "incomplete" /\ a.status # "incomplete"

\* responseBlocks: the blocks BuildMessage puts in a message.
ResponseBlocks(a, thinking) ==
  LET items == SelectSeq(ResponsesOutput(a),
        LAMBDA item : \/ item.kind = "reasoning" /\ thinking /\ item.signed
                      \/ item.kind = "message" /\ item.size > 0
                      \/ item.kind = "search" /\ item.status \in {"", "completed"}
                      \/ item.kind = "call" /\ Executable(a, a.calls[CallOf(a, item)]))
      said == \E n \in DOMAIN items : items[n].kind = "message"
  IN [n \in DOMAIN items |-> [kind |-> items[n].kind, id |-> IF items[n].kind = "call"
                                                             THEN items[n].call
                                                             ELSE items[n].id,
                              size |-> items[n].size]]
     \o IF ~said /\ Text(a) > 0
        THEN <<[kind |-> "message", id |-> None, size |-> Text(a)]>> ELSE <<>>

FirstBlock(blocks, kind) ==
  LET found == SelectSeq(blocks, LAMBDA block : block.kind = kind)
  IN IF found = <<>> THEN 0 ELSE found[1].size


\* Calls that may not be executed are forgotten, the others are done.
SettleTools(e, a) ==
  FoldLeft(LAMBDA f, n : IF Executable(a, a.calls[n])
                         THEN [RegisterTool(f, a, n) EXCEPT !.toolDone = @ \cup {a.calls[n].call}]
                         ELSE [f EXCEPT !.toolStates[a.calls[n].call] = 0],
           e, [n \in DOMAIN a.calls |-> n])

ToolStreamStarted(e) == \E id \in Ids : e.toolSent[id] >= 0 \/ e.toolDeltas[id] > 0

HydrateText(e, size) ==
  IF e.textEmitted THEN Nothing(e) ELSE Then(EmitText(e, size), CloseBlock)

\* Thinking, searches and text of the final response, unless the stream showed them.
HydrateContent(e, blocks, output) ==
  LET signed == \E n \in DOMAIN blocks : blocks[n].kind = "reasoning"
      searches == FlattenSeq([n \in DOMAIN output |->
                                IF output[n].kind = "search" THEN <<output[n]>> ELSE <<>>])
  IN Then(FoldLeft(LAMBDA step, item : Then(step, LAMBDA f : CompleteWebSearch(f, item)),
                   CompleteThinking(e, FirstBlock(blocks, "reasoning"), signed), searches),
          LAMBDA f : HydrateText(f, FirstBlock(blocks, "message")))

\* hydrateTerminal: what the stream did not show.  Tools come before the text when
\* some of them were heard of in the stream, and after it when none was.
HydrateTerminal(e, a, thinking) ==
  LET Content(f) == HydrateContent(f, ResponseBlocks(a, thinking), ResponsesOutput(a))
      Tools(f) == FlushTools(f, a)
  IN IF ToolStreamStarted(e) THEN Then(Tools(SettleTools(e, a)), Content)
     ELSE Then(Content(SettleTools(e, a)), Tools)

\* StreamEncoder.Events.  With a response schema the text is held back until it is whole.
ClaudeStep(e, a, schema, thinking, event) ==
  LET item == event.item
      n == CallOf(a, item)
  IN CASE event.type = "delta" /\ item.kind = "reasoning" ->
            Nothing([e EXCEPT !.thinkDeltas = IF thinking THEN @ + event.piece ELSE @])
       [] event.type = "done" /\ item.kind = "reasoning" /\ thinking ->
            CompleteThinking(e, a.summary, item.signed)
       [] event.type = "delta" /\ item.kind = "message" ->
            IF schema THEN Nothing(e) ELSE EmitText(e, event.piece)
       [] event.type = "done" /\ item.kind = "message" ->
            Then(IF e.textEmitted THEN Nothing(e)
                 ELSE EmitText(e, IF item.size > 0 \/ ~schema THEN item.size ELSE Text(a)),
                 CloseBlock)
       [] event.type = "delta" /\ n # 0 ->
            Nothing([RegisterTool(e, a, n) EXCEPT !.toolDeltas[a.calls[n].call] = @ + event.piece])
       [] event.type \in {"done", "item.done"} /\ n # 0 -> CompleteTool(e, a, n)
       [] event.type = "item.done" /\ item.kind = "search" -> CompleteWebSearch(e, item)
       [] event.type = "item.done" /\ item.kind = "reasoning" /\ thinking ->
            IF item.signed THEN CompleteThinking(e, item.size, TRUE)
            ELSE Nothing([e EXCEPT !.thinkDeltas = 0])
       [] IsTerminal(event) -> Then(HydrateTerminal(e, a, thinking), CloseBlock)
       [] OTHER -> Nothing(e)
==============================================================================

