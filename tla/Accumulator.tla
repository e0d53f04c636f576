----------------------------- MODULE Accumulator -----------------------------
(***************************************************************************)
(* turn.Accumulator: what one upstream response amounts to so far.  Every  *)
(* event of the upstream stream is applied to it, whatever the client      *)
(* asked for, and every writer of an answer reads it.                      *)
(*                                                                         *)
(* The upstream names a tool call by an item id and a call id, and may     *)
(* name it by one of them only until it sends the item: the accumulator    *)
(* keeps one record per call, the id it was given first standing in for    *)
(* the other.  Texts, arguments and summaries are known by their length in *)
(* pieces: an event carries the next piece or a prefix sent so far, so     *)
(* that the length tells which text it is.  Of an image the length is the  *)
(* number of its latest rendering.  A function tool's Arguments and a      *)
(* custom tool's Input are the same field, the tool's type never changes.  *)
(***************************************************************************)
EXTENDS Integers, Sequences, SequencesExt

CONSTANTS
  Ids,               \* item ids and call ids
  None               \* an id that an event leaves out

ASSUME IdsAssumption == None \notin Ids

Statuses == {"", "in_progress", "completed", "incomplete"}

\* An output item as the upstream sends it: call is the call id of a tool call,
\* size the text it carries, signed the presence of encrypted reasoning.
Items ==
  [kind : {"call", "message", "reasoning", "search", "image"}, id : Ids \cup {None},
   call : Ids \cup {None}, named : BOOLEAN, size : Nat, status : Statuses, signed : BOOLEAN]

\* A ToolCallState.  added and done are marks of the Responses writer.
ToolCallStates ==
  [item : Ids, call : Ids, named : BOOLEAN, size : Nat, index : Nat,
   status : Statuses, added : BOOLEAN, done : BOOLEAN]

NewAccumulator ==
  [calls |-> <<>>, byId |-> [id \in Ids |-> 0], outputs |-> <<>>, next |-> 0,
   text |-> 0, summary |-> 0, status |-> "", terminal |-> "", final |-> <<>>]

-----------------------------------------------------------------------------
(* Tool calls *)

CallKey(item) == IF item.call # None THEN item.call ELSE item.id

ItemKey(item) == IF item.id # None THEN item.id ELSE item.call

\* ToolCallStateForEvent: the position of an item's call among the calls, 0 for none.
CallOf(a, item) ==
  IF item.kind # "call" THEN 0
  ELSE IF a.byId[CallKey(item)] # 0 THEN a.byId[CallKey(item)]
  ELSE a.byId[ItemKey(item)]

\* resolveOutputIndex: an item without an index takes the next free one.
OutputIndex(a, index) == IF index >= 0 THEN index ELSE a.next

Indexed(a, index) ==
  [a EXCEPT !.next = IF OutputIndex(a, index) >= @ THEN OutputIndex(a, index) + 1 ELSE @]

\* Fault: the placeholder is kept.
UpgradedNever(call, item) == call

\* An id that stands in for the other one is replaced when the other is told.
Upgraded(call, item) ==
  IF call.item = call.call
  THEN [call EXCEPT !.item = ItemKey(item), !.call = CallKey(item)]
  ELSE call

RegisterAliases(a, n, item) ==
  LET ids == {a.calls[n].call, a.calls[n].item, CallKey(item), ItemKey(item)}
  IN [a EXCEPT !.byId = [id \in Ids |-> IF id \in ids THEN n ELSE @[id]]]

\* What an item tells of the ids and the place of the call it was found to be about.
Recognised(a, n, item, index) ==
  LET placed == IF index >= 0 THEN [Indexed(a, index) EXCEPT !.calls[n].index = index] ELSE a
  IN [placed EXCEPT !.calls[n] = Upgraded(@, item)]

EnsureToolCallState(a, item, index) ==
  IF CallOf(a, item) # 0
  THEN RegisterAliases(Recognised(a, CallOf(a, item), item, index), CallOf(a, item), item)
  ELSE RegisterAliases(
         [Indexed(a, index) EXCEPT
            !.calls = Append(@, [item |-> ItemKey(item), call |-> CallKey(item),
                                 named |-> FALSE, size |-> 0, index |-> OutputIndex(a, index),
                                 status |-> "in_progress", added |-> FALSE, done |-> FALSE])],
         Len(a.calls) + 1, item)

\* Fault: the arguments an event carries are added to those received.
InformedTwice(call, item, piece) ==
  [call EXCEPT !.named = @ \/ item.named,
               !.size = @ + item.size + piece,
               !.status = IF item.status # "" THEN item.status ELSE @]

\* What an event says of a call: its name, a piece more or all of its arguments, a status.
Informed(call, item, piece) ==
  [call EXCEPT !.named = @ \/ item.named,
               !.size = IF item.size > 0 THEN item.size ELSE @ + piece,
               !.status = IF item.status # "" THEN item.status ELSE @]

InformCall(a, item, piece) == [a EXCEPT !.calls[CallOf(a, item)] = Informed(@, item, piece)]

CaptureToolCall(a, item, index, piece) ==
  InformCall(EnsureToolCallState(a, item, index), item, piece)

\* applyToolArgumentEvent: the end of the arguments completes the call.
ApplyToolArguments(a, event) ==
  LET status == IF event.type = "done" THEN "completed" ELSE ""
  IN IF event.type \in {"delta", "done"} /\ event.item.kind = "call"
     THEN CaptureToolCall(a, [event.item EXCEPT !.status = status], event.index, event.piece)
     ELSE a

-----------------------------------------------------------------------------
(* Output items *)

\* captureOutputItem: other items are kept whole, the last state of each.
CaptureOutputItem(a, item, index) ==
  IF item.kind = "call" THEN CaptureToolCall(a, item, index, 0)
  ELSE LET output == [index |-> OutputIndex(a, index), item |-> item]
           n == SelectInSeq(a.outputs, LAMBDA o : o.item.id = item.id)
       IN [Indexed(a, index) EXCEPT
             !.outputs = IF n = 0 THEN Append(@, output) ELSE [@ EXCEPT ![n] = output]]

\* replaceOutputItems: a list of items replaces the items, never the calls.
ReplaceOutputItems(a, items) ==
  FoldLeftDomain(LAMBDA b, i : CaptureOutputItem(b, items[i], i - 1),
                 [a EXCEPT !.outputs = <<>>], items)

ApplyOutput(a, event) ==
  IF event.type \in {"item.added", "item.done"}
  THEN CaptureOutputItem(a, event.item, event.index)
  ELSE a

-----------------------------------------------------------------------------
(* Text and the end of the response *)

IsTerminal(event) == event.type \in {"completed", "incomplete"}

\* Fault: a whole text is appended to the deltas.
ApplyTextTwice(a, event) ==
  CASE event.type = "delta" /\ event.item.kind = "message" ->
         [a EXCEPT !.text = @ + event.piece]
    [] event.type = "delta" /\ event.item.kind = "reasoning" ->
         [a EXCEPT !.summary = @ + event.piece]
    [] event.type = "done" /\ event.item.kind = "message" ->
         [a EXCEPT !.text = @ + event.item.size]
    [] IsTerminal(event) ->
         [a EXCEPT !.text = IF @ = 0 THEN event.text ELSE @]
    [] OTHER -> a

\* applyTextEvent: deltas are appended, a whole text only fills an empty builder.
\* The whole text comes in one event: content_part.done, which would tell it
\* again, and the text fields of unknown events (applyFallbackText), which fill
\* an empty builder too, are left out.
ApplyText(a, event) ==
  CASE event.type = "delta" /\ event.item.kind = "message" ->
         [a EXCEPT !.text = @ + event.piece]
    [] event.type = "delta" /\ event.item.kind = "reasoning" ->
         [a EXCEPT !.summary = @ + event.piece]
    [] event.type = "done" /\ event.item.kind = "message" ->
         [a EXCEPT !.text = IF @ = 0 THEN event.item.size ELSE @]
    [] IsTerminal(event) ->
         [a EXCEPT !.text = IF @ = 0 THEN event.text ELSE @]
    [] OTHER -> a

ApplyResponseMetadata(a, event) ==
  LET b == IF event.status # "" THEN [a EXCEPT !.status = event.status] ELSE a
  IN IF event.output # <<>> THEN ReplaceOutputItems(b, event.output) ELSE b

\* The output is replaced a second time here, by the same items.
ApplyTerminal(a, event) ==
  IF IsTerminal(event)
  THEN [a EXCEPT !.terminal = event.type, !.final = event.output]
  ELSE a

Apply(a, event) ==
  LET metadata == ApplyResponseMetadata(a, event)
      arguments == ApplyToolArguments(ApplyText(metadata, event), event)
  IN ApplyTerminal(ApplyOutput(arguments, event), event)

-----------------------------------------------------------------------------
(* What is read from it *)

\* By index, and in the order they were heard of.
SortedOutputs(outputs) ==
  LET Before(m, n) == \/ outputs[m].index < outputs[n].index
                      \/ outputs[m].index = outputs[n].index /\ m < n
      Place(n) == 1 + Cardinality({m \in DOMAIN outputs : Before(m, n)})
  IN [k \in DOMAIN outputs |-> outputs[CHOOSE n \in DOMAIN outputs : Place(n) = k]]

Text(a) ==
  LET said == SelectSeq(SortedOutputs(a.outputs),
                        LAMBDA o : o.item.kind = "message" /\ o.item.size > 0)
  IN IF a.text > 0 \/ said = <<>> THEN a.text ELSE said[1].item.size

IsIncomplete(a) == a.terminal = "incomplete" \/ a.status = "incomplete"

\* ChatFinishReason is tool_calls; the other reasons are not told apart.
FinishesWithCalls(a) == ~IsIncomplete(a) /\ a.calls # <<>>

ResponseOutputItem(call, status) ==
  [kind |-> "call", id |-> call.item, call |-> call.call, named |-> call.named,
   size |-> call.size, status |-> status, signed |-> FALSE]

\* A message without content gets the text, and a status when it has none.
OutputMessage(a, item) ==
  IF item.kind # "message" THEN item
  ELSE [item EXCEPT !.size = IF @ = 0 THEN Text(a) ELSE @,
                    !.status = IF @ # "" THEN @
                               ELSE IF IsIncomplete(a) THEN "incomplete" ELSE "completed"]

\* responsesOutput: calls and items in the order of their indexes.
ResponsesOutput(a) ==
  LET calls == [n \in DOMAIN a.calls |->
                  [index |-> a.calls[n].index,
                   item |-> ResponseOutputItem(a.calls[n], IF IsIncomplete(a)
                                                           THEN a.calls[n].status
                                                           ELSE "completed")]]
      outputs == [n \in DOMAIN a.outputs |->
                    [a.outputs[n] EXCEPT !.item = OutputMessage(a, @)]]
      message == [kind |-> "message", id |-> None, call |-> None, named |-> FALSE,
                  size |-> Text(a), signed |-> FALSE,
                  status |-> IF IsIncomplete(a) THEN "incomplete" ELSE "completed"]
      items == SortedOutputs(calls \o outputs)
  IN IF items # <<>> THEN [n \in DOMAIN items |-> items[n].item]
     ELSE IF IsIncomplete(a) /\ Text(a) = 0 THEN <<>>
     ELSE <<message>>

\* ChatCompletionObject: the tool calls, in the order they were heard of.
ChatToolCalls(a) ==
  [n \in DOMAIN a.calls |-> [id |-> a.calls[n].call, size |-> a.calls[n].size]]

\* ChatImages: the images of the output, in its order.
ChatImages(a) ==
  LET items == SelectSeq(SortedOutputs(a.outputs),
                         LAMBDA o : o.item.kind = "image" /\ o.item.size > 0)
  IN [n \in DOMAIN items |-> items[n].item.size]
==============================================================================

