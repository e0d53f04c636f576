--------------------------- MODULE ResponsesStream ---------------------------
(***************************************************************************)
(* How an upstream event becomes the events of a Responses stream, over    *)
(* SSE or a WebSocket (responsesStreamEvents).  Events that are not about  *)
(* tool calls are passed on.  For tool calls the writer sends its own, so  *)
(* that a call is announced and completed however the upstream told of it. *)
(* With a tuple schema the text is held back and sent, converted, as one   *)
(* delta at the end: conversion keeps the length.                          *)
(*                                                                         *)
(* A step is from [acc, buffer] to [acc, buffer, out]: the writer marks    *)
(* the calls it announced in the accumulator itself.                       *)
(***************************************************************************)
EXTENDS Accumulator, ClientView

ItemBlock(call) == <<"item", call.item>>

\* Fault: a call is announced by every event about it.
AnnounceAgain(call) == <<Opens(ItemBlock(call), "call", call.call)>>

\* ensureResponseOutputItemAdded
Announce(call) ==
  IF call.added THEN <<>> ELSE <<Opens(ItemBlock(call), "call", call.call)>>

Announced(call) ==
  [call EXCEPT !.added = TRUE, !.status = IF @ = "" THEN "in_progress" ELSE @]

\* ensureResponseToolCallCompleted
Complete(call) ==
  IF call.done THEN <<>>
  ELSE Announce(call) \o <<States(ItemBlock(call), call.call, call.size),
                           Closes(ItemBlock(call), call.call)>>

Completed(call) ==
  IF call.done THEN call
  ELSE [call EXCEPT !.added = TRUE, !.done = TRUE, !.status = "completed"]

\* ResponsesStreamEventsForEvent
ToolCallStep(a, event) ==
  LET n == CallOf(a, event.item)
      call == a.calls[n]
  IN CASE event.type = "delta" ->
            [acc |-> [a EXCEPT !.calls[n] = Announced(@)],
             out |-> Announce(call) \o <<Appends(ItemBlock(call), call.call, event.piece)>>]
       [] event.type = "item.added" ->
            [acc |-> [a EXCEPT !.calls[n] = Announced(@)], out |-> Announce(call)]
       [] event.type \in {"done", "item.done"} ->
            [acc |-> [a EXCEPT !.calls[n] = Completed(@)], out |-> Complete(call)]

\* Fault: only the calls that were announced are completed at the end.
IsPendingAnnounced(a, call) ==
  ~call.done /\ call.added /\ (IsIncomplete(a) => call.status = "completed")

\* An incomplete response leaves its open calls open.
IsPending(a, call) == ~call.done /\ (IsIncomplete(a) => call.status = "completed")

\* PendingResponseToolCallCompletionEvents
PendingCompletions(a) ==
  [acc |-> [a EXCEPT !.calls = [n \in DOMAIN @ |-> IF IsPending(a, @[n]) THEN Completed(@[n])
                                                   ELSE @[n]]],
   out |-> FlattenSeq([n \in DOMAIN a.calls |-> IF IsPending(a, a.calls[n])
                                                THEN Complete(a.calls[n]) ELSE <<>>])]

\* A text is passed on under the id of its item; a text that was held back has none.
TextBlock(id) == <<"text", id>>

Say(id, pieces) == IF pieces = 0 THEN <<>> ELSE <<Appends(TextBlock(id), None, pieces)>>

\* What the client is shown of the text when the upstream sends its pieces as they come.
PassedOn(event) ==
  CASE event.type = "delta" /\ event.item.kind = "message" ->
         Say(event.item.id, event.piece)
    [] event.type = "done" /\ event.item.kind = "message" ->
         <<States(TextBlock(event.item.id), None, event.item.size)>>
    [] OTHER -> <<>>

ResponsesEnd(a, buffer, tuple) ==
  LET pending == PendingCompletions(a)
  IN [acc |-> pending.acc, buffer |-> buffer,
      out |-> (IF tuple THEN Say(None, buffer) ELSE <<>>) \o pending.out]


\* Held back: the pieces as they come, the whole text in their place when it is told.
Buffered(buffer, event) ==
  CASE event.type = "delta" -> buffer + event.piece
    [] event.type = "done" -> IF event.item.size > 0 THEN event.item.size ELSE buffer
    [] OTHER -> buffer

ResponsesStep(a, buffer, tuple, event) ==
  CASE tuple /\ event.type \in {"delta", "done"} /\ event.item.kind = "message" ->
         [acc |-> a, buffer |-> Buffered(buffer, event), out |-> <<>>]
    [] CallOf(a, event.item) # 0 ->
         [acc |-> ToolCallStep(a, event).acc, buffer |-> buffer,
          out |-> ToolCallStep(a, event).out]
    [] IsTerminal(event) -> ResponsesEnd(a, buffer, tuple)
    [] OTHER -> [acc |-> a, buffer |-> buffer, out |-> PassedOn(event)]
==============================================================================

