------------------------------ MODULE ChatStream -----------------------------
(***************************************************************************)
(* How an upstream event becomes chunks of a Chat Completions stream       *)
(* (streamChatCompletion with chatToolCallStreamer and chatImageStreamer)  *)
(* or of a legacy Completions stream (streamCompletion), which has text    *)
(* only.  A chat client knows a tool call by the index of its chunks; the  *)
(* first chunk of an index names the call, the others append arguments.    *)
(*                                                                         *)
(* A step is from a writer to [writer, out]; the last step of a stream     *)
(* sends the final chunk, which closes what the client assembled.          *)
(***************************************************************************)
EXTENDS Accumulator, ClientView

NewChatWriter ==
  [index |-> [id \in Ids |-> -1], named |-> {}, sent |-> [id \in Ids |-> 0], next |-> 0,
   hash |-> [id \in Ids |-> 0], image |-> [id \in Ids |-> -1], nextImage |-> 0,
   buffer |-> 0, textSent |-> FALSE]

CallBlock(n) == <<"call", n>>

\* indexByCallID: the index of a call is fixed by the first event about it.
IndexOf(w, id) == IF w.index[id] >= 0 THEN w.index[id] ELSE w.next

\* Fault: a new index for every chunk.
NumberedAgain(w, id) == [w EXCEPT !.index[id] = w.next, !.next = @ + 1]

Numbered(w, id) ==
  IF w.index[id] >= 0 THEN w ELSE [w EXCEPT !.index[id] = w.next, !.next = @ + 1]

\* chatToolCallStreamer.writeChunk: a chunk that names the call, and one with what
\* is new of its arguments; nothing is sent of a call whose name is unknown.
WriteToolChunk(w, call) ==
  LET id == call.call
      named == id \in w.named \/ call.named
      block == CallBlock(IndexOf(w, id))
      fresh == call.size - w.sent[id]
  IN [writer |-> [Numbered(w, id) EXCEPT
                    !.named = IF named THEN @ \cup {id} ELSE @,
                    !.sent[id] = IF named /\ fresh > 0 THEN call.size ELSE @],
      out |-> (IF named /\ id \notin w.named THEN <<Opens(block, "call", id)>> ELSE <<>>)
              \o (IF named /\ fresh > 0 THEN <<Appends(block, id, fresh)>> ELSE <<>>)]

\* Fault: an image that was sent is not sent again in a better rendering.
ShowImageOnce(w, item) ==
  IF w.image[item.id] >= 0 \/ item.size = 0 THEN [writer |-> w, out |-> <<>>]
  ELSE [writer |-> [w EXCEPT !.hash[item.id] = item.size, !.image[item.id] = w.nextImage,
                             !.nextImage = @ + 1],
        out |-> <<States(<<"image", w.nextImage>>, item.id, item.size)>>]

\* chatImageStreamer.image: a rendering that was sent last is not sent again.
ShowImage(w, item) ==
  LET position == IF w.image[item.id] >= 0 THEN w.image[item.id] ELSE w.nextImage
  IN IF item.size = 0 \/ w.hash[item.id] = item.size THEN [writer |-> w, out |-> <<>>]
     ELSE [writer |-> [w EXCEPT !.hash[item.id] = item.size, !.image[item.id] = position,
                                !.nextImage = IF position = @ THEN @ + 1 ELSE @],
           out |-> <<States(<<"image", position>>, item.id, item.size)>>]

\* imagesForEvent: renderings in progress, the finished item, and the final output.
EventImages(event) ==
  CASE event.type \in {"partial", "item.done"} /\ event.item.kind = "image" -> <<event.item>>
    [] event.type = "completed" ->
         FlattenSeq([n \in DOMAIN event.output |->
                       IF event.output[n].kind = "image" THEN <<event.output[n]>> ELSE <<>>])
    [] OTHER -> <<>>

ShowImages(w, items) ==
  FoldLeft(LAMBDA step, item :
             LET shown == ShowImage(step.writer, item)
             IN [writer |-> shown.writer, out |-> step.out \o shown.out],
           [writer |-> w, out |-> <<>>], items)

ChatTextBlock == <<"text", 0>>

ChatText(pieces) == IF pieces = 0 THEN <<>> ELSE <<Appends(ChatTextBlock, None, pieces)>>

\* With a tuple schema the text is held back until the response ends.
ChatTextStep(w, a, tuple, event) ==
  CASE event.type = "delta" /\ event.item.kind = "message" /\ tuple ->
         [writer |-> [w EXCEPT !.buffer = @ + event.piece], out |-> <<>>]
    [] event.type = "delta" /\ event.item.kind = "message" /\ ~tuple ->
         [writer |-> [w EXCEPT !.textSent = TRUE], out |-> ChatText(event.piece)]
    [] event.type = "done" /\ event.item.kind = "message" /\ tuple ->
         [writer |-> [w EXCEPT !.buffer = IF event.item.size > 0 THEN event.item.size ELSE @],
          out |-> <<>>]
    [] IsTerminal(event) /\ tuple ->
         LET held == IF w.buffer = 0 THEN Text(a) ELSE w.buffer
         IN [writer |-> [w EXCEPT !.buffer = held, !.textSent = @ \/ held # 0],
             out |-> ChatText(held)]
    [] OTHER -> [writer |-> w, out |-> <<>>]

\* Fault: the final chunk repeats the text.
FinalTextAlways(w, a) == ChatText(Text(a))

\* The final chunk has the text when none was sent before, and ends every block.
FinalText(w, a) == IF w.textSent THEN <<>> ELSE ChatText(Text(a))

ChatStep(w, a, tuple, event) ==
  LET n == CallOf(a, event.item)
      images == ShowImages(w, EventImages(event))
      text == ChatTextStep(images.writer, a, tuple, event)
  IN IF n # 0 THEN WriteToolChunk(w, a.calls[n])
     ELSE [writer |-> text.writer,
           out |-> images.out \o text.out
                   \o IF IsTerminal(event) THEN FinalText(text.writer, a) ELSE <<>>]

-----------------------------------------------------------------------------
(* streamCompletion *)

CompletionStep(w, a, event) ==
  CASE event.type = "delta" /\ event.item.kind = "message" ->
         [writer |-> [w EXCEPT !.textSent = TRUE], out |-> ChatText(event.piece)]
    [] IsTerminal(event) -> [writer |-> w, out |-> FinalText(w, a)]
    [] OTHER -> [writer |-> w, out |-> <<>>]
==============================================================================

