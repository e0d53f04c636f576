------------------------------ MODULE Streaming ------------------------------
(***************************************************************************)
(* One streamed answer, from the upstream's first event to the client's    *)
(* last: nextStreamEvent applies every event to the accumulator, and the   *)
(* writer of the client's dialect turns it into what the client reads.     *)
(*                                                                         *)
(* The upstream is external.  It says what it produces item by item, its   *)
(* items interleaved, and may leave out some of the events about an item:  *)
(* a shape fixes which.  The response may end before the items do          *)
(* (incomplete), fail, or break off.                                       *)
(***************************************************************************)
EXTENDS Accumulator, ResponsesStream, ChatStream, ClaudeStream, FiniteSets

CONSTANT
  Requests           \* what clients ask for, and what the upstream makes of it

Dialects == {"responses", "chat", "completions", "claude"}

VARIABLES
  dialect,           \* what the client speaks
  tuple,             \* the client asked for structured output: the text is held back
  turn,              \* what the upstream is going to produce
  progress,          \* what it said of each item
  acc,               \* the accumulator
  writer,            \* the state of the writer
  blocks,            \* what the client assembled so far
  phase              \* "streaming", "ended", "failed"

streamVars == <<dialect, tuple, turn, progress, acc, writer, blocks, phase>>

-----------------------------------------------------------------------------
(* The upstream *)

\* The shape of an item: size is its whole text, the first deltas pieces of which
\* come as deltas; added, whole and done say which other events it has, named
\* whether events about its arguments tell its call id and name.
Shapes ==
  [kind : {"call", "message", "reasoning", "search", "image"}, id : Ids, call : Ids \cup {None},
   size : Nat, deltas : Nat, added : {"first", "late", "never"}, named : BOOLEAN,
   whole : BOOLEAN, done : BOOLEAN, signed : BOOLEAN]

\* Every item has an id of its own, and every call a call id of its own.
IsIdentified(items) ==
  /\ \A i \in DOMAIN items : (items[i].kind = "call") = (items[i].call # None)
  /\ \A i, j \in DOMAIN items :
       /\ items[i].id # items[j].call
       /\ i # j => items[i].id # items[j].id
       /\ i # j /\ items[i].call # None => items[i].call # items[j].call

\* A turn: the items, whether the last event lists them, and whether thinking is shown.
IsTurn(t) ==
  /\ t.items \in Seq(Shapes) /\ IsIdentified(t.items)
  /\ \A i \in DOMAIN t.items : t.items[i].deltas <= t.items[i].size
  /\ t.listed \in BOOLEAN /\ t.thinking \in BOOLEAN

\* The first event about a call tells its call id.
Introduced(shape) ==
  shape.added = "first" \/ shape.named \/ (shape.deltas = 0 /\ ~shape.whole)

IsIntroduced(items) == \A i \in DOMAIN items : items[i].kind = "call" => Introduced(items[i])

\* The events about a call tell all of its arguments.
InFull(shape) ==
  \/ shape.whole \/ shape.done
  \/ shape.deltas = shape.size /\ (shape.added # "never" \/ shape.deltas > 0)

IsInFull(items) == \A i \in DOMAIN items : items[i].kind = "call" => InFull(items[i])

ASSUME StreamingAssumption ==
  \A r \in Requests : r.dialect \in Dialects /\ r.tuple \in BOOLEAN /\ IsTurn(r.turn)

Shape(i) == turn.items[i]

\* An item as the item events show it, and as the argument events name it.
Item(i, size, status) ==
  [kind |-> Shape(i).kind, id |-> Shape(i).id, call |-> Shape(i).call,
   named |-> Shape(i).kind = "call", size |-> size, status |-> status,
   signed |-> Shape(i).signed /\ status = "completed"]

Bare(i, size) ==
  [Item(i, size, "") EXCEPT !.call = IF Shape(i).named THEN @ ELSE None,
                            !.named = @ /\ Shape(i).named]

NoItem ==
  [kind |-> "none", id |-> None, call |-> None, named |-> FALSE, size |-> 0, status |-> "",
   signed |-> FALSE]

Event(type, item, index, piece) ==
  [type |-> type, item |-> item, index |-> index, piece |-> piece, output |-> <<>>,
   text |-> 0, status |-> ""]

Started(i) == progress[i].added \/ progress[i].pieces > 0 \/ progress[i].whole \/ progress[i].done

Finished(i) ==
  /\ progress[i].added = (Shape(i).added # "never")
  /\ progress[i].pieces = Shape(i).deltas
  /\ progress[i].whole = Shape(i).whole
  /\ progress[i].done = Shape(i).done

\* Adding is first, late once a piece was sent and before the last was, or left out.
MayAdd(i) ==
  /\ ~progress[i].added /\ ~progress[i].whole /\ ~progress[i].done
  /\ \/ Shape(i).added = "first"
     \/ Shape(i).added = "late" /\ progress[i].pieces > 0

MaySay(i) == (Shape(i).added = "first" => progress[i].added) /\ ~progress[i].whole

MayEnd(i) ==
  /\ Shape(i).added # "never" => progress[i].added
  /\ progress[i].pieces = Shape(i).deltas

MayFinish(i) == MayEnd(i) /\ progress[i].whole = Shape(i).whole

ItemDone(i) == progress[i].whole \/ progress[i].done \/ Finished(i)

\* An item as the last event lists it, as far as it got.
FinalItem(i) ==
  IF ItemDone(i) THEN Item(i, Shape(i).size, "completed")
  ELSE Item(i, progress[i].pieces, "incomplete")

\* A completed response lists all items, an incomplete one those that were begun.
Listed(type) ==
  FlattenSeq([i \in DOMAIN turn.items |->
                IF turn.listed /\ (Started(i) \/ type = "completed") THEN <<FinalItem(i)>>
                ELSE <<>>])

LastEvent(type) ==
  LET said == SelectSeq(Listed(type), LAMBDA item : item.kind = "message")
  IN [Event(type, NoItem, -1, 0) EXCEPT
        !.output = Listed(type),
        !.text = IF said = <<>> THEN 0 ELSE said[1].size,
        !.status = type]

ItemEvent(i, type) ==
  CASE type = "item.added" ->
         Event(type, Item(i, progress[i].pieces, "in_progress"), i - 1, 0)
    [] type = "partial" -> Event(type, Item(i, progress[i].pieces + 1, ""), i - 1, 0)
    [] type = "delta" -> Event(type, Bare(i, 0), i - 1, 1)
    [] type = "done" -> Event(type, Bare(i, Shape(i).size), i - 1, 0)
    [] type = "item.done" -> Event(type, Item(i, Shape(i).size, "completed"), i - 1, 0)

\* The types of the events about an item that may come next.  An image is rendered
\* again and again; anything else comes in pieces.
NextTypes(i) ==
  {type \in {"item.added", "delta", "partial", "done", "item.done"} :
     \/ type = "item.added" /\ MayAdd(i)
     \/ /\ type = (IF Shape(i).kind = "image" THEN "partial" ELSE "delta")
        /\ MaySay(i) /\ progress[i].pieces < Shape(i).deltas
     \/ type = "done" /\ Shape(i).whole /\ ~progress[i].whole /\ MayEnd(i)
     \/ type = "item.done" /\ Shape(i).done /\ ~progress[i].done /\ MayFinish(i)}

\* What the upstream may send next: it may call the response incomplete at any time.
NextEvents ==
  (UNION {{ItemEvent(i, type) : type \in NextTypes(i)} : i \in DOMAIN progress})
  \cup {LastEvent("incomplete")}
  \cup {event \in {LastEvent("completed")} : \A i \in DOMAIN progress : Finished(i)}

-----------------------------------------------------------------------------
(* The answer *)

\* nextStreamEvent, and the writer's step.
Write(event) ==
  \E heard \in {Apply(acc, event)} :
    \/ /\ dialect = "responses"
       /\ \E step \in {ResponsesStep(heard, writer, tuple, event)} :
            acc' = step.acc /\ writer' = step.buffer /\ blocks' = Read(blocks, step.out)
    \/ /\ dialect = "chat"
       /\ \E step \in {ChatStep(writer, heard, tuple, event)} :
            acc' = heard /\ writer' = step.writer /\ blocks' = Read(blocks, step.out)
    \/ /\ dialect = "completions"
       /\ \E step \in {CompletionStep(writer, heard, event)} :
            acc' = heard /\ writer' = step.writer /\ blocks' = Read(blocks, step.out)
    \/ /\ dialect = "claude"
       /\ \E step \in {ClaudeStep(writer, heard, tuple, turn.thinking, event)} :
            acc' = heard /\ writer' = step.encoder /\ blocks' = Read(blocks, step.out)

\* What was said of an item once the upstream sent an event about it.
Advanced(said, type) ==
  CASE type = "item.added" -> [said EXCEPT !.added = TRUE]
    [] type \in {"delta", "partial"} -> [said EXCEPT !.pieces = @ + 1]
    [] type = "done" -> [said EXCEPT !.whole = TRUE]
    [] type = "item.done" -> [said EXCEPT !.done = TRUE]

Receive(event) ==
  /\ phase = "streaming"
  /\ Write(event)
  /\ phase' = IF IsTerminal(event) THEN "ended" ELSE phase
  /\ progress' = [i \in DOMAIN progress |->
                   IF i - 1 = event.index THEN Advanced(progress[i], event.type) ELSE progress[i]]
  /\ UNCHANGED <<dialect, tuple, turn>>

\* An error event or the end of the stream before the response ended: respondStreamError.
Break ==
  /\ phase = "streaming"
  /\ phase' = "failed"
  /\ UNCHANGED <<dialect, tuple, turn, progress, acc, writer, blocks>>

NewWriter ==
  CASE dialect = "responses" -> 0
    [] dialect \in {"chat", "completions"} -> NewChatWriter
    [] dialect = "claude" -> NewEncoder

StreamInit ==
  /\ \E request \in Requests :
       dialect = request.dialect /\ tuple = request.tuple /\ turn = request.turn
  /\ progress = [i \in DOMAIN turn.items |->
                   [added |-> FALSE, pieces |-> 0, whole |-> FALSE, done |-> FALSE]]
  /\ acc = NewAccumulator
  /\ writer = NewWriter
  /\ blocks = <<>>
  /\ phase = "streaming"

StreamNext ==
  \/ \E event \in NextEvents : Receive(event)
  \/ Break

StreamSpec == StreamInit /\ [][StreamNext]_streamVars

-----------------------------------------------------------------------------
(* Properties *)

\* The accumulator (ensureToolCallState) keeps exactly one record of each call the
\* upstream spoke of, however it named the call; once the item was seen the record
\* has both of its ids, and once the call is finished all of its arguments.
OneRecordPerCall ==
  LET Heard == {i \in DOMAIN progress : Shape(i).kind = "call" /\ Started(i)}
      Of(i) == {n \in DOMAIN acc.calls : acc.calls[n].item = Shape(i).id}
  IN phase = "streaming" =>
       /\ Len(acc.calls) = Cardinality(Heard)
       /\ \A i \in Heard : \E n \in Of(i) :
            /\ Of(i) = {n}
            /\ progress[i].added \/ progress[i].done \/ Shape(i).named
                 => acc.calls[n].call = Shape(i).call
            /\ acc.calls[n].size = IF progress[i].whole \/ progress[i].done
                                   THEN Shape(i).size ELSE progress[i].pieces

\* A finished Responses stream has announced, stated and completed every call of its
\* final output, with the ids and arguments the output has; of an incomplete one the
\* calls that did not complete stay open (PendingResponseToolCallCompletionEvents).
ResponsesCallsMatch ==
  LET calls == {acc.calls[n] : n \in DOMAIN acc.calls}
      Shown(call) == call.added \/ ~IsIncomplete(acc)
  IN dialect = "responses" /\ phase = "ended" =>
       \A call \in {c \in calls : Shown(c)} :
         /\ <<"item", call.item>> \in DOMAIN blocks
         /\ blocks[<<"item", call.item>>] =
              [kind |-> "call", id |-> call.call, size |-> call.size, opened |-> 1,
               closed |-> call.status = "completed"]

\* A Chat Completions stream that finishes with tool_calls gave its client the very
\* list of calls the non-streaming answer has (chatToolCallStreamer,
\* chatCompletionToolCalls), unless the list in the last event tells of calls, or of
\* arguments, that no event before it told: the runs leave such turns out (Listable).
ChatCallsMatch ==
  LET shown == Cardinality({key \in DOMAIN blocks : blocks[key].kind = "call"})
  IN dialect = "chat" /\ phase = "ended" /\ FinishesWithCalls(acc) =>
       /\ \A n \in 0 .. shown - 1 : <<"call", n>> \in DOMAIN blocks
       /\ [n \in 1 .. shown |-> [id |-> blocks[<<"call", n - 1>>].id,
                                 size |-> blocks[<<"call", n - 1>>].size]]
            = ChatToolCalls(acc)

ItemsOf(a_kind) == {i \in DOMAIN turn.items : Shape(i).kind = a_kind}



\* A chat client is left with the latest rendering of every image (chatImageStreamer).
ImagesAreLatest ==
  LET shown == {key \in DOMAIN blocks : blocks[key].kind = "image"}
  IN dialect = "chat" /\ phase = "ended" /\ ~IsIncomplete(acc) =>
       /\ Cardinality(shown) = Len(ChatImages(acc))
       /\ {blocks[key].size : key \in shown} = Range(ChatImages(acc))

\* A Responses stream completes a call under the call id it announced it by
\* (ensureResponseOutputItemAdded, ensureResponseToolCallCompleted).
CallsKeepTheirName ==
  [][dialect = "responses" =>
       \A key \in DOMAIN blocks :
         blocks[key].opened > 0 /\ ~blocks[key].closed /\ blocks'[key].closed
           => blocks'[key].id = blocks[key].id]_streamVars

Answer == INSTANCE AnswerStream

\* In every dialect the stream is one a client can follow.
IsAnswerStream == Answer!Spec
==============================================================================
