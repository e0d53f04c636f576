---------------------------- MODULE AnswerProofs ----------------------------
(***************************************************************************)
(* For any turn and any order of its events: what a client of each dialect *)
(* reads is an answer that it can follow, as AnswerStream describes it.    *)
(***************************************************************************)
EXTENDS StreamingProofs

-----------------------------------------------------------------------------
(* A stream that a client can follow, step by step.                        *)

\* What a client reads further: nothing of what it has is taken back.
Along(bl, read) ==
  /\ DOMAIN bl \subseteq DOMAIN read
  /\ \A key \in DOMAIN read :
       IF key \in DOMAIN bl THEN Answer!Extends(bl[key], read[key])
       ELSE Answer!Announced(read[key])

\* New blocks only.
Adds(bl, read) ==
  /\ DOMAIN bl \subseteq DOMAIN read
  /\ \A key \in DOMAIN bl : read[key] = bl[key]
  /\ \A key \in DOMAIN read \ DOMAIN bl : Answer!Announced(read[key])

LEMMA AlongIsNext ==
  ASSUME phase = "streaming", phase' \in {"streaming", "ended", "failed"}, Along(blocks, blocks')
  PROVE  Answer!Next
BY DEF Along, Answer!Next, Answer!Extends, Answer!Announced

LEMMA AlongSelf ==
  ASSUME NEW bl
  PROVE  Along(bl, bl) /\ Adds(bl, bl)
BY DEF Along, Adds, Answer!Extends

LEMMA AlongThenAdds ==
  ASSUME NEW bl, NEW b, NEW read, Along(bl, b), Adds(b, read)
  PROVE  Along(bl, read)
<1>1. DOMAIN bl \subseteq DOMAIN read
  BY DEF Along, Adds
<1>2. ASSUME NEW key \in DOMAIN read
      PROVE  IF key \in DOMAIN bl THEN Answer!Extends(bl[key], read[key])
             ELSE Answer!Announced(read[key])
  <2>1. CASE key \in DOMAIN b
    <3>1. read[key] = b[key]
      BY <2>1 DEF Adds
    <3> QED BY <2>1, <3>1 DEF Along
  <2>2. CASE key \notin DOMAIN b
    <3>1. key \notin DOMAIN bl /\ Answer!Announced(read[key])
      BY <1>2, <2>2 DEF Along, Adds
    <3> QED BY <3>1
  <2> QED BY <2>1, <2>2
<1> QED BY <1>1, <1>2 DEF Along

LEMMA AddsTwice ==
  ASSUME NEW bl, NEW b, NEW read, Adds(bl, b), Adds(b, read)
  PROVE  Adds(bl, read)
<1>1. ASSUME NEW key \in DOMAIN read \ DOMAIN bl PROVE Answer!Announced(read[key])
  <2>1. CASE key \in DOMAIN b
    BY <1>1, <2>1 DEF Adds
  <2>2. CASE key \notin DOMAIN b
    BY <1>1, <2>2 DEF Adds
  <2> QED BY <2>1, <2>2
<1> QED BY <1>1 DEF Adds

\* A client that hears more of a call.
LEMMA GrowsAlong ==
  ASSUME NEW bl, NEW read, CallGrows(bl, read)
  PROVE  /\ Along(bl, read)
         /\ \A key \in DOMAIN read : key[1] \notin {"item", "call"} =>
              key \in DOMAIN bl /\ read[key] = bl[key]
<1>1. PICK key, id, q, closed :
        /\ Changes(bl, read, key, CallShown(id, q, closed))
        /\ key[1] \in {"item", "call"} /\ q \in Nat /\ closed \in BOOLEAN
        /\ key \in DOMAIN bl => \E p, was : Grows(bl[key], id, p, was, q, closed)
  BY DEF CallGrows
<1>2. /\ DOMAIN read = DOMAIN bl \cup {key} /\ read[key] = CallShown(id, q, closed)
      /\ \A other \in DOMAIN bl : other # key => read[other] = bl[other]
  BY <1>1 DEF Changes
<1>3. ASSUME key \in DOMAIN bl PROVE Answer!Extends(bl[key], read[key])
  <2>1. PICK p, was : Grows(bl[key], id, p, was, q, closed)
    BY <1>1, <1>3
  <2>2. /\ bl[key] = CallShown(id, p, was) /\ was \in BOOLEAN /\ p \in Nat /\ p <= q
        /\ was => closed /\ q = p
    BY <2>1 DEF Grows
  <2>3. CASE was
    <3>1. was = TRUE /\ closed = TRUE
      BY <1>1, <2>2, <2>3
    <3> QED BY <1>2, <2>2, <2>3, <3>1 DEF Answer!Extends
  <2>4. CASE ~was
    <3>1. q >= p
      BY <1>1, <2>2
    <3> QED BY <1>2, <2>2, <2>4, <3>1 DEF Answer!Extends, CallShown
  <2> QED BY <2>3, <2>4
<1>4. Answer!Announced(read[key])
  BY <1>2 DEF Answer!Announced, CallShown
<1> QED BY <1>1, <1>2, <1>3, <1>4 DEF Along, Answer!Extends

-----------------------------------------------------------------------------
(* Texts and images.                                                       *)

\* A block that may grow.
IsGrowing(block) == IsBlock(block) /\ block.closed = FALSE /\ block.size \in Nat

\* A message about a text or an image, a piece of it or a better rendering.
IsPart(out) ==
  /\ out.kind = out.key[1] /\ out.key[1] \in {"text", "image"} /\ out.do \in {"append", "state"}

Fitting(bl, out) ==
  /\ out.size \in Nat
  /\ out.key \in DOMAIN bl =>
       IsGrowing(bl[out.key]) /\ (out.do = "state" => bl[out.key].size <= out.size)

SizeBefore(bl, key) == IF key \in DOMAIN bl THEN bl[key].size ELSE 0

\* What a client has once it read it.
PartRead(bl, out, read) ==
  /\ DOMAIN read = DOMAIN bl \cup {out.key}
  /\ \A key \in DOMAIN bl : key # out.key => read[key] = bl[key]
  /\ out.key \notin DOMAIN bl => read[out.key].kind = out.kind
  /\ out.key \notin DOMAIN bl \/ IsBlock(bl[out.key]) => IsBlock(read[out.key])
  /\ out.key \in DOMAIN bl /\ IsBlock(bl[out.key]) =>
       /\ read[out.key].kind = bl[out.key].kind /\ read[out.key].id = bl[out.key].id
       /\ read[out.key].opened = bl[out.key].opened
       /\ read[out.key].closed = bl[out.key].closed
  /\ out.key \notin DOMAIN bl => read[out.key].closed = FALSE
  /\ out.key \notin DOMAIN bl \/ IsBlock(bl[out.key]) =>
       read[out.key].size = IF out.do = "append" THEN SizeBefore(bl, out.key) + out.size
                            ELSE out.size

LEMMA PartIs ==
  ASSUME NEW bl, NEW out, IsPart(out), NEW read, read = ReadOne(bl, out)
  PROVE  PartRead(bl, out, read)
<1>a. PICK key : key = out.key
  OBVIOUS
<1>b. PICK old : old = IF key \in DOMAIN bl THEN bl[key] ELSE Unopened(out)
  OBVIOUS
<1>1. PICK block : /\ Changes(bl, read, key, block)
                   /\ block = CASE out.do = "open" -> [old EXCEPT !.opened = @ + 1, !.kind = out.kind,
                                                                  !.id = out.id]
                                [] out.do = "append" -> [old EXCEPT !.size = @ + out.size]
                                [] out.do = "state" -> [old EXCEPT !.size = out.size]
                                [] out.do = "close" -> [old EXCEPT !.closed = TRUE, !.id = out.id]
  BY <1>a, <1>b, ReadOneIs
<1>2. /\ DOMAIN read = DOMAIN bl \cup {key} /\ read[key] = block
      /\ \A other \in DOMAIN bl : other # key => read[other] = bl[other]
  BY <1>1 DEF Changes
<1>c. PICK size : size = IF out.do = "append" THEN old.size + out.size ELSE out.size
  OBVIOUS
<1>3. block = [old EXCEPT !.size = size]
  BY <1>1, <1>c DEF IsPart
<1>4. key \notin DOMAIN bl =>
        old = [kind |-> out.kind, id |-> out.id, size |-> 0, opened |-> 0, closed |-> FALSE]
  BY <1>b DEF Unopened
<1>5. ASSUME key \notin DOMAIN bl \/ IsBlock(bl[key])
      PROVE  block = [kind |-> old.kind, id |-> old.id, size |-> size, opened |-> old.opened,
                      closed |-> old.closed]
  <2>1. old = [kind |-> old.kind, id |-> old.id, size |-> old.size, opened |-> old.opened,
               closed |-> old.closed]
    BY <1>b, <1>4, <1>5 DEF IsBlock
  <2> QED BY <1>3, <2>1
<1>6. key \in DOMAIN bl => old = bl[key]
  BY <1>b
<1>7. old.size = SizeBefore(bl, key)
  BY <1>4, <1>6 DEF SizeBefore
<1> QED BY <1>2, <1>4, <1>5, <1>6, <1>7, <1>a, <1>c DEF IsBlock, PartRead

LEMMA PartReads ==
  ASSUME NEW bl, NEW out, IsPart(out), Fitting(bl, out), NEW read, read = ReadOne(bl, out)
  PROVE  Along(bl, read) /\ IsGrowing(read[out.key])
<1>a. PICK key : key = out.key
  OBVIOUS
<1>0. PartRead(bl, out, read)
  BY PartIs
<1>1. /\ DOMAIN read = DOMAIN bl \cup {key}
      /\ \A other \in DOMAIN bl : other # key => read[other] = bl[other]
  BY <1>0, <1>a DEF PartRead
<1>2. CASE key \in DOMAIN bl
  <2>a. PICK old : old = bl[key]
    OBVIOUS
  <2>1. IsBlock(old) /\ old.closed = FALSE /\ old.size \in Nat /\ out.size \in Nat
        /\ (out.do = "state" => old.size <= out.size)
    BY <1>a, <1>2, <2>a DEF Fitting, IsGrowing
  <2>2. /\ IsBlock(read[key])
        /\ read[key].kind = old.kind /\ read[key].id = old.id /\ read[key].opened = old.opened
        /\ read[key].closed = old.closed
        /\ read[key].size = IF out.do = "append" THEN old.size + out.size ELSE out.size
    BY <1>a, <1>2, <2>a, <1>0, <2>1 DEF SizeBefore, PartRead
  <2>3. read[key].size \in Nat /\ read[key].size >= old.size
    BY <2>1, <2>2 DEF IsPart
  <2>4. Answer!Extends(old, read[key])
    BY <2>1, <2>2, <2>3 DEF Answer!Extends
  <2>5. Along(bl, read)
    BY <1>1, <1>2, <2>4, <2>a DEF Along, Answer!Extends
  <2> QED BY <1>a, <2>1, <2>2, <2>3, <2>5 DEF IsGrowing
<1>3. CASE key \notin DOMAIN bl
  <2>1. /\ IsBlock(read[key]) /\ read[key].closed = FALSE /\ read[key].kind \in {"text", "image"}
        /\ read[key].size = IF out.do = "append" THEN 0 + out.size ELSE out.size
    BY <1>a, <1>0, <1>3 DEF SizeBefore, IsPart, PartRead
  <2>2. read[key].size \in Nat
    BY <2>1 DEF Fitting
  <2>3. Along(bl, read)
    BY <1>1, <1>3, <2>1 DEF Along, Answer!Extends, Answer!Announced
  <2> QED BY <1>a, <2>1, <2>2, <2>3 DEF IsGrowing
<1> QED BY <1>2, <1>3

\* The first message about a text.
LEMMA PartAdds ==
  ASSUME NEW bl, NEW out, IsPart(out), out.key \notin DOMAIN bl, NEW read, read = ReadOne(bl, out)
  PROVE  Adds(bl, read)
<1>0. PartRead(bl, out, read)
  BY PartIs
<1>1. /\ DOMAIN read = DOMAIN bl \cup {out.key} /\ read[out.key].kind \in {"text", "image"}
      /\ \A key \in DOMAIN bl : key # out.key => read[key] = bl[key]
  BY <1>0 DEF IsPart, PartRead
<1> QED BY <1>1 DEF Adds, Answer!Announced

-----------------------------------------------------------------------------
(* The texts of a Responses stream.                                        *)

\* The sizes that the events show, of anything that is no call.
SizeShown(shape, said, type) ==
  CASE type = "item.added" -> said.pieces
    [] type = "delta" -> 0
    [] type = "partial" -> said.pieces + 1
    [] type \in {"done", "item.done"} -> shape.size

LEMMA EventSize ==
  ASSUME NEW i, NEW type \in {"item.added", "delta", "partial", "done", "item.done"}
  PROVE  ItemEvent(i, type).item.size = SizeShown(turn.items[i], progress[i], type)
BY DEF ItemEvent, Event, Item, Bare, Shape, SizeShown

\* How much of a text was said, and the client's block of it.
TextSaid(shape, said) == IF said.whole THEN shape.size ELSE said.pieces

IsTextOf(items, prog, bl, key, i) ==
  /\ items[i].kind = "message" /\ key = TextBlock(items[i].id) /\ IsGrowing(bl[key])
  /\ bl[key].size <= TextSaid(items[i], prog[i])

\* A client has texts of messages, and none that the writer holds back.
SaysTexts(items, prog, held, bl) ==
  \A key \in DOMAIN bl : IsTextKey(key) =>
    ~held /\ \E i \in DOMAIN items : IsTextOf(items, prog, bl, key, i)

\* What the writer sends of anything but a call: a piece of a text, or all of it.
SaysText(out, id, event) ==
  \/ event.type = "delta" /\ out = Appends(TextBlock(id), None, 1)
  \/ event.type = "done" /\ out = States(TextBlock(id), None, event.item.size)

LEMMA OtherText ==
  ASSUME NEW a, NEW buffer, NEW held, NEW event, NEW step,
         step = ResponsesStep(a, buffer, held, event), ~IsTerminal(event),
         CallOf(a, event.item) = 0, event.type = "delta" => event.piece = 1
  PROVE  \/ step.out = <<>>
         \/ /\ event.item.kind = "message" /\ ~held
            /\ \E out : SaysText(out, event.item.id, event) /\ step.out = <<out>>
<1>1. CASE event.type = "delta" /\ event.item.kind = "message"
  <2>1. CASE held
    BY <1>1, <2>1 DEF ResponsesStep
  <2>2. CASE ~held
    <3>1. step.out = PassedOn(event)
      BY <1>1, <2>2 DEF ResponsesStep
    <3>2. PassedOn(event) = <<Appends(TextBlock(event.item.id), None, 1)>>
      BY <1>1 DEF PassedOn, Say
    <3> QED BY <1>1, <2>2, <3>1, <3>2 DEF SaysText
  <2> QED BY <2>1, <2>2
<1>2. CASE event.type = "done" /\ event.item.kind = "message"
  <2>1. CASE held
    BY <1>2, <2>1 DEF ResponsesStep
  <2>2. CASE ~held
    <3>1. step.out = PassedOn(event)
      BY <1>2, <2>2 DEF ResponsesStep
    <3>2. PassedOn(event) = <<States(TextBlock(event.item.id), None, event.item.size)>>
      BY <1>2 DEF PassedOn
    <3> QED BY <1>2, <2>2, <3>1, <3>2 DEF SaysText
  <2> QED BY <2>1, <2>2
<1>3. CASE event.type \notin {"delta", "done"} \/ event.item.kind # "message"
  <2>1. step.out = PassedOn(event)
    BY <1>3 DEF ResponsesStep
  <2>2. PassedOn(event) = <<>>
    BY <1>3 DEF PassedOn
  <2> QED BY <2>1, <2>2
<1> QED BY <1>1, <1>2, <1>3

\* The texts once the upstream told more of an item.
LEMMA TextStays ==
  ASSUME NEW items, NEW prog, NEW next, NEW bl, NEW read, NEW key, NEW j,
         IsTextOf(items, prog, bl, key, j), next[j] = prog[j], read[key] = bl[key]
  PROVE  IsTextOf(items, next, read, key, j)
BY DEF IsTextOf

LEMMA TextsOfCall ==
  ASSUME NEW i, NEW type, NEW event, NEW next, IsTelled(i, type, event, next),
         turn.items[i].kind = "call", NEW held, SaysTexts(turn.items, progress, held, blocks),
         CallGrows(blocks, blocks')
  PROVE  SaysTexts(turn.items, next, held, blocks')
<1> SUFFICES ASSUME NEW key \in DOMAIN blocks', IsTextKey(key)
             PROVE  ~held /\ \E j \in DOMAIN turn.items : IsTextOf(turn.items, next, blocks', key, j)
  BY DEF SaysTexts
<1>1. key \in DOMAIN blocks /\ blocks'[key] = blocks[key]
  BY GrowsAlong DEF IsTextKey
<1>2. ~held /\ \E j \in DOMAIN turn.items : IsTextOf(turn.items, progress, blocks, key, j)
  BY <1>1 DEF SaysTexts
<1>3. PICK j \in DOMAIN turn.items : IsTextOf(turn.items, progress, blocks, key, j)
  BY <1>2
<1>4. j # i
  BY <1>3 DEF IsTextOf
<1>5. next[j] = progress[j]
  BY <1>4 DEF IsTelled, IsTold, IsProgressed
<1> QED BY <1>1, <1>2, <1>3, <1>5, TextStays

\* A message about the text of an item.
LEMMA TextTold ==
  ASSUME NEW shape, NEW said, NEW type, NEW next, InOrder(shape, said),
         IsNext(shape, said, type), IsAdvanced(next, said, type), shape.kind = "message",
         NEW event, event.type = type, event.item.size = SizeShown(shape, said, type),
         NEW out, SaysText(out, shape.id, event), NEW bl, NEW key, key = TextBlock(shape.id),
         key \in DOMAIN bl => IsGrowing(bl[key]) /\ bl[key].size <= TextSaid(shape, said),
         NEW read, read = ReadOne(bl, out)
  PROVE  /\ IsPart(out) /\ out.key = key /\ Along(bl, read) /\ IsGrowing(read[key])
         /\ read[key].size <= TextSaid(shape, next)
<1>1. /\ shape.size \in Nat /\ shape.deltas \in Nat /\ said.pieces \in Nat
      /\ said.pieces <= shape.deltas /\ shape.deltas <= shape.size
  BY ShapeFields DEF InOrder
<1>2. out.key = key /\ IsPart(out) /\ out.size \in Nat
  BY <1>1 DEF SaysText, IsPart, TextBlock, Appends, States, SizeShown
<1>3. PartRead(bl, out, read)
  BY <1>2, PartIs
<1>4. CASE type = "delta"
  <2>1. out.do = "append" /\ out.size = 1
    BY <1>4 DEF SaysText, Appends
  <2>2. Fitting(bl, out)
    BY <1>2, <2>1 DEF Fitting
  <2>3. Along(bl, read) /\ IsGrowing(read[key])
    BY <1>2, <2>2, PartReads
  <2>4. ~said.whole /\ ~next.whole /\ next.pieces = said.pieces + 1
    BY <1>4 DEF IsNext, IsAdvanced
  <2>5. read[key].size = (IF key \in DOMAIN bl THEN bl[key].size ELSE 0) + 1
    BY <1>2, <1>3, <2>1 DEF PartRead, SizeBefore, IsGrowing
  <2>6. key \in DOMAIN bl => bl[key].size \in Nat /\ bl[key].size <= said.pieces
    BY <2>4 DEF IsGrowing, TextSaid
  <2>7. read[key].size <= next.pieces
    BY <1>1, <2>4, <2>5, <2>6
  <2> QED BY <1>2, <2>3, <2>4, <2>7 DEF TextSaid
<1>5. CASE type = "done"
  <2>1. out.do = "state" /\ out.size = shape.size
    BY <1>5 DEF SaysText, States, SizeShown
  <2>2. ~said.whole /\ next.whole
    BY <1>5 DEF IsNext, IsAdvanced
  <2>3. key \in DOMAIN bl => bl[key].size \in Nat /\ bl[key].size <= said.pieces
    BY <2>2 DEF IsGrowing, TextSaid
  <2>4. Fitting(bl, out)
    BY <1>1, <1>2, <2>1, <2>3 DEF Fitting
  <2>5. Along(bl, read) /\ IsGrowing(read[key])
    BY <1>2, <2>4, PartReads
  <2>6. read[key].size = shape.size
    BY <1>2, <1>3, <2>1 DEF PartRead, IsGrowing
  <2> QED BY <1>1, <1>2, <2>2, <2>5, <2>6 DEF TextSaid
<1> QED BY <1>4, <1>5 DEF SaysText

\* More of a text is said, never less.
LEMMA SaidGrows ==
  ASSUME NEW shape, NEW said, NEW type, NEW next, InOrder(shape, said),
         IsNext(shape, said, type), IsAdvanced(next, said, type)
  PROVE  /\ TextSaid(shape, said) \in Nat /\ TextSaid(shape, next) \in Nat
         /\ TextSaid(shape, said) <= TextSaid(shape, next)
<1>1. /\ shape.size \in Nat /\ shape.deltas \in Nat /\ said.pieces \in Nat
      /\ said.pieces <= shape.deltas /\ shape.deltas <= shape.size
  BY ShapeFields DEF InOrder
<1>2. said.whole => next.whole
  BY DEF IsAdvanced
<1>3. next.pieces \in Nat /\ said.pieces <= next.pieces
  BY <1>1 DEF IsAdvanced
<1> QED BY <1>1, <1>2, <1>3 DEF TextSaid

LEMMA TextIds ==
  ASSUME NEW items, AreItems(items), NEW i \in DOMAIN items, NEW j \in DOMAIN items, i # j
  PROVE  TextBlock(items[i].id) # TextBlock(items[j].id)
<1>1. items[i].id # items[j].id
  BY ItemIds
<1>2. \A id : TextBlock(id)[2] = id
  BY DEF TextBlock
<1> QED BY <1>1, <1>2

LEMMA TextsOfOther ==
  ASSUME NEW i, NEW type, NEW event, NEW next, IsTelled(i, type, event, next),
         turn.items[i].kind # "call", SaysTexts(turn.items, progress, tuple, blocks),
         dialect = "responses", Write(event)
  PROVE  SaysTexts(turn.items, next, tuple, blocks') /\ Along(blocks, blocks')
<1>a. PICK items, b, key : items = turn.items /\ b = Apply(acc, event) /\ key = TextBlock(items[i].id)
  OBVIOUS
<1>b. PICK step : step = ResponsesStep(b, writer, tuple, event)
  OBVIOUS
<1>1. /\ AreItems(items) /\ i \in DOMAIN items /\ InOrder(items[i], progress[i])
      /\ IsNext(items[i], progress[i], type) /\ IsAdvanced(next[i], progress[i], type)
      /\ \A j \in DOMAIN items : j # i => next[j] = progress[j]
      /\ event = ItemEvent(i, type)
      /\ type \in {"item.added", "delta", "partial", "done", "item.done"}
  BY <1>a, NextIs, TypesOf DEF IsTelled, IsTold, IsProgressed
<1>2. /\ event.type = type /\ (type = "delta" => event.piece = 1)
      /\ event.item.kind = items[i].kind /\ event.item.id = items[i].id
      /\ event.item.size = SizeShown(items[i], progress[i], type)
  BY <1>1, <1>a, ItemEventIs, EventSize DEF IsItemEvent
<1>3. ~IsTerminal(event) /\ CallOf(b, event.item) = 0
  <2>1. event.item.kind # "call"
    BY <1>2, <1>a
  <2> QED BY <1>1, <1>2, <2>1 DEF IsTerminal, CallOf
<1>4. blocks' = Read(blocks, step.out)
  BY <1>a, <1>b DEF Write
<1>5. CASE step.out = <<>>
  <2>1. blocks' = blocks
    BY <1>4, <1>5, ReadNothing
  <2>2. SaysTexts(items, next, tuple, blocks')
    <3> SUFFICES ASSUME NEW k \in DOMAIN blocks, IsTextKey(k)
                 PROVE  ~tuple /\ \E j \in DOMAIN items : IsTextOf(items, next, blocks, k, j)
      BY <2>1 DEF SaysTexts
    <3>1. ~tuple /\ \E j \in DOMAIN items : IsTextOf(items, progress, blocks, k, j)
      BY <1>a DEF SaysTexts
    <3>2. PICK j \in DOMAIN items : IsTextOf(items, progress, blocks, k, j)
      BY <3>1
    <3>3. CASE j # i
      <4>1. next[j] = progress[j]
        BY <1>1, <3>3
      <4> QED BY <3>1, <3>2, <4>1, TextStays
    <3>4. CASE j = i
      <4>1. TextSaid(items[i], progress[i]) <= TextSaid(items[i], next[i])
        BY <1>1, SaidGrows
      <4>2. /\ blocks[k].size \in Nat /\ blocks[k].size <= TextSaid(items[i], progress[i])
        BY <3>2, <3>4 DEF IsTextOf, IsGrowing
      <4>3. TextSaid(items[i], progress[i]) \in Nat /\ TextSaid(items[i], next[i]) \in Nat
        BY <1>1, SaidGrows
      <4>4. blocks[k].size <= TextSaid(items[i], next[i])
        BY <4>1, <4>2, <4>3
      <4> QED BY <3>1, <3>2, <3>4, <4>4 DEF IsTextOf
    <3> QED BY <3>3, <3>4
  <2> QED BY <1>a, <2>1, <2>2, AlongSelf
<1>6. ASSUME event.item.kind = "message", ~tuple,
             NEW out, SaysText(out, event.item.id, event), step.out = <<out>>
      PROVE  SaysTexts(items, next, tuple, blocks') /\ Along(blocks, blocks')
  <2>a. PICK read : read = ReadOne(blocks, out)
    OBVIOUS
  <2>1. blocks' = read
    BY <1>4, <1>6, <2>a, ReadOneOnly
  <2>2. key \in DOMAIN blocks =>
          IsGrowing(blocks[key]) /\ blocks[key].size <= TextSaid(items[i], progress[i])
    <3> SUFFICES ASSUME key \in DOMAIN blocks
                 PROVE  IsGrowing(blocks[key]) /\ blocks[key].size <= TextSaid(items[i], progress[i])
      OBVIOUS
    <3>1. IsTextKey(key)
      BY <1>a DEF TextBlock, IsTextKey
    <3>2. PICK j \in DOMAIN items : IsTextOf(items, progress, blocks, key, j)
      BY <1>a, <3>1 DEF SaysTexts
    <3>3. j = i
      BY <1>1, <1>a, <3>2, TextIds DEF IsTextOf
    <3> QED BY <3>2, <3>3 DEF IsTextOf
  <2>3. /\ IsPart(out) /\ out.key = key /\ Along(blocks, read) /\ IsGrowing(read[key])
        /\ read[key].size <= TextSaid(items[i], next[i])
    <3>1. SaysText(out, items[i].id, event) /\ items[i].kind = "message"
      BY <1>2, <1>6
    <3> QED BY <1>1, <1>2, <1>a, <2>2, <2>a, <3>1, TextTold
  <2>4. PartRead(blocks, out, read)
    BY <2>3, <2>a, PartIs
  <2>5. ASSUME NEW k \in DOMAIN read, IsTextKey(k)
        PROVE  \E j \in DOMAIN items : IsTextOf(items, next, read, k, j)
    <3>1. CASE k = key
      <4>1. IsTextOf(items, next, read, k, i)
        BY <1>2, <1>6, <1>a, <2>3, <3>1 DEF IsTextOf
      <4> QED BY <1>1, <4>1
    <3>2. CASE k # key
      <4>1. k \in DOMAIN blocks /\ read[k] = blocks[k]
        BY <2>3, <2>4, <2>5, <3>2 DEF PartRead
      <4>2. PICK j \in DOMAIN items : IsTextOf(items, progress, blocks, k, j)
        BY <1>a, <2>5, <4>1 DEF SaysTexts
      <4>3. next[j] = progress[j]
        BY <1>1, <1>a, <3>2, <4>2 DEF IsTextOf
      <4> QED BY <4>1, <4>2, <4>3, TextStays
    <3> QED BY <3>1, <3>2
  <2> QED BY <1>6, <2>1, <2>3, <2>5 DEF SaysTexts
<1>7. \/ step.out = <<>>
      \/ /\ event.item.kind = "message" /\ ~tuple
         /\ \E out : SaysText(out, event.item.id, event) /\ step.out = <<out>>
  BY <1>2, <1>3, <1>b, OtherText
<1> QED BY <1>5, <1>6, <1>7, <1>a

-----------------------------------------------------------------------------
(* The end of a Responses stream.                                          *)

\* Keys of no call: the end leaves their blocks alone.
LEMMA PendingLeaves ==
  ASSUME NEW bl, NEW a, a.calls \in Seq(ToolCallStates), NEW key,
         \A n \in DOMAIN a.calls : ItemBlock(a.calls[n]) # key
  PROVE  AgreesAt(bl, Read(bl, PendingCompletions(a).out), key)
<1>a. PICK N, read : N = Len(a.calls) /\ read = Read(bl, PendingCompletions(a).out)
  OBVIOUS
<1>1. N \in Nat /\ DOMAIN a.calls = 1 .. N
  BY <1>a
<1>2. PICK S, seqs : /\ PendingCompletions(a).out = FlattenSeq(seqs)
                     /\ seqs \in Seq(Seq(S)) /\ Len(seqs) = N
                     /\ \A n \in 1 .. N : seqs[n] = LastSaid(a, a.calls[n])
  BY <1>a, PendingIs
<1>3. PICK x : ReadsEach(x, bl, seqs) /\ Read(bl, FlattenSeq(seqs)) = x[N]
  BY <1>2, ReadFlattened
<1>4. /\ x[0] = bl /\ read = x[N]
      /\ \A n \in 1 .. N : x[n] = Read(x[n - 1], LastSaid(a, a.calls[n]))
  BY <1>2, <1>3, <1>a DEF ReadsEach
<1>5. ASSUME NEW n \in 1 .. N PROVE AgreesAt(x[n - 1], x[n], key)
  <2>1. ItemBlock(a.calls[n]) # key
    BY <1>1
  <2>2. \A out \in Completing(a.calls[n]) : out.key # key
    BY <2>1, CompletingKeys
  <2>3. LastSaid(a, a.calls[n]) \in Seq(Completing(a.calls[n]))
    BY LastType
  <2>4. AgreesAt(x[n - 1], Read(x[n - 1], LastSaid(a, a.calls[n])), key)
    BY <2>2, <2>3, ReadAgrees
  <2> QED BY <1>4, <2>4
<1>6. AgreesAt(bl, x[N], key)
  <2> DEFINE T == {n \in Nat : n <= N => AgreesAt(bl, x[n], key)}
  <2>1. 0 \in T
    BY <1>4, AgreesSelf
  <2>2. ASSUME NEW n \in Nat, n \in T PROVE n + 1 \in T
    <3> SUFFICES ASSUME n + 1 <= N PROVE AgreesAt(bl, x[n + 1], key)
      OBVIOUS
    <3>1. n <= N /\ n + 1 \in 1 .. N /\ n + 1 - 1 = n
      BY <1>1
    <3>2. AgreesAt(bl, x[n], key)
      BY <2>2, <3>1
    <3>3. AgreesAt(x[n], x[n + 1], key)
      BY <1>5, <3>1
    <3> QED BY <3>2, <3>3, AgreesTwice
  <2>3. N \in T
    <3> HIDE DEF T
    <3>1. Nat \subseteq T
      BY <2>1, <2>2, Induction
    <3> QED BY <1>1, <3>1
  <2> QED BY <1>1, <2>3
<1> QED BY <1>4, <1>6, <1>a

\* One block follows another one.
FollowsAt(bl, read, key) ==
  /\ key \in DOMAIN bl => key \in DOMAIN read
  /\ key \in DOMAIN read => IF key \in DOMAIN bl THEN Answer!Extends(bl[key], read[key])
                            ELSE Answer!Announced(read[key])

LEMMA AgreesFollows ==
  ASSUME NEW bl, NEW read, NEW key, AgreesAt(bl, read, key)
  PROVE  FollowsAt(bl, read, key)
BY DEF AgreesAt, FollowsAt, Answer!Extends

LEMMA FollowsAgrees ==
  ASSUME NEW bl, NEW b, NEW c, NEW read, NEW key, AgreesAt(bl, b, key), FollowsAt(b, c, key),
         AgreesAt(c, read, key)
  PROVE  FollowsAt(bl, read, key)
BY DEF AgreesAt, FollowsAt

\* What the end sends of a call.
LEMMA LastFollows ==
  ASSUME NEW bl, NEW a, NEW call \in ToolCallStates, NEW i, NEW p, Fits(bl, call, i, p)
  PROVE  FollowsAt(bl, Read(bl, LastSaid(a, call)), ItemBlock(call))
<1>a. PICK key, read : key = ItemBlock(call) /\ read = Read(bl, LastSaid(a, call))
  OBVIOUS
<1>1. CASE ~IsPending(a, call)
  <2>1. read = bl
    BY <1>1, <1>a, ReadNothing DEF LastSaid
  <2> QED BY <1>a, <2>1, AgreesSelf, AgreesFollows
<1>2. CASE IsPending(a, call)
  <2>1. ~call.done /\ IsOpen(bl, call, p)
    BY <1>2 DEF IsPending, Fits, HasShown
  <2>2. Changes(bl, read, key, CallShown(call.call, call.size, TRUE))
    BY <1>2, <1>a, <2>1, CompleteReads DEF LastSaid
  <2>3. key \in DOMAIN read /\ read[key] = CallShown(call.call, call.size, TRUE)
    BY <2>2 DEF Changes
  <2>4. ASSUME key \in DOMAIN bl PROVE Answer!Extends(bl[key], read[key])
    <3>1. call.added /\ bl[key] = CallShown(call.call, p, FALSE)
      BY <1>a, <2>1, <2>4 DEF IsOpen
    <3>2. p \in Nat /\ p <= call.size /\ call.size \in Nat
      BY <3>1, RecordFields DEF Fits
    <3>3. call.size >= p
      BY <3>2
    <3> QED BY <2>3, <3>1, <3>3 DEF Answer!Extends, CallShown
  <2>5. Answer!Announced(read[key])
    BY <2>3 DEF Answer!Announced, CallShown
  <2> QED BY <1>a, <2>3, <2>4, <2>5 DEF FollowsAt
<1> QED BY <1>1, <1>2

\* The records of calls have different ids.
LEMMA RecordsDiffer ==
  ASSUME NEW items, AreItems(items), NEW a, NEW said, IsSaid(items, said), Knows(items, a, said)
  PROVE  \A k, n \in DOMAIN a.calls : k # n => a.calls[k].item # a.calls[n].item
<1> SUFFICES ASSUME NEW k \in DOMAIN a.calls, NEW n \in DOMAIN a.calls,
                    a.calls[k].item = a.calls[n].item
             PROVE  k = n
  OBVIOUS
<1>1. PICK j \in DOMAIN said : a.byId[items[j].id] = k
  BY DEF Knows
<1>2. \A l \in DOMAIN a.calls : a.calls[l].item = items[j].id <=> l = a.byId[items[j].id]
  BY KnownOnce
<1> QED BY <1>1, <1>2

\* The end takes nothing back.
LEMMA PendingAlong ==
  ASSUME NEW bl, NEW a, NEW said, Fit(bl, a, said), AreItems(turn.items),
         NEW read, read = Read(bl, PendingCompletions(a).out)
  PROVE  Along(bl, read)
<1>1. /\ IsSaid(turn.items, said) /\ Knows(turn.items, a, said)
      /\ a.calls \in Seq(ToolCallStates)
  BY DEF Fit, Knows, IsAccumulator
<1>2. ASSUME NEW key PROVE FollowsAt(bl, read, key)
  <2>1. CASE \A n \in DOMAIN a.calls : ItemBlock(a.calls[n]) # key
    BY <1>1, <2>1, PendingLeaves, AgreesFollows
  <2>2. ASSUME NEW m \in DOMAIN a.calls, ItemBlock(a.calls[m]) = key PROVE FollowsAt(bl, read, key)
    <3>a. PICK call : call = a.calls[m]
      OBVIOUS
    <3>1. PICK i \in DOMAIN said : a.byId[turn.items[i].id] = m
      BY <1>1 DEF Knows
    <3>2. call = RecordOf(turn.items, a, i) /\ call \in ToolCallStates
      BY <1>1, <3>1, <3>a DEF RecordOf
    <3>3. PICK p : Fits(bl, call, i, p)
      BY <3>2 DEF Fit
    <3>4. \A k, n \in DOMAIN a.calls : k # n => a.calls[k].item # a.calls[n].item
      BY <1>1, RecordsDiffer
    <3>5. PICK before, after : /\ AgreesAt(bl, before, ItemBlock(call))
                               /\ after = Read(before, LastSaid(a, call))
                               /\ AgreesAt(after, read, ItemBlock(call))
      BY <1>1, <3>4, <3>a, PendingReads
    <3>6. Fits(before, call, i, p)
      BY <3>3, <3>5, FitsAgrees
    <3>7. FollowsAt(before, after, ItemBlock(call))
      BY <3>2, <3>5, <3>6, LastFollows
    <3> QED BY <2>2, <3>5, <3>7, <3>a, FollowsAgrees
  <2> QED BY <2>1, <2>2
<1> QED BY <1>2 DEF Along, FollowsAt

\* A text that the writer held back is a new block.
LEMMA HeldTextAdds ==
  ASSUME NEW bl, NEW items, NEW prog, NEW held, SaysTexts(items, prog, held, bl), NEW buffer,
         NEW text, text = IF held THEN Say(None, buffer) ELSE <<>>
  PROVE  Adds(bl, Read(bl, text))
<1>1. CASE text = <<>>
  BY <1>1, ReadNothing, AlongSelf
<1>2. CASE text # <<>>
  <2>a. PICK out : out = Appends(TextBlock(None), None, buffer)
    OBVIOUS
  <2>1. held /\ text = <<out>>
    BY <1>2, <2>a DEF Say
  <2>2. IsPart(out) /\ IsTextKey(out.key)
    BY <2>a DEF IsPart, Appends, TextBlock, IsTextKey
  <2>3. out.key \notin DOMAIN bl
    BY <2>1, <2>2 DEF SaysTexts
  <2> QED BY <2>1, <2>2, <2>3, ReadOneOnly, PartAdds
<1> QED BY <1>1, <1>2

LEMMA AddsThenAlong ==
  ASSUME NEW bl, NEW b, NEW read, Adds(bl, b), Along(b, read)
  PROVE  Along(bl, read)
<1>1. DOMAIN bl \subseteq DOMAIN read
  BY DEF Adds, Along
<1>2. ASSUME NEW key \in DOMAIN read
      PROVE  IF key \in DOMAIN bl THEN Answer!Extends(bl[key], read[key])
             ELSE Answer!Announced(read[key])
  <2>1. CASE key \in DOMAIN bl
    BY <2>1 DEF Adds, Along
  <2>2. CASE key \in DOMAIN b /\ key \notin DOMAIN bl
    <3>1. Answer!Extends(b[key], read[key]) /\ Answer!Announced(b[key])
      BY <2>2 DEF Along, Adds
    <3>2. Answer!Announced(read[key])
      BY <3>1 DEF Answer!Extends, Answer!Announced
    <3> QED BY <2>2, <3>2
  <2>3. CASE key \notin DOMAIN b
    <3>1. key \notin DOMAIN bl /\ Answer!Announced(read[key])
      BY <1>2, <2>3 DEF Adds, Along
    <3> QED BY <3>1
  <2> QED BY <2>1, <2>2, <2>3
<1> QED BY <1>1, <1>2 DEF Along

LEMMA EndAlong ==
  ASSUME StreamInv, phase = "streaming", dialect = "responses",
         Shows(turn.items, progress, acc, blocks), SaysTexts(turn.items, progress, tuple, blocks),
         NEW type \in {"completed", "incomplete"}, NEW event, event = LastEvent(type), Write(event)
  PROVE  Along(blocks, blocks')
<1>1. AreItems(turn.items)
  BY EndReads
<1>a. PICK b, read : IsEnded(b, read)
  BY EndReads
<1>2. Along(read, blocks')
  BY <1>1, <1>a, PendingAlong DEF IsEnded
<1>3. Adds(blocks, read)
  BY <1>a, HeldTextAdds DEF IsEnded
<1> QED BY <1>2, <1>3, AddsThenAlong

-----------------------------------------------------------------------------
(* The images of a Chat Completions stream.                                *)

ImageKey(n) == <<"image", n>>

\* Texts and images stay open.
OthersGrow(bl) == \A key \in DOMAIN bl : key[1] \in {"text", "image"} => IsGrowing(bl[key])

\* A client has of every image a rendering up to the bound, at a place of its own.
ImageFits(w, bl, id, size) ==
  /\ w.image[id] < w.nextImage
  /\ ImageKey(w.image[id]) \in DOMAIN bl => bl[ImageKey(w.image[id])].size <= size

HasImage(items, w, i) == items[i].kind = "image" /\ w.image[items[i].id] >= 0

ImagesFit(items, bound, w, bl) ==
  /\ w.image \in [Ids -> Int] /\ w.nextImage \in Nat
  /\ \A n \in Nat : n >= w.nextImage => ImageKey(n) \notin DOMAIN bl
  /\ \A i \in DOMAIN items :
       bound[i] \in Nat /\ (HasImage(items, w, i) => ImageFits(w, bl, items[i].id, bound[i]))
  /\ \A i, j \in DOMAIN items :
       HasImage(items, w, i) /\ HasImage(items, w, j) /\ i # j =>
         w.image[items[i].id] # w.image[items[j].id]

\* What the writer makes of images: it and its client get from w and bl to v and b.
ImagesRead(items, bound, w, bl, v, b) ==
  /\ IsChatWriter(v) /\ ImagesFit(items, bound, v, b) /\ OthersGrow(b) /\ Along(bl, b)
  /\ v.textSent = w.textSent
  /\ \A key : key[1] # "image" => AgreesAt(bl, b, key)

LEMMA ImagesReadNothing ==
  ASSUME NEW items, NEW bound, NEW w, NEW bl, IsChatWriter(w), ImagesFit(items, bound, w, bl),
         OthersGrow(bl)
  PROVE  ImagesRead(items, bound, w, bl, w, bl)
BY AlongSelf, AgreesSelf DEF ImagesRead

LEMMA AlongTwice ==
  ASSUME NEW bl, NEW b, NEW c, Along(bl, b), Along(b, c),
         \A key \in DOMAIN bl : \/ c[key] = b[key]
                                \/ bl[key].size \in Nat /\ b[key].size \in Nat /\ c[key].size \in Nat
  PROVE  Along(bl, c)
<1>1. DOMAIN bl \subseteq DOMAIN b /\ DOMAIN b \subseteq DOMAIN c
  BY DEF Along
<1>2. ASSUME NEW key \in DOMAIN bl PROVE Answer!Extends(bl[key], c[key])
  <2>1. Answer!Extends(bl[key], b[key]) /\ Answer!Extends(b[key], c[key])
    BY <1>1, <1>2 DEF Along
  <2>2. CASE c[key] = b[key]
    BY <2>1, <2>2
  <2>3. CASE bl[key].size \in Nat /\ b[key].size \in Nat /\ c[key].size \in Nat
    BY <2>1, <2>3 DEF Answer!Extends
  <2> QED BY <2>2, <2>3
<1>3. ASSUME NEW key \in DOMAIN c \ DOMAIN bl PROVE Answer!Announced(c[key])
  <2>1. CASE key \in DOMAIN b
    <3>1. Answer!Announced(b[key]) /\ Answer!Extends(b[key], c[key])
      BY <1>1, <1>3, <2>1 DEF Along
    <3> QED BY <3>1 DEF Answer!Announced, Answer!Extends
  <2>2. CASE key \notin DOMAIN b
    BY <1>3, <2>2 DEF Along
  <2> QED BY <2>1, <2>2
<1> QED BY <1>1, <1>2, <1>3 DEF Along, Answer!Extends

LEMMA ImagesReadTwice ==
  ASSUME NEW items, NEW bound, NEW w, NEW bl, NEW v, NEW b, NEW u, NEW c, OthersGrow(bl),
         ImagesRead(items, bound, w, bl, v, b), ImagesRead(items, bound, v, b, u, c)
  PROVE  ImagesRead(items, bound, w, bl, u, c)
<1>1. Along(bl, b) /\ Along(b, c) /\ OthersGrow(b) /\ OthersGrow(c)
  BY DEF ImagesRead
<1>2. ASSUME NEW key \in DOMAIN bl
      PROVE  \/ c[key] = b[key]
             \/ bl[key].size \in Nat /\ b[key].size \in Nat /\ c[key].size \in Nat
  <2>1. key \in DOMAIN b /\ key \in DOMAIN c
    BY <1>1, <1>2 DEF Along
  <2>2. CASE key[1] = "image"
    BY <1>1, <1>2, <2>1, <2>2 DEF OthersGrow, IsGrowing
  <2>3. CASE key[1] # "image"
    BY <2>1, <2>3 DEF ImagesRead, AgreesAt
  <2> QED BY <2>2, <2>3
<1>3. Along(bl, c)
  BY <1>1, <1>2, AlongTwice
<1>4. \A key : key[1] # "image" => AgreesAt(bl, c, key)
  BY AgreesTwice DEF ImagesRead
<1> QED BY <1>3, <1>4 DEF ImagesRead

\* The place of an image: its own, or the next one.
ImageAt(w, id) == IF w.image[id] >= 0 THEN w.image[id] ELSE w.nextImage

\* One rendering of an image.
ImageStep(w, id, size, position, shown) ==
  \/ shown.writer = w /\ shown.out = <<>>
  \/ /\ shown.writer.image = [w.image EXCEPT ![id] = position]
     /\ shown.writer.nextImage = IF position = w.nextImage THEN w.nextImage + 1 ELSE w.nextImage
     /\ shown.writer.textSent = w.textSent
     /\ shown.out = <<States(ImageKey(position), id, size)>>

LEMMA ImageIs ==
  ASSUME NEW w, IsChatWriter(w), NEW item, NEW shown, shown = ShowImage(w, item)
  PROVE  ImageStep(w, item.id, item.size, ImageAt(w, item.id), shown)
<1>a. PICK position : position = ImageAt(w, item.id)
  OBVIOUS
<1>b. position = IF w.image[item.id] >= 0 THEN w.image[item.id] ELSE w.nextImage
  BY <1>a DEF ImageAt
<1>1. CASE item.size = 0 \/ w.hash[item.id] = item.size
  <2>1. shown = [writer |-> w, out |-> <<>>]
    BY <1>1 DEF ShowImage
  <2> QED BY <2>1 DEF ImageStep
<1>2. CASE ~(item.size = 0 \/ w.hash[item.id] = item.size)
  <2>a. PICK hash, image, next, out :
          /\ hash = [w.hash EXCEPT ![item.id] = item.size]
          /\ image = [w.image EXCEPT ![item.id] = position]
          /\ next = (IF position = w.nextImage THEN w.nextImage + 1 ELSE w.nextImage)
          /\ out = States(ImageKey(position), item.id, item.size)
    OBVIOUS
  <2>1. shown = [writer |-> [w EXCEPT !.hash[item.id] = item.size, !.image[item.id] = position,
                                      !.nextImage = IF position = @ THEN @ + 1 ELSE @],
                 out |-> <<out>>]
    BY <1>2, <1>b, <2>a DEF ShowImage, ImageKey
  <2>2. [w EXCEPT !.hash[item.id] = item.size, !.image[item.id] = position,
                  !.nextImage = IF position = @ THEN @ + 1 ELSE @]
          = [w EXCEPT !.hash = hash, !.image = image, !.nextImage = next]
    BY <2>a
  <2>b. PICK v : v = [w EXCEPT !.hash = hash, !.image = image, !.nextImage = next]
    OBVIOUS
  <2>3. shown.writer = v /\ shown.out = <<out>>
    BY <2>1, <2>2, <2>b
  <2>4. DOMAIN w = ChatFields
    BY DEF IsChatWriter
  <2>5. v.image = image /\ v.nextImage = next /\ v.textSent = w.textSent
    BY <2>4, <2>b DEF ChatFields
  <2> QED BY <1>a, <2>3, <2>5, <2>a DEF ImageStep
<1> QED BY <1>1, <1>2

LEMMA ImageKeysDiffer ==
  ASSUME NEW m, NEW n, ImageKey(m) = ImageKey(n)
  PROVE  m = n
<1>1. ImageKey(m)[2] = m /\ ImageKey(n)[2] = n
  BY DEF ImageKey
<1> QED BY <1>1

LEMMA ImageRead ==
  ASSUME NEW items, AreItems(items), NEW bound, NEW w, NEW bl, IsChatWriter(w),
         ImagesFit(items, bound, w, bl), OthersGrow(bl), NEW i \in DOMAIN items,
         items[i].kind = "image", NEW item, item.id = items[i].id, item.size = bound[i],
         NEW shown, shown = ShowImage(w, item)
  PROVE  ImagesRead(items, bound, w, bl, shown.writer, Read(bl, shown.out))
<1>a. PICK id, position, key, v, read :
        /\ id = items[i].id /\ key = ImageKey(position)
        /\ position = ImageAt(w, id)
        /\ v = shown.writer /\ read = Read(bl, shown.out)
  OBVIOUS
<1>b. PICK out : out = States(key, id, item.size)
  OBVIOUS
<1>c. position = IF w.image[id] >= 0 THEN w.image[id] ELSE w.nextImage
  BY <1>a DEF ImageAt
<1>d. ImageStep(w, id, item.size, position, shown)
  BY <1>a, ImageIs
<1>1. /\ w.image \in [Ids -> Int] /\ w.nextImage \in Nat /\ id \in Ids
  BY <1>a, ItemIds DEF ImagesFit
<1>2. IsChatWriter(v)
  BY <1>a, ImageShows DEF SameChunks
<1>3. \/ v = w /\ shown.out = <<>>
      \/ /\ v.image = [w.image EXCEPT ![id] = position]
         /\ v.nextImage = IF position = w.nextImage THEN w.nextImage + 1 ELSE w.nextImage
         /\ v.textSent = w.textSent /\ shown.out = <<out>>
  BY <1>a, <1>b, <1>d DEF ImageStep
<1>4. CASE v = w /\ shown.out = <<>>
  <2>1. read = bl
    BY <1>4, <1>a, ReadNothing
  <2> QED BY <1>4, <1>a, <2>1, ImagesReadNothing
<1>5. CASE /\ v.image = [w.image EXCEPT ![id] = position]
           /\ v.nextImage = IF position = w.nextImage THEN w.nextImage + 1 ELSE w.nextImage
           /\ v.textSent = w.textSent /\ shown.out = <<out>>
  <2>1. read = ReadOne(bl, out)
    BY <1>5, <1>a, ReadOneOnly
  <2>2. position \in Nat
    BY <1>1, <1>c
  <2>3. /\ v.image \in [Ids -> Int] /\ v.nextImage \in Nat /\ w.nextImage <= v.nextImage
        /\ v.image[id] = position /\ position < v.nextImage
        /\ \A other \in Ids : other # id => v.image[other] = w.image[other]
    <3>1. CASE w.image[id] >= 0
      <4>1. HasImage(items, w, i)
        BY <1>a, <3>1 DEF HasImage
      <4>2. w.image[id] < w.nextImage
        BY <1>a, <4>1 DEF ImagesFit, ImageFits
      <4> QED BY <1>1, <1>5, <1>a, <1>c, <2>2, <3>1, <4>2
    <3>2. CASE ~(w.image[id] >= 0)
      BY <1>1, <1>5, <1>a, <1>c, <2>2, <3>2
    <3> QED BY <3>1, <3>2
  <2>4. IsPart(out) /\ out.key = key /\ out.do = "state" /\ out.size = bound[i]
    BY <1>a, <1>b DEF IsPart, States, ImageKey
  <2>5. bound[i] \in Nat
    BY DEF ImagesFit
  <2>6. key \in DOMAIN bl => IsGrowing(bl[key]) /\ bl[key].size <= bound[i]
    <3> SUFFICES ASSUME key \in DOMAIN bl PROVE IsGrowing(bl[key]) /\ bl[key].size <= bound[i]
      OBVIOUS
    <3>1. IsGrowing(bl[key])
      BY <1>a DEF OthersGrow, ImageKey
    <3>2. w.image[id] >= 0
      BY <1>1, <1>a, <1>c, <2>2 DEF ImagesFit
    <3>3. HasImage(items, w, i)
      BY <1>a, <3>2 DEF HasImage
    <3>4. bl[key].size <= bound[i]
      BY <1>a, <1>c, <3>2, <3>3 DEF ImagesFit, ImageFits
    <3> QED BY <3>1, <3>4
  <2>7. Fitting(bl, out)
    BY <2>4, <2>5, <2>6 DEF Fitting
  <2>8. Along(bl, read) /\ IsGrowing(read[key])
    BY <2>1, <2>4, <2>7, PartReads
  <2>9. PartRead(bl, out, read)
    BY <2>1, <2>4, PartIs
  <2>10. /\ DOMAIN read = DOMAIN bl \cup {key}
         /\ \A k \in DOMAIN bl : k # key => read[k] = bl[k]
         /\ read[key].size = bound[i]
    BY <2>4, <2>6, <2>9 DEF PartRead, IsGrowing
  <2>11. OthersGrow(read)
    BY <2>8, <2>10 DEF OthersGrow
  <2>12. \A k : k[1] # "image" => AgreesAt(bl, read, k)
    BY <1>a, <2>10 DEF AgreesAt, ImageKey
  <2>13. ImagesFit(items, bound, v, read)
    <3>1. ASSUME NEW n \in Nat, n >= v.nextImage PROVE ImageKey(n) \notin DOMAIN read
      <4>1. n >= w.nextImage /\ n # position
        BY <1>1, <2>2, <2>3, <3>1
      <4>2. ImageKey(n) \notin DOMAIN bl /\ ImageKey(n) # key
        BY <1>a, <3>1, <4>1, ImageKeysDiffer DEF ImagesFit
      <4> QED BY <2>10, <4>2
    <3>2. ASSUME NEW j \in DOMAIN items, j # i, HasImage(items, v, j)
          PROVE  /\ HasImage(items, w, j) /\ v.image[items[j].id] = w.image[items[j].id]
                 /\ v.image[items[j].id] # position
      <4>1. items[j].id # id /\ items[j].id \in Ids
        BY <1>a, <3>2, ItemIds
      <4>2. v.image[items[j].id] = w.image[items[j].id]
        BY <2>3, <4>1
      <4>3. HasImage(items, w, j)
        BY <3>2, <4>2 DEF HasImage
      <4>4. w.image[items[j].id] < w.nextImage
        BY <4>3 DEF ImagesFit, ImageFits
      <4>5. w.image[items[j].id] # position
        <5>1. CASE w.image[id] >= 0
          <6>1. HasImage(items, w, i)
            BY <1>a, <5>1 DEF HasImage
          <6> QED BY <1>a, <1>c, <3>2, <4>3, <5>1, <6>1 DEF ImagesFit
        <5>2. CASE ~(w.image[id] >= 0)
          BY <1>1, <1>a, <1>c, <4>1, <4>4, <5>2
        <5> QED BY <5>1, <5>2
      <4> QED BY <4>2, <4>3, <4>5
    <3>3. ASSUME NEW j \in DOMAIN items, HasImage(items, v, j)
          PROVE  ImageFits(v, read, items[j].id, bound[j])
      <4>1. CASE j = i
        BY <1>a, <2>3, <2>5, <2>10, <4>1 DEF ImageFits
      <4>2. CASE j # i
        <5>a. PICK n : n = w.image[items[j].id]
          OBVIOUS
        <5>1. /\ HasImage(items, w, j) /\ v.image[items[j].id] = n /\ n # position
          BY <3>2, <3>3, <4>2, <5>a
        <5>2. n < w.nextImage /\ (ImageKey(n) \in DOMAIN bl => bl[ImageKey(n)].size <= bound[j])
          BY <5>1, <5>a DEF ImagesFit, ImageFits
        <5>3. n \in Int
          BY <1>1, <5>a, ItemIds
        <5>4. n < v.nextImage
          BY <1>1, <2>3, <5>2, <5>3
        <5>5. ImageKey(n) # key
          BY <1>a, <5>1, ImageKeysDiffer
        <5> QED BY <2>10, <5>1, <5>2, <5>4, <5>5 DEF ImageFits
      <4> QED BY <4>1, <4>2
    <3>4. ASSUME NEW j \in DOMAIN items, NEW k \in DOMAIN items, j # k,
                 HasImage(items, v, j), HasImage(items, v, k)
          PROVE  v.image[items[j].id] # v.image[items[k].id]
      <4>1. CASE j = i
        BY <1>a, <2>3, <3>2, <3>4, <4>1
      <4>2. CASE k = i
        BY <1>a, <2>3, <3>2, <3>4, <4>2
      <4>3. CASE j # i /\ k # i
        <5>1. /\ HasImage(items, w, j) /\ v.image[items[j].id] = w.image[items[j].id]
              /\ HasImage(items, w, k) /\ v.image[items[k].id] = w.image[items[k].id]
          BY <3>2, <3>4, <4>3
        <5> QED BY <3>4, <5>1 DEF ImagesFit
      <4> QED BY <4>1, <4>2, <4>3
    <3>5. \A j \in DOMAIN items : bound[j] \in Nat
      BY DEF ImagesFit
    <3> QED BY <2>3, <3>1, <3>3, <3>4, <3>5 DEF ImagesFit
  <2> QED BY <1>2, <1>5, <1>a, <2>8, <2>11, <2>12, <2>13 DEF ImagesRead
<1> QED BY <1>3, <1>4, <1>5

\* Images of the turn, each as far as the bound has it.
AreImages(items, bound, list) ==
  \A n \in DOMAIN list :
    \E i \in DOMAIN items :
      items[i].kind = "image" /\ list[n].id = items[i].id /\ list[n].size = bound[i]

LEMMA ImagesReadAll ==
  ASSUME NEW items, AreItems(items), NEW bound, NEW w, NEW bl, IsChatWriter(w),
         ImagesFit(items, bound, w, bl), OthersGrow(bl), NEW S, NEW list \in Seq(S),
         AreImages(items, bound, list), NEW shown, shown = ShowImages(w, list)
  PROVE  ImagesRead(items, bound, w, bl, shown.writer, Read(bl, shown.out)) /\ AreOthers(shown.out)
<1>1. PICK x : IsShowing(x, [writer |-> w, out |-> <<>>], list) /\ shown = x[Len(list)]
  BY ShowingIs
<1>2. Len(list) \in Nat /\ DOMAIN list = 1 .. Len(list)
  OBVIOUS
<1> DEFINE P(n) == /\ ImagesRead(items, bound, w, bl, x[n].writer, Read(bl, x[n].out))
                   /\ AreOthers(x[n].out)
           T == {n \in Nat : n <= Len(list) => P(n)}
<1>3. 0 \in T
  <2>1. x[0].writer = w /\ x[0].out = <<>>
    BY <1>1 DEF IsShowing
  <2> QED BY <2>1, NoOthers, ReadNothing, ImagesReadNothing
<1>4. ASSUME NEW n \in Nat, n \in T PROVE n + 1 \in T
  <2> SUFFICES ASSUME n + 1 <= Len(list) PROVE P(n + 1)
    OBVIOUS
  <2>1. n <= Len(list) /\ n + 1 \in 1 .. Len(list) /\ n + 1 - 1 = n
    BY <1>2
  <2>a. PICK image, v, b, outs :
          /\ image = ShowImage(x[n].writer, list[n + 1]) /\ v = x[n].writer /\ outs = x[n].out
          /\ b = Read(bl, outs)
    OBVIOUS
  <2>2. ImagesRead(items, bound, w, bl, v, b) /\ AreOthers(outs)
    BY <1>4, <2>1, <2>a
  <2>3. x[n + 1].writer = image.writer /\ x[n + 1].out = outs \o image.out
    <3>1. x[n + 1] = ShowNext(x[n], list[n + 1])
      BY <1>1, <2>1 DEF IsShowing
    <3>2. \A step, item : /\ ShowNext(step, item).writer = ShowImage(step.writer, item).writer
                          /\ ShowNext(step, item).out = step.out \o ShowImage(step.writer, item).out
      BY DEF ShowNext
    <3> QED BY <2>a, <3>1, <3>2
  <2>4. PICK i \in DOMAIN items : /\ items[i].kind = "image" /\ list[n + 1].id = items[i].id
                                  /\ list[n + 1].size = bound[i]
    BY <1>2, <2>1 DEF AreImages
  <2>5. IsChatWriter(v) /\ ImagesFit(items, bound, v, b) /\ OthersGrow(b)
    BY <2>2 DEF ImagesRead
  <2>6. ImagesRead(items, bound, v, b, image.writer, Read(b, image.out))
    BY <2>4, <2>5, <2>a, ImageRead
  <2>7. ImagesRead(items, bound, w, bl, image.writer, Read(b, image.out))
    BY <2>2, <2>6, ImagesReadTwice
  <2>8. AreOthers(image.out)
    BY <2>5, <2>a, ImageShows
  <2>9. Read(bl, outs \o image.out) = Read(b, image.out)
    BY <2>2, <2>8, <2>a, ReadBoth DEF AreOthers
  <2>10. AreOthers(outs \o image.out)
    BY <2>2, <2>8, BothOthers
  <2> QED BY <2>3, <2>7, <2>9, <2>10
<1>5. Len(list) \in T
  <2> HIDE DEF T
  <2>1. Nat \subseteq T
    BY <1>3, <1>4, Induction
  <2> QED BY <1>2, <2>1
<1> QED BY <1>1, <1>2, <1>5

-----------------------------------------------------------------------------
(* The text of a Chat Completions stream, and of a legacy one.             *)

\* No text was sent to the client while it is held back, or before the first of it.
TextFits(held, w, bl) ==
  /\ DOMAIN w = ChatFields /\ w.textSent \in BOOLEAN
  /\ held \/ ~w.textSent => ChatTextBlock \notin DOMAIN bl

TextPiece == Appends(ChatTextBlock, None, 1)

LEMMA TextPieceIs == IsPart(TextPiece) /\ TextPiece.key = ChatTextBlock /\ TextPiece.size = 1
                     /\ TextPiece.do = "append" /\ ChatTextBlock[1] = "text"
BY DEF TextPiece, Appends, ChatTextBlock, IsPart

\* A piece of the text.
LEMMA TextReads ==
  ASSUME NEW bl, OthersGrow(bl), NEW read, read = Read(bl, <<TextPiece>>)
  PROVE  /\ Along(bl, read) /\ OthersGrow(read)
         /\ \A key : key # ChatTextBlock => AgreesAt(bl, read, key)
<1>1. read = ReadOne(bl, TextPiece)
  BY ReadOneOnly
<1>2. Fitting(bl, TextPiece)
  BY TextPieceIs DEF Fitting, OthersGrow
<1>3. Along(bl, read) /\ IsGrowing(read[ChatTextBlock])
  BY <1>1, <1>2, TextPieceIs, PartReads
<1>4. PartRead(bl, TextPiece, read)
  BY <1>1, TextPieceIs, PartIs
<1>5. /\ DOMAIN read = DOMAIN bl \cup {ChatTextBlock}
      /\ \A key \in DOMAIN bl : key # ChatTextBlock => read[key] = bl[key]
  BY <1>4, TextPieceIs DEF PartRead
<1> QED BY <1>3, <1>5 DEF OthersGrow, AgreesAt

\* The whole of the text, in the end, when no text was sent before.
LEMMA FinalTextAdds ==
  ASSUME NEW bl, ChatTextBlock \notin DOMAIN bl, NEW pieces, NEW read,
         read = Read(bl, ChatText(pieces))
  PROVE  Adds(bl, read)
<1>1. CASE pieces = 0
  <2>1. ChatText(pieces) = <<>>
    BY <1>1 DEF ChatText
  <2> QED BY <2>1, ReadNothing, AlongSelf
<1>2. CASE pieces # 0
  <2>a. PICK out : out = Appends(ChatTextBlock, None, pieces)
    OBVIOUS
  <2>1. ChatText(pieces) = <<out>>
    BY <1>2, <2>a DEF ChatText
  <2>2. IsPart(out) /\ out.key = ChatTextBlock
    BY <2>a DEF IsPart, Appends, ChatTextBlock
  <2>3. read = ReadOne(bl, out)
    BY <2>1, ReadOneOnly
  <2> QED BY <2>2, <2>3, PartAdds
<1> QED BY <1>1, <1>2

\* What the chat writer makes of a text, while the stream goes on and in the end.
SamePlaces(w, v) == v.image = w.image /\ v.nextImage = w.nextImage

TextGoesOn(w, held, text) ==
  /\ SamePlaces(w, text.writer) /\ DOMAIN text.writer = ChatFields
  /\ \/ text.out = <<>> /\ text.writer.textSent = w.textSent
     \/ ~held /\ text.out = <<TextPiece>> /\ text.writer.textSent = TRUE

TextEnds(w, held, text) ==
  \/ ~held /\ text.out = <<>> /\ text.writer.textSent = w.textSent
  \/ held /\ \E size : text.out = ChatText(size) /\ (size # 0 => text.writer.textSent = TRUE)

LEMMA ChatTextMid ==
  ASSUME NEW w, DOMAIN w = ChatFields, NEW a, NEW held, NEW event, ~IsTerminal(event),
         event.type = "delta" => event.piece = 1, NEW text, text = ChatTextStep(w, a, held, event)
  PROVE  TextGoesOn(w, held, text)
<1>1. CASE event.type = "delta" /\ event.item.kind = "message" /\ held
  <2>a. PICK x : x = w.buffer + event.piece
    OBVIOUS
  <2>1. text.writer = [w EXCEPT !.buffer = x] /\ text.out = <<>>
    BY <1>1, <2>a DEF ChatTextStep
  <2> QED BY <1>1, <2>1 DEF TextGoesOn, SamePlaces, ChatFields
<1>2. CASE event.type = "delta" /\ event.item.kind = "message" /\ ~held
  <2>1. text.writer = [w EXCEPT !.textSent = TRUE] /\ text.out = ChatText(event.piece)
    BY <1>2 DEF ChatTextStep
  <2>2. text.out = <<TextPiece>>
    BY <1>2, <2>1 DEF ChatText, TextPiece
  <2> QED BY <1>2, <2>1, <2>2 DEF TextGoesOn, SamePlaces, ChatFields
<1>3. CASE event.type = "done" /\ event.item.kind = "message" /\ held
  <2>a. PICK x : x = IF event.item.size > 0 THEN event.item.size ELSE w.buffer
    OBVIOUS
  <2>1. text = [writer |-> [w EXCEPT !.buffer = IF event.item.size > 0 THEN event.item.size ELSE w.buffer],
                out |-> <<>>]
    BY <1>3 DEF ChatTextStep, IsTerminal
  <2>2. text.writer = [w EXCEPT !.buffer = x] /\ text.out = <<>>
    BY <2>1, <2>a
  <2> QED BY <1>3, <2>2 DEF TextGoesOn, SamePlaces, ChatFields
<1>4. CASE /\ ~(event.type = "delta" /\ event.item.kind = "message")
           /\ ~(event.type = "done" /\ event.item.kind = "message" /\ held)
  <2>1. text = [writer |-> w, out |-> <<>>]
    BY <1>4 DEF ChatTextStep, IsTerminal
  <2>2. text.writer = w /\ text.out = <<>>
    BY <2>1
  <2> QED BY <2>2 DEF TextGoesOn, SamePlaces
<1> QED BY <1>1, <1>2, <1>3, <1>4

LEMMA ChatTextAtEnd ==
  ASSUME NEW w, DOMAIN w = ChatFields, NEW a, NEW held, NEW event, IsTerminal(event),
         NEW text, text = ChatTextStep(w, a, held, event)
  PROVE  TextEnds(w, held, text)
<1>1. event.type \in {"completed", "incomplete"}
  BY DEF IsTerminal
<1>2. CASE held
  <2>a. PICK size : size = IF w.buffer = 0 THEN Text(a) ELSE w.buffer
    OBVIOUS
  <2>1. /\ text.writer = [w EXCEPT !.buffer = size, !.textSent = w.textSent \/ size # 0]
        /\ text.out = ChatText(size)
    BY <1>1, <1>2, <2>a DEF ChatTextStep, IsTerminal
  <2>2. text.writer.textSent = (w.textSent \/ size # 0)
    BY <2>1 DEF ChatFields
  <2> QED BY <1>2, <2>1, <2>2 DEF TextEnds
<1>3. CASE ~held
  <2>1. text = [writer |-> w, out |-> <<>>]
    BY <1>1, <1>3 DEF ChatTextStep, IsTerminal
  <2> QED BY <1>3, <2>1 DEF TextEnds
<1> QED BY <1>2, <1>3

\* Images that nothing was said of.
LEMMA ImagesStay ==
  ASSUME NEW items, NEW bound, NEW w, NEW bl, ImagesFit(items, bound, w, bl), NEW v, SamePlaces(w, v),
         NEW read, \A n : AgreesAt(bl, read, ImageKey(n))
  PROVE  ImagesFit(items, bound, v, read)
<1>1. \A n : /\ ImageKey(n) \in DOMAIN read <=> ImageKey(n) \in DOMAIN bl
             /\ ImageKey(n) \in DOMAIN bl => read[ImageKey(n)] = bl[ImageKey(n)]
  BY DEF AgreesAt
<1>2. \A i : HasImage(items, v, i) <=> HasImage(items, w, i)
  BY DEF HasImage, SamePlaces
<1>3. ASSUME NEW i \in DOMAIN items, HasImage(items, v, i)
      PROVE  ImageFits(v, read, items[i].id, bound[i])
  <2>1. ImageFits(w, bl, items[i].id, bound[i])
    BY <1>2, <1>3 DEF ImagesFit
  <2> QED BY <1>1, <2>1 DEF ImageFits, SamePlaces
<1> QED BY <1>1, <1>2, <1>3 DEF ImagesFit, SamePlaces

\* More of an image may have been rendered.
LEMMA ImagesFitMore ==
  ASSUME NEW items, NEW bound, NEW w, NEW bl, ImagesFit(items, bound, w, bl), OthersGrow(bl), NEW more,
         \A i \in DOMAIN items : more[i] \in Nat /\ bound[i] <= more[i]
  PROVE  ImagesFit(items, more, w, bl)
<1>1. ASSUME NEW i \in DOMAIN items, HasImage(items, w, i)
      PROVE  ImageFits(w, bl, items[i].id, more[i])
  <2>a. PICK key : key = ImageKey(w.image[items[i].id])
    OBVIOUS
  <2>1. ImageFits(w, bl, items[i].id, bound[i]) /\ bound[i] \in Nat
    BY <1>1 DEF ImagesFit
  <2>2. key \in DOMAIN bl => bl[key].size \in Nat
    BY <2>a DEF OthersGrow, ImageKey, IsGrowing
  <2>3. key \in DOMAIN bl => bl[key].size <= bound[i]
    BY <2>1, <2>a DEF ImageFits
  <2>4. more[i] \in Nat /\ bound[i] <= more[i]
    OBVIOUS
  <2>5. key \in DOMAIN bl => bl[key].size <= more[i]
    BY <2>1, <2>2, <2>3, <2>4
  <2> QED BY <2>1, <2>5, <2>a DEF ImageFits
<1> QED BY <1>1 DEF ImagesFit
-----------------------------------------------------------------------------
(* A Chat Completions stream, step by step.                                *)

\* How much of every image may have been rendered.
ImageBound(items, prog) ==
  [i \in DOMAIN items |-> IF prog[i].done THEN items[i].size ELSE prog[i].pieces]

WholeImages(items) == [i \in DOMAIN items |-> items[i].size]

\* Beside the calls: the images, all that may grow, and the text.
ChatOthers(items, bound, held, w, bl) ==
  ImagesFit(items, bound, w, bl) /\ OthersGrow(bl) /\ TextFits(held, w, bl)

LEMMA BoundGrows ==
  ASSUME NEW items, NEW prog, NEW next, IsTold(items, prog), NEW i \in DOMAIN items, NEW type,
         IsNext(items[i], prog[i], type), IsProgressed(prog, next, i, type)
  PROVE  \A j \in DOMAIN items : /\ ImageBound(items, next)[j] \in Nat
                                 /\ ImageBound(items, prog)[j] <= ImageBound(items, next)[j]
<1> SUFFICES ASSUME NEW j \in DOMAIN items
             PROVE  /\ ImageBound(items, next)[j] \in Nat
                    /\ ImageBound(items, prog)[j] <= ImageBound(items, next)[j]
  OBVIOUS
<1>1. InOrder(items[j], prog[j])
  BY DEF IsTold
<1>2. /\ items[j].size \in Nat /\ items[j].deltas \in Nat /\ prog[j].pieces \in Nat
      /\ prog[j].done \in BOOLEAN
  BY <1>1, ShapeFields
<1>3. prog[j].pieces <= items[j].size
  BY <1>1, <1>2 DEF InOrder
<1>4. CASE j # i
  <2>1. next[j] = prog[j]
    BY <1>4 DEF IsProgressed, IsTold
  <2> QED BY <1>2, <2>1 DEF ImageBound
<1>5. CASE j = i
  <2>1. IsAdvanced(next[j], prog[j], type)
    BY <1>5 DEF IsProgressed
  <2>2. IsNext(items[j], prog[j], type)
    BY <1>5
  <2>3. InOrder(items[j], next[j])
    BY <1>1, <2>1, <2>2, StaysInOrder
  <2>4. next[j].pieces \in Nat /\ next[j].pieces <= items[j].size
    BY <1>2, <2>3, ShapeFields DEF InOrder
  <2>5. prog[j].pieces <= next[j].pieces /\ (prog[j].done => next[j].done)
    BY <1>2, <2>1 DEF IsAdvanced
  <2> QED BY <1>2, <1>3, <2>4, <2>5 DEF ImageBound
<1> QED BY <1>4, <1>5

LEMMA WholeBound ==
  ASSUME NEW items, NEW prog, IsTold(items, prog)
  PROVE  \A j \in DOMAIN items : /\ WholeImages(items)[j] \in Nat
                                 /\ ImageBound(items, prog)[j] <= WholeImages(items)[j]
<1> SUFFICES ASSUME NEW j \in DOMAIN items
             PROVE  /\ WholeImages(items)[j] \in Nat
                    /\ ImageBound(items, prog)[j] <= WholeImages(items)[j]
  OBVIOUS
<1>1. InOrder(items[j], prog[j])
  BY DEF IsTold
<1>2. /\ items[j].size \in Nat /\ items[j].deltas \in Nat /\ prog[j].pieces \in Nat
  BY <1>1, ShapeFields
<1>3. prog[j].pieces <= items[j].size
  BY <1>1, <1>2 DEF InOrder
<1> QED BY <1>2, <1>3 DEF ImageBound, WholeImages

\* A chunk of a call changes nothing of them.
LEMMA ChunkKeeps ==
  ASSUME NEW w, DOMAIN w = ChatFields, NEW call, NEW v, v = WriteToolChunk(w, call).writer
  PROVE  SamePlaces(w, v) /\ v.textSent = w.textSent /\ DOMAIN v = ChatFields
<1>a. PICK id, named, fresh, x : /\ id = call.call /\ named = (id \in w.named \/ call.named)
                                 /\ fresh = call.size - w.sent[id] /\ x = Numbered(w, id)
  OBVIOUS
<1>1. /\ DOMAIN x = ChatFields /\ x.image = w.image /\ x.nextImage = w.nextImage
      /\ x.textSent = w.textSent
  <2>1. CASE w.index[id] >= 0
    BY <1>a, <2>1 DEF Numbered
  <2>2. CASE ~(w.index[id] >= 0)
    <3>a. PICK index, next : index = [w.index EXCEPT ![id] = w.next] /\ next = w.next + 1
      OBVIOUS
    <3>1. x = [w EXCEPT !.index = index, !.next = next]
      BY <1>a, <2>2, <3>a DEF Numbered
    <3> QED BY <3>1 DEF ChatFields
  <2> QED BY <2>1, <2>2
<1>b. PICK names, sent : /\ names = (IF named THEN x.named \cup {id} ELSE x.named)
                         /\ sent = [x.sent EXCEPT ![id] = IF named /\ fresh > 0 THEN call.size
                                                          ELSE x.sent[id]]
  OBVIOUS
<1>2. v = [x EXCEPT !.named = names, !.sent = sent]
  BY <1>a, <1>b DEF WriteToolChunk
<1> QED BY <1>1, <1>2 DEF SamePlaces, ChatFields

LEMMA ChatOthersOfCall ==
  ASSUME NEW i, NEW type, NEW event, NEW next, IsTelled(i, type, event, next),
         turn.items[i].kind = "call", CallGrows(blocks, blocks'), dialect = "chat", Write(event),
         ChatOthers(turn.items, ImageBound(turn.items, progress), tuple, writer, blocks)
  PROVE  ChatOthers(turn.items, ImageBound(turn.items, next), tuple, writer', blocks')
<1>a. PICK items, b, more : /\ items = turn.items /\ b = Apply(acc, event)
                            /\ more = ImageBound(items, next)
  OBVIOUS
<1>b. PICK v, r : r = b.calls[CallOf(b, event.item)] /\ v = WriteToolChunk(writer, r).writer
  OBVIOUS
<1>1. CallOf(b, event.item) # 0
  BY <1>a, HeardCall
<1>2. writer' = v
  <2>a. PICK step : step = ChatStep(writer, b, tuple, event)
    OBVIOUS
  <2>1. step = WriteToolChunk(writer, r)
    BY <1>1, <1>b, <2>a DEF ChatStep
  <2>2. writer' = step.writer
    BY <1>a, <2>a DEF Write
  <2> QED BY <1>b, <2>1, <2>2
<1>3. /\ ImagesFit(items, ImageBound(items, progress), writer, blocks) /\ OthersGrow(blocks)
      /\ TextFits(tuple, writer, blocks)
  BY <1>a DEF ChatOthers
<1>4. SamePlaces(writer, v) /\ v.textSent = writer.textSent /\ DOMAIN v = ChatFields
  BY <1>3, <1>b, ChunkKeeps DEF TextFits
<1>5. \A key : key[1] \in {"text", "image"} => AgreesAt(blocks, blocks', key)
  <2>1. /\ Along(blocks, blocks')
        /\ \A key \in DOMAIN blocks' : key[1] \notin {"item", "call"} =>
             key \in DOMAIN blocks /\ blocks'[key] = blocks[key]
    BY GrowsAlong
  <2> QED BY <2>1 DEF Along, AgreesAt
<1>6. ImagesFit(items, more, writer, blocks)
  <2>1. /\ IsTold(items, progress) /\ i \in DOMAIN items /\ IsNext(items[i], progress[i], type)
        /\ IsProgressed(progress, next, i, type)
    BY <1>a, NextIs DEF IsTelled
  <2>2. \A j \in DOMAIN items : more[j] \in Nat /\ ImageBound(items, progress)[j] <= more[j]
    BY <1>a, <2>1, BoundGrows
  <2> QED BY <1>3, <2>2, ImagesFitMore
<1>7. ImagesFit(items, more, v, blocks')
  <2>1. \A n : AgreesAt(blocks, blocks', ImageKey(n))
    BY <1>5 DEF ImageKey
  <2> QED BY <1>4, <1>6, <2>1, ImagesStay
<1>8. OthersGrow(blocks')
  BY <1>3, <1>5 DEF OthersGrow, AgreesAt
<1>9. TextFits(tuple, v, blocks')
  <2>1. AgreesAt(blocks, blocks', ChatTextBlock)
    BY <1>5 DEF ChatTextBlock
  <2> QED BY <1>3, <1>4, <2>1 DEF TextFits, AgreesAt
<1> QED BY <1>2, <1>7, <1>8, <1>9, <1>a DEF ChatOthers

\* The images an event shows are as far as the upstream rendered them.
LEMMA EventImagesAre ==
  ASSUME NEW i, NEW type, NEW event, NEW next, IsTelled(i, type, event, next),
         NEW list, list = EventImages(event)
  PROVE  (\E S : list \in Seq(S)) /\ AreImages(turn.items, ImageBound(turn.items, next), list)
<1>a. PICK items, item : items = turn.items /\ item = event.item
  OBVIOUS
<1>1. /\ i \in DOMAIN items /\ InOrder(items[i], progress[i])
      /\ IsNext(items[i], progress[i], type) /\ IsAdvanced(next[i], progress[i], type)
      /\ event = ItemEvent(i, type)
      /\ type \in {"item.added", "delta", "partial", "done", "item.done"}
  BY <1>a, NextIs, TypesOf DEF IsTelled, IsTold, IsProgressed
<1>2. /\ event.type = type /\ item.kind = items[i].kind /\ item.id = items[i].id
      /\ item.size = SizeShown(items[i], progress[i], type)
  BY <1>1, <1>a, ItemEventIs, EventSize DEF IsItemEvent
<1>3. CASE type \in {"partial", "item.done"} /\ items[i].kind = "image"
  <2>1. list = <<item>>
    BY <1>2, <1>3, <1>a DEF EventImages
  <2>2. item.size = ImageBound(items, next)[i]
    <3>1. CASE type = "item.done"
      <4>1. next[i].done
        BY <1>1, <3>1 DEF IsAdvanced
      <4>2. item.size = items[i].size
        BY <1>2, <3>1 DEF SizeShown
      <4> QED BY <1>1, <4>1, <4>2 DEF ImageBound
    <3>2. CASE type = "partial"
      <4>1. progress[i].pieces < items[i].deltas
        BY <1>1, <3>2 DEF IsNext
      <4>2. progress[i].pieces \in Nat /\ items[i].deltas \in Nat
        BY <1>1, ShapeFields
      <4>3. progress[i].pieces # items[i].deltas
        BY <4>1, <4>2
      <4>4. ~progress[i].done
        BY <1>1, <4>3 DEF InOrder
      <4>5. ~next[i].done /\ next[i].pieces = progress[i].pieces + 1
        BY <1>1, <3>2, <4>4 DEF IsAdvanced
      <4>6. item.size = progress[i].pieces + 1
        BY <1>2, <3>2 DEF SizeShown
      <4> QED BY <1>1, <4>5, <4>6 DEF ImageBound
    <3> QED BY <1>3, <3>1, <3>2
  <2>3. <<item>> \in Seq({item}) /\ DOMAIN <<item>> = {1} /\ <<item>>[1] = item
    OBVIOUS
  <2>4. AreImages(items, ImageBound(items, next), <<item>>)
    BY <1>1, <1>2, <1>3, <2>2, <2>3 DEF AreImages
  <2> QED BY <1>a, <2>1, <2>3, <2>4
<1>4. CASE ~(type \in {"partial", "item.done"} /\ items[i].kind = "image")
  <2>1. list = <<>>
    BY <1>1, <1>2, <1>4, <1>a DEF EventImages
  <2>2. <<>> \in Seq({}) /\ DOMAIN <<>> = {}
    OBVIOUS
  <2> QED BY <2>1, <2>2 DEF AreImages
<1> QED BY <1>3, <1>4

\* The images that the last event lists are whole.
LEMMA LastImagesAre ==
  ASSUME IsTold(turn.items, progress), NEW type \in {"completed", "incomplete"},
         NEW event \in NextEvents, event = LastEvent(type), NEW list, list = EventImages(event)
  PROVE  (\E S : list \in Seq(S)) /\ AreImages(turn.items, WholeImages(turn.items), list)
<1>a. PICK S : S = {item \in LastItems : item.kind = "image"}
  OBVIOUS
<1>1. event.type = type /\ event.output = Listed(type) /\ event.item.kind = "none"
  <2>1. event.type = type /\ event.output = Listed(type) /\ event.item = NoItem
    BY LastEventIs
  <2>2. NoItem.kind = "none"
    BY DEF NoItem
  <2> QED BY <2>1, <2>2
<1>2. CASE type = "completed"
  <2>a. PICK out : out = event.output
    OBVIOUS
  <2> DEFINE seqs == [n \in DOMAIN out |-> IF out[n].kind = "image" THEN <<out[n]>> ELSE <<>>]
  <2>1. list = FlattenSeq(seqs)
    BY <1>1, <1>2, <2>a DEF EventImages
  <2>2. out \in Seq(LastItems) /\ DOMAIN out = 1 .. Len(out) /\ Len(out) \in Nat
    <3>1. out \in Seq(LastItems)
      BY <1>1, <2>a, ListedIs DEF IsTold, AreItems
    <3>b. PICK U : U = LastItems
      OBVIOUS
    <3>2. out \in Seq(U) => DOMAIN out = 1 .. Len(out) /\ Len(out) \in Nat
      OBVIOUS
    <3> QED BY <3>1, <3>2, <3>b
  <2>3. ASSUME NEW n \in DOMAIN out PROVE seqs[n] \in Seq(S)
    <3>b. PICK U : U = LastItems
      OBVIOUS
    <3>1. out[n] \in U
      BY <2>2, <3>b
    <3>2. out[n].kind = "image" => out[n] \in S
      BY <1>a, <3>1, <3>b
    <3>3. out[n] \in S => <<out[n]>> \in Seq(S)
      OBVIOUS
    <3>4. <<>> \in Seq(S)
      OBVIOUS
    <3> QED BY <3>2, <3>3, <3>4
  <2>4. seqs \in Seq(Seq(S))
    <3>1. seqs = [n \in 1 .. Len(out) |-> seqs[n]]
      BY <2>2
    <3> HIDE DEF seqs
    <3> QED BY <2>2, <2>3, <3>1
  <2> HIDE DEF seqs
  <2>5. list \in Seq(S)
    BY <2>1, <2>4, FlattenType
  <2>6. ASSUME NEW n \in DOMAIN list
        PROVE  \E i \in DOMAIN turn.items :
                 /\ turn.items[i].kind = "image" /\ list[n].id = turn.items[i].id
                 /\ list[n].size = WholeImages(turn.items)[i]
    <3>1. list[n] \in S
      BY <2>5, <2>6
    <3>2. PICK i \in DOMAIN turn.items : list[n] = FinalItem(i)
      BY <1>a, <3>1 DEF LastItems
    <3>3. turn.items[i].kind = "image"
      BY <1>a, <3>1, <3>2, FinalShows
    <3>4. ItemDone(i)
      BY <1>2, CompletedWhenFinished DEF IsTold, ItemDone
    <3>5. list[n].id = turn.items[i].id /\ list[n].size = turn.items[i].size
      BY <3>2, <3>4 DEF FinalItem, Item, Shape
    <3> QED BY <3>3, <3>5 DEF WholeImages
  <2> QED BY <2>5, <2>6 DEF AreImages
<1>3. CASE type = "incomplete"
  <2>1. list = <<>>
    BY <1>1, <1>3 DEF EventImages
  <2>2. <<>> \in Seq({}) /\ DOMAIN <<>> = {}
    OBVIOUS
  <2> QED BY <2>1, <2>2 DEF AreImages
<1> QED BY <1>2, <1>3

\* The parts of what the chat writer sends of anything but a call.
ChatParts(w, event, b, v, images, text, last) ==
  /\ images = ShowImages(w, EventImages(event))
  /\ text = ChatTextStep(images.writer, b, tuple, event)
  /\ last = (IF IsTerminal(event) THEN FinalText(text.writer, b) ELSE <<>>)
  /\ v = text.writer

LEMMA ChatPartsAre ==
  ASSUME NEW event, NEW b, b = Apply(acc, event), CallOf(b, event.item) = 0, dialect = "chat",
         Write(event), IsChatWriter(writer), \E S : EventImages(event) \in Seq(S)
  PROVE  \E images, text, last :
           /\ ChatParts(writer, event, b, writer', images, text, last)
           /\ blocks' = Read(Read(Read(blocks, images.out), text.out), last)
<1>a. PICK images : images = ShowImages(writer, EventImages(event))
  OBVIOUS
<1>b. PICK text : text = ChatTextStep(images.writer, b, tuple, event)
  OBVIOUS
<1>c. PICK last : last = IF IsTerminal(event) THEN FinalText(text.writer, b) ELSE <<>>
  OBVIOUS
<1>d. PICK step : step = ChatStep(writer, b, tuple, event)
  OBVIOUS
<1>1. step.writer = text.writer /\ step.out = images.out \o text.out \o last
  BY <1>a, <1>b, <1>c, <1>d DEF ChatStep
<1>2. writer' = step.writer /\ blocks' = Read(blocks, step.out)
  BY <1>d DEF Write
<1>3. AreOthers(images.out) /\ IsChatWriter(images.writer)
  BY <1>a, ImagesShow DEF SameChunks
<1>4. AreOthers(text.out)
  BY <1>3, <1>b, ChatTextShows
<1>5. AreOthers(last)
  <2>1. AreOthers(FinalText(text.writer, b))
    BY ChatTextIs, NoOthers DEF FinalText
  <2> QED BY <1>c, <2>1, NoOthers
<1>6. Read(blocks, images.out \o text.out) = Read(Read(blocks, images.out), text.out)
  BY <1>3, <1>4, ReadBoth DEF AreOthers
<1>7. Read(blocks, (images.out \o text.out) \o last) = Read(Read(blocks, images.out \o text.out), last)
  <2>1. AreOthers(images.out \o text.out)
    BY <1>3, <1>4, BothOthers
  <2>a. PICK both : both = images.out \o text.out
    OBVIOUS
  <2>2. Read(blocks, both \o last) = Read(Read(blocks, both), last)
    <3>1. AreOthers(both)
      BY <2>1, <2>a
    <3>2. PICK S : both \in Seq(S)
      BY <3>1 DEF AreOthers
    <3>3. PICK U : last \in Seq(U)
      BY <1>5 DEF AreOthers
    <3> QED BY <3>2, <3>3, ReadBoth
  <2> QED BY <2>2, <2>a
<1>8. blocks' = Read(Read(Read(blocks, images.out), text.out), last)
  BY <1>1, <1>2, <1>6, <1>7
<1> QED BY <1>1, <1>2, <1>8, <1>a, <1>b, <1>c DEF ChatParts

\* The images of an event, and then a piece of text.
LEMMA ChatOthersOfOther ==
  ASSUME NEW i, NEW type, NEW event, NEW next, IsTelled(i, type, event, next),
         turn.items[i].kind # "call", IsChatWriter(writer), dialect = "chat", Write(event),
         ChatOthers(turn.items, ImageBound(turn.items, progress), tuple, writer, blocks)
  PROVE  /\ ChatOthers(turn.items, ImageBound(turn.items, next), tuple, writer', blocks')
         /\ Along(blocks, blocks')
<1>a. PICK items, b, more, list : /\ items = turn.items /\ b = Apply(acc, event)
                                  /\ more = ImageBound(items, next) /\ list = EventImages(event)
  OBVIOUS
<1>1. /\ IsTold(items, progress) /\ i \in DOMAIN items /\ IsNext(items[i], progress[i], type)
      /\ IsProgressed(progress, next, i, type) /\ AreItems(items)
      /\ event = ItemEvent(i, type)
      /\ type \in {"item.added", "delta", "partial", "done", "item.done"}
  BY <1>a, NextIs, TypesOf DEF IsTelled, IsTold
<1>2. event.type = type /\ (event.type = "delta" => event.piece = 1) /\ ~IsTerminal(event)
  BY <1>1, ItemEventIs DEF IsItemEvent, IsTerminal
<1>3. CallOf(b, event.item) = 0
  BY <1>a, HeardOther DEF CallOf
<1>4. (\E S : list \in Seq(S)) /\ AreImages(items, more, list)
  BY <1>a, EventImagesAre
<1>5. PICK images, text, last :
        /\ ChatParts(writer, event, b, writer', images, text, last)
        /\ blocks' = Read(Read(Read(blocks, images.out), text.out), last)
  BY <1>3, <1>4, <1>a, ChatPartsAre
<1>6. /\ images = ShowImages(writer, list) /\ text = ChatTextStep(images.writer, b, tuple, event)
      /\ last = <<>> /\ writer' = text.writer
  BY <1>2, <1>5, <1>a DEF ChatParts
<1>b. PICK v, x, c : v = images.writer /\ x = Read(blocks, images.out) /\ c = Read(x, text.out)
  OBVIOUS
<1>7. blocks' = c
  BY <1>5, <1>6, <1>b, ReadNothing
<1>8. /\ ImagesFit(items, ImageBound(items, progress), writer, blocks) /\ OthersGrow(blocks)
      /\ TextFits(tuple, writer, blocks)
  BY <1>a DEF ChatOthers
<1>9. ImagesFit(items, more, writer, blocks)
  <2>1. \A j \in DOMAIN items : more[j] \in Nat /\ ImageBound(items, progress)[j] <= more[j]
    BY <1>1, <1>a, BoundGrows
  <2> QED BY <1>8, <2>1, ImagesFitMore
<1>10. ImagesRead(items, more, writer, blocks, v, x)
  <2>1. ImagesRead(items, more, writer, blocks, images.writer, Read(blocks, images.out))
    BY <1>1, <1>4, <1>6, <1>8, <1>9, ImagesReadAll
  <2> QED BY <1>b, <2>1
<1>11. /\ IsChatWriter(v) /\ ImagesFit(items, more, v, x) /\ OthersGrow(x) /\ Along(blocks, x)
       /\ v.textSent = writer.textSent /\ AgreesAt(blocks, x, ChatTextBlock)
  BY <1>10 DEF ImagesRead, ChatTextBlock
<1>12. TextFits(tuple, v, x)
  BY <1>8, <1>11 DEF TextFits, AgreesAt, IsChatWriter
<1>13. /\ SamePlaces(v, text.writer) /\ DOMAIN text.writer = ChatFields
       /\ \/ text.out = <<>> /\ text.writer.textSent = v.textSent
          \/ ~tuple /\ text.out = <<TextPiece>> /\ text.writer.textSent = TRUE
  <2>1. DOMAIN v = ChatFields /\ text = ChatTextStep(v, b, tuple, event)
    BY <1>6, <1>11, <1>b DEF IsChatWriter
  <2>2. TextGoesOn(v, tuple, text)
    BY <1>2, <2>1, ChatTextMid
  <2> QED BY <2>2 DEF TextGoesOn
<1>14. CASE text.out = <<>> /\ text.writer.textSent = v.textSent
  <2>1. c = x
    BY <1>14, <1>b, ReadNothing
  <2>2. ImagesFit(items, more, text.writer, x)
    BY <1>11, <1>13, AgreesSelf, ImagesStay
  <2>3. TextFits(tuple, text.writer, x)
    BY <1>12, <1>13, <1>14 DEF TextFits
  <2> QED BY <1>6, <1>7, <1>11, <1>a, <2>1, <2>2, <2>3 DEF ChatOthers
<1>15. CASE ~tuple /\ text.out = <<TextPiece>> /\ text.writer.textSent = TRUE
  <2>1. /\ Along(x, c) /\ OthersGrow(c)
        /\ \A key : key # ChatTextBlock => AgreesAt(x, c, key)
    BY <1>11, <1>15, <1>b, TextReads
  <2>2. ImagesFit(items, more, text.writer, c)
    <3>1. \A n : ImageKey(n) # ChatTextBlock
      <4>1. \A n : ImageKey(n)[1] = "image"
        BY DEF ImageKey
      <4>2. ChatTextBlock[1] = "text"
        BY DEF ChatTextBlock
      <4> QED BY <4>1, <4>2
    <3> QED BY <1>11, <1>13, <2>1, <3>1, ImagesStay
  <2>3. TextFits(tuple, text.writer, c)
    BY <1>13, <1>15 DEF TextFits
  <2>4. Along(blocks, c)
    <3>1. ASSUME NEW key \in DOMAIN blocks
          PROVE  \/ c[key] = x[key]
                 \/ blocks[key].size \in Nat /\ x[key].size \in Nat /\ c[key].size \in Nat
      <4>1. key \in DOMAIN x /\ key \in DOMAIN c
        BY <1>11, <2>1 DEF Along
      <4>2. CASE key = ChatTextBlock
        <5>1. key[1] = "text"
          BY <4>2 DEF ChatTextBlock
        <5> QED BY <1>8, <1>11, <2>1, <4>1, <5>1 DEF OthersGrow, IsGrowing
      <4>3. CASE key # ChatTextBlock
        BY <2>1, <4>1, <4>3 DEF AgreesAt
      <4> QED BY <4>2, <4>3
    <3> QED BY <1>11, <2>1, <3>1, AlongTwice
  <2> QED BY <1>6, <1>7, <1>a, <2>1, <2>2, <2>3, <2>4 DEF ChatOthers
<1> QED BY <1>13, <1>14, <1>15

\* The last text: what was held back, or what was not sent at all.
LEMMA LastTextAdds ==
  ASSUME NEW v, NEW x, NEW held, TextFits(held, v, x), NEW a, NEW event, IsTerminal(event),
         NEW text, text = ChatTextStep(v, a, held, event),
         NEW last, last = FinalText(text.writer, a), NEW c, c = Read(x, text.out)
  PROVE  Adds(x, Read(c, last))
<1>1. /\ DOMAIN v = ChatFields /\ v.textSent \in BOOLEAN
      /\ held \/ ~v.textSent => ChatTextBlock \notin DOMAIN x
  BY DEF TextFits
<1>2. last = (IF text.writer.textSent THEN <<>> ELSE ChatText(Text(a)))
  BY DEF FinalText
<1>3. ASSUME c = x, text.writer.textSent \/ ChatTextBlock \notin DOMAIN x
      PROVE  Adds(x, Read(c, last))
  <2>1. CASE text.writer.textSent
    <3>1. last = <<>>
      BY <1>2, <2>1
    <3> QED BY <1>3, <3>1, ReadNothing, AlongSelf
  <2>2. CASE ~text.writer.textSent
    <3>1. last = ChatText(Text(a)) /\ ChatTextBlock \notin DOMAIN x
      BY <1>2, <1>3, <2>2
    <3> QED BY <1>3, <3>1, FinalTextAdds
  <2> QED BY <2>1, <2>2
<1>4. CASE ~held /\ text.out = <<>> /\ text.writer.textSent = v.textSent
  <2>1. c = x
    BY <1>4, ReadNothing
  <2> QED BY <1>1, <1>3, <1>4, <2>1
<1>5. ASSUME held, NEW size, text.out = ChatText(size), size # 0 => text.writer.textSent = TRUE
      PROVE  Adds(x, Read(c, last))
  <2>1. CASE size = 0
    <3>1. text.out = <<>>
      BY <1>5, <2>1 DEF ChatText
    <3>2. c = x
      BY <3>1, ReadNothing
    <3> QED BY <1>1, <1>3, <1>5, <3>2
  <2>2. CASE size # 0
    <3>1. last = <<>>
      BY <1>2, <1>5, <2>2
    <3>2. Adds(x, c)
      BY <1>1, <1>5, FinalTextAdds
    <3>3. Read(c, last) = c
      BY <3>1, ReadNothing
    <3> QED BY <3>2, <3>3
  <2> QED BY <2>1, <2>2
<1>6. \/ ~held /\ text.out = <<>> /\ text.writer.textSent = v.textSent
      \/ held /\ \E size : text.out = ChatText(size) /\ (size # 0 => text.writer.textSent = TRUE)
  <2>1. TextEnds(v, held, text)
    BY <1>1, ChatTextAtEnd
  <2> QED BY <2>1 DEF TextEnds
<1> QED BY <1>4, <1>5, <1>6

LEMMA ChatEndAlong ==
  ASSUME StreamInv, dialect = "chat", NEW type \in {"completed", "incomplete"},
         NEW event \in NextEvents, event = LastEvent(type), Write(event), IsChatWriter(writer),
         ChatOthers(turn.items, ImageBound(turn.items, progress), tuple, writer, blocks)
  PROVE  Along(blocks, blocks')
<1>a. PICK items, b, more, list : /\ items = turn.items /\ b = Apply(acc, event)
                                  /\ more = WholeImages(items) /\ list = EventImages(event)
  OBVIOUS
<1>1. IsTold(items, progress) /\ AreItems(items)
  BY <1>a DEF StreamInv, IsTold
<1>2. event.type = type /\ IsTerminal(event) /\ event.item = NoItem
  BY LastEventIs DEF IsTerminal
<1>3. CallOf(b, event.item) = 0
  <2>1. NoItem.kind = "none"
    BY DEF NoItem
  <2> QED BY <1>2, <2>1 DEF CallOf
<1>4. (\E S : list \in Seq(S)) /\ AreImages(items, more, list)
  BY <1>1, <1>a, LastImagesAre
<1>5. PICK images, text, last :
        /\ ChatParts(writer, event, b, writer', images, text, last)
        /\ blocks' = Read(Read(Read(blocks, images.out), text.out), last)
  BY <1>3, <1>4, <1>a, ChatPartsAre
<1>6. /\ images = ShowImages(writer, list) /\ text = ChatTextStep(images.writer, b, tuple, event)
      /\ last = FinalText(text.writer, b)
  BY <1>2, <1>5, <1>a DEF ChatParts
<1>b. PICK v, x, c : v = images.writer /\ x = Read(blocks, images.out) /\ c = Read(x, text.out)
  OBVIOUS
<1>8. /\ ImagesFit(items, ImageBound(items, progress), writer, blocks) /\ OthersGrow(blocks)
      /\ TextFits(tuple, writer, blocks)
  BY <1>a DEF ChatOthers
<1>9. ImagesFit(items, more, writer, blocks)
  <2>1. \A j \in DOMAIN items : more[j] \in Nat /\ ImageBound(items, progress)[j] <= more[j]
    BY <1>1, <1>a, WholeBound
  <2> QED BY <1>8, <2>1, ImagesFitMore
<1>10. ImagesRead(items, more, writer, blocks, v, x)
  <2>1. ImagesRead(items, more, writer, blocks, images.writer, Read(blocks, images.out))
    BY <1>1, <1>4, <1>6, <1>8, <1>9, ImagesReadAll
  <2> QED BY <1>b, <2>1
<1>11. /\ IsChatWriter(v) /\ Along(blocks, x)
       /\ v.textSent = writer.textSent /\ AgreesAt(blocks, x, ChatTextBlock)
  BY <1>10 DEF ImagesRead, ChatTextBlock
<1>12. TextFits(tuple, v, x)
  BY <1>8, <1>11 DEF TextFits, AgreesAt, IsChatWriter
<1>13. Adds(x, Read(c, last))
  <2>1. text = ChatTextStep(v, b, tuple, event)
    BY <1>6, <1>b
  <2> QED BY <1>2, <1>6, <1>12, <1>b, <2>1, LastTextAdds
<1>14. blocks' = Read(c, last)
  BY <1>5, <1>b
<1> QED BY <1>11, <1>13, <1>14, AlongThenAdds

-----------------------------------------------------------------------------
(* A legacy Completions stream, step by step.                              *)

\* Of the text only.
CompletionShows(w, bl) == OthersGrow(bl) /\ TextFits(FALSE, w, bl)

LEMMA CompletionTells ==
  ASSUME NEW i, NEW type, NEW event, NEW next, IsTelled(i, type, event, next),
         dialect = "completions", Write(event), CompletionShows(writer, blocks)
  PROVE  CompletionShows(writer', blocks') /\ Along(blocks, blocks')
<1>a. PICK b, step : b = Apply(acc, event) /\ step = CompletionStep(writer, b, event)
  OBVIOUS
<1>1. writer' = step.writer /\ blocks' = Read(blocks, step.out)
  BY <1>a DEF Write
<1>2. ~IsTerminal(event) /\ (event.type = "delta" => event.piece = 1)
  <2>1. event = ItemEvent(i, type) /\ type \in {"item.added", "delta", "partial", "done", "item.done"}
    BY TypesOf DEF IsTelled
  <2> QED BY <2>1, ItemEventIs DEF IsItemEvent, IsTerminal
<1>3. CASE event.type = "delta" /\ event.item.kind = "message"
  <2>1. step.writer = [writer EXCEPT !.textSent = TRUE] /\ step.out = ChatText(1)
    BY <1>2, <1>3, <1>a DEF CompletionStep
  <2>2. ChatText(1) = <<TextPiece>>
    BY DEF ChatText, TextPiece
  <2>3. Along(blocks, blocks') /\ OthersGrow(blocks')
    BY <1>1, <2>1, <2>2, TextReads DEF CompletionShows
  <2>4. DOMAIN writer' = ChatFields /\ writer'.textSent = TRUE
    BY <1>1, <2>1 DEF CompletionShows, TextFits, ChatFields
  <2> QED BY <2>3, <2>4 DEF CompletionShows, TextFits
<1>4. CASE ~(event.type = "delta" /\ event.item.kind = "message")
  <2>1. step = [writer |-> writer, out |-> <<>>]
    BY <1>2, <1>4, <1>a DEF CompletionStep
  <2>2. writer' = writer /\ blocks' = blocks
    BY <1>1, <2>1, ReadNothing
  <2> QED BY <2>2, AlongSelf
<1> QED BY <1>3, <1>4

LEMMA CompletionEnds ==
  ASSUME NEW type \in {"completed", "incomplete"}, NEW event, event = LastEvent(type),
         dialect = "completions", Write(event), CompletionShows(writer, blocks)
  PROVE  Along(blocks, blocks')
<1>a. PICK b, step : b = Apply(acc, event) /\ step = CompletionStep(writer, b, event)
  OBVIOUS
<1>1. blocks' = Read(blocks, step.out)
  BY <1>a DEF Write
<1>2. IsTerminal(event) /\ event.type # "delta"
  BY LastEventIs DEF IsTerminal
<1>3. step.out = FinalText(writer, b)
  BY <1>2, <1>a DEF CompletionStep
<1>4. CASE writer.textSent
  <2>1. step.out = <<>>
    BY <1>3, <1>4 DEF FinalText
  <2> QED BY <1>1, <2>1, ReadNothing, AlongSelf
<1>5. CASE ~writer.textSent
  <2>1. step.out = ChatText(Text(b)) /\ ChatTextBlock \notin DOMAIN blocks
    BY <1>3, <1>5 DEF FinalText, CompletionShows, TextFits
  <2>2. Adds(blocks, blocks')
    BY <1>1, <2>1, FinalTextAdds
  <2> QED BY <2>2, AlongSelf, AlongThenAdds
<1> QED BY <1>4, <1>5
-----------------------------------------------------------------------------
(* The blocks of a Messages stream.                                        *)

IsSeq(s) == \E S : s \in Seq(S)

\* A block of any kind, and a text.
BlockShown(kind, id, size, closed) ==
  [kind |-> kind, id |-> id, size |-> size, opened |-> 1, closed |-> closed]

TextShown(size, closed) == BlockShown("text", None, size, closed)

LEMMA BlockOpens ==
  ASSUME NEW bl, NEW key, key \notin DOMAIN bl, NEW kind, NEW id
  PROVE  Changes(bl, ReadOne(bl, Opens(key, kind, id)), key, BlockShown(kind, id, 0, FALSE))
<1> DEFINE out == Opens(key, kind, id)
<1>1. /\ out.do = "open" /\ out.key = key /\ out.kind = kind /\ out.id = id
  BY DEF Opens
<1>2. Unopened(out) = [kind |-> kind, id |-> id, size |-> 0, opened |-> 0, closed |-> FALSE]
  BY <1>1 DEF Unopened
<1> HIDE DEF out
<1>3. PICK block : /\ Changes(bl, ReadOne(bl, out), key, block)
                   /\ block = [Unopened(out) EXCEPT !.opened = @ + 1, !.kind = out.kind,
                                                    !.id = out.id]
  <2>1. PICK block : /\ Changes(bl, ReadOne(bl, out), out.key, block)
                     /\ block = LET old == IF out.key \in DOMAIN bl THEN bl[out.key]
                                           ELSE Unopened(out)
                                IN CASE out.do = "open" -> [old EXCEPT !.opened = @ + 1, !.kind = out.kind,
                                                                       !.id = out.id]
                                     [] out.do = "append" -> [old EXCEPT !.size = @ + out.size]
                                     [] out.do = "state" -> [old EXCEPT !.size = out.size]
                                     [] out.do = "close" -> [old EXCEPT !.closed = TRUE, !.id = out.id]
    BY ReadOneIs
  <2>2. out.key \notin DOMAIN bl /\ out.do = "open"
    BY <1>1
  <2>3. block = [Unopened(out) EXCEPT !.opened = @ + 1, !.kind = out.kind, !.id = out.id]
    BY <2>1, <2>2
  <2> QED BY <1>1, <2>1, <2>3
<1>4. block = BlockShown(kind, id, 0, FALSE)
  <2>1. block = [[kind |-> kind, id |-> id, size |-> 0, opened |-> 0, closed |-> FALSE]
                   EXCEPT !.opened = @ + 1, !.kind = kind, !.id = id]
    BY <1>1, <1>2, <1>3
  <2>2. block = [kind |-> kind, id |-> id, size |-> 0, opened |-> 0 + 1, closed |-> FALSE]
    BY <2>1
  <2> QED BY <2>2 DEF BlockShown
<1> QED BY <1>3, <1>4 DEF out

LEMMA BlockAppends ==
  ASSUME NEW bl, NEW key, key \in DOMAIN bl, NEW kind, NEW id, NEW size,
         bl[key] = BlockShown(kind, id, size, FALSE), NEW other, NEW piece
  PROVE  Changes(bl, ReadOne(bl, Appends(key, other, piece)), key,
                 BlockShown(kind, id, size + piece, FALSE))
<1> DEFINE out == Appends(key, other, piece)
<1>1. out.do = "append" /\ out.key = key /\ out.size = piece
  BY DEF Appends
<1> HIDE DEF out
<1>2. PICK block : /\ Changes(bl, ReadOne(bl, out), key, block)
                   /\ block = [bl[key] EXCEPT !.size = @ + out.size]
  BY <1>1, ReadOneIs
<1>3. block = BlockShown(kind, id, size + piece, FALSE)
  <2>1. block = [BlockShown(kind, id, size, FALSE) EXCEPT !.size = @ + piece]
    BY <1>1, <1>2
  <2> QED BY <2>1 DEF BlockShown
<1> QED BY <1>2, <1>3 DEF out

LEMMA BlockCloses ==
  ASSUME NEW bl, NEW key, key \in DOMAIN bl, NEW kind, NEW id, NEW size,
         bl[key] = BlockShown(kind, id, size, FALSE)
  PROVE  Changes(bl, ReadOne(bl, Closes(key, id)), key, BlockShown(kind, id, size, TRUE))
<1> DEFINE out == Closes(key, id)
<1>1. out.do = "close" /\ out.key = key /\ out.id = id
  BY DEF Closes
<1> HIDE DEF out
<1>2. PICK block : /\ Changes(bl, ReadOne(bl, out), key, block)
                   /\ block = [bl[key] EXCEPT !.closed = TRUE, !.id = out.id]
  BY <1>1, ReadOneIs
<1>3. block = BlockShown(kind, id, size, TRUE)
  <2>1. block = [BlockShown(kind, id, size, FALSE) EXCEPT !.closed = TRUE, !.id = id]
    BY <1>1, <1>2
  <2> QED BY <2>1 DEF BlockShown
<1> QED BY <1>2, <1>3 DEF out

LEMMA ChangesTwice ==
  ASSUME NEW bl, NEW b, NEW c, NEW key, NEW x, NEW y, Changes(bl, b, key, x), Changes(b, c, key, y)
  PROVE  Changes(bl, c, key, y)
BY DEF Changes

LEMMA SeqBoth ==
  ASSUME NEW s, NEW t, IsSeq(s), IsSeq(t)
  PROVE  IsSeq(s \o t)
<1>1. PICK S, U : s \in Seq(S) /\ t \in Seq(U)
  BY DEF IsSeq
<1>2. s \in Seq(S \cup U) /\ t \in Seq(S \cup U)
  <2>1. S \subseteq S \cup U /\ U \subseteq S \cup U
    OBVIOUS
  <2> QED BY <1>1, <2>1, SubSequence
<1>3. s \o t \in Seq(S \cup U)
  BY <1>2
<1> QED BY <1>3 DEF IsSeq

LEMMA ReadSeqs ==
  ASSUME NEW bl, NEW s, NEW t, IsSeq(s), IsSeq(t)
  PROVE  Read(bl, s \o t) = Read(Read(bl, s), t)
<1>1. PICK S, U : s \in Seq(S) /\ t \in Seq(U)
  BY DEF IsSeq
<1> QED BY <1>1, ReadBoth

LEMMA ReadTwo ==
  ASSUME NEW bl, NEW x, NEW y
  PROVE  Read(bl, <<x>> \o <<y>>) = ReadOne(ReadOne(bl, x), y) /\ IsSeq(<<x>> \o <<y>>)
<1>1. PICK s, t : s = <<x>> /\ t = <<y>>
  OBVIOUS
<1>2. IsSeq(s) /\ IsSeq(t)
  <2>1. <<x>> \in Seq({x}) /\ <<y>> \in Seq({y})
    OBVIOUS
  <2> QED BY <1>1, <2>1 DEF IsSeq
<1>3. Read(bl, s \o t) = Read(Read(bl, s), t) /\ IsSeq(s \o t)
  BY <1>2, ReadSeqs, SeqBoth
<1>4. Read(bl, s) = ReadOne(bl, x) /\ Read(ReadOne(bl, x), t) = ReadOne(ReadOne(bl, x), y)
  BY <1>1, ReadOneOnly
<1> QED BY <1>1, <1>3, <1>4

\* A block that is opened, filled or not, and closed at once.
WholeOut(key, kind, id, middle) == (<<Opens(key, kind, id)>> \o middle) \o <<Closes(key, id)>>

LEMMA WholeReads ==
  ASSUME NEW bl, NEW key, key \notin DOMAIN bl, NEW kind, NEW id, NEW middle,
         middle = <<>> \/ \E other, pieces : middle = <<Appends(key, other, pieces)>>,
         NEW out, out = WholeOut(key, kind, id, middle)
  PROVE  IsSeq(out) /\ \E size : Changes(bl, Read(bl, out), key, BlockShown(kind, id, size, TRUE))
<1>a. PICK opens, closes : opens = Opens(key, kind, id) /\ closes = Closes(key, id)
  OBVIOUS
<1>b. PICK b : b = ReadOne(bl, opens)
  OBVIOUS
<1>1. Changes(bl, b, key, BlockShown(kind, id, 0, FALSE))
  BY <1>a, <1>b, BlockOpens
<1>2. \E first, size : /\ out = first \o <<closes>> /\ IsSeq(first)
                       /\ Changes(bl, Read(bl, first), key, BlockShown(kind, id, size, FALSE))
  <2>1. CASE middle = <<>>
    <3>1. <<opens>> \o middle = <<opens>> /\ <<opens>> \in Seq({opens})
      BY <2>1
    <3>2. Read(bl, <<opens>>) = b
      BY <1>b, ReadOneOnly
    <3>3. out = <<opens>> \o <<closes>> /\ IsSeq(<<opens>>)
      BY <1>a, <3>1 DEF WholeOut, IsSeq
    <3> QED BY <1>1, <3>2, <3>3
  <2>2. CASE \E other, pieces : middle = <<Appends(key, other, pieces)>>
    <3>1. PICK other, pieces : middle = <<Appends(key, other, pieces)>>
      BY <2>2
    <3>a. PICK more : more = Appends(key, other, pieces)
      OBVIOUS
    <3>2. PICK size : Changes(b, ReadOne(b, more), key, BlockShown(kind, id, size, FALSE))
      <4>1. PICK old : key \in DOMAIN b /\ b[key] = BlockShown(kind, id, old, FALSE)
        BY <1>1 DEF Changes
      <4>2. Changes(b, ReadOne(b, Appends(key, other, pieces)), key,
                    BlockShown(kind, id, old + pieces, FALSE))
        BY <4>1, BlockAppends
      <4> QED BY <3>a, <4>2
    <3>3. Read(bl, <<opens>> \o <<more>>) = ReadOne(b, more) /\ IsSeq(<<opens>> \o <<more>>)
      BY <1>b, ReadTwo
    <3>4. out = (<<opens>> \o <<more>>) \o <<closes>>
      BY <1>a, <3>1, <3>a DEF WholeOut
    <3>5. Changes(bl, ReadOne(b, more), key, BlockShown(kind, id, size, FALSE))
      BY <1>1, <3>2, ChangesTwice
    <3> QED BY <3>3, <3>4, <3>5
  <2> QED BY <2>1, <2>2
<1>3. PICK first, size : /\ out = first \o <<closes>> /\ IsSeq(first)
                         /\ Changes(bl, Read(bl, first), key, BlockShown(kind, id, size, FALSE))
  BY <1>2
<1>c. PICK c : c = Read(bl, first)
  OBVIOUS
<1>4. Changes(c, ReadOne(c, closes), key, BlockShown(kind, id, size, TRUE))
  <2>1. key \in DOMAIN c /\ c[key] = BlockShown(kind, id, size, FALSE)
    BY <1>3, <1>c DEF Changes
  <2> QED BY <1>a, <2>1, BlockCloses
<1>5. Changes(bl, ReadOne(c, closes), key, BlockShown(kind, id, size, TRUE))
  BY <1>3, <1>c, <1>4, ChangesTwice
<1>6. IsSeq(<<closes>>)
  <2>1. <<closes>> \in Seq({closes})
    OBVIOUS
  <2> QED BY <2>1 DEF IsSeq
<1>7. Read(bl, out) = ReadOne(c, closes) /\ IsSeq(out)
  <2>1. Read(bl, out) = Read(c, <<closes>>)
    BY <1>3, <1>6, <1>c, ReadSeqs
  <2>2. IsSeq(out)
    BY <1>3, <1>6, SeqBoth
  <2> QED BY <2>1, <2>2, ReadOneOnly
<1> QED BY <1>5, <1>7
-----------------------------------------------------------------------------
(* A Messages stream, one step of the encoder after the other.             *)

\* A text may grow and be closed, the other blocks are whole when they are opened.
TextGrows(old, new) ==
  \E n, m \in Nat, closed \in BOOLEAN :
    n <= m /\ old = TextShown(n, FALSE) /\ new = TextShown(m, closed)

BlocksFollow(bl, read) ==
  /\ DOMAIN bl \subseteq DOMAIN read
  /\ \A key \in DOMAIN bl : read[key] = bl[key] \/ TextGrows(bl[key], read[key])
  /\ \A key \in DOMAIN read \ DOMAIN bl : read[key].opened = 1

ClaudeFields ==
  {"nextIndex", "open", "textEmitted", "thinkEmitted", "thinkDeltas", "toolSent", "toolDone",
   "toolStates", "toolDeltas", "toolOrder", "webSearchDone"}

IsEncoder(e) ==
  /\ DOMAIN e = ClaudeFields /\ e.nextIndex \in Nat /\ e.open \in BOOLEAN
  /\ e.textEmitted \in BOOLEAN /\ IsSeq(e.toolOrder)

TextKey(e) == Block("text", e.nextIndex - 1)

\* The client has the open text, and no block of an index to come.
ClaudeShows(e, bl) ==
  /\ IsEncoder(e)
  /\ e.open => /\ e.textEmitted /\ TextKey(e) \in DOMAIN bl
               /\ \E n \in Nat : bl[TextKey(e)] = TextShown(n, FALSE)
  /\ \A key \in DOMAIN bl : key[2] \in Nat /\ key[2] < e.nextIndex

IsStep(step) == step = [encoder |-> step.encoder, out |-> step.out]

\* A step of the encoder that a client can follow.
Leads(bl, step) ==
  /\ IsStep(step) /\ IsSeq(step.out)
  /\ ClaudeShows(step.encoder, Read(bl, step.out))
  /\ BlocksFollow(bl, Read(bl, step.out))

LEMMA FollowSelf ==
  ASSUME NEW bl
  PROVE  BlocksFollow(bl, bl)
BY DEF BlocksFollow

LEMMA TextGrowsTwice ==
  ASSUME NEW x, NEW y, NEW z, TextGrows(x, y), TextGrows(y, z)
  PROVE  TextGrows(x, z)
<1>1. PICK n, m \in Nat, closed \in BOOLEAN :
        n <= m /\ x = TextShown(n, FALSE) /\ y = TextShown(m, closed)
  BY DEF TextGrows
<1>2. PICK k, l \in Nat, end \in BOOLEAN :
        k <= l /\ y = TextShown(k, FALSE) /\ z = TextShown(l, end)
  BY DEF TextGrows
<1>3. m = k
  <2>1. y.size = m /\ y.size = k
    BY <1>1, <1>2 DEF TextShown, BlockShown
  <2> QED BY <2>1
<1>4. n <= l
  BY <1>1, <1>2, <1>3
<1> QED BY <1>1, <1>2, <1>4 DEF TextGrows

LEMMA GrownIsOpened ==
  ASSUME NEW x, NEW y, TextGrows(x, y)
  PROVE  y.opened = 1
BY DEF TextGrows, TextShown, BlockShown

LEMMA FollowTwice ==
  ASSUME NEW bl, NEW b, NEW c, BlocksFollow(bl, b), BlocksFollow(b, c)
  PROVE  BlocksFollow(bl, c)
<1>1. DOMAIN bl \subseteq DOMAIN c
  BY DEF BlocksFollow
<1>2. ASSUME NEW key \in DOMAIN bl PROVE c[key] = bl[key] \/ TextGrows(bl[key], c[key])
  <2>1. key \in DOMAIN b /\ (b[key] = bl[key] \/ TextGrows(bl[key], b[key]))
    BY DEF BlocksFollow
  <2>2. c[key] = b[key] \/ TextGrows(b[key], c[key])
    BY <2>1 DEF BlocksFollow
  <2> QED BY <2>1, <2>2, TextGrowsTwice
<1>3. ASSUME NEW key \in DOMAIN c \ DOMAIN bl PROVE c[key].opened = 1
  <2>1. CASE key \in DOMAIN b
    <3>1. b[key].opened = 1 /\ (c[key] = b[key] \/ TextGrows(b[key], c[key]))
      BY <1>3, <2>1 DEF BlocksFollow
    <3> QED BY <3>1, GrownIsOpened
  <2>2. CASE key \notin DOMAIN b
    BY <1>3, <2>2 DEF BlocksFollow
  <2> QED BY <2>1, <2>2
<1> QED BY <1>1, <1>2, <1>3 DEF BlocksFollow

\* It takes nothing back.
LEMMA FollowAlong ==
  ASSUME NEW bl, NEW read, BlocksFollow(bl, read)
  PROVE  Along(bl, read)
<1>1. DOMAIN bl \subseteq DOMAIN read
  BY DEF BlocksFollow
<1>2. ASSUME NEW key \in DOMAIN bl PROVE Answer!Extends(bl[key], read[key])
  <2>1. CASE read[key] = bl[key]
    BY <2>1 DEF Answer!Extends
  <2>2. CASE TextGrows(bl[key], read[key])
    <3>1. PICK n, m \in Nat, closed \in BOOLEAN :
            n <= m /\ bl[key] = TextShown(n, FALSE) /\ read[key] = TextShown(m, closed)
      BY <2>2 DEF TextGrows
    <3>2. m >= n
      BY <3>1
    <3> QED BY <3>1, <3>2 DEF Answer!Extends, TextShown, BlockShown
  <2> QED BY <2>1, <2>2 DEF BlocksFollow
<1>3. ASSUME NEW key \in DOMAIN read, key \notin DOMAIN bl PROVE Answer!Announced(read[key])
  <2>1. read[key].opened = 1
    BY <1>3 DEF BlocksFollow
  <2> QED BY <2>1 DEF Answer!Announced
<1> QED BY <1>1, <1>2, <1>3 DEF Along

\* Two steps, one after the other.
Chains(step, next, both) == both = [next EXCEPT !.out = step.out \o @]

LEMMA ThenLeads ==
  ASSUME NEW bl, NEW step, Leads(bl, step), NEW next, Leads(Read(bl, step.out), next),
         NEW both, Chains(step, next, both)
  PROVE  /\ Leads(bl, both) /\ both.encoder = next.encoder
         /\ Read(bl, both.out) = Read(Read(bl, step.out), next.out)
<1>0. both = [next EXCEPT !.out = step.out \o next.out]
  BY DEF Chains
<1>1. both = [encoder |-> next.encoder, out |-> step.out \o next.out]
  <2>1. next = [encoder |-> next.encoder, out |-> next.out]
    BY DEF Leads, IsStep
  <2>2. \A e, x, y : [[encoder |-> e, out |-> x] EXCEPT !.out = y] = [encoder |-> e, out |-> y]
    OBVIOUS
  <2> QED BY <1>0, <2>1, <2>2
<1>2. both.encoder = next.encoder /\ both.out = step.out \o next.out /\ IsStep(both)
  BY <1>1 DEF IsStep
<1>3. IsSeq(step.out) /\ IsSeq(next.out)
  BY DEF Leads
<1>4. IsSeq(both.out) /\ Read(bl, both.out) = Read(Read(bl, step.out), next.out)
  BY <1>2, <1>3, SeqBoth, ReadSeqs
<1>5. BlocksFollow(bl, Read(bl, both.out))
  BY <1>4, FollowTwice DEF Leads
<1>6. ClaudeShows(both.encoder, Read(bl, both.out))
  BY <1>2, <1>4 DEF Leads
<1> QED BY <1>2, <1>4, <1>5, <1>6 DEF Leads

\* Encoders that have the same marks of the text and of the index.
SameMarks(e, f) ==
  /\ DOMAIN f = DOMAIN e /\ f.nextIndex = e.nextIndex /\ f.open = e.open
  /\ f.textEmitted = e.textEmitted /\ (IsSeq(e.toolOrder) => IsSeq(f.toolOrder))

LEMMA SameMarksTwice ==
  ASSUME NEW e, NEW f, NEW g, SameMarks(e, f), SameMarks(f, g)
  PROVE  SameMarks(e, g)
BY DEF SameMarks

LEMMA FieldMarks ==
  ASSUME NEW e, DOMAIN e = ClaudeFields, NEW x,
         NEW f \in ClaudeFields \ {"nextIndex", "open", "textEmitted", "toolOrder"}
  PROVE  SameMarks(e, [e EXCEPT ![f] = x])
BY DEF ClaudeFields, SameMarks

LEMMA MarksShow ==
  ASSUME NEW e, NEW f, SameMarks(e, f), NEW bl, ClaudeShows(e, bl)
  PROVE  ClaudeShows(f, bl)
<1>1. IsEncoder(f)
  BY DEF SameMarks, ClaudeShows, IsEncoder
<1>2. TextKey(f) = TextKey(e) /\ f.open = e.open /\ f.textEmitted = e.textEmitted
      /\ f.nextIndex = e.nextIndex
  BY DEF SameMarks, TextKey
<1> QED BY <1>1, <1>2 DEF ClaudeShows

\* Nothing is sent.
LEMMA NothingLeads ==
  ASSUME NEW bl, NEW e, ClaudeShows(e, bl), NEW step, step = Nothing(e)
  PROVE  Leads(bl, step) /\ step.encoder = e /\ step.out = <<>> /\ Read(bl, step.out) = bl
<1>1. step.encoder = e /\ step.out = <<>> /\ IsStep(step)
  BY DEF Nothing, IsStep
<1>2. IsSeq(<<>>)
  <2>1. <<>> \in Seq({})
    OBVIOUS
  <2> QED BY <2>1 DEF IsSeq
<1>3. Read(bl, step.out) = bl
  BY <1>1, ReadNothing
<1> QED BY <1>1, <1>2, <1>3, FollowSelf DEF Leads

LEMMA NothingMarks ==
  ASSUME NEW bl, NEW e, ClaudeShows(e, bl), NEW f, SameMarks(e, f), NEW step, step = Nothing(f)
  PROVE  Leads(bl, step) /\ step.encoder = f /\ step.out = <<>> /\ Read(bl, step.out) = bl
BY MarksShow, NothingLeads
-----------------------------------------------------------------------------
(* Blocks that are opened and closed at once, and texts.                   *)

LEMMA NewKey ==
  ASSUME NEW e, NEW bl, ClaudeShows(e, bl), NEW kind
  PROVE  Block(kind, e.nextIndex) \notin DOMAIN bl /\ Block(kind, e.nextIndex)[2] = e.nextIndex
<1>1. Block(kind, e.nextIndex)[2] = e.nextIndex
  BY DEF Block
<1>2. e.nextIndex \in Nat /\ \A key \in DOMAIN bl : key[2] < e.nextIndex
  BY DEF ClaudeShows, IsEncoder
<1> QED BY <1>1, <1>2

LEMMA NewBlockLeads ==
  ASSUME NEW e, NEW bl, ClaudeShows(e, bl), NEW kind, NEW id, NEW middle,
         middle = <<>> \/ \E other, pieces : middle = <<Appends(Block(kind, e.nextIndex), other, pieces)>>,
         NEW f, IsEncoder(f), f.open = FALSE, f.nextIndex = e.nextIndex + 1,
         NEW step, step.encoder = f, step.out = WholeOut(Block(kind, e.nextIndex), kind, id, middle),
         IsStep(step)
  PROVE  Leads(bl, step)
<1>a. PICK key, out : key = Block(kind, e.nextIndex) /\ out = step.out
  OBVIOUS
<1>1. key \notin DOMAIN bl /\ key[2] = e.nextIndex
  BY <1>a, NewKey
<1>b. PICK read : read = Read(bl, out)
  OBVIOUS
<1>2. IsSeq(out) /\ \E size : Changes(bl, read, key, BlockShown(kind, id, size, TRUE))
  <2>1. out = WholeOut(key, kind, id, middle)
    BY <1>a
  <2>2. middle = <<>> \/ \E other, pieces : middle = <<Appends(key, other, pieces)>>
    BY <1>a
  <2> QED BY <1>1, <1>b, <2>1, <2>2, WholeReads
<1>3. PICK size : Changes(bl, read, key, BlockShown(kind, id, size, TRUE))
  BY <1>2
<1>4. /\ DOMAIN read = DOMAIN bl \cup {key} /\ read[key].opened = 1
      /\ \A other \in DOMAIN bl : read[other] = bl[other]
  BY <1>1, <1>3 DEF Changes, BlockShown
<1>5. BlocksFollow(bl, read)
  BY <1>4 DEF BlocksFollow
<1>6. ClaudeShows(f, read)
  <2>1. \A other \in DOMAIN bl : other[2] \in Nat /\ other[2] < e.nextIndex
    BY DEF ClaudeShows
  <2>2. e.nextIndex \in Nat
    BY DEF ClaudeShows, IsEncoder
  <2>3. \A other \in DOMAIN read : other[2] \in Nat /\ other[2] < f.nextIndex
    BY <1>1, <1>4, <2>1, <2>2
  <2> QED BY <2>3 DEF ClaudeShows
<1> QED BY <1>2, <1>5, <1>6, <1>a, <1>b DEF Leads

LEMMA WholeLeads ==
  ASSUME NEW e, NEW bl, ClaudeShows(e, bl), e.open = FALSE, NEW kind, NEW id, NEW pieces,
         NEW step, step = WholeBlock(e, kind, id, pieces)
  PROVE  Leads(bl, step) /\ step.encoder.open = FALSE
<1>a. PICK middle : middle = IF pieces > 0 THEN <<Appends(Block(kind, e.nextIndex), id, pieces)>> ELSE <<>>
  OBVIOUS
<1>b. PICK f : f = [e EXCEPT !.nextIndex = @ + 1]
  OBVIOUS
<1>1. step.encoder = f /\ IsStep(step)
      /\ step.out = WholeOut(Block(kind, e.nextIndex), kind, id, middle)
  BY <1>a, <1>b DEF WholeBlock, WholeOut, IsStep
<1>2. IsEncoder(f) /\ f.open = FALSE /\ f.nextIndex = e.nextIndex + 1
  BY <1>b DEF ClaudeShows, IsEncoder, ClaudeFields
<1>3. middle = <<>> \/ \E other, more : middle = <<Appends(Block(kind, e.nextIndex), other, more)>>
  BY <1>a
<1> QED BY <1>1, <1>2, <1>3, NewBlockLeads

\* The open text is closed, if there is one.
LEMMA CloseLeads ==
  ASSUME NEW e, NEW bl, ClaudeShows(e, bl), NEW step, step = CloseBlock(e)
  PROVE  Leads(bl, step) /\ step.encoder.open = FALSE
<1>a. PICK f : f = [e EXCEPT !.open = FALSE]
  OBVIOUS
<1>1. step.encoder = f /\ IsStep(step)
      /\ step.out = IF e.open THEN <<Closes(TextKey(e), None)>> ELSE <<>>
  BY <1>a DEF CloseBlock, TextKey, IsStep
<1>2. IsEncoder(f) /\ f.open = FALSE /\ f.nextIndex = e.nextIndex
  BY <1>a DEF ClaudeShows, IsEncoder, ClaudeFields
<1>3. CASE ~e.open
  <2>1. step.out = <<>>
    BY <1>1, <1>3
  <2>2. Read(bl, step.out) = bl
    BY <2>1, ReadNothing
  <2>3. ClaudeShows(f, bl)
    BY <1>2 DEF ClaudeShows
  <2>4. IsSeq(step.out)
    <3>1. <<>> \in Seq({})
      OBVIOUS
    <3> QED BY <2>1, <3>1 DEF IsSeq
  <2> QED BY <1>1, <1>2, <2>2, <2>3, <2>4, FollowSelf DEF Leads
<1>4. CASE e.open
  <2>a. PICK key, closes : key = TextKey(e) /\ closes = Closes(key, None)
    OBVIOUS
  <2>1. step.out = <<closes>>
    BY <1>1, <1>4, <2>a
  <2>2. PICK n \in Nat : key \in DOMAIN bl /\ bl[key] = TextShown(n, FALSE)
    BY <1>4, <2>a DEF ClaudeShows
  <2>b. PICK read : read = ReadOne(bl, closes)
    OBVIOUS
  <2>3. Changes(bl, read, key, TextShown(n, TRUE))
    BY <2>2, <2>a, <2>b, BlockCloses DEF TextShown
  <2>4. /\ DOMAIN read = DOMAIN bl /\ read[key] = TextShown(n, TRUE)
        /\ \A other \in DOMAIN bl : other # key => read[other] = bl[other]
    BY <2>2, <2>3 DEF Changes
  <2>5. TextGrows(bl[key], read[key])
    <3>1. n <= n /\ TRUE \in BOOLEAN
      OBVIOUS
    <3> QED BY <2>2, <2>4, <3>1 DEF TextGrows
  <2>6. BlocksFollow(bl, read)
    BY <2>4, <2>5 DEF BlocksFollow
  <2>7. ClaudeShows(f, read)
    BY <1>2, <2>4 DEF ClaudeShows
  <2>8. Read(bl, step.out) = read
    BY <2>1, <2>b, ReadOneOnly
  <2>9. IsSeq(step.out)
    <3>1. <<closes>> \in Seq({closes})
      OBVIOUS
    <3> QED BY <2>1, <3>1 DEF IsSeq
  <2> QED BY <1>1, <1>2, <2>6, <2>7, <2>8, <2>9 DEF Leads
<1> QED BY <1>3, <1>4

\* A piece of text, of the open text or of a new one.
TextWritten(e, f) ==
  /\ DOMAIN f = DOMAIN e /\ f.open = TRUE /\ f.textEmitted = TRUE /\ f.toolOrder = e.toolOrder
  /\ f.nextIndex = IF e.open THEN e.nextIndex ELSE e.nextIndex + 1

TextOut(e, pieces) ==
  IF e.open THEN <<Appends(TextKey(e), None, pieces)>>
  ELSE <<Opens(Block("text", e.nextIndex), "text", None)>>
       \o <<Appends(Block("text", e.nextIndex), None, pieces)>>

LEMMA EmitTextIs ==
  ASSUME NEW e, IsEncoder(e), NEW pieces, pieces # 0, NEW step, step = EmitText(e, pieces)
  PROVE  IsStep(step) /\ TextWritten(e, step.encoder) /\ step.out = TextOut(e, pieces)
<1>a. PICK f, opens : f = OpenText(e).encoder /\ opens = OpenText(e).out
  OBVIOUS
<1>b. PICK more : more = <<Appends(Block("text", f.nextIndex - 1), None, pieces)>>
  OBVIOUS
<1>1. step = [[encoder |-> [f EXCEPT !.textEmitted = TRUE], out |-> more] EXCEPT !.out = opens \o @]
  BY <1>a, <1>b DEF EmitText, Then
<1>2. \A g, x, y : [[encoder |-> g, out |-> x] EXCEPT !.out = y \o @] = [encoder |-> g, out |-> y \o x]
  <2>1. \A g, x, z : [[encoder |-> g, out |-> x] EXCEPT !.out = z] = [encoder |-> g, out |-> z]
    OBVIOUS
  <2>2. \A g, x : [encoder |-> g, out |-> x].out = x
    OBVIOUS
  <2> QED BY <2>1, <2>2
<1>c. PICK g : g = [f EXCEPT !.textEmitted = TRUE]
  OBVIOUS
<1>3. step.encoder = g /\ step.out = opens \o more /\ IsStep(step)
  BY <1>1, <1>2, <1>c DEF IsStep
<1>4. CASE e.open
  <2>1. f = e /\ opens = <<>>
    BY <1>4, <1>a DEF OpenText, Nothing
  <2>2. more \in Seq({Appends(Block("text", f.nextIndex - 1), None, pieces)})
    BY <1>b
  <2>3. opens \o more = more
    BY <2>1, <2>2
  <2>4. step.out = TextOut(e, pieces)
    BY <1>3, <1>4, <1>b, <2>1, <2>3 DEF TextOut, TextKey
  <2>5. TextWritten(e, g)
    BY <1>4, <1>c, <2>1 DEF TextWritten, IsEncoder, ClaudeFields
  <2> QED BY <1>3, <2>4, <2>5
<1>5. CASE ~e.open
  <2>1. f = [e EXCEPT !.nextIndex = @ + 1, !.open = TRUE]
        /\ opens = <<Opens(Block("text", e.nextIndex), "text", None)>>
    BY <1>5, <1>a DEF OpenText
  <2>2. f.nextIndex = e.nextIndex + 1 /\ e.nextIndex \in Nat
    BY <2>1 DEF IsEncoder, ClaudeFields
  <2>3. f.nextIndex - 1 = e.nextIndex
    BY <2>2
  <2>4. step.out = TextOut(e, pieces)
    BY <1>3, <1>5, <1>b, <2>1, <2>3 DEF TextOut
  <2>5. TextWritten(e, g)
    BY <1>5, <1>c, <2>1 DEF TextWritten, IsEncoder, ClaudeFields
  <2> QED BY <1>3, <2>4, <2>5
<1> QED BY <1>4, <1>5

LEMMA ThenIs ==
  ASSUME NEW next, IsStep(next), NEW out, NEW both, both = [next EXCEPT !.out = out]
  PROVE  IsStep(both) /\ both.encoder = next.encoder /\ both.out = out
<1>1. \A e, x, y : [[encoder |-> e, out |-> x] EXCEPT !.out = y] = [encoder |-> e, out |-> y]
  OBVIOUS
<1>2. both = [encoder |-> next.encoder, out |-> out]
  BY <1>1 DEF IsStep
<1> QED BY <1>2 DEF IsStep

LEMMA OneIsSeq ==
  ASSUME NEW x
  PROVE  IsSeq(<<x>>) /\ IsSeq(<<>>)
<1>1. <<x>> \in Seq({x}) /\ <<>> \in Seq({})
  OBVIOUS
<1> QED BY <1>1 DEF IsSeq

LEMMA TextLeads ==
  ASSUME NEW e, NEW bl, ClaudeShows(e, bl), NEW pieces \in Nat, NEW step, step = EmitText(e, pieces)
  PROVE  Leads(bl, step)
<1>0. CASE pieces = 0
  <2>1. step = Nothing(e)
    BY <1>0 DEF EmitText
  <2> QED BY <2>1, NothingLeads
<1>1. CASE pieces # 0
  <2>a. PICK f : f = step.encoder
    OBVIOUS
  <2>1. IsEncoder(e) /\ e.nextIndex \in Nat
    BY DEF ClaudeShows, IsEncoder
  <2>2. IsStep(step) /\ TextWritten(e, f) /\ step.out = TextOut(e, pieces)
    BY <1>1, <2>1, <2>a, EmitTextIs
  <2>3. IsEncoder(f) /\ f.open = TRUE /\ f.textEmitted = TRUE
        /\ f.nextIndex = IF e.open THEN e.nextIndex ELSE e.nextIndex + 1
    <3>1. /\ DOMAIN f = DOMAIN e /\ f.open = TRUE /\ f.textEmitted = TRUE
          /\ f.toolOrder = e.toolOrder
          /\ f.nextIndex = IF e.open THEN e.nextIndex ELSE e.nextIndex + 1
      BY <2>2 DEF TextWritten
    <3>2. f.nextIndex \in Nat
      BY <2>1, <3>1
    <3>3. DOMAIN f = ClaudeFields /\ IsSeq(f.toolOrder)
      BY <2>1, <3>1 DEF IsEncoder
    <3> QED BY <3>1, <3>2, <3>3 DEF IsEncoder
  <2>4. \E read, key, m : /\ read = Read(bl, step.out) /\ IsSeq(step.out) /\ BlocksFollow(bl, read)
                          /\ DOMAIN read = DOMAIN bl \cup {key} /\ key = TextKey(f)
                          /\ m \in Nat /\ read[key] = TextShown(m, FALSE)
    <3>1. CASE e.open
      <4>a. PICK key, more : key = TextKey(e) /\ more = Appends(key, None, pieces)
        OBVIOUS
      <4>1. step.out = <<more>>
        BY <2>2, <3>1, <4>a DEF TextOut
      <4>2. PICK n \in Nat : key \in DOMAIN bl /\ bl[key] = TextShown(n, FALSE)
        BY <3>1, <4>a DEF ClaudeShows
      <4>b. PICK read : read = ReadOne(bl, more)
        OBVIOUS
      <4>3. Changes(bl, read, key, TextShown(n + pieces, FALSE))
        BY <4>2, <4>a, <4>b, BlockAppends DEF TextShown
      <4>4. /\ DOMAIN read = DOMAIN bl \cup {key} /\ read[key] = TextShown(n + pieces, FALSE)
            /\ \A other \in DOMAIN bl : other # key => read[other] = bl[other]
        BY <4>3 DEF Changes
      <4>5. TextGrows(bl[key], read[key])
        <5>1. n + pieces \in Nat /\ n <= n + pieces /\ FALSE \in BOOLEAN
          OBVIOUS
        <5> QED BY <4>2, <4>4, <5>1 DEF TextGrows
      <4>6. BlocksFollow(bl, read)
        BY <4>2, <4>4, <4>5 DEF BlocksFollow
      <4>7. read = Read(bl, step.out) /\ IsSeq(step.out)
        BY <4>1, <4>b, ReadOneOnly, OneIsSeq
      <4>8. key = TextKey(f)
        BY <2>3, <3>1, <4>a DEF TextKey
      <4>9. n + pieces \in Nat
        OBVIOUS
      <4> QED BY <4>4, <4>6, <4>7, <4>8, <4>9
    <3>2. CASE ~e.open
      <4>a. PICK key, opens, more : /\ key = Block("text", e.nextIndex)
                                    /\ opens = Opens(key, "text", None)
                                    /\ more = Appends(key, None, pieces)
        OBVIOUS
      <4>b. PICK b, read : b = ReadOne(bl, opens) /\ read = ReadOne(b, more)
        OBVIOUS
      <4>1. step.out = <<opens>> \o <<more>>
        BY <2>2, <3>2, <4>a DEF TextOut
      <4>2. read = Read(bl, step.out) /\ IsSeq(step.out)
        <5>1. Read(bl, <<opens>> \o <<more>>) = ReadOne(b, more) /\ IsSeq(<<opens>> \o <<more>>)
          BY <4>b, ReadTwo
        <5> QED BY <4>1, <4>b, <5>1
      <4>3. key \notin DOMAIN bl
        BY <4>a, NewKey
      <4>4. Changes(bl, b, key, BlockShown("text", None, 0, FALSE))
        BY <4>3, <4>a, <4>b, BlockOpens
      <4>5. key \in DOMAIN b /\ b[key] = BlockShown("text", None, 0, FALSE)
        BY <4>4 DEF Changes
      <4>6. PICK n : n \in Nat /\ b[key] = BlockShown("text", None, n, FALSE)
        BY <4>5
      <4>7. Changes(b, read, key, BlockShown("text", None, n + pieces, FALSE))
        BY <4>5, <4>6, <4>a, <4>b, BlockAppends
      <4>8. Changes(bl, read, key, TextShown(n + pieces, FALSE))
        <5>1. PICK x, y : /\ x = BlockShown("text", None, 0, FALSE)
                          /\ y = BlockShown("text", None, n + pieces, FALSE)
          OBVIOUS
        <5>2. Changes(bl, b, key, x) /\ Changes(b, read, key, y)
          BY <4>4, <4>7, <5>1
        <5>3. Changes(bl, read, key, y)
          BY <5>2, ChangesTwice
        <5> QED BY <5>1, <5>3 DEF TextShown
      <4>9. /\ DOMAIN read = DOMAIN bl \cup {key} /\ read[key] = TextShown(n + pieces, FALSE)
            /\ \A other \in DOMAIN bl : read[other] = bl[other]
        BY <4>3, <4>8 DEF Changes
      <4>10. BlocksFollow(bl, read)
        BY <4>9 DEF BlocksFollow, TextShown, BlockShown
      <4>11. key = TextKey(f)
        <5>1. f.nextIndex - 1 = e.nextIndex
          BY <2>1, <2>3, <3>2
        <5> QED BY <5>1, <4>a DEF TextKey
      <4>12. n + pieces \in Nat
        BY <4>6
      <4> QED BY <4>2, <4>9, <4>10, <4>11, <4>12
    <3> QED BY <3>1, <3>2
  <2>5. PICK read, key, m : /\ read = Read(bl, step.out) /\ IsSeq(step.out) /\ BlocksFollow(bl, read)
                            /\ DOMAIN read = DOMAIN bl \cup {key} /\ key = TextKey(f)
                            /\ m \in Nat /\ read[key] = TextShown(m, FALSE)
    BY <2>4
  <2>6. key[2] = f.nextIndex - 1
    BY <2>5 DEF TextKey, Block
  <2>7. f.nextIndex \in Nat /\ e.nextIndex <= f.nextIndex /\ key[2] \in Nat /\ key[2] < f.nextIndex
    <3>1. CASE e.open
      <4>1. key[2] = TextKey(e)[2] /\ TextKey(e) \in DOMAIN bl
        BY <2>3, <2>6, <3>1 DEF ClaudeShows, TextKey, Block
      <4>2. key[2] \in Nat
        BY <4>1 DEF ClaudeShows
      <4> QED BY <2>1, <2>3, <2>6, <3>1, <4>2
    <3>2. CASE ~e.open
      BY <2>1, <2>3, <2>6, <3>2
    <3> QED BY <3>1, <3>2
  <2>8. \A other \in DOMAIN read : other[2] \in Nat /\ other[2] < f.nextIndex
    <3>1. \A other \in DOMAIN bl : other[2] \in Nat /\ other[2] < e.nextIndex
      BY DEF ClaudeShows
    <3> QED BY <2>1, <2>5, <2>7, <3>1
  <2>9. ClaudeShows(f, read)
    BY <2>3, <2>5, <2>8 DEF ClaudeShows
  <2> QED BY <2>2, <2>5, <2>9, <2>a DEF Leads
<1> QED BY <1>0, <1>1

\* A text that is shown at once.
LEMMA WholeTextLeads ==
  ASSUME NEW e, NEW bl, ClaudeShows(e, bl), e.open = FALSE, NEW pieces,
         NEW step, step = Then(EmitText(e, pieces), CloseBlock)
  PROVE  Leads(bl, step) /\ step.encoder.open = FALSE
<1>a. PICK text, f, next : text = EmitText(e, pieces) /\ f = text.encoder /\ next = CloseBlock(f)
  OBVIOUS
<1>1. step = [next EXCEPT !.out = text.out \o next.out] /\ Chains(text, next, step)
  BY <1>a DEF Then, Chains
<1>2. CASE pieces = 0
  <2>1. text = Nothing(e)
    BY <1>2, <1>a DEF EmitText
  <2>2. Leads(bl, text) /\ f = e /\ Read(bl, text.out) = bl
    BY <1>a, <2>1, NothingLeads
  <2>3. Leads(bl, next) /\ next.encoder.open = FALSE
    BY <1>a, <2>2, CloseLeads
  <2>4. Leads(Read(bl, text.out), next)
    BY <2>2, <2>3
  <2>5. Leads(bl, text)
    BY <2>2
  <2>6. Leads(bl, step) /\ step.encoder = next.encoder
    BY <1>1, <2>4, <2>5, ThenLeads
  <2> QED BY <2>3, <2>6
<1>3. CASE pieces # 0
  <2>1. IsEncoder(e) /\ e.nextIndex \in Nat
    BY DEF ClaudeShows, IsEncoder
  <2>2. TextWritten(e, f) /\ text.out = TextOut(e, pieces)
    BY <1>3, <1>a, <2>1, EmitTextIs
  <2>b. PICK g, key : g = [f EXCEPT !.open = FALSE] /\ key = Block("text", e.nextIndex)
    OBVIOUS
  <2>3. f.nextIndex = e.nextIndex + 1 /\ f.open = TRUE /\ DOMAIN f = ClaudeFields
    BY <2>1, <2>2 DEF TextWritten, IsEncoder
  <2>4. f.nextIndex - 1 = e.nextIndex
    BY <2>1, <2>3
  <2>5. next = [encoder |-> g, out |-> <<Closes(key, None)>>]
    BY <1>a, <2>3, <2>4, <2>b DEF CloseBlock
  <2>6. IsStep(next) /\ next.encoder = g /\ next.out = <<Closes(key, None)>>
    BY <2>5 DEF IsStep
  <2>c. PICK out : out = text.out \o next.out
    OBVIOUS
  <2>7. IsStep(step) /\ step.encoder = g /\ step.out = out
    <3>1. step = [next EXCEPT !.out = out]
      BY <1>1, <2>c
    <3>2. IsStep(step) /\ step.encoder = next.encoder /\ step.out = out
      BY <2>6, <3>1, ThenIs
    <3> QED BY <2>6, <3>2
  <2>d. PICK middle : middle = <<Appends(key, None, pieces)>>
    OBVIOUS
  <2>8. out = WholeOut(key, "text", None, middle)
    BY <2>2, <2>6, <2>b, <2>c, <2>d DEF TextOut, WholeOut
  <2>9. IsEncoder(g) /\ g.open = FALSE /\ g.nextIndex = e.nextIndex + 1
    <3>1. f.textEmitted = TRUE /\ f.toolOrder = e.toolOrder
      BY <2>2 DEF TextWritten
    <3>2. /\ DOMAIN g = ClaudeFields /\ g.open = FALSE /\ g.nextIndex = e.nextIndex + 1
          /\ g.textEmitted = TRUE /\ g.toolOrder = e.toolOrder
      BY <2>3, <2>b, <3>1 DEF ClaudeFields
    <3>3. g.nextIndex \in Nat /\ IsSeq(g.toolOrder)
      BY <2>1, <3>2 DEF IsEncoder
    <3> QED BY <3>2, <3>3 DEF IsEncoder
  <2>10. middle = <<>> \/ \E other, more : middle = <<Appends(Block("text", e.nextIndex), other, more)>>
    BY <2>b, <2>d
  <2>11. step.out = WholeOut(Block("text", e.nextIndex), "text", None, middle)
    BY <2>7, <2>8, <2>b
  <2> QED BY <2>7, <2>9, <2>10, <2>11, NewBlockLeads
<1> QED BY <1>2, <1>3
-----------------------------------------------------------------------------
(* Thinking and searches.                                                  *)

LEMMA ThinkingLeads ==
  ASSUME NEW e, NEW bl, ClaudeShows(e, bl), NEW size, NEW signed,
         NEW step, step = CompleteThinking(e, size, signed)
  PROVE  Leads(bl, step)
<1>1. CASE e.thinkEmitted \/ ~signed
  <2>1. step = Nothing(e)
    BY <1>1 DEF CompleteThinking
  <2> QED BY <2>1, NothingLeads
<1>2. CASE ~(e.thinkEmitted \/ ~signed)
  <2>a. PICK closing, f, pieces, whole, both, g, last :
          /\ closing = CloseBlock(e) /\ f = closing.encoder
          /\ pieces = (IF f.thinkDeltas > 0 THEN f.thinkDeltas ELSE size)
          /\ whole = WholeBlock(f, "thinking", None, pieces)
          /\ both = [whole EXCEPT !.out = closing.out \o @]
          /\ g = [both.encoder EXCEPT !.thinkDeltas = 0, !.thinkEmitted = TRUE]
          /\ last = Nothing(g)
    OBVIOUS
  <2>1. Chains(closing, whole, both) /\ Chains(both, last, step)
    BY <1>2, <2>a DEF CompleteThinking, Then, Chains
  <2>2. Leads(bl, closing) /\ f.open = FALSE
    BY <2>a, CloseLeads
  <2>b. PICK b : b = Read(bl, closing.out)
    OBVIOUS
  <2>3. ClaudeShows(f, b)
    BY <2>2, <2>a, <2>b DEF Leads
  <2>4. Leads(b, whole)
    BY <2>2, <2>3, <2>a, WholeLeads
  <2>5. Leads(bl, both)
    BY <2>1, <2>2, <2>4, <2>b, ThenLeads
  <2>c. PICK c, h : c = Read(bl, both.out) /\ h = both.encoder
    OBVIOUS
  <2>6. ClaudeShows(h, c)
    BY <2>5, <2>c DEF Leads
  <2>7. SameMarks(h, g)
    <3>a. PICK k : k = [h EXCEPT !["thinkDeltas"] = 0]
      OBVIOUS
    <3>1. g = [k EXCEPT !["thinkEmitted"] = TRUE]
      BY <2>a, <2>c, <3>a
    <3>2. DOMAIN h = ClaudeFields
      BY <2>6 DEF ClaudeShows, IsEncoder
    <3>3. SameMarks(h, k) /\ DOMAIN k = ClaudeFields
      <4>1. "thinkDeltas" \in ClaudeFields \ {"nextIndex", "open", "textEmitted", "toolOrder"}
        BY DEF ClaudeFields
      <4> QED BY <3>2, <3>a, <4>1, FieldMarks
    <3>4. SameMarks(k, g)
      <4>1. "thinkEmitted" \in ClaudeFields \ {"nextIndex", "open", "textEmitted", "toolOrder"}
        BY DEF ClaudeFields
      <4> QED BY <3>1, <3>3, <4>1, FieldMarks
    <3> QED BY <3>3, <3>4, SameMarksTwice
  <2>8. Leads(c, last)
    BY <2>6, <2>7, <2>a, NothingMarks
  <2> QED BY <2>1, <2>5, <2>8, <2>c, ThenLeads
<1> QED BY <1>1, <1>2

LEMMA SearchLeads ==
  ASSUME NEW e, NEW bl, ClaudeShows(e, bl), NEW item, NEW step, step = CompleteWebSearch(e, item)
  PROVE  Leads(bl, step)
<1>1. CASE item.status \notin {"", "completed"} \/ item.id \in e.webSearchDone
  <2>1. step = Nothing(e)
    BY <1>1 DEF CompleteWebSearch
  <2> QED BY <2>1, NothingLeads
<1>2. CASE ~(item.status \notin {"", "completed"} \/ item.id \in e.webSearchDone)
  <2>a. PICK d, closing, f, use, both, g, last :
          /\ d = [e EXCEPT !.webSearchDone = @ \cup {item.id}]
          /\ closing = CloseBlock(d) /\ f = closing.encoder
          /\ use = WholeBlock(f, "search", item.id, item.size)
          /\ both = [use EXCEPT !.out = closing.out \o @]
          /\ g = both.encoder
          /\ last = WholeBlock(g, "result", item.id, 0)
    OBVIOUS
  <2>1. Chains(closing, use, both) /\ Chains(both, last, step)
    BY <1>2, <2>a DEF CompleteWebSearch, Then, Chains
  <2>2. ClaudeShows(d, bl)
    <3>1. DOMAIN e = ClaudeFields
      BY DEF ClaudeShows, IsEncoder
    <3>a. PICK x : x = e.webSearchDone \cup {item.id}
      OBVIOUS
    <3>2. d = [e EXCEPT !["webSearchDone"] = x]
      BY <2>a, <3>a
    <3>3. "webSearchDone" \in ClaudeFields \ {"nextIndex", "open", "textEmitted", "toolOrder"}
      BY DEF ClaudeFields
    <3>4. SameMarks(e, d)
      BY <3>1, <3>2, <3>3, FieldMarks
    <3> QED BY <3>4, MarksShow
  <2>3. Leads(bl, closing) /\ f.open = FALSE
    BY <2>2, <2>a, CloseLeads
  <2>b. PICK b : b = Read(bl, closing.out)
    OBVIOUS
  <2>4. ClaudeShows(f, b)
    BY <2>3, <2>a, <2>b DEF Leads
  <2>5. Leads(b, use) /\ use.encoder.open = FALSE
    <3>1. PICK id, size, kind : use = WholeBlock(f, kind, id, size)
      BY <2>a
    <3>2. f.open = FALSE /\ ClaudeShows(f, b)
      BY <2>3, <2>4
    <3> QED BY <3>1, <3>2, WholeLeads
  <2>6. Leads(bl, both) /\ g = use.encoder
    <3>1. Leads(Read(bl, closing.out), use)
      BY <2>5, <2>b
    <3>2. Leads(bl, both) /\ both.encoder = use.encoder
      BY <2>1, <2>3, <3>1, ThenLeads
    <3> QED BY <2>a, <3>2
  <2>c. PICK c : c = Read(bl, both.out)
    OBVIOUS
  <2>7. ClaudeShows(g, c) /\ g.open = FALSE
    BY <2>5, <2>6, <2>a, <2>c DEF Leads
  <2>8. Leads(c, last)
    BY <2>7, <2>a, WholeLeads
  <2> QED BY <2>1, <2>6, <2>8, <2>c, ThenLeads
<1> QED BY <1>1, <1>2
-----------------------------------------------------------------------------
(* Tools.                                                                  *)

LEMMA MarksLead ==
  ASSUME NEW bl, NEW block, Leads(bl, block), NEW step, IsStep(step), step.out = block.out,
         SameMarks(block.encoder, step.encoder)
  PROVE  Leads(bl, step)
<1>1. ClaudeShows(block.encoder, Read(bl, step.out))
  BY DEF Leads
<1>2. ClaudeShows(step.encoder, Read(bl, step.out))
  BY <1>1, MarksShow
<1> QED BY <1>2 DEF Leads

\* What a tool's block leaves in the marks of the tools.
Sent(block, step, i, j, x, y, z) ==
  step = [block EXCEPT !.encoder.toolSent[i] = x, !.encoder.toolSent[j] = y,
                       !.encoder.toolDeltas[i] = z]

LEMMA SentMarks ==
  ASSUME NEW block, IsStep(block), DOMAIN block.encoder = ClaudeFields,
         NEW i, NEW j, NEW x, NEW y, NEW z, NEW step, Sent(block, step, i, j, x, y, z)
  PROVE  IsStep(step) /\ step.out = block.out /\ SameMarks(block.encoder, step.encoder)
<1>a. PICK e, out : block = [encoder |-> e, out |-> out] /\ e = block.encoder /\ out = block.out
  BY DEF IsStep
<1>b. PICK f : f = [e EXCEPT !.toolSent[i] = x]
  OBVIOUS
<1>c. PICK g : g = [f EXCEPT !.toolSent[j] = y]
  OBVIOUS
<1>d. PICK h : h = [g EXCEPT !.toolDeltas[i] = z]
  OBVIOUS
<1>1. step = [encoder |-> h, out |-> out]
  BY <1>a, <1>b, <1>c, <1>d DEF Sent
<1>2. PICK sent : f = [e EXCEPT !["toolSent"] = sent]
  BY <1>b
<1>3. PICK more : g = [f EXCEPT !["toolSent"] = more]
  BY <1>c
<1>4. PICK held : h = [g EXCEPT !["toolDeltas"] = held]
  BY <1>d
<1>5. /\ "toolSent" \in ClaudeFields \ {"nextIndex", "open", "textEmitted", "toolOrder"}
      /\ "toolDeltas" \in ClaudeFields \ {"nextIndex", "open", "textEmitted", "toolOrder"}
  BY DEF ClaudeFields
<1>6. SameMarks(e, f)
  BY <1>2, <1>5, <1>a, FieldMarks
<1>7. DOMAIN f = ClaudeFields
  BY <1>6, <1>a DEF SameMarks
<1>8. SameMarks(f, g)
  BY <1>3, <1>5, <1>7, FieldMarks
<1>9. DOMAIN g = ClaudeFields
  BY <1>7, <1>8 DEF SameMarks
<1>10. SameMarks(g, h)
  BY <1>4, <1>5, <1>9, FieldMarks
<1>11. SameMarks(e, h)
  BY <1>6, <1>8, <1>10, SameMarksTwice
<1>12. step.encoder = h /\ step.out = out
  <2>1. PICK s : s = [encoder |-> h, out |-> out] /\ s = step
    BY <1>1
  <2>2. s.encoder = h /\ s.out = out
    BY <2>1
  <2> QED BY <2>1, <2>2
<1>13. IsStep(step)
  BY <1>1, <1>12 DEF IsStep
<1> QED BY <1>11, <1>12, <1>13, <1>a

LEMMA ToolLeads ==
  ASSUME NEW e, NEW bl, ClaudeShows(e, bl), e.open = FALSE, NEW a, NEW id,
         NEW step, step = EmitTool(e, a, id)
  PROVE  Leads(bl, step) /\ step.encoder.open = FALSE
<1> DEFINE call == a.calls[e.toolStates[id]]
           sent == IF id = call.call THEN e.toolDeltas[id] ELSE 0
           rest == IF call.size > sent THEN call.size - sent ELSE 0
           block == WholeBlock(e, "tool", call.call, e.toolDeltas[id] + rest)
<1>1. step = IF e.toolSent[id] >= 0 \/ e.toolStates[id] = 0 \/ id \notin e.toolDone THEN Nothing(e)
             ELSE [block EXCEPT !.encoder.toolSent[id] = IF e.toolDeltas[id] > 0 THEN e.toolDeltas[id] ELSE @,
                                !.encoder.toolSent[call.call] = IF rest > 0 THEN call.size ELSE sent,
                                !.encoder.toolDeltas[id] = 0]
  BY DEF EmitTool
<1>b. \E kind, name, pieces : block = WholeBlock(e, kind, name, pieces)
  OBVIOUS
<1> HIDE DEF block, rest, sent, call
<1>2. CASE e.toolSent[id] >= 0 \/ e.toolStates[id] = 0 \/ id \notin e.toolDone
  <2>1. step = Nothing(e)
    BY <1>1, <1>2
  <2>2. Leads(bl, step) /\ step.encoder = e
    BY <2>1, NothingLeads
  <2> QED BY <2>2
<1>3. CASE ~(e.toolSent[id] >= 0 \/ e.toolStates[id] = 0 \/ id \notin e.toolDone)
  <2>a. PICK x, y, i, j, z :
          /\ x = IF e.toolDeltas[id] > 0 THEN e.toolDeltas[id] ELSE block.encoder.toolSent[id]
          /\ y = IF rest > 0 THEN call.size ELSE sent
          /\ i = id /\ j = call.call /\ z = 0
    OBVIOUS
  <2>1. step = [block EXCEPT !.encoder.toolSent[i] = x, !.encoder.toolSent[j] = y,
                             !.encoder.toolDeltas[i] = z]
    BY <1>1, <1>3, <2>a
  <2>b. PICK kind, name, pieces : block = WholeBlock(e, kind, name, pieces)
    BY <1>b
  <2>2. Leads(bl, block) /\ block.encoder.open = FALSE
    BY <2>b, WholeLeads
  <2>3. IsStep(block) /\ DOMAIN block.encoder = ClaudeFields
    BY <2>2 DEF Leads, ClaudeShows, IsEncoder
  <2>4. IsStep(step) /\ step.out = block.out /\ SameMarks(block.encoder, step.encoder)
    <3>1. Sent(block, step, i, j, x, y, z)
      BY <2>1 DEF Sent
    <3> QED BY <2>3, <3>1, SentMarks
  <2>5. Leads(bl, step)
    BY <2>2, <2>4, MarksLead
  <2> QED BY <2>2, <2>4, <2>5 DEF SameMarks
<1> QED BY <1>2, <1>3

LEMMA RegisterMarks ==
  ASSUME NEW e, DOMAIN e = ClaudeFields, NEW a, NEW n, NEW f, f = RegisterTool(e, a, n)
  PROVE  SameMarks(e, f)
<1>a. PICK id : id = a.calls[n].call
  OBVIOUS
<1>b. PICK order : order = IF e.toolStates[id] = 0 THEN Append(e.toolOrder, id) ELSE e.toolOrder
  OBVIOUS
<1>c. PICK g : g = [e EXCEPT !["toolOrder"] = order]
  OBVIOUS
<1>1. order = e.toolOrder \/ order = Append(e.toolOrder, id)
  BY <1>b
<1>2. IsSeq(e.toolOrder) => IsSeq(order)
  <2> SUFFICES ASSUME IsSeq(e.toolOrder) PROVE IsSeq(order)
    OBVIOUS
  <2>1. CASE order = e.toolOrder
    BY <2>1
  <2>2. CASE order = Append(e.toolOrder, id)
    <3>a. PICK s : s = e.toolOrder
      OBVIOUS
    <3>1. PICK S : s \in Seq(S)
      BY <3>a DEF IsSeq
    <3>2. s \in Seq(S \cup {id})
      <4>1. S \subseteq S \cup {id}
        OBVIOUS
      <4> QED BY <3>1, <4>1, SubSequence
    <3>3. Append(s, id) \in Seq(S \cup {id})
      BY <3>2
    <3> QED BY <2>2, <3>3, <3>a DEF IsSeq
  <2> QED BY <1>1, <2>1, <2>2
<1>3. SameMarks(e, g) /\ DOMAIN g = ClaudeFields
  BY <1>2, <1>c DEF SameMarks, ClaudeFields
<1>d. PICK states : states = [g.toolStates EXCEPT ![id] = n]
  OBVIOUS
<1>e. f = [g EXCEPT !["toolStates"] = states]
  <2>1. f = [[e EXCEPT !.toolOrder = order] EXCEPT !.toolStates[id] = n]
    BY <1>a, <1>b DEF RegisterTool
  <2> QED BY <1>c, <1>d, <2>1
<1>4. "toolStates" \in ClaudeFields \ {"nextIndex", "open", "textEmitted", "toolOrder"}
  BY DEF ClaudeFields
<1>5. SameMarks(g, f)
  <2>1. PICK h : h = [g EXCEPT !["toolStates"] = states]
    OBVIOUS
  <2>2. SameMarks(g, h)
    BY <1>3, <1>4, <2>1, FieldMarks
  <2> QED BY <1>e, <2>1, <2>2
<1> QED BY <1>3, <1>5, SameMarksTwice
-----------------------------------------------------------------------------
(* One tool, search or call after the other.                               *)

ToolNext(a, step, id) == [EmitTool(step.encoder, a, id) EXCEPT !.out = step.out \o @]

SearchNext(step, item) == [CompleteWebSearch(step.encoder, item) EXCEPT !.out = step.out \o @]

SettleNext(a, e, n) ==
  IF Executable(a, a.calls[n])
  THEN [RegisterTool(e, a, n) EXCEPT !.toolDone = @ \cup {a.calls[n].call}]
  ELSE [e EXCEPT !.toolStates[a.calls[n].call] = 0]

ClaudeNext(k, a, step, x) ==
  CASE k = "tool" -> ToolNext(a, step, x)
    [] k = "search" -> SearchNext(step, x)
    [] k = "settle" -> SettleNext(a, step, x)

\* The steps, the folds they are defined by, and where they lead.
IsClaudeFold(x, k, a, base, items) ==
  /\ x[0] = base
  /\ \A n \in 1 .. Len(items) : x[n] = ClaudeNext(k, a, x[n - 1], items[n])

FoldsClaude(g, k, a, base, items) ==
  g = [s \in SUBSET (1 .. Len(items)) |->
         IF s = {} THEN base ELSE ClaudeNext(k, a, g[s \ {Max(s)}], items[Max(s)])]

FoldsTo(last, k, a, base, items) ==
  \E x : IsClaudeFold(x, k, a, base, items) /\ last = x[Len(items)]

LEMMA ClaudeFoldExists ==
  ASSUME NEW k, NEW a, NEW base, NEW S, NEW items \in Seq(S)
  PROVE  \E g : FoldsClaude(g, k, a, base, items)
<1> DEFINE Step(f, s) == IF s = {} THEN base ELSE ClaudeNext(k, a, f[s \ {Max(s)}], items[Max(s)])
           IsFold(f, m) == f = [s \in SUBSET (1 .. m) |-> Step(f, s)]
           T == {m \in Nat : \E f : IsFold(f, m)}
<1>1. 0 \in T
  <2> DEFINE f == [s \in SUBSET (1 .. 0) |-> base]
  <2>1. \A s \in SUBSET (1 .. 0) : s = {}
    OBVIOUS
  <2>2. f = [s \in SUBSET (1 .. 0) |-> Step(f, s)]
    BY <2>1
  <2> QED BY <2>2
<1>2. ASSUME NEW m \in Nat, m \in T PROVE m + 1 \in T
  <2>1. PICK f : IsFold(f, m)
    BY <1>2
  <2> DEFINE g == [s \in SUBSET (1 .. m + 1) |-> Step(f, s)]
  <2>2. ASSUME NEW s \in SUBSET (1 .. m + 1) PROVE g[s] = Step(g, s)
    <3>1. CASE s = {}
      BY <3>1
    <3>2. CASE s # {}
      <4> DEFINE top == Max(s)
                 rest == s \ {top}
      <4>1. rest \in SUBSET (1 .. top - 1) /\ top \in 1 .. m + 1
        BY <3>2, WithoutMax
      <4> HIDE DEF top
      <4>2. 1 .. top - 1 \subseteq 1 .. m
        BY <4>1
      <4>3. rest \in SUBSET (1 .. m)
        BY <4>1, <4>2
      <4>4. rest \in SUBSET (1 .. m + 1)
        OBVIOUS
      <4> HIDE DEF rest
      <4>5. f[rest] = Step(f, rest) /\ g[rest] = Step(f, rest)
        BY <2>1, <4>3, <4>4
      <4>6. Step(f, s) = Step(g, s)
        BY <3>2, <4>5 DEF rest, top
      <4> QED BY <4>6
    <3> QED BY <3>1, <3>2
  <2>3. g = [s \in SUBSET (1 .. m + 1) |-> Step(g, s)]
    BY <2>2
  <2> HIDE DEF g, Step
  <2> QED BY <2>3
<1>3. Nat \subseteq T
  <2> HIDE DEF T
  <2> QED BY <1>1, <1>2, Induction
<1>4. Len(items) \in Nat
  OBVIOUS
<1> QED BY <1>3, <1>4 DEF FoldsClaude

LEMMA ClaudeFoldIs ==
  ASSUME NEW k, NEW a, NEW base, NEW S, NEW items \in Seq(S), NEW N, N = Len(items),
         NEW iter, FoldsClaude(iter, k, a, base, items)
  PROVE  FoldsTo(iter[1 .. N], k, a, base, items)
<1>0. N \in Nat /\ DOMAIN items = 1 .. N
  OBVIOUS
<1>3. /\ {} \in SUBSET (1 .. N) /\ iter[{}] = base
      /\ \A s \in SUBSET (1 .. N) : s # {} =>
           iter[s] = ClaudeNext(k, a, iter[s \ {Max(s)}], items[Max(s)])
  BY DEF FoldsClaude
<1> DEFINE x == [n \in 0 .. N |-> iter[1 .. n]]
<1>4. ASSUME NEW n \in 1 .. N PROVE x[n] = ClaudeNext(k, a, x[n - 1], items[n])
  <2>1. Max(1 .. n) = n /\ (1 .. n) \ {n} = 1 .. n - 1
    BY <1>0, MaxOfFirst
  <2>2. 1 .. n \in SUBSET (1 .. N) /\ 1 .. n # {}
    <3>1. n \in Nat /\ n >= 1 /\ n <= N
      BY <1>0
    <3>2. 1 .. n \subseteq 1 .. N /\ n \in 1 .. n
      BY <1>0, <3>1
    <3> QED BY <3>2
  <2>3. iter[1 .. n] = ClaudeNext(k, a, iter[1 .. n - 1], items[n])
    BY <1>3, <2>1, <2>2
  <2>4. n \in 0 .. N /\ n - 1 \in 0 .. N
    BY <1>0
  <2> QED BY <2>3, <2>4
<1>5. x[0] = base /\ x[N] = iter[1 .. N]
  <2>1. 1 .. 0 = {}
    OBVIOUS
  <2>2. 0 \in 0 .. N /\ N \in 0 .. N
    BY <1>0
  <2> QED BY <1>3, <2>1, <2>2
<1> HIDE DEF x
<1>6. IsClaudeFold(x, k, a, base, items) /\ iter[1 .. N] = x[Len(items)]
  BY <1>4, <1>5 DEF IsClaudeFold
<1> QED BY <1>6 DEF FoldsTo

\* The folds over tools, searches and calls.
FoldedTools(a, base, items) ==
  FoldLeft(LAMBDA step, id : Then(step, LAMBDA f : EmitTool(f, a, id)), base, items)

FoldedSearches(base, items) ==
  FoldLeft(LAMBDA step, item : Then(step, LAMBDA f : CompleteWebSearch(f, item)), base, items)

FoldedCalls(a, base, items) ==
  FoldLeft(LAMBDA f, n : IF Executable(a, a.calls[n])
                         THEN [RegisterTool(f, a, n) EXCEPT !.toolDone = @ \cup {a.calls[n].call}]
                         ELSE [f EXCEPT !.toolStates[a.calls[n].call] = 0],
           base, items)

LEMMA ToolsFold ==
  ASSUME NEW a, NEW base, NEW S, NEW items \in Seq(S)
  PROVE  FoldsTo(FoldedTools(a, base, items), "tool", a, base, items)
<1> DEFINE N == Len(items)
           iter[s \in SUBSET (1 .. N)] ==
             IF s = {} THEN base ELSE ToolNext(a, iter[s \ {Max(s)}], items[Max(s)])
<1>0. N \in Nat /\ DOMAIN items = 1 .. N
  OBVIOUS
<1>1. FoldedTools(a, base, items) = iter[1 .. N]
  BY <1>0 DEF FoldedTools, FoldLeft, MapThenFoldSet, ToolNext, Then
<1>2. \E g : g = [s \in SUBSET (1 .. N) |-> IF s = {} THEN base ELSE ToolNext(a, g[s \ {Max(s)}], items[Max(s)])]
  <2>1. PICK g : FoldsClaude(g, "tool", a, base, items)
    BY ClaudeFoldExists
  <2>2. \A step, y : ClaudeNext("tool", a, step, y) = ToolNext(a, step, y)
    BY DEF ClaudeNext
  <2>3. g = [s \in SUBSET (1 .. N) |-> IF s = {} THEN base ELSE ToolNext(a, g[s \ {Max(s)}], items[Max(s)])]
    BY <2>1, <2>2 DEF FoldsClaude
  <2> QED BY <2>3
<1>3. iter = [s \in SUBSET (1 .. N) |-> IF s = {} THEN base ELSE ToolNext(a, iter[s \ {Max(s)}], items[Max(s)])]
  BY <1>2
<1>4. FoldsClaude(iter, "tool", a, base, items)
  BY <1>3 DEF FoldsClaude, ClaudeNext
<1> HIDE DEF iter, N
<1>5. PICK f, k, m : f = iter /\ k = "tool" /\ m = N /\ m = Len(items)
  BY DEF N
<1>6. FoldsClaude(f, k, a, base, items)
  BY <1>4, <1>5
<1>7. FoldsTo(f[1 .. m], k, a, base, items)
  BY <1>5, <1>6, ClaudeFoldIs
<1> QED BY <1>1, <1>5, <1>7

LEMMA SearchesFold ==
  ASSUME NEW a, NEW base, NEW S, NEW items \in Seq(S)
  PROVE  FoldsTo(FoldedSearches(base, items), "search", a, base, items)
<1> DEFINE N == Len(items)
           iter[s \in SUBSET (1 .. N)] ==
             IF s = {} THEN base ELSE SearchNext(iter[s \ {Max(s)}], items[Max(s)])
<1>0. N \in Nat /\ DOMAIN items = 1 .. N
  OBVIOUS
<1>1. FoldedSearches(base, items) = iter[1 .. N]
  BY <1>0 DEF FoldedSearches, FoldLeft, MapThenFoldSet, SearchNext, Then
<1>2. \E g : g = [s \in SUBSET (1 .. N) |-> IF s = {} THEN base ELSE SearchNext(g[s \ {Max(s)}], items[Max(s)])]
  <2>1. PICK g : FoldsClaude(g, "search", a, base, items)
    BY ClaudeFoldExists
  <2>2. \A step, y : ClaudeNext("search", a, step, y) = SearchNext(step, y)
    BY DEF ClaudeNext
  <2>3. g = [s \in SUBSET (1 .. N) |-> IF s = {} THEN base ELSE SearchNext(g[s \ {Max(s)}], items[Max(s)])]
    BY <2>1, <2>2 DEF FoldsClaude
  <2> QED BY <2>3
<1>3. iter = [s \in SUBSET (1 .. N) |-> IF s = {} THEN base ELSE SearchNext(iter[s \ {Max(s)}], items[Max(s)])]
  BY <1>2
<1>4. FoldsClaude(iter, "search", a, base, items)
  BY <1>3 DEF FoldsClaude, ClaudeNext
<1> HIDE DEF iter, N
<1>5. PICK f, k, m : f = iter /\ k = "search" /\ m = N /\ m = Len(items)
  BY DEF N
<1>6. FoldsClaude(f, k, a, base, items)
  BY <1>4, <1>5
<1>7. FoldsTo(f[1 .. m], k, a, base, items)
  BY <1>5, <1>6, ClaudeFoldIs
<1> QED BY <1>1, <1>5, <1>7

LEMMA CallsFold ==
  ASSUME NEW a, NEW base, NEW S, NEW items \in Seq(S)
  PROVE  FoldsTo(FoldedCalls(a, base, items), "settle", a, base, items)
<1> DEFINE N == Len(items)
           iter[s \in SUBSET (1 .. N)] ==
             IF s = {} THEN base ELSE SettleNext(a, iter[s \ {Max(s)}], items[Max(s)])
<1>0. N \in Nat /\ DOMAIN items = 1 .. N
  OBVIOUS
<1>1. FoldedCalls(a, base, items) = iter[1 .. N]
  BY <1>0 DEF FoldedCalls, FoldLeft, MapThenFoldSet, SettleNext
<1>2. \E g : g = [s \in SUBSET (1 .. N) |-> IF s = {} THEN base ELSE SettleNext(a, g[s \ {Max(s)}], items[Max(s)])]
  <2>1. PICK g : FoldsClaude(g, "settle", a, base, items)
    BY ClaudeFoldExists
  <2>2. \A step, y : ClaudeNext("settle", a, step, y) = SettleNext(a, step, y)
    BY DEF ClaudeNext
  <2>3. g = [s \in SUBSET (1 .. N) |-> IF s = {} THEN base ELSE SettleNext(a, g[s \ {Max(s)}], items[Max(s)])]
    BY <2>1, <2>2 DEF FoldsClaude
  <2> QED BY <2>3
<1>3. iter = [s \in SUBSET (1 .. N) |-> IF s = {} THEN base ELSE SettleNext(a, iter[s \ {Max(s)}], items[Max(s)])]
  BY <1>2
<1>4. FoldsClaude(iter, "settle", a, base, items)
  BY <1>3 DEF FoldsClaude, ClaudeNext
<1> HIDE DEF iter, N
<1>5. PICK f, k, m : f = iter /\ k = "settle" /\ m = N /\ m = Len(items)
  BY DEF N
<1>6. FoldsClaude(f, k, a, base, items)
  BY <1>4, <1>5
<1>7. FoldsTo(f[1 .. m], k, a, base, items)
  BY <1>5, <1>6, ClaudeFoldIs
<1> QED BY <1>1, <1>5, <1>7

\* The steps of a fold, one after the other.
LEMMA ToolNextLeads ==
  ASSUME NEW bl, NEW step, Leads(bl, step), step.encoder.open = FALSE, NEW a, NEW id,
         NEW both, both = ClaudeNext("tool", a, step, id)
  PROVE  Leads(bl, both) /\ both.encoder.open = FALSE
<1>1. PICK e, b, next : e = step.encoder /\ b = Read(bl, step.out) /\ next = EmitTool(e, a, id)
  OBVIOUS
<1>2. ClaudeShows(e, b)
  BY <1>1 DEF Leads
<1>3. Leads(b, next) /\ next.encoder.open = FALSE
  BY <1>1, <1>2, ToolLeads
<1>4. Chains(step, next, both)
  <2>1. both = ToolNext(a, step, id)
    BY DEF ClaudeNext
  <2> QED BY <1>1, <2>1 DEF ToolNext, Chains
<1> QED BY <1>1, <1>3, <1>4, ThenLeads

LEMMA SearchNextLeads ==
  ASSUME NEW bl, NEW step, Leads(bl, step), NEW a, NEW item,
         NEW both, both = ClaudeNext("search", a, step, item)
  PROVE  Leads(bl, both)
<1>1. PICK e, b, next : e = step.encoder /\ b = Read(bl, step.out) /\ next = CompleteWebSearch(e, item)
  OBVIOUS
<1>2. ClaudeShows(e, b)
  BY <1>1 DEF Leads
<1>3. Leads(b, next)
  BY <1>1, <1>2, SearchLeads
<1>4. Chains(step, next, both)
  <2>1. both = SearchNext(step, item)
    BY DEF ClaudeNext
  <2> QED BY <1>1, <2>1 DEF SearchNext, Chains
<1> QED BY <1>1, <1>3, <1>4, ThenLeads

\* A step that leaves no text open.
LeadsShut(bl, step) == Leads(bl, step) /\ step.encoder.open = FALSE

LEMMA ToolsLead ==
  ASSUME NEW bl, NEW base, Leads(bl, base), base.encoder.open = FALSE, NEW a,
         NEW S, NEW items \in Seq(S), NEW last, last = FoldedTools(a, base, items)
  PROVE  Leads(bl, last) /\ last.encoder.open = FALSE
<1>1. PICK x : IsClaudeFold(x, "tool", a, base, items) /\ last = x[Len(items)]
  BY ToolsFold DEF FoldsTo
<1>2. Len(items) \in Nat
  OBVIOUS
<1> DEFINE T == {n \in Nat : n <= Len(items) => LeadsShut(bl, x[n])}
<1>3. 0 \in T
  BY <1>1 DEF IsClaudeFold, LeadsShut
<1>4. ASSUME NEW n \in Nat, n \in T PROVE n + 1 \in T
  <2> SUFFICES ASSUME n + 1 <= Len(items)
               PROVE  LeadsShut(bl, x[n + 1])
    OBVIOUS
  <2>0. n <= Len(items) /\ n + 1 \in Nat
    BY <1>2
  <2>1. n \in Nat /\ LeadsShut(bl, x[n])
    BY <1>4, <2>0
  <2>2. n + 1 \in 1 .. Len(items) /\ (n + 1) - 1 = n
    BY <1>2, <2>0
  <2>3. x[n + 1] = ClaudeNext("tool", a, x[n], items[n + 1])
    BY <1>1, <2>2 DEF IsClaudeFold
  <2>4. PICK step, id, both : step = x[n] /\ id = items[n + 1] /\ both = x[n + 1]
    OBVIOUS
  <2>5. Leads(bl, step) /\ step.encoder.open = FALSE
    BY <2>1, <2>4 DEF LeadsShut
  <2>6. both = ClaudeNext("tool", a, step, id)
    BY <2>3, <2>4
  <2>7. Leads(bl, both) /\ both.encoder.open = FALSE
    BY <2>5, <2>6, ToolNextLeads
  <2> QED BY <2>4, <2>7 DEF LeadsShut
<1>5. Len(items) \in T
  <2> HIDE DEF T
  <2>1. Nat \subseteq T
    BY <1>3, <1>4, Induction
  <2> QED BY <1>2, <2>1
<1> QED BY <1>1, <1>2, <1>5 DEF LeadsShut

LEMMA SearchesLead ==
  ASSUME NEW bl, NEW base, Leads(bl, base),
         NEW S, NEW items \in Seq(S), NEW last, last = FoldedSearches(base, items)
  PROVE  Leads(bl, last)
<1>0. PICK a : a = base
  OBVIOUS
<1>1. PICK x : IsClaudeFold(x, "search", a, base, items) /\ last = x[Len(items)]
  BY SearchesFold DEF FoldsTo
<1>2. Len(items) \in Nat
  OBVIOUS
<1> DEFINE T == {n \in Nat : n <= Len(items) => Leads(bl, x[n])}
<1>3. 0 \in T
  BY <1>1 DEF IsClaudeFold
<1>4. ASSUME NEW n \in Nat, n \in T PROVE n + 1 \in T
  <2> SUFFICES ASSUME n + 1 <= Len(items)
               PROVE  Leads(bl, x[n + 1])
    OBVIOUS
  <2>0. n <= Len(items) /\ n + 1 \in Nat
    BY <1>2
  <2>1. n \in Nat /\ Leads(bl, x[n])
    BY <1>4, <2>0
  <2>2. n + 1 \in 1 .. Len(items) /\ (n + 1) - 1 = n
    BY <1>2, <2>0
  <2>3. x[n + 1] = ClaudeNext("search", a, x[n], items[n + 1])
    BY <1>1, <2>2 DEF IsClaudeFold
  <2> QED BY <2>1, <2>3, SearchNextLeads
<1>5. Len(items) \in T
  <2> HIDE DEF T
  <2>1. Nat \subseteq T
    BY <1>3, <1>4, Induction
  <2> QED BY <1>2, <2>1
<1> QED BY <1>1, <1>2, <1>5

LEMMA SettleMarks ==
  ASSUME NEW a, NEW e, DOMAIN e = ClaudeFields, NEW n, NEW f, f = ClaudeNext("settle", a, e, n)
  PROVE  SameMarks(e, f)
<1>0. f = SettleNext(a, e, n)
  BY DEF ClaudeNext
<1>1. CASE Executable(a, a.calls[n])
  <2>1. PICK g, x : g = RegisterTool(e, a, n) /\ x = g.toolDone \cup {a.calls[n].call}
    OBVIOUS
  <2>2. f = [g EXCEPT !["toolDone"] = x]
    BY <1>0, <1>1, <2>1 DEF SettleNext
  <2>3. SameMarks(e, g) /\ DOMAIN g = ClaudeFields
    BY <2>1, RegisterMarks DEF SameMarks
  <2>4. SameMarks(g, [g EXCEPT !["toolDone"] = x])
    BY <2>3, FieldMarks DEF ClaudeFields
  <2> QED BY <2>2, <2>3, <2>4, SameMarksTwice
<1>2. CASE ~Executable(a, a.calls[n])
  <2>1. PICK x : x = [e.toolStates EXCEPT ![a.calls[n].call] = 0]
    OBVIOUS
  <2>2. f = [e EXCEPT !["toolStates"] = x]
    BY <1>0, <1>2, <2>1 DEF SettleNext
  <2>4. SameMarks(e, [e EXCEPT !["toolStates"] = x])
    BY FieldMarks DEF ClaudeFields
  <2> QED BY <2>2, <2>4
<1> QED BY <1>1, <1>2

LEMMA CallsMark ==
  ASSUME NEW a, NEW e, DOMAIN e = ClaudeFields,
         NEW S, NEW items \in Seq(S), NEW last, last = FoldedCalls(a, e, items)
  PROVE  SameMarks(e, last)
<1>1. PICK x : IsClaudeFold(x, "settle", a, e, items) /\ last = x[Len(items)]
  BY CallsFold DEF FoldsTo
<1>2. Len(items) \in Nat
  OBVIOUS
<1> DEFINE T == {n \in Nat : n <= Len(items) => SameMarks(e, x[n])}
<1>3. 0 \in T
  BY <1>1 DEF IsClaudeFold, SameMarks
<1>4. ASSUME NEW n \in Nat, n \in T PROVE n + 1 \in T
  <2> SUFFICES ASSUME n + 1 <= Len(items)
               PROVE  SameMarks(e, x[n + 1])
    OBVIOUS
  <2>0. n <= Len(items) /\ n + 1 \in Nat
    BY <1>2
  <2>1. n \in Nat /\ SameMarks(e, x[n])
    BY <1>4, <2>0
  <2>2. n + 1 \in 1 .. Len(items) /\ (n + 1) - 1 = n
    BY <1>2, <2>0
  <2>3. x[n + 1] = ClaudeNext("settle", a, x[n], items[n + 1])
    BY <1>1, <2>2 DEF IsClaudeFold
  <2>4. DOMAIN x[n] = ClaudeFields
    BY <2>1 DEF SameMarks
  <2>5. SameMarks(x[n], x[n + 1])
    BY <2>3, <2>4, SettleMarks
  <2> QED BY <2>1, <2>5, SameMarksTwice
<1>5. Len(items) \in T
  <2> HIDE DEF T
  <2>1. Nat \subseteq T
    BY <1>3, <1>4, Induction
  <2> QED BY <1>2, <2>1
<1> QED BY <1>1, <1>2, <1>5

\* The tools that are reached are the first ones.
LEMMA ReachedIs ==
  ASSUME NEW e, IsSeq(e.toolOrder)
  PROVE  IsSeq(Reached(e))
<1>1. PICK S : e.toolOrder \in Seq(S)
  BY DEF IsSeq
<1> DEFINE order == e.toolOrder
           I == {n \in 1 .. Len(order) : Waiting(e, order[n])}
<1>2. SelectInSeq(order, LAMBDA id : Waiting(e, id)) = IF I # {} THEN Min(I) ELSE 0
  BY DEF SelectInSeq
<1>3. Len(order) \in Nat
  BY <1>1
<1>4. ASSUME I # {} PROVE Min(I) \in 1 .. Len(order)
  <2> HIDE DEF order
  <2>1. I \in SUBSET Nat
    BY <1>3
  <2>2. \E m \in I : \A n \in I : m <= n
    <3> HIDE DEF I
    <3> QED BY <1>4, <2>1, Least
  <2>3. Min(I) \in I
    <3> HIDE DEF I
    <3> QED BY <2>2 DEF Min
  <2> QED BY <2>3
<1>5. CASE I = {}
  <2>1. Reached(e) = order
    BY <1>2, <1>5 DEF Reached
  <2> QED BY <1>1, <2>1 DEF IsSeq
<1>6. CASE I # {}
  <2>1. PICK n : n = Min(I)
    OBVIOUS
  <2>2. n \in 1 .. Len(order)
    BY <1>4, <1>6, <2>1
  <2>3. SelectInSeq(order, LAMBDA id : Waiting(e, id)) = n
    BY <1>2, <1>6, <2>1
  <2>4. Reached(e) = SubSeq(order, 1, n - 1)
    <3> HIDE DEF I
    <3>1. n # 0
      BY <1>3, <2>2
    <3> QED BY <2>3, <3>1 DEF Reached
  <2>5. SubSeq(order, 1, n - 1) \in Seq(S)
    <3> HIDE DEF order, I
    <3>1. order \in Seq(S)
      BY <1>1 DEF order
    <3>2. n - 1 \in 0 .. Len(order) /\ 1 \in Nat
      BY <1>3, <2>2
    <3>3. \A m \in 1 .. n - 1 : m \in 1 .. Len(order)
      BY <1>3, <2>2
    <3> QED BY <3>1, <3>2, <3>3
  <2> QED BY <2>4, <2>5 DEF IsSeq
<1> QED BY <1>5, <1>6

LEMMA FlushLeads ==
  ASSUME NEW e, NEW bl, ClaudeShows(e, bl), NEW a, NEW step, step = FlushTools(e, a)
  PROVE  Leads(bl, step) /\ (e.open = FALSE => step.encoder.open = FALSE)
<1>1. e.open \in BOOLEAN /\ IsSeq(e.toolOrder)
  BY DEF ClaudeShows, IsEncoder
<1>2. CASE e.open
  <2>1. step = Nothing(e)
    BY <1>2 DEF FlushTools
  <2> QED BY <1>2, <2>1, NothingLeads
<1>3. CASE e.open = FALSE
  <2>1. PICK base, items : base = Nothing(e) /\ items = Reached(e)
    OBVIOUS
  <2>2. step = FoldedTools(a, base, items)
    BY <1>3, <2>1 DEF FlushTools, FoldedTools
  <2>3. Leads(bl, base) /\ base.encoder = e
    BY <2>1, NothingLeads
  <2>4. PICK S : items \in Seq(S)
    <3>1. IsSeq(items)
      BY <1>1, <2>1, ReachedIs
    <3> QED BY <3>1 DEF IsSeq
  <2> QED BY <1>3, <2>2, <2>3, <2>4, ToolsLead
<1> QED BY <1>1, <1>2, <1>3

\* A call is complete.
LEMMA CompleteLeads ==
  ASSUME NEW e, NEW bl, ClaudeShows(e, bl), NEW a, NEW n, NEW step, step = CompleteTool(e, a, n)
  PROVE  Leads(bl, step)
<1>1. PICK g, x, f : /\ g = RegisterTool(e, a, n) /\ x = g.toolDone \cup {a.calls[n].call}
                     /\ f = [g EXCEPT !["toolDone"] = x]
  OBVIOUS
<1>2. DOMAIN e = ClaudeFields
  BY DEF ClaudeShows, IsEncoder
<1>3. SameMarks(e, g) /\ DOMAIN g = ClaudeFields
  BY <1>1, <1>2, RegisterMarks DEF SameMarks
<1>4. SameMarks(g, [g EXCEPT !["toolDone"] = x])
  BY <1>3, FieldMarks DEF ClaudeFields
<1>5. SameMarks(e, f)
  BY <1>1, <1>3, <1>4, SameMarksTwice
<1>6. ClaudeShows(f, bl)
  BY <1>5, MarksShow
<1>7. step = FlushTools(f, a)
  BY <1>1 DEF CompleteTool
<1> QED BY <1>6, <1>7, FlushLeads

\* What the calls are settled to.
LEMMA SettledMarks ==
  ASSUME NEW a, NEW S, a.calls \in Seq(S), NEW e, DOMAIN e = ClaudeFields,
         NEW f, f = SettleTools(e, a)
  PROVE  SameMarks(e, f)
<1>1. PICK items : items = [n \in DOMAIN a.calls |-> n]
  OBVIOUS
<1>2. items \in Seq(Nat)
  <2>1. PICK m : m = Len(a.calls)
    OBVIOUS
  <2>2. m \in Nat /\ DOMAIN a.calls = 1 .. m
    BY <2>1
  <2>3. items = [n \in 1 .. m |-> n] /\ \A n \in 1 .. m : n \in Nat
    BY <1>1, <2>2
  <2> QED BY <2>2, <2>3
<1>3. f = FoldedCalls(a, e, items)
  BY <1>1 DEF SettleTools, FoldedCalls
<1> QED BY <1>2, <1>3, CallsMark

-----------------------------------------------------------------------------
(* What the final response has is a sequence.                              *)

LEMMA SortedIs ==
  ASSUME NEW outputs, IsSeq(outputs)
  PROVE  IsSeq(SortedOutputs(outputs))
<1>1. PICK m : m \in Nat /\ DOMAIN outputs = 1 .. m
  <2>1. PICK S : outputs \in Seq(S)
    BY DEF IsSeq
  <2> QED BY <2>1
<1>2. PICK p : SortedOutputs(outputs) = [k \in DOMAIN outputs |-> outputs[p[k]]]
  <2>1. PICK p : p = [k \in DOMAIN outputs |->
                 CHOOSE n \in DOMAIN outputs :
                   1 + Cardinality({j \in DOMAIN outputs :
                                      \/ outputs[j].index < outputs[n].index
                                      \/ outputs[j].index = outputs[n].index /\ j < n}) = k]
    OBVIOUS
  <2>2. SortedOutputs(outputs) = [k \in DOMAIN outputs |-> outputs[p[k]]]
    BY <2>1 DEF SortedOutputs
  <2> QED BY <2>2
<1>3. [k \in 1 .. m |-> outputs[p[k]]] \in Seq({outputs[p[k]] : k \in 1 .. m})
  BY <1>1
<1> QED BY <1>1, <1>2, <1>3 DEF IsSeq

LEMMA OutputIsSeq ==
  ASSUME NEW a, IsSeq(a.calls), IsSeq(a.outputs)
  PROVE  IsSeq(ResponsesOutput(a))
<1> DEFINE calls == [n \in DOMAIN a.calls |->
                  [index |-> a.calls[n].index,
                   item |-> ResponseOutputItem(a.calls[n], IF IsIncomplete(a)
                                                           THEN a.calls[n].status
                                                           ELSE "completed")]]
           outputs == [n \in DOMAIN a.outputs |->
                    [a.outputs[n] EXCEPT !.item = OutputMessage(a, @)]]
           message == [kind |-> "message", id |-> None, call |-> None, named |-> FALSE,
                  size |-> Text(a), signed |-> FALSE,
                  status |-> IF IsIncomplete(a) THEN "incomplete" ELSE "completed"]
           items == SortedOutputs(calls \o outputs)
<1>1. ResponsesOutput(a) = IF items # <<>> THEN [n \in DOMAIN items |-> items[n].item]
                           ELSE IF IsIncomplete(a) /\ Text(a) = 0 THEN <<>> ELSE <<message>>
  BY DEF ResponsesOutput
<1>2. ASSUME NEW s, IsSeq(s), NEW F PROVE IsSeq([n \in DOMAIN s |-> F[n]])
  <2>1. PICK m : m \in Nat /\ DOMAIN s = 1 .. m
    <3>1. PICK S : s \in Seq(S)
      BY <1>2 DEF IsSeq
    <3> QED BY <3>1
  <2>2. [n \in 1 .. m |-> F[n]] \in Seq({F[n] : n \in 1 .. m})
    BY <2>1
  <2> QED BY <2>1, <2>2 DEF IsSeq
<1>3. IsSeq(calls) /\ IsSeq(outputs)
  <2>1. IsSeq(calls)
    <3>1. PICK F : F = calls
      OBVIOUS
    <3>2. calls = [n \in DOMAIN a.calls |-> F[n]]
      BY <3>1
    <3> HIDE DEF calls
    <3> QED BY <1>2, <3>2
  <2>2. IsSeq(outputs)
    <3>1. PICK F : F = outputs
      OBVIOUS
    <3>2. outputs = [n \in DOMAIN a.outputs |-> F[n]]
      BY <3>1
    <3> HIDE DEF outputs
    <3> QED BY <1>2, <3>2
  <2> QED BY <2>1, <2>2
<1>4. IsSeq(items)
  <2> HIDE DEF calls, outputs
  <2>1. IsSeq(calls \o outputs)
    BY <1>3, SeqBoth
  <2> QED BY <2>1, SortedIs
<1>5. IsSeq([n \in DOMAIN items |-> items[n].item])
  <2> HIDE DEF items
  <2>1. PICK F : F = [n \in DOMAIN items |-> items[n].item]
    OBVIOUS
  <2>2. [n \in DOMAIN items |-> items[n].item] = [n \in DOMAIN items |-> F[n]]
    BY <2>1
  <2> QED BY <1>2, <1>4, <2>2
<1>6. IsSeq(<<>>) /\ IsSeq(<<message>>)
  <2> HIDE DEF message
  <2> QED BY OneIsSeq
<1> QED
  <2> HIDE DEF items, message
  <2> QED BY <1>1, <1>5, <1>6

-----------------------------------------------------------------------------
(* The end of a Messages stream.                                           *)

LEMMA HydrateTextLeads ==
  ASSUME NEW e, NEW bl, ClaudeShows(e, bl), NEW size, NEW step, step = HydrateText(e, size)
  PROVE  Leads(bl, step)
<1>1. CASE e.textEmitted
  <2>1. step = Nothing(e)
    BY <1>1 DEF HydrateText
  <2> QED BY <2>1, NothingLeads
<1>2. CASE ~e.textEmitted
  <2>1. step = Then(EmitText(e, size), CloseBlock)
    BY <1>2 DEF HydrateText
  <2>2. e.open = FALSE
    BY <1>2 DEF ClaudeShows, IsEncoder
  <2> QED BY <2>1, <2>2, WholeTextLeads
<1> QED BY <1>1, <1>2

\* The searches that the final response lists.
SearchesOf(output) ==
  FlattenSeq([n \in DOMAIN output |->
                IF output[n].kind = "search" THEN <<output[n]>> ELSE <<>>])

LEMMA SearchesAre ==
  ASSUME NEW output, IsSeq(output)
  PROVE  IsSeq(SearchesOf(output))
<1>1. PICK S : output \in Seq(S)
  BY DEF IsSeq
<1>2. PICK seqs : seqs = [n \in DOMAIN output |->
                            IF output[n].kind = "search" THEN <<output[n]>> ELSE <<>>]
  OBVIOUS
<1>3. seqs \in Seq(Seq(S))
  <2>1. PICK m : m \in Nat /\ DOMAIN output = 1 .. m /\ \A n \in 1 .. m : output[n] \in S
    BY <1>1
  <2>2. \A n \in 1 .. m : seqs[n] \in Seq(S)
    <3> SUFFICES ASSUME NEW n \in 1 .. m PROVE seqs[n] \in Seq(S)
      OBVIOUS
    <3>1. seqs[n] = IF output[n].kind = "search" THEN <<output[n]>> ELSE <<>>
      BY <1>2, <2>1
    <3>2. PICK item \in S : item = output[n]
      BY <2>1
    <3>3. <<item>> \in Seq(S) /\ <<>> \in Seq(S)
      OBVIOUS
    <3> QED BY <3>1, <3>2, <3>3
  <2>3. seqs = [n \in 1 .. m |-> seqs[n]]
    BY <1>2, <2>1
  <2>4. [n \in 1 .. m |-> seqs[n]] \in Seq(Seq(S))
    <3> PICK F : F = seqs
      OBVIOUS
    <3>1. m \in Nat /\ \A n \in 1 .. m : F[n] \in Seq(S)
      BY <2>1, <2>2
    <3>2. [n \in 1 .. m |-> F[n]] \in Seq(Seq(S))
      BY <3>1
    <3> QED BY <3>2
  <2> QED BY <2>3, <2>4
<1>4. FlattenSeq(seqs) \in Seq(S)
  BY <1>3, FlattenType
<1> QED BY <1>2, <1>4 DEF SearchesOf, IsSeq

LEMMA HydrateContentLeads ==
  ASSUME NEW e, NEW bl, ClaudeShows(e, bl), NEW shown, NEW output, IsSeq(output),
         NEW step, step = HydrateContent(e, shown, output)
  PROVE  Leads(bl, step)
<1>1. PICK size, signed, base, searches, fold, f, said, text :
        /\ size = FirstBlock(shown, "reasoning")
        /\ signed = (\E n \in DOMAIN shown : shown[n].kind = "reasoning")
        /\ base = CompleteThinking(e, size, signed)
        /\ searches = SearchesOf(output)
        /\ fold = FoldedSearches(base, searches)
        /\ f = fold.encoder
        /\ said = FirstBlock(shown, "message")
        /\ text = HydrateText(f, said)
  OBVIOUS
<1>2. Chains(fold, text, step)
  BY <1>1 DEF HydrateContent, Then, Chains, SearchesOf, FoldedSearches
<1>3. Leads(bl, base)
  BY <1>1, ThinkingLeads
<1>4. Leads(bl, fold)
  <2>1. PICK S : searches \in Seq(S)
    <3>1. IsSeq(searches)
      BY <1>1, SearchesAre
    <3> QED BY <3>1 DEF IsSeq
  <2> QED BY <1>1, <1>3, <2>1, SearchesLead
<1>5. PICK b : b = Read(bl, fold.out)
  OBVIOUS
<1>6. Leads(b, text)
  <2>1. ClaudeShows(f, b)
    BY <1>1, <1>4, <1>5 DEF Leads
  <2> QED BY <1>1, <2>1, HydrateTextLeads
<1> QED BY <1>2, <1>4, <1>5, <1>6, ThenLeads

LEMMA TerminalLeads ==
  ASSUME NEW e, NEW bl, ClaudeShows(e, bl), NEW a, IsSeq(a.calls), IsSeq(a.outputs), NEW thinking,
         NEW step, step = HydrateTerminal(e, a, thinking)
  PROVE  Leads(bl, step)
<1>1. PICK f, shown, output :
        f = SettleTools(e, a) /\ shown = ResponseBlocks(a, thinking) /\ output = ResponsesOutput(a)
  OBVIOUS
<1>2. ClaudeShows(f, bl)
  <2>1. PICK S : a.calls \in Seq(S)
    BY DEF IsSeq
  <2>2. DOMAIN e = ClaudeFields
    BY DEF ClaudeShows, IsEncoder
  <2>3. SameMarks(e, f)
    BY <1>1, <2>1, <2>2, SettledMarks
  <2> QED BY <2>3, MarksShow
<1>3. IsSeq(output)
  BY <1>1, OutputIsSeq
<1>4. CASE ToolStreamStarted(e)
  <2>1. PICK tools, g, content :
          tools = FlushTools(f, a) /\ g = tools.encoder /\ content = HydrateContent(g, shown, output)
    OBVIOUS
  <2>2. Chains(tools, content, step)
    BY <1>1, <1>4, <2>1 DEF HydrateTerminal, Then, Chains
  <2>3. Leads(bl, tools)
    BY <1>2, <2>1, FlushLeads
  <2>4. PICK b : b = Read(bl, tools.out)
    OBVIOUS
  <2>5. Leads(b, content)
    <3>1. ClaudeShows(g, b)
      BY <2>1, <2>3, <2>4 DEF Leads
    <3> QED BY <1>3, <2>1, <3>1, HydrateContentLeads
  <2> QED BY <2>2, <2>3, <2>4, <2>5, ThenLeads
<1>5. CASE ~ToolStreamStarted(e)
  <2>1. PICK content, g, tools :
          content = HydrateContent(f, shown, output) /\ g = content.encoder /\ tools = FlushTools(g, a)
    OBVIOUS
  <2>2. Chains(content, tools, step)
    BY <1>1, <1>5, <2>1 DEF HydrateTerminal, Then, Chains
  <2>3. Leads(bl, content)
    BY <1>2, <1>3, <2>1, HydrateContentLeads
  <2>4. PICK b : b = Read(bl, content.out)
    OBVIOUS
  <2>5. Leads(b, tools)
    <3>1. ClaudeShows(g, b)
      BY <2>1, <2>3, <2>4 DEF Leads
    <3> QED BY <2>1, <3>1, FlushLeads
  <2> QED BY <2>2, <2>3, <2>4, <2>5, ThenLeads
<1> QED BY <1>4, <1>5

-----------------------------------------------------------------------------
(* An event of a Messages stream.                                          *)

\* What a text is closed with: the rest of it, if nothing of it was sent.
DoneText(e, size) == Then(IF e.textEmitted THEN Nothing(e) ELSE EmitText(e, size), CloseBlock)

LEMMA DoneTextLeads ==
  ASSUME NEW e, NEW bl, ClaudeShows(e, bl), NEW size, NEW step, step = DoneText(e, size)
  PROVE  Leads(bl, step)
<1>1. CASE e.textEmitted
  <2>1. PICK none, closing : none = Nothing(e) /\ closing = CloseBlock(e)
    OBVIOUS
  <2>2. Leads(bl, none) /\ none.encoder = e /\ Read(bl, none.out) = bl
    BY <2>1, NothingLeads
  <2>3. Chains(none, closing, step)
    <3>1. step = Then(Nothing(e), CloseBlock)
      BY <1>1 DEF DoneText
    <3>2. step = [CloseBlock(none.encoder) EXCEPT !.out = none.out \o @]
      BY <2>1, <3>1 DEF Then
    <3> QED BY <2>1, <2>2, <3>2 DEF Chains
  <2>4. Leads(Read(bl, none.out), closing)
    BY <2>1, <2>2, CloseLeads
  <2> QED BY <2>2, <2>3, <2>4, ThenLeads
<1>2. CASE ~e.textEmitted
  <2>1. step = Then(EmitText(e, size), CloseBlock)
    BY <1>2 DEF DoneText
  <2>2. e.open = FALSE
    BY <1>2 DEF ClaudeShows, IsEncoder
  <2> QED BY <2>1, <2>2, WholeTextLeads
<1> QED BY <1>1, <1>2

\* The end: the rest of the answer, and then no block is open.
ClaudeEnd(e, a, thinking) == Then(HydrateTerminal(e, a, thinking), CloseBlock)

LEMMA ClaudeEndLeads ==
  ASSUME NEW e, NEW bl, ClaudeShows(e, bl), NEW a, IsSeq(a.calls), IsSeq(a.outputs), NEW thinking,
         NEW step, step = ClaudeEnd(e, a, thinking)
  PROVE  Leads(bl, step)
<1>1. PICK rest, f, closing :
        rest = HydrateTerminal(e, a, thinking) /\ f = rest.encoder /\ closing = CloseBlock(f)
  OBVIOUS
<1>2. Leads(bl, rest)
  BY <1>1, TerminalLeads
<1>3. Chains(rest, closing, step)
  BY <1>1 DEF ClaudeEnd, Then, Chains
<1>4. PICK b : b = Read(bl, rest.out)
  OBVIOUS
<1>5. Leads(b, closing)
  <2>1. ClaudeShows(f, b)
    BY <1>1, <1>2, <1>4 DEF Leads
  <2> QED BY <1>1, <2>1, CloseLeads
<1> QED BY <1>2, <1>3, <1>4, <1>5, ThenLeads

\* A piece of a thought, or a thought without a signature.
Thought(e, x) == Nothing([e EXCEPT !.thinkDeltas = x])

\* A piece of a call's arguments.
Heard(e, a, n, piece) ==
  Nothing([RegisterTool(e, a, n) EXCEPT !.toolDeltas[a.calls[n].call] = @ + piece])

LEMMA ThoughtLeads ==
  ASSUME NEW e, NEW bl, ClaudeShows(e, bl), NEW x, NEW step, step = Thought(e, x)
  PROVE  Leads(bl, step)
<1>1. PICK f : f = [e EXCEPT !["thinkDeltas"] = x]
  OBVIOUS
<1>2. DOMAIN e = ClaudeFields
  BY DEF ClaudeShows, IsEncoder
<1>3. SameMarks(e, [e EXCEPT !["thinkDeltas"] = x])
  BY <1>2, FieldMarks DEF ClaudeFields
<1>4. step = Nothing(f)
  BY <1>1 DEF Thought
<1> QED BY <1>1, <1>3, <1>4, NothingMarks

LEMMA HeardLeads ==
  ASSUME NEW e, NEW bl, ClaudeShows(e, bl), NEW a, NEW n, NEW piece,
         NEW step, step = Heard(e, a, n, piece)
  PROVE  Leads(bl, step)
<1>1. PICK g, x, f :
        /\ g = RegisterTool(e, a, n)
        /\ x = [g.toolDeltas EXCEPT ![a.calls[n].call] = @ + piece]
        /\ f = [g EXCEPT !["toolDeltas"] = x]
  OBVIOUS
<1>2. DOMAIN e = ClaudeFields
  BY DEF ClaudeShows, IsEncoder
<1>3. SameMarks(e, g) /\ DOMAIN g = ClaudeFields
  BY <1>1, <1>2, RegisterMarks DEF SameMarks
<1>4. SameMarks(g, [g EXCEPT !["toolDeltas"] = x])
  BY <1>3, FieldMarks DEF ClaudeFields
<1>5. SameMarks(e, f)
  BY <1>1, <1>3, <1>4, SameMarksTwice
<1>6. step = Nothing(f)
  BY <1>1 DEF Heard
<1> QED BY <1>5, <1>6, NothingMarks

\* What the encoder makes of an event.
IsBranch(step, e, a, thinking, event) ==
  \/ step = Nothing(e)
  \/ \E x : step = Thought(e, x)
  \/ \E size, signed : step = CompleteThinking(e, size, signed)
  \/ step = EmitText(e, event.piece)
  \/ \E size : step = DoneText(e, size)
  \/ \E n : step = Heard(e, a, n, event.piece)
  \/ \E n : step = CompleteTool(e, a, n)
  \/ step = CompleteWebSearch(e, event.item)
  \/ IsTerminal(event) /\ step = ClaudeEnd(e, a, thinking)

LEMMA BranchIs ==
  ASSUME NEW e, NEW a, NEW schema, NEW thinking, NEW event,
         NEW step, step = ClaudeStep(e, a, schema, thinking, event)
  PROVE  IsBranch(step, e, a, thinking, event)
<1>1. PICK item, n, x, size :
        /\ item = event.item /\ n = CallOf(a, item)
        /\ x = (IF thinking THEN e.thinkDeltas + event.piece ELSE e.thinkDeltas)
        /\ size = (IF item.size > 0 \/ ~schema THEN item.size ELSE Text(a))
  OBVIOUS
<1>2. PICK thought, summed, piece, said, heard, done, search, signed, unsigned, end, none :
        /\ thought = Thought(e, x)
        /\ summed = CompleteThinking(e, a.summary, item.signed)
        /\ piece = (IF schema THEN Nothing(e) ELSE EmitText(e, event.piece))
        /\ said = DoneText(e, size)
        /\ heard = Heard(e, a, n, event.piece)
        /\ done = CompleteTool(e, a, n)
        /\ search = CompleteWebSearch(e, item)
        /\ signed = CompleteThinking(e, item.size, TRUE)
        /\ unsigned = Thought(e, 0)
        /\ end = ClaudeEnd(e, a, thinking)
        /\ none = Nothing(e)
  OBVIOUS
<1>3. step = CASE event.type = "delta" /\ item.kind = "reasoning" -> thought
               [] event.type = "done" /\ item.kind = "reasoning" /\ thinking -> summed
               [] event.type = "delta" /\ item.kind = "message" -> piece
               [] event.type = "done" /\ item.kind = "message" -> said
               [] event.type = "delta" /\ n # 0 -> heard
               [] event.type \in {"done", "item.done"} /\ n # 0 -> done
               [] event.type = "item.done" /\ item.kind = "search" -> search
               [] event.type = "item.done" /\ item.kind = "reasoning" /\ thinking ->
                    IF item.signed THEN signed ELSE unsigned
               [] IsTerminal(event) -> end
               [] OTHER -> none
  BY <1>1, <1>2 DEF ClaudeStep, Thought, DoneText, Heard, ClaudeEnd
<1>4. \/ step = thought \/ step = summed \/ step = piece \/ step = said \/ step = heard
      \/ step = done \/ step = search \/ step = signed \/ step = unsigned
      \/ IsTerminal(event) /\ step = end
      \/ step = none
  BY <1>3
<1>5. CASE step = thought \/ step = unsigned
  BY <1>2, <1>5 DEF IsBranch
<1>6. CASE step = summed \/ step = signed
  BY <1>2, <1>6 DEF IsBranch
<1>7. CASE step = piece \/ step = said \/ step = none
  BY <1>2, <1>7 DEF IsBranch
<1>8. CASE step = heard \/ step = done \/ step = search
  BY <1>1, <1>2, <1>8 DEF IsBranch
<1>9. CASE IsTerminal(event) /\ step = end
  BY <1>2, <1>9 DEF IsBranch
<1> QED BY <1>4, <1>5, <1>6, <1>7, <1>8, <1>9

LEMMA StepLeads ==
  ASSUME NEW e, NEW bl, ClaudeShows(e, bl), NEW a, NEW schema, NEW thinking, NEW event,
         event.piece \in Nat, IsTerminal(event) => IsSeq(a.calls) /\ IsSeq(a.outputs),
         NEW step, step = ClaudeStep(e, a, schema, thinking, event)
  PROVE  Leads(bl, step)
<1>1. IsBranch(step, e, a, thinking, event)
  BY BranchIs
<1>2. CASE step = Nothing(e) \/ step = EmitText(e, event.piece)
  BY <1>2, NothingLeads, TextLeads
<1>3. CASE \E x : step = Thought(e, x)
  BY <1>3, ThoughtLeads
<1>4. CASE \E size, signed : step = CompleteThinking(e, size, signed)
  BY <1>4, ThinkingLeads
<1>5. CASE \E size : step = DoneText(e, size)
  BY <1>5, DoneTextLeads
<1>6. CASE \E n : step = Heard(e, a, n, event.piece)
  BY <1>6, HeardLeads
<1>7. CASE \E n : step = CompleteTool(e, a, n)
  BY <1>7, CompleteLeads
<1>8. CASE step = CompleteWebSearch(e, event.item)
  BY <1>8, SearchLeads
<1>9. CASE IsTerminal(event) /\ step = ClaudeEnd(e, a, thinking)
  BY <1>9, ClaudeEndLeads
<1> QED BY <1>1, <1>2, <1>3, <1>4, <1>5, <1>6, <1>7, <1>8, <1>9 DEF IsBranch

-----------------------------------------------------------------------------
(* The accumulator's calls and items are sequences.                        *)

HasLists(a) == {"calls", "outputs"} \subseteq DOMAIN a /\ IsSeq(a.calls) /\ IsSeq(a.outputs)

LEMMA SeqExcept ==
  ASSUME NEW s, IsSeq(s), NEW n, NEW x
  PROVE  IsSeq([s EXCEPT ![n] = x])
<1>1. PICK S : s \in Seq(S)
  BY DEF IsSeq
<1>2. PICK m : m \in Nat /\ DOMAIN s = 1 .. m
  BY <1>1
<1>3. \A k \in 1 .. m : s[k] \in S
  BY <1>1, <1>2
<1>4. s = [k \in 1 .. m |-> s[k]]
  BY <1>1, <1>2
<1>5. [s EXCEPT ![n] = x] = [k \in 1 .. m |-> IF k = n THEN x ELSE s[k]]
  BY <1>2, <1>4
<1>6. [k \in 1 .. m |-> IF k = n THEN x ELSE s[k]] \in Seq(S \cup {x})
  BY <1>2, <1>3
<1> QED BY <1>5, <1>6 DEF IsSeq

LEMMA SeqAppend ==
  ASSUME NEW s, IsSeq(s), NEW x
  PROVE  IsSeq(Append(s, x))
<1>1. PICK S : s \in Seq(S)
  BY DEF IsSeq
<1>2. Append(s, x) \in Seq(S \cup {x})
  BY <1>1
<1> QED BY <1>2 DEF IsSeq

LEMMA FieldKeepsLists ==
  ASSUME NEW a, HasLists(a), NEW f, f \notin {"calls", "outputs"}, NEW x
  PROVE  HasLists([a EXCEPT ![f] = x])
BY DEF HasLists

LEMMA ListKept ==
  ASSUME NEW a, HasLists(a), NEW f, NEW x, IsSeq(x)
  PROVE  HasLists([a EXCEPT ![f] = x])
BY DEF HasLists

LEMMA IndexedLists ==
  ASSUME NEW a, HasLists(a), NEW index
  PROVE  HasLists(Indexed(a, index))
<1>1. PICK x : Indexed(a, index) = [a EXCEPT !["next"] = x]
  BY DEF Indexed
<1>2. HasLists([a EXCEPT !["next"] = x])
  BY FieldKeepsLists
<1> QED BY <1>1, <1>2

LEMMA RecognisedLists ==
  ASSUME NEW a, HasLists(a), NEW n, NEW item, NEW index
  PROVE  HasLists(Recognised(a, n, item, index))
<1>1. PICK b, x, placed :
        /\ b = Indexed(a, index) /\ x = [b.calls EXCEPT ![n] = [b.calls[n] EXCEPT !.index = index]]
        /\ placed = (IF index >= 0 THEN [b EXCEPT !["calls"] = x] ELSE a)
  OBVIOUS
<1>2. HasLists(b)
  BY <1>1, IndexedLists
<1>3. HasLists([b EXCEPT !["calls"] = x])
  <2>1. IsSeq(b.calls)
    BY <1>2 DEF HasLists
  <2>2. IsSeq(x)
    BY <1>1, <2>1, SeqExcept
  <2> QED BY <1>2, <2>2, ListKept
<1>4. HasLists(placed)
  BY <1>1, <1>3
<1>5. PICK y : y = [placed.calls EXCEPT ![n] = Upgraded(placed.calls[n], item)]
  OBVIOUS
<1>6. Recognised(a, n, item, index) = [placed EXCEPT !["calls"] = y]
  BY <1>1, <1>5 DEF Recognised
<1>7. HasLists([placed EXCEPT !["calls"] = y])
  <2>1. IsSeq(placed.calls)
    BY <1>4 DEF HasLists
  <2>2. IsSeq(y)
    BY <1>5, <2>1, SeqExcept
  <2> QED BY <1>4, <2>2, ListKept
<1> QED BY <1>6, <1>7

LEMMA AliasesLists ==
  ASSUME NEW a, HasLists(a), NEW n, NEW item
  PROVE  HasLists(RegisterAliases(a, n, item))
<1>1. PICK x : RegisterAliases(a, n, item) = [a EXCEPT !["byId"] = x]
  BY DEF RegisterAliases
<1>2. HasLists([a EXCEPT !["byId"] = x])
  BY FieldKeepsLists
<1> QED BY <1>1, <1>2

LEMMA CaptureToolLists ==
  ASSUME NEW a, HasLists(a), NEW item, NEW index, NEW piece
  PROVE  HasLists(CaptureToolCall(a, item, index, piece))
<1>1. PICK b : b = EnsureToolCallState(a, item, index)
  OBVIOUS
<1>2. HasLists(b)
  <2>1. CASE CallOf(a, item) # 0
    <3>1. PICK n : n = CallOf(a, item)
      OBVIOUS
    <3>2. PICK c : c = Recognised(a, n, item, index)
      OBVIOUS
    <3>3. b = RegisterAliases(c, n, item)
      BY <1>1, <2>1, <3>1, <3>2 DEF EnsureToolCallState
    <3> QED BY <3>2, <3>3, RecognisedLists, AliasesLists
  <2>2. CASE CallOf(a, item) = 0
    <3>1. PICK c, n, x : /\ c = Indexed(a, index) /\ n = Len(a.calls) + 1
                         /\ x = Append(c.calls,
                                  [item |-> ItemKey(item), call |-> CallKey(item),
                                   named |-> FALSE, size |-> 0, index |-> OutputIndex(a, index),
                                   status |-> "in_progress", added |-> FALSE, done |-> FALSE])
      OBVIOUS
    <3>2. PICK d : d = [c EXCEPT !["calls"] = x]
      OBVIOUS
    <3>3. b = RegisterAliases(d, n, item)
      BY <1>1, <2>2, <3>1, <3>2 DEF EnsureToolCallState
    <3>4. HasLists(d)
      <4>1. HasLists(c)
        BY <3>1, IndexedLists
      <4>2. HasLists([c EXCEPT !["calls"] = x])
        <5>1. IsSeq(c.calls)
          BY <4>1 DEF HasLists
        <5>2. IsSeq(x)
          BY <3>1, <5>1, SeqAppend
        <5> QED BY <4>1, <5>2, ListKept
      <4> QED BY <3>2, <4>2
    <3> QED BY <3>3, <3>4, AliasesLists
  <2> QED BY <2>1, <2>2
<1>3. PICK y : IsSeq(y) /\ CaptureToolCall(a, item, index, piece) = [b EXCEPT !["calls"] = y]
  <2>1. PICK n : n = CallOf(b, item)
    OBVIOUS
  <2>2. PICK y : y = [b.calls EXCEPT ![n] = Informed(b.calls[n], item, piece)]
    OBVIOUS
  <2>3. CaptureToolCall(a, item, index, piece) = [b EXCEPT !["calls"] = y]
    BY <1>1, <2>1, <2>2 DEF CaptureToolCall, InformCall
  <2>4. IsSeq(b.calls)
    BY <1>2 DEF HasLists
  <2>5. IsSeq(y)
    BY <2>2, <2>4, SeqExcept
  <2> QED BY <2>3, <2>5
<1>4. HasLists([b EXCEPT !["calls"] = y])
  BY <1>2, <1>3, ListKept
<1> QED BY <1>3, <1>4

LEMMA CaptureItemLists ==
  ASSUME NEW a, HasLists(a), NEW item, NEW index
  PROVE  HasLists(CaptureOutputItem(a, item, index))
<1>1. CASE item.kind = "call"
  <2>1. CaptureOutputItem(a, item, index) = CaptureToolCall(a, item, index, 0)
    BY <1>1 DEF CaptureOutputItem
  <2> QED BY <2>1, CaptureToolLists
<1>2. CASE item.kind # "call"
  <2>1. PICK n, b, output, x :
          /\ n = SelectInSeq(a.outputs, LAMBDA o : o.item.id = item.id)
          /\ b = Indexed(a, index) /\ output = [index |-> OutputIndex(a, index), item |-> item]
          /\ x = IF n = 0 THEN Append(b.outputs, output) ELSE [b.outputs EXCEPT ![n] = output]
    OBVIOUS
  <2>2. CaptureOutputItem(a, item, index) = [b EXCEPT !.outputs = x]
    BY <1>2, <2>1 DEF CaptureOutputItem
  <2>3. HasLists(b)
    BY <2>1, IndexedLists
  <2>4. IsSeq(x)
    <3>1. IsSeq(b.outputs)
      BY <2>3 DEF HasLists
    <3> QED BY <2>1, <3>1, SeqExcept, SeqAppend
  <2>5. HasLists([b EXCEPT !["outputs"] = x])
    BY <2>3, <2>4, ListKept
  <2> QED BY <2>2, <2>5
<1> QED BY <1>1, <1>2

LEMMA ReplaceLists ==
  ASSUME NEW a, HasLists(a), NEW S, NEW out \in Seq(S)
  PROVE  HasLists(ReplaceOutputItems(a, out))
<1>1. PICK x : IsReplacing(x, a, out) /\ ReplaceOutputItems(a, out) = x[Len(out)]
  BY ReplacingIs
<1>2. Len(out) \in Nat
  OBVIOUS
<1> DEFINE T == {n \in Nat : n <= Len(out) => HasLists(x[n])}
<1>3. 0 \in T
  <2>1. x[0] = [a EXCEPT !.outputs = <<>>]
    BY <1>1 DEF IsReplacing
  <2>2. HasLists([a EXCEPT !.outputs = <<>>])
    BY OneIsSeq DEF HasLists
  <2> QED BY <2>1, <2>2
<1>4. ASSUME NEW n \in Nat, n \in T PROVE n + 1 \in T
  <2> SUFFICES ASSUME n + 1 <= Len(out) PROVE HasLists(x[n + 1])
    OBVIOUS
  <2>1. HasLists(x[n])
    <3>1. n <= Len(out)
      BY <1>2
    <3> QED BY <1>4, <3>1
  <2>2. n + 1 \in 1 .. Len(out) /\ (n + 1) - 1 = n
    BY <1>2
  <2>3. x[n + 1] = CaptureOutputItem(x[n], out[n + 1], n)
    BY <1>1, <2>2 DEF IsReplacing
  <2>4. PICK c, item : c = x[n] /\ item = out[n + 1]
    OBVIOUS
  <2>5. HasLists(CaptureOutputItem(c, item, n))
    BY <2>1, <2>4, CaptureItemLists
  <2> QED BY <2>3, <2>4, <2>5
<1>5. Len(out) \in T
  <2> HIDE DEF T
  <2>1. Nat \subseteq T
    BY <1>3, <1>4, Induction
  <2> QED BY <1>2, <2>1
<1> QED BY <1>1, <1>2, <1>5

LEMMA TextLists ==
  ASSUME NEW a, HasLists(a), NEW event
  PROVE  HasLists(ApplyText(a, event))
<1>1. \/ ApplyText(a, event) = a
      \/ \E x : ApplyText(a, event) = [a EXCEPT !["text"] = x]
      \/ \E x : ApplyText(a, event) = [a EXCEPT !["summary"] = x]
  <2>1. PICK b, c, d, e : /\ b = [a EXCEPT !.text = @ + event.piece]
                          /\ c = [a EXCEPT !.summary = @ + event.piece]
                          /\ d = [a EXCEPT !.text = IF @ = 0 THEN event.item.size ELSE @]
                          /\ e = [a EXCEPT !.text = IF @ = 0 THEN event.text ELSE @]
    OBVIOUS
  <2>2. ApplyText(a, event) =
          CASE event.type = "delta" /\ event.item.kind = "message" -> b
            [] event.type = "delta" /\ event.item.kind = "reasoning" -> c
            [] event.type = "done" /\ event.item.kind = "message" -> d
            [] IsTerminal(event) -> e
            [] OTHER -> a
    BY <2>1 DEF ApplyText
  <2>3. ApplyText(a, event) \in {a, b, c, d, e}
    BY <2>2
  <2>4. /\ \E x : b = [a EXCEPT !["text"] = x]
        /\ \E x : c = [a EXCEPT !["summary"] = x]
        /\ \E x : d = [a EXCEPT !["text"] = x]
        /\ \E x : e = [a EXCEPT !["text"] = x]
    <3>1. \E x : b = [a EXCEPT !["text"] = x]
      BY <2>1
    <3>2. \E x : c = [a EXCEPT !["summary"] = x]
      BY <2>1
    <3>3. \E x : d = [a EXCEPT !["text"] = x]
      BY <2>1
    <3>4. \E x : e = [a EXCEPT !["text"] = x]
      BY <2>1
    <3> QED BY <3>1, <3>2, <3>3, <3>4
  <2> QED BY <2>3, <2>4
<1>2. \A x : HasLists([a EXCEPT !["text"] = x]) /\ HasLists([a EXCEPT !["summary"] = x])
  BY FieldKeepsLists
<1>3. CASE \E x : ApplyText(a, event) = [a EXCEPT !["text"] = x]
  BY <1>2, <1>3
<1>4. CASE \E x : ApplyText(a, event) = [a EXCEPT !["summary"] = x]
  BY <1>2, <1>4
<1> QED BY <1>1, <1>3, <1>4

LEMMA ApplyLists ==
  ASSUME NEW a, HasLists(a), NEW event, IsSeq(event.output)
  PROVE  HasLists(Apply(a, event))
<1>1. PICK b, c, d, e, f : /\ b = ApplyResponseMetadata(a, event)
                           /\ c = ApplyText(b, event) /\ d = ApplyToolArguments(c, event)
                           /\ e = ApplyOutput(d, event) /\ f = ApplyTerminal(e, event)
  OBVIOUS
<1>2. Apply(a, event) = f
  BY <1>1 DEF Apply
<1>3. HasLists(b)
  <2>1. PICK g, x : /\ x = event.status
                    /\ g = (IF event.status # "" THEN [a EXCEPT !["status"] = x] ELSE a)
    OBVIOUS
  <2>2. HasLists([a EXCEPT !["status"] = x])
    BY FieldKeepsLists
  <2>3. HasLists(g)
    BY <2>1, <2>2
  <2>4. PICK S : event.output \in Seq(S)
    BY DEF IsSeq
  <2>5. PICK out : out = event.output
    OBVIOUS
  <2>6. HasLists(ReplaceOutputItems(g, out))
    BY <2>3, <2>4, <2>5, ReplaceLists
  <2>7. b = IF event.output # <<>> THEN ReplaceOutputItems(g, out) ELSE g
    BY <1>1, <2>1, <2>5 DEF ApplyResponseMetadata
  <2> QED BY <2>3, <2>6, <2>7
<1>4. HasLists(c)
  BY <1>1, <1>3, TextLists
<1>5. HasLists(d)
  <2>1. PICK item, index, piece :
          /\ item = [event.item EXCEPT !.status = IF event.type = "done" THEN "completed" ELSE ""]
          /\ index = event.index /\ piece = event.piece
    OBVIOUS
  <2>2. d = c \/ d = CaptureToolCall(c, item, index, piece)
    BY <1>1, <2>1 DEF ApplyToolArguments
  <2> QED BY <1>4, <2>2, CaptureToolLists
<1>6. HasLists(e)
  <2>1. PICK item, index : item = event.item /\ index = event.index
    OBVIOUS
  <2>2. e = d \/ e = CaptureOutputItem(d, item, index)
    BY <1>1, <2>1 DEF ApplyOutput
  <2> QED BY <1>5, <2>2, CaptureItemLists
<1>7. HasLists(f)
  <2>1. PICK g, x, y : x = event.type /\ y = event.output /\ g = [e EXCEPT !["terminal"] = x]
    OBVIOUS
  <2>2. HasLists([e EXCEPT !["terminal"] = x])
    BY <1>6, FieldKeepsLists
  <2>3. HasLists(g)
    BY <2>1, <2>2
  <2>4. HasLists([g EXCEPT !["final"] = y])
    BY <2>3, FieldKeepsLists
  <2>5. f = e \/ f = [g EXCEPT !["final"] = y]
    BY <1>1, <2>1 DEF ApplyTerminal
  <2> QED BY <1>6, <2>4, <2>5
<1> QED BY <1>2, <1>7

LEMMA ClaudeFollows ==
  ASSUME NEW event, dialect = "claude", Write(event), ClaudeShows(writer, blocks), HasLists(acc),
         event.piece \in Nat, IsSeq(event.output)
  PROVE  ClaudeShows(writer', blocks') /\ HasLists(acc') /\ Along(blocks, blocks')
<1>1. PICK a, step, e, bl :
        /\ a = Apply(acc, event) /\ step = ClaudeStep(writer, a, tuple, turn.thinking, event)
        /\ e = writer /\ bl = blocks
  OBVIOUS
<1>2. acc' = a /\ writer' = step.encoder /\ blocks' = Read(bl, step.out)
  BY <1>1 DEF Write
<1>3. HasLists(a)
  BY <1>1, ApplyLists
<1>4. PICK schema, thinking : schema = tuple /\ thinking = turn.thinking
  OBVIOUS
<1>5. Leads(bl, step)
  <2>1. ClaudeShows(e, bl) /\ IsSeq(a.calls) /\ IsSeq(a.outputs)
    BY <1>1, <1>3 DEF HasLists
  <2>2. step = ClaudeStep(e, a, schema, thinking, event)
    BY <1>1, <1>4
  <2> QED BY <2>1, <2>2, StepLeads
<1>6. ClaudeShows(step.encoder, Read(bl, step.out)) /\ BlocksFollow(bl, Read(bl, step.out))
  BY <1>5 DEF Leads
<1>7. Along(bl, Read(bl, step.out))
  BY <1>6, FollowAlong
<1> QED BY <1>1, <1>2, <1>3, <1>6, <1>7

\* What is needed of the events.
LEMMA EventLists ==
  ASSUME StreamInv, NEW event \in NextEvents
  PROVE  event.piece \in Nat /\ IsSeq(event.output)
<1>1. ASSUME NEW i \in DOMAIN progress, NEW type \in NextTypes(i), event = ItemEvent(i, type)
      PROVE  event.piece \in Nat /\ IsSeq(event.output)
  <2>1. type \in {"item.added", "delta", "partial", "done", "item.done"}
    BY TypesOf
  <2>2. IsItemEvent(event, i, type)
    BY <1>1, <2>1, ItemEventIs
  <2>3. event.output = <<>> /\ event.piece = IF type = "delta" THEN 1 ELSE 0
    BY <2>2 DEF IsItemEvent
  <2>4. event.piece \in Nat
    BY <2>3
  <2>5. IsSeq(event.output)
    BY <2>3, OneIsSeq
  <2> QED BY <2>4, <2>5
<1>2. ASSUME NEW type \in {"completed", "incomplete"}, event = LastEvent(type)
      PROVE  event.piece \in Nat /\ IsSeq(event.output)
  <2>1. event.piece = 0 /\ event.output = Listed(type)
    BY <1>2, LastEventIs
  <2>2. Listed(type) \in Seq(LastItems)
    <3>1. turn.items \in Seq(Shapes)
      BY DEF StreamInv, IsTold, AreItems
    <3> QED BY <3>1, ListedIs
  <2> QED BY <2>1, <2>2 DEF IsSeq
<1> QED BY <1>1, <1>2, EventIs

-----------------------------------------------------------------------------
(* Every dialect.                                                          *)

\* What the client has while the stream goes on.
Follows ==
  /\ dialect = "responses" => /\ Shows(turn.items, progress, acc, blocks)
                              /\ SaysTexts(turn.items, progress, tuple, blocks)
  /\ dialect = "chat" =>
       /\ ChatShows(turn.items, progress, acc, writer, blocks)
       /\ ChatOthers(turn.items, ImageBound(turn.items, progress), tuple, writer, blocks)
  /\ dialect = "completions" => CompletionShows(writer, blocks)
  /\ dialect = "claude" => ClaudeShows(writer, blocks) /\ HasLists(acc)

FollowInv ==
  /\ dialect \in {"responses", "chat"} => IsIntroduced(turn.items)
  /\ phase = "streaming" => Follows

\* What the theorem below takes from the upstream.
AnswersAreIntroduced ==
  \A r \in Requests : r.dialect \in {"responses", "chat"} => IsIntroduced(r.turn.items)

LEMMA NothingOthers ==
  ASSUME NEW items, NEW bound, \A i \in DOMAIN items : items[i].id \in Ids /\ bound[i] \in Nat,
         NEW held
  PROVE  ChatOthers(items, bound, held, NewChatWriter, <<>>)
<1>1. PICK w : w = NewChatWriter
  OBVIOUS
<1>2. /\ w.image = [id \in Ids |-> -1] /\ w.nextImage = 0 /\ w.textSent = FALSE
      /\ DOMAIN w = ChatFields
  BY <1>1 DEF NewChatWriter, ChatFields
<1>3. DOMAIN <<>> = {}
  OBVIOUS
<1>4. \A i \in DOMAIN items : ~HasImage(items, w, i)
  BY <1>2 DEF HasImage
<1>5. ImagesFit(items, bound, w, <<>>)
  <2>1. w.image \in [Ids -> Int] /\ w.nextImage \in Nat
    BY <1>2
  <2> QED BY <1>3, <1>4, <2>1 DEF ImagesFit
<1>6. OthersGrow(<<>>) /\ TextFits(held, w, <<>>)
  BY <1>2, <1>3 DEF OthersGrow, TextFits
<1> QED BY <1>1, <1>5, <1>6 DEF ChatOthers

LEMMA FollowInitInv ==
  ASSUME AnswersAreIntroduced, StreamInit
  PROVE  FollowInv
<1>1. dialect \in {"responses", "chat"} => IsIntroduced(turn.items)
  BY DEF StreamInit, AnswersAreIntroduced
<1>2. /\ \A i \in DOMAIN turn.items :
           progress[i] = [added |-> FALSE, pieces |-> 0, whole |-> FALSE, done |-> FALSE]
      /\ acc = NewAccumulator /\ blocks = <<>> /\ writer = NewWriter
  BY DEF StreamInit
<1>3. IsTold(turn.items, progress) /\ AreItems(turn.items)
  BY StreamInitInv DEF StreamInv, IsTold
<1>4. DOMAIN <<>> = {}
  OBVIOUS
<1>5. ASSUME dialect = "responses"
      PROVE  /\ Shows(turn.items, progress, acc, blocks)
             /\ SaysTexts(turn.items, progress, tuple, blocks)
  BY <1>2, <1>4, ShowsNothing DEF SaysTexts
<1>6. ASSUME dialect = "chat"
      PROVE  /\ ChatShows(turn.items, progress, acc, writer, blocks)
             /\ ChatOthers(turn.items, ImageBound(turn.items, progress), tuple, writer, blocks)
  <2>1. writer = NewChatWriter
    BY <1>2, <1>6 DEF NewWriter
  <2>2. ChatShows(turn.items, progress, acc, writer, blocks)
    BY <1>2, <1>3, <2>1, ChatNothing
  <2>3. PICK items, bound : items = turn.items /\ bound = ImageBound(turn.items, progress)
    OBVIOUS
  <2>4. \A i \in DOMAIN items : items[i].id \in Ids /\ bound[i] \in Nat
    <3>1. \A i \in DOMAIN items : items[i].id \in Ids
      <4>1. \A i \in DOMAIN items : items[i] \in Shapes
        BY <1>3, <2>3 DEF AreItems
      <4> QED BY <4>1 DEF Shapes
    <3>2. \A i \in DOMAIN items : bound[i] = 0
      BY <1>2, <2>3 DEF ImageBound
    <3> QED BY <3>1, <3>2
  <2>5. ChatOthers(items, bound, tuple, NewChatWriter, <<>>)
    BY <2>4, NothingOthers
  <2> QED BY <1>2, <2>1, <2>2, <2>3, <2>5
<1>7. ASSUME dialect = "completions" PROVE CompletionShows(writer, blocks)
  <2>1. writer = NewChatWriter
    BY <1>2, <1>7 DEF NewWriter
  <2>2. writer.textSent = FALSE /\ DOMAIN writer = ChatFields
    BY <2>1 DEF NewChatWriter, ChatFields
  <2> QED BY <1>2, <1>4, <2>2 DEF CompletionShows, OthersGrow, TextFits
<1>8. ASSUME dialect = "claude" PROVE ClaudeShows(writer, blocks) /\ HasLists(acc)
  <2>1. writer = NewEncoder
    BY <1>2, <1>8 DEF NewWriter
  <2>2. /\ DOMAIN writer = ClaudeFields /\ writer.nextIndex = 0 /\ writer.open = FALSE
        /\ writer.textEmitted = FALSE /\ writer.toolOrder = <<>>
    BY <2>1 DEF NewEncoder, ClaudeFields
  <2>3. IsEncoder(writer)
    <3>1. IsSeq(writer.toolOrder)
      BY <2>2, OneIsSeq
    <3>2. writer.nextIndex \in Nat
      BY <2>2
    <3>3. writer.open \in BOOLEAN /\ writer.textEmitted \in BOOLEAN
      BY <2>2
    <3> QED BY <2>2, <3>1, <3>2, <3>3 DEF IsEncoder
  <2>4. ClaudeShows(writer, blocks)
    BY <1>2, <1>4, <2>2, <2>3 DEF ClaudeShows
  <2>5. HasLists(acc)
    <3>1. {"calls", "outputs"} \subseteq DOMAIN acc /\ acc.calls = <<>> /\ acc.outputs = <<>>
      BY <1>2 DEF NewAccumulator
    <3> QED BY <3>1, OneIsSeq DEF HasLists
  <2> QED BY <2>4, <2>5
<1> QED BY <1>1, <1>5, <1>6, <1>7, <1>8 DEF FollowInv, Follows

LEMMA ResponsesFollow ==
  ASSUME StreamInv, FollowInv, phase = "streaming", dialect = "responses",
         NEW event \in NextEvents, Receive(event)
  PROVE  Along(blocks, blocks') /\ FollowInv'
<1>1. /\ Write(event) /\ dialect' = dialect /\ turn' = turn /\ tuple' = tuple
      /\ phase' = IF IsTerminal(event) THEN "ended" ELSE phase
  BY DEF Receive
<1>2. /\ Shows(turn.items, progress, acc, blocks) /\ SaysTexts(turn.items, progress, tuple, blocks)
      /\ IsIntroduced(turn.items)
  BY DEF FollowInv, Follows
<1>3. IsIntroduced(turn'.items)
  BY <1>1, <1>2
<1>4. ASSUME NEW i \in DOMAIN progress, NEW type \in NextTypes(i), event = ItemEvent(i, type)
      PROVE  Along(blocks, blocks') /\ FollowInv'
  <2>1. IsTelled(i, type, event, progress')
    BY <1>4, TellingIs
  <2>2. i \in DOMAIN turn.items
    BY <2>1 DEF IsTelled
  <2>3. /\ Along(blocks, blocks') /\ Shows(turn.items, progress', acc', blocks')
        /\ SaysTexts(turn.items, progress', tuple, blocks')
    <3>1. CASE turn.items[i].kind = "call"
      <4>1. Introduced(turn.items[i])
        BY <1>2, <2>2, <3>1 DEF IsIntroduced
      <4>2. Shows(turn.items, progress', acc', blocks') /\ CallGrows(blocks, blocks')
        BY <1>1, <1>2, <2>1, <3>1, <4>1, ShowsTell
      <4>3. Along(blocks, blocks')
        BY <4>2, GrowsAlong
      <4>4. SaysTexts(turn.items, progress', tuple, blocks')
        BY <1>2, <2>1, <3>1, <4>2, TextsOfCall
      <4> QED BY <4>2, <4>3, <4>4
    <3>2. CASE turn.items[i].kind # "call"
      <4>1. Shows(turn.items, progress', acc', blocks')
        BY <1>1, <1>2, <2>1, <3>2, ShowsTellOther
      <4>2. SaysTexts(turn.items, progress', tuple, blocks') /\ Along(blocks, blocks')
        BY <1>1, <1>2, <2>1, <3>2, TextsOfOther
      <4> QED BY <4>1, <4>2
    <3> QED BY <3>1, <3>2
  <2>4. Follows'
    BY <1>1, <2>3 DEF Follows
  <2> QED BY <1>3, <2>3, <2>4 DEF FollowInv
<1>5. ASSUME NEW type \in {"completed", "incomplete"}, event = LastEvent(type)
      PROVE  Along(blocks, blocks') /\ FollowInv'
  <2>1. phase' = "ended"
    BY <1>5, EndingIs
  <2>2. Along(blocks, blocks')
    BY <1>1, <1>2, <1>5, EndAlong
  <2> QED BY <1>3, <2>1, <2>2 DEF FollowInv
<1> QED BY <1>4, <1>5, EventIs

LEMMA ChatFollow ==
  ASSUME StreamInv, FollowInv, phase = "streaming", dialect = "chat",
         NEW event \in NextEvents, Receive(event)
  PROVE  Along(blocks, blocks') /\ FollowInv'
<1>1. /\ Write(event) /\ dialect' = dialect /\ turn' = turn /\ tuple' = tuple
      /\ phase' = IF IsTerminal(event) THEN "ended" ELSE phase
  BY DEF Receive
<1>2. /\ ChatShows(turn.items, progress, acc, writer, blocks)
      /\ ChatOthers(turn.items, ImageBound(turn.items, progress), tuple, writer, blocks)
      /\ IsIntroduced(turn.items) /\ IsChatWriter(writer)
  BY DEF FollowInv, Follows, ChatShows
<1>3. IsIntroduced(turn'.items)
  BY <1>1, <1>2
<1>4. ASSUME NEW i \in DOMAIN progress, NEW type \in NextTypes(i), event = ItemEvent(i, type)
      PROVE  Along(blocks, blocks') /\ FollowInv'
  <2>1. IsTelled(i, type, event, progress')
    BY <1>4, TellingIs
  <2>2. i \in DOMAIN turn.items
    BY <2>1 DEF IsTelled
  <2>3. /\ Along(blocks, blocks') /\ ChatShows(turn.items, progress', acc', writer', blocks')
        /\ ChatOthers(turn.items, ImageBound(turn.items, progress'), tuple, writer', blocks')
    <3>1. CASE turn.items[i].kind = "call"
      <4>1. Introduced(turn.items[i])
        BY <1>2, <2>2, <3>1 DEF IsIntroduced
      <4>2. ChatShows(turn.items, progress', acc', writer', blocks') /\ CallGrows(blocks, blocks')
        BY <1>1, <1>2, <2>1, <3>1, <4>1, ChatTell
      <4>3. Along(blocks, blocks')
        BY <4>2, GrowsAlong
      <4>4. ChatOthers(turn.items, ImageBound(turn.items, progress'), tuple, writer', blocks')
        BY <1>1, <1>2, <2>1, <3>1, <4>2, ChatOthersOfCall
      <4> QED BY <4>2, <4>3, <4>4
    <3>2. CASE turn.items[i].kind # "call"
      <4>1. ChatShows(turn.items, progress', acc', writer', blocks')
        BY <1>1, <1>2, <2>1, <3>2, ChatTellOther
      <4>2. /\ ChatOthers(turn.items, ImageBound(turn.items, progress'), tuple, writer', blocks')
            /\ Along(blocks, blocks')
        BY <1>1, <1>2, <2>1, <3>2, ChatOthersOfOther
      <4> QED BY <4>1, <4>2
    <3> QED BY <3>1, <3>2
  <2>4. Follows'
    BY <1>1, <2>3 DEF Follows
  <2> QED BY <1>3, <2>3, <2>4 DEF FollowInv
<1>5. ASSUME NEW type \in {"completed", "incomplete"}, event = LastEvent(type)
      PROVE  Along(blocks, blocks') /\ FollowInv'
  <2>1. phase' = "ended"
    BY <1>5, EndingIs
  <2>2. Along(blocks, blocks')
    BY <1>1, <1>2, <1>5, ChatEndAlong
  <2> QED BY <1>3, <2>1, <2>2 DEF FollowInv
<1> QED BY <1>4, <1>5, EventIs

LEMMA OthersFollow ==
  ASSUME StreamInv, FollowInv, phase = "streaming", dialect \in {"completions", "claude"},
         NEW event \in NextEvents, Receive(event)
  PROVE  Along(blocks, blocks') /\ FollowInv'
<1>1. /\ Write(event) /\ dialect' = dialect
      /\ phase' = IF IsTerminal(event) THEN "ended" ELSE phase
  BY DEF Receive
<1>2. CASE dialect = "claude"
  <2>1. ClaudeShows(writer, blocks) /\ HasLists(acc)
    BY <1>2 DEF FollowInv, Follows
  <2>2. event.piece \in Nat /\ IsSeq(event.output)
    BY EventLists
  <2>3. ClaudeShows(writer', blocks') /\ HasLists(acc') /\ Along(blocks, blocks')
    BY <1>1, <1>2, <2>1, <2>2, ClaudeFollows
  <2> QED BY <1>1, <1>2, <2>3 DEF FollowInv, Follows
<1>3. CASE dialect = "completions"
  <2>1. CompletionShows(writer, blocks)
    BY <1>3 DEF FollowInv, Follows
  <2>2. ASSUME NEW i \in DOMAIN progress, NEW type \in NextTypes(i), event = ItemEvent(i, type)
        PROVE  Along(blocks, blocks') /\ FollowInv'
    <3>1. IsTelled(i, type, event, progress')
      BY <2>2, TellingIs
    <3>2. CompletionShows(writer', blocks') /\ Along(blocks, blocks')
      BY <1>1, <1>3, <2>1, <3>1, CompletionTells
    <3> QED BY <1>1, <1>3, <3>2 DEF FollowInv, Follows
  <2>3. ASSUME NEW type \in {"completed", "incomplete"}, event = LastEvent(type)
        PROVE  Along(blocks, blocks') /\ FollowInv'
    <3>1. phase' = "ended"
      BY <2>3, EndingIs
    <3>2. Along(blocks, blocks')
      BY <1>1, <1>3, <2>1, <2>3, CompletionEnds
    <3> QED BY <1>1, <1>3, <3>1, <3>2 DEF FollowInv
  <2> QED BY <2>2, <2>3, EventIs
<1> QED BY <1>2, <1>3

LEMMA FollowNextInv ==
  ASSUME StreamInv, FollowInv, [StreamNext]_streamVars
  PROVE  FollowInv' /\ [Answer!Next]_<<blocks, phase>>
<1>1. ASSUME NEW event \in NextEvents, Receive(event)
      PROVE  FollowInv' /\ Answer!Next
  <2>1. phase = "streaming" /\ phase' \in {"streaming", "ended", "failed"}
    BY <1>1 DEF Receive
  <2>2. dialect \in {"responses", "chat", "completions", "claude"}
    BY DEF StreamInv, Dialects
  <2>3. Along(blocks, blocks') /\ FollowInv'
    BY <1>1, <2>1, <2>2, ResponsesFollow, ChatFollow, OthersFollow
  <2>4. Answer!Next
    BY <2>1, <2>3, AlongIsNext
  <2> QED BY <2>3, <2>4
<1>2. ASSUME Break PROVE FollowInv' /\ Answer!Next
  <2>1. /\ phase = "streaming" /\ phase' = "failed" /\ dialect' = dialect /\ turn' = turn
        /\ blocks' = blocks
    BY <1>2 DEF Break
  <2>2. FollowInv'
    BY <2>1 DEF FollowInv
  <2>3. Along(blocks, blocks')
    BY <2>1, AlongSelf
  <2>4. Answer!Next
    BY <2>1, <2>3, AlongIsNext
  <2> QED BY <2>2, <2>4
<1>3. ASSUME UNCHANGED streamVars PROVE FollowInv' /\ UNCHANGED <<blocks, phase>>
  <2>1. /\ dialect' = dialect /\ turn' = turn /\ tuple' = tuple /\ phase' = phase
        /\ progress' = progress /\ acc' = acc /\ writer' = writer /\ blocks' = blocks
    BY <1>3 DEF streamVars
  <2>2. Follows => Follows'
    BY <2>1 DEF Follows
  <2>3. FollowInv'
    BY <2>1, <2>2 DEF FollowInv
  <2> QED BY <2>1, <2>3
<1>4. (\E event \in NextEvents : Receive(event)) \/ Break \/ UNCHANGED streamVars
  BY DEF StreamNext
<1> QED BY <1>1, <1>2, <1>3, <1>4

(***************************************************************************)
(* In every dialect the stream is one a client can follow (StreamEncoder,  *)
(* chatToolCallStreamer, chatImageStreamer, ResponsesStreamEventsForEvent):*)
(* what it was told of a block is never taken back, a closed block does    *)
(* not change, a call, a search or a thought is announced once and before  *)
(* anything is said of it, and nothing follows the end.  The steps of the  *)
(* writers are steps of AnswerStream, for any turns in which, when the     *)
(* client speaks Responses or Chat Completions, the first event about a    *)
(* call tells its call id.                                                 *)
(***************************************************************************)
THEOREM AnswersCanBeFollowed ==
  AnswersAreIntroduced => (StreamSpec => IsAnswerStream)
<1> SUFFICES ASSUME AnswersAreIntroduced PROVE StreamSpec => IsAnswerStream
  OBVIOUS
<1>1. StreamInit => StreamInv /\ FollowInv /\ Answer!Init
  <2>1. StreamInit => Answer!Init
    <3>1. DOMAIN <<>> = {}
      OBVIOUS
    <3> QED BY <3>1 DEF StreamInit, Answer!Init
  <2> QED BY <2>1, StreamInitInv, FollowInitInv
<1>2. StreamInv /\ FollowInv /\ [StreamNext]_streamVars
        => (StreamInv /\ FollowInv)' /\ [Answer!Next]_<<blocks, phase>>
  BY StreamNextInv, FollowNextInv
<1> QED BY <1>1, <1>2, PTL DEF StreamSpec, IsAnswerStream, Answer!Spec
=============================================================================
