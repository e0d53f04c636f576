----------------------------- MODULE MCStreaming -----------------------------
(* Answers of up to three items.  Everything an item says has two pieces.    *)
EXTENDS Streaming

CONSTANTS i1, i2, k1, k2, m1, m2, r1, r2, s1, g1

MCIds == {i1, i2, k1, k2, m1, m2, r1, r2, s1, g1}

Call(item, id, how, is_named, pieces, has_whole, has_done) ==
  [kind |-> "call", id |-> item, call |-> id, size |-> 2, deltas |-> pieces, added |-> how,
   named |-> is_named, whole |-> has_whole, done |-> has_done, signed |-> FALSE]

Plain(a_kind, item, pieces, has_whole, has_item, is_signed) ==
  [kind |-> a_kind, id |-> item, call |-> None, size |-> 2, deltas |-> pieces,
   added |-> IF has_item THEN "first" ELSE "never", named |-> FALSE, whole |-> has_whole,
   done |-> has_item, signed |-> is_signed]

\* Calls as the upstream tells them: all events, or some of them left out.
Told(item, id) ==
  {Call(item, id, "first", FALSE, 2, TRUE, TRUE), Call(item, id, "first", FALSE, 0, FALSE, TRUE),
   Call(item, id, "first", FALSE, 1, TRUE, FALSE), Call(item, id, "never", TRUE, 2, TRUE, FALSE),
   Call(item, id, "late", TRUE, 1, FALSE, TRUE)}

\* Calls that may be listed for a chat client: the events tell all of their arguments.
Listable(item, id) ==
  {Call(item, id, "first", FALSE, 2, TRUE, TRUE), Call(item, id, "never", TRUE, 2, FALSE, FALSE),
   Call(item, id, "late", TRUE, 1, FALSE, TRUE)}

\* Calls the last event alone tells, or tells the rest of.
Untold(item, id) ==
  {Call(item, id, "never", TRUE, 0, FALSE, FALSE), Call(item, id, "first", FALSE, 1, FALSE, FALSE)}

\* Calls whose first event has only the item id.
Nameless(item, id) ==
  {Call(item, id, "late", FALSE, 2, TRUE, TRUE), Call(item, id, "never", FALSE, 1, FALSE, TRUE)}

Message(pieces, has_whole, has_item) == Plain("message", m1, pieces, has_whole, has_item, FALSE)

Turn(the_items, is_listed, is_thinking) ==
  [items |-> the_items, listed |-> is_listed, thinking |-> is_thinking]

Requested(the_dialects, structured, turns) ==
  [dialect : the_dialects, tuple : structured, turn : turns]

Parallel(calls1, calls2, listed) ==
  {Turn(<<c1, c2>>, is_listed, FALSE) : c1 \in calls1, c2 \in calls2, is_listed \in listed}

TextAndCall ==
  {Turn(<<Message(2, TRUE, TRUE), c1>>, FALSE, FALSE) : c1 \in Told(i1, k1)}

Texts ==
  {Turn(<<Message(pieces, has_whole, has_item)>>, is_listed, FALSE) :
     pieces \in {0, 2}, has_whole \in BOOLEAN, has_item \in BOOLEAN, is_listed \in BOOLEAN}

Thoughts ==
  {Turn(<<Plain("reasoning", r1, pieces, FALSE, TRUE, is_signed), Message(2, TRUE, FALSE), c1>>,
        is_listed, is_thinking) :
     pieces \in {0, 2}, is_signed \in BOOLEAN, c1 \in {Call(i1, k1, "first", FALSE, 2, FALSE, TRUE)},
     is_listed \in BOOLEAN, is_thinking \in BOOLEAN}

\* Two messages, each of them told by pieces, and more or less else.
TwoTexts ==
  {Turn(<<Message(2, TRUE, has_item), Plain("message", m2, 2, has_whole, TRUE, FALSE)>>,
        is_listed, FALSE) :
     has_item \in BOOLEAN, has_whole \in BOOLEAN, is_listed \in BOOLEAN}

\* Two items of reasoning, the first of them signed or not.
TwoThoughts ==
  {Turn(<<Plain("reasoning", r1, pieces, FALSE, TRUE, is_signed),
          Plain("reasoning", r2, 1, FALSE, TRUE, TRUE)>>, is_listed, TRUE) :
     pieces \in {0, 2}, is_signed \in BOOLEAN, is_listed \in BOOLEAN}

Searches ==
  {Turn(<<Plain("search", s1, 0, FALSE, has_item, FALSE), Message(2, TRUE, TRUE)>>, TRUE, FALSE) :
     has_item \in BOOLEAN}

Images ==
  {Turn(<<Plain("image", g1, pieces, FALSE, TRUE, FALSE), Message(0, TRUE, FALSE)>>, is_listed, FALSE) :
     pieces \in {0, 1, 2}, is_listed \in BOOLEAN}

MCRequests ==
  Requested({"responses", "chat", "claude"}, {FALSE}, Parallel(Told(i1, k1), Told(i2, k2), {FALSE}))
  \cup Requested({"responses", "claude"}, {FALSE},
                 Parallel(Told(i1, k1), Untold(i2, k2), {TRUE}) \cup Thoughts)
  \cup Requested({"responses", "chat", "claude"}, BOOLEAN, TextAndCall \cup Texts)
  \cup Requested({"chat"}, {FALSE}, Parallel(Listable(i1, k1), Listable(i2, k2), {TRUE}))
  \cup Requested({"chat", "claude"}, {FALSE}, Searches \cup Images)
  \cup Requested({"chat", "completions", "claude"}, {FALSE}, TwoTexts)
  \cup Requested({"claude"}, {FALSE}, TwoThoughts)
  \cup Requested({"completions"}, {FALSE},
                 Texts \cup Parallel(Nameless(i1, k1), Nameless(i2, k2), {FALSE}))

\* A Responses client hears of no other calls than those FinishedStreamsShowTheirCalls is about.
ASSUME MCIntroduced ==
  \A r \in MCRequests : r.dialect = "responses" => IsIntroduced(r.turn.items)

\* And a chat client of no other calls than those ChatStreamsShowTheirCalls is about.
ASSUME MCIntroducedAndListed ==
  \A r \in MCRequests :
    r.dialect = "chat" =>
      IsIntroduced(r.turn.items) /\ (r.turn.listed => IsInFull(r.turn.items))

\* What the upstream may do by the tests of the accumulator, asked for in any dialect.
MCNameless ==
  Requested({"responses", "chat", "claude"}, {FALSE},
            {Turn(<<c1>>, TRUE, FALSE) : c1 \in Nameless(i1, k1)})
==============================================================================
