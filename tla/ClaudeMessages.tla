--------------------------- MODULE ClaudeMessages ---------------------------
(***************************************************************************)
(* The requests of Claude clients (internal/server/anthropic.go) over the  *)
(* Replay store.  A client answers the calls of the last answer it got,    *)
(* and may leave out any blocks of that answer.                            *)
(*                                                                         *)
(* The answer of request q is made of blocks whose ids name q; texts are   *)
(* worded alike.                                                           *)
(***************************************************************************)
EXTENDS Replay

CONSTANTS
    ClaudeAccounts,
    MaxSessions,   \* bound: how many sessions, each with its agent and model
    Shapes,        \* the answers of the upstream, as sequences of block types
    MaxMessages    \* bound: how many requests there are in all

ASSUME ClaudeMessagesAssumption ==
    /\ MaxMessages \in Nat
    /\ Shapes \subseteq Seq({"text", "thinking", "tool_use"})
    /\ MaxSessions \in Nat /\ NoKey \notin 1 .. MaxSessions

VARIABLE asked    \* the requests so far

claude == <<store, asked>>

ClaudeInit == replays = <<>> /\ bytes = 0 /\ asked = <<>>

-----------------------------------------------------------------------------
(* The clients.                                                            *)

Block(type, id) == [type |-> type, id |-> id]
Says == [role |-> "user", content |-> <<Block("text", "said")>>]

\* The answer of request q: one text is like another.
Answer(q, shape) ==
    [i \in DOMAIN shape |->
        Block(shape[i], IF shape[i] = "text" THEN "wording" ELSE <<q, i>>)]

Calls(blocks) == {blocks[i].id : i \in Blocks(blocks, "tool_use")}

\* Some of the calls are answered, or the user says something.
Replies(blocks) ==
    IF Calls(blocks) = {} THEN {Says}
    ELSE {[role |-> "user", content |-> SetToSeq({Block("tool_result", id) : id \in ids})] :
            ids \in SUBSET Calls(blocks) \ {{}}}

Whole(blocks) == [role |-> "assistant", content |-> blocks]

\* What a client may send of an answer; nothing at all leaves no message.
Kept(blocks) ==
    {<<Whole(Pick(blocks, indices))>> : indices \in SUBSET DOMAIN blocks \ {{}}} \cup {<<>>}

\* memory is the conversation as the client has it, messages what it sends.
BeginClaude(k, memory, messages) ==
    asked' = Append(asked, [at |-> "get", key |-> k, memory |-> memory,
                            messages |-> messages,
                            found |-> <<>>, applied |-> <<>>, prefers |-> {},
                            bare |-> FALSE])

\* Sessions are numbered as they come.
KnownSessions ==
    {k \in 1 .. MaxSessions : k = 1 \/ \E q \in DOMAIN asked : asked[q].key = k - 1}

AskClaude ==
    /\ Len(asked) < MaxMessages
    /\ \/ \E k \in KnownSessions \cup {NoKey} : BeginClaude(k, <<Says>>, <<Says>>)
       \/ \E q \in DOMAIN asked :
            /\ asked[q].at = "answered" /\ asked[q].key # NoKey
            /\ \E kept \in Kept(asked[q].blocks), reply \in Replies(asked[q].blocks) :
                  BeginClaude(asked[q].key,
                        asked[q].memory \o <<Whole(asked[q].blocks), reply>>,
                        asked[q].memory \o kept \o <<reply>>)
    /\ UNCHANGED <<now, store>>

-----------------------------------------------------------------------------
(* handleAnthropicMessages.                                                *)

Key(q) == asked[q].key

Ends(q) == asked' = [asked EXCEPT ![q] = [at |-> "ended", key |-> @.key]]

\* Normalize refuses the request, or it is sent; found are the blocks of the answer
\* that was remembered.
Normalized(q, found, messages, prefers, bare) ==
    IF Accepted(messages)
    THEN asked' = [asked EXCEPT ![q].at = "open", ![q].found = found, ![q].applied = messages,
                                ![q].prefers = prefers, ![q].bare = bare]
    ELSE Ends(q)

\* get finds no record, or one to apply, or one that has expired.
GetReplay(q) ==
    /\ asked[q].at = "get"
    /\ IF Key(q) \notin DOMAIN replays THEN Normalized(q, <<>>, asked[q].messages, {}, FALSE)
       ELSE LET record == replays[Key(q)]
            IN  IF Stale(record) THEN asked' = [asked EXCEPT ![q].at = "stale"]
                ELSE Normalized(q, record.blocks, Apply(record, asked[q].messages),
                                Affinity(record, asked[q].messages), FALSE)
    /\ UNCHANGED <<now, store>>

\* Fault: what was read is not read again.
DropUnseen(q) ==
    /\ asked[q].at = "stale"
    /\ Delete(Key(q))
    /\ Normalized(q, <<>>, asked[q].messages, {}, FALSE)
    /\ UNCHANGED now

\* It is deleted under the write lock, unless another took its place.
DropStale(q) ==
    /\ asked[q].at = "stale"
    /\ IF Key(q) \in DOMAIN replays /\ Stale(replays[Key(q)])
       THEN Delete(Key(q)) ELSE UNCHANGED store
    /\ Normalized(q, <<>>, asked[q].messages, {}, FALSE)
    /\ UNCHANGED now

\* openStream: some account begins to answer, or none does.  A request to count
\* tokens (handleAnthropicCountTokens) ends here.
OpenMessage(q) ==
    /\ asked[q].at = "open"
    /\ \/ \E a \in ClaudeAccounts :
            asked' = [asked EXCEPT ![q] = [at |-> "answering", key |-> @.key,
                                           memory |-> @.memory, account |-> a]]
       \/ Ends(q)
    /\ UNCHANGED <<now, store>>

\* An account refuses the signatures: what is remembered is dropped, and the
\* request is sent again without them, once, preferring that account.
RefuseThinking(q) ==
    /\ asked[q].at = "open" /\ ~asked[q].bare
    /\ Ids(asked[q].applied, "thinking") # {}
    /\ Delete(Key(q))
    /\ \E a \in ClaudeAccounts : Normalized(q, <<>>, WithoutThinking(asked[q].applied), {a}, TRUE)
    /\ UNCHANGED now

AnswerTold(q, shape, due) ==
    asked' = [asked EXCEPT ![q] =
        [at |-> "answered", key |-> @.key, memory |-> @.memory, account |-> @.account,
         blocks |-> Answer(q, shape), due |-> due]]

\* The answer is complete: collectEvents is over, and it is remembered before it is
\* written.  Or the stream breaks.
AnswerMessage(q) ==
    /\ asked[q].at = "answering"
    /\ \/ Ends(q) /\ UNCHANGED store
       \/ \E shape \in Shapes :
            /\ Remember(Key(q), asked[q].account, Answer(q, shape))
            /\ AnswerTold(q, shape, FALSE)
    /\ UNCHANGED now

\* streamAnthropicMessage writes message_stop first.
StreamMessage(q) ==
    /\ asked[q].at = "answering"
    /\ \E shape \in Shapes : AnswerTold(q, shape, TRUE)
    /\ UNCHANGED <<now, store>>

\* Then the answer is remembered; what the client asks in between finds the answer
\* before it.
RememberMessage(q) ==
    /\ asked[q].at = "answered" /\ asked[q].due
    /\ Remember(Key(q), asked[q].account, asked[q].blocks)
    /\ asked' = [asked EXCEPT ![q].due = FALSE]
    /\ UNCHANGED now

\* The process ends, and what it remembers with it.
ForgetReplays ==
    /\ replays' = <<>> /\ bytes' = 0
    /\ asked' = [q \in DOMAIN asked |->
                   IF asked[q].at = "answered" THEN [asked[q] EXCEPT !.due = FALSE]
                   ELSE [at |-> "ended", key |-> asked[q].key]]

ClaudeStep ==
    \/ AskClaude
    \/ \E q \in DOMAIN asked :
          \/ GetReplay(q) \/ DropStale(q) \/ OpenMessage(q) \/ RefuseThinking(q)
          \/ AnswerMessage(q) \/ StreamMessage(q) \/ RememberMessage(q)

-----------------------------------------------------------------------------
\* The bytes that the limit is held against are those of the records that are
\* there, and neither limit is exceeded, through replacement, expiry, eviction
\* and restarts (deleteLocked, evictLocked).
BytesAreExact ==
    /\ bytes = Total(replays, DOMAIN replays)
    /\ bytes <= MaxBytes
    /\ Cardinality(DOMAIN replays) <= MaxEntries

Occurrences(block, items) == Cardinality({i \in DOMAIN items : items[i] = block})

\* A request that answers calls of the answer that is remembered of its session, be
\* it the last or one before it, reaches the upstream with the reasoning and the
\* answered calls of that answer, once each and in their order, whatever of it the
\* client left out, and with everything else that the client sent (Apply,
\* normalizeMessages).
StateIsRestored ==
    \A q \in DOMAIN asked :
        (asked[q].at = "open" /\ ~asked[q].bare /\ asked[q].prefers # {}) =>
            LET sent == Items(asked[q].messages)
                items == Items(asked[q].applied)
                found == asked[q].found
                IsState(block) ==
                    \/ block.type = "thinking" /\ block \in ToSet(found)
                    \/ block.type = "tool_use" /\ block \in ToSet(found)
                         /\ block.id \in Ids(asked[q].messages, "tool_result")
            IN  /\ SelectSeq(items, IsState) = SelectSeq(found, IsState)
                /\ \A block \in ToSet(sent \o items) :
                      IsState(block) \/ Occurrences(block, items) = Occurrences(block, sent)

\* Looking up and sweeping drop no record that is still good, though another
\* request may have remembered it since it was looked at (get, Sweep).
GoodRecordsStay ==
    [][(\E q \in DOMAIN asked : GetReplay(q) \/ DropStale(q)) \/ SweepReplays
         => \A k \in DOMAIN replays :
              ~Stale(replays[k]) => k \in DOMAIN replays' /\ replays'[k] = replays[k]]_store
=============================================================================
