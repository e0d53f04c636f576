------------------------------- MODULE Replay -------------------------------
(***************************************************************************)
(* What the proxy remembers of the last answer of each Claude session, to  *)
(* restore reasoning and tool calls that a client leaves out of its next   *)
(* request (internal/anthropic/replay.go), and the part of the request's   *)
(* translation that accepts or refuses it (internal/anthropic/request.go). *)
(*                                                                         *)
(* A key is the session, agent and model.  A block has a type and an id: a *)
(* thinking block its signature, a call and its result the call's id, a    *)
(* text its wording.  Signatures are valid: Apply and normalizeMessages    *)
(* pass over others, and no answer that is remembered has one.             *)
(***************************************************************************)
EXTENDS Clock, Sequences, FiniteSets, SequencesExt

CONSTANTS
    ReplayTtl,        \* the ttl that NewReplayManager is given
    NoKey,            \* the key of a request without a session
    MaxEntries,       \* maxEntries
    MaxBytes,         \* maxBytes
    EvictBatchSize,   \* replayEvictBatchSize
    KeySize,          \* the size of a key and an account id
    BlockSize         \* the size of a block, by its type

ASSUME ReplayAssumption ==
    /\ {ReplayTtl, MaxEntries, MaxBytes, EvictBatchSize, KeySize} \subseteq Nat
    /\ BlockSize \in [{"text", "thinking", "tool_use"} -> Nat]

VARIABLES
    replays,    \* key -> replayRecord
    bytes       \* the count that the limit is held against

store == <<replays, bytes>>

-----------------------------------------------------------------------------
(* ReplayManager: remembering.                                             *)

Size(blocks) ==
    FoldLeft(LAMBDA sum, block : sum + BlockSize[block.type], KeySize, blocks)

HasToolUse(blocks) == \E i \in DOMAIN blocks : blocks[i].type = "tool_use"

\* deleteLocked.
Without(recs, k) == [key \in DOMAIN recs \ {k} |-> recs[key]]

\* The bytes of some of the records.
Total(recs, keys) == FoldSet(LAMBDA k, sum : sum + recs[k].size, 0, keys)

\* Fault: the bytes of a record that is replaced stay counted.
SizeForgotten(k) == 0

SizeOf(k) == IF k \in DOMAIN replays THEN replays[k].size ELSE 0

Delete(k) ==
    /\ replays' = Without(replays, k)
    /\ bytes' = bytes - SizeOf(k)

EntryTarget(count) ==
    IF count <= MaxEntries THEN MaxEntries
    ELSE LET batch == Min({EvictBatchSize, Max({1, MaxEntries \div 8})})
         IN  Max({0, MaxEntries - batch})

ByteTarget(total) ==
    IF total <= MaxBytes THEN MaxBytes ELSE MaxBytes - MaxBytes \div 16

\* evictLocked: the records that may be left of recs, of total bytes.  They go
\* in the order in which they expire, until both targets are met.
Survivors(recs, total) ==
    LET Left(keys) == total - Total(recs, DOMAIN recs \ keys)
        Meets(keys) ==
            /\ Cardinality(keys) <= EntryTarget(Cardinality(DOMAIN recs))
            /\ Left(keys) <= ByteTarget(total)
    IN  IF Cardinality(DOMAIN recs) <= MaxEntries /\ total <= MaxBytes
        THEN {[keys |-> DOMAIN recs, total |-> total]}
        ELSE {[keys |-> keys, total |-> Left(keys)] : keys \in
                {kept \in SUBSET DOMAIN recs :
                   LET gone == DOMAIN recs \ kept
                   IN  /\ Meets(kept)
                       /\ \A k \in gone : \A j \in kept : recs[k].expires <= recs[j].expires
                       /\ \E k \in gone : ~Meets(kept \cup {k})
                                          /\ \A j \in gone : recs[j].expires <= recs[k].expires}}

\* Remember.  An answer without a call, or one that is too large, only drops
\* what was remembered before it.
Remember(k, account, blocks) ==
    IF k = NoKey THEN UNCHANGED store
    ELSE IF ~HasToolUse(blocks) \/ Size(blocks) > MaxBytes THEN Delete(k)
    ELSE LET added == [key \in DOMAIN replays \cup {k} |->
                         IF key = k
                         THEN [account |-> account, blocks |-> blocks,
                               expires |-> now + ReplayTtl, size |-> Size(blocks)]
                         ELSE replays[key]]
         IN  \E s \in Survivors(added, bytes - SizeOf(k) + Size(blocks)) :
               /\ replays' = [key \in s.keys |-> added[key]]
               /\ bytes' = s.total

Stale(record) == record.expires <= now

\* Sweep.
SweepReplays ==
    LET stale == {k \in DOMAIN replays : Stale(replays[k])}
    IN  /\ replays' = [k \in DOMAIN replays \ stale |-> replays[k]]
        /\ bytes' = bytes - Total(replays, stale)

-----------------------------------------------------------------------------
(* ReplayManager: applying.  A message has a role and a content.           *)

Blocks(content, type) == {i \in DOMAIN content : content[i].type = type}

Ids(messages, type) ==
    UNION {{m.content[i].id : i \in Blocks(m.content, type)} : m \in ToSet(messages)}

Pick(s, indices) ==
    LET order == SetToSortSeq(indices, <)
    IN  [n \in DOMAIN order |-> s[order[n]]]

\* The nth text of some wording in one content matches the nth in the other.
Matched(content, i, other) ==
    Cardinality({j \in 1 .. i : content[j] = content[i]})
      <= Cardinality({j \in DOMAIN other : other[j] = content[i]})

\* orderedReplayContent: the cached blocks in their order, the client's texts
\* that match among them, then what else the client's message has.
Ordered(cached, target, existing) ==
    Pick(cached, {i \in DOMAIN cached :
                    \/ cached[i].type = "thinking"
                    \/ cached[i].type = "tool_use" /\ cached[i].id \in target
                    \/ cached[i].type = "text" /\ Matched(cached, i, existing)})
      \o Pick(existing, {i \in DOMAIN existing :
                    ~(existing[i].type = "text" /\ Matched(existing, i, cached))})

\* matchingReplayTextMessage, 0 for none.
TextMessage(messages, cached, before) ==
    LET texts == {cached[i] : i \in Blocks(cached, "text")}
        matches == {i \in 1 .. before - 1 :
                      messages[i].role = "assistant"
                      /\ ToSet(messages[i].content) \cap texts # {}}
    IN  IF matches = {} THEN 0 ELSE Max(matches)

\* The messages with the state of the record's answer restored.
Restore(record, messages, target) ==
    LET thinking == {record.blocks[i].id : i \in Blocks(record.blocks, "thinking")}
        Replaced(block) == \/ block.type = "thinking" /\ block.id \in thinking
                           \/ block.type = "tool_use" /\ block.id \in target
        Replayed(block) == \/ block.type = "thinking"
                           \/ block.type = "tool_use" /\ block.id \in target
        holders == {i \in DOMAIN messages :
                      \E j \in DOMAIN messages[i].content : Replaced(messages[i].content[j])}
        filtered == [i \in DOMAIN messages |->
                       [messages[i] EXCEPT !.content =
                          SelectSeq(@, LAMBDA block : ~Replaced(block))]]
        insertAt == Min({i \in DOMAIN messages :
                           \E block \in ToSet(messages[i].content) :
                             block.type = "tool_result" /\ block.id \in target})
        replaceAt == IF holders # {} THEN Min(holders)
                     ELSE TextMessage(filtered, record.blocks, insertAt)
    IN  IF replaceAt \in 1 .. insertAt - 1
        THEN [filtered EXCEPT ![replaceAt].content = Ordered(record.blocks, target, @)]
        ELSE InsertAt(filtered, insertAt,
                      [role |-> "assistant", content |-> SelectSeq(record.blocks, Replayed)])

\* The record's calls that the messages have results of.
TargetCalls(record, messages) ==
    {record.blocks[i].id : i \in Blocks(record.blocks, "tool_use")}
       \cap Ids(messages, "tool_result")

\* Fault: a call that is there needs no reasoning.
NeedsCallsOnly(record, messages) ==
    ~(TargetCalls(record, messages) \subseteq Ids(messages, "tool_use"))

\* Some of the answer's state is missing from the messages.
NeedsReplay(record, messages) ==
    \/ ~(TargetCalls(record, messages) \subseteq Ids(messages, "tool_use"))
    \/ ~({record.blocks[i].id : i \in Blocks(record.blocks, "thinking")}
           \subseteq Ids(messages, "thinking"))

\* Apply, with a record that was found.
Apply(record, messages) ==
    LET target == TargetCalls(record, messages)
    IN  IF target = {} \/ ~NeedsReplay(record, messages) THEN messages
        ELSE Restore(record, messages, target)

\* The account that the request then prefers, if any.
Affinity(record, messages) ==
    IF TargetCalls(record, messages) = {} THEN {} ELSE {record.account}

\* WithoutThinking.
WithoutThinking(messages) ==
    [i \in DOMAIN messages |->
       [messages[i] EXCEPT !.content =
          SelectSeq(@, LAMBDA block : block.type # "thinking")]]

-----------------------------------------------------------------------------
(* normalizeMessages: the items of the request, in order.                  *)

Items(messages) == FlattenSeq([i \in DOMAIN messages |-> messages[i].content])

\* A result must come after its call.
Accepted(messages) ==
    LET items == Items(messages)
    IN  \A i \in DOMAIN items :
          items[i].type = "tool_result"
            => \E j \in 1 .. i - 1 : items[j].type = "tool_use" /\ items[j].id = items[i].id
=============================================================================
