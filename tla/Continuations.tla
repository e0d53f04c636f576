--------------------------- MODULE Continuations ----------------------------
(***************************************************************************)
(* The continuation store (internal/conversation/continuation.go) and the  *)
(* resolution of a request against it (internal/server/session.go).        *)
(*                                                                         *)
(* A transcript is a sequence of items.  What a response emits carries the *)
(* identity of the response, as its item ids and call ids do; the texts of *)
(* users are all alike, so that conversations of equal wording exist.      *)
(***************************************************************************)
EXTENDS Clock, Sequences, FiniteSets, SequencesExt

CONSTANTS
    None,
    Ttl       \* the ttl that NewContinuationManager is given

ASSUME ContinuationsAssumption == Ttl \in Nat

VARIABLE records    \* response id -> ContinuationRecord

User == [kind |-> "user", of |-> None]
Item(kind, r) == [kind |-> kind, of |-> r]

-----------------------------------------------------------------------------
(* ContinuationManager.                                                    *)

Expired(record) == now > record.expires

\* Put.  stamp orders records by CreatedAt.
Put(r, record, stamp) ==
    records' = [k \in DOMAIN records \cup {r} |->
                   IF k = r THEN [record EXCEPT !.created = stamp, !.expires = now + Ttl]
                   ELSE records[k]]

Drop(keys) == records' = [k \in DOMAIN records \ keys |-> records[k]]

\* Fault: a sweep drops what expires now.
SweepEarly == Drop({r \in DOMAIN records : now >= records[r].expires})

\* Sweep, and the loop over all records of ListAll.
DropExpired == Drop({r \in DOMAIN records : Expired(records[r])})

\* ListAll and ListByConversation, which list the newest first.
ListAll == {r \in DOMAIN records : ~Expired(records[r])}
ListByConversation(key) == {r \in ListAll : records[r].key = key}
Newest(rs) == {r \in rs : \A s \in rs : records[s].created <= records[r].created}

-----------------------------------------------------------------------------
(* Derive: what a conversation is recognised by.                           *)

IsModelItem(item) == item.kind \in {"assistant", "call"}

\* The items up to the last one that the model made; all, if it made none.
ConversationPrefix(input) ==
    LET made == {i \in DOMAIN input : IsModelItem(input[i])}
    IN  IF made = {} THEN input ELSE SubSeq(input, 1, Max(made))

Derive(settings, input) == <<settings, ConversationPrefix(input)>>

-----------------------------------------------------------------------------
(* resolveSession.  settings stands for the model and the instructions.    *)

HasPriorHistory(input) ==
    \E i \in DOMAIN input : input[i].kind \in {"assistant", "call", "result"}

CanImplicitlyResume(record, settings, input) ==
    record.settings = settings /\ HasPriorHistory(input)

Suffix(input, record) ==
    SubSeq(input, Len(record.history) + 1, Len(input))

\* Fault: a shorter history is taken for a prefix.
PrefixByLength(input, record) == Len(record.history) < Len(input)

\* trimmedContinuationInput succeeds.  A result of a call that the record's
\* response did not make would be unknown to the upstream.
Continues(input, record) ==
    /\ record.history # <<>>
    /\ IsStrictPrefix(record.history, input)
    /\ \A i \in DOMAIN Suffix(input, record) :
          LET item == Suffix(input, record)[i]
          IN  item.kind = "result" => item.of \in record.calls

\* Of the listed records, the first that the input continues.
Resumable(listed, settings, input) ==
    Newest({r \in listed : /\ CanImplicitlyResume(records[r], settings, input)
                           /\ Continues(input, records[r])})

\* A request as it is sent on: how it was resolved, what it names upstream,
\* its input, the whole request that could be sent in its place, the account
\* it prefers, and its conversation key.
Plain(settings, input) ==
    [how |-> "plain", prev |-> None, input |-> input, full |-> input,
     preferred |-> None, key |-> Derive(settings, input)]

Implicit(r, input) ==
    [how |-> "implicit", prev |-> r, input |-> Suffix(input, records[r]), full |-> input,
     preferred |-> records[r].account, key |-> records[r].key]

\* Without a previous response: the newest record of the conversation that the
\* input continues, else of any.
ResolveImplicit(settings, input) ==
    LET own == Resumable(ListByConversation(Derive(settings, input)), settings, input)
        any == Resumable(ListAll, settings, input)
    IN  IF own # {} THEN {Implicit(r, input) : r \in own}
        ELSE IF any # {} THEN {Implicit(r, input) : r \in any}
        ELSE {Plain(settings, input)}

\* With one, whose record was read.
ResolveExplicit(r, input) ==
    LET record == records[r]
    IN  [how |-> "explicit", prev |-> r, input |-> input,
         full |-> record.history \o input,
         preferred |-> record.account, key |-> record.key]

\* rememberContinuation, of a request as it was resolved.
Remembered(account, settings, resolved, output) ==
    [account |-> account, key |-> resolved.key, settings |-> settings,
     history |-> resolved.input \o output,
     calls |-> {item.of : item \in {i \in ToSet(output) : i.kind = "call"}},
     created |-> 0, expires |-> 0]
=============================================================================
