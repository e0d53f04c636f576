--------------------------- MODULE Conversations ----------------------------
(***************************************************************************)
(* The requests that continue conversations: over HTTP, as a compaction    *)
(* (internal/server/public.go, internal/server/compact.go) and as turns of *)
(* one Responses WebSocket (internal/server/responses_websocket.go), over  *)
(* the Continuations store.  The upstream keeps the context of each of its *)
(* responses with the account that asked for it.                           *)
(*                                                                         *)
(* Failover tries the accounts of an HTTP request; here it succeeds at one *)
(* or fails.  The response of request q has the id q.                      *)
(***************************************************************************)
EXTENDS Continuations

CONSTANTS
    Accounts,
    Settings,      \* the models and instructions that clients use
    MaxRequests    \* bound: how many requests there are in all

ASSUME ConversationsAssumption ==
    MaxRequests \in Nat /\ None \notin Accounts /\ None \notin Nat

VARIABLES
    requests,      \* the requests so far
    socket         \* the session of the WebSocket

talk == <<records, requests, socket>>

NoSession == [stream |-> None, last |-> None, busy |-> None, heard |-> None]

ConversationsInit ==
    /\ records = <<>>
    /\ requests = <<>>
    /\ socket = NoSession

At(step) == {q \in DOMAIN requests : requests[q].at = step}
Answered == At("answered")
Answering == At("answering")

\* What the upstream knows of a response.
Context(r) == requests[r].given \o requests[r].output

-----------------------------------------------------------------------------
(* The clients.  sent is the input of a request, thread what the client    *)
(* means the model to see, whole all that its conversation ever had, and   *)
(* follows the response that a turn of the socket tacitly continues.       *)

Begin(via, settings, named, follows, sent, thread, whole) ==
    requests' = Append(requests,
        [at |-> "get", via |-> via, settings |-> settings, named |-> named,
         follows |-> follows, sent |-> sent, thread |-> thread, whole |-> whole,
         route |-> None, stripped |-> FALSE,
         account |-> None, over |-> None, given |-> <<>>])

\* What a client adds after a response: the result of its call, or a message.
NextItem(r) ==
    IF Last(requests[r].output).kind = "call" THEN <<Item("result", r)>> ELSE <<User>>

\* A conversation from its last user message on.
LastTurn(items) ==
    SubSeq(items, Max({i \in DOMAIN items : items[i] = User}), Len(items))

New(via, settings) ==
    Begin(via, settings, None, None, <<User>>, <<User>>, <<User>>)

\* With previous_response_id.
Continue(via, r) ==
    LET next == NextItem(r)
    IN  Begin(via, requests[r].settings, r, None, next, requests[r].thread \o next,
              requests[r].whole \o next)

\* With the transcript, of which the client may have dropped the older turns.
Repeat(via, settings, r) ==
    \E kept \in {requests[r].thread, LastTurn(requests[r].thread)} :
        LET sent == kept \o NextItem(r)
        IN  Begin(via, settings, None, None, sent, sent,
                  requests[r].whole \o NextItem(r))

\* A compaction names what it compacts.
AskHttp ==
    /\ Len(requests) < MaxRequests
    /\ \/ \E settings \in Settings : New("http", settings)
       \/ \E r \in Answered :
            \/ Continue("http", r) \/ Continue("compact", r)
            \/ \E settings \in Settings : Repeat("http", settings, r)
    /\ UNCHANGED <<now, records, socket>>

-----------------------------------------------------------------------------
(* Steps that end a request.                                               *)

Ended == [at |-> "ended"]

\* Fault: a turn that fails starts the session anew.
FreesAll(q, stream) ==
    socket' = IF socket.busy = q
              THEN [NoSession EXCEPT !.heard = socket.heard] ELSE socket

Frees(q, stream) ==
    socket' = IF socket.busy = q
              THEN [socket EXCEPT !.busy = None, !.stream = stream]
              ELSE socket

End(q, stream) ==
    /\ requests' = [requests EXCEPT ![q] = Ended]
    /\ Frees(q, stream)

Opens(q, route) == requests' = [requests EXCEPT ![q].at = "open", ![q].route = route]

-----------------------------------------------------------------------------
(* resolveSession and resolveCompactRequest.                               *)

\* Get reads the record, and deletes one that expired in a second step.
Get(q) ==
    /\ requests[q].at = "get" /\ requests[q].named # None
    /\ LET r == requests[q].named
       IN  \/ /\ r \notin DOMAIN records
              /\ End(q, socket.stream)
           \/ /\ r \in DOMAIN records /\ Expired(records[r])
              /\ requests' = [requests EXCEPT ![q].at = "late"]
              /\ UNCHANGED socket
           \/ /\ r \in DOMAIN records /\ ~Expired(records[r])
              /\ Opens(q, ResolveExplicit(r, requests[q].sent))
              /\ UNCHANGED socket
    /\ UNCHANGED <<now, records>>

GetDeletes(q) ==
    /\ requests[q].at = "late"
    /\ Drop({requests[q].named})
    /\ End(q, socket.stream)
    /\ UNCHANGED now

Resolve(q) ==
    /\ requests[q].at = "get" /\ requests[q].named = None
    /\ LET settings == requests[q].settings
           sent == requests[q].sent
       IN  IF requests[q].via = "compact"
           THEN /\ Opens(q, Plain(settings, sent))
                /\ UNCHANGED records
           ELSE /\ \E route \in ResolveImplicit(settings, sent) : Opens(q, route)
                /\ DropExpired
    /\ UNCHANGED <<now, socket>>

-----------------------------------------------------------------------------
(* openStream, and the compaction's call.                                  *)

Route(q) == requests[q].route

\* account is the one that was acquired, over the one whose connection is used.
Sent(q, account, over, given) ==
    requests' = [requests EXCEPT ![q].at = "answering", ![q].account = account,
                                 ![q].over = over, ![q].given = given]

\* The whole request over HTTP, which names no previous response.
OpenHttp(q) ==
    /\ requests[q].at = "open" /\ requests[q].via # "socket"
    /\ Route(q).how # "implicit"
    /\ \E a \in Accounts : Sent(q, a, a, Route(q).full)
    /\ UNCHANGED <<now, records, socket>>

\* An implicit resume goes to its account over a WebSocket of its own.
OpenWs(q) ==
    /\ requests[q].at = "open" /\ requests[q].via = "http"
    /\ Route(q).how = "implicit"
    /\ LET a == Route(q).preferred
       IN  Sent(q, a, a, Context(Route(q).prev) \o Route(q).input)
    /\ UNCHANGED <<now, records, socket>>

\* When that fails, the whole request is sent over HTTP by a copy of the
\* resolution: the original stays trimmed.
FallBack(q) ==
    /\ requests[q].at = "open" /\ requests[q].via = "http"
    /\ Route(q).how = "implicit"
    /\ requests' = [requests EXCEPT ![q].route.how = "fallback"]
    /\ UNCHANGED <<now, records, socket>>

Encrypted(items) == \E i \in DOMAIN items : items[i].kind = "reasoning"
Stripped(items) ==
    LET kept[n \in 0 .. Len(items)] ==
          IF n = 0 THEN <<>>
          ELSE IF items[n].kind = "reasoning" THEN kept[n - 1]
          ELSE Append(kept[n - 1], items[n])
    IN  kept[Len(items)]

\* The upstream refuses the encrypted reasoning of another account: once more
\* without it.
Strip(q) ==
    /\ requests[q].at = "open" /\ requests[q].via = "http"
    /\ Route(q).how # "implicit"
    /\ ~requests[q].stripped /\ Encrypted(Route(q).full)
    /\ LET full == Stripped(Route(q).full)
       IN  requests' = [requests EXCEPT
               ![q].stripped = TRUE,
               ![q].route = [@ EXCEPT !.how = "plain", !.prev = None,
                                      !.input = full, !.full = full]]
    /\ UNCHANGED <<now, records, socket>>

OpenFails(q) ==
    /\ requests[q].at = "open" /\ requests[q].via # "socket"
    /\ Route(q).how # "implicit"
    /\ End(q, None)
    /\ UNCHANGED <<now, records>>
-----------------------------------------------------------------------------
(* The end of a stream.                                                    *)

Outputs(q) == {<<Item("assistant", q)>>, <<Item("reasoning", q), Item("call", q)>>}

\* due holds how the request was resolved until its record is put.
AnswerOf(q, output, due, until) ==
    [at |-> "answered", settings |-> requests[q].settings,
     account |-> requests[q].account, given |-> requests[q].given, output |-> output,
     thread |-> requests[q].thread \o output, whole |-> requests[q].whole \o output,
     due |-> due, until |-> until]

Unkept == {q \in Answered : requests[q].due # {}}

\* rememberContinuation: the request as it was resolved, and its output.
Keeps(q, resolved, output) ==
    Put(q, Remembered(requests[q].account, requests[q].settings, resolved, output),
        Cardinality(Answered \ Unkept))

\* finalizeSuccessfulStream, and the end of the answer: collectEvents and the Chat
\* streams put the record first, and no client knows of it yet.  A compaction
\* leaves none.
Finish(q) ==
    /\ requests[q].at = "answering" /\ requests[q].via # "socket"
    /\ IF requests[q].via = "compact"
       THEN End(q, None) /\ UNCHANGED records
       ELSE \E output \in Outputs(q) :
              /\ requests' = [requests EXCEPT ![q] = AnswerOf(q, output, {}, now + Ttl)]
              /\ Keeps(q, Route(q), output)
              /\ UNCHANGED socket
    /\ UNCHANGED now

\* A Responses stream and a turn of the socket write the end of the answer first.
FinishStream(q) ==
    /\ requests[q].at = "answering" /\ requests[q].via # "compact"
    /\ \E output \in Outputs(q) :
          requests' = [requests EXCEPT ![q] = AnswerOf(q, output, {Route(q)}, None)]
    /\ socket' = IF socket.busy = q THEN [socket EXCEPT !.heard = q] ELSE socket
    /\ UNCHANGED <<now, records>>

\* Then finalizeSuccessfulStream puts the record; what the client asks in between
\* finds none.  Only now does the socket take its next turn.
KeepAnswer(q) ==
    /\ q \in Unkept
    /\ \E resolved \in requests[q].due : Keeps(q, resolved, requests[q].output)
    /\ requests' = [requests EXCEPT ![q].due = {}, ![q].until = now + Ttl]
    /\ socket' = IF socket.busy = q THEN [socket EXCEPT !.busy = None, !.last = q] ELSE socket
    /\ UNCHANGED now

\* The stream breaks, or the upstream reports an error.  A socket keeps its
\* upstream stream in the second case only, and its last response in both.
Breaks(q) ==
    /\ requests[q].at = "answering"
    /\ \E stream \in {None, socket.stream} : End(q, stream)
    /\ UNCHANGED <<now, records>>

-----------------------------------------------------------------------------
(* The Responses WebSocket.                                                *)

\* response.append, and response.create without a transcript or a previous
\* response: handleResponsesWebSocketTurn continues the last response.
SocketNext ==
    LET heard == socket.heard
    IN  \/ /\ heard = None
           /\ \E settings \in Settings :
                 Begin("socket", settings, socket.last, None, <<User>>, <<User>>, <<User>>)
        \/ /\ heard # None
           /\ Begin("socket", requests[heard].settings, socket.last, heard, NextItem(heard),
                    requests[heard].thread \o NextItem(heard),
                    requests[heard].whole \o NextItem(heard))

\* One that names a previous response, or carries a transcript.
SocketOther ==
    \E r \in Answered :
        \/ Continue("socket", r)
        \/ \E settings \in Settings : Repeat("socket", settings, r)

AskSocket ==
    /\ socket.busy = None
    /\ Len(requests) < MaxRequests
    /\ SocketNext \/ SocketOther
    /\ socket' = [socket EXCEPT !.busy = Len(requests')]
    /\ UNCHANGED <<now, records>>

Pinned(q) == Route(q).how \in {"explicit", "implicit"}

\* What is sent names the previous response and has the rest of the input.
SocketContext(q) ==
    (IF Pinned(q) THEN Context(Route(q).prev) ELSE <<>>) \o Route(q).input

\* Fault: a stream is used whatever account it belongs to.
SendOnAny(q) ==
    /\ requests[q].at = "open" /\ requests[q].via = "socket"
    /\ \E a \in (IF Pinned(q) THEN {Route(q).preferred} ELSE Accounts) :
          LET over == IF socket.stream = None THEN a ELSE socket.stream
          IN  /\ Sent(q, a, over, SocketContext(q))
              /\ socket' = [socket EXCEPT !.stream = over]
    /\ UNCHANGED <<now, records>>

\* The account is acquired, the session's if any will do and it is eligible.
\* The session's stream is used if it belongs to that account; otherwise it
\* is closed and another is opened.
Send(q) ==
    /\ requests[q].at = "open" /\ requests[q].via = "socket"
    /\ \E a \in (IF Pinned(q) THEN {Route(q).preferred} ELSE Accounts) :
          LET over == IF socket.stream # a THEN a ELSE socket.stream
          IN  /\ Sent(q, a, over, SocketContext(q))
              /\ socket' = [socket EXCEPT !.stream = over]
    /\ UNCHANGED <<now, records>>

\* No account, or the connection or the send fails.
SendFails(q) ==
    /\ requests[q].at = "open" /\ requests[q].via = "socket"
    /\ \E stream \in {None, socket.stream} : End(q, stream)
    /\ UNCHANGED <<now, records>>

\* The client closes its connection, or a write to it fails: no answer to a turn
\* comes of it, unless the end of the answer was written.
Hangup ==
    /\ socket # NoSession
    /\ requests' = [q \in DOMAIN requests |->
           IF q = socket.busy /\ q \notin Answered THEN Ended ELSE requests[q]]
    /\ socket' = NoSession
    /\ UNCHANGED <<now, records>>

-----------------------------------------------------------------------------
\* The process ends: the records are gone, so are its connections, and what was
\* not put never will be.
ForgetContinuations ==
    /\ records' = <<>>
    /\ socket' = NoSession
    /\ requests' = [q \in DOMAIN requests |->
           IF q \in Answered THEN [requests[q] EXCEPT !.due = {}, !.until = None] ELSE Ended]

ConversationStep ==
    \/ AskHttp \/ AskSocket \/ Hangup
    \/ \E q \in DOMAIN requests :
          \/ Get(q) \/ GetDeletes(q) \/ Resolve(q)
          \/ OpenHttp(q) \/ OpenWs(q) \/ FallBack(q) \/ Strip(q) \/ OpenFails(q)
          \/ Send(q) \/ SendFails(q)
          \/ Finish(q) \/ FinishStream(q) \/ KeepAnswer(q) \/ Breaks(q)

-----------------------------------------------------------------------------
\* The encrypted reasoning apart, which the upstream may have refused.
IsPart(s, t) == IsSuffix(Stripped(s), Stripped(t))

\* The context a request is answered from ends with what the client sent with
\* it and has nothing but the conversation of that client, in its order: no
\* turn of another conversation, though it may read the same, none twice and
\* none out of place, however the request was resolved, trimmed, replayed or
\* fallen back to (resolveSession, openStream).
OwnContext ==
    \A q \in Answering : /\ IsPart(requests[q].sent, requests[q].given)
                         /\ IsPart(requests[q].given, requests[q].whole)

\* A previous response is only named to the account that made it, on a
\* connection of that account, and the answer is remembered under the account
\* whose connection made it (openWSStream, handleResponsesWebSocketTurn).
NamedToItsOwner ==
    \A q \in Answering :
        /\ requests[q].over = requests[q].account
        /\ requests[q].via = "socket" => socket.stream = requests[q].account
        /\ (requests[q].route.how = "implicit" \/ (requests[q].via = "socket" /\ Pinned(q)))
              => requests[Route(q).prev].account = requests[q].account

\* A response that a client got to its end can be continued, with its account, from
\* when its record is put until its time is over, unless the process ended (Put, Get,
\* Sweep, ListAll).  A Responses stream is over for its client before the record is
\* put; the WebSocket takes no other turn before that, however the last one ended
\* (streamResponses, handleResponsesWebSocketTurn).
AnswersLast ==
    /\ \A q \in Answered :
         requests[q].until # None /\ now <= requests[q].until
           => q \in DOMAIN records /\ records[q].account = requests[q].account
    /\ socket.busy = None /\ socket.heard # None
         => socket.last = socket.heard /\ socket.heard \notin Unkept

\* A turn of the WebSocket that names no response is answered from the context
\* of the last response the client has read to its end there, whatever failed
\* in between: a turn, the upstream's stream or the account's connection
\* (handleResponsesWebSocketTurn).
SocketContinues ==
    \A q \in Answering :
        requests[q].follows # None
          => requests[q].given = Context(requests[q].follows) \o requests[q].sent

\* docs/TRANSLATION.md:656 says that a continuation record has the "full
\* replayable input history", and :346 that compaction expands it "into a
\* complete context window": a request that names a previous response is
\* answered from all that the client means by it.
ContextIsComplete ==
    \A q \in Answering :
        requests[q].named # None => IsPart(requests[q].thread, requests[q].given)
=============================================================================
