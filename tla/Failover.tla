------------------------------ MODULE Failover ------------------------------
(***************************************************************************)
(* One request of a client, from its resolution to the last byte it reads  *)
(* (internal/server/public.go, with the failure classification of          *)
(* internal/server/upstream_errors.go), over the account service.          *)
(*                                                                         *)
(* A request that names a previous response is pinned to the account that  *)
(* made it, or replayed in full when its transcript is known; any other is *)
(* tried on one eligible account after another until one begins to answer. *)
(* Other requests and the administrator change the accounts at any step.   *)
(* Upstream is called over HTTP, or over a WebSocket, which nothing bounds *)
(* in time.  EnsureReady is one step here: AccountManager has its steps.   *)
(* A request over the public Responses WebSocket is sent once, with none   *)
(* of this (responses_websocket.go): Conversations has it.                 *)
(* A request for images first goes to the upstream's own image endpoint,   *)
(* on one account after another, and where there is none becomes a request *)
(* for a response (internal/server/images.go, images_direct.go).           *)
(***************************************************************************)
EXTENDS Accounts

CONSTANTS
  Supporting,        \* accounts that support the model of the request
  Shapes,            \* the requests the client may send
  Touched,           \* accounts that others change meanwhile
  MaxSends           \* bound on the count of sends to one account

\* kind is "explicit" when the client names the previous response, "implicit"
\* when the proxy recognises its transcript, "image" when it asks for images,
\* "plain" otherwise.  history: the transcript of the previous response is
\* known.  named: the request names a model.  encrypted: its input has encrypted
\* reasoning.  searches: it uses the hosted web search, or asks to generate.
\* origin: the account that made the previous response.
Shape == [kind: {"plain", "explicit", "implicit", "image"}, history: BOOLEAN, named: BOOLEAN,
          encrypted: BOOLEAN, searches: BOOLEAN, origin: Ids \cup {None}]

ASSUME FailoverAssumption ==
  /\ Shapes \subseteq Shape
  /\ \A s \in Shapes :
       IF s.kind \in {"plain", "image"} THEN s.origin = None ELSE s.named /\ s.origin # None
  /\ \A s \in Shapes : s.kind = "image" => ~s.named /\ ~s.encrypted /\ ~s.searches
  /\ Supporting \subseteq Ids
  /\ MaxSends \in Nat \ {0}

VARIABLES
  shape,             \* the request, as the client sent it
  at,                \* the step the request is at
  kind,              \* how it is sent: its kind, "direct" to the image endpoint, or
                     \* "bare" (see Reopened)
  named,             \* the model is known
  preferred,         \* the preferred account, or None
  tried,             \* accounts tried since the request was last opened
  account,           \* the account of the current or last attempt, or None
  error,             \* the error of the last attempt, or None
  stripped,          \* the encrypted reasoning was dropped
  gone,              \* the client has gone away
  remembered,        \* the account the answer's continuation record names, or None
  sends              \* history: how often the request was sent to each account

request == <<shape, at, kind, named, preferred, tried, account, error, stripped, gone,
             remembered, sends>>

\* Answers of upstream, by what they lead to: 401, 402, a generic 403, the 403
\* of an interstitial page, 429, other transient answers and broken
\* transports, 400 and the like, a reasoning signature that is not accepted.
Upstream == {"unauthorized", "payment", "forbidden", "challenge", "limited", "unavailable",
             "invalid", "signature"}

\* 404 and the like say that there is no image endpoint.
Answers == IF kind = "direct" THEN Upstream \cup {"absent"} ELSE Upstream

\* Fault: a 403 is taken for a final answer.
RetryableButForbidden == {"unauthorized", "payment", "limited", "unavailable", "unready"}

\* "unready" is an account that EnsureReady refused.
Retryable == {"unauthorized", "payment", "forbidden", "challenge", "limited", "unavailable", "unready"}

\* A request that only its account of origin may serve.
Pinned == kind = "implicit" \/ (kind = "explicit" /\ ~shape.history)

\* openStreamWithFailover and openDirectImageWithFailover, in place of a single
\* attempt.
Failing == ~Pinned /\ kind # "bare"

\* What names a previous response goes over a WebSocket, and so does what
\* searches, but for the full request after an implicit resume.
OverSocket ==
  \/ Pinned \/ kind = "bare"
  \/ shape.searches /\ kind # "direct" /\ (shape.kind = "implicit" => stripped)

----------------------------------------------------------------------------
(* classifyUpstreamError: what an error says of the account.               *)

KnownQuota(id) == IF id \in DOMAIN records THEN records[id].quota ELSE None

\* The end of a cooldown: the reset of a known window, or a fixed length.
Cooldowns(reset) == IF reset = None THEN {now + length : length \in CooldownLengths} ELSE {reset}

\* A 429 may itself say when to retry.
CooldownsOf(id, err) ==
  CASE err = "forbidden" -> Cooldowns(None)
    [] err = "payment"   -> Cooldowns(QuotaReset(KnownQuota(id), now))
    [] err = "limited"   -> Cooldowns(PrimaryReset(KnownQuota(id), now)) \cup Cooldowns(None)
    [] OTHER             -> {}

Classify(id, err) ==
  \/ err = "unauthorized" /\ MarkError(id, "expired")
  \/ \E until \in CooldownsOf(id, err) : SetCooldown(id, until)
  \/ err \notin {"unauthorized", "forbidden", "payment", "limited"} /\ UNCHANGED vars

----------------------------------------------------------------------------
(* The control of one request.                                             *)

\* openStream.
Open ==
  /\ at = "new"
  /\ at' = "acquire"
  /\ tried' = {}
  /\ account' = IF Pinned THEN preferred ELSE None
  /\ error' = None
  /\ UNCHANGED <<vars, shape, kind, named, preferred, stripped, gone, remembered, sends>>

Goes(step, err) ==
  /\ at' = step
  /\ error' = err
  /\ UNCHANGED <<shape, kind, named, preferred, tried, account, stripped, gone, remembered, sends>>

\* handleOpenStreamError classifies the error that is left, which the loop has
\* done before when every account was tried.
Report ==
  /\ at = "report"
  /\ Classify(account, error)
  /\ Goes("failed", None)

\* Fault: what falls back is still an implicit resume.
FallsBackAsIs ==
  /\ at' = "acquire"
  /\ UNCHANGED <<shape, kind, named, preferred, tried, account, error, stripped, remembered, sends>>

\* An implicit resume that failed: the full request, on any account.
FallsBack ==
  /\ kind = "implicit"
  /\ kind' = "plain"
  /\ preferred' = None
  /\ account' = None
  /\ at' = "acquire"
  /\ UNCHANGED <<shape, named, tried, error, stripped, remembered, sends>>

Reopens(err) == err = "signature" /\ shape.encrypted /\ ~stripped

\* Once without the encrypted reasoning, preferring the account that refused
\* it.  A previous response without a transcript is still named, by a request
\* that is not pinned any more.
Reopened ==
  /\ stripped' = TRUE
  /\ preferred' = account
  /\ kind' = IF kind = "bare" \/ Pinned THEN "bare" ELSE "plain"
  /\ at' = "new"
  /\ UNCHANGED <<shape, named, tried, account, error, gone, remembered, sends>>

\* Fault: the account is not remembered as tried.
TriesAgain(err) == Goes("acquire", err)

TriesNext(err) ==
  /\ at' = "acquire"
  /\ error' = err
  /\ tried' = tried \cup {account}
  /\ UNCHANGED <<shape, kind, named, preferred, account, stripped, gone, remembered, sends>>

\* The images are asked for as a response, which names no model.
Converts ==
  /\ kind' = "plain"
  /\ at' = "new"
  /\ UNCHANGED <<shape, named, preferred, tried, account, error, stripped, gone, remembered, sends>>

\* An attempt fails before the client has read anything.
AttemptFails(err) ==
  \/ err = "absent" /\ Converts /\ UNCHANGED vars
  \/ /\ FallsBack
     /\ gone' = (gone \/ err = "cancelled")
     /\ UNCHANGED vars
  \/ /\ Failing /\ err \in Retryable
     /\ TriesNext(err)
     /\ Classify(account, err)
  \/ /\ kind # "implicit" /\ ~(Failing /\ err \in Retryable) /\ err # "absent"
     /\ IF Reopens(err) THEN Reopened
        ELSE IF err = "cancelled" THEN Goes("failed", None) ELSE Goes("report", err)
     /\ UNCHANGED vars

----------------------------------------------------------------------------
(* acquireAccountForResolutionExcluding, and EnsureReady in one step.      *)

Allowed == ((IF named THEN Supporting ELSE Ids) \cap 1..created) \ tried

HasLastError == reply'.saved /\ error # None

\* When no account is left the error of the last attempt is the answer.
Acquire ==
  /\ at = "acquire" /\ ~Pinned
  /\ AcquireMatching(preferred, Allowed)
  /\ IF reply'.ok
     THEN /\ at' = "ready"
          /\ account' = reply'.id
          /\ UNCHANGED <<shape, kind, named, preferred, tried, error, stripped, gone, remembered, sends>>
     ELSE IF HasLastError THEN Goes("report", error) ELSE Goes("failed", None)

AcquirePinned ==
  /\ at = "acquire" /\ Pinned
  /\ Goes("ready", error)
  /\ UNCHANGED vars

UsableNow(id) ==
  /\ reply'.ok /\ id \in DOMAIN records'
  /\ records'[id].status # "disabled" /\ records'[id].token # NoToken
  /\ Pinned => id \in Supporting

\* The model of a request that names none is the account's default, from now on.
Sendable ==
  /\ at' = "send"
  /\ named' = (named \/ kind # "direct")
  /\ UNCHANGED <<shape, kind, preferred, tried, account, error, stripped, gone, remembered, sends>>

\* The account that a request without a model got has no default model.
NoDefault == ~named /\ kind # "direct" /\ Goes("failed", None)

\* A request that names no model fails with the first account that is not ready.
Persists == Failing /\ (named \/ kind = "direct")

\* A pinned request is refused without a word of why.
NotReady ==
  \/ FallsBack /\ UNCHANGED gone
  \/ kind = "explicit" /\ Pinned /\ Goes("failed", None)
  \/ Persists /\ TriesNext("unready")
  \/ ~Pinned /\ ~Persists /\ Goes("failed", None)

\* The record as it is, a refreshed one, one whose refresh token was refused,
\* and one whose refresh failed or was cut off by the client.
Ready ==
  /\ at = "ready"
  /\ \/ Read /\ IF UsableNow(account) THEN Sendable \/ NoDefault ELSE NotReady
     \/ \E token \in Tokens :
          /\ RenewedBy(account, token) /\ UpdateAuth(account, None, token)
          /\ IF UsableNow(account) THEN Sendable \/ NoDefault ELSE NotReady
     \/ MarkError(account, "expired") /\ NotReady
     \/ \E length \in CooldownLengths :
          SetCooldown(account, now + length) /\ (NotReady \/ (Failing /\ Goes("failed", None)))

----------------------------------------------------------------------------
(* One attempt.                                                            *)

Send ==
  /\ at = "send"
  /\ at' = "sent"
  /\ sends' = [sends EXCEPT ![account] = IF @ < MaxSends THEN @ + 1 ELSE @]
  /\ UNCHANGED <<vars, shape, kind, named, preferred, tried, account, error, stripped, gone, remembered>>

\* Rate limits in headers and events are recorded and not passed on.
Observe ==
  /\ at \in {"sent", "deliver"}
  /\ \E quota \in ObservedQuotas : ObserveQuota(account, quota)
  /\ UNCHANGED request

\* The call fails, or the stream of a failing-over request does before its
\* first event for the client (prepareStreamForDelivery); or delivery begins.
\* Nothing else comes back for a client that has gone.
Sent ==
  /\ at = "sent"
  /\ \/ \E err \in (IF gone THEN {} ELSE Answers) \cup {"cancelled"} : AttemptFails(err)
     \/ ~gone /\ Goes("deliver", error) /\ UNCHANGED vars

\* Fault: a stream that breaks while it is delivered is failed over.
BreaksOver(err) == TriesNext(err)

BreaksOff(err) == Goes("broken", None)

\* The stream ends without a terminal event, or with an error, or the client
\* goes away.
Breaks ==
  /\ at = "deliver" /\ kind # "direct"
  /\ \/ \E err \in Upstream : Classify(account, err) /\ BreaksOff(err)
     \/ BreaksOff(None) /\ UNCHANGED vars

\* The image endpoint's answer is passed on as it is: it breaks, or is whole.
DirectEnds ==
  /\ at = "deliver" /\ kind = "direct"
  /\ \/ BreaksOff(None) /\ UNCHANGED vars
     \/ Goes("served", None) /\ NoteSuccess(account)

\* A response with images, of which no continuation is recorded; one without
\* images is an error.
ImagesEnd ==
  /\ at = "deliver" /\ kind # "direct" /\ shape.kind = "image"
  /\ Goes("served", None)
  /\ NoteSuccess(account)

\* A terminal event.  A response without an identifier is not remembered.
Finishes ==
  /\ at = "deliver" /\ shape.kind # "image"
  /\ NoteSuccess(account)
  /\ at' = "served"
  /\ remembered' \in {account, None}
  /\ error' = None
  /\ UNCHANGED <<shape, kind, named, preferred, tried, account, stripped, gone, sends>>

----------------------------------------------------------------------------
(* The specification.                                                      *)

FailoverInit ==
  /\ Init
  /\ shape \in Shapes
  /\ at = "new"
  /\ kind = (IF shape.kind = "image" THEN "direct" ELSE shape.kind) /\ named = shape.named /\ preferred = shape.origin
  /\ tried = {} /\ account = None /\ error = None
  /\ stripped = FALSE /\ gone = FALSE
  /\ remembered = None
  /\ sends = [id \in 1..MaxAccounts |-> 0]

Ended == {"served", "broken", "failed"}

RequestStep ==
  \/ Open \/ Acquire \/ AcquirePinned \/ Ready \/ Send \/ Sent \/ Breaks \/ Finishes
  \/ DirectEnds \/ ImagesEnd \/ Report

\* Other requests and the administrator; what they do after the end of this
\* request is of no concern to it.
Elsewhere ==
  /\ at \notin Ended
  /\ \/ Tick
     \/ \E id \in Touched \cap 1..created :
          \/ Remove(id)
          \/ \E status \in {"active", "disabled"} : Patch(id, status)
          \/ \E length \in CooldownLengths : SetCooldown(id, now + length)
  /\ UNCHANGED request

FailoverNext == RequestStep \/ Observe \/ Elsewhere

\* A message is awaited from an upstream WebSocket: the read has no deadline, and
\* the end of the request's context does not end it (WSStream.NextEvent).
WaitsOnSocket == at \in {"sent", "deliver"} /\ OverSocket

\* Every call upstream over HTTP ends by its timeout, or when the client goes away.
FailoverSpec ==
  /\ FailoverInit /\ [][FailoverNext]_<<vars, request>>
  /\ WF_<<vars, request>>(~WaitsOnSocket /\ RequestStep)

----------------------------------------------------------------------------
(* Properties.                                                             *)

\* A request is sent to one account once, once more after a resume that was
\* the proxy's own idea, once more without its encrypted reasoning, and once
\* more when there is no image endpoint.
FewSends ==
  \A id \in 1..MaxAccounts :
    sends[id] <= 1 + (IF shape.kind = "implicit" \/ (shape.kind = "image" /\ kind # "direct")
                      THEN 1 ELSE 0)
                   + (IF stripped THEN 1 ELSE 0)

\* Errors that docs/TRANSLATION.md lists as retryable.
DocumentedRetryable == {"unauthorized", "payment", "forbidden", "challenge", "limited", "unavailable"}

\* A request that fails over gives up on a retryable error only when every
\* account that could be routed to at that moment was tried: no classification
\* of an error, and nothing others do meanwhile, makes it stop early.
GivesUpLast ==
  [][Failing /\ at # "report" /\ at' = "report" /\ error' \in DocumentedRetryable =>
       \A id \in DOMAIN records \cap (IF kind = "direct" THEN Ids ELSE Supporting) : Routable(records[id]) => id \in tried]_<<vars, request>>

\* What the client sees of the request.
Client == IF at \in Ended THEN at ELSE IF at = "deliver" THEN "reading" ELSE "waiting"

OneAnswer == INSTANCE Delivery WITH
  Servers <- 1..MaxAccounts, Nobody <- None, client <- Client, asked <- sends, keeper <- remembered,
  from <- IF at \in {"deliver", "served", "broken"} THEN account ELSE None

\* The request is an exchange as Delivery describes it: once output has begun
\* nothing more is sent upstream, and it is all of one account, the only one
\* the conversation may continue with.
IsOneAnswer == OneAnswer!Spec

\* Every request ends, whatever the accounts and the administrator do, unless an
\* upstream WebSocket falls silent for ever with the connection open.
RequestEnds == <>(at \in Ended) \/ <>[]WaitsOnSocket

=============================================================================
