--------------------------- MODULE AccountManager ---------------------------
(***************************************************************************)
(* Readying an account for a request                                       *)
(* (internal/accountmanager/manager.go), with the handlers of              *)
(* internal/server/admin.go that call it, over the account service.        *)
(*                                                                         *)
(* A caller is the goroutine of one request.  Between two calls of the     *)
(* service it holds no lock of the service, so other requests, logins and  *)
(* the administrator change the records; a lock per account, held from the *)
(* second read of the record to the answer, admits one refresh at a time.  *)
(*                                                                         *)
(* The OAuth server replaces a refresh token it accepts, or leaves it      *)
(* valid; a replaced or revoked one is refused.  A grant stands for the    *)
(* refresh token: grant[t] is the one stored with the access token t.      *)
(***************************************************************************)
EXTENDS Accounts

CONSTANTS
  Callers,           \* requests in progress
  Does,              \* the operations a caller may begin
  NoGrant            \* the empty refresh token

\* Access tokens are numbered in the order they are issued.
ASSUME ManagerAssumption ==
  /\ Tokens = 1..Cardinality(Tokens) /\ IsFiniteSet(Tokens)
  /\ NoGrant \notin Tokens
  /\ None \notin Callers
  /\ MaxAccounts > 0
  /\ Does \in [Callers -> SUBSET {"acquire", "ensure", "refresh", "usage", "logout"}]

\* Every account a first start finds has a token of its own, the first ones
\* that were issued.
ASSUME FileTokensAssumption ==
  \A file \in InitialFiles :
    LET held == {id \in DOMAIN file.records : file.records[id].token # NoToken} IN
    /\ \A i, j \in held : file.records[i].token = file.records[j].token => i = j
    /\ \E n \in 0..MaxAccounts : {file.records[id].token : id \in held} = 1..n

VARIABLES
  calls,             \* what every caller is doing
  answer,            \* the caller given a record last, and its token, or None
  holder,            \* the caller holding the lock of an account, or None
  issued,            \* number of access tokens issued so far
  grant,             \* the refresh token stored with an access token
  dead,              \* refresh tokens the OAuth server refuses
  stale,             \* access tokens that expire within the refresh skew
  replaced,          \* history: refresh tokens this process was told are replaced
  excused            \* history: accounts whose refresh token was lost or revoked

managerVars == <<calls, answer, holder, issued, grant, dead, stale, replaced, excused>>

oauth == <<issued, grant, dead, stale, replaced, excused>>

Idle == [at |-> "idle", op |-> "ensure", id |-> 1, token |-> NoToken]

\* EnsureReady refuses these two and no other record: an expired account, or
\* one in cooldown, is readied.
Usable(record) == record.status # "disabled" /\ record.token # NoToken

----------------------------------------------------------------------------
(* Steps of a call.                                                        *)

\* The call goes on, remembering the token of the record it has read.
GoesWith(c, at, token) ==
  /\ calls' = [calls EXCEPT ![c].at = at, ![c].token = token]
  /\ answer' = None

Goes(c, at) == GoesWith(c, at, NoToken)

Released(c) == [holder EXCEPT ![calls[c].id] = IF @ = c THEN None ELSE @]

\* Fault: an error returns without releasing the lock.
EndsLocked(c) ==
  /\ calls' = [calls EXCEPT ![c] = Idle]
  /\ answer' = None
  /\ UNCHANGED holder

\* The call ends with an error.
Ends(c) ==
  /\ calls' = [calls EXCEPT ![c] = Idle]
  /\ answer' = None
  /\ holder' = Released(c)

\* The record goes to the caller; the usage handler sends a request with it.
Ready(c, token) ==
  /\ calls' = [calls EXCEPT ![c] = IF calls[c].op = "usage" THEN [calls[c] EXCEPT !.at = "usage"]
                                                          ELSE Idle]
  /\ answer' = [caller |-> c, token |-> token]
  /\ holder' = Released(c)

\* Whether a Get of the service found the record.
Found(id) == reply'.ok /\ id \in DOMAIN records'

Begin(c, op, id) ==
  /\ op \in Does[c] \ {"acquire"}
  /\ calls[c].at = "idle"
  /\ calls' = [calls EXCEPT ![c] =
       [at |-> CASE op = "refresh" -> "lock"
                 [] op = "logout"  -> "logout"
                 [] OTHER          -> "look",
        op |-> op, id |-> id, token |-> NoToken]]
  /\ answer' = None
  /\ UNCHANGED <<vars, holder, oauth>>

\* AcquireReady: selection, then EnsureReady of the account selected.
BeginAcquire(c) ==
  /\ "acquire" \in Does[c]
  /\ calls[c].at = "idle"
  /\ AcquireMatching(None, 1..created)
  /\ calls' = IF reply'.ok
              THEN [calls EXCEPT ![c] = [at |-> "look", op |-> "ensure", id |-> reply'.id,
                                         token |-> NoToken]]
              ELSE calls
  /\ answer' = None
  /\ UNCHANGED <<holder, oauth>>

\* Fault: the refresh does not wait for the lock.
LookRefreshesAtOnce(c) ==
  LET record == records'[calls[c].id] IN
  /\ calls[c].at = "look"
  /\ Read
  /\ IF ~Found(calls[c].id) \/ ~Usable(record)
     THEN Ends(c)
     ELSE IF record.token \in stale
     THEN GoesWith(c, "sent", record.token) /\ UNCHANGED holder
     ELSE Ready(c, record.token)
  /\ UNCHANGED oauth

\* The first read, without the lock.
Look(c) ==
  LET record == records'[calls[c].id] IN
  /\ calls[c].at = "look"
  /\ Read
  /\ IF ~Found(calls[c].id) \/ ~Usable(record)
     THEN Ends(c)
     ELSE IF record.token \in stale
     THEN Goes(c, "lock") /\ UNCHANGED holder
     ELSE Ready(c, record.token)
  /\ UNCHANGED oauth

Lock(c) ==
  /\ calls[c].at = "lock"
  /\ holder[calls[c].id] = None
  /\ holder' = [holder EXCEPT ![calls[c].id] = c]
  /\ Goes(c, "held")
  /\ UNCHANGED <<vars, oauth>>

\* Fault: the holder before is taken to have refreshed the record.
HeldTrustsHolder(c) ==
  LET record == records'[calls[c].id] IN
  /\ calls[c].at = "held"
  /\ Read
  /\ IF ~Found(calls[c].id) \/ (calls[c].op # "refresh" /\ ~Usable(record))
     THEN Ends(c)
     ELSE IF calls[c].op = "refresh"
     THEN GoesWith(c, "sent", record.token) /\ UNCHANGED holder
     ELSE Ready(c, record.token)
  /\ UNCHANGED oauth

\* The second read: the caller that held the lock before may have refreshed
\* the record, or the administrator removed or disabled it.  Refresh refreshes
\* it whatever its status and its expiry.
Held(c) ==
  LET record == records'[calls[c].id] IN
  /\ calls[c].at = "held"
  /\ Read
  /\ IF ~Found(calls[c].id) \/ (calls[c].op # "refresh" /\ ~Usable(record))
     THEN Ends(c)
     ELSE IF calls[c].op = "refresh" \/ record.token \in stale
     THEN GoesWith(c, "sent", record.token) /\ UNCHANGED holder
     ELSE Ready(c, record.token)
  /\ UNCHANGED oauth

----------------------------------------------------------------------------
(* The OAuth server.                                                       *)

\* The refresh token presented by a call that has sent its request.
Presented(c) == IF calls[c].token = NoToken THEN NoGrant ELSE grant[calls[c].token]

Refused(c) ==
  /\ Presented(c) \in dead \cup {NoGrant}
  /\ Goes(c, "refused")
  /\ UNCHANGED <<vars, holder, oauth>>

\* Fault: a response without a refresh token leaves the record without one.
KeepsNone(old) == NoGrant

\* A response without a refresh token: the old one is kept.
Keeps(old) == old

Renews(c) ==
  LET old == Presented(c)
      new == issued + 1
  IN
  /\ old \notin dead \cup {NoGrant}
  /\ new \in Tokens
  /\ issued' = new
  /\ \/ /\ grant' = [grant EXCEPT ![new] = new]
        /\ dead' = dead \cup {old}
        /\ replaced' = replaced \cup {old}
     \/ /\ grant' = [grant EXCEPT ![new] = Keeps(old)]
        /\ UNCHANGED <<dead, replaced>>
  /\ GoesWith(c, "answered", new)
  /\ UNCHANGED <<vars, holder, stale, excused>>

\* A timeout, a broken connection, an error of the server or a client that
\* went away: the server may have replaced the refresh token or not.
Unanswered(c) ==
  /\ Goes(c, "failed")
  /\ \/ UNCHANGED <<dead, excused>>
     \/ /\ dead' = dead \cup {Presented(c)}
        /\ excused' = excused \cup {calls[c].id}
  /\ UNCHANGED <<vars, holder, issued, grant, stale, replaced>>

Answer(c) ==
  /\ calls[c].at = "sent"
  /\ Refused(c) \/ Renews(c) \/ Unanswered(c)

----------------------------------------------------------------------------
(* After the answer.                                                       *)

\* Saved or not, the token is in memory; UpdateAuth of an account that is gone
\* changes nothing.
Store(c) ==
  /\ calls[c].at = "answered"
  /\ UpdateAuth(calls[c].id, None, calls[c].token)
  /\ IF reply'.ok
     THEN GoesWith(c, "stored", calls[c].token) /\ UNCHANGED holder
     ELSE Ends(c)
  /\ UNCHANGED oauth

Reread(c) ==
  /\ calls[c].at = "stored"
  /\ Read
  /\ IF Found(calls[c].id) THEN Ready(c, records'[calls[c].id].token) ELSE Ends(c)
  /\ UNCHANGED oauth

\* The usage handler removes an account whose credentials were refused.
RefusedEnds(c) ==
  IF calls[c].op = "usage"
  THEN Goes(c, "remove") /\ holder' = Released(c)
  ELSE Ends(c)

MarkRefreshFailure(c) ==
  LET id == calls[c].id IN
  /\ \/ calls[c].at = "refused" /\ MarkError(id, "expired") /\ RefusedEnds(c)
     \/ /\ calls[c].at = "failed"
        /\ \E length \in CooldownLengths : SetCooldown(id, now + length)
        /\ Ends(c)
  /\ UNCHANGED oauth

\* GetUsage with the record; an upstream answer of 401 is marked.
Usage(c) ==
  LET id == calls[c].id IN
  /\ calls[c].at = "usage"
  /\ \/ UNCHANGED vars /\ Ends(c)
     \/ MarkError(id, "expired") /\ RefusedEnds(c)
     \/ /\ \E quota \in ObservedQuotas : ObserveQuota(id, quota)
        /\ IF reply'.ok THEN Goes(c, "observed") /\ UNCHANGED holder ELSE Ends(c)
  /\ UNCHANGED oauth

Observe(c) ==
  /\ calls[c].at = "observed"
  /\ Read
  /\ Ends(c)
  /\ UNCHANGED oauth

RemoveRefused(c) ==
  /\ calls[c].at = "remove"
  /\ Remove(calls[c].id)
  /\ Ends(c)
  /\ UNCHANGED oauth

----------------------------------------------------------------------------
(* handleAdminAccountLogout: revoke upstream, then remove.                 *)

LookLogout(c) ==
  /\ calls[c].at = "logout"
  /\ Read
  /\ IF Found(calls[c].id)
     THEN GoesWith(c, "revoke", records'[calls[c].id].token) /\ UNCHANGED holder
     ELSE Ends(c)
  /\ UNCHANGED oauth

\* The refresh token is revoked first, then the access token: when only the
\* second fails the account is kept with a refresh token that is refused.
Revoke(c) ==
  /\ calls[c].at = "revoke"
  /\ \/ /\ dead' = dead \cup ({Presented(c)} \ {NoGrant})
        /\ excused' = excused \cup {calls[c].id}
        /\ Ends(c) \/ (Goes(c, "remove") /\ UNCHANGED holder)
     \/ UNCHANGED <<dead, excused>> /\ Ends(c)
  /\ UNCHANGED <<vars, issued, grant, stale, replaced>>

----------------------------------------------------------------------------
(* The others.                                                             *)

\* A refresh of the account whose answer is still to be stored.
Refreshing(id) == \E c \in Callers : calls[c].id = id /\ calls[c].at \in {"sent", "answered"}

\* A device login ends with a new token, of a grant of its own; the answer of
\* an earlier refresh may still overwrite it.
Login(account) ==
  LET new == issued + 1 IN
  /\ new \in Tokens
  /\ UpsertFromToken(account, new)
  /\ issued' = new
  /\ grant' = [grant EXCEPT ![new] = new]
  /\ excused' = IF Refreshing(reply'.id) THEN excused ELSE excused \ {reply'.id}
  /\ UNCHANGED <<calls, answer, holder, dead, stale, replaced>>

\* The administrator, and requests of other endpoints that upstream refuses.
Outside(id) ==
  /\ \/ Remove(id)
     \/ \E status \in {"active", "disabled"} : Patch(id, status)
     \/ MarkError(id, "expired")
  /\ UNCHANGED managerVars

\* The expiry of a token no record has does not matter.
Ages ==
  /\ \E id \in DOMAIN records :
       /\ records[id].token \notin stale \cup {NoToken}
       /\ stale' = stale \cup {records[id].token}
  /\ UNCHANGED <<vars, calls, answer, holder, issued, grant, dead, replaced, excused>>

TimePasses == Tick /\ UNCHANGED managerVars

\* The calls end with the process.  What the file holds may be older than what
\* memory held.
Crash ==
  /\ Restart
  /\ calls' = [c \in Callers |-> Idle]
  /\ answer' = None
  /\ holder' = [id \in 1..MaxAccounts |-> None]
  /\ replaced' = {}
  /\ excused' = excused \cup {id \in DOMAIN records' :
                                records'[id].token # NoToken /\ grant[records'[id].token] \in dead}
  /\ UNCHANGED <<issued, grant, dead, stale>>

----------------------------------------------------------------------------
(* The specification.                                                      *)

ManagerInit ==
  /\ Init
  /\ calls = [c \in Callers |-> Idle]
  /\ answer = None
  /\ holder = [id \in 1..MaxAccounts |-> None]
  /\ issued = Cardinality(UNION {{records[id].token} \ {NoToken} : id \in DOMAIN records})
  /\ grant = [token \in Tokens |-> IF token <= issued THEN token ELSE NoGrant]
  /\ dead = {} /\ replaced = {} /\ excused = {}
  /\ stale \in SUBSET (1..issued)

Steps(c) ==
  \/ Look(c) \/ Lock(c) \/ Held(c) \/ Answer(c) \/ Store(c) \/ Reread(c)
  \/ MarkRefreshFailure(c) \/ Usage(c) \/ Observe(c) \/ RemoveRefused(c)
  \/ LookLogout(c) \/ Revoke(c)

ManagerNext ==
  \/ \E c \in Callers : Steps(c) \/ BeginAcquire(c)
  \/ \E c \in Callers : \E op \in Does[c], id \in 1..created : Begin(c, op, id)
  \/ \E account \in AccountIDs : Login(account)
  \/ \E id \in 1..created : Outside(id)
  \/ Ages \/ TimePasses \/ Crash

\* A Go mutex is handed over in the order of arrival once a waiter has waited
\* for a millisecond, and every HTTP exchange ends by its timeout.
Fairness == \A c \in Callers : SF_<<vars, managerVars>>(Lock(c)) /\ WF_<<vars, managerVars>>(Steps(c))

ManagerSpec == ManagerInit /\ [][ManagerNext]_<<vars, managerVars>> /\ Fairness

----------------------------------------------------------------------------
(* Properties.                                                             *)

\* A refresh token is never presented again once this process was told of its
\* replacement: a caller that waited for the lock must see what the previous
\* holder stored.
NoSpentGrant ==
  \A c \in Callers : calls[c].at = "sent" => Presented(c) \notin replaced

\* The refresh token of an account is one the OAuth server still accepts, or
\* the answer that replaces it is on its way to the record, unless an answer
\* or an unsaved record was lost or the account was logged out: refreshes,
\* logins, failing saves and removals in any order never lose it.
CredentialsSurvive ==
  \A id \in DOMAIN records \ excused :
    records[id].token # NoToken =>
      \/ grant[records[id].token] \notin dead \cup {NoGrant}
      \/ \E c \in Callers : holder[id] = c /\ calls[c].at = "answered"

\* A call answers with a token that was not about to expire when it read it,
\* or one at least as new as the token its own refresh obtained, whatever the
\* administrator and other logins did to the account meanwhile.
AnswerIsFresh ==
  [][answer' # None /\ answer' # answer =>
       LET call == calls[answer'.caller] IN
       \/ answer'.token \notin stale
       \/ call.at = "stored" /\ answer'.token >= call.token]_<<vars, managerVars>>

\* Every call ends: no caller waits for ever for the lock of an account.
CallsEnd == \A c \in Callers : calls[c].at # "idle" ~> calls[c].at = "idle"

=============================================================================
