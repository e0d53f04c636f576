---------------------------- MODULE DeviceLogin ----------------------------
(***************************************************************************)
(* Onboarding through OpenAI's device flow (internal/devicelogin).  Start  *)
(* enters a login in the service's map and starts one goroutine that polls *)
(* the identity server, exchanges the authorization code and hands the     *)
(* token to the account service.  The admin handlers read and cancel the   *)
(* login while the goroutine runs; housekeeping sweeps what is over.       *)
(*                                                                         *)
(* The account service is seen as two sets: the accounts it holds and the  *)
(* accounts its file holds.  Accounts.tla is the detailed model of it.     *)
(***************************************************************************)
EXTENDS Naturals, FiniteSets

CONSTANTS
    Logins,           \* the login ids Start draws, each used once
    Accounts,         \* ChatGPT accounts a user may authorise
    NoAccount,        \* an exchange whose token names no account
    MaxSaveFailures   \* bound: how often writing the accounts file fails

ASSUME LoginAssumption ==
    /\ NoAccount \notin Accounts
    /\ MaxSaveFailures \in Nat

VARIABLES
    logins,     \* DeviceLoginService.logins: login id -> status
    poller,     \* login id -> where its goroutine stands
    overdue,    \* logins whose ExpiresAt has passed
    cancelled,  \* logins whose context Cancel has cancelled
    known,      \* accounts the account service holds
    stored,     \* accounts in the accounts file
    landed,     \* history: the account a login's token was saved under
    failures    \* accounts file writes that failed so far

loginVars == <<logins, poller, overdue, cancelled, landed>>
accountVars == <<known, stored, failures>>

Status == {"pending", "ready", "expired", "error"}

\* What a poll goroutine is doing: the select of line 84, a call in flight,
\* the upsert, or the status it is about to record.
PollerState ==
    [at : {"unborn", "waiting", "asking", "exchanging", "ended"}]
      \cup [at : {"storing"}, account : Accounts]
      \cup [at : {"telling"}, status : Status]

At(l, place) == poller[l].at = place
Goes(l, state) == poller' = [poller EXCEPT ![l] = state]
Tells(l, status) == Goes(l, [at |-> "telling", status |-> status])

\* ctx.Done() of the poll: its deadline has passed or Cancel ended it.
ContextDone(l) == l \in overdue \cup cancelled

InitLogins ==
    /\ logins = [l \in {} |-> "pending"]
    /\ poller = [l \in Logins |-> [at |-> "unborn"]]
    /\ overdue = {}
    /\ cancelled = {}
    /\ landed = [l \in Logins |-> NoAccount]

\* Forget a login: the delete of Cancel and of DeleteExpired.
Forgets(gone) ==
    logins' = [l \in DOMAIN logins \ gone |-> logins[l]]

-----------------------------------------------------------------------------
(* The service's operations.                                               *)

\* Start, once RequestDeviceCode has answered (its failure changes nothing).
Start(l) ==
    /\ At(l, "unborn")
    /\ logins' = [k \in DOMAIN logins \cup {l} |->
                    IF k = l THEN "pending" ELSE logins[k]]
    /\ Goes(l, [at |-> "waiting"])
    /\ UNCHANGED <<overdue, cancelled, landed, accountVars>>

\* Fault: the record is written back even when Cancel deleted it.
SetStatusAnyway(l, expected, status) ==
    logins' = [k \in DOMAIN logins \cup {l} |->
                 IF k = l /\ (l \in DOMAIN logins => logins[l] \in expected)
                 THEN status ELSE logins[k]]

\* setStatus: a login that Cancel or the sweep deleted stays deleted, and an
\* expected status that no longer holds leaves the record alone.
SetStatus(l, expected, status) ==
    logins' = IF l \in DOMAIN logins /\ logins[l] \in expected
              THEN [logins EXCEPT ![l] = status]
              ELSE logins

\* Fault: a poll that runs out of time returns without an outcome.
PollStops(l) ==
    /\ At(l, "waiting") /\ ContextDone(l)
    /\ Goes(l, [at |-> "ended"])
    /\ UNCHANGED <<logins, overdue, cancelled, landed, accountVars>>

\* The select finds the context done.
PollSeesDone(l) ==
    /\ At(l, "waiting") /\ ContextDone(l)
    /\ SetStatus(l, {"pending"}, "expired")
    /\ Goes(l, [at |-> "ended"])
    /\ UNCHANGED <<overdue, cancelled, landed, accountVars>>

\* The select takes the tick, which it may also do when the context is done.
PollTicks(l) ==
    /\ At(l, "waiting")
    /\ Goes(l, [at |-> "asking"])
    /\ UNCHANGED <<logins, overdue, cancelled, landed, accountVars>>

\* PollDeviceCode answers: not yet (a nil result, or an error that says
\* authorization_pending or not found), an authorization code, or an error.
\* A done context makes the call fail, unless its answer had arrived.
PollAnswered(l) ==
    /\ At(l, "asking")
    /\ \/ Goes(l, [at |-> "waiting"])
       \/ Goes(l, [at |-> "exchanging"])
       \/ Tells(l, "error")
    /\ UNCHANGED <<logins, overdue, cancelled, landed, accountVars>>

\* ExchangeAuthorizationCode answers with a token, or fails, or returns a token
\* that names no account.
Exchanged(l) ==
    /\ At(l, "exchanging")
    /\ \E a \in Accounts \cup {NoAccount} :
         IF a = NoAccount
         THEN Tells(l, "error")
         ELSE Goes(l, [at |-> "storing", account |-> a])
    /\ UNCHANGED <<logins, overdue, cancelled, landed, accountVars>>

\* Fault: the error of UpsertFromToken is dropped.
StoredMaybe(l) ==
    /\ At(l, "storing")
    /\ known' = known \cup {poller[l].account}
    /\ Tells(l, "ready")
    /\ \/ /\ stored' = known'
          /\ landed' = [landed EXCEPT ![l] = poller[l].account]
          /\ UNCHANGED failures
       \/ /\ failures < MaxSaveFailures
          /\ failures' = failures + 1
          /\ UNCHANGED <<stored, landed>>
    /\ UNCHANGED <<logins, overdue, cancelled>>

\* UpsertFromToken puts the record in memory and then saves the file; the
\* record stays in memory when the save fails.
Stored(l) ==
    /\ At(l, "storing")
    /\ known' = known \cup {poller[l].account}
    /\ \/ /\ stored' = known'
          /\ landed' = [landed EXCEPT ![l] = poller[l].account]
          /\ Tells(l, "ready")
          /\ UNCHANGED failures
       \/ /\ failures < MaxSaveFailures
          /\ failures' = failures + 1
          /\ Tells(l, "error")
          /\ UNCHANGED <<stored, landed>>
    /\ UNCHANGED <<logins, overdue, cancelled>>

\* The setStatus before each return; no expected status.
PollTells(l) ==
    /\ At(l, "telling")
    /\ SetStatus(l, Status, poller[l].status)
    /\ Goes(l, [at |-> "ended"])
    /\ UNCHANGED <<overdue, cancelled, landed, accountVars>>

\* Cancel deletes the login and then ends the poll's context.
Cancel(l) ==
    /\ l \in DOMAIN logins
    /\ Forgets({l})
    /\ cancelled' = cancelled \cup {l}
    /\ UNCHANGED <<poller, overdue, landed, accountVars>>

\* ExpiresAt passes, while the login or its goroutine is there to notice.
Expires(l) ==
    /\ l \in DOMAIN logins \/ ~At(l, "ended")
    /\ ~At(l, "unborn") /\ l \notin overdue
    /\ overdue' = overdue \cup {l}
    /\ UNCHANGED <<logins, poller, cancelled, landed, accountVars>>

\* DeleteExpired, from the 30 s housekeeping: never a pending login.
DeleteExpired ==
    LET gone == {l \in DOMAIN logins : l \in overdue /\ logins[l] # "pending"}
    IN  /\ gone # {}
        /\ Forgets(gone)
        /\ UNCHANGED <<poller, overdue, cancelled, landed, accountVars>>

\* The process ends: logins and goroutines are memory-only.  Ids are
\* timestamps, so none of those drawn is drawn again.
LoginsLost ==
    /\ logins' = [l \in {} |-> "pending"]
    /\ poller' = [l \in Logins |-> IF At(l, "unborn") THEN poller[l]
                                   ELSE [at |-> "ended"]]
    /\ known' = stored
    /\ UNCHANGED <<overdue, cancelled, landed, stored, failures>>

LoginStep(l) ==
    \/ PollSeesDone(l) \/ PollTicks(l) \/ PollAnswered(l)
    \/ Exchanged(l) \/ Stored(l) \/ PollTells(l)

-----------------------------------------------------------------------------
(* Properties.                                                             *)

\* What a login tells its caller is what happened to the account: "ready" is
\* read only after the account reached the accounts file (a restart keeps it),
\* and "error" and "expired" only when this login saved none.  The status is
\* set after, and apart from, the upsert, by a goroutine that races the
\* deadline, Cancel and the sweep.
StatusTellsOutcome ==
    \A l \in DOMAIN logins :
      /\ logins[l] = "ready" => landed[l] # NoAccount
      /\ logins[l] \in {"error", "expired"} => landed[l] = NoAccount

\* A login's outcome is final: a login that is over, cancelled or swept is
\* never seen pending or with another outcome by a later GET.
OutcomeIsFinal ==
    [][\A l \in Logins :
         ~At(l, "unborn") /\ l \in DOMAIN logins' =>
           /\ l \in DOMAIN logins
           /\ logins[l] # "pending" => logins'[l] = logins[l]]_logins

\* Every login started leaves the map in the end, cancelled or over and then
\* swept: the sweep spares pending logins, so this rests on the goroutine
\* recording an outcome on every path, its deadline included.
LoginsEnd ==
    \A l \in Logins : l \in DOMAIN logins ~> l \notin DOMAIN logins
=============================================================================
