------------------------ MODULE AccountManagerProofs ------------------------
(***************************************************************************)
(* For every number of callers, accounts and tokens, and whatever logins,  *)
(* the administrator, failing saves and crashes do: the lock of an account *)
(* has one holder, a refresh token that was replaced is never presented    *)
(* again, that of an account is not lost while other accounts are          *)
(* refreshed, logged in or logged out, and a call answers with a token     *)
(* that was fresh, or that its own refresh obtained, or a newer one.       *)
(***************************************************************************)
EXTENDS AccountManager, AccountsProofs

-----------------------------------------------------------------------------
(* The account service under the account manager.                          *)

\* A method of the service other than UpdateAuth and UpsertFromToken: no
\* account gets another token, and a save writes what is in memory.
TokensKept ==
  /\ DOMAIN records' \subseteq DOMAIN records
  /\ \A id \in DOMAIN records' : records'[id].token = records[id].token
  /\ disk' = disk \/ disk'.records = records'

LEMMA RefreshKeepsTokens ==
  ASSUME IInv, NEW saved, RefreshAll(saved)
  PROVE  TokensKept
<1>1. /\ records' = [id \in DOMAIN records |-> Refreshed(records[id])]
      /\ disk' = disk \/ disk'.records = records'
  BY DEF RefreshAll, RefreshedRecords, Save, NoSave
<1>2. ASSUME NEW id \in DOMAIN records PROVE Refreshed(records[id]).token = records[id].token
  <2>1. records[id] \in Record
    BY DEF IInv, TypeOK
  <2> QED BY <2>1 DEF Refreshed, Record
<1> QED BY <1>1, <1>2 DEF TokensKept

LEMMA UpdateKeepsTokens ==
  ASSUME IInv, NEW op, NEW id \in DOMAIN records, NEW record, Update(op, id, record),
         record.token = records[id].token
  PROVE  TokensKept
<1>1. records' = [records EXCEPT ![id] = record] /\ records = [i \in DOMAIN records |-> records[i]]
  BY DEF Update, IInv, TypeOK
<1>2. disk' = disk \/ disk'.records = records'
  BY SavedFile DEF Update
<1> QED BY <1>1, <1>2 DEF TokensKept

\* The methods that callers, the administrator and other requests use.
LEMMA ChangeKeepsTokens ==
  ASSUME IInv, NEW id,
         \/ \E status \in {"active", "disabled"} : Patch(id, status)
         \/ \E quota \in ObservedQuotas \cup {None} : ObserveQuota(id, quota)
         \/ MarkError(id, "expired")
         \/ \E length \in CooldownLengths : SetCooldown(id, now + length)
  PROVE  TokensKept /\ IInv' /\ created' = created
<1>1. now \in Nat
  BY AccountsAssumption DEF IInv, TypeOK
<1>2. \/ \E op : NotFound(op, id)
      \/ /\ id \in DOMAIN records
         /\ \E op, record : /\ record \in Record /\ record.token = records[id].token
                            /\ Update(op, id, record)
  <2>1. CASE id \notin DOMAIN records
    BY <2>1 DEF Patch, ObserveQuota, MarkError, SetCooldown, Modify
  <2>2. CASE id \in DOMAIN records
    <3>1. records[id] \in Record
      BY <2>2 DEF IInv, TypeOK
    <3>2. /\ \A status : Patched(records[id], status).token = records[id].token
          /\ \A quota : Observed(records[id], quota).token = records[id].token
          /\ Marked(records[id], "expired").token = records[id].token
          /\ \A until : [records[id] EXCEPT !.cooldown = until].token = records[id].token
      BY <3>1 DEF Patched, Observed, Marked, Record
    <3>3. CASE \E status \in {"active", "disabled"} : Patch(id, status)
      BY <1>1, <2>2, <3>1, <3>2, <3>3, RecordChanged DEF Patch, Modify
    <3>4. CASE \E quota \in ObservedQuotas \cup {None} : ObserveQuota(id, quota)
      BY <1>1, <2>2, <3>1, <3>2, <3>4, RecordChanged, AccountsAssumption DEF ObserveQuota, Modify
    <3>5. CASE MarkError(id, "expired")
      BY <1>1, <2>2, <3>1, <3>2, <3>5, RecordChanged DEF MarkError, Modify
    <3>6. CASE \E length \in CooldownLengths : SetCooldown(id, now + length)
      <4> PICK length \in CooldownLengths : SetCooldown(id, now + length)
        BY <3>6
      <4>1. now + length \in Nat
        BY <1>1, AccountsAssumption
      <4> QED BY <1>1, <2>2, <3>1, <3>2, <4>1, RecordChanged DEF SetCooldown, Modify
    <3> QED BY <3>3, <3>4, <3>5, <3>6
  <2> QED BY <2>1, <2>2
<1>3. CASE \E op : NotFound(op, id)
  BY <1>3, NotFoundKeepsIInv DEF NotFound, TokensKept
<1>4. CASE /\ id \in DOMAIN records
           /\ \E op, record : /\ record \in Record /\ record.token = records[id].token
                              /\ Update(op, id, record)
  BY <1>4, UpdateKeepsTokens, UpdateKeepsIInv DEF Update
<1> QED BY <1>2, <1>3, <1>4

LEMMA ReadKeepsTokens ==
  ASSUME IInv, Read
  PROVE  TokensKept /\ IInv' /\ created' = created
<1>1. PICK saved \in SaveOutcomes :
        /\ RefreshAll(saved)
        /\ reply' = [op |-> "Read", id |-> None, ok |-> saved]
        /\ UNCHANGED <<strategy, index, sticky, created, removed, now>>
  BY DEF Read
<1>2. reply'.ok \in BOOLEAN /\ index' \in 0..IndexPeriod - 1
  BY <1>1 DEF SaveOutcomes, IInv, TypeOK
<1> QED BY <1>1, <1>2, RefreshKeepsTokens, RefreshKeepsIInv

LEMMA AcquireKeepsTokens ==
  ASSUME IInv, NEW preferred, NEW allowed, AcquireMatching(preferred, allowed)
  PROVE  /\ TokensKept /\ IInv' /\ created' = created
         /\ reply'.ok => reply'.id \in DOMAIN records
<1>1. TokensKept /\ created' = created
  BY RefreshKeepsTokens DEF AcquireMatching
<1>2. reply'.op = "Acquire" /\ (reply'.ok => reply'.id # None)
  <2>1. PICK id, saved : Acquired(id, preferred, allowed, saved)
    BY DEF AcquireMatching
  <2>2. reply' = [op |-> "Acquire", id |-> id, ok |-> id # None,
                  preferred |-> preferred, allowed |-> allowed, saved |-> saved]
    BY <2>1 DEF Acquired
  <2> QED BY <2>2
<1>3. ExactStep
  BY AcquireIsExactStep DEF IInv
<1> QED BY <1>1, <1>2, <1>3, AcquireKeepsIInv DEF ExactStep

LEMMA RemoveKeepsTokens ==
  ASSUME IInv, NEW id, Remove(id)
  PROVE  TokensKept /\ IInv' /\ created' = created
<1>1. CASE NotFound("Remove", id)
  BY <1>1, NotFoundKeepsIInv DEF NotFound, TokensKept
<1>2. CASE RemoveKnown(id)
  <2>1. records' = [i \in DOMAIN records \ {id} |-> records[i]]
    BY <1>2 DEF RemoveKnown, Restrict
  <2>2. disk' = disk \/ disk'.records = records'
    BY <1>2, SavedFile DEF RemoveKnown
  <2> QED BY <1>2, <2>1, <2>2, RemoveKeepsIInv DEF RemoveKnown, TokensKept
<1> QED BY <1>1, <1>2 DEF Remove

LEMMA TickKeepsTokens ==
  ASSUME IInv, Tick
  PROVE  TokensKept /\ IInv' /\ created' = created
  BY StutterKeepsIInv, AccountsAssumption DEF Tick, TokensKept, IInv, TypeOK

-----------------------------------------------------------------------------
(* The lock.                                                               *)

\* Where a call is while it holds the lock.
Locked == {"held", "sent", "answered", "refused", "failed", "stored"}

At == Locked \cup {"idle", "look", "lock", "usage", "observed", "remove", "logout", "revoke"}

CallTypes ==
  /\ calls \in [Callers -> [at: At, op: {"ensure", "refresh", "usage", "logout"},
                            id: 1..MaxAccounts, token: Tokens \cup {NoToken}]]
  /\ holder \in [1..MaxAccounts -> Callers \cup {None}]

\* A call past Lock holds the lock of its account until it ends.
LockIsHeld == \A c \in Callers : calls[c].at \in Locked => holder[calls[c].id] = c

\* A caller that was not past Lock is not, or it was and is on the same
\* account.
LEMMA LockStays ==
  ASSUME CallTypes, LockIsHeld, NEW c \in Callers,
         \A d \in Callers \ {c} : calls'[d] = calls[d],
         \/ /\ UNCHANGED holder
            /\ calls'[c].at \in Locked => calls[c].at \in Locked /\ calls'[c].id = calls[c].id
         \/ holder' = Released(c) /\ calls'[c].at \notin Locked
  PROVE  LockIsHeld'
<1> SUFFICES ASSUME NEW d \in Callers, calls'[d].at \in Locked
             PROVE  holder'[calls'[d].id] = d
  BY DEF LockIsHeld
<1>1. CASE d = c
  BY <1>1 DEF LockIsHeld
<1>2. CASE d # c
  <2>1. calls'[d] = calls[d] /\ holder[calls[d].id] = d /\ calls[d].id \in 1..MaxAccounts
    BY <1>2 DEF LockIsHeld, CallTypes
  <2> QED BY <1>2, <2>1 DEF Released, CallTypes
<1> QED BY <1>1, <1>2

LEMMA LockIsTaken ==
  ASSUME CallTypes, LockIsHeld, NEW c \in Callers, Lock(c)
  PROVE  LockIsHeld'
<1> SUFFICES ASSUME NEW d \in Callers, calls'[d].at \in Locked
             PROVE  holder'[calls'[d].id] = d
  BY DEF LockIsHeld
<1>1. /\ calls' = [calls EXCEPT ![c].at = "held", ![c].token = NoToken]
      /\ holder[calls[c].id] = None /\ holder' = [holder EXCEPT ![calls[c].id] = c]
      /\ calls[c].id \in 1..MaxAccounts
  BY DEF Lock, Goes, GoesWith, CallTypes
<1>2. CASE d = c
  BY <1>1, <1>2 DEF CallTypes
<1>3. CASE d # c
  <2>1. calls'[d] = calls[d] /\ holder[calls[d].id] = d
    BY <1>1, <1>3 DEF LockIsHeld, CallTypes
  <2>2. d # None
    BY ManagerAssumption
  <2> QED BY <1>1, <2>1, <2>2 DEF CallTypes
<1> QED BY <1>2, <1>3

-----------------------------------------------------------------------------
(* The grants.                                                             *)

\* The accounts that have, or are about to have, a token.
Bears(id, token) ==
  \/ id \in DOMAIN records /\ records[id].token = token
  \/ id \in DOMAIN disk.records /\ disk.records[id].token = token
  \/ \E c \in Callers :
       calls[c].id = id /\ calls[c].at \in {"sent", "answered", "revoke"} /\ calls[c].token = token

GrantTypes ==
  /\ issued \in Nat
  /\ grant \in [Tokens -> Tokens \cup {NoGrant}]
  /\ \A token \in Tokens \cap (1..issued) : grant[token] \in Tokens \cap (1..issued)
  /\ dead \subseteq (1..issued) \cup {NoGrant}
  /\ replaced \subseteq dead /\ replaced \subseteq 1..issued /\ NoGrant \notin replaced

\* Tokens that are borne were issued, and a grant is of one account.
BornTokens ==
  \A id, token : Bears(id, token) /\ token # NoToken => token \in 1..issued /\ token \in Tokens

GrantsAreOwn ==
  \A i, j, t, u : /\ Bears(i, t) /\ Bears(j, u) /\ t # NoToken /\ u # NoToken
                  /\ grant[t] = grant[u] /\ grant[t] # NoGrant
                  => i = j

\* A replaced refresh token in a record has its replacement on the way.
SpentIsReplaced ==
  \A id \in DOMAIN records :
    records[id].token # NoToken /\ grant[records[id].token] \in replaced =>
      \E c \in Callers : calls[c].id = id /\ calls[c].at = "answered"

\* A call that presents a refresh token, or brings one, has a good one.
CallsAreFresh ==
  \A c \in Callers :
    /\ calls[c].at = "answered" => calls[c].token # NoToken
    /\ calls[c].at \in {"sent", "answered"} /\ calls[c].token # NoToken =>
         grant[calls[c].token] \notin replaced

\* A refused refresh token in a record has its replacement on the way, or the
\* account is excused.
RecordsAlive ==
  \A id \in DOMAIN records \ excused :
    records[id].token # NoToken /\ grant[records[id].token] \in dead =>
      \E c \in Callers : calls[c].id = id /\ calls[c].at = "answered"

\* What an answer brings is accepted.
AnswersAlive ==
  \A c \in Callers :
    calls[c].at = "answered" /\ calls[c].id \notin excused => grant[calls[c].token] \notin dead

GrantInv == /\ GrantTypes /\ BornTokens /\ GrantsAreOwn /\ SpentIsReplaced /\ CallsAreFresh
            /\ RecordsAlive /\ AnswersAlive

MInv == IInv /\ CallTypes /\ LockIsHeld /\ GrantInv

LEMMA OneHolder ==
  ASSUME LockIsHeld, NEW c \in Callers, NEW d \in Callers, calls[c].id = calls[d].id,
         calls[c].at \in Locked, calls[d].at \in Locked
  PROVE  c = d
  BY DEF LockIsHeld

\* A refresh token borne by an account is one that was issued.
LEMMA BorneGrant ==
  ASSUME GrantTypes, BornTokens, NEW id, NEW token, Bears(id, token), token # NoToken
  PROVE  /\ token \in Tokens \cap (1..issued)
         /\ grant[token] \in Tokens \cap (1..issued) /\ grant[token] # NoGrant
<1>1. token \in Tokens \cap (1..issued)
  BY DEF BornTokens
<1> QED BY <1>1, ManagerAssumption DEF GrantTypes

\* The accounts of the refresh tokens that a step makes refused are excused.
Accounted ==
  /\ dead \subseteq dead' /\ excused \subseteq excused'
  /\ \A g \in dead' \ dead :
       \/ g = NoGrant
       \/ \E id \in excused' : \E token : Bears(id, token) /\ token # NoToken /\ grant[token] = g

LEMMA NotDoomed ==
  ASSUME GrantTypes, BornTokens, GrantsAreOwn, Accounted,
         NEW id, NEW token, Bears(id, token), token # NoToken, id \notin excused',
         grant[token] \in dead'
  PROVE  grant[token] \in dead
<1> SUFFICES ASSUME grant[token] \notin dead PROVE FALSE
  OBVIOUS
<1>1. grant[token] # NoGrant
  BY BorneGrant
<1>2. PICK i \in excused' : \E t : Bears(i, t) /\ t # NoToken /\ grant[t] = grant[token]
  BY <1>1 DEF Accounted
<1>3. i = id
  BY <1>1, <1>2 DEF GrantsAreOwn
<1> QED BY <1>2, <1>3

\* Steps in which no token is issued, stored or loaded: a call goes on, sends
\* the token of the record it has read under the lock, or is to revoke it.
Quietly(c) ==
  /\ calls[c].at # "answered" /\ calls'[c].at # "answered"
  /\ calls'[c].at = "sent" =>
       /\ calls[c].at = "held" /\ calls'[c].id = calls[c].id
       /\ calls[c].id \in DOMAIN records' /\ calls'[c].token = records'[calls[c].id].token
  /\ calls'[c].at = "revoke" =>
       /\ calls'[c].id = calls[c].id
       /\ calls[c].id \in DOMAIN records' /\ calls'[c].token = records'[calls[c].id].token

LEMMA QuietStep ==
  ASSUME MInv, TokensKept, UNCHANGED <<issued, grant, replaced>>, Accounted,
         \A c \in Callers : calls'[c] = calls[c] \/ Quietly(c)
  PROVE  GrantInv'
<1> USE DEF MInv, GrantInv
<1>1. GrantTypes'
  <2>1. dead' \subseteq (1..issued) \cup {NoGrant}
    <3> SUFFICES ASSUME NEW g \in dead' \ dead, g # NoGrant PROVE g \in 1..issued
      BY DEF GrantTypes
    <3>1. \E id, token : Bears(id, token) /\ token # NoToken /\ grant[token] = g
      BY DEF Accounted
    <3> QED BY <3>1, BorneGrant
  <2> QED BY <2>1 DEF GrantTypes, Accounted
<1>2. ASSUME NEW id, NEW token, Bears(id, token)' PROVE Bears(id, token)
  <2>1. CASE id \in DOMAIN records' /\ records'[id].token = token
    BY <2>1 DEF TokensKept, Bears
  <2>2. CASE id \in DOMAIN disk'.records /\ disk'.records[id].token = token
    BY <2>2 DEF TokensKept, Bears
  <2>3. ASSUME NEW c \in Callers, calls'[c].id = id, calls'[c].token = token,
               calls'[c].at \in {"sent", "answered", "revoke"}
        PROVE  Bears(id, token)
    BY <2>3 DEF Bears, Quietly, TokensKept
  <2> QED BY <1>2, <2>1, <2>2, <2>3 DEF Bears
<1>3. BornTokens' /\ GrantsAreOwn'
  BY <1>2 DEF BornTokens, GrantsAreOwn
<1>4. SpentIsReplaced'
  <2> SUFFICES ASSUME NEW id \in DOMAIN records', records'[id].token # NoToken,
                      grant[records'[id].token] \in replaced
               PROVE  \E c \in Callers : calls'[c].id = id /\ calls'[c].at = "answered"
    BY DEF SpentIsReplaced
  <2>1. PICK c \in Callers : calls[c].id = id /\ calls[c].at = "answered"
    BY DEF SpentIsReplaced, TokensKept
  <2> QED BY <2>1 DEF Quietly
<1>5. CallsAreFresh'
  <2> SUFFICES ASSUME NEW c \in Callers, calls'[c].at \in {"sent", "answered"},
                      calls'[c].token # NoToken
               PROVE  grant[calls'[c].token] \notin replaced
    BY DEF CallsAreFresh, Quietly
  <2>1. CASE calls'[c] = calls[c]
    BY <2>1 DEF CallsAreFresh
  <2>2. CASE Quietly(c)
    <3>1. /\ calls[c].at = "held" /\ calls[c].id \in DOMAIN records
          /\ calls'[c].token = records[calls[c].id].token
      BY <2>2 DEF Quietly, TokensKept
    <3>2. ASSUME grant[calls'[c].token] \in replaced PROVE FALSE
      <4>1. PICK d \in Callers : calls[d].id = calls[c].id /\ calls[d].at = "answered"
        BY <3>1, <3>2 DEF SpentIsReplaced
      <4> QED BY <3>1, <4>1, OneHolder DEF Locked
    <3> QED BY <3>2
  <2> QED BY <2>1, <2>2
<1>6. RecordsAlive'
  <2> SUFFICES ASSUME NEW id \in DOMAIN records' \ excused', records'[id].token # NoToken,
                      grant[records'[id].token] \in dead'
               PROVE  \E c \in Callers : calls'[c].id = id /\ calls'[c].at = "answered"
    BY DEF RecordsAlive
  <2>1. id \in DOMAIN records \ excused /\ records'[id].token = records[id].token
    BY DEF TokensKept, Accounted
  <2>2. grant[records[id].token] \in dead
    BY <2>1, NotDoomed DEF Bears
  <2>3. PICK c \in Callers : calls[c].id = id /\ calls[c].at = "answered"
    BY <2>1, <2>2 DEF RecordsAlive
  <2> QED BY <2>3 DEF Quietly
<1>7. AnswersAlive'
  <2> SUFFICES ASSUME NEW c \in Callers, calls'[c].at = "answered", calls'[c].id \notin excused',
                      grant[calls'[c].token] \in dead'
               PROVE  FALSE
    BY DEF AnswersAlive
  <2>1. calls'[c] = calls[c] /\ calls[c].id \notin excused /\ calls[c].token # NoToken
    BY DEF Quietly, Accounted, CallsAreFresh
  <2>2. grant[calls[c].token] \in dead
    BY <2>1, NotDoomed DEF Bears
  <2> QED BY <2>1, <2>2 DEF AnswersAlive
<1> QED BY <1>1, <1>3, <1>4, <1>5, <1>6, <1>7

-----------------------------------------------------------------------------
(* How a call goes on.                                                     *)

\* One call changes, its account stays, and the lock with it or is released.
Moves(c) ==
  /\ CallTypes'
  /\ \A d \in Callers \ {c} : calls'[d] = calls[d]
  /\ \/ /\ UNCHANGED holder
        /\ calls'[c].at \in Locked => calls[c].at \in Locked /\ calls'[c].id = calls[c].id
     \/ holder' = Released(c) /\ calls'[c].at \notin Locked

LEMMA Going ==
  ASSUME CallTypes, NEW c \in Callers, NEW at \in At, NEW token \in Tokens \cup {NoToken},
         GoesWith(c, at, token)
  PROVE  /\ calls' \in [Callers -> [at: At, op: {"ensure", "refresh", "usage", "logout"},
                                    id: 1..MaxAccounts, token: Tokens \cup {NoToken}]]
         /\ \A d \in Callers \ {c} : calls'[d] = calls[d]
         /\ calls'[c].at = at /\ calls'[c].id = calls[c].id /\ calls'[c].token = token
  BY DEF CallTypes, GoesWith

LEMMA Releasing ==
  ASSUME CallTypes, NEW c \in Callers
  PROVE  Released(c) \in [1..MaxAccounts -> Callers \cup {None}]
  BY DEF CallTypes, Released

LEMMA Ending ==
  ASSUME CallTypes, NEW c \in Callers, Ends(c)
  PROVE  Moves(c) /\ calls'[c].at = "idle"
<1>1. Idle \in [at: At, op: {"ensure", "refresh", "usage", "logout"},
                id: 1..MaxAccounts, token: Tokens \cup {NoToken}] /\ Idle.at = "idle"
  BY ManagerAssumption, AccountsAssumption DEF Idle, At
<1>2. /\ calls' = [calls EXCEPT ![c] = Idle]
      /\ holder' = Released(c)
  BY DEF Ends
<1> QED BY <1>1, <1>2, Releasing DEF Moves, CallTypes, Locked

LEMMA Readying ==
  ASSUME CallTypes, NEW c \in Callers, NEW token, Ready(c, token)
  PROVE  Moves(c) /\ calls'[c].at \in {"idle", "usage"}
<1>1. Idle \in [at: At, op: {"ensure", "refresh", "usage", "logout"},
                id: 1..MaxAccounts, token: Tokens \cup {NoToken}] /\ Idle.at = "idle"
  BY ManagerAssumption, AccountsAssumption DEF Idle, At
<1>2. /\ [calls[c] EXCEPT !.at = "usage"]
           \in [at: At, op: {"ensure", "refresh", "usage", "logout"},
                id: 1..MaxAccounts, token: Tokens \cup {NoToken}]
      /\ [calls[c] EXCEPT !.at = "usage"].at = "usage"
  BY DEF CallTypes, At
<1>3. \E call \in {Idle, [calls[c] EXCEPT !.at = "usage"]} : calls' = [calls EXCEPT ![c] = call]
  BY DEF Ready
<1>4. holder' = Released(c)
  BY DEF Ready
<1>5. PICK call \in {Idle, [calls[c] EXCEPT !.at = "usage"]} : calls' = [calls EXCEPT ![c] = call]
  BY <1>3
<1>6. /\ call \in [at: At, op: {"ensure", "refresh", "usage", "logout"},
                   id: 1..MaxAccounts, token: Tokens \cup {NoToken}]
      /\ call.at \in {"idle", "usage"}
  BY <1>1, <1>2
<1>7. calls'[c] = call /\ \A d \in Callers \ {c} : calls'[d] = calls[d]
  BY <1>5 DEF CallTypes
<1>8. CallTypes'
  BY <1>4, <1>5, <1>6, Releasing DEF CallTypes
<1> QED BY <1>4, <1>6, <1>7, <1>8 DEF Moves, Locked

LEMMA QuietMove ==
  ASSUME MInv, IInv', TokensKept, UNCHANGED <<issued, grant, replaced>>, Accounted,
         NEW c \in Callers, Moves(c), Quietly(c)
  PROVE  MInv'
<1>1. LockIsHeld'
  BY LockStays DEF Moves, MInv
<1>2. GrantInv'
  BY QuietStep DEF Moves
<1> QED BY <1>1, <1>2 DEF Moves, MInv

LEMMA SameService ==
  ASSUME IInv, UNCHANGED vars
  PROVE  TokensKept /\ IInv' /\ created' = created
  BY DEF vars, IInv, TypeOK, NoResurrection, StickyIsKnown, TokensKept

\* A call ends, is answered, or goes on to read, without a token to send.
LEMMA Concluding ==
  ASSUME MInv, IInv', TokensKept, UNCHANGED <<issued, grant, replaced>>, Accounted,
         NEW c \in Callers, calls[c].at # "answered",
         \/ Ends(c) \/ (\E token : Ready(c, token))
         \/ /\ \E at \in At \ (Locked \cup {"revoke"}), token \in Tokens \cup {NoToken} :
                 GoesWith(c, at, token)
            /\ holder' = Released(c) \/ UNCHANGED holder
         \/ /\ \E at \in Locked \ {"sent", "answered"}, token \in Tokens \cup {NoToken} :
                 GoesWith(c, at, token)
            /\ calls[c].at \in Locked
            /\ UNCHANGED holder
  PROVE  MInv'
<1> USE DEF MInv
<1>1. CASE Ends(c) \/ (\E token : Ready(c, token))
  <2>1. Moves(c) /\ calls'[c].at \in {"idle", "usage"}
    BY <1>1, Ending, Readying
  <2> QED BY <2>1, QuietMove DEF Quietly
<1>2. CASE /\ \E at \in At \ (Locked \cup {"revoke"}), token \in Tokens \cup {NoToken} :
                GoesWith(c, at, token)
           /\ holder' = Released(c) \/ UNCHANGED holder
  <2>1. PICK at \in At \ (Locked \cup {"revoke"}), token \in Tokens \cup {NoToken} :
          GoesWith(c, at, token)
    BY <1>2
  <2>2. holder' \in [1..MaxAccounts -> Callers \cup {None}]
    BY <1>2, Releasing DEF CallTypes
  <2>3. Moves(c) /\ Quietly(c)
    BY <1>2, <2>1, <2>2, Going DEF Moves, Quietly, CallTypes, Locked
  <2> QED BY <2>3, QuietMove
<1>3. CASE /\ \E at \in Locked \ {"sent", "answered"}, token \in Tokens \cup {NoToken} :
                GoesWith(c, at, token)
           /\ calls[c].at \in Locked
           /\ UNCHANGED holder
  <2>1. PICK at \in Locked \ {"sent", "answered"}, token \in Tokens \cup {NoToken} :
          GoesWith(c, at, token)
    BY <1>3
  <2>2. at \in At
    BY DEF At
  <2>3. Moves(c) /\ Quietly(c)
    BY <1>3, <2>1, <2>2, Going DEF Moves, Quietly, CallTypes, Locked
  <2> QED BY <2>3, QuietMove
<1> QED BY <1>1, <1>2, <1>3

-----------------------------------------------------------------------------
(* The steps of a call.                                                    *)

LEMMA TokenTypes ==
  ASSUME IInv', NEW id \in DOMAIN records'
  PROVE  records'[id].token \in Tokens \cup {NoToken}
<1>1. records'[id] \in Record
  BY DEF IInv, TypeOK
<1> QED BY <1>1 DEF Record

LEMMA LookStep ==
  ASSUME MInv, NEW c \in Callers, Look(c)
  PROVE  MInv'
<1> DEFINE id == calls[c].id
<1>1. TokensKept /\ IInv' /\ calls[c].at = "look" /\ UNCHANGED oauth
  BY ReadKeepsTokens DEF Look, MInv
<1>2. \/ Ends(c) \/ \E token : Ready(c, token)
      \/ Goes(c, "lock") /\ UNCHANGED holder
  BY DEF Look
<1>3. "lock" \in At \ (Locked \cup {"revoke"})
  BY DEF At, Locked
<1> QED BY <1>1, <1>2, <1>3, Concluding DEF oauth, Accounted, Goes

LEMMA HeldStep ==
  ASSUME MInv, NEW c \in Callers, Held(c)
  PROVE  MInv'
<1> DEFINE id == calls[c].id
<1>1. TokensKept /\ IInv' /\ calls[c].at = "held" /\ UNCHANGED oauth
  BY ReadKeepsTokens DEF Held, MInv
<1>2. \/ Ends(c) \/ \E token : Ready(c, token)
      \/ id \in DOMAIN records' /\ GoesWith(c, "sent", records'[id].token) /\ UNCHANGED holder
  BY DEF Held, Found
<1>3. CASE Ends(c) \/ \E token : Ready(c, token)
  BY <1>1, <1>3, Concluding DEF oauth, Accounted
<1>4. CASE id \in DOMAIN records' /\ GoesWith(c, "sent", records'[id].token) /\ UNCHANGED holder
  <2>1. "sent" \in At /\ {"held", "sent"} \subseteq Locked
    BY DEF At, Locked
  <2>2. records'[id].token \in Tokens \cup {NoToken}
    BY <1>1, <1>4, TokenTypes
  <2>3. Moves(c) /\ Quietly(c)
    BY <1>1, <1>4, <2>1, <2>2, Going DEF Moves, Quietly, CallTypes, MInv
  <2> QED BY <1>1, <2>3, QuietMove DEF oauth, Accounted
<1> QED BY <1>2, <1>3, <1>4

LEMMA LockStep ==
  ASSUME MInv, NEW c \in Callers, Lock(c)
  PROVE  MInv'
<1>1. TokensKept /\ IInv' /\ UNCHANGED oauth
  BY SameService DEF Lock, MInv
<1>2. LockIsHeld'
  BY LockIsTaken DEF MInv
<1>3. "held" \in At
  BY DEF At, Locked
<1>4. CallTypes' /\ Quietly(c) /\ \A d \in Callers \ {c} : calls'[d] = calls[d]
  BY <1>3, Going DEF Lock, Goes, CallTypes, Quietly, MInv
<1>5. GrantInv'
  BY <1>1, <1>4, QuietStep DEF oauth, Accounted
<1> QED BY <1>1, <1>2, <1>4, <1>5 DEF MInv

LEMMA QuietAnswer ==
  ASSUME MInv, NEW c \in Callers, calls[c].at = "sent", Refused(c) \/ Unanswered(c)
  PROVE  MInv'
<1>1. TokensKept /\ IInv' /\ UNCHANGED <<issued, grant, replaced, holder>>
  BY SameService DEF Refused, Unanswered, oauth, MInv
<1>2. \E at \in {"refused", "failed"} : GoesWith(c, at, NoToken)
  BY DEF Refused, Unanswered, Goes
<1>3. {"refused", "failed"} \subseteq Locked \ {"sent", "answered"} /\ calls[c].at \in Locked
  BY DEF Locked
<1>4. Accounted
  <2>1. Bears(calls[c].id, calls[c].token)
    BY DEF Bears
  <2>2. \/ UNCHANGED <<dead, excused>>
        \/ dead' = dead \cup {Presented(c)} /\ excused' = excused \cup {calls[c].id}
    BY DEF Refused, Unanswered, oauth
  <2> QED BY <2>1, <2>2 DEF Accounted, Presented
<1> QED BY <1>1, <1>2, <1>3, <1>4, Concluding

LEMMA RereadStep ==
  ASSUME MInv, NEW c \in Callers, Reread(c) \/ Observe(c)
  PROVE  MInv'
<1>1. TokensKept /\ IInv' /\ calls[c].at # "answered" /\ UNCHANGED oauth
  BY ReadKeepsTokens DEF Reread, Observe, MInv
<1>2. Ends(c) \/ \E token : Ready(c, token)
  BY DEF Reread, Observe
<1> QED BY <1>1, <1>2, Concluding DEF oauth, Accounted

\* RefusedEnds, with what came before it.
LEMMA RefusedStep ==
  ASSUME MInv, NEW c \in Callers, TokensKept, IInv', UNCHANGED oauth, calls[c].at # "answered",
         RefusedEnds(c)
  PROVE  MInv'
<1>1. "remove" \in At \ (Locked \cup {"revoke"})
  BY DEF At, Locked
<1> QED BY <1>1, Concluding DEF RefusedEnds, Goes, oauth, Accounted

LEMMA FailureStep ==
  ASSUME MInv, NEW c \in Callers, MarkRefreshFailure(c)
  PROVE  MInv'
<1>1. TokensKept /\ IInv'
  BY ChangeKeepsTokens DEF MarkRefreshFailure, MInv
<1>2. calls[c].at # "answered" /\ UNCHANGED oauth /\ (Ends(c) \/ RefusedEnds(c))
  BY DEF MarkRefreshFailure
<1> QED BY <1>1, <1>2, RefusedStep, Concluding DEF oauth, Accounted

LEMMA UsageStep ==
  ASSUME MInv, NEW c \in Callers, Usage(c)
  PROVE  MInv'
<1>1. TokensKept /\ IInv'
  BY SameService, ChangeKeepsTokens DEF Usage, MInv
<1>2. /\ calls[c].at # "answered" /\ UNCHANGED oauth
      /\ Ends(c) \/ RefusedEnds(c) \/ (Goes(c, "observed") /\ UNCHANGED holder)
  BY DEF Usage
<1>3. "observed" \in At \ (Locked \cup {"revoke"})
  BY DEF At, Locked
<1> QED BY <1>1, <1>2, <1>3, RefusedStep, Concluding DEF oauth, Accounted, Goes

LEMMA LogoutStep ==
  ASSUME MInv, NEW c \in Callers, RemoveRefused(c) \/ LookLogout(c) \/ Revoke(c)
  PROVE  MInv'
<1>1. TokensKept /\ IInv'
  BY RemoveKeepsTokens, ReadKeepsTokens, SameService DEF RemoveRefused, LookLogout, Revoke, MInv
<1>2. calls[c].at # "answered" /\ UNCHANGED <<issued, grant, replaced>> /\ Accounted
  <2>1. CASE RemoveRefused(c) \/ LookLogout(c)
    BY <2>1 DEF RemoveRefused, LookLogout, oauth, Accounted
  <2>2. CASE Revoke(c)
    <3>1. calls[c].at = "revoke" /\ UNCHANGED <<issued, grant, replaced>>
      BY <2>2 DEF Revoke
    <3>2. Bears(calls[c].id, calls[c].token)
      BY <3>1 DEF Bears
    <3>3. \/ UNCHANGED <<dead, excused>>
          \/ /\ dead' = dead \cup ({Presented(c)} \ {NoGrant})
             /\ excused' = excused \cup {calls[c].id}
      BY <2>2 DEF Revoke
    <3> QED BY <3>1, <3>2, <3>3 DEF Accounted, Presented
  <2> QED BY <2>1, <2>2
<1>3. "remove" \in At \ (Locked \cup {"revoke"}) /\ "revoke" \in At \ Locked
  BY DEF At, Locked
<1>4. CASE Ends(c) \/ (Goes(c, "remove") /\ UNCHANGED holder)
  BY <1>1, <1>2, <1>3, <1>4, Concluding DEF Goes
<1>5. CASE /\ calls[c].id \in DOMAIN records' /\ UNCHANGED holder
           /\ GoesWith(c, "revoke", records'[calls[c].id].token)
  <2>1. records'[calls[c].id].token \in Tokens \cup {NoToken}
    BY <1>1, <1>5, TokenTypes
  <2>2. Moves(c) /\ Quietly(c)
    BY <1>2, <1>3, <1>5, <2>1, Going DEF Moves, Quietly, CallTypes, MInv
  <2> QED BY <1>1, <1>2, <2>2, QuietMove
<1>6. \/ Ends(c) \/ (Goes(c, "remove") /\ UNCHANGED holder)
      \/ /\ calls[c].id \in DOMAIN records' /\ UNCHANGED holder
         /\ GoesWith(c, "revoke", records'[calls[c].id].token)
  BY DEF RemoveRefused, LookLogout, Revoke, Found
<1> QED BY <1>4, <1>5, <1>6

\* Another call that has the same refresh token in hand is this one.
LEMMA OneBearer ==
  ASSUME MInv, NEW c \in Callers, NEW d \in Callers,
         {calls[c].at, calls[d].at} \subseteq {"sent", "answered"},
         calls[c].token # NoToken, calls[d].token # NoToken,
         grant[calls[c].token] = grant[calls[d].token], grant[calls[c].token] # NoGrant
  PROVE  c = d
<1>1. Bears(calls[c].id, calls[c].token) /\ Bears(calls[d].id, calls[d].token)
  BY DEF Bears
<1>2. calls[c].id = calls[d].id
  BY <1>1 DEF MInv, GrantInv, GrantsAreOwn
<1> QED BY <1>2, OneHolder DEF MInv, Locked

LEMMA RenewsStep ==
  ASSUME MInv, NEW c \in Callers, calls[c].at = "sent", Renews(c)
  PROVE  MInv'
<1> DEFINE id == calls[c].id
           tok == calls[c].token
           old == grant[tok]
           new == issued + 1
<1> USE DEF MInv, GrantInv
<1>1. TokensKept /\ IInv' /\ UNCHANGED <<records, disk, holder>>
  BY SameService DEF Renews, vars
<1>2. tok # NoToken /\ old # NoGrant /\ old \notin dead
  BY DEF Renews, Presented
<1>3. /\ Bears(id, tok) /\ tok \in 1..issued /\ tok \in Tokens
      /\ old \in 1..issued /\ old \in Tokens
  <2>1. Bears(id, tok)
    BY DEF Bears
  <2> QED BY <1>2, <2>1, BorneGrant
<1>4. /\ new \in Tokens /\ issued' = new /\ issued \in Nat
      /\ \/ /\ grant' = [grant EXCEPT ![new] = new]
            /\ dead' = dead \cup {old} /\ replaced' = replaced \cup {old}
         \/ /\ grant' = [grant EXCEPT ![new] = old]
            /\ UNCHANGED <<dead, replaced>>
      /\ excused' = excused
  BY <1>2 DEF Renews, Presented, Keeps, GrantTypes
<1>5. new # NoGrant /\ new \notin 1..issued /\ new # NoToken
  BY <1>4, ManagerAssumption, AccountsAssumption
<1>6. /\ grant'[new] \in {old, new} /\ grant'[new] # NoGrant
      /\ \A token \in Tokens \ {new} : grant'[token] = grant[token]
  BY <1>2, <1>4, <1>5 DEF GrantTypes
<1>7. /\ \A d \in Callers \ {c} : calls'[d] = calls[d]
      /\ calls'[c].at = "answered" /\ calls'[c].id = id /\ calls'[c].token = new
      /\ CallTypes' /\ LockIsHeld'
  <2>1. "answered" \in At /\ {"sent", "answered"} \subseteq Locked
    BY DEF At, Locked
  <2>2. GoesWith(c, "answered", new)
    BY DEF Renews
  <2> QED BY <1>1, <1>4, <2>1, <2>2, Going, LockStays DEF CallTypes
<1>8. GrantTypes'
  <2>1. \A token \in 1..issued : token # new
    BY <1>5
  <2>2. \A token \in 1..new : token = new \/ token \in 1..issued
    BY <1>4
  <2>3. \A token \in Tokens \cap (1..new) : grant'[token] \in Tokens \cap (1..new)
    <3> SUFFICES ASSUME NEW token \in Tokens \cap (1..new)
                 PROVE  grant'[token] \in Tokens \cap (1..new)
      OBVIOUS
    <3>1. CASE token = new
      BY <1>3, <1>4, <1>6, <3>1
    <3>2. CASE token # new
      <4>1. grant'[token] = grant[token] /\ token \in Tokens \cap (1..issued)
        BY <1>6, <2>2, <3>2
      <4>2. grant[token] \in Tokens \cap (1..issued)
        BY <4>1 DEF GrantTypes
      <4> QED BY <1>4, <4>1, <4>2
    <3> QED BY <3>1, <3>2
  <2>4. grant' \in [Tokens -> Tokens \cup {NoGrant}]
    BY <1>3, <1>4 DEF GrantTypes
  <2>5. replaced \subseteq dead /\ NoGrant \notin replaced
    BY DEF GrantTypes
  <2>6. replaced \subseteq 1..new /\ old \in 1..new
    BY <1>3, <1>4 DEF GrantTypes
  <2>7. replaced' \subseteq dead' /\ replaced' \subseteq replaced \cup {old}
    BY <1>4, <2>5
  <2>8. NoGrant \notin replaced' /\ replaced' \subseteq 1..new
    BY <1>2, <2>5, <2>6, <2>7
  <2>9. issued' = new /\ new \in Nat
    BY <1>4
  <2>10. dead' \subseteq (1..new) \cup {NoGrant}
    <3>1. dead' \subseteq dead \cup {old} /\ 1..issued \subseteq 1..new
      BY <1>4
    <3> QED BY <2>6, <3>1 DEF GrantTypes
  <2> QED BY <2>3, <2>4, <2>7, <2>8, <2>9, <2>10 DEF GrantTypes
<1>9. ASSUME NEW i, NEW t, Bears(i, t)'
      PROVE  Bears(i, t) \/ (i = id /\ t = new)
  BY <1>1, <1>7, <1>9 DEF Bears
<1>10. ASSUME NEW i, NEW t, Bears(i, t), t # NoToken
       PROVE  /\ t \in 1..issued /\ t \in Tokens /\ t # new /\ grant'[t] = grant[t]
              /\ grant[t] = grant'[new] => i = id
  <2>1. t \in 1..issued /\ t \in Tokens
    BY <1>10 DEF BornTokens
  <2>2. t # new /\ grant'[t] = grant[t]
    BY <1>5, <1>6, <2>1
  <2>3. grant[t] # new
    BY <1>5, <2>1 DEF GrantTypes
  <2>4. grant[t] = grant'[new] => grant[t] = old
    BY <1>6, <2>3
  <2>5. grant[t] = old => i = id
    BY <1>2, <1>3, <1>10 DEF GrantsAreOwn
  <2> QED BY <2>1, <2>2, <2>4, <2>5
<1>11. BornTokens'
  <2>1. 1..issued \subseteq 1..issued' /\ new \in 1..issued'
    BY <1>4
  <2> QED BY <1>4, <1>9, <1>10, <2>1 DEF BornTokens
<1>12. GrantsAreOwn'
  <2> SUFFICES ASSUME NEW i, NEW j, NEW t, NEW u, Bears(i, t)', Bears(j, u)',
                      t # NoToken, u # NoToken, grant'[t] = grant'[u], grant'[t] # NoGrant
               PROVE  i = j
    BY DEF GrantsAreOwn
  <2>1. CASE Bears(i, t) /\ Bears(j, u)
    <3>1. grant'[t] = grant[t] /\ grant'[u] = grant[u]
      BY <1>10, <2>1
    <3> QED BY <2>1, <3>1 DEF GrantsAreOwn
  <2>2. CASE Bears(i, t) /\ j = id /\ u = new
    BY <1>10, <2>2
  <2>3. CASE i = id /\ t = new /\ Bears(j, u)
    BY <1>10, <2>3
  <2> QED BY <1>9, <2>1, <2>2, <2>3
<1>13. SpentIsReplaced'
  <2> SUFFICES ASSUME NEW i \in DOMAIN records, records[i].token # NoToken,
                      grant'[records[i].token] \in replaced'
               PROVE  \E d \in Callers : calls'[d].id = i /\ calls'[d].at = "answered"
    BY <1>1 DEF SpentIsReplaced
  <2>1. Bears(i, records[i].token)
    BY DEF Bears
  <2>2. grant'[records[i].token] = grant[records[i].token]
    BY <1>10, <2>1
  <2>3. CASE grant[records[i].token] \in replaced
    <3>1. PICK d \in Callers : calls[d].id = i /\ calls[d].at = "answered"
      BY <2>3 DEF SpentIsReplaced
    <3> QED BY <1>7, <3>1
  <2>4. CASE grant[records[i].token] = old
    <3>1. i = id
      BY <1>2, <1>3, <2>1, <2>4 DEF GrantsAreOwn
    <3> QED BY <1>7, <3>1
  <2> QED BY <1>4, <2>2, <2>3, <2>4
<1>14. CallsAreFresh'
  <2> SUFFICES ASSUME NEW d \in Callers, calls'[d].at \in {"sent", "answered"},
                      calls'[d].token # NoToken
               PROVE  grant'[calls'[d].token] \notin replaced'
    BY <1>5, <1>7 DEF CallsAreFresh
  <2>1. CASE d = c
    <3>1. new \notin replaced /\ new # old
      BY <1>3, <1>5 DEF GrantTypes
    <3>2. old \notin replaced
      BY <1>2 DEF GrantTypes
    <3>3. calls'[d].token = new
      BY <1>7, <2>1
    <3>4. CASE grant' = [grant EXCEPT ![new] = new] /\ replaced' = replaced \cup {old}
      <4>1. grant'[new] = new
        BY <1>4, <3>4 DEF GrantTypes
      <4> QED BY <3>1, <3>3, <3>4, <4>1
    <3>5. CASE grant' = [grant EXCEPT ![new] = old] /\ replaced' = replaced
      <4>1. grant'[new] = old
        BY <1>4, <3>5 DEF GrantTypes
      <4> QED BY <3>2, <3>3, <3>5, <4>1
    <3> QED BY <1>4, <3>4, <3>5
  <2>2. CASE d # c
    <3>1. calls'[d] = calls[d]
      BY <1>7, <2>2
    <3>2. Bears(calls[d].id, calls[d].token)
      BY <3>1 DEF Bears
    <3>3. grant'[calls[d].token] = grant[calls[d].token]
      BY <1>10, <3>1, <3>2
    <3>4. grant[calls[d].token] \notin replaced
      BY <3>1 DEF CallsAreFresh
    <3>5. grant[calls[d].token] # old
      BY <1>2, <2>2, <3>1, OneBearer
    <3> QED BY <1>4, <3>1, <3>3, <3>4, <3>5
  <2> QED BY <2>1, <2>2
<1>15. RecordsAlive'
  <2> SUFFICES ASSUME NEW i \in DOMAIN records \ excused, records[i].token # NoToken,
                      grant'[records[i].token] \in dead'
               PROVE  \E d \in Callers : calls'[d].id = i /\ calls'[d].at = "answered"
    BY <1>1, <1>4 DEF RecordsAlive
  <2>1. Bears(i, records[i].token)
    BY DEF Bears
  <2>2. grant'[records[i].token] = grant[records[i].token]
    BY <1>10, <2>1
  <2>3. CASE grant[records[i].token] \in dead
    <3>1. PICK d \in Callers : calls[d].id = i /\ calls[d].at = "answered"
      BY <2>3 DEF RecordsAlive
    <3> QED BY <1>7, <3>1
  <2>4. CASE grant[records[i].token] = old
    <3>1. i = id
      BY <1>2, <1>3, <2>1, <2>4 DEF GrantsAreOwn
    <3> QED BY <1>7, <3>1
  <2> QED BY <1>4, <2>2, <2>3, <2>4
<1>16. AnswersAlive'
  <2> SUFFICES ASSUME NEW d \in Callers, calls'[d].at = "answered", calls'[d].id \notin excused,
                      grant'[calls'[d].token] \in dead'
               PROVE  FALSE
    BY <1>4 DEF AnswersAlive
  <2>1. CASE d = c
    <3>1. new \notin dead /\ new # old
      BY <1>3, <1>5 DEF GrantTypes
    <3>2. calls'[d].token = new
      BY <1>7, <2>1
    <3>3. CASE grant' = [grant EXCEPT ![new] = new] /\ dead' = dead \cup {old}
      <4>1. grant'[new] = new
        BY <1>4, <3>3 DEF GrantTypes
      <4> QED BY <3>1, <3>2, <3>3, <4>1
    <3>4. CASE grant' = [grant EXCEPT ![new] = old] /\ dead' = dead
      <4>1. grant'[new] = old
        BY <1>4, <3>4 DEF GrantTypes
      <4> QED BY <1>2, <3>2, <3>4, <4>1
    <3> QED BY <1>4, <3>3, <3>4
  <2>2. CASE d # c
    <3>1. calls'[d] = calls[d] /\ calls[d].token # NoToken
      BY <1>7, <2>2 DEF CallsAreFresh
    <3>2. Bears(calls[d].id, calls[d].token)
      BY <3>1 DEF Bears
    <3>3. grant'[calls[d].token] = grant[calls[d].token]
      BY <1>10, <3>1, <3>2
    <3>4. grant[calls[d].token] \notin dead
      BY <3>1 DEF AnswersAlive
    <3>5. grant[calls[d].token] # old
      BY <1>2, <2>2, <3>1, OneBearer
    <3> QED BY <1>4, <3>1, <3>3, <3>4, <3>5
  <2> QED BY <2>1, <2>2
<1> QED BY <1>1, <1>7, <1>8, <1>11, <1>12, <1>13, <1>14, <1>15, <1>16

LEMMA AnswerStep ==
  ASSUME MInv, NEW c \in Callers, Answer(c)
  PROVE  MInv'
  BY QuietAnswer, RenewsStep DEF Answer

\* UpdateAuth gives a token to an account that bears it already.
LEMMA StoreStep ==
  ASSUME MInv, NEW c \in Callers, Store(c)
  PROVE  MInv'
<1> DEFINE id == calls[c].id
           tok == calls[c].token
<1> USE DEF MInv, GrantInv
<1>1. /\ calls[c].at = "answered" /\ UNCHANGED oauth
      /\ UpdateAuth(id, None, tok)
      /\ \/ reply'.ok /\ GoesWith(c, "stored", tok) /\ UNCHANGED holder
         \/ ~reply'.ok /\ Ends(c)
  BY DEF Store
<1>2. now \in Nat /\ records = [i \in DOMAIN records |-> records[i]]
  BY AccountsAssumption DEF IInv, TypeOK
<1>3. /\ calls[c] \in [at: At, op: {"ensure", "refresh", "usage", "logout"},
                       id: 1..MaxAccounts, token: Tokens \cup {NoToken}]
      /\ Bears(id, tok)
  BY <1>1 DEF CallTypes, Bears
<1>4. Moves(c) /\ calls'[c].at \in {"stored", "idle"} /\ calls'[c].id \in 1..MaxAccounts
  <2>1. "stored" \in At /\ {"answered", "stored"} \subseteq Locked
    BY DEF At, Locked
  <2>2. CASE GoesWith(c, "stored", tok) /\ UNCHANGED holder
    BY <1>1, <1>3, <2>1, <2>2, Going DEF Moves, CallTypes
  <2>3. CASE Ends(c)
    BY <2>3, Ending DEF Moves, CallTypes
  <2> QED BY <1>1, <2>2, <2>3
<1>5. \/ /\ UNCHANGED <<records, disk>> /\ id \notin DOMAIN records /\ IInv'
      \/ /\ id \in DOMAIN records /\ IInv'
         /\ DOMAIN records' = DOMAIN records /\ records'[id].token = tok
         /\ \A i \in DOMAIN records \ {id} : records'[i] = records[i]
         /\ disk' = disk \/ disk'.records = records'
  <2>1. CASE id \notin DOMAIN records
    BY <1>1, <2>1, NotFoundKeepsIInv DEF UpdateAuth, Modify, NotFound
  <2>2. CASE id \in DOMAIN records
    <3>1. Update("UpdateAuth", id, Renewed(records[id], None, tok)) /\ records[id] \in Record
      BY <1>1, <2>2 DEF UpdateAuth, Modify, IInv, TypeOK
    <3>2. Renewed(records[id], None, tok).token = tok
      BY <3>1 DEF Renewed, Record
    <3>3. records' = [records EXCEPT ![id] = Renewed(records[id], None, tok)]
      BY <3>1 DEF Update
    <3>4. disk' = disk \/ disk'.records = records'
      BY <3>1, SavedFile DEF Update
    <3>5. tok \in Tokens
      BY <1>1, <1>3 DEF CallsAreFresh
    <3>6. IInv'
      BY <1>2, <2>2, <3>1, <3>5, RecordChanged, UpdateKeepsIInv
    <3> QED BY <1>2, <2>2, <3>2, <3>3, <3>4, <3>6
  <2> QED BY <2>1, <2>2
<1>6. LockIsHeld' /\ CallTypes' /\ \A d \in Callers \ {c} : calls'[d] = calls[d]
  BY <1>4, LockStays DEF Moves
<1>7. ASSUME NEW i, NEW t, Bears(i, t)' PROVE Bears(i, t)
  <2>1. CASE i \in DOMAIN records' /\ records'[i].token = t
    BY <1>3, <1>5, <2>1 DEF Bears
  <2>2. CASE i \in DOMAIN disk'.records /\ disk'.records[i].token = t
    BY <1>3, <1>5, <2>2 DEF Bears
  <2>3. ASSUME NEW d \in Callers, calls'[d].id = i, calls'[d].token = t,
               calls'[d].at \in {"sent", "answered", "revoke"}
        PROVE  Bears(i, t)
    BY <1>4, <1>6, <2>3 DEF Bears
  <2> QED BY <1>7, <2>1, <2>2, <2>3 DEF Bears
<1>8. UNCHANGED <<issued, grant, dead, replaced, excused>>
  BY <1>1 DEF oauth
<1>9. GrantTypes' /\ BornTokens' /\ GrantsAreOwn'
  BY <1>7, <1>8 DEF GrantTypes, BornTokens, GrantsAreOwn
<1>10. SpentIsReplaced'
  <2> SUFFICES ASSUME NEW i \in DOMAIN records', records'[i].token # NoToken,
                      grant[records'[i].token] \in replaced
               PROVE  \E d \in Callers : calls'[d].id = i /\ calls'[d].at = "answered"
    BY <1>8 DEF SpentIsReplaced
  <2>1. i \in DOMAIN records
    BY <1>5
  <2>2. i # id
    <3> SUFFICES ASSUME i = id PROVE FALSE
      OBVIOUS
    <3>1. records'[i].token = tok
      BY <1>5, <2>1
    <3> QED BY <1>1, <3>1 DEF CallsAreFresh
  <2>3. records'[i] = records[i]
    BY <1>5, <2>1, <2>2
  <2>4. PICK d \in Callers : calls[d].id = i /\ calls[d].at = "answered"
    BY <2>1, <2>3 DEF SpentIsReplaced
  <2> QED BY <1>6, <2>2, <2>4
<1>11. CallsAreFresh'
  BY <1>4, <1>6, <1>8 DEF CallsAreFresh
<1>12. RecordsAlive'
  <2> SUFFICES ASSUME NEW i \in DOMAIN records' \ excused, records'[i].token # NoToken,
                      grant[records'[i].token] \in dead
               PROVE  \E d \in Callers : calls'[d].id = i /\ calls'[d].at = "answered"
    BY <1>8 DEF RecordsAlive
  <2>1. i \in DOMAIN records
    BY <1>5
  <2>2. i # id
    <3> SUFFICES ASSUME i = id PROVE FALSE
      OBVIOUS
    <3>1. records'[i].token = tok
      BY <1>5, <2>1
    <3> QED BY <1>1, <3>1 DEF AnswersAlive
  <2>3. records'[i] = records[i]
    BY <1>5, <2>1, <2>2
  <2>4. PICK d \in Callers : calls[d].id = i /\ calls[d].at = "answered"
    BY <2>1, <2>3 DEF RecordsAlive
  <2> QED BY <1>6, <2>2, <2>4
<1>13. AnswersAlive'
  BY <1>4, <1>6, <1>8 DEF AnswersAlive
<1> QED BY <1>5, <1>6, <1>9, <1>10, <1>11, <1>12, <1>13

-----------------------------------------------------------------------------
(* The others.                                                             *)

LEMMA BeginStep ==
  ASSUME MInv, NEW c \in Callers, NEW op \in Does[c], NEW id \in 1..created, Begin(c, op, id)
  PROVE  MInv'
<1>1. TokensKept /\ IInv' /\ UNCHANGED <<holder, oauth>> /\ calls[c].at = "idle"
  BY SameService DEF Begin, MInv
<1>2. /\ op \in {"ensure", "refresh", "usage", "logout"}
      /\ id \in 1..MaxAccounts /\ {"lock", "logout", "look"} \subseteq At
  BY ManagerAssumption, AccountsAssumption DEF Begin, MInv, IInv, TypeOK, At
<1>3. PICK at \in {"lock", "logout", "look"} :
        calls' = [calls EXCEPT ![c] = [at |-> at, op |-> op, id |-> id, token |-> NoToken]]
  <2>1. CASE op = "refresh"
    BY <2>1 DEF Begin
  <2>2. CASE op = "logout"
    BY <2>2 DEF Begin
  <2>3. CASE op \notin {"refresh", "logout"}
    BY <2>3 DEF Begin
  <2> QED BY <2>1, <2>2, <2>3
<1>4. /\ calls'[c].at = at /\ \A d \in Callers \ {c} : calls'[d] = calls[d]
      /\ CallTypes'
  BY <1>1, <1>2, <1>3 DEF CallTypes, MInv
<1>5. at \notin Locked \cup {"sent", "answered", "revoke"}
  BY DEF Locked
<1> QED BY <1>1, <1>4, <1>5, QuietMove DEF Moves, Quietly, oauth, Accounted

LEMMA BeginAcquireStep ==
  ASSUME MInv, NEW c \in Callers, BeginAcquire(c)
  PROVE  MInv'
<1>1. /\ TokensKept /\ IInv' /\ UNCHANGED <<holder, oauth>> /\ calls[c].at = "idle"
      /\ reply'.ok => reply'.id \in DOMAIN records
  BY AcquireKeepsTokens DEF BeginAcquire, MInv
<1>2. CASE ~reply'.ok
  <2>1. calls' = calls
    BY <1>2 DEF BeginAcquire
  <2> QED BY <1>1, <2>1, QuietMove DEF Moves, Quietly, oauth, Accounted, CallTypes, MInv
<1>3. CASE reply'.ok
  <2>1. calls' = [calls EXCEPT ![c] = [at |-> "look", op |-> "ensure", id |-> reply'.id,
                                       token |-> NoToken]]
    BY <1>3 DEF BeginAcquire
  <2>2. reply'.id \in 1..MaxAccounts /\ "look" \in At
    BY <1>1, <1>3, AccountsAssumption DEF MInv, IInv, TypeOK, At
  <2>3. /\ calls'[c].at = "look" /\ \A d \in Callers \ {c} : calls'[d] = calls[d]
        /\ CallTypes'
    BY <1>1, <2>1, <2>2 DEF CallTypes, MInv
  <2>4. "look" \notin Locked \cup {"sent", "answered", "revoke"}
    BY DEF Locked
  <2> QED BY <1>1, <2>3, <2>4, QuietMove DEF Moves, Quietly, oauth, Accounted
<1> QED BY <1>2, <1>3

\* Calls stay as they are, and no account gets another token.
LEMMA OutsideStep ==
  ASSUME MInv, TokensKept, IInv',
         UNCHANGED <<calls, holder, issued, grant, dead, replaced, excused>>
  PROVE  MInv'
<1>1. GrantInv'
  BY QuietStep DEF MInv, Accounted
<1> QED BY <1>1 DEF MInv, CallTypes, LockIsHeld

\* A device login stores a token that is issued for it, on one account.
LEMMA UpsertGivesToken ==
  ASSUME IInv, NEW account \in AccountIDs, NEW token \in Tokens, UpsertFromToken(account, token)
  PROVE  \E id \in DOMAIN records' :
           /\ reply'.id = id
           /\ DOMAIN records' = DOMAIN records \cup {id} /\ records'[id].token = token
           /\ \A i \in DOMAIN records \ {id} : records'[i] = records[i]
           /\ disk' = disk \/ disk'.records = records'
<1>1. CASE UpsertExisting(account, token)
  <2>1. PICK id \in Matches(account, token) :
          /\ records' = Put(id, Reauthenticated(records[id], token))
          /\ Saved("Upsert", id, records', strategy)
    BY <1>1 DEF UpsertExisting
  <2>2. id \in DOMAIN records /\ records[id] \in Record
    BY DEF Matches, IInv, TypeOK
  <2>3. Reauthenticated(records[id], token).token = token
    BY <2>2 DEF Reauthenticated, Record
  <2>4. (disk' = disk \/ disk'.records = records') /\ reply'.id = id
    BY <2>1, SavedFile
  <2> QED BY <2>1, <2>2, <2>3, <2>4 DEF Put
<1>2. CASE UpsertNew(account, token)
  <2>1. /\ records' = Put(created + 1, NewRecord(account, token))
        /\ Saved("Upsert", created + 1, records', strategy)
    BY <1>2 DEF UpsertNew
  <2>2. NewRecord(account, token).token = token
    BY DEF NewRecord
  <2>3. (disk' = disk \/ disk'.records = records') /\ reply'.id = created + 1
    BY <2>1, SavedFile
  <2> QED BY <2>1, <2>2, <2>3 DEF Put
<1> QED BY <1>1, <1>2 DEF UpsertFromToken

LEMMA LoginStep ==
  ASSUME MInv, NEW account \in AccountIDs, Login(account)
  PROVE  MInv'
<1> DEFINE new == issued + 1
<1> USE DEF MInv, GrantInv
<1>1. /\ new \in Tokens /\ issued \in Nat /\ issued' = new /\ UpsertFromToken(account, new)
      /\ grant' = [grant EXCEPT ![new] = new] /\ UNCHANGED <<calls, holder, dead, replaced>>
  BY DEF Login, GrantTypes
<1>2. IInv' /\ CallTypes' /\ LockIsHeld'
  BY <1>1, UpsertKeepsIInv DEF CallTypes, LockIsHeld
<1>3. PICK id \in DOMAIN records' :
        /\ reply'.id = id
        /\ DOMAIN records' = DOMAIN records \cup {id} /\ records'[id].token = new
        /\ \A i \in DOMAIN records \ {id} : records'[i] = records[i]
        /\ disk' = disk \/ disk'.records = records'
  <2>1. IInv /\ new \in Tokens /\ UpsertFromToken(account, new)
    BY <1>1
  <2> HIDE DEF new, MInv
  <2> QED BY <2>1, UpsertGivesToken, Zenon
<1>4. /\ new # NoGrant /\ new # NoToken /\ new \notin 1..issued
      /\ grant'[new] = new /\ \A t \in Tokens \ {new} : grant'[t] = grant[t]
  BY <1>1, ManagerAssumption, AccountsAssumption DEF GrantTypes
<1>5. ASSUME NEW i, NEW t, Bears(i, t)'
      PROVE  Bears(i, t) \/ (i = id /\ t = new)
  <2>1. CASE i \in DOMAIN records' /\ records'[i].token = t
    BY <1>3, <2>1 DEF Bears
  <2>2. CASE i \in DOMAIN disk'.records /\ disk'.records[i].token = t
    BY <1>3, <2>2 DEF Bears
  <2>3. CASE \E c \in Callers :
               /\ calls[c].id = i /\ calls[c].token = t
               /\ calls[c].at \in {"sent", "answered", "revoke"}
    BY <2>3 DEF Bears
  <2> QED BY <1>1, <1>5, <2>1, <2>2, <2>3 DEF Bears
<1>6. ASSUME NEW i, NEW t, Bears(i, t), t # NoToken
      PROVE  t \in 1..issued /\ t \in Tokens /\ grant'[t] = grant[t] /\ grant[t] # new
  <2>1. t \in 1..issued /\ t \in Tokens
    BY <1>6 DEF BornTokens
  <2> QED BY <1>4, <2>1 DEF GrantTypes
<1>7. GrantTypes'
  <2>1. \A t \in 1..new : t = new \/ t \in 1..issued
    BY <1>1
  <2>2. 1..issued \subseteq 1..new /\ new \in 1..new /\ new \in Nat
    BY <1>1
  <2>3. \A t \in Tokens \cap (1..new) : grant'[t] \in Tokens \cap (1..new)
    BY <1>1, <1>4, <2>1, <2>2 DEF GrantTypes
  <2>4. grant' \in [Tokens -> Tokens \cup {NoGrant}]
    BY <1>1 DEF GrantTypes
  <2> QED BY <1>1, <2>2, <2>3, <2>4 DEF GrantTypes
<1>8. BornTokens'
  <2>1. 1..issued \subseteq 1..issued' /\ new \in 1..issued'
    BY <1>1
  <2> QED BY <1>1, <1>5, <1>6, <2>1 DEF BornTokens
<1>9. GrantsAreOwn'
  <2> SUFFICES ASSUME NEW i, NEW j, NEW t, NEW u, Bears(i, t)', Bears(j, u)',
                      t # NoToken, u # NoToken, grant'[t] = grant'[u], grant'[t] # NoGrant
               PROVE  i = j
    BY DEF GrantsAreOwn
  <2>1. CASE Bears(i, t) /\ Bears(j, u)
    <3>1. grant'[t] = grant[t] /\ grant'[u] = grant[u]
      BY <1>6, <2>1
    <3> QED BY <2>1, <3>1 DEF GrantsAreOwn
  <2>2. CASE Bears(i, t) /\ j = id /\ u = new
    BY <1>4, <1>6, <2>2
  <2>3. CASE i = id /\ t = new /\ Bears(j, u)
    BY <1>4, <1>6, <2>3
  <2> QED BY <1>5, <2>1, <2>2, <2>3
<1>10. SpentIsReplaced'
  <2> SUFFICES ASSUME NEW i \in DOMAIN records', records'[i].token # NoToken,
                      grant'[records'[i].token] \in replaced
               PROVE  \E c \in Callers : calls[c].id = i /\ calls[c].at = "answered"
    BY <1>1 DEF SpentIsReplaced
  <2>1. CASE i = id
    <3>1. new \notin replaced
      BY <1>4 DEF GrantTypes
    <3> QED BY <1>3, <1>4, <2>1, <3>1
  <2>2. CASE i # id
    <3>1. i \in DOMAIN records /\ records'[i] = records[i]
      BY <1>3, <2>2
    <3>2. Bears(i, records[i].token)
      BY <3>1 DEF Bears
    <3>3. grant'[records[i].token] = grant[records[i].token]
      BY <1>6, <3>1, <3>2
    <3> QED BY <3>1, <3>3 DEF SpentIsReplaced
  <2> QED BY <2>1, <2>2
<1>11. CallsAreFresh'
  <2> SUFFICES ASSUME NEW c \in Callers
               PROVE  /\ calls[c].at = "answered" => calls[c].token # NoToken
                      /\ calls[c].at \in {"sent", "answered"} /\ calls[c].token # NoToken =>
                           grant'[calls[c].token] \notin replaced
    BY <1>1 DEF CallsAreFresh
  <2>1. calls[c].at \in {"sent", "answered"} => Bears(calls[c].id, calls[c].token)
    BY DEF Bears
  <2> QED BY <1>6, <2>1 DEF CallsAreFresh
<1>12. excused \subseteq excused' \cup {id} /\ (id \in excused \ excused' => ~Refreshing(id))
  BY <1>3 DEF Login
<1>13. RecordsAlive'
  <2> SUFFICES ASSUME NEW i \in DOMAIN records' \ excused', records'[i].token # NoToken,
                      grant'[records'[i].token] \in dead
               PROVE  \E c \in Callers : calls[c].id = i /\ calls[c].at = "answered"
    BY <1>1 DEF RecordsAlive
  <2>1. CASE i = id
    <3>1. new \notin dead
      BY <1>4 DEF GrantTypes
    <3> QED BY <1>3, <1>4, <2>1, <3>1
  <2>2. CASE i # id
    <3>1. i \in DOMAIN records \ excused /\ records'[i] = records[i]
      BY <1>3, <1>12, <2>2
    <3>2. grant'[records[i].token] = grant[records[i].token]
      BY <1>6, <3>1 DEF Bears
    <3> QED BY <3>1, <3>2 DEF RecordsAlive
  <2> QED BY <2>1, <2>2
<1>14. AnswersAlive'
  <2> SUFFICES ASSUME NEW c \in Callers, calls[c].at = "answered", calls[c].id \notin excused',
                      grant'[calls[c].token] \in dead
               PROVE  FALSE
    BY <1>1 DEF AnswersAlive
  <2>1. Bears(calls[c].id, calls[c].token) /\ calls[c].token # NoToken
    BY DEF Bears, CallsAreFresh
  <2>2. grant'[calls[c].token] = grant[calls[c].token]
    BY <1>6, <2>1
  <2>3. calls[c].id \notin excused
    BY <1>12 DEF Refreshing
  <2> QED BY <2>2, <2>3 DEF AnswersAlive
<1> QED BY <1>2, <1>7, <1>8, <1>9, <1>10, <1>11, <1>13, <1>14

LEMMA IdleTypes ==
  /\ Idle \in [at: At, op: {"ensure", "refresh", "usage", "logout"},
               id: 1..MaxAccounts, token: Tokens \cup {NoToken}]
  /\ Idle.at \notin Locked \cup {"sent", "answered", "revoke"}
  BY ManagerAssumption, AccountsAssumption DEF Idle, At, Locked

\* The process knows no more which refresh tokens were replaced, and starts
\* with the tokens of the file.
LEMMA CrashStep ==
  ASSUME MInv, Crash
  PROVE  MInv'
<1> USE DEF MInv, GrantInv
<1>1. /\ Restart /\ UNCHANGED <<issued, grant, dead>> /\ replaced' = {}
      /\ calls' = [c \in Callers |-> Idle] /\ holder' = [i \in 1..MaxAccounts |-> None]
  BY DEF Crash
<1>2. IInv'
  BY <1>1, RestartKeepsIInv
<1>3. /\ CallTypes' /\ LockIsHeld'
      /\ \A c \in Callers : calls'[c].at \notin {"sent", "answered", "revoke"}
  BY <1>1, IdleTypes DEF CallTypes, LockIsHeld
<1>4. /\ DOMAIN records' = DOMAIN disk.records
      /\ \A i \in DOMAIN disk.records : records'[i].token = disk.records[i].token
      /\ disk' = disk \/ disk'.records = records'
  BY <1>1 DEF Restart, LoadedRecords, NormalizeLoaded
<1>5. ASSUME NEW i, NEW t, Bears(i, t)' PROVE Bears(i, t)
  BY <1>3, <1>4, <1>5 DEF Bears
<1>6. GrantTypes' /\ BornTokens' /\ GrantsAreOwn' /\ SpentIsReplaced' /\ CallsAreFresh'
  BY <1>1, <1>3, <1>5 DEF GrantTypes, BornTokens, GrantsAreOwn, SpentIsReplaced, CallsAreFresh
<1>7. RecordsAlive' /\ AnswersAlive'
  BY <1>1, <1>3 DEF Crash, RecordsAlive, AnswersAlive
<1> QED BY <1>2, <1>3, <1>6, <1>7

-----------------------------------------------------------------------------
(* The theorem.                                                            *)

LEMMA ManagerInitIsMInv == ManagerInit => MInv
<1> SUFFICES ASSUME ManagerInit PROVE MInv
  OBVIOUS
<1>1. /\ Init /\ IInv /\ calls = [c \in Callers |-> Idle]
      /\ holder = [i \in 1..MaxAccounts |-> None]
      /\ grant = [token \in Tokens |-> IF token <= issued THEN token ELSE NoGrant]
      /\ dead = {} /\ replaced = {} /\ excused = {}
  BY InitIsIInv DEF ManagerInit
<1>2. /\ CallTypes /\ LockIsHeld
      /\ \A c \in Callers : calls[c].at \notin {"sent", "answered", "revoke"}
  BY <1>1, IdleTypes DEF CallTypes, LockIsHeld
<1>3. /\ disk \in InitialFiles /\ IsFile(disk) /\ DOMAIN records = DOMAIN disk.records
      /\ \A i \in DOMAIN records : records[i].token = disk.records[i].token
  BY <1>1, InitialFilesAssumption DEF Init, LoadedRecords, NormalizeLoaded
<1> DEFINE held == {i \in DOMAIN disk.records : disk.records[i].token # NoToken}
<1>4. PICK n \in Nat : {disk.records[i].token : i \in held} = 1..n
  <2>1. MaxAccounts \in Nat
    BY AccountsAssumption
  <2> QED BY <1>3, <2>1, FileTokensAssumption
<1>5. UNION {{records[i].token} \ {NoToken} : i \in DOMAIN records} = 1..n
  <2>1. UNION {{records[i].token} \ {NoToken} : i \in DOMAIN records}
          = {disk.records[i].token : i \in held}
    BY <1>3
  <2> QED BY <1>4, <2>1
<1>6. issued = n
  <2>1. Cardinality(1..n) = n
    BY FS_Interval
  <2> QED BY <1>5, <2>1 DEF ManagerInit
<1>7. ASSUME NEW i, NEW t, Bears(i, t), t # NoToken
      PROVE  i \in held /\ disk.records[i].token = t /\ t \in 1..issued /\ t \in Tokens
  <2>1. i \in held /\ disk.records[i].token = t
    BY <1>2, <1>3, <1>7 DEF Bears
  <2>2. disk.records[i] \in StoredRecord
    BY <1>3, <2>1 DEF IsFile
  <2>3. t \in Tokens
    BY <1>7, <2>1, <2>2 DEF StoredRecord
  <2> QED BY <1>4, <1>6, <2>1, <2>3
<1>8. \A t \in Tokens \cap (1..issued) : grant[t] = t
  BY <1>1, <1>6
<1>9. GrantTypes
  <2>1. grant \in [Tokens -> Tokens \cup {NoGrant}]
    BY <1>1
  <2> QED BY <1>1, <1>6, <1>8, <2>1 DEF GrantTypes
<1>10. BornTokens
  BY <1>7 DEF BornTokens
<1>11. GrantsAreOwn
  <2> SUFFICES ASSUME NEW i, NEW j, NEW t, NEW u, Bears(i, t), Bears(j, u),
                      t # NoToken, u # NoToken, grant[t] = grant[u]
               PROVE  i = j
    BY DEF GrantsAreOwn
  <2>1. t = u
    BY <1>7, <1>8
  <2>2. i \in held /\ j \in held /\ disk.records[i].token = disk.records[j].token
    BY <1>7, <2>1
  <2> QED BY <1>3, <2>2, FileTokensAssumption
<1>12. SpentIsReplaced /\ CallsAreFresh /\ RecordsAlive /\ AnswersAlive
  BY <1>1, <1>2 DEF SpentIsReplaced, CallsAreFresh, RecordsAlive, AnswersAlive
<1> QED BY <1>1, <1>2, <1>9, <1>10, <1>11, <1>12 DEF MInv, GrantInv

LEMMA ManagerNextKeepsMInv == MInv /\ [ManagerNext]_<<vars, managerVars>> => MInv'
<1> SUFFICES ASSUME MInv, [ManagerNext]_<<vars, managerVars>> PROVE MInv'
  OBVIOUS
<1>1. ASSUME NEW c \in Callers, Steps(c) PROVE MInv'
  BY <1>1, LookStep, LockStep, HeldStep, AnswerStep, StoreStep, RereadStep, FailureStep,
     UsageStep, LogoutStep DEF Steps
<1>2. ASSUME NEW c \in Callers, BeginAcquire(c) PROVE MInv'
  BY <1>2, BeginAcquireStep
<1>3. ASSUME NEW c \in Callers, NEW op \in Does[c], NEW id \in 1..created, Begin(c, op, id)
      PROVE  MInv'
  BY <1>3, BeginStep
<1>4. ASSUME NEW account \in AccountIDs, Login(account) PROVE MInv'
  BY <1>4, LoginStep
<1>5. ASSUME NEW id \in 1..created, Outside(id) PROVE MInv'
  <2>1. TokensKept /\ IInv' /\ UNCHANGED <<calls, holder, issued, grant, dead, replaced, excused>>
    BY <1>5, ChangeKeepsTokens, RemoveKeepsTokens DEF Outside, managerVars, MInv
  <2> QED BY <2>1, OutsideStep
<1>6. CASE Ages
  BY <1>6, SameService, OutsideStep DEF Ages, MInv
<1>7. CASE TimePasses
  BY <1>7, TickKeepsTokens, OutsideStep DEF TimePasses, managerVars, MInv
<1>8. CASE Crash
  BY <1>8, CrashStep
<1>9. CASE UNCHANGED <<vars, managerVars>>
  BY <1>9, SameService, OutsideStep DEF managerVars, MInv
<1> QED BY <1>1, <1>2, <1>3, <1>4, <1>5, <1>6, <1>7, <1>8, <1>9 DEF ManagerNext

\* A refresh token is never presented again once this process was told of its
\* replacement (ensureReady reads the record again under the account's lock),
\* for any number of callers and accounts, through device logins, removals,
\* logouts, failing saves and crashes.
THEOREM GrantsAreSpentOnce == ManagerSpec => []NoSpentGrant
<1>1. ManagerInit => MInv
  BY ManagerInitIsMInv
<1>2. MInv /\ [ManagerNext]_<<vars, managerVars>> => MInv'
  BY ManagerNextKeepsMInv
<1>3. MInv => NoSpentGrant
  <2> SUFFICES ASSUME MInv, NEW c \in Callers, calls[c].at = "sent"
               PROVE  Presented(c) \notin replaced
    BY DEF NoSpentGrant
  <2> QED BY DEF MInv, GrantInv, GrantTypes, CallsAreFresh, Presented
<1> QED BY <1>1, <1>2, <1>3, PTL DEF ManagerSpec

\* The refresh token of an account is one the OAuth server still accepts, or
\* the answer that replaces it is on its way to the record (ensureReady,
\* UpdateAuth), unless the answer or an unsaved record was lost or the account
\* was logged out: whatever refreshes, logins, failing saves and removals
\* interleave, for any number of callers and accounts.
THEOREM CredentialsAreKept == ManagerSpec => []CredentialsSurvive
<1>1. ManagerInit => MInv
  BY ManagerInitIsMInv
<1>2. MInv /\ [ManagerNext]_<<vars, managerVars>> => MInv'
  BY ManagerNextKeepsMInv
<1>3. MInv => CredentialsSurvive
  <2> SUFFICES ASSUME MInv, NEW id \in DOMAIN records \ excused, records[id].token # NoToken
               PROVE  \/ grant[records[id].token] \notin dead \cup {NoGrant}
                      \/ \E c \in Callers : holder[id] = c /\ calls[c].at = "answered"
    BY DEF CredentialsSurvive
  <2>1. grant[records[id].token] # NoGrant
    BY BorneGrant DEF MInv, GrantInv, Bears
  <2>2. CASE grant[records[id].token] \in dead
    <3>1. PICK c \in Callers : calls[c].id = id /\ calls[c].at = "answered"
      BY <2>2 DEF MInv, GrantInv, RecordsAlive
    <3>2. holder[id] = c
      BY <3>1 DEF MInv, LockIsHeld, Locked
    <3> QED BY <3>1, <3>2
  <2> QED BY <2>1, <2>2
<1> QED BY <1>1, <1>2, <1>3, PTL DEF ManagerSpec
-----------------------------------------------------------------------------
(* What a call answers.                                                    *)

\* The record of an account whose refreshed token was stored has that token or
\* a newer one until the caller reads it: the lock keeps other refreshes away,
\* and a login brings the newest token.
StoredIsKept ==
  \A c \in Callers :
    calls[c].at = "stored" =>
      /\ calls[c].token \in 1..issued
      /\ calls[c].id \in DOMAIN records => records[calls[c].id].token >= calls[c].token

NoneBecomesStored ==
  \A d \in Callers : calls'[d] = calls[d] \/ calls'[d].at # "stored"

LEMMA KeptStep ==
  ASSUME MInv, StoredIsKept, TokensKept, NoneBecomesStored,
         issued' = issued \/ issued' = issued + 1
  PROVE  StoredIsKept'
  BY DEF StoredIsKept, TokensKept, NoneBecomesStored, MInv, GrantInv, GrantTypes

LEMMA OtherPlace ==
  ASSUME CallTypes, NEW c \in Callers,
         \/ Ends(c)
         \/ \E token : Ready(c, token)
         \/ \E at, token : at # "stored" /\ GoesWith(c, at, token)
         \/ \E at : at # "stored" /\ Goes(c, at)
         \/ RefusedEnds(c)
  PROVE  NoneBecomesStored
<1>1. CASE Ends(c)
  BY <1>1 DEF Ends, Idle, NoneBecomesStored, CallTypes
<1>2. CASE \E token : Ready(c, token)
  BY <1>2, Readying DEF Moves, NoneBecomesStored
<1>3. ASSUME NEW at, NEW token, at # "stored", GoesWith(c, at, token)
      PROVE  NoneBecomesStored
  BY <1>3 DEF GoesWith, NoneBecomesStored, CallTypes
<1> QED BY <1>1, <1>2, <1>3 DEF Goes, RefusedEnds

LEMMA StepOfCall ==
  ASSUME MInv, NEW c \in Callers, Steps(c), ~Store(c)
  PROVE  TokensKept /\ NoneBecomesStored /\ (issued' = issued \/ issued' = issued + 1)
<1> USE DEF MInv
<1>1. CASE Look(c)
  BY <1>1, ReadKeepsTokens, OtherPlace DEF Look, oauth
<1>2. CASE Lock(c)
  BY <1>2, SameService, OtherPlace DEF Lock, oauth
<1>3. CASE Held(c)
  BY <1>3, ReadKeepsTokens, OtherPlace DEF Held, oauth
<1>4. CASE Answer(c)
  <2>1. TokensKept
    BY <1>4, SameService DEF Answer, Refused, Renews, Unanswered
  <2>2. NoneBecomesStored
    BY <1>4, OtherPlace DEF Answer, Refused, Renews, Unanswered
  <2> QED BY <1>4, <2>1, <2>2 DEF Answer, Refused, Renews, Unanswered, oauth
<1>5. CASE Reread(c)
  BY <1>5, ReadKeepsTokens, OtherPlace DEF Reread, oauth
<1>6. CASE MarkRefreshFailure(c)
  BY <1>6, ChangeKeepsTokens, OtherPlace DEF MarkRefreshFailure, oauth
<1>7. CASE Usage(c)
  <2>1. TokensKept /\ issued' = issued
    BY <1>7, SameService, ChangeKeepsTokens DEF Usage, oauth
  <2>2. NoneBecomesStored
    BY <1>7, OtherPlace DEF Usage
  <2> QED BY <2>1, <2>2
<1>8. CASE Observe(c)
  BY <1>8, ReadKeepsTokens, OtherPlace DEF Observe, oauth
<1>9. CASE RemoveRefused(c)
  BY <1>9, RemoveKeepsTokens, OtherPlace DEF RemoveRefused, oauth
<1>10. CASE LookLogout(c)
  BY <1>10, ReadKeepsTokens, OtherPlace DEF LookLogout, oauth
<1>11. CASE Revoke(c)
  <2>1. TokensKept /\ issued' = issued
    BY <1>11, SameService DEF Revoke
  <2>2. NoneBecomesStored
    BY <1>11, OtherPlace DEF Revoke
  <2> QED BY <2>1, <2>2
<1> QED BY <1>1, <1>2, <1>3, <1>4, <1>5, <1>6, <1>7, <1>8, <1>9, <1>10, <1>11
        DEF Steps

LEMMA StoreIsKept ==
  ASSUME MInv, StoredIsKept, NEW c \in Callers, Store(c)
  PROVE  StoredIsKept'
<1> DEFINE id == calls[c].id
           tok == calls[c].token
<1>1. /\ calls[c].at = "answered" /\ issued' = issued
      /\ UpdateAuth(id, None, tok)
      /\ GoesWith(c, "stored", tok) \/ Ends(c)
  BY DEF Store, oauth
<1>2. /\ records = [i \in DOMAIN records |-> records[i]]
      /\ \A i \in DOMAIN records : records[i] \in Record
  BY DEF MInv, IInv, TypeOK
<1>3. tok \in 1..issued /\ issued \in Nat
  BY <1>1 DEF MInv, GrantInv, CallsAreFresh, BornTokens, Bears, GrantTypes
<1>4. /\ DOMAIN records' = DOMAIN records
      /\ \A i \in DOMAIN records \ {id} : records'[i] = records[i]
      /\ id \in DOMAIN records => records'[id].token = tok
  <2>1. CASE id \notin DOMAIN records
    BY <1>1, <2>1 DEF UpdateAuth, Modify, NotFound
  <2>2. CASE id \in DOMAIN records
    <3>1. records' = [records EXCEPT ![id] = Renewed(records[id], None, tok)]
      BY <1>1, <2>2 DEF UpdateAuth, Modify, Update
    <3>2. Renewed(records[id], None, tok).token = tok
      BY <1>2, <2>2 DEF Renewed, Record
    <3> QED BY <1>2, <2>2, <3>1, <3>2
  <2> QED BY <2>1, <2>2
<1>5. ASSUME NEW d \in Callers, calls'[d].at = "stored"
      PROVE  /\ calls'[d].token \in 1..issued
             /\ calls'[d].id \in DOMAIN records' => records'[calls'[d].id].token >= calls'[d].token
  <2>1. CASE d = c
    <3>1. calls'[c].id = id /\ calls'[c].token = tok
      BY <1>1, <1>5, <2>1 DEF GoesWith, Ends, Idle, MInv, CallTypes
    <3> QED BY <1>3, <1>4, <2>1, <3>1
  <2>2. CASE d # c
    <3>1. calls'[d] = calls[d]
      BY <1>1, <2>2 DEF GoesWith, Ends, MInv, CallTypes
    <3>2. calls[d].id # id
      BY <1>1, <1>5, <2>2, <3>1, OneHolder DEF MInv, Locked
    <3> QED BY <1>4, <1>5, <3>1, <3>2 DEF StoredIsKept
  <2> QED BY <2>1, <2>2
<1> QED BY <1>1, <1>5 DEF StoredIsKept

LEMMA LoginIsKept ==
  ASSUME MInv, StoredIsKept, NEW account \in AccountIDs, Login(account)
  PROVE  StoredIsKept'
<1> DEFINE new == issued + 1
<1>1. /\ new \in Tokens /\ issued \in Nat /\ issued' = new /\ UpsertFromToken(account, new)
      /\ calls' = calls
  BY DEF Login, MInv, GrantInv, GrantTypes
<1>2. PICK id \in DOMAIN records' :
        /\ DOMAIN records' = DOMAIN records \cup {id} /\ records'[id].token = new
        /\ \A i \in DOMAIN records \ {id} : records'[i] = records[i]
  BY <1>1, UpsertGivesToken DEF MInv
<1> QED BY <1>1, <1>2 DEF StoredIsKept

LEMMA StoredNext ==
  MInv /\ StoredIsKept /\ [ManagerNext]_<<vars, managerVars>> => StoredIsKept'
<1> SUFFICES ASSUME MInv, StoredIsKept, [ManagerNext]_<<vars, managerVars>>
             PROVE  StoredIsKept'
  OBVIOUS
<1> DEFINE Still == /\ TokensKept /\ NoneBecomesStored
                    /\ issued' = issued \/ issued' = issued + 1
<1>1. Still => StoredIsKept'
  BY KeptStep
<1>2. calls' = calls => NoneBecomesStored
  BY DEF NoneBecomesStored
<1>3. ASSUME NEW c \in Callers, Steps(c) PROVE StoredIsKept'
  BY <1>1, <1>3, StepOfCall, StoreIsKept
<1>4. ASSUME NEW c \in Callers, BeginAcquire(c) PROVE Still
  <2>1. TokensKept /\ issued' = issued
    BY <1>4, AcquireKeepsTokens DEF BeginAcquire, oauth, MInv
  <2>2. NoneBecomesStored
    BY <1>4 DEF BeginAcquire, NoneBecomesStored, MInv, CallTypes
  <2> QED BY <2>1, <2>2
<1>5. ASSUME NEW c \in Callers, NEW op \in Does[c], NEW id \in 1..created, Begin(c, op, id)
      PROVE  Still
  <2>1. TokensKept /\ issued' = issued
    BY <1>5, SameService DEF Begin, oauth, MInv
  <2>2. PICK at \in {"lock", "logout", "look"} :
          calls' = [calls EXCEPT ![c] = [at |-> at, op |-> op, id |-> id, token |-> NoToken]]
    BY <1>5 DEF Begin
  <2>3. NoneBecomesStored
    BY <2>2 DEF NoneBecomesStored, MInv, CallTypes
  <2> QED BY <2>1, <2>3
<1>6. ASSUME NEW account \in AccountIDs, Login(account) PROVE StoredIsKept'
  BY <1>6, LoginIsKept
<1>7. ASSUME NEW id \in 1..created, Outside(id) PROVE Still
  BY <1>2, <1>7, ChangeKeepsTokens, RemoveKeepsTokens DEF Outside, managerVars, MInv
<1>8. Ages => Still
  BY <1>2, SameService DEF Ages, MInv
<1>9. TimePasses => Still
  BY <1>2, TickKeepsTokens DEF TimePasses, managerVars, MInv
<1>10. CASE Crash
  BY <1>10 DEF Crash, Idle, StoredIsKept
<1>11. UNCHANGED <<vars, managerVars>> => Still
  BY <1>2, SameService DEF managerVars, MInv
<1> HIDE DEF Still
<1> QED BY <1>1, <1>3, <1>4, <1>5, <1>6, <1>7, <1>8, <1>9, <1>10, <1>11
        DEF ManagerNext

\* A call answers with a token that was not about to expire, or with one at
\* least as new as the token its own refresh obtained (EnsureReady, Refresh),
\* for any number of callers, accounts and tokens.
THEOREM AnswersAreFresh == ManagerSpec => AnswerIsFresh
<1> DEFINE Fresh == answer' # None /\ answer' # answer =>
                      LET call == calls[answer'.caller] IN
                      \/ answer'.token \notin stale
                      \/ call.at = "stored" /\ answer'.token >= call.token
<1>1. MInv /\ StoredIsKept /\ [ManagerNext]_<<vars, managerVars>> => Fresh
  <2> SUFFICES ASSUME MInv, StoredIsKept, [ManagerNext]_<<vars, managerVars>>
               PROVE  Fresh
    OBVIOUS
  <2>1. ASSUME NEW c \in Callers, NEW token, Ready(c, token), token \notin stale
        PROVE  Fresh
    BY <2>1 DEF Ready
  <2>2. ASSUME NEW c \in Callers, Ends(c) \/ (\E at, token : GoesWith(c, at, token))
        PROVE  Fresh
    BY <2>2 DEF Ends, GoesWith
  <2>3. ASSUME NEW c \in Callers, Look(c) \/ Held(c) PROVE Fresh
    BY <2>1, <2>2, <2>3 DEF Look, Held, Goes
  <2>4. ASSUME NEW c \in Callers, Reread(c) PROVE Fresh
    <3>1. CASE Ends(c)
      BY <2>2, <3>1
    <3>2. CASE Found(calls[c].id) /\ Ready(c, records'[calls[c].id].token)
      <4>1. calls[c].at = "stored" /\ TokensKept
        BY <2>4, ReadKeepsTokens DEF Reread, MInv
      <4>2. records'[calls[c].id].token >= calls[c].token
        BY <3>2, <4>1 DEF Found, TokensKept, StoredIsKept
      <4>3. answer' = [caller |-> c, token |-> records'[calls[c].id].token]
        BY <3>2 DEF Ready
      <4> QED BY <4>1, <4>2, <4>3
    <3> QED BY <2>4, <3>1, <3>2 DEF Reread
  <2>5. ASSUME NEW c \in Callers, Steps(c), ~Look(c), ~Held(c), ~Reread(c) PROVE Fresh
    BY <2>2, <2>5 DEF Steps, Lock, Answer, Refused, Renews, Unanswered, Store,
         MarkRefreshFailure, RefusedEnds, Usage, Observe, RemoveRefused, LookLogout, Revoke, Goes
  <2>6. ASSUME NEW c \in Callers, BeginAcquire(c) PROVE Fresh
    BY <2>6 DEF BeginAcquire
  <2>7. ASSUME NEW c \in Callers, NEW op \in Does[c], NEW id \in 1..created, Begin(c, op, id)
        PROVE  Fresh
    BY <2>7 DEF Begin
  <2>8. ASSUME answer' = answer PROVE Fresh
    BY <2>8
  <2>9. ASSUME NEW account \in AccountIDs, Login(account) PROVE answer' = answer
    BY <2>9 DEF Login
  <2>10. ASSUME NEW id \in 1..created, Outside(id) PROVE answer' = answer
    BY <2>10 DEF Outside, managerVars
  <2>11. Ages \/ TimePasses \/ UNCHANGED <<vars, managerVars>> => answer' = answer
    BY DEF Ages, TimePasses, managerVars
  <2>12. Crash => Fresh
    BY DEF Crash
  <2> HIDE DEF Fresh
  <2> QED BY <2>3, <2>4, <2>5, <2>6, <2>7, <2>8, <2>9, <2>10, <2>11, <2>12 DEF ManagerNext
<1>2. ManagerInit => MInv /\ StoredIsKept
  BY ManagerInitIsMInv DEF ManagerInit, Idle, StoredIsKept
<1>3. MInv /\ StoredIsKept /\ [ManagerNext]_<<vars, managerVars>> => (MInv /\ StoredIsKept)'
  BY ManagerNextKeepsMInv, StoredNext
<1> HIDE DEF Fresh
<1>4. MInv /\ StoredIsKept /\ [ManagerNext]_<<vars, managerVars>> => [Fresh]_<<vars, managerVars>>
  BY <1>1
<1>5. ManagerSpec => [][Fresh]_<<vars, managerVars>>
  BY <1>2, <1>3, <1>4, PTL DEF ManagerSpec
<1> QED BY <1>5 DEF AnswerIsFresh, Fresh
=============================================================================
