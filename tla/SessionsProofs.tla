--------------------------- MODULE SessionsProofs ----------------------------
(***************************************************************************)
(* What Sessions keeps, for any accounts, settings, requests, restarts and *)
(* times to live.                                                          *)
(***************************************************************************)
EXTENDS Sessions, SequenceTheorems, FiniteSetTheorems, WellFoundedInduction, TLAPS

-----------------------------------------------------------------------------
(* Types.                                                                  *)

ItemType ==
    [kind : {"user", "assistant", "reasoning", "call", "result"}, of : Nat \cup {None}]
Transcripts == Seq(ItemType)
Ids0 == Nat \cup {None}
Keys == {Derive(settings, input) : settings \in Settings, input \in Transcripts}

Routes ==
    [how : {"plain", "explicit", "implicit", "fallback"}, prev : Ids0,
     input : Transcripts, full : Transcripts,
     preferred : Accounts \cup {None}, key : Keys]

Pendings ==
    [at : {"get", "late", "open", "answering"}, via : {"http", "compact", "socket"},
     settings : Settings, named : Ids0, follows : Ids0,
     sent : Transcripts, thread : Transcripts, whole : Transcripts,
     route : Routes \cup {None}, stripped : BOOLEAN,
     account : Accounts \cup {None}, over : Accounts \cup {None}, given : Transcripts]

Answers ==
    [at : {"answered"}, settings : Settings, account : Accounts,
     given : Transcripts, output : Transcripts,
     thread : Transcripts, whole : Transcripts,
     due : SUBSET Routes, until : Ids0]

Requests == Pendings \cup Answers \cup {Ended}

RecordType ==
    [account : Accounts, key : Keys, settings : Settings, history : Transcripts,
     calls : SUBSET Ids0, created : Nat, expires : Nat]

Sockets ==
    [stream : Accounts \cup {None}, last : Ids0, busy : Ids0, heard : Ids0]

HasUser(items) == \E i \in DOMAIN items : items[i] = User

TalkTypes ==
    /\ now \in Nat
    /\ requests \in Seq(Requests)
    /\ socket \in Sockets

Pending == {q \in DOMAIN requests : requests[q] \in Pendings}

-----------------------------------------------------------------------------
(* The inductive invariant.                                                *)

\* A record is that of an answer of this process, and of its account.
RecordsAreTrue ==
    \A r \in DOMAIN records :
        /\ r \in Answered
        /\ records[r] \in RecordType
        /\ records[r].account = requests[r].account
        /\ records[r].expires = requests[r].until
        /\ requests[r].due = {}

Fresh(q) == requests[q].until # None /\ now <= requests[q].until

\* An answer that can be continued has its record.
AnswersAreKept == \A q \in Answered : Fresh(q) => q \in DOMAIN records

\* What the client of a request asked of it.
AskedWell(q) ==
    LET request == requests[q]
    IN  /\ request.named # None => request.named \in Answered
        /\ request.via = "socket" => socket.busy = q
        /\ request.at = "late" =>
             /\ request.named # None
             /\ requests[request.named].due = {} /\ ~Fresh(request.named)
        /\ request.follows # None =>
             request.via = "socket" /\ request.named = request.follows

\* The response that a request was resolved to continue.
RoutedWell(q) ==
    LET request == requests[q]
        route == request.route
    IN  request.at \in {"open", "answering"} =>
          /\ route \in Routes
          /\ route.how \in {"explicit", "implicit"} =>
               /\ route.prev \in Answered
               /\ requests[route.prev].account = route.preferred
          /\ request.follows # None =>
               /\ route.how = "explicit" /\ route.prev = request.follows
               /\ route.input = request.sent

\* The account and the connection that a request went to.
SentWell(q) ==
    LET request == requests[q]
        route == request.route
    IN  request.at = "answering" =>
          /\ request.account \in Accounts
          /\ request.over = request.account
          /\ request.via = "socket" => socket.stream = request.account
          /\ (route.how = "implicit" \/ (request.via = "socket" /\ Pinned(q)))
               => request.account = route.preferred
          /\ request.follows # None =>
               request.given = Context(request.follows) \o request.sent

\* A socket continues the last response that its client read to its end, the
\* record of which is there before its next turn.
SocketIsTrue ==
    /\ socket.heard # None => socket.heard \in Answered
    /\ IF socket.busy \in Unkept THEN socket.heard = socket.busy
       ELSE socket.last = socket.heard /\ socket.heard \notin Unkept
    /\ socket.busy # None => socket.busy \in Pending \cup Unkept
    /\ socket.busy \in Pending => requests[socket.busy].via = "socket"

Sound(q) == AskedWell(q) /\ RoutedWell(q) /\ SentWell(q)

ThreadsHaveUsers ==
    \A q \in DOMAIN requests : requests[q] # Ended => HasUser(requests[q].thread)

TalkInv ==
    /\ TalkTypes /\ RecordsAreTrue /\ AnswersAreKept /\ SocketIsTrue
    /\ ThreadsHaveUsers
    /\ \A q \in Pending : Sound(q)

-----------------------------------------------------------------------------
(* Sets of numbers.                                                        *)

LEMMA Least ==
  ASSUME NEW T \in SUBSET Nat, T # {}
  PROVE  \E m \in T : \A n \in T : m <= n
<1> DEFINE R == OpToRel(<, Nat)
<1>1. IsWellFoundedOn(R, Nat)
  BY NatLessThanWellFounded
<1>2. \A a, b \in Nat : a < b => <<a, b>> \in R
  BY DEF OpToRel
<1> HIDE DEF R
<1>3. PICK m \in T : \A n \in T : ~(<<n, m>> \in R)
  BY <1>1, WFMin
<1>4. ASSUME NEW n \in T PROVE m <= n
  <2>1. m \in Nat /\ n \in Nat /\ ~(n < m)
    BY <1>2, <1>3
  <2> QED BY <2>1
<1> QED BY <1>4

LEMMA Induction ==
  ASSUME NEW T, 0 \in T, \A n \in Nat : n \in T => n + 1 \in T
  PROVE  Nat \subseteq T
<1> SUFFICES ASSUME Nat \ T # {} PROVE FALSE
  OBVIOUS
<1>1. PICK m \in Nat \ T : \A n \in Nat \ T : m <= n
  BY Least
<1> QED BY <1>1, m - 1 \in Nat

LEMMA MaxIsIn ==
  ASSUME NEW n \in Nat, NEW T \in SUBSET (1 .. n), T # {}
  PROVE  Max(T) \in T /\ \A i \in T : i <= Max(T)
<1> DEFINE D == {n - i : i \in T}
<1>1. PICK d \in D : \A c \in D : d <= c
  <2>1. \A i \in T : n - i \in Nat
    OBVIOUS
  <2>2. D \in SUBSET Nat /\ D # {}
    BY <2>1
  <2> QED BY <2>2, Least
<1>2. PICK m \in T : d = n - m
  BY <1>1
<1>3. \A i \in T : m >= i
  <2> SUFFICES ASSUME NEW i \in T PROVE m >= i
    OBVIOUS
  <2>1. d <= n - i
    BY <1>1
  <2>2. i \in 1 .. n /\ m \in 1 .. n
    OBVIOUS
  <2> QED BY <2>1, <2>2, <1>2
<1>4. ASSUME NEW i \in T PROVE i \in Nat
  <2>1. i \in 1 .. n
    OBVIOUS
  <2> QED BY <2>1
<1>5. Max(T) \in T /\ \A i \in T : Max(T) >= i
  BY <1>3 DEF Max
<1> QED BY <1>4, <1>5

-----------------------------------------------------------------------------
(* Transcripts.                                                            *)

LEMMA UserType == User \in ItemType
  BY DEF User, ItemType

LEMMA NextItemType ==
  ASSUME NEW r \in Nat
  PROVE  NextItem(r) \in Transcripts
<1>1. Item("result", r) \in ItemType
  BY DEF Item, ItemType
<1> QED BY <1>1, UserType DEF NextItem, Transcripts

LEMMA LastTurnType ==
  ASSUME NEW items \in Transcripts, HasUser(items)
  PROVE  LastTurn(items) \in Transcripts /\ HasUser(LastTurn(items))
<1> DEFINE users == {i \in DOMAIN items : items[i] = User}
           m == Max(users)
<1>1. m \in 1 .. Len(items) /\ items[m] = User
  <2>1. users \in SUBSET (1 .. Len(items)) /\ users # {} /\ Len(items) \in Nat
    BY DEF Transcripts, HasUser
  <2> QED BY <2>1, MaxIsIn
<1> HIDE DEF m, users
<1>2. LastTurn(items) = SubSeq(items, m, Len(items))
  BY DEF LastTurn, m, users
<1>3. /\ SubSeq(items, m, Len(items)) \in Transcripts
      /\ Len(SubSeq(items, m, Len(items))) >= 1
      /\ SubSeq(items, m, Len(items))[1] = items[m]
  BY <1>1, SubSeqProperties DEF Transcripts
<1>4. 1 \in DOMAIN SubSeq(items, m, Len(items))
  BY <1>3 DEF Transcripts
<1> QED BY <1>1, <1>2, <1>3, <1>4 DEF HasUser

LEMMA ConcatHasUser ==
  ASSUME NEW s \in Transcripts, NEW t \in Transcripts
  PROVE  /\ s \o t \in Transcripts
         /\ HasUser(s) => HasUser(s \o t)
<1>1. s \o t \in Transcripts
  BY DEF Transcripts
<1>2. ASSUME NEW i \in DOMAIN s, s[i] = User
      PROVE  i \in DOMAIN (s \o t) /\ (s \o t)[i] = User
  BY <1>2, ConcatProperties DEF Transcripts
<1> QED BY <1>1, <1>2 DEF HasUser

LEMMA ConcatType ==
  ASSUME NEW s \in Transcripts, NEW t \in Transcripts
  PROVE  s \o t \in Transcripts
  BY ConcatProperties DEF Transcripts

LEMMA Assoc ==
  ASSUME NEW s \in Transcripts, NEW t \in Transcripts, NEW u \in Transcripts
  PROVE  (s \o t) \o u = s \o (t \o u)
  BY ConcatAssociative DEF Transcripts

LEMMA StrippedIs ==
  ASSUME NEW items \in Transcripts
  PROVE  \E kept \in [0 .. Len(items) -> Transcripts] :
           /\ kept[0] = <<>>
           /\ \A n \in 1 .. Len(items) :
                kept[n] = IF items[n].kind = "reasoning" THEN kept[n - 1]
                          ELSE Append(kept[n - 1], items[n])
           /\ Stripped(items) = kept[Len(items)]
<1> DEFINE Step(f, n) == IF n = 0 THEN <<>>
                         ELSE IF items[n].kind = "reasoning" THEN f[n - 1]
                         ELSE Append(f[n - 1], items[n])
           IsKept(f, m) == f \in [0 .. m -> Transcripts] /\ f = [n \in 0 .. m |-> Step(f, n)]
           T == {m \in Nat : m <= Len(items) => \E f : IsKept(f, m)}
<1>1. Len(items) \in Nat /\ \A n \in 1 .. Len(items) : items[n] \in ItemType
  BY DEF Transcripts
<1>2. 0 \in T
  <2> DEFINE f == [n \in 0 .. 0 |-> <<>>]
  <2>1. f \in [0 .. 0 -> Transcripts]
    BY DEF Transcripts
  <2>2. f = [n \in 0 .. 0 |-> Step(f, n)]
    OBVIOUS
  <2> QED BY <2>1, <2>2
<1>3. ASSUME NEW m \in Nat, m \in T PROVE m + 1 \in T
  <2> SUFFICES ASSUME m + 1 <= Len(items) PROVE \E f : IsKept(f, m + 1)
    OBVIOUS
  <2>1. PICK f : IsKept(f, m)
    <3> HIDE DEF IsKept
    <3> QED BY <1>1, <1>3
  <2> DEFINE g == [n \in 0 .. m + 1 |-> IF n = m + 1 THEN Step(f, n) ELSE f[n]]
  <2>2. f[m] \in Transcripts /\ items[m + 1] \in ItemType
    BY <1>1, <2>1
  <2>3. Step(f, m + 1) \in Transcripts
    BY <2>2 DEF Transcripts
  <2>4. g \in [0 .. m + 1 -> Transcripts]
    BY <2>1, <2>3
  <2>5. ASSUME NEW n \in 0 .. m + 1 PROVE g[n] = Step(g, n)
    <3>1. CASE n = m + 1
      BY <3>1
    <3>2. CASE n \in 0 .. m
      <4>1. f[n] = Step(f, n)
        BY <2>1, <3>2
      <4> QED BY <4>1, <3>2
    <3> QED BY <3>1, <3>2
  <2>6. g = [n \in 0 .. m + 1 |-> Step(g, n)]
    BY <2>5
  <2> QED BY <2>4, <2>6
<1>4. \E f : IsKept(f, Len(items))
  <2> HIDE DEF IsKept
  <2>1. Nat \subseteq T
    <3> HIDE DEF T
    <3> QED BY <1>2, <1>3, Induction
  <2> QED BY <1>1, <2>1
<1> DEFINE kept[n \in 0 .. Len(items)] ==
          IF n = 0 THEN <<>>
          ELSE IF items[n].kind = "reasoning" THEN kept[n - 1]
          ELSE Append(kept[n - 1], items[n])
<1>5. Stripped(items) = kept[Len(items)]
  BY DEF Stripped
<1>6. kept = [n \in 0 .. Len(items) |-> Step(kept, n)]
  BY <1>4
<1>7. \A n \in 0 .. Len(items) : kept[n] = Step(kept, n)
  BY <1>6
<1> HIDE DEF kept
<1> DEFINE U == {n \in Nat : n <= Len(items) => kept[n] \in Transcripts}
<1>8. 0 \in U
  <2>1. kept[0] = <<>>
    BY <1>1, <1>7
  <2>2. <<>> \in Transcripts
    BY DEF Transcripts
  <2> HIDE DEF kept
  <2> QED BY <2>1, <2>2
<1>9. ASSUME NEW n \in Nat, n \in U PROVE n + 1 \in U
  <2> SUFFICES ASSUME n + 1 <= Len(items) PROVE kept[n + 1] \in Transcripts
    OBVIOUS
  <2>1. kept[n] \in Transcripts /\ items[n + 1] \in ItemType
    BY <1>1, <1>9
  <2>2. kept[n + 1] = IF items[n + 1].kind = "reasoning" THEN kept[n]
                      ELSE Append(kept[n], items[n + 1])
    BY <1>1, <1>7
  <2> QED BY <2>1, <2>2 DEF Transcripts
<1>10. Nat \subseteq U
  <2> HIDE DEF U
  <2> QED BY <1>8, <1>9, Induction
<1>11. kept \in [0 .. Len(items) -> Transcripts]
  BY <1>1, <1>6, <1>10
<1>12. kept[0] = <<>>
  BY <1>1, <1>7
<1>13. \A n \in 1 .. Len(items) : kept[n] = IF items[n].kind = "reasoning" THEN kept[n - 1]
                                           ELSE Append(kept[n - 1], items[n])
  BY <1>1, <1>7
<1> HIDE DEF Step, IsKept, T, U
<1> QED BY <1>5, <1>11, <1>12, <1>13

LEMMA AppendAfter ==
  ASSUME NEW c \in Transcripts, NEW l \in Transcripts, NEW x \in ItemType
  PROVE  c \o Append(l, x) = Append(c \o l, x)
<1>1. Append(l, x) = l \o <<x>> /\ Append(c \o l, x) = (c \o l) \o <<x>>
  BY AppendIsConcat, ConcatProperties DEF Transcripts
<1> QED BY <1>1, ConcatAssociative DEF Transcripts

LEMMA StrippedType ==
  ASSUME NEW items \in Transcripts
  PROVE  Stripped(items) \in Transcripts
<1>1. Len(items) \in Nat
  BY DEF Transcripts
<1> QED BY <1>1, StrippedIs

LEMMA StrippedConcat ==
  ASSUME NEW s \in Transcripts, NEW t \in Transcripts
  PROVE  Stripped(s \o t) = Stripped(s) \o Stripped(t)
<1> DEFINE u == s \o t
<1>1. /\ u \in Transcripts /\ Len(u) = Len(s) + Len(t) /\ Len(s) \in Nat /\ Len(t) \in Nat
      /\ \A n \in 1 .. Len(s) : u[n] = s[n]
      /\ \A n \in 1 .. Len(t) : u[Len(s) + n] = t[n]
  BY ConcatProperties DEF Transcripts
<1> HIDE DEF u
<1> DEFINE IsKept(items, kept) ==
             /\ kept \in [0 .. Len(items) -> Transcripts]
             /\ kept[0] = <<>>
             /\ \A n \in 1 .. Len(items) :
                  kept[n] = IF items[n].kind = "reasoning" THEN kept[n - 1]
                            ELSE Append(kept[n - 1], items[n])
             /\ Stripped(items) = kept[Len(items)]
<1>2. PICK k : IsKept(s, k)
  BY StrippedIs
<1>3. PICK l : IsKept(t, l)
  BY StrippedIs
<1>4. PICK m : IsKept(u, m)
  BY <1>1, StrippedIs
<1> DEFINE a == Len(s)
           b == Len(t)
           c == k[a]
           T == {n \in Nat : n <= a => m[n] = k[n]}
           U == {n \in Nat : n <= b => m[a + n] = c \o l[n]}
<1>5. 0 \in T
  BY <1>2, <1>4
<1>6. ASSUME NEW n \in Nat, n \in T PROVE n + 1 \in T
  <2> SUFFICES ASSUME n + 1 <= a PROVE m[n + 1] = k[n + 1]
    OBVIOUS
  <2>1. u[n + 1] = s[n + 1] /\ m[n] = k[n] /\ n + 1 \in 1 .. Len(u) /\ n + 1 \in 1 .. a
    BY <1>1, <1>6
  <2> QED BY <2>1, <1>2, <1>4
<1>7. Nat \subseteq T
  <2> HIDE DEF T
  <2> QED BY <1>5, <1>6, Induction
<1>8. a \in Nat /\ b \in Nat /\ m[a] = c /\ c \in Transcripts
  BY <1>1, <1>2, <1>7
<1>9. /\ Len(u) = a + b
      /\ l \in [0 .. b -> Transcripts] /\ l[0] = <<>>
      /\ \A n \in 1 .. b : l[n] = IF t[n].kind = "reasoning" THEN l[n - 1]
                                ELSE Append(l[n - 1], t[n])
      /\ \A n \in 1 .. a + b : m[n] = IF u[n].kind = "reasoning" THEN m[n - 1]
                                    ELSE Append(m[n - 1], u[n])
      /\ \A n \in 1 .. b : u[a + n] = t[n] /\ t[n] \in ItemType
  BY <1>1, <1>3, <1>4 DEF Transcripts
<1>10. Stripped(s) = c /\ Stripped(t) = l[b] /\ Stripped(u) = m[a + b]
  BY <1>1, <1>2, <1>3, <1>4
<1> HIDE DEF a, b, c, T, IsKept
<1>11. 0 \in U
  <2>1. c \o <<>> = c
    BY <1>8, ConcatEmptySeq DEF Transcripts
  <2>2. a + 0 = a
    BY <1>8
  <2>3. m[a + 0] = c \o l[0]
    BY <2>1, <2>2, <1>8, <1>9
  <2> QED BY <2>3
<1>12. ASSUME NEW n \in Nat, n \in U PROVE n + 1 \in U
  <2>1. SUFFICES ASSUME n + 1 <= b PROVE m[a + (n + 1)] = c \o l[n + 1]
    OBVIOUS
  <2>2. m[a + n] = c \o l[n]
    BY <2>1, <1>8, <1>12
  <2> HIDE DEF U
  <2> DEFINE d == a + (n + 1)
  <2>3. d \in 1 .. a + b /\ n + 1 \in 1 .. b /\ d - 1 = a + n /\ (n + 1) - 1 = n
    BY <2>1, <1>8
  <2>4. u[d] = t[n + 1] /\ t[n + 1] \in ItemType /\ l[n] \in Transcripts
    BY <2>1, <2>3, <1>8, <1>9
  <2>5. l[n + 1] = IF t[n + 1].kind = "reasoning" THEN l[n] ELSE Append(l[n], t[n + 1])
    BY <2>3, <1>9
  <2> HIDE DEF d
  <2>6. m[d] = IF t[n + 1].kind = "reasoning" THEN m[a + n] ELSE Append(m[a + n], t[n + 1])
    BY <2>3, <2>4, <1>9
  <2>7. c \o Append(l[n], t[n + 1]) = Append(c \o l[n], t[n + 1])
    BY <2>4, <1>8, AppendAfter
  <2>8. m[d] = c \o l[n + 1]
    BY <2>2, <2>5, <2>6, <2>7
  <2> QED BY <2>8 DEF d
<1>13. Nat \subseteq U
  <2> HIDE DEF U
  <2> QED BY <1>11, <1>12, Induction
<1>14. m[a + b] = c \o l[b]
  BY <1>8, <1>13
<1> QED BY <1>10, <1>14 DEF u

LEMMA StrippedShort ==
  /\ Stripped(<<>>) = <<>>
  /\ \A x \in ItemType : Stripped(<<x>>) = IF x.kind = "reasoning" THEN <<>> ELSE <<x>>
<1>1. Stripped(<<>>) = <<>>
  <2>1. <<>> \in Transcripts
    BY DEF Transcripts
  <2> QED BY <2>1, StrippedIs
<1>2. ASSUME NEW x \in ItemType
      PROVE  Stripped(<<x>>) = IF x.kind = "reasoning" THEN <<>> ELSE <<x>>
  <2>1. <<x>> \in Transcripts /\ Len(<<x>>) = 1 /\ <<x>>[1] = x
    BY DEF Transcripts
  <2> DEFINE s == <<x>>
  <2>2. s \in Transcripts /\ Len(s) = 1 /\ s[1] = x
    BY <2>1
  <2> HIDE DEF s
  <2>3. Stripped(s) = IF x.kind = "reasoning" THEN <<>> ELSE Append(<<>>, x)
    <3>1. PICK kept \in [0 .. 1 -> Transcripts] :
            /\ kept[0] = <<>>
            /\ \A n \in 1 .. 1 :
                 kept[n] = IF s[n].kind = "reasoning" THEN kept[n - 1]
                           ELSE Append(kept[n - 1], s[n])
            /\ Stripped(s) = kept[1]
      BY <2>2, StrippedIs
    <3> QED BY <2>2, <3>1, 1 - 1 = 0
  <2>4. Append(<<>>, x) = <<x>>
    OBVIOUS
  <2> QED BY <2>3, <2>4 DEF s
<1> QED BY <1>1, <1>2

LEMMA StrippedTwice ==
  ASSUME NEW items \in Transcripts
  PROVE  Stripped(Stripped(items)) = Stripped(items)
<1>1. PICK kept \in [0 .. Len(items) -> Transcripts] :
        /\ kept[0] = <<>>
        /\ \A n \in 1 .. Len(items) :
             kept[n] = IF items[n].kind = "reasoning" THEN kept[n - 1]
                       ELSE Append(kept[n - 1], items[n])
        /\ Stripped(items) = kept[Len(items)]
  BY StrippedIs
<1>2. Len(items) \in Nat /\ \A n \in 1 .. Len(items) : items[n] \in ItemType
  BY DEF Transcripts
<1> DEFINE T == {n \in Nat : n <= Len(items) => Stripped(kept[n]) = kept[n]}
<1>3. 0 \in T
  BY <1>1, StrippedShort
<1>4. ASSUME NEW n \in Nat, n \in T PROVE n + 1 \in T
  <2>1. SUFFICES ASSUME n + 1 <= Len(items) PROVE Stripped(kept[n + 1]) = kept[n + 1]
    OBVIOUS
  <2>2. Stripped(kept[n]) = kept[n] /\ n + 1 \in 1 .. Len(items) /\ (n + 1) - 1 = n
    BY <1>2, <1>4, <2>1
  <2> DEFINE x == items[n + 1]
             k == kept[n]
  <2>3. x \in ItemType /\ k \in Transcripts
    BY <1>1, <1>2, <2>2
  <2>4. kept[n + 1] = IF x.kind = "reasoning" THEN k ELSE Append(k, x)
    BY <1>1, <2>2
  <2>5. Stripped(k) = k
    BY <2>2
  <2> HIDE DEF x, k, T
  <2>6. Append(k, x) = k \o <<x>> /\ <<x>> \in Transcripts
    BY <2>3, AppendIsConcat DEF Transcripts
  <2>7. Stripped(k \o <<x>>) = k \o Stripped(<<x>>)
    BY <2>3, <2>5, <2>6, StrippedConcat
  <2>8. CASE x.kind = "reasoning"
    BY <2>4, <2>5, <2>8
  <2>9. CASE x.kind # "reasoning"
    BY <2>3, <2>4, <2>6, <2>7, <2>9, StrippedShort
  <2> QED BY <2>8, <2>9
<1>5. Nat \subseteq T
  <2> HIDE DEF T
  <2> QED BY <1>3, <1>4, Induction
<1> QED BY <1>1, <1>2, <1>5

LEMMA SuffixIs ==
  ASSUME NEW s \in Transcripts, NEW t \in Transcripts
  PROVE  IsSuffix(s, t) <=> \E u \in Transcripts : t = u \o s
<1> DEFINE n == Len(s)
           m == Len(t)
           rs == Reverse(s)
           rt == Reverse(t)
<1>1. /\ n \in Nat /\ m \in Nat
      /\ rs \in Transcripts /\ Len(rs) = n /\ \A i \in 1 .. n : rs[i] = s[n - i + 1]
      /\ rt \in Transcripts /\ Len(rt) = m /\ \A i \in 1 .. m : rt[i] = t[m - i + 1]
  BY DEF Transcripts, Reverse
<1> HIDE DEF rs, rt
<1>2. IsSuffix(s, t) <=> n <= m /\ \A i \in 1 .. n : rs[i] = rt[i]
  <2>1. ASSUME n <= m
        PROVE  SubSeq(rs, 1, n) = SubSeq(rt, 1, n) <=> \A i \in 1 .. n : rs[i] = rt[i]
    <3>1. /\ SubSeq(rs, 1, n) \in Transcripts /\ Len(SubSeq(rs, 1, n)) = n
          /\ SubSeq(rt, 1, n) \in Transcripts /\ Len(SubSeq(rt, 1, n)) = n
          /\ \A i \in 1 .. n : SubSeq(rs, 1, n)[i] = rs[i] /\ SubSeq(rt, 1, n)[i] = rt[i]
      BY <1>1, <2>1, SubSeqProperties DEF Transcripts
    <3> QED BY <1>1, <3>1, SeqEqual DEF Transcripts
  <2> QED BY <1>1, <2>1 DEF IsSuffix, IsPrefix, rs, rt
<1>3. ASSUME n <= m, \A i \in 1 .. n : rs[i] = rt[i]
      PROVE  \E u \in Transcripts : t = u \o s
  <2> DEFINE u == SubSeq(t, 1, m - n)
  <2>1. u \in Transcripts /\ Len(u) = m - n /\ \A i \in 1 .. m - n : u[i] = t[i]
    BY <1>1, <1>3, SubSeqProperties DEF Transcripts
  <2> HIDE DEF u
  <2>2. /\ u \o s \in Transcripts /\ Len(u \o s) = m
        /\ \A i \in 1 .. m : (u \o s)[i] = IF i <= m - n THEN u[i] ELSE s[i - (m - n)]
    BY <1>1, <1>3, <2>1, ConcatProperties, SMTT(30) DEF Transcripts
  <2> HIDE DEF n, m
  <2>3. ASSUME NEW i \in 1 .. m PROVE (u \o s)[i] = t[i]
    <3>1. CASE i <= m - n
      BY <1>1, <1>3, <2>1, <2>2, <3>1
    <3>2. CASE i > m - n
      <4> DEFINE j == m - i + 1
                 k == i - (m - n)
      <4>1. j \in 1 .. n /\ m - j + 1 = i /\ n - j + 1 = k /\ j \in 1 .. m
        BY <1>1, <1>3, <3>2
      <4>2. (u \o s)[i] = s[k]
        BY <1>1, <2>2, <3>2
      <4> HIDE DEF j, k
      <4>3. rs[j] = s[k] /\ rt[j] = t[i]
        BY <1>1, <4>1
      <4> QED BY <1>3, <4>1, <4>2, <4>3
    <3>3. m \in Int /\ n \in Int /\ i \in Int
      BY <1>1
    <3>4. i <= m - n \/ i > m - n
      BY <3>3
    <3> QED BY <3>1, <3>2, <3>4, Zenon
  <2>4. Len(u \o s) = Len(t)
    BY <2>2 DEF m
  <2> QED BY <2>1, <2>2, <2>3, <2>4, SeqEqual DEF Transcripts, m
<1>4. ASSUME NEW u \in Transcripts, t = u \o s
      PROVE  n <= m /\ \A i \in 1 .. n : rs[i] = rt[i]
  <2>1. Len(u) \in Nat /\ m = Len(u) + n /\ \A i \in 1 .. n : t[Len(u) + i] = s[i]
    BY <1>1, <1>4, ConcatProperties DEF Transcripts
  <2>2. ASSUME NEW i \in 1 .. n PROVE rs[i] = rt[i]
    <3> DEFINE j == n - i + 1
    <3>1. j \in 1 .. n /\ m - i + 1 = Len(u) + j /\ i \in 1 .. m
      BY <1>1, <2>1
    <3>2. t[Len(u) + j] = s[j]
      BY <2>1, <3>1
    <3> HIDE DEF j
    <3>3. rs[i] = s[j] /\ rt[i] = t[Len(u) + j]
      BY <1>1, <3>1 DEF j
    <3> QED BY <3>2, <3>3
  <2> QED BY <1>1, <2>1, <2>2
<1> QED BY <1>2, <1>3, <1>4

LEMMA PartIs ==
  ASSUME NEW s \in Transcripts, NEW t \in Transcripts
  PROVE  IsPart(s, t) <=> \E u \in Transcripts : Stripped(t) = u \o Stripped(s)
  BY SuffixIs, StrippedType DEF IsPart

LEMMA PartOfItself ==
  ASSUME NEW s \in Transcripts
  PROVE  IsPart(s, s)
<1>1. <<>> \in Transcripts /\ Stripped(s) = <<>> \o Stripped(s)
  BY StrippedType, ConcatEmptySeq DEF Transcripts
<1> QED BY <1>1, PartIs

LEMMA PartTransitive ==
  ASSUME NEW s \in Transcripts, NEW t \in Transcripts, NEW u \in Transcripts,
         IsPart(s, t), IsPart(t, u)
  PROVE  IsPart(s, u)
<1>1. PICK v \in Transcripts : Stripped(t) = v \o Stripped(s)
  BY PartIs
<1>2. PICK w \in Transcripts : Stripped(u) = w \o Stripped(t)
  BY PartIs
<1>3. Stripped(s) \in Transcripts
  BY StrippedType
<1>4. Stripped(u) = (w \o v) \o Stripped(s) /\ w \o v \in Transcripts
  <2>1. (w \o v) \o Stripped(s) = w \o (v \o Stripped(s))
    BY <1>3, Assoc, SMTT(30)
  <2>2. w \o v \in Transcripts
    BY ConcatType, Zenon
  <2> QED BY <2>1, <2>2, <1>1, <1>2, Zenon
<1> QED BY <1>4, PartIs

LEMMA PartIsEnd ==
  ASSUME NEW s \in Transcripts, NEW t \in Transcripts
  PROVE  IsPart(s, t \o s)
<1>1. t \o s \in Transcripts /\ Stripped(t \o s) = Stripped(t) \o Stripped(s)
  BY StrippedConcat, ConcatProperties DEF Transcripts
<1> QED BY <1>1, PartIs, StrippedType

LEMMA PartExtends ==
  ASSUME NEW s \in Transcripts, NEW t \in Transcripts, NEW u \in Transcripts,
         IsPart(s, t)
  PROVE  IsPart(s \o u, t \o u)
<1>1. PICK v \in Transcripts : Stripped(t) = v \o Stripped(s)
  BY PartIs
<1>2. /\ t \o u \in Transcripts /\ Stripped(t \o u) = Stripped(t) \o Stripped(u)
      /\ s \o u \in Transcripts /\ Stripped(s \o u) = Stripped(s) \o Stripped(u)
  BY StrippedConcat, ConcatProperties DEF Transcripts
<1>3. Stripped(t \o u) = v \o Stripped(s \o u)
  <2>1. Stripped(s) \in Transcripts /\ Stripped(u) \in Transcripts
    BY StrippedType
  <2>2. (v \o Stripped(s)) \o Stripped(u) = v \o (Stripped(s) \o Stripped(u))
    BY <2>1, Assoc
  <2> QED BY <1>1, <1>2, <2>2, Zenon
<1> QED BY <1>2, <1>3, PartIs

LEMMA PartStripped ==
  ASSUME NEW s \in Transcripts
  PROVE  IsPart(s, Stripped(s)) /\ IsPart(Stripped(s), s)
  BY StrippedType, StrippedTwice, PartOfItself DEF IsPart

-----------------------------------------------------------------------------
(* Steps of one request.                                                   *)

LEMMA Kinds ==
  ASSUME TalkTypes, NEW q \in DOMAIN requests
  PROVE  /\ q \in Nat /\ DOMAIN requests = 1 .. Len(requests) /\ Len(requests) \in Nat
         /\ requests[q] \in Requests
         /\ q \in Answered <=> requests[q] \in Answers
         /\ q \in Answering <=> q \in Pending /\ requests[q].at = "answering"
         /\ requests[q].at \in {"get", "late", "open", "answering"} <=> q \in Pending
         /\ q \in Answered => q \notin Pending /\ requests[q] # Ended
         /\ q \in Pending => requests[q] # Ended
<1>1. /\ q \in Nat /\ DOMAIN requests = 1 .. Len(requests) /\ Len(requests) \in Nat
      /\ requests[q] \in Requests
  BY DEF TalkTypes
<1>2. /\ requests[q] \in Pendings =>
           requests[q].at \in {"get", "late", "open", "answering"}
      /\ requests[q] \in Answers => requests[q].at = "answered"
      /\ requests[q] = Ended => requests[q].at = "ended"
  BY DEF Pendings, Answers, Ended
<1> HIDE DEF Pendings, Answers, Ended
<1> QED BY <1>1, <1>2 DEF Requests, Answered, Answering, At, Pending

LEMMA UnkeptType ==
  ASSUME TalkTypes
  PROVE  \A q \in Unkept : q \in Answered /\ q # None /\ q \notin Pending
<1>1. \A q \in Answered : q \in Nat /\ q \notin Pending
  BY Kinds DEF Answered, At
<1> QED BY <1>1, ConversationsAssumption DEF Unkept

\* A request changes, and no other.
Only(q, new) == requests' = [requests EXCEPT ![q] = new]

LEMMA StaySound ==
  ASSUME TalkTypes, NEW p \in Pending, Sound(p),
         p \in DOMAIN requests', requests'[p] = requests[p],
         \A r \in Answered :
           /\ r \in Answered'
           /\ requests'[r].account = requests[r].account
           /\ requests'[r].given = requests[r].given
           /\ requests'[r].output = requests[r].output
           /\ requests[r].due = {} => requests'[r] = requests[r],
         now' \in Nat, now <= now',
         requests[p].via = "socket" =>
           /\ socket'.busy = socket.busy
           /\ requests[p].at = "answering" => socket'.stream = socket.stream
  PROVE  Sound(p)'
<1> USE DEF Pending
<1>1. AskedWell(p)'
  <2>1. \A r \in Answered : requests[r].due = {} /\ Fresh(r)' => Fresh(r)
    <3>1. \A r \in Answered : requests[r].until \in Nat \cup {None}
      BY Kinds DEF Answers, Ids0, Answered, At
    <3> QED BY <3>1, ConversationsAssumption DEF Fresh, TalkTypes
  <2> QED BY <2>1 DEF AskedWell, Sound
<1>2. RoutedWell(p)'
  BY DEF RoutedWell, Sound
<1>3. SentWell(p)'
  <2>1. requests[p].follows # None => requests[p].follows \in Answered
    BY DEF AskedWell, Sound
  <2> QED BY <2>1 DEF SentWell, Sound, Pinned, Route, Context
<1> QED BY <1>1, <1>2, <1>3 DEF Sound

LEMMA Changed ==
  ASSUME TalkTypes, NEW q \in Pending, NEW new \in Requests, Only(q, new)
  PROVE  /\ DOMAIN requests' = DOMAIN requests
         /\ requests' \in Seq(Requests)
         /\ requests'[q] = new
         /\ \A p \in DOMAIN requests : p # q => requests'[p] = requests[p]
         /\ \A r \in Answered : r # q /\ r \in Answered' /\ requests'[r] = requests[r]
         /\ Pending' \subseteq Pending
         /\ Answered' \subseteq Answered \cup {q}
<1>1. /\ requests' \in Seq(Requests) /\ DOMAIN requests' = DOMAIN requests
      /\ \A p \in DOMAIN requests : requests'[p] = IF p = q THEN new ELSE requests[p]
  BY ExceptSeq DEF TalkTypes, Pending, Only
<1>2. \A r \in Answered : r # q /\ r \in DOMAIN requests
  BY Kinds DEF Answered, At
<1> QED BY <1>1, <1>2 DEF Answered, At, Pending

LEMMA Moved ==
  ASSUME TalkInv, NEW q \in Pending, NEW new \in Pendings \cup {Ended}, Only(q, new),
         UNCHANGED now,
         new \in Pendings => /\ HasUser(new.thread) /\ Sound(q)'
                             /\ new.via = requests[q].via,
         \A r \in DOMAIN records' : r \in DOMAIN records /\ records'[r] = records[r],
         \A r \in DOMAIN records : r \in DOMAIN records' \/ ~Fresh(r),
         socket' \in Sockets, socket'.last = socket.last, socket'.heard = socket.heard,
         socket.busy # q => socket' = socket,
         socket.busy = q => socket'.busy = IF new \in Pendings THEN q ELSE None
  PROVE  TalkInv'
<1> USE DEF TalkInv
<1>1. new \in Requests
  BY DEF Requests
<1>2. Answered' = Answered
  <2>1. q \notin Answered'
    BY <1>1, Changed DEF Answered, At, Pendings, Ended
  <2>2. /\ \A r \in Answered : r \in Answered'
        /\ Answered' \subseteq Answered \cup {q}
    BY <1>1, Changed
  <2> QED BY <2>1, <2>2
<1>3. TalkTypes'
  BY <1>1, Changed DEF TalkTypes
<1>4. RecordsAreTrue'
  BY <1>1, <1>2, Changed DEF RecordsAreTrue
<1>5. AnswersAreKept'
  BY <1>1, <1>2, Changed DEF AnswersAreKept, Fresh
<1>6. SocketIsTrue'
  <2>1. /\ requests'[q] = new
        /\ \A p \in Pending : p # q => p \in Pending' /\ requests'[p] = requests[p]
        /\ Pending' \subseteq Pending
        /\ new \in Pendings => q \in Pending'
        /\ q \in Pending' => new \in Pendings
    BY <1>1, Changed DEF Pending
  <2>2. Unkept' = Unkept /\ None \notin Unkept /\ q \notin Unkept /\ None \notin Pending
    <3>1. \A r \in Answered : requests'[r] = requests[r]
      BY <1>1, Changed
    <3>2. None \notin Pending
      BY Kinds, ConversationsAssumption DEF Pending
    <3> QED BY <1>2, <3>1, <3>2, UnkeptType DEF Unkept
  <2>3. SocketIsTrue
    OBVIOUS
  <2> HIDE DEF TalkInv
  <2>4. CASE socket.busy # q
    BY <2>4, <1>2, <2>1, <2>2, <2>3 DEF SocketIsTrue
  <2>5. CASE socket.busy = q
    BY <2>5, <1>2, <2>1, <2>2, <2>3 DEF SocketIsTrue
  <2> QED BY <2>4, <2>5
<1>7. ThreadsHaveUsers'
  BY <1>1, Changed DEF ThreadsHaveUsers
<1>8. ASSUME NEW p \in Pending' PROVE Sound(p)'
  <2>1. CASE p = q
    BY <2>1, <1>8, <1>1, Changed, Kinds DEF Pending, Pendings, Ended
  <2>2. CASE p # q
    <3>1. p \in Pending /\ p \in DOMAIN requests' /\ requests'[p] = requests[p] /\ Sound(p)
      BY <2>2, <1>1, <1>8, Changed DEF Pending
    <3>2. requests[p].via = "socket" => socket' = socket
      BY <2>2, <3>1 DEF Sound, AskedWell
    <3>3. now' \in Nat /\ now <= now'
      BY DEF TalkTypes
    <3>4. \A r \in Answered : r \in Answered' /\ requests'[r] = requests[r]
      BY <1>1, Changed
    <3> HIDE DEF TalkInv
    <3> QED BY <3>1, <3>2, <3>3, <3>4, StaySound DEF TalkInv
  <2> QED BY <2>1, <2>2
<1> QED BY <1>3, <1>4, <1>5, <1>6, <1>7, <1>8 DEF TalkInv

-----------------------------------------------------------------------------
(* The actions.                                                            *)

LEMMA ExplicitType ==
  ASSUME NEW r, records[r] \in RecordType, r \in Nat, NEW input \in Transcripts
  PROVE  ResolveExplicit(r, input) \in Routes
  BY ConcatHasUser DEF ResolveExplicit, Routes, RecordType, Ids0

LEMMA ImplicitType ==
  ASSUME NEW r, records[r] \in RecordType, r \in Nat, NEW input \in Transcripts,
         Continues(input, records[r])
  PROVE  Implicit(r, input) \in Routes
<1> DEFINE history == records[r].history
<1>1. history \in Transcripts /\ Len(history) \in Nat /\ Len(input) \in Nat
  BY DEF RecordType, Transcripts
<1>2. Len(history) <= Len(input)
  BY DEF Continues, IsStrictPrefix, IsPrefix
<1>3. Suffix(input, records[r]) \in Transcripts
  BY <1>1, <1>2, SubSeqProperties DEF Suffix, Transcripts
<1> QED BY <1>3 DEF Implicit, Routes, RecordType, Ids0

LEMMA PlainType ==
  ASSUME NEW settings \in Settings, NEW input \in Transcripts
  PROVE  Plain(settings, input) \in Routes
  BY DEF Plain, Routes, Ids0, Keys

LEMMA ImplicitIsOfARecord ==
  ASSUME NEW settings, NEW input, NEW route \in ResolveImplicit(settings, input)
  PROVE  \/ route = Plain(settings, input)
         \/ \E r \in DOMAIN records :
              /\ ~Expired(records[r]) /\ Continues(input, records[r])
              /\ CanImplicitlyResume(records[r], settings, input)
              /\ route = Implicit(r, input)
  BY DEF ResolveImplicit, Resumable, Newest, ListByConversation, ListAll

LEMMA RecordIsFresh ==
  ASSUME TalkInv, NEW r \in DOMAIN records
  PROVE  r \in Answered /\ r \in Nat /\ (Expired(records[r]) <=> ~Fresh(r))
<1>1. r \in Answered /\ records[r] \in RecordType /\ records[r].expires = requests[r].until
  BY DEF TalkInv, RecordsAreTrue
<1>2. r \in Nat
  BY <1>1, Kinds DEF TalkInv, Answered, At
<1>3. requests[r].until \in Nat /\ now \in Nat
  BY <1>1 DEF RecordType, TalkInv, TalkTypes
<1> QED BY <1>1, <1>2, <1>3, ConversationsAssumption DEF Expired, Fresh

LEMMA GetStep ==
  ASSUME TalkInv, NEW q \in DOMAIN requests, Get(q)
  PROVE  TalkInv'
<1> DEFINE r == requests[q].named
<1>1. q \in Pending /\ requests[q] \in Pendings /\ TalkTypes /\ Sound(q) /\ q \in Nat
  BY Kinds DEF Get, TalkInv, Pending
<1>2. HasUser(requests[q].thread)
  BY <1>1, Kinds DEF TalkInv, ThreadsHaveUsers
<1>3. UNCHANGED <<now, records>>
  BY DEF Get
<1>4. CASE End(q, socket.stream)
  <2>1. Only(q, Ended) /\ Frees(q, socket.stream)
    BY <1>4 DEF End, Only
  <2>2. socket \in Sockets
    BY <1>1 DEF TalkTypes
  <2>3. /\ socket' \in Sockets /\ socket'.last = socket.last /\ socket'.heard = socket.heard
        /\ socket.busy # q => socket' = socket
        /\ socket.busy = q => socket'.busy = None
    BY <2>1, <2>2 DEF Frees, Sockets, Ids0
  <2>4. Ended \notin Pendings
    BY DEF Ended, Pendings
  <2> QED BY <1>1, <1>3, <2>1, <2>3, <2>4, Moved
<1>5. CASE /\ r \in DOMAIN records /\ Expired(records[r])
           /\ requests' = [requests EXCEPT ![q].at = "late"]
           /\ UNCHANGED socket
  <2> DEFINE new == [requests[q] EXCEPT !.at = "late"]
  <2>1. new \in Pendings /\ new.thread = requests[q].thread /\ new.via = requests[q].via
    BY <1>1 DEF Pendings
  <2>2. Only(q, new)
    BY <1>5 DEF Only
  <2>3. Sound(q)'
    <3>1. /\ requests'[q] = new
          /\ \A p \in Answered : p \in Answered' /\ requests'[p] = requests[p]
      BY <1>1, <2>1, <2>2, Changed DEF Requests
    <3>2. requests[r].due = {}
      BY <1>5 DEF TalkInv, RecordsAreTrue
    <3>3. AskedWell(q)'
      BY <1>1, <1>3, <1>5, <3>1, <3>2, RecordIsFresh
         DEF Get, Sound, AskedWell, Fresh, Pendings
    <3>4. RoutedWell(q)' /\ SentWell(q)'
      BY <1>1, <3>1 DEF RoutedWell, SentWell, Pendings
    <3> QED BY <3>3, <3>4 DEF Sound
  <2> QED BY <1>1, <1>2, <1>3, <1>5, <2>1, <2>2, <2>3, Moved DEF TalkTypes
<1>6. CASE /\ r \in DOMAIN records /\ ~Expired(records[r])
           /\ Opens(q, ResolveExplicit(r, requests[q].sent))
           /\ UNCHANGED socket
  <2> DEFINE route == ResolveExplicit(r, requests[q].sent)
             new == [requests[q] EXCEPT !.at = "open", !.route = route]
  <2>1. /\ r \in Nat /\ r \in Answered /\ records[r] \in RecordType
        /\ records[r].account = requests[r].account
    BY <1>6, RecordIsFresh DEF TalkInv, RecordsAreTrue
  <2>2. route \in Routes
    BY <1>1, <2>1, ExplicitType DEF Pendings
  <2> HIDE DEF route
  <2>3. new \in Pendings /\ new.thread = requests[q].thread /\ new.via = requests[q].via
    BY <1>1, <2>2 DEF Pendings
  <2>4. Only(q, new)
    BY <1>1, <1>6 DEF Only, Opens, Pendings, route
  <2>5. Sound(q)'
    <3>1. /\ requests'[q] = new
          /\ \A p \in Answered : p \in Answered' /\ requests'[p] = requests[p]
      BY <1>1, <2>3, <2>4, Changed DEF Requests
    <3>2. AskedWell(q)'
      BY <1>1, <1>3, <1>6, <3>1 DEF Sound, AskedWell, Pendings
    <3>3. RoutedWell(q)'
      BY <1>1, <2>1, <2>2, <3>1 DEF RoutedWell, Pendings, ResolveExplicit, route, Sound, AskedWell
    <3>4. SentWell(q)'
      BY <1>1, <3>1 DEF SentWell, Pendings
    <3> QED BY <3>2, <3>3, <3>4 DEF Sound
  <2> QED BY <1>1, <1>2, <1>3, <1>6, <2>3, <2>4, <2>5, Moved DEF TalkTypes
<1> QED BY <1>4, <1>5, <1>6 DEF Get

LEMMA GetDeletesStep ==
  ASSUME TalkInv, NEW q \in DOMAIN requests, GetDeletes(q)
  PROVE  TalkInv'
<1>1. q \in Pending /\ TalkTypes /\ Sound(q) /\ q \in Nat
  BY Kinds DEF GetDeletes, TalkInv, Pending
<1>2. /\ UNCHANGED now
      /\ records' = [k \in DOMAIN records \ {requests[q].named} |-> records[k]]
      /\ End(q, socket.stream)
  BY DEF GetDeletes, Drop
<1>3. ~Fresh(requests[q].named)
  BY <1>1 DEF GetDeletes, Sound, AskedWell
<1>4. Ended \notin Pendings
  BY DEF Ended, Pendings
<1>5. /\ \A r \in DOMAIN records' : r \in DOMAIN records /\ records'[r] = records[r]
      /\ \A r \in DOMAIN records : r \in DOMAIN records' \/ ~Fresh(r)
  BY <1>2, <1>3
<1>6. /\ socket' \in Sockets /\ socket'.last = socket.last /\ socket'.heard = socket.heard
      /\ IF socket.busy = q THEN socket'.busy = None ELSE socket' = socket
  BY <1>1, <1>2 DEF End, Frees, TalkTypes, Sockets, Ids0
<1>7. Only(q, Ended)
  BY <1>2 DEF End, Only
<1> QED BY <1>1, <1>2, <1>4, <1>5, <1>6, <1>7, Moved

LEMMA DropExpiredKeeps ==
  ASSUME TalkInv, DropExpired
  PROVE  /\ \A r \in DOMAIN records' : r \in DOMAIN records /\ records'[r] = records[r]
         /\ \A r \in DOMAIN records : r \in DOMAIN records' \/ ~Fresh(r)
  BY RecordIsFresh DEF DropExpired, Drop

LEMMA EndStep ==
  ASSUME TalkInv, NEW q \in Pending, NEW stream \in {None, socket.stream},
         End(q, stream), UNCHANGED <<now, records>>
  PROVE  TalkInv'
<1>1. Ended \notin Pendings
  BY DEF Ended, Pendings
<1>2. /\ socket' \in Sockets /\ socket'.last = socket.last /\ socket'.heard = socket.heard
      /\ IF socket.busy = q THEN socket'.busy = None ELSE socket' = socket
  BY DEF TalkInv, End, Frees, TalkTypes, Sockets, Ids0
<1>3. Only(q, Ended)
  BY DEF End, Only
<1> QED BY <1>1, <1>2, <1>3, Moved

LEMMA ResolveStep ==
  ASSUME TalkInv, NEW q \in DOMAIN requests, Resolve(q)
  PROVE  TalkInv'
<1>1. q \in Pending /\ requests[q] \in Pendings /\ TalkTypes /\ Sound(q) /\ q \in Nat
      /\ requests[q].named = None
  BY Kinds DEF Resolve, TalkInv, Pending
<1>2. HasUser(requests[q].thread)
  BY <1>1, Kinds DEF TalkInv, ThreadsHaveUsers
<1>3. UNCHANGED <<now, socket>>
  BY DEF Resolve
<1>4. PICK route : /\ Opens(q, route)
                   /\ \/ route = Plain(requests[q].settings, requests[q].sent)
                      \/ \E r \in DOMAIN records :
                           /\ Continues(requests[q].sent, records[r])
                           /\ route = Implicit(r, requests[q].sent)
  BY ImplicitIsOfARecord DEF Resolve
<1>5. /\ \A r \in DOMAIN records' : r \in DOMAIN records /\ records'[r] = records[r]
      /\ \A r \in DOMAIN records : r \in DOMAIN records' \/ ~Fresh(r)
  BY DropExpiredKeeps DEF Resolve
<1>6. /\ route \in Routes
      /\ route.how \in {"explicit", "implicit"} =>
           route.prev \in Answered /\ requests[route.prev].account = route.preferred
  <2>1. CASE route = Plain(requests[q].settings, requests[q].sent)
    BY <1>1, <2>1, PlainType DEF Pendings, Plain
  <2>2. CASE \E r \in DOMAIN records :
                /\ Continues(requests[q].sent, records[r])
                /\ route = Implicit(r, requests[q].sent)
    <3>1. PICK r \in DOMAIN records : /\ Continues(requests[q].sent, records[r])
                                      /\ route = Implicit(r, requests[q].sent)
      BY <2>2
    <3>2. /\ r \in Nat /\ r \in Answered /\ records[r] \in RecordType
          /\ records[r].account = requests[r].account
      BY <3>1, RecordIsFresh DEF TalkInv, RecordsAreTrue
    <3> QED BY <1>1, <3>1, <3>2, ImplicitType DEF Pendings, Implicit
  <2> QED BY <1>4, <2>1, <2>2
<1> DEFINE new == [requests[q] EXCEPT !.at = "open", !.route = route]
<1>7. new \in Pendings /\ new.thread = requests[q].thread /\ new.via = requests[q].via
  BY <1>1, <1>6 DEF Pendings
<1>8. Only(q, new)
  BY <1>1, <1>4 DEF Only, Opens, Pendings
<1>9. Sound(q)'
  <2>1. /\ requests'[q] = new
        /\ \A p \in Answered : p \in Answered' /\ requests'[p] = requests[p]
    BY <1>1, <1>7, <1>8, Changed DEF Requests
  <2>2. AskedWell(q)'
    BY <1>1, <1>3, <2>1 DEF Sound, AskedWell, Pendings
  <2>3. new.follows = None
    <3>1. requests[q].follows # None => requests[q].named = requests[q].follows
      BY <1>1 DEF Sound, AskedWell
    <3> QED BY <1>1, <3>1 DEF Pendings
  <2>4. RoutedWell(q)'
    BY <1>1, <1>6, <2>1, <2>3 DEF RoutedWell, Pendings
  <2>5. SentWell(q)'
    BY <1>1, <2>1 DEF SentWell, Pendings
  <2> QED BY <2>2, <2>4, <2>5 DEF Sound
<1> QED BY <1>1, <1>2, <1>3, <1>5, <1>7, <1>8, <1>9, Moved DEF TalkTypes

\* Only how a request is answered changes.
Advance(q, new) ==
    LET old == requests[q]
    IN  /\ Only(q, new)
        /\ new \in Pendings /\ new.at \in {"open", "answering"}
        /\ new.via = old.via /\ new.named = old.named /\ new.follows = old.follows
        /\ new.sent = old.sent /\ new.thread = old.thread

LEMMA AdvanceStep ==
  ASSUME TalkInv, NEW q \in Pending, NEW new, Advance(q, new),
         UNCHANGED <<now, records>>,
         socket' \in Sockets, socket'.last = socket.last, socket'.heard = socket.heard,
         socket'.busy = socket.busy, socket.busy # q => socket' = socket,
         RoutedWell(q)', SentWell(q)'
  PROVE  TalkInv'
<1>1. Only(q, new) /\ new \in Pendings
  BY DEF Advance
<1>2. /\ requests'[q] = new
      /\ \A p \in Answered : p \in Answered' /\ requests'[p] = requests[p]
  BY <1>1, Changed DEF Requests, TalkInv
<1>3. AskedWell(q)'
  <2>1. AskedWell(q)
    BY DEF TalkInv, Sound
  <2> QED BY <1>2, <2>1 DEF AskedWell, Advance
<1>4. HasUser(new.thread)
  <2>1. HasUser(requests[q].thread)
    BY Kinds DEF TalkInv, ThreadsHaveUsers, Pending
  <2> QED BY <2>1 DEF Advance
<1>5. new.via = requests[q].via
  BY DEF Advance
<1> QED BY <1>1, <1>3, <1>4, <1>5, Moved DEF Sound

LEMMA SentStep ==
  ASSUME TalkInv, NEW q \in Pending, requests[q].at = "open",
         NEW a \in Accounts, NEW given \in Transcripts, Sent(q, a, a, given),
         UNCHANGED <<now, records>>,
         socket' \in Sockets, socket'.last = socket.last, socket'.heard = socket.heard,
         socket'.busy = socket.busy, socket.busy # q => socket' = socket,
         requests[q].via = "socket" => socket'.stream = a,
         Route(q).how = "implicit" \/ (requests[q].via = "socket" /\ Pinned(q))
           => a = Route(q).preferred,
         requests[q].follows # None =>
           given = Context(requests[q].follows) \o requests[q].sent
  PROVE  TalkInv'
<1> DEFINE new == [requests[q] EXCEPT !.at = "answering", !.account = a,
                                      !.over = a, !.given = given]
<1>1. requests[q] \in Pendings /\ Sound(q) /\ TalkTypes
  BY DEF TalkInv, Pending
<1>2. Advance(q, new)
  <2>1. Only(q, new)
    BY <1>1 DEF Sent, Only, Pendings
  <2> QED BY <1>1, <2>1 DEF Advance, Pendings
<1>3. requests'[q] = new /\ \A p \in Answered : p \in Answered' /\ requests'[p] = requests[p]
  BY <1>1, <1>2, Changed DEF Advance, Requests
<1>4. new.route = Route(q) /\ new.follows = requests[q].follows /\ new.sent = requests[q].sent
      /\ new.via = requests[q].via /\ new.at = "answering"
      /\ new.account = a /\ new.over = a /\ new.given = given
  BY <1>1 DEF Pendings, Route
<1> HIDE DEF new
<1>5. RoutedWell(q)'
  BY <1>1, <1>3, <1>4 DEF Sound, RoutedWell, Route
<1>6. SentWell(q)'
  <2>1. requests[q].follows # None => requests[q].follows \in Answered
    BY <1>1 DEF Sound, AskedWell
  <2> QED BY <1>3, <1>4, <2>1 DEF SentWell, Route, Pinned, Context
<1> QED BY <1>2, <1>5, <1>6, AdvanceStep

LEMMA RouteTypes ==
  ASSUME TalkInv, NEW q \in DOMAIN requests, requests[q].at = "open"
  PROVE  /\ q \in Pending /\ requests[q] \in Pendings /\ Sound(q) /\ TalkTypes
         /\ Route(q) \in Routes
         /\ Route(q).how \in {"explicit", "implicit"} =>
              /\ Route(q).prev \in Answered
              /\ requests[Route(q).prev] \in Answers
              /\ Route(q).preferred \in Accounts
              /\ Context(Route(q).prev) \in Transcripts
<1>1. q \in Pending /\ requests[q] \in Pendings /\ Sound(q) /\ TalkTypes
  BY Kinds DEF TalkInv, Pending
<1>2. /\ Route(q) \in Routes
      /\ Route(q).how \in {"explicit", "implicit"} =>
           /\ Route(q).prev \in Answered
           /\ requests[Route(q).prev].account = Route(q).preferred
  BY <1>1 DEF Sound, RoutedWell, Route
<1>3. ASSUME NEW p \in Answered
      PROVE  requests[p] \in Answers /\ Context(p) \in Transcripts
  <2>1. requests[p] \in Answers
    BY <1>1, Kinds DEF Answered, At
  <2> QED BY <2>1, ConcatType DEF Answers, Context
<1>4. \A p \in Answered : requests[p].account \in Accounts
  BY <1>3 DEF Answers
<1> QED BY <1>1, <1>2, <1>3, <1>4

LEMMA OpenHttpStep ==
  ASSUME TalkInv, NEW q \in DOMAIN requests, OpenHttp(q)
  PROVE  TalkInv'
<1>1. PICK a \in Accounts : Sent(q, a, a, Route(q).full)
  BY DEF OpenHttp
<1>2. requests[q].at = "open" /\ requests[q].via # "socket" /\ Route(q).how # "implicit"
      /\ UNCHANGED <<now, records, socket>>
  BY DEF OpenHttp
<1>3. q \in Pending /\ Sound(q) /\ TalkTypes /\ Route(q).full \in Transcripts
  BY <1>2, RouteTypes DEF Routes
<1>4. requests[q].follows = None
  BY <1>2, <1>3 DEF Sound, AskedWell
<1> QED BY <1>1, <1>2, <1>3, <1>4, SentStep DEF TalkTypes

LEMMA OpenWsStep ==
  ASSUME TalkInv, NEW q \in DOMAIN requests, OpenWs(q)
  PROVE  TalkInv'
<1> DEFINE a == Route(q).preferred
           given == Context(Route(q).prev) \o Route(q).input
<1>1. /\ requests[q].at = "open" /\ requests[q].via = "http" /\ Route(q).how = "implicit"
      /\ UNCHANGED <<now, records, socket>>
      /\ Sent(q, a, a, given)
  BY DEF OpenWs
<1>2. q \in Pending /\ Sound(q) /\ TalkTypes /\ a \in Accounts /\ given \in Transcripts
  BY <1>1, RouteTypes, ConcatType DEF Routes
<1>3. requests[q].follows = None
  BY <1>1, <1>2 DEF Sound, AskedWell
<1> QED BY <1>1, <1>2, <1>3, SentStep DEF TalkTypes

LEMMA SendStep ==
  ASSUME TalkInv, NEW q \in DOMAIN requests, Send(q)
  PROVE  TalkInv'
<1>1. PICK a \in (IF Pinned(q) THEN {Route(q).preferred} ELSE Accounts) :
        LET over == IF socket.stream # a THEN a ELSE socket.stream
        IN  /\ Sent(q, a, over, SocketContext(q))
            /\ socket' = [socket EXCEPT !.stream = over]
  BY DEF Send
<1>2. /\ requests[q].at = "open" /\ requests[q].via = "socket"
      /\ UNCHANGED <<now, records>>
      /\ Sent(q, a, a, SocketContext(q)) /\ socket' = [socket EXCEPT !.stream = a]
  BY <1>1 DEF Send
<1>3. q \in Pending /\ Sound(q) /\ TalkTypes /\ a \in Accounts
  BY <1>1, <1>2, RouteTypes DEF Pinned
<1>4. SocketContext(q) \in Transcripts
  <2>1. <<>> \in Transcripts
    BY DEF Transcripts
  <2>2. (IF Pinned(q) THEN Context(Route(q).prev) ELSE <<>>) \in Transcripts
    BY <2>1, <1>2, RouteTypes DEF Pinned
  <2> QED BY <2>2, <1>2, RouteTypes, ConcatType DEF SocketContext, Routes
<1>5. socket' \in Sockets /\ socket'.last = socket.last /\ socket'.heard = socket.heard
      /\ socket'.busy = socket.busy /\ socket'.stream = a
  BY <1>2, <1>3 DEF TalkTypes, Sockets
<1>6. socket.busy = q
  BY <1>2, <1>3 DEF Sound, AskedWell
<1>7. requests[q].follows # None =>
        SocketContext(q) = Context(requests[q].follows) \o requests[q].sent
  BY <1>2, <1>3 DEF Sound, RoutedWell, SocketContext, Pinned, Route
<1>8. Pinned(q) => a = Route(q).preferred
  BY <1>1
<1>9. Route(q).how = "implicit" => Pinned(q)
  BY DEF Pinned
<1> QED BY <1>2, <1>3, <1>4, <1>5, <1>6, <1>7, <1>8, <1>9, SentStep

LEMMA FallBackStep ==
  ASSUME TalkInv, NEW q \in DOMAIN requests, FallBack(q)
  PROVE  TalkInv'
<1> DEFINE route == [Route(q) EXCEPT !.how = "fallback"]
           new == [requests[q] EXCEPT !.route = route]
<1>1. /\ requests[q].at = "open" /\ requests[q].via = "http"
      /\ UNCHANGED <<now, records, socket>>
  BY DEF FallBack
<1>2. /\ q \in Pending /\ requests[q] \in Pendings /\ Sound(q) /\ TalkTypes
      /\ Route(q) \in Routes
  BY <1>1, RouteTypes
<1>3. route \in Routes /\ route.how = "fallback"
  BY <1>2 DEF Routes
<1> HIDE DEF route
<1>4. Advance(q, new)
  <2>1. Only(q, new)
    BY <1>2 DEF FallBack, Only, Pendings, Route, route
  <2> QED BY <1>1, <1>2, <1>3, <2>1 DEF Advance, Pendings
<1>5. requests'[q] = new
  BY <1>2, <1>4, Changed DEF Advance, Requests
<1>6. requests[q].follows = None
  BY <1>1, <1>2 DEF Sound, AskedWell
<1>7. RoutedWell(q)' /\ SentWell(q)'
  BY <1>1, <1>2, <1>3, <1>5, <1>6 DEF RoutedWell, SentWell, Pendings
<1> QED BY <1>1, <1>2, <1>4, <1>7, AdvanceStep DEF TalkTypes

LEMMA StripStep ==
  ASSUME TalkInv, NEW q \in DOMAIN requests, Strip(q)
  PROVE  TalkInv'
<1> DEFINE full == Stripped(Route(q).full)
           route == [Route(q) EXCEPT !.how = "plain", !.prev = None,
                                     !.input = full, !.full = full]
           new == [requests[q] EXCEPT !.stripped = TRUE, !.route = route]
<1>1. /\ requests[q].at = "open" /\ requests[q].via = "http"
      /\ UNCHANGED <<now, records, socket>>
  BY DEF Strip
<1>2. /\ q \in Pending /\ requests[q] \in Pendings /\ Sound(q) /\ TalkTypes
      /\ Route(q) \in Routes
  BY <1>1, RouteTypes
<1>3. full \in Transcripts
  BY <1>2, StrippedType DEF Routes
<1> HIDE DEF full
<1>4. route \in Routes /\ route.how = "plain"
  BY <1>2, <1>3 DEF Routes, Ids0
<1> HIDE DEF route
<1>5. Advance(q, new)
  <2>1. Only(q, new)
    BY <1>2 DEF Strip, Only, Pendings, Route, route, full
  <2> QED BY <1>1, <1>2, <1>4, <2>1 DEF Advance, Pendings
<1>6. requests'[q] = new
  BY <1>2, <1>5, Changed DEF Advance, Requests
<1>7. requests[q].follows = None
  BY <1>1, <1>2 DEF Sound, AskedWell
<1>8. RoutedWell(q)' /\ SentWell(q)'
  BY <1>1, <1>2, <1>4, <1>6, <1>7 DEF RoutedWell, SentWell, Pendings
<1> QED BY <1>1, <1>2, <1>5, <1>8, AdvanceStep DEF TalkTypes

LEMMA FailStep ==
  ASSUME TalkInv, NEW q \in DOMAIN requests, OpenFails(q) \/ SendFails(q) \/ Breaks(q)
  PROVE  TalkInv'
<1>1. q \in Pending
  BY Kinds DEF TalkInv, OpenFails, SendFails, Breaks
<1>2. UNCHANGED <<now, records>> /\ \E stream \in {None, socket.stream} : End(q, stream)
  BY DEF OpenFails, SendFails, Breaks
<1> QED BY <1>1, <1>2, EndStep

\* The answer to a request, and the record of it.
LEMMA FinishedTypes ==
  ASSUME TalkInv, NEW q \in Pending, requests[q].at = "answering",
         NEW output \in Outputs(q)
  PROVE  /\ output \in Transcripts /\ Route(q) \in Routes
         /\ requests[q].account \in Accounts /\ requests[q].settings \in Settings
         /\ AnswerOf(q, output, {}, now + Ttl) \in Answers
         /\ AnswerOf(q, output, {Route(q)}, None) \in Answers
<1>1. /\ requests[q] \in Pendings /\ Sound(q) /\ TalkTypes /\ q \in Nat
      /\ Route(q) \in Routes /\ requests[q].account \in Accounts
  <2>1. requests[q] \in Pendings /\ Sound(q) /\ TalkTypes /\ q \in Nat
    BY Kinds DEF TalkInv, Pending
  <2> QED BY <2>1 DEF Sound, RoutedWell, SentWell, Route
<1>2. output \in Transcripts
  <2>1. /\ Item("assistant", q) \in ItemType /\ Item("reasoning", q) \in ItemType
        /\ Item("call", q) \in ItemType
    BY <1>1 DEF Item, ItemType
  <2>2. \A a, b, c \in ItemType : <<a>> \in Seq(ItemType) /\ <<b, c>> \in Seq(ItemType)
    OBVIOUS
  <2> QED BY <2>1, <2>2 DEF Outputs, Transcripts
<1>3. /\ requests[q].thread \o output \in Transcripts
      /\ requests[q].whole \o output \in Transcripts
      /\ now + Ttl \in Ids0 /\ None \in Ids0
      /\ requests[q].settings \in Settings /\ requests[q].given \in Transcripts
  BY <1>1, <1>2, ConcatType, ContinuationsAssumption DEF Pendings, Ids0, TalkTypes
<1>4. ASSUME NEW due \in SUBSET Routes, NEW until \in Ids0
      PROVE  AnswerOf(q, output, due, until) \in Answers
  BY <1>1, <1>2, <1>3 DEF Answers, AnswerOf
<1>5. {} \in SUBSET Routes /\ {Route(q)} \in SUBSET Routes
  BY <1>1
<1> QED BY <1>1, <1>2, <1>3, <1>4, <1>5

LEMMA RememberedType ==
  ASSUME NEW account \in Accounts, NEW settings \in Settings, NEW route \in Routes,
         NEW output \in Transcripts
  PROVE  /\ Remembered(account, settings, route, output) \in RecordType
         /\ Remembered(account, settings, route, output).account = account
<1>1. \A i \in ToSet(output) : i.of \in Ids0
  <2>1. \A i \in ToSet(output) : i \in ItemType
    BY DEF ToSet, Transcripts
  <2> QED BY <2>1 DEF ItemType, Ids0
<1>2. route.input \o output \in Transcripts /\ route.key \in Keys
  BY ConcatType DEF Routes
<1>3. {item.of : item \in {i \in ToSet(output) : i.kind = "call"}} \in SUBSET Ids0
  BY <1>1
<1> QED BY <1>2, <1>3 DEF Remembered, RecordType

\* What rememberContinuation puts beside the other records.
LEMMA Kept0 ==
  ASSUME TalkInv, NEW q \in DOMAIN requests, NEW route \in Routes,
         NEW output \in Transcripts,
         requests[q].account \in Accounts, requests[q].settings \in Settings,
         Keeps(q, route, output)
  PROVE  /\ now + Ttl \in Nat
         /\ DOMAIN records' = DOMAIN records \cup {q}
         /\ \A r \in DOMAIN records : r # q => records'[r] = records[r]
         /\ records'[q] \in RecordType
         /\ records'[q].account = requests[q].account
         /\ records'[q].expires = now + Ttl
<1> DEFINE record == Remembered(requests[q].account, requests[q].settings, route, output)
           c == Cardinality(Answered \ Unkept)
           e == now + Ttl
<1>1. record \in RecordType /\ record.account = requests[q].account
  BY RememberedType
<1>2. c \in Nat
  <2>1. IsFiniteSet(DOMAIN requests)
    BY Kinds, FS_Interval DEF TalkInv
  <2>2. IsFiniteSet(Answered \ Unkept)
    BY <2>1, FS_Subset DEF Answered, At
  <2> QED BY <2>2, FS_CardinalityType
<1>3. e \in Nat
  BY ContinuationsAssumption DEF TalkInv, TalkTypes
<1>4. /\ DOMAIN records' = DOMAIN records \cup {q}
      /\ \A r \in DOMAIN records : r # q => records'[r] = records[r]
      /\ records'[q] = [record EXCEPT !.created = c, !.expires = e]
  BY DEF Keeps, Put
<1> HIDE DEF record, c, e
<1>5. records'[q] \in RecordType /\ records'[q].account = record.account
      /\ records'[q].expires = e
  <2>1. [record EXCEPT !.created = c, !.expires = e] \in RecordType
    BY <1>1, <1>2, <1>3 DEF RecordType
  <2>2. /\ [record EXCEPT !.created = c, !.expires = e].account = record.account
        /\ [record EXCEPT !.created = c, !.expires = e].expires = e
    BY <1>1 DEF RecordType
  <2> QED BY <1>4, <2>1, <2>2
<1> QED BY <1>1, <1>3, <1>4, <1>5 DEF e

\* A request is answered; its client may know of it before its record is put.
LEMMA AnsweredStep ==
  ASSUME TalkInv, NEW q \in Pending, requests[q].at = "answering",
         NEW output \in Transcripts, NEW due \in SUBSET Routes, NEW until \in Ids0,
         AnswerOf(q, output, due, until) \in Answers,
         Only(q, AnswerOf(q, output, due, until)),
         UNCHANGED now
  PROVE  /\ DOMAIN requests' = DOMAIN requests /\ requests' \in Seq(Requests)
         /\ q \in Answered' /\ q \notin Pending' /\ q \notin Answered
         /\ requests'[q].due = due /\ requests'[q].until = until
         /\ requests'[q].account = requests[q].account
         /\ \A p \in DOMAIN requests : p # q => requests'[p] = requests[p]
         /\ Answered' = Answered \cup {q}
         /\ due = {} => Unkept' = Unkept
         /\ due # {} => Unkept' = Unkept \cup {q}
         /\ \A p \in Pending : p # q => p \in Pending'
         /\ Pending' \subseteq Pending
         /\ ThreadsHaveUsers'
         /\ (\A p \in Pending : p # q /\ requests[p].via = "socket" => UNCHANGED socket)
              => \A p \in Pending' : Sound(p)'
<1> DEFINE new == AnswerOf(q, output, due, until)
<1>1. TalkTypes /\ q \in Nat /\ requests[q] \in Pendings
  BY Kinds DEF TalkInv, Pending
<1>2. /\ new.at = "answered" /\ new.due = due /\ new.until = until
      /\ new.account = requests[q].account /\ new.thread = requests[q].thread \o output
  BY DEF AnswerOf
<1>3. Only(q, new) /\ new \in Requests /\ new \notin Pendings
  BY <1>2 DEF Only, Requests, Pendings
<1> HIDE DEF new
<1>4. /\ DOMAIN requests' = DOMAIN requests /\ requests' \in Seq(Requests)
      /\ requests'[q] = new
      /\ \A p \in DOMAIN requests : p # q => requests'[p] = requests[p]
      /\ \A r \in Answered : r # q /\ r \in Answered' /\ requests'[r] = requests[r]
      /\ Pending' \subseteq Pending
      /\ Answered' \subseteq Answered \cup {q}
  BY <1>1, <1>3, Changed
<1>5. q \in Answered' /\ q \notin Pending'
  BY <1>2, <1>3, <1>4 DEF Answered, At, Pending
<1>6. /\ due = {} => Unkept' = Unkept
      /\ due # {} => Unkept' = Unkept \cup {q}
  BY <1>2, <1>4, <1>5 DEF Unkept
<1>7. ThreadsHaveUsers'
  <2>1. HasUser(requests[q].thread) /\ requests[q].thread \in Transcripts
    BY <1>1, Kinds DEF TalkInv, ThreadsHaveUsers, Pendings, Pending
  <2>2. HasUser(new.thread)
    BY <2>1, <1>2, ConcatHasUser
  <2> QED BY <2>2, <1>4 DEF TalkInv, ThreadsHaveUsers
<1>8. ASSUME NEW p \in Pending',
             \A o \in Pending : o # q /\ requests[o].via = "socket" => UNCHANGED socket
      PROVE  Sound(p)'
  <2>1. p # q /\ p \in Pending /\ p \in DOMAIN requests' /\ requests'[p] = requests[p]
    BY <1>4, <1>5, <1>8 DEF Pending
  <2>2. Sound(p)
    BY <2>1 DEF TalkInv
  <2>3. requests[p].via = "socket" => socket' = socket
    BY <1>8, <2>1
  <2>4. now' \in Nat /\ now <= now'
    BY <1>1 DEF TalkTypes
  <2> QED BY <1>1, <1>4, <2>1, <2>2, <2>3, <2>4, StaySound
<1>9. \A p \in Pending : p # q => p \in Pending'
  BY <1>4 DEF Pending
<1> QED BY <1>2, <1>4, <1>5, <1>6, <1>7, <1>8, <1>9

LEMMA FinishStep ==
  ASSUME TalkInv, NEW q \in DOMAIN requests, Finish(q)
  PROVE  TalkInv'
<1>1. /\ requests[q].at = "answering" /\ requests[q].via # "socket" /\ q \in Pending
      /\ UNCHANGED now /\ TalkTypes /\ SocketIsTrue
  BY Kinds DEF Finish, TalkInv
<1>2. CASE requests[q].via = "compact"
  BY <1>1, <1>2, EndStep DEF Finish
<1>3. CASE requests[q].via # "compact"
  <2>1. PICK output \in Outputs(q) :
          /\ requests' = [requests EXCEPT ![q] = AnswerOf(q, output, {}, now + Ttl)]
          /\ Keeps(q, Route(q), output)
          /\ UNCHANGED socket
    BY <1>3 DEF Finish
  <2>2. /\ output \in Transcripts /\ Route(q) \in Routes
        /\ requests[q].account \in Accounts /\ requests[q].settings \in Settings
        /\ AnswerOf(q, output, {}, now + Ttl) \in Answers
    BY <1>1, FinishedTypes
  <2>3. /\ now + Ttl \in Nat
        /\ DOMAIN records' = DOMAIN records \cup {q}
        /\ \A r \in DOMAIN records : r # q => records'[r] = records[r]
        /\ records'[q] \in RecordType
        /\ records'[q].account = requests[q].account
        /\ records'[q].expires = now + Ttl
    BY <2>1, <2>2, Kept0
  <2>4. now + Ttl \in Ids0 /\ {} \in SUBSET Routes
    BY <2>3 DEF Ids0
  <2>5. /\ DOMAIN requests' = DOMAIN requests /\ requests' \in Seq(Requests)
        /\ q \in Answered' /\ q \notin Pending' /\ q \notin Answered
        /\ requests'[q].due = {} /\ requests'[q].until = now + Ttl
        /\ requests'[q].account = requests[q].account
        /\ \A p \in DOMAIN requests : p # q => requests'[p] = requests[p]
        /\ Answered' = Answered \cup {q}
        /\ Unkept' = Unkept
        /\ \A p \in Pending : p # q => p \in Pending'
        /\ Pending' \subseteq Pending
        /\ ThreadsHaveUsers'
        /\ \A p \in Pending' : Sound(p)'
    <3> DEFINE due == {}
               until == now + Ttl
    <3>1. /\ due \in SUBSET Routes /\ until \in Ids0
          /\ AnswerOf(q, output, due, until) \in Answers
          /\ Only(q, AnswerOf(q, output, due, until))
          /\ \A p \in Pending : p # q /\ requests[p].via = "socket" => UNCHANGED socket
      BY <2>1, <2>2, <2>4 DEF Only
    <3>2. due = {}
      OBVIOUS
    <3> HIDE DEF due, until
    <3>3. /\ DOMAIN requests' = DOMAIN requests /\ requests' \in Seq(Requests)
          /\ q \in Answered' /\ q \notin Pending' /\ q \notin Answered
          /\ requests'[q].due = due /\ requests'[q].until = until
          /\ requests'[q].account = requests[q].account
          /\ \A p \in DOMAIN requests : p # q => requests'[p] = requests[p]
          /\ Answered' = Answered \cup {q}
          /\ Unkept' = Unkept
          /\ \A p \in Pending : p # q => p \in Pending'
          /\ Pending' \subseteq Pending
          /\ ThreadsHaveUsers'
          /\ \A p \in Pending' : Sound(p)'
      BY <1>1, <2>2, <3>1, <3>2, AnsweredStep
    <3> QED BY <3>3 DEF due, until
  <2>6. TalkTypes'
    BY <1>1, <2>1, <2>5 DEF TalkTypes
  <2>7. RecordsAreTrue'
    BY <2>3, <2>5 DEF TalkInv, RecordsAreTrue, Answered, At
  <2>8. AnswersAreKept'
    BY <1>1, <2>3, <2>5 DEF TalkInv, AnswersAreKept, Fresh, Answered, At
  <2>9. SocketIsTrue'
    <3>1. socket.busy # q
      BY <1>1 DEF SocketIsTrue
    <3>2. socket.busy \in Pending => requests'[socket.busy] = requests[socket.busy]
      BY <3>1, <2>5 DEF Pending
    <3> QED BY <1>1, <2>1, <2>5, <3>1, <3>2 DEF SocketIsTrue
  <2> QED BY <2>5, <2>6, <2>7, <2>8, <2>9 DEF TalkInv
<1> QED BY <1>2, <1>3

LEMMA FinishStreamStep ==
  ASSUME TalkInv, NEW q \in DOMAIN requests, FinishStream(q)
  PROVE  TalkInv'
<1>1. /\ requests[q].at = "answering" /\ q \in Pending
      /\ UNCHANGED <<now, records>> /\ TalkTypes /\ SocketIsTrue /\ q \in Nat
  BY Kinds DEF FinishStream, TalkInv
<1>2. PICK output \in Outputs(q) :
        requests' = [requests EXCEPT ![q] = AnswerOf(q, output, {Route(q)}, None)]
  BY DEF FinishStream
<1>3. socket' = IF socket.busy = q THEN [socket EXCEPT !.heard = q] ELSE socket
  BY DEF FinishStream
<1>4. /\ output \in Transcripts /\ {Route(q)} \in SUBSET Routes
      /\ AnswerOf(q, output, {Route(q)}, None) \in Answers
  BY <1>1, FinishedTypes
<1>5. \A p \in Pending : p # q /\ requests[p].via = "socket" => UNCHANGED socket
  BY <1>3 DEF TalkInv, Sound, AskedWell
<1>6. /\ DOMAIN requests' = DOMAIN requests /\ requests' \in Seq(Requests)
      /\ q \in Answered' /\ q \notin Pending' /\ q \notin Answered
      /\ requests'[q].due = {Route(q)} /\ requests'[q].until = None
      /\ \A p \in DOMAIN requests : p # q => requests'[p] = requests[p]
      /\ Answered' = Answered \cup {q}
      /\ Unkept' = Unkept \cup {q}
      /\ \A p \in Pending : p # q => p \in Pending'
      /\ Pending' \subseteq Pending
      /\ ThreadsHaveUsers'
      /\ \A p \in Pending' : Sound(p)'
  <2> DEFINE due == {Route(q)}
             until == None
  <2>1. /\ due \in SUBSET Routes /\ until \in Ids0
        /\ AnswerOf(q, output, due, until) \in Answers
        /\ Only(q, AnswerOf(q, output, due, until))
    BY <1>2, <1>4 DEF Ids0, Only
  <2>2. due # {}
    OBVIOUS
  <2> HIDE DEF due, until
  <2>3. /\ DOMAIN requests' = DOMAIN requests /\ requests' \in Seq(Requests)
        /\ q \in Answered' /\ q \notin Pending' /\ q \notin Answered
        /\ requests'[q].due = due /\ requests'[q].until = until
        /\ \A p \in DOMAIN requests : p # q => requests'[p] = requests[p]
        /\ Answered' = Answered \cup {q}
        /\ Unkept' = Unkept \cup {q}
        /\ \A p \in Pending : p # q => p \in Pending'
        /\ Pending' \subseteq Pending
        /\ ThreadsHaveUsers'
        /\ \A p \in Pending' : Sound(p)'
    BY <1>1, <1>4, <1>5, <2>1, <2>2, AnsweredStep
  <2> QED BY <2>3 DEF due, until
<1>7. TalkTypes'
  <2>1. socket' \in Sockets
    BY <1>1, <1>3 DEF TalkTypes, Sockets, Ids0
  <2> QED BY <1>1, <1>6, <2>1 DEF TalkTypes
<1>8. RecordsAreTrue'
  BY <1>1, <1>6 DEF TalkInv, RecordsAreTrue, Answered, At
<1>9. AnswersAreKept'
  BY <1>1, <1>6 DEF TalkInv, AnswersAreKept, Fresh, Answered, At
<1>10. SocketIsTrue'
  <2>1. q # None
    BY <1>1, ConversationsAssumption
  <2>2. CASE socket.busy = q
    <3>1. socket'.busy = q /\ socket'.heard = q
      BY <1>1, <1>3, <2>2 DEF TalkTypes, Sockets
    <3> QED BY <1>6, <3>1 DEF SocketIsTrue
  <2>3. CASE socket.busy # q
    <3>1. socket.busy \in Pending => requests'[socket.busy] = requests[socket.busy]
      BY <2>3, <1>6 DEF Pending
    <3>2. socket' = socket /\ socket.heard # q
      BY <1>1, <1>3, <1>6, <2>1, <2>3 DEF SocketIsTrue
    <3> QED BY <1>1, <1>6, <2>3, <3>1, <3>2 DEF SocketIsTrue
  <2> QED BY <2>2, <2>3
<1> QED BY <1>6, <1>7, <1>8, <1>9, <1>10 DEF TalkInv

\* The record that was due is put.
LEMMA KeepChanges ==
  ASSUME TalkInv, NEW q \in DOMAIN requests, KeepAnswer(q)
  PROVE  /\ q \in Answered /\ q \in Nat /\ requests[q] \in Answers
         /\ requests[q].due \in SUBSET Routes
         /\ DOMAIN requests' = DOMAIN requests /\ requests' \in Seq(Requests)
         /\ requests'[q] = [requests[q] EXCEPT !.due = {}, !.until = now + Ttl]
         /\ \A p \in DOMAIN requests : p # q => requests'[p] = requests[p]
         /\ Answered' = Answered /\ Pending' = Pending /\ q \notin Pending
         /\ Unkept' = Unkept \ {q}
<1> DEFINE new == [requests[q] EXCEPT !.due = {}, !.until = now + Ttl]
<1>1. /\ q \in Answered /\ q \in Nat /\ requests[q] \in Answers /\ TalkTypes
      /\ q \notin Pending
  BY Kinds DEF KeepAnswer, Unkept, TalkInv
<1>2. new \in Answers /\ new.at = "answered" /\ new.due = {}
  <2>1. now + Ttl \in Ids0
    BY <1>1, ContinuationsAssumption DEF TalkTypes, Ids0
  <2> QED BY <1>1, <2>1 DEF Answers
<1>3. requests' = [requests EXCEPT ![q] = new]
  <2>1. requests' = [requests EXCEPT ![q].due = {}, ![q].until = now + Ttl]
    BY DEF KeepAnswer
  <2> QED BY <1>1, <2>1 DEF Answers
<1>4. requests[q].due \in SUBSET Routes
  BY <1>1 DEF Answers
<1> HIDE DEF new
<1>5. new \in Requests /\ new \notin Pendings
  BY <1>2 DEF Requests, Pendings
<1>6. /\ requests' \in Seq(Requests) /\ DOMAIN requests' = DOMAIN requests
      /\ \A p \in DOMAIN requests : requests'[p] = IF p = q THEN new ELSE requests[p]
  BY <1>1, <1>3, <1>5, ExceptSeq DEF TalkTypes
<1>7. Answered' = Answered /\ Pending' = Pending
  BY <1>1, <1>2, <1>5, <1>6 DEF Answered, At, Pending
<1>8. Unkept' = Unkept \ {q}
  BY <1>2, <1>6, <1>7 DEF Unkept, Answered, At
<1> QED BY <1>1, <1>4, <1>6, <1>7, <1>8 DEF new

LEMMA KeepStep ==
  ASSUME TalkInv, NEW q \in DOMAIN requests, KeepAnswer(q)
  PROVE  TalkInv'
<1>1. /\ q \in Answered /\ q \in Nat /\ requests[q] \in Answers
      /\ requests[q].due \in SUBSET Routes
      /\ DOMAIN requests' = DOMAIN requests /\ requests' \in Seq(Requests)
      /\ requests'[q] = [requests[q] EXCEPT !.due = {}, !.until = now + Ttl]
      /\ \A p \in DOMAIN requests : p # q => requests'[p] = requests[p]
      /\ Answered' = Answered /\ Pending' = Pending /\ q \notin Pending
      /\ Unkept' = Unkept \ {q}
  BY KeepChanges
<1>2. /\ q \in Unkept /\ UNCHANGED now
      /\ socket' = IF socket.busy = q THEN [socket EXCEPT !.busy = None, !.last = q] ELSE socket
  BY DEF KeepAnswer
<1>3. PICK resolved \in requests[q].due : Keeps(q, resolved, requests[q].output)
  BY DEF KeepAnswer
<1>4. /\ now + Ttl \in Nat
      /\ DOMAIN records' = DOMAIN records \cup {q}
      /\ \A r \in DOMAIN records : r # q => records'[r] = records[r]
      /\ records'[q] \in RecordType
      /\ records'[q].account = requests[q].account
      /\ records'[q].expires = now + Ttl
  <2>1. /\ resolved \in Routes /\ requests[q].output \in Transcripts
        /\ requests[q].account \in Accounts /\ requests[q].settings \in Settings
    BY <1>1, <1>3 DEF Answers
  <2> QED BY <1>3, <2>1, Kept0
<1>5. /\ requests'[q].due = {} /\ requests'[q].until = now + Ttl
      /\ requests'[q].account = requests[q].account
      /\ requests'[q].given = requests[q].given
      /\ requests'[q].output = requests[q].output
      /\ requests'[q].thread = requests[q].thread
      /\ requests[q].due # {} /\ requests[q] # Ended /\ requests[q].at = "answered"
  BY <1>1, <1>2 DEF Answers, Unkept, Ended
<1>6. TalkTypes /\ SocketIsTrue /\ ThreadsHaveUsers
  BY DEF TalkInv
<1>7. TalkTypes'
  <2>1. socket' \in Sockets
    BY <1>1, <1>2, <1>6 DEF TalkTypes, Sockets, Ids0
  <2> QED BY <1>1, <1>2, <1>6, <2>1 DEF TalkTypes
<1>8. RecordsAreTrue'
  <2> SUFFICES ASSUME NEW r \in DOMAIN records'
               PROVE  /\ r \in Answered'
                      /\ records'[r] \in RecordType
                      /\ records'[r].account = requests'[r].account
                      /\ records'[r].expires = requests'[r].until
                      /\ requests'[r].due = {}
    BY DEF RecordsAreTrue
  <2>1. CASE r = q
    BY <1>1, <1>4, <1>5, <2>1
  <2>2. CASE r # q
    <3>1. r \in DOMAIN records /\ records'[r] = records[r]
      BY <1>4, <2>2
    <3>2. r \in Answered /\ r \in DOMAIN requests
      BY <3>1 DEF TalkInv, RecordsAreTrue, Answered, At
    <3> QED BY <1>1, <2>2, <3>1, <3>2 DEF TalkInv, RecordsAreTrue
  <2> QED BY <2>1, <2>2
<1>9. AnswersAreKept'
  <2>1. \A r \in Answered : r \in DOMAIN requests
    BY DEF Answered, At
  <2> QED BY <1>1, <1>2, <1>4, <2>1 DEF TalkInv, AnswersAreKept, Fresh
<1>10. SocketIsTrue'
  <2>1. CASE socket.busy = q
    <3>1. socket'.busy = None /\ socket'.last = q /\ socket'.heard = socket.heard
      BY <1>2, <1>6, <2>1 DEF TalkTypes, Sockets
    <3>2. socket.heard = q /\ None \notin Unkept'
      BY <1>1, <1>2, <1>6, <2>1, UnkeptType DEF SocketIsTrue
    <3>3. None \notin Pending
      BY <1>6, Kinds, ConversationsAssumption DEF Pending
    <3> QED BY <1>1, <3>1, <3>2, <3>3 DEF SocketIsTrue
  <2>2. CASE socket.busy # q
    <3>1. socket.busy \in Pending => requests'[socket.busy] = requests[socket.busy]
      BY <1>1, <2>2 DEF Pending
    <3> QED BY <1>1, <1>2, <1>6, <2>2, <3>1 DEF SocketIsTrue
  <2> QED BY <2>1, <2>2
<1>11. ThreadsHaveUsers'
  BY <1>1, <1>5, <1>6 DEF ThreadsHaveUsers
<1>12. ASSUME NEW p \in Pending' PROVE Sound(p)'
  <2>1. p # q /\ p \in Pending /\ p \in DOMAIN requests' /\ requests'[p] = requests[p]
        /\ Sound(p)
    BY <1>1, <1>12 DEF Pending, TalkInv
  <2>2. requests[p].via = "socket" => socket' = socket
    BY <1>2, <2>1 DEF Sound, AskedWell
  <2>3. now' \in Nat /\ now <= now'
    BY <1>2, <1>6 DEF TalkTypes
  <2>4. \A r \in Answered :
          /\ r \in Answered'
          /\ requests'[r].account = requests[r].account
          /\ requests'[r].given = requests[r].given
          /\ requests'[r].output = requests[r].output
          /\ requests[r].due = {} => requests'[r] = requests[r]
    BY <1>1, <1>5 DEF Answered, At
  <2> QED BY <1>6, <2>1, <2>2, <2>3, <2>4, StaySound
<1> QED BY <1>7, <1>8, <1>9, <1>10, <1>11, <1>12 DEF TalkInv

\* A new request joins the others.
LEMMA BeginStep ==
  ASSUME TalkInv,
         NEW via \in {"http", "compact", "socket"}, NEW settings \in Settings,
         NEW named \in Answered \cup {None}, NEW follows \in {None, named},
         NEW sent \in Transcripts, NEW thread \in Transcripts, NEW whole \in Transcripts,
         HasUser(thread), follows # None => via = "socket",
         Begin(via, settings, named, follows, sent, thread, whole),
         UNCHANGED <<now, records>>,
         socket' \in Sockets, socket'.last = socket.last, socket'.heard = socket.heard,
         IF via = "socket" THEN socket.busy = None /\ socket'.busy = Len(requests')
         ELSE socket' = socket
  PROVE  TalkInv'
<1> DEFINE n == Len(requests) + 1
           new == [at |-> "get", via |-> via, settings |-> settings, named |-> named,
                   follows |-> follows, sent |-> sent, thread |-> thread, whole |-> whole,
                   route |-> None, stripped |-> FALSE,
                   account |-> None, over |-> None, given |-> <<>>]
<1>1. TalkTypes /\ requests \in Seq(Requests) /\ requests' = Append(requests, new)
  BY DEF TalkInv, TalkTypes, Begin
<1>2. named \in Ids0 /\ follows \in Ids0
  <2>1. \A r \in Answered : r \in Nat
    BY <1>1, Kinds DEF Answered, At
  <2> QED BY <2>1 DEF Ids0
<1>3. new \in Pendings
  <2>1. <<>> \in Transcripts
    BY DEF Transcripts
  <2> QED BY <2>1, <1>2 DEF Pendings
<1>4. /\ new.at = "get" /\ new.via = via /\ new.named = named /\ new.follows = follows
      /\ new.thread = thread
  OBVIOUS
<1> HIDE DEF new
<1>5. /\ requests' \in Seq(Requests) /\ Len(requests') = n /\ n \in Nat
      /\ DOMAIN requests' = DOMAIN requests \cup {n} /\ n \notin DOMAIN requests
      /\ requests'[n] = new
      /\ \A p \in DOMAIN requests : requests'[p] = requests[p]
  <2>1. new \in Requests
    BY <1>3 DEF Requests
  <2> QED BY <1>1, <2>1, AppendProperties
<1> HIDE DEF n
<1>6. /\ Answered' = Answered
      /\ \A r \in Answered : r \in Answered' /\ requests'[r] = requests[r]
  BY <1>4, <1>5 DEF Answered, At
<1>7. TalkTypes'
  BY <1>1, <1>5 DEF TalkTypes
<1>8. RecordsAreTrue'
  BY <1>6 DEF RecordsAreTrue, TalkInv
<1>9. AnswersAreKept'
  BY <1>6 DEF AnswersAreKept, TalkInv, Fresh
<1>10. SocketIsTrue'
  <2>1. \A p \in Pending : p \in Pending'
    BY <1>5 DEF Pending
  <2>2. n \in Pending' /\ requests'[n].via = via
    BY <1>3, <1>4, <1>5 DEF Pending
  <2>3. /\ Unkept' = Unkept /\ None \notin Unkept
        /\ n \notin Unkept /\ n # None
    <3>1. Unkept' = Unkept /\ n \notin Unkept
      BY <1>5, <1>6 DEF Unkept, Answered, At
    <3> QED BY <3>1, <1>1, <1>5, UnkeptType, ConversationsAssumption
  <2>4. SocketIsTrue
    BY DEF TalkInv
  <2>5. CASE via = "socket"
    BY <1>5, <1>6, <2>2, <2>3, <2>4, <2>5 DEF SocketIsTrue
  <2>6. CASE via # "socket"
    <3>1. socket.busy # n
      BY <1>5, <2>3, <2>4 DEF SocketIsTrue, Pending
    <3>2. socket.busy \in Pending' => requests'[socket.busy] = requests[socket.busy]
                                      /\ socket.busy \in Pending
      BY <1>5, <3>1 DEF Pending
    <3> QED BY <1>5, <1>6, <2>1, <2>3, <2>4, <2>6, <3>2 DEF SocketIsTrue
  <2> QED BY <2>5, <2>6
<1>11. ThreadsHaveUsers'
  BY <1>4, <1>5 DEF ThreadsHaveUsers, TalkInv
<1>12. ASSUME NEW p \in Pending' PROVE Sound(p)'
  <2>1. CASE p = n
    <3>1. AskedWell(p)'
      BY <2>1, <1>4, <1>5, <1>6 DEF AskedWell
    <3>2. RoutedWell(p)' /\ SentWell(p)'
      BY <2>1, <1>4, <1>5 DEF RoutedWell, SentWell
    <3> QED BY <3>1, <3>2 DEF Sound
  <2>2. CASE p # n
    <3>1. p \in Pending /\ p \in DOMAIN requests' /\ requests'[p] = requests[p] /\ Sound(p)
      BY <2>2, <1>5, <1>12 DEF Pending, TalkInv
    <3>2. requests[p].via = "socket" => socket' = socket
      <4>1. p \in Nat
        BY <1>1, <3>1, Kinds DEF Pending
      <4> QED BY <3>1, <4>1, ConversationsAssumption DEF Sound, AskedWell
    <3>3. now' \in Nat /\ now <= now'
      BY <1>1 DEF TalkTypes
    <3> QED BY <1>1, <1>6, <3>1, <3>2, <3>3, StaySound
  <2> QED BY <2>1, <2>2
<1> QED BY <1>7, <1>8, <1>9, <1>10, <1>11, <1>12 DEF TalkInv

LEMMA AnswerTypes ==
  ASSUME TalkInv, NEW r \in Answered
  PROVE  /\ r \in Nat /\ requests[r] \in Answers
         /\ requests[r].settings \in Settings
         /\ requests[r].thread \in Transcripts /\ requests[r].whole \in Transcripts
         /\ HasUser(requests[r].thread)
         /\ NextItem(r) \in Transcripts
<1>1. r \in Nat /\ requests[r] \in Answers /\ HasUser(requests[r].thread)
  BY Kinds DEF TalkInv, ThreadsHaveUsers, Answered, At
<1> QED BY <1>1, NextItemType DEF Answers

\* What the clients ask, without its effect on the socket.
LEMMA AskStep ==
  ASSUME TalkInv, NEW via \in {"http", "compact", "socket"},
         UNCHANGED <<now, records>>,
         socket' \in Sockets, socket'.last = socket.last, socket'.heard = socket.heard,
         IF via = "socket" THEN socket.busy = None /\ socket'.busy = Len(requests')
         ELSE socket' = socket,
         \/ \E settings \in Settings : New(via, settings)
         \/ \E r \in Answered : \/ Continue(via, r)
                               \/ \E settings \in Settings : Repeat(via, settings, r)
         \/ via = "socket" /\ SocketNext
  PROVE  TalkInv'
<1>1. <<User>> \in Transcripts /\ HasUser(<<User>>)
  BY UserType DEF Transcripts, HasUser
<1>2. ASSUME NEW settings \in Settings, New(via, settings)
      PROVE  TalkInv'
  BY <1>1, <1>2, BeginStep DEF New
<1>3. ASSUME NEW r \in Answered, Continue(via, r)
      PROVE  TalkInv'
  <2>1. Begin(via, requests[r].settings, r, None, NextItem(r),
              requests[r].thread \o NextItem(r), requests[r].whole \o NextItem(r))
    BY <1>3 DEF Continue
  <2>2. /\ requests[r].thread \o NextItem(r) \in Transcripts
        /\ requests[r].whole \o NextItem(r) \in Transcripts
        /\ HasUser(requests[r].thread \o NextItem(r))
    BY <1>3, AnswerTypes, ConcatHasUser
  <2> QED BY <1>3, <2>1, <2>2, AnswerTypes, BeginStep
<1>4. ASSUME NEW r \in Answered, NEW settings \in Settings, Repeat(via, settings, r)
      PROVE  TalkInv'
  <2>1. PICK kept \in {requests[r].thread, LastTurn(requests[r].thread)} :
          LET sent == kept \o NextItem(r)
          IN  Begin(via, settings, None, None, sent, sent, requests[r].whole \o NextItem(r))
    BY <1>4 DEF Repeat
  <2>2. kept \in Transcripts /\ HasUser(kept)
    BY <1>4, AnswerTypes, LastTurnType
  <2>3. /\ kept \o NextItem(r) \in Transcripts /\ HasUser(kept \o NextItem(r))
        /\ requests[r].whole \o NextItem(r) \in Transcripts
    BY <1>4, <2>2, AnswerTypes, ConcatHasUser
  <2> QED BY <1>4, <2>1, <2>3, BeginStep
<1>5. ASSUME via = "socket", SocketNext
      PROVE  TalkInv'
  <2>1. socket.last = socket.heard /\ socket.heard \in Answered \cup {None}
    BY <1>5, UnkeptType DEF TalkInv, SocketIsTrue
  <2>2. CASE socket.heard = None
    <3>1. PICK settings \in Settings :
            Begin("socket", settings, socket.last, None, <<User>>, <<User>>, <<User>>)
      BY <1>5, <2>2 DEF SocketNext
    <3> QED BY <1>1, <1>5, <2>1, <2>2, <3>1, BeginStep
  <2>3. CASE socket.heard # None
    <3> DEFINE r == socket.heard
    <3>1. r \in Answered
      BY <2>1, <2>3
    <3>2. Begin("socket", requests[r].settings, r, r, NextItem(r),
                requests[r].thread \o NextItem(r), requests[r].whole \o NextItem(r))
      BY <1>5, <2>1, <2>3 DEF SocketNext
    <3> HIDE DEF r
    <3>3. /\ requests[r].thread \o NextItem(r) \in Transcripts
          /\ requests[r].whole \o NextItem(r) \in Transcripts
          /\ HasUser(requests[r].thread \o NextItem(r))
      BY <3>1, AnswerTypes, ConcatHasUser
    <3> QED BY <1>5, <3>1, <3>2, <3>3, AnswerTypes, BeginStep
  <2> QED BY <2>2, <2>3
<1> QED BY <1>2, <1>3, <1>4, <1>5

LEMMA HttpStep == ASSUME TalkInv, AskHttp PROVE TalkInv'
<1>1. UNCHANGED <<now, records, socket>> /\ socket \in Sockets
  BY DEF AskHttp, TalkInv, TalkTypes
<1>2. \/ \E settings \in Settings : New("http", settings)
      \/ \E r \in Answered : \/ Continue("http", r)
                            \/ \E settings \in Settings : Repeat("http", settings, r)
      \/ \E r \in Answered : Continue("compact", r)
  BY DEF AskHttp
<1>3. CASE \E r \in Answered : Continue("compact", r)
  BY <1>1, <1>3, AskStep
<1>4. CASE \/ \E settings \in Settings : New("http", settings)
           \/ \E r \in Answered : \/ Continue("http", r)
                                 \/ \E settings \in Settings : Repeat("http", settings, r)
  BY <1>1, <1>4, AskStep
<1> QED BY <1>2, <1>3, <1>4

LEMMA SocketStep == ASSUME TalkInv, AskSocket PROVE TalkInv'
<1>1. /\ UNCHANGED <<now, records>> /\ socket.busy = None /\ socket \in Sockets
      /\ socket' = [socket EXCEPT !.busy = Len(requests')]
      /\ SocketNext \/ SocketOther
  BY DEF AskSocket, TalkInv, TalkTypes
<1>2. Len(requests') \in Nat
  <2>1. requests \in Seq(Requests)
    BY DEF TalkInv, TalkTypes
  <2>2. \E new : requests' = Append(requests, new)
    BY <1>1 DEF SocketNext, SocketOther, Continue, Repeat, Begin
  <2>3. PICK new : requests' = Append(requests, new)
    BY <2>2
  <2>4. Len(Append(requests, new)) = Len(requests) + 1
    <3>1. requests \in Seq(Requests \cup {new})
      BY <2>1, SeqMonotonic
    <3> QED BY <3>1, AppendProperties
  <2> QED BY <2>1, <2>3, <2>4
<1>3. socket' \in Sockets /\ socket'.last = socket.last /\ socket'.heard = socket.heard
      /\ socket'.busy = Len(requests')
  BY <1>1, <1>2 DEF Sockets, Ids0
<1>4. CASE SocketNext
  BY <1>1, <1>3, <1>4, AskStep
<1>5. CASE SocketOther
  BY <1>1, <1>3, <1>5, AskStep DEF SocketOther
<1> QED BY <1>1, <1>4, <1>5

LEMMA HangupStep == ASSUME TalkInv, Hangup PROVE TalkInv'
<1>1. /\ requests' = [q \in DOMAIN requests |->
                        IF q = socket.busy /\ q \notin Answered THEN Ended
                        ELSE requests[q]]
      /\ socket' = NoSession /\ UNCHANGED <<now, records>>
  BY DEF Hangup
<1>2. TalkTypes /\ SocketIsTrue /\ DOMAIN requests' = DOMAIN requests
  BY <1>1 DEF TalkInv
<1>4. /\ Answered' = Answered
      /\ \A q \in Answered : q \in Answered' /\ requests'[q] = requests[q]
  BY <1>1 DEF Answered, At, Ended
<1>5. TalkTypes'
  <2>1. requests' \in Seq(Requests)
    BY <1>1, <1>2 DEF TalkTypes, Requests
  <2> QED BY <1>1, <1>2, <2>1 DEF TalkTypes, NoSession, Sockets, Ids0
<1>6. RecordsAreTrue' /\ AnswersAreKept'
  BY <1>1, <1>4 DEF TalkInv, RecordsAreTrue, AnswersAreKept, Fresh
<1>7. SocketIsTrue'
  <2>1. None \notin Unkept' /\ None \notin Pending'
    BY <1>2, <1>5, Kinds, ConversationsAssumption DEF Unkept, Answered, At, Pending
  <2> QED BY <1>1, <2>1 DEF SocketIsTrue, NoSession
<1>8. ThreadsHaveUsers'
  BY <1>1 DEF ThreadsHaveUsers, TalkInv
<1>9. ASSUME NEW q \in Pending' PROVE Sound(q)'
  <2>1. q # socket.busy /\ q \in Pending /\ q \in DOMAIN requests' /\ requests'[q] = requests[q]
    BY <1>1, <1>2, <1>9, Kinds DEF Pending, Pendings, Ended
  <2>2. Sound(q)
    BY <2>1 DEF TalkInv
  <2>3. requests[q].via # "socket"
    BY <2>1, <2>2 DEF Sound, AskedWell
  <2>4. now' \in Nat /\ now <= now'
    BY <1>1, <1>2 DEF TalkTypes
  <2> QED BY <1>2, <1>4, <2>1, <2>2, <2>3, <2>4, StaySound
<1> QED BY <1>5, <1>6, <1>7, <1>8, <1>9 DEF TalkInv

LEMMA ForgetStep == ASSUME TalkInv, ForgetContinuations, UNCHANGED now PROVE TalkInv'
<1>1. TalkTypes
  BY DEF TalkInv
<1>2. /\ DOMAIN requests' = DOMAIN requests
      /\ \A q \in DOMAIN requests :
           requests'[q] = IF q \in Answered THEN [requests[q] EXCEPT !.due = {}, !.until = None] ELSE Ended
      /\ requests' = [q \in DOMAIN requests |->
           IF q \in Answered THEN [requests[q] EXCEPT !.due = {}, !.until = None] ELSE Ended]
  BY DEF ForgetContinuations
<1>3. \A q \in Answered :
        LET new == [requests[q] EXCEPT !.due = {}, !.until = None]
        IN  /\ q \in DOMAIN requests /\ new \in Answers /\ new.until = None
            /\ new.thread = requests[q].thread
  <2>1. \A q \in Answered : requests[q] \in Answers /\ q \in DOMAIN requests
    BY <1>1, Kinds DEF Answered, At
  <2> QED BY <2>1 DEF Answers, Ids0
<1>4. \A q \in DOMAIN requests : requests'[q] \in Answers \cup {Ended}
  BY <1>2, <1>3
<1>5. TalkTypes'
  <2>1. requests' \in Seq(Requests)
    <3>1. Len(requests) \in Nat /\ DOMAIN requests = 1 .. Len(requests)
      BY <1>1 DEF TalkTypes
    <3>2. \A q \in 1 .. Len(requests) : requests'[q] \in Requests
      BY <1>4, <3>1 DEF Requests
    <3>3. requests' \in [1 .. Len(requests) -> Requests]
      <4> DEFINE e(q) == IF q \in Answered THEN [requests[q] EXCEPT !.due = {}, !.until = None] ELSE Ended
      <4>1. requests' = [q \in 1 .. Len(requests) |-> e(q)]
        BY <1>2, <3>1
      <4>2. \A q \in 1 .. Len(requests) : e(q) \in Requests
        BY <3>2, <4>1
      <4> HIDE DEF e
      <4> QED BY <4>1, <4>2
    <3> QED BY <3>1, <3>3, IsASeq
  <2> QED BY <1>1, <2>1 DEF ForgetContinuations, TalkTypes, NoSession, Sockets, Ids0
<1>6. Pending' = {}
  <2>1. \A v \in Answers \cup {Ended} : v \notin Pendings
    BY DEF Pendings, Answers, Ended
  <2> QED BY <1>2, <1>4, <2>1 DEF Pending
<1>7. RecordsAreTrue'
  <2>1. records' = <<>>
    BY DEF ForgetContinuations
  <2>2. DOMAIN records' = {}
    BY <2>1
  <2> QED BY <2>2 DEF RecordsAreTrue
<1>8. AnswersAreKept'
  <2>1. \A q \in Answered' : requests'[q].until = None
    <3>1. \A q \in Answered' : q \in Answered
      BY <1>2 DEF Answered, At, Ended
    <3> QED BY <1>2, <1>3, <3>1
  <2> QED BY <2>1 DEF AnswersAreKept, Fresh
<1>9. SocketIsTrue'
  <2>1. None \notin Unkept'
    BY <1>5, Kinds, ConversationsAssumption DEF Unkept, Answered, At
  <2> QED BY <1>6, <2>1 DEF SocketIsTrue, ForgetContinuations, NoSession
<1>10. ThreadsHaveUsers'
  <2>1. \A q \in Answered : requests[q] # Ended
    BY <1>1, Kinds DEF Answered, At
  <2> QED BY <1>2, <1>3, <2>1 DEF ThreadsHaveUsers, TalkInv
<1> QED BY <1>5, <1>6, <1>7, <1>8, <1>9, <1>10 DEF TalkInv

LEMMA QuietStep ==
  ASSUME TalkInv, UNCHANGED <<requests, socket>>, now' \in Nat, now <= now',
         \A r \in DOMAIN records' : r \in DOMAIN records /\ records'[r] = records[r],
         \A r \in DOMAIN records : r \in DOMAIN records' \/ ~Fresh(r)
  PROVE  TalkInv'
<1>1. TalkTypes /\ TalkTypes' /\ Answered' = Answered /\ Pending' = Pending
  BY DEF TalkInv, TalkTypes, Answered, At, Pending
<1>2. RecordsAreTrue'
  BY <1>1 DEF TalkInv, RecordsAreTrue
<1>3. AnswersAreKept'
  <2>1. \A r \in Answered : Fresh(r)' => Fresh(r)
    <3>1. \A r \in Answered : requests[r].until \in Nat \cup {None}
      BY <1>1, Kinds DEF Answers, Ids0, Answered, At
    <3> QED BY <1>1, <3>1, ConversationsAssumption DEF Fresh, TalkTypes
  <2> QED BY <1>1, <2>1 DEF TalkInv, AnswersAreKept
<1>4. SocketIsTrue' /\ ThreadsHaveUsers'
  BY <1>1 DEF TalkInv, SocketIsTrue, ThreadsHaveUsers, Unkept
<1>5. ASSUME NEW p \in Pending' PROVE Sound(p)'
  <2>1. p \in Pending /\ p \in DOMAIN requests' /\ requests'[p] = requests[p] /\ Sound(p)
        /\ socket' = socket
        /\ \A r \in Answered : r \in Answered' /\ requests'[r] = requests[r]
    BY <1>1, <1>5 DEF TalkInv, Pending
  <2> QED BY <1>1, <2>1, StaySound
<1> QED BY <1>1, <1>2, <1>3, <1>4, <1>5 DEF TalkInv

LEMMA TalkInitially == Init => TalkInv
<1> SUFFICES ASSUME Init PROVE TalkInv
  OBVIOUS
<1>1. now = 0 /\ records = <<>> /\ requests = <<>> /\ socket = NoSession
  BY DEF Init, ConversationsInit
<1>2. DOMAIN requests = {} /\ DOMAIN records = {}
  BY <1>1
<1>3. TalkTypes
  BY <1>1 DEF TalkTypes, Sockets, NoSession, Ids0
<1> QED BY <1>1, <1>2, <1>3
    DEF TalkInv, RecordsAreTrue, AnswersAreKept, SocketIsTrue, ThreadsHaveUsers,
        Pending, Unkept, Answered, At, NoSession

LEMMA TalkNext == TalkInv /\ [Next]_<<now, talk, claude, client, restarts>> => TalkInv'
<1> SUFFICES ASSUME TalkInv, [Next]_<<now, talk, claude, client, restarts>> PROVE TalkInv'
  OBVIOUS
<1>1. now \in Nat
  BY DEF TalkInv, TalkTypes
<1>2. ASSUME ConversationStep PROVE TalkInv'
  <2>1. CASE AskHttp \/ AskSocket \/ Hangup
    BY <2>1, HttpStep, SocketStep, HangupStep
  <2>2. ASSUME NEW q \in DOMAIN requests,
               \/ Get(q) \/ GetDeletes(q) \/ Resolve(q)
               \/ OpenHttp(q) \/ OpenWs(q) \/ FallBack(q) \/ Strip(q) \/ OpenFails(q)
               \/ Send(q) \/ SendFails(q)
               \/ Finish(q) \/ FinishStream(q) \/ KeepAnswer(q) \/ Breaks(q)
        PROVE  TalkInv'
    BY <2>2, GetStep, GetDeletesStep, ResolveStep, OpenHttpStep, OpenWsStep, FallBackStep,
       StripStep, FailStep, SendStep, FinishStep, FinishStreamStep, KeepStep
  <2> QED BY <1>2, <2>1, <2>2 DEF ConversationStep
<1>3. CASE client = "claude" /\ ClaudeStep /\ UNCHANGED <<talk, client, restarts>>
  <2>1. UNCHANGED <<now, requests, socket, records>>
    BY <1>3 DEF ClaudeStep, AskClaude, GetReplay, DropStale, OpenMessage, RefuseThinking,
                AnswerMessage, StreamMessage, RememberMessage, talk
  <2> QED BY <1>1, <2>1, QuietStep
<1>4. CASE Tick /\ UNCHANGED <<talk, claude, client, restarts>>
  BY <1>1, <1>4, QuietStep DEF Tick, talk
<1>5. CASE Housekeeping
  BY <1>1, <1>5, DropExpiredKeeps, QuietStep DEF Housekeeping
<1>6. CASE Restart
  BY <1>6, ForgetStep DEF Restart
<1>7. CASE UNCHANGED <<now, talk, claude, client, restarts>>
  BY <1>1, <1>7, QuietStep DEF talk
<1> QED BY <1>2, <1>3, <1>4, <1>5, <1>6, <1>7 DEF Next

-----------------------------------------------------------------------------
(* The properties.                                                         *)

\* Whatever the order of requests, expiries, failures and restarts, a previous
\* response is named only to the account that made it, on its connection.
THEOREM ResponsesAreNamedToTheirOwner == Spec => []NamedToItsOwner
<1>1. TalkInv => NamedToItsOwner
  <2> SUFFICES ASSUME TalkInv, NEW q \in Answering
               PROVE  /\ requests[q].over = requests[q].account
                      /\ requests[q].via = "socket" => socket.stream = requests[q].account
                      /\ requests[q].route.how = "implicit"
                            \/ (requests[q].via = "socket" /\ Pinned(q))
                         => requests[Route(q).prev].account = requests[q].account
    BY DEF NamedToItsOwner
  <2>1. requests[q].at = "answering" /\ Sound(q)
    BY Kinds DEF TalkInv, Answering, At
  <2> QED BY <2>1 DEF Sound, SentWell, RoutedWell, Pinned, Route
<1> QED BY <1>1, TalkInitially, TalkNext, PTL DEF Spec

\* From when its record is put, a response can be continued with its account for
\* its whole time, whatever is swept, listed, deleted or put beside it; and between
\* two turns of the WebSocket the record of the last response is there, though its
\* client read the end of it before.
THEOREM AnswersCanBeContinued == Spec => []AnswersLast
<1>1. TalkInv => AnswersLast
  <2> SUFFICES ASSUME TalkInv PROVE AnswersLast
    OBVIOUS
  <2>1. socket.busy = None => socket.busy \notin Unkept
    BY UnkeptType DEF TalkInv
  <2> QED BY <2>1 DEF TalkInv, SocketIsTrue, AnswersLast, AnswersAreKept, RecordsAreTrue, Fresh
<1> QED BY <1>1, TalkInitially, TalkNext, PTL DEF Spec

\* A turn of the socket that names nothing continues what its client read last.
THEOREM TurnsContinueWhatWasHeard == Spec => []SocketContinues
<1>1. TalkInv => SocketContinues
  <2> SUFFICES ASSUME TalkInv, NEW q \in Answering, requests[q].follows # None
               PROVE  requests[q].given = Context(requests[q].follows) \o requests[q].sent
    BY DEF SocketContinues
  <2>1. requests[q].at = "answering" /\ Sound(q)
    BY Kinds DEF TalkInv, Answering, At
  <2> QED BY <2>1 DEF Sound, SentWell
<1> QED BY <1>1, TalkInitially, TalkNext, PTL DEF Spec

-----------------------------------------------------------------------------
(* Whose turns a context has.                                              *)

\* t ends with s.
IsEnd(s, t) == \E u \in Transcripts : t = u \o s

\* What precedes an item that a response made is all that was there when it
\* was made.
IsThreaded(t) ==
    \A i \in DOMAIN t :
        IsModelItem(t[i]) =>
          /\ t[i].of \in Answered
          /\ SubSeq(t, 1, i) = requests[t[i].of].whole

WholesAreThreaded ==
    \A q \in DOMAIN requests :
        requests[q] # Ended =>
          /\ IsThreaded(requests[q].whole)
          /\ IsEnd(requests[q].thread, requests[q].whole)

AnswersAreOwn ==
    \A r \in Answered :
        /\ requests[r].output \in Outputs(r)
        /\ IsPart(Context(r), requests[r].whole)
        /\ \A route \in requests[r].due : IsPart(route.input, requests[r].given)

\* The history of a record is what its response was answered from, or the end
\* of it, and the response.
OwnHistory(r, history) ==
    \E x \in Transcripts :
        history = x \o requests[r].output /\ IsPart(x, requests[r].given)

RecordsAreOwn == \A r \in DOMAIN records : OwnHistory(r, records[r].history)

AskedOwn(q) ==
    LET request == requests[q]
    IN  /\ IsEnd(request.sent, request.thread)
        /\ request.named # None =>
             request.whole = requests[request.named].whole \o request.sent

\* Whichever of its inputs a route is sent with.
OwnRoute(route, sent, whole) ==
    /\ IsPart(sent, route.full) /\ IsPart(route.full, whole)
    /\ IsPart(route.input, route.full)
    /\ route.how = "plain" => route.input = route.full
    /\ route.how \in {"explicit", "implicit"} =>
         /\ route.prev \in Answered
         /\ IsPart(sent, Context(route.prev) \o route.input)
         /\ IsPart(Context(route.prev) \o route.input, whole)

RoutedOwn(q) ==
    LET request == requests[q]
    IN  request.at \in {"open", "answering"} =>
          /\ OwnRoute(request.route, request.sent, request.whole)
          /\ request.via = "socket" => request.route.how # "fallback"

SentOwn(q) ==
    LET request == requests[q]
    IN  request.at = "answering" =>
          /\ IsPart(request.sent, request.given)
          /\ IsPart(request.given, request.whole)
          /\ IsPart(request.route.input, request.given)

OwnInv ==
    /\ WholesAreThreaded /\ AnswersAreOwn /\ RecordsAreOwn
    /\ \A q \in Pending : AskedOwn(q) /\ RoutedOwn(q) /\ SentOwn(q)

-----------------------------------------------------------------------------
LEMMA EndItself ==
  ASSUME NEW s \in Transcripts
  PROVE  IsEnd(s, s)
<1>1. <<>> \in Transcripts /\ s = <<>> \o s
  BY ConcatEmptySeq DEF Transcripts
<1> QED BY <1>1 DEF IsEnd

LEMMA EndExtends ==
  ASSUME NEW s \in Transcripts, NEW t \in Transcripts, NEW u \in Transcripts, IsEnd(s, t)
  PROVE  IsEnd(s \o u, t \o u)
<1>1. PICK v \in Transcripts : t = v \o s
  BY DEF IsEnd
<1>2. (v \o s) \o u = v \o (s \o u)
  BY Assoc
<1> QED BY <1>1, <1>2 DEF IsEnd

LEMMA EndTransitive ==
  ASSUME NEW s \in Transcripts, NEW t \in Transcripts, NEW u \in Transcripts,
         IsEnd(s, t), IsEnd(t, u)
  PROVE  IsEnd(s, u)
<1>1. PICK v \in Transcripts : t = v \o s
  BY DEF IsEnd
<1>2. PICK w \in Transcripts : u = w \o t
  BY DEF IsEnd
<1>3. (w \o v) \o s = w \o (v \o s)
  BY Assoc, Zenon
<1>4. w \o v \in Transcripts
  BY ConcatType, Zenon
<1> QED BY <1>1, <1>2, <1>3, <1>4, Zenon DEF IsEnd

LEMMA EndIsPart ==
  ASSUME NEW s \in Transcripts, NEW t, IsEnd(s, t)
  PROVE  IsPart(s, t)
  BY PartIsEnd DEF IsEnd

LEMMA SplitAt ==
  ASSUME NEW t \in Transcripts, NEW n \in 0 .. Len(t)
  PROVE  /\ SubSeq(t, 1, n) \in Transcripts /\ SubSeq(t, n + 1, Len(t)) \in Transcripts
         /\ t = SubSeq(t, 1, n) \o SubSeq(t, n + 1, Len(t))
<1>1. Len(t) \in Nat /\ n \in Nat /\ n <= Len(t)
  BY DEF Transcripts
<1> DEFINE a == SubSeq(t, 1, n)
           b == SubSeq(t, n + 1, Len(t))
<1>2. /\ a \in Transcripts /\ Len(a) = n
      /\ \A i \in 1 .. n : a[i] = t[i]
  BY <1>1, SubSeqProperties DEF Transcripts
<1>3. /\ b \in Transcripts /\ Len(b) = Len(t) - n
      /\ \A i \in 1 .. Len(t) - n : b[i] = t[n + i]
  BY <1>1, SubSeqProperties DEF Transcripts
<1> HIDE DEF a, b
<1>4. /\ a \o b \in Transcripts /\ Len(a \o b) = Len(t)
      /\ \A i \in 1 .. Len(t) : (a \o b)[i] = IF i <= n THEN a[i] ELSE b[i - n]
  BY <1>1, <1>2, <1>3, ConcatProperties DEF Transcripts
<1>5. \A i \in 1 .. Len(t) : (a \o b)[i] = t[i]
  <2> SUFFICES ASSUME NEW i \in 1 .. Len(t) PROVE (a \o b)[i] = t[i]
    OBVIOUS
  <2>1. CASE i <= n
    BY <1>1, <1>2, <1>4, <2>1
  <2>2. CASE i > n
    <3>1. i - n \in 1 .. Len(t) - n /\ n + (i - n) = i
      BY <1>1, <2>2
    <3>2. PICK k \in 1 .. Len(t) - n : k = i - n /\ n + k = i
      BY <1>1, <3>1
    <3>3. b[i - n] = t[i]
      BY <1>3, <3>2
    <3>4. (a \o b)[i] = b[i - n]
      BY <1>1, <1>4, <2>2
    <3> QED BY <3>3, <3>4
  <2>3. i <= n \/ i > n
    BY <1>1
  <2> QED BY <2>1, <2>2, <2>3, Zenon
<1>6. t = a \o b
  BY <1>1, <1>4, <1>5, SeqEqual DEF Transcripts
<1> QED BY <1>2, <1>3, <1>6 DEF a, b

LEMMA PrefixOf ==
  ASSUME NEW s \in Transcripts, NEW t \in Transcripts, NEW n \in 1 .. Len(s)
  PROVE  /\ n \in 1 .. Len(s \o t) /\ (s \o t)[n] = s[n]
         /\ SubSeq(s \o t, 1, n) = SubSeq(s, 1, n)
<1>1. /\ Len(s) \in Nat /\ Len(t) \in Nat /\ Len(s \o t) = Len(s) + Len(t)
      /\ \A i \in 1 .. Len(s) : (s \o t)[i] = s[i]
      /\ s \o t \in Transcripts
  BY ConcatProperties DEF Transcripts
<1>2. /\ SubSeq(s, 1, n) \in Transcripts /\ Len(SubSeq(s, 1, n)) = n
      /\ \A i \in 1 .. n : SubSeq(s, 1, n)[i] = s[i]
  BY <1>1, SubSeqProperties DEF Transcripts
<1>3. /\ SubSeq(s \o t, 1, n) \in Transcripts /\ Len(SubSeq(s \o t, 1, n)) = n
      /\ \A i \in 1 .. n : SubSeq(s \o t, 1, n)[i] = (s \o t)[i]
  BY <1>1, SubSeqProperties DEF Transcripts
<1>4. \A i \in 1 .. n : SubSeq(s \o t, 1, n)[i] = SubSeq(s, 1, n)[i]
  BY <1>1, <1>2, <1>3
<1> HIDE DEF Transcripts
<1>5. SubSeq(s \o t, 1, n) = SubSeq(s, 1, n)
  BY <1>2, <1>3, <1>4, SeqEqual DEF Transcripts
<1> QED BY <1>1, <1>5

LEMMA WholePrefix ==
  ASSUME NEW s \in Transcripts
  PROVE  SubSeq(s, 1, Len(s)) = s
<1>1. Len(s) \in Nat
  BY DEF Transcripts
<1>2. /\ SubSeq(s, 1, Len(s)) \in Transcripts /\ Len(SubSeq(s, 1, Len(s))) = Len(s)
      /\ \A i \in 1 .. Len(s) : SubSeq(s, 1, Len(s))[i] = s[i]
  BY <1>1, SubSeqProperties DEF Transcripts
<1> QED BY <1>1, <1>2, SeqEqual DEF Transcripts

LEMMA LastTurnEnds ==
  ASSUME NEW items \in Transcripts, HasUser(items)
  PROVE  IsEnd(LastTurn(items), items)
<1> DEFINE users == {i \in DOMAIN items : items[i] = User}
           m == Max(users)
<1>1. m \in 1 .. Len(items) /\ Len(items) \in Nat
  <2>1. users \in SUBSET (1 .. Len(items)) /\ users # {} /\ Len(items) \in Nat
    BY DEF Transcripts, HasUser
  <2> QED BY <2>1, MaxIsIn
<1> HIDE DEF m, users
<1>2. LastTurn(items) = SubSeq(items, m, Len(items))
  BY DEF LastTurn, m, users
<1>3. m - 1 \in 0 .. Len(items) /\ (m - 1) + 1 = m
  BY <1>1
<1> QED BY <1>2, <1>3, SplitAt DEF IsEnd

-----------------------------------------------------------------------------
(* Steps.                                                                  *)

\* Answers stay as they were made.
SameAnswers ==
    \A r \in Answered :
        /\ r \in Answered'
        /\ requests'[r].whole = requests[r].whole /\ requests'[r].thread = requests[r].thread
        /\ requests'[r].given = requests[r].given /\ requests'[r].output = requests[r].output
        /\ requests'[r].due \subseteq requests[r].due

LEMMA StaysThreaded ==
  ASSUME SameAnswers, NEW q, IsThreaded(requests[q].whole),
         requests'[q].whole = requests[q].whole
  PROVE  IsThreaded(requests[q].whole)'
  BY DEF SameAnswers, IsThreaded

LEMMA StaysOwn ==
  ASSUME TalkInv, SameAnswers, NEW p \in Pending, requests'[p] = requests[p],
         AskedOwn(p), RoutedOwn(p), SentOwn(p)
  PROVE  AskedOwn(p)' /\ RoutedOwn(p)' /\ SentOwn(p)'
<1>1. requests[p].named # None => requests[p].named \in Answered
  BY DEF TalkInv, Sound, AskedWell
<1>2. AskedOwn(p)'
  BY <1>1 DEF AskedOwn, SameAnswers
<1>3. RoutedOwn(p)'
  BY DEF RoutedOwn, OwnRoute, Context, SameAnswers
<1> QED BY <1>2, <1>3 DEF SentOwn

LEMMA OwnMoved ==
  ASSUME TalkInv, OwnInv, NEW q \in Pending, NEW new \in Pendings \cup {Ended}, Only(q, new),
         new \in Pendings =>
           /\ new.thread = requests[q].thread /\ new.whole = requests[q].whole
           /\ new.sent = requests[q].sent /\ new.named = requests[q].named
           /\ RoutedOwn(q)' /\ SentOwn(q)',
         \A r \in DOMAIN records' : r \in DOMAIN records /\ records'[r] = records[r]
  PROVE  OwnInv'
<1>1. new \in Requests /\ TalkTypes
  BY DEF Requests, TalkInv
<1>2. Answered' = Answered
  <2>1. q \notin Answered'
    BY <1>1, Changed DEF Answered, At, Pendings, Ended
  <2>2. /\ \A r \in Answered : r \in Answered'
        /\ Answered' \subseteq Answered \cup {q}
    BY <1>1, Changed
  <2> QED BY <2>1, <2>2
<1>3. SameAnswers
  BY <1>1, Changed DEF SameAnswers
<1>4. WholesAreThreaded'
  <2> SUFFICES ASSUME NEW p \in DOMAIN requests', requests'[p] # Ended
               PROVE  IsThreaded(requests[p].whole)' /\ IsEnd(requests[p].thread, requests[p].whole)'
    BY DEF WholesAreThreaded
  <2>1. p \in DOMAIN requests /\ requests[p] # Ended
        /\ requests'[p].thread = requests[p].thread /\ requests'[p].whole = requests[p].whole
    BY <1>1, Changed, Kinds
  <2>2. IsThreaded(requests[p].whole) /\ IsEnd(requests[p].thread, requests[p].whole)
    BY <2>1 DEF OwnInv, WholesAreThreaded
  <2> QED BY <1>3, <2>1, <2>2, StaysThreaded DEF IsEnd
<1>5. AnswersAreOwn'
  BY <1>2, <1>3 DEF OwnInv, AnswersAreOwn, Context, SameAnswers, Outputs
<1>6. RecordsAreOwn'
  <2>1. \A r \in DOMAIN records : r \in Answered
    BY DEF TalkInv, RecordsAreTrue
  <2> QED BY <1>3, <2>1 DEF OwnInv, RecordsAreOwn, OwnHistory, SameAnswers
<1>7. ASSUME NEW p \in Pending' PROVE AskedOwn(p)' /\ RoutedOwn(p)' /\ SentOwn(p)'
  <2>1. CASE p = q
    <3>1. requests'[q] = new /\ new \in Pendings
      BY <2>1, <1>1, <1>7, Changed DEF Pending
    <3>2. AskedOwn(q) /\ requests[q].named # None => requests[q].named \in Answered
      BY DEF OwnInv, TalkInv, Sound, AskedWell
    <3>3. AskedOwn(q)
      BY DEF OwnInv
    <3>4. AskedOwn(q)'
      BY <1>3, <3>1, <3>2, <3>3 DEF AskedOwn, SameAnswers
    <3> QED BY <2>1, <3>1, <3>4
  <2>2. CASE p # q
    <3>1. p \in Pending /\ requests'[p] = requests[p]
      BY <2>2, <1>1, <1>7, Changed DEF Pending
    <3> QED BY <1>3, <3>1, StaysOwn DEF OwnInv
  <2> QED BY <2>1, <2>2
<1> QED BY <1>4, <1>5, <1>6, <1>7 DEF OwnInv

LEMMA OwnEnd ==
  ASSUME TalkInv, OwnInv, NEW q \in Pending, NEW stream, End(q, stream),
         \A r \in DOMAIN records' : r \in DOMAIN records /\ records'[r] = records[r]
  PROVE  OwnInv'
<1>1. Ended \notin Pendings /\ Only(q, Ended)
  BY DEF Ended, Pendings, End, Only
<1> QED BY <1>1, OwnMoved

LEMMA OwnRouted ==
  ASSUME TalkInv, OwnInv, NEW q \in Pending, NEW new \in Pendings, Only(q, new),
         new.at = "open",
         new.thread = requests[q].thread, new.whole = requests[q].whole,
         new.sent = requests[q].sent, new.named = requests[q].named,
         OwnRoute(new.route, requests[q].sent, requests[q].whole),
         new.via = "socket" => new.route.how # "fallback",
         \A r \in DOMAIN records' : r \in DOMAIN records /\ records'[r] = records[r]
  PROVE  OwnInv'
<1>1. /\ requests'[q] = new
      /\ \A p \in Answered : p \in Answered' /\ requests'[p] = requests[p]
  BY Changed DEF Requests, TalkInv
<1>2. RoutedOwn(q)'
  BY <1>1 DEF RoutedOwn, OwnRoute, Context
<1>3. SentOwn(q)'
  BY <1>1 DEF SentOwn
<1> QED BY <1>2, <1>3, OwnMoved

LEMMA OwnSent ==
  ASSUME TalkInv, OwnInv, NEW q \in Pending, requests[q].at = "open",
         NEW a \in Accounts, NEW given \in Transcripts, Sent(q, a, a, given),
         IsPart(requests[q].sent, given), IsPart(given, requests[q].whole),
         IsPart(Route(q).input, given), UNCHANGED records
  PROVE  OwnInv'
<1> DEFINE new == [requests[q] EXCEPT !.at = "answering", !.account = a,
                                      !.over = a, !.given = given]
<1>1. requests[q] \in Pendings
  BY DEF Pending
<1>2. new \in Pendings /\ Only(q, new)
  BY <1>1 DEF Sent, Only, Pendings
<1>3. /\ requests'[q] = new
      /\ \A p \in Answered : p \in Answered' /\ requests'[p] = requests[p]
  BY <1>2, Changed DEF Requests, TalkInv
<1>4. /\ new.route = Route(q) /\ new.sent = requests[q].sent /\ new.named = requests[q].named
      /\ new.via = requests[q].via /\ new.thread = requests[q].thread
      /\ new.whole = requests[q].whole /\ new.given = given
  BY <1>1 DEF Pendings, Route
<1> HIDE DEF new
<1>5. RoutedOwn(q)'
  <2>1. RoutedOwn(q)
    BY DEF OwnInv
  <2> QED BY <1>3, <1>4, <2>1 DEF RoutedOwn, OwnRoute, Context, Route
<1>6. SentOwn(q)'
  BY <1>3, <1>4 DEF SentOwn
<1> QED BY <1>2, <1>4, <1>5, <1>6, OwnMoved

-----------------------------------------------------------------------------
(* The actions.                                                            *)

\* What continues a record continues the conversation of its response.
LEMMA RecordIsPart ==
  ASSUME TalkInv, OwnInv, NEW r \in DOMAIN records
  PROVE  /\ r \in Answered /\ records[r].history \in Transcripts
         /\ Context(r) \in Transcripts /\ requests[r].whole \in Transcripts
         /\ IsPart(records[r].history, Context(r))
         /\ IsPart(Context(r), requests[r].whole)
         /\ IsPart(records[r].history, requests[r].whole)
<1>1. r \in Answered /\ records[r] \in RecordType /\ requests[r] \in Answers
  BY Kinds DEF TalkInv, RecordsAreTrue, Answered, At
<1>2. /\ requests[r].given \in Transcripts /\ requests[r].output \in Transcripts
      /\ requests[r].whole \in Transcripts /\ records[r].history \in Transcripts
  BY <1>1 DEF Answers, RecordType
<1>3. PICK x \in Transcripts : /\ records[r].history = x \o requests[r].output
                               /\ IsPart(x, requests[r].given)
  BY DEF OwnInv, RecordsAreOwn, OwnHistory
<1>4. IsPart(records[r].history, Context(r)) /\ Context(r) \in Transcripts
  <2> DEFINE given == requests[r].given
             output == requests[r].output
  <2>1. given \in Transcripts /\ output \in Transcripts /\ Context(r) = given \o output
        /\ records[r].history = x \o output /\ IsPart(x, given)
    BY <1>2, <1>3 DEF Context
  <2> HIDE DEF given, output
  <2>2. given \o output \in Transcripts
    BY <2>1, ConcatType
  <2>3. IsPart(x \o output, given \o output)
    BY <1>3, <2>1, PartExtends
  <2> QED BY <2>1, <2>2, <2>3
<1>5. IsPart(Context(r), requests[r].whole)
  BY <1>1 DEF OwnInv, AnswersAreOwn
<1> QED BY <1>1, <1>2, <1>4, <1>5, PartTransitive

\* A transcript that begins, after what its client dropped, with the history
\* of a record belongs to the conversation of that response.
LEMMA HistoryIsOfItsResponse ==
  ASSUME TalkInv, OwnInv, NEW r \in DOMAIN records
  PROVE  \A whole, before, rest \in Transcripts :
           IsThreaded(whole) /\ whole = before \o (records[r].history \o rest)
             => whole = requests[r].whole \o rest
<1> TAKE whole, before, rest \in Transcripts
<1> HAVE IsThreaded(whole) /\ whole = before \o (records[r].history \o rest)
<1>1. r \in Answered /\ r \in Nat /\ requests[r] \in Answers
      /\ records[r].history \in Transcripts
  BY RecordIsFresh, RecordIsPart, Kinds DEF TalkInv, Answered, At
<1> DEFINE output == requests[r].output
           s == before \o records[r].history
           n == Len(s)
<1>2. output \in Transcripts /\ output \in Outputs(r)
  BY <1>1 DEF Answers, OwnInv, AnswersAreOwn
<1>3. PICK x \in Transcripts : records[r].history = x \o output
  BY DEF OwnInv, RecordsAreOwn, OwnHistory
<1>4. s \in Transcripts /\ s = (before \o x) \o output /\ before \o x \in Transcripts
  <2> HIDE DEF output
  <2>1. (before \o x) \o output = before \o (x \o output) /\ before \o x \in Transcripts
    <3>1. x \in Transcripts /\ output \in Transcripts
      BY <1>2, <1>3
    <3>2. (before \o x) \o output = before \o (x \o output)
      BY <3>1, Assoc, SMTT(30)
    <3>3. before \o x \in Transcripts
      BY <3>1, ConcatType, Zenon
    <3> QED BY <3>2, <3>3
  <2>2. s = before \o (x \o output)
    BY <1>3
  <2>3. s \in Transcripts
    BY <1>1, ConcatType
  <2> QED BY <2>1, <2>2, <2>3, Zenon
<1>5. whole = s \o rest
  <2>1. (before \o records[r].history) \o rest = before \o (records[r].history \o rest)
    <3>1. ASSUME NEW t \in Transcripts
          PROVE  (before \o t) \o rest = before \o (t \o rest)
      BY Assoc, SMTT(30)
    <3> QED BY <1>1, <3>1, Zenon
  <2> QED BY <2>1, Zenon
<1>6. /\ Len(output) \in Nat /\ Len(output) >= 1
      /\ IsModelItem(output[Len(output)]) /\ output[Len(output)].of = r
  <2> DEFINE a == Item("assistant", r)
             b == Item("reasoning", r)
             c == Item("call", r)
  <2>1. output = <<a>> \/ output = <<b, c>>
    BY <1>2 DEF Outputs
  <2>2. \A y \in {a, c} : IsModelItem(y) /\ y.of = r
    BY DEF Item, IsModelItem
  <2> HIDE DEF a, b, c, output
  <2>3. Len(output) \in Nat /\ Len(output) >= 1 /\ output[Len(output)] \in {a, c}
    <3>1. CASE output = <<a>>
      BY <3>1
    <3>2. CASE output = <<b, c>>
      BY <3>2
    <3> QED BY <2>1, <3>1, <3>2
  <2> QED BY <2>2, <2>3
<1> HIDE DEF output, s
<1>7. n \in 1 .. Len(s) /\ s[n] = output[Len(output)]
  <2> DEFINE y == before \o x
  <2>1. y \in Transcripts /\ s = y \o output
    BY <1>4
  <2> HIDE DEF y
  <2>2. /\ Len(s) = Len(y) + Len(output) /\ Len(y) \in Nat
        /\ \A i \in 1 .. Len(output) : s[Len(y) + i] = output[i]
    BY <1>2, <2>1, ConcatProperties, SMTT(30) DEF Transcripts
  <2>3. Len(output) \in 1 .. Len(output)
    BY <1>6
  <2> QED BY <1>6, <2>2, <2>3
<1>8. n \in DOMAIN whole /\ whole[n] = s[n] /\ SubSeq(whole, 1, n) = SubSeq(s, 1, n)
  <2>1. DOMAIN whole = 1 .. Len(whole)
    BY DEF Transcripts
  <2> HIDE DEF n
  <2> QED BY <1>4, <1>5, <1>7, <2>1, PrefixOf
<1>9. SubSeq(s, 1, n) = s
  BY <1>4, WholePrefix
<1>10. SubSeq(whole, 1, n) = requests[r].whole
  BY <1>6, <1>7, <1>8 DEF IsThreaded
<1> QED BY <1>5, <1>8, <1>9, <1>10

LEMMA OwnGet ==
  ASSUME TalkInv, OwnInv, NEW q \in DOMAIN requests, Get(q)
  PROVE  OwnInv'
<1> DEFINE r == requests[q].named
           sent == requests[q].sent
           whole == requests[q].whole
<1>1. q \in Pending /\ requests[q] \in Pendings /\ sent \in Transcripts
  BY Kinds DEF Get, TalkInv, Pending, Pendings
<1>2. UNCHANGED records
  BY DEF Get
<1>3. CASE End(q, socket.stream)
  BY <1>1, <1>2, <1>3, OwnEnd
<1>4. CASE requests' = [requests EXCEPT ![q].at = "late"]
  <2> DEFINE new == [requests[q] EXCEPT !.at = "late"]
  <2>1. new \in Pendings /\ Only(q, new)
    BY <1>1, <1>4 DEF Pendings, Only
  <2>2. requests'[q] = new
    BY <2>1, <1>1, Changed DEF Requests, TalkInv
  <2>3. RoutedOwn(q)' /\ SentOwn(q)'
    BY <1>1, <2>2 DEF RoutedOwn, SentOwn, Pendings
  <2> QED BY <1>1, <1>2, <2>1, <2>3, OwnMoved DEF Pendings
<1>5. CASE r \in DOMAIN records /\ Opens(q, ResolveExplicit(r, sent))
  <2> DEFINE route == ResolveExplicit(r, sent)
             new == [requests[q] EXCEPT !.at = "open", !.route = route]
  <2>1. records[r] \in RecordType /\ r \in Nat
    BY <1>5, RecordIsFresh DEF TalkInv, RecordsAreTrue
  <2>2. route \in Routes
    BY <1>1, <2>1, ExplicitType
  <2>3. /\ route.how = "explicit" /\ route.prev = r /\ route.input = sent
        /\ route.full = records[r].history \o sent
    BY DEF ResolveExplicit
  <2>4. /\ r \in Answered /\ records[r].history \in Transcripts
        /\ Context(r) \in Transcripts /\ requests[r].whole \in Transcripts
        /\ IsPart(Context(r), requests[r].whole)
        /\ IsPart(records[r].history, requests[r].whole)
    BY <1>5, RecordIsPart
  <2>5. whole = requests[r].whole \o sent
    <3>1. AskedOwn(q) /\ r # None
      BY <1>1 DEF OwnInv, Get
    <3> QED BY <3>1 DEF AskedOwn
  <2>6. /\ IsPart(sent, records[r].history \o sent) /\ IsPart(sent, Context(r) \o sent)
        /\ IsPart(records[r].history \o sent, requests[r].whole \o sent)
        /\ IsPart(Context(r) \o sent, requests[r].whole \o sent)
    BY <1>1, <2>4, PartIsEnd, PartExtends
  <2> HIDE DEF route, r, sent, whole
  <2>7. OwnRoute(route, sent, whole)
    BY <2>3, <2>4, <2>5, <2>6 DEF OwnRoute
  <2>8. new \in Pendings /\ Only(q, new)
    BY <1>1, <1>5, <2>2 DEF Pendings, Only, Opens, route
  <2>9. new.route = route /\ new.at = "open" /\ new.sent = sent /\ new.whole = whole
        /\ new.thread = requests[q].thread /\ new.named = requests[q].named
        /\ new.route.how = "explicit"
    BY <1>1, <2>3 DEF Pendings, sent, whole
  <2> HIDE DEF new
  <2> QED BY <1>1, <1>2, <2>7, <2>8, <2>9, OwnRouted DEF sent, whole
<1> QED BY <1>3, <1>4, <1>5 DEF Get

LEMMA OwnGetDeletes ==
  ASSUME TalkInv, OwnInv, NEW q \in DOMAIN requests, GetDeletes(q)
  PROVE  OwnInv'
<1>1. q \in Pending
  BY Kinds DEF GetDeletes, TalkInv
<1> QED BY <1>1, OwnEnd DEF GetDeletes, Drop

LEMMA ImplicitIsOwn ==
  ASSUME TalkInv, OwnInv, NEW q \in Pending, NEW r \in DOMAIN records,
         Continues(requests[q].sent, records[r])
  PROVE  OwnRoute(Implicit(r, requests[q].sent), requests[q].sent, requests[q].whole)
<1> DEFINE sent == requests[q].sent
           thread == requests[q].thread
           whole == requests[q].whole
           history == records[r].history
           route == Implicit(r, sent)
           rest == route.input
<1>1. /\ requests[q] \in Pendings /\ requests[q] # Ended /\ q \in DOMAIN requests
      /\ sent \in Transcripts /\ thread \in Transcripts /\ whole \in Transcripts
  BY Kinds DEF Pending, Pendings, TalkInv
<1>2. /\ r \in Answered /\ history \in Transcripts
      /\ Context(r) \in Transcripts /\ requests[r].whole \in Transcripts
      /\ IsPart(history, Context(r)) /\ IsPart(Context(r), requests[r].whole)
  BY RecordIsPart
<1>3. route.how = "implicit" /\ route.prev = r /\ route.full = sent
  BY DEF Implicit
<1>4. rest \in Transcripts /\ sent = history \o rest
  <2> DEFINE n == Len(history)
  <2>1. n \in Nat /\ n <= Len(sent) /\ SubSeq(sent, 1, n) = history /\ Len(sent) \in Nat
    BY <1>1, <1>2 DEF Continues, IsStrictPrefix, IsPrefix, Transcripts
  <2>2. rest = SubSeq(sent, n + 1, Len(sent))
    BY DEF Implicit, Suffix
  <2> HIDE DEF n, sent, history, rest
  <2>3. n \in 0 .. Len(sent)
    BY <2>1
  <2>4. /\ SubSeq(sent, n + 1, Len(sent)) \in Transcripts
        /\ sent = SubSeq(sent, 1, n) \o SubSeq(sent, n + 1, Len(sent))
    BY <1>1, <2>3, SplitAt
  <2> QED BY <2>1, <2>2, <2>4, Zenon
<1>5. PICK before \in Transcripts : whole = before \o sent
  <2>1. IsEnd(sent, thread) /\ IsEnd(thread, whole)
    BY <1>1 DEF OwnInv, AskedOwn, WholesAreThreaded
  <2> HIDE DEF sent, thread, whole
  <2>2. /\ sent \in Transcripts /\ thread \in Transcripts /\ whole \in Transcripts
    BY <1>1
  <2>3. IsEnd(sent, whole)
    BY <2>1, <2>2, EndTransitive, Zenon
  <2> QED BY <2>3, Zenon DEF IsEnd
<1>6. whole = requests[r].whole \o rest
  <2>1. IsThreaded(whole)
    BY <1>1 DEF OwnInv, WholesAreThreaded
  <2>2. whole = before \o (records[r].history \o rest)
    BY <1>4, <1>5
  <2> HIDE DEF whole, rest, sent, route, history
  <2>3. whole \in Transcripts /\ rest \in Transcripts /\ before \in Transcripts
    BY <1>1, <1>4, <1>5
  <2> QED BY <2>1, <2>2, <2>3, HistoryIsOfItsResponse
<1>7. /\ IsPart(history \o rest, Context(r) \o rest)
      /\ IsPart(Context(r) \o rest, requests[r].whole \o rest)
      /\ IsPart(rest, history \o rest)
      /\ IsPart(sent, before \o sent)
      /\ IsPart(sent, sent)
  <2> HIDE DEF sent, history, rest
  <2> QED BY <1>1, <1>2, <1>4, PartExtends, PartIsEnd, PartOfItself
<1> HIDE DEF sent, history, rest, route, whole
<1>8. OwnRoute(route, sent, whole)
  BY <1>2, <1>3, <1>4, <1>5, <1>6, <1>7 DEF OwnRoute, rest
<1> QED BY <1>8 DEF route, sent, whole

LEMMA PlainIsOwn ==
  ASSUME TalkInv, OwnInv, NEW q \in Pending
  PROVE  OwnRoute(Plain(requests[q].settings, requests[q].sent),
                  requests[q].sent, requests[q].whole)
<1> DEFINE sent == requests[q].sent
           thread == requests[q].thread
           whole == requests[q].whole
           route == Plain(requests[q].settings, sent)
<1>1. /\ requests[q] # Ended /\ q \in DOMAIN requests
      /\ sent \in Transcripts /\ thread \in Transcripts /\ whole \in Transcripts
  BY Kinds DEF Pending, Pendings, TalkInv
<1>2. route.how = "plain" /\ route.full = sent /\ route.input = sent
  BY DEF Plain
<1>3. IsPart(sent, whole) /\ IsPart(sent, sent)
  <2>1. IsEnd(sent, thread) /\ IsEnd(thread, whole)
    BY <1>1 DEF OwnInv, AskedOwn, WholesAreThreaded
  <2> HIDE DEF sent, thread, whole
  <2> QED BY <1>1, <2>1, EndTransitive, EndIsPart, PartOfItself
<1> HIDE DEF route, sent, whole
<1>4. OwnRoute(route, sent, whole)
  BY <1>2, <1>3 DEF OwnRoute
<1> QED BY <1>4 DEF route, sent, whole

LEMMA OwnResolve ==
  ASSUME TalkInv, TalkInv', OwnInv, NEW q \in DOMAIN requests, Resolve(q)
  PROVE  OwnInv'
<1>1. q \in Pending /\ requests[q] \in Pendings
  BY Kinds DEF Resolve, TalkInv, Pending
<1>2. PICK route : /\ Opens(q, route)
                   /\ \/ route = Plain(requests[q].settings, requests[q].sent)
                      \/ \E r \in DOMAIN records :
                           /\ Continues(requests[q].sent, records[r])
                           /\ route = Implicit(r, requests[q].sent)
  BY ImplicitIsOfARecord DEF Resolve
<1>3. \A r \in DOMAIN records' : r \in DOMAIN records /\ records'[r] = records[r]
  BY DropExpiredKeeps DEF Resolve
<1>4. /\ OwnRoute(route, requests[q].sent, requests[q].whole)
      /\ route.how # "fallback"
  <2>1. CASE route = Plain(requests[q].settings, requests[q].sent)
    BY <1>1, <2>1, PlainIsOwn DEF Plain
  <2>2. CASE \E r \in DOMAIN records :
                /\ Continues(requests[q].sent, records[r])
                /\ route = Implicit(r, requests[q].sent)
    BY <1>1, <2>2, ImplicitIsOwn DEF Implicit
  <2> QED BY <1>2, <2>1, <2>2
<1> DEFINE new == [requests[q] EXCEPT !.at = "open", !.route = route]
<1>5. Only(q, new)
  BY <1>1, <1>2 DEF Only, Opens, Pendings
<1>6. new \in Pendings
  <2>1. requests'[q] = new /\ q \in DOMAIN requests'
    BY <1>5 DEF Only, Pending
  <2>2. new.at = "open"
    BY <1>1 DEF Pendings
  <2> HIDE DEF new
  <2>3. new \in Requests
    BY <2>1 DEF TalkInv, TalkTypes
  <2> QED BY <2>2, <2>3 DEF Requests, Answers, Ended
<1>7. /\ new.at = "open" /\ new.thread = requests[q].thread /\ new.whole = requests[q].whole
      /\ new.sent = requests[q].sent /\ new.named = requests[q].named /\ new.route = route
  BY <1>1 DEF Pendings
<1> HIDE DEF new
<1> QED BY <1>1, <1>3, <1>4, <1>5, <1>6, <1>7, OwnRouted

LEMMA OpenIsOwn ==
  ASSUME TalkInv, OwnInv, NEW q \in DOMAIN requests, requests[q].at = "open"
  PROVE  /\ q \in Pending /\ requests[q] \in Pendings
         /\ Route(q) \in Routes
         /\ Route(q).how \in {"explicit", "implicit"} =>
              Route(q).preferred \in Accounts /\ Context(Route(q).prev) \in Transcripts
         /\ requests[q].sent \in Transcripts /\ requests[q].whole \in Transcripts
         /\ OwnRoute(Route(q), requests[q].sent, requests[q].whole)
         /\ requests[q].via = "socket" => Route(q).how # "fallback"
<1>1. /\ q \in Pending /\ requests[q] \in Pendings
      /\ Route(q) \in Routes
      /\ Route(q).how \in {"explicit", "implicit"} =>
           Route(q).preferred \in Accounts /\ Context(Route(q).prev) \in Transcripts
  BY RouteTypes
<1>2. RoutedOwn(q)
  BY <1>1 DEF OwnInv
<1>3. requests[q].sent \in Transcripts /\ requests[q].whole \in Transcripts
  BY <1>1 DEF Pendings
<1> QED BY <1>1, <1>2, <1>3 DEF RoutedOwn, Route

LEMMA OwnOpenHttp ==
  ASSUME TalkInv, OwnInv, NEW q \in DOMAIN requests, OpenHttp(q)
  PROVE  OwnInv'
<1>1. PICK a \in Accounts : Sent(q, a, a, Route(q).full)
  BY DEF OpenHttp
<1>2. requests[q].at = "open" /\ UNCHANGED records
  BY DEF OpenHttp
<1>3. /\ q \in Pending /\ Route(q).full \in Transcripts
      /\ OwnRoute(Route(q), requests[q].sent, requests[q].whole)
  BY <1>2, OpenIsOwn DEF Routes
<1> QED BY <1>1, <1>2, <1>3, OwnSent DEF OwnRoute

LEMMA OwnOpenWs ==
  ASSUME TalkInv, OwnInv, NEW q \in DOMAIN requests, OpenWs(q)
  PROVE  OwnInv'
<1> DEFINE a == Route(q).preferred
           context == Context(Route(q).prev)
           input == Route(q).input
<1>1. /\ requests[q].at = "open" /\ Route(q).how = "implicit"
      /\ UNCHANGED records /\ Sent(q, a, a, context \o input)
  BY DEF OpenWs
<1>2. /\ q \in Pending /\ a \in Accounts /\ context \in Transcripts /\ input \in Transcripts
      /\ OwnRoute(Route(q), requests[q].sent, requests[q].whole)
  BY <1>1, OpenIsOwn DEF Routes
<1>3. IsPart(requests[q].sent, context \o input) /\ IsPart(context \o input, requests[q].whole)
  BY <1>1, <1>2 DEF OwnRoute
<1>4. IsPart(input, context \o input) /\ context \o input \in Transcripts
  <2> HIDE DEF context, input
  <2> QED BY <1>2, PartIsEnd, ConcatType
<1> QED BY <1>1, <1>2, <1>3, <1>4, OwnSent

LEMMA OwnSend ==
  ASSUME TalkInv, OwnInv, NEW q \in DOMAIN requests, Send(q)
  PROVE  OwnInv'
<1> DEFINE input == Route(q).input
           before == IF Pinned(q) THEN Context(Route(q).prev) ELSE <<>>
           given == before \o input
<1>1. PICK a \in (IF Pinned(q) THEN {Route(q).preferred} ELSE Accounts) :
        LET over == IF socket.stream # a THEN a ELSE socket.stream
        IN  /\ Sent(q, a, over, SocketContext(q))
            /\ socket' = [socket EXCEPT !.stream = over]
  BY DEF Send
<1>2. /\ requests[q].at = "open" /\ requests[q].via = "socket" /\ UNCHANGED records
      /\ Sent(q, a, a, given)
  BY <1>1 DEF Send, SocketContext
<1>3. /\ q \in Pending /\ a \in Accounts /\ before \in Transcripts /\ input \in Transcripts
      /\ OwnRoute(Route(q), requests[q].sent, requests[q].whole)
      /\ Route(q).how # "fallback" /\ Route(q) \in Routes
  <2>1. <<>> \in Transcripts
    BY DEF Transcripts
  <2> QED BY <2>1, <1>1, <1>2, OpenIsOwn DEF Routes, Pinned
<1>4. IsPart(input, given) /\ given \in Transcripts
  <2> HIDE DEF before, input
  <2> QED BY <1>3, PartIsEnd, ConcatType
<1>5. IsPart(requests[q].sent, given) /\ IsPart(given, requests[q].whole)
  <2>1. CASE Pinned(q)
    BY <1>3, <2>1 DEF OwnRoute, Pinned
  <2>2. CASE ~Pinned(q)
    <3>1. Route(q).how = "plain"
      BY <1>3, <2>2 DEF Pinned, Routes
    <3>2. given = input
      <4>1. given = <<>> \o input
        BY <2>2
      <4> HIDE DEF input, given
      <4> QED BY <1>3, <4>1, ConcatEmptySeq DEF Transcripts
    <3> HIDE DEF given
    <3> QED BY <1>3, <3>1, <3>2 DEF OwnRoute
  <2> QED BY <2>1, <2>2
<1> HIDE DEF given
<1> QED BY <1>2, <1>3, <1>4, <1>5, OwnSent

LEMMA OwnFallBack ==
  ASSUME TalkInv, OwnInv, NEW q \in DOMAIN requests, FallBack(q)
  PROVE  OwnInv'
<1> DEFINE route == [Route(q) EXCEPT !.how = "fallback"]
           new == [requests[q] EXCEPT !.route = route]
<1>1. /\ requests[q].at = "open" /\ requests[q].via = "http" /\ UNCHANGED records
  BY DEF FallBack
<1>2. /\ q \in Pending /\ requests[q] \in Pendings /\ Route(q) \in Routes
      /\ OwnRoute(Route(q), requests[q].sent, requests[q].whole)
  BY <1>1, OpenIsOwn
<1>3. route \in Routes /\ OwnRoute(route, requests[q].sent, requests[q].whole)
  BY <1>2 DEF Routes, OwnRoute
<1>4. Only(q, new)
  BY <1>2 DEF FallBack, Only, Pendings, Route
<1> HIDE DEF route
<1>5. /\ new \in Pendings /\ new.at = "open" /\ new.via # "socket" /\ new.route = route
      /\ new.thread = requests[q].thread /\ new.whole = requests[q].whole
      /\ new.sent = requests[q].sent /\ new.named = requests[q].named
  BY <1>1, <1>2, <1>3 DEF Pendings
<1> HIDE DEF new
<1> QED BY <1>1, <1>2, <1>3, <1>4, <1>5, OwnRouted

LEMMA OwnStrip ==
  ASSUME TalkInv, OwnInv, NEW q \in DOMAIN requests, Strip(q)
  PROVE  OwnInv'
<1> DEFINE old == Route(q).full
           full == Stripped(old)
           route == [Route(q) EXCEPT !.how = "plain", !.prev = None,
                                     !.input = full, !.full = full]
           new == [requests[q] EXCEPT !.stripped = TRUE, !.route = route]
           sent == requests[q].sent
           whole == requests[q].whole
<1>1. /\ requests[q].at = "open" /\ requests[q].via = "http" /\ UNCHANGED records
  BY DEF Strip
<1>2. /\ q \in Pending /\ requests[q] \in Pendings /\ Route(q) \in Routes
      /\ sent \in Transcripts /\ whole \in Transcripts
      /\ OwnRoute(Route(q), sent, whole)
  BY <1>1, OpenIsOwn
<1>3. old \in Transcripts /\ full \in Transcripts /\ IsPart(old, full) /\ IsPart(full, old)
  BY <1>2, StrippedType, PartStripped DEF Routes
<1>4. IsPart(sent, old) /\ IsPart(old, whole)
  BY <1>2 DEF OwnRoute
<1>5. Only(q, new)
  BY <1>2 DEF Strip, Only, Pendings, Route
<1> HIDE DEF full, old, sent, whole
<1>6. IsPart(sent, full) /\ IsPart(full, whole) /\ IsPart(full, full)
  BY <1>2, <1>3, <1>4, PartTransitive
<1>7. /\ route \in Routes /\ route.how = "plain" /\ route.input = full /\ route.full = full
  BY <1>2, <1>3 DEF Routes, Ids0
<1> HIDE DEF route
<1>8. OwnRoute(route, sent, whole)
  BY <1>6, <1>7 DEF OwnRoute
<1>9. /\ new \in Pendings /\ new.at = "open" /\ new.via # "socket" /\ new.route = route
      /\ new.thread = requests[q].thread /\ new.whole = requests[q].whole
      /\ new.sent = requests[q].sent /\ new.named = requests[q].named
  BY <1>1, <1>2, <1>7 DEF Pendings
<1> HIDE DEF new
<1> QED BY <1>1, <1>2, <1>5, <1>8, <1>9, OwnRouted DEF sent, whole

LEMMA OwnFail ==
  ASSUME TalkInv, OwnInv, NEW q \in DOMAIN requests, OpenFails(q) \/ SendFails(q) \/ Breaks(q)
  PROVE  OwnInv'
<1>1. q \in Pending
  BY Kinds DEF TalkInv, OpenFails, SendFails, Breaks
<1>2. UNCHANGED records /\ \E stream \in {None, socket.stream} : End(q, stream)
  BY DEF OpenFails, SendFails, Breaks
<1> QED BY <1>1, <1>2, OwnEnd

\* A transcript of the conversation so far and a response to it.
LEMMA AnswerIsThreaded ==
  ASSUME NEW q \in Nat, NEW whole \in Transcripts, NEW output \in Outputs(q)
  PROVE  \A i \in DOMAIN (whole \o output) :
           IsModelItem((whole \o output)[i]) =>
             \/ /\ i \in DOMAIN whole /\ (whole \o output)[i] = whole[i]
                /\ SubSeq(whole \o output, 1, i) = SubSeq(whole, 1, i)
             \/ /\ (whole \o output)[i].of = q
                /\ SubSeq(whole \o output, 1, i) = whole \o output
<1> SUFFICES ASSUME NEW i \in DOMAIN (whole \o output), IsModelItem((whole \o output)[i])
             PROVE  \/ /\ i \in DOMAIN whole /\ (whole \o output)[i] = whole[i]
                       /\ SubSeq(whole \o output, 1, i) = SubSeq(whole, 1, i)
                    \/ /\ (whole \o output)[i].of = q
                       /\ SubSeq(whole \o output, 1, i) = whole \o output
  OBVIOUS
<1> DEFINE a == Item("assistant", q)
           b == Item("reasoning", q)
           c == Item("call", q)
<1>1. output = <<a>> \/ output = <<b, c>>
  BY DEF Outputs
<1>2. /\ a \in ItemType /\ b \in ItemType /\ c \in ItemType
      /\ a.of = q /\ c.of = q /\ ~IsModelItem(b)
  BY DEF Item, ItemType, IsModelItem
<1> HIDE DEF a, b, c
<1>3. output \in Transcripts /\ Len(output) \in Nat /\ Len(whole) \in Nat
  <2>1. \A x, y, z \in ItemType : <<x>> \in Seq(ItemType) /\ <<y, z>> \in Seq(ItemType)
    OBVIOUS
  <2>2. output \in Transcripts
    BY <1>1, <1>2, <2>1 DEF Transcripts
  <2> QED BY <2>2 DEF Transcripts
<1>4. /\ whole \o output \in Transcripts
      /\ Len(whole \o output) = Len(whole) + Len(output)
      /\ \A k \in 1 .. Len(output) : (whole \o output)[Len(whole) + k] = output[k]
  BY <1>3, ConcatProperties DEF Transcripts
<1>5. i \in 1 .. Len(whole) + Len(output)
  BY <1>4 DEF Transcripts
<1>6. CASE i <= Len(whole)
  <2>1. i \in 1 .. Len(whole) /\ DOMAIN whole = 1 .. Len(whole)
    BY <1>3, <1>5, <1>6 DEF Transcripts
  <2> QED BY <1>3, <2>1, PrefixOf
<1>7. CASE i > Len(whole)
  <2>1. PICK k \in 1 .. Len(output) : i = Len(whole) + k
    <3>1. i - Len(whole) \in 1 .. Len(output) /\ i = Len(whole) + (i - Len(whole))
      BY <1>3, <1>5, <1>7
    <3> QED BY <3>1
  <2>2. IsModelItem(output[k]) /\ (whole \o output)[i] = output[k]
    BY <1>4, <2>1
  <2>3. k = Len(output) /\ output[k].of = q
    <3>1. CASE output = <<a>>
      BY <1>2, <2>1, <3>1
    <3>2. CASE output = <<b, c>>
      BY <1>2, <2>1, <2>2, <3>2
    <3> QED BY <1>1, <3>1, <3>2
  <2>4. SubSeq(whole \o output, 1, i) = whole \o output
    <3> DEFINE w == whole \o output
    <3>1. i = Len(w) /\ w \in Transcripts
      BY <1>4, <2>1, <2>3
    <3> HIDE DEF w
    <3>2. SubSeq(w, 1, i) = w
      BY <3>1, WholePrefix
    <3> QED BY <3>2 DEF w
  <2> QED BY <2>2, <2>3, <2>4
<1>8. i <= Len(whole) \/ i > Len(whole)
  BY <1>3, <1>5
<1> QED BY <1>6, <1>7, <1>8, Zenon

\* A request is answered, whether or not its record is put with it.
LEMMA OwnAnswered ==
  ASSUME TalkInv, OwnInv, NEW q \in Pending, requests[q].at = "answering",
         NEW output \in Outputs(q), NEW due \in SUBSET {Route(q)}, NEW until,
         AnswerOf(q, output, due, until) \in Answers,
         Only(q, AnswerOf(q, output, due, until)),
         \A r \in DOMAIN records' :
           \/ r \in DOMAIN records /\ records'[r] = records[r]
           \/ r = q /\ records'[r].history = Route(q).input \o output
  PROVE  OwnInv'
<1> DEFINE whole == requests[q].whole
           thread == requests[q].thread
           given == requests[q].given
           input == Route(q).input
           new == AnswerOf(q, output, due, until)
<1>1. q \in Nat /\ requests[q] \in Pendings /\ TalkTypes /\ requests[q] # Ended
      /\ q \notin Answered /\ q \in DOMAIN requests
  BY Kinds DEF TalkInv, Pending
<1>2. output \in Transcripts /\ new \in Answers
  BY FinishedTypes
<1>3. /\ whole \in Transcripts /\ thread \in Transcripts /\ given \in Transcripts
      /\ input \in Transcripts
  BY <1>1, FinishedTypes DEF Pendings, Routes
<1>4. Only(q, new)
  BY DEF Only
<1>5. new.whole = whole \o output /\ new.thread = thread \o output
      /\ new.given = given /\ new.output = output /\ new.at = "answered"
      /\ new.due = due
  BY DEF AnswerOf
<1> HIDE DEF new, whole, thread, given, input
<1>6. /\ DOMAIN requests' = DOMAIN requests
      /\ requests'[q] = new
      /\ \A p \in DOMAIN requests : p # q => requests'[p] = requests[p]
      /\ \A r \in Answered : r # q /\ r \in Answered' /\ requests'[r] = requests[r]
      /\ Pending' \subseteq Pending
      /\ Answered' \subseteq Answered \cup {q}
      /\ q \notin Pending' /\ q \in Answered'
  <2>1. new \in Requests /\ new \notin Pendings
    BY <1>2, <1>5 DEF Requests, Pendings
  <2>2. /\ DOMAIN requests' = DOMAIN requests
        /\ requests'[q] = new
        /\ \A p \in DOMAIN requests : p # q => requests'[p] = requests[p]
        /\ \A r \in Answered : r # q /\ r \in Answered' /\ requests'[r] = requests[r]
        /\ Pending' \subseteq Pending
        /\ Answered' \subseteq Answered \cup {q}
    BY <1>1, <1>4, <2>1, Changed
  <2> QED BY <1>5, <2>1, <2>2 DEF Pending, Answered, At
<1>7. SameAnswers
  BY <1>6 DEF SameAnswers
<1>8. /\ IsThreaded(whole) /\ IsEnd(thread, whole)
      /\ IsPart(given, whole) /\ IsPart(input, given)
  BY <1>1 DEF OwnInv, WholesAreThreaded, SentOwn, Route, whole, thread, given, input
<1>9. WholesAreThreaded'
  <2> SUFFICES ASSUME NEW p \in DOMAIN requests', requests'[p] # Ended
               PROVE  /\ IsThreaded(requests[p].whole)'
                      /\ IsEnd(requests'[p].thread, requests'[p].whole)
    BY DEF WholesAreThreaded
  <2>1. CASE p = q
    <3>1. ASSUME NEW i \in DOMAIN (whole \o output), IsModelItem((whole \o output)[i])
          PROVE  /\ (whole \o output)[i].of \in Answered'
                 /\ SubSeq(whole \o output, 1, i)
                      = requests'[(whole \o output)[i].of].whole
      <4>1. CASE /\ i \in DOMAIN whole /\ (whole \o output)[i] = whole[i]
                 /\ SubSeq(whole \o output, 1, i) = SubSeq(whole, 1, i)
        BY <1>6, <1>8, <3>1, <4>1 DEF IsThreaded
      <4>2. CASE /\ (whole \o output)[i].of = q
                 /\ SubSeq(whole \o output, 1, i) = whole \o output
        BY <1>5, <1>6, <4>2
      <4>3. \/ /\ i \in DOMAIN whole /\ (whole \o output)[i] = whole[i]
               /\ SubSeq(whole \o output, 1, i) = SubSeq(whole, 1, i)
            \/ /\ (whole \o output)[i].of = q
               /\ SubSeq(whole \o output, 1, i) = whole \o output
        BY <1>1, <1>3, <3>1, AnswerIsThreaded
      <4> QED BY <4>1, <4>2, <4>3, Zenon
    <3>2. IsThreaded(requests[q].whole)'
      BY <1>5, <1>6, <3>1 DEF IsThreaded
    <3>3. IsEnd(requests'[q].thread, requests'[q].whole)
      BY <1>2, <1>3, <1>5, <1>6, <1>8, EndExtends
    <3> QED BY <2>1, <3>2, <3>3
  <2>2. CASE p # q
    <3>1. p \in DOMAIN requests /\ requests'[p] = requests[p]
      BY <1>6, <2>2
    <3>2. IsThreaded(requests[p].whole) /\ IsEnd(requests[p].thread, requests[p].whole)
      BY <3>1 DEF OwnInv, WholesAreThreaded
    <3> QED BY <1>7, <3>1, <3>2, StaysThreaded
  <2> QED BY <2>1, <2>2
<1>10. AnswersAreOwn'
  <2> SUFFICES ASSUME NEW r \in Answered'
               PROVE  /\ requests'[r].output \in Outputs(r)
                      /\ IsPart(requests'[r].given \o requests'[r].output,
                                requests'[r].whole)
                      /\ \A route \in requests'[r].due :
                           IsPart(route.input, requests'[r].given)
    BY DEF AnswersAreOwn, Context, Outputs
  <2>1. CASE r = q
    <3>1. IsPart(given \o output, whole \o output)
      BY <1>2, <1>3, <1>8, PartExtends
    <3>2. \A route \in due : IsPart(route.input, given)
      BY <1>8 DEF input
    <3> QED BY <1>5, <1>6, <2>1, <3>1, <3>2
  <2>2. CASE r # q
    <3>1. r \in Answered /\ requests'[r] = requests[r]
      BY <1>6, <2>2
    <3> QED BY <3>1 DEF OwnInv, AnswersAreOwn, Context
  <2> QED BY <2>1, <2>2
<1>11. RecordsAreOwn'
  <2> SUFFICES ASSUME NEW r \in DOMAIN records'
               PROVE  \E x \in Transcripts :
                        /\ records'[r].history = x \o requests'[r].output
                        /\ IsPart(x, requests'[r].given)
    BY DEF RecordsAreOwn, OwnHistory
  <2>1. CASE r = q
    <3>1. records'[q].history = input \o output
      BY <1>1, <2>1, Kinds DEF TalkInv, RecordsAreTrue, input
    <3> QED BY <1>3, <1>5, <1>6, <1>8, <2>1, <3>1
  <2>2. CASE r # q
    <3>1. r \in DOMAIN records /\ records'[r] = records[r]
      BY <2>2
    <3>2. r \in Answered
      BY <3>1 DEF TalkInv, RecordsAreTrue
    <3> QED BY <1>6, <3>1, <3>2 DEF OwnInv, RecordsAreOwn, OwnHistory
  <2> QED BY <2>1, <2>2
<1>12. ASSUME NEW p \in Pending' PROVE AskedOwn(p)' /\ RoutedOwn(p)' /\ SentOwn(p)'
  <2>1. p \in Pending /\ requests'[p] = requests[p]
    BY <1>6, <1>12 DEF Pending
  <2> QED BY <1>7, <2>1, StaysOwn DEF OwnInv
<1> QED BY <1>9, <1>10, <1>11, <1>12 DEF OwnInv

LEMMA OwnFinish ==
  ASSUME TalkInv, OwnInv, NEW q \in DOMAIN requests, Finish(q) \/ FinishStream(q)
  PROVE  OwnInv'
<1>1. q \in Pending /\ requests[q].at = "answering"
  BY Kinds DEF Finish, FinishStream, TalkInv
<1>2. CASE Finish(q)
  <2>1. CASE requests[q].via = "compact"
    BY <1>1, <1>2, <2>1, OwnEnd DEF Finish
  <2>2. CASE requests[q].via # "compact"
    <3>1. PICK output \in Outputs(q) :
            /\ requests' = [requests EXCEPT ![q] = AnswerOf(q, output, {}, now + Ttl)]
            /\ Keeps(q, Route(q), output)
      BY <1>2, <2>2 DEF Finish
    <3>2. AnswerOf(q, output, {}, now + Ttl) \in Answers
      BY <1>1, FinishedTypes
    <3>3. \A r \in DOMAIN records' :
            \/ r \in DOMAIN records /\ records'[r] = records[r]
            \/ r = q /\ records'[r].history = Route(q).input \o output
      BY <3>1 DEF Keeps, Put, Remembered
    <3> QED BY <1>1, <3>1, <3>2, <3>3, OwnAnswered DEF Only
  <2> QED BY <2>1, <2>2
<1>3. CASE FinishStream(q)
  <2>1. PICK output \in Outputs(q) :
          requests' = [requests EXCEPT ![q] = AnswerOf(q, output, {Route(q)}, None)]
    BY <1>3 DEF FinishStream
  <2>2. AnswerOf(q, output, {Route(q)}, None) \in Answers /\ UNCHANGED records
    BY <1>1, <1>3, FinishedTypes DEF FinishStream
  <2> QED BY <1>1, <2>1, <2>2, OwnAnswered DEF Only
<1> QED BY <1>2, <1>3

\* A request that begins.
LEMMA OwnBegin ==
  ASSUME TalkInv, OwnInv, NEW via, NEW settings,
         NEW named \in Answered \cup {None}, NEW follows,
         NEW sent \in Transcripts, NEW thread \in Transcripts, NEW whole \in Transcripts,
         Begin(via, settings, named, follows, sent, thread, whole),
         UNCHANGED records, IsThreaded(whole),
         IsEnd(sent, thread), IsEnd(thread, whole),
         named # None => whole = requests[named].whole \o sent
  PROVE  OwnInv'
<1> DEFINE n == Len(requests) + 1
           new == [at |-> "get", via |-> via, settings |-> settings, named |-> named,
                   follows |-> follows, sent |-> sent, thread |-> thread, whole |-> whole,
                   route |-> None, stripped |-> FALSE,
                   account |-> None, over |-> None, given |-> <<>>]
<1>1. requests \in Seq(Requests) /\ requests' = Append(requests, new)
  BY DEF TalkInv, TalkTypes, Begin
<1>2. /\ new.at = "get" /\ new.named = named /\ new.sent = sent
      /\ new.thread = thread /\ new.whole = whole
  OBVIOUS
<1> HIDE DEF new
<1>3. /\ DOMAIN requests' = DOMAIN requests \cup {n} /\ n \notin DOMAIN requests
      /\ requests'[n] = new
      /\ \A p \in DOMAIN requests : requests'[p] = requests[p]
  <2>1. requests \in Seq(Requests \cup {new})
    BY <1>1, SeqMonotonic
  <2> QED BY <1>1, <2>1, AppendProperties
<1> HIDE DEF n
<1>4. /\ Answered' = Answered
      /\ \A r \in Answered : r \in Answered' /\ requests'[r] = requests[r]
  BY <1>2, <1>3 DEF Answered, At
<1>5. SameAnswers
  BY <1>4 DEF SameAnswers
<1>6. WholesAreThreaded'
  <2> SUFFICES ASSUME NEW p \in DOMAIN requests', requests'[p] # Ended
               PROVE  /\ IsThreaded(requests[p].whole)'
                      /\ IsEnd(requests'[p].thread, requests'[p].whole)
    BY DEF WholesAreThreaded
  <2>1. CASE p = n
    BY <1>2, <1>3, <1>4, <2>1 DEF IsThreaded
  <2>2. CASE p # n
    <3>1. p \in DOMAIN requests /\ requests'[p] = requests[p]
      BY <1>3, <2>2
    <3>2. IsThreaded(requests[p].whole) /\ IsEnd(requests[p].thread, requests[p].whole)
      BY <3>1 DEF OwnInv, WholesAreThreaded
    <3> QED BY <1>5, <3>1, <3>2, StaysThreaded
  <2> QED BY <2>1, <2>2
<1>7. AnswersAreOwn'
  BY <1>4 DEF OwnInv, AnswersAreOwn, Context, Outputs
<1>8. RecordsAreOwn'
  <2>1. \A r \in DOMAIN records : r \in Answered
    BY DEF TalkInv, RecordsAreTrue
  <2> QED BY <1>4, <2>1 DEF OwnInv, RecordsAreOwn, OwnHistory
<1>9. ASSUME NEW p \in Pending' PROVE AskedOwn(p)' /\ RoutedOwn(p)' /\ SentOwn(p)'
  <2>1. CASE p = n
    BY <1>2, <1>3, <1>4, <2>1 DEF AskedOwn, RoutedOwn, SentOwn
  <2>2. CASE p # n
    <3>1. p \in Pending /\ requests'[p] = requests[p]
      BY <1>3, <1>9, <2>2 DEF Pending
    <3> QED BY <1>5, <3>1, StaysOwn DEF OwnInv
  <2> QED BY <2>1, <2>2
<1> QED BY <1>6, <1>7, <1>8, <1>9 DEF OwnInv

\* What a client asks next of a conversation.
LEMMA NextIsThreaded ==
  ASSUME TalkInv, OwnInv, NEW r \in Answered
  PROVE  /\ requests[r].whole \in Transcripts /\ requests[r].thread \in Transcripts
         /\ NextItem(r) \in Transcripts /\ HasUser(requests[r].thread)
         /\ requests[r].whole \o NextItem(r) \in Transcripts
         /\ IsThreaded(requests[r].whole \o NextItem(r))
         /\ IsEnd(requests[r].thread, requests[r].whole)
<1> DEFINE whole == requests[r].whole
           next == NextItem(r)
<1>1. /\ whole \in Transcripts /\ next \in Transcripts /\ requests[r].thread \in Transcripts
      /\ HasUser(requests[r].thread)
  BY AnswerTypes
<1>2. IsThreaded(whole) /\ IsEnd(requests[r].thread, whole)
  <2>1. requests[r] # Ended /\ r \in DOMAIN requests
    BY Kinds DEF TalkInv, Answered, At
  <2> QED BY <2>1 DEF OwnInv, WholesAreThreaded
<1>3. \A k \in DOMAIN next : ~IsModelItem(next[k])
  BY DEF NextItem, Item, User, IsModelItem
<1> HIDE DEF whole, next
<1>4. /\ whole \o next \in Transcripts /\ Len(whole) \in Nat /\ Len(next) \in Nat
      /\ Len(whole \o next) = Len(whole) + Len(next)
      /\ \A k \in 1 .. Len(next) : (whole \o next)[Len(whole) + k] = next[k]
      /\ DOMAIN whole = 1 .. Len(whole) /\ DOMAIN next = 1 .. Len(next)
      /\ DOMAIN (whole \o next) = 1 .. Len(whole) + Len(next)
  BY <1>1, ConcatProperties DEF Transcripts
<1>5. IsThreaded(whole \o next)
  <2> SUFFICES ASSUME NEW i \in DOMAIN (whole \o next), IsModelItem((whole \o next)[i])
               PROVE  /\ (whole \o next)[i].of \in Answered
                      /\ SubSeq(whole \o next, 1, i)
                           = requests[(whole \o next)[i].of].whole
    BY DEF IsThreaded
  <2>1. i \in 1 .. Len(whole)
    <3> SUFFICES ASSUME i \notin 1 .. Len(whole) PROVE FALSE
      OBVIOUS
    <3>1. i - Len(whole) \in 1 .. Len(next) /\ i = Len(whole) + (i - Len(whole))
      BY <1>4
    <3>2. PICK k \in 1 .. Len(next) : i = Len(whole) + k
      BY <3>1
    <3> QED BY <1>3, <1>4, <3>2
  <2>2. (whole \o next)[i] = whole[i] /\ SubSeq(whole \o next, 1, i) = SubSeq(whole, 1, i)
    BY <1>1, <2>1, PrefixOf
  <2> QED BY <1>2, <1>4, <2>1, <2>2 DEF IsThreaded
<1> QED BY <1>1, <1>2, <1>4, <1>5 DEF whole, next

LEMMA OwnAsk ==
  ASSUME TalkInv, OwnInv, NEW via \in {"http", "compact", "socket"}, UNCHANGED records,
         \/ \E settings \in Settings : New(via, settings)
         \/ \E r \in Answered : \/ Continue(via, r)
                               \/ \E settings \in Settings : Repeat(via, settings, r)
         \/ via = "socket" /\ socket.busy = None /\ SocketNext
  PROVE  OwnInv'
<1>1. <<User>> \in Transcripts /\ IsThreaded(<<User>>) /\ IsEnd(<<User>>, <<User>>)
  <2>1. <<User>> \in Transcripts
    BY UserType DEF Transcripts
  <2>2. IsThreaded(<<User>>)
    BY DEF IsThreaded, IsModelItem, User
  <2> QED BY <2>1, <2>2, EndItself
<1>2. ASSUME NEW settings \in Settings, New(via, settings)
      PROVE  OwnInv'
  BY <1>1, <1>2, OwnBegin DEF New
<1>3. ASSUME NEW r \in Answered, NEW follows,
             Begin(via, requests[r].settings, r, follows, NextItem(r),
                   requests[r].thread \o NextItem(r), requests[r].whole \o NextItem(r))
      PROVE  OwnInv'
  <2> DEFINE next == NextItem(r)
             thread == requests[r].thread
             whole == requests[r].whole
  <2>1. /\ whole \in Transcripts /\ thread \in Transcripts /\ next \in Transcripts
        /\ whole \o next \in Transcripts
        /\ IsThreaded(whole \o next) /\ IsEnd(thread, whole)
    BY <1>3, NextIsThreaded
  <2> HIDE DEF next, thread, whole
  <2>2. /\ thread \o next \in Transcripts
        /\ IsEnd(next, thread \o next) /\ IsEnd(thread \o next, whole \o next)
    <3>1. thread \o next \in Transcripts
      BY <2>1, ConcatType, Zenon
    <3>2. IsEnd(next, thread \o next)
      BY <2>1, Zenon DEF IsEnd
    <3>3. IsEnd(thread \o next, whole \o next)
      BY <2>1, EndExtends, Zenon
    <3> QED BY <3>1, <3>2, <3>3
  <2>3. Begin(via, requests[r].settings, r, follows, next, thread \o next, whole \o next)
    BY <1>3 DEF next, thread, whole
  <2>4. whole \o next = requests[r].whole \o next
    BY DEF whole
  <2> QED BY <1>3, <2>1, <2>2, <2>3, <2>4, OwnBegin
<1>4. ASSUME NEW r \in Answered, NEW settings \in Settings, Repeat(via, settings, r)
      PROVE  OwnInv'
  <2> DEFINE next == NextItem(r)
             thread == requests[r].thread
             whole == requests[r].whole
  <2>1. PICK kept \in {thread, LastTurn(thread)} :
          Begin(via, settings, None, None, kept \o next, kept \o next, whole \o next)
    BY <1>4 DEF Repeat
  <2>2. /\ whole \in Transcripts /\ thread \in Transcripts /\ next \in Transcripts
        /\ whole \o next \in Transcripts /\ HasUser(thread)
        /\ IsThreaded(whole \o next) /\ IsEnd(thread, whole)
    BY <1>4, NextIsThreaded
  <2> HIDE DEF next, thread, whole
  <2>3. kept \in Transcripts /\ IsEnd(kept, thread)
    BY <2>2, LastTurnType, LastTurnEnds, EndItself
  <2>4. IsEnd(kept, whole)
    BY <2>2, <2>3, EndTransitive
  <2>5. /\ kept \o next \in Transcripts
        /\ IsEnd(kept \o next, kept \o next) /\ IsEnd(kept \o next, whole \o next)
    BY <2>2, <2>3, <2>4, EndExtends, EndItself, ConcatType
  <2> QED BY <1>4, <2>1, <2>2, <2>5, OwnBegin
<1>5. ASSUME via = "socket", socket.busy = None, SocketNext
      PROVE  OwnInv'
  <2>1. socket.last = socket.heard /\ socket.heard \in Answered \cup {None}
    BY <1>5, UnkeptType DEF TalkInv, SocketIsTrue
  <2>2. CASE socket.heard = None
    <3>1. PICK settings \in Settings :
            Begin("socket", settings, socket.last, None, <<User>>, <<User>>, <<User>>)
      BY <1>5, <2>2 DEF SocketNext
    <3> QED BY <1>1, <2>1, <2>2, <3>1, OwnBegin
  <2>3. CASE socket.heard # None
    <3> DEFINE r == socket.heard
    <3>1. r \in Answered
      BY <2>1, <2>3
    <3>2. Begin("socket", requests[r].settings, r, r, NextItem(r),
                requests[r].thread \o NextItem(r), requests[r].whole \o NextItem(r))
      BY <1>5, <2>1, <2>3 DEF SocketNext
    <3> HIDE DEF r
    <3> QED BY <1>3, <1>5, <3>1, <3>2
  <2> QED BY <2>2, <2>3
<1> QED BY <1>2, <1>3, <1>4, <1>5 DEF Continue

\* Steps that change no request but may end some, and may drop records.
LEMMA OwnQuiet ==
  ASSUME TalkInv, OwnInv, SameAnswers, DOMAIN requests' = DOMAIN requests,
         \A q \in DOMAIN requests : q \in Answered \/ requests'[q] \in {Ended, requests[q]},
         \A r \in DOMAIN records' :
           \/ r \in DOMAIN records /\ records'[r] = records[r]
           \/ r \in Answered /\ OwnHistory(r, records'[r].history)
  PROVE  OwnInv'
<1>1. \A q \in Answered : q \in DOMAIN requests /\ requests[q] # Ended
  BY Kinds DEF TalkInv, Answered, At
<1>2. Answered' = Answered
  <2>1. \A q \in DOMAIN requests : requests'[q].at = "answered" => q \in Answered
    BY DEF Answered, At, Ended
  <2> QED BY <1>1, <2>1 DEF SameAnswers, Answered, At
<1>3. WholesAreThreaded'
  <2> SUFFICES ASSUME NEW p \in DOMAIN requests', requests'[p] # Ended
               PROVE  /\ IsThreaded(requests[p].whole)'
                      /\ IsEnd(requests'[p].thread, requests'[p].whole)
    BY DEF WholesAreThreaded
  <2>1. /\ p \in DOMAIN requests /\ requests[p] # Ended
        /\ requests'[p].thread = requests[p].thread /\ requests'[p].whole = requests[p].whole
    BY <1>1 DEF SameAnswers
  <2>2. IsThreaded(requests[p].whole) /\ IsEnd(requests[p].thread, requests[p].whole)
    BY <2>1 DEF OwnInv, WholesAreThreaded
  <2> QED BY <2>1, <2>2, StaysThreaded
<1>4. AnswersAreOwn'
  BY <1>2 DEF OwnInv, AnswersAreOwn, Context, Outputs, SameAnswers
<1>5. RecordsAreOwn'
  <2>1. \A r \in DOMAIN records : r \in Answered
    BY DEF TalkInv, RecordsAreTrue
  <2> QED BY <2>1 DEF OwnInv, RecordsAreOwn, OwnHistory, SameAnswers
<1>6. ASSUME NEW p \in Pending' PROVE AskedOwn(p)' /\ RoutedOwn(p)' /\ SentOwn(p)'
  <2>1. p \in Pending /\ requests'[p] = requests[p]
    <3>1. p \in DOMAIN requests /\ requests'[p] # Ended /\ requests'[p].at # "answered"
      BY <1>6 DEF Pending, Pendings, Ended
    <3>2. p \notin Answered
      BY <1>2, <3>1 DEF Answered, At
    <3> QED BY <1>6, <3>1, <3>2 DEF Pending
  <2> QED BY <2>1, StaysOwn DEF OwnInv
<1> QED BY <1>3, <1>4, <1>5, <1>6 DEF OwnInv

\* The record of an answer that was due is put.
LEMMA OwnKeep ==
  ASSUME TalkInv, OwnInv, NEW q \in DOMAIN requests, KeepAnswer(q)
  PROVE  OwnInv'
<1>1. /\ q \in Answered /\ requests[q] \in Answers
      /\ DOMAIN requests' = DOMAIN requests
      /\ requests'[q] = [requests[q] EXCEPT !.due = {}, !.until = now + Ttl]
      /\ \A p \in DOMAIN requests : p # q => requests'[p] = requests[p]
      /\ Answered' = Answered
  BY KeepChanges
<1>2. PICK resolved \in requests[q].due : Keeps(q, resolved, requests[q].output)
  BY DEF KeepAnswer
<1>3. SameAnswers
  <2>1. /\ requests'[q].whole = requests[q].whole /\ requests'[q].thread = requests[q].thread
        /\ requests'[q].given = requests[q].given /\ requests'[q].output = requests[q].output
        /\ requests'[q].due = {}
    BY <1>1 DEF Answers
  <2> QED BY <1>1, <2>1 DEF SameAnswers, Answered, At
<1>4. \A r \in DOMAIN records' :
        \/ r \in DOMAIN records /\ records'[r] = records[r]
        \/ r \in Answered /\ OwnHistory(r, records'[r].history)
  <2>1. resolved \in Routes
    BY <1>1, <1>2 DEF Answers
  <2>2. IsPart(resolved.input, requests[q].given) /\ resolved.input \in Transcripts
    BY <1>1, <1>2, <2>1 DEF OwnInv, AnswersAreOwn, Routes
  <2>3. /\ records'[q].history = resolved.input \o requests[q].output
        /\ \A r \in DOMAIN records' :
             r # q => r \in DOMAIN records /\ records'[r] = records[r]
    BY <1>2 DEF Keeps, Put, Remembered
  <2> QED BY <1>1, <2>2, <2>3 DEF OwnHistory
<1>5. \A p \in DOMAIN requests : p \in Answered \/ requests'[p] \in {Ended, requests[p]}
  BY <1>1
<1> QED BY <1>1, <1>3, <1>4, <1>5, OwnQuiet

LEMMA OwnInitially == Init => OwnInv
<1> SUFFICES ASSUME Init PROVE OwnInv
  OBVIOUS
<1>1. DOMAIN requests = {} /\ DOMAIN records = {}
  BY DEF Init, ConversationsInit
<1> QED BY <1>1 DEF OwnInv, WholesAreThreaded, AnswersAreOwn, RecordsAreOwn, Pending,
                    Answered, At

LEMMA OwnNext ==
  TalkInv /\ TalkInv' /\ OwnInv /\ [Next]_<<now, talk, claude, client, restarts>> => OwnInv'
<1> SUFFICES ASSUME TalkInv, TalkInv', OwnInv,
                    [Next]_<<now, talk, claude, client, restarts>>
             PROVE  OwnInv'
  OBVIOUS
<1>1. ASSUME ConversationStep PROVE OwnInv'
  <2>1. CASE AskHttp
    <3>1. UNCHANGED records
      BY <2>1 DEF AskHttp
    <3>2. CASE \E r \in Answered : Continue("compact", r)
      BY <3>1, <3>2, OwnAsk
    <3>3. CASE \/ \E settings \in Settings : New("http", settings)
               \/ \E r \in Answered : \/ Continue("http", r)
                                     \/ \E settings \in Settings : Repeat("http", settings, r)
      BY <3>1, <3>3, OwnAsk
    <3> QED BY <2>1, <3>2, <3>3 DEF AskHttp
  <2>2. CASE AskSocket
    BY <2>2, OwnAsk DEF AskSocket, SocketOther
  <2>3. CASE Hangup
    <3>1. /\ DOMAIN requests' = DOMAIN requests /\ UNCHANGED records
          /\ \A q \in DOMAIN requests :
               requests'[q] = IF q = socket.busy /\ q \notin Answered THEN Ended
                              ELSE requests[q]
      BY <2>3 DEF Hangup
    <3>2. SameAnswers
      BY <3>1 DEF SameAnswers, Answered, At
    <3> QED BY <3>1, <3>2, OwnQuiet
  <2>4. ASSUME NEW q \in DOMAIN requests,
               \/ Get(q) \/ GetDeletes(q) \/ Resolve(q)
               \/ OpenHttp(q) \/ OpenWs(q) \/ FallBack(q) \/ Strip(q) \/ OpenFails(q)
               \/ Send(q) \/ SendFails(q)
               \/ Finish(q) \/ FinishStream(q) \/ KeepAnswer(q) \/ Breaks(q)
        PROVE  OwnInv'
    BY <2>4, OwnGet, OwnGetDeletes, OwnResolve, OwnOpenHttp, OwnOpenWs, OwnFallBack,
       OwnStrip, OwnFail, OwnSend, OwnFinish, OwnKeep
  <2> QED BY <1>1, <2>1, <2>2, <2>3, <2>4 DEF ConversationStep
<1>2. ASSUME UNCHANGED requests,
             \A r \in DOMAIN records' : r \in DOMAIN records /\ records'[r] = records[r]
      PROVE  OwnInv'
  BY <1>2, OwnQuiet DEF SameAnswers, Answered, At
<1>3. CASE client = "claude" /\ ClaudeStep /\ UNCHANGED <<talk, client, restarts>>
  BY <1>2, <1>3 DEF talk
<1>4. CASE Tick /\ UNCHANGED <<talk, claude, client, restarts>>
  BY <1>2, <1>4 DEF talk
<1>5. CASE Housekeeping
  BY <1>2, <1>5, DropExpiredKeeps DEF Housekeeping
<1>6. CASE Restart
  <2>1. /\ DOMAIN requests' = DOMAIN requests /\ DOMAIN records' = {}
        /\ \A q \in DOMAIN requests :
             requests'[q] = IF q \in Answered
                            THEN [requests[q] EXCEPT !.due = {}, !.until = None] ELSE Ended
    <3>1. ForgetContinuations /\ records' = <<>>
      BY <1>6 DEF Restart, ForgetContinuations
    <3>2. DOMAIN records' = {}
      BY <3>1
    <3> QED BY <3>1, <3>2 DEF ForgetContinuations
  <2>2. \A q \in Answered : q \in DOMAIN requests /\ requests[q] \in Answers
    BY Kinds DEF TalkInv, Answered, At
  <2>3. SameAnswers
    <3>1. ASSUME NEW q \in Answered
          PROVE  LET new == [requests[q] EXCEPT !.due = {}, !.until = None]
                 IN  /\ new.at = "answered"
                     /\ new.whole = requests[q].whole /\ new.thread = requests[q].thread
                     /\ new.given = requests[q].given /\ new.output = requests[q].output
                     /\ new.due = {}
      BY <2>2 DEF Answers
    <3> QED BY <2>1, <2>2, <3>1 DEF SameAnswers, Answered, At
  <2> QED BY <2>1, <2>3, OwnQuiet
<1>7. CASE UNCHANGED <<now, talk, claude, client, restarts>>
  BY <1>2, <1>7 DEF talk
<1> QED BY <1>1, <1>3, <1>4, <1>5, <1>6, <1>7 DEF Next

\* However a request is resolved, trimmed, replayed or fallen back to, it is
\* answered from its own conversation: from what its client sent, and nothing
\* before that but what the client's conversation ever had, in its order.
THEOREM ContextIsOwn == Spec => []OwnContext
<1>1. TalkInv /\ OwnInv => OwnContext
  <2> SUFFICES ASSUME TalkInv, OwnInv, NEW q \in Answering
               PROVE  /\ IsPart(requests[q].sent, requests[q].given)
                      /\ IsPart(requests[q].given, requests[q].whole)
    BY DEF OwnContext
  <2>1. q \in Pending /\ requests[q].at = "answering"
    BY Kinds DEF TalkInv, Answering, At
  <2> QED BY <2>1 DEF OwnInv, SentOwn
<1> QED BY <1>1, TalkInitially, TalkNext, OwnInitially, OwnNext, PTL DEF Spec

-----------------------------------------------------------------------------
(* Sums over finite sets.                                                  *)

\* g adds, to base, what f gives for the elements of a part of S, which it
\* takes one by one as pick says.
Folds(g, S, pick, f, base) ==
    /\ g[{}] = base
    /\ \A s \in SUBSET S : s # {} => g[s] = g[s \ {pick[s]}] + f[pick[s]]

LEMMA Parts ==
  ASSUME NEW S, IsFiniteSet(S), NEW s \in SUBSET S
  PROVE  /\ IsFiniteSet(s) /\ Cardinality(s) \in Nat /\ Cardinality(s) <= Cardinality(S)
         /\ Cardinality(S) \in Nat
         /\ Cardinality(s) = 0 <=> s = {}
         /\ \A x \in s : s \ {x} \in SUBSET S /\ Cardinality(s \ {x}) = Cardinality(s) - 1
<1>1. /\ IsFiniteSet(s) /\ Cardinality(s) \in Nat /\ Cardinality(s) <= Cardinality(S)
      /\ Cardinality(S) \in Nat
  BY FS_Subset, FS_CardinalityType
<1>2. Cardinality(s) = 0 <=> s = {}
  BY <1>1, FS_EmptySet
<1>3. \A x \in s : Cardinality(s \ {x}) = Cardinality(s) - 1
  BY <1>1, FS_RemoveElement
<1> QED BY <1>1, <1>2, <1>3

LEMMA FoldExists ==
  ASSUME NEW S, IsFiniteSet(S), NEW pick, \A s \in SUBSET S : s # {} => pick[s] \in s,
         NEW f, \A x \in S : f[x] \in Nat, NEW base \in Nat
  PROVE  \E g \in [SUBSET S -> Nat] : Folds(g, S, pick, f, base)
<1> DEFINE Small(n) == {s \in SUBSET S : Cardinality(s) <= n}
           IsFold(g, n) ==
             /\ g \in [Small(n) -> Nat] /\ g[{}] = base
             /\ \A s \in Small(n) : s # {} => g[s] = g[s \ {pick[s]}] + f[pick[s]]
           T == {n \in Nat : \E g : IsFold(g, n)}
<1>1. \A s \in SUBSET S : /\ Cardinality(s) \in Nat /\ (Cardinality(s) = 0 <=> s = {})
                          /\ \A x \in s : /\ s \ {x} \in SUBSET S
                                          /\ Cardinality(s \ {x}) = Cardinality(s) - 1
  BY Parts
<1>2. \A s \in SUBSET S : s # {} => pick[s] \in s /\ f[pick[s]] \in Nat
  OBVIOUS
<1>3. {} \in SUBSET S /\ Cardinality({}) = 0
  BY <1>1
<1>4. 0 \in T
  <2> DEFINE g == [s \in Small(0) |-> base]
  <2>1. Small(0) = {{}}
    BY <1>1, <1>3
  <2>2. IsFold(g, 0)
    BY <2>1
  <2> QED BY <2>2
<1>5. ASSUME NEW n \in Nat, n \in T PROVE n + 1 \in T
  <2>1. PICK h : IsFold(h, n)
    BY <1>5
  <2> DEFINE g == [s \in Small(n + 1) |->
                     IF s \in Small(n) THEN h[s] ELSE h[s \ {pick[s]}] + f[pick[s]]]
  <2>2. \A s \in Small(n + 1) : s # {} => s \ {pick[s]} \in Small(n)
    BY <1>1, <1>2
  <2>3. Small(n) \subseteq Small(n + 1) /\ {} \in Small(n)
    BY <1>1, <1>3
  <2>4. \A s \in Small(n + 1) : s \notin Small(n) => s # {}
    BY <2>3
  <2> HIDE DEF Small
  <2>5. g \in [Small(n + 1) -> Nat]
    <3> SUFFICES ASSUME NEW s \in Small(n + 1) PROVE g[s] \in Nat
      OBVIOUS
    <3>1. CASE s \in Small(n)
      BY <2>1, <3>1
    <3>2. CASE s \notin Small(n)
      <4>1. h[s \ {pick[s]}] \in Nat /\ f[pick[s]] \in Nat
        BY <1>2, <2>1, <2>2, <2>4, <3>2 DEF Small
      <4> QED BY <3>2, <4>1
    <3> QED BY <3>1, <3>2
  <2>6. g[{}] = base
    BY <2>1, <2>3
  <2>7. ASSUME NEW s \in Small(n + 1), s # {} PROVE g[s] = g[s \ {pick[s]}] + f[pick[s]]
    <3>1. s \ {pick[s]} \in Small(n) /\ s \ {pick[s]} \in Small(n + 1)
      BY <2>2, <2>3, <2>7
    <3>2. g[s \ {pick[s]}] = h[s \ {pick[s]}]
      BY <3>1
    <3>3. g[s] = h[s \ {pick[s]}] + f[pick[s]]
      BY <2>1, <2>7
    <3> QED BY <3>2, <3>3
  <2>8. IsFold(g, n + 1)
    BY <2>5, <2>6, <2>7
  <2> HIDE DEF g, IsFold
  <2> QED BY <2>8
<1>6. Nat \subseteq T
  <2> HIDE DEF T
  <2> QED BY <1>4, <1>5, Induction
<1>7. Cardinality(S) \in Nat /\ Small(Cardinality(S)) = SUBSET S
  BY Parts
<1> HIDE DEF Small
<1>8. PICK g : IsFold(g, Cardinality(S))
  BY <1>6, <1>7
<1> QED BY <1>7, <1>8 DEF Folds

LEMMA FoldUnique ==
  ASSUME NEW S, IsFiniteSet(S), NEW pick, \A s \in SUBSET S : s # {} => pick[s] \in s,
         NEW f, NEW base, NEW g, NEW h, NEW K \in SUBSET S,
         Folds(g, S, pick, f, base), Folds(h, K, pick, f, base)
  PROVE  \A s \in SUBSET K : g[s] = h[s]
<1> DEFINE T == {n \in Nat : \A s \in SUBSET K : Cardinality(s) = n => g[s] = h[s]}
<1>1. \A s \in SUBSET K : /\ s \in SUBSET S
                          /\ Cardinality(s) \in Nat /\ (Cardinality(s) = 0 <=> s = {})
                          /\ \A x \in s : /\ s \ {x} \in SUBSET K
                                          /\ Cardinality(s \ {x}) = Cardinality(s) - 1
  BY Parts
<1>2. 0 \in T
  BY <1>1 DEF Folds
<1>3. ASSUME NEW n \in Nat, n \in T PROVE n + 1 \in T
  <2> SUFFICES ASSUME NEW s \in SUBSET K, Cardinality(s) = n + 1 PROVE g[s] = h[s]
    OBVIOUS
  <2>1. s # {} /\ s \in SUBSET S /\ pick[s] \in s
    BY <1>1
  <2>2. s \ {pick[s]} \in SUBSET K /\ Cardinality(s \ {pick[s]}) = n
    BY <1>1, <2>1
  <2>3. g[s \ {pick[s]}] = h[s \ {pick[s]}]
    BY <1>3, <2>2
  <2> QED BY <2>1, <2>3 DEF Folds
<1>4. Nat \subseteq T
  <2> HIDE DEF T
  <2> QED BY <1>2, <1>3, Induction
<1> QED BY <1>1, <1>4

\* The records of finitely many keys have sizes.
Sized(S, recs) == IsFiniteSet(S) /\ \A k \in S : recs[k].size \in Nat

\* g gives the total of every part of S.
IsTotal(g, S, recs) ==
    /\ g \in [SUBSET S -> Nat] /\ g[{}] = 0
    /\ \A s \in SUBSET S : s # {} => \E x \in s : g[s] = g[s \ {x}] + recs[x].size
    /\ \A K \in SUBSET S : Total(recs, K) = g[K]

LEMMA TotalIs ==
  ASSUME NEW S, NEW recs, Sized(S, recs)
  PROVE  \E g : IsTotal(g, S, recs)
<1>0. IsFiniteSet(S) /\ \A k \in S : recs[k].size \in Nat
  BY DEF Sized
<1> DEFINE pick == [s \in SUBSET S |-> CHOOSE x \in s : TRUE]
           f == [k \in S |-> recs[k].size]
<1>1. /\ \A s \in SUBSET S : s # {} => pick[s] \in s
      /\ \A s \in SUBSET S : pick[s] = CHOOSE x \in s : TRUE
      /\ \A x \in S : f[x] = recs[x].size
  OBVIOUS
<1>2. \A x \in S : f[x] \in Nat
  BY <1>0
<1> HIDE DEF pick, f
<1>3. PICK g \in [SUBSET S -> Nat] : Folds(g, S, pick, f, 0)
  BY <1>0, <1>1, <1>2, FoldExists
<1>4. ASSUME NEW K \in SUBSET S PROVE Total(recs, K) = g[K]
  <2> DEFINE iter[s \in SUBSET K] ==
               IF s = {} THEN 0
               ELSE iter[s \ {CHOOSE x \in s : TRUE}] + recs[CHOOSE x \in s : TRUE].size
  <2>1. Total(recs, K) = iter[K]
    BY DEF Total, FoldSet, MapThenFoldSet
  <2> DEFINE Step(h, s) == IF s = {} THEN 0
                           ELSE h[s \ {CHOOSE x \in s : TRUE}]
                                  + recs[CHOOSE x \in s : TRUE].size
  <2>2. \E h : h = [s \in SUBSET K |-> Step(h, s)]
    <3> DEFINE h == [s \in SUBSET K |-> g[s]]
    <3>1. \A s \in SUBSET K : h[s] = Step(h, s)
      <4> SUFFICES ASSUME NEW s \in SUBSET K PROVE h[s] = Step(h, s)
        OBVIOUS
      <4>1. CASE s = {}
        BY <1>3, <4>1 DEF Folds
      <4>2. CASE s # {}
        <5>1. pick[s] \in s /\ s \in SUBSET S /\ pick[s] = CHOOSE x \in s : TRUE
          BY <1>1, <4>2
        <5>2. g[s] = g[s \ {pick[s]}] + f[pick[s]] /\ f[pick[s]] = recs[pick[s]].size
          BY <1>1, <1>3, <4>2, <5>1 DEF Folds
        <5>3. s \ {pick[s]} \in SUBSET K
          BY <5>1
        <5> QED BY <4>2, <5>1, <5>2, <5>3
      <4> QED BY <4>1, <4>2
    <3>2. h = [s \in SUBSET K |-> Step(h, s)]
      BY <3>1
    <3> QED BY <3>2
  <2>3. iter = [s \in SUBSET K |-> Step(iter, s)]
    BY <2>2
  <2>4. \A s \in SUBSET K : iter[s] = Step(iter, s)
    BY <2>3
  <2> HIDE DEF iter
  <2>5. Folds(iter, K, pick, f, 0)
    <3>1. iter[{}] = 0
      BY <2>4
    <3>2. ASSUME NEW s \in SUBSET K, s # {}
          PROVE  iter[s] = iter[s \ {pick[s]}] + f[pick[s]]
      <4>1. pick[s] = (CHOOSE x \in s : TRUE) /\ pick[s] \in S
        BY <1>1, <3>2
      <4>2. f[pick[s]] = recs[pick[s]].size
        BY <1>1, <4>1
      <4> QED BY <2>4, <3>2, <4>1, <4>2
    <3> QED BY <3>1, <3>2 DEF Folds
  <2>6. g[K] = iter[K]
    BY <1>0, <1>1, <1>3, <2>5, FoldUnique
  <2> QED BY <2>1, <2>6
<1>5. \A s \in SUBSET S : s # {} => \E x \in s : g[s] = g[s \ {x}] + recs[x].size
  <2> SUFFICES ASSUME NEW s \in SUBSET S, s # {}
               PROVE  \E x \in s : g[s] = g[s \ {x}] + recs[x].size
    OBVIOUS
  <2>1. pick[s] \in s /\ f[pick[s]] = recs[pick[s]].size
    BY <1>1
  <2> QED BY <1>3, <2>1 DEF Folds
<1>6. g[{}] = 0
  BY <1>3 DEF Folds
<1> QED BY <1>3, <1>4, <1>5, <1>6 DEF IsTotal

LEMMA TotalType ==
  ASSUME NEW S, NEW recs, Sized(S, recs)
  PROVE  Total(recs, S) \in Nat /\ Total(recs, {}) = 0
<1>1. PICK g : IsTotal(g, S, recs)
  BY TotalIs
<1>2. S \in SUBSET S /\ {} \in SUBSET S
  OBVIOUS
<1> QED BY <1>1, <1>2 DEF IsTotal

LEMMA SizedPart ==
  ASSUME NEW S, NEW recs, Sized(S, recs), NEW s \in SUBSET S
  PROVE  Sized(s, recs)
BY FS_Subset DEF Sized

\* Whichever element is taken first.
LEMMA TotalWithout ==
  ASSUME NEW S, NEW recs, Sized(S, recs), NEW k \in S
  PROVE  Total(recs, S) = recs[k].size + Total(recs, S \ {k})
<1>1. PICK g : IsTotal(g, S, recs)
  BY TotalIs
<1> DEFINE T == {n \in Nat : \A s \in SUBSET S : Cardinality(s) = n =>
                               \A j \in s : g[s] = recs[j].size + g[s \ {j}]}
<1>2. \A s \in SUBSET S : /\ Cardinality(s) \in Nat /\ (Cardinality(s) = 0 <=> s = {})
                          /\ \A x \in s : /\ s \ {x} \in SUBSET S
                                          /\ Cardinality(s \ {x}) = Cardinality(s) - 1
  BY Parts DEF Sized
<1>3. 0 \in T
  BY <1>2
<1>4. ASSUME NEW n \in Nat, n \in T PROVE n + 1 \in T
  <2> SUFFICES ASSUME NEW s \in SUBSET S, Cardinality(s) = n + 1, NEW j \in s
               PROVE  g[s] = recs[j].size + g[s \ {j}]
    OBVIOUS
  <2>1. PICK x \in s : g[s] = g[s \ {x}] + recs[x].size
    BY <1>1 DEF IsTotal
  <2>2. /\ s \ {x} \in SUBSET S /\ Cardinality(s \ {x}) = n
        /\ s \ {j} \in SUBSET S /\ Cardinality(s \ {j}) = n
    BY <1>2
  <2>3. g[s \ {j}] \in Nat /\ recs[x].size \in Nat /\ recs[j].size \in Nat
    BY <1>1, <2>2 DEF IsTotal, Sized
  <2>4. CASE x = j
    BY <2>1, <2>3, <2>4
  <2>5. CASE x # j
    <3> DEFINE w == (s \ {x}) \ {j}
    <3>1. g[s \ {x}] = recs[j].size + g[w]
      BY <1>4, <2>2, <2>5
    <3>2. g[s \ {j}] = recs[x].size + g[(s \ {j}) \ {x}]
      BY <1>4, <2>2, <2>5
    <3>3. w = (s \ {j}) \ {x} /\ w \in SUBSET S
      OBVIOUS
    <3> HIDE DEF w
    <3>4. g[w] \in Nat
      BY <1>1, <3>3 DEF IsTotal
    <3>5. g[s \ {j}] = recs[x].size + g[w]
      BY <3>2, <3>3
    <3> QED BY <2>1, <2>3, <3>1, <3>4, <3>5
  <2> QED BY <2>4, <2>5
<1>5. Nat \subseteq T
  <2> HIDE DEF T
  <2> QED BY <1>3, <1>4, Induction
<1>6. S \in SUBSET S /\ S \ {k} \in SUBSET S
  OBVIOUS
<1>7. g[S] = recs[k].size + g[S \ {k}]
  BY <1>2, <1>5, <1>6
<1> QED BY <1>1, <1>6, <1>7 DEF IsTotal

\* Two stores that have the same sizes.
LEMMA TotalSame ==
  ASSUME NEW S, NEW recs, NEW others, Sized(S, recs),
         \A k \in S : others[k].size = recs[k].size
  PROVE  Total(recs, S) = Total(others, S)
<1>0. Sized(S, others)
  BY DEF Sized
<1> DEFINE T == {n \in Nat : \A s \in SUBSET S :
                               Cardinality(s) = n => Total(recs, s) = Total(others, s)}
<1>1. \A s \in SUBSET S : /\ Cardinality(s) \in Nat /\ (Cardinality(s) = 0 <=> s = {})
                          /\ \A x \in s : /\ s \ {x} \in SUBSET S
                                          /\ Cardinality(s \ {x}) = Cardinality(s) - 1
  BY Parts DEF Sized
<1>2. 0 \in T
  <2>1. Total(recs, {}) = Total(others, {})
    BY <1>0, TotalType
  <2> QED BY <1>1, <2>1
<1>3. ASSUME NEW n \in Nat, n \in T PROVE n + 1 \in T
  <2> SUFFICES ASSUME NEW s \in SUBSET S, Cardinality(s) = n + 1
               PROVE  Total(recs, s) = Total(others, s)
    OBVIOUS
  <2>1. PICK x \in s : TRUE
    BY <1>1
  <2>2. s \ {x} \in SUBSET S /\ Cardinality(s \ {x}) = n
    BY <1>1
  <2>3. Total(recs, s \ {x}) = Total(others, s \ {x})
    BY <1>3, <2>2
  <2>4. Sized(s, recs) /\ Sized(s, others)
    BY <1>0, SizedPart
  <2>5. /\ Total(recs, s) = recs[x].size + Total(recs, s \ {x})
        /\ Total(others, s) = others[x].size + Total(others, s \ {x})
    BY <2>1, <2>4, TotalWithout
  <2>6. recs[x].size = others[x].size
    OBVIOUS
  <2> QED BY <2>3, <2>5, <2>6
<1>4. Nat \subseteq T
  <2> HIDE DEF T
  <2> QED BY <1>2, <1>3, Induction
<1>5. S \in SUBSET S
  OBVIOUS
<1> QED BY <1>1, <1>4, <1>5

LEMMA TotalSplits ==
  ASSUME NEW S, NEW recs, Sized(S, recs), NEW gone \in SUBSET S
  PROVE  Total(recs, S) = Total(recs, S \ gone) + Total(recs, gone)
<1> DEFINE T == {n \in Nat : \A s \in SUBSET S, t \in SUBSET S :
                   Cardinality(t) = n /\ t \subseteq s =>
                     Total(recs, s) = Total(recs, s \ t) + Total(recs, t)}
<1>1. \A s \in SUBSET S : /\ Cardinality(s) \in Nat /\ (Cardinality(s) = 0 <=> s = {})
                          /\ \A x \in s : /\ s \ {x} \in SUBSET S
                                          /\ Cardinality(s \ {x}) = Cardinality(s) - 1
  BY Parts DEF Sized
<1>2. \A s \in SUBSET S : Sized(s, recs) /\ Total(recs, s) \in Nat /\ Total(recs, {}) = 0
  <2> SUFFICES ASSUME NEW s \in SUBSET S
               PROVE  Sized(s, recs) /\ Total(recs, s) \in Nat /\ Total(recs, {}) = 0
    OBVIOUS
  <2>1. Sized(s, recs)
    BY SizedPart
  <2> QED BY <2>1, TotalType
<1>3. 0 \in T
  <2> SUFFICES ASSUME NEW s \in SUBSET S
               PROVE  Total(recs, s) = Total(recs, s \ {}) + Total(recs, {})
    BY <1>1
  <2>1. s \ {} = s
    OBVIOUS
  <2> QED BY <1>2, <2>1
<1>4. ASSUME NEW n \in Nat, n \in T PROVE n + 1 \in T
  <2> SUFFICES ASSUME NEW s \in SUBSET S, NEW t \in SUBSET S,
                      Cardinality(t) = n + 1, t \subseteq s
               PROVE  Total(recs, s) = Total(recs, s \ t) + Total(recs, t)
    OBVIOUS
  <2>1. PICK x \in t : TRUE
    BY <1>1
  <2> DEFINE a == s \ {x}
             b == t \ {x}
  <2>2. /\ a \in SUBSET S /\ b \in SUBSET S /\ Cardinality(b) = n /\ b \subseteq a
        /\ a \ b = s \ t
    BY <1>1, <2>1
  <2>3. Sized(s, recs) /\ Sized(t, recs) /\ x \in s
    BY <1>2, <2>1
  <2>4. Total(recs, s) = recs[x].size + Total(recs, a)
    BY <2>3, TotalWithout
  <2>5. Total(recs, t) = recs[x].size + Total(recs, b)
    BY <2>1, <2>3, TotalWithout
  <2> HIDE DEF a, b
  <2>6. Total(recs, a) = Total(recs, s \ t) + Total(recs, b)
    BY <1>4, <2>2
  <2>7. /\ Total(recs, a) \in Nat /\ Total(recs, b) \in Nat
        /\ Total(recs, s \ t) \in Nat /\ recs[x].size \in Nat
    <3>1. s \ t \in SUBSET S
      OBVIOUS
    <3> QED BY <1>2, <2>2, <2>3, <3>1 DEF Sized
  <2> QED BY <2>4, <2>5, <2>6, <2>7
<1>5. Nat \subseteq T
  <2> HIDE DEF T
  <2> QED BY <1>3, <1>4, Induction
<1> QED BY <1>1, <1>5

\* Some of the records are left.
LEMMA TotalOfRest ==
  ASSUME NEW recs, NEW keys \in SUBSET DOMAIN recs, Sized(DOMAIN recs, recs)
  PROVE  LET left == [k \in keys |-> recs[k]]
         IN  /\ Sized(keys, left)
             /\ Total(left, keys) = Total(recs, DOMAIN recs) - Total(recs, DOMAIN recs \ keys)
<1> DEFINE gone == DOMAIN recs \ keys
           left == [k \in keys |-> recs[k]]
<1>1. /\ gone \in SUBSET DOMAIN recs /\ DOMAIN recs \ gone = keys
      /\ \A k \in keys : left[k].size = recs[k].size
  OBVIOUS
<1>2. Total(recs, DOMAIN recs) = Total(recs, keys) + Total(recs, gone)
  BY <1>1, TotalSplits
<1>3. Sized(keys, recs) /\ Sized(gone, recs)
  BY <1>1, SizedPart
<1>4. Total(recs, keys) \in Nat /\ Total(recs, gone) \in Nat
  BY <1>3, TotalType
<1>5. Sized(keys, left)
  BY <1>3 DEF Sized
<1>6. Total(recs, keys) = Total(left, keys)
  <2> HIDE DEF left
  <2> QED BY <1>1, <1>3, TotalSame
<1> HIDE DEF gone, left
<1>7. Total(left, keys) = Total(recs, DOMAIN recs) - Total(recs, gone)
  BY <1>2, <1>4, <1>6
<1> QED BY <1>5, <1>7 DEF gone, left

-----------------------------------------------------------------------------
(* Sizes and limits.                                                       *)

LEMMA SizeType ==
  ASSUME NEW n \in Nat, NEW blocks, DOMAIN blocks = 1 .. n,
         \A i \in 1 .. n : blocks[i].type \in {"text", "thinking", "tool_use"}
  PROVE  Size(blocks) \in Nat
<1> DEFINE S == 1 .. n
           pick == [s \in SUBSET S |-> Max(s)]
           f == [i \in S |-> BlockSize[blocks[i].type]]
<1>1. IsFiniteSet(S) /\ KeySize \in Nat /\ \A i \in S : f[i] \in Nat
  <2>1. 1 \in Int /\ n \in Int
    OBVIOUS
  <2>2. IsFiniteSet(1 .. n)
    BY <2>1, FS_Interval
  <2> QED BY <2>2, ReplayAssumption
<1>2. \A s \in SUBSET S : s # {} => pick[s] \in s
  <2> SUFFICES ASSUME NEW s \in SUBSET S, s # {} PROVE Max(s) \in s
    OBVIOUS
  <2>1. s \in SUBSET (1 .. n)
    OBVIOUS
  <2> QED BY <2>1, MaxIsIn
<1>3. /\ \A s \in SUBSET S : pick[s] = Max(s)
      /\ \A i \in S : f[i] = BlockSize[blocks[i].type]
  OBVIOUS
<1> HIDE DEF pick, f, S
<1>4. PICK g \in [SUBSET S -> Nat] : Folds(g, S, pick, f, KeySize)
  BY <1>1, <1>2, FoldExists
<1> DEFINE iter[s \in SUBSET S] ==
             IF s = {} THEN KeySize
             ELSE iter[s \ {Max(s)}] + BlockSize[blocks[Max(s)].type]
           Step(h, s) == IF s = {} THEN KeySize
                         ELSE h[s \ {Max(s)}] + BlockSize[blocks[Max(s)].type]
<1>5. Size(blocks) = iter[S]
  BY DEF Size, FoldLeft, MapThenFoldSet, S
<1>6. \E h : h = [s \in SUBSET S |-> Step(h, s)]
  <2>1. \A s \in SUBSET S : g[s] = Step(g, s)
    <3> SUFFICES ASSUME NEW s \in SUBSET S PROVE g[s] = Step(g, s)
      OBVIOUS
    <3>1. CASE s = {}
      BY <1>4, <3>1 DEF Folds
    <3>2. CASE s # {}
      <4>1. pick[s] = Max(s) /\ Max(s) \in S
        BY <1>2, <1>3, <3>2
      <4>2. f[Max(s)] = BlockSize[blocks[Max(s)].type]
        BY <1>3, <4>1
      <4> QED BY <1>4, <3>2, <4>1, <4>2 DEF Folds
    <3> QED BY <3>1, <3>2
  <2>2. g = [s \in SUBSET S |-> Step(g, s)]
    BY <2>1
  <2> QED BY <2>2
<1>7. iter = [s \in SUBSET S |-> Step(iter, s)]
  BY <1>6
<1>8. \A s \in SUBSET S : iter[s] = Step(iter, s)
  BY <1>7
<1> HIDE DEF iter
<1>9. Folds(iter, S, pick, f, KeySize)
  <2>1. iter[{}] = KeySize
    BY <1>8
  <2>2. ASSUME NEW s \in SUBSET S, s # {} PROVE iter[s] = iter[s \ {pick[s]}] + f[pick[s]]
    <3>1. pick[s] = Max(s) /\ pick[s] \in S
      BY <1>2, <1>3, <2>2
    <3>2. f[pick[s]] = BlockSize[blocks[Max(s)].type]
      BY <1>3, <3>1
    <3> QED BY <1>8, <2>2, <3>1, <3>2
  <2> QED BY <2>1, <2>2 DEF Folds
<1>10. S \in SUBSET S
  OBVIOUS
<1>11. g[S] = iter[S]
  BY <1>1, <1>2, <1>4, <1>9, <1>10, FoldUnique
<1> QED BY <1>4, <1>5, <1>10, <1>11

LEMMA AnswerSize ==
  ASSUME NEW q, NEW shape \in Shapes
  PROVE  Size(Answer(q, shape)) \in Nat
<1>1. shape \in Seq({"text", "thinking", "tool_use"})
  BY ClaudeMessagesAssumption
<1>2. Len(shape) \in Nat /\ DOMAIN Answer(q, shape) = 1 .. Len(shape)
  BY <1>1 DEF Answer
<1>3. \A i \in 1 .. Len(shape) :
        Answer(q, shape)[i].type \in {"text", "thinking", "tool_use"}
  BY <1>1 DEF Answer, Block
<1> QED BY <1>2, <1>3, SizeType

LEMMA TargetsAreBelow ==
  /\ \A count \in Nat : EntryTarget(count) \in Nat /\ EntryTarget(count) <= MaxEntries
  /\ \A total \in Nat : ByteTarget(total) <= MaxBytes
<1>1. /\ MaxEntries \in Nat /\ MaxBytes \in Nat /\ EvictBatchSize \in Nat
      /\ MaxEntries \div 8 \in Nat /\ MaxBytes \div 16 \in Nat
  BY ReplayAssumption
<1>2. \A a \in Int, b \in Int :
        /\ Max({a, b}) \in {a, b} /\ Max({a, b}) >= a /\ Max({a, b}) >= b
        /\ Min({a, b}) \in {a, b}
  <2> SUFFICES ASSUME NEW a \in Int, NEW b \in Int
               PROVE  /\ Max({a, b}) \in {a, b} /\ Max({a, b}) >= a /\ Max({a, b}) >= b
                      /\ Min({a, b}) \in {a, b}
    OBVIOUS
  <2>1. \E x \in {a, b} : \A y \in {a, b} : x >= y
    BY a >= b \/ b >= a
  <2>2. \E x \in {a, b} : \A y \in {a, b} : x =< y
    BY a >= b \/ b >= a
  <2>3. Max({a, b}) \in {a, b} /\ \A y \in {a, b} : Max({a, b}) >= y
    BY <2>1 DEF Max
  <2>4. Min({a, b}) \in {a, b}
    BY <2>2 DEF Min
  <2> QED BY <2>3, <2>4
<1>3. ASSUME NEW count \in Nat PROVE EntryTarget(count) \in Nat /\ EntryTarget(count) <= MaxEntries
  <2> DEFINE wide == Max({1, MaxEntries \div 8})
             batch == Min({EvictBatchSize, wide})
  <2>1. wide \in Nat
    <3> DEFINE eighth == MaxEntries \div 8
    <3>1. eighth \in Nat
      BY <1>1
    <3> HIDE DEF eighth
    <3>2. Max({1, eighth}) \in {1, eighth}
      BY <1>2, <3>1
    <3>3. Max({1, eighth}) \in Nat
      BY <3>1, <3>2
    <3> QED BY <3>3 DEF eighth
  <2> HIDE DEF wide
  <2>2. batch \in Nat
    <3>1. Min({EvictBatchSize, wide}) \in {EvictBatchSize, wide}
      BY <1>1, <1>2, <2>1
    <3> QED BY <1>1, <2>1, <3>1
  <2> HIDE DEF batch
  <2> DEFINE rest == MaxEntries - batch
             most == Max({0, rest})
  <2>4. rest \in Int /\ rest <= MaxEntries
    BY <1>1, <2>2
  <2> HIDE DEF rest
  <2>5. most \in {0, rest} /\ most >= 0
    BY <1>2, <2>4
  <2> HIDE DEF most
  <2>6. most \in Nat /\ most <= MaxEntries
    BY <1>1, <2>4, <2>5
  <2>3. EntryTarget(count) = IF count <= MaxEntries THEN MaxEntries
                             ELSE most
    BY DEF EntryTarget, batch, wide, rest, most
  <2> QED BY <1>1, <2>6, <2>3
<1>4. ASSUME NEW total \in Nat PROVE ByteTarget(total) <= MaxBytes
  BY <1>1 DEF ByteTarget
<1> QED BY <1>3, <1>4

\* evictLocked leaves what is within both limits, and counts it.
LEMMA SurvivorsFit ==
  ASSUME NEW recs, Sized(DOMAIN recs, recs),
         NEW s \in Survivors(recs, Total(recs, DOMAIN recs))
  PROVE  /\ s.keys \in SUBSET DOMAIN recs
         /\ s.total = Total(recs, s.keys)
         /\ s.total <= MaxBytes
         /\ Cardinality(s.keys) <= MaxEntries
<1> DEFINE D == DOMAIN recs
           total == Total(recs, D)
           Left(keys) == total - Total(recs, D \ keys)
<1>1. /\ IsFiniteSet(D) /\ Cardinality(D) \in Nat /\ total \in Nat
  BY TotalType, FS_CardinalityType DEF Sized
<1>2. MaxEntries \in Nat /\ MaxBytes \in Nat
  BY ReplayAssumption
<1>3. ASSUME NEW keys \in SUBSET D
      PROVE  /\ Left(keys) = Total(recs, keys) /\ Left(keys) \in Nat
             /\ Cardinality(keys) \in Nat
  <2>1. D \ keys \in SUBSET D /\ D \ (D \ keys) = keys
    OBVIOUS
  <2>2. total = Total(recs, keys) + Total(recs, D \ keys)
    BY <2>1, TotalSplits
  <2>3. Sized(keys, recs) /\ Sized(D \ keys, recs)
    BY <2>1, SizedPart
  <2>4. Total(recs, keys) \in Nat /\ Total(recs, D \ keys) \in Nat
    BY <2>3, TotalType
  <2>5. Cardinality(keys) \in Nat
    BY <2>3, FS_CardinalityType DEF Sized
  <2> HIDE DEF total
  <2> QED BY <2>2, <2>4, <2>5
<1>4. CASE D \subseteq s.keys /\ s = [keys |-> D, total |-> total]
           /\ Cardinality(D) <= MaxEntries /\ total <= MaxBytes
  BY <1>4
<1>5. CASE \E keys \in SUBSET D :
             /\ s = [keys |-> keys, total |-> Left(keys)]
             /\ Cardinality(keys) <= EntryTarget(Cardinality(D))
             /\ Left(keys) <= ByteTarget(total)
  <2>1. PICK keys \in SUBSET D :
             /\ s = [keys |-> keys, total |-> Left(keys)]
             /\ Cardinality(keys) <= EntryTarget(Cardinality(D))
             /\ Left(keys) <= ByteTarget(total)
    BY <1>5
  <2>2. s.keys = keys /\ s.total = Left(keys)
    BY <2>1
  <2>3. /\ EntryTarget(Cardinality(D)) \in Nat /\ EntryTarget(Cardinality(D)) <= MaxEntries
        /\ ByteTarget(total) <= MaxBytes
    BY <1>1, TargetsAreBelow
  <2>4. ByteTarget(total) \in Int
    BY <1>2 DEF ByteTarget
  <2>5. Left(keys) = Total(recs, keys) /\ Left(keys) \in Nat /\ Cardinality(keys) \in Nat
    BY <1>3
  <2> HIDE DEF Left, total, D
  <2>6. Cardinality(keys) <= MaxEntries /\ Left(keys) <= MaxBytes
    BY <1>1, <1>2, <2>1, <2>3, <2>4, <2>5
  <2>7. keys \in SUBSET D
    OBVIOUS
  <2> QED BY <2>2, <2>5, <2>6, <2>7 DEF D
<1> QED BY <1>4, <1>5 DEF Survivors

-----------------------------------------------------------------------------
(* The store.                                                              *)

ReplaysWell == Sized(DOMAIN replays, replays) /\ BytesAreExact

LEMMA WithoutIs ==
  ASSUME ReplaysWell, NEW k
  PROVE  LET left == Without(replays, k)
         IN  /\ DOMAIN left = DOMAIN replays \ {k}
             /\ Sized(DOMAIN left, left)
             /\ Total(left, DOMAIN left) = bytes - SizeOf(k)
             /\ bytes - SizeOf(k) \in Nat /\ bytes - SizeOf(k) <= MaxBytes
<1> DEFINE D == DOMAIN replays
           keys == D \ {k}
           left == [key \in keys |-> replays[key]]
<1>1. /\ Without(replays, k) = left /\ DOMAIN left = keys /\ keys \in SUBSET D
  BY DEF Without
<1>2. Sized(D, replays) /\ bytes = Total(replays, D) /\ bytes <= MaxBytes
  BY DEF ReplaysWell, BytesAreExact
<1>3. /\ Sized(keys, left)
      /\ Total(left, keys) = Total(replays, D) - Total(replays, D \ keys)
  BY <1>1, <1>2, TotalOfRest
<1>4. Total(replays, D \ keys) = SizeOf(k) /\ SizeOf(k) \in Nat
  <2>1. Total(replays, {}) = 0
    BY <1>2, TotalType
  <2>2. CASE k \in D
    <3>1. D \ keys = {k} /\ {k} \ {k} = {} /\ SizeOf(k) = replays[k].size
      BY <2>2 DEF SizeOf
    <3>2. Sized({k}, replays) /\ replays[k].size \in Nat
      BY <1>2, <2>2, SizedPart DEF Sized
    <3>3. Total(replays, {k}) = replays[k].size + Total(replays, {k} \ {k})
      BY <3>2, TotalWithout
    <3> QED BY <2>1, <3>1, <3>2, <3>3
  <2>3. CASE k \notin D
    <3>1. D \ keys = {} /\ SizeOf(k) = 0
      BY <2>3 DEF SizeOf
    <3> QED BY <2>1, <3>1
  <2> QED BY <2>2, <2>3
<1>5. bytes \in Nat /\ Total(left, keys) \in Nat
  BY <1>2, <1>3, TotalType
<1> HIDE DEF D, keys, left
<1>6. MaxBytes \in Nat
  BY ReplayAssumption
<1>7. bytes - SizeOf(k) \in Nat /\ bytes - SizeOf(k) <= MaxBytes
  BY <1>2, <1>3, <1>4, <1>5, <1>6
<1> QED BY <1>1, <1>2, <1>3, <1>4, <1>7 DEF D, keys

LEMMA FewerFit ==
  ASSUME NEW S, NEW T \in SUBSET S, IsFiniteSet(S), Cardinality(S) <= MaxEntries
  PROVE  Cardinality(T) <= MaxEntries
<1>1. /\ Cardinality(T) <= Cardinality(S) /\ IsFiniteSet(T)
  BY FS_Subset
<1>2. Cardinality(T) \in Nat /\ Cardinality(S) \in Nat /\ MaxEntries \in Nat
  BY <1>1, FS_CardinalityType, ReplayAssumption
<1> QED BY <1>1, <1>2

LEMMA DeleteStep ==
  ASSUME ReplaysWell, NEW k, Delete(k)
  PROVE  ReplaysWell'
<1>1. /\ DOMAIN replays' = DOMAIN replays \ {k}
      /\ Sized(DOMAIN replays', replays')
      /\ Total(replays', DOMAIN replays') = bytes'
      /\ bytes' <= MaxBytes
  BY WithoutIs DEF Delete
<1>2. Cardinality(DOMAIN replays') <= MaxEntries
  BY <1>1, FewerFit DEF ReplaysWell, BytesAreExact, Sized
<1> QED BY <1>1, <1>2 DEF ReplaysWell, BytesAreExact

LEMMA RememberStep ==
  ASSUME ReplaysWell, NEW k, NEW account, NEW blocks,
         Size(blocks) \in Nat, Remember(k, account, blocks)
  PROVE  ReplaysWell'
<1>1. CASE UNCHANGED store
  BY <1>1 DEF store, ReplaysWell, BytesAreExact
<1>2. CASE Delete(k)
  BY <1>2, DeleteStep
<1>3. CASE ~(UNCHANGED store) /\ ~Delete(k)
  <2> DEFINE D == DOMAIN replays \cup {k}
             added == [key \in D |->
                         IF key = k
                         THEN [account |-> account, blocks |-> blocks,
                               expires |-> now + ReplayTtl, size |-> Size(blocks)]
                         ELSE replays[key]]
             left == Without(replays, k)
  <2>1. PICK s \in Survivors(added, bytes - SizeOf(k) + Size(blocks)) :
          /\ replays' = [key \in s.keys |-> added[key]]
          /\ bytes' = s.total
    BY <1>3 DEF Remember
  <2>2. /\ DOMAIN left = DOMAIN replays \ {k} /\ Sized(DOMAIN left, left)
        /\ Total(left, DOMAIN left) = bytes - SizeOf(k)
        /\ bytes - SizeOf(k) \in Nat
    BY WithoutIs
  <2>3. /\ DOMAIN added = D /\ k \in D /\ D \ {k} = DOMAIN left
        /\ added[k].size = Size(blocks)
    BY <2>2
  <2>4. \A key \in DOMAIN left : added[key] = left[key]
    BY <2>2 DEF Without
  <2> HIDE DEF added, left
  <2>5. Sized(D, added)
    <3>1. IsFiniteSet(D)
      BY FS_AddElement DEF ReplaysWell, Sized
    <3>2. \A key \in D : added[key].size \in Nat
      BY <2>2, <2>3, <2>4 DEF Sized
    <3> QED BY <3>1, <3>2 DEF Sized
  <2>6. Total(added, D) = Size(blocks) + Total(added, D \ {k})
    BY <2>3, <2>5, TotalWithout
  <2>7. Total(left, DOMAIN left) = Total(added, DOMAIN left)
    BY <2>2, <2>4, TotalSame
  <2>8. bytes - SizeOf(k) + Size(blocks) = Total(added, DOMAIN added)
    <3> DEFINE w == bytes - SizeOf(k)
    <3>1. w \in Nat /\ Total(added, D \ {k}) = w
      BY <2>2, <2>3, <2>7
    <3> HIDE DEF w
    <3>2. w + Size(blocks) = Total(added, D)
      BY <2>6, <3>1
    <3> QED BY <2>3, <3>2 DEF w
  <2> HIDE DEF D
  <2>9. /\ s.keys \in SUBSET D
        /\ s.total = Total(added, s.keys)
        /\ s.total <= MaxBytes
        /\ Cardinality(s.keys) <= MaxEntries
    BY <2>1, <2>3, <2>5, <2>8, SurvivorsFit
  <2>10. DOMAIN replays' = s.keys /\ \A key \in s.keys : replays'[key] = added[key]
    BY <2>1
  <2>11. Sized(s.keys, added)
    BY <2>5, <2>9, SizedPart
  <2>12. Sized(s.keys, replays')
    BY <2>10, <2>11 DEF Sized
  <2>13. Total(added, s.keys) = Total(replays', s.keys)
    BY <2>10, <2>11, TotalSame
  <2> QED BY <2>1, <2>9, <2>10, <2>12, <2>13 DEF ReplaysWell, BytesAreExact
<1> QED BY <1>1, <1>2, <1>3

LEMMA SweepStep ==
  ASSUME ReplaysWell, SweepReplays
  PROVE  ReplaysWell'
<1> DEFINE D == DOMAIN replays
           stale == {k \in D : Stale(replays[k])}
           keys == D \ stale
<1>1. /\ replays' = [k \in keys |-> replays[k]] /\ keys \in SUBSET D /\ D \ keys = stale
      /\ bytes' = bytes - Total(replays, stale)
  BY DEF SweepReplays
<1>2. Sized(D, replays) /\ bytes = Total(replays, D) /\ bytes <= MaxBytes
  BY DEF ReplaysWell, BytesAreExact
<1> HIDE DEF stale, keys
<1>3. /\ Sized(keys, replays')
      /\ Total(replays', keys) = Total(replays, D) - Total(replays, D \ keys)
  BY <1>1, <1>2, TotalOfRest
<1>4. DOMAIN replays' = keys /\ bytes' = Total(replays', keys)
  BY <1>1, <1>2, <1>3
<1>5. bytes \in Nat /\ bytes' \in Nat /\ Total(replays, stale) \in Nat /\ MaxBytes \in Nat
  <2>1. Sized(stale, replays)
    BY <1>1, <1>2, SizedPart
  <2>2. Total(replays, stale) \in Nat
    BY <2>1, TotalType
  <2>3. Total(replays', keys) \in Nat
    BY <1>3, TotalType
  <2> QED BY <1>2, <1>4, <2>2, <2>3, TotalType, ReplayAssumption
<1>6. bytes' <= MaxBytes
  BY <1>1, <1>2, <1>5
<1>7. Cardinality(keys) <= MaxEntries
  BY <1>1, FewerFit DEF ReplaysWell, BytesAreExact, Sized
<1> QED BY <1>3, <1>4, <1>6, <1>7 DEF ReplaysWell, BytesAreExact

LEMMA StoreStays ==
  ASSUME ReplaysWell, UNCHANGED store
  PROVE  ReplaysWell'
BY DEF store, ReplaysWell, BytesAreExact

LEMMA EmptyStore ==
  ASSUME NEW recs, recs = <<>>
  PROVE  Sized(DOMAIN recs, recs) /\ Total(recs, DOMAIN recs) = 0
<1>1. DOMAIN recs = {}
  OBVIOUS
<1>2. Sized({}, recs)
  BY FS_EmptySet DEF Sized
<1> QED BY <1>1, <1>2, TotalType

LEMMA ReplaysInitially == Init => ReplaysWell
<1> SUFFICES ASSUME replays = <<>>, bytes = 0 PROVE ReplaysWell
  BY DEF Init, ClaudeInit
<1>1. DOMAIN replays = {} /\ Cardinality({}) = 0
  BY FS_EmptySet
<1> QED BY <1>1, EmptyStore, ReplayAssumption DEF ReplaysWell, BytesAreExact

LEMMA OfItsRange ==
  ASSUME NEW S, NEW s \in Seq(S)
  PROVE  s \in Seq({s[i] : i \in DOMAIN s})
<1>1. Len(s) \in Nat /\ s \in [1 .. Len(s) -> {s[i] : i \in DOMAIN s}]
  OBVIOUS
<1> QED BY <1>1, IsASeq

\* An answer that is told can still be remembered.
WellAsked(message) ==
    /\ "at" \in DOMAIN message
    /\ message.at = "answered" => "blocks" \in DOMAIN message /\ Size(message.blocks) \in Nat

AnswersHaveSizes ==
    /\ asked \in Seq({asked[q] : q \in DOMAIN asked})
    /\ \A q \in DOMAIN asked : WellAsked(asked[q])

LEMMA OneAsked ==
  ASSUME AnswersHaveSizes, NEW q \in DOMAIN asked, NEW message, WellAsked(message),
         asked' = [asked EXCEPT ![q] = message]
  PROVE  AnswersHaveSizes'
<1> DEFINE S == {asked[p] : p \in DOMAIN asked} \cup {message}
<1>1. asked \in Seq(S) /\ message \in S
  <2>1. asked \in Seq({asked[p] : p \in DOMAIN asked})
    BY DEF AnswersHaveSizes
  <2> QED BY <2>1, SeqMonotonic
<1> HIDE DEF S
<1>2. /\ asked' \in Seq(S) /\ DOMAIN asked' = DOMAIN asked
      /\ \A p \in DOMAIN asked : asked'[p] = IF p = q THEN message ELSE asked[p]
  <2>1. q \in 1 .. Len(asked)
    BY <1>1
  <2> QED BY <1>1, <2>1, ExceptSeq
<1>3. asked' \in Seq({asked'[p] : p \in DOMAIN asked'})
  <2>1. asked' \in Seq(S)
    BY <1>2
  <2> QED BY ONLY <2>1, OfItsRange
<1> QED BY <1>2, <1>3 DEF AnswersHaveSizes

LEMMA AnswersHaveSizesNext ==
  AnswersHaveSizes /\ [Next]_<<now, talk, claude, client, restarts>> => AnswersHaveSizes'
<1> SUFFICES ASSUME AnswersHaveSizes, [Next]_<<now, talk, claude, client, restarts>>
             PROVE  AnswersHaveSizes'
  OBVIOUS
<1>1. CASE UNCHANGED asked
  BY <1>1 DEF AnswersHaveSizes
<1>2. ASSUME NEW q \in DOMAIN asked, Ends(q)
      PROVE  AnswersHaveSizes'
  <2>1. WellAsked([at |-> "ended", key |-> asked[q].key])
    BY DEF WellAsked
  <2> QED BY <1>2, <2>1, OneAsked DEF Ends
<1>3. ASSUME NEW q \in DOMAIN asked, NEW found, NEW messages, NEW prefers, NEW bare,
             Normalized(q, found, messages, prefers, bare)
      PROVE  AnswersHaveSizes'
  <2> DEFINE message == [asked[q] EXCEPT !.at = "open", !.found = found, !.applied = messages,
                                         !.prefers = prefers, !.bare = bare]
  <2>1. CASE Ends(q)
    BY <1>2, <2>1
  <2>2. CASE asked' = [asked EXCEPT ![q].at = "open", ![q].found = found,
                                    ![q].applied = messages,
                                    ![q].prefers = prefers, ![q].bare = bare]
    <3>1. asked' = [asked EXCEPT ![q] = message]
      BY <2>2
    <3>2. WellAsked(message)
      BY DEF AnswersHaveSizes, WellAsked
    <3> HIDE DEF message
    <3> QED BY <3>1, <3>2, OneAsked
  <2> QED BY <1>3, <2>1, <2>2 DEF Normalized
<1>4. ASSUME NEW q \in DOMAIN asked, NEW shape \in Shapes, NEW due, AnswerTold(q, shape, due)
      PROVE  AnswersHaveSizes'
  <2> DEFINE message == [at |-> "answered", key |-> asked[q].key, memory |-> asked[q].memory,
                         account |-> asked[q].account,
                         blocks |-> Answer(q, shape), due |-> due]
  <2>1. WellAsked(message)
    BY AnswerSize DEF WellAsked
  <2>2. asked' = [asked EXCEPT ![q] = message]
    BY <1>4 DEF AnswerTold
  <2> HIDE DEF message
  <2> QED BY <2>1, <2>2, OneAsked
<1>5. CASE AskClaude
  <2>1. PICK message : asked' = Append(asked, message) /\ WellAsked(message)
    <3>1. ASSUME NEW k, NEW memory, NEW messages, BeginClaude(k, memory, messages)
          PROVE  \E message : asked' = Append(asked, message) /\ WellAsked(message)
      <4> DEFINE message == [at |-> "get", key |-> k, memory |-> memory,
                             messages |-> messages,
                             found |-> <<>>, applied |-> <<>>, prefers |-> {}, bare |-> FALSE]
      <4>1. WellAsked(message)
        BY DEF WellAsked
      <4>2. asked' = Append(asked, message)
        BY <3>1 DEF BeginClaude
      <4> HIDE DEF message
      <4> QED BY <4>1, <4>2
    <3> QED BY <1>5, <3>1 DEF AskClaude
  <2> DEFINE S == {asked[p] : p \in DOMAIN asked} \cup {message}
  <2>2. asked \in Seq(S) /\ message \in S
    <3>1. asked \in Seq({asked[p] : p \in DOMAIN asked})
      BY DEF AnswersHaveSizes
    <3> QED BY <3>1, SeqMonotonic
  <2> HIDE DEF S
  <2>3. /\ asked' \in Seq(S) /\ DOMAIN asked' = DOMAIN asked \cup {Len(asked) + 1}
        /\ asked'[Len(asked) + 1] = message
        /\ \A p \in DOMAIN asked : asked'[p] = asked[p]
    BY <2>1, <2>2, AppendProperties
  <2>4. asked' \in Seq({asked'[p] : p \in DOMAIN asked'})
    BY <2>3, OfItsRange
  <2> QED BY <2>1, <2>3, <2>4 DEF AnswersHaveSizes
<1>6. ASSUME NEW q \in DOMAIN asked,
             \/ GetReplay(q) \/ DropStale(q) \/ OpenMessage(q) \/ RefuseThinking(q)
             \/ AnswerMessage(q) \/ StreamMessage(q) \/ RememberMessage(q)
      PROVE  AnswersHaveSizes'
  <2>1. CASE GetReplay(q)
    <3>1. CASE asked' = [asked EXCEPT ![q].at = "stale"]
      <4>1. asked' = [asked EXCEPT ![q] = [asked[q] EXCEPT !.at = "stale"]]
        BY <3>1
      <4>2. WellAsked([asked[q] EXCEPT !.at = "stale"])
        BY DEF AnswersHaveSizes, WellAsked
      <4> QED BY <4>1, <4>2, OneAsked
    <3> QED BY <1>3, <2>1, <3>1 DEF GetReplay
  <2>2. CASE DropStale(q) \/ RefuseThinking(q)
    BY <1>3, <2>2 DEF DropStale, RefuseThinking
  <2>3. CASE OpenMessage(q)
    <3>1. ASSUME NEW a,
                 asked' = [asked EXCEPT ![q] = [at |-> "answering", key |-> @.key,
                                                memory |-> @.memory, account |-> a]]
          PROVE  AnswersHaveSizes'
      <4> DEFINE message == [at |-> "answering", key |-> asked[q].key,
                             memory |-> asked[q].memory, account |-> a]
      <4>1. WellAsked(message) /\ asked' = [asked EXCEPT ![q] = message]
        BY <3>1 DEF WellAsked
      <4> HIDE DEF message
      <4> QED BY <4>1, OneAsked
    <3> QED BY <1>2, <2>3, <3>1 DEF OpenMessage
  <2>4. CASE AnswerMessage(q) \/ StreamMessage(q)
    BY <1>2, <1>4, <2>4 DEF AnswerMessage, StreamMessage
  <2>5. CASE RememberMessage(q)
    <3>1. asked' = [asked EXCEPT ![q] = [asked[q] EXCEPT !.due = FALSE]]
      BY <2>5 DEF RememberMessage
    <3>2. WellAsked([asked[q] EXCEPT !.due = FALSE])
      BY DEF AnswersHaveSizes, WellAsked
    <3> QED BY <3>1, <3>2, OneAsked
  <2> QED BY <1>6, <2>1, <2>2, <2>3, <2>4, <2>5
<1>7. CASE ForgetReplays
  <2> DEFINE e(q) == IF asked[q].at = "answered" THEN [asked[q] EXCEPT !.due = FALSE]
                     ELSE [at |-> "ended", key |-> asked[q].key]
             S == {e(q) : q \in DOMAIN asked}
  <2>1. asked' = [q \in DOMAIN asked |-> e(q)]
    BY <1>7 DEF ForgetReplays
  <2>2. \A q \in DOMAIN asked : WellAsked(e(q))
    BY DEF AnswersHaveSizes, WellAsked
  <2>3. Len(asked) \in Nat /\ DOMAIN asked = 1 .. Len(asked)
    BY DEF AnswersHaveSizes
  <2> HIDE DEF e
  <2>4. asked' \in [1 .. Len(asked) -> S]
    BY <2>1, <2>3
  <2> HIDE DEF S
  <2>5. asked' \in Seq(S)
    BY <2>3, <2>4, IsASeq
  <2>6. asked' \in Seq({asked'[p] : p \in DOMAIN asked'})
    BY <2>5, OfItsRange
  <2> QED BY <2>1, <2>2, <2>6 DEF AnswersHaveSizes
<1> QED BY <1>1, <1>5, <1>6, <1>7 DEF Next, ClaudeStep, claude, Housekeeping, Restart, Tick

LEMMA ReplaysNext ==
  ReplaysWell /\ AnswersHaveSizes /\ [Next]_<<now, talk, claude, client, restarts>>
    => ReplaysWell'
<1> SUFFICES ASSUME ReplaysWell, AnswersHaveSizes,
                    [Next]_<<now, talk, claude, client, restarts>>
             PROVE  ReplaysWell'
  OBVIOUS
<1>1. CASE UNCHANGED store
  BY <1>1, StoreStays
<1>2. CASE SweepReplays
  BY <1>2, SweepStep
<1>3. CASE ForgetReplays
  <2>1. replays' = <<>> /\ bytes' = 0 /\ DOMAIN replays' = {} /\ Cardinality({}) = 0
    BY <1>3, FS_EmptySet DEF ForgetReplays
  <2> QED BY <2>1, EmptyStore, ReplayAssumption DEF ReplaysWell, BytesAreExact
<1>4. CASE ClaudeStep
  <2>1. CASE AskClaude
    BY <2>1, StoreStays DEF AskClaude
  <2>2. ASSUME NEW q \in DOMAIN asked, GetReplay(q) PROVE ReplaysWell'
    BY <2>2, StoreStays DEF GetReplay
  <2>3. ASSUME NEW q \in DOMAIN asked, DropStale(q) PROVE ReplaysWell'
    <3>1. Delete(Key(q)) \/ UNCHANGED store
      BY <2>3 DEF DropStale
    <3> QED BY <3>1, StoreStays, DeleteStep
  <2>4. ASSUME NEW q \in DOMAIN asked, OpenMessage(q) PROVE ReplaysWell'
    BY <2>4, StoreStays DEF OpenMessage
  <2>5. ASSUME NEW q \in DOMAIN asked, RefuseThinking(q) PROVE ReplaysWell'
    BY <2>5, DeleteStep DEF RefuseThinking
  <2>6. ASSUME NEW q \in DOMAIN asked, AnswerMessage(q) PROVE ReplaysWell'
    <3>1. CASE UNCHANGED store
      BY <3>1, StoreStays
    <3>2. CASE \E shape \in Shapes :
                  Remember(Key(q), asked[q].account, Answer(q, shape))
      BY <3>2, AnswerSize, RememberStep
    <3> QED BY <2>6, <3>1, <3>2 DEF AnswerMessage
  <2>7. ASSUME NEW q \in DOMAIN asked, StreamMessage(q) PROVE ReplaysWell'
    BY <2>7, StoreStays DEF StreamMessage
  <2>8. ASSUME NEW q \in DOMAIN asked, RememberMessage(q) PROVE ReplaysWell'
    <3>1. Size(asked[q].blocks) \in Nat
      BY <2>8 DEF RememberMessage, AnswersHaveSizes, WellAsked
    <3> QED BY <2>8, <3>1, RememberStep DEF RememberMessage
  <2> QED BY <1>4, <2>1, <2>2, <2>3, <2>4, <2>5, <2>6, <2>7, <2>8 DEF ClaudeStep
<1> QED BY <1>1, <1>2, <1>3, <1>4 DEF Next, claude, Housekeeping, Restart, Tick

\* The bytes that the limits are held against are those of the records that are
\* there, and neither limit is exceeded (deleteLocked, evictLocked, Remember,
\* Sweep), for every number of sessions, every size of block and all limits.
THEOREM ReplayBytesAreExact == Spec => []BytesAreExact
<1>1. ReplaysWell => BytesAreExact
  BY DEF ReplaysWell
<1>2. Init => AnswersHaveSizes
  <2> SUFFICES ASSUME asked = <<>> PROVE AnswersHaveSizes
    BY DEF Init, ClaudeInit
  <2> QED BY DEF AnswersHaveSizes
<1> QED BY <1>1, <1>2, ReplaysInitially, ReplaysNext, AnswersHaveSizesNext, PTL DEF Spec

LEMMA GoodRecordsNext ==
  [Next]_<<now, talk, claude, client, restarts>>
    => [(\E q \in DOMAIN asked : GetReplay(q) \/ DropStale(q)) \/ SweepReplays
          => \A k \in DOMAIN replays :
               ~Stale(replays[k]) => k \in DOMAIN replays' /\ replays'[k] = replays[k]]_store
<1> SUFFICES ASSUME (\E q \in DOMAIN asked : GetReplay(q) \/ DropStale(q)) \/ SweepReplays,
                    NEW k \in DOMAIN replays, ~Stale(replays[k])
             PROVE  k \in DOMAIN replays' /\ replays'[k] = replays[k]
  OBVIOUS
<1>1. CASE UNCHANGED store
  BY <1>1 DEF store
<1>2. CASE SweepReplays
  BY <1>2 DEF SweepReplays
<1>3. ASSUME NEW q \in DOMAIN asked, Stale(replays[Key(q)]), Delete(Key(q))
      PROVE  k \in DOMAIN replays' /\ replays'[k] = replays[k]
  <2>1. k # Key(q)
    BY <1>3
  <2> QED BY <1>3, <2>1 DEF Delete, Without
<1> QED BY <1>1, <1>2, <1>3 DEF GetReplay, DropStale

\* Looking up and sweeping drop no record that is still good, though another
\* request may have remembered it since it was looked at (get, Sweep).
THEOREM GoodReplaysStay == Spec => GoodRecordsStay
<1> QED BY GoodRecordsNext, PTL DEF Spec, GoodRecordsStay
=============================================================================
