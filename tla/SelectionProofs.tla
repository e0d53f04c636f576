--------------------------- MODULE SelectionProofs ---------------------------
(***************************************************************************)
(* What selection owes to the accounts, for any number of them, any        *)
(* snapshots, preferences and filters: turns are shared, and least_used    *)
(* picks the best.  And what a request that selects one account after      *)
(* another owes to its client, for every way upstream fails: it is sent to *)
(* one account a bounded number of times, it is an exchange as Delivery    *)
(* describes it, and it gives up only when no account is left.             *)
(***************************************************************************)
EXTENDS RotationHistory, Failover, AccountsProofs, SequenceTheorems, WellFoundedInduction

-----------------------------------------------------------------------------
(* Numbers.                                                                *)

LEMMA NatSteps ==
  ASSUME NEW T, 0 \in T, \A n \in Nat : n \in T => n + 1 \in T
  PROVE  Nat \subseteq T
<1> SUFFICES ASSUME Nat \ T # {} PROVE FALSE
  OBVIOUS
<1> DEFINE R == OpToRel(<, Nat)
<1>1. IsWellFoundedOn(R, Nat)
  BY NatLessThanWellFounded
<1>2. \A a, b \in Nat : a < b => <<a, b>> \in R
  BY DEF OpToRel
<1> HIDE DEF R
<1>3. PICK m \in Nat \ T : \A n \in Nat \ T : ~(<<n, m>> \in R)
  BY <1>1, WFMin
<1>4. m - 1 \in Nat \ T /\ m - 1 < m
  BY <1>3, m - 1 \in Nat
<1> QED BY <1>2, <1>3, <1>4

\* The place after place r of n places.
After(r, n) == IF r + 1 = n THEN 0 ELSE r + 1

LEMMA ModUnique ==
  ASSUME NEW n \in Nat \ {0}, NEW a \in Nat, NEW q \in Int, NEW r \in 0 .. n - 1,
         a = q * n + r
  PROVE  a % n = r
BY Z3

LEMMA ModAfter ==
  ASSUME NEW n \in Nat \ {0}, NEW a \in Nat
  PROVE  a % n \in 0 .. n - 1 /\ (a + 1) % n = After(a % n, n)
<1> DEFINE q == a \div n
           r == a % n
<1>1. q \in Int /\ r \in 0 .. n - 1 /\ a = q * n + r
  BY Z3
<1> HIDE DEF q, r
<1>2. CASE r + 1 = n
  <2>1. a + 1 = (q + 1) * n + 0
    BY <1>1, <1>2, Z3
  <2>2. (a + 1) % n = 0
    BY <1>1, <2>1, ModUnique
  <2> QED BY <1>1, <1>2, <2>2 DEF After, r
<1>3. CASE r + 1 # n
  <2>1. a + 1 = q * n + (r + 1) /\ r + 1 \in 0 .. n - 1
    BY <1>1, <1>3, Z3
  <2>2. (a + 1) % n = r + 1
    BY <1>1, <2>1, ModUnique
  <2> QED BY <1>1, <1>3, <2>2 DEF After, r
<1> QED BY <1>2, <1>3

\* The index is kept modulo a multiple of every number of accounts.
LEMMA NextTurn ==
  ASSUME index \in 0 .. IndexPeriod - 1, NEW n \in 1 .. MaxAccounts
  PROVE  /\ index % n \in 0 .. n - 1
         /\ (index + 1) % IndexPeriod \in Nat
         /\ ((index + 1) % IndexPeriod) % n = After(index % n, n)
<1>1. /\ n \in Nat \ {0} /\ index \in Nat /\ IndexPeriod \in Nat \ {0}
      /\ IndexPeriod % n = 0
  BY AccountsAssumption
<1>2. index % n \in 0 .. n - 1 /\ (index + 1) % n = After(index % n, n)
  BY <1>1, ModAfter
<1>3. CASE index + 1 = IndexPeriod
  <2>1. (index + 1) % IndexPeriod = 0 /\ 0 % n = 0
    BY <1>1, <1>3
  <2> QED BY <1>1, <1>2, <1>3, <2>1
<1>4. CASE index + 1 # IndexPeriod
  <2>1. (index + 1) % IndexPeriod = index + 1
    BY <1>1, <1>4
  <2> QED BY <1>1, <1>2, <2>1
<1> QED BY <1>3, <1>4

\* What holds of neighbours and is transitive holds of any two in order.
LEMMA InOrder ==
  ASSUME NEW N \in Nat, NEW order, NEW S, order \in [1 .. N -> S], NEW R,
         \A i, j, k \in S : <<i, j>> \in R /\ <<j, k>> \in R => <<i, k>> \in R,
         \A k \in 1 .. N - 1 : <<order[k], order[k + 1]>> \in R
  PROVE  \A j, k \in 1 .. N : j < k => <<order[j], order[k]>> \in R
<1> DEFINE T == {n \in Nat : \A j \in 1 .. N :
                   j + n + 1 \in 1 .. N => <<order[j], order[j + n + 1]>> \in R}
<1>1. 0 \in T
  <2> SUFFICES ASSUME NEW j \in 1 .. N, j + 0 + 1 \in 1 .. N
               PROVE  <<order[j], order[j + 0 + 1]>> \in R
    OBVIOUS
  <2>1. j \in 1 .. N - 1 /\ j + 0 + 1 = j + 1
    OBVIOUS
  <2> QED BY <2>1
<1>2. ASSUME NEW n \in Nat, n \in T PROVE n + 1 \in T
  <2> SUFFICES ASSUME NEW j \in 1 .. N, j + (n + 1) + 1 \in 1 .. N
               PROVE  <<order[j], order[j + (n + 1) + 1]>> \in R
    OBVIOUS
  <2> DEFINE k == j + n + 1
  <2>1. k \in 1 .. N - 1 /\ k \in 1 .. N /\ k + 1 \in 1 .. N /\ k + 1 = j + (n + 1) + 1
    OBVIOUS
  <2>2. <<order[j], order[k]>> \in R
    BY <1>2, <2>1
  <2> HIDE DEF k
  <2>3. <<order[k], order[k + 1]>> \in R
    BY <2>1
  <2>4. order[j] \in S /\ order[k] \in S /\ order[k + 1] \in S
    BY <2>1
  <2>5. <<order[j], order[k + 1]>> \in R
    BY <2>2, <2>3, <2>4
  <2> QED BY <2>1, <2>5
<1>3. Nat \subseteq T
  <2> HIDE DEF T
  <2> QED BY <1>1, <1>2, NatSteps
<1> SUFFICES ASSUME NEW j \in 1 .. N, NEW k \in 1 .. N, j < k
             PROVE  <<order[j], order[k]>> \in R
  OBVIOUS
<1> DEFINE n == k - j - 1
<1>4. n \in Nat /\ j + n + 1 = k
  OBVIOUS
<1> HIDE DEF n
<1>5. n \in T
  BY <1>3, <1>4
<1> QED BY <1>4, <1>5

LEMMA IntervalSize ==
  ASSUME NEW n \in Nat
  PROVE  IsFiniteSet(1 .. n) /\ Cardinality(1 .. n) = n
<1>1. /\ IsFiniteSet(1 .. n)
      /\ Cardinality(1 .. n) = IF 1 > n THEN 0 ELSE n - 1 + 1
  BY FS_Interval
<1> QED BY <1>1

\* An order of all of a finite set reaches each of it.
LEMMA OrderIsOnto ==
  ASSUME NEW S, IsFiniteSet(S), NEW order \in [1 .. Cardinality(S) -> S], IsInjective(order)
  PROVE  \A i \in S : \E k \in 1 .. Cardinality(S) : order[k] = i
<1> DEFINE N == Cardinality(S)
<1>1. N \in Nat
  BY FS_CardinalityType
<1>2. Cardinality(1 .. N) = N
  BY <1>1, IntervalSize
<1>3. order \in Injection(1 .. N, S)
  BY DEF Injection
<1>4. order \in Surjection(1 .. N, S)
  BY <1>2, <1>3, FS_Injection
<1> QED BY <1>4 DEF Surjection

-----------------------------------------------------------------------------
(* The order of snapshots.                                                 *)

\* The primary percentage of every snapshot is known.
Known(recs, ids) ==
  \A i \in ids : recs[i].quota \in Snapshot /\ recs[i].quota.primary.used \in Percents

LEMMA SnapshotParts ==
  ASSUME NEW a \in Snapshot
  PROVE  /\ a.primary.reset # None => a.primary.reset \in Nat
         /\ HasSecondary(a) => a.secondary.used \in Percents
<1>1. a.primary \in Window /\ a.secondary \in Window \cup {None}
  BY DEF Snapshot
<1> QED BY <1>1 DEF Window, HasSecondary, Instants

LEMMA LessUsedIsStrict ==
  ASSUME NEW a \in Snapshot, NEW b \in Snapshot,
         a.primary.used \in Percents, b.primary.used \in Percents, LessUsed(a, b)
  PROVE  a.primary.used <= b.primary.used /\ ~LessUsed(b, a)
<1>1. /\ a.primary.reset # None => a.primary.reset \in Nat
      /\ b.primary.reset # None => b.primary.reset \in Nat
      /\ HasSecondary(a) => a.secondary.used \in Percents
      /\ HasSecondary(b) => b.secondary.used \in Percents
  BY SnapshotParts
<1>2. a.primary.used \in Int /\ b.primary.used \in Int
  BY DEF Percents
<1>3. CASE a.primary.used < b.primary.used
  BY <1>2, <1>3 DEF LessUsed
<1>4. CASE /\ a.primary.used = b.primary.used
           /\ HasSecondary(a) /\ HasSecondary(b)
           /\ a.secondary.used < b.secondary.used
  <2>1. a.secondary.used \in Int /\ b.secondary.used \in Int
    BY <1>1, <1>4 DEF Percents
  <2>2. /\ ~(b.secondary.used < a.secondary.used) /\ b.secondary.used # a.secondary.used
        /\ ~(b.primary.used < a.primary.used)
    BY <1>2, <1>4, <2>1
  <2> QED BY <1>2, <1>4, <2>2 DEF LessUsed, SecondaryTied
<1>5. CASE /\ a.primary.used = b.primary.used /\ SecondaryTied(a, b)
           /\ a.primary.reset # None /\ b.primary.reset # None
           /\ a.primary.reset < b.primary.reset
  BY <1>1, <1>2, <1>5 DEF LessUsed, SecondaryTied, Percents
<1> QED BY <1>3, <1>4, <1>5 DEF LessUsed

\* The snapshots have the same fields.
Alike(a, b) ==
  HasSecondary(a) = HasSecondary(b) /\ (a.primary.reset = None) = (b.primary.reset = None)

LEMMA NotLessIsTransitive ==
  ASSUME NEW a \in Snapshot, NEW b \in Snapshot, NEW c \in Snapshot,
         a.primary.used \in Percents, b.primary.used \in Percents, c.primary.used \in Percents,
         Alike(a, b), Alike(b, c), ~LessUsed(b, a), ~LessUsed(c, b)
  PROVE  ~LessUsed(c, a)
<1>1. /\ a.primary.reset # None => a.primary.reset \in Int
      /\ b.primary.reset # None => b.primary.reset \in Int
      /\ c.primary.reset # None => c.primary.reset \in Int
      /\ HasSecondary(a) => a.secondary.used \in Int
      /\ HasSecondary(b) => b.secondary.used \in Int
      /\ HasSecondary(c) => c.secondary.used \in Int
  <2>1. ASSUME NEW s \in Snapshot
        PROVE  /\ s.primary.reset # None => s.primary.reset \in Int
               /\ HasSecondary(s) => s.secondary.used \in Int
    <3>1. Percents \subseteq Int /\ Nat \subseteq Int
      BY DEF Percents
    <3> QED BY <3>1, SnapshotParts
  <2> QED BY <2>1, Zenon
<1>2. a.primary.used \in Int /\ b.primary.used \in Int /\ c.primary.used \in Int
  BY DEF Percents
<1>3. CASE HasSecondary(a) /\ a.primary.reset = None
  BY <1>1, <1>2, <1>3 DEF LessUsed, SecondaryTied, Alike
<1>4. CASE HasSecondary(a) /\ a.primary.reset # None
  BY <1>1, <1>2, <1>4 DEF LessUsed, SecondaryTied, Alike
<1>5. CASE ~HasSecondary(a) /\ a.primary.reset = None
  BY <1>1, <1>2, <1>5 DEF LessUsed, SecondaryTied, Alike
<1>6. CASE ~HasSecondary(a) /\ a.primary.reset # None
  BY <1>1, <1>2, <1>6 DEF LessUsed, SecondaryTied, Alike
<1> QED BY <1>3, <1>4, <1>5, <1>6

LEMMA NotLessIsNoBetter ==
  ASSUME NEW q \in Snapshot, NEW p \in Snapshot,
         q.primary.used \in Percents, p.primary.used \in Percents, ~LessUsed(q, p)
  PROVE  NoBetter(q, p)
<1>1. /\ q.primary.reset # None => q.primary.reset \in Int
      /\ p.primary.reset # None => p.primary.reset \in Int
      /\ HasSecondary(q) => q.secondary.used \in Int
      /\ HasSecondary(p) => p.secondary.used \in Int
  BY SnapshotParts DEF Percents
<1>2. q.primary.used \in Int /\ p.primary.used \in Int
  BY DEF Percents
<1> QED BY <1>1, <1>2 DEF LessUsed, SecondaryTied, NoBetter

-----------------------------------------------------------------------------
(* Selection.                                                              *)

LEMMA RankedIsKnown ==
  ASSUME NEW recs, NEW cands, \A id \in cands : recs[id] \in Record
  PROVE  Ranked(recs, cands) \subseteq cands /\ Known(recs, Ranked(recs, cands))
<1> SUFFICES ASSUME NEW i \in Ranked(recs, cands)
             PROVE  /\ i \in cands /\ recs[i].quota \in Snapshot
                    /\ recs[i].quota.primary.used \in Percents
  BY DEF Known
<1>1. i \in cands /\ recs[i].quota # None /\ recs[i].quota.primary.used # None
  BY DEF Ranked
<1>2. recs[i].quota \in Snapshot
  BY <1>1 DEF Record
<1>3. recs[i].quota.primary \in Window
  BY <1>2 DEF Snapshot
<1> QED BY <1>1, <1>2, <1>3 DEF Window

\* The place of id in the order of the identifiers.
Place(ids, id) == Cardinality({i \in ids : i < id})

LEMMA BeforeIsNotAfter ==
  ASSUME NEW recs, NEW ids, Known(recs, ids), NEW i \in ids, NEW j \in ids,
         Before(recs, i, j)
  PROVE  /\ recs[i].quota.primary.used <= recs[j].quota.primary.used
         /\ ~LessUsed(recs[j].quota, recs[i].quota)
<1>1. /\ recs[i].quota \in Snapshot /\ recs[i].quota.primary.used \in Percents
      /\ recs[j].quota \in Snapshot /\ recs[j].quota.primary.used \in Percents
  BY DEF Known
<1>2. CASE LessUsed(recs[i].quota, recs[j].quota)
  BY <1>1, <1>2, LessUsedIsStrict
<1>3. CASE ~LessUsed(recs[j].quota, recs[i].quota)
  <2>1. ~(recs[j].quota.primary.used < recs[i].quota.primary.used)
    BY <1>3 DEF LessUsed
  <2>2. recs[i].quota.primary.used \in Int /\ recs[j].quota.primary.used \in Int
    BY <1>1 DEF Percents
  <2>3. recs[i].quota.primary.used <= recs[j].quota.primary.used
    BY <2>1, <2>2
  <2> QED BY <1>3, <2>3
<1> QED BY <1>2, <1>3 DEF Before

\* The first of a sorted order is used no more than any other, and no other is
\* before it when the snapshots have the same fields.
LEMMA FirstIsBest ==
  ASSUME NEW recs, NEW ids, IsFiniteSet(ids), ids # {}, Known(recs, ids),
         NEW order \in SortedOrders(recs, ids)
  PROVE  /\ 1 \in DOMAIN order
         /\ \A i \in ids : recs[order[1]].quota.primary.used <= recs[i].quota.primary.used
         /\ (\A i, j \in ids : Alike(recs[i].quota, recs[j].quota))
              => \A i \in ids : ~LessUsed(recs[i].quota, recs[order[1]].quota)
<1> DEFINE N == Cardinality(ids)
           Used(i) == recs[i].quota.primary.used
<1>1. N \in Nat /\ N > 0
  BY FS_CardinalityType, FS_EmptySet
<1>2. /\ order \in [1 .. N -> ids] /\ IsInjective(order)
      /\ \A k \in 1 .. N - 1 : Before(recs, order[k], order[k + 1])
  BY DEF SortedOrders
<1>3. \A i \in ids : \E k \in 1 .. N : order[k] = i
  BY <1>2, OrderIsOnto
<1>4. \A i \in ids : Used(i) \in Int
  BY DEF Known, Percents
<1> HIDE DEF N
<1>5. \A i \in ids : Used(order[1]) <= Used(i)
  <2> DEFINE R == {p \in ids \X ids : Used(p[1]) <= Used(p[2])}
  <2>1. \A i, j \in ids : <<i, j>> \in R <=> Used(i) <= Used(j)
    OBVIOUS
  <2>2. \A i, j, k \in ids : <<i, j>> \in R /\ <<j, k>> \in R => <<i, k>> \in R
    BY <1>4, <2>1
  <2>3. \A k \in 1 .. N - 1 : <<order[k], order[k + 1]>> \in R
    <3> SUFFICES ASSUME NEW k \in 1 .. N - 1 PROVE <<order[k], order[k + 1]>> \in R
      OBVIOUS
    <3>1. order[k] \in ids /\ order[k + 1] \in ids
      BY <1>1, <1>2
    <3> QED BY <1>2, <2>1, <3>1, BeforeIsNotAfter
  <2> HIDE DEF R
  <2>4. \A j, k \in 1 .. N : j < k => <<order[j], order[k]>> \in R
    BY <1>1, <1>2, <2>2, <2>3, InOrder
  <2> SUFFICES ASSUME NEW i \in ids PROVE Used(order[1]) <= Used(i)
    OBVIOUS
  <2>5. PICK k \in 1 .. N : order[k] = i
    BY <1>3
  <2>6. CASE k = 1
    BY <1>4, <2>5, <2>6
  <2>7. CASE k # 1
    <3>1. 1 \in 1 .. N /\ 1 < k /\ order[1] \in ids
      BY <1>1, <1>2, <2>5, <2>7
    <3> QED BY <2>1, <2>4, <2>5, <3>1
  <2> QED BY <2>6, <2>7
<1>6. ASSUME \A i, j \in ids : Alike(recs[i].quota, recs[j].quota), NEW i \in ids
      PROVE  ~LessUsed(recs[i].quota, recs[order[1]].quota)
  <2> DEFINE R == {p \in ids \X ids : ~LessUsed(recs[p[2]].quota, recs[p[1]].quota)}
  <2>1. \A a, b \in ids : <<a, b>> \in R <=> ~LessUsed(recs[b].quota, recs[a].quota)
    OBVIOUS
  <2>2. ASSUME NEW a \in ids, NEW b \in ids, NEW c \in ids, <<a, b>> \in R, <<b, c>> \in R
        PROVE  <<a, c>> \in R
    <3>1. ~LessUsed(recs[b].quota, recs[a].quota) /\ ~LessUsed(recs[c].quota, recs[b].quota)
      BY <2>1, <2>2
    <3>2. Alike(recs[a].quota, recs[b].quota) /\ Alike(recs[b].quota, recs[c].quota)
      BY <1>6
    <3>3. ~LessUsed(recs[c].quota, recs[a].quota)
      BY <3>1, <3>2, NotLessIsTransitive DEF Known
    <3> QED BY <2>1, <3>3
  <2>3. \A k \in 1 .. N - 1 : <<order[k], order[k + 1]>> \in R
    <3> SUFFICES ASSUME NEW k \in 1 .. N - 1 PROVE <<order[k], order[k + 1]>> \in R
      OBVIOUS
    <3>1. order[k] \in ids /\ order[k + 1] \in ids
      BY <1>1, <1>2
    <3> QED BY <1>2, <2>1, <3>1, BeforeIsNotAfter
  <2> HIDE DEF R
  <2>4. \A j, k \in 1 .. N : j < k => <<order[j], order[k]>> \in R
    BY <1>1, <1>2, <2>2, <2>3, InOrder
  <2>5. PICK k \in 1 .. N : order[k] = i
    BY <1>3
  <2>6. 1 \in 1 .. N /\ order[1] \in ids
    BY <1>1, <1>2
  <2>7. CASE k = 1
    <3>1. /\ recs[i].quota \in Snapshot /\ recs[i].quota.primary.used \in Percents
      BY DEF Known
    <3>2. ~LessUsed(recs[i].quota, recs[i].quota)
      BY <3>1, LessUsedIsStrict
    <3> QED BY <2>5, <2>7, <3>2
  <2>8. CASE k # 1
    <3>1. 1 < k
      BY <1>1, <2>8
    <3>2. <<order[1], i>> \in R
      BY <2>4, <2>5, <2>6, <3>1
    <3> QED BY <2>1, <2>6, <3>2
  <2> QED BY <2>7, <2>8
<1> QED BY <1>1, <1>2, <1>5, <1>6

\* What least_used picks, when any snapshot is known.
LEMMA PickIsTied ==
  ASSUME index \in Nat, NEW recs, NEW cands, IsFiniteSet(cands),
         NEW id, id \in LeastUsedPicks(recs, cands), Ranked(recs, cands) # {}
  PROVE  \E order \in SortedOrders(recs, Ranked(recs, cands)) : \E n \in DOMAIN order :
           /\ Tied(recs, order, n)
           /\ index % n \in 0 .. n - 1 /\ id = order[(index % n) + 1]
           /\ n \in 1 .. Cardinality(Ranked(recs, cands))
<1> DEFINE ids == Ranked(recs, cands)
<1>1. PICK order \in SortedOrders(recs, ids) : \E n \in DOMAIN order :
        Tied(recs, order, n) /\ id = order[(index % n) + 1]
  BY DEF LeastUsedPicks
<1>2. PICK n \in DOMAIN order : Tied(recs, order, n) /\ id = order[(index % n) + 1]
  BY <1>1
<1>3. n \in 1 .. Cardinality(ids) /\ Cardinality(ids) \in Nat
  <2>1. order \in [1 .. Cardinality(ids) -> ids]
    BY <1>1 DEF SortedOrders
  <2>2. Cardinality(ids) \in Nat
    BY FS_Subset, FS_CardinalityType DEF Ranked
  <2> QED BY <1>2, <2>1, <2>2
<1>4. index % n \in 0 .. n - 1
  <2>1. n \in Nat \ {0}
    BY <1>3
  <2> QED BY <2>1, ModAfter
<1> QED BY <1>1, <1>2, <1>3, <1>4

LEMMA PickIsBest ==
  ASSUME index \in Nat, NEW recs, NEW cands, IsFiniteSet(cands),
         \A i \in cands : recs[i] \in Record,
         NEW id, id \in LeastUsedPicks(recs, cands), Ranked(recs, cands) # {}
  PROVE  LET ids == Ranked(recs, cands)
         IN  /\ id \in ids
             /\ \A i \in ids : recs[id].quota.primary.used <= recs[i].quota.primary.used
             /\ (\A i, j \in ids : Alike(recs[i].quota, recs[j].quota))
                  => \A i \in ids : NoBetter(recs[i].quota, recs[id].quota)
<1> DEFINE ids == Ranked(recs, cands)
<1>1. PICK order \in SortedOrders(recs, ids) : \E n \in DOMAIN order :
           /\ Tied(recs, order, n)
           /\ index % n \in 0 .. n - 1 /\ id = order[(index % n) + 1]
           /\ n \in 1 .. Cardinality(ids)
  BY PickIsTied
<1>2. PICK n \in DOMAIN order :
           /\ Tied(recs, order, n)
           /\ index % n \in 0 .. n - 1 /\ id = order[(index % n) + 1]
           /\ n \in 1 .. Cardinality(ids)
  BY <1>1
<1> DEFINE k == (index % n) + 1
           first == order[1]
<1>3. /\ IsFiniteSet(ids) /\ Cardinality(ids) \in Nat /\ Known(recs, ids)
  BY RankedIsKnown, FS_Subset, FS_CardinalityType
<1>4. k \in 1 .. n /\ 1 \in 1 .. n /\ k \in 1 .. Cardinality(ids) /\ 1 \in 1 .. Cardinality(ids)
  BY <1>2, <1>3
<1>5. order \in [1 .. Cardinality(ids) -> ids]
  BY <1>1 DEF SortedOrders
<1>6. id = order[k] /\ id \in ids /\ first \in ids
  BY <1>2, <1>4, <1>5
<1>7. /\ ~LessUsed(recs[first].quota, recs[id].quota)
      /\ ~LessUsed(recs[id].quota, recs[first].quota)
  <2> HIDE DEF k
  <2> QED BY <1>2, <1>4, <1>6 DEF Tied
<1>8. /\ recs[first].quota \in Snapshot /\ recs[first].quota.primary.used \in Percents
      /\ recs[id].quota \in Snapshot /\ recs[id].quota.primary.used \in Percents
  BY <1>3, <1>6 DEF Known
<1>9. recs[id].quota.primary.used = recs[first].quota.primary.used
  <2>1. /\ ~(recs[first].quota.primary.used < recs[id].quota.primary.used)
        /\ ~(recs[id].quota.primary.used < recs[first].quota.primary.used)
    BY <1>7 DEF LessUsed
  <2>2. recs[id].quota.primary.used \in Int /\ recs[first].quota.primary.used \in Int
    <3>1. Percents \subseteq Int
      BY DEF Percents
    <3> HIDE DEF first
    <3> QED BY <1>8, <3>1
  <2> HIDE DEF first
  <2> QED BY <2>1, <2>2
<1>10. /\ \A i \in ids : recs[first].quota.primary.used <= recs[i].quota.primary.used
       /\ (\A i, j \in ids : Alike(recs[i].quota, recs[j].quota))
            => \A i \in ids : ~LessUsed(recs[i].quota, recs[first].quota)
  <2> HIDE DEF ids
  <2> QED BY <1>1, <1>3, <1>6, FirstIsBest
<1>11. ASSUME \A i, j \in ids : Alike(recs[i].quota, recs[j].quota), NEW i \in ids
       PROVE  NoBetter(recs[i].quota, recs[id].quota)
  <2> HIDE DEF ids, first
  <2>1. ~LessUsed(recs[i].quota, recs[first].quota)
    BY <1>10, <1>11
  <2>2. /\ recs[i].quota \in Snapshot /\ recs[i].quota.primary.used \in Percents
    BY <1>3 DEF Known
  <2>3. Alike(recs[i].quota, recs[first].quota) /\ Alike(recs[first].quota, recs[id].quota)
        /\ Alike(recs[id].quota, recs[first].quota) /\ Alike(recs[first].quota, recs[i].quota)
    BY <1>6, <1>11
  <2>4. ~LessUsed(recs[i].quota, recs[id].quota)
    BY <1>7, <1>8, <2>1, <2>2, <2>3, NotLessIsTransitive
  <2> QED BY <1>8, <2>2, <2>4, NotLessIsNoBetter
<1> HIDE DEF first
<1> QED BY <1>6, <1>9, <1>10, <1>11

-----------------------------------------------------------------------------
(* The restricted service keeps the invariant of the service.              *)

LEMMA HistoryKeepsIInv == IInv /\ [HistoryNext]_historyVars => IInv'
<1> SUFFICES ASSUME IInv, [HistoryNext]_historyVars PROVE IInv'
  OBVIOUS
<1>1. CASE Select
  BY <1>1, AcquireKeepsIInv DEF Select
<1>2. CASE Succeed
  BY <1>2, ChangeKeepsIInv DEF Succeed
<1>3. CASE [Next]_vars
  BY <1>3, NextKeepsIInv
<1>4. CASE Choose
  BY <1>4, <1>3 DEF Choose, Next
<1>5. CASE Wait
  BY <1>5, <1>3 DEF Wait, Next
<1>6. CASE UNCHANGED historyVars
  BY <1>6, <1>3 DEF historyVars
<1> QED BY <1>1, <1>2, <1>4, <1>5, <1>6 DEF HistoryNext

\* A selection that falls through to the strategy.
LEMMA RotatedPicks ==
  ASSUME IInv, NEW wanted, NEW allowed, AcquireMatching(wanted, allowed)
  PROVE  LET recs == RefreshedRecords
             cands == Candidates(recs, allowed)
         IN  /\ records' = recs /\ reply'.op = "Acquire"
             /\ reply'.preferred = wanted /\ reply'.allowed = allowed
             /\ strategy' = strategy /\ sticky' = sticky /\ created' = created
             /\ cands \subseteq 1 .. created /\ IsFiniteSet(cands)
             /\ \A id \in cands : recs[id] \in Record
             /\ Rotated <=> reply'.id # None /\ wanted \notin cands
             /\ SelectedAmong = cands
             /\ Rotated => /\ cands # {} /\ index' = NextIndex(cands)
                           /\ reply'.id \in StrategyPicks(recs, cands)
             /\ ~Rotated => index' = index
<1> DEFINE recs == RefreshedRecords
           cands == Candidates(recs, allowed)
<1>1. PICK saved \in SaveOutcomes :
       /\ RefreshAll(saved)
       /\ \/ /\ ~saved \/ cands = {}
             /\ Acquired(None, wanted, allowed, saved)
             /\ UNCHANGED index
          \/ /\ saved /\ wanted \in cands
             /\ Acquired(wanted, wanted, allowed, saved)
             /\ UNCHANGED index
          \/ /\ saved /\ wanted \notin cands /\ cands # {}
             /\ \E id \in StrategyPicks(recs, cands) : Acquired(id, wanted, allowed, saved)
             /\ index' = NextIndex(cands)
       /\ UNCHANGED <<strategy, sticky, created, removed, now>>
  BY DEF AcquireMatching
<1>2. records' = recs
  BY <1>1 DEF RefreshAll
<1>3. reply'.op = "Acquire" /\ reply'.preferred = wanted /\ reply'.allowed = allowed
  BY <1>1 DEF Acquired
<1>4. IsFiniteSet(cands) /\ None \notin cands
  BY CandidatesAreRoutable DEF IInv
<1>5. cands \subseteq 1 .. created /\ \A id \in cands : recs[id] \in Record
  <2>1. now \in Nat /\ \A id \in DOMAIN records : records[id] \in Record
    BY AccountsAssumption DEF IInv, TypeOK
  <2>2. DOMAIN recs = DOMAIN records /\ \A id \in DOMAIN records : recs[id] \in Record
    BY <2>1, RecordRefreshed DEF RefreshedRecords
  <2> QED BY <2>2 DEF Candidates, IInv, TypeOK
<1>6. SelectedAmong = cands
  BY <1>2, <1>3 DEF SelectedAmong
<1>7. Rotated <=> reply'.id # None /\ wanted \notin cands
  BY <1>2, <1>3 DEF Rotated
<1>8. StrategyPicks(recs, cands) \subseteq cands
  <2>1. index \in Nat
    BY AccountsAssumption DEF IInv, TypeOK
  <2> QED BY <1>4, <2>1, PicksAreCandidates
<1> HIDE DEF recs, cands
<1>9. CASE Rotated
  <2>1. cands # {} /\ index' = NextIndex(cands) /\ reply'.id \in StrategyPicks(recs, cands)
    BY <1>1, <1>7, <1>9 DEF Acquired
  <2> QED BY <1>1, <1>2, <1>3, <1>4, <1>5, <1>6, <1>7, <1>9, <2>1 DEF recs, cands
<1>10. CASE ~Rotated
  <2>1. index' = index
    BY <1>1, <1>4, <1>7, <1>8, <1>10 DEF Acquired
  <2> QED BY <1>1, <1>2, <1>3, <1>4, <1>5, <1>6, <1>7, <1>10, <2>1 DEF recs, cands
<1> QED BY <1>9, <1>10

-----------------------------------------------------------------------------
(* least_used.                                                             *)

BestStep ==
  LeastUsedApplies =>
    LET ranked == Ranked(records', SelectedAmong)
        picked == records'[reply'.id].quota
    IN /\ reply'.id \in ranked
       /\ \A i \in ranked :
            /\ picked.primary.used <= records'[i].quota.primary.used
            /\ Uniform(ranked) => NoBetter(records'[i].quota, picked)

LEMMA SelectIsBest ==
  ASSUME IInv, NEW wanted, NEW allowed, AcquireMatching(wanted, allowed)
  PROVE  BestStep
<1> SUFFICES ASSUME LeastUsedApplies
             PROVE  LET ranked == Ranked(records', SelectedAmong)
                        picked == records'[reply'.id].quota
                    IN /\ reply'.id \in ranked
                       /\ \A i \in ranked :
                            /\ picked.primary.used <= records'[i].quota.primary.used
                            /\ Uniform(ranked) => NoBetter(records'[i].quota, picked)
  BY DEF BestStep
<1> DEFINE recs == records'
           cands == SelectedAmong
           ranked == Ranked(recs, cands)
           id == reply'.id
<1>1. Rotated /\ ranked # {}
      /\ (strategy = "least_used" \/ (strategy = "sticky" /\ sticky \notin cands))
  BY DEF LeastUsedApplies
<1>2. /\ recs = RefreshedRecords /\ cands = Candidates(RefreshedRecords, allowed)
      /\ IsFiniteSet(cands) /\ \A i \in cands : recs[i] \in Record
      /\ id \in StrategyPicks(recs, cands)
  BY <1>1, RotatedPicks
<1> HIDE DEF recs, cands, id
<1>3. id \in LeastUsedPicks(recs, cands)
  BY <1>1, <1>2 DEF StrategyPicks, StickyServes
<1>4. index \in Nat
  BY AccountsAssumption DEF IInv, TypeOK
<1>5. /\ id \in ranked
      /\ \A i \in ranked : recs[id].quota.primary.used <= recs[i].quota.primary.used
      /\ (\A i, j \in ranked : Alike(recs[i].quota, recs[j].quota))
           => \A i \in ranked : NoBetter(recs[i].quota, recs[id].quota)
  BY <1>1, <1>2, <1>3, <1>4, PickIsBest
<1>6. Uniform(ranked) => \A i, j \in ranked : Alike(recs[i].quota, recs[j].quota)
  BY DEF Uniform, Alike, recs
<1> QED BY <1>5, <1>6 DEF recs, cands, id

LEMMA OnlySelectRotates == [HistoryNext]_historyVars /\ Rotated => Select \/ UNCHANGED historyVars
BY DEF HistoryNext, Rotated, Succeed, NoteSuccess, Choose, SetRotationStrategy, Saved, Wait, Tick

LEMMA BestNext == IInv /\ [HistoryNext]_historyVars => [BestStep]_historyVars
<1> SUFFICES ASSUME IInv, [HistoryNext]_historyVars, ~(UNCHANGED historyVars)
             PROVE  BestStep
  OBVIOUS
<1>1. CASE Select
  BY <1>1, SelectIsBest DEF Select
<1>2. CASE ~Rotated
  BY <1>2 DEF BestStep, LeastUsedApplies
<1> QED BY <1>1, <1>2, OnlySelectRotates

\* least_used never passes over a known quota for an unknown one, never picks a
\* higher primary percentage, and when the candidates' snapshots have the same
\* fields nothing in the document's comparator prefers another candidate: for
\* any number of accounts and any snapshots, in every order the sort can leave
\* (selectLeastUsed).
THEOREM LeastUsedPicksTheBest == HistorySpec => LeastUsedIsBest
<1>1. HistoryInit => IInv
  BY InitIsIInv DEF HistoryInit
<1>2. [BestStep]_historyVars
        => [LeastUsedApplies =>
              LET ranked == Ranked(records', SelectedAmong)
                  picked == records'[reply'.id].quota
              IN /\ reply'.id \in ranked
                 /\ \A i \in ranked :
                      /\ picked.primary.used <= records'[i].quota.primary.used
                      /\ Uniform(ranked) => NoBetter(records'[i].quota, picked)]_historyVars
  BY DEF BestStep
<1> QED BY <1>1, <1>2, HistoryKeepsIInv, BestNext, PTL DEF HistorySpec, LeastUsedIsBest

-----------------------------------------------------------------------------
(* Turns.                                                                  *)

\* The place x of n places, counted around.
Around(x, n) == IF x < n THEN x ELSE x - n

\* The recent selections took the places of the pool one after the other, and
\* the index stands at the next.
InTurn(ids, last, next) ==
  LET n == Cardinality(ids)
  IN  /\ Len(last) \in 1 .. n
      /\ \E b \in 0 .. n - 1 :
           /\ \A j \in 1 .. Len(last) : Place(ids, last[j]) = Around(b + j - 1, n)
           /\ next % n = Around(b + Len(last), n)

TurnsInv ==
  pool # {} => /\ pool \subseteq 1 .. MaxAccounts
               /\ recent \in Seq(pool)
               /\ InTurn(pool, recent, index)

LEMMA InTurnIsShared ==
  ASSUME NEW ids, NEW last \in Seq(ids), NEW next, IsFiniteSet(ids), InTurn(ids, last, next)
  PROVE  IsInjective(last)
<1> DEFINE n == Cardinality(ids)
<1>1. n \in Nat /\ Len(last) \in 1 .. n
  BY FS_CardinalityType DEF InTurn
<1>2. PICK b \in 0 .. n - 1 :
        \A j \in 1 .. Len(last) : Place(ids, last[j]) = Around(b + j - 1, n)
  BY DEF InTurn
<1> HIDE DEF n
<1> SUFFICES ASSUME NEW j \in 1 .. Len(last), NEW k \in 1 .. Len(last), last[j] = last[k]
             PROVE  j = k
  BY DEF IsInjective
<1>3. Around(b + j - 1, n) = Around(b + k - 1, n)
  BY <1>2
<1>4. j \in 1 .. n /\ k \in 1 .. n
  BY <1>1
<1> QED BY <1>1, <1>2, <1>3, <1>4 DEF Around

\* t has x after the elements of s, without the first of n.
Slides(t, s, x, n) ==
    /\ Len(s) < n => /\ Len(t) = Len(s) + 1 /\ t[Len(s) + 1] = x
                     /\ \A j \in 1 .. Len(s) : t[j] = s[j]
    /\ Len(s) = n => /\ Len(t) = n /\ t[n] = x
                     /\ \A j \in 1 .. n - 1 : t[j] = s[j + 1]

LEMMA LastOnes ==
  ASSUME NEW S, NEW s \in Seq(S), NEW x \in S, NEW n \in Nat, Len(s) \in 1 .. n
  PROVE  /\ LastN(Append(s, x), n) \in Seq(S)
         /\ Slides(LastN(Append(s, x), n), s, x, n)
<1> DEFINE u == Append(s, x)
           t == LastN(u, n)
<1>1. /\ u \in Seq(S) /\ Len(u) = Len(s) + 1 /\ Len(s) \in Nat /\ u[Len(s) + 1] = x
      /\ \A j \in 1 .. Len(s) : u[j] = s[j]
  OBVIOUS
<1> HIDE DEF u
<1>2. CASE Len(s) < n
  <2>1. t = u
    BY <1>1, <1>2 DEF LastN
  <2> HIDE DEF t
  <2>2. t \in Seq(S) /\ Slides(t, s, x, n)
    BY <1>1, <1>2, <2>1 DEF Slides
  <2> QED BY <2>2 DEF t, u
<1>3. CASE Len(s) = n
  <2>1. t = SubSeq(u, 2, n + 1)
    <3>1. Len(u) = n + 1 /\ ~(Len(u) <= n) /\ Len(u) - n + 1 = 2
      BY <1>1, <1>3
    <3>2. t = SubSeq(u, Len(u) - n + 1, Len(u))
      BY <3>1 DEF LastN
    <3> HIDE DEF t
    <3> QED BY <3>1, <3>2
  <2>2. 2 \in 1 .. Len(u) + 1 /\ n + 1 \in 1 .. Len(u)
    BY <1>1, <1>3
  <2> HIDE DEF t
  <2>3. /\ t \in Seq(S) /\ Len(t) = n
        /\ \A j \in 1 .. n : t[j] = u[j + 1]
    BY <1>1, <1>3, <2>1, <2>2
  <2>4. t[n] = x /\ \A j \in 1 .. n - 1 : t[j] = s[j + 1]
    BY <1>1, <1>3, <2>3
  <2>5. t \in Seq(S) /\ Slides(t, s, x, n)
    BY <1>3, <2>3, <2>4 DEF Slides
  <2> QED BY <2>5 DEF t, u
<1> QED BY <1>2, <1>3

\* The first selection from a pool, and one more.
LEMMA FirstTurn ==
  ASSUME NEW ids, IsFiniteSet(ids), ids # {}, NEW id \in ids, NEW next, NEW later,
         next % Cardinality(ids) \in 0 .. Cardinality(ids) - 1,
         Place(ids, id) = next % Cardinality(ids),
         later % Cardinality(ids) = After(next % Cardinality(ids), Cardinality(ids))
  PROVE  <<id>> \in Seq(ids) /\ InTurn(ids, <<id>>, later)
<1> DEFINE n == Cardinality(ids)
           b == next % n
<1>1. n \in Nat /\ n > 0 /\ b \in 0 .. n - 1 /\ Place(ids, id) = b /\ later % n = After(b, n)
  BY FS_CardinalityType, FS_EmptySet
<1> HIDE DEF n, b
<1>2. Around(b, n) = b /\ Around(b + 1, n) = After(b, n) /\ b + 1 - 1 = b
  BY <1>1 DEF Around, After
<1>3. Len(<<id>>) = 1 /\ <<id>>[1] = id /\ 1 \in 1 .. n
  BY <1>1
<1>4. \A j \in 1 .. 1 : Place(ids, <<id>>[j]) = Around(b + j - 1, n)
  BY <1>1, <1>2, <1>3
<1>5. InTurn(ids, <<id>>, later)
  BY <1>1, <1>2, <1>3, <1>4 DEF InTurn, n
<1> QED BY <1>5

LEMMA NextInTurn ==
  ASSUME NEW ids, IsFiniteSet(ids), NEW last \in Seq(ids), NEW id \in ids,
         NEW next, NEW later, InTurn(ids, last, next),
         Place(ids, id) = next % Cardinality(ids),
         later % Cardinality(ids) = After(next % Cardinality(ids), Cardinality(ids))
  PROVE  LET t == LastN(Append(last, id), Cardinality(ids))
         IN  t \in Seq(ids) /\ InTurn(ids, t, later)
<1> DEFINE n == Cardinality(ids)
           t == LastN(Append(last, id), n)
           m == Len(last)
<1>1. n \in Nat /\ m \in 1 .. n
  BY FS_CardinalityType DEF InTurn
<1>2. PICK b \in 0 .. n - 1 :
        /\ \A j \in 1 .. m : Place(ids, last[j]) = Around(b + j - 1, n)
        /\ next % n = Around(b + m, n)
  BY DEF InTurn
<1>3. /\ t \in Seq(ids)
      /\ m < n => /\ Len(t) = m + 1 /\ t[m + 1] = id
                  /\ \A j \in 1 .. m : t[j] = last[j]
      /\ m = n => /\ Len(t) = n /\ t[n] = id
                  /\ \A j \in 1 .. n - 1 : t[j] = last[j + 1]
  <2> HIDE DEF n
  <2>1. t \in Seq(ids) /\ Slides(t, last, id, n)
    BY <1>1, LastOnes
  <2> HIDE DEF t
  <2> QED BY <2>1 DEF Slides
<1>4. Place(ids, id) = Around(b + m, n) /\ later % n = After(Around(b + m, n), n)
  BY <1>2
<1> HIDE DEF t, m, n
<1>5. CASE m < n
  <2>1. Len(t) \in 1 .. n /\ Len(t) = m + 1
    BY <1>1, <1>3, <1>5
  <2>2. ASSUME NEW j \in 1 .. m + 1 PROVE Place(ids, t[j]) = Around(b + j - 1, n)
    <3>1. CASE j = m + 1
      <4>1. b + j - 1 = b + m
        BY <1>1, <3>1
      <4> QED BY <1>3, <1>4, <1>5, <3>1, <4>1
    <3>2. CASE j # m + 1
      <4>1. j \in 1 .. m
        BY <1>1, <3>2
      <4> QED BY <1>2, <1>3, <1>5, <4>1
    <3> QED BY <3>1, <3>2
  <2>3. After(Around(b + m, n), n) = Around(b + (m + 1), n)
    BY <1>1, <1>2, <1>5 DEF After, Around
  <2> QED BY <1>2, <1>3, <1>4, <2>1, <2>2, <2>3 DEF InTurn, n, t
<1>6. CASE m = n
  <2> DEFINE c == Around(b + 1, n)
  <2>1. c \in 0 .. n - 1
    BY <1>1, <1>2, <1>6 DEF Around
  <2>2. \A j \in 1 .. n - 1 : Around(c + j - 1, n) = Around(b + (j + 1) - 1, n)
    BY <1>1, <1>2 DEF Around
  <2>3. Around(c + n - 1, n) = Around(b + n, n) /\ Around(c + n, n) = After(Around(b + n, n), n)
    BY <1>1, <1>2, <1>6 DEF Around, After
  <2> HIDE DEF c
  <2>4. Len(t) = n /\ n \in 1 .. n
    BY <1>1, <1>3, <1>6
  <2>5. ASSUME NEW j \in 1 .. n PROVE Place(ids, t[j]) = Around(c + j - 1, n)
    <3>1. CASE j = n
      BY <1>3, <1>4, <1>6, <2>3, <3>1
    <3>2. CASE j # n
      <4>1. j \in 1 .. n - 1 /\ j + 1 \in 1 .. m
        BY <1>1, <1>6, <3>2
      <4>2. Place(ids, t[j]) = Around(b + (j + 1) - 1, n)
        BY <1>2, <1>3, <1>6, <4>1
      <4> QED BY <2>2, <4>1, <4>2
    <3> QED BY <3>1, <3>2
  <2> QED BY <1>3, <1>4, <1>6, <2>1, <2>3, <2>4, <2>5 DEF InTurn, n, t
<1>7. m < n \/ m = n
  BY <1>1
<1> QED BY <1>5, <1>6, <1>7

\* The comparison sorts the snapshots, and those no other is less than.
SortsIn(recs, ids) ==
  \A i, j, k \in ids :
    ~LessUsed(recs[j].quota, recs[i].quota) /\ ~LessUsed(recs[k].quota, recs[j].quota)
      => ~LessUsed(recs[k].quota, recs[i].quota)

BestIn(recs, ids) == {i \in ids : \A j \in ids : ~LessUsed(recs[j].quota, recs[i].quota)}

\* The tied prefix of a sorted order is the best, in the order of the identifiers.
LEMMA PrefixIsBest ==
  ASSUME NEW recs, NEW ids, IsFiniteSet(ids), Known(recs, ids), SortsIn(recs, ids),
         NEW order \in SortedOrders(recs, ids), NEW n \in DOMAIN order, Tied(recs, order, n)
  PROVE  /\ \A k \in 1 .. n : order[k] \in BestIn(recs, ids)
         /\ \A i \in BestIn(recs, ids) : \E k \in 1 .. n : order[k] = i
         /\ \A k \in 1 .. n - 1 : order[k] < order[k + 1]
<1> DEFINE N == Cardinality(ids)
           Less(i, j) == LessUsed(recs[i].quota, recs[j].quota)
           R == {p \in ids \X ids : ~Less(p[2], p[1])}
           B == BestIn(recs, ids)
<1>1. N \in Nat
  BY FS_CardinalityType
<1>2. /\ order \in [1 .. N -> ids] /\ IsInjective(order)
      /\ \A k \in 1 .. N - 1 : Before(recs, order[k], order[k + 1])
  BY DEF SortedOrders
<1>3. \A i \in ids : \E k \in 1 .. N : order[k] = i
  BY <1>2, OrderIsOnto
<1>4. \A a, b \in ids : <<a, b>> \in R <=> ~Less(b, a)
  OBVIOUS
<1>5. \A a, b, c \in ids : <<a, b>> \in R /\ <<b, c>> \in R => <<a, c>> \in R
  BY <1>4 DEF SortsIn
<1>6. \A i \in B : i \in ids /\ \A j \in ids : <<i, j>> \in R
  BY <1>4 DEF BestIn
<1>7. \A i \in ids : (\A j \in ids : <<i, j>> \in R) => i \in B
  BY <1>4 DEF BestIn
<1>8. /\ \A k \in 1 .. n : ~Less(order[1], order[k]) /\ ~Less(order[k], order[1])
      /\ n + 1 \in DOMAIN order => Less(order[1], order[n + 1]) \/ Less(order[n + 1], order[1])
  BY DEF Tied
<1>9. \A i, j \in ids : Before(recs, i, j) => ~Less(j, i)
  BY BeforeIsNotAfter
<1>10. \A i, j \in ids : Before(recs, i, j) /\ ~Less(i, j) => i < j
  BY DEF Before
<1>11. \A i \in ids : <<i, i>> \in R
  <2> SUFFICES ASSUME NEW i \in ids PROVE ~Less(i, i)
    BY <1>4
  <2> QED BY LessUsedIsStrict DEF Known
<1> HIDE DEF N, Less, R, B
<1>12. \A k \in 1 .. N - 1 : <<order[k], order[k + 1]>> \in R
  <2> SUFFICES ASSUME NEW k \in 1 .. N - 1 PROVE <<order[k], order[k + 1]>> \in R
    OBVIOUS
  <2>1. order[k] \in ids /\ order[k + 1] \in ids
    BY <1>1, <1>2
  <2> QED BY <1>2, <1>4, <1>9, <2>1
<1>13. \A j, k \in 1 .. N : j < k => <<order[j], order[k]>> \in R
  BY <1>1, <1>2, <1>5, <1>12, InOrder
<1>14. n \in 1 .. N /\ 1 \in 1 .. N /\ order[1] \in ids
  BY <1>1, <1>2
<1>15. \A i \in ids : <<order[1], i>> \in R
  <2> SUFFICES ASSUME NEW i \in ids PROVE <<order[1], i>> \in R
    OBVIOUS
  <2>1. PICK k \in 1 .. N : order[k] = i
    BY <1>3
  <2>2. CASE k = 1
    BY <1>11, <1>14, <2>1, <2>2
  <2>3. CASE k # 1
    <3>1. 1 < k
      BY <1>1, <2>3
    <3> QED BY <1>13, <1>14, <2>1, <3>1
  <2> QED BY <2>2, <2>3
<1>16. ASSUME NEW k \in 1 .. n PROVE order[k] \in B
  <2>1. k \in 1 .. N /\ order[k] \in ids
    BY <1>1, <1>2, <1>14
  <2>2. <<order[k], order[1]>> \in R
    BY <1>4, <1>8, <1>14, <2>1
  <2>3. \A i \in ids : <<order[k], i>> \in R
    BY <1>5, <1>14, <1>15, <2>1, <2>2
  <2> QED BY <1>7, <2>1, <2>3
<1>17. ASSUME NEW i \in B PROVE \E k \in 1 .. n : order[k] = i
  <2>1. i \in ids
    BY <1>6
  <2>2. PICK k \in 1 .. N : order[k] = i
    BY <1>3, <2>1
  <2>3. CASE k <= n
    BY <1>1, <2>2, <2>3
  <2>4. CASE k > n
    <3>1. n + 1 \in 1 .. N /\ (n + 1 = k \/ n + 1 < k)
      BY <1>1, <1>14, <2>4
    <3>2. order[n + 1] \in ids /\ n + 1 \in DOMAIN order
      BY <1>2, <3>1
    <3>3. Less(order[1], order[n + 1])
      <4>1. ~Less(order[n + 1], order[1])
        BY <1>4, <1>14, <1>15, <3>2
      <4> QED BY <1>8, <3>2, <4>1
    <3>4. <<order[n + 1], i>> \in R
      BY <1>11, <1>13, <2>1, <2>2, <3>1, <3>2
    <3>5. <<i, order[1]>> \in R
      BY <1>6, <1>14
    <3>6. <<order[n + 1], order[1]>> \in R
      BY <1>5, <1>14, <2>1, <3>2, <3>4, <3>5
    <3> QED BY <1>4, <1>14, <3>2, <3>3, <3>6
  <2> QED BY <1>1, <1>14, <2>3, <2>4
<1>18. ASSUME NEW k \in 1 .. n - 1 PROVE order[k] < order[k + 1]
  <2>1. /\ k \in 1 .. N - 1 /\ k \in 1 .. N /\ k + 1 \in 1 .. N
        /\ k \in 1 .. n /\ k + 1 \in 1 .. n
    BY <1>1, <1>14
  <2>2. order[k] \in ids /\ order[k + 1] \in ids /\ order[k + 1] \in B
    BY <1>2, <1>16, <2>1
  <2>3. ~Less(order[k], order[k + 1])
    BY <1>4, <1>6, <2>2
  <2> QED BY <1>2, <1>10, <2>1, <2>2, <2>3
<1> QED BY <1>16, <1>17, <1>18 DEF B

\* Where the comparison sorts the snapshots, the index counts through the
\* identifiers of the best in order.
LEMMA BestTakeTurns ==
  ASSUME index \in Nat, NEW recs, NEW cands, cands \subseteq Nat, IsFiniteSet(cands),
         Known(recs, Ranked(recs, cands)), SortsIn(recs, Ranked(recs, cands)),
         NEW id, id \in LeastUsedPicks(recs, cands), Ranked(recs, cands) # {}
  PROVE  id \in RoundRobinPicks(BestIn(recs, Ranked(recs, cands)))
<1> DEFINE ids == Ranked(recs, cands)
           B == BestIn(recs, ids)
<1>1. PICK order \in SortedOrders(recs, ids) : \E n \in DOMAIN order :
           /\ Tied(recs, order, n)
           /\ index % n \in 0 .. n - 1 /\ id = order[(index % n) + 1]
           /\ n \in 1 .. Cardinality(ids)
  BY PickIsTied
<1>2. PICK n \in DOMAIN order :
           /\ Tied(recs, order, n)
           /\ index % n \in 0 .. n - 1 /\ id = order[(index % n) + 1]
           /\ n \in 1 .. Cardinality(ids)
  BY <1>1
<1>3. /\ IsFiniteSet(ids) /\ Cardinality(ids) \in Nat /\ ids \subseteq Nat
      /\ B \subseteq ids
  BY FS_Subset, FS_CardinalityType DEF Ranked, BestIn
<1>4. order \in [1 .. Cardinality(ids) -> ids] /\ IsInjective(order)
  BY <1>1 DEF SortedOrders
<1>5. /\ \A k \in 1 .. n : order[k] \in B
      /\ \A i \in B : \E k \in 1 .. n : order[k] = i
      /\ \A k \in 1 .. n - 1 : order[k] < order[k + 1]
  BY <1>1, <1>2, <1>3, PrefixIsBest
<1> DEFINE f == [k \in 1 .. n |-> order[k]]
           m == index % n
<1>6. n \in Nat /\ 1 .. n \subseteq 1 .. Cardinality(ids)
  BY <1>2, <1>3
<1>7. B \subseteq Nat /\ IsFiniteSet(B)
  BY <1>3, FS_Subset
<1>8. m \in 0 .. n - 1 /\ id = order[m + 1] /\ m + 1 \in 1 .. n
  BY <1>2, <1>6
<1> HIDE DEF ids, B, m
<1>9. /\ f \in [1 .. n -> B] /\ IsInjective(f)
      /\ \A i \in B : \E k \in 1 .. n : f[k] = i
      /\ id = f[m + 1]
  BY <1>4, <1>5, <1>6, <1>8 DEF IsInjective
<1>10. \A j, k \in 1 .. n : j < k => f[j] < f[k]
  <2> DEFINE R == {p \in B \X B : p[1] < p[2]}
  <2>1. \A a, b \in B : <<a, b>> \in R <=> a < b
    OBVIOUS
  <2>2. \A a, b, c \in B : <<a, b>> \in R /\ <<b, c>> \in R => <<a, c>> \in R
    BY <1>7, <2>1
  <2>3. \A k \in 1 .. n - 1 : <<f[k], f[k + 1]>> \in R
    <3> SUFFICES ASSUME NEW k \in 1 .. n - 1 PROVE <<f[k], f[k + 1]>> \in R
      OBVIOUS
    <3>1. k \in 1 .. n /\ k + 1 \in 1 .. n
      BY <1>6
    <3>2. f[k] = order[k] /\ f[k + 1] = order[k + 1]
      BY <3>1
    <3>3. f[k] \in B /\ f[k + 1] \in B /\ f[k] < f[k + 1]
      BY <1>5, <3>1, <3>2
    <3> QED BY <2>1, <3>3
  <2> HIDE DEF R, f
  <2>4. \A j, k \in 1 .. n : j < k => <<f[j], f[k]>> \in R
    BY <1>6, <1>9, <2>2, <2>3, InOrder
  <2> SUFFICES ASSUME NEW j \in 1 .. n, NEW k \in 1 .. n, j < k PROVE f[j] < f[k]
    OBVIOUS
  <2>5. f[j] \in B /\ f[k] \in B
    BY <1>9
  <2> QED BY <2>1, <2>4, <2>5
<1> HIDE DEF f
<1> DEFINE Lower == {i \in B : i < id}
           g == [k \in 1 .. m |-> f[k]]
<1>11. m \in Nat /\ id \in B
  BY <1>6, <1>8, <1>9
<1>12. \A k \in 1 .. n : f[k] < id <=> k \in 1 .. m
  <2> SUFFICES ASSUME NEW k \in 1 .. n PROVE f[k] < id <=> k \in 1 .. m
    OBVIOUS
  <2>1. f[k] \in Nat /\ f[m + 1] \in Nat
    BY <1>7, <1>8, <1>9
  <2>2. k < m + 1 => f[k] < f[m + 1]
    BY <1>8, <1>10
  <2>3. m + 1 < k => f[m + 1] < f[k]
    BY <1>8, <1>10
  <2>4. k < m + 1 \/ k = m + 1 \/ m + 1 < k
    BY <1>11
  <2>5. k \in 1 .. m <=> k < m + 1
    BY <1>11
  <2> QED BY <1>9, <2>1, <2>2, <2>3, <2>4, <2>5
<1>13. Lower = {f[k] : k \in 1 .. m}
  <2>1. ASSUME NEW i \in Lower PROVE i \in {f[k] : k \in 1 .. m}
    <3>1. PICK k \in 1 .. n : f[k] = i
      BY <1>9
    <3> QED BY <1>12, <3>1
  <2>2. ASSUME NEW k \in 1 .. m PROVE f[k] \in Lower
    <3>1. k \in 1 .. n
      BY <1>6, <1>8
    <3> QED BY <1>9, <1>12, <3>1
  <2> QED BY <2>1, <2>2
<1>14. Cardinality(Lower) = m
  <2>1. g \in [1 .. m -> Lower]
    BY <1>13
  <2>2. IsInjective(g)
    <3>1. 1 .. m \subseteq 1 .. n
      BY <1>6, <1>8
    <3> QED BY <1>9, <3>1 DEF IsInjective
  <2>3. g \in Bijection(1 .. m, Lower)
    BY <1>13, <2>1, <2>2 DEF Bijection, Injection, Surjection
  <2>4. ExistsBijection(1 .. m, Lower)
    BY <2>3 DEF ExistsBijection
  <2>5. IsFiniteSet(1 .. m) /\ Cardinality(1 .. m) = m
    BY <1>11, IntervalSize
  <2> HIDE DEF Lower
  <2> QED BY <2>4, <2>5, FS_Bijection
<1>15. Cardinality(B) = n
  <2>1. f \in Bijection(1 .. n, B)
    BY <1>9 DEF Bijection, Injection, Surjection
  <2>2. ExistsBijection(1 .. n, B)
    BY <2>1 DEF ExistsBijection
  <2>3. IsFiniteSet(1 .. n) /\ Cardinality(1 .. n) = n
    BY <1>6, IntervalSize
  <2> QED BY <2>2, <2>3, FS_Bijection
<1> QED BY <1>11, <1>14, <1>15 DEF RoundRobinPicks, ids, B, m

\* Whatever pool is promised turns, the pick is the one whose turn it is.
LEMMA PickTakesTurn ==
  ASSUME IInv, NEW wanted, NEW allowed, AcquireMatching(wanted, allowed),
         Rotated, SharedAmong # {}
  PROVE  /\ SharedAmong \subseteq 1 .. MaxAccounts /\ IsFiniteSet(SharedAmong)
         /\ reply'.id \in SharedAmong
         /\ Place(SharedAmong, reply'.id) = index % Cardinality(SharedAmong)
         /\ index' = (index + 1) % IndexPeriod
<1> DEFINE recs == RefreshedRecords
           cands == Candidates(recs, allowed)
           id == reply'.id
           ranked == Ranked(recs, cands)
<1>1. /\ records' = recs /\ SelectedAmong = cands
      /\ cands \subseteq 1 .. created /\ IsFiniteSet(cands)
      /\ \A i \in cands : recs[i] \in Record
      /\ index' = NextIndex(cands) /\ id \in StrategyPicks(recs, cands)
  BY RotatedPicks
<1>2. /\ index \in Nat /\ strategy \in Strategies
      /\ created \in Nat /\ MaxAccounts \in Nat /\ created <= MaxAccounts
  BY AccountsAssumption DEF IInv, TypeOK
<1>3. cands \subseteq 1 .. MaxAccounts /\ cands \subseteq Nat
  BY <1>1, <1>2
<1> HIDE DEF recs, cands, id
<1>4. ~StickyServes(cands)
  BY <1>1 DEF SharedAmong, StickyServes
<1>5. index' = (index + 1) % IndexPeriod
  BY <1>1, <1>4 DEF NextIndex
<1>6. /\ SharedAmong \subseteq cands
      /\ id \in RoundRobinPicks(SharedAmong)
  <2>1. CASE strategy = "round_robin"
    <3>1. SharedAmong = cands /\ StrategyPicks(recs, cands) = RoundRobinPicks(cands)
      BY <1>1, <2>1 DEF SharedAmong, StrategyPicks, StickyServes
    <3> QED BY <1>1, <3>1
  <2>2. CASE strategy # "round_robin"
    <3>1. StrategyPicks(recs, cands) = LeastUsedPicks(recs, cands)
      BY <1>2, <1>4, <2>2 DEF StrategyPicks, Strategies
    <3>2. CASE ranked = {}
      <4>1. SharedAmong = cands /\ LeastUsedPicks(recs, cands) = RoundRobinPicks(cands)
        BY <1>1, <1>4, <3>2 DEF SharedAmong, LeastUsedPicks, StickyServes
      <4> QED BY <1>1, <3>1, <4>1
    <3>3. CASE ranked # {}
      <4>1. SharedAmong = Best(ranked) /\ Sorts(ranked)
        BY <1>1, <1>4, <2>2, <3>3 DEF SharedAmong, StickyServes
      <4>2. SortsIn(recs, ranked) /\ Best(ranked) = BestIn(recs, ranked)
        BY <1>1, <4>1 DEF Sorts, SortsIn, Best, BestIn, NoLess
      <4>3. Known(recs, ranked)
        BY <1>1, RankedIsKnown
      <4>4. id \in RoundRobinPicks(BestIn(recs, ranked))
        BY <1>1, <1>2, <1>3, <3>1, <3>3, <4>2, <4>3, BestTakeTurns
      <4>5. BestIn(recs, ranked) \subseteq cands
        BY DEF Ranked, BestIn
      <4> QED BY <4>1, <4>2, <4>4, <4>5
    <3> QED BY <3>2, <3>3
  <2> QED BY <2>1, <2>2
<1>7. IsFiniteSet(SharedAmong)
  BY <1>1, <1>6, FS_Subset
<1> QED BY <1>3, <1>5, <1>6, <1>7 DEF RoundRobinPicks, Place, id

LEMMA SelectKeepsTurns ==
  ASSUME IInv, TurnsInv, Select
  PROVE  TurnsInv'
<1>1. PICK wanted, allowed : AcquireMatching(wanted, allowed)
  BY DEF Select
<1>2. CASE ~Rotated
  <2>1. UNCHANGED <<pool, recent>> /\ index' = index
    BY <1>1, <1>2, RotatedPicks DEF Select, Remember
  <2> QED BY <2>1 DEF TurnsInv, InTurn, Place
<1>3. CASE Rotated /\ SharedAmong = {}
  BY <1>3 DEF Select, Remember, TurnsInv
<1>4. CASE Rotated /\ SharedAmong # {}
  <2> DEFINE ids == SharedAmong
             id == reply'.id
             n == Cardinality(ids)
  <2>1. /\ ids \subseteq 1 .. MaxAccounts /\ IsFiniteSet(ids) /\ ids # {}
        /\ id \in ids /\ Place(ids, id) = index % n /\ index' = (index + 1) % IndexPeriod
    BY <1>1, <1>4, PickTakesTurn
  <2>2. /\ pool' = ids
        /\ recent' = IF ids = pool THEN LastN(Append(recent, id), Cardinality(pool))
                     ELSE <<id>>
    BY <1>4 DEF Select, Remember
  <2> HIDE DEF ids, id
  <2>3. n \in 1 .. MaxAccounts
    <3>1. MaxAccounts \in Nat
      BY AccountsAssumption
    <3>2. IsFiniteSet(1 .. MaxAccounts) /\ Cardinality(1 .. MaxAccounts) = MaxAccounts
      BY <3>1, IntervalSize
    <3>3. n <= MaxAccounts
      <4>1. Cardinality(ids) <= Cardinality(1 .. MaxAccounts)
        BY <2>1, <3>2, FS_Subset, Zenon
      <4> QED BY <3>2, <4>1
    <3>4. n \in Nat /\ n # 0
      BY <2>1, FS_CardinalityType, FS_EmptySet
    <3> QED BY <3>1, <3>3, <3>4
  <2>4. index % n \in 0 .. n - 1 /\ index' % n = After(index % n, n)
    <3>1. index \in 0 .. IndexPeriod - 1
      BY DEF IInv, TypeOK
    <3> HIDE DEF n
    <3> QED BY <2>1, <2>3, <3>1, NextTurn
  <2>5. CASE ids # pool
    <3>1. <<id>> \in Seq(ids) /\ InTurn(ids, <<id>>, index')
      BY <2>1, <2>4, FirstTurn
    <3> QED BY <2>1, <2>2, <2>5, <3>1 DEF TurnsInv
  <2>6. CASE ids = pool
    <3>1. recent \in Seq(ids) /\ InTurn(ids, recent, index)
      BY <2>1, <2>6 DEF TurnsInv
    <3> DEFINE t == LastN(Append(recent, id), Cardinality(ids))
    <3>2. t \in Seq(ids) /\ InTurn(ids, t, index')
      BY <2>1, <2>4, <3>1, NextInTurn
    <3>3. recent' = t
      BY <2>2, <2>6
    <3> HIDE DEF t
    <3> QED BY <2>1, <2>2, <3>2, <3>3 DEF TurnsInv
  <2> QED BY <2>5, <2>6
<1> QED BY <1>2, <1>3, <1>4

LEMMA TurnsNext == IInv /\ TurnsInv /\ [HistoryNext]_historyVars => TurnsInv'
<1> SUFFICES ASSUME IInv, TurnsInv, [HistoryNext]_historyVars PROVE TurnsInv'
  OBVIOUS
<1>1. CASE Select
  BY <1>1, SelectKeepsTurns
<1>2. CASE UNCHANGED <<pool, recent, index>>
  BY <1>2 DEF TurnsInv, InTurn, Place
<1>3. CASE Choose
  BY <1>3 DEF Choose, TurnsInv
<1> QED BY <1>1, <1>2, <1>3 DEF HistoryNext, historyVars, vars, Succeed, NoteSuccess, Wait, Tick

LEMMA TurnsAreInjective == TurnsInv => TurnsAreShared
<1> SUFFICES ASSUME TurnsInv, pool # {} PROVE IsInjective(recent)
  BY DEF TurnsAreShared
<1>1. /\ pool \subseteq 1 .. MaxAccounts /\ recent \in Seq(pool) /\ InTurn(pool, recent, index)
  BY DEF TurnsInv
<1>2. IsFiniteSet(pool)
  <2>1. IsFiniteSet(1 .. MaxAccounts)
    BY IntervalSize, AccountsAssumption
  <2> QED BY <1>1, <2>1, FS_Subset
<1> QED BY <1>1, <1>2, InTurnIsShared

\* In as many consecutive selections from one pool as it has accounts, none is
\* selected twice: round robin, and round robin among those tied for the first
\* place, for any number of accounts, although one index serves every strategy,
\* filter and fallback (selectRoundRobin, selectLeastUsed).
THEOREM SelectionsTakeTurns == HistorySpec => []TurnsAreShared
<1>1. HistoryInit => IInv /\ TurnsInv
  BY InitIsIInv DEF HistoryInit, TurnsInv
<1> QED BY <1>1, HistoryKeepsIInv, TurnsNext, TurnsAreInjective, PTL DEF HistorySpec

-----------------------------------------------------------------------------
(* The account service under a request.                                    *)

\* A method that adds no account.
Contained == DOMAIN records' \subseteq DOMAIN records /\ index' \in Nat

LEMMA ChangeIsContained ==
  ASSUME index \in Nat, NEW id,
         \/ \E op, record : Update(op, id, record)
         \/ \E op : NotFound(op, id)
         \/ Remove(id) \/ NoteSuccess(id)
         \/ \E status : Patch(id, status)
         \/ \E quota : ObserveQuota(id, quota)
         \/ \E token : UpdateAuth(id, None, token)
         \/ MarkError(id, "expired")
         \/ \E until : SetCooldown(id, until)
  PROVE  Contained
<1>1. ASSUME NEW op, NotFound(op, id) PROVE Contained
  BY <1>1 DEF NotFound, Contained
<1>2. ASSUME NEW op, NEW record, Update(op, id, record) PROVE Contained
  BY <1>2 DEF Update, Contained
<1>3. ASSUME RemoveKnown(id) \/ NoteSuccess(id) PROVE Contained
  BY <1>3 DEF RemoveKnown, NoteSuccess, Restrict, Contained
<1>4. ASSUME \/ \E status : Patch(id, status)
             \/ \E quota : ObserveQuota(id, quota)
             \/ \E token : UpdateAuth(id, None, token)
             \/ MarkError(id, "expired")
             \/ \E until : SetCooldown(id, until)
      PROVE  (\E op : NotFound(op, id)) \/ (\E op, record : Update(op, id, record))
  BY <1>4 DEF Patch, ObserveQuota, UpdateAuth, MarkError, SetCooldown, Modify
<1> QED BY <1>1, <1>2, <1>3, <1>4 DEF Remove

LEMMA ClassifyIsContained ==
  ASSUME index \in Nat, NEW id, NEW err, Classify(id, err)
  PROVE  Contained
<1>1. CASE UNCHANGED vars
  BY <1>1 DEF vars, Contained
<1> QED BY <1>1, ChangeIsContained DEF Classify

LEMMA ReadIsContained ==
  ASSUME index \in Nat, Read
  PROVE  Contained
  BY DEF Read, RefreshAll, RefreshedRecords, Contained

LEMMA AcquireIsContained ==
  ASSUME index \in Nat, DOMAIN records \subseteq 1..MaxAccounts, NEW first, NEW allowed,
         AcquireMatching(first, allowed)
  PROVE  Contained /\ (reply'.ok => reply'.id \in DOMAIN records \cap allowed)
<1> DEFINE cands == Candidates(RefreshedRecords, allowed)
<1>1. cands \subseteq DOMAIN records \cap allowed
  BY DEF Candidates, RefreshedRecords
<1>2. IsFiniteSet(cands)
  <2>1. IsFiniteSet(1..MaxAccounts)
    BY FS_Interval, AccountsAssumption
  <2> QED BY <1>1, <2>1, FS_Subset
<1>3. StrategyPicks(RefreshedRecords, cands) \subseteq cands
  BY <1>2, PicksAreCandidates
<1> HIDE DEF cands
<1>4. PICK saved, id :
        Acquired(id, first, allowed, saved) /\ (id \in cands \/ id = None)
  BY <1>3 DEF AcquireMatching, cands
<1>5. reply'.id = id /\ reply'.ok = (id # None)
  BY <1>4 DEF Acquired
<1>6. Contained
  <2>1. DOMAIN records' \subseteq DOMAIN records
    BY DEF AcquireMatching, RefreshAll, RefreshedRecords
  <2>2. index' = index \/ index' = (index + 1) % IndexPeriod
    BY DEF AcquireMatching, NextIndex
  <2>3. (index + 1) % IndexPeriod \in Nat
    BY AccountsAssumption
  <2> QED BY <2>1, <2>2, <2>3 DEF Contained
<1> QED BY <1>1, <1>4, <1>5, <1>6

-----------------------------------------------------------------------------
(* The invariant.                                                          *)

Waiting == {"new", "acquire", "ready", "send", "sent", "report"}

\* How often the request was opened anew, for a reason that does not repeat.
Past == (IF \/ shape.kind = "implicit" /\ kind # "implicit"
            \/ shape.kind = "image" /\ kind # "direct"
         THEN 1 ELSE 0) + (IF stripped THEN 1 ELSE 0)

\* The account was sent the request since it was last opened, or may have been.
Spent(id) ==
  /\ at # "new"
  /\ id \in tried \/ (id = account /\ at \notin {"acquire", "ready", "send"})

\* An account is sent the request once for each opening.
SendsCounted ==
  \A id \in 1..MaxAccounts : sends[id] <= Past + (IF Spent(id) THEN 1 ELSE 0)

RequestTypes ==
  /\ at \in Waiting \cup {"deliver"} \cup Ended
  /\ sends \in [1..MaxAccounts -> Nat]
  /\ stripped \in BOOLEAN
  /\ kind = "direct" => shape.kind = "image"
  /\ kind = "implicit" => shape.kind = "implicit"

\* The account of an attempt was acquired since the request was last opened,
\* and the one that answers was asked.
AttemptIsNew ==
  /\ at \in {"send", "sent", "deliver"} => account \in 1..MaxAccounts
  /\ at = "sent" => sends[account] > 0
  /\ at \in {"ready", "send"} => account \notin tried
  /\ Pinned => tried = {}

FInv ==
  /\ DOMAIN records \subseteq 1..MaxAccounts /\ index \in Nat
  /\ RequestTypes /\ AttemptIsNew /\ SendsCounted
  /\ at \notin Ended => remembered = None

\* A step of Delivery, or one that it does not see.
Exchange == [OneAnswer!Next]_(OneAnswer!deliveryVars)

LEMMA PastIsSmall == Past \in 0..2
  BY DEF Past

\* A step of a request that is sent nowhere and whose client reads nothing.
LEMMA Unsent ==
  ASSUME FInv, Contained, at \in Waiting, at' \in (Waiting \ {"sent"}) \cup {"failed"},
         UNCHANGED <<shape, sends, remembered>>, stripped' \in BOOLEAN,
         kind' \in {kind, "plain", "bare"}, Pinned' => tried' = {},
         at' \in {"ready", "send"} => account' \notin tried',
         at' = "send" => account' \in 1..MaxAccounts,
         \/ Past' >= Past + 1
         \/ Past' >= Past /\ \A id \in 1..MaxAccounts : Spent(id) => Spent(id)'
  PROVE  FInv' /\ Exchange
<1>1. RequestTypes' /\ AttemptIsNew'
  BY DEF FInv, RequestTypes, AttemptIsNew, Waiting, Ended
<1>2. SendsCounted'
  <2>1. \A id \in 1..MaxAccounts : sends[id] \in Nat
    BY DEF FInv, RequestTypes
  <2>2. Past \in 0..2 /\ Past' \in 0..2
    BY DEF Past
  <2> QED BY <2>1, <2>2 DEF FInv, SendsCounted
<1>3. /\ at \notin Ended /\ at' \in Waiting \cup {"failed"}
      /\ at' \notin {"deliver", "served", "broken"}
  BY DEF Waiting, Ended
<1>4. Exchange
  <2>1. Client = "waiting" /\ Client' \in {"waiting", "failed"}
    BY <1>3 DEF Client, Waiting, Ended
  <2>2. /\ at \notin {"deliver", "served", "broken"}
        /\ (IF at \in {"deliver", "served", "broken"} THEN account ELSE None) = None
        /\ (IF at' \in {"deliver", "served", "broken"} THEN account' ELSE None) = None
    BY <1>3 DEF Waiting
  <2> QED BY <2>1, <2>2 DEF Exchange, OneAnswer!Next, OneAnswer!End, OneAnswer!deliveryVars
<1> QED BY <1>1, <1>2, <1>3, <1>4 DEF FInv, Contained, Ended

\* The client has read something, and the answer goes on or ends.
LEMMA Reads ==
  ASSUME FInv, Contained, at = "deliver", at' \in {"served", "broken"},
         UNCHANGED <<shape, kind, tried, account, stripped, sends>>,
         remembered' = remembered \/ (at' = "served" /\ remembered' \in {account, None})
  PROVE  FInv' /\ Exchange
<1>1. RequestTypes' /\ AttemptIsNew' /\ at' \in Ended
  BY DEF FInv, RequestTypes, AttemptIsNew, Ended, Pinned
<1>2. SendsCounted'
  BY DEF FInv, SendsCounted, Spent, Past
<1>3. remembered = None
  BY DEF FInv, Ended
<1>4. Exchange
  <2>1. Client = "reading" /\ Client' = at'
    BY DEF Client, Ended
  <2>2. /\ (IF at \in {"deliver", "served", "broken"} THEN account ELSE None) = account
        /\ (IF at' \in {"deliver", "served", "broken"} THEN account' ELSE None) = account
    OBVIOUS
  <2> QED BY <1>3, <2>1, <2>2 DEF Exchange, OneAnswer!Next, OneAnswer!End, OneAnswer!deliveryVars
<1> QED BY <1>1, <1>2, <1>4 DEF FInv, Contained

\* Others change the accounts.
LEMMA OthersStep ==
  ASSUME FInv, Contained, UNCHANGED request
  PROVE  FInv' /\ Exchange
<1>1. FInv'
  BY DEF FInv, Contained, request, RequestTypes, AttemptIsNew, SendsCounted, Spent, Past, Pinned
<1>2. Exchange
  BY DEF Exchange, request, OneAnswer!deliveryVars, Client
<1> QED BY <1>1, <1>2

-----------------------------------------------------------------------------
(* The steps of a request.                                                 *)

LEMMA UnchangedIsContained ==
  ASSUME index \in Nat, UNCHANGED vars
  PROVE  Contained
  BY DEF vars, Contained

LEMMA OpenStep ==
  ASSUME FInv, Open
  PROVE  FInv' /\ Exchange
<1>1. /\ Contained /\ at = "new" /\ at' = "acquire" /\ tried' = {}
      /\ UNCHANGED <<shape, kind, stripped, remembered, sends>>
  BY UnchangedIsContained DEF Open, FInv
<1>2. Past' = Past /\ \A id : ~Spent(id)
  BY <1>1 DEF Past, Spent
<1>3. Past' >= Past
  BY <1>2, PastIsSmall
<1> QED BY <1>1, <1>2, <1>3, Unsent DEF FInv, RequestTypes, Waiting

\* The request fails, or is to be reported to have failed.
LEMMA GivesUp ==
  ASSUME FInv, Contained, at \in Waiting \ {"new"}, NEW err,
         Goes("report", err) \/ Goes("failed", err)
  PROVE  FInv' /\ Exchange
<1>1. /\ at' \in {"report", "failed"}
      /\ UNCHANGED <<shape, kind, tried, account, stripped, remembered, sends>>
  BY DEF Goes
<1>2. Past' = Past /\ Past' >= Past
  BY <1>1, PastIsSmall DEF Past
<1>3. \A id : Spent(id) => Spent(id)'
  BY <1>1 DEF Spent
<1> QED BY <1>1, <1>2, <1>3, Unsent DEF FInv, RequestTypes, AttemptIsNew, Pinned, Waiting

\* The next account is to be tried.
LEMMA TriesNextStep ==
  ASSUME FInv, Contained, at \in {"ready", "sent"}, ~Pinned, NEW err, TriesNext(err)
  PROVE  FInv' /\ Exchange
<1>1. /\ at' = "acquire" /\ tried' = tried \cup {account}
      /\ UNCHANGED <<shape, kind, account, stripped, remembered, sends>>
  BY DEF TriesNext
<1>2. Past' = Past /\ Past' >= Past
  BY <1>1, PastIsSmall DEF Past
<1>3. \A id : Spent(id) => Spent(id)'
  BY <1>1 DEF Spent
<1> QED BY <1>1, <1>2, <1>3, Unsent DEF FInv, RequestTypes, Pinned, Waiting

\* The request is opened anew: without the previous response, without its
\* reasoning, or as a request for a response.
LEMMA FallsBackStep ==
  ASSUME FInv, Contained, at \in {"ready", "sent"}, FallsBack
  PROVE  FInv' /\ Exchange
<1>1. /\ kind = "implicit" /\ kind' = "plain" /\ at' = "acquire"
      /\ UNCHANGED <<shape, tried, stripped, remembered, sends>>
  BY DEF FallsBack
<1>2. Past' >= Past + 1
  BY <1>1 DEF Past, FInv, RequestTypes
<1> QED BY <1>1, <1>2, Unsent DEF FInv, RequestTypes, Pinned, Waiting

LEMMA ReopenedStep ==
  ASSUME FInv, Contained, at = "sent", kind # "implicit", ~stripped, Reopened
  PROVE  FInv' /\ Exchange
<1>1. /\ stripped' = TRUE /\ at' = "new" /\ kind' \in {"bare", "plain"}
      /\ UNCHANGED <<shape, tried, remembered, sends>>
  BY DEF Reopened
<1>2. Past' >= Past + 1
  BY <1>1 DEF Past
<1> QED BY <1>1, <1>2, Unsent DEF Pinned, Waiting

LEMMA ConvertsStep ==
  ASSUME FInv, Contained, at = "sent", kind = "direct", Converts
  PROVE  FInv' /\ Exchange
<1>1. /\ kind' = "plain" /\ at' = "new"
      /\ UNCHANGED <<shape, tried, stripped, remembered, sends>>
  BY DEF Converts
<1>2. Past' >= Past + 1
  BY <1>1 DEF Past, FInv, RequestTypes
<1> QED BY <1>1, <1>2, Unsent DEF FInv, RequestTypes, Pinned, Waiting

LEMMA AttemptFailsStep ==
  ASSUME FInv, at = "sent", NEW err \in Answers \cup {"cancelled"}, AttemptFails(err)
  PROVE  FInv' /\ Exchange
<1>1. index \in Nat /\ at \in Waiting \ {"new"}
  BY DEF FInv, Waiting
<1>2. CASE err = "absent" /\ Converts /\ UNCHANGED vars
  <2>1. kind = "direct"
    BY <1>2 DEF Answers, Upstream
  <2> QED BY <1>1, <1>2, <2>1, UnchangedIsContained, ConvertsStep
<1>3. CASE FallsBack /\ UNCHANGED vars
  BY <1>1, <1>3, UnchangedIsContained, FallsBackStep
<1>4. CASE Failing /\ TriesNext(err) /\ Classify(account, err)
  BY <1>1, <1>4, ClassifyIsContained, TriesNextStep DEF Failing
<1>5. CASE /\ kind # "implicit" /\ UNCHANGED vars
           /\ IF Reopens(err) THEN Reopened
              ELSE IF err = "cancelled" THEN Goes("failed", None) ELSE Goes("report", err)
  <2>1. CASE Reopens(err)
    BY <1>1, <1>5, <2>1, UnchangedIsContained, ReopenedStep DEF Reopens
  <2> QED BY <1>1, <1>5, <2>1, UnchangedIsContained, GivesUp
<1> QED BY <1>2, <1>3, <1>4, <1>5 DEF AttemptFails

LEMMA AcquireStep ==
  ASSUME FInv, Acquire \/ AcquirePinned
  PROVE  FInv' /\ Exchange
<1>1. at = "acquire" /\ index \in Nat
  BY DEF Acquire, AcquirePinned, FInv
<1>2. CASE Acquire
  <2>1. Contained /\ (reply'.ok => reply'.id \in Allowed)
    BY <1>2, AcquireIsContained DEF Acquire, FInv
  <2>2. CASE ~reply'.ok
    BY <1>1, <1>2, <2>1, <2>2, GivesUp DEF Acquire, Waiting
  <2>3. CASE reply'.ok
    <3>1. /\ at' = "ready" /\ account' = reply'.id /\ account' \notin tried
          /\ UNCHANGED <<shape, kind, tried, stripped, remembered, sends>>
      BY <1>2, <2>1, <2>3 DEF Acquire, Allowed
    <3>2. Past' = Past /\ Past' >= Past /\ \A id : Spent(id) => Spent(id)'
      BY <1>1, <3>1, PastIsSmall DEF Past, Spent
    <3> QED BY <1>1, <2>1, <3>1, <3>2, Unsent DEF FInv, RequestTypes, AttemptIsNew, Pinned, Waiting
  <2> QED BY <2>2, <2>3
<1>3. CASE AcquirePinned
  <2>1. /\ at' = "ready" /\ Pinned /\ Contained
        /\ UNCHANGED <<shape, kind, tried, account, stripped, remembered, sends>>
    BY <1>1, <1>3, UnchangedIsContained DEF AcquirePinned, Goes
  <2>2. Past' = Past /\ Past' >= Past /\ \A id : Spent(id) => Spent(id)'
    BY <1>1, <2>1, PastIsSmall DEF Past, Spent
  <2> QED BY <1>1, <2>1, <2>2, Unsent DEF FInv, RequestTypes, AttemptIsNew, Pinned, Waiting
<1> QED BY <1>2, <1>3

LEMMA ReadyStep ==
  ASSUME FInv, Ready
  PROVE  FInv' /\ Exchange
<1>1. /\ at = "ready" /\ index \in Nat
      /\ \/ UsableNow(account) /\ Sendable
         \/ NotReady
         \/ Goes("failed", None)
  BY DEF Ready, NoDefault, FInv
<1>2. Contained
  BY <1>1, ReadIsContained, ChangeIsContained DEF Ready
<1>3. CASE UsableNow(account) /\ Sendable
  <2>1. /\ at' = "send" /\ account' \in 1..MaxAccounts
        /\ UNCHANGED <<shape, kind, tried, account, stripped, remembered, sends>>
    BY <1>2, <1>3 DEF Sendable, UsableNow, Contained, FInv
  <2>2. Past' = Past /\ Past' >= Past /\ \A id : Spent(id) => Spent(id)'
    BY <1>1, <2>1, PastIsSmall DEF Past, Spent
  <2> QED BY <1>1, <1>2, <2>1, <2>2, Unsent DEF FInv, RequestTypes, AttemptIsNew, Pinned, Waiting
<1>4. CASE NotReady
  <2>1. CASE FallsBack
    BY <1>1, <1>2, <2>1, FallsBackStep
  <2>2. CASE Persists /\ TriesNext("unready")
    BY <1>1, <1>2, <2>2, TriesNextStep DEF Persists, Failing
  <2>3. CASE Goes("failed", None)
    BY <1>1, <1>2, <2>3, GivesUp DEF Waiting
  <2> QED BY <1>4, <2>1, <2>2, <2>3 DEF NotReady
<1> QED BY <1>1, <1>2, <1>3, <1>4, GivesUp DEF Waiting

\* The account was not sent the request since it was last opened.
LEMMA SendStep ==
  ASSUME FInv, Send
  PROVE  FInv' /\ Exchange
<1>1. /\ at = "send" /\ at' = "sent" /\ account \in 1..MaxAccounts /\ account \notin tried
      /\ sends' = [sends EXCEPT ![account] = IF @ < MaxSends THEN @ + 1 ELSE @]
      /\ UNCHANGED <<shape, kind, tried, account, stripped, remembered>>
      /\ Contained
  BY UnchangedIsContained DEF Send, FInv, AttemptIsNew
<1>2. /\ sends \in [1..MaxAccounts -> Nat] /\ sends' \in [1..MaxAccounts -> Nat]
      /\ sends'[account] > 0 /\ sends'[account] <= sends[account] + 1
      /\ \A id \in 1..MaxAccounts \ {account} : sends'[id] = sends[id]
  BY <1>1, FailoverAssumption DEF FInv, RequestTypes
<1>3. RequestTypes' /\ AttemptIsNew'
  BY <1>1, <1>2 DEF FInv, RequestTypes, AttemptIsNew, Pinned, Waiting
<1>4. SendsCounted'
  <2> SUFFICES ASSUME NEW id \in 1..MaxAccounts
               PROVE  sends'[id] <= Past + (IF Spent(id)' THEN 1 ELSE 0)
    BY <1>1 DEF SendsCounted, Past
  <2>1. sends[id] <= Past + (IF Spent(id) THEN 1 ELSE 0)
    BY DEF FInv, SendsCounted
  <2>2. CASE id = account
    <3>1. ~Spent(id) /\ Spent(id)'
      BY <1>1, <2>2 DEF Spent
    <3> QED BY <1>2, <2>1, <2>2, <3>1, PastIsSmall
  <2>3. CASE id # account
    <3>1. Spent(id)' <=> Spent(id)
      BY <1>1, <2>3 DEF Spent
    <3> QED BY <1>2, <2>1, <2>3, <3>1
  <2> QED BY <2>2, <2>3
<1>5. Exchange
  <2>1. Client = "waiting" /\ Client' = "waiting"
    BY <1>1 DEF Client, Ended
  <2>2. sends' = [sends EXCEPT ![account] = @ + 1] \/ sends' = sends
    BY <1>1, <1>2
  <2> QED BY <1>1, <2>1, <2>2
          DEF Exchange, OneAnswer!Next, OneAnswer!Ask, OneAnswer!deliveryVars
<1> QED BY <1>1, <1>3, <1>4, <1>5 DEF FInv, Contained, Ended

LEMMA SentStep ==
  ASSUME FInv, Sent
  PROVE  FInv' /\ Exchange
<1>1. CASE \E err \in Answers \cup {"cancelled"} : AttemptFails(err)
  BY <1>1, AttemptFailsStep DEF Sent
<1>2. CASE Goes("deliver", error) /\ UNCHANGED vars
  <2>1. /\ at = "sent" /\ at' = "deliver" /\ Contained
        /\ UNCHANGED <<shape, kind, tried, account, stripped, remembered, sends>>
    BY <1>2, UnchangedIsContained DEF Sent, Goes, FInv
  <2>2. RequestTypes' /\ AttemptIsNew' /\ SendsCounted'
    BY <2>1 DEF FInv, RequestTypes, AttemptIsNew, SendsCounted, Spent, Past, Pinned
  <2>3. Exchange
    <3>1. Client = "waiting" /\ Client' = "reading"
      BY <2>1 DEF Client, Ended
    <3>2. account \in 1..MaxAccounts /\ sends[account] > 0
      BY <2>1 DEF FInv, AttemptIsNew
    <3> QED BY <2>1, <3>1, <3>2
            DEF Exchange, OneAnswer!Next, OneAnswer!Begin, OneAnswer!deliveryVars
  <2> QED BY <2>1, <2>2, <2>3 DEF FInv, Contained, Ended
<1> QED BY <1>1, <1>2 DEF Sent

LEMMA DeliveryStep ==
  ASSUME FInv, Breaks \/ DirectEnds \/ ImagesEnd \/ Finishes
  PROVE  FInv' /\ Exchange
<1>1. at = "deliver" /\ index \in Nat
  BY DEF Breaks, DirectEnds, ImagesEnd, Finishes, FInv
<1>2. Contained
  BY <1>1, UnchangedIsContained, ClassifyIsContained, ChangeIsContained
     DEF Breaks, DirectEnds, ImagesEnd, Finishes
<1>3. /\ at' \in {"served", "broken"}
      /\ UNCHANGED <<shape, kind, tried, account, stripped, sends>>
      /\ remembered' = remembered \/ (at' = "served" /\ remembered' \in {account, None})
  BY DEF Breaks, BreaksOff, DirectEnds, ImagesEnd, Finishes, Goes
<1> QED BY <1>1, <1>2, <1>3, Reads

LEMMA ReportStep ==
  ASSUME FInv, Report
  PROVE  FInv' /\ Exchange
  BY ClassifyIsContained, GivesUp DEF Report, FInv, Waiting

LEMMA RequestIsExchange ==
  ASSUME FInv, [FailoverNext]_<<vars, request>>
  PROVE  FInv' /\ Exchange
<1>1. index \in Nat
  BY DEF FInv
<1>2. CASE RequestStep
  BY <1>2, OpenStep, AcquireStep, ReadyStep, SendStep, SentStep, DeliveryStep, ReportStep
     DEF RequestStep
<1>3. CASE Observe
  BY <1>1, <1>3, ChangeIsContained, OthersStep DEF Observe
<1>4. CASE Elsewhere
  <2>1. Tick => Contained
    BY <1>1 DEF Tick, Contained
  <2> QED BY <1>1, <1>4, <2>1, ChangeIsContained, OthersStep DEF Elsewhere
<1>5. CASE UNCHANGED <<vars, request>>
  BY <1>1, <1>5, UnchangedIsContained, OthersStep
<1> QED BY <1>2, <1>3, <1>4, <1>5 DEF FailoverNext

-----------------------------------------------------------------------------
(* The theorems.                                                           *)

LEMMA FirstIsExchange ==
  ASSUME FailoverInit
  PROVE  FInv /\ OneAnswer!Init
<1>1. /\ DOMAIN records \subseteq 1..MaxAccounts /\ index \in Nat
  BY InitIsIInv, AccountsAssumption DEF FailoverInit, IInv, TypeOK
<1>2. /\ at = "new" /\ tried = {} /\ stripped = FALSE /\ remembered = None
      /\ sends = [id \in 1..MaxAccounts |-> 0]
      /\ kind = IF shape.kind = "image" THEN "direct" ELSE shape.kind
      /\ shape \in Shape
  BY FailoverAssumption DEF FailoverInit
<1>3. shape.kind # "direct"
  BY <1>2 DEF Shape
<1>4. RequestTypes
  BY <1>2, <1>3 DEF RequestTypes, Waiting
<1>5. SendsCounted
  BY <1>2, PastIsSmall DEF SendsCounted, Spent
<1>6. OneAnswer!Init
  BY <1>2 DEF OneAnswer!Init, Client, Ended
<1> QED BY <1>1, <1>2, <1>4, <1>5, <1>6 DEF FInv, AttemptIsNew

\* A request is sent to one account at most once for each time it is opened,
\* and it is opened anew only for reasons that do not repeat (openStream,
\* resolveAndOpenRequest, handleImages), for any number of accounts and
\* whatever answers upstream gives.
THEOREM SendsAreFew == FailoverSpec => []FewSends
<1>1. FailoverInit => FInv
  BY FirstIsExchange
<1>2. FInv /\ [FailoverNext]_<<vars, request>> => FInv'
  BY RequestIsExchange
<1>3. FInv => FewSends
  <2> SUFFICES ASSUME FInv, NEW id \in 1..MaxAccounts
               PROVE  sends[id] <= 1 + (IF shape.kind = "implicit"
                                           \/ (shape.kind = "image" /\ kind # "direct")
                                        THEN 1 ELSE 0)
                                     + (IF stripped THEN 1 ELSE 0)
    BY DEF FewSends
  <2>1. sends[id] <= Past + 1 /\ sends[id] \in Nat
    BY PastIsSmall DEF FInv, SendsCounted, RequestTypes
  <2> QED BY <2>1 DEF Past
<1> QED BY <1>1, <1>2, <1>3, PTL DEF FailoverSpec

\* The request is an exchange as Delivery describes it, for any number of
\* accounts: nothing is sent once output has begun, the output is of one
\* account that was asked, and only that one is remembered, and only after a
\* whole answer.
THEOREM RequestIsOneAnswer == FailoverSpec => IsOneAnswer
<1>1. FailoverInit => FInv /\ OneAnswer!Init
  BY FirstIsExchange
<1>2. FInv /\ [FailoverNext]_<<vars, request>> => FInv' /\ Exchange
  BY RequestIsExchange
<1> QED BY <1>1, <1>2, PTL DEF FailoverSpec, IsOneAnswer, OneAnswer!Spec, Exchange

-----------------------------------------------------------------------------
(* A request gives up last.                                                *)

\* What GivesUpLast says of a step.
LastResort ==
  Failing /\ at # "report" /\ at' = "report" /\ error' \in DocumentedRetryable =>
    \A id \in DOMAIN records \cap (IF kind = "direct" THEN Ids ELSE Supporting) :
      Routable(records[id]) => id \in tried

\* The service under a request is as it always is, and a request to the image
\* endpoint names no model.
GInv == IInv /\ (kind = "direct" => ~named)

\* Cooldowns end at instants.
LEMMA CooldownsAreInstants ==
  ASSUME IInv, NEW id, NEW err
  PROVE  CooldownsOf(id, err) \subseteq Nat
<1>1. now \in Nat /\ CooldownLengths \subseteq Nat
  BY AccountsAssumption DEF IInv, TypeOK
<1>2. KnownQuota(id) \in Snapshot \cup {None}
  BY DEF KnownQuota, IInv, TypeOK, Record
<1>3. /\ PrimaryReset(KnownQuota(id), now) \in Nat \cup {None}
      /\ QuotaReset(KnownQuota(id), now) \in Nat \cup {None}
  BY <1>2 DEF PrimaryReset, QuotaReset, ActiveReset, Snapshot, Window, Instants
<1>4. ASSUME NEW reset \in Nat \cup {None} PROVE Cooldowns(reset) \subseteq Nat
  BY <1>1, <1>4 DEF Cooldowns
<1> QED BY <1>3, <1>4 DEF CooldownsOf

LEMMA ClassifyKeepsIInv ==
  ASSUME IInv, NEW id, NEW err, Classify(id, err)
  PROVE  IInv'
<1>1. CASE UNCHANGED vars
  BY <1>1, NextKeepsIInv
<1>2. CASE \E until \in CooldownsOf(id, err) : SetCooldown(id, until)
  BY <1>2, CooldownsAreInstants, ChangeKeepsIInv
<1> QED BY <1>1, <1>2, ChangeKeepsIInv DEF Classify

LEMMA ServiceIsKept ==
  ASSUME GInv, [FailoverNext]_<<vars, request>>
  PROVE  IInv'
<1> USE DEF GInv
<1>0. \A length \in CooldownLengths : now + length \in Nat
  BY AccountsAssumption DEF IInv, TypeOK
<1>1. UNCHANGED vars => IInv'
  BY NextKeepsIInv
<1>2. CASE Open \/ AcquirePinned \/ Send \/ UNCHANGED <<vars, request>>
  BY <1>1, <1>2 DEF Open, AcquirePinned, Send
<1>3. CASE Acquire
  BY <1>3, AcquireKeepsIInv DEF Acquire
<1>4. CASE Ready
  BY <1>0, <1>4, ReadKeepsIInv, ChangeKeepsIInv DEF Ready
<1>5. CASE Sent
  <2>1. ASSUME NEW err, AttemptFails(err) PROVE IInv'
    BY <1>1, <2>1, ClassifyKeepsIInv DEF AttemptFails
  <2> QED BY <1>1, <1>5, <2>1 DEF Sent
<1>6. CASE Breaks \/ DirectEnds \/ ImagesEnd \/ Finishes \/ Report
  BY <1>1, <1>6, ClassifyKeepsIInv, ChangeKeepsIInv
     DEF Breaks, DirectEnds, ImagesEnd, Finishes, Report
<1>7. CASE Observe
  BY <1>7, ChangeKeepsIInv DEF Observe
<1>8. CASE Elsewhere
  <2>1. Tick => IInv'
    BY NextKeepsIInv DEF Next
  <2> QED BY <1>0, <1>8, <2>1, ChangeKeepsIInv DEF Elsewhere
<1> QED BY <1>2, <1>3, <1>4, <1>5, <1>6, <1>7, <1>8 DEF FailoverNext, RequestStep

LEMMA ModelStaysUnnamed ==
  ASSUME GInv, [FailoverNext]_<<vars, request>>
  PROVE  (kind = "direct" => ~named)'
<1> USE DEF GInv
<1>1. UNCHANGED <<kind, named>> => (kind = "direct" => ~named)'
  OBVIOUS
<1>2. FallsBack \/ Converts \/ Reopened \/ Sendable => (kind = "direct" => ~named)'
  BY DEF FallsBack, Converts, Reopened, Sendable
<1>3. ASSUME NEW step, NEW err, Goes(step, err) \/ TriesNext(err) PROVE UNCHANGED <<kind, named>>
  BY <1>3 DEF Goes, TriesNext
<1>4. CASE Open \/ Acquire \/ AcquirePinned \/ Send \/ Report
  BY <1>1, <1>3, <1>4 DEF Open, Acquire, AcquirePinned, Send, Report
<1>5. CASE Ready
  BY <1>1, <1>2, <1>3, <1>5 DEF Ready, NotReady, NoDefault
<1>6. CASE Sent
  <2>1. ASSUME NEW err, AttemptFails(err) PROVE (kind = "direct" => ~named)'
    BY <1>1, <1>2, <1>3, <2>1 DEF AttemptFails
  <2> QED BY <1>1, <1>3, <1>6, <2>1 DEF Sent
<1>7. CASE Breaks \/ DirectEnds \/ ImagesEnd \/ Finishes
  BY <1>1, <1>3, <1>7 DEF Breaks, BreaksOff, DirectEnds, ImagesEnd, Finishes
<1>8. CASE Observe \/ Elsewhere \/ UNCHANGED <<vars, request>>
  BY <1>1, <1>8 DEF Observe, Elsewhere, request
<1> QED BY <1>4, <1>5, <1>6, <1>7, <1>8 DEF FailoverNext, RequestStep

\* Only a selection that found nothing gives up on an error that would be
\* retried.
LEMMA SelectionGivesUp ==
  ASSUME GInv, Acquire
  PROVE  LastResort
<1> SUFFICES ASSUME at' = "report", NEW id \in DOMAIN records,
                    id \in (IF kind = "direct" THEN Ids ELSE Supporting), Routable(records[id])
             PROVE  id \in tried
  BY DEF LastResort
<1>1. ~reply'.ok /\ reply'.saved
  BY DEF Acquire, Goes, HasLastError
<1>2. ExactStep
  BY AcquireIsExactStep DEF Acquire, GInv, IInv
<1>3. reply'.op = "Acquire" /\ reply'.id = None /\ reply'.allowed = Allowed
  <2>1. PICK saved, choice : Acquired(choice, preferred, Allowed, saved)
    BY DEF Acquire, AcquireMatching
  <2>2. /\ reply'.op = "Acquire" /\ reply'.id = choice
        /\ reply'.ok = (choice # None) /\ reply'.allowed = Allowed
    BY <2>1 DEF Acquired
  <2> QED BY <1>1, <2>2
<1>4. id \notin Allowed
  BY <1>1, <1>2, <1>3 DEF ExactStep
<1>5. id \in 1..created /\ id \in Ids
  BY AccountsAssumption DEF GInv, IInv, TypeOK, Ids
<1> QED BY <1>4, <1>5 DEF Allowed, GInv

LEMMA OnlySelectionGivesUp ==
  ASSUME GInv, [FailoverNext]_<<vars, request>>
  PROVE  LastResort
<1>1. CASE Acquire
  BY <1>1, SelectionGivesUp
<1>2. CASE at' # "report" \/ at = "report"
  BY <1>2 DEF LastResort
<1>3. CASE Open \/ AcquirePinned \/ Ready \/ Send
  BY <1>2, <1>3 DEF Open, AcquirePinned, Ready, Send, Goes, Sendable, NoDefault, NotReady,
                      FallsBack, TriesNext
<1>4. CASE Sent
  <2>1. ASSUME NEW err, AttemptFails(err) PROVE LastResort
    <3>1. CASE Converts \/ FallsBack \/ TriesNext(err) \/ Reopened \/ Goes("failed", None)
      BY <1>2, <3>1 DEF Converts, FallsBack, TriesNext, Reopened, Goes
    <3>2. CASE ~(Failing /\ err \in Retryable) /\ Goes("report", err)
      BY <3>2 DEF LastResort, Goes, DocumentedRetryable, Retryable
    <3> QED BY <2>1, <3>1, <3>2 DEF AttemptFails
  <2> QED BY <1>2, <1>4, <2>1 DEF Sent, Goes
<1>5. CASE Breaks \/ DirectEnds \/ ImagesEnd \/ Finishes \/ Report
  BY <1>2, <1>5 DEF Breaks, BreaksOff, DirectEnds, ImagesEnd, Finishes, Report, Goes
<1>6. CASE Observe \/ Elsewhere \/ UNCHANGED <<vars, request>>
  BY <1>2, <1>6 DEF Observe, Elsewhere, request
<1> QED BY <1>1, <1>3, <1>4, <1>5, <1>6 DEF FailoverNext, RequestStep

\* A request that fails over gives up on a retryable error only when it has
\* tried every account that could be routed to, for any number of accounts and
\* whatever becomes of them meanwhile (openStreamWithFailover,
\* openDirectImageWithFailover).
THEOREM GivingUpIsLast == FailoverSpec => GivesUpLast
<1>1. FailoverInit => GInv
  <2> SUFFICES ASSUME FailoverInit PROVE GInv
    OBVIOUS
  <2>1. IInv
    BY InitIsIInv DEF FailoverInit
  <2>2. kind = "direct" => shape.kind = "image" /\ named = shape.named
    BY FailoverAssumption DEF FailoverInit, Shape
  <2>3. shape \in Shapes
    BY DEF FailoverInit
  <2> QED BY <2>1, <2>2, <2>3, FailoverAssumption DEF GInv, Shape
<1>2. GInv /\ [FailoverNext]_<<vars, request>> => GInv'
  BY ServiceIsKept, ModelStaysUnnamed DEF GInv
<1>3. GInv /\ [FailoverNext]_<<vars, request>> => LastResort
  BY OnlySelectionGivesUp
<1> QED BY <1>1, <1>2, <1>3, PTL DEF FailoverSpec, GivesUpLast, LastResort

=============================================================================
