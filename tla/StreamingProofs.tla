--------------------------- MODULE StreamingProofs ---------------------------
(***************************************************************************)
(* What Streaming keeps, for any requests.                                 *)
(***************************************************************************)
EXTENDS Streaming, SequenceTheorems, FiniteSetTheorems, WellFoundedInduction, TLAPS

-----------------------------------------------------------------------------
(* Sequences.                                                              *)

LEMMA Appended ==
  ASSUME NEW S, NEW s \in Seq(S), NEW e \in S
  PROVE  /\ Append(s, e) \in Seq(S) /\ Len(Append(s, e)) = Len(s) + 1
         /\ Append(s, e)[Len(s) + 1] = e
         /\ \A m \in DOMAIN s : Append(s, e)[m] = s[m]
         /\ DOMAIN Append(s, e) = DOMAIN s \cup {Len(s) + 1} /\ Len(s) + 1 \notin DOMAIN s
BY AppendProperties

LEMMA SetThenSame ==
  ASSUME NEW S, NEW u \in Seq(S), NEW v \in Seq(S), Len(u) = Len(v), NEW n \in 1 .. Len(u),
         v[n] \in S, \A m \in 1 .. Len(u) : m # n => u[m] = v[m]
  PROVE  [u EXCEPT ![n] = v[n]] = v
<1> DEFINE t == [u EXCEPT ![n] = v[n]]
<1>1. /\ t \in Seq(S) /\ Len(t) = Len(u)
      /\ \A j \in 1 .. Len(u) : t[j] = IF j = n THEN v[n] ELSE u[j]
  BY ExceptSeq
<1> HIDE DEF t
<1>2. t = v
  BY <1>1, SeqEqual
<1> QED BY <1>2 DEF t

LEMMA Replaced ==
  ASSUME NEW S, NEW s \in Seq(S), NEW n \in DOMAIN s, NEW e \in S
  PROVE  /\ [s EXCEPT ![n] = e] \in Seq(S) /\ Len([s EXCEPT ![n] = e]) = Len(s)
         /\ DOMAIN [s EXCEPT ![n] = e] = DOMAIN s
         /\ \A m \in DOMAIN s : [s EXCEPT ![n] = e][m] = IF m = n THEN e ELSE s[m]
<1>1. DOMAIN s = 1 .. Len(s)
  OBVIOUS
<1> QED BY <1>1, ExceptSeq

-----------------------------------------------------------------------------
(* The steps of CaptureToolCall: they change the calls, the ids and the    *)
(* next index of an accumulator.                                           *)

With(a, calls, byId, next) ==
  [calls |-> calls, byId |-> byId, outputs |-> a.outputs, next |-> next, text |-> a.text,
   summary |-> a.summary, status |-> a.status, terminal |-> a.terminal, final |-> a.final]

LEMMA WithFields ==
  ASSUME NEW a, NEW c, NEW b, NEW nx, NEW x
  PROVE  /\ [With(a, c, b, nx) EXCEPT !.next = x] = With(a, c, b, x)
         /\ [With(a, c, b, nx) EXCEPT !.calls = x] = With(a, x, b, nx)
         /\ [With(a, c, b, nx) EXCEPT !.byId = x] = With(a, c, x, nx)
         /\ With(a, c, b, nx).next = nx /\ With(a, c, b, nx).calls = c
         /\ With(a, c, b, nx).byId = b
BY DEF With

NextAfter(next, index) == IF index >= next THEN index + 1 ELSE next

Shifted(calls, n, item, index) ==
  [calls EXCEPT ![n] = Upgraded([calls[n] EXCEPT !.index = index], item)]

LEMMA IndexedIs ==
  ASSUME NEW a, NEW c, NEW b, NEW nx, NEW index \in Nat
  PROVE  Indexed(With(a, c, b, nx), index)
           = With(a, c, b, NextAfter(nx, index))
BY WithFields DEF Indexed, OutputIndex, NextAfter

LEMMA RecognisedIs ==
  ASSUME NEW a, NEW c, NEW b, NEW nx, NEW n, NEW item, NEW index \in Nat
  PROVE  Recognised(With(a, c, b, nx), n, item, index)
           = With(a, Shifted(c, n, item, index), b, NextAfter(nx, index))
<1> DEFINE A == With(a, c, b, nx)
           I == Indexed(A, index)
           ci == [c EXCEPT ![n] = [c[n] EXCEPT !.index = index]]
           ni == NextAfter(nx, index)
           P == [I EXCEPT !.calls[n].index = index]
           cu == [P.calls EXCEPT ![n] = Upgraded(P.calls[n], item)]
<1>1. I = With(a, c, b, ni)
  BY IndexedIs
<1> HIDE DEF I
<1>2. P = [I EXCEPT !.calls = [I.calls EXCEPT ![n] = [I.calls[n] EXCEPT !.index = index]]]
  OBVIOUS
<1>3. P = With(a, ci, b, ni)
  BY <1>1, <1>2, WithFields
<1>4. Recognised(A, n, item, index) = [P EXCEPT !.calls[n] = Upgraded(P.calls[n], item)]
  BY DEF Recognised, I
<1> HIDE DEF P, A, ni
<1>5. Recognised(A, n, item, index) = [P EXCEPT !.calls = cu]
  BY <1>4
<1>6. P.calls = ci
  BY <1>3, WithFields
<1>7. cu = [ci EXCEPT ![n] = Upgraded(ci[n], item)]
  BY <1>6
<1> HIDE DEF cu
<1>8. Recognised(A, n, item, index) = With(a, cu, b, ni)
  BY <1>3, <1>5, WithFields
<1>9. ci = [c EXCEPT ![n] = [c[n] EXCEPT !.index = index]]
  OBVIOUS
<1> HIDE DEF ci
<1>10. n \in DOMAIN c => ci[n] = [c[n] EXCEPT !.index = index]
  BY <1>9
<1>11. cu = [c EXCEPT ![n] = Upgraded([c[n] EXCEPT !.index = index], item)]
  BY <1>7, <1>9, <1>10
<1> QED BY <1>8, <1>11 DEF A, ni, Shifted

LEMMA AliasesIs ==
  ASSUME NEW a, NEW c, NEW b \in [Ids -> Nat], NEW nx, NEW n, NEW item
  PROVE  RegisterAliases(With(a, c, b, nx), n, item)
           = With(a, c, [id \in Ids |-> IF id \in {c[n].call, c[n].item, CallKey(item), ItemKey(item)}
                                        THEN n ELSE b[id]], nx)
BY WithFields DEF RegisterAliases

LEMMA CallOfIs ==
  ASSUME NEW a, NEW c, NEW b, NEW nx, NEW item
  PROVE  CallOf(With(a, c, b, nx), item)
           = IF item.kind # "call" THEN 0
             ELSE IF b[CallKey(item)] # 0 THEN b[CallKey(item)] ELSE b[ItemKey(item)]
BY WithFields DEF CallOf

LEMMA InformIs ==
  ASSUME NEW a, NEW c, NEW b, NEW nx, NEW item, NEW piece
  PROVE  LET n == CallOf(With(a, c, b, nx), item)
         IN InformCall(With(a, c, b, nx), item, piece)
              = With(a, [c EXCEPT ![n] = Informed(c[n], item, piece)], b, nx)
BY WithFields DEF InformCall

-----------------------------------------------------------------------------
(* The calls an accumulator knows.  What was said of a call is whether its *)
(* call id and name are known, how much of its arguments, and its status.  *)

Sayings == [known : BOOLEAN, size : Nat, status : Statuses]

IsAccumulator(a) ==
  /\ a = With(a, a.calls, a.byId, a.next)
  /\ a.calls \in Seq(ToolCallStates) /\ a.byId \in [Ids -> Nat] /\ a.next \in Nat

\* The id that the record of a call goes by.
NameOf(items, said, i) == IF said[i].known THEN items[i].call ELSE items[i].id

\* The accumulator has a record of each call it heard of, and no other.
HasRecord(items, a, said, i) ==
  LET n == a.byId[items[i].id]
  IN /\ n \in DOMAIN a.calls
     /\ a.calls[n].item = items[i].id /\ a.calls[n].call = NameOf(items, said, i)
     /\ a.calls[n].named = said[i].known /\ a.calls[n].size = said[i].size
     /\ a.calls[n].status = said[i].status
     /\ a.byId[items[i].call] = IF said[i].known THEN n ELSE 0

Knows(items, a, said) ==
  /\ IsAccumulator(a)
  /\ \A i \in DOMAIN said : HasRecord(items, a, said, i)
  /\ \A i \in DOMAIN items \ DOMAIN said :
       items[i].kind = "call" => a.byId[items[i].id] = 0 /\ a.byId[items[i].call] = 0
  /\ \A n \in DOMAIN a.calls : \E i \in DOMAIN said : a.byId[items[i].id] = n

\* What may be said: of calls only.
IsSaid(items, said) ==
  /\ DOMAIN said \subseteq {i \in DOMAIN items : items[i].kind = "call"}
  /\ \A i \in DOMAIN said : said[i] \in Sayings

\* An item that tells of a call.
TellsOf(items, i, item) ==
  /\ item.kind = "call" /\ item.id = items[i].id /\ item.named \in BOOLEAN
  /\ item.call = IF item.named THEN items[i].call ELSE None
  /\ item.size \in Nat /\ item.status \in Statuses

\* What is said of a call once an item told of it.
Hears(said, i, item, piece) ==
  LET old == IF i \in DOMAIN said THEN said[i]
             ELSE [known |-> FALSE, size |-> 0, status |-> "in_progress"]
  IN [j \in DOMAIN said \cup {i} |->
        IF j = i THEN [known |-> old.known \/ item.named,
                       size |-> IF item.size > 0 THEN item.size ELSE old.size + piece,
                       status |-> IF item.status # "" THEN item.status ELSE old.status]
        ELSE said[j]]

\* The record that an item is about keeps its place and the writer's marks, and no
\* other record changes.
Place(items, a, said, i) == IF i \in DOMAIN said THEN a.byId[items[i].id] ELSE Len(a.calls) + 1

Turned(items, a, said, i, b) ==
  LET n == Place(items, a, said, i)
  IN /\ b.byId[items[i].id] = n /\ n \in DOMAIN b.calls
     /\ Len(b.calls) = IF i \in DOMAIN said THEN Len(a.calls) ELSE Len(a.calls) + 1
     /\ \A m \in DOMAIN a.calls : m # n => b.calls[m] = a.calls[m]
     /\ b.calls[n].added = (i \in DOMAIN said /\ a.calls[n].added)
     /\ b.calls[n].done = (i \in DOMAIN said /\ a.calls[n].done)
     /\ \A j \in DOMAIN said \ {i} : b.byId[items[j].id] = a.byId[items[j].id]
     /\ b = With(a, b.calls, b.byId, b.next)

\* The items of a turn: their ids are ids, and their calls have call ids.
AreItems(items) == items \in Seq(Shapes) /\ IsIdentified(items)

LEMMA ItemIds ==
  ASSUME NEW items, AreItems(items), NEW i \in DOMAIN items
  PROVE  /\ items[i].id \in Ids /\ items[i].id # None
         /\ items[i].kind = "call" => /\ items[i].call \in Ids /\ items[i].call # None
                                      /\ items[i].call # items[i].id
         /\ \A j \in DOMAIN items : j # i =>
              /\ items[j].id # items[i].id /\ items[j].call # items[i].id
              /\ items[j].id # items[i].call
              /\ items[i].kind = "call" => items[j].call # items[i].call
<1>1. items[i] \in Shapes
  BY DEF AreItems
<1>2. items[i].id \in Ids /\ items[i].call \in Ids \cup {None}
  BY <1>1 DEF Shapes
<1>3. (items[i].kind = "call") = (items[i].call # None)
  BY DEF AreItems, IsIdentified
<1>4. \A j \in DOMAIN items :
        /\ items[i].id # items[j].call /\ items[j].id # items[i].call
        /\ i # j => items[i].id # items[j].id
        /\ i # j /\ items[i].call # None => items[i].call # items[j].call
  BY DEF AreItems, IsIdentified
<1> QED BY <1>2, <1>3, <1>4, IdsAssumption

LEMMA KeysOfItem ==
  ASSUME NEW items, AreItems(items), NEW i \in DOMAIN items, items[i].kind = "call",
         NEW item, TellsOf(items, i, item)
  PROVE  /\ item.kind = "call" /\ ItemKey(item) = items[i].id
         /\ CallKey(item) = IF item.named THEN items[i].call ELSE items[i].id
         /\ CallKey(item) \in Ids /\ items[i].id \in Ids
         /\ item.size \in Nat /\ item.named \in BOOLEAN /\ item.status \in Statuses
BY ItemIds DEF TellsOf, CallKey, ItemKey

LEMMA RecordFields ==
  ASSUME NEW r \in ToolCallStates
  PROVE  /\ r.item \in Ids /\ r.call \in Ids /\ r.named \in BOOLEAN /\ r.size \in Nat
         /\ r.index \in Nat /\ r.status \in Statuses /\ r.added \in BOOLEAN
         /\ r.done \in BOOLEAN
BY DEF ToolCallStates

LEMMA SameRecord ==
  ASSUME NEW r \in ToolCallStates, NEW t \in ToolCallStates,
         r.item = t.item, r.call = t.call, r.named = t.named, r.size = t.size,
         r.index = t.index, r.status = t.status, r.added = t.added, r.done = t.done
  PROVE  r = t
BY DEF ToolCallStates

\* An item that says something of a call, and its record after it.
Says(item) == item.size \in Nat /\ item.named \in BOOLEAN /\ item.status \in Statuses

IsInformed(t, r, item, piece) ==
  /\ t \in ToolCallStates /\ t.item = r.item /\ t.call = r.call
  /\ t.named = (r.named \/ item.named)
  /\ t.size = IF item.size > 0 THEN item.size ELSE r.size + piece
  /\ t.index = r.index
  /\ t.status = IF item.status # "" THEN item.status ELSE r.status
  /\ t.added = r.added /\ t.done = r.done

LEMMA InformedIs ==
  ASSUME NEW r \in ToolCallStates, NEW item, Says(item), NEW piece \in Nat
  PROVE  IsInformed(Informed(r, item, piece), r, item, piece)
<1> DEFINE Told(u, v, w) == [r EXCEPT !.named = u, !.size = v, !.status = w]
           u0 == r.named \/ item.named
           v0 == IF item.size > 0 THEN item.size ELSE r.size + piece
           w0 == IF item.status # "" THEN item.status ELSE r.status
           t == Informed(r, item, piece)
<1>1. \A u \in BOOLEAN, v \in Nat, w \in Statuses :
        /\ Told(u, v, w) \in ToolCallStates
        /\ Told(u, v, w).item = r.item /\ Told(u, v, w).call = r.call
        /\ Told(u, v, w).named = u /\ Told(u, v, w).size = v
        /\ Told(u, v, w).index = r.index /\ Told(u, v, w).status = w
        /\ Told(u, v, w).added = r.added /\ Told(u, v, w).done = r.done
  <2> SUFFICES ASSUME NEW u \in BOOLEAN, NEW v \in Nat, NEW w \in Statuses
               PROVE  /\ Told(u, v, w) \in ToolCallStates
                      /\ Told(u, v, w).item = r.item /\ Told(u, v, w).call = r.call
                      /\ Told(u, v, w).named = u /\ Told(u, v, w).size = v
                      /\ Told(u, v, w).index = r.index /\ Told(u, v, w).status = w
                      /\ Told(u, v, w).added = r.added /\ Told(u, v, w).done = r.done
    BY DEF Told
  <2>1. Told(u, v, w) \in ToolCallStates
    BY DEF ToolCallStates
  <2>2. /\ Told(u, v, w).item = r.item /\ Told(u, v, w).call = r.call
        /\ Told(u, v, w).named = u /\ Told(u, v, w).size = v
        /\ Told(u, v, w).index = r.index /\ Told(u, v, w).status = w
        /\ Told(u, v, w).added = r.added /\ Told(u, v, w).done = r.done
    BY DEF ToolCallStates
  <2> QED BY <2>1, <2>2
<1>2. u0 \in BOOLEAN
  OBVIOUS
<1>3. v0 \in Nat /\ w0 \in Statuses
  <2>1. r.size \in Nat /\ r.status \in Statuses /\ item.size \in Nat /\ item.status \in Statuses
    BY RecordFields DEF Says
  <2>2. v0 \in Nat
    BY <2>1
  <2>3. w0 \in Statuses
    BY <2>1
  <2> QED BY <2>2, <2>3
<1>4. t = Told(u0, v0, w0)
  BY DEF Informed
<1> HIDE DEF Told, u0, v0, w0, t
<1>5. /\ t \in ToolCallStates
      /\ t.item = r.item /\ t.call = r.call /\ t.named = u0 /\ t.size = v0
      /\ t.index = r.index /\ t.status = w0 /\ t.added = r.added /\ t.done = r.done
  BY <1>1, <1>2, <1>3, <1>4
<1>6. IsInformed(t, r, item, piece)
  BY <1>5 DEF IsInformed, u0, v0, w0
<1> QED BY <1>6 DEF t

\* What is known when an item tells of a call.
Telling(items, a, said, i, item, index, piece) ==
  /\ AreItems(items) /\ IsSaid(items, said) /\ Knows(items, a, said)
  /\ i \in DOMAIN items /\ items[i].kind = "call" /\ TellsOf(items, i, item)
  /\ index \in Nat /\ piece \in Nat

\* The first record of a call, and the ids and the next index of an accumulator.
NewRecord(id, item, index, piece) ==
  [item |-> id, call |-> CallKey(item), named |-> item.named,
   size |-> IF item.size > 0 THEN item.size ELSE piece, index |-> index,
   status |-> IF item.status # "" THEN item.status ELSE "in_progress",
   added |-> FALSE, done |-> FALSE]

Aliased(byId, x, y, n) == [id \in Ids |-> IF id \in {x, y} THEN n ELSE byId[id]]

\* A first item makes a record of the call it is about.
LEMMA CaptureNew ==
  ASSUME NEW items, NEW a, NEW said, NEW i, NEW item, NEW index, NEW piece,
         Telling(items, a, said, i, item, index, piece), i \notin DOMAIN said
  PROVE  /\ NewRecord(items[i].id, item, index, piece) \in ToolCallStates
         /\ CaptureToolCall(a, item, index, piece)
              = With(a, Append(a.calls, NewRecord(items[i].id, item, index, piece)),
                     Aliased(a.byId, items[i].id, CallKey(item), Place(items, a, said, i)),
                     NextAfter(a.next, index))
<1> DEFINE n == Len(a.calls) + 1
           fresh == [item |-> ItemKey(item), call |-> CallKey(item),
                     named |-> FALSE, size |-> 0, index |-> index,
                     status |-> "in_progress", added |-> FALSE, done |-> FALSE]
           last == NewRecord(items[i].id, item, index, piece)
           longer == Append(a.calls, fresh)
           ids == Aliased(a.byId, items[i].id, CallKey(item), n)
           next == NextAfter(a.next, index)
           p == [Indexed(a, index) EXCEPT !.calls = Append(@, fresh)]
           q == RegisterAliases(p, n, item)
<1>0. /\ AreItems(items) /\ IsSaid(items, said) /\ Knows(items, a, said)
      /\ i \in DOMAIN items /\ items[i].kind = "call" /\ TellsOf(items, i, item)
      /\ index \in Nat /\ piece \in Nat
  BY DEF Telling
<1>1. /\ a = With(a, a.calls, a.byId, a.next) /\ a.calls \in Seq(ToolCallStates)
      /\ a.byId \in [Ids -> Nat] /\ Len(a.calls) \in Nat
  BY <1>0 DEF Knows, IsAccumulator
<1>2. /\ item.kind = "call" /\ ItemKey(item) = items[i].id
      /\ CallKey(item) = IF item.named THEN items[i].call ELSE items[i].id
      /\ CallKey(item) \in Ids /\ items[i].id \in Ids
      /\ item.size \in Nat /\ item.named \in BOOLEAN /\ item.status \in Statuses
  BY <1>0, KeysOfItem
<1>3. CallOf(a, item) = 0
  BY <1>0, <1>2 DEF CallOf, Knows
<1>4. fresh \in ToolCallStates /\ last \in ToolCallStates
  BY <1>0, <1>2 DEF ToolCallStates, Statuses, NewRecord
<1>5. Informed(fresh, item, piece) = last
  <2> HIDE DEF fresh, last
  <2>1. /\ fresh.item = items[i].id /\ fresh.call = CallKey(item) /\ fresh.named = FALSE
        /\ fresh.size = 0 /\ fresh.index = index /\ fresh.status = "in_progress"
        /\ fresh.added = FALSE /\ fresh.done = FALSE
    BY <1>2 DEF fresh
  <2>2. /\ last.item = items[i].id /\ last.call = CallKey(item) /\ last.named = item.named
        /\ last.size = (IF item.size > 0 THEN item.size ELSE piece) /\ last.index = index
        /\ last.status = (IF item.status # "" THEN item.status ELSE "in_progress")
        /\ last.added = FALSE /\ last.done = FALSE
    BY DEF last, NewRecord
  <2> DEFINE t == Informed(fresh, item, piece)
  <2>3. t = Informed(fresh, item, piece)
    OBVIOUS
  <2> HIDE DEF t
  <2>4. IsInformed(t, fresh, item, piece)
    BY <1>0, <1>2, <1>4, <2>3, InformedIs DEF Says
  <2>5. t.named = last.named /\ t.status = last.status
    BY <1>2, <2>1, <2>2, <2>4 DEF IsInformed
  <2>6. t.size = last.size
    <3>1. fresh.size + piece = piece
      BY <1>0, <2>1
    <3> QED BY <2>2, <2>4, <3>1 DEF IsInformed
  <2>7. t = last
    BY <1>4, <2>1, <2>2, <2>4, <2>5, <2>6, SameRecord DEF IsInformed
  <2> QED BY <2>3, <2>7
<1>6. fresh.call = CallKey(item) /\ fresh.item = items[i].id
  BY <1>2
<1>7. EnsureToolCallState(a, item, index) = q
  BY <1>0, <1>3 DEF EnsureToolCallState, OutputIndex
<1> HIDE DEF fresh, last
<1> DEFINE target == Append(a.calls, last)
<1>8. /\ longer \in Seq(ToolCallStates) /\ target \in Seq(ToolCallStates)
      /\ Len(longer) = Len(target) /\ n \in 1 .. Len(longer)
      /\ longer[n] = fresh /\ target[n] = last
      /\ \A m \in 1 .. Len(longer) : m # n => longer[m] = target[m]
  <2>1. DOMAIN a.calls = 1 .. Len(a.calls)
    BY <1>1
  <2>2. \A e \in ToolCallStates :
          /\ Append(a.calls, e) \in Seq(ToolCallStates) /\ Len(Append(a.calls, e)) = n
          /\ Append(a.calls, e)[n] = e
          /\ \A m \in DOMAIN a.calls : Append(a.calls, e)[m] = a.calls[m]
    BY <1>1, Appended
  <2> QED BY <1>1, <1>4, <2>1, <2>2
<1>9. Indexed(a, index) = With(a, a.calls, a.byId, next)
  <2>1. Indexed(a, index) = Indexed(With(a, a.calls, a.byId, a.next), index)
    BY <1>1
  <2> QED BY <1>0, <2>1, IndexedIs
<1>10. p = With(a, longer, a.byId, next)
  <2> DEFINE I == Indexed(a, index)
  <2>1. p = [I EXCEPT !.calls = Append(I.calls, fresh)]
    OBVIOUS
  <2> HIDE DEF I, next
  <2>2. I = With(a, a.calls, a.byId, next)
    BY <1>9 DEF I
  <2>3. I.calls = a.calls
    BY <2>2, WithFields
  <2>4. p = [I EXCEPT !.calls = longer]
    BY <2>1, <2>3
  <2> HIDE DEF p, longer
  <2> QED BY <2>2, <2>4, WithFields
<1> HIDE DEF p, longer, next
<1>11. q = With(a, longer, ids, next)
  <2>1. q = With(a, longer,
                 [id \in Ids |-> IF id \in {longer[n].call, longer[n].item, CallKey(item), ItemKey(item)}
                                 THEN n ELSE a.byId[id]], next)
    BY <1>1, <1>10, AliasesIs
  <2>2. {longer[n].call, longer[n].item, CallKey(item), ItemKey(item)} = {items[i].id, CallKey(item)}
    BY <1>2, <1>6, <1>8
  <2> QED BY <2>1, <2>2 DEF Aliased
<1>12. ids[CallKey(item)] = n /\ n # 0
  BY <1>1, <1>2 DEF Aliased
<1> HIDE DEF q, ids
<1>13. CallOf(With(a, longer, ids, next), item) = n
  BY <1>2, <1>12, CallOfIs
<1>14. InformCall(q, item, piece)
         = With(a, [longer EXCEPT ![n] = Informed(longer[n], item, piece)], ids, next)
  BY <1>11, <1>13, InformIs
<1> HIDE DEF n, target
<1>15. [longer EXCEPT ![n] = target[n]] = target
  BY <1>4, <1>8, SetThenSame
<1>16. InformCall(q, item, piece) = With(a, target, ids, next)
  BY <1>5, <1>8, <1>14, <1>15
<1>17. Place(items, a, said, i) = n
  BY DEF Place, n
<1> QED BY <1>4, <1>7, <1>16, <1>17 DEF CaptureToolCall, last, ids, next, target

\* A record agrees with what was said of its call.
Agrees(t, items, said, i) ==
  /\ t.item = items[i].id /\ t.call = NameOf(items, said, i) /\ t.named = said[i].known
  /\ t.size = said[i].size /\ t.status = said[i].status

\* What CaptureToolCall makes of a, when t is the new record of the call.
IsCaptured(b, t, items, a, said, i, item, index, piece) ==
  LET n == Place(items, a, said, i)
      told == Hears(said, i, item, piece)
  IN /\ t \in ToolCallStates /\ Agrees(t, items, told, i) /\ t.index = index
     /\ t.added = (i \in DOMAIN said /\ a.calls[n].added)
     /\ t.done = (i \in DOMAIN said /\ a.calls[n].done)
     /\ \E next \in Nat :
          b = With(a, IF i \in DOMAIN said THEN [a.calls EXCEPT ![n] = t] ELSE Append(a.calls, t),
                   Aliased(a.byId, items[i].id, NameOf(items, told, i), n), next)

LEMMA CapturedNew ==
  ASSUME NEW items, NEW a, NEW said, NEW i, NEW item, NEW index, NEW piece,
         Telling(items, a, said, i, item, index, piece), i \notin DOMAIN said
  PROVE  \E t : IsCaptured(CaptureToolCall(a, item, index, piece), t,
                           items, a, said, i, item, index, piece)
<1> DEFINE n == Place(items, a, said, i)
           last == NewRecord(items[i].id, item, index, piece)
           next == NextAfter(a.next, index)
           told == Hears(said, i, item, piece)
           b == CaptureToolCall(a, item, index, piece)
<1>0. /\ AreItems(items) /\ Knows(items, a, said) /\ index \in Nat
      /\ i \in DOMAIN items /\ items[i].kind = "call" /\ TellsOf(items, i, item)
  BY DEF Telling
<1>1. /\ last \in ToolCallStates
      /\ b = With(a, Append(a.calls, last), Aliased(a.byId, items[i].id, CallKey(item), n), next)
  <2>1. last \in ToolCallStates
    BY CaptureNew
  <2>2. b = With(a, Append(a.calls, last), Aliased(a.byId, items[i].id, CallKey(item), n), next)
    BY CaptureNew
  <2> QED BY <2>1, <2>2
<1>2. next \in Nat
  BY <1>0 DEF Knows, IsAccumulator, NextAfter
<1>4. /\ CallKey(item) = IF item.named THEN items[i].call ELSE items[i].id
      /\ item.named \in BOOLEAN /\ item.size \in Nat
  BY <1>0, KeysOfItem
<1>5. /\ told[i].known = item.named
      /\ told[i].size = IF item.size > 0 THEN item.size ELSE piece
      /\ told[i].status = IF item.status # "" THEN item.status ELSE "in_progress"
  <2>1. told[i].known = (FALSE \/ item.named)
    BY DEF Hears
  <2>2. told[i].size = IF item.size > 0 THEN item.size ELSE 0 + piece
    BY DEF Hears
  <2>3. told[i].status = IF item.status # "" THEN item.status ELSE "in_progress"
    BY DEF Hears
  <2>4. 0 + piece = piece
    BY DEF Telling
  <2> HIDE DEF told
  <2> QED BY <1>4, <2>1, <2>2, <2>3, <2>4
<1>6. CallKey(item) = NameOf(items, told, i)
  BY <1>4, <1>5 DEF NameOf
<1>7. Agrees(last, items, told, i)
  BY <1>5, <1>6 DEF Agrees, NewRecord
<1>8. last.added = FALSE /\ last.done = FALSE /\ last.index = index
  BY DEF NewRecord
<1> HIDE DEF last, next, told, b
<1>9. IsCaptured(b, last, items, a, said, i, item, index, piece)
  BY <1>1, <1>2, <1>6, <1>7, <1>8 DEF IsCaptured, told
<1> QED BY <1>9 DEF b

LEMMA UpgradedIs ==
  ASSUME NEW items, AreItems(items), NEW said, IsSaid(items, said), NEW i \in DOMAIN said,
         NEW r \in ToolCallStates, Agrees(r, items, said, i),
         NEW item, TellsOf(items, i, item), NEW index \in Nat, NEW piece \in Nat
  PROVE  LET u == Upgraded([r EXCEPT !.index = index], item)
         IN /\ u \in ToolCallStates /\ u.item = items[i].id
            /\ u.call = NameOf(items, Hears(said, i, item, piece), i)
            /\ u.named = r.named /\ u.size = r.size /\ u.status = r.status
            /\ u.index = index /\ u.added = r.added /\ u.done = r.done
<1> DEFINE p == [r EXCEPT !.index = index]
           told == Hears(said, i, item, piece)
           q == [p EXCEPT !.item = ItemKey(item), !.call = CallKey(item)]
<1>1. /\ i \in DOMAIN items /\ items[i].kind = "call"
      /\ said[i].known \in BOOLEAN
  BY DEF IsSaid, Sayings
<1>2. /\ ItemKey(item) = items[i].id /\ items[i].id \in Ids
      /\ CallKey(item) = IF item.named THEN items[i].call ELSE items[i].id
      /\ CallKey(item) \in Ids /\ item.named \in BOOLEAN
  BY <1>1, KeysOfItem
<1>3. items[i].call # items[i].id
  BY <1>1, ItemIds
<1>4. /\ p \in ToolCallStates /\ p.item = r.item /\ p.call = r.call
      /\ p.named = r.named /\ p.size = r.size /\ p.status = r.status
      /\ p.index = index /\ p.added = r.added /\ p.done = r.done
  BY DEF ToolCallStates
<1> HIDE DEF p
<1>5. /\ q \in ToolCallStates /\ q.item = items[i].id /\ q.call = CallKey(item)
      /\ q.named = p.named /\ q.size = p.size /\ q.status = p.status
      /\ q.index = p.index /\ q.added = p.added /\ q.done = p.done
  BY <1>2, <1>4 DEF ToolCallStates
<1>6. Upgraded(p, item) = IF p.item = p.call THEN q ELSE p
  BY DEF Upgraded
<1> HIDE DEF q
<1>7. told[i].known = (said[i].known \/ item.named)
  BY DEF Hears
<1> HIDE DEF told
<1>8. p.item = items[i].id /\ p.call = NameOf(items, said, i)
  BY <1>4 DEF Agrees
<1>9. CASE said[i].known
  <2>1. p.call = items[i].call /\ NameOf(items, told, i) = items[i].call
    BY <1>7, <1>8, <1>9 DEF NameOf
  <2>2. Upgraded(p, item) = p
    BY <1>3, <1>6, <1>8, <2>1
  <2> QED BY <1>4, <1>8, <2>1, <2>2 DEF p, told
<1>10. CASE ~said[i].known
  <2>1. p.call = items[i].id /\ NameOf(items, told, i) = CallKey(item)
    BY <1>2, <1>7, <1>8, <1>10 DEF NameOf
  <2>2. Upgraded(p, item) = q
    BY <1>6, <1>8, <2>1
  <2> QED BY <1>4, <1>5, <2>1, <2>2 DEF p, told
<1> QED BY <1>1, <1>9, <1>10

\* What an item tells of the ids of a call goes into its record.
IsUpgraded(u, items, said, i, r, item, index, piece) ==
  /\ u \in ToolCallStates /\ u.item = items[i].id
  /\ u.call = NameOf(items, Hears(said, i, item, piece), i)
  /\ u.named = r.named /\ u.size = r.size /\ u.status = r.status
  /\ u.index = index /\ u.added = r.added /\ u.done = r.done

LEMMA CapturedOld ==
  ASSUME NEW items, NEW a, NEW said, NEW i, NEW item, NEW index, NEW piece,
         Telling(items, a, said, i, item, index, piece), i \in DOMAIN said
  PROVE  \E t : IsCaptured(CaptureToolCall(a, item, index, piece), t,
                           items, a, said, i, item, index, piece)
<1> DEFINE n == Place(items, a, said, i)
           told == Hears(said, i, item, piece)
           r == a.calls[n]
           u == Upgraded([r EXCEPT !.index = index], item)
           t == Informed(u, item, piece)
           c == [a.calls EXCEPT ![n] = u]
           d == [a.calls EXCEPT ![n] = t]
           next == NextAfter(a.next, index)
           ids == Aliased(a.byId, items[i].id, NameOf(items, told, i), n)
           p == Recognised(a, n, item, index)
           q == RegisterAliases(p, n, item)
<1>0. /\ AreItems(items) /\ IsSaid(items, said) /\ Knows(items, a, said)
      /\ i \in DOMAIN items /\ items[i].kind = "call" /\ TellsOf(items, i, item)
      /\ index \in Nat /\ piece \in Nat
  BY DEF Telling
<1>1. /\ a = With(a, a.calls, a.byId, a.next) /\ a.calls \in Seq(ToolCallStates)
      /\ a.byId \in [Ids -> Nat] /\ a.next \in Nat
  BY <1>0 DEF Knows, IsAccumulator
<1>2. /\ n = a.byId[items[i].id] /\ n \in DOMAIN a.calls /\ Agrees(r, items, said, i)
      /\ a.byId[items[i].call] = IF said[i].known THEN n ELSE 0
  BY <1>0 DEF Knows, HasRecord, Agrees, Place
<1>3. /\ item.kind = "call" /\ ItemKey(item) = items[i].id
      /\ CallKey(item) = IF item.named THEN items[i].call ELSE items[i].id
      /\ CallKey(item) \in Ids /\ items[i].id \in Ids
      /\ item.size \in Nat /\ item.named \in BOOLEAN /\ item.status \in Statuses
  BY <1>0, KeysOfItem
<1>4. n # 0
  BY <1>1, <1>2
<1>5. CallOf(a, item) = n
  BY <1>2, <1>3, <1>4 DEF CallOf
<1>6. r \in ToolCallStates
  BY <1>1, <1>2
<1> HIDE DEF n, r
<1>7. IsUpgraded(u, items, said, i, r, item, index, piece)
  BY <1>0, <1>2, <1>6, UpgradedIs DEF IsUpgraded
<1>8. EnsureToolCallState(a, item, index) = q
  BY <1>4, <1>5 DEF EnsureToolCallState
<1>9. p = With(a, c, a.byId, next)
  <2>1. p = Recognised(With(a, a.calls, a.byId, a.next), n, item, index)
    BY <1>1
  <2>2. @ = With(a, Shifted(a.calls, n, item, index), a.byId, next)
    BY <1>0, RecognisedIs
  <2> QED BY <2>1, <2>2 DEF r, Shifted
<1> HIDE DEF p, u, next
<1>10. c[n] = u /\ c \in Seq(ToolCallStates) /\ Len(c) = Len(a.calls)
       /\ DOMAIN c = DOMAIN a.calls
  BY <1>1, <1>2, <1>7, Replaced DEF IsUpgraded
<1> HIDE DEF c
<1>11. told[i].known = (said[i].known \/ item.named)
  BY DEF Hears
<1> HIDE DEF told
<1>12. q = With(a, c, ids, next)
  <2>1. q = With(a, c,
                 [id \in Ids |-> IF id \in {c[n].call, c[n].item, CallKey(item), ItemKey(item)}
                                 THEN n ELSE a.byId[id]], next)
    BY <1>1, <1>9, AliasesIs
  <2>2. c[n].call = NameOf(items, told, i) /\ c[n].item = items[i].id
    BY <1>7, <1>10 DEF IsUpgraded, told
  <2>3. CallKey(item) \in {items[i].id, NameOf(items, told, i)}
    BY <1>3, <1>11 DEF NameOf
  <2>4. {c[n].call, c[n].item, CallKey(item), ItemKey(item)}
          = {items[i].id, NameOf(items, told, i)}
    BY <1>3, <2>2, <2>3
  <2> QED BY <2>1, <2>4 DEF Aliased
<1>13. ids[CallKey(item)] = n
  BY <1>3, <1>11 DEF Aliased, NameOf
<1> HIDE DEF q, ids
<1>14. CallOf(With(a, c, ids, next), item) = n
  BY <1>3, <1>4, <1>13, CallOfIs
<1>15. InformCall(q, item, piece)
         = With(a, [c EXCEPT ![n] = Informed(c[n], item, piece)], ids, next)
  BY <1>12, <1>14, InformIs
<1>16. IsInformed(t, u, item, piece)
  BY <1>0, <1>3, <1>7, InformedIs DEF Says, IsUpgraded
<1> DEFINE e == [c EXCEPT ![n] = t]
<1>17. e = [c EXCEPT ![n] = Informed(c[n], item, piece)]
  BY <1>10
<1> HIDE DEF t
<1>18. e = d
  BY DEF c
<1> HIDE DEF e, d
<1>19. CaptureToolCall(a, item, index, piece) = With(a, d, ids, next)
  BY <1>8, <1>15, <1>17, <1>18 DEF CaptureToolCall
<1>20. Agrees(t, items, told, i)
  <2>1. /\ t.item = items[i].id /\ t.call = NameOf(items, told, i)
        /\ t.named = (r.named \/ item.named)
        /\ t.size = IF item.size > 0 THEN item.size ELSE r.size + piece
        /\ t.status = IF item.status # "" THEN item.status ELSE r.status
    BY <1>7, <1>16 DEF IsUpgraded, IsInformed, told
  <2>2. r.named = said[i].known /\ r.size = said[i].size /\ r.status = said[i].status
    BY <1>2 DEF Agrees
  <2>3. t.named = told[i].known
    BY <1>11, <2>1, <2>2
  <2>4. t.size = told[i].size
    BY <2>1, <2>2 DEF told, Hears
  <2>5. t.status = told[i].status
    BY <2>1, <2>2 DEF told, Hears
  <2> QED BY <2>1, <2>3, <2>4, <2>5 DEF Agrees
<1>21. /\ t \in ToolCallStates /\ t.index = index /\ t.added = r.added /\ t.done = r.done
  BY <1>7, <1>16 DEF IsUpgraded, IsInformed
<1>22. next \in Nat
  BY <1>0, <1>1 DEF next, NextAfter
<1>23. r.added \in BOOLEAN /\ r.done \in BOOLEAN
  BY <1>6, RecordFields
<1>24. IsCaptured(CaptureToolCall(a, item, index, piece), t, items, a, said, i, item, index, piece)
  BY <1>19, <1>20, <1>21, <1>22, <1>23 DEF IsCaptured, told, d, ids, n, r
<1> QED BY <1>24

LEMMA HearsSaid ==
  ASSUME NEW items, NEW a, NEW said, NEW i, NEW item, NEW index, NEW piece,
         Telling(items, a, said, i, item, index, piece)
  PROVE  LET told == Hears(said, i, item, piece)
         IN /\ IsSaid(items, told) /\ DOMAIN told = DOMAIN said \cup {i}
            /\ \A j \in DOMAIN said : j # i => told[j] = said[j]
            /\ i \in DOMAIN said => (said[i].known => told[i].known)
<1> DEFINE told == Hears(said, i, item, piece)
           old == IF i \in DOMAIN said THEN said[i]
                  ELSE [known |-> FALSE, size |-> 0, status |-> "in_progress"]
           known == old.known \/ item.named
           size == IF item.size > 0 THEN item.size ELSE old.size + piece
           status == IF item.status # "" THEN item.status ELSE old.status
<1>1. /\ DOMAIN told = DOMAIN said \cup {i}
      /\ \A j \in DOMAIN said : j # i => told[j] = said[j]
      /\ told[i] = [known |-> known, size |-> size, status |-> status]
  BY DEF Hears
<1>2. /\ item.size \in Nat /\ item.named \in BOOLEAN /\ item.status \in Statuses
      /\ piece \in Nat /\ i \in DOMAIN items /\ items[i].kind = "call" /\ IsSaid(items, said)
  BY KeysOfItem DEF Telling
<1>3. old.known \in BOOLEAN /\ old.size \in Nat /\ old.status \in Statuses
  BY <1>2 DEF IsSaid, Sayings, Statuses
<1>4. i \in DOMAIN said => old = said[i]
  OBVIOUS
<1> HIDE DEF old
<1>5. known \in BOOLEAN
  OBVIOUS
<1>6. size \in Nat
  BY <1>2, <1>3
<1>7. status \in Statuses
  BY <1>2, <1>3
<1>8. i \in DOMAIN said => (said[i].known => known)
  BY <1>4
<1> HIDE DEF told, known, size, status
<1>9. told[i] \in Sayings
  BY <1>1, <1>5, <1>6, <1>7 DEF Sayings
<1>10. IsSaid(items, told)
  BY <1>1, <1>2, <1>9 DEF IsSaid
<1>11. told[i].known = known
  BY <1>1
<1> QED BY <1>1, <1>8, <1>10, <1>11 DEF told

\* Where the records of the other calls are.
LEMMA OtherPlaces ==
  ASSUME NEW items, NEW a, NEW said, NEW i, NEW item, NEW index, NEW piece,
         Telling(items, a, said, i, item, index, piece)
  PROVE  LET n == Place(items, a, said, i)
         IN /\ n \in Nat /\ n # 0
            /\ IF i \in DOMAIN said THEN n \in DOMAIN a.calls ELSE n = Len(a.calls) + 1
            /\ \A j \in DOMAIN said : j # i => a.byId[items[j].id] # n
<1> DEFINE n == Place(items, a, said, i)
<1>1. /\ AreItems(items) /\ IsSaid(items, said) /\ i \in DOMAIN items
      /\ a.calls \in Seq(ToolCallStates) /\ Len(a.calls) \in Nat
      /\ DOMAIN a.calls = 1 .. Len(a.calls)
      /\ \A j \in DOMAIN said : HasRecord(items, a, said, j)
  BY DEF Telling, Knows, IsAccumulator
<1>2. \A j \in DOMAIN said : /\ j \in DOMAIN items /\ a.byId[items[j].id] \in DOMAIN a.calls
                             /\ a.calls[a.byId[items[j].id]].item = items[j].id
  BY <1>1 DEF HasRecord, IsSaid
<1>3. CASE i \in DOMAIN said
  <2>1. n = a.byId[items[i].id]
    BY <1>3 DEF Place
  <2> HIDE DEF n
  <2>2. n \in DOMAIN a.calls /\ a.calls[n].item = items[i].id
    BY <1>2, <1>3, <2>1
  <2>3. \A j \in DOMAIN said : j # i => items[j].id # items[i].id
    BY <1>1, <1>2, ItemIds
  <2>4. \A j \in DOMAIN said : j # i => a.byId[items[j].id] # n
    BY <1>2, <2>2, <2>3
  <2> QED BY <1>1, <1>3, <2>2, <2>4 DEF n
<1>4. CASE i \notin DOMAIN said
  <2>1. n = Len(a.calls) + 1
    BY <1>4 DEF Place
  <2>2. n \notin DOMAIN a.calls
    BY <1>1, <2>1
  <2> QED BY <1>1, <1>2, <1>4, <2>1, <2>2
<1> QED BY <1>3, <1>4

\* The calls and the ids of the accumulator that has the new record.
IsTurned(b, t, items, a, said, i, name) ==
  LET n == Place(items, a, said, i)
  IN /\ b = With(a, b.calls, b.byId, b.next) /\ b.next \in Nat
     /\ b.calls \in Seq(ToolCallStates) /\ DOMAIN b.calls = DOMAIN a.calls \cup {n}
     /\ Len(b.calls) = IF i \in DOMAIN said THEN Len(a.calls) ELSE Len(a.calls) + 1
     /\ b.calls[n] = t
     /\ \A m \in DOMAIN a.calls : m # n => b.calls[m] = a.calls[m]
     /\ b.byId \in [Ids -> Nat]
     /\ \A id \in Ids : b.byId[id] = IF id = items[i].id \/ id = name THEN n ELSE a.byId[id]

LEMMA CapturedParts ==
  ASSUME NEW items, NEW a, NEW said, NEW i, NEW item, NEW index, NEW piece, NEW b, NEW t,
         Telling(items, a, said, i, item, index, piece),
         IsCaptured(b, t, items, a, said, i, item, index, piece)
  PROVE  IsTurned(b, t, items, a, said, i, NameOf(items, Hears(said, i, item, piece), i))
<1> DEFINE n == Place(items, a, said, i)
           name == NameOf(items, Hears(said, i, item, piece), i)
           c == IF i \in DOMAIN said THEN [a.calls EXCEPT ![n] = t] ELSE Append(a.calls, t)
           ids == Aliased(a.byId, items[i].id, name, n)
<1>1. t \in ToolCallStates
  BY DEF IsCaptured
<1>2. PICK next \in Nat : b = With(a, c, ids, next)
  BY DEF IsCaptured
<1>3. /\ n \in Nat
      /\ IF i \in DOMAIN said THEN n \in DOMAIN a.calls ELSE n = Len(a.calls) + 1
  BY OtherPlaces
<1>4. /\ a.calls \in Seq(ToolCallStates) /\ a.byId \in [Ids -> Nat]
  BY DEF Telling, Knows, IsAccumulator
<1>5. /\ c \in Seq(ToolCallStates) /\ DOMAIN c = DOMAIN a.calls \cup {n} /\ c[n] = t
      /\ Len(c) = IF i \in DOMAIN said THEN Len(a.calls) ELSE Len(a.calls) + 1
      /\ \A m \in DOMAIN a.calls : m # n => c[m] = a.calls[m]
  <2> HIDE DEF n
  <2>1. CASE i \in DOMAIN said
    <3> DEFINE d == [a.calls EXCEPT ![n] = t]
    <3>1. /\ d \in Seq(ToolCallStates) /\ Len(d) = Len(a.calls) /\ DOMAIN d = DOMAIN a.calls
          /\ \A m \in DOMAIN a.calls : d[m] = IF m = n THEN t ELSE a.calls[m]
      BY <1>1, <1>3, <1>4, <2>1, Replaced
    <3>2. c = d
      BY <2>1
    <3> HIDE DEF c, d
    <3> QED BY <1>3, <2>1, <3>1, <3>2
  <2>2. CASE i \notin DOMAIN said
    <3> DEFINE d == Append(a.calls, t)
    <3>1. /\ d \in Seq(ToolCallStates) /\ Len(d) = Len(a.calls) + 1 /\ d[Len(a.calls) + 1] = t
          /\ \A m \in DOMAIN a.calls : d[m] = a.calls[m]
          /\ DOMAIN d = DOMAIN a.calls \cup {Len(a.calls) + 1}
      BY <1>1, <1>4, Appended
    <3>2. c = d
      BY <2>2
    <3> HIDE DEF c, d
    <3> QED BY <1>3, <2>2, <3>1, <3>2
  <2> QED BY <2>1, <2>2
<1>6. /\ ids \in [Ids -> Nat]
      /\ \A id \in Ids : ids[id] = IF id = items[i].id \/ id = name THEN n ELSE a.byId[id]
  BY <1>3, <1>4 DEF Aliased
<1> HIDE DEF c, ids
<1>7. b.calls = c /\ b.byId = ids /\ b.next = next
  BY <1>2, WithFields
<1> HIDE DEF n, name
<1>8. IsTurned(b, t, items, a, said, i, name)
  BY <1>2, <1>5, <1>6, <1>7 DEF IsTurned, n
<1> QED BY <1>8 DEF name

LEMMA CapturedKnows ==
  ASSUME NEW items, NEW a, NEW said, NEW i, NEW item, NEW index, NEW piece, NEW b, NEW t,
         Telling(items, a, said, i, item, index, piece),
         IsCaptured(b, t, items, a, said, i, item, index, piece)
  PROVE  Knows(items, b, Hears(said, i, item, piece)) /\ Turned(items, a, said, i, b)
<1> DEFINE n == Place(items, a, said, i)
           told == Hears(said, i, item, piece)
           name == NameOf(items, told, i)
<1>1. IsTurned(b, t, items, a, said, i, name)
  BY CapturedParts
<1>2. /\ n \in Nat /\ n # 0 /\ \A j \in DOMAIN said : j # i => a.byId[items[j].id] # n
  BY OtherPlaces
<1>3. /\ IsSaid(items, told) /\ DOMAIN told = DOMAIN said \cup {i}
      /\ \A j \in DOMAIN said : j # i => told[j] = said[j]
      /\ i \in DOMAIN said => (said[i].known => told[i].known)
  BY HearsSaid
<1>4. /\ AreItems(items) /\ IsSaid(items, said) /\ Knows(items, a, said)
      /\ i \in DOMAIN items /\ items[i].kind = "call"
  BY DEF Telling
<1>5. /\ Agrees(t, items, told, i)
      /\ t.added = (i \in DOMAIN said /\ a.calls[n].added)
      /\ t.done = (i \in DOMAIN said /\ a.calls[n].done)
  BY DEF IsCaptured
<1>6. i \in DOMAIN said => n = a.byId[items[i].id]
  BY DEF Place
<1> HIDE DEF n, told
<1>7. /\ b = With(a, b.calls, b.byId, b.next) /\ b.next \in Nat
      /\ b.calls \in Seq(ToolCallStates) /\ DOMAIN b.calls = DOMAIN a.calls \cup {n}
      /\ Len(b.calls) = IF i \in DOMAIN said THEN Len(a.calls) ELSE Len(a.calls) + 1
      /\ b.calls[n] = t
      /\ \A m \in DOMAIN a.calls : m # n => b.calls[m] = a.calls[m]
      /\ b.byId \in [Ids -> Nat]
      /\ \A id \in Ids : b.byId[id] = IF id = items[i].id \/ id = name THEN n ELSE a.byId[id]
  BY <1>1 DEF IsTurned, n
<1>8. /\ items[i].id \in Ids /\ items[i].call \in Ids /\ items[i].call # items[i].id
      /\ \A j \in DOMAIN items : j # i => items[j].id # items[i].id
      /\ \A j \in DOMAIN items : j # i => items[j].call # items[i].id
      /\ \A j \in DOMAIN items : j # i => items[j].id # items[i].call
      /\ \A j \in DOMAIN items : j # i => items[j].call # items[i].call
  BY <1>4, ItemIds
<1>9. name = IF told[i].known THEN items[i].call ELSE items[i].id
  BY DEF NameOf
<1> HIDE DEF name
<1>10. \A j \in DOMAIN items : items[j].id \in Ids /\ (items[j].kind = "call" => items[j].call \in Ids)
  BY <1>4, ItemIds
<1>11. b.byId[items[i].id] = n
  BY <1>7, <1>8
<1>12. \A j \in DOMAIN items : j # i =>
         /\ b.byId[items[j].id] = a.byId[items[j].id]
         /\ items[j].kind = "call" => b.byId[items[j].call] = a.byId[items[j].call]
  BY <1>7, <1>8, <1>9, <1>10
<1>13. b.byId[items[i].call] = IF told[i].known THEN n ELSE 0
  <2>1. CASE told[i].known
    BY <1>7, <1>8, <1>9, <2>1
  <2>2. CASE ~told[i].known
    <3>1. b.byId[items[i].call] = a.byId[items[i].call]
      BY <1>7, <1>8, <1>9, <2>2
    <3>2. a.byId[items[i].call] = 0
      BY <1>3, <1>4, <2>2 DEF Knows, HasRecord
    <3> QED BY <2>2, <3>1, <3>2
  <2> QED BY <2>1, <2>2
<1>14. HasRecord(items, b, told, i)
  BY <1>5, <1>7, <1>11, <1>13 DEF HasRecord, Agrees
<1>15. ASSUME NEW j \in DOMAIN said, j # i PROVE HasRecord(items, b, told, j)
  <2>1. j \in DOMAIN items /\ items[j].kind = "call" /\ told[j] = said[j]
    BY <1>3, <1>4, <1>15 DEF IsSaid
  <2>2. HasRecord(items, a, said, j)
    BY <1>4 DEF Knows
  <2> DEFINE m == a.byId[items[j].id]
  <2>3. /\ m \in DOMAIN a.calls
        /\ a.calls[m].item = items[j].id /\ a.calls[m].call = NameOf(items, said, j)
        /\ a.calls[m].named = said[j].known /\ a.calls[m].size = said[j].size
        /\ a.calls[m].status = said[j].status
        /\ a.byId[items[j].call] = IF said[j].known THEN m ELSE 0
    BY <2>2 DEF HasRecord
  <2>4. b.byId[items[j].id] = m /\ b.byId[items[j].call] = a.byId[items[j].call] /\ m # n
    BY <1>2, <1>12, <1>15, <2>1
  <2> HIDE DEF m
  <2>5. b.calls[m] = a.calls[m] /\ m \in DOMAIN b.calls
    BY <1>7, <2>3, <2>4
  <2>6. NameOf(items, told, j) = NameOf(items, said, j)
    BY <2>1 DEF NameOf
  <2> QED BY <2>1, <2>3, <2>4, <2>5, <2>6 DEF HasRecord
<1>16. IsAccumulator(b)
  <2>1. \A y : With(a, b.calls, b.byId, y) = With(b, b.calls, b.byId, y)
    <3>1. /\ b.outputs = a.outputs /\ b.text = a.text /\ b.summary = a.summary
          /\ b.status = a.status /\ b.terminal = a.terminal /\ b.final = a.final
      BY <1>7 DEF With
    <3> QED BY <3>1 DEF With
  <2> QED BY <1>7, <2>1 DEF IsAccumulator
<1>17. \A j \in DOMAIN told : HasRecord(items, b, told, j)
  BY <1>3, <1>14, <1>15
<1>18. ASSUME NEW j \in DOMAIN items \ DOMAIN told, items[j].kind = "call"
       PROVE  b.byId[items[j].id] = 0 /\ b.byId[items[j].call] = 0
  <2>1. j # i /\ j \notin DOMAIN said
    BY <1>3, <1>18
  <2>2. a.byId[items[j].id] = 0 /\ a.byId[items[j].call] = 0
    BY <1>4, <1>18, <2>1 DEF Knows
  <2> QED BY <1>12, <1>18, <2>1, <2>2
<1>19. ASSUME NEW m \in DOMAIN b.calls PROVE \E j \in DOMAIN told : b.byId[items[j].id] = m
  <2>1. CASE m = n
    BY <1>3, <1>11, <2>1
  <2>2. CASE m # n
    <3>1. PICK j \in DOMAIN said : a.byId[items[j].id] = m
      BY <1>4, <1>7, <2>2 DEF Knows
    <3>2. j # i /\ j \in DOMAIN items
      BY <1>4, <1>6, <2>2, <3>1 DEF IsSaid
    <3> QED BY <1>3, <1>12, <3>1, <3>2
  <2> QED BY <2>1, <2>2
<1>20. Knows(items, b, told)
  BY <1>16, <1>17, <1>18, <1>19 DEF Knows
<1>21. \A j \in DOMAIN said \ {i} : b.byId[items[j].id] = a.byId[items[j].id]
  BY <1>4, <1>12 DEF IsSaid
<1>22. Turned(items, a, said, i, b)
  BY <1>5, <1>7, <1>11, <1>21 DEF Turned, n
<1> QED BY <1>20, <1>22 DEF told

\* What CaptureToolCall does: the accumulator knows what it knew and what the item tells.
LEMMA CaptureKnows ==
  ASSUME NEW items, NEW a, NEW said, NEW i, NEW item, NEW index, NEW piece,
         Telling(items, a, said, i, item, index, piece)
  PROVE  LET b == CaptureToolCall(a, item, index, piece)
             told == Hears(said, i, item, piece)
         IN IsSaid(items, told) /\ Knows(items, b, told) /\ Turned(items, a, said, i, b)
<1>1. \E t : IsCaptured(CaptureToolCall(a, item, index, piece), t,
                        items, a, said, i, item, index, piece)
  BY CapturedNew, CapturedOld
<1> QED BY <1>1, CapturedKnows, HearsSaid


-----------------------------------------------------------------------------
(* What the upstream said so far.                                          *)

Progresses == [added : BOOLEAN, pieces : Nat, whole : BOOLEAN, done : BOOLEAN]

\* The calls that the upstream began to tell, and what it told of them.
HeardOf(items, prog) ==
  {i \in DOMAIN items : /\ items[i].kind = "call"
                        /\ prog[i].added \/ prog[i].pieces > 0 \/ prog[i].whole \/ prog[i].done}

SayingOf(shape, said) ==
  [known |-> said.added \/ said.done \/ shape.named,
   size |-> IF said.whole \/ said.done THEN shape.size ELSE said.pieces,
   status |-> IF said.whole \/ said.done THEN "completed" ELSE "in_progress"]

SaidOf(items, prog) == [i \in HeardOf(items, prog) |-> SayingOf(items[i], prog[i])]

\* The upstream tells an item in its order: the pieces, all of them, the item.
InOrder(shape, said) ==
  /\ shape \in Shapes /\ said \in Progresses /\ said.pieces <= shape.deltas
  /\ shape.deltas <= shape.size
  /\ said.whole \/ said.done =>
       said.pieces = shape.deltas /\ (shape.added # "never" => said.added)
  /\ said.done => said.whole = shape.whole

IsTold(items, prog) ==
  /\ AreItems(items) /\ DOMAIN prog = DOMAIN items
  /\ \A i \in DOMAIN items : InOrder(items[i], prog[i])

LEMMA ShapeFields ==
  ASSUME NEW shape, NEW said, InOrder(shape, said)
  PROVE  /\ shape.size \in Nat /\ shape.deltas \in Nat /\ shape.named \in BOOLEAN
         /\ shape.whole \in BOOLEAN /\ shape.done \in BOOLEAN
         /\ shape.added \in {"first", "late", "never"}
         /\ shape.kind \in {"call", "message", "reasoning", "search", "image"}
         /\ shape.signed \in BOOLEAN
         /\ said.added \in BOOLEAN /\ said.pieces \in Nat /\ said.whole \in BOOLEAN
         /\ said.done \in BOOLEAN
BY DEF InOrder, Shapes, Progresses

LEMMA SaidIsSaid ==
  ASSUME NEW items, NEW prog, IsTold(items, prog)
  PROVE  IsSaid(items, SaidOf(items, prog))
<1>1. ASSUME NEW i \in HeardOf(items, prog) PROVE SayingOf(items[i], prog[i]) \in Sayings
  <2>1. InOrder(items[i], prog[i])
    BY <1>1 DEF IsTold, HeardOf
  <2> QED BY <2>1, ShapeFields DEF SayingOf, Sayings, Statuses
<1>2. HeardOf(items, prog) \subseteq {i \in DOMAIN items : items[i].kind = "call"}
  BY DEF HeardOf
<1> QED BY <1>1, <1>2 DEF IsSaid, SaidOf

\* The event that comes next about an item.
IsNext(shape, said, type) ==
  \/ /\ type = "item.added" /\ ~said.added /\ ~said.whole /\ ~said.done
  \/ /\ type = "delta" /\ ~said.whole /\ said.pieces < shape.deltas /\ shape.kind # "image"
     /\ shape.added = "first" => said.added
  \/ /\ type = "partial" /\ ~said.whole /\ said.pieces < shape.deltas /\ shape.kind = "image"
     /\ shape.added = "first" => said.added
  \/ /\ type = "done" /\ shape.whole /\ ~said.whole /\ said.pieces = shape.deltas
     /\ shape.added # "never" => said.added
  \/ /\ type = "item.done" /\ shape.done /\ ~said.done /\ said.pieces = shape.deltas
     /\ shape.added # "never" => said.added
     /\ said.whole = shape.whole

LEMMA NextIs ==
  ASSUME NEW i, NEW type \in NextTypes(i)
  PROVE  IsNext(turn.items[i], progress[i], type)
BY DEF NextTypes, IsNext, Shape, MayAdd, MaySay, MayEnd, MayFinish

\* What its event says of the progress of an item.
IsAdvanced(next, said, type) ==
  /\ next \in Progresses
  /\ next.added = (said.added \/ type = "item.added")
  /\ next.pieces = IF type \in {"delta", "partial"} THEN said.pieces + 1 ELSE said.pieces
  /\ next.whole = (said.whole \/ type = "done")
  /\ next.done = (said.done \/ type = "item.done")

LEMMA AdvancedIs ==
  ASSUME NEW said \in Progresses,
         NEW type \in {"item.added", "delta", "partial", "done", "item.done"}
  PROVE  IsAdvanced(Advanced(said, type), said, type)
<1> DEFINE next == Advanced(said, type)
<1>0. /\ said.added \in BOOLEAN /\ said.pieces \in Nat /\ said.whole \in BOOLEAN
      /\ said.done \in BOOLEAN
  BY DEF Progresses
<1>1. CASE type = "item.added"
  <2>1. next = [said EXCEPT !.added = TRUE]
    BY <1>1 DEF Advanced
  <2> QED BY <1>0, <1>1, <2>1 DEF IsAdvanced, Progresses
<1>2. CASE type \in {"delta", "partial"}
  <2>1. next = [said EXCEPT !.pieces = said.pieces + 1]
    BY <1>2 DEF Advanced
  <2> QED BY <1>0, <1>2, <2>1 DEF IsAdvanced, Progresses
<1>3. CASE type = "done"
  <2>1. next = [said EXCEPT !.whole = TRUE]
    BY <1>3 DEF Advanced
  <2> QED BY <1>0, <1>3, <2>1 DEF IsAdvanced, Progresses
<1>4. CASE type = "item.done"
  <2>1. next = [said EXCEPT !.done = TRUE]
    BY <1>4 DEF Advanced
  <2> QED BY <1>0, <1>4, <2>1 DEF IsAdvanced, Progresses
<1> QED BY <1>1, <1>2, <1>3, <1>4

LEMMA StaysInOrder ==
  ASSUME NEW shape, NEW said, NEW type, NEW next, InOrder(shape, said),
         IsNext(shape, said, type), IsAdvanced(next, said, type)
  PROVE  InOrder(shape, next)
BY ShapeFields DEF InOrder, IsNext, IsAdvanced

\* The item that an event tells the accumulator of, the status of its call included.
ToldItem(event) ==
  IF event.type \in {"delta", "done"}
  THEN [event.item EXCEPT !.status = IF event.type = "done" THEN "completed" ELSE ""]
  ELSE event.item

\* An item that shows a call, by both of its ids or by its item id only.
IsShown(item, shape, named, size, status) ==
  /\ item.kind = "call" /\ item.id = shape.id /\ item.named = named
  /\ item.call = IF named THEN shape.call ELSE None
  /\ item.size = size /\ item.status = status

IsTelling(shape, said, type, item, piece) ==
  \/ /\ type = "item.added" /\ piece = 0
     /\ IsShown(item, shape, TRUE, said.pieces, "in_progress")
  \/ type = "delta" /\ piece = 1 /\ IsShown(item, shape, shape.named, 0, "")
  \/ type = "done" /\ piece = 0 /\ IsShown(item, shape, shape.named, shape.size, "completed")
  \/ type = "item.done" /\ piece = 0 /\ IsShown(item, shape, TRUE, shape.size, "completed")

\* The event about an item, whatever its kind.
IsItemEvent(event, i, type) ==
  /\ event.type = type /\ event.index = i - 1 /\ event.output = <<>> /\ event.text = 0
  /\ event.status = ""
  /\ event.piece = IF type = "delta" THEN 1 ELSE 0
  /\ event.item.kind = turn.items[i].kind /\ event.item.id = turn.items[i].id

LEMMA ItemEventIs ==
  ASSUME NEW i, NEW type \in {"item.added", "delta", "partial", "done", "item.done"}
  PROVE  IsItemEvent(ItemEvent(i, type), i, type)
<1>1. CASE type = "item.added"
  BY <1>1 DEF ItemEvent, Event, Item, Bare, Shape, IsItemEvent
<1>2. CASE type = "delta"
  BY <1>2 DEF ItemEvent, Event, Item, Bare, Shape, IsItemEvent
<1>3. CASE type = "partial"
  BY <1>3 DEF ItemEvent, Event, Item, Bare, Shape, IsItemEvent
<1>4. CASE type = "done"
  BY <1>4 DEF ItemEvent, Event, Item, Bare, Shape, IsItemEvent
<1>5. CASE type = "item.done"
  BY <1>5 DEF ItemEvent, Event, Item, Bare, Shape, IsItemEvent
<1> QED BY <1>1, <1>2, <1>3, <1>4, <1>5

LEMMA ItemShows ==
  ASSUME NEW i, turn.items[i].kind = "call", NEW size, NEW status
  PROVE  IsShown(Item(i, size, status), turn.items[i], TRUE, size, status)
BY DEF Item, Shape, IsShown

LEMMA BareShows ==
  ASSUME NEW i, turn.items[i].kind = "call", turn.items[i].named \in BOOLEAN,
         NEW size, NEW status
  PROVE  /\ IsShown(Bare(i, size), turn.items[i], turn.items[i].named, size, "")
         /\ IsShown([Bare(i, size) EXCEPT !.status = status],
                    turn.items[i], turn.items[i].named, size, status)
<1> DEFINE shape == turn.items[i]
           item == Item(i, size, "")
           call == IF shape.named THEN item.call ELSE None
           named == item.named /\ shape.named
           bare == [item EXCEPT !.call = call, !.named = named]
<1>1. Bare(i, size) = bare
  BY DEF Bare, Shape
<1>2. item = [kind |-> "call", id |-> shape.id, call |-> shape.call, named |-> TRUE,
              size |-> size, status |-> "", signed |-> FALSE]
  BY DEF Item, Shape
<1> HIDE DEF item
<1>3. call = (IF shape.named THEN shape.call ELSE None) /\ named = shape.named
  BY <1>2
<1> HIDE DEF call, named
<1>4. /\ bare.kind = "call" /\ bare.id = shape.id /\ bare.call = call /\ bare.named = named
      /\ bare.size = size /\ bare.status = ""
  BY <1>2
<1>5. DOMAIN bare = {"kind", "id", "call", "named", "size", "status", "signed"}
  BY <1>2
<1> HIDE DEF bare
<1> DEFINE told == [bare EXCEPT !.status = status]
<1>6. /\ told.kind = "call" /\ told.id = shape.id /\ told.call = call /\ told.named = named
      /\ told.size = size /\ told.status = status
  BY <1>4, <1>5
<1> HIDE DEF told
<1> QED BY <1>1, <1>3, <1>4, <1>6 DEF IsShown, told

\* The ids in the item of an event.
LEMMA EventTellsOf ==
  ASSUME NEW i \in DOMAIN turn.items, turn.items[i].kind = "call",
         InOrder(turn.items[i], progress[i]),
         NEW type \in {"item.added", "delta", "done", "item.done"},
         NEW event, event = ItemEvent(i, type)
  PROVE  /\ TellsOf(turn.items, i, event.item)
         /\ IsTelling(turn.items[i], progress[i], type, ToldItem(event), event.piece)
         /\ TellsOf(turn.items, i, ToldItem(event))
<1> DEFINE shape == turn.items[i]
           said == progress[i]
<1>0. /\ shape.size \in Nat /\ shape.named \in BOOLEAN /\ said.pieces \in Nat
  BY ShapeFields
<1>1. \A item : \A named \in BOOLEAN, size \in Nat, status \in Statuses :
        IsShown(item, shape, named, size, status) => TellsOf(turn.items, i, item)
  BY DEF IsShown, TellsOf
<1>2. /\ "" \in Statuses /\ "in_progress" \in Statuses /\ "completed" \in Statuses
      /\ TRUE \in BOOLEAN /\ 0 \in Nat
  BY DEF Statuses
<1>3. CASE type = "item.added"
  <2>1. event.item = Item(i, said.pieces, "in_progress") /\ event.piece = 0
        /\ event.type = "item.added"
    BY <1>3 DEF ItemEvent, Event
  <2>2. ToldItem(event) = event.item
    BY <2>1 DEF ToldItem
  <2>3. IsShown(event.item, shape, TRUE, said.pieces, "in_progress")
    BY <2>1, ItemShows
  <2>4. TellsOf(turn.items, i, event.item)
    BY <1>0, <1>1, <1>2, <2>3
  <2> QED BY <1>3, <2>1, <2>2, <2>3, <2>4 DEF IsTelling
<1>4. CASE type = "item.done"
  <2>1. event.item = Item(i, shape.size, "completed") /\ event.piece = 0
        /\ event.type = "item.done"
    BY <1>4 DEF ItemEvent, Event, Shape
  <2>2. ToldItem(event) = event.item
    BY <2>1 DEF ToldItem
  <2>3. IsShown(event.item, shape, TRUE, shape.size, "completed")
    BY <2>1, ItemShows
  <2>4. TellsOf(turn.items, i, event.item)
    BY <1>0, <1>1, <1>2, <2>3
  <2> QED BY <1>4, <2>1, <2>2, <2>3, <2>4 DEF IsTelling
<1>5. CASE type = "delta"
  <2>1. event.item = Bare(i, 0) /\ event.piece = 1 /\ event.type = "delta"
    BY <1>5 DEF ItemEvent, Event
  <2>2. ToldItem(event) = [Bare(i, 0) EXCEPT !.status = ""]
    BY <2>1 DEF ToldItem
  <2>a. IsShown(Bare(i, 0), shape, shape.named, 0, "")
    BY <1>0, BareShows
  <2>b. IsShown([Bare(i, 0) EXCEPT !.status = ""], shape, shape.named, 0, "")
    BY <1>0, BareShows
  <2>3. /\ IsShown(event.item, shape, shape.named, 0, "")
        /\ IsShown(ToldItem(event), shape, shape.named, 0, "")
    BY <2>1, <2>2, <2>a, <2>b
  <2>4. TellsOf(turn.items, i, event.item) /\ TellsOf(turn.items, i, ToldItem(event))
    BY <1>0, <1>1, <1>2, <2>3
  <2> QED BY <1>5, <2>1, <2>3, <2>4 DEF IsTelling
<1>6. CASE type = "done"
  <2>1. event.item = Bare(i, shape.size) /\ event.piece = 0 /\ event.type = "done"
    BY <1>6 DEF ItemEvent, Event, Shape
  <2>2. ToldItem(event) = [Bare(i, shape.size) EXCEPT !.status = "completed"]
    BY <2>1 DEF ToldItem
  <2>a. IsShown(Bare(i, shape.size), shape, shape.named, shape.size, "")
    BY <1>0, BareShows
  <2>b. IsShown([Bare(i, shape.size) EXCEPT !.status = "completed"], shape, shape.named, shape.size, "completed")
    BY <1>0, BareShows
  <2>3. /\ IsShown(event.item, shape, shape.named, shape.size, "")
        /\ IsShown(ToldItem(event), shape, shape.named, shape.size, "completed")
    BY <2>1, <2>2, <2>a, <2>b
  <2>4. TellsOf(turn.items, i, event.item) /\ TellsOf(turn.items, i, ToldItem(event))
    BY <1>0, <1>1, <1>2, <2>3
  <2> QED BY <1>6, <2>1, <2>3, <2>4 DEF IsTelling
<1> QED BY <1>3, <1>4, <1>5, <1>6

\* What an event adds to what was said of a call.
IsHeard(said) == said.added \/ said.pieces > 0 \/ said.whole \/ said.done

More(old, item, piece) ==
  [known |-> old.known \/ item.named,
   size |-> IF item.size > 0 THEN item.size ELSE old.size + piece,
   status |-> IF item.status # "" THEN item.status ELSE old.status]

LEMMA SaysMore ==
  ASSUME NEW shape, NEW said, NEW type, NEW next, NEW item, NEW piece, NEW old,
         InOrder(shape, said), shape.kind = "call", IsNext(shape, said, type),
         IsAdvanced(next, said, type), IsTelling(shape, said, type, item, piece),
         old = IF IsHeard(said) THEN SayingOf(shape, said)
               ELSE [known |-> FALSE, size |-> 0, status |-> "in_progress"]
  PROVE  IsHeard(next) /\ SayingOf(shape, next) = More(old, item, piece)
<1> DEFINE ended == said.whole \/ said.done
           known == next.added \/ next.done \/ shape.named
           size == IF next.whole \/ next.done THEN shape.size ELSE next.pieces
           status == IF next.whole \/ next.done THEN "completed" ELSE "in_progress"
<1>1. /\ shape.size \in Nat /\ shape.deltas \in Nat /\ shape.named \in BOOLEAN
      /\ said.added \in BOOLEAN /\ said.pieces \in Nat /\ said.whole \in BOOLEAN
      /\ said.done \in BOOLEAN
  BY ShapeFields
<1>2. /\ type \in {"item.added", "delta", "done", "item.done"}
      /\ said.pieces <= shape.deltas /\ shape.deltas <= shape.size
  BY DEF IsNext, InOrder
<1>3. /\ old.known = (IsHeard(said) /\ (said.added \/ said.done \/ shape.named))
      /\ old.size = (IF ended THEN shape.size ELSE said.pieces)
      /\ old.status = (IF ended THEN "completed" ELSE "in_progress")
  <2>1. CASE IsHeard(said)
    BY <2>1 DEF SayingOf
  <2>2. CASE ~IsHeard(said)
    <3>1. said.pieces = 0 /\ ~ended
      BY <1>1, <2>2 DEF IsHeard
    <3> QED BY <2>2, <3>1
  <2> QED BY <2>1, <2>2
<1>4. IsHeard(next)
  <2>1. CASE type = "item.added"
    BY <2>1 DEF IsHeard, IsAdvanced
  <2>2. CASE type = "delta"
    BY <1>1, <2>2 DEF IsHeard, IsAdvanced
  <2>3. CASE type \in {"done", "item.done"}
    BY <2>3 DEF IsHeard, IsAdvanced
  <2> QED BY <1>2, <2>1, <2>2, <2>3
<1>5. known = (old.known \/ item.named)
  <2>1. CASE type \in {"item.added", "item.done"}
    BY <2>1 DEF IsAdvanced, IsTelling, IsShown
  <2>2. CASE type \in {"delta", "done"}
    <3>1. item.named = shape.named
      BY <2>2 DEF IsTelling, IsShown
    <3>2. next.added = said.added /\ next.done = said.done
      BY <1>1, <2>2 DEF IsAdvanced
    <3> QED BY <1>1, <1>3, <3>1, <3>2 DEF IsHeard
  <2> QED BY <1>2, <2>1, <2>2
<1>6. size = IF item.size > 0 THEN item.size ELSE old.size + piece
  <2>1. CASE type = "item.added"
    <3>1. next.pieces = said.pieces /\ ~next.whole /\ ~next.done /\ ~ended
      BY <1>1, <2>1 DEF IsAdvanced, IsNext
    <3>2. item.size = said.pieces /\ piece = 0
      BY <2>1 DEF IsTelling, IsShown
    <3> QED BY <1>1, <1>3, <3>1, <3>2
  <2>2. CASE type = "delta"
    <3>1. ~ended
      BY <1>1, <2>2 DEF IsNext, InOrder
    <3>2. next.pieces = said.pieces + 1 /\ ~next.whole /\ ~next.done
      BY <1>1, <2>2, <3>1 DEF IsAdvanced
    <3>3. item.size = 0 /\ piece = 1
      BY <2>2 DEF IsTelling, IsShown
    <3> QED BY <1>1, <1>3, <3>1, <3>2, <3>3
  <2>3. CASE type \in {"done", "item.done"}
    <3>1. next.whole \/ next.done
      BY <2>3 DEF IsAdvanced
    <3>2. item.size = shape.size /\ piece = 0
      BY <2>3 DEF IsTelling, IsShown
    <3>3. said.pieces = shape.deltas
      BY <2>3 DEF IsNext
    <3>4. shape.size = 0 => old.size = 0
      BY <1>1, <1>2, <1>3, <3>3
    <3> QED BY <1>1, <1>3, <3>1, <3>2, <3>4
  <2> QED BY <1>2, <2>1, <2>2, <2>3
<1>7. status = IF item.status # "" THEN item.status ELSE old.status
  <2>1. CASE type = "item.added"
    <3>1. ~next.whole /\ ~next.done
      BY <1>1, <2>1 DEF IsAdvanced, IsNext
    <3> QED BY <2>1, <3>1 DEF IsTelling, IsShown
  <2>2. CASE type = "delta"
    <3>1. ~ended
      BY <1>1, <2>2 DEF IsNext, InOrder
    <3>2. ~next.whole /\ ~next.done
      BY <1>1, <2>2, <3>1 DEF IsAdvanced
    <3> QED BY <1>3, <2>2, <3>1, <3>2 DEF IsTelling, IsShown
  <2>3. CASE type \in {"done", "item.done"}
    <3>1. next.whole \/ next.done
      BY <2>3 DEF IsAdvanced
    <3> QED BY <2>3, <3>1 DEF IsTelling, IsShown
  <2> QED BY <1>2, <2>1, <2>2, <2>3
<1>8. SayingOf(shape, next) = [known |-> known, size |-> size, status |-> status]
  BY DEF SayingOf
<1> HIDE DEF known, size, status
<1> QED BY <1>4, <1>5, <1>6, <1>7, <1>8 DEF More

\* The progress once an event told of an item.
IsProgressed(prog, next, i, type) ==
  /\ DOMAIN next = DOMAIN prog
  /\ IsAdvanced(next[i], prog[i], type)
  /\ \A j \in DOMAIN prog : j # i => next[j] = prog[j]

LEMMA SaidProgresses ==
  ASSUME NEW items, NEW prog, NEW next, NEW i \in DOMAIN items, NEW type, NEW item, NEW piece,
         IsTold(items, prog), items[i].kind = "call", IsNext(items[i], prog[i], type),
         IsProgressed(prog, next, i, type), IsTelling(items[i], prog[i], type, item, piece)
  PROVE  SaidOf(items, next) = Hears(SaidOf(items, prog), i, item, piece)
<1> DEFINE old == IF IsHeard(prog[i]) THEN SayingOf(items[i], prog[i])
                  ELSE [known |-> FALSE, size |-> 0, status |-> "in_progress"]
           said == SaidOf(items, prog)
           told == SaidOf(items, next)
           new == More(old, item, piece)
<1>1. InOrder(items[i], prog[i]) /\ DOMAIN prog = DOMAIN items
  BY DEF IsTold
<1>2. IsHeard(next[i]) /\ SayingOf(items[i], next[i]) = new
  <2>1. IsAdvanced(next[i], prog[i], type)
    BY DEF IsProgressed
  <2>2. PICK o : o = old
    OBVIOUS
  <2>3. IsHeard(next[i]) /\ SayingOf(items[i], next[i]) = More(o, item, piece)
    BY <1>1, <2>1, <2>2, SaysMore
  <2> QED BY <2>2, <2>3
<1>3. \A j \in DOMAIN items : j # i => next[j] = prog[j]
  BY <1>1 DEF IsProgressed
<1>4. /\ HeardOf(items, prog) = {j \in DOMAIN items : items[j].kind = "call" /\ IsHeard(prog[j])}
      /\ HeardOf(items, next) = {j \in DOMAIN items : items[j].kind = "call" /\ IsHeard(next[j])}
  BY DEF HeardOf, IsHeard
<1>5. HeardOf(items, next) = HeardOf(items, prog) \cup {i}
  BY <1>2, <1>3, <1>4
<1>6. DOMAIN said = HeardOf(items, prog) /\ DOMAIN told = HeardOf(items, next)
  BY DEF SaidOf
<1>7. old = IF i \in DOMAIN said THEN said[i]
            ELSE [known |-> FALSE, size |-> 0, status |-> "in_progress"]
  BY <1>4, <1>6 DEF SaidOf
<1>8. told[i] = new /\ \A j \in DOMAIN told : j # i => told[j] = said[j]
  <2>1. told[i] = SayingOf(items[i], next[i])
    BY <1>5 DEF SaidOf
  <2>2. ASSUME NEW j \in DOMAIN told, j # i PROVE told[j] = said[j]
    <3>1. j \in HeardOf(items, next) /\ j \in HeardOf(items, prog) /\ j \in DOMAIN items
      BY <1>5, <1>6, <2>2 DEF HeardOf
    <3> QED BY <1>3, <2>2, <3>1 DEF SaidOf
  <2> QED BY <1>2, <2>1, <2>2
<1>9. told = [j \in DOMAIN told |-> told[j]]
  BY DEF SaidOf
<1> HIDE DEF old, said, told
<1>10. Hears(said, i, item, piece) = [j \in DOMAIN said \cup {i} |-> IF j = i THEN new ELSE said[j]]
  BY <1>7 DEF Hears, More
<1> HIDE DEF new
<1>11. told = [j \in DOMAIN said \cup {i} |-> IF j = i THEN new ELSE said[j]]
  BY <1>5, <1>6, <1>8, <1>9
<1> QED BY <1>10, <1>11 DEF said, told

-----------------------------------------------------------------------------
(* What the accumulator makes of an event about an item.                   *)

LEMMA ApplyCall ==
  ASSUME NEW a, NEW i, NEW type \in {"item.added", "delta", "done", "item.done"},
         NEW event, IsItemEvent(event, i, type), turn.items[i].kind = "call"
  PROVE  Apply(a, event) = CaptureToolCall(a, ToldItem(event), i - 1, event.piece)
<1> DEFINE status == IF event.type = "done" THEN "completed" ELSE ""
<1>1. /\ event.type = type /\ event.index = i - 1 /\ event.output = <<>> /\ event.status = ""
      /\ event.item.kind = "call" /\ type \notin {"completed", "incomplete"}
  BY DEF IsItemEvent
<1>2. ApplyResponseMetadata(a, event) = a
  BY <1>1 DEF ApplyResponseMetadata
<1>3. ApplyText(a, event) = a
  BY <1>1 DEF ApplyText, IsTerminal
<1>4. \A b : ApplyTerminal(b, event) = b
  BY <1>1 DEF ApplyTerminal, IsTerminal
<1>5. Apply(a, event) = ApplyOutput(ApplyToolArguments(a, event), event)
  BY <1>2, <1>3, <1>4 DEF Apply
<1>6. CASE type \in {"delta", "done"}
  <2>1. ApplyToolArguments(a, event)
          = CaptureToolCall(a, [event.item EXCEPT !.status = status], i - 1, event.piece)
    BY <1>1, <1>6 DEF ApplyToolArguments
  <2>2. ToldItem(event) = [event.item EXCEPT !.status = status]
    BY <1>1, <1>6 DEF ToldItem
  <2>3. \A b : ApplyOutput(b, event) = b
    BY <1>1, <1>6 DEF ApplyOutput
  <2> QED BY <1>5, <2>1, <2>2, <2>3
<1>7. CASE type \in {"item.added", "item.done"}
  <2>1. ApplyToolArguments(a, event) = a
    BY <1>1, <1>7 DEF ApplyToolArguments
  <2>2. ToldItem(event) = event.item /\ event.piece = 0
    BY <1>1, <1>7 DEF ToldItem, IsItemEvent
  <2>3. ApplyOutput(a, event) = CaptureToolCall(a, event.item, i - 1, 0)
    BY <1>1, <1>7 DEF ApplyOutput, CaptureOutputItem
  <2> QED BY <1>5, <2>1, <2>2, <2>3
<1> QED BY <1>6, <1>7

\* Two accumulators that have the same calls.
SameCalls(a, b) ==
  /\ b.calls = a.calls /\ b.byId = a.byId
  /\ IsAccumulator(a) => IsAccumulator(b)

LEMMA FieldsOfOther ==
  ASSUME NEW a, IsAccumulator(a), NEW x
  PROVE  /\ SameCalls(a, [a EXCEPT !.outputs = x]) /\ SameCalls(a, [a EXCEPT !.text = x])
         /\ SameCalls(a, [a EXCEPT !.summary = x]) /\ SameCalls(a, [a EXCEPT !.status = x])
         /\ SameCalls(a, [a EXCEPT !.terminal = x]) /\ SameCalls(a, [a EXCEPT !.final = x])
         /\ x \in Nat => SameCalls(a, [a EXCEPT !.next = x])
<1>1. a = With(a, a.calls, a.byId, a.next)
  BY DEF IsAccumulator
<1>2. DOMAIN a = {"calls", "byId", "outputs", "next", "text", "summary", "status", "terminal", "final"}
  BY <1>1 DEF With
<1>3. ASSUME NEW b, DOMAIN b = DOMAIN a, b = [f \in DOMAIN b |-> b[f]]
      PROVE  b = With(b, b.calls, b.byId, b.next)
  BY <1>2, <1>3 DEF With
<1>4. ASSUME NEW f \in {"outputs", "text", "summary", "status", "terminal", "final"},
             NEW b, b = [a EXCEPT ![f] = x]
      PROVE  SameCalls(a, b)
  <2>1. DOMAIN b = DOMAIN a /\ b = [g \in DOMAIN b |-> b[g]]
    BY <1>4
  <2>2. b.calls = a.calls /\ b.byId = a.byId /\ b.next = a.next
    BY <1>2, <1>4
  <2>3. b = With(b, b.calls, b.byId, b.next)
    BY <1>3, <2>1
  <2> QED BY <2>2, <2>3 DEF SameCalls, IsAccumulator
<1>5. ASSUME NEW b, b = [a EXCEPT !.next = x], x \in Nat PROVE SameCalls(a, b)
  <2>1. DOMAIN b = DOMAIN a /\ b = [g \in DOMAIN b |-> b[g]]
    BY <1>5
  <2>2. b.calls = a.calls /\ b.byId = a.byId /\ b.next = x
    BY <1>2, <1>5
  <2>3. b = With(b, b.calls, b.byId, b.next)
    BY <1>3, <2>1
  <2> QED BY <1>5, <2>2, <2>3 DEF SameCalls, IsAccumulator
<1> QED BY <1>4, <1>5

LEMMA SameCallsTwice ==
  ASSUME NEW a, NEW b, NEW c, SameCalls(a, b), SameCalls(b, c)
  PROVE  SameCalls(a, c)
BY DEF SameCalls

\* An item that is not a call leaves the calls alone.
LEMMA CaptureOther ==
  ASSUME NEW a, IsAccumulator(a), NEW item, item.kind # "call", NEW index \in Nat
  PROVE  SameCalls(a, CaptureOutputItem(a, item, index))
<1> DEFINE output == [index |-> OutputIndex(a, index), item |-> item]
           n == SelectInSeq(a.outputs, LAMBDA o : o.item.id = item.id)
           b == Indexed(a, index)
           outputs == IF n = 0 THEN Append(b.outputs, output) ELSE [b.outputs EXCEPT ![n] = output]
           next == IF index >= a.next THEN index + 1 ELSE a.next
<1>1. CaptureOutputItem(a, item, index) = [b EXCEPT !.outputs = outputs]
  BY DEF CaptureOutputItem
<1>2. next \in Nat
  BY DEF IsAccumulator
<1>3. b = [a EXCEPT !.next = next]
  BY DEF Indexed, OutputIndex
<1> HIDE DEF b, next, outputs
<1>4. SameCalls(a, b)
  BY <1>2, <1>3, FieldsOfOther
<1>5. IsAccumulator(b)
  BY <1>4 DEF SameCalls
<1>6. SameCalls(b, [b EXCEPT !.outputs = outputs])
  BY <1>5, FieldsOfOther
<1> QED BY <1>1, <1>4, <1>6, SameCallsTwice

LEMMA ApplyOther ==
  ASSUME NEW a, IsAccumulator(a), NEW i \in Nat \ {0},
         NEW type \in {"item.added", "delta", "partial", "done", "item.done"},
         NEW event, IsItemEvent(event, i, type), turn.items[i].kind # "call"
  PROVE  SameCalls(a, Apply(a, event))
<1>1. /\ event.type = type /\ event.index \in Nat /\ event.output = <<>> /\ event.status = ""
      /\ event.item.kind # "call" /\ type \notin {"completed", "incomplete"}
  <2>1. i - 1 \in Nat
    OBVIOUS
  <2>2. type \notin {"completed", "incomplete"}
    OBVIOUS
  <2> QED BY <2>1, <2>2 DEF IsItemEvent
<1>2. ApplyResponseMetadata(a, event) = a
  BY <1>1 DEF ApplyResponseMetadata
<1>3. \A b : ApplyTerminal(b, event) = b
  BY <1>1 DEF ApplyTerminal, IsTerminal
<1>4. \A b : ApplyToolArguments(b, event) = b
  BY <1>1 DEF ApplyToolArguments
<1> DEFINE b == ApplyText(a, event)
<1>5. Apply(a, event) = ApplyOutput(b, event)
  BY <1>2, <1>3, <1>4 DEF Apply
<1>6. SameCalls(a, b)
  <2>1. SameCalls(a, a)
    BY DEF SameCalls
  <2>2. \/ b = [a EXCEPT !.text = a.text + event.piece]
        \/ b = [a EXCEPT !.summary = a.summary + event.piece]
        \/ b = [a EXCEPT !.text = IF a.text = 0 THEN event.item.size ELSE a.text]
        \/ b = a
    BY <1>1 DEF ApplyText, IsTerminal
  <2> HIDE DEF b
  <2>3. \A x : /\ SameCalls(a, [a EXCEPT !.text = x]) /\ SameCalls(a, [a EXCEPT !.summary = x])
    BY FieldsOfOther
  <2> DEFINE text(x) == [a EXCEPT !.text = x]
             summary(x) == [a EXCEPT !.summary = x]
  <2>4. \A x : SameCalls(a, text(x)) /\ SameCalls(a, summary(x))
    BY <2>3
  <2>5. (\E x : b = text(x)) \/ (\E x : b = summary(x)) \/ b = a
    BY <2>2
  <2> HIDE DEF text, summary
  <2> QED BY <2>1, <2>4, <2>5
<1> HIDE DEF b
<1>7. IsAccumulator(b)
  BY <1>6 DEF SameCalls
<1>8. SameCalls(b, ApplyOutput(b, event))
  <2>1. SameCalls(b, b)
    BY DEF SameCalls
  <2> QED BY <1>1, <1>7, <2>1, CaptureOther DEF ApplyOutput
<1>9. SameCalls(a, ApplyOutput(b, event))
  BY <1>6, <1>8, SameCallsTwice
<1> QED BY ONLY <1>5, <1>9

\* An accumulator that knows the calls goes on knowing them when it has the same calls.
LEMMA SameKnows ==
  ASSUME NEW items, NEW a, NEW b, NEW said, Knows(items, a, said), SameCalls(a, b)
  PROVE  Knows(items, b, said)
<1>1. b.calls = a.calls /\ b.byId = a.byId
  BY DEF SameCalls
<1>2. IsAccumulator(b)
  BY DEF SameCalls, Knows
<1>3. \A i \in DOMAIN said : HasRecord(items, b, said, i)
  <2> SUFFICES ASSUME NEW i \in DOMAIN said PROVE HasRecord(items, b, said, i)
    OBVIOUS
  <2>1. HasRecord(items, a, said, i)
    BY DEF Knows
  <2> QED BY <1>1, <2>1 DEF HasRecord
<1>4. \A i \in DOMAIN items \ DOMAIN said :
        items[i].kind = "call" => b.byId[items[i].id] = 0 /\ b.byId[items[i].call] = 0
  BY <1>1 DEF Knows
<1>5. \A n \in DOMAIN b.calls : \E i \in DOMAIN said : b.byId[items[i].id] = n
  BY <1>1 DEF Knows
<1> QED BY <1>2, <1>3, <1>4, <1>5 DEF Knows

-----------------------------------------------------------------------------
(* The marks of the Responses writer.                                      *)

\* The record of a call with other marks.
IsMarked(t, r) ==
  /\ t \in ToolCallStates
  /\ t.item = r.item /\ t.call = r.call /\ t.named = r.named /\ t.size = r.size
  /\ t.index = r.index /\ t.status = r.status

\* Every record has the ids, the arguments and the status it had.
IsRemarked(a, b) ==
  /\ b = With(a, b.calls, a.byId, a.next)
  /\ b.calls \in Seq(ToolCallStates) /\ Len(b.calls) = Len(a.calls)
  /\ \A n \in DOMAIN a.calls : IsMarked(b.calls[n], a.calls[n])

LEMMA RemarkedKnows ==
  ASSUME NEW items, NEW a, NEW b, NEW said, Knows(items, a, said), IsRemarked(a, b)
  PROVE  Knows(items, b, said)
<1>1. b.byId = a.byId /\ b.next = a.next
  BY DEF IsRemarked, With
<1>2. IsAccumulator(b)
  <2>1. b = With(b, b.calls, b.byId, b.next)
    BY <1>1 DEF IsRemarked, With
  <2> QED BY <1>1, <2>1 DEF IsAccumulator, Knows, IsRemarked
<1>3. DOMAIN b.calls = DOMAIN a.calls
  BY DEF IsRemarked, Knows, IsAccumulator
<1>4. ASSUME NEW i \in DOMAIN said PROVE HasRecord(items, b, said, i)
  <2> DEFINE n == a.byId[items[i].id]
  <2>1. /\ n \in DOMAIN a.calls
        /\ a.calls[n].item = items[i].id /\ a.calls[n].call = NameOf(items, said, i)
        /\ a.calls[n].named = said[i].known /\ a.calls[n].size = said[i].size
        /\ a.calls[n].status = said[i].status
        /\ a.byId[items[i].call] = IF said[i].known THEN n ELSE 0
    BY DEF Knows, HasRecord
  <2>2. n = b.byId[items[i].id]
    BY <1>1
  <2> HIDE DEF n
  <2>3. IsMarked(b.calls[n], a.calls[n])
    BY <2>1 DEF IsRemarked
  <2> QED BY <1>1, <1>3, <2>1, <2>2, <2>3 DEF HasRecord, IsMarked
<1> QED BY <1>1, <1>2, <1>3, <1>4 DEF Knows

LEMMA AnnouncedIs ==
  ASSUME NEW r \in ToolCallStates, r.status # ""
  PROVE  IsMarked(Announced(r), r) /\ Announced(r).added = TRUE /\ Announced(r).done = r.done
<1> DEFINE status == IF r.status = "" THEN "in_progress" ELSE r.status
<1>1. Announced(r) = [r EXCEPT !.added = TRUE, !.status = status]
  BY DEF Announced
<1>2. status = r.status
  OBVIOUS
<1>3. Announced(r) = [r EXCEPT !.added = TRUE, !.status = r.status]
  BY <1>1, <1>2
<1> QED BY <1>3 DEF IsMarked, ToolCallStates

LEMMA CompletedIs ==
  ASSUME NEW r \in ToolCallStates, r.status = "completed"
  PROVE  /\ IsMarked(Completed(r), r) /\ Completed(r).done = TRUE
         /\ Completed(r).added = (r.added \/ ~r.done)
<1>1. CASE r.done
  BY <1>1 DEF Completed, IsMarked, ToolCallStates
<1>2. CASE ~r.done
  <2>1. Completed(r) = [r EXCEPT !.added = TRUE, !.done = TRUE, !.status = r.status]
    BY <1>2 DEF Completed
  <2> QED BY <1>2, <2>1 DEF IsMarked, ToolCallStates
<1> QED BY <1>1, <1>2

\* A mark on one record.
LEMMA MarkedOne ==
  ASSUME NEW a, IsAccumulator(a), NEW n \in DOMAIN a.calls, NEW t, IsMarked(t, a.calls[n])
  PROVE  LET b == [a EXCEPT !.calls[n] = t]
         IN /\ IsRemarked(a, b) /\ b.calls[n] = t
            /\ \A m \in DOMAIN a.calls : m # n => b.calls[m] = a.calls[m]
<1> DEFINE c == [a.calls EXCEPT ![n] = t]
           b == [a EXCEPT !.calls[n] = t]
<1>1. a = With(a, a.calls, a.byId, a.next) /\ a.calls \in Seq(ToolCallStates)
  BY DEF IsAccumulator
<1>2. t \in ToolCallStates
  BY DEF IsMarked
<1>3. /\ c \in Seq(ToolCallStates) /\ Len(c) = Len(a.calls)
      /\ \A m \in DOMAIN a.calls : c[m] = IF m = n THEN t ELSE a.calls[m]
  BY <1>1, <1>2, Replaced
<1>4. b = [a EXCEPT !.calls = c]
  OBVIOUS
<1> HIDE DEF b, c
<1>5. b = With(a, c, a.byId, a.next)
  BY <1>1, <1>4, WithFields
<1>6. b.calls = c
  BY <1>5, WithFields
<1>7. \A m \in DOMAIN a.calls : IsMarked(a.calls[m], a.calls[m])
  <2>1. \A m \in DOMAIN a.calls : a.calls[m] \in ToolCallStates
    BY <1>1
  <2> QED BY <2>1 DEF IsMarked
<1>8. \A m \in DOMAIN a.calls : IsMarked(c[m], a.calls[m])
  BY <1>3, <1>7
<1>9. IsRemarked(a, b)
  BY <1>3, <1>5, <1>6, <1>8 DEF IsRemarked
<1> QED BY <1>3, <1>6, <1>9 DEF b

-----------------------------------------------------------------------------
(* A step of the stream that is about an item.                             *)

LEMMA CallFound ==
  ASSUME NEW items, AreItems(items), NEW a, NEW said, Knows(items, a, said), IsSaid(items, said),
         NEW i \in DOMAIN said, NEW item, TellsOf(items, i, item), item.named => said[i].known
  PROVE  /\ CallOf(a, item) = a.byId[items[i].id]
         /\ CallOf(a, item) \in DOMAIN a.calls /\ CallOf(a, item) # 0
<1> DEFINE n == a.byId[items[i].id]
<1>1. /\ n \in DOMAIN a.calls /\ a.calls \in Seq(ToolCallStates)
      /\ a.byId[items[i].call] = IF said[i].known THEN n ELSE 0
  BY DEF Knows, HasRecord, IsAccumulator
<1>2. n # 0
  BY <1>1
<1>3. i \in DOMAIN items /\ items[i].kind = "call"
  BY DEF IsSaid
<1>4. /\ item.kind = "call" /\ ItemKey(item) = items[i].id
      /\ CallKey(item) = IF item.named THEN items[i].call ELSE items[i].id
  BY <1>3, KeysOfItem
<1>5. a.byId[CallKey(item)] = n
  BY <1>1, <1>4
<1> HIDE DEF n
<1>6. CallOf(a, item) = n
  BY <1>2, <1>4, <1>5 DEF CallOf
<1> QED BY <1>1, <1>2, <1>6 DEF n

\* The upstream is about to tell of an item.
IsTelled(i, type, event, next) ==
  /\ IsTold(turn.items, progress) /\ i \in DOMAIN turn.items /\ type \in NextTypes(i)
  /\ event = ItemEvent(i, type) /\ IsProgressed(progress, next, i, type)
  /\ Knows(turn.items, acc, SaidOf(turn.items, progress))

LEMMA TypesOf ==
  ASSUME NEW i, NEW type \in NextTypes(i)
  PROVE  /\ type \in {"item.added", "delta", "partial", "done", "item.done"}
         /\ turn.items[i].kind = "call" => type \in {"item.added", "delta", "done", "item.done"}
<1>1. type \in {"item.added", "delta", "partial", "done", "item.done"}
  BY DEF NextTypes
<1>2. IsNext(turn.items[i], progress[i], type)
  BY NextIs
<1> QED BY <1>1, <1>2 DEF IsNext

\* A call: the accumulator knows it, and finds it by the item of the event.
LEMMA HeardCall ==
  ASSUME NEW i, NEW type, NEW event, NEW next, IsTelled(i, type, event, next),
         turn.items[i].kind = "call", NEW items, items = turn.items,
         NEW b, b = Apply(acc, event), NEW told, told = SaidOf(items, next),
         NEW said, said = SaidOf(items, progress)
  PROVE  /\ Knows(items, b, told) /\ IsSaid(items, told)
         /\ Turned(items, acc, said, i, b)
         /\ DOMAIN told = DOMAIN said \cup {i}
         /\ CallOf(b, event.item) = b.byId[items[i].id]
         /\ CallOf(b, event.item) \in DOMAIN b.calls /\ CallOf(b, event.item) # 0
<1> DEFINE item == ToldItem(event)
<1>1. /\ IsTold(items, progress) /\ i \in DOMAIN items /\ type \in NextTypes(i)
      /\ event = ItemEvent(i, type) /\ IsProgressed(progress, next, i, type)
      /\ Knows(items, acc, said) /\ AreItems(items) /\ InOrder(items[i], progress[i])
  BY DEF IsTelled, IsTold
<1>2. /\ type \in {"item.added", "delta", "done", "item.done"}
      /\ IsNext(items[i], progress[i], type)
  BY <1>1, TypesOf, NextIs
<1>3. IsItemEvent(event, i, type)
  BY <1>1, <1>2, ItemEventIs
<1>4. /\ TellsOf(items, i, event.item) /\ TellsOf(items, i, item)
      /\ IsTelling(items[i], progress[i], type, item, event.piece)
  BY <1>1, <1>2, EventTellsOf
<1> HIDE DEF item
<1>5. told = Hears(said, i, item, event.piece)
  BY <1>1, <1>2, <1>4, SaidProgresses
<1>6. i - 1 \in Nat /\ event.piece \in Nat
  <2>1. items \in Seq(Shapes)
    BY <1>1 DEF AreItems
  <2>2. i \in Nat \ {0}
    BY <1>1, <2>1
  <2>3. event.piece = IF type = "delta" THEN 1 ELSE 0
    BY <1>3 DEF IsItemEvent
  <2>4. i - 1 \in Nat
    BY <2>2
  <2>5. event.piece \in Nat
    BY <2>3
  <2> QED BY <2>4, <2>5
<1>7. b = CaptureToolCall(acc, item, i - 1, event.piece)
  BY <1>2, <1>3, ApplyCall DEF item
<1>8. Telling(items, acc, said, i, item, i - 1, event.piece)
  BY <1>1, <1>4, <1>6, SaidIsSaid DEF Telling
<1>9. IsSaid(items, told) /\ Knows(items, b, told) /\ Turned(items, acc, said, i, b)
  BY <1>5, <1>7, <1>8, CaptureKnows
<1>10. /\ DOMAIN told = DOMAIN said \cup {i}
       /\ told[i].known = ((i \in DOMAIN said /\ said[i].known) \/ item.named)
  <2>1. DOMAIN Hears(said, i, item, event.piece) = DOMAIN said \cup {i}
    BY DEF Hears
  <2>2. Hears(said, i, item, event.piece)[i].known
          = ((i \in DOMAIN said /\ said[i].known) \/ item.named)
    BY DEF Hears
  <2> QED BY <1>5, <2>1, <2>2
<1>11. event.item.named = item.named
  BY DEF ToldItem, item
<1>12. event.item.named => told[i].known
  BY <1>10, <1>11
<1>13. i \in DOMAIN told
  BY <1>10
<1>14. /\ CallOf(b, event.item) = b.byId[items[i].id]
       /\ CallOf(b, event.item) \in DOMAIN b.calls /\ CallOf(b, event.item) # 0
  BY <1>1, <1>4, <1>9, <1>12, <1>13, CallFound
<1> QED BY <1>9, <1>10, <1>14

\* Any other item leaves the calls alone.
LEMMA HeardOther ==
  ASSUME NEW i, NEW type, NEW event, NEW next, IsTelled(i, type, event, next),
         turn.items[i].kind # "call"
  PROVE  /\ SaidOf(turn.items, next) = SaidOf(turn.items, progress)
         /\ SameCalls(acc, Apply(acc, event))
         /\ event.item.kind # "call"
<1> DEFINE items == turn.items
<1>1. /\ IsTold(items, progress) /\ i \in DOMAIN items /\ type \in NextTypes(i)
      /\ event = ItemEvent(i, type) /\ IsProgressed(progress, next, i, type)
      /\ Knows(items, acc, SaidOf(items, progress)) /\ AreItems(items)
  BY DEF IsTelled, IsTold
<1>2. i \in Nat \ {0}
  BY <1>1 DEF AreItems
<1>3. type \in {"item.added", "delta", "partial", "done", "item.done"}
  BY <1>1, TypesOf
<1>4. IsItemEvent(event, i, type)
  BY <1>1, <1>3, ItemEventIs
<1>5. SameCalls(acc, Apply(acc, event))
  BY <1>1, <1>2, <1>3, <1>4, ApplyOther DEF Knows
<1>6. \A j \in DOMAIN items : items[j].kind = "call" => next[j] = progress[j]
  BY <1>1 DEF IsProgressed, IsTold
<1>7. HeardOf(items, next) = HeardOf(items, progress)
  BY <1>6 DEF HeardOf
<1>8. \A j \in HeardOf(items, progress) : next[j] = progress[j]
  BY <1>6 DEF HeardOf
<1> HIDE DEF items
<1>9. SaidOf(items, next) = SaidOf(items, progress)
  BY <1>7, <1>8 DEF SaidOf
<1> QED BY <1>4, <1>5, <1>9 DEF IsItemEvent, items

\* The Responses writer marks the record of the call it goes on about, no more.
Marks(t, b, n, event, type) ==
  /\ IsMarked(t, b.calls[n]) /\ n \in DOMAIN b.calls
  /\ ToolCallStep(b, event).acc = [b EXCEPT !.calls[n] = t]
  /\ t = IF type \in {"delta", "item.added"} THEN Announced(b.calls[n]) ELSE Completed(b.calls[n])

LEMMA WriterMarks ==
  ASSUME NEW i, NEW type, NEW event, NEW next, IsTelled(i, type, event, next),
         turn.items[i].kind = "call", NEW items, items = turn.items,
         NEW b, b = Apply(acc, event), NEW n, n = b.byId[items[i].id]
  PROVE  \E t : Marks(t, b, n, event, type)
<1> DEFINE r == b.calls[n]
<1>0. PICK told, said : told = SaidOf(items, next) /\ said = SaidOf(items, progress)
  OBVIOUS
<1>1. /\ Knows(items, b, told) /\ CallOf(b, event.item) = n /\ n \in DOMAIN b.calls
      /\ IsSaid(items, told) /\ i \in DOMAIN told
  <2>1. /\ Knows(items, b, told) /\ IsSaid(items, told) /\ DOMAIN told = DOMAIN said \cup {i}
        /\ CallOf(b, event.item) = b.byId[items[i].id]
        /\ CallOf(b, event.item) \in DOMAIN b.calls
    BY <1>0, HeardCall
  <2> QED BY <2>1
<1>2. r \in ToolCallStates /\ r.status = told[i].status
  <2>1. b.calls \in Seq(ToolCallStates)
    BY <1>1 DEF Knows, IsAccumulator
  <2>2. HasRecord(items, b, told, i)
    BY <1>1 DEF Knows
  <2>3. r \in ToolCallStates
    BY <1>1, <2>1
  <2>4. r.status = told[i].status
    BY <2>2 DEF HasRecord
  <2> QED BY <2>3, <2>4
<1>3. /\ type \in {"item.added", "delta", "done", "item.done"} /\ event.type = type
  <2>1. type \in NextTypes(i) /\ event = ItemEvent(i, type)
    BY DEF IsTelled
  <2>2. type \in {"item.added", "delta", "done", "item.done"}
    BY <2>1, TypesOf
  <2>3. IsItemEvent(event, i, type)
    BY <2>1, <2>2, ItemEventIs
  <2> QED BY <2>2, <2>3 DEF IsItemEvent
<1>4. told[i] = SayingOf(items[i], next[i])
  BY <1>0, <1>1 DEF SaidOf
<1>5. CASE type \in {"delta", "item.added"}
  <2>1. r.status # ""
    BY <1>2, <1>4 DEF SayingOf
  <2>2. IsMarked(Announced(r), r)
    BY <1>2, <2>1, AnnouncedIs
  <2>3. ToolCallStep(b, event).acc = [b EXCEPT !.calls[n] = Announced(r)]
    BY <1>1, <1>3, <1>5 DEF ToolCallStep
  <2> QED BY <1>1, <1>5, <2>2, <2>3 DEF Marks
<1>6. CASE type \in {"done", "item.done"}
  <2>1. next[i].whole \/ next[i].done
    <3>1. IsAdvanced(next[i], progress[i], type)
      BY DEF IsTelled, IsProgressed
    <3> QED BY <1>6, <3>1 DEF IsAdvanced
  <2>2. r.status = "completed"
    BY <1>2, <1>4, <2>1 DEF SayingOf
  <2>3. IsMarked(Completed(r), r)
    BY <1>2, <2>2, CompletedIs
  <2>4. ToolCallStep(b, event).acc = [b EXCEPT !.calls[n] = Completed(r)]
    BY <1>1, <1>3, <1>6 DEF ToolCallStep
  <2> QED BY <1>1, <1>6, <2>3, <2>4 DEF Marks
<1> QED BY <1>3, <1>5, <1>6

\* What the Responses writer does, by the event.
LEMMA ResponsesStepOnCall ==
  ASSUME NEW a, NEW buffer, NEW held, NEW event, NEW step,
         step = ResponsesStep(a, buffer, held, event), ~IsTerminal(event),
         CallOf(a, event.item) # 0, event.item.kind # "message"
  PROVE  step.acc = ToolCallStep(a, event).acc /\ step.out = ToolCallStep(a, event).out
<1>1. step = [acc |-> ToolCallStep(a, event).acc, buffer |-> buffer,
              out |-> ToolCallStep(a, event).out]
  BY DEF ResponsesStep
<1> QED BY <1>1

LEMMA ResponsesStepOnOther ==
  ASSUME NEW a, NEW buffer, NEW held, NEW event, NEW step,
         step = ResponsesStep(a, buffer, held, event), ~IsTerminal(event),
         CallOf(a, event.item) = 0
  PROVE  step.acc = a
BY DEF ResponsesStep

LEMMA ResponsesStepAtEnd ==
  ASSUME NEW a, NEW buffer, NEW held, NEW event, NEW step,
         step = ResponsesStep(a, buffer, held, event), IsTerminal(event),
         CallOf(a, event.item) = 0
  PROVE  /\ step.acc = PendingCompletions(a).acc
         /\ step.out = (IF held THEN Say(None, buffer) ELSE <<>>) \o PendingCompletions(a).out
<1>1. event.type \notin {"delta", "done"}
  BY DEF IsTerminal
<1>2. step = ResponsesEnd(a, buffer, held)
  BY <1>1 DEF ResponsesStep
<1> DEFINE out == (IF held THEN Say(None, buffer) ELSE <<>>) \o PendingCompletions(a).out
<1>3. step = [acc |-> PendingCompletions(a).acc, buffer |-> buffer, out |-> out]
  BY <1>2 DEF ResponsesEnd
<1> HIDE DEF out
<1>4. step.acc = PendingCompletions(a).acc /\ step.out = out
  BY <1>3
<1> QED BY <1>4 DEF out

\* An event about an item: whatever the writer, the accumulator knows what it told.
LEMMA TellKnows ==
  ASSUME NEW i, NEW type, NEW event, NEW next, IsTelled(i, type, event, next),
         dialect \in Dialects, Write(event)
  PROVE  Knows(turn.items, acc', SaidOf(turn.items, next))
<1> DEFINE items == turn.items
           b == Apply(acc, event)
           said == SaidOf(items, progress)
           told == SaidOf(items, next)
<1>0. /\ b = Apply(acc, event) /\ said = SaidOf(items, progress) /\ told = SaidOf(items, next)
      /\ items = turn.items
  OBVIOUS
<1>a. PICK step : step = ResponsesStep(b, writer, tuple, event)
  OBVIOUS
<1>1. acc' = b \/ acc' = step.acc
  BY <1>a DEF Write
<1> HIDE DEF b, said, told, items
<1>2. /\ event.type \in {"item.added", "delta", "partial", "done", "item.done"}
      /\ event.item.kind = turn.items[i].kind /\ event.type = type
  <2>1. type \in NextTypes(i) /\ event = ItemEvent(i, type)
    BY DEF IsTelled
  <2>2. type \in {"item.added", "delta", "partial", "done", "item.done"}
    BY <2>1, TypesOf
  <2>3. IsItemEvent(event, i, type)
    BY <2>1, <2>2, ItemEventIs
  <2> QED BY <2>2, <2>3 DEF IsItemEvent
<1>3. ~IsTerminal(event)
  BY <1>2 DEF IsTerminal
<1>4. CASE items[i].kind = "call"
  <2> DEFINE n == b.byId[items[i].id]
  <2>0. turn.items[i].kind = "call"
    BY <1>0, <1>4
  <2>1. /\ Knows(items, b, told) /\ IsSaid(items, told)
        /\ Turned(items, acc, said, i, b)
        /\ DOMAIN told = DOMAIN said \cup {i}
        /\ CallOf(b, event.item) = b.byId[items[i].id]
        /\ CallOf(b, event.item) \in DOMAIN b.calls /\ CallOf(b, event.item) # 0
    BY <1>0, <2>0, HeardCall
  <2>2. event.item.kind # "message"
    BY <1>2, <2>0
  <2> HIDE DEF n
  <2>3. step.acc = ToolCallStep(b, event).acc
    BY <1>3, <1>a, <2>1, <2>2, ResponsesStepOnCall
  <2>4. PICK t : /\ IsMarked(t, b.calls[n]) /\ n \in DOMAIN b.calls
                 /\ ToolCallStep(b, event).acc = [b EXCEPT !.calls[n] = t]
    <3>1. PICK t : Marks(t, b, n, event, type)
      BY <1>0, <2>0, WriterMarks DEF n
    <3> QED BY <3>1 DEF Marks
  <2>5. IsAccumulator(b)
    BY <2>1 DEF Knows
  <2>6. IsRemarked(b, ToolCallStep(b, event).acc)
    BY <2>4, <2>5, MarkedOne
  <2>7. Knows(items, ToolCallStep(b, event).acc, told)
    BY <2>1, <2>6, RemarkedKnows
  <2> QED BY <1>0, <1>1, <2>1, <2>3, <2>7
<1>5. CASE items[i].kind # "call"
  <2>1. told = said /\ SameCalls(acc, b) /\ event.item.kind # "call"
    BY <1>0, <1>5, HeardOther
  <2>2. Knows(items, acc, said)
    BY <1>0 DEF IsTelled
  <2>3. Knows(items, b, told)
    BY <2>1, <2>2, SameKnows
  <2>4. CallOf(b, event.item) = 0
    BY <2>1 DEF CallOf
  <2>5. step.acc = b
    BY <1>3, <1>a, <2>4, ResponsesStepOnOther
  <2> QED BY <1>0, <1>1, <2>3, <2>5
<1> QED BY <1>0, <1>4, <1>5

-----------------------------------------------------------------------------
(* The invariant.                                                          *)

LEMMA LastEventIs ==
  ASSUME NEW type
  PROVE  LET event == LastEvent(type)
         IN /\ event.type = type /\ event.index = -1 /\ event.item = NoItem
            /\ event.piece = 0 /\ event.output = Listed(type) /\ event.status = type
<1>1. \A o, t, s : LET e == [Event(type, NoItem, -1, 0) EXCEPT !.output = o, !.text = t, !.status = s]
                   IN /\ e.type = type /\ e.index = -1 /\ e.item = NoItem
                      /\ e.piece = 0 /\ e.output = o /\ e.status = s
  BY DEF Event
<1> QED BY <1>1 DEF LastEvent

StreamInv ==
  /\ dialect \in Dialects /\ tuple \in BOOLEAN /\ IsTurn(turn)
  /\ IsTold(turn.items, progress)
  /\ phase = "streaming" => Knows(turn.items, acc, SaidOf(turn.items, progress))

LEMMA StreamInitInv == StreamInit => StreamInv
<1> SUFFICES ASSUME StreamInit PROVE StreamInv
  OBVIOUS
<1>1. dialect \in Dialects /\ tuple \in BOOLEAN /\ IsTurn(turn)
  BY StreamingAssumption DEF StreamInit
<1>2. AreItems(turn.items)
  BY <1>1 DEF IsTurn, AreItems
<1>3. /\ DOMAIN progress = DOMAIN turn.items
      /\ \A i \in DOMAIN turn.items :
           progress[i] = [added |-> FALSE, pieces |-> 0, whole |-> FALSE, done |-> FALSE]
  BY DEF StreamInit
<1>4. \A i \in DOMAIN turn.items : turn.items[i] \in Shapes /\ turn.items[i].deltas <= turn.items[i].size
  BY <1>1 DEF IsTurn
<1>5. \A i \in DOMAIN turn.items : InOrder(turn.items[i], progress[i])
  <2> SUFFICES ASSUME NEW i \in DOMAIN turn.items PROVE InOrder(turn.items[i], progress[i])
    OBVIOUS
  <2>1. turn.items[i] \in Shapes /\ turn.items[i].deltas <= turn.items[i].size
    BY <1>4
  <2>2. /\ progress[i].pieces = 0 /\ progress[i].whole = FALSE /\ progress[i].done = FALSE
        /\ progress[i] \in Progresses
    <3>1. progress[i] = [added |-> FALSE, pieces |-> 0, whole |-> FALSE, done |-> FALSE]
      BY <1>3
    <3> QED BY <3>1 DEF Progresses
  <2>3. turn.items[i].deltas \in Nat
    BY <2>1 DEF Shapes
  <2> QED BY <2>1, <2>2, <2>3 DEF InOrder
<1>6. IsTold(turn.items, progress)
  BY <1>2, <1>3, <1>5 DEF IsTold
<1>7. HeardOf(turn.items, progress) = {}
  BY <1>3 DEF HeardOf
<1>8. DOMAIN SaidOf(turn.items, progress) = {}
  BY <1>7 DEF SaidOf
<1>9. acc = NewAccumulator
  BY DEF StreamInit
<1>10. IsAccumulator(acc)
  <2>1. /\ acc.calls = <<>> /\ acc.byId = [id \in Ids |-> 0] /\ acc.next = 0
    BY <1>9 DEF NewAccumulator
  <2>2. acc = With(acc, acc.calls, acc.byId, acc.next)
    BY <1>9 DEF NewAccumulator, With
  <2>3. acc.calls \in Seq(ToolCallStates) /\ acc.byId \in [Ids -> Nat] /\ acc.next \in Nat
    BY <2>1
  <2> QED BY <2>2, <2>3 DEF IsAccumulator
<1>11. \A i \in DOMAIN turn.items : turn.items[i].kind = "call" =>
         acc.byId[turn.items[i].id] = 0 /\ acc.byId[turn.items[i].call] = 0
  BY <1>2, <1>9, ItemIds DEF NewAccumulator
<1>12. DOMAIN acc.calls = {}
  <2>1. acc.calls = <<>>
    BY <1>9 DEF NewAccumulator
  <2> QED BY <2>1
<1>13. Knows(turn.items, acc, SaidOf(turn.items, progress))
  BY <1>8, <1>10, <1>11, <1>12 DEF Knows
<1> QED BY <1>1, <1>6, <1>13 DEF StreamInv

\* The upstream tells of an item, or ends the response.
LEMMA EventIs ==
  ASSUME NEW event \in NextEvents
  PROVE  \/ \E i \in DOMAIN progress : \E type \in NextTypes(i) : event = ItemEvent(i, type)
         \/ \E type \in {"completed", "incomplete"} : event = LastEvent(type)
<1> DEFINE told == UNION {{ItemEvent(i, type) : type \in NextTypes(i)} : i \in DOMAIN progress}
<1>1. NextEvents = told \cup {LastEvent("incomplete")}
                   \cup {e \in {LastEvent("completed")} : \A i \in DOMAIN progress : Finished(i)}
  BY DEF NextEvents
<1>2. ASSUME event \in told
      PROVE  \E i \in DOMAIN progress : \E type \in NextTypes(i) : event = ItemEvent(i, type)
  BY <1>2
<1> HIDE DEF told
<1>3. event \in told \/ event \in {LastEvent("incomplete")} \/ event \in {LastEvent("completed")}
  BY <1>1
<1> QED BY <1>2, <1>3

LEMMA TellingIs ==
  ASSUME StreamInv, NEW event, Receive(event), NEW i \in DOMAIN progress,
         NEW type \in NextTypes(i), event = ItemEvent(i, type)
  PROVE  /\ IsTelled(i, type, event, progress') /\ IsTold(turn.items, progress')
         /\ ~IsTerminal(event)
<1>0. /\ phase = "streaming"
      /\ progress' = [j \in DOMAIN progress |->
                        IF j - 1 = event.index THEN Advanced(progress[j], event.type)
                        ELSE progress[j]]
  BY DEF Receive
<1>1. type \in {"item.added", "delta", "partial", "done", "item.done"}
  BY TypesOf
<1>2. event.type = type /\ event.index = i - 1
  BY <1>1, ItemEventIs DEF IsItemEvent
<1>3. /\ IsTold(turn.items, progress) /\ AreItems(turn.items)
      /\ DOMAIN progress = DOMAIN turn.items /\ DOMAIN progress \subseteq Nat
      /\ \A j \in DOMAIN progress : InOrder(turn.items[j], progress[j])
  BY DEF IsTold, AreItems, StreamInv
<1>4. \A j \in DOMAIN progress : j - 1 = event.index <=> j = i
  BY <1>2, <1>3
<1>5. IsAdvanced(Advanced(progress[i], type), progress[i], type)
  BY <1>1, <1>3, AdvancedIs DEF InOrder
<1>6. IsProgressed(progress, progress', i, type)
  BY <1>0, <1>2, <1>4, <1>5 DEF IsProgressed
<1>7. InOrder(turn.items[i], progress'[i])
  <2>1. IsNext(turn.items[i], progress[i], type)
    BY NextIs
  <2>2. IsAdvanced(progress'[i], progress[i], type)
    BY <1>6 DEF IsProgressed
  <2> QED BY <1>3, <2>1, <2>2, StaysInOrder
<1>8. IsTold(turn.items, progress')
  BY <1>3, <1>6, <1>7 DEF IsTold, IsProgressed
<1>9. IsTelled(i, type, event, progress')
  BY <1>0, <1>3, <1>6 DEF IsTelled, StreamInv
<1>10. ~IsTerminal(event)
  BY <1>1, <1>2 DEF IsTerminal
<1> QED BY <1>8, <1>9, <1>10

LEMMA EndingIs ==
  ASSUME StreamInv, NEW event, Receive(event), NEW type \in {"completed", "incomplete"},
         event = LastEvent(type)
  PROVE  IsTold(turn.items, progress') /\ phase' = "ended" /\ IsTerminal(event)
<1>1. event.type = type /\ event.index = -1
  BY LastEventIs
<1>2. DOMAIN progress \subseteq Nat \ {0}
  BY DEF IsTold, AreItems, StreamInv
<1>3. \A i \in DOMAIN progress : i - 1 # event.index
  BY <1>1, <1>2
<1>4. IsTold(turn.items, progress')
  BY <1>1, <1>3 DEF Receive, IsTold, StreamInv
<1> QED BY <1>1, <1>4 DEF Receive, IsTerminal

LEMMA StreamNextInv == StreamInv /\ [StreamNext]_streamVars => StreamInv'
<1> SUFFICES ASSUME StreamInv, [StreamNext]_streamVars PROVE StreamInv'
  OBVIOUS
<1>1. CASE UNCHANGED streamVars
  BY <1>1 DEF streamVars, IsTurn, StreamInv
<1>2. CASE Break
  BY <1>2 DEF Break, StreamInv
<1>3. ASSUME NEW event \in NextEvents, Receive(event) PROVE StreamInv'
  <2>0. /\ Write(event) /\ dialect' = dialect /\ tuple' = tuple /\ turn' = turn
        /\ dialect \in Dialects /\ tuple \in BOOLEAN /\ IsTurn(turn)
        /\ IsTold(turn.items, progress)
    BY <1>3 DEF Receive, StreamInv
  <2>1. ASSUME NEW i \in DOMAIN progress, NEW type \in NextTypes(i), event = ItemEvent(i, type)
        PROVE  StreamInv'
    <3>1. IsTelled(i, type, event, progress') /\ IsTold(turn.items, progress')
      BY <1>3, <2>1, TellingIs
    <3>2. Knows(turn.items, acc', SaidOf(turn.items, progress'))
      BY <2>0, <3>1, TellKnows
    <3> QED BY <2>0, <3>1, <3>2 DEF StreamInv
  <2>2. ASSUME NEW type \in {"completed", "incomplete"}, event = LastEvent(type)
        PROVE  StreamInv'
    <3>1. IsTold(turn.items, progress') /\ phase' = "ended"
      BY <1>3, <2>2, EndingIs
    <3> QED BY <2>0, <3>1 DEF StreamInv
  <2> QED BY <1>3, <2>1, <2>2, EventIs
<1> QED BY <1>1, <1>2, <1>3 DEF StreamNext


LEMMA KnownOnce ==
  ASSUME NEW items, AreItems(items), NEW a, NEW said, IsSaid(items, said), Knows(items, a, said)
  PROVE  /\ Len(a.calls) = Cardinality(DOMAIN said)
         /\ \A i \in DOMAIN said : \A n \in DOMAIN a.calls :
              a.calls[n].item = items[i].id <=> n = a.byId[items[i].id]
<1> DEFINE m == Len(a.calls)
           f == [i \in DOMAIN said |-> a.byId[items[i].id]]
<1>1. /\ m \in Nat /\ DOMAIN a.calls = 1 .. m
      /\ \A i \in DOMAIN said : i \in DOMAIN items
  BY DEF Knows, IsAccumulator, IsSaid
<1>2. \A i \in DOMAIN said :
        f[i] \in 1 .. m /\ a.calls[f[i]].item = items[i].id /\ f[i] = a.byId[items[i].id]
  BY <1>1 DEF Knows, HasRecord
<1>3. \A i, j \in DOMAIN said : items[i].id = items[j].id => i = j
  BY <1>1, ItemIds
<1>4. \A n \in 1 .. m : \E i \in DOMAIN said : f[i] = n
  BY <1>1 DEF Knows
<1>5. f \in Injection(DOMAIN said, 1 .. m)
  <2>1. f \in [DOMAIN said -> 1 .. m]
    BY <1>2
  <2>2. \A i, j \in DOMAIN said : f[i] = f[j] => i = j
    BY <1>2, <1>3
  <2> QED BY <2>1, <2>2 DEF Injection, IsInjective
<1>6. f \in Surjection(DOMAIN said, 1 .. m)
  <2>1. f \in [DOMAIN said -> 1 .. m]
    BY <1>2
  <2> QED BY <1>4, <2>1 DEF Surjection
<1> HIDE DEF f
<1>7. Cardinality(DOMAIN said) = Cardinality(1 .. m)
  BY <1>5, <1>6, FS_Interval, FS_Injection
<1>8. Cardinality(1 .. m) = m
  <2>1. 1 \in Int /\ m \in Int
    BY <1>1
  <2>2. Cardinality(1 .. m) = IF 1 > m THEN 0 ELSE m - 1 + 1
    BY ONLY <2>1, FS_Interval
  <2>3. \A k \in Nat : (IF 1 > k THEN 0 ELSE k - 1 + 1) = k
    OBVIOUS
  <2> QED BY ONLY <1>1, <2>2, <2>3
<1>9. ASSUME NEW i \in DOMAIN said, NEW n \in 1 .. m, a.calls[n].item = items[i].id
      PROVE  n = f[i]
  <2>1. PICK j \in DOMAIN said : f[j] = n
    BY <1>4
  <2>2. items[j].id = items[i].id
    BY <1>2, <1>9, <2>1
  <2> QED BY <1>3, <2>1, <2>2
<1> QED BY <1>1, <1>2, <1>7, <1>8, <1>9

LEMMA KnownCalls == StreamInv => OneRecordPerCall
<1> SUFFICES ASSUME StreamInv, phase = "streaming" PROVE OneRecordPerCall
  BY DEF OneRecordPerCall
<1> DEFINE items == turn.items
           said == SaidOf(items, progress)
           Heard == {i \in DOMAIN progress : Shape(i).kind = "call" /\ Started(i)}
           Of(i) == {n \in DOMAIN acc.calls : acc.calls[n].item = Shape(i).id}
<1>1. /\ IsTold(items, progress) /\ Knows(items, acc, said) /\ AreItems(items)
      /\ DOMAIN progress = DOMAIN items
  BY DEF StreamInv, IsTold
<1>2. IsSaid(items, said)
  BY <1>1, SaidIsSaid
<1>3. Heard = HeardOf(items, progress)
  BY <1>1 DEF HeardOf, Shape, Started
<1>4. DOMAIN said = Heard
  BY <1>3 DEF SaidOf
<1>5. said = SaidOf(items, progress)
  OBVIOUS
<1> HIDE DEF said
<1>6. Len(acc.calls) = Cardinality(Heard)
  BY <1>1, <1>2, <1>4, KnownOnce
<1>7. ASSUME NEW i \in Heard
      PROVE  \E n \in Of(i) :
               /\ Of(i) = {n}
               /\ progress[i].added \/ progress[i].done \/ Shape(i).named
                    => acc.calls[n].call = Shape(i).call
               /\ acc.calls[n].size = IF progress[i].whole \/ progress[i].done
                                      THEN Shape(i).size ELSE progress[i].pieces
  <2> DEFINE n == acc.byId[items[i].id]
  <2>1. /\ n \in DOMAIN acc.calls /\ acc.calls[n].call = NameOf(items, said, i)
        /\ acc.calls[n].item = items[i].id
        /\ acc.calls[n].size = said[i].size
    BY <1>1, <1>4, <1>7 DEF Knows, HasRecord
  <2>2. \A m \in DOMAIN acc.calls : acc.calls[m].item = items[i].id <=> m = n
    BY <1>1, <1>2, <1>4, <1>7, KnownOnce
  <2>3. said[i] = SayingOf(items[i], progress[i])
    BY <1>3, <1>5, <1>7 DEF SaidOf
  <2> HIDE DEF n
  <2>4. Of(i) = {n}
    BY <2>1, <2>2 DEF Shape
  <2>5. progress[i].added \/ progress[i].done \/ Shape(i).named => acc.calls[n].call = Shape(i).call
    <3>1. said[i].known = (progress[i].added \/ progress[i].done \/ items[i].named)
      BY <2>3 DEF SayingOf
    <3>2. said[i].known => acc.calls[n].call = items[i].call
      BY <2>1 DEF NameOf
    <3> QED BY <3>1, <3>2 DEF Shape
  <2>6. acc.calls[n].size = IF progress[i].whole \/ progress[i].done
                            THEN Shape(i).size ELSE progress[i].pieces
    BY <2>1, <2>3 DEF SayingOf, Shape
  <2> QED BY <2>4, <2>5, <2>6
<1> QED BY <1>6, <1>7 DEF OneRecordPerCall

LEMMA StreamInvHolds == StreamSpec => []StreamInv
BY StreamInitInv, StreamNextInv, PTL DEF StreamSpec

(***************************************************************************)
(* The accumulator keeps exactly one record of each call the upstream      *)
(* spoke of, however it named the call, with both of its ids once the item *)
(* was seen and all of its arguments once the call is finished             *)
(* (ensureToolCallState, captureToolCallState), for any turns.             *)
(***************************************************************************)
THEOREM EveryCallHasItsRecord == StreamSpec => []OneRecordPerCall
BY StreamInvHolds, KnownCalls, PTL
-----------------------------------------------------------------------------
(* Numbers, and folds over sequences.                                      *)

LEMMA Least ==
  ASSUME NEW T \in SUBSET Nat, T # {}
  PROVE  \E m \in T : \A n \in T : m <= n
<1> DEFINE R == OpToRel(<, Nat)
<1>1. IsWellFoundedOn(R, Nat)
  BY NatLessThanWellFounded
<1>2. \A a, b \in Nat : a < b => <<a, b>> \in R
  BY DEF OpToRel
<1> HIDE DEF R
<1>3. PICK m \in T : \A n \in T : ~(<<n, m>> \in R)
  BY <1>1, WFMin
<1>4. ASSUME NEW n \in T PROVE m <= n
  <2>1. m \in Nat /\ n \in Nat /\ ~(n < m)
    BY <1>2, <1>3
  <2> QED BY <2>1
<1> QED BY <1>4

LEMMA Induction ==
  ASSUME NEW T, 0 \in T, \A n \in Nat : n \in T => n + 1 \in T
  PROVE  Nat \subseteq T
<1> SUFFICES ASSUME Nat \ T # {} PROVE FALSE
  OBVIOUS
<1>1. PICK m \in Nat \ T : \A n \in Nat \ T : m <= n
  BY Least
<1> QED BY <1>1, m - 1 \in Nat

LEMMA MaxIsIn ==
  ASSUME NEW n \in Nat, NEW T \in SUBSET (1 .. n), T # {}
  PROVE  Max(T) \in T /\ \A i \in T : i <= Max(T)
<1> DEFINE D == {n - i : i \in T}
<1>1. PICK d \in D : \A c \in D : d <= c
  <2>1. \A i \in T : n - i \in Nat
    OBVIOUS
  <2>2. D \in SUBSET Nat /\ D # {}
    BY <2>1
  <2> QED BY <2>2, Least
<1>2. PICK m \in T : d = n - m
  BY <1>1
<1>3. \A i \in T : m >= i
  <2> SUFFICES ASSUME NEW i \in T PROVE m >= i
    OBVIOUS
  <2>1. d <= n - i
    BY <1>1
  <2>2. i \in 1 .. n /\ m \in 1 .. n
    OBVIOUS
  <2> QED BY <2>1, <2>2, <1>2
<1>4. ASSUME NEW i \in T PROVE i \in Nat
  <2>1. i \in 1 .. n
    OBVIOUS
  <2> QED BY <2>1
<1>5. Max(T) \in T /\ \A i \in T : Max(T) >= i
  BY <1>3 DEF Max
<1> QED BY <1>4, <1>5

\* What is left of the numbers up to n when the greatest is taken away.
LEMMA WithoutMax ==
  ASSUME NEW n \in Nat, NEW s \in SUBSET (1 .. n), s # {}
  PROVE  /\ Max(s) \in s /\ s \ {Max(s)} \in SUBSET (1 .. Max(s) - 1)
         /\ Max(s) \in 1 .. n
<1>1. Max(s) \in s /\ \A i \in s : i <= Max(s)
  BY MaxIsIn
<1>2. ASSUME NEW i \in s \ {Max(s)} PROVE i \in 1 .. Max(s) - 1
  <2>1. i \in 1 .. n /\ Max(s) \in 1 .. n /\ i <= Max(s) /\ i # Max(s)
    BY <1>1
  <2> QED BY <2>1
<1> QED BY <1>1, <1>2

LEMMA MaxOfFirst ==
  ASSUME NEW n \in Nat \ {0}
  PROVE  Max(1 .. n) = n /\ (1 .. n) \ {n} = 1 .. n - 1
<1>1. 1 .. n # {} /\ n \in 1 .. n
  OBVIOUS
<1>2. Max(1 .. n) \in 1 .. n /\ \A i \in 1 .. n : i <= Max(1 .. n)
  <2>1. n \in Nat /\ 1 .. n \in SUBSET (1 .. n)
    OBVIOUS
  <2> QED BY <1>1, <2>1, MaxIsIn
<1>3. Max(1 .. n) = n
  BY <1>1, <1>2
<1> QED BY <1>3

\* What a client has read of the messages, one after the other.
IsReading(x, bl, outs) ==
  /\ x[0] = bl
  /\ \A n \in 1 .. Len(outs) : x[n] = ReadOne(x[n - 1], outs[n])

\* The fold that Read is defined by.
FoldsReading(g, bl, outs) ==
  g = [s \in SUBSET (1 .. Len(outs)) |->
         IF s = {} THEN bl ELSE ReadOne(g[s \ {Max(s)}], outs[Max(s)])]

LEMMA ReadingExists ==
  ASSUME NEW bl, NEW S, NEW outs \in Seq(S)
  PROVE  \E g : FoldsReading(g, bl, outs)
<1> DEFINE Step(f, s) == IF s = {} THEN bl ELSE ReadOne(f[s \ {Max(s)}], outs[Max(s)])
           IsFold(f, m) == f = [s \in SUBSET (1 .. m) |-> Step(f, s)]
           T == {m \in Nat : \E f : IsFold(f, m)}
<1>1. 0 \in T
  <2> DEFINE f == [s \in SUBSET (1 .. 0) |-> bl]
  <2>1. \A s \in SUBSET (1 .. 0) : s = {}
    OBVIOUS
  <2>2. f = [s \in SUBSET (1 .. 0) |-> Step(f, s)]
    BY <2>1
  <2> QED BY <2>2
<1>2. ASSUME NEW m \in Nat, m \in T PROVE m + 1 \in T
  <2>1. PICK f : IsFold(f, m)
    BY <1>2
  <2> DEFINE g == [s \in SUBSET (1 .. m + 1) |-> Step(f, s)]
  <2>2. ASSUME NEW s \in SUBSET (1 .. m + 1) PROVE g[s] = Step(g, s)
    <3>1. CASE s = {}
      BY <3>1
    <3>2. CASE s # {}
      <4> DEFINE k == Max(s)
                 rest == s \ {k}
      <4>1. rest \in SUBSET (1 .. k - 1) /\ k \in 1 .. m + 1
        BY <3>2, WithoutMax
      <4> HIDE DEF k
      <4>2. 1 .. k - 1 \subseteq 1 .. m
        BY <4>1
      <4>3. rest \in SUBSET (1 .. m)
        BY <4>1, <4>2
      <4>4. rest \in SUBSET (1 .. m + 1)
        OBVIOUS
      <4> HIDE DEF rest
      <4>5. f[rest] = Step(f, rest) /\ g[rest] = Step(f, rest)
        BY <2>1, <4>3, <4>4
      <4>6. Step(f, s) = Step(g, s)
        BY <3>2, <4>5 DEF rest, k
      <4> QED BY <4>6
    <3> QED BY <3>1, <3>2
  <2>3. g = [s \in SUBSET (1 .. m + 1) |-> Step(g, s)]
    BY <2>2
  <2> HIDE DEF g, Step
  <2> QED BY <2>3
<1>3. Nat \subseteq T
  <2> HIDE DEF T
  <2> QED BY <1>1, <1>2, Induction
<1>4. Len(outs) \in Nat
  OBVIOUS
<1> QED BY <1>3, <1>4 DEF FoldsReading

LEMMA ReadIs ==
  ASSUME NEW bl, NEW S, NEW outs \in Seq(S)
  PROVE  \E x : IsReading(x, bl, outs) /\ Read(bl, outs) = x[Len(outs)]
<1> DEFINE N == Len(outs)
           iter[s \in SUBSET (1 .. N)] ==
             IF s = {} THEN bl ELSE ReadOne(iter[s \ {Max(s)}], outs[Max(s)])
<1>0. N \in Nat /\ DOMAIN outs = 1 .. N
  OBVIOUS
<1>1. Read(bl, outs) = iter[1 .. N]
  BY <1>0 DEF Read, FoldLeft, MapThenFoldSet
<1>2. iter = [s \in SUBSET (1 .. N) |->
                IF s = {} THEN bl ELSE ReadOne(iter[s \ {Max(s)}], outs[Max(s)])]
  <2>1. \E g : g = [s \in SUBSET (1 .. N) |->
                     IF s = {} THEN bl ELSE ReadOne(g[s \ {Max(s)}], outs[Max(s)])]
    <3>1. \E g : FoldsReading(g, bl, outs)
      BY ReadingExists
    <3> QED BY <3>1 DEF FoldsReading
  <2> QED BY <2>1
<1>3. /\ {} \in SUBSET (1 .. N) /\ iter[{}] = bl
      /\ \A s \in SUBSET (1 .. N) : s # {} =>
           iter[s] = ReadOne(iter[s \ {Max(s)}], outs[Max(s)])
  BY <1>2
<1> HIDE DEF iter
<1> DEFINE x == [n \in 0 .. N |-> iter[1 .. n]]
<1>4. ASSUME NEW n \in 1 .. N PROVE x[n] = ReadOne(x[n - 1], outs[n])
  <2>1. Max(1 .. n) = n /\ (1 .. n) \ {n} = 1 .. n - 1
    BY <1>0, MaxOfFirst
  <2>2. 1 .. n \in SUBSET (1 .. N) /\ 1 .. n # {}
    <3>1. n \in Nat /\ n >= 1 /\ n <= N
      BY <1>0
    <3>2. 1 .. n \subseteq 1 .. N /\ n \in 1 .. n
      BY <1>0, <3>1
    <3> QED BY <3>2
  <2>3. iter[1 .. n] = ReadOne(iter[1 .. n - 1], outs[n])
    BY <1>3, <2>1, <2>2
  <2>4. n \in 0 .. N /\ n - 1 \in 0 .. N
    BY <1>0
  <2> QED BY <2>3, <2>4
<1>5. x[0] = bl /\ x[N] = iter[1 .. N]
  <2>1. 1 .. 0 = {}
    OBVIOUS
  <2>2. 0 \in 0 .. N /\ N \in 0 .. N
    BY <1>0
  <2> QED BY <1>3, <2>1, <2>2
<1> HIDE DEF x
<1> QED BY <1>1, <1>4, <1>5 DEF IsReading

\* Two readings of the same messages agree.
ReadsOn(x, outs, N) == \A n \in 1 .. N : x[n] = ReadOne(x[n - 1], outs[n])

LEMMA ReadingsAgree ==
  ASSUME NEW N \in Nat, NEW x, NEW y, x[0] = y[0], NEW outs, ReadsOn(x, outs, N),
         ReadsOn(y, outs, N)
  PROVE  x[N] = y[N]
<1> DEFINE T == {n \in Nat : n <= N => x[n] = y[n]}
<1>1. 0 \in T
  OBVIOUS
<1>2. ASSUME NEW n \in Nat, n \in T PROVE n + 1 \in T
  <2> SUFFICES ASSUME n + 1 <= N PROVE x[n + 1] = y[n + 1]
    OBVIOUS
  <2>1. n + 1 \in 1 .. N /\ (n + 1) - 1 = n /\ x[n] = y[n]
    BY <1>2
  <2> QED BY <2>1 DEF ReadsOn
<1>3. Nat \subseteq T
  <2> HIDE DEF T
  <2> QED BY <1>1, <1>2, Induction
<1> QED BY <1>3

LEMMA ReadNothing ==
  ASSUME NEW bl
  PROVE  Read(bl, <<>>) = bl
<1>1. <<>> \in Seq({}) /\ Len(<<>>) = 0
  OBVIOUS
<1>2. PICK x : IsReading(x, bl, <<>>) /\ Read(bl, <<>>) = x[Len(<<>>)]
  BY <1>1, ReadIs
<1> QED BY <1>1, <1>2 DEF IsReading

LEMMA ReadOneOnly ==
  ASSUME NEW bl, NEW out
  PROVE  Read(bl, <<out>>) = ReadOne(bl, out)
<1>1. <<out>> \in Seq({out}) /\ Len(<<out>>) = 1 /\ <<out>>[1] = out
  OBVIOUS
<1>2. PICK x : IsReading(x, bl, <<out>>) /\ Read(bl, <<out>>) = x[Len(<<out>>)]
  BY <1>1, ReadIs
<1>3. x[1] = ReadOne(x[1 - 1], out) /\ x[0] = bl
  BY <1>1, <1>2 DEF IsReading
<1> QED BY <1>1, <1>2, <1>3

LEMMA ReadConcat ==
  ASSUME NEW bl, NEW S, NEW s \in Seq(S), NEW t \in Seq(S)
  PROVE  Read(bl, s \o t) = Read(Read(bl, s), t)
<1> DEFINE N == Len(s)
           M == Len(t)
<1>1. /\ s \o t \in Seq(S) /\ Len(s \o t) = N + M /\ N \in Nat /\ M \in Nat
      /\ \A i \in 1 .. N : (s \o t)[i] = s[i]
      /\ \A i \in 1 .. M : (s \o t)[N + i] = t[i]
  OBVIOUS
<1>2. PICK x : IsReading(x, bl, s) /\ Read(bl, s) = x[N]
  BY ReadIs
<1>3. PICK y : IsReading(y, x[N], t) /\ Read(x[N], t) = y[M]
  BY ReadIs
<1>4. PICK z : IsReading(z, bl, s \o t) /\ Read(bl, s \o t) = z[N + M]
  BY <1>1, ReadIs
<1> HIDE DEF N, M
<1>5. z[N] = x[N]
  <2>1. ReadsOn(z, s, N) /\ ReadsOn(x, s, N)
    <3> SUFFICES ASSUME NEW i \in 1 .. N
                 PROVE  z[i] = ReadOne(z[i - 1], s[i]) /\ x[i] = ReadOne(x[i - 1], s[i])
      BY DEF ReadsOn
    <3>1. i \in 1 .. N + M
      BY <1>1
    <3>2. z[i] = ReadOne(z[i - 1], (s \o t)[i])
      BY <1>1, <1>4, <3>1 DEF IsReading
    <3>3. x[i] = ReadOne(x[i - 1], s[i])
      BY <1>2 DEF IsReading, N
    <3> QED BY <1>1, <3>2, <3>3
  <2>2. z[0] = x[0]
    BY <1>2, <1>4 DEF IsReading
  <2> QED BY <1>1, <2>1, <2>2, ReadingsAgree
<1>6. z[N + M] = y[M]
  <2> DEFINE w == [i \in 0 .. M |-> z[N + i]]
  <2>1. ReadsOn(w, t, M) /\ ReadsOn(y, t, M)
    <3> SUFFICES ASSUME NEW i \in 1 .. M
                 PROVE  w[i] = ReadOne(w[i - 1], t[i]) /\ y[i] = ReadOne(y[i - 1], t[i])
      BY DEF ReadsOn
    <3>1. N + i \in 1 .. N + M /\ (N + i) - 1 = N + (i - 1) /\ i \in 0 .. M /\ i - 1 \in 0 .. M
      BY <1>1
    <3>2. z[N + i] = ReadOne(z[(N + i) - 1], (s \o t)[N + i])
      BY <1>1, <1>4, <3>1 DEF IsReading
    <3>3. z[N + i] = ReadOne(z[N + (i - 1)], t[i])
      BY <1>1, <3>1, <3>2
    <3>4. w[i] = z[N + i] /\ w[i - 1] = z[N + (i - 1)]
      BY <3>1
    <3>5. y[i] = ReadOne(y[i - 1], t[i])
      BY <1>3 DEF IsReading, M
    <3> HIDE DEF w
    <3> QED BY <3>3, <3>4, <3>5
  <2>2. w[0] = y[0] /\ w[M] = z[N + M]
    BY <1>1, <1>3, <1>5 DEF IsReading
  <2> HIDE DEF w
  <2> QED BY <1>1, <2>1, <2>2, ReadingsAgree
<1> QED BY <1>2, <1>3, <1>4, <1>6

LEMMA ReadNext ==
  ASSUME NEW bl, NEW S, NEW s \in Seq(S), NEW out \in S
  PROVE  Read(bl, s \o <<out>>) = ReadOne(Read(bl, s), out)
<1>1. \A t \in Seq(S) : Read(bl, s \o t) = Read(Read(bl, s), t)
  BY ReadConcat
<1>2. <<out>> \in Seq(S)
  OBVIOUS
<1>3. Read(bl, s \o <<out>>) = Read(Read(bl, s), <<out>>)
  BY <1>1, <1>2
<1> QED BY <1>3, ReadOneOnly

\* The sequences put one after the other.
IsFlattening(f, seqs, S) ==
  /\ f[0] = <<>> /\ \A n \in 0 .. Len(seqs) : f[n] \in Seq(S)
  /\ \A n \in 1 .. Len(seqs) : f[n] = f[n - 1] \o seqs[n]

FoldsFlat(g, seqs) ==
  g = [n \in 1 .. Len(seqs) |-> IF n = 1 THEN seqs[n] ELSE g[n - 1] \o seqs[n]]

LEMMA FlatExists ==
  ASSUME NEW seqs, Len(seqs) \in Nat
  PROVE  \E g : FoldsFlat(g, seqs)
<1> DEFINE Step(f, n) == IF n = 1 THEN seqs[n] ELSE f[n - 1] \o seqs[n]
           IsFold(f, m) == f = [n \in 1 .. m |-> Step(f, n)]
           T == {m \in Nat : \E f : IsFold(f, m)}
<1>1. 0 \in T
  <2> DEFINE f == [n \in 1 .. 0 |-> <<>>]
  <2>1. f = [n \in 1 .. 0 |-> Step(f, n)]
    OBVIOUS
  <2> QED BY <2>1
<1>2. ASSUME NEW m \in Nat, m \in T PROVE m + 1 \in T
  <2>1. PICK f : IsFold(f, m)
    BY <1>2
  <2> DEFINE g == [n \in 1 .. m + 1 |-> Step(f, n)]
  <2>2. ASSUME NEW n \in 1 .. m + 1 PROVE g[n] = Step(g, n)
    <3>1. CASE n = 1
      BY <3>1
    <3>2. CASE n # 1
      <4>1. n - 1 \in 1 .. m /\ n - 1 \in 1 .. m + 1
        BY <3>2
      <4>2. f[n - 1] = Step(f, n - 1) /\ g[n - 1] = Step(f, n - 1)
        BY <2>1, <4>1
      <4> HIDE DEF g
      <4>3. Step(f, n) = Step(g, n)
        BY <4>2
      <4> QED BY <4>3 DEF g
    <3> QED BY <3>1, <3>2
  <2>3. g = [n \in 1 .. m + 1 |-> Step(g, n)]
    BY <2>2
  <2> HIDE DEF g, Step
  <2> QED BY <2>3
<1>3. Nat \subseteq T
  <2> HIDE DEF T
  <2> QED BY <1>1, <1>2, Induction
<1> QED BY <1>3 DEF FoldsFlat

LEMMA FlattenIs ==
  ASSUME NEW S, NEW seqs, seqs \in Seq(Seq(S))
  PROVE  \E f : IsFlattening(f, seqs, S) /\ FlattenSeq(seqs) = f[Len(seqs)]
<1> DEFINE N == Len(seqs)
           flatten[n \in 1 .. N] == IF n = 1 THEN seqs[n] ELSE flatten[n - 1] \o seqs[n]
<1>0. N \in Nat /\ \A n \in 1 .. N : seqs[n] \in Seq(S)
  OBVIOUS
<1>1. N # 0 => FlattenSeq(seqs) = flatten[N]
  BY DEF FlattenSeq
<1>2. N = 0 => FlattenSeq(seqs) = seqs
  BY DEF FlattenSeq
<1>3. flatten = [n \in 1 .. N |-> IF n = 1 THEN seqs[n] ELSE flatten[n - 1] \o seqs[n]]
  <2>1. \E g : g = [n \in 1 .. N |-> IF n = 1 THEN seqs[n] ELSE g[n - 1] \o seqs[n]]
    <3>1. \E g : FoldsFlat(g, seqs)
      BY <1>0, FlatExists
    <3> QED BY <3>1 DEF FoldsFlat
  <2> QED BY <2>1
<1>4. \A n \in 1 .. N : flatten[n] = IF n = 1 THEN seqs[n] ELSE flatten[n - 1] \o seqs[n]
  BY <1>3
<1> HIDE DEF flatten
<1> DEFINE f == [n \in 0 .. N |-> IF n = 0 THEN <<>> ELSE flatten[n]]
<1>5. \A n \in 1 .. N : f[n] = f[n - 1] \o seqs[n]
  <2> SUFFICES ASSUME NEW n \in 1 .. N PROVE f[n] = f[n - 1] \o seqs[n]
    OBVIOUS
  <2>1. seqs[n] \in Seq(S) /\ n \in 0 .. N /\ n - 1 \in 0 .. N /\ n # 0
    BY <1>0
  <2>2. f[n] = flatten[n]
    BY <2>1
  <2>3. CASE n = 1
    <3>1. f[n - 1] = <<>>
      BY <2>1, <2>3
    <3>2. flatten[n] = seqs[n]
      BY <1>4, <2>3
    <3> HIDE DEF f
    <3> QED BY <2>1, <2>2, <3>1, <3>2
  <2>4. CASE n # 1
    <3>1. n - 1 # 0 /\ f[n - 1] = flatten[n - 1]
      BY <1>0, <2>1, <2>4
    <3>2. flatten[n] = flatten[n - 1] \o seqs[n]
      BY <1>4, <2>4
    <3> HIDE DEF f
    <3> QED BY <2>2, <3>1, <3>2
  <2> QED BY <2>3, <2>4
<1>6. f[0] = <<>> /\ (N # 0 => f[N] = flatten[N])
  BY <1>0
<1> HIDE DEF f
<1> DEFINE T == {n \in Nat : n <= N => f[n] \in Seq(S)}
<1>7. 0 \in T
  <2>1. <<>> \in Seq(S)
    OBVIOUS
  <2> QED BY <1>6, <2>1
<1>8. ASSUME NEW n \in Nat, n \in T PROVE n + 1 \in T
  <2> SUFFICES ASSUME n + 1 <= N PROVE f[n + 1] \in Seq(S)
    OBVIOUS
  <2>1. n + 1 \in 1 .. N /\ (n + 1) - 1 = n /\ f[n] \in Seq(S)
    BY <1>0, <1>8
  <2>2. f[n + 1] = f[n] \o seqs[n + 1] /\ seqs[n + 1] \in Seq(S)
    BY <1>0, <1>5, <2>1
  <2> QED BY <2>1, <2>2
<1>9. \A n \in 0 .. N : f[n] \in Seq(S)
  <2>1. Nat \subseteq T
    <3> HIDE DEF T
    <3> QED BY <1>7, <1>8, Induction
  <2> QED BY <1>0, <2>1
<1>10. FlattenSeq(seqs) = f[N]
  <2>1. N = 0 => seqs = <<>>
    OBVIOUS
  <2> QED BY <1>1, <1>2, <1>6, <2>1
<1> QED BY <1>5, <1>6, <1>9, <1>10 DEF IsFlattening

LEMMA FlattenType ==
  ASSUME NEW S, NEW seqs, seqs \in Seq(Seq(S))
  PROVE  FlattenSeq(seqs) \in Seq(S)
<1>1. PICK f : IsFlattening(f, seqs, S) /\ FlattenSeq(seqs) = f[Len(seqs)]
  BY FlattenIs
<1>2. Len(seqs) \in 0 .. Len(seqs)
  <2>1. Len(seqs) \in Nat
    OBVIOUS
  <2> QED BY <2>1
<1> QED BY <1>1, <1>2 DEF IsFlattening

\* What a client has read after each of the sequences.
ReadsEach(x, bl, seqs) ==
  /\ x[0] = bl
  /\ \A n \in 1 .. Len(seqs) : x[n] = Read(x[n - 1], seqs[n])

LEMMA ReadFlattened ==
  ASSUME NEW bl, NEW S, NEW seqs, seqs \in Seq(Seq(S))
  PROVE  \E x : ReadsEach(x, bl, seqs) /\ Read(bl, FlattenSeq(seqs)) = x[Len(seqs)]
<1>1. PICK f : IsFlattening(f, seqs, S) /\ FlattenSeq(seqs) = f[Len(seqs)]
  BY FlattenIs
<1> DEFINE N == Len(seqs)
           x == [n \in 0 .. N |-> Read(bl, f[n])]
<1>2. N \in Nat /\ \A n \in 1 .. N : seqs[n] \in Seq(S)
  OBVIOUS
<1>3. x[0] = bl
  <2>1. f[0] = <<>>
    BY <1>1 DEF IsFlattening
  <2>2. x[0] = Read(bl, f[0])
    BY <1>2
  <2> HIDE DEF x
  <2> QED BY <2>1, <2>2, ReadNothing
<1>4. ASSUME NEW n \in 1 .. N PROVE x[n] = Read(x[n - 1], seqs[n])
  <2>1. n \in 0 .. N /\ n - 1 \in 0 .. N
    BY <1>2
  <2>2. x[n] = Read(bl, f[n]) /\ x[n - 1] = Read(bl, f[n - 1])
    BY <2>1
  <2>3. f[n] = f[n - 1] \o seqs[n] /\ f[n - 1] \in Seq(S) /\ seqs[n] \in Seq(S)
    BY <1>1, <1>2, <2>1 DEF IsFlattening
  <2>4. Read(bl, f[n - 1] \o seqs[n]) = Read(Read(bl, f[n - 1]), seqs[n])
    BY <2>3, ReadConcat
  <2> HIDE DEF x
  <2> QED BY <2>2, <2>3, <2>4
<1>5. x[N] = Read(bl, f[N])
  BY <1>2
<1> HIDE DEF x
<1> QED BY <1>1, <1>3, <1>4, <1>5 DEF ReadsEach
-----------------------------------------------------------------------------
(* What a Responses client reads of a call.                                *)

\* A call as the client has it.
CallShown(id, size, closed) ==
  [kind |-> "call", id |-> id, size |-> size, opened |-> 1, closed |-> closed]

\* One block is read, and the others stay.
Changes(bl, b, key, block) ==
  /\ DOMAIN b = DOMAIN bl \cup {key} /\ b[key] = block
  /\ \A other \in DOMAIN bl : other # key => b[other] = bl[other]

LEMMA ReadOneIs ==
  ASSUME NEW bl, NEW out
  PROVE  \E block : /\ Changes(bl, ReadOne(bl, out), out.key, block)
                    /\ block = LET old == IF out.key \in DOMAIN bl THEN bl[out.key]
                                          ELSE Unopened(out)
                               IN CASE out.do = "open" -> [old EXCEPT !.opened = @ + 1, !.kind = out.kind,
                                                                      !.id = out.id]
                                    [] out.do = "append" -> [old EXCEPT !.size = @ + out.size]
                                    [] out.do = "state" -> [old EXCEPT !.size = out.size]
                                    [] out.do = "close" -> [old EXCEPT !.closed = TRUE, !.id = out.id]
<1> PICK block : block = LET old == IF out.key \in DOMAIN bl THEN bl[out.key]
                                          ELSE Unopened(out)
                               IN CASE out.do = "open" -> [old EXCEPT !.opened = @ + 1, !.kind = out.kind,
                                                                      !.id = out.id]
                                    [] out.do = "append" -> [old EXCEPT !.size = @ + out.size]
                                    [] out.do = "state" -> [old EXCEPT !.size = out.size]
                                    [] out.do = "close" -> [old EXCEPT !.closed = TRUE, !.id = out.id]
  OBVIOUS
<1>1. ReadOne(bl, out) = [key \in DOMAIN bl \cup {out.key} |-> IF key = out.key THEN block ELSE bl[key]]
  BY DEF ReadOne
<1>2. Changes(bl, ReadOne(bl, out), out.key, block)
  BY <1>1 DEF Changes
<1> QED BY <1>2

LEMMA OpensReads ==
  ASSUME NEW bl, NEW key, key \notin DOMAIN bl, NEW id
  PROVE  Changes(bl, ReadOne(bl, Opens(key, "call", id)), key, CallShown(id, 0, FALSE))
<1> DEFINE out == Opens(key, "call", id)
<1>1. /\ out.do = "open" /\ out.key = key /\ out.kind = "call" /\ out.id = id
  BY DEF Opens
<1>2. Unopened(out) = [kind |-> "call", id |-> id, size |-> 0, opened |-> 0, closed |-> FALSE]
  BY <1>1 DEF Unopened
<1> HIDE DEF out
<1>3. PICK block : /\ Changes(bl, ReadOne(bl, out), key, block)
                   /\ block = [Unopened(out) EXCEPT !.opened = @ + 1, !.kind = out.kind,
                                                    !.id = out.id]
  <2>1. PICK block : /\ Changes(bl, ReadOne(bl, out), out.key, block)
                     /\ block = LET old == IF out.key \in DOMAIN bl THEN bl[out.key]
                                           ELSE Unopened(out)
                                IN CASE out.do = "open" -> [old EXCEPT !.opened = @ + 1, !.kind = out.kind,
                                                                       !.id = out.id]
                                     [] out.do = "append" -> [old EXCEPT !.size = @ + out.size]
                                     [] out.do = "state" -> [old EXCEPT !.size = out.size]
                                     [] out.do = "close" -> [old EXCEPT !.closed = TRUE, !.id = out.id]
    BY ReadOneIs
  <2>2. out.key \notin DOMAIN bl /\ out.do = "open"
    BY <1>1
  <2>3. block = [Unopened(out) EXCEPT !.opened = @ + 1, !.kind = out.kind, !.id = out.id]
    BY <2>1, <2>2
  <2> QED BY <1>1, <2>1, <2>3
<1>4. block = CallShown(id, 0, FALSE)
  <2>1. block = [[kind |-> "call", id |-> id, size |-> 0, opened |-> 0, closed |-> FALSE]
                   EXCEPT !.opened = @ + 1, !.kind = "call", !.id = id]
    BY <1>1, <1>2, <1>3
  <2>2. block = [kind |-> "call", id |-> id, size |-> 0, opened |-> 0 + 1, closed |-> FALSE]
    BY <2>1
  <2> QED BY <2>2 DEF CallShown
<1> QED BY <1>3, <1>4 DEF out

LEMMA AppendsReads ==
  ASSUME NEW bl, NEW key, key \in DOMAIN bl, NEW id, NEW size, bl[key] = CallShown(id, size, FALSE),
         NEW piece
  PROVE  Changes(bl, ReadOne(bl, Appends(key, id, piece)), key, CallShown(id, size + piece, FALSE))
<1> DEFINE out == Appends(key, id, piece)
<1>1. out.do = "append" /\ out.key = key /\ out.size = piece
  BY DEF Appends
<1> HIDE DEF out
<1>2. PICK block : /\ Changes(bl, ReadOne(bl, out), key, block)
                   /\ block = [bl[key] EXCEPT !.size = @ + out.size]
  BY <1>1, ReadOneIs
<1>3. block = CallShown(id, size + piece, FALSE)
  <2>1. block = [CallShown(id, size, FALSE) EXCEPT !.size = @ + piece]
    BY <1>1, <1>2
  <2> QED BY <2>1 DEF CallShown
<1> QED BY <1>2, <1>3 DEF out

LEMMA StatesReads ==
  ASSUME NEW bl, NEW key, key \in DOMAIN bl, NEW id, NEW size, bl[key] = CallShown(id, size, FALSE),
         NEW whole
  PROVE  Changes(bl, ReadOne(bl, States(key, id, whole)), key, CallShown(id, whole, FALSE))
<1> DEFINE out == States(key, id, whole)
<1>1. out.do = "state" /\ out.key = key /\ out.size = whole
  BY DEF States
<1> HIDE DEF out
<1>2. PICK block : /\ Changes(bl, ReadOne(bl, out), key, block)
                   /\ block = [bl[key] EXCEPT !.size = out.size]
  BY <1>1, ReadOneIs
<1>3. block = CallShown(id, whole, FALSE)
  <2>1. block = [CallShown(id, size, FALSE) EXCEPT !.size = whole]
    BY <1>1, <1>2
  <2> QED BY <2>1 DEF CallShown
<1> QED BY <1>2, <1>3 DEF out

LEMMA ClosesReads ==
  ASSUME NEW bl, NEW key, key \in DOMAIN bl, NEW id, NEW size, bl[key] = CallShown(id, size, FALSE)
  PROVE  Changes(bl, ReadOne(bl, Closes(key, id)), key, CallShown(id, size, TRUE))
<1> DEFINE out == Closes(key, id)
<1>1. out.do = "close" /\ out.key = key /\ out.id = id
  BY DEF Closes
<1> HIDE DEF out
<1>2. PICK block : /\ Changes(bl, ReadOne(bl, out), key, block)
                   /\ block = [bl[key] EXCEPT !.closed = TRUE, !.id = out.id]
  BY <1>1, ReadOneIs
<1>3. block = CallShown(id, size, TRUE)
  <2>1. block = [CallShown(id, size, FALSE) EXCEPT !.closed = TRUE, !.id = id]
    BY <1>1, <1>2
  <2> QED BY <2>1 DEF CallShown
<1> QED BY <1>2, <1>3 DEF out

\* An open call, as much of it as was shown.
IsOpen(bl, call, size) ==
  IF call.added
  THEN ItemBlock(call) \in DOMAIN bl /\ bl[ItemBlock(call)] = CallShown(call.call, size, FALSE)
  ELSE ItemBlock(call) \notin DOMAIN bl /\ size = 0

LEMMA AnnounceReads ==
  ASSUME NEW bl, NEW call, NEW size, IsOpen(bl, call, size)
  PROVE  Changes(bl, Read(bl, Announce(call)), ItemBlock(call), CallShown(call.call, size, FALSE))
<1>1. CASE call.added
  <2>1. Read(bl, Announce(call)) = bl
    BY <1>1, ReadNothing DEF Announce
  <2> QED BY <1>1, <2>1 DEF IsOpen, Changes
<1>2. CASE ~call.added
  <2>1. Read(bl, Announce(call)) = ReadOne(bl, Opens(ItemBlock(call), "call", call.call))
    BY <1>2, ReadOneOnly DEF Announce
  <2> QED BY <1>2, <2>1, OpensReads DEF IsOpen
<1> QED BY <1>1, <1>2

LEMMA AnnounceType ==
  ASSUME NEW call
  PROVE  Announce(call) \in Seq({Opens(ItemBlock(call), "call", call.call)})
<1> PICK open : open = Opens(ItemBlock(call), "call", call.call)
  OBVIOUS
<1>1. Announce(call) = <<>> \/ Announce(call) = <<open>>
  BY DEF Announce
<1>2. <<>> \in Seq({open}) /\ <<open>> \in Seq({open})
  OBVIOUS
<1> QED BY <1>1, <1>2

LEMMA SubSequence ==
  ASSUME NEW S, NEW U, S \subseteq U, NEW s \in Seq(S)
  PROVE  s \in Seq(U)
OBVIOUS

LEMMA TwoInOrder ==
  ASSUME NEW x, NEW y
  PROVE  <<x>> \o <<y>> = <<x, y>>
<1> DEFINE S == {x, y}
<1>1. /\ <<x>> \in Seq(S) /\ Len(<<x>>) = 1 /\ <<x>>[1] = x
      /\ <<y>> \in Seq(S) /\ Len(<<y>>) = 1 /\ <<y>>[1] = y
  OBVIOUS
<1>2. <<x, y>> \in Seq(S) /\ Len(<<x, y>>) = 2 /\ <<x, y>>[1] = x /\ <<x, y>>[2] = y
  OBVIOUS
<1> PICK t, u, v : t = <<x>> /\ u = <<y>> /\ v = <<x, y>>
  OBVIOUS
<1>3. /\ t \in Seq(S) /\ Len(t) = 1 /\ t[1] = x /\ u \in Seq(S) /\ Len(u) = 1 /\ u[1] = y
      /\ v \in Seq(S) /\ Len(v) = 2 /\ v[1] = x /\ v[2] = y
  BY <1>1, <1>2
<1> HIDE DEF S
<1>4. t \o u = v
  <2>1. /\ t \o u \in Seq(S) /\ Len(t \o u) = 2 /\ (t \o u)[1] = x /\ (t \o u)[2] = y
    BY <1>3, ConcatProperties
  <2>2. \A i \in 1 .. 2 : (t \o u)[i] = v[i]
    <3>1. \A i \in 1 .. 2 : i = 1 \/ i = 2
      OBVIOUS
    <3> QED BY <1>3, <2>1, <3>1
  <2>3. \A i \in 1 .. Len(t \o u) : (t \o u)[i] = v[i]
    BY <2>1, <2>2
  <2> QED BY <1>3, <2>1, <2>3, SeqEqual
<1> QED BY <1>4

\* A piece of the arguments.
LEMMA PieceReads ==
  ASSUME NEW bl, NEW call, NEW size, IsOpen(bl, call, size), NEW piece
  PROVE  Changes(bl, Read(bl, Announce(call) \o <<Appends(ItemBlock(call), call.call, piece)>>),
                 ItemBlock(call), CallShown(call.call, size + piece, FALSE))
<1> DEFINE key == ItemBlock(call)
           open == Opens(key, "call", call.call)
           out == Appends(key, call.call, piece)
           b == Read(bl, Announce(call))
<1>1. Announce(call) \in Seq({open, out})
  <2>1. {open} \subseteq {open, out} /\ Announce(call) \in Seq({open})
    BY AnnounceType
  <2> HIDE DEF open, out
  <2> QED BY <2>1, SubSequence
<1> HIDE DEF open, out
<1>2. Read(bl, Announce(call) \o <<out>>) = ReadOne(b, out)
  <2> PICK S : S = {open, out}
    OBVIOUS
  <2>1. Announce(call) \in Seq(S) /\ out \in S
    BY <1>1
  <2> QED BY <2>1, ReadNext
<1>5. Changes(bl, b, key, CallShown(call.call, size, FALSE))
  BY AnnounceReads
<1> HIDE DEF b, key
<1>6. Changes(b, ReadOne(b, out), key, CallShown(call.call, size + piece, FALSE))
  <2>1. key \in DOMAIN b /\ b[key] = CallShown(call.call, size, FALSE)
    BY <1>5 DEF Changes
  <2> QED BY <2>1, AppendsReads DEF out
<1>7. Changes(bl, ReadOne(b, out), key, CallShown(call.call, size + piece, FALSE))
  BY <1>5, <1>6 DEF Changes
<1> QED BY <1>2, <1>7 DEF out, key

\* The end of a call, whatever was shown of it before.
LEMMA CompleteReads ==
  ASSUME NEW bl, NEW call, NEW size, IsOpen(bl, call, size), ~call.done
  PROVE  Changes(bl, Read(bl, Complete(call)), ItemBlock(call), CallShown(call.call, call.size, TRUE))
<1> DEFINE key == ItemBlock(call)
           open == Opens(key, "call", call.call)
           state == States(key, call.call, call.size)
           close == Closes(key, call.call)
           b == Read(bl, Announce(call))
           c == ReadOne(b, state)
<1>0. Complete(call) = Announce(call) \o <<state, close>>
  BY DEF Complete
<1>1. Announce(call) \in Seq({open, state, close})
  <2>1. {open} \subseteq {open, state, close} /\ Announce(call) \in Seq({open})
    BY AnnounceType
  <2> HIDE DEF open, state, close
  <2> QED BY <2>1, SubSequence
<1> HIDE DEF open, state, close
<1> PICK S : S = {open, state, close}
  OBVIOUS
<1>a. state \in S /\ close \in S /\ Announce(call) \in Seq(S)
  BY <1>1
<1>2. Announce(call) \o <<state, close>> = (Announce(call) \o <<state>>) \o <<close>>
  <2> PICK s, t, u : s = Announce(call) /\ t = <<state>> /\ u = <<close>>
    OBVIOUS
  <2>1. s \in Seq(S) /\ t \in Seq(S) /\ u \in Seq(S)
    BY <1>a
  <2>2. s \o (t \o u) = (s \o t) \o u
    BY <2>1, ConcatAssociative
  <2>3. t \o u = <<state, close>>
    BY TwoInOrder
  <2> QED BY <2>2, <2>3
<1>3. Announce(call) \o <<state>> \in Seq(S)
  <2>1. <<state>> \in Seq(S)
    BY <1>a
  <2> QED BY <1>a, <2>1
<1>4. Read(bl, Announce(call) \o <<state>>) = c
  BY <1>a, ReadNext
<1>5. Read(bl, (Announce(call) \o <<state>>) \o <<close>>) = ReadOne(c, close)
  <2>1. Read(bl, (Announce(call) \o <<state>>) \o <<close>>)
          = ReadOne(Read(bl, Announce(call) \o <<state>>), close)
    BY <1>a, <1>3, ReadNext
  <2> QED BY <1>4, <2>1
<1>6. Changes(bl, b, key, CallShown(call.call, size, FALSE))
  BY AnnounceReads
<1> HIDE DEF b, key
<1>7. Changes(b, c, key, CallShown(call.call, call.size, FALSE))
  <2>1. key \in DOMAIN b /\ b[key] = CallShown(call.call, size, FALSE)
    BY <1>6 DEF Changes
  <2> QED BY <2>1, StatesReads DEF state
<1>8. Changes(c, ReadOne(c, close), key, CallShown(call.call, call.size, TRUE))
  <2>1. key \in DOMAIN c /\ c[key] = CallShown(call.call, call.size, FALSE)
    BY <1>7 DEF Changes
  <2> HIDE DEF c
  <2> QED BY <2>1, ClosesReads DEF close
<1> HIDE DEF c
<1>9. Changes(bl, ReadOne(c, close), key, CallShown(call.call, call.size, TRUE))
  <2>1. Changes(bl, c, key, CallShown(call.call, call.size, FALSE))
    BY <1>6, <1>7 DEF Changes
  <2> QED BY <1>8, <2>1 DEF Changes
<1> QED BY <1>0, <1>2, <1>5, <1>9 DEF key
-----------------------------------------------------------------------------
(* What a Responses client has of the calls while the stream goes on.      *)

\* How much of a call was told before and after an event.
SizeSaid(shape, said) == IF IsHeard(said) THEN SayingOf(shape, said).size ELSE 0

LEMMA ShownSizes ==
  ASSUME NEW shape, NEW said, NEW type, NEW next, InOrder(shape, said),
         IsNext(shape, said, type), IsAdvanced(next, said, type), shape.kind = "call",
         NEW p, p = SizeSaid(shape, said), NEW q, q = SayingOf(shape, next).size
  PROVE  /\ type = "item.added" => q = p /\ ~said.whole /\ ~said.done
         /\ type = "delta" => q = p + 1 /\ ~said.whole /\ ~said.done
         /\ said.whole \/ said.done => q = p /\ type # "delta" /\ type # "item.added"
         /\ (next.whole \/ next.done) = (type \in {"done", "item.done"} \/ said.whole \/ said.done)
<1>1. /\ shape.size \in Nat /\ shape.deltas \in Nat
      /\ said.added \in BOOLEAN /\ said.pieces \in Nat /\ said.whole \in BOOLEAN
      /\ said.done \in BOOLEAN
  BY ShapeFields
<1>2. /\ SayingOf(shape, said).size = IF said.whole \/ said.done THEN shape.size ELSE said.pieces
      /\ SayingOf(shape, next).size = IF next.whole \/ next.done THEN shape.size ELSE next.pieces
  BY DEF SayingOf
<1>3. /\ next.pieces = IF type \in {"delta", "partial"} THEN said.pieces + 1 ELSE said.pieces
      /\ next.whole = (said.whole \/ type = "done") /\ next.done = (said.done \/ type = "item.done")
  BY DEF IsAdvanced
<1>4. (next.whole \/ next.done) = (type \in {"done", "item.done"} \/ said.whole \/ said.done)
  BY <1>3
<1>5. CASE type = "item.added"
  BY <1>1, <1>2, <1>3, <1>4, <1>5 DEF IsNext, IsHeard, SizeSaid
<1>6. CASE type = "delta"
  <2>1. ~said.whole /\ ~said.done
    BY <1>1, <1>6 DEF IsNext, InOrder
  <2> QED BY <1>1, <1>2, <1>3, <1>4, <1>6, <2>1 DEF IsHeard, SizeSaid
<1>7. CASE type \in {"done", "item.done"}
  BY <1>1, <1>2, <1>3, <1>4, <1>7 DEF IsHeard, SizeSaid
<1>8. type \in {"item.added", "delta", "done", "item.done"}
  BY DEF IsNext
<1> QED BY <1>5, <1>6, <1>7, <1>8

\* The first event of an introduced call tells its call id.
LEMMA KnownWhenTold ==
  ASSUME NEW shape, NEW said, NEW type, NEW next, InOrder(shape, said),
         IsNext(shape, said, type), IsAdvanced(next, said, type), shape.kind = "call",
         Introduced(shape), IsHeard(said) => SayingOf(shape, said).known
  PROVE  SayingOf(shape, next).known
<1>1. /\ shape.size \in Nat /\ shape.deltas \in Nat /\ shape.named \in BOOLEAN
      /\ said.added \in BOOLEAN /\ said.pieces \in Nat /\ said.whole \in BOOLEAN
      /\ said.done \in BOOLEAN /\ shape.whole \in BOOLEAN
  BY ShapeFields
<1>2. /\ SayingOf(shape, said).known = (said.added \/ said.done \/ shape.named)
      /\ SayingOf(shape, next).known = (next.added \/ next.done \/ shape.named)
  BY DEF SayingOf
<1>3. next.added = (said.added \/ type = "item.added") /\ next.done = (said.done \/ type = "item.done")
  BY DEF IsAdvanced
<1>4. CASE IsHeard(said)
  BY <1>1, <1>2, <1>3, <1>4
<1>5. CASE ~IsHeard(said)
  <2>1. ~said.added /\ said.pieces = 0 /\ ~said.whole /\ ~said.done
    BY <1>1, <1>5 DEF IsHeard
  <2>2. CASE type = "item.added" \/ type = "item.done"
    BY <1>2, <1>3, <2>2
  <2>3. CASE type = "delta"
    <3>1. shape.added # "first" /\ shape.deltas > 0
      BY <1>1, <2>1, <2>3 DEF IsNext
    <3>2. shape.named
      BY <1>1, <3>1 DEF Introduced
    <3> QED BY <1>2, <3>2
  <2>4. CASE type = "done"
    <3>1. shape.added # "first" /\ shape.whole
      BY <1>1, <2>1, <2>4 DEF IsNext
    <3>2. shape.named
      BY <1>1, <3>1 DEF Introduced
    <3> QED BY <1>2, <3>2
  <2>5. type \in {"item.added", "delta", "done", "item.done"}
    BY DEF IsNext
  <2> QED BY <2>2, <2>3, <2>4, <2>5
<1> QED BY <1>4, <1>5

\* What the client has of a call before an event about it, p pieces of it.
HasShown(bl, r, p) ==
  IF r.done
  THEN /\ ItemBlock(r) \in DOMAIN bl /\ bl[ItemBlock(r)] = CallShown(r.call, p, TRUE)
       /\ r.added /\ r.size = p
  ELSE IsOpen(bl, r, p)

\* What the writer makes of it.
LEMMA WriterShows ==
  ASSUME NEW bl, NEW p, NEW a, NEW event, NEW n, n = CallOf(a, event.item),
         NEW r \in ToolCallStates, r = a.calls[n], HasShown(bl, r, p), NEW out,
         out = ToolCallStep(a, event).out,
         event.type \in {"item.added", "delta", "done", "item.done"},
         event.type = "item.added" => r.size = p /\ ~r.done,
         event.type = "delta" => r.size = p + event.piece /\ ~r.done
  PROVE  Changes(bl, Read(bl, out), ItemBlock(r),
                 CallShown(r.call, r.size, r.done \/ event.type \in {"done", "item.done"}))
<1>0. r.done \in BOOLEAN
  BY RecordFields
<1>1. CASE event.type = "item.added"
  <2>1. out = Announce(r)
    BY <1>1 DEF ToolCallStep
  <2>2. Changes(bl, Read(bl, out), ItemBlock(r), CallShown(r.call, p, FALSE))
    BY <1>1, <2>1, AnnounceReads DEF HasShown
  <2>3. (r.done \/ event.type \in {"done", "item.done"}) = FALSE
    BY <1>0, <1>1
  <2> QED BY <1>1, <2>2, <2>3
<1>2. CASE event.type = "delta"
  <2>1. out = Announce(r) \o <<Appends(ItemBlock(r), r.call, event.piece)>>
    BY <1>2 DEF ToolCallStep
  <2>2. Changes(bl, Read(bl, out), ItemBlock(r), CallShown(r.call, p + event.piece, FALSE))
    BY <1>2, <2>1, PieceReads DEF HasShown
  <2>3. (r.done \/ event.type \in {"done", "item.done"}) = FALSE
    BY <1>0, <1>2
  <2> QED BY <1>2, <2>2, <2>3
<1>3. CASE event.type \in {"done", "item.done"}
  <2>1. out = Complete(r)
    BY <1>3 DEF ToolCallStep
  <2>2. (r.done \/ event.type \in {"done", "item.done"}) = TRUE
    BY <1>0, <1>3
  <2>3. CASE r.done
    <3>1. out = <<>>
      BY <2>1, <2>3 DEF Complete
    <3>2. Read(bl, out) = bl
      BY <3>1, ReadNothing
    <3> QED BY <2>2, <2>3, <3>2 DEF HasShown, Changes
  <2>4. CASE ~r.done
    <3>1. Changes(bl, Read(bl, out), ItemBlock(r), CallShown(r.call, r.size, TRUE))
      BY <2>1, <2>4, CompleteReads DEF HasShown
    <3> QED BY <2>2, <3>1
  <2> QED BY <2>3, <2>4
<1> QED BY <1>1, <1>2, <1>3

\* The record of a call and the client's block of it.
KeyOf(items, i) == <<"item", items[i].id>>

RecordOf(items, a, i) == a.calls[a.byId[items[i].id]]

ShowsCall(items, prog, a, bl, i) ==
  /\ SayingOf(items[i], prog[i]).known
  /\ RecordOf(items, a, i).added = TRUE
  /\ RecordOf(items, a, i).done = (prog[i].whole \/ prog[i].done)
  /\ KeyOf(items, i) \in DOMAIN bl
  /\ bl[KeyOf(items, i)] = CallShown(items[i].call, RecordOf(items, a, i).size,
                                     RecordOf(items, a, i).done)

\* The client has every call the upstream began to tell, as far as it was told, and
\* no other.
Shows(items, prog, a, bl) ==
  /\ \A i \in HeardOf(items, prog) : ShowsCall(items, prog, a, bl, i)
  /\ \A i \in DOMAIN items \ HeardOf(items, prog) :
       items[i].kind = "call" => KeyOf(items, i) \notin DOMAIN bl

\* The keys of texts, apart from those of calls.
IsTextKey(key) == key[1] = "text"

LEMMA KeysDiffer ==
  ASSUME NEW items, AreItems(items), NEW i \in DOMAIN items, NEW j \in DOMAIN items, i # j
  PROVE  KeyOf(items, i) # KeyOf(items, j) /\ ~IsTextKey(KeyOf(items, i))
<1>1. items[i].id # items[j].id
  BY ItemIds
<1>2. KeyOf(items, i)[2] = items[i].id /\ KeyOf(items, j)[2] = items[j].id
  BY DEF KeyOf
<1>3. ~IsTextKey(KeyOf(items, i))
  BY DEF KeyOf, IsTextKey
<1> QED BY <1>1, <1>2, <1>3

LEMMA KeyIsNotText ==
  ASSUME NEW items, NEW i
  PROVE  ~IsTextKey(KeyOf(items, i))
BY DEF KeyOf, IsTextKey

\* What an event about another item leaves alone.
LEMMA ShowsOther ==
  ASSUME NEW items, NEW prog, NEW next, NEW a, NEW b, NEW bl, NEW read, NEW j,
         ShowsCall(items, prog, a, bl, j), next[j] = prog[j],
         RecordOf(items, b, j) = RecordOf(items, a, j),
         KeyOf(items, j) \in DOMAIN read, read[KeyOf(items, j)] = bl[KeyOf(items, j)]
  PROVE  ShowsCall(items, next, b, read, j)
BY DEF ShowsCall

\* The arguments of a call grow.
LEMMA SizesGrow ==
  ASSUME NEW shape, NEW said, NEW type, NEW next, InOrder(shape, said),
         IsNext(shape, said, type), IsAdvanced(next, said, type), shape.kind = "call",
         NEW p, p = SayingOf(shape, said).size, NEW q, q = SayingOf(shape, next).size
  PROVE  p <= q
<1>1. /\ shape.size \in Nat /\ shape.deltas \in Nat /\ said.pieces \in Nat
      /\ said.pieces <= shape.deltas /\ shape.deltas <= shape.size
  BY ShapeFields DEF InOrder
<1>2. said.pieces <= shape.size
  BY <1>1
<1>3. p = IF said.whole \/ said.done THEN shape.size ELSE said.pieces
  BY DEF SayingOf
<1>4. q = IF next.whole \/ next.done THEN shape.size ELSE next.pieces
  BY DEF SayingOf
<1>5. /\ next.pieces = IF type \in {"delta", "partial"} THEN said.pieces + 1 ELSE said.pieces
      /\ next.whole = (said.whole \/ type = "done") /\ next.done = (said.done \/ type = "item.done")
  BY DEF IsAdvanced
<1>6. said.pieces <= next.pieces
  BY <1>1, <1>5
<1>7. CASE next.whole \/ next.done
  BY <1>1, <1>2, <1>3, <1>4, <1>7
<1>8. CASE ~(next.whole \/ next.done)
  <2>1. ~(said.whole \/ said.done)
    BY <1>5, <1>8
  <2> QED BY <1>3, <1>4, <1>6, <1>8, <2>1
<1> QED BY <1>7, <1>8

\* What the client had and has of a call.
Grows(old, id, p, was, q, closed) ==
  /\ old = CallShown(id, p, was) /\ was \in BOOLEAN /\ p \in Nat /\ p <= q
  /\ was => closed /\ q = p

\* The client reads on about one call, and hears more of it or of it for the first time.
CallGrows(bl, read) ==
  \E key, id, q, closed :
    /\ Changes(bl, read, key, CallShown(id, q, closed))
    /\ key[1] \in {"item", "call"} /\ q \in Nat /\ closed \in BOOLEAN
    /\ key \in DOMAIN bl => \E p, was : Grows(bl[key], id, p, was, q, closed)

LEMMA ShowsTell ==
  ASSUME NEW i, NEW type, NEW event, NEW next, IsTelled(i, type, event, next),
         turn.items[i].kind = "call", Introduced(turn.items[i]),
         Shows(turn.items, progress, acc, blocks), dialect = "responses", Write(event)
  PROVE  Shows(turn.items, next, acc', blocks') /\ CallGrows(blocks, blocks')
<1>a. PICK items, said, told, b : /\ items = turn.items /\ said = SaidOf(items, progress)
                                  /\ told = SaidOf(items, next) /\ b = Apply(acc, event)
  OBVIOUS
<1>b. PICK n, r : n = b.byId[items[i].id] /\ r = b.calls[n]
  OBVIOUS
<1>c. PICK out, c : out = ToolCallStep(b, event).out /\ c = ToolCallStep(b, event).acc
  OBVIOUS
<1>1. /\ IsTold(items, progress) /\ i \in DOMAIN items /\ type \in NextTypes(i)
      /\ event = ItemEvent(i, type) /\ IsProgressed(progress, next, i, type)
      /\ Knows(items, acc, said) /\ AreItems(items) /\ items[i].kind = "call"
      /\ Introduced(items[i]) /\ DOMAIN progress = DOMAIN items
  BY <1>a DEF IsTelled, IsTold
<1>2. /\ type \in {"item.added", "delta", "done", "item.done"}
      /\ IsNext(items[i], progress[i], type) /\ IsAdvanced(next[i], progress[i], type)
      /\ InOrder(items[i], progress[i])
  BY <1>a, <1>1, TypesOf, NextIs DEF IsProgressed, IsTold
<1>3. event.type = type /\ event.piece = (IF type = "delta" THEN 1 ELSE 0) /\ event.item.kind = "call"
  <2>1. IsItemEvent(event, i, type)
    BY <1>1, <1>2, ItemEventIs
  <2> QED BY <1>1, <2>1 DEF IsItemEvent
<1>4. /\ Knows(items, b, told) /\ IsSaid(items, told)
      /\ Turned(items, acc, said, i, b)
      /\ DOMAIN told = DOMAIN said \cup {i}
      /\ CallOf(b, event.item) = n /\ n \in DOMAIN b.calls /\ n # 0
  <2>1. /\ Knows(items, b, told) /\ IsSaid(items, told)
        /\ Turned(items, acc, said, i, b)
        /\ DOMAIN told = DOMAIN said \cup {i}
        /\ CallOf(b, event.item) = b.byId[items[i].id]
        /\ CallOf(b, event.item) \in DOMAIN b.calls /\ CallOf(b, event.item) # 0
    BY <1>a, HeardCall
  <2> QED BY <1>b, <2>1
<1>5. acc' = c /\ blocks' = Read(blocks, out)
  <2> PICK step : step = ResponsesStep(b, writer, tuple, event)
    OBVIOUS
  <2>1. ~IsTerminal(event)
    BY <1>2, <1>3 DEF IsTerminal
  <2>2. CallOf(b, event.item) # 0 /\ event.item.kind # "message"
    BY <1>3, <1>4
  <2>3. step.acc = c /\ step.out = out
    BY <1>c, <2>1, <2>2, ResponsesStepOnCall
  <2>4. acc' = step.acc /\ blocks' = Read(blocks, step.out)
    BY <1>a DEF Write
  <2> QED BY <2>3, <2>4
<1>6. DOMAIN said = HeardOf(items, progress) /\ DOMAIN told = HeardOf(items, next)
  BY <1>a DEF SaidOf
<1>7. \A j \in DOMAIN items : j # i => next[j] = progress[j]
  BY <1>1 DEF IsProgressed
<1>8. PICK t : /\ IsMarked(t, r) /\ c = [b EXCEPT !.calls[n] = t]
               /\ t = IF type \in {"delta", "item.added"} THEN Announced(r) ELSE Completed(r)
  <2>1. IsTelled(i, type, event, next) /\ turn.items[i].kind = "call" /\ items = turn.items
        /\ b = Apply(acc, event) /\ n = b.byId[items[i].id]
    BY <1>a, <1>b
  <2>2. PICK t : Marks(t, b, n, event, type)
    BY <2>1, WriterMarks
  <2> QED BY <1>b, <1>c, <2>2 DEF Marks
<1>9. /\ c.calls[n] = t /\ c.byId = b.byId
      /\ \A m \in DOMAIN b.calls : m # n => c.calls[m] = b.calls[m]
  <2>1. IsAccumulator(b)
    BY <1>4 DEF Knows
  <2>2. IsMarked(t, b.calls[n]) /\ n \in DOMAIN b.calls
    BY <1>b, <1>4, <1>8
  <2>3. LET d == [b EXCEPT !.calls[n] = t]
        IN /\ IsRemarked(b, d) /\ d.calls[n] = t
           /\ \A m \in DOMAIN b.calls : m # n => d.calls[m] = b.calls[m]
    BY <1>b, <2>1, <2>2, MarkedOne
  <2>4. IsRemarked(b, c) /\ c.calls[n] = t /\ \A m \in DOMAIN b.calls : m # n => c.calls[m] = b.calls[m]
    BY <1>8, <2>3
  <2>5. c.byId = b.byId
    BY <2>4 DEF IsRemarked, With
  <2> QED BY <2>4, <2>5
<1>10. /\ r \in ToolCallStates /\ r.item = items[i].id /\ r.call = NameOf(items, told, i)
       /\ r.size = told[i].size /\ r.status = told[i].status
  <2>1. HasRecord(items, b, told, i)
    BY <1>4 DEF Knows
  <2>2. b.calls \in Seq(ToolCallStates)
    BY <1>4 DEF Knows, IsAccumulator
  <2>3. r \in ToolCallStates
    BY <1>b, <1>4, <2>2
  <2> QED BY <1>b, <2>1, <2>3 DEF HasRecord
<1>11. told[i] = SayingOf(items[i], next[i])
  BY <1>a, <1>4, <1>6 DEF SaidOf
<1>12. IsHeard(progress[i]) = (i \in DOMAIN said)
  BY <1>1, <1>6 DEF IsHeard, HeardOf
<1>d. PICK p : p = SizeSaid(items[i], progress[i])
  OBVIOUS
<1>13. /\ type = "item.added" => r.size = p /\ ~progress[i].whole /\ ~progress[i].done
       /\ type = "delta" => r.size = p + 1 /\ ~progress[i].whole /\ ~progress[i].done
       /\ progress[i].whole \/ progress[i].done =>
            r.size = p /\ type # "delta" /\ type # "item.added"
       /\ (next[i].whole \/ next[i].done)
            = (type \in {"done", "item.done"} \/ progress[i].whole \/ progress[i].done)
  <2>1. r.size = SayingOf(items[i], next[i]).size
    BY <1>10, <1>11
  <2> QED BY <1>d, <1>1, <1>2, <2>1, ShownSizes
<1>14. /\ i \in DOMAIN said => ShowsCall(items, progress, acc, blocks, i)
       /\ i \notin DOMAIN said => KeyOf(items, i) \notin DOMAIN blocks
  BY <1>a, <1>1, <1>6 DEF Shows
<1>15. /\ r.added = (i \in DOMAIN said /\ acc.calls[n].added)
       /\ r.done = (i \in DOMAIN said /\ acc.calls[n].done)
       /\ i \in DOMAIN said => n = acc.byId[items[i].id]
  BY <1>b, <1>4 DEF Turned, Place
<1>16. told[i].known
  <2>1. IsHeard(progress[i]) => SayingOf(items[i], progress[i]).known
    BY <1>12, <1>14 DEF ShowsCall
  <2> QED BY <1>1, <1>2, <1>11, <2>1, KnownWhenTold
<1>17. r.call = items[i].call /\ ItemBlock(r) = KeyOf(items, i)
  BY <1>10, <1>16 DEF NameOf, ItemBlock, KeyOf
<1>18. r.done = (progress[i].whole \/ progress[i].done)
  <2>1. CASE i \in DOMAIN said
    BY <1>14, <1>15, <2>1 DEF ShowsCall, RecordOf
  <2>2. CASE i \notin DOMAIN said
    <3>1. ~progress[i].whole /\ ~progress[i].done
      BY <1>12, <2>2 DEF IsHeard
    <3>2. r.done = FALSE
      BY <1>15, <2>2
    <3> QED BY <3>1, <3>2
  <2> QED BY <2>1, <2>2
<1>19. HasShown(blocks, r, p)
  <2>1. CASE i \in DOMAIN said
    <3>1. /\ acc.calls[n].added = TRUE /\ KeyOf(items, i) \in DOMAIN blocks
          /\ blocks[KeyOf(items, i)] = CallShown(items[i].call, acc.calls[n].size, acc.calls[n].done)
          /\ acc.calls[n].done = (progress[i].whole \/ progress[i].done)
      BY <1>14, <1>15, <2>1 DEF ShowsCall, RecordOf
    <3>2. HasRecord(items, acc, said, i)
      BY <1>1, <2>1 DEF Knows
    <3>3. acc.calls[n].size = p
      <4>1. acc.calls[n].size = said[i].size
        BY <1>15, <2>1, <3>2 DEF HasRecord
      <4>2. said[i] = SayingOf(items[i], progress[i])
        BY <1>a, <1>6, <2>1 DEF SaidOf
      <4> QED BY <1>d, <1>12, <2>1, <4>1, <4>2 DEF SizeSaid
    <3>4. r.added
      BY <1>15, <2>1, <3>1
    <3>5. blocks[KeyOf(items, i)] = CallShown(items[i].call, p, r.done)
      BY <1>18, <3>1, <3>3
    <3>6. CASE r.done
      <4>1. r.size = p
        BY <1>13, <1>18, <3>6
      <4>2. r.done = TRUE
        BY <1>10, <3>6, RecordFields
      <4> QED BY <1>17, <3>1, <3>4, <3>5, <3>6, <4>1, <4>2 DEF HasShown
    <3>7. CASE ~r.done
      <4>1. r.done = FALSE
        BY <1>10, <3>7, RecordFields
      <4> QED BY <1>17, <3>1, <3>4, <3>5, <3>7, <4>1 DEF HasShown, IsOpen
    <3> QED BY <3>6, <3>7
  <2>2. CASE i \notin DOMAIN said
    <3>1. r.added = FALSE /\ r.done = FALSE
      BY <1>15, <2>2
    <3>2. p = 0
      BY <1>d, <1>12, <2>2 DEF SizeSaid
    <3> QED BY <1>14, <1>17, <2>2, <3>1, <3>2 DEF HasShown, IsOpen
  <2> QED BY <2>1, <2>2
<1>20. Changes(blocks, blocks', KeyOf(items, i),
               CallShown(items[i].call, r.size, next[i].whole \/ next[i].done))
  <2>1. /\ event.type = "item.added" => r.size = p /\ ~r.done
        /\ event.type = "delta" => r.size = p + event.piece /\ ~r.done
    BY <1>3, <1>13, <1>18
  <2>2. (r.done \/ event.type \in {"done", "item.done"}) = (next[i].whole \/ next[i].done)
    BY <1>3, <1>13, <1>18
  <2>3. Changes(blocks, Read(blocks, out), ItemBlock(r),
                CallShown(r.call, r.size, r.done \/ event.type \in {"done", "item.done"}))
    <3>1. /\ n = CallOf(b, event.item) /\ r \in ToolCallStates /\ r = b.calls[n]
          /\ out = ToolCallStep(b, event).out
          /\ event.type \in {"item.added", "delta", "done", "item.done"}
      BY <1>b, <1>c, <1>2, <1>3, <1>4, <1>10
    <3> QED BY <1>19, <2>1, <3>1, WriterShows
  <2> QED BY <1>5, <1>17, <2>2, <2>3
<1>21. t.added = TRUE /\ t.done = (next[i].whole \/ next[i].done) /\ t.size = r.size
  <2>1. t.size = r.size
    BY <1>8 DEF IsMarked
  <2>2. CASE type \in {"delta", "item.added"}
    <3>1. r.status # ""
      BY <1>10, <1>11 DEF SayingOf
    <3>2. Announced(r).added = TRUE /\ Announced(r).done = r.done
      BY <1>10, <3>1, AnnouncedIs
    <3>3. t = Announced(r) /\ ~r.done
      BY <1>8, <1>13, <1>18, <2>2
    <3>4. (next[i].whole \/ next[i].done) = FALSE
      BY <1>13, <2>2
    <3>5. r.done = FALSE
      BY <1>10, <3>3, RecordFields
    <3> QED BY <2>1, <3>2, <3>3, <3>4, <3>5
  <2>3. CASE type \in {"done", "item.done"}
    <3>1. (next[i].whole \/ next[i].done) = TRUE
      BY <1>13, <2>3
    <3>2. r.status = "completed"
      BY <1>10, <1>11, <3>1 DEF SayingOf
    <3>3. Completed(r).done = TRUE /\ Completed(r).added = (r.added \/ ~r.done)
      BY <1>10, <3>2, CompletedIs
    <3>4. t = Completed(r)
      BY <1>8, <2>3
    <3>5. (r.added \/ ~r.done) = TRUE
      BY <1>19 DEF HasShown
    <3> QED BY <2>1, <3>1, <3>3, <3>4, <3>5
  <2> QED BY <1>2, <2>2, <2>3
<1>22. ShowsCall(items, next, acc', blocks', i)
  <2>1. RecordOf(items, acc', i) = t
    BY <1>b, <1>5, <1>9 DEF RecordOf
  <2>2. /\ KeyOf(items, i) \in DOMAIN blocks'
        /\ blocks'[KeyOf(items, i)] = CallShown(items[i].call, r.size, next[i].whole \/ next[i].done)
    BY <1>20 DEF Changes
  <2>3. blocks'[KeyOf(items, i)] = CallShown(items[i].call, t.size, t.done)
    BY <1>21, <2>2
  <2>4. SayingOf(items[i], next[i]).known
    BY <1>11, <1>16
  <2> QED BY <1>21, <2>1, <2>2, <2>3, <2>4 DEF ShowsCall
<1>23. ASSUME NEW j \in HeardOf(items, next), j # i PROVE ShowsCall(items, next, acc', blocks', j)
  <2>1. j \in DOMAIN said /\ j \in DOMAIN items /\ next[j] = progress[j]
    BY <1>4, <1>6, <1>7, <1>23 DEF HeardOf
  <2>2. ShowsCall(items, progress, acc, blocks, j)
    BY <1>a, <1>6, <2>1 DEF Shows
  <2>3. KeyOf(items, j) \in DOMAIN blocks' /\ blocks'[KeyOf(items, j)] = blocks[KeyOf(items, j)]
    <3>1. KeyOf(items, j) # KeyOf(items, i)
      BY <1>1, <1>23, <2>1, KeysDiffer
    <3> QED BY <1>20, <2>2, <3>1 DEF Changes, ShowsCall
  <2>4. RecordOf(items, acc', j) = RecordOf(items, acc, j)
    <3> PICK m : m = acc.byId[items[j].id]
      OBVIOUS
    <3>1. b.byId[items[j].id] = m
      BY <1>4, <1>23, <2>1 DEF Turned
    <3>2. m \in DOMAIN acc.calls
      BY <1>1, <2>1 DEF Knows, HasRecord
    <3>3. m \in DOMAIN b.calls /\ b.calls[m].item = items[j].id
      <4>1. HasRecord(items, b, told, j)
        BY <1>4, <2>1 DEF Knows
      <4> QED BY <3>1, <4>1 DEF HasRecord
    <3>4. m # n
      <4>1. items[j].id # items[i].id
        BY <1>1, <1>23, <2>1, ItemIds
      <4> QED BY <1>b, <1>10, <3>3, <4>1
    <3>5. b.calls[m] = acc.calls[m]
      BY <1>b, <1>4, <3>2, <3>4 DEF Turned, Place
    <3>6. c.calls[m] = acc.calls[m] /\ c.byId[items[j].id] = m
      BY <1>9, <3>1, <3>3, <3>4, <3>5
    <3> QED BY <1>5, <3>6 DEF RecordOf
  <2> QED BY <2>1, <2>2, <2>3, <2>4, ShowsOther
<1>24. ASSUME NEW j \in DOMAIN items \ HeardOf(items, next), items[j].kind = "call"
       PROVE  KeyOf(items, j) \notin DOMAIN blocks'
  <2>1. j # i /\ j \notin DOMAIN said
    BY <1>4, <1>6
  <2>2. KeyOf(items, j) \notin DOMAIN blocks
    BY <1>a, <1>6, <1>24, <2>1 DEF Shows
  <2>3. KeyOf(items, j) # KeyOf(items, i)
    BY <1>1, <2>1, KeysDiffer
  <2> QED BY <1>20, <2>2, <2>3 DEF Changes
<1>25. CallGrows(blocks, blocks')
  <2> PICK key, closed : key = KeyOf(items, i) /\ closed = (next[i].whole \/ next[i].done)
    OBVIOUS
  <2>1. r.size \in Nat /\ r.done \in BOOLEAN /\ closed \in BOOLEAN
    BY <1>2, <1>10, RecordFields DEF IsAdvanced
  <2>2. p \in Nat /\ p <= r.size
    <3>1. CASE i \in DOMAIN said
      <4>1. p = SayingOf(items[i], progress[i]).size /\ r.size = SayingOf(items[i], next[i]).size
        BY <1>d, <1>10, <1>11, <1>12, <3>1 DEF SizeSaid
      <4>2. p <= r.size
        BY <1>1, <1>2, <4>1, SizesGrow
      <4>3. p \in Nat
        BY <1>2, <4>1, ShapeFields DEF SayingOf
      <4> QED BY <4>2, <4>3
    <3>2. CASE i \notin DOMAIN said
      <4>1. p = 0
        BY <1>d, <1>12, <3>2 DEF SizeSaid
      <4> QED BY <2>1, <4>1
    <3> QED BY <3>1, <3>2
  <2>3. ASSUME key \in DOMAIN blocks
        PROVE  Grows(blocks[key], items[i].call, p, r.done, r.size, closed)
    <3>1. CASE r.done
      <4>1. blocks[key] = CallShown(items[i].call, p, TRUE) /\ r.size = p
        BY <1>17, <1>19, <3>1 DEF HasShown
      <4> QED BY <1>13, <1>18, <2>1, <2>2, <3>1, <4>1 DEF Grows
    <3>2. CASE ~r.done
      <4>1. blocks[key] = CallShown(items[i].call, p, FALSE)
        BY <1>17, <1>19, <2>3, <3>2 DEF HasShown, IsOpen
      <4>2. r.done = FALSE
        BY <2>1, <3>2
      <4> QED BY <2>1, <2>2, <4>1, <4>2 DEF Grows
    <3> QED BY <3>1, <3>2
  <2>4. Changes(blocks, blocks', key, CallShown(items[i].call, r.size, closed))
        /\ key[1] \in {"item", "call"}
    BY <1>20 DEF KeyOf
  <2> QED BY <2>1, <2>3, <2>4 DEF CallGrows
<1> QED BY <1>a, <1>22, <1>23, <1>24, <1>25 DEF Shows

\* Of another item the writer sends nothing or one message about the text.
LEMMA OtherMessages ==
  ASSUME NEW a, NEW buffer, NEW held, NEW event, NEW step,
         step = ResponsesStep(a, buffer, held, event), ~IsTerminal(event),
         CallOf(a, event.item) = 0
  PROVE  step.out = <<>> \/ \E out : IsTextKey(out.key) /\ step.out = <<out>>
<1>1. step.out = <<>> \/ step.out = PassedOn(event)
  BY DEF ResponsesStep
<1>2. PassedOn(event) = <<>> \/ \E out : IsTextKey(out.key) /\ PassedOn(event) = <<out>>
  <2>1. \A id, pieces : Say(id, pieces) = <<>> \/ Say(id, pieces) = <<Appends(TextBlock(id), None, pieces)>>
    BY DEF Say
  <2>2. \A id, pieces : IsTextKey(Appends(TextBlock(id), None, pieces).key)
    BY DEF Appends, TextBlock, IsTextKey
  <2>3. IsTextKey(States(TextBlock(event.item.id), None, event.item.size).key)
    BY DEF States, TextBlock, IsTextKey
  <2>4. CASE event.type = "delta" /\ event.item.kind = "message"
    <3>1. PassedOn(event) = Say(event.item.id, event.piece)
      BY <2>4 DEF PassedOn
    <3> QED BY <2>1, <2>2, <3>1
  <2>5. CASE event.type = "done" /\ event.item.kind = "message"
    <3>1. PassedOn(event) = <<States(TextBlock(event.item.id), None, event.item.size)>>
      BY <2>5 DEF PassedOn
    <3> QED BY <2>3, <3>1
  <2>6. CASE event.type \notin {"delta", "done"} \/ event.item.kind # "message"
    BY <2>6 DEF PassedOn
  <2> QED BY <2>4, <2>5, <2>6
<1> QED BY <1>1, <1>2

\* Messages about the text leave every other block alone.
KeepsBlocks(bl, read) ==
  /\ DOMAIN bl \subseteq DOMAIN read /\ (\A key \in DOMAIN read \ DOMAIN bl : IsTextKey(key))
  /\ \A key \in DOMAIN bl : ~IsTextKey(key) => read[key] = bl[key]

LEMMA TextKeepsBlocks ==
  ASSUME NEW bl, NEW outs, outs = <<>> \/ \E out : IsTextKey(out.key) /\ outs = <<out>>
  PROVE  KeepsBlocks(bl, Read(bl, outs))
<1>1. CASE outs = <<>>
  BY <1>1, ReadNothing DEF KeepsBlocks
<1>2. ASSUME NEW out, IsTextKey(out.key), outs = <<out>> PROVE KeepsBlocks(bl, Read(bl, outs))
  <2>1. Read(bl, outs) = ReadOne(bl, out)
    BY <1>2, ReadOneOnly
  <2>2. PICK block : Changes(bl, ReadOne(bl, out), out.key, block)
    BY ReadOneIs
  <2> QED BY <1>2, <2>1, <2>2 DEF Changes, KeepsBlocks
<1> QED BY <1>1, <1>2

\* An event about another item leaves the client's calls alone.
LEMMA ShowsTellOther ==
  ASSUME NEW i, NEW type, NEW event, NEW next, IsTelled(i, type, event, next),
         turn.items[i].kind # "call",
         Shows(turn.items, progress, acc, blocks), dialect = "responses", Write(event)
  PROVE  Shows(turn.items, next, acc', blocks')
<1>a. PICK items, b : items = turn.items /\ b = Apply(acc, event)
  OBVIOUS
<1>b. PICK step : step = ResponsesStep(b, writer, tuple, event)
  OBVIOUS
<1>1. /\ SaidOf(items, next) = SaidOf(items, progress)
      /\ SameCalls(acc, b) /\ event.item.kind # "call"
  BY <1>a, HeardOther
<1>2. ~IsTerminal(event)
  <2>1. type \in NextTypes(i) /\ event = ItemEvent(i, type)
    BY DEF IsTelled
  <2>2. type \in {"item.added", "delta", "partial", "done", "item.done"}
    BY <2>1, TypesOf
  <2>3. IsItemEvent(event, i, type)
    BY <2>1, <2>2, ItemEventIs
  <2> QED BY <2>2, <2>3 DEF IsItemEvent, IsTerminal
<1>3. CallOf(b, event.item) = 0
  BY <1>1 DEF CallOf
<1>4. acc' = step.acc /\ blocks' = Read(blocks, step.out)
  BY <1>a, <1>b DEF Write
<1>5. step.acc = b
  BY <1>b, <1>2, <1>3, ResponsesStepOnOther
<1>6. KeepsBlocks(blocks, blocks')
  <2>1. step.out = <<>> \/ \E out : IsTextKey(out.key) /\ step.out = <<out>>
    BY <1>b, <1>2, <1>3, OtherMessages
  <2>a. PICK outs : outs = step.out
    OBVIOUS
  <2>2. outs = <<>> \/ \E out : IsTextKey(out.key) /\ outs = <<out>>
    BY <2>1, <2>a
  <2>3. KeepsBlocks(blocks, Read(blocks, outs))
    BY <2>2, TextKeepsBlocks
  <2> QED BY <1>4, <2>a, <2>3
<1>7. HeardOf(items, next) = HeardOf(items, progress)
  <2>1. DOMAIN SaidOf(items, next) = HeardOf(items, next)
    BY DEF SaidOf
  <2>2. DOMAIN SaidOf(items, progress) = HeardOf(items, progress)
    BY DEF SaidOf
  <2> QED BY <1>1, <2>1, <2>2
<1>8. ASSUME NEW j \in HeardOf(items, next) PROVE ShowsCall(items, next, acc', blocks', j)
  <2>1. ShowsCall(items, progress, acc, blocks, j)
    BY <1>a, <1>7 DEF Shows
  <2>2. next[j] = progress[j]
    <3>1. j # i /\ j \in DOMAIN items
      BY <1>a DEF HeardOf
    <3> QED BY <1>a, <3>1 DEF IsTelled, IsTold, IsProgressed
  <2>3. RecordOf(items, acc', j) = RecordOf(items, acc, j)
    BY <1>1, <1>4, <1>5 DEF RecordOf, SameCalls
  <2>4. KeyOf(items, j) \in DOMAIN blocks' /\ blocks'[KeyOf(items, j)] = blocks[KeyOf(items, j)]
    BY <1>6, <2>1, KeyIsNotText DEF KeepsBlocks, ShowsCall
  <2> QED BY <2>1, <2>2, <2>3, <2>4, ShowsOther
<1>9. ASSUME NEW j \in DOMAIN items \ HeardOf(items, next), items[j].kind = "call"
      PROVE  KeyOf(items, j) \notin DOMAIN blocks'
  <2>1. KeyOf(items, j) \notin DOMAIN blocks
    BY <1>a, <1>7, <1>9 DEF Shows
  <2> QED BY <1>6, <2>1, KeyIsNotText DEF KeepsBlocks
<1> QED BY <1>a, <1>8, <1>9 DEF Shows

\* A client that has read nothing has no call.
LEMMA ShowsNothing ==
  ASSUME NEW items, NEW prog,
         \A i \in DOMAIN items :
           prog[i] = [added |-> FALSE, pieces |-> 0, whole |-> FALSE, done |-> FALSE]
  PROVE  Shows(items, prog, NewAccumulator, <<>>)
<1>1. HeardOf(items, prog) = {}
  BY DEF HeardOf
<1>2. DOMAIN <<>> = {}
  OBVIOUS
<1> QED BY <1>1, <1>2 DEF Shows

-----------------------------------------------------------------------------
(* The end of a response: its last event lists items.                      *)

\* The accumulator after each of the items.
IsReplacing(x, a, out) ==
  /\ x[0] = [a EXCEPT !.outputs = <<>>]
  /\ \A n \in 1 .. Len(out) : x[n] = CaptureOutputItem(x[n - 1], out[n], n - 1)

\* The fold that ReplaceOutputItems is defined by.
FoldsReplacing(g, base, out) ==
  g = [s \in SUBSET (1 .. Len(out)) |->
         IF s = {} THEN base ELSE CaptureOutputItem(g[s \ {Max(s)}], out[Max(s)], Max(s) - 1)]

LEMMA ReplacingExists ==
  ASSUME NEW base, NEW S, NEW out \in Seq(S)
  PROVE  \E g : FoldsReplacing(g, base, out)
<1> DEFINE Step(f, s) == IF s = {} THEN base
                         ELSE CaptureOutputItem(f[s \ {Max(s)}], out[Max(s)], Max(s) - 1)
           IsFold(f, m) == f = [s \in SUBSET (1 .. m) |-> Step(f, s)]
           T == {m \in Nat : \E f : IsFold(f, m)}
<1>1. 0 \in T
  <2> DEFINE f == [s \in SUBSET (1 .. 0) |-> base]
  <2>1. \A s \in SUBSET (1 .. 0) : s = {}
    OBVIOUS
  <2>2. f = [s \in SUBSET (1 .. 0) |-> Step(f, s)]
    BY <2>1
  <2> QED BY <2>2
<1>2. ASSUME NEW m \in Nat, m \in T PROVE m + 1 \in T
  <2>1. PICK f : IsFold(f, m)
    BY <1>2
  <2> DEFINE g == [s \in SUBSET (1 .. m + 1) |-> Step(f, s)]
  <2>2. ASSUME NEW s \in SUBSET (1 .. m + 1) PROVE g[s] = Step(g, s)
    <3>1. CASE s = {}
      BY <3>1
    <3>2. CASE s # {}
      <4> DEFINE k == Max(s)
                 rest == s \ {k}
      <4>1. rest \in SUBSET (1 .. k - 1) /\ k \in 1 .. m + 1
        BY <3>2, WithoutMax
      <4> HIDE DEF k
      <4>2. 1 .. k - 1 \subseteq 1 .. m
        BY <4>1
      <4>3. rest \in SUBSET (1 .. m)
        BY <4>1, <4>2
      <4>4. rest \in SUBSET (1 .. m + 1)
        OBVIOUS
      <4> HIDE DEF rest
      <4>5. f[rest] = Step(f, rest) /\ g[rest] = Step(f, rest)
        BY <2>1, <4>3, <4>4
      <4>6. Step(f, s) = Step(g, s)
        BY <3>2, <4>5 DEF rest, k
      <4> QED BY <4>6
    <3> QED BY <3>1, <3>2
  <2>3. g = [s \in SUBSET (1 .. m + 1) |-> Step(g, s)]
    BY <2>2
  <2> HIDE DEF g, Step
  <2> QED BY <2>3
<1>3. Nat \subseteq T
  <2> HIDE DEF T
  <2> QED BY <1>1, <1>2, Induction
<1>4. Len(out) \in Nat
  OBVIOUS
<1> QED BY <1>3, <1>4 DEF FoldsReplacing

LEMMA ReplacingIs ==
  ASSUME NEW a, NEW S, NEW out \in Seq(S)
  PROVE  \E x : IsReplacing(x, a, out) /\ ReplaceOutputItems(a, out) = x[Len(out)]
<1> DEFINE N == Len(out)
           places == [i \in DOMAIN out |-> i]
           base == [a EXCEPT !.outputs = <<>>]
           iter[s \in SUBSET (1 .. N)] ==
             IF s = {} THEN base
             ELSE CaptureOutputItem(iter[s \ {Max(s)}], out[places[Max(s)]], places[Max(s)] - 1)
<1>0. N \in Nat /\ DOMAIN out = 1 .. N /\ DOMAIN places = 1 .. N
  OBVIOUS
<1>1. ReplaceOutputItems(a, out) = iter[1 .. N]
  BY <1>0 DEF ReplaceOutputItems, FoldLeftDomain, FoldLeft, MapThenFoldSet
<1>2. ASSUME NEW s \in SUBSET (1 .. N), s # {} PROVE places[Max(s)] = Max(s)
  <2>1. Max(s) \in 1 .. N
    BY <1>0, <1>2, WithoutMax
  <2> QED BY <1>0, <2>1
<1> HIDE DEF base
<1>3. iter = [s \in SUBSET (1 .. N) |->
                IF s = {} THEN base
                ELSE CaptureOutputItem(iter[s \ {Max(s)}], out[places[Max(s)]], places[Max(s)] - 1)]
  <2>1. \E g : g = [s \in SUBSET (1 .. N) |->
                     IF s = {} THEN base
                     ELSE CaptureOutputItem(g[s \ {Max(s)}], out[places[Max(s)]],
                                            places[Max(s)] - 1)]
    <3>1. PICK g : FoldsReplacing(g, base, out)
      BY ReplacingExists
    <3>2. \A s \in SUBSET (1 .. N) :
            (IF s = {} THEN base
             ELSE CaptureOutputItem(g[s \ {Max(s)}], out[Max(s)], Max(s) - 1))
            = (IF s = {} THEN base
               ELSE CaptureOutputItem(g[s \ {Max(s)}], out[places[Max(s)]], places[Max(s)] - 1))
      BY <1>2
    <3>3. g = [s \in SUBSET (1 .. N) |->
                 IF s = {} THEN base
                 ELSE CaptureOutputItem(g[s \ {Max(s)}], out[Max(s)], Max(s) - 1)]
      BY <3>1 DEF FoldsReplacing
    <3>4. g = [s \in SUBSET (1 .. N) |->
                 IF s = {} THEN base
                 ELSE CaptureOutputItem(g[s \ {Max(s)}], out[places[Max(s)]],
                                        places[Max(s)] - 1)]
      BY <3>2, <3>3
    <3> QED BY <3>4
  <2> QED BY <2>1
<1> HIDE DEF places
<1>4. /\ {} \in SUBSET (1 .. N) /\ iter[{}] = base
      /\ \A s \in SUBSET (1 .. N) : s # {} =>
           iter[s] = CaptureOutputItem(iter[s \ {Max(s)}], out[places[Max(s)]], places[Max(s)] - 1)
  BY <1>3
<1> HIDE DEF iter
<1> DEFINE x == [n \in 0 .. N |-> iter[1 .. n]]
<1>5. ASSUME NEW n \in 1 .. N PROVE x[n] = CaptureOutputItem(x[n - 1], out[n], n - 1)
  <2>1. Max(1 .. n) = n /\ (1 .. n) \ {n} = 1 .. n - 1
    BY <1>0, MaxOfFirst
  <2>2. 1 .. n \in SUBSET (1 .. N) /\ 1 .. n # {}
    <3>1. n \in Nat /\ n >= 1 /\ n <= N
      BY <1>0
    <3>2. 1 .. n \subseteq 1 .. N /\ n \in 1 .. n
      BY <1>0, <3>1
    <3> QED BY <3>2
  <2>3. iter[1 .. n] = CaptureOutputItem(iter[1 .. n - 1], out[n], n - 1)
    <3>1. places[n] = n
      BY <1>2, <2>1, <2>2
    <3> QED BY <1>4, <2>1, <2>2, <3>1
  <2>4. n \in 0 .. N /\ n - 1 \in 0 .. N
    BY <1>0
  <2> QED BY <2>3, <2>4
<1>6. x[0] = base /\ x[N] = iter[1 .. N]
  <2>1. 1 .. 0 = {}
    OBVIOUS
  <2>2. 0 \in 0 .. N /\ N \in 0 .. N
    BY <1>0
  <2> QED BY <1>4, <2>1, <2>2
<1> HIDE DEF x
<1> QED BY <1>1, <1>5, <1>6 DEF IsReplacing, base

\* What a listed item shows of a call.
LEMMA FinalShows ==
  ASSUME NEW i
  PROVE  /\ FinalItem(i).kind = turn.items[i].kind
         /\ turn.items[i].kind = "call" =>
              /\ ItemDone(i) => IsShown(FinalItem(i), turn.items[i], TRUE, turn.items[i].size,
                                        "completed")
              /\ ~ItemDone(i) => IsShown(FinalItem(i), turn.items[i], TRUE, progress[i].pieces,
                                         "incomplete")
<1>1. \A size, status : Item(i, size, status).kind = turn.items[i].kind
  BY DEF Item, Shape
<1>2. FinalItem(i) = IF ItemDone(i) THEN Item(i, turn.items[i].size, "completed")
                     ELSE Item(i, progress[i].pieces, "incomplete")
  BY DEF FinalItem, Shape
<1>3. FinalItem(i).kind = turn.items[i].kind
  BY <1>1, <1>2
<1>4. turn.items[i].kind = "call" =>
        \A size, status : IsShown(Item(i, size, status), turn.items[i], TRUE, size, status)
  BY ItemShows
<1> QED BY <1>2, <1>3, <1>4

\* The record of a call and what the client has of it, p pieces: they differ by what
\* the completion of the call makes up for.
Fits(bl, r, i, p) ==
  /\ HasShown(bl, r, p)
  /\ r.done => r.status = "completed" /\ p = turn.items[i].size /\ ItemDone(i)
  /\ r.added /\ (r.status # "completed" \/ ~ItemDone(i)) => r.size = p
  /\ r.added => p \in Nat /\ p <= r.size

Size(i) == SizeSaid(turn.items[i], progress[i])

\* The accumulator has all calls, and maybe some that the client does not have.
Fit(bl, a, said) ==
  /\ IsSaid(turn.items, said) /\ Knows(turn.items, a, said)
  /\ HeardOf(turn.items, progress) \subseteq DOMAIN said
  /\ \A i \in DOMAIN said : said[i].known /\ Fits(bl, RecordOf(turn.items, a, i), i, Size(i))
  /\ \A i \in DOMAIN turn.items \ HeardOf(turn.items, progress) :
       turn.items[i].kind = "call" => KeyOf(turn.items, i) \notin DOMAIN bl

LEMMA FitSame ==
  ASSUME NEW bl, NEW a, NEW said, Fit(bl, a, said), NEW b, SameCalls(a, b)
  PROVE  Fit(bl, b, said)
<1>1. Knows(turn.items, b, said)
  BY SameKnows DEF Fit
<1>2. \A i : RecordOf(turn.items, b, i) = RecordOf(turn.items, a, i)
  BY DEF RecordOf, SameCalls
<1> QED BY <1>1, <1>2 DEF Fit

\* The record of a known call.
LEMMA RecordIs ==
  ASSUME NEW items, NEW a, NEW said, Knows(items, a, said), NEW i \in DOMAIN said,
         NEW r, r = RecordOf(items, a, i)
  PROVE  /\ r \in ToolCallStates /\ Agrees(r, items, said, i)
         /\ a.byId[items[i].id] \in DOMAIN a.calls
<1>1. HasRecord(items, a, said, i) /\ a.calls \in Seq(ToolCallStates)
  BY DEF Knows, IsAccumulator
<1> QED BY <1>1 DEF HasRecord, RecordOf, Agrees

\* Telling of a call leaves the records of the others alone.
LEMMA OtherRecords ==
  ASSUME NEW items, NEW a, NEW said, NEW i, NEW item, NEW index, NEW piece,
         Telling(items, a, said, i, item, index, piece), NEW b, Turned(items, a, said, i, b),
         NEW j \in DOMAIN said, j # i
  PROVE  RecordOf(items, b, j) = RecordOf(items, a, j)
<1>a. PICK m, n : m = a.byId[items[j].id] /\ n = Place(items, a, said, i)
  OBVIOUS
<1>1. m # n
  BY <1>a, OtherPlaces
<1>2. m \in DOMAIN a.calls
  BY <1>a DEF Telling, Knows, HasRecord
<1>3. b.calls[m] = a.calls[m] /\ b.byId[items[j].id] = m
  BY <1>a, <1>1, <1>2 DEF Turned
<1> QED BY <1>a, <1>3 DEF RecordOf

\* A record keeps its marks, and a new one has none.
KeepsMarks(t, r, said, i) ==
  /\ i \in DOMAIN said => t.added = r.added /\ t.done = r.done
  /\ i \notin DOMAIN said => t.added = FALSE /\ t.done = FALSE

LEMMA TurnedRecord ==
  ASSUME NEW items, NEW a, NEW said, Knows(items, a, said), NEW i, NEW b,
         Turned(items, a, said, i, b), NEW r, r = RecordOf(items, a, i),
         NEW t, t = RecordOf(items, b, i)
  PROVE  KeepsMarks(t, r, said, i)
<1>1. CASE i \in DOMAIN said
  <2>1. Place(items, a, said, i) = a.byId[items[i].id]
    BY <1>1 DEF Place
  <2>2. r.added \in BOOLEAN /\ r.done \in BOOLEAN
    BY <1>1, RecordIs, RecordFields
  <2>3. t.added = (i \in DOMAIN said /\ r.added) /\ t.done = (i \in DOMAIN said /\ r.done)
    BY <2>1 DEF Turned, RecordOf
  <2> QED BY <1>1, <2>2, <2>3 DEF KeepsMarks
<1>2. CASE i \notin DOMAIN said
  BY <1>2 DEF Turned, RecordOf, Place, KeepsMarks
<1> QED BY <1>1, <1>2

\* An open or a finished call stays one when its record changes otherwise.
LEMMA StillShown ==
  ASSUME NEW bl, NEW r, NEW t, NEW p, HasShown(bl, r, p), t.item = r.item, t.call = r.call,
         t.added = r.added, t.done = r.done, r.done => t.size = p
  PROVE  HasShown(bl, t, p)
<1>1. ItemBlock(t) = ItemBlock(r)
  BY DEF ItemBlock
<1> QED BY <1>1 DEF HasShown, IsOpen

\* The record of a call once a listed item told of it.
LEMMA FitsOn ==
  ASSUME NEW bl, NEW i, NEW p, NEW r, r \in ToolCallStates, NEW t, Fits(bl, r, i, p),
         t.item = r.item, t.call = r.call, t.added = r.added, t.done = r.done,
         turn.items[i].kind = "call", turn.items[i].size \in Nat, progress[i].pieces \in Nat,
         NEW item, item = FinalItem(i),
         t.size = IF item.size > 0 THEN item.size ELSE r.size, t.status = item.status,
         ~ItemDone(i) /\ progress[i].pieces > 0 => p = progress[i].pieces,
         p <= turn.items[i].size
  PROVE  Fits(bl, t, i, p)
<1>1. /\ ItemDone(i) => item.size = turn.items[i].size /\ item.status = "completed"
      /\ ~ItemDone(i) => item.size = progress[i].pieces /\ item.status = "incomplete"
  BY FinalShows DEF IsShown
<1>2. HasShown(bl, r, p)
  BY DEF Fits
<1>3. r.size \in Nat
  BY RecordFields
<1>4. r.done => t.size = p /\ p = turn.items[i].size /\ ItemDone(i) /\ t.status = "completed"
  <2> SUFFICES ASSUME r.done PROVE t.size = p /\ p = turn.items[i].size /\ ItemDone(i)
                                   /\ t.status = "completed"
    OBVIOUS
  <2>1. p = turn.items[i].size /\ ItemDone(i)
    BY DEF Fits
  <2>2. r.size = p
    BY <1>2 DEF HasShown
  <2>3. item.size = p /\ t.status = "completed"
    BY <1>1, <2>1
  <2> QED BY <2>1, <2>2, <2>3
<1>5. HasShown(bl, t, p)
  BY <1>2, <1>4, StillShown
<1>6. t.added /\ (t.status # "completed" \/ ~ItemDone(i)) => t.size = p
  <2> SUFFICES ASSUME t.added, t.status # "completed" \/ ~ItemDone(i) PROVE t.size = p
    OBVIOUS
  <2>1. ~ItemDone(i) /\ item.size = progress[i].pieces
    BY <1>1
  <2>2. r.size = p
    BY <2>1 DEF Fits
  <2>3. CASE progress[i].pieces > 0
    BY <2>1, <2>3
  <2>4. CASE ~(progress[i].pieces > 0)
    BY <2>1, <2>2, <2>4
  <2> QED BY <2>3, <2>4
<1>7. ASSUME t.added PROVE p \in Nat /\ p <= t.size
  <2>1. p \in Nat /\ p <= r.size
    BY <1>7 DEF Fits
  <2>2. CASE ItemDone(i)
    BY <1>1, <1>3, <2>1, <2>2
  <2>3. CASE ~ItemDone(i)
    BY <1>1, <1>3, <2>1, <2>3
  <2> QED BY <2>2, <2>3
<1> QED BY <1>4, <1>5, <1>6, <1>7 DEF Fits

\* The first record of a call that the client does not have.
LEMMA FitsFirst ==
  ASSUME NEW bl, NEW i, NEW t, t.added = FALSE, t.done = FALSE, ItemBlock(t) \notin DOMAIN bl
  PROVE  Fits(bl, t, i, 0)
BY DEF Fits, HasShown, IsOpen

\* No more of a call was told than it has.
LEMMA SizeIsWithin ==
  ASSUME NEW shape, NEW said, InOrder(shape, said)
  PROVE  SizeSaid(shape, said) \in Nat /\ SizeSaid(shape, said) <= shape.size
<1>1. /\ shape.size \in Nat /\ shape.deltas \in Nat /\ said.pieces \in Nat
      /\ said.pieces <= shape.deltas /\ shape.deltas <= shape.size
  BY ShapeFields DEF InOrder
<1> QED BY <1>1 DEF SizeSaid, SayingOf

\* A listed item keeps the calls fitting.
LEMMA FitCapture ==
  ASSUME NEW bl, NEW a, NEW said, Fit(bl, a, said), IsTold(turn.items, progress),
         NEW i \in DOMAIN turn.items, NEW index \in Nat,
         NEW b, b = CaptureOutputItem(a, FinalItem(i), index)
  PROVE  \E told : Fit(bl, b, told)
<1>a. PICK items, item : items = turn.items /\ item = FinalItem(i)
  OBVIOUS
<1>1. /\ AreItems(items) /\ IsSaid(items, said) /\ Knows(items, a, said)
      /\ InOrder(items[i], progress[i]) /\ item.kind = items[i].kind
      /\ i \in DOMAIN items /\ DOMAIN progress = DOMAIN items
  BY <1>a, FinalShows DEF Fit, IsTold
<1>2. CASE item.kind # "call"
  <2>1. IsAccumulator(a)
    BY <1>1 DEF Knows
  <2>2. SameCalls(a, b)
    BY <1>a, <1>2, <2>1, CaptureOther
  <2> QED BY <2>2, FitSame
<1>3. CASE item.kind = "call"
  <2>1. b = CaptureToolCall(a, item, index, 0)
    BY <1>a, <1>3 DEF CaptureOutputItem
  <2>2. /\ items[i].kind = "call" /\ items[i].size \in Nat /\ progress[i].pieces \in Nat
    BY <1>1, <1>3, ShapeFields
  <2>3. TellsOf(items, i, item) /\ item.named = TRUE /\ item.size \in Nat
        /\ item.status \in {"completed", "incomplete"}
    <3>1. \/ IsShown(item, items[i], TRUE, items[i].size, "completed")
          \/ IsShown(item, items[i], TRUE, progress[i].pieces, "incomplete")
      BY <1>a, <2>2, FinalShows
    <3> QED BY <2>2, <3>1 DEF IsShown, TellsOf, Statuses
  <2>4. Telling(items, a, said, i, item, index, 0)
    BY <1>1, <2>2, <2>3 DEF Telling
  <2>b. PICK told : told = Hears(said, i, item, 0)
    OBVIOUS
  <2>5. /\ IsSaid(items, told) /\ Knows(items, b, told) /\ Turned(items, a, said, i, b)
        /\ DOMAIN told = DOMAIN said \cup {i}
        /\ \A j \in DOMAIN said : j # i => told[j] = said[j]
    <3>1. IsSaid(items, told) /\ Knows(items, b, told) /\ Turned(items, a, said, i, b)
      BY <2>b, <2>1, <2>4, CaptureKnows
    <3>2. DOMAIN told = DOMAIN said \cup {i} /\ \A j \in DOMAIN said : j # i => told[j] = said[j]
      BY <2>b DEF Hears
    <3> QED BY <3>1, <3>2
  <2>6. /\ told[i].known
        /\ i \in DOMAIN said =>
             told[i].size = IF item.size > 0 THEN item.size ELSE said[i].size + 0
        /\ told[i].status = item.status
    BY <2>b, <2>3 DEF Hears
  <2>7. HeardOf(items, progress) \subseteq DOMAIN said
    BY <1>a DEF Fit
  <2>c. PICK r, t : r = RecordOf(items, a, i) /\ t = RecordOf(items, b, i)
    OBVIOUS
  <2>8. /\ t \in ToolCallStates /\ t.item = items[i].id /\ t.call = items[i].call
        /\ t.size = told[i].size /\ t.status = item.status
    <3>1. t \in ToolCallStates /\ Agrees(t, items, told, i)
      BY <2>c, <2>5, RecordIs
    <3> QED BY <2>6, <3>1 DEF Agrees, NameOf
  <2>9. Fits(bl, t, i, Size(i))
    <3>1. CASE i \in DOMAIN said
      <4>1. r \in ToolCallStates /\ Agrees(r, items, said, i)
        BY <1>1, <2>c, <3>1, RecordIs
      <4>2. said[i].known /\ Fits(bl, r, i, Size(i))
        BY <1>a, <2>c, <3>1 DEF Fit
      <4>3. t.added = r.added /\ t.done = r.done
        <5>1. Knows(items, a, said) /\ Turned(items, a, said, i, b)
          BY <1>1, <2>5
        <5>2. KeepsMarks(t, r, said, i)
          BY <2>c, <5>1, TurnedRecord
        <5> QED BY <3>1, <5>2 DEF KeepsMarks
      <4>4. t.item = r.item /\ t.call = r.call
        BY <2>8, <4>1, <4>2 DEF Agrees, NameOf
      <4>5. r.size \in Nat /\ r.size = said[i].size
        BY <4>1, RecordFields DEF Agrees
      <4>6. t.size = IF item.size > 0 THEN item.size ELSE r.size
        BY <2>6, <2>8, <3>1, <4>5
      <4>7. ~ItemDone(i) /\ progress[i].pieces > 0 => Size(i) = progress[i].pieces
        BY <1>a DEF ItemDone, Size, SizeSaid, IsHeard, SayingOf
      <4>8. Size(i) <= items[i].size
        BY <1>a, <1>1, <2>2, SizeIsWithin DEF Size
      <4> QED BY <1>a, <2>2, <2>8, <4>1, <4>2, <4>3, <4>4, <4>6, <4>7, <4>8, FitsOn
    <3>2. CASE i \notin DOMAIN said
      <4>1. t.added = FALSE /\ t.done = FALSE
        <5>1. Knows(items, a, said) /\ Turned(items, a, said, i, b)
          BY <1>1, <2>5
        <5>2. KeepsMarks(t, r, said, i)
          BY <2>c, <5>1, TurnedRecord
        <5> QED BY <3>2, <5>2 DEF KeepsMarks
      <4>2. i \notin HeardOf(items, progress)
        BY <2>7, <3>2
      <4>3. KeyOf(items, i) \notin DOMAIN bl
        BY <1>a, <1>1, <2>2, <4>2 DEF Fit
      <4>4. ItemBlock(t) = KeyOf(items, i)
        BY <2>8 DEF ItemBlock, KeyOf
      <4>5. Size(i) = 0
        BY <1>a, <1>1, <2>2, <4>2 DEF Size, SizeSaid, IsHeard, HeardOf
      <4> QED BY <4>1, <4>3, <4>4, <4>5, FitsFirst
    <3> QED BY <3>1, <3>2
  <2>10. ASSUME NEW j \in DOMAIN told
         PROVE  told[j].known /\ Fits(bl, RecordOf(items, b, j), j, Size(j))
    <3>1. CASE j = i
      BY <2>6, <2>9, <2>c, <3>1
    <3>2. CASE j # i
      <4>1. j \in DOMAIN said /\ told[j] = said[j]
        BY <2>5, <2>10, <3>2
      <4>2. said[j].known /\ Fits(bl, RecordOf(items, a, j), j, Size(j))
        BY <1>a, <4>1 DEF Fit
      <4>3. RecordOf(items, b, j) = RecordOf(items, a, j)
        BY <2>4, <2>5, <3>2, <4>1, OtherRecords
      <4> QED BY <4>1, <4>2, <4>3
    <3> QED BY <3>1, <3>2
  <2>11. \A j \in DOMAIN items \ HeardOf(items, progress) :
           items[j].kind = "call" => KeyOf(items, j) \notin DOMAIN bl
    BY <1>a DEF Fit
  <2>12. HeardOf(items, progress) \subseteq DOMAIN told
    BY <2>5, <2>7
  <2> QED BY <1>a, <2>5, <2>10, <2>11, <2>12 DEF Fit
<1> QED BY <1>2, <1>3

\* So does the list of the items.
LEMMA FitReplace ==
  ASSUME NEW bl, NEW a, NEW said, Fit(bl, a, said), IsTold(turn.items, progress),
         NEW out, out \in Seq({FinalItem(i) : i \in DOMAIN turn.items})
  PROVE  \E told : Fit(bl, ReplaceOutputItems(a, out), told)
<1>a. PICK S : S = {FinalItem(i) : i \in DOMAIN turn.items}
  OBVIOUS
<1>1. out \in Seq(S) /\ Len(out) \in Nat
  BY <1>a
<1>2. PICK x : IsReplacing(x, a, out) /\ ReplaceOutputItems(a, out) = x[Len(out)]
  BY <1>1, ReplacingIs
<1> DEFINE T == {n \in Nat : n <= Len(out) => \E told : Fit(bl, x[n], told)}
<1>3. 0 \in T
  <2>1. IsAccumulator(a)
    BY DEF Fit, Knows
  <2>2. SameCalls(a, [a EXCEPT !.outputs = <<>>])
    BY <2>1, FieldsOfOther
  <2>3. x[0] = [a EXCEPT !.outputs = <<>>]
    BY <1>2 DEF IsReplacing
  <2>4. Fit(bl, x[0], said)
    BY <2>2, <2>3, FitSame
  <2> QED BY <2>4
<1>4. ASSUME NEW n \in Nat, n \in T PROVE n + 1 \in T
  <2> SUFFICES ASSUME n + 1 <= Len(out) PROVE \E told : Fit(bl, x[n + 1], told)
    OBVIOUS
  <2>1. PICK told : Fit(bl, x[n], told)
    <3>1. n <= Len(out)
      BY <1>1
    <3> QED BY <1>4, <3>1
  <2>2. n + 1 \in 1 .. Len(out) /\ n + 1 - 1 = n
    BY <1>1
  <2>3. x[n + 1] = CaptureOutputItem(x[n], out[n + 1], n)
    BY <1>2, <2>2 DEF IsReplacing
  <2>4. out[n + 1] \in S
    BY <1>1, <2>2
  <2>5. PICK i \in DOMAIN turn.items : out[n + 1] = FinalItem(i)
    BY <1>a, <2>4
  <2> QED BY <2>1, <2>3, <2>5, FitCapture
<1>5. Len(out) \in T
  <2> HIDE DEF T
  <2>1. Nat \subseteq T
    BY <1>3, <1>4, Induction
  <2> QED BY <1>1, <2>1
<1> QED BY <1>1, <1>2, <1>5

\* While the stream goes on, what the client has fits what the accumulator knows.
LEMMA FitOfShows ==
  ASSUME NEW said, said = SaidOf(turn.items, progress), IsTold(turn.items, progress),
         Knows(turn.items, acc, said), Shows(turn.items, progress, acc, blocks)
  PROVE  Fit(blocks, acc, said)
<1>a. PICK items : items = turn.items
  OBVIOUS
<1>1. /\ DOMAIN said = HeardOf(items, progress) /\ IsSaid(items, said)
      /\ Knows(items, acc, said) /\ IsTold(items, progress)
  BY <1>a, SaidIsSaid DEF SaidOf
<1>2. ASSUME NEW i \in DOMAIN said
      PROVE  said[i].known /\ Fits(blocks, RecordOf(items, acc, i), i, Size(i))
  <2>a. PICK r : r = RecordOf(items, acc, i)
    OBVIOUS
  <2>1. r \in ToolCallStates /\ Agrees(r, items, said, i)
    BY <1>1, <2>a, RecordIs
  <2>2. ShowsCall(items, progress, acc, blocks, i)
    BY <1>a, <1>1 DEF Shows
  <2>3. said[i] = SayingOf(items[i], progress[i])
    BY <1>a, <1>1 DEF SaidOf
  <2>4. /\ said[i].known /\ r.added = TRUE /\ r.done = (progress[i].whole \/ progress[i].done)
        /\ KeyOf(items, i) \in DOMAIN blocks
        /\ blocks[KeyOf(items, i)] = CallShown(items[i].call, r.size, r.done)
    BY <2>a, <2>2, <2>3 DEF ShowsCall
  <2>5. IsHeard(progress[i])
    BY <1>1 DEF HeardOf, IsHeard
  <2>6. r.size = Size(i)
    BY <1>a, <2>1, <2>3, <2>5 DEF Agrees, Size, SizeSaid
  <2>7. r.call = items[i].call /\ ItemBlock(r) = KeyOf(items, i)
    BY <2>1, <2>4 DEF Agrees, NameOf, ItemBlock, KeyOf
  <2>8. HasShown(blocks, r, Size(i))
    <3>1. CASE r.done
      <4>1. r.done = TRUE
        BY <2>1, <3>1, RecordFields
      <4> QED BY <2>4, <2>6, <2>7, <3>1, <4>1 DEF HasShown
    <3>2. CASE ~r.done
      <4>1. r.done = FALSE
        BY <2>1, <3>2, RecordFields
      <4> QED BY <2>4, <2>6, <2>7, <3>2, <4>1 DEF HasShown, IsOpen
    <3> QED BY <3>1, <3>2
  <2>9. r.done => r.status = "completed" /\ Size(i) = turn.items[i].size /\ ItemDone(i)
    <3> SUFFICES ASSUME r.done
                 PROVE  r.status = "completed" /\ Size(i) = turn.items[i].size /\ ItemDone(i)
      OBVIOUS
    <3>1. progress[i].whole \/ progress[i].done
      BY <2>4
    <3>2. said[i].status = "completed" /\ said[i].size = items[i].size
      BY <2>3, <3>1 DEF SayingOf
    <3>3. r.status = "completed" /\ Size(i) = items[i].size
      BY <2>1, <2>6, <3>2 DEF Agrees
    <3> QED BY <1>a, <3>1, <3>3 DEF ItemDone
  <2>10. r.size \in Nat
    BY <2>1, RecordFields
  <2> QED BY <2>4, <2>6, <2>8, <2>9, <2>10, <2>a DEF Fits
<1>3. \A i \in DOMAIN items \ HeardOf(items, progress) :
        items[i].kind = "call" => KeyOf(items, i) \notin DOMAIN blocks
  BY <1>a DEF Shows
<1> QED BY <1>a, <1>1, <1>2, <1>3 DEF Fit

\* What the last event may list: nothing when it does not list the items.
LastItems == {FinalItem(i) : i \in {j \in DOMAIN turn.items : turn.listed}}

LEMMA ListedIs ==
  ASSUME NEW type, turn.items \in Seq(Shapes)
  PROVE  Listed(type) \in Seq(LastItems)
<1>a. PICK S : S = LastItems
  OBVIOUS
<1> DEFINE seqs == [i \in DOMAIN turn.items |->
                      IF turn.listed /\ (Started(i) \/ type = "completed") THEN <<FinalItem(i)>>
                      ELSE <<>>]
<1>1. ASSUME NEW i \in DOMAIN turn.items PROVE seqs[i] \in Seq(S)
  <2>1. turn.listed => FinalItem(i) \in S
    BY <1>a DEF LastItems
  <2>2. turn.listed => <<FinalItem(i)>> \in Seq(S)
    BY <2>1
  <2>3. <<>> \in Seq(S)
    OBVIOUS
  <2> QED BY <2>2, <2>3
<1>2. DOMAIN turn.items = 1 .. Len(turn.items) /\ Len(turn.items) \in Nat
  OBVIOUS
<1>3. seqs \in Seq(Seq(S))
  <2>1. DOMAIN seqs = 1 .. Len(turn.items)
    BY <1>2
  <2>2. seqs = [i \in 1 .. Len(turn.items) |-> seqs[i]]
    BY <1>2
  <2> HIDE DEF seqs
  <2>3. \A i \in 1 .. Len(turn.items) : seqs[i] \in Seq(S)
    BY <1>1, <1>2
  <2> QED BY <1>2, <2>1, <2>2, <2>3
<1>4. Listed(type) = FlattenSeq(seqs)
  BY DEF Listed
<1> HIDE DEF seqs
<1> QED BY <1>a, <1>3, <1>4, FlattenType

\* What the last event does: its list of items is all that may change the calls.
LEMMA ApplyLast ==
  ASSUME NEW a, IsAccumulator(a), NEW type \in {"completed", "incomplete"},
         NEW event, event = LastEvent(type), NEW last, last = Apply(a, event)
  PROVE  \E b, c : /\ SameCalls(a, b)
                   /\ c = (IF event.output # <<>> THEN ReplaceOutputItems(b, event.output) ELSE b)
                   /\ IsAccumulator(c) => SameCalls(c, last) /\ last.terminal = type
<1>1. /\ event.type = type /\ event.item = NoItem /\ event.output = Listed(type)
      /\ event.status = type
  BY LastEventIs
<1>2. IsTerminal(event)
  BY <1>1 DEF IsTerminal
<1>a. PICK b, c, d, e : /\ b = [a EXCEPT !.status = event.status]
                        /\ c = (IF event.output # <<>> THEN ReplaceOutputItems(b, event.output) ELSE b)
                        /\ d = [c EXCEPT !.text = IF @ = 0 THEN event.text ELSE @]
                        /\ e = [d EXCEPT !.terminal = event.type]
  OBVIOUS
<1>3. last = [e EXCEPT !.final = event.output]
  <2>1. ApplyResponseMetadata(a, event) = c
    BY <1>1, <1>a DEF ApplyResponseMetadata
  <2>2. ApplyText(c, event) = d
    BY <1>1, <1>2, <1>a DEF ApplyText
  <2>3. ApplyToolArguments(d, event) = d
    BY <1>1 DEF ApplyToolArguments
  <2>4. ApplyOutput(d, event) = d
    BY <1>1 DEF ApplyOutput
  <2>5. ApplyTerminal(d, event) = [d EXCEPT !.terminal = event.type, !.final = event.output]
    BY <1>2 DEF ApplyTerminal
  <2>6. [d EXCEPT !.terminal = event.type, !.final = event.output] = [e EXCEPT !.final = event.output]
    BY <1>a
  <2> QED BY <2>1, <2>2, <2>3, <2>4, <2>5, <2>6 DEF Apply
<1>4. SameCalls(a, b)
  BY <1>a, FieldsOfOther
<1>5. ASSUME IsAccumulator(c) PROVE SameCalls(c, last) /\ last.terminal = type
  <2>1. SameCalls(c, d)
    BY <1>a, <1>5, FieldsOfOther
  <2>2. IsAccumulator(d)
    BY <1>5, <2>1 DEF SameCalls
  <2>3. SameCalls(d, e)
    <3>1. SameCalls(d, [d EXCEPT !.terminal = event.type])
      BY <2>2, FieldsOfOther
    <3> QED BY <1>a, <3>1
  <2>4. IsAccumulator(e)
    BY <2>2, <2>3 DEF SameCalls
  <2>5. SameCalls(e, last)
    <3>1. SameCalls(e, [e EXCEPT !.final = event.output])
      BY <2>4, FieldsOfOther
    <3> QED BY <1>3, <3>1
  <2>6. e.terminal = type
    BY <1>1, <1>a, <2>2 DEF IsAccumulator, With
  <2>7. last.terminal = type
    BY <1>3, <2>6
  <2>8. SameCalls(c, e)
    BY <2>1, <2>3, SameCallsTwice
  <2> QED BY <2>5, <2>7, <2>8, SameCallsTwice
<1> QED BY <1>4, <1>5, <1>a

\* The last event keeps the calls fitting.
LEMMA FitApply ==
  ASSUME NEW bl, NEW a, NEW said, Fit(bl, a, said), IsTold(turn.items, progress),
         NEW type \in {"completed", "incomplete"}, NEW event, event = LastEvent(type)
  PROVE  \E told : Fit(bl, Apply(a, event), told)
<1>a. PICK last : last = Apply(a, event)
  OBVIOUS
<1>1. IsAccumulator(a)
  BY DEF Fit, Knows
<1>2. PICK b, c : /\ SameCalls(a, b)
                  /\ c = (IF event.output # <<>> THEN ReplaceOutputItems(b, event.output) ELSE b)
                  /\ IsAccumulator(c) => SameCalls(c, last) /\ last.terminal = type
  BY <1>1, <1>a, ApplyLast
<1>3. Fit(bl, b, said)
  BY <1>2, FitSame
<1>4. PICK told : Fit(bl, c, told)
  <2>1. CASE event.output # <<>>
    <3>1. turn.items \in Seq(Shapes) /\ event.output = Listed(type)
      BY LastEventIs DEF IsTold, AreItems
    <3>2. event.output \in Seq(LastItems)
      BY <3>1, ListedIs
    <3>3. LastItems \subseteq {FinalItem(i) : i \in DOMAIN turn.items}
      BY DEF LastItems
    <3>4. event.output \in Seq({FinalItem(i) : i \in DOMAIN turn.items})
      BY <3>2, <3>3, SubSequence
    <3>5. c = ReplaceOutputItems(b, event.output)
      BY <1>2, <2>1
    <3> QED BY <1>3, <3>4, <3>5, FitReplace
  <2>2. CASE event.output = <<>>
    <3>1. c = b
      BY <1>2, <2>2
    <3> QED BY <1>3, <3>1
  <2> QED BY <2>1, <2>2
<1>5. SameCalls(c, last)
  <2>1. IsAccumulator(c)
    BY <1>4 DEF Fit, Knows
  <2> QED BY <1>2, <2>1
<1>6. Fit(bl, last, told)
  BY <1>4, <1>5, FitSame
<1> QED BY <1>6, <1>a

\* Two clients that have the same of one block.
AgreesAt(y, z, key) ==
  /\ key \in DOMAIN y => key \in DOMAIN z /\ z[key] = y[key]
  /\ key \in DOMAIN z => key \in DOMAIN y

LEMMA AgreesTwice ==
  ASSUME NEW x, NEW y, NEW z, NEW key, AgreesAt(x, y, key), AgreesAt(y, z, key)
  PROVE  AgreesAt(x, z, key)
BY DEF AgreesAt

LEMMA AgreesSelf ==
  ASSUME NEW x, NEW key
  PROVE  AgreesAt(x, x, key)
BY DEF AgreesAt

LEMMA ReadOneAgrees ==
  ASSUME NEW bl, NEW out, NEW key, out.key # key
  PROVE  AgreesAt(bl, ReadOne(bl, out), key)
<1>1. PICK block : Changes(bl, ReadOne(bl, out), out.key, block)
  BY ReadOneIs
<1> QED BY <1>1 DEF Changes, AgreesAt

\* Messages about other blocks leave a block alone.
LEMMA ReadAgrees ==
  ASSUME NEW bl, NEW S, NEW outs \in Seq(S), NEW key, \A out \in S : out.key # key
  PROVE  AgreesAt(bl, Read(bl, outs), key)
<1>1. PICK x : IsReading(x, bl, outs) /\ Read(bl, outs) = x[Len(outs)]
  BY ReadIs
<1>2. Len(outs) \in Nat /\ \A n \in 1 .. Len(outs) : outs[n] \in S
  OBVIOUS
<1> DEFINE T == {n \in Nat : n <= Len(outs) => AgreesAt(bl, x[n], key)}
<1>3. 0 \in T
  BY <1>1, AgreesSelf DEF IsReading
<1>4. ASSUME NEW n \in Nat, n \in T PROVE n + 1 \in T
  <2> SUFFICES ASSUME n + 1 <= Len(outs) PROVE AgreesAt(bl, x[n + 1], key)
    OBVIOUS
  <2>1. n <= Len(outs) /\ n + 1 \in 1 .. Len(outs) /\ n + 1 - 1 = n
    BY <1>2
  <2>2. AgreesAt(bl, x[n], key)
    BY <1>4, <2>1
  <2>3. x[n + 1] = ReadOne(x[n], outs[n + 1])
    BY <1>1, <2>1 DEF IsReading
  <2>4. outs[n + 1].key # key
    BY <1>2, <2>1
  <2>5. AgreesAt(x[n], x[n + 1], key)
    BY <2>3, <2>4, ReadOneAgrees
  <2> QED BY <2>2, <2>5, AgreesTwice
<1>5. Len(outs) \in T
  <2> HIDE DEF T
  <2>1. Nat \subseteq T
    BY <1>3, <1>4, Induction
  <2> QED BY <1>2, <2>1
<1> QED BY <1>1, <1>2, <1>5

\* The messages that complete a call are about its block.
Completing(call) ==
  {Opens(ItemBlock(call), "call", call.call), States(ItemBlock(call), call.call, call.size),
   Closes(ItemBlock(call), call.call)}

LEMMA CompletingKeys ==
  ASSUME NEW call, NEW out \in Completing(call)
  PROVE  out.key = ItemBlock(call)
<1>1. /\ Opens(ItemBlock(call), "call", call.call).key = ItemBlock(call)
      /\ States(ItemBlock(call), call.call, call.size).key = ItemBlock(call)
      /\ Closes(ItemBlock(call), call.call).key = ItemBlock(call)
  BY DEF Opens, States, Closes
<1> QED BY <1>1 DEF Completing

LEMMA CompleteType ==
  ASSUME NEW call
  PROVE  Complete(call) \in Seq(Completing(call))
<1>a. PICK open, state, close : /\ open = Opens(ItemBlock(call), "call", call.call)
                                /\ state = States(ItemBlock(call), call.call, call.size)
                                /\ close = Closes(ItemBlock(call), call.call)
  OBVIOUS
<1>b. PICK S : S = {open, state, close}
  OBVIOUS
<1>1. S = Completing(call)
  BY <1>a, <1>b DEF Completing
<1>2. Complete(call) = IF call.done THEN <<>> ELSE Announce(call) \o <<state, close>>
  BY <1>a DEF Complete
<1>3. Announce(call) \in Seq(S)
  <2>1. Announce(call) \in Seq({open})
    BY <1>a, AnnounceType
  <2>2. {open} \subseteq S
    BY <1>b
  <2> QED BY <2>1, <2>2, SubSequence
<1>4. <<state, close>> \in Seq(S) /\ <<>> \in Seq(S)
  BY <1>b
<1>5. Announce(call) \o <<state, close>> \in Seq(S)
  BY <1>3, <1>4
<1> QED BY <1>1, <1>2, <1>4, <1>5

\* What the end of the stream sends of a call, when it is pending.
LastSaid(a, call) == IF IsPending(a, call) THEN Complete(call) ELSE <<>>

LEMMA LastType ==
  ASSUME NEW a, NEW call
  PROVE  LastSaid(a, call) \in Seq(Completing(call))
<1>1. <<>> \in Seq(Completing(call))
  OBVIOUS
<1> QED BY <1>1, CompleteType DEF LastSaid

\* The end of the stream completes the calls one after the other.
LEMMA PendingIs ==
  ASSUME NEW a, a.calls \in Seq(ToolCallStates), NEW N, N = Len(a.calls)
  PROVE  \E S, seqs : /\ PendingCompletions(a).out = FlattenSeq(seqs)
                      /\ seqs \in Seq(Seq(S)) /\ Len(seqs) = N
                      /\ \A n \in 1 .. N : seqs[n] = LastSaid(a, a.calls[n])
<1>1. N \in Nat /\ DOMAIN a.calls = 1 .. N
  OBVIOUS
<1> DEFINE seqs == [n \in 1 .. N |-> LastSaid(a, a.calls[n])]
           S == UNION {Completing(a.calls[n]) : n \in 1 .. N}
<1>2. PendingCompletions(a).out = FlattenSeq(seqs)
  <2>1. seqs = [n \in DOMAIN a.calls |-> IF IsPending(a, a.calls[n])
                                         THEN Complete(a.calls[n]) ELSE <<>>]
    BY <1>1 DEF LastSaid
  <2> HIDE DEF seqs
  <2> QED BY <2>1 DEF PendingCompletions
<1>3. seqs \in Seq(Seq(S)) /\ Len(seqs) = N
  <2>1. ASSUME NEW n \in 1 .. N PROVE seqs[n] \in Seq(S)
    <3>1. Completing(a.calls[n]) \subseteq S
      OBVIOUS
    <3>2. seqs[n] \in Seq(Completing(a.calls[n]))
      BY LastType
    <3> HIDE DEF seqs, S
    <3> QED BY <3>1, <3>2, SubSequence
  <2>2. seqs \in [1 .. N -> Seq(S)]
    <3>1. DOMAIN seqs = 1 .. N /\ seqs = [n \in 1 .. N |-> seqs[n]]
      OBVIOUS
    <3> HIDE DEF seqs, S
    <3> QED BY <2>1, <3>1
  <2> HIDE DEF seqs, S
  <2> QED BY <1>1, <2>2
<1>4. \A n \in 1 .. N : seqs[n] = LastSaid(a, a.calls[n])
  OBVIOUS
<1> HIDE DEF seqs, S
<1> QED BY <1>2, <1>3, <1>4

\* Calls are told apart by their item ids: what the end of the stream sends of the
\* others leaves the block of a call alone.
LEMMA PendingReads ==
  ASSUME NEW bl, NEW a, a.calls \in Seq(ToolCallStates),
         \A n, m \in DOMAIN a.calls : n # m => a.calls[n].item # a.calls[m].item,
         NEW read, read = Read(bl, PendingCompletions(a).out), NEW m \in DOMAIN a.calls,
         NEW call, call = a.calls[m]
  PROVE  \E before, after : /\ AgreesAt(bl, before, ItemBlock(call))
                            /\ after = Read(before, LastSaid(a, call))
                            /\ AgreesAt(after, read, ItemBlock(call))
<1>a. PICK N, key : N = Len(a.calls) /\ key = ItemBlock(call)
  OBVIOUS
<1>1. /\ N \in Nat /\ DOMAIN a.calls = 1 .. N /\ m \in 1 .. N
  BY <1>a
<1>2. PICK S, seqs : /\ PendingCompletions(a).out = FlattenSeq(seqs)
                     /\ seqs \in Seq(Seq(S)) /\ Len(seqs) = N
                     /\ \A n \in 1 .. N : seqs[n] = LastSaid(a, a.calls[n])
  BY <1>a, PendingIs
<1>5. PICK x : ReadsEach(x, bl, seqs) /\ Read(bl, FlattenSeq(seqs)) = x[N]
  BY <1>2, ReadFlattened
<1>6. /\ x[0] = bl /\ read = x[N]
      /\ \A n \in 1 .. N : x[n] = Read(x[n - 1], LastSaid(a, a.calls[n]))
  BY <1>2, <1>5 DEF ReadsEach
<1>7. ASSUME NEW n \in 1 .. N, n # m PROVE AgreesAt(x[n - 1], x[n], key)
  <2>1. a.calls[n].item # call.item
    BY <1>1, <1>7
  <2>2. ItemBlock(a.calls[n]) # key
    BY <1>a, <2>1 DEF ItemBlock
  <2>3. \A out \in Completing(a.calls[n]) : out.key # key
    BY <2>2, CompletingKeys
  <2>4. LastSaid(a, a.calls[n]) \in Seq(Completing(a.calls[n]))
    BY LastType
  <2>5. AgreesAt(x[n - 1], Read(x[n - 1], LastSaid(a, a.calls[n])), key)
    BY <2>3, <2>4, ReadAgrees
  <2> QED BY <1>6, <2>5
<1>8. AgreesAt(bl, x[m - 1], key)
  <2> DEFINE T == {n \in Nat : n <= m - 1 => AgreesAt(bl, x[n], key)}
  <2>1. 0 \in T
    BY <1>6, AgreesSelf
  <2>2. ASSUME NEW n \in Nat, n \in T PROVE n + 1 \in T
    <3> SUFFICES ASSUME n + 1 <= m - 1 PROVE AgreesAt(bl, x[n + 1], key)
      OBVIOUS
    <3>1. n <= m - 1 /\ n + 1 \in 1 .. N /\ n + 1 # m /\ n + 1 - 1 = n
      BY <1>1
    <3>2. AgreesAt(bl, x[n], key)
      BY <2>2, <3>1
    <3>3. AgreesAt(x[n], x[n + 1], key)
      BY <1>7, <3>1
    <3> QED BY <3>2, <3>3, AgreesTwice
  <2>3. m - 1 \in Nat
    BY <1>1
  <2>4. m - 1 \in T
    <3> HIDE DEF T
    <3>1. Nat \subseteq T
      BY <2>1, <2>2, Induction
    <3> QED BY <2>3, <3>1
  <2> QED BY <2>3, <2>4
<1>9. AgreesAt(x[m], x[N], key)
  <2> DEFINE T == {n \in Nat : m + n <= N => AgreesAt(x[m], x[m + n], key)}
  <2>1. 0 \in T
    <3>1. m + 0 = m
      BY <1>1
    <3> QED BY <3>1, AgreesSelf
  <2>2. ASSUME NEW n \in Nat, n \in T PROVE n + 1 \in T
    <3> SUFFICES ASSUME m + (n + 1) <= N PROVE AgreesAt(x[m], x[m + (n + 1)], key)
      OBVIOUS
    <3>0. m \in Nat /\ N \in Nat
      BY <1>1
    <3>a. \A j, k, l \in Nat : j + (k + 1) <= l =>
            j + k <= l /\ j + (k + 1) \in 1 .. l /\ j + (k + 1) # j /\ j + (k + 1) - 1 = j + k
      OBVIOUS
    <3>1. m + n <= N /\ m + (n + 1) \in 1 .. N /\ m + (n + 1) # m /\ m + (n + 1) - 1 = m + n
      BY <3>0, <3>a
    <3>2. AgreesAt(x[m], x[m + n], key)
      BY <2>2, <3>1
    <3>b. PICK k : k = m + (n + 1)
      OBVIOUS
    <3>c. k \in 1 .. N /\ k # m /\ k - 1 = m + n
      BY <3>1, <3>b
    <3>d. AgreesAt(x[k - 1], x[k], key)
      BY <1>7, <3>c
    <3>3. AgreesAt(x[m + n], x[m + (n + 1)], key)
      BY <3>b, <3>c, <3>d
    <3> QED BY <3>2, <3>3, AgreesTwice
  <2>3. N - m \in Nat /\ m + (N - m) = N
    <3>1. m \in Nat /\ N \in Nat /\ m <= N
      BY <1>1
    <3>2. \A k, l \in Nat : k <= l => l - k \in Nat /\ k + (l - k) = l
      OBVIOUS
    <3> QED BY <3>1, <3>2
  <2>4. N - m \in T
    <3> HIDE DEF T
    <3>1. Nat \subseteq T
      BY <2>1, <2>2, Induction
    <3> QED BY <2>3, <3>1
  <2> QED BY <2>3, <2>4
<1>10. x[m] = Read(x[m - 1], LastSaid(a, call))
  BY <1>1, <1>6
<1> QED BY <1>a, <1>6, <1>8, <1>9, <1>10

\* What the client has of a call in the end.
IsAnswered(bl, call) ==
  /\ ItemBlock(call) \in DOMAIN bl
  /\ bl[ItemBlock(call)] = CallShown(call.call, call.size, call.status = "completed")

LEMMA HasShownAgrees ==
  ASSUME NEW y, NEW z, NEW r, NEW p, HasShown(y, r, p), AgreesAt(y, z, ItemBlock(r))
  PROVE  HasShown(z, r, p)
BY DEF HasShown, IsOpen, AgreesAt

\* A call that is completed at the end.
LEMMA PendingIsAnswered ==
  ASSUME NEW bl, NEW a, NEW call \in ToolCallStates, NEW p, HasShown(bl, call, p),
         IsPending(a, call), NEW r, r = Completed(call)
  PROVE  IsAnswered(Read(bl, LastSaid(a, call)), r) /\ ItemBlock(r) = ItemBlock(call)
<1>1. ~call.done /\ LastSaid(a, call) = Complete(call)
  BY DEF IsPending, LastSaid
<1>2. IsOpen(bl, call, p)
  BY <1>1 DEF HasShown
<1>a. PICK read : read = Read(bl, Complete(call))
  OBVIOUS
<1>3. Changes(bl, read, ItemBlock(call), CallShown(call.call, call.size, TRUE))
  BY <1>1, <1>2, <1>a, CompleteReads
<1>4. r = [call EXCEPT !.added = TRUE, !.done = TRUE, !.status = "completed"]
  BY <1>1 DEF Completed
<1>5. r.item = call.item /\ r.call = call.call /\ r.size = call.size /\ r.status = "completed"
  BY <1>4 DEF ToolCallStates
<1>6. ItemBlock(r) = ItemBlock(call)
  BY <1>5 DEF ItemBlock
<1>7. (r.status = "completed") = TRUE
  BY <1>5
<1> QED BY <1>1, <1>3, <1>5, <1>6, <1>7, <1>a DEF IsAnswered, Changes

\* A call that the end of the stream leaves as it is.
LEMMA OtherIsAnswered ==
  ASSUME NEW bl, NEW a, NEW r \in ToolCallStates, NEW i, NEW p, Fits(bl, r, i, p),
         ~IsPending(a, r), r.added \/ ~IsIncomplete(a)
  PROVE  IsAnswered(bl, r)
<1>1. HasShown(bl, r, p)
  BY DEF Fits
<1>2. CASE r.done
  <2>1. r.status = "completed" /\ r.size = p
    BY <1>1, <1>2 DEF Fits, HasShown
  <2>2. ItemBlock(r) \in DOMAIN bl /\ bl[ItemBlock(r)] = CallShown(r.call, p, TRUE)
    BY <1>1, <1>2 DEF HasShown
  <2>3. (r.status = "completed") = TRUE
    BY <2>1
  <2> QED BY <2>1, <2>2, <2>3 DEF IsAnswered
<1>3. CASE ~r.done
  <2>1. IsIncomplete(a) /\ r.status # "completed" /\ r.added
    BY <1>3 DEF IsPending
  <2>2. r.size = p
    BY <2>1 DEF Fits
  <2>3. ItemBlock(r) \in DOMAIN bl /\ bl[ItemBlock(r)] = CallShown(r.call, p, FALSE)
    BY <1>1, <1>3, <2>1 DEF HasShown, IsOpen
  <2>4. (r.status = "completed") = FALSE
    BY <2>1
  <2> QED BY <2>2, <2>3, <2>4 DEF IsAnswered
<1> QED BY <1>2, <1>3

LEMMA AnsweredAgrees ==
  ASSUME NEW y, NEW z, NEW r, IsAnswered(y, r), AgreesAt(y, z, ItemBlock(r))
  PROVE  IsAnswered(z, r)
BY DEF IsAnswered, AgreesAt

LEMMA FitsAgrees ==
  ASSUME NEW y, NEW z, NEW r, NEW i, NEW p, Fits(y, r, i, p), AgreesAt(y, z, ItemBlock(r))
  PROVE  Fits(z, r, i, p)
BY HasShownAgrees DEF Fits

\* The accumulator after the end of the stream.
LEMMA PendingAcc ==
  ASSUME NEW a, NEW c, c = PendingCompletions(a).acc, IsAccumulator(a)
  PROVE  /\ IsIncomplete(c) = IsIncomplete(a) /\ DOMAIN c.calls = DOMAIN a.calls
         /\ \A n \in DOMAIN a.calls :
              c.calls[n] = IF IsPending(a, a.calls[n]) THEN Completed(a.calls[n]) ELSE a.calls[n]
<1>a. PICK calls : calls = [n \in DOMAIN a.calls |-> IF IsPending(a, a.calls[n])
                                                     THEN Completed(a.calls[n]) ELSE a.calls[n]]
  OBVIOUS
<1>1. c = [a EXCEPT !.calls = calls]
  BY <1>a DEF PendingCompletions
<1>2. a = With(a, a.calls, a.byId, a.next)
  BY DEF IsAccumulator
<1>3. c.calls = calls /\ c.terminal = a.terminal /\ c.status = a.status
  <2>1. [With(a, a.calls, a.byId, a.next) EXCEPT !.calls = calls] = With(a, calls, a.byId, a.next)
    BY WithFields
  <2>2. c = With(a, calls, a.byId, a.next)
    BY <1>1, <1>2, <2>1
  <2> QED BY <2>2 DEF With
<1> QED BY <1>a, <1>3 DEF IsIncomplete

\* Every call is answered in the end, but those that an incomplete response leaves out.
LEMMA FitAnswers ==
  ASSUME NEW bl, NEW a, NEW said, Fit(bl, a, said), AreItems(turn.items),
         NEW read, read = Read(bl, PendingCompletions(a).out),
         NEW c, c = PendingCompletions(a).acc,
         NEW m \in DOMAIN c.calls, NEW r, r = c.calls[m], r.added \/ ~IsIncomplete(c)
  PROVE  IsAnswered(read, r)
<1>a. PICK items, call : items = turn.items /\ call = a.calls[m]
  OBVIOUS
<1>1. /\ IsSaid(items, said) /\ Knows(items, a, said) /\ AreItems(items)
      /\ a.calls \in Seq(ToolCallStates) /\ IsAccumulator(a)
  BY <1>a DEF Fit, Knows, IsAccumulator
<1>2. /\ IsIncomplete(c) = IsIncomplete(a) /\ m \in DOMAIN a.calls
      /\ r = IF IsPending(a, call) THEN Completed(call) ELSE call
  BY <1>a, <1>1, PendingAcc
<1>3. PICK i \in DOMAIN said : a.byId[items[i].id] = m
  BY <1>1, <1>2 DEF Knows
<1>4. call = RecordOf(items, a, i) /\ call \in ToolCallStates
  BY <1>a, <1>1, <1>2, <1>3 DEF RecordOf
<1>b. PICK p : Fits(bl, call, i, p)
  BY <1>a, <1>4 DEF Fit
<1>5. \A k, n \in DOMAIN a.calls : k # n => a.calls[k].item # a.calls[n].item
  <2> SUFFICES ASSUME NEW k \in DOMAIN a.calls, NEW n \in DOMAIN a.calls,
                      a.calls[k].item = a.calls[n].item
               PROVE  k = n
    OBVIOUS
  <2>1. PICK j \in DOMAIN said : a.byId[items[j].id] = k
    BY <1>1 DEF Knows
  <2>2. \A l \in DOMAIN a.calls : a.calls[l].item = items[j].id <=> l = a.byId[items[j].id]
    BY <1>1, KnownOnce
  <2> QED BY <2>1, <2>2
<1>6. PICK before, after : /\ AgreesAt(bl, before, ItemBlock(call))
                           /\ after = Read(before, LastSaid(a, call))
                           /\ AgreesAt(after, read, ItemBlock(call))
  BY <1>a, <1>1, <1>2, <1>5, PendingReads
<1>7. Fits(before, call, i, p)
  BY <1>b, <1>6, FitsAgrees
<1>8. CASE IsPending(a, call)
  <2>1. HasShown(before, call, p)
    BY <1>7 DEF Fits
  <2>2. r = Completed(call)
    BY <1>2, <1>8
  <2>3. IsAnswered(Read(before, LastSaid(a, call)), r) /\ ItemBlock(r) = ItemBlock(call)
    BY <1>4, <1>8, <2>1, <2>2, PendingIsAnswered
  <2> QED BY <1>6, <2>3, AnsweredAgrees
<1>9. CASE ~IsPending(a, call)
  <2>1. r = call /\ (r.added \/ ~IsIncomplete(a))
    BY <1>2, <1>9
  <2>2. IsAnswered(before, r)
    BY <1>4, <1>7, <1>9, <2>1, OtherIsAnswered
  <2>3. after = before
    BY <1>6, <1>9, ReadNothing DEF LastSaid
  <2> QED BY <1>6, <2>1, <2>2, <2>3, AnsweredAgrees
<1> QED BY <1>8, <1>9

\* The text that a writer held back is read before.
LEMMA FitText ==
  ASSUME NEW bl, NEW a, NEW said, Fit(bl, a, said), NEW read, KeepsBlocks(bl, read)
  PROVE  Fit(read, a, said)
<1>1. \A key : ~IsTextKey(key) => AgreesAt(bl, read, key)
  BY DEF KeepsBlocks, AgreesAt
<1>2. ASSUME NEW i \in DOMAIN said
      PROVE  Fits(read, RecordOf(turn.items, a, i), i, Size(i))
  <2>1. Fits(bl, RecordOf(turn.items, a, i), i, Size(i))
    BY DEF Fit
  <2>2. \A r : ~IsTextKey(ItemBlock(r))
    BY DEF ItemBlock, IsTextKey
  <2> QED BY <1>1, <2>1, <2>2, FitsAgrees
<1>3. ASSUME NEW i \in DOMAIN turn.items \ HeardOf(turn.items, progress),
             turn.items[i].kind = "call"
      PROVE  KeyOf(turn.items, i) \notin DOMAIN read
  <2>1. KeyOf(turn.items, i) \notin DOMAIN bl
    BY <1>3 DEF Fit
  <2> QED BY <2>1, KeyIsNotText DEF KeepsBlocks
<1> QED BY <1>2, <1>3 DEF Fit

LEMMA SayKeepsBlocks ==
  ASSUME NEW bl, NEW held, NEW buffer, NEW text, text = IF held THEN Say(None, buffer) ELSE <<>>
  PROVE  KeepsBlocks(bl, Read(bl, text)) /\ \E S : text \in Seq(S)
<1>1. text = <<>> \/ \E out : IsTextKey(out.key) /\ text = <<out>>
  <2>1. IsTextKey(Appends(TextBlock(None), None, buffer).key)
    BY DEF Appends, TextBlock, IsTextKey
  <2> QED BY <2>1 DEF Say
<1>2. KeepsBlocks(bl, Read(bl, text))
  BY <1>1, TextKeepsBlocks
<1>3. \E S : text \in Seq(S)
  <2>1. CASE text = <<>>
    <3>1. <<>> \in Seq({})
      OBVIOUS
    <3> QED BY <2>1, <3>1
  <2>2. ASSUME NEW out, text = <<out>> PROVE \E S : text \in Seq(S)
    <3>1. <<out>> \in Seq({out})
      OBVIOUS
    <3> QED BY <2>2, <3>1
  <2> QED BY <1>1, <2>1, <2>2
<1> QED BY <1>2, <1>3

LEMMA ReadBoth ==
  ASSUME NEW bl, NEW S, NEW s \in Seq(S), NEW U, NEW t \in Seq(U)
  PROVE  Read(bl, s \o t) = Read(Read(bl, s), t)
<1>1. s \in Seq(S \cup U) /\ t \in Seq(S \cup U)
  <2>1. S \subseteq S \cup U /\ U \subseteq S \cup U
    OBVIOUS
  <2> QED BY <2>1, SubSequence
<1> QED BY <1>1, ReadConcat

\* The end of a response: the text that was held back is read, and then the calls.
IsEnded(b, read) ==
  /\ \E told : Fit(read, b, told)
  /\ acc' = PendingCompletions(b).acc /\ blocks' = Read(read, PendingCompletions(b).out)
  /\ read = Read(blocks, IF tuple THEN Say(None, writer) ELSE <<>>)

LEMMA EndReads ==
  ASSUME StreamInv, phase = "streaming", dialect = "responses",
         Shows(turn.items, progress, acc, blocks), NEW type \in {"completed", "incomplete"},
         NEW event, event = LastEvent(type), Write(event)
  PROVE  AreItems(turn.items) /\ \E b, read : IsEnded(b, read)
<1>a. PICK b, text : b = Apply(acc, event) /\ text = IF tuple THEN Say(None, writer) ELSE <<>>
  OBVIOUS
<1>b. PICK step : step = ResponsesStep(b, writer, tuple, event)
  OBVIOUS
<1>c. PICK read, said : read = Read(blocks, text) /\ said = SaidOf(turn.items, progress)
  OBVIOUS
<1>1. IsTold(turn.items, progress) /\ Knows(turn.items, acc, said) /\ AreItems(turn.items)
  BY <1>c DEF StreamInv, IsTold
<1>2. Fit(read, acc, said)
  <2>1. Fit(blocks, acc, said)
    BY <1>1, <1>c, FitOfShows
  <2>2. KeepsBlocks(blocks, read)
    BY <1>a, <1>c, SayKeepsBlocks
  <2> QED BY <2>1, <2>2, FitText
<1>3. PICK told : Fit(read, b, told)
  BY <1>1, <1>2, <1>a, FitApply
<1>4. IsTerminal(event) /\ CallOf(b, event.item) = 0
  <2>1. event.type = type /\ event.item = NoItem
    BY LastEventIs
  <2>2. NoItem.kind = "none"
    BY DEF NoItem
  <2> QED BY <2>1, <2>2 DEF IsTerminal, CallOf
<1>5. acc' = PendingCompletions(b).acc /\ blocks' = Read(blocks, text \o PendingCompletions(b).out)
  <2>1. acc' = step.acc /\ blocks' = Read(blocks, step.out)
    BY <1>a, <1>b DEF Write
  <2>2. step.acc = PendingCompletions(b).acc /\ step.out = text \o PendingCompletions(b).out
    <3>1. /\ step.acc = PendingCompletions(b).acc
          /\ step.out = (IF tuple THEN Say(None, writer) ELSE <<>>) \o PendingCompletions(b).out
      BY <1>b, <1>4, ResponsesStepAtEnd
    <3> QED BY <1>a, <3>1
  <2> QED BY <2>1, <2>2
<1>6. Read(blocks, text \o PendingCompletions(b).out) = Read(read, PendingCompletions(b).out)
  <2>1. PICK S : text \in Seq(S)
    BY <1>a, SayKeepsBlocks
  <2>2. PICK U : PendingCompletions(b).out \in Seq(U)
    <3>1. b.calls \in Seq(ToolCallStates)
      BY <1>3 DEF Fit, Knows, IsAccumulator
    <3>2. PICK U, seqs : PendingCompletions(b).out = FlattenSeq(seqs) /\ seqs \in Seq(Seq(U))
      BY <3>1, PendingIs
    <3> QED BY <3>2, FlattenType
  <2> QED BY <1>c, <2>1, <2>2, ReadBoth
<1>7. IsEnded(b, read)
  BY <1>3, <1>5, <1>6, <1>a, <1>c DEF IsEnded
<1> QED BY <1>1, <1>7

LEMMA EndAnswers ==
  ASSUME StreamInv, phase = "streaming", dialect = "responses",
         Shows(turn.items, progress, acc, blocks), NEW type \in {"completed", "incomplete"},
         NEW event, event = LastEvent(type), Write(event),
         NEW m \in DOMAIN acc'.calls, acc'.calls[m].added \/ ~IsIncomplete(acc')
  PROVE  IsAnswered(blocks', acc'.calls[m])
<1>1. AreItems(turn.items)
  BY EndReads
<1>2. PICK b, read : IsEnded(b, read)
  BY EndReads
<1> QED BY <1>1, <1>2, FitAnswers DEF IsEnded

\* What the proof of ResponsesCallsMatch keeps besides StreamInv.
ResponsesInv ==
  /\ dialect = "responses" => IsIntroduced(turn.items)
  /\ dialect = "responses" /\ phase = "streaming" => Shows(turn.items, progress, acc, blocks)
  /\ ResponsesCallsMatch

\* What the theorem below takes from the upstream.
CallsAreIntroduced ==
  \A r \in Requests : r.dialect = "responses" => IsIntroduced(r.turn.items)

LEMMA ResponsesInitInv ==
  ASSUME CallsAreIntroduced, StreamInit
  PROVE  ResponsesInv
<1>1. dialect = "responses" => IsIntroduced(turn.items)
  BY DEF StreamInit, CallsAreIntroduced
<1>2. Shows(turn.items, progress, acc, blocks)
  <2>1. \A i \in DOMAIN turn.items :
          progress[i] = [added |-> FALSE, pieces |-> 0, whole |-> FALSE, done |-> FALSE]
    BY DEF StreamInit
  <2>2. acc = NewAccumulator /\ blocks = <<>>
    BY DEF StreamInit
  <2> QED BY <2>1, <2>2, ShowsNothing
<1>3. ResponsesCallsMatch
  BY DEF StreamInit, ResponsesCallsMatch
<1> QED BY <1>1, <1>2, <1>3 DEF ResponsesInv

LEMMA ResponsesNextInv == StreamInv /\ ResponsesInv /\ [StreamNext]_streamVars => ResponsesInv'
<1> SUFFICES ASSUME StreamInv, ResponsesInv, [StreamNext]_streamVars PROVE ResponsesInv'
  OBVIOUS
<1>1. ASSUME NEW event \in NextEvents, Receive(event) PROVE ResponsesInv'
  <2>1. /\ phase = "streaming" /\ Write(event) /\ dialect' = dialect /\ turn' = turn
        /\ phase' = IF IsTerminal(event) THEN "ended" ELSE phase
    BY <1>1 DEF Receive
  <2>2. dialect' = "responses" => IsIntroduced(turn'.items)
    BY <2>1 DEF ResponsesInv
  <2>3. CASE dialect # "responses"
    BY <2>1, <2>3 DEF ResponsesInv, ResponsesCallsMatch
  <2>4. ASSUME dialect = "responses", NEW i \in DOMAIN progress, NEW type \in NextTypes(i),
               event = ItemEvent(i, type)
        PROVE  ResponsesInv'
    <3>1. IsTelled(i, type, event, progress') /\ ~IsTerminal(event)
      BY <1>1, <2>4, TellingIs
    <3>2. Shows(turn.items, progress, acc, blocks) /\ i \in DOMAIN turn.items
      BY <2>1, <2>4, <3>1 DEF ResponsesInv, IsTelled
    <3>3. Shows(turn.items, progress', acc', blocks')
      <4>1. CASE turn.items[i].kind = "call"
        <5>1. Introduced(turn.items[i])
          BY <2>4, <3>2, <4>1 DEF ResponsesInv, IsIntroduced
        <5> QED BY <2>1, <2>4, <3>1, <3>2, <4>1, <5>1, ShowsTell
      <4>2. CASE turn.items[i].kind # "call"
        BY <2>1, <2>4, <3>1, <3>2, <4>2, ShowsTellOther
      <4> QED BY <4>1, <4>2
    <3>4. Shows(turn'.items, progress', acc', blocks')
      BY <2>1, <3>3
    <3>5. phase' = "streaming"
      BY <2>1, <3>1
    <3>6. ResponsesCallsMatch'
      BY <3>5 DEF ResponsesCallsMatch
    <3> QED BY <2>2, <3>4, <3>6 DEF ResponsesInv
  <2>5. ASSUME dialect = "responses", NEW type \in {"completed", "incomplete"},
               event = LastEvent(type)
        PROVE  ResponsesInv'
    <3>1. phase' = "ended"
      BY <1>1, <2>5, EndingIs
    <3>2. Shows(turn.items, progress, acc, blocks)
      BY <2>1, <2>5 DEF ResponsesInv
    <3>3. ASSUME NEW m \in DOMAIN acc'.calls, acc'.calls[m].added \/ ~IsIncomplete(acc')
          PROVE  IsAnswered(blocks', acc'.calls[m])
      BY <2>1, <2>5, <3>2, <3>3, EndAnswers
    <3>4. ResponsesCallsMatch'
      BY <3>3 DEF ResponsesCallsMatch, IsAnswered, ItemBlock, CallShown
    <3> QED BY <2>2, <3>1, <3>4 DEF ResponsesInv
  <2> QED BY <2>3, <2>4, <2>5, EventIs
<1>2. CASE Break
  <2>1. /\ phase' = "failed" /\ dialect' = dialect /\ turn' = turn
    BY <1>2 DEF Break
  <2> QED BY <2>1 DEF ResponsesInv, ResponsesCallsMatch
<1>3. CASE UNCHANGED streamVars
  <2>1. /\ dialect' = dialect /\ turn' = turn /\ phase' = phase /\ progress' = progress
        /\ acc' = acc /\ blocks' = blocks
    BY <1>3 DEF streamVars
  <2>2. ResponsesCallsMatch' = ResponsesCallsMatch
    BY <2>1 DEF ResponsesCallsMatch
  <2>3. /\ dialect' = "responses" => IsIntroduced(turn'.items)
        /\ dialect' = "responses" /\ phase' = "streaming"
             => Shows(turn'.items, progress', acc', blocks')
    BY <2>1 DEF ResponsesInv
  <2> QED BY <2>2, <2>3 DEF ResponsesInv
<1> QED BY <1>1, <1>2, <1>3 DEF StreamNext

(***************************************************************************)
(* A finished Responses stream announced, stated and completed every call  *)
(* of its final output, with the ids and arguments the output has, and of  *)
(* an incomplete one the calls that did not complete stay open             *)
(* (ResponsesStreamEventsForEvent, PendingResponseToolCallCompletionEvents)*)
(* for any turns in which the first event about a call tells its call id.  *)
(***************************************************************************)
THEOREM FinishedStreamsShowTheirCalls ==
  CallsAreIntroduced => (StreamSpec => []ResponsesCallsMatch)
<1> SUFFICES ASSUME CallsAreIntroduced PROVE StreamSpec => []ResponsesCallsMatch
  OBVIOUS
<1>1. StreamInit => StreamInv /\ ResponsesInv
  BY StreamInitInv, ResponsesInitInv
<1>2. StreamInv /\ ResponsesInv /\ [StreamNext]_streamVars => (StreamInv /\ ResponsesInv)'
  BY StreamNextInv, ResponsesNextInv
<1>3. ResponsesInv => ResponsesCallsMatch
  BY DEF ResponsesInv
<1> QED BY <1>1, <1>2, <1>3, PTL DEF StreamSpec

-----------------------------------------------------------------------------
(* The writer of a Chat Completions stream.                                *)

ChatFields ==
  {"index", "named", "sent", "next", "hash", "image", "nextImage", "buffer", "textSent"}

IsChatWriter(w) ==
  /\ DOMAIN w = ChatFields
  /\ w.index \in [Ids -> Int] /\ w.named \in SUBSET Ids /\ w.sent \in [Ids -> Nat] /\ w.next \in Nat

\* Two writers that said the same of the calls.
SameChunks(v, w) ==
  /\ w.index = v.index /\ w.named = v.named /\ w.sent = v.sent /\ w.next = v.next
  /\ IsChatWriter(v) => IsChatWriter(w)

LEMMA SameChunksTwice ==
  ASSUME NEW u, NEW v, NEW w, SameChunks(u, v), SameChunks(v, w)
  PROVE  SameChunks(u, w)
BY DEF SameChunks

LEMMA SameChunksSelf ==
  ASSUME NEW w
  PROVE  SameChunks(w, w)
BY DEF SameChunks

LEMMA ChatFieldOfOther ==
  ASSUME NEW w, IsChatWriter(w), NEW x, NEW f \in {"hash", "image", "nextImage", "buffer", "textSent"},
         NEW v, v = [w EXCEPT ![f] = x]
  PROVE  SameChunks(w, v)
<1>1. DOMAIN w = ChatFields /\ DOMAIN v = DOMAIN w
  BY DEF IsChatWriter
<1>2. v.index = w.index /\ v.named = w.named /\ v.sent = w.sent /\ v.next = w.next
  BY <1>1 DEF ChatFields
<1> QED BY <1>1, <1>2 DEF SameChunks, IsChatWriter

\* What a client has of the n-th call.
ChatHas(w, bl, n, r) ==
  /\ w.index[r.call] = n - 1 /\ r.call \in w.named /\ w.sent[r.call] = r.size
  /\ CallBlock(n - 1) \in DOMAIN bl
  /\ bl[CallBlock(n - 1)] = CallShown(r.call, r.size, FALSE)

\* What a chunk changes of the writer: what it knows of one call.
Chunked(v, w, id, n, size) ==
  /\ IsChatWriter(v) /\ v.index[id] = n - 1 /\ id \in v.named /\ v.sent[id] = size
  /\ \A other \in Ids : other # id =>
       /\ v.index[other] = w.index[other] /\ v.sent[other] = w.sent[other]
       /\ other \in v.named <=> other \in w.named

\* The parts of a chunk.
ChunkWriter(v, w, id, size, fresh) ==
  /\ DOMAIN v = ChatFields
  /\ v.index = IF w.index[id] >= 0 THEN w.index ELSE [w.index EXCEPT ![id] = w.next]
  /\ v.named = w.named \cup {id}
  /\ v.sent = [w.sent EXCEPT ![id] = IF fresh > 0 THEN size ELSE w.sent[id]]
  /\ v.next = IF w.index[id] >= 0 THEN w.next ELSE w.next + 1

ChunkOut(w, id, key, fresh) ==
  (IF id \notin w.named THEN <<Opens(key, "call", id)>> ELSE <<>>)
  \o (IF fresh > 0 THEN <<Appends(key, id, fresh)>> ELSE <<>>)

IsNamed(call) == call.named = TRUE

LEMMA ChunkIs ==
  ASSUME NEW w, IsChatWriter(w), NEW r \in ToolCallStates, IsNamed(r),
         NEW v, v = WriteToolChunk(w, r).writer, NEW out, out = WriteToolChunk(w, r).out,
         NEW fresh, fresh = r.size - w.sent[r.call], NEW key, key = CallBlock(IndexOf(w, r.call))
  PROVE  /\ ChunkWriter(v, w, r.call, r.size, fresh)
         /\ out = ChunkOut(w, r.call, key, fresh)
<1>a. PICK id : id = r.call
  OBVIOUS
<1>1. id \in Ids /\ r.size \in Nat
  BY <1>a, RecordFields
<1>2. DOMAIN w = ChatFields /\ w.index \in [Ids -> Int] /\ w.sent \in [Ids -> Nat]
  BY DEF IsChatWriter
<1>b. PICK u : u = Numbered(w, id)
  OBVIOUS
<1>3. /\ DOMAIN u = ChatFields /\ u.named = w.named /\ u.sent = w.sent
      /\ u.index = IF w.index[id] >= 0 THEN w.index ELSE [w.index EXCEPT ![id] = w.next]
      /\ u.next = IF w.index[id] >= 0 THEN w.next ELSE w.next + 1
  <2>1. CASE w.index[id] >= 0
    BY <1>2, <1>b, <2>1 DEF Numbered
  <2>2. CASE ~(w.index[id] >= 0)
    <3>1. u = [w EXCEPT !.index = [w.index EXCEPT ![id] = w.next], !.next = w.next + 1]
      BY <1>b, <2>2 DEF Numbered
    <3>2. DOMAIN u = DOMAIN w
      BY <3>1
    <3>3. u.named = w.named /\ u.sent = w.sent
      BY <1>2, <3>1 DEF ChatFields
    <3>4. u.index = [w.index EXCEPT ![id] = w.next] /\ u.next = w.next + 1
      BY <1>2, <3>1 DEF ChatFields
    <3> QED BY <1>2, <2>2, <3>2, <3>3, <3>4
  <2> QED BY <2>1, <2>2
<1>c. PICK size : size = IF fresh > 0 THEN r.size ELSE w.sent[id]
  OBVIOUS
<1>d. PICK sent, named : sent = [w.sent EXCEPT ![id] = size] /\ named = w.named \cup {id}
  OBVIOUS
<1>4. v = [u EXCEPT !.named = u.named \cup {id},
                    !.sent = [u.sent EXCEPT ![id] = IF fresh > 0 THEN r.size ELSE u.sent[id]]]
  BY <1>a, <1>b DEF WriteToolChunk, IsNamed
<1>5. v = [u EXCEPT !.named = named, !.sent = sent]
  BY <1>3, <1>4, <1>c, <1>d
<1>6. DOMAIN v = ChatFields
  BY <1>3, <1>5
<1>7. v.index = u.index /\ v.next = u.next /\ v.named = named /\ v.sent = sent
  BY <1>3, <1>5 DEF ChatFields
<1>8. ChunkWriter(v, w, id, r.size, fresh)
  BY <1>3, <1>6, <1>7, <1>c, <1>d DEF ChunkWriter
<1>9. out = ChunkOut(w, id, key, fresh)
  BY <1>a DEF WriteToolChunk, ChunkOut, IsNamed
<1> QED BY <1>a, <1>8, <1>9

\* A chunk of a call that the client has: what is new of its arguments.
LEMMA ChunkGoesOn ==
  ASSUME NEW w, IsChatWriter(w), NEW r \in ToolCallStates, IsNamed(r),
         NEW n \in Nat \ {0}, NEW bl, NEW old \in ToolCallStates, ChatHas(w, bl, n, old),
         old.call = r.call, old.size <= r.size,
         NEW v, v = WriteToolChunk(w, r).writer, NEW out, out = WriteToolChunk(w, r).out
  PROVE  /\ Chunked(v, w, r.call, n, r.size) /\ v.next = w.next
         /\ Changes(bl, Read(bl, out), CallBlock(n - 1), CallShown(r.call, r.size, FALSE))
<1>a. PICK id, fresh, key : id = r.call /\ fresh = r.size - w.sent[id] /\ key = CallBlock(n - 1)
  OBVIOUS
<1>1. id \in Ids /\ r.size \in Nat /\ old.size \in Nat
  BY <1>a, RecordFields
<1>2. w.index[id] = n - 1 /\ id \in w.named /\ w.sent[id] = old.size
      /\ key \in DOMAIN bl /\ bl[key] = CallShown(id, old.size, FALSE)
  BY <1>a DEF ChatHas
<1>3. w.index[id] >= 0 /\ fresh \in Nat /\ old.size + fresh = r.size /\ fresh = r.size - old.size
  <2>1. \A x, y \in Nat : x <= y => y - x \in Nat /\ x + (y - x) = y
    OBVIOUS
  <2>2. n - 1 >= 0
    OBVIOUS
  <2> QED BY <1>a, <1>1, <1>2, <2>1, <2>2
<1>4. /\ DOMAIN v = ChatFields /\ v.index = w.index /\ v.named = w.named \cup {id}
      /\ v.sent = [w.sent EXCEPT ![id] = IF fresh > 0 THEN r.size ELSE w.sent[id]]
      /\ v.next = w.next
      /\ out = <<>> \o (IF fresh > 0 THEN <<Appends(key, id, fresh)>> ELSE <<>>)
  <2>1. key = CallBlock(IndexOf(w, r.call))
    BY <1>a, <1>2, <1>3 DEF IndexOf
  <2>2. fresh = r.size - w.sent[r.call]
    BY <1>a
  <2>3. ChunkWriter(v, w, r.call, r.size, fresh) /\ out = ChunkOut(w, r.call, key, fresh)
    BY <2>1, <2>2, ChunkIs
  <2>4. ChunkWriter(v, w, id, r.size, fresh) /\ out = ChunkOut(w, id, key, fresh)
    BY <1>a, <2>3
  <2> QED BY <1>2, <1>3, <2>4 DEF ChunkWriter, ChunkOut
<1>5. w.index \in [Ids -> Int] /\ w.named \in SUBSET Ids /\ w.sent \in [Ids -> Nat] /\ w.next \in Nat
  BY DEF IsChatWriter
<1>b. PICK sent : sent = [w.sent EXCEPT ![id] = IF fresh > 0 THEN r.size ELSE w.sent[id]]
  OBVIOUS
<1>6. sent \in [Ids -> Nat] /\ sent[id] = r.size /\ \A other \in Ids : other # id => sent[other] = w.sent[other]
  <2>1. (IF fresh > 0 THEN r.size ELSE w.sent[id]) = r.size
    BY <1>1, <1>2, <1>3
  <2> QED BY <1>1, <1>5, <1>b, <2>1
<1>7. /\ v.index = w.index /\ v.named = w.named \cup {id} /\ v.sent = sent /\ v.next = w.next
      /\ DOMAIN v = ChatFields
  BY <1>4, <1>b
<1>8. Chunked(v, w, id, n, r.size)
  <2>1. IsChatWriter(v)
    <3>1. v.named \in SUBSET Ids
      BY <1>1, <1>5, <1>7
    <3> QED BY <1>5, <1>6, <1>7, <3>1 DEF IsChatWriter
  <2> QED BY <1>2, <1>6, <1>7, <2>1 DEF Chunked
<1>9. Changes(bl, Read(bl, out), key, CallShown(id, r.size, FALSE))
  <2>1. CASE fresh > 0
    <3>1. out = <<Appends(key, id, fresh)>>
      BY <1>4, <2>1
    <3>2. Read(bl, out) = ReadOne(bl, Appends(key, id, fresh))
      BY <3>1, ReadOneOnly
    <3>3. Changes(bl, ReadOne(bl, Appends(key, id, fresh)), key, CallShown(id, old.size + fresh, FALSE))
      BY <1>2, AppendsReads
    <3> QED BY <1>3, <3>2, <3>3
  <2>2. CASE ~(fresh > 0)
    <3>1. out = <<>> /\ r.size = old.size
      BY <1>1, <1>3, <1>4, <2>2
    <3>2. Read(bl, out) = bl
      BY <3>1, ReadNothing
    <3> QED BY <1>2, <3>1, <3>2 DEF Changes
  <2> QED BY <2>1, <2>2
<1> QED BY <1>a, <1>7, <1>8, <1>9

\* Nothing was said to the client of a call.
IsUnsaid(w, id) == w.index[id] = -1 /\ id \notin w.named /\ w.sent[id] = 0

\* The n-th block is the next one.
IsFree(w, bl, n) == w.next = n - 1 /\ CallBlock(n - 1) \notin DOMAIN bl

\* The first chunk of a call names it.
LEMMA ChunkBegins ==
  ASSUME NEW w, IsChatWriter(w), NEW r \in ToolCallStates, IsNamed(r),
         NEW n \in Nat \ {0}, NEW bl, IsFree(w, bl, n), IsUnsaid(w, r.call),
         NEW v, v = WriteToolChunk(w, r).writer, NEW out, out = WriteToolChunk(w, r).out
  PROVE  /\ Chunked(v, w, r.call, n, r.size) /\ v.next = w.next + 1
         /\ Changes(bl, Read(bl, out), CallBlock(n - 1), CallShown(r.call, r.size, FALSE))
<1>a. PICK id, fresh, key : id = r.call /\ fresh = r.size - w.sent[id] /\ key = CallBlock(n - 1)
  OBVIOUS
<1>1. id \in Ids /\ r.size \in Nat
  BY <1>a, RecordFields
<1>2. w.index[id] = -1 /\ id \notin w.named /\ w.sent[id] = 0 /\ fresh = r.size
      /\ key \notin DOMAIN bl /\ ~(w.index[id] >= 0) /\ w.next = n - 1 /\ w.next + 1 = n
  <2>1. w.index[id] = -1 /\ id \notin w.named /\ w.sent[id] = 0
    BY <1>a DEF IsUnsaid
  <2>2. w.next = n - 1 /\ key \notin DOMAIN bl
    BY <1>a DEF IsFree
  <2> QED BY <1>a, <1>1, <2>1, <2>2
<1>3. /\ DOMAIN v = ChatFields /\ v.index = [w.index EXCEPT ![id] = w.next]
      /\ v.named = w.named \cup {id} /\ v.next = n
      /\ v.sent = [w.sent EXCEPT ![id] = IF fresh > 0 THEN r.size ELSE w.sent[id]]
      /\ out = <<Opens(key, "call", id)>> \o (IF fresh > 0 THEN <<Appends(key, id, fresh)>> ELSE <<>>)
  <2>1. key = CallBlock(IndexOf(w, r.call))
    BY <1>a, <1>2 DEF IndexOf
  <2>2. fresh = r.size - w.sent[r.call]
    BY <1>a
  <2>3. ChunkWriter(v, w, r.call, r.size, fresh) /\ out = ChunkOut(w, r.call, key, fresh)
    BY <2>1, <2>2, ChunkIs
  <2>4. ChunkWriter(v, w, id, r.size, fresh) /\ out = ChunkOut(w, id, key, fresh)
    BY <1>a, <2>3
  <2> QED BY <1>2, <2>4 DEF ChunkWriter, ChunkOut
<1>4. w.index \in [Ids -> Int] /\ w.named \in SUBSET Ids /\ w.sent \in [Ids -> Nat] /\ w.next \in Nat
  BY DEF IsChatWriter
<1>b. PICK sent, index : /\ sent = [w.sent EXCEPT ![id] = IF fresh > 0 THEN r.size ELSE w.sent[id]]
                         /\ index = [w.index EXCEPT ![id] = w.next]
  OBVIOUS
<1>5. sent \in [Ids -> Nat] /\ sent[id] = r.size /\ \A other \in Ids : other # id => sent[other] = w.sent[other]
  <2>1. (IF fresh > 0 THEN r.size ELSE w.sent[id]) = r.size
    BY <1>a, <1>1, <1>2
  <2> QED BY <1>1, <1>4, <1>b, <2>1
<1>6. index \in [Ids -> Int] /\ index[id] = n - 1 /\ \A other \in Ids : other # id => index[other] = w.index[other]
  BY <1>1, <1>2, <1>4, <1>b
<1>7. /\ v.index = index /\ v.named = w.named \cup {id} /\ v.sent = sent /\ v.next = n
      /\ DOMAIN v = ChatFields
  BY <1>3, <1>b
<1>8. Chunked(v, w, id, n, r.size)
  <2>1. IsChatWriter(v)
    <3>1. v.named \in SUBSET Ids
      BY <1>1, <1>4, <1>7
    <3> QED BY <1>5, <1>6, <1>7, <3>1 DEF IsChatWriter
  <2> QED BY <1>5, <1>6, <1>7, <2>1 DEF Chunked
<1>c. PICK open, piece : open = Opens(key, "call", id) /\ piece = Appends(key, id, fresh)
  OBVIOUS
<1>9. Changes(bl, ReadOne(bl, open), key, CallShown(id, 0, FALSE))
  BY <1>2, <1>c, OpensReads
<1>10. Changes(bl, Read(bl, out), key, CallShown(id, r.size, FALSE))
  <2>1. CASE fresh > 0
    <3>a. PICK S : S = {open, piece}
      OBVIOUS
    <3>c. PICK first : first = <<open>>
      OBVIOUS
    <3>1. out = first \o <<piece>> /\ first \in Seq(S) /\ piece \in S
      BY <1>3, <1>c, <2>1, <3>a, <3>c
    <3>2. Read(bl, out) = ReadOne(Read(bl, first), piece)
      BY <3>1, ReadNext
    <3>3. Read(bl, first) = ReadOne(bl, open)
      BY <3>c, ReadOneOnly
    <3>b. PICK read : read = ReadOne(bl, open)
      OBVIOUS
    <3>4. key \in DOMAIN read /\ read[key] = CallShown(id, 0, FALSE)
      BY <1>9, <3>b DEF Changes
    <3>5. Changes(read, ReadOne(read, piece), key, CallShown(id, 0 + fresh, FALSE))
      BY <1>c, <3>4, AppendsReads
    <3>6. 0 + fresh = r.size
      BY <1>1, <1>2
    <3>7. Changes(bl, ReadOne(read, piece), key, CallShown(id, r.size, FALSE))
      BY <1>9, <3>b, <3>5, <3>6 DEF Changes
    <3> QED BY <3>2, <3>3, <3>b, <3>7
  <2>2. CASE ~(fresh > 0)
    <3>1. out = <<open>>
      <4>1. out = <<open>> \o <<>>
        BY <1>3, <1>c, <2>2
      <4>2. <<open>> \in Seq({open})
        OBVIOUS
      <4> QED BY <4>1, <4>2
    <3>3. r.size = 0
      BY <1>1, <1>2, <2>2
    <3>2. Read(bl, out) = ReadOne(bl, open)
      BY <3>1, ReadOneOnly
    <3> QED BY <1>9, <3>2, <3>3
  <2> QED BY <2>1, <2>2
<1> QED BY <1>a, <1>2, <1>7, <1>8, <1>10

-----------------------------------------------------------------------------
(* What a Chat Completions client reads beside the calls.                  *)

IsBlock(b) ==
  b = [kind |-> b.kind, id |-> b.id, size |-> b.size, opened |-> b.opened, closed |-> b.closed]

\* The blocks of a client that has N calls.
HasCalls(bl, N) ==
  \A key \in DOMAIN bl :
    /\ IsBlock(bl[key]) /\ bl[key].kind = key[1]
    /\ key[1] = "call" => \E n \in 1 .. N : key = CallBlock(n - 1)

\* Messages about texts and images.
IsOther(out) == out.kind = out.key[1] /\ out.key[1] # "call" /\ out.do \in {"append", "state"}

AreOthers(outs) == \E S : outs \in Seq(S) /\ \A out \in S : IsOther(out)

LEMMA CallBlockIs ==
  ASSUME NEW n
  PROVE  CallBlock(n)[1] = "call"
BY DEF CallBlock

LEMMA NoOthers == AreOthers(<<>>)
<1>1. PICK S : S = {}
  OBVIOUS
<1>2. <<>> \in Seq(S) /\ \A out \in S : IsOther(out)
  BY <1>1
<1> QED BY <1>2 DEF AreOthers

LEMMA OneOther ==
  ASSUME NEW out, IsOther(out)
  PROVE  AreOthers(<<out>>)
<1>1. PICK S : S = {out}
  OBVIOUS
<1>2. <<out>> \in Seq(S) /\ \A o \in S : IsOther(o)
  BY <1>1
<1> QED BY <1>2 DEF AreOthers

LEMMA BothOthers ==
  ASSUME NEW s, NEW t, AreOthers(s), AreOthers(t)
  PROVE  AreOthers(s \o t)
<1>1. PICK S : s \in Seq(S) /\ \A out \in S : IsOther(out)
  BY DEF AreOthers
<1>2. PICK U : t \in Seq(U) /\ \A out \in U : IsOther(out)
  BY DEF AreOthers
<1>3. s \in Seq(S \cup U) /\ t \in Seq(S \cup U)
  <2>1. S \subseteq S \cup U /\ U \subseteq S \cup U
    OBVIOUS
  <2> QED BY <1>1, <1>2, <2>1, SubSequence
<1>4. s \o t \in Seq(S \cup U)
  BY <1>3
<1>5. \A out \in S \cup U : IsOther(out)
  BY <1>1, <1>2
<1> QED BY <1>4, <1>5 DEF AreOthers

LEMMA OtherReads ==
  ASSUME NEW bl, NEW N, HasCalls(bl, N), NEW out, IsOther(out)
  PROVE  HasCalls(ReadOne(bl, out), N)
<1>a. PICK read, key : read = ReadOne(bl, out) /\ key = out.key
  OBVIOUS
<1>1. PICK block : /\ Changes(bl, read, key, block)
                   /\ block = LET old == IF out.key \in DOMAIN bl THEN bl[out.key]
                                         ELSE Unopened(out)
                              IN CASE out.do = "open" -> [old EXCEPT !.opened = @ + 1, !.kind = out.kind,
                                                                     !.id = out.id]
                                   [] out.do = "append" -> [old EXCEPT !.size = @ + out.size]
                                   [] out.do = "state" -> [old EXCEPT !.size = out.size]
                                   [] out.do = "close" -> [old EXCEPT !.closed = TRUE, !.id = out.id]
  BY <1>a, ReadOneIs
<1>b. PICK old : old = IF key \in DOMAIN bl THEN bl[key] ELSE Unopened(out)
  OBVIOUS
<1>2. IsBlock(old) /\ old.kind = key[1]
  <2>1. CASE key \in DOMAIN bl
    BY <1>b, <2>1 DEF HasCalls
  <2>2. CASE key \notin DOMAIN bl
    <3>1. old = Unopened(out) /\ out.kind = key[1]
      BY <1>a, <1>b, <2>2 DEF IsOther
    <3> QED BY <3>1 DEF Unopened, IsBlock
  <2> QED BY <2>1, <2>2
<1>3. \E size : block = [old EXCEPT !.size = size]
  <2>1. CASE out.do = "append"
    <3>1. block = [old EXCEPT !.size = old.size + out.size]
      BY <1>1, <1>a, <1>b, <2>1
    <3> QED BY <3>1
  <2>2. CASE out.do = "state"
    <3>1. block = [old EXCEPT !.size = out.size]
      BY <1>1, <1>a, <1>b, <2>2
    <3> QED BY <3>1
  <2> QED BY <2>1, <2>2 DEF IsOther
<1>4. IsBlock(block) /\ block.kind = key[1]
  <2>1. PICK size : block = [old EXCEPT !.size = size]
    BY <1>3
  <2>2. \A k, i, s, o, c : LET b == [kind |-> k, id |-> i, size |-> s, opened |-> o, closed |-> c]
                           IN /\ IsBlock([b EXCEPT !.size = size])
                              /\ [b EXCEPT !.size = size].kind = k
    BY DEF IsBlock
  <2>3. old = [kind |-> old.kind, id |-> old.id, size |-> old.size, opened |-> old.opened,
               closed |-> old.closed]
    BY <1>2 DEF IsBlock
  <2>4. IsBlock([old EXCEPT !.size = size]) /\ [old EXCEPT !.size = size].kind = old.kind
    BY <2>2, <2>3
  <2> QED BY <1>2, <2>1, <2>4
<1>5. key[1] # "call"
  BY <1>a DEF IsOther
<1>6. ASSUME NEW k \in DOMAIN read
      PROVE  /\ IsBlock(read[k]) /\ read[k].kind = k[1]
             /\ k[1] = "call" => \E n \in 1 .. N : k = CallBlock(n - 1)
  <2>1. CASE k = key
    BY <1>1, <1>4, <1>5, <2>1 DEF Changes
  <2>2. CASE k # key
    <3>1. k \in DOMAIN bl /\ read[k] = bl[k]
      BY <1>1, <2>2 DEF Changes
    <3> QED BY <3>1 DEF HasCalls
  <2> QED BY <2>1, <2>2
<1> QED BY <1>a, <1>6 DEF HasCalls

\* They leave the calls alone.
LEMMA OthersRead ==
  ASSUME NEW bl, NEW N, HasCalls(bl, N), NEW outs, AreOthers(outs)
  PROVE  /\ HasCalls(Read(bl, outs), N)
         /\ \A n : AgreesAt(bl, Read(bl, outs), CallBlock(n))
<1>1. PICK S : outs \in Seq(S) /\ \A out \in S : IsOther(out)
  BY DEF AreOthers
<1>2. ASSUME NEW n PROVE AgreesAt(bl, Read(bl, outs), CallBlock(n))
  <2>1. \A out \in S : out.key # CallBlock(n)
    BY <1>1, CallBlockIs DEF IsOther
  <2> QED BY <1>1, <2>1, ReadAgrees
<1>3. PICK x : IsReading(x, bl, outs) /\ Read(bl, outs) = x[Len(outs)]
  BY <1>1, ReadIs
<1>4. Len(outs) \in Nat /\ \A n \in 1 .. Len(outs) : outs[n] \in S
  BY <1>1
<1> DEFINE T == {n \in Nat : n <= Len(outs) => HasCalls(x[n], N)}
<1>5. 0 \in T
  BY <1>3 DEF IsReading
<1>6. ASSUME NEW n \in Nat, n \in T PROVE n + 1 \in T
  <2> SUFFICES ASSUME n + 1 <= Len(outs) PROVE HasCalls(x[n + 1], N)
    OBVIOUS
  <2>1. n <= Len(outs) /\ n + 1 \in 1 .. Len(outs) /\ n + 1 - 1 = n
    BY <1>4
  <2>2. HasCalls(x[n], N)
    BY <1>6, <2>1
  <2>3. x[n + 1] = ReadOne(x[n], outs[n + 1])
    BY <1>3, <2>1 DEF IsReading
  <2>4. IsOther(outs[n + 1])
    BY <1>1, <1>4, <2>1
  <2> QED BY <2>2, <2>3, <2>4, OtherReads
<1>7. Len(outs) \in T
  <2> HIDE DEF T
  <2>1. Nat \subseteq T
    BY <1>5, <1>6, Induction
  <2> QED BY <1>4, <2>1
<1>8. HasCalls(Read(bl, outs), N)
  BY <1>3, <1>4, <1>7
<1> QED BY <1>2, <1>8

\* A message about a call keeps the client's blocks those of its calls.
LEMMA CallKeeps ==
  ASSUME NEW bl, NEW M \in Nat, HasCalls(bl, M), NEW N \in Nat, M <= N, NEW n \in 1 .. N,
         NEW id, NEW size, NEW read, Changes(bl, read, CallBlock(n - 1), CallShown(id, size, FALSE))
  PROVE  HasCalls(read, N)
<1>a. PICK key, block : key = CallBlock(n - 1) /\ block = CallShown(id, size, FALSE)
  OBVIOUS
<1>1. IsBlock(block) /\ block.kind = "call" /\ key[1] = "call"
  BY <1>a, CallBlockIs DEF CallShown, IsBlock
<1>2. ASSUME NEW k \in DOMAIN read
      PROVE  /\ IsBlock(read[k]) /\ read[k].kind = k[1]
             /\ k[1] = "call" => \E m \in 1 .. N : k = CallBlock(m - 1)
  <2>1. CASE k = key
    BY <1>1, <1>a, <2>1 DEF Changes
  <2>2. CASE k # key
    <3>1. k \in DOMAIN bl /\ read[k] = bl[k]
      BY <1>a, <2>2 DEF Changes
    <3>2. /\ IsBlock(bl[k]) /\ bl[k].kind = k[1]
          /\ k[1] = "call" => \E m \in 1 .. M : k = CallBlock(m - 1)
      BY <3>1 DEF HasCalls
    <3>3. 1 .. M \subseteq 1 .. N
      OBVIOUS
    <3> QED BY <3>1, <3>2, <3>3
  <2> QED BY <2>1, <2>2
<1> QED BY <1>2 DEF HasCalls

-----------------------------------------------------------------------------
(* The images and the text of a Chat Completions stream.                   *)

LEMMA ImageShows ==
  ASSUME NEW w, IsChatWriter(w), NEW item, NEW shown, shown = ShowImage(w, item)
  PROVE  SameChunks(w, shown.writer) /\ AreOthers(shown.out)
<1>a. PICK position : position = IF w.image[item.id] >= 0 THEN w.image[item.id] ELSE w.nextImage
  OBVIOUS
<1>1. CASE item.size = 0 \/ w.hash[item.id] = item.size
  <2>1. shown = [writer |-> w, out |-> <<>>]
    BY <1>1 DEF ShowImage
  <2>2. shown.writer = w /\ shown.out = <<>>
    BY <2>1
  <2> QED BY <2>2, SameChunksSelf, NoOthers
<1>2. CASE ~(item.size = 0 \/ w.hash[item.id] = item.size)
  <2>a. PICK hash, image, next, out :
          /\ hash = [w.hash EXCEPT ![item.id] = item.size]
          /\ image = [w.image EXCEPT ![item.id] = position]
          /\ next = (IF position = w.nextImage THEN w.nextImage + 1 ELSE w.nextImage)
          /\ out = States(<<"image", position>>, item.id, item.size)
    OBVIOUS
  <2>b. PICK t, u, v : /\ t = [w EXCEPT !.hash = hash] /\ u = [t EXCEPT !.image = image]
                       /\ v = [u EXCEPT !.nextImage = next]
    OBVIOUS
  <2>1. shown = [writer |-> [w EXCEPT !.hash[item.id] = item.size, !.image[item.id] = position,
                                      !.nextImage = IF position = @ THEN @ + 1 ELSE @],
                 out |-> <<out>>]
    BY <1>a, <1>2, <2>a DEF ShowImage
  <2>2. [w EXCEPT !.hash[item.id] = item.size, !.image[item.id] = position,
                  !.nextImage = IF position = @ THEN @ + 1 ELSE @]
          = [w EXCEPT !.hash = hash, !.image = image, !.nextImage = next]
    BY <2>a
  <2>3. v = [w EXCEPT !.hash = hash, !.image = image, !.nextImage = next]
    BY <2>b
  <2>4. shown.writer = v /\ shown.out = <<out>>
    BY <2>1, <2>2, <2>3
  <2>5. SameChunks(w, t)
    BY <2>b, ChatFieldOfOther
  <2>6. SameChunks(t, u)
    <3>1. IsChatWriter(t)
      BY <2>5 DEF SameChunks
    <3> QED BY <2>b, <3>1, ChatFieldOfOther
  <2>7. SameChunks(u, v)
    <3>1. IsChatWriter(u)
      BY <2>5, <2>6 DEF SameChunks
    <3> QED BY <2>b, <3>1, ChatFieldOfOther
  <2>8. SameChunks(w, v)
    BY <2>5, <2>6, <2>7, SameChunksTwice
  <2>9. IsOther(out)
    <3>1. <<"image", position>>[1] = "image"
      OBVIOUS
    <3> QED BY <2>a, <3>1 DEF States, IsOther
  <2> QED BY <2>4, <2>8, <2>9, OneOther
<1> QED BY <1>1, <1>2

\* The writer after each of the images.
ShowNext(step, item) ==
  [writer |-> ShowImage(step.writer, item).writer,
   out |-> step.out \o ShowImage(step.writer, item).out]

IsShowing(x, base, items) ==
  /\ x[0] = base
  /\ \A n \in 1 .. Len(items) : x[n] = ShowNext(x[n - 1], items[n])

\* The fold that ShowImages is defined by.
FoldsShowing(g, base, items) ==
  g = [s \in SUBSET (1 .. Len(items)) |->
         IF s = {} THEN base ELSE ShowNext(g[s \ {Max(s)}], items[Max(s)])]

LEMMA ShowingExists ==
  ASSUME NEW base, NEW S, NEW items \in Seq(S)
  PROVE  \E g : FoldsShowing(g, base, items)
<1> DEFINE Step(f, s) == IF s = {} THEN base ELSE ShowNext(f[s \ {Max(s)}], items[Max(s)])
           IsFold(f, m) == f = [s \in SUBSET (1 .. m) |-> Step(f, s)]
           T == {m \in Nat : \E f : IsFold(f, m)}
<1>1. 0 \in T
  <2> DEFINE f == [s \in SUBSET (1 .. 0) |-> base]
  <2>1. \A s \in SUBSET (1 .. 0) : s = {}
    OBVIOUS
  <2>2. f = [s \in SUBSET (1 .. 0) |-> Step(f, s)]
    BY <2>1
  <2> QED BY <2>2
<1>2. ASSUME NEW m \in Nat, m \in T PROVE m + 1 \in T
  <2>1. PICK f : IsFold(f, m)
    BY <1>2
  <2> DEFINE g == [s \in SUBSET (1 .. m + 1) |-> Step(f, s)]
  <2>2. ASSUME NEW s \in SUBSET (1 .. m + 1) PROVE g[s] = Step(g, s)
    <3>1. CASE s = {}
      BY <3>1
    <3>2. CASE s # {}
      <4> DEFINE k == Max(s)
                 rest == s \ {k}
      <4>1. rest \in SUBSET (1 .. k - 1) /\ k \in 1 .. m + 1
        BY <3>2, WithoutMax
      <4> HIDE DEF k
      <4>2. 1 .. k - 1 \subseteq 1 .. m
        BY <4>1
      <4>3. rest \in SUBSET (1 .. m)
        BY <4>1, <4>2
      <4>4. rest \in SUBSET (1 .. m + 1)
        OBVIOUS
      <4> HIDE DEF rest
      <4>5. f[rest] = Step(f, rest) /\ g[rest] = Step(f, rest)
        BY <2>1, <4>3, <4>4
      <4>6. Step(f, s) = Step(g, s)
        BY <3>2, <4>5 DEF rest, k
      <4> QED BY <4>6
    <3> QED BY <3>1, <3>2
  <2>3. g = [s \in SUBSET (1 .. m + 1) |-> Step(g, s)]
    BY <2>2
  <2> HIDE DEF g, Step
  <2> QED BY <2>3
<1>3. Nat \subseteq T
  <2> HIDE DEF T
  <2> QED BY <1>1, <1>2, Induction
<1>4. Len(items) \in Nat
  OBVIOUS
<1> QED BY <1>3, <1>4 DEF FoldsShowing

LEMMA ShowingIs ==
  ASSUME NEW w, NEW S, NEW items \in Seq(S)
  PROVE  \E x : IsShowing(x, [writer |-> w, out |-> <<>>], items) /\ ShowImages(w, items) = x[Len(items)]
<1> DEFINE N == Len(items)
           base == [writer |-> w, out |-> <<>>]
           iter[s \in SUBSET (1 .. N)] ==
             IF s = {} THEN base ELSE ShowNext(iter[s \ {Max(s)}], items[Max(s)])
<1>0. N \in Nat /\ DOMAIN items = 1 .. N
  OBVIOUS
<1>1. ShowImages(w, items) = iter[1 .. N]
  BY <1>0 DEF ShowImages, FoldLeft, MapThenFoldSet, ShowNext
<1> HIDE DEF base
<1>2. iter = [s \in SUBSET (1 .. N) |->
                IF s = {} THEN base ELSE ShowNext(iter[s \ {Max(s)}], items[Max(s)])]
  <2>1. \E g : g = [s \in SUBSET (1 .. N) |->
                     IF s = {} THEN base ELSE ShowNext(g[s \ {Max(s)}], items[Max(s)])]
    <3>1. \E g : FoldsShowing(g, base, items)
      BY ShowingExists
    <3> QED BY <3>1 DEF FoldsShowing
  <2> QED BY <2>1
<1>3. /\ {} \in SUBSET (1 .. N) /\ iter[{}] = base
      /\ \A s \in SUBSET (1 .. N) : s # {} =>
           iter[s] = ShowNext(iter[s \ {Max(s)}], items[Max(s)])
  BY <1>2
<1> HIDE DEF iter
<1> DEFINE x == [n \in 0 .. N |-> iter[1 .. n]]
<1>4. ASSUME NEW n \in 1 .. N PROVE x[n] = ShowNext(x[n - 1], items[n])
  <2>1. Max(1 .. n) = n /\ (1 .. n) \ {n} = 1 .. n - 1
    BY <1>0, MaxOfFirst
  <2>2. 1 .. n \in SUBSET (1 .. N) /\ 1 .. n # {}
    <3>1. n \in Nat /\ n >= 1 /\ n <= N
      BY <1>0
    <3>2. 1 .. n \subseteq 1 .. N /\ n \in 1 .. n
      BY <1>0, <3>1
    <3> QED BY <3>2
  <2>3. iter[1 .. n] = ShowNext(iter[1 .. n - 1], items[n])
    BY <1>3, <2>1, <2>2
  <2>4. n \in 0 .. N /\ n - 1 \in 0 .. N
    BY <1>0
  <2> QED BY <2>3, <2>4
<1>5. x[0] = base /\ x[N] = iter[1 .. N]
  <2>1. 1 .. 0 = {}
    OBVIOUS
  <2>2. 0 \in 0 .. N /\ N \in 0 .. N
    BY <1>0
  <2> QED BY <1>3, <2>1, <2>2
<1> HIDE DEF x
<1> QED BY <1>1, <1>4, <1>5 DEF IsShowing, base

LEMMA ImagesShow ==
  ASSUME NEW w, IsChatWriter(w), NEW S, NEW items \in Seq(S), NEW shown, shown = ShowImages(w, items)
  PROVE  SameChunks(w, shown.writer) /\ AreOthers(shown.out)
<1>1. PICK x : IsShowing(x, [writer |-> w, out |-> <<>>], items) /\ shown = x[Len(items)]
  BY ShowingIs
<1>2. Len(items) \in Nat
  OBVIOUS
<1> DEFINE T == {n \in Nat : n <= Len(items) => SameChunks(w, x[n].writer) /\ AreOthers(x[n].out)}
<1>3. 0 \in T
  <2>1. x[0].writer = w /\ x[0].out = <<>>
    BY <1>1 DEF IsShowing
  <2> QED BY <2>1, SameChunksSelf, NoOthers
<1>4. ASSUME NEW n \in Nat, n \in T PROVE n + 1 \in T
  <2> SUFFICES ASSUME n + 1 <= Len(items)
               PROVE  SameChunks(w, x[n + 1].writer) /\ AreOthers(x[n + 1].out)
    OBVIOUS
  <2>1. n <= Len(items) /\ n + 1 \in 1 .. Len(items) /\ n + 1 - 1 = n
    BY <1>2
  <2>2. SameChunks(w, x[n].writer) /\ AreOthers(x[n].out)
    BY <1>4, <2>1
  <2>a. PICK image : image = ShowImage(x[n].writer, items[n + 1])
    OBVIOUS
  <2>3. x[n + 1].writer = image.writer /\ x[n + 1].out = x[n].out \o image.out
    <3>1. x[n + 1] = ShowNext(x[n], items[n + 1])
      BY <1>1, <2>1 DEF IsShowing
    <3>2. \A step, item : /\ ShowNext(step, item).writer = ShowImage(step.writer, item).writer
                          /\ ShowNext(step, item).out = step.out \o ShowImage(step.writer, item).out
      BY DEF ShowNext
    <3> QED BY <2>a, <3>1, <3>2
  <2>4. SameChunks(x[n].writer, image.writer) /\ AreOthers(image.out)
    <3>1. IsChatWriter(x[n].writer)
      BY <2>2 DEF SameChunks
    <3> QED BY <2>a, <3>1, ImageShows
  <2>5. SameChunks(w, image.writer)
    BY <2>2, <2>4, SameChunksTwice
  <2>6. AreOthers(x[n].out \o image.out)
    BY <2>2, <2>4, BothOthers
  <2> QED BY <2>3, <2>5, <2>6
<1>5. Len(items) \in T
  <2> HIDE DEF T
  <2>1. Nat \subseteq T
    BY <1>3, <1>4, Induction
  <2> QED BY <1>2, <2>1
<1> QED BY <1>1, <1>2, <1>5

LEMMA ChatTextIs ==
  ASSUME NEW pieces
  PROVE  AreOthers(ChatText(pieces))
<1>1. IsOther(Appends(ChatTextBlock, None, pieces))
  BY DEF Appends, ChatTextBlock, IsOther
<1>2. AreOthers(<<Appends(ChatTextBlock, None, pieces)>>)
  BY <1>1, OneOther
<1> QED BY <1>2, NoOthers DEF ChatText

LEMMA ChatTextShows ==
  ASSUME NEW w, IsChatWriter(w), NEW a, NEW held, NEW event, NEW text,
         text = ChatTextStep(w, a, held, event)
  PROVE  SameChunks(w, text.writer) /\ AreOthers(text.out)
<1>1. CASE event.type = "delta" /\ event.item.kind = "message" /\ held
  <2>a. PICK x : x = w.buffer + event.piece
    OBVIOUS
  <2>1. text = [writer |-> [w EXCEPT !.buffer = w.buffer + event.piece], out |-> <<>>]
    BY <1>1 DEF ChatTextStep, IsTerminal
  <2>2. text.writer = [w EXCEPT !["buffer"] = x] /\ text.out = <<>>
    BY <2>a, <2>1
  <2>3. SameChunks(w, text.writer)
    BY <2>2, ChatFieldOfOther
  <2> QED BY <2>2, <2>3, NoOthers
<1>2. CASE event.type = "delta" /\ event.item.kind = "message" /\ ~held
  <2>a. PICK v : v = [w EXCEPT !.textSent = TRUE]
    OBVIOUS
  <2>1. text = [writer |-> [w EXCEPT !.textSent = TRUE], out |-> ChatText(event.piece)]
    BY <1>2 DEF ChatTextStep, IsTerminal
  <2>2. text.writer = v /\ text.out = ChatText(event.piece)
    BY <2>a, <2>1
  <2>3. \E x : v = [w EXCEPT !["textSent"] = x]
    BY <2>a
  <2>4. SameChunks(w, v)
    BY <2>3, ChatFieldOfOther
  <2> QED BY <2>2, <2>4, ChatTextIs
<1>3. CASE event.type = "done" /\ event.item.kind = "message" /\ held
  <2>a. PICK x : x = IF event.item.size > 0 THEN event.item.size ELSE w.buffer
    OBVIOUS
  <2>1. text = [writer |-> [w EXCEPT !.buffer = IF event.item.size > 0 THEN event.item.size ELSE w.buffer],
                out |-> <<>>]
    BY <1>3 DEF ChatTextStep, IsTerminal
  <2>2. text.writer = [w EXCEPT !["buffer"] = x] /\ text.out = <<>>
    BY <2>a, <2>1
  <2>3. SameChunks(w, text.writer)
    BY <2>2, ChatFieldOfOther
  <2> QED BY <2>2, <2>3, NoOthers
<1>4. CASE IsTerminal(event) /\ held
  <2>a. PICK size : size = IF w.buffer = 0 THEN Text(a) ELSE w.buffer
    OBVIOUS
  <2>b. PICK v, x : v = [w EXCEPT !.buffer = size] /\ x = (w.textSent \/ size # 0)
    OBVIOUS
  <2>1. /\ text.writer = [w EXCEPT !.buffer = size, !.textSent = w.textSent \/ size # 0]
        /\ text.out = ChatText(size)
    BY <1>4, <2>a DEF ChatTextStep, IsTerminal
  <2>2. text.writer = [v EXCEPT !["textSent"] = x]
    BY <2>1, <2>b
  <2>3. SameChunks(w, v)
    BY <2>b, ChatFieldOfOther
  <2>4. SameChunks(v, text.writer)
    <3>1. IsChatWriter(v)
      BY <2>3 DEF SameChunks
    <3> QED BY <2>2, <3>1, ChatFieldOfOther
  <2> QED BY <2>1, <2>3, <2>4, SameChunksTwice, ChatTextIs
<1>5. CASE /\ ~(event.type = "delta" /\ event.item.kind = "message")
           /\ ~(event.type = "done" /\ event.item.kind = "message" /\ held)
           /\ ~(IsTerminal(event) /\ held)
  <2>1. text = [writer |-> w, out |-> <<>>]
    BY <1>5 DEF ChatTextStep
  <2>2. text.writer = w /\ text.out = <<>>
    BY <2>1
  <2> QED BY <2>2, SameChunksSelf, NoOthers
<1> QED BY <1>1, <1>2, <1>3, <1>4, <1>5

-----------------------------------------------------------------------------
(* What a Chat Completions client has of the calls while the stream goes   *)
(* on.                                                                     *)

LEMMA CallBlocksDiffer ==
  ASSUME NEW m, NEW n, CallBlock(m) = CallBlock(n)
  PROVE  m = n
<1>1. CallBlock(m)[2] = m /\ CallBlock(n)[2] = n
  BY DEF CallBlock
<1> QED BY <1>1

\* The client has every call the upstream began to tell, in the order and with the ids
\* and the arguments of the records, and no other.
ChatShows(items, prog, a, w, bl) ==
  /\ IsChatWriter(w) /\ w.next = Len(a.calls) /\ HasCalls(bl, Len(a.calls))
  /\ \A n \in DOMAIN a.calls : ChatHas(w, bl, n, a.calls[n])
  /\ \A i \in HeardOf(items, prog) : SayingOf(items[i], prog[i]).known
  /\ \A i \in DOMAIN items \ HeardOf(items, prog) :
       items[i].kind = "call" => IsUnsaid(w, items[i].call)

\* The block of the n-th call is free until then.
LEMMA NextBlockIsFree ==
  ASSUME NEW bl, NEW N \in Nat, HasCalls(bl, N)
  PROVE  CallBlock(N) \notin DOMAIN bl
<1> SUFFICES ASSUME CallBlock(N) \in DOMAIN bl PROVE FALSE
  OBVIOUS
<1>1. PICK n \in 1 .. N : CallBlock(N) = CallBlock(n - 1)
  BY CallBlockIs DEF HasCalls
<1>2. N = n - 1
  BY <1>1, CallBlocksDiffer
<1>3. n \in Nat /\ n <= N
  BY <1>1
<1> QED BY <1>2, <1>3

\* What a chunk leaves of another call.
LEMMA ChatHasOther ==
  ASSUME NEW w, NEW v, NEW bl, NEW read, NEW id, NEW n \in Nat, NEW size, Chunked(v, w, id, n, size),
         NEW block, Changes(bl, read, CallBlock(n - 1), block),
         NEW m \in Nat, m # n, NEW r, ChatHas(w, bl, m, r), r.call \in Ids, r.call # id
  PROVE  ChatHas(v, read, m, r)
<1>1. CallBlock(m - 1) # CallBlock(n - 1)
  <2>1. m - 1 # n - 1
    OBVIOUS
  <2> QED BY <2>1, CallBlocksDiffer
<1>2. v.index[r.call] = w.index[r.call] /\ v.sent[r.call] = w.sent[r.call]
      /\ (r.call \in v.named <=> r.call \in w.named)
  BY DEF Chunked
<1>3. CallBlock(m - 1) \in DOMAIN bl
  BY DEF ChatHas
<1>4. CallBlock(m - 1) \in DOMAIN read /\ read[CallBlock(m - 1)] = bl[CallBlock(m - 1)]
  BY <1>1, <1>3 DEF Changes
<1> QED BY <1>2, <1>4 DEF ChatHas

LEMMA ChatTell ==
  ASSUME NEW i, NEW type, NEW event, NEW next, IsTelled(i, type, event, next),
         turn.items[i].kind = "call", Introduced(turn.items[i]),
         ChatShows(turn.items, progress, acc, writer, blocks), dialect = "chat", Write(event)
  PROVE  ChatShows(turn.items, next, acc', writer', blocks') /\ CallGrows(blocks, blocks')
<1>a. PICK items, said, told, b : /\ items = turn.items /\ said = SaidOf(items, progress)
                                  /\ told = SaidOf(items, next) /\ b = Apply(acc, event)
  OBVIOUS
<1>b. PICK n, r : n = b.byId[items[i].id] /\ r = b.calls[n]
  OBVIOUS
<1>c. PICK v, out : v = WriteToolChunk(writer, r).writer /\ out = WriteToolChunk(writer, r).out
  OBVIOUS
<1>1. /\ IsTold(items, progress) /\ i \in DOMAIN items /\ type \in NextTypes(i)
      /\ event = ItemEvent(i, type) /\ IsProgressed(progress, next, i, type)
      /\ Knows(items, acc, said) /\ AreItems(items) /\ items[i].kind = "call"
      /\ Introduced(items[i]) /\ DOMAIN progress = DOMAIN items
  BY <1>a DEF IsTelled, IsTold
<1>2. /\ IsNext(items[i], progress[i], type) /\ IsAdvanced(next[i], progress[i], type)
      /\ InOrder(items[i], progress[i])
  BY <1>a, <1>1, NextIs DEF IsProgressed, IsTold
<1>3. /\ Knows(items, b, told) /\ IsSaid(items, told)
      /\ Turned(items, acc, said, i, b)
      /\ DOMAIN told = DOMAIN said \cup {i}
      /\ CallOf(b, event.item) = n /\ n \in DOMAIN b.calls /\ n # 0
  <2>1. /\ Knows(items, b, told) /\ IsSaid(items, told)
        /\ Turned(items, acc, said, i, b)
        /\ DOMAIN told = DOMAIN said \cup {i}
        /\ CallOf(b, event.item) = b.byId[items[i].id]
        /\ CallOf(b, event.item) \in DOMAIN b.calls /\ CallOf(b, event.item) # 0
    BY <1>a, HeardCall
  <2> QED BY <1>b, <2>1
<1>4. acc' = b /\ writer' = v /\ blocks' = Read(blocks, out)
  <2> PICK step : step = ChatStep(writer, b, tuple, event)
    OBVIOUS
  <2>1. step = WriteToolChunk(writer, r)
    BY <1>b, <1>3 DEF ChatStep
  <2>2. acc' = b /\ writer' = step.writer /\ blocks' = Read(blocks, step.out)
    BY <1>a DEF Write
  <2> QED BY <1>c, <2>1, <2>2
<1>5. DOMAIN said = HeardOf(items, progress) /\ DOMAIN told = HeardOf(items, next)
  BY <1>a DEF SaidOf
<1>6. \A j \in DOMAIN items : j # i => next[j] = progress[j]
  BY <1>1 DEF IsProgressed
<1>7. /\ IsChatWriter(writer) /\ writer.next = Len(acc.calls) /\ HasCalls(blocks, Len(acc.calls))
      /\ \A m \in DOMAIN acc.calls : ChatHas(writer, blocks, m, acc.calls[m])
      /\ \A j \in DOMAIN said : SayingOf(items[j], progress[j]).known
      /\ \A j \in DOMAIN items \ DOMAIN said : items[j].kind = "call" => IsUnsaid(writer, items[j].call)
  BY <1>a, <1>5 DEF ChatShows
<1>8. told[i] = SayingOf(items[i], next[i])
  BY <1>a, <1>3, <1>5 DEF SaidOf
<1>9. ASSUME NEW j \in DOMAIN told PROVE told[j].known
  <2>1. CASE j = i
    <3>1. IsHeard(progress[i]) => i \in DOMAIN said
      BY <1>1, <1>5 DEF IsHeard, HeardOf
    <3>2. IsHeard(progress[i]) => SayingOf(items[i], progress[i]).known
      BY <1>7, <3>1
    <3> QED BY <1>1, <1>2, <1>8, <2>1, <3>2, KnownWhenTold
  <2>2. CASE j # i
    <3>1. j \in DOMAIN said /\ j \in DOMAIN items
      BY <1>3, <1>5, <2>2 DEF HeardOf
    <3>2. told[j] = SayingOf(items[j], next[j])
      BY <1>a, <1>5 DEF SaidOf
    <3> QED BY <1>6, <1>7, <2>2, <3>1, <3>2
  <2> QED BY <2>1, <2>2
<1>10. ASSUME NEW j \in DOMAIN told, NEW m, m = b.byId[items[j].id]
       PROVE  /\ m \in DOMAIN b.calls /\ b.calls[m] \in ToolCallStates
              /\ b.calls[m].call = items[j].call /\ b.calls[m].named = told[j].known
              /\ b.calls[m].size = told[j].size
  <2>1. HasRecord(items, b, told, j)
    BY <1>3 DEF Knows
  <2>2. b.calls \in Seq(ToolCallStates)
    BY <1>3 DEF Knows, IsAccumulator
  <2>3. m \in DOMAIN b.calls /\ b.calls[m].call = NameOf(items, told, j)
        /\ b.calls[m].named = told[j].known /\ b.calls[m].size = told[j].size
    BY <1>10, <2>1 DEF HasRecord
  <2>4. b.calls[m] \in ToolCallStates
    BY <2>2, <2>3
  <2> QED BY <1>9, <2>3, <2>4 DEF NameOf
<1>11. /\ r \in ToolCallStates /\ r.call = items[i].call /\ IsNamed(r) /\ r.size = told[i].size
  <2>1. i \in DOMAIN told
    BY <1>3
  <2>2. /\ r \in ToolCallStates /\ r.call = items[i].call /\ r.named = told[i].known
        /\ r.size = told[i].size
    BY <1>b, <1>10, <2>1
  <2>3. r.named \in BOOLEAN
    BY <2>2, RecordFields
  <2> QED BY <1>9, <2>1, <2>2, <2>3 DEF IsNamed
<1>12. /\ b.calls \in Seq(ToolCallStates) /\ acc.calls \in Seq(ToolCallStates)
       /\ Len(b.calls) \in Nat /\ Len(acc.calls) \in Nat
       /\ DOMAIN b.calls = 1 .. Len(b.calls) /\ DOMAIN acc.calls = 1 .. Len(acc.calls)
  <2>1. b.calls \in Seq(ToolCallStates) /\ acc.calls \in Seq(ToolCallStates)
    BY <1>1, <1>3 DEF Knows, IsAccumulator
  <2> QED BY <2>1
<1>13. /\ n = IF i \in DOMAIN said THEN acc.byId[items[i].id] ELSE Len(acc.calls) + 1
       /\ Len(b.calls) = IF i \in DOMAIN said THEN Len(acc.calls) ELSE Len(acc.calls) + 1
       /\ \A m \in DOMAIN acc.calls : m # n => b.calls[m] = acc.calls[m]
  BY <1>b, <1>3 DEF Turned, Place
<1>14. n \in Nat \ {0} /\ n \in 1 .. Len(b.calls)
  BY <1>3, <1>12
<1>15. /\ Chunked(v, writer, r.call, n, r.size) /\ v.next = Len(b.calls)
       /\ Changes(blocks, Read(blocks, out), CallBlock(n - 1), CallShown(r.call, r.size, FALSE))
  <2>1. CASE i \in DOMAIN said
    <3>a. PICK old : old = acc.calls[n]
      OBVIOUS
    <3>1. n = acc.byId[items[i].id] /\ Len(b.calls) = Len(acc.calls)
      BY <1>13, <2>1
    <3>2. HasRecord(items, acc, said, i)
      BY <1>1, <2>1 DEF Knows
    <3>3. /\ n \in DOMAIN acc.calls /\ old.call = NameOf(items, said, i) /\ old.size = said[i].size
      BY <3>a, <3>1, <3>2 DEF HasRecord
    <3>4. said[i] = SayingOf(items[i], progress[i])
      BY <1>a, <1>5, <2>1 DEF SaidOf
    <3>5. old.call = r.call
      BY <1>7, <1>11, <2>1, <3>3, <3>4 DEF NameOf
    <3>6. old \in ToolCallStates
      BY <1>12, <3>a, <3>3
    <3>7. old.size <= r.size
      <4>1. SayingOf(items[i], progress[i]).size <= SayingOf(items[i], next[i]).size
        BY <1>1, <1>2, SizesGrow
      <4> QED BY <1>8, <1>11, <3>3, <3>4, <4>1
    <3>8. ChatHas(writer, blocks, n, old)
      BY <1>7, <3>a, <3>3
    <3>9. /\ Chunked(v, writer, r.call, n, r.size) /\ v.next = writer.next
          /\ Changes(blocks, Read(blocks, out), CallBlock(n - 1), CallShown(r.call, r.size, FALSE))
      <4>1. IsChatWriter(writer) /\ r \in ToolCallStates /\ IsNamed(r) /\ n \in Nat \ {0}
        BY <1>7, <1>11, <1>14
      <4>2. old \in ToolCallStates /\ ChatHas(writer, blocks, n, old) /\ old.call = r.call
            /\ old.size <= r.size
        BY <3>5, <3>6, <3>7, <3>8
      <4> QED BY <1>c, <4>1, <4>2, ChunkGoesOn
    <3> QED BY <1>7, <3>1, <3>9
  <2>2. CASE i \notin DOMAIN said
    <3>1. n = Len(acc.calls) + 1 /\ Len(b.calls) = n
      BY <1>13, <2>2
    <3>2. n - 1 = Len(acc.calls)
      BY <1>12, <3>1
    <3>3. CallBlock(n - 1) \notin DOMAIN blocks
      BY <1>7, <1>12, <3>2, NextBlockIsFree
    <3>4. IsUnsaid(writer, r.call)
      BY <1>1, <1>7, <1>11, <2>2
    <3>5. writer.next = n - 1
      BY <1>7, <3>2
    <3>6. /\ Chunked(v, writer, r.call, n, r.size) /\ v.next = writer.next + 1
          /\ Changes(blocks, Read(blocks, out), CallBlock(n - 1), CallShown(r.call, r.size, FALSE))
      <4>1. IsChatWriter(writer) /\ r \in ToolCallStates /\ IsNamed(r) /\ n \in Nat \ {0}
        BY <1>7, <1>11, <1>14
      <4>2. IsUnsaid(writer, r.call) /\ IsFree(writer, blocks, n)
        BY <3>3, <3>4, <3>5 DEF IsFree
      <4>3. v = WriteToolChunk(writer, r).writer /\ out = WriteToolChunk(writer, r).out
        BY <1>c
      <4> QED BY <4>1, <4>2, <4>3, ChunkBegins
    <3>7. v.next = Len(b.calls)
      BY <1>7, <3>1, <3>6
    <3> QED BY <3>6, <3>7
  <2> QED BY <2>1, <2>2
<1>16. HasCalls(blocks', Len(b.calls))
  <2>1. Len(acc.calls) <= Len(b.calls)
    BY <1>12, <1>13
  <2> QED BY <1>4, <1>7, <1>12, <1>14, <1>15, <2>1, CallKeeps
<1>17. ASSUME NEW m \in DOMAIN b.calls PROVE ChatHas(v, blocks', m, b.calls[m])
  <2>1. CASE m = n
    <3>1. v.index[r.call] = n - 1 /\ r.call \in v.named /\ v.sent[r.call] = r.size
      BY <1>15 DEF Chunked
    <3>2. /\ CallBlock(n - 1) \in DOMAIN blocks'
          /\ blocks'[CallBlock(n - 1)] = CallShown(r.call, r.size, FALSE)
      BY <1>4, <1>15 DEF Changes
    <3> QED BY <1>b, <2>1, <3>1, <3>2 DEF ChatHas
  <2>2. CASE m # n
    <3>1. m \in DOMAIN acc.calls
      BY <1>12, <1>13, <2>2
    <3>2. b.calls[m] = acc.calls[m] /\ ChatHas(writer, blocks, m, acc.calls[m])
      BY <1>7, <1>13, <2>2, <3>1
    <3>3. PICK j \in DOMAIN told : b.byId[items[j].id] = m
      BY <1>3 DEF Knows
    <3>4. j # i /\ j \in DOMAIN items
      BY <1>b, <1>5, <2>2, <3>3 DEF HeardOf
    <3>5. b.calls[m].call = items[j].call /\ b.calls[m] \in ToolCallStates
      BY <1>10, <3>3
    <3>6. items[j].call # items[i].call
      BY <1>1, <3>4, ItemIds
    <3>7. b.calls[m].call \in Ids /\ b.calls[m].call # r.call
      BY <1>11, <3>5, <3>6, RecordFields
    <3>8. m \in Nat /\ n \in Nat
      BY <1>12, <1>14
    <3>9. Changes(blocks, blocks', CallBlock(n - 1), CallShown(r.call, r.size, FALSE))
      BY <1>4, <1>15
    <3>10. ChatHas(writer, blocks, m, b.calls[m])
      BY <3>2
    <3>11. Chunked(v, writer, r.call, n, r.size)
      BY <1>15
    <3>b. PICK other, block : other = b.calls[m] /\ block = CallShown(r.call, r.size, FALSE)
      OBVIOUS
    <3>12. ChatHas(writer, blocks, m, other) /\ other.call \in Ids /\ other.call # r.call
      BY <3>7, <3>10, <3>b
    <3>13. Changes(blocks, blocks', CallBlock(n - 1), block)
      BY <3>9, <3>b
    <3>14. ChatHas(v, blocks', m, other)
      BY <2>2, <3>8, <3>11, <3>12, <3>13, ChatHasOther
    <3> QED BY <3>14, <3>b
  <2> QED BY <2>1, <2>2
<1>18. ASSUME NEW j \in HeardOf(items, next) PROVE SayingOf(items[j], next[j]).known
  <2>1. told[j] = SayingOf(items[j], next[j])
    BY <1>a, <1>5 DEF SaidOf
  <2> QED BY <1>5, <1>9, <2>1
<1>19. ASSUME NEW j \in DOMAIN items \ HeardOf(items, next), items[j].kind = "call"
       PROVE  IsUnsaid(v, items[j].call)
  <2>1. j # i /\ j \notin DOMAIN said
    BY <1>3, <1>5
  <2>2. IsUnsaid(writer, items[j].call)
    BY <1>7, <1>19, <2>1
  <2>3. items[j].call # r.call /\ items[j].call \in Ids
    BY <1>1, <1>11, <1>19, <2>1, ItemIds
  <2> QED BY <1>15, <2>2, <2>3 DEF Chunked, IsUnsaid
<1>20. IsChatWriter(v)
  BY <1>15 DEF Chunked
<1>21. CallGrows(blocks, blocks')
  <2> PICK key : key = CallBlock(n - 1)
    OBVIOUS
  <2>1. r.size \in Nat
    BY <1>11, RecordFields
  <2>2. Changes(blocks, blocks', key, CallShown(r.call, r.size, FALSE))
        /\ key[1] \in {"item", "call"}
    BY <1>4, <1>15, CallBlockIs
  <2>3. ASSUME key \in DOMAIN blocks PROVE \E p, was : Grows(blocks[key], r.call, p, was, r.size, FALSE)
    <3>1. i \in DOMAIN said
      <4>1. ASSUME i \notin DOMAIN said PROVE FALSE
        <5>1. n - 1 = Len(acc.calls)
          BY <1>12, <1>13, <4>1
        <5> QED BY <1>7, <1>12, <2>3, <5>1, NextBlockIsFree
      <4> QED BY <4>1
    <3>2. n = acc.byId[items[i].id]
      BY <1>13, <3>1
    <3>3. HasRecord(items, acc, said, i)
      BY <1>1, <3>1 DEF Knows
    <3>4. n \in DOMAIN acc.calls /\ acc.calls[n].call = NameOf(items, said, i)
          /\ acc.calls[n].size = said[i].size
      BY <3>2, <3>3 DEF HasRecord
    <3>5. said[i] = SayingOf(items[i], progress[i])
      BY <1>a, <1>5, <3>1 DEF SaidOf
    <3>6. blocks[key] = CallShown(acc.calls[n].call, acc.calls[n].size, FALSE)
      BY <1>7, <3>4 DEF ChatHas
    <3>7. acc.calls[n].call = r.call
      BY <1>7, <1>11, <3>1, <3>4, <3>5 DEF NameOf
    <3>8. SayingOf(items[i], progress[i]).size <= SayingOf(items[i], next[i]).size
      BY <1>1, <1>2, SizesGrow
    <3>9. SayingOf(items[i], progress[i]).size \in Nat
      BY <1>2, ShapeFields DEF SayingOf
    <3> QED BY <1>8, <1>11, <3>4, <3>5, <3>6, <3>7, <3>8, <3>9 DEF Grows
  <2> QED BY <2>1, <2>2, <2>3 DEF CallGrows
<1> QED BY <1>a, <1>4, <1>15, <1>16, <1>17, <1>18, <1>19, <1>20, <1>21 DEF ChatShows

LEMMA EventImagesType ==
  ASSUME NEW event, NEW S, event.output \in Seq(S)
  PROVE  \E U : EventImages(event) \in Seq(U)
<1>1. CASE event.type \in {"partial", "item.done"} /\ event.item.kind = "image"
  <2>a. PICK item : item = event.item
    OBVIOUS
  <2>1. EventImages(event) = <<item>>
    BY <1>1, <2>a DEF EventImages
  <2>2. <<item>> \in Seq({item})
    OBVIOUS
  <2> QED BY <2>1, <2>2
<1>2. CASE event.type = "completed"
  <2>a. PICK out : out = event.output
    OBVIOUS
  <2> DEFINE seqs == [n \in DOMAIN out |-> IF out[n].kind = "image" THEN <<out[n]>> ELSE <<>>]
  <2>1. EventImages(event) = FlattenSeq(seqs)
    BY <1>2, <2>a DEF EventImages
  <2>2. out \in Seq(S) /\ DOMAIN out = 1 .. Len(out) /\ Len(out) \in Nat
    BY <2>a
  <2>3. ASSUME NEW n \in DOMAIN out PROVE seqs[n] \in Seq(S)
    <3>1. out[n] \in S
      BY <2>2
    <3>2. <<out[n]>> \in Seq(S) /\ <<>> \in Seq(S)
      BY <3>1
    <3> QED BY <3>2
  <2>4. seqs \in Seq(Seq(S))
    <3>1. seqs = [n \in 1 .. Len(out) |-> seqs[n]]
      BY <2>2
    <3> HIDE DEF seqs
    <3> QED BY <2>2, <2>3, <3>1
  <2> HIDE DEF seqs
  <2>5. FlattenSeq(seqs) \in Seq(S)
    BY <2>4, FlattenType
  <2> QED BY <2>1, <2>5
<1>3. CASE /\ ~(event.type \in {"partial", "item.done"} /\ event.item.kind = "image")
           /\ event.type # "completed"
  <2>1. EventImages(event) = <<>>
    BY <1>3 DEF EventImages
  <2>2. <<>> \in Seq({})
    OBVIOUS
  <2> QED BY <2>1, <2>2
<1> QED BY <1>1, <1>2, <1>3

\* Of anything but a call the writer sends no message about a call.
LEMMA ChatOther ==
  ASSUME NEW w, IsChatWriter(w), NEW a, NEW held, NEW event, NEW S, event.output \in Seq(S),
         CallOf(a, event.item) = 0, NEW step, step = ChatStep(w, a, held, event)
  PROVE  SameChunks(w, step.writer) /\ AreOthers(step.out)
<1>a. PICK items : items = EventImages(event)
  OBVIOUS
<1>b. PICK images : images = ShowImages(w, items)
  OBVIOUS
<1>c. PICK text : text = ChatTextStep(images.writer, a, held, event)
  OBVIOUS
<1>d. PICK last : last = IF IsTerminal(event) THEN FinalText(text.writer, a) ELSE <<>>
  OBVIOUS
<1>1. step.writer = text.writer /\ step.out = images.out \o text.out \o last
  BY <1>a, <1>b, <1>c, <1>d DEF ChatStep
<1>2. SameChunks(w, images.writer) /\ AreOthers(images.out)
  <2>1. PICK U : items \in Seq(U)
    BY <1>a, EventImagesType
  <2> QED BY <1>b, <2>1, ImagesShow
<1>3. SameChunks(images.writer, text.writer) /\ AreOthers(text.out)
  <2>1. IsChatWriter(images.writer)
    BY <1>2 DEF SameChunks
  <2> QED BY <1>c, <2>1, ChatTextShows
<1>4. AreOthers(last)
  <2>1. AreOthers(FinalText(text.writer, a))
    BY ChatTextIs, NoOthers DEF FinalText
  <2> QED BY <1>d, <2>1, NoOthers
<1>5. AreOthers(images.out \o text.out)
  BY <1>2, <1>3, BothOthers
<1>6. AreOthers(images.out \o text.out \o last)
  BY <1>4, <1>5, BothOthers
<1> QED BY <1>1, <1>2, <1>3, <1>6, SameChunksTwice

\* What is no message about a call leaves alone.
LEMMA ChatShowsOn ==
  ASSUME NEW items, NEW prog, NEW next, NEW a, NEW b, NEW w, NEW v, NEW bl, NEW outs,
         ChatShows(items, prog, a, w, bl), SameChunks(w, v), b.calls = a.calls, AreOthers(outs),
         HeardOf(items, next) = HeardOf(items, prog),
         \A j \in HeardOf(items, prog) : next[j] = prog[j]
  PROVE  ChatShows(items, next, b, v, Read(bl, outs))
<1>a. PICK read : read = Read(bl, outs)
  OBVIOUS
<1>1. /\ IsChatWriter(w) /\ w.next = Len(a.calls) /\ HasCalls(bl, Len(a.calls))
      /\ \A n \in DOMAIN a.calls : ChatHas(w, bl, n, a.calls[n])
      /\ \A i \in HeardOf(items, prog) : SayingOf(items[i], prog[i]).known
      /\ \A i \in DOMAIN items \ HeardOf(items, prog) :
           items[i].kind = "call" => IsUnsaid(w, items[i].call)
  BY DEF ChatShows
<1>2. IsChatWriter(v) /\ v.index = w.index /\ v.named = w.named /\ v.sent = w.sent /\ v.next = w.next
  BY <1>1 DEF SameChunks
<1>3. HasCalls(read, Len(a.calls)) /\ \A n : AgreesAt(bl, read, CallBlock(n))
  BY <1>1, <1>a, OthersRead
<1>4. ASSUME NEW n \in DOMAIN a.calls PROVE ChatHas(v, read, n, a.calls[n])
  <2>1. ChatHas(w, bl, n, a.calls[n])
    BY <1>1
  <2>2. AgreesAt(bl, read, CallBlock(n - 1))
    BY <1>3
  <2> QED BY <1>2, <2>1, <2>2 DEF ChatHas, AgreesAt
<1>5. \A i \in HeardOf(items, next) : SayingOf(items[i], next[i]).known
  BY <1>1
<1>6. \A i \in DOMAIN items \ HeardOf(items, next) :
        items[i].kind = "call" => IsUnsaid(v, items[i].call)
  BY <1>1, <1>2 DEF IsUnsaid
<1>7. ChatShows(items, next, b, v, read)
  BY <1>1, <1>2, <1>3, <1>4, <1>5, <1>6 DEF ChatShows
<1> QED BY <1>7, <1>a

\* What the chat writer does of an event that is not about a call.
LEMMA ChatWrites ==
  ASSUME NEW event, NEW b, b = Apply(acc, event), CallOf(b, event.item) = 0,
         NEW S, event.output \in Seq(S), IsChatWriter(writer), dialect = "chat", Write(event)
  PROVE  /\ acc' = b /\ SameChunks(writer, writer')
         /\ \E outs : AreOthers(outs) /\ blocks' = Read(blocks, outs)
<1>a. PICK step : step = ChatStep(writer, b, tuple, event)
  OBVIOUS
<1>1. acc' = b /\ writer' = step.writer /\ blocks' = Read(blocks, step.out)
  BY <1>a DEF Write
<1>2. SameChunks(writer, step.writer) /\ AreOthers(step.out)
  BY <1>a, ChatOther
<1> QED BY <1>1, <1>2

LEMMA ChatTellOther ==
  ASSUME NEW i, NEW type, NEW event, NEW next, IsTelled(i, type, event, next),
         turn.items[i].kind # "call",
         ChatShows(turn.items, progress, acc, writer, blocks), dialect = "chat", Write(event)
  PROVE  ChatShows(turn.items, next, acc', writer', blocks')
<1>a. PICK items, b : items = turn.items /\ b = Apply(acc, event)
  OBVIOUS
<1>1. /\ SaidOf(items, next) = SaidOf(items, progress)
      /\ SameCalls(acc, b) /\ event.item.kind # "call"
  BY <1>a, HeardOther
<1>2. event.output \in Seq({})
  <2>1. type \in NextTypes(i) /\ event = ItemEvent(i, type)
    BY DEF IsTelled
  <2>2. type \in {"item.added", "delta", "partial", "done", "item.done"}
    BY <2>1, TypesOf
  <2>3. IsItemEvent(event, i, type)
    BY <2>1, <2>2, ItemEventIs
  <2>4. event.output = <<>>
    BY <2>3 DEF IsItemEvent
  <2>5. <<>> \in Seq({})
    OBVIOUS
  <2> QED BY <2>4, <2>5
<1>3. CallOf(b, event.item) = 0
  BY <1>1 DEF CallOf
<1>4. IsChatWriter(writer)
  BY DEF ChatShows
<1>5. acc' = b /\ SameChunks(writer, writer')
  BY <1>2, <1>3, <1>4, <1>a, ChatWrites
<1>6. PICK outs : AreOthers(outs) /\ blocks' = Read(blocks, outs)
  BY <1>2, <1>3, <1>4, <1>a, ChatWrites
<1>7. HeardOf(items, next) = HeardOf(items, progress)
  <2>1. DOMAIN SaidOf(items, next) = HeardOf(items, next)
    BY DEF SaidOf
  <2>2. DOMAIN SaidOf(items, progress) = HeardOf(items, progress)
    BY DEF SaidOf
  <2> QED BY <1>1, <2>1, <2>2
<1>8. ASSUME NEW j \in HeardOf(items, progress) PROVE next[j] = progress[j]
  <2>1. j # i /\ j \in DOMAIN items
    BY <1>a DEF HeardOf
  <2> QED BY <1>a, <2>1 DEF IsTelled, IsTold, IsProgressed
<1>9. acc'.calls = acc.calls
  BY <1>1, <1>5 DEF SameCalls
<1>10. ChatShows(items, progress, acc, writer, blocks)
  BY <1>a
<1>11. ChatShows(items, next, acc', writer', Read(blocks, outs))
  BY <1>5, <1>6, <1>7, <1>8, <1>9, <1>10, ChatShowsOn
<1> QED BY <1>6, <1>11, <1>a

\* A client that has read nothing has no call.
LEMMA ChatNothing ==
  ASSUME NEW items, AreItems(items), NEW prog,
         \A i \in DOMAIN items :
           prog[i] = [added |-> FALSE, pieces |-> 0, whole |-> FALSE, done |-> FALSE]
  PROVE  ChatShows(items, prog, NewAccumulator, NewChatWriter, <<>>)
<1>1. HeardOf(items, prog) = {}
  BY DEF HeardOf
<1>2. IsChatWriter(NewChatWriter)
  BY DEF IsChatWriter, NewChatWriter, ChatFields
<1>3. NewChatWriter.next = 0 /\ \A id \in Ids : IsUnsaid(NewChatWriter, id)
  BY DEF NewChatWriter, IsUnsaid
<1>4. NewAccumulator.calls = <<>>
  BY DEF NewAccumulator
<1>5. HasCalls(<<>>, 0)
  BY DEF HasCalls
<1>6. \A i \in DOMAIN items : items[i].kind = "call" => items[i].call \in Ids
  BY ItemIds
<1>7. Len(<<>>) = 0 /\ DOMAIN <<>> = {}
  OBVIOUS
<1> QED BY <1>1, <1>2, <1>3, <1>4, <1>5, <1>6, <1>7 DEF ChatShows

-----------------------------------------------------------------------------
(* The end of a Chat Completions stream.                                   *)

Knowing(a, said) == IsSaid(turn.items, said) /\ Knows(turn.items, a, said)

\* Every call was told, with all of its arguments.
IsWhole(said) ==
  \A i \in DOMAIN turn.items : turn.items[i].kind = "call" =>
    i \in DOMAIN said /\ said[i].known /\ said[i].size = turn.items[i].size

AllDone == \A i \in DOMAIN turn.items : ItemDone(i)

\* The calls keep their order, their ids and their arguments.
KeepsCalls(a, b) ==
  /\ DOMAIN b.calls = DOMAIN a.calls
  /\ \A n \in DOMAIN a.calls :
       b.calls[n].call = a.calls[n].call /\ b.calls[n].size = a.calls[n].size

LEMMA KeepsTwice ==
  ASSUME NEW a, NEW b, NEW c, KeepsCalls(a, b), KeepsCalls(b, c)
  PROVE  KeepsCalls(a, c)
BY DEF KeepsCalls

LEMMA SameKeeps ==
  ASSUME NEW a, NEW b, SameCalls(a, b)
  PROVE  KeepsCalls(a, b)
BY DEF SameCalls, KeepsCalls

LEMMA SameKnowing ==
  ASSUME NEW a, NEW b, NEW said, Knowing(a, said), SameCalls(a, b)
  PROVE  Knowing(b, said)
BY SameKnows DEF Knowing

\* An item of the list that tells all of a call tells nothing new.
LEMMA ChatCapture ==
  ASSUME NEW a, NEW said, Knowing(a, said), IsTold(turn.items, progress),
         NEW i \in DOMAIN turn.items, NEW index \in Nat,
         NEW b, b = CaptureOutputItem(a, FinalItem(i), index)
  PROVE  \E told : /\ Knowing(b, told)
                   /\ IsWhole(said) /\ ItemDone(i) => IsWhole(told) /\ KeepsCalls(a, b)
<1>a. PICK items, item : items = turn.items /\ item = FinalItem(i)
  OBVIOUS
<1>1. /\ AreItems(items) /\ IsSaid(items, said) /\ Knows(items, a, said)
      /\ InOrder(items[i], progress[i]) /\ item.kind = items[i].kind
      /\ i \in DOMAIN items /\ DOMAIN progress = DOMAIN items
  BY <1>a, FinalShows DEF Knowing, IsTold
<1>2. CASE item.kind # "call"
  <2>1. IsAccumulator(a)
    BY <1>1 DEF Knows
  <2>2. SameCalls(a, b)
    BY <1>a, <1>2, <2>1, CaptureOther
  <2> QED BY <2>2, SameKnowing, SameKeeps
<1>3. CASE item.kind = "call"
  <2>1. b = CaptureToolCall(a, item, index, 0)
    BY <1>a, <1>3 DEF CaptureOutputItem
  <2>2. /\ items[i].kind = "call" /\ items[i].size \in Nat /\ progress[i].pieces \in Nat
    BY <1>1, <1>3, ShapeFields
  <2>3. TellsOf(items, i, item) /\ item.named = TRUE /\ item.size \in Nat
    <3>1. \/ IsShown(item, items[i], TRUE, items[i].size, "completed")
          \/ IsShown(item, items[i], TRUE, progress[i].pieces, "incomplete")
      BY <1>a, <2>2, FinalShows
    <3> QED BY <2>2, <3>1 DEF IsShown, TellsOf, Statuses
  <2>4. Telling(items, a, said, i, item, index, 0)
    BY <1>1, <2>2, <2>3 DEF Telling
  <2>b. PICK told : told = Hears(said, i, item, 0)
    OBVIOUS
  <2>5. /\ IsSaid(items, told) /\ Knows(items, b, told) /\ Turned(items, a, said, i, b)
        /\ DOMAIN told = DOMAIN said \cup {i}
        /\ \A j \in DOMAIN said : j # i => told[j] = said[j]
    <3>1. IsSaid(items, told) /\ Knows(items, b, told) /\ Turned(items, a, said, i, b)
      BY <2>b, <2>1, <2>4, CaptureKnows
    <3>2. DOMAIN told = DOMAIN said \cup {i} /\ \A j \in DOMAIN said : j # i => told[j] = said[j]
      BY <2>b DEF Hears
    <3> QED BY <3>1, <3>2
  <2>6. Knowing(b, told)
    BY <1>a, <2>5 DEF Knowing
  <2>7. ASSUME IsWhole(said), ItemDone(i) PROVE IsWhole(told) /\ KeepsCalls(a, b)
    <3>1. i \in DOMAIN said /\ said[i].known /\ said[i].size = items[i].size
      BY <1>a, <1>1, <2>2, <2>7 DEF IsWhole
    <3>2. item.size = items[i].size
      BY <1>a, <2>2, <2>7, FinalShows DEF IsShown
    <3>3. told[i].known /\ told[i].size = items[i].size
      <4>1. /\ told[i].known
            /\ told[i].size = IF item.size > 0 THEN item.size ELSE said[i].size + 0
        BY <2>b, <2>3, <3>1 DEF Hears
      <4> QED BY <2>2, <3>1, <3>2, <4>1
    <3>4. IsWhole(told)
      <4>1. ASSUME NEW j \in DOMAIN items, items[j].kind = "call"
            PROVE  j \in DOMAIN told /\ told[j].known /\ told[j].size = items[j].size
        <5>1. CASE j = i
          BY <2>5, <3>3, <5>1
        <5>2. CASE j # i
          <6>1. j \in DOMAIN said /\ said[j].known /\ said[j].size = items[j].size
            BY <1>a, <2>7, <4>1 DEF IsWhole
          <6> QED BY <2>5, <5>2, <6>1
        <5> QED BY <5>1, <5>2
      <4> QED BY <1>a, <4>1 DEF IsWhole
    <3>a. PICK n : n = a.byId[items[i].id]
      OBVIOUS
    <3>5. /\ b.byId[items[i].id] = n /\ n \in DOMAIN b.calls /\ Len(b.calls) = Len(a.calls)
          /\ \A m \in DOMAIN a.calls : m # n => b.calls[m] = a.calls[m]
      BY <2>5, <3>1, <3>a DEF Turned, Place
    <3>6. DOMAIN b.calls = DOMAIN a.calls
      <4>1. a.calls \in Seq(ToolCallStates) /\ b.calls \in Seq(ToolCallStates)
        BY <1>1, <2>5 DEF Knows, IsAccumulator
      <4> QED BY <3>5, <4>1
    <3>7. a.calls[n].call = items[i].call /\ a.calls[n].size = items[i].size
      <4>1. HasRecord(items, a, said, i)
        BY <1>1, <3>1 DEF Knows
      <4> QED BY <3>1, <3>a, <4>1 DEF HasRecord, NameOf
    <3>8. b.calls[n].call = items[i].call /\ b.calls[n].size = items[i].size
      <4>1. HasRecord(items, b, told, i)
        BY <2>5 DEF Knows
      <4> QED BY <3>3, <3>5, <4>1 DEF HasRecord, NameOf
    <3> QED BY <3>4, <3>5, <3>6, <3>7, <3>8 DEF KeepsCalls
  <2> QED BY <2>6, <2>7
<1> QED BY <1>2, <1>3

\* Neither does the list.
LEMMA ChatReplace ==
  ASSUME NEW a, NEW said, Knowing(a, said), IsTold(turn.items, progress),
         NEW out, out \in Seq(LastItems), NEW b, b = ReplaceOutputItems(a, out)
  PROVE  \E told : /\ Knowing(b, told)
                   /\ IsWhole(said) /\ AllDone => KeepsCalls(a, b)
<1>a. PICK S : S = LastItems
  OBVIOUS
<1>1. out \in Seq(S) /\ Len(out) \in Nat
  BY <1>a
<1>2. PICK x : IsReplacing(x, a, out) /\ b = x[Len(out)]
  BY <1>1, ReplacingIs
<1> DEFINE Told(n) == \E told : /\ Knowing(x[n], told)
                                /\ IsWhole(said) /\ AllDone => IsWhole(told) /\ KeepsCalls(a, x[n])
           T == {n \in Nat : n <= Len(out) => Told(n)}
<1>3. 0 \in T
  <2>1. IsAccumulator(a)
    BY DEF Knowing, Knows
  <2>2. SameCalls(a, [a EXCEPT !.outputs = <<>>])
    BY <2>1, FieldsOfOther
  <2>3. x[0] = [a EXCEPT !.outputs = <<>>]
    BY <1>2 DEF IsReplacing
  <2>4. Knowing(x[0], said) /\ KeepsCalls(a, x[0])
    BY <2>2, <2>3, SameKnowing, SameKeeps
  <2> QED BY <2>4
<1>4. ASSUME NEW n \in Nat, n \in T PROVE n + 1 \in T
  <2> SUFFICES ASSUME n + 1 <= Len(out) PROVE Told(n + 1)
    OBVIOUS
  <2>1. PICK told : /\ Knowing(x[n], told)
                    /\ IsWhole(said) /\ AllDone => IsWhole(told) /\ KeepsCalls(a, x[n])
    <3>1. n <= Len(out)
      BY <1>1
    <3> QED BY <1>4, <3>1
  <2>2. n + 1 \in 1 .. Len(out) /\ n + 1 - 1 = n
    BY <1>1
  <2>3. x[n + 1] = CaptureOutputItem(x[n], out[n + 1], n)
    BY <1>2, <2>2 DEF IsReplacing
  <2>4. out[n + 1] \in S
    BY <1>1, <2>2
  <2>5. PICK i \in DOMAIN turn.items : out[n + 1] = FinalItem(i)
    BY <1>a, <2>4 DEF LastItems
  <2>6. PICK now : /\ Knowing(x[n + 1], now)
                   /\ IsWhole(told) /\ ItemDone(i) => IsWhole(now) /\ KeepsCalls(x[n], x[n + 1])
    BY <2>1, <2>3, <2>5, ChatCapture
  <2>7. ASSUME IsWhole(said), AllDone PROVE IsWhole(now) /\ KeepsCalls(a, x[n + 1])
    <3>1. IsWhole(told) /\ KeepsCalls(a, x[n]) /\ ItemDone(i)
      BY <2>1, <2>7 DEF AllDone
    <3>2. IsWhole(now) /\ KeepsCalls(x[n], x[n + 1])
      BY <2>6, <3>1
    <3> QED BY <3>1, <3>2, KeepsTwice
  <2> QED BY <2>6, <2>7
<1>5. Len(out) \in T
  <2> HIDE DEF T
  <2>1. Nat \subseteq T
    BY <1>3, <1>4, Induction
  <2> QED BY <1>1, <2>1
<1> QED BY <1>1, <1>2, <1>5

\* The last event keeps the calls, when it lists them after all was told.
LEMMA ChatApply ==
  ASSUME NEW a, NEW said, Knowing(a, said), IsTold(turn.items, progress),
         NEW type \in {"completed", "incomplete"}, NEW event, event = LastEvent(type),
         NEW last, last = Apply(a, event),
         type = "completed" /\ turn.listed => IsWhole(said) /\ AllDone
  PROVE  /\ last.terminal = type
         /\ type = "completed" => KeepsCalls(a, last)
<1>1. IsAccumulator(a)
  BY DEF Knowing, Knows
<1>2. PICK b, c : /\ SameCalls(a, b)
                  /\ c = (IF event.output # <<>> THEN ReplaceOutputItems(b, event.output) ELSE b)
                  /\ IsAccumulator(c) => SameCalls(c, last) /\ last.terminal = type
  BY <1>1, ApplyLast
<1>3. Knowing(b, said) /\ KeepsCalls(a, b)
  BY <1>2, SameKnowing, SameKeeps
<1>4. IsAccumulator(c) /\ (type = "completed" => KeepsCalls(b, c))
  <2>1. CASE event.output # <<>>
    <3>1. turn.items \in Seq(Shapes) /\ event.output = Listed(type)
      BY LastEventIs DEF IsTold, AreItems
    <3>2. event.output \in Seq(LastItems)
      BY <3>1, ListedIs
    <3>3. turn.listed
      <4> SUFFICES ASSUME ~turn.listed PROVE FALSE
        OBVIOUS
      <4>1. LastItems = {}
        BY DEF LastItems
      <4>2. event.output \in Seq({})
        BY <3>2, <4>1
      <4>3. event.output = <<>>
        BY <4>2
      <4> QED BY <2>1, <4>3
    <3>4. c = ReplaceOutputItems(b, event.output)
      BY <1>2, <2>1
    <3>5. PICK told : /\ Knowing(c, told)
                      /\ IsWhole(said) /\ AllDone => KeepsCalls(b, c)
      BY <1>3, <3>2, <3>4, ChatReplace
    <3>6. IsAccumulator(c)
      BY <3>5 DEF Knowing, Knows
    <3> QED BY <3>3, <3>5, <3>6
  <2>2. CASE event.output = <<>>
    <3>1. c = b
      BY <1>2, <2>2
    <3>2. IsAccumulator(b)
      BY <1>3 DEF Knowing, Knows
    <3>3. KeepsCalls(b, b)
      BY DEF KeepsCalls
    <3> QED BY <3>1, <3>2, <3>3
  <2> QED BY <2>1, <2>2
<1>5. SameCalls(c, last) /\ last.terminal = type
  BY <1>2, <1>4
<1>6. KeepsCalls(c, last)
  BY <1>5, SameKeeps
<1> QED BY <1>3, <1>4, <1>5, <1>6, KeepsTwice

\* When all was told, and all of it in full, every call is whole.
LEMMA WholeWhenDone ==
  ASSUME NEW items, items = turn.items, NEW said, said = SaidOf(items, progress),
         IsTold(items, progress), IsInFull(items),
         \A i \in DOMAIN items : Finished(i),
         \A i \in HeardOf(items, progress) : SayingOf(items[i], progress[i]).known
  PROVE  IsWhole(said) /\ AllDone
<1>1. ASSUME NEW i \in DOMAIN items, items[i].kind = "call"
      PROVE  i \in DOMAIN said /\ said[i].known /\ said[i].size = items[i].size
  <2>1. InOrder(items[i], progress[i])
    BY DEF IsTold
  <2>2. /\ items[i].size \in Nat /\ items[i].deltas \in Nat /\ items[i].whole \in BOOLEAN
        /\ items[i].done \in BOOLEAN /\ progress[i].pieces \in Nat
    BY <2>1, ShapeFields
  <2>3. /\ progress[i].added = (items[i].added # "never") /\ progress[i].pieces = items[i].deltas
        /\ progress[i].whole = items[i].whole /\ progress[i].done = items[i].done
    BY DEF Finished, Shape
  <2>4. \/ items[i].whole \/ items[i].done
        \/ items[i].deltas = items[i].size /\ (items[i].added # "never" \/ items[i].deltas > 0)
    BY <1>1 DEF IsInFull, InFull
  <2>5. i \in HeardOf(items, progress)
    BY <1>1, <2>2, <2>3, <2>4 DEF HeardOf
  <2>6. said[i] = SayingOf(items[i], progress[i]) /\ i \in DOMAIN said
    BY <2>5 DEF SaidOf
  <2>7. SayingOf(items[i], progress[i]).size = items[i].size
    BY <2>2, <2>3, <2>4 DEF SayingOf
  <2> QED BY <2>5, <2>6, <2>7
<1>2. IsWhole(said)
  BY <1>1 DEF IsWhole
<1>3. AllDone
  BY DEF AllDone, ItemDone
<1> QED BY <1>2, <1>3

\* The upstream completes the response when it told everything.
LEMMA CompletedWhenFinished ==
  ASSUME NEW event \in NextEvents, event = LastEvent("completed")
  PROVE  \A i \in DOMAIN progress : Finished(i)
<1>1. event.type = "completed" /\ LastEvent("incomplete").type = "incomplete"
  BY LastEventIs
<1>2. ASSUME NEW i \in DOMAIN progress, NEW type \in NextTypes(i), event = ItemEvent(i, type)
      PROVE  FALSE
  <2>1. type \in {"item.added", "delta", "partial", "done", "item.done"}
    BY TypesOf
  <2>2. IsItemEvent(event, i, type)
    BY <1>2, <2>1, ItemEventIs
  <2> QED BY <1>1, <2>1, <2>2 DEF IsItemEvent
<1>3. event # LastEvent("incomplete")
  BY <1>1
<1> QED BY <1>2, <1>3 DEF NextEvents

\* A client that has N calls counts N of them.
LEMMA CallsCounted ==
  ASSUME NEW bl, NEW N \in Nat, HasCalls(bl, N),
         \A n \in 1 .. N : CallBlock(n - 1) \in DOMAIN bl
  PROVE  Cardinality({key \in DOMAIN bl : bl[key].kind = "call"}) = N
<1> DEFINE K == {key \in DOMAIN bl : bl[key].kind = "call"}
           f == [n \in 1 .. N |-> CallBlock(n - 1)]
<1>1. ASSUME NEW n \in 1 .. N PROVE CallBlock(n - 1) \in K
  <2>1. CallBlock(n - 1) \in DOMAIN bl
    OBVIOUS
  <2>2. bl[CallBlock(n - 1)].kind = CallBlock(n - 1)[1]
    BY <2>1 DEF HasCalls
  <2> QED BY <2>1, <2>2, CallBlockIs
<1>2. ASSUME NEW key \in K PROVE \E n \in 1 .. N : CallBlock(n - 1) = key
  BY DEF HasCalls
<1>3. ASSUME NEW m \in 1 .. N, NEW n \in 1 .. N, CallBlock(m - 1) = CallBlock(n - 1)
      PROVE  m = n
  <2>1. m - 1 = n - 1
    BY <1>3, CallBlocksDiffer
  <2>2. m \in Nat /\ n \in Nat
    OBVIOUS
  <2> QED BY <2>1, <2>2
<1> HIDE DEF K
<1>4. f \in [1 .. N -> K]
  BY <1>1
<1>5. f \in Injection(1 .. N, K)
  BY <1>3, <1>4 DEF Injection, IsInjective
<1>6. f \in Surjection(1 .. N, K)
  BY <1>2, <1>4 DEF Surjection
<1> HIDE DEF f
<1>7. IsFiniteSet(1 .. N) /\ Cardinality(1 .. N) = N
  <2>1. 1 \in Int /\ N \in Int
    OBVIOUS
  <2>2. IsFiniteSet(1 .. N) /\ Cardinality(1 .. N) = IF 1 > N THEN 0 ELSE N - 1 + 1
    BY ONLY <2>1, FS_Interval
  <2>3. \A k \in Nat : (IF 1 > k THEN 0 ELSE k - 1 + 1) = k
    OBVIOUS
  <2> QED BY <2>2, <2>3
<1>8. Cardinality(K) = N
  BY <1>5, <1>6, <1>7, FS_Surjection
<1> QED BY <1>8 DEF K

\* The client counts some calls, and they are those of the answer.
CallsRead(bl, shown, b) ==
  /\ \A n \in 0 .. shown - 1 : <<"call", n>> \in DOMAIN bl
  /\ [n \in 1 .. shown |-> [id |-> bl[<<"call", n - 1>>].id,
                            size |-> bl[<<"call", n - 1>>].size]]
       = ChatToolCalls(b)

\* What a client has of the calls, once no more of them is to come.
LEMMA ChatCallsShown ==
  ASSUME NEW items, NEW prog, NEW a, a.calls \in Seq(ToolCallStates), NEW w, NEW bl,
         ChatShows(items, prog, a, w, bl), NEW b, KeepsCalls(a, b),
         NEW shown, shown = Cardinality({key \in DOMAIN bl : bl[key].kind = "call"})
  PROVE  CallsRead(bl, shown, b)
<1>a. PICK N : N = Len(a.calls)
  OBVIOUS
<1>1. N \in Nat /\ DOMAIN a.calls = 1 .. N
  BY <1>a
<1>2. HasCalls(bl, N) /\ \A n \in 1 .. N : ChatHas(w, bl, n, a.calls[n])
  BY <1>1, <1>a DEF ChatShows
<1>3. ASSUME NEW n \in 1 .. N
      PROVE  /\ CallBlock(n - 1) \in DOMAIN bl
             /\ bl[CallBlock(n - 1)].id = a.calls[n].call
             /\ bl[CallBlock(n - 1)].size = a.calls[n].size
  <2>a. PICK key, r : key = CallBlock(n - 1) /\ r = a.calls[n]
    OBVIOUS
  <2>1. key \in DOMAIN bl /\ bl[key] = CallShown(r.call, r.size, FALSE)
    BY <1>2, <2>a DEF ChatHas
  <2>2. CallShown(r.call, r.size, FALSE).id = r.call /\ CallShown(r.call, r.size, FALSE).size = r.size
    BY DEF CallShown
  <2> QED BY <2>a, <2>1, <2>2
<1>4. shown = N
  BY <1>1, <1>2, <1>3, CallsCounted
<1>5. ASSUME NEW n \in 0 .. shown - 1 PROVE <<"call", n>> \in DOMAIN bl
  <2>1. n + 1 \in 1 .. N /\ n + 1 - 1 = n
    BY <1>1, <1>4
  <2>2. CallBlock(n + 1 - 1) \in DOMAIN bl
    BY <1>3, <2>1
  <2> QED BY <2>1, <2>2 DEF CallBlock
<1>6. ChatToolCalls(b) = [n \in 1 .. N |-> [id |-> b.calls[n].call, size |-> b.calls[n].size]]
  <2>1. DOMAIN b.calls = 1 .. N
    BY <1>1 DEF KeepsCalls
  <2> QED BY <2>1 DEF ChatToolCalls
<1>7. ASSUME NEW n \in 1 .. N
      PROVE  [id |-> bl[<<"call", n - 1>>].id, size |-> bl[<<"call", n - 1>>].size]
               = [id |-> b.calls[n].call, size |-> b.calls[n].size]
  <2>1. b.calls[n].call = a.calls[n].call /\ b.calls[n].size = a.calls[n].size
    BY <1>1 DEF KeepsCalls
  <2> QED BY <1>3, <2>1 DEF CallBlock
<1> QED BY <1>4, <1>5, <1>6, <1>7 DEF CallsRead

\* The end of a response.
LEMMA ChatEnds ==
  ASSUME StreamInv, phase = "streaming", dialect = "chat",
         turn.listed => IsInFull(turn.items),
         ChatShows(turn.items, progress, acc, writer, blocks),
         NEW type \in {"completed", "incomplete"}, NEW event \in NextEvents,
         event = LastEvent(type), Write(event)
  PROVE  ChatCallsMatch'
<1>a. PICK items, said, b : /\ items = turn.items /\ said = SaidOf(items, progress)
                            /\ b = Apply(acc, event)
  OBVIOUS
<1>1. IsTold(items, progress) /\ Knows(items, acc, said) /\ IsSaid(items, said)
      /\ DOMAIN progress = DOMAIN items
  <2>1. IsTold(items, progress) /\ Knows(items, acc, said)
    BY <1>a DEF StreamInv
  <2> QED BY <1>a, <2>1, SaidIsSaid DEF IsTold
<1>2. Knowing(acc, said)
  BY <1>1, <1>a DEF Knowing
<1>3. type = "completed" /\ turn.listed => IsWhole(said) /\ AllDone
  <2> SUFFICES ASSUME type = "completed", turn.listed PROVE IsWhole(said) /\ AllDone
    OBVIOUS
  <2>1. \A i \in DOMAIN items : Finished(i)
    BY <1>1, CompletedWhenFinished
  <2>2. \A i \in HeardOf(items, progress) : SayingOf(items[i], progress[i]).known
    BY <1>a DEF ChatShows
  <2>3. IsInFull(items)
    BY <1>a
  <2> QED BY <1>1, <1>a, <2>1, <2>2, <2>3, WholeWhenDone
<1>4. b.terminal = type /\ (type = "completed" => KeepsCalls(acc, b))
  <2>1. IsTold(turn.items, progress)
    BY <1>1, <1>a
  <2> QED BY <1>2, <1>3, <1>a, <2>1, ChatApply
<1>5. CallOf(b, event.item) = 0
  <2>1. event.item = NoItem
    BY LastEventIs
  <2>2. NoItem.kind = "none"
    BY DEF NoItem
  <2> QED BY <2>1, <2>2 DEF CallOf
<1>b. PICK S : S = LastItems
  OBVIOUS
<1>6. event.output \in Seq(S)
  <2>1. turn.items \in Seq(Shapes) /\ event.output = Listed(type)
    BY <1>1, <1>a, LastEventIs DEF IsTold, AreItems
  <2> QED BY <1>b, <2>1, ListedIs
<1>7. IsChatWriter(writer)
  BY DEF ChatShows
<1>8. acc' = b /\ SameChunks(writer, writer')
  BY <1>5, <1>6, <1>7, <1>a, ChatWrites
<1>9. PICK outs : AreOthers(outs) /\ blocks' = Read(blocks, outs)
  BY <1>5, <1>6, <1>7, <1>a, ChatWrites
<1>10. CASE type = "incomplete"
  <2>1. IsIncomplete(acc')
    BY <1>4, <1>8, <1>10 DEF IsIncomplete
  <2>2. ~FinishesWithCalls(acc')
    BY <2>1 DEF FinishesWithCalls
  <2> QED BY <2>2 DEF ChatCallsMatch
<1>11. CASE type = "completed"
  <2>1. KeepsCalls(acc, acc')
    BY <1>4, <1>8, <1>11
  <2>2. ChatShows(items, progress, acc, writer, blocks)
    BY <1>a
  <2>3. ChatShows(items, progress, acc, writer', Read(blocks, outs))
    BY <1>8, <1>9, <2>2, ChatShowsOn
  <2>4. ChatShows(items, progress, acc, writer', blocks')
    BY <1>9, <2>3
  <2>5. acc.calls \in Seq(ToolCallStates)
    BY <1>1 DEF Knows, IsAccumulator
  <2>a. PICK shown : shown = Cardinality({key \in DOMAIN blocks' : blocks'[key].kind = "call"})
    OBVIOUS
  <2>b. PICK v, bl, c : v = writer' /\ bl = blocks' /\ c = acc'
    OBVIOUS
  <2>6. ChatShows(items, progress, acc, v, bl) /\ KeepsCalls(acc, c)
        /\ shown = Cardinality({key \in DOMAIN bl : bl[key].kind = "call"})
    BY <2>1, <2>4, <2>a, <2>b
  <2>7. CallsRead(bl, shown, c)
    BY <2>5, <2>6, ChatCallsShown
  <2> QED BY <2>7, <2>a, <2>b DEF CallsRead, ChatCallsMatch
<1> QED BY <1>10, <1>11

\* What the proof of ChatCallsMatch keeps besides StreamInv.
ChatInv ==
  /\ dialect = "chat" =>
       IsIntroduced(turn.items) /\ (turn.listed => IsInFull(turn.items))
  /\ dialect = "chat" /\ phase = "streaming" =>
       ChatShows(turn.items, progress, acc, writer, blocks)
  /\ ChatCallsMatch

\* What the theorem below takes from the upstream.
ChatCallsAreTold ==
  \A r \in Requests : r.dialect = "chat" =>
    IsIntroduced(r.turn.items) /\ (r.turn.listed => IsInFull(r.turn.items))

LEMMA ChatInitInv ==
  ASSUME ChatCallsAreTold, StreamInit
  PROVE  ChatInv
<1>1. dialect = "chat" => IsIntroduced(turn.items) /\ (turn.listed => IsInFull(turn.items))
  BY DEF StreamInit, ChatCallsAreTold
<1>2. ASSUME dialect = "chat" PROVE ChatShows(turn.items, progress, acc, writer, blocks)
  <2>1. \A i \in DOMAIN turn.items :
          progress[i] = [added |-> FALSE, pieces |-> 0, whole |-> FALSE, done |-> FALSE]
    BY DEF StreamInit
  <2>2. acc = NewAccumulator /\ blocks = <<>> /\ writer = NewWriter
    BY DEF StreamInit
  <2>3. NewWriter = NewChatWriter
    BY <1>2 DEF NewWriter
  <2>4. AreItems(turn.items)
    BY StreamInitInv DEF StreamInv, IsTold
  <2> QED BY <2>1, <2>2, <2>3, <2>4, ChatNothing
<1>3. ChatCallsMatch
  BY DEF StreamInit, ChatCallsMatch
<1> QED BY <1>1, <1>2, <1>3 DEF ChatInv

LEMMA ChatNextInv == StreamInv /\ ChatInv /\ [StreamNext]_streamVars => ChatInv'
<1> SUFFICES ASSUME StreamInv, ChatInv, [StreamNext]_streamVars PROVE ChatInv'
  OBVIOUS
<1>1. ASSUME NEW event \in NextEvents, Receive(event) PROVE ChatInv'
  <2>1. /\ phase = "streaming" /\ Write(event) /\ dialect' = dialect /\ turn' = turn
        /\ phase' = IF IsTerminal(event) THEN "ended" ELSE phase
    BY <1>1 DEF Receive
  <2>2. dialect' = "chat" => IsIntroduced(turn'.items) /\ (turn'.listed => IsInFull(turn'.items))
    BY <2>1 DEF ChatInv
  <2>3. CASE dialect # "chat"
    BY <2>1, <2>3 DEF ChatInv, ChatCallsMatch
  <2>4. ASSUME dialect = "chat", NEW i \in DOMAIN progress, NEW type \in NextTypes(i),
               event = ItemEvent(i, type)
        PROVE  ChatInv'
    <3>1. IsTelled(i, type, event, progress') /\ ~IsTerminal(event)
      BY <1>1, <2>4, TellingIs
    <3>2. ChatShows(turn.items, progress, acc, writer, blocks) /\ i \in DOMAIN turn.items
      BY <2>1, <2>4, <3>1 DEF ChatInv, IsTelled
    <3>3. ChatShows(turn.items, progress', acc', writer', blocks')
      <4>1. CASE turn.items[i].kind = "call"
        <5>1. Introduced(turn.items[i])
          BY <2>4, <3>2, <4>1 DEF ChatInv, IsIntroduced
        <5> QED BY <2>1, <2>4, <3>1, <3>2, <4>1, <5>1, ChatTell
      <4>2. CASE turn.items[i].kind # "call"
        BY <2>1, <2>4, <3>1, <3>2, <4>2, ChatTellOther
      <4> QED BY <4>1, <4>2
    <3>4. ChatShows(turn'.items, progress', acc', writer', blocks')
      BY <2>1, <3>3
    <3>5. phase' = "streaming"
      BY <2>1, <3>1
    <3>6. ChatCallsMatch'
      BY <3>5 DEF ChatCallsMatch
    <3> QED BY <2>2, <3>4, <3>6 DEF ChatInv
  <2>5. ASSUME dialect = "chat", NEW type \in {"completed", "incomplete"},
               event = LastEvent(type)
        PROVE  ChatInv'
    <3>1. phase' = "ended"
      BY <1>1, <2>5, EndingIs
    <3>2. ChatShows(turn.items, progress, acc, writer, blocks) /\ (turn.listed => IsInFull(turn.items))
      BY <2>1, <2>5 DEF ChatInv
    <3>3. ChatCallsMatch'
      BY <2>1, <2>5, <3>2, ChatEnds
    <3> QED BY <2>2, <3>1, <3>3 DEF ChatInv
  <2> QED BY <2>3, <2>4, <2>5, EventIs
<1>2. CASE Break
  <2>1. /\ phase' = "failed" /\ dialect' = dialect /\ turn' = turn
    BY <1>2 DEF Break
  <2> QED BY <2>1 DEF ChatInv, ChatCallsMatch
<1>3. CASE UNCHANGED streamVars
  <2>1. /\ dialect' = dialect /\ turn' = turn /\ phase' = phase /\ progress' = progress
        /\ acc' = acc /\ writer' = writer /\ blocks' = blocks
    BY <1>3 DEF streamVars
  <2>2. ChatCallsMatch' = ChatCallsMatch
    BY <2>1 DEF ChatCallsMatch
  <2>3. /\ dialect' = "chat" => IsIntroduced(turn'.items) /\ (turn'.listed => IsInFull(turn'.items))
        /\ dialect' = "chat" /\ phase' = "streaming"
             => ChatShows(turn'.items, progress', acc', writer', blocks')
    BY <2>1 DEF ChatInv
  <2> QED BY <2>2, <2>3 DEF ChatInv
<1> QED BY <1>1, <1>2, <1>3 DEF StreamNext

(***************************************************************************)
(* A Chat Completions stream that finishes with tool_calls gave its client *)
(* the calls of the non-streaming answer, each once, in their order and    *)
(* with all of their arguments (chatToolCallStreamer.writeChunk,           *)
(* chatCompletionToolCalls), for any turns in which the first event about  *)
(* a call tells its call id and the last event lists no call that the      *)
(* events before it did not tell in full.                                  *)
(***************************************************************************)
THEOREM ChatStreamsShowTheirCalls ==
  ChatCallsAreTold => (StreamSpec => []ChatCallsMatch)
<1> SUFFICES ASSUME ChatCallsAreTold PROVE StreamSpec => []ChatCallsMatch
  OBVIOUS
<1>1. StreamInit => StreamInv /\ ChatInv
  BY StreamInitInv, ChatInitInv
<1>2. StreamInv /\ ChatInv /\ [StreamNext]_streamVars => (StreamInv /\ ChatInv)'
  BY StreamNextInv, ChatNextInv
<1>3. ChatInv => ChatCallsMatch
  BY DEF ChatInv
<1> QED BY <1>1, <1>2, <1>3, PTL DEF StreamSpec
=============================================================================
