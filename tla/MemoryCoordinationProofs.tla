----------------------- MODULE MemoryCoordinationProofs -----------------------
(***************************************************************************)
(* Proofs about MemoryCoordination, for any actors, items, leases and       *)
(* deadlines, and any number of claims, handoffs and events: what replay    *)
(* shows of the past, and the lease contract.                               *)
(***************************************************************************)
EXTENDS MemoryCoordination, SequenceTheorems, FiniteSetTheorems, WellFoundedInduction, TLAPS

-----------------------------------------------------------------------------
(* Types *)

Status == {"none", "active", "released", "expired", "pending", "accepted", "rejected", "canceled"}
Shown == [claims : [ClaimId -> Status], handoffs : [HandoffId -> Status]]
Event == [kind : {"claim"}, id : ClaimId, after : ClaimRow, at : Nat]
         \cup [kind : {"handoff"}, id : HandoffId, after : HandoffRow, at : Nat]

TypeOK ==
    /\ clock \in Nat
    /\ items \in [Item -> {"absent", "open", "done", "deleted"}]
    /\ claims \in [ClaimId -> ClaimRow \cup {NoRow}]
    /\ handoffs \in [HandoffId -> HandoffRow \cup {NoRow}]
    /\ log \in Seq(Event)
    /\ seen \in Seq(Shown) /\ Len(seen) = clock

-----------------------------------------------------------------------------
(* The first and the last of some numbers *)

LEMMA Smallest == ASSUME NEW S \in SUBSET Nat, S # {} PROVE \E x \in S : \A y \in S : x <= y
<1>1. PICK x \in S : \A y \in S : <<y, x>> \notin OpToRel(<, Nat)
  BY NatLessThanWellFounded, WFMin
<1>2. \A y \in S : ~(y < x)
  BY <1>1 DEF OpToRel
<1> QED
  BY <1>2

LEMMA Greatest ==
    ASSUME NEW n \in Nat, NEW S \in SUBSET (1..n), S # {}
    PROVE  \E x \in S : \A y \in S : y <= x
<1>1. PICK flipped : flipped = {m \in 0..n : n - m \in S}
  OBVIOUS
<1>2. flipped \in SUBSET Nat
  BY <1>1
<1>3. PICK x \in S : TRUE
  OBVIOUS
<1>4. n - x \in flipped
  BY <1>1
<1>5. PICK m \in flipped : \A k \in flipped : m <= k
  BY <1>2, <1>4, Smallest
<1>6. n - m \in S
  BY <1>1
<1>7. ASSUME NEW y \in S PROVE y <= n - m
  <2>1. n - y \in flipped
    BY <1>1
  <2>2. m <= n - y
    BY <1>5, <2>1
  <2>3. y \in Nat /\ m \in Nat
    BY <1>1
  <2> QED
    BY <2>2, <2>3
<1> QED
  BY <1>6, <1>7

LEMMA FirstOf == ASSUME NEW ids \in SUBSET Nat, ids # {} PROVE First(ids) \in ids /\ \A d \in ids : First(ids) <= d
<1>1. \E c \in ids : \A d \in ids : c <= d
  BY Smallest
<1> QED
  BY <1>1 DEF First

-----------------------------------------------------------------------------
(* What a log tells of an entity *)

Of(l, kind, id) == {n \in DOMAIN l : l[n].kind = kind /\ l[n].id = id}

\* The last event of an entity has its row.
Tells(l, kind, id, row) ==
    \/ row = NoRow /\ Of(l, kind, id) = {}
    \/ \E n \in Of(l, kind, id) : l[n].after = row /\ \A m \in Of(l, kind, id) : m <= n

LEMMA AppendTells ==
    ASSUME NEW l \in Seq(Event), NEW e \in Event
    PROVE  /\ Append(l, e) \in Seq(Event) /\ Len(Append(l, e)) = Len(l) + 1
           /\ \A n \in 1..Len(l) : Append(l, e)[n] = l[n]
           /\ Append(l, e)[Len(l) + 1] = e
           /\ Tells(Append(l, e), e.kind, e.id, e.after)
           /\ \A kind, id, row : /\ e.kind # kind \/ e.id # id
                                 /\ Tells(l, kind, id, row)
                                 => Tells(Append(l, e), kind, id, row)
<1>1. PICK more : more = Append(l, e)
  OBVIOUS
<1>2. /\ more \in Seq(Event) /\ Len(more) = Len(l) + 1 /\ DOMAIN more = 1..(Len(l) + 1)
      /\ \A n \in 1..Len(l) : more[n] = l[n]
      /\ more[Len(l) + 1] = e
      /\ Len(l) \in Nat /\ DOMAIN l = 1..Len(l)
  BY <1>1
<1>3. Tells(more, e.kind, e.id, e.after)
  BY <1>2 DEF Tells, Of
<1>4. ASSUME NEW kind, NEW id, NEW row, e.kind # kind \/ e.id # id, Tells(l, kind, id, row)
      PROVE  Tells(more, kind, id, row)
  <2>1. Of(more, kind, id) = Of(l, kind, id)
    BY <1>2, <1>4 DEF Of
  <2>2. \A n \in Of(l, kind, id) : more[n] = l[n]
    BY <1>2 DEF Of
  <2> QED
    BY <1>4, <2>1, <2>2 DEF Tells
<1> QED
  BY <1>1, <1>2, <1>3, <1>4

-----------------------------------------------------------------------------
(* Calls on claims *)

CallState == [rows : [ClaimId -> ClaimRow \cup {NoRow}], log : Seq(Event)]

\* What a call has made of the claims so far: its events are about claims and of
\* now, behind those that were there, and the log tells the rows.
Told(s) ==
    /\ s \in CallState
    /\ Len(s.log) >= Len(log)
    /\ \A n \in 1..Len(log) : s.log[n] = log[n]
    /\ \A n \in (Len(log) + 1)..Len(s.log) : s.log[n].kind = "claim" /\ s.log[n].at = clock
    /\ \A c \in ClaimId : Tells(s.log, "claim", c, s.rows[c])
    /\ \A h \in HandoffId : Tells(s.log, "handoff", h, handoffs[h])

LogTells ==
    /\ \A c \in ClaimId : Tells(log, "claim", c, claims[c])
    /\ \A h \in HandoffId : Tells(log, "handoff", h, handoffs[h])

Dated == \A n \in DOMAIN log : log[n].at <= clock

PastShown ==
    \A t \in 0..(clock - 1) :
         /\ \A c \in ClaimId :
              NormalizeWorkClaimAt(Replayed("claim", c, t), t) = seen[t + 1].claims[c]
         /\ \A h \in HandoffId :
              NormalizeHandoffAt(Replayed("handoff", h, t), t) = seen[t + 1].handoffs[h]

IInv == TypeOK /\ LogTells /\ Dated /\ PastShown

LEMMA NowTold == ASSUME IInv PROVE Told(Now)
<1>1. Now \in CallState /\ Now.rows = claims /\ Now.log = log /\ Len(log) \in Nat
  BY DEF Now, CallState, IInv, TypeOK
<1>2. (Len(log) + 1)..Len(log) = {}
  BY <1>1
<1> QED
  BY <1>1, <1>2 DEF Told, IInv, LogTells

LEMMA WriteTold ==
    ASSUME IInv, NEW s, Told(s), NEW c \in ClaimId, NEW row \in ClaimRow
    PROVE  Told(Write(s, c, row)) /\ Write(s, c, row).rows = [s.rows EXCEPT ![c] = row]
<1>1. PICK e : e = ClaimEvent(c, row)
  OBVIOUS
<1>2. e \in Event /\ e.kind = "claim" /\ e.id = c /\ e.after = row /\ e.at = clock
  BY <1>1 DEF ClaimEvent, Event, IInv, TypeOK
<1>3. PICK l \in Seq(Event) : l = s.log
  BY DEF Told, CallState
<1>4. PICK old \in [ClaimId -> ClaimRow \cup {NoRow}] : old = s.rows
  BY DEF Told, CallState
<1>5. PICK new : new = [old EXCEPT ![c] = row]
  OBVIOUS
<1>6. PICK more : more = Append(l, e)
  OBVIOUS
<1>7. /\ new \in [ClaimId -> ClaimRow \cup {NoRow}] /\ new[c] = row
      /\ \A d \in ClaimId : d # c => new[d] = old[d]
  BY <1>4, <1>5
<1>8. Write(s, c, row) = [rows |-> new, log |-> more]
  BY <1>1, <1>3, <1>4, <1>5, <1>6 DEF Write
<1>9. /\ more \in Seq(Event) /\ Len(more) = Len(l) + 1
      /\ \A n \in 1..Len(l) : more[n] = l[n]
      /\ more[Len(l) + 1] = e
      /\ Tells(more, "claim", c, row)
      /\ \A kind, id, r : (kind # "claim" \/ id # c) /\ Tells(l, kind, id, r) => Tells(more, kind, id, r)
  BY <1>2, <1>3, <1>6, AppendTells
<1>10. Len(l) \in Nat /\ Len(log) \in Nat
  BY <1>3 DEF IInv, TypeOK
<1>11. /\ Len(l) >= Len(log)
       /\ \A n \in 1..Len(log) : l[n] = log[n]
       /\ \A n \in (Len(log) + 1)..Len(l) : l[n].kind = "claim" /\ l[n].at = clock
       /\ \A d \in ClaimId : Tells(l, "claim", d, old[d])
       /\ \A h \in HandoffId : Tells(l, "handoff", h, handoffs[h])
  BY <1>3, <1>4 DEF Told
<1>12. [rows |-> new, log |-> more] \in CallState
  BY <1>7, <1>9 DEF CallState
<1>13. \A n \in 1..Len(log) : more[n] = log[n]
  BY <1>9, <1>10, <1>11
<1>14. \A n \in (Len(log) + 1)..Len(more) : more[n].kind = "claim" /\ more[n].at = clock
  BY <1>2, <1>9, <1>10, <1>11
<1>15. \A d \in ClaimId : Tells(more, "claim", d, new[d])
  BY <1>7, <1>9, <1>11
<1>16. \A h \in HandoffId : Tells(more, "handoff", h, handoffs[h])
  BY <1>9, <1>11
<1>17. Told([rows |-> new, log |-> more])
  BY <1>9, <1>10, <1>11, <1>12, <1>13, <1>14, <1>15, <1>16 DEF Told
<1> QED
  BY <1>4, <1>5, <1>8, <1>17

\* The rows that a call writes.
LEMMA RowsWritten ==
    ASSUME IInv, NEW s, Told(s), NEW c \in ClaimId, s.rows[c] # NoRow
    PROVE  /\ [s.rows[c] EXCEPT !.status = "expired"] \in ClaimRow
           /\ [s.rows[c] EXCEPT !.status = "released"] \in ClaimRow
           /\ \A lease \in Nat : [s.rows[c] EXCEPT !.expires = Max2(@, clock) + lease] \in ClaimRow
<1>1. PICK row \in ClaimRow : row = s.rows[c]
  BY DEF Told, CallState
<1>2. [row EXCEPT !.status = "expired"] \in ClaimRow /\ [row EXCEPT !.status = "released"] \in ClaimRow
  BY DEF ClaimRow
<1>3. row.expires \in Nat /\ clock \in Nat
  BY DEF ClaimRow, IInv, TypeOK
<1>4. Max2(row.expires, clock) \in Nat
  BY <1>3 DEF Max2
<1>5. \A lease \in Nat : Max2(row.expires, clock) + lease \in Nat
  BY <1>4
<1>6. \A lease \in Nat : [row EXCEPT !.expires = Max2(row.expires, clock) + lease] \in ClaimRow
  BY <1>5 DEF ClaimRow
<1> QED
  BY <1>1, <1>2, <1>6

LEMMA ChangeTold ==
    ASSUME IInv, NEW s, Told(s), NEW c \in ClaimId, s.rows[c] # NoRow
    PROVE  /\ Told(Expired(s, c)) /\ Told(Released(s, c))
           /\ \A lease \in Nat : Told(Renewed(s, c, lease))
BY RowsWritten, WriteTold DEF Expired, Released, Renewed

LEMMA SweptTold == ASSUME IInv, NEW s, Told(s), NEW i PROVE Told(Swept(s, i))
<1> DEFINE mine == {c \in ClaimId : s.rows[c] # NoRow /\ s.rows[c].item = i}
<1>1. CASE mine = {}
  BY <1>1 DEF Swept
<1>2. CASE mine # {}
  <2>1. First(mine) \in mine
    BY <1>2, FirstOf DEF ClaimId
  <2>2. Told(Expired(s, First(mine)))
    BY <2>1, ChangeTold
  <2> QED
    BY <2>2 DEF Swept
<1> QED
  BY <1>1, <1>2

\* The bound on a call looks at the id of its last event.
LEMMA WrittenId ==
    ASSUME NEW s, Told(s), NEW c, NEW row, Bounded(Write(s, c, row))
    PROVE  c \in ClaimId
<1>1. PICK l \in Seq(Event) : l = s.log
  BY DEF Told, CallState
<1>2. Write(s, c, row).log = Append(l, ClaimEvent(c, row))
  BY <1>1 DEF Write
<1>3. Len(Append(l, ClaimEvent(c, row))) = Len(l) + 1
      /\ Append(l, ClaimEvent(c, row))[Len(l) + 1] = ClaimEvent(c, row)
  <2> DEFINE Any == Event \cup {ClaimEvent(c, row)}
  <2>1. l \in Seq(Any) /\ ClaimEvent(c, row) \in Any
    BY <1>1
  <2> HIDE DEF Any
  <2> QED
    BY <2>1
<1>4. ClaimEvent(c, row).id = c
  BY DEF ClaimEvent
<1> QED
  BY <1>2, <1>3, <1>4 DEF Bounded

LEMMA ClaimedTold ==
    ASSUME IInv, NEW s, Told(s), NEW a \in Actor, NEW i \in Item, NEW lease \in Nat,
           Bounded(Claimed(s, a, i, lease))
    PROVE  Told(Claimed(s, a, i, lease))
<1>1. PICK swept : swept = Swept(s, i)
  OBVIOUS
<1>2. Told(swept)
  BY <1>1, SweptTold
<1>3. PICK active : active = Standing(swept, i)
  OBVIOUS
<1>4. CASE active # {}
  <2>1. active \in SUBSET ClaimId /\ \A c \in active : swept.rows[c] # NoRow
    BY <1>3 DEF Standing
  <2>2. First(active) \in active
    BY <1>4, <2>1, FirstOf DEF ClaimId
  <2>3. Told(Renewed(swept, First(active), lease))
    BY <1>2, <2>1, <2>2, ChangeTold
  <2> QED
    BY <1>1, <1>3, <1>4, <2>3 DEF Claimed
<1>5. CASE active = {}
  <2>1. PICK c : c = NextId(swept.rows)
    OBVIOUS
  <2>2. PICK row : row = [item |-> i, actor |-> a, status |-> "active", expires |-> clock + lease]
    OBVIOUS
  <2>3. Claimed(s, a, i, lease) = Write(swept, c, row)
    BY <1>1, <1>3, <1>5, <2>1, <2>2 DEF Claimed
  <2>4. row \in ClaimRow
    BY <2>2 DEF ClaimRow, IInv, TypeOK
  <2>5. c \in ClaimId
    BY <1>2, <2>3, WrittenId
  <2>6. Told(Write(swept, c, row))
    BY <1>2, <2>4, <2>5, WriteTold
  <2> QED
    BY <2>3, <2>6, Zenon
<1> QED
  BY <1>4, <1>5
-----------------------------------------------------------------------------
(* Steps that leave the clock alone *)

Continues(l) ==
    /\ l \in Seq(Event) /\ Len(l) >= Len(log)
    /\ \A n \in 1..Len(log) : l[n] = log[n]
    /\ \A n \in (Len(log) + 1)..Len(l) : l[n].at = clock

LEMMA ReplayedStays ==
    ASSUME TypeOK, Continues(log'), NEW kind, NEW id, NEW t \in Nat, t < clock
    PROVE  Replayed(kind, id, t)' = Replayed(kind, id, t)
<1>1. PICK later \in Seq(Event) : later = log'
  BY DEF Continues
<1>2. /\ Len(log) \in Nat /\ Len(later) \in Nat /\ DOMAIN log = 1..Len(log)
      /\ DOMAIN later = 1..Len(later) /\ clock \in Nat
  BY DEF TypeOK
<1>3. /\ Len(later) >= Len(log) /\ \A n \in 1..Len(log) : later[n] = log[n]
      /\ \A n \in (Len(log) + 1)..Len(later) : later[n].at = clock
  BY <1>1 DEF Continues
<1>4. PICK mine : mine = {n \in DOMAIN log : log[n].kind = kind /\ log[n].id = id /\ log[n].at <= t}
  OBVIOUS
<1>5. {n \in DOMAIN later : later[n].kind = kind /\ later[n].id = id /\ later[n].at <= t} = mine
  BY <1>2, <1>3, <1>4
<1>6. CASE mine = {}
  BY <1>1, <1>4, <1>5, <1>6 DEF Replayed
<1>7. CASE mine # {}
  <2>1. mine \in SUBSET (1..Len(log))
    BY <1>2, <1>4
  <2>2. \E n \in mine : \A m \in mine : m <= n
    BY <1>2, <1>7, <2>1, Greatest
  <2>3. PICK last : last = CHOOSE n \in mine : \A m \in mine : m <= n
    OBVIOUS
  <2>4. last \in mine
    BY <2>2, <2>3
  <2>5. later[last] = log[last]
    BY <1>3, <2>1, <2>4
  <2>6. Replayed(kind, id, t) = log[last].after
    BY <1>4, <1>7, <2>3 DEF Replayed
  <2>7. Replayed(kind, id, t)' = later[last].after
    BY <1>1, <1>5, <1>7, <2>3 DEF Replayed
  <2> QED
    BY <2>5, <2>6, <2>7
<1> QED
  BY <1>6, <1>7

LEMMA Continued ==
    ASSUME IInv, TypeOK', LogTells', Continues(log'), UNCHANGED <<clock, seen>>
    PROVE  IInv'
<1>1. clock \in Nat /\ log \in Seq(Event) /\ log' \in Seq(Event)
  BY DEF IInv, TypeOK, Continues
<1>2. \A n \in DOMAIN log' : log'[n].at <= clock
  BY <1>1 DEF IInv, Dated, Continues
<1>3. \A t \in 0..(clock - 1) : \A kind, id : Replayed(kind, id, t)' = Replayed(kind, id, t)
  BY <1>1, ReplayedStays DEF IInv
<1>4. PastShown'
  BY <1>1, <1>3 DEF IInv, PastShown
<1> QED
  BY <1>2, <1>4 DEF IInv, Dated

\* A call that is over has made the claims and the log what it made of them.
LEMMA BecomeInv ==
    ASSUME IInv, NEW s, Told(s), Become(s), UNCHANGED <<clock, items, handoffs, seen>>
    PROVE  IInv'
<1>1. claims' = s.rows /\ log' = s.log
  BY DEF Become
<1>2. claims' \in [ClaimId -> ClaimRow \cup {NoRow}] /\ log' \in Seq(Event)
  BY <1>1 DEF Told, CallState
<1>3. TypeOK'
  BY <1>2 DEF IInv, TypeOK
<1>4. LogTells'
  BY <1>1 DEF LogTells, Told
<1>5. Continues(log')
  BY <1>1, <1>2 DEF Continues, Told
<1> QED
  BY <1>3, <1>4, <1>5, Continued

\* A call that ends with an event about a handoff.
LEMMA HandoffWritten ==
    ASSUME IInv, NEW s, Told(s), NEW h \in HandoffId, NEW row \in HandoffRow,
           claims' = s.rows, handoffs' = [handoffs EXCEPT ![h] = row],
           log' = Append(s.log, HandoffEvent(h, row)), UNCHANGED <<clock, items, seen>>
    PROVE  IInv'
<1>1. PICK e : e = HandoffEvent(h, row)
  OBVIOUS
<1>2. e \in Event /\ e.kind = "handoff" /\ e.id = h /\ e.after = row /\ e.at = clock
  BY <1>1 DEF HandoffEvent, Event, IInv, TypeOK
<1>3. PICK l \in Seq(Event) : l = s.log
  BY DEF Told, CallState
<1>4. log' = Append(l, e)
  BY <1>1, <1>3
<1>5. /\ log' \in Seq(Event) /\ Len(log') = Len(l) + 1
      /\ \A n \in 1..Len(l) : log'[n] = l[n]
      /\ log'[Len(l) + 1] = e
      /\ Tells(log', "handoff", h, row)
      /\ \A kind, id, r : (kind # "handoff" \/ id # h) /\ Tells(l, kind, id, r) => Tells(log', kind, id, r)
  BY <1>2, <1>3, <1>4, AppendTells
<1>6. /\ claims' \in [ClaimId -> ClaimRow \cup {NoRow}]
      /\ Len(l) >= Len(log)
      /\ \A n \in 1..Len(log) : l[n] = log[n]
      /\ \A n \in (Len(log) + 1)..Len(l) : l[n].at = clock
      /\ \A c \in ClaimId : Tells(l, "claim", c, claims'[c])
      /\ \A g \in HandoffId : Tells(l, "handoff", g, handoffs[g])
  BY <1>3 DEF Told, CallState
<1>7. /\ handoffs' \in [HandoffId -> HandoffRow \cup {NoRow}] /\ handoffs'[h] = row
      /\ \A g \in HandoffId : g # h => handoffs'[g] = handoffs[g]
  BY DEF IInv, TypeOK
<1>8. TypeOK'
  BY <1>5, <1>6, <1>7 DEF IInv, TypeOK
<1>9. LogTells'
  BY <1>5, <1>6, <1>7 DEF LogTells
<1>10. Continues(log')
  <2>1. Len(l) \in Nat /\ Len(log) \in Nat
    BY <1>3 DEF IInv, TypeOK
  <2> QED
    BY <1>2, <1>5, <1>6, <2>1 DEF Continues
<1> QED
  BY <1>8, <1>9, <1>10, Continued

LEMMA HandoffStatus ==
    ASSUME IInv, NEW h \in HandoffId, handoffs[h] # NoRow,
           NEW status \in {"accepted", "rejected", "canceled", "expired"}
    PROVE  \E row \in HandoffRow :
             /\ row = [handoffs[h] EXCEPT !.status = status]
             /\ [handoffs EXCEPT ![h].status = status] = [handoffs EXCEPT ![h] = row]
             /\ [handoffs EXCEPT ![h].status = status][h] = row
<1>1. PICK old \in HandoffRow : old = handoffs[h]
  BY DEF IInv, TypeOK
<1>2. PICK row : row = [old EXCEPT !.status = status]
  OBVIOUS
<1>3. row \in HandoffRow
  BY <1>2 DEF HandoffRow
<1>4. [handoffs EXCEPT ![h].status = status] = [handoffs EXCEPT ![h] = row]
  BY <1>1, <1>2
<1>5. [handoffs EXCEPT ![h] = row][h] = row
  BY DEF IInv, TypeOK
<1> QED
  BY <1>1, <1>2, <1>3, <1>4, <1>5

LEMMA DecideInv ==
    ASSUME IInv, NEW h \in HandoffId, handoffs[h] # NoRow,
           NEW status \in {"accepted", "rejected", "canceled", "expired"},
           Decide(h, status), UNCHANGED <<clock, items, claims, seen>>
    PROVE  IInv'
<1>1. PICK row \in HandoffRow :
        /\ row = [handoffs[h] EXCEPT !.status = status]
        /\ [handoffs EXCEPT ![h].status = status] = [handoffs EXCEPT ![h] = row]
        /\ [handoffs EXCEPT ![h].status = status][h] = row
  BY HandoffStatus, Zenon
<1>2. handoffs' = [handoffs EXCEPT ![h] = row] /\ log' = Append(log, HandoffEvent(h, row))
  BY <1>1 DEF Decide
<1>3. Told(Now) /\ Now.rows = claims /\ Now.log = log
  BY NowTold DEF Now
<1> QED
  BY <1>2, <1>3, HandoffWritten
-----------------------------------------------------------------------------
(* The events of a reaper: one for each id, in order *)

Rank(ids, c) == Cardinality({d \in ids : d <= c})

LEMMA Ranked ==
    ASSUME NEW ids \in SUBSET Nat, IsFiniteSet(ids)
    PROVE  /\ Cardinality(ids) \in Nat /\ DOMAIN InOrder(ids) = 1..Cardinality(ids)
           /\ \A n \in 1..Cardinality(ids) : InOrder(ids)[n] \in ids
           /\ \A c \in ids : /\ Rank(ids, c) \in 1..Cardinality(ids)
                             /\ InOrder(ids)[Rank(ids, c)] = c
           /\ \A n \in 1..Cardinality(ids) : Rank(ids, InOrder(ids)[n]) = n
<1>1. PICK size \in Nat : size = Cardinality(ids)
  BY FS_CardinalityType
<1>2. \A c \in ids : IsFiniteSet({d \in ids : d <= c}) /\ Rank(ids, c) \in Nat /\ Rank(ids, c) <= size
  <2> TAKE c \in ids
  <2>1. {d \in ids : d <= c} \in SUBSET ids
    OBVIOUS
  <2>2. IsFiniteSet({d \in ids : d <= c}) /\ Cardinality({d \in ids : d <= c}) <= size
    BY <1>1, <2>1, FS_Subset
  <2> QED
    BY <2>2, FS_CardinalityType DEF Rank
<1>3. ASSUME NEW c \in ids, NEW d \in ids, c < d PROVE Rank(ids, c) < Rank(ids, d)
  <2>1. PICK below : below = {e \in ids : e <= c}
    OBVIOUS
  <2>2. PICK upto : upto = {e \in ids : e <= d}
    OBVIOUS
  <2>3. below \in SUBSET upto /\ d \in upto /\ d \notin below
    <3>1. c \in Nat /\ d \in Nat /\ \A e \in ids : e \in Nat
      OBVIOUS
    <3>2. \A e \in ids : e <= c => e <= d
      BY <1>3, <3>1
    <3>3. below \in SUBSET upto
      BY <2>1, <2>2, <3>2
    <3>4. d \in upto
      BY <2>2, <3>1
    <3>5. d \notin below
      BY <1>3, <2>1, <3>1
    <3> QED
      BY <3>3, <3>4, <3>5
  <2>4. IsFiniteSet(upto)
    BY <1>2, <2>2
  <2>5. Cardinality(below) <= Cardinality(upto) /\ Cardinality(below) # Cardinality(upto)
    BY <2>3, <2>4, FS_Subset
  <2>6. Cardinality(below) \in Nat /\ Cardinality(upto) \in Nat
    BY <2>3, <2>4, FS_Subset, FS_CardinalityType
  <2> QED
    BY <2>1, <2>2, <2>5, <2>6 DEF Rank
<1>4. \A c, d \in ids : Rank(ids, c) = Rank(ids, d) => c = d
  <2> SUFFICES ASSUME NEW c \in ids, NEW d \in ids, c # d PROVE Rank(ids, c) # Rank(ids, d)
    OBVIOUS
  <2>1. c \in Nat /\ d \in Nat /\ Rank(ids, c) \in Nat /\ Rank(ids, d) \in Nat
    BY <1>2
  <2> QED
    BY <1>3, <2>1
<1>5. \A c \in ids : Rank(ids, c) \in 1..size
  <2> TAKE c \in ids
  <2>1. c \in {d \in ids : d <= c}
    OBVIOUS
  <2>2. IsFiniteSet({d \in ids : d <= c}) /\ Cardinality({d \in ids : d <= c}) # 0
    BY <1>2, <2>1, FS_EmptySet
  <2>3. Rank(ids, c) # 0 /\ Rank(ids, c) \in Nat /\ Rank(ids, c) <= size
    BY <1>2, <2>2 DEF Rank
  <2> QED
    BY <2>3
<1>6. \A n \in 1..size : \E c \in ids : Rank(ids, c) = n
  <2>1. PICK rank : rank = [c \in ids |-> Rank(ids, c)]
    OBVIOUS
  <2>2. rank \in Injection(ids, 1..size)
    BY <1>4, <1>5, <2>1 DEF Injection, IsInjective
  <2>3. IsFiniteSet(1..size) /\ Cardinality(1..size) = size
    BY <1>1, FS_Interval
  <2>4. rank \in Surjection(ids, 1..size)
    BY <1>1, <2>2, <2>3, FS_Injection
  <2> QED
    BY <2>1, <2>4 DEF Surjection
<1>7. \A n \in 1..size : InOrder(ids)[n] \in ids /\ Rank(ids, InOrder(ids)[n]) = n
  <2> TAKE n \in 1..size
  <2>1. InOrder(ids)[n] = CHOOSE c \in ids : Rank(ids, c) = n
    BY <1>1 DEF InOrder, Rank
  <2> QED
    BY <1>6, <2>1
<1>8. \A c \in ids : InOrder(ids)[Rank(ids, c)] = c
  BY <1>4, <1>5, <1>7
<1>9. DOMAIN InOrder(ids) = 1..size
  BY <1>1 DEF InOrder
<1> QED
  BY <1>1, <1>5, <1>7, <1>8, <1>9

\* The events of some ids, each with its row.
Records(more, ids, kind, after) ==
    /\ more \in Seq(Event) /\ DOMAIN more = DOMAIN InOrder(ids)
    /\ \A n \in DOMAIN more : /\ more[n].kind = kind /\ more[n].id = InOrder(ids)[n]
                              /\ more[n].after = after[InOrder(ids)[n]]
                              /\ more[n].at = clock

LEMMA AppendedTell ==
    ASSUME NEW l \in Seq(Event), NEW ids \in SUBSET Nat, IsFiniteSet(ids),
           NEW more, NEW kind, NEW after, Records(more, ids, kind, after)
    PROVE  /\ \A c \in ids : Tells(l \o more, kind, c, after[c])
           /\ \A k, id, row : /\ k # kind \/ id \notin ids
                              /\ Tells(l, k, id, row)
                              => Tells(l \o more, k, id, row)
<1> USE DEF Records
<1>1. PICK both : both = l \o more
  OBVIOUS
<1>2. /\ Len(l) \in Nat /\ Len(more) \in Nat /\ DOMAIN l = 1..Len(l) /\ DOMAIN more = 1..Len(more)
      /\ DOMAIN both = 1..(Len(l) + Len(more))
      /\ \A n \in 1..Len(l) : both[n] = l[n]
      /\ \A n \in 1..Len(more) : both[Len(l) + n] = more[n]
  BY <1>1
<1>3. /\ 1..Len(more) = 1..Cardinality(ids)
      /\ \A n \in 1..Len(more) : InOrder(ids)[n] \in ids /\ Rank(ids, InOrder(ids)[n]) = n
      /\ \A c \in ids : Rank(ids, c) \in 1..Len(more) /\ InOrder(ids)[Rank(ids, c)] = c
  <2>1. PICK size : /\ size = Cardinality(ids) /\ size \in Nat
                    /\ DOMAIN InOrder(ids) = 1..size
    BY Ranked
  <2>2. 1..Len(more) = 1..size
    BY <1>2, <2>1
  <2> QED
    BY <2>1, <2>2, Ranked, Zenon
<1>4. ASSUME NEW c \in ids PROVE Tells(both, kind, c, after[c])
  <2>1. PICK n \in 1..Len(more) : n = Rank(ids, c) /\ InOrder(ids)[n] = c
    BY <1>3
  <2>2. both[Len(l) + n].kind = kind /\ both[Len(l) + n].id = c /\ both[Len(l) + n].after = after[c]
    BY <1>2, <2>1
  <2>3. Len(l) + n \in Of(both, kind, c)
    BY <1>2, <2>1, <2>2 DEF Of
  <2>4. ASSUME NEW m \in Of(both, kind, c), m > Len(l) PROVE m = Len(l) + n
    <3>1. m - Len(l) \in 1..Len(more) /\ m = Len(l) + (m - Len(l))
      BY <1>2, <2>4 DEF Of
    <3>2. both[m] = more[m - Len(l)]
      BY <1>2, <3>1
    <3>3. InOrder(ids)[m - Len(l)] = c
      BY <1>2, <2>4, <3>1, <3>2 DEF Of
    <3>4. m - Len(l) = n
      BY <1>3, <2>1, <3>1, <3>3
    <3> QED
      BY <3>1, <3>4
  <2>5. \A m \in Of(both, kind, c) : m <= Len(l) + n
    BY <1>2, <2>1, <2>4 DEF Of
  <2> QED
    BY <2>2, <2>3, <2>5 DEF Tells
<1>5. ASSUME NEW k, NEW id, NEW row, k # kind \/ id \notin ids, Tells(l, k, id, row)
      PROVE  Tells(both, k, id, row)
  <2>1. ASSUME NEW m \in Of(both, k, id) PROVE m \in 1..Len(l)
    <3> SUFFICES ASSUME m > Len(l) PROVE FALSE
      BY <1>2 DEF Of
    <3>1. m - Len(l) \in 1..Len(more) /\ m = Len(l) + (m - Len(l))
      BY <1>2 DEF Of
    <3>2. both[m] = more[m - Len(l)]
      BY <1>2, <3>1
    <3>3. more[m - Len(l)].kind = kind /\ more[m - Len(l)].id \in ids
      BY <1>2, <1>3, <3>1
    <3>4. both[m].kind = k /\ both[m].id = id
      BY DEF Of
    <3> QED
      BY <1>5, <3>2, <3>3, <3>4
  <2>2. Of(both, k, id) = Of(l, k, id)
    BY <1>2, <2>1 DEF Of
  <2>3. \A n \in Of(l, k, id) : both[n] = l[n]
    BY <1>2 DEF Of
  <2> QED
    BY <1>5, <2>2, <2>3 DEF Tells
<1> QED
  BY <1>1, <1>4, <1>5
LEMMA IdsFinite ==
    /\ \A ids \in SUBSET ClaimId : IsFiniteSet(ids) /\ ids \in SUBSET Nat
    /\ \A ids \in SUBSET HandoffId : IsFiniteSet(ids) /\ ids \in SUBSET Nat
<1>1. IsFiniteSet(ClaimId) /\ IsFiniteSet(HandoffId)
  BY MemoryAssumption, FS_Interval DEF ClaimId, HandoffId
<1>2. ClaimId \subseteq Nat /\ HandoffId \subseteq Nat
  BY DEF ClaimId, HandoffId
<1> QED
  BY <1>1, <1>2, FS_Subset

\* What the two reapers have in common.
LEMMA Reaped ==
    ASSUME IInv, NEW ids \in SUBSET Nat, IsFiniteSet(ids),
           NEW more, NEW kind, NEW after, Records(more, ids, kind, after)
    PROVE  /\ Continues(log \o more)
           /\ \A c \in ids : Tells(log \o more, kind, c, after[c])
           /\ \A k, id, row : (k # kind \/ id \notin ids) /\ Tells(log, k, id, row)
                              => Tells(log \o more, k, id, row)
<1>1. log \in Seq(Event)
  BY DEF IInv, TypeOK
<1>2. PICK both : both = log \o more
  OBVIOUS
<1>9. /\ more \in Seq(Event)
      /\ \A n \in DOMAIN more : more[n].at = clock
  BY DEF Records
<1>3. /\ both \in Seq(Event) /\ Len(both) = Len(log) + Len(more)
      /\ Len(log) \in Nat /\ Len(more) \in Nat /\ DOMAIN more = 1..Len(more)
      /\ \A n \in 1..Len(log) : both[n] = log[n]
      /\ \A n \in 1..Len(more) : both[Len(log) + n] = more[n]
  BY <1>1, <1>2, <1>9
<1>4. ASSUME NEW m \in (Len(log) + 1)..Len(both) PROVE both[m].at = clock
  <2>1. m - Len(log) \in 1..Len(more) /\ m = Len(log) + (m - Len(log))
    BY <1>3
  <2>2. both[m] = more[m - Len(log)]
    BY <1>3, <2>1
  <2> QED
    BY <1>9, <1>3, <2>1, <2>2
<1>5. Continues(both)
  BY <1>3, <1>4 DEF Continues
<1> QED
  BY <1>1, <1>2, <1>5, AppendedTell

LEMMA ReapClaimsInv == ASSUME IInv, ExpireStaleClaims PROVE IInv'
<1>1. PICK stale \in SUBSET ClaimId : stale = {c \in ClaimId : Lapsed(c)}
  OBVIOUS
<1>2. PICK more : more = [n \in DOMAIN InOrder(stale) |->
                             ClaimEvent(InOrder(stale)[n], claims'[InOrder(stale)[n]])]
  OBVIOUS
<1>3. /\ claims' = [c \in ClaimId |->
                      IF c \in stale THEN [claims[c] EXCEPT !.status = "expired"] ELSE claims[c]]
      /\ log' = log \o more
      /\ UNCHANGED <<clock, items, handoffs, seen>>
  BY <1>1, <1>2 DEF ExpireStaleClaims
<1>4. \A c \in stale : claims'[c] \in ClaimRow
  <2> TAKE c \in stale
  <2>1. PICK row \in ClaimRow : row = claims[c]
    BY <1>1 DEF Lapsed, Active, IInv, TypeOK
  <2>2. [row EXCEPT !.status = "expired"] \in ClaimRow
    BY DEF ClaimRow
  <2> QED
    BY <1>3, <2>1, <2>2
<1>5. claims' \in [ClaimId -> ClaimRow \cup {NoRow}] /\ \A c \in ClaimId \ stale : claims'[c] = claims[c]
  BY <1>3, <1>4 DEF IInv, TypeOK
<1>6. stale \in SUBSET Nat /\ IsFiniteSet(stale)
  BY IdsFinite
<1>7. more \in Seq(Event)
  <2>1. ASSUME NEW n \in 1..Cardinality(stale) PROVE more[n] \in Event
    <3>1. PICK c \in stale : c = InOrder(stale)[n] /\ n \in DOMAIN InOrder(stale)
      BY <1>6, Ranked
    <3>2. more[n] = [kind |-> "claim", id |-> c, after |-> claims'[c], at |-> clock]
      BY <1>2, <3>1 DEF ClaimEvent
    <3> QED
      BY <1>4, <3>1, <3>2 DEF Event, IInv, TypeOK
  <2>2. more \in [1..Cardinality(stale) -> Event] /\ Cardinality(stale) \in Nat
    BY <1>2, <1>6, <2>1, Ranked
  <2> QED
    BY <2>2
<1>8. /\ DOMAIN more = DOMAIN InOrder(stale)
      /\ \A n \in DOMAIN more : /\ more[n].kind = "claim" /\ more[n].id = InOrder(stale)[n]
                                /\ more[n].after = claims'[InOrder(stale)[n]] /\ more[n].at = clock
  BY <1>2 DEF ClaimEvent
<1>9. PICK after : after = claims' /\ Records(more, stale, "claim", after)
  BY <1>7, <1>8 DEF Records
<1>10. /\ Continues(log \o more)
       /\ \A c \in stale : Tells(log \o more, "claim", c, after[c])
       /\ \A k, id, row : (k # "claim" \/ id \notin stale) /\ Tells(log, k, id, row)
                          => Tells(log \o more, k, id, row)
  BY <1>6, <1>9, Reaped
<1>11. LogTells'
  BY <1>3, <1>5, <1>9, <1>10 DEF LogTells, IInv
<1>12. TypeOK' /\ Continues(log')
  BY <1>3, <1>5, <1>10 DEF IInv, TypeOK, Continues
<1> QED
  BY <1>3, <1>11, <1>12, Continued

LEMMA ReapHandoffsInv == ASSUME IInv, ExpireStaleHandoffs PROVE IInv'
<1>1. PICK stale \in SUBSET HandoffId : stale = {h \in HandoffId : StaleHandoff(h)}
  OBVIOUS
<1>2. PICK more : more = [n \in DOMAIN InOrder(stale) |->
                             HandoffEvent(InOrder(stale)[n], handoffs'[InOrder(stale)[n]])]
  OBVIOUS
<1>3. /\ handoffs' = [h \in HandoffId |->
                IF h \in stale THEN [handoffs[h] EXCEPT !.status = "expired"] ELSE handoffs[h]]
      /\ log' = log \o more
      /\ UNCHANGED <<clock, items, claims, seen>>
  BY <1>1, <1>2 DEF ExpireStaleHandoffs
<1>4. \A h \in stale : handoffs'[h] \in HandoffRow
  <2> TAKE h \in stale
  <2>1. PICK row \in HandoffRow : row = handoffs[h]
    BY <1>1 DEF StaleHandoff, Pending, IInv, TypeOK
  <2>2. [row EXCEPT !.status = "expired"] \in HandoffRow
    BY DEF HandoffRow
  <2> QED
    BY <1>3, <2>1, <2>2
<1>5. handoffs' \in [HandoffId -> HandoffRow \cup {NoRow}] /\ \A h \in HandoffId \ stale : handoffs'[h] = handoffs[h]
  BY <1>3, <1>4 DEF IInv, TypeOK
<1>6. stale \in SUBSET Nat /\ IsFiniteSet(stale)
  BY IdsFinite
<1>7. more \in Seq(Event)
  <2>1. ASSUME NEW n \in 1..Cardinality(stale) PROVE more[n] \in Event
    <3>1. PICK h \in stale : h = InOrder(stale)[n] /\ n \in DOMAIN InOrder(stale)
      BY <1>6, Ranked
    <3>2. more[n] = [kind |-> "handoff", id |-> h, after |-> handoffs'[h], at |-> clock]
      BY <1>2, <3>1 DEF HandoffEvent
    <3> QED
      BY <1>4, <3>1, <3>2 DEF Event, IInv, TypeOK
  <2>2. more \in [1..Cardinality(stale) -> Event] /\ Cardinality(stale) \in Nat
    BY <1>2, <1>6, <2>1, Ranked
  <2> QED
    BY <2>2
<1>8. /\ DOMAIN more = DOMAIN InOrder(stale)
      /\ \A n \in DOMAIN more : /\ more[n].kind = "handoff" /\ more[n].id = InOrder(stale)[n]
                                /\ more[n].after = handoffs'[InOrder(stale)[n]] /\ more[n].at = clock
  BY <1>2 DEF HandoffEvent
<1>9. PICK after : after = handoffs' /\ Records(more, stale, "handoff", after)
  BY <1>7, <1>8 DEF Records
<1>10. /\ Continues(log \o more)
       /\ \A h \in stale : Tells(log \o more, "handoff", h, after[h])
       /\ \A k, id, row : (k # "handoff" \/ id \notin stale) /\ Tells(log, k, id, row)
                          => Tells(log \o more, k, id, row)
  BY <1>6, <1>9, Reaped
<1>11. LogTells'
  BY <1>3, <1>5, <1>9, <1>10 DEF LogTells, IInv
<1>12. TypeOK' /\ Continues(log')
  BY <1>3, <1>5, <1>10 DEF IInv, TypeOK, Continues
<1> QED
  BY <1>3, <1>11, <1>12, Continued

-----------------------------------------------------------------------------
(* A second passes *)

\* At the end of a second the log tells the rows of that second.
LEMMA ReplayedNow ==
    ASSUME TypeOK, Dated, NEW kind, NEW id, NEW row, Tells(log, kind, id, row)
    PROVE  Replayed(kind, id, clock) = row
<1>1. {n \in DOMAIN log : log[n].kind = kind /\ log[n].id = id /\ log[n].at <= clock} = Of(log, kind, id)
  BY DEF Dated, Of
<1>2. CASE row = NoRow /\ Of(log, kind, id) = {}
  BY <1>1, <1>2 DEF Replayed
<1>3. CASE \E n \in Of(log, kind, id) : log[n].after = row /\ \A m \in Of(log, kind, id) : m <= n
  <2>1. PICK mine : mine = Of(log, kind, id)
    OBVIOUS
  <2>2. PICK n \in mine : log[n].after = row /\ \A m \in mine : m <= n
    BY <1>3, <2>1
  <2>3. mine \subseteq Nat
    BY <2>1 DEF Of, TypeOK
  <2>4. (CHOOSE k \in mine : \A m \in mine : m <= k) = n
    <3>1. \A k \in mine : (\A m \in mine : m <= k) => k = n
      BY <2>2, <2>3
    <3> QED
      BY <2>2, <3>1
  <2> QED
    BY <1>1, <2>1, <2>2, <2>4 DEF Replayed
<1> QED
  BY <1>2, <1>3 DEF Tells

LEMMA TickInv == ASSUME IInv, Tick PROVE IInv'
<1>1. PICK shown : shown = [claims   |-> [c \in ClaimId |-> EffectiveClaim(c)],
                            handoffs |-> [h \in HandoffId |-> EffectiveHandoff(h)]]
  OBVIOUS
<1>2. clock' = clock + 1 /\ seen' = Append(seen, shown) /\ UNCHANGED <<items, claims, handoffs, log>>
  BY <1>1 DEF Tick, rows
<1>3. clock \in Nat /\ seen \in Seq(Shown) /\ Len(seen) = clock /\ log \in Seq(Event)
  BY DEF IInv, TypeOK
<1>4. \A c \in ClaimId : EffectiveClaim(c) \in Status /\ EffectiveClaim(c) = NormalizeWorkClaimAt(claims[c], clock)
  <2> TAKE c \in ClaimId
  <2>1. claims[c] = NoRow \/ claims[c].status \in {"active", "released", "expired"}
    BY DEF IInv, TypeOK, ClaimRow
  <2> QED
    BY <2>1 DEF EffectiveClaim, NormalizeWorkClaimAt, Lapsed, Active, Status
<1>5. \A h \in HandoffId : EffectiveHandoff(h) \in Status /\ EffectiveHandoff(h) = NormalizeHandoffAt(handoffs[h], clock)
  <2> TAKE h \in HandoffId
  <2>1. handoffs[h] = NoRow \/ handoffs[h].status \in {"pending", "accepted", "rejected", "canceled", "expired"}
    BY DEF IInv, TypeOK, HandoffRow
  <2> QED
    BY <2>1 DEF EffectiveHandoff, NormalizeHandoffAt, StaleHandoff, Pending, Status
<1>6. shown \in Shown
  BY <1>1, <1>4, <1>5 DEF Shown
<1>7. /\ seen' \in Seq(Shown) /\ Len(seen') = clock'
      /\ \A n \in 1..clock : seen'[n] = seen[n]
      /\ seen'[clock + 1] = shown
  BY <1>2, <1>3, <1>6
<1>8. TypeOK'
  BY <1>2, <1>3, <1>7 DEF IInv, TypeOK
<1>9. LogTells'
  BY <1>2 DEF IInv, LogTells
<1>10. Dated'
  <2>1. \A n \in DOMAIN log : log[n].at \in Nat
    BY <1>3 DEF Event
  <2> QED
    BY <1>2, <1>3, <2>1 DEF IInv, Dated
<1>11. \A kind, id, t : Replayed(kind, id, t)' = Replayed(kind, id, t)
  BY <1>2 DEF Replayed
<1>12. ASSUME NEW t \in 0..clock
       PROVE  /\ \A c \in ClaimId : NormalizeWorkClaimAt(Replayed("claim", c, t), t) = seen'[t + 1].claims[c]
              /\ \A h \in HandoffId : NormalizeHandoffAt(Replayed("handoff", h, t), t) = seen'[t + 1].handoffs[h]
  <2>1. CASE t = clock
    <3>1. /\ \A c \in ClaimId : Replayed("claim", c, clock) = claims[c]
          /\ \A h \in HandoffId : Replayed("handoff", h, clock) = handoffs[h]
      BY ReplayedNow DEF IInv, LogTells
    <3> QED
      BY <1>1, <1>4, <1>5, <1>7, <2>1, <3>1
  <2>2. CASE t # clock
    <3>1. t \in 0..(clock - 1) /\ t + 1 \in 1..clock
      BY <1>3, <2>2
    <3>2. seen'[t + 1] = seen[t + 1]
      BY <1>7, <3>1
    <3> QED
      BY <3>1, <3>2 DEF IInv, PastShown
  <2> QED
    BY <2>1, <2>2
<1>13. PastShown'
  <2>1. 0..(clock' - 1) = 0..clock
    BY <1>2, <1>3
  <2> QED
    BY <1>11, <1>12, <2>1 DEF PastShown
<1> QED
  BY <1>8, <1>9, <1>10, <1>13 DEF IInv
-----------------------------------------------------------------------------
(* Every step keeps the invariant *)

LEMMA InitInv == Init => IInv
<1> SUFFICES ASSUME Init PROVE IInv
  OBVIOUS
<1>1. TypeOK
  BY DEF Init, TypeOK
<1>2. \A kind, id : Of(log, kind, id) = {}
  BY DEF Init, Of
<1>3. LogTells
  BY <1>2 DEF Init, LogTells, Tells
<1>4. Dated /\ PastShown
  BY DEF Init, Dated, PastShown
<1> QED
  BY <1>1, <1>3, <1>4 DEF IInv

LEMMA RowsUntouched ==
    ASSUME IInv, UNCHANGED <<clock, claims, handoffs, log, seen>>,
           items' \in [Item -> {"absent", "open", "done", "deleted"}]
    PROVE  IInv'
<1>1. TypeOK' /\ LogTells'
  BY DEF IInv, TypeOK, LogTells
<1>2. log \in Seq(Event) /\ Len(log) \in Nat /\ (Len(log) + 1)..Len(log) = {}
  BY DEF IInv, TypeOK
<1>3. Continues(log')
  BY <1>2 DEF Continues
<1> QED
  BY <1>1, <1>3, Continued

LEMMA ItemsInv == ASSUME IInv, ItemStep PROVE IInv'
<1>1. UNCHANGED <<clock, claims, handoffs, log, seen>>
  BY DEF ItemStep, InsertWorkItem, UpdateWorkItem, DeleteWorkItem, rows
<1>2. items' \in [Item -> {"absent", "open", "done", "deleted"}]
  BY DEF ItemStep, InsertWorkItem, UpdateWorkItem, DeleteWorkItem, IInv, TypeOK
<1> QED
  BY <1>1, <1>2, RowsUntouched

LEMMA ClaimsInv == ASSUME IInv, ClaimStep PROVE IInv'
<1>1. ASSUME NEW a \in Actor, NEW i \in Item, NEW lease \in Lease, ClaimWorkItem(a, i, lease) PROVE IInv'
  <2>1. lease \in Nat
    BY MemoryAssumption
  <2>2. Told(Claimed(Now, a, i, lease))
    BY <1>1, <2>1, NowTold, ClaimedTold DEF ClaimWorkItem
  <2> QED
    BY <1>1, <2>2, BecomeInv DEF ClaimWorkItem
<1>2. ASSUME NEW a \in Actor, NEW c \in ClaimId, NEW lease \in Lease, RenewWorkClaim(a, c, lease) PROVE IInv'
  <2>1. lease \in Nat
    BY MemoryAssumption
  <2>2. Now.rows[c] # NoRow
    BY <1>2 DEF RenewWorkClaim, Active, Now
  <2>3. Told(Expired(Now, c)) /\ Told(Renewed(Now, c, lease))
    BY <2>1, <2>2, NowTold, ChangeTold
  <2>4. Become(Expired(Now, c)) \/ Become(Renewed(Now, c, lease))
    BY <1>2 DEF RenewWorkClaim
  <2> QED
    BY <1>2, <2>3, <2>4, BecomeInv DEF RenewWorkClaim
<1>3. ASSUME NEW a \in Actor, NEW c \in ClaimId, ReleaseWorkClaim(a, c) PROVE IInv'
  <2>1. Now.rows[c] # NoRow
    BY <1>3 DEF ReleaseWorkClaim, Active, Now
  <2>2. Told(Released(Now, c))
    BY <2>1, NowTold, ChangeTold
  <2> QED
    BY <1>3, <2>2, BecomeInv DEF ReleaseWorkClaim
<1> QED
  BY <1>1, <1>2, <1>3 DEF ClaimStep

LEMMA YieldedTold == ASSUME IInv, NEW h \in HandoffId PROVE Told(Yielded(h))
<1>1. CASE LiveClaims(h) = {}
  BY <1>1, NowTold DEF Yielded
<1>2. CASE LiveClaims(h) # {}
  <2>1. LiveClaims(h) \in SUBSET ClaimId
    BY DEF LiveClaims, Claims
  <2>2. First(LiveClaims(h)) \in LiveClaims(h)
    BY <1>2, <2>1, FirstOf DEF ClaimId
  <2>3. First(LiveClaims(h)) \in ClaimId /\ Now.rows[First(LiveClaims(h))] # NoRow
    BY <2>2 DEF LiveClaims, Claims, Now
  <2>4. Told(Released(Now, First(LiveClaims(h))))
    BY <2>3, NowTold, ChangeTold
  <2> QED
    BY <1>2, <2>4 DEF Yielded
<1> QED
  BY <1>1, <1>2

LEMMA CreateInv ==
    ASSUME IInv, NEW from \in Actor, NEW to \in Actor, NEW i \in Item, NEW d \in Deadline,
           CreateHandoff(from, to, i, d)
    PROVE  IInv'
<1>1. PICK h \in HandoffId : h = NextId(handoffs)
  BY DEF CreateHandoff
<1>2. PICK row : row = [item |-> i, from |-> from, to |-> to, status |-> "pending", expires |-> d]
  OBVIOUS
<1>3. row \in HandoffRow
  BY <1>2, MemoryAssumption DEF HandoffRow
<1>4. handoffs' = [handoffs EXCEPT ![h] = row]
  BY <1>1, <1>2 DEF CreateHandoff
<1>5. handoffs'[h] = row
  BY <1>4 DEF IInv, TypeOK
<1>6. log' = Append(log, HandoffEvent(h, row)) /\ UNCHANGED <<clock, items, claims, seen>>
  BY <1>1, <1>5 DEF CreateHandoff
<1>7. Told(Now) /\ Now.rows = claims /\ Now.log = log
  BY NowTold DEF Now
<1> QED
  BY <1>3, <1>4, <1>6, <1>7, HandoffWritten

LEMMA AcceptInv ==
    ASSUME IInv, NEW a \in Actor, NEW h \in HandoffId, AcceptHandoff(a, h)
    PROVE  IInv'
<1>1. handoffs[h] # NoRow /\ handoffs[h].item \in Item
  BY DEF AcceptHandoff, MayAccept, Pending, IInv, TypeOK, HandoffRow
<1>2. PICK s : s = Claimed(Yielded(h), a, handoffs[h].item, DefaultLease)
  OBVIOUS
<1>3. /\ Bounded(s) /\ claims' = s.rows
      /\ handoffs' = [handoffs EXCEPT ![h].status = "accepted"]
      /\ log' = Append(s.log, HandoffEvent(h, handoffs'[h]))
      /\ UNCHANGED <<clock, items, seen>>
  BY <1>2 DEF AcceptHandoff
<1>4. Told(s)
  BY <1>1, <1>2, <1>3, MemoryAssumption, YieldedTold, ClaimedTold
<1>5. PICK row \in HandoffRow :
        /\ row = [handoffs[h] EXCEPT !.status = "accepted"]
        /\ [handoffs EXCEPT ![h].status = "accepted"] = [handoffs EXCEPT ![h] = row]
        /\ [handoffs EXCEPT ![h].status = "accepted"][h] = row
  BY <1>1, HandoffStatus
<1>6. handoffs' = [handoffs EXCEPT ![h] = row] /\ log' = Append(s.log, HandoffEvent(h, row))
  BY <1>3, <1>5
<1> QED
  BY <1>3, <1>4, <1>6, HandoffWritten

LEMMA HandoffsInv == ASSUME IInv, HandoffStep PROVE IInv'
<1>1. ASSUME NEW a \in Actor, NEW to \in Actor, NEW i \in Item, NEW d \in Deadline,
             CreateHandoff(a, to, i, d)
      PROVE  IInv'
  BY <1>1, CreateInv
<1>2. ASSUME NEW a \in Actor, NEW h \in HandoffId,
             ExpireOnDecision(a, h) \/ RejectHandoff(a, h) \/ CancelHandoff(a, h)
      PROVE  IInv'
  <2>1. /\ handoffs[h] # NoRow /\ UNCHANGED <<clock, items, claims, seen>>
        /\ \E status \in {"accepted", "rejected", "canceled", "expired"} : Decide(h, status)
    BY <1>2 DEF ExpireOnDecision, RejectHandoff, CancelHandoff, StaleHandoff, Pending
  <2> QED
    BY <2>1, DecideInv
<1>3. ASSUME NEW a \in Actor, NEW h \in HandoffId, AcceptHandoff(a, h) PROVE IInv'
  BY <1>3, AcceptInv
<1>4. ASSUME NEW a \in Actor, NEW h \in HandoffId, AcceptHandoffFails(a, h) PROVE IInv'
  BY <1>4, YieldedTold, BecomeInv DEF AcceptHandoffFails
<1> QED
  BY <1>1, <1>2, <1>3, <1>4 DEF HandoffStep

LEMMA NextInv == IInv /\ [Next]_vars => IInv'
<1> SUFFICES ASSUME IInv, [Next]_vars PROVE IInv'
  OBVIOUS
<1>1. CASE UNCHANGED vars
  BY <1>1, RowsUntouched DEF vars, rows, IInv, TypeOK
<1> QED
  BY <1>1, TickInv, ItemsInv, ClaimsInv, HandoffsInv, ReapClaimsInv, ReapHandoffsInv DEF Next

LEMMA Invariance == Spec => []IInv
BY InitInv, NextInv, PTL DEF Spec

\* Replay as of any past second shows of every claim and handoff what reads showed
\* when that second ended, and as of now the rows themselves.
THEOREM ReplayIsExact == Spec => []ReplayExact
<1>1. IInv => ReplayExact
  <2> SUFFICES ASSUME IInv PROVE ReplayExact
    OBVIOUS
  <2>1. /\ \A c \in ClaimId : Replayed("claim", c, clock) = claims[c]
        /\ \A h \in HandoffId : Replayed("handoff", h, clock) = handoffs[h]
    BY ReplayedNow DEF IInv, LogTells
  <2> QED
    BY <2>1 DEF IInv, PastShown, ReplayExact
<1> QED
  BY <1>1, Invariance, PTL

-----------------------------------------------------------------------------
(* The rows of an array: ids in order, one active claim to an item *)

Occupied(r, c) == r[c] # NoRow
ActiveIn(r, c) == r[c] # NoRow /\ r[c].status = "active"

\* The rows there are have the first ids.
Dense(r, max) == \E k \in 0..max : \A n \in 1..max : Occupied(r, n) <=> n <= k

\* Claims are refused while any row is active, lapsed or not, ahead of each new row.
Single(r) == \A c, d \in ClaimId :
                ActiveIn(r, c) /\ ActiveIn(r, d) /\ r[c].item = r[d].item => c = d

ClaimArray == [ClaimId -> ClaimRow \cup {NoRow}]
ClaimsFit(r) == r \in ClaimArray /\ Dense(r, MaxClaims) /\ Single(r)

Rows == ClaimsFit(claims) /\ Dense(handoffs, MaxHandoffs)

\* The id that is given next is the one behind the rows there are.
LEMMA NextIsFree ==
    ASSUME NEW max \in Nat, NEW r, DOMAIN r = 1..max, Dense(r, max), NextId(r) \in 1..max
    PROVE  /\ r[NextId(r)] = NoRow
           /\ \A row : row # NoRow => Dense([r EXCEPT ![NextId(r)] = row], max)
<1>1. PICK k \in 0..max : \A n \in 1..max : Occupied(r, n) <=> n <= k
  BY DEF Dense
<1>2. {n \in DOMAIN r : r[n] # NoRow} = 1..k
  BY <1>1 DEF Occupied
<1>3. Cardinality(1..k) = k
  BY <1>1, FS_Interval
<1>4. NextId(r) = k + 1
  BY <1>2, <1>3 DEF NextId
<1>5. r[k + 1] = NoRow
  BY <1>1, <1>4 DEF Occupied
<1>6. ASSUME NEW row, row # NoRow PROVE Dense([r EXCEPT ![k + 1] = row], max)
  <2>1. PICK q : q = [r EXCEPT ![k + 1] = row]
    OBVIOUS
  <2>2. q[k + 1] = row /\ \A n \in 1..max : n # k + 1 => q[n] = r[n]
    BY <1>4, <2>1
  <2>3. k + 1 \in 0..max /\ \A n \in 1..max : Occupied(q, n) <=> n <= k + 1
    BY <1>1, <1>4, <1>6, <2>2 DEF Occupied
  <2>4. Dense(q, max)
    BY <2>3 DEF Dense
  <2> QED
    BY <2>1, <2>4
<1> QED
  BY <1>4, <1>5, <1>6

\* Writing a row again leaves the others there are.
LEMMA DenseStays ==
    ASSUME NEW max \in Nat, NEW r, Dense(r, max), NEW q, \A n \in 1..max : Occupied(q, n) <=> Occupied(r, n)
    PROVE  Dense(q, max)
BY DEF Dense

\* A claim that is running: the row is active and its lease is not over.
Runs(r, c, i) == ActiveIn(r, c) /\ r[c].item = i /\ r[c].expires > clock

\* No claim starts, ends or changes but those to item i.
Elsewhere(r, q, i) ==
    \A j \in Item, c \in ClaimId :
        j # i => (Runs(q, c, j) <=> Runs(r, c, j)) /\ (Runs(r, c, j) => q[c] = r[c])

SameRunning(r, q) ==
    \A j \in Item, c \in ClaimId : (Runs(q, c, j) <=> Runs(r, c, j)) /\ (Runs(r, c, j) => q[c] = r[c])

Puts(r, q, c, row) == q = [r EXCEPT ![c] = row]

\* Claim c of the item is ended, or a row that has lapsed is written off.
LEMMA RowEnded ==
    ASSUME IInv, NEW r, ClaimsFit(r), NEW c \in ClaimId, ActiveIn(r, c),
           NEW row \in ClaimRow, row.item = r[c].item, row.status # "active", NEW q, Puts(r, q, c, row)
    PROVE  /\ ClaimsFit(q) /\ Elsewhere(r, q, row.item)
           /\ \A d \in ClaimId : ~(ActiveIn(q, d) /\ q[d].item = row.item)
           /\ r[c].expires <= clock => SameRunning(r, q)
<1>1. q \in ClaimArray /\ q[c] = row /\ \A d \in ClaimId : d # c => q[d] = r[d]
  BY DEF Puts, ClaimsFit, ClaimArray
<1>2. r[c] # NoRow /\ row # NoRow /\ r[c].status = "active"
  BY NoRowAssumption DEF ActiveIn
<1>3. \A d \in ClaimId : Occupied(q, d) <=> Occupied(r, d)
  BY <1>1, <1>2 DEF Occupied
<1>4. Dense(q, MaxClaims)
  BY <1>3, MemoryAssumption, DenseStays DEF ClaimsFit, ClaimId
<1>5. \A d \in ClaimId : ActiveIn(q, d) => d # c /\ ActiveIn(r, d) /\ q[d] = r[d]
  BY <1>1 DEF ActiveIn
<1>6. Single(q)
  BY <1>5 DEF Single, ClaimsFit
<1>7. Elsewhere(r, q, row.item)
  BY <1>1, <1>5 DEF Elsewhere, Runs, ActiveIn
<1>8. \A d \in ClaimId : ~(ActiveIn(q, d) /\ q[d].item = row.item)
  BY <1>5 DEF ClaimsFit, Single
<1>9. r[c].expires <= clock => SameRunning(r, q)
  <2>1. r[c].expires \in Nat /\ clock \in Nat
    BY <1>2 DEF ClaimsFit, ClaimArray, ClaimRow, IInv, TypeOK
  <2> QED
    BY <1>1, <1>5, <2>1 DEF SameRunning, Runs, ActiveIn
<1> QED
  BY <1>1, <1>4, <1>6, <1>7, <1>8, <1>9 DEF ClaimsFit

\* The rows of Expired and Released, one call's write.
LEMMA ClosedRow ==
    ASSUME IInv, NEW s, Told(s), NEW c \in ClaimId, ActiveIn(s.rows, c), NEW status \in {"expired", "released"}
    PROVE  \E row \in ClaimRow :
              /\ row = [s.rows[c] EXCEPT !.status = status]
              /\ row.item = s.rows[c].item /\ row.status # "active"
              /\ Puts(s.rows, Write(s, c, row).rows, c, row)
<1>1. PICK old \in ClaimRow : old = s.rows[c]
  BY DEF Told, CallState, ActiveIn
<1>2. PICK row : row = [old EXCEPT !.status = status]
  OBVIOUS
<1>3. row \in ClaimRow /\ row.item = old.item /\ row.status = status
  BY <1>2 DEF ClaimRow
<1>4. Puts(s.rows, Write(s, c, row).rows, c, row)
  BY <1>3, WriteTold DEF Puts
<1> QED
  BY <1>1, <1>2, <1>3, <1>4

\* Looking for a lapsed lease changes no claim that runs.
LEMMA SweptFits ==
    ASSUME IInv, NEW s, Told(s), ClaimsFit(s.rows), NEW i \in Item
    PROVE  /\ ClaimsFit(Swept(s, i).rows) /\ SameRunning(s.rows, Swept(s, i).rows)
           /\ \A c \in ClaimId : ActiveIn(Swept(s, i).rows, c) => Swept(s, i).rows[c] = s.rows[c]
<1>1. PICK mine \in SUBSET ClaimId : mine = {c \in ClaimId : s.rows[c] # NoRow /\ s.rows[c].item = i}
  OBVIOUS
<1>2. CASE /\ mine # {} /\ s.rows[First(mine)].status = "active"
           /\ s.rows[First(mine)].expires <= clock
  <2> mine \in SUBSET Nat
    BY DEF ClaimId
  <2>1. PICK c \in mine : c = First(mine)
    BY <1>2, FirstOf
  <2>2. c \in ClaimId /\ ActiveIn(s.rows, c) /\ s.rows[c].expires <= clock
    BY <1>1, <1>2, <2>1 DEF ActiveIn
  <2>3. PICK row \in ClaimRow :
          /\ row = [s.rows[c] EXCEPT !.status = "expired"]
          /\ row.item = s.rows[c].item /\ row.status # "active"
          /\ Puts(s.rows, Write(s, c, row).rows, c, row)
    BY <2>2, ClosedRow, SMTT(30)
  <2>4. Swept(s, i) = Write(s, c, row)
    BY <1>1, <1>2, <2>1, <2>3 DEF Swept, Expired
  <2>5. \A d \in ClaimId : ActiveIn(Swept(s, i).rows, d) => Swept(s, i).rows[d] = s.rows[d]
    BY <2>2, <2>3, <2>4 DEF Puts, ActiveIn, ClaimsFit, ClaimArray
  <2> QED
    BY <2>2, <2>3, <2>4, <2>5, RowEnded
<1>3. CASE ~(/\ mine # {} /\ s.rows[First(mine)].status = "active"
             /\ s.rows[First(mine)].expires <= clock)
  <2>1. Swept(s, i) = s
    BY <1>1, <1>3 DEF Swept
  <2> QED
    BY <2>1 DEF SameRunning
<1> QED
  BY <1>2, <1>3

\* A new row, in an item that has no active one, with a lease of some length.
Begun(r, q, a, i) ==
    /\ \A c \in ClaimId : ~Runs(r, c, i)
    /\ \E c \in ClaimId : Runs(q, c, i) /\ q[c].actor = a

\* The running claim goes on for longer.
Longer(r, q, a, i) ==
    \E c \in ClaimId : /\ Runs(r, c, i) /\ r[c].actor = a
                       /\ Runs(q, c, i) /\ q[c].actor = a /\ q[c].expires >= r[c].expires

LEMMA NewRow ==
    ASSUME IInv, NEW r, ClaimsFit(r), NEW a \in Actor, NEW i \in Item, NEW lease \in Nat,
           NextId(r) \in ClaimId, \A d \in ClaimId : ~(ActiveIn(r, d) /\ r[d].item = i),
           NEW row \in ClaimRow, row.item = i, row.actor = a, row.status = "active",
           row.expires = clock + lease, NEW q, Puts(r, q, NextId(r), row)
    PROVE  /\ ClaimsFit(q) /\ Elsewhere(r, q, i)
           /\ lease > 0 => Begun(r, q, a, i)
           /\ lease = 0 => SameRunning(r, q)
<1>1. clock \in Nat /\ row # NoRow
  BY NoRowAssumption DEF IInv, TypeOK
<1>2. PICK c \in ClaimId : c = NextId(r)
  OBVIOUS
<1>3. r[c] = NoRow /\ Dense(q, MaxClaims)
  BY <1>1, <1>2, MemoryAssumption, NextIsFree DEF Puts, ClaimsFit, ClaimArray, ClaimId
<1>4. q \in ClaimArray /\ q[c] = row /\ \A d \in ClaimId : d # c => q[d] = r[d]
  BY <1>1, <1>2 DEF Puts, ClaimsFit, ClaimArray
<1>5. Single(q)
  BY <1>4 DEF Single, ClaimsFit, ActiveIn
<1>6. Elsewhere(r, q, i)
  BY <1>3, <1>4 DEF Elsewhere, Runs, ActiveIn
<1>7. \A d \in ClaimId : ~Runs(r, d, i)
  BY DEF Runs
<1>8. lease > 0 => Begun(r, q, a, i)
  BY <1>1, <1>4, <1>7 DEF Begun, Runs, ActiveIn
<1>9. lease = 0 => SameRunning(r, q)
  BY <1>1, <1>3, <1>4 DEF SameRunning, Runs, ActiveIn
<1> QED
  BY <1>3, <1>4, <1>5, <1>6, <1>8, <1>9 DEF ClaimsFit

LEMMA LongerRow ==
    ASSUME IInv, NEW r, ClaimsFit(r), NEW c \in ClaimId, ActiveIn(r, c), NEW lease \in Nat,
           NEW row, row = [r[c] EXCEPT !.expires = Max2(@, clock) + lease],
           NEW q, Puts(r, q, c, row)
    PROVE  /\ ClaimsFit(q) /\ Elsewhere(r, q, r[c].item)
           /\ \/ SameRunning(r, q) /\ lease = 0
              \/ Begun(r, q, r[c].actor, r[c].item) \/ Longer(r, q, r[c].actor, r[c].item)
<1>1. PICK old \in ClaimRow : old = r[c]
  BY DEF ClaimsFit, ClaimArray, ActiveIn
<1>2. PICK until \in Nat : until = Max2(old.expires, clock) + lease
  BY DEF Max2, ClaimRow, IInv, TypeOK
<1>3. /\ row \in ClaimRow /\ row # NoRow /\ row.item = old.item /\ row.actor = old.actor
      /\ row.status = "active" /\ row.expires = until
  <2>1. row = [old EXCEPT !.expires = until]
    BY <1>1, <1>2
  <2>2. row \in ClaimRow /\ row.item = old.item /\ row.actor = old.actor
        /\ row.status = old.status /\ row.expires = until
    BY <2>1 DEF ClaimRow
  <2> QED
    BY <1>1, <2>2, NoRowAssumption DEF ActiveIn
<1>4. q \in ClaimArray /\ q[c] = row /\ \A d \in ClaimId : d # c => q[d] = r[d]
  BY <1>3 DEF Puts, ClaimsFit, ClaimArray
<1>5. \A d \in ClaimId : /\ Occupied(q, d) <=> Occupied(r, d)
                         /\ ActiveIn(q, d) <=> ActiveIn(r, d)
                         /\ ActiveIn(q, d) => q[d].item = r[d].item
  BY <1>1, <1>3, <1>4 DEF Occupied, ActiveIn
<1>6. ClaimsFit(q)
  <2>1. Dense(q, MaxClaims)
    BY <1>5, MemoryAssumption, DenseStays DEF ClaimsFit, ClaimId
  <2>2. Single(q)
    BY <1>5 DEF ClaimsFit, Single
  <2> QED
    BY <1>4, <2>1, <2>2 DEF ClaimsFit
<1>7. Elsewhere(r, q, old.item)
  BY <1>1, <1>4, <1>5 DEF Elsewhere, Runs
<1>8. until >= old.expires /\ until >= clock + lease /\ old.expires \in Nat /\ clock \in Nat
      /\ (old.expires > clock => until > clock)
  BY <1>2 DEF Max2, ClaimRow, IInv, TypeOK
<1>9. CASE old.expires > clock
  <2>1. Runs(r, c, old.item) /\ Runs(q, c, old.item)
    BY <1>1, <1>3, <1>4, <1>5, <1>8, <1>9 DEF Runs
  <2> QED
    BY <1>1, <1>3, <1>4, <1>6, <1>7, <1>8, <2>1 DEF Longer
<1>10. CASE old.expires <= clock
  <2>1. \A d \in ClaimId : ~Runs(r, d, old.item)
    <3>1. \A d \in ClaimId : Runs(r, d, old.item) => d = c
      BY <1>1 DEF Runs, ClaimsFit, Single
    <3>2. ~Runs(r, c, old.item)
      BY <1>1, <1>8, <1>10 DEF Runs
    <3> QED
      BY <3>1, <3>2
  <2>2. CASE until > clock
    <3>1. Runs(q, c, old.item) /\ q[c].actor = old.actor
      BY <1>3, <1>4, <2>2 DEF Runs, ActiveIn
    <3> QED
      BY <1>1, <1>6, <1>7, <2>1, <3>1 DEF Begun
  <2>3. CASE until <= clock
    <3>1. lease = 0
      BY <1>8, <2>3
    <3>2. \A d \in ClaimId : ~Runs(q, d, old.item)
      <4>1. \A d \in ClaimId : Runs(q, d, old.item) => d = c
        BY <1>3, <1>4, <1>6 DEF Runs, ClaimsFit, Single, ActiveIn
      <4>2. q[c].expires = until
        BY <1>3, <1>4
      <4>3. ~(until > clock)
        BY <1>2, <1>8, <2>3
      <4>4. ~Runs(q, c, old.item)
        BY <4>2, <4>3, Zenon DEF Runs
      <4> QED
        BY <4>1, <4>4
    <3>3. SameRunning(r, q)
      BY <1>7, <2>1, <3>2 DEF SameRunning, Elsewhere
    <3> QED
      BY <1>1, <1>6, <1>7, <3>1, <3>3
  <2> QED
    BY <1>8, <2>2, <2>3
<1> QED
  BY <1>8, <1>9, <1>10

\* What claimWorkItem makes of the claims, when it does not throw.
LEMMA ClaimedFits ==
    ASSUME IInv, NEW s, Told(s), ClaimsFit(s.rows), NEW a \in Actor, NEW i \in Item,
           NEW lease \in Nat, ~Refused(s, a, i), Bounded(Claimed(s, a, i, lease)),
           NEW q, q = Claimed(s, a, i, lease).rows
    PROVE  /\ ClaimsFit(q) /\ Elsewhere(s.rows, q, i)
           /\ \/ SameRunning(s.rows, q) /\ lease = 0
              \/ Begun(s.rows, q, a, i) \/ Longer(s.rows, q, a, i)
<1>1. PICK swept : swept = Swept(s, i)
  OBVIOUS
<1>2. Told(swept)
  BY <1>1, SweptTold
<1>3. PICK r : r = swept.rows
  OBVIOUS
<1>4. /\ ClaimsFit(r) /\ SameRunning(s.rows, r)
      /\ \A c \in ClaimId : ActiveIn(r, c) => r[c] = s.rows[c]
  BY <1>1, <1>3, SweptFits
<1>5. PICK active \in SUBSET ClaimId : active = Standing(swept, i)
  BY DEF Standing
<1>6. active \in SUBSET Nat /\ \A c \in ClaimId : c \in active <=> ActiveIn(r, c) /\ r[c].item = i
  BY <1>3, <1>5 DEF Standing, ActiveIn, ClaimId
<1>7. \A b : /\ Begun(r, q, b, i) => Begun(s.rows, q, b, i)
             /\ Longer(r, q, b, i) => Longer(s.rows, q, b, i)
  BY <1>4 DEF Begun, Longer, SameRunning
<1>8. /\ Elsewhere(r, q, i) => Elsewhere(s.rows, q, i)
      /\ SameRunning(r, q) => SameRunning(s.rows, q)
  BY <1>4 DEF Elsewhere, SameRunning
<1>9. CASE active # {}
  <2>1. PICK c \in active : c = First(active)
    BY <1>6, <1>9, FirstOf
  <2>2. c \in ClaimId /\ ActiveIn(r, c) /\ r[c].item = i
    BY <1>6, <2>1
  <2>3. r[c].actor = a
    <3>1. ~(active # {} /\ s.rows[First(active)].actor # a)
      BY <1>1, <1>5 DEF Refused
    <3> QED
      BY <1>4, <1>9, <2>1, <2>2, <3>1
  <2>4. PICK row : row = [r[c] EXCEPT !.expires = Max2(@, clock) + lease]
    OBVIOUS
  <2>5. row \in ClaimRow
    BY <1>2, <1>3, <2>2, <2>4, RowsWritten DEF ActiveIn
  <2>6. Puts(r, q, c, row)
    <3>1. Claimed(s, a, i, lease) = Write(swept, c, row)
      BY <1>1, <1>3, <1>5, <1>9, <2>1, <2>4 DEF Claimed, Renewed
    <3> QED
      BY <1>2, <1>3, <2>2, <2>5, <3>1, WriteTold DEF Puts
  <2>7. /\ ClaimsFit(q) /\ Elsewhere(r, q, i)
        /\ \/ SameRunning(r, q) /\ lease = 0
           \/ Begun(r, q, a, i) \/ Longer(r, q, a, i)
    BY <1>4, <2>2, <2>3, <2>4, <2>6, LongerRow
  <2> QED
    BY <1>7, <1>8, <2>7
<1>10. CASE active = {}
  <2>1. PICK row \in ClaimRow : row = [item |-> i, actor |-> a, status |-> "active", expires |-> clock + lease]
    <3>1. clock + lease \in Nat
      BY DEF IInv, TypeOK
    <3>2. [item |-> i, actor |-> a, status |-> "active", expires |-> clock + lease] \in ClaimRow
      BY <3>1 DEF ClaimRow
    <3> QED
      BY <3>2
  <2>2. PICK c : c = NextId(r)
    OBVIOUS
  <2>3. Claimed(s, a, i, lease) = Write(swept, c, row)
    BY <1>1, <1>3, <1>5, <1>10, <2>1, <2>2 DEF Claimed
  <2>4. c \in ClaimId
    BY <1>2, <2>3, WrittenId
  <2>5. Puts(r, q, c, row)
    BY <1>2, <1>3, <2>1, <2>3, <2>4, WriteTold DEF Puts
  <2>6. \A d \in ClaimId : ~(ActiveIn(r, d) /\ r[d].item = i)
    BY <1>6, <1>10
  <2>7. /\ ClaimsFit(q) /\ Elsewhere(r, q, i)
        /\ lease > 0 => Begun(r, q, a, i)
        /\ lease = 0 => SameRunning(r, q)
    <3>1. NextId(r) \in ClaimId /\ Puts(r, q, NextId(r), row)
      BY <2>2, <2>4, <2>5
    <3>2. row.item = i /\ row.actor = a /\ row.status = "active" /\ row.expires = clock + lease
      BY <2>1
    <3> QED
      BY <1>4, <2>6, <3>1, <3>2, NewRow
  <2> QED
    BY <1>7, <1>8, <2>7
<1> QED
  BY <1>9, <1>10

\* Claim c, that runs, is ended.
LEMMA EndedRow ==
    ASSUME IInv, ClaimsFit(claims), NEW c \in ClaimId, ActiveIn(claims, c),
           NEW status \in {"expired", "released"},
           NEW q, q = Write(Now, c, [claims[c] EXCEPT !.status = status]).rows
    PROVE  /\ ClaimsFit(q) /\ Elsewhere(claims, q, claims[c].item)
           /\ \A d \in ClaimId : ~(ActiveIn(q, d) /\ q[d].item = claims[c].item)
           /\ \A d \in ClaimId : ~Runs(q, d, claims[c].item)
           /\ claims[c].expires <= clock => SameRunning(claims, q)
<1>1. Told(Now) /\ Now.rows = claims
  BY NowTold DEF Now
<1>2. PICK row \in ClaimRow :
        /\ row = [claims[c] EXCEPT !.status = status]
        /\ row.item = claims[c].item /\ row.status # "active"
        /\ Puts(claims, Write(Now, c, row).rows, c, row)
  <2>1. ActiveIn(Now.rows, c)
    BY <1>1
  <2>2. \E row \in ClaimRow :
           /\ row = [Now.rows[c] EXCEPT !.status = status]
           /\ row.item = Now.rows[c].item /\ row.status # "active"
           /\ Puts(Now.rows, Write(Now, c, row).rows, c, row)
    BY <1>1, <2>1, ClosedRow
  <2> QED
    BY <1>1, <2>2
<1>3. Puts(claims, q, c, row)
  BY <1>2
<1>4. /\ ClaimsFit(q) /\ Elsewhere(claims, q, row.item)
      /\ \A d \in ClaimId : ~(ActiveIn(q, d) /\ q[d].item = row.item)
      /\ claims[c].expires <= clock => SameRunning(claims, q)
  <2>1. row.item = claims[c].item /\ row.status # "active"
    BY <1>2
  <2> QED
    BY <1>3, <2>1, RowEnded
<1> QED
  BY <1>2, <1>4 DEF Runs

\* What accepting does first ends the lease on the item, if there is one.
LEMMA YieldedFits ==
    ASSUME IInv, ClaimsFit(claims), NEW h \in HandoffId, handoffs[h] # NoRow
    PROVE  /\ ClaimsFit(Yielded(h).rows) /\ Elsewhere(claims, Yielded(h).rows, handoffs[h].item)
           /\ \A c \in ClaimId : ~Runs(Yielded(h).rows, c, handoffs[h].item)
           /\ LiveClaims(h) # {}
                => \A c \in ClaimId : ~(/\ ActiveIn(Yielded(h).rows, c)
                                        /\ Yielded(h).rows[c].item = handoffs[h].item)
<1>1. PICK i \in Item : i = handoffs[h].item
  BY DEF IInv, TypeOK, HandoffRow
<1>2. PICK live \in SUBSET ClaimId : live = LiveClaims(h)
  BY DEF LiveClaims, Claims
<1>3. live \in SUBSET Nat /\ \A c \in ClaimId : c \in live <=> Runs(claims, c, i)
  BY <1>1, <1>2 DEF LiveClaims, Claims, Live, Active, Runs, ActiveIn, ClaimId
<1>4. CASE live = {}
  <2>1. Yielded(h).rows = claims
    BY <1>2, <1>4 DEF Yielded, Now
  <2> QED
    BY <1>1, <1>2, <1>3, <1>4, <2>1 DEF Elsewhere
<1>5. CASE live # {}
  <2>1. PICK c \in live : c = First(live)
    BY <1>3, <1>5, FirstOf
  <2>2. c \in ClaimId /\ ActiveIn(claims, c) /\ claims[c].item = i
    BY <1>3, <2>1 DEF Runs
  <2>3. Yielded(h).rows = Write(Now, c, [claims[c] EXCEPT !.status = "released"]).rows
    BY <1>2, <1>5, <2>1 DEF Yielded, Released, Now
  <2> QED
    BY <1>1, <1>2, <1>5, <2>2, <2>3, EndedRow
<1> QED
  BY <1>4, <1>5

-----------------------------------------------------------------------------
(* What each step makes of the rows *)

LEMMA ClaimStepFits ==
    ASSUME IInv, ClaimsFit(claims), ClaimStep
    PROVE  /\ ClaimsFit(claims')
           /\ \E i \in Item :
                /\ Elsewhere(claims, claims', i)
                /\ \/ SameRunning(claims, claims')
                   \/ \E a \in Actor : Begun(claims, claims', a, i) \/ Longer(claims, claims', a, i)
                   \/ \A c \in ClaimId : ~Runs(claims', c, i)
<1>1. Told(Now) /\ Now.rows = claims
  BY NowTold DEF Now
<1>2. \A c \in ClaimId : claims[c] # NoRow => claims[c].item \in Item /\ claims[c].actor \in Actor
  BY DEF ClaimsFit, ClaimArray, ClaimRow
<1>3. ASSUME NEW a \in Actor, NEW i \in Item, NEW lease \in Lease, ClaimWorkItem(a, i, lease)
      PROVE  /\ ClaimsFit(claims') /\ Elsewhere(claims, claims', i)
             /\ \/ SameRunning(claims, claims')
                \/ Begun(claims, claims', a, i) \/ Longer(claims, claims', a, i)
  <2>1. lease \in Nat
    BY MemoryAssumption
  <2>2. /\ ~Refused(Now, a, i) /\ Bounded(Claimed(Now, a, i, lease))
        /\ claims' = Claimed(Now, a, i, lease).rows
    BY <1>3 DEF ClaimWorkItem, Become
  <2>3. ClaimsFit(Now.rows)
    BY <1>1
  <2>4. /\ ClaimsFit(claims') /\ Elsewhere(Now.rows, claims', i)
        /\ \/ SameRunning(Now.rows, claims') /\ lease = 0
           \/ Begun(Now.rows, claims', a, i) \/ Longer(Now.rows, claims', a, i)
    BY <1>1, <2>1, <2>2, <2>3, ClaimedFits
  <2> QED
    BY <1>1, <2>4
<1>4. ASSUME NEW c \in ClaimId, ActiveIn(claims, c), NEW status \in {"expired", "released"},
             claims' = Write(Now, c, [claims[c] EXCEPT !.status = status]).rows
      PROVE  /\ ClaimsFit(claims') /\ Elsewhere(claims, claims', claims[c].item)
             /\ \A d \in ClaimId : ~Runs(claims', d, claims[c].item)
  BY <1>4, EndedRow
<1>5. ASSUME NEW a \in Actor, NEW c \in ClaimId, NEW lease \in Lease, RenewWorkClaim(a, c, lease)
      PROVE  /\ ActiveIn(claims, c) /\ ClaimsFit(claims') /\ Elsewhere(claims, claims', claims[c].item)
             /\ \/ SameRunning(claims, claims')
                \/ Begun(claims, claims', claims[c].actor, claims[c].item)
                \/ Longer(claims, claims', claims[c].actor, claims[c].item)
                \/ \A d \in ClaimId : ~Runs(claims', d, claims[c].item)
  <2>1. ActiveIn(claims, c)
    BY <1>5 DEF RenewWorkClaim, Active, ActiveIn
  <2>2. CASE Lapsed(c)
    <3>1. claims' = Write(Now, c, [claims[c] EXCEPT !.status = "expired"]).rows
      BY <1>5, <2>2 DEF RenewWorkClaim, Become, Expired, Now
    <3> QED
      BY <1>4, <2>1, <3>1
  <2>3. CASE ~Lapsed(c)
    <3>1. PICK row : row = [claims[c] EXCEPT !.expires = Max2(@, clock) + lease]
      OBVIOUS
    <3>2. claims' = Write(Now, c, row).rows
      BY <1>5, <2>3, <3>1 DEF RenewWorkClaim, Become, Renewed, Now
    <3>3. lease \in Nat
      BY MemoryAssumption
    <3>4. Now.rows[c] # NoRow /\ row = [Now.rows[c] EXCEPT !.expires = Max2(@, clock) + lease]
      BY <1>1, <2>1, <3>1 DEF ActiveIn
    <3>5. row \in ClaimRow
      BY <1>1, <3>3, <3>4, RowsWritten
    <3>6. Puts(claims, claims', c, row)
      BY <1>1, <3>2, <3>5, WriteTold DEF Puts
    <3> QED
      BY <2>1, <3>1, <3>3, <3>6, LongerRow
  <2> QED
    BY <2>2, <2>3
<1>6. ASSUME NEW a \in Actor, NEW c \in ClaimId, ReleaseWorkClaim(a, c)
      PROVE  /\ ActiveIn(claims, c) /\ ClaimsFit(claims') /\ Elsewhere(claims, claims', claims[c].item)
             /\ \A d \in ClaimId : ~Runs(claims', d, claims[c].item)
  <2>1. ActiveIn(claims, c)
    BY <1>6 DEF ReleaseWorkClaim, Active, ActiveIn
  <2>2. claims' = Write(Now, c, [claims[c] EXCEPT !.status = "released"]).rows
    BY <1>6 DEF ReleaseWorkClaim, Become, Released, Now
  <2> QED
    BY <1>4, <2>1, <2>2
<1>7. CASE \E a \in Actor, i \in Item, lease \in Lease : ClaimWorkItem(a, i, lease)
  BY <1>3, <1>7
<1>8. CASE \E a \in Actor, c \in ClaimId, lease \in Lease : RenewWorkClaim(a, c, lease)
  BY <1>2, <1>5, <1>8 DEF ActiveIn
<1>9. CASE \E a \in Actor, c \in ClaimId : ReleaseWorkClaim(a, c)
  BY <1>2, <1>6, <1>9 DEF ActiveIn
<1> QED
  BY <1>7, <1>8, <1>9 DEF ClaimStep

\* Accepting gives the item to the accepting actor, whoever's lease ran before.
LEMMA AcceptFits ==
    ASSUME IInv, ClaimsFit(claims), NEW a \in Actor, NEW h \in HandoffId, AcceptHandoff(a, h)
    PROVE  /\ ClaimsFit(claims') /\ Elsewhere(claims, claims', handoffs[h].item)
           /\ \E c \in ClaimId : Runs(claims', c, handoffs[h].item) /\ claims'[c].actor = a
<1>1. handoffs[h] # NoRow
  BY DEF AcceptHandoff, MayAccept, Pending
<1>2. PICK i \in Item : i = handoffs[h].item
  BY <1>1 DEF IInv, TypeOK, HandoffRow
<1>3. PICK s : s = Yielded(h)
  OBVIOUS
<1>4. Told(s)
  BY <1>3, YieldedTold
<1>5. ClaimsFit(s.rows) /\ Elsewhere(claims, s.rows, i) /\ \A c \in ClaimId : ~Runs(s.rows, c, i)
  BY <1>1, <1>2, <1>3, YieldedFits
<1>6. /\ ~Refused(s, a, i) /\ Bounded(Claimed(s, a, i, DefaultLease))
      /\ claims' = Claimed(s, a, i, DefaultLease).rows
  BY <1>2, <1>3 DEF AcceptHandoff
<1>7. DefaultLease \in Nat /\ DefaultLease # 0
  BY MemoryAssumption
<1>8. /\ ClaimsFit(claims') /\ Elsewhere(s.rows, claims', i)
      /\ Begun(s.rows, claims', a, i) \/ Longer(s.rows, claims', a, i)
  BY <1>4, <1>5, <1>6, <1>7, ClaimedFits
<1>9. Elsewhere(claims, claims', i)
  BY <1>5, <1>8 DEF Elsewhere
<1>10. \E c \in ClaimId : Runs(claims', c, i) /\ claims'[c].actor = a
  BY <1>8 DEF Begun, Longer
<1> QED
  BY <1>2, <1>8, <1>9, <1>10

\* The reaper ends no claim that runs.
LEMMA ReapFits ==
    ASSUME IInv, ClaimsFit(claims), ExpireStaleClaims
    PROVE  ClaimsFit(claims') /\ SameRunning(claims, claims')
<1>1. \A c \in ClaimId : claims'[c] = IF Lapsed(c) THEN [claims[c] EXCEPT !.status = "expired"] ELSE claims[c]
  BY DEF ExpireStaleClaims
<1>2. claims' \in ClaimArray
  BY ReapClaimsInv DEF IInv, TypeOK, ClaimArray
<1>3. ASSUME NEW c \in ClaimId, Lapsed(c)
      PROVE  /\ claims[c] # NoRow /\ claims'[c] # NoRow /\ ~ActiveIn(claims', c)
             /\ \A i : ~Runs(claims, c, i)
  <2>1. PICK row \in ClaimRow : row = claims[c]
    BY <1>3 DEF Lapsed, Active, ClaimsFit, ClaimArray
  <2>2. claims'[c] \in ClaimRow /\ claims'[c].status = "expired"
    BY <1>1, <1>3, <2>1 DEF ClaimRow
  <2>3. row.expires <= clock /\ row.expires \in Nat /\ clock \in Nat
    BY <1>3, <2>1 DEF Lapsed, ClaimRow, IInv, TypeOK
  <2> QED
    BY <1>3, <2>1, <2>2, <2>3, NoRowAssumption DEF ActiveIn, Runs
<1>4. \A c \in ClaimId : ~Lapsed(c) => claims'[c] = claims[c]
  BY <1>1
<1>5. \A c \in ClaimId : Occupied(claims', c) <=> Occupied(claims, c)
  BY <1>3, <1>4 DEF Occupied
<1>6. Dense(claims', MaxClaims)
  BY <1>5, MemoryAssumption, DenseStays DEF ClaimsFit, ClaimId
<1>7. \A c \in ClaimId : ActiveIn(claims', c) => ActiveIn(claims, c) /\ claims'[c] = claims[c]
  BY <1>3, <1>4 DEF ActiveIn
<1>8. Single(claims')
  BY <1>7 DEF Single, ClaimsFit
<1>9. SameRunning(claims, claims')
  BY <1>3, <1>4 DEF SameRunning, Runs, ActiveIn
<1> QED
  BY <1>2, <1>6, <1>8, <1>9 DEF ClaimsFit

\* One handoff at most gets another row, or the next id its first.
LEMMA HandoffsFit == ASSUME IInv, Rows, HandoffStep PROVE Dense(handoffs', MaxHandoffs)
<1>1. Dense(handoffs, MaxHandoffs) /\ DOMAIN handoffs = 1..MaxHandoffs /\ MaxHandoffs \in Nat
  BY MemoryAssumption DEF Rows, IInv, TypeOK, HandoffId
<1>2. ASSUME NEW a \in Actor, NEW to \in Actor, NEW i \in Item, NEW d \in Deadline,
             CreateHandoff(a, to, i, d)
      PROVE  Dense(handoffs', MaxHandoffs)
  <2>1. PICK row \in HandoffRow :
          row = [item |-> i, from |-> a, to |-> to, status |-> "pending", expires |-> d]
    BY MemoryAssumption DEF HandoffRow
  <2>2. row # NoRow
    BY NoRowAssumption
  <2>3. NextId(handoffs) \in 1..MaxHandoffs /\ handoffs' = [handoffs EXCEPT ![NextId(handoffs)] = row]
    BY <1>2, <2>1 DEF CreateHandoff, HandoffId
  <2> QED
    BY <1>1, <2>2, <2>3, NextIsFree
<1>3. ASSUME NEW h \in HandoffId, handoffs[h] # NoRow,
             NEW status \in {"accepted", "rejected", "canceled", "expired"},
             handoffs' = [handoffs EXCEPT ![h].status = status]
      PROVE  Dense(handoffs', MaxHandoffs)
  <2>1. PICK row \in HandoffRow :
          /\ row = [handoffs[h] EXCEPT !.status = status]
          /\ [handoffs EXCEPT ![h].status = status] = [handoffs EXCEPT ![h] = row]
          /\ [handoffs EXCEPT ![h].status = status][h] = row
    BY <1>3, HandoffStatus, Zenon
  <2>2. handoffs' = [handoffs EXCEPT ![h] = row] /\ row # NoRow
    BY <1>3, <2>1, NoRowAssumption
  <2>3. \A g \in 1..MaxHandoffs : Occupied(handoffs', g) <=> Occupied(handoffs, g)
    BY <1>1, <1>3, <2>2 DEF Occupied
  <2> QED
    BY <1>1, <2>3, DenseStays
<1>4. ASSUME NEW a \in Actor, NEW h \in HandoffId,
             ExpireOnDecision(a, h) \/ RejectHandoff(a, h) \/ CancelHandoff(a, h) \/ AcceptHandoff(a, h)
      PROVE  Dense(handoffs', MaxHandoffs)
  <2>1. /\ handoffs[h] # NoRow
        /\ \E status \in {"accepted", "rejected", "canceled", "expired"} :
              handoffs' = [handoffs EXCEPT ![h].status = status]
    BY <1>4 DEF ExpireOnDecision, RejectHandoff, CancelHandoff, AcceptHandoff, MayAccept,
                StaleHandoff, Pending, Decide
  <2> QED
    BY <1>3, <2>1
<1>5. ASSUME NEW a \in Actor, NEW h \in HandoffId, AcceptHandoffFails(a, h)
      PROVE  Dense(handoffs', MaxHandoffs)
  BY <1>1, <1>5 DEF AcceptHandoffFails
<1> QED
  BY <1>2, <1>4, <1>5 DEF HandoffStep

LEMMA ReapHandoffsFit == ASSUME IInv, Rows, ExpireStaleHandoffs PROVE Dense(handoffs', MaxHandoffs)
<1>1. Dense(handoffs, MaxHandoffs) /\ MaxHandoffs \in Nat
  BY MemoryAssumption DEF Rows
<1>2. ASSUME NEW h \in HandoffId PROVE Occupied(handoffs', h) <=> Occupied(handoffs, h)
  <2>1. CASE StaleHandoff(h)
    <3>1. PICK row \in HandoffRow : row = handoffs[h]
      BY <2>1 DEF StaleHandoff, Pending, IInv, TypeOK
    <3>2. [row EXCEPT !.status = "expired"] \in HandoffRow
      BY DEF HandoffRow
    <3>3. handoffs'[h] = [row EXCEPT !.status = "expired"]
      BY <2>1, <3>1 DEF ExpireStaleHandoffs
    <3> QED
      BY <3>1, <3>2, <3>3, NoRowAssumption DEF Occupied
  <2>2. CASE ~StaleHandoff(h)
    BY <2>2 DEF ExpireStaleHandoffs, Occupied
  <2> QED
    BY <2>1, <2>2
<1> QED
  BY <1>1, <1>2, DenseStays DEF HandoffId

LEMMA InitRows == Init => Rows
<1> SUFFICES ASSUME Init PROVE Rows
  OBVIOUS
<1>1. claims \in ClaimArray /\ Single(claims)
  BY DEF Init, ClaimArray, Single, ActiveIn
<1>2. Dense(claims, MaxClaims) /\ Dense(handoffs, MaxHandoffs)
  <2>1. 0 \in 0..MaxClaims /\ \A n \in 1..MaxClaims : Occupied(claims, n) <=> n <= 0
    BY MemoryAssumption DEF Init, Occupied, ClaimId
  <2>2. 0 \in 0..MaxHandoffs /\ \A n \in 1..MaxHandoffs : Occupied(handoffs, n) <=> n <= 0
    BY MemoryAssumption DEF Init, Occupied, HandoffId
  <2> QED
    BY <2>1, <2>2 DEF Dense
<1> QED
  BY <1>1, <1>2 DEF Rows, ClaimsFit

LEMMA NextRows == IInv /\ Rows /\ [Next]_vars => Rows'
<1> SUFFICES ASSUME IInv, Rows, [Next]_vars PROVE Rows'
  OBVIOUS
<1>1. ClaimsFit(claims) /\ Dense(handoffs, MaxHandoffs)
  BY DEF Rows
<1>2. ASSUME UNCHANGED <<claims, handoffs>> PROVE Rows'
  BY <1>1, <1>2 DEF Rows
<1>3. CASE Tick \/ ItemStep \/ UNCHANGED vars
  BY <1>2, <1>3 DEF Tick, ItemStep, InsertWorkItem, UpdateWorkItem, DeleteWorkItem, rows, vars
<1>4. CASE ClaimStep
  <2>1. UNCHANGED handoffs
    BY <1>4 DEF ClaimStep, ClaimWorkItem, RenewWorkClaim, ReleaseWorkClaim
  <2> QED
    BY <1>1, <1>4, <2>1, ClaimStepFits DEF Rows
<1>5. CASE HandoffStep
  <2>1. ClaimsFit(claims')
    <3>1. ASSUME NEW a \in Actor, NEW h \in HandoffId, AcceptHandoff(a, h) PROVE ClaimsFit(claims')
      BY <1>1, <3>1, AcceptFits
    <3>2. ASSUME NEW a \in Actor, NEW h \in HandoffId, AcceptHandoffFails(a, h) PROVE ClaimsFit(claims')
      BY <1>1, <3>2, YieldedFits DEF AcceptHandoffFails, MayAccept, Pending, Become
    <3>3. ASSUME UNCHANGED claims PROVE ClaimsFit(claims')
      BY <1>1, <3>3
    <3> QED
      BY <1>5, <3>1, <3>2, <3>3
         DEF HandoffStep, CreateHandoff, ExpireOnDecision, RejectHandoff, CancelHandoff
  <2> QED
    BY <1>5, <2>1, HandoffsFit DEF Rows
<1>6. CASE ExpireStaleClaims
  <2>1. UNCHANGED handoffs
    BY <1>6 DEF ExpireStaleClaims
  <2> QED
    BY <1>1, <1>6, <2>1, ReapFits DEF Rows
<1>7. CASE ExpireStaleHandoffs
  <2>1. UNCHANGED claims
    BY <1>7 DEF ExpireStaleHandoffs
  <2> QED
    BY <1>1, <1>7, <2>1, ReapHandoffsFit DEF Rows
<1> QED
  BY <1>3, <1>4, <1>5, <1>6, <1>7 DEF Next

LEMMA RowsInvariance == Spec => [](IInv /\ Rows)
BY InitInv, NextInv, InitRows, NextRows, PTL DEF Spec

-----------------------------------------------------------------------------
(* The arrays keep the lease contract *)

\* What the mapping reads: the claim that runs says who holds the item and for how
\* long, and without one nobody does.
Leases ==
    \A i \in Item :
        /\ \A c \in ClaimId : Runs(claims, c, i)
             => /\ holderOf[i] = claims[c].actor /\ holderOf[i] # NoRow
                /\ untilOf[i] = claims[c].expires /\ untilOf[i] > clock /\ untilOf[i] \in Nat
        /\ (\A c \in ClaimId : ~Runs(claims, c, i)) => holderOf[i] = NoRow /\ untilOf[i] = 0

LEMMA LeasesRead == IInv /\ Rows => Leases
<1> SUFFICES ASSUME IInv, Rows, NEW i \in Item
             PROVE  /\ \A c \in ClaimId : Runs(claims, c, i)
                         => /\ holderOf[i] = claims[c].actor /\ holderOf[i] # NoRow
                            /\ untilOf[i] = claims[c].expires /\ untilOf[i] > clock
                            /\ untilOf[i] \in Nat
                    /\ (\A c \in ClaimId : ~Runs(claims, c, i))
                         => holderOf[i] = NoRow /\ untilOf[i] = 0
  BY DEF Leases
<1>1. \A c \in ClaimId : c \in Claims(i) /\ Live(c) <=> Runs(claims, c, i)
  BY DEF Claims, Live, Active, Runs, ActiveIn
<1>2. Claims(i) \subseteq ClaimId
  BY DEF Claims
<1>3. ASSUME NEW c \in ClaimId, Runs(claims, c, i)
      PROVE  /\ holderOf[i] = claims[c].actor /\ holderOf[i] # NoRow
             /\ untilOf[i] = claims[c].expires /\ untilOf[i] > clock /\ untilOf[i] \in Nat
  <2>1. claims[c] \in ClaimRow /\ claims[c].actor \in Actor /\ claims[c].expires \in Nat
        /\ claims[c].expires > clock
    BY <1>3 DEF Runs, ActiveIn, IInv, TypeOK, ClaimRow
  <2>2. \A d \in ClaimId : Runs(claims, d, i) => d = c
    BY <1>3 DEF Runs, Rows, ClaimsFit, Single
  <2>3. \A a \in Actor : Holds(a, i) <=> a = claims[c].actor
    BY <1>1, <1>2, <1>3, <2>2 DEF Holds
  <2>4. holderOf[i] = claims[c].actor
    BY <2>1, <2>3 DEF holderOf
  <2>5. (CHOOSE d \in Claims(i) : Live(d)) = c /\ \E d \in Claims(i) : Live(d)
    BY <1>1, <1>2, <1>3, <2>2
  <2>6. untilOf[i] = claims[c].expires
    BY <2>5 DEF untilOf
  <2> QED
    BY <2>1, <2>4, <2>6, NoRowAssumption
<1>4. ASSUME \A c \in ClaimId : ~Runs(claims, c, i) PROVE holderOf[i] = NoRow /\ untilOf[i] = 0
  BY <1>1, <1>2, <1>4 DEF holderOf, untilOf, Holds
<1> QED
  BY <1>3, <1>4

LEMMA LeasesReadNext == (IInv /\ Rows)' => Leases'
BY LeasesRead, PTL

\* Nobody's lease changes but that on item i ...
LEMMA OtherLeases ==
    ASSUME Leases, Leases', UNCHANGED clock, NEW i \in Item, Elsewhere(claims, claims', i)
    PROVE  /\ holderOf' = [holderOf EXCEPT ![i] = holderOf'[i]]
           /\ untilOf' = [untilOf EXCEPT ![i] = untilOf'[i]]
<1>1. ASSUME NEW j \in Item, j # i PROVE holderOf'[j] = holderOf[j] /\ untilOf'[j] = untilOf[j]
  <2>1. \A c \in ClaimId : /\ Runs(claims, c, j)' <=> Runs(claims, c, j)
                           /\ Runs(claims, c, j) => claims'[c] = claims[c]
    BY <1>1 DEF Elsewhere, Runs, ActiveIn
  <2>2. CASE \E c \in ClaimId : Runs(claims, c, j)
    BY <2>1, <2>2 DEF Leases
  <2>3. CASE \A c \in ClaimId : ~Runs(claims, c, j)
    BY <2>1, <2>3 DEF Leases
  <2> QED
    BY <2>2, <2>3
<1>2. /\ holderOf = [j \in Item |-> holderOf[j]] /\ holderOf' = [j \in Item |-> holderOf'[j]]
      /\ untilOf = [j \in Item |-> untilOf[j]] /\ untilOf' = [j \in Item |-> untilOf'[j]]
  BY DEF holderOf, untilOf
<1> QED
  BY <1>1, <1>2

\* ... and none at all if the same claims run.
LEMMA LeasesStay ==
    ASSUME Leases, Leases', UNCHANGED clock, SameRunning(claims, claims')
    PROVE  UNCHANGED <<holderOf, untilOf>>
<1>1. ASSUME NEW j \in Item PROVE holderOf'[j] = holderOf[j] /\ untilOf'[j] = untilOf[j]
  <2>1. \A c \in ClaimId : /\ Runs(claims, c, j)' <=> Runs(claims, c, j)
                           /\ Runs(claims, c, j) => claims'[c] = claims[c]
    BY DEF SameRunning, Runs, ActiveIn
  <2>2. CASE \E c \in ClaimId : Runs(claims, c, j)
    BY <2>1, <2>2 DEF Leases
  <2>3. CASE \A c \in ClaimId : ~Runs(claims, c, j)
    BY <2>1, <2>3 DEF Leases
  <2> QED
    BY <2>2, <2>3
<1>2. /\ holderOf = [j \in Item |-> holderOf[j]] /\ holderOf' = [j \in Item |-> holderOf'[j]]
      /\ untilOf = [j \in Item |-> untilOf[j]] /\ untilOf' = [j \in Item |-> untilOf'[j]]
  BY DEF holderOf, untilOf
<1> QED
  BY <1>1, <1>2

\* The item's lease after the step, when nobody else's changes.
LEMMA LeaseHeld ==
    ASSUME Leases, Leases', UNCHANGED clock, NEW i \in Item, Elsewhere(claims, claims', i),
           NEW a \in Actor, NEW c \in ClaimId, Runs(claims', c, i), claims'[c].actor = a
    PROVE  Contract!HeldBy(i, a) /\ untilOf'[i] = claims'[c].expires
<1>1. Runs(claims, c, i)'
  BY DEF Runs, ActiveIn
<1>2. holderOf'[i] = a /\ untilOf'[i] > clock /\ untilOf'[i] = claims'[c].expires
  BY <1>1 DEF Leases
<1> QED
  BY <1>2, OtherLeases DEF Contract!HeldBy

LEMMA LeaseEnded ==
    ASSUME Leases, Leases', UNCHANGED <<clock, handoffs>>, NEW i \in Item, Elsewhere(claims, claims', i),
           \A c \in ClaimId : ~Runs(claims', c, i)
    PROVE  Contract!Relinquish(i)
<1>1. \A c \in ClaimId : ~Runs(claims, c, i)'
  BY DEF Runs, ActiveIn
<1>2. holderOf'[i] = NoRow /\ untilOf'[i] = 0
  BY <1>1 DEF Leases
<1>3. UNCHANGED offerOf
  BY DEF offerOf, Pending, StaleHandoff
<1> QED
  BY <1>2, <1>3, OtherLeases DEF Contract!Relinquish

Abstract == <<clock, holderOf, untilOf, offerOf>>

\* Nothing that an offer is read from changes.
LEMMA OffersStay == ASSUME UNCHANGED <<clock, handoffs>> PROVE UNCHANGED offerOf
BY DEF offerOf, Pending, StaleHandoff

LEMMA LeasesUntouched == ASSUME UNCHANGED <<clock, claims>> PROVE UNCHANGED <<holderOf, untilOf>>
BY DEF holderOf, untilOf, Holds, Claims, Live, Active

LEMMA ClaimStepKeeps ==
    ASSUME IInv, Rows, Leases, Leases', ClaimStep
    PROVE  [Contract!Next]_Abstract
<1>1. UNCHANGED <<clock, handoffs>> /\ ClaimsFit(claims)
  BY DEF ClaimStep, ClaimWorkItem, RenewWorkClaim, ReleaseWorkClaim, Rows
<1>2. UNCHANGED offerOf
  BY <1>1, OffersStay
<1>3. PICK i \in Item :
        /\ Elsewhere(claims, claims', i)
        /\ \/ SameRunning(claims, claims')
           \/ \E a \in Actor : Begun(claims, claims', a, i) \/ Longer(claims, claims', a, i)
           \/ \A c \in ClaimId : ~Runs(claims', c, i)
  BY <1>1, ClaimStepFits
<1>4. CASE SameRunning(claims, claims')
  BY <1>1, <1>2, <1>4, LeasesStay DEF Abstract
<1>5. ASSUME NEW a \in Actor, Begun(claims, claims', a, i) PROVE Contract!Next
  <2>1. PICK c \in ClaimId : Runs(claims', c, i) /\ claims'[c].actor = a
    BY <1>5 DEF Begun
  <2>2. Contract!HeldBy(i, a)
    BY <1>1, <1>3, <2>1, LeaseHeld
  <2>3. holderOf[i] = NoRow
    BY <1>5 DEF Begun, Leases
  <2>4. Contract!Acquire(i, a)
    BY <1>1, <1>2, <2>2, <2>3 DEF Contract!Acquire
  <2> QED
    BY <2>4 DEF Contract!Next
<1>6. ASSUME NEW a \in Actor, Longer(claims, claims', a, i) PROVE Contract!Next
  <2>1. PICK c \in ClaimId : /\ Runs(claims, c, i) /\ claims[c].actor = a
                             /\ Runs(claims', c, i) /\ claims'[c].actor = a
                             /\ claims'[c].expires >= claims[c].expires
    BY <1>6 DEF Longer
  <2>2. Contract!HeldBy(i, a) /\ untilOf'[i] = claims'[c].expires
    BY <1>1, <1>3, <2>1, LeaseHeld
  <2>3. holderOf[i] = a /\ holderOf[i] # NoRow /\ untilOf[i] = claims[c].expires
    BY <2>1 DEF Leases
  <2>4. Contract!Extend(i)
    BY <1>1, <1>2, <2>1, <2>2, <2>3 DEF Contract!Extend
  <2> QED
    BY <2>4 DEF Contract!Next
<1>7. CASE \A c \in ClaimId : ~Runs(claims', c, i)
  <2>1. Contract!Relinquish(i)
    BY <1>1, <1>3, <1>7, LeaseEnded
  <2> QED
    BY <2>1 DEF Contract!Next
<1> QED
  BY <1>3, <1>4, <1>5, <1>6, <1>7

\* The row of one handoff is written: only its offer can change, and it is over
\* unless the row is pending.
LEMMA OtherOffers ==
    ASSUME IInv, NEW h \in HandoffId, NEW row \in HandoffRow, handoffs' = [handoffs EXCEPT ![h] = row],
           UNCHANGED clock
    PROVE  /\ offerOf' = [offerOf EXCEPT ![h] = offerOf'[h]]
           /\ row.status # "pending" => offerOf' = [offerOf EXCEPT ![h] = NoRow]
<1>1. handoffs'[h] = row /\ \A g \in HandoffId : g # h => handoffs'[g] = handoffs[g]
  BY DEF IInv, TypeOK
<1>2. \A g \in HandoffId : g # h => offerOf'[g] = offerOf[g]
  BY <1>1 DEF offerOf, Pending, StaleHandoff
<1>3. /\ offerOf = [g \in HandoffId |-> offerOf[g]]
      /\ offerOf' = [g \in HandoffId |-> offerOf'[g]]
  BY DEF offerOf
<1>4. row.status # "pending" => offerOf'[h] = NoRow
  BY <1>1 DEF offerOf, Pending
<1> QED
  BY <1>2, <1>3, <1>4

LEMMA OfferEnded ==
    ASSUME IInv, NEW h \in HandoffId, handoffs[h] # NoRow, UNCHANGED clock,
           NEW status \in {"accepted", "rejected", "canceled", "expired"},
           handoffs' = [handoffs EXCEPT ![h].status = status]
    PROVE  offerOf' = [offerOf EXCEPT ![h] = NoRow]
<1>1. PICK row \in HandoffRow :
        /\ row = [handoffs[h] EXCEPT !.status = status]
        /\ [handoffs EXCEPT ![h].status = status] = [handoffs EXCEPT ![h] = row]
        /\ [handoffs EXCEPT ![h].status = status][h] = row
  BY HandoffStatus, Zenon
<1>2. handoffs' = [handoffs EXCEPT ![h] = row]
  BY <1>1
<1>3. row.status # "pending"
  <2>1. handoffs[h] \in HandoffRow
    BY DEF IInv, TypeOK
  <2> QED
    BY <1>1, <2>1 DEF HandoffRow
<1> QED
  BY <1>2, <1>3, OtherOffers

LEMMA CreateKeeps ==
    ASSUME IInv, Rows, NEW a \in Actor, NEW to \in Actor, NEW i \in Item, NEW d \in Deadline,
           CreateHandoff(a, to, i, d)
    PROVE  Contract!Next \/ UNCHANGED Abstract
<1> PICK h \in HandoffId : h = NextId(handoffs)
  BY DEF CreateHandoff
<1> PICK row \in HandoffRow :
      row = [item |-> i, from |-> a, to |-> to, status |-> "pending", expires |-> d]
  BY MemoryAssumption DEF HandoffRow
<1>1. handoffs' = [handoffs EXCEPT ![h] = row] /\ UNCHANGED <<clock, holderOf, untilOf>>
  BY LeasesUntouched DEF CreateHandoff
<1>2. handoffs[h] = NoRow
  <2>1. DOMAIN handoffs = 1..MaxHandoffs /\ Dense(handoffs, MaxHandoffs) /\ MaxHandoffs \in Nat
    BY MemoryAssumption DEF Rows, IInv, TypeOK, HandoffId
  <2>2. NextId(handoffs) \in 1..MaxHandoffs
    BY DEF CreateHandoff, HandoffId
  <2> QED
    BY <2>1, <2>2, NextIsFree
<1>3. offerOf[h] = NoRow
  BY <1>2 DEF offerOf, Pending
<1>4. offerOf' = [offerOf EXCEPT ![h] = offerOf'[h]]
  BY <1>1, OtherOffers
<1>5. offerOf'[h] \in {NoRow, [item |-> i, from |-> a, to |-> to]}
  <2>1. handoffs'[h] = row
    BY <1>1 DEF IInv, TypeOK
  <2> QED
    BY <2>1 DEF offerOf
<1>6. CASE offerOf'[h] = NoRow
  <2>1. offerOf' = offerOf
    BY <1>3, <1>4, <1>6 DEF offerOf
  <2> QED
    BY <1>1, <2>1 DEF Abstract
<1>7. CASE offerOf'[h] = [item |-> i, from |-> a, to |-> to]
  <2>1. Contract!MakeOffer(h, a, to, i)
    BY <1>1, <1>3, <1>4, <1>7 DEF Contract!MakeOffer
  <2> QED
    BY <2>1 DEF Contract!Next
<1> QED
  BY <1>5, <1>6, <1>7

LEMMA AcceptKeeps ==
    ASSUME IInv, Rows, Leases, Leases', NEW a \in Actor, NEW h \in HandoffId, AcceptHandoff(a, h)
    PROVE  Contract!Transfer(h)
<1>1. /\ handoffs[h] # NoRow /\ handoffs[h] \in HandoffRow /\ ClaimsFit(claims) /\ UNCHANGED clock
      /\ Pending(h) /\ ~StaleHandoff(h) /\ handoffs[h].to = a
  BY DEF AcceptHandoff, MayAccept, Pending, IInv, TypeOK, Rows
<1> PICK i \in Item : i = handoffs[h].item
  BY <1>1 DEF HandoffRow
<1>2. /\ offerOf[h] # NoRow /\ offerOf[h].item = i
      /\ offerOf[h].from = handoffs[h].from /\ offerOf[h].to = a
  <2>1. offerOf[h] = [item |-> i, from |-> handoffs[h].from, to |-> a]
    BY <1>1 DEF offerOf
  <2>2. offerOf[h] \in [item : Item, from : Actor, to : Actor]
    BY <1>1, <2>1 DEF HandoffRow
  <2> QED
    BY <2>1, <2>2, NoRowAssumption
<1>3. offerOf' = [offerOf EXCEPT ![h] = NoRow]
  BY <1>1, OfferEnded DEF AcceptHandoff
<1>4. holderOf[i] \in {NoRow, offerOf[h].from}
  <2>1. CASE \E c \in ClaimId : Runs(claims, c, i)
    <3>1. PICK c \in ClaimId : Runs(claims, c, i)
      BY <2>1
    <3>2. c \in LiveClaims(h)
      BY <3>1 DEF LiveClaims, Claims, Live, Active, Runs, ActiveIn
    <3>3. claims[c].actor = handoffs[h].from
      BY <3>2 DEF AcceptHandoff, MayAccept
    <3> QED
      BY <1>2, <3>1, <3>3 DEF Leases
  <2>2. CASE \A c \in ClaimId : ~Runs(claims, c, i)
    BY <2>2 DEF Leases
  <2> QED
    BY <2>1, <2>2
<1>5. Contract!HeldBy(i, a)
  BY <1>1, AcceptFits, LeaseHeld
<1> QED
  BY <1>1, <1>2, <1>3, <1>4, <1>5 DEF Contract!Transfer

LEMMA HandoffStepKeeps ==
    ASSUME IInv, Rows, Leases, Leases', HandoffStep
    PROVE  [Contract!Next]_Abstract
<1>1. ASSUME NEW a \in Actor, NEW to \in Actor, NEW i \in Item, NEW d \in Deadline,
             CreateHandoff(a, to, i, d)
      PROVE  Contract!Next \/ UNCHANGED Abstract
  BY <1>1, CreateKeeps
<1>2. ASSUME NEW a \in Actor, NEW h \in HandoffId,
             ExpireOnDecision(a, h) \/ RejectHandoff(a, h) \/ CancelHandoff(a, h)
      PROVE  Contract!Next
  <2>1. /\ handoffs[h] # NoRow /\ UNCHANGED <<clock, claims>>
        /\ \E status \in {"accepted", "rejected", "canceled", "expired"} :
              handoffs' = [handoffs EXCEPT ![h].status = status]
    BY <1>2 DEF ExpireOnDecision, RejectHandoff, CancelHandoff, StaleHandoff, Pending, Decide
  <2>2. offerOf' = [offerOf EXCEPT ![h] = NoRow]
    BY <2>1, OfferEnded
  <2>3. Contract!EndOffer(h)
    BY <2>1, <2>2, LeasesUntouched DEF Contract!EndOffer
  <2> QED
    BY <2>3 DEF Contract!Next
<1>3. ASSUME NEW a \in Actor, NEW h \in HandoffId, AcceptHandoff(a, h) PROVE Contract!Next
  BY <1>3, AcceptKeeps DEF Contract!Next
<1>4. ASSUME NEW a \in Actor, NEW h \in HandoffId, AcceptHandoffFails(a, h) PROVE Contract!Next
  <2>1. /\ handoffs[h] # NoRow /\ UNCHANGED <<clock, handoffs>> /\ ClaimsFit(claims)
        /\ claims' = Yielded(h).rows
    BY <1>4 DEF AcceptHandoffFails, MayAccept, Pending, Become, Rows
  <2>2. PICK i \in Item : i = handoffs[h].item
    BY <2>1 DEF IInv, TypeOK, HandoffRow
  <2>3. Elsewhere(claims, claims', i) /\ \A c \in ClaimId : ~Runs(claims', c, i)
    BY <2>1, <2>2, YieldedFits
  <2>4. Contract!Relinquish(i)
    BY <2>1, <2>3, LeaseEnded
  <2> QED
    BY <2>4 DEF Contract!Next
<1> QED
  BY <1>1, <1>2, <1>3, <1>4 DEF HandoffStep, Abstract

LEMMA ReapKeeps ==
    ASSUME IInv, Rows, Leases, Leases', ExpireStaleClaims \/ ExpireStaleHandoffs
    PROVE  UNCHANGED Abstract
<1>1. CASE ExpireStaleClaims
  <2>1. UNCHANGED <<clock, handoffs>> /\ SameRunning(claims, claims')
    BY <1>1, ReapFits DEF ExpireStaleClaims, Rows
  <2> QED
    BY <2>1, LeasesStay, OffersStay DEF Abstract
<1>2. CASE ExpireStaleHandoffs
  <2>1. UNCHANGED <<clock, claims>>
    BY <1>2 DEF ExpireStaleHandoffs
  <2>2. ASSUME NEW h \in HandoffId PROVE offerOf'[h] = offerOf[h]
    <3>1. handoffs'[h] = IF StaleHandoff(h) THEN [handoffs[h] EXCEPT !.status = "expired"]
                                            ELSE handoffs[h]
      BY <1>2 DEF ExpireStaleHandoffs
    <3>2. CASE StaleHandoff(h)
      <4>1. handoffs[h] \in HandoffRow
        BY <3>2 DEF StaleHandoff, Pending, IInv, TypeOK
      <4>2. handoffs'[h].status = "expired"
        BY <3>1, <3>2, <4>1 DEF HandoffRow
      <4>3. ~Pending(h)'
        BY <4>2 DEF Pending
      <4> QED
        BY <3>2, <4>3 DEF offerOf
    <3>3. CASE ~StaleHandoff(h)
      BY <2>1, <3>1, <3>3 DEF offerOf, Pending, StaleHandoff
    <3> QED
      BY <3>2, <3>3
  <2>3. offerOf = [h \in HandoffId |-> offerOf[h]] /\ offerOf' = [h \in HandoffId |-> offerOf'[h]]
    BY DEF offerOf
  <2>4. offerOf' = offerOf
    BY <2>2, <2>3
  <2> QED
    BY <2>1, <2>4, LeasesUntouched DEF Abstract
<1> QED
  BY <1>1, <1>2

LEMMA TickKeeps ==
    ASSUME IInv, Rows, Leases, Leases', Tick
    PROVE  Contract!Pass
<1>1. clock \in Nat /\ clock' = clock + 1 /\ UNCHANGED <<claims, handoffs>>
  BY DEF Tick, rows, IInv, TypeOK
<1>2. ASSUME NEW i \in Item
      PROVE  /\ holderOf'[i] = IF untilOf[i] <= clock' THEN NoRow ELSE holderOf[i]
             /\ untilOf'[i] = IF untilOf[i] <= clock' THEN 0 ELSE untilOf[i]
  <2>1. CASE \E c \in ClaimId : Runs(claims, c, i)
    <3> PICK c \in ClaimId : Runs(claims, c, i)
      BY <2>1
    <3>1. /\ ActiveIn(claims, c) /\ claims[c].item = i /\ claims[c].expires \in Nat
          /\ holderOf[i] = claims[c].actor /\ untilOf[i] = claims[c].expires
      BY DEF Leases, Runs, ActiveIn, IInv, TypeOK, ClaimRow
    <3>2. \A d \in ClaimId : Runs(claims, d, i)' => d = c
      BY <1>1, <3>1 DEF Runs, ActiveIn, Rows, ClaimsFit, Single
    <3>3. Runs(claims, c, i)' <=> ~(untilOf[i] <= clock')
      BY <1>1, <3>1 DEF Runs, ActiveIn
    <3> QED
      BY <1>1, <3>1, <3>2, <3>3 DEF Leases
  <2>2. CASE \A c \in ClaimId : ~Runs(claims, c, i)
    <3>1. ASSUME NEW c \in ClaimId, Runs(claims, c, i)' PROVE FALSE
      <4>1. ActiveIn(claims, c) /\ claims[c].item = i /\ claims[c].expires > clock' /\ claims[c].expires \in Nat
        BY <1>1, <3>1 DEF Runs, ActiveIn, IInv, TypeOK, ClaimRow
      <4> QED
        BY <1>1, <2>2, <4>1 DEF Runs
    <3>2. holderOf[i] = NoRow /\ untilOf[i] = 0 /\ holderOf'[i] = NoRow /\ untilOf'[i] = 0
      BY <2>2, <3>1 DEF Leases
    <3> QED
      BY <1>1, <3>2
  <2> QED
    BY <2>1, <2>2
<1>3. ASSUME NEW h \in HandoffId PROVE offerOf'[h] \in {offerOf[h], NoRow}
  <2>1. StaleHandoff(h) => StaleHandoff(h)'
    BY <1>1 DEF StaleHandoff, Pending, Overdue, IInv, TypeOK, HandoffRow
  <2>2. Pending(h)' <=> Pending(h)
    BY <1>1 DEF Pending
  <2> QED
    BY <1>1, <2>1, <2>2 DEF offerOf
<1>4. /\ holderOf' = [i \in Item |-> holderOf'[i]] /\ untilOf' = [i \in Item |-> untilOf'[i]]
      /\ offerOf' = [h \in HandoffId |-> offerOf'[h]]
  BY DEF holderOf, untilOf, offerOf
<1> QED
  BY <1>1, <1>2, <1>3, <1>4 DEF Contract!Pass

LEMMA InitKeeps == Init => Contract!Init
<1> SUFFICES ASSUME Init PROVE Contract!Init
  OBVIOUS
<1>1. Leases
  BY InitInv, InitRows, LeasesRead
<1>2. ASSUME NEW i \in Item PROVE holderOf[i] = NoRow /\ untilOf[i] = 0
  BY <1>1 DEF Init, Runs, ActiveIn, Leases
<1>3. holderOf = [i \in Item |-> NoRow] /\ untilOf = [i \in Item |-> 0]
  BY <1>2 DEF holderOf, untilOf
<1>4. offerOf = [h \in HandoffId |-> NoRow]
  BY DEF Init, offerOf, Pending
<1> QED
  BY <1>3, <1>4 DEF Init, Contract!Init

LEMMA NextKeeps == (IInv /\ Rows) /\ (IInv /\ Rows)' /\ [Next]_vars => [Contract!Next]_Abstract
<1> SUFFICES ASSUME IInv, Rows, (IInv /\ Rows)', [Next]_vars PROVE [Contract!Next]_Abstract
  OBVIOUS
<1>1. Leases /\ Leases'
  BY LeasesRead, LeasesReadNext
<1>2. CASE Tick
  BY <1>1, <1>2, TickKeeps DEF Contract!Next
<1>3. CASE ItemStep \/ UNCHANGED vars
  <2>1. UNCHANGED <<clock, claims, handoffs>>
    BY <1>3 DEF ItemStep, InsertWorkItem, UpdateWorkItem, DeleteWorkItem, rows, vars
  <2> QED
    BY <2>1, LeasesUntouched, OffersStay DEF Abstract
<1> QED
  BY <1>1, <1>2, <1>3, ClaimStepKeeps, HandoffStepKeeps, ReapKeeps DEF Next

\* The arrays implement the lease contract (claimWorkItem, renewWorkClaim,
\* releaseWorkClaim, acceptHandoff and the reapers of the in-memory adapter): of
\* all the rows an item has collected one runs at most, its lease ends exactly at a
\* deadline that only moves forward, and the item passes straight to another actor
\* only by an open offer that the passage uses up.
THEOREM ArraysKeepContract == Spec => KeepsContract
<1>1. (IInv /\ Rows) /\ (IInv /\ Rows)' /\ [Next]_vars => [Contract!Next]_(Contract!vars)
  BY NextKeeps DEF Abstract, Contract!vars
<1> QED
  BY <1>1, InitKeeps, RowsInvariance, PTL DEF Spec, KeepsContract, Contract!Spec

\* Once the running claim is released, no row of the item is active.
LEMMA NothingStands ==
    ASSUME IInv, ClaimsFit(claims), NEW h \in HandoffId, handoffs[h] # NoRow, NEW a,
           LiveClaims(h) # {}, items[handoffs[h].item] = "open"
    PROVE  ~Refused(Yielded(h), a, handoffs[h].item)
<1>1. PICK i \in Item : i = handoffs[h].item
  BY DEF IInv, TypeOK, HandoffRow
<1>2. PICK s : s = Yielded(h)
  OBVIOUS
<1>3. \A d \in ClaimId : ~(ActiveIn(s.rows, d) /\ s.rows[d].item = i)
  BY <1>1, <1>2, YieldedFits
<1>4. PICK mine \in SUBSET ClaimId : mine = {c \in ClaimId : s.rows[c] # NoRow /\ s.rows[c].item = i}
  OBVIOUS
<1>5. mine # {} => First(mine) \in mine
  BY FirstOf DEF ClaimId
<1>6. ~(mine # {} /\ s.rows[First(mine)].status = "active" /\ s.rows[First(mine)].expires <= clock)
  BY <1>3, <1>4, <1>5 DEF ActiveIn
<1>7. Swept(s, i) = s
  BY <1>4, <1>6 DEF Swept
<1>8. Standing(s, i) = {}
  BY <1>3 DEF Standing, ActiveIn
<1> QED
  BY <1>1, <1>2, <1>7, <1>8 DEF Refused

\* A lease that an attempt to accept ends is given to the accepting actor, or the
\* item is done or gone: the release and the claim of acceptHandoff, which no
\* transaction holds together, come apart in no other way.
THEOREM AcceptanceKeepsOrMoves == Spec => AcceptKeepsOrMoves
<1>1. ASSUME IInv, Rows, NEW a \in Actor, NEW b \in Actor, NEW h \in HandoffId,
             AcceptHandoff(b, h) \/ AcceptHandoffFails(b, h), Holds(a, handoffs[h].item)
      PROVE  Holds(b, handoffs[h].item)' \/ items[handoffs[h].item] # "open"
  <2>1. handoffs[h] # NoRow /\ ClaimsFit(claims) /\ UNCHANGED clock
    BY <1>1 DEF AcceptHandoff, AcceptHandoffFails, MayAccept, Pending, Rows
  <2>2. PICK i \in Item : i = handoffs[h].item
    BY <1>1, <2>1 DEF IInv, TypeOK, HandoffRow
  <2>3. LiveClaims(h) # {}
    BY <1>1 DEF Holds, LiveClaims
  <2>4. CASE AcceptHandoff(b, h)
    <3>1. PICK c \in ClaimId : Runs(claims', c, i) /\ claims'[c].actor = b
      BY <1>1, <2>1, <2>2, <2>4, AcceptFits
    <3>2. handoffs'[h].item = i
      <4>1. PICK row \in HandoffRow :
              /\ row = [handoffs[h] EXCEPT !.status = "accepted"]
              /\ [handoffs EXCEPT ![h].status = "accepted"] = [handoffs EXCEPT ![h] = row]
              /\ [handoffs EXCEPT ![h].status = "accepted"][h] = row
        BY <1>1, <2>1, HandoffStatus
      <4>2. handoffs'[h] = row
        BY <2>4, <4>1 DEF AcceptHandoff
      <4>3. handoffs[h] \in HandoffRow
        BY <1>1, <2>1 DEF IInv, TypeOK
      <4> QED
        BY <2>2, <4>1, <4>2, <4>3 DEF HandoffRow
    <3>3. Holds(b, i)'
      BY <2>1, <3>1 DEF Holds, Claims, Live, Active, Runs, ActiveIn
    <3> QED
      BY <3>2, <3>3
  <2>5. CASE AcceptHandoffFails(b, h)
    BY <1>1, <2>1, <2>3, <2>5, NothingStands DEF AcceptHandoffFails
  <2> QED
    BY <1>1, <2>4, <2>5
<1>2. (IInv /\ Rows) /\ [Next]_vars
        => [\A a, b \in Actor, h \in HandoffId :
              /\ AcceptHandoff(b, h) \/ AcceptHandoffFails(b, h)
              /\ Holds(a, handoffs[h].item) /\ ~Holds(a, handoffs[h].item)'
              => Holds(b, handoffs[h].item)' \/ items[handoffs[h].item] # "open"]_vars
  BY <1>1
<1> QED
  BY <1>2, RowsInvariance, PTL DEF Spec, AcceptKeepsOrMoves
=============================================================================
