------------------------- MODULE MemoryCoordination -------------------------
(***************************************************************************)
(* Claims and handoffs as the in-memory adapter keeps them                  *)
(* (src/adapters/memory/index.ts): two arrays, searched from the front.     *)
(* Every row that was ever made stays in its array, so an item may have     *)
(* several claims.  Calls are synchronous, hence one action each, but only  *)
(* the reapers are transactions: a call that throws half-way keeps what it  *)
(* has done.  Point-in-time replay (core/temporal.ts) reads the event log.  *)
(***************************************************************************)
EXTENDS Naturals, Sequences, FiniteSets

CONSTANTS
    Actor,          \* actors, compared by (actor_kind, actor_id)
    Item,           \* work item ids
    Lease,          \* lease_seconds a caller may ask for
    DefaultLease,   \* lease_seconds ?? 300: acceptHandoff asks for none
    Deadline,       \* expires_at values a caller may give a handoff
    NoDeadline,     \* expires_at = null
    NoRow,          \* no such row
    MaxTime,        \* bound: the clock stops here
    MaxExpiry,      \* bound: a lease is not extended beyond this time
    MaxClaims,      \* bound: claim ids that are ever allocated
    MaxHandoffs,    \* bound: handoff ids that are ever allocated
    MaxEvents       \* bound: actors start no call behind this many events

ASSUME MemoryAssumption ==
    /\ Lease \subseteq Nat /\ DefaultLease \in Nat \ {0}
    /\ Deadline \subseteq Nat \cup {NoDeadline} /\ NoDeadline \notin Nat
    /\ MaxTime \in Nat /\ MaxExpiry \in Nat /\ MaxEvents \in Nat
    /\ MaxClaims \in Nat /\ MaxHandoffs \in Nat

ClaimId   == 1..MaxClaims
HandoffId == 1..MaxHandoffs

ClaimRow   == [item : Item, actor : Actor, expires : Nat,
               status : {"active", "released", "expired"}]
HandoffRow == [item : Item, from : Actor, to : Actor, expires : Nat \cup {NoDeadline},
               status : {"pending", "accepted", "rejected", "canceled", "expired"}]

ASSUME NoRowAssumption ==
    NoRow \notin ClaimRow \cup HandoffRow \cup Actor \cup [item : Item, from : Actor, to : Actor]

VARIABLES
    clock,     \* nowSeconds()
    items,     \* "absent", "open" (not done), "done", "deleted"
    claims,    \* state.workClaims by id, which is also their order
    handoffs,  \* state.handoffs by id
    log,       \* state.memoryEvents about them: [kind, id, after, at]
    seen       \* history: what reads showed at the end of each second

rows == <<claims, handoffs, log>>
vars == <<clock, items, rows, seen>>

Init ==
    /\ clock = 0
    /\ items = [i \in Item |-> "absent"]
    /\ claims = [c \in ClaimId |-> NoRow]
    /\ handoffs = [h \in HandoffId |-> NoRow]
    /\ log = <<>>
    /\ seen = <<>>

------------------------------------------------------------------------------
(* Rows and the clock *)

Claims(i) == {c \in ClaimId : claims[c] # NoRow /\ claims[c].item = i}
Active(c) == claims[c] # NoRow /\ claims[c].status = "active"

Lapsed(c) == Active(c) /\ claims[c].expires <= clock
Live(c) == Active(c) /\ claims[c].expires > clock
Holds(a, i) == \E c \in Claims(i) : Live(c) /\ claims[c].actor = a

Pending(h) == handoffs[h] # NoRow /\ handoffs[h].status = "pending"
Overdue(row, at) == row.expires # NoDeadline /\ row.expires <= at
StaleHandoff(h)  == Pending(h) /\ Overdue(handoffs[h], clock)

\* state.workClaims.find(...): the claim that was made first.
First(ids) == CHOOSE c \in ids : \A d \in ids : c <= d

NextId(table) == Cardinality({n \in DOMAIN table : table[n] # NoRow}) + 1

Max2(m, n) == IF m > n THEN m ELSE n

\* The status that reads return: effectiveClaim, effectiveHandoff ...
EffectiveClaim(c) ==
    IF Lapsed(c) THEN "expired" ELSE IF claims[c] = NoRow THEN "none" ELSE claims[c].status

EffectiveHandoff(h) ==
    IF StaleHandoff(h) THEN "expired"
    ELSE IF handoffs[h] = NoRow THEN "none" ELSE handoffs[h].status

\* Mutated forms (suffix _bug, each ahead of the definition it stands in for) are
\* what a plausible slip in the code would give; no specification uses them.
NormalizeWorkClaimAt_bug(row, asOf) ==
    IF row = NoRow THEN "none"
    ELSE IF row.status = "active" /\ row.expires < asOf THEN "expired" ELSE row.status

\* ... and that replay gives a row as of a time: normalizeWorkClaimAt, normalizeHandoffAt.
NormalizeWorkClaimAt(row, asOf) ==
    IF row = NoRow THEN "none"
    ELSE IF row.status = "active" /\ row.expires <= asOf THEN "expired" ELSE row.status

NormalizeHandoffAt(row, asOf) ==
    IF row = NoRow THEN "none"
    ELSE IF row.status = "pending" /\ Overdue(row, asOf) THEN "expired" ELSE row.status

\* seen[t + 1] is second t.
Tick ==
    /\ clock < MaxTime
    /\ clock' = clock + 1
    /\ seen' = Append(seen, [claims   |-> [c \in ClaimId |-> EffectiveClaim(c)],
                            handoffs |-> [h \in HandoffId |-> EffectiveHandoff(h)]])
    /\ UNCHANGED <<items, rows>>

ClaimEvent(c, row)   == [kind |-> "claim", id |-> c, after |-> row, at |-> clock]
HandoffEvent(h, row) == [kind |-> "handoff", id |-> h, after |-> row, at |-> clock]

------------------------------------------------------------------------------
(* Work items *)

InsertWorkItem(i) ==
    /\ items[i] = "absent"
    /\ items' = [items EXCEPT ![i] = "open"]
    /\ UNCHANGED <<clock, rows, seen>>

UpdateWorkItem(i, status) ==
    /\ items[i] \in {"open", "done"}
    /\ items' = [items EXCEPT ![i] = status]
    /\ UNCHANGED <<clock, rows, seen>>

\* No cascade: the claims and handoffs of a deleted item stay.
DeleteWorkItem(i) ==
    /\ items[i] \in {"open", "done"}
    /\ items' = [items EXCEPT ![i] = "deleted"]
    /\ UNCHANGED <<clock, rows, seen>>

------------------------------------------------------------------------------
(* Claims: what a call makes of [rows, log], so that calls can be chained. *)

Now == [rows |-> claims, log |-> log]

Write(s, c, row) ==
    [rows |-> [s.rows EXCEPT ![c] = row], log |-> Append(s.log, ClaimEvent(c, row))]

Expired(s, c) == Write(s, c, [s.rows[c] EXCEPT !.status = "expired"])
Released(s, c) == Write(s, c, [s.rows[c] EXCEPT !.status = "released"])
Renewed(s, c, lease) ==
    Write(s, c, [s.rows[c] EXCEPT !.expires = Max2(@, clock) + lease])

\* Only the first claim of the item is looked at for a lease that has lapsed.
Swept(s, i) ==
    LET mine == {c \in ClaimId : s.rows[c] # NoRow /\ s.rows[c].item = i} IN
    IF mine # {} /\ s.rows[First(mine)].status = "active" /\ s.rows[First(mine)].expires <= clock
    THEN Expired(s, First(mine)) ELSE s

\* The claims that stand in the way of a new one: the status alone counts.
Standing(s, i) == {c \in ClaimId : s.rows[c] # NoRow /\ s.rows[c].item = i
                                     /\ s.rows[c].status = "active"}

\* claimWorkItem gives item i to actor a, or throws.
Refused(s, a, i) ==
    \/ items[i] # "open"
    \/ LET active == Standing(Swept(s, i), i)
       IN active # {} /\ s.rows[First(active)].actor # a

\* When it does not throw: the claim that stands is renewed, else there is a new one.
\* (Before the push the code filters the item's active rows out of the array; at
\* that point there are none, so no row goes.)
Claimed(s, a, i, lease) ==
    LET swept  == Swept(s, i)
        active == Standing(swept, i)
    IN IF active # {} THEN Renewed(swept, First(active), lease)
       ELSE Write(swept, NextId(swept.rows),
                  [item |-> i, actor |-> a, status |-> "active", expires |-> clock + lease])

\* Bounds of the model: actors start no call behind MaxEvents events, claims stay
\* within MaxClaims and leases within MaxExpiry.
MayCall == Len(log) < MaxEvents
Bounded(s) ==
    /\ s.log[Len(s.log)].id \in ClaimId
    /\ \A c \in ClaimId : s.rows[c] # NoRow => s.rows[c].expires <= MaxExpiry

Become(s) == claims' = s.rows /\ log' = s.log

\* A call that is refused changes nothing: when the claim it looks at has lapsed,
\* no other stands.
ClaimWorkItem(a, i, lease) ==
    /\ MayCall
    /\ ~Refused(Now, a, i)
    /\ Bounded(Claimed(Now, a, i, lease))
    /\ Become(Claimed(Now, a, i, lease))
    /\ UNCHANGED <<clock, items, handoffs, seen>>

\* the lapse is noted in the row, without its event
RenewWorkClaim_bug(a, c, lease) ==
    /\ MayCall
    /\ Active(c) /\ claims[c].actor = a
    /\ Become(IF Lapsed(c) THEN [Expired(Now, c) EXCEPT !.log = log] ELSE Renewed(Now, c, lease))
    /\ \A d \in ClaimId : claims'[d] # NoRow => claims'[d].expires <= MaxExpiry
    /\ UNCHANGED <<clock, items, handoffs, seen>>

RenewWorkClaim(a, c, lease) ==
    /\ MayCall
    /\ Active(c) /\ claims[c].actor = a
    /\ LET s == IF Lapsed(c) THEN Expired(Now, c) ELSE Renewed(Now, c, lease)
       IN Bounded(s) /\ Become(s)
    /\ UNCHANGED <<clock, items, handoffs, seen>>

\* The clock is not looked at: a lapsed claim is released too.
ReleaseWorkClaim(a, c) ==
    /\ MayCall
    /\ Active(c) /\ claims[c].actor = a
    /\ Become(Released(Now, c))
    /\ UNCHANGED <<clock, items, handoffs, seen>>

\* The events a reaper logs, one for each id, in the order of the array.
InOrder(ids) == [n \in 1..Cardinality(ids) |->
                    CHOOSE c \in ids : Cardinality({d \in ids : d <= c}) = n]

\* the reaper, like claimWorkItem, looks at the first claim of an item only
ExpireStaleClaims_bug ==
    LET stale == {c \in ClaimId : Lapsed(c) /\ c = First(Claims(claims[c].item))}
    IN  /\ stale # {}
        /\ claims' = [c \in ClaimId |->
                        IF c \in stale THEN [claims[c] EXCEPT !.status = "expired"] ELSE claims[c]]
        /\ log' = log \o [n \in DOMAIN InOrder(stale) |->
                            ClaimEvent(InOrder(stale)[n], claims'[InOrder(stale)[n]])]
        /\ UNCHANGED <<clock, items, handoffs, seen>>

ExpireStaleClaims ==
    LET stale == {c \in ClaimId : Lapsed(c)}
    IN  /\ stale # {}
        /\ claims' = [c \in ClaimId |->
                        IF c \in stale THEN [claims[c] EXCEPT !.status = "expired"] ELSE claims[c]]
        /\ log' = log \o [n \in DOMAIN InOrder(stale) |->
                            ClaimEvent(InOrder(stale)[n], claims'[InOrder(stale)[n]])]
        /\ UNCHANGED <<clock, items, handoffs, seen>>

------------------------------------------------------------------------------
(* Handoffs *)

Decide(h, status) ==
    /\ handoffs' = [handoffs EXCEPT ![h].status = status]
    /\ log' = Append(log, HandoffEvent(h, handoffs'[h]))

\* the event is built before the row is in the array
\* Nothing asks that the item exist or that the offering actor hold it.
CreateHandoff(from, to, i, deadline) ==
    /\ MayCall
    /\ NextId(handoffs) \in HandoffId
    /\ handoffs' = [handoffs EXCEPT ![NextId(handoffs)] =
           [item |-> i, from |-> from, to |-> to, status |-> "pending", expires |-> deadline]]
    /\ log' = Append(log, HandoffEvent(NextId(handoffs), handoffs'[NextId(handoffs)]))
    /\ UNCHANGED <<clock, items, claims, seen>>

\* accept, reject and cancel of a handoff that has lapsed record its expiry.
ExpireOnDecision(a, h) ==
    /\ MayCall
    /\ StaleHandoff(h) /\ a \in {handoffs[h].from, handoffs[h].to}
    /\ Decide(h, "expired")
    /\ UNCHANGED <<clock, items, claims, seen>>

LiveClaims(h) == {c \in Claims(handoffs[h].item) : Live(c)}

\* What accepting does first: the offering actor's claim is released.
Yielded(h) == IF LiveClaims(h) = {} THEN Now ELSE Released(Now, First(LiveClaims(h)))

\* the item is claimed whoever holds it
MayAccept_bug(a, h) == MayCall /\ Pending(h) /\ ~StaleHandoff(h) /\ handoffs[h].to = a

MayAccept(a, h) ==
    /\ MayCall
    /\ Pending(h) /\ ~StaleHandoff(h) /\ handoffs[h].to = a
    /\ \A c \in LiveClaims(h) : claims[c].actor = handoffs[h].from

\* the claim is left to the accepting actor's next call
AcceptHandoff_bug(a, h) ==
    /\ MayAccept(a, h)
    /\ ~Refused(Yielded(h), a, handoffs[h].item)
    /\ claims' = Yielded(h).rows
    /\ handoffs' = [handoffs EXCEPT ![h].status = "accepted"]
    /\ log' = Append(Yielded(h).log, HandoffEvent(h, handoffs'[h]))
    /\ UNCHANGED <<clock, items, seen>>

AcceptHandoff(a, h) ==
    /\ MayAccept(a, h)
    /\ ~Refused(Yielded(h), a, handoffs[h].item)
    /\ LET s == Claimed(Yielded(h), a, handoffs[h].item, DefaultLease) IN
       /\ Bounded(s)
       /\ claims' = s.rows
       /\ handoffs' = [handoffs EXCEPT ![h].status = "accepted"]
       /\ log' = Append(s.log, HandoffEvent(h, handoffs'[h]))
    /\ UNCHANGED <<clock, items, seen>>

\* claimWorkItem throws: the claim is released, the handoff stays pending.
AcceptHandoffFails(a, h) ==
    /\ MayAccept(a, h)
    /\ Refused(Yielded(h), a, handoffs[h].item)
    /\ Become(Yielded(h))
    /\ UNCHANGED <<clock, items, handoffs, seen>>

RejectHandoff(a, h) ==
    /\ MayCall
    /\ Pending(h) /\ ~StaleHandoff(h) /\ handoffs[h].to = a
    /\ Decide(h, "rejected")
    /\ UNCHANGED <<clock, items, claims, seen>>

CancelHandoff(a, h) ==
    /\ MayCall
    /\ Pending(h) /\ ~StaleHandoff(h) /\ handoffs[h].from = a
    /\ Decide(h, "canceled")
    /\ UNCHANGED <<clock, items, claims, seen>>

ExpireStaleHandoffs ==
    LET stale == {h \in HandoffId : StaleHandoff(h)}
    IN  /\ stale # {}
        /\ handoffs' = [h \in HandoffId |->
              IF h \in stale THEN [handoffs[h] EXCEPT !.status = "expired"] ELSE handoffs[h]]
        /\ log' = log \o [n \in DOMAIN InOrder(stale) |->
                            HandoffEvent(InOrder(stale)[n], handoffs'[InOrder(stale)[n]])]
        /\ UNCHANGED <<clock, items, claims, seen>>

------------------------------------------------------------------------------

ItemStep == \E i \in Item :
    \/ InsertWorkItem(i) \/ DeleteWorkItem(i)
    \/ \E status \in {"open", "done"} : UpdateWorkItem(i, status)

ClaimStep == \E a \in Actor :
    \/ \E i \in Item, lease \in Lease : ClaimWorkItem(a, i, lease)
    \/ \E c \in ClaimId, lease \in Lease : RenewWorkClaim(a, c, lease)
    \/ \E c \in ClaimId : ReleaseWorkClaim(a, c)

HandoffStep == \E a \in Actor :
    \/ \E to \in Actor, i \in Item, d \in Deadline : CreateHandoff(a, to, i, d)
    \/ \E h \in HandoffId : \/ ExpireOnDecision(a, h)
                            \/ AcceptHandoff(a, h) \/ AcceptHandoffFails(a, h)
                            \/ RejectHandoff(a, h) \/ CancelHandoff(a, h)

Next == Tick \/ ItemStep \/ ClaimStep \/ HandoffStep \/ ExpireStaleClaims \/ ExpireStaleHandoffs

Spec == Init /\ [][Next]_vars

\* The maintenance scheduler keeps calling the reapers; no actor is fair.
FairSpec == Spec /\ WF_vars(Tick) /\ WF_vars(ExpireStaleClaims) /\ WF_vars(ExpireStaleHandoffs)

------------------------------------------------------------------------------
(* Properties *)

\* The row of an entity as the events dated up to a time leave it.
Replayed(kind, id, endAt) ==
    LET mine == {n \in DOMAIN log : log[n].kind = kind /\ log[n].id = id /\ log[n].at <= endAt}
    IN IF mine = {} THEN NoRow ELSE log[CHOOSE n \in mine : \A m \in mine : m <= n].after

\* Replay as of a past second shows of every claim and handoff what reads showed
\* when that second ended, although expiries are recorded later, by whoever comes
\* across them, and calls throw half-way; as of now it gives the rows themselves.
ReplayExact ==
    /\ \A t \in 0..(clock - 1) :
         /\ \A c \in ClaimId :
              NormalizeWorkClaimAt(Replayed("claim", c, t), t) = seen[t + 1].claims[c]
         /\ \A h \in HandoffId :
              NormalizeHandoffAt(Replayed("handoff", h, t), t) = seen[t + 1].handoffs[h]
    /\ \A c \in ClaimId : Replayed("claim", c, clock) = claims[c]
    /\ \A h \in HandoffId : Replayed("handoff", h, clock) = handoffs[h]

\* An attempt to accept a handoff ends the lease of the actor that offered it
\* only if the item changes hands, unless the item is done or gone: then that
\* actor is left without its lease and with the handoff still open.
AcceptKeepsOrMoves ==
    [][\A a, b \in Actor, h \in HandoffId :
          /\ AcceptHandoff(b, h) \/ AcceptHandoffFails(b, h)
          /\ Holds(a, handoffs[h].item) /\ ~Holds(a, handoffs[h].item)'
          => Holds(b, handoffs[h].item)' \/ items[handoffs[h].item] # "open"]_vars

\* An open item that is refused to an actor although nobody's lease on it runs:
\* claimWorkItem looks for a lapse at the first claim of the item only.
Stuck(a, i) ==
    items[i] = "open" /\ Refused(Now, a, i) /\ ~\E b \in Actor : Holds(b, i)

\* That is over when the reaper has come by.
RefusalEnds == \A a \in Actor, i \in Item : Stuck(a, i) ~> ~Stuck(a, i)

------------------------------------------------------------------------------
(* The lease contract, read off the arrays. *)

holderOf == [i \in Item |->
    IF \E a \in Actor : Holds(a, i) THEN CHOOSE a \in Actor : Holds(a, i) ELSE NoRow]

untilOf == [i \in Item |->
    IF \E c \in Claims(i) : Live(c)
    THEN claims[CHOOSE c \in Claims(i) : Live(c)].expires ELSE 0]

offerOf == [h \in HandoffId |->
    IF Pending(h) /\ ~StaleHandoff(h)
    THEN [item |-> handoffs[h].item, from |-> handoffs[h].from, to |-> handoffs[h].to]
    ELSE NoRow]

Contract == INSTANCE LeaseContract WITH
    OfferId <- HandoffId, Nobody <- NoRow, NoOffer <- NoRow,
    now <- clock, holder <- holderOf, until <- untilOf, offer <- offerOf

\* The arrays keep the contract of the SQLite tables: one holder per item, a lease
\* that only moves forward, and no passage to another actor but by an open offer.
KeepsContract == Contract!Spec
==============================================================================
