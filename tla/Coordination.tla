---------------------------- MODULE Coordination ----------------------------
(***************************************************************************)
(* Work items, leases ("work claims") and handoffs as the SQLite adapter    *)
(* keeps them (src/adapters/sqlite/index.ts).  Every operation of that      *)
(* adapter is one native transaction of a serialisable database, so every  *)
(* operation is one action here.  The same rows are written statement by   *)
(* statement by the Postgres adapter: see PgCoordination.                   *)
(*                                                                         *)
(* The two claim tables are kept apart: work_claims_current has one UNIQUE  *)
(* slot per work item, work_claims_history receives the rows that a new    *)
(* claim displaces.  Ids are AUTOINCREMENT and never reused.                *)
(***************************************************************************)
EXTENDS Naturals

CONSTANTS
    Actor,          \* actors, compared by (actor_kind, actor_id)
    Item,           \* work item ids
    Lease,          \* lease lengths a caller may ask for, in clock ticks
    DefaultLease,   \* the lease given to the accepting actor of a handoff
    Deadline,       \* expires_at values a caller may give a handoff
    NoDeadline,     \* expires_at = null
    NoRow,          \* no such row
    MaxTime,        \* bound: the clock stops here
    MaxExpiry,      \* bound: a lease is not extended beyond this time
    MaxClaims,      \* bound: claim ids that are ever allocated
    MaxHandoffs     \* bound: handoff ids that are ever allocated

ASSUME LeaseAssumption    == Lease \subseteq Nat /\ DefaultLease \in Nat \ {0}
ASSUME DeadlineAssumption == Deadline \subseteq Nat \cup {NoDeadline} /\ NoDeadline \notin Nat
ASSUME BoundAssumption    == MaxTime \in Nat /\ MaxExpiry \in Nat /\ MaxClaims \in Nat /\ MaxHandoffs \in Nat

ClaimId   == 1..MaxClaims
HandoffId == 1..MaxHandoffs

ClaimStatus   == {"active", "released", "expired"}
HandoffStatus == {"pending", "accepted", "rejected", "canceled", "expired"}

ClaimRow   == [item : Item, actor : Actor, status : ClaimStatus, expires : Nat]
HandoffRow == [item : Item, from : Actor, to : Actor, status : HandoffStatus,
               expires : Nat \cup {NoDeadline}]

Offer      == [item : Item, from : Actor, to : Actor]

ASSUME NoRowAssumption == NoRow \notin ClaimRow \cup HandoffRow \cup Offer \cup Actor

VARIABLES
    clock,           \* nowSeconds()
    items,           \* work_items: "absent", "open" (not done), "done", "deleted"
    current,         \* work_claims_current by claim id
    history,         \* work_claims_history by claim id
    nextClaim,       \* the id the next claim row gets
    claimLog,        \* `after` of the last work_claim event of each claim
    claimExpiries,   \* work_claim.expired events of each claim
    handoffs,        \* handoff_records by id
    nextHandoff,     \* the id the next handoff row gets
    handoffLog,      \* `after` of the last handoff event of each handoff
    handoffExpiries  \* handoff.expired events of each handoff

claimVars   == <<current, history, nextClaim, claimLog, claimExpiries>>
handoffVars == <<handoffs, nextHandoff, handoffLog, handoffExpiries>>
vars        == <<clock, items, claimVars, handoffVars>>

-----------------------------------------------------------------------------
(* What the code computes from a row and the clock. *)

\* Mutated forms (suffix _bug, each ahead of the definition it stands in for) are
\* what a plausible slip in the code would give; no specification uses them.
Lapsed_bug(c) == current[c] # NoRow /\ current[c].expires <= clock
Lapsed(c) == current[c] # NoRow /\ current[c].status = "active" /\ current[c].expires <= clock
Live(c)   == current[c] # NoRow /\ current[c].status = "active" /\ current[c].expires > clock
Dead(c)   == current[c] # NoRow /\ current[c].status # "active"

\* the row in the item's slot of work_claims_current
InSlot(c, i) == current[c] # NoRow /\ current[c].item = i

\* getActiveWorkClaim returns a claim of item i held by actor a
Holds(a, i) == \E c \in ClaimId : InSlot(c, i) /\ Live(c) /\ current[c].actor = a

HandoffLapsed(h) == /\ handoffs[h].expires # NoDeadline
                    /\ handoffs[h].expires <= clock

\* getWorkClaimById: the current table first, then history
ClaimById(c) == IF current[c] # NoRow THEN current[c] ELSE history[c]

\* effectiveClaim and effectiveHandoff: the status that every read returns
EffectiveClaim(c) ==
    IF Lapsed(c) THEN "expired" ELSE ClaimById(c).status

EffectiveHandoff(h) ==
    IF handoffs[h].status = "pending" /\ HandoffLapsed(h) THEN "expired" ELSE handoffs[h].status

-----------------------------------------------------------------------------
Init ==
    /\ clock = 0
    /\ items = [i \in Item |-> "absent"]
    /\ current = [c \in ClaimId |-> NoRow]
    /\ history = [c \in ClaimId |-> NoRow]
    /\ nextClaim = 1
    /\ claimLog = [c \in ClaimId |-> NoRow]
    /\ claimExpiries = [c \in ClaimId |-> 0]
    /\ handoffs = [h \in HandoffId |-> NoRow]
    /\ nextHandoff = 1
    /\ handoffLog = [h \in HandoffId |-> NoRow]
    /\ handoffExpiries = [h \in HandoffId |-> 0]

Tick ==
    /\ clock < MaxTime
    /\ clock' = clock + 1
    /\ UNCHANGED <<items, claimVars, handoffVars>>

-----------------------------------------------------------------------------
(* Work items *)

InsertWorkItem(i) ==
    /\ items[i] = "absent"
    /\ items' = [items EXCEPT ![i] = "open"]
    /\ UNCHANGED <<clock, claimVars, handoffVars>>

\* Neither status update looks at the claims: a done item may keep its holder.
UpdateWorkItem(i, status) ==
    /\ items[i] \in {"open", "done"}
    /\ items' = [items EXCEPT ![i] = status]
    /\ UNCHANGED <<clock, claimVars, handoffVars>>

\* ON DELETE CASCADE removes current claims and handoffs without an event of
\* their own; work_claims_history has no foreign key and keeps its rows.
DeleteWorkItem(i) ==
    /\ items[i] \in {"open", "done"}
    /\ items' = [items EXCEPT ![i] = "deleted"]
    /\ current' = [c \in ClaimId |-> IF InSlot(c, i) THEN NoRow ELSE current[c]]
    /\ handoffs' = [h \in HandoffId |->
                      IF handoffs[h] # NoRow /\ handoffs[h].item = i THEN NoRow ELSE handoffs[h]]
    /\ UNCHANGED <<clock, history, nextClaim, claimLog, claimExpiries,
                   nextHandoff, handoffLog, handoffExpiries>>

-----------------------------------------------------------------------------
(* Claims *)

\* UPDATE work_claims_current SET status/expires_at of claim c, with the event
\* that carries the row as `after`.
WriteClaim(c, row) ==
    /\ current' = [current EXCEPT ![c] = row]
    /\ claimLog' = [claimLog EXCEPT ![c] = row]
    /\ UNCHANGED <<history, nextClaim>>

\* The claim's lease has lapsed: status 'expired' and a work_claim.expired event.
ExpireClaim(c) ==
    /\ WriteClaim(c, [current[c] EXCEPT !.status = "expired"])
    /\ claimExpiries' = [claimExpiries EXCEPT ![c] = @ + 1]

\* the lease is counted from now, not from its deadline
ExtendClaim_bug(c, lease) ==
    /\ WriteClaim(c, [current[c] EXCEPT !.expires = clock + lease])
    /\ UNCHANGED claimExpiries

ExtendClaim(c, lease) ==
    /\ current[c].expires + lease <= MaxExpiry
    /\ WriteClaim(c, [current[c] EXCEPT !.expires = @ + lease])
    /\ UNCHANGED claimExpiries

\* How the row in the slot ends when a new claim displaces it: a live row is
\* only displaced by acceptHandoff, which releases it first.
Closed(c) ==
    IF Live(c) THEN [current[c] EXCEPT !.status = "released"]
    ELSE IF Lapsed(c) THEN [current[c] EXCEPT !.status = "expired"]
    ELSE current[c]

NewClaim(a, i, lease) ==
    [item |-> i, actor |-> a, status |-> "active", expires |-> clock + lease]

\* the displaced row stays in work_claims_current
Grant_bug(a, i, lease) ==
    /\ nextClaim \in ClaimId
    /\ nextClaim' = nextClaim + 1
    /\ current' = [current EXCEPT ![nextClaim] = NewClaim(a, i, lease)]
    /\ claimLog' = [claimLog EXCEPT ![nextClaim] = NewClaim(a, i, lease)]
    /\ UNCHANGED <<history, claimExpiries>>

\* Close the row in the slot of item i, archive it and insert a fresh claim.
Grant(a, i, lease) ==
    /\ nextClaim \in ClaimId
    /\ nextClaim' = nextClaim + 1
    /\ current' = [c \in ClaimId |->
                     IF c = nextClaim THEN NewClaim(a, i, lease)
                     ELSE IF InSlot(c, i) THEN NoRow ELSE current[c]]
    /\ history' = [c \in ClaimId |-> IF InSlot(c, i) THEN Closed(c) ELSE history[c]]
    /\ claimLog' = [c \in ClaimId |->
                      IF c = nextClaim THEN NewClaim(a, i, lease)
                      ELSE IF InSlot(c, i) /\ ~Dead(c) THEN Closed(c) ELSE claimLog[c]]
    /\ claimExpiries' = [c \in ClaimId |->
                           IF InSlot(c, i) /\ Lapsed(c) THEN claimExpiries[c] + 1
                           ELSE claimExpiries[c]]

\* claimWorkItem when the actor already holds the live lease: it is renewed.
ReclaimOwn(a, i, lease) ==
    /\ items[i] = "open"
    /\ \E c \in ClaimId : /\ InSlot(c, i) /\ Live(c) /\ current[c].actor = a
                          /\ ExtendClaim(c, lease)
    /\ UNCHANGED <<clock, items, handoffVars>>

\* claimWorkItem when no lease on the item is live.
ClaimWorkItem(a, i, lease) ==
    /\ items[i] = "open"
    /\ ~\E c \in ClaimId : InSlot(c, i) /\ Live(c)
    /\ Grant(a, i, lease)
    /\ UNCHANGED <<clock, items, handoffVars>>

\* renewWorkClaim: a lapsed lease is not extended but recorded as expired.
RenewWorkClaim(a, c, lease) ==
    /\ current[c] # NoRow /\ current[c].actor = a /\ current[c].status = "active"
    /\ IF Lapsed(c) THEN ExpireClaim(c) ELSE ExtendClaim(c, lease)
    /\ UNCHANGED <<clock, items, handoffVars>>

\* the row is updated without its event
ReleaseWorkClaim_bug(a, c) ==
    /\ current[c] # NoRow /\ current[c].actor = a /\ current[c].status = "active"
    /\ current' = [current EXCEPT ![c].status = "released"]
    /\ UNCHANGED <<clock, items, handoffVars, history, nextClaim, claimLog, claimExpiries>>

\* releaseWorkClaim does not look at the clock: a lapsed lease is released too.
ReleaseWorkClaim(a, c) ==
    /\ current[c] # NoRow /\ current[c].actor = a /\ current[c].status = "active"
    /\ WriteClaim(c, [current[c] EXCEPT !.status = "released"])
    /\ UNCHANGED <<clock, items, handoffVars, claimExpiries>>

\* the reaper takes only claims that lapsed before this second
ExpireStaleClaims_bug ==
    LET stale(c)   == Lapsed(c) /\ current[c].expires < clock
        expired(c) == [current[c] EXCEPT !.status = "expired"]
    IN  /\ \E c \in ClaimId : stale(c)
        /\ current' = [c \in ClaimId |-> IF stale(c) THEN expired(c) ELSE current[c]]
        /\ claimLog' = [c \in ClaimId |-> IF stale(c) THEN expired(c) ELSE claimLog[c]]
        /\ claimExpiries' = [c \in ClaimId |->
                               IF stale(c) THEN claimExpiries[c] + 1 ELSE claimExpiries[c]]
        /\ UNCHANGED <<clock, items, history, nextClaim, handoffVars>>

\* expireStaleClaims, the reaper that runMaintenance calls.
ExpireStaleClaims ==
    LET expired(c) == [current[c] EXCEPT !.status = "expired"]
    IN  /\ \E c \in ClaimId : Lapsed(c)
        /\ current' = [c \in ClaimId |-> IF Lapsed(c) THEN expired(c) ELSE current[c]]
        /\ claimLog' = [c \in ClaimId |-> IF Lapsed(c) THEN expired(c) ELSE claimLog[c]]
        /\ claimExpiries' = [c \in ClaimId |->
                               IF Lapsed(c) THEN claimExpiries[c] + 1 ELSE claimExpiries[c]]
        /\ UNCHANGED <<clock, items, history, nextClaim, handoffVars>>

-----------------------------------------------------------------------------
(* Handoffs *)

WriteHandoff(h, row) ==
    /\ handoffs' = [handoffs EXCEPT ![h] = row]
    /\ handoffLog' = [handoffLog EXCEPT ![h] = row]

\* The foreign key to work_items refuses a handoff of an item that is not there.
\* Nothing asks that the offering actor hold the item.
CreateHandoff(from, to, i, deadline) ==
    /\ items[i] \in {"open", "done"}
    /\ nextHandoff \in HandoffId
    /\ nextHandoff' = nextHandoff + 1
    /\ WriteHandoff(nextHandoff, [item |-> i, from |-> from, to |-> to,
                                  status |-> "pending", expires |-> deadline])
    /\ UNCHANGED <<clock, items, claimVars, handoffExpiries>>

Decide(h, status) ==
    /\ WriteHandoff(h, [handoffs[h] EXCEPT !.status = status])
    /\ UNCHANGED <<clock, items, nextHandoff, handoffExpiries>>

\* accept, reject and cancel of a handoff that has lapsed record its expiry and
\* return null.
ExpireOnDecision(a, h) ==
    /\ handoffs[h] # NoRow /\ a \in {handoffs[h].from, handoffs[h].to}
    /\ handoffs[h].status = "pending" /\ HandoffLapsed(h)
    /\ WriteHandoff(h, [handoffs[h] EXCEPT !.status = "expired"])
    /\ handoffExpiries' = [handoffExpiries EXCEPT ![h] = @ + 1]
    /\ UNCHANGED <<clock, items, claimVars, nextHandoff>>

\* acceptHandoff: release the offering actor's live claim, claim for the
\* accepting actor, mark the handoff.  One transaction: a claim that is refused
\* (item done, or another actor holds the lease) leaves everything as it was.
AcceptHandoff(a, h) ==
    /\ handoffs[h] # NoRow /\ handoffs[h].to = a
    /\ handoffs[h].status = "pending" /\ ~HandoffLapsed(h)
    /\ items[handoffs[h].item] = "open"
    /\ \A c \in ClaimId : InSlot(c, handoffs[h].item) /\ Live(c)
                             => current[c].actor = handoffs[h].from
    /\ Grant(a, handoffs[h].item, DefaultLease)
    /\ Decide(h, "accepted")

RejectHandoff(a, h) ==
    /\ handoffs[h] # NoRow /\ handoffs[h].to = a
    /\ handoffs[h].status = "pending" /\ ~HandoffLapsed(h)
    /\ Decide(h, "rejected")
    /\ UNCHANGED claimVars

\* a handoff that was already decided can still be canceled
CancelHandoff_bug(a, h) ==
    /\ handoffs[h] # NoRow /\ handoffs[h].from = a
    /\ Decide(h, "canceled")
    /\ UNCHANGED claimVars

CancelHandoff(a, h) ==
    /\ handoffs[h] # NoRow /\ handoffs[h].from = a
    /\ handoffs[h].status = "pending" /\ ~HandoffLapsed(h)
    /\ Decide(h, "canceled")
    /\ UNCHANGED claimVars

\* expireStaleHandoffs, the reaper that runMaintenance calls.
StaleHandoff(h) == handoffs[h] # NoRow /\ handoffs[h].status = "pending" /\ HandoffLapsed(h)

ExpireStaleHandoffs ==
    LET expired(h) == [handoffs[h] EXCEPT !.status = "expired"]
    IN  /\ \E h \in HandoffId : StaleHandoff(h)
        /\ handoffs' = [h \in HandoffId |-> IF StaleHandoff(h) THEN expired(h) ELSE handoffs[h]]
        /\ handoffLog' = [h \in HandoffId |-> IF StaleHandoff(h) THEN expired(h) ELSE handoffLog[h]]
        /\ handoffExpiries' = [h \in HandoffId |->
                                 IF StaleHandoff(h) THEN handoffExpiries[h] + 1
                                 ELSE handoffExpiries[h]]
        /\ UNCHANGED <<clock, items, claimVars, nextHandoff>>

-----------------------------------------------------------------------------
ItemStep ==
    \E i \in Item :
        \/ InsertWorkItem(i)
        \/ \E status \in {"open", "done"} : UpdateWorkItem(i, status)
        \/ DeleteWorkItem(i)

ClaimStep ==
    \E a \in Actor :
        \/ \E i \in Item, lease \in Lease : ReclaimOwn(a, i, lease) \/ ClaimWorkItem(a, i, lease)
        \/ \E c \in ClaimId, lease \in Lease : RenewWorkClaim(a, c, lease)
        \/ \E c \in ClaimId : ReleaseWorkClaim(a, c)

HandoffStep ==
    \E a \in Actor :
        \/ \E to \in Actor, i \in Item, d \in Deadline : CreateHandoff(a, to, i, d)
        \/ \E h \in HandoffId : \/ ExpireOnDecision(a, h)
                                \/ AcceptHandoff(a, h)
                                \/ RejectHandoff(a, h)
                                \/ CancelHandoff(a, h)

Reap == ExpireStaleClaims \/ ExpireStaleHandoffs

Next == Tick \/ ItemStep \/ ClaimStep \/ HandoffStep \/ Reap

Spec == Init /\ [][Next]_vars

(***************************************************************************)
(* The maintenance scheduler keeps calling the reapers; nothing else is     *)
(* fair: an actor may crash and never renew, release or decide.             *)
(***************************************************************************)
FairSpec == Spec /\ WF_vars(Tick) /\ WF_vars(ExpireStaleClaims) /\ WF_vars(ExpireStaleHandoffs)

-----------------------------------------------------------------------------
(* Properties *)

\* Ids are allocated in order, a row in work_claims_history is never active,
\* and every column keeps its type.
TypeOK ==
    /\ clock \in 0..MaxTime
    /\ items \in [Item -> {"absent", "open", "done", "deleted"}]
    /\ current \in [ClaimId -> ClaimRow \cup {NoRow}]
    /\ history \in [ClaimId -> [item : Item, actor : Actor, expires : Nat,
                                 status : {"released", "expired"}] \cup {NoRow}]
    /\ nextClaim \in 1..(MaxClaims + 1)
    /\ claimLog \in [ClaimId -> ClaimRow \cup {NoRow}]
    /\ claimExpiries \in [ClaimId -> Nat]
    /\ handoffs \in [HandoffId -> HandoffRow \cup {NoRow}]
    /\ nextHandoff \in 1..(MaxHandoffs + 1)
    /\ handoffLog \in [HandoffId -> HandoffRow \cup {NoRow}]
    /\ handoffExpiries \in [HandoffId -> Nat]

\* A work item has at most one row in work_claims_current, so the UNIQUE
\* constraint never turns down a claim that no live lease stands against.
OneRowPerItem ==
    \A c, d \in ClaimId :
        current[c] # NoRow /\ current[d] # NoRow /\ current[c].item = current[d].item => c = d

\* Every claim and handoff of an item that was not deleted can be found by id
\* (the claim in current or in history), and the last event about it carries
\* the row as it is: replaying the log gives the live rows.
ClaimReplay ==
    \A c \in ClaimId :
        c < nextClaim /\ items[claimLog[c].item] # "deleted" => ClaimById(c) = claimLog[c]

HandoffReplay ==
    \A h \in HandoffId :
        h < nextHandoff /\ items[handoffLog[h].item] # "deleted" => handoffs[h] = handoffLog[h]

ReplayAgrees == ClaimReplay /\ HandoffReplay

\* Whoever records a lapse first (the reaper, a renewal, a reclaim, a decision),
\* it is recorded by exactly one event, and nothing else is recorded as expired.
ClaimExpiryOnce ==
    \A c \in ClaimId : c < nextClaim =>
        claimExpiries[c] = IF claimLog[c].status = "expired" THEN 1 ELSE 0

HandoffExpiryOnce ==
    \A h \in HandoffId : h < nextHandoff =>
        handoffExpiries[h] = IF handoffLog[h].status = "expired" THEN 1 ELSE 0

ExpiryRecordedOnce == ClaimExpiryOnce /\ HandoffExpiryOnce

NoRevival ==
    \A c \in ClaimId :
        c < nextClaim /\ ClaimById(c) # NoRow /\ ClaimById(c)' # NoRow
            /\ EffectiveClaim(c) # "active" => EffectiveClaim(c)' # "active"

OneOutcome ==
    \A h \in HandoffId :
        handoffs[h] # NoRow /\ handoffs'[h] # NoRow /\ EffectiveHandoff(h) # "pending"
            => EffectiveHandoff(h)' = EffectiveHandoff(h)

\* What a read has shown as over is over.  A claim shown as released or expired
\* is never shown as active again: a late renewal does not revive a lapsed lease.
\* A handoff shown as accepted, rejected, canceled or expired has that outcome in
\* every later read.
OverStaysOver == [][NoRevival /\ OneOutcome]_vars

\* With the reapers running, no lapse stays unrecorded: the row of a lapsed
\* claim or handoff does not stay active or pending.
LapsesRecorded ==
    /\ \A c \in ClaimId : Lapsed(c) ~> ~Lapsed(c)
    /\ \A h \in HandoffId : StaleHandoff(h) ~> ~StaleHandoff(h)

-----------------------------------------------------------------------------
(* The lease contract, read off the tables. *)

holderOf == [i \in Item |->
    IF \E a \in Actor : Holds(a, i) THEN CHOOSE a \in Actor : Holds(a, i) ELSE NoRow]

untilOf == [i \in Item |->
    IF \E c \in ClaimId : InSlot(c, i) /\ Live(c)
    THEN current[CHOOSE c \in ClaimId : InSlot(c, i) /\ Live(c)].expires
    ELSE 0]

offerOf == [h \in HandoffId |->
    IF handoffs[h] # NoRow /\ handoffs[h].status = "pending" /\ ~HandoffLapsed(h)
    THEN [item |-> handoffs[h].item, from |-> handoffs[h].from, to |-> handoffs[h].to]
    ELSE NoRow]

Contract == INSTANCE LeaseContract WITH
    OfferId <- HandoffId, Nobody <- NoRow, NoOffer <- NoRow,
    now <- clock, holder <- holderOf, until <- untilOf, offer <- offerOf

\* The tables keep the lease contract.
KeepsContract == Contract!Spec
=============================================================================
