------------------------ MODULE CoordinationProofs ------------------------
(***************************************************************************)
(* Proofs about Coordination, for every set of actors and items, every      *)
(* lease and deadline, and every bound.                                     *)
(***************************************************************************)
EXTENDS Coordination, TLAPS

USE LeaseAssumption, DeadlineAssumption, BoundAssumption, NoRowAssumption

ClosedRow == [item : Item, actor : Actor, expires : Nat, status : {"released", "expired"}]

\* The two claim tables never hold the same id, nothing is kept under an id that
\* has not been allocated, and the log agrees with the table that has the row.
ClaimTables ==
    \A c \in ClaimId :
        /\ c < nextClaim <=> claimLog[c] # NoRow
        /\ c >= nextClaim => current[c] = NoRow /\ history[c] = NoRow /\ claimExpiries[c] = 0
        /\ current[c] # NoRow => /\ history[c] = NoRow
                                 /\ claimLog[c] = current[c]
                                 /\ items[current[c].item] \in {"open", "done"}
        /\ history[c] # NoRow => claimLog[c] = history[c]
        /\ claimLog[c] # NoRow /\ items[claimLog[c].item] # "deleted"
             => current[c] # NoRow \/ history[c] # NoRow

HandoffTable ==
    \A h \in HandoffId :
        /\ h < nextHandoff <=> handoffLog[h] # NoRow
        /\ h >= nextHandoff => handoffs[h] = NoRow /\ handoffExpiries[h] = 0
        /\ handoffs[h] # NoRow => /\ handoffLog[h] = handoffs[h]
                                  /\ items[handoffs[h].item] \in {"open", "done"}
        /\ handoffLog[h] # NoRow /\ items[handoffLog[h].item] # "deleted" => handoffs[h] # NoRow

ClaimInv   == OneRowPerItem /\ ClaimTables /\ ClaimExpiryOnce
HandoffInv == HandoffTable /\ HandoffExpiryOnce

\* The inductive invariant.
IInv == TypeOK /\ ClaimInv /\ HandoffInv

-----------------------------------------------------------------------------
(* Writing a row back with another status or deadline gives a row of the table. *)
LEMMA ClaimRowUpdate ==
    ASSUME NEW r \in ClaimRow
    PROVE  /\ \A e \in Nat : [r EXCEPT !.expires = @ + e] \in ClaimRow
           /\ [r EXCEPT !.status = "expired"] \in ClaimRow \cap ClosedRow
           /\ [r EXCEPT !.status = "released"] \in ClaimRow \cap ClosedRow
           /\ r.status # "active" => r \in ClosedRow
BY DEF ClaimRow, ClaimStatus, ClosedRow

LEMMA HandoffRowUpdate ==
    ASSUME NEW r \in HandoffRow
    PROVE  \A s \in HandoffStatus : [r EXCEPT !.status = s] \in HandoffRow
BY DEF HandoffRow, HandoffStatus

(* The type invariant is inductive. *)
LEMMA InitType == Init => TypeOK
BY DEF Init, TypeOK

LEMMA GrantType ==
    ASSUME TypeOK, NEW a \in Actor, NEW i \in Item, NEW lease \in Nat, Grant(a, i, lease)
    PROVE  /\ current' \in [ClaimId -> ClaimRow \cup {NoRow}]
           /\ history' \in [ClaimId -> ClosedRow \cup {NoRow}]
           /\ nextClaim' \in 1..(MaxClaims + 1)
           /\ claimLog' \in [ClaimId -> ClaimRow \cup {NoRow}]
           /\ claimExpiries' \in [ClaimId -> Nat]
<1>1. NewClaim(a, i, lease) \in ClaimRow
  BY DEF NewClaim, ClaimRow, ClaimStatus, TypeOK
<1>2. ASSUME NEW c \in ClaimId, InSlot(c, i)
      PROVE  Closed(c) \in ClaimRow /\ Closed(c) \in ClosedRow
  <2>1. current[c] \in ClaimRow
    BY <1>2 DEF InSlot, TypeOK
  <2>2. current[c].status = "active" => Live(c) \/ Lapsed(c)
    BY <1>2, <2>1 DEF InSlot, Live, Lapsed, TypeOK, ClaimRow
  <2> QED
    BY <2>1, <2>2, ClaimRowUpdate DEF Closed, ClaimStatus
<1>3. current' \in [ClaimId -> ClaimRow \cup {NoRow}]
  BY <1>1 DEF Grant, TypeOK
<1>4. history' \in [ClaimId -> ClosedRow \cup {NoRow}]
  BY <1>2 DEF Grant, TypeOK, ClosedRow
<1>5. claimLog' \in [ClaimId -> ClaimRow \cup {NoRow}]
  BY <1>1, <1>2 DEF Grant, TypeOK
<1>6. claimExpiries' \in [ClaimId -> Nat]
  BY DEF Grant, TypeOK
<1>7. nextClaim' \in 1..(MaxClaims + 1)
  BY DEF Grant, TypeOK, ClaimId
<1> QED
  BY <1>3, <1>4, <1>5, <1>6, <1>7

LEMMA NextType == TypeOK /\ [Next]_vars => TypeOK'
<1> SUFFICES ASSUME TypeOK, [Next]_vars PROVE TypeOK'
  OBVIOUS
<1> USE DEF TypeOK
<1>1. CASE Tick
  BY <1>1 DEF Tick, claimVars, handoffVars
<1>2. CASE ItemStep
  <2>1. ASSUME NEW i \in Item, InsertWorkItem(i) PROVE TypeOK'
    BY <2>1 DEF InsertWorkItem, claimVars, handoffVars
  <2>2. ASSUME NEW i \in Item, NEW s \in {"open", "done"}, UpdateWorkItem(i, s) PROVE TypeOK'
    BY <2>2 DEF UpdateWorkItem, claimVars, handoffVars
  <2>3. ASSUME NEW i \in Item, DeleteWorkItem(i) PROVE TypeOK'
    BY <2>3 DEF DeleteWorkItem
  <2> QED
    BY <1>2, <2>1, <2>2, <2>3 DEF ItemStep
<1>3. CASE ClaimStep
  <2>1. ASSUME NEW c \in ClaimId, NEW row \in ClaimRow, WriteClaim(c, row)
        PROVE  /\ current' \in [ClaimId -> ClaimRow \cup {NoRow}]
               /\ claimLog' \in [ClaimId -> ClaimRow \cup {NoRow}]
               /\ UNCHANGED <<history, nextClaim>>
    BY <2>1 DEF WriteClaim
  <2>2. ASSUME NEW c \in ClaimId, current[c] # NoRow, NEW lease \in Nat, ExtendClaim(c, lease),
               UNCHANGED <<clock, items, handoffVars>>
        PROVE  TypeOK'
    BY <2>1, <2>2, ClaimRowUpdate DEF ExtendClaim, handoffVars, ClaimStatus
  <2>3. ASSUME NEW c \in ClaimId, current[c] # NoRow, ExpireClaim(c),
               UNCHANGED <<clock, items, handoffVars>>
        PROVE  TypeOK'
    <3>1. [current[c] EXCEPT !.status = "expired"] \in ClaimRow
      BY <2>3, ClaimRowUpdate
    <3>2. claimExpiries' \in [ClaimId -> Nat]
      BY <2>3 DEF ExpireClaim
    <3> QED
      BY <2>1, <2>3, <3>1, <3>2 DEF ExpireClaim, handoffVars
  <2>4. ASSUME NEW a \in Actor, NEW i \in Item, NEW lease \in Lease, ReclaimOwn(a, i, lease)
        PROVE  TypeOK'
    BY <2>2, <2>4 DEF ReclaimOwn, InSlot
  <2>5. ASSUME NEW a \in Actor, NEW i \in Item, NEW lease \in Lease, ClaimWorkItem(a, i, lease)
        PROVE  TypeOK'
    BY <2>5, GrantType DEF ClaimWorkItem, ClosedRow, handoffVars
  <2>6. ASSUME NEW a \in Actor, NEW c \in ClaimId, NEW lease \in Lease, RenewWorkClaim(a, c, lease)
        PROVE  TypeOK'
    BY <2>2, <2>3, <2>6 DEF RenewWorkClaim
  <2>7. ASSUME NEW a \in Actor, NEW c \in ClaimId, ReleaseWorkClaim(a, c)
        PROVE  TypeOK'
    BY <2>1, <2>7, ClaimRowUpdate DEF ReleaseWorkClaim, handoffVars, ClaimStatus
  <2> QED
    BY <1>3, <2>4, <2>5, <2>6, <2>7 DEF ClaimStep
<1>4. CASE HandoffStep
  <2>1. ASSUME NEW h \in HandoffId, NEW row \in HandoffRow, WriteHandoff(h, row)
        PROVE  /\ handoffs' \in [HandoffId -> HandoffRow \cup {NoRow}]
               /\ handoffLog' \in [HandoffId -> HandoffRow \cup {NoRow}]
    BY <2>1 DEF WriteHandoff
  <2>2. ASSUME NEW h \in HandoffId, handoffs[h] # NoRow, NEW s \in HandoffStatus, Decide(h, s)
        PROVE  /\ clock' \in 0..MaxTime
               /\ items' \in [Item -> {"absent", "open", "done", "deleted"}]
               /\ handoffs' \in [HandoffId -> HandoffRow \cup {NoRow}]
               /\ nextHandoff' \in 1..(MaxHandoffs + 1)
               /\ handoffLog' \in [HandoffId -> HandoffRow \cup {NoRow}]
               /\ handoffExpiries' \in [HandoffId -> Nat]
    BY <2>1, <2>2, HandoffRowUpdate DEF Decide
  <2>3. ASSUME NEW a \in Actor, NEW to \in Actor, NEW i \in Item, NEW d \in Deadline,
               CreateHandoff(a, to, i, d)
        PROVE  TypeOK'
    <3>1. [item |-> i, from |-> a, to |-> to, status |-> "pending", expires |-> d] \in HandoffRow
      BY DEF HandoffRow, HandoffStatus
    <3> QED
      BY <2>1, <2>3, <3>1 DEF CreateHandoff, claimVars, HandoffId
  <2>4. ASSUME NEW a \in Actor, NEW h \in HandoffId, ExpireOnDecision(a, h)
        PROVE  TypeOK'
    <3>1. [handoffs[h] EXCEPT !.status = "expired"] \in HandoffRow
      BY <2>4, HandoffRowUpdate DEF ExpireOnDecision, HandoffStatus
    <3>2. handoffExpiries' \in [HandoffId -> Nat]
      BY <2>4 DEF ExpireOnDecision
    <3> QED
      BY <2>1, <2>4, <3>1, <3>2 DEF ExpireOnDecision, claimVars
  <2>5. ASSUME NEW a \in Actor, NEW h \in HandoffId, AcceptHandoff(a, h)
        PROVE  TypeOK'
    <3>1. handoffs[h].item \in Item
      BY <2>5 DEF AcceptHandoff, HandoffRow
    <3>2. Grant(a, handoffs[h].item, DefaultLease) /\ Decide(h, "accepted")
      BY <2>5 DEF AcceptHandoff
    <3>3. "accepted" \in HandoffStatus /\ handoffs[h] # NoRow
      BY <2>5 DEF AcceptHandoff, HandoffStatus
    <3>4. DefaultLease \in Nat
      OBVIOUS
    <3> HIDE DEF TypeOK
    <3>5. /\ current' \in [ClaimId -> ClaimRow \cup {NoRow}]
          /\ history' \in [ClaimId -> ClosedRow \cup {NoRow}]
          /\ nextClaim' \in 1..(MaxClaims + 1)
          /\ claimLog' \in [ClaimId -> ClaimRow \cup {NoRow}]
          /\ claimExpiries' \in [ClaimId -> Nat]
      BY <3>1, <3>2, <3>4, GrantType
    <3> QED
      BY <2>2, <3>2, <3>3, <3>5 DEF ClosedRow, TypeOK
  <2>6. ASSUME NEW a \in Actor, NEW h \in HandoffId, RejectHandoff(a, h)
        PROVE  TypeOK'
    BY <2>2, <2>6 DEF RejectHandoff, HandoffStatus, claimVars
  <2>7. ASSUME NEW a \in Actor, NEW h \in HandoffId, CancelHandoff(a, h)
        PROVE  TypeOK'
    BY <2>2, <2>7 DEF CancelHandoff, HandoffStatus, claimVars
  <2> QED
    BY <1>4, <2>3, <2>4, <2>5, <2>6, <2>7 DEF HandoffStep
<1>5. CASE Reap
  <2>1. CASE ExpireStaleClaims
    <3>1. \A c \in ClaimId : Lapsed(c) => [current[c] EXCEPT !.status = "expired"] \in ClaimRow
      BY ClaimRowUpdate DEF Lapsed
    <3> QED
      BY <2>1, <3>1 DEF ExpireStaleClaims, handoffVars
  <2>2. CASE ExpireStaleHandoffs
    <3>1. \A h \in HandoffId :
             StaleHandoff(h) => [handoffs[h] EXCEPT !.status = "expired"] \in HandoffRow
      BY HandoffRowUpdate DEF StaleHandoff, HandoffStatus
    <3> QED
      BY <2>2, <3>1 DEF ExpireStaleHandoffs, claimVars
  <2> QED
    BY <1>5, <2>1, <2>2 DEF Reap
<1>6. CASE UNCHANGED vars
  BY <1>6 DEF vars, claimVars, handoffVars
<1> QED
  BY <1>1, <1>2, <1>3, <1>4, <1>5, <1>6 DEF Next

\* Type correctness: ids are allocated in order, no row in work_claims_history
\* is active, and every column keeps its type.
THEOREM TypeCorrect == Spec => []TypeOK
<1>1. Init => TypeOK
  BY InitType
<1>2. TypeOK /\ [Next]_vars => TypeOK'
  BY NextType
<1> QED
  BY <1>1, <1>2, PTL DEF Spec

-----------------------------------------------------------------------------
(* The claim tables. *)

LEMMA ClaimsUntouched ==
    ASSUME TypeOK, ClaimInv, UNCHANGED claimVars,
           \A i \in Item : \/ items'[i] = items[i]
                           \/ items[i] = "absent" /\ items'[i] = "open"
                           \/ {items[i], items'[i]} \subseteq {"open", "done"}
    PROVE  ClaimInv'
<1> USE DEF ClaimInv, claimVars
<1>1. OneRowPerItem'
  BY DEF OneRowPerItem
<1>2. ClaimExpiryOnce'
  BY DEF ClaimExpiryOnce
<1>3. ASSUME NEW r \in ClaimRow
      PROVE  /\ items[r.item] = "deleted" => items'[r.item] = "deleted"
             /\ items[r.item] \in {"open", "done"} => items'[r.item] \in {"open", "done"}
  BY <1>3 DEF ClaimRow
<1>4. current' = current /\ history' = history /\ claimLog' = claimLog /\ nextClaim' = nextClaim
      /\ claimExpiries' = claimExpiries
  OBVIOUS
<1>5. ASSUME NEW c \in ClaimId
      PROVE  /\ current[c] # NoRow => items'[current[c].item] \in {"open", "done"}
             /\ claimLog[c] # NoRow /\ items'[claimLog[c].item] # "deleted"
                  => current[c] # NoRow \/ history[c] # NoRow
  <2>1. current[c] # NoRow => current[c] \in ClaimRow
    BY DEF TypeOK
  <2>2. claimLog[c] # NoRow => claimLog[c] \in ClaimRow
    BY DEF TypeOK
  <2>3. current[c] # NoRow => items[current[c].item] \in {"open", "done"}
    BY DEF ClaimTables
  <2>4. claimLog[c] # NoRow /\ items[claimLog[c].item] # "deleted"
          => current[c] # NoRow \/ history[c] # NoRow
    BY DEF ClaimTables
  <2> QED
    BY <1>3, <2>1, <2>2, <2>3, <2>4
<1>6. ClaimTables'
  BY <1>4, <1>5 DEF ClaimTables
<1> QED
  BY <1>1, <1>2, <1>6

\* A row of work_claims_current is updated and logged, its expiry counted once.
LEMMA WriteKeepsClaims ==
    ASSUME TypeOK, ClaimInv, NEW c \in ClaimId, NEW row \in ClaimRow,
           current[c] # NoRow, current[c].status = "active", row.item = current[c].item,
           WriteClaim(c, row), UNCHANGED items,
           claimExpiries' = IF row.status = "expired"
                            THEN [claimExpiries EXCEPT ![c] = @ + 1] ELSE claimExpiries
    PROVE  ClaimInv'
<1> USE DEF ClaimInv
<1>1. /\ current' = [current EXCEPT ![c] = row] /\ claimLog' = [claimLog EXCEPT ![c] = row]
      /\ history' = history /\ nextClaim' = nextClaim
  BY DEF WriteClaim
<1>2. c < nextClaim /\ claimLog[c] = current[c] /\ claimExpiries[c] = 0
  BY DEF ClaimTables, ClaimExpiryOnce, TypeOK, ClaimId
<1>3. OneRowPerItem'
  BY <1>1 DEF OneRowPerItem, TypeOK
<1>4. ClaimTables'
  BY <1>1, <1>2 DEF ClaimTables, TypeOK
<1>5. ClaimExpiryOnce'
  BY <1>1, <1>2 DEF ClaimExpiryOnce, TypeOK
<1> QED
  BY <1>3, <1>4, <1>5

LEMMA ExtendKeepsClaims ==
    ASSUME TypeOK, ClaimInv, NEW c \in ClaimId, NEW lease \in Nat,
           current[c] # NoRow, current[c].status = "active",
           ExtendClaim(c, lease), UNCHANGED items
    PROVE  ClaimInv'
<1> DEFINE row == [current[c] EXCEPT !.expires = @ + lease]
<1>1. current[c] \in ClaimRow
  BY DEF TypeOK
<1>2. row \in ClaimRow /\ row.item = current[c].item /\ row.status = "active"
  BY <1>1, ClaimRowUpdate DEF ClaimRow
<1>3. WriteClaim(c, row) /\ claimExpiries' = claimExpiries
  BY DEF ExtendClaim
<1> HIDE DEF row
<1> QED
  BY <1>2, <1>3, WriteKeepsClaims

LEMMA ExpireKeepsClaims ==
    ASSUME TypeOK, ClaimInv, NEW c \in ClaimId,
           current[c] # NoRow, current[c].status = "active",
           ExpireClaim(c), UNCHANGED items
    PROVE  ClaimInv'
<1> DEFINE row == [current[c] EXCEPT !.status = "expired"]
<1>1. current[c] \in ClaimRow
  BY DEF TypeOK
<1>2. row \in ClaimRow /\ row.item = current[c].item /\ row.status = "expired"
  BY <1>1, ClaimRowUpdate DEF ClaimRow
<1>3. WriteClaim(c, row) /\ claimExpiries' = [claimExpiries EXCEPT ![c] = @ + 1]
  BY DEF ExpireClaim
<1> HIDE DEF row
<1> QED
  BY <1>2, <1>3, WriteKeepsClaims

\* What Grant does to the row it displaces.
LEMMA ClosedFacts ==
    ASSUME TypeOK, NEW c \in ClaimId, current[c] # NoRow
    PROVE  /\ Closed(c) \in ClaimRow /\ Closed(c).item = current[c].item
           /\ Lapsed(c) => current[c].status = "active" /\ Closed(c).status = "expired"
           /\ ~Lapsed(c) /\ ~Dead(c) => current[c].status = "active" /\ Closed(c).status = "released"
           /\ Dead(c) => Closed(c) = current[c] /\ ~Lapsed(c)
<1>1. current[c] \in ClaimRow
  BY DEF TypeOK
<1>2. CASE Live(c)
  <2>1. Closed(c) = [current[c] EXCEPT !.status = "released"]
    BY <1>2 DEF Closed
  <2>2. Closed(c) \in ClaimRow
    BY <1>1, <2>1, ClaimRowUpdate
  <2>3. Closed(c).item = current[c].item /\ Closed(c).status = "released"
    BY <1>1, <2>1 DEF ClaimRow
  <2> QED
    BY <1>1, <1>2, <2>2, <2>3 DEF Live, Lapsed, Dead, ClaimRow, TypeOK
<1>3. CASE Lapsed(c)
  <2>1. Closed(c) = [current[c] EXCEPT !.status = "expired"]
    BY <1>1, <1>3 DEF Closed, Lapsed, Live, ClaimRow, TypeOK
  <2>2. Closed(c) \in ClaimRow
    BY <1>1, <2>1, ClaimRowUpdate
  <2>3. Closed(c).item = current[c].item /\ Closed(c).status = "expired"
    BY <1>1, <2>1 DEF ClaimRow
  <2> QED
    BY <1>1, <1>3, <2>2, <2>3 DEF Lapsed, Dead
<1>4. CASE Dead(c)
  BY <1>1, <1>4 DEF Closed, Live, Lapsed, Dead
<1> QED
  BY <1>1, <1>2, <1>3, <1>4 DEF Live, Lapsed, Dead, ClaimRow, TypeOK

LEMMA GrantKeepsClaims ==
    ASSUME TypeOK, ClaimInv, NEW a \in Actor, NEW i \in Item, NEW lease \in Nat,
           items[i] = "open", Grant(a, i, lease), UNCHANGED items
    PROVE  ClaimInv'
<1> USE DEF ClaimInv
<1> DEFINE n == nextClaim
           fresh == NewClaim(a, i, lease)
<1>1. fresh \in ClaimRow /\ fresh.item = i /\ fresh.status = "active" /\ fresh # NoRow
  BY DEF NewClaim, ClaimRow, ClaimStatus, TypeOK
<1>2. /\ n \in ClaimId /\ nextClaim' = n + 1
      /\ current[n] = NoRow /\ history[n] = NoRow /\ claimExpiries[n] = 0
      /\ ~InSlot(n, i)
  BY DEF Grant, ClaimTables, ClaimId, InSlot
<1>3. current'[n] = fresh /\ history'[n] = NoRow /\ claimLog'[n] = fresh /\ claimExpiries'[n] = 0
  BY <1>2 DEF Grant, InSlot, Lapsed
<1>4. ASSUME NEW c \in ClaimId, InSlot(c, i)
      PROVE  /\ c # n /\ current'[c] = NoRow /\ history'[c] = Closed(c)
             /\ claimLog'[c] = Closed(c) /\ c < n /\ Closed(c) # NoRow
             /\ claimExpiries'[c] = IF Closed(c).status = "expired" THEN 1 ELSE 0
  <2>1. c # n /\ c < n /\ claimLog[c] = current[c] /\ current[c] # NoRow
    BY <1>2, <1>4 DEF InSlot, ClaimTables, ClaimId
  <2>2. /\ current'[c] = NoRow /\ history'[c] = Closed(c)
        /\ claimLog'[c] = IF Dead(c) THEN claimLog[c] ELSE Closed(c)
        /\ claimExpiries'[c] = IF Lapsed(c) THEN claimExpiries[c] + 1 ELSE claimExpiries[c]
    BY <1>4, <2>1 DEF Grant
  <2>3. claimExpiries[c] = IF current[c].status = "expired" THEN 1 ELSE 0
    BY <2>1 DEF ClaimExpiryOnce
  <2> QED
    BY <2>1, <2>2, <2>3, ClosedFacts
<1>5. ASSUME NEW c \in ClaimId, ~InSlot(c, i), c # n
      PROVE  /\ current'[c] = current[c] /\ history'[c] = history[c]
             /\ claimLog'[c] = claimLog[c] /\ claimExpiries'[c] = claimExpiries[c]
             /\ c < n + 1 <=> c < n
  BY <1>2, <1>5 DEF Grant, TypeOK, ClaimId
<1>6. OneRowPerItem'
  BY <1>1, <1>3, <1>4, <1>5 DEF OneRowPerItem, InSlot
<1>7. ASSUME NEW c \in ClaimId
      PROVE  /\ c < nextClaim' <=> claimLog'[c] # NoRow
             /\ c >= nextClaim' => current'[c] = NoRow /\ history'[c] = NoRow /\ claimExpiries'[c] = 0
             /\ current'[c] # NoRow => /\ history'[c] = NoRow
                                       /\ claimLog'[c] = current'[c]
                                       /\ items'[current'[c].item] \in {"open", "done"}
             /\ history'[c] # NoRow => claimLog'[c] = history'[c]
             /\ claimLog'[c] # NoRow /\ items'[claimLog'[c].item] # "deleted"
                  => current'[c] # NoRow \/ history'[c] # NoRow
             /\ c < nextClaim' => claimExpiries'[c] = IF claimLog'[c].status = "expired" THEN 1 ELSE 0
  <2>1. CASE c = n
    BY <1>1, <1>2, <1>3, <2>1 DEF ClaimId
  <2>2. CASE InSlot(c, i)
    BY <1>2, <1>4, <2>2 DEF ClaimId
  <2>3. CASE ~InSlot(c, i) /\ c # n
    BY <1>2, <1>5, <2>3 DEF ClaimTables, ClaimExpiryOnce, ClaimId
  <2> QED
    BY <2>1, <2>2, <2>3
<1> QED
  BY <1>6, <1>7 DEF ClaimTables, ClaimExpiryOnce

LEMMA ReapKeepsClaims ==
    ASSUME TypeOK, ClaimInv, ExpireStaleClaims
    PROVE  ClaimInv'
<1> USE DEF ClaimInv
<1> DEFINE expired(c) == [current[c] EXCEPT !.status = "expired"]
<1>1. items' = items /\ history' = history /\ nextClaim' = nextClaim
  BY DEF ExpireStaleClaims
<1>2. ASSUME NEW c \in ClaimId, Lapsed(c)
      PROVE  /\ current'[c] = expired(c) /\ claimLog'[c] = expired(c)
             /\ expired(c) # NoRow /\ expired(c).item = current[c].item
             /\ expired(c).status = "expired" /\ claimExpiries'[c] = 1
             /\ current[c] # NoRow
  <2>1. current[c] \in ClaimRow /\ current[c].status = "active"
    BY <1>2 DEF Lapsed, TypeOK
  <2>2. claimExpiries[c] = 0
    BY <1>2, <2>1 DEF ClaimTables, ClaimExpiryOnce, TypeOK, ClaimId, Lapsed
  <2>3. expired(c) \in ClaimRow /\ expired(c).item = current[c].item /\ expired(c).status = "expired"
    BY <2>1, ClaimRowUpdate DEF ClaimRow
  <2> QED
    BY <1>2, <2>2, <2>3 DEF ExpireStaleClaims, Lapsed
<1>3. ASSUME NEW c \in ClaimId, ~Lapsed(c)
      PROVE  /\ current'[c] = current[c] /\ claimLog'[c] = claimLog[c]
             /\ claimExpiries'[c] = claimExpiries[c]
  BY <1>3 DEF ExpireStaleClaims
<1> HIDE DEF expired
<1>4. OneRowPerItem'
  BY <1>2, <1>3 DEF OneRowPerItem
<1>5. ClaimTables'
  BY <1>1, <1>2, <1>3 DEF ClaimTables, TypeOK, ClaimId
<1>6. ClaimExpiryOnce'
  BY <1>1, <1>2, <1>3 DEF ClaimExpiryOnce
<1> QED
  BY <1>4, <1>5, <1>6

LEMMA DeleteKeepsClaims ==
    ASSUME TypeOK, ClaimInv, NEW i \in Item, DeleteWorkItem(i)
    PROVE  ClaimInv'
<1> USE DEF ClaimInv
<1>1. /\ history' = history /\ nextClaim' = nextClaim /\ claimLog' = claimLog
      /\ claimExpiries' = claimExpiries
      /\ items' = [items EXCEPT ![i] = "deleted"]
      /\ current' = [c \in ClaimId |-> IF InSlot(c, i) THEN NoRow ELSE current[c]]
  BY DEF DeleteWorkItem
<1>2. OneRowPerItem'
  BY <1>1 DEF OneRowPerItem
<1>3. ClaimExpiryOnce'
  BY <1>1 DEF ClaimExpiryOnce
<1>4. ASSUME NEW c \in ClaimId
      PROVE  /\ current'[c] # NoRow => /\ current'[c] = current[c]
                                       /\ items'[current[c].item] = items[current[c].item]
             /\ claimLog[c] # NoRow /\ items'[claimLog[c].item] # "deleted"
                  => current'[c] = current[c] /\ items[claimLog[c].item] # "deleted"
  <2>1. current[c] # NoRow => current[c].item \in Item /\ claimLog[c] = current[c]
    BY DEF TypeOK, ClaimRow, ClaimTables
  <2>2. claimLog[c] # NoRow => claimLog[c].item \in Item
    BY DEF TypeOK, ClaimRow
  <2> QED
    BY <1>1, <2>1, <2>2 DEF InSlot, TypeOK
<1>5. ClaimTables'
  BY <1>1, <1>4 DEF ClaimTables
<1> QED
  BY <1>2, <1>3, <1>5

LEMMA ClaimStepKeepsClaims ==
    ASSUME TypeOK, ClaimInv, ClaimStep
    PROVE  ClaimInv'
<1>1. ASSUME NEW a \in Actor, NEW i \in Item, NEW lease \in Lease, ReclaimOwn(a, i, lease)
      PROVE  ClaimInv'
  BY <1>1, ExtendKeepsClaims DEF ReclaimOwn, InSlot, Live
<1>2. ASSUME NEW a \in Actor, NEW i \in Item, NEW lease \in Lease, ClaimWorkItem(a, i, lease)
      PROVE  ClaimInv'
  BY <1>2, GrantKeepsClaims DEF ClaimWorkItem
<1>3. ASSUME NEW a \in Actor, NEW c \in ClaimId, NEW lease \in Lease, RenewWorkClaim(a, c, lease)
      PROVE  ClaimInv'
  BY <1>3, ExtendKeepsClaims, ExpireKeepsClaims DEF RenewWorkClaim
<1>4. ASSUME NEW a \in Actor, NEW c \in ClaimId, ReleaseWorkClaim(a, c)
      PROVE  ClaimInv'
  <2> DEFINE row == [current[c] EXCEPT !.status = "released"]
  <2>1. current[c] # NoRow /\ current[c].status = "active" /\ current[c] \in ClaimRow
    BY <1>4 DEF ReleaseWorkClaim, TypeOK
  <2>2. row \in ClaimRow /\ row.item = current[c].item /\ row.status = "released"
    BY <2>1, ClaimRowUpdate DEF ClaimRow
  <2>3. WriteClaim(c, row) /\ UNCHANGED <<items, claimExpiries>>
    BY <1>4 DEF ReleaseWorkClaim
  <2> HIDE DEF row
  <2> QED
    BY <2>1, <2>2, <2>3, WriteKeepsClaims
<1> QED
  BY <1>1, <1>2, <1>3, <1>4 DEF ClaimStep

LEMMA NextKeepsClaims == TypeOK /\ ClaimInv /\ [Next]_vars => ClaimInv'
<1> SUFFICES ASSUME TypeOK, ClaimInv, [Next]_vars PROVE ClaimInv'
  OBVIOUS
<1>1. CASE UNCHANGED <<items, claimVars>>
  BY <1>1, ClaimsUntouched
<1>2. CASE ItemStep
  <2>1. ASSUME NEW i \in Item, InsertWorkItem(i) PROVE ClaimInv'
    BY <2>1, ClaimsUntouched DEF InsertWorkItem, TypeOK
  <2>2. ASSUME NEW i \in Item, NEW s \in {"open", "done"}, UpdateWorkItem(i, s) PROVE ClaimInv'
    BY <2>2, ClaimsUntouched DEF UpdateWorkItem, TypeOK
  <2> QED
    BY <1>2, <2>1, <2>2, DeleteKeepsClaims DEF ItemStep
<1>3. CASE HandoffStep
  <2>1. ASSUME NEW a \in Actor, NEW h \in HandoffId, AcceptHandoff(a, h) PROVE ClaimInv'
    <3>1. /\ handoffs[h].item \in Item /\ items[handoffs[h].item] = "open"
          /\ Grant(a, handoffs[h].item, DefaultLease) /\ UNCHANGED items
      BY <2>1 DEF AcceptHandoff, Decide, TypeOK, HandoffRow
    <3>2. DefaultLease \in Nat
      OBVIOUS
    <3> QED
      BY <3>1, <3>2, GrantKeepsClaims
  <2> QED
    BY <1>1, <1>3, <2>1
       DEF HandoffStep, CreateHandoff, ExpireOnDecision, RejectHandoff, CancelHandoff, Decide
<1> QED
  BY <1>1, <1>2, <1>3, ClaimStepKeepsClaims, ReapKeepsClaims
     DEF Next, Tick, Reap, ExpireStaleHandoffs, vars

-----------------------------------------------------------------------------
(* The handoff table. *)

LEMMA HandoffsUntouched ==
    ASSUME TypeOK, HandoffInv, UNCHANGED handoffVars,
           \A i \in Item : \/ items'[i] = items[i]
                           \/ items[i] = "absent" /\ items'[i] = "open"
                           \/ {items[i], items'[i]} \subseteq {"open", "done"}
    PROVE  HandoffInv'
<1> USE DEF HandoffInv, handoffVars
<1>1. /\ handoffs' = handoffs /\ handoffLog' = handoffLog /\ nextHandoff' = nextHandoff
      /\ handoffExpiries' = handoffExpiries
  OBVIOUS
<1>2. HandoffExpiryOnce'
  BY <1>1 DEF HandoffExpiryOnce
<1>3. ASSUME NEW r \in HandoffRow
      PROVE  /\ items[r.item] = "deleted" => items'[r.item] = "deleted"
             /\ items[r.item] \in {"open", "done"} => items'[r.item] \in {"open", "done"}
  BY <1>3 DEF HandoffRow
<1>4. ASSUME NEW h \in HandoffId
      PROVE  /\ handoffs[h] # NoRow => items'[handoffs[h].item] \in {"open", "done"}
             /\ handoffLog[h] # NoRow /\ items'[handoffLog[h].item] # "deleted"
                  => handoffs[h] # NoRow
  <2>1. handoffs[h] # NoRow => handoffs[h] \in HandoffRow
    BY DEF TypeOK
  <2>2. handoffLog[h] # NoRow => handoffLog[h] \in HandoffRow
    BY DEF TypeOK
  <2>3. handoffs[h] # NoRow => items[handoffs[h].item] \in {"open", "done"}
    BY DEF HandoffTable
  <2>4. handoffLog[h] # NoRow /\ items[handoffLog[h].item] # "deleted" => handoffs[h] # NoRow
    BY DEF HandoffTable
  <2> QED
    BY <1>3, <2>1, <2>2, <2>3, <2>4
<1>5. HandoffTable'
  BY <1>1, <1>4 DEF HandoffTable
<1> QED
  BY <1>2, <1>5

\* A pending handoff gets its outcome, with the event; an expiry is counted once.
LEMMA WriteKeepsHandoffs ==
    ASSUME TypeOK, HandoffInv, NEW h \in HandoffId, NEW s \in HandoffStatus,
           handoffs[h] # NoRow, handoffs[h].status = "pending",
           WriteHandoff(h, [handoffs[h] EXCEPT !.status = s]),
           UNCHANGED <<items, nextHandoff>>,
           handoffExpiries' = IF s = "expired"
                              THEN [handoffExpiries EXCEPT ![h] = @ + 1] ELSE handoffExpiries
    PROVE  HandoffInv'
<1> USE DEF HandoffInv
<1> DEFINE row == [handoffs[h] EXCEPT !.status = s]
<1>1. row \in HandoffRow /\ row.item = handoffs[h].item /\ row.status = s
  BY HandoffRowUpdate DEF HandoffRow, TypeOK
<1>2. h < nextHandoff /\ handoffLog[h] = handoffs[h] /\ handoffExpiries[h] = 0
  BY DEF HandoffTable, HandoffExpiryOnce, TypeOK, HandoffId
<1>3. handoffs' = [handoffs EXCEPT ![h] = row] /\ handoffLog' = [handoffLog EXCEPT ![h] = row]
  BY DEF WriteHandoff
<1> HIDE DEF row
<1>4. HandoffTable'
  BY <1>1, <1>2, <1>3 DEF HandoffTable, TypeOK
<1>5. HandoffExpiryOnce'
  BY <1>1, <1>2, <1>3 DEF HandoffExpiryOnce, TypeOK
<1> QED
  BY <1>4, <1>5

LEMMA CreateKeepsHandoffs ==
    ASSUME TypeOK, HandoffInv, NEW a \in Actor, NEW to \in Actor, NEW i \in Item,
           NEW d \in Deadline, CreateHandoff(a, to, i, d)
    PROVE  HandoffInv'
<1> USE DEF HandoffInv
<1> DEFINE n == nextHandoff
           row == [item |-> i, from |-> a, to |-> to, status |-> "pending", expires |-> d]
<1>1. row \in HandoffRow /\ row.item = i /\ row.status = "pending"
  BY DEF HandoffRow, HandoffStatus
<1>2. /\ n \in HandoffId /\ nextHandoff' = n + 1 /\ UNCHANGED <<items, handoffExpiries>>
      /\ items[i] \in {"open", "done"}
      /\ handoffs' = [handoffs EXCEPT ![n] = row] /\ handoffLog' = [handoffLog EXCEPT ![n] = row]
  BY DEF CreateHandoff, WriteHandoff
<1> HIDE DEF row
<1>3. HandoffTable'
  <2>1. row # NoRow
    BY <1>1
  <2>2. handoffs'[n] = row /\ handoffLog'[n] = row /\ n < nextHandoff'
    BY <1>2 DEF TypeOK, HandoffId
  <2>3. ASSUME NEW h \in HandoffId, h # n
        PROVE  /\ handoffs'[h] = handoffs[h] /\ handoffLog'[h] = handoffLog[h]
               /\ h < nextHandoff' <=> h < n
               /\ h >= nextHandoff' => h >= n
    BY <1>2, <2>3 DEF TypeOK, HandoffId
  <2>4. ~(n >= nextHandoff')
    BY <1>2 DEF HandoffId
  <2> QED
    BY <1>1, <1>2, <2>1, <2>2, <2>3, <2>4 DEF HandoffTable
<1>4. HandoffExpiryOnce'
  BY <1>1, <1>2 DEF HandoffExpiryOnce, HandoffTable, TypeOK, HandoffId
<1> QED
  BY <1>3, <1>4

LEMMA ReapKeepsHandoffs ==
    ASSUME TypeOK, HandoffInv, ExpireStaleHandoffs
    PROVE  HandoffInv'
<1> USE DEF HandoffInv
<1> DEFINE expired(h) == [handoffs[h] EXCEPT !.status = "expired"]
<1>1. items' = items /\ nextHandoff' = nextHandoff
  BY DEF ExpireStaleHandoffs
<1>2. ASSUME NEW h \in HandoffId, StaleHandoff(h)
      PROVE  /\ handoffs'[h] = expired(h) /\ handoffLog'[h] = expired(h)
             /\ expired(h) # NoRow /\ expired(h).item = handoffs[h].item
             /\ expired(h).status = "expired" /\ handoffExpiries'[h] = 1
             /\ handoffs[h] # NoRow
  <2>1. handoffs[h] \in HandoffRow /\ handoffs[h].status = "pending"
    BY <1>2 DEF StaleHandoff, TypeOK
  <2>2. handoffExpiries[h] = 0
    BY <1>2, <2>1 DEF HandoffTable, HandoffExpiryOnce, TypeOK, HandoffId, StaleHandoff
  <2>3. expired(h) \in HandoffRow /\ expired(h).item = handoffs[h].item /\ expired(h).status = "expired"
    BY <2>1, HandoffRowUpdate DEF HandoffRow, HandoffStatus
  <2> QED
    BY <1>2, <2>2, <2>3 DEF ExpireStaleHandoffs, StaleHandoff
<1>3. ASSUME NEW h \in HandoffId, ~StaleHandoff(h)
      PROVE  /\ handoffs'[h] = handoffs[h] /\ handoffLog'[h] = handoffLog[h]
             /\ handoffExpiries'[h] = handoffExpiries[h]
  BY <1>3 DEF ExpireStaleHandoffs
<1> HIDE DEF expired
<1>4. HandoffTable'
  <2> SUFFICES ASSUME NEW h \in HandoffId
               PROVE  /\ h < nextHandoff <=> handoffLog'[h] # NoRow
                      /\ h >= nextHandoff => handoffs'[h] = NoRow /\ handoffExpiries'[h] = 0
                      /\ handoffs'[h] # NoRow
                           => /\ handoffLog'[h] = handoffs'[h]
                              /\ items[handoffs'[h].item] \in {"open", "done"}
                      /\ handoffLog'[h] # NoRow /\ items[handoffLog'[h].item] # "deleted"
                           => handoffs'[h] # NoRow
    BY <1>1 DEF HandoffTable
  <2>1. CASE StaleHandoff(h)
    <3>1. handoffs[h] # NoRow /\ h < nextHandoff /\ ~(h >= nextHandoff)
      BY <2>1 DEF StaleHandoff, HandoffTable, TypeOK, HandoffId
    <3> QED
      BY <1>2, <2>1, <3>1 DEF HandoffTable
  <2>2. CASE ~StaleHandoff(h)
    BY <1>3, <2>2 DEF HandoffTable
  <2> QED
    BY <2>1, <2>2
<1>5. HandoffExpiryOnce'
  BY <1>1, <1>2, <1>3 DEF HandoffExpiryOnce
<1> QED
  BY <1>4, <1>5

LEMMA DeleteKeepsHandoffs ==
    ASSUME TypeOK, HandoffInv, NEW i \in Item, DeleteWorkItem(i)
    PROVE  HandoffInv'
<1> USE DEF HandoffInv
<1>1. /\ nextHandoff' = nextHandoff /\ handoffLog' = handoffLog
      /\ handoffExpiries' = handoffExpiries
      /\ items' = [items EXCEPT ![i] = "deleted"]
      /\ handoffs' = [h \in HandoffId |->
            IF handoffs[h] # NoRow /\ handoffs[h].item = i THEN NoRow ELSE handoffs[h]]
  BY DEF DeleteWorkItem
<1>2. HandoffExpiryOnce'
  BY <1>1 DEF HandoffExpiryOnce
<1>3. ASSUME NEW h \in HandoffId
      PROVE  /\ handoffs'[h] # NoRow => /\ handoffs'[h] = handoffs[h]
                                        /\ items'[handoffs[h].item] = items[handoffs[h].item]
             /\ handoffLog[h] # NoRow /\ items'[handoffLog[h].item] # "deleted"
                  => handoffs'[h] = handoffs[h] /\ items[handoffLog[h].item] # "deleted"
  <2>1. handoffs[h] # NoRow => handoffs[h].item \in Item /\ handoffLog[h] = handoffs[h]
    BY DEF TypeOK, HandoffRow, HandoffTable
  <2>2. handoffLog[h] # NoRow => handoffLog[h].item \in Item
    BY DEF TypeOK, HandoffRow
  <2> QED
    BY <1>1, <2>1, <2>2 DEF TypeOK
<1>4. HandoffTable'
  BY <1>1, <1>3 DEF HandoffTable
<1> QED
  BY <1>2, <1>4

LEMMA NextKeepsHandoffs == TypeOK /\ HandoffInv /\ [Next]_vars => HandoffInv'
<1> SUFFICES ASSUME TypeOK, HandoffInv, [Next]_vars PROVE HandoffInv'
  OBVIOUS
<1>1. CASE UNCHANGED <<items, handoffVars>>
  BY <1>1, HandoffsUntouched
<1>2. CASE ItemStep
  <2>1. ASSUME NEW i \in Item, InsertWorkItem(i) PROVE HandoffInv'
    BY <2>1, HandoffsUntouched DEF InsertWorkItem, TypeOK
  <2>2. ASSUME NEW i \in Item, NEW s \in {"open", "done"}, UpdateWorkItem(i, s) PROVE HandoffInv'
    BY <2>2, HandoffsUntouched DEF UpdateWorkItem, TypeOK
  <2> QED
    BY <1>2, <2>1, <2>2, DeleteKeepsHandoffs DEF ItemStep
<1>3. CASE HandoffStep
  <2>1. ASSUME NEW a \in Actor, NEW h \in HandoffId, ExpireOnDecision(a, h) PROVE HandoffInv'
    BY <2>1, WriteKeepsHandoffs DEF ExpireOnDecision, HandoffStatus
  <2>2. ASSUME NEW h \in HandoffId, NEW s \in {"accepted", "rejected", "canceled"},
               handoffs[h] # NoRow, handoffs[h].status = "pending", Decide(h, s)
        PROVE  HandoffInv'
    BY <2>2, WriteKeepsHandoffs DEF Decide, HandoffStatus
  <2> QED
    BY <1>3, <2>1, <2>2, CreateKeepsHandoffs
       DEF HandoffStep, AcceptHandoff, RejectHandoff, CancelHandoff
<1>4. CASE ClaimStep
  BY <1>1, <1>4 DEF ClaimStep, ReclaimOwn, ClaimWorkItem, RenewWorkClaim, ReleaseWorkClaim
<1> QED
  BY <1>1, <1>2, <1>3, <1>4, ReapKeepsHandoffs DEF Next, Tick, Reap, ExpireStaleClaims, vars

-----------------------------------------------------------------------------
(* The inductive invariant and what follows from it. *)

LEMMA InitInv == Init => IInv
<1> SUFFICES ASSUME Init PROVE IInv
  OBVIOUS
<1>1. OneRowPerItem /\ ClaimTables /\ ClaimExpiryOnce
  BY DEF Init, OneRowPerItem, ClaimTables, ClaimExpiryOnce, ClaimId
<1>2. HandoffTable /\ HandoffExpiryOnce
  BY DEF Init, HandoffTable, HandoffExpiryOnce, HandoffId
<1> QED
  BY <1>1, <1>2, InitType DEF IInv, ClaimInv, HandoffInv

LEMMA NextInv == IInv /\ [Next]_vars => IInv'
BY NextType, NextKeepsClaims, NextKeepsHandoffs DEF IInv

LEMMA Invariance == Spec => []IInv
BY InitInv, NextInv, PTL DEF Spec

\* A work item never has two rows in work_claims_current: the UNIQUE constraint
\* turns down no claim.
THEOREM SlotIsFree == Spec => []OneRowPerItem
<1>1. IInv => OneRowPerItem
  BY DEF IInv, ClaimInv
<1> QED
  BY <1>1, Invariance, PTL

\* Every claim and handoff of an item that was not deleted is found by id, as
\* the last event about it says.
THEOREM ReplayIsExact == Spec => []ReplayAgrees
<1>1. IInv => ReplayAgrees
  <2> SUFFICES ASSUME IInv PROVE ReplayAgrees
    OBVIOUS
  <2>1. ClaimReplay
    BY DEF IInv, ClaimInv, ClaimTables, ClaimReplay, ClaimById
  <2>2. HandoffReplay
    BY DEF IInv, HandoffInv, HandoffTable, HandoffReplay
  <2> QED
    BY <2>1, <2>2 DEF ReplayAgrees
<1> QED
  BY <1>1, Invariance, PTL

\* Each lapse is recorded by exactly one event, whichever path records it.
THEOREM ExpiryIsExact == Spec => []ExpiryRecordedOnce
<1>1. IInv => ExpiryRecordedOnce
  BY DEF IInv, ClaimInv, HandoffInv, ExpiryRecordedOnce
<1> QED
  BY <1>1, Invariance, PTL

-----------------------------------------------------------------------------
(* What a read has shown as over is over. *)

\* What a step makes of the row of claim c: it leaves it alone, ends it in place,
\* extends it while it is live, or takes it out of work_claims_current.
ClaimRowStep(c) ==
    \/ current'[c] = current[c] /\ history'[c] = history[c]
    \/ current[c] # NoRow /\ current'[c] # NoRow /\ current'[c].status # "active"
    \/ Live(c)
    \/ current[c] # NoRow /\ current'[c] = NoRow

LEMMA EveryClaimRowStep ==
    ASSUME IInv, [Next]_vars, NEW c \in ClaimId, c < nextClaim
    PROVE  ClaimRowStep(c)
<1> USE DEF ClaimRowStep
<1>1. CASE UNCHANGED claimVars
  BY <1>1 DEF claimVars
<1>2. ASSUME NEW d \in ClaimId, NEW row \in ClosedRow, current[d] # NoRow, WriteClaim(d, row)
      PROVE  ClaimRowStep(c)
  <2>1. row # NoRow /\ row.status # "active"
    BY DEF ClosedRow, ClaimRow, ClaimStatus
  <2> QED
    BY <1>2, <2>1 DEF WriteClaim, IInv, TypeOK
<1>3. ASSUME NEW d \in ClaimId, current[d] # NoRow, current[d].status = "active", ExpireClaim(d)
      PROVE  ClaimRowStep(c)
  BY <1>2, <1>3, ClaimRowUpdate DEF ExpireClaim, IInv, TypeOK
<1>4. ASSUME NEW d \in ClaimId, Live(d), NEW lease \in Nat, ExtendClaim(d, lease)
      PROVE  ClaimRowStep(c)
  BY <1>4 DEF ExtendClaim, WriteClaim, IInv, TypeOK
<1>5. ASSUME NEW a \in Actor, NEW i \in Item, NEW lease \in Nat, Grant(a, i, lease)
      PROVE  ClaimRowStep(c)
  <2>1. c # nextClaim
    BY DEF IInv, TypeOK, ClaimId
  <2> QED
    BY <1>5, <2>1 DEF Grant, InSlot
<1>6. CASE ItemStep
  BY <1>1, <1>6 DEF ItemStep, InsertWorkItem, UpdateWorkItem, DeleteWorkItem, InSlot, claimVars
<1>7. CASE ClaimStep
  <2>1. ASSUME NEW a \in Actor, NEW i \in Item, NEW lease \in Lease, ReclaimOwn(a, i, lease)
        PROVE  ClaimRowStep(c)
    BY <1>4, <2>1 DEF ReclaimOwn
  <2>2. ASSUME NEW a \in Actor, NEW d \in ClaimId, NEW lease \in Lease, RenewWorkClaim(a, d, lease)
        PROVE  ClaimRowStep(c)
    <3>1. current[d] # NoRow /\ current[d].status = "active" /\ (~Lapsed(d) => Live(d))
      BY <2>2 DEF RenewWorkClaim, Lapsed, Live, IInv, TypeOK, ClaimRow
    <3> QED
      BY <1>3, <1>4, <2>2, <3>1 DEF RenewWorkClaim
  <2>3. ASSUME NEW a \in Actor, NEW d \in ClaimId, ReleaseWorkClaim(a, d)
        PROVE  ClaimRowStep(c)
    BY <1>2, <2>3, ClaimRowUpdate DEF ReleaseWorkClaim, IInv, TypeOK
  <2> QED
    BY <1>5, <1>7, <2>1, <2>2, <2>3 DEF ClaimStep, ClaimWorkItem
<1>8. CASE HandoffStep
  <2>1. ASSUME NEW a \in Actor, NEW h \in HandoffId, AcceptHandoff(a, h) PROVE ClaimRowStep(c)
    <3>1. handoffs[h].item \in Item
      BY <2>1 DEF AcceptHandoff, IInv, TypeOK, HandoffRow
    <3> QED
      BY <1>5, <2>1, <3>1 DEF AcceptHandoff
  <2> QED
    BY <1>1, <1>8, <2>1 DEF HandoffStep, CreateHandoff, ExpireOnDecision, RejectHandoff, CancelHandoff
<1>9. CASE ExpireStaleClaims
  <2>1. CASE Lapsed(c)
    <3>1. current[c] # NoRow /\ current[c] \in ClaimRow
      BY <2>1 DEF Lapsed, IInv, TypeOK
    <3>2. current'[c] = [current[c] EXCEPT !.status = "expired"]
      BY <1>9, <2>1 DEF ExpireStaleClaims
    <3>3. current'[c] \in ClaimRow \cap ClosedRow
      BY <3>1, <3>2, ClaimRowUpdate
    <3> QED
      BY <3>1, <3>3 DEF ClosedRow
  <2> QED
    BY <1>9, <2>1 DEF ExpireStaleClaims
<1> QED
  BY <1>1, <1>6, <1>7, <1>8, <1>9 DEF Next, Tick, Reap, ExpireStaleHandoffs, vars

LEMMA ClockAdvances == IInv /\ [Next]_vars => clock' \in Nat /\ clock \in Nat /\ clock' >= clock
<1> SUFFICES ASSUME IInv, [Next]_vars PROVE clock' \in Nat /\ clock \in Nat /\ clock' >= clock
  OBVIOUS
<1>1. clock' \in {clock, clock + 1}
  <2>1. ItemStep => UNCHANGED clock
    BY DEF ItemStep, InsertWorkItem, UpdateWorkItem, DeleteWorkItem
  <2>2. ClaimStep => UNCHANGED clock
    BY DEF ClaimStep, ReclaimOwn, ClaimWorkItem, RenewWorkClaim, ReleaseWorkClaim
  <2>3. HandoffStep => UNCHANGED clock
    BY DEF HandoffStep, CreateHandoff, ExpireOnDecision, AcceptHandoff, RejectHandoff,
           CancelHandoff, Decide
  <2>4. Reap => UNCHANGED clock
    BY DEF Reap, ExpireStaleClaims, ExpireStaleHandoffs
  <2> QED
    BY <2>1, <2>2, <2>3, <2>4 DEF Next, Tick, vars
<1>2. clock \in Nat
  BY DEF IInv, TypeOK
<1> QED
  BY <1>1, <1>2

LEMMA ClaimsStayOver ==
    ASSUME IInv, IInv', [Next]_vars
    PROVE  NoRevival
<1> SUFFICES ASSUME NEW c \in ClaimId, c < nextClaim, ClaimById(c) # NoRow, ClaimById(c)' # NoRow,
                    EffectiveClaim(c) # "active"
             PROVE  EffectiveClaim(c)' # "active"
  BY DEF NoRevival
<1>1. /\ current[c] # NoRow => current[c] \in ClaimRow
      /\ history[c] # NoRow => history[c].status # "active"
      /\ current'[c] # NoRow => current'[c] \in ClaimRow
      /\ history'[c] # NoRow => history'[c].status # "active"
  BY DEF IInv, TypeOK
<1>2. CASE current'[c] = current[c] /\ history'[c] = history[c]
  BY <1>1, <1>2, ClockAdvances DEF EffectiveClaim, ClaimById, Lapsed, ClaimRow
<1>3. CASE Live(c)
  BY <1>1, <1>3 DEF EffectiveClaim, ClaimById, Lapsed, Live, IInv, TypeOK, ClaimRow
<1>4. CASE current'[c] # NoRow /\ current'[c].status # "active"
  BY <1>4 DEF EffectiveClaim, ClaimById, Lapsed
<1>5. CASE current'[c] = NoRow
  BY <1>1, <1>5 DEF EffectiveClaim, ClaimById, Lapsed
<1> QED
  BY <1>2, <1>3, <1>4, <1>5, EveryClaimRowStep DEF ClaimRowStep

\* What a step makes of the row of handoff h, once there is one.
HandoffRowStep(h) ==
    \/ handoffs'[h] = handoffs[h]
    \/ handoffs[h].status = "pending" /\ ~HandoffLapsed(h)
    \/ StaleHandoff(h) /\ handoffs'[h].status = "expired"
    \/ handoffs'[h] = NoRow

LEMMA EveryHandoffRowStep ==
    ASSUME IInv, [Next]_vars, NEW h \in HandoffId, handoffs[h] # NoRow
    PROVE  HandoffRowStep(h)
<1> USE DEF HandoffRowStep
<1>1. CASE UNCHANGED handoffVars
  BY <1>1 DEF handoffVars
<1>2. CASE ItemStep
  BY <1>1, <1>2 DEF ItemStep, InsertWorkItem, UpdateWorkItem, DeleteWorkItem, handoffVars
<1>3. CASE HandoffStep
  <2>1. ASSUME NEW a \in Actor, NEW to \in Actor, NEW i \in Item, NEW d \in Deadline,
               CreateHandoff(a, to, i, d)
        PROVE  HandoffRowStep(h)
    <3>1. h # nextHandoff
      BY DEF IInv, HandoffInv, HandoffTable, TypeOK, HandoffId
    <3> QED
      BY <2>1, <3>1 DEF CreateHandoff, WriteHandoff, IInv, TypeOK
  <2>2. ASSUME NEW a \in Actor, NEW g \in HandoffId, ExpireOnDecision(a, g)
        PROVE  HandoffRowStep(h)
    <3>1. handoffs[g] \in HandoffRow /\ StaleHandoff(g)
      BY <2>2 DEF ExpireOnDecision, StaleHandoff, IInv, TypeOK
    <3>2. [handoffs[g] EXCEPT !.status = "expired"].status = "expired"
      BY <3>1 DEF HandoffRow
    <3> QED
      BY <2>2, <3>1, <3>2 DEF ExpireOnDecision, WriteHandoff, IInv, TypeOK
  <2>3. ASSUME NEW g \in HandoffId, handoffs[g].status = "pending", ~HandoffLapsed(g),
               NEW s \in HandoffStatus, Decide(g, s)
        PROVE  HandoffRowStep(h)
    BY <2>3 DEF Decide, WriteHandoff, IInv, TypeOK
  <2> QED
    BY <1>3, <2>1, <2>2, <2>3 DEF HandoffStep, AcceptHandoff, RejectHandoff, CancelHandoff, HandoffStatus
<1>4. CASE ExpireStaleHandoffs
  <2>1. ASSUME StaleHandoff(h) PROVE [handoffs[h] EXCEPT !.status = "expired"].status = "expired"
    BY DEF IInv, TypeOK, HandoffRow
  <2> QED
    BY <1>4, <2>1 DEF ExpireStaleHandoffs
<1>5. CASE ClaimStep
  BY <1>1, <1>5 DEF ClaimStep, ReclaimOwn, ClaimWorkItem, RenewWorkClaim, ReleaseWorkClaim
<1> QED
  BY <1>1, <1>2, <1>3, <1>4, <1>5 DEF Next, Tick, Reap, ExpireStaleClaims, vars

LEMMA HandoffsKeepOutcome ==
    ASSUME IInv, IInv', [Next]_vars
    PROVE  OneOutcome
<1> SUFFICES ASSUME NEW h \in HandoffId, handoffs[h] # NoRow, handoffs'[h] # NoRow,
                    EffectiveHandoff(h) # "pending"
             PROVE  EffectiveHandoff(h)' = EffectiveHandoff(h)
  BY DEF OneOutcome
<1>1. handoffs[h] \in HandoffRow /\ handoffs'[h] \in HandoffRow
  BY DEF IInv, TypeOK
<1>2. CASE handoffs'[h] = handoffs[h]
  BY <1>1, <1>2, ClockAdvances DEF EffectiveHandoff, HandoffLapsed, HandoffRow
<1>3. CASE StaleHandoff(h) /\ handoffs'[h].status = "expired"
  BY <1>1, <1>3 DEF EffectiveHandoff, StaleHandoff
<1>4. CASE handoffs[h].status = "pending" /\ ~HandoffLapsed(h)
  BY <1>4 DEF EffectiveHandoff
<1> QED
  BY <1>2, <1>3, <1>4, EveryHandoffRowStep DEF HandoffRowStep

\* A claim that was shown as released or expired is never shown as active again,
\* and a handoff keeps the outcome that it was shown with.
THEOREM OverIsOver == Spec => OverStaysOver
<1>1. IInv /\ IInv' /\ [Next]_vars => [NoRevival /\ OneOutcome]_vars
  BY ClaimsStayOver, HandoffsKeepOutcome
<1> QED
  BY <1>1, Invariance, PTL DEF Spec, OverStaysOver

-----------------------------------------------------------------------------
(* The tables keep the lease contract. *)

\* What the mapping reads: the live row in an item's slot says who holds it and
\* for how long, and without one nobody does.
Leases ==
    \A i \in Item :
        /\ \A c \in ClaimId : InSlot(c, i) /\ Live(c)
             => /\ holderOf[i] = current[c].actor /\ holderOf[i] # NoRow
                /\ untilOf[i] = current[c].expires /\ untilOf[i] > clock /\ untilOf[i] \in Nat
        /\ (\A c \in ClaimId : ~(InSlot(c, i) /\ Live(c))) => holderOf[i] = NoRow /\ untilOf[i] = 0

LEMMA LeasesRead == IInv => Leases
<1> SUFFICES ASSUME IInv, NEW i \in Item
             PROVE  /\ \A c \in ClaimId : InSlot(c, i) /\ Live(c)
                         => /\ holderOf[i] = current[c].actor /\ holderOf[i] # NoRow
                            /\ untilOf[i] = current[c].expires /\ untilOf[i] > clock
                            /\ untilOf[i] \in Nat
                    /\ (\A c \in ClaimId : ~(InSlot(c, i) /\ Live(c)))
                         => holderOf[i] = NoRow /\ untilOf[i] = 0
  BY DEF Leases
<1>1. ASSUME NEW c \in ClaimId, InSlot(c, i), Live(c)
      PROVE  /\ holderOf[i] = current[c].actor /\ holderOf[i] # NoRow
             /\ untilOf[i] = current[c].expires /\ untilOf[i] > clock /\ untilOf[i] \in Nat
  <2>1. current[c] \in ClaimRow /\ current[c].actor \in Actor
    BY <1>1 DEF Live, IInv, TypeOK, ClaimRow
  <2>2. \A d \in ClaimId : InSlot(d, i) /\ Live(d) => d = c
    BY <1>1 DEF InSlot, IInv, ClaimInv, OneRowPerItem
  <2>3. \A a \in Actor : Holds(a, i) <=> a = current[c].actor
    BY <1>1, <2>1, <2>2 DEF Holds
  <2>4. holderOf[i] = current[c].actor
    BY <2>1, <2>3 DEF holderOf
  <2>5. (CHOOSE d \in ClaimId : InSlot(d, i) /\ Live(d)) = c
    BY <1>1, <2>2
  <2>6. untilOf[i] = current[c].expires
    BY <1>1, <2>5 DEF untilOf
  <2> QED
    BY <1>1, <2>1, <2>4, <2>6 DEF Live, ClaimRow
<1>2. ASSUME \A c \in ClaimId : ~(InSlot(c, i) /\ Live(c))
      PROVE  holderOf[i] = NoRow /\ untilOf[i] = 0
  BY <1>2 DEF holderOf, untilOf, Holds
<1> QED
  BY <1>1, <1>2

LEMMA LeasesReadNext == IInv' => Leases'
BY LeasesRead, PTL

\* If no live row comes, goes or changes but those of item i, nobody else's lease
\* changes; without the exception, no lease does.
LEMMA OtherLeases ==
    ASSUME Leases, Leases', NEW i \in Item,
           \A j \in Item, c \in ClaimId :
               j # i => /\ (InSlot(c, j) /\ Live(c))' <=> InSlot(c, j) /\ Live(c)
                        /\ InSlot(c, j) /\ Live(c) => current'[c] = current[c]
    PROVE  /\ holderOf' = [holderOf EXCEPT ![i] = holderOf'[i]]
           /\ untilOf' = [untilOf EXCEPT ![i] = untilOf'[i]]
<1>1. ASSUME NEW j \in Item, j # i PROVE holderOf'[j] = holderOf[j] /\ untilOf'[j] = untilOf[j]
  <2>1. CASE \E c \in ClaimId : InSlot(c, j) /\ Live(c)
    BY <1>1, <2>1 DEF Leases
  <2>2. CASE \A c \in ClaimId : ~(InSlot(c, j) /\ Live(c))
    BY <1>1, <2>2 DEF Leases
  <2> QED
    BY <2>1, <2>2
<1>2. /\ holderOf = [j \in Item |-> holderOf[j]] /\ holderOf' = [j \in Item |-> holderOf'[j]]
      /\ untilOf = [j \in Item |-> untilOf[j]] /\ untilOf' = [j \in Item |-> untilOf'[j]]
  BY DEF holderOf, untilOf
<1> QED
  BY <1>1, <1>2

Abstract == <<clock, holderOf, untilOf, offerOf>>

\* A lease of item i, and no other, begins, grows or ends in a step that leaves
\* time and offers alone.
LEMMA LeaseStays ==
    ASSUME Leases, Leases', UNCHANGED clock,
           \A c \in ClaimId : /\ Live(c)' <=> Live(c)
                              /\ Live(c) => current'[c] = current[c]
    PROVE  UNCHANGED <<holderOf, untilOf>>
<1>1. ASSUME NEW i \in Item PROVE holderOf'[i] = holderOf[i] /\ untilOf'[i] = untilOf[i]
  <2>1. \A c \in ClaimId : /\ (InSlot(c, i) /\ Live(c))' <=> InSlot(c, i) /\ Live(c)
                           /\ InSlot(c, i) /\ Live(c) => current'[c] = current[c]
    BY DEF InSlot, Live
  <2>2. CASE \E c \in ClaimId : InSlot(c, i) /\ Live(c)
    BY <2>1, <2>2 DEF Leases
  <2>3. CASE \A c \in ClaimId : ~(InSlot(c, i) /\ Live(c))
    BY <2>1, <2>3 DEF Leases
  <2> QED
    BY <2>2, <2>3
<1> QED
  BY <1>1 DEF holderOf, untilOf

LEMMA ExtendIsExtend ==
    ASSUME IInv, Leases, Leases', NEW c \in ClaimId, Live(c), NEW lease \in Nat,
           ExtendClaim(c, lease), UNCHANGED <<clock, handoffs>>
    PROVE  Contract!Extend(current[c].item)
<1> PICK i \in Item : i = current[c].item
  BY DEF Live, IInv, TypeOK, ClaimRow
<1>1. current[c] \in ClaimRow /\ i \in Item /\ InSlot(c, i)
  BY DEF Live, IInv, TypeOK, ClaimRow, InSlot
<1>2. /\ current' = [current EXCEPT ![c] = [current[c] EXCEPT !.expires = @ + lease]]
      /\ current'[c].item = i /\ current'[c].actor = current[c].actor
      /\ current'[c].status = "active" /\ current'[c].expires = current[c].expires + lease
      /\ current'[c] # NoRow
  <2>1. current' = [current EXCEPT ![c] = [current[c] EXCEPT !.expires = @ + lease]]
    BY DEF ExtendClaim, WriteClaim
  <2>2. current'[c] = [current[c] EXCEPT !.expires = @ + lease]
    BY <2>1 DEF IInv, TypeOK
  <2>3. current'[c] \in ClaimRow
    BY <1>1, <2>2, ClaimRowUpdate
  <2> QED
    BY <1>1, <2>1, <2>2, <2>3 DEF ClaimRow, Live
<1>3. Live(c)' /\ InSlot(c, i)'
  BY <1>1, <1>2 DEF Live, InSlot, IInv, TypeOK, ClaimRow
<1>4. /\ holderOf[i] # NoRow /\ holderOf'[i] = holderOf[i] /\ untilOf'[i] >= untilOf[i]
      /\ untilOf'[i] > clock
  BY <1>1, <1>2, <1>3 DEF Leases, ClaimRow
<1>5. /\ holderOf' = [holderOf EXCEPT ![i] = holderOf'[i]]
      /\ untilOf' = [untilOf EXCEPT ![i] = untilOf'[i]]
  BY <1>1, <1>2, OtherLeases DEF InSlot, Live
<1>6. offerOf' = offerOf
  BY DEF offerOf, HandoffLapsed
<1> QED
  BY <1>4, <1>5, <1>6 DEF Contract!Extend, Contract!HeldBy

LEMMA EndIsRelinquish ==
    ASSUME IInv, Leases, Leases', NEW c \in ClaimId, current[c] # NoRow,
           NEW row \in ClosedRow, row.item = current[c].item, WriteClaim(c, row),
           UNCHANGED <<clock, handoffs>>
    PROVE  Contract!Relinquish(current[c].item) \/ UNCHANGED Abstract
<1> PICK i \in Item : i = current[c].item
  BY DEF IInv, TypeOK, ClaimRow
<1>1. current[c] \in ClaimRow /\ i \in Item /\ InSlot(c, i)
  BY DEF IInv, TypeOK, ClaimRow, InSlot
<1>2. current' = [current EXCEPT ![c] = row] /\ current'[c] = row /\ row.status # "active"
  BY DEF WriteClaim, ClosedRow, IInv, TypeOK
<1>3. offerOf' = offerOf
  BY DEF offerOf, HandoffLapsed
<1>4. CASE Live(c)
  <2>1. \A d \in ClaimId : InSlot(d, i) => d = c
    BY <1>1 DEF InSlot, IInv, ClaimInv, OneRowPerItem
  <2>2. \A d \in ClaimId : ~(InSlot(d, i) /\ Live(d))'
    BY <1>2, <2>1 DEF InSlot, Live
  <2>3. holderOf'[i] = NoRow /\ untilOf'[i] = 0
    BY <1>1, <2>2 DEF Leases
  <2>4. /\ holderOf' = [holderOf EXCEPT ![i] = holderOf'[i]]
        /\ untilOf' = [untilOf EXCEPT ![i] = untilOf'[i]]
    BY <1>1, <1>2, OtherLeases DEF InSlot, Live
  <2> QED
    BY <1>3, <2>3, <2>4 DEF Contract!Relinquish
<1>5. CASE ~Live(c)
  BY <1>2, <1>3, <1>5, LeaseStays DEF Live, Abstract
<1> QED
  BY <1>4, <1>5

\* A new claim: the row in the slot ends, and the fresh row is live if its lease
\* has any length.
LEMMA GrantIsHeldBy ==
    ASSUME IInv, Leases, Leases', NEW a \in Actor, NEW i \in Item, NEW lease \in Nat,
           Grant(a, i, lease), UNCHANGED clock
    PROVE  /\ lease > 0 => Contract!HeldBy(i, a)
           /\ lease = 0 /\ (\A c \in ClaimId : ~(InSlot(c, i) /\ Live(c)))
                => UNCHANGED <<holderOf, untilOf>>
<1> PICK n \in ClaimId : n = nextClaim
  BY DEF Grant
<1>1. current[n] = NoRow
  BY DEF IInv, ClaimInv, ClaimTables, ClaimId
<1>2. /\ current'[n] = NewClaim(a, i, lease) /\ NewClaim(a, i, lease) \in ClaimRow
      /\ \A c \in ClaimId : c # n =>
           current'[c] = IF InSlot(c, i) THEN NoRow ELSE current[c]
  BY <1>1 DEF Grant, NewClaim, ClaimRow, ClaimStatus, IInv, TypeOK
<1>3. ASSUME NEW j \in Item, NEW c \in ClaimId, j # i
      PROVE  /\ (InSlot(c, j) /\ Live(c))' <=> InSlot(c, j) /\ Live(c)
             /\ InSlot(c, j) /\ Live(c) => current'[c] = current[c]
  BY <1>1, <1>2, <1>3 DEF InSlot, Live, NewClaim
<1>4. /\ holderOf' = [holderOf EXCEPT ![i] = holderOf'[i]]
      /\ untilOf' = [untilOf EXCEPT ![i] = untilOf'[i]]
  BY <1>3, OtherLeases
<1>5. ASSUME lease > 0 PROVE Contract!HeldBy(i, a)
  <2>1. (InSlot(n, i) /\ Live(n))'
    BY <1>1, <1>2, <1>5 DEF InSlot, Live, NewClaim, ClaimRow, IInv, TypeOK
  <2>2. holderOf'[i] = a /\ untilOf'[i] > clock
    BY <1>1, <1>2, <2>1 DEF Leases, NewClaim
  <2> QED
    BY <1>4, <2>2 DEF Contract!HeldBy
<1>6. ASSUME lease = 0, \A c \in ClaimId : ~(InSlot(c, i) /\ Live(c))
      PROVE  UNCHANGED <<holderOf, untilOf>>
  <2>1. ~Live(n)'
    BY <1>1, <1>2, <1>6 DEF Live, NewClaim, IInv, TypeOK
  <2>2. \A c \in ClaimId : ~(InSlot(c, i) /\ Live(c))'
    BY <1>2, <1>6, <2>1 DEF InSlot, Live
  <2>3. holderOf'[i] = holderOf[i] /\ untilOf'[i] = untilOf[i]
    BY <1>6, <2>2 DEF Leases
  <2>4. holderOf \in [Item -> Actor \cup {NoRow}] /\ untilOf = [j \in Item |-> untilOf[j]]
    <3>1. \A j \in Item : holderOf[j] \in Actor \cup {NoRow}
      BY DEF holderOf
    <3> QED
      BY <3>1 DEF holderOf, untilOf
  <2> QED
    BY <1>4, <2>3, <2>4
<1> QED
  BY <1>5, <1>6

\* Nothing that an offer is read from changes.
LEMMA OffersStay ==
    ASSUME UNCHANGED <<clock, handoffs>>
    PROVE  UNCHANGED offerOf
BY DEF offerOf, HandoffLapsed

LEMMA LeasesUntouched ==
    ASSUME UNCHANGED <<clock, current>>
    PROVE  UNCHANGED <<holderOf, untilOf>>
BY DEF holderOf, untilOf, Holds, InSlot, Live

\* The row of one handoff is written: only its offer can change, and it is over
\* unless the row is pending.
LEMMA OtherOffers ==
    ASSUME IInv, NEW h \in HandoffId, NEW row \in HandoffRow, WriteHandoff(h, row), UNCHANGED clock
    PROVE  /\ offerOf' = [offerOf EXCEPT ![h] = offerOf'[h]]
           /\ row.status # "pending" => offerOf' = [offerOf EXCEPT ![h] = NoRow]
<1>1. handoffs'[h] = row /\ \A g \in HandoffId : g # h => handoffs'[g] = handoffs[g]
  BY DEF WriteHandoff, IInv, TypeOK
<1>2. \A g \in HandoffId : g # h => offerOf'[g] = offerOf[g]
  BY <1>1 DEF offerOf, HandoffLapsed
<1>3. /\ offerOf = [g \in HandoffId |-> offerOf[g]]
      /\ offerOf' = [g \in HandoffId |-> offerOf'[g]]
  BY DEF offerOf
<1>4. row.status # "pending" => offerOf'[h] = NoRow
  BY <1>1 DEF offerOf
<1> QED
  BY <1>2, <1>3, <1>4

\* Writing off lapsed rows leaves the leases and the offers as they read.
LEMMA WriteOffIsStutter ==
    ASSUME IInv, Leases, Leases', UNCHANGED <<clock, handoffs>>,
           \A c \in ClaimId : ~Lapsed(c) => current'[c] = current[c],
           \A c \in ClaimId : Lapsed(c) => current'[c] = [current[c] EXCEPT !.status = "expired"]
    PROVE  UNCHANGED Abstract
<1>1. ASSUME NEW c \in ClaimId
      PROVE  (Live(c)' <=> Live(c)) /\ (Live(c) => current'[c] = current[c])
  <2>1. CASE Lapsed(c)
    <3>1. current[c] \in ClaimRow
      BY <2>1 DEF Lapsed, IInv, TypeOK
    <3>2. current'[c].status = "expired"
      BY <2>1, <3>1 DEF ClaimRow
    <3> QED
      BY <2>1, <3>1, <3>2 DEF Lapsed, Live, ClaimRow, IInv, TypeOK
  <2>2. CASE ~Lapsed(c)
    BY <2>2 DEF Live
  <2> QED
    BY <2>1, <2>2
<1> QED
  BY <1>1, LeaseStays, OffersStay DEF Abstract

LEMMA TickKeeps == IInv /\ IInv' /\ Tick => Contract!Pass
<1> SUFFICES ASSUME IInv, IInv', Tick PROVE Contract!Pass
  OBVIOUS
<1>1. Leases /\ Leases' /\ clock \in Nat /\ clock' = clock + 1 /\ UNCHANGED <<current, handoffs>>
  BY LeasesRead, LeasesReadNext DEF Tick, claimVars, handoffVars, IInv, TypeOK
<1>2. ASSUME NEW i \in Item
      PROVE  /\ holderOf'[i] = IF untilOf[i] <= clock' THEN NoRow ELSE holderOf[i]
             /\ untilOf'[i] = IF untilOf[i] <= clock' THEN 0 ELSE untilOf[i]
  <2>1. CASE \E c \in ClaimId : InSlot(c, i) /\ Live(c)
    <3> PICK c \in ClaimId : InSlot(c, i) /\ Live(c)
      BY <2>1
    <3>1. /\ current[c] \in ClaimRow /\ current[c].item = i /\ current[c].status = "active"
          /\ current[c] # NoRow /\ current'[c] = current[c]
      BY <1>1 DEF Live, InSlot, IInv, TypeOK
    <3>2. holderOf[i] = current[c].actor /\ untilOf[i] = current[c].expires
      BY <1>1 DEF Leases
    <3>3. CASE current[c].expires <= clock'
      <4>1. \A d \in ClaimId : ~(InSlot(d, i) /\ Live(d))'
        <5>1. \A d \in ClaimId : InSlot(d, i)' => d = c
          BY <1>1, <3>1 DEF InSlot, IInv, ClaimInv, OneRowPerItem
        <5>2. ~Live(c)'
          BY <1>1, <3>1, <3>3 DEF Live, ClaimRow
        <5> QED
          BY <5>1, <5>2
      <4> QED
        BY <1>1, <3>2, <3>3, <4>1 DEF Leases
    <3>4. CASE ~(current[c].expires <= clock')
      <4>1. (InSlot(c, i) /\ Live(c))'
        BY <1>1, <3>1, <3>4 DEF InSlot, Live, ClaimRow
      <4> QED
        BY <1>1, <3>1, <3>2, <3>4, <4>1 DEF Leases
    <3> QED
      BY <3>3, <3>4
  <2>2. CASE \A c \in ClaimId : ~(InSlot(c, i) /\ Live(c))
    <3>1. \A c \in ClaimId : ~(InSlot(c, i) /\ Live(c))'
      <4>1. ASSUME NEW c \in ClaimId, (InSlot(c, i) /\ Live(c))' PROVE InSlot(c, i) /\ Live(c)
        BY <1>1, <4>1 DEF InSlot, Live, IInv, TypeOK, ClaimRow
      <4> QED
        BY <2>2, <4>1
    <3>2. holderOf[i] = NoRow /\ untilOf[i] = 0 /\ holderOf'[i] = NoRow /\ untilOf'[i] = 0
      BY <1>1, <2>2, <3>1 DEF Leases
    <3> QED
      BY <1>1, <3>2
  <2> QED
    BY <2>1, <2>2
<1>3. ASSUME NEW h \in HandoffId PROVE offerOf'[h] \in {offerOf[h], NoRow}
  <2>1. HandoffLapsed(h) /\ handoffs[h] # NoRow => HandoffLapsed(h)'
    BY <1>1 DEF HandoffLapsed, IInv, TypeOK, HandoffRow
  <2> QED
    BY <1>1, <2>1 DEF offerOf
<1>4. /\ holderOf' = [i \in Item |-> holderOf'[i]] /\ untilOf' = [i \in Item |-> untilOf'[i]]
      /\ offerOf' = [h \in HandoffId |-> offerOf'[h]]
  BY DEF holderOf, untilOf, offerOf
<1> QED
  BY <1>1, <1>2, <1>3, <1>4 DEF Contract!Pass

LEMMA ItemStepKeeps ==
    IInv /\ IInv' /\ ItemStep => (\E i \in Item : Contract!Drop(i)) \/ UNCHANGED Abstract
<1> SUFFICES ASSUME IInv, IInv', ItemStep
             PROVE  (\E i \in Item : Contract!Drop(i)) \/ UNCHANGED Abstract
  OBVIOUS
<1> PICK i \in Item : \/ InsertWorkItem(i) \/ \E s \in {"open", "done"} : UpdateWorkItem(i, s)
                      \/ DeleteWorkItem(i)
  BY DEF ItemStep
<1>1. CASE InsertWorkItem(i) \/ \E s \in {"open", "done"} : UpdateWorkItem(i, s)
  BY <1>1, LeasesUntouched, OffersStay
     DEF InsertWorkItem, UpdateWorkItem, claimVars, handoffVars, Abstract
<1>2. CASE DeleteWorkItem(i)
  <2>1. Leases /\ Leases' /\ UNCHANGED clock
    BY <1>2, LeasesRead, LeasesReadNext DEF DeleteWorkItem
  <2>2. \A c \in ClaimId : current'[c] = IF InSlot(c, i) THEN NoRow ELSE current[c]
    BY <1>2 DEF DeleteWorkItem
  <2>3. /\ holderOf' = [holderOf EXCEPT ![i] = holderOf'[i]]
        /\ untilOf' = [untilOf EXCEPT ![i] = untilOf'[i]]
    BY <2>1, <2>2, OtherLeases DEF InSlot, Live
  <2>4. holderOf'[i] = NoRow /\ untilOf'[i] = 0
    <3>1. \A c \in ClaimId : ~(InSlot(c, i) /\ Live(c))'
      BY <2>2 DEF InSlot, Live
    <3> QED
      BY <2>1, <3>1 DEF Leases
  <2>5. ASSUME NEW h \in HandoffId
        PROVE  offerOf'[h] = IF offerOf[h] # NoRow /\ offerOf[h].item = i THEN NoRow ELSE offerOf[h]
    <3>1. handoffs'[h] = IF handoffs[h] # NoRow /\ handoffs[h].item = i THEN NoRow ELSE handoffs[h]
      BY <1>2 DEF DeleteWorkItem
    <3>2. UNCHANGED HandoffLapsed(h) \/ handoffs'[h] = NoRow
      BY <2>1, <3>1 DEF HandoffLapsed
    <3> QED
      BY <3>1, <3>2 DEF offerOf
  <2>6. offerOf' = [h \in HandoffId |-> offerOf'[h]]
    BY DEF offerOf
  <2>7. Contract!Drop(i)
    BY <2>1, <2>3, <2>4, <2>5, <2>6 DEF Contract!Drop
  <2> QED
    BY <2>7
<1> QED
  BY <1>1, <1>2

LEMMA ClaimStepKeeps ==
    IInv /\ IInv' /\ ClaimStep => [Contract!Next]_Abstract
<1> SUFFICES ASSUME IInv, IInv', ClaimStep PROVE [Contract!Next]_Abstract
  OBVIOUS
<1>1. Leases /\ Leases' /\ UNCHANGED <<clock, handoffs>>
  <2>1. Leases /\ Leases'
    BY LeasesRead, LeasesReadNext
  <2>2. UNCHANGED <<clock, handoffs>>
    BY DEF ClaimStep, ReclaimOwn, ClaimWorkItem, RenewWorkClaim, ReleaseWorkClaim, handoffVars
  <2> QED
    BY <2>1, <2>2
<1>2. ASSUME NEW c \in ClaimId, Live(c), NEW lease \in Lease, ExtendClaim(c, lease)
      PROVE  Contract!Next
  <2>1. current[c].item \in Item
    BY <1>2 DEF Live, IInv, TypeOK, ClaimRow
  <2> QED
    BY <1>1, <1>2, <2>1, ExtendIsExtend DEF Contract!Next
<1>3. ASSUME NEW a \in Actor, NEW i \in Item, NEW lease \in Lease, ReclaimOwn(a, i, lease)
      PROVE  Contract!Next
  BY <1>2, <1>3 DEF ReclaimOwn
<1>4. ASSUME NEW a \in Actor, NEW i \in Item, NEW lease \in Lease, ClaimWorkItem(a, i, lease)
      PROVE  Contract!Next \/ UNCHANGED Abstract
  <2>1. Grant(a, i, lease) /\ \A c \in ClaimId : ~(InSlot(c, i) /\ Live(c))
    BY <1>4 DEF ClaimWorkItem
  <2>2. holderOf[i] = NoRow /\ UNCHANGED offerOf
    BY <1>1, <2>1, OffersStay DEF Leases
  <2>3. CASE lease > 0
    <3>1. Contract!HeldBy(i, a)
      BY <1>1, <2>1, <2>3, GrantIsHeldBy
    <3>2. Contract!Acquire(i, a)
      BY <1>1, <2>2, <3>1 DEF Contract!Acquire
    <3> QED
      BY <3>2 DEF Contract!Next
  <2>4. CASE lease = 0
    BY <1>1, <2>1, <2>2, <2>4, GrantIsHeldBy DEF Abstract
  <2> QED
    BY <2>3, <2>4
<1>5. ASSUME NEW a \in Actor, NEW c \in ClaimId, NEW lease \in Lease, RenewWorkClaim(a, c, lease)
      PROVE  Contract!Next \/ UNCHANGED Abstract
  <2>1. current[c] # NoRow /\ current[c] \in ClaimRow /\ current[c].status = "active"
    BY <1>5 DEF RenewWorkClaim, IInv, TypeOK
  <2>2. CASE Lapsed(c)
    <3>1. ExpireClaim(c)
      BY <1>5, <2>2 DEF RenewWorkClaim
    <3> PICK row \in ClosedRow : row = [current[c] EXCEPT !.status = "expired"]
      BY <2>1, ClaimRowUpdate
    <3>2. WriteClaim(c, row) /\ row.item = current[c].item
      BY <2>1, <3>1 DEF ExpireClaim, ClaimRow
    <3>3. Contract!Relinquish(current[c].item) \/ UNCHANGED Abstract
      BY <1>1, <2>1, <3>2, EndIsRelinquish
    <3>4. current[c].item \in Item
      BY <2>1 DEF ClaimRow
    <3> QED
      BY <3>3, <3>4 DEF Contract!Next
  <2>3. CASE ~Lapsed(c)
    <3>1. Live(c) /\ ExtendClaim(c, lease)
      BY <1>5, <2>1, <2>3 DEF RenewWorkClaim, Lapsed, Live, ClaimRow, IInv, TypeOK
    <3> QED
      BY <1>2, <3>1
  <2> QED
    BY <2>2, <2>3
<1>6. ASSUME NEW a \in Actor, NEW c \in ClaimId, ReleaseWorkClaim(a, c)
      PROVE  Contract!Next \/ UNCHANGED Abstract
  <2>1. current[c] # NoRow /\ current[c] \in ClaimRow
    BY <1>6 DEF ReleaseWorkClaim, IInv, TypeOK
  <2> PICK row \in ClosedRow : row = [current[c] EXCEPT !.status = "released"]
    BY <2>1, ClaimRowUpdate
  <2>2. WriteClaim(c, row) /\ row.item = current[c].item
    BY <1>6, <2>1 DEF ReleaseWorkClaim, ClaimRow
  <2>3. Contract!Relinquish(current[c].item) \/ UNCHANGED Abstract
    BY <1>1, <2>1, <2>2, EndIsRelinquish
  <2>4. current[c].item \in Item
    BY <2>1 DEF ClaimRow
  <2> QED
    BY <2>3, <2>4 DEF Contract!Next
<1> QED
  BY <1>3, <1>4, <1>5, <1>6 DEF ClaimStep, Abstract

LEMMA HandoffStepKeeps ==
    IInv /\ IInv' /\ HandoffStep => [Contract!Next]_Abstract
<1> SUFFICES ASSUME IInv, IInv', HandoffStep PROVE [Contract!Next]_Abstract
  OBVIOUS
<1>1. Leases /\ Leases' /\ UNCHANGED clock
  <2>1. UNCHANGED clock
    BY DEF HandoffStep, CreateHandoff, ExpireOnDecision, AcceptHandoff, RejectHandoff,
           CancelHandoff, Decide
  <2> QED
    BY <2>1, LeasesRead, LeasesReadNext
<1>2. ASSUME NEW a \in Actor, NEW to \in Actor, NEW i \in Item, NEW d \in Deadline,
             CreateHandoff(a, to, i, d)
      PROVE  Contract!Next \/ UNCHANGED Abstract
  <2> PICK h \in HandoffId : h = nextHandoff
    BY <1>2 DEF CreateHandoff
  <2> PICK row \in HandoffRow : row = [item |-> i, from |-> a, to |-> to,
                                       status |-> "pending", expires |-> d]
    BY DEF HandoffRow, HandoffStatus
  <2>1. WriteHandoff(h, row) /\ UNCHANGED <<holderOf, untilOf>>
    BY <1>1, <1>2, LeasesUntouched DEF CreateHandoff, claimVars
  <2>2. handoffs[h] = NoRow /\ offerOf[h] = NoRow
    BY DEF IInv, HandoffInv, HandoffTable, HandoffId, offerOf
  <2>3. offerOf' = [offerOf EXCEPT ![h] = offerOf'[h]]
    BY <1>1, <2>1, OtherOffers
  <2>4. offerOf'[h] \in {NoRow, [item |-> i, from |-> a, to |-> to]}
    <3>1. handoffs'[h] = row
      BY <2>1 DEF WriteHandoff, IInv, TypeOK
    <3> QED
      BY <3>1 DEF offerOf
  <2>5. CASE offerOf'[h] = NoRow
    <3>1. offerOf' = offerOf
      BY <2>2, <2>3, <2>5 DEF offerOf
    <3> QED
      BY <1>1, <2>1, <3>1 DEF Abstract
  <2>6. CASE offerOf'[h] = [item |-> i, from |-> a, to |-> to]
    <3>1. Contract!MakeOffer(h, a, to, i)
      BY <1>1, <2>1, <2>2, <2>3, <2>6 DEF Contract!MakeOffer
    <3> QED
      BY <3>1 DEF Contract!Next
  <2> QED
    BY <2>4, <2>5, <2>6
<1>3. ASSUME NEW h \in HandoffId, handoffs[h] # NoRow, NEW s \in HandoffStatus \ {"pending"},
             WriteHandoff(h, [handoffs[h] EXCEPT !.status = s])
      PROVE  offerOf' = [offerOf EXCEPT ![h] = NoRow]
  <2>1. handoffs[h] \in HandoffRow
    BY <1>3 DEF IInv, TypeOK
  <2> PICK row \in HandoffRow : row = [handoffs[h] EXCEPT !.status = s]
    BY <2>1, HandoffRowUpdate
  <2>2. row.status # "pending"
    BY <2>1 DEF HandoffRow
  <2> QED
    BY <1>1, <1>3, <2>2, OtherOffers
<1>4. ASSUME NEW a \in Actor, NEW h \in HandoffId, ExpireOnDecision(a, h)
      PROVE  Contract!Next \/ UNCHANGED Abstract
  <2>1. offerOf' = [offerOf EXCEPT ![h] = NoRow] /\ UNCHANGED <<holderOf, untilOf>>
    BY <1>1, <1>3, <1>4, LeasesUntouched DEF ExpireOnDecision, HandoffStatus, claimVars
  <2>2. Contract!EndOffer(h)
    BY <1>1, <2>1 DEF Contract!EndOffer
  <2> QED
    BY <2>2 DEF Contract!Next
<1>5. ASSUME NEW a \in Actor, NEW h \in HandoffId, RejectHandoff(a, h) \/ CancelHandoff(a, h)
      PROVE  Contract!Next
  <2>1. offerOf' = [offerOf EXCEPT ![h] = NoRow] /\ UNCHANGED <<holderOf, untilOf>>
    BY <1>1, <1>3, <1>5, LeasesUntouched
       DEF RejectHandoff, CancelHandoff, Decide, HandoffStatus, claimVars
  <2>2. Contract!EndOffer(h)
    BY <1>1, <2>1 DEF Contract!EndOffer
  <2> QED
    BY <2>2 DEF Contract!Next
<1>6. ASSUME NEW a \in Actor, NEW h \in HandoffId, AcceptHandoff(a, h)
      PROVE  Contract!Next
  <2>1. handoffs[h] \in HandoffRow /\ handoffs[h] # NoRow
    BY <1>6 DEF AcceptHandoff, IInv, TypeOK
  <2> PICK i \in Item : i = handoffs[h].item
    BY <2>1 DEF HandoffRow
  <2>2. /\ offerOf[h] # NoRow /\ offerOf[h].item = i
        /\ offerOf[h].from = handoffs[h].from /\ offerOf[h].to = a
    <3>1. offerOf[h] = [item |-> i, from |-> handoffs[h].from, to |-> a]
      BY <1>6, <2>1 DEF AcceptHandoff, offerOf
    <3>2. offerOf[h] \in Offer
      BY <2>1, <3>1 DEF Offer, HandoffRow
    <3> QED
      BY <3>1, <3>2
  <2>3. offerOf' = [offerOf EXCEPT ![h] = NoRow]
    BY <1>3, <1>6, <2>1 DEF AcceptHandoff, Decide, HandoffStatus
  <2>4. holderOf[i] \in {NoRow, offerOf[h].from}
    <3>1. CASE \E c \in ClaimId : InSlot(c, i) /\ Live(c)
      BY <1>1, <1>6, <2>2, <3>1 DEF Leases, AcceptHandoff
    <3>2. CASE \A c \in ClaimId : ~(InSlot(c, i) /\ Live(c))
      BY <1>1, <3>2 DEF Leases
    <3> QED
      BY <3>1, <3>2
  <2>5. Contract!HeldBy(i, a)
    BY <1>1, <1>6, GrantIsHeldBy DEF AcceptHandoff
  <2>6. Contract!Transfer(h)
    BY <1>1, <2>2, <2>3, <2>4, <2>5 DEF Contract!Transfer
  <2> QED
    BY <2>6 DEF Contract!Next
<1> QED
  BY <1>2, <1>4, <1>5, <1>6 DEF HandoffStep, Abstract

LEMMA ReapKeeps == IInv /\ IInv' /\ Reap => UNCHANGED Abstract
<1> SUFFICES ASSUME IInv, IInv', Reap PROVE UNCHANGED Abstract
  OBVIOUS
<1>1. CASE ExpireStaleClaims
  <2>1. Leases /\ Leases' /\ UNCHANGED <<clock, handoffs>>
    BY <1>1, LeasesRead, LeasesReadNext DEF ExpireStaleClaims, handoffVars
  <2>2. \A c \in ClaimId : current'[c] = IF Lapsed(c) THEN [current[c] EXCEPT !.status = "expired"]
                                                      ELSE current[c]
    BY <1>1 DEF ExpireStaleClaims
  <2> QED
    BY <2>1, <2>2, WriteOffIsStutter
<1>2. CASE ExpireStaleHandoffs
  <2>1. UNCHANGED <<clock, holderOf, untilOf>>
    BY <1>2, LeasesUntouched DEF ExpireStaleHandoffs, claimVars
  <2>2. ASSUME NEW h \in HandoffId PROVE offerOf'[h] = offerOf[h]
    <3>1. handoffs'[h] = IF StaleHandoff(h) THEN [handoffs[h] EXCEPT !.status = "expired"]
                                            ELSE handoffs[h]
      BY <1>2 DEF ExpireStaleHandoffs
    <3>2. CASE StaleHandoff(h)
      <4>1. handoffs[h] \in HandoffRow
        BY <3>2 DEF StaleHandoff, IInv, TypeOK
      <4>2. handoffs'[h].status = "expired"
        BY <3>1, <3>2, <4>1 DEF HandoffRow
      <4> QED
        BY <3>2, <4>2 DEF StaleHandoff, offerOf
    <3>3. CASE ~StaleHandoff(h)
      BY <2>1, <3>1, <3>3 DEF offerOf, HandoffLapsed
    <3> QED
      BY <3>2, <3>3
  <2>3. offerOf = [h \in HandoffId |-> offerOf[h]] /\ offerOf' = [h \in HandoffId |-> offerOf'[h]]
    BY DEF offerOf
  <2>4. offerOf' = offerOf
    BY <2>2, <2>3
  <2> QED
    BY <2>1, <2>4 DEF Abstract
<1> QED
  BY <1>1, <1>2 DEF Reap

LEMMA InitKeeps == Init => Contract!Init
<1> SUFFICES ASSUME Init PROVE Contract!Init
  OBVIOUS
<1>1. IInv /\ Leases
  BY InitInv, LeasesRead
<1>2. ASSUME NEW i \in Item PROVE holderOf[i] = NoRow /\ untilOf[i] = 0
  BY <1>1 DEF Init, InSlot, Leases
<1>3. holderOf = [i \in Item |-> NoRow] /\ untilOf = [i \in Item |-> 0]
  BY <1>2 DEF holderOf, untilOf
<1>4. offerOf = [h \in HandoffId |-> NoRow]
  BY DEF Init, offerOf
<1> QED
  BY <1>3, <1>4 DEF Init, Contract!Init

LEMMA NextKeeps == IInv /\ IInv' /\ [Next]_vars => [Contract!Next]_Abstract
<1> SUFFICES ASSUME IInv, IInv', [Next]_vars PROVE [Contract!Next]_Abstract
  OBVIOUS
<1>1. CASE Tick
  BY <1>1, TickKeeps DEF Contract!Next
<1>2. CASE ItemStep
  BY <1>2, ItemStepKeeps DEF Contract!Next
<1>3. CASE UNCHANGED vars
  BY <1>3, LeasesUntouched, OffersStay DEF vars, claimVars, handoffVars, Abstract
<1> QED
  BY <1>1, <1>2, <1>3, ClaimStepKeeps, HandoffStepKeeps, ReapKeeps DEF Next

\* The tables implement the lease contract (storage of work_claims_current,
\* claimWorkItem, acceptHandoff and the reapers): an item has one holder, whose
\* lease ends exactly at a deadline that only moves forward, and passes straight
\* to another actor only by an open offer that the passage uses up.
THEOREM TablesKeepContract == Spec => KeepsContract
<1>1. IInv /\ IInv' /\ [Next]_vars => [Contract!Next]_(Contract!vars)
  BY NextKeeps DEF Abstract, Contract!vars
<1> QED
  BY <1>1, InitKeeps, Invariance, PTL DEF Spec, KeepsContract, Contract!Spec
=============================================================================
