--------------------------- MODULE PgCoordination ---------------------------
(***************************************************************************)
(* Claims and handoffs as the Postgres adapter executes them                *)
(* (src/adapters/postgres/index.ts): one transaction per operation, READ    *)
(* COMMITTED, so that other transactions commit between its statements.     *)
(*                                                                         *)
(* One work item, its one row of work_claims_current (UNIQUE work_item_id:  *)
(* a reclaim overwrites the row and keeps its id) and its handoffs.  An     *)
(* operation is the sequence of statements it still has to run.  A SELECT   *)
(* sees the committed row, or the transaction's own version of it; an       *)
(* UPDATE waits for the row's lock, evaluates its WHERE on the row as last  *)
(* committed and keeps the lock until COMMIT.  Writing an event updates the *)
(* single 'temporal' row of projection_watermarks, and so waits for it too. *)
(***************************************************************************)
EXTENDS Naturals, Sequences

CONSTANTS
    Actor,
    HandoffId,
    Process,     \* connections, each running one operation at a time
    Operations,  \* the operations that run
    LeaseLength, \* lease_seconds, in clock ticks
    From, To,    \* the two parties of each handoff
    Deadline,    \* expires_at of each handoff
    Free,        \* nobody holds the lock
    NoRow,
    MaxTime,     \* bound: the clock stops here
    MaxOps       \* bound: operations that are ever started

AllOperations == {"claim", "renew", "release", "accept", "reject", "cancel",
                  "reapClaims", "reapHandoffs"}

ASSUME ConstantsAssumption ==
    /\ Operations \subseteq AllOperations
    /\ LeaseLength \in Nat \ {0} /\ MaxTime \in Nat /\ MaxOps \in Nat
    /\ From \in [HandoffId -> Actor] /\ To \in [HandoffId -> Actor]
    /\ Deadline \in [HandoffId -> Nat]
    /\ HandoffId \cap {"claim", "watermark"} = {}
    /\ Free \notin Process

Resource == {"claim", "watermark"} \cup HandoffId
Outcome  == {"pending", "accepted", "rejected", "canceled", "expired"}

\* lease numbers the leases that one row of work_claims_current holds in turn.
ClaimRow == [actor : Actor, status : {"active", "released", "expired"},
             expires : Nat, lease : 1..MaxOps]

ASSUME NoRowAssumption == NoRow \notin ClaimRow

VARIABLES
    clock,
    item,            \* status of the work item: "open" or "done"
    claim,           \* the committed row of work_claims_current, or NoRow
    outcome,         \* the committed status of each handoff
    lock,            \* which process holds each row lock
    tx,              \* what each process is running
    started,         \* operations started so far
    claimExpiries,   \* committed work_claim.expired events, by lease
    handoffExpiries  \* committed handoff.expired events, by handoff

vars == <<clock, item, claim, outcome, lock, tx, started, claimExpiries, handoffExpiries>>
events == <<claimExpiries, handoffExpiries>>

\* Definitions with the suffix _bug are what a plausible slip in the code would
\* give; no specification uses them.

\* A transaction: who asks for what, the statements to come, the `now` it read,
\* the expires_at its SELECT saw, and the rows it has written.
Idle == [op |-> "none", actor |-> NoRow, h |-> NoRow, todo |-> <<>>, now |-> 0, seen |-> 0,
         claim |-> NoRow, outcome |-> "pending", expired |-> {}]

Claiming == <<"readItem", "readClaim", "upsert">>

\* reject writes its event before it updates the handoff
Program_bug(op) ==
    CASE op = "claim"        -> Claiming \o <<"commit">>
      [] op = "renew"        -> <<"checkRenew", "extend", "commit">>
      [] op = "release"      -> <<"checkRelease", "release", "commit">>
      [] op = "accept"       -> <<"readHandoff", "readOwner">> \o Claiming \o <<"log", "decide", "commit">>
      [] op = "reject"       -> <<"readHandoff", "log", "decide", "commit">>
      [] op = "cancel"       -> <<"readHandoff", "decide", "commit">>
      [] op = "reapClaims"   -> <<"lockStaleClaims", "commit">>
      [] op = "reapHandoffs" -> <<"lockStaleHandoff", "commit">>

Program(op) ==
    CASE op = "claim"        -> Claiming \o <<"commit">>
      [] op = "renew"        -> <<"checkRenew", "extend", "commit">>
      [] op = "release"      -> <<"checkRelease", "release", "commit">>
      [] op = "accept"       -> <<"readHandoff", "readOwner">> \o Claiming \o <<"log", "decide", "commit">>
      [] op = "reject"       -> <<"readHandoff", "decide", "commit">>
      [] op = "cancel"       -> <<"readHandoff", "decide", "commit">>
      [] op = "reapClaims"   -> <<"lockStaleClaims", "commit">>
      [] op = "reapHandoffs" -> <<"lockStaleHandoff", "commit">>

Decision == [op \in {"accept", "reject", "cancel"} |->
               CASE op = "accept" -> "accepted" [] op = "reject" -> "rejected"
                 [] op = "cancel" -> "canceled"]

-----------------------------------------------------------------------------
At(p, statement) == tx[p].todo # <<>> /\ Head(tx[p].todo) = statement
Rest(p)          == Tail(tx[p].todo)

\* What a statement of p sees: its own uncommitted row, or the committed one.
Row(p)         == IF tx[p].claim # NoRow THEN tx[p].claim ELSE claim
HandoffNow(p)  == IF tx[p].outcome # "pending" THEN tx[p].outcome ELSE outcome[tx[p].h]

Active(row)       == row # NoRow /\ row.status = "active"
Lapsed(row, now)  == Active(row) /\ row.expires <= now
Live(row, now)    == Active(row) /\ row.expires > now

\* The actor in whose name p releases: acceptHandoff releases for the offering actor.
Releasing(p) == IF tx[p].op = "accept" THEN From[tx[p].h] ELSE tx[p].actor

Available(p, r) == lock[r] \in {Free, p}
Take(p, r)      == lock' = [lock EXCEPT ![r] = p]
Unlocked(p)     == [r \in Resource |-> IF lock[r] = p THEN Free ELSE lock[r]]

Continue(p, fields) == tx' = [tx EXCEPT ![p] = fields]

\* A ConflictError or a deadlock: ROLLBACK.
Rollback(p) ==
    /\ tx' = [tx EXCEPT ![p] = Idle]
    /\ lock' = Unlocked(p)
    /\ UNCHANGED <<clock, item, claim, outcome, started, events>>

\* A SELECT changes nothing but what the transaction knows.
Reads == UNCHANGED <<clock, item, claim, outcome, lock, started, events>>
\* An UPDATE becomes visible at COMMIT.
Writes == UNCHANGED <<clock, item, claim, outcome, started, events>>

-----------------------------------------------------------------------------
Init ==
    /\ clock = 0
    /\ item = "open"
    /\ claim = NoRow
    /\ outcome = [h \in HandoffId |-> "pending"]
    /\ lock = [r \in Resource |-> Free]
    /\ tx = [p \in Process |-> Idle]
    /\ started = 0
    /\ claimExpiries = [l \in 1..MaxOps |-> 0]
    /\ handoffExpiries = [h \in HandoffId |-> 0]

Tick ==
    /\ clock < MaxTime
    /\ clock' = clock + 1
    /\ UNCHANGED <<item, claim, outcome, lock, tx, started, events>>

\* updateWorkItemStatus: one row that no statement here writes.
FinishItem ==
    /\ item = "open" /\ lock["watermark"] = Free
    /\ item' = "done"
    /\ UNCHANGED <<clock, claim, outcome, lock, tx, started, events>>

\* BEGIN.  renew and release name the claim's id, so the row must be there.
Begin(p, op, a, h) ==
    /\ tx[p].todo = <<>> /\ started < MaxOps
    /\ op \in {"renew", "release"} => claim # NoRow
    /\ started' = started + 1
    /\ tx' = [tx EXCEPT ![p] = [Idle EXCEPT !.op = op, !.actor = a, !.h = h,
                                            !.todo = Program(op), !.now = clock]]
    /\ UNCHANGED <<clock, item, claim, outcome, lock, events>>

-----------------------------------------------------------------------------
(* claimWorkItem *)

ReadItem(p) ==
    /\ At(p, "readItem")
    /\ \/ item = "done" /\ Rollback(p)
       \/ /\ item = "open"
          /\ Continue(p, [tx[p] EXCEPT !.todo = Rest(p), !.now = clock])
          /\ Reads

\* getAnyClaimRowByWorkItem: a lapsed row is expired first, the actor's own
\* live claim is renewed instead, another actor's is a conflict.
Claimant(p) == IF tx[p].op = "accept" THEN To[tx[p].h] ELSE tx[p].actor

ReadClaim(p) ==
    /\ At(p, "readClaim")
    /\ LET row == Row(p)
           next(todo) == Continue(p, [tx[p] EXCEPT !.todo = todo]) /\ Reads
           afterUpsert == Tail(Rest(p))
       IN  \/ ~Active(row) /\ next(Rest(p))
           \/ Lapsed(row, tx[p].now) /\ next(<<"expire">> \o Rest(p))
           \/ /\ Live(row, tx[p].now) /\ row.actor = Claimant(p)
              /\ next(<<"checkRenew", "extend">> \o afterUpsert)
           \/ Live(row, tx[p].now) /\ row.actor # Claimant(p) /\ Rollback(p)

\* expireClaimRecord: the UPDATE is guarded by status and expires_at; an event
\* only when it matched.
Expire(p) ==
    /\ At(p, "expire") /\ Available(p, "claim")
    /\ \/ /\ Lapsed(Row(p), tx[p].now)
          /\ Continue(p, [tx[p] EXCEPT !.todo = <<"log">> \o Rest(p),
                                       !.claim = [Row(p) EXCEPT !.status = "expired"],
                                       !.expired = @ \cup {"claim"}])
          /\ Take(p, "claim") /\ Writes
       \/ /\ ~Lapsed(Row(p), tx[p].now)
          /\ Continue(p, [tx[p] EXCEPT !.todo = Rest(p)])
          /\ Reads

NewClaim(p) ==
    [actor |-> Claimant(p), status |-> "active", expires |-> tx[p].now + LeaseLength,
     lease |-> IF claim = NoRow THEN 1 ELSE claim.lease + 1]

\* the upsert overwrites whatever is there
Upsert_bug(p) ==
    /\ At(p, "upsert") /\ Available(p, "claim")
    /\ Continue(p, [tx[p] EXCEPT !.todo = Rest(p), !.claim = NewClaim(p)])
    /\ Take(p, "claim") /\ Writes

\* INSERT .. ON CONFLICT (work_item_id) DO UPDATE .. WHERE status <> 'active' OR
\* expires_at <= EXCLUDED.claimed_at: no row affected is a conflict.
Upsert(p) ==
    /\ At(p, "upsert") /\ Available(p, "claim")
    /\ \/ /\ ~Live(Row(p), tx[p].now)
          /\ Continue(p, [tx[p] EXCEPT !.todo = Rest(p), !.claim = NewClaim(p)])
          /\ Take(p, "claim") /\ Writes
       \/ Live(Row(p), tx[p].now) /\ Rollback(p)

-----------------------------------------------------------------------------
(* renewWorkClaim and releaseWorkClaim: a SELECT with all the checks, then an *)
(* UPDATE .. WHERE id = $1 that repeats none of them.                         *)

CheckRenew(p) ==
    /\ At(p, "checkRenew")
    /\ LET row == Row(p)
           afterExtend == Tail(Rest(p))
       IN  IF ~Active(row) \/ row.actor # Claimant(p) THEN Rollback(p)
           ELSE /\ Continue(p, [tx[p] EXCEPT
                     !.todo = IF Lapsed(row, clock) THEN <<"expire">> \o afterExtend ELSE Rest(p),
                     !.now = clock,
                     !.seen = row.expires])
                /\ Reads

Extend(p) ==
    /\ At(p, "extend") /\ Available(p, "claim")
    /\ Continue(p, [tx[p] EXCEPT !.todo = Rest(p),
                                 !.claim = [Row(p) EXCEPT !.expires = tx[p].seen + LeaseLength]])
    /\ Take(p, "claim") /\ Writes

CheckRelease(p) ==
    /\ At(p, "checkRelease")
    /\ LET row == Row(p)
       IN  IF ~Active(row) \/ row.actor # Releasing(p) THEN Rollback(p)
           ELSE Continue(p, [tx[p] EXCEPT !.todo = Rest(p)]) /\ Reads

\* the row is written without its lock
Release(p) ==
    /\ At(p, "release") /\ Available(p, "claim")
    /\ Continue(p, [tx[p] EXCEPT !.todo = Rest(p),
                                 !.claim = [Row(p) EXCEPT !.status = "released"]])
    /\ Take(p, "claim") /\ Writes

-----------------------------------------------------------------------------
(* acceptHandoff, rejectHandoff, cancelHandoff *)

\* The SELECT and its checks; now() is read after it.
ReadHandoff(p) ==
    /\ At(p, "readHandoff")
    /\ LET h == tx[p].h
           party == IF tx[p].op = "cancel" THEN From[h] ELSE To[h]
       IN  IF tx[p].actor # party \/ outcome[h] # "pending" THEN Rollback(p)
           ELSE /\ Continue(p, [tx[p] EXCEPT
                     !.todo = IF Deadline[h] <= clock THEN <<"expireHandoff", "commit">> ELSE Rest(p),
                     !.now = clock])
                /\ Reads

\* getActiveWorkClaim: another holder than the offering actor is a conflict, and
\* the offering actor's claim is released.
ReadOwner(p) ==
    /\ At(p, "readOwner")
    /\ LET next(todo) == Continue(p, [tx[p] EXCEPT !.todo = todo]) /\ Reads
       IN  \/ ~Live(claim, clock) /\ next(Rest(p))
           \/ /\ Live(claim, clock) /\ claim.actor = From[tx[p].h]
              /\ next(<<"checkRelease", "release", "log">> \o Rest(p))
           \/ Live(claim, clock) /\ claim.actor # From[tx[p].h] /\ Rollback(p)

\* UPDATE handoff_records SET status = .. WHERE id = $1, whatever the status is.
Decide(p) ==
    /\ At(p, "decide") /\ Available(p, tx[p].h)
    /\ Continue(p, [tx[p] EXCEPT !.todo = Rest(p), !.outcome = Decision[tx[p].op]])
    /\ Take(p, tx[p].h) /\ Writes

\* the expiry is written and logged whatever the status is
ExpireHandoff_bug(p) ==
    /\ At(p, "expireHandoff") /\ Available(p, tx[p].h)
    /\ Continue(p, [tx[p] EXCEPT !.todo = Rest(p), !.outcome = "expired",
                                 !.expired = @ \cup {"handoff"}])
    /\ Take(p, tx[p].h) /\ Writes

\* expireHandoffRecord: guarded by status 'pending', like expireClaimRecord.
ExpireHandoff(p) ==
    /\ At(p, "expireHandoff") /\ Available(p, tx[p].h)
    /\ \/ /\ outcome[tx[p].h] = "pending"
          /\ Continue(p, [tx[p] EXCEPT !.todo = Rest(p), !.outcome = "expired",
                                       !.expired = @ \cup {"handoff"}])
          /\ Take(p, tx[p].h) /\ Writes
       \/ /\ outcome[tx[p].h] # "pending"
          /\ Continue(p, [tx[p] EXCEPT !.todo = Rest(p)])
          /\ Reads

-----------------------------------------------------------------------------
(* The reapers: SELECT .. FOR UPDATE SKIP LOCKED, then the guarded UPDATE. *)

LockStaleClaims(p) ==
    /\ At(p, "lockStaleClaims")
    /\ IF Lapsed(claim, tx[p].now) /\ lock["claim"] = Free
       THEN /\ Continue(p, [tx[p] EXCEPT !.todo = <<"expire">> \o Rest(p)])
            /\ Take(p, "claim") /\ Writes
       ELSE Rollback(p)

LockStaleHandoff(p) ==
    /\ At(p, "lockStaleHandoff")
    /\ IF /\ outcome[tx[p].h] = "pending" /\ Deadline[tx[p].h] <= tx[p].now
          /\ lock[tx[p].h] = Free
       THEN /\ Continue(p, [tx[p] EXCEPT !.todo = <<"expireHandoff">> \o Rest(p)])
            /\ Take(p, tx[p].h) /\ Writes
       ELSE Rollback(p)

-----------------------------------------------------------------------------
\* insertMemoryEventInternal: the event row and the watermark.
Log(p) ==
    /\ At(p, "log") /\ Available(p, "watermark")
    /\ Continue(p, [tx[p] EXCEPT !.todo = Rest(p)])
    /\ Take(p, "watermark") /\ Writes

Wrote(p) == tx[p].claim # NoRow \/ tx[p].outcome # "pending"

\* a connection that goes back to the pool without its COMMIT keeps its locks
Commit_bug(p) ==
    /\ At(p, "commit") /\ (Wrote(p) => Available(p, "watermark"))
    /\ tx' = [tx EXCEPT ![p] = Idle]
    /\ UNCHANGED <<clock, item, claim, outcome, lock, started, events>>

\* The last event of the operation, if it wrote anything, then COMMIT.
Commit(p) ==
    /\ At(p, "commit") /\ (Wrote(p) => Available(p, "watermark"))
    /\ claim' = Row(p)
    /\ outcome' = IF tx[p].outcome = "pending" THEN outcome
                  ELSE [outcome EXCEPT ![tx[p].h] = tx[p].outcome]
    /\ claimExpiries' = IF "claim" \in tx[p].expired
                        THEN [claimExpiries EXCEPT ![claim.lease] = @ + 1] ELSE claimExpiries
    /\ handoffExpiries' = IF "handoff" \in tx[p].expired
                          THEN [handoffExpiries EXCEPT ![tx[p].h] = @ + 1] ELSE handoffExpiries
    /\ lock' = Unlocked(p)
    /\ tx' = [tx EXCEPT ![p] = Idle]
    /\ UNCHANGED <<clock, item, started>>

\* The lock the next statement of p waits for.
Needs(p) ==
    IF tx[p].todo = <<>> THEN {}
    ELSE CASE Head(tx[p].todo) \in {"expire", "upsert", "extend", "release"} -> {"claim"}
           [] Head(tx[p].todo) \in {"decide", "expireHandoff"}               -> {tx[p].h}
           [] Head(tx[p].todo) = "log"                                       -> {"watermark"}
           [] Head(tx[p].todo) = "commit" /\ Wrote(p)                        -> {"watermark"}
           [] OTHER                                                          -> {}

Waits(p, q) == p # q /\ \E r \in Needs(p) : lock[r] = q

Deadlocked(p) == \E q \in Process : /\ Waits(p, q)
                                    /\ \/ Waits(q, p)
                                       \/ \E r \in Process : Waits(q, r) /\ Waits(r, p)

\* Postgres aborts one transaction of a circle of waits.
DeadlockVictim(p) == Deadlocked(p) /\ Rollback(p)

Statement(p) ==
    \/ ReadItem(p) \/ ReadClaim(p) \/ Expire(p) \/ Upsert(p)
    \/ CheckRenew(p) \/ Extend(p) \/ CheckRelease(p) \/ Release(p)
    \/ ReadHandoff(p) \/ ReadOwner(p) \/ Decide(p) \/ ExpireHandoff(p)
    \/ LockStaleClaims(p) \/ LockStaleHandoff(p)
    \/ Log(p) \/ Commit(p) \/ DeadlockVictim(p)

Next ==
    \/ Tick
    \/ FinishItem
    \/ \E p \in Process, op \in Operations, a \in Actor, h \in HandoffId : Begin(p, op, a, h)
    \/ \E p \in Process : Statement(p)

Spec == Init /\ [][Next]_vars

\* A started operation goes on: its statements run, locks are handed out in
\* turn, and the deadlock detector runs.
FairSpec == Spec /\ \A p \in Process : WF_vars(Statement(p))

-----------------------------------------------------------------------------
(* Properties *)

Committed(p) == At(p, "commit") /\ tx'[p].todo = <<>> /\ claim' = Row(p)

\* claimWorkItem never takes an item from another actor whose lease is live when
\* it commits, however its statements interleave with other transactions.
ClaimNeverSteals ==
    [][\A p \in Process :
          Committed(p) /\ tx[p].op = "claim" /\ claim' # claim /\ Live(claim, clock)
            => claim'.actor = claim.actor]_vars

\* A lease that lapses is recorded as expired at most once, and so is a handoff,
\* whichever of a claim, a renewal, a decision and any number of reapers meet it.
OneExpiryEach ==
    /\ \A l \in 1..MaxOps : claimExpiries[l] <= 1
    /\ \A h \in HandoffId : handoffExpiries[h] <= 1

\* Every circle of waits runs through acceptHandoff: the other operations all
\* take their row before the watermark.
DeadlockNeedsAccept ==
    \A p \in Process : Deadlocked(p) => \E q \in Process : tx[q].op = "accept"

\* Every started operation returns.
AllReturn == \A p \in Process : tx[p].todo # <<>> ~> tx[p].todo = <<>>

\* "Claim .. is owned by another actor": an actor's live lease is ended only by
\* that actor or by a handoff it offered, and its deadline moved only by that
\* actor's own renewal.
OwnersActOnly ==
    [][\A p \in Process :
          Committed(p) =>
            /\ Live(claim, clock) /\ claim'.status # "active" => Releasing(p) = claim.actor
            /\ tx[p].op = "renew" /\ claim'.expires # claim.expires => tx[p].actor = claim.actor]_vars
=============================================================================
