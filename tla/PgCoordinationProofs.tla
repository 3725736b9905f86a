------------------------ MODULE PgCoordinationProofs ------------------------
(***************************************************************************)
(* Proofs about PgCoordination, for every number of connections, actors,    *)
(* handoffs and operations, and every interleaving of their statements.     *)
(***************************************************************************)
EXTENDS PgCoordination, FiniteSetTheorems, SequenceTheorems, TLAPS

USE ConstantsAssumption, NoRowAssumption

-----------------------------------------------------------------------------
(* What an operation still has to run. *)

Statements ==
    {"readItem", "readClaim", "upsert", "expire", "log", "checkRenew", "extend", "checkRelease",
     "release", "readHandoff", "readOwner", "decide", "expireHandoff", "lockStaleClaims",
     "lockStaleHandoff", "commit"}

Do(statement, todo) == <<statement>> \o todo

Commits  == Do("commit", <<>>)
Deciding == Do("decide", Commits)

\* What follows the claim an operation makes, and the claim itself.
End(op)       == IF op = "accept" THEN Do("log", Deciding) ELSE Commits
Upserting(op) == Do("upsert", End(op))
Claims(op)    == Do("readItem", Do("readClaim", Upserting(op)))
Extending(op) == Do("extend", End(op))

\* What follows a release: the claim of the offered actor, in an acceptance.
Released(op)  == IF op = "accept" THEN Do("log", Claims(op)) ELSE Commits
Releases(op)  == Do("release", Released(op))

Claimers  == {"claim", "accept"}
Renewers  == {"claim", "accept", "renew"}
Expirers  == Renewers \cup {"reapClaims"}
Releasers == {"release", "accept"}
Deciders  == {"accept", "reject", "cancel"}

Plan(op, s) ==
    /\ s \in Seq(Statements) /\ s # <<>> /\ op \in AllOperations
    /\ Head(s) = "readItem"     => op \in Claimers /\ s = Claims(op)
    /\ Head(s) = "readClaim"    => op \in Claimers /\ s = Do("readClaim", Upserting(op))
    /\ Head(s) = "upsert"       => op \in Claimers /\ s = Upserting(op)
    /\ Head(s) = "expire"       => \/ op \in Claimers /\ s = Do("expire", Upserting(op))
                                   \/ op \in Expirers /\ s = Do("expire", End(op))
    /\ Head(s) = "log"          => \/ op \in Claimers /\ s = Do("log", Upserting(op))
                                   \/ op \in Expirers /\ s = Do("log", End(op))
                                   \/ op = "accept" /\ s \in {End(op), Released(op)}
    /\ Head(s) = "checkRenew"   => op \in Renewers /\ s = Do("checkRenew", Extending(op))
    /\ Head(s) = "extend"       => op \in Renewers /\ s = Extending(op)
    /\ Head(s) = "checkRelease" => op \in Releasers /\ s = Do("checkRelease", Releases(op))
    /\ Head(s) = "release"      => op \in Releasers /\ s = Releases(op)
    /\ Head(s) = "readHandoff"  =>
         \/ op = "accept" /\ s = Do("readHandoff", Do("readOwner", Claims(op)))
         \/ op \in {"reject", "cancel"} /\ s = Do("readHandoff", Deciding)
    /\ Head(s) = "readOwner"    => op = "accept" /\ s = Do("readOwner", Claims(op))
    /\ Head(s) = "decide"       => op \in Deciders /\ s = Deciding
    /\ Head(s) = "expireHandoff" =>
         op \in Deciders \cup {"reapHandoffs"} /\ s = Do("expireHandoff", Commits)
    /\ Head(s) = "lockStaleClaims"  => op = "reapClaims" /\ s = Do("lockStaleClaims", Commits)
    /\ Head(s) = "lockStaleHandoff" => op = "reapHandoffs" /\ s = Do("lockStaleHandoff", Commits)
    /\ Head(s) = "commit" => s = Commits

\* The statements before the one that writes a new lease or extends one.
Before(op, s) ==
    \/ Head(s) \in {"readItem", "readClaim", "upsert", "expire", "checkRenew", "extend",
                    "checkRelease", "release", "readHandoff", "readOwner"}
    \/ s \in {Do("log", Upserting(op)), Do("log", Claims(op))}

Tx == [op : AllOperations \cup {"none"}, actor : Actor \cup {NoRow}, h : HandoffId \cup {NoRow},
       todo : Seq(Statements), now : Nat, seen : Nat, claim : ClaimRow \cup {NoRow},
       outcome : Outcome, expired : SUBSET {"claim", "handoff"}]

TxOK(t) ==
    /\ t \in Tx
    /\ t.todo = <<>> => t = Idle
    /\ t.todo # <<>> => Plan(t.op, t.todo) /\ t.actor \in Actor /\ t.h \in HandoffId

Running == {p \in Process : tx[p].todo # <<>>}

TypeOK ==
    /\ clock \in Nat
    /\ item \in {"open", "done"}
    /\ claim \in ClaimRow \cup {NoRow}
    /\ outcome \in [HandoffId -> Outcome]
    /\ lock \in [Resource -> Process \cup {Free}]
    /\ started \in 0..MaxOps
    /\ claimExpiries \in [1..MaxOps -> Nat]
    /\ handoffExpiries \in [HandoffId -> Nat]
    /\ tx \in [Process -> Tx] /\ \A p \in Process : TxOK(tx[p])

-----------------------------------------------------------------------------
(* The inductive invariant. *)

\* Each lease of the row was taken by an operation of its own.
LeasesCounted ==
    /\ IsFiniteSet(Running)
    /\ (IF claim = NoRow THEN 0 ELSE claim.lease) + Cardinality(Running) <= started

\* A lease that is active, and one that is yet to come, has not been recorded as expired.
Unrecorded ==
    /\ Active(claim) => claimExpiries[claim.lease] = 0
    /\ \A l \in 1..MaxOps : claim = NoRow \/ l > claim.lease => claimExpiries[l] = 0
    /\ \A h \in HandoffId : outcome[h] = "pending" => handoffExpiries[h] = 0

\* What an operation has written it holds the lock of, and it knows the committed row.
Held(p) ==
    /\ \A r \in Resource : lock[r] = p => tx[p].todo # <<>>
    /\ tx[p].claim # NoRow => lock["claim"] = p
    /\ tx[p].outcome # "pending" => lock[tx[p].h] = p

\* The uncommitted row is the next version of the committed one, or its next lease.
NextVersion(p) ==
    /\ tx[p].now <= clock
    /\ tx[p].claim # NoRow /\ claim = NoRow => tx[p].claim.lease = 1
    /\ tx[p].claim # NoRow /\ claim # NoRow =>
         /\ tx[p].claim.lease \in {claim.lease, claim.lease + 1}
         /\ tx[p].claim.lease = claim.lease /\ Active(tx[p].claim) => Active(claim)
    /\ tx[p].todo # <<>> /\ Head(tx[p].todo) \in {"extend", "release"} => claim # NoRow
    /\ tx[p].todo # <<>> /\ tx[p].claim # NoRow /\ Before(tx[p].op, tx[p].todo) =>
         ~Active(tx[p].claim) /\ claim # NoRow /\ tx[p].claim.lease = claim.lease

\* An expiry is recorded of a lease that is active and of a handoff that is pending.
Expiring(p) ==
    /\ "claim" \in tx[p].expired =>
         /\ Active(claim) /\ tx[p].claim # NoRow
         /\ tx[p].claim.lease = claim.lease => ~Active(tx[p].claim)
    /\ "handoff" \in tx[p].expired => tx[p].outcome # "pending" /\ outcome[tx[p].h] = "pending"

\* claimWorkItem writes over its own live lease, or over none.
OwnOrLapsed(p) ==
    tx[p].op = "claim" /\ tx[p].claim # NoRow /\ Live(claim, clock) =>
        /\ tx[p].claim.actor = claim.actor
        /\ ~Before(tx[p].op, tx[p].todo)

\* All but acceptHandoff take one row, and the watermark after it.
RowFirst(p) ==
    tx[p].op # "accept" =>
        /\ lock["claim"] = p => tx[p].op \in {"claim", "renew", "release", "reapClaims"}
        /\ \A h \in HandoffId : lock[h] = p => /\ h = tx[p].h
                                               /\ tx[p].op \in {"reject", "cancel", "reapHandoffs"}
        /\ tx[p].todo # <<>> /\ Head(tx[p].todo) = "log" => lock["claim"] = p
        /\ lock["watermark"] = p =>
             lock["claim"] = p /\ tx[p].todo \in {Upserting(tx[p].op), Commits}

Local(p) == Held(p) /\ NextVersion(p) /\ Expiring(p) /\ OwnOrLapsed(p) /\ RowFirst(p)

IInv == TypeOK /\ LeasesCounted /\ Unrecorded /\ OneExpiryEach /\ \A p \in Process : Local(p)

-----------------------------------------------------------------------------
(* Lemmas about plans. *)

LEMMA DoIs ==
    ASSUME NEW x \in Statements, NEW s \in Seq(Statements)
    PROVE  /\ Do(x, s) \in Seq(Statements) /\ Do(x, s) # <<>>
           /\ Head(Do(x, s)) = x /\ Tail(Do(x, s)) = s
<1>1. <<x>> \in Seq(Statements) /\ Len(<<x>>) = 1
  OBVIOUS
<1>2. /\ Do(x, s) \in Seq(Statements) /\ Len(Do(x, s)) = 1 + Len(s)
      /\ Do(x, s)[1] = x /\ \A i \in 1..Len(s) : Do(x, s)[i + 1] = s[i]
  BY <1>1 DEF Do
<1>3. Tail(Do(x, s)) \in Seq(Statements) /\ Len(Tail(Do(x, s))) = Len(s)
      /\ \A i \in 1..Len(s) : Tail(Do(x, s))[i] = s[i]
  BY <1>2
<1>4. Tail(Do(x, s)) = s
  BY <1>3, SeqEqual
<1> QED
  BY <1>2, <1>4

LEMMA Concatenates ==
    ASSUME NEW x \in Statements, NEW y \in Statements, NEW s \in Seq(Statements)
    PROVE  <<x, y>> \o s = Do(x, Do(y, s))
<1>1. <<x, y>> = <<x>> \o <<y>>
  <2>1. <<x, y>> \in Seq(Statements) /\ <<x>> \o <<y>> \in Seq(Statements)
    OBVIOUS
  <2>2. Len(<<x>> \o <<y>>) = 2
    OBVIOUS
  <2>3. \A i \in 1..2 : (<<x>> \o <<y>>)[i] = <<x, y>>[i]
    OBVIOUS
  <2> QED
    BY <2>1, <2>2, <2>3, SeqEqual
<1> QED
  BY <1>1 DEF Do

LEMMA ConcatenatesThree ==
    ASSUME NEW x \in Statements, NEW y \in Statements, NEW z \in Statements, NEW s \in Seq(Statements)
    PROVE  <<x, y, z>> \o s = Do(x, Do(y, Do(z, s)))
<1>1. <<x, y, z>> = <<x>> \o <<y, z>>
  <2>1. <<x, y, z>> \in Seq(Statements) /\ <<x>> \o <<y, z>> \in Seq(Statements)
    OBVIOUS
  <2>2. Len(<<x>> \o <<y, z>>) = 3
    OBVIOUS
  <2>3. \A i \in 1..3 : (<<x>> \o <<y, z>>)[i] = <<x, y, z>>[i]
    OBVIOUS
  <2> QED
    BY <2>1, <2>2, <2>3, SeqEqual
<1>2. <<y, z>> \o s = Do(y, Do(z, s))
  BY Concatenates
<1> QED
  BY <1>1, <1>2 DEF Do

\* The plans are sequences, and their heads tell them apart.
LEMMA PlanSeqs ==
    ASSUME NEW op
    PROVE  /\ Commits \in Seq(Statements) /\ Deciding \in Seq(Statements) /\ End(op) \in Seq(Statements)
           /\ Upserting(op) \in Seq(Statements) /\ Claims(op) \in Seq(Statements)
           /\ Do("readClaim", Upserting(op)) \in Seq(Statements)
           /\ Extending(op) \in Seq(Statements) /\ Released(op) \in Seq(Statements)
           /\ Releases(op) \in Seq(Statements)
<1>1. <<>> \in Seq(Statements)
  OBVIOUS
<1>2. Commits \in Seq(Statements)
  BY <1>1, DoIs DEF Statements, Commits
<1>3. Deciding \in Seq(Statements)
  BY <1>2, DoIs DEF Statements, Deciding
<1>4. End(op) \in Seq(Statements)
  BY <1>2, <1>3, DoIs DEF Statements, End
<1>5. Upserting(op) \in Seq(Statements) /\ Extending(op) \in Seq(Statements)
  BY <1>4, DoIs DEF Statements, Upserting, Extending
<1>6. Do("readClaim", Upserting(op)) \in Seq(Statements)
  BY <1>5, DoIs DEF Statements
<1>7. Claims(op) \in Seq(Statements)
  BY <1>6, DoIs DEF Statements, Claims
<1>8. Released(op) \in Seq(Statements)
  BY <1>2, <1>7, DoIs DEF Statements, Released
<1>9. Releases(op) \in Seq(Statements)
  BY <1>8, DoIs DEF Statements, Releases
<1> QED
  BY <1>2, <1>3, <1>4, <1>5, <1>6, <1>7, <1>8, <1>9

LEMMA PlanHeads ==
    ASSUME NEW op
    PROVE  /\ Commits # <<>> /\ Head(Commits) = "commit" /\ Tail(Commits) = <<>>
           /\ Deciding # <<>> /\ Head(Deciding) = "decide" /\ Tail(Deciding) = Commits
           /\ End(op) # <<>>
           /\ op # "accept" => End(op) = Commits
           /\ op = "accept" => Head(End(op)) = "log" /\ Tail(End(op)) = Deciding
           /\ Upserting(op) # <<>> /\ Head(Upserting(op)) = "upsert" /\ Tail(Upserting(op)) = End(op)
           /\ Extending(op) # <<>> /\ Head(Extending(op)) = "extend" /\ Tail(Extending(op)) = End(op)
           /\ Claims(op) # <<>> /\ Head(Claims(op)) = "readItem"
           /\ Tail(Claims(op)) = Do("readClaim", Upserting(op))
           /\ Released(op) # <<>>
           /\ op # "accept" => Released(op) = Commits
           /\ op = "accept" => /\ Released(op) = Do("log", Claims(op))
                               /\ Head(Released(op)) = "log" /\ Tail(Released(op)) = Claims(op)
           /\ Releases(op) # <<>> /\ Head(Releases(op)) = "release" /\ Tail(Releases(op)) = Released(op)
<1>1. Commits # <<>> /\ Head(Commits) = "commit" /\ Tail(Commits) = <<>>
  <2>1. <<>> \in Seq(Statements)
    OBVIOUS
  <2> QED
    BY <2>1, DoIs DEF Statements, Commits
<1>2. Deciding # <<>> /\ Head(Deciding) = "decide" /\ Tail(Deciding) = Commits
  BY PlanSeqs, DoIs DEF Statements, Deciding
<1>3. /\ End(op) # <<>>
      /\ op # "accept" => End(op) = Commits
      /\ op = "accept" => Head(End(op)) = "log" /\ Tail(End(op)) = Deciding
  <2>1. "log" \in Statements /\ Deciding \in Seq(Statements)
    BY PlanSeqs DEF Statements
  <2>2. op = "accept" => End(op) = Do("log", Deciding)
    BY DEF End
  <2>3. op # "accept" => End(op) = Commits
    BY DEF End
  <2>4. /\ Do("log", Deciding) # <<>> /\ Head(Do("log", Deciding)) = "log"
        /\ Tail(Do("log", Deciding)) = Deciding
    BY <2>1, DoIs
  <2> QED
    BY <1>1, <2>2, <2>3, <2>4
<1>4. Upserting(op) # <<>> /\ Head(Upserting(op)) = "upsert" /\ Tail(Upserting(op)) = End(op)
  <2>1. "upsert" \in Statements /\ End(op) \in Seq(Statements)
    BY PlanSeqs DEF Statements
  <2> QED
    BY <2>1, DoIs DEF Upserting
<1>5. Extending(op) # <<>> /\ Head(Extending(op)) = "extend" /\ Tail(Extending(op)) = End(op)
  <2>1. "extend" \in Statements /\ End(op) \in Seq(Statements)
    BY PlanSeqs DEF Statements
  <2> QED
    BY <2>1, DoIs DEF Extending
<1>6. /\ Claims(op) # <<>> /\ Head(Claims(op)) = "readItem"
      /\ Tail(Claims(op)) = Do("readClaim", Upserting(op))
  <2>1. "readItem" \in Statements /\ Do("readClaim", Upserting(op)) \in Seq(Statements)
    BY PlanSeqs DEF Statements
  <2> QED
    BY <2>1, DoIs DEF Claims
<1>7. /\ Released(op) # <<>>
      /\ op # "accept" => Released(op) = Commits
      /\ op = "accept" => /\ Released(op) = Do("log", Claims(op))
                          /\ Head(Released(op)) = "log" /\ Tail(Released(op)) = Claims(op)
  BY <1>1, PlanSeqs, DoIs DEF Statements, Released
<1>8. Releases(op) # <<>> /\ Head(Releases(op)) = "release" /\ Tail(Releases(op)) = Released(op)
  <2>1. "release" \in Statements /\ Released(op) \in Seq(Statements)
    BY PlanSeqs DEF Statements
  <2> QED
    BY <2>1, DoIs DEF Releases
<1> QED
  BY <1>1, <1>2, <1>3, <1>4, <1>5, <1>6, <1>7, <1>8
LEMMA DoHeads ==
    ASSUME NEW op
    PROVE  /\ Head(Do("readClaim", Upserting(op))) = "readClaim" /\ Tail(Do("readClaim", Upserting(op))) = Upserting(op)
           /\ Head(Do("expire", Upserting(op))) = "expire" /\ Tail(Do("expire", Upserting(op))) = Upserting(op)
           /\ Head(Do("log", Upserting(op))) = "log" /\ Tail(Do("log", Upserting(op))) = Upserting(op)
           /\ Head(Do("expire", End(op))) = "expire" /\ Tail(Do("expire", End(op))) = End(op)
           /\ Head(Do("log", End(op))) = "log" /\ Tail(Do("log", End(op))) = End(op)
           /\ Head(Do("checkRenew", Extending(op))) = "checkRenew" /\ Tail(Do("checkRenew", Extending(op))) = Extending(op)
           /\ Head(Do("checkRelease", Releases(op))) = "checkRelease" /\ Tail(Do("checkRelease", Releases(op))) = Releases(op)
           /\ Head(Do("readOwner", Claims(op))) = "readOwner" /\ Tail(Do("readOwner", Claims(op))) = Claims(op)
           /\ Head(Do("readHandoff", Do("readOwner", Claims(op)))) = "readHandoff" /\ Tail(Do("readHandoff", Do("readOwner", Claims(op)))) = Do("readOwner", Claims(op))
           /\ Head(Do("readHandoff", Deciding)) = "readHandoff" /\ Tail(Do("readHandoff", Deciding)) = Deciding
           /\ Head(Do("expireHandoff", Commits)) = "expireHandoff" /\ Tail(Do("expireHandoff", Commits)) = Commits
           /\ Head(Do("lockStaleClaims", Commits)) = "lockStaleClaims" /\ Tail(Do("lockStaleClaims", Commits)) = Commits
           /\ Head(Do("lockStaleHandoff", Commits)) = "lockStaleHandoff" /\ Tail(Do("lockStaleHandoff", Commits)) = Commits
<1>1. ASSUME NEW s \in Seq(Statements), NEW x \in Statements
      PROVE  Head(Do(x, s)) = x /\ Tail(Do(x, s)) = s
  BY DoIs
<1>2. Do("readOwner", Claims(op)) \in Seq(Statements)
  BY PlanSeqs, DoIs DEF Statements
<1>3. /\ Head(Do("readClaim", Upserting(op))) = "readClaim" /\ Tail(Do("readClaim", Upserting(op))) = Upserting(op)
      /\ Head(Do("expire", Upserting(op))) = "expire" /\ Tail(Do("expire", Upserting(op))) = Upserting(op)
      /\ Head(Do("log", Upserting(op))) = "log" /\ Tail(Do("log", Upserting(op))) = Upserting(op)
  BY <1>1, <1>2, PlanSeqs DEF Statements
<1>4. /\ Head(Do("expire", End(op))) = "expire" /\ Tail(Do("expire", End(op))) = End(op)
      /\ Head(Do("log", End(op))) = "log" /\ Tail(Do("log", End(op))) = End(op)
  BY <1>1, <1>2, PlanSeqs DEF Statements
<1>5. /\ Head(Do("checkRenew", Extending(op))) = "checkRenew" /\ Tail(Do("checkRenew", Extending(op))) = Extending(op)
      /\ Head(Do("checkRelease", Releases(op))) = "checkRelease" /\ Tail(Do("checkRelease", Releases(op))) = Releases(op)
      /\ Head(Do("readOwner", Claims(op))) = "readOwner" /\ Tail(Do("readOwner", Claims(op))) = Claims(op)
  BY <1>1, <1>2, PlanSeqs DEF Statements
<1>6. /\ Head(Do("readHandoff", Do("readOwner", Claims(op)))) = "readHandoff" /\ Tail(Do("readHandoff", Do("readOwner", Claims(op)))) = Do("readOwner", Claims(op))
      /\ Head(Do("readHandoff", Deciding)) = "readHandoff" /\ Tail(Do("readHandoff", Deciding)) = Deciding
  BY <1>1, <1>2, PlanSeqs DEF Statements
<1>7. /\ Head(Do("expireHandoff", Commits)) = "expireHandoff" /\ Tail(Do("expireHandoff", Commits)) = Commits
      /\ Head(Do("lockStaleClaims", Commits)) = "lockStaleClaims" /\ Tail(Do("lockStaleClaims", Commits)) = Commits
      /\ Head(Do("lockStaleHandoff", Commits)) = "lockStaleHandoff" /\ Tail(Do("lockStaleHandoff", Commits)) = Commits
  BY <1>1, <1>2, PlanSeqs DEF Statements
<1> QED
  BY <1>3, <1>4, <1>5, <1>6, <1>7

\* Which plans an operation may follow.
LEMMA ClaimPlans ==
    ASSUME NEW op \in Claimers
    PROVE  /\ Plan(op, Claims(op)) /\ Plan(op, Do("readClaim", Upserting(op)))
           /\ Plan(op, Upserting(op))
           /\ Plan(op, Do("expire", Upserting(op))) /\ Plan(op, Do("log", Upserting(op)))
<1>0. /\ {"readItem", "readClaim", "upsert", "expire", "log"} \subseteq Statements
      /\ op \in AllOperations
  BY DEF Statements, Claimers, AllOperations
<1>1. Plan(op, Claims(op))
  BY <1>0, PlanSeqs, PlanHeads DEF Plan
<1>2. Plan(op, Upserting(op))
  BY <1>0, PlanSeqs, PlanHeads DEF Plan
<1>3. ASSUME NEW st \in {"readClaim", "expire", "log"} PROVE Plan(op, Do(st, Upserting(op)))
  <2>1. Upserting(op) \in Seq(Statements) /\ st \in Statements
    BY <1>0, PlanSeqs
  <2>2. /\ Do(st, Upserting(op)) \in Seq(Statements) /\ Do(st, Upserting(op)) # <<>>
        /\ Head(Do(st, Upserting(op))) = st
    BY <2>1, DoIs
  <2> QED
    BY <1>0, <2>2 DEF Plan
<1> QED
  BY <1>1, <1>2, <1>3

LEMMA EndPlans ==
    ASSUME NEW op \in AllOperations
    PROVE  /\ Plan(op, Commits) /\ Plan(op, End(op))
           /\ op \in Expirers => Plan(op, Do("expire", End(op))) /\ Plan(op, Do("log", End(op)))
           /\ op \in Renewers => Plan(op, Extending(op)) /\ Plan(op, Do("checkRenew", Extending(op)))
<1>0. {"expire", "log", "checkRenew"} \subseteq Statements
  BY DEF Statements
<1>1. Plan(op, Commits)
  BY PlanSeqs, PlanHeads DEF Plan
<1>2. Plan(op, End(op))
  <2>1. CASE op = "accept"
    <3>1. End(op) \in Seq(Statements) /\ End(op) # <<>> /\ Head(End(op)) = "log"
      BY <2>1, PlanSeqs, PlanHeads
    <3> QED
      BY <2>1, <3>1 DEF Plan
  <2>2. CASE op # "accept"
    <3>1. End(op) = Commits
      BY <2>2, PlanHeads
    <3> QED
      BY <1>1, <3>1
  <2> QED
    BY <2>1, <2>2
<1>3. ASSUME op \in Expirers, NEW st \in {"expire", "log"} PROVE Plan(op, Do(st, End(op)))
  <2>1. End(op) \in Seq(Statements) /\ st \in Statements
    BY <1>0, PlanSeqs
  <2>2. /\ Do(st, End(op)) \in Seq(Statements) /\ Do(st, End(op)) # <<>>
        /\ Head(Do(st, End(op))) = st
    BY <2>1, DoIs
  <2> QED
    BY <1>3, <2>2 DEF Plan
<1>4. op \in Renewers => Plan(op, Extending(op))
  BY PlanSeqs, PlanHeads DEF Plan
<1>5. op \in Renewers => Plan(op, Do("checkRenew", Extending(op)))
  <2>1. Extending(op) \in Seq(Statements) /\ "checkRenew" \in Statements
    BY <1>0, PlanSeqs
  <2>2. /\ Do("checkRenew", Extending(op)) \in Seq(Statements)
        /\ Do("checkRenew", Extending(op)) # <<>>
        /\ Head(Do("checkRenew", Extending(op))) = "checkRenew"
    BY <2>1, DoIs
  <2> QED
    BY <2>2 DEF Plan
<1> QED
  BY <1>1, <1>2, <1>3, <1>4, <1>5

LEMMA ReleasePlans ==
    ASSUME NEW op \in Releasers
    PROVE  /\ Plan(op, Releases(op)) /\ Plan(op, Do("checkRelease", Releases(op)))
           /\ Plan(op, Released(op))
<1>0. op \in AllOperations /\ "checkRelease" \in Statements
  BY DEF Statements, Releasers, AllOperations
<1>1. Plan(op, Releases(op))
  BY <1>0, PlanSeqs, PlanHeads DEF Plan
<1>2. Plan(op, Do("checkRelease", Releases(op)))
  <2>1. Releases(op) \in Seq(Statements)
    BY PlanSeqs
  <2>2. /\ Do("checkRelease", Releases(op)) \in Seq(Statements)
        /\ Do("checkRelease", Releases(op)) # <<>>
        /\ Head(Do("checkRelease", Releases(op))) = "checkRelease"
    BY <1>0, <2>1, DoIs
  <2> QED
    BY <1>0, <2>2 DEF Plan
<1>3. Plan(op, Released(op))
  <2>1. CASE op = "accept"
    <3>1. Released(op) \in Seq(Statements) /\ Released(op) # <<>> /\ Head(Released(op)) = "log"
      BY <2>1, PlanSeqs, PlanHeads
    <3> QED
      BY <1>0, <2>1, <3>1 DEF Plan
  <2>2. CASE op # "accept"
    <3>1. Released(op) = Commits
      BY <2>2, PlanHeads
    <3> QED
      BY <1>0, <3>1, EndPlans
  <2> QED
    BY <2>1, <2>2
<1> QED
  BY <1>1, <1>2, <1>3

LEMMA DecisionPlans ==
    ASSUME NEW op \in Deciders \cup {"reapHandoffs", "reapClaims"}
    PROVE  /\ op \in Deciders => Plan(op, Deciding)
           /\ op # "reapClaims" => Plan(op, Do("expireHandoff", Commits))
           /\ op \in {"reject", "cancel"} => Plan(op, Do("readHandoff", Deciding))
           /\ op = "accept" => /\ Plan(op, Do("readOwner", Claims(op)))
                               /\ Plan(op, Do("readHandoff", Do("readOwner", Claims(op))))
           /\ op = "reapClaims" => Plan(op, Do("lockStaleClaims", Commits))
           /\ op = "reapHandoffs" => Plan(op, Do("lockStaleHandoff", Commits))
<1>0. /\ {"expireHandoff", "readHandoff", "readOwner", "lockStaleClaims", "lockStaleHandoff"} \subseteq Statements
      /\ op \in AllOperations
  BY DEF Statements, Deciders, AllOperations
<1>1. op \in Deciders => Plan(op, Deciding)
  BY <1>0, PlanSeqs, PlanHeads DEF Plan
<1>2. ASSUME NEW st \in {"expireHandoff", "lockStaleClaims", "lockStaleHandoff"}
      PROVE  /\ Do(st, Commits) \in Seq(Statements) /\ Do(st, Commits) # <<>>
             /\ Head(Do(st, Commits)) = st
  BY <1>0, PlanSeqs, DoIs
<1>3. op # "reapClaims" => Plan(op, Do("expireHandoff", Commits))
  BY <1>0, <1>2 DEF Plan
<1>4. /\ op = "reapClaims" => Plan(op, Do("lockStaleClaims", Commits))
      /\ op = "reapHandoffs" => Plan(op, Do("lockStaleHandoff", Commits))
  BY <1>0, <1>2 DEF Plan
<1>5. /\ Do("readHandoff", Deciding) \in Seq(Statements) /\ Do("readHandoff", Deciding) # <<>>
      /\ Head(Do("readHandoff", Deciding)) = "readHandoff"
  BY <1>0, PlanSeqs, DoIs
<1>6. op \in {"reject", "cancel"} => Plan(op, Do("readHandoff", Deciding))
  BY <1>0, <1>5 DEF Plan
<1>7. /\ Do("readOwner", Claims(op)) \in Seq(Statements) /\ Do("readOwner", Claims(op)) # <<>>
      /\ Head(Do("readOwner", Claims(op))) = "readOwner"
  BY <1>0, PlanSeqs, DoIs
<1>8. op = "accept" => Plan(op, Do("readOwner", Claims(op)))
  BY <1>0, <1>7 DEF Plan
<1>9. /\ Do("readHandoff", Do("readOwner", Claims(op))) \in Seq(Statements)
      /\ Do("readHandoff", Do("readOwner", Claims(op))) # <<>>
      /\ Head(Do("readHandoff", Do("readOwner", Claims(op)))) = "readHandoff"
  BY <1>0, <1>7, DoIs
<1>10. op = "accept" => Plan(op, Do("readHandoff", Do("readOwner", Claims(op))))
  BY <1>0, <1>9 DEF Plan
<1> QED
  BY <1>1, <1>3, <1>4, <1>6, <1>8, <1>10
-----------------------------------------------------------------------------
(* What a statement does to its operation. *)

LEMMA AtPlan ==
    ASSUME TypeOK, NEW p \in Process, NEW statement, At(p, statement)
    PROVE  /\ tx[p] \in Tx /\ tx[p].todo # <<>> /\ Head(tx[p].todo) = statement
           /\ Plan(tx[p].op, tx[p].todo) /\ Rest(p) = Tail(tx[p].todo)
           /\ tx[p].actor \in Actor /\ tx[p].h \in HandoffId
BY DEF TypeOK, TxOK, At, Rest

LEMMA Continues ==
    ASSUME TypeOK, NEW p \in Process, NEW t, TxOK(t), Continue(p, t)
    PROVE  /\ tx' \in [Process -> Tx] /\ tx'[p] = t
           /\ \A q \in Process : q # p => tx'[q] = tx[q]
           /\ \A q \in Process : TxOK(tx'[q])
BY DEF TypeOK, Continue, TxOK

LEMMA IdleOK ==
    /\ TxOK(Idle) /\ Idle.todo = <<>> /\ Idle.claim = NoRow /\ Idle.outcome = "pending"
    /\ Idle.expired = {} /\ Idle.now = 0
BY DEF TxOK, Idle, Tx, Outcome

\* What the other operations know stays true when the committed rows stay as
\* they are and their locks are left to them.
LEMMA OthersKeep ==
    ASSUME TypeOK, NEW q \in Process, Local(q), tx'[q] = tx[q],
           UNCHANGED <<clock, claim, outcome>>,
           \A r \in Resource : lock'[r] = q <=> lock[r] = q
    PROVE  Local(q)'
<1>1. Held(q)'
  <2>1. tx[q].outcome # "pending" => tx[q].h \in Resource
    BY IdleOK DEF TypeOK, TxOK, Resource
  <2> QED
    BY <2>1 DEF Local, Held, Resource
<1>2. NextVersion(q)'
  BY DEF Local, NextVersion
<1>3. Expiring(q)'
  BY DEF Local, Expiring
<1>4. OwnOrLapsed(q)'
  BY DEF Local, OwnOrLapsed
<1>5. RowFirst(q)'
  BY DEF Local, RowFirst, Resource
<1> QED
  BY <1>1, <1>2, <1>3, <1>4, <1>5 DEF Local
\* A statement that is not the last one of its operation.
LEMMA Proceeds ==
    ASSUME IInv, NEW p \in Process, tx[p].todo # <<>>,
           NEW t, TxOK(t), t.todo # <<>>, Continue(p, t),
           UNCHANGED <<clock, item, claim, outcome, started, events>>,
           NEW r \in Resource, lock' = lock \/ (Available(p, r) /\ Take(p, r)),
           Local(p)'
    PROVE  IInv'
<1>1. TypeOK /\ tx' \in [Process -> Tx] /\ tx'[p] = t /\ \A q \in Process : TxOK(tx'[q])
  BY Continues DEF IInv
<1>2. \A q \in Process : q # p => tx'[q] = tx[q]
  BY Continues DEF IInv
<1>3. lock' \in [Resource -> Process \cup {Free}]
  BY <1>1 DEF TypeOK, Take
<1>4. TypeOK'
  BY <1>1, <1>3 DEF TypeOK, events
<1>5. Running' = Running
  BY <1>1, <1>2 DEF Running
<1>6. LeasesCounted'
  BY <1>5 DEF IInv, LeasesCounted
<1>7. Unrecorded' /\ OneExpiryEach'
  BY DEF IInv, Unrecorded, OneExpiryEach, events, Active
<1>8. ASSUME NEW q \in Process, q # p PROVE Local(q)'
  <2>1. \A x \in Resource : lock'[x] = q <=> lock[x] = q
    BY <1>1, <1>8 DEF TypeOK, Take, Available
  <2> QED
    BY <1>1, <1>2, <1>8, <2>1, OthersKeep DEF IInv
<1> QED
  BY <1>4, <1>6, <1>7, <1>8 DEF IInv

LEMMA LocalIdle ==
    ASSUME NEW p \in Process, tx'[p] = Idle, clock' \in Nat, \A r \in Resource : lock'[r] # p
    PROVE  Local(p)'
<1>1. {"claim", "watermark"} \cup HandoffId = Resource
  BY DEF Resource
<1>2. Held(p)'
  BY <1>1, IdleOK DEF Held
<1>3. NextVersion(p)'
  BY IdleOK DEF NextVersion
<1>4. Expiring(p)' /\ OwnOrLapsed(p)'
  BY IdleOK DEF Expiring, OwnOrLapsed
<1>5. RowFirst(p)'
  BY <1>1, IdleOK DEF RowFirst
<1> QED
  BY <1>2, <1>3, <1>4, <1>5 DEF Local

LEMMA Unlocks ==
    ASSUME TypeOK, NEW p \in Process
    PROVE  /\ Unlocked(p) \in [Resource -> Process \cup {Free}]
           /\ \A r \in Resource : Unlocked(p)[r] # p
           /\ \A r \in Resource, q \in Process : q # p => (Unlocked(p)[r] = q <=> lock[r] = q)
BY DEF TypeOK, Unlocked

\* An operation that ends is one less that may take a lease.
LEMMA Ends ==
    ASSUME TypeOK, LeasesCounted, NEW p \in Process, tx[p].todo # <<>>, tx' = [tx EXCEPT ![p] = Idle]
    PROVE  IsFiniteSet(Running') /\ Cardinality(Running') = Cardinality(Running) - 1
<1>1. Running' = Running \ {p} /\ p \in Running
  BY IdleOK DEF Running, TypeOK
<1> QED
  BY <1>1, FS_RemoveElement DEF LeasesCounted

LEMMA RollsBack ==
    ASSUME IInv, NEW p \in Process, tx[p].todo # <<>>, Rollback(p)
    PROVE  IInv'
<1>1. TypeOK /\ LeasesCounted
  BY DEF IInv
<1>2. /\ tx' \in [Process -> Tx] /\ tx'[p] = Idle /\ \A q \in Process : TxOK(tx'[q])
      /\ \A q \in Process : q # p => tx'[q] = tx[q]
  BY <1>1, IdleOK, Continues DEF Rollback, Continue
<1>3. TypeOK'
  BY <1>1, <1>2, Unlocks DEF TypeOK, Rollback, events
<1>4. LeasesCounted'
  <2>1. IsFiniteSet(Running') /\ Cardinality(Running') = Cardinality(Running) - 1
    BY <1>1, Ends DEF Rollback
  <2>2. Cardinality(Running) \in Nat
    BY <1>1, FS_CardinalityType DEF LeasesCounted
  <2> QED
    BY <1>1, <2>1, <2>2 DEF LeasesCounted, Rollback, TypeOK, ClaimRow
<1>5. Unrecorded' /\ OneExpiryEach'
  BY DEF IInv, Unrecorded, OneExpiryEach, events, Active, Rollback
<1>6. ASSUME NEW q \in Process PROVE Local(q)'
  <2>1. CASE q = p
    BY <1>1, <1>2, <2>1, Unlocks, LocalIdle DEF Rollback, TypeOK
  <2>2. CASE q # p
    <3>1. \A x \in Resource : lock'[x] = q <=> lock[x] = q
      BY <1>1, <2>2, Unlocks DEF Rollback
    <3> QED
      BY <1>1, <1>2, <2>2, <3>1, OthersKeep DEF IInv, Rollback
  <2> QED
    BY <2>1, <2>2
<1> QED
  BY <1>3, <1>4, <1>5, <1>6 DEF IInv
\* t is the operation of p with another plan, and a later reading of the clock.
Same(p, t) ==
    /\ t \in Tx /\ t.op = tx[p].op /\ t.actor = tx[p].actor /\ t.h = tx[p].h
    /\ t.claim = tx[p].claim /\ t.outcome = tx[p].outcome /\ t.expired = tx[p].expired
    /\ t.now <= clock

LEMMA RowFirstKept ==
    ASSUME TypeOK, NEW p \in Process, RowFirst(p), NEW r \in Resource,
           lock' = lock \/ Take(p, r),
           tx'[p].op = tx[p].op, tx'[p].h = tx[p].h,
           tx[p].op # "accept" =>
             /\ \/ lock' = lock
                \/ r = "watermark"
                \/ r = "claim" /\ tx[p].op \in {"claim", "renew", "release", "reapClaims"}
                \/ r = tx[p].h /\ r \in HandoffId /\ tx[p].op \in {"reject", "cancel", "reapHandoffs"}
             /\ tx'[p].todo # <<>> /\ Head(tx'[p].todo) = "log" => lock'["claim"] = p
             /\ lock'["watermark"] = p =>
                  lock'["claim"] = p /\ tx'[p].todo \in {Upserting(tx[p].op), Commits}
    PROVE  RowFirst(p)'
<1>1. /\ "claim" \in Resource /\ "watermark" \in Resource /\ HandoffId \subseteq Resource
      /\ \A h \in HandoffId : h # "claim" /\ h # "watermark"
  BY DEF Resource
<1> SUFFICES ASSUME tx[p].op # "accept"
             PROVE  /\ lock'["claim"] = p => tx[p].op \in {"claim", "renew", "release", "reapClaims"}
                    /\ \A h \in HandoffId :
                         lock'[h] = p => /\ h = tx[p].h
                                         /\ tx[p].op \in {"reject", "cancel", "reapHandoffs"}
  BY DEF RowFirst
<1>2. \A x \in Resource : lock'[x] = p => lock[x] = p \/ (lock' # lock /\ x = r)
  <2> SUFFICES ASSUME NEW x \in Resource, lock'[x] = p, lock[x] # p PROVE lock' # lock /\ x = r
    OBVIOUS
  <2>1. lock' # lock
    OBVIOUS
  <2>2. Take(p, r)
    BY <2>1
  <2> QED
    BY <2>1, <2>2 DEF Take, TypeOK
<1> QED
  BY <1>1, <1>2 DEF RowFirst

\* A statement that reads, takes a lock or writes an event.
LEMMA ReadsOn ==
    ASSUME IInv, NEW p \in Process, tx[p].todo # <<>>,
           NEW t, Same(p, t), Plan(t.op, t.todo), Continue(p, t),
           UNCHANGED <<clock, item, claim, outcome, started, events>>,
           NEW r \in Resource, lock' = lock \/ (Available(p, r) /\ Take(p, r)),
           Head(t.todo) \in {"extend", "release"} => claim # NoRow,
           tx[p].claim # NoRow /\ Before(t.op, t.todo) => Before(tx[p].op, tx[p].todo),
           t.op # "accept" =>
             /\ \/ lock' = lock
                \/ r = "watermark"
                \/ r = "claim" /\ t.op \in {"claim", "renew", "release", "reapClaims"}
                \/ r = t.h /\ r \in HandoffId /\ t.op \in {"reject", "cancel", "reapHandoffs"}
             /\ Head(t.todo) = "log" => lock'["claim"] = p
             /\ lock'["watermark"] = p => lock'["claim"] = p /\ t.todo \in {Upserting(t.op), Commits}
    PROVE  IInv'
<1>0. /\ t \in Tx /\ t.op = tx[p].op /\ t.actor = tx[p].actor /\ t.h = tx[p].h
      /\ t.claim = tx[p].claim /\ t.outcome = tx[p].outcome /\ t.expired = tx[p].expired
      /\ t.now <= clock
  BY DEF Same
<1>1. /\ TypeOK /\ Local(p) /\ t.todo # <<>> /\ tx[p].actor \in Actor /\ tx[p].h \in HandoffId
  BY DEF IInv, TypeOK, TxOK, Plan
<1>2. TxOK(t)
  BY <1>0, <1>1 DEF TxOK
<1>3. tx'[p] = t
  BY <1>1, <1>2, Continues
<1>4. \A x \in Resource : lock[x] = p => lock'[x] = p
  BY <1>1 DEF TypeOK, Take
<1>5. Held(p)'
  <2>1. "claim" \in Resource /\ tx[p].h \in Resource
    BY <1>1 DEF Resource
  <2> QED
    BY <1>0, <1>1, <1>3, <1>4, <2>1 DEF Local, Held
<1>6. NextVersion(p)'
  BY <1>0, <1>1, <1>3 DEF Local, NextVersion
<1>7. Expiring(p)'
  BY <1>0, <1>1, <1>3 DEF Local, Expiring
<1>8. OwnOrLapsed(p)'
  BY <1>0, <1>1, <1>3 DEF Local, OwnOrLapsed
<1>9. RowFirst(p)'
  BY <1>0, <1>1, <1>3, RowFirstKept DEF Local
<1>10. Local(p)'
  BY <1>5, <1>6, <1>7, <1>8, <1>9 DEF Local
<1> QED
  BY <1>1, <1>2, <1>10, Proceeds

\* Who is before its row has not got the watermark, and is not in the way of its own log.
LEMMA WatermarkLast ==
    ASSUME IInv, NEW p \in Process, NEW statement, At(p, statement), tx[p].op # "accept"
    PROVE  /\ lock["watermark"] = p => statement \in {"upsert", "commit"} /\ lock["claim"] = p
           /\ statement = "log" => lock["claim"] = p
<1>1. TypeOK /\ RowFirst(p)
  BY DEF IInv, Local
<1>2. tx[p].todo # <<>> /\ Head(tx[p].todo) = statement
  BY <1>1, AtPlan
<1>3. tx[p].todo \in {Upserting(tx[p].op), Commits} => Head(tx[p].todo) \in {"upsert", "commit"}
  BY PlanHeads
<1> QED
  BY <1>1, <1>2, <1>3 DEF RowFirst
\* What an operation is doing, and what it does next, by the statement it is at.
LEMMA AtStatement ==
    ASSUME TypeOK, NEW p \in Process, NEW st, At(p, st), NEW op, op = tx[p].op
    PROVE  /\ st = "readItem" => op \in Claimers /\ Rest(p) = Do("readClaim", Upserting(op))
           /\ st = "readClaim" => op \in Claimers /\ Rest(p) = Upserting(op)
           /\ st = "upsert" => op \in Claimers /\ Rest(p) = End(op)
           /\ st = "expire" => \/ op \in Claimers /\ Rest(p) = Upserting(op)
                               \/ op \in Expirers /\ Rest(p) = End(op)
           /\ st = "checkRenew" => op \in Renewers /\ Rest(p) = Extending(op)
           /\ st = "extend" => op \in Renewers /\ Rest(p) = End(op)
           /\ st = "checkRelease" => op \in Releasers /\ Rest(p) = Releases(op)
           /\ st = "release" => op \in Releasers /\ Rest(p) = Released(op)
           /\ st = "readHandoff" => \/ op = "accept" /\ Rest(p) = Do("readOwner", Claims(op))
                                    \/ op \in {"reject", "cancel"} /\ Rest(p) = Deciding
           /\ st = "readOwner" => op = "accept" /\ Rest(p) = Claims(op)
           /\ st = "decide" => op \in Deciders /\ Rest(p) = Commits
           /\ st = "expireHandoff" => op \in Deciders \cup {"reapHandoffs"} /\ Rest(p) = Commits
           /\ st = "lockStaleClaims" => op = "reapClaims" /\ Rest(p) = Commits
           /\ st = "lockStaleHandoff" => op = "reapHandoffs" /\ Rest(p) = Commits
           /\ st = "commit" => tx[p].todo = Commits
<1> PICK s : s = tx[p].todo
  OBVIOUS
<1>1. Plan(op, s) /\ Head(s) = st /\ Rest(p) = Tail(s)
  BY AtPlan
<1>2. ASSUME st = "readItem" PROVE op \in Claimers /\ Rest(p) = Do("readClaim", Upserting(op))
  <2>1. op \in Claimers /\ s = Claims(op)
    BY <1>1, <1>2 DEF Plan
  <2>2. Tail(Claims(op)) = Do("readClaim", Upserting(op))
    BY PlanHeads
  <2> QED
    BY <1>1, <2>1, <2>2
<1>3. ASSUME st = "readClaim" PROVE op \in Claimers /\ Rest(p) = Upserting(op)
  <2>1. op \in Claimers /\ s = Do("readClaim", Upserting(op))
    BY <1>1, <1>3 DEF Plan
  <2>2. Tail(Do("readClaim", Upserting(op))) = Upserting(op)
    BY DoHeads
  <2> QED
    BY <1>1, <2>1, <2>2
<1>4. ASSUME st = "upsert" PROVE op \in Claimers /\ Rest(p) = End(op)
  <2>1. op \in Claimers /\ s = Upserting(op)
    BY <1>1, <1>4 DEF Plan
  <2>2. Tail(Upserting(op)) = End(op)
    BY PlanHeads
  <2> QED
    BY <1>1, <2>1, <2>2
<1>5. ASSUME st = "expire"
      PROVE  \/ op \in Claimers /\ Rest(p) = Upserting(op)
             \/ op \in Expirers /\ Rest(p) = End(op)
  <2>1. \/ op \in Claimers /\ s = Do("expire", Upserting(op))
        \/ op \in Expirers /\ s = Do("expire", End(op))
    BY <1>1, <1>5 DEF Plan
  <2>2. Tail(Do("expire", Upserting(op))) = Upserting(op) /\ Tail(Do("expire", End(op))) = End(op)
    BY DoHeads
  <2> QED
    BY <1>1, <2>1, <2>2
<1>6. ASSUME st = "checkRenew" PROVE op \in Renewers /\ Rest(p) = Extending(op)
  <2>1. op \in Renewers /\ s = Do("checkRenew", Extending(op))
    BY <1>1, <1>6 DEF Plan
  <2>2. Tail(Do("checkRenew", Extending(op))) = Extending(op)
    BY DoHeads
  <2> QED
    BY <1>1, <2>1, <2>2
<1>7. ASSUME st = "extend" PROVE op \in Renewers /\ Rest(p) = End(op)
  <2>1. op \in Renewers /\ s = Extending(op)
    BY <1>1, <1>7 DEF Plan
  <2>2. Tail(Extending(op)) = End(op)
    BY PlanHeads
  <2> QED
    BY <1>1, <2>1, <2>2
<1>8. ASSUME st = "checkRelease" PROVE op \in Releasers /\ Rest(p) = Releases(op)
  <2>1. op \in Releasers /\ s = Do("checkRelease", Releases(op))
    BY <1>1, <1>8 DEF Plan
  <2>2. Tail(Do("checkRelease", Releases(op))) = Releases(op)
    BY DoHeads
  <2> QED
    BY <1>1, <2>1, <2>2
<1>9. ASSUME st = "release" PROVE op \in Releasers /\ Rest(p) = Released(op)
  <2>1. op \in Releasers /\ s = Releases(op)
    BY <1>1, <1>9 DEF Plan
  <2>2. Tail(Releases(op)) = Released(op)
    BY PlanHeads
  <2> QED
    BY <1>1, <2>1, <2>2
<1>10. ASSUME st = "readHandoff"
      PROVE  \/ op = "accept" /\ Rest(p) = Do("readOwner", Claims(op))
             \/ op \in {"reject", "cancel"} /\ Rest(p) = Deciding
  <2>1. \/ op = "accept" /\ s = Do("readHandoff", Do("readOwner", Claims(op)))
        \/ op \in {"reject", "cancel"} /\ s = Do("readHandoff", Deciding)
    BY <1>1, <1>10 DEF Plan
  <2>2. /\ Tail(Do("readHandoff", Do("readOwner", Claims(op)))) = Do("readOwner", Claims(op))
        /\ Tail(Do("readHandoff", Deciding)) = Deciding
    BY DoHeads
  <2> QED
    BY <1>1, <2>1, <2>2
<1>11. ASSUME st = "readOwner" PROVE op = "accept" /\ Rest(p) = Claims(op)
  <2>1. op = "accept" /\ s = Do("readOwner", Claims(op))
    BY <1>1, <1>11 DEF Plan
  <2>2. Tail(Do("readOwner", Claims(op))) = Claims(op)
    BY DoHeads
  <2> QED
    BY <1>1, <2>1, <2>2
<1>12. ASSUME st = "decide" PROVE op \in Deciders /\ Rest(p) = Commits
  <2>1. op \in Deciders /\ s = Deciding
    BY <1>1, <1>12 DEF Plan
  <2>2. Tail(Deciding) = Commits
    BY PlanHeads
  <2> QED
    BY <1>1, <2>1, <2>2
<1>13. ASSUME st = "expireHandoff" PROVE op \in Deciders \cup {"reapHandoffs"} /\ Rest(p) = Commits
  <2>1. op \in Deciders \cup {"reapHandoffs"} /\ s = Do("expireHandoff", Commits)
    BY <1>1, <1>13 DEF Plan
  <2>2. Tail(Do("expireHandoff", Commits)) = Commits
    BY DoHeads
  <2> QED
    BY <1>1, <2>1, <2>2
<1>14. ASSUME st = "lockStaleClaims" PROVE op = "reapClaims" /\ Rest(p) = Commits
  <2>1. op = "reapClaims" /\ s = Do("lockStaleClaims", Commits)
    BY <1>1, <1>14 DEF Plan
  <2>2. Tail(Do("lockStaleClaims", Commits)) = Commits
    BY DoHeads
  <2> QED
    BY <1>1, <2>1, <2>2
<1>15. ASSUME st = "lockStaleHandoff" PROVE op = "reapHandoffs" /\ Rest(p) = Commits
  <2>1. op = "reapHandoffs" /\ s = Do("lockStaleHandoff", Commits)
    BY <1>1, <1>15 DEF Plan
  <2>2. Tail(Do("lockStaleHandoff", Commits)) = Commits
    BY DoHeads
  <2> QED
    BY <1>1, <2>1, <2>2
<1>16. st = "commit" => s = Commits
  BY <1>1 DEF Plan
<1> QED
  BY <1>2, <1>3, <1>4, <1>5, <1>6, <1>7, <1>8, <1>9, <1>10, <1>11, <1>12, <1>13, <1>14, <1>15, <1>16

\* Where an operation is after a statement, by the plan it goes on with.
LEMMA NextStatement ==
    ASSUME NEW op
    PROVE  /\ Head(Claims(op)) = "readItem" /\ Head(Do("readClaim", Upserting(op))) = "readClaim"
           /\ Head(Upserting(op)) = "upsert" /\ Head(Extending(op)) = "extend"
           /\ Head(Releases(op)) = "release" /\ Head(Deciding) = "decide" /\ Head(Commits) = "commit"
           /\ op # "accept" => End(op) = Commits /\ Released(op) = Commits
           /\ op = "accept" => Head(End(op)) = "log" /\ Head(Released(op)) = "log"
           /\ ~Before(op, Deciding) /\ ~Before(op, Commits) /\ ~Before(op, End(op))
<1>1. /\ Head(Claims(op)) = "readItem" /\ Head(Do("readClaim", Upserting(op))) = "readClaim"
      /\ Head(Upserting(op)) = "upsert" /\ Head(Extending(op)) = "extend"
      /\ Head(Releases(op)) = "release" /\ Head(Deciding) = "decide" /\ Head(Commits) = "commit"
      /\ op # "accept" => End(op) = Commits /\ Released(op) = Commits
      /\ op = "accept" => Head(End(op)) = "log" /\ Head(Released(op)) = "log"
  BY PlanHeads, DoHeads
<1>2. Do("log", Claims(op)) \notin {Deciding, Commits} /\ Do("log", Upserting(op)) \notin {Deciding, Commits}
  <2>1. Head(Do("log", Claims(op))) = "log" /\ Head(Do("log", Upserting(op))) = "log"
    BY PlanSeqs, DoIs DEF Statements
  <2> QED
    BY <1>1, <2>1
<1>3. ~Before(op, Deciding) /\ ~Before(op, Commits)
  BY <1>1, <1>2 DEF Before
<1>4. ASSUME op = "accept" PROVE ~Before(op, End(op))
  <2>1. Tail(Do("log", Claims(op))) = Claims(op) /\ Tail(Do("log", Upserting(op))) = Upserting(op)
    BY PlanSeqs, DoIs DEF Statements
  <2>2. Tail(End(op)) = Deciding
    BY <1>4, PlanHeads
  <2>3. End(op) \notin {Do("log", Claims(op)), Do("log", Upserting(op))}
    BY <1>1, <2>1, <2>2
  <2> QED
    BY <1>1, <1>4, <2>3 DEF Before
<1> QED
  BY <1>1, <1>3, <1>4
LEMMA NotBefore ==
    ASSUME NEW op, NEW s, Head(s) \in {"decide", "commit", "expireHandoff"}
    PROVE  ~Before(op, s)
<1>1. Head(Do("log", Claims(op))) = "log" /\ Head(Do("log", Upserting(op))) = "log"
  BY PlanSeqs, DoIs DEF Statements
<1> QED
  BY <1>1 DEF Before

-----------------------------------------------------------------------------
(* The statements that read, lock or log. *)

\* An operation goes on to the plan s, and may have read the clock.
LEMMA GoesOn ==
    ASSUME IInv, NEW p \in Process, NEW s, Plan(tx[p].op, s)
    PROVE  /\ Same(p, [tx[p] EXCEPT !.todo = s])
           /\ Same(p, [tx[p] EXCEPT !.todo = s, !.now = clock])
           /\ Row(p) # NoRow =>
                Same(p, [tx[p] EXCEPT !.todo = s, !.now = clock, !.seen = Row(p).expires])
<1>1. tx[p] \in Tx /\ s \in Seq(Statements) /\ clock \in Nat /\ tx[p].now <= clock
  BY DEF IInv, TypeOK, Plan, Local, NextVersion
<1>2. Row(p) # NoRow => Row(p).expires \in Nat
  BY <1>1 DEF Row, IInv, TypeOK, Tx, ClaimRow
<1>3. Same(p, [tx[p] EXCEPT !.todo = s])
  BY <1>1 DEF Same, Tx
<1>4. Same(p, [tx[p] EXCEPT !.todo = s, !.now = clock])
  <2> PICK t : t = [tx[p] EXCEPT !.todo = s, !.now = clock]
    OBVIOUS
  <2>1. /\ t \in Tx /\ t.op = tx[p].op /\ t.actor = tx[p].actor /\ t.h = tx[p].h
        /\ t.claim = tx[p].claim /\ t.outcome = tx[p].outcome /\ t.expired = tx[p].expired
        /\ t.now = clock
    BY <1>1 DEF Tx
  <2> QED
    BY <1>1, <2>1 DEF Same
<1>5. ASSUME Row(p) # NoRow
      PROVE  Same(p, [tx[p] EXCEPT !.todo = s, !.now = clock, !.seen = Row(p).expires])
  <2> PICK t : t = [tx[p] EXCEPT !.todo = s, !.now = clock, !.seen = Row(p).expires]
    OBVIOUS
  <2>1. /\ t \in Tx /\ t.op = tx[p].op /\ t.actor = tx[p].actor /\ t.h = tx[p].h
        /\ t.claim = tx[p].claim /\ t.outcome = tx[p].outcome /\ t.expired = tx[p].expired
        /\ t.now = clock
    BY <1>1, <1>2, <1>5 DEF Tx
  <2> QED
    BY <1>1, <2>1 DEF Same
<1> QED
  BY <1>3, <1>4, <1>5

LEMMA ReadItemKeeps ==
    ASSUME IInv, NEW p \in Process, ReadItem(p)
    PROVE  IInv'
<1>1. TypeOK /\ At(p, "readItem") /\ "claim" \in Resource
  BY DEF IInv, ReadItem, Resource
<1> PICK s : s = Rest(p)
  OBVIOUS
<1> PICK op : op = tx[p].op
  OBVIOUS
<1>2. /\ tx[p].todo # <<>> /\ Head(tx[p].todo) = "readItem" /\ op \in Claimers
      /\ s = Do("readClaim", Upserting(op))
  BY <1>1, AtPlan, AtStatement
<1>3. CASE Rollback(p)
  BY <1>2, <1>3, RollsBack
<1>4. CASE Continue(p, [tx[p] EXCEPT !.todo = Rest(p), !.now = clock]) /\ Reads
  <2>1. Plan(op, s) /\ Head(s) = "readClaim"
    BY <1>2, ClaimPlans, NextStatement
  <2> PICK t : t = [tx[p] EXCEPT !.todo = s, !.now = clock]
    OBVIOUS
  <2>2. Same(p, t) /\ t.todo = s /\ t.op = op
    <3>1. Same(p, t)
      BY <2>1, GoesOn
    <3>2. tx[p] \in Tx
      BY <1>1 DEF TypeOK
    <3> QED
      BY <3>1, <3>2 DEF Same, Tx
  <2>3. Before(op, tx[p].todo)
    BY <1>2 DEF Before
  <2>4. op # "accept" => lock["watermark"] # p
    BY <1>1, WatermarkLast
  <2>5. Continue(p, t) /\ lock' = lock /\ UNCHANGED <<clock, item, claim, outcome, started, events>>
    BY <1>4 DEF Reads
  <2> QED
    BY <1>1, <1>2, <2>1, <2>2, <2>3, <2>4, <2>5, ReadsOn
<1> QED
  BY <1>3, <1>4 DEF ReadItem

\* A statement that only reads, and is followed by the plan s.
LEMMA Reading ==
    ASSUME IInv, NEW p \in Process, NEW st, At(p, st), NEW s, Plan(tx[p].op, s),
           NEW t, Same(p, t), t.todo = s, Continue(p, t), Reads,
           Head(s) \in {"extend", "release"} => claim # NoRow,
           tx[p].claim # NoRow /\ Before(tx[p].op, s) => Before(tx[p].op, tx[p].todo),
           tx[p].op # "accept" => Head(s) # "log" /\ st \notin {"upsert", "commit"}
    PROVE  IInv'
<1>1. tx[p].todo # <<>> /\ t.op = tx[p].op /\ Plan(t.op, t.todo) /\ "claim" \in Resource
  BY AtPlan DEF IInv, Same, Resource
<1>2. tx[p].op # "accept" => lock["watermark"] # p
  BY WatermarkLast
<1>3. lock' = lock /\ UNCHANGED <<clock, item, claim, outcome, started, events>>
  BY DEF Reads
<1> QED
  BY <1>1, <1>2, <1>3, ReadsOn

LEMMA ReadClaimKeeps ==
    ASSUME IInv, NEW p \in Process, ReadClaim(p)
    PROVE  IInv'
<1>1. TypeOK /\ At(p, "readClaim")
  BY DEF IInv, ReadClaim
<1> PICK op : op = tx[p].op
  OBVIOUS
<1>2. /\ tx[p].todo # <<>> /\ Head(tx[p].todo) = "readClaim" /\ op \in Claimers
      /\ Rest(p) = Upserting(op) /\ Tail(Rest(p)) = End(op)
  <2>1. tx[p].todo # <<>> /\ Head(tx[p].todo) = "readClaim"
    BY <1>1, AtPlan
  <2>2. op \in Claimers /\ Rest(p) = Upserting(op)
    BY <1>1, AtStatement
  <2> QED
    BY <2>1, <2>2, PlanHeads
<1>3. Before(op, tx[p].todo)
  BY <1>2 DEF Before
<1>4. CASE Rollback(p)
  BY <1>2, <1>4, RollsBack
<1>5. ASSUME NEW s, Plan(op, s), Head(s) # "log", Head(s) \notin {"extend", "release"},
             Continue(p, [tx[p] EXCEPT !.todo = s]), Reads
      PROVE  IInv'
  <2>1. PICK t : t = [tx[p] EXCEPT !.todo = s]
    OBVIOUS
  <2>2. Same(p, t) /\ Continue(p, t)
    BY <1>5, <2>1, GoesOn
  <2>3. t.todo = s
    BY <1>1, <2>1 DEF TypeOK, Tx
  <2>4. /\ Plan(tx[p].op, s) /\ Before(tx[p].op, tx[p].todo) /\ Reads
        /\ Head(s) \notin {"log", "extend", "release"}
    BY <1>3, <1>5
  <2> QED
    BY <1>1, <2>2, <2>3, <2>4, Reading
<1>6. CASE Continue(p, [tx[p] EXCEPT !.todo = Rest(p)]) /\ Reads
  <2>1. Plan(op, Rest(p)) /\ Head(Rest(p)) = "upsert"
    BY <1>2, ClaimPlans, NextStatement
  <2> QED
    BY <1>5, <1>6, <2>1
<1>7. CASE Continue(p, [tx[p] EXCEPT !.todo = <<"expire">> \o Rest(p)]) /\ Reads
  <2>1. <<"expire">> \o Rest(p) = Do("expire", Upserting(op))
    BY <1>2 DEF Do
  <2>2. Plan(op, Do("expire", Upserting(op))) /\ Head(Do("expire", Upserting(op))) = "expire"
    BY <1>2, ClaimPlans, DoHeads
  <2> QED
    BY <1>5, <1>7, <2>1, <2>2
<1>8. CASE Continue(p, [tx[p] EXCEPT !.todo = <<"checkRenew", "extend">> \o Tail(Rest(p))]) /\ Reads
  <2>1. End(op) \in Seq(Statements) /\ "checkRenew" \in Statements /\ "extend" \in Statements
    BY PlanSeqs DEF Statements
  <2>2. <<"checkRenew", "extend">> \o Tail(Rest(p)) = Do("checkRenew", Extending(op))
    <3>1. <<"checkRenew", "extend">> \o End(op) = Do("checkRenew", Do("extend", End(op)))
      BY <2>1, Concatenates
    <3> QED
      BY <1>2, <3>1 DEF Extending
  <2>3. op \in Renewers /\ op \in AllOperations
    BY <1>2 DEF Claimers, Renewers, AllOperations
  <2>4. /\ Plan(op, Do("checkRenew", Extending(op)))
        /\ Head(Do("checkRenew", Extending(op))) = "checkRenew"
    BY <2>3, EndPlans, DoHeads
  <2> QED
    BY <1>5, <1>8, <2>2, <2>4
<1> QED
  BY <1>4, <1>6, <1>7, <1>8 DEF ReadClaim

LEMMA CheckRenewKeeps ==
    ASSUME IInv, NEW p \in Process, CheckRenew(p)
    PROVE  IInv'
<1>1. TypeOK /\ At(p, "checkRenew") /\ NextVersion(p)
  BY DEF IInv, CheckRenew, Local
<1> PICK op : op = tx[p].op
  OBVIOUS
<1>2. /\ tx[p].todo # <<>> /\ Head(tx[p].todo) = "checkRenew" /\ op \in Renewers
      /\ Rest(p) = Extending(op) /\ Tail(Rest(p)) = End(op)
  <2>1. tx[p].todo # <<>> /\ Head(tx[p].todo) = "checkRenew"
    BY <1>1, AtPlan
  <2>2. op \in Renewers /\ Rest(p) = Extending(op)
    BY <1>1, AtStatement
  <2> QED
    BY <2>1, <2>2, PlanHeads
<1>3. Before(op, tx[p].todo)
  BY <1>2 DEF Before
<1>4. CASE Rollback(p)
  BY <1>2, <1>4, RollsBack
<1>5. CASE ~Rollback(p)
  <2>1. PICK s : s = IF Lapsed(Row(p), clock) THEN <<"expire">> \o Tail(Rest(p)) ELSE Rest(p)
    OBVIOUS
  <2>2. PICK t : t = [tx[p] EXCEPT !.todo = s, !.now = clock, !.seen = Row(p).expires]
    OBVIOUS
  <2>3. Active(Row(p)) /\ Continue(p, t) /\ Reads
    BY <1>5, <2>1, <2>2 DEF CheckRenew
  <2>4. s \in {Extending(op), Do("expire", End(op))}
    BY <1>2, <2>1 DEF Do
  <2>5. op \in AllOperations /\ op \in Expirers
    BY <1>2 DEF Renewers, AllOperations, Expirers
  <2>6. /\ Plan(op, Extending(op)) /\ Head(Extending(op)) = "extend"
        /\ Plan(op, Do("expire", End(op))) /\ Head(Do("expire", End(op))) = "expire"
    BY <1>2, <2>5, EndPlans, NextStatement, DoHeads
  <2>7. Plan(tx[p].op, s) /\ Head(s) \in {"extend", "expire"} /\ Before(tx[p].op, tx[p].todo)
    BY <1>3, <2>4, <2>6
  <2>8. Row(p) # NoRow /\ claim # NoRow
    <3>1. Row(p) # NoRow
      BY <2>3 DEF Active
    <3>2. tx[p].claim # NoRow => claim # NoRow
      BY <1>1, <1>2, <1>3 DEF NextVersion
    <3> QED
      BY <3>1, <3>2 DEF Row
  <2>9. Same(p, t)
    BY <2>2, <2>7, <2>8, GoesOn
  <2>10. t.todo = s
    BY <1>1, <2>2 DEF TypeOK, Tx
  <2> QED
    BY <1>1, <2>3, <2>7, <2>8, <2>9, <2>10, Reading
<1> QED
  BY <1>4, <1>5

LEMMA CheckReleaseKeeps ==
    ASSUME IInv, NEW p \in Process, CheckRelease(p)
    PROVE  IInv'
<1>1. TypeOK /\ At(p, "checkRelease") /\ NextVersion(p)
  BY DEF IInv, CheckRelease, Local
<1> PICK op : op = tx[p].op
  OBVIOUS
<1>2. /\ tx[p].todo # <<>> /\ Head(tx[p].todo) = "checkRelease" /\ op \in Releasers
      /\ Rest(p) = Releases(op)
  BY <1>1, AtPlan, AtStatement
<1>3. Before(op, tx[p].todo)
  BY <1>2 DEF Before
<1>4. CASE Rollback(p)
  BY <1>2, <1>4, RollsBack
<1>5. CASE ~Rollback(p)
  <2>1. PICK t : t = [tx[p] EXCEPT !.todo = Rest(p)]
    OBVIOUS
  <2>2. Active(Row(p)) /\ Continue(p, t) /\ Reads
    BY <1>5, <2>1 DEF CheckRelease
  <2>3. /\ Plan(tx[p].op, Rest(p)) /\ Head(Rest(p)) = "release"
        /\ Before(tx[p].op, tx[p].todo)
    BY <1>2, <1>3, ReleasePlans, NextStatement
  <2>4. claim # NoRow
    BY <1>1, <1>2, <1>3, <2>2 DEF Active, Row, NextVersion
  <2>5. Same(p, t)
    BY <2>1, <2>3, GoesOn
  <2>6. t.todo = Rest(p)
    BY <1>1, <2>1 DEF TypeOK, Tx
  <2> QED
    BY <1>1, <2>2, <2>3, <2>4, <2>5, <2>6, Reading
<1> QED
  BY <1>4, <1>5

LEMMA ReadHandoffKeeps ==
    ASSUME IInv, NEW p \in Process, ReadHandoff(p)
    PROVE  IInv'
<1>1. TypeOK /\ At(p, "readHandoff")
  BY DEF IInv, ReadHandoff
<1> PICK op : op = tx[p].op
  OBVIOUS
<1>2. /\ tx[p].todo # <<>> /\ Head(tx[p].todo) = "readHandoff"
      /\ \/ op = "accept" /\ Rest(p) = Do("readOwner", Claims(op))
         \/ op \in {"reject", "cancel"} /\ Rest(p) = Deciding
  BY <1>1, AtPlan, AtStatement
<1>3. Before(op, tx[p].todo) /\ op \in Deciders
  BY <1>2 DEF Before, Deciders
<1>4. CASE Rollback(p)
  BY <1>2, <1>4, RollsBack
<1>5. CASE ~Rollback(p)
  <2>1. PICK s : s = IF Deadline[tx[p].h] <= clock THEN <<"expireHandoff", "commit">> ELSE Rest(p)
    OBVIOUS
  <2>2. PICK t : t = [tx[p] EXCEPT !.todo = s, !.now = clock]
    OBVIOUS
  <2>3. Continue(p, t) /\ Reads
    BY <1>5, <2>1, <2>2 DEF ReadHandoff
  <2>4. <<"expireHandoff", "commit">> = Do("expireHandoff", Commits)
    <3>1. <<"expireHandoff", "commit">> = <<"expireHandoff", "commit">> \o <<>>
      OBVIOUS
    <3>2. /\ {"expireHandoff", "commit"} \subseteq Statements
          /\ <<>> \in Seq(Statements)
      BY DEF Statements
    <3>3. <<"expireHandoff", "commit">> \o <<>> = Do("expireHandoff", Do("commit", <<>>))
      BY <3>2, Concatenates
    <3> QED
      BY <3>1, <3>3 DEF Commits
  <2>5. s = Do("expireHandoff", Commits) \/ s = Rest(p)
    BY <2>1, <2>4
  <2>6. /\ Plan(op, Do("expireHandoff", Commits))
        /\ Head(Do("expireHandoff", Commits)) = "expireHandoff"
    BY <1>3, DecisionPlans, DoHeads DEF Deciders
  <2>7. Plan(op, Rest(p)) /\ Head(Rest(p)) \in {"readOwner", "decide"}
    BY <1>2, <1>3, DecisionPlans, NextStatement, DoHeads DEF Deciders
  <2>8. /\ Plan(tx[p].op, s) /\ Head(s) \in {"expireHandoff", "readOwner", "decide"}
        /\ Before(tx[p].op, tx[p].todo)
    <3>1. CASE s = Do("expireHandoff", Commits)
      BY <1>3, <2>6, <3>1
    <3>2. CASE s = Rest(p)
      BY <1>3, <2>7, <3>2
    <3> QED
      BY <2>5, <3>1, <3>2
  <2>9. Same(p, t)
    BY <2>2, <2>8, GoesOn
  <2>10. t.todo = s
    BY <1>1, <2>2 DEF TypeOK, Tx
  <2> QED
    BY <1>1, <2>3, <2>8, <2>9, <2>10, Reading
<1> QED
  BY <1>4, <1>5

LEMMA ReadOwnerKeeps ==
    ASSUME IInv, NEW p \in Process, ReadOwner(p)
    PROVE  IInv'
<1>1. TypeOK /\ At(p, "readOwner")
  BY DEF IInv, ReadOwner
<1>2. /\ tx[p].todo # <<>> /\ Head(tx[p].todo) = "readOwner" /\ tx[p].op = "accept"
      /\ Rest(p) = Claims("accept")
  BY <1>1, AtPlan, AtStatement
<1>3. Before(tx[p].op, tx[p].todo)
  BY <1>2 DEF Before
<1>4. CASE Rollback(p)
  BY <1>2, <1>4, RollsBack
<1>5. ASSUME NEW s, Plan("accept", s), Head(s) \notin {"extend", "release"},
             Continue(p, [tx[p] EXCEPT !.todo = s]), Reads
      PROVE  IInv'
  <2>1. PICK t : t = [tx[p] EXCEPT !.todo = s]
    OBVIOUS
  <2>2. Same(p, t) /\ Continue(p, t)
    BY <1>2, <1>5, <2>1, GoesOn
  <2>3. t.todo = s
    BY <1>1, <2>1 DEF TypeOK, Tx
  <2>4. Plan(tx[p].op, s) /\ Reads /\ Head(s) \notin {"extend", "release"}
    BY <1>2, <1>5
  <2> QED
    BY <1>1, <1>2, <1>3, <2>2, <2>3, <2>4, Reading
<1>6. CASE Continue(p, [tx[p] EXCEPT !.todo = Rest(p)]) /\ Reads
  <2>1. Plan("accept", Rest(p)) /\ Head(Rest(p)) = "readItem"
    BY <1>2, ClaimPlans, NextStatement DEF Claimers
  <2> QED
    BY <1>5, <1>6, <2>1
<1>7. CASE /\ Continue(p, [tx[p] EXCEPT !.todo = <<"checkRelease", "release", "log">> \o Rest(p)])
           /\ Reads
  <2>1. /\ Claims("accept") \in Seq(Statements)
        /\ {"checkRelease", "release", "log"} \subseteq Statements
    BY PlanSeqs DEF Statements
  <2>2. <<"checkRelease", "release", "log">> \o Claims("accept")
          = Do("checkRelease", Do("release", Do("log", Claims("accept"))))
    BY <2>1, ConcatenatesThree
  <2>3. Do("checkRelease", Do("release", Do("log", Claims("accept"))))
          = Do("checkRelease", Releases("accept"))
    BY DEF Releases, Released
  <2>4. /\ Plan("accept", Do("checkRelease", Releases("accept")))
        /\ Head(Do("checkRelease", Releases("accept"))) = "checkRelease"
    BY ReleasePlans, DoHeads DEF Releasers
  <2> QED
    BY <1>2, <1>5, <1>7, <2>2, <2>3, <2>4
<1> QED
  BY <1>4, <1>6, <1>7 DEF ReadOwner
LEMMA LogKeeps ==
    ASSUME IInv, NEW p \in Process, Log(p)
    PROVE  IInv'
<1>1. /\ TypeOK /\ At(p, "log") /\ Available(p, "watermark") /\ Take(p, "watermark") /\ Writes
      /\ "watermark" \in Resource /\ "claim" \in Resource
  BY DEF IInv, Log, Resource
<1> PICK op : op = tx[p].op
  OBVIOUS
<1> PICK s : s = tx[p].todo
  OBVIOUS
<1>2. Plan(op, s) /\ s # <<>> /\ Head(s) = "log" /\ Rest(p) = Tail(s) /\ op \in AllOperations
  BY <1>1, AtPlan DEF Plan
<1>3. \/ op \in Claimers /\ s = Do("log", Upserting(op)) /\ Rest(p) = Upserting(op)
      \/ op \in Expirers /\ s = Do("log", End(op)) /\ Rest(p) = End(op)
      \/ op = "accept" /\ s = End(op) /\ Rest(p) = Deciding
      \/ op = "accept" /\ s = Do("log", Claims(op)) /\ Rest(p) = Claims(op)
  <2>1. \/ op \in Claimers /\ s = Do("log", Upserting(op))
        \/ op \in Expirers /\ s = Do("log", End(op))
        \/ op = "accept" /\ s \in {End(op), Released(op)}
    BY <1>2 DEF Plan
  <2>2. Tail(Do("log", Upserting(op))) = Upserting(op) /\ Tail(Do("log", End(op))) = End(op)
    BY DoHeads
  <2>3. op = "accept" => /\ Tail(End(op)) = Deciding /\ Released(op) = Do("log", Claims(op))
                         /\ Tail(Released(op)) = Claims(op)
    BY PlanHeads
  <2> QED
    BY <1>2, <2>1, <2>2, <2>3
<1>4. /\ Plan(op, Rest(p)) /\ Head(Rest(p)) \notin {"extend", "release"}
      /\ Before(op, Rest(p)) => Before(op, s)
      /\ op # "accept" => Head(Rest(p)) # "log" /\ Rest(p) \in {Upserting(op), Commits}
  <2>1. CASE op \in Claimers /\ s = Do("log", Upserting(op)) /\ Rest(p) = Upserting(op)
    BY <2>1, ClaimPlans, NextStatement DEF Before
  <2>2. CASE op \in Expirers /\ s = Do("log", End(op)) /\ Rest(p) = End(op)
    BY <1>2, <2>2, EndPlans, NextStatement
  <2>3. CASE op = "accept" /\ s = End(op) /\ Rest(p) = Deciding
    BY <2>3, DecisionPlans, NextStatement DEF Deciders
  <2>4. CASE op = "accept" /\ s = Do("log", Claims(op)) /\ Rest(p) = Claims(op)
    BY <2>4, ClaimPlans, NextStatement DEF Before, Claimers
  <2> QED
    BY <1>3, <2>1, <2>2, <2>3, <2>4
<1>5. PICK t : t = [tx[p] EXCEPT !.todo = Rest(p)]
  OBVIOUS
<1>6. Same(p, t) /\ Continue(p, t)
  BY <1>4, <1>5, GoesOn DEF Log
<1>7. t.todo = Rest(p) /\ t.op = op
  BY <1>1, <1>5 DEF TypeOK, Tx
<1>8. op # "accept" => lock["claim"] = p
  BY <1>1, WatermarkLast
<1>9. lock["claim"] = p => lock'["claim"] = p
  BY <1>1 DEF Take, TypeOK
<1>10. UNCHANGED <<clock, item, claim, outcome, started, events>>
  BY <1>1 DEF Writes
<1>11. /\ Before(t.op, t.todo) => Before(tx[p].op, tx[p].todo)
       /\ Plan(t.op, t.todo) /\ tx[p].todo # <<>> /\ Head(t.todo) \notin {"extend", "release"}
       /\ t.op # "accept" => /\ Head(t.todo) # "log" /\ lock'["claim"] = p
                             /\ t.todo \in {Upserting(t.op), Commits}
  BY <1>2, <1>4, <1>7, <1>8, <1>9
<1> QED
  BY <1>1, <1>6, <1>10, <1>11, ReadsOn

LEMMA LockStaleClaimsKeeps ==
    ASSUME IInv, NEW p \in Process, LockStaleClaims(p)
    PROVE  IInv'
<1>1. TypeOK /\ At(p, "lockStaleClaims") /\ "claim" \in Resource
  BY DEF IInv, LockStaleClaims, Resource
<1>2. /\ tx[p].todo # <<>> /\ Head(tx[p].todo) = "lockStaleClaims" /\ tx[p].op = "reapClaims"
      /\ Rest(p) = Commits /\ tx[p].todo = Do("lockStaleClaims", Commits)
  BY <1>1, AtPlan, AtStatement DEF Plan
<1>3. CASE Rollback(p)
  BY <1>2, <1>3, RollsBack
<1>4. CASE ~Rollback(p)
  <2>1. PICK t : t = [tx[p] EXCEPT !.todo = <<"expire">> \o Rest(p)]
    OBVIOUS
  <2>2. Continue(p, t) /\ Available(p, "claim") /\ Take(p, "claim") /\ Writes
    BY <1>4, <2>1 DEF LockStaleClaims, Available
  <2>3. <<"expire">> \o Rest(p) = Do("expire", End("reapClaims"))
    BY <1>2, NextStatement DEF Do
  <2>4. /\ Plan("reapClaims", Do("expire", End("reapClaims")))
        /\ Head(Do("expire", End("reapClaims"))) = "expire"
    BY EndPlans, DoHeads DEF AllOperations, Expirers
  <2>5. Same(p, t)
    BY <1>2, <2>1, <2>3, <2>4, GoesOn
  <2>6. t.todo = Do("expire", End("reapClaims")) /\ t.op = "reapClaims"
    BY <1>1, <1>2, <2>1, <2>3 DEF TypeOK, Tx
  <2>7. lock["watermark"] # p
    BY <1>1, <1>2, WatermarkLast
  <2>8. lock'["watermark"] # p
    BY <1>1, <2>2, <2>7 DEF Take, TypeOK, Resource
  <2>9. tx[p].claim = NoRow
    \* it has not got the lock of the row
    BY <1>1, <1>2, <1>4 DEF LockStaleClaims, IInv, Local, Held, TypeOK
  <2>10. UNCHANGED <<clock, item, claim, outcome, started, events>>
    BY <2>2 DEF Writes
  <2> QED
    BY <1>1, <1>2, <2>2, <2>4, <2>5, <2>6, <2>8, <2>9, <2>10, ReadsOn
<1> QED
  BY <1>3, <1>4

LEMMA LockStaleHandoffKeeps ==
    ASSUME IInv, NEW p \in Process, LockStaleHandoff(p)
    PROVE  IInv'
<1>1. TypeOK /\ At(p, "lockStaleHandoff") /\ tx[p].h \in HandoffId /\ tx[p].h \in Resource
  BY AtPlan DEF IInv, LockStaleHandoff, Resource
<1>2. /\ tx[p].todo # <<>> /\ Head(tx[p].todo) = "lockStaleHandoff" /\ tx[p].op = "reapHandoffs"
      /\ Rest(p) = Commits
  BY <1>1, AtPlan, AtStatement
<1>3. CASE Rollback(p)
  BY <1>2, <1>3, RollsBack
<1>4. CASE ~Rollback(p)
  <2>1. PICK t : t = [tx[p] EXCEPT !.todo = <<"expireHandoff">> \o Rest(p)]
    OBVIOUS
  <2>2. Continue(p, t) /\ Available(p, tx[p].h) /\ Take(p, tx[p].h) /\ Writes
    BY <1>4, <2>1 DEF LockStaleHandoff, Available
  <2>3. <<"expireHandoff">> \o Rest(p) = Do("expireHandoff", Commits)
    BY <1>2 DEF Do
  <2>4. /\ Plan("reapHandoffs", Do("expireHandoff", Commits))
        /\ Head(Do("expireHandoff", Commits)) = "expireHandoff"
    <3>1. Plan("reapHandoffs", Do("expireHandoff", Commits))
      BY DecisionPlans
    <3> QED
      BY <3>1, DoHeads
  <2>5. Same(p, t)
    BY <1>2, <2>1, <2>3, <2>4, GoesOn
  <2>6. t.todo = Do("expireHandoff", Commits) /\ t.op = "reapHandoffs" /\ t.h = tx[p].h
    BY <1>1, <1>2, <2>1, <2>3 DEF TypeOK, Tx
  <2>7. lock["watermark"] # p
    BY <1>1, <1>2, WatermarkLast
  <2>8. lock'["watermark"] # p
    BY <1>1, <2>2, <2>7 DEF Take, TypeOK, Resource
  <2>9. ~Before("reapHandoffs", Do("expireHandoff", Commits))
    BY <2>4, NotBefore
  <2>10. UNCHANGED <<clock, item, claim, outcome, started, events>>
    BY <2>2 DEF Writes
  <2> QED
    BY <1>1, <1>2, <2>2, <2>4, <2>5, <2>6, <2>8, <2>9, <2>10, ReadsOn
<1> QED
  BY <1>3, <1>4
-----------------------------------------------------------------------------
(* The statements that write. *)

\* A statement that writes a row, once Local is known of it.
LEMMA WritesOn ==
    ASSUME IInv, NEW p \in Process, tx[p].todo # <<>>, NEW t, TxOK(t), t.todo # <<>>,
           NEW r \in Resource, Available(p, r), Take(p, r), Continue(p, t), Writes,
           Held(p)', NextVersion(p)', Expiring(p)', OwnOrLapsed(p)', RowFirst(p)'
    PROVE  IInv'
<1>1. Local(p)' /\ UNCHANGED <<clock, item, claim, outcome, started, events>>
  BY DEF Local, Writes
<1> QED
  BY <1>1, Proceeds

\* Writing a row leaves who holds what, but for the lock taken.
LEMMA HeldStays ==
    ASSUME TypeOK, NEW p \in Process, Held(p), NEW r \in Resource, Take(p, r),
           tx'[p].todo # <<>>, tx'[p].h = tx[p].h, tx[p].h \in HandoffId,
           tx'[p].claim # NoRow => tx[p].claim # NoRow \/ r = "claim",
           tx'[p].outcome # "pending" => tx[p].outcome # "pending" \/ r = tx[p].h
    PROVE  Held(p)'
<1>1. \A x \in Resource : lock[x] = p \/ x = r => lock'[x] = p
  BY DEF TypeOK, Take
<1>2. "claim" \in Resource /\ tx[p].h \in Resource
  BY DEF Resource
<1> QED
  BY <1>1, <1>2 DEF Held

\* What an operation that has not yet written a new row sees is the committed
\* row, or that row as it has ended it.
LEMMA RowSeen ==
    ASSUME TypeOK, NEW p \in Process, NextVersion(p), tx[p].todo # <<>>,
           Before(tx[p].op, tx[p].todo)
    PROVE  /\ Row(p) \in ClaimRow \cup {NoRow}
           /\ Row(p) # NoRow => claim # NoRow /\ claim.lease = Row(p).lease
           /\ claim # NoRow => Row(p) # NoRow
           /\ Active(Row(p)) => Row(p) = claim /\ tx[p].claim = NoRow
<1>1. claim \in ClaimRow \cup {NoRow} /\ tx[p].claim \in ClaimRow \cup {NoRow}
  BY DEF TypeOK, Tx
<1> QED
  BY <1>1 DEF Row, NextVersion, Active

LEMMA ExpireKeeps ==
    ASSUME IInv, NEW p \in Process, Expire(p)
    PROVE  IInv'
<1>1. /\ TypeOK /\ Local(p) /\ At(p, "expire") /\ Available(p, "claim")
      /\ "claim" \in Resource /\ "watermark" \in Resource
  BY DEF IInv, Expire, Resource
<1> PICK op : op = tx[p].op
  OBVIOUS
<1>2. /\ tx[p] \in Tx /\ tx[p].todo # <<>> /\ Head(tx[p].todo) = "expire"
      /\ tx[p].actor \in Actor /\ tx[p].h \in HandoffId
      /\ \/ op \in Claimers /\ Rest(p) = Upserting(op)
         \/ op \in Expirers /\ Rest(p) = End(op)
  BY <1>1, AtPlan, AtStatement
<1>3. /\ Before(op, tx[p].todo) /\ op \in Expirers /\ op \in AllOperations
      /\ Rest(p) \in Seq(Statements)
  BY <1>2, PlanSeqs DEF Before, Claimers, Expirers, Renewers, AllOperations
<1>4. /\ Row(p) \in ClaimRow \cup {NoRow}
      /\ Row(p) # NoRow => claim # NoRow /\ claim.lease = Row(p).lease
      /\ Active(Row(p)) => Row(p) = claim /\ tx[p].claim = NoRow
  BY <1>1, <1>2, <1>3, RowSeen DEF Local
<1>5. CASE Lapsed(Row(p), tx[p].now)
  <2>0. /\ Row(p) = claim /\ claim \in ClaimRow /\ Active(claim) /\ claim.expires <= tx[p].now
        /\ tx[p].claim = NoRow
    BY <1>4, <1>5 DEF Lapsed, Active
  <2>1. PICK s : s = <<"log">> \o Rest(p)
    OBVIOUS
  <2>2. PICK row : row = [Row(p) EXCEPT !.status = "expired"]
    OBVIOUS
  <2>3. /\ row \in ClaimRow /\ row.lease = claim.lease /\ row.actor = claim.actor
        /\ ~Active(row) /\ row # NoRow
    BY <2>0, <2>2 DEF ClaimRow, Active
  <2>4. \/ op \in Claimers /\ s = Do("log", Upserting(op))
        \/ op \in Expirers /\ s = Do("log", End(op))
    BY <1>2, <2>1 DEF Do
  <2>5. Plan(op, s) /\ Head(s) = "log" /\ s # <<>>
    <3>1. op \in Claimers => Plan(op, Do("log", Upserting(op)))
      BY ClaimPlans
    <3>2. op \in Expirers => Plan(op, Do("log", End(op)))
      BY <1>3, EndPlans
    <3>3. Head(Do("log", Upserting(op))) = "log" /\ Head(Do("log", End(op))) = "log"
      BY DoHeads
    <3> QED
      BY <2>4, <3>1, <3>2, <3>3 DEF Plan
  <2>6. PICK t : t = [tx[p] EXCEPT !.todo = s, !.claim = row, !.expired = @ \cup {"claim"}]
    OBVIOUS
  <2>7. Continue(p, t) /\ Take(p, "claim") /\ Writes
    BY <1>5, <2>1, <2>2, <2>6 DEF Expire
  <2>8. /\ t \in Tx /\ t.op = op /\ t.actor = tx[p].actor /\ t.h = tx[p].h /\ t.todo = s
        /\ t.now = tx[p].now /\ t.claim = row /\ t.outcome = tx[p].outcome
        /\ t.expired = tx[p].expired \cup {"claim"}
    BY <1>2, <2>3, <2>5, <2>6 DEF Tx, Plan
  <2>9. TxOK(t)
    BY <1>2, <2>5, <2>8 DEF TxOK
  <2>10. tx'[p] = t
    BY <1>1, <2>7, <2>9, Continues
  <2>11. UNCHANGED <<clock, claim, outcome>>
    BY <2>7 DEF Writes
  <2>12. Held(p)'
    BY <1>1, <1>2, <2>5, <2>7, <2>8, <2>10, HeldStays DEF Local
  <2>13. NextVersion(p)'
    BY <1>1, <2>0, <2>3, <2>5, <2>8, <2>10, <2>11 DEF Local, NextVersion, ClaimRow
  <2>14. Expiring(p)'
    BY <1>1, <2>0, <2>3, <2>8, <2>10, <2>11 DEF Local, Expiring
  <2>15. OwnOrLapsed(p)'
    \* the lease had lapsed when the operation read the clock
    <3>1. ~Live(claim, clock)
      BY <1>1, <2>0 DEF Local, NextVersion, Live, TypeOK, ClaimRow, Tx
    <3> QED
      BY <2>11, <3>1 DEF OwnOrLapsed
  <2>16. RowFirst(p)'
    <3>1. lock'["claim"] = p
      BY <1>1, <2>7 DEF TypeOK, Take
    <3>2. lock'["watermark"] = lock["watermark"]
      BY <1>1, <2>7 DEF TypeOK, Take
    <3>3. op # "accept" => lock["watermark"] # p
      BY <1>1, WatermarkLast
    <3>4. op # "accept" => op \in {"claim", "renew", "release", "reapClaims"}
      BY <1>3 DEF Expirers, Renewers
    <3> QED
      BY <1>1, <2>7, <2>8, <2>10, <3>1, <3>2, <3>3, <3>4, RowFirstKept DEF Local
  <2> QED
    BY <1>1, <1>2, <2>5, <2>7, <2>8, <2>9, <2>12, <2>13, <2>14, <2>15, <2>16, WritesOn
<1>6. CASE ~Lapsed(Row(p), tx[p].now)
  <2>1. PICK t : t = [tx[p] EXCEPT !.todo = Rest(p)]
    OBVIOUS
  <2>2. Continue(p, t) /\ Reads
    BY <1>6, <2>1 DEF Expire
  <2>3. Plan(tx[p].op, Rest(p)) /\ Head(Rest(p)) \in {"upsert", "log", "commit"}
    <3>1. op \in Claimers => Plan(op, Upserting(op))
      BY ClaimPlans
    <3>2. Plan(op, End(op))
      BY <1>3, EndPlans
    <3>3. Head(Upserting(op)) = "upsert" /\ Head(End(op)) \in {"log", "commit"}
      BY NextStatement
    <3> QED
      BY <1>2, <3>1, <3>2, <3>3
  <2>4. tx[p].op # "accept" => Head(Rest(p)) # "log"
    BY <1>2, NextStatement
  <2>5. Same(p, t)
    BY <2>1, <2>3, GoesOn
  <2>6. t.todo = Rest(p)
    BY <1>2, <2>1 DEF Tx
  <2> QED
    BY <1>1, <1>3, <2>2, <2>3, <2>4, <2>5, <2>6, Reading
<1> QED
  BY <1>5, <1>6
\* An operation that is under way has a lease number to give.
LEMMA LeaseLeft ==
    ASSUME IInv, NEW p \in Process, tx[p].todo # <<>>
    PROVE  (IF claim = NoRow THEN 0 ELSE claim.lease) + 1 \in 1..MaxOps
<1>1. /\ TypeOK /\ LeasesCounted /\ p \in Running
  BY DEF IInv, Running
<1>2. Cardinality(Running) \in Nat /\ Cardinality(Running) # 0
  BY <1>1, FS_CardinalityType, FS_EmptySet DEF LeasesCounted
<1>3. (IF claim = NoRow THEN 0 ELSE claim.lease) \in Nat
  BY <1>1 DEF TypeOK, ClaimRow
<1> QED
  BY <1>1, <1>2, <1>3 DEF LeasesCounted, TypeOK

LEMMA UpsertKeeps ==
    ASSUME IInv, NEW p \in Process, Upsert(p)
    PROVE  IInv'
<1>1. /\ TypeOK /\ Local(p) /\ At(p, "upsert") /\ Available(p, "claim")
      /\ "claim" \in Resource /\ "watermark" \in Resource
  BY DEF IInv, Upsert, Resource
<1> PICK op : op = tx[p].op
  OBVIOUS
<1>2. /\ tx[p] \in Tx /\ tx[p].todo # <<>> /\ Head(tx[p].todo) = "upsert"
      /\ tx[p].actor \in Actor /\ tx[p].h \in HandoffId
      /\ op \in Claimers /\ Rest(p) = End(op)
  BY <1>1, AtPlan, AtStatement
<1>3. Before(op, tx[p].todo) /\ op \in AllOperations
  BY <1>2 DEF Before, Claimers, AllOperations
<1>4. CASE Rollback(p)
  BY <1>2, <1>4, RollsBack
<1>5. CASE ~Rollback(p)
  <2>1. ~Live(Row(p), tx[p].now)
    BY <1>5 DEF Upsert
  <2>2. PICK row : row = NewClaim(p)
    OBVIOUS
  <2>3. /\ row \in ClaimRow /\ row # NoRow
        /\ row.lease = (IF claim = NoRow THEN 0 ELSE claim.lease) + 1
    <3>1. Claimant(p) \in Actor
      BY <1>2 DEF Claimant
    <3>2. tx[p].now + LeaseLength \in Nat
      BY <1>2 DEF Tx
    <3>3. (IF claim = NoRow THEN 1 ELSE claim.lease + 1) = (IF claim = NoRow THEN 0 ELSE claim.lease) + 1
      OBVIOUS
    <3>4. (IF claim = NoRow THEN 1 ELSE claim.lease + 1) \in 1..MaxOps
      BY <1>2, <3>3, LeaseLeft
    <3> QED
      BY <2>2, <3>1, <3>2, <3>3, <3>4 DEF NewClaim, ClaimRow
  <2>4. /\ Plan(op, End(op)) /\ ~Before(op, End(op)) /\ End(op) # <<>>
        /\ Head(End(op)) \in {"log", "commit"}
        /\ op # "accept" => End(op) = Commits /\ Head(End(op)) # "log"
    BY <1>3, EndPlans, NextStatement DEF Plan
  <2>5. PICK t : t = [tx[p] EXCEPT !.todo = Rest(p), !.claim = NewClaim(p)]
    OBVIOUS
  <2>6. Continue(p, t) /\ Take(p, "claim") /\ Writes
    BY <1>5, <2>5 DEF Upsert
  <2>7. /\ t \in Tx /\ t.op = op /\ t.actor = tx[p].actor /\ t.h = tx[p].h /\ t.todo = End(op)
        /\ t.now = tx[p].now /\ t.claim = row /\ t.outcome = tx[p].outcome
        /\ t.expired = tx[p].expired
    BY <1>2, <2>2, <2>3, <2>4, <2>5 DEF Tx, Plan
  <2>8. TxOK(t)
    BY <1>2, <2>4, <2>7 DEF TxOK
  <2>9. tx'[p] = t
    BY <1>1, <2>6, <2>8, Continues
  <2>10. UNCHANGED <<clock, claim, outcome>>
    BY <2>6 DEF Writes
  <2>11. Held(p)'
    BY <1>1, <1>2, <2>4, <2>6, <2>7, <2>9, HeldStays DEF Local
  <2>12. claim # NoRow => claim.lease \in Nat
    BY <1>1 DEF TypeOK, ClaimRow
  <2>13. NextVersion(p)'
    BY <1>1, <2>3, <2>4, <2>7, <2>9, <2>10, <2>12 DEF Local, NextVersion
  <2>14. Expiring(p)'
    BY <1>1, <2>3, <2>7, <2>9, <2>10, <2>12 DEF Local, Expiring, Active
  <2>15. OwnOrLapsed(p)'
    <3>1. CASE tx[p].claim = NoRow
      <4>1. ~Live(claim, tx[p].now)
        BY <2>1, <3>1 DEF Row
      <4>2. ~Live(claim, clock)
        BY <1>1, <1>2, <4>1 DEF Local, NextVersion, Live, Active, TypeOK, ClaimRow, Tx
      <4> QED
        BY <2>10, <4>2 DEF OwnOrLapsed
    <3>2. CASE tx[p].claim # NoRow
      \* it has ended the lease that had lapsed
      BY <1>1, <1>3, <2>7, <2>9, <2>10, <3>2 DEF Local, OwnOrLapsed
    <3> QED
      BY <3>1, <3>2
  <2>16. RowFirst(p)'
    <3>1. lock'["claim"] = p /\ lock'["watermark"] = lock["watermark"]
      BY <1>1, <2>6 DEF TypeOK, Take
    <3>2. op # "accept" => op = "claim"
      BY <1>2 DEF Claimers
    <3> QED
      BY <1>1, <2>4, <2>6, <2>7, <2>9, <3>1, <3>2, RowFirstKept DEF Local
  <2> QED
    BY <1>1, <1>2, <2>4, <2>6, <2>7, <2>8, <2>11, <2>13, <2>14, <2>15, <2>16, WritesOn
<1> QED
  BY <1>4, <1>5

LEMMA ExtendKeeps ==
    ASSUME IInv, NEW p \in Process, Extend(p)
    PROVE  IInv'
<1>1. /\ TypeOK /\ Local(p) /\ At(p, "extend") /\ Available(p, "claim")
      /\ "claim" \in Resource /\ "watermark" \in Resource
  BY DEF IInv, Extend, Resource
<1> PICK op : op = tx[p].op
  OBVIOUS
<1>2. /\ tx[p] \in Tx /\ tx[p].todo # <<>> /\ Head(tx[p].todo) = "extend"
      /\ tx[p].actor \in Actor /\ tx[p].h \in HandoffId
      /\ op \in Renewers /\ Rest(p) = End(op)
  BY <1>1, AtPlan, AtStatement
<1>3. Before(op, tx[p].todo) /\ op \in AllOperations
  BY <1>2 DEF Before, Renewers, AllOperations
<1>4. /\ claim \in ClaimRow /\ Row(p) \in ClaimRow /\ Row(p).lease = claim.lease /\ claim # NoRow
      /\ Active(Row(p)) => Row(p) = claim /\ tx[p].claim = NoRow
  BY <1>1, <1>2, <1>3, RowSeen DEF Local, NextVersion, TypeOK
<1>5. PICK row : row = [Row(p) EXCEPT !.expires = tx[p].seen + LeaseLength]
  OBVIOUS
<1>6. /\ row \in ClaimRow /\ row # NoRow /\ row.lease = claim.lease /\ row.actor = Row(p).actor
      /\ row.status = Row(p).status
  <2>1. tx[p].seen + LeaseLength \in Nat
    BY <1>2 DEF Tx
  <2> QED
    BY <1>4, <1>5, <2>1 DEF ClaimRow
<1>7. /\ Plan(op, End(op)) /\ ~Before(op, End(op)) /\ End(op) # <<>>
      /\ Head(End(op)) \in {"log", "commit"}
      /\ op # "accept" => End(op) = Commits /\ Head(End(op)) # "log"
  BY <1>3, EndPlans, NextStatement DEF Plan
<1>8. PICK t : t = [tx[p] EXCEPT !.todo = Rest(p), !.claim = row]
  OBVIOUS
<1>9. Continue(p, t) /\ Take(p, "claim") /\ Writes
  BY <1>5, <1>8 DEF Extend
<1>10. /\ t \in Tx /\ t.op = op /\ t.actor = tx[p].actor /\ t.h = tx[p].h /\ t.todo = End(op)
       /\ t.now = tx[p].now /\ t.claim = row /\ t.outcome = tx[p].outcome
       /\ t.expired = tx[p].expired
  BY <1>2, <1>6, <1>7, <1>8 DEF Tx, Plan
<1>11. TxOK(t)
  BY <1>2, <1>7, <1>10 DEF TxOK
<1>12. tx'[p] = t
  BY <1>1, <1>9, <1>11, Continues
<1>13. UNCHANGED <<clock, claim, outcome>>
  BY <1>9 DEF Writes
<1>14. Held(p)'
  BY <1>1, <1>2, <1>7, <1>9, <1>10, <1>12, HeldStays DEF Local
<1>15. Active(row) => Active(claim) /\ tx[p].claim = NoRow
  BY <1>4, <1>6 DEF Active
<1>16. NextVersion(p)'
  BY <1>1, <1>4, <1>6, <1>7, <1>10, <1>12, <1>13, <1>15 DEF Local, NextVersion
<1>17. Expiring(p)'
  BY <1>1, <1>6, <1>10, <1>12, <1>13, <1>15 DEF Local, Expiring
<1>18. OwnOrLapsed(p)'
  <2>1. CASE tx[p].claim = NoRow
    <3>1. row.actor = claim.actor
      BY <1>6, <2>1 DEF Row
    <3> QED
      BY <1>7, <1>10, <1>12, <1>13, <3>1 DEF OwnOrLapsed
  <2>2. CASE tx[p].claim # NoRow
    BY <1>1, <1>3, <1>10, <1>12, <1>13, <2>2 DEF Local, OwnOrLapsed
  <2> QED
    BY <2>1, <2>2
<1>19. RowFirst(p)'
  <2>1. lock'["claim"] = p /\ lock'["watermark"] = lock["watermark"]
    BY <1>1, <1>9 DEF TypeOK, Take
  <2>2. op # "accept" => op \in {"claim", "renew"}
    BY <1>2 DEF Renewers
  <2> QED
    BY <1>1, <1>7, <1>9, <1>10, <1>12, <2>1, <2>2, RowFirstKept DEF Local
<1> QED
  BY <1>1, <1>2, <1>7, <1>9, <1>10, <1>11, <1>14, <1>16, <1>17, <1>18, <1>19, WritesOn
LEMMA ReleaseKeeps ==
    ASSUME IInv, NEW p \in Process, Release(p)
    PROVE  IInv'
<1>1. /\ TypeOK /\ Local(p) /\ At(p, "release") /\ Available(p, "claim")
      /\ "claim" \in Resource /\ "watermark" \in Resource
  BY DEF IInv, Release, Resource
<1> PICK op : op = tx[p].op
  OBVIOUS
<1>2. /\ tx[p] \in Tx /\ tx[p].todo # <<>> /\ Head(tx[p].todo) = "release"
      /\ tx[p].actor \in Actor /\ tx[p].h \in HandoffId
      /\ op \in Releasers /\ Rest(p) = Released(op)
  BY <1>1, AtPlan, AtStatement
<1>3. Before(op, tx[p].todo) /\ op \in AllOperations
  BY <1>2 DEF Before, Releasers, AllOperations
<1>4. claim \in ClaimRow /\ Row(p) \in ClaimRow /\ Row(p).lease = claim.lease /\ claim # NoRow
  BY <1>1, <1>2, <1>3, RowSeen DEF Local, NextVersion, TypeOK
<1>5. PICK row : row = [Row(p) EXCEPT !.status = "released"]
  OBVIOUS
<1>6. row \in ClaimRow /\ row # NoRow /\ row.lease = claim.lease /\ ~Active(row)
  BY <1>4, <1>5 DEF ClaimRow, Active
<1>7. /\ Plan(op, Released(op)) /\ Released(op) # <<>>
      /\ Head(Released(op)) \in {"log", "commit"}
      /\ op # "accept" => Released(op) = Commits /\ Head(Released(op)) # "log"
  BY <1>2, ReleasePlans, NextStatement DEF Plan
<1>8. PICK t : t = [tx[p] EXCEPT !.todo = Rest(p), !.claim = row]
  OBVIOUS
<1>9. Continue(p, t) /\ Take(p, "claim") /\ Writes
  BY <1>5, <1>8 DEF Release
<1>10. /\ t \in Tx /\ t.op = op /\ t.actor = tx[p].actor /\ t.h = tx[p].h /\ t.todo = Released(op)
       /\ t.now = tx[p].now /\ t.claim = row /\ t.outcome = tx[p].outcome
       /\ t.expired = tx[p].expired
  BY <1>2, <1>6, <1>7, <1>8 DEF Tx, Plan
<1>11. TxOK(t)
  BY <1>2, <1>7, <1>10 DEF TxOK
<1>12. tx'[p] = t
  BY <1>1, <1>9, <1>11, Continues
<1>13. UNCHANGED <<clock, claim, outcome>>
  BY <1>9 DEF Writes
<1>14. Held(p)'
  BY <1>1, <1>2, <1>7, <1>9, <1>10, <1>12, HeldStays DEF Local
<1>15. NextVersion(p)'
  BY <1>1, <1>4, <1>6, <1>7, <1>10, <1>12, <1>13 DEF Local, NextVersion
<1>16. Expiring(p)'
  BY <1>1, <1>6, <1>10, <1>12, <1>13 DEF Local, Expiring
<1>17. OwnOrLapsed(p)'
  BY <1>2, <1>10, <1>12 DEF OwnOrLapsed, Releasers
<1>18. RowFirst(p)'
  <2>1. lock'["claim"] = p /\ lock'["watermark"] = lock["watermark"]
    BY <1>1, <1>9 DEF TypeOK, Take
  <2>2. op # "accept" => op = "release"
    BY <1>2 DEF Releasers
  <2> QED
    BY <1>1, <1>7, <1>9, <1>10, <1>12, <2>1, <2>2, RowFirstKept DEF Local
<1> QED
  BY <1>1, <1>2, <1>7, <1>9, <1>10, <1>11, <1>14, <1>15, <1>16, <1>17, <1>18, WritesOn

\* Deciding a handoff, or expiring one that is pending.
LEMMA DecisionKeeps ==
    ASSUME IInv, NEW p \in Process, NEW st \in {"decide", "expireHandoff"}, At(p, st),
           NEW o \in Outcome \ {"pending"}, NEW t,
           \/ t = [tx[p] EXCEPT !.todo = Rest(p), !.outcome = o]
           \/ /\ t = [tx[p] EXCEPT !.todo = Rest(p), !.outcome = o, !.expired = @ \cup {"handoff"}]
              /\ outcome[tx[p].h] = "pending",
           Available(p, tx[p].h), Continue(p, t), Take(p, tx[p].h), Writes
    PROVE  IInv'
<1> PICK op : op = tx[p].op
  OBVIOUS
<1>1. TypeOK /\ Local(p) /\ "watermark" \in Resource /\ "claim" \in Resource
  BY DEF IInv, Resource
<1>2. /\ tx[p] \in Tx /\ tx[p].todo # <<>> /\ Head(tx[p].todo) = st
      /\ tx[p].actor \in Actor /\ tx[p].h \in HandoffId /\ tx[p].h \in Resource
      /\ op \in Deciders \cup {"reapHandoffs"} /\ Rest(p) = Commits
  BY <1>1, AtPlan, AtStatement DEF Resource
<1>3. op \in AllOperations /\ op # "claim"
  BY <1>2 DEF Deciders, AllOperations
<1>4. /\ Plan(op, Commits) /\ Commits # <<>> /\ Head(Commits) = "commit" /\ ~Before(op, Commits)
      /\ Commits \in Seq(Statements)
  BY <1>3, EndPlans, NextStatement DEF Plan
<1>5. /\ t \in Tx /\ t.op = op /\ t.actor = tx[p].actor /\ t.h = tx[p].h /\ t.todo = Commits
      /\ t.now = tx[p].now /\ t.claim = tx[p].claim /\ t.outcome = o
      /\ t.expired = tx[p].expired
         \/ (t.expired = tx[p].expired \cup {"handoff"} /\ outcome[tx[p].h] = "pending")
  <2>1. CASE t = [tx[p] EXCEPT !.todo = Rest(p), !.outcome = o]
    BY <1>2, <1>4, <2>1 DEF Tx
  <2>2. CASE /\ t = [tx[p] EXCEPT !.todo = Rest(p), !.outcome = o, !.expired = @ \cup {"handoff"}]
             /\ outcome[tx[p].h] = "pending"
    BY <1>2, <1>4, <2>2 DEF Tx
  <2> QED
    BY <2>1, <2>2
<1>6. TxOK(t)
  BY <1>2, <1>4, <1>5 DEF TxOK
<1>7. tx'[p] = t
  BY <1>1, <1>6, Continues
<1>8. UNCHANGED <<clock, claim, outcome>>
  BY DEF Writes
<1>9. Held(p)'
  BY <1>1, <1>2, <1>4, <1>5, <1>7, HeldStays DEF Local
<1>10. NextVersion(p)'
  BY <1>1, <1>4, <1>5, <1>7, <1>8 DEF Local, NextVersion
<1>11. Expiring(p)'
  BY <1>1, <1>5, <1>7, <1>8 DEF Local, Expiring
<1>12. OwnOrLapsed(p)'
  BY <1>3, <1>5, <1>7 DEF OwnOrLapsed
<1>13. RowFirst(p)'
  <2>1. tx[p].h # "watermark"
    BY <1>2
  <2>2. lock'["watermark"] = lock["watermark"]
    BY <1>1, <1>2, <2>1 DEF TypeOK, Take
  <2>3. op # "accept" => lock["watermark"] # p
    BY WatermarkLast
  <2>4. op # "accept" => op \in {"reject", "cancel", "reapHandoffs"}
    BY <1>2 DEF Deciders
  <2> QED
    BY <1>1, <1>2, <1>4, <1>5, <1>7, <2>2, <2>3, <2>4, RowFirstKept DEF Local
<1> QED
  BY <1>2, <1>4, <1>5, <1>6, <1>9, <1>10, <1>11, <1>12, <1>13, WritesOn

LEMMA DecideKeeps ==
    ASSUME IInv, NEW p \in Process, Decide(p)
    PROVE  IInv'
<1>1. At(p, "decide") /\ TypeOK
  BY DEF IInv, Decide
<1>2. tx[p].op \in Deciders
  BY <1>1, AtStatement
<1>3. Decision[tx[p].op] \in Outcome \ {"pending"}
  BY <1>2 DEF Decision, Deciders, Outcome
<1>4. PICK t : t = [tx[p] EXCEPT !.todo = Rest(p), !.outcome = Decision[tx[p].op]]
  OBVIOUS
<1>5. Available(p, tx[p].h) /\ Continue(p, t) /\ Take(p, tx[p].h) /\ Writes
  BY <1>4 DEF Decide
<1> QED
  BY <1>1, <1>3, <1>4, <1>5, DecisionKeeps

LEMMA ExpireHandoffKeeps ==
    ASSUME IInv, NEW p \in Process, ExpireHandoff(p)
    PROVE  IInv'
<1>1. At(p, "expireHandoff") /\ TypeOK
  BY DEF IInv, ExpireHandoff
<1>2. CASE outcome[tx[p].h] = "pending"
  <2>1. PICK t : t = [tx[p] EXCEPT !.todo = Rest(p), !.outcome = "expired", !.expired = @ \cup {"handoff"}]
    OBVIOUS
  <2>2. Available(p, tx[p].h) /\ Continue(p, t) /\ Take(p, tx[p].h) /\ Writes
    BY <1>2, <2>1 DEF ExpireHandoff
  <2>3. "expired" \in Outcome \ {"pending"}
    BY DEF Outcome
  <2> QED
    BY <1>1, <1>2, <2>1, <2>2, <2>3, DecisionKeeps
<1>3. CASE outcome[tx[p].h] # "pending"
  <2>1. PICK t : t = [tx[p] EXCEPT !.todo = Rest(p)]
    OBVIOUS
  <2>2. Continue(p, t) /\ Reads
    BY <1>3, <2>1 DEF ExpireHandoff
  <2>3. Rest(p) = Commits /\ tx[p].op \in Deciders \cup {"reapHandoffs"}
    BY <1>1, AtStatement
  <2>4. tx[p].op \in AllOperations
    BY <2>3 DEF Deciders, AllOperations
  <2>5. /\ Plan(tx[p].op, Rest(p)) /\ Head(Rest(p)) = "commit" /\ ~Before(tx[p].op, Rest(p))
    <3>1. Plan(tx[p].op, Commits)
      BY <2>4, EndPlans
    <3> QED
      BY <2>3, <3>1, NextStatement
  <2>6. Same(p, t)
    BY <2>1, <2>5, GoesOn
  <2>7. t.todo = Rest(p)
    BY <1>1, <2>1 DEF TypeOK, Tx
  <2> QED
    BY <1>1, <2>2, <2>5, <2>6, <2>7, Reading
<1> QED
  BY <1>2, <1>3
-----------------------------------------------------------------------------
(* COMMIT, BEGIN, the clock and the work item. *)

\* What a commit makes of the row: nothing, its next version or its next lease.
LEMMA CommitRow ==
    ASSUME IInv, NEW p \in Process, At(p, "commit")
    PROVE  /\ Row(p) \in ClaimRow \cup {NoRow}
           /\ claim # NoRow => Row(p) # NoRow
           /\ tx[p].claim = NoRow => Row(p) = claim
           /\ tx[p].claim # NoRow => Row(p) = tx[p].claim /\ lock["claim"] = p
           /\ (IF Row(p) = NoRow THEN 0 ELSE Row(p).lease)
                \in {IF claim = NoRow THEN 0 ELSE claim.lease, (IF claim = NoRow THEN 0 ELSE claim.lease) + 1}
<1>1. /\ claim \in ClaimRow \cup {NoRow} /\ tx[p].claim \in ClaimRow \cup {NoRow}
      /\ NextVersion(p) /\ Held(p)
  BY DEF IInv, TypeOK, Tx, Local
<1>2. /\ Row(p) \in ClaimRow \cup {NoRow}
      /\ claim # NoRow => Row(p) # NoRow
  BY <1>1 DEF Row
<1>3. /\ tx[p].claim = NoRow => Row(p) = claim
      /\ tx[p].claim # NoRow => Row(p) = tx[p].claim /\ lock["claim"] = p
  BY <1>1 DEF Row, Held
<1>4. (IF Row(p) = NoRow THEN 0 ELSE Row(p).lease)
        \in {IF claim = NoRow THEN 0 ELSE claim.lease, (IF claim = NoRow THEN 0 ELSE claim.lease) + 1}
  BY <1>1, <1>3 DEF NextVersion
<1> QED
  BY <1>1, <1>2, <1>3, <1>4 DEF Row

LEMMA CommitUnrecorded ==
    ASSUME IInv, NEW p \in Process, Commit(p)
    PROVE  (Unrecorded /\ OneExpiryEach)'
<1>1. /\ TypeOK /\ NextVersion(p) /\ Expiring(p) /\ Unrecorded /\ OneExpiryEach
      /\ claim' = Row(p) /\ tx[p] \in Tx
  BY DEF IInv, Commit, Local, TypeOK
<1>2. /\ Row(p) \in ClaimRow \cup {NoRow}
      /\ claim # NoRow => Row(p) # NoRow
      /\ tx[p].claim = NoRow => Row(p) = claim
      /\ tx[p].claim # NoRow => Row(p) = tx[p].claim
      /\ claim \in ClaimRow \cup {NoRow}
  BY <1>1, CommitRow DEF Commit, TypeOK
<1>3. ASSUME Active(claim') PROVE claimExpiries'[claim'.lease] = 0
  <2>1. claim' \in ClaimRow /\ claim'.lease \in 1..MaxOps
    BY <1>1, <1>2, <1>3 DEF Active, ClaimRow
  <2>2. claimExpiries[claim'.lease] = 0
    <3>1. CASE tx[p].claim = NoRow
      BY <1>1, <1>2, <1>3, <3>1 DEF Unrecorded
    <3>2. CASE tx[p].claim # NoRow /\ claim = NoRow
      BY <1>1, <2>1, <3>2 DEF Unrecorded
    <3>3. CASE tx[p].claim # NoRow /\ claim # NoRow /\ claim'.lease = claim.lease
      BY <1>1, <1>2, <1>3, <3>3 DEF Unrecorded, NextVersion
    <3>4. CASE tx[p].claim # NoRow /\ claim # NoRow /\ claim'.lease # claim.lease
      <4>1. claim'.lease = claim.lease + 1 /\ claim.lease \in Nat
        BY <1>1, <1>2, <3>4 DEF NextVersion, ClaimRow
      <4>2. claim'.lease > claim.lease
        BY <4>1
      <4> QED
        BY <1>1, <2>1, <4>2 DEF Unrecorded
    <3> QED
      BY <3>1, <3>2, <3>3, <3>4
  <2>3. "claim" \in tx[p].expired => claim'.lease # claim.lease
    BY <1>1, <1>2, <1>3 DEF Expiring
  <2> QED
    BY <1>1, <2>1, <2>2, <2>3 DEF Commit, TypeOK
<1>4. ASSUME NEW l \in 1..MaxOps, claim' = NoRow \/ l > claim'.lease
      PROVE  claimExpiries'[l] = 0
  <2>1. claim = NoRow \/ (claim.lease \in Nat /\ l > claim.lease)
    <3>1. CASE claim = NoRow
      BY <3>1
    <3>2. CASE claim # NoRow
      <4>1. Row(p) # NoRow /\ claim.lease \in Nat /\ Row(p).lease \in Nat /\ l > Row(p).lease
        BY <1>1, <1>2, <1>4, <3>2 DEF ClaimRow
      <4>2. Row(p).lease \in {claim.lease, claim.lease + 1}
        BY <1>1, <1>2, <3>2 DEF NextVersion
      <4> QED
        BY <4>1, <4>2
    <3> QED
      BY <3>1, <3>2
  <2>2. claimExpiries[l] = 0
    BY <1>1, <2>1 DEF Unrecorded
  <2>3. "claim" \in tx[p].expired => claim # NoRow /\ l # claim.lease
    BY <1>1, <2>1 DEF Expiring, Active
  <2> QED
    BY <1>1, <2>2, <2>3 DEF Commit, TypeOK
<1>5. ASSUME NEW h \in HandoffId, outcome'[h] = "pending" PROVE handoffExpiries'[h] = 0
  <2>1. tx[p].outcome # "pending" => tx[p].h # h
    BY <1>1, <1>5 DEF Commit, TypeOK
  <2>2. outcome[h] = "pending"
    BY <1>1, <1>5, <2>1 DEF Commit, TypeOK
  <2>3. "handoff" \in tx[p].expired => tx[p].h # h
    BY <1>1, <2>1 DEF Expiring
  <2> QED
    BY <1>1, <2>2, <2>3 DEF Commit, TypeOK, Unrecorded
<1>6. ASSUME NEW l \in 1..MaxOps PROVE claimExpiries'[l] <= 1
  <2>1. "claim" \in tx[p].expired => claimExpiries[claim.lease] = 0
    BY <1>1 DEF Expiring, Unrecorded
  <2> QED
    BY <1>1, <2>1 DEF Commit, TypeOK, OneExpiryEach
<1>7. ASSUME NEW h \in HandoffId PROVE handoffExpiries'[h] <= 1
  <2>1. "handoff" \in tx[p].expired /\ tx[p].h = h => handoffExpiries[h] = 0
    BY <1>1 DEF Expiring, Unrecorded
  <2> QED
    BY <1>1, <2>1 DEF Commit, TypeOK, OneExpiryEach
<1> QED
  BY <1>3, <1>4, <1>5, <1>6, <1>7 DEF Unrecorded, OneExpiryEach

\* A commit does not change what the others know: what they have written they
\* have the locks of.
LEMMA OthersOverCommit ==
    ASSUME IInv, NEW p \in Process, Commit(p), NEW q \in Process, q # p
    PROVE  Local(q)'
<1>1. /\ TypeOK /\ Local(q) /\ Held(p) /\ At(p, "commit") /\ claim' = Row(p) /\ clock' = clock
      /\ lock' = Unlocked(p) /\ tx'[q] = tx[q]
      /\ "claim" \in Resource /\ "watermark" \in Resource
  BY DEF IInv, Commit, Local, TypeOK, Resource
<1>2. \A r \in Resource : lock'[r] = q <=> lock[r] = q
  BY <1>1, Unlocks
<1>3. /\ claim # NoRow => claim' # NoRow
      /\ tx[p].claim = NoRow => claim' = claim
      /\ tx[p].claim # NoRow => lock["claim"] = p
  BY <1>1, CommitRow
<1>4. tx[q].claim # NoRow => claim' = claim
  BY <1>1, <1>3 DEF Local, Held
<1>5. tx[q].outcome # "pending" => tx[q].h \in HandoffId /\ tx[q].h \in Resource
  BY <1>1, IdleOK DEF TypeOK, TxOK, Resource
<1>6. tx[q].outcome # "pending" => outcome'[tx[q].h] = outcome[tx[q].h]
  <2>1. tx[q].outcome # "pending" => lock[tx[q].h] = q
    BY <1>1 DEF Local, Held
  <2>2. tx[p].outcome # "pending" => lock[tx[p].h] = p
    BY <1>1 DEF Held
  <2>3. tx[q].outcome # "pending" /\ tx[p].outcome # "pending" => tx[q].h # tx[p].h
    BY <2>1, <2>2
  <2> QED
    BY <1>1, <1>5, <2>3 DEF Commit, TypeOK
<1>7. Held(q)'
  BY <1>1, <1>2, <1>5 DEF Local, Held
<1>8. NextVersion(q)'
  BY <1>1, <1>3, <1>4 DEF Local, NextVersion
<1>9. Expiring(q)'
  BY <1>1, <1>4, <1>6 DEF Local, Expiring
<1>10. OwnOrLapsed(q)'
  BY <1>1, <1>4 DEF Local, OwnOrLapsed
<1>11. RowFirst(q)'
  BY <1>1, <1>2 DEF Local, RowFirst, Resource
<1> QED
  BY <1>7, <1>8, <1>9, <1>10, <1>11 DEF Local

LEMMA CommitKeeps ==
    ASSUME IInv, NEW p \in Process, Commit(p)
    PROVE  IInv'
<1>1. /\ TypeOK /\ LeasesCounted /\ At(p, "commit") /\ tx[p].todo # <<>> /\ tx[p] \in Tx
      /\ tx' = [tx EXCEPT ![p] = Idle] /\ claim' = Row(p) /\ started' = started /\ clock' = clock
      /\ tx[p].h \in HandoffId
  BY AtPlan DEF IInv, Commit
<1>2. /\ tx' \in [Process -> Tx] /\ tx'[p] = Idle /\ \A q \in Process : TxOK(tx'[q])
  BY <1>1, IdleOK, Continues DEF Continue
<1>3. /\ Row(p) \in ClaimRow \cup {NoRow}
      /\ (IF Row(p) = NoRow THEN 0 ELSE Row(p).lease)
           \in {IF claim = NoRow THEN 0 ELSE claim.lease, (IF claim = NoRow THEN 0 ELSE claim.lease) + 1}
  BY <1>1, CommitRow
<1>4. TypeOK'
  <2>1. outcome' \in [HandoffId -> Outcome]
    BY <1>1 DEF Commit, TypeOK, Tx
  <2>2. claimExpiries' \in [1..MaxOps -> Nat] /\ handoffExpiries' \in [HandoffId -> Nat]
    <3>1. /\ claimExpiries \in [1..MaxOps -> Nat] /\ handoffExpiries \in [HandoffId -> Nat]
          /\ tx[p].h \in HandoffId
      BY <1>1 DEF TypeOK
    <3>2. claimExpiries' \in [1..MaxOps -> Nat]
      <4>1. "claim" \in tx[p].expired => claim.lease \in 1..MaxOps
        BY <1>1 DEF IInv, Local, Expiring, Active, TypeOK, ClaimRow
      <4>2. CASE "claim" \in tx[p].expired
        <5>1. claimExpiries' = [claimExpiries EXCEPT ![claim.lease] = @ + 1]
          BY <4>2 DEF Commit
        <5> QED
          BY <3>1, <4>1, <4>2, <5>1
      <4>3. CASE "claim" \notin tx[p].expired
        BY <3>1, <4>3 DEF Commit
      <4> QED
        BY <4>2, <4>3
    <3>3. handoffExpiries' \in [HandoffId -> Nat]
      BY <3>1 DEF Commit
    <3> QED
      BY <3>2, <3>3
  <2>3. lock' \in [Resource -> Process \cup {Free}]
    BY <1>1, Unlocks DEF Commit
  <2> QED
    BY <1>1, <1>2, <1>3, <2>1, <2>2, <2>3 DEF TypeOK, Commit
<1>5. LeasesCounted'
  <2>1. IsFiniteSet(Running') /\ Cardinality(Running') = Cardinality(Running) - 1
    BY <1>1, Ends
  <2>2. Cardinality(Running) \in Nat
    BY <1>1, FS_CardinalityType DEF LeasesCounted
  <2>3. (IF claim = NoRow THEN 0 ELSE claim.lease) \in Nat
    BY <1>1 DEF TypeOK, ClaimRow
  <2>4. (IF claim' = NoRow THEN 0 ELSE claim'.lease) + Cardinality(Running') <= started
    BY <1>1, <1>3, <2>1, <2>2, <2>3 DEF LeasesCounted, TypeOK
  <2> QED
    BY <1>1, <2>1, <2>4 DEF LeasesCounted
<1>6. Local(p)'
  BY <1>1, <1>2, Unlocks, LocalIdle DEF Commit, TypeOK
<1>7. \A q \in Process : Local(q)'
  BY <1>6, OthersOverCommit
<1> QED
  BY <1>4, <1>5, <1>7, CommitUnrecorded DEF IInv
LEMMA ThreeSteps ==
    ASSUME NEW x \in Statements, NEW y \in Statements, NEW z \in Statements
    PROVE  <<x, y, z>> = Do(x, Do(y, Do(z, <<>>)))
<1>1. PICK e : e = <<>>
  OBVIOUS
<1>2. e \in Seq(Statements)
  BY <1>1
<1>3. <<x, y, z>> \o e = Do(x, Do(y, Do(z, e)))
  BY <1>2, ConcatenatesThree
<1>4. <<x, y, z>> \o <<>> = <<x, y, z>>
  OBVIOUS
<1> QED
  BY <1>1, <1>3, <1>4

LEMMA TwoSteps ==
    ASSUME NEW x \in Statements, NEW y \in Statements
    PROVE  <<x, y>> = Do(x, Do(y, <<>>))
<1>1. <<x, y>> = <<x, y>> \o <<>>
  OBVIOUS
<1>2. <<>> \in Seq(Statements)
  OBVIOUS
<1> QED
  BY <1>1, <1>2, Concatenates

\* Every program is a plan of its operation.
LEMMA Programs ==
    ASSUME NEW op \in AllOperations
    PROVE  Plan(op, Program(op)) /\ Head(Program(op)) \notin {"extend", "release", "log"}
<1>0. /\ \A st \in {"readItem", "readClaim", "upsert", "log", "checkRenew", "extend", "checkRelease",
                    "release", "readHandoff", "readOwner", "decide", "lockStaleClaims",
                    "lockStaleHandoff", "commit"} : st \in Statements
      /\ Claiming = <<"readItem", "readClaim", "upsert">>
  BY DEF Statements, Claiming
<1>1. CASE op = "claim"
  <2>1. <<"commit">> = Commits
    <3>1. <<"commit">> = <<"commit">> \o <<>>
      OBVIOUS
    <3> QED
      BY <3>1 DEF Commits, Do
  <2>2. Program(op) = <<"readItem", "readClaim", "upsert">> \o End(op)
    BY <1>0, <1>1, <2>1 DEF Program, End
  <2>3. <<"readItem", "readClaim", "upsert">> \o End(op) = Claims(op)
    <3>1. End(op) \in Seq(Statements)
      BY PlanSeqs
    <3>2. "readItem" \in Statements /\ "readClaim" \in Statements /\ "upsert" \in Statements
      BY <1>0
    <3>3. <<"readItem", "readClaim", "upsert">> \o End(op)
            = Do("readItem", Do("readClaim", Do("upsert", End(op))))
      BY <3>1, <3>2, ConcatenatesThree
    <3> QED
      BY <3>3 DEF Claims, Upserting
  <2> QED
    BY <1>1, <2>2, <2>3, ClaimPlans, NextStatement DEF Claimers
<1>2. CASE op = "renew"
  <2>1. Program(op) = <<"checkRenew", "extend", "commit">>
    BY <1>2 DEF Program
  <2>2. <<"checkRenew", "extend", "commit">> = Do("checkRenew", Do("extend", Do("commit", <<>>)))
    BY <1>0, ThreeSteps
  <2>3. Program(op) = Do("checkRenew", Extending(op))
    BY <1>2, <2>1, <2>2 DEF Extending, End, Commits
  <2> QED
    BY <1>2, <2>3, EndPlans, DoHeads DEF Renewers
<1>3. CASE op = "release"
  <2>1. Program(op) = <<"checkRelease", "release", "commit">>
    BY <1>3 DEF Program
  <2>2. <<"checkRelease", "release", "commit">> = Do("checkRelease", Do("release", Do("commit", <<>>)))
    BY <1>0, ThreeSteps
  <2>3. Program(op) = Do("checkRelease", Releases(op))
    BY <1>3, <2>1, <2>2 DEF Releases, Released, Commits
  <2> QED
    BY <1>3, <2>3, ReleasePlans, DoHeads DEF Releasers
<1>4. CASE op = "accept"
  <2>1. PICK l : l = <<"log", "decide", "commit">>
    OBVIOUS
  <2>2. PICK c : c = <<"readItem", "readClaim", "upsert">>
    OBVIOUS
  <2>3. PICK r : r = <<"readHandoff", "readOwner">>
    OBVIOUS
  <2>4. l = End(op) /\ l \in Seq(Statements)
    <3>1. <<"log", "decide", "commit">> = Do("log", Do("decide", Do("commit", <<>>)))
      BY <1>0, ThreeSteps
    <3>2. l = End(op)
      BY <1>4, <2>1, <3>1 DEF End, Deciding, Commits
    <3> QED
      BY <3>2, PlanSeqs
  <2>5. c \in Seq(Statements) /\ r \in Seq(Statements)
    BY <1>0, <2>2, <2>3
  <2>6. Program(op) = (r \o c) \o l
    BY <1>0, <1>4, <2>1, <2>2, <2>3 DEF Program
  <2>7. (r \o c) \o l = r \o (c \o l)
    <3>1. ASSUME NEW x \in Seq(Statements), NEW y \in Seq(Statements), NEW z \in Seq(Statements)
          PROVE  (x \o y) \o z = x \o (y \o z)
      BY ConcatAssociative
    <3> QED
      BY <2>4, <2>5, <3>1
  <2>8. c \o l = Claims(op)
    BY <1>0, <2>2, <2>4, ConcatenatesThree DEF Claims, Upserting
  <2>9. r \o Claims(op) = Do("readHandoff", Do("readOwner", Claims(op)))
    <3>1. Claims(op) \in Seq(Statements) /\ "readHandoff" \in Statements /\ "readOwner" \in Statements
      BY <1>0, PlanSeqs
    <3>2. <<"readHandoff", "readOwner">> \o Claims(op) = Do("readHandoff", Do("readOwner", Claims(op)))
      BY <3>1, Concatenates
    <3> QED
      BY <2>3, <3>2
  <2>10. Program(op) = Do("readHandoff", Do("readOwner", Claims(op)))
    BY <2>6, <2>7, <2>8, <2>9
  <2> QED
    BY <1>4, <2>10, DecisionPlans, DoHeads DEF Deciders
<1>5. CASE op \in {"reject", "cancel"}
  <2>1. Program(op) = <<"readHandoff", "decide", "commit">>
    BY <1>5 DEF Program
  <2>2. <<"readHandoff", "decide", "commit">> = Do("readHandoff", Do("decide", Do("commit", <<>>)))
    BY <1>0, ThreeSteps
  <2>3. Program(op) = Do("readHandoff", Deciding)
    BY <2>1, <2>2 DEF Deciding, Commits
  <2> QED
    BY <1>5, <2>3, DecisionPlans, DoHeads DEF Deciders
<1>6. CASE op = "reapClaims"
  <2>1. Program(op) = <<"lockStaleClaims", "commit">>
    BY <1>6 DEF Program
  <2>2. <<"lockStaleClaims", "commit">> = Do("lockStaleClaims", Do("commit", <<>>))
    BY <1>0, TwoSteps
  <2>3. Program(op) = Do("lockStaleClaims", Commits)
    BY <2>1, <2>2 DEF Commits
  <2> QED
    BY <1>6, <2>3, DecisionPlans, DoHeads
<1>7. CASE op = "reapHandoffs"
  <2>1. Program(op) = <<"lockStaleHandoff", "commit">>
    BY <1>7 DEF Program
  <2>2. <<"lockStaleHandoff", "commit">> = Do("lockStaleHandoff", Do("commit", <<>>))
    BY <1>0, TwoSteps
  <2>3. Program(op) = Do("lockStaleHandoff", Commits)
    BY <2>1, <2>2 DEF Commits
  <2> QED
    BY <1>7, <2>3, DecisionPlans, DoHeads
<1> QED
  BY <1>1, <1>2, <1>3, <1>4, <1>5, <1>6, <1>7 DEF AllOperations

LEMMA BeginKeeps ==
    ASSUME IInv, NEW p \in Process, NEW op \in Operations, NEW a \in Actor, NEW h \in HandoffId,
           Begin(p, op, a, h)
    PROVE  IInv'
<1>1. /\ TypeOK /\ LeasesCounted /\ Local(p) /\ op \in AllOperations /\ tx[p].todo = <<>>
      /\ tx[p] = Idle /\ started < MaxOps /\ started' = started + 1
      /\ UNCHANGED <<clock, item, claim, outcome, lock, events>>
  BY DEF IInv, Begin, TypeOK, TxOK
<1>2. PICK s : s = Program(op)
  OBVIOUS
<1>3. Plan(op, s) /\ Head(s) \notin {"extend", "release", "log"} /\ s # <<>> /\ s \in Seq(Statements)
  BY <1>1, <1>2, Programs DEF Plan
<1>4. PICK t : t = [Idle EXCEPT !.op = op, !.actor = a, !.h = h, !.todo = s, !.now = clock]
  OBVIOUS
<1>5. Continue(p, t)
  BY <1>2, <1>4 DEF Begin, Continue
<1>6. /\ t \in Tx /\ t.op = op /\ t.actor = a /\ t.h = h /\ t.todo = s /\ t.now = clock
      /\ t.claim = NoRow /\ t.outcome = "pending" /\ t.expired = {}
  BY <1>1, <1>3, <1>4 DEF Tx, Idle, Outcome, TypeOK
<1>7. TxOK(t)
  BY <1>3, <1>6 DEF TxOK
<1>8. /\ tx' \in [Process -> Tx] /\ tx'[p] = t /\ \A q \in Process : TxOK(tx'[q])
      /\ \A q \in Process : q # p => tx'[q] = tx[q]
  BY <1>1, <1>5, <1>7, Continues
<1>9. TypeOK'
  BY <1>1, <1>8 DEF TypeOK, events
<1>10. LeasesCounted'
  <2>1. Running' = Running \cup {p} /\ p \notin Running
    BY <1>1, <1>3, <1>6, <1>8 DEF Running
  <2>2. IsFiniteSet(Running') /\ Cardinality(Running') = Cardinality(Running) + 1
    BY <1>1, <2>1, FS_AddElement DEF LeasesCounted
  <2>3. Cardinality(Running) \in Nat /\ (IF claim = NoRow THEN 0 ELSE claim.lease) \in Nat
    BY <1>1, FS_CardinalityType DEF LeasesCounted, TypeOK, ClaimRow
  <2> QED
    BY <1>1, <2>2, <2>3 DEF LeasesCounted, TypeOK
<1>11. Unrecorded' /\ OneExpiryEach'
  BY <1>1 DEF IInv, Unrecorded, OneExpiryEach, events, Active
<1>12. \A r \in Resource : lock'[r] # p
  BY <1>1 DEF Local, Held
<1>13. Local(p)'
  <2>1. Held(p)'
    BY <1>6, <1>8, <1>12 DEF Held
  <2>2. NextVersion(p)'
    BY <1>1, <1>3, <1>6, <1>8 DEF NextVersion, TypeOK
  <2>3. Expiring(p)' /\ OwnOrLapsed(p)'
    BY <1>6, <1>8 DEF Expiring, OwnOrLapsed
  <2>4. RowFirst(p)'
    BY <1>3, <1>6, <1>8, <1>12 DEF RowFirst, Resource
  <2> QED
    BY <2>1, <2>2, <2>3, <2>4 DEF Local
<1>14. ASSUME NEW q \in Process, q # p PROVE Local(q)'
  BY <1>1, <1>8, <1>14, OthersKeep DEF IInv
<1> QED
  BY <1>9, <1>10, <1>11, <1>13, <1>14 DEF IInv

LEMMA TickKeeps ==
    ASSUME IInv, Tick
    PROVE  IInv'
<1>1. /\ TypeOK /\ clock \in Nat /\ clock' = clock + 1
      /\ UNCHANGED <<item, claim, outcome, lock, tx, started, events>>
  BY DEF IInv, Tick, TypeOK
<1>2. TypeOK'
  BY <1>1 DEF TypeOK, events
<1>3. LeasesCounted' /\ Unrecorded' /\ OneExpiryEach'
  BY <1>1 DEF IInv, LeasesCounted, Running, Unrecorded, OneExpiryEach, events, Active
<1>4. ASSUME NEW p \in Process PROVE Local(p)'
  <2>1. Local(p) /\ tx[p] \in Tx
    BY <1>1 DEF IInv, TypeOK
  <2>2. Held(p)' /\ Expiring(p)' /\ RowFirst(p)'
    BY <1>1, <2>1 DEF Local, Held, Expiring, RowFirst, Active
  <2>3. NextVersion(p)'
    BY <1>1, <2>1 DEF Local, NextVersion, Tx, Active
  <2>4. Live(claim, clock)' => Live(claim, clock)
    BY <1>1 DEF Live, Active, TypeOK, ClaimRow
  <2>5. OwnOrLapsed(p)'
    BY <1>1, <2>1, <2>4 DEF Local, OwnOrLapsed
  <2> QED
    BY <2>2, <2>3, <2>5 DEF Local
<1> QED
  BY <1>2, <1>3, <1>4 DEF IInv
LEMMA FinishItemKeeps ==
    ASSUME IInv, FinishItem
    PROVE  IInv'
<1>1. TypeOK /\ item' = "done" /\ UNCHANGED <<clock, claim, outcome, lock, tx, started, events>>
  BY DEF IInv, FinishItem
<1>2. TypeOK'
  BY <1>1 DEF TypeOK, events
<1>3. LeasesCounted' /\ Unrecorded' /\ OneExpiryEach'
  BY <1>1 DEF IInv, LeasesCounted, Running, Unrecorded, OneExpiryEach, events, Active
<1>4. ASSUME NEW p \in Process PROVE Local(p)'
  BY <1>1, OthersKeep DEF IInv
<1> QED
  BY <1>2, <1>3, <1>4 DEF IInv

-----------------------------------------------------------------------------
(* The theorems. *)

LEMMA InitIInv == Init => IInv
<1> SUFFICES ASSUME Init PROVE IInv
  OBVIOUS
<1>1. tx \in [Process -> Tx] /\ \A p \in Process : tx[p] = Idle /\ TxOK(tx[p])
  BY IdleOK DEF Init, TxOK
<1>2. TypeOK
  BY <1>1 DEF Init, TypeOK, Outcome
<1>3. LeasesCounted
  <2>1. Running = {}
    BY <1>1, IdleOK DEF Running
  <2> QED
    BY <2>1, FS_EmptySet DEF LeasesCounted, Init
<1>4. Unrecorded /\ OneExpiryEach
  BY DEF Init, Unrecorded, OneExpiryEach, Active
<1>5. ASSUME NEW p \in Process PROVE Local(p)
  <2>1. tx[p] = Idle /\ clock = 0 /\ claim = NoRow /\ \A r \in Resource : lock[r] # p
    BY <1>1 DEF Init
  <2>2. Held(p) /\ NextVersion(p) /\ Expiring(p) /\ OwnOrLapsed(p)
    BY <2>1, IdleOK DEF Held, NextVersion, Expiring, OwnOrLapsed
  <2>3. RowFirst(p)
    BY <2>1, IdleOK DEF RowFirst, Resource
  <2> QED
    BY <2>2, <2>3 DEF Local
<1> QED
  BY <1>2, <1>3, <1>4, <1>5 DEF IInv

LEMMA NextIInv == IInv /\ [Next]_vars => IInv'
<1> SUFFICES ASSUME IInv, [Next]_vars PROVE IInv'
  OBVIOUS
<1>1. CASE Tick
  BY <1>1, TickKeeps
<1>2. CASE FinishItem
  BY <1>2, FinishItemKeeps
<1>3. CASE \E p \in Process, op \in Operations, a \in Actor, h \in HandoffId : Begin(p, op, a, h)
  BY <1>3, BeginKeeps
<1>4. ASSUME NEW p \in Process, Statement(p) PROVE IInv'
  <2>1. CASE ReadItem(p) \/ ReadClaim(p) \/ CheckRenew(p) \/ CheckRelease(p)
    BY <2>1, ReadItemKeeps, ReadClaimKeeps, CheckRenewKeeps, CheckReleaseKeeps
  <2>2. CASE ReadHandoff(p) \/ ReadOwner(p) \/ LockStaleClaims(p) \/ LockStaleHandoff(p) \/ Log(p)
    BY <2>2, ReadHandoffKeeps, ReadOwnerKeeps, LockStaleClaimsKeeps, LockStaleHandoffKeeps, LogKeeps
  <2>3. CASE Expire(p) \/ Upsert(p) \/ Extend(p) \/ Release(p)
    BY <2>3, ExpireKeeps, UpsertKeeps, ExtendKeeps, ReleaseKeeps
  <2>4. CASE Decide(p) \/ ExpireHandoff(p) \/ Commit(p)
    BY <2>4, DecideKeeps, ExpireHandoffKeeps, CommitKeeps
  <2>5. CASE DeadlockVictim(p)
    <3>1. tx[p].todo # <<>> /\ Rollback(p)
      BY <2>5 DEF DeadlockVictim, Deadlocked, Waits, Needs
    <3> QED
      BY <3>1, RollsBack
  <2> QED
    BY <1>4, <2>1, <2>2, <2>3, <2>4, <2>5 DEF Statement
<1>5. CASE UNCHANGED vars
  <2>1. /\ TypeOK /\ TypeOK' /\ LeasesCounted' /\ Unrecorded' /\ OneExpiryEach'
        /\ UNCHANGED <<clock, claim, outcome, lock, tx>>
    BY <1>5 DEF IInv, vars, TypeOK, LeasesCounted, Running, Unrecorded, OneExpiryEach, Active
  <2>2. ASSUME NEW p \in Process PROVE Local(p)'
    BY <2>1, OthersKeep DEF IInv
  <2> QED
    BY <2>1, <2>2 DEF IInv
<1> QED
  BY <1>1, <1>2, <1>3, <1>4, <1>5 DEF Next

THEOREM Inductive == Spec => []IInv
BY InitIInv, NextIInv, PTL DEF Spec
\* The lease of a claim that lapses, and a handoff that lapses, is recorded as
\* expired at most once: the guarded UPDATE finds the row active, or the handoff
\* pending, only for the first operation to get its lock.
THEOREM ExpiresOnce == Spec => []OneExpiryEach
<1>1. IInv => OneExpiryEach
  BY DEF IInv
<1> QED
  BY <1>1, Inductive, PTL

\* A claim that commits over a live lease commits over the claimant's own.
THEOREM NeverSteals == Spec => ClaimNeverSteals
<1>1. ASSUME IInv, NEW p \in Process, Committed(p), tx[p].op = "claim", claim' # claim, Live(claim, clock)
      PROVE  claim'.actor = claim.actor
  <2>1. claim' = Row(p) /\ tx[p].claim # NoRow /\ claim' = tx[p].claim
    BY <1>1 DEF Committed, Row
  <2> QED
    BY <1>1, <2>1 DEF IInv, Local, OwnOrLapsed
<1>2. IInv /\ [Next]_vars =>
        [\A p \in Process :
            Committed(p) /\ tx[p].op = "claim" /\ claim' # claim /\ Live(claim, clock)
              => claim'.actor = claim.actor]_vars
  BY <1>1
<1> QED
  BY <1>2, Inductive, PTL DEF Spec, ClaimNeverSteals

\* The lock an operation waits for, by the statement it is at.
LEMMA WaitsFor ==
    ASSUME IInv, NEW p \in Process, NEW q \in Process, Waits(p, q)
    PROVE  /\ tx[p].todo # <<>>
           /\ \/ /\ lock["claim"] = q /\ lock["claim"] # p
                 /\ Head(tx[p].todo) \in {"expire", "upsert", "extend", "release"}
                 /\ tx[p].op \in Expirers \cup Releasers
              \/ /\ lock[tx[p].h] = q /\ lock[tx[p].h] # p /\ tx[p].h \in HandoffId
                 /\ tx[p].op \in Deciders \cup {"reapHandoffs"}
                 /\ Head(tx[p].todo) \in {"decide", "expireHandoff"}
              \/ lock["watermark"] = q /\ Head(tx[p].todo) \in {"log", "commit"}
<1> PICK st : st = Head(tx[p].todo)
  OBVIOUS
<1>1. TypeOK /\ tx[p].todo # <<>> /\ p # q
  BY DEF IInv, Waits, Needs
<1>2. At(p, st)
  BY <1>1 DEF At
<1>3. PICK x \in Needs(p) : lock[x] = q
  BY DEF Waits
<1>4. \/ x = "claim" /\ st \in {"expire", "upsert", "extend", "release"}
      \/ x = tx[p].h /\ st \in {"decide", "expireHandoff"}
      \/ x = "watermark" /\ st \in {"log", "commit"}
  BY <1>1, <1>3 DEF Needs
<1>5. st \in {"expire", "upsert", "extend", "release"} => tx[p].op \in Expirers \cup Releasers
  BY <1>1, <1>2, AtStatement DEF Expirers, Renewers, Releasers, Claimers
<1>6. st \in {"decide", "expireHandoff"} => tx[p].op \in Deciders \cup {"reapHandoffs"}
  BY <1>1, <1>2, AtStatement
<1>7. tx[p].h \in HandoffId
  BY <1>1, <1>2, AtPlan
<1> QED
  BY <1>1, <1>3, <1>4, <1>5, <1>6, <1>7

\* An operation that is not acceptHandoff and holds a lock waits for the
\* watermark only, and for nothing once it has the watermark.
LEMMA HolderWaits ==
    ASSUME IInv, NEW p \in Process, NEW q \in Process, Waits(p, q), tx[p].op # "accept",
           NEW r \in Resource, lock[r] = p
    PROVE  lock["watermark"] = q /\ lock["watermark"] # p
<1>1. RowFirst(p) /\ p # q
  BY DEF IInv, Local, Waits
<1>2. lock["watermark"] # p
  <2> SUFFICES ASSUME lock["watermark"] = p PROVE FALSE
    OBVIOUS
  <2>1. lock["claim"] = p /\ tx[p].todo \in {Upserting(tx[p].op), Commits}
    BY <1>1 DEF RowFirst
  <2>2. Head(tx[p].todo) \in {"upsert", "commit"}
    BY <2>1, PlanHeads
  <2> QED
    BY <1>1, <2>1, <2>2, WaitsFor
<1>3. \/ lock["claim"] = p /\ tx[p].op \in {"claim", "renew", "release", "reapClaims"}
      \/ /\ r = tx[p].h /\ lock[tx[p].h] = p
         /\ tx[p].op \in {"reject", "cancel", "reapHandoffs"}
  BY <1>1, <1>2 DEF RowFirst, Resource
<1>4. tx[p].op \notin (Expirers \cup Releasers) \cap {"reject", "cancel", "reapHandoffs"}
  BY DEF Expirers, Releasers, Renewers
<1>5. tx[p].op \notin (Deciders \cup {"reapHandoffs"}) \cap {"claim", "renew", "release", "reapClaims"}
  BY DEF Deciders
<1> QED
  BY <1>2, <1>3, <1>4, <1>5, WaitsFor

LEMMA NoCircle == IInv => DeadlockNeedsAccept
<1> SUFFICES ASSUME IInv, NEW p \in Process, Deadlocked(p), \A q \in Process : tx[q].op # "accept"
             PROVE  FALSE
  BY DEF DeadlockNeedsAccept
<1>1. PICK q \in Process : /\ Waits(p, q)
                           /\ \/ Waits(q, p)
                              \/ \E r \in Process : Waits(q, r) /\ Waits(r, p)
  BY DEF Deadlocked
<1>2. \A a, b \in Process : Waits(a, b) => \E x \in Resource : lock[x] = b
  BY WaitsFor DEF Resource
<1>3. PICK r \in Process : Waits(q, r)
  BY <1>1
<1>4. \E x \in Resource : lock[x] = p
  BY <1>1, <1>2
<1>5. \E x \in Resource : lock[x] = q
  BY <1>1, <1>2
<1>6. lock["watermark"] = q
  BY <1>1, <1>4, HolderWaits
<1>7. lock["watermark"] # q
  BY <1>3, <1>5, HolderWaits
<1> QED
  BY <1>6, <1>7

\* A circle of waits has an acceptHandoff in it: every other operation takes one
\* row, the watermark after it, and nothing after the watermark.
THEOREM DeadlocksThroughAccept == Spec => []DeadlockNeedsAccept
BY NoCircle, Inductive, PTL
=============================================================================
