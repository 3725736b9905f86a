------------------------------ MODULE Knowledge ------------------------------
(* The long-term facts of one scope and the calls that change them: learnFact, *)
(* extractKnowledge, reverifyKnowledge and runMaintenance.  Every statement of *)
(* an adapter is atomic and so is the promotion of one fact; the calls await   *)
(* between them - the extractor's verifier, the evidence, every row of a       *)
(* maintenance pass - and go on with the rows they read before.                *)
EXTENDS Trust

CONSTANTS
    Extraction,   \* calls of extractKnowledge that may overlap
    Verify,       \* callers of reverifyKnowledge
    Fact,         \* [slot, value, negated]
    Protected,    \* slots of constraints; those of the others hold project facts
    Evidence,     \* what the source turns may say about a fact
    Strategies,   \* a subset of "supersede", "keep_both", "skip"
    History,      \* the rows that earlier calls have left
    MaxActive,    \* maxActiveKnowledgeItems
    MaxCalls,     \* bound: calls, and facts that extractions look at
    Overlap,      \* bound: calls under way at a time
    MaxRows       \* bound: rows of knowledge_memory

ASSUME KnowledgeAssumption ==
    /\ Fact \subseteq [slot : {f.slot : f \in Fact}, value : {f.value : f \in Fact},
                       negated : BOOLEAN] /\ Fact # {}
    /\ Evidence \subseteq Seq(Item)
    /\ Strategies \subseteq {"supersede", "keep_both", "skip"} /\ Strategies # {}
    /\ MaxActive \in Nat /\ MaxCalls \in Nat /\ Overlap \in Nat /\ MaxRows \in Nat

VARIABLES
    rows,    \* knowledge_memory by id
    ext,     \* extraction -> where it is
    check,   \* caller of reverifyKnowledge -> the row it has read, if any
    calls,   \* how many calls were made and facts looked at
    maint    \* the maintenance of the scope

vars == <<rows, ext, check, calls, maint>>

States == {"candidate", "provisional", "trusted", "disputed", "superseded"}
Row == [fact : Fact, negated : BOOLEAN, slotted : BOOLEAN, state : States,
        retired : BOOLEAN, by : 0..MaxRows,
        stale : BOOLEAN,      \* not used for longer than its retention
        due : BOOLEAN,        \* the date of its reverification has passed
        confirmed : BOOLEAN,
        ev : Evidence \cup {<<>>}, manual : BOOLEAN,
        saw : SUBSET (1..MaxRows)]  \* history: the active rows its maker could know

\* Rows that are left are current: what they replaced is not among them.
ASSUME HistoryAssumption ==
    \A h \in History :
        /\ h \in Seq(Row) /\ Len(h) <= MaxRows
        /\ \A r \in DOMAIN h : h[r].by = 0 /\ h[r].saw = {}

Active(r) == rows[r].by = 0 /\ ~rows[r].retired
ActiveIds == {r \in DOMAIN rows : Active(r)}
Core(row) == row.state = "trusted" /\ row.fact.slot \in Protected

Maintenance == "maintenance"  \* runMaintenance of the manager reverifies, too
Verifier == Verify \cup {Maintenance}

\* The calls under way.
Busy == {e \in Extraction : ext[e].step # "idle"} \cup {v \in Verify : check[v] # <<>>}
        \cup {m \in {Maintenance} : maint.phase # "idle"}
Free == Cardinality(Busy) < Overlap
Called == calls < MaxCalls /\ calls' = calls + 1

NoFact == [fact |-> CHOOSE f \in Fact : TRUE, relation |-> "none", related |-> 0]
\* An extraction knows rows by the state they had when it read them; seen is
\* history: which rows it could know.
IdleExtraction == [step |-> "idle", known |-> <<>>, seen |-> {}, now |-> NoFact]
IdleMaintenance == [phase |-> "idle", list |-> <<>>, todo |-> {}, taken |-> {}, alone |-> TRUE]

Init ==
    /\ rows \in History
    /\ ext = [e \in Extraction |-> IdleExtraction]
    /\ check = [v \in Verifier |-> <<>>]
    /\ calls = Len(rows)
    /\ maint = IdleMaintenance

\* A write of another call while a maintenance pass is under way.
Write(new) ==
    /\ rows' = new
    /\ maint' = IF maint.phase = "idle" THEN maint ELSE [maint EXCEPT !.alone = FALSE]

NextId == Len(rows) + 1
NewRow(fact, state, ev, manual, saw) ==
    [fact |-> fact, negated |-> fact.negated /\ ~manual, slotted |-> ~manual,
     state |-> state, retired |-> FALSE, by |-> 0, stale |-> FALSE, due |-> FALSE,
     confirmed |-> FALSE, ev |-> ev, manual |-> manual, saw |-> saw]

\* learnFact: trusted on the caller's word; the slot and the negation of the
\* text are not stored.
Learn(fact) ==
    /\ NextId <= MaxRows /\ Called
    /\ Write(Append(rows, NewRow(fact, "trusted", <<>>, TRUE, {})))
    /\ UNCHANGED <<ext, check>>

------------------------------------------------------------------------------
(* extractKnowledge *)

\* classifyFactRelation of a stored row and a new fact.
Relation(row, fact) ==
    CASE row.fact = fact -> "duplicate"
      [] row.fact # fact /\ row.fact.slot = fact.slot
           /\ row.fact.value = fact.value /\ row.negated = fact.negated -> "duplicate"
      [] row.fact # fact /\ row.fact.slot = fact.slot
           /\ (row.negated # fact.negated
               \/ (row.fact.value # fact.value /\ fact.slot \in Protected)) -> "conflict"
      [] row.fact # fact /\ row.fact.slot = fact.slot
           /\ row.fact.value # fact.value /\ row.negated = fact.negated
           /\ fact.slot \notin Protected -> "update"
      [] OTHER -> "compatible"

Ranking == <<"duplicate", "conflict", "update", "compatible">>
\* the rows that are active now, not those it has read
\* The strongest relation wins; which of several rows it names is the order in
\* which they were last used.
Strongest(known, fact) ==
    LET Rows(rel) == {r \in known : Relation(rows[r], fact) = rel}
        best == {i \in DOMAIN Ranking : Rows(Ranking[i]) # {}}
    IN  IF best = {} THEN {[fact |-> fact, relation |-> "created", related |-> 0]}
        ELSE {[fact |-> fact, relation |-> Ranking[Min(best)], related |-> r] :
                r \in Rows(Ranking[Min(best)])}

\* only what is trusted is read
Begin_bug(e) ==
    /\ ext[e].step = "idle" /\ Free /\ Called
    /\ ext' = [ext EXCEPT ![e] = [IdleExtraction EXCEPT
                 !.step = "next", !.seen = ActiveIds,
                 !.known = [r \in {a \in ActiveIds : rows[a].state = "trusted"} |-> "trusted"]]]
    /\ UNCHANGED <<rows, check, maint>>

Begin(e) ==
    /\ ext[e].step = "idle" /\ Free /\ Called
    /\ ext' = [ext EXCEPT ![e] = [IdleExtraction EXCEPT
                 !.step = "next", !.seen = ActiveIds,
                 !.known = [r \in ActiveIds |-> rows[r].state]]]
    /\ UNCHANGED <<rows, check, maint>>

\* Facts of a batch may share a slot once their aliases are resolved.
NextFact(e) == ext[e].step = "next" /\ Called

\* Exactly the text of a row that it knows: the row is touched.
Repeat(e, fact) ==
    /\ NextFact(e)
    /\ \E r \in DOMAIN ext[e].known :
         /\ rows[r].fact = fact
         /\ Write([rows EXCEPT ![r].stale = FALSE])
    /\ UNCHANGED <<ext, check>>

\* It is related to what is known, and the verifier is asked.
Consider(e, fact) ==
    /\ NextFact(e)
    /\ \E match \in Strongest(DOMAIN ext[e].known, fact) :
         ext' = [ext EXCEPT ![e].now = match, ![e].step = "verify"]
    /\ UNCHANGED <<rows, check, maint>>

Settled(e) == ext' = [ext EXCEPT ![e].step = "next", ![e].now = NoFact]

\* The verifier turns the fact down: an audit row is all that is written.
TurnDown(e) ==
    /\ ext[e].step = "verify"
    /\ Settled(e)
    /\ UNCHANGED <<rows, check, maint, calls>>

\* assessCandidateTrust with what the source turns say; a conflict costs a tenth
\* of the extractor's confidence.
Earned(e, ev) ==
    LET now == ext[e].now
    IN  Assessed(ev, Grounding(ev, IF now.relation = "conflict" THEN 75 ELSE 85),
                 now.fact.slot \in Protected, now.relation)

Approved(e, relations) == ext[e].step = "verify" /\ ext[e].now.relation \in relations
Unlike == {"created", "compatible", "update", "conflict"}

\* The same fact in other words: touched, and trusted if it has earned it now.
Confirm(e, ev) ==
    LET r == ext[e].now.related
        raise == ext[e].known[r] # "trusted" /\ Earned(e, ev) = "trusted"
    IN  /\ Approved(e, {"duplicate"})
        /\ Write([rows EXCEPT ![r].stale = FALSE,
                    ![r].state = IF raise THEN "trusted" ELSE @])
        /\ Settled(e)
        /\ UNCHANGED <<check, calls>>

\* reject_candidate: the candidate is kept apart and becomes no knowledge.
Rejects(e, ev) ==
    Earned(e, ev) = "candidate" \/ (Earned(e, ev) = "disputed" /\ ext[e].now.related = 0)
Reject(e, ev) ==
    /\ Approved(e, Unlike)
    /\ Rejects(e, ev)
    /\ Settled(e)
    /\ UNCHANGED <<rows, check, maint, calls>>

\* The row it is related to becomes disputed and the fact is dropped: the
\* evidence is against the fact, or it conflicts and is not trusted, or
\* buildKnowledgeConflict says so.
Disputes(e, ev) ==
    LET now == ext[e].now
    IN  /\ now.related # 0
        /\ ~Rejects(e, ev)
        /\ \/ Earned(e, ev) = "disputed"
           \/ now.relation = "conflict" /\ Earned(e, ev) # "trusted"
           \/ now.relation # "update" /\ Contradicted(ev)
Dispute(e, ev) ==
    /\ Approved(e, Unlike)
    /\ Disputes(e, ev)
    /\ Write([rows EXCEPT ![ext[e].now.related].state = "disputed"])
    /\ Settled(e)
    /\ UNCHANGED <<check, calls>>

\* conflictStrategy is the caller's; keep_both does what supersede does.
Skips(e, strategy) == ext[e].now.relation = "conflict" /\ strategy = "skip"
Skip(e, ev, strategy) ==
    /\ Approved(e, Unlike)
    /\ ~Rejects(e, ev) /\ ~Disputes(e, ev)
    /\ Skips(e, strategy)
    /\ Settled(e)
    /\ UNCHANGED <<rows, check, maint, calls>>

\* a fact that is only compatible with another replaces it
Replaces_bug(e, ev, strategy) == ext[e].now.related # 0

\* shouldSupersedeExistingKnowledge
Replaces(e, ev, strategy) ==
    LET relation == ext[e].now.relation
    IN  \/ relation = "update"
        \/ relation = "conflict" /\ (Earned(e, ev) = "trusted" \/ strategy = "supersede")

With(known, r, state) == [q \in DOMAIN known \cup {r} |-> IF q = r THEN state ELSE known[q]]

\* persistPromotedKnowledge: the new row, and the end of the one it replaces, in
\* one transaction.  The rest of the batch is compared with the new row, too.
Promote(e, ev, strategy) ==
    LET now == ext[e].now
        row == NewRow(now.fact, Earned(e, ev), ev, FALSE, ext[e].seen)
        replaced == {r \in {now.related} : Replaces(e, ev, strategy)}
    IN  /\ Approved(e, Unlike)
        /\ ~Rejects(e, ev) /\ ~Disputes(e, ev) /\ ~Skips(e, strategy)
        /\ NextId <= MaxRows
        /\ Write([r \in 1..NextId |->
                    IF r = NextId THEN row
                    ELSE IF r \in replaced
                    THEN [rows[r] EXCEPT !.by = NextId, !.state = "superseded"]
                    ELSE rows[r]])
        /\ ext' = [ext EXCEPT ![e].step = "next", ![e].now = NoFact,
                     ![e].seen = @ \cup {NextId}, ![e].known = With(@, NextId, row.state)]
        /\ UNCHANGED <<check, calls>>

\* The batch is done, or a call fails: what was promoted stays.
End(e) ==
    /\ ext[e].step # "idle"
    /\ ext' = [ext EXCEPT ![e] = IdleExtraction]
    /\ UNCHANGED <<rows, check, maint, calls>>

------------------------------------------------------------------------------
(* reverifyKnowledge *)

\* The caller names a row, whatever has become of it.
Fetch(v, r) ==
    /\ v \in Verify /\ check[v] = <<>> /\ Free /\ Called
    /\ r \in DOMAIN rows
    /\ check' = [check EXCEPT ![v] = [row |-> r, confirmed |-> rows[r].confirmed]]
    /\ UNCHANGED <<rows, ext, maint>>

\* The row as it was read, with its evidence, is assessed, whatever its
\* trust_score has become, and the outcome written over what it is now.
\* Without a confirmation the date of the last one stands.
Verified(v, base) ==
    LET r == check[v].row
        state == Assessed(rows[r].ev, base, rows[r].fact.slot \in Protected, "created")
        sure == state = "trusted"
    IN  [rows EXCEPT ![r].state = state, ![r].stale = FALSE,
                     ![r].due = ~sure /\ check[v].confirmed /\ @,
                     ![r].confirmed = sure \/ check[v].confirmed]

Verdict(v, base) ==
    /\ v \in Verify /\ check[v] # <<>>
    /\ Write(Verified(v, base))
    /\ check' = [check EXCEPT ![v] = <<>>]
    /\ UNCHANGED <<ext, calls>>

------------------------------------------------------------------------------
(* runMaintenance: the passes work on one list of the active rows *)

Pass(phase) == maint.phase = phase /\ maint.todo # {}
Over(phase) == maint.phase = phase /\ maint.todo = {}

MBegin ==
    /\ maint.phase = "idle" /\ Free /\ Called
    /\ maint' = [IdleMaintenance EXCEPT
                   !.phase = "lifecycle", !.list = [r \in ActiveIds |-> rows[r]],
                   !.todo = ActiveIds]
    /\ UNCHANGED <<rows, ext, check>>

\* evaluateKnowledgeLifecycle
Project(row) == row.fact.slot \notin Protected
Demotes(row) == row.state = "trusted" /\ Project(row) /\ row.due /\ ~row.confirmed
Outlived(row) ==
    /\ row.stale /\ ~Demotes(row)
    /\ row.state \in {"provisional", "disputed"} \/ Project(row)

MDemote(r) ==
    /\ Pass("lifecycle") /\ r \in maint.todo
    /\ Demotes(maint.list[r])
    /\ rows' = [rows EXCEPT ![r].state = "provisional"]
    /\ maint' = [maint EXCEPT !.todo = @ \ {r}]
    /\ UNCHANGED <<ext, check, calls>>

\* A row that was retired by this pass stays in its list.
MRetire(r) ==
    /\ Pass("lifecycle") /\ r \in maint.todo
    /\ Outlived(maint.list[r])
    /\ rows' = [rows EXCEPT ![r].retired = TRUE]
    /\ maint' = [maint EXCEPT !.todo = @ \ {r}, !.taken = @ \cup {r}]
    /\ UNCHANGED <<ext, check, calls>>

MKeep(r) ==
    /\ Pass("lifecycle") /\ r \in maint.todo
    /\ ~Demotes(maint.list[r]) /\ ~Outlived(maint.list[r])
    /\ maint' = [maint EXCEPT !.todo = @ \ {r}]
    /\ UNCHANGED <<rows, ext, check, calls>>

\* What is too much is counted, and chosen, among the rows of the list; the
\* least used go first, and trusted constraints never.
Excess == IF Cardinality(DOMAIN maint.list) > MaxActive
          THEN Cardinality(DOMAIN maint.list) - MaxActive ELSE 0
Expendable == {r \in DOMAIN maint.list : ~Core(maint.list[r])}

MOverflow ==
    /\ Over("lifecycle")
    /\ \E ids \in SUBSET Expendable :
         /\ Cardinality(ids) = Min({Excess, Cardinality(Expendable)})
         /\ maint' = [maint EXCEPT !.phase = "overflow", !.todo = ids, !.taken = @ \cup ids]
    /\ UNCHANGED <<rows, ext, check, calls>>

\* Of the rows of a slot the most certain one wins.
Slotted(slot) == {r \in DOMAIN maint.list : maint.list[r].slotted /\ maint.list[r].fact.slot = slot}
Slot == {f.slot : f \in Fact}

\* the winner goes with the others
Losers_bug(winner) == UNION {Slotted(s) : s \in {t \in Slot : Cardinality(Slotted(t)) > 1}}
Losers(winner) == UNION {Slotted(s) \ {winner[s]} : s \in DOMAIN winner}

MConsolidate ==
    /\ Over("overflow")
    /\ \E winner \in [{s \in Slot : Slotted(s) # {}} -> DOMAIN maint.list] :
         /\ \A s \in DOMAIN winner : winner[s] \in Slotted(s)
         /\ maint' = [maint EXCEPT !.phase = "consolidate", !.todo = Losers(winner)]
    /\ UNCHANGED <<rows, ext, check, calls>>

MDrop(r) ==
    /\ Pass("overflow") \/ Pass("consolidate")
    /\ r \in maint.todo
    /\ rows' = [rows EXCEPT ![r].retired = TRUE]
    /\ maint' = [maint EXCEPT !.todo = @ \ {r}]
    /\ UNCHANGED <<ext, check, calls>>

\* runMaintenance of the manager goes on with the rows that are due, read again.
MDue ==
    /\ Over("consolidate")
    /\ maint' = [maint EXCEPT !.phase = "reverify", !.todo = {r \in ActiveIds : rows[r].due}]
    /\ UNCHANGED <<rows, ext, check, calls>>

MFetch(r) ==
    /\ Pass("reverify") /\ r \in maint.todo
    /\ check[Maintenance] = <<>>
    /\ check' = [check EXCEPT ![Maintenance] = [row |-> r, confirmed |-> rows[r].confirmed]]
    /\ maint' = [maint EXCEPT !.todo = @ \ {r}]
    /\ UNCHANGED <<rows, ext, calls>>

MVerdict(base) ==
    /\ check[Maintenance] # <<>>
    /\ rows' = Verified(Maintenance, base)
    /\ check' = [check EXCEPT ![Maintenance] = <<>>]
    /\ UNCHANGED <<ext, maint, calls>>

MEnd ==
    /\ Over("reverify") /\ check[Maintenance] = <<>>
    /\ maint' = IdleMaintenance
    /\ UNCHANGED <<rows, ext, check, calls>>

\* Any trust_score a row may have by now.
Bases == {0, 50, 100}

Maintain ==
    \/ MBegin \/ MOverflow \/ MConsolidate \/ MDue \/ MEnd
    \/ \E r \in DOMAIN rows : MDemote(r) \/ MRetire(r) \/ MKeep(r) \/ MDrop(r) \/ MFetch(r)
    \/ \E base \in Bases : MVerdict(base)

Next ==
    \/ \E fact \in Fact : Learn(fact)
    \/ \E e \in Extraction :
         \/ Begin(e) \/ TurnDown(e) \/ End(e)
         \/ \E fact \in Fact : Repeat(e, fact) \/ Consider(e, fact)
         \/ \E ev \in Evidence :
              \/ Confirm(e, ev) \/ Reject(e, ev) \/ Dispute(e, ev)
              \/ \E strategy \in Strategies : Skip(e, ev, strategy) \/ Promote(e, ev, strategy)
    \/ \E v \in Verify :
         \/ \E r \in DOMAIN rows : Fetch(v, r)
         \/ \E base \in Bases : Verdict(v, base)
    \/ Maintain

Spec == Init /\ [][Next]_vars

------------------------------------------------------------------------------
\* Two active rows state the same fact only if the extraction that made the
\* later one could not know the earlier one: another call wrote it meanwhile.
\* (learnFact never looks.)
DuplicatesAreBlind ==
    \A r \in ActiveIds, later \in ActiveIds :
        r < later /\ rows[r].fact = rows[later].fact /\ ~rows[later].manual
            => r \notin rows[later].saw

\* A row is superseded by a later row of its own slot, also when two extractions
\* replace it one after the other: what replaced a fact can be found from it.
SupersededInSlot ==
    \A r \in DOMAIN rows : rows[r].by # 0 =>
        rows[r].by > r /\ rows[rows[r].by].fact.slot = rows[r].fact.slot

Undisturbed == maint.phase = "reverify" /\ maint.alone

\* A maintenance pass that no other write disturbs leaves at most one row of a
\* slot, and takes the last one only if it outlived its retention or was too
\* much; of two duplicates it never takes both.  It brings the active rows down
\* to the limit, as far as trusted constraints allow, although it counts rows it
\* has retired itself.
PassesSettle ==
    Undisturbed =>
        /\ \A s \in Slot : Slotted(s) # {} =>
              LET left == {r \in Slotted(s) : Active(r)}
              IN  /\ Cardinality(left) <= 1
                  /\ Slotted(s) \cap maint.taken = {} => left # {}
        /\ \/ Cardinality({r \in DOMAIN maint.list : Active(r)}) <= MaxActive
           \/ \A r \in DOMAIN maint.list : Active(r) => Core(maint.list[r])
==============================================================================
