--------------------------- MODULE ContextAssembly ---------------------------
(***************************************************************************)
(* What getContext puts before the model (src/core/context.ts):            *)
(* buildMemoryContext reads the turns, the working memory, the knowledge   *)
(* and the associations of a scope one after the other, each read awaited, *)
(* while turns are stored, compactions commit and knowledge changes; then, *)
(* without another await, it selects facts, follows associations one hop   *)
(* and drops what does not fit the token budget, one element at a time, in *)
(* a fixed order of kinds.                                                 *)
(*                                                                         *)
(* Facts are the knowledge of the scopes the call may see.  Meets holds    *)
(* those that pass the view, the scope level and the contract's filters;   *)
(* Score is the rank of a fact before the penalties for variety.  Turns    *)
(* are numbered as they are stored; a compaction archives the oldest       *)
(* active turns and stores the summary that covers them in one             *)
(* transaction (Compaction).  The fields read with relevanceQuery (ranks,  *)
(* playbooks) do not change during a call.                                 *)
(***************************************************************************)
EXTENDS Integers, FiniteSets, Sequences, FiniteSetsExt, SequencesExt

CONSTANTS
    Facts,               \* ids of facts, integers in the order they are listed
    Meets,               \* the facts that the filters let through
    Core,                \* facts of class identity, constraint or preference
    Type, Slot,          \* fact_type and slot_key of a fact
    Score, FactSize,     \* base score and tokens of a fact
    Weight,              \* confidence times provenance of a pair's association
    Priority, TurnSize,  \* of each turn that may be stored
    SummarySize,         \* tokens of a summary
    Invariants,          \* sorted: records of size and critical
    Playbooks,           \* sizes of the playbooks the search returns
    Budgets,             \* the token budgets a call may be given
    MaxKnowledgeItems, TrustedCoreLimit, TaskRelevantLimit,
    MaxPerFactType, DiversityPenalty, MaxRecentSummaries,
    SeedLimit, MaxAssociated,
    MaxChanges           \* bound: changes of facts and associations

ASSUME ContextAssumption ==
    /\ Facts \subseteq Int /\ IsFiniteSet(Facts)
    /\ Meets \subseteq Facts /\ Core \subseteq Facts
    /\ Len(Priority) = Len(TurnSize) /\ TurnSize \in Seq(Nat) /\ SummarySize \in Nat
    /\ FactSize \in [Facts -> Nat] /\ Playbooks \in Seq(Nat)
    /\ Invariants \in Seq([size : Nat, critical : BOOLEAN])
    /\ Budgets \subseteq Int
    /\ Score \in [Facts -> Int] /\ DiversityPenalty \in Int
    /\ Weight \in [{p \in Facts \X Facts : p[1] < p[2]} -> Int]
    /\ MaxKnowledgeItems \in Nat /\ TrustedCoreLimit \in Nat /\ TaskRelevantLimit \in Nat
    /\ MaxRecentSummaries \in Nat /\ SeedLimit \in Nat /\ MaxAssociated \in Nat

VARIABLES
    stored,      \* number of turns stored so far
    summaries,   \* for each summary, oldest first, the last turn it covers
    state,       \* knowledge_state of each fact
    links,       \* pairs of facts with a supports or related_to association
    changes,     \* changes made to facts and associations (bounded)
    pc,          \* the read the call makes next, or what follows the reads
    budget,      \* policy.tokenBudget of this call
    begun,       \* turns stored when the call began
    seen,        \* what the reads returned
    ctx,         \* what becomes the context: the turns, the summaries and the
                 \* facts, and the positions of the invariants and playbooks kept
    picked,      \* the facts selected before trimming
    lastDropped, \* tokens of the element dropped last
    touched      \* facts whose access count the call raised

vars == <<stored, summaries, state, links, changes, pc, budget, begun, seen,
          ctx, picked, lastDropped, touched>>

store == <<stored, summaries, state, links, changes>>

Pairs == {p \in Facts \X Facts : p[1] < p[2]}

Archived == IF summaries = <<>> THEN 0 ELSE Last(summaries)

EmptySeen == [turns |-> {}, memory |-> <<>>, facts |-> {}]

EmptyCtx == [turns |-> {}, working |-> 0, recent |-> <<>>,
             invariants |-> DOMAIN Invariants, playbooks |-> DOMAIN Playbooks,
             associated |-> <<>>, relevant |-> <<>>]

Nothing == [core |-> <<>>, task |-> <<>>]
-----------------------------------------------------------------------------
\* Selection.

\* Mutated forms (suffix _bug, each ahead of the definition it stands in for) are
\* what a plausible slip in the code would give; no specification uses them.

\* How many of those taken have f's type, or its slot.
Alike(F, sel, f) == Cardinality({g \in ToSet(sel) : F[g] = F[f]})

\* The candidates that are left, of types that are not full.
Open(candidates, sel) == {f \in candidates \ ToSet(sel) : Alike(Type, sel, f) < MaxPerFactType}

Final(sel, f) == Score[f] - DiversityPenalty * (Alike(Type, sel, f) + Alike(Slot, sel, f))

\* The highest score after the penalties, the first listed of several.
Best(candidates, sel) ==
    CHOOSE f \in Open(candidates, sel) : \A g \in Open(candidates, sel) \ {f} :
        \/ Final(sel, f) > Final(sel, g)
        \/ Final(sel, f) = Final(sel, g) /\ f < g

Grown(candidates, sel) ==
    IF Open(candidates, sel) = {} THEN sel ELSE Append(sel, Best(candidates, sel))

\* selectKnowledge: one more after the other, until the limit is reached or
\* nothing is left.
Select(candidates, limit) ==
    LET take[n \in 0..limit] == IF n = 0 THEN <<>> ELSE Grown(candidates, take[n - 1])
    IN  take[limit]

Smaller(a, b) == IF a < b THEN a ELSE b

Larger(a, b) == IF a < b THEN b ELSE a

CoreLimit == Smaller(TrustedCoreLimit, Larger(3, MaxKnowledgeItems \div 2))

TaskLimit(core) == Smaller(TaskRelevantLimit, Larger(0, MaxKnowledgeItems - Len(core)))

\* The facts that were listed and pass the filters.
Filtered(listed) == {r \in listed : r.id \in Meets}

Trusted(listed) == {r.id : r \in {q \in Filtered(listed) : q.state = "trusted"}}

\* Trusted core first, then what is relevant to the task.
Selection(listed) ==
    LET core == Select(Trusted(listed) \cap Core, CoreLimit)
    IN  [core |-> core,
         task |-> Select(Trusted(listed) \ ToSet(core), TaskLimit(core))]

\* The associations of the first selected facts, one hop.
Seeds(relevant) == ToSet(SubSeq(relevant, 1, Smaller(SeedLimit, Len(relevant))))

Edges(relevant, f) == {p \in links : \E s \in Seeds(relevant) : {p[1], p[2]} = {f, s}}

Neighbours(relevant) == {f \in Facts \ ToSet(relevant) : Edges(relevant, f) # {}}

Heaviest(relevant, f) == Max({Weight[p] : p \in Edges(relevant, f)})

Before(relevant, f, g) ==
    \/ Heaviest(relevant, f) > Heaviest(relevant, g)
    \/ Heaviest(relevant, f) = Heaviest(relevant, g) /\ f < g

\* The place of f among some neighbours, the heaviest first.
Place(relevant, facts, f) == Cardinality({g \in facts : g = f \/ Before(relevant, g, f)})

Sorted(relevant, facts) ==
    [n \in 1..Cardinality(facts) |-> CHOOSE f \in facts : Place(relevant, facts, f) = n]

\* The neighbours are looked up among all facts listed.
Expansion_bug(relevant, listed) ==
    Sorted(relevant, Neighbours(relevant) \cap {r.id : r \in listed})

\* The heaviest neighbours, cut off before those that were not listed or do not
\* pass the filters are left out.
Expansion(relevant, listed) ==
    LET near == Neighbours(relevant)
        first == {f \in near : Place(relevant, near, f) <= MaxAssociated}
    IN  Sorted(relevant, first \cap {r.id : r \in Filtered(listed)})
-----------------------------------------------------------------------------
\* The token estimate and what can still be dropped.

Total(S, sizes) == SumFunctionOnSet(sizes, S)

FactTokens(facts) == Total(ToSet(facts), FactSize)

InvariantTokens(held) == Total(held, [i \in DOMAIN Invariants |-> Invariants[i].size])

WorkingTokens(c) == IF c.working = 0 THEN 0 ELSE SummarySize

Estimate(c) ==
    Total(c.turns, TurnSize) + WorkingTokens(c) + SummarySize * Len(c.recent)
      + InvariantTokens(c.invariants) + Total(c.playbooks, Playbooks)
      + FactTokens(c.associated) + FactTokens(c.relevant)

Over_bug == pc = "trim" /\ Estimate(ctx) >= budget

Over == pc = "trim" /\ Estimate(ctx) > budget

Critical == {i \in DOMAIN Invariants : Invariants[i].critical}

Removable(held) == held \ Critical

\* The loops come one after the other: each starts when those above it have
\* nothing left to drop.
NoTurns == ctx.turns = {}
NoSummaries == NoTurns /\ ctx.recent = <<>>
NoInvariants == NoSummaries /\ Removable(ctx.invariants) = {}
NoPlaybooks == NoInvariants /\ ctx.playbooks = {}
NoAssociated == NoPlaybooks /\ ctx.associated = <<>>
NoFacts == NoAssociated /\ ctx.relevant = <<>>
-----------------------------------------------------------------------------
\* The call.

Init ==
    /\ stored = 0 /\ summaries = <<>>
    /\ state = [f \in Facts |-> "trusted"]
    /\ links \in {{}, Pairs} /\ changes = 0
    /\ pc = "start" /\ budget \in Budgets /\ begun = 0
    /\ seen = EmptySeen /\ ctx = EmptyCtx /\ picked = Nothing
    /\ lastDropped = 0 /\ touched = {}

ReadTurns ==
    /\ pc = "start"
    /\ begun' = stored
    /\ seen' = [seen EXCEPT !.turns = (Archived + 1)..stored]
    /\ ctx' = [ctx EXCEPT !.turns = (Archived + 1)..stored]
    /\ pc' = "memory"
    /\ UNCHANGED <<store, budget, picked, lastDropped, touched>>

\* The turns a summary covers.
Covers(i) == [from |-> (IF i = 1 THEN 0 ELSE summaries[i - 1]) + 1, to |-> summaries[i]]

\* Only the newest is read.
ReadWorkingMemory_bug ==
    /\ pc = "memory"
    /\ LET found == IF summaries = <<>> THEN <<>> ELSE <<Len(summaries)>>
       IN  /\ seen' = [seen EXCEPT !.memory = [i \in DOMAIN found |-> Covers(found[i])]]
           /\ ctx' = [ctx EXCEPT !.working = Len(summaries)]
    /\ pc' = "knowledge"
    /\ UNCHANGED <<store, budget, begun, picked, lastDropped, touched>>

\* Newest first; the newest is the working memory.
ReadWorkingMemory ==
    /\ pc = "memory"
    /\ LET found == Reverse([i \in DOMAIN summaries |-> i])
           others == IF found = <<>> THEN <<>> ELSE Tail(found)
       IN  /\ seen' = [seen EXCEPT !.memory = [i \in DOMAIN found |-> Covers(found[i])]]
           /\ ctx' = [ctx EXCEPT
                        !.working = IF found = <<>> THEN 0 ELSE Head(found),
                        !.recent = SubSeq(others, 1, Smaller(MaxRecentSummaries, Len(others)))]
    /\ pc' = "knowledge"
    /\ UNCHANGED <<store, budget, begun, picked, lastDropped, touched>>

ReadKnowledge ==
    /\ pc = "knowledge"
    /\ LET listed == {[id |-> f, state |-> state[f]] :
                        f \in {g \in Facts : state[g] # "retired"}}
           chosen == Selection(listed)
       IN  /\ seen' = [seen EXCEPT !.facts = listed]
           /\ picked' = chosen
           /\ ctx' = [ctx EXCEPT !.relevant = chosen.core \o chosen.task]
    /\ pc' = "associations"
    /\ UNCHANGED <<store, budget, begun, lastDropped, touched>>

ReadAssociations ==
    /\ pc = "associations"
    /\ ctx' = [ctx EXCEPT !.associated = Expansion(ctx.relevant, seen.facts)]
    /\ pc' = "trim"
    /\ UNCHANGED <<store, budget, begun, seen, picked, lastDropped, touched>>

Trimmed(c) ==
    /\ ctx' = c
    /\ lastDropped' = Estimate(ctx) - Estimate(c)
    /\ UNCHANGED <<store, pc, budget, begun, seen, picked, touched>>

\* dropLowestPriorityTurn: the lowest priority, the oldest of several.
DropTurn ==
    /\ Over /\ ~NoTurns
    /\ LET lowest == CHOOSE t \in ctx.turns : \A u \in ctx.turns \ {t} :
                        Priority[t] < Priority[u] \/ (Priority[t] = Priority[u] /\ t < u)
       IN  Trimmed([ctx EXCEPT !.turns = @ \ {lowest}])

DropSummary ==
    /\ Over /\ NoTurns /\ ~NoSummaries
    /\ Trimmed([ctx EXCEPT !.recent = Front(@)])

DropInvariant ==
    /\ Over /\ NoSummaries /\ ~NoInvariants
    /\ Trimmed([ctx EXCEPT !.invariants = @ \ {Max(Removable(@))}])

\* The largest, the first of several.
DropPlaybook ==
    /\ Over /\ NoInvariants /\ ~NoPlaybooks
    /\ LET largest == {i \in ctx.playbooks : \A j \in ctx.playbooks : Playbooks[j] <= Playbooks[i]}
       IN  Trimmed([ctx EXCEPT !.playbooks = @ \ {Min(largest)}])

DropAssociated ==
    /\ Over /\ NoPlaybooks /\ ~NoAssociated
    /\ Trimmed([ctx EXCEPT !.associated = Front(@)])

DropFact ==
    /\ Over /\ NoAssociated /\ ~NoFacts
    /\ Trimmed([ctx EXCEPT !.relevant = Front(@)])

\* touchKnowledgeMemories, for the facts that are left.
Return ==
    /\ pc = "trim"
    /\ Estimate(ctx) <= budget \/ NoFacts
    /\ touched' = touched \cup ToSet(ctx.relevant)
    /\ pc' = "done"
    /\ UNCHANGED <<store, budget, begun, seen, ctx, picked, lastDropped>>
-----------------------------------------------------------------------------
\* What happens between two reads: none of it can happen during the trimming,
\* which never waits.

Waiting == pc \in {"start", "memory", "knowledge", "associations"}

Others(vs) == Waiting /\ UNCHANGED <<pc, budget, begun, seen, ctx, picked, lastDropped, touched>> /\ UNCHANGED vs

StoreTurn ==
    /\ stored < Len(Priority)
    /\ stored' = stored + 1
    /\ Others(<<summaries, state, links, changes>>)

\* executeCompaction: the summary and the archived turns in one transaction.
CommitCompaction ==
    /\ \E to \in (Archived + 1)..stored : summaries' = Append(summaries, to)
    /\ Others(<<stored, state, links, changes>>)

ChangeFact ==
    /\ changes < MaxChanges
    /\ \E f \in Facts : \E s \in {"trusted", "provisional", "disputed", "retired"} \ {state[f]} :
          state[f] # "retired" /\ state' = [state EXCEPT ![f] = s]
    /\ changes' = changes + 1
    /\ Others(<<stored, summaries, links>>)

ChangeAssociation ==
    /\ changes < MaxChanges
    /\ \E p \in Pairs : links' = IF p \in links THEN links \ {p} ELSE links \cup {p}
    /\ changes' = changes + 1
    /\ Others(<<stored, summaries, state>>)

Next ==
    \/ ReadTurns \/ ReadWorkingMemory \/ ReadKnowledge \/ ReadAssociations
    \/ DropTurn \/ DropSummary \/ DropInvariant \/ DropPlaybook
    \/ DropAssociated \/ DropFact \/ Return
    \/ StoreTurn \/ CommitCompaction \/ ChangeFact \/ ChangeAssociation

Spec == Init /\ [][Next]_vars
-----------------------------------------------------------------------------
\* Properties.

(* Turns are read before the summaries that replace them.  Whatever is stored
   or compacted between the two reads, every turn stored when the call began is
   either among the turns it read or covered by a summary it read. *)
NothingUnread ==
    pc \in {"knowledge", "associations", "trim", "done"} =>
        \A t \in 1..begun :
            t \in seen.turns \/ \E i \in DOMAIN seen.memory : t \in seen.memory[i].from..seen.memory[i].to

\* The tokens of what is never dropped.
KeptTokens == WorkingTokens(ctx) + InvariantTokens(Critical)

(* The trimming ends within the budget or with nothing but the working memory
   and the critical invariants, and it drops no element too many: with the one
   it dropped last the context would be over the budget.  A fact of the trusted
   core gives way to nothing but the rest of the core: when the core that was
   selected fits the budget beside what is never dropped, all of it is in the
   context, however much else was read. *)
TrimmedToFit ==
    pc = "done" =>
        /\ Estimate(ctx) <= budget \/ Estimate(ctx) = KeptTokens
        /\ lastDropped > 0 => Estimate(ctx) + lastDropped > budget
        /\ KeptTokens + FactTokens(picked.core) <= budget =>
                ToSet(picked.core) \subseteq ToSet(ctx.relevant)

(* A fact that comes in by an association has passed the same filters as one
   that was selected, was listed by the same read, and stands in the context
   once, although the associations are read after the facts and by another
   scope. *)
AssociatedAllowed ==
    /\ ToSet(ctx.associated) \subseteq Meets \cap {r.id : r \in seen.facts}
    /\ ToSet(ctx.associated) \cap ToSet(ctx.relevant) = {}
    /\ Len(ctx.associated) <= MaxAssociated
    /\ IsInjective(ctx.relevant) /\ IsInjective(ctx.associated)
=============================================================================
