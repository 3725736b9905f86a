----------------------------- MODULE MCKnowledge -----------------------------
(* Knowledge with two slots, one of them of constraints. *)
EXTENDS Knowledge, TLC

CONSTANTS e1, e2, v1, editor, rule, x, y, z

TwoExtractions == {e1, e2}
OneVerifier == {v1}
Rules == {rule}
Facts == [slot : {editor}, value : {x, y}, negated : {FALSE}]
         \cup [slot : {rule}, value : {z}, negated : BOOLEAN]

For(by, exact) == [polarity |-> "supports", by |-> by, exact |-> exact]
Against == [polarity |-> "contradicts", by |-> "user", exact |-> TRUE]
SomeEvidence ==
    {<<>>, <<For("user", TRUE)>>, <<For("user", TRUE), For("assistant", TRUE)>>, <<Against>>}
BothStrategies == {"supersede", "skip"}

\* What earlier calls leave: nothing, one row of any kind, or two that maintenance
\* treats differently.  What has waited beyond its retention is due as well.
Old(facts, states, manual) ==
    {[NewRow(fact, state, IF manual THEN <<>> ELSE <<For("user", TRUE)>>, manual, {})
        EXCEPT !.stale = old, !.due = old] : fact \in facts, state \in states, old \in BOOLEAN}
OldRows == Old({f \in Facts : f.value = x \/ f.negated}, {"provisional", "trusted"}, FALSE)
           \cup Old({f \in Facts : f.value = x}, {"trusted"}, TRUE)
Confirmed == {[row EXCEPT !.confirmed = TRUE, !.stale = FALSE] : row \in
                {r \in OldRows : r.due /\ ~r.manual /\ r.state = "trusted"}}
Pairs == {row \in OldRows : ~row.manual /\ row.stale}
Histories == {<<>>} \cup {<<row>> : row \in OldRows \cup Confirmed}
             \cup {<<row, other>> : row \in Pairs, other \in Pairs}
Interchangeable == Permutations(TwoExtractions)
==============================================================================
