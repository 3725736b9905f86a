-------------------------------- MODULE Trust --------------------------------
(* What the evidence for a fact is worth (src/core/trust.ts and the grounding *)
(* step of extractKnowledge), under DEFAULT_EXTRACTION_POLICY.  Scores are in *)
(* hundredths, rounded down.                                                  *)
EXTENDS Integers, Sequences, FiniteSetsExt

\* One turn that speaks about the fact: whether it supports or contradicts it,
\* whose turn it is and whether it holds the fact's own words.
Item == [polarity : {"supports", "contradicts"}, by : {"user", "assistant"}, exact : BOOLEAN]

\* A turn in other words shares 60 % of the fact's tokens.
Explicitness(item) == IF item.exact THEN 100 ELSE 69

Of(ev, polarity) == SelectSeq(ev, LAMBDA item : item.polarity = polarity)
Weight(ev) == MapThenSumSet(LAMBDA i : Explicitness(ev[i]), DOMAIN ev)
Supports(ev) == Len(Of(ev, "supports"))
Contradicted(ev) == Of(ev, "contradicts") # <<>>

ClampScore(n) == Max({0, Min({100, n})})

ContradictionScore(ev) ==
    IF ev = <<>> THEN 0 ELSE (100 * Weight(Of(ev, "contradicts"))) \div Weight(ev)

\* The trust_score a candidate starts with: how explicit its best turn is, or a
\* share of the extractor's confidence.
Grounding(ev, confidence) ==
    LET strongest == Max({0} \cup {Explicitness(ev[i]) : i \in DOMAIN ev})
    IN  IF Supports(ev) = 0
        THEN Max({15, (confidence * 25) \div 100})
        ELSE Max({45 + (strongest * 40) \div 100, (confidence * 90) \div 100})

Adjusted(ev, base) ==
    LET support == Of(ev, "supports")
        Count(Test(_)) == Cardinality({i \in DOMAIN support : Test(support[i])})
    IN  ClampScore(base
          - (IF support = <<>> THEN 35 ELSE 0)
          - 15 * Count(LAMBDA item : item.by = "assistant")
          + 10 * Count(LAMBDA item : item.exact)
          - ContradictionScore(ev) \div 2)

\* One explicit statement is enough for a constraint that a user makes and that
\* contradicts nothing.
SingleSourceEnough(ev, protected, relation) ==
    /\ protected
    /\ \E i \in DOMAIN ev : ev[i].polarity = "supports" /\ ev[i].by = "user"
    /\ \E i \in DOMAIN ev : ev[i].polarity = "supports" /\ ev[i].exact
    /\ ~Contradicted(ev)
    /\ relation \notin {"conflict", "update"}

EnoughEvidence(ev, protected, relation) ==
    Supports(ev) >= 2 \/ SingleSourceEnough(ev, protected, relation)

\* assessCandidateTrust: the state a fact has earned.
Assessed(ev, base, protected, relation) ==
    LET score    == Adjusted(ev, base)
        disputed == ContradictionScore(ev) >= 35
        trusted  == score >= 70 /\ EnoughEvidence(ev, protected, relation)
    IN  CASE disputed -> "disputed"
          [] ~disputed /\ trusted -> "trusted"
          [] ~disputed /\ ~trusted /\ score >= 45 /\ Supports(ev) > 0 -> "provisional"
          [] OTHER -> "candidate"
==============================================================================
