-------------------------- MODULE KnowledgeProofs --------------------------
(***************************************************************************)
(* Chains of superseded facts, duplicates, and what maintenance passes leave, *)
(* for any number of overlapping extractions and verifications, any facts,    *)
(* any evidence and any limit of active rows.  At the end, what a change feed *)
(* and the other readers of an event log are told of it (EventFeed).          *)
(***************************************************************************)
EXTENDS Knowledge, FeedPromises, SequenceTheorems, FiniteSetTheorems,
        WellFoundedInduction, TLAPS

\* A row more is an id more.
LEMMA OneMore == \A n \in Nat : 1..(n + 1) = 1..n \cup {n + 1}
OBVIOUS

LEMMA Bounds == MaxRows \in Nat
BY KnowledgeAssumption

Relations == {"none", "duplicate", "conflict", "update", "compatible", "created"}
Match == [fact : Fact, relation : Relations, related : 0..MaxRows]
Known == UNION {[known -> States] : known \in SUBSET (1..MaxRows)}
Working == [step : {"idle", "next", "verify"}, known : Known, seen : SUBSET (1..MaxRows), now : Match]

\* The types of what the calls know and write.
TypeOK ==
    /\ rows \in Seq(Row) /\ Len(rows) <= MaxRows
    /\ ext \in [Extraction -> Working]
    /\ check \in [Verifier -> {<<>>} \cup [row : 1..MaxRows, confirmed : BOOLEAN]]

\* What an extraction knows of the rows: those it has read or made, and, once it
\* has related a fact, that none of them states it and that the row which the fact
\* may replace has its slot.
Informed(e) ==
    LET now == ext[e].now
    IN  /\ ext[e].seen \subseteq DOMAIN rows
        /\ DOMAIN ext[e].known = ext[e].seen
        /\ now.related # 0 => now.related \in ext[e].seen
        /\ now.relation = "duplicate" => now.related # 0
        /\ now.relation \in Unlike => \A r \in ext[e].seen : rows[r].fact # now.fact
        /\ now.relation \in {"update", "conflict"} =>
              now.related # 0 /\ rows[now.related].fact.slot = now.fact.slot

\* A row that is verified is there.
CheckedRows == \A v \in Verifier : check[v] # <<>> => check[v].row \in DOMAIN rows

SupersededById ==
    \A r \in DOMAIN rows : rows[r].by # 0 => rows[r].by \in DOMAIN rows

IInv ==
    /\ TypeOK
    /\ \A e \in Extraction : Informed(e)
    /\ CheckedRows
    /\ SupersededById /\ SupersededInSlot /\ DuplicatesAreBlind

\* The step of an extraction that is none of its business, or that is done with a
\* fact.
Forgets(e) ==
    \/ ext'[e] = ext[e]
    \/ /\ ext'[e].seen = ext[e].seen /\ ext'[e].known = ext[e].known
       /\ ext'[e].now = NoFact
    \/ ext'[e] = IdleExtraction

\* No step takes a row away, changes its fact or brings it back.
RowsKept ==
    \A r \in DOMAIN rows :
        /\ r \in DOMAIN rows'
        /\ rows'[r].fact = rows[r].fact /\ rows'[r].saw = rows[r].saw
        /\ rows'[r].manual = rows[r].manual
        /\ Active(r)' => Active(r)

\* Whatever the evidence, a fact has earned some state.
LEMMA AssessedType ==
    ASSUME NEW ev, NEW base, NEW protected, NEW relation
    PROVE  Assessed(ev, base, protected, relation) \in States
BY DEF Assessed, States

\* An extraction that rests has related nothing.
LEMMA IdleType ==
    /\ NoFact \in Match /\ NoFact.related = 0 /\ NoFact.relation = "none"
    /\ IdleExtraction \in Working
    /\ IdleExtraction.step = "idle" /\ IdleExtraction.now = NoFact
    /\ IdleExtraction.seen = {} /\ DOMAIN IdleExtraction.known = {}
<1>1. <<>> \in Known /\ DOMAIN <<>> = {}
  <2>1. <<>> \in [{} -> States] /\ {} \in SUBSET (1..MaxRows)
    OBVIOUS
  <2> QED
    BY <2>1 DEF Known
<1>2. NoFact \in Match /\ NoFact.related = 0 /\ NoFact.relation = "none"
  BY KnowledgeAssumption DEF NoFact, Relations, Match
<1> QED
  BY <1>1, <1>2 DEF IdleExtraction, Working

\* Rows that are there from the start were seen by nobody.
LEMMA InitInv == Init => IInv
<1> SUFFICES ASSUME Init PROVE IInv
  OBVIOUS
<1>1. rows \in Seq(Row) /\ Len(rows) <= MaxRows 
     /\ \A r \in DOMAIN rows : rows[r].by = 0 /\ rows[r].saw = {}
  BY HistoryAssumption DEF Init
<1>2. \A e \in Extraction : ext[e] = IdleExtraction
  BY DEF Init
<1>3. TypeOK
  BY <1>1, IdleType DEF Init, TypeOK
<1>4. \A e \in Extraction : Informed(e)
  BY <1>2, IdleType DEF Informed, Unlike
<1>5. DuplicatesAreBlind
  BY <1>1 DEF DuplicatesAreBlind, ActiveIds
<1> QED
  BY <1>1, <1>3, <1>4, <1>5 DEF IInv, CheckedRows, SupersededById, SupersededInSlot, Init

\* What a change of one row does that touches neither what it states nor what
\* replaced it.
LEMMA RowChanged ==
    ASSUME TypeOK, NEW r \in DOMAIN rows, NEW row \in Row, rows' = [rows EXCEPT ![r] = row],
           row.fact = rows[r].fact, row.saw = rows[r].saw, row.manual = rows[r].manual,
           row.by = rows[r].by, rows[r].retired => row.retired
    PROVE  /\ rows' \in Seq(Row) /\ Len(rows') <= MaxRows /\ DOMAIN rows' = DOMAIN rows
           /\ RowsKept
           /\ \A q \in DOMAIN rows : rows'[q].by = rows[q].by
<1>1. /\ rows' \in Seq(Row) /\ Len(rows') = Len(rows) /\ DOMAIN rows' = DOMAIN rows
      /\ \A q \in DOMAIN rows : rows'[q] = IF q = r THEN row ELSE rows[q]
  <2>1. rows \in Seq(Row) /\ Len(rows) \in Nat /\ DOMAIN rows = 1..Len(rows)
    BY DEF TypeOK
  <2>2. rows' \in [1..Len(rows) -> Row]
    BY <2>1
  <2>3. rows' \in Seq(Row) /\ Len(rows') = Len(rows)
    BY <2>1, <2>2, LenProperties
  <2> QED
    BY <2>1, <2>2, <2>3
<1> QED
  BY <1>1 DEF TypeOK, RowsKept, Active

\* Such changes keep everything that is said of the rows, of extractions that get
\* to know no other row, and of verifications that start with none.
LEMMA ChangeInv ==
    ASSUME IInv, TypeOK', DOMAIN rows' = DOMAIN rows, RowsKept,
           \A q \in DOMAIN rows : rows'[q].by = rows[q].by,
           \A e \in Extraction : Forgets(e),
           \A v \in Verifier : check'[v] = check[v] \/ check'[v] = <<>>
    PROVE  IInv'
<1>1. ASSUME NEW r \in DOMAIN rows, rows'[r].by # 0
      PROVE  /\ rows'[r].by \in DOMAIN rows /\ rows'[r].by > r
             /\ rows'[rows'[r].by].fact.slot = rows'[r].fact.slot
  <2>1. rows'[r].by = rows[r].by
    OBVIOUS
  <2>2. rows[r].by \in DOMAIN rows /\ rows[r].by > r /\ rows[rows[r].by].fact.slot = rows[r].fact.slot
    BY <1>1, <2>1 DEF IInv, SupersededById, SupersededInSlot
  <2> QED
    BY <2>1, <2>2 DEF RowsKept
<1>2. DuplicatesAreBlind'
  BY DEF IInv, DuplicatesAreBlind, RowsKept, ActiveIds
<1>3. ASSUME NEW e \in Extraction PROVE Informed(e)'
  <2>1. Informed(e)
    BY DEF IInv
  <2>2. ext[e].seen \subseteq DOMAIN rows /\ DOMAIN ext[e].known = ext[e].seen
    BY <2>1 DEF Informed
  <2>3. \A r \in ext[e].seen : r \in DOMAIN rows' /\ rows'[r].fact = rows[r].fact
    BY <2>2 DEF RowsKept
  <2>4. ext[e].now.related # 0 => ext[e].now.related \in ext[e].seen
    BY <2>1 DEF Informed
  <2>5. CASE ext'[e] = ext[e]
    BY <2>1, <2>3, <2>4, <2>5 DEF Informed
  <2>6. CASE /\ ext'[e].seen = ext[e].seen /\ ext'[e].known = ext[e].known
             /\ ext'[e].now = NoFact
    BY <2>2, <2>6, IdleType DEF Informed, Unlike
  <2>7. CASE ext'[e] = IdleExtraction
    BY <2>7, IdleType DEF Informed, Unlike
  <2> QED
    BY <2>5, <2>6, <2>7 DEF Forgets
<1>4. CheckedRows'
  BY DEF IInv, CheckedRows
<1> QED
  BY <1>1, <1>2, <1>3, <1>4 DEF IInv, SupersededById, SupersededInSlot

\* Where the rows stay as they are.
LEMMA SameRowsInv ==
    ASSUME IInv, UNCHANGED rows, TypeOK',
           \A e \in Extraction : Forgets(e),
           \A v \in Verifier : check'[v] = check[v] \/ check'[v] = <<>>
    PROVE  IInv'
BY ChangeInv DEF RowsKept, Active

\* Where one row changes.
LEMMA RowChangeInv ==
    ASSUME IInv, NEW r \in DOMAIN rows, NEW row \in Row, rows' = [rows EXCEPT ![r] = row],
           row.fact = rows[r].fact, row.saw = rows[r].saw, row.manual = rows[r].manual,
           row.by = rows[r].by, rows[r].retired => row.retired,
           ext' \in [Extraction -> Working],
           check' \in [Verifier -> {<<>>} \cup [row : 1..MaxRows, confirmed : BOOLEAN]],
           \A e \in Extraction : Forgets(e),
           \A v \in Verifier : check'[v] = check[v] \/ check'[v] = <<>>
    PROVE  IInv'
<1>1. TypeOK
  BY DEF IInv
<1>2. /\ rows' \in Seq(Row) /\ Len(rows') <= MaxRows /\ DOMAIN rows' = DOMAIN rows
      /\ RowsKept
      /\ \A q \in DOMAIN rows : rows'[q].by = rows[q].by
  BY <1>1, RowChanged
<1>3. TypeOK'
  BY <1>2 DEF TypeOK
<1> QED
  BY <1>2, <1>3, ChangeInv

\* A new row is a row.
LEMMA NewRowType ==
    ASSUME NEW fact \in Fact, NEW state \in States, NEW ev \in Evidence \cup {<<>>},
           NEW manual \in BOOLEAN, NEW saw \in SUBSET (1..MaxRows)
    PROVE  /\ NewRow(fact, state, ev, manual, saw) \in Row
           /\ NewRow(fact, state, ev, manual, saw).fact = fact
           /\ NewRow(fact, state, ev, manual, saw).by = 0
           /\ NewRow(fact, state, ev, manual, saw).manual = manual
           /\ NewRow(fact, state, ev, manual, saw).saw = saw
<1>1. fact.negated \in BOOLEAN
  BY KnowledgeAssumption
<1>2. (fact.negated /\ ~manual) \in BOOLEAN /\ (~manual) \in BOOLEAN /\ 0 \in 0..MaxRows
  BY KnowledgeAssumption
<1> DEFINE negated == fact.negated /\ ~manual
           slotted == ~manual
<1>3. negated \in BOOLEAN /\ slotted \in BOOLEAN
  BY <1>2
<1>4. NewRow(fact, state, ev, manual, saw) =
        [fact |-> fact, negated |-> negated, slotted |-> slotted,
         state |-> state, retired |-> FALSE, by |-> 0, stale |-> FALSE, due |-> FALSE,
         confirmed |-> FALSE, ev |-> ev, manual |-> manual, saw |-> saw]
  BY DEF NewRow
<1> HIDE DEF negated, slotted
<1> QED
  BY <1>2, <1>3, <1>4 DEF Row

\* The row is added, and replaces some of its slot.
Adds(row) ==
    /\ rows' \in Seq(Row) /\ Len(rows') = NextId /\ rows'[NextId] = row
    /\ \A r \in DOMAIN rows :
          \/ rows'[r] = rows[r]
          \/ /\ rows'[r] = [rows[r] EXCEPT !.by = NextId, !.state = "superseded"]
             /\ rows[r].fact.slot = row.fact.slot

\* Ids are positions.
LEMMA RowIds ==
    ASSUME TypeOK
    PROVE  /\ rows \in Seq(Row) /\ Len(rows) \in Nat /\ NextId = Len(rows) + 1
           /\ DOMAIN rows = 1..Len(rows)
           /\ \A r \in DOMAIN rows : r < NextId /\ rows[r] \in Row
           /\ NextId # 0 /\ (NextId <= MaxRows => NextId \in 1..MaxRows)
<1>1. /\ rows \in Seq(Row) /\ Len(rows) \in Nat /\ NextId = Len(rows) + 1
      /\ DOMAIN rows = 1..Len(rows)
  BY DEF TypeOK, NextId
<1> QED
  BY <1>1

\* A row that differs in its text from all rows its maker could know keeps the
\* invariant, and so does the end of a row of its slot.
LEMMA AddInv ==
    ASSUME IInv, NEW row, row.by = 0, NextId <= MaxRows,
           row.manual \/ \A r \in row.saw : rows[r].fact # row.fact,
           Adds(row)
    PROVE  /\ Len(rows') <= MaxRows
           /\ DOMAIN rows' = DOMAIN rows \cup {NextId} /\ NextId \in 1..MaxRows
           /\ \A r \in DOMAIN rows : r < NextId /\ rows'[r].fact = rows[r].fact
           /\ SupersededById' /\ SupersededInSlot' /\ DuplicatesAreBlind'
           /\ \A e \in Extraction : Forgets(e) => Informed(e)'
<1>1. /\ rows \in Seq(Row) /\ Len(rows) \in Nat /\ NextId = Len(rows) + 1
      /\ DOMAIN rows = 1..Len(rows) /\ NextId # 0
      /\ NextId \in 1..MaxRows
  BY RowIds DEF IInv
<1>2. DOMAIN rows' = DOMAIN rows \cup {NextId}
  <2>1. rows' \in Seq(Row) /\ Len(rows') = NextId
    BY DEF Adds
  <2>2. DOMAIN rows' = 1..NextId
    BY <2>1
  <2> QED
    BY <1>1, <2>2, OneMore
<1>3. \A r \in DOMAIN rows : r < NextId /\ rows[r] \in Row
  BY RowIds DEF IInv
<1>4. rows'[NextId] = row
  BY DEF Adds
<1>5. ASSUME NEW r \in DOMAIN rows
      PROVE  /\ rows'[r].fact = rows[r].fact /\ rows'[r].saw = rows[r].saw
             /\ rows'[r].manual = rows[r].manual /\ rows'[r].retired = rows[r].retired
             /\ rows'[r].by = rows[r].by \/ (rows'[r].by = NextId /\ rows[r].fact.slot = row.fact.slot)
  BY <1>3, ZenonT(40) DEF Row, Adds
<1>6. ASSUME NEW r \in DOMAIN rows', rows'[r].by # 0
      PROVE  /\ rows'[r].by \in DOMAIN rows' /\ rows'[r].by > r
             /\ rows'[rows'[r].by].fact.slot = rows'[r].fact.slot
  <2>1. r \in DOMAIN rows
    BY <1>2, <1>6, <1>4
  <2>2. CASE rows'[r].by = rows[r].by
    <3>1. rows[r].by \in DOMAIN rows /\ rows[r].by > r /\ rows[rows[r].by].fact.slot = rows[r].fact.slot
      BY <1>6, <2>1, <2>2 DEF IInv, SupersededById, SupersededInSlot
    <3> QED
      BY <1>2, <1>5, <2>1, <2>2, <3>1
  <2>3. CASE rows'[r].by = NextId /\ rows[r].fact.slot = row.fact.slot
    BY <1>2, <1>3, <1>5, <1>4, <2>1, <2>3
  <2> QED
    BY <1>5, <2>1, <2>2, <2>3
<1>7. ASSUME NEW r \in DOMAIN rows', NEW later \in DOMAIN rows', Active(r)', Active(later)',
             r < later, rows'[r].fact = rows'[later].fact, ~rows'[later].manual
      PROVE  r \notin rows'[later].saw
  <2>0. \A i, n \in Nat : i < n => ~(n < i) /\ i # n
    OBVIOUS
  <2>1. r \in DOMAIN rows
    BY <1>1, <1>2, <1>3, <1>7, <2>0
  <2>2. CASE later = NextId
    BY <1>5, <1>7, <1>4, <2>1, <2>2
  <2>3. CASE later \in DOMAIN rows
    <3>1. Active(r) /\ Active(later)
      BY <1>1, <1>5, <1>7, <2>1, <2>3 DEF Active
    <3> QED
      BY <1>5, <1>7, <2>1, <2>3, <3>1 DEF IInv, DuplicatesAreBlind, ActiveIds
  <2> QED
    BY <1>2, <2>2, <2>3
<1>8. ASSUME NEW e \in Extraction, Forgets(e) PROVE Informed(e)'
  <2>1. Informed(e)
    BY DEF IInv
  <2>2. ext[e].seen \subseteq DOMAIN rows /\ DOMAIN ext[e].known = ext[e].seen
    BY <2>1 DEF Informed
  <2>3. \A r \in ext[e].seen : r \in DOMAIN rows' /\ rows'[r].fact = rows[r].fact
    BY <1>2, <1>5, <2>2
  <2>4. ext[e].now.related # 0 => ext[e].now.related \in ext[e].seen
    BY <2>1 DEF Informed
  <2>5. CASE ext'[e] = ext[e]
    <3> HIDE <1>8
    <3> QED
      BY <2>1, <2>3, <2>4, <2>5 DEF Informed
  <2>6. CASE /\ ext'[e].seen = ext[e].seen /\ ext'[e].known = ext[e].known
             /\ ext'[e].now = NoFact
    BY <2>2, <2>3, <2>6, IdleType DEF Informed, Unlike
  <2>7. CASE ext'[e] = IdleExtraction
    BY <2>7, IdleType DEF Informed, Unlike
  <2> QED
    BY <1>8, <2>5, <2>6, <2>7 DEF Forgets
<1>9. SupersededById' /\ SupersededInSlot'
  BY <1>6 DEF SupersededById, SupersededInSlot
<1>10. DuplicatesAreBlind'
  BY <1>7 DEF DuplicatesAreBlind, ActiveIds
<1> QED
  <2>1. Len(rows') <= MaxRows
    BY DEF Adds
  <2> QED
    BY <1>1, <1>2, <1>3, <1>5, <1>8, <1>9, <1>10, <2>1

\* Extractions that stand still.
LEMMA Quiet == UNCHANGED ext => \A e \in Extraction : Forgets(e)
BY DEF Forgets

\* learnFact adds a row that replaces nothing.
LEMMA LearnInv == ASSUME IInv, NEW fact \in Fact, Learn(fact) PROVE IInv'
<1> DEFINE row == NewRow(fact, "trusted", <<>>, TRUE, {})
<1>1. /\ row \in Row /\ row.fact = fact /\ row.by = 0 /\ row.manual /\ row.saw = {}
  <2>1. /\ "trusted" \in States /\ <<>> \in Evidence \cup {<<>>} /\ TRUE \in BOOLEAN
        /\ {} \in SUBSET (1..MaxRows)
    BY DEF States
  <2>2. row \in Row
    BY <2>1, NewRowType
  <2>3. row.fact = fact /\ row.by = 0 /\ row.manual /\ row.saw = {}
    BY DEF NewRow
  <2> QED
    BY <2>2, <2>3
<1>2. rows' = Append(rows, row) /\ NextId <= MaxRows /\ UNCHANGED <<ext, check>>
  BY DEF Learn, Write
<1> HIDE DEF row
<1>3. Adds(row)
  <2>1. rows \in Seq(Row) /\ NextId = Len(rows) + 1 /\ DOMAIN rows = 1..Len(rows)
    BY RowIds DEF IInv
  <2>2. /\ rows' \in Seq(Row) /\ Len(rows') = Len(rows) + 1 /\ rows'[Len(rows) + 1] = row
        /\ \A r \in 1..Len(rows) : rows'[r] = rows[r]
    BY <1>1, <1>2, <2>1
  <2> QED
    BY <2>1, <2>2 DEF Adds
<1>4. /\ Len(rows') <= MaxRows /\ DOMAIN rows' = DOMAIN rows \cup {NextId}
      /\ SupersededById' /\ SupersededInSlot' /\ DuplicatesAreBlind'
      /\ \A e \in Extraction : Forgets(e) => Informed(e)'
  BY <1>1, <1>2, <1>3, AddInv
<1>5. TypeOK'
  BY <1>2, <1>3, <1>4 DEF IInv, TypeOK, Adds
<1>6. CheckedRows'
  BY <1>2, <1>4 DEF IInv, CheckedRows
<1> QED
  BY <1>2, <1>4, <1>5, <1>6, Quiet DEF IInv

\* Steps of an extraction that only change what it does.
LEMMA ExtractionType ==
    ASSUME TypeOK, NEW e \in Extraction
    PROVE  /\ ext[e] \in Working
           /\ \A new \in Working : [ext EXCEPT ![e] = new] \in [Extraction -> Working]
           /\ [ext[e] EXCEPT !.step = "next", !.now = NoFact] \in Working
           /\ [ext EXCEPT ![e].step = "next", ![e].now = NoFact]
                = [ext EXCEPT ![e] = [ext[e] EXCEPT !.step = "next", !.now = NoFact]]
<1>1. ext \in [Extraction -> Working]
  BY DEF TypeOK
<1>2. [ext[e] EXCEPT !.step = "next", !.now = NoFact] \in Working
  BY <1>1, IdleType DEF Working
<1>3. [ext EXCEPT ![e].step = "next", ![e].now = NoFact]
        = [ext EXCEPT ![e] = [ext[e] EXCEPT !.step = "next", !.now = NoFact]]
  BY <1>1
<1> QED
  BY <1>1, <1>2, <1>3

\* An extraction that is done with a fact keeps the rows it knows.
LEMMA SettledForgets ==
    ASSUME TypeOK, NEW e \in Extraction, Settled(e)
    PROVE  ext' \in [Extraction -> Working] /\ \A f \in Extraction : Forgets(f)
<1>1. ext \in [Extraction -> Working] /\ ext[e] \in Working
  BY DEF TypeOK
<1>2. ext' = [ext EXCEPT ![e] = [ext[e] EXCEPT !.step = "next", !.now = NoFact]]
  BY ExtractionType DEF Settled
<1>3. ext' \in [Extraction -> Working]
  BY <1>2, ExtractionType
<1>4. \A f \in Extraction \ {e} : ext'[f] = ext[f]
  BY <1>1, <1>2
<1>5. ext'[e] = [ext[e] EXCEPT !.step = "next", !.now = NoFact]
  BY <1>1, <1>2
<1>6. Forgets(e)
  BY <1>1, <1>5 DEF Forgets, Working
<1> QED
  BY <1>3, <1>4, <1>6 DEF Forgets

\* An extraction that ends, and one that drops its fact.
LEMMA DropsInv ==
    ASSUME IInv, NEW e \in Extraction, UNCHANGED <<rows, check>>,
           Settled(e) \/ ext' = [ext EXCEPT ![e] = IdleExtraction]
    PROVE  IInv'
<1>1. CASE Settled(e)
  <2>1. ext' \in [Extraction -> Working] /\ \A f \in Extraction : Forgets(f)
    BY <1>1, SettledForgets DEF IInv
  <2>2. TypeOK'
    BY <2>1 DEF IInv, TypeOK
  <2> QED
    BY <2>1, <2>2, SameRowsInv
<1>2. CASE ext' = [ext EXCEPT ![e] = IdleExtraction]
  <2>1. TypeOK'
    BY <1>2, IdleType DEF IInv, TypeOK
  <2>2. \A f \in Extraction : Forgets(f)
    BY <1>2 DEF IInv, TypeOK, Forgets
  <2> QED
    BY <2>1, <2>2, SameRowsInv
<1> QED
  BY <1>1, <1>2

\* An extraction begins with the active rows.
LEMMA BeginInv == ASSUME IInv, NEW e \in Extraction, Begin(e) PROVE IInv'
<1> DEFINE known == [r \in ActiveIds |-> rows[r].state]
           new == [IdleExtraction EXCEPT !.step = "next", !.seen = ActiveIds, !.known = known]
<1>1. rows \in Seq(Row) /\ ActiveIds \subseteq DOMAIN rows /\ DOMAIN rows \subseteq 1..MaxRows
  <2>1. Len(rows) \in Nat /\ Len(rows) <= MaxRows /\ DOMAIN rows = 1..Len(rows) /\ rows \in Seq(Row)
    BY RowIds DEF IInv, TypeOK
  <2> QED
    BY <2>1, Bounds DEF ActiveIds
<1>2. known \in Known /\ DOMAIN known = ActiveIds
  <2>1. known \in [ActiveIds -> States]
    <3>1. \A r \in DOMAIN rows : rows[r].state \in States
      <4>1. \A r \in DOMAIN rows : rows[r] \in Row
        BY <1>1
      <4> QED
        BY <4>1 DEF Row
    <3> QED
      BY <1>1, <3>1
  <2>2. ActiveIds \in SUBSET (1..MaxRows)
    BY <1>1
  <2> QED
    BY <2>1, <2>2 DEF Known
<1> HIDE DEF known
<1>3. ext' = [ext EXCEPT ![e] = new] /\ UNCHANGED <<rows, check>>
  BY Zenon DEF Begin, known
<1>4. /\ new \in Working /\ new.step = "next" /\ new.seen = ActiveIds
      /\ new.known = known /\ new.now = NoFact
  <2>1. PICK base \in Working : base = IdleExtraction /\ base.now = NoFact
    BY IdleType
  <2>2. ActiveIds \in SUBSET (1..MaxRows)
    BY <1>1
  <2>3. /\ [base EXCEPT !.step = "next", !.seen = ActiveIds, !.known = known] \in Working
        /\ [base EXCEPT !.step = "next", !.seen = ActiveIds, !.known = known].seen = ActiveIds
        /\ [base EXCEPT !.step = "next", !.seen = ActiveIds, !.known = known].step = "next"
        /\ [base EXCEPT !.step = "next", !.seen = ActiveIds, !.known = known].known = known
        /\ [base EXCEPT !.step = "next", !.seen = ActiveIds, !.known = known].now = NoFact
    BY <1>2, <2>1, <2>2 DEF Working
  <2> QED
    BY <2>1, <2>3, Zenon
<1>5. ext \in [Extraction -> Working]
  BY DEF IInv, TypeOK
<1>6. TypeOK'
  BY <1>3, <1>4, <1>5 DEF IInv, TypeOK
<1>7. Informed(e)'
  BY <1>1, <1>2, <1>3, <1>5, IdleType DEF Informed, Unlike
<1>8. \A f \in Extraction \ {e} : Informed(f)'
  BY <1>3, <1>5 DEF IInv, Informed
<1>9. SupersededById' /\ SupersededInSlot' /\ DuplicatesAreBlind' /\ CheckedRows'
  BY <1>3 DEF IInv, SupersededById, SupersededInSlot, DuplicatesAreBlind, CheckedRows, ActiveIds, Active
<1> QED
  BY <1>6, <1>7, <1>8, <1>9 DEF IInv

\* A relation with a row is what classifyFactRelation says of it; no relation is
\* stronger than "duplicate".
LEMMA StrongestKnown ==
    ASSUME TypeOK, NEW known \in SUBSET DOMAIN rows, NEW fact \in Fact,
           NEW match \in Strongest(known, fact)
    PROVE  /\ match \in Match /\ match.fact = fact
           /\ match.related # 0 => match.related \in known
           /\ match.relation = "duplicate" => match.related # 0
           /\ match.relation \in Unlike => \A r \in known : rows[r].fact # fact
           /\ match.relation \in {"update", "conflict"} =>
                 match.related # 0 /\ rows[match.related].fact.slot = fact.slot
<1> DEFINE Having(rel) == {r \in known : Relation(rows[r], fact) = rel}
           best == {i \in DOMAIN Ranking : Having(Ranking[i]) # {}}
<1>1. /\ DOMAIN Ranking = 1..4 /\ Ranking[1] = "duplicate" /\ Ranking[2] = "conflict"
      /\ Ranking[3] = "update" /\ Ranking[4] = "compatible"
  BY DEF Ranking
<1>2. \A r \in known : Relation(rows[r], fact) \in {"duplicate", "conflict", "update", "compatible"}
  BY DEF Relation
<1>3. \A r \in known : rows[r].fact = fact => Relation(rows[r], fact) = "duplicate"
  BY DEF Relation
<1>4. \A r \in known : Relation(rows[r], fact) \in {"update", "conflict"} => rows[r].fact.slot = fact.slot
  BY DEF Relation
<1>5. known \subseteq 1..MaxRows
  <2>1. Len(rows) \in Nat /\ Len(rows) <= MaxRows /\ DOMAIN rows = 1..Len(rows)
    BY RowIds DEF TypeOK
  <2> QED
    BY <2>1, Bounds
<1>6. CASE best = {}
  <2>1. match = [fact |-> fact, relation |-> "created", related |-> 0]
    BY <1>6 DEF Strongest
  <2>2. known = {}
    BY <1>1, <1>2, <1>6
  <2> QED
    BY <2>1, <2>2, Bounds DEF Match, Relations
<1>7. CASE best # {}
  <2>1. /\ Min(best) \in best
        /\ \A i \in best : Min(best) <= i
    <3>1. \E m \in best : \A i \in best : m <= i
      BY <1>1, <1>7
    <3> HIDE DEF best
    <3> QED
      BY <3>1 DEF Min
  <2>2. PICK m \in best : m = Min(best)
    BY <2>1
  <2>3. PICK r \in Having(Ranking[m]) :
          match = [fact |-> fact, relation |-> Ranking[m], related |-> r]
    BY <1>7, <2>2 DEF Strongest
  <2>4. /\ match.fact = fact /\ match.relation = Ranking[m] /\ match.related = r
        /\ r \in known /\ Relation(rows[r], fact) = Ranking[m] /\ r # 0
    BY <1>5, <2>3
  <2>5. match \in Match
    <3>1. Ranking[m] \in Relations
      BY <1>1 DEF Relations
    <3> QED
      BY <1>5, <2>3, <3>1 DEF Match
  <2>6. ASSUME NEW q \in known, rows[q].fact = fact PROVE Ranking[m] = "duplicate"
    <3>1. 1 \in best
      BY <1>1, <1>3, <2>6
    <3>2. m = 1
      <4>1. m <= 1
        BY <2>1, <2>2, <3>1
      <4>2. m \in 1..4
        BY <1>1
      <4> HIDE DEF best
      <4> QED
        BY <4>1, <4>2
    <3> QED
      BY <1>1, <3>2
  <2>7. Ranking[m] \in Unlike => Ranking[m] # "duplicate"
    BY DEF Unlike
  <2> QED
    BY <1>4, <2>4, <2>5, <2>6, <2>7
<1> QED
  BY <1>6, <1>7

\* A fact is related to rows that the extraction knows.
LEMMA ConsiderInv ==
    ASSUME IInv, NEW e \in Extraction, NEW fact \in Fact, Consider(e, fact)
    PROVE  IInv'
<1>1. PICK match \in Strongest(DOMAIN ext[e].known, fact) :
        ext' = [ext EXCEPT ![e].now = match, ![e].step = "verify"]
  BY DEF Consider
<1>2. UNCHANGED <<rows, check>>
  BY DEF Consider
<1>3. ext \in [Extraction -> Working] /\ Informed(e)
  BY DEF IInv, TypeOK
<1>4. DOMAIN ext[e].known = ext[e].seen /\ ext[e].seen \in SUBSET DOMAIN rows
  BY <1>3 DEF Informed
<1>5. /\ match \in Match /\ match.fact = fact
      /\ match.related # 0 => match.related \in ext[e].seen
      /\ match.relation = "duplicate" => match.related # 0
      /\ match.relation \in Unlike => \A r \in ext[e].seen : rows[r].fact # fact
      /\ match.relation \in {"update", "conflict"} =>
            match.related # 0 /\ rows[match.related].fact.slot = fact.slot
  BY <1>4, StrongestKnown DEF IInv
<1>6. ext' = [ext EXCEPT ![e] = [ext[e] EXCEPT !.now = match, !.step = "verify"]]
  BY <1>1, <1>3
<1>7. [ext[e] EXCEPT !.now = match, !.step = "verify"] \in Working
  BY <1>3, <1>5 DEF Working
<1>8. /\ ext'[e].seen = ext[e].seen /\ ext'[e].known = ext[e].known /\ ext'[e].now = match
      /\ \A f \in Extraction \ {e} : ext'[f] = ext[f]
  BY <1>3, <1>6 DEF Working
<1>9. TypeOK'
  BY <1>2, <1>3, <1>6, <1>7 DEF IInv, TypeOK
<1>10. Informed(e)'
  BY <1>2, <1>4, <1>5, <1>8 DEF Informed
<1>11. \A f \in Extraction \ {e} : Informed(f)'
  BY <1>2, <1>8 DEF IInv, Informed
<1>12. SupersededById' /\ SupersededInSlot' /\ DuplicatesAreBlind' /\ CheckedRows'
  BY <1>2 DEF IInv, SupersededById, SupersededInSlot, DuplicatesAreBlind, CheckedRows, ActiveIds, Active
<1> QED
  BY <1>9, <1>10, <1>11, <1>12 DEF IInv

\* Verifications that stand still.
LEMMA Unchecked ==
    ASSUME IInv, UNCHANGED check
    PROVE  /\ check' \in [Verifier -> {<<>>} \cup [row : 1..MaxRows, confirmed : BOOLEAN]]
           /\ \A v \in Verifier : check'[v] = check[v] \/ check'[v] = <<>>
BY DEF IInv, TypeOK

\* What is written over a row that is there, field by field.
LEMMA FieldChanges ==
    ASSUME TypeOK, NEW r \in DOMAIN rows, NEW state \in States
    PROVE  LET Same(row) == /\ row \in Row /\ row.fact = rows[r].fact /\ row.saw = rows[r].saw
                            /\ row.manual = rows[r].manual /\ row.by = rows[r].by
                            /\ rows[r].retired => row.retired
           IN  /\ Same([rows[r] EXCEPT !.stale = FALSE])
               /\ Same([rows[r] EXCEPT !.stale = FALSE, !.state = state])
               /\ Same([rows[r] EXCEPT !.state = state])
               /\ Same([rows[r] EXCEPT !.retired = TRUE])
<1>1. rows[r] \in Row
  BY RowIds
<1>2. PICK row \in Row : row = rows[r]
  BY <1>1
<1>3. /\ [row EXCEPT !.stale = FALSE] \in Row
      /\ [row EXCEPT !.stale = FALSE, !.state = state] \in Row
      /\ [row EXCEPT !.state = state] \in Row
      /\ [row EXCEPT !.retired = TRUE] \in Row
  BY <1>2, Zenon DEF Row
<1> QED
  BY <1>2, <1>3 DEF Row

\* A row that is met again is touched.
LEMMA RepeatInv ==
    ASSUME IInv, NEW e \in Extraction, NEW fact \in Fact, Repeat(e, fact)
    PROVE  IInv'
<1>1. PICK r \in DOMAIN ext[e].known : rows' = [rows EXCEPT ![r].stale = FALSE]
  BY DEF Repeat, Write
<1>2. UNCHANGED <<ext, check>>
  BY DEF Repeat
<1>3. r \in DOMAIN rows
  BY DEF IInv, Informed
<1>4. rows' = [rows EXCEPT ![r] = [rows[r] EXCEPT !.stale = FALSE]]
  BY <1>1, <1>3
<1>5. ext' \in [Extraction -> Working]
  BY <1>2 DEF IInv, TypeOK
<1> QED
  BY <1>2, <1>3, <1>4, <1>5, FieldChanges, RowChangeInv, Unchecked, Quiet, Zenon DEF IInv, States

\* The row that a duplicate names is touched, and may become trusted.
LEMMA ConfirmInv ==
    ASSUME IInv, NEW e \in Extraction, NEW ev \in Evidence, Confirm(e, ev)
    PROVE  IInv'
<1> DEFINE r == ext[e].now.related
           raise == ext[e].known[r] # "trusted" /\ Earned(e, ev) = "trusted"
<1>1. /\ rows' = [rows EXCEPT ![r].stale = FALSE, ![r].state = IF raise THEN "trusted" ELSE @]
      /\ Settled(e) /\ UNCHANGED check /\ ext[e].now.relation = "duplicate"
  BY DEF Confirm, Write, Approved
<1>2. r \in DOMAIN rows
  BY <1>1 DEF IInv, Informed
<1>3. PICK state \in States : state = IF raise THEN "trusted" ELSE rows[r].state
  <2>1. rows[r] \in Row
    BY <1>2, RowIds DEF IInv
  <2>2. rows[r].state \in States /\ "trusted" \in States
    BY <2>1 DEF Row, States
  <2> QED
    BY <2>2
<1>4. rows' = [rows EXCEPT ![r] = [rows[r] EXCEPT !.stale = FALSE, !.state = state]]
  <2>1. rows[r] \in Row /\ rows \in Seq(Row)
    BY <1>2, RowIds DEF IInv
  <2> HIDE DEF r, raise
  <2> QED
    BY <1>1, <1>2, <1>3, <2>1 DEF Row
<1>5. ext' \in [Extraction -> Working] /\ \A f \in Extraction : Forgets(f)
  BY <1>1, SettledForgets DEF IInv
<1> HIDE DEF r
<1> QED
  BY <1>1, <1>2, <1>4, <1>5, FieldChanges, RowChangeInv, Unchecked, ZenonT(40) DEF IInv

\* The row that a fact was related to becomes disputed.
LEMMA DisputeInv ==
    ASSUME IInv, NEW e \in Extraction, NEW ev \in Evidence, Dispute(e, ev)
    PROVE  IInv'
<1> DEFINE r == ext[e].now.related
<1>1. /\ rows' = [rows EXCEPT ![r].state = "disputed"]
      /\ Settled(e) /\ UNCHANGED check /\ r # 0
  BY DEF Dispute, Write, Disputes
<1>2. r \in DOMAIN rows
  BY <1>1 DEF IInv, Informed
<1>3. rows' = [rows EXCEPT ![r] = [rows[r] EXCEPT !.state = "disputed"]]
  BY <1>1, <1>2
<1>4. ext' \in [Extraction -> Working] /\ \A f \in Extraction : Forgets(f)
  BY <1>1, SettledForgets DEF IInv
<1>5. "disputed" \in States
  BY DEF States
<1> HIDE DEF r
<1> QED
  BY <1>1, <1>2, <1>3, <1>4, <1>5, FieldChanges, RowChangeInv, Unchecked DEF IInv

\* What an extraction knows after it has made a row.
LEMMA KnowsMore ==
    ASSUME NEW known \in Known, NEW n \in 1..MaxRows, NEW state \in States
    PROVE  /\ With(known, n, state) \in Known
           /\ DOMAIN With(known, n, state) = DOMAIN known \cup {n}
<1>1. PICK dom \in SUBSET (1..MaxRows) : known \in [dom -> States]
  BY DEF Known
<1>2. DOMAIN known = dom /\ With(known, n, state) \in [dom \cup {n} -> States]
  BY <1>1 DEF With
<1>3. dom \cup {n} \in SUBSET (1..MaxRows)
  BY <1>1
<1> QED
  BY <1>2, <1>3 DEF Known

\* The new row replaces at most the row its fact was related to, in its slot.
LEMMA PromoteInv ==
    ASSUME IInv, NEW e \in Extraction, NEW ev \in Evidence, NEW strategy \in Strategies,
           Promote(e, ev, strategy)
    PROVE  IInv'
<1> DEFINE now == ext[e].now
           row == NewRow(now.fact, Earned(e, ev), ev, FALSE, ext[e].seen)
           replaced == {r \in {now.related} : Replaces(e, ev, strategy)}
           Ended(r) == [rows[r] EXCEPT !.by = NextId, !.state = "superseded"]
           added == [r \in 1..NextId |->
                       IF r = NextId THEN row ELSE IF r \in replaced THEN Ended(r) ELSE rows[r]]
           known == With(ext[e].known, NextId, row.state)
           new == [ext[e] EXCEPT !.step = "next", !.now = NoFact,
                     !.seen = @ \cup {NextId}, !.known = known]
<1>1. ext \in [Extraction -> Working] /\ ext[e] \in Working /\ Informed(e)
  BY DEF IInv, TypeOK
<1>2. /\ now.relation \in Unlike /\ NextId <= MaxRows /\ UNCHANGED check
  BY DEF Promote, Approved
<1>3. rows' = added
  BY DEF Promote, Write
<1>4. ext' = [ext EXCEPT ![e].step = "next", ![e].now = NoFact,
                ![e].seen = @ \cup {NextId}, ![e].known = With(@, NextId, row.state)]
  BY DEF Promote
<1>5. /\ NextId \in 1..MaxRows /\ NextId \in Nat /\ NextId = Len(rows) + 1
      /\ DOMAIN rows = 1..Len(rows) /\ Len(rows) \in Nat
      /\ \A r \in DOMAIN rows : r < NextId /\ rows[r] \in Row
  BY <1>2, RowIds DEF IInv
<1>6. /\ row \in Row /\ row.fact = now.fact /\ row.by = 0 /\ row.saw = ext[e].seen
      /\ row.state \in States
  <2>1. now.fact \in Fact /\ ext[e].seen \in SUBSET (1..MaxRows)
    BY <1>1 DEF Working, Match
  <2>2. Earned(e, ev) \in States
    BY AssessedType DEF Earned
  <2>3. row \in Row
    <3>1. FALSE \in BOOLEAN /\ ev \in Evidence \cup {<<>>}
      OBVIOUS
    <3> QED
      BY <2>1, <2>2, <3>1, NewRowType
  <2>4. row.fact = now.fact /\ row.by = 0 /\ row.saw = ext[e].seen
    BY DEF NewRow
  <2> HIDE DEF row
  <2> QED
    BY <2>3, <2>4 DEF Row
<1>7. ASSUME NEW r \in replaced PROVE rows[r].fact.slot = row.fact.slot
  BY <1>1, <1>6 DEF Replaces, Informed
<1> HIDE DEF row, replaced
<1>8. Adds(row)
  <2>1. \A r \in 1..NextId : added[r] \in Row
    <3>1. ASSUME NEW r \in 1..NextId, r # NextId PROVE r \in DOMAIN rows
      BY <1>5, <3>1
    <3>2. ASSUME NEW r \in DOMAIN rows
          PROVE  Ended(r) \in Row
      <4>1. PICK old \in Row : old = rows[r]
        BY <1>5
      <4>2. "superseded" \in States /\ NextId \in 0..MaxRows
        BY <1>5, Bounds DEF States
      <4>3. [old EXCEPT !.by = NextId, !.state = "superseded"] \in Row
        BY <4>2 DEF Row
      <4> QED
        BY <4>1, <4>3, Zenon
    <3> HIDE DEF Ended
    <3> QED
      BY <1>5, <1>6, <3>1, <3>2
  <2>2. /\ DOMAIN added = 1..NextId /\ added[NextId] = row
        /\ \A r \in DOMAIN rows :
              added[r] = IF r \in replaced THEN Ended(r) ELSE rows[r]
    <3> HIDE DEF Ended
    <3>1. \A r \in DOMAIN rows : r # NextId /\ r \in 1..NextId
      BY <1>5
    <3>2. NextId \in 1..NextId
      BY <1>5
    <3> QED
      BY <3>1, <3>2
  <2>3. added \in [1..NextId -> Row]
    BY <2>1
  <2> HIDE DEF added
  <2>4. added \in Seq(Row) /\ Len(added) = NextId
    <3>1. DOMAIN added = 1..NextId /\ NextId \in Nat
      BY <1>5, <2>2
    <3>2. added \in Seq(Row)
      BY <2>3, <3>1
    <3> QED
      BY <3>1, <3>2, LenProperties
  <2> QED
    BY <1>3, <1>7, <2>2, <2>4 DEF Adds
<1>9. \A r \in row.saw : rows[r].fact # row.fact
  BY <1>1, <1>2, <1>6 DEF Informed
<1>10. /\ Len(rows') <= MaxRows /\ DOMAIN rows' = DOMAIN rows \cup {NextId}
       /\ \A r \in DOMAIN rows : rows'[r].fact = rows[r].fact
       /\ SupersededById' /\ SupersededInSlot' /\ DuplicatesAreBlind'
       /\ \A f \in Extraction : Forgets(f) => Informed(f)'
  BY <1>2, <1>6, <1>8, <1>9, AddInv
<1>11. /\ known \in Known /\ DOMAIN known = ext[e].seen \cup {NextId}
  <2>1. ext[e].known \in Known /\ DOMAIN ext[e].known = ext[e].seen
    BY <1>1 DEF Working, Informed
  <2> QED
    BY <1>5, <1>6, <2>1, KnowsMore, ZenonT(40)
<1> HIDE DEF known
<1>12. /\ new \in Working /\ new.seen = ext[e].seen \cup {NextId}
       /\ new.known = known /\ new.now = NoFact
  BY <1>1, <1>5, <1>11, IdleType DEF Working
<1>13. ext' = [ext EXCEPT ![e] = new]
  <2>1. ext' = [ext EXCEPT ![e].step = "next", ![e].now = NoFact,
                  ![e].seen = @ \cup {NextId}, ![e].known = known]
    BY <1>1, <1>4 DEF known
  <2> QED
    BY <1>1, <2>1
<1> HIDE DEF new
<1>14. TypeOK'
  <2>1. ext' \in [Extraction -> Working]
    BY <1>1, <1>12, <1>13
  <2> QED
    BY <1>2, <1>8, <1>10, <2>1 DEF IInv, TypeOK, Adds
<1>15. Informed(e)'
  <2>1. ext[e].seen \subseteq DOMAIN rows
    BY <1>1 DEF Informed
  <2>2. ext'[e] = new
    BY <1>1, <1>13
  <2> QED
    BY <1>10, <1>11, <1>12, <2>1, <2>2, IdleType DEF Informed, Unlike
<1>16. \A f \in Extraction \ {e} : Forgets(f)
  BY <1>1, <1>13 DEF Forgets
<1>17. CheckedRows'
  BY <1>2, <1>10 DEF IInv, CheckedRows
<1> QED
  BY <1>10, <1>14, <1>15, <1>16, <1>17 DEF IInv

\* Steps of a maintenance pass that only choose rows.
LEMMA StoodInv == ASSUME IInv, UNCHANGED <<rows, ext, check>> PROVE IInv'
<1>1. TypeOK'
  BY DEF IInv, TypeOK
<1> QED
  BY <1>1, Quiet, SameRowsInv

\* A verification starts with a row that is there.
LEMMA FetchInv ==
    ASSUME IInv, NEW v \in Verifier, NEW r \in DOMAIN rows, UNCHANGED <<rows, ext>>,
           check' = [check EXCEPT ![v] = [row |-> r, confirmed |-> rows[r].confirmed]]
    PROVE  IInv'
<1>1. rows[r].confirmed \in BOOLEAN
  <2>1. rows[r] \in Row
    BY RowIds DEF IInv
  <2> QED
    BY <2>1 DEF Row
<1>2. PICK confirmed \in BOOLEAN : confirmed = rows[r].confirmed
  BY <1>1
<1>3. r \in 1..MaxRows
  <2>1. Len(rows) \in Nat /\ Len(rows) <= MaxRows /\ DOMAIN rows = 1..Len(rows)
    BY RowIds DEF IInv, TypeOK
  <2> QED
    BY <2>1, Bounds
<1>4. check' = [check EXCEPT ![v] = [row |-> r, confirmed |-> confirmed]]
  BY <1>2, Zenon
<1>5. check \in [Verifier -> {<<>>} \cup [row : 1..MaxRows, confirmed : BOOLEAN]]
  BY DEF IInv, TypeOK
<1>6. TypeOK'
  <2>1. check' \in [Verifier -> {<<>>} \cup [row : 1..MaxRows, confirmed : BOOLEAN]]
    BY <1>3, <1>4, <1>5
  <2> QED
    BY <2>1 DEF IInv, TypeOK
<1>7. CheckedRows'
  BY <1>4, <1>5 DEF IInv, CheckedRows
<1>8. \A e \in Extraction : Informed(e)'
  BY DEF IInv, Informed
<1>9. SupersededById' /\ SupersededInSlot' /\ DuplicatesAreBlind'
  BY DEF IInv, SupersededById, SupersededInSlot, DuplicatesAreBlind, ActiveIds, Active
<1> QED
  BY <1>6, <1>7, <1>8, <1>9 DEF IInv

\* The outcome of a verification is written over the row as it is now.
LEMMA VerifiedRow ==
    ASSUME IInv, NEW v \in Verifier, NEW base, check[v] # <<>>, rows' = Verified(v, base)
    PROVE  \E r \in DOMAIN rows, state \in States, due \in BOOLEAN, confirmed \in BOOLEAN :
             rows' = [rows EXCEPT ![r] = [rows[r] EXCEPT
                        !.state = state, !.stale = FALSE, !.due = due, !.confirmed = confirmed]]
<1> DEFINE r == check[v].row
           state == Assessed(rows[r].ev, base, rows[r].fact.slot \in Protected, "created")
           sure == state = "trusted"
<1>1. r \in DOMAIN rows
  BY DEF IInv, CheckedRows
<1>2. rows[r] \in Row
  BY <1>1, RowIds DEF IInv
<1>3. PICK earned \in States : earned = state
  BY AssessedType
<1>4. rows' = [rows EXCEPT ![r].state = state, ![r].stale = FALSE,
                 ![r].due = ~sure /\ check[v].confirmed /\ @,
                 ![r].confirmed = sure \/ check[v].confirmed]
  BY DEF Verified
<1>5. PICK due \in BOOLEAN : due = (~sure /\ check[v].confirmed /\ rows[r].due)
  OBVIOUS
<1>6. PICK confirmed \in BOOLEAN : confirmed = (sure \/ check[v].confirmed)
  OBVIOUS
<1> HIDE DEF state, sure, r
<1>7. rows' = [rows EXCEPT ![r] =
        [rows[r] EXCEPT !.state = earned, !.stale = FALSE, !.due = due, !.confirmed = confirmed]]
  <2>1. rows' = [rows EXCEPT ![r].state = earned, ![r].stale = FALSE,
                   ![r].due = ~sure /\ check[v].confirmed /\ @, ![r].confirmed = confirmed]
    BY <1>3, <1>4, <1>6, Zenon
  <2>2. rows' = [rows EXCEPT ![r].state = earned, ![r].stale = FALSE,
                   ![r].due = due, ![r].confirmed = confirmed]
    BY <1>1, <1>2, <1>5, <2>1 DEF Row
  <2> QED
    BY <1>1, <1>2, <2>2 DEF Row
<1> QED
  BY <1>1, <1>7, ZenonT(40)

LEMMA VerifiedInv ==
    ASSUME IInv, NEW v \in Verifier, NEW base, check[v] # <<>>, rows' = Verified(v, base),
           check' = [check EXCEPT ![v] = <<>>], UNCHANGED ext
    PROVE  IInv'
<1>1. PICK r \in DOMAIN rows, state \in States, due \in BOOLEAN, confirmed \in BOOLEAN :
        rows' = [rows EXCEPT ![r] = [rows[r] EXCEPT
                   !.state = state, !.stale = FALSE, !.due = due, !.confirmed = confirmed]]
  BY VerifiedRow
<1>2. PICK old \in Row : old = rows[r]
  BY RowIds DEF IInv
<1>3. PICK row : row = [old EXCEPT !.state = state, !.stale = FALSE,
                           !.due = due, !.confirmed = confirmed]
  OBVIOUS
<1>4. /\ row \in Row /\ row.fact = old.fact /\ row.saw = old.saw /\ row.manual = old.manual
      /\ row.by = old.by /\ (old.retired => row.retired)
  BY <1>3 DEF Row
<1>5. rows' = [rows EXCEPT ![r] = row]
  BY <1>1, <1>2, <1>3, Zenon
<1>6. /\ check' \in [Verifier -> {<<>>} \cup [row : 1..MaxRows, confirmed : BOOLEAN]]
      /\ \A w \in Verifier : check'[w] = check[w] \/ check'[w] = <<>>
      /\ ext' \in [Extraction -> Working]
  BY DEF IInv, TypeOK
<1>7. /\ row.fact = rows[r].fact /\ row.saw = rows[r].saw /\ row.manual = rows[r].manual
      /\ row.by = rows[r].by /\ (rows[r].retired => row.retired)
  BY <1>2, <1>4, Zenon
<1>8. \A e \in Extraction : Forgets(e)
  BY Quiet
<1> QED
  BY <1>4, <1>5, <1>6, <1>7, <1>8, RowChangeInv

\* A maintenance pass demotes or retires a row.
LEMMA MaintainedInv ==
    ASSUME IInv, NEW r \in DOMAIN rows, UNCHANGED <<ext, check>>,
           \/ rows' = [rows EXCEPT ![r].state = "provisional"]
           \/ rows' = [rows EXCEPT ![r].retired = TRUE]
    PROVE  IInv'
<1>1. ext' \in [Extraction -> Working]
  BY DEF IInv, TypeOK
<1>2. CASE rows' = [rows EXCEPT ![r].state = "provisional"]
  <2>1. rows' = [rows EXCEPT ![r] = [rows[r] EXCEPT !.state = "provisional"]]
    BY <1>2
  <2>2. "provisional" \in States
    BY DEF States
  <2> QED
    BY <1>1, <2>1, <2>2, FieldChanges, RowChangeInv, Unchecked, Quiet DEF IInv
<1>3. CASE rows' = [rows EXCEPT ![r].retired = TRUE]
  <2>1. rows' = [rows EXCEPT ![r] = [rows[r] EXCEPT !.retired = TRUE]]
    BY <1>3
  <2>2. "provisional" \in States
    BY DEF States
  <2> QED
    BY <1>1, <2>1, <2>2, FieldChanges, RowChangeInv, Unchecked, Quiet DEF IInv
<1> QED
  BY <1>2, <1>3

\* Every action keeps the invariant.
LEMMA StepInv == IInv /\ [Next]_vars => IInv'
<1> SUFFICES ASSUME IInv, [Next]_vars PROVE IInv'
  OBVIOUS
<1>1. CASE \E fact \in Fact : Learn(fact)
  BY <1>1, LearnInv
<1>2. ASSUME NEW e \in Extraction, Begin(e) \/ TurnDown(e) \/ End(e) PROVE IInv'
  <2>1. CASE Begin(e)
    BY <2>1, BeginInv
  <2>2. CASE TurnDown(e) \/ End(e)
    BY <2>2, DropsInv DEF TurnDown, End
  <2> QED
    BY <1>2, <2>1, <2>2
<1>3. ASSUME NEW e \in Extraction, NEW fact \in Fact, Repeat(e, fact) \/ Consider(e, fact)
      PROVE  IInv'
  BY <1>3, RepeatInv, ConsiderInv
<1>4. ASSUME NEW e \in Extraction, NEW ev \in Evidence,
             Confirm(e, ev) \/ Reject(e, ev) \/ Dispute(e, ev)
      PROVE  IInv'
  <2>1. CASE Confirm(e, ev)
    BY <2>1, ConfirmInv
  <2>2. CASE Reject(e, ev)
    BY <2>2, DropsInv DEF Reject
  <2>3. CASE Dispute(e, ev)
    BY <2>3, DisputeInv
  <2> QED
    BY <1>4, <2>1, <2>2, <2>3
<1>5. ASSUME NEW e \in Extraction, NEW ev \in Evidence, NEW strategy \in Strategies,
             Skip(e, ev, strategy) \/ Promote(e, ev, strategy)
      PROVE  IInv'
  <2>1. CASE Skip(e, ev, strategy)
    BY <2>1, DropsInv DEF Skip
  <2>2. CASE Promote(e, ev, strategy)
    BY <2>2, PromoteInv
  <2> QED
    BY <1>5, <2>1, <2>2
<1>6. ASSUME NEW v \in Verify, NEW r \in DOMAIN rows, Fetch(v, r) PROVE IInv'
  BY <1>6, FetchInv DEF Fetch, Verifier
<1>7. ASSUME NEW v \in Verify, NEW base \in Bases, Verdict(v, base) PROVE IInv'
  BY <1>7, VerifiedInv DEF Verdict, Write, Verifier
<1>8. CASE Maintain
  <2>1. CASE MBegin \/ MOverflow \/ MConsolidate \/ MDue \/ MEnd
    BY <2>1, StoodInv DEF MBegin, MOverflow, MConsolidate, MDue, MEnd
  <2>2. ASSUME NEW r \in DOMAIN rows, MDemote(r) \/ MRetire(r) \/ MDrop(r) PROVE IInv'
    BY <2>2, MaintainedInv DEF MDemote, MRetire, MDrop
  <2>3. ASSUME NEW r \in DOMAIN rows, MKeep(r) PROVE IInv'
    BY <2>3, StoodInv DEF MKeep
  <2>4. ASSUME NEW r \in DOMAIN rows, MFetch(r) PROVE IInv'
    BY <2>4, FetchInv DEF MFetch, Verifier
  <2>5. ASSUME NEW base \in Bases, MVerdict(base) PROVE IInv'
    BY <2>5, VerifiedInv DEF MVerdict, Verifier
  <2> QED
    BY <1>8, <2>1, <2>2, <2>3, <2>4, <2>5 DEF Maintain
<1>9. CASE UNCHANGED vars
  BY <1>9, StoodInv DEF vars
<1> QED
  BY <1>1, <1>2, <1>3, <1>4, <1>5, <1>6, <1>7, <1>8, <1>9 DEF Next

\* Whatever calls overlap, a superseded fact names a later row of its own slot:
\* the relation that made it so was of rows that never change what they state.
THEOREM ChainsStayInSlot == Spec => []SupersededInSlot
<1>1. IInv => SupersededInSlot
  BY DEF IInv
<1> QED
  BY <1>1, InitInv, StepInv, PTL DEF Spec

\* Of two active rows with the same text, the extraction that made the later one
\* could not know the earlier one.
THEOREM DuplicatesUnseen == Spec => []DuplicatesAreBlind
<1>1. IInv => DuplicatesAreBlind
  BY DEF IInv
<1> QED
  BY <1>1, InitInv, StepInv, PTL DEF Spec

------------------------------------------------------------------------------
(* Maintenance passes that nothing else disturbs.                             *)

Phases == {"idle", "lifecycle", "overflow", "consolidate", "reverify"}
Listed == DOMAIN maint.list

\* What was too much has been taken.
Reduced ==
    \E ids \in SUBSET Expendable :
        /\ Cardinality(ids) = Min({Excess, Cardinality(Expendable)})
        /\ ids \subseteq maint.taken

\* The choices of one row for each slot.
Winners == {winner \in [{s \in Slot : Slotted(s) # {}} -> Listed] :
              \A s \in DOMAIN winner : winner[s] \in Slotted(s)}

\* In every phase the rows of the list that have gone are those that it has dealt with.
InLifecycle ==
    maint.phase = "lifecycle" => \A r \in Listed : Active(r) <=> r \notin maint.taken

InOverflow ==
    maint.phase = "overflow" =>
        /\ Reduced /\ maint.todo \subseteq maint.taken
        /\ \A r \in Listed : /\ Active(r) => r \notin maint.taken \ maint.todo
                             /\ ~Active(r) => r \in maint.taken

Consolidating(winner) ==
    /\ maint.todo \subseteq Losers(winner)
    /\ \A r \in Listed :
          /\ Active(r) => r \notin maint.taken /\ r \notin Losers(winner) \ maint.todo
          /\ ~Active(r) => r \in maint.taken \/ r \in Losers(winner)

InConsolidation ==
    maint.phase = "consolidate" => Reduced /\ \E winner \in Winners : Consolidating(winner)

Passing == InLifecycle /\ InOverflow /\ InConsolidation /\ PassesSettle

MaintInv ==
    /\ maint.phase \in Phases
    /\ maint = [phase |-> maint.phase, list |-> maint.list, todo |-> maint.todo,
                taken |-> maint.taken, alone |-> maint.alone]
    /\ maint.phase # "idle" /\ maint.alone => Listed \subseteq DOMAIN rows /\ Passing

\* What is said of a list depends on no more than it.
LEMMA ListSays ==
    ASSUME maint'.list = maint.list
    PROVE  /\ Listed' = Listed /\ Excess' = Excess /\ Expendable' = Expendable
           /\ \A s : Slotted(s)' = Slotted(s)
           /\ Winners' = Winners /\ \A winner : Losers(winner)' = Losers(winner)
           /\ maint'.taken = maint.taken /\ Reduced => Reduced'
<1>1. Listed' = Listed /\ Excess' = Excess /\ Expendable' = Expendable
  BY DEF Listed, Excess, Expendable
<1>2. \A s : Slotted(s)' = Slotted(s)
  BY DEF Slotted
<1>3. Winners' = Winners
  BY <1>1, <1>2 DEF Winners
<1>4. \A winner : Losers(winner)' = Losers(winner)
  BY <1>2 DEF Losers
<1>5. maint'.taken = maint.taken /\ Reduced => Reduced'
  BY <1>1 DEF Reduced
<1> QED
  BY <1>1, <1>2, <1>3, <1>4, <1>5

\* Whoever leaves the maintenance alone, or a row as active as it was.
LEMMA StandsBy ==
    ASSUME MaintInv, UNCHANGED maint, DOMAIN rows' = DOMAIN rows,
           \A r \in DOMAIN rows : Active(r)' <=> Active(r)
    PROVE  MaintInv'
<1> SUFFICES ASSUME maint.phase # "idle", maint.alone PROVE Passing'
  BY DEF MaintInv, Listed
<1>1. /\ Listed' = Listed /\ Excess' = Excess /\ Expendable' = Expendable
      /\ \A s : Slotted(s)' = Slotted(s)
      /\ Winners' = Winners /\ \A winner : Losers(winner)' = Losers(winner)
      /\ Reduced => Reduced'
  BY ListSays
<1>2. Passing /\ \A r \in Listed : Active(r)' <=> Active(r)
  BY DEF MaintInv
<1>3. InLifecycle' /\ InOverflow'
  BY <1>1, <1>2 DEF Passing, InLifecycle, InOverflow
<1>4. \A winner : Consolidating(winner) => Consolidating(winner)'
  BY <1>1, <1>2 DEF Consolidating
<1>5. InConsolidation'
  BY <1>1, <1>2, <1>4 DEF Passing, InConsolidation
<1>6. PassesSettle'
  <2>1. \A s : {r \in Slotted(s) : Active(r)}' = {r \in Slotted(s) : Active(r)}
    BY <1>1, <1>2 DEF Slotted, Listed
  <2>2. {r \in DOMAIN maint.list : Active(r)}' = {r \in DOMAIN maint.list : Active(r)}
    BY <1>2 DEF Listed
  <2> QED
    BY <1>1, <1>2, <2>1, <2>2 DEF Passing, PassesSettle, Undisturbed, Listed
<1> QED
  BY <1>3, <1>5, <1>6 DEF Passing

\* A write of another call ends what is said of the pass.
LEMMA WriteDisturbs ==
    ASSUME MaintInv, NEW new, Write(new)
    PROVE  MaintInv'
<1>1. CASE maint.phase = "idle"
  BY <1>1 DEF MaintInv, Write
<1>2. CASE maint.phase # "idle"
  <2>1. maint' = [phase |-> maint.phase, list |-> maint.list, todo |-> maint.todo,
                  taken |-> maint.taken, alone |-> FALSE]
    BY <1>2 DEF MaintInv, Write
  <2> QED
    BY <2>1 DEF MaintInv
<1> QED
  BY <1>1, <1>2

\* A field of a row changes.
LEMMA RowStays ==
    ASSUME TypeOK, NEW r \in DOMAIN rows, NEW state, rows' = [rows EXCEPT ![r].state = state]
    PROVE  DOMAIN rows' = DOMAIN rows /\ \A q \in DOMAIN rows : Active(q)' <=> Active(q)
<1>1. rows[r] \in Row
  BY RowIds
<1>2. PICK row \in Row : row = rows[r]
  BY <1>1
<1>3. PICK new : new = [row EXCEPT !.state = state]
  OBVIOUS
<1>4. new.by = row.by /\ new.retired = row.retired
  BY <1>3 DEF Row
<1>5. rows' = [rows EXCEPT ![r] = new]
  BY <1>2, <1>3
<1>6. DOMAIN rows' = DOMAIN rows /\ \A q \in DOMAIN rows : rows'[q] = IF q = r THEN new ELSE rows[q]
  BY <1>5
<1> QED
  BY <1>2, <1>4, <1>6 DEF Active

LEMMA RowRetires ==
    ASSUME TypeOK, NEW r \in DOMAIN rows, rows' = [rows EXCEPT ![r].retired = TRUE]
    PROVE  DOMAIN rows' = DOMAIN rows /\ \A q \in DOMAIN rows : Active(q)' <=> Active(q) /\ q # r
<1>1. rows[r] \in Row
  BY RowIds
<1>2. PICK row \in Row : row = rows[r]
  BY <1>1
<1>3. PICK new : new = [row EXCEPT !.retired = TRUE]
  OBVIOUS
<1>4. new.retired = TRUE
  BY <1>3 DEF Row
<1>5. rows' = [rows EXCEPT ![r] = new]
  BY <1>2, <1>3
<1>6. DOMAIN rows' = DOMAIN rows /\ \A q \in DOMAIN rows : rows'[q] = IF q = r THEN new ELSE rows[q]
  BY <1>5
<1> QED
  BY <1>4, <1>6 DEF Active

LEMMA VerifiedStays ==
    ASSUME IInv, NEW v \in Verifier, NEW base, check[v] # <<>>, rows' = Verified(v, base)
    PROVE  DOMAIN rows' = DOMAIN rows /\ \A q \in DOMAIN rows : Active(q)' <=> Active(q)
<1>1. PICK r \in DOMAIN rows, state \in States, due \in BOOLEAN, confirmed \in BOOLEAN :
        rows' = [rows EXCEPT ![r] = [rows[r] EXCEPT
                   !.state = state, !.stale = FALSE, !.due = due, !.confirmed = confirmed]]
  BY VerifiedRow
<1>2. PICK row \in Row : row = rows[r]
  BY RowIds DEF IInv
<1>3. PICK new : new = [row EXCEPT !.state = state, !.stale = FALSE, !.due = due, !.confirmed = confirmed]
  OBVIOUS
<1>4. new.by = row.by /\ new.retired = row.retired
  BY <1>3 DEF Row
<1>5. rows' = [rows EXCEPT ![r] = new]
  BY <1>1, <1>2, <1>3, Zenon
<1>6. DOMAIN rows' = DOMAIN rows /\ \A q \in DOMAIN rows : rows'[q] = IF q = r THEN new ELSE rows[q]
  BY <1>5
<1> QED
  BY <1>2, <1>4, <1>6 DEF Active

\* A pass begins with the rows that are active.
LEMMA MBeginKeeps == ASSUME IInv, MaintInv, MBegin PROVE MaintInv'
<1>1. maint' = [phase |-> "lifecycle", list |-> [r \in ActiveIds |-> rows[r]], todo |-> ActiveIds,
                taken |-> {}, alone |-> TRUE]
  BY DEF MBegin, IdleMaintenance
<1>2. Listed' = ActiveIds /\ maint'.taken = {} /\ maint'.phase = "lifecycle"
  BY <1>1 DEF Listed
<1>3. UNCHANGED rows
  BY DEF MBegin
<1>4. \A r \in ActiveIds : r \in DOMAIN rows' /\ Active(r)'
  BY <1>3 DEF ActiveIds, Active
<1> QED
  BY <1>1, <1>2, <1>4 DEF MaintInv, Phases, Passing, InLifecycle, InOverflow, InConsolidation,
     PassesSettle, Undisturbed

\* Rows are demoted, retired or kept one by one.
LEMMA LifecycleKeeps ==
    ASSUME IInv, MaintInv, NEW r \in DOMAIN rows, MDemote(r) \/ MRetire(r) \/ MKeep(r)
    PROVE  MaintInv'
<1>1. maint.phase = "lifecycle"
  BY DEF MDemote, MRetire, MKeep, Pass
<1>2. PICK taken, todo :
        /\ maint' = [phase |-> "lifecycle", list |-> maint.list, todo |-> todo, taken |-> taken,
                     alone |-> maint.alone]
        /\ taken = IF MRetire(r) THEN maint.taken \cup {r} ELSE maint.taken
  <2>1. CASE MRetire(r)
    BY <1>1, <2>1 DEF MRetire, MaintInv
  <2>2. CASE ~MRetire(r)
    BY <1>1, <2>2 DEF MDemote, MKeep, MaintInv
  <2> QED
    BY <2>1, <2>2
<1> SUFFICES ASSUME maint.alone PROVE Listed' \subseteq DOMAIN rows' /\ InLifecycle'
  BY <1>2 DEF MaintInv, Phases, Passing, InOverflow, InConsolidation, PassesSettle, Undisturbed
<1>3. Listed' = Listed /\ Listed \subseteq DOMAIN rows /\ InLifecycle
  BY <1>1, <1>2 DEF Listed, MaintInv, Passing
<1>4. /\ DOMAIN rows' = DOMAIN rows
      /\ \A q \in DOMAIN rows : Active(q)' <=> Active(q) /\ (MRetire(r) => q # r)
  <2>1. CASE MRetire(r)
    BY <2>1, RowRetires DEF MRetire, IInv
  <2>2. CASE MDemote(r) /\ ~MRetire(r)
    BY <2>2, RowStays DEF MDemote, IInv
  <2>3. CASE MKeep(r) /\ ~MRetire(r)
    BY <2>3 DEF MKeep, Active
  <2> QED
    BY <2>1, <2>2, <2>3
<1> QED
  BY <1>1, <1>2, <1>3, <1>4 DEF InLifecycle

\* What is too much is chosen.
LEMMA MOverflowKeeps == ASSUME IInv, MaintInv, MOverflow PROVE MaintInv'
<1>1. PICK ids \in SUBSET Expendable :
        /\ Cardinality(ids) = Min({Excess, Cardinality(Expendable)})
        /\ maint' = [maint EXCEPT !.phase = "overflow", !.todo = ids, !.taken = @ \cup ids]
  BY DEF MOverflow
<1>2. maint' = [phase |-> "overflow", list |-> maint.list, todo |-> ids,
                taken |-> maint.taken \cup ids, alone |-> maint.alone]
  BY <1>1 DEF MaintInv
<1> SUFFICES ASSUME maint.alone PROVE Listed' \subseteq DOMAIN rows' /\ InOverflow'
  BY <1>2 DEF MaintInv, Phases, Passing, InLifecycle, InConsolidation, PassesSettle, Undisturbed
<1>3. maint.phase = "lifecycle" /\ UNCHANGED rows
  BY DEF MOverflow, Over
<1>4. Listed \subseteq DOMAIN rows /\ \A r \in Listed : Active(r) <=> r \notin maint.taken
  BY <1>3 DEF MaintInv, Passing, InLifecycle
<1>5. Listed' = Listed /\ Excess' = Excess /\ Expendable' = Expendable
  BY <1>2, ListSays
<1>6. Reduced'
  BY <1>1, <1>2, <1>5 DEF Reduced
<1>7. \A r : Active(r)' <=> Active(r)
  BY <1>3 DEF Active
<1> QED
  BY <1>2, <1>3, <1>4, <1>5, <1>6, <1>7 DEF InOverflow

\* Of each slot one row is chosen to stay.
LEMMA MConsolidateKeeps == ASSUME IInv, MaintInv, MConsolidate PROVE MaintInv'
<1>1. PICK winner \in Winners :
        maint' = [maint EXCEPT !.phase = "consolidate", !.todo = Losers(winner)]
  BY DEF MConsolidate, Winners, Listed
<1>2. maint' = [phase |-> "consolidate", list |-> maint.list, todo |-> Losers(winner),
                taken |-> maint.taken, alone |-> maint.alone]
  BY <1>1 DEF MaintInv
<1> SUFFICES ASSUME maint.alone PROVE Listed' \subseteq DOMAIN rows' /\ InConsolidation'
  BY <1>2 DEF MaintInv, Phases, Passing, InLifecycle, InOverflow, PassesSettle, Undisturbed
<1>3. maint.phase = "overflow" /\ maint.todo = {} /\ UNCHANGED rows
  BY DEF MConsolidate, Over
<1>4. Reduced /\ Listed \subseteq DOMAIN rows /\ \A r \in Listed : Active(r) <=> r \notin maint.taken
  BY <1>3 DEF MaintInv, Passing, InOverflow
<1>5. /\ Listed' = Listed /\ Winners' = Winners /\ Losers(winner)' = Losers(winner)
      /\ Reduced'
  BY <1>2, <1>4, ListSays
<1>6. \A r : Active(r)' <=> Active(r)
  BY <1>3 DEF Active
<1>7. Consolidating(winner)'
  BY <1>2, <1>4, <1>5, <1>6 DEF Consolidating
<1> QED
  BY <1>3, <1>4, <1>5, <1>7 DEF InConsolidation

\* A row that was chosen to go is retired.
LEMMA MDropKeeps ==
    ASSUME IInv, MaintInv, NEW r \in DOMAIN rows, MDrop(r)
    PROVE  MaintInv'
<1>1. maint.phase \in {"overflow", "consolidate"} /\ r \in maint.todo
  BY DEF MDrop, Pass
<1>2. maint' = [phase |-> maint.phase, list |-> maint.list, todo |-> maint.todo \ {r},
                taken |-> maint.taken, alone |-> maint.alone]
  BY DEF MDrop, MaintInv
<1> SUFFICES ASSUME maint.alone PROVE Listed' \subseteq DOMAIN rows' /\ InOverflow' /\ InConsolidation'
  BY <1>1, <1>2 DEF MaintInv, Phases, Passing, InLifecycle, PassesSettle, Undisturbed
<1>3. Listed \subseteq DOMAIN rows /\ Passing
  BY <1>1 DEF MaintInv
<1>4. DOMAIN rows' = DOMAIN rows /\ \A q \in DOMAIN rows : Active(q)' <=> Active(q) /\ q # r
  BY RowRetires DEF MDrop, IInv
<1>5. /\ Listed' = Listed /\ Winners' = Winners /\ \A winner : Losers(winner)' = Losers(winner)
      /\ Reduced => Reduced'
  BY <1>2, ListSays
<1>6. InOverflow'
  BY <1>1, <1>2, <1>3, <1>4, <1>5 DEF Passing, InOverflow
<1>7. \A winner : Consolidating(winner) => Consolidating(winner)'
  BY <1>1, <1>2, <1>3, <1>4, <1>5 DEF Consolidating
<1>8. InConsolidation'
  BY <1>2, <1>3, <1>5, <1>7 DEF Passing, InConsolidation
<1> QED
  BY <1>3, <1>4, <1>5, <1>6, <1>8

LEMMA SmallerOne == \A a, b \in Nat : Min({a, b}) = IF a <= b THEN a ELSE b
BY DEF Min

\* Without what was too much, no more rows are left than the limit, or only rows that
\* may not be taken.
LEMMA ReducedEnough ==
    ASSUME Reduced, IsFiniteSet(Listed), NEW left \in SUBSET Listed, left \cap maint.taken = {}
    PROVE  Cardinality(left) <= MaxActive \/ \A r \in left : Core(maint.list[r])
<1>1. PICK ids \in SUBSET Expendable :
        /\ Cardinality(ids) = Min({Excess, Cardinality(Expendable)})
        /\ ids \subseteq maint.taken
  BY DEF Reduced
<1>2. Expendable \in SUBSET Listed
  BY DEF Expendable, Listed
<1>3. /\ IsFiniteSet(Expendable) /\ IsFiniteSet(ids)
      /\ Cardinality(Expendable) \in Nat /\ Cardinality(ids) \in Nat /\ Cardinality(Listed) \in Nat
  <2>1. IsFiniteSet(Expendable) /\ IsFiniteSet(ids)
    BY <1>1, <1>2, FS_Subset
  <2> QED
    BY <2>1, FS_CardinalityType
<1>4. MaxActive \in Nat
  BY KnowledgeAssumption
<1>5. /\ Excess \in Nat
      /\ Excess = 0 => Cardinality(Listed) <= MaxActive
      /\ Excess # 0 => Excess = Cardinality(Listed) - MaxActive
  BY <1>3, <1>4 DEF Excess, Listed
<1>6. CASE Excess <= Cardinality(Expendable)
  <2>1. Cardinality(ids) = Excess
    BY <1>1, <1>3, <1>5, <1>6, SmallerOne
  <2>2. ids \subseteq Listed /\ left \subseteq Listed \ ids
    BY <1>1, <1>2
  <2>3. IsFiniteSet(Listed \ ids) /\ Cardinality(Listed \ ids) = Cardinality(Listed) - Cardinality(ids)
    <3>1. Cardinality(Listed \ ids) = Cardinality(Listed) - Cardinality(Listed \cap ids)
          /\ IsFiniteSet(Listed \ ids)
      BY FS_Difference
    <3>2. Listed \cap ids = ids
      BY <2>2
    <3> QED
      BY <3>1, <3>2
  <2>4. Cardinality(left) <= Cardinality(Listed \ ids) /\ Cardinality(left) \in Nat
    BY <2>2, <2>3, FS_Subset, FS_CardinalityType
  <2> QED
    BY <1>3, <1>4, <1>5, <2>1, <2>3, <2>4
<1>7. CASE ~(Excess <= Cardinality(Expendable))
  <2>1. Cardinality(ids) = Cardinality(Expendable)
    BY <1>1, <1>3, <1>5, <1>7, SmallerOne
  <2>2. ids = Expendable
    BY <1>1, <1>3, <2>1, FS_Subset
  <2> QED
    BY <1>1, <2>2 DEF Expendable, Listed
<1> QED
  BY <1>6, <1>7

\* With the losers gone each slot has the row that won, unless it was taken before.
LEMMA MDueKeeps == ASSUME IInv, MaintInv, MDue PROVE MaintInv'
<1>1. maint.phase = "consolidate" /\ maint.todo = {} /\ UNCHANGED rows
  BY DEF MDue, Over
<1>2. PICK todo : maint' = [phase |-> "reverify", list |-> maint.list, todo |-> todo,
                            taken |-> maint.taken, alone |-> maint.alone]
  BY DEF MDue, MaintInv
<1> SUFFICES ASSUME maint.alone PROVE Listed' \subseteq DOMAIN rows' /\ PassesSettle'
  BY <1>2 DEF MaintInv, Phases, Passing, InLifecycle, InOverflow, InConsolidation
<1>3. Listed \subseteq DOMAIN rows /\ Reduced /\ \E winner \in Winners : Consolidating(winner)
  BY <1>1 DEF MaintInv, Passing, InConsolidation
<1>4. PICK winner \in Winners : Consolidating(winner)
  BY <1>3
<1>5. \A r \in Listed : Active(r) <=> r \notin maint.taken /\ r \notin Losers(winner)
  BY <1>1, <1>4 DEF Consolidating
<1>6. Listed' = Listed /\ (\A s : Slotted(s)' = Slotted(s)) /\ maint'.taken = maint.taken
  BY <1>2, ListSays
<1>7. \A r : (Active(r)' <=> Active(r)) /\ (Core(maint.list[r])' <=> Core(maint.list[r]))
  BY <1>1, <1>2 DEF Active, Core
<1>8. ASSUME NEW s \in Slot, Slotted(s) # {}
      PROVE  LET left == {r \in Slotted(s) : Active(r)}
             IN  /\ Cardinality(left) <= 1
                 /\ Slotted(s) \cap maint.taken = {} => left # {}
  <2>1. PICK first : first = winner[s]
    OBVIOUS
  <2>2. first \in Slotted(s) /\ s \in DOMAIN winner
    BY <1>8, <2>1 DEF Winners
  <2>3. PICK left : left = {r \in Slotted(s) : Active(r)}
    OBVIOUS
  <2>4. \A r \in Slotted(s) \ {first} : r \in Losers(winner)
    BY <2>1, <2>2 DEF Losers
  <2>5. left \subseteq {first}
    BY <1>5, <2>3, <2>4 DEF Slotted, Listed
  <2>6. Cardinality(left) <= 1
    <3>1. IsFiniteSet({first}) /\ Cardinality({first}) = 1
      BY FS_Singleton
    <3> QED
      BY <2>5, <3>1, FS_Subset
  <2>7. first \notin Losers(winner)
    <3>1. ASSUME NEW t \in DOMAIN winner, first \in Slotted(t) PROVE first = winner[t]
      BY <2>1, <2>2, <3>1 DEF Slotted
    <3> QED
      BY <3>1 DEF Losers
  <2>8. Slotted(s) \cap maint.taken = {} => first \in left
    BY <1>5, <2>2, <2>3, <2>7 DEF Slotted, Listed
  <2> QED
    BY <2>3, <2>6, <2>8
<1>9. LET left == {r \in Listed : Active(r)}
      IN  Cardinality(left) <= MaxActive \/ \A r \in left : Core(maint.list[r])
  <2>1. IsFiniteSet(Listed)
    <3>1. DOMAIN rows = 1..Len(rows) /\ Len(rows) \in Nat
      BY RowIds DEF IInv
    <3>2. IsFiniteSet(DOMAIN rows)
      BY <3>1, FS_Interval
    <3> QED
      BY <1>3, <3>2, FS_Subset
  <2>2. PICK left : left = {r \in Listed : Active(r)}
    OBVIOUS
  <2>3. left \in SUBSET Listed /\ left \cap maint.taken = {}
    BY <1>5, <2>2
  <2> QED
    BY <1>3, <2>1, <2>2, <2>3, ReducedEnough
<1>10. PassesSettle'
  <2>1. \A s : {r \in Slotted(s) : Active(r)}' = {r \in Slotted(s) : Active(r)}
    BY <1>6, <1>7
  <2>2. {r \in DOMAIN maint.list : Active(r)}' = {r \in Listed : Active(r)}
    BY <1>6, <1>7 DEF Listed
  <2>3. \A r \in DOMAIN maint'.list : Active(r)' =>
          (Core(maint.list[r])' <=> Core(maint.list[r])) /\ r \in {q \in Listed : Active(q)}
    BY <1>6, <1>7 DEF Listed
  <2> QED
    BY <1>6, <1>8, <1>9, <2>1, <2>2, <2>3 DEF PassesSettle
<1> QED
  BY <1>1, <1>3, <1>6, <1>10

\* Every step keeps what is said of the maintenance.
LEMMA MaintStep == IInv /\ MaintInv /\ [Next]_vars => MaintInv'
<1> SUFFICES ASSUME IInv, MaintInv, [Next]_vars PROVE MaintInv'
  OBVIOUS
<1>1. ASSUME UNCHANGED <<rows, maint>> PROVE MaintInv'
  BY <1>1, StandsBy DEF Active
<1>2. CASE \E fact \in Fact : Learn(fact)
  BY <1>2, WriteDisturbs DEF Learn
<1>3. ASSUME NEW e \in Extraction, Begin(e) \/ TurnDown(e) \/ End(e) PROVE MaintInv'
  BY <1>1, <1>3 DEF Begin, TurnDown, End
<1>4. ASSUME NEW e \in Extraction, NEW fact \in Fact, Repeat(e, fact) \/ Consider(e, fact)
      PROVE  MaintInv'
  BY <1>1, <1>4, WriteDisturbs DEF Repeat, Consider
<1>5. ASSUME NEW e \in Extraction, NEW ev \in Evidence,
             Confirm(e, ev) \/ Reject(e, ev) \/ Dispute(e, ev)
      PROVE  MaintInv'
  BY <1>1, <1>5, WriteDisturbs DEF Confirm, Reject, Dispute
<1>6. ASSUME NEW e \in Extraction, NEW ev \in Evidence, NEW strategy \in Strategies,
             Skip(e, ev, strategy) \/ Promote(e, ev, strategy)
      PROVE  MaintInv'
  BY <1>1, <1>6, WriteDisturbs DEF Skip, Promote
<1>7. ASSUME NEW v \in Verify, NEW r \in DOMAIN rows, Fetch(v, r) PROVE MaintInv'
  BY <1>1, <1>7 DEF Fetch
<1>8. ASSUME NEW v \in Verify, NEW base \in Bases, Verdict(v, base) PROVE MaintInv'
  BY <1>8, WriteDisturbs DEF Verdict
<1>9. CASE Maintain
  <2>1. ASSUME NEW r \in DOMAIN rows, MDemote(r) \/ MRetire(r) \/ MKeep(r) \/ MDrop(r) \/ MFetch(r)
        PROVE  MaintInv'
    <3>1. CASE MFetch(r)
      <4>1. UNCHANGED rows /\ maint.phase = "reverify"
        BY <3>1 DEF MFetch, Pass
      <4>2. maint' = [phase |-> "reverify", list |-> maint.list, todo |-> maint.todo \ {r},
                      taken |-> maint.taken, alone |-> maint.alone]
        BY <3>1, <4>1 DEF MFetch, MaintInv
      <4>3. PassesSettle => PassesSettle'
        BY <4>1, <4>2 DEF PassesSettle, Undisturbed, Slotted, Active, Core
      <4> QED
        BY <4>1, <4>2, <4>3 DEF MaintInv, Phases, Passing, InLifecycle, InOverflow, InConsolidation, Listed
    <3> QED
      BY <2>1, <3>1, LifecycleKeeps, MDropKeeps
  <2>2. ASSUME NEW base \in Bases, MVerdict(base) PROVE MaintInv'
    <3>1. /\ check[Maintenance] # <<>> /\ rows' = Verified(Maintenance, base) /\ UNCHANGED maint
          /\ Maintenance \in Verifier
      BY <2>2 DEF MVerdict, Verifier
    <3> QED
      BY <3>1, VerifiedStays, StandsBy
  <2>3. CASE MEnd
    BY <2>3 DEF MEnd, MaintInv, IdleMaintenance, Phases
  <2> QED
    BY <1>9, <2>1, <2>2, <2>3, MBeginKeeps, MOverflowKeeps, MConsolidateKeeps, MDueKeeps DEF Maintain
<1>10. CASE UNCHANGED vars
  BY <1>1, <1>10 DEF vars
<1> QED
  BY <1>2, <1>3, <1>4, <1>5, <1>6, <1>7, <1>8, <1>9, <1>10 DEF Next

\* A pass that no other write disturbs leaves one row of a slot, takes the last one only
\* if it had to, and brings the active rows down to the limit.
THEOREM UndisturbedSettle == Spec => []PassesSettle
<1>1. Init => MaintInv
  BY DEF Init, MaintInv, IdleMaintenance, Phases
<1>2. MaintInv => PassesSettle
  BY DEF MaintInv, Passing, PassesSettle, Undisturbed
<1> QED
  BY <1>1, <1>2, InitInv, StepInv, MaintStep, PTL DEF Spec

-----------------------------------------------------------------------------
(***************************************************************************)
(* What the readers of the event log are told (EventFeed), for any number  *)
(* of writers, handlers, overlapping polls and events, any page size and   *)
(* any dates.                                                              *)
(***************************************************************************)

Feed == INSTANCE EventFeed

\* The promises, as EventFeed has them.
LEMMA Promises ==
  /\ FeedComplete <=> Feed!FeedComplete
  /\ DeliveredOnce <=> Feed!DeliveredOnce
  /\ SinceComplete <=> Feed!SinceComplete
  /\ SnapshotPinned <=> Feed!SnapshotPinned
BY DEF FeedComplete, DeliveredOnce, SinceComplete, SnapshotPinned, Passed, Changes, Id, Handler,
       Feed!FeedComplete, Feed!DeliveredOnce, Feed!SinceComplete, Feed!SnapshotPinned,
       Feed!Passed, Feed!Changes, Feed!Id, Feed!Handler

\* A set of numbers has a least element, and a greatest if it is bounded.
LEMMA LeastNat ==
    ASSUME NEW T \in SUBSET Nat, T # {}
    PROVE  \E x \in T : \A y \in T : x <= y
<1> DEFINE Less == OpToRel(<, Nat)
<1>1. PICK x \in T : \A y \in T : ~(<<y, x>> \in Less)
  <2>1. IsWellFoundedOn(Less, Nat)
    BY NatLessThanWellFounded
  <2> HIDE DEF Less
  <2> QED
    BY <2>1, WFMin
<1>2. ASSUME NEW y \in T PROVE x <= y
  <2>1. ~(<<y, x>> \in Less)
    BY <1>1
  <2> QED
    BY <2>1 DEF OpToRel
<1> QED
  BY <1>2

LEMMA GreatestNat ==
    ASSUME NEW n \in Nat, NEW T \in SUBSET (0..n), T # {}
    PROVE  \E x \in T : \A y \in T : y <= x
<1> DEFINE U == {n - x : x \in T}
<1>1. U \in SUBSET Nat /\ U # {}
  <2>1. ASSUME NEW x \in T PROVE n - x \in Nat
    OBVIOUS
  <2> QED
    BY <2>1
<1>2. PICK u \in U : \A v \in U : u <= v
  BY <1>1, LeastNat
<1>3. PICK x \in T : u = n - x
  OBVIOUS
<1>4. ASSUME NEW y \in T PROVE y <= x
  <2>1. n - y \in U
    OBVIOUS
  <2>2. n - x <= n - y
    BY <1>2, <1>3, <2>1
  <2> QED
    BY <2>2
<1> QED
  BY <1>4

------------------------------------------------------------------------------
(* The log *)

LogInv ==
    /\ \E n \in 0..MaxEvents : Feed!Rows = 1..n
    /\ log \in [Feed!Rows -> Feed!Event]
    /\ committed \subseteq Feed!Rows
    /\ open \in [Writer -> Feed!Rows \cup {0}]
    /\ watermark.last \in committed \cup {0}

\* What a reader may rely on: an event stays as it is, and one that becomes
\* visible has a greater id than those before it, or is late.
Grows ==
    /\ \A e \in Feed!Rows : e \in Feed!Rows' /\ log'[e] = log[e]
    /\ committed \subseteq committed' /\ late \subseteq late'
    /\ \A e \in committed' \ committed : e \in late' \/ \A d \in committed : d < e

\* The next id is behind all others.
LEMMA Appended ==
    ASSUME LogInv, NEW kind \in Kinds, NEW at \in 0..MaxTime, Feed!Append(kind, at)
    PROVE  /\ Feed!NextId \notin Feed!Rows /\ Feed!Rows' = Feed!Rows \cup {Feed!NextId}
           /\ Feed!NextId \in Feed!Id
           /\ \E n \in 0..MaxEvents : Feed!Rows' = 1..n
           /\ log' \in [Feed!Rows' -> Feed!Event]
           /\ \A e \in Feed!Rows : log'[e] = log[e] /\ e < Feed!NextId
<1>1. PICK n \in 0..MaxEvents : Feed!Rows = 1..n
  BY DEF LogInv
<1>2. n \in Nat /\ MaxEvents \in Nat /\ MaxPgEvents <= MaxEvents
  BY FeedAssumption
<1>3. Feed!NextId = n + 1
  <2>1. Cardinality(1..n) = n
    BY <1>2, FS_Interval
  <2> QED
    BY <1>1, <2>1 DEF Feed!NextId, Feed!Cardinality, Cardinality
<1>4. n + 1 <= MaxEvents
  <2>1. Feed!NextId <= MaxEvents \/ Feed!NextId <= MaxPgEvents
    BY DEF Feed!Append
  <2>2. MaxPgEvents \in Nat
    BY <1>2, FeedAssumption
  <2> QED
    BY <1>2, <1>3, <2>1, <2>2
<1>5. log' = [e \in Feed!Rows \cup {Feed!NextId} |->
                IF e = Feed!NextId THEN [kind |-> kind, at |-> at] ELSE log[e]]
  BY DEF Feed!Append
<1>6. [kind |-> kind, at |-> at] \in Feed!Event /\ log \in [Feed!Rows -> Feed!Event]
  BY DEF LogInv, Feed!Event
<1>7. Feed!Rows' = Feed!Rows \cup {Feed!NextId}
  BY <1>5 DEF Feed!Rows
<1>8. log' \in [Feed!Rows' -> Feed!Event] /\ \A e \in Feed!Rows \ {Feed!NextId} : log'[e] = log[e]
  BY <1>5, <1>6, <1>7
<1>9. Feed!Rows' = 1..(n + 1) /\ Feed!NextId \in Feed!Id /\ \A e \in 1..n : e < n + 1
  BY <1>1, <1>2, <1>3, <1>4, <1>7, OneMore DEF Feed!Id
<1> QED
  BY <1>1, <1>2, <1>3, <1>4, <1>7, <1>8, <1>9

\* The log begins empty.
LEMMA LogInit == Feed!Init => LogInv
<1> SUFFICES ASSUME Feed!Init PROVE LogInv
  OBVIOUS
<1>1. Feed!Rows = 1..0 /\ log \in [Feed!Rows -> Feed!Event]
  BY DEF Feed!Init, Feed!Rows
<1>2. 0 \in 0..MaxEvents
  BY FeedAssumption
<1>3. open \in [Writer -> Feed!Rows \cup {0}] /\ committed \subseteq Feed!Rows
  BY DEF Feed!Init
<1>4. watermark.last = 0
  BY DEF Feed!Init
<1> QED
  BY <1>1, <1>2, <1>3, <1>4 DEF LogInv

\* Steps of the readers leave the log alone.
LEMMA LogStep == LogInv /\ [Feed!Next]_Feed!vars => LogInv' /\ Grows
<1> SUFFICES ASSUME LogInv, [Feed!Next]_Feed!vars PROVE LogInv' /\ Grows
  OBVIOUS
<1>1. CASE UNCHANGED Feed!logVars
  BY <1>1 DEF LogInv, Grows, Feed!Rows, Feed!logVars
<1>2. ASSUME NEW kind \in Kinds, NEW at \in 0..MaxTime, Feed!WriteSerial(kind, at)
      PROVE  LogInv' /\ Grows
  <2>1. /\ Feed!NextId \notin Feed!Rows /\ Feed!Rows' = Feed!Rows \cup {Feed!NextId}
        /\ \E n \in 0..MaxEvents : Feed!Rows' = 1..n
        /\ log' \in [Feed!Rows' -> Feed!Event]
        /\ \A e \in Feed!Rows : log'[e] = log[e] /\ e < Feed!NextId
    BY <1>2, Appended DEF Feed!WriteSerial
  <2>2. /\ committed' = committed \cup {Feed!NextId} /\ watermark'.last = Feed!NextId
        /\ UNCHANGED <<late, open>>
    BY <1>2 DEF Feed!WriteSerial
  <2>3. LogInv'
    BY <2>1, <2>2 DEF LogInv
  <2>4. committed \subseteq Feed!Rows
    BY DEF LogInv
  <2>5. Grows
    BY <2>1, <2>2, <2>4 DEF Grows
  <2> QED
    BY <2>3, <2>5
<1>3. ASSUME NEW w \in Writer, NEW kind \in Kinds, NEW at \in 0..MaxTime, Feed!Insert(w, kind, at)
      PROVE  LogInv' /\ Grows
  <2>1. /\ Feed!NextId \notin Feed!Rows /\ Feed!Rows' = Feed!Rows \cup {Feed!NextId}
        /\ \E n \in 0..MaxEvents : Feed!Rows' = 1..n
        /\ log' \in [Feed!Rows' -> Feed!Event]
        /\ \A e \in Feed!Rows : log'[e] = log[e] /\ e < Feed!NextId
    BY <1>3, Appended DEF Feed!Insert
  <2>2. open' = [open EXCEPT ![w] = Feed!NextId] /\ UNCHANGED <<committed, late, watermark>>
    BY <1>3 DEF Feed!Insert
  <2> QED
    BY <2>1, <2>2 DEF LogInv, Grows
<1>4. ASSUME NEW w \in Writer, Feed!Commit(w) PROVE LogInv' /\ Grows
  <2>1. /\ open[w] \in Feed!Rows /\ UNCHANGED log
        /\ committed' = committed \cup {open[w]} /\ watermark'.last = open[w]
        /\ late' = late \cup {e \in {open[w]} : \E d \in committed : d > e}
        /\ open' = [open EXCEPT ![w] = 0]
    BY <1>4 DEF Feed!Commit, LogInv
  <2>2. Feed!Rows \subseteq Nat /\ committed \subseteq Nat
    BY DEF LogInv
  <2>3. ASSUME NEW e \in committed' \ committed PROVE e \in late' \/ \A d \in committed : d < e
    <3>1. e = open[w] /\ e \notin committed
      BY <2>1
    <3>2. ASSUME NEW d \in committed, ~(d > e) PROVE d < e
      <4>1. e \in Nat /\ d \in Nat /\ d # e
        BY <2>1, <2>2, <3>1
      <4> QED
        BY <3>2, <4>1
    <3> QED
      BY <2>1, <3>1, <3>2
  <2>4. Grows
    BY <2>1, <2>3 DEF Grows, Feed!Rows
  <2>5. LogInv'
    BY <2>1 DEF LogInv, Feed!Rows
  <2> QED
    BY <2>4, <2>5
<1>5. ASSUME NEW w \in Writer, Feed!Rollback(w) PROVE LogInv' /\ Grows
  BY <1>5 DEF Feed!Rollback, LogInv, Grows, Feed!Rows
<1>6. CASE Feed!Write
  BY <1>2, <1>3, <1>6 DEF Feed!Write
<1>7. ASSUME NEW p \in Poll, Feed!ReadPage(p) \/ Feed!ReadFails(p) PROVE UNCHANGED Feed!logVars
  BY <1>7 DEF Feed!ReadPage, Feed!ReadFails
<1>8. ASSUME NEW p \in Poll, NEW h \in Feed!Handler, Feed!Deliver(p,
        Feed!UpTo(h)) PROVE UNCHANGED Feed!logVars
  BY <1>8 DEF Feed!Deliver
<1>9. ASSUME NEW from \in 0..MaxTime, Feed!SinceStart(from) PROVE UNCHANGED Feed!logVars
  BY <1>9 DEF Feed!SinceStart
<1>10. CASE \/ Feed!ResolveCursor \/ Feed!ResolveFails \/ Feed!SincePage \/ Feed!SinceResolve
            \/ Feed!SnapPin \/ Feed!SnapReplay \/ Feed!SnapLive \/ UNCHANGED Feed!vars
  BY <1>1, <1>10 DEF Feed!ResolveCursor, Feed!ResolveFails, Feed!SincePage, Feed!SinceResolve,
     Feed!SnapPin, Feed!SnapReplay,
     Feed!SnapLive, Feed!vars
<1> QED
  BY <1>1, <1>4, <1>5, <1>6, <1>7, <1>8, <1>9, <1>10 DEF Feed!Next

------------------------------------------------------------------------------
(* Listings *)

\* A place in the log up to which a reader has read.
Place(c) == c \in committed \cup {0}

\* A place is an id, or 0 for none.
LEMMA PlaceNat == ASSUME LogInv, NEW c, Place(c) PROVE c \in Nat
<1>1. committed \subseteq Nat
  <2>1. Feed!Rows \subseteq Nat
    BY DEF LogInv
  <2> QED
    BY <2>1 DEF LogInv
<1> QED
  BY <1>1 DEF Place

\* Behind such a place nothing appears but what is late.
LEMMA PlaceHolds ==
    ASSUME LogInv, LogInv', Grows, NEW c, Place(c)
    PROVE  /\ Place(c)' /\ c \in Nat
           /\ \A e \in committed' : e <= c => e \in committed \/ e \in late'
<1>1. /\ committed' \subseteq Nat /\ 0 \notin committed'
      /\ committed \subseteq Nat /\ 0 \notin committed
  <2>1. Feed!Rows \subseteq Nat /\ 0 \notin Feed!Rows /\ Feed!Rows' \subseteq Nat
        /\ 0 \notin Feed!Rows'
    BY DEF LogInv
  <2> QED
    BY <2>1 DEF LogInv
<1>2. Place(c)'
  BY DEF Place, Grows
<1>3. c \in Nat
  BY PlaceNat
<1>4. ASSUME NEW e \in committed', e <= c, e \notin committed PROVE e \in late'
  <2>1. e \in late' \/ \A d \in committed : d < e
    BY <1>4 DEF Grows
  <2>2. ~(c < e) /\ c # 0
    BY <1>1, <1>3, <1>4
  <2> QED
    BY <2>1, <2>2 DEF Place
<1> QED
  BY <1>2, <1>3, <1>4

\* A page holds all that matches up to its last event; an empty one, that
\* nothing matches.
LEMMA Listing ==
    ASSUME LogInv, NEW kinds, NEW cursor, Place(cursor), NEW from \in Nat,
           NEW events, events = Feed!ListEvents(kinds, cursor, from, MaxTime),
           NEW last, last = Feed!LastId(events, cursor)
    PROVE  /\ events \in SUBSET committed /\ Place(last) /\ cursor <= last
           /\ \A e \in events : cursor < e /\ e <= last /\ log[e].at >= from
           /\ events # {} => cursor < last
           /\ \A e \in committed :
                 log[e].kind \in kinds /\ log[e].at >= from /\ e > cursor =>
                    events # {} /\ (e <= last => e \in events)
<1> DEFINE match == {e \in committed : /\ e > cursor /\ log[e].kind \in kinds
                                        /\ log[e].at >= from /\ log[e].at <= MaxTime}
           Earlier(e) == {d \in match : Feed!Before(d, e)}
<1>1. /\ MaxEvents \in Nat /\ Limit \in Nat \ {0}
      /\ committed \subseteq 1..MaxEvents /\ committed \subseteq Nat
      /\ \A e \in committed : log[e].at <= MaxTime
  <2>1. Feed!Rows \subseteq 1..MaxEvents
    BY FeedAssumption DEF LogInv
  <2>2. \A e \in committed : log[e] \in Feed!Event
    BY DEF LogInv
  <2> QED
    BY <2>1, <2>2, FeedAssumption DEF LogInv, Feed!Event
<1>2. events = {e \in match : Cardinality(Earlier(e)) < Limit}
  BY DEF Feed!ListEvents, Feed!Cardinality, Cardinality
<1>3. match \in SUBSET (1..MaxEvents) /\ match \in SUBSET Nat /\ cursor \in Nat
  <2>1. cursor \in Nat
    BY PlaceNat
  <2>2. match \in SUBSET committed
    OBVIOUS
  <2> HIDE DEF match
  <2> QED
    BY <1>1, <2>1, <2>2
<1>4. \A e \in match : IsFiniteSet(Earlier(e)) /\ Cardinality(Earlier(e)) \in Nat
  <2>1. IsFiniteSet(1..MaxEvents)
    BY FeedAssumption, FS_Interval
  <2>2. \A e \in match : Earlier(e) \in SUBSET (1..MaxEvents)
    BY <1>3
  <2> HIDE DEF Earlier
  <2> QED
    BY <2>1, <2>2, FS_Subset, FS_CardinalityType
<1>5. ASSUME NEW d \in match, NEW e \in events, d <= e PROVE d \in events
  <2>1. Earlier(d) \in SUBSET Earlier(e)
    BY <1>2, <1>3, <1>5 DEF Feed!Before
  <2>2. e \in match /\ Cardinality(Earlier(e)) < Limit
    BY <1>2
  <2>3. Cardinality(Earlier(d)) <= Cardinality(Earlier(e))
    <3> HIDE DEF Earlier, match
    <3> QED
      BY <1>4, <2>1, <2>2, FS_Subset
  <2>4. Cardinality(Earlier(d)) \in Nat /\ Cardinality(Earlier(e)) \in Nat
    BY <1>4, <2>2
  <2>5. Cardinality(Earlier(d)) < Limit
    <3> HIDE DEF Earlier
    <3> QED
      BY <1>1, <2>2, <2>3, <2>4
  <2> HIDE DEF Earlier, match
  <2> QED
    BY <1>2, <2>5
<1>6. ASSUME match # {} PROVE events # {}
  <2>1. PICK least \in match : \A e \in match : least <= e
    <3> HIDE DEF match
    <3> QED
      BY <1>3, <1>6, LeastNat
  <2>2. Earlier(least) = {}
    BY <1>3, <2>1 DEF Feed!Before
  <2>3. Cardinality(Earlier(least)) = 0
    BY <2>2, FS_EmptySet
  <2> HIDE DEF Earlier, match
  <2> QED
    BY <1>1, <1>2, <2>3
<1>7. events \in SUBSET committed /\ \A e \in events : e > cursor /\ log[e].at >= from
  BY <1>2
<1>8. CASE events = {}
  <2>1. last = cursor
    BY <1>8 DEF Feed!LastId
  <2>2. match = {}
    BY <1>6, <1>8
  <2> QED
    BY <1>1, <1>3, <1>8, <2>1, <2>2
<1>9. CASE events # {}
  <2>1. PICK m \in events : \A d \in events : d <= m
    <3>1. 1..MaxEvents \subseteq 0..MaxEvents
      BY FeedAssumption
    <3>2. events \in SUBSET (0..MaxEvents)
      BY <1>1, <1>7, <3>1
    <3> QED
      BY <1>1, <1>9, <3>2, GreatestNat
  <2>2. \A d \in events : d = m \/ Feed!Before(d, m)
    <3>1. events \subseteq Nat
      BY <1>1, <1>7
    <3> QED
      BY <2>1, <3>1 DEF Feed!Before
  <2>3. last \in events /\ \A d \in events : d = last \/ Feed!Before(d, last)
    BY <1>9, <2>2 DEF Feed!LastId
  <2>4. \A d \in events : d <= last
    BY <1>1, <1>7, <2>3 DEF Feed!Before
  <2>5. Place(last) /\ cursor < last /\ cursor <= last
    BY <1>1, <1>3, <1>7, <2>3 DEF Place
  <2> QED
    BY <1>1, <1>3, <1>5, <1>7, <1>9, <2>3, <2>4, <2>5
<1> QED
  BY <1>8, <1>9

------------------------------------------------------------------------------
(* createMemorySync *)

\* Nothing that was delivered lies ahead of the cursor, and what the page in flight
\* will carry it past is on that page or late.
SyncInv ==
    /\ sync \in [state : {"new", "ready", "failed"}, start : Nat, cursor : Nat]
    /\ Place(sync.cursor)
    /\ sync.state = "new" => sync.cursor = 0
    /\ page \in [Poll -> [busy : BOOLEAN, events : SUBSET Feed!Id, next : Nat]]
    /\ \A p, q \in Poll : page[p].busy /\ page[q].busy => p = q
    /\ received \in [Feed!Handler -> [Feed!Id -> Nat]]
    /\ dropped \in [Feed!Handler -> SUBSET Feed!Id]
    /\ \A h \in Feed!Handler, e \in Feed!Id : received[h][e] >= 1 => e <= sync.cursor
    /\ Feed!DeliveredOnce /\ Feed!FeedComplete
    /\ \A p \in Poll : page[p].busy =>
          /\ sync.state # "new" /\ Place(page[p].next) /\ sync.cursor <= page[p].next
          /\ \A e \in page[p].events : sync.cursor < e /\ e <= page[p].next
          /\ \A e \in Feed!Changes(committed) :
                sync.cursor < e /\ e <= page[p].next => e \in page[p].events \cup late

\* A subscriber begins with nothing.
LEMMA SyncInit == Feed!Init => SyncInv
<1> SUFFICES ASSUME Feed!Init PROVE SyncInv
  OBVIOUS
<1>1. /\ sync = [state |-> "new", start |-> 0, cursor |-> 0] /\ committed = {}
      /\ page = [p \in Poll |-> Feed!NoPage] /\ Feed!NoPage.busy = FALSE
      /\ received = [h \in Feed!Handler |-> [e \in Feed!Id |-> 0]]
      /\ dropped = [h \in Feed!Handler |-> {}]
  BY DEF Feed!Init, Feed!NoPage
<1>2. Feed!NoPage \in [busy : BOOLEAN, events : SUBSET Feed!Id, next : Nat]
  BY DEF Feed!NoPage
<1>3. \A p \in Poll : ~page[p].busy
  BY <1>1
<1>4. received \in [Feed!Handler -> [Feed!Id -> Nat]]
      /\ dropped \in [Feed!Handler -> SUBSET Feed!Id]
  BY <1>1
<1>5. \A h \in Feed!Handler, e \in Feed!Id : received[h][e] = 0
  BY <1>1
<1>6. Feed!DeliveredOnce /\ Feed!FeedComplete
  BY <1>1, <1>5 DEF Feed!DeliveredOnce, Feed!FeedComplete, Feed!Passed, Feed!Changes
<1>7. page \in [Poll -> [busy : BOOLEAN, events : SUBSET Feed!Id, next : Nat]]
  BY <1>1, <1>2
<1> QED
  BY <1>1, <1>3, <1>4, <1>5, <1>6, <1>7 DEF SyncInv, Place

\* While the log grows, what is said of the readers stands.
LEMMA SyncStands ==
    ASSUME LogInv, LogInv', Grows, SyncInv, UNCHANGED Feed!syncVars
    PROVE  SyncInv'
<1>1. /\ UNCHANGED <<sync, page, received, dropped>> /\ Place(sync.cursor)
      /\ committed \subseteq Feed!Rows /\ late \subseteq late'
  BY DEF SyncInv, Feed!syncVars, LogInv, Grows
<1>2. \A e \in committed : log'[e] = log[e]
  BY <1>1 DEF Grows
<1>3. Place(sync.cursor)'
      /\ \A e \in committed' : e <= sync.cursor => e \in committed \/ e \in late'
  BY <1>1, PlaceHolds
<1>4. Feed!FeedComplete'
  BY <1>1, <1>2, <1>3 DEF SyncInv, Feed!FeedComplete, Feed!Passed, Feed!Changes
<1>5. ASSUME NEW p \in Poll, page'[p].busy
      PROVE  /\ sync'.state # "new" /\ Place(page[p].next)' /\ sync'.cursor <= page'[p].next
             /\ \A e \in page'[p].events : sync'.cursor < e /\ e <= page'[p].next
             /\ \A e \in Feed!Changes(committed)' :
                   sync'.cursor < e /\ e <= page'[p].next => e \in page'[p].events \cup late'
  <2>1. page[p].busy /\ page' = page /\ sync' = sync
    BY <1>1, <1>5
  <2>2. /\ sync.state # "new" /\ Place(page[p].next) /\ sync.cursor <= page[p].next
        /\ \A e \in page[p].events : sync.cursor < e /\ e <= page[p].next
        /\ \A e \in Feed!Changes(committed) :
              sync.cursor < e /\ e <= page[p].next => e \in page[p].events \cup late
    BY <2>1 DEF SyncInv
  <2>3. /\ Place(page[p].next)'
        /\ \A e \in committed' : e <= page[p].next => e \in committed \/ e \in late'
    <3>1. PICK next : next = page[p].next
      OBVIOUS
    <3>2. Place(next)' /\ \A e \in committed' : e <= next => e \in committed \/ e \in late'
      BY <2>2, <3>1, PlaceHolds
    <3> QED
      BY <2>1, <3>1, <3>2 DEF Place
  <2> QED
    BY <1>1, <1>2, <2>1, <2>2, <2>3 DEF Feed!Changes
<1> QED
  BY <1>1, <1>3, <1>4, <1>5 DEF SyncInv, Feed!DeliveredOnce

\* ReadPage: from the cursor on, the page holds all that it will pass.
LEMMA ReadPageInv ==
    ASSUME LogInv, SyncInv, NEW p \in Poll, Feed!ReadPage(p)
    PROVE  SyncInv'
<1> DEFINE events == Feed!ListEvents(Feed!Knowledge, sync.cursor, 0, MaxTime)
           last == Feed!LastId(events, sync.cursor)
<1>1. /\ UNCHANGED <<Feed!logVars, sync, received, dropped>>
      /\ sync.state = "ready" /\ \A q \in Poll : ~page[q].busy
  BY DEF Feed!ReadPage, Feed!InFlight
<1>2. page' = [page EXCEPT ![p] = [busy |-> TRUE, events |-> events, next |-> last]]
  BY DEF Feed!ReadPage
<1>3. /\ events \in SUBSET committed /\ Place(last) /\ sync.cursor <= last
      /\ \A e \in events : sync.cursor < e /\ e <= last
      /\ \A e \in committed :
            log[e].kind \in Feed!Knowledge /\ log[e].at >= 0 /\ e > sync.cursor =>
               (e <= last => e \in events)
  <2>1. Place(sync.cursor) /\ 0 \in Nat
    BY DEF SyncInv
  <2> QED
    BY <2>1, Listing
<1> HIDE DEF events, last
<1>4. /\ committed \subseteq Feed!Id /\ committed \subseteq Nat
      /\ \A e \in committed : log[e].at >= 0
  <2>1. Feed!Rows \subseteq Feed!Id /\ Feed!Rows \subseteq Nat
    BY FeedAssumption DEF LogInv, Feed!Id
  <2>2. \A e \in committed : log[e] \in Feed!Event
    BY DEF LogInv
  <2>3. \A e \in committed : log[e].at >= 0
    BY <2>2, FeedAssumption DEF Feed!Event
  <2> QED
    BY <2>1, <2>3 DEF LogInv
<1>5. last \in Nat /\ sync.cursor \in Nat
  BY <1>3, PlaceNat DEF SyncInv
<1>6. [busy |-> TRUE, events |-> events, next |-> last]
        \in [busy : BOOLEAN, events : SUBSET Feed!Id, next : Nat]
  BY <1>3, <1>4, <1>5
<1>7. /\ page' \in [Poll -> [busy : BOOLEAN, events : SUBSET Feed!Id, next : Nat]]
      /\ page'[p] = [busy |-> TRUE, events |-> events, next |-> last]
      /\ \A q \in Poll \ {p} : ~page'[q].busy
  BY <1>1, <1>2, <1>6 DEF SyncInv
<1>8. \A e \in Feed!Changes(committed) : sync.cursor < e /\ e <= last => e \in events
  BY <1>3, <1>4, <1>5 DEF Feed!Changes, Feed!Knowledge
<1>9. /\ UNCHANGED <<committed, late, log, sync, received, dropped>>
      /\ Feed!Changes(committed)' = Feed!Changes(committed)
  BY <1>1 DEF Feed!logVars, Feed!Changes
<1>10. Feed!FeedComplete' /\ Feed!DeliveredOnce'
  BY <1>9 DEF SyncInv, Feed!FeedComplete, Feed!DeliveredOnce, Feed!Passed
<1> QED
  BY <1>1, <1>3, <1>7, <1>8, <1>9, <1>10 DEF SyncInv, Place

\* The cursor is resolved while nothing was delivered, and nothing lies between it
\* and where the subscriber began.
LEMMA ResolveInv ==
    ASSUME LogInv, SyncInv, Feed!ResolveCursor \/ Feed!ResolveFails
    PROVE  SyncInv'
<1>1. /\ sync.state = "new" /\ UNCHANGED <<Feed!logVars, page, received, dropped>>
      /\ \A p \in Poll : ~page[p].busy /\ sync.cursor = 0
  BY DEF Feed!ResolveCursor, Feed!ResolveFails, SyncInv
<1>2. watermark.last \in Nat /\ Place(watermark.last)
  <2>1. Place(watermark.last)
    BY DEF LogInv, Place
  <2> QED
    BY <2>1, PlaceNat
<1>3. /\ sync' \in [state : {"new", "ready", "failed"}, start : Nat, cursor : Nat]
      /\ Place(sync'.cursor) /\ sync'.state # "new"
      /\ sync'.cursor = sync'.start \/ sync'.cursor = 0
  <2>1. CASE Feed!ResolveCursor
    BY <1>2, <2>1 DEF Feed!ResolveCursor
  <2>2. CASE Feed!ResolveFails
    BY <1>1, <2>2 DEF Feed!ResolveFails, SyncInv
  <2> QED
    BY <2>1, <2>2
<1>4. \A h \in Feed!Handler, e \in Feed!Id : ~(received[h][e] >= 1)
  <2>1. ASSUME NEW h \in Feed!Handler, NEW e \in Feed!Id, received[h][e] >= 1 PROVE FALSE
    <3>1. e <= sync.cursor /\ sync.cursor = 0
      BY <2>1 DEF SyncInv, Feed!ResolveCursor, Feed!ResolveFails
    <3>2. e \in Nat /\ e # 0
      BY FeedAssumption DEF Feed!Id
    <3> QED
      BY <3>1, <3>2
  <2> QED
    BY <2>1
<1>5. /\ UNCHANGED <<committed, late, log>> /\ committed \subseteq Nat /\ 0 \notin committed
  <2>1. Feed!Rows \subseteq Nat /\ 0 \notin Feed!Rows
    BY DEF LogInv
  <2> QED
    BY <1>1, <2>1 DEF Feed!logVars, LogInv
<1>6. Feed!FeedComplete'
  <2>1. Feed!Passed' = {}
    <3>1. \A e \in committed' : ~(sync'.start < e /\ e <= sync'.cursor)
      BY <1>3, <1>5
    <3> QED
      BY <3>1 DEF Feed!Passed, Feed!Changes
  <2> QED
    BY <2>1 DEF Feed!FeedComplete
<1>7. Feed!DeliveredOnce'
  BY <1>1 DEF SyncInv, Feed!DeliveredOnce
<1> QED
  BY <1>1, <1>3, <1>4, <1>5, <1>6, <1>7 DEF SyncInv, Place

\* A listing that fails leaves the cursor where it was.
LEMMA ReadFailsInv ==
    ASSUME SyncInv, NEW p \in Poll, Feed!ReadFails(p)
    PROVE  SyncInv'
<1>1. /\ page' = [page EXCEPT ![p] = Feed!NoPage] /\ Feed!NoPage.busy = FALSE
      /\ UNCHANGED <<Feed!logVars, sync, received, dropped>>
  BY DEF Feed!ReadFails, Feed!NoPage
<1>2. Feed!NoPage \in [busy : BOOLEAN, events : SUBSET Feed!Id, next : Nat]
  BY DEF Feed!NoPage
<1>3. /\ page' \in [Poll -> [busy : BOOLEAN, events : SUBSET Feed!Id, next : Nat]]
      /\ \A q \in Poll : page'[q].busy => page'[q] = page[q]
  BY <1>1, <1>2 DEF SyncInv
<1>4. /\ UNCHANGED <<committed, late, log, sync, received, dropped>>
      /\ Feed!Changes(committed)' = Feed!Changes(committed)
  BY <1>1 DEF Feed!logVars, Feed!Changes
<1>5. Feed!FeedComplete' /\ Feed!DeliveredOnce'
  BY <1>4 DEF SyncInv, Feed!FeedComplete, Feed!DeliveredOnce, Feed!Passed
<1> QED
  BY <1>3, <1>4, <1>5 DEF SyncInv, Place

\* The cursor moves over the page; whoever is not called is owed it.
LEMMA DeliverInv ==
    ASSUME LogInv, SyncInv, NEW p \in Poll, NEW called, Feed!Deliver(p, called)
    PROVE  SyncInv'
<1> DEFINE changes == Feed!Changes(page[p].events)
           next == page[p].next
<1>1. /\ page[p].busy /\ UNCHANGED <<committed, late, log>>
      /\ sync' = [sync EXCEPT !.cursor = next]
      /\ page' = [page EXCEPT ![p] = Feed!NoPage]
  BY DEF Feed!Deliver, Feed!logVars
<1>2. /\ received' = [h \in Feed!Handler |-> [e \in Feed!Id |->
             received[h][e] + IF h \in called /\ e \in changes THEN 1 ELSE 0]]
      /\ dropped' = [h \in Feed!Handler |-> dropped[h] \cup IF h \in called THEN {} ELSE changes]
  BY DEF Feed!Deliver
<1>3. /\ sync.state # "new" /\ Place(next) /\ sync.cursor <= next
      /\ \A e \in page[p].events : sync.cursor < e /\ e <= next
      /\ \A e \in Feed!Changes(committed) :
            sync.cursor < e /\ e <= next => e \in page[p].events \cup late
      /\ \A q \in Poll : page[q].busy => q = p
  BY <1>1 DEF SyncInv
<1>4. next \in Nat /\ sync.cursor \in Nat /\ page[p].events \in SUBSET Feed!Id
      /\ \A h \in Feed!Handler, e \in Feed!Id : received[h][e] \in Nat
  BY DEF SyncInv
<1>5. changes \subseteq page[p].events
      /\ \A e \in Feed!Changes(committed) : e \in page[p].events => e \in changes
  BY DEF Feed!Changes
<1>6. /\ sync' \in [state : {"new", "ready", "failed"}, start : Nat, cursor : Nat]
      /\ sync'.cursor = next /\ sync'.start = sync.start /\ sync'.state = sync.state
  BY <1>1, <1>4 DEF SyncInv
<1>7. /\ page' \in [Poll -> [busy : BOOLEAN, events : SUBSET Feed!Id, next : Nat]]
      /\ \A q \in Poll : ~page'[q].busy
  <2>1. Feed!NoPage \in [busy : BOOLEAN, events : SUBSET Feed!Id,
          next : Nat] /\ Feed!NoPage.busy = FALSE
    BY DEF Feed!NoPage
  <2>2. page'[p] = Feed!NoPage /\ \A q \in Poll \ {p} : page'[q] = page[q]
    BY <1>1 DEF SyncInv
  <2> QED
    BY <1>1, <1>3, <2>1, <2>2 DEF SyncInv
<1> HIDE DEF changes, next
<1>8. received' \in [Feed!Handler -> [Feed!Id -> Nat]]
      /\ dropped' \in [Feed!Handler -> SUBSET Feed!Id]
  BY <1>2, <1>4, <1>5 DEF SyncInv
<1>9. ASSUME NEW h \in Feed!Handler, NEW e \in Feed!Id
      PROVE  /\ received'[h][e] <= 1
             /\ received'[h][e] >= 1 => e <= next
             /\ received[h][e] >= 1 => received'[h][e] >= 1
             /\ e \in dropped[h] => e \in dropped'[h]
             /\ e \in changes => received'[h][e] >= 1 \/ e \in dropped'[h]
  <2>1. /\ received'[h][e] = received[h][e] + IF h \in called /\ e \in changes THEN 1 ELSE 0
        /\ dropped'[h] = dropped[h] \cup IF h \in called THEN {} ELSE changes
    BY <1>2
  <2>2. /\ received[h][e] \in Nat /\ received[h][e] <= 1
        /\ received[h][e] >= 1 => e <= sync.cursor
        /\ e \in Nat
    BY FeedAssumption DEF SyncInv, Feed!DeliveredOnce, Feed!Id
  <2>3. e \in changes => sync.cursor < e /\ e <= next
    BY <1>3, <1>5 DEF next
  <2>4. received[h][e] >= 1 => e <= next
    BY <1>3, <1>4, <2>2
  <2> QED
    BY <1>4, <2>1, <2>2, <2>3, <2>4
<1>10. Feed!DeliveredOnce'
  BY <1>9 DEF Feed!DeliveredOnce
<1>11. ASSUME NEW h \in Feed!Handler, NEW e \in Feed!Passed'
       PROVE  received'[h][e] >= 1 \/ e \in dropped'[h] \/ e \in late'
  <2>1. e \in Feed!Changes(committed) /\ sync.start < e /\ e <= next
    BY <1>1, <1>6, <1>11 DEF Feed!Passed, Feed!Changes
  <2>2. e \in Feed!Id /\ e \in Nat
    <3>1. Feed!Rows \subseteq Feed!Id /\ Feed!Rows \subseteq Nat
      BY FeedAssumption DEF LogInv, Feed!Id
    <3> QED
      BY <2>1, <3>1 DEF LogInv, Feed!Changes
  <2>3. CASE e <= sync.cursor
    <3>1. received[h][e] >= 1 \/ e \in dropped[h] \/ e \in late
      BY <2>1, <2>3 DEF SyncInv, Feed!FeedComplete, Feed!Passed
    <3> QED
      BY <1>1, <1>9, <2>2, <3>1
  <2>4. CASE ~(e <= sync.cursor)
    <3>1. sync.cursor < e
      BY <1>4, <2>2, <2>4
    <3>2. e \in page[p].events \cup late
      BY <1>3, <2>1, <3>1
    <3> QED
      BY <1>1, <1>5, <1>9, <2>1, <2>2, <3>2
  <2> QED
    BY <2>3, <2>4
<1>12. Feed!FeedComplete'
  BY <1>11 DEF Feed!FeedComplete
<1>13. sync'.cursor \in committed' \cup {0}
  BY <1>1, <1>3, <1>6 DEF Place
<1>14. \A h \in Feed!Handler, e \in Feed!Id : received'[h][e] >= 1 => e <= sync'.cursor
  BY <1>6, <1>9
<1> QED
  BY <1>3, <1>6, <1>7, <1>8, <1>10, <1>12, <1>13, <1>14 DEF SyncInv, Place

\* Every step keeps it.
LEMMA SyncStep == LogInv /\ LogInv' /\ Grows /\ SyncInv /\ [Feed!Next]_Feed!vars => SyncInv'
<1> SUFFICES ASSUME LogInv, LogInv', Grows, SyncInv, [Feed!Next]_Feed!vars PROVE SyncInv'
  OBVIOUS
<1>1. CASE UNCHANGED Feed!syncVars
  BY <1>1, SyncStands
<1>2. CASE Feed!Write
  BY <1>1, <1>2 DEF Feed!Write, Feed!WriteSerial, Feed!Insert
<1>3. ASSUME NEW w \in Writer, Feed!Commit(w) \/ Feed!Rollback(w) PROVE UNCHANGED Feed!syncVars
  BY <1>3 DEF Feed!Commit, Feed!Rollback
<1>4. CASE Feed!ResolveCursor \/ Feed!ResolveFails
  BY <1>4, ResolveInv
<1>5. ASSUME NEW p \in Poll, Feed!ReadPage(p) \/ Feed!ReadFails(p) PROVE SyncInv'
  BY <1>5, ReadPageInv, ReadFailsInv
<1>6. ASSUME NEW p \in Poll, NEW h \in Feed!Handler, Feed!Deliver(p, Feed!UpTo(h)) PROVE SyncInv'
  BY <1>6, DeliverInv
<1>7. ASSUME NEW from \in 0..MaxTime, Feed!SinceStart(from) PROVE UNCHANGED Feed!syncVars
  BY <1>7 DEF Feed!SinceStart
<1>8. CASE \/ Feed!SincePage \/ Feed!SinceResolve \/ Feed!SnapPin \/ Feed!SnapReplay \/ Feed!SnapLive
           \/ UNCHANGED Feed!vars
  BY <1>1, <1>8 DEF Feed!SincePage, Feed!SinceResolve, Feed!SnapPin, Feed!SnapReplay,
     Feed!SnapLive, Feed!vars
<1> QED
  BY <1>1, <1>2, <1>3, <1>4, <1>5, <1>6, <1>7, <1>8 DEF Feed!Next

\* However polls, writers and failures interleave, the cursor carries no handler past
\* a change unless a handler before it threw, or the change became visible late.
THEOREM FeedIsComplete == Feed!Spec => []FeedComplete
<1>1. Feed!Init => LogInv /\ SyncInv
  BY LogInit, SyncInit
<1>2. LogInv /\ SyncInv /\ [Feed!Next]_Feed!vars => LogInv' /\ SyncInv'
  BY LogStep, SyncStep
<1>3. SyncInv => FeedComplete
  BY Promises DEF SyncInv
<1> QED
  BY <1>1, <1>2, <1>3, PTL DEF Feed!Spec

\* No handler is called twice with one change, however many polls overlap.
THEOREM FeedIsOnce == Feed!Spec => []DeliveredOnce
<1>1. Feed!Init => LogInv /\ SyncInv
  BY LogInit, SyncInit
<1>2. LogInv /\ SyncInv /\ [Feed!Next]_Feed!vars => LogInv' /\ SyncInv'
  BY LogStep, SyncStep
<1>3. SyncInv => DeliveredOnce
  BY Promises DEF SyncInv
<1> QED
  BY <1>1, <1>2, <1>3, PTL DEF Feed!Spec

------------------------------------------------------------------------------
(* listKnowledgeChanges *)

Wanted(e) == log[e].at >= since.from
Returned == since.got \cup late

\* What was returned covers what was passed, except after an empty listing, whose
\* cursor is read from the watermark; and what was logged when the call began.
SinceInv ==
    /\ since \in [state : {"idle", "paging", "resolving", "done"}, from : Nat,
                  cursor : Nat, got : SUBSET Feed!Id, begun : SUBSET Feed!Id]
    /\ Place(since.cursor) /\ since.begun \subseteq Feed!Changes(committed)
    /\ since.state = "paging" /\ since.cursor = 0 => since.got = {}
    /\ since.state = "resolving" => since.got = {}
    /\ since.state = "paging" \/ (since.state = "done" /\ since.got # {}) =>
          \A e \in Feed!Changes(committed) : Wanted(e) /\ e <= since.cursor => e \in Returned
    /\ since.state \in {"resolving", "done"} =>
          \A e \in since.begun : Wanted(e) => e \in Returned

\* It is what is promised of the answer.
LEMMA SinceMeans == SinceInv => Feed!SinceComplete
BY DEF SinceInv, Feed!SinceComplete, Wanted, Returned

\* No call was made.
LEMMA SinceInit == Feed!Init => SinceInv
<1> SUFFICES ASSUME Feed!Init PROVE SinceInv
  OBVIOUS
<1>1. since = [state |-> "idle", from |-> 0, cursor |-> 0, got |-> {}, begun |-> {}]
  BY DEF Feed!Init
<1> QED
  BY <1>1 DEF SinceInv, Place

\* While the log grows, it stands.
LEMMA SinceStands ==
    ASSUME LogInv, LogInv', Grows, SinceInv, UNCHANGED since
    PROVE  SinceInv'
<1>1. /\ committed \subseteq Feed!Rows /\ late \subseteq late' /\ committed \subseteq committed'
      /\ \A e \in committed : log'[e] = log[e]
  BY DEF LogInv, Grows
<1>2. /\ Place(since.cursor)'
      /\ \A e \in committed' : e <= since.cursor => e \in committed \/ e \in late'
  BY PlaceHolds DEF SinceInv
<1>3. Feed!Changes(committed) \subseteq Feed!Changes(committed)'
  BY <1>1 DEF Feed!Changes
<1>4. \A e \in Feed!Changes(committed)' : e \in committed => e \in Feed!Changes(committed)
      /\ Wanted(e)' = Wanted(e)
  BY <1>1 DEF Feed!Changes, Wanted
<1>5. \A e \in since.begun : Wanted(e)' = Wanted(e)
  BY <1>1 DEF SinceInv, Feed!Changes, Wanted
<1>6. Feed!Changes(committed)' \subseteq committed'
  BY DEF Feed!Changes
<1>7. Returned \subseteq Returned' /\ late' \subseteq Returned'
  BY <1>1 DEF Returned
<1> QED
  BY <1>2, <1>3, <1>4, <1>5, <1>6, <1>7 DEF SinceInv

\* Every step keeps it.
LEMMA SinceStep == LogInv /\ LogInv' /\ Grows /\ SinceInv /\ [Feed!Next]_Feed!vars => SinceInv'
<1> SUFFICES ASSUME LogInv, LogInv', Grows, SinceInv, [Feed!Next]_Feed!vars PROVE SinceInv'
  OBVIOUS
<1>0. committed \subseteq Feed!Id /\ committed \subseteq Nat /\ 0 \notin committed
  <2>1. Feed!Rows \subseteq Feed!Id /\ Feed!Rows \subseteq Nat /\ 0 \notin Feed!Rows
    BY FeedAssumption DEF LogInv, Feed!Id
  <2> QED
    BY <2>1 DEF LogInv
<1>1. CASE UNCHANGED since
  BY <1>1, SinceStands
<1>2. ASSUME NEW from \in 0..MaxTime, Feed!SinceStart(from) PROVE SinceInv'
  <2>1. /\ since' = [state |-> "paging", from |-> from, cursor |-> 0, got |-> {},
                     begun |-> Feed!Changes(committed)]
        /\ UNCHANGED <<committed, log, late>> /\ from \in Nat
    BY <1>2, FeedAssumption DEF Feed!SinceStart, Feed!logVars
  <2>2. Feed!Changes(committed) \in SUBSET Feed!Id /\ \A e \in Feed!Changes(committed) : ~(e <= 0)
    <3>1. Feed!Changes(committed) \subseteq committed
      BY DEF Feed!Changes
    <3>2. \A e \in committed : ~(e <= 0)
      BY <1>0
    <3> QED
      BY <1>0, <3>1, <3>2
  <2>3. Feed!Changes(committed)' = Feed!Changes(committed)
    BY <2>1 DEF Feed!Changes
  <2> QED
    BY <2>1, <2>2, <2>3 DEF SinceInv, Place
<1>3. CASE Feed!SincePage
  <2> DEFINE events == Feed!ListEvents(Feed!Knowledge, since.cursor, since.from, MaxTime)
             last == Feed!LastId(events, since.cursor)
             more == Feed!MoreBehind(Feed!Knowledge, events, since.cursor, since.from, MaxTime)
             state == IF more THEN "paging" ELSE IF last = 0 THEN "resolving" ELSE "done"
  <2>1. /\ since' = [since EXCEPT !.got = @ \cup Feed!Changes(events), !.cursor = last,
                                  !.state = state]
        /\ since.state = "paging" /\ UNCHANGED <<committed, log, late>>
    BY <1>3 DEF Feed!SincePage, Feed!logVars
  <2>2. Place(since.cursor) /\ since.from \in Nat /\ since.cursor \in Nat
    BY DEF SinceInv
  <2>3. /\ events \in SUBSET committed /\ Place(last) /\ since.cursor <= last
        /\ events # {} => since.cursor < last
        /\ \A e \in committed :
              log[e].kind \in Feed!Knowledge /\ log[e].at >= since.from /\ e > since.cursor =>
                 events # {} /\ (e <= last => e \in events)
    <3>1. /\ events = Feed!ListEvents(Feed!Knowledge, since.cursor, since.from, MaxTime)
          /\ last = Feed!LastId(events, since.cursor)
      OBVIOUS
    <3> HIDE DEF events, last
    <3>2. PICK cursor, from : cursor = since.cursor /\ from = since.from
      OBVIOUS
    <3>3. Place(cursor) /\ from \in Nat
      BY <2>2, <3>2
    <3>4. events = Feed!ListEvents(Feed!Knowledge, cursor, from,
            MaxTime) /\ last = Feed!LastId(events, cursor)
      BY <3>1, <3>2
    <3>5. /\ events \in SUBSET committed /\ Place(last) /\ cursor <= last
          /\ events # {} => cursor < last
          /\ \A e \in committed :
                log[e].kind \in Feed!Knowledge /\ log[e].at >= from /\ e > cursor =>
                   events # {} /\ (e <= last => e \in events)
      BY <3>3, <3>4, Listing
    <3> QED
      BY <3>2, <3>5
  <2>4. ~more => \A e \in committed :
                    log[e].kind \in Feed!Knowledge /\ log[e].at >= since.from => ~(e > last)
    <3>1. CASE events = {}
      <4>1. last = since.cursor
        BY <3>1 DEF Feed!LastId
      <4> QED
        BY <2>3, <3>1, <4>1
    <3>2. CASE events # {}
      <4>1. PICK rest : rest = Feed!ListEvents(Feed!Knowledge, last, since.from, MaxTime)
        OBVIOUS
      <4>2. PICK end : end = Feed!LastId(rest, last)
        OBVIOUS
      <4> HIDE DEF events, last
      <4>3. ~more => rest = {}
        BY <3>2, <4>1 DEF Feed!MoreBehind, last
      <4>4. \A e \in committed :
              log[e].kind \in Feed!Knowledge /\ log[e].at >= since.from /\ e > last => rest # {}
        <5>1. PICK from, c : from = since.from /\ c = last
          OBVIOUS
        <5>2. Place(c) /\ from \in Nat
          BY <2>2, <2>3, <5>1
        <5>3. rest = Feed!ListEvents(Feed!Knowledge, c, from, MaxTime) /\ end = Feed!LastId(rest, c)
          BY <4>1, <4>2, <5>1
        <5>4. \A e \in committed :
                log[e].kind \in Feed!Knowledge /\ log[e].at >= from /\ e > c => rest # {}
          BY <5>2, <5>3, Listing
        <5> QED
          BY <5>1, <5>4
      <4> QED
        BY <4>3, <4>4
    <3> QED
      BY <3>1, <3>2
  <2>5. last \in Nat
    BY <2>3, PlaceNat
  <2> HIDE DEF events, last, more
  <2>6. Feed!Changes(events) \in SUBSET Feed!Id
        /\ \A e \in Feed!Changes(committed) : e \in events => e \in Feed!Changes(events)
    BY <1>0, <2>3 DEF Feed!Changes
  <2>7. /\ since' \in [state : {"idle", "paging", "resolving", "done"}, from : Nat,
                       cursor : Nat, got : SUBSET Feed!Id, begun : SUBSET Feed!Id]
        /\ since'.from = since.from /\ since'.cursor = last /\ since'.begun = since.begun
        /\ since'.got = since.got \cup Feed!Changes(events) /\ since'.state = state
    BY <2>1, <2>5, <2>6 DEF SinceInv
  <2>8. ASSUME NEW e \in Feed!Changes(committed), Wanted(e), e <= last PROVE e \in Returned'
    <3>1. e \in committed /\ log[e].kind \in Feed!Knowledge
      BY DEF Feed!Changes, Feed!Knowledge
    <3>2. CASE e <= since.cursor
      <4>1. e \in Returned
        BY <2>1, <2>8, <3>2 DEF SinceInv
      <4> QED
        BY <2>1, <2>7, <4>1 DEF Returned
    <3>3. CASE ~(e <= since.cursor)
      <4>1. e > since.cursor
        BY <1>0, <2>2, <3>1, <3>3
      <4>2. e \in Feed!Changes(events)
        BY <2>3, <2>6, <2>8, <3>1, <4>1 DEF Wanted
      <4> QED
        BY <2>7, <4>2 DEF Returned
    <3> QED
      BY <3>2, <3>3
  <2>9. ASSUME ~more, NEW e \in since.begun, Wanted(e) PROVE e \in Returned'
    <3>1. e \in Feed!Changes(committed)
      BY DEF SinceInv
    <3>2. e \in committed /\ log[e].kind \in Feed!Knowledge
      BY <3>1 DEF Feed!Changes, Feed!Knowledge
    <3>3. e <= last
      <4>1. ~(e > last)
        BY <2>4, <2>9, <3>2 DEF Wanted
      <4> QED
        BY <1>0, <2>5, <3>2, <4>1
    <3> QED
      BY <2>8, <2>9, <3>1, <3>3
  <2>10. last = 0 => since'.got = {}
    <3>1. ASSUME last = 0 PROVE since.cursor = 0 /\ events = {}
      BY <2>2, <2>3, <3>1
    <3>2. Feed!Changes({}) = {}
      BY DEF Feed!Changes
    <3> QED
      BY <2>1, <2>7, <3>1, <3>2 DEF SinceInv
  <2>11. Feed!Changes(committed)' = Feed!Changes(committed) /\ \A e : Wanted(e)' = Wanted(e)
    BY <2>1, <2>7 DEF Feed!Changes, Wanted
  <2>12. last \in committed' \cup {0}
    BY <2>1, <2>3 DEF Place
  <2> QED
    BY <2>7, <2>8, <2>9, <2>10, <2>11, <2>12 DEF SinceInv, Place
<1>4. CASE Feed!SinceResolve
  <2>1. /\ since' = [since EXCEPT !.state = "done", !.cursor = watermark.last]
        /\ since.state = "resolving" /\ UNCHANGED <<committed, log, late>>
    BY <1>4 DEF Feed!SinceResolve, Feed!logVars
  <2>2. Place(watermark.last) /\ watermark.last \in Nat
    <3>1. Place(watermark.last)
      BY DEF LogInv, Place
    <3> QED
      BY <3>1, PlaceNat
  <2>3. /\ since' \in [state : {"idle", "paging", "resolving", "done"}, from : Nat,
                       cursor : Nat, got : SUBSET Feed!Id, begun : SUBSET Feed!Id]
        /\ since'.from = since.from /\ since'.cursor = watermark.last
        /\ since'.begun = since.begun /\ since'.got = since.got /\ since'.state = "done"
    BY <2>1, <2>2 DEF SinceInv
  <2>4. Feed!Changes(committed)' = Feed!Changes(committed) /\ \A e : Wanted(e)' = Wanted(e)
    BY <2>1, <2>3 DEF Feed!Changes, Wanted
  <2>5. Returned' = Returned /\ watermark.last \in committed' \cup {0}
    BY <2>1, <2>2, <2>3 DEF Returned, Place
  <2> QED
    BY <2>1, <2>3, <2>4, <2>5 DEF SinceInv, Place
<1>5. CASE Feed!Write
  BY <1>1, <1>5 DEF Feed!Write, Feed!WriteSerial, Feed!Insert
<1>6. ASSUME NEW w \in Writer, Feed!Commit(w) \/ Feed!Rollback(w) PROVE UNCHANGED since
  BY <1>6 DEF Feed!Commit, Feed!Rollback
<1>7. ASSUME NEW p \in Poll, Feed!ReadPage(p) \/ Feed!ReadFails(p) PROVE UNCHANGED since
  BY <1>7 DEF Feed!ReadPage, Feed!ReadFails
<1>8. ASSUME NEW p \in Poll, NEW h \in Feed!Handler, Feed!Deliver(p,
        Feed!UpTo(h)) PROVE UNCHANGED since
  BY <1>8 DEF Feed!Deliver
<1>9. CASE \/ Feed!ResolveCursor \/ Feed!ResolveFails \/ Feed!SnapPin \/ Feed!SnapReplay \/ Feed!SnapLive
           \/ UNCHANGED Feed!vars
  BY <1>1, <1>9 DEF Feed!ResolveCursor, Feed!ResolveFails, Feed!SnapPin, Feed!SnapReplay,
     Feed!SnapLive, Feed!vars
<1> QED
  BY <1>1, <1>2, <1>3, <1>4, <1>5, <1>6, <1>7, <1>8, <1>9 DEF Feed!Next

\* However the log grows between the pages, listKnowledgeChanges({since}) misses
\* nothing that was there when it was called, and leaves a cursor that passes nothing
\* it did not return, but for late ids and for an empty listing.
THEOREM SinceIsComplete == Feed!Spec => []SinceComplete
<1>1. Feed!Init => LogInv /\ SinceInv
  BY LogInit, SinceInit
<1>2. LogInv /\ SinceInv /\ [Feed!Next]_Feed!vars => LogInv' /\ SinceInv'
  BY LogStep, SinceStep
<1>3. SinceInv => SinceComplete
  BY SinceMeans, Promises
<1> QED
  BY <1>1, <1>2, <1>3, PTL DEF Feed!Spec

------------------------------------------------------------------------------
(* captureSnapshot *)

\* What lies before the pin was there when it was set, or is late.
SnapInv ==
    /\ snap = [state |-> snap.state, pin |-> snap.pin, pinned |-> snap.pinned,
         events |-> snap.events]
    /\ snap.state # "idle" =>
          /\ Place(snap.pin.last) /\ snap.pinned \subseteq committed
          /\ \A e \in snap.pinned : e <= snap.pin.last
          /\ \A e \in committed : e <= snap.pin.last => e \in snap.pinned \cup late
    /\ snap.state = "done" =>
          \A e : e \in late \/ (e \in snap.events <=>
                                   e \in snap.pinned /\ log[e].at <= snap.pin.at)

\* It is what is promised of the snapshot.
LEMMA SnapMeans == SnapInv => Feed!SnapshotPinned
BY DEF SnapInv, Feed!SnapshotPinned

\* No snapshot was taken.
LEMMA SnapInit == Feed!Init => SnapInv
<1> SUFFICES ASSUME Feed!Init PROVE SnapInv
  OBVIOUS
<1>1. snap = [state |-> "idle", pin |-> watermark, pinned |-> {}, events |-> {}]
  BY DEF Feed!Init
<1> QED
  BY <1>1 DEF SnapInv

\* While the log grows, it stands.
LEMMA SnapStands ==
    ASSUME LogInv, LogInv', Grows, SnapInv, UNCHANGED snap
    PROVE  SnapInv'
<1>1. /\ committed \subseteq Feed!Rows /\ late \subseteq late' /\ committed \subseteq committed'
      /\ \A e \in committed : log'[e] = log[e]
  BY DEF LogInv, Grows
<1>2. ASSUME snap.state # "idle"
      PROVE  /\ Place(snap.pin.last)' /\ snap.pinned \subseteq committed
             /\ \A e \in snap.pinned : e <= snap.pin.last
             /\ \A e \in committed' : e <= snap.pin.last => e \in snap.pinned \cup late'
  <2>1. PICK last : last = snap.pin.last
    OBVIOUS
  <2>2. /\ Place(last) /\ snap.pinned \subseteq committed
        /\ \A e \in snap.pinned : e <= last
        /\ \A e \in committed : e <= last => e \in snap.pinned \cup late
    BY <1>2, <2>1 DEF SnapInv
  <2>3. Place(last)' /\ \A e \in committed' : e <= last => e \in committed \/ e \in late'
    BY <2>2, PlaceHolds
  <2> QED
    BY <1>1, <2>1, <2>2, <2>3 DEF Place
<1>3. ASSUME snap.state = "done", NEW e, e \notin late'
      PROVE  e \in snap.events <=> e \in snap.pinned /\ log'[e].at <= snap.pin.at
  <2>1. e \notin late
    BY <1>1, <1>3
  <2>2. e \in snap.events <=> e \in snap.pinned /\ log[e].at <= snap.pin.at
    BY <1>3, <2>1 DEF SnapInv
  <2>3. e \in snap.pinned => log'[e] = log[e]
    BY <1>1, <1>2, <1>3
  <2> QED
    BY <2>2, <2>3
<1> QED
  BY <1>1, <1>2, <1>3 DEF SnapInv

\* Every step keeps it.
LEMMA SnapStep == LogInv /\ LogInv' /\ Grows /\ SnapInv /\ [Feed!Next]_Feed!vars => SnapInv'
<1> SUFFICES ASSUME LogInv, LogInv', Grows, SnapInv, [Feed!Next]_Feed!vars PROVE SnapInv'
  OBVIOUS
<1>1. CASE UNCHANGED snap
  BY <1>1, SnapStands
<1>2. CASE Feed!SnapPin
  <2>1. /\ snap' = [state |-> "pinned", pin |-> watermark, events |-> {},
                    pinned |-> {e \in committed : e <= watermark.last}]
        /\ UNCHANGED <<committed, log, late>>
    BY <1>2 DEF Feed!SnapPin, Feed!logVars
  <2>2. watermark.last \in committed \cup {0}
    BY DEF LogInv
  <2>3. /\ snap'.state = "pinned" /\ snap'.pin.last = watermark.last
        /\ snap'.pinned = {e \in committed : e <= watermark.last}
        /\ snap' = [state |-> snap'.state, pin |-> snap'.pin, pinned |-> snap'.pinned,
                    events |-> snap'.events]
    BY <2>1
  <2> QED
    BY <2>1, <2>2, <2>3 DEF SnapInv, Place
<1>3. CASE Feed!SnapReplay
  <2> DEFINE found == {e \in committed : log[e].at <= snap.pin.at /\ e <= snap.pin.last}
  <2>1. /\ snap.state = "pinned" /\ UNCHANGED <<committed, log, late>>
        /\ snap' = [snap EXCEPT !.state = "done", !.events = found]
    BY <1>3 DEF Feed!SnapReplay, Feed!logVars
  <2> HIDE DEF found
  <2>2. /\ snap'.state = "done" /\ snap'.pin = snap.pin /\ snap'.pinned = snap.pinned
        /\ snap'.events = found
        /\ snap' = [state |-> snap'.state, pin |-> snap'.pin, pinned |-> snap'.pinned,
                    events |-> snap'.events]
    BY <2>1 DEF SnapInv
  <2>3. /\ Place(snap.pin.last) /\ snap.pinned \subseteq committed
        /\ \A e \in snap.pinned : e <= snap.pin.last
        /\ \A e \in committed : e <= snap.pin.last => e \in snap.pinned \cup late
    BY <2>1 DEF SnapInv
  <2>4. ASSUME NEW e, e \notin late
        PROVE  e \in found <=> e \in snap.pinned /\ log[e].at <= snap.pin.at
    BY <2>3, <2>4 DEF found
  <2> QED
    BY <2>1, <2>2, <2>3, <2>4 DEF SnapInv, Place
<1>4. CASE Feed!SnapLive
  <2>1. /\ snap.state = "pinned" /\ UNCHANGED <<committed, log, late>>
        /\ snap' = [snap EXCEPT !.state = "live"]
    BY <1>4 DEF Feed!SnapLive, Feed!logVars
  <2>2. /\ snap'.state = "live" /\ snap'.pin = snap.pin /\ snap'.pinned = snap.pinned
        /\ snap' = [state |-> snap'.state, pin |-> snap'.pin, pinned |-> snap'.pinned,
                    events |-> snap'.events]
    BY <2>1 DEF SnapInv
  <2> QED
    BY <2>1, <2>2 DEF SnapInv, Place
<1>5. CASE Feed!Write
  BY <1>1, <1>5 DEF Feed!Write, Feed!WriteSerial, Feed!Insert
<1>6. ASSUME NEW w \in Writer, Feed!Commit(w) \/ Feed!Rollback(w) PROVE UNCHANGED snap
  BY <1>6 DEF Feed!Commit, Feed!Rollback
<1>7. ASSUME NEW p \in Poll, Feed!ReadPage(p) \/ Feed!ReadFails(p) PROVE UNCHANGED snap
  BY <1>7 DEF Feed!ReadPage, Feed!ReadFails
<1>8. ASSUME NEW p \in Poll, NEW h \in Feed!Handler, Feed!Deliver(p,
        Feed!UpTo(h)) PROVE UNCHANGED snap
  BY <1>8 DEF Feed!Deliver
<1>9. ASSUME NEW from \in 0..MaxTime, Feed!SinceStart(from) PROVE UNCHANGED snap
  BY <1>9 DEF Feed!SinceStart
<1>10. CASE \/ Feed!ResolveCursor \/ Feed!ResolveFails \/ Feed!SincePage \/ Feed!SinceResolve
            \/ UNCHANGED Feed!vars
  BY <1>1, <1>10 DEF Feed!ResolveCursor, Feed!ResolveFails, Feed!SincePage, Feed!SinceResolve,
     Feed!vars
<1> QED
  BY <1>1, <1>2, <1>3, <1>4, <1>5, <1>6, <1>7, <1>8, <1>9, <1>10 DEF Feed!Next

\* Whenever the replay reads the log, the snapshot shows what lay before its pin and
\* is not dated after it, but for ids that become visible late.
THEOREM SnapshotIsPinned == Feed!Spec => []SnapshotPinned
<1>1. Feed!Init => LogInv /\ SnapInv
  BY LogInit, SnapInit
<1>2. LogInv /\ SnapInv /\ [Feed!Next]_Feed!vars => LogInv' /\ SnapInv'
  BY LogStep, SnapStep
<1>3. SnapInv => SnapshotPinned
  BY SnapMeans, Promises
<1> QED
  BY <1>1, <1>2, <1>3, PTL DEF Feed!Spec
=============================================================================
