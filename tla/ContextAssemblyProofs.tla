----------------------- MODULE ContextAssemblyProofs -----------------------
(***************************************************************************)
(* No turn falls between the reads of a context, for every set of facts,   *)
(* every budget and every number of turns and compactions; no fact comes   *)
(* in by an association that the filters would have kept out; and what is  *)
(* trimmed away is no more than the budget asks for.  At the end, the      *)
(* managers that a server keeps for the scope.                             *)
(***************************************************************************)
EXTENDS ServerContext, SequenceTheorems, FiniteSetTheorems, WellFoundedInduction, TLAPS

Steps == {"start", "memory", "knowledge", "associations", "trim", "done"}

\* The turns up to n are covered by the summaries stored so far.
SummarizedUpTo(n) ==
    \A t \in 1..n : \E i \in DOMAIN summaries : t \in Covers(i).from..Covers(i).to

\* A turn that the call has not read is covered by a summary that it will read.
UnreadSummarized ==
    \A t \in 1..begun :
        \/ t \in seen.turns
        \/ \E i \in DOMAIN summaries : t \in Covers(i).from..Covers(i).to

\* NothingUnread alone is not inductive: it must hold of what the second read is
\* going to find, and that rests on the summaries' covering all archived turns.
IInv ==
    /\ stored \in Nat /\ begun \in Nat /\ pc \in Steps
    /\ summaries \in Seq(Nat) /\ Archived \in 0..stored
    /\ seen = [turns |-> seen.turns, memory |-> seen.memory, facts |-> seen.facts]
    /\ SummarizedUpTo(Archived)
    /\ pc = "memory" => UnreadSummarized
    /\ NothingUnread

LEMMA InitInv == Init => IInv
<1> SUFFICES ASSUME Init PROVE IInv
  OBVIOUS
<1>1. Archived = 0
  BY DEF Init, Archived
<1>2. 1..0 = {}
  OBVIOUS
<1> QED
  BY <1>1, <1>2 DEF Init, IInv, SummarizedUpTo, NothingUnread, EmptySeen, Steps

\* A compaction adds the last summary, which takes over where the one before it ends.
LEMMA CompactionCovers ==
    ASSUME IInv, NEW to \in (Archived + 1)..stored, summaries' = Append(summaries, to)
    PROVE  /\ summaries' \in Seq(Nat) /\ Archived' = to
           /\ \A i \in DOMAIN summaries : i \in DOMAIN summaries' /\ Covers(i)' = Covers(i)
           /\ SummarizedUpTo(Archived)'
<1> USE DEF IInv
<1>1. /\ to \in Nat /\ summaries' \in Seq(Nat) /\ Len(summaries') = Len(summaries) + 1
      /\ DOMAIN summaries = 1..Len(summaries) /\ DOMAIN summaries' = 1..Len(summaries')
      /\ \A i \in 1..Len(summaries) : summaries'[i] = summaries[i]
      /\ summaries'[Len(summaries) + 1] = to
      /\ summaries = <<>> <=> Len(summaries) = 0
  OBVIOUS
<1>2. Archived' = to
  BY <1>1 DEF Archived, Last
<1>3. \A i \in DOMAIN summaries : i \in DOMAIN summaries' /\ Covers(i)' = Covers(i)
  BY <1>1 DEF Covers
<1>4. ASSUME NEW t \in 1..to
      PROVE  \E i \in DOMAIN summaries' : t \in Covers(i)'.from..Covers(i)'.to
  <2>1. CASE t <= Archived
    <3>1. t \in 1..Archived
      BY <1>1, <2>1
    <3>2. PICK i \in DOMAIN summaries : t \in Covers(i).from..Covers(i).to
      BY <3>1 DEF SummarizedUpTo
    <3> QED
      BY <3>2, <1>3
  <2>2. CASE t > Archived
    <3>0. PICK last \in Nat : last = Len(summaries) + 1
      BY <1>1
    <3>1. Covers(last)' = [from |-> Archived + 1, to |-> to]
      <4>1. CASE Len(summaries) = 0
        BY <1>1, <3>0, <4>1 DEF Covers, Archived
      <4>2. CASE Len(summaries) # 0
        <5>1. last # 1 /\ last - 1 = Len(summaries) /\ Len(summaries) \in 1..Len(summaries)
          BY <1>1, <3>0, <4>2
        <5> QED
          BY <1>1, <3>0, <4>2, <5>1 DEF Covers, Archived, Last
      <4> QED
        BY <4>1, <4>2
    <3>2. last \in DOMAIN summaries' /\ t \in (Archived + 1)..to
      BY <1>1, <2>2, <3>0
    <3> QED
      BY <3>1, <3>2
  <2> QED
    BY <2>1, <2>2
<1> QED
  BY <1>1, <1>2, <1>3, <1>4 DEF SummarizedUpTo

LEMMA StepInv == IInv /\ [Next]_vars => IInv'
<1> SUFFICES ASSUME IInv, [Next]_vars PROVE IInv'
  OBVIOUS
<1> USE DEF IInv, Steps
<1>0. ASSUME UNCHANGED vars PROVE IInv'
  BY <1>0 DEF vars, Archived, SummarizedUpTo, UnreadSummarized, NothingUnread, Covers
<1>1. CASE ReadTurns
  <2>1. seen' = [turns |-> (Archived + 1)..stored, memory |-> seen.memory, facts |-> seen.facts]
    BY <1>1 DEF ReadTurns
  <2> QED
    BY <1>1, <2>1 DEF ReadTurns, store, Archived, SummarizedUpTo, UnreadSummarized, NothingUnread, Covers
<1>2. CASE ReadWorkingMemory
  <2>1. /\ UNCHANGED <<stored, summaries, begun>> /\ pc = "memory" /\ pc' = "knowledge"
    BY <1>2 DEF ReadWorkingMemory, store
  <2> DEFINE n == Len(summaries)
             found == Reverse([i \in DOMAIN summaries |-> i])
  <2>2. seen' = [seen EXCEPT !.memory = [i \in DOMAIN found |-> Covers(found[i])]]
    BY <1>2 DEF ReadWorkingMemory
  <2>3. n \in Nat /\ DOMAIN summaries = 1..n
    OBVIOUS
  <2>4. DOMAIN found = 1..n /\ \A i \in 1..n : found[(n - i) + 1] = i
    <3> DEFINE ids == [i \in 1..n |-> i]
    <3>1. Len(ids) = n /\ \A i \in 1..n : ids[i] = i
      BY <2>3
    <3>2. found = [i \in 1..n |-> ids[(n - i) + 1]]
      BY <2>3, <3>1 DEF Reverse
    <3> HIDE DEF ids, found
    <3>3. ASSUME NEW i \in 1..n PROVE (n - i) + 1 \in 1..n /\ (n - ((n - i) + 1)) + 1 = i
      BY <2>3
    <3> QED
      BY <2>3, <3>1, <3>2, <3>3
  <2> HIDE DEF found
  <2>5. /\ seen'.turns = seen.turns
        /\ seen' = [turns |-> seen'.turns, memory |-> seen'.memory, facts |-> seen'.facts]
        /\ DOMAIN seen'.memory = 1..n
        /\ \A i \in 1..n : seen'.memory[i] = Covers(found[i])
    <3> DEFINE read == [i \in DOMAIN found |-> Covers(found[i])]
    <3>1. DOMAIN read = 1..n /\ \A i \in 1..n : read[i] = Covers(found[i])
      BY <2>4
    <3> HIDE DEF read
    <3>2. seen' = [turns |-> seen.turns, memory |-> read, facts |-> seen.facts]
      BY <2>2 DEF read
    <3> QED
      BY <3>1, <3>2
  <2>6. \A i \in 1..n : (n - i) + 1 \in 1..n /\ seen'.memory[(n - i) + 1] = Covers(i)
    BY <2>3, <2>4, <2>5
  <2>7. NothingUnread'
    BY Zenon, <2>1, <2>3, <2>5, <2>6 DEF UnreadSummarized, NothingUnread
  <2> QED
    BY <2>1, <2>5, <2>7 DEF Archived, SummarizedUpTo, Covers
<1>3. CASE ReadKnowledge \/ ReadAssociations
  BY <1>3 DEF ReadKnowledge, ReadAssociations, store, Archived, SummarizedUpTo, UnreadSummarized, NothingUnread, Covers
<1>4. CASE DropTurn \/ DropSummary \/ DropInvariant \/ DropPlaybook \/ DropAssociated \/ DropFact
  BY <1>4 DEF DropTurn, DropSummary, DropInvariant, DropPlaybook, DropAssociated, DropFact, Trimmed, Over,
     store, Archived, SummarizedUpTo, UnreadSummarized, NothingUnread, Covers
<1>5. CASE Return
  BY <1>5 DEF Return, store, Archived, SummarizedUpTo, UnreadSummarized, NothingUnread, Covers
<1>6. CASE StoreTurn
  BY <1>6 DEF StoreTurn, Others, Archived, SummarizedUpTo, UnreadSummarized, NothingUnread, Covers
<1>7. CASE CommitCompaction
  <2>1. PICK to \in (Archived + 1)..stored : summaries' = Append(summaries, to)
    BY <1>7 DEF CommitCompaction
  <2>2. UNCHANGED <<stored, begun, seen, pc>>
    BY <1>7 DEF CommitCompaction, Others
  <2>3. UnreadSummarized => UnreadSummarized'
    BY <2>1, <2>2, CompactionCovers DEF UnreadSummarized
  <2> QED
    BY <2>1, <2>2, <2>3, CompactionCovers DEF NothingUnread
<1>8. CASE ChangeFact \/ ChangeAssociation
  BY <1>8 DEF ChangeFact, ChangeAssociation, Others, Archived, SummarizedUpTo, UnreadSummarized, NothingUnread, Covers
<1> QED
  BY <1>0, <1>1, <1>2, <1>3, <1>4, <1>5, <1>6, <1>7, <1>8 DEF Next

\* Whatever is stored or compacted while getContext goes from one read to the next,
\* a turn stored when the call began is among the turns it read or under a summary
\* it read.
THEOREM ReadsAreComplete == Spec => []NothingUnread
<1>1. IInv => NothingUnread
  BY DEF IInv
<1> QED
  BY <1>1, InitInv, StepInv, PTL DEF Spec
-----------------------------------------------------------------------------
\* The order that the selection and the expansion put facts in.

\* x comes before y: the greater key, the first listed of two with the same.
Beats(key, x, y) == key[x] > key[y] \/ (key[x] = key[y] /\ x < y)

UpTo(key, S, x) == {y \in S : y = x \/ Beats(key, y, x)}

\* Each of finitely many facts has a place of its own, and no place is left free.
LEMMA Positions ==
    ASSUME NEW S \in SUBSET Int, IsFiniteSet(S), NEW key, \A x \in S : key[x] \in Int
    PROVE  /\ Cardinality(S) \in Nat
           /\ \A x \in S : Cardinality(UpTo(key, S, x)) \in 1..Cardinality(S)
           /\ \A x, y \in S : Beats(key, x, y) => Cardinality(UpTo(key, S, x)) < Cardinality(UpTo(key, S, y))
           /\ \A x, y \in S : Cardinality(UpTo(key, S, x)) = Cardinality(UpTo(key, S, y)) => x = y
           /\ \A n \in 1..Cardinality(S) : \E x \in S : Cardinality(UpTo(key, S, x)) = n
<1>1. PICK size \in Nat : size = Cardinality(S)
  BY FS_CardinalityType
<1>2. \A x \in S : /\ UpTo(key, S, x) \in SUBSET S /\ x \in UpTo(key, S, x)
                   /\ IsFiniteSet(UpTo(key, S, x))
                   /\ Cardinality(UpTo(key, S, x)) \in 1..size
  <2> TAKE x \in S
  <2>1. UpTo(key, S, x) \in SUBSET S /\ x \in UpTo(key, S, x)
    BY DEF UpTo
  <2>2. IsFiniteSet(UpTo(key, S, x)) /\ Cardinality(UpTo(key, S, x)) <= size
    BY <1>1, <2>1, FS_Subset
  <2>3. Cardinality(UpTo(key, S, x)) \in Nat /\ Cardinality(UpTo(key, S, x)) # 0
    BY <2>1, <2>2, FS_CardinalityType, FS_EmptySet
  <2> QED
    BY <2>1, <2>2, <2>3
<1>3. ASSUME NEW x \in S, NEW y \in S, Beats(key, x, y)
      PROVE  Cardinality(UpTo(key, S, x)) < Cardinality(UpTo(key, S, y))
  <2>1. x # y /\ ~Beats(key, y, x)
    BY <1>3 DEF Beats
  <2>2. \A z \in S : Beats(key, z, x) => Beats(key, z, y)
    BY <1>3 DEF Beats
  <2>3. UpTo(key, S, x) \in SUBSET UpTo(key, S, y)
    BY <1>3, <2>2 DEF UpTo
  <2>4. y \in UpTo(key, S, y) /\ y \notin UpTo(key, S, x)
    BY <2>1 DEF UpTo
  <2>5. Cardinality(UpTo(key, S, x)) <= Cardinality(UpTo(key, S, y))
    BY <1>2, <2>3, FS_Subset
  <2>6. Cardinality(UpTo(key, S, x)) # Cardinality(UpTo(key, S, y))
    BY <1>2, <2>3, <2>4, FS_Subset
  <2>7. Cardinality(UpTo(key, S, x)) \in Int /\ Cardinality(UpTo(key, S, y)) \in Int
    BY <1>1, <1>2
  <2> QED
    BY <2>5, <2>6, <2>7
<1>4. \A x, y \in S : Cardinality(UpTo(key, S, x)) = Cardinality(UpTo(key, S, y)) => x = y
  <2> SUFFICES ASSUME NEW x \in S, NEW y \in S, x # y
               PROVE  Cardinality(UpTo(key, S, x)) # Cardinality(UpTo(key, S, y))
    OBVIOUS
  <2>1. Beats(key, x, y) \/ Beats(key, y, x)
    BY DEF Beats
  <2>2. Cardinality(UpTo(key, S, x)) \in Int /\ Cardinality(UpTo(key, S, y)) \in Int
    BY <1>1, <1>2
  <2> QED
    BY <1>3, <2>1, <2>2
<1>5. \A n \in 1..size : \E x \in S : Cardinality(UpTo(key, S, x)) = n
  <2>1. PICK place : place = [x \in S |-> Cardinality(UpTo(key, S, x))]
    OBVIOUS
  <2>2. place \in Injection(S, 1..size)
    BY <1>2, <1>4, <2>1 DEF Injection, IsInjective
  <2>3. IsFiniteSet(1..size) /\ Cardinality(1..size) = size
    BY <1>1, FS_Interval
  <2>4. place \in Surjection(S, 1..size)
    BY <1>1, <2>2, <2>3, FS_Injection
  <2> QED
    BY <2>1, <2>4 DEF Surjection
<1> QED
  BY <1>1, <1>2, <1>3, <1>4, <1>5

LEMMA Foremost ==
    ASSUME NEW S \in SUBSET Int, IsFiniteSet(S), S # {}, NEW key, \A x \in S : key[x] \in Int
    PROVE  \E x \in S : \A y \in S \ {x} : Beats(key, x, y)
<1>1. PICK x \in S : Cardinality(UpTo(key, S, x)) = 1
  <2>1. Cardinality(S) \in Nat /\ Cardinality(S) # 0
    BY Positions, FS_EmptySet
  <2>2. 1 \in 1..Cardinality(S)
    BY <2>1
  <2> QED
    BY <2>2, Positions
<1>2. ASSUME NEW y \in S \ {x} PROVE Beats(key, x, y)
  <2>1. Beats(key, x, y) \/ Beats(key, y, x)
    BY DEF Beats
  <2>2. ~Beats(key, y, x)
    <3>1. Cardinality(UpTo(key, S, y)) \in 1..Cardinality(S) /\ Cardinality(S) \in Nat
      BY Positions
    <3>2. ~(Cardinality(UpTo(key, S, y)) < 1)
      BY <3>1
    <3> QED
      BY <1>1, <3>2, Positions
  <2> QED
    BY <2>1, <2>2
<1> QED
  BY <1>1, <1>2

LEMMA MaxOfInts ==
    ASSUME NEW S \in SUBSET Int, IsFiniteSet(S), S # {}
    PROVE  Max(S) \in S
<1>1. PICK key : key = [x \in S |-> x]
  OBVIOUS
<1>2. PICK x \in S : \A y \in S \ {x} : Beats(key, x, y)
  BY <1>1, Foremost
<1>3. \A y \in S : x >= y
  BY <1>1, <1>2 DEF Beats
<1> QED
  BY <1>3 DEF Max
-----------------------------------------------------------------------------
\* Selection.

LEMMA BestIsOpen ==
    ASSUME NEW candidates \in SUBSET Facts, NEW sel \in Seq(candidates), Open(candidates, sel) # {}
    PROVE  Best(candidates, sel) \in Open(candidates, sel)
<1>1. PICK S : S = Open(candidates, sel)
  OBVIOUS
<1>2. S \in SUBSET Int /\ IsFiniteSet(S) /\ S \in SUBSET Facts
  <2>1. S \in SUBSET Facts
    BY <1>1 DEF Open
  <2> QED
    BY <2>1, ContextAssumption, FS_Subset
<1>3. PICK key : key = [f \in S |-> Final(sel, f)]
  OBVIOUS
<1>4. \A f \in S : key[f] = Final(sel, f) /\ key[f] \in Int
  <2>1. \A F, f : Alike(F, sel, f) \in Nat
    <3> TAKE F, f
    <3>1. {g \in ToSet(sel) : F[g] = F[f]} \in SUBSET Facts
      BY DEF ToSet
    <3> QED
      BY <3>1, ContextAssumption, FS_Subset, FS_CardinalityType DEF Alike
  <2>2. ASSUME NEW a \in Nat, NEW b \in Nat, NEW c \in Int, NEW d \in Int PROVE c - d * (a + b) \in Int
    OBVIOUS
  <2>3. \A f \in S : Score[f] \in Int /\ DiversityPenalty \in Int
    BY <1>2, ContextAssumption
  <2> QED
    BY <1>3, <2>1, <2>2, <2>3 DEF Final
<1>5. PICK f \in S : \A g \in S \ {f} : Beats(key, f, g)
  BY <1>1, <1>2, <1>4, Foremost
<1>6. \A g \in S \ {f} : Final(sel, f) > Final(sel, g) \/ (Final(sel, f) = Final(sel, g) /\ f < g)
  BY <1>4, <1>5 DEF Beats
<1> QED
  BY <1>1, <1>6 DEF Best

\* One more fact leaves the selection without repetition.
LEMMA GrownFits ==
    ASSUME NEW candidates \in SUBSET Facts, NEW sel \in Seq(candidates), IsInjective(sel)
    PROVE  Grown(candidates, sel) \in Seq(candidates) /\ IsInjective(Grown(candidates, sel))
<1>1. CASE Open(candidates, sel) = {}
  BY <1>1 DEF Grown
<1>2. CASE Open(candidates, sel) # {}
  <2>1. PICK f : f = Best(candidates, sel)
    OBVIOUS
  <2>2. f \in candidates /\ f \notin ToSet(sel) /\ Grown(candidates, sel) = Append(sel, f)
    BY <1>2, <2>1, BestIsOpen DEF Open, Grown
  <2>3. \A n \in 1..Len(sel) : sel[n] # f
    BY <2>2 DEF ToSet
  <2>4. Append(sel, f) \in Seq(candidates) /\ IsInjective(Append(sel, f))
    BY <2>2, <2>3 DEF IsInjective
  <2> QED
    BY <2>2, <2>4
<1> QED
  BY <1>1, <1>2

LEMMA Smallest ==
    ASSUME NEW S \in SUBSET Nat, S # {}
    PROVE  \E x \in S : \A y \in S : x <= y
<1>1. PICK x \in S : \A y \in S : <<y, x>> \notin OpToRel(<, Nat)
  BY NatLessThanWellFounded, WFMin
<1>2. \A y \in S : ~(y < x)
  BY <1>1 DEF OpToRel
<1> QED
  BY <1>2

\* What selectKnowledge has taken after each turn of its loop.
Course(candidates, taken, limit) ==
    taken = [n \in 0..limit |-> IF n = 0 THEN <<>> ELSE Grown(candidates, taken[n - 1])]

LEMMA CourseExists ==
    ASSUME NEW candidates, NEW limit \in Nat
    PROVE  \E taken : Course(candidates, taken, limit)
<1>1. PICK bad : bad = {n \in Nat : ~\E taken : Course(candidates, taken, n)}
  OBVIOUS
<1>2. SUFFICES ASSUME bad # {} PROVE FALSE
  BY <1>1
<1>3. PICK n \in bad : \A m \in bad : n <= m
  BY <1>1, <1>2, Smallest
<1>4. n \in Nat /\ ~\E taken : Course(candidates, taken, n)
  BY <1>1, <1>3
<1>5. CASE n = 0
  <2>1. PICK taken : taken = [m \in 0..0 |-> <<>>]
    OBVIOUS
  <2>2. taken = [m \in 0..0 |-> IF m = 0 THEN <<>> ELSE Grown(candidates, taken[m - 1])]
    BY <2>1
  <2> QED
    BY <1>4, <1>5, <2>2 DEF Course
<1>6. CASE n # 0
  <2>1. PICK m \in Nat : n = m + 1 /\ m \notin bad
    <3>1. n - 1 \in Nat /\ n = (n - 1) + 1 /\ ~(n <= n - 1)
      BY <1>4, <1>6
    <3> QED
      BY <1>3, <3>1
  <2>2. PICK before : Course(candidates, before, m)
    BY <1>1, <2>1
  <2>3. PICK taken : taken = [k \in 0..n |-> IF k = n THEN Grown(candidates, before[m]) ELSE before[k]]
    OBVIOUS
  <2>4. ASSUME NEW k \in 0..n
        PROVE  taken[k] = IF k = 0 THEN <<>> ELSE Grown(candidates, taken[k - 1])
    <3>1. CASE k = n
      <4>1. taken[k] = Grown(candidates, before[m]) /\ k # 0
        BY <2>1, <2>3, <3>1
      <4>2. m \in 0..n /\ m # n /\ k - 1 = m
        BY <2>1, <3>1
      <4>3. taken[k - 1] = before[m]
        BY <2>3, <4>2
      <4> QED
        BY <4>1, <4>3
    <3>2. CASE k # n
      <4>1. k \in 0..m /\ taken[k] = before[k]
        BY <2>1, <2>3, <3>2
      <4>2. before[k] = IF k = 0 THEN <<>> ELSE Grown(candidates, before[k - 1])
        BY <2>2, <4>1 DEF Course
      <4>3. k # 0 => taken[k - 1] = before[k - 1]
        <5>1. k # 0 => k - 1 \in 0..n /\ k - 1 # n
          BY <2>1, <4>1
        <5> QED
          BY <2>3, <5>1
      <4> QED
        BY <4>1, <4>2, <4>3
    <3> QED
      BY <3>1, <3>2
  <2>5. taken = [k \in 0..n |-> IF k = 0 THEN <<>> ELSE Grown(candidates, taken[k - 1])]
    BY <2>3, <2>4
  <2> QED
    BY <1>4, <2>5 DEF Course
<1> QED
  BY <1>5, <1>6

\* A selection holds candidates, each of them once.
LEMMA SelectFits ==
    ASSUME NEW candidates \in SUBSET Facts, NEW limit \in Nat
    PROVE  Select(candidates, limit) \in Seq(candidates) /\ IsInjective(Select(candidates, limit))
<1> DEFINE Fits(s) == s \in Seq(candidates) /\ IsInjective(s)
<1>1. PICK taken : Course(candidates, taken, limit) /\ Select(candidates, limit) = taken[limit]
  <2>1. PICK some : some = CHOOSE t : t = [n \in 0..limit |-> IF n = 0 THEN <<>> ELSE Grown(candidates, t[n - 1])]
    OBVIOUS
  <2>2. Course(candidates, some, limit)
    BY <2>1, CourseExists DEF Course
  <2>3. Select(candidates, limit) = some[limit]
    BY <2>1 DEF Select
  <2> QED
    BY <2>2, <2>3
<1>2. PICK bad : bad = {n \in 0..limit : ~Fits(taken[n])}
  OBVIOUS
<1>3. bad = {}
  <2> SUFFICES ASSUME bad # {} PROVE FALSE
    OBVIOUS
  <2>1. PICK n \in bad : \A m \in bad : n <= m
    <3>1. bad \in SUBSET Nat
      BY <1>2
    <3> QED
      BY <3>1, Smallest
  <2>2. n \in 0..limit /\ ~Fits(taken[n])
    BY <1>2, <2>1
  <2>3. taken[n] = IF n = 0 THEN <<>> ELSE Grown(candidates, taken[n - 1])
    BY <1>1, <2>2 DEF Course
  <2>4. CASE n = 0
    <3>1. Fits(<<>>)
      BY DEF IsInjective
    <3> QED
      BY <2>2, <2>3, <2>4, <3>1
  <2>5. CASE n # 0
    <3>1. n - 1 \in 0..limit /\ ~(n <= n - 1)
      BY <2>2, <2>5
    <3>2. Fits(taken[n - 1])
      BY <1>2, <2>1, <3>1
    <3> QED
      BY <2>2, <2>3, <2>5, <3>2, GrownFits
  <2> QED
    BY <2>4, <2>5
<1>4. limit \in 0..limit
  OBVIOUS
<1> QED
  BY <1>1, <1>2, <1>3, <1>4

LEMMA SelectionParts ==
    ASSUME NEW listed
    PROVE  \E core, task : /\ Selection(listed) = [core |-> core, task |-> task]
                           /\ core \in Seq(Facts) /\ IsInjective(core)
                           /\ task \in Seq(Facts) /\ IsInjective(task)
                           /\ \A m \in 1..Len(task) : task[m] \notin ToSet(core)
<1>1. PICK core : core = Select(Trusted(listed) \cap Core, CoreLimit)
  OBVIOUS
<1>2. PICK task : task = Select(Trusted(listed) \ ToSet(core), TaskLimit(core))
  OBVIOUS
<1>3. Trusted(listed) \in SUBSET Facts
  BY ContextAssumption DEF Trusted, Filtered
<1>4. CoreLimit \in Nat
  <2>1. \A a \in Nat : a \div 2 \in Int
    OBVIOUS
  <2>2. MaxKnowledgeItems \div 2 \in Int
    BY <2>1, ContextAssumption
  <2> QED
    BY <2>2, ContextAssumption DEF CoreLimit, Smaller, Larger
<1>5. core \in Seq(Trusted(listed) \cap Core) /\ IsInjective(core)
  BY <1>1, <1>3, <1>4, SelectFits
<1>6. TaskLimit(core) \in Nat
  <2>1. Len(core) \in Nat
    BY <1>5
  <2> QED
    BY <2>1, ContextAssumption DEF TaskLimit, Smaller, Larger
<1>7. task \in Seq(Trusted(listed) \ ToSet(core)) /\ IsInjective(task)
  BY <1>2, <1>3, <1>6, SelectFits
<1>8. core \in Seq(Facts) /\ task \in Seq(Facts)
  BY <1>3, <1>5, <1>7
<1>9. Selection(listed) = [core |-> core, task |-> task]
  BY <1>1, <1>2 DEF Selection
<1>10. \A m \in 1..Len(task) : task[m] \notin ToSet(core)
  BY <1>7
<1> QED
  BY <1>5, <1>7, <1>8, <1>9, <1>10

LEMMA SelectionFits ==
    ASSUME NEW listed
    PROVE  LET relevant == Selection(listed).core \o Selection(listed).task
           IN  relevant \in Seq(Facts) /\ IsInjective(relevant)
<1>1. PICK core, task : /\ Selection(listed) = [core |-> core, task |-> task]
                        /\ core \in Seq(Facts) /\ IsInjective(core)
                        /\ task \in Seq(Facts) /\ IsInjective(task)
                        /\ \A m \in 1..Len(task) : task[m] \notin ToSet(core)
  BY SelectionParts
<1>2. IsInjective(core \o task)
  <2>1. \A n \in 1..Len(core), m \in 1..Len(task) : core[n] # task[m]
    <3>1. \A n \in 1..Len(core) : core[n] \in ToSet(core)
      BY <1>1 DEF ToSet
    <3> QED
      BY <1>1, <3>1
  <2>2. /\ \A n, m \in 1..Len(core) : core[n] = core[m] => n = m
        /\ \A n, m \in 1..Len(task) : task[n] = task[m] => n = m
    BY <1>1 DEF IsInjective
  <2>3. PICK both : both = core \o task
    OBVIOUS
  <2>4. /\ both \in Seq(Facts) /\ Len(both) = Len(core) + Len(task)
        /\ DOMAIN both = 1..Len(both)
        /\ Len(core) \in Nat /\ Len(task) \in Nat
        /\ \A n \in 1..Len(both) : both[n] = IF n <= Len(core) THEN core[n] ELSE task[n - Len(core)]
    BY <1>1, <2>3
  <2>5. ASSUME NEW n \in 1..Len(both), NEW m \in 1..Len(both), n < m PROVE both[n] # both[m]
    <3>1. CASE m <= Len(core)
      BY <2>2, <2>4, <2>5, <3>1
    <3>2. CASE n <= Len(core) /\ ~(m <= Len(core))
      <4>1. n \in 1..Len(core) /\ m - Len(core) \in 1..Len(task)
        BY <2>4, <3>2
      <4> QED
        BY <2>1, <2>4, <3>2, <4>1
    <3>3. CASE ~(n <= Len(core))
      <4>1. /\ n - Len(core) \in 1..Len(task) /\ m - Len(core) \in 1..Len(task)
            /\ n - Len(core) # m - Len(core) /\ ~(m <= Len(core))
        BY <2>4, <2>5, <3>3
      <4> QED
        BY <2>2, <2>4, <3>3, <4>1
    <3> QED
      BY <2>4, <3>1, <3>2, <3>3
  <2>6. \A n, m \in 1..Len(both) : both[n] = both[m] => n = m
    <3> SUFFICES ASSUME NEW n \in 1..Len(both), NEW m \in 1..Len(both), n # m PROVE both[n] # both[m]
      OBVIOUS
    <3>1. n < m \/ m < n
      BY <2>4
    <3> QED
      BY <2>5, <3>1
  <2> QED
    BY <2>3, <2>4, <2>6 DEF IsInjective
<1> QED
  BY <1>1, <1>2
-----------------------------------------------------------------------------
\* Expansion.

LEMMA HeaviestIsInt ==
    ASSUME links \in SUBSET Pairs, NEW relevant, NEW f \in Neighbours(relevant)
    PROVE  Heaviest(relevant, f) \in Int
<1>1. PICK E : E = Edges(relevant, f)
  OBVIOUS
<1>2. E # {} /\ E \in SUBSET Pairs
  BY <1>1 DEF Neighbours, Edges
<1>3. IsFiniteSet(E)
  <2>1. IsFiniteSet(Facts \X Facts) /\ E \in SUBSET (Facts \X Facts)
    BY <1>2, ContextAssumption, FS_Product DEF Pairs
  <2> QED
    BY <2>1, FS_Subset
<1>4. PICK W : W = {Weight[p] : p \in E}
  OBVIOUS
<1>5. W \in SUBSET Int /\ W # {}
  <2>1. \A p \in Pairs : Weight[p] \in Int
    BY ContextAssumption DEF Pairs
  <2> QED
    BY <1>2, <1>4, <2>1
<1>6. IsFiniteSet(W)
  <2>1. PICK weigh : weigh = [p \in E |-> Weight[p]]
    OBVIOUS
  <2>2. weigh \in Surjection(E, W)
    BY <1>4, <2>1 DEF Surjection
  <2> QED
    BY <1>3, <2>2, FS_Surjection
<1> QED
  BY <1>1, <1>4, <1>5, <1>6, MaxOfInts DEF Heaviest

\* The places of some neighbours are those of their weights.
LEMMA NeighbourPlaces ==
    ASSUME links \in SUBSET Pairs, NEW relevant, NEW facts \in SUBSET Neighbours(relevant)
    PROVE  /\ IsFiniteSet(facts) /\ Cardinality(facts) \in Nat
           /\ \A f, g \in facts : Place(relevant, facts, f) = Place(relevant, facts, g) => f = g
           /\ \A f \in facts : Place(relevant, facts, f) \in 1..Cardinality(facts)
           /\ \A n \in 1..Cardinality(facts) : \E f \in facts : Place(relevant, facts, f) = n
<1>1. facts \in SUBSET Int /\ IsFiniteSet(facts)
  <2>1. facts \in SUBSET Facts
    BY DEF Neighbours
  <2> QED
    BY <2>1, ContextAssumption, FS_Subset
<1>2. PICK key : key = [f \in facts |-> Heaviest(relevant, f)]
  OBVIOUS
<1>3. \A f \in facts : key[f] = Heaviest(relevant, f) /\ key[f] \in Int
  BY <1>2, HeaviestIsInt
<1>4. \A f \in facts : Place(relevant, facts, f) = Cardinality(UpTo(key, facts, f))
  <2> TAKE f \in facts
  <2>1. \A g \in facts : Beats(key, g, f) <=> Before(relevant, g, f)
    BY <1>3 DEF Beats, Before
  <2>2. UpTo(key, facts, f) = {g \in facts : g = f \/ Before(relevant, g, f)}
    BY <2>1 DEF UpTo
  <2> QED
    BY <2>2 DEF Place
<1> QED
  BY <1>1, <1>3, <1>4, Positions

LEMMA SortedHolds ==
    ASSUME links \in SUBSET Pairs, NEW relevant, NEW facts \in SUBSET Neighbours(relevant)
    PROVE  /\ Sorted(relevant, facts) \in Seq(facts) /\ IsInjective(Sorted(relevant, facts))
           /\ Len(Sorted(relevant, facts)) = Cardinality(facts)
<1>1. PICK size \in Nat : size = Cardinality(facts)
  BY NeighbourPlaces
<1>2. PICK s : s = Sorted(relevant, facts)
  OBVIOUS
<1>3. s = [n \in 1..size |-> CHOOSE f \in facts : Place(relevant, facts, f) = n]
  BY <1>1, <1>2 DEF Sorted
<1>4. \A n \in 1..size : s[n] \in facts /\ Place(relevant, facts, s[n]) = n
  <2> TAKE n \in 1..size
  <2>1. s[n] = CHOOSE f \in facts : Place(relevant, facts, f) = n
    BY <1>3
  <2>2. \E f \in facts : Place(relevant, facts, f) = n
    <3>1. \A m \in 1..Cardinality(facts) : \E f \in facts : Place(relevant, facts, f) = m
      BY NeighbourPlaces, Zenon
    <3> QED
      BY <1>1, <3>1, Zenon
  <2> QED
    BY <2>1, <2>2
<1>5. s \in Seq(facts) /\ Len(s) = size
  BY <1>3, <1>4
<1>6. IsInjective(s)
  BY <1>4, <1>5 DEF IsInjective
<1> QED
  BY <1>1, <1>2, <1>5, <1>6

\* What may stand beside the relevant facts.
Associable(s, relevant, listed) ==
    /\ s \in Seq(Facts) /\ IsInjective(s)
    /\ ToSet(s) \subseteq Meets \cap {r.id : r \in listed}
    /\ ToSet(s) \cap ToSet(relevant) = {}
    /\ Len(s) <= MaxAssociated

LEMMA ExpansionFits ==
    ASSUME links \in SUBSET Pairs, NEW relevant, NEW listed
    PROVE  Associable(Expansion(relevant, listed), relevant, listed)
<1>1. PICK near : near = Neighbours(relevant)
  OBVIOUS
<1>2. PICK first : first = {f \in near : Place(relevant, near, f) <= MaxAssociated}
  OBVIOUS
<1>3. PICK facts : facts = first \cap {r.id : r \in Filtered(listed)}
  OBVIOUS
<1>4. PICK s : s = Sorted(relevant, facts)
  OBVIOUS
<1>5. s = Expansion(relevant, listed)
  BY <1>1, <1>2, <1>3, <1>4 DEF Expansion
<1>6. facts \in SUBSET Neighbours(relevant) /\ facts \in SUBSET first /\ first \in SUBSET near
  BY <1>1, <1>2, <1>3
<1>7. s \in Seq(facts) /\ IsInjective(s) /\ Len(s) = Cardinality(facts)
  BY <1>4, <1>6, SortedHolds
<1>8. Cardinality(facts) <= MaxAssociated
  <2>1. IsFiniteSet(near) /\ Cardinality(near) \in Nat
    BY <1>1, NeighbourPlaces
  <2>2. \A f \in first : Place(relevant, near, f) \in 1..MaxAssociated
    <3> TAKE f \in first
    <3>1. Place(relevant, near, f) \in 1..Cardinality(near) /\ Place(relevant, near, f) <= MaxAssociated
      BY <1>1, <1>2, NeighbourPlaces
    <3> QED
      BY <2>1, <3>1, ContextAssumption
  <2>3. \A f, g \in first : Place(relevant, near, f) = Place(relevant, near, g) => f = g
    <3>1. near \in SUBSET Neighbours(relevant)
      BY <1>1
    <3>2. \A f, g \in near : Place(relevant, near, f) = Place(relevant, near, g) => f = g
      BY <3>1, NeighbourPlaces, Zenon
    <3> QED
      BY <1>6, <3>2
  <2>4. PICK place : place = [f \in first |-> Place(relevant, near, f)]
    OBVIOUS
  <2>5. place \in Injection(first, 1..MaxAssociated)
    BY <2>2, <2>3, <2>4 DEF Injection, IsInjective
  <2>6. IsFiniteSet(1..MaxAssociated) /\ Cardinality(1..MaxAssociated) = MaxAssociated
    <3>1. MaxAssociated \in Nat
      BY ContextAssumption, Zenon
    <3> QED
      BY <3>1, FS_Interval
  <2>7. IsFiniteSet(first) /\ Cardinality(first) <= MaxAssociated
    BY <2>5, <2>6, FS_Injection
  <2>8. Cardinality(facts) <= Cardinality(first) /\ Cardinality(facts) \in Nat /\ Cardinality(first) \in Nat
    BY <1>6, <2>7, FS_Subset, FS_CardinalityType
  <2> QED
    BY <2>7, <2>8, ContextAssumption
<1>9. /\ facts \in SUBSET Facts /\ facts \cap ToSet(relevant) = {}
      /\ facts \subseteq Meets \cap {r.id : r \in listed}
  BY <1>3, <1>6 DEF Neighbours, Filtered
<1>10. ToSet(s) \in SUBSET facts
  BY <1>7 DEF ToSet
<1> QED
  BY <1>5, <1>7, <1>8, <1>9, <1>10 DEF Associable
-----------------------------------------------------------------------------
\* The lists of the context.

\* AssociatedAllowed with what the steps need: the associations are read last, so
\* the facts and their listing, which it compares them with, stay what they were.
ListInv ==
    /\ links \in SUBSET Pairs
    /\ ctx = [turns |-> ctx.turns, working |-> ctx.working, recent |-> ctx.recent,
              invariants |-> ctx.invariants, playbooks |-> ctx.playbooks,
              associated |-> ctx.associated, relevant |-> ctx.relevant]
    /\ ctx.relevant \in Seq(Facts) /\ IsInjective(ctx.relevant)
    /\ Associable(ctx.associated, ctx.relevant, seen.facts)
    /\ Waiting => ctx.associated = <<>>

LEMMA EmptyAssociable ==
    ASSUME NEW relevant, NEW listed
    PROVE  Associable(<<>>, relevant, listed)
<1>1. ToSet(<<>>) = {}
  BY DEF ToSet
<1>2. Len(<<>>) <= MaxAssociated /\ IsInjective(<<>>)
  BY ContextAssumption DEF IsInjective
<1> QED
  BY <1>1, <1>2 DEF Associable

LEMMA FrontFits ==
    ASSUME NEW s \in Seq(Facts), s # <<>>, IsInjective(s)
    PROVE  /\ Front(s) \in Seq(Facts) /\ IsInjective(Front(s))
           /\ ToSet(Front(s)) \subseteq ToSet(s) /\ Len(Front(s)) <= Len(s)
<1>1. Len(s) \in Nat /\ Len(s) > 0
  BY EmptySeq, LenProperties
<1>2. PICK m \in Nat : Len(s) = m + 1
  <2>1. Len(s) - 1 \in Nat /\ Len(s) = (Len(s) - 1) + 1
    BY <1>1
  <2> QED
    BY <2>1, Zenon
<1>3. PICK r : r = SubSeq(s, 1, m)
  OBVIOUS
<1>4. r \in Seq(Facts) /\ Len(r) = m /\ \A n \in 1..m : r[n] = s[n]
  BY <1>2, <1>3
<1>5. r = Front(s)
  BY <1>2, <1>3 DEF Front
<1>6. \A n \in 1..m : n \in 1..Len(s)
  BY <1>2
<1>7. DOMAIN r = 1..m /\ DOMAIN s = 1..Len(s)
  BY <1>4
<1>8. IsInjective(r)
  BY <1>4, <1>6, <1>7 DEF IsInjective
<1>9. ToSet(r) \subseteq ToSet(s)
  BY <1>4, <1>6, <1>7 DEF ToSet
<1> QED
  BY <1>2, <1>4, <1>5, <1>8, <1>9

LEMMA InitListInv == Init => ListInv
<1> SUFFICES ASSUME Init PROVE ListInv
  OBVIOUS
<1>1. ctx.associated = <<>> /\ ctx.relevant = <<>> /\ links \in SUBSET Pairs
  BY DEF Init, EmptyCtx
<1>2. <<>> \in Seq(Facts) /\ IsInjective(<<>>)
  BY DEF IsInjective
<1> QED
  BY <1>1, <1>2, EmptyAssociable DEF Init, EmptyCtx, ListInv

\* Steps that leave the facts, the associated ones and the listing as they are.
LEMMA ListsStay ==
    ASSUME ListInv, links' \in SUBSET Pairs, seen'.facts = seen.facts, Waiting' => Waiting,
           NEW c, ctx' = c,
           c = [turns |-> c.turns, working |-> c.working, recent |-> c.recent,
                invariants |-> c.invariants, playbooks |-> c.playbooks,
                associated |-> ctx.associated, relevant |-> ctx.relevant]
    PROVE  ListInv'
<1>1. ctx'.associated = ctx.associated /\ ctx'.relevant = ctx.relevant
  OBVIOUS
<1>2. /\ links' \in SUBSET Pairs
      /\ ctx' = [turns |-> ctx'.turns, working |-> ctx'.working, recent |-> ctx'.recent,
                 invariants |-> ctx'.invariants, playbooks |-> ctx'.playbooks,
                 associated |-> ctx'.associated, relevant |-> ctx'.relevant]
  BY <1>1
<1>3. Associable(ctx.associated, ctx.relevant, seen.facts)'
  BY <1>1 DEF ListInv, Associable
<1>4. Waiting' => ctx'.associated = <<>>
  BY <1>1 DEF ListInv
<1> QED
  BY <1>1, <1>2, <1>3, <1>4 DEF ListInv

LEMMA StepListInv == IInv /\ ListInv /\ [Next]_vars => ListInv'
<1> SUFFICES ASSUME IInv, ListInv, [Next]_vars PROVE ListInv'
  OBVIOUS
<1>0. /\ ctx = [turns |-> ctx.turns, working |-> ctx.working, recent |-> ctx.recent,
                invariants |-> ctx.invariants, playbooks |-> ctx.playbooks,
                associated |-> ctx.associated, relevant |-> ctx.relevant]
      /\ seen = [turns |-> seen.turns, memory |-> seen.memory, facts |-> seen.facts]
      /\ links \in SUBSET Pairs
  BY DEF IInv, ListInv
<1>1. ASSUME UNCHANGED vars PROVE ListInv'
  BY <1>1 DEF vars, ListInv, Associable, Waiting
<1>2. CASE ReadTurns
  <2>1. ctx' = [ctx EXCEPT !.turns = (Archived + 1)..stored] /\ links' = links
    BY <1>2 DEF ReadTurns, store
  <2>2. seen'.facts = seen.facts
    BY <1>0, <1>2 DEF ReadTurns
  <2> QED
    BY <1>0, <1>2, <2>1, <2>2, ListsStay DEF ReadTurns, Waiting
<1>3. CASE ReadWorkingMemory
  <2>1. PICK memory : seen' = [seen EXCEPT !.memory = memory]
    BY <1>3 DEF ReadWorkingMemory
  <2>2. PICK working, recent : ctx' = [[ctx EXCEPT !.working = working] EXCEPT !.recent = recent]
    BY <1>3 DEF ReadWorkingMemory
  <2>3. seen'.facts = seen.facts
    BY <1>0, <2>1
  <2>4. links' = links /\ pc = "memory" /\ pc' = "knowledge"
    BY <1>3 DEF ReadWorkingMemory, store
  <2>5. PICK c : c = [turns |-> ctx.turns, working |-> working, recent |-> recent,
                      invariants |-> ctx.invariants, playbooks |-> ctx.playbooks,
                      associated |-> ctx.associated, relevant |-> ctx.relevant]
    OBVIOUS
  <2>6. ctx' = c
    <3>1. PICK old : old = [turns |-> ctx.turns, working |-> working, recent |-> ctx.recent,
                            invariants |-> ctx.invariants, playbooks |-> ctx.playbooks,
                            associated |-> ctx.associated, relevant |-> ctx.relevant]
      OBVIOUS
    <3>2. [ctx EXCEPT !.working = working] = old
      BY <1>0, <3>1
    <3>3. ctx' = [old EXCEPT !.recent = recent]
      BY <2>2, <3>2, Zenon
    <3> QED
      BY <2>5, <3>1, <3>3
  <2>7. Waiting' => Waiting
    BY <2>4 DEF Waiting
  <2>8. c = [turns |-> c.turns, working |-> c.working, recent |-> c.recent,
             invariants |-> c.invariants, playbooks |-> c.playbooks,
             associated |-> ctx.associated, relevant |-> ctx.relevant]
    BY <2>5
  <2> QED
    BY <1>0, <2>3, <2>4, <2>6, <2>7, <2>8, ListsStay
<1>4. CASE ReadKnowledge
  <2>1. PICK listed : /\ seen' = [seen EXCEPT !.facts = listed]
                      /\ ctx' = [ctx EXCEPT !.relevant = Selection(listed).core \o Selection(listed).task]
    BY <1>4 DEF ReadKnowledge
  <2>2. PICK relevant : relevant = Selection(listed).core \o Selection(listed).task
    OBVIOUS
  <2>3. relevant \in Seq(Facts) /\ IsInjective(relevant)
    BY <2>2, SelectionFits
  <2>4. ctx' = [turns |-> ctx.turns, working |-> ctx.working, recent |-> ctx.recent,
                invariants |-> ctx.invariants, playbooks |-> ctx.playbooks,
                associated |-> ctx.associated, relevant |-> relevant]
    BY <1>0, <2>1, <2>2
  <2>5. ctx'.associated = <<>> /\ ctx'.relevant = relevant
    <3>1. ctx.associated = <<>>
      BY <1>4 DEF ReadKnowledge, ListInv, Waiting
    <3> QED
      BY <2>4, <3>1
  <2>6. Associable(ctx.associated, ctx.relevant, seen.facts)'
    BY <2>5, EmptyAssociable
  <2>7. links' = links
    BY <1>4 DEF ReadKnowledge, store
  <2> QED
    BY <1>0, <2>3, <2>4, <2>5, <2>6, <2>7 DEF ListInv
<1>5. CASE ReadAssociations
  <2>1. PICK more : more = Expansion(ctx.relevant, seen.facts)
    OBVIOUS
  <2>2. Associable(more, ctx.relevant, seen.facts)
    BY <1>0, <2>1, ExpansionFits
  <2>3. ctx' = [turns |-> ctx.turns, working |-> ctx.working, recent |-> ctx.recent,
                invariants |-> ctx.invariants, playbooks |-> ctx.playbooks,
                associated |-> more, relevant |-> ctx.relevant]
    BY <1>0, <1>5, <2>1 DEF ReadAssociations
  <2>4. links' = links /\ seen' = seen /\ ~Waiting'
    BY <1>5 DEF ReadAssociations, store, Waiting
  <2>5. Associable(ctx.associated, ctx.relevant, seen.facts)'
    BY <2>2, <2>3, <2>4
  <2>6. ctx'.relevant \in Seq(Facts) /\ IsInjective(ctx'.relevant)
    BY <2>3 DEF ListInv
  <2> QED
    BY <1>0, <2>3, <2>4, <2>5, <2>6 DEF ListInv
<1>6. CASE DropTurn
  <2>1. PICK turns : ctx' = [ctx EXCEPT !.turns = turns]
    BY <1>6 DEF DropTurn, Trimmed
  <2> QED
    BY <1>0, <1>6, <2>1, ListsStay DEF DropTurn, Trimmed, store, Waiting
<1>7. CASE DropSummary
  <2>1. PICK recent : ctx' = [ctx EXCEPT !.recent = recent]
    BY <1>7 DEF DropSummary, Trimmed
  <2> QED
    BY <1>0, <1>7, <2>1, ListsStay DEF DropSummary, Trimmed, store, Waiting
<1>8. CASE DropInvariant
  <2>1. PICK invariants : ctx' = [ctx EXCEPT !.invariants = invariants]
    BY <1>8 DEF DropInvariant, Trimmed
  <2> QED
    BY <1>0, <1>8, <2>1, ListsStay DEF DropInvariant, Trimmed, store, Waiting
<1>9. CASE DropPlaybook
  <2>1. PICK playbooks : ctx' = [ctx EXCEPT !.playbooks = playbooks]
    BY <1>9 DEF DropPlaybook, Trimmed
  <2> QED
    BY <1>0, <1>9, <2>1, ListsStay DEF DropPlaybook, Trimmed, store, Waiting
<1>10. CASE DropAssociated
  <2>1. PICK rest : rest = Front(ctx.associated)
    OBVIOUS
  <2>2. ctx.associated # <<>>
    BY <1>10 DEF DropAssociated, NoAssociated
  <2>3. Associable(rest, ctx.relevant, seen.facts)
    <3>1. Associable(ctx.associated, ctx.relevant, seen.facts)
      BY DEF ListInv
    <3>2. /\ rest \in Seq(Facts) /\ IsInjective(rest)
          /\ ToSet(rest) \subseteq ToSet(ctx.associated) /\ Len(rest) <= Len(ctx.associated)
      BY <2>1, <2>2, <3>1, FrontFits DEF Associable
    <3>3. Len(rest) <= MaxAssociated
      BY <3>1, <3>2, ContextAssumption DEF Associable
    <3> QED
      BY <3>1, <3>2, <3>3 DEF Associable
  <2>4. ctx' = [turns |-> ctx.turns, working |-> ctx.working, recent |-> ctx.recent,
                invariants |-> ctx.invariants, playbooks |-> ctx.playbooks,
                associated |-> rest, relevant |-> ctx.relevant]
    BY <1>0, <1>10, <2>1 DEF DropAssociated, Trimmed
  <2>5. links' = links /\ seen' = seen /\ ~Waiting'
    BY <1>10 DEF DropAssociated, NoAssociated, NoPlaybooks, NoInvariants, Trimmed, Over, store, Waiting
  <2>6. Associable(ctx.associated, ctx.relevant, seen.facts)'
    BY <2>3, <2>4, <2>5
  <2>7. ctx'.relevant \in Seq(Facts) /\ IsInjective(ctx'.relevant)
    BY <2>4 DEF ListInv
  <2> QED
    BY <1>0, <2>4, <2>5, <2>6, <2>7 DEF ListInv
<1>11. CASE DropFact
  <2>1. PICK rest : rest = Front(ctx.relevant)
    OBVIOUS
  <2>2. ctx.associated = <<>> /\ ctx.relevant # <<>>
    BY <1>11 DEF DropFact, NoAssociated, NoFacts
  <2>3. rest \in Seq(Facts) /\ IsInjective(rest)
    BY <2>1, <2>2, FrontFits DEF ListInv
  <2>4. ctx' = [turns |-> ctx.turns, working |-> ctx.working, recent |-> ctx.recent,
                invariants |-> ctx.invariants, playbooks |-> ctx.playbooks,
                associated |-> ctx.associated, relevant |-> rest]
    BY <1>0, <1>11, <2>1 DEF DropFact, Trimmed
  <2>5. links' = links /\ ~Waiting'
    BY <1>11 DEF DropFact, Trimmed, Over, store, Waiting
  <2>6. Associable(ctx.associated, ctx.relevant, seen.facts)'
    BY <2>2, <2>4, EmptyAssociable
  <2> QED
    BY <1>0, <2>3, <2>4, <2>5, <2>6 DEF ListInv
<1>12. CASE Return
  BY <1>0, <1>12, ListsStay DEF Return, store, Waiting
<1>13. CASE StoreTurn \/ CommitCompaction \/ ChangeFact
  <2>1. links' = links /\ ctx' = ctx /\ seen' = seen /\ pc' = pc
    BY <1>13 DEF StoreTurn, CommitCompaction, ChangeFact, Others
  <2> QED
    BY <1>0, <2>1, ListsStay DEF Waiting
<1>14. CASE ChangeAssociation
  <2>1. links' \in SUBSET Pairs
    BY <1>0, <1>14 DEF ChangeAssociation
  <2>2. ctx' = ctx /\ seen' = seen /\ pc' = pc
    BY <1>14 DEF ChangeAssociation, Others
  <2> QED
    BY <1>0, <2>1, <2>2, ListsStay DEF Waiting
<1> QED
  BY <1>1, <1>2, <1>3, <1>4, <1>5, <1>6, <1>7, <1>8, <1>9, <1>10, <1>11, <1>12, <1>13, <1>14 DEF Next

\* Whichever associations stand when they are read, a fact that comes in by one has
\* passed the filters of the call, was in the listing the selection was made from,
\* and stands in the context once; and no more than the limit come in.
THEOREM AssociationsPassFilters == Spec => []AssociatedAllowed
<1>1. ListInv => AssociatedAllowed
  BY DEF ListInv, Associable, AssociatedAllowed
<1> QED
  BY <1>1, InitInv, StepInv, InitListInv, StepListInv, PTL DEF Spec
-----------------------------------------------------------------------------
\* Sums of sizes.

Sums(sum, domain, sizes) ==
    sum = [T \in domain |-> IF T = {} THEN 0
                            ELSE sizes[CHOOSE x \in T : TRUE] + sum[T \ {CHOOSE x \in T : TRUE}]]

NoLarger(S, n) == {T \in SUBSET S : Cardinality(T) <= n}

\* How membership in NoLarger is read.
LEMMA NoLargerSize ==
    ASSUME NEW S, IsFiniteSet(S)
    PROVE  /\ Cardinality(S) \in Nat /\ NoLarger(S, Cardinality(S)) = SUBSET S
           /\ \A T \in NoLarger(S, 0) : T = {}
           /\ \A n \in Nat : {} \in NoLarger(S, n) /\ NoLarger(S, n) \subseteq NoLarger(S, n + 1)
           /\ \A n \in Nat : \A T \in NoLarger(S, n + 1) : \A x \in T : T \ {x} \in NoLarger(S, n)
<1>1. \A T \in SUBSET S : /\ IsFiniteSet(T) /\ Cardinality(T) \in Nat /\ Cardinality(T) <= Cardinality(S)
                          /\ Cardinality(T) = 0 <=> T = {}
  BY FS_Subset, FS_CardinalityType, FS_EmptySet
<1>2. \A T, n : T \in NoLarger(S, n) <=> T \in SUBSET S /\ Cardinality(T) <= n
  BY DEF NoLarger
<1>3. Cardinality(S) \in Nat
  BY <1>1
<1>4. NoLarger(S, Cardinality(S)) = SUBSET S
  BY <1>1, <1>2
<1>5. ASSUME NEW T \in NoLarger(S, 0) PROVE T = {}
  <2>1. T \in SUBSET S /\ Cardinality(T) <= 0
    BY <1>2
  <2>2. Cardinality(T) \in Nat /\ (Cardinality(T) = 0 <=> T = {})
    BY <1>1, <2>1
  <2> QED
    BY <2>1, <2>2
<1>6. ASSUME NEW n \in Nat PROVE {} \in NoLarger(S, n)
  <2>1. Cardinality({}) <= n
    BY FS_EmptySet
  <2> QED
    BY <1>2, <2>1
<1>7. ASSUME NEW n \in Nat, NEW T \in NoLarger(S, n) PROVE T \in NoLarger(S, n + 1)
  <2>1. T \in SUBSET S /\ Cardinality(T) <= n
    BY <1>2
  <2>2. Cardinality(T) \in Nat
    BY <1>1, <2>1
  <2>3. Cardinality(T) <= n + 1
    BY <2>1, <2>2
  <2> QED
    BY <1>2, <2>1, <2>3
<1>8. ASSUME NEW n \in Nat, NEW T \in NoLarger(S, n + 1), NEW x \in T PROVE T \ {x} \in NoLarger(S, n)
  <2>1. T \in SUBSET S /\ Cardinality(T) <= n + 1
    BY <1>2
  <2>2. IsFiniteSet(T) /\ Cardinality(T) \in Nat
    BY <1>1, <2>1
  <2>3. Cardinality(T \ {x}) = Cardinality(T) - 1
    BY <2>2, FS_RemoveElement
  <2>4. Cardinality(T \ {x}) <= n
    BY <2>1, <2>2, <2>3
  <2>5. T \ {x} \in SUBSET S
    BY <2>1
  <2> QED
    BY <1>2, <2>4, <2>5
<1> QED
  BY <1>3, <1>4, <1>5, <1>6, <1>7, <1>8

LEMMA SumsExist ==
    ASSUME NEW S, IsFiniteSet(S), NEW sizes
    PROVE  \E sum : Sums(sum, SUBSET S, sizes)
<1>1. PICK bad : bad = {n \in Nat : ~\E sum : Sums(sum, NoLarger(S, n), sizes)}
  OBVIOUS
<1>3. bad = {}
  <2> SUFFICES ASSUME bad # {} PROVE FALSE
    OBVIOUS
  <2>1. PICK n \in bad : \A m \in bad : n <= m
    BY <1>1, Smallest
  <2>2. n \in Nat /\ ~\E sum : Sums(sum, NoLarger(S, n), sizes)
    BY <1>1, <2>1
  <2>3. CASE n = 0
    <3>1. \A T \in NoLarger(S, 0) : T = {}
      BY NoLargerSize
    <3>2. PICK sum : sum = [T \in NoLarger(S, 0) |-> 0]
      OBVIOUS
    <3>3. Sums(sum, NoLarger(S, 0), sizes)
      BY <3>1, <3>2 DEF Sums
    <3> QED
      BY <2>2, <2>3, <3>3
  <2>4. CASE n # 0
    <3>1. PICK m \in Nat : n = m + 1 /\ m \notin bad
      <4>1. n - 1 \in Nat /\ n = (n - 1) + 1 /\ ~(n <= n - 1)
        BY <2>2, <2>4
      <4> QED
        BY <2>1, <4>1
    <3>2. PICK before : Sums(before, NoLarger(S, m), sizes)
      BY <1>1, <3>1
    <3>3. PICK sum : sum = [T \in NoLarger(S, n) |->
                              IF T \in NoLarger(S, m) THEN before[T]
                              ELSE sizes[CHOOSE x \in T : TRUE] + before[T \ {CHOOSE x \in T : TRUE}]]
      OBVIOUS
    <3>4. ASSUME NEW T \in NoLarger(S, n), T # {}
          PROVE  T \ {CHOOSE x \in T : TRUE} \in NoLarger(S, m) \cap NoLarger(S, n)
      <4>1. PICK x : x = CHOOSE y \in T : TRUE
        OBVIOUS
      <4>2. x \in T
        BY <3>4, <4>1
      <4>3. T \ {x} \in NoLarger(S, m)
        BY <3>1, <4>2, NoLargerSize
      <4>4. T \ {x} \in NoLarger(S, n)
        BY <3>1, <4>3, NoLargerSize
      <4> QED
        BY <4>1, <4>3, <4>4
    <3>5. {} \in NoLarger(S, m)
      BY <3>1, NoLargerSize
    <3>7. ASSUME NEW T \in NoLarger(S, n)
          PROVE  sum[T] = IF T = {} THEN 0
                          ELSE sizes[CHOOSE x \in T : TRUE] + sum[T \ {CHOOSE x \in T : TRUE}]
      <4>1. CASE T = {}
        <5>1. sum[T] = before[T] /\ before[T] = 0
          BY <3>2, <3>3, <3>5, <4>1 DEF Sums
        <5> QED
          BY <4>1, <5>1
      <4>2. CASE T # {}
        <5>1. PICK rest : rest = T \ {CHOOSE x \in T : TRUE}
          OBVIOUS
        <5>2. sum[rest] = before[rest]
          BY <3>3, <3>4, <4>2, <5>1
        <5>3. sum[T] = sizes[CHOOSE x \in T : TRUE] + before[rest]
          BY <3>2, <3>3, <4>2, <5>1 DEF Sums
        <5> QED
          BY <4>2, <5>1, <5>2, <5>3
      <4> QED
        BY <4>1, <4>2
    <3>8. Sums(sum, NoLarger(S, n), sizes)
      <4>1. sum = [T \in NoLarger(S, n) |-> sum[T]]
        BY <3>3
      <4>2. [T \in NoLarger(S, n) |-> sum[T]] =
                [T \in NoLarger(S, n) |-> IF T = {} THEN 0
                    ELSE sizes[CHOOSE x \in T : TRUE] + sum[T \ {CHOOSE x \in T : TRUE}]]
        BY <3>7, Zenon
      <4> QED
        BY <4>1, <4>2, Zenon DEF Sums
    <3> QED
      BY <2>2, <3>8
  <2> QED
    BY <2>3, <2>4
<1>4. Cardinality(S) \in Nat /\ NoLarger(S, Cardinality(S)) = SUBSET S
  BY NoLargerSize, Zenon
<1>5. \E sum : Sums(sum, NoLarger(S, Cardinality(S)), sizes)
  BY <1>1, <1>3, <1>4
<1> QED
  BY <1>4, <1>5

LEMMA TotalSums ==
    ASSUME NEW S, IsFiniteSet(S), NEW sizes
    PROVE  \E sum : Sums(sum, SUBSET S, sizes) /\ Total(S, sizes) = sum[S]
<1>1. PICK sum : sum = CHOOSE s : Sums(s, SUBSET S, sizes)
  OBVIOUS
<1>2. Total(S, sizes) = (CHOOSE s : Sums(s, SUBSET S, sizes))[S]
  BY DEF Total, SumFunctionOnSet, FoldFunctionOnSet, MapThenFoldSet, Sums
<1> QED
  BY <1>1, <1>2, SumsExist

LEMMA TotalOfNone == ASSUME NEW sizes PROVE Total({}, sizes) = 0
<1>1. PICK sum : Sums(sum, SUBSET {}, sizes) /\ Total({}, sizes) = sum[{}]
  BY TotalSums, FS_EmptySet
<1>2. sum[{}] = 0
  BY <1>1 DEF Sums
<1> QED
  BY <1>1, <1>2

LEMMA TotalIsNat ==
    ASSUME NEW S, IsFiniteSet(S), NEW sizes, \A x \in S : sizes[x] \in Nat
    PROVE  Total(S, sizes) \in Nat
<1>1. PICK sum : Sums(sum, SUBSET S, sizes) /\ Total(S, sizes) = sum[S]
  BY TotalSums
<1>2. \A T \in SUBSET S : IsFiniteSet(T) /\ Cardinality(T) \in Nat
  BY FS_Subset, FS_CardinalityType
<1>3. PICK bad : bad = {n \in Nat : \E T \in SUBSET S : Cardinality(T) = n /\ sum[T] \notin Nat}
  OBVIOUS
<1>4. bad = {}
  <2> SUFFICES ASSUME bad # {} PROVE FALSE
    OBVIOUS
  <2>1. PICK n \in bad : \A m \in bad : n <= m
    BY <1>3, Smallest
  <2>2. PICK T \in SUBSET S : Cardinality(T) = n /\ sum[T] \notin Nat
    BY <1>3, <2>1
  <2>3. PICK x : x = CHOOSE y \in T : TRUE
    OBVIOUS
  <2>4. sum[T] = IF T = {} THEN 0 ELSE sizes[x] + sum[T \ {x}]
    BY <1>1, <2>3 DEF Sums
  <2>5. T # {} /\ x \in T
    BY <2>2, <2>3, <2>4
  <2>6. Cardinality(T \ {x}) = n - 1 /\ T \ {x} \in SUBSET S /\ n \in Nat
    BY <1>2, <2>2, <2>5, FS_RemoveElement
  <2>7. n - 1 \in Nat /\ ~(n <= n - 1)
    BY <1>2, <2>6
  <2>8. sum[T \ {x}] \in Nat
    BY <1>3, <2>1, <2>6, <2>7
  <2>9. sizes[x] \in Nat
    BY <2>5
  <2> QED
    BY <2>2, <2>4, <2>5, <2>8, <2>9
<1>5. sum[S] \in Nat
  BY <1>2, <1>3, <1>4
<1> QED
  BY <1>1, <1>5
-----------------------------------------------------------------------------
\* Trimming.

\* What is counted is there to be counted, and no critical invariant is missing.
Countable(c) ==
    /\ c.turns \subseteq DOMAIN TurnSize /\ c.recent \in Seq(Nat)
    /\ c.invariants \subseteq DOMAIN Invariants /\ Critical \subseteq c.invariants
    /\ c.playbooks \subseteq DOMAIN Playbooks
    /\ c.associated \in Seq(Facts) /\ c.relevant \in Seq(Facts)

LEMMA Counted ==
    ASSUME NEW c, Countable(c)
    PROVE  /\ Total(c.turns, TurnSize) \in Nat /\ WorkingTokens(c) \in Nat
           /\ SummarySize * Len(c.recent) \in Int
           /\ InvariantTokens(c.invariants) \in Nat /\ Total(c.playbooks, Playbooks) \in Nat
           /\ FactTokens(c.associated) \in Nat /\ FactTokens(c.relevant) \in Nat
           /\ Estimate(c) \in Int
<1>1. /\ IsFiniteSet(c.turns) /\ IsFiniteSet(c.invariants) /\ IsFiniteSet(c.playbooks)
      /\ IsFiniteSet(ToSet(c.associated)) /\ IsFiniteSet(ToSet(c.relevant))
  <2>1. /\ DOMAIN TurnSize = 1..Len(TurnSize) /\ Len(TurnSize) \in Int
        /\ DOMAIN Invariants = 1..Len(Invariants) /\ Len(Invariants) \in Int
        /\ DOMAIN Playbooks = 1..Len(Playbooks) /\ Len(Playbooks) \in Int
    BY ContextAssumption
  <2>2. IsFiniteSet(DOMAIN TurnSize) /\ IsFiniteSet(DOMAIN Invariants) /\ IsFiniteSet(DOMAIN Playbooks)
    BY <2>1, FS_Interval
  <2>3. ToSet(c.associated) \subseteq Facts /\ ToSet(c.relevant) \subseteq Facts
    BY DEF Countable, ToSet
  <2> QED
    BY <2>2, <2>3, ContextAssumption, FS_Subset DEF Countable
<1>2. Total(c.turns, TurnSize) \in Nat
  <2>1. \A t \in c.turns : TurnSize[t] \in Nat
    BY ContextAssumption DEF Countable
  <2> QED
    BY <1>1, <2>1, TotalIsNat
<1>3. InvariantTokens(c.invariants) \in Nat
  <2>1. PICK sizes : sizes = [i \in DOMAIN Invariants |-> Invariants[i].size]
    OBVIOUS
  <2>2. \A i \in DOMAIN Invariants : Invariants[i].size \in Nat
    <3>1. Invariants \in Seq([size : Nat, critical : BOOLEAN])
      BY ContextAssumption, Zenon
    <3>2. DOMAIN Invariants = 1..Len(Invariants)
      BY ContextAssumption
    <3>3. \A i \in 1..Len(Invariants) : Invariants[i] \in [size : Nat, critical : BOOLEAN]
      BY <3>1, ElementOfSeq, Zenon
    <3>4. \A v \in [size : Nat, critical : BOOLEAN] : v.size \in Nat
      OBVIOUS
    <3> QED
      BY <3>2, <3>3, <3>4, Zenon
  <2>3. \A i \in c.invariants : sizes[i] \in Nat
    BY <2>1, <2>2 DEF Countable
  <2> QED
    BY <1>1, <2>1, <2>3, TotalIsNat DEF InvariantTokens
<1>4. Total(c.playbooks, Playbooks) \in Nat
  <2>1. \A i \in c.playbooks : Playbooks[i] \in Nat
    BY ContextAssumption DEF Countable
  <2> QED
    BY <1>1, <2>1, TotalIsNat
<1>5. FactTokens(c.associated) \in Nat /\ FactTokens(c.relevant) \in Nat
  <2>1. \A f \in Facts : FactSize[f] \in Nat
    BY ContextAssumption
  <2>2. /\ \A f \in ToSet(c.associated) : FactSize[f] \in Nat
        /\ \A f \in ToSet(c.relevant) : FactSize[f] \in Nat
    BY <2>1 DEF Countable, ToSet
  <2> QED
    BY <1>1, <2>2, TotalIsNat DEF FactTokens
<1>6. WorkingTokens(c) \in Nat
  BY ContextAssumption DEF WorkingTokens
<1>7. SummarySize * Len(c.recent) \in Int
  <2>1. Len(c.recent) \in Int /\ SummarySize \in Int
    BY ContextAssumption DEF Countable
  <2> QED
    BY <2>1
<1>8. Estimate(c) \in Int
  BY <1>2, <1>3, <1>4, <1>5, <1>6, <1>7 DEF Estimate
<1> QED
  BY <1>2, <1>3, <1>4, <1>5, <1>6, <1>7, <1>8

\* When only facts are left, they are all that is counted beside what is kept.
LEMMA OnlyFactsLeft ==
    ASSUME Countable(ctx), NoAssociated
    PROVE  Estimate(ctx) = KeptTokens + FactTokens(ctx.relevant)
<1>1. ctx.turns = {} /\ ctx.recent = <<>> /\ ctx.playbooks = {} /\ ctx.associated = <<>>
  BY DEF NoAssociated, NoPlaybooks, NoInvariants, NoSummaries, NoTurns
<1>2. ctx.invariants = Critical
  <2>1. Removable(ctx.invariants) = {}
    BY DEF NoAssociated, NoPlaybooks, NoInvariants
  <2> QED
    BY <2>1 DEF Removable, Countable
<1>3. ToSet(ctx.associated) = {}
  BY <1>1 DEF ToSet
<1>4. /\ Total(ctx.turns, TurnSize) = 0 /\ Total(ctx.playbooks, Playbooks) = 0
      /\ FactTokens(ctx.associated) = 0
  BY <1>1, <1>3, TotalOfNone DEF FactTokens
<1>5. SummarySize * Len(ctx.recent) = 0
  BY <1>1, ContextAssumption
<1>6. KeptTokens = WorkingTokens(ctx) + InvariantTokens(ctx.invariants)
  BY <1>2 DEF KeptTokens
<1>7. PICK w, i, f : w = WorkingTokens(ctx) /\ i = InvariantTokens(ctx.invariants) /\ f = FactTokens(ctx.relevant)
  OBVIOUS
<1>8. Estimate(ctx) = 0 + w + 0 + i + 0 + 0 + f
  BY <1>4, <1>5, <1>7 DEF Estimate
<1>9. w \in Int /\ i \in Int /\ f \in Int
  BY <1>7, Counted
<1> QED
  BY <1>6, <1>7, <1>8, <1>9

\* As far as the facts reach, they are those of the core.
Begins(relevant, core) == \A n \in 1..Len(core) : n <= Len(relevant) => relevant[n] = core[n]

HoldsCore == Len(picked.core) <= Len(ctx.relevant)

CoreFits == KeptTokens + FactTokens(picked.core) <= budget

\* TrimmedToFit speaks of the end of the trimming; this is what each step of it keeps.
FitInv ==
    /\ stored <= Len(TurnSize) /\ budget \in Int /\ lastDropped \in Int
    /\ Countable(ctx)
    /\ picked.core \in Seq(Facts) /\ Begins(ctx.relevant, picked.core)
    /\ Waiting => lastDropped = 0 /\ HoldsCore
    /\ CoreFits => HoldsCore
    /\ lastDropped > 0 => Estimate(ctx) + lastDropped > budget
    /\ pc = "done" => Estimate(ctx) <= budget \/ Estimate(ctx) = KeptTokens

LEMMA FitInvIsEnough == FitInv => TrimmedToFit
<1> SUFFICES ASSUME FitInv, pc = "done" PROVE TrimmedToFit
  BY DEF TrimmedToFit
<1>1. ASSUME CoreFits PROVE ToSet(picked.core) \subseteq ToSet(ctx.relevant)
  <2>1. /\ Len(picked.core) <= Len(ctx.relevant) /\ Begins(ctx.relevant, picked.core)
        /\ picked.core \in Seq(Facts) /\ ctx.relevant \in Seq(Facts)
    BY <1>1 DEF FitInv, HoldsCore, Countable
  <2>2. \A n \in 1..Len(picked.core) : n \in 1..Len(ctx.relevant) /\ ctx.relevant[n] = picked.core[n]
    BY <2>1 DEF Begins
  <2> QED
    BY <2>1, <2>2 DEF ToSet
<1> QED
  BY <1>1 DEF FitInv, TrimmedToFit, CoreFits

\* A step between two reads.
LEMMA ReadFits ==
    ASSUME Waiting', stored' <= Len(TurnSize), budget' \in Int, lastDropped' = 0,
           Countable(ctx)', picked'.core \in Seq(Facts), Begins(ctx.relevant, picked.core)', HoldsCore'
    PROVE  FitInv'
<1>1. pc' # "done"
  BY DEF Waiting
<1> QED
  BY <1>1 DEF FitInv

\* A step of the trimming.
LEMMA TrimFits ==
    ASSUME FitInv, Over, NEW c, Trimmed(c), Countable(c), c.working = ctx.working,
           Begins(c.relevant, picked.core), CoreFits => Len(picked.core) <= Len(c.relevant)
    PROVE  FitInv'
<1>1. /\ ctx' = c /\ lastDropped' = Estimate(ctx) - Estimate(c) /\ Estimate(ctx) > budget
      /\ UNCHANGED <<stored, pc, budget, picked>> /\ pc = "trim"
  BY DEF Trimmed, Over, store
<1>2. Estimate(ctx) \in Int /\ Estimate(c) \in Int
  BY Counted DEF FitInv
<1>3. lastDropped' \in Int /\ Estimate(ctx)' + lastDropped' > budget'
  <2>1. Estimate(ctx)' = Estimate(c)
    BY <1>1
  <2>2. budget \in Int
    BY DEF FitInv
  <2> QED
    BY <1>1, <1>2, <2>1, <2>2
<1>4. CoreFits' <=> CoreFits
  BY <1>1 DEF CoreFits, KeptTokens, WorkingTokens
<1>5. Countable(ctx)' /\ Begins(ctx.relevant, picked.core)'
  BY <1>1
<1>6. CoreFits' => HoldsCore'
  BY <1>1, <1>4 DEF HoldsCore
<1> QED
  BY <1>1, <1>3, <1>5, <1>6 DEF FitInv, Waiting

LEMMA InitFitInv == Init => FitInv
<1> SUFFICES ASSUME Init PROVE FitInv
  OBVIOUS
<1>1. /\ ctx.turns = {} /\ ctx.recent = <<>> /\ ctx.invariants = DOMAIN Invariants
      /\ ctx.playbooks = DOMAIN Playbooks /\ ctx.associated = <<>> /\ ctx.relevant = <<>>
  BY DEF Init, EmptyCtx
<1>2. Countable(ctx)
  <2>1. <<>> \in Seq(Nat) /\ <<>> \in Seq(Facts) /\ Critical \subseteq DOMAIN Invariants
    BY DEF Critical
  <2> QED
    BY <1>1, <2>1 DEF Countable
<1>3. picked.core = <<>>
  BY DEF Init, Nothing
<1>4. <<>> \in Seq(Facts) /\ Begins(ctx.relevant, picked.core) /\ HoldsCore
  BY <1>1, <1>3 DEF Begins, HoldsCore
<1>5. stored <= Len(TurnSize) /\ budget \in Int /\ lastDropped = 0 /\ pc = "start"
  BY ContextAssumption DEF Init
<1> QED
  BY <1>2, <1>3, <1>4, <1>5 DEF FitInv

LEMMA StepFitInv == IInv /\ ListInv /\ ListInv' /\ FitInv /\ [Next]_vars => FitInv'
<1> SUFFICES ASSUME IInv, ListInv, ListInv', FitInv, [Next]_vars PROVE FitInv'
  OBVIOUS
<1>0. ctx = [turns |-> ctx.turns, working |-> ctx.working, recent |-> ctx.recent,
             invariants |-> ctx.invariants, playbooks |-> ctx.playbooks,
             associated |-> ctx.associated, relevant |-> ctx.relevant]
  BY DEF ListInv
<1>1. /\ ctx.associated \in Seq(Facts) /\ ctx.relevant \in Seq(Facts)
      /\ ctx'.associated \in Seq(Facts) /\ ctx'.relevant \in Seq(Facts)
  BY DEF ListInv, Associable
<1>2. /\ ctx.turns \subseteq DOMAIN TurnSize /\ ctx.recent \in Seq(Nat)
      /\ ctx.invariants \subseteq DOMAIN Invariants /\ Critical \subseteq ctx.invariants
      /\ ctx.playbooks \subseteq DOMAIN Playbooks
  BY DEF FitInv, Countable
<1>3. /\ stored \in Nat /\ stored <= Len(TurnSize) /\ budget \in Int
      /\ Countable(ctx) /\ picked.core \in Seq(Facts) /\ Begins(ctx.relevant, picked.core)
      /\ Waiting => lastDropped = 0 /\ HoldsCore
  BY DEF IInv, FitInv
<1>4. ASSUME UNCHANGED <<budget, ctx, picked, lastDropped, pc>>, stored' <= Len(TurnSize) PROVE FitInv'
  <2>1. /\ HoldsCore' <=> HoldsCore
        /\ CoreFits' <=> CoreFits
        /\ Waiting' <=> Waiting
    BY <1>4 DEF HoldsCore, CoreFits, KeptTokens, WorkingTokens, Waiting
  <2>2. Countable(ctx)' /\ Begins(ctx.relevant, picked.core)'
    BY <1>3, <1>4
  <2>3. Estimate(ctx)' = Estimate(ctx) /\ KeptTokens' = KeptTokens
    BY <1>4 DEF KeptTokens, WorkingTokens
  <2> QED
    BY <1>4, <2>1, <2>2, <2>3 DEF FitInv
<1>5. CASE UNCHANGED vars
  BY <1>3, <1>4, <1>5 DEF vars
<1>6. CASE ReadTurns
  <2>1. PICK turns : turns = (Archived + 1)..stored
    OBVIOUS
  <2>2. turns \subseteq DOMAIN TurnSize
    <3>1. Archived \in Nat /\ DOMAIN TurnSize = 1..Len(TurnSize) /\ Len(TurnSize) \in Nat
      BY ContextAssumption DEF IInv
    <3> QED
      BY <1>3, <2>1, <3>1
  <2>3. ctx' = [turns |-> turns, working |-> ctx.working, recent |-> ctx.recent,
                invariants |-> ctx.invariants, playbooks |-> ctx.playbooks,
                associated |-> ctx.associated, relevant |-> ctx.relevant]
    BY <1>0, <1>6, <2>1 DEF ReadTurns
  <2>4. UNCHANGED <<stored, budget, picked, lastDropped>> /\ Waiting /\ Waiting'
    BY <1>6 DEF ReadTurns, store, Waiting
  <2>5. Countable(ctx)'
    BY <1>1, <1>2, <2>2, <2>3 DEF Countable
  <2>6. Begins(ctx.relevant, picked.core)' /\ HoldsCore'
    BY <1>3, <2>3, <2>4 DEF Begins, HoldsCore
  <2> QED
    BY <1>3, <2>4, <2>5, <2>6, ReadFits
<1>7. CASE ReadWorkingMemory
  <2> DEFINE n == Len(summaries)
             found == Reverse([i \in DOMAIN summaries |-> i])
             others == IF found = <<>> THEN <<>> ELSE Tail(found)
  <2>1. PICK working, recent :
          /\ ctx' = [[ctx EXCEPT !.working = working] EXCEPT !.recent = recent]
          /\ recent = SubSeq(others, 1, Smaller(MaxRecentSummaries, Len(others)))
    BY <1>7 DEF ReadWorkingMemory
  <2>2. others \in Seq(Nat)
    <3>1. n \in Nat /\ DOMAIN summaries = 1..n
      BY DEF IInv
    <3>2. PICK ids : ids = [i \in DOMAIN summaries |-> i]
      OBVIOUS
    <3>3. ids \in Seq(Nat) /\ Len(ids) = n
      BY <3>1, <3>2
    <3>4. PICK back : back = Reverse(ids)
      OBVIOUS
    <3>5. back = [i \in 1..n |-> ids[(n - i) + 1]]
      BY <3>3, <3>4 DEF Reverse
    <3>6. \A i \in 1..n : ids[(n - i) + 1] \in Nat
      BY <3>1, <3>3
    <3>7. back \in Seq(Nat)
      BY <3>1, <3>5, <3>6
    <3>8. found = back
      BY <3>2, <3>4
    <3> QED
      BY <3>7, <3>8
  <2> HIDE DEF others
  <2>3. recent \in Seq(Nat)
    <3>1. PICK m \in Nat : m <= Len(others) /\ recent = SubSeq(others, 1, m)
      <4>1. Smaller(MaxRecentSummaries, Len(others)) \in Nat /\ Smaller(MaxRecentSummaries, Len(others)) <= Len(others)
        BY <2>2, ContextAssumption DEF Smaller
      <4> QED
        BY <2>1, <4>1
    <3> QED
      BY <2>2, <3>1
  <2>4. PICK old : old = [turns |-> ctx.turns, working |-> working, recent |-> ctx.recent,
                          invariants |-> ctx.invariants, playbooks |-> ctx.playbooks,
                          associated |-> ctx.associated, relevant |-> ctx.relevant]
    OBVIOUS
  <2>5. [ctx EXCEPT !.working = working] = old
    BY <1>0, <2>4
  <2>6. ctx' = [old EXCEPT !.recent = recent]
    BY <2>1, <2>5, Zenon
  <2>7. ctx' = [turns |-> ctx.turns, working |-> working, recent |-> recent,
                invariants |-> ctx.invariants, playbooks |-> ctx.playbooks,
                associated |-> ctx.associated, relevant |-> ctx.relevant]
    BY <2>4, <2>6
  <2>8. UNCHANGED <<stored, budget, picked, lastDropped>> /\ Waiting /\ Waiting'
    BY <1>7 DEF ReadWorkingMemory, store, Waiting
  <2>9. Countable(ctx)'
    BY <1>1, <1>2, <2>3, <2>7 DEF Countable
  <2>10. Begins(ctx.relevant, picked.core)' /\ HoldsCore'
    BY <1>3, <2>7, <2>8 DEF Begins, HoldsCore
  <2> QED
    BY <1>3, <2>8, <2>9, <2>10, ReadFits
<1>8. CASE ReadKnowledge
  <2>1. PICK listed : /\ picked' = Selection(listed)
                      /\ ctx' = [ctx EXCEPT !.relevant = Selection(listed).core \o Selection(listed).task]
    BY <1>8 DEF ReadKnowledge
  <2>2. PICK core, task : picked' = [core |-> core, task |-> task]
                          /\ core \in Seq(Facts) /\ task \in Seq(Facts)
    BY <2>1, SelectionParts
  <2>3. ctx' = [turns |-> ctx.turns, working |-> ctx.working, recent |-> ctx.recent,
                invariants |-> ctx.invariants, playbooks |-> ctx.playbooks,
                associated |-> ctx.associated, relevant |-> core \o task]
    <3>1. Selection(listed).core = core /\ Selection(listed).task = task
      BY <2>1, <2>2
    <3>2. ctx' = [ctx EXCEPT !.relevant = core \o task]
      BY <2>1, <3>1, Zenon
    <3>3. PICK both : both = core \o task
      OBVIOUS
    <3>4. ctx' = [ctx EXCEPT !.relevant = both]
      BY <3>2, <3>3, Zenon
    <3>5. ctx' = [turns |-> ctx.turns, working |-> ctx.working, recent |-> ctx.recent,
                  invariants |-> ctx.invariants, playbooks |-> ctx.playbooks,
                  associated |-> ctx.associated, relevant |-> both]
      BY <1>0, <3>4
    <3> QED
      BY <3>3, <3>5, Zenon
  <2>4. Begins(core \o task, core) /\ Len(core) <= Len(core \o task)
    BY <2>2 DEF Begins
  <2>5. UNCHANGED <<stored, budget, lastDropped>> /\ Waiting /\ Waiting'
    BY <1>8 DEF ReadKnowledge, store, Waiting
  <2>6. Countable(ctx)'
    <3>1. /\ ctx'.turns = ctx.turns /\ ctx'.recent = ctx.recent
          /\ ctx'.invariants = ctx.invariants /\ ctx'.playbooks = ctx.playbooks
      BY <2>3
    <3> QED
      BY <1>1, <1>2, <3>1 DEF Countable
  <2>7. picked'.core = core /\ ctx'.relevant = core \o task
    BY <2>2, <2>3
  <2>8. picked'.core \in Seq(Facts) /\ Begins(ctx.relevant, picked.core)' /\ HoldsCore'
    BY <2>2, <2>4, <2>7 DEF HoldsCore
  <2> QED
    BY <1>3, <2>5, <2>6, <2>8, ReadFits
<1>9. CASE ReadAssociations
  <2>1. PICK more : ctx' = [ctx EXCEPT !.associated = more]
    BY <1>9 DEF ReadAssociations
  <2>2. ctx' = [turns |-> ctx.turns, working |-> ctx.working, recent |-> ctx.recent,
                invariants |-> ctx.invariants, playbooks |-> ctx.playbooks,
                associated |-> more, relevant |-> ctx.relevant]
    BY <1>0, <2>1
  <2>3. UNCHANGED <<stored, budget, picked, lastDropped>> /\ Waiting /\ pc' = "trim" /\ ~Waiting'
    BY <1>9 DEF ReadAssociations, store, Waiting
  <2>4. Countable(ctx)'
    <3>1. /\ ctx'.turns = ctx.turns /\ ctx'.recent = ctx.recent
          /\ ctx'.invariants = ctx.invariants /\ ctx'.playbooks = ctx.playbooks
      BY <2>2
    <3> QED
      BY <1>1, <1>2, <3>1 DEF Countable
  <2>5. Begins(ctx.relevant, picked.core)' /\ HoldsCore'
    BY <1>3, <2>2, <2>3 DEF Begins, HoldsCore
  <2> QED
    BY <1>3, <2>3, <2>4, <2>5 DEF FitInv
<1>10. ASSUME Over, NEW c, Trimmed(c), Countable(c), c.working = ctx.working, c.relevant = ctx.relevant
       PROVE  FitInv'
  <2>1. CoreFits => Len(picked.core) <= Len(c.relevant)
    BY <1>10 DEF FitInv, HoldsCore
  <2>2. Begins(c.relevant, picked.core)
    BY <1>3, <1>10
  <2> QED
    BY <1>10, <2>1, <2>2, TrimFits
<1>11. CASE DropTurn
  <2>1. PICK t : Trimmed([ctx EXCEPT !.turns = @ \ {t}]) /\ Over
    BY <1>11 DEF DropTurn
  <2>2. PICK c : c = [ctx EXCEPT !.turns = @ \ {t}]
    OBVIOUS
  <2>3. c = [turns |-> ctx.turns \ {t}, working |-> ctx.working, recent |-> ctx.recent,
             invariants |-> ctx.invariants, playbooks |-> ctx.playbooks,
             associated |-> ctx.associated, relevant |-> ctx.relevant]
    BY <1>0, <2>2
  <2>4. Countable(c)
    BY <1>1, <1>2, <2>3 DEF Countable
  <2> QED
    BY <1>10, <2>1, <2>2, <2>3, <2>4
<1>12. CASE DropSummary
  <2>1. PICK recent : recent = Front(ctx.recent)
    OBVIOUS
  <2>2. recent \in Seq(Nat)
    <3>1. ctx.recent # <<>>
      BY <1>12 DEF DropSummary, NoSummaries
    <3>2. Len(ctx.recent) - 1 \in Nat /\ Len(ctx.recent) - 1 <= Len(ctx.recent)
      BY <1>2, <3>1
    <3>3. PICK m \in Nat : m = Len(ctx.recent) - 1 /\ m <= Len(ctx.recent)
      BY <3>2
    <3>4. recent = SubSeq(ctx.recent, 1, m)
      BY <2>1, <3>3 DEF Front
    <3> QED
      BY <1>2, <3>3, <3>4
  <2>3. PICK c : c = [ctx EXCEPT !.recent = Front(@)]
    OBVIOUS
  <2>4. c = [turns |-> ctx.turns, working |-> ctx.working, recent |-> recent,
             invariants |-> ctx.invariants, playbooks |-> ctx.playbooks,
             associated |-> ctx.associated, relevant |-> ctx.relevant]
    BY <1>0, <2>1, <2>3
  <2>5. Countable(c)
    BY <1>1, <1>2, <2>2, <2>4 DEF Countable
  <2>6. Trimmed(c) /\ Over
    BY <1>12, <2>3 DEF DropSummary
  <2> QED
    BY <1>10, <2>4, <2>5, <2>6
<1>13. CASE DropInvariant
  <2>1. PICK i : i = Max(Removable(ctx.invariants))
    OBVIOUS
  <2>2. i \in ctx.invariants \ Critical
    <3>1. Removable(ctx.invariants) # {}
      BY <1>13 DEF DropInvariant, NoInvariants
    <3>2. DOMAIN Invariants = 1..Len(Invariants) /\ Len(Invariants) \in Int
      BY ContextAssumption
    <3>3. IsFiniteSet(DOMAIN Invariants) /\ DOMAIN Invariants \subseteq Int
      BY <3>2, FS_Interval
    <3>4. Removable(ctx.invariants) \in SUBSET (DOMAIN Invariants)
      BY <1>2 DEF Removable
    <3>5. IsFiniteSet(Removable(ctx.invariants)) /\ Removable(ctx.invariants) \in SUBSET Int
      BY <3>3, <3>4, FS_Subset
    <3>6. i \in Removable(ctx.invariants)
      BY <2>1, <3>1, <3>5, MaxOfInts
    <3> QED
      BY <3>6 DEF Removable
  <2>3. PICK c : c = [ctx EXCEPT !.invariants = @ \ {Max(Removable(@))}]
    OBVIOUS
  <2>4. c = [turns |-> ctx.turns, working |-> ctx.working, recent |-> ctx.recent,
             invariants |-> ctx.invariants \ {i}, playbooks |-> ctx.playbooks,
             associated |-> ctx.associated, relevant |-> ctx.relevant]
    BY <1>0, <2>1, <2>3
  <2>5. Countable(c)
    BY <1>1, <1>2, <2>2, <2>4 DEF Countable
  <2>6. Trimmed(c) /\ Over
    BY <1>13, <2>3 DEF DropInvariant
  <2> QED
    BY <1>10, <2>4, <2>5, <2>6
<1>14. CASE DropPlaybook
  <2>1. PICK i : Trimmed([ctx EXCEPT !.playbooks = @ \ {i}]) /\ Over
    BY <1>14 DEF DropPlaybook
  <2>2. PICK c : c = [ctx EXCEPT !.playbooks = @ \ {i}]
    OBVIOUS
  <2>3. c = [turns |-> ctx.turns, working |-> ctx.working, recent |-> ctx.recent,
             invariants |-> ctx.invariants, playbooks |-> ctx.playbooks \ {i},
             associated |-> ctx.associated, relevant |-> ctx.relevant]
    BY <1>0, <2>2
  <2>4. Countable(c)
    BY <1>1, <1>2, <2>3 DEF Countable
  <2> QED
    BY <1>10, <2>1, <2>2, <2>3, <2>4
<1>15. CASE DropAssociated
  <2>1. PICK c : c = [ctx EXCEPT !.associated = Front(@)]
    OBVIOUS
  <2>2. c = [turns |-> ctx.turns, working |-> ctx.working, recent |-> ctx.recent,
             invariants |-> ctx.invariants, playbooks |-> ctx.playbooks,
             associated |-> Front(ctx.associated), relevant |-> ctx.relevant]
    BY <1>0, <2>1
  <2>3. Trimmed(c) /\ Over
    BY <1>15, <2>1 DEF DropAssociated
  <2>4. c.associated \in Seq(Facts)
    BY <1>1, <2>3 DEF Trimmed
  <2>5. Countable(c)
    BY <1>1, <1>2, <2>2, <2>4 DEF Countable
  <2> QED
    BY <1>10, <2>2, <2>3, <2>5
<1>16. CASE DropFact
  <2>1. PICK rest : rest = Front(ctx.relevant)
    OBVIOUS
  <2>2. NoAssociated /\ ctx.relevant # <<>> /\ Over
    BY <1>16 DEF DropFact, NoFacts
  <2>3. PICK m \in Nat : Len(ctx.relevant) = m + 1 /\ rest = SubSeq(ctx.relevant, 1, m)
    <3>1. Len(ctx.relevant) - 1 \in Nat /\ Len(ctx.relevant) = (Len(ctx.relevant) - 1) + 1
      BY <1>1, <2>2
    <3> QED
      BY <2>1, <3>1 DEF Front
  <2>4. Len(rest) = m /\ \A n \in 1..m : rest[n] = ctx.relevant[n]
    BY <1>1, <2>3
  <2>5. PICK c : c = [ctx EXCEPT !.relevant = Front(@)]
    OBVIOUS
  <2>6. c = [turns |-> ctx.turns, working |-> ctx.working, recent |-> ctx.recent,
             invariants |-> ctx.invariants, playbooks |-> ctx.playbooks,
             associated |-> ctx.associated, relevant |-> rest]
    BY <1>0, <2>1, <2>5
  <2>7. Trimmed(c)
    BY <1>16, <2>5 DEF DropFact
  <2>8. c.relevant = rest /\ rest \in Seq(Facts) /\ c.working = ctx.working
    BY <1>1, <2>6, <2>7 DEF Trimmed
  <2>9. Countable(c)
    BY <1>1, <1>2, <2>6, <2>8 DEF Countable
  <2>10. Begins(rest, picked.core)
    <3>1. Len(picked.core) \in Nat
      BY <1>3
    <3>2. \A n \in 1..Len(picked.core) : n <= m => n <= m + 1 /\ n \in 1..m
      BY <3>1
    <3> QED
      BY <1>3, <2>3, <2>4, <3>2 DEF Begins
  <2>11. ASSUME CoreFits PROVE Len(picked.core) <= Len(rest)
    <3>1. Len(picked.core) <= m + 1 /\ Len(picked.core) \in Nat
      BY <1>3, <2>3, <2>11 DEF FitInv, HoldsCore
    <3>2. Len(picked.core) # m + 1
      <4> SUFFICES ASSUME Len(picked.core) = m + 1 PROVE FALSE
        OBVIOUS
      <4>1. \A n \in 1..(m + 1) : ctx.relevant[n] = picked.core[n]
        BY <1>3, <2>3 DEF Begins
      <4>2. ctx.relevant = picked.core
        BY <1>1, <1>3, <2>3, <4>1
      <4>3. Estimate(ctx) = KeptTokens + FactTokens(picked.core)
        BY <1>3, <2>2, <4>2, OnlyFactsLeft
      <4>4. Estimate(ctx) > budget /\ Estimate(ctx) <= budget
        BY <2>2, <2>11, <4>3 DEF Over, CoreFits
      <4>5. Estimate(ctx) \in Int
        BY <1>3, Counted
      <4> QED
        BY <1>3, <4>4, <4>5
    <3> QED
      BY <2>4, <3>1, <3>2
  <2> QED
    BY <2>2, <2>7, <2>8, <2>9, <2>10, <2>11, TrimFits
<1>17. CASE Return
  <2>1. UNCHANGED <<stored, budget, ctx, picked, lastDropped>> /\ ~Waiting /\ ~Waiting'
    BY <1>17 DEF Return, store, Waiting
  <2>2. Estimate(ctx) <= budget \/ Estimate(ctx) = KeptTokens
    <3>1. ASSUME NoFacts PROVE Estimate(ctx) = KeptTokens
      <4>1. NoAssociated /\ ctx.relevant = <<>>
        BY <3>1 DEF NoFacts
      <4>2. Estimate(ctx) = KeptTokens + FactTokens(ctx.relevant)
        BY <1>3, <4>1, OnlyFactsLeft
      <4>3. ToSet(ctx.relevant) = {}
        BY <4>1 DEF ToSet
      <4>4. FactTokens(ctx.relevant) = 0
        BY <4>3, TotalOfNone DEF FactTokens
      <4>5. KeptTokens \in Int
        <5>1. ctx.invariants = Critical
          BY <1>2, <4>1 DEF NoAssociated, NoPlaybooks, NoInvariants, Removable
        <5> QED
          BY <1>3, <5>1, Counted DEF KeptTokens
      <4> QED
        BY <4>2, <4>4, <4>5
    <3> QED
      BY <1>17, <3>1 DEF Return
  <2>3. /\ Estimate(ctx)' = Estimate(ctx) /\ KeptTokens' = KeptTokens
        /\ HoldsCore' <=> HoldsCore
        /\ CoreFits' <=> CoreFits
    BY <2>1 DEF HoldsCore, CoreFits, KeptTokens, WorkingTokens
  <2>4. Countable(ctx)' /\ Begins(ctx.relevant, picked.core)'
    BY <1>3, <2>1
  <2> QED
    BY <2>1, <2>2, <2>3, <2>4 DEF FitInv
<1>18. CASE StoreTurn
  <2>1. stored' <= Len(TurnSize)
    <3>1. stored < Len(TurnSize) /\ stored' = stored + 1 /\ Len(TurnSize) \in Nat
      BY <1>18, ContextAssumption DEF StoreTurn
    <3> QED
      BY <1>3, <3>1
  <2> QED
    BY <1>4, <1>18, <2>1 DEF StoreTurn, Others
<1>19. CASE CommitCompaction \/ ChangeFact \/ ChangeAssociation
  BY <1>3, <1>4, <1>19 DEF CommitCompaction, ChangeFact, ChangeAssociation, Others
<1> QED
  BY <1>5, <1>6, <1>7, <1>8, <1>9, <1>11, <1>12, <1>13, <1>14, <1>15, <1>16, <1>17, <1>18, <1>19 DEF Next

\* Whatever the lists and their sizes, the trimming ends within the budget or with
\* nothing but what is never dropped, drops no element too many, and leaves the
\* trusted core whole where the budget has room for it.
THEOREM TrimmingFits == Spec => []TrimmedToFit
<1>1. IInv /\ ListInv /\ FitInv /\ [Next]_vars => (IInv /\ ListInv /\ FitInv)'
  BY StepInv, StepListInv, StepFitInv
<1>2. Init => IInv /\ ListInv /\ FitInv
  BY InitInv, InitListInv, InitFitInv
<1> QED
  BY <1>1, <1>2, FitInvIsEnough, PTL DEF Spec
-----------------------------------------------------------------------------
(***************************************************************************)
(* The managers a server keeps for a scope (ScopeManagers): their copies   *)
(* agree with the storage, for every set of requests, sessions and values. *)
(***************************************************************************)

Rows == Values \cup {None, Deleted}

Aliases == Values \cup {None}

Manager == [aliases : Aliases, invariant : Values \cup {None, Configured},
            governance : {"unread", "loading", "loaded", "failed"}, found : Rows]

Request == [pc : {"idle", "save", "read", "get", "build", "visit", "store"}, kind : SM!Kinds,
            target : SM!Targets, value : Aliases, visit : Seq(Nat), aliases : Aliases, mixed : BOOLEAN]

\* What a request is, by what it is doing.
Formed(r) ==
    /\ req[r].kind # "use" => req[r].target = SM!Base
    /\ req[r].kind \in {"aliases", "put"} => req[r].value \in Values
    /\ req[r].pc = "save" => req[r].kind = "aliases"
    /\ req[r].pc = "read" => req[r].kind = "refresh"
    /\ req[r].pc = "store" => /\ req[r].kind \in {"put", "delete"} /\ req[r].visit # <<>>
                             /\ managers[SM!Current(r)].governance = "loaded"
    /\ \A n \in 1..Len(req[r].visit) : req[r].visit[n] \in 1..Len(managers)

Shape ==
    /\ storedAliases \in Aliases /\ storedInvariant \in Rows
    /\ managers \in Seq(Manager)
    /\ cache \in [SM!Targets -> 0..Len(managers)]
    /\ req \in [Requests -> Request]
    /\ \A r \in Requests : Formed(r)

\* The managers whose copies CopiesAgree speaks of.
Watched == {m \in DOMAIN managers \ mixed : \E t \in SM!Targets : cache[t] = m}

Alone == \A r, q \in Requests : SM!Updating(r) /\ SM!Updating(q) => r = q

\* What a manager is being built with is stored.
BuildsFresh ==
    \A r \in Requests : req[r].pc = "build" /\ ~req[r].mixed =>
        req[r].aliases = storedAliases /\ ~SM!OtherUpdate(r)

Changing(r) == req[r].kind \in {"put", "delete"} /\ req[r].pc \in {"visit", "store"}

\* What a manager is loading is stored, and an update that is under way waits for it.
LoadsFresh ==
    \A m \in Watched : SM!Loading(m) =>
        /\ managers[m].found = storedInvariant
        /\ \A r \in Requests : SM!Updating(r) => Changing(r) /\ SM!Visiting(r) /\ SM!Current(r) = m

\* What an update hands out is what is stored.
ValueIsStored ==
    \A r \in Requests : req[r].kind \in {"aliases", "refresh"} /\ req[r].pc \in {"get", "build", "visit"} =>
        req[r].value = storedAliases

WillSet(r, m) ==
    /\ req[r].kind = "aliases"
    /\ req[r].pc \in {"get", "build"} \/ (req[r].pc = "visit" /\ m \in ToSet(req[r].visit))

AliasesReach == \A m \in Watched : managers[m].aliases = storedAliases \/ \E r \in Requests : WillSet(r, m)

Has(m) == managers[m].governance = "loaded" => managers[m].invariant = SM!Effective(storedInvariant)

Outcome(r) == IF req[r].kind = "put" THEN req[r].value ELSE None

InvariantReaches ==
    \A m \in Watched : Has(m) \/ \E r \in Requests : Changing(r) /\ m \in ToSet(req[r].visit)

\* Until the update has been stored, no manager is behind it in the list.
Handed ==
    \A r \in Requests : Changing(r) =>
        \/ SM!Effective(storedInvariant) = Outcome(r)
        \/ \A m \in Watched :
              m \in ToSet(req[r].visit) /\ (Has(m) \/ (req[r].pc = "store" /\ m = SM!Current(r)))

Storing == \A r \in Requests : req[r].pc = "store" => managers[SM!Current(r)].invariant = Outcome(r)

Together ==
    /\ Alone /\ BuildsFresh /\ LoadsFresh /\ ValueIsStored
    /\ AliasesReach /\ InvariantReaches /\ Handed /\ Storing

(* CopiesAgree speaks of the times without an update.  In between, a copy that is
   behind the storage, or ahead of it, is one that the update has still to reach;
   what is built or loaded meanwhile is mixed. *)
ManagersInv == Shape /\ (apart => Together)
-----------------------------------------------------------------------------
LEMMA Agreeing == ManagersInv => CopiesAgree
<1> SUFFICES ASSUME ManagersInv, SM!NoUpdate, apart, NEW t \in SM!Targets, cache[t] # 0, cache[t] \notin mixed
             PROVE  SM!Agrees(cache[t])
  BY DEF CopiesAgree, SM!CopiesAgree
<1>1. PICK m : m = cache[t]
  OBVIOUS
<1>2. m \in Watched
  <2>1. m \in 0..Len(managers) /\ m # 0 /\ managers \in Seq(Manager) /\ m \notin mixed
    BY <1>1 DEF ManagersInv, Shape
  <2>2. m \in DOMAIN managers
    BY <2>1
  <2> QED
    BY <1>1, <2>1, <2>2 DEF Watched
<1>3. \A r \in Requests : req[r].pc = "idle" \/ req[r].kind = "use"
  BY DEF SM!NoUpdate, SM!Updating
<1>4. managers[m].aliases = storedAliases
  BY <1>2, <1>3 DEF ManagersInv, Together, AliasesReach, WillSet
<1>5. Has(m)
  BY <1>2, <1>3 DEF ManagersInv, Together, InvariantReaches, Changing
<1> QED
  BY <1>1, <1>4, <1>5 DEF SM!Agrees, Has

\* The list of a set has its elements.
LEMMA ListOfSet ==
    ASSUME NEW S \in SUBSET Nat, IsFiniteSet(S)
    PROVE  SM!SetToSeq(S) \in Seq(Nat) /\ ToSet(SM!SetToSeq(S)) = S
<1>1. PICK n \in Nat : n = Cardinality(S)
  BY FS_CardinalityType
<1>2. \E f \in [1..n -> S] : IsInjective(f)
  <2>1. PICK f : f \in Bijection(1..n, S)
    BY <1>1, FS_CardinalityType DEF ExistsBijection
  <2> QED
    BY <2>1 DEF Bijection, Injection
<1>3. PICK s : s = SM!SetToSeq(S)
  OBVIOUS
<1>4. s \in [1..n -> S] /\ IsInjective(s)
  <2>1. SM!Cardinality(S) = n
    BY <1>1 DEF SM!Cardinality, Cardinality
  <2>2. \A f \in [1..n -> S] : SM!IsInjective(f) <=> IsInjective(f)
    BY DEF SM!IsInjective, IsInjective
  <2>3. s = CHOOSE f \in [1..n -> S] : SM!IsInjective(f)
    BY <1>3, <2>1 DEF SM!SetToSeq
  <2> QED
    BY <1>2, <2>2, <2>3
<1>5. s \in Surjection(1..n, S)
  <2>1. s \in Injection(1..n, S)
    BY <1>4 DEF Injection
  <2>2. Cardinality(1..n) = n
    BY <1>1, FS_Interval
  <2> QED
    BY <1>1, <2>1, <2>2, FS_Injection
<1>6. s \in Seq(Nat) /\ DOMAIN s = 1..n
  <2>1. s \in [1..n -> Nat]
    BY <1>4
  <2> QED
    BY <2>1
<1>7. ToSet(s) = S
  BY <1>4, <1>5 DEF ToSet, Surjection
<1> QED
  BY <1>3, <1>6, <1>7
-----------------------------------------------------------------------------
\* Lists, and one element of a tuple changed.

LEMMA TailHas ==
    ASSUME NEW s \in Seq(Nat), s # <<>>
    PROVE  /\ Tail(s) \in Seq(Nat) /\ Head(s) \in Nat /\ Head(s) \in ToSet(s)
           /\ \A m \in ToSet(s) : m = Head(s) \/ m \in ToSet(Tail(s))
           /\ ToSet(Tail(s)) \subseteq ToSet(s)
<1>1. /\ Tail(s) \in Seq(Nat) /\ Len(Tail(s)) = Len(s) - 1 /\ Len(s) \in Nat \ {0}
      /\ \A n \in 1..Len(s) - 1 : Tail(s)[n] = s[n + 1]
      /\ Head(s) = s[1]
  OBVIOUS
<1>2. \A m : m \in ToSet(s) <=> \E n \in 1..Len(s) : s[n] = m
  BY DEF ToSet
<1>3. \A m : m \in ToSet(Tail(s)) <=> \E n \in 1..Len(s) - 1 : Tail(s)[n] = m
  <2>1. PICK u \in Seq(Nat) : u = Tail(s)
    BY <1>1
  <2>2. \A m : m \in ToSet(u) <=> \E n \in 1..Len(u) : u[n] = m
    BY DEF ToSet
  <2> QED
    BY <1>1, <2>1, <2>2
<1>4. Head(s) \in ToSet(s) /\ Head(s) \in Nat
  BY <1>1, <1>2
<1>5. ASSUME NEW m \in ToSet(s), m # Head(s) PROVE m \in ToSet(Tail(s))
  <2>1. PICK n \in 1..Len(s) : s[n] = m
    BY <1>2
  <2>2. n - 1 \in 1..Len(s) - 1 /\ Tail(s)[n - 1] = m
    BY <1>1, <1>5, <2>1
  <2> QED
    BY <1>3, <2>2
<1>6. ASSUME NEW m \in ToSet(Tail(s)) PROVE m \in ToSet(s)
  <2>1. PICK n \in 1..Len(s) - 1 : Tail(s)[n] = m
    BY <1>3
  <2>2. n + 1 \in 1..Len(s) /\ s[n + 1] = m
    BY <1>1, <2>1
  <2> QED
    BY <1>2, <2>2
<1> QED
  BY <1>1, <1>4, <1>5, <1>6

LEMMA Within ==
    ASSUME NEW s \in Seq(Nat), NEW top \in Nat
    PROVE  (\A n \in 1..Len(s) : s[n] \in 1..top) <=> ToSet(s) \subseteq 1..top
  BY DEF ToSet

\* Where the list of an update comes from, and that it has every cached manager.
LEMMA GotFits ==
    ASSUME Shape, NEW r \in Requests, NEW m \in Nat \ {0}
    PROVE  /\ SM!Got(r, m) \in Seq(Nat) /\ ToSet(SM!Got(r, m)) \subseteq {m} \cup (1..Len(managers))
           /\ req[r].kind # "use" => m \in ToSet(SM!Got(r, m))
           /\ req[r].kind # "use" =>
                 \A t \in Sessions : cache[t] # 0 => cache[t] \in ToSet(SM!Got(r, m))
<1>1. PICK S : S = SM!ScopeList(m) \ {m}
  OBVIOUS
<1>2. PICK cached : cached = {cache[s] : s \in Sessions}
  OBVIOUS
<1>3. S = (cached \ {0}) \ {m}
  BY <1>1, <1>2 DEF SM!ScopeList
<1>4. cached \in SUBSET (0..Len(managers))
  BY <1>2 DEF Shape, SM!Targets
<1>5. Len(managers) \in Nat
  BY DEF Shape
<1>6. S \in SUBSET (1..Len(managers))
  BY <1>3, <1>4, <1>5
<1>7. IsFiniteSet(S)
  <2>1. IsFiniteSet(1..Len(managers))
    BY <1>5, FS_Interval
  <2> QED
    BY <1>6, <2>1, FS_Subset
<1>8. S \in SUBSET Nat
  BY <1>5, <1>6
<1>9. SM!SetToSeq(S) \in Seq(Nat) /\ ToSet(SM!SetToSeq(S)) = S
  BY <1>7, <1>8, ListOfSet
<1>10. PICK s : s = SM!SetToSeq(S)
  OBVIOUS
<1>11. s \in Seq(Nat) /\ ToSet(s) = S
  BY <1>9, <1>10
<1>12. /\ <<m>> \o s \in Seq(Nat) /\ Len(<<m>> \o s) = Len(s) + 1 /\ (<<m>> \o s)[1] = m
       /\ \A n \in 1..Len(s) : (<<m>> \o s)[n + 1] = s[n]
       /\ \A n \in 1..Len(s) + 1 : n = 1 \/ (n - 1 \in 1..Len(s) /\ (<<m>> \o s)[n] = s[n - 1])
       /\ Len(s) \in Nat
  BY <1>11
<1>13. ToSet(<<m>> \o s) = {m} \cup S
  <2>1. \A x : x \in ToSet(<<m>> \o s) <=> \E n \in 1..Len(s) + 1 : (<<m>> \o s)[n] = x
    <3>1. PICK w \in Seq(Nat) : w = <<m>> \o s
      BY <1>12
    <3>2. \A x : x \in ToSet(w) <=> \E n \in 1..Len(w) : w[n] = x
      BY DEF ToSet
    <3> QED
      BY <1>12, <3>1, <3>2
  <2>2. \A x : x \in S <=> \E n \in 1..Len(s) : s[n] = x
    BY <1>11 DEF ToSet
  <2>3. ASSUME NEW x \in {m} \cup S PROVE x \in ToSet(<<m>> \o s)
    <3>1. CASE x = m
      BY <1>12, <2>1, <3>1
    <3>2. CASE x \in S
      <4>1. PICK n \in 1..Len(s) : s[n] = x
        BY <2>2, <3>2
      <4>2. n + 1 \in 1..Len(s) + 1 /\ (<<m>> \o s)[n + 1] = x
        BY <1>12, <4>1
      <4> QED
        BY <2>1, <4>2
    <3> QED
      BY <2>3, <3>1, <3>2
  <2>4. ASSUME NEW x \in ToSet(<<m>> \o s) PROVE x \in {m} \cup S
    <3>1. PICK n \in 1..Len(s) + 1 : (<<m>> \o s)[n] = x
      BY <2>1, <2>4
    <3>2. CASE n = 1
      BY <1>12, <3>1, <3>2
    <3>3. CASE n # 1
      BY <1>12, <2>2, <3>1, <3>3
    <3> QED
      BY <3>2, <3>3
  <2> QED
    BY <2>3, <2>4
<1>14. SM!Got(r, m) = IF req[r].kind = "use" THEN <<m>> ELSE <<m>> \o s
  BY <1>1, <1>10 DEF SM!Got
<1>15. CASE req[r].kind = "use"
  <2>1. <<m>> \in Seq(Nat) /\ ToSet(<<m>>) = {m}
    BY DEF ToSet
  <2> QED
    BY <1>14, <1>15, <2>1
<1>16. CASE req[r].kind # "use"
  <2>1. SM!Got(r, m) \in Seq(Nat) /\ ToSet(SM!Got(r, m)) = {m} \cup S
    BY <1>12, <1>13, <1>14, <1>16
  <2>2. \A t \in Sessions : cache[t] # 0 => cache[t] \in {m} \cup S
    BY <1>2, <1>3
  <2> QED
    BY <1>6, <2>1, <2>2
<1> QED
  BY <1>15, <1>16
-----------------------------------------------------------------------------
\* What a step does to its own request and to a manager, field by field.

Unmoved(r) == \A q \in Requests \ {r} : req'[q] = req[q]

PCs == {"idle", "save", "read", "get", "build", "visit", "store"}

LEMMA Turns ==
    ASSUME req \in [Requests -> Request], NEW r \in Requests, NEW new \in Request,
           req' = [req EXCEPT ![r] = new]
    PROVE  req' \in [Requests -> Request] /\ Unmoved(r) /\ req'[r] = new
  BY DEF Unmoved

LEMMA GoesTo ==
    ASSUME req \in [Requests -> Request], NEW r \in Requests, NEW to \in PCs, SM!Goto(r, to)
    PROVE  /\ req' \in [Requests -> Request] /\ Unmoved(r) /\ req'[r].pc = to
           /\ req'[r].kind = req[r].kind /\ req'[r].target = req[r].target
           /\ req'[r].value = req[r].value /\ req'[r].visit = req[r].visit
<1>1. PICK old \in Request : old = req[r]
  OBVIOUS
<1>2. PICK new : new = [old EXCEPT !.pc = to]
  OBVIOUS
<1>3. /\ new \in Request /\ new.pc = to /\ new.kind = old.kind /\ new.target = old.target
      /\ new.value = old.value /\ new.visit = old.visit
  BY <1>2 DEF Request, PCs
<1>4. req' = [req EXCEPT ![r] = new]
  BY <1>1, <1>2 DEF SM!Goto
<1> QED
  BY <1>1, <1>3, <1>4, Turns

LEMMA Passes ==
    ASSUME req \in [Requests -> Request], NEW r \in Requests, SM!NextManager(r), req[r].visit # <<>>
    PROVE  /\ req' \in [Requests -> Request] /\ Unmoved(r) /\ req'[r].pc = "visit"
           /\ req'[r].kind = req[r].kind /\ req'[r].target = req[r].target
           /\ req'[r].value = req[r].value /\ req'[r].visit = Tail(req[r].visit)
<1>1. PICK old \in Request : old = req[r]
  OBVIOUS
<1>2. PICK rest : rest = Tail(old.visit)
  OBVIOUS
<1>3. rest \in Seq(Nat)
  BY <1>1, <1>2, TailHas DEF Request
<1>4. PICK new : new = [old EXCEPT !.pc = "visit", !.visit = rest]
  OBVIOUS
<1>5. /\ new \in Request /\ new.pc = "visit" /\ new.kind = old.kind /\ new.target = old.target
      /\ new.value = old.value /\ new.visit = rest
  BY <1>3, <1>4 DEF Request
<1>6. req' = [req EXCEPT ![r] = new]
  BY <1>1, <1>2, <1>4 DEF SM!NextManager
<1> QED
  BY <1>1, <1>2, <1>5, <1>6, Turns

LEMMA Answered ==
    ASSUME req \in [Requests -> Request], NEW r \in Requests, SM!Answer(r)
    PROVE  /\ req' \in [Requests -> Request] /\ Unmoved(r) /\ req'[r] = SM!Idle
           /\ SM!Idle.pc = "idle" /\ SM!Idle.kind = "use" /\ SM!Idle.visit = <<>>
<1>1. SM!Idle \in Request /\ SM!Idle.pc = "idle" /\ SM!Idle.kind = "use" /\ SM!Idle.visit = <<>>
  BY DEF SM!Idle, Request, SM!Kinds, SM!Targets, Aliases
<1> QED
  BY <1>1, Turns DEF SM!Answer

\* One manager's row is changed.
LEMMA RowTurns ==
    ASSUME managers \in Seq(Manager), NEW c \in 1..Len(managers), NEW row \in Manager,
           managers' = [managers EXCEPT ![c] = row]
    PROVE  /\ managers' \in Seq(Manager) /\ Len(managers') = Len(managers)
           /\ managers'[c] = row
           /\ \A m \in 1..Len(managers) : m # c => managers'[m] = managers[m]
  OBVIOUS
-----------------------------------------------------------------------------
\* The shape of the state.

LEMMA ManagersInit == SM!Init => ManagersInv
<1> SUFFICES ASSUME SM!Init PROVE ManagersInv
  OBVIOUS
<1>1. /\ SM!Idle \in Request /\ SM!Idle.pc = "idle" /\ SM!Idle.kind = "use" /\ SM!Idle.target = SM!Base
      /\ SM!Idle.visit = <<>>
  BY DEF SM!Idle, Request, SM!Kinds, SM!Targets, Aliases
<1>2. req \in [Requests -> Request] /\ \A r \in Requests : req[r] = SM!Idle
  BY <1>1 DEF SM!Init
<1>3. managers = <<>> /\ managers \in Seq(Manager) /\ Len(managers) = 0 /\ DOMAIN managers = {}
  BY DEF SM!Init
<1>4. Shape
  BY <1>1, <1>2, <1>3 DEF SM!Init, Shape, Formed, Aliases, Rows
<1>5. Watched = {}
  BY <1>3 DEF Watched
<1>6. \A r \in Requests : ~SM!Updating(r) /\ req[r].pc = "idle"
  BY <1>1, <1>2 DEF SM!Updating
<1>7. Together
  BY <1>5, <1>6 DEF Together, Alone, BuildsFresh, LoadsFresh, ValueIsStored, AliasesReach,
                   InvariantReaches, Handed, Changing, Storing
<1> QED
  BY <1>4, <1>7 DEF ManagersInv

\* What other requests wait for stays as they know it.
LEMMA FormedStays ==
    ASSUME Shape, NEW q \in Requests, req'[q] = req[q],
           Len(managers') \in Nat, Len(managers) <= Len(managers'),
           \A m \in 1..Len(managers) :
              managers[m].governance = "loaded" => managers'[m].governance = "loaded"
    PROVE  Formed(q)'
<1>1. Formed(q) /\ req[q].visit \in Seq(Nat) /\ Len(managers) \in Nat
  BY DEF Shape, Request
<1>2. \A n \in 1..Len(req[q].visit) : req[q].visit[n] \in 1..Len(managers')
  BY <1>1 DEF Formed
<1>3. ASSUME req[q].pc = "store" PROVE managers'[SM!Current(q)].governance = "loaded"
  <2>1. req[q].visit # <<>> /\ managers[SM!Current(q)].governance = "loaded"
    BY <1>1, <1>3 DEF Formed
  <2>2. 1 \in 1..Len(req[q].visit) /\ SM!Current(q) = req[q].visit[1]
    BY <1>1, <2>1 DEF SM!Current
  <2>3. SM!Current(q) \in 1..Len(managers)
    BY <1>1, <2>2 DEF Formed
  <2> QED
    BY <2>1, <2>3
<1>4. SM!Current(q)' = SM!Current(q)
  BY DEF SM!Current
<1> QED
  BY <1>1, <1>2, <1>3, <1>4 DEF Formed

LEMMA ShapeStays ==
    ASSUME Shape, NEW r \in Requests, req' \in [Requests -> Request], Unmoved(r),
           storedAliases' \in Aliases, storedInvariant' \in Rows,
           managers' \in Seq(Manager), Len(managers') \in Nat, Len(managers) <= Len(managers'),
           \A m \in 1..Len(managers) :
              managers[m].governance = "loaded" => managers'[m].governance = "loaded",
           cache' \in [SM!Targets -> 0..Len(managers')],
           Formed(r)'
    PROVE  Shape'
<1>1. \A q \in Requests : Formed(q)'
  BY FormedStays DEF Unmoved
<1> QED
  BY <1>1 DEF Shape

\* The manager that a request has come to.
LEMMA CurrentIs ==
    ASSUME Shape, NEW r \in Requests, req[r].visit # <<>>
    PROVE  /\ SM!Current(r) \in 1..Len(managers) /\ managers[SM!Current(r)] \in Manager
           /\ req[r].visit \in Seq(Nat) /\ SM!Current(r) \in ToSet(req[r].visit)
           /\ ToSet(req[r].visit) \subseteq 1..Len(managers)
           /\ \A m \in ToSet(req[r].visit) : m = SM!Current(r) \/ m \in ToSet(Tail(req[r].visit))
           /\ Tail(req[r].visit) \in Seq(Nat)
           /\ \A n \in 1..Len(Tail(req[r].visit)) : Tail(req[r].visit)[n] \in 1..Len(managers)
<1>1. req[r].visit \in Seq(Nat) /\ Len(managers) \in Nat /\ managers \in Seq(Manager) /\ Formed(r)
  BY DEF Shape, Request
<1>2. ToSet(req[r].visit) \subseteq 1..Len(managers)
  BY <1>1, Within DEF Formed
<1>3. /\ Tail(req[r].visit) \in Seq(Nat) /\ SM!Current(r) \in ToSet(req[r].visit)
      /\ \A m \in ToSet(req[r].visit) : m = SM!Current(r) \/ m \in ToSet(Tail(req[r].visit))
      /\ ToSet(Tail(req[r].visit)) \subseteq ToSet(req[r].visit)
  BY <1>1, TailHas DEF SM!Current
<1>4. \A n \in 1..Len(Tail(req[r].visit)) : Tail(req[r].visit)[n] \in 1..Len(managers)
  BY <1>1, <1>2, <1>3, Within
<1>5. SM!Current(r) \in 1..Len(managers)
  BY <1>2, <1>3
<1> QED
  BY <1>1, <1>2, <1>3, <1>4, <1>5

\* What a step leaves of a watched manager.
Carried(m) ==
    /\ managers[m].aliases = storedAliases => managers'[m].aliases = storedAliases'
    /\ Has(m) => Has(m)'
    /\ SM!Loading(m)' => SM!Loading(m) /\ managers'[m].found = managers[m].found

\* What a request may become while the stored rows stand still.
GoesOn(r) ==
    /\ SM!Updating(r)' => SM!Updating(r)
    /\ req'[r].pc = "build" /\ ~req'[r].mixed => req'[r].aliases = storedAliases /\ ~SM!OtherUpdate(r)
    /\ \A m \in Watched' :
          SM!Loading(m)' /\ SM!Updating(r)' => Changing(r)' /\ SM!Visiting(r)' /\ SM!Current(r)' = m
    /\ req'[r].kind \in {"aliases", "refresh"} /\ req'[r].pc \in {"get", "build", "visit"} =>
          req'[r].value = storedAliases
    /\ \A m \in Watched' : WillSet(r, m) => managers'[m].aliases = storedAliases \/ WillSet(r, m)'
    /\ \A m \in Watched' : Changing(r) /\ m \in ToSet(req[r].visit) =>
          Has(m)' \/ (Changing(r)' /\ m \in ToSet(req'[r].visit))
    /\ Changing(r)' =>
          \/ SM!Effective(storedInvariant) = Outcome(r)'
          \/ \A m \in Watched' : m \in ToSet(req'[r].visit) /\ Has(m)'
    /\ req'[r].pc # "store"

LEMMA Passing ==
    ASSUME Together, NEW r \in Requests, Unmoved(r),
           storedAliases' = storedAliases, storedInvariant' = storedInvariant,
           Watched' \subseteq Watched, \A m \in Watched' : Carried(m),
           \A q \in Requests : req[q].pc = "store" =>
               managers'[SM!Current(q)].invariant = managers[SM!Current(q)].invariant,
           GoesOn(r)
    PROVE  Together'
<1>1. ASSUME NEW q \in Requests \ {r}
      PROVE  /\ req'[q] = req[q] /\ SM!Updating(q)' = SM!Updating(q) /\ Changing(q)' = Changing(q)
             /\ SM!Visiting(q)' = SM!Visiting(q) /\ SM!Current(q)' = SM!Current(q) /\ Outcome(q)' = Outcome(q)
             /\ \A m : WillSet(q, m)' = WillSet(q, m)
  BY DEF Unmoved, SM!Updating, Changing, SM!Visiting, SM!Current, Outcome, WillSet
<1>2. SM!Updating(r)' => SM!Updating(r)
  BY DEF GoesOn
<1>3. Alone'
  BY <1>1, <1>2 DEF Together, Alone
<1>4. BuildsFresh'
  <2>1. \A q \in Requests : SM!OtherUpdate(q)' => SM!OtherUpdate(q)
    BY <1>1, <1>2 DEF SM!OtherUpdate
  <2>2. ASSUME NEW q \in Requests, req'[q].pc = "build", ~req'[q].mixed
        PROVE  req'[q].aliases = storedAliases /\ ~SM!OtherUpdate(q)
    <3>1. CASE q = r
      BY <2>2, <3>1 DEF GoesOn
    <3>2. CASE q # r
      BY <1>1, <2>2, <3>2 DEF Together, BuildsFresh
    <3> QED
      BY <3>1, <3>2
  <2> QED
    BY <2>1, <2>2 DEF BuildsFresh
<1>5. LoadsFresh'
  <2> SUFFICES ASSUME NEW m \in Watched', SM!Loading(m)'
               PROVE  /\ managers'[m].found = storedInvariant'
                      /\ \A q \in Requests :
                            SM!Updating(q)' => Changing(q)' /\ SM!Visiting(q)' /\ SM!Current(q)' = m
    BY DEF LoadsFresh
  <2>1. SM!Loading(m) /\ managers'[m].found = managers[m].found /\ m \in Watched
    BY DEF Carried
  <2>2. /\ managers[m].found = storedInvariant
        /\ \A q \in Requests : SM!Updating(q) => Changing(q) /\ SM!Visiting(q) /\ SM!Current(q) = m
    BY <2>1 DEF Together, LoadsFresh
  <2>3. ASSUME NEW q \in Requests, SM!Updating(q)'
        PROVE  Changing(q)' /\ SM!Visiting(q)' /\ SM!Current(q)' = m
    <3>1. CASE q = r
      BY <2>3, <3>1 DEF GoesOn
    <3>2. CASE q # r
      BY <1>1, <2>2, <2>3, <3>2
    <3> QED
      BY <3>1, <3>2
  <2> QED
    BY <2>1, <2>2, <2>3
<1>6. ValueIsStored'
  BY <1>1 DEF Together, ValueIsStored, GoesOn
<1>7. AliasesReach'
  <2> SUFFICES ASSUME NEW m \in Watched', managers'[m].aliases # storedAliases'
               PROVE  \E q \in Requests : WillSet(q, m)'
    BY DEF AliasesReach
  <2>1. PICK q \in Requests : WillSet(q, m)
    BY DEF Carried, Together, AliasesReach
  <2> QED
    BY <1>1, <2>1 DEF GoesOn
<1>8. InvariantReaches'
  <2> SUFFICES ASSUME NEW m \in Watched', ~Has(m)'
               PROVE  \E q \in Requests : Changing(q)' /\ m \in ToSet(req'[q].visit)
    BY DEF InvariantReaches
  <2>1. PICK q \in Requests : Changing(q) /\ m \in ToSet(req[q].visit)
    BY DEF Carried, Together, InvariantReaches
  <2> QED
    BY <1>1, <2>1 DEF GoesOn
<1>9. Handed'
  <2> SUFFICES ASSUME NEW q \in Requests, Changing(q)', SM!Effective(storedInvariant)' # Outcome(q)',
                      NEW m \in Watched'
               PROVE  m \in ToSet(req'[q].visit) /\ (Has(m)' \/ (req'[q].pc = "store" /\ m = SM!Current(q)'))
    BY DEF Handed
  <2>1. SM!Effective(storedInvariant)' = SM!Effective(storedInvariant)
    BY DEF SM!Effective
  <2>2. CASE q = r
    BY <2>1, <2>2 DEF GoesOn
  <2>3. CASE q # r
    BY <1>1, <2>1, <2>3 DEF Carried, Together, Handed
  <2> QED
    BY <2>2, <2>3
<1>10. Storing'
  <2> SUFFICES ASSUME NEW q \in Requests, req'[q].pc = "store"
               PROVE  managers'[SM!Current(q)'].invariant = Outcome(q)'
    BY DEF Storing
  <2>1. q # r
    BY DEF GoesOn
  <2> QED
    BY <1>1, <2>1 DEF Together, Storing
<1> QED
  BY <1>3, <1>4, <1>5, <1>6, <1>7, <1>8, <1>9, <1>10 DEF Together
-----------------------------------------------------------------------------
\* Steps that change nothing but their request.

LEMMA QuietStep ==
    ASSUME ManagersInv, NEW r \in Requests, req' \in [Requests -> Request], Unmoved(r), Formed(r)',
           UNCHANGED <<SM!stored, managers, cache, mixed>>,
           apart' => apart,
           apart' /\ Together => GoesOn(r)
    PROVE  ManagersInv'
<1>1. /\ storedAliases' = storedAliases /\ storedInvariant' = storedInvariant
      /\ managers' = managers /\ cache' = cache /\ mixed' = mixed
  BY DEF SM!stored
<1>2. managers \in Seq(Manager) /\ Len(managers) \in Nat
  BY DEF ManagersInv, Shape
<1>3. Shape'
  BY <1>1, <1>2, ShapeStays DEF ManagersInv, Shape
<1>4. Watched' = Watched
  BY <1>1 DEF Watched
<1>5. \A m : Carried(m)
  BY <1>1 DEF Carried, Has, SM!Loading, SM!Effective
<1>6. ASSUME apart' PROVE Together'
  BY <1>1, <1>4, <1>5, <1>6, Passing DEF ManagersInv
<1> QED
  BY <1>3, <1>6 DEF ManagersInv

\* Who updates is the only one to, and what is being loaded waits for it.
LEMMA OnlyOne ==
    ASSUME Together, NEW r \in Requests, SM!Updating(r)
    PROVE  /\ \A q \in Requests \ {r} : ~SM!Updating(q)
           /\ ~SM!OtherUpdate(r)
           /\ \A m \in Watched : SM!Loading(m) => Changing(r) /\ SM!Visiting(r) /\ SM!Current(r) = m
  BY DEF Together, Alone, LoadsFresh, SM!OtherUpdate

\* A request that ends has nobody left to tell, or breaks the condition.
LEMMA EndsStep ==
    ASSUME ManagersInv, NEW r \in Requests, SM!Answer(r), UNCHANGED <<SM!stored, managers, cache, mixed>>,
           apart' => apart,
           apart' /\ req[r].kind \in {"aliases", "put", "delete"} =>
               \/ req[r].pc \in {"save", "read"}
               \/ req[r].pc = "get" /\ req[r].kind # "aliases"
               \/ req[r].pc = "visit" /\ req[r].visit = <<>>
    PROVE  ManagersInv'
<1>1. /\ req' \in [Requests -> Request] /\ Unmoved(r) /\ req'[r].pc = "idle"
      /\ req'[r].kind = "use" /\ req'[r].visit = <<>>
  <2>1. req \in [Requests -> Request]
    BY DEF ManagersInv, Shape
  <2> QED
    BY <2>1, Answered
<1>2. Formed(r)'
  BY <1>1 DEF Formed
<1>3. ASSUME apart', Together PROVE GoesOn(r)
  <2>1. ~SM!Updating(r)' /\ ~Changing(r)'
    BY <1>1 DEF SM!Updating, Changing
  <2>2. ToSet(<<>>) = {}
    BY DEF ToSet
  <2>3. \A m : ~WillSet(r, m)
    BY <1>3, <2>2 DEF WillSet
  <2>4. \A m : ~(Changing(r) /\ m \in ToSet(req[r].visit))
    BY <1>3, <2>2 DEF Changing
  <2> QED
    BY <1>1, <2>1, <2>3, <2>4 DEF GoesOn
<1> QED
  BY <1>1, <1>2, <1>3, QuietStep

LEMMA ReadKeeps ==
    ASSUME ManagersInv, NEW r \in Requests, SM!ReadAliases(r)
    PROVE  ManagersInv'
<1>1. req[r] \in Request /\ Formed(r) /\ req[r].pc = "read" /\ req[r].kind = "refresh" /\ storedAliases \in Aliases
  BY DEF ManagersInv, Shape, Formed, SM!ReadAliases
<1>2. PICK old \in Request : old = req[r]
  BY <1>1
<1>3. PICK new : new = [old EXCEPT !.pc = "get", !.value = storedAliases]
  OBVIOUS
<1>4. /\ new \in Request /\ new.pc = "get" /\ new.kind = old.kind /\ new.target = old.target
      /\ new.value = storedAliases /\ new.visit = old.visit
  BY <1>1, <1>3 DEF Request
<1>5. req' = [req EXCEPT ![r] = new]
  BY <1>2, <1>3 DEF SM!ReadAliases
<1>6. /\ req' \in [Requests -> Request] /\ Unmoved(r) /\ req'[r] = new
  <2>1. req \in [Requests -> Request]
    BY DEF ManagersInv, Shape
  <2> QED
    BY <1>4, <1>5, <2>1, Turns
<1>7. Formed(r)'
  BY <1>1, <1>2, <1>4, <1>6 DEF Formed, SM!ReadAliases
<1>8. ASSUME Together PROVE GoesOn(r)
  <2>1. SM!Updating(r)
    BY <1>1 DEF SM!Updating
  <2>2. ~Changing(r) /\ ~Changing(r)' /\ Watched' = Watched /\ \A m : SM!Loading(m)' = SM!Loading(m)
    BY <1>1, <1>2, <1>4, <1>6 DEF Changing, SM!ReadAliases, Watched, SM!Loading
  <2>3. \A m \in Watched : ~SM!Loading(m)
    BY <1>8, <2>1, <2>2, OnlyOne
  <2>4. \A m : ~WillSet(r, m)
    BY <1>1 DEF WillSet
  <2> QED
    BY <1>1, <1>2, <1>4, <1>6, <2>1, <2>2, <2>3, <2>4 DEF GoesOn
<1> QED
  BY <1>6, <1>7, <1>8, QuietStep DEF SM!ReadAliases

LEMMA StorageFailsKeeps ==
    ASSUME ManagersInv, NEW r \in Requests, SM!StorageFails(r)
    PROVE  ManagersInv'
  BY EndsStep DEF SM!StorageFails, SM!CallFails

LEMMA GovernanceFailedKeeps ==
    ASSUME ManagersInv, NEW r \in Requests, SM!GovernanceFailed(r)
    PROVE  ManagersInv'
  BY EndsStep DEF SM!GovernanceFailed

LEMMA FinishKeeps ==
    ASSUME ManagersInv, NEW r \in Requests, SM!Finish(r)
    PROVE  ManagersInv'
  BY EndsStep DEF SM!Finish

LEMMA HydrateKeeps ==
    ASSUME ManagersInv, NEW r \in Requests, SM!Hydrate(r)
    PROVE  ManagersInv'
<1>1. req[r] \in Request /\ Formed(r) /\ req[r].pc = "get" /\ storedAliases \in Aliases
  BY DEF ManagersInv, Shape, SM!Hydrate
<1>2. PICK old \in Request : old = req[r]
  BY <1>1
<1>3. PICK other \in BOOLEAN : other = SM!OtherUpdate(r)
  BY DEF SM!OtherUpdate
<1>4. PICK new : new = [old EXCEPT !.pc = "build", !.aliases = storedAliases, !.mixed = other]
  OBVIOUS
<1>5. /\ new \in Request /\ new.pc = "build" /\ new.kind = old.kind /\ new.target = old.target
      /\ new.value = old.value /\ new.visit = old.visit /\ new.aliases = storedAliases
      /\ new.mixed = other
  BY <1>1, <1>3, <1>4 DEF Request
<1>6. req' = [req EXCEPT ![r] = new]
  BY <1>2, <1>3, <1>4 DEF SM!Hydrate
<1>7. /\ req' \in [Requests -> Request] /\ Unmoved(r) /\ req'[r] = new
  <2>1. req \in [Requests -> Request]
    BY DEF ManagersInv, Shape
  <2> QED
    BY <1>5, <1>6, <2>1, Turns
<1>8. Formed(r)'
  BY <1>1, <1>2, <1>5, <1>7 DEF Formed, SM!Hydrate
<1>9. ASSUME Together PROVE GoesOn(r)
  <2>1. SM!Updating(r)' = SM!Updating(r)
    BY <1>1, <1>2, <1>5, <1>7 DEF SM!Updating
  <2>2. ~Changing(r) /\ ~Changing(r)' /\ Watched' = Watched /\ \A m : SM!Loading(m)' = SM!Loading(m)
    BY <1>1, <1>2, <1>5, <1>7 DEF Changing, SM!Hydrate, Watched, SM!Loading
  <2>3. \A m \in Watched : SM!Loading(m) => ~SM!Updating(r)
    BY <1>9, <2>2, OnlyOne
  <2>4. \A m : WillSet(r, m) => WillSet(r, m)'
    BY <1>1, <1>2, <1>5, <1>7 DEF WillSet
  <2>5. req[r].kind \in {"aliases", "refresh"} => req[r].value = storedAliases
    BY <1>1, <1>9 DEF Together, ValueIsStored
  <2> QED
    BY <1>1, <1>2, <1>3, <1>5, <1>7, <2>1, <2>2, <2>3, <2>4, <2>5 DEF GoesOn
<1> QED
  BY <1>7, <1>8, <1>9, QuietStep DEF SM!Hydrate

LEMMA UseKeeps == ASSUME ManagersInv, NEW r \in Requests, SM!Use(r) PROVE ManagersInv'
<1>1. req[r] \in Request /\ Formed(r) /\ req[r].pc = "visit" /\ req[r].visit # <<>> /\ req[r].kind = "use"
  BY DEF ManagersInv, Shape, SM!Use, SM!Loaded, SM!NeedsGovernance, SM!Visiting
<1>2. /\ req' \in [Requests -> Request] /\ Unmoved(r) /\ req'[r].pc = "visit"
      /\ req'[r].kind = "use" /\ req'[r].visit = Tail(req[r].visit)
  <2>1. req \in [Requests -> Request]
    BY DEF ManagersInv, Shape
  <2> QED
    BY <1>1, <2>1, Passes DEF SM!Use
<1>3. Formed(r)'
  <2>1. managers' = managers
    BY DEF SM!Use
  <2> QED
    BY <1>1, <1>2, <2>1, CurrentIs DEF ManagersInv, Formed
<1>4. ~SM!Updating(r)' /\ ~Changing(r) /\ ~Changing(r)' /\ \A m : ~WillSet(r, m)
  BY <1>1, <1>2 DEF SM!Updating, Changing, WillSet
<1>5. GoesOn(r)
  BY <1>2, <1>4 DEF GoesOn
<1> QED
  BY <1>2, <1>3, <1>5, QuietStep DEF SM!Use

\* The list of an update has every manager that is watched.
LEMMA ListHasAll ==
    ASSUME Shape, NEW r \in Requests, req[r].kind # "use", NEW m \in Nat \ {0},
           NEW t \in SM!Targets, cache[t] # 0, t = req[r].target => cache[t] = m
    PROVE  cache[t] \in ToSet(SM!Got(r, m))
<1>1. req[r].target = SM!Base
  BY DEF Shape, Formed
<1>2. CASE t = SM!Base
  BY <1>1, <1>2, GotFits
<1>3. CASE t # SM!Base
  BY <1>3, GotFits DEF SM!Targets
<1> QED
  BY <1>2, <1>3

LEMMA HitKeeps == ASSUME ManagersInv, NEW r \in Requests, SM!Hit(r) PROVE ManagersInv'
<1>1. /\ req[r] \in Request /\ Formed(r) /\ req[r].pc = "get" /\ req \in [Requests -> Request]
      /\ Len(managers) \in Nat
  BY DEF ManagersInv, Shape, SM!Hit
<1>2. PICK m : m = cache[req[r].target]
  OBVIOUS
<1>3. m \in 1..Len(managers)
  <2>1. req[r].target \in SM!Targets /\ cache \in [SM!Targets -> 0..Len(managers)] /\ m # 0
    BY <1>1, <1>2 DEF Request, ManagersInv, Shape, SM!Hit
  <2> QED
    BY <1>1, <1>2, <2>1
<1>4. PICK list : list = SM!Got(r, m)
  OBVIOUS
<1>5. list \in Seq(Nat) /\ \A n \in 1..Len(list) : list[n] \in 1..Len(managers)
  <2>1. list \in Seq(Nat) /\ ToSet(list) \subseteq {m} \cup (1..Len(managers))
    BY <1>1, <1>3, <1>4, GotFits DEF ManagersInv
  <2>2. ToSet(list) \subseteq 1..Len(managers)
    BY <1>3, <2>1
  <2> QED
    BY <1>1, <2>1, <2>2, Within
<1>6. PICK old \in Request : old = req[r]
  BY <1>1
<1>7. PICK new : new = [old EXCEPT !.pc = "visit", !.visit = list]
  OBVIOUS
<1>8. /\ new \in Request /\ new.pc = "visit" /\ new.kind = old.kind /\ new.target = old.target
      /\ new.value = old.value /\ new.visit = list
  BY <1>5, <1>7 DEF Request
<1>9. req' = [req EXCEPT ![r] = new]
  BY <1>2, <1>4, <1>6, <1>7 DEF SM!Hit
<1>10. /\ req' \in [Requests -> Request] /\ Unmoved(r) /\ req'[r] = new
  BY <1>1, <1>8, <1>9, Turns
<1>11. Formed(r)'
  BY <1>1, <1>5, <1>6, <1>8, <1>10 DEF Formed, SM!Hit
<1>12. ASSUME Together PROVE GoesOn(r)
  <2>1. SM!Updating(r)' = SM!Updating(r)
    BY <1>1, <1>6, <1>8, <1>10 DEF SM!Updating
  <2>2. ~Changing(r) /\ Watched' = Watched /\ \A x : SM!Loading(x)' = SM!Loading(x) /\ Has(x)' = Has(x)
    BY <1>1 DEF Changing, SM!Hit, Watched, SM!Loading, Has, SM!stored
  <2>3. \A x \in Watched : SM!Loading(x) => ~SM!Updating(r)
    BY <1>12, <2>2, OnlyOne
  <2>4. ASSUME req[r].kind # "use" PROVE \A x \in Watched : x \in ToSet(list)
    <3> TAKE x \in Watched
    <3>1. PICK t \in SM!Targets : cache[t] = x
      BY DEF Watched
    <3>2. x # 0
      BY <1>1 DEF Watched, ManagersInv, Shape
    <3>3. t = req[r].target => cache[t] = m
      BY <1>2
    <3>4. m \in Nat \ {0}
      BY <1>1, <1>3
    <3> QED
      BY <1>4, <2>4, <3>1, <3>2, <3>3, <3>4, ListHasAll DEF ManagersInv
  <2>5. \A x \in Watched : WillSet(r, x) => WillSet(r, x)'
    BY <1>1, <1>6, <1>8, <1>10, <2>4 DEF WillSet
  <2>6. req[r].kind \in {"aliases", "refresh"} => req[r].value = storedAliases
    BY <1>1, <1>12 DEF Together, ValueIsStored
  <2>7. ASSUME req[r].kind \in {"put", "delete"} PROVE \A x \in Watched : Has(x)
    <3>1. SM!Updating(r)
      BY <1>1, <2>7 DEF SM!Updating
    <3>2. \A q \in Requests : ~Changing(q)
      BY <1>12, <2>2, <3>1, OnlyOne DEF Changing, SM!Updating
    <3> QED
      BY <1>12, <3>2 DEF Together, InvariantReaches
  <2>8. Changing(r)' => \A x \in Watched' : x \in ToSet(req'[r].visit) /\ Has(x)'
    BY <1>6, <1>8, <1>10, <2>2, <2>4, <2>7 DEF Changing
  <2> QED
    BY <1>1, <1>6, <1>8, <1>10, <2>1, <2>2, <2>3, <2>5, <2>6, <2>8 DEF GoesOn
<1> QED
  BY <1>10, <1>11, <1>12, QuietStep DEF SM!Hit
-----------------------------------------------------------------------------
\* Steps that no request takes, and a manager that loads.

LEMMA Standing ==
    ASSUME ManagersInv, req' = req, storedAliases' = storedAliases, storedInvariant' = storedInvariant,
           managers' \in Seq(Manager), Len(managers') = Len(managers),
           \A m \in 1..Len(managers) :
              /\ managers'[m].aliases = managers[m].aliases
              /\ managers[m].governance = "loaded" =>
                    managers'[m].governance = "loaded" /\ managers'[m].invariant = managers[m].invariant,
           cache' \in [SM!Targets -> 0..Len(managers)],
           apart' = apart, Watched' \subseteq Watched,
           apart => \A m \in Watched' :
              /\ Has(m) => Has(m)'
              /\ SM!Loading(m)' =>
                    /\ managers'[m].found = storedInvariant
                    /\ \A q \in Requests :
                          SM!Updating(q) => Changing(q) /\ SM!Visiting(q) /\ SM!Current(q) = m
    PROVE  ManagersInv'
<1>1. Len(managers) \in Nat
  BY DEF ManagersInv, Shape
<1>2. Shape'
  <2>1. \A q \in Requests : Formed(q)'
    BY <1>1, FormedStays DEF ManagersInv
  <2> QED
    BY <2>1 DEF ManagersInv, Shape
<1>3. ASSUME apart' PROVE Together'
  <2>1. \A q \in Requests :
           /\ SM!Updating(q)' = SM!Updating(q) /\ Changing(q)' = Changing(q) /\ SM!OtherUpdate(q)' = SM!OtherUpdate(q)
           /\ SM!Visiting(q)' = SM!Visiting(q) /\ SM!Current(q)' = SM!Current(q) /\ Outcome(q)' = Outcome(q)
           /\ \A m : WillSet(q, m)' = WillSet(q, m)
    BY DEF SM!Updating, Changing, SM!OtherUpdate, SM!Visiting, SM!Current, Outcome, WillSet
  <2>2. Together
    BY <1>3 DEF ManagersInv
  <2>3. Watched \subseteq 1..Len(managers)
    BY DEF Watched, ManagersInv, Shape
  <2>4. Alone' /\ BuildsFresh' /\ ValueIsStored'
    BY <2>1, <2>2 DEF Together, Alone, BuildsFresh, ValueIsStored
  <2>5. LoadsFresh'
    BY <1>3, <2>1 DEF LoadsFresh
  <2>6. AliasesReach'
    BY <2>1, <2>2, <2>3 DEF Together, AliasesReach
  <2>7. InvariantReaches'
    BY <1>3, <2>1, <2>2 DEF Together, InvariantReaches
  <2>8. SM!Effective(storedInvariant)' = SM!Effective(storedInvariant)
    BY DEF SM!Effective
  <2>9. Handed'
    BY <1>3, <2>1, <2>2, <2>8 DEF Together, Handed
  <2>10. Storing'
    <3> SUFFICES ASSUME NEW q \in Requests, req[q].pc = "store"
                 PROVE  managers'[SM!Current(q)].invariant = Outcome(q)
      BY <2>1 DEF Storing
    <3>1. req[q].visit # <<>> /\ managers[SM!Current(q)].governance = "loaded"
      BY DEF ManagersInv, Shape, Formed
    <3>2. SM!Current(q) \in 1..Len(managers)
      BY <3>1, CurrentIs DEF ManagersInv
    <3> QED
      BY <2>2, <3>1, <3>2 DEF Together, Storing
  <2> QED
    BY <2>4, <2>5, <2>6, <2>7, <2>9, <2>10 DEF Together
<1> QED
  BY <1>2, <1>3 DEF ManagersInv

LEMMA EvictKeeps ==
    ASSUME ManagersInv, NEW t \in SM!Targets, SM!Evict(t)
    PROVE  ManagersInv'
<1>1. managers \in Seq(Manager) /\ Len(managers) \in Nat /\ cache \in [SM!Targets -> 0..Len(managers)]
  BY DEF ManagersInv, Shape
<1>2. /\ managers' = managers /\ req' = req /\ mixed' = mixed /\ apart' = apart
      /\ storedAliases' = storedAliases /\ storedInvariant' = storedInvariant
  BY DEF SM!Evict, SM!stored
<1>3. cache' \in [SM!Targets -> 0..Len(managers)] /\ \A u \in SM!Targets :
                                                        cache'[u] = 0 \/ cache'[u] = cache[u]
  BY <1>1 DEF SM!Evict
<1>4. Watched' \subseteq Watched
  BY <1>1, <1>2, <1>3 DEF Watched
<1>5. \A m : Has(m)' = Has(m) /\ SM!Loading(m)' = SM!Loading(m)
  BY <1>2 DEF Has, SM!Loading, SM!Effective
<1>6. apart => LoadsFresh
  BY DEF ManagersInv, Together
<1>7. apart => \A m \in Watched' :
         /\ Has(m) => Has(m)'
         /\ SM!Loading(m)' =>
               /\ managers'[m].found = storedInvariant
               /\ \A q \in Requests : SM!Updating(q) => Changing(q) /\ SM!Visiting(q) /\ SM!Current(q) = m
  BY <1>2, <1>4, <1>5, <1>6 DEF LoadsFresh
<1> QED
  BY <1>1, <1>2, <1>3, <1>4, <1>7, Standing

LEMMA GovernanceLoadedKeeps ==
    ASSUME ManagersInv, NEW c \in DOMAIN managers, SM!GovernanceLoaded(c)
    PROVE  ManagersInv'
<1>1. /\ managers \in Seq(Manager) /\ Len(managers) \in Nat /\ cache \in [SM!Targets -> 0..Len(managers)]
      /\ c \in 1..Len(managers)
  BY DEF ManagersInv, Shape
<1>2. PICK old \in Manager : old = managers[c]
  BY <1>1
<1>3. PICK inv : inv = SM!Effective(old.found)
  OBVIOUS
<1>4. inv \in Values \cup {None, Configured}
  BY <1>3 DEF SM!Effective, Manager, Rows
<1>5. PICK row : row = [old EXCEPT !.governance = "loaded", !.invariant = inv]
  OBVIOUS
<1>6. row \in Manager /\ row.governance = "loaded" /\ row.invariant = inv /\ row.aliases = old.aliases
  BY <1>4, <1>5 DEF Manager
<1>7. managers' = [managers EXCEPT ![c] = row]
  BY <1>2, <1>3, <1>5 DEF SM!GovernanceLoaded
<1>8. /\ managers' \in Seq(Manager) /\ Len(managers') = Len(managers) /\ managers'[c] = row
      /\ \A m \in 1..Len(managers) : m # c => managers'[m] = managers[m]
  BY <1>1, <1>6, <1>7, RowTurns
<1>9. /\ req' = req /\ mixed' = mixed /\ apart' = apart /\ cache' = cache
      /\ storedAliases' = storedAliases /\ storedInvariant' = storedInvariant
      /\ old.governance = "loading"
  BY <1>2 DEF SM!GovernanceLoaded, SM!stored, SM!Loading
<1>10. Watched' = Watched /\ Watched \subseteq 1..Len(managers)
  BY <1>1, <1>8, <1>9 DEF Watched
<1>11. \A m \in 1..Len(managers) :
          /\ managers'[m].aliases = managers[m].aliases
          /\ managers[m].governance = "loaded" =>
                managers'[m].governance = "loaded" /\ managers'[m].invariant = managers[m].invariant
  BY <1>2, <1>6, <1>8, <1>9
<1>12. ASSUME apart, NEW m \in Watched
       PROVE  /\ Has(m) => Has(m)'
              /\ SM!Loading(m)' =>
                    /\ managers'[m].found = storedInvariant
                    /\ \A q \in Requests :
                          SM!Updating(q) => Changing(q) /\ SM!Visiting(q) /\ SM!Current(q) = m
  <2>1. LoadsFresh
    BY <1>12 DEF ManagersInv, Together
  <2>2. CASE m = c
    <3>1. ~SM!Loading(m)'
      BY <1>6, <1>8, <2>2 DEF SM!Loading
    <3>2. old.found = storedInvariant
      BY <1>2, <1>9, <2>1, <2>2 DEF LoadsFresh, SM!Loading
    <3>3. Has(m)'
      BY <1>3, <1>6, <1>8, <1>9, <2>2, <3>2 DEF Has, SM!Effective
    <3> QED
      BY <3>1, <3>3
  <2>3. CASE m # c
    <3>1. managers'[m] = managers[m]
      BY <1>8, <1>10, <2>3
    <3>2. Has(m)' = Has(m) /\ SM!Loading(m)' = SM!Loading(m)
      BY <1>9, <3>1 DEF Has, SM!Loading, SM!Effective
    <3> QED
      BY <2>1, <3>1, <3>2 DEF LoadsFresh
  <2> QED
    BY <2>2, <2>3
<1> QED
  BY <1>1, <1>8, <1>9, <1>10, <1>11, <1>12, Standing

LEMMA ReadGovernanceKeeps ==
    ASSUME ManagersInv, NEW r \in Requests, SM!ReadGovernance(r)
    PROVE  ManagersInv'
<1>1. /\ managers \in Seq(Manager) /\ Len(managers) \in Nat /\ cache \in [SM!Targets -> 0..Len(managers)]
      /\ storedInvariant \in Rows
  BY DEF ManagersInv, Shape
<1>2. req[r].visit # <<>> /\ req[r].pc = "visit" /\ req[r].kind \in {"use", "put", "delete"}
  BY DEF SM!ReadGovernance, SM!NeedsGovernance, SM!Visiting
<1>3. PICK c \in 1..Len(managers) : c = SM!Current(r)
  BY <1>2, CurrentIs DEF ManagersInv
<1>4. PICK old \in Manager : old = managers[c]
  BY <1>1
<1>5. PICK row : row = [old EXCEPT !.governance = "loading", !.found = storedInvariant]
  OBVIOUS
<1>6. /\ row \in Manager /\ row.governance = "loading" /\ row.invariant = old.invariant
      /\ row.aliases = old.aliases /\ row.found = storedInvariant
  BY <1>1, <1>5 DEF Manager
<1>7. managers' = [managers EXCEPT ![c] = row]
  BY <1>3, <1>4, <1>5 DEF SM!ReadGovernance
<1>8. /\ managers' \in Seq(Manager) /\ Len(managers') = Len(managers) /\ managers'[c] = row
      /\ \A m \in 1..Len(managers) : m # c => managers'[m] = managers[m]
  BY <1>1, <1>6, <1>7, RowTurns
<1>9. /\ req' = req /\ apart' = apart /\ cache' = cache
      /\ storedAliases' = storedAliases /\ storedInvariant' = storedInvariant
      /\ old.governance = "unread"
      /\ mixed' = IF SM!OtherUpdate(r) THEN mixed \cup {c} ELSE mixed
  BY <1>3, <1>4 DEF SM!ReadGovernance, SM!stored
<1>10. Watched' \subseteq Watched /\ Watched \subseteq 1..Len(managers)
  BY <1>1, <1>8, <1>9 DEF Watched
<1>11. \A m \in 1..Len(managers) :
          /\ managers'[m].aliases = managers[m].aliases
          /\ managers[m].governance = "loaded" =>
                managers'[m].governance = "loaded" /\ managers'[m].invariant = managers[m].invariant
  BY <1>4, <1>6, <1>8, <1>9
<1>12. ASSUME apart, NEW m \in Watched'
       PROVE  /\ Has(m) => Has(m)'
              /\ SM!Loading(m)' =>
                    /\ managers'[m].found = storedInvariant
                    /\ \A q \in Requests :
                          SM!Updating(q) => Changing(q) /\ SM!Visiting(q) /\ SM!Current(q) = m
  <2>1. LoadsFresh
    BY <1>12 DEF ManagersInv, Together
  <2>2. CASE m = c
    <3>1. Has(m)' /\ managers'[m].found = storedInvariant
      BY <1>6, <1>8, <2>2 DEF Has
    <3>2. ~SM!OtherUpdate(r)
      BY <1>9, <2>2 DEF Watched
    <3>3. \A q \in Requests : SM!Updating(q) => q = r
      BY <3>2 DEF SM!OtherUpdate
    <3>4. SM!Updating(r) => Changing(r) /\ SM!Visiting(r) /\ SM!Current(r) = m
      BY <1>2, <1>3, <2>2 DEF SM!Updating, Changing, SM!Visiting
    <3> QED
      BY <3>1, <3>3, <3>4
  <2>3. CASE m # c
    <3>1. managers'[m] = managers[m]
      BY <1>8, <1>10, <2>3
    <3>2. Has(m)' = Has(m) /\ SM!Loading(m)' = SM!Loading(m)
      BY <1>9, <3>1 DEF Has, SM!Loading, SM!Effective
    <3> QED
      BY <1>10, <2>1, <3>1, <3>2 DEF LoadsFresh
  <2> QED
    BY <2>2, <2>3
<1> QED
  BY <1>1, <1>8, <1>9, <1>10, <1>11, <1>12, Standing

LEMMA RestartKeeps == ASSUME ManagersInv, SM!Restart PROVE ManagersInv'
<1>1. /\ SM!Idle \in Request /\ SM!Idle.pc = "idle" /\ SM!Idle.kind = "use" /\ SM!Idle.target = SM!Base
      /\ SM!Idle.visit = <<>>
  BY DEF SM!Idle, Request, SM!Kinds, SM!Targets, Aliases
<1>2. /\ req' \in [Requests -> Request] /\ \A r \in Requests : req'[r] = SM!Idle
      /\ cache' \in [SM!Targets -> {0}] /\ managers' = managers
      /\ storedAliases' = storedAliases /\ storedInvariant' = storedInvariant
  BY <1>1 DEF SM!Restart, SM!stored
<1>3. managers \in Seq(Manager) /\ Len(managers) \in Nat
  BY DEF ManagersInv, Shape
<1>4. cache' \in [SM!Targets -> 0..Len(managers)]
  BY <1>2, <1>3
<1>5. \A r \in Requests : Formed(r)'
  BY <1>1, <1>2 DEF Formed
<1>6. Shape'
  BY <1>2, <1>3, <1>4, <1>5 DEF ManagersInv, Shape
<1>7. Watched' = {}
  BY <1>2, <1>3 DEF Watched
<1>8. \A r \in Requests : ~SM!Updating(r)' /\ req'[r].pc = "idle"
  BY <1>1, <1>2 DEF SM!Updating
<1>9. Together'
  BY <1>7, <1>8 DEF Together, Alone, BuildsFresh, LoadsFresh, ValueIsStored, AliasesReach,
                   InvariantReaches, Handed, Changing, Storing
<1> QED
  BY <1>6, <1>9 DEF ManagersInv
-----------------------------------------------------------------------------
\* Steps in which a request changes a manager or the storage.

LEMMA ReadGovernanceFailsKeeps ==
    ASSUME ManagersInv, NEW r \in Requests, SM!ReadGovernanceFails(r)
    PROVE  ManagersInv'
<1>1. /\ managers \in Seq(Manager) /\ Len(managers) \in Nat /\ cache \in [SM!Targets -> 0..Len(managers)]
      /\ req \in [Requests -> Request] /\ storedAliases \in Aliases /\ storedInvariant \in Rows
  BY DEF ManagersInv, Shape
<1>2. PICK c \in 1..Len(managers) : c = SM!Current(r)
  BY CurrentIs DEF ManagersInv, SM!ReadGovernanceFails, SM!NeedsGovernance, SM!Visiting
<1>3. PICK old \in Manager : old = managers[c]
  BY <1>1
<1>4. PICK row : row = [old EXCEPT !.governance = "failed"]
  OBVIOUS
<1>5. /\ row \in Manager /\ row.governance = "failed" /\ row.invariant = old.invariant
      /\ row.aliases = old.aliases /\ row.found = old.found
  BY <1>4 DEF Manager
<1>6. managers' = [managers EXCEPT ![c] = row]
  BY <1>2, <1>3, <1>4 DEF SM!ReadGovernanceFails
<1>7. /\ managers' \in Seq(Manager) /\ Len(managers') = Len(managers) /\ managers'[c] = row
      /\ \A m \in 1..Len(managers) : m # c => managers'[m] = managers[m]
  BY <1>1, <1>5, <1>6, RowTurns
<1>8. /\ cache' = cache /\ mixed' = mixed
      /\ storedAliases' = storedAliases /\ storedInvariant' = storedInvariant
      /\ old.governance = "unread" /\ apart' = (apart /\ req[r].kind = "use")
  BY <1>2, <1>3 DEF SM!ReadGovernanceFails, SM!stored
<1>9. /\ req' \in [Requests -> Request] /\ Unmoved(r) /\ req'[r].pc = "idle"
      /\ req'[r].kind = "use" /\ req'[r].visit = <<>>
  BY <1>1, Answered DEF SM!ReadGovernanceFails, SM!CallFails
<1>10. Formed(r)'
  BY <1>9 DEF Formed
<1>11. Shape'
  <2>1. \A m \in 1..Len(managers) : managers[m].governance = "loaded" => managers'[m].governance = "loaded"
    BY <1>3, <1>7, <1>8
  <2> QED
    BY <1>1, <1>7, <1>8, <1>9, <1>10, <2>1, ShapeStays DEF ManagersInv
<1>12. ASSUME apart' PROVE Together'
  <2>1. Together /\ req[r].kind = "use"
    BY <1>8, <1>12 DEF ManagersInv
  <2>2. Watched' = Watched /\ Watched \subseteq 1..Len(managers)
    BY <1>1, <1>7, <1>8 DEF Watched
  <2>3. \A m \in 1..Len(managers) : managers'[m].invariant = managers[m].invariant
    BY <1>3, <1>5, <1>7
  <2>4. ASSUME NEW m \in Watched PROVE Carried(m)
    <3>1. CASE m = c
      BY <1>3, <1>5, <1>7, <1>8, <3>1 DEF Carried, Has, SM!Loading
    <3>2. CASE m # c
      <4>1. managers'[m] = managers[m]
        BY <1>7, <2>2, <3>2
      <4> QED
        BY <1>8, <4>1 DEF Carried, Has, SM!Loading, SM!Effective
    <3> QED
      BY <3>1, <3>2
  <2>5. \A q \in Requests : req[q].pc = "store" => SM!Current(q) \in 1..Len(managers)
    BY CurrentIs DEF ManagersInv, Shape, Formed
  <2>6. ~SM!Updating(r)' /\ ~Changing(r) /\ ~Changing(r)' /\ \A m : ~WillSet(r, m)
    BY <1>9, <2>1 DEF SM!Updating, Changing, WillSet
  <2>7. GoesOn(r)
    BY <1>9, <2>6 DEF GoesOn
  <2> QED
    BY <1>8, <1>9, <2>1, <2>2, <2>3, <2>4, <2>5, <2>7, Passing
<1> QED
  BY <1>11, <1>12 DEF ManagersInv

LEMMA StoreFailsKeeps ==
    ASSUME ManagersInv, NEW r \in Requests, SM!StoreFails(r)
    PROVE  ManagersInv'
<1>1. /\ managers \in Seq(Manager) /\ Len(managers) \in Nat /\ cache \in [SM!Targets -> 0..Len(managers)]
      /\ req \in [Requests -> Request] /\ storedAliases \in Aliases /\ storedInvariant \in Rows
  BY DEF ManagersInv, Shape
<1>2. /\ req' \in [Requests -> Request] /\ Unmoved(r) /\ req'[r].pc = "idle"
      /\ req'[r].kind = "use" /\ req'[r].visit = <<>>
  BY <1>1, Answered DEF SM!StoreFails, SM!CallFails
<1>3. Formed(r)'
  BY <1>2 DEF Formed
<1>4. /\ managers' = managers /\ cache' = cache /\ ~apart'
      /\ storedAliases' = storedAliases /\ storedInvariant' = storedInvariant
  BY DEF SM!StoreFails, SM!stored
<1>5. Shape'
  BY <1>1, <1>2, <1>3, <1>4, ShapeStays DEF ManagersInv
<1> QED
  BY <1>4, <1>5 DEF ManagersInv

LEMMA SaveKeeps ==
    ASSUME ManagersInv, NEW r \in Requests, SM!SaveAliases(r)
    PROVE  ManagersInv'
<1>1. /\ managers \in Seq(Manager) /\ Len(managers) \in Nat /\ cache \in [SM!Targets -> 0..Len(managers)]
      /\ req \in [Requests -> Request] /\ storedInvariant \in Rows /\ Formed(r)
  BY DEF ManagersInv, Shape
<1>2. req[r].pc = "save" /\ req[r].kind = "aliases" /\ req[r].value \in Values
  BY <1>1 DEF SM!SaveAliases, Formed
<1>3. /\ req' \in [Requests -> Request] /\ Unmoved(r) /\ req'[r].pc = "get"
      /\ req'[r].kind = req[r].kind /\ req'[r].target = req[r].target
      /\ req'[r].value = req[r].value /\ req'[r].visit = req[r].visit
  BY <1>1, GoesTo DEF SM!SaveAliases, PCs
<1>4. /\ managers' = managers /\ cache' = cache /\ mixed' = mixed /\ apart' = apart
      /\ storedAliases' = req[r].value /\ storedInvariant' = storedInvariant
  BY DEF SM!SaveAliases
<1>5. Formed(r)'
  BY <1>1, <1>2, <1>3, <1>4 DEF Formed
<1>6. Shape'
  BY <1>1, <1>2, <1>3, <1>4, <1>5, ShapeStays DEF ManagersInv, Aliases
<1>7. ASSUME apart' PROVE Together'
  <2>1. Together /\ SM!Updating(r)
    BY <1>2, <1>4, <1>7 DEF ManagersInv, SM!Updating
  <2>2. /\ \A q \in Requests \ {r} : ~SM!Updating(q) /\ req'[q] = req[q] /\ ~SM!Updating(q)'
        /\ \A m \in Watched : ~SM!Loading(m)
    BY <1>2, <1>3, <2>1, OnlyOne DEF Changing, Unmoved, SM!Updating
  <2>3. Watched' = Watched /\ \A m : Has(m)' = Has(m) /\ SM!Loading(m)' = SM!Loading(m)
    BY <1>4 DEF Watched, Has, SM!Loading, SM!Effective
  <2>4. Alone'
    BY <2>2 DEF Alone
  <2>5. BuildsFresh'
    <3>1. ASSUME NEW q \in Requests, req'[q].pc = "build", ~req'[q].mixed PROVE FALSE
      <4>1. q # r
        BY <1>3, <3>1
      <4>2. req[q].pc = "build" /\ ~req[q].mixed
        BY <2>2, <3>1, <4>1
      <4> QED
        BY <2>1, <4>1, <4>2 DEF Together, BuildsFresh, SM!OtherUpdate
    <3> QED
      BY <3>1 DEF BuildsFresh
  <2>6. LoadsFresh'
    BY <2>2, <2>3 DEF LoadsFresh
  <2>7. ValueIsStored'
    BY <1>3, <1>4, <2>2 DEF ValueIsStored, SM!Updating
  <2>8. AliasesReach'
    <3>1. \A m : WillSet(r, m)'
      BY <1>2, <1>3 DEF WillSet
    <3> QED
      BY <3>1 DEF AliasesReach
  <2>9. \A q \in Requests : ~Changing(q) /\ ~Changing(q)'
    BY <1>2, <1>3, <2>2 DEF Changing, SM!Updating
  <2>10. InvariantReaches' /\ Handed'
    BY <2>1, <2>3, <2>9 DEF Together, InvariantReaches, Handed
  <2>11. Storing'
    <3>1. ASSUME NEW q \in Requests, req'[q].pc = "store" PROVE FALSE
      <4>1. Formed(q)'
        BY <1>6 DEF Shape
      <4> QED
        BY <2>9, <3>1, <4>1 DEF Formed, Changing
    <3> QED
      BY <3>1 DEF Storing
  <2> QED
    BY <2>4, <2>5, <2>6, <2>7, <2>8, <2>10, <2>11 DEF Together
<1> QED
  BY <1>6, <1>7 DEF ManagersInv

LEMMA SetKeeps ==
    ASSUME ManagersInv, NEW r \in Requests, SM!SetAliases(r)
    PROVE  ManagersInv'
<1>1. /\ managers \in Seq(Manager) /\ Len(managers) \in Nat /\ cache \in [SM!Targets -> 0..Len(managers)]
      /\ req \in [Requests -> Request] /\ storedAliases \in Aliases /\ storedInvariant \in Rows
      /\ Formed(r) /\ req[r] \in Request
  BY DEF ManagersInv, Shape
<1>2. req[r].pc = "visit" /\ req[r].visit # <<>> /\ req[r].kind \in {"aliases", "refresh"}
  BY DEF SM!SetAliases, SM!Visiting
<1>3. PICK c \in 1..Len(managers) : c = SM!Current(r)
  BY <1>2, CurrentIs DEF ManagersInv
<1>4. PICK value \in Aliases : value = req[r].value
  BY <1>1 DEF Request
<1>5. PICK old \in Manager : old = managers[c]
  BY <1>1
<1>6. PICK row : row = IF value = None THEN old ELSE [old EXCEPT !.aliases = value]
  OBVIOUS
<1>7. /\ row \in Manager /\ row.governance = old.governance /\ row.invariant = old.invariant
      /\ row.aliases = (IF value = None THEN old.aliases ELSE value) /\ row.found = old.found
  BY <1>6 DEF Manager
<1>8. managers' = [managers EXCEPT ![c] = row]
  <2>1. managers = [managers EXCEPT ![c] = old]
    BY <1>1, <1>5
  <2> QED
    BY <1>3, <1>4, <1>5, <1>6, <2>1 DEF SM!SetAliases
<1>9. /\ managers' \in Seq(Manager) /\ Len(managers') = Len(managers) /\ managers'[c] = row
      /\ \A m \in 1..Len(managers) : m # c => managers'[m] = managers[m]
  BY <1>1, <1>7, <1>8, RowTurns
<1>10. /\ cache' = cache /\ mixed' = mixed /\ apart' = apart
       /\ storedAliases' = storedAliases /\ storedInvariant' = storedInvariant
  BY DEF SM!SetAliases, SM!stored
<1>11. /\ req' \in [Requests -> Request] /\ Unmoved(r) /\ req'[r].pc = "visit"
       /\ req'[r].kind = req[r].kind /\ req'[r].target = req[r].target
       /\ req'[r].value = req[r].value /\ req'[r].visit = Tail(req[r].visit)
  BY <1>1, <1>2, Passes DEF SM!SetAliases
<1>12. Formed(r)'
  BY <1>1, <1>2, <1>9, <1>11, CurrentIs DEF ManagersInv, Formed
<1>13. Shape'
  <2>1. \A m \in 1..Len(managers) : managers[m].governance = "loaded" => managers'[m].governance = "loaded"
    BY <1>5, <1>7, <1>9
  <2> QED
    BY <1>1, <1>9, <1>10, <1>11, <1>12, <2>1, ShapeStays DEF ManagersInv
<1>14. ASSUME apart' PROVE Together'
  <2>1. Together /\ SM!Updating(r)
    BY <1>2, <1>10, <1>14 DEF ManagersInv, SM!Updating
  <2>2. value = storedAliases
    BY <1>2, <1>4, <2>1 DEF Together, ValueIsStored
  <2>3. Watched' = Watched /\ Watched \subseteq 1..Len(managers)
    BY <1>1, <1>9, <1>10 DEF Watched
  <2>4. \A m \in 1..Len(managers) :
           managers'[m].invariant = managers[m].invariant /\ managers'[m].governance = managers[m].governance
           /\ managers'[m].found = managers[m].found
    BY <1>5, <1>7, <1>9
  <2>5. \A m \in 1..Len(managers) :
           managers[m].aliases = storedAliases => managers'[m].aliases = storedAliases
    BY <1>5, <1>7, <1>9, <2>2
  <2>6. \A m \in Watched : Carried(m)
    BY <1>10, <2>3, <2>4, <2>5 DEF Carried, Has, SM!Loading, SM!Effective
  <2>7. \A q \in Requests : req[q].pc = "store" => SM!Current(q) \in 1..Len(managers)
    BY CurrentIs DEF ManagersInv, Shape, Formed
  <2>8. ~Changing(r) /\ ~Changing(r)' /\ SM!Updating(r)'
    BY <1>2, <1>11 DEF Changing, SM!Updating
  <2>9. \A m \in Watched : ~SM!Loading(m)'
    <3>1. \A m \in Watched : ~SM!Loading(m)
      BY <2>1, <2>8, OnlyOne
    <3> QED
      BY <2>6, <3>1 DEF Carried
  <2>10. ASSUME NEW m \in Watched, WillSet(r, m)
         PROVE  managers'[m].aliases = storedAliases \/ WillSet(r, m)'
    <3>1. req[r].kind = "aliases" /\ m \in ToSet(req[r].visit)
      BY <1>2, <2>10 DEF WillSet
    <3>2. CASE m = c
      <4>1. value \in Values
        BY <1>1, <1>4, <3>1 DEF Formed
      <4> QED
        BY <1>7, <1>9, <2>2, <3>2, <4>1, ScopeAssumption
    <3>3. CASE m # c
      <4>1. m \in ToSet(Tail(req[r].visit))
        BY <1>2, <1>3, <3>1, <3>3, CurrentIs DEF ManagersInv
      <4> QED
        BY <1>11, <3>1, <4>1 DEF WillSet
    <3> QED
      BY <3>2, <3>3
  <2>11. GoesOn(r)
    BY <1>4, <1>11, <2>1, <2>2, <2>3, <2>8, <2>9, <2>10 DEF GoesOn
  <2> QED
    BY <1>10, <1>11, <2>1, <2>3, <2>4, <2>6, <2>7, <2>11, Passing
<1> QED
  BY <1>13, <1>14 DEF ManagersInv

\* A manager takes the change and the storage is still to be told.
LEMMA TakesStep ==
    ASSUME ManagersInv, NEW r \in Requests, SM!Loaded(r), req[r].kind \in {"put", "delete"},
           managers' = [managers EXCEPT ![SM!Current(r)].invariant = Outcome(r)],
           SM!Goto(r, "store"), UNCHANGED <<SM!stored, cache, apart, mixed>>
    PROVE  ManagersInv'
<1>1. /\ managers \in Seq(Manager) /\ Len(managers) \in Nat /\ cache \in [SM!Targets -> 0..Len(managers)]
      /\ req \in [Requests -> Request] /\ storedAliases \in Aliases /\ storedInvariant \in Rows
      /\ Formed(r) /\ req[r] \in Request
  BY DEF ManagersInv, Shape
<1>2. req[r].pc = "visit" /\ req[r].visit # <<>> /\ managers[SM!Current(r)].governance = "loaded"
  BY DEF SM!Loaded, SM!NeedsGovernance, SM!Visiting
<1>3. PICK c \in 1..Len(managers) : c = SM!Current(r)
  BY <1>2, CurrentIs DEF ManagersInv
<1>4. PICK old \in Manager : old = managers[c]
  BY <1>1
<1>5. PICK value : value = Outcome(r)
  OBVIOUS
<1>6. value \in Values \cup {None, Configured}
  BY <1>1, <1>5 DEF Outcome, Formed
<1>7. PICK row : row = [old EXCEPT !.invariant = value]
  OBVIOUS
<1>8. /\ row \in Manager /\ row.governance = old.governance /\ row.invariant = value
      /\ row.aliases = old.aliases /\ row.found = old.found
  BY <1>6, <1>7 DEF Manager
<1>9. managers' = [managers EXCEPT ![c] = row]
  BY <1>3, <1>4, <1>5, <1>7
<1>10. /\ managers' \in Seq(Manager) /\ Len(managers') = Len(managers) /\ managers'[c] = row
       /\ \A m \in 1..Len(managers) : m # c => managers'[m] = managers[m]
  BY <1>1, <1>8, <1>9, RowTurns
<1>11. /\ cache' = cache /\ mixed' = mixed /\ apart' = apart
       /\ storedAliases' = storedAliases /\ storedInvariant' = storedInvariant
  BY DEF SM!stored
<1>12. /\ req' \in [Requests -> Request] /\ Unmoved(r) /\ req'[r].pc = "store"
       /\ req'[r].kind = req[r].kind /\ req'[r].target = req[r].target
       /\ req'[r].value = req[r].value /\ req'[r].visit = req[r].visit
  BY <1>1, GoesTo DEF PCs
<1>13. SM!Current(r)' = c /\ Outcome(r)' = value
  BY <1>3, <1>5, <1>12 DEF SM!Current, Outcome
<1>14. Formed(r)'
  BY <1>1, <1>2, <1>3, <1>4, <1>8, <1>10, <1>12, <1>13 DEF Formed
<1>15. Shape'
  <2>1. \A m \in 1..Len(managers) : managers[m].governance = "loaded" => managers'[m].governance = "loaded"
    BY <1>4, <1>8, <1>10
  <2>2. Len(managers') \in Nat /\ Len(managers) <= Len(managers') /\ cache' \in [SM!Targets -> 0..Len(managers')]
    BY <1>1, <1>10, <1>11
  <2>3. managers' \in Seq(Manager) /\ storedAliases' \in Aliases /\ storedInvariant' \in Rows /\ Shape
    BY <1>1, <1>10, <1>11 DEF ManagersInv
  <2> QED
    BY <1>12, <1>14, <2>1, <2>2, <2>3, ShapeStays
<1>16. ASSUME apart' PROVE Together'
  <2>1. Together /\ SM!Updating(r)
    BY <1>2, <1>11, <1>16 DEF ManagersInv, SM!Updating
  <2>2. \A q \in Requests \ {r} :
           ~SM!Updating(q) /\ req'[q] = req[q] /\ ~SM!Updating(q)' /\ ~SM!OtherUpdate(r)
    BY <1>12, <2>1, OnlyOne DEF Unmoved, SM!Updating
  <2>3. Watched' = Watched /\ Watched \subseteq 1..Len(managers)
    BY <1>1, <1>10, <1>11 DEF Watched
  <2>4. \A m \in 1..Len(managers) :
           /\ managers'[m].aliases = managers[m].aliases /\ managers'[m].governance = managers[m].governance
           /\ managers'[m].found = managers[m].found
           /\ m # c => managers'[m].invariant = managers[m].invariant
    BY <1>4, <1>8, <1>10
  <2>5. \A m \in 1..Len(managers) : m # c => Has(m)' = Has(m)
    BY <1>11, <2>4 DEF Has, SM!Effective
  <2>6. SM!Updating(r)' /\ Changing(r) /\ Changing(r)' /\ ToSet(req'[r].visit) = ToSet(req[r].visit)
        /\ c \in ToSet(req[r].visit)
    BY <1>2, <1>3, <1>12, CurrentIs DEF ManagersInv, SM!Updating, Changing
  <2>7. Alone'
    BY <2>2 DEF Alone
  <2>8. BuildsFresh'
    <3>1. ASSUME NEW q \in Requests, req'[q].pc = "build", ~req'[q].mixed PROVE FALSE
      <4>1. q # r
        BY <1>12, <3>1
      <4>2. req[q].pc = "build" /\ ~req[q].mixed
        BY <2>2, <3>1, <4>1
      <4> QED
        BY <2>1, <4>1, <4>2 DEF Together, BuildsFresh, SM!OtherUpdate
    <3> QED
      BY <3>1 DEF BuildsFresh
  <2>9. LoadsFresh'
    <3>1. \A m \in Watched : ~SM!Loading(m)
      BY <1>2, <1>3, <2>1, OnlyOne DEF SM!Loading
    <3>2. \A m \in Watched : ~SM!Loading(m)'
      BY <2>3, <2>4, <3>1 DEF SM!Loading
    <3> QED
      BY <2>3, <3>2 DEF LoadsFresh
  <2>10. ValueIsStored'
    BY <1>12, <2>2 DEF ValueIsStored, SM!Updating
  <2>11. \A q \in Requests, m \in Watched : ~WillSet(q, m)
    BY <2>2 DEF WillSet, SM!Updating
  <2>12. AliasesReach'
    BY <1>11, <2>1, <2>3, <2>4, <2>11 DEF Together, AliasesReach
  <2>13. InvariantReaches'
    <3> SUFFICES ASSUME NEW m \in Watched PROVE Has(m)' \/ m \in ToSet(req'[r].visit)
      BY <2>3, <2>6 DEF InvariantReaches
    <3>1. Has(m) \/ \E q \in Requests : Changing(q) /\ m \in ToSet(req[q].visit)
      BY <2>1 DEF Together, InvariantReaches
    <3>2. \A q \in Requests : Changing(q) => q = r
      BY <2>2 DEF Changing, SM!Updating
    <3> QED
      BY <2>3, <2>5, <2>6, <3>1, <3>2
  <2>14. Handed'
    <3>1. \A q \in Requests : Changing(q)' => q = r
      BY <2>2 DEF Changing, SM!Updating
    <3>2. \/ SM!Effective(storedInvariant) = Outcome(r)
          \/ \A m \in Watched : m \in ToSet(req[r].visit) /\ Has(m)
      BY <1>2, <2>1, <2>6 DEF Together, Handed
    <3>3. SM!Effective(storedInvariant)' = SM!Effective(storedInvariant)
      BY <1>11 DEF SM!Effective
    <3>4. CASE SM!Effective(storedInvariant) = Outcome(r)
      BY <1>5, <1>13, <3>1, <3>3, <3>4 DEF Handed
    <3>5. CASE \A m \in Watched : m \in ToSet(req[r].visit) /\ Has(m)
      <4>1. \A m \in Watched' :
               m \in ToSet(req'[r].visit) /\ (Has(m)' \/ (req'[r].pc = "store" /\ m = SM!Current(r)'))
        BY <1>12, <1>13, <2>3, <2>5, <2>6, <3>5
      <4> QED
        BY <3>1, <4>1 DEF Handed
    <3> QED
      BY <3>2, <3>4, <3>5
  <2>15. Storing'
    <3>1. ASSUME NEW q \in Requests, req'[q].pc = "store" PROVE q = r
      <4>1. Formed(q)'
        BY <1>15 DEF Shape
      <4> QED
        BY <2>2, <3>1, <4>1 DEF Formed, SM!Updating
    <3>2. managers'[SM!Current(r)'].invariant = Outcome(r)'
      BY <1>8, <1>10, <1>13
    <3> QED
      BY <3>1, <3>2 DEF Storing
  <2> QED
    BY <2>7, <2>8, <2>9, <2>10, <2>12, <2>13, <2>14, <2>15 DEF Together
<1> QED
  BY <1>15, <1>16 DEF ManagersInv

LEMMA PutKeeps ==
    ASSUME ManagersInv, NEW r \in Requests, SM!PutInvariant(r)
    PROVE  ManagersInv'
<1>1. Outcome(r) = req[r].value
  BY DEF SM!PutInvariant, Outcome
<1> QED
  BY <1>1, TakesStep DEF SM!PutInvariant

\* A copy that has nothing to delete is what is stored, or is not watched.
LEMMA DeleteKeeps ==
    ASSUME ManagersInv, NEW r \in Requests, SM!DeleteInvariant(r)
    PROVE  ManagersInv'
<1>1. Outcome(r) = None
  BY DEF SM!DeleteInvariant, Outcome
<1>2. CASE managers[SM!Current(r)].invariant # None
  BY <1>1, <1>2, TakesStep DEF SM!DeleteInvariant
<1>3. CASE managers[SM!Current(r)].invariant = None
  <2>1. /\ managers \in Seq(Manager) /\ Len(managers) \in Nat /\ req \in [Requests -> Request]
        /\ Formed(r) /\ req[r] \in Request
    BY DEF ManagersInv, Shape
  <2>2. /\ req[r].pc = "visit" /\ req[r].visit # <<>> /\ managers[SM!Current(r)].governance = "loaded"
        /\ req[r].kind = "delete"
    BY DEF SM!DeleteInvariant, SM!Loaded, SM!NeedsGovernance, SM!Visiting
  <2>3. PICK c \in 1..Len(managers) : c = SM!Current(r)
    BY <2>2, CurrentIs DEF ManagersInv
  <2>4. PICK old \in Manager : old = managers[c]
    BY <2>1
  <2>5. managers' = managers
    <3>1. [old EXCEPT !.invariant = None] = old
      BY <1>3, <2>3, <2>4 DEF Manager
    <3>2. managers' = [managers EXCEPT ![c] = old]
      BY <2>3, <2>4, <3>1 DEF SM!DeleteInvariant
    <3> QED
      BY <2>1, <2>4, <3>2
  <2>6. /\ req' \in [Requests -> Request] /\ Unmoved(r) /\ req'[r].pc = "visit"
        /\ req'[r].kind = "delete" /\ req'[r].target = req[r].target
        /\ req'[r].value = req[r].value /\ req'[r].visit = Tail(req[r].visit)
    BY <1>3, <2>1, <2>2, Passes DEF SM!DeleteInvariant
  <2>7. Formed(r)'
    BY <2>1, <2>2, <2>5, <2>6, CurrentIs DEF ManagersInv, Formed
  <2>8. /\ cache' = cache /\ mixed' = mixed /\ apart' = apart
        /\ storedAliases' = storedAliases /\ storedInvariant' = storedInvariant
    BY DEF SM!DeleteInvariant, SM!stored
  <2>9. ASSUME Together PROVE GoesOn(r)
    <3>1. SM!Updating(r) /\ Changing(r) /\ Changing(r)' /\ Outcome(r)' = None /\ \A m : ~WillSet(r, m)
      BY <2>2, <2>6 DEF SM!Updating, Changing, Outcome, WillSet
    <3>2. Watched' = Watched /\ \A m : SM!Loading(m)' = SM!Loading(m) /\ Has(m)' = Has(m)
      BY <2>5, <2>8 DEF Watched, SM!Loading, Has, SM!Effective
    <3>3. \A m \in Watched : ~SM!Loading(m)
      BY <2>2, <2>3, <2>9, <3>1, OnlyOne DEF SM!Loading
    <3>4. \A m \in ToSet(req[r].visit) : m = c \/ m \in ToSet(req'[r].visit)
      BY <2>2, <2>3, <2>6, CurrentIs DEF ManagersInv
    <3>5. Has(c) => SM!Effective(storedInvariant) = None
      BY <1>3, <2>2, <2>3 DEF Has
    <3>6. \/ SM!Effective(storedInvariant) = None
          \/ \A m \in Watched : m \in ToSet(req[r].visit) /\ Has(m)
      BY <1>1, <2>2, <2>9, <3>1 DEF Together, Handed
    <3>7. SM!Effective(storedInvariant) = None => Has(c)
      BY <1>3, <2>2, <2>3 DEF Has
    <3>8. c \in Watched => Has(c)
      BY <3>6, <3>7
    <3>9. \/ SM!Effective(storedInvariant) = None
          \/ \A m \in Watched : m \in ToSet(req'[r].visit) /\ Has(m)
      BY <3>4, <3>5, <3>6, <3>8
    <3> QED
      BY <2>2, <2>6, <3>1, <3>2, <3>3, <3>4, <3>8, <3>9 DEF GoesOn
  <2> QED
    BY <2>5, <2>6, <2>7, <2>8, <2>9, QuietStep DEF SM!stored
<1> QED
  BY <1>2, <1>3

LEMMA StoreKeeps ==
    ASSUME ManagersInv, NEW r \in Requests, SM!StoreInvariant(r)
    PROVE  ManagersInv'
<1>1. /\ managers \in Seq(Manager) /\ Len(managers) \in Nat /\ cache \in [SM!Targets -> 0..Len(managers)]
      /\ req \in [Requests -> Request] /\ storedAliases \in Aliases /\ storedInvariant \in Rows
      /\ Formed(r) /\ req[r] \in Request
  BY DEF ManagersInv, Shape
<1>2. /\ req[r].pc = "store" /\ req[r].visit # <<>> /\ req[r].kind \in {"put", "delete"}
      /\ managers[SM!Current(r)].governance = "loaded"
  BY <1>1 DEF SM!StoreInvariant, Formed
<1>3. PICK c \in 1..Len(managers) : c = SM!Current(r)
  BY <1>2, CurrentIs DEF ManagersInv
<1>4. /\ managers' = managers /\ cache' = cache /\ mixed' = mixed /\ apart' = apart
      /\ storedAliases' = storedAliases
      /\ storedInvariant' = IF req[r].kind = "put" THEN req[r].value ELSE Deleted
  BY DEF SM!StoreInvariant
<1>5. /\ req' \in [Requests -> Request] /\ Unmoved(r) /\ req'[r].pc = "visit"
      /\ req'[r].kind = req[r].kind /\ req'[r].target = req[r].target
      /\ req'[r].value = req[r].value /\ req'[r].visit = Tail(req[r].visit)
  BY <1>1, <1>2, Passes DEF SM!StoreInvariant
<1>6. storedInvariant' \in Rows /\ SM!Effective(storedInvariant)' = Outcome(r) /\ Outcome(r)' = Outcome(r)
  BY <1>1, <1>2, <1>4, <1>5, ScopeAssumption DEF Formed, Rows, SM!Effective, Outcome
<1>7. Formed(r)'
  BY <1>1, <1>2, <1>4, <1>5, CurrentIs DEF ManagersInv, Formed
<1>8. Shape'
  BY <1>1, <1>4, <1>5, <1>6, <1>7, ShapeStays DEF ManagersInv
<1>9. ASSUME apart' PROVE Together'
  <2>1. Together /\ SM!Updating(r)
    BY <1>2, <1>4, <1>9 DEF ManagersInv, SM!Updating
  <2>2. \A q \in Requests \ {r} :
           ~SM!Updating(q) /\ req'[q] = req[q] /\ ~SM!Updating(q)' /\ ~SM!OtherUpdate(r)
    BY <1>5, <2>1, OnlyOne DEF Unmoved, SM!Updating
  <2>3. Watched' = Watched /\ \A m : SM!Loading(m)' = SM!Loading(m)
    BY <1>4 DEF Watched, SM!Loading
  <2>4. Changing(r) /\ Changing(r)'
    BY <1>2, <1>5 DEF Changing
  <2>5. Alone'
    BY <2>2 DEF Alone
  <2>6. BuildsFresh'
    <3>1. ASSUME NEW q \in Requests, req'[q].pc = "build", ~req'[q].mixed PROVE FALSE
      <4>1. q # r
        BY <1>5, <3>1
      <4>2. req[q].pc = "build" /\ ~req[q].mixed
        BY <2>2, <3>1, <4>1
      <4> QED
        BY <2>1, <4>1, <4>2 DEF Together, BuildsFresh, SM!OtherUpdate
    <3> QED
      BY <3>1 DEF BuildsFresh
  <2>7. LoadsFresh'
    <3>1. \A m \in Watched : ~SM!Loading(m)
      BY <1>2, <2>1, OnlyOne DEF SM!Visiting
    <3> QED
      BY <2>3, <3>1 DEF LoadsFresh
  <2>8. ValueIsStored'
    BY <1>2, <1>5, <2>2 DEF ValueIsStored, SM!Updating
  <2>9. \A q \in Requests, m \in Watched : ~WillSet(q, m)
    BY <1>2, <2>2 DEF WillSet, SM!Updating
  <2>10. AliasesReach'
    BY <1>4, <2>1, <2>3, <2>9 DEF Together, AliasesReach
  <2>11. \A q \in Requests : (Changing(q) => q = r) /\ (Changing(q)' => q = r)
    BY <2>2 DEF Changing, SM!Updating
  <2>12. \A m \in ToSet(req[r].visit) : m = c \/ m \in ToSet(req'[r].visit)
    BY <1>2, <1>3, <1>5, CurrentIs DEF ManagersInv
  <2>13. Has(c)'
    BY <1>2, <1>3, <1>4, <1>6, <2>1 DEF Together, Storing, Has
  <2>14. InvariantReaches'
    <3> SUFFICES ASSUME NEW m \in Watched PROVE Has(m)' \/ m \in ToSet(req'[r].visit)
      BY <2>3, <2>4 DEF InvariantReaches
    <3>1. Has(m) \/ m \in ToSet(req[r].visit)
      BY <2>1, <2>11 DEF Together, InvariantReaches
    <3>2. CASE SM!Effective(storedInvariant) = Outcome(r)
      <4>1. Has(m) => Has(m)'
        BY <1>4, <1>6, <3>2 DEF Has
      <4> QED
        BY <2>12, <2>13, <3>1, <4>1
    <3>3. CASE SM!Effective(storedInvariant) # Outcome(r)
      <4>1. m \in ToSet(req[r].visit)
        BY <2>1, <2>4, <3>3 DEF Together, Handed
      <4> QED
        BY <2>12, <2>13, <4>1
    <3> QED
      BY <3>2, <3>3
  <2>15. Handed'
    BY <1>6, <2>11 DEF Handed
  <2>16. Storing'
    <3>1. ASSUME NEW q \in Requests, req'[q].pc = "store" PROVE FALSE
      <4>1. Formed(q)'
        BY <1>8 DEF Shape
      <4> QED
        BY <1>5, <2>2, <3>1, <4>1 DEF Formed, SM!Updating
    <3> QED
      BY <3>1 DEF Storing
  <2> QED
    BY <2>5, <2>6, <2>7, <2>8, <2>10, <2>14, <2>15, <2>16 DEF Together
<1> QED
  BY <1>8, <1>9 DEF ManagersInv

\* The manager that was built joins the watched ones if nothing was updated meanwhile.
LEMMA InsertKeeps ==
    ASSUME ManagersInv, NEW r \in Requests, SM!Insert(r)
    PROVE  ManagersInv'
<1>1. /\ managers \in Seq(Manager) /\ Len(managers) \in Nat /\ cache \in [SM!Targets -> 0..Len(managers)]
      /\ req \in [Requests -> Request] /\ storedAliases \in Aliases /\ storedInvariant \in Rows
      /\ Formed(r) /\ req[r] \in Request /\ req[r].pc = "build"
  BY DEF ManagersInv, Shape, SM!Insert
<1>2. PICK c \in Nat \ {0} : c = Len(managers) + 1
  BY <1>1
<1>3. PICK row : row = [aliases |-> req[r].aliases, invariant |-> Configured,
                        governance |-> "unread", found |-> None]
  OBVIOUS
<1>4. /\ row \in Manager /\ row.aliases = req[r].aliases /\ row.governance = "unread"
  BY <1>1, <1>3 DEF Request, Manager, Rows
<1>5. managers' = Append(managers, row)
  BY <1>3 DEF SM!Insert
<1>6. /\ managers' \in Seq(Manager) /\ Len(managers') = c /\ managers'[c] = row
      /\ \A m \in 1..Len(managers) : managers'[m] = managers[m]
  BY <1>1, <1>2, <1>4, <1>5
<1>7. /\ cache' \in [SM!Targets -> 0..Len(managers')] /\ cache'[req[r].target] = c
      /\ \A t \in SM!Targets : t # req[r].target => cache'[t] = cache[t]
  <2>1. cache' = [cache EXCEPT ![req[r].target] = c] /\ req[r].target \in SM!Targets
    BY <1>1, <1>2 DEF SM!Insert, Request
  <2>2. c \in 0..c /\ 0..Len(managers) \subseteq 0..c
    BY <1>1, <1>2
  <2> QED
    BY <1>1, <1>6, <2>1, <2>2
<1>8. PICK list : list = SM!Got(r, c)
  OBVIOUS
<1>9. list \in Seq(Nat) /\ \A n \in 1..Len(list) : list[n] \in 1..Len(managers')
  <2>1. list \in Seq(Nat) /\ ToSet(list) \subseteq {c} \cup (1..Len(managers))
    BY <1>1, <1>2, <1>8, GotFits DEF ManagersInv
  <2>2. ToSet(list) \subseteq 1..c
    BY <1>1, <1>2, <2>1
  <2> QED
    BY <1>2, <1>6, <2>1, <2>2, Within
<1>10. PICK old \in Request : old = req[r]
  BY <1>1
<1>11. PICK new : new = [old EXCEPT !.pc = "visit", !.visit = list]
  OBVIOUS
<1>12. /\ new \in Request /\ new.pc = "visit" /\ new.kind = old.kind /\ new.target = old.target
       /\ new.value = old.value /\ new.visit = list
  BY <1>9, <1>11 DEF Request
<1>13. req' = [req EXCEPT ![r] = new]
  BY <1>2, <1>8, <1>10, <1>11 DEF SM!Insert
<1>14. /\ req' \in [Requests -> Request] /\ Unmoved(r) /\ req'[r] = new
  BY <1>1, <1>12, <1>13, Turns
<1>15. Formed(r)'
  BY <1>1, <1>9, <1>10, <1>12, <1>14 DEF Formed
<1>16. /\ apart' = apart /\ storedAliases' = storedAliases /\ storedInvariant' = storedInvariant
       /\ mixed' = IF req[r].mixed THEN mixed \cup {c} ELSE mixed
  BY <1>2 DEF SM!Insert, SM!stored
<1>17. Shape'
  <2>1. Len(managers') \in Nat /\ Len(managers) <= Len(managers')
    BY <1>1, <1>2, <1>6
  <2>2. \A m \in 1..Len(managers) : managers[m].governance = "loaded" => managers'[m].governance = "loaded"
    BY <1>6
  <2>3. storedAliases' \in Aliases /\ storedInvariant' \in Rows /\ Shape
    BY <1>1, <1>16 DEF ManagersInv
  <2> QED
    BY <1>6, <1>7, <1>14, <1>15, <2>1, <2>2, <2>3, ShapeStays
<1>18. ASSUME apart' PROVE Together'
  <2>1. Together
    BY <1>16, <1>18 DEF ManagersInv
  <2>2. /\ Watched \subseteq 1..Len(managers)
        /\ \A m \in Watched' : m # c => m \in Watched
        /\ c \in Watched' => ~req[r].mixed
        /\ \A m \in Watched' : \E t \in SM!Targets : cache'[t] = m /\ m # 0
    <3>1. DOMAIN managers' = 1..c /\ DOMAIN managers = 1..Len(managers)
      BY <1>1, <1>6
    <3>2. ASSUME NEW m \in Watched', m # c PROVE m \in Watched
      <4>1. PICK t \in SM!Targets : cache'[t] = m
        BY DEF Watched
      <4>2. cache[t] = m
        BY <1>7, <3>2, <4>1
      <4>3. m \in 1..c /\ m \notin mixed
        BY <1>16, <3>1 DEF Watched
      <4>4. m \in 1..Len(managers)
        BY <1>1, <1>2, <3>2, <4>3
      <4> QED
        BY <3>1, <4>2, <4>3, <4>4 DEF Watched
    <3>3. c \in Watched' => ~req[r].mixed
      BY <1>16 DEF Watched
    <3>4. \A m \in Watched' : m # 0
      BY <1>1, <1>2, <3>1 DEF Watched
    <3> QED
      BY <3>1, <3>2, <3>3, <3>4 DEF Watched
  <2>3. \A m \in Watched : managers'[m] = managers[m] /\ m # c
    BY <1>1, <1>2, <1>6, <2>2
  <2>4. \A m \in Watched : Has(m)' = Has(m) /\ SM!Loading(m)' = SM!Loading(m)
    BY <1>16, <2>3 DEF Has, SM!Loading, SM!Effective
  <2>5. Has(c)' /\ ~SM!Loading(c)'
    BY <1>4, <1>6 DEF Has, SM!Loading
  <2>6. c \in Watched' => req[r].aliases = storedAliases /\ ~SM!OtherUpdate(r)
    BY <1>1, <2>1, <2>2 DEF Together, BuildsFresh
  <2>7. \A q \in Requests \ {r} :
           /\ req'[q] = req[q] /\ SM!Updating(q)' = SM!Updating(q) /\ Changing(q)' = Changing(q)
           /\ SM!Visiting(q)' = SM!Visiting(q) /\ SM!Current(q)' = SM!Current(q) /\ Outcome(q)' = Outcome(q)
           /\ \A m : WillSet(q, m)' = WillSet(q, m)
    BY <1>14 DEF Unmoved, SM!Updating, Changing, SM!Visiting, SM!Current, Outcome, WillSet
  <2>8. SM!Updating(r)' = SM!Updating(r) /\ ~Changing(r) /\ Outcome(r)' = Outcome(r)
    BY <1>1, <1>10, <1>12, <1>14 DEF SM!Updating, Changing, Outcome
  <2>9. ASSUME req[r].kind # "use" PROVE \A m \in Watched' : m \in ToSet(list)
    <3> TAKE m \in Watched'
    <3>1. PICK t \in SM!Targets : cache'[t] = m /\ m # 0
      BY <2>2
    <3>2. CASE m = c
      BY <1>2, <1>8, <2>9, <3>2, GotFits DEF ManagersInv
    <3>3. CASE m # c
      <4>1. t # req[r].target /\ cache[t] = m
        BY <1>7, <3>1, <3>3
      <4>2. cache[t] \in ToSet(SM!Got(r, c))
        BY <1>2, <2>9, <3>1, <4>1, ListHasAll DEF ManagersInv
      <4> QED
        BY <1>8, <4>1, <4>2
    <3> QED
      BY <3>2, <3>3
  <2>10. Alone'
    BY <2>1, <2>7, <2>8 DEF Together, Alone
  <2>11. BuildsFresh'
    <3>1. \A q \in Requests : SM!OtherUpdate(q)' = SM!OtherUpdate(q)
      BY <2>7, <2>8 DEF SM!OtherUpdate
    <3> QED
      BY <1>12, <1>14, <1>16, <2>1, <2>7, <3>1 DEF Together, BuildsFresh
  <2>12. LoadsFresh'
    <3> SUFFICES ASSUME NEW m \in Watched', SM!Loading(m)'
                 PROVE  /\ managers'[m].found = storedInvariant'
                        /\ \A q \in Requests :
                              SM!Updating(q)' => Changing(q)' /\ SM!Visiting(q)' /\ SM!Current(q)' = m
      BY DEF LoadsFresh
    <3>1. m \in Watched /\ SM!Loading(m) /\ managers'[m] = managers[m]
      BY <2>2, <2>3, <2>4, <2>5
    <3>2. /\ managers[m].found = storedInvariant
          /\ \A q \in Requests : SM!Updating(q) => Changing(q) /\ SM!Visiting(q) /\ SM!Current(q) = m
      BY <2>1, <3>1 DEF Together, LoadsFresh
    <3>3. ~SM!Updating(r)
      BY <2>8, <3>2
    <3> QED
      BY <1>16, <2>7, <2>8, <3>1, <3>2, <3>3
  <2>13. ValueIsStored'
    <3>1. req[r].kind \in {"aliases", "refresh"} => req[r].value = storedAliases
      BY <1>1, <2>1 DEF Together, ValueIsStored
    <3> QED
      BY <1>10, <1>12, <1>14, <1>16, <2>1, <2>7, <3>1 DEF Together, ValueIsStored
  <2>14. AliasesReach'
    <3> SUFFICES ASSUME NEW m \in Watched', managers'[m].aliases # storedAliases
                 PROVE  \E q \in Requests : WillSet(q, m)'
      BY <1>16 DEF AliasesReach
    <3>1. m # c
      BY <1>4, <1>6, <2>6
    <3>2. PICK q \in Requests : WillSet(q, m)
      BY <2>1, <2>2, <2>3, <3>1 DEF Together, AliasesReach
    <3>3. CASE q = r
      <4>1. m \in ToSet(list) /\ req[r].kind = "aliases"
        BY <2>9, <3>2, <3>3 DEF WillSet
      <4> QED
        BY <1>10, <1>12, <1>14, <4>1 DEF WillSet
    <3>4. CASE q # r
      BY <2>7, <3>2, <3>4
    <3> QED
      BY <3>3, <3>4
  <2>15. InvariantReaches'
    <3> SUFFICES ASSUME NEW m \in Watched', ~Has(m)'
                 PROVE  \E q \in Requests : Changing(q)' /\ m \in ToSet(req'[q].visit)
      BY DEF InvariantReaches
    <3>1. m \in Watched /\ ~Has(m)
      BY <2>2, <2>4, <2>5
    <3>2. PICK q \in Requests : Changing(q) /\ m \in ToSet(req[q].visit)
      BY <2>1, <3>1 DEF Together, InvariantReaches
    <3> QED
      BY <2>7, <2>8, <3>2
  <2>16. Handed'
    <3> SUFFICES ASSUME NEW q \in Requests, Changing(q)', SM!Effective(storedInvariant)' # Outcome(q)',
                        NEW m \in Watched'
                 PROVE  m \in ToSet(req'[q].visit) /\ (Has(m)' \/ (req'[q].pc = "store" /\ m = SM!Current(q)'))
      BY DEF Handed
    <3>1. SM!Effective(storedInvariant)' = SM!Effective(storedInvariant)
      BY <1>16 DEF SM!Effective
    <3>2. CASE q = r
      <4>1. req[r].kind \in {"put", "delete"}
        BY <1>10, <1>12, <1>14, <3>2 DEF Changing
      <4>2. SM!Updating(r)
        BY <1>1, <4>1 DEF SM!Updating
      <4>3. \A p \in Requests : ~Changing(p)
        BY <2>1, <2>8, <4>2, OnlyOne DEF Changing, SM!Updating
      <4>4. \A x \in Watched : Has(x)
        BY <2>1, <4>3 DEF Together, InvariantReaches
      <4>5. Has(m)'
        BY <2>2, <2>4, <2>5, <4>4
      <4>6. m \in ToSet(list)
        BY <2>9, <4>1
      <4> QED
        BY <1>12, <1>14, <3>2, <4>5, <4>6
    <3>3. CASE q # r
      <4>1. Changing(q) /\ SM!Updating(q)
        BY <2>7, <3>3 DEF Changing, SM!Updating
      <4>2. m # c
        BY <2>6, <3>3, <4>1 DEF SM!OtherUpdate
      <4>3. m \in Watched
        BY <2>2, <4>2
      <4> QED
        BY <2>1, <2>4, <2>7, <3>1, <3>3, <4>1, <4>3 DEF Together, Handed
    <3> QED
      BY <3>2, <3>3
  <2>17. Storing'
    <3> SUFFICES ASSUME NEW q \in Requests, req'[q].pc = "store"
                 PROVE  managers'[SM!Current(q)'].invariant = Outcome(q)'
      BY DEF Storing
    <3>1. q # r
      BY <1>12, <1>14
    <3>2. req[q].pc = "store" /\ SM!Current(q)' = SM!Current(q) /\ Outcome(q)' = Outcome(q)
      BY <2>7, <3>1
    <3>3. SM!Current(q) \in 1..Len(managers)
      BY <3>2, CurrentIs DEF ManagersInv, Shape, Formed
    <3> QED
      BY <1>6, <2>1, <3>2, <3>3 DEF Together, Storing
  <2> QED
    BY <2>10, <2>11, <2>12, <2>13, <2>14, <2>15, <2>16, <2>17 DEF Together
<1> QED
  BY <1>17, <1>18 DEF ManagersInv

\* An update marks what is being built or loaded when it comes in.
LEMMA ReceiveKeeps ==
    ASSUME ManagersInv, NEW r \in Requests, SM!Receive(r)
    PROVE  ManagersInv'
<1>1. /\ managers \in Seq(Manager) /\ Len(managers) \in Nat /\ cache \in [SM!Targets -> 0..Len(managers)]
      /\ req \in [Requests -> Request] /\ storedAliases \in Aliases /\ storedInvariant \in Rows
      /\ req[r].pc = "idle"
  BY DEF ManagersInv, Shape, SM!Receive
<1>2. /\ storedAliases' = storedAliases /\ storedInvariant' = storedInvariant
      /\ managers' = managers /\ cache' = cache
  BY DEF SM!Receive, SM!stored
<1>3. PICK kind \in SM!Kinds, t \in SM!Targets, v \in Values :
         /\ kind # "use" => t = SM!Base
         /\ req' = [q \in Requests |->
                IF q = r THEN [SM!Idle EXCEPT !.pc = SM!First(kind), !.kind = kind, !.target = t, !.value = v]
                ELSE IF kind # "use" /\ req[q].pc = "build" THEN [req[q] EXCEPT !.mixed = TRUE]
                ELSE req[q]]
         /\ apart' = (apart /\ ~(kind # "use" /\ SM!OtherUpdate(r)))
         /\ mixed' = IF kind # "use" THEN mixed \cup {m \in DOMAIN managers : SM!Loading(m)} ELSE mixed
  BY DEF SM!Receive
<1>4. PICK new : new = [SM!Idle EXCEPT !.pc = SM!First(kind), !.kind = kind, !.target = t, !.value = v]
  OBVIOUS
<1>5. SM!First(kind) \in PCs /\ SM!First(kind) = IF kind = "aliases" THEN "save" ELSE IF kind = "refresh" THEN "read" ELSE "get"
  BY DEF SM!First, PCs
<1>6. /\ new \in Request /\ new.pc = SM!First(kind) /\ new.kind = kind /\ new.target = t
      /\ new.value = v /\ new.visit = <<>>
  <2>1. PICK first \in PCs : first = SM!First(kind)
    BY <1>5
  <2>2. new = [pc |-> first, kind |-> kind, target |-> t, value |-> v,
               visit |-> <<>>, aliases |-> None, mixed |-> FALSE]
    BY <1>4, <2>1 DEF SM!Idle
  <2>3. v \in Aliases /\ None \in Aliases
    BY DEF Aliases
  <2>4. new \in Request
    BY <2>2, <2>3 DEF Request, PCs
  <2> QED
    BY <2>1, <2>2, <2>4
<1>7. /\ req'[r] = new
      /\ \A q \in Requests \ {r} :
            req'[q] = IF kind # "use" /\ req[q].pc = "build" THEN [req[q] EXCEPT !.mixed = TRUE] ELSE req[q]
  BY <1>3, <1>4
<1>8. ASSUME NEW q \in Requests \ {r}
      PROVE  /\ req'[q] \in Request /\ req'[q].pc = req[q].pc /\ req'[q].kind = req[q].kind
             /\ req'[q].target = req[q].target /\ req'[q].value = req[q].value
             /\ req'[q].visit = req[q].visit /\ req'[q].aliases = req[q].aliases
             /\ req'[q].mixed = (req[q].mixed \/ (kind # "use" /\ req[q].pc = "build"))
  <2>1. PICK old \in Request : old = req[q]
    BY <1>1
  <2>2. PICK marked : marked = [old EXCEPT !.mixed = TRUE]
    OBVIOUS
  <2>3. /\ marked \in Request /\ marked.pc = old.pc /\ marked.kind = old.kind /\ marked.target = old.target
        /\ marked.value = old.value /\ marked.visit = old.visit /\ marked.aliases = old.aliases
        /\ marked.mixed = TRUE /\ old.mixed \in BOOLEAN
    BY <2>2 DEF Request
  <2>4. req'[q] = IF kind # "use" /\ old.pc = "build" THEN marked ELSE old
    BY <1>7, <2>1, <2>2
  <2>5. CASE kind # "use" /\ old.pc = "build"
    BY <2>1, <2>3, <2>4, <2>5
  <2>6. CASE ~(kind # "use" /\ old.pc = "build")
    BY <2>1, <2>3, <2>4, <2>6
  <2> QED
    BY <2>5, <2>6
<1>9. req' \in [Requests -> Request]
  <2>1. \A q \in Requests : req'[q] \in Request
    BY <1>6, <1>7, <1>8
  <2>2. DOMAIN req' = Requests /\ req' = [q \in Requests |-> req'[q]]
    BY <1>3
  <2> QED
    BY <2>1, <2>2
<1>10. Formed(r)'
  BY <1>3, <1>5, <1>6, <1>7 DEF Formed
<1>11. CASE kind = "use"
  <2>1. Unmoved(r) /\ mixed' = mixed /\ (apart' => apart)
    BY <1>3, <1>7, <1>11 DEF Unmoved
  <2>2. req'[r].pc = "get" /\ req'[r].kind = "use"
    BY <1>5, <1>6, <1>7, <1>11
  <2>3. ~SM!Updating(r)' /\ ~Changing(r) /\ ~Changing(r)' /\ \A m : ~WillSet(r, m)
    BY <1>1, <2>2 DEF SM!Updating, Changing, WillSet
  <2>4. GoesOn(r)
    BY <2>2, <2>3 DEF GoesOn
  <2> QED
    BY <1>2, <1>9, <1>10, <2>1, <2>4, QuietStep DEF SM!stored
<1>12. CASE kind # "use"
  <2>1. \A q \in Requests : Formed(q)'
    <3>1. ASSUME NEW q \in Requests \ {r} PROVE Formed(q)'
      <4>1. Formed(q) /\ SM!Current(q)' = SM!Current(q)
        BY <1>8 DEF ManagersInv, Shape, SM!Current
      <4> QED
        BY <1>2, <1>8, <4>1 DEF Formed
    <3> QED
      BY <1>10, <3>1
  <2>2. Shape'
    BY <1>1, <1>2, <1>9, <2>1 DEF Shape
  <2>3. ASSUME apart' PROVE Together'
    <3>1. Together /\ ~SM!OtherUpdate(r)
      BY <1>3, <1>12, <2>3 DEF ManagersInv
    <3>2. \A q \in Requests : ~SM!Updating(q)
      BY <1>1, <3>1 DEF SM!OtherUpdate, SM!Updating
    <3>3. \A q \in Requests \ {r} : ~SM!Updating(q)'
      BY <1>8, <3>2 DEF SM!Updating
    <3>4. Watched' \subseteq Watched /\ \A m \in Watched' : ~SM!Loading(m)'
      BY <1>2, <1>3, <1>12 DEF Watched, SM!Loading
    <3>5. \A q \in Requests : ~Changing(q) /\ ~Changing(q)' /\ \A m : ~WillSet(q, m)
      <4>1. \A q \in Requests : ~Changing(q) /\ \A m : ~WillSet(q, m)
        BY <3>2 DEF Changing, WillSet, SM!Updating
      <4>2. ~Changing(r)'
        BY <1>5, <1>6, <1>7 DEF Changing
      <4>3. \A q \in Requests \ {r} : ~Changing(q)'
        BY <3>3 DEF Changing, SM!Updating
      <4> QED
        BY <4>1, <4>2, <4>3
    <3>6. Alone'
      BY <3>3 DEF Alone
    <3>7. BuildsFresh'
      <4>1. req'[r].pc # "build"
        BY <1>5, <1>6, <1>7
      <4>2. \A q \in Requests \ {r} : req'[q].pc = "build" => req'[q].mixed
        BY <1>8, <1>12
      <4> QED
        BY <4>1, <4>2 DEF BuildsFresh
    <3>8. LoadsFresh'
      BY <3>4 DEF LoadsFresh
    <3>9. ValueIsStored'
      <4>1. req'[r].kind \in {"aliases", "refresh"} => req'[r].pc \notin {"get", "build", "visit"}
        BY <1>5, <1>6, <1>7
      <4>2. \A q \in Requests \ {r} : req'[q].pc = "idle" \/ req'[q].kind = "use"
        BY <3>3 DEF SM!Updating
      <4> QED
        BY <4>1, <4>2 DEF ValueIsStored
    <3>10. AliasesReach'
      BY <1>2, <3>1, <3>4, <3>5 DEF Together, AliasesReach
    <3>11. InvariantReaches'
      <4>1. \A m \in Watched : Has(m)
        BY <3>1, <3>5 DEF Together, InvariantReaches
      <4>2. \A m : Has(m)' = Has(m)
        BY <1>2 DEF Has, SM!Effective
      <4> QED
        BY <3>4, <4>1, <4>2 DEF InvariantReaches
    <3>12. Handed'
      BY <3>5 DEF Handed
    <3>13. Storing'
      <4>1. ASSUME NEW q \in Requests, req'[q].pc = "store" PROVE FALSE
        <5>1. Formed(q)'
          BY <2>1
        <5> QED
          BY <3>5, <4>1, <5>1 DEF Formed, Changing
      <4> QED
        BY <4>1 DEF Storing
    <3> QED
      BY <3>6, <3>7, <3>8, <3>9, <3>10, <3>11, <3>12, <3>13 DEF Together
  <2> QED
    BY <2>2, <2>3 DEF ManagersInv
<1> QED
  BY <1>11, <1>12
-----------------------------------------------------------------------------
LEMMA ManagersStep == ManagersInv /\ [SM!Next]_SM!vars => ManagersInv'
<1> SUFFICES ASSUME ManagersInv, [SM!Next]_SM!vars PROVE ManagersInv'
  OBVIOUS
<1>1. CASE UNCHANGED SM!vars
  <2>1. /\ managers' = managers /\ req' = req /\ mixed' = mixed /\ apart' = apart /\ cache' = cache
        /\ storedAliases' = storedAliases /\ storedInvariant' = storedInvariant
    BY <1>1 DEF SM!vars
  <2>2. Watched' = Watched /\ managers \in Seq(Manager) /\ cache \in [SM!Targets -> 0..Len(managers)]
    BY <2>1 DEF Watched, ManagersInv, Shape
  <2>3. \A m : Has(m)' = Has(m) /\ SM!Loading(m)' = SM!Loading(m)
    BY <2>1 DEF Has, SM!Loading, SM!Effective
  <2>4. apart => LoadsFresh
    BY DEF ManagersInv, Together
  <2> QED
    BY <2>1, <2>2, <2>3, <2>4, Standing DEF LoadsFresh
<1>2. CASE SM!Next
  <2>1. ASSUME NEW r \in Requests,
               \/ SM!Receive(r) \/ SM!SaveAliases(r) \/ SM!ReadAliases(r) \/ SM!StorageFails(r)
               \/ SM!Hit(r) \/ SM!Hydrate(r) \/ SM!Insert(r)
        PROVE  ManagersInv'
    BY <2>1, ReceiveKeeps, SaveKeeps, ReadKeeps, StorageFailsKeeps, HitKeeps, HydrateKeeps, InsertKeeps
  <2>2. ASSUME NEW r \in Requests,
               \/ SM!ReadGovernance(r) \/ SM!ReadGovernanceFails(r) \/ SM!GovernanceFailed(r)
               \/ SM!SetAliases(r) \/ SM!PutInvariant(r) \/ SM!DeleteInvariant(r)
               \/ SM!StoreInvariant(r) \/ SM!StoreFails(r) \/ SM!Use(r) \/ SM!Finish(r)
        PROVE  ManagersInv'
    BY <2>2, ReadGovernanceKeeps, ReadGovernanceFailsKeeps, GovernanceFailedKeeps, SetKeeps, PutKeeps, DeleteKeeps,
       StoreKeeps, StoreFailsKeeps, UseKeeps, FinishKeeps
  <2> QED
    BY <1>2, <2>1, <2>2, EvictKeeps, GovernanceLoadedKeeps, RestartKeeps DEF SM!Next
<1> QED
  BY <1>1, <1>2

\* CopiesAgree: outside updates that ran alone and to their end, every cached manager
\* holds the aliases and the invariant that are stored.
THEOREM ManagersAgree == SM!Spec => []CopiesAgree
  BY ManagersInit, ManagersStep, Agreeing, PTL DEF SM!Spec
=============================================================================
