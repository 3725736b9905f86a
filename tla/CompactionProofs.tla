-------------------------- MODULE CompactionProofs --------------------------
(***************************************************************************)
(* Proofs about Compaction, for every number of calls in flight and of      *)
(* turns, every policy, and whatever the summarizer and the hooks do.       *)
(***************************************************************************)
EXTENDS Compaction, FiniteSetTheorems, SequenceTheorems, TLAPS

USE PolicyAssumption, ProcessAssumption

-----------------------------------------------------------------------------
(* What a call still has to run. *)

Opening  == { <<"reply", "readTurns", "assess">>, <<"readTurns", "assess">>, <<"assess">> }
Guarded  == { <<"summarize">>, <<"summary">>, <<"retry">> }
Closing  == { <<"readRemaining", "settle">>, <<"settle">> }
Refreshing ==
    { <<"extract", "readState", "writeState">>,
      <<"extract", "readState", "writeState", "readState", "writeState">>,
      <<"readState", "writeState">>, <<"writeState">>,
      <<"readState", "writeState", "readState", "writeState">>,
      <<"writeState", "readState", "writeState">> }

Plans == Opening \cup Guarded \cup {<<"giveUp">>} \cup Closing \cup Refreshing \cup {<<>>}

\* All that is left of a call once it has begun with its snapshot of the turns.
HasSnapshot(p) == call[p].todo \in Guarded \cup {<<"assess">>, <<"giveUp">>}

Calls == [op : {"none", "turn", "force"}, todo : Plans, snapshot : SUBSET Nat, keep : Nat]

CallOK(c) ==
    /\ c \in Calls /\ IsFiniteSet(c.snapshot)
    /\ c.todo = <<>> => c = Returned
    /\ c.todo # <<>> => c.op # "none"
    /\ c.todo = <<"reply", "readTurns", "assess">> => c.op = "turn"

Replying == {p \in Process : At(p, "reply")}

CallsOK == call \in [Process -> Calls] /\ \A p \in Process : CallOK(call[p])

TypeOK ==
    /\ config \in Configs
    /\ turns \in Nat /\ turns + Cardinality(Replying) <= MaxTurns
    /\ logOf \in [TurnId -> Nat]
    /\ logs \in Seq(SUBSET Nat)
    /\ monitor \in [state : {"idle", "compacting", "soft_triggered"}, count : Nat]
    /\ projection \in SUBSET Nat
    /\ deferred \in BOOLEAN /\ autoExtract \in BOOLEAN
    /\ CallsOK

-----------------------------------------------------------------------------
(* The archive. *)

\* The turns a+1..b, everything before which is archived.
Slice(S, a, b) == S = (a + 1)..b /\ a <= b /\ b <= turns /\ (a # 0 => logOf[a] # 0)

\* The archived turns are the first m of the session.
ArchivedUpTo(m) == m <= turns /\ \A t \in TurnId : logOf[t] # 0 <=> t <= m

Retaining == Floor > 1 /\ SoftRetain > 0 /\ HardRetain > 0

Archive ==
    /\ \E m \in Nat : ArchivedUpTo(m)
    /\ \A t \in TurnId : logOf[t] # 0 => logOf[t] \in 1..Len(logs) /\ t \in logs[logOf[t]]
    /\ \A k \in 1..Len(logs) :
         /\ \E x, y \in Nat : x <= y /\ logs[k] = x..y
         /\ \A t \in logs[k] : t \in TurnId /\ logOf[t] # 0
    /\ Retaining /\ turns > 0 => logOf[turns] = 0

Snapshots ==
    \A p \in Process :
        /\ HasSnapshot(p) => \E a, b \in Nat : Slice(call[p].snapshot, a, b)
        /\ call[p].todo \in Guarded => /\ call[p].keep < Cardinality(call[p].snapshot)
                                       /\ Retaining => call[p].keep > 0

ArchiveInv == TypeOK /\ Archive /\ Snapshots

-----------------------------------------------------------------------------
(* An application that awaits each call, with hooks that do not throw. *)

Orderly == config.awaited /\ ~config.hooksThrow

\* Only one call is in flight, and its snapshot is what the table has.
OneCall ==
    \A p, q \in Process : p # q /\ call[p] # Returned => call[q] = Returned

FreshPlans == {<<"settle">>, <<"writeState">>, <<"writeState", "readState", "writeState">>}

Fresh == \A p \in Process : HasSnapshot(p) \/ call[p].todo \in FreshPlans => call[p].snapshot = Active

LogsDisjoint == \A j, k \in 1..Len(logs) : j # k => logs[j] \cap logs[k] = {}

OrderlyInv == Orderly => OneCall /\ Fresh /\ LogsDisjoint

-----------------------------------------------------------------------------
(* The monitor and the projection under log_and_continue. *)

\* A monitor that says 'compacting' has a call that will write it again.
Compacting ==
    monitor.state = "compacting" =>
        \E p \in Process : call[p].todo \in Guarded \cup {<<"giveUp">>} \cup Closing

Forgiving == config.summarizer = "log_and_continue" /\ ~config.hooksThrow

\* Between calls, in a forced call before it compacts and in any call once it
\* only has the projection to refresh, the monitor counts the active turns.
MonitorOK ==
    Quiet \/ (\E p \in Process : \/ call[p].todo \in Refreshing
                                 \/ call[p].op = "force" /\ call[p].todo \in Opening)
        => monitor.count = Cardinality(Active)

ProjectionOK ==
    Quiet \/ (\E p \in Process : call[p].op = "force" /\ ~(call[p].todo \in Closing \cup Refreshing))
        => projection = Active

SettledInv ==
    Forgiving => /\ \A p \in Process : call[p].todo # <<"retry">>
                 /\ Compacting
                 /\ config.awaited => MonitorOK /\ ProjectionOK

IInv == ArchiveInv /\ OrderlyInv /\ SettledInv

-----------------------------------------------------------------------------
(* Lemmas about plans and slices. *)

LEMMA PlanHeads ==
    ASSUME NEW s \in Plans, s # <<>>
    PROVE  /\ Head(s) = "reply" =>
                s = <<"reply", "readTurns", "assess">> /\ Tail(s) = <<"readTurns", "assess">>
           /\ Head(s) = "readTurns" => s = <<"readTurns", "assess">> /\ Tail(s) = <<"assess">>
           /\ Head(s) = "assess" => s = <<"assess">>
           /\ Head(s) = "summarize" => s = <<"summarize">>
           /\ Head(s) = "summary" => s = <<"summary">>
           /\ Head(s) = "retry" => s = <<"retry">>
           /\ Head(s) = "giveUp" => s = <<"giveUp">>
           /\ Head(s) = "readRemaining" =>
                s = <<"readRemaining", "settle">> /\ Tail(s) = <<"settle">>
           /\ Head(s) = "settle" => s = <<"settle">>
           /\ Head(s) = "extract" =>
                s \in Refreshing /\ Tail(s) \in { <<"readState", "writeState">>,
                              <<"readState", "writeState", "readState", "writeState">> }
           /\ Head(s) = "readState" =>
                s \in Refreshing /\ Tail(s) \in { <<"writeState">>, <<"writeState", "readState", "writeState">> }
           /\ Head(s) = "writeState" =>
                \/ s = <<"writeState">> /\ Tail(s) = <<>>
                \/ s = <<"writeState", "readState", "writeState">>
                   /\ Tail(s) = <<"readState", "writeState">>
<1>1. CASE s = <<"reply", "readTurns", "assess">>
  <2>1. Head(s) = "reply" /\ Tail(s) = <<"readTurns", "assess">>
    BY <1>1
  <2> QED
    BY <1>1, <2>1 DEF Refreshing
<1>2. CASE s = <<"readTurns", "assess">>
  <2>1. Head(s) = "readTurns" /\ Tail(s) = <<"assess">>
    BY <1>2
  <2> QED
    BY <1>2, <2>1 DEF Refreshing
<1>3. CASE s = <<"assess">>
  <2>1. Head(s) = "assess" /\ Tail(s) = <<>>
    BY <1>3
  <2> QED
    BY <1>3, <2>1 DEF Refreshing
<1>4. CASE s = <<"summarize">>
  <2>1. Head(s) = "summarize" /\ Tail(s) = <<>>
    BY <1>4
  <2> QED
    BY <1>4, <2>1 DEF Refreshing
<1>5. CASE s = <<"summary">>
  <2>1. Head(s) = "summary" /\ Tail(s) = <<>>
    BY <1>5
  <2> QED
    BY <1>5, <2>1 DEF Refreshing
<1>6. CASE s = <<"retry">>
  <2>1. Head(s) = "retry" /\ Tail(s) = <<>>
    BY <1>6
  <2> QED
    BY <1>6, <2>1 DEF Refreshing
<1>7. CASE s = <<"giveUp">>
  <2>1. Head(s) = "giveUp" /\ Tail(s) = <<>>
    BY <1>7
  <2> QED
    BY <1>7, <2>1 DEF Refreshing
<1>8. CASE s = <<"readRemaining", "settle">>
  <2>1. Head(s) = "readRemaining" /\ Tail(s) = <<"settle">>
    BY <1>8
  <2> QED
    BY <1>8, <2>1 DEF Refreshing
<1>9. CASE s = <<"settle">>
  <2>1. Head(s) = "settle" /\ Tail(s) = <<>>
    BY <1>9
  <2> QED
    BY <1>9, <2>1 DEF Refreshing
<1>10. CASE s = <<"extract", "readState", "writeState">>
  <2>1. Head(s) = "extract" /\ Tail(s) = <<"readState", "writeState">>
    BY <1>10
  <2> QED
    BY <1>10, <2>1 DEF Refreshing
<1>11. CASE s = <<"extract", "readState", "writeState", "readState", "writeState">>
  <2>1. Head(s) = "extract" /\ Tail(s) = <<"readState", "writeState", "readState", "writeState">>
    BY <1>11
  <2> QED
    BY <1>11, <2>1 DEF Refreshing
<1>12. CASE s = <<"readState", "writeState">>
  <2>1. Head(s) = "readState" /\ Tail(s) = <<"writeState">>
    BY <1>12
  <2> QED
    BY <1>12, <2>1 DEF Refreshing
<1>13. CASE s = <<"writeState">>
  <2>1. Head(s) = "writeState" /\ Tail(s) = <<>>
    BY <1>13
  <2> QED
    BY <1>13, <2>1 DEF Refreshing
<1>14. CASE s = <<"readState", "writeState", "readState", "writeState">>
  <2>1. Head(s) = "readState" /\ Tail(s) = <<"writeState", "readState", "writeState">>
    BY <1>14
  <2> QED
    BY <1>14, <2>1 DEF Refreshing
<1>15. CASE s = <<"writeState", "readState", "writeState">>
  <2>1. Head(s) = "writeState" /\ Tail(s) = <<"readState", "writeState">>
    BY <1>15
  <2> QED
    BY <1>15, <2>1 DEF Refreshing
<1> QED
  BY <1>1, <1>2, <1>3, <1>4, <1>5, <1>6, <1>7, <1>8, <1>9, <1>10, <1>11, <1>12, <1>13, <1>14, <1>15
     DEF Plans, Opening, Guarded, Closing, Refreshing

LEMMA PlanKinds ==
    /\ \A s \in Opening : s \notin Guarded /\ s \notin Closing /\ s \notin Refreshing /\ s # <<"giveUp">> /\ s # <<>>
    /\ \A s \in Guarded : s \notin Closing /\ s \notin Refreshing /\ s # <<"giveUp">> /\ s # <<>>
    /\ \A s \in Closing : s \notin Refreshing /\ s # <<"giveUp">> /\ s # <<>>
    /\ \A s \in Refreshing : s # <<"giveUp">> /\ s # <<>>
    /\ <<"giveUp">> # <<>>
BY DEF Opening, Guarded, Closing, Refreshing

LEMMA MinMaxOfInterval ==
    ASSUME NEW x \in Int, NEW y \in Int, x <= y
    PROVE  Min(x..y) = x /\ Max(x..y) = y
<1>1. x \in x..y /\ \A z \in x..y : x <= z
  OBVIOUS
<1>2. \A w \in x..y : (\A z \in x..y : w <= z) => w = x
  OBVIOUS
<1>3. y \in x..y /\ \A z \in x..y : y >= z
  OBVIOUS
<1>4. \A w \in x..y : (\A z \in x..y : w >= z) => w = y
  OBVIOUS
<1> QED
  BY <1>1, <1>2, <1>3, <1>4 DEF Min, Max

LEMMA MinMaxOfPair ==
    ASSUME NEW x \in Int, NEW y \in Int
    PROVE  /\ Min({x, y}) = IF x <= y THEN x ELSE y
           /\ Max({x, y}) = IF x >= y THEN x ELSE y
<1>1. /\ \E v \in {x, y} : \A z \in {x, y} : v <= z
      /\ \E v \in {x, y} : \A z \in {x, y} : v >= z
  OBVIOUS
<1>2. Min({x, y}) \in {x, y} /\ \A z \in {x, y} : Min({x, y}) <= z
  BY <1>1 DEF Min
<1>3. Max({x, y}) \in {x, y} /\ \A z \in {x, y} : Max({x, y}) >= z
  BY <1>1 DEF Max
<1> QED
  BY <1>2, <1>3

\* What compaction takes of a run of turns: all but the newest `keep`.
LEMMA OldestOfInterval ==
    ASSUME NEW a \in Nat, NEW b \in Nat, a <= b, NEW keep \in Nat
    PROVE  /\ Oldest((a + 1)..b, keep) = (a + 1)..(b - keep)
           /\ Cardinality((a + 1)..b) = b - a
<1>1. ASSUME NEW x \in Int PROVE Cardinality(x..b) = IF x > b THEN 0 ELSE b - x + 1
  <2>1. b \in Int
    OBVIOUS
  <2> QED
    BY <2>1, FS_Interval
<1>2. ASSUME NEW t \in (a + 1)..b PROVE Cardinality({u \in (a + 1)..b : u >= t}) = b - t + 1
  <2>1. {u \in (a + 1)..b : u >= t} = t..b
    OBVIOUS
  <2>2. Cardinality(t..b) = b - t + 1
    BY <1>1
  <2> QED
    BY <2>1, <2>2
<1>3. Oldest((a + 1)..b, keep) = {t \in (a + 1)..b : b - t + 1 > keep}
  BY <1>2 DEF Oldest
<1>4. {t \in (a + 1)..b : b - t + 1 > keep} = (a + 1)..(b - keep)
  OBVIOUS
<1>5. a + 1 \in Int /\ (IF a + 1 > b THEN 0 ELSE b - (a + 1) + 1) = b - a
  OBVIOUS
<1>6. Cardinality((a + 1)..b) = b - a
  BY <1>1, <1>5
<1> QED
  BY <1>3, <1>4, <1>6

LEMMA OldestOfSlice ==
    ASSUME NEW S, NEW a \in Nat, NEW b \in Nat, Slice(S, a, b), NEW keep \in Nat
    PROVE  Oldest(S, keep) = (a + 1)..(b - keep) /\ Cardinality(S) = b - a
<1>1. S = (a + 1)..b /\ a <= b
  BY DEF Slice
<1> QED
  BY <1>1, OldestOfInterval

LEMMA TurnsBound == TypeOK => turns \in Nat /\ turns <= MaxTurns /\ Cardinality(Replying) \in Nat
<1> SUFFICES ASSUME TypeOK PROVE turns \in Nat /\ turns <= MaxTurns /\ Cardinality(Replying) \in Nat
  OBVIOUS
<1>1. IsFiniteSet(Replying)
  BY FS_Subset DEF Replying
<1>2. Cardinality(Replying) \in Nat
  BY <1>1, FS_CardinalityType
<1> QED
  BY <1>2 DEF TypeOK

LEMMA ActiveTurns ==
    ASSUME TypeOK, NEW m \in Nat, ArchivedUpTo(m)
    PROVE  /\ Active = (m + 1)..turns /\ Slice(Active, m, turns)
           /\ Cardinality(Active) = turns - m /\ Active \in SUBSET Nat /\ IsFiniteSet(Active)
<1>0. turns \in Nat /\ turns <= MaxTurns
  BY TurnsBound
<1>1. 1..turns \subseteq TurnId
  BY <1>0 DEF TurnId
<1>2. Active = (m + 1)..turns
  BY <1>0, <1>1 DEF Active, ArchivedUpTo, TypeOK
<1>3. Cardinality(Active) = turns - m
  BY <1>0, <1>2, OldestOfInterval DEF ArchivedUpTo
<1>4. m # 0 => logOf[m] # 0
  BY <1>0, <1>1 DEF ArchivedUpTo
<1>5. IsFiniteSet(Active)
  <2>1. m + 1 \in Int /\ turns \in Int
    BY <1>0
  <2> QED
    BY <1>2, <2>1, FS_Interval
<1> QED
  BY <1>0, <1>2, <1>3, <1>4, <1>5 DEF Slice, ArchivedUpTo

\* A slice stays one while turns are added and archived.
LEMMA SliceStays ==
    ASSUME TypeOK, NEW S, NEW a \in Nat, NEW b \in Nat, Slice(S, a, b), turns' \in Nat,
           turns' >= turns, \A t \in TurnId : logOf[t] # 0 => logOf'[t] # 0
    PROVE  Slice(S, a, b)'
<1>1. a # 0 => a \in TurnId
  BY TurnsBound DEF Slice, TurnId
<1> QED
  BY <1>1, TurnsBound DEF Slice, TypeOK

-----------------------------------------------------------------------------
(* What a step does to its call. *)

LEMMA Becomes ==
    ASSUME CallsOK, NEW p \in Process, NEW c, CallOK(c), Become(p, c)
    PROVE  /\ CallsOK' /\ call'[p] = c
           /\ \A q \in Process : q # p => call'[q] = call[q]
<1>1. c \in Calls
  BY DEF CallOK
<1>2. call'[p] = c /\ (\A q \in Process : q # p => call'[q] = call[q]) /\ call' \in [Process -> Calls]
  BY <1>1 DEF Become, CallsOK
<1>3. \A q \in Process : CallOK(call'[q])
  BY <1>2 DEF CallsOK
<1> QED
  BY <1>2, <1>3 DEF CallsOK, CallOK

LEMMA ReturnedOK == CallOK(Returned) /\ Returned.todo = <<>>
BY FS_EmptySet DEF CallOK, Returned, Calls, Plans

\* A call under way goes on with other steps, or returns.
LEMMA GoesOn ==
    ASSUME CallsOK, NEW p \in Process, call[p].todo # <<>>, NEW steps \in Plans,
           steps # <<"reply", "readTurns", "assess">>, Then(p, steps)
    PROVE  /\ CallsOK' /\ call'[p].todo = steps
           /\ \A q \in Process : q # p => call'[q] = call[q]
           /\ steps = <<>> => call'[p] = Returned
           /\ steps # <<>> => /\ call'[p].op = call[p].op
                              /\ call'[p].snapshot = call[p].snapshot
                              /\ call'[p].keep = call[p].keep
<1>1. CASE steps = <<>>
  BY <1>1, ReturnedOK, Becomes DEF Then, Return
<1>2. CASE steps # <<>>
  <2> PICK c : c = [call[p] EXCEPT !.todo = steps]
    OBVIOUS
  <2>1. call[p] \in Calls /\ call[p].op # "none" /\ IsFiniteSet(call[p].snapshot)
    BY DEF CallsOK, CallOK
  <2>2. /\ c \in Calls /\ c.todo = steps /\ c.op = call[p].op
        /\ c.snapshot = call[p].snapshot /\ c.keep = call[p].keep
    BY <2>1 DEF Calls
  <2>3. CallOK(c)
    BY <1>2, <2>1, <2>2 DEF CallOK
  <2>4. Become(p, c)
    BY <1>2 DEF Then
  <2> QED
    BY <1>2, <2>2, <2>3, <2>4, Becomes
<1> QED
  BY <1>1, <1>2

LEMMA AfterHooks ==
    ASSUME CallsOK, NEW p \in Process, call[p].todo # <<>>, NEW steps \in Plans,
           steps # <<"reply", "readTurns", "assess">>, AfterHook(p, steps)
    PROVE  /\ CallsOK'
           /\ \A q \in Process : q # p => call'[q] = call[q]
           /\ \/ call'[p] = Returned /\ (config.hooksThrow \/ steps = <<>>)
              \/ /\ steps # <<>> /\ call'[p].todo = steps
                 /\ call'[p].op = call[p].op /\ call'[p].snapshot = call[p].snapshot
                 /\ call'[p].keep = call[p].keep
<1>1. CASE Then(p, steps)
  BY <1>1, GoesOn
<1>2. CASE config.hooksThrow /\ Return(p)
  BY <1>2, ReturnedOK, Becomes DEF Return
<1> QED
  BY <1>1, <1>2 DEF AfterHook

\* A call takes a snapshot of the active turns.
LEMMA Snaps ==
    ASSUME CallsOK, NEW p \in Process, call[p].todo # <<>>, NEW steps \in Plans,
           steps \notin {<<>>, <<"reply", "readTurns", "assess">>},
           Active \in SUBSET Nat, IsFiniteSet(Active),
           Become(p, [call[p] EXCEPT !.todo = steps, !.snapshot = Active])
    PROVE  /\ CallsOK'
           /\ \A q \in Process : q # p => call'[q] = call[q]
           /\ call'[p].todo = steps /\ call'[p].op = call[p].op
           /\ call'[p].snapshot = Active /\ call'[p].keep = call[p].keep
<1> PICK c : c = [call[p] EXCEPT !.todo = steps, !.snapshot = Active]
  OBVIOUS
<1>1. call[p] \in Calls /\ call[p].op # "none"
  BY DEF CallsOK, CallOK
<1>2. /\ c \in Calls /\ c.todo = steps /\ c.op = call[p].op /\ c.snapshot = Active
      /\ c.keep = call[p].keep
  BY <1>1 DEF Calls
<1>3. CallOK(c)
  BY <1>1, <1>2 DEF CallOK
<1> QED
  BY <1>2, <1>3, Becomes

\* A call begins.
LEMMA Begins ==
    ASSUME CallsOK, NEW p \in Process, NEW op \in {"turn", "force"}, NEW steps \in Plans, steps # <<>>,
           steps = <<"reply", "readTurns", "assess">> => op = "turn",
           Become(p, [Returned EXCEPT !.op = op, !.todo = steps])
    PROVE  /\ CallsOK'
           /\ \A q \in Process : q # p => call'[q] = call[q]
           /\ call'[p].todo = steps /\ call'[p].op = op
<1> PICK c : c = [Returned EXCEPT !.op = op, !.todo = steps]
  OBVIOUS
<1>1. c \in Calls /\ c.todo = steps /\ c.op = op /\ IsFiniteSet(c.snapshot)
  BY FS_EmptySet DEF Calls, Returned
<1>2. CallOK(c)
  BY <1>1 DEF CallOK
<1> QED
  BY <1>1, <1>2, Becomes

\* Which plan a call follows when it is at a step.
LEMMA AtPlan ==
    ASSUME CallsOK, NEW p \in Process, NEW step, At(p, step)
    PROVE  /\ call[p].todo \in Plans /\ call[p].todo # <<>> /\ Head(call[p].todo) = step
           /\ Rest(p) = Tail(call[p].todo) /\ call[p].op # "none"
BY DEF At, Rest, CallsOK, CallOK, Calls

LEMMA AtStep ==
    ASSUME CallsOK, NEW p \in Process, NEW step, At(p, step)
    PROVE  /\ call[p].todo \in Plans /\ call[p].todo # <<>> /\ call[p].op # "none"
           /\ step = "reply" => /\ call[p].todo = <<"reply", "readTurns", "assess">>
                                /\ Rest(p) = <<"readTurns", "assess">>
           /\ step = "readTurns" => call[p].todo = <<"readTurns", "assess">> /\ Rest(p) = <<"assess">>
           /\ step = "assess" => call[p].todo = <<"assess">>
           /\ step = "summarize" => call[p].todo = <<"summarize">>
           /\ step = "summary" => call[p].todo = <<"summary">>
           /\ step = "retry" => call[p].todo = <<"retry">>
           /\ step = "giveUp" => call[p].todo = <<"giveUp">>
           /\ step = "readRemaining" => /\ call[p].todo = <<"readRemaining", "settle">>
                                        /\ Rest(p) = <<"settle">>
           /\ step = "settle" => call[p].todo = <<"settle">>
           /\ step = "extract" =>
                /\ call[p].todo \in Refreshing
                /\ Rest(p) \in { <<"readState", "writeState">>,
                                 <<"readState", "writeState", "readState", "writeState">> }
           /\ step = "readState" =>
                /\ call[p].todo \in Refreshing
                /\ Rest(p) \in {<<"writeState">>, <<"writeState", "readState", "writeState">>}
           /\ step = "writeState" =>
                \/ call[p].todo = <<"writeState">> /\ Rest(p) = <<>>
                \/ /\ call[p].todo = <<"writeState", "readState", "writeState">>
                   /\ Rest(p) = <<"readState", "writeState">>
<1> PICK s \in Plans : s = call[p].todo /\ s # <<>> /\ Head(s) = step /\ Rest(p) = Tail(s)
  BY AtPlan
<1>1. call[p].op # "none"
  BY AtPlan
<1> QED
  BY <1>1, PlanHeads

\* executeCompaction is handed what it keeps: less than there is, and with a floor
\* and retentions that say so, at least one turn.
KeepOK(p) ==
    /\ call'[p].keep < Cardinality(call[p].snapshot)
    /\ Retaining => call'[p].keep > 0

LEMMA ExecuteMoves ==
    ASSUME CallsOK, NEW p \in Process, call[p].todo # <<>>, NEW keep \in Nat, Execute(p, keep)
    PROVE  /\ CallsOK'
           /\ \A q \in Process : q # p => call'[q] = call[q]
           /\ call'[p].todo = <<"summarize">> /\ call'[p].op = call[p].op
           /\ call'[p].snapshot = call[p].snapshot /\ call'[p].keep = keep
<1> PICK c : c = [call[p] EXCEPT !.todo = <<"summarize">>, !.keep = keep]
  OBVIOUS
<1>1. call[p] \in Calls /\ call[p].op # "none" /\ IsFiniteSet(call[p].snapshot)
  BY DEF CallsOK, CallOK
<1>2. <<"summarize">> \in Plans /\ <<"summarize">> # <<>>
      /\ <<"summarize">> # <<"reply", "readTurns", "assess">>
  BY DEF Plans, Guarded
<1>3. /\ c \in Calls /\ c.todo = <<"summarize">> /\ c.op = call[p].op
      /\ c.snapshot = call[p].snapshot /\ c.keep = keep
  BY <1>1, <1>2 DEF Calls
<1>4. CallOK(c)
  BY <1>1, <1>2, <1>3 DEF CallOK
<1> QED
  BY <1>3, <1>4, Becomes DEF Execute

LEMMA AssessKeeps ==
    ASSUME ArchiveInv, NEW p \in Process, call[p].todo = <<"assess">>,
           \/ AssessGap(p) \/ AssessHard(p) \/ (AssessSoft(p) /\ call[p].op # "turn")
    PROVE  \E keep \in Nat : /\ Execute(p, keep) /\ keep < Cardinality(call[p].snapshot)
                             /\ Retaining => keep > 0
<1> PICK a \in Nat, b \in Nat : Slice(call[p].snapshot, a, b)
  BY DEF ArchiveInv, Snapshots, HasSnapshot
<1> PICK n \in Nat : n = Cardinality(call[p].snapshot)
  BY OldestOfInterval DEF Slice
<1>1. ASSUME NEW retain \in Nat, n >= 1
      PROVE  Retained(retain, call[p].snapshot) = IF retain <= n - 1 THEN retain ELSE n - 1
  <2>1. retain \in Int /\ n - 1 \in Int
    OBVIOUS
  <2> QED
    BY <2>1, MinMaxOfPair DEF Retained
<1>2. CASE AssessGap(p)
  <2>1. n > 1 /\ Execute(p, Max({1, Retained(SoftRetain, call[p].snapshot)}))
    BY <1>2 DEF AssessGap
  <2> PICK r \in Nat : r = Retained(SoftRetain, call[p].snapshot) /\ r <= n - 1
    BY <1>1, <2>1
  <2>2. Max({1, r}) = IF 1 >= r THEN 1 ELSE r
    <3>1. 1 \in Int /\ r \in Int
      OBVIOUS
    <3> QED
      BY <3>1, MinMaxOfPair
  <2> QED
    BY <2>1, <2>2
<1>3. ASSUME NEW retain \in {SoftRetain, HardRetain}, AboveFloor(p),
             Execute(p, Retained(retain, call[p].snapshot))
      PROVE  \E keep \in Nat : /\ Execute(p, keep) /\ keep < n
                               /\ Retaining => keep > 0
  <2>1. n >= 1 /\ (Retaining => n > 1 /\ retain > 0) /\ retain \in Nat
    BY <1>3 DEF AboveFloor, Retaining
  <2> PICK r \in Nat : r = Retained(retain, call[p].snapshot) /\ r < n /\ (Retaining => r > 0)
    BY <1>1, <2>1
  <2> QED
    BY <1>3
<1> QED
  BY <1>2, <1>3 DEF AssessSoft, AssessHard

LEMMA PlanMembers ==
    /\ \A s \in Opening \cup Guarded \cup Closing \cup Refreshing \cup {<<"giveUp">>, <<>>} : s \in Plans
    /\ <<"summarize">> \in Guarded /\ <<"summary">> \in Guarded /\ <<"retry">> \in Guarded
    /\ <<"assess">> \in Opening /\ <<"readTurns", "assess">> \in Opening
    /\ <<"reply", "readTurns", "assess">> \in Opening
    /\ <<"readRemaining", "settle">> \in Closing /\ <<"settle">> \in Closing
    /\ <<"readState", "writeState">> \in Refreshing /\ <<"writeState">> \in Refreshing
BY DEF Plans, Opening, Guarded, Closing, Refreshing

LEMMA RestsRefresh ==
    { <<"readState", "writeState">>, <<"readState", "writeState", "readState", "writeState">>,
      <<"writeState">>, <<"writeState", "readState", "writeState">> } \subseteq Refreshing
BY DEF Refreshing

\* What the table of turns and the archive see of a step.
StoreMoves(p) ==
    \/ UNCHANGED <<turns, logOf, logs>>
    \/ turns' = turns + 1 /\ UNCHANGED <<logOf, logs>>
    \/ call[p].todo \in Guarded /\ Commit(p)

\* What a step makes of the call's snapshot and of what it keeps.
SnapshotMoves(p) ==
    /\ HasSnapshot(p)' => \/ /\ call'[p].todo = <<"assess">> /\ call'[p].snapshot = Active
                             /\ UNCHANGED <<turns, logOf, logs>>
                          \/ HasSnapshot(p) /\ call'[p].snapshot = call[p].snapshot
    /\ call'[p].todo \in Guarded => \/ call[p].todo \in Guarded /\ call'[p].keep = call[p].keep
                                    \/ call[p].todo = <<"assess">> /\ KeepOK(p)

Moves(p) ==
    /\ CallsOK'
    /\ \A q \in Process : q # p => call'[q] = call[q]
    /\ StoreMoves(p) /\ SnapshotMoves(p)
    /\ call'[p].todo = <<"reply", "readTurns", "assess">> => ProcessExchange(p)

LEMMA NoSnapshot ==
    ASSUME CallsOK', NEW p \in Process,
           call'[p].todo \in Closing \cup Refreshing \cup {<<>>, <<"readTurns", "assess">>,
                                                         <<"reply", "readTurns", "assess">>}
    PROVE  SnapshotMoves(p) /\ ~HasSnapshot(p)'
<1>1. ASSUME NEW s \in Closing \cup Refreshing \cup {<<>>, <<"readTurns", "assess">>,
                                                     <<"reply", "readTurns", "assess">>}
      PROVE  s \notin Guarded /\ s # <<"assess">> /\ s # <<"giveUp">>
  <2>1. <<"readTurns", "assess">> # <<"assess">> /\ <<"reply", "readTurns", "assess">> # <<"assess">>
    OBVIOUS
  <2>2. CASE s \in Closing \cup Refreshing
    BY <2>2, PlanKinds, PlanMembers
  <2>3. CASE s = <<>>
    BY <2>3, PlanKinds, PlanMembers
  <2>4. CASE s \in {<<"readTurns", "assess">>, <<"reply", "readTurns", "assess">>}
    BY <2>1, <2>4, PlanKinds, PlanMembers
  <2> QED
    BY <1>1, <2>2, <2>3, <2>4
<1> QED
  BY <1>1 DEF SnapshotMoves, HasSnapshot

LEMMA NotReply ==
    \A s \in Guarded \cup Closing \cup Refreshing
             \cup {<<>>, <<"giveUp">>, <<"assess">>, <<"readTurns", "assess">>} :
        s # <<"reply", "readTurns", "assess">>
<1>1. <<"assess">> # <<"reply", "readTurns", "assess">>
      /\ <<"readTurns", "assess">> # <<"reply", "readTurns", "assess">>
  OBVIOUS
<1> QED
  BY <1>1, PlanKinds, PlanMembers

LEMMA FailureMoves ==
    ASSUME TypeOK, NEW p \in Process, call[p].todo \in Guarded, OnFailure(p)
    PROVE  /\ CallsOK'
           /\ \A q \in Process : q # p => call'[q] = call[q]
           /\ \/ call'[p] = Returned /\ (config.hooksThrow \/ config.summarizer = "throw")
              \/ /\ \/ call'[p].todo = <<"retry">> /\ config.summarizer = "retry_once"
                    \/ call'[p].todo = <<"giveUp">> /\ config.summarizer = "log_and_continue"
                 /\ call'[p].op = call[p].op
                 /\ call'[p].snapshot = call[p].snapshot /\ call'[p].keep = call[p].keep
<1>1. config.summarizer \in {"throw", "retry_once", "log_and_continue"}
  BY DEF TypeOK
<1>2. call[p].todo # <<>>
  BY PlanKinds
<1>3. <<"retry">> \in Plans /\ <<"giveUp">> \in Plans /\ <<"retry">> # <<>> /\ <<"giveUp">> # <<>>
      /\ <<"retry">> # <<"reply", "readTurns", "assess">>
      /\ <<"giveUp">> # <<"reply", "readTurns", "assess">>
  BY PlanMembers, PlanKinds
<1>4. CASE config.summarizer = "throw"
  BY <1>4, ReturnedOK, Becomes DEF OnFailure, Return, TypeOK
<1>5. CASE config.summarizer = "retry_once"
  <2>1. Then(p, <<"retry">>)
    BY <1>5 DEF OnFailure
  <2> QED
    BY <1>2, <1>3, <1>5, <2>1, GoesOn DEF TypeOK
<1>6. CASE config.summarizer = "log_and_continue"
  <2>1. AfterHook(p, <<"giveUp">>)
    BY <1>6 DEF OnFailure
  <2> QED
    BY <1>2, <1>3, <1>6, <2>1, AfterHooks DEF TypeOK
<1> QED
  BY <1>1, <1>4, <1>5, <1>6

LEMMA Concats ==
    /\ \A s \in { <<"readState", "writeState">>, <<"extract", "readState", "writeState">> } :
         <<>> \o s = s /\ s \o <<>> = s
    /\ <<"extract">> \o <<"readState", "writeState">> = <<"extract", "readState", "writeState">>
    /\ <<"readState", "writeState">> \o <<"readState", "writeState">>
         = <<"readState", "writeState", "readState", "writeState">>
    /\ <<"extract", "readState", "writeState">> \o <<"readState", "writeState">>
         = <<"extract", "readState", "writeState", "readState", "writeState">>
<1> DEFINE Steps == {"extract", "readState", "writeState"}
<1>1. <<"readState", "writeState">> \in Seq(Steps)
      /\ <<"extract", "readState", "writeState">> \in Seq(Steps)
  OBVIOUS
<1>2. \A s \in { <<"readState", "writeState">>, <<"extract", "readState", "writeState">> } :
         <<>> \o s = s /\ s \o <<>> = s
  BY <1>1, ConcatEmptySeq
<1>3. <<"extract">> \o <<"readState", "writeState">>
       = <<"extract", "readState", "writeState">>
  <2> PICK s : s = <<"extract">> \o <<"readState", "writeState">>
    OBVIOUS
  <2> PICK t : t = <<"extract", "readState", "writeState">>
    OBVIOUS
  <2>1. s \in Seq(Steps) /\ t \in Seq(Steps) /\ Len(s) = 3 /\ Len(t) = 3
    OBVIOUS
  <2>2. s[1] = t[1] /\ s[2] = t[2] /\ s[3] = t[3]
    OBVIOUS
  <2>3. \A i \in 1..3 : i = 1 \/ i = 2 \/ i = 3
    OBVIOUS
  <2>4. \A i \in 1..Len(s) : s[i] = t[i]
    BY <2>1, <2>2, <2>3
  <2>5. s = t
    BY <2>1, <2>4, SeqEqual
  <2> QED
    BY <2>5
<1>4. <<"readState", "writeState">> \o <<"readState", "writeState">>
       = <<"readState", "writeState", "readState", "writeState">>
  <2> PICK s : s = <<"readState", "writeState">> \o <<"readState", "writeState">>
    OBVIOUS
  <2> PICK t : t = <<"readState", "writeState", "readState", "writeState">>
    OBVIOUS
  <2>1. s \in Seq(Steps) /\ t \in Seq(Steps) /\ Len(s) = 4 /\ Len(t) = 4
    OBVIOUS
  <2>2. s[1] = t[1] /\ s[2] = t[2] /\ s[3] = t[3] /\ s[4] = t[4]
    OBVIOUS
  <2>3. \A i \in 1..4 : i = 1 \/ i = 2 \/ i = 3 \/ i = 4
    OBVIOUS
  <2>4. \A i \in 1..Len(s) : s[i] = t[i]
    BY <2>1, <2>2, <2>3
  <2>5. s = t
    BY <2>1, <2>4, SeqEqual
  <2> QED
    BY <2>5
<1>5. <<"extract", "readState", "writeState">> \o <<"readState", "writeState">>
       = <<"extract", "readState", "writeState", "readState", "writeState">>
  <2> PICK s : s = <<"extract", "readState", "writeState">> \o <<"readState", "writeState">>
    OBVIOUS
  <2> PICK t : t = <<"extract", "readState", "writeState", "readState", "writeState">>
    OBVIOUS
  <2>1. s \in Seq(Steps) /\ t \in Seq(Steps) /\ Len(s) = 5 /\ Len(t) = 5
    OBVIOUS
  <2>2. s[1] = t[1] /\ s[2] = t[2] /\ s[3] = t[3] /\ s[4] = t[4] /\ s[5] = t[5]
    OBVIOUS
  <2>3. \A i \in 1..5 : i = 1 \/ i = 2 \/ i = 3 \/ i = 4 \/ i = 5
    OBVIOUS
  <2>4. \A i \in 1..Len(s) : s[i] = t[i]
    BY <2>1, <2>2, <2>3
  <2>5. s = t
    BY <2>1, <2>4, SeqEqual
  <2> QED
    BY <2>5
<1> QED
  BY <1>2, <1>3, <1>4, <1>5

\* Every step moves one call, and what it does to the archive and the snapshots.
LEMMA StepMoves ==
    ASSUME ArchiveInv, NEW p \in Process, Step(p)
    PROVE  Moves(p)
<1> USE DEF Moves
<1>0. TypeOK /\ CallsOK /\ Active \in SUBSET Nat /\ IsFiniteSet(Active)
  BY ActiveTurns DEF ArchiveInv, Archive, TypeOK
<1>1. CASE CanCall(p) /\ (ProcessTurn(p) \/ ProcessExchange(p) \/ ForceCompact(p))
  <2>1. StoreMoves(p)
    BY <1>1 DEF ProcessTurn, ProcessExchange, ForceCompact, storage, StoreMoves
  <2>2. CASE UNCHANGED call
    BY <1>0, <1>1, <2>1, <2>2, NoSnapshot, NotReply, ReturnedOK DEF CanCall, CallsOK
  <2>3. CASE ~UNCHANGED call
    <3>1. \E op \in {"turn", "force"}, steps \in Opening \ {<<"assess">>} :
             /\ steps = <<"reply", "readTurns", "assess">> => op = "turn" /\ ProcessExchange(p)
             /\ Become(p, [Returned EXCEPT !.op = op, !.todo = steps])
      BY <1>1, <2>3, NotReply DEF ProcessTurn, ProcessExchange, ForceCompact, Opening
    <3> PICK op \in {"turn", "force"}, steps \in Opening \ {<<"assess">>} :
             /\ steps = <<"reply", "readTurns", "assess">> => op = "turn" /\ ProcessExchange(p)
             /\ Become(p, [Returned EXCEPT !.op = op, !.todo = steps])
      BY <3>1
    <3>2. steps \in Plans /\ steps # <<>>
          /\ steps \in {<<"readTurns", "assess">>, <<"reply", "readTurns", "assess">>}
      BY PlanKinds DEF Plans, Opening
    <3>3. CallsOK' /\ (\A q \in Process : q # p => call'[q] = call[q]) /\ call'[p].todo = steps
      BY <1>0, <3>2, Begins
    <3> QED
      BY <2>1, <3>2, <3>3, NoSnapshot, NotReply
  <2> QED
    BY <2>2, <2>3
<1>2. CASE Reply(p)
  <2>1. At(p, "reply") /\ AfterHook(p, Rest(p)) /\ StoreMoves(p)
    BY <1>2 DEF Reply, StoreMoves
  <2>2. call[p].todo # <<>> /\ Rest(p) = <<"readTurns", "assess">>
    BY <1>0, <2>1, AtStep
  <2>3. Rest(p) \in Plans /\ Rest(p) # <<"reply", "readTurns", "assess">>
    BY <2>2, PlanMembers
  <2>4. /\ CallsOK' /\ \A q \in Process : q # p => call'[q] = call[q]
        /\ call'[p].todo \in {<<>>, <<"readTurns", "assess">>}
    BY <1>0, <2>1, <2>2, <2>3, AfterHooks, ReturnedOK
  <2> QED
    BY <2>1, <2>4, NoSnapshot, NotReply
<1>3. CASE ReadTurns(p)
  <2>1. /\ At(p, "readTurns") /\ StoreMoves(p) /\ UNCHANGED <<turns, logOf, logs>>
        /\ Become(p, [call[p] EXCEPT !.todo = Rest(p), !.snapshot = Active])
    BY <1>3 DEF ReadTurns, StoreMoves, storage
  <2>2. call[p].todo # <<>> /\ Rest(p) = <<"assess">>
    BY <1>0, <2>1, AtStep
  <2>3. Rest(p) \in Plans /\ Rest(p) \notin {<<>>, <<"reply", "readTurns", "assess">>}
    BY <2>2, PlanMembers, PlanKinds
  <2>4. /\ CallsOK' /\ \A q \in Process : q # p => call'[q] = call[q]
        /\ call'[p].todo = Rest(p) /\ call'[p].snapshot = Active
    BY <1>0, <2>1, <2>2, <2>3, Snaps
  <2>5. <<"assess">> \notin Guarded
    BY PlanKinds, PlanMembers
  <2> QED
    BY <2>1, <2>2, <2>4, <2>5, NotReply DEF SnapshotMoves
<1>4. CASE AssessGap(p) \/ AssessHard(p) \/ (AssessSoft(p) /\ call[p].op # "turn")
  <2>1. call[p].todo = <<"assess">>
    BY <1>0, <1>4, AtStep DEF AssessGap, AssessHard, AssessSoft
  <2> PICK keep \in Nat : /\ Execute(p, keep) /\ keep < Cardinality(call[p].snapshot)
                          /\ Retaining => keep > 0
    BY <1>4, <2>1, AssessKeeps
  <2>2. StoreMoves(p)
    BY DEF Execute, StoreMoves
  <2>3. /\ CallsOK' /\ \A q \in Process : q # p => call'[q] = call[q]
        /\ call'[p].todo = <<"summarize">>
        /\ call'[p].snapshot = call[p].snapshot /\ call'[p].keep = keep
    BY <1>0, <2>1, PlanKinds, PlanMembers, ExecuteMoves
  <2> QED
    BY <2>1, <2>2, <2>3, NotReply, PlanMembers DEF SnapshotMoves, HasSnapshot, KeepOK
<1>5. CASE AssessNone(p) \/ (AssessSoft(p) /\ call[p].op = "turn")
  <2>1. call[p].todo = <<"assess">> /\ call[p].todo # <<>>
    BY <1>0, <1>5, AtStep DEF AssessNone, AssessSoft
  <2>2. Return(p) \/ Then(p, Refresh)
    BY <1>5 DEF AssessNone, AssessSoft
  <2>3. Refresh \in Plans /\ Refresh # <<>> /\ Refresh # <<"reply", "readTurns", "assess">>
        /\ Refresh \in Refreshing
    BY PlanMembers, PlanKinds DEF Refresh
  <2>4. /\ CallsOK' /\ \A q \in Process : q # p => call'[q] = call[q]
        /\ call'[p].todo \in {<<>>, Refresh}
    BY <1>0, <2>1, <2>2, <2>3, GoesOn, ReturnedOK, Becomes DEF Return
  <2>5. StoreMoves(p)
    BY <1>5 DEF AssessNone, AssessSoft, StoreMoves, Persist
  <2> QED
    BY <2>3, <2>4, <2>5, NoSnapshot, NotReply
<1>6. CASE Summarize(p) \/ SummaryFails(p)
  <2>1. call[p].todo \in Guarded /\ call[p].todo # <<>>
    BY <1>0, <1>6, AtStep, PlanMembers DEF Summarize, SummaryFails
  <2>2. OnFailure(p) \/ Then(p, <<"summary">>)
    BY <1>6 DEF Summarize, SummaryFails
  <2>3. /\ CallsOK' /\ \A q \in Process : q # p => call'[q] = call[q]
        /\ call'[p] = Returned \/ /\ call'[p].todo \in {<<"retry">>, <<"giveUp">>, <<"summary">>}
                                  /\ call'[p].snapshot = call[p].snapshot
                                  /\ call'[p].keep = call[p].keep
    <3>1. <<"summary">> \in Plans /\ <<"summary">> # <<>>
          /\ <<"summary">> # <<"reply", "readTurns", "assess">>
      BY PlanMembers, PlanKinds
    <3>2. CASE OnFailure(p)
      BY <1>0, <2>1, <3>2, FailureMoves
    <3>3. CASE Then(p, <<"summary">>)
      BY <1>0, <2>1, <3>1, <3>3, GoesOn
    <3> QED
      BY <2>2, <3>2, <3>3
  <2>4. StoreMoves(p)
    BY <1>6 DEF Summarize, SummaryFails, StoreMoves, storage
  <2> QED
    BY <2>1, <2>3, <2>4, NoSnapshot, NotReply, ReturnedOK DEF SnapshotMoves, HasSnapshot
<1>7. CASE SummaryArrives(p) \/ RetryArrives(p)
  <2>1. call[p].todo \in Guarded /\ call[p].todo # <<>> /\ Commit(p)
    BY <1>0, <1>7, AtStep, PlanMembers DEF SummaryArrives, RetryArrives
  <2>2. OnFailure(p) \/ AfterHook(p, Compacted)
    BY <1>7 DEF SummaryArrives, RetryArrives, AfterHook
  <2>3. Compacted \in Plans /\ Compacted # <<>> /\ Compacted # <<"reply", "readTurns", "assess">>
        /\ Compacted \in Closing
    BY PlanMembers, PlanKinds DEF Compacted
  <2>4. /\ CallsOK' /\ \A q \in Process : q # p => call'[q] = call[q]
        /\ \/ call'[p] = Returned \/ call'[p].todo = Compacted
           \/ /\ call'[p].todo \in {<<"retry">>, <<"giveUp">>}
              /\ call'[p].snapshot = call[p].snapshot /\ call'[p].keep = call[p].keep
    <3>1. CASE OnFailure(p)
      BY <1>0, <2>1, <3>1, FailureMoves
    <3>2. CASE AfterHook(p, Compacted)
      BY <1>0, <2>1, <2>3, <3>2, AfterHooks
    <3> QED
      BY <2>2, <3>1, <3>2
  <2>5. SnapshotMoves(p)
    BY <2>1, <2>3, <2>4, NoSnapshot, ReturnedOK DEF SnapshotMoves, HasSnapshot
  <2>6. call'[p].todo # <<"reply", "readTurns", "assess">>
    BY <2>3, <2>4, NotReply, PlanMembers, ReturnedOK
  <2> QED
    BY <2>1, <2>4, <2>5, <2>6 DEF StoreMoves
<1>8. CASE RetryFails(p)
  BY <1>0, <1>8, ReturnedOK, Becomes, NoSnapshot, NotReply DEF RetryFails, Return, StoreMoves, storage
<1>9. CASE GiveUp(p)
  <2>1. call[p].todo # <<>> /\ AfterHook(p, AfterCompaction(p)) /\ StoreMoves(p)
    BY <1>0, <1>9, AtPlan DEF GiveUp, StoreMoves, Persist
  <2>2. AfterCompaction(p) \in {<<>>, Refresh} /\ Refresh \in Refreshing
    BY PlanMembers DEF AfterCompaction, Refresh
  <2>3. AfterCompaction(p) \in Plans /\ AfterCompaction(p) # <<"reply", "readTurns", "assess">>
    BY <2>2, PlanMembers, PlanKinds
  <2>4. /\ CallsOK' /\ \A q \in Process : q # p => call'[q] = call[q]
        /\ call'[p].todo \in {<<>>, Refresh}
    BY <1>0, <2>1, <2>2, <2>3, AfterHooks, ReturnedOK
  <2> QED
    BY <2>1, <2>2, <2>4, NoSnapshot, NotReply
<1>10. CASE ReadRemaining(p) \/ ReadState(p)
  <2>1. /\ At(p, "readRemaining") \/ At(p, "readState")
        /\ StoreMoves(p) /\ Become(p, [call[p] EXCEPT !.todo = Rest(p), !.snapshot = Active])
    BY <1>10 DEF ReadRemaining, ReadState, StoreMoves, storage
  <2>2. call[p].todo # <<>> /\ Rest(p) \in Closing \cup Refreshing
    BY <1>0, <2>1, AtStep, PlanMembers, RestsRefresh
  <2>3. Rest(p) \in Plans /\ Rest(p) \notin {<<>>, <<"reply", "readTurns", "assess">>}
    BY <2>2, PlanMembers, PlanKinds
  <2>4. /\ CallsOK' /\ \A q \in Process : q # p => call'[q] = call[q]
        /\ call'[p].todo = Rest(p)
    BY <1>0, <2>1, <2>2, <2>3, Snaps
  <2> QED
    BY <2>1, <2>2, <2>4, NoSnapshot, NotReply
<1>11. CASE Settle(p)
  <2> PICK steps : steps = (IF autoExtract THEN <<"extract">> ELSE <<>>) \o Refresh \o AfterCompaction(p)
    OBVIOUS
  <2>1. call[p].todo # <<>> /\ Then(p, steps) /\ StoreMoves(p)
    BY <1>0, <1>11, AtPlan DEF Settle, StoreMoves, Persist
  <2>2. steps \in Refreshing
    BY Concats DEF Refresh, AfterCompaction, Refreshing
  <2>3. steps \in Plans /\ steps # <<>> /\ steps # <<"reply", "readTurns", "assess">>
    BY <2>2, PlanMembers, PlanKinds
  <2>4. /\ CallsOK' /\ \A q \in Process : q # p => call'[q] = call[q]
        /\ call'[p].todo = steps
    BY <1>0, <2>1, <2>3, GoesOn
  <2> QED
    BY <2>1, <2>2, <2>4, NoSnapshot, NotReply
<1>12. CASE Extract(p) \/ WriteState(p)
  <2>1. /\ At(p, "extract") \/ At(p, "writeState")
        /\ StoreMoves(p) /\ AfterHook(p, Rest(p))
    BY <1>12 DEF Extract, WriteState, StoreMoves, storage, AfterHook, Continue
  <2>2. call[p].todo # <<>> /\ Rest(p) \in Refreshing \cup {<<>>}
    BY <1>0, <2>1, AtStep, RestsRefresh
  <2>3. Rest(p) \in Plans /\ Rest(p) # <<"reply", "readTurns", "assess">>
    BY <2>2, PlanMembers, PlanKinds
  <2>4. /\ CallsOK' /\ \A q \in Process : q # p => call'[q] = call[q]
        /\ call'[p].todo \in {<<>>, Rest(p)}
    BY <1>0, <2>1, <2>2, <2>3, AfterHooks, ReturnedOK
  <2> QED
    BY <2>1, <2>2, <2>4, NoSnapshot, NotReply
<1> QED
  BY <1>1, <1>2, <1>3, <1>4, <1>5, <1>6, <1>7, <1>8, <1>9, <1>10, <1>11, <1>12
     DEF Step, ProcessTurn, ProcessExchange, ForceCompact

-----------------------------------------------------------------------------
(* The archive and the snapshots are as they should be after every step. *)

LEMMA OtherTypes ==
    ASSUME TypeOK, NEW p \in Process, Step(p)
    PROVE  /\ config' = config /\ deferred' \in BOOLEAN /\ autoExtract' \in BOOLEAN
           /\ projection' \in SUBSET Nat
           /\ monitor' \in [state : {"idle", "compacting", "soft_triggered"}, count : Nat]
<1>1. config' = config /\ deferred' \in BOOLEAN /\ autoExtract' \in BOOLEAN
  BY DEF TypeOK, Step, ProcessTurn, ProcessExchange, ForceCompact, Reply, ReadTurns, AssessGap,
         AssessNone, AssessSoft, AssessHard, Execute, Summarize, SummaryArrives, SummaryFails,
         RetryArrives, RetryFails, GiveUp, ReadRemaining, Settle, Extract, ReadState, WriteState,
         Commit, flags
<1>2. projection' \in {projection, call[p].snapshot}
  BY DEF Step, ProcessTurn, ProcessExchange, ForceCompact, Reply, ReadTurns, AssessGap,
         AssessNone, AssessSoft, AssessHard, Execute, Summarize, SummaryArrives, SummaryFails,
         RetryArrives, RetryFails, GiveUp, ReadRemaining, Settle, Extract, ReadState, WriteState,
         Commit, storage
<1>3. monitor' = monitor \/ \E state \in {"idle", "compacting", "soft_triggered"} :
                               Persist(state, call[p].snapshot)
  BY DEF Step, ProcessTurn, ProcessExchange, ForceCompact, Reply, ReadTurns, AssessGap,
         AssessNone, AssessSoft, AssessHard, Execute, Summarize, SummaryArrives, SummaryFails,
         RetryArrives, RetryFails, GiveUp, ReadRemaining, Settle, Extract, ReadState, WriteState,
         Commit, storage
<1>4. call[p].snapshot \in SUBSET Nat /\ Cardinality(call[p].snapshot) \in Nat
  <2>1. call[p] \in Calls /\ IsFiniteSet(call[p].snapshot)
    BY DEF TypeOK, CallsOK, CallOK
  <2>2. Cardinality(call[p].snapshot) \in Nat
    BY <2>1, FS_CardinalityType
  <2> QED
    BY <2>1, <2>2 DEF Calls
<1>5. monitor' \in [state : {"idle", "compacting", "soft_triggered"}, count : Nat]
  <2>1. CASE monitor' = monitor
    BY <2>1 DEF TypeOK
  <2>2. CASE \E state \in {"idle", "compacting", "soft_triggered"} : Persist(state, call[p].snapshot)
    BY <1>4, <2>2 DEF Persist
  <2> QED
    BY <1>3, <2>1, <2>2
<1>6. projection' \in SUBSET Nat
  BY <1>2, <1>4 DEF TypeOK
<1> QED
  BY <1>1, <1>5, <1>6

LEMMA CountOfReplies ==
    ASSUME TypeOK, NEW p \in Process, Step(p), Moves(p)
    PROVE  turns' \in Nat /\ turns' + Cardinality(Replying') <= MaxTurns
<1>1. IsFiniteSet(Replying) /\ Cardinality(Replying) \in Nat
  BY FS_Subset, TurnsBound DEF Replying
<1>2. ASSUME NEW q \in Process
      PROVE  /\ q \in Replying <=> call[q].todo = <<"reply", "readTurns", "assess">>
             /\ q \in Replying' <=> call'[q].todo = <<"reply", "readTurns", "assess">>
  <2>1. ASSUME NEW s \in Plans
        PROVE  s # <<>> /\ Head(s) = "reply" <=> s = <<"reply", "readTurns", "assess">>
    BY PlanHeads
  <2>2. call[q].todo \in Plans /\ call'[q].todo \in Plans
    BY DEF Moves, TypeOK, CallsOK, CallOK, Calls
  <2> QED
    BY <2>1, <2>2 DEF Replying, At
<1>3. \A q \in Process : q # p => (q \in Replying' <=> q \in Replying)
  BY <1>2 DEF Moves
<1>4. CASE ProcessExchange(p)
  <2>1. Replying' \subseteq Replying \cup {p}
    BY <1>3 DEF Replying
  <2>2. IsFiniteSet(Replying \cup {p}) /\ Cardinality(Replying \cup {p}) <= Cardinality(Replying) + 1
    <3>1. /\ IsFiniteSet(Replying \cup {p})
          /\ Cardinality(Replying \cup {p})
               = IF p \in Replying THEN Cardinality(Replying) ELSE Cardinality(Replying) + 1
      BY <1>1, FS_AddElement
    <3> QED
      BY <1>1, <3>1
  <2>3. Cardinality(Replying') <= Cardinality(Replying \cup {p}) /\ IsFiniteSet(Replying')
    BY <2>1, <2>2, FS_Subset
  <2>4. Cardinality(Replying') \in Nat /\ Cardinality(Replying \cup {p}) \in Nat
    BY <2>2, <2>3, FS_CardinalityType
  <2>5. turns' = turns + 1 /\ turns + Cardinality(Replying) + 1 < MaxTurns
    BY <1>4 DEF ProcessExchange, Replying
  <2> QED
    BY <1>1, <2>2, <2>3, <2>4, <2>5 DEF TypeOK
<1>5. CASE ~ProcessExchange(p)
  <2>1. p \notin Replying'
    BY <1>2, <1>5 DEF Moves
  <2>2. Replying' \subseteq Replying
    BY <1>3, <2>1 DEF Replying
  <2>3. Cardinality(Replying') <= Cardinality(Replying) /\ IsFiniteSet(Replying')
    BY <1>1, <2>2, FS_Subset
  <2>4. Cardinality(Replying') \in Nat
    BY <2>3, FS_CardinalityType
  <2>5. CASE Reply(p)
    <3>1. p \in Replying /\ turns' = turns + 1
      BY <2>5 DEF Reply, Replying
    <3>2. Replying' \subseteq Replying \ {p}
      BY <2>1, <2>2
    <3>3. IsFiniteSet(Replying \ {p}) /\ Cardinality(Replying \ {p}) = Cardinality(Replying) - 1
      BY <1>1, <3>1, FS_RemoveElement
    <3>4. Cardinality(Replying') <= Cardinality(Replying \ {p})
      BY <3>2, <3>3, FS_Subset
    <3> QED
      BY <1>1, <2>4, <3>1, <3>3, <3>4 DEF TypeOK
  <2>6. CASE ProcessTurn(p)
    <3>1. turns' = turns + 1 /\ turns + Cardinality(Replying) < MaxTurns
      BY <2>6 DEF ProcessTurn, Replying
    <3> QED
      BY <1>1, <2>3, <2>4, <3>1 DEF TypeOK
  <2>7. CASE ~Reply(p) /\ ~ProcessTurn(p)
    <3>1. turns' = turns
      BY <1>5, <2>7 DEF Step, ForceCompact, ReadTurns, AssessGap, AssessNone, AssessSoft, AssessHard,
           Execute, Summarize, SummaryArrives, SummaryFails, RetryArrives, RetryFails, GiveUp,
           ReadRemaining, Settle, Extract, ReadState, WriteState, Commit, storage
    <3> QED
      BY <1>1, <2>3, <2>4, <3>1 DEF TypeOK
  <2> QED
    BY <2>5, <2>6, <2>7
<1> QED
  BY <1>4, <1>5

\* What commitCompaction does to the archive: the turns covered, if there are any,
\* follow on from what is archived already.
LEMMA CommitArchives ==
    ASSUME ArchiveInv, NEW p \in Process, call[p].todo \in Guarded, Commit(p)
    PROVE  /\ Archive' /\ logOf' \in [TurnId -> Nat] /\ logs' \in Seq(SUBSET Nat)
           /\ \A t \in TurnId : logOf[t] # 0 => logOf'[t] # 0
<1> PICK a \in Nat, b \in Nat : Slice(call[p].snapshot, a, b)
  BY DEF ArchiveInv, Snapshots, HasSnapshot
<1> PICK keep \in Nat : keep = call[p].keep
  BY DEF ArchiveInv, TypeOK, CallsOK, Calls
<1> PICK covered : covered = Oldest(call[p].snapshot, keep)
  OBVIOUS
<1> PICK m \in Nat : ArchivedUpTo(m)
  BY DEF ArchiveInv, Archive
<1>0. TypeOK /\ turns \in Nat /\ turns <= MaxTurns /\ a <= b /\ b <= turns /\ m <= turns
  BY TurnsBound DEF ArchiveInv, Slice, ArchivedUpTo
<1>1. covered = (a + 1)..(b - keep) /\ keep < b - a /\ (Retaining => keep > 0)
  <2>1. covered = (a + 1)..(b - keep) /\ Cardinality(call[p].snapshot) = b - a
    BY OldestOfSlice
  <2>2. keep < Cardinality(call[p].snapshot) /\ (Retaining => keep > 0)
    BY DEF ArchiveInv, Snapshots
  <2> QED
    BY <2>1, <2>2
<1>2. a <= m
  BY <1>0 DEF Slice, ArchivedUpTo, TurnId
<1>3. covered \subseteq TurnId /\ covered \in SUBSET Nat
  BY <1>0, <1>1 DEF TurnId
<1>4. /\ logs \in Seq(SUBSET Nat) /\ logs' = Append(logs, covered) /\ Len(logs') = Len(logs) + 1
      /\ logs' \in Seq(SUBSET Nat) /\ logs'[Len(logs) + 1] = covered
      /\ Len(logs) \in Nat /\ \A k \in 1..Len(logs) : logs'[k] = logs[k]
  BY <1>0, <1>3 DEF Commit, TypeOK
<1>5. logOf' = [t \in TurnId |-> IF t \in covered /\ logOf[t] = 0 THEN Len(logs) + 1 ELSE logOf[t]]
  BY <1>4 DEF Commit
<1>6. UNCHANGED turns
  BY DEF Commit
<1>7. \E n \in Nat : ArchivedUpTo(n)'
  <2> PICK n \in Nat : n = IF b - keep > m THEN b - keep ELSE m
    BY <1>0, <1>1
  <2>1. n <= turns
    BY <1>0
  <2>2. ASSUME NEW t \in TurnId PROVE logOf'[t] # 0 <=> t <= n
    <3>1. t \in Nat /\ (logOf[t] # 0 <=> t <= m) /\ m <= n
      BY <1>0, <1>1 DEF ArchivedUpTo, TurnId
    <3>2. logOf'[t] = IF t \in covered /\ logOf[t] = 0 THEN Len(logs) + 1 ELSE logOf[t]
      BY <1>5
    <3>3. CASE t <= m
      BY <1>0, <3>1, <3>2, <3>3
    <3>4. CASE ~(t <= m) /\ t <= n
      <4>1. t \in covered
        BY <1>0, <1>1, <1>2, <3>1, <3>4
      <4> QED
        BY <1>4, <3>1, <3>2, <3>4, <4>1
    <3>5. CASE ~(t <= n)
      <4>1. t \notin covered /\ ~(t <= m)
        BY <1>0, <1>1, <3>1, <3>5
      <4> QED
        BY <3>1, <3>2, <3>5, <4>1
    <3> QED
      BY <3>3, <3>4, <3>5
  <2> QED
    BY <1>6, <2>1, <2>2 DEF ArchivedUpTo
<1>8. ASSUME NEW t \in TurnId, logOf'[t] # 0
      PROVE  logOf'[t] \in 1..Len(logs') /\ t \in logs'[logOf'[t]]
  BY <1>4, <1>5, <1>8 DEF ArchiveInv, Archive
<1>9. ASSUME NEW k \in 1..Len(logs')
      PROVE  /\ \E x, y \in Nat : x <= y /\ logs'[k] = x..y
             /\ \A t \in logs'[k] : t \in TurnId /\ logOf'[t] # 0
  <2>1. CASE k \in 1..Len(logs)
    BY <1>4, <1>5, <2>1 DEF ArchiveInv, Archive
  <2>2. CASE k = Len(logs) + 1
    <3>1. a + 1 \in Nat /\ b - keep \in Nat /\ a + 1 <= b - keep
      BY <1>0, <1>1
    <3> QED
      BY <1>1, <1>3, <1>4, <1>5, <2>2, <3>1
  <2> QED
    BY <1>4, <2>1, <2>2
<1>10. Retaining /\ turns > 0 => logOf'[turns] = 0
  <2> SUFFICES ASSUME Retaining, turns > 0 PROVE logOf'[turns] = 0
    OBVIOUS
  <2>1. turns \in TurnId /\ turns \notin covered /\ logOf[turns] = 0
    BY <1>0, <1>1 DEF TurnId, ArchiveInv, Archive
  <2> QED
    BY <1>5, <2>1
<1>11. logOf' \in [TurnId -> Nat] /\ \A t \in TurnId : logOf[t] # 0 => logOf'[t] # 0
  BY <1>0, <1>4, <1>5 DEF TypeOK
<1> QED
  BY <1>4, <1>6, <1>7, <1>8, <1>9, <1>10, <1>11 DEF Archive, Retaining

LEMMA StepKeepsArchive ==
    ASSUME ArchiveInv, NEW p \in Process, Step(p)
    PROVE  ArchiveInv' /\ Moves(p)
<1>0. TypeOK /\ Moves(p)
  BY StepMoves DEF ArchiveInv
<1>1. turns' \in Nat /\ turns' + Cardinality(Replying') <= MaxTurns
  BY <1>0, CountOfReplies
<1>2. /\ logOf' \in [TurnId -> Nat] /\ logs' \in Seq(SUBSET Nat) /\ Archive'
      /\ \A t \in TurnId : logOf[t] # 0 => logOf'[t] # 0
  <2>1. CASE UNCHANGED <<turns, logOf, logs>>
    BY <1>0, <2>1 DEF ArchiveInv, Archive, ArchivedUpTo, TypeOK, Retaining
  <2>2. CASE turns' = turns + 1 /\ UNCHANGED <<logOf, logs>>
    <3> PICK m \in Nat : ArchivedUpTo(m)
      BY DEF ArchiveInv, Archive
    <3>1. turns' \in TurnId /\ turns' > m /\ turns \in Nat /\ m <= turns
      <4>1. Cardinality(Replying') \in Nat
        <5>1. IsFiniteSet(Replying')
          BY FS_Subset DEF Replying
        <5> QED
          BY <5>1, FS_CardinalityType
      <4> QED
        BY <1>1, <2>2, <4>1, <1>0, TurnsBound DEF TurnId, ArchivedUpTo
    <3>2. logOf'[turns'] = 0
      BY <2>2, <3>1 DEF ArchivedUpTo
    <3>3. ArchivedUpTo(m)'
      BY <2>2, <3>1 DEF ArchivedUpTo
    <3> QED
      BY <1>0, <2>2, <3>2, <3>3 DEF ArchiveInv, Archive, TypeOK, Retaining
  <2>3. CASE call[p].todo \in Guarded /\ Commit(p)
    BY <2>3, CommitArchives
  <2> QED
    BY <1>0, <2>1, <2>2, <2>3 DEF Moves, StoreMoves
<1>3. TypeOK'
  BY <1>0, <1>1, <1>2, OtherTypes DEF TypeOK, Moves
<1>4. Snapshots'
  <2> SUFFICES ASSUME NEW q \in Process
               PROVE  /\ HasSnapshot(q)' => \E a, b \in Nat : Slice(call[q].snapshot, a, b)'
                      /\ call'[q].todo \in Guarded
                           => /\ call'[q].keep < Cardinality(call'[q].snapshot)
                              /\ Retaining => call'[q].keep > 0
    BY DEF Snapshots, Retaining
  <2>1. turns' >= turns
    BY <1>0, TurnsBound DEF Moves, StoreMoves, Commit
  <2>2. ASSUME HasSnapshot(q), call'[q].snapshot = call[q].snapshot
        PROVE  \E a, b \in Nat : Slice(call[q].snapshot, a, b)'
    <3> PICK a \in Nat, b \in Nat : Slice(call[q].snapshot, a, b)
      BY <2>2 DEF ArchiveInv, Snapshots
    <3>1. (a + 1)..b = call'[q].snapshot
      BY <2>2 DEF Slice
    <3>2. Slice((a + 1)..b, a, b)'
      <4>1. Slice((a + 1)..b, a, b)
        BY DEF Slice
      <4> QED
        BY <1>0, <1>1, <1>2, <2>1, <4>1, SliceStays
    <3> QED
      BY <3>1, <3>2 DEF Slice
  <2>3. CASE q # p
    <3>1. call'[q] = call[q]
      BY <1>0, <2>3 DEF Moves
    <3> QED
      BY <2>2, <3>1 DEF ArchiveInv, Snapshots, HasSnapshot
  <2>4. CASE q = p
    <3>1. SnapshotMoves(p)
      BY <1>0 DEF Moves
    <3>2. CASE call'[p].todo = <<"assess">> /\ call'[p].snapshot = Active /\ UNCHANGED <<turns, logOf, logs>>
      <4> PICK m \in Nat : ArchivedUpTo(m)
        BY DEF ArchiveInv, Archive
      <4>1. Slice(Active, m, turns)
        BY <1>0, ActiveTurns
      <4>2. Slice(call[p].snapshot, m, turns)'
        BY <3>2, <4>1 DEF Slice
      <4>3. turns \in Nat /\ turns' = turns
        BY <1>0, <3>2, TurnsBound
      <4>4. call'[p].todo \notin Guarded
        BY <3>2, PlanKinds, PlanMembers
      <4> QED
        BY <2>4, <4>2, <4>3, <4>4
    <3>3. CASE HasSnapshot(p) /\ call'[p].snapshot = call[p].snapshot
      BY <2>2, <2>4, <3>1, <3>3 DEF SnapshotMoves, ArchiveInv, Snapshots, KeepOK
    <3>4. CASE ~HasSnapshot(p)'
      <4>1. call'[p].todo \notin Guarded
        BY <3>4 DEF HasSnapshot
      <4> QED
        BY <2>4, <3>4, <4>1
    <3> QED
      BY <3>1, <3>2, <3>3, <3>4 DEF SnapshotMoves
  <2> QED
    BY <2>3, <2>4
<1> QED
  BY <1>0, <1>2, <1>3, <1>4 DEF ArchiveInv

LEMMA InitArchive == Init => ArchiveInv
<1> SUFFICES ASSUME Init PROVE ArchiveInv
  OBVIOUS
<1>1. CallsOK /\ \A p \in Process : call[p].todo = <<>>
  BY ReturnedOK DEF Init, CallsOK, CallOK
<1>2. Replying = {}
  BY <1>1 DEF Replying, At
<1>3. TypeOK
  <2>1. turns + Cardinality(Replying) <= MaxTurns
    BY <1>2, FS_EmptySet DEF Init
  <2>2. logs \in Seq(SUBSET Nat) /\ autoExtract \in BOOLEAN
    BY DEF Init
  <2> QED
    BY <1>1, <2>1, <2>2 DEF Init, TypeOK
<1>4. ArchivedUpTo(0)
  BY <1>3 DEF Init, ArchivedUpTo, TurnId
<1>5. Archive
  BY <1>4 DEF Init, Archive
<1>6. Snapshots
  BY <1>1, PlanKinds, PlanMembers DEF Snapshots, HasSnapshot
<1> QED
  BY <1>3, <1>5, <1>6 DEF ArchiveInv

LEMMA NextKeepsArchive == ArchiveInv /\ [Next]_vars => ArchiveInv'
<1> SUFFICES ASSUME ArchiveInv, [Next]_vars PROVE ArchiveInv'
  OBVIOUS
<1>1. CASE \E p \in Process : Step(p)
  BY <1>1, StepKeepsArchive
<1>2. CASE BreakerTick \/ UNCHANGED vars
  <2>1. UNCHANGED <<storage, flags, call>>
    BY <1>2 DEF BreakerTick, vars
  <2> QED
    BY <2>1 DEF storage, flags, ArchiveInv, TypeOK, CallsOK, Replying, At, Archive, ArchivedUpTo,
                Snapshots, HasSnapshot, Slice, Retaining
<1> QED
  BY <1>1, <1>2 DEF Next

LEMMA ArchiveInvariance == Spec => []ArchiveInv
BY InitArchive, NextKeepsArchive, PTL DEF Spec

\* No turn is lost (commitCompaction): an archived turn points at a summary that
\* covers it, a summarised turn is archived, and the bounds that a summary stores
\* say exactly which turns it covers.
THEOREM NoTurnLost == Spec => []NothingLost
<1>1. ArchiveInv => NothingLost
  <2> SUFFICES ASSUME ArchiveInv PROVE NothingLost
    OBVIOUS
  <2>1. ASSUME NEW x \in Nat, NEW y \in Nat, x <= y PROVE x..y = Min(x..y)..Max(x..y)
    BY <2>1, MinMaxOfInterval
  <2>2. DOMAIN logs = 1..Len(logs)
    BY DEF ArchiveInv, TypeOK
  <2>3. ASSUME NEW k \in 1..Len(logs) PROVE logs[k] = Min(logs[k])..Max(logs[k])
    <3> PICK x \in Nat, y \in Nat : x <= y /\ logs[k] = x..y
      BY DEF ArchiveInv, Archive
    <3> QED
      BY <2>1
  <2> QED
    BY <2>2, <2>3 DEF ArchiveInv, Archive, NothingLost
<1> QED
  BY <1>1, ArchiveInvariance, PTL

\* However calls overlap (runCompaction works on a snapshot read before the
\* summarizer is awaited), the active turns are the latest of the session.
THEOREM LatestActive == Spec => []LatestStayActive
<1>1. ArchiveInv => LatestStayActive
  <2> SUFFICES ASSUME ArchiveInv PROVE LatestStayActive
    OBVIOUS
  <2>1. ActiveIsLatest
    <3> PICK m \in Nat : ArchivedUpTo(m)
      BY DEF ArchiveInv, Archive
    <3>1. 1..turns \subseteq TurnId /\ turns \in Nat
      BY TurnsBound DEF ArchiveInv, TurnId
    <3> QED
      BY <3>1 DEF ActiveIsLatest, ArchivedUpTo
  <2>2. ASSUME NEW p \in Process, At(p, "summary") \/ At(p, "retry")
        PROVE  Oldest(call[p].snapshot, call[p].keep) # {}
    <3>1. call[p].todo \in Guarded
      BY <2>2, AtStep, PlanMembers DEF ArchiveInv, TypeOK
    <3> PICK a \in Nat, b \in Nat : Slice(call[p].snapshot, a, b)
      BY <3>1 DEF ArchiveInv, Snapshots, HasSnapshot
    <3> PICK keep \in Nat : keep = call[p].keep
      BY DEF ArchiveInv, TypeOK, CallsOK, Calls
    <3>2. /\ Oldest(call[p].snapshot, keep) = (a + 1)..(b - keep)
          /\ Cardinality(call[p].snapshot) = b - a
      BY OldestOfSlice
    <3>3. keep < Cardinality(call[p].snapshot)
      BY <3>1 DEF ArchiveInv, Snapshots
    <3>4. a + 1 \in (a + 1)..(b - keep)
      BY <3>2, <3>3
    <3> QED
      BY <3>2, <3>4
  <2> QED
    BY <2>1, <2>2 DEF LatestStayActive, NewestKept, ArchiveInv, Archive, Retaining
<1> QED
  BY <1>1, ArchiveInvariance, PTL

-----------------------------------------------------------------------------
(* What a step does when the application's hooks do not throw. *)

Kept(p) == call'[p].op = call[p].op /\ call'[p].snapshot = call[p].snapshot

Begun(p) ==
    /\ call[p] = Returned /\ (config.awaited => Quiet)
    /\ call'[p].todo \in Opening \ {<<"assess">>}
    /\ UNCHANGED <<logOf, logs, monitor, projection>>
    /\ \/ call'[p].op = "turn" /\ turns' = turns + 1
       \/ call'[p].op = "force" /\ turns' = turns

Replied(p) ==
    /\ call[p].todo = <<"reply", "readTurns", "assess">> /\ call[p].op = "turn"
    /\ call'[p].todo = <<"readTurns", "assess">> /\ call'[p].op = "turn"
    /\ turns' = turns + 1 /\ UNCHANGED <<logOf, logs, monitor, projection>>

Read(p) ==
    /\ call'[p].snapshot = Active /\ call'[p].op = call[p].op /\ UNCHANGED storage
    /\ \/ call[p].todo = <<"readTurns", "assess">> /\ call'[p].todo = <<"assess">>
       \/ call[p].todo = <<"readRemaining", "settle">> /\ call'[p].todo = <<"settle">>
       \/ call[p].todo \in Refreshing
            /\ call'[p].todo \in {<<"writeState">>, <<"writeState", "readState", "writeState">>}

Executed(p) ==
    /\ call[p].todo = <<"assess">> /\ call'[p].todo = <<"summarize">> /\ Kept(p)
    /\ Persist("compacting", call[p].snapshot) /\ UNCHANGED <<turns, logOf, logs, projection>>

Passed(p) ==
    /\ call[p].todo = <<"assess">>
    /\ UNCHANGED <<turns, logOf, logs, projection>>
    /\ \/ /\ call[p].op = "turn" /\ call'[p].todo = Refresh /\ Kept(p)
          /\ \E state \in {"idle", "soft_triggered"} : Persist(state, call[p].snapshot)
       \/ call[p].op = "force" /\ call'[p] = Returned /\ UNCHANGED monitor

Tried(p) ==
    /\ call[p].todo \in Guarded /\ UNCHANGED storage
    /\ \/ call'[p].todo = <<"summary">> /\ Kept(p)
       \/ call'[p].todo = <<"giveUp">> /\ Kept(p)
       \/ call'[p].todo = <<"retry">> /\ Kept(p) /\ config.summarizer = "retry_once"
       \/ call'[p] = Returned /\ (config.summarizer = "throw" \/ call[p].todo = <<"retry">>)

Committed(p) ==
    /\ call[p].todo \in Guarded /\ call'[p].todo = Compacted /\ Commit(p)
    /\ call'[p].op = call[p].op

GaveUp(p) ==
    /\ call[p].todo = <<"giveUp">> /\ Persist("idle", call[p].snapshot)
    /\ UNCHANGED <<turns, logOf, logs, projection>>
    /\ \/ call[p].op = "force" /\ call'[p] = Returned
       \/ call[p].op = "turn" /\ call'[p].todo = Refresh /\ Kept(p)

Settled(p) ==
    /\ call[p].todo = <<"settle">> /\ Persist("idle", call[p].snapshot)
    /\ call'[p].todo \in Refreshing \ FreshPlans
    /\ UNCHANGED <<turns, logOf, logs, projection>>

Extracted(p) ==
    /\ call[p].todo \in Refreshing /\ call'[p].todo \in Refreshing \ FreshPlans /\ UNCHANGED storage

Wrote(p) ==
    /\ call[p].todo \in {<<"writeState">>, <<"writeState", "readState", "writeState">>}
    /\ projection' = call[p].snapshot /\ UNCHANGED <<turns, logOf, logs, monitor>>
    /\ call'[p] = Returned \/ call'[p].todo = Refresh

Effect(p) ==
    \/ Begun(p) \/ Replied(p) \/ Read(p) \/ Executed(p) \/ Passed(p) \/ Tried(p) \/ Committed(p)
    \/ GaveUp(p) \/ Settled(p) \/ Extracted(p) \/ Wrote(p)

LEMMA NotFresh ==
    /\ \A s \in Opening \cup Guarded \cup {<<"giveUp">>, <<>>, <<"readRemaining", "settle">>} :
         s \notin FreshPlans
    /\ \A s \in Guarded \cup Refreshing \cup {<<>>, <<"giveUp">>} \cup Closing : s \notin Opening
    /\ <<"readState", "writeState">> \in Refreshing \ FreshPlans
    /\ <<"readState", "writeState", "readState", "writeState">> \in Refreshing \ FreshPlans
    /\ <<"extract", "readState", "writeState">> \in Refreshing \ FreshPlans
    /\ <<"extract", "readState", "writeState", "readState", "writeState">> \in Refreshing \ FreshPlans
    /\ <<"writeState">> \in Refreshing /\ <<"writeState", "readState", "writeState">> \in Refreshing
    /\ Compacted = <<"readRemaining", "settle">> /\ Refresh = <<"readState", "writeState">>
<1>1. \A s \in Opening \cup Guarded \cup {<<"giveUp">>, <<>>, <<"readRemaining", "settle">>} :
         s \notin FreshPlans
  <2>1. <<"readRemaining", "settle">> # <<"settle">>
    OBVIOUS
  <2> QED
    BY <2>1, PlanKinds, PlanMembers DEF FreshPlans, Refreshing, Closing
<1>2. \A s \in Guarded \cup Refreshing \cup {<<>>, <<"giveUp">>} \cup Closing : s \notin Opening
  BY PlanKinds
<1>3. /\ <<"readState", "writeState">> \in Refreshing \ FreshPlans
      /\ <<"readState", "writeState", "readState", "writeState">> \in Refreshing \ FreshPlans
      /\ <<"extract", "readState", "writeState">> \in Refreshing \ FreshPlans
      /\ <<"extract", "readState", "writeState", "readState", "writeState">> \in Refreshing \ FreshPlans
  BY DEF Refreshing, FreshPlans
<1>4. /\ <<"writeState">> \in Refreshing /\ <<"writeState", "readState", "writeState">> \in Refreshing
      /\ Compacted = <<"readRemaining", "settle">> /\ Refresh = <<"readState", "writeState">>
  BY DEF Refreshing, Compacted, Refresh
<1> QED
  BY <1>1, <1>2, <1>3, <1>4

LEMMA StepEffect ==
    ASSUME ArchiveInv, ~config.hooksThrow, NEW p \in Process, Step(p)
    PROVE  Effect(p)
<1>0. /\ TypeOK /\ CallsOK /\ Active \in SUBSET Nat /\ IsFiniteSet(Active)
      /\ call[p].op \in {"none", "turn", "force"} /\ config.hooksThrow = FALSE
  BY ActiveTurns DEF ArchiveInv, Archive, TypeOK, CallsOK, Calls
<1>1. CASE ProcessTurn(p) \/ ProcessExchange(p)
  <2> PICK steps \in {<<"readTurns", "assess">>, <<"reply", "readTurns", "assess">>} :
        Become(p, [Returned EXCEPT !.op = "turn", !.todo = steps])
    BY <1>0, <1>1 DEF ProcessTurn, ProcessExchange
  <2>1. steps \in Opening \ {<<"assess">>}
    BY DEF Opening
  <2>2. steps \in Plans /\ steps # <<>>
    BY <2>1, PlanMembers, PlanKinds
  <2>3. call'[p].todo = steps /\ call'[p].op = "turn"
    BY <1>0, <2>2, Begins
  <2>4. call[p] = Returned /\ (config.awaited => Quiet) /\ turns' = turns + 1
        /\ UNCHANGED <<logOf, logs, monitor, projection>>
    BY <1>1 DEF ProcessTurn, ProcessExchange, CanCall
  <2> QED
    BY <2>1, <2>3, <2>4 DEF Begun, Effect
<1>2. CASE ForceCompact(p)
  <2>1. <<"readTurns", "assess">> \in Opening \ {<<"assess">>}
    BY DEF Opening
  <2>2. <<"readTurns", "assess">> \in Plans /\ <<"readTurns", "assess">> # <<>>
        /\ <<"readTurns", "assess">> # <<"reply", "readTurns", "assess">>
    BY PlanMembers, PlanKinds, NotReply
  <2>3. call'[p].todo = <<"readTurns", "assess">> /\ call'[p].op = "force"
    BY <1>0, <1>2, <2>2, Begins DEF ForceCompact
  <2> QED
    BY <1>2, <2>1, <2>3 DEF ForceCompact, CanCall, storage, Begun, Effect
<1>3. CASE Reply(p)
  <2>1. At(p, "reply") /\ Then(p, Rest(p))
    BY <1>0, <1>3 DEF Reply, AfterHook
  <2>2. call[p].todo = <<"reply", "readTurns", "assess">> /\ Rest(p) = <<"readTurns", "assess">>
        /\ call[p].todo # <<>>
    BY <1>0, <2>1, AtStep
  <2>3. Rest(p) \in Plans /\ Rest(p) # <<>> /\ Rest(p) # <<"reply", "readTurns", "assess">>
    BY <2>2, PlanMembers, PlanKinds, NotReply
  <2>4. call'[p].todo = <<"readTurns", "assess">> /\ call'[p].op = call[p].op /\ call[p].op = "turn"
    BY <1>0, <2>1, <2>2, <2>3, GoesOn DEF CallsOK, CallOK
  <2> QED
    BY <1>3, <2>2, <2>4 DEF Reply, Replied, Effect
<1>4. CASE ReadTurns(p) \/ ReadRemaining(p) \/ ReadState(p)
  <2>1. /\ At(p, "readTurns") \/ At(p, "readRemaining") \/ At(p, "readState")
        /\ UNCHANGED storage /\ Become(p, [call[p] EXCEPT !.todo = Rest(p), !.snapshot = Active])
    BY <1>4 DEF ReadTurns, ReadRemaining, ReadState
  <2>2. /\ call[p].todo # <<>>
        /\ \/ call[p].todo = <<"readTurns", "assess">> /\ Rest(p) = <<"assess">>
           \/ call[p].todo = <<"readRemaining", "settle">> /\ Rest(p) = <<"settle">>
           \/ /\ call[p].todo \in Refreshing
              /\ Rest(p) \in {<<"writeState">>, <<"writeState", "readState", "writeState">>}
    BY <1>0, <2>1, AtStep
  <2>3. Rest(p) \in Plans /\ Rest(p) \notin {<<>>, <<"reply", "readTurns", "assess">>}
    BY <2>2, PlanMembers, PlanKinds, NotReply, NotFresh
  <2>4. call'[p].todo = Rest(p) /\ call'[p].snapshot = Active /\ call'[p].op = call[p].op
    BY <1>0, <2>1, <2>2, <2>3, Snaps
  <2> QED
    BY <2>1, <2>2, <2>4 DEF Read, Effect
<1>5. CASE AssessGap(p) \/ AssessHard(p) \/ (AssessSoft(p) /\ call[p].op # "turn")
  <2>1. call[p].todo = <<"assess">>
    BY <1>0, <1>5, AtStep DEF AssessGap, AssessHard, AssessSoft
  <2> PICK keep \in Nat : Execute(p, keep)
    BY <1>5, <2>1, AssessKeeps
  <2>2. call'[p].todo = <<"summarize">> /\ Kept(p)
    BY <1>0, <2>1, PlanKinds, PlanMembers, ExecuteMoves DEF Kept
  <2> QED
    BY <2>1, <2>2 DEF Execute, Executed, Effect
<1>6. CASE AssessNone(p) \/ (AssessSoft(p) /\ call[p].op = "turn")
  <2>1. call[p].todo = <<"assess">> /\ call[p].todo # <<>> /\ call[p].op # "none"
    BY <1>0, <1>6, AtStep DEF AssessNone, AssessSoft
  <2>2. UNCHANGED <<turns, logOf, logs, projection>>
    BY <1>6 DEF AssessNone, AssessSoft
  <2>3. CASE call[p].op = "turn"
    <3>1. /\ Then(p, Refresh)
          /\ Persist("idle", call[p].snapshot) \/ Persist("soft_triggered", call[p].snapshot)
      BY <1>6, <2>3 DEF AssessNone, AssessSoft
    <3>2. Refresh \in Plans /\ Refresh # <<>> /\ Refresh # <<"reply", "readTurns", "assess">>
      BY NotFresh, PlanMembers, PlanKinds, NotReply
    <3>3. call'[p].todo = Refresh /\ Kept(p)
      BY <1>0, <2>1, <3>1, <3>2, GoesOn DEF Kept
    <3> QED
      BY <2>1, <2>2, <2>3, <3>1, <3>3 DEF Passed, Effect
  <2>4. CASE call[p].op # "turn"
    <3>1. Return(p) /\ UNCHANGED monitor
      BY <1>6, <2>4 DEF AssessNone
    <3>2. call'[p] = Returned
      BY <1>0, <3>1, ReturnedOK, Becomes DEF Return
    <3> QED
      BY <1>0, <2>1, <2>2, <2>4, <3>1, <3>2 DEF Passed, Effect
  <2> QED
    BY <2>3, <2>4
<1>7. CASE Summarize(p) \/ SummaryFails(p) \/ RetryFails(p)
  <2>1. /\ call[p].todo \in Guarded /\ call[p].todo # <<>>
        /\ RetryFails(p) => call[p].todo = <<"retry">>
    BY <1>0, <1>7, AtStep, PlanMembers DEF Summarize, SummaryFails, RetryFails
  <2>2. UNCHANGED storage
    BY <1>7 DEF Summarize, SummaryFails, RetryFails
  <2>3. CASE OnFailure(p)
    BY <1>0, <2>1, <2>2, <2>3, FailureMoves DEF Tried, Kept, Effect
  <2>4. CASE Then(p, <<"summary">>)
    <3>1. <<"summary">> \in Plans /\ <<"summary">> # <<>>
          /\ <<"summary">> # <<"reply", "readTurns", "assess">>
      BY PlanMembers, PlanKinds, NotReply
    <3> QED
      BY <1>0, <2>1, <2>2, <2>4, <3>1, GoesOn DEF Tried, Kept, Effect
  <2>5. CASE RetryFails(p)
    BY <1>0, <2>1, <2>2, <2>5, ReturnedOK, Becomes DEF RetryFails, Return, Tried, Effect
  <2> QED
    BY <1>7, <2>3, <2>4, <2>5 DEF Summarize, SummaryFails
<1>8. CASE SummaryArrives(p) \/ RetryArrives(p)
  <2>1. call[p].todo \in Guarded /\ call[p].todo # <<>> /\ Commit(p) /\ Then(p, Compacted)
    BY <1>0, <1>8, AtStep, PlanMembers DEF SummaryArrives, RetryArrives, AfterHook
  <2>2. Compacted \in Plans /\ Compacted # <<>> /\ Compacted # <<"reply", "readTurns", "assess">>
    BY NotFresh, PlanMembers, PlanKinds, NotReply
  <2>3. call'[p].todo = Compacted /\ call'[p].op = call[p].op
    BY <1>0, <2>1, <2>2, GoesOn
  <2> QED
    BY <2>1, <2>3 DEF Committed, Effect
<1>9. CASE GiveUp(p)
  <2>1. /\ call[p].todo = <<"giveUp">> /\ call[p].todo # <<>> /\ call[p].op # "none"
        /\ Then(p, AfterCompaction(p))
        /\ Persist("idle", call[p].snapshot) /\ UNCHANGED <<turns, logOf, logs, projection>>
    BY <1>0, <1>9, AtStep DEF GiveUp, AfterHook
  <2>2. CASE call[p].op = "force"
    <3>1. call'[p] = Returned
      BY <1>0, <2>1, <2>2, ReturnedOK, Becomes DEF AfterCompaction, Then, Return
    <3> QED
      BY <2>1, <2>2, <3>1 DEF GaveUp, Effect
  <2>3. CASE call[p].op = "turn"
    <3>1. Refresh \in Plans /\ Refresh # <<>> /\ Refresh # <<"reply", "readTurns", "assess">>
      BY NotFresh, PlanMembers, PlanKinds, NotReply
    <3>2. call'[p].todo = Refresh /\ Kept(p)
      BY <1>0, <2>1, <2>3, <3>1, GoesOn DEF Kept, AfterCompaction
    <3> QED
      BY <2>1, <2>3, <3>2 DEF GaveUp, Effect
  <2> QED
    BY <1>0, <2>1, <2>2, <2>3
<1>10. CASE Settle(p)
  <2> PICK steps : steps = (IF autoExtract THEN <<"extract">> ELSE <<>>) \o Refresh \o AfterCompaction(p)
    OBVIOUS
  <2>1. /\ call[p].todo = <<"settle">> /\ call[p].todo # <<>> /\ Then(p, steps)
        /\ Persist("idle", call[p].snapshot) /\ UNCHANGED <<turns, logOf, logs, projection>>
    BY <1>0, <1>10, AtStep DEF Settle
  <2>2. steps \in Refreshing \ FreshPlans
    BY Concats, NotFresh DEF AfterCompaction
  <2>3. steps \in Plans /\ steps # <<>> /\ steps # <<"reply", "readTurns", "assess">>
    BY <2>2, PlanMembers, PlanKinds, NotReply
  <2>4. call'[p].todo = steps
    BY <1>0, <2>1, <2>3, GoesOn
  <2> QED
    BY <2>1, <2>2, <2>4 DEF Settled, Effect
<1>11. CASE Extract(p)
  <2>1. At(p, "extract") /\ Then(p, Rest(p)) /\ UNCHANGED storage
    BY <1>0, <1>11 DEF Extract, AfterHook
  <2>2. call[p].todo # <<>> /\ call[p].todo \in Refreshing /\ Rest(p) \in Refreshing \ FreshPlans
    BY <1>0, <2>1, AtStep, NotFresh
  <2>3. Rest(p) \in Plans /\ Rest(p) # <<>> /\ Rest(p) # <<"reply", "readTurns", "assess">>
    BY <2>2, PlanMembers, PlanKinds, NotReply
  <2>4. call'[p].todo = Rest(p)
    BY <1>0, <2>1, <2>2, <2>3, GoesOn
  <2> QED
    BY <2>1, <2>2, <2>4 DEF Extracted, Effect
<1>12. CASE WriteState(p)
  <2>1. /\ At(p, "writeState") /\ Then(p, Rest(p)) /\ projection' = call[p].snapshot
        /\ UNCHANGED <<turns, logOf, logs, monitor>>
    BY <1>12 DEF WriteState, Continue
  <2>2. /\ call[p].todo # <<>>
        /\ call[p].todo \in {<<"writeState">>, <<"writeState", "readState", "writeState">>}
        /\ Rest(p) \in {<<>>, Refresh}
    <3>1. \/ call[p].todo = <<"writeState">> /\ Rest(p) = <<>>
          \/ /\ call[p].todo = <<"writeState", "readState", "writeState">>
             /\ Rest(p) = <<"readState", "writeState">>
      BY <1>0, <2>1, AtStep
    <3>2. call[p].todo # <<>>
      BY <1>0, <2>1, AtPlan
    <3> QED
      BY <3>1, <3>2, NotFresh
  <2>3. Rest(p) \in Plans /\ Rest(p) # <<"reply", "readTurns", "assess">>
    BY <2>2, PlanMembers, NotFresh, NotReply
  <2>4. call'[p] = Returned \/ call'[p].todo = Refresh
    BY <1>0, <2>1, <2>2, <2>3, GoesOn
  <2> QED
    BY <2>1, <2>2, <2>4 DEF Wrote, Effect
<1> QED
  BY <1>1, <1>2, <1>3, <1>4, <1>5, <1>6, <1>7, <1>8, <1>9, <1>10, <1>11, <1>12 DEF Step

\* No snapshot, or one that is not used any more.
LEMMA NotSnapped ==
    ASSUME NEW s \in (Opening \ {<<"assess">>}) \cup (Refreshing \ FreshPlans)
                        \cup {<<>>, <<"readRemaining", "settle">>}
    PROVE  s \notin Guarded \cup {<<"assess">>, <<"giveUp">>} \cup FreshPlans
<1>1. CASE s \in Opening \ {<<"assess">>}
  BY <1>1, PlanKinds, NotFresh
<1>2. CASE s \in Refreshing \ FreshPlans
  BY <1>2, PlanKinds, PlanMembers
<1>3. CASE s \in {<<>>, <<"readRemaining", "settle">>}
  BY <1>3, PlanKinds, PlanMembers, NotFresh
<1> QED
  BY <1>1, <1>2, <1>3

LEMMA Underway ==
    ASSUME NEW p \in Process, Effect(p), ~Begun(p)
    PROVE  call[p].todo # <<>> /\ call[p] # Returned
<1>1. call[p].todo # <<>>
  BY PlanKinds, PlanMembers, NotFresh
     DEF Effect, Replied, Read, Executed, Passed, Tried, Committed, GaveUp, Settled, Extracted, Wrote
<1> QED
  BY <1>1, ReturnedOK

LEMMA StepKeepsOrder ==
    ASSUME ArchiveInv, OrderlyInv, NEW p \in Process, Step(p)
    PROVE  OrderlyInv'
<1>0. TypeOK /\ Moves(p) /\ config' = config /\ CallsOK'
  BY StepMoves, OtherTypes DEF ArchiveInv, Moves
<1> SUFFICES ASSUME Orderly PROVE (OneCall /\ Fresh /\ LogsDisjoint)'
  BY <1>0 DEF OrderlyInv, Orderly
<1>1. Effect(p) /\ OneCall /\ Fresh /\ LogsDisjoint
  BY StepEffect DEF OrderlyInv, Orderly
<1>2. \A q \in Process : q # p => call[q] = Returned
  <2>1. CASE Begun(p)
    BY <2>1 DEF Begun, Orderly, Quiet
  <2>2. CASE ~Begun(p)
    BY <1>1, <2>2, Underway DEF OneCall
  <2> QED
    BY <2>1, <2>2
<1>3. \A q \in Process : q # p => call'[q] = Returned
  BY <1>0, <1>2 DEF Moves
<1>4. OneCall'
  BY <1>3 DEF OneCall
<1>5. Fresh'
  <2>1. UNCHANGED <<turns, logOf>> => Active' = Active
    BY DEF Active
  <2>2. ASSUME call'[p].todo \in Guarded \cup {<<"assess">>, <<"giveUp">>} \cup FreshPlans
        PROVE  call'[p].snapshot = Active'
    <3>1. CASE Begun(p) \/ Replied(p)
      <4>1. call'[p].todo \in Opening \ {<<"assess">>}
        BY <3>1, NotReply, PlanMembers DEF Begun, Replied, Opening
      <4> QED
        BY <2>2, <4>1, NotSnapped
    <3>2. CASE Read(p)
      BY <2>1, <3>2 DEF Read, storage
    <3>3. CASE Executed(p) \/ Tried(p) \/ Passed(p) \/ GaveUp(p)
      <4>1. HasSnapshot(p) /\ UNCHANGED <<turns, logOf>>
        BY <3>3, PlanMembers DEF Executed, Tried, Passed, GaveUp, HasSnapshot, storage
      <4>2. call'[p].snapshot = call[p].snapshot \/ call'[p] = Returned
        BY <3>3 DEF Executed, Tried, Passed, GaveUp, Kept
      <4>3. call'[p] # Returned
        BY <2>2, NotSnapped, ReturnedOK
      <4> QED
        BY <1>1, <2>1, <4>1, <4>2, <4>3 DEF Fresh
    <3>4. CASE Committed(p) \/ Settled(p) \/ Extracted(p) \/ Wrote(p)
      <4>1. call'[p].todo \in (Refreshing \ FreshPlans) \cup {<<>>, <<"readRemaining", "settle">>}
        BY <3>4, NotFresh, ReturnedOK DEF Committed, Settled, Extracted, Wrote
      <4> QED
        BY <2>2, <4>1, NotSnapped
    <3> QED
      BY <1>1, <3>1, <3>2, <3>3, <3>4 DEF Effect
  <2>3. ASSUME NEW q \in Process, q # p
        PROVE  call'[q].todo \notin Guarded \cup {<<"assess">>, <<"giveUp">>} \cup FreshPlans
    BY <1>3, <2>3, NotSnapped, ReturnedOK
  <2> QED
    BY <2>2, <2>3 DEF Fresh, HasSnapshot
<1>6. LogsDisjoint'
  <2>1. CASE UNCHANGED logs
    BY <1>1, <2>1 DEF LogsDisjoint
  <2>2. CASE Committed(p)
    <3> PICK covered : covered = Oldest(call[p].snapshot, call[p].keep)
      OBVIOUS
    <3>1. call[p].snapshot = Active /\ covered \subseteq Active
      BY <1>1, <2>2 DEF Committed, Fresh, HasSnapshot, Oldest
    <3>2. covered \in SUBSET Nat
      BY <1>0, <3>1 DEF Active, TypeOK
    <3>3. /\ logs \in Seq(SUBSET Nat) /\ logs' = Append(logs, covered) /\ Len(logs') = Len(logs) + 1
          /\ logs'[Len(logs) + 1] = covered
          /\ Len(logs) \in Nat /\ \A k \in 1..Len(logs) : logs'[k] = logs[k]
      BY <1>0, <2>2, <3>2 DEF Committed, Commit, TypeOK
    <3>4. ASSUME NEW k \in 1..Len(logs) PROVE logs[k] \cap covered = {}
      BY <3>1 DEF ArchiveInv, Archive, Active
    <3> QED
      BY <1>1, <3>3, <3>4 DEF LogsDisjoint
  <2>3. UNCHANGED logs \/ Committed(p)
    BY <1>1 DEF Effect, Begun, Replied, Read, Executed, Passed, Tried, GaveUp, Settled, Extracted,
                Wrote, storage
  <2> QED
    BY <2>1, <2>2, <2>3
<1> QED
  BY <1>4, <1>5, <1>6

LEMMA StepKeepsSettled ==
    ASSUME ArchiveInv, OrderlyInv, SettledInv, NEW p \in Process, Step(p)
    PROVE  SettledInv'
<1>0. TypeOK /\ Moves(p) /\ config' = config /\ CallsOK /\ CallsOK'
  BY StepMoves, OtherTypes DEF ArchiveInv, Moves, TypeOK
<1> SUFFICES ASSUME Forgiving
             PROVE  /\ \A q \in Process : call'[q].todo # <<"retry">>
                    /\ Compacting'
                    /\ config.awaited => MonitorOK' /\ ProjectionOK'
  BY <1>0 DEF SettledInv, Forgiving
<1>1. /\ Effect(p) /\ (\A q \in Process : call[q].todo # <<"retry">>) /\ Compacting
      /\ config.awaited => MonitorOK /\ ProjectionOK
      /\ config.summarizer = "log_and_continue"
  BY StepEffect DEF SettledInv, Forgiving
<1>2. Tried(p) => call'[p].todo \in {<<"summary">>, <<"giveUp">>} /\ Kept(p)
  BY <1>1 DEF Tried
<1>3. call'[p].todo # <<"retry">>
  <2>1. CASE Begun(p) \/ Replied(p) \/ Read(p) \/ Executed(p) \/ Passed(p)
    <3>1. call'[p].todo \in Opening \cup Closing \cup Refreshing \cup {<<"summarize">>, <<>>}
      BY <2>1, PlanMembers, NotFresh, ReturnedOK DEF Begun, Replied, Read, Executed, Passed
    <3>2. <<"summarize">> # <<"retry">>
      OBVIOUS
    <3> QED
      BY <3>1, <3>2, PlanKinds, PlanMembers
  <2>2. CASE Tried(p)
    <3>1. <<"summary">> # <<"retry">> /\ <<"giveUp">> # <<"retry">>
      OBVIOUS
    <3> QED
      BY <1>2, <2>2, <3>1
  <2>3. CASE Committed(p) \/ GaveUp(p) \/ Settled(p) \/ Extracted(p) \/ Wrote(p)
    <3>1. call'[p].todo \in Closing \cup Refreshing \cup {<<>>}
      BY <2>3, PlanMembers, NotFresh, ReturnedOK DEF Committed, GaveUp, Settled, Extracted, Wrote
    <3> QED
      BY <3>1, PlanKinds, PlanMembers
  <2> QED
    BY <1>1, <2>1, <2>2, <2>3 DEF Effect
<1>4. Compacting'
  <2> SUFFICES ASSUME monitor'.state = "compacting"
               PROVE  \E q \in Process : call'[q].todo \in Guarded \cup {<<"giveUp">>} \cup Closing
    BY DEF Compacting
  <2>1. CASE Executed(p)
    BY <2>1, PlanMembers DEF Executed
  <2>2. CASE UNCHANGED monitor
    <3> PICK q \in Process : call[q].todo \in Guarded \cup {<<"giveUp">>} \cup Closing
      BY <1>1, <2>2 DEF Compacting
    <3>1. CASE q # p
      BY <1>0, <3>1 DEF Moves
    <3>2. CASE q = p
      <4>1. CASE Tried(p)
        BY <1>2, <4>1, PlanMembers
      <4>2. CASE Committed(p)
        BY <4>2, PlanMembers, NotFresh DEF Committed
      <4>3. CASE Read(p)
        <5>1. call[p].todo \notin Opening \cup Refreshing
          BY <3>2, PlanKinds, NotFresh
        <5> QED
          BY <4>3, <5>1, PlanMembers DEF Read
      <4>4. CASE GaveUp(p) \/ Settled(p)
        BY <2>2, <4>4 DEF GaveUp, Settled, Persist
      <4>5. CASE Begun(p) \/ Replied(p) \/ Executed(p) \/ Passed(p) \/ Extracted(p) \/ Wrote(p)
        BY <3>2, <4>5, PlanKinds, PlanMembers, NotFresh, ReturnedOK
           DEF Begun, Replied, Executed, Passed, Extracted, Wrote
      <4> QED
        BY <1>1, <4>1, <4>2, <4>3, <4>4, <4>5 DEF Effect
    <3> QED
      BY <3>1, <3>2
  <2>3. CASE ~UNCHANGED monitor /\ ~Executed(p)
    <3>1. \E state \in {"idle", "soft_triggered"} : Persist(state, call[p].snapshot)
      BY <1>1, <2>3 DEF Effect, Begun, Replied, Read, Passed, Tried, Committed, Commit, GaveUp,
                        Settled, Extracted, Wrote, storage
    <3> QED
      BY <3>1 DEF Persist
  <2> QED
    BY <2>1, <2>2, <2>3
<1>5. ASSUME config.awaited
      PROVE  MonitorOK' /\ ProjectionOK'
  <2>1. Orderly /\ OneCall /\ Fresh /\ (OneCall /\ Fresh)' /\ MonitorOK /\ ProjectionOK
    BY <1>0, <1>1, <1>5, StepKeepsOrder DEF OrderlyInv, Orderly, Forgiving
  <2>2. \A q \in Process : q # p => call[q] = Returned
    <3>1. CASE Begun(p)
      BY <1>5, <3>1 DEF Begun, Quiet
    <3>2. CASE ~Begun(p)
      BY <1>1, <2>1, <3>2, Underway DEF OneCall
    <3> QED
      BY <3>1, <3>2
  <2>3. \A q \in Process : q # p => call'[q] = Returned
    BY <1>0, <2>2 DEF Moves
  <2>4. Returned.todo \notin Refreshing /\ Returned.op = "none"
    BY ReturnedOK, PlanKinds DEF Returned
  <2>5. UNCHANGED <<turns, logOf>> => Active' = Active
    BY DEF Active
  <2>6. /\ Quiet' => call'[p] = Returned
        /\ call[p] = Returned => Quiet
    BY <2>2 DEF Quiet
  <2>7. /\ call[p].todo \in Refreshing => monitor.count = Cardinality(Active)
        /\ call[p].op = "force" /\ call[p].todo \in Opening => monitor.count = Cardinality(Active)
        /\ call[p] = Returned => monitor.count = Cardinality(Active) /\ projection = Active
        /\ call[p].op = "force" /\ call[p].todo \notin Closing \cup Refreshing => projection = Active
    BY <2>1, <2>6 DEF MonitorOK, ProjectionOK
  <2>8. ASSUME \/ call'[p] = Returned \/ call'[p].todo \in Refreshing
               \/ call'[p].op = "force" /\ call'[p].todo \in Opening
        PROVE  monitor'.count = Cardinality(Active')
    <3>1. CASE Begun(p)
      <4>1. call'[p].todo \in Opening /\ call'[p].todo \notin Refreshing /\ call'[p] # Returned
        BY <3>1, PlanKinds, ReturnedOK DEF Begun
      <4> QED
        BY <2>5, <2>7, <2>8, <3>1, <4>1 DEF Begun
    <3>2. CASE Replied(p)
      <4>1. call'[p].todo \in Opening /\ call'[p].todo \notin Refreshing /\ call'[p] # Returned
        BY <3>2, PlanKinds, PlanMembers, ReturnedOK DEF Replied
      <4> QED
        BY <2>8, <3>2, <4>1 DEF Replied
    <3>3. CASE Read(p)
      <4>1. UNCHANGED <<turns, logOf, monitor>> /\ call'[p].op = call[p].op
        BY <3>3 DEF Read, storage
      <4>2. \/ call[p].todo \in Refreshing
            \/ call[p].op = "force" /\ call[p].todo \in Opening
        BY <2>8, <3>3, PlanKinds, PlanMembers, ReturnedOK, NotFresh DEF Read
      <4> QED
        BY <2>5, <2>7, <4>1, <4>2
    <3>4. CASE Executed(p) \/ Tried(p) \/ Committed(p)
      <4>1. call'[p].todo \in Guarded \cup {<<"giveUp">>} \cup Closing
        BY <1>2, <3>4, PlanMembers, NotFresh DEF Executed, Committed
      <4> QED
        BY <2>8, <4>1, PlanKinds, NotFresh, ReturnedOK
    <3>5. CASE Passed(p) \/ GaveUp(p) \/ Settled(p)
      <4>1. UNCHANGED <<turns, logOf>> /\ call[p].snapshot = Active
        BY <2>1, <3>5 DEF Passed, GaveUp, Settled, Fresh, HasSnapshot, FreshPlans
      <4>2. \/ \E state \in {"idle", "soft_triggered"} : Persist(state, call[p].snapshot)
            \/ UNCHANGED monitor /\ call[p].op = "force" /\ call[p].todo = <<"assess">>
        BY <3>5 DEF Passed, GaveUp, Settled
      <4> QED
        BY <2>5, <2>7, <4>1, <4>2, PlanMembers DEF Persist
    <3>6. CASE Extracted(p) \/ Wrote(p)
      <4>1. UNCHANGED <<turns, logOf, monitor>> /\ call[p].todo \in Refreshing
        BY <3>6, NotFresh DEF Extracted, Wrote, storage
      <4> QED
        BY <2>5, <2>7, <4>1
    <3> QED
      BY <1>1, <3>1, <3>2, <3>3, <3>4, <3>5, <3>6 DEF Effect
  <2>9. ASSUME call'[p] = Returned \/ (call'[p].op = "force" /\ call'[p].todo \notin Closing \cup Refreshing)
        PROVE  projection' = Active'
    <3>1. CASE Begun(p)
      <4>1. call'[p] # Returned
        BY <3>1, PlanKinds, ReturnedOK DEF Begun
      <4> QED
        BY <2>5, <2>7, <2>9, <3>1, <4>1 DEF Begun
    <3>2. CASE Replied(p)
      <4>1. call'[p] # Returned
        BY <3>2, PlanKinds, PlanMembers, ReturnedOK DEF Replied
      <4> QED
        BY <2>9, <3>2, <4>1 DEF Replied
    <3>3. CASE Read(p)
      <4>1. UNCHANGED <<turns, logOf, projection>> /\ call'[p].op = call[p].op
        BY <3>3 DEF Read, storage
      <4>2. call[p].todo = <<"readTurns", "assess">> /\ call'[p] # Returned
        BY <2>9, <3>3, PlanKinds, PlanMembers, ReturnedOK, NotFresh DEF Read
      <4> QED
        BY <2>5, <2>7, <2>9, <4>1, <4>2, PlanKinds, PlanMembers
    <3>4. CASE Executed(p) \/ Tried(p)
      <4>1. /\ UNCHANGED <<turns, logOf, projection>> /\ call'[p].op = call[p].op
            /\ call[p].todo \in Guarded \cup {<<"assess">>}
            /\ call'[p].todo \in Guarded \cup {<<"giveUp">>}
        BY <1>2, <3>4, PlanMembers DEF Executed, Tried, Kept, storage
      <4>2. call'[p] # Returned
        BY <4>1, PlanKinds, ReturnedOK
      <4> QED
        BY <2>5, <2>7, <2>9, <4>1, <4>2, PlanKinds, PlanMembers
    <3>5. CASE Passed(p) \/ GaveUp(p)
      <4>1. /\ UNCHANGED <<turns, logOf, projection>> /\ call[p].todo \in {<<"assess">>, <<"giveUp">>}
            /\ call[p].op = "force" \/ call'[p].todo = Refresh
        BY <3>5 DEF Passed, GaveUp
      <4>2. call'[p].todo # Refresh
        BY <2>9, NotFresh, PlanKinds, ReturnedOK
      <4> QED
        BY <2>5, <2>7, <4>1, <4>2, PlanKinds, PlanMembers
    <3>6. CASE Committed(p) \/ Settled(p) \/ Extracted(p)
      <4>1. call'[p].todo \in Closing \cup Refreshing
        BY <3>6, PlanMembers, NotFresh DEF Committed, Settled, Extracted
      <4> QED
        BY <2>9, <4>1, PlanKinds, ReturnedOK
    <3>7. CASE Wrote(p)
      <4>1. call'[p].todo # Refresh
        BY <2>9, NotFresh, PlanKinds, ReturnedOK
      <4> QED
        BY <2>1, <2>5, <3>7, <4>1 DEF Wrote, Fresh, FreshPlans
    <3> QED
      BY <1>1, <3>1, <3>2, <3>3, <3>4, <3>5, <3>6, <3>7 DEF Effect
  <2>10. MonitorOK'
    BY <2>3, <2>4, <2>6, <2>8 DEF MonitorOK
  <2>11. ProjectionOK'
    BY <2>3, <2>4, <2>6, <2>9 DEF ProjectionOK
  <2> QED
    BY <2>10, <2>11
<1>6. \A q \in Process : call'[q].todo # <<"retry">>
  BY <1>0, <1>1, <1>3 DEF Moves
<1> QED
  BY <1>4, <1>5, <1>6

LEMMA InitInv == Init => IInv
<1> SUFFICES ASSUME Init PROVE IInv
  OBVIOUS
<1>1. ArchiveInv /\ (\A p \in Process : call[p] = Returned) /\ Returned.todo = <<>>
  BY InitArchive, ReturnedOK DEF Init
<1>2. OneCall /\ LogsDisjoint
  BY <1>1 DEF Init, OneCall, LogsDisjoint
<1>3. Fresh
  BY <1>1, NotSnapped DEF Fresh, HasSnapshot
<1>4. Active = {} /\ Cardinality(Active) = 0
  BY FS_EmptySet DEF Init, Active
<1>5. MonitorOK /\ ProjectionOK
  BY <1>4 DEF Init, MonitorOK, ProjectionOK
<1>6. Compacting /\ \A p \in Process : call[p].todo # <<"retry">>
  BY <1>1, PlanKinds, PlanMembers DEF Init, Compacting
<1> QED
  BY <1>1, <1>2, <1>3, <1>5, <1>6 DEF IInv, OrderlyInv, SettledInv

LEMMA NextInv == IInv /\ [Next]_vars => IInv'
<1> SUFFICES ASSUME IInv, [Next]_vars PROVE IInv'
  OBVIOUS
<1>1. ArchiveInv'
  BY NextKeepsArchive DEF IInv
<1>2. CASE \E p \in Process : Step(p)
  BY <1>1, <1>2, StepKeepsOrder, StepKeepsSettled DEF IInv
<1>3. CASE BreakerTick \/ UNCHANGED vars
  <2>1. UNCHANGED <<storage, flags, call>>
    BY <1>3 DEF BreakerTick, vars
  <2>2. OrderlyInv' = OrderlyInv
    BY <2>1 DEF storage, flags, OrderlyInv, Orderly, OneCall, Fresh, HasSnapshot, LogsDisjoint, Active
  <2>3. SettledInv' = SettledInv
    BY <2>1 DEF storage, flags, SettledInv, Forgiving, Compacting, MonitorOK, ProjectionOK, Quiet, Active
  <2> QED
    BY <1>1, <2>2, <2>3 DEF IInv
<1> QED
  BY <1>2, <1>3 DEF Next

LEMMA Invariance == Spec => []IInv
BY InitInv, NextInv, PTL DEF Spec

\* With calls that the application awaits, and hooks that do not throw, no turn is
\* summarised twice: a retry takes the snapshot of a run that committed nothing.
THEOREM EachTurnSummarizedOnce == Spec => []SummarizedOnce
<1>1. IInv => SummarizedOnce
  <2>1. IInv => DOMAIN logs = 1..Len(logs)
    BY DEF IInv, ArchiveInv, TypeOK
  <2> QED
    BY <2>1 DEF IInv, OrderlyInv, Orderly, LogsDisjoint, SummarizedOnce
<1> QED
  BY <1>1, Invariance, PTL

\* When all calls have returned under log_and_continue, the monitor does not say
\* 'compacting', and to an application that awaits its calls neither the monitor
\* nor the projection is stale.
THEOREM QuietIsCurrent == Spec => []SettledIsCurrent
<1>1. IInv => SettledIsCurrent
  <2> SUFFICES ASSUME IInv, config.summarizer = "log_and_continue", ~config.hooksThrow, Quiet
               PROVE  /\ monitor.state # "compacting"
                      /\ config.awaited => monitor.count = Cardinality(Active) /\ projection = Active
    BY DEF SettledIsCurrent
  <2>1. Compacting /\ (config.awaited => MonitorOK /\ ProjectionOK)
    BY DEF IInv, SettledInv, Forgiving
  <2>2. \A p \in Process : call[p].todo \notin Guarded \cup {<<"giveUp">>} \cup Closing
    BY ReturnedOK, PlanKinds DEF Quiet
  <2> QED
    BY <2>1, <2>2 DEF Compacting, MonitorOK, ProjectionOK
<1> QED
  BY <1>1, Invariance, PTL
-----------------------------------------------------------------------------
(* The summarizer's breaker by itself: the theorems are about CircuitBreaker,  *)
(* whose callers are the calls of the manager, as many in flight as MaxRunning. *)

CONSTANT MaxRunning

Shared == INSTANCE CircuitBreaker WITH Call <- Process, call <- guarded

\* The types and the threshold are inductive together: a success resets the
\* count in the step that closes the breaker.
BreakerInv == Shared!TypeOK /\ Shared!ClosedBelowThreshold

LEMMA BreakerInit == Shared!Init => BreakerInv
  BY DEF Shared!Init, BreakerInv, Shared!TypeOK, Shared!ClosedBelowThreshold

LEMMA BreakerStep == BreakerInv /\ [Shared!Next]_Shared!vars => BreakerInv'
<1>. USE DEF BreakerInv, Shared!TypeOK, Shared!ClosedBelowThreshold
<1> SUFFICES ASSUME BreakerInv, [Shared!Next]_Shared!vars PROVE BreakerInv'
  OBVIOUS
<1>1. CASE Shared!Tick
  BY <1>1 DEF Shared!Tick
<1>2. ASSUME NEW c \in Process, Shared!Start(c) PROVE BreakerInv'
  BY <1>2 DEF Shared!Start, Shared!CanProbe
<1>3. ASSUME NEW c \in Process, Shared!Reject(c) PROVE BreakerInv'
  BY <1>3 DEF Shared!Reject
<1>4. ASSUME NEW c \in Process, Shared!Succeed(c) PROVE BreakerInv'
  BY <1>4 DEF Shared!Succeed
<1>5. ASSUME NEW c \in Process, Shared!Fail(c) PROVE BreakerInv'
  BY <1>5 DEF Shared!Fail
<1>6. CASE UNCHANGED Shared!vars
  BY <1>6 DEF Shared!vars
<1> QED
  BY <1>1, <1>2, <1>3, <1>4, <1>5, <1>6 DEF Shared!Next

\* Every variable keeps its type, and a breaker that is not closed has counted
\* a failure.
THEOREM BreakerTypeCorrect == Shared!Spec => []Shared!TypeOK
<1>1. BreakerInv => Shared!TypeOK
  BY DEF BreakerInv
<1> QED
  BY BreakerInit, BreakerStep, <1>1, PTL DEF Shared!Spec

\* The breaker never stays closed once the threshold is reached.
THEOREM OpensAtThreshold == Shared!Spec => []ClosedBelowThreshold
<1>1. BreakerInv => ClosedBelowThreshold
  BY DEF BreakerInv, ClosedBelowThreshold, Shared!ClosedBelowThreshold
<1> QED
  BY BreakerInit, BreakerStep, <1>1, PTL DEF Shared!Spec

-----------------------------------------------------------------------------
(* One call at a time. *)

\* While the timeout runs the breaker is open and no call is in flight whose
\* success could close it.
Shut == age # ResetTimeout => breaker = "open" /\ Shared!Running = {}

LEMMA FullWhenRunning == MaxRunning = 1 /\ Cardinality(Shared!Running) < MaxRunning => Shared!Running = {}
<1> SUFFICES ASSUME MaxRunning = 1, Cardinality(Shared!Running) < MaxRunning PROVE Shared!Running = {}
  OBVIOUS
<1>1. IsFiniteSet(Shared!Running)
  BY FS_Subset DEF Shared!Running
<1>2. Cardinality(Shared!Running) \in Nat
  BY <1>1, FS_CardinalityType
<1>3. Cardinality(Shared!Running) = 0
  BY <1>2
<1> QED
  BY <1>1, <1>3, FS_EmptySet

\* Only one call runs at a time.
Alone == \A c, d \in Process : guarded[c] = "running" /\ guarded[d] = "running" => c = d

\* The instance counts as we do.
LEMMA SameCardinality == \A S : Shared!Cardinality(S) = Cardinality(S)
BY DEF Cardinality, Shared!Cardinality

LEMMA AloneStep == MaxRunning = 1 /\ BreakerInv /\ Alone /\ [Shared!Next]_Shared!vars => Alone'
<1>. USE DEF BreakerInv, Shared!TypeOK, Alone
<1> SUFFICES ASSUME MaxRunning = 1, BreakerInv, Alone, [Shared!Next]_Shared!vars PROVE Alone'
  OBVIOUS
<1>1. ASSUME NEW c \in Process, Shared!Start(c) PROVE Alone'
  <2>1. Cardinality(Shared!Running) < MaxRunning
    BY <1>1, SameCardinality DEF Shared!Start
  <2>2. Shared!Running = {}
    BY <2>1, FullWhenRunning
  <2> QED
    BY <1>1, <2>2 DEF Shared!Start, Shared!Running
<1>2. CASE Shared!Tick
  BY <1>2 DEF Shared!Tick
<1>3. ASSUME NEW c \in Process, Shared!Reject(c) \/ Shared!Succeed(c) \/ Shared!Fail(c) PROVE Alone'
  BY <1>3 DEF Shared!Reject, Shared!Succeed, Shared!Fail
<1>4. CASE UNCHANGED Shared!vars
  BY <1>4 DEF Shared!vars
<1> QED
  BY <1>1, <1>2, <1>3, <1>4 DEF Shared!Next

LEMMA ShutStep == MaxRunning = 1 /\ BreakerInv /\ Alone /\ Shut /\ [Shared!Next]_Shared!vars => Shut'
<1>. USE DEF BreakerInv, Shared!TypeOK, Shut, Shared!Running
<1> SUFFICES ASSUME MaxRunning = 1, BreakerInv, Alone, Shut, [Shared!Next]_Shared!vars PROVE Shut'
  OBVIOUS
<1>1. ASSUME NEW c \in Process, Shared!Start(c) PROVE Shut'
  BY <1>1 DEF Shared!Start, Shared!CanProbe
<1>2. CASE Shared!Tick
  BY <1>2 DEF Shared!Tick
<1>3. ASSUME NEW c \in Process, Shared!Reject(c) PROVE Shut'
  BY <1>3 DEF Shared!Reject
<1>4. ASSUME NEW c \in Process, Shared!Succeed(c) PROVE Shut'
  BY <1>4 DEF Shared!Succeed
<1>5. ASSUME NEW c \in Process, Shared!Fail(c) PROVE Shut'
  BY <1>5 DEF Shared!Fail, Alone
<1>6. CASE UNCHANGED Shared!vars
  BY <1>6 DEF Shared!vars
<1> QED
  BY <1>1, <1>2, <1>3, <1>4, <1>5, <1>6 DEF Shared!Next

\* A caller that awaits each call before the next finds the breaker shut until
\* the reset timeout has elapsed.
THEOREM ShutUntilReset == MaxRunning = 1 /\ Shared!Spec => Shared!RejectsUntilReset
<1>1. Shared!Init => BreakerInv /\ Alone /\ Shut
  BY BreakerInit DEF Shared!Init, Alone, Shut
<1>2. MaxRunning = 1 /\ BreakerInv /\ Alone /\ Shut /\ [Shared!Next]_Shared!vars => (BreakerInv /\ Alone /\ Shut)'
  BY BreakerStep, AloneStep, ShutStep
<1>3. ASSUME BreakerInv, Shut, [Shared!Next]_Shared!vars
      PROVE  [\A c \in Process : guarded[c] # "running" /\ guarded'[c] = "running" => age = ResetTimeout]_Shared!vars
  <2> SUFFICES ASSUME NEW c \in Process, guarded[c] # "running", guarded'[c] = "running"
               PROVE  age = ResetTimeout
    OBVIOUS
  <2>1. PICK d \in Process : Shared!Start(d)
    BY <1>3 DEF Shared!Next, Shared!Tick, Shared!Reject, Shared!Succeed, Shared!Fail, Shared!vars, BreakerInv, Shared!TypeOK
  <2> QED
    BY <2>1, <1>3 DEF Shared!Start, Shared!CanProbe, Shut
<1>4. MaxRunning = 1 => [](MaxRunning = 1)
  OBVIOUS
<1> QED
  BY <1>1, <1>2, <1>3, <1>4, PTL DEF Shared!Spec, Shared!RejectsUntilReset
=============================================================================
