----------------------------- MODULE Compaction -----------------------------
(***************************************************************************)
(* One session of a memory manager: turns, their compaction into summaries, *)
(* the context monitor and the session-state projection                     *)
(* (processTurn, processExchange, forceCompact of src/core/manager.ts;      *)
(* compactTurns and commitCompaction of src/core/orchestrator.ts).          *)
(*                                                                         *)
(* Several calls may be in flight on one manager.  A call is the sequence   *)
(* of steps it still has to run, one for each await that reads or writes;   *)
(* the storage calls of the SQLite and in-memory adapters are atomic, and   *)
(* commitCompaction is one transaction.  The summarizer is called through   *)
(* its circuit breaker.                                                     *)
(***************************************************************************)
EXTENDS BreakerState, Integers, Sequences, FiniteSetsExt

CONSTANTS
    Process,             \* calls that may be in flight on the manager
    Configs,             \* the configurations and callers to consider
    Extractor,           \* whether an extractor is configured
    Floor,               \* floorTurns
    SoftRetain, HardRetain,
    MaxTurns,            \* bound: turns ever inserted
    MaxLogs              \* bound: compactions ever committed

ASSUME PolicyAssumption ==
    /\ Configs \subseteq [summarizer : {"throw", "retry_once", "log_and_continue"},
                            hooksThrow : BOOLEAN, awaited : BOOLEAN]
    /\ Extractor \in BOOLEAN
    /\ Floor \in Nat \ {0} /\ SoftRetain \in Nat /\ HardRetain \in Nat
    /\ FailureThreshold \in Nat \ {0} /\ ResetTimeout \in Nat \ {0}
    /\ MaxTurns \in Nat /\ MaxLogs \in Nat

ASSUME ProcessAssumption == IsFiniteSet(Process)

TurnId == 1..MaxTurns

VARIABLES
    config,       \* failurePolicy.summarizer; whether the application's hooks may
                  \* throw, and whether it awaits each call before the next one
    turns,        \* turns inserted so far; ids are handed out in order
    logOf,        \* compaction_log_id of each turn, 0 while it is active
    logs,         \* the turns each compaction covers, by compaction_log id
    monitor,      \* context_monitor: compaction_state and active_turn_count
    projection,   \* session_state: the active turns it was built from
    deferred,     \* deferredSoftCompaction
    autoExtract,  \* autoExtractEnabled
    call,         \* what each call is doing
    guarded       \* ... and as the summarizer's circuit breaker (BreakerState) sees it

breakerVars == <<breaker, failures, age, guarded>>
storage     == <<turns, logOf, logs, monitor, projection>>
flags       == <<config, deferred, autoExtract>>
vars        == <<storage, flags, call, breakerVars>>

Breaker == INSTANCE CircuitBreaker WITH
    Call <- Process, MaxRunning <- Cardinality(Process), call <- guarded

-----------------------------------------------------------------------------
Returned == [op |-> "none", todo |-> <<>>, snapshot |-> {}, keep |-> 0]

Active_bug == 1..turns
Active == {t \in 1..turns : logOf[t] = 0}

Oldest_offByOne_bug(S, keep) == {t \in S : Cardinality({u \in S : u >= t}) >= keep}
Oldest(S, keep) == {t \in S : Cardinality({u \in S : u >= t}) > keep}

At(p, step)    == call[p].todo # <<>> /\ Head(call[p].todo) = step
Rest(p)        == Tail(call[p].todo)
Become(p, c)   == call' = [call EXCEPT ![p] = c]
\* The call resolves or rejects: either way nothing of it is left.
Return(p)      == Become(p, Returned)
Then(p, steps) == IF steps = <<>> THEN Return(p)
                  ELSE Become(p, [call[p] EXCEPT !.todo = steps])
Continue(p)    == Then(p, Rest(p))

Quiet == \A p \in Process : call[p] = Returned

CanCall(p) == call[p] = Returned /\ (config.awaited => Quiet)

\* emitMemoryEvent calls the hooks of the application in the middle of the call.
AfterHook(p, steps) == Then(p, steps) \/ (config.hooksThrow /\ Return(p))

Refresh == <<"readState", "writeState">>

\* What follows executeCompaction: processTurn and processExchange refresh the
\* projection (again), forceCompact returns.
AfterCompaction(p) == IF call[p].op = "force" THEN <<>> ELSE Refresh

-----------------------------------------------------------------------------
Init ==
    /\ config \in Configs
    /\ turns = 0 /\ logs = <<>>
    /\ logOf = [t \in TurnId |-> 0]
    /\ monitor = [state |-> "idle", count |-> 0]
    /\ projection = {}
    /\ deferred = FALSE /\ autoExtract = Extractor
    /\ call = [p \in Process |-> Returned]
    /\ Breaker!Init

\* processTurn inserts the turn and tells the hooks.
ProcessTurn(p) ==
    /\ CanCall(p)
    /\ turns + Cardinality({q \in Process : At(q, "reply")}) < MaxTurns
    /\ turns' = turns + 1
    /\ \/ Become(p, [Returned EXCEPT !.op = "turn", !.todo = <<"readTurns", "assess">>])
       \/ /\ config.hooksThrow
          /\ UNCHANGED call
    /\ UNCHANGED <<logOf, logs, monitor, projection, flags, breakerVars>>

\* processExchange inserts the user's turn, then the assistant's.
ProcessExchange(p) ==
    /\ CanCall(p)
    /\ turns + Cardinality({q \in Process : At(q, "reply")}) + 1 < MaxTurns
    /\ turns' = turns + 1
    /\ Become(p, [Returned EXCEPT !.op = "turn", !.todo = <<"reply", "readTurns", "assess">>])
    /\ UNCHANGED <<logOf, logs, monitor, projection, flags, breakerVars>>

Reply(p) ==
    /\ At(p, "reply")
    /\ turns' = turns + 1
    /\ AfterHook(p, Rest(p))
    /\ UNCHANGED <<logOf, logs, monitor, projection, flags, breakerVars>>

ForceCompact(p) ==
    /\ CanCall(p)
    /\ Become(p, [Returned EXCEPT !.op = "force", !.todo = <<"readTurns", "assess">>])
    /\ UNCHANGED <<storage, flags, breakerVars>>

ReadTurns(p) ==
    /\ At(p, "readTurns")
    /\ Become(p, [call[p] EXCEPT !.todo = Rest(p), !.snapshot = Active])
    /\ UNCHANGED <<storage, flags, breakerVars>>

-----------------------------------------------------------------------------
(* runCompaction and forceCompact: what assessContext recommends. *)

Persist(state, S) == monitor' = [state |-> state, count |-> Cardinality(S)]

\* executeCompaction begins; everything but the newest `keep` turns will go.
Execute(p, keep) ==
    /\ Persist("compacting", call[p].snapshot)
    /\ Become(p, [call[p] EXCEPT !.todo = <<"summarize">>, !.keep = keep])
    /\ UNCHANGED <<turns, logOf, logs, projection, flags, breakerVars>>

Retained(retain, S) == Min({retain, Cardinality(S) - 1})

\* A long gap within the session compacts whatever the score is.
AssessGap(p) ==
    /\ At(p, "assess") /\ call[p].op = "turn" /\ Cardinality(call[p].snapshot) > 1
    /\ Execute(p, Max({1, Retained(SoftRetain, call[p].snapshot)}))

\* Below the floor nothing is recommended; above it tokens and drift decide.
AssessNone(p) ==
    /\ At(p, "assess")
    /\ IF call[p].op = "turn"
       THEN /\ Persist("idle", call[p].snapshot)
            /\ deferred' = FALSE
            /\ Then(p, Refresh)
       ELSE Return(p) /\ UNCHANGED <<monitor, deferred>>
    /\ UNCHANGED <<turns, logOf, logs, projection, autoExtract, config, breakerVars>>

AboveFloor(p) == Cardinality(call[p].snapshot) >= Floor

AssessSoft(p) ==
    /\ At(p, "assess") /\ AboveFloor(p)
    /\ IF call[p].op = "turn"
       THEN /\ Persist("soft_triggered", call[p].snapshot)
            /\ deferred' = TRUE
            /\ Then(p, Refresh)
            /\ UNCHANGED <<turns, logOf, logs, projection, autoExtract, config, breakerVars>>
       ELSE Execute(p, Retained(SoftRetain, call[p].snapshot))

AssessHard(p) ==
    /\ At(p, "assess") /\ AboveFloor(p)
    /\ Execute(p, Retained(HardRetain, call[p].snapshot))

-----------------------------------------------------------------------------
(* withFailurePolicy around compactTurns. *)

\* The guarded run has failed, or was turned down.
OnFailure(p) ==
    CASE config.summarizer = "throw"            -> Return(p)
      [] config.summarizer = "retry_once"       -> Then(p, <<"retry">>)
      [] config.summarizer = "log_and_continue" -> AfterHook(p, <<"giveUp">>)

Summarize(p) ==
    /\ At(p, "summarize")
    /\ \/ /\ Breaker!Start(p)
          /\ Then(p, <<"summary">>)
       \/ /\ Breaker!Reject(p)
          /\ OnFailure(p)
    /\ UNCHANGED <<storage, flags>>

Compacted == <<"readRemaining", "settle">>

\* the turns are read again and the oldest of these archived
Commit_reread_bug(p) ==
    /\ Len(logs) < MaxLogs
    /\ logs' = Append(logs, Oldest(call[p].snapshot, call[p].keep))
    /\ logOf' = [t \in TurnId |-> IF t \in Oldest(Active, call[p].keep)
                                  THEN Len(logs') ELSE logOf[t]]
    /\ UNCHANGED <<turns, monitor, projection, flags>>

\* commitCompaction: the summary, the log and the archived turns in one
\* transaction.  SQLite's archiveTurn leaves a turn alone that is archived already; the
\* other two adapters archive it again, for the later log, which covers it too.
Commit(p) ==
    LET covered == Oldest(call[p].snapshot, call[p].keep)
    IN  /\ Len(logs) < MaxLogs
        /\ logs' = Append(logs, covered)
        /\ logOf' = [t \in TurnId |-> IF t \in covered /\ logOf[t] = 0
                                      THEN Len(logs') ELSE logOf[t]]
        /\ UNCHANGED <<turns, monitor, projection, flags>>

\* The summary arrives and is committed; then the 'compaction' event goes to the
\* hooks, inside the guarded run.
SummaryArrives(p) ==
    /\ At(p, "summary") /\ Commit(p)
    /\ \/ /\ Breaker!Succeed(p)
          /\ Then(p, Compacted)
       \/ /\ config.hooksThrow
          /\ Breaker!Fail(p)
          /\ OnFailure(p)

SummaryFails(p) ==
    /\ At(p, "summary") /\ Breaker!Fail(p) /\ OnFailure(p)
    /\ UNCHANGED <<storage, flags>>

\* The retry does not pass through the breaker, and takes the same turns again.
RetryArrives(p) ==
    /\ At(p, "retry") /\ Commit(p)
    /\ AfterHook(p, Compacted)
    /\ UNCHANGED breakerVars

RetryFails(p) ==
    /\ At(p, "retry") /\ Return(p)
    /\ UNCHANGED <<storage, flags, breakerVars>>

GiveUp(p) ==
    /\ At(p, "giveUp")
    /\ Persist("idle", call[p].snapshot)
    /\ AfterHook(p, AfterCompaction(p))
    /\ UNCHANGED <<turns, logOf, logs, projection, flags, breakerVars>>

-----------------------------------------------------------------------------
\* the turns counted are those from before the compaction
ReadRemaining_bug(p) ==
    /\ At(p, "readRemaining")
    /\ Continue(p)
    /\ UNCHANGED <<storage, flags, breakerVars>>

ReadRemaining(p) ==
    /\ At(p, "readRemaining")
    /\ Become(p, [call[p] EXCEPT !.todo = Rest(p), !.snapshot = Active])
    /\ UNCHANGED <<storage, flags, breakerVars>>

Settle(p) ==
    /\ At(p, "settle")
    /\ Persist("idle", call[p].snapshot)
    /\ deferred' = FALSE
    /\ Then(p, (IF autoExtract THEN <<"extract">> ELSE <<>>) \o Refresh \o AfterCompaction(p))
    /\ UNCHANGED <<turns, logOf, logs, projection, autoExtract, config, breakerVars>>

\* extractKnowledge under failurePolicy.extractor = 'disable_auto_extract': the
\* first failure turns extraction off for the life of the manager.
Extract(p) ==
    /\ At(p, "extract")
    /\ AfterHook(p, Rest(p))
    /\ autoExtract' \in {autoExtract, FALSE}
    /\ UNCHANGED <<storage, config, deferred, breakerVars>>

\* refreshSessionStateProjection: read, then upsert; a failure is only logged.
ReadState(p) ==
    /\ At(p, "readState")
    /\ Become(p, [call[p] EXCEPT !.todo = Rest(p), !.snapshot = Active])
    /\ UNCHANGED <<storage, flags, breakerVars>>

WriteState(p) ==
    /\ At(p, "writeState")
    /\ projection' = call[p].snapshot
    /\ Continue(p)
    /\ UNCHANGED <<turns, logOf, logs, monitor, flags, breakerVars>>

BreakerTick == Breaker!Tick /\ UNCHANGED <<storage, flags, call>>

-----------------------------------------------------------------------------
Step(p) ==
    \/ ProcessTurn(p) \/ ProcessExchange(p) \/ ForceCompact(p)
    \/ Reply(p) \/ ReadTurns(p)
    \/ AssessGap(p) \/ AssessNone(p) \/ AssessSoft(p) \/ AssessHard(p)
    \/ Summarize(p) \/ SummaryArrives(p) \/ SummaryFails(p)
    \/ RetryArrives(p) \/ RetryFails(p) \/ GiveUp(p)
    \/ ReadRemaining(p) \/ Settle(p) \/ Extract(p) \/ ReadState(p) \/ WriteState(p)

Next == BreakerTick \/ \E p \in Process : Step(p)

Spec == Init /\ [][Next]_vars

-----------------------------------------------------------------------------
(* Properties *)

\* No turn is lost: an archived turn is covered by the summary it points to, a
\* summarised turn is archived, and a summary covers every turn between its first
\* and its last, which is all that it stores of them.
NothingLost ==
    /\ \A t \in TurnId : logOf[t] # 0 => t \in logs[logOf[t]]
    /\ \A k \in DOMAIN logs : /\ \A t \in logs[k] : logOf[t] # 0
                              /\ logs[k] = Min(logs[k])..Max(logs[k])

ActiveIsLatest == \A t, u \in 1..turns : t < u /\ logOf[u] # 0 => logOf[t] # 0

NewestKept ==
    /\ Floor > 1 /\ SoftRetain > 0 /\ HardRetain > 0 /\ turns > 0 => logOf[turns] = 0
    /\ \A p \in Process : At(p, "summary") \/ At(p, "retry")
                           => Oldest(call[p].snapshot, call[p].keep) # {}

\* However calls overlap and whichever snapshots their summaries are made from,
\* the active turns are the latest ones of the session: none is older than an
\* archived turn and, with a floor above one turn and a retention of at least
\* one, the newest is never compacted away.  However much is retained, a
\* compaction under way has a turn to summarise (compactTurns throws if it has none).
LatestStayActive == ActiveIsLatest /\ NewestKept

\* An application that awaits its calls, and whose hooks do not throw, never has
\* a turn summarised twice, retries included.
SummarizedOnce ==
    config.awaited /\ ~config.hooksThrow
        => \A j, k \in DOMAIN logs : j # k => logs[j] \cap logs[k] = {}

\* 'resets monitor state when summarizer falls back to log_and_continue': once
\* all calls have returned the monitor does not say 'compacting'.  To an
\* application that awaits its calls the same fallback leaves nothing stale: when
\* one returns, having compacted, deferred or given up, the monitor counts the
\* active turns and the projection was built from them.
SettledIsCurrent ==
    config.summarizer = "log_and_continue" /\ ~config.hooksThrow /\ Quiet
        => /\ monitor.state # "compacting"
           /\ config.awaited => monitor.count = Cardinality(Active) /\ projection = Active
=============================================================================
