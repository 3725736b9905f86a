# Verification of memory-layer

memory-layer is a TypeScript library that keeps an agent's memory: conversation
turns, their summaries, promoted knowledge, and the shared work of several
agents (work items, leases on them, handoffs), over SQLite, Postgres or an
in-memory store. This directory holds TLA+ models of its stateful parts, TLC
configurations that check them on small instances, and TLAPS proofs that hold
for every instance. Paths below are those of the repository's source tree
(`src/` is its TypeScript, `docs/` its documentation).

- [1. The system](#1-the-system)
- [2. The modules and the code](#2-the-modules-and-the-code)
- [3. What is checked](#3-what-is-checked)
- [4. Fairness](#4-fairness)
- [5. What is proved](#5-what-is-proved)
- [6. What the checks found](#6-what-the-checks-found)
- [7. What is not modelled](#7-what-is-not-modelled)
- [8. Plan](#8-plan)

To check a model: `tlc -config MCCoordination.cfg MCCoordination.tla`; to check
the proofs of a module: `tlapm CoordinationProofs.tla`.

## 1. The system

### 1.1 Components, their state and their operations

| component | code | state | operations |
|---|---|---|---|
| coordination | `adapters/*/index.ts`, `core/capabilities/coordination.ts` | `work_items`, `work_claims_current` (one UNIQUE slot per item), `work_claims_history`, `handoff_records` | insert/update/delete item; claim, renew, release; create/accept/reject/cancel handoff; two reapers |
| event log | `insertMemoryEventInternal` in each adapter, `core/temporal.ts` | `memory_events`, the `temporal` watermark row | append with every mutation; fold to the state at a time; page by cursor |
| change feed | `core/capabilities/governance.ts`, `core/sync.ts` | a cursor per reader | `listKnowledgeChanges`, `createMemorySync` polling |
| turns and compaction | `core/manager.ts`, `core/orchestrator.ts`, `core/monitor.ts` | `turns`, `working_memory`, `compaction_log`, `context_monitor`, `session_state_current`; flags in the manager | processTurn, processExchange, forceCompact, and the compaction they run |
| circuit breakers | `core/circuit-breaker.ts` | state, failures, openedAt: one breaker per provider, shared by all calls of a manager | execute |
| knowledge | `core/orchestrator.ts`, `core/knowledge-lifecycle.ts`, `core/trust.ts` | `knowledge_memory`, `knowledge_candidates`, evidence, audit rows | extract, deduplicate, promote, supersede, demote, retire |
| maintenance | `core/maintenance.ts` | none of its own | passes over claims, handoffs, working memory, knowledge |
| governance, visibility | `core/capabilities/governance.ts`, `contracts/*.ts`, `adapters/shared/visibility.ts` | contracts and invariants in the manager, loaded when first needed, and in storage | set, delete, resolve |
| curation, graph, playbooks | `core/capabilities/*.ts` | rows of associations, playbooks, aliases | edits of single rows |
| context, retrieval, formatting | `core/context.ts`, `core/retrieval.ts`, `core/formatter.ts` | access counts only | reads |
| streaming, runtime | `core/streaming.ts`, `core/runtime.ts` | a buffer per stream | append, finalize |
| embeddings | `embeddings/*.ts` | a bounded cache | embed a batch |
| servers | `server/*.ts` | a cache of managers by scope and by session, a rate limiter | HTTP and MCP requests; updates handed to every manager of a scope |
| summarizers, integrations, composition, import/export, clients, evals | `summarizers/`, `integrations/`, `composition/`, `cli/`, `clients/`, `evals/` | none that outlives a call | wiring, prompts, conversions |

### 1.2 How they interact

The manager is an object per scope and session. A call on it is an async
function: it awaits the storage adapter, the summarizer and extractor (through
their breakers), and hooks supplied by the application. Nothing serialises calls
on one manager, so another call may run at each await. Managers, processes and
servers meet only in storage. SQLite and the in-memory store run a storage call
to its end; Postgres runs each call as a transaction under READ COMMITTED on a
pool of connections. Every mutation writes an event with the row as `after`, in
the same transaction; on Postgres this also updates the one watermark row.

### 1.3 Which behaviours are hard, and what makes each part correct

- **Leases** lapse by the clock, nobody acts, and reads must not write
  (`docs/REMEDIATION_PLAN.md`, item 2.5). Every actor may be the first to meet a
  lapsed row. Correct: one holder per item; a live lease passes on only by its
  holder's handoff; a lapse is logged once; what a read has shown as over stays
  over.
- **The log** must say what the tables say, although rows are moved between
  tables, closed by other rows' operations and deleted by cascade. Correct:
  replay gives the live rows.
- **Postgres transactions** check in a SELECT and act in a later UPDATE. Correct:
  what was checked still holds when the transaction commits; row locks never
  leave an operation waiting for ever.
- **Compaction** reads the turns, awaits a summarizer for seconds, and archives
  what it read. It may fail, be refused by the breaker, be retried, or be
  overtaken. Correct: no turn is lost, the newest turns stay active, the monitor
  and the projection settle.
- **The breaker** is read at the start of a call and written at its end, with
  other calls in between. Correct: it is not closed at the threshold, lets
  nothing through before the reset timeout, and does not stay shut.
- **The log and its readers.** Postgres hands out event ids before it commits;
  readers page by id, by date, or up to a pinned watermark, while the log grows.
  Correct: a cursor passes nothing it has not delivered, nothing is delivered
  twice, a snapshot shows the log as it was pinned.
- **Knowledge** is compared with what was read before an extractor or a verifier
  was awaited, and maintenance works through a list that grows stale. Correct:
  duplicates come only of calls that could not see each other, a fact is
  superseded within its slot, a pass never takes both of two duplicates.
- **Rows on Postgres** are read without a lock, updated, and logged, by several
  callers at once, each event also updating the one watermark row. Correct: the
  committed log says what the committed rows are, no use is lost, an expected
  version holds.
- **A context** is put together from reads between which the store changes, then
  cut to a budget. Correct: no turn falls between two reads; what is worth most
  stays.
- **Configuration** is kept in storage and, as copies, in every cached manager.
  Correct: the copies agree with the storage when no update is under way.

`PROJECT.json` lists the hazards at their lines, each with the properties that
would catch it or the reason why none does.

## 2. The modules and the code

| module | models | EXTENDS / INSTANCE |
|---|---|---|
| `Coordination` | items, claims and handoffs of the SQLite adapter | INSTANCE `LeaseContract` |
| `LeaseContract` | what leases and offers promise: the abstract specification | |
| `PgCoordination` | claims and handoffs of the Postgres adapter, by statement | |
| `BreakerState` | the state of a circuit breaker and its promise | |
| `CircuitBreaker` | `core/circuit-breaker.ts` | EXTENDS `BreakerState` |
| `Compaction` | turns, compaction, monitor and projection of one session | EXTENDS `BreakerState`, INSTANCE `CircuitBreaker` |
| `MemoryCoordination` | claims and handoffs of the in-memory adapter, and their replay | INSTANCE `LeaseContract` |
| `FeedPromises` | the state of the event log and its readers, and what these are promised | |
| `EventFeed` | the event log, the watermark and who reads them | EXTENDS `FeedPromises` |
| `Trust` | scores and states of `core/trust.ts` | |
| `Knowledge` | facts: extraction, verification, maintenance | EXTENDS `Trust` |
| `PgStore` | the other tables of the Postgres adapter, by statement | INSTANCE `AuditedStore` |
| `AuditedStore` | what the log promises of the tables: the abstract specification | |
| `ContextAssembly` | `getContext`: reads, selection, trimming | |
| `ServerScope` | the parameters of `ScopeManagers` | |
| `ScopeManagers` | the managers a server caches, and their copies of a scope's configuration | EXTENDS `ServerScope` |
| `StorageKernel` | scopes, visibility, orders, pages and a store as tables with a log: what the three adapters share | |
| `SqliteStorage`, `MemoryStorage`, `PostgresStorage` | every other operation of each adapter, as an operator on a store | EXTENDS `StorageKernel` |
| `TemporalReplay` | `core/temporal.ts`: the log folded to rows, and reads over these | EXTENDS `StorageKernel` |
| `StorageParity` | the same calls made on the three adapters | INSTANCE the four above |
| `ServerContext` | a server asked for the context: the managers of the scope, and the call of one of them | EXTENDS `ContextAssembly`, `ServerScope`, INSTANCE `ScopeManagers` |
| `MC...` | values of the constants for TLC | the module they check |
| `CoordinationProofs`, `PgCoordinationProofs`, `MemoryCoordinationProofs`, `CompactionProofs`, `KnowledgeProofs`, `PgStoreProofs`, `ContextAssemblyProofs`, `StorageProofs` | theorems | the module, TLAPS |

Names follow the code: the action `ClaimWorkItem` is `claimWorkItem`, `current`
is `work_claims_current`. Definitions with the suffix `_bug` are slips that a
change to the code could make. No specification uses them: substituted for the
definition they follow, each makes one property fail, which shows that the
property depends on that definition.

### Coordination

Each operation of the SQLite adapter is one native transaction of a serialisable
database, so it is one action; a refusal (ConflictError, or null for "no such
row") changes nothing and needs no action. An operation reads `nowSeconds()`
more than once; the model takes these readings as one instant, which is exact up
to the second boundary. (Postgres has gaps wide enough to matter, and
`PgCoordination` reads the clock where the code does.)

| variable | code |
|---|---|
| `clock` | `nowSeconds()` |
| `items` | `work_items.status`, reduced to open, done and deleted: claimWorkItem asks only for "done" |
| `current`, `history` | `work_claims_current`, `work_claims_history` |
| `claimLog`, `handoffLog` | `after` of the last event about each row, which is what `foldTemporalState` keeps |
| `claimExpiries`, `handoffExpiries` | how many `.expired` events each row has |
| `handoffs` | `handoff_records` |

`AcceptHandoff` is one action although it calls releaseWorkClaim and
claimWorkItem: they run inside its transaction. `Grant` is the part that it
shares with `ClaimWorkItem`: the row in the slot is closed (released if its lease
is live, expired if it has lapsed), archived and replaced. `ExpireOnDecision` is
the early return of accept, reject and cancel on a lapsed handoff. `DeleteWorkItem`
has the effect of ON DELETE CASCADE on claims and handoffs, which logs nothing.

`LeaseContract` has no tables, ids or events: a holder, a deadline and the open
offers of each item. `KeepsContract` maps the tables to it: `holderOf` and
`untilOf` read the live row in the item's slot, `offerOf` the pending handoffs
that have not lapsed. A tick of the clock that ends leases is `Pass`; a reaper,
which only records what reads already showed, is a stuttering step.

### PgCoordination

One work item and its row. The upsert of claimWorkItem overwrites the row and
keeps its id, so one row sees several leases, numbered in `lease`. An operation is
the list of the statements it still has to run, `tx[p].todo`. A SELECT sees the
committed row or the transaction's own version; an UPDATE waits for the row's
lock, evaluates its WHERE on the row as last committed and keeps the lock until
COMMIT. Writing an event takes the watermark row's lock. `Needs`, `Waits` and
`Deadlocked` are Postgres's lock table and `DeadlockVictim` its deadlock detector:
these stand for the database, all else for the adapter's code. The one lock
the model leaves out is that of the work item's row, which claimWorkItem reads
without FOR UPDATE.

### CircuitBreaker

Failures are counted up to the threshold and the time since `openedAt` up to the
reset timeout: only the comparisons with these bounds matter. `Start` and `Reject`
are the part of `execute` before its await, `Succeed` and `Fail` the part after.

### Compaction

A call on the manager is the list of the steps it still has to run, one for each
await that reads or writes, with the turns it read (`snapshot`) and how many it
will retain (`keep`). `config` does not change in a behaviour: it is the failure
policy of the summarizer, whether the application's hooks may throw, and whether
the application awaits each call before it makes the next. The monitor's score is
abstracted to its three outcomes: nothing, soft, hard (the last two at or above
floorTurns only), to which runCompaction adds a compaction after a long gap.
Knowledge extraction is abstracted to success or failure. autoCompact is on; the
adapter is SQLite or the in-memory one, where a storage call is atomic;
`processExchange` inserts its two turns in two steps because these adapters run
an async transaction body outside a transaction.

`Breaker == INSTANCE CircuitBreaker` with `guarded` as its callers: `Summarize`
takes `Start` or `Reject`, the arrival of a summary `Succeed` or, when a hook
throws inside the guarded run, `Fail`. The retry of `retry_once` goes around the
breaker, as in the code.

### MemoryCoordination

The in-memory adapter keeps every claim and handoff it ever made in two arrays and
searches them from the front: `First` is `Array.find`. An item may therefore have
several claims, of which one is active. Calls are synchronous, so each is one
action, but only the reapers run in a transaction: `AcceptHandoffFails` and the
other actions that end in a refusal keep what the call did before it threw. `log` is
`memoryEvents` with dates, and `Replayed`, `NormalizeWorkClaimAt` and
`NormalizeHandoffAt` are the fold of `core/temporal.ts`. `seen` is history: what
reads showed at the end of each second, against which `ReplayExact` holds the
replay. The module is mapped to the same `LeaseContract` as Coordination.

### EventFeed

A writer is a connection. On SQLite and in memory event, id and watermark appear
together (`WriteSerial`); on Postgres `Insert` takes the id, `Commit` shows event
and watermark, `Rollback` leaves a gap. Knowledge events are of two kinds: `change`,
which handlers are given, and `touch`, which a page contains and a handler is not
called with. `ReadPage`, `ReadFails` and `Deliver` are `pollOnce` of
`core/sync.ts` around its await; `SincePage` and `SinceResolve` the loop of
`listKnowledgeChanges({since})`; `SnapPin`, `SnapReplay` and `SnapLive` are
`captureSnapshot`. `late` and `dropped` are history: ids that became visible after a
greater one, and pages that a handler threw on before the others were called.

### Trust and Knowledge

`Trust` is pure: what a list of evidence is worth, in hundredths. A source turn is
reduced to whether it supports or contradicts the fact, whose it is, and whether it
has the fact's own words; temporal bounds and the policy's other constants have
their defaults.

In `Knowledge` a fact is a slot, a value and a negation, and its text is these
three. `Relation` is `classifyFactRelation`, `Strongest` the search for what a fact
is most related to. An extraction goes through its facts one by one, awaiting the
verifier for each; `known` are the rows it read, with the state they had then. The
promotion of a fact is one transaction with the end of the row that it replaces.
`Verified` is `reverifyKnowledge` after its await: it writes over the row as it is
now. Maintenance works through `maint.list`, the rows as they were read at its
start, which is why it may retire one twice and count rows it has retired. Lists
are copies of the rows, as the SQL adapters return them.

Three facts of the code are kept as they are: `keep_both` does what `supersede`
does; `learnFact` stores neither slot nor negation nor evidence, so that a
verification of a manual fact finds none and makes it a candidate; and a
verification of a row that was superseded or retired meanwhile writes its state
all the same. `trust_score`, which earlier verifications have moved, is one of 0,
50 and 100. A row does not age during a call.

### PgStore and AuditedStore

One or two rows for each of the adapter's tables but those of claims and handoffs; a
row is reduced to a text, a status and a count (`version`, `access_count`,
`use_count`). A call of the adapter is the name of its operation, its row and its
arguments. `Read` is the SELECT it does first, without a lock; `Write` the INSERT,
UPDATE or DELETE, which waits for the row's lock and is evaluated on the row as
last committed; `LogEvent` takes the event's id and the row's image; `Mark` updates
the watermark row, and so waits for every transaction that has logged before.
Two operations change several rows in one statement: touchKnowledgeMemories (an
UPDATE with `id = ANY(...)`) and deleteExpiredKnowledgeCandidates (a DELETE). SQL does
not say in which order such a statement comes to its rows, so `Scripts` has both orders
(`RowsOf`), each row is a `Write` of its own that may have to wait, and the events come
when no row is left (`RowsLeft`, `Continue`). The touches' events are inserted together
before the watermark is written (`Together`), the deletions' one by one.
`Scripts` are the transactions: one operation each, and the composite ones of
insertTurns, compaction, extraction and revisePlaybook. `Effect` says what each
statement makes of the row, `Matches` its WHERE, `Throws` when the operation
rejects, `EventsOf` what it logs.

`AuditedStore` has only tables and a log, and the promise that the last event of a
row shows the row. A commit that logs something is a step `Record`, all else a
stuttering step. Events of different rows may become visible in any order; those of
one row come later than what the log has of it, unless they repeat what it says
already (three deletions of one row at once, section 6).

### ContextAssembly

One call of `buildMemoryContext`, with the turns read by its caller: `ReadTurns`,
`ReadWorkingMemory`, `ReadKnowledge` and `ReadAssociations` are its awaited reads,
between which turns are stored, compactions commit and facts and associations
change. What follows has no await: the six loops of the trimming are an action for
each element that they drop. `Score` is a fact's rank before the penalties for
variety; `Meets` are the facts that view, scope level, contract, tags and the other
filters let through. Ranks and playbooks, which the search returns, do not change
during a call. Left out are what no budget counts: provisional and disputed
buckets, coordination and session state, diagnostics.

### ScopeManagers

`managers` are the manager objects ever built, `cache` is which of them
`getManager` and `getSessionManager` find. A request waits for the storage and then
goes through the managers in `visit`; governance is read by the first that needs
it, and all wait for that read. One alias map stands for aliases and ontology, one
invariant for invariants, contracts and policy, which are stored and handed on in
the same way. Other scopes' requests may push an entry out at any time; a manager
that is pushed out, or that is not in the cache when the list is made, is not told
of an update. `apart` and `mixed` are history: whether two updates overlapped or
one broke off, and which managers were built or loaded while one was under way.

### StorageKernel, the three storages, TemporalReplay and StorageParity

What `contracts/storage.ts` asks of an adapter is written down once for each of the
three that are there. A store is a record of tables, a table a function from ids to
rows, and the event log; a write (`InsertTurn`, `SupersedeKnowledgeMemory`, ...)
takes a store, its input and the time, and gives the store that it leaves; a read
gives the ids of the rows that it returns, in their order. A text is the set of its
words, a scope a record of five names, and a row keeps the columns that some WHERE,
ORDER BY, filter or event depends on. `StorageKernel` has what the adapters share in
code (`shared/visibility.ts`, `shared/search.ts`, `contracts/identity.ts`, the
resolution of search and page options) and the shape of a store. Each of the other
three follows its own adapter: WHERE clauses on SQLite and Postgres, filters of
arrays in memory, the batches as transactions where they are ones. What a Postgres
transaction does between others is in PgStore and PgCoordination; here a call is
alone.

`TemporalReplay` reads the log page by page, folds it to the state at a time
(`applyMemoryEvent`), and answers the reads of the replay adapter from it.

A behaviour of `StorageParity` makes each call on all three stores, in the part of
the schema that `focus` names, as the parts share nothing but the log. `Aligned`
ends a behaviour once the adapters hand out different ids (a batch that failed has
used up ids of Postgres' sequences): no row can then be compared by its id.
`KeptUnevenly` are the columns that an adapter is known to keep otherwise;
what else is left out of the inputs is in section 6 under *adapters that differ*.

## 3. What is checked

| run | instance | checks |
|---|---|---|
| `coordination` | 1 item, 2 actors, 2 claims, 2 handoffs, 2 ticks, fair (623,946 states) | `OneRowPerItem`, `ReplayAgrees`, `ExpiryRecordedOnce`, action property `OverStaysOver`, refinement `KeepsContract`, liveness `LapsesRecorded` |
| `pg_coordination` | 2 connections, 3 operations of any kind, 1 tick, fair (139,630 states) | `OneExpiryEach`, `DeadlockNeedsAccept`, action property `ClaimNeverSteals`, liveness `AllReturn` |
| `memory_coordination` | 1 item, 2 actors, 3 claims, 1 handoff, 2 ticks, fair (247,714 states) | `ReplayExact`, action property `AcceptKeepsOrMoves`, refinement `KeepsContract`, liveness `RefusalEnds` |
| `breaker` | 3 calls in flight, threshold 3, timeout 2, fair (1,202 states) | `ClosedBelowThreshold`, liveness `ProbesAgain` |
| `compaction` | 2 calls in flight, 3 turns, 3 compactions, 5 configurations (2,775,653 states) | `NothingLost`, `LatestStayActive`, `SummarizedOnce`, `SettledIsCurrent` |
| `event_feed` | 2 writers, 2 polls, 2 handlers, 3 events (2 on Postgres), every fault, fair (249,346 states) | `FeedComplete`, `DeliveredOnce`, `SinceComplete`, `SnapshotPinned`, liveness `FeedReaches` |
| `knowledge` | 2 calls at a time, 4 facts in 2 slots, 3 rows, 5 calls and facts (757,824 states) | `DuplicatesAreBlind`, `SupersededInSlot`, `PassesSettle` |
| `pg_store` | 2 connections, 25 kinds of transaction, 3 transactions (878,728 states) | `CountersExact`, `DeadlockNeedsSeveral`, `PromotedOrExpired`, action property `ExpectedVersionHeld`, refinement `KeepsRecord` |
| `server_context` | a call: 4 facts, 3 turns, 2 invariants, 2 playbooks, 4 budgets, 1 change of a fact or association; or the managers: 2 requests at a time, 3 in all, 3 managers, 1 session, 1 failure, 1 restart (2,160,331 states) | `NothingUnread`, `TrimmedToFit`, `AssociatedAllowed`, `CopiesAgree` |
| `storage_parity` | 3 adapters, 5 scopes, 11 parts of the schema, 3 calls, 1 tick (55,848 states) | `WritesAgree`, `ReadsAgree`, `LogRebuildsRows` |
| `pg_owners` | 2 connections, 4 operations | `OwnersActOnly` fails (section 6) |
| `event_feed_pg` | 2 writers, 2 events | `FeedSkipsNothing` fails (section 6) |

What a property says is written above it in its module. Type invariants are no
run's claim: those of Coordination, PgCoordination, Compaction, CircuitBreaker and PgStore
are proved, and those of the other modules are what their constants and actions give.

**Why these bounds.**

- *Coordination.* Two work items share no row, so one item suffices for all that is
  said of an item. (`OneRowPerItem` is proved for any number.) Two actors are an
  owner and a rival, or the two parties of a handoff; two claims in a row let a
  claim displace a lapsed, a released and a live row; two handoffs compete for one
  lease. Leases of 1 and 2 ticks with time up to 2 let a lease lapse before, with
  and after a handoff's deadline. `MaxExpiry` bounds renewals: each adds to the
  deadline, so a longer bound repeats the same comparisons. In memory it takes three
  claims, as a search from the front may stop at the first or the second.
- *Postgres.* Two connections suffice for every race found, as each is a check of
  one transaction overtaken by another. (The safety properties of `pg_coordination` are
  proved for any number.) In `pg_coordination` three operations and a
  tick allow a claim, a lapse and a claim that meets a late statement; `pg_owners`
  needs a fourth, and time for the second lease to run. In `pg_store` the first two transactions are of any kinds; a third
  (`Later`) is of the kinds for which a third makes a difference: a count, a version, a
  candidate that is expired. Three revisions of the playbook and one deletion of the
  association are bounds of the module, as its rows have names; what is proved is for any
  number of connections and transactions.
- *Breaker.* Three calls let one open it, one probe and one arrive late.
- *Compaction.* Two calls overlap in every way two can; three turns are one to
  archive, one to keep and one that arrives in between; the five configurations
  are those in which some property's premise holds or a hook can break a call, with
  floor 2, soft retention 2 and hard retention 1 so that soft and hard differ.
- *EventFeed.* Pages of one event make every listing of two a second page; three
  events are one delivered, one on the page and one that arrives meanwhile; two
  handlers are one that throws and one that comes after it. Two overlapping
  transactions commit in either order.
- *Knowledge.* `Histories` are the rows that earlier calls leave, alone and in
  pairs, so that a maintenance pass meets each kind at once instead of after a long
  history. Two slots, one of constraints; values that differ and values that are
  negated; evidence that is missing, enough, doubled and against.
- *ContextAssembly.* Types, slots and scores are chosen so that a better fact is
  shut out by its type, a candidate is neighbour of a seed and held back, and the
  core alone may exceed the budget. Three turns allow two compactions, one of them
  between two reads.
- *StorageParity.* Three calls create two rows and read, change or delete one, or
  make a row, change it and change it again; the five scopes are one, its
  collaborator, and three that share with it only the workspace, the system or
  nothing. Of each table there are inputs that are backdated, given by the caller, of
  another scope, and refused; a page of one and a cursor make every list of two rows
  a second page. A tick lets an expiry date fall between two calls.
- *ScopeManagers.* Two requests under way overlap in every way two can; the third is
  the one that finds what they have left. One session and the base are the two
  maps; three managers are one of each and one rebuilt.

`CHECK_DEADLOCK FALSE` is set where ids, operations, turns or calls are bounded:
once the bound is used up, nothing is left to do. The breaker has no such end, and
its run checks deadlock.

## 4. Fairness

- `Coordination!FairSpec` and `MemoryCoordination!FairSpec`: time passes, and the two
  reapers run. The code has them called by the existing maintenance scheduler
  (`docs/REMEDIATION_PLAN.md:120-121`, `core/maintenance.ts`). No actor is fair: it
  may crash and never renew, release or decide.
- `PgCoordination!FairSpec`: a started operation's next statement runs when it can.
  Node resumes an await that resolved, Postgres hands out row locks and its
  deadlock detector aborts a transaction of a circle. No operation has to start,
  and time need not pass.
- `CircuitBreaker!FairSpec`: time passes. Neither callers nor providers are fair: a
  provider may hang, and the breaker must still offer a probe.
- `EventFeed!FairSpec`: the interval timer goes on polling (weakly fair), and a
  listing that is begun again and again succeeds some time (strongly fair). Writers
  are not fair, and the first read of the watermark may fail for good: the code
  keeps that rejected promise, and `FeedReaches` speaks of a cursor that was
  resolved.
- `Compaction`, `Knowledge`, `PgStore`, `ContextAssembly`, `ScopeManagers` and
  `StorageParity` have safety properties only: whether a call ends depends on a summarizer, an extractor,
  a verifier or a storage that may hang.

## 5. What is proved

| theorem | establishes | for every |
|---|---|---|
| `CoordinationProofs!TypeCorrect` | `[]TypeOK` | set of actors, items, leases, deadlines and bounds |
| `CoordinationProofs!SlotIsFree` | `[]OneRowPerItem` | the same |
| `CoordinationProofs!ReplayIsExact` | `[]ReplayAgrees` | the same |
| `CoordinationProofs!ExpiryIsExact` | `[]ExpiryRecordedOnce` | the same |
| `CoordinationProofs!OverIsOver` | `OverStaysOver` | the same |
| `CoordinationProofs!TablesKeepContract` | `KeepsContract`: the tables implement `LeaseContract` | the same |
| `PgCoordinationProofs!Inductive` | `[]IInv`: types, remaining statements, locks and what was read under them | set of connections, actors, handoffs, lease lengths and bounds |
| `PgCoordinationProofs!ExpiresOnce` | `[]OneExpiryEach` | the same |
| `PgCoordinationProofs!NeverSteals` | `ClaimNeverSteals` | the same |
| `PgCoordinationProofs!DeadlocksThroughAccept` | `[]DeadlockNeedsAccept` | the same |
| `MemoryCoordinationProofs!ReplayIsExact` | `[]ReplayExact` | set of actors, items, leases, deadlines and bounds |
| `MemoryCoordinationProofs!ArraysKeepContract` | `KeepsContract`: the arrays implement `LeaseContract` | the same |
| `MemoryCoordinationProofs!AcceptanceKeepsOrMoves` | `AcceptKeepsOrMoves` | the same |
| `CompactionProofs!NoTurnLost` | `[]NothingLost` | finite set of calls, policy, number of turns and compactions |
| `CompactionProofs!LatestActive` | `[]LatestStayActive` | the same |
| `CompactionProofs!EachTurnSummarizedOnce` | `[]SummarizedOnce` | the same |
| `CompactionProofs!QuietIsCurrent` | `[]SettledIsCurrent` | the same |
| `CompactionProofs!BreakerTypeCorrect` | `[]TypeOK` | finite set of callers, threshold, timeout |
| `CompactionProofs!OpensAtThreshold` | `[]ClosedBelowThreshold` | the same |
| `CompactionProofs!ShutUntilReset` | `RejectsUntilReset` when one call is in flight at a time | threshold and timeout |
| `KnowledgeProofs!FeedIsComplete` | `[]FeedComplete` | number of events, page size, set of handlers, number of polls |
| `KnowledgeProofs!FeedIsOnce` | `[]DeliveredOnce` | the same |
| `KnowledgeProofs!SinceIsComplete` | `[]SinceComplete` | number of events, page size |
| `KnowledgeProofs!SnapshotIsPinned` | `[]SnapshotPinned` | number of events |
| `KnowledgeProofs!ChainsStayInSlot` | `[]SupersededInSlot` | set of facts, evidence, histories, number of rows and calls |
| `KnowledgeProofs!DuplicatesUnseen` | `[]DuplicatesAreBlind` | the same |
| `KnowledgeProofs!UndisturbedSettle` | `[]PassesSettle` | the same, and limit of active rows |
| `PgStoreProofs!Invariant` | `[]IInv`: types, locks, events and what they show | set of connections, texts and kinds, number of transactions |
| `PgStoreProofs!LogTellsTables` | `KeepsRecord`: the tables implement `AuditedStore` | the same |
| `PgStoreProofs!CountsEveryUse` | `[]CountersExact` | the same |
| `PgStoreProofs!HoldsExpectedVersion` | `ExpectedVersionHeld` | the same |
| `PgStoreProofs!EndsOnce` | `[]PromotedOrExpired` | the same |
| `PgStoreProofs!DeadlocksAreOfSeveral` | `[]DeadlockNeedsSeveral` | the same |
| `PgStoreProofs!VisibilityAgrees` | the where clauses of the SQL adapters let through what `CrossScopeVisible` does | rows, events and scopes, at each level |
| `ContextAssemblyProofs!ReadsAreComplete` | `[]NothingUnread` | set of facts, number of turns and compactions |
| `ContextAssemblyProofs!AssociationsPassFilters` | `[]AssociatedAllowed` | the same, scores, weights and limits |
| `ContextAssemblyProofs!TrimmingFits` | `[]TrimmedToFit` | the same, sizes of everything that is counted, budgets |
| `ContextAssemblyProofs!ManagersAgree` | `[]CopiesAgree` of ServerContext | set of requests, sessions and values, and bounds |
| `StorageProofs!StorageWritesAgree` | `[]WritesAgree` | inputs of every call, scopes, sessions, focus, number of rows and calls |
| `StorageProofs!StorageLogTells` | the log of each adapter tells the history of its rows | the same |

The assumptions are those the modules name: leases are natural numbers, the default
lease is positive (300 s in the code), a deadline is one or absent, bounds are natural
numbers, and `NoRow` is not a row, an actor or an offer; handoffs, the claim row and the watermark row are
different rows, and a free lock is nobody's; thresholds, timeouts and page sizes are positive, a policy's numbers
natural; there is at least one fact (Knowledge); facts of a context are finitely many,
sizes natural numbers, scores, weights and budgets integers; the marks for no row and
for a deleted one (`ServerScope`) are no values; the rows that earlier extractions left (`HistoryAssumption`) are none of those under
way; and the inputs of StorageParity are those on which the adapters are not known to
part (`InputAssumption`: section 6 under *adapters that differ* says where they do). TLC evaluates them in the runs.

**Coordination.** None of the three invariants is inductive alone. `ReplayAgrees`
compares the log with whichever table has the row, so it needs that an id is in
one table at most, that nothing is stored under an id not yet handed out (else
`Grant` would overwrite it), that the log agrees with the table even when the
item is to be deleted later, and that rows of `work_claims_current` and
`handoff_records` belong to items that are there: these are `ClaimTables` and
`HandoffTable`. `OneRowPerItem` is part of it because `Grant` archives every row
in the slot and logs for each. `ExpiryRecordedOnce` needs the log to agree with
the row, so that a row about to be expired has not been counted. The inductive
invariant `IInv` is their conjunction with `TypeOK`; its proof has a lemma for
each action, and lemmas for `Grant`, which claims and acceptances share.

`OverStaysOver` and the refinement are then proved a step at a time from `IInv`.
The refinement maps an item to its holder, to the deadline of its lease and to the
offers that are open (`holderOf`, `untilOf`, `offerOf`), which are CHOOSE
expressions over the tables; the lemma `Leases` says, from `OneRowPerItem`, what they
are in every state, and a lemma for each action maps it to `Acquire`, `Extend`,
`Relinquish`, `MakeOffer`, `EndOffer`, `Transfer`, `Drop` or `Pass` of the contract, or
to a stuttering step, as when a reaper closes a row whose lease had lapsed.

**PgCoordination.** What a transaction checked may not hold when it writes, so an
invariant has to say what still does. `TypeOK` gives the statements a transaction
has left as one of the suffixes of its operation's program. `Held` says that what it
has written and not committed it has locked; with this, `NextVersion` and `Expiring`
compare its uncommitted row with the committed one, which nobody else can change in
the meantime: it is the next version of the same lease or the first of the next, and an
expiry is logged of a lease that is active there. `OwnOrLapsed` is the WHERE clause of
the upsert, kept until the commit: of a live lease a claim writes only its own
actor's. Numbers of leases and expiry counts are bounded by `LeasesCounted` and
`Unrecorded`. For deadlocks `RowFirst` says that every operation but acceptHandoff holds
at most one row besides the watermark, and takes it before the watermark; in a circle
without acceptHandoff whoever holds the watermark waits for nothing.

**MemoryCoordination.** `ReplayExact` looks back, so its invariant has the past in it
(`PastShown`) and two facts that carry it on: the last event of every claim and handoff
has its row (`LogTells`), and no event is dated ahead of the clock (`Dated`). When a
second passes, the rows are what replay as of it gives; afterwards the log only grows by
events of later seconds (`Continues`), which replay as of an earlier one leaves out.
Calls are chained functions of rows and log, so the induction is over what a call has
done so far: `Told` holds of `Now`, and each of `Expired`, `Released`, `Renewed`, `Swept`,
`Claimed` and `Yielded` keeps it, also of a call that then throws. A reaper appends an
event for each row at once; `Ranked` shows that `InOrder` lists each id exactly once. For
the contract, `Rows` adds that ids are handed out without gaps, so that a new row
overwrites none (`NextIsFree`), and that an item has one active row at most, lapsed or
not (`Single`), although `Swept` looks at one row only: while any is active, claims are
refused or renew it. What a call does to the leases is then one of four (`Begun`,
`Longer`, the same claims run, none runs), each a step of the contract or a stutter. The
same lemmas give `AcceptKeepsOrMoves`: once the running claim is released nothing stands
in the way of the next (`NothingStands`), so that only the state of the item can.

**Compaction.** `Archive` has the turns archived in the order in which they came,
up to a mark; `Snapshots` has that what a call read is a slice of the turns and that it
has more turns than are to be kept. The archived turns of a commit are then those below the snapshot's kept
ones, whatever was archived meanwhile. This gives `NothingLost` and
`LatestStayActive` for calls that overlap in any way. `OrderlyInv` speaks of
applications that await their calls: one call in flight, whose snapshot is the table,
hence working memories without a common turn. `SettledInv` says at which of a call's
remaining steps the monitor and the projection are already, or still, those of the
active turns; a call that says 'compacting' has always a write of the monitor left.

**CircuitBreaker.** The theorems are at the end of `CompactionProofs`, about `Shared`,
the breaker as an instance whose callers are any finite set of calls. Its `TypeOK` and
`ClosedBelowThreshold` are inductive together: success resets
the count in the step that closes the breaker. `ShutUntilReset` adds that while
the timeout runs the breaker is open and no call is in flight whose success could
close it. This is what fails with two calls in flight (section 6), so the
theorem assumes `MaxRunning = 1`.

**EventFeed.** At the end of `KnowledgeProofs`, about `Feed`, the instance of the feed.
All four theorems rest on one fact about the log (`Grows`): an event that becomes visible has an id greater than all that are visible,
or it is one of the late ones that the properties except. A cursor is therefore a
`Place`: 0 or the id of a visible event, and nothing appears at or behind it but late
ids. `Listing` says what one page gives from a place: all matching events up to its
last id, which is a place again. The invariants `SyncInv`, `SinceInv` and `SnapInv`
carry this through polls, pages and pins; `SyncInv` also keeps the ids of polls under
way apart, from which `DeliveredOnce` follows.

**Knowledge.** A superseded row keeps the text and the slot it was made with, so the
chain stays in the slot if the extraction that superseded it compared the two rows.
`Informed` says what an extraction knows: rows that exist, with the text and slot
that they still have, whatever has happened to their state since. For the duplicates
the same invariant says that of two rows with one text the later one was checked
against all that its extraction knew. For maintenance `MaintInv` says, of a pass nobody
else has written during, what each phase has dealt with: the rows of the list that have
gone are those it has retired or chosen as too much, and while a slot is consolidated also
those that lost, with what is to do still there. `Reduced` keeps that as many rows as
were too much, or all that may go, are among the taken ones; the limit then follows from
the cardinalities, although rows that outlived their retention are counted again.

**PgStore.** The invariant follows a transaction through its statements. `Held`: what it
has written it has locked, so no row is written by two (`Apart`), and the committed row
under an uncommitted one stands still. `Logged`: what it has written has an event that
shows it, the last of its row, or will have one before the next statement; at COMMIT
nothing is left to log. `Events`: its events are numbered apart, and later than what the
log has of the row, since whoever logged the row before had its lock until its COMMIT.
The exception is a work item that was gone when its deletion reached it (`GoneBefore`):
nothing is locked, so the events of two such deletions may become visible in either order,
but both say that there is no row. From these a COMMIT is `Record`, and the event that
AuditedStore chooses for a row is the one that `Logged` names. `Counts` compares an
uncommitted row with the one it replaces, and a COMMIT adds to `Told` as many events as to
the count, one or none, because an operation that counts is a transaction of its own
(`Running`); a batch of touches has one event for each of its rows. `Ends` and
`CandidateEnds` carry a candidate's text from the WHERE of the
deletion to the log; `CandidateFirst` is the lock that promotion takes first, without which
it could hold a new fact and wait for the candidate. `Sweep` is about a statement on several
rows: it comes to each once, logs it once, and has no lock but those of its rows while
one is left. Two transactions of one operation that wait for each other are therefore in
two statements of one kind, before either has the watermark (`Blocked`).

**ContextAssembly.** The invariant says that the turns archived so far are under a
summary, and, between the read of the turns and that of the summaries, that those
archived since the call began are. The lists are the other half. Selection is a
recursive function, and induction over it is not available; instead
`CourseExists` takes a least number for which no course of picks exists, and
`SelectFits` that each course is an injective sequence of candidates, no longer than
the limit. Expansion puts each neighbour at its `Place`, one more than the number of
those before it; `NeighbourPlaces` shows, from the order being total, that different
neighbours have different places below the number of neighbours, so that `Sorted` is
their list (`ExpansionFits`). `ListInv` carries this through the trimming, which takes
from the ends.

For the budget, `Total` adds up sizes over a set of positions; `Sums` is its defining
equation, which some function satisfies for every finite set (`SumsExist`), and
`Counted` says what dropping one position takes off the estimate. `FitInv` is
what each step of the six loops keeps: what was dropped last would not have fitted;
the facts are still a prefix of what was selected, trusted core first; the core is cut
into only if it does not fit with what is always kept; and a call that ends is within
its budget or has nothing left but that (`OnlyFactsLeft`).

**ScopeManagers.** At the end of `ContextAssemblyProofs`, about `SM`. `CopiesAgree`
speaks of the times without an update; its invariant says what happens meanwhile, of the
managers that are cached and not mixed (`Watched`), as long as updates run apart
(`Together`). An update of the aliases has stored them first, so a copy that is behind
is one that the update has still to list or to visit (`AliasesReach`). An update of the
invariant goes to each manager before the storage hears of it: either what is stored is
the outcome already, or every watched manager is still in the list and has the old row, but
for the one whose write is under way (`Handed`). This is why a deletion may skip a
manager that has nothing to delete. A manager that is being built or loaded outside
an update holds what is stored (`BuildsFresh`, `LoadsFresh`), since an update that
comes in meanwhile marks it as mixed. `Shape` has the types, and that a manager whose
write is under way has been loaded, so that a load cannot put the old row back. Each of
the 20 actions has a lemma; `QuietStep` and `Standing` are shared by those that change
no manager or no request.

**Visibility.** At the end of `PgStoreProofs`, about the operators of `SqliteStorage`,
`PostgresStorage` and `StorageKernel` and not about a behaviour: a read across scopes on
either SQL adapter sees a row, and the timeline an event, exactly if the rule of
`shared/visibility.ts` says so. A class that is null, absent or unknown makes a row
private in all three. The hypotheses: a scope has the five fields it is made of, null is
not a class, and if the later snapshot of an event has no class the earlier has none
either (`ClassStays`), for the SQL falls back from the one snapshot to the other and the
rule does not.

**StorageParity.** `WritesAgree` compares what the adapters keep evenly. That says too
little of what a next write makes of it: a status is changed by what the row shows, the
snapshots of an event are the row as it was and as it is, and a row is found by its key.
`Agree`, the inductive invariant, says of each pair of adapters that their stores are alike
(`AlikeStores`): the same ids in each table; under each id two records with the same
columns, `own` and what writes read among them, equal up to `KeptUnevenly`; work items whose
versions are numbers; and logs of one length, with events that tell the same of
alike snapshots, place by place (`AlikeEvents`). Each operator of `StorageKernel`
from which a write is built keeps stores alike (adding, changing and removing rows, logging),
given alike rows; a lemma for each of the contract's writes says which rows its
three implementations hand to them. The batches are where the three differ: a refused one gives its ids back, or, on
Postgres, uses them up. (Of candidates or evidence the in-memory adapter keeps what came before the refused
element; no element of these is refused, by `InputAssumption`.) `Aligned` is false then, and the guard of `Call` on it is where the proof takes it from
that the next ids are equal. `AlikeIsTheSame` gives
`WritesAgree` from `Agree`. The hypothesis `NullIsNoRow` is that the mark for null is
not a record: an event has a `before` or none. The in-memory adapter goes between the other two: what SQLite and
Postgres both are alike to is the same, up to the columns that are excepted.

`StorageLogTells` is about each adapter by itself: its log against its rows, in the six
tables that a replay finds by the ids of their rows. The last event about a row that is
there shows the row (`Shown`), and the last about one that is gone is a deletion (`Gone`),
so the rows are those whose last event is no deletion, as that event shows them. That is
what the fold computes, said without a fold. Besides, each event starts from what the
event before it left (`Linked`), a row is created once and before all else
(`CreatedOnce`), and an event has the scope of the row it shows (`Owned`), so that the
events of one scope are enough for its rows. None of this is inductive alone: a row
that is created must have an id that no event names, also none about a row long gone.
`Told` adds that the ids of a table's rows and events are below its next id, and the shape
of the store and of its log. `ToldOn` is the lemma that every
write goes through: one event for each row that changes, with the row before and after. The
writes that touch many rows (expiry, use counts, batches up to the element that is refused) get it
from the lists of rows they log.

**Model-checked only.** Liveness (`LapsesRecorded`, `AllReturn`, `RefusalEnds`,
`ProbesAgain`, `FeedReaches`) is out of the prover's reach. `LogRebuildsRows` folds a
log that it reads page by page and asks the reads of the replay adapter, which would need
induction over data; what the log itself must say for it is `StorageLogTells`. The states of sessions,
replayed by the session's name, are in the run only. `ReadsAgree` is
about operators that sort, search and cut off, with operators as arguments; it is
also true only of few rows: where a search meets more rows than its limit, or rows of
one rank, the adapters may choose otherwise. The predicates that reads filter with are proved
the same (`VisibilityAgrees`). The other properties of section 3 that the table does not
name are checked by TLC on the instances above.

## 6. What the checks found

**With a run.** TLC ends each with a counterexample to what the repository says.

- `pg_owners`: on Postgres releaseWorkClaim checks the owner, then updates by id.
  If the lease lapses and is taken by another actor in between, the first actor
  ends the second's live lease. renewWorkClaim has the same gap.
- `event_feed_pg`: on Postgres the transaction with the smaller event id may commit
  last. A poll in between moves the cursor past it, and the change is never
  delivered. The comment on the listing's order calls the id "the true causal
  order".

**In the models, without a run.** The models contain what the code does here, and
their properties are stated so as to say how far it goes; each was met as a
counterexample to a stronger statement.

- *A lapsed claim may block its item in memory.* claimWorkItem of the in-memory
  adapter looks for a lapse at the item's first claim only
  (`adapters/memory/index.ts:1338`): a later claim that lapsed refuses every other
  actor until the reaper comes by (`RefusalEnds`). `docs/REMEDIATION_PLAN.md:19`
  expects "claim → expire → reclaim succeeds".
- *A lapsed claim is released without an expiry event* on SQLite: releaseWorkClaim
  does not look at the clock, although the comment at `adapters/sqlite/index.ts:809`
  has release among the places that write the expiry.
- *Deleting a work item* deletes its claims and handoffs by cascade and logs nothing
  about them, so replay still shows them (`docs/REMEDIATION_PLAN.md:106`).
  `ReplayAgrees` is about items that are there.
- *A claim that turns into a renewal* on Postgres answers null when the lease lapses
  at that moment; the `!` after it hides this, and acceptHandoff commits "accepted"
  while the receiver holds nothing.
- *Two decisions on one handoff* on Postgres that both read "pending" both commit;
  the later replaces the outcome of the earlier (`adapters/postgres/index.ts:3086`).
- *updateWorkItem* on Postgres fills the columns that the patch leaves out from a row
  it read without a lock: an update of the title alone may write back a status that
  was changed meanwhile. With `expectedVersion` it cannot (`ExpectedVersionHeld`).
  On SQLite updateWorkItemStatus does not raise the version; on Postgres it does.
- *revisePlaybook* on Postgres stores as the revision the instructions that it read
  without a lock (`core/playbook.ts:259`): of two revisions at once both store the
  same old text, and the new text of the first is in no revision. The comment at
  `core/playbook.ts:212` has it store "the old instructions".
- *Two deletions of one row* on Postgres both log it, if both read it before one
  deletes. Of three, the two that found no row hold no lock on it, and of their events
  the one with the smaller id may become visible last. Replay does not change: all say
  that the row is gone. `AuditedStore` promises the order of a row's events with this
  exception, which the proof of the refinement showed to be needed (two connections
  cannot meet it).
- *The touch of facts that a context was built from* can deadlock with the
  extraction that replaces one of them: one has the row and wants the watermark, the
  other has logged before and wants the row. One of the two is aborted. Two touches of
  overlapping facts, or two clean-ups of overlapping candidates, can deadlock with each
  other as well, as neither statement orders its rows
  (`adapters/postgres/index.ts:2354`, `:2034`). All other transactions of one operation
  are not part of a circle of two (`DeadlockNeedsSeveral`).
- *A late success closes the breaker.* The success of a call that began before the
  breaker opened closes it before the reset timeout has passed
  (`__tests__/circuit-breaker.test.ts:6`: it "rejects until reset timeout elapses"). `ShutUntilReset` is the theorem
  for one call at a time.
- *A snapshot is bounded by the date of its pin*: an event dated later than the pin
  and logged before it is missing from the replay (`README.md:212`).
  `SnapshotPinned` says exactly this.
- *Evidence against a new fact disputes a row it is merely compatible with*, also one
  of another slot (`core/orchestrator.ts:1404`, `README.md:151`).
- *Promises that reject are kept*: createMemorySync's first cursor, the load of a
  scope's governance (`core/capabilities/governance.ts:94`) and the Postgres
  adapter's cutover; every later call is rejected, although the storage has
  recovered.
- *Copies of a scope's configuration diverge* (`server/server-context.ts`,
  `server/scope-propagation.ts`): a request that built a manager meanwhile puts it in
  the place of one that was told of an update; a manager loads its governance while
  an update is under way that it is not told of; two updates overtake each other
  on their way through the managers; getAliases hands on what it read before a
  later save. A deletion whose storage call failed has changed the copy: repeated, it
  answers `deleted: false`, and the storage is never told. `CopiesAgree` says that
  these are all, in the instance checked. `CHANGELOG.md:63` has updates "propagate
  consistently across transports", `README.md:298` has governance durable.
- *What a context shows*: when turns are all that was dropped, no
  `token_budget_trimmed` warning is given and the context does not count as degraded
  (`README.md:370`); an associated fact may be provisional or disputed, and then
  stands in that bucket too; with `maxKnowledgeItems` 1 or 2, up to three facts of
  the core are selected; in memory the working memory is not sorted, so that the
  "recent" summaries are the oldest.
- *The embedding cache* evicts while it inserts the vectors of a batch: a text that
  was a hit, or the first of a batch larger than the cache, is answered with an
  empty vector (`embeddings/resilience.ts:53`).

*Adapters that differ.* Met while the three storages were written side by side;
`storage_parity` checks that they agree on everything else. `contracts/storage.ts:85`
has one canonical order for all adapters and line 104 there "Every field of a
contract input is persisted".

- *Columns* (`KeptUnevenly`): insertWorkingMemory on Postgres drops `expires_at`, which
  SQLite and memory default to a day, and Postgres' active and latest working memory
  goes by the status alone; insertKnowledgeMemoryAudit on Postgres writes the present
  for `created_at`; supersedeKnowledgeMemory on Postgres also sets `retired_at`;
  upsertContextMonitor on Postgres keeps a `last_compaction_at` that the caller
  clears; insertPlaybook on Postgres takes `updated_at` from `created_at`;
  updateWorkItemStatus on SQLite does not raise the version; insertAssociation on
  SQLite never stores the class of visibility (inputs here have none).
- *Events*: archiveTurn logs nothing on SQLite when the turn is archived already, and
  the other two archive it again; an update with an empty patch is logged in memory
  only; the class in an event's scope falls back from the new row to the old on SQL
  column by column, in memory row by row.
- *Atomicity in memory*: a batch of candidates or of evidence that fails half-way
  stays half done, and so does a transaction within a transaction;
  touchKnowledgeMemories is one call for each row.
- *Reads*: a session id `''` is no filter on SQL and a name in memory; the limit of an
  audit listing is 20 on Postgres and 10 elsewhere; listHandoffs has a limit on
  Postgres only, listWorkClaims a history on SQLite only; the in-memory playbook
  search is for a substring, where SQL's is for all words; Postgres does not validate
  inputs; where no order is declared, orders differ.
- *The replay adapter* (`core/temporal.ts`): searchKnowledge ignores its options,
  searchPlaybooks matches any word, the default limit is 10; in reads across scopes,
  sessions of one name are one, a work item made private stays visible; a log of
  more than 5000 events is refused.
- *Visibility*: a row shared with a collaboration, in a scope that has none, is
  invisible to its own scope when read across scopes.

Checked and accepted, because the repository does not promise otherwise: calls
that overlap summarise the same turns twice (the concurrency test says that the
adapters do not deduplicate); with strategy "throw" the monitor stays at
"compacting" until the next call; overlapping calls can leave an older projection;
two extractions that could not see each other both promote a fact. `SummarizedOnce`
and `SettledIsCurrent` are therefore stated for applications that await their calls,
the monitor's part of the latter for "log_and_continue", `DuplicatesAreBlind` for
extractions that could see each other.

## 7. What is not modelled

- Reads that rank and lay out text (retrieval, formatter, search, profiles,
  episodes, reflection, graph reports), prompts and providers, parsing and routing,
  authentication, the command line, the Python client, evals, import and export: no
  state that outlives the call.
- The rate limiter, the MCP server's runtimes and the snapshots kept for a session:
  each is one synchronous step on a map. The MCP server's runtimes keep managers that
  the manager cache has dropped; such a manager is one that "holds the manager" in
  ScopeManagers.
- Streaming and runtime: a collector joins the parts of a stream and hands them to
  processTurn once. It counts as finalized before that call has stored the turn, so a
  failed one cannot be repeated.
- A hook that throws after a turn was inserted rejects processTurn (in Compaction);
  the caller's retry, which stores the turn again, is a new call there.
- A `claimed_at` that the caller supplies (`adapters/sqlite/index.ts:2364`,
  `adapters/postgres/index.ts:2678`, `adapters/memory/index.ts:1337`): a claim is made
  now.
- Titles, summaries, reasons, metadata and source events of coordination rows, and
  the scope checks before an operation: the properties do not tell them apart.
- The monitor row is one for all sessions of a scope; Compaction has one session.
- In the storages: rows read by their id alone, embeddings, events inserted as a
  batch, schema migrations and the cutover of an older
  database; the ranking of search results (which rows are found is modelled).
- In PgStore the adapter's own start (cutover) and the values of the watermark; in
  PgCoordination the lock of the work item's row, and createHandoff, insert and
  delete of items.
- Promotion of candidates by hand, manual edits of a knowledge row, the pruning of
  associations and audit rows, historical reads (asOf) of contexts.
- Crashes of the process: on SQLite and Postgres an operation is a transaction, and a
  crash is an operation that did not happen (`Fail` in PgStore, `Rollback` in
  EventFeed); in memory a crash loses everything; calls on the manager that end at
  any await are covered by hooks that throw and by calls that never continue; the
  server's restart is an action of ScopeManagers.

## 8. Plan

1. Done: coordination on three adapters against one contract, circuit breaker,
   compaction, event feed, knowledge, the Postgres tables against their log, context
   assembly, the server's managers, the three storages side by side; proofs as in
   section 5.
2. Next to prove: that reading the log page by page and folding it gives what
   `StorageLogTells` says of its last events, with the states of sessions.
3. Next to model: the session's runtimes and snapshots of the servers with expiry;
   several sessions on one monitor row; streaming; historical contexts.
