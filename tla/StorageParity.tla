---------------------------- MODULE StorageParity ----------------------------
(***************************************************************************)
(* The contract of contracts/storage.ts: the same calls, made on a SQLite, *)
(* an in-memory and a Postgres adapter, leave the same rows and events and *)
(* are answered alike, and the event log of each rebuilds its tables.      *)
(*                                                                         *)
(* A behaviour works on one part of a store (`focus'): the parts share     *)
(* only the event log.  Calls on which the adapters are known to part are  *)
(* left out of the inputs (the README lists them), and after a call that   *)
(* leaves them handing out different ids no other follows.                 *)
(***************************************************************************)
EXTENDS StorageKernel

CONSTANTS Scopes, SessionIds, Focus,         \* what calls are about
          SettingScopes,                     \* where settings are written
          Queries,                           \* sets of words to search for
          TurnInputs, WorkingInputs, KnowledgeInputs, KnowledgePatches, CandidateInputs,
          EvidenceInputs, AuditInputs, ItemInputs, ItemPatches, MonitorInputs, CompactionInputs,
          PlaybookInputs, PlaybookPatches, AssociationInputs, StateInputs, DocumentInputs,
          Ranges, PageOptions, SearchOptions, EventQueries,
          Start, MaxNow, MaxCalls

(* Inputs on which the adapters are known to part are left out: classes of *)
(* associations, empty patches, candidates and evidence refused in the     *)
(* middle of a batch.  No patch sets a version.                            *)
ASSUME InputAssumption ==
  /\ None \notin Int
  /\ \A in \in AssociationInputs : in.class \in {None, "private"}
  /\ \A patch \in KnowledgePatches \cup PlaybookPatches : DOMAIN patch # {}
  /\ \A in \in CandidateInputs \cup EvidenceInputs : in.valid
  /\ \A patch \in ItemPatches : "version" \notin DOMAIN patch

VARIABLES sqlite, memory, postgres,    \* the stores
          now,                         \* nowSeconds(), the same for all
          focus,                       \* the part of the store worked on
          calls                        \* how many calls were made

vars == <<sqlite, memory, postgres, now, focus, calls>>

S == INSTANCE SqliteStorage
M == INSTANCE MemoryStorage
P == INSTANCE PostgresStorage
R == INSTANCE TemporalReplay

-----------------------------------------------------------------------------
(* A call, made on each adapter.                                           *)

Aligned == sqlite.ids = memory.ids /\ memory.ids = postgres.ids

Call(part, s, m, p) ==
  /\ focus = part
  /\ Aligned
  /\ calls < MaxCalls
  /\ calls' = calls + 1
  /\ sqlite' = s
  /\ memory' = m
  /\ postgres' = p
  /\ UNCHANGED <<now, focus>>

(* The ids in use, and the next one, which names no row.                   *)
Ids(tab) == 1 .. memory.ids[tab]

(* Batches of two, of which the second may be refused.                     *)
Batches(in) == {<<in, in>>, <<in, [in EXCEPT !.valid = FALSE]>>}

-----------------------------------------------------------------------------
(* Turns and working memory.                                               *)

InsertTurn(in) ==
  Call("turns", S!InsertTurn(sqlite, in, now), M!InsertTurn(memory, in, now),
                P!InsertTurn(postgres, in, now))

InsertTurns(batch) ==
  Call("turns", S!InsertTurns(sqlite, batch, now), M!InsertTurns(memory, batch, now),
                P!InsertTurns(postgres, batch, now))

(* Compaction archives active turns; what else is archived no longer is.   *)
ArchiveTurn(id) ==
  /\ Exists(memory, "turns", id) => memory.turns[id].archived = None
  /\ Call("turns", S!ArchiveTurn(sqlite, id, now, 1), M!ArchiveTurn(memory, id, now, 1),
                   P!ArchiveTurn(postgres, id, now, 1))

InsertWorkingMemory(in) ==
  Call("working", S!InsertWorkingMemory(sqlite, in, now), M!InsertWorkingMemory(memory, in, now),
                  P!InsertWorkingMemory(postgres, in, now))

ExpireWorkingMemory(id) ==
  Call("working", S!ExpireWorkingMemory(sqlite, id, now), M!ExpireWorkingMemory(memory, id, now),
                  P!ExpireWorkingMemory(postgres, id, now))

MarkWorkingMemoryPromoted(id, knowledge) ==
  Call("working", S!MarkWorkingMemoryPromoted(sqlite, id, knowledge, now),
                  M!MarkWorkingMemoryPromoted(memory, id, knowledge, now),
                  P!MarkWorkingMemoryPromoted(postgres, id, knowledge, now))

-----------------------------------------------------------------------------
(* Knowledge.                                                              *)

InsertKnowledgeMemory(in) ==
  Call("knowledge", S!InsertKnowledgeMemory(sqlite, in, now),
                    M!InsertKnowledgeMemory(memory, in, now),
                    P!InsertKnowledgeMemory(postgres, in, now))

InsertKnowledgeMemories(batch) ==
  Call("knowledge", S!InsertKnowledgeMemories(sqlite, batch, now),
                    M!InsertKnowledgeMemories(memory, batch, now),
                    P!InsertKnowledgeMemories(postgres, batch, now))

UpdateKnowledgeMemory(id, patch) ==
  Call("knowledge", S!UpdateKnowledgeMemory(sqlite, id, patch, now),
                    M!UpdateKnowledgeMemory(memory, id, patch, now),
                    P!UpdateKnowledgeMemory(postgres, id, patch, now))

TouchKnowledgeMemory(id) ==
  Call("knowledge", S!TouchKnowledgeMemory(sqlite, id, now),
                    M!TouchKnowledgeMemory(memory, id, now),
                    P!TouchKnowledgeMemory(postgres, id, now))

TouchKnowledgeMemories(ids) ==
  Call("knowledge", S!TouchKnowledgeMemories(sqlite, ids, now),
                    M!TouchKnowledgeMemories(memory, ids, now),
                    P!TouchKnowledgeMemories(postgres, ids, now))

RetireKnowledgeMemory(id) ==
  Call("knowledge", S!RetireKnowledgeMemory(sqlite, id, now),
                    M!RetireKnowledgeMemory(memory, id, now),
                    P!RetireKnowledgeMemory(postgres, id, now))

SupersedeKnowledgeMemory(old, new) ==
  Call("knowledge", S!SupersedeKnowledgeMemory(sqlite, old, new, now),
                    M!SupersedeKnowledgeMemory(memory, old, new, now),
                    P!SupersedeKnowledgeMemory(postgres, old, new, now))

-----------------------------------------------------------------------------
(* What knowledge is made from: candidates, evidence, audits.              *)

InsertKnowledgeCandidate(in) ==
  Call("learning", S!InsertKnowledgeCandidate(sqlite, in, now),
                   M!InsertKnowledgeCandidate(memory, in, now),
                   P!InsertKnowledgeCandidate(postgres, in, now))

InsertKnowledgeCandidates(batch) ==
  Call("learning", S!InsertKnowledgeCandidates(sqlite, batch, now),
                   M!InsertKnowledgeCandidates(memory, batch, now),
                   P!InsertKnowledgeCandidates(postgres, batch, now))

InsertKnowledgeEvidence(in) ==
  Call("learning", S!InsertKnowledgeEvidence(sqlite, in, now),
                   M!InsertKnowledgeEvidence(memory, in, now),
                   P!InsertKnowledgeEvidence(postgres, in, now))

InsertKnowledgeEvidenceBatch(batch) ==
  Call("learning", S!InsertKnowledgeEvidenceBatch(sqlite, batch, now),
                   M!InsertKnowledgeEvidenceBatch(memory, batch, now),
                   P!InsertKnowledgeEvidenceBatch(postgres, batch, now))

PromoteKnowledgeCandidate(id, in) ==
  Call("learning", S!PromoteKnowledgeCandidate(sqlite, id, in, now),
                   M!PromoteKnowledgeCandidate(memory, id, in, now),
                   P!PromoteKnowledgeCandidate(postgres, id, in, now))

DeleteExpiredKnowledgeCandidates(scope, olderThan) ==
  Call("learning", S!DeleteExpiredKnowledgeCandidates(sqlite, scope, olderThan, now),
                   M!DeleteExpiredKnowledgeCandidates(memory, scope, olderThan, now),
                   P!DeleteExpiredKnowledgeCandidates(postgres, scope, olderThan, now))

InsertKnowledgeMemoryAudit(in) ==
  Call("learning", S!InsertKnowledgeMemoryAudit(sqlite, in, now),
                   M!InsertKnowledgeMemoryAudit(memory, in, now),
                   P!InsertKnowledgeMemoryAudit(postgres, in, now))

-----------------------------------------------------------------------------
(* Work items, monitors and compaction logs.                               *)

InsertWorkItem(in) ==
  Call("items", S!InsertWorkItem(sqlite, in, now), M!InsertWorkItem(memory, in, now),
                P!InsertWorkItem(postgres, in, now))

UpdateWorkItemStatus(id, status) ==
  Call("items", S!UpdateWorkItemStatus(sqlite, id, status, now),
                M!UpdateWorkItemStatus(memory, id, status, now),
                P!UpdateWorkItemStatus(postgres, id, status, now))

(* The version a caller has read, from the adapter it works on, or an old one. *)
UpdateWorkItem(id, patch, stale) ==
  LET Expected(st) == IF Exists(st, "items", id)
                      THEN st.items[id].version - (IF stale THEN 1 ELSE 0) ELSE 1
  IN  Call("items", S!UpdateWorkItem(sqlite, id, patch, Expected(sqlite), now),
                    M!UpdateWorkItem(memory, id, patch, Expected(memory), now),
                    P!UpdateWorkItem(postgres, id, patch, Expected(postgres), now))

DeleteWorkItem(id) ==
  Call("items", S!DeleteWorkItem(sqlite, id, now), M!DeleteWorkItem(memory, id, now),
                P!DeleteWorkItem(postgres, id, now))

UpsertContextMonitor(in) ==
  Call("logs", S!UpsertContextMonitor(sqlite, in, now), M!UpsertContextMonitor(memory, in, now),
               P!UpsertContextMonitor(postgres, in, now))

InsertCompactionLog(in) ==
  Call("logs", S!InsertCompactionLog(sqlite, in, now), M!InsertCompactionLog(memory, in, now),
               P!InsertCompactionLog(postgres, in, now))

-----------------------------------------------------------------------------
(* Playbooks and associations.                                             *)

InsertPlaybook(in) ==
  Call("playbooks", S!InsertPlaybook(sqlite, in, now), M!InsertPlaybook(memory, in, now),
                    P!InsertPlaybook(postgres, in, now))

UpdatePlaybook(id, patch) ==
  Call("playbooks", S!UpdatePlaybook(sqlite, id, patch, now),
                    M!UpdatePlaybook(memory, id, patch, now),
                    P!UpdatePlaybook(postgres, id, patch, now))

RecordPlaybookUse(id) ==
  Call("playbooks", S!RecordPlaybookUse(sqlite, id, now), M!RecordPlaybookUse(memory, id, now),
                    P!RecordPlaybookUse(postgres, id, now))

InsertPlaybookRevision(in) ==
  Call("playbooks", S!InsertPlaybookRevision(sqlite, in, now),
                    M!InsertPlaybookRevision(memory, in, now),
                    P!InsertPlaybookRevision(postgres, in, now))

InsertAssociation(in) ==
  Call("associations", S!InsertAssociation(sqlite, in, now), M!InsertAssociation(memory, in, now),
                       P!InsertAssociation(postgres, in, now))

DeleteAssociation(id) ==
  Call("associations", S!DeleteAssociation(sqlite, id, now), M!DeleteAssociation(memory, id, now),
                       P!DeleteAssociation(postgres, id, now))

-----------------------------------------------------------------------------
(* Session state, source documents, configuration and governance.          *)

UpsertSessionState(in) ==
  Call("sessions", S!UpsertSessionState(sqlite, in), M!UpsertSessionState(memory, in),
                   P!UpsertSessionState(postgres, in))

InsertSourceDocument(in) ==
  Call("documents", S!InsertSourceDocument(sqlite, in, now),
                    M!InsertSourceDocument(memory, in, now),
                    P!InsertSourceDocument(postgres, in, now))

UpdateSourceDocument(id, patch) ==
  Call("documents", S!UpdateSourceDocument(sqlite, id, patch, now),
                    M!UpdateSourceDocument(memory, id, patch, now),
                    P!UpdateSourceDocument(postgres, id, patch, now))

SetScopeConfig(scope, value) ==
  Call("settings", S!SetScopeConfig(sqlite, scope, "key", value, now),
                   M!SetScopeConfig(memory, scope, "key", value, now),
                   P!SetScopeConfig(postgres, scope, "key", value, now))

UpsertDefaultContextContract(scope, contract) ==
  Call("settings", S!UpsertDefaultContextContract(sqlite, scope, contract, now),
                   M!UpsertDefaultContextContract(memory, scope, contract, now),
                   P!UpsertDefaultContextContract(postgres, scope, contract, now))

UpsertNamedContextContract(scope, name, contract) ==
  Call("settings", S!UpsertNamedContextContract(sqlite, scope, name, contract, now),
                   M!UpsertNamedContextContract(memory, scope, name, contract, now),
                   P!UpsertNamedContextContract(postgres, scope, name, contract, now))

DeleteNamedContextContract(scope, name) ==
  Call("settings", S!DeleteNamedContextContract(sqlite, scope, name, now),
                   M!DeleteNamedContextContract(memory, scope, name, now),
                   P!DeleteNamedContextContract(postgres, scope, name, now))

UpsertContextInvariant(scope, id, invariant) ==
  Call("settings", S!UpsertContextInvariant(sqlite, scope, id, invariant, now),
                   M!UpsertContextInvariant(memory, scope, id, invariant, now),
                   P!UpsertContextInvariant(postgres, scope, id, invariant, now))

DeleteContextInvariant(scope, id) ==
  Call("settings", S!DeleteContextInvariant(sqlite, scope, id, now),
                   M!DeleteContextInvariant(memory, scope, id, now),
                   P!DeleteContextInvariant(postgres, scope, id, now))

UpsertContextEscalationPolicy(scope, policy) ==
  Call("settings", S!UpsertContextEscalationPolicy(sqlite, scope, policy, now),
                   M!UpsertContextEscalationPolicy(memory, scope, policy, now),
                   P!UpsertContextEscalationPolicy(postgres, scope, policy, now))

(* Time passes between calls.                                              *)
Tick ==
  /\ now < MaxNow
  /\ now' = now + 1
  /\ UNCHANGED <<sqlite, memory, postgres, focus, calls>>

-----------------------------------------------------------------------------
Init ==
  /\ sqlite = EmptyStore
  /\ memory = EmptyStore
  /\ postgres = EmptyStore
  /\ now = Start
  /\ focus \in Focus
  /\ calls = 0

OnTurns ==
  \/ \E in \in TurnInputs :
       InsertTurn(in) \/ \E batch \in Batches(in) : InsertTurns(batch)
  \/ \E id \in Ids("turns") : ArchiveTurn(id)

OnWorkingMemory ==
  \/ \E in \in WorkingInputs : InsertWorkingMemory(in)
  \/ \E id \in Ids("working") : ExpireWorkingMemory(id) \/ MarkWorkingMemoryPromoted(id, 1)

OnKnowledge ==
  \/ \E in \in KnowledgeInputs :
       InsertKnowledgeMemory(in) \/ \E batch \in Batches(in) : InsertKnowledgeMemories(batch)
  \/ \E id \in Ids("knowledge") :
       \/ \E patch \in KnowledgePatches : UpdateKnowledgeMemory(id, patch)
       \/ TouchKnowledgeMemory(id)
       \/ TouchKnowledgeMemories(<<id, id + 1>>)
       \/ RetireKnowledgeMemory(id)
       \/ \E new \in DOMAIN memory.knowledge \ {id} : SupersedeKnowledgeMemory(id, new)

OnLearning ==
  \/ \E in \in CandidateInputs :
       InsertKnowledgeCandidate(in) \/ InsertKnowledgeCandidates(<<in, in>>)
  \/ \E in \in EvidenceInputs :
       InsertKnowledgeEvidence(in) \/ InsertKnowledgeEvidenceBatch(<<in, in>>)
  \/ \E id \in Ids("candidates"), in \in KnowledgeInputs :
       /\ Exists(memory, "candidates", id) => in.own = memory.candidates[id].own
       /\ PromoteKnowledgeCandidate(id, in)
  \/ \E scope \in Scopes : DeleteExpiredKnowledgeCandidates(scope, now)
  \/ \E in \in AuditInputs : InsertKnowledgeMemoryAudit(in)

OnWorkItems ==
  \/ \E in \in ItemInputs : InsertWorkItem(in)
  \/ \E id \in Ids("items") :
       \/ UpdateWorkItemStatus(id, "done")
       \/ \E patch \in ItemPatches, stale \in BOOLEAN : UpdateWorkItem(id, patch, stale)
       \/ DeleteWorkItem(id)

OnLogs ==
  \/ \E in \in MonitorInputs : UpsertContextMonitor(in)
  \/ \E in \in CompactionInputs : InsertCompactionLog(in)

OnPlaybooks ==
  \/ \E in \in PlaybookInputs : InsertPlaybook(in)
  \/ \E id \in Ids("playbooks") :
       \/ \E patch \in PlaybookPatches : UpdatePlaybook(id, patch)
       \/ RecordPlaybookUse(id)
       \/ \E at \in {None, 1} :
            InsertPlaybookRevision([playbook |-> id, session |-> None, at |-> at])

OnAssociations ==
  \/ \E in \in AssociationInputs : InsertAssociation(in)
  \/ \E id \in Ids("associations") : DeleteAssociation(id)

OnDocuments ==
  \/ \E in \in DocumentInputs : InsertSourceDocument(in)
  \/ \E id \in Ids("documents") : UpdateSourceDocument(id, [status |-> "completed"])

OnSettings ==
  \E scope \in SettingScopes :
    \/ \E value \in {1, 2} : SetScopeConfig(scope, value)
    \/ UpsertContextEscalationPolicy(scope, 1)
    \/ \E contract \in {None, 1} : UpsertDefaultContextContract(scope, contract)
    \/ UpsertNamedContextContract(scope, "name", 1)
    \/ DeleteNamedContextContract(scope, "name")
    \/ UpsertContextInvariant(scope, "name", 1)
    \/ DeleteContextInvariant(scope, "name")

Next ==
  \/ OnTurns \/ OnWorkingMemory \/ OnKnowledge \/ OnLearning \/ OnWorkItems \/ OnLogs
  \/ OnPlaybooks \/ OnAssociations \/ OnDocuments \/ OnSettings
  \/ \E in \in StateInputs : UpsertSessionState(in)
  \/ Tick

Spec == Init /\ [][Next]_vars

-----------------------------------------------------------------------------
(* Properties.                                                             *)

(* Columns an adapter is known to keep otherwise than the others: Postgres *)
(* drops the expires_at of new working memory and the created_at of        *)
(* audits, sets retired_at on superseded knowledge, keeps the last         *)
(* compaction of a monitor and takes a playbook's updated_at from its      *)
(* created_at; SQLite does not raise the version with the status.          *)
KeptUnevenly ==
  {<<"working", "expires">>, <<"audits", "at">>, <<"knowledge", "retired">>,
   <<"monitors", "compacted">>, <<"playbooks", "updated">>, <<"items", "version">>}

Comparable(tab, row) ==
  IF row = None THEN None
  ELSE [c \in {c \in DOMAIN row : <<tab, c>> \notin KeptUnevenly} |-> row[c]]

ComparableStore(st) ==
  [tab \in Tables \cup {"events"} |->
     IF tab # "events" THEN [i \in DOMAIN st[tab] |-> Comparable(tab, st[tab][i])]
     ELSE [i \in DOMAIN st.events |->
             LET e == st.events[i]
             IN  [e EXCEPT !.before = Comparable(e.kind, @), !.after = Comparable(e.kind, @)]]]

Same(s, m, p) == s = m /\ m = p
SameRows(s, m, p) == Same(Range(s), Range(m), Range(p))

(* The same calls leave the same rows and the same events in every         *)
(* adapter, up to the columns above: whatever fails half-way, whatever an  *)
(* id names no row, and in whatever order rows were created and backdated. *)
WritesAgree ==
  Same(ComparableStore(sqlite), ComparableStore(memory), ComparableStore(postgres))

TurnReads(scope) ==
  /\ \A session \in SessionIds \cup {None} :
       Same(S!GetActiveTurns(sqlite, scope, session), M!GetActiveTurns(memory, scope, session),
            P!GetActiveTurns(postgres, scope, session))
  /\ \A session \in SessionIds :
       Same(S!GetArchivedTurnRange(sqlite, session, 1, 2, scope),
            M!GetArchivedTurnRange(memory, session, 1, 2, scope),
            P!GetArchivedTurnRange(postgres, session, 1, 2, scope))
  /\ \A range \in Ranges :
       Same(S!GetTurnsByTimeRange(sqlite, scope, range), M!GetTurnsByTimeRange(memory, scope, range),
            P!GetTurnsByTimeRange(postgres, scope, range))
  /\ \A query \in Queries, active \in BOOLEAN :
       LET o == [activeOnly |-> active]
       IN  SameRows(S!SearchTurns(sqlite, scope, query, o), M!SearchTurns(memory, scope, query, o),
                    P!SearchTurns(postgres, scope, query, o))
  /\ \A o \in PageOptions :
       Same(S!GetActiveTurnsPaginated(sqlite, scope, o), M!GetActiveTurnsPaginated(memory, scope, o),
            P!GetActiveTurnsPaginated(postgres, scope, o))

(* On Postgres working memory stays active until it is expired by a call.  *)
WorkingMemoryReads(scope) ==
  /\ \A session \in SessionIds \cup {None} :
       /\ Range(S!GetActiveWorkingMemory(sqlite, scope, session, now))
            = Range(M!GetActiveWorkingMemory(memory, scope, session, now))
       /\ Range(M!GetActiveWorkingMemory(memory, scope, session, now))
            \subseteq Range(P!GetActiveWorkingMemory(postgres, scope, session, now))
       /\ S!GetLatestWorkingMemory(sqlite, scope, session, now)
            = M!GetLatestWorkingMemory(memory, scope, session, now)
  /\ \A session \in SessionIds :
       Same(S!GetWorkingMemoryBySession(sqlite, session, scope),
            M!GetWorkingMemoryBySession(memory, session, scope),
            P!GetWorkingMemoryBySession(postgres, session, scope))
  /\ \A range \in Ranges :
       Same(S!GetWorkingMemoryByTimeRange(sqlite, scope, range),
            M!GetWorkingMemoryByTimeRange(memory, scope, range),
            P!GetWorkingMemoryByTimeRange(postgres, scope, range))

KnowledgeReads(scope) ==
  /\ SameRows(S!GetActiveKnowledgeMemory(sqlite, scope), M!GetActiveKnowledgeMemory(memory, scope),
              P!GetActiveKnowledgeMemory(postgres, scope))
  /\ \A o \in PageOptions :
       Same(S!GetActiveKnowledgeMemoryPaginated(sqlite, scope, o),
            M!GetActiveKnowledgeMemoryPaginated(memory, scope, o),
            P!GetActiveKnowledgeMemoryPaginated(postgres, scope, o))
  /\ \A range \in Ranges :
       Same(S!GetKnowledgeByTimeRange(sqlite, scope, range),
            M!GetKnowledgeByTimeRange(memory, scope, range),
            P!GetKnowledgeByTimeRange(postgres, scope, range))
  /\ \A level \in Levels :
       /\ Same(S!GetActiveKnowledgeCrossScope(sqlite, scope, level),
               M!GetActiveKnowledgeCrossScope(memory, scope, level),
               P!GetActiveKnowledgeCrossScope(postgres, scope, level))
       /\ Same(S!GetKnowledgeSince(sqlite, scope, level, now),
               M!GetKnowledgeSince(memory, scope, level, now),
               P!GetKnowledgeSince(postgres, scope, level, now))
  /\ \A query \in Queries, o \in SearchOptions :
       /\ SameRows(S!SearchKnowledge(sqlite, scope, query, o),
                   M!SearchKnowledge(memory, scope, query, o),
                   P!SearchKnowledge(postgres, scope, query, o))
       /\ SameRows(S!SearchKnowledgeCrossScope(sqlite, scope, "workspace", query, o),
                   M!SearchKnowledgeCrossScope(memory, scope, "workspace", query, o),
                   P!SearchKnowledgeCrossScope(postgres, scope, "workspace", query, o))

LearningReads(scope) ==
  /\ \A states \in {None, {"candidate"}, {"provisional"}} :
       SameRows(S!ListKnowledgeCandidates(sqlite, scope, states),
                M!ListKnowledgeCandidates(memory, scope, states),
                P!ListKnowledgeCandidates(postgres, scope, states))
  /\ \A id \in 1 .. 2 :
       /\ SameRows(S!ListKnowledgeEvidenceForKnowledge(sqlite, id),
                   M!ListKnowledgeEvidenceForKnowledge(memory, id),
                   P!ListKnowledgeEvidenceForKnowledge(postgres, id))
       /\ SameRows(S!ListKnowledgeEvidenceForCandidate(sqlite, id),
                   M!ListKnowledgeEvidenceForCandidate(memory, id),
                   P!ListKnowledgeEvidenceForCandidate(postgres, id))
       /\ Same(S!GetKnowledgeMemoryAuditsForKnowledge(sqlite, scope, id, None),
               M!GetKnowledgeMemoryAuditsForKnowledge(memory, scope, id, None),
               P!GetKnowledgeMemoryAuditsForKnowledge(postgres, scope, id, None))
  /\ \A limit \in {1, None} :
       Same(S!GetRecentKnowledgeMemoryAudits(sqlite, scope, limit),
            M!GetRecentKnowledgeMemoryAudits(memory, scope, limit),
            P!GetRecentKnowledgeMemoryAudits(postgres, scope, limit))

WorkItemReads(scope) ==
  /\ Same(S!GetActiveWorkItems(sqlite, scope), M!GetActiveWorkItems(memory, scope),
          P!GetActiveWorkItems(postgres, scope))
  /\ \A level \in Levels :
       Same(S!GetActiveWorkItemsCrossScope(sqlite, scope, level),
            M!GetActiveWorkItemsCrossScope(memory, scope, level),
            P!GetActiveWorkItemsCrossScope(postgres, scope, level))
  /\ \A range \in Ranges :
       /\ Same(S!GetWorkItemsByTimeRange(sqlite, scope, range),
               M!GetWorkItemsByTimeRange(memory, scope, range),
               P!GetWorkItemsByTimeRange(postgres, scope, range))
       /\ Same(S!GetWorkItemsByTimeRangeCrossScope(sqlite, scope, "system", range),
               M!GetWorkItemsByTimeRangeCrossScope(memory, scope, "system", range),
               P!GetWorkItemsByTimeRangeCrossScope(postgres, scope, "system", range))

LogReads(scope) ==
  /\ LET State(monitor) == IF monitor = None THEN None ELSE monitor.state
     IN  Same(State(S!GetContextMonitor(sqlite, scope)), State(M!GetContextMonitor(memory, scope)),
              State(P!GetContextMonitor(postgres, scope)))
  /\ \A limit \in {1, None} :
       Same(S!GetRecentCompactionLogs(sqlite, scope, limit),
            M!GetRecentCompactionLogs(memory, scope, limit),
            P!GetRecentCompactionLogs(postgres, scope, limit))

PlaybookReads(scope) ==
  /\ SameRows(S!GetActivePlaybooks(sqlite, scope), M!GetActivePlaybooks(memory, scope),
              P!GetActivePlaybooks(postgres, scope))
  /\ \A level \in Levels :
       Same(S!GetActivePlaybooksCrossScope(sqlite, scope, level),
            M!GetActivePlaybooksCrossScope(memory, scope, level),
            P!GetActivePlaybooksCrossScope(postgres, scope, level))
  /\ \A query \in Queries, active \in BOOLEAN :
       LET o == [activeOnly |-> active]
       IN  /\ SameRows(S!SearchPlaybooks(sqlite, scope, query, o),
                       M!SearchPlaybooks(memory, scope, query, o),
                       P!SearchPlaybooks(postgres, scope, query, o))
           /\ SameRows(S!SearchPlaybooksCrossScope(sqlite, scope, "tenant", query, o),
                       M!SearchPlaybooksCrossScope(memory, scope, "tenant", query, o),
                       P!SearchPlaybooksCrossScope(postgres, scope, "tenant", query, o))
  /\ SameRows(S!GetPlaybookRevisions(sqlite, 1), M!GetPlaybookRevisions(memory, 1),
              P!GetPlaybookRevisions(postgres, 1))

AssociationReads(scope) ==
  /\ SameRows(S!ListAssociations(sqlite, scope), M!ListAssociations(memory, scope),
              P!ListAssociations(postgres, scope))
  /\ \A id \in 1 .. 2 :
       /\ SameRows(S!GetAssociationsFrom(sqlite, id, scope), M!GetAssociationsFrom(memory, id, scope),
                   P!GetAssociationsFrom(postgres, id, scope))
       /\ SameRows(S!GetAssociationsTo(sqlite, id, scope), M!GetAssociationsTo(memory, id, scope),
                   P!GetAssociationsTo(postgres, id, scope))

OtherReads(scope) ==
  /\ \A session \in SessionIds :
       Same(S!GetSessionState(sqlite, scope, session), M!GetSessionState(memory, scope, session),
            P!GetSessionState(postgres, scope, session))
  /\ Same(S!GetSourceDocumentByHash(sqlite, "hash", scope),
          M!GetSourceDocumentByHash(memory, "hash", scope),
          P!GetSourceDocumentByHash(postgres, "hash", scope))
  /\ \A cursor \in {None, 2} :
       LET o == [limit |-> 1, cursor |-> cursor]
       IN  Same(S!ListSourceDocuments(sqlite, scope, o), M!ListSourceDocuments(memory, scope, o),
                P!ListSourceDocuments(postgres, scope, o))
  /\ Same(S!GetScopeConfig(sqlite, scope, "key"), M!GetScopeConfig(memory, scope, "key"),
          P!GetScopeConfig(postgres, scope, "key"))
  /\ Same(S!GetGovernanceState(sqlite, scope), M!GetGovernanceState(memory, scope),
          P!GetGovernanceState(postgres, scope))

EventReads(scope) ==
  /\ \A query \in EventQueries :
       Same(S!ListMemoryEvents(sqlite, scope, query), M!ListMemoryEvents(memory, scope, query),
            P!ListMemoryEvents(postgres, scope, query))
  /\ \A level \in Levels :
       Same(S!ListMemoryEventsCrossScope(sqlite, scope, level, [limit |-> 2]),
            M!ListMemoryEventsCrossScope(memory, scope, level, [limit |-> 2]),
            P!ListMemoryEventsCrossScope(postgres, scope, level, [limit |-> 2]))
  /\ \A session \in SessionIds :
       Same(S!GetMemoryEventsBySession(sqlite, scope, session, [limit |-> 2]),
            M!GetMemoryEventsBySession(memory, scope, session, [limit |-> 2]),
            P!GetMemoryEventsBySession(postgres, scope, session, [limit |-> 2]))
  /\ Same(S!GetMemoryEventsByEntity(sqlite, scope, focus, 1, [limit |-> 2]),
          M!GetMemoryEventsByEntity(memory, scope, focus, 1, [limit |-> 2]),
          P!GetMemoryEventsByEntity(postgres, scope, focus, 1, [limit |-> 2]))

(* Every read returns the same rows in every adapter, and in the same      *)
(* order where storage.ts declares one: within a scope and across scopes   *)
(* at each level, by session, time range, page, search and limit.  A row   *)
(* of another scope is returned only where its class lets the reader see   *)
(* it (P6), although each adapter has its own predicate for that.          *)
ReadsAgree ==
  \A scope \in Scopes :
    /\ EventReads(scope)
    /\ CASE focus = "turns" -> TurnReads(scope)
         [] focus = "working" -> WorkingMemoryReads(scope)
         [] focus = "knowledge" -> KnowledgeReads(scope)
         [] focus = "learning" -> LearningReads(scope)
         [] focus = "items" -> WorkItemReads(scope)
         [] focus = "logs" -> LogReads(scope)
         [] focus = "playbooks" -> PlaybookReads(scope)
         [] focus = "associations" -> AssociationReads(scope)
         [] OTHER -> OtherReads(scope)

RowsOf(st, scope) ==
  [tab \in R!Replayed |->
     LET mine == Where(st[tab], LAMBDA r : r.own = scope)
     IN  IF tab # "sessions" THEN [i \in mine |-> st[tab][i]]
         ELSE [session \in {st.sessions[i].session : i \in mine} |->
                 st.sessions[CHOOSE i \in mine : st.sessions[i].session = session]]]

Replayed(st, fetchPage) ==
  R!FoldTemporalState(st.events, R!AccumulateMemoryEvents(fetchPage), None)

SameIds(replayed, live) == Range(replayed) = Range(live)

(* The reads of the replay adapter, over the log of the scope (own) and    *)
(* over what the scope sees of its workspace's (wide).  The class of a     *)
(* work item may change, and who no longer sees it does not see that.      *)
ReplayReads(scope) ==
  LET own  == Replayed(memory, [cursor \in Nat |->
         M!ListMemoryEvents(memory, scope, [cursor |-> cursor, limit |-> 2])])
      wide == Replayed(memory, [cursor \in Nat |->
         M!ListMemoryEventsCrossScope(memory, scope, "workspace", [cursor |-> cursor, limit |-> 2])])
  IN
  CASE focus = "turns" ->
         \A session \in SessionIds :
           /\ R!GetActiveTurns(own, scope, session) = M!GetActiveTurns(memory, scope, session)
           /\ R!GetArchivedTurnRange(own, session, 1, 2, scope)
                = M!GetArchivedTurnRange(memory, session, 1, 2, scope)
           /\ \A query \in Queries, active \in BOOLEAN :
                SameIds(R!SearchTurns(own, scope, query, [activeOnly |-> active]),
                        M!SearchTurns(memory, scope, query, [activeOnly |-> active]))
    [] focus = "working" ->
         \A session \in SessionIds :
           /\ SameIds(R!GetActiveWorkingMemory(own, scope, session, now),
                      M!GetActiveWorkingMemory(memory, scope, session, now))
           /\ SameIds(R!GetLatestWorkingMemory(own, scope, session, now),
                      First(1, M!GetLatestWorkingMemory(memory, scope, session, now)))
    [] focus = "knowledge" ->
         /\ SameIds(R!GetActiveKnowledgeMemory(own, scope), M!GetActiveKnowledgeMemory(memory, scope))
         /\ SameIds(R!GetActiveKnowledgeCrossScope(wide, scope, "workspace"),
                    M!GetActiveKnowledgeCrossScope(memory, scope, "workspace"))
    [] focus = "items" ->
         /\ SameIds(R!GetActiveWorkItems(own, scope), M!GetActiveWorkItems(memory, scope))
         /\ SameIds(R!GetActiveWorkItemsCrossScope(own, scope, "scope"),
                    M!GetActiveWorkItemsCrossScope(memory, scope, "scope"))
    [] focus = "playbooks" ->
         SameIds(R!GetActivePlaybooksCrossScope(wide, scope, "workspace"),
                 M!GetActivePlaybooksCrossScope(memory, scope, "workspace"))
    [] focus = "associations" ->
         SameIds(R!ListAssociations(own, scope), M!ListAssociations(memory, scope))
    [] OTHER -> TRUE

(* Reading the log of a scope page by page and folding it gives back the   *)
(* rows of the scope, in every adapter: what a write changes is logged,    *)
(* and nothing else is (F4 and D1 of the temporal replay).  What the       *)
(* replay adapter then answers is what the live one does.                  *)
LogRebuildsRows ==
  \A scope \in Scopes :
    /\ RowsOf(sqlite, scope) = Replayed(sqlite, [cursor \in Nat |->
         S!ListMemoryEvents(sqlite, scope, [cursor |-> cursor, limit |-> 2])])
    /\ RowsOf(memory, scope) = Replayed(memory, [cursor \in Nat |->
         M!ListMemoryEvents(memory, scope, [cursor |-> cursor, limit |-> 2])])
    /\ RowsOf(postgres, scope) = Replayed(postgres, [cursor \in Nat |->
         P!ListMemoryEvents(postgres, scope, [cursor |-> cursor, limit |-> 2])])
    /\ ReplayReads(scope)
=============================================================================
