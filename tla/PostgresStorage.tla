--------------------------- MODULE PostgresStorage ---------------------------
(***************************************************************************)
(* The Postgres adapter as operators on a store, like SqliteStorage: one   *)
(* client, one call at a time.  PgStore and PgCoordination model what its  *)
(* transactions do to each other.                                          *)
(***************************************************************************)
EXTENDS StorageKernel

-----------------------------------------------------------------------------
(* Where clauses.                                                          *)

WideScopeWhere(own, scope, level) ==
  CASE level = "tenant"    -> own.tenant = scope.tenant
    [] level = "system"    -> own.tenant = scope.tenant /\ own.system = scope.system
    [] level = "workspace" -> own.tenant = scope.tenant /\ own.workspace = scope.workspace
    [] OTHER               -> own = scope

VisibilityWhere(class, own, scope) ==
  \/ class = "tenant"
  \/ class = "workspace" /\ own.workspace = scope.workspace
  \/ /\ class = "shared_collaboration"
     /\ own.workspace = scope.workspace
     /\ own.collab # NoCollaboration /\ own.collab = scope.collab
  \/ /\ class = "private" \/ class \notin {"tenant", "workspace", "shared_collaboration"}
     /\ own.system = scope.system /\ own.workspace = scope.workspace
     /\ own.collab = scope.collab /\ own.scope = scope.scope

WideAndVisible(row, scope, level) ==
  WideScopeWhere(row.own, scope, level) /\ VisibilityWhere(row.class, row.own, scope)

SessionClause(row, session) == session \in {None, ""} \/ row.session = session

(* The cursor where there is one, else the offset.                         *)
Page(ids, options) ==
  LET o == ResolvePaginationOptions(options)
      after == ById(IF o.cursor > 0 THEN {i \in ids : i > o.cursor} ELSE ids)
  IN  PageOf(IF o.cursor = 0 THEN SubSeq(after, o.offset + 1, Len(after)) ELSE after, o.limit)

GetExistingIds(st, tab, ids) == {i \in ids : Exists(st, tab, i)}

(* A batch that fails half-way is rolled back, but the ids it took from    *)
(* the sequence stay taken.                                                *)
RolledBack(st, tab, taken) == [st EXCEPT !.ids[tab] = @ + taken]

-----------------------------------------------------------------------------
(* Turns.                                                                  *)

NewTurn(in, now) ==
  [own |-> in.own, session |-> in.session, words |-> in.words,
   at |-> Given(in.at, now), archived |-> None, log |-> None]

NewTurns(inputs, now) == [k \in DOMAIN inputs |-> NewTurn(inputs[k], now)]

InsertTurn(st, in, now) == Created(st, "turns", NewTurn(in, now))

\* each turn in a transaction of its own
InsertTurns_bug(st, inputs, now) ==
  CreatedAll(st, "turns", NewTurns(BeforeFailure(inputs), now))

InsertTurns(st, inputs, now) ==
  IF AllValid(inputs) THEN CreatedAll(st, "turns", NewTurns(inputs, now))
  ELSE RolledBack(st, "turns", Len(BeforeFailure(inputs)))

GetActiveTurns(st, scope, session) ==
  ById(Where(st.turns, LAMBDA r : r.own = scope /\ r.archived = None /\ SessionClause(r, session)))

GetActiveTurnsPaginated(st, scope, options) ==
  Page(Where(st.turns, LAMBDA r : r.own = scope /\ r.archived = None), options)

GetTurnsByTimeRange(st, scope, range) ==
  ByCreatedAtThenId(st.turns, Where(st.turns, LAMBDA r : r.own = scope /\ InRange(r.at, range)))

SearchTurns(st, scope, query, options) ==
  LET o == ResolveSearchOptions(options)
  IN  First(o.limit, BestFirst(st.turns, Where(st.turns, LAMBDA r :
        /\ r.own = scope
        /\ o.activeOnly => r.archived = None
        /\ ScoreLexical(query, r) > 0),
        LAMBDA r : ScoreLexical(query, r), LAMBDA r : r.at))

ArchiveTurn(st, id, archivedAt, log) ==
  IF ~Exists(st, "turns", id) THEN st
  ELSE Edited(st, "turns", id, "archived",
              [st.turns[id] EXCEPT !.archived = archivedAt, !.log = log], archivedAt)

GetArchivedTurnRange(st, session, start, end, scope) ==
  ById({i \in Where(st.turns, LAMBDA r :
          r.session = session /\ r.archived # None /\ r.own = scope) : start <= i /\ i <= end})

-----------------------------------------------------------------------------
(* Working memory: rows have a status, and no expiry until one is set.     *)

InsertWorkingMemory(st, in, now) ==
  Created(st, "working",
          [own |-> in.own, session |-> in.session, at |-> now,
           expires |-> None, promoted |-> None])

GetWorkingMemoryBySession(st, session, scope) ==
  ByCreatedAtThenId(st.working,
    Where(st.working, LAMBDA r : r.session = session /\ r.own = scope))

(* status = 'active': expireWorkingMemory sets the status with expires_at. *)
GetActiveWorkingMemory(st, scope, session, now) ==
  ByIdDesc(Where(st.working, LAMBDA r :
    r.own = scope /\ r.expires = None /\ SessionClause(r, session)))

GetLatestWorkingMemory(st, scope, session, now) ==
  First(1, GetActiveWorkingMemory(st, scope, session, now))

GetWorkingMemoryByTimeRange(st, scope, range) ==
  ByCreatedAtThenId(st.working,
    Where(st.working, LAMBDA r : r.own = scope /\ InRange(r.at, range)))

ExpireWorkingMemory(st, id, now) ==
  IF ~Exists(st, "working", id) THEN st
  ELSE Edited(st, "working", id, "expired", [st.working[id] EXCEPT !.expires = now], now)

MarkWorkingMemoryPromoted(st, id, knowledge, now) ==
  IF ~Exists(st, "working", id) THEN st
  ELSE Edited(st, "working", id, "promoted",
              [st.working[id] EXCEPT !.promoted = knowledge], now)

-----------------------------------------------------------------------------
(* Knowledge.                                                              *)

ActiveKnowledge(r) == r.supersededBy = None /\ r.retired = None

NewKnowledge(in, now) ==
  LET at == Given(in.at, now)
  IN  [own |-> in.own, class |-> Given(in.class, "private"), words |-> in.words,
       state |-> Given(in.state, "trusted"), kclass |-> Given(in.kclass, "project_fact"),
       trust |-> in.trust, tags |-> in.tags, superseded |-> None, supersededBy |-> None,
       retired |-> None, at |-> at, touched |-> at, uses |-> 1]

NewKnowledges(inputs, now) == [k \in DOMAIN inputs |-> NewKnowledge(inputs[k], now)]

InsertKnowledgeMemory(st, in, now) == Created(st, "knowledge", NewKnowledge(in, now))

InsertKnowledgeMemories(st, inputs, now) ==
  IF AllValid(inputs) THEN CreatedAll(st, "knowledge", NewKnowledges(inputs, now))
  ELSE RolledBack(st, "knowledge", Len(BeforeFailure(inputs)))

GetActiveKnowledgeMemory(st, scope) ==
  LatestFirst(st.knowledge, Where(st.knowledge, LAMBDA r : r.own = scope /\ ActiveKnowledge(r)),
              "touched")

GetActiveKnowledgeMemoryPaginated(st, scope, options) ==
  Page(Where(st.knowledge, LAMBDA r : r.own = scope /\ ActiveKnowledge(r)), options)

GetActiveKnowledgeCrossScope(st, scope, level) ==
  ByCreatedAtThenId(st.knowledge,
    Where(st.knowledge, LAMBDA r : WideAndVisible(r, scope, level) /\ ActiveKnowledge(r)))

GetKnowledgeSince(st, scope, level, since) ==
  ByCreatedAtThenId(st.knowledge, Where(st.knowledge, LAMBDA r :
    WideAndVisible(r, scope, level) /\ r.at >= since /\ ActiveKnowledge(r)))

GetKnowledgeByTimeRange(st, scope, range) ==
  ByCreatedAtThenId(st.knowledge,
    Where(st.knowledge, LAMBDA r : r.own = scope /\ InRange(r.at, range)))

KnowledgeSearchFilterClauses(r, o) ==
  /\ ~o.includeProvisional => r.state # "provisional"
  /\ ~o.includeDisputed => r.state # "disputed"
  /\ o.minimumTrust > 0 => r.trust >= o.minimumTrust
  /\ o.states # {} => r.state \in o.states
  /\ o.classes # {} => r.kclass \in o.classes
  /\ o.tags # {} => o.tags \cap r.tags # {}

Found(st, query, o, reach) ==
  First(o.limit, BestFirst(st.knowledge, reach \cap Where(st.knowledge, LAMBDA r :
    /\ o.activeOnly => ActiveKnowledge(r)
    /\ KnowledgeSearchFilterClauses(r, o)
    /\ ScoreLexical(query, r) > 0),
    LAMBDA r : ScoreLexical(query, r), LAMBDA r : r.touched))

SearchKnowledge(st, scope, query, options) ==
  Found(st, query, ResolveSearchOptions(options), Where(st.knowledge, LAMBDA r : r.own = scope))

SearchKnowledgeCrossScope(st, scope, level, query, options) ==
  Found(st, query, ResolveSearchOptions(options),
        Where(st.knowledge, LAMBDA r : WideAndVisible(r, scope, level)))

UpdateKnowledgeMemory(st, id, patch, now) ==
  IF DOMAIN patch = {} \/ ~Exists(st, "knowledge", id) THEN st
  ELSE Edited(st, "knowledge", id, "updated", With(patch, st.knowledge[id]), now)

Touched(row, now) == [row EXCEPT !.touched = now, !.uses = @ + 1]

TouchKnowledgeMemory(st, id, now) ==
  IF ~Exists(st, "knowledge", id) THEN st
  ELSE Edited(st, "knowledge", id, "touched", Touched(st.knowledge[id], now), now)

(* All of these rows, and their events in this order.                      *)
TouchedAll(st, ids, now) ==
  LET after == [i \in Range(ids) |-> Touched(st.knowledge[i], now)]
  IN  LoggedAll([st EXCEPT !.knowledge = With(after, @)],
                [k \in DOMAIN ids |->
                   Event("knowledge", ids[k], "touched", st.knowledge[ids[k]], after[ids[k]], now)])

TouchKnowledgeMemories(st, ids, now) ==
  TouchedAll(st, ById(GetExistingIds(st, "knowledge", Range(ids))), now)

RetireKnowledgeMemory(st, id, retiredAt) ==
  IF ~Exists(st, "knowledge", id) THEN st
  ELSE Edited(st, "knowledge", id, "retired",
              [st.knowledge[id] EXCEPT !.retired = retiredAt], retiredAt)

(* A superseded row is retired as well.                                    *)
SupersedeKnowledgeMemory(st, old, new, now) ==
  IF ~Exists(st, "knowledge", old) THEN st
  ELSE Edited(st, "knowledge", old, "superseded",
              [st.knowledge[old] EXCEPT !.supersededBy = new, !.superseded = now,
                                        !.state = "superseded", !.retired = now], now)

-----------------------------------------------------------------------------
(* Candidates, evidence and audits.                                        *)

NewCandidate(in, now) ==
  [own |-> in.own, state |-> Given(in.state, "candidate"), at |-> Given(in.at, now),
   promoted |-> None]

NewCandidates(inputs, now) == [k \in DOMAIN inputs |-> NewCandidate(inputs[k], now)]

InsertKnowledgeCandidate(st, in, now) == Created(st, "candidates", NewCandidate(in, now))

InsertKnowledgeCandidates(st, inputs, now) ==
  IF AllValid(inputs) THEN CreatedAll(st, "candidates", NewCandidates(inputs, now))
  ELSE RolledBack(st, "candidates", Len(BeforeFailure(inputs)))

ListKnowledgeCandidates(st, scope, states) ==
  LatestFirst(st.candidates, Where(st.candidates, LAMBDA r :
    r.own = scope /\ (states = None \/ r.state \in states)), "at")

NewEvidence(in, now) ==
  [own |-> in.own, knowledge |-> in.knowledge, candidate |-> in.candidate,
   at |-> Given(in.at, now)]

NewEvidences(inputs, now) == [k \in DOMAIN inputs |-> NewEvidence(inputs[k], now)]

InsertKnowledgeEvidence(st, in, now) == Added(st, "evidence", NewEvidence(in, now))

InsertKnowledgeEvidenceBatch(st, inputs, now) ==
  IF AllValid(inputs) THEN AddedAll(st, "evidence", NewEvidences(inputs, now))
  ELSE RolledBack(st, "evidence", Len(BeforeFailure(inputs)))

ListKnowledgeEvidenceForKnowledge(st, id) ==
  LatestFirst(st.evidence, Where(st.evidence, LAMBDA r : r.knowledge = id), "at")

ListKnowledgeEvidenceForCandidate(st, id) ==
  LatestFirst(st.evidence, Where(st.evidence, LAMBDA r : r.candidate = id), "at")

PromoteKnowledgeCandidate(st, id, in, now) ==
  IF ~in.valid THEN st
  ELSE LET knowledge == NewId(st, "knowledge")
           inserted == InsertKnowledgeMemory(st, in, now)
       IN  IF ~Exists(st, "candidates", id) THEN inserted
           ELSE Edited(inserted, "candidates", id, "promoted",
                  [st.candidates[id] EXCEPT !.promoted = knowledge, !.state = "provisional"], now)

DeleteExpiredKnowledgeCandidates(st, scope, olderThan, now) ==
  LET expired == Where(st.candidates, LAMBDA r :
                   r.own = scope /\ r.promoted = None /\ r.at < olderThan)
      gone == ById(expired)
  IN  LoggedAll(Removed(st, "candidates", expired),
                [k \in DOMAIN gone |->
                   Event("candidates", gone[k], "expired", st.candidates[gone[k]], None, now)])

(* The created_at of the input is not kept.                                *)
InsertKnowledgeMemoryAudit(st, in, now) ==
  Added(st, "audits", [own |-> in.own, created |-> in.created, related |-> in.related,
                       at |-> now])

GetRecentKnowledgeMemoryAudits(st, scope, limit) ==
  First(Given(limit, 20), ByIdDesc(Where(st.audits, LAMBDA r : r.own = scope)))

GetKnowledgeMemoryAuditsForKnowledge(st, scope, id, limit) ==
  First(Given(limit, 20), ByIdDesc(Where(st.audits, LAMBDA r :
    r.own = scope /\ (r.created = id \/ r.related = id))))

-----------------------------------------------------------------------------
(* Work items.  Claims and handoffs, and races on an item, are in         *)
(* PgCoordination.                                                         *)

InsertWorkItem(st, in, now) ==
  LET row == [own |-> in.own, class |-> Given(in.class, "private"), session |-> in.session,
              status |-> Given(in.status, "open"), version |-> 1,
              at |-> Given(in.at, now), updated |-> Given(in.at, now)]
  IN  Created(st, "items", row)

GetActiveWorkItems(st, scope) ==
  ByCreatedAtThenId(st.items, Where(st.items, LAMBDA r : r.own = scope /\ r.status # "done"))

GetActiveWorkItemsCrossScope(st, scope, level) ==
  ByCreatedAtThenId(st.items,
    Where(st.items, LAMBDA r : WideAndVisible(r, scope, level) /\ r.status # "done"))

GetWorkItemsByTimeRange(st, scope, range) ==
  ByCreatedAtThenId(st.items,
    Where(st.items, LAMBDA r : r.own = scope /\ InRange(r.at, range)))

GetWorkItemsByTimeRangeCrossScope(st, scope, level, range) ==
  ByCreatedAtThenId(st.items, Where(st.items, LAMBDA r :
    WideAndVisible(r, scope, level) /\ InRange(r.at, range)))

UpdateWorkItemStatus(st, id, status, now) ==
  IF ~Exists(st, "items", id) THEN st
  ELSE Edited(st, "items", id, "status_changed",
              [st.items[id] EXCEPT !.status = status, !.updated = now, !.version = @ + 1], now)

(* Versioned; with no version expected, any will do.                       *)
UpdateWorkItem(st, id, patch, expected, now) ==
  IF ~Exists(st, "items", id) \/ expected \notin {None, st.items[id].version} THEN st
  ELSE Edited(st, "items", id,
              IF DOMAIN patch = {"class"} THEN "visibility_changed" ELSE "updated",
              [With(patch, st.items[id]) EXCEPT !.updated = now, !.version = @ + 1], now)

DeleteWorkItem(st, id, now) ==
  IF ~Exists(st, "items", id) THEN st ELSE Deleted(st, "items", id, "deleted", now)

-----------------------------------------------------------------------------
(* Monitors, one a scope, and compaction logs: not in the event log.       *)

(* COALESCE keeps the last time where the input has none.                  *)
UpsertContextMonitor(st, in, now) ==
  LET mine == Where(st.monitors, LAMBDA r : MatchesScope(r.own, in.own))
      row == [own |-> in.own, state |-> in.state, compacted |-> 
               IF in.compacted = None /\ mine # {} THEN st.monitors[TheOne(mine)].compacted
               ELSE in.compacted, at |-> now]
  IN  Put(st, "monitors", mine, row)

GetContextMonitor(st, scope) ==
  LET id == TheOne(Where(st.monitors, LAMBDA r : r.own = scope))
  IN  IF id = None THEN None ELSE st.monitors[id]

InsertCompactionLog(st, in, now) ==
  Added(st, "compactions", [own |-> in.own, session |-> in.session, at |-> Given(in.at, now)])

GetRecentCompactionLogs(st, scope, limit) ==
  First(Given(limit, 10), ByIdDesc(Where(st.compactions, LAMBDA r : r.own = scope)))

-----------------------------------------------------------------------------
(* Playbooks and their revisions.                                          *)

InsertPlaybook(st, in, now) ==
  LET row == [own |-> in.own, class |-> Given(in.class, "private"), words |-> in.words,
              status |-> Given(in.status, "draft"), session |-> in.session, revisions |-> 0,
              usedAt |-> None, uses |-> 0, at |-> Given(in.at, now), updated |-> Given(in.at, now)]
  IN  Created(st, "playbooks", row)

InUse(r) == r.status \in {"draft", "active"}

GetActivePlaybooks(st, scope) ==
  ByIdDesc(Where(st.playbooks, LAMBDA r : r.own = scope /\ InUse(r)))

GetActivePlaybooksCrossScope(st, scope, level) ==
  ByCreatedAtThenId(st.playbooks,
    Where(st.playbooks, LAMBDA r : WideAndVisible(r, scope, level) /\ InUse(r)))

(* A playbook matches a query when it has all of its words.                *)
PlaybooksFound(st, query, options, reach) ==
  LET o == options @@ [limit |-> 20, activeOnly |-> TRUE]
  IN  IF query = {} THEN <<>>
      ELSE First(o.limit, BestFirst(st.playbooks, reach \cap
              Where(st.playbooks, LAMBDA r :
             /\ query \subseteq r.words
             /\ o.activeOnly => r.status \notin {"archived", "deprecated"}),
             LAMBDA r : ScoreLexical(query, r), LAMBDA r : 0))

SearchPlaybooks(st, scope, query, options) ==
  PlaybooksFound(st, query, options, Where(st.playbooks, LAMBDA r : r.own = scope))

SearchPlaybooksCrossScope(st, scope, level, query, options) ==
  PlaybooksFound(st, query, options,
        Where(st.playbooks, LAMBDA r : WideAndVisible(r, scope, level)))

UpdatePlaybook(st, id, patch, now) ==
  IF DOMAIN patch = {} \/ ~Exists(st, "playbooks", id) THEN st
  ELSE Edited(st, "playbooks", id, "updated",
              [With(patch, st.playbooks[id]) EXCEPT !.updated = now], now)

RecordPlaybookUse(st, id, now) ==
  IF ~Exists(st, "playbooks", id) THEN st
  ELSE Edited(st, "playbooks", id, "used",
              [st.playbooks[id] EXCEPT !.uses = @ + 1, !.usedAt = now], now)

(* A revision also changes its playbook, and replay reads playbooks only:  *)
(* two events.  The update of the playbook carries no `before'.            *)
InsertPlaybookRevision(st, in, now) ==
  IF ~Exists(st, "playbooks", in.playbook) THEN st
  ELSE LET at == Given(in.at, now)
           book == [st.playbooks[in.playbook] EXCEPT !.revisions = @ + 1, !.updated = at]
           revision == [own |-> book.own, playbook |-> in.playbook, session |-> in.session,
                        at |-> at]
           written == Changed(Added(st, "revisions", revision), "playbooks", in.playbook, book)
           revised == Logged(written, "revisions", NewId(st, "revisions"), "revised",
                             None, revision, at)
       IN  Logged(revised, "playbooks", in.playbook, "updated", None, book, at)

(* created_at DESC; SQL leaves ties open, here they keep the order of ids.  *)
GetPlaybookRevisions(st, id) ==
  BestFirst(st.revisions, Where(st.revisions, LAMBDA r : r.playbook = id),
            LAMBDA r : r.at, LAMBDA r : 0)

-----------------------------------------------------------------------------
(* Associations: one for two ends and a type, whatever the scope.          *)

(* A refused insert has taken its id from the sequence.                    *)
InsertAssociation(st, in, now) ==
  LET row == [own |-> in.own, class |-> Given(in.class, "private"), source |-> in.source,
              target |-> in.target, type |-> in.type, at |-> Given(in.at, now)]
      same == Where(st.associations, LAMBDA r :
                r.source = in.source /\ r.target = in.target /\ r.type = in.type)
  IN  IF same # {} THEN RolledBack(st, "associations", 1)
      ELSE Created(st, "associations", row)

GetAssociationsFrom(st, source, scope) ==
  ByIdDesc(Where(st.associations, LAMBDA r : r.source = source /\ r.own = scope))

GetAssociationsTo(st, target, scope) ==
  ByIdDesc(Where(st.associations, LAMBDA r : r.target = target /\ r.own = scope))

ListAssociations(st, scope) ==
  ByIdDesc(Where(st.associations, LAMBDA r : r.own = scope))

DeleteAssociation(st, id, now) ==
  IF ~Exists(st, "associations", id) THEN st
  ELSE Deleted(st, "associations", id, "deleted", now)

-----------------------------------------------------------------------------
(* The event log and what is read from it.  EventFeed has its watermark.   *)

(* The class is that of `after', else that of `before'.                    *)
EventVisibilityWhere(e, scope) ==
  VisibilityWhere(Given(SnapshotClass(e.after), SnapshotClass(e.before)), e.own, scope)

Timeline(st, query, reach) ==
  LET q == ResolveEventQuery(query)
      ids == {i \in reach : EventMatches(st.events[i], i, q)}
  IN  PageOf(ById(ids), q.limit)

ListMemoryEvents(st, scope, query) ==
  Timeline(st, query, Where(st.events, LAMBDA e : e.own = scope))

ListMemoryEventsCrossScope(st, scope, level, query) ==
  Timeline(st, query, Where(st.events, LAMBDA e :
    WideScopeWhere(e.own, scope, level) /\ EventVisibilityWhere(e, scope)))

GetMemoryEventsByEntity(st, scope, kind, id, query) ==
  ListMemoryEvents(st, scope, [kind |-> kind, id |-> id] @@ query)

GetMemoryEventsBySession(st, scope, session, query) ==
  ListMemoryEvents(st, scope, [session |-> session] @@ query)

(* The state of a session is replaced as a whole, and logged without what  *)
(* it was; its event is named after the session.                           *)
UpsertSessionState(st, in) ==
  LET row == [own |-> in.own, session |-> in.session, state |-> in.state, at |-> in.at]
      mine == Where(st.sessions, LAMBDA r :
                MatchesScope(r.own, in.own) /\ r.session = in.session)
  IN  Logged(Put(st, "sessions", mine, row), "sessions", in.session, "updated", None, row, in.at)

GetSessionState(st, scope, session) ==
  LET id == TheOne(Where(st.sessions, LAMBDA r : r.own = scope /\ r.session = session))
  IN  IF id = None THEN None ELSE st.sessions[id]

-----------------------------------------------------------------------------
(* Source documents.                                                       *)

InsertSourceDocument(st, in, now) ==
  Created(st, "documents", [own |-> in.own, hash |-> in.hash,
                            status |-> Given(in.status, "pending"), at |-> now])

(* Any document of that hash, where there are several.                     *)
GetSourceDocumentByHash(st, hash, scope) ==
  Where(st.documents, LAMBDA r : r.hash = hash /\ r.own = scope)

ListSourceDocuments(st, scope, options) ==
  LET o == options @@ [limit |-> 50, cursor |-> None]
  IN  PageOf(ByIdDesc({i \in Where(st.documents, LAMBDA r : r.own = scope) :
                         o.cursor # None => i < o.cursor}), o.limit)

UpdateSourceDocument(st, id, patch, now) ==
  IF DOMAIN patch = {} \/ ~Exists(st, "documents", id) THEN st
  ELSE Edited(st, "documents", id, "updated", With(patch, st.documents[id]), now)

-----------------------------------------------------------------------------
(* Configuration of a scope, and its governance.                           *)

SetScopeConfig(st, scope, key, value, now) ==
  LET mine == Where(st.configs, LAMBDA r : r.own = scope /\ r.key = key)
      at == IF mine = {} THEN now ELSE st.configs[TheOne(mine)].at
  IN  Put(st, "configs", mine,
          [own |-> scope, key |-> key, value |-> value, at |-> at, updated |-> now])

GetScopeConfig(st, scope, key) ==
  LET id == TheOne(Where(st.configs, LAMBDA r : r.own = scope /\ r.key = key))
  IN  IF id = None THEN None ELSE st.configs[id].value

(* One row a contract, invariant or policy; deleted ones stay as tombstones. *)
Governed(st, scope, part, name) ==
  Where(st.governance, LAMBDA r : r.own = scope /\ r.part = part /\ r.name = name)

Govern(st, scope, part, name, value, after, now) ==
  LET row == [own |-> scope, part |-> part, name |-> name, value |-> value]
      put == Put(st, "governance", Governed(st, scope, part, name), row)
  IN  LoggedAll(put,
        <<[kind |-> part, id |-> name, type |-> IF value = None THEN "deleted" ELSE "set",
           own |-> scope, session |-> None, before |-> None, after |-> after, at |-> now]>>)

(* Clearing the default contract is kept, and logged with what is now so.  *)
UpsertDefaultContextContract(st, scope, contract, now) ==
  Govern(st, scope, "context_contract", "__default__", contract, [value |-> contract], now)

UpsertNamedContextContract(st, scope, name, contract, now) ==
  Govern(st, scope, "context_contract", name, contract, [value |-> contract], now)

(* A name that was never set is deleted all the same.                      *)
DeleteNamedContextContract(st, scope, name, now) ==
  Govern(st, scope, "context_contract", name, None, None, now)

UpsertContextInvariant(st, scope, id, invariant, now) ==
  Govern(st, scope, "context_invariant", id, invariant, [value |-> invariant], now)

DeleteContextInvariant(st, scope, id, now) ==
  Govern(st, scope, "context_invariant", id, None, None, now)

UpsertContextEscalationPolicy(st, scope, policy, now) ==
  Govern(st, scope, "context_escalation_policy", "__policy__", policy, [value |-> policy], now)

(* Null where nothing was ever written for the scope.                      *)
GetGovernanceState(st, scope) ==
  LET rows == {st.governance[i] : i \in Where(st.governance, LAMBDA r : r.own = scope)}
  IN  IF rows = {} THEN None
      ELSE [kept |-> {[part |-> r.part, name |-> r.name, value |-> r.value] :
                        r \in {r \in rows : r.value # None}},
            deleted |-> {[part |-> r.part, name |-> r.name] :
                           r \in {r \in rows : r.value = None}}]

=============================================================================
