---------------------------- MODULE MemoryStorage ----------------------------
(***************************************************************************)
(* The in-memory adapter as operators on a store, like SqliteStorage.  Its *)
(* arrays grow at the end, so that a filter returns rows in the order of   *)
(* their ids.                                                              *)
(***************************************************************************)
EXTENDS StorageKernel

-----------------------------------------------------------------------------
(* Helpers.                                                                *)

MatchesScopedSession(row, scope, session) ==
  MatchesScope(row.own, scope) /\ session \in {None, row.session}

PaginateItems(ids, options) ==
  LET o == ResolvePaginationOptions(options)
      ordered == ById(ids)
  IN  PageOf(IF o.cursor > 0 THEN SelectSeq(ordered, LAMBDA i : i > o.cursor)
             ELSE SubSeq(ordered, o.offset + 1, Len(ordered)), o.limit)

FilterExistingIds(st, tab, ids) == ids \cap DOMAIN st[tab]

-----------------------------------------------------------------------------
(* Turns.                                                                  *)

NewTurn(in, now) ==
  [own |-> in.own, session |-> in.session, words |-> in.words,
   at |-> Given(in.at, now), archived |-> None, log |-> None]

NewTurns(inputs, now) == [k \in DOMAIN inputs |-> NewTurn(inputs[k], now)]

InsertTurn(st, in, now) == Created(st, "turns", NewTurn(in, now))

InsertTurns(st, inputs, now) ==
  IF AllValid(inputs) THEN CreatedAll(st, "turns", NewTurns(inputs, now)) ELSE st

GetActiveTurns(st, scope, session) ==
  ById(Where(st.turns, LAMBDA r : MatchesScopedSession(r, scope, session) /\ r.archived = None))

GetActiveTurnsPaginated(st, scope, options) ==
  PaginateItems(Where(st.turns, LAMBDA r : MatchesScope(r.own, scope) /\ r.archived = None),
                options)

GetTurnsByTimeRange(st, scope, range) ==
  ByCreatedAtThenId(st.turns,
    Where(st.turns, LAMBDA r : MatchesScope(r.own, scope) /\ InRange(r.at, range)))

SearchTurns(st, scope, query, options) ==
  LET o == ResolveSearchOptions(options)
  IN  First(o.limit, BestFirst(st.turns, Where(st.turns, LAMBDA r :
        /\ MatchesScope(r.own, scope)
        /\ o.activeOnly => r.archived = None
        /\ ScoreLexical(query, r) > 0),
        LAMBDA r : ScoreLexical(query, r), LAMBDA r : r.at))

(* An archived turn is archived again, and logged again.                   *)
ArchiveTurn(st, id, archivedAt, log) ==
  IF ~Exists(st, "turns", id) THEN st
  ELSE Edited(st, "turns", id, "archived",
              [st.turns[id] EXCEPT !.archived = archivedAt, !.log = log], archivedAt)

GetArchivedTurnRange(st, session, start, end, scope) ==
  ById({i \in Where(st.turns, LAMBDA r :
          r.session = session /\ r.archived # None /\ MatchesScope(r.own, scope)) :
            start <= i /\ i <= end})

-----------------------------------------------------------------------------
(* Working memory.                                                         *)

InsertWorkingMemory(st, in, now) ==
  Created(st, "working",
          [own |-> in.own, session |-> in.session, at |-> now,
           expires |-> Given(in.expires, now + WorkingTtl), promoted |-> None])

GetWorkingMemoryBySession(st, session, scope) ==
  ByCreatedAtThenId(st.working,
    Where(st.working, LAMBDA r : r.session = session /\ MatchesScope(r.own, scope)))

GetActiveWorkingMemory(st, scope, session, now) ==
  ById(Where(st.working, LAMBDA r :
    MatchesScopedSession(r, scope, session) /\ (r.expires = None \/ r.expires > now)))

GetLatestWorkingMemory(st, scope, session, now) ==
  First(1, Reverse(GetActiveWorkingMemory(st, scope, session, now)))

GetWorkingMemoryByTimeRange(st, scope, range) ==
  ByCreatedAtThenId(st.working,
    Where(st.working, LAMBDA r : MatchesScope(r.own, scope) /\ InRange(r.at, range)))

ExpireWorkingMemory(st, id, now) ==
  IF ~Exists(st, "working", id) THEN st
  ELSE Edited(st, "working", id, "expired", [st.working[id] EXCEPT !.expires = now], now)

MarkWorkingMemoryPromoted(st, id, knowledge, now) ==
  IF ~Exists(st, "working", id) THEN st
  ELSE Edited(st, "working", id, "promoted",
              [st.working[id] EXCEPT !.promoted = knowledge], now)

-----------------------------------------------------------------------------
(* Knowledge.                                                              *)

ActiveKnowledge(r) == r.supersededBy = None /\ r.retired = None

NewKnowledge(in, now) ==
  LET at == Given(in.at, now)
  IN  [own |-> in.own, class |-> Given(in.class, "private"), words |-> in.words,
       state |-> Given(in.state, "trusted"), kclass |-> Given(in.kclass, "project_fact"),
       trust |-> in.trust, tags |-> in.tags, superseded |-> None, supersededBy |-> None,
       retired |-> None, at |-> at, touched |-> at, uses |-> 1]

NewKnowledges(inputs, now) == [k \in DOMAIN inputs |-> NewKnowledge(inputs[k], now)]

InsertKnowledgeMemory(st, in, now) == Created(st, "knowledge", NewKnowledge(in, now))

InsertKnowledgeMemories(st, inputs, now) ==
  IF AllValid(inputs) THEN CreatedAll(st, "knowledge", NewKnowledges(inputs, now)) ELSE st

GetActiveKnowledgeMemory(st, scope) ==
  ById(Where(st.knowledge, LAMBDA r : MatchesScope(r.own, scope) /\ ActiveKnowledge(r)))

GetActiveKnowledgeMemoryPaginated(st, scope, options) ==
  PaginateItems(Where(st.knowledge, LAMBDA r :
    MatchesScope(r.own, scope) /\ ActiveKnowledge(r)), options)

GetActiveKnowledgeCrossScope(st, scope, level) ==
  ByCreatedAtThenId(st.knowledge,

            Where(st.knowledge, LAMBDA r : CrossScopeVisible(r, scope, level) /\ ActiveKnowledge(r)))

GetKnowledgeSince(st, scope, level, since) ==
  ByCreatedAtThenId(st.knowledge, Where(st.knowledge, LAMBDA r :
    CrossScopeVisible(r, scope, level) /\ r.at >= since /\ ActiveKnowledge(r)))

GetKnowledgeByTimeRange(st, scope, range) ==
  ByCreatedAtThenId(st.knowledge,
    Where(st.knowledge, LAMBDA r : MatchesScope(r.own, scope) /\ InRange(r.at, range)))

Found(st, query, o, reach) ==
  First(o.limit, BestFirst(st.knowledge, reach \cap Where(st.knowledge, LAMBDA r :
    /\ o.activeOnly => ActiveKnowledge(r)
    /\ MatchesKnowledgeSearchOptions(r, o)
    /\ ScoreLexical(query, r) > 0),
    LAMBDA r : ScoreLexical(query, r), LAMBDA r : r.touched))

SearchKnowledge(st, scope, query, options) ==
  Found(st, query, ResolveSearchOptions(options),
        Where(st.knowledge, LAMBDA r : MatchesScope(r.own, scope)))

SearchKnowledgeCrossScope(st, scope, level, query, options) ==
  Found(st, query, ResolveSearchOptions(options),
        Where(st.knowledge, LAMBDA r : CrossScopeVisible(r, scope, level)))

(* A patch without a known field writes nothing, and is logged.            *)
UpdateKnowledgeMemory(st, id, patch, now) ==
  IF ~Exists(st, "knowledge", id) THEN st
  ELSE Edited(st, "knowledge", id, "updated", With(patch, st.knowledge[id]), now)

Touched(row, now) == [row EXCEPT !.touched = now, !.uses = @ + 1]

TouchKnowledgeMemory(st, id, now) ==
  IF ~Exists(st, "knowledge", id) THEN st
  ELSE Edited(st, "knowledge", id, "touched", Touched(st.knowledge[id], now), now)

(* All of these rows, and their events in this order.                      *)
TouchedAll(st, ids, now) ==
  LET after == [i \in Range(ids) |-> Touched(st.knowledge[i], now)]
  IN  LoggedAll([st EXCEPT !.knowledge = With(after, @)],
                [k \in DOMAIN ids |->
                   Event("knowledge", ids[k], "touched", st.knowledge[ids[k]], after[ids[k]], now)])

(* One call after the other, in the order asked for, each id once.         *)
TouchKnowledgeMemories(st, ids, now) ==
  TouchedAll(st, Ordered(FilterExistingIds(st, "knowledge", Range(ids)), LAMBDA i, j :
    \E k \in DOMAIN ids : ids[k] = i /\ \A l \in 1 .. k : ids[l] # j), now)

RetireKnowledgeMemory(st, id, retiredAt) ==
  IF ~Exists(st, "knowledge", id) THEN st
  ELSE Edited(st, "knowledge", id, "retired",
              [st.knowledge[id] EXCEPT !.retired = retiredAt], retiredAt)

SupersedeKnowledgeMemory(st, old, new, now) ==
  IF ~Exists(st, "knowledge", old) THEN st
  ELSE Edited(st, "knowledge", old, "superseded",
              [st.knowledge[old] EXCEPT !.supersededBy = new, !.superseded = now,
                                        !.state = "superseded"], now)

-----------------------------------------------------------------------------
(* Candidates, evidence and audits.  Batches are not transactions.         *)

NewCandidate(in, now) ==
  [own |-> in.own, state |-> Given(in.state, "candidate"), at |-> Given(in.at, now),
   promoted |-> None]

NewCandidates(inputs, now) == [k \in DOMAIN inputs |-> NewCandidate(inputs[k], now)]

InsertKnowledgeCandidate(st, in, now) == Created(st, "candidates", NewCandidate(in, now))

InsertKnowledgeCandidates(st, inputs, now) ==
  CreatedAll(st, "candidates", NewCandidates(BeforeFailure(inputs), now))

ListKnowledgeCandidates(st, scope, states) ==
  ById(Where(st.candidates, LAMBDA r :
    MatchesScope(r.own, scope) /\ (states = None \/ r.state \in states)))

NewEvidence(in, now) ==
  [own |-> in.own, knowledge |-> in.knowledge, candidate |-> in.candidate,
   at |-> Given(in.at, now)]

NewEvidences(inputs, now) == [k \in DOMAIN inputs |-> NewEvidence(inputs[k], now)]

InsertKnowledgeEvidence(st, in, now) == Added(st, "evidence", NewEvidence(in, now))

InsertKnowledgeEvidenceBatch(st, inputs, now) ==
  AddedAll(st, "evidence", NewEvidences(BeforeFailure(inputs), now))

ListKnowledgeEvidenceForKnowledge(st, id) ==
  ById(Where(st.evidence, LAMBDA r : r.knowledge = id))

ListKnowledgeEvidenceForCandidate(st, id) ==
  ById(Where(st.evidence, LAMBDA r : r.candidate = id))

PromoteKnowledgeCandidate(st, id, in, now) ==
  IF ~in.valid THEN st
  ELSE LET knowledge == NewId(st, "knowledge")
           inserted == InsertKnowledgeMemory(st, in, now)
       IN  IF ~Exists(st, "candidates", id) THEN inserted
           ELSE Edited(inserted, "candidates", id, "promoted",
                  [st.candidates[id] EXCEPT !.promoted = knowledge, !.state = "provisional"], now)

DeleteExpiredKnowledgeCandidates(st, scope, olderThan, now) ==
  LET expired == Where(st.candidates, LAMBDA r :
                   MatchesScope(r.own, scope) /\ r.promoted = None /\ r.at < olderThan)
      gone == ById(expired)
  IN  LoggedAll(Removed(st, "candidates", expired),
                [k \in DOMAIN gone |->
                   Event("candidates", gone[k], "expired", st.candidates[gone[k]], None, now)])

InsertKnowledgeMemoryAudit(st, in, now) ==
  Added(st, "audits", [own |-> in.own, created |-> in.created, related |-> in.related,
                       at |-> Given(in.at, now)])

GetRecentKnowledgeMemoryAudits(st, scope, limit) ==
  First(Given(limit, 10), ByIdDesc(Where(st.audits, LAMBDA r : MatchesScope(r.own, scope))))

GetKnowledgeMemoryAuditsForKnowledge(st, scope, id, limit) ==
  First(Given(limit, 10), ByIdDesc(Where(st.audits, LAMBDA r :
    MatchesScope(r.own, scope) /\ id \in {r.created, r.related})))

-----------------------------------------------------------------------------
(* Work items.  Claims and handoffs, and races on an item, are in         *)
(* MemoryCoordination.                                                     *)

InsertWorkItem(st, in, now) ==
  LET row == [own |-> in.own, class |-> Given(in.class, "private"), session |-> in.session,
              status |-> Given(in.status, "open"), version |-> 1,
              at |-> Given(in.at, now), updated |-> Given(in.at, now)]
  IN  Created(st, "items", row)

GetActiveWorkItems(st, scope) ==
  ByCreatedAtThenId(st.items,
    Where(st.items, LAMBDA r : MatchesScope(r.own, scope) /\ r.status # "done"))

GetActiveWorkItemsCrossScope(st, scope, level) ==
  ByCreatedAtThenId(st.items,
    Where(st.items, LAMBDA r : CrossScopeVisible(r, scope, level) /\ r.status # "done"))

GetWorkItemsByTimeRange(st, scope, range) ==
  ByCreatedAtThenId(st.items,
    Where(st.items, LAMBDA r : MatchesScope(r.own, scope) /\ InRange(r.at, range)))

GetWorkItemsByTimeRangeCrossScope(st, scope, level, range) ==
  ByCreatedAtThenId(st.items, Where(st.items, LAMBDA r :
    CrossScopeVisible(r, scope, level) /\ InRange(r.at, range)))

UpdateWorkItemStatus(st, id, status, now) ==
  IF ~Exists(st, "items", id) THEN st
  ELSE Edited(st, "items", id, "status_changed",
              [st.items[id] EXCEPT !.status = status, !.updated = now, !.version = @ + 1], now)

(* Versioned; with no version expected, any will do.                       *)
UpdateWorkItem(st, id, patch, expected, now) ==
  IF ~Exists(st, "items", id) \/ expected \notin {None, st.items[id].version} THEN st
  ELSE Edited(st, "items", id,
              IF DOMAIN patch = {"class"} THEN "visibility_changed" ELSE "updated",
              [With(patch, st.items[id]) EXCEPT !.updated = now, !.version = @ + 1], now)

DeleteWorkItem(st, id, now) ==
  IF ~Exists(st, "items", id) THEN st ELSE Deleted(st, "items", id, "deleted", now)

-----------------------------------------------------------------------------
(* Monitors, one a scope, and compaction logs: not in the event log.       *)

UpsertContextMonitor(st, in, now) ==
  LET mine == Where(st.monitors, LAMBDA r : MatchesScope(r.own, in.own))
      row == [own |-> in.own, state |-> in.state, compacted |-> in.compacted, at |-> now]
  IN  Put(st, "monitors", mine, row)

GetContextMonitor(st, scope) ==
  LET id == TheOne(Where(st.monitors, LAMBDA r : MatchesScope(r.own, scope)))
  IN  IF id = None THEN None ELSE st.monitors[id]

InsertCompactionLog(st, in, now) ==
  Added(st, "compactions", [own |-> in.own, session |-> in.session, at |-> Given(in.at, now)])

GetRecentCompactionLogs(st, scope, limit) ==
  First(Given(limit, 10), ByIdDesc(Where(st.compactions, LAMBDA r : MatchesScope(r.own, scope))))

-----------------------------------------------------------------------------
(* Playbooks and their revisions.                                          *)

InsertPlaybook(st, in, now) ==
  LET row == [own |-> in.own, class |-> Given(in.class, "private"), words |-> in.words,
              status |-> Given(in.status, "draft"), session |-> in.session, revisions |-> 0,
              usedAt |-> None, uses |-> 0, at |-> Given(in.at, now), updated |-> now]
  IN  Created(st, "playbooks", row)

InUse(r) == r.status \in {"draft", "active"}

GetActivePlaybooks(st, scope) ==
  ById(Where(st.playbooks, LAMBDA r : MatchesScope(r.own, scope) /\ InUse(r)))

GetActivePlaybooksCrossScope(st, scope, level) ==
  ByCreatedAtThenId(st.playbooks,
    Where(st.playbooks, LAMBDA r : CrossScopeVisible(r, scope, level) /\ InUse(r)))

(* A playbook matches a query when it has all of its words.                *)
PlaybooksFound(st, query, options, reach) ==
  LET o == options @@ [limit |-> 20, activeOnly |-> TRUE]
  IN  IF query = {} THEN <<>>
      ELSE First(o.limit, BestFirst(st.playbooks, reach \cap
              Where(st.playbooks, LAMBDA r :
             /\ query \subseteq r.words
             /\ o.activeOnly => r.status \notin {"archived", "deprecated"}),
             LAMBDA r : ScoreLexical(query, r), LAMBDA r : 0))

SearchPlaybooks(st, scope, query, options) ==
  PlaybooksFound(st, query, options, Where(st.playbooks, LAMBDA r : MatchesScope(r.own, scope)))

SearchPlaybooksCrossScope(st, scope, level, query, options) ==
  PlaybooksFound(st, query, options,
        Where(st.playbooks, LAMBDA r : CrossScopeVisible(r, scope, level)))

(* An empty patch is logged as well.                                       *)
UpdatePlaybook(st, id, patch, now) ==
  IF ~Exists(st, "playbooks", id) THEN st
  ELSE Edited(st, "playbooks", id, "updated",
              [With(patch, st.playbooks[id]) EXCEPT !.updated = now], now)

RecordPlaybookUse(st, id, now) ==
  IF ~Exists(st, "playbooks", id) THEN st
  ELSE Edited(st, "playbooks", id, "used",
              [st.playbooks[id] EXCEPT !.uses = @ + 1, !.usedAt = now], now)

\* the revision is logged, and not what it does to the playbook
InsertPlaybookRevision_bug(st, in, now) ==
  IF ~Exists(st, "playbooks", in.playbook) THEN st
  ELSE LET at == Given(in.at, now)
           book == [st.playbooks[in.playbook] EXCEPT !.revisions = @ + 1, !.updated = at]
           revision == [own |-> book.own, playbook |-> in.playbook, session |-> in.session,
                        at |-> at]
           written == Changed(Added(st, "revisions", revision), "playbooks", in.playbook, book)
       IN  Logged(written, "revisions", NewId(st, "revisions"), "revised", None, revision, at)

(* A revision also changes its playbook, and replay reads playbooks only:  *)
(* two events.  The update of the playbook carries no `before'.            *)
InsertPlaybookRevision(st, in, now) ==
  IF ~Exists(st, "playbooks", in.playbook) THEN st
  ELSE LET at == Given(in.at, now)
           book == [st.playbooks[in.playbook] EXCEPT !.revisions = @ + 1, !.updated = at]
           revision == [own |-> book.own, playbook |-> in.playbook, session |-> in.session,
                        at |-> at]
           written == Changed(Added(st, "revisions", revision), "playbooks", in.playbook, book)
           revised == Logged(written, "revisions", NewId(st, "revisions"), "revised",
                             None, revision, at)
       IN  Logged(revised, "playbooks", in.playbook, "updated", None, book, at)

(* created_at DESC.                                                        *)
GetPlaybookRevisions(st, id) ==
  BestFirst(st.revisions, Where(st.revisions, LAMBDA r : r.playbook = id),
            LAMBDA r : r.at, LAMBDA r : 0)

-----------------------------------------------------------------------------
(* Associations: one for two ends and a type, whatever the scope.          *)

InsertAssociation(st, in, now) ==
  LET row == [own |-> in.own, class |-> Given(in.class, "private"), source |-> in.source,
              target |-> in.target, type |-> in.type, at |-> Given(in.at, now)]
      same == Where(st.associations, LAMBDA r :
                r.source = in.source /\ r.target = in.target /\ r.type = in.type)
  IN  IF same # {} THEN st
      ELSE Created(st, "associations", row)

GetAssociationsFrom(st, source, scope) ==
  ById(Where(st.associations, LAMBDA r : r.source = source /\ MatchesScope(r.own, scope)))

GetAssociationsTo(st, target, scope) ==
  ById(Where(st.associations, LAMBDA r : r.target = target /\ MatchesScope(r.own, scope)))

ListAssociations(st, scope) ==
  ById(Where(st.associations, LAMBDA r : MatchesScope(r.own, scope)))

DeleteAssociation(st, id, now) ==
  IF ~Exists(st, "associations", id) THEN st
  ELSE Deleted(st, "associations", id, "deleted", now)

-----------------------------------------------------------------------------
(* The event log and what is read from it.  EventFeed has its watermark.   *)

Timeline(st, query, reach) ==
  LET q == ResolveEventQuery(query)
      ids == {i \in reach : EventMatches(st.events[i], i, q)}
  IN  PageOf(ById(ids), q.limit)

ListMemoryEvents(st, scope, query) ==
  Timeline(st, query, Where(st.events, LAMBDA e : MatchesScope(e.own, scope)))

ListMemoryEventsCrossScope(st, scope, level, query) ==
  Timeline(st, query, Where(st.events, LAMBDA e :
    /\ MatchesScopeLevel(e.own, scope, level)
    /\ IsBaseVisible(EventVisibilityClass(e), e.own, scope)))

GetMemoryEventsByEntity(st, scope, kind, id, query) ==
  Timeline(st, query,
           Where(st.events, LAMBDA e : MatchesScope(e.own, scope) /\ e.kind = kind /\ e.id = id))

GetMemoryEventsBySession(st, scope, session, query) ==
  Timeline(st, query,
           Where(st.events, LAMBDA e : MatchesScope(e.own, scope) /\ e.session = session))

(* The state of a session is replaced as a whole, and logged without what  *)
(* it was; its event is named after the session.                           *)
UpsertSessionState(st, in) ==
  LET row == [own |-> in.own, session |-> in.session, state |-> in.state, at |-> in.at]
      mine == Where(st.sessions, LAMBDA r :
                MatchesScope(r.own, in.own) /\ r.session = in.session)
  IN  Logged(Put(st, "sessions", mine, row), "sessions", in.session, "updated", None, row, in.at)

GetSessionState(st, scope, session) ==
  LET id == TheOne(Where(st.sessions, LAMBDA r : MatchesScope(r.own, scope) /\ r.session = session))
  IN  IF id = None THEN None ELSE st.sessions[id]

-----------------------------------------------------------------------------
(* Source documents.                                                       *)

InsertSourceDocument(st, in, now) ==
  Created(st, "documents", [own |-> in.own, hash |-> in.hash,
                            status |-> Given(in.status, "pending"), at |-> now])

(* Any document of that hash, where there are several.                     *)
GetSourceDocumentByHash(st, hash, scope) ==
  Where(st.documents, LAMBDA r : r.hash = hash /\ MatchesScope(r.own, scope))

ListSourceDocuments(st, scope, options) ==
  LET o == options @@ [limit |-> 50, cursor |-> None]
  IN  PageOf(ByIdDesc({i \in Where(st.documents, LAMBDA r : MatchesScope(r.own, scope)) :
                         o.cursor # None => i < o.cursor}), o.limit)

(* An empty patch is logged as well.                                       *)
UpdateSourceDocument(st, id, patch, now) ==
  IF ~Exists(st, "documents", id) THEN st
  ELSE Edited(st, "documents", id, "updated", With(patch, st.documents[id]), now)

-----------------------------------------------------------------------------
(* Configuration of a scope, and its governance.                           *)

SetScopeConfig(st, scope, key, value, now) ==
  LET mine == Where(st.configs, LAMBDA r : MatchesScope(r.own, scope) /\ r.key = key)
      at == IF mine = {} THEN now ELSE st.configs[TheOne(mine)].at
  IN  Put(st, "configs", mine,
          [own |-> scope, key |-> key, value |-> value, at |-> at, updated |-> now])

GetScopeConfig(st, scope, key) ==
  LET id == TheOne(Where(st.configs, LAMBDA r : MatchesScope(r.own, scope) /\ r.key = key))
  IN  IF id = None THEN None ELSE st.configs[id].value

(* The maps and the sets of deleted names, as one row a name.              *)
Governed(st, scope, part, name) ==
  Where(st.governance, LAMBDA r :
    MatchesScope(r.own, scope) /\ r.part = part /\ r.name = name)

Govern(st, scope, part, name, value, after, now) ==
  LET row == [own |-> scope, part |-> part, name |-> name, value |-> value]
      put == Put(st, "governance", Governed(st, scope, part, name), row)
  IN  LoggedAll(put,
        <<[kind |-> part, id |-> name, type |-> IF value = None THEN "deleted" ELSE "set",
           own |-> scope, session |-> None, before |-> None, after |-> after, at |-> now]>>)

(* Clearing the default contract is kept, and logged with what is now so.  *)
UpsertDefaultContextContract(st, scope, contract, now) ==
  Govern(st, scope, "context_contract", "__default__", contract, [value |-> contract], now)

UpsertNamedContextContract(st, scope, name, contract, now) ==
  Govern(st, scope, "context_contract", name, contract, [value |-> contract], now)

(* A name that was never set is deleted all the same.                      *)
DeleteNamedContextContract(st, scope, name, now) ==
  Govern(st, scope, "context_contract", name, None, None, now)

UpsertContextInvariant(st, scope, id, invariant, now) ==
  Govern(st, scope, "context_invariant", id, invariant, [value |-> invariant], now)

DeleteContextInvariant(st, scope, id, now) ==
  Govern(st, scope, "context_invariant", id, None, None, now)

UpsertContextEscalationPolicy(st, scope, policy, now) ==
  Govern(st, scope, "context_escalation_policy", "__policy__", policy, [value |-> policy], now)

(* Null where nothing was ever written for the scope.                      *)
GetGovernanceState(st, scope) ==
  LET rows == {st.governance[i] : i \in
                 Where(st.governance, LAMBDA r : MatchesScope(r.own, scope))}
  IN  IF rows = {} THEN None
      ELSE [kept |-> {[part |-> r.part, name |-> r.name, value |-> r.value] :
                        r \in {r \in rows : r.value # None}},
            deleted |-> {[part |-> r.part, name |-> r.name] :
                           r \in {r \in rows : r.value = None}}]

=============================================================================
