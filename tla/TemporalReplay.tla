--------------------------- MODULE TemporalReplay ---------------------------
(***************************************************************************)
(* core/temporal.ts: the event log read to its end, folded into the state  *)
(* it describes, and the reads of an adapter over that state.  A replayed  *)
(* state has the replayed tables of a store (a session's state is under    *)
(* the session's name, as its events are); what is not replayed is empty.  *)
(* Claims and handoffs are in MemoryCoordination.                          *)
(***************************************************************************)
EXTENDS StorageKernel

Replayed == {"turns", "working", "knowledge", "items", "associations", "playbooks", "sessions"}

(* Pages one after the other, each from the cursor of the one before;      *)
(* fetchPage is a function of the cursor.                                 *)
AccumulateMemoryEvents(fetchPage) ==
  LET from[cursor \in Nat] ==
        LET page == fetchPage[cursor]
        IN  IF page.next = None THEN page.items ELSE page.items \o from[page.next]
  IN  from[0]

(* The newest snapshot of each row, in the order of the event ids; work    *)
(* items and associations are the only ones whose deletion is replayed.    *)
Replay(state, e) ==
  CASE e.kind \notin Replayed -> state
    [] e.kind \in {"items", "associations"} /\ e.type = "deleted" ->
         [state EXCEPT ![e.kind] = [i \in DOMAIN @ \ {e.id} |-> @[i]]]
    [] OTHER -> IF e.after = None THEN state
                ELSE [state EXCEPT ![e.kind] = (e.id :> e.after) @@ @]

(* What belongs to other sessions is left out; a work item may have none.  *)
OfSession(state, session) ==
  [tab \in Replayed |->
     IF session = None \/ tab \in {"knowledge", "associations", "playbooks"} THEN state[tab]
     ELSE [i \in Where(state[tab], LAMBDA r :
             r.session = session \/ (tab = "items" /\ r.session = None)) |-> state[tab][i]]]

FoldTemporalState(log, ids, session) ==
  OfSession(FoldLeft(LAMBDA state, id : Replay(state, log[id]),
                     [tab \in Replayed |-> <<>>], SortSeq(ids, LAMBDA i, j : i < j)), session)

-----------------------------------------------------------------------------
(* createTemporalReplayAdapter: turns, working memory, knowledge and       *)
(* associations by created_at, work items and playbooks by updated_at.     *)

Sorted(t, ids, field) ==
  Ordered(ids, LAMBDA i, j :
    t[i][field] < t[j][field] \/ (t[i][field] = t[j][field] /\ i < j))

GetActiveTurns(state, scope, session) ==
  Sorted(state.turns, Where(state.turns, LAMBDA r :
    MatchesScope(r.own, scope) /\ r.archived = None /\ session \in {None, r.session}), "at")

GetArchivedTurnRange(state, session, start, end, scope) ==
  Sorted(state.turns, {i \in Where(state.turns, LAMBDA r :
    MatchesScope(r.own, scope) /\ r.session = session /\ r.archived # None) :
      start <= i /\ i <= end}, "at")

SearchTurns(state, scope, query, options) ==
  LET o == options @@ [activeOnly |-> TRUE, limit |-> 10]
  IN  First(o.limit, BestFirst(state.turns, Where(state.turns, LAMBDA r :
        /\ MatchesScope(r.own, scope)
        /\ o.activeOnly => r.archived = None
        /\ ScoreLexical(query, r) > 0),
        LAMBDA r : ScoreLexical(query, r), LAMBDA r : r.at))

GetActiveWorkingMemory(state, scope, session, asOf) ==
  Sorted(state.working, Where(state.working, LAMBDA r :
    /\ MatchesScope(r.own, scope)
    /\ session \in {None, r.session}
    /\ r.expires = None \/ r.expires > asOf), "at")

GetLatestWorkingMemory(state, scope, session, asOf) ==
  First(1, ByIdDesc(Range(GetActiveWorkingMemory(state, scope, session, asOf))))

ActiveKnowledge(r) == r.supersededBy = None /\ r.retired = None

GetActiveKnowledgeMemory(state, scope) ==
  Sorted(state.knowledge,
    Where(state.knowledge, LAMBDA r : MatchesScope(r.own, scope) /\ ActiveKnowledge(r)), "at")

GetActiveKnowledgeCrossScope(state, scope, level) ==
  Sorted(state.knowledge,
    Where(state.knowledge, LAMBDA r : CrossScopeVisible(r, scope, level) /\ ActiveKnowledge(r)),
    "at")

GetActiveWorkItems(state, scope) ==
  Sorted(state.items,
         Where(state.items, LAMBDA r : MatchesScope(r.own, scope) /\ r.status # "done"), "updated")

GetActiveWorkItemsCrossScope(state, scope, level) ==
  Sorted(state.items,
    Where(state.items, LAMBDA r : CrossScopeVisible(r, scope, level) /\ r.status # "done"),
    "updated")

GetActivePlaybooksCrossScope(state, scope, level) ==
  Sorted(state.playbooks,
    Where(state.playbooks, LAMBDA r :
      CrossScopeVisible(r, scope, level) /\ r.status \in {"draft", "active"}),
    "updated")

ListAssociations(state, scope) ==
  Sorted(state.associations,
         Where(state.associations, LAMBDA r : MatchesScope(r.own, scope)), "at")

=============================================================================
