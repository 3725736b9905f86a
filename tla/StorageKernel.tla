---------------------------- MODULE StorageKernel ----------------------------
(***************************************************************************)
(* What the three storage adapters share: scopes and how far they reach,   *)
(* who may see a row, the orders of results, pages, search options, and a  *)
(* store seen as tables of rows with an event log.                         *)
(*                                                                         *)
(* A table is a function from the ids in use to rows, ids[tab] the next id *)
(* (AUTOINCREMENT, SERIAL and the counters of the in-memory adapter never  *)
(* hand out an id twice).  A row is a record; `own' is its normalised      *)
(* scope, `at' its created_at, `class' its visibility_class, and `words'   *)
(* the tokens of its text.  None is null.                                  *)
(***************************************************************************)
EXTENDS Integers, FiniteSets, Sequences, SequencesExt, TLC

CONSTANTS None,         \* null
          WorkingTtl    \* how long working memory lives (86400 seconds)

Levels == {"scope", "workspace", "system", "tenant"}
Classes == {"private", "shared_collaboration", "workspace", "tenant"}

-----------------------------------------------------------------------------
(* Scopes: contracts/identity.ts and shared/visibility.ts.                 *)

NoCollaboration == "none"                    \* collaboration_id = ''

MatchesScope(item, target) == item = target

MatchesScopeLevel(item, target, level) ==
  /\ item.tenant = target.tenant
  /\ \/ level = "tenant"
     \/ level = "workspace" /\ item.workspace = target.workspace
     \/ level \in {"system", "scope"} /\ item.system = target.system
        /\ (level = "system" \/ MatchesScope(item, target))

IsBaseVisible(class, item, query) ==
  /\ item.tenant = query.tenant
  /\ \/ class = "tenant"
     \/ class = "workspace" /\ item.workspace = query.workspace
     \/ /\ class = "shared_collaboration"
        /\ item.workspace = query.workspace
        /\ item.collab # NoCollaboration
        /\ item.collab = query.collab
     \/ /\ class \notin {"tenant", "workspace", "shared_collaboration"}
        /\ \A f \in {"system", "workspace", "collab", "scope"} : item[f] = query[f]

(* The row of a cross-scope read: in the breadth asked for, and visible.   *)
CrossScopeVisible(row, query, level) ==
  MatchesScopeLevel(row.own, query, level) /\ IsBaseVisible(row.class, row.own, query)

(* The class of an event is that of its snapshot: `after', or `before' for *)
(* a deletion.                                                             *)
SnapshotClass(snapshot) ==
  IF snapshot # None /\ "class" \in DOMAIN snapshot THEN snapshot.class ELSE None

EventVisibilityClass(e) ==
  LET class == SnapshotClass(IF e.after # None THEN e.after ELSE e.before)
  IN  IF class \in Classes THEN class ELSE "private"

-----------------------------------------------------------------------------
(* Options: shared/search.ts.  Option records leave a field out to take    *)
(* its default.                                                            *)

Given(x, default) == IF x = None THEN default ELSE x

ResolveSearchOptions(o) ==
  o @@ [activeOnly |-> TRUE, includeProvisional |-> FALSE, includeDisputed |-> FALSE,
        minimumTrust |-> 0, states |-> {}, classes |-> {}, tags |-> {}, limit |-> 10]

ResolvePaginationOptions(o) == o @@ [limit |-> 25, offset |-> 0, cursor |-> 0]

(* A row matches a query of several words when it has one of them, and     *)
(* better the more it has (scoreLexical).                                  *)
ScoreLexical(query, row) == Cardinality(query \cap row.words)

(* matchesKnowledgeSearchOptions of core/retrieval.ts                      *)
MatchesKnowledgeSearchOptions(row, o) ==
  /\ ~o.includeProvisional => row.state # "provisional"
  /\ ~o.includeDisputed => row.state # "disputed"
  /\ row.trust >= o.minimumTrust
  /\ o.states # {} => row.state \in o.states
  /\ o.classes # {} => row.kclass \in o.classes
  /\ o.tags # {} => o.tags \cap row.tags # {}

InRange(at, range) ==
  /\ range.from # None => at >= range.from
  /\ range.to # None => at <= range.to

-----------------------------------------------------------------------------
(* Orders and pages.                                                       *)

Where(t, Test(_)) == {i \in DOMAIN t : Test(t[i])}

(* The rows of a strict total order, from the first to the last.           *)
Ordered(ids, Before(_, _)) ==
  [k \in 1 .. Cardinality(ids) |->
     CHOOSE i \in ids : Cardinality({j \in ids : Before(j, i)}) = k - 1]

ById(ids) == Ordered(ids, LAMBDA i, j : i < j)
ByIdDesc(ids) == Ordered(ids, LAMBDA i, j : i > j)

(* byCreatedAtThenId                                                       *)
ByCreatedAtThenId(t, ids) ==
  Ordered(ids, LAMBDA i, j : t[i].at < t[j].at \/ (t[i].at = t[j].at /\ i < j))

(* field DESC, id DESC                                                     *)
LatestFirst(t, ids, field) ==
  Ordered(ids, LAMBDA i, j :
    t[i][field] > t[j][field] \/ (t[i][field] = t[j][field] /\ i > j))

(* rank DESC, then as `Tie' says, then id ASC                              *)
BestFirst(t, ids, Rank(_), Tie(_)) ==
  Ordered(ids, LAMBDA i, j :
    LET ri == Rank(t[i])  rj == Rank(t[j]) IN
    \/ ri > rj
    \/ ri = rj /\ Tie(t[i]) > Tie(t[j])
    \/ ri = rj /\ Tie(t[i]) = Tie(t[j]) /\ i < j)

First(n, s) == SubSeq(s, 1, IF n < Len(s) THEN n ELSE Len(s))

(* A page is read with one row more than asked for, to know of a next one. *)
PageOf(rows, limit) ==
  [items |-> First(limit, rows),
   next |-> IF Len(rows) > limit THEN rows[limit] ELSE None]

-----------------------------------------------------------------------------
(* Tables and the event log.                                               *)

Tables == {"turns", "working", "knowledge", "candidates", "evidence", "audits", "items",
           "claims", "handoffs", "monitors", "compactions", "playbooks", "revisions",
           "associations", "sessions", "documents", "configs", "governance"}

EmptyStore ==
  [tab \in Tables \cup {"events", "ids"} |->
     IF tab = "ids" THEN [t \in Tables |-> 1] ELSE <<>>]

NewId(st, tab) == st.ids[tab]
Exists(st, tab, id) == id \in DOMAIN st[tab]

\* What a row or a table is made of after a change: `new' where it says, else `old'.
With(new, old) ==
  [c \in DOMAIN new \cup DOMAIN old |-> IF c \in DOMAIN new THEN new[c] ELSE old[c]]

(* Rows added one after the other, under the next ids.                     *)
AddedAll(st, tab, rows) ==
  LET id == NewId(st, tab)
  IN  [st EXCEPT ![tab] = With([i \in id .. id + Len(rows) - 1 |-> rows[i - id + 1]], @),
                 !.ids[tab] = @ + Len(rows)]

Added(st, tab, row) == AddedAll(st, tab, <<row>>)

Changed(st, tab, id, row) == [st EXCEPT ![tab][id] = row]

Removed(st, tab, ids) ==
  [st EXCEPT ![tab] = [i \in DOMAIN @ \ ids |-> @[i]]]

(* An event about a row of table `kind' carries its scope, its session     *)
(* where it has one, and its snapshots.                                    *)
Event(kind, id, type, before, after, at) ==
  LET row == IF after # None THEN after ELSE before
  IN  [kind |-> kind, id |-> id, type |-> type, own |-> row.own,
       session |-> IF "session" \in DOMAIN row THEN row.session ELSE None,
       before |-> before, after |-> after, at |-> at]

LoggedAll(st, events) == [st EXCEPT !.events = @ \o events]

Logged(st, kind, id, type, before, after, at) ==
  LoggedAll(st, <<Event(kind, id, type, before, after, at)>>)

(* Rows written together with their events.                                *)
CreatedAll(st, tab, rows) ==
  LoggedAll(AddedAll(st, tab, rows),
            [k \in DOMAIN rows |->
               Event(tab, NewId(st, tab) + k - 1, "created", None, rows[k], rows[k].at)])

Created(st, tab, row) == CreatedAll(st, tab, <<row>>)

Edited(st, tab, id, type, after, at) ==
  Logged(Changed(st, tab, id, after), tab, id, type, st[tab][id], after, at)

Deleted(st, tab, id, type, at) ==
  Logged(Removed(st, tab, {id}), tab, id, type, st[tab][id], None, at)

(* One call after the other: in one transaction, the first that throws     *)
(* leaves nothing behind; in none, what came before it stays.              *)
AllValid(inputs) == \A i \in DOMAIN inputs : inputs[i].valid

BeforeFailure(inputs) ==
  LET bad == {i \in DOMAIN inputs : ~inputs[i].valid}
  IN  IF bad = {} THEN inputs
      ELSE SubSeq(inputs, 1, (CHOOSE i \in bad : \A j \in bad : i <= j) - 1)

-----------------------------------------------------------------------------
(* Rows with a key of their own, such as the one monitor of a scope.       *)

TheOne(ids) == IF ids = {} THEN None ELSE CHOOSE i \in ids : TRUE

Put(st, tab, ids, row) ==
  IF ids = {} THEN Added(st, tab, row) ELSE Changed(st, tab, TheOne(ids), row)

(* Timelines: what the three adapters make of a query on the event log.    *)
ResolveEventQuery(q) ==
  q @@ [session |-> None, kind |-> None, id |-> None, from |-> None, to |-> None,
        limit |-> 100, cursor |-> 0]

EventMatches(e, id, q) ==
  /\ id > q.cursor
  /\ InRange(e.at, q)
  /\ q.session \in {None, ""} \/ e.session = q.session
  /\ q.kind = None \/ e.kind = q.kind
  /\ q.id = None \/ e.id = q.id

=============================================================================
