------------------------------- MODULE PgStore -------------------------------
(***************************************************************************)
(* How the Postgres adapter changes its tables and logs what it changed     *)
(* (src/adapters/postgres/index.ts; the lines are in PROJECT.json).  Every  *)
(* operation is one transaction under READ COMMITTED, and several callers   *)
(* have theirs open at once: a SELECT of the row as it was, without a lock; *)
(* the INSERT, UPDATE or DELETE, which waits for the row's lock, works on   *)
(* the row as last committed and keeps the lock until COMMIT; the event,    *)
(* with the row as it is now; and the single 'temporal' row of              *)
(* projection_watermarks, which every event updates and so waits for.       *)
(* Some callers put several operations in one transaction; each is then a   *)
(* savepoint of it.                                                         *)
(*                                                                         *)
(* A statement that changes several rows locks them one after the other,    *)
(* in an order that SQL leaves open.                                        *)
(*                                                                         *)
(* One or two rows of each table.  A row is reduced to a text (title,       *)
(* instructions, what the row points to), a status and a count (version,    *)
(* access_count, use_count).  The value of the watermark and the dates of   *)
(* events are in EventFeed; claims and handoffs are in PgCoordination.      *)
(***************************************************************************)
EXTENDS Naturals, Sequences, FiniteSets

CONSTANTS
    Process,  \* connections, each running one transaction at a time
    Texts,    \* what callers write
    Work,     \* the transactions that callers run
    Later,    \* bound: what may still be started after the first two
    Free,     \* nobody holds the lock
    MaxTx     \* bound: transactions that are ever started

\* Definitions with the suffix _bug are what a plausible slip in the code would
\* make of the definition they precede.

NoRow == [text |-> "none", status |-> "none", count |-> 0]

\* Rows that exist from the start, and rows that transactions add: an id is new.
Old == {"turn", "wm", "fact", "fact1", "candidate", "candidate1", "item", "playbook", "document"}
Revisions == {"revision1", "revision2", "revision3"}
New == {"turn2", "turn3", "wm2", "fact2", "candidate2", "item2", "playbook2", "document2",
        "association", "session"} \cup Revisions
Keys == Old \cup New

Text == Texts \cup {"", "retired", "promoted"}

Row == [text : Text,
        status : {"active", "archived", "expired", "superseded", "disputed", "provisional",
                  "done", "processed", "revised"},
        count : Nat]

Fresh == [text |-> "", status |-> "active", count |-> 0]

VARIABLES
    table,    \* the committed row of each key
    log,      \* the committed events: [id, key, after, type]
    lastId,   \* the last event_id handed out, also to transactions that roll back
    lock,     \* who holds the lock of each row, and of the watermark
    tx,       \* what each connection runs
    started   \* transactions started so far

vars == <<table, log, lastId, lock, tx, started>>

-----------------------------------------------------------------------------
(* The operations.  A call names its operation, its row and what it writes.  *)

Call(op, k) == [op |-> op, key |-> k, text |-> "", status |-> "", expect |-> 0]

\* The statements: what each makes of the row it finds.
InsertTurn == Fresh
InsertWorkingMemory == Fresh
InsertKnowledgeMemory == Fresh
InsertKnowledgeCandidate == Fresh
InsertWorkItem == [Fresh EXCEPT !.count = 1]
InsertPlaybook == Fresh
InsertAssociation == Fresh
InsertSourceDocument == Fresh
ArchiveTurn(row) == [row EXCEPT !.status = "archived"]
ExpireWorkingMemory(row) == [row EXCEPT !.status = "expired"]
MarkWorkingMemoryPromoted(row) == [row EXCEPT !.text = "promoted"]
UpdateKnowledgeMemory(row) == [row EXCEPT !.status = "disputed"]
TouchKnowledgeMemory_bug(row, before) == [row EXCEPT !.count = before.count + 1]
TouchKnowledgeMemory(row, before) == [row EXCEPT !.count = @ + 1]
TouchKnowledgeMemories(row) == [row EXCEPT !.count = @ + 1]
RetireKnowledgeMemory(row) == [row EXCEPT !.text = "retired"]
SupersedeKnowledgeMemory(row) == [row EXCEPT !.status = "superseded", !.text = "retired"]
PromoteCandidate(row) == [row EXCEPT !.status = "provisional", !.text = "promoted"]
UpdateWorkItemStatus(row, c) == [row EXCEPT !.status = c.status, !.count = @ + 1]
RecordPlaybookUse(row) == [row EXCEPT !.count = @ + 1]
InsertPlaybookRevision(row) == [row EXCEPT !.status = "revised"]
UpdatePlaybook(row, c) == [row EXCEPT !.text = c.text]
UpdateSourceDocument(row) == [row EXCEPT !.status = "processed"]
UpsertSessionState(c) == [Fresh EXCEPT !.text = c.text]

\* updateWorkItem fills the columns that the patch leaves out from the row it
\* read first; only the version is counted from the row it updates.
UpdateWorkItem(row, c, before) ==
    [text   |-> IF c.text = "" THEN before.text ELSE c.text,
     status |-> IF c.status = "" THEN before.status ELSE c.status,
     count  |-> row.count + 1]

Effect(c, row, before) ==
    CASE c.op = "insertTurn" -> InsertTurn
      [] c.op = "insertWorkingMemory" -> InsertWorkingMemory
      [] c.op = "insertKnowledgeMemory" -> InsertKnowledgeMemory
      [] c.op = "insertKnowledgeCandidate" -> InsertKnowledgeCandidate
      [] c.op = "insertWorkItem" -> InsertWorkItem
      [] c.op = "insertPlaybook" -> InsertPlaybook
      [] c.op = "insertAssociation" -> InsertAssociation
      [] c.op = "insertSourceDocument" -> InsertSourceDocument
      [] c.op = "archiveTurn" -> ArchiveTurn(row)
      [] c.op = "expireWorkingMemory" -> ExpireWorkingMemory(row)
      [] c.op = "markWorkingMemoryPromoted" -> MarkWorkingMemoryPromoted(row)
      [] c.op = "updateKnowledgeMemory" -> UpdateKnowledgeMemory(row)
      [] c.op = "touchKnowledgeMemory" -> TouchKnowledgeMemory(row, before)
      [] c.op = "touchKnowledgeMemories" -> TouchKnowledgeMemories(row)
      [] c.op = "retireKnowledgeMemory" -> RetireKnowledgeMemory(row)
      [] c.op = "supersedeKnowledgeMemory" -> SupersedeKnowledgeMemory(row)
      [] c.op = "promoteCandidate" -> PromoteCandidate(row)
      [] c.op = "updateWorkItemStatus" -> UpdateWorkItemStatus(row, c)
      [] c.op = "updateWorkItem" -> UpdateWorkItem(row, c, before)
      [] c.op = "recordPlaybookUse" -> RecordPlaybookUse(row)
      [] c.op = "insertPlaybookRevision" -> InsertPlaybookRevision(row)
      [] c.op = "updatePlaybook" -> UpdatePlaybook(row, c)
      [] c.op = "updateSourceDocument" -> UpdateSourceDocument(row)
      [] c.op = "upsertSessionState" -> UpsertSessionState(c)
      [] OTHER -> NoRow   \* deleteExpiredKnowledgeCandidates, deleteWorkItem, deleteAssociation

\* Operations that read the row first, without a lock, for the event's `before`.
Reading == {"archiveTurn", "expireWorkingMemory", "markWorkingMemoryPromoted",
            "updateKnowledgeMemory", "touchKnowledgeMemory", "touchKnowledgeMemories",
            "retireKnowledgeMemory", "supersedeKnowledgeMemory", "updateWorkItemStatus", "updateWorkItem",
            "deleteWorkItem", "recordPlaybookUse", "insertPlaybookRevision", "updatePlaybook",
            "deleteAssociation", "updateSourceDocument"}
Deleting == {"deleteWorkItem", "deleteAssociation"}
Creating == {"insertTurn", "insertWorkingMemory", "insertKnowledgeMemory",
             "insertKnowledgeCandidate", "insertWorkItem", "insertPlaybook",
             "insertAssociation", "insertSourceDocument", "upsertSessionState"}

\* Whether the statement finds a row (or inserts one).
Matches_stale_bug(c, row, before) ==
    \/ c.op \in Creating
    \/ /\ row # NoRow
       /\ c.op = "deleteExpiredKnowledgeCandidates" => row.text # "promoted"
       /\ c.op = "updateWorkItem" => before # NoRow /\ c.expect \in {0, before.count}
Matches_expire_bug(c, row, before) ==
    \/ c.op \in Creating
    \/ row # NoRow /\ (c.op = "updateWorkItem" => before # NoRow /\ c.expect \in {0, row.count})
Matches(c, row, before) ==
    \/ c.op \in Creating
    \/ /\ row # NoRow
       /\ c.op = "deleteExpiredKnowledgeCandidates" => row.text # "promoted"
       /\ c.op = "updateWorkItem" => before # NoRow /\ c.expect \in {0, row.count}

\* A duplicate association, a version that has moved on, a playbook that is gone.
Throws(c, row, before) ==
    \/ c.op = "insertAssociation" /\ row # NoRow
    \/ c.op = "updateWorkItem" /\ before # NoRow /\ c.expect # 0 /\ ~Matches(c, row, before)
    \/ c.op = "insertPlaybookRevision" /\ before = NoRow

\* The events an operation goes on to write.  A deletion is logged if the row was
\* there when it was read, the others if it was there then and still is.
EventsOf(c, row, before, revision) ==
    IF c.op = "insertPlaybookRevision" THEN <<revision, c.key>>
    ELSE IF \/ c.op \in Deleting /\ before # NoRow
            \/ /\ c.op \notin Deleting /\ Matches(c, row, before)
               /\ c.op \in Reading => before # NoRow
         THEN <<c.key>> ELSE <<>>

-----------------------------------------------------------------------------
(* The transactions: one operation each, but for the last five.              *)

Patches == {c \in [op : {"updateWorkItem"}, key : {"item"}, text : Texts \cup {""},
                    status : {"", "done"}, expect : 0..2] : c.text # "" \/ c.status # ""}

KeyOf == [expireWorkingMemory |-> "wm", markWorkingMemoryPromoted |-> "wm",
          insertKnowledgeMemory |-> "fact2", updateKnowledgeMemory |-> "fact",
          touchKnowledgeMemory |-> "fact", retireKnowledgeMemory |-> "fact",
          insertWorkItem |-> "item2", deleteWorkItem |-> "item",
          insertPlaybook |-> "playbook2", recordPlaybookUse |-> "playbook",
          insertAssociation |-> "association", deleteAssociation |-> "association",
          insertSourceDocument |-> "document2", updateSourceDocument |-> "document"]

\* Operations whose one statement changes several rows.  What they do to each row is a
\* call of its own, in the order in which the statement comes to the rows: an UPDATE with
\* id = ANY(...), a DELETE of what meets a condition.
RowsOf == [touchKnowledgeMemories |-> {"fact", "fact1"},
           deleteExpiredKnowledgeCandidates |-> {"candidate", "candidate1"}]
Batch == DOMAIN RowsOf

\* promoteKnowledgeCandidate locks the candidate before it writes anything.
Promotion(k) == <<Call("lockCandidate", k), Call("insertKnowledgeMemory", "fact2"),
                  Call("promoteCandidate", k)>>

\* The rest of an extraction's transaction: the fact it replaces, and their association,
\* whose unique violation is caught.
Learn == <<Call("insertKnowledgeCandidate", "candidate2")>> \o Promotion("candidate2")
            \o <<Call("supersedeKnowledgeMemory", "fact"), Call("insertAssociation", "association")>>

Revise(t) == <<Call("insertPlaybookRevision", "playbook"),
               [Call("updatePlaybook", "playbook") EXCEPT !.text = t]>>

Scripts(kind) ==
    CASE kind = "updateWorkItem" ->
            {<<c>> : c \in Patches}
      [] kind = "updateWorkItemStatus" ->
            {<<[Call(kind, "item") EXCEPT !.status = "done"]>>}
      [] kind = "updatePlaybook" -> {<<[Call(kind, "playbook") EXCEPT !.text = t]>> : t \in Texts}
      [] kind = "upsertSessionState" -> {<<[Call(kind, "session") EXCEPT !.text = t]>> : t \in Texts}
      [] kind \in DOMAIN KeyOf -> {<<Call(kind, KeyOf[kind])>>}
      [] kind \in Batch -> {<<Call(kind, k[1]), Call(kind, k[2])>> :
                             k \in {l \in RowsOf[kind] \X RowsOf[kind] : l[1] # l[2]}}
      [] kind = "promoteKnowledgeCandidate" -> {Promotion("candidate")}
      [] kind = "insertTurns" -> {<<Call("insertTurn", "turn2"), Call("insertTurn", "turn3")>>}
      [] kind = "compact" -> {<<Call("insertWorkingMemory", "wm2"), Call("archiveTurn", "turn")>>}
      [] kind = "learn" -> {Learn}
      [] kind = "revise" -> {Revise(t) : t \in Texts}

Composite == {"insertTurns", "compact", "learn", "revise"}
AllWork == DOMAIN KeyOf \cup Batch \cup Composite
             \cup {"updateWorkItem", "updateWorkItemStatus", "updatePlaybook",
                   "upsertSessionState", "promoteKnowledgeCandidate"}

ASSUME ConstantsAssumption ==
    /\ Work \subseteq AllWork /\ Later \subseteq Work
    /\ MaxTx \in Nat
    /\ Free \notin Process

-----------------------------------------------------------------------------
Idle == [kind |-> "none", script |-> <<>>, at |-> 1, pc |-> "idle", before |-> NoRow,
         seen |-> "", mine |-> <<>>, events |-> {}, pending |-> <<>>]

Init ==
    /\ table = [k \in Keys |-> IF k = "item" THEN InsertWorkItem ELSE IF k \in Old THEN Fresh ELSE NoRow]
    /\ log = {[id |-> 0, key |-> k, after |-> table[k], type |-> "created"] : k \in Old}
    /\ lastId = 0
    /\ lock = [k \in Keys \cup {"watermark"} |-> Free]
    /\ tx = [p \in Process |-> Idle]
    /\ started = 0

\* What a statement of p sees in row k: its own change, or what is committed.
Current(p, k) == IF k \in DOMAIN tx[p].mine THEN tx[p].mine[k] ELSE table[k]
Call1(p) == tx[p].script[tx[p].at]

FirstStep(t) ==
    IF t.at > Len(t.script) THEN "commit"
    ELSE IF t.script[t.at].op \in Reading \cup {"lockCandidate"} THEN "read" ELSE "write"
Proceed(t) == [t EXCEPT !.pc = FirstStep(t)]
NextCall(t) == Proceed([t EXCEPT !.at = @ + 1])

CanLock(p, k) == lock[k] \in {Free, p}

Rollback(p) ==
    /\ tx' = [tx EXCEPT ![p] = Idle]
    /\ lock' = [k \in DOMAIN lock |-> IF lock[k] = p THEN Free ELSE lock[k]]
    /\ UNCHANGED <<table, log, lastId, started>>

\* Ids come from a sequence: a transaction creates rows nobody has used, and names
\* only rows somebody has seen.
UsedBy(p) == {tx[p].script[i].key : i \in 1..Len(tx[p].script)}
Known(k) == \E e \in log : e.key = k
NewKey(k) == k \in New \ {"association", "session"}
IdsAgree(script) ==
    \A i \in 1..Len(script) : LET c == script[i] IN
        /\ c.op \in Creating /\ NewKey(c.key) =>
              ~Known(c.key) /\ \A q \in Process : c.key \notin UsedBy(q)
        /\ c.op = "deleteAssociation" =>   \* bound: one deletion, as a row made after it has another id
              /\ Known(c.key)
              /\ \A e \in log : e.type # "deleteAssociation"
              /\ \A q \in Process : tx[q].kind # "deleteAssociation"
        /\ c.op = "insertAssociation" =>
              /\ \A e \in log : e.type # "deleteAssociation"
              /\ \A q \in Process : tx[q].kind # "deleteAssociation"

\* BEGIN.  revisePlaybook reads the instructions it is going to replace.
Begin(p) ==
    /\ tx[p] = Idle /\ started < MaxTx
    /\ \E kind \in IF started < 2 THEN Work ELSE Later : \E script \in Scripts(kind) :
          /\ IdsAgree(script)
          /\ tx' = [tx EXCEPT ![p] = Proceed([Idle EXCEPT !.kind = kind, !.script = script,
                        !.seen = IF kind = "revise" THEN table["playbook"].text ELSE ""])]
    /\ started' = started + 1
    /\ UNCHANGED <<table, log, lastId, lock>>

\* The row as it was, for the event; promotion reads the candidate FOR UPDATE.
LockCandidate_bug(p) == FALSE
LockCandidate(p) == Call1(p).op = "lockCandidate" /\ Current(p, Call1(p).key) # NoRow

Read(p) ==
    LET k == Call1(p).key IN
    /\ tx[p].pc = "read"
    /\ LockCandidate(p) => CanLock(p, k)
    /\ lock' = IF LockCandidate(p) THEN [lock EXCEPT ![k] = p] ELSE lock
    /\ tx' = [tx EXCEPT ![p] = IF Call1(p).op = "lockCandidate" THEN NextCall(@)
                               ELSE [@ EXCEPT !.before = Current(p, k), !.pc = "write"]]
    /\ UNCHANGED <<table, log, lastId, started>>

\* The next revision's id.
FreeRevisions == {k \in Revisions : ~Known(k) /\ \A q \in Process : k \notin DOMAIN tx[q].mine}
Revision == CHOOSE k \in FreeRevisions : TRUE

Store(t, k, row) == [t EXCEPT !.mine = [j \in DOMAIN @ \cup {k} |-> IF j = k THEN row ELSE @[j]]]

\* The statement that changes the row.  A revision first inserts its own row, with
\* the instructions revisePlaybook read.
Changed(p, c, row) ==
    LET t == tx[p]
        u == IF c.op = "insertPlaybookRevision"
             THEN Store(t, Revision, [Fresh EXCEPT !.text = t.seen]) ELSE t
    IN  IF Matches(c, row, t.before) THEN Store(u, c.key, Effect(c, row, t.before)) ELSE t

\* The statement has not come to all its rows.
RowsLeft(p) == Call1(p).op \in Batch /\ tx[p].at < Len(tx[p].script)

\* What happens after the statement, or after one of its rows.
Continue(p, t, evs) ==
    IF RowsLeft(p) THEN [t EXCEPT !.at = @ + 1, !.pending = evs]
    ELSE IF evs = <<>> THEN NextCall(t)
    ELSE [t EXCEPT !.pc = "log", !.pending = evs]

Write(p) ==
    LET c   == Call1(p)
        row == Current(p, c.key)
        evs == tx[p].pending \o EventsOf(c, row, tx[p].before, Revision)
    IN
    /\ tx[p].pc = "write"
    /\ CanLock(p, c.key)
    /\ ~Throws(c, row, tx[p].before)
    /\ c.op = "insertPlaybookRevision" => FreeRevisions # {}   \* bound: three revisions
    /\ lock' = IF Matches(c, row, tx[p].before) THEN [lock EXCEPT ![c.key] = p] ELSE lock
    /\ tx' = [tx EXCEPT ![p] = Continue(p, Changed(p, c, row), evs)]
    /\ UNCHANGED <<table, log, lastId, started>>

\* An operation that throws has changed nothing yet.  The extraction goes on without
\* the association that was there already (ROLLBACK TO SAVEPOINT); everybody else
\* lets the error end the transaction.
WriteThrows(p) ==
    LET c == Call1(p) IN
    /\ tx[p].pc = "write"
    /\ CanLock(p, c.key)
    /\ Throws(c, Current(p, c.key), tx[p].before)
    /\ \/ /\ tx[p].kind = "learn" /\ c.op = "insertAssociation"
          /\ tx' = [tx EXCEPT ![p] = NextCall(@)]
          /\ UNCHANGED <<table, log, lastId, lock, started>>
       \/ /\ ~(tx[p].kind = "learn" /\ c.op = "insertAssociation")
          /\ Rollback(p)

\* The event's `after`: the row as the transaction reads it back.
AfterImage_bug(p, k) ==
    IF Call1(p).op = "touchKnowledgeMemory" THEN Effect(Call1(p), tx[p].before, tx[p].before)
    ELSE Current(p, k)
AfterImage(p, k) == Current(p, k)

\* The events of a batch of touches are inserted together, before the watermark is
\* written; all others are followed by it one by one.
Together(p) == Call1(p).op = "touchKnowledgeMemories" /\ Len(tx[p].pending) > 1

\* INSERT INTO memory_event_log: the id is taken here, whenever the rest commits.
LogEvent(p) ==
    LET k == Head(tx[p].pending) IN
    /\ tx[p].pc = "log"
    /\ lastId' = lastId + 1
    /\ tx' = [tx EXCEPT ![p].events = @ \cup {[id |-> lastId + 1, key |-> k,
                                               after |-> AfterImage(p, k), type |-> Call1(p).op]},
                        ![p].pending = Tail(@), ![p].pc = IF Together(p) THEN "log" ELSE "mark"]
    /\ UNCHANGED <<table, log, lock, started>>

\* The watermark row, which the transaction keeps from now on.
Mark(p) ==
    /\ tx[p].pc = "mark"
    /\ CanLock(p, "watermark")
    /\ lock' = [lock EXCEPT !["watermark"] = p]
    /\ tx' = [tx EXCEPT ![p] = IF @.pending # <<>> THEN [@ EXCEPT !.pc = "log"] ELSE NextCall(@)]
    /\ UNCHANGED <<table, log, lastId, started>>

Commit(p) ==
    /\ tx[p].pc = "commit"
    /\ table' = [k \in Keys |-> Current(p, k)]
    /\ log' = log \cup tx[p].events
    /\ tx' = [tx EXCEPT ![p] = Idle]
    /\ lock' = [k \in DOMAIN lock |-> IF lock[k] = p THEN Free ELSE lock[k]]
    /\ UNCHANGED <<lastId, started>>

\* A statement fails for a reason of its own (the connection, a value the database refuses).
Fail(p) == tx[p] # Idle /\ Rollback(p)

\* p waits for q: the next statement needs a lock that q holds.
Awaited(p) ==
    IF tx[p].pc = "mark" THEN {"watermark"}
    ELSE IF tx[p].pc = "write" \/ (tx[p].pc = "read" /\ LockCandidate(p)) THEN {Call1(p).key} ELSE {}
Waits(p, q) == p # q /\ \E k \in Awaited(p) : lock[k] = q
Deadlocked(p) == \E q \in Process : Waits(p, q) /\ Waits(q, p)

\* Postgres ends a deadlock by aborting a transaction that is part of it.
Victim(p) == Deadlocked(p) /\ Rollback(p)

Step(p) == Read(p) \/ Write(p) \/ WriteThrows(p) \/ LogEvent(p) \/ Mark(p) \/ Commit(p)

Next == \E p \in Process : Begin(p) \/ Step(p) \/ Fail(p) \/ Victim(p)

Spec == Init /\ [][Next]_vars

-----------------------------------------------------------------------------
(* Properties. *)

\* The log tells the tables: what is committed is, row by row, what the last event
\* shows, although transactions number their events before they commit
\* (insertMemoryEventInternal writes in the transaction that holds the row's lock).
Audited == INSTANCE AuditedStore WITH
    Rows <- Row, log <- {[id |-> e.id, key |-> e.key, after |-> e.after] : e \in log}
KeepsRecord == Audited!Spec

\* No concurrent use is lost: access_count, use_count and version advance once for
\* each committed event that says so (touchKnowledgeMemory, recordPlaybookUse,
\* updateWorkItem and updateWorkItemStatus count in the UPDATE itself).
Told(k, types) == {e \in log : e.key = k /\ e.type \in types}
CountersExact ==
    /\ \A k \in {"fact", "fact1"} :
          table[k].count = Cardinality(Told(k, {"touchKnowledgeMemory", "touchKnowledgeMemories"}))
    /\ table["playbook"].count = Cardinality(Told("playbook", {"recordPlaybookUse"}))
    /\ table["item"] # NoRow =>
          table["item"].count = 1 + Cardinality(Told("item", {"updateWorkItem", "updateWorkItemStatus"}))

Commits(p, kind) == tx[p].kind = kind /\ tx[p].pc = "commit" /\ tx'[p] = Idle /\ log' # log

\* Of the updates that expect one version of a work item one commits, on that version
\* (the guard is in updateWorkItem's WHERE, not in the row it read before).
ExpectedVersionHeld ==
    [][\A p \in Process : Commits(p, "updateWorkItem") /\ tx[p].script[1].expect # 0 =>
          /\ table["item"].count = tx[p].script[1].expect
          /\ table'["item"].count = tx[p].script[1].expect + 1]_vars

\* A transaction of one operation has the rows it changes before the watermark and never
\* waits for a row while it holds the watermark (promoteKnowledgeCandidate locks the
\* candidate first for this reason).  So two of them deadlock only over the rows of two
\* statements of one kind that change several, before either has the watermark
\* (touchKnowledgeMemories, deleteExpiredKnowledgeCandidates).
DeadlockNeedsSeveral ==
    \A p, q \in Process : Waits(p, q) /\ Waits(q, p) =>
        \/ {tx[p].kind, tx[q].kind} \cap Composite # {}
        \/ /\ tx[p].kind = tx[q].kind /\ tx[p].kind \in Batch
           /\ lock["watermark"] \notin {p, q}

\* A candidate is promoted or expires, never both, whichever of the two comes first
\* (deleteExpiredKnowledgeCandidates deletes where nothing was promoted).
PromotedOrExpired ==
    \A e, f \in log : ~(e.key = f.key /\ e.type = "promoteCandidate"
                        /\ f.type = "deleteExpiredKnowledgeCandidates")

=============================================================================
