------------------------------ MODULE EventFeed ------------------------------
(* The event log of a store and the readers that follow it: writers append   *)
(* events and move the watermark of the 'temporal' projection;               *)
(* createMemorySync polls for knowledge changes and hands them to its        *)
(* handlers; listKnowledgeChanges pages from a date; captureSnapshot pins    *)
(* the watermark and replays the log up to it.                               *)
(*                                                                           *)
(* SQLite and the in-memory adapter run a whole mutation synchronously: the  *)
(* event, its id and the watermark appear together.  Postgres allocates the  *)
(* id when the row is inserted and shows the event, with the watermark, when *)
(* the transaction commits: ids may become visible out of order.             *)
(*                                                                           *)
(* The parameters, the state and what readers are promised: FeedPromises.    *)
EXTENDS FeedPromises, FiniteSets

logVars  == <<adapter, log, committed, late, open, watermark>>
syncVars == <<sync, page, received, dropped>>
vars == <<logVars, syncVars, since, snap>>

Event == [kind : Kinds, at : 0..MaxTime]
NoPage == [busy |-> FALSE, events |-> {}, next |-> 0]

Init ==
    /\ adapter \in Adapters
    /\ log = <<>>
    /\ committed = {}
    /\ late = {}
    /\ open = [w \in Writer |-> 0]
    /\ watermark = [last |-> 0, at |-> 0]
    /\ sync = [state |-> "new", start |-> 0, cursor |-> 0]
    /\ page = [p \in Poll |-> NoPage]
    /\ received = [h \in Handler |-> [e \in Id |-> 0]]
    /\ dropped = [h \in Handler |-> {}]
    /\ since = [state |-> "idle", from |-> 0, cursor |-> 0, got |-> {}, begun |-> {}]
    /\ snap = [state |-> "idle", pin |-> watermark, pinned |-> {}, events |-> {}]

------------------------------------------------------------------------------
(* Writers *)

Rows == DOMAIN log
\* Mutated forms (suffix _bug, each ahead of the definition it stands in for) are
\* what a plausible slip in the code would give; no specification uses them.
NextId == Cardinality(Rows) + 1

\* An event takes the next id and the created_at of its entity: the clock, or
\* what the caller says.
Append(kind, at) ==
    /\ NextId <= IF adapter = "serial" THEN MaxEvents ELSE MaxPgEvents
    /\ Backdating \/ \A e \in Rows : log[e].at <= at
    /\ log' = [e \in Rows \cup {NextId} |->
                 IF e = NextId THEN [kind |-> kind, at |-> at] ELSE log[e]]

\* SQLite: insert and watermark in one synchronous call.
WriteSerial(kind, at) ==
    /\ adapter = "serial"
    /\ Append(kind, at)
    /\ committed' = committed \cup {NextId}
    /\ watermark' = [last |-> NextId, at |-> at]
    /\ UNCHANGED <<adapter, late, open, syncVars, since, snap>>

\* Postgres: the INSERT takes its id from the sequence ...
Insert(w, kind, at) ==
    /\ adapter = "postgres"
    /\ open[w] = 0
    /\ Append(kind, at)
    /\ open' = [open EXCEPT ![w] = NextId]
    /\ UNCHANGED <<adapter, committed, late, watermark, syncVars, since, snap>>

\* ... and the upsert of the watermark, whose row stays locked to the end of
\* the transaction, is followed by COMMIT.
Commit(w) ==
    /\ open[w] # 0
    /\ committed' = committed \cup {open[w]}
    /\ late' = late \cup {e \in {open[w]} : \E d \in committed : d > e}
    /\ watermark' = [last |-> open[w], at |-> log[open[w]].at]
    /\ open' = [open EXCEPT ![w] = 0]
    /\ UNCHANGED <<adapter, log, syncVars, since, snap>>

\* A transaction that rolls back leaves a gap in the ids.
Rollback(w) ==
    /\ open[w] # 0
    /\ open' = [open EXCEPT ![w] = 0]
    /\ UNCHANGED <<adapter, log, committed, late, watermark, syncVars, since, snap>>

------------------------------------------------------------------------------
(* Listing *)

\* The order of a listing.
Before(d, e) == d < e

\* The first Limit events behind a cursor, of the kinds asked for, dated
\* between two times.
ListEvents(kinds, cursor, from, to) ==
    LET match == {e \in committed :
                    /\ e > cursor
                    /\ log[e].kind \in kinds
                    /\ log[e].at >= from
                    /\ log[e].at <= to}
    IN {e \in match : Cardinality({d \in match : Before(d, e)}) < Limit}

\* events[events.length - 1].event_id, or what stands in for it on an empty page.
LastId(events, otherwise) ==
    IF events = {} THEN otherwise
    ELSE CHOOSE e \in events : \A d \in events : d = e \/ Before(d, e)

\* A page that is full, with more behind it, has a nextCursor.
MoreBehind(kinds, events, cursor, from, to) ==
    /\ events # {}
    /\ ListEvents(kinds, LastId(events, cursor), from, to) # {}

Knowledge == {"change", "touch"}

------------------------------------------------------------------------------
(* createMemorySync *)

\* no guard against overlapping polls
InFlight_bug == FALSE

\* pollOnce returns at once while a call of it is in flight.
InFlight == \E p \in Poll : page[p].busy

\* The first poll asks for the watermark.  The promise is kept: when it is
\* rejected, so is every later poll.
ResolveCursor ==
    /\ sync.state = "new"
    /\ sync' = [state |-> "ready", start |-> watermark.last, cursor |-> watermark.last]
    /\ UNCHANGED <<logVars, page, received, dropped, since, snap>>

ResolveFails ==
    /\ "resolve" \in Faults
    /\ sync.state = "new"
    /\ sync' = [sync EXCEPT !.state = "failed"]
    /\ UNCHANGED <<logVars, page, received, dropped, since, snap>>

\* the cursor moves to the watermark, beyond what the page holds
ReadPage_skip_bug(p) ==
    /\ sync.state = "ready"
    /\ ~InFlight
    /\ ~page[p].busy
    /\ page' = [page EXCEPT ![p] = [busy |-> TRUE, next |-> watermark.last,
                 events |-> ListEvents(Knowledge, sync.cursor, 0, MaxTime)]]
    /\ UNCHANGED <<logVars, sync, received, dropped, since, snap>>

\* the cursor only moves to the last event that is handed on
ReadPage_bug(p) ==
    /\ sync.state = "ready"
    /\ ~InFlight
    /\ ~page[p].busy
    /\ LET events == ListEvents(Knowledge, sync.cursor, 0, MaxTime) IN
       page' = [page EXCEPT ![p] = [busy |-> TRUE, events |-> events,
                                    next |-> LastId(Changes(events), sync.cursor)]]
    /\ UNCHANGED <<logVars, sync, received, dropped, since, snap>>

ReadPage(p) ==
    /\ sync.state = "ready"
    /\ ~InFlight
    /\ ~page[p].busy
    /\ LET events == ListEvents(Knowledge, sync.cursor, 0, MaxTime) IN
       page' = [page EXCEPT ![p] = [busy |-> TRUE, events |-> events,
                                    next |-> LastId(events, sync.cursor)]]
    /\ UNCHANGED <<logVars, sync, received, dropped, since, snap>>

ReadFails(p) ==
    /\ "list" \in Faults
    /\ page[p].busy
    /\ page' = [page EXCEPT ![p] = NoPage]
    /\ UNCHANGED <<logVars, sync, received, dropped, since, snap>>

\* The cursor moves first; then the handlers are called one after another,
\* up to and including the one that throws.
Deliver(p, called) ==
    /\ page[p].busy
    /\ called = Handler \/ ("handler" \in Faults /\ Changes(page[p].events) # {})
    /\ sync' = [sync EXCEPT !.cursor = page[p].next]
    /\ received' = [h \in Handler |-> [e \in Id |->
           received[h][e] + IF h \in called /\ e \in Changes(page[p].events) THEN 1 ELSE 0]]
    /\ dropped' = [h \in Handler |->
           dropped[h] \cup IF h \in called THEN {} ELSE Changes(page[p].events)]
    /\ page' = [page EXCEPT ![p] = NoPage]
    /\ UNCHANGED <<logVars, since, snap>>

\* The handlers called before and with a thrower.
UpTo(h) == 1..h

------------------------------------------------------------------------------
(* listKnowledgeChanges({ since }) *)

\* Bound: of these calls and of snapshots, which share no state, one is made.
NoCallYet == since.state = "idle" /\ snap.state = "idle"

SinceStart(from) ==
    /\ NoCallYet
    /\ since' = [state |-> "paging", from |-> from, cursor |-> 0, got |-> {},
                 begun |-> Changes(committed)]
    /\ UNCHANGED <<logVars, syncVars, snap>>

\* the first page is the answer
SincePage_bug ==
    /\ since.state = "paging"
    /\ LET events == ListEvents(Knowledge, since.cursor, since.from, MaxTime)
           last   == LastId(events, since.cursor)
       IN since' = [since EXCEPT !.got = @ \cup Changes(events), !.cursor = last,
                                 !.state = IF last = 0 THEN "resolving" ELSE "done"]
    /\ UNCHANGED <<logVars, syncVars, snap>>

\* One page.  Without a cursor behind it, an empty one leaves the caller the
\* watermark, read afterwards, to go on from.
SincePage ==
    /\ since.state = "paging"
    /\ LET events == ListEvents(Knowledge, since.cursor, since.from, MaxTime)
           last   == LastId(events, since.cursor)
       IN since' = [since EXCEPT
            !.got = @ \cup Changes(events),
            !.cursor = last,
            !.state = IF MoreBehind(Knowledge, events, since.cursor, since.from, MaxTime)
                      THEN "paging" ELSE IF last = 0 THEN "resolving" ELSE "done"]
    /\ UNCHANGED <<logVars, syncVars, snap>>

SinceResolve ==
    /\ since.state = "resolving"
    /\ since' = [since EXCEPT !.state = "done", !.cursor = watermark.last]
    /\ UNCHANGED <<logVars, syncVars, snap>>

------------------------------------------------------------------------------
(* captureSnapshot *)

\* The pin: with nothing logged the snapshot is the live context.
SnapPin ==
    /\ NoCallYet
    /\ watermark.last # 0
    /\ snap' = [state |-> "pinned", pin |-> watermark, events |-> {},
                pinned |-> {e \in committed : e <= watermark.last}]
    /\ UNCHANGED <<logVars, syncVars, since>>

\* the date alone bounds the replay
SnapReplay_bug ==
    /\ snap.state = "pinned"
    /\ snap' = [snap EXCEPT !.state = "done",
                             !.events = {e \in committed : log[e].at <= snap.pin.at}]
    /\ UNCHANGED <<logVars, syncVars, since>>

\* The replay reads up to the date of the pin and drops what lies behind its id.
SnapReplay ==
    /\ snap.state = "pinned"
    /\ snap' = [snap EXCEPT !.state = "done",
           !.events = {e \in committed : log[e].at <= snap.pin.at /\ e <= snap.pin.last}]
    /\ UNCHANGED <<logVars, syncVars, since>>

\* A pin dated before the store's cutover_at cannot be replayed: the caller gets
\* the live context, and no watermark id with it.
SnapLive ==
    /\ snap.state = "pinned"
    /\ \E cutover \in 0..MaxTime : snap.pin.at < cutover
    /\ snap' = [snap EXCEPT !.state = "live"]
    /\ UNCHANGED <<logVars, syncVars, since>>

------------------------------------------------------------------------------

Write == \E kind \in Kinds, at \in 0..MaxTime :
    WriteSerial(kind, at) \/ \E w \in Writer : Insert(w, kind, at)

Next ==
    \/ Write
    \/ \E w \in Writer : Commit(w) \/ Rollback(w)
    \/ ResolveCursor \/ ResolveFails
    \/ \E p \in Poll : ReadPage(p) \/ ReadFails(p)
    \/ \E p \in Poll, h \in Handler : Deliver(p, UpTo(h))
    \/ \E from \in 0..MaxTime : SinceStart(from)
    \/ SincePage \/ SinceResolve
    \/ SnapPin \/ SnapReplay \/ SnapLive

Spec == Init /\ [][Next]_vars

\* The interval timer goes on polling, and a listing does not fail for ever.
FairSpec ==
    /\ Spec
    /\ WF_vars(ResolveCursor)
    /\ \A p \in Poll : WF_vars(ReadPage(p)) /\ SF_vars(\E h \in Handler : Deliver(p, UpTo(h)))

------------------------------------------------------------------------------
(* Properties *)

\* A subscriber is told of every change logged after it began, listings that
\* fail and pages of mere touches notwithstanding, once its first read of the
\* watermark has succeeded.
FeedReaches ==
    \A e \in Id :
        (e \in Changes(committed) /\ sync.state = "ready" /\ sync.start < e)
            ~> (\A h \in Handler : received[h][e] >= 1 \/ e \in dropped[h] \cup late)
==============================================================================
