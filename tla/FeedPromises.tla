---------------------------- MODULE FeedPromises ----------------------------
(***************************************************************************)
(* What the readers of an event log are promised (EventFeed): the state    *)
(* of the log and of its readers, and the properties stated of them.       *)
(***************************************************************************)
EXTENDS Naturals

CONSTANTS
    Writer,       \* connections that write
    Handlers,     \* how many onKnowledgeChange registered
    Poll,         \* calls of pollOnce that may overlap
    Kinds,        \* of events: a subset of "change", "touch", "other"
    Faults,       \* what may fail: a subset of "resolve", "list", "handler"
    Adapters,     \* a subset of "serial" (SQLite, memory), "postgres"
    Backdating,   \* whether callers pass a created_at that lies in the past
    Limit,        \* events on a page
    MaxEvents,    \* bound: event ids
    MaxPgEvents,  \* bound: event ids on Postgres, at most MaxEvents
    MaxTime       \* bound: dates, in seconds

ASSUME FeedAssumption ==
    /\ Limit \in Nat \ {0}
    /\ MaxEvents \in Nat
    /\ MaxPgEvents \in 0..MaxEvents
    /\ MaxTime \in Nat
    /\ Backdating \in BOOLEAN
    /\ Adapters \subseteq {"serial", "postgres"}
    /\ Handlers \in Nat \ {0}

VARIABLES
    adapter,      \* the one the manager was made with: it never changes
    log,          \* the rows of memory_event_log by event_id, committed or not
    committed,    \* the ids a reader can see
    late,         \* history: ids that became visible after a greater one
    open,         \* writer -> the id its open transaction has inserted, 0 for none
    watermark,    \* projection_watermarks, row 'temporal'
    sync,         \* createMemorySync: the cursor it polls from
    page,         \* poll -> what its listing returned, NoPage when it is not in flight
    received,     \* handler -> id -> how often the handler was called with it
    dropped,      \* handler -> ids of pages an earlier handler threw on
    since,        \* one listKnowledgeChanges({since})
    snap          \* one captureSnapshot

Id == 1..MaxEvents
\* They are called in the order in which they were registered.
Handler == 1..Handlers
Changes(events) == {e \in events : log[e].kind = "change"}

\* The changes a subscriber has been carried past: logged after it began,
\* at or before its cursor.
Passed == {e \in Changes(committed) : sync.start < e /\ e <= sync.cursor}

\* The cursor of createMemorySync passes a knowledge change that a handler has
\* not been called with only if a handler before it threw on that page, or if
\* the change became visible after one with a greater id.  created_at, which
\* may be dated back, makes no difference.
FeedComplete ==
    \A h \in Handler : \A e \in Passed :
        received[h][e] >= 1 \/ e \in dropped[h] \/ e \in late

\* Without the last exception: listing in the order of event_id, the "true
\* causal order", skips nothing.
FeedSkipsNothing ==
    \A h \in Handler : \A e \in Passed : received[h][e] >= 1 \/ e \in dropped[h]

\* No handler is called twice with one change, however slow a poll is: the
\* timer starts the next pollOnce while the last one still waits.
DeliveredOnce == \A h \in Handler, e \in Id : received[h][e] <= 1

\* listKnowledgeChanges({since}) returns every change of that date logged when
\* it was called, over as many pages as it takes, and the cursor it leaves
\* passes no change it did not return.  The exceptions are ids that appear late
\* and an empty listing: the watermark is read after it, and what is logged in
\* between lies before the cursor and was not returned.
SinceComplete ==
    since.state = "done" =>
        \A e \in Changes(committed) :
            /\ log[e].at >= since.from
            /\ e \in since.begun \/ (e <= since.cursor /\ since.got # {})
            => e \in since.got \cup late

\* A snapshot shows nothing logged after its pin, although the replay reads
\* the log later, and misses nothing before it but what is dated after it.
SnapshotPinned ==
    snap.state = "done" =>
        snap.events \ late = {e \in snap.pinned : log[e].at <= snap.pin.at} \ late
=============================================================================
