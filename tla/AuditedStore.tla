---------------------------- MODULE AuditedStore ----------------------------
(***************************************************************************)
(* What the event log promises of the tables: every change of a row comes   *)
(* with an event that carries the row as it is afterwards, and the events   *)
(* of one row are numbered in the order of its changes.  Events of         *)
(* different rows may become visible out of order.                          *)
(***************************************************************************)
EXTENDS Naturals

CONSTANTS Keys, Rows, NoRow

VARIABLES
    table,   \* the row of each key, or NoRow
    log      \* the events: [id, key, after]

vars == <<table, log>>

Event == [id : Nat, key : Keys, after : Rows \cup {NoRow}]

OfKey(S, k) == {e \in S : e.key = k}

\* e is the last event of its key in S.
LastIn(S, e) == /\ e \in S
                /\ \A f \in OfKey(S, e.key) : f.id <= e.id

\* Replay is the live state: the last event of a key carries its row, and a key
\* without events has none.
ReplayIsLive ==
    \A k \in Keys : \/ OfKey(log, k) = {} /\ table[k] = NoRow
                    \/ \E e \in log : e.key = k /\ LastIn(log, e) /\ e.after = table[k]
\* Any database whose log is complete.
Init == /\ table \in [Keys -> Rows \cup {NoRow}]
        /\ log \subseteq Event
        /\ ReplayIsLive

\* A number of changes at once, as one transaction brings them: new events,
\* each later than what the log has of its key, and the rows the last of them show.
\* Only an event that says what the log says already may come late, as another
\* deletion of a row that is gone.
Record(new) ==
    /\ new # {}
    /\ log' = log \cup new
    /\ \A e \in new, f \in log : f.key = e.key => f.id < e.id \/ f.after = e.after
    /\ \A e, f \in new : e.id = f.id => e = f
    /\ table' = [k \in Keys |-> IF OfKey(new, k) = {} THEN table[k]
                                ELSE (CHOOSE e \in new : e.key = k /\ LastIn(new, e)).after]

Next == Record({e \in log' : e \notin log})

Spec == Init /\ [][Next]_vars
=============================================================================
