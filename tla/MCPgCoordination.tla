-------------------------- MODULE MCPgCoordination --------------------------
(* PgCoordination with two actors and one or two handoffs, for TLC. *)
EXTENDS PgCoordination

CONSTANTS a1, a2, h1, p1, p2

TwoActors    == {a1, a2}
OneHandoff   == {h1}
TwoProcesses == {p1, p2}

FromA1 == [h \in HandoffId |-> a1]
ToA2   == [h \in HandoffId |-> a2]
AtOne  == [h \in HandoffId |-> 1]
AtTwo  == [h \in HandoffId |-> 2]
=============================================================================
