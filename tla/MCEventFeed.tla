---------------------------- MODULE MCEventFeed ----------------------------
(* EventFeed with three events, for TLC. *)
EXTENDS EventFeed, TLC

CONSTANTS w1, w2, p1, p2

TwoWriters  == {w1, w2}
TwoPolls    == {p1, p2}
ChangesOnly == {"change"}
BothKinds   == {"change", "touch"}
AllFaults   == {"resolve", "list", "handler"}
NoFaults    == {}
AnyAdapter  == {"serial", "postgres"}
OnlySerial  == {"serial"}
OnlyPostgres == {"postgres"}
=============================================================================
