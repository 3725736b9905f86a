------------------------ MODULE MCMemoryCoordination ------------------------
(* MemoryCoordination on small sets, for TLC. *)
EXTENDS MemoryCoordination

CONSTANTS a1, a2, i1

TwoActors == {a1, a2}
OneItem   == {i1}

OneTick   == {1}
SomeDeadlines == {2, NoDeadline}
=============================================================================
