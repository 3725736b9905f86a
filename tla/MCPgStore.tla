----------------------------- MODULE MCPgStore -----------------------------
(* PgStore with two connections, for TLC. *)
EXTENDS PgStore, TLC
CONSTANTS p1, p2
TwoProcesses == {p1, p2}
TwoTexts == {"a", "b"}
Symmetry == Permutations(Process)
OneText == {"a"}
Third == {"touchKnowledgeMemory", "updateWorkItem",
          "deleteExpiredKnowledgeCandidates"}
OnlyRevise == {"revise"}
=============================================================================
