---------------------------- MODULE MCCompaction ----------------------------
(* Compaction with two calls in flight, for TLC. *)
EXTENDS Compaction, TLC

CONSTANTS p1, p2

TwoCalls == {p1, p2}

Config(strategy, throws, awaits) ==
    [summarizer |-> strategy, hooksThrow |-> throws, awaited |-> awaits]

SomeConfigs ==
    { Config("retry_once", TRUE, FALSE),
      Config("log_and_continue", FALSE, FALSE),
      Config("retry_once", FALSE, TRUE),
      Config("log_and_continue", FALSE, TRUE),
      Config("throw", FALSE, FALSE) }

Symmetry == Permutations(Process)
=============================================================================
