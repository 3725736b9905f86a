--------------------------- MODULE CircuitBreaker ---------------------------
(***************************************************************************)
(* createCircuitBreaker (src/core/circuit-breaker.ts): the guard in front   *)
(* of the summarizer, the extractor and the embedding provider.  One        *)
(* breaker is shared by every call in flight, and `execute` awaits the      *)
(* provider, so that calls start and settle in any order.                   *)
(*                                                                         *)
(* Only comparisons with failureThreshold and resetTimeoutMs matter:        *)
(* failures are counted up to the threshold, and age is the time since      *)
(* openedAt, up to the reset timeout.                                       *)
(***************************************************************************)
EXTENDS BreakerState, FiniteSets

CONSTANTS
    Call,              \* callers of execute
    MaxRunning         \* bound: calls in flight at a time

ASSUME BreakerAssumption ==
    /\ IsFiniteSet(Call)
    /\ FailureThreshold \in Nat \ {0} /\ ResetTimeout \in Nat \ {0} /\ MaxRunning \in Nat

VARIABLE
    call       \* "idle", "running", or how the caller's last call ended

vars == <<breaker, failures, age, call>>

Running == {c \in Call : call[c] = "running"}

CanProbe_bug == breaker = "open" /\ age > 0
CanProbe == breaker = "open" /\ age = ResetTimeout

Init ==
    /\ breaker = "closed"
    /\ failures = 0
    /\ age = ResetTimeout
    /\ call = [c \in Call |-> "idle"]

Tick ==
    /\ age < ResetTimeout
    /\ age' = age + 1
    /\ UNCHANGED <<breaker, failures, call>>

Start(c) ==
    /\ call[c] # "running" /\ Cardinality(Running) < MaxRunning
    /\ breaker # "open" \/ CanProbe
    /\ breaker' = IF CanProbe THEN "half_open" ELSE breaker
    /\ call' = [call EXCEPT ![c] = "running"]
    /\ UNCHANGED <<failures, age>>

\* a call that is turned down counts as a failure
Reject_bug(c) ==
    /\ call[c] # "running"
    /\ breaker = "open" /\ ~CanProbe
    /\ call' = [call EXCEPT ![c] = "rejected"]
    /\ age' = 0
    /\ UNCHANGED <<breaker, failures>>

Reject(c) ==
    /\ call[c] # "running"
    /\ breaker = "open" /\ ~CanProbe
    /\ call' = [call EXCEPT ![c] = "rejected"]
    /\ UNCHANGED <<breaker, failures, age>>

\* a success closes the breaker and leaves the count
Succeed_bug(c) ==
    /\ call[c] = "running"
    /\ breaker' = "closed"
    /\ call' = [call EXCEPT ![c] = "succeeded"]
    /\ UNCHANGED <<failures, age>>

Succeed(c) ==
    /\ call[c] = "running"
    /\ failures' = 0
    /\ breaker' = "closed"
    /\ call' = [call EXCEPT ![c] = "succeeded"]
    /\ UNCHANGED age

\* Whichever state the call started in: what counts is the state it ends in.
Fail(c) ==
    /\ call[c] = "running"
    /\ failures' = IF failures < FailureThreshold THEN failures + 1 ELSE failures
    /\ IF failures' = FailureThreshold \/ breaker = "half_open"
       THEN breaker' = "open" /\ age' = 0
       ELSE UNCHANGED <<breaker, age>>
    /\ call' = [call EXCEPT ![c] = "failed"]

Next == Tick \/ \E c \in Call : Start(c) \/ Reject(c) \/ Succeed(c) \/ Fail(c)

Spec == Init /\ [][Next]_vars

\* Time passes; neither callers nor providers are fair.
FairSpec == Spec /\ WF_vars(Tick)

-----------------------------------------------------------------------------
\* A breaker that is not closed has counted a failure.
TypeOK ==
    /\ breaker \in {"closed", "open", "half_open"}
    /\ failures \in 0..FailureThreshold
    /\ age \in 0..ResetTimeout
    /\ call \in [Call -> {"idle", "running", "rejected", "succeeded", "failed"}]
    /\ breaker # "closed" => failures > 0

\* "opens after repeated failures and rejects until reset timeout elapses": no
\* call reaches the provider before the reset timeout has passed since the
\* breaker last opened.
RejectsUntilReset ==
    [][\A c \in Call : call[c] # "running" /\ call'[c] = "running" => age = ResetTimeout]_vars

\* The breaker does not stay shut: calls turned down or settling late cannot
\* keep a probe away for ever.
ProbesAgain == breaker = "open" ~> breaker # "open" \/ CanProbe
=============================================================================
