--------------------------- MODULE MCServerContext ---------------------------
(***************************************************************************)
(* ServerContext for TLC.  A behaviour follows the call or the managers,   *)
(* as part says: they share no state, and the product of the two is not    *)
(* explored.                                                               *)
(*                                                                         *)
(* For the call: four facts, two of them in the core and one that the      *)
(* filters hold back; up to three turns; budgets from nothing to more than *)
(* everything.  For the managers: two requests at a time on a scope with   *)
(* one session.                                                            *)
(***************************************************************************)
EXTENDS ServerContext, TLC

CONSTANTS r1, r2     \* the requests

VARIABLE part        \* "call" or "managers"

MCFacts == 1..4
MCMeets == {1, 2, 4}
MCCore == {2, 3, 4}
MCType == <<"a", "a", "a", "b">>
MCSlot == <<"s", "t", "s", "t">>
MCScore == <<5, 4, 6, 3>>
MCFactSize == <<1, 2, 1, 1>>
MCWeight == [p \in Pairs |-> p[1] + p[2]]
MCPriority == <<2, 1, 2>>
MCTurnSize == <<1, 2, 1>>
MCInvariants == <<[size |-> 1, critical |-> TRUE], [size |-> 1, critical |-> FALSE]>>
MCPlaybooks == <<1, 2>>
MCBudgets == {0, 4, 7, 20}

MCSymmetry == Permutations({r1, r2})

MCInit ==
    /\ part \in {"call", "managers"}
    /\ Init /\ SM!Init
    /\ part = "managers" => /\ links = {}
                            /\ budget = CHOOSE b \in Budgets : TRUE

CallStep == part = "call" /\ Next /\ UNCHANGED <<part, server>>

ManagersStep == part = "managers" /\ SM!Next /\ UNCHANGED <<part, vars>>

MCNext == CallStep \/ ManagersStep

MCSpec == MCInit /\ [][MCNext]_<<part, vars, server>>
=============================================================================
