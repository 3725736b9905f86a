---------------------------- MODULE LeaseContract ----------------------------
(***************************************************************************)
(* What work claims and handoffs promise the agents that use them, without  *)
(* tables, ids or events: a work item has at most one holder, its lease     *)
(* lasts until a deadline that only moves forward, and the item passes from *)
(* one holder straight to another only by an offer of the first to the      *)
(* second that is still open, which that passage uses up.                   *)
(***************************************************************************)
EXTENDS Naturals

CONSTANTS Actor, Item, OfferId, Nobody, NoOffer

VARIABLES
    now,      \* the time
    holder,   \* who holds each item, or Nobody
    until,    \* when the holder's lease ends (0 when nobody holds the item)
    offer     \* the open offers: [item, from, to], or NoOffer

vars == <<now, holder, until, offer>>

Init ==
    /\ now = 0
    /\ holder = [i \in Item |-> Nobody]
    /\ until = [i \in Item |-> 0]
    /\ offer = [o \in OfferId |-> NoOffer]

\* Only item i changes, from here on held by a for some time to come.
HeldBy(i, a) ==
    /\ holder' = [holder EXCEPT ![i] = a]
    /\ until' = [until EXCEPT ![i] = until'[i]]
    /\ until'[i] > now

Acquire(i, a) ==
    /\ holder[i] = Nobody
    /\ HeldBy(i, a)
    /\ UNCHANGED <<now, offer>>

Extend(i) ==
    /\ holder[i] # Nobody
    /\ until'[i] >= until[i]
    /\ HeldBy(i, holder[i])
    /\ UNCHANGED <<now, offer>>

Relinquish(i) ==
    /\ holder' = [holder EXCEPT ![i] = Nobody]
    /\ until' = [until EXCEPT ![i] = 0]
    /\ UNCHANGED <<now, offer>>

MakeOffer(o, from, to, i) ==
    /\ offer[o] = NoOffer
    /\ offer' = [offer EXCEPT ![o] = [item |-> i, from |-> from, to |-> to]]
    /\ UNCHANGED <<now, holder, until>>

EndOffer(o) ==
    /\ offer' = [offer EXCEPT ![o] = NoOffer]
    /\ UNCHANGED <<now, holder, until>>

Transfer(o) ==
    /\ offer[o] # NoOffer
    /\ holder[offer[o].item] \in {Nobody, offer[o].from}
    /\ HeldBy(offer[o].item, offer[o].to)
    /\ offer' = [offer EXCEPT ![o] = NoOffer]
    /\ UNCHANGED now

\* The item goes away, and with it its lease and its offers.
Drop(i) ==
    /\ holder' = [holder EXCEPT ![i] = Nobody]
    /\ until' = [until EXCEPT ![i] = 0]
    /\ offer' = [o \in OfferId |->
                   IF offer[o] # NoOffer /\ offer[o].item = i THEN NoOffer ELSE offer[o]]
    /\ UNCHANGED now

\* A lease ends exactly when its deadline is reached; offers may end too.
Pass ==
    /\ now' = now + 1
    /\ holder' = [i \in Item |-> IF until[i] <= now' THEN Nobody ELSE holder[i]]
    /\ until' = [i \in Item |-> IF until[i] <= now' THEN 0 ELSE until[i]]
    /\ \A o \in OfferId : offer'[o] \in {offer[o], NoOffer}
    /\ offer' = [o \in OfferId |-> offer'[o]]

Next ==
    \/ Pass
    \/ \E i \in Item : Extend(i) \/ Relinquish(i) \/ Drop(i)
    \/ \E i \in Item, a \in Actor : Acquire(i, a)
    \/ \E o \in OfferId : EndOffer(o) \/ Transfer(o)
    \/ \E o \in OfferId, from, to \in Actor, i \in Item : MakeOffer(o, from, to, i)

Spec == Init /\ [][Next]_vars
=============================================================================
