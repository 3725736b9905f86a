--------------------------- MODULE MCStorageParity ---------------------------
(* StorageParity with five scopes and a few inputs for each table. *)
EXTENDS StorageParity

CONSTANTS s1, s2, ship, fix

AScope(tenant, system, workspace, collab, scope) ==
    [tenant |-> tenant, system |-> system, workspace |-> workspace, collab |-> collab,
     scope |-> scope]
a == AScope("t1", "y1", "w1", "c1", "x1")
b == AScope("t1", "y1", "w1", "c1", "x2")                \* a collaborator of a
c == AScope("t1", "y2", "w1", NoCollaboration, "x1")     \* another system, the same workspace
d == AScope("t1", "y1", "w2", "c1", "x1")                \* another workspace
e == AScope("t2", "y1", "w1", "c1", "x1")                \* another tenant
FiveScopes == {a, b, c, d, e}
TwoScopes == {a, b}
TwoSessions == {s1, s2}
SomeWords == {{ship}, {ship, fix}}
AllParts == {"turns", "working", "knowledge", "learning", "items", "logs", "playbooks",
             "associations", "sessions", "documents", "settings"}

\* `at' 1 is backdated: a store starts at 2.
Turns == {[own |-> own, session |-> s1, words |-> {ship}, at |-> None, valid |-> TRUE] :
             own \in {a, b}}
         \cup {[own |-> a, session |-> s2, words |-> {ship, fix}, at |-> 1, valid |-> TRUE]}
Working == [own : {a, b}, session : {s1}, expires : {None}]
           \cup {[own |-> a, session |-> s2, expires |-> 3]}

AFact(own, class, words, state, at) ==
    [own |-> own, class |-> class, words |-> words, state |-> state, kclass |-> None, trust |-> 1,
     tags |-> {}, at |-> at, valid |-> TRUE]
Knowledge == {AFact(a, "private", {ship}, None, None),
              AFact(a, "shared_collaboration", {ship, fix}, "provisional", 1),
              AFact(c, "shared_collaboration", {fix}, None, None),
              AFact(d, "workspace", {ship}, None, 1)}
NewStates == {[state |-> "disputed", trust |-> 0]}
Candidates == {[own |-> a, state |-> None, at |-> at, valid |-> TRUE] : at \in {None, 1}}
              \cup {[own |-> b, state |-> None, at |-> 1, valid |-> TRUE]}
Evidence == {[own |-> a, knowledge |-> 1, candidate |-> None, at |-> None, valid |-> TRUE],
             [own |-> a, knowledge |-> None, candidate |-> 1, at |-> 1, valid |-> TRUE]}
Audits == {[own |-> a, created |-> 1, related |-> None, at |-> None],
           [own |-> b, created |-> 2, related |-> 1, at |-> None]}

Items == {[own |-> own, class |-> class, session |-> None, status |-> None, at |-> at] :
             own \in {a, d}, class \in {"workspace"}, at \in {None, 1}}
         \cup {[own |-> c, class |-> "shared_collaboration", session |-> s1, status |-> None,
                at |-> None],
               [own |-> b, class |-> None, session |-> s1, status |-> "done", at |-> None]}
NewItems == {[status |-> "done"], [class |-> "private"], [class |-> "tenant", status |-> "open"]}
Monitors == {[own |-> own, state |-> state, compacted |-> compacted] :
                own \in {a, b}, state \in {"ok", "full"}, compacted \in {None, 1}}
Compactions == {[own |-> own, session |-> s1, at |-> at] : own \in {a, b}, at \in {None, 1}}

Playbooks == {[own |-> a, class |-> "workspace", words |-> {ship, fix}, status |-> None,
               session |-> s1, at |-> 1],
              [own |-> c, class |-> "shared_collaboration", words |-> {ship}, status |-> "active",
               session |-> None, at |-> None],
              [own |-> b, class |-> None, words |-> {fix}, status |-> "active",
               session |-> None, at |-> None]}
NewPlaybooks == {[status |-> "deprecated"], [words |-> {ship, fix}]}
AnAssociation(class, at) ==
    [own : {a, b}, class : class, source : {1}, target : {1, 2}, type : {"supports"}, at : at]
Associations == AnAssociation({None}, {None, 1})

States == [own : {a}, session : {s1, s2}, state : {1, 2}, at : {1, 2}]
          \cup [own : {b}, session : {s1}, state : {1}, at : {1}]
Documents == [own : {a, b}, hash : {"hash", "other"}, status : {None}]

SomeRanges == {[from |-> 2, to |-> None], [from |-> None, to |-> 1]}
Pages == {[limit |-> 1], [limit |-> 1, cursor |-> 1], [limit |-> 2, offset |-> 1]}
Searches == {[activeOnly |-> FALSE, includeDisputed |-> TRUE],
             [states |-> {"provisional"}, includeProvisional |-> TRUE],
             [minimumTrust |-> 1]}
Timelines == {[limit |-> 1, cursor |-> 1], [from |-> 2, limit |-> 2], [session |-> s1]}
==============================================================================
