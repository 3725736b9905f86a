---------------------------- MODULE ScopeManagers ----------------------------
(***************************************************************************)
(* The managers a server keeps for one scope (src/server/server-context.ts)*)
(* and the configuration each of them holds a copy of: the alias map, read *)
(* when a manager is built, and the governance of the scope, of which one  *)
(* invariant is modelled, read when it is first needed                     *)
(* (src/core/capabilities/governance.ts).                                  *)
(*                                                                         *)
(* The base manager and one manager a session are cached.  A request that  *)
(* finds none builds one, waits for the stored aliases and then puts it    *)
(* into the cache; other scopes' requests push entries out.  An update     *)
(* goes to the storage and to every manager of the scope that is in the    *)
(* cache when it has got the base manager, one after the other: aliases    *)
(* are stored first and then handed out, governance is set and stored by   *)
(* each manager in turn.  getAliases refreshes every manager first.        *)
(*                                                                         *)
(* A step ends where the code waits for the storage.                       *)
(***************************************************************************)
EXTENDS ServerScope, Integers, FiniteSets, SequencesExt

Base == "base"

Targets == {Base} \cup Sessions

Kinds == {"use", "refresh", "aliases", "put", "delete"}

VARIABLES
    storedAliases,   \* scope_config
    storedInvariant, \* the row of context_invariants: None, a value or Deleted
    managers,        \* every manager built, in that order
    cache,           \* for each target its manager, 0 if none is cached
    req,             \* what each request is doing
    received, failures, restarts,
    apart,           \* updates have not overlapped, and none has failed half-way
    mixed            \* managers built or loaded while an update was under way

vars == <<storedAliases, storedInvariant, managers, cache, req, received,
          failures, restarts, apart, mixed>>

stored == <<storedAliases, storedInvariant>>

Idle == [pc |-> "idle", kind |-> "use", target |-> Base, value |-> None,
         visit |-> <<>>, aliases |-> None, mixed |-> FALSE]

\* What a manager that loads this row ends up with.
Effective(row) == IF row = None THEN Configured ELSE IF row = Deleted THEN None ELSE row

Updating(r) == req[r].pc # "idle" /\ req[r].kind # "use"

OtherUpdate(r) == \E q \in Requests \ {r} : Updating(q)

Loading(m) == managers[m].governance = "loading"

Goto(r, to) == req' = [req EXCEPT ![r].pc = to]

\* The request is answered, or its promise rejects and the server answers 500.
Answer(r) == req' = [req EXCEPT ![r] = Idle]

CallFails(r) == failures < MaxFailures /\ failures' = failures + 1 /\ Answer(r)

Init ==
    /\ storedAliases = None /\ storedInvariant = None
    /\ managers = <<>> /\ cache = [t \in Targets |-> 0]
    /\ req = [r \in Requests |-> Idle]
    /\ received = 0 /\ failures = 0 /\ restarts = 0
    /\ apart = TRUE /\ mixed = {}
-----------------------------------------------------------------------------
\* Requests come in.

\* Where a request begins: an alias map is stored, a refresh reads it back, the
\* others ask for their manager.
First(kind) == CASE kind = "aliases" -> "save" [] kind = "refresh" -> "read" [] OTHER -> "get"

Receive(r) ==
    /\ req[r].pc = "idle" /\ received < MaxRequests
    /\ received' = received + 1
    /\ \E kind \in Kinds, t \in Targets, v \in Values :
          /\ kind # "use" => t = Base
          /\ kind \notin {"aliases", "put"} => v = CHOOSE w \in Values : TRUE
          /\ kind = "put" => v # Configured   \* bound: not the invariant that is there unasked
          /\ req' = [q \in Requests |->
                IF q = r THEN [Idle EXCEPT !.pc = First(kind), !.kind = kind, !.target = t, !.value = v]
                ELSE IF kind # "use" /\ req[q].pc = "build" THEN [req[q] EXCEPT !.mixed = TRUE]
                ELSE req[q]]
          /\ apart' = (apart /\ ~(kind # "use" /\ OtherUpdate(r)))
          /\ mixed' = IF kind # "use" THEN mixed \cup {m \in DOMAIN managers : Loading(m)} ELSE mixed
    /\ UNCHANGED <<stored, managers, cache, failures, restarts>>

\* saveAliases: the storage first.
SaveAliases(r) ==
    /\ req[r].pc = "save"
    /\ storedAliases' = req[r].value
    /\ Goto(r, "get")
    /\ UNCHANGED <<storedInvariant, managers, cache, received, failures, restarts, apart, mixed>>

\* refreshScopeConfig: what is stored goes to every manager, unless there is none.
ReadAliases(r) ==
    /\ req[r].pc = "read"
    /\ req' = [req EXCEPT ![r].pc = "get", ![r].value = storedAliases]
    /\ UNCHANGED <<stored, managers, cache, received, failures, restarts, apart, mixed>>

StorageFails(r) ==
    /\ req[r].pc \in {"save", "read", "get"}
    /\ req[r].pc = "get" => cache[req[r].target] = 0
    /\ CallFails(r)
    /\ apart' = (apart /\ (req[r].kind = "aliases" => req[r].pc = "save"))
    /\ UNCHANGED <<stored, managers, cache, received, restarts, mixed>>
-----------------------------------------------------------------------------
\* getManager, getSessionManager.

\* Mutated forms (suffix _bug, each ahead of the definition it stands in for) are
\* what a plausible slip in the code would give; no specification uses them.
\* The base alone.
ScopeList_bug(m) == {m}

\* The managers an update goes to: the base and the sessions' cached ones.
ScopeList(m) ==
    LET sessions == {cache[s] : s \in Sessions} \ {0}
    IN  {m} \cup sessions

\* A use has one manager; an update lists those of the scope.
Got(r, m) ==
    IF req[r].kind = "use" THEN <<m>> ELSE <<m>> \o SetToSeq(ScopeList(m) \ {m})

Hit(r) ==
    /\ req[r].pc = "get" /\ cache[req[r].target] # 0
    /\ req' = [req EXCEPT ![r].pc = "visit", ![r].visit = Got(r, cache[req[r].target])]
    /\ UNCHANGED <<stored, managers, cache, received, failures, restarts, apart, mixed>>

\* hydrateManager reads while the manager is in no cache.
Hydrate(r) ==
    /\ req[r].pc = "get" /\ cache[req[r].target] = 0
    /\ Len(managers) + Cardinality({q \in Requests : req[q].pc = "build"}) < MaxManagers
    /\ req' = [req EXCEPT ![r].pc = "build", ![r].aliases = storedAliases,
                          ![r].mixed = OtherUpdate(r)]
    /\ UNCHANGED <<stored, managers, cache, received, failures, restarts, apart, mixed>>

\* touchCache puts the manager in the place of one built in the meantime.
Insert(r) ==
    /\ req[r].pc = "build"
    /\ LET m == Len(managers) + 1
       IN  /\ managers' = Append(managers, [aliases |-> req[r].aliases, invariant |-> Configured,
                                            governance |-> "unread", found |-> None])
           /\ cache' = [cache EXCEPT ![req[r].target] = m]
           /\ req' = [req EXCEPT ![r].pc = "visit", ![r].visit = Got(r, m)]
           /\ mixed' = IF req[r].mixed THEN mixed \cup {m} ELSE mixed
    /\ UNCHANGED <<stored, received, failures, restarts, apart>>

\* Requests of other scopes push the entry out; who holds the manager keeps it.
Evict(t) ==
    /\ cache[t] # 0
    /\ cache' = [cache EXCEPT ![t] = 0]
    /\ UNCHANGED <<stored, managers, req, received, failures, restarts, apart, mixed>>
-----------------------------------------------------------------------------
\* ensureGovernanceLoaded: the first caller reads, all of them wait for it.

Current(r) == Head(req[r].visit)

Visiting(r) == req[r].pc = "visit" /\ req[r].visit # <<>>

NeedsGovernance(r) == Visiting(r) /\ req[r].kind \in {"use", "put", "delete"}

ReadGovernance(r) ==
    /\ NeedsGovernance(r) /\ managers[Current(r)].governance = "unread"
    /\ managers' = [managers EXCEPT ![Current(r)].governance = "loading",
                                    ![Current(r)].found = storedInvariant]
    /\ mixed' = IF OtherUpdate(r) THEN mixed \cup {Current(r)} ELSE mixed
    /\ UNCHANGED <<stored, cache, req, received, failures, restarts, apart>>

GovernanceLoaded(m) ==
    /\ Loading(m)
    /\ managers' = [managers EXCEPT ![m].governance = "loaded",
                                    ![m].invariant = Effective(managers[m].found)]
    /\ UNCHANGED <<stored, cache, req, received, failures, restarts, apart, mixed>>

(* The promise that rejected is kept: this manager never loads its governance,
   and rejects whatever needs it. *)
ReadGovernanceFails(r) ==
    /\ NeedsGovernance(r) /\ managers[Current(r)].governance = "unread"
    /\ managers' = [managers EXCEPT ![Current(r)].governance = "failed"]
    /\ CallFails(r)
    /\ apart' = (apart /\ req[r].kind = "use")
    /\ UNCHANGED <<stored, cache, received, restarts, mixed>>

GovernanceFailed(r) ==
    /\ NeedsGovernance(r) /\ managers[Current(r)].governance = "failed"
    /\ Answer(r)
    /\ apart' = (apart /\ req[r].kind = "use")
    /\ UNCHANGED <<stored, managers, cache, received, failures, restarts, mixed>>

Loaded(r) == NeedsGovernance(r) /\ managers[Current(r)].governance = "loaded"
-----------------------------------------------------------------------------
\* What the managers do with the request.

NextManager(r) == req' = [req EXCEPT ![r].pc = "visit", ![r].visit = Tail(@)]

\* setAliases, in memory only.
SetAliases(r) ==
    /\ Visiting(r) /\ req[r].kind \in {"aliases", "refresh"}
    /\ managers' = IF req[r].value = None THEN managers
                   ELSE [managers EXCEPT ![Current(r)].aliases = req[r].value]
    /\ NextManager(r)
    /\ UNCHANGED <<stored, cache, received, failures, restarts, apart, mixed>>

\* putContextInvariant: in memory, then to the storage.
PutInvariant(r) ==
    /\ Loaded(r) /\ req[r].kind = "put"
    /\ managers' = [managers EXCEPT ![Current(r)].invariant = req[r].value]
    /\ Goto(r, "store")
    /\ UNCHANGED <<stored, cache, received, failures, restarts, apart, mixed>>

\* deleteContextInvariant: the storage is told if the copy in memory had it.
DeleteInvariant(r) ==
    /\ Loaded(r) /\ req[r].kind = "delete"
    /\ managers' = [managers EXCEPT ![Current(r)].invariant = None]
    /\ IF managers[Current(r)].invariant = None THEN NextManager(r) ELSE Goto(r, "store")
    /\ UNCHANGED <<stored, cache, received, failures, restarts, apart, mixed>>

StoreInvariant(r) ==
    /\ req[r].pc = "store"
    /\ storedInvariant' = IF req[r].kind = "put" THEN req[r].value ELSE Deleted
    /\ NextManager(r)
    /\ UNCHANGED <<storedAliases, managers, cache, received, failures, restarts, apart, mixed>>

StoreFails(r) ==
    /\ req[r].pc = "store"
    /\ CallFails(r)
    /\ apart' = FALSE
    /\ UNCHANGED <<stored, managers, cache, received, restarts, mixed>>

Use(r) ==
    /\ Loaded(r) /\ req[r].kind = "use"
    /\ NextManager(r)
    /\ UNCHANGED <<stored, managers, cache, received, failures, restarts, apart, mixed>>

Finish(r) ==
    /\ req[r].pc = "visit" /\ req[r].visit = <<>>
    /\ Answer(r)
    /\ UNCHANGED <<stored, managers, cache, received, failures, restarts, apart, mixed>>

\* What is in memory is lost, and with it what requests had still to do.
Restart ==
    /\ restarts < MaxRestarts /\ restarts' = restarts + 1
    /\ cache' = [t \in Targets |-> 0]
    /\ req' = [r \in Requests |-> Idle]
    /\ UNCHANGED <<stored, managers, received, failures, apart, mixed>>

Next ==
    \/ \E r \in Requests :
          \/ Receive(r) \/ SaveAliases(r) \/ ReadAliases(r) \/ StorageFails(r)
          \/ Hit(r) \/ Hydrate(r) \/ Insert(r)
          \/ ReadGovernance(r) \/ ReadGovernanceFails(r) \/ GovernanceFailed(r)
          \/ SetAliases(r) \/ PutInvariant(r) \/ DeleteInvariant(r)
          \/ StoreInvariant(r) \/ StoreFails(r) \/ Use(r) \/ Finish(r)
    \/ \E t \in Targets : Evict(t)
    \/ \E m \in DOMAIN managers : GovernanceLoaded(m)
    \/ Restart

Spec == Init /\ [][Next]_vars
-----------------------------------------------------------------------------
\* Properties.

NoUpdate == \A r \in Requests : ~Updating(r)

Agrees(m) ==
    /\ managers[m].aliases = storedAliases
    /\ managers[m].governance = "loaded" => managers[m].invariant = Effective(storedInvariant)

(* When no update is under way, every cached manager holds the aliases and the
   invariant that are stored, if the updates so far did not overlap, none broke
   off, and no part of this manager's building and loading fell into an update.
   Evictions, rebuilds, restarts, and sessions' managers that come and go while
   an update is handed out do not set a copy apart. *)
CopiesAgree ==
    (NoUpdate /\ apart) =>
        \A t \in Targets : cache[t] # 0 /\ cache[t] \notin mixed => Agrees(cache[t])
=============================================================================
