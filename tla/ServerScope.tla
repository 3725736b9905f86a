----------------------------- MODULE ServerScope -----------------------------
(***************************************************************************)
(* The parameters of ScopeManagers.                                        *)
(***************************************************************************)
CONSTANTS
    Requests,        \* requests that may be under way together
    Sessions,        \* sessions of the scope
    Values,          \* contents of an alias map or of the invariant
    Configured,      \* the invariant in the server's configuration, or None
    None,            \* no alias map stored; no invariant
    Deleted,         \* the row that records a deletion
    MaxManagers,     \* bound: managers built
    MaxRequests,     \* bound: requests received
    MaxFailures,     \* bound: storage calls that fail
    MaxRestarts      \* bound: restarts of the server

ASSUME ScopeAssumption == None \notin Values /\ Deleted \notin Values /\ None # Deleted
=============================================================================
