---------------------------- MODULE ServerContext ----------------------------
(***************************************************************************)
(* A server's answer to a request for the context: the managers it keeps   *)
(* for the scope (ScopeManagers) and the call of getContext that one of    *)
(* them makes (ContextAssembly).  The two share no state in the code, the  *)
(* caches being the server's and the reads the call's own.                 *)
(***************************************************************************)
EXTENDS ContextAssembly, ServerScope

VARIABLES storedAliases, storedInvariant, managers, cache, req, received, failures,
          restarts, apart, mixed

server == <<storedAliases, storedInvariant, managers, cache, req, received,
            failures, restarts, apart, mixed>>

SM == INSTANCE ScopeManagers

\* The managers a server holds for a scope agree with what is stored (CopiesAgree
\* of ScopeManagers), under the condition that definition states.
CopiesAgree == SM!CopiesAgree
=============================================================================
