------------------------------ MODULE Lifecycle ------------------------------
(***************************************************************************)
(* The lifecycle of a context record (src/datahek/context/lifecycle.py):   *)
(* the states a record can be in and the only transitions that are legal.  *)
(***************************************************************************)

(* For each state, the states a record may move to. *)
LEGAL_TRANSITIONS ==
  [ discovered         |-> {"profiling", "failed"},
    profiling          |-> {"enriching", "failed"},
    enriching          |-> {"generated", "failed"},
    generated          |-> {"pending_validation", "active", "failed"},
    pending_validation |-> {"validated", "stale", "failed"},
    validated          |-> {"active", "stale"},
    active             |-> {"stale", "rebuilding", "degraded", "superseded"},
    degraded           |-> {"active", "rebuilding", "stale", "failed"},
    stale              |-> {"rebuilding", "superseded"},
    rebuilding         |-> {"profiling", "active", "degraded", "failed"},
    failed             |-> {"rebuilding", "superseded"},
    superseded         |-> {} ]

LifecycleStates == DOMAIN LEGAL_TRANSITIONS

IsTransitionAllowed(current, next) == next \in LEGAL_TRANSITIONS[current]

=============================================================================
