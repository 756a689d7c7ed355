--------------------------- MODULE ContextVersion ---------------------------
(***************************************************************************)
(* What a reader of the context registry is promised: each scope serves    *)
(* one version of its context, 0 meaning that it has none yet, and a       *)
(* publication replaces the version served by the next one in a single     *)
(* step.  A scope that serves a context never stops serving one and never  *)
(* goes back to an older version.                                          *)
(***************************************************************************)
EXTENDS Naturals

CONSTANT Scopes

VARIABLE version

Init == version = [s \in Scopes |-> 0]

Advance(s) == version' = [version EXCEPT ![s] = @ + 1]

Next == \E s \in Scopes : Advance(s)

Spec == Init /\ [][Next]_version

=============================================================================
