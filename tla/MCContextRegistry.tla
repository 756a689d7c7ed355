-------------------------- MODULE MCContextRegistry --------------------------
(* Instances of ContextRegistry for TLC.                                   *)
EXTENDS ContextRegistry, TLC

(* Clients, context ids and scopes are only compared with one another.     *)
Symmetry ==
  Permutations(Clients) \cup Permutations(ContextIds) \cup Permutations(Scopes)

=============================================================================
