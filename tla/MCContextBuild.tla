--------------------------- MODULE MCContextBuild ---------------------------
(* Instances of ContextBuild for TLC.                                      *)
EXTENDS ContextBuild, TLC

CONSTANTS schemaKind, ontologyKind

AllKinds == {schemaKind, ontologyKind}

AllPayloads ==
  Hashes \cup [Slots -> [concept : Concepts, status : {"pending", "approved", "rejected"}]]

(* Clients, context ids and hashes are only compared with one another.     *)
Symmetry ==
  Permutations(Clients) \cup Permutations(ContextIds) \cup Permutations(Hashes)

=============================================================================
