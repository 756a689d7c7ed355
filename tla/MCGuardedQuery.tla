--------------------------- MODULE MCGuardedQuery ---------------------------
(* Instances of GuardedQuery for TLC.                                      *)
EXTENDS GuardedQuery, TLC

AskedQuestions == {<<"gated", "plain">>, <<"denied">>}

TwoApprovals == {<<"gated", "gated">>}

OneStep == {<<"gated">>}

Everything == {"catalog", "limit", "store", "connect", "run", "finish"}

Nothing == {}

Symmetry == Permutations(Callers) \cup Permutations(ApprovalIds)

=============================================================================
