-------------------------- MODULE MCRefreshSession --------------------------
(* One family and the handlers that share it. *)
EXTENDS RefreshSession, TLC

CONSTANTS alice, phone, r1, r2

MCOwner == [s \in Session |-> alice]

\* Handlers are alike.
Symmetry == Permutations(Request)

=============================================================================
