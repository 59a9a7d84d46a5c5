-------------------------- MODULE MCOutboxDispatch --------------------------
(* Two workers over the events of one gym or two. *)
EXTENDS OutboxDispatch, TLC

CONSTANTS e1, e2, e3, gymA, gymB, w1, w2

\* The last event is the second gym's.
MCTenantOf == [e \in Event |-> IF e = e3 THEN gymB ELSE gymA]

Symmetry == Permutations(Worker)

=============================================================================
