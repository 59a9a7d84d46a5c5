---------------------------- MODULE AtLeastOnce ----------------------------
(***************************************************************************)
(* What the outbox promises of an event, whoever dispatches it and however *)
(* often: once committed it is kept until it is published or given up, it  *)
(* is published only if its handler has run to the end, and that may       *)
(* happen more than once.  An event given up may still be published, by a  *)
(* worker that was slower than the one that gave up.                       *)
(***************************************************************************)
CONSTANT Event

VARIABLES fate, performed

Init ==
    /\ fate = [e \in Event |-> "ABSENT"]
    /\ performed = {}

Commit(e) ==
    /\ fate[e] = "ABSENT"
    /\ fate' = [fate EXCEPT ![e] = "PENDING"]
    /\ UNCHANGED performed

Perform(e) ==
    /\ fate[e] # "ABSENT"
    /\ performed' = performed \union {e}
    /\ UNCHANGED fate

Publish(e) ==
    /\ fate[e] \in {"PENDING", "DEAD"}
    /\ e \in performed
    /\ fate' = [fate EXCEPT ![e] = "PUBLISHED"]
    /\ UNCHANGED performed

GiveUp(e) ==
    /\ fate[e] = "PENDING"
    /\ fate' = [fate EXCEPT ![e] = "DEAD"]
    /\ UNCHANGED performed

Purge(e) ==
    /\ fate[e] = "PUBLISHED"
    /\ fate' = [fate EXCEPT ![e] = "PURGED"]
    /\ UNCHANGED performed

Next == \E e \in Event : Commit(e) \/ Perform(e) \/ Publish(e) \/ GiveUp(e) \/ Purge(e)

Spec == Init /\ [][Next]_<<fate, performed>>

=============================================================================
