---------------------------- MODULE MCIdempotency ----------------------------
(* A request, its retry, and a third one that carries their key: a          *)
(* different request of the gym, or the request of another gym.             *)
EXTENDS Idempotency

CONSTANTS first, retry, third

Order(gym)  == [gym |-> gym, target |-> "branch1", body |-> "order"]
Refund(gym) == [gym |-> gym, target |-> "branch1", body |-> "refund"]

MCQuestion == {Order("gym1"), Refund("gym1"), Order("gym2")}

MCAsking == {[r \in Request |-> IF r = third THEN q ELSE Order("gym1")] :
                q \in {Refund("gym1"), Order("gym2")}}

=============================================================================
