----------------------------- MODULE TokenFamily -----------------------------
(***************************************************************************)
(* What a refresh-token family promises, without tables, handlers or a     *)
(* clock: its generations are spent one at a time and in order, never      *)
(* more than one of them rotates, and its first verdict is its last.       *)
(***************************************************************************)
EXTENDS Naturals

CONSTANTS
    Session, \* sessions, each a token family
    Reason   \* the reasons a family is revoked for

VARIABLES
    verdict, \* "NONE", "ACTIVE" or the reason of the revocation
    spent,   \* the generations each family has used up
    live     \* the generation that rotates next, alone in its set, or nothing

vars == <<verdict, spent, live>>

Init ==
    /\ verdict = [s \in Session |-> "NONE"]
    /\ spent = [s \in Session |-> {}]
    /\ live = [s \in Session |-> {}]

Open(s) ==
    /\ verdict[s] = "NONE"
    /\ verdict' = [verdict EXCEPT ![s] = "ACTIVE"]
    /\ UNCHANGED <<spent, live>>

\* The first generation may still arrive after a revocation that raced the sign-in.
First(s) ==
    /\ verdict[s] # "NONE"
    /\ live[s] = {} /\ spent[s] = {}
    /\ live' = [live EXCEPT ![s] = {1}]
    /\ UNCHANGED <<verdict, spent>>

\* So may a rotation decided before the revocation.
Rotate(s, g) ==
    /\ live[s] = {g}
    /\ live' = [live EXCEPT ![s] = {g + 1}]
    /\ spent' = [spent EXCEPT ![s] = @ \union {g}]
    /\ UNCHANGED verdict

Revoke(chosen, why) ==
    /\ verdict' = [s \in Session |->
           IF s \in chosen /\ verdict[s] = "ACTIVE" THEN why ELSE verdict[s]]
    /\ UNCHANGED <<spent, live>>

Next ==
    \/ \E s \in Session : Open(s) \/ First(s) \/ \E g \in live[s] : Rotate(s, g)
    \/ \E chosen \in SUBSET Session, why \in Reason : Revoke(chosen, why)

Spec == Init /\ [][Next]_vars

=============================================================================
