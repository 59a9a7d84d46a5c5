------------------------------ MODULE HashPool ------------------------------
(***************************************************************************)
(* The slots in which passwords are hashed (iam/infrastructure/            *)
(* argon2.hasher.adapter.ts): a counting semaphore with a bounded wait.    *)
(* A permit that is released goes to the head of the queue without being   *)
(* counted free; the caller it is given to takes it up in a microtask of   *)
(* its own.  A waiter whose timer fires leaves the queue and is refused.   *)
(* A caller whose hashing throws releases like any other, and may come     *)
(* again.                                                                  *)
(***************************************************************************)
EXTENDS Integers, Sequences, FiniteSets

CONSTANTS
    Callers,
    Permits   \* ARGON2_MAX_CONCURRENCY

PoolAssumption == Permits \in Nat \ {0} /\ IsFiniteSet(Callers)

VARIABLES
    available,  \* permits nobody holds
    waiting,    \* the queue, in the order of arrival
    caller      \* by caller: where it stands in withSlot

vars == <<available, waiting, caller>>

Init ==
    /\ available = Permits
    /\ waiting = <<>>
    /\ caller = [c \in Callers |-> "out"]

\* acquire
TakeFree(c) ==
    /\ caller[c] = "out" /\ available > 0
    /\ available' = available - 1
    /\ caller' = [caller EXCEPT ![c] = "granted"]
    /\ UNCHANGED waiting

Enqueue(c) ==
    /\ caller[c] = "out" /\ available = 0
    /\ waiting' = Append(waiting, c)
    /\ caller' = [caller EXCEPT ![c] = "queued"]
    /\ UNCHANGED available

\* The awaited acquire resumes and the work begins.
Work(c) ==
    /\ caller[c] = "granted"
    /\ caller' = [caller EXCEPT ![c] = "working"]
    /\ UNCHANGED <<available, waiting>>

\* release: to the head of the queue, or back to the pool.
Hand(c) ==
    IF waiting = <<>>
      THEN /\ available' = available + 1
           /\ caller' = [caller EXCEPT ![c] = "out"]
           /\ UNCHANGED waiting
      ELSE /\ waiting' = Tail(waiting)
           /\ caller' = [caller EXCEPT ![c] = "out", ![Head(waiting)] = "granted"]
           /\ UNCHANGED available

\* The work settles, well or badly: the finally releases.
Release(c) == caller[c] = "working" /\ Hand(c)

Leave_InQueue(i) ==   \* mutant: a waiter that gave up stays in the queue
    /\ caller' = [caller EXCEPT ![waiting[i]] = "out"]
    /\ UNCHANGED <<available, waiting>>

\* The timer of the waiter at i fires: splice, then reject.
Leave(i) ==
    /\ waiting' = SubSeq(waiting, 1, i - 1) \o SubSeq(waiting, i + 1, Len(waiting))
    /\ caller' = [caller EXCEPT ![waiting[i]] = "out"]
    /\ UNCHANGED available

TimesOut == \E i \in DOMAIN waiting : Leave(i)

Next ==
    \/ \E c \in Callers : TakeFree(c) \/ Enqueue(c) \/ Work(c) \/ Release(c)
    \/ TimesOut

Spec == Init /\ [][Next]_vars

-----------------------------------------------------------------------------
Holders == {c \in Callers : caller[c] \in {"granted", "working"}}

TypeOK ==
    /\ available \in 0 .. Permits
    /\ waiting \in Seq(Callers)
    /\ caller \in [Callers -> {"out", "queued", "granted", "working"}]

\* Every permit is in the pool or with one caller who will release it.
PermitsAreKept == available + Cardinality(Holders) = Permits

\* Whoever is queued is in the queue once, nobody else is, and nobody waits while a
\* permit is free: a waiter that gave up takes none with it.
QueueIsWaiting ==
    /\ \A i \in DOMAIN waiting : caller[waiting[i]] = "queued"
    /\ \A c \in Callers : caller[c] = "queued" => \E i \in DOMAIN waiting : waiting[i] = c
    /\ \A i, j \in DOMAIN waiting : waiting[i] = waiting[j] => i = j
    /\ waiting # <<>> => available = 0

\* The ceiling on concurrent hashes is kept and no slot is ever lost.
SlotsAreKept == TypeOK /\ PermitsAreKept /\ QueueIsWaiting
=============================================================================
