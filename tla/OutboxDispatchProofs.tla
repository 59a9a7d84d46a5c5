------------------------ MODULE OutboxDispatchProofs ------------------------
(* What TLAPS proves of OutboxDispatch, for any number of events, tenants   *)
(* and workers and any lease, backoff, batch and attempt ceiling.           *)
EXTENDS OutboxDispatch, TLAPS

USE TenantAssumption, OptionsAssumption

\* What a worker holds is committed, what it runs has a handler, what it is about to
\* publish was performed, and the attempts it read are failures that happened.
WorkerGrounded(w) ==
    LET q == worker[w]
    IN  /\ \A e \in q.batch : row[e].status # "ABSENT"
        /\ q.stage \in {"handle", "publish", "fail"} => q.event \in q.batch \intersect handled
        /\ q.stage = "publish" => q.event \in performed
        /\ \A e \in Event : q.claimed[e] <= failures[e]

\* No row counts a failure that did not happen, although each worker writes its own count.
AttemptsHappened == \A e \in Event : row[e].attempts <= failures[e]

IInv ==
    /\ TypeOK
    /\ DeadAfterEveryAttempt
    /\ AttemptsHappened
    /\ UnhandledIsUntouched
    /\ \A w \in Worker : WorkerGrounded(w)

LEMMA IdleType == Idle \in WorkerState
BY DEF Idle, WorkerState, Stage

\* Where a loop goes next, the worker holds what it held and is between two events.
LEMMA OnwardFacts ==
    ASSUME NEW q \in WorkerState
    PROVE  /\ Onward(q) \in WorkerState
           /\ Onward(q).batch = q.batch
           /\ Onward(q).stage \notin {"handle", "publish", "fail"}
           /\ \A e \in Event : Onward(q).claimed[e] <= q.claimed[e]
<1>1. CASE q.batch # {}
    BY <1>1 DEF Onward, WorkerState, Stage
<1>2. CASE q.batch = {} /\ q.tenants # {}
    BY <1>2 DEF Onward, WorkerState, Stage
<1>3. CASE q.batch = {} /\ q.tenants = {}
    <2>1. Onward(q) = Idle
        BY <1>3 DEF Onward
    <2>2. \A e \in Event : q.claimed[e] \in Nat
        BY DEF WorkerState
    <2> QED BY <1>3, <2>1, <2>2, IdleType DEF Idle
<1> QED BY <1>1, <1>2, <1>3

LEMMA PastFacts ==
    ASSUME NEW q \in WorkerState, NEW e \in Event
    PROVE  /\ Past(q, e) \in WorkerState
           /\ Past(q, e).batch = q.batch \ {e}
           /\ Past(q, e).stage \notin {"handle", "publish", "fail"}
           /\ \A f \in Event : Past(q, e).claimed[f] <= q.claimed[f]
<1> DEFINE to == [q EXCEPT !.batch = @ \ {e}, !.claimed[e] = 0, !.event = NONE, !.busy = 0]
<1>1. to \in WorkerState
    BY DEF WorkerState
<1>2. to.batch = q.batch \ {e}
    BY DEF WorkerState
<1>3. \A f \in Event : to.claimed[f] <= q.claimed[f] /\ to.claimed[f] \in Nat /\ q.claimed[f] \in Nat
    BY DEF WorkerState
<1>4. Past(q, e) = Onward(to)
    BY DEF Past
<1> HIDE DEF to
<1>5. /\ Onward(to) \in WorkerState
      /\ Onward(to).batch = to.batch
      /\ Onward(to).stage \notin {"handle", "publish", "fail"}
      /\ \A f \in Event : Onward(to).claimed[f] <= to.claimed[f]
    BY <1>1, OnwardFacts
<1>6. ASSUME NEW f \in Event
      PROVE  Onward(to).claimed[f] <= q.claimed[f]
    <2>1. Onward(to).claimed[f] \in Nat
        BY <1>5 DEF WorkerState
    <2> QED BY <1>3, <1>5, <2>1
<1> QED BY <1>2, <1>4, <1>5, <1>6

LEMMA ThrownFacts ==
    ASSUME NEW q \in WorkerState
    PROVE  /\ Thrown(q) \in WorkerState
           /\ Thrown(q).batch = {}
           /\ Thrown(q).stage \notin {"handle", "publish", "fail"}
           /\ \A e \in Event : Thrown(q).claimed[e] <= q.claimed[e]
<1> DEFINE to == [Idle EXCEPT !.tenants = q.tenants]
<1>1. to \in WorkerState /\ to.batch = {} /\ \A e \in Event : to.claimed[e] = 0
    BY IdleType DEF WorkerState, Idle
<1>2. Thrown(q) = Onward(to)
    BY DEF Thrown
<1>3. \A e \in Event : q.claimed[e] \in Nat
    BY DEF WorkerState
<1> HIDE DEF to
<1>4. /\ Onward(to) \in WorkerState
      /\ Onward(to).batch = to.batch
      /\ Onward(to).stage \notin {"handle", "publish", "fail"}
      /\ \A e \in Event : Onward(to).claimed[e] <= to.claimed[e]
    BY <1>1, OnwardFacts
<1>5. ASSUME NEW e \in Event
      PROVE  Onward(to).claimed[e] <= q.claimed[e]
    <2>1. Onward(to).claimed[e] \in Nat
        BY <1>4 DEF WorkerState
    <2> QED BY <1>1, <1>3, <1>4, <2>1
<1> QED BY <1>1, <1>2, <1>4, <1>5

\* A claim takes pending rows, and reads their attempts.
LEMMA WithBatchFacts ==
    ASSUME row \in [Event -> Row], NEW q \in WorkerState, NEW t \in Tenant
    PROVE  /\ OldestDue(t) \subseteq Pending
           /\ WithBatch(q, t) \in WorkerState
           /\ WithBatch(q, t).batch = OldestDue(t)
           /\ \A e \in Event : WithBatch(q, t).claimed[e] \in {0, row[e].attempts}
<1>1. OldestDue(t) \subseteq Pending /\ OldestDue(t) \in SUBSET Event
    BY DEF OldestDue, DueOf, Due, Pending
<1> DEFINE read == [e \in Event |-> IF e \in OldestDue(t) THEN row[e].attempts ELSE 0]
<1>2. read \in [Event -> Nat] /\ \A e \in Event : read[e] \in {0, row[e].attempts}
    BY DEF Row
<1>3. WithBatch(q, t) = [q EXCEPT !.tenants = q.tenants \ {t}, !.batch = OldestDue(t), !.claimed = read]
    BY DEF WithBatch
<1> HIDE DEF read
<1>4. WithBatch(q, t) \in WorkerState
    <2>1. q.tenants \ {t} \in SUBSET Tenant
        BY DEF WorkerState
    <2>2. ASSUME NEW ts \in SUBSET Tenant, NEW b \in SUBSET Event, NEW c \in [Event -> Nat]
          PROVE  [q EXCEPT !.tenants = ts, !.batch = b, !.claimed = c] \in WorkerState
        BY DEF WorkerState
    <2>3. OldestDue(t) \in SUBSET Event /\ read \in [Event -> Nat]
        BY <1>1, <1>2
    <2>4. [q EXCEPT !.tenants = q.tenants \ {t}, !.batch = OldestDue(t), !.claimed = read]
            \in WorkerState
        BY <2>1, <2>2, <2>3
    <2> QED BY <1>3, <2>4
<1>5. WithBatch(q, t).batch = OldestDue(t) /\ WithBatch(q, t).claimed = read
    BY <1>3 DEF WorkerState
<1> QED BY <1>1, <1>2, <1>4, <1>5

LEMMA InitIInv == Init => IInv
<1> SUFFICES ASSUME Init PROVE IInv
    OBVIOUS
<1>1. TypeOK
    BY IdleType DEF Init, TypeOK, Row, Pending
<1>2. DeadAfterEveryAttempt /\ AttemptsHappened /\ UnhandledIsUntouched
    BY DEF Init, DeadAfterEveryAttempt, AttemptsHappened, UnhandledIsUntouched
<1>3. \A w \in Worker : WorkerGrounded(w)
    BY DEF Init, WorkerGrounded, Idle
<1> QED BY <1>1, <1>2, <1>3 DEF IInv

\* The three ways a mark writes a row.
LEMMA RowChanges ==
    ASSUME NEW r \in Row, NEW status, NEW n, NEW wait, NEW keep
    PROVE  /\ LET to == [r EXCEPT !.status = status, !.wait = wait, !.keep = keep]
              IN  to.status = status /\ to.attempts = r.attempts
           /\ LET to == [r EXCEPT !.attempts = n, !.wait = wait]
              IN  to.status = r.status /\ to.attempts = n
           /\ LET to == [r EXCEPT !.status = status, !.wait = wait]
              IN  to.status = status /\ to.attempts = r.attempts
BY DEF Row

LEMMA BackoffType == \A n : Backoff(n) \in Nat
BY DEF Backoff

\* Moving rows about leaves the order one of pending rows.
LEMMA OrderFacts ==
    ASSUME TypeOK
    PROVE  /\ \A some, d : Requeued(some, d) \subseteq (Pending \union some) \X (Pending \union some)
           /\ \A e \in Event : Dequeued(e) \subseteq (Pending \ {e}) \X (Pending \ {e})
<1>1. \A some, d : Requeued(some, d) \subseteq (Pending \union some) \X (Pending \union some)
    BY DEF Requeued
<1>2. ASSUME NEW e \in Event, NEW p \in Dequeued(e)
      PROVE  p \in (Pending \ {e}) \X (Pending \ {e})
    <2>1. p \in older /\ e \notin {p[1], p[2]}
        BY <1>2 DEF Dequeued
    <2>2. p \in Pending \X Pending
        BY <2>1 DEF TypeOK
    <2> QED BY <2>1, <2>2
<1> QED BY <1>1, <1>2

LEMMA TypeStep == IInv /\ [Next]_vars => TypeOK'
<1> SUFFICES ASSUME IInv, [Next]_vars PROVE TypeOK'
    OBVIOUS
<1> USE DEF IInv
<1>1. CASE Tick
    <2>1. \A n \in Nat : Less(n) \in Nat
        BY DEF Less
    <2>2. \A e \in Event : row'[e] \in Row /\ row'[e].status = row[e].status
        <3> SUFFICES ASSUME NEW e \in Event
                     PROVE  row'[e] \in Row /\ row'[e].status = row[e].status
            OBVIOUS
        <3>1. row[e] \in Row
            BY DEF TypeOK
        <3>2. Less(row[e].wait) \in Nat /\ Less(row[e].keep) \in Nat
            BY <2>1, <3>1 DEF Row
        <3>3. row'[e] = [row[e] EXCEPT !.wait = Less(row[e].wait), !.keep = Less(row[e].keep)]
            BY <1>1 DEF Tick
        <3> QED BY <3>1, <3>2, <3>3 DEF Row
    <2>3. row' \in [Event -> Row] /\ Pending' = Pending
        BY <1>1, <2>2 DEF Tick, Pending
    <2>4. \A w \in Worker : worker'[w] \in WorkerState
        <3> SUFFICES ASSUME NEW w \in Worker PROVE worker'[w] \in WorkerState
            OBVIOUS
        <3>1. worker[w] \in WorkerState
            BY DEF TypeOK
        <3>2. [worker[w] EXCEPT !.busy = worker[w].busy + 1] \in WorkerState
            BY <3>1 DEF WorkerState
        <3>3. worker'[w] \in {worker[w], [worker[w] EXCEPT !.busy = worker[w].busy + 1]}
            BY <1>1 DEF Tick
        <3> QED BY <3>1, <3>2, <3>3
    <2>5. worker' \in [Worker -> WorkerState]
        BY <1>1, <2>4 DEF Tick
    <2> QED BY <1>1, <2>3, <2>5 DEF Tick, TypeOK
<1>2. ASSUME NEW e \in Event, Elsewhere(e) PROVE TypeOK'
    <2>1. ASSUME NEW d \in Delay, Commit(e, d) PROVE TypeOK'
        <3>1. row' \in [Event -> Row]
            <4>1. row[e] \in Row /\ d \in Nat
                BY DEF TypeOK
            <4>2. [row[e] EXCEPT !.status = "PENDING", !.wait = d] \in Row
                BY <4>1 DEF Row
            <4>3. row' = [row EXCEPT ![e] = [row[e] EXCEPT !.status = "PENDING", !.wait = d]]
                BY <2>1 DEF Commit, TypeOK
            <4> QED BY <4>2, <4>3 DEF TypeOK
        <3>2. Pending' = Pending \union {e}
            BY <2>1 DEF Commit, Pending, TypeOK
        <3> QED BY <2>1, <3>1, <3>2, OrderFacts DEF Commit, TypeOK
    <2>2. CASE Register(e)
        BY <2>2 DEF Register, TypeOK, Pending
    <2>3. CASE Sweep(e)
        <3>1. row' \in [Event -> Row]
            BY <2>3 DEF Sweep, TypeOK, Row
        <3>2. Pending' = Pending
            BY <2>3 DEF Sweep, Pending, TypeOK
        <3> QED BY <2>3, <3>1, <3>2 DEF Sweep, TypeOK
    <2> QED BY <1>2, <2>1, <2>2, <2>3 DEF Elsewhere
<1>3. ASSUME NEW w \in Worker, Work(w) PROVE TypeOK'
    <2>1. CASE BeginCycle(w)
        <3> DEFINE q == [Idle EXCEPT !.tenants = {t \in WithWork :
                            Cardinality({u \in WithWork : TenantIsOlder(u, t)}) < BatchSize}]
        <3>1. q \in WorkerState
            BY IdleType DEF WorkerState, WithWork
        <3>2. worker' = [worker EXCEPT ![w] = Onward(q)]
            BY <2>1 DEF BeginCycle
        <3> HIDE DEF q
        <3>3. Onward(q) \in WorkerState
            BY <3>1, OnwardFacts
        <3> QED BY <2>1, <3>2, <3>3 DEF BeginCycle, TypeOK, Pending
    <2>2. ASSUME NEW t \in Tenant, Claim(w, t) PROVE TypeOK'
        <3> DEFINE q == WithBatch(worker[w], t)
        <3>1. q \in WorkerState /\ OldestDue(t) \subseteq Pending
            BY WithBatchFacts DEF TypeOK
        <3>2. row' = [e \in Event |->
                        IF e \in OldestDue(t) THEN [row[e] EXCEPT !.wait = Lease] ELSE row[e]]
            BY <2>2 DEF Claim
        <3>3. worker' = [worker EXCEPT ![w] = Onward(q)] /\ older' = Requeued(OldestDue(t), Lease)
            BY <2>2 DEF Claim
        <3> HIDE DEF q
        <3>4. row' \in [Event -> Row] /\ \A e \in Event : row'[e].status = row[e].status
            BY <3>2 DEF TypeOK, Row
        <3>5. Pending' = Pending
            BY <3>4 DEF Pending
        <3>6. older' \in SUBSET (Pending \X Pending)
            BY <3>1, <3>3, OrderFacts
        <3>7. worker' \in [Worker -> WorkerState]
            BY <3>1, <3>3, OnwardFacts DEF TypeOK
        <3> QED BY <2>2, <3>4, <3>5, <3>6, <3>7 DEF Claim, TypeOK
    <2>3. ASSUME NEW e \in Event, Skip(w, e) \/ Start(w, e) PROVE TypeOK'
        <3>1. worker[w] \in WorkerState
            BY DEF TypeOK
        <3>2. [worker[w] EXCEPT !.stage = "handle", !.event = e] \in WorkerState
            BY <3>1 DEF WorkerState, Stage
        <3>3. Past(worker[w], e) \in WorkerState
            BY <3>1, PastFacts
        <3>4. worker' = [worker EXCEPT ![w] = Past(worker[w], e)]
              \/ worker' = [worker EXCEPT ![w] = [worker[w] EXCEPT !.stage = "handle", !.event = e]]
            BY <2>3 DEF Skip, Start
        <3>5. worker' \in [Worker -> WorkerState]
            BY <3>2, <3>3, <3>4 DEF TypeOK
        <3> QED BY <2>3, <3>5 DEF Skip, Start, TypeOK, Pending
    <2>4. CASE HandlerSucceeds(w) \/ HandlerFails(w)
        <3>1. worker[w] \in WorkerState /\ worker[w].event \in Event
            BY <2>4 DEF TypeOK, WorkerGrounded, HandlerSucceeds, HandlerFails
        <3>2. \A s \in Stage : [worker[w] EXCEPT !.stage = s] \in WorkerState
            BY <3>1 DEF WorkerState
        <3>3. worker' \in [Worker -> WorkerState]
            BY <2>4, <3>2 DEF HandlerSucceeds, HandlerFails, TypeOK, Stage
        <3> QED BY <2>4, <3>1, <3>3 DEF HandlerSucceeds, HandlerFails, TypeOK, Pending
    <2>5. CASE MarkPublished(w) \/ MarkFailed(w) \/ MarkDead(w)
        <3> DEFINE e == worker[w].event
        <3>1. worker[w] \in WorkerState /\ e \in Event /\ worker[w].claimed[e] \in Nat
            <4>1. worker[w].stage \in {"publish", "fail"}
                BY <2>5 DEF MarkPublished, MarkFailed, MarkDead
            <4>2. worker[w] \in WorkerState /\ WorkerGrounded(w)
                BY DEF TypeOK
            <4>3. e \in worker[w].batch
                BY <4>1, <4>2 DEF WorkerGrounded
            <4> QED BY <4>2, <4>3 DEF WorkerState
        <3>2. worker' \in [Worker -> WorkerState]
            <4>1. Past(worker[w], e) \in WorkerState /\ Thrown(worker[w]) \in WorkerState
                BY <3>1, PastFacts, ThrownFacts
            <4>2. \/ worker' = [worker EXCEPT ![w] = Past(worker[w], e)]
                  \/ worker' = [worker EXCEPT ![w] = Thrown(worker[w])]
                BY <2>5 DEF MarkPublished, MarkFailed, MarkDead
            <4> QED BY <4>1, <4>2 DEF TypeOK
        <3>3. row[e] \in Row
            BY <3>1 DEF TypeOK
        <3>4. CASE MarkPublished(w)
            <4>1. [row[e] EXCEPT !.status = "PUBLISHED", !.wait = 0, !.keep = Retention + 1] \in Row
                <5>1. Retention + 1 \in Nat
                    OBVIOUS
                <5> QED BY <3>3, <5>1 DEF Row
            <4>2. row' \in [Event -> Row]
                BY <3>1, <3>4, <4>1 DEF MarkPublished, TypeOK
            <4>3. CASE row[e].status = "PURGED"
                BY <3>2, <3>4, <4>3 DEF MarkPublished, TypeOK, Pending
            <4>4. CASE row[e].status # "PURGED"
                <5>1. Pending' = Pending \ {e}
                    <6>1. row' = [row EXCEPT ![e] =
                             [row[e] EXCEPT !.status = "PUBLISHED", !.wait = 0, !.keep = Retention + 1]]
                        BY <3>4, <4>4 DEF MarkPublished
                    <6>2. row'[e].status = "PUBLISHED" /\ \A f \in Event \ {e} : row'[f] = row[f]
                        BY <3>1, <3>3, <6>1 DEF TypeOK, Row
                    <6> QED BY <6>2 DEF Pending
                <5> QED BY <3>1, <3>2, <3>4, <4>2, <4>4, <5>1, OrderFacts DEF MarkPublished, TypeOK
            <4> QED BY <4>3, <4>4
        <3>5. CASE MarkFailed(w)
            <4> DEFINE n == worker[w].claimed[e] + 1
            <4>1. n \in Nat /\ Backoff(n) \in Nat
                BY <3>1, BackoffType
            <4>2. failures' \in [Event -> Nat]
                BY <3>1, <3>5 DEF MarkFailed, TypeOK
            <4>3. CASE row[e].status = "PENDING"
                <5>1. row' = [row EXCEPT ![e] = [row[e] EXCEPT !.attempts = n, !.wait = Backoff(n)]]
                    BY <3>5, <4>3 DEF MarkFailed
                <5>2. [row[e] EXCEPT !.attempts = n, !.wait = Backoff(n)] \in Row
                    BY <3>3, <4>1 DEF Row
                <5>3. row' \in [Event -> Row] /\ Pending' = Pending
                    BY <3>1, <4>3, <5>1, <5>2 DEF TypeOK, Pending
                <5>4. older' = Requeued({e}, Backoff(n)) /\ e \in Pending
                    BY <3>1, <3>5, <4>3 DEF MarkFailed, Pending
                <5>5. older' \in SUBSET (Pending \X Pending)
                    BY <5>4, OrderFacts
                <5> QED BY <3>2, <3>5, <4>2, <5>3, <5>5 DEF MarkFailed, TypeOK
            <4>4. CASE row[e].status # "PENDING"
                BY <3>2, <3>5, <4>2, <4>4 DEF MarkFailed, TypeOK, Pending
            <4> QED BY <4>3, <4>4
        <3>6. CASE MarkDead(w)
            <4>1. failures' \in [Event -> Nat]
                BY <3>1, <3>6 DEF MarkDead, TypeOK
            <4>2. CASE row[e].status \in {"PENDING", "DEAD"}
                <5>1. row' = [row EXCEPT ![e] = [row[e] EXCEPT !.status = "DEAD", !.wait = 0]]
                    BY <3>6, <4>2 DEF MarkDead
                <5>2. [row[e] EXCEPT !.status = "DEAD", !.wait = 0] \in Row
                    BY <3>3 DEF Row
                <5>3. row' \in [Event -> Row] /\ Pending' = Pending \ {e}
                    BY <3>1, <5>1, <5>2 DEF TypeOK, Pending
                <5>4. older' = Dequeued(e)
                    BY <3>6, <4>2 DEF MarkDead
                <5>5. older' \in SUBSET (Pending' \X Pending')
                    BY <3>1, <5>3, <5>4, OrderFacts
                <5> QED BY <3>2, <3>6, <4>1, <5>3, <5>5 DEF MarkDead, TypeOK
            <4>3. CASE row[e].status \notin {"PENDING", "DEAD"}
                BY <3>2, <3>6, <4>1, <4>3 DEF MarkDead, TypeOK, Pending
            <4> QED BY <4>2, <4>3
        <3> QED BY <2>5, <3>4, <3>5, <3>6
    <2> QED BY <1>3, <2>1, <2>2, <2>3, <2>4, <2>5 DEF Work
<1>4. ASSUME NEW w \in Worker, Crash(w) \/ Refused(w) PROVE TypeOK'
    <2>1. worker[w] \in WorkerState
        BY DEF TypeOK
    <2>2. ASSUME NEW q \in WorkerState, Fault(w, q) PROVE TypeOK'
        <3>1. faults' \in 0..MaxFaults
            BY <2>2 DEF Fault, TypeOK
        <3>2. worker' \in [Worker -> WorkerState]
            BY <2>2 DEF Fault, TypeOK
        <3> QED BY <2>2, <3>1, <3>2 DEF Fault, TypeOK, Pending
    <2>3. [worker[w] EXCEPT !.stage = "fail"] \in WorkerState
        BY <2>1 DEF WorkerState, Stage
    <2>4. ASSUME NEW t \in worker[w].tenants
          PROVE  Onward([worker[w] EXCEPT !.tenants = @ \ {t}]) \in WorkerState
        <3>1. [worker[w] EXCEPT !.tenants = @ \ {t}] \in WorkerState
            BY <2>1 DEF WorkerState
        <3> QED BY <3>1, OnwardFacts
    <2> QED BY <1>4, <2>1, <2>2, <2>3, <2>4, IdleType, ThrownFacts DEF Crash, Refused
<1>5. CASE UNCHANGED vars
    BY <1>5 DEF vars, TypeOK, Pending
<1> QED BY <1>1, <1>2, <1>3, <1>4, <1>5 DEF Next

\* Nothing is forgotten: a committed row stays one, and the registrations, the work done and
\* the failures only grow.
LEMMA NothingForgotten ==
    ASSUME IInv, [Next]_vars
    PROVE  /\ \A e \in Event : row[e].status # "ABSENT" => row'[e].status # "ABSENT"
           /\ handled \subseteq handled'
           /\ performed \subseteq performed'
           /\ \A e \in Event : failures[e] <= failures'[e]
<1> USE DEF IInv, TypeOK
<1>1. CASE Tick
    <2>1. \A e \in Event : row'[e].status = row[e].status
        <3> SUFFICES ASSUME NEW e \in Event PROVE row'[e].status = row[e].status
            OBVIOUS
        <3>1. row[e] \in Row /\ row'[e] = [row[e] EXCEPT !.wait = Less(@), !.keep = Less(@)]
            BY <1>1 DEF Tick
        <3> QED BY <3>1 DEF Row
    <2>2. handled' = handled /\ performed' = performed /\ failures' = failures
        BY <1>1 DEF Tick
    <2>3. \A e \in Event : failures[e] <= failures[e]
        OBVIOUS
    <2> QED BY <2>1, <2>2, <2>3
<1>2. ASSUME NEW e \in Event, Elsewhere(e)
      PROVE  /\ \A f \in Event : row[f].status # "ABSENT" => row'[f].status # "ABSENT"
             /\ handled \subseteq handled' /\ performed \subseteq performed' /\ failures' = failures
    BY <1>2 DEF Elsewhere, Commit, Register, Sweep, Row
<1>3. ASSUME NEW w \in Worker, Work(w)
      PROVE  /\ \A e \in Event : row[e].status # "ABSENT" => row'[e].status # "ABSENT"
             /\ handled \subseteq handled' /\ performed \subseteq performed'
             /\ \A e \in Event : failures[e] <= failures'[e]
    <2>1. CASE BeginCycle(w)
        BY <2>1 DEF BeginCycle
    <2>2. ASSUME NEW t \in Tenant, Claim(w, t)
          PROVE  /\ \A e \in Event : row'[e].status = row[e].status
                 /\ UNCHANGED <<handled, performed, failures>>
        BY <2>2 DEF Claim, Row
    <2>3. ASSUME NEW e \in Event, Skip(w, e) \/ Start(w, e)
          PROVE  UNCHANGED <<row, handled, performed, failures>>
        BY <2>3 DEF Skip, Start
    <2>4. CASE HandlerSucceeds(w) \/ HandlerFails(w)
        BY <2>4 DEF HandlerSucceeds, HandlerFails
    <2>5. CASE MarkPublished(w) \/ MarkFailed(w) \/ MarkDead(w)
        <3>1. \A e \in Event : row[e].status # "ABSENT" => row'[e].status # "ABSENT"
            <4> SUFFICES ASSUME NEW e \in Event, row[e].status # "ABSENT"
                         PROVE  row'[e].status # "ABSENT"
                OBVIOUS
            <4> row[e] \in Row
                OBVIOUS
            <4>1. CASE MarkPublished(w)
                <5>1. \/ row' = row
                      \/ row' = [row EXCEPT ![worker[w].event] = [row[worker[w].event] EXCEPT
                                   !.status = "PUBLISHED", !.wait = 0, !.keep = Retention + 1]]
                    BY <4>1 DEF MarkPublished
                <5>2. row'[e] \in {row[e],
                        [row[e] EXCEPT !.status = "PUBLISHED", !.wait = 0, !.keep = Retention + 1]}
                    <6>1. CASE e = worker[w].event
                        BY <5>1, <6>1
                    <6>2. CASE e # worker[w].event
                        BY <5>1, <6>2
                    <6> QED BY <6>1, <6>2
                <5> DEFINE to == [row[e] EXCEPT !.status = "PUBLISHED", !.wait = 0, !.keep = Retention + 1]
                <5>3. to.status = "PUBLISHED"
                    BY RowChanges
                <5> HIDE DEF to
                <5>4. row'[e] \in {row[e], to}
                    BY <5>2 DEF to
                <5> QED BY <5>3, <5>4
            <4>2. CASE MarkFailed(w)
                <5> DEFINE n == worker[w].claimed[worker[w].event] + 1
                <5>1. \/ row' = row
                      \/ row' = [row EXCEPT ![worker[w].event] = [row[worker[w].event] EXCEPT
                                   !.attempts = n, !.wait = Backoff(n)]]
                    BY <4>2 DEF MarkFailed
                <5> HIDE DEF n
                <5>2. row'[e] \in {row[e], [row[e] EXCEPT !.attempts = n, !.wait = Backoff(n)]}
                    <6>1. CASE e = worker[w].event
                        BY <5>1, <6>1
                    <6>2. CASE e # worker[w].event
                        BY <5>1, <6>2
                    <6> QED BY <6>1, <6>2
                <5> DEFINE to == [row[e] EXCEPT !.attempts = n, !.wait = Backoff(n)]
                <5>3. to.status = row[e].status
                    BY RowChanges
                <5>4. row'[e] \in {row[e], to}
                    BY <5>2
                <5> HIDE DEF to
                <5> QED BY <5>3, <5>4
            <4>3. CASE MarkDead(w)
                BY <4>3 DEF MarkDead, Row
            <4> QED BY <2>5, <4>1, <4>2, <4>3
        <3>2. \A e \in Event : failures[e] <= failures'[e]
            BY <2>5 DEF MarkPublished, MarkFailed, MarkDead
        <3> QED BY <2>5, <3>1, <3>2 DEF MarkPublished, MarkFailed, MarkDead
    <2> QED BY <1>3, <2>1, <2>2, <2>3, <2>4, <2>5 DEF Work
<1>4. ASSUME NEW w \in Worker, Crash(w) \/ Refused(w)
      PROVE  UNCHANGED <<row, handled, performed, failures>>
    BY <1>4 DEF Crash, Refused, Fault
<1>5. CASE UNCHANGED vars
    BY <1>5 DEF vars
<1> QED BY <1>1, <1>2, <1>3, <1>4, <1>5 DEF Next

\* A worker that a step leaves as it is stays grounded.
LEMMA OthersStayGrounded ==
    ASSUME IInv, [Next]_vars, TypeOK', NEW v \in Worker, worker'[v] = worker[v]
    PROVE  WorkerGrounded(v)'
<1>1. WorkerGrounded(v) /\ worker[v] \in WorkerState
    BY DEF IInv, TypeOK
<1>2. \A e \in Event : /\ worker[v].claimed[e] \in Nat /\ failures[e] \in Nat
                       /\ failures'[e] \in Nat
    BY <1>1 DEF TypeOK, IInv, WorkerState
<1>3. \A e \in Event : worker[v].claimed[e] <= failures'[e]
    BY <1>1, <1>2, NothingForgotten DEF WorkerGrounded
<1>4. worker[v].batch \subseteq Event
    BY <1>1 DEF WorkerState
<1> QED BY <1>1, <1>3, <1>4, NothingForgotten DEF WorkerGrounded

\* A worker that holds no more than it did, has read no more, and is between two events.
LEMMA BetweenEventsIsGrounded ==
    ASSUME IInv, [Next]_vars, TypeOK', NEW v \in Worker,
           worker'[v].batch \subseteq worker[v].batch,
           worker'[v].stage \notin {"handle", "publish", "fail"},
           \A e \in Event : worker'[v].claimed[e] <= worker[v].claimed[e]
    PROVE  WorkerGrounded(v)'
<1>1. WorkerGrounded(v) /\ worker[v] \in WorkerState /\ worker'[v] \in WorkerState
    BY DEF IInv, TypeOK
<1>2. ASSUME NEW e \in Event
      PROVE  worker'[v].claimed[e] <= failures'[e]
    <2>1. /\ worker[v].claimed[e] \in Nat /\ worker'[v].claimed[e] \in Nat
          /\ failures[e] \in Nat /\ failures'[e] \in Nat
        BY <1>1 DEF TypeOK, IInv, WorkerState
    <2> QED BY <1>1, <2>1, NothingForgotten DEF WorkerGrounded
<1>3. worker[v].batch \subseteq Event
    BY <1>1 DEF WorkerState
<1> QED BY <1>1, <1>2, <1>3, NothingForgotten DEF WorkerGrounded

LEMMA GroundedStep == IInv /\ [Next]_vars /\ TypeOK' => \A v \in Worker : WorkerGrounded(v)'
<1> SUFFICES ASSUME IInv, [Next]_vars, TypeOK', NEW v \in Worker PROVE WorkerGrounded(v)'
    OBVIOUS
<1>0. worker[v] \in WorkerState /\ WorkerGrounded(v) /\ worker \in [Worker -> WorkerState]
    BY DEF IInv, TypeOK
<1>1. CASE Tick
    <2>1. /\ worker'[v].batch = worker[v].batch /\ worker'[v].stage = worker[v].stage
          /\ worker'[v].event = worker[v].event /\ worker'[v].claimed = worker[v].claimed
        BY <1>0, <1>1 DEF Tick, WorkerState
    <2>2. handled' = handled /\ performed' = performed /\ failures' = failures
        BY <1>1 DEF Tick
    <2>3. worker[v].batch \subseteq Event
        BY <1>0 DEF WorkerState
    <2> QED BY <1>0, <2>1, <2>2, <2>3, NothingForgotten DEF WorkerGrounded
<1>2. ASSUME NEW e \in Event, Elsewhere(e) PROVE WorkerGrounded(v)'
    <2>1. worker' = worker
        BY <1>2 DEF Elsewhere, Commit, Register, Sweep
    <2> QED BY <2>1, OthersStayGrounded
<1>3. ASSUME NEW w \in Worker, Work(w) PROVE WorkerGrounded(v)'
    <2>0. CASE v # w
        <3>1. worker'[v] = worker[v]
            BY <1>0, <1>3, <2>0 DEF Work, BeginCycle, Claim, Skip, Start, HandlerSucceeds,
                HandlerFails, MarkPublished, MarkFailed, MarkDead
        <3> QED BY <3>1, OthersStayGrounded
    <2> SUFFICES ASSUME v = w PROVE WorkerGrounded(v)'
        BY <2>0
    <2>1. CASE BeginCycle(v)
        <3> DEFINE q == [Idle EXCEPT !.tenants = {t \in WithWork :
                            Cardinality({u \in WithWork : TenantIsOlder(u, t)}) < BatchSize}]
        <3>1. q \in WorkerState /\ q.batch = {} /\ \A e \in Event : q.claimed[e] = 0
            BY IdleType DEF WorkerState, WithWork, Idle
        <3>2. worker'[v] = Onward(q)
            BY <1>0, <2>1 DEF BeginCycle
        <3> HIDE DEF q
        <3>3. worker'[v].batch = {} /\ worker'[v].stage \notin {"handle", "publish", "fail"}
            BY <3>1, <3>2, OnwardFacts
        <3>4. ASSUME NEW e \in Event PROVE worker'[v].claimed[e] <= worker[v].claimed[e]
            <4>1. worker'[v].claimed[e] <= q.claimed[e] /\ worker'[v] \in WorkerState
                BY <3>1, <3>2, OnwardFacts
            <4>2. worker'[v].claimed[e] \in Nat /\ worker[v].claimed[e] \in Nat
                BY <1>0, <4>1 DEF WorkerState
            <4> QED BY <3>1, <4>1, <4>2
        <3> QED BY <3>3, <3>4, BetweenEventsIsGrounded
    <2>2. ASSUME NEW t \in Tenant, Claim(v, t) PROVE WorkerGrounded(v)'
        <3> DEFINE q == WithBatch(worker[v], t)
        <3>1. /\ q \in WorkerState /\ q.batch \subseteq Pending
              /\ \A e \in Event : q.claimed[e] \in {0, row[e].attempts}
            BY <1>0, WithBatchFacts DEF IInv, TypeOK
        <3>2. worker'[v] = Onward(q) /\ failures' = failures
            BY <1>0, <2>2 DEF Claim
        <3> HIDE DEF q
        <3>3. /\ worker'[v].batch = q.batch /\ worker'[v] \in WorkerState
              /\ worker'[v].stage \notin {"handle", "publish", "fail"}
              /\ \A e \in Event : worker'[v].claimed[e] <= q.claimed[e]
            BY <3>1, <3>2, OnwardFacts
        <3>4. \A e \in worker'[v].batch : row'[e].status # "ABSENT"
            BY <3>1, <3>3, NothingForgotten DEF Pending
        <3>5. ASSUME NEW e \in Event PROVE worker'[v].claimed[e] <= failures'[e]
            <4>1. /\ row[e].attempts \in Nat /\ failures[e] \in Nat
                  /\ row[e].attempts <= failures[e]
                BY DEF IInv, TypeOK, Row, AttemptsHappened
            <4>2. worker'[v].claimed[e] \in Nat /\ q.claimed[e] \in Nat
                BY <3>1, <3>3 DEF WorkerState
            <4> QED BY <3>1, <3>2, <3>3, <4>1, <4>2
        <3> QED BY <3>3, <3>4, <3>5 DEF WorkerGrounded
    <2>3. ASSUME NEW e \in Event, Skip(v, e) PROVE WorkerGrounded(v)'
        <3>1. worker'[v] = Past(worker[v], e)
            BY <1>0, <2>3 DEF Skip
        <3>2. /\ worker'[v].batch \subseteq worker[v].batch
              /\ worker'[v].stage \notin {"handle", "publish", "fail"}
              /\ \A f \in Event : worker'[v].claimed[f] <= worker[v].claimed[f]
            BY <1>0, <3>1, PastFacts
        <3> QED BY <3>2, BetweenEventsIsGrounded
    <2>4. ASSUME NEW e \in Event, Start(v, e) PROVE WorkerGrounded(v)'
        <3>1. /\ worker'[v].stage = "handle" /\ worker'[v].event = e
              /\ worker'[v].batch = worker[v].batch /\ worker'[v].claimed = worker[v].claimed
              /\ e \in worker[v].batch \intersect handled
            BY <1>0, <2>4 DEF Start, WorkerState
        <3>2. UNCHANGED <<row, handled, failures>>
            BY <2>4 DEF Start
        <3> QED BY <1>0, <3>1, <3>2 DEF WorkerGrounded
    <2>5. CASE HandlerSucceeds(v) \/ HandlerFails(v)
        <3>1. /\ worker'[v].event = worker[v].event /\ worker[v].stage = "handle"
              /\ worker'[v].batch = worker[v].batch /\ worker'[v].claimed = worker[v].claimed
            BY <1>0, <2>5 DEF HandlerSucceeds, HandlerFails, WorkerState
        <3>2. worker'[v].stage = "publish" => worker[v].event \in performed'
            BY <1>0, <2>5 DEF HandlerSucceeds, HandlerFails, WorkerState
        <3>3. UNCHANGED <<row, handled, failures>>
            BY <2>5 DEF HandlerSucceeds, HandlerFails
        <3> QED BY <1>0, <3>1, <3>2, <3>3 DEF WorkerGrounded
    <2>6. CASE MarkPublished(v) \/ MarkFailed(v) \/ MarkDead(v)
        <3>1. worker[v].event \in Event
            BY <1>0, <2>6 DEF WorkerGrounded, MarkPublished, MarkFailed, MarkDead, WorkerState
        <3>2. worker'[v] \in {Past(worker[v], worker[v].event), Thrown(worker[v])}
            BY <1>0, <2>6 DEF MarkPublished, MarkFailed, MarkDead
        <3>3. /\ worker'[v].batch \subseteq worker[v].batch
              /\ worker'[v].stage \notin {"handle", "publish", "fail"}
              /\ \A f \in Event : worker'[v].claimed[f] <= worker[v].claimed[f]
            <4>1. CASE worker'[v] = Past(worker[v], worker[v].event)
                BY <1>0, <3>1, <4>1, PastFacts
            <4>2. CASE worker'[v] = Thrown(worker[v])
                BY <1>0, <4>2, ThrownFacts
            <4> QED BY <3>2, <4>1, <4>2
        <3> QED BY <3>3, BetweenEventsIsGrounded
    <2> QED BY <1>3, <2>1, <2>2, <2>3, <2>4, <2>5, <2>6 DEF Work
<1>4. ASSUME NEW w \in Worker, Crash(w) \/ Refused(w) PROVE WorkerGrounded(v)'
    <2>0. CASE v # w
        <3>1. worker'[v] = worker[v]
            BY <1>0, <1>4, <2>0 DEF Crash, Refused, Fault
        <3> QED BY <3>1, OthersStayGrounded
    <2> SUFFICES ASSUME v = w PROVE WorkerGrounded(v)'
        BY <2>0
    <2>1. CASE worker[v].stage = "publish" /\ Fault(v, [worker[v] EXCEPT !.stage = "fail"])
        <3>1. /\ worker'[v].stage = "fail" /\ worker'[v].event = worker[v].event
              /\ worker'[v].batch = worker[v].batch /\ worker'[v].claimed = worker[v].claimed
            BY <1>0, <2>1 DEF Fault, WorkerState
        <3>2. UNCHANGED <<row, handled, failures>>
            BY <2>1 DEF Fault
        <3> QED BY <1>0, <2>1, <3>1, <3>2 DEF WorkerGrounded
    <2>2. CASE Fault(v, Idle)
        <3>1. worker'[v] = Idle
            BY <1>0, <2>2 DEF Fault
        <3>2. \A e \in Event : worker[v].claimed[e] \in Nat
            BY <1>0 DEF WorkerState
        <3> QED BY <3>1, <3>2, BetweenEventsIsGrounded DEF Idle
    <2>3. CASE Fault(v, Thrown(worker[v]))
        <3>1. worker'[v] = Thrown(worker[v])
            BY <1>0, <2>3 DEF Fault
        <3> QED BY <1>0, <3>1, ThrownFacts, BetweenEventsIsGrounded
    <2>4. ASSUME NEW t \in worker[v].tenants, Fault(v, Onward([worker[v] EXCEPT !.tenants = @ \ {t}]))
          PROVE  WorkerGrounded(v)'
        <3> DEFINE q == [worker[v] EXCEPT !.tenants = @ \ {t}]
        <3>1. q \in WorkerState /\ q.batch = worker[v].batch /\ q.claimed = worker[v].claimed
            BY <1>0 DEF WorkerState
        <3>2. worker'[v] = Onward(q)
            BY <1>0, <2>4 DEF Fault
        <3> HIDE DEF q
        <3> QED BY <3>1, <3>2, OnwardFacts, BetweenEventsIsGrounded
    <2> QED BY <1>4, <2>1, <2>2, <2>3, <2>4 DEF Crash, Refused
<1>5. CASE UNCHANGED vars
    <2>1. worker' = worker
        BY <1>5 DEF vars
    <2> QED BY <2>1, OthersStayGrounded
<1> QED BY <1>1, <1>2, <1>3, <1>4, <1>5 DEF Next

\* What a step does to a row, and to the count of its failures: nothing the dispatcher reads,
\* or one of the four things a worker or the sweep does.
RowStep(e) ==
    \/ row'[e].status = row[e].status /\ row'[e].attempts = row[e].attempts
       /\ failures[e] <= failures'[e]
    \/ row[e].status = "ABSENT" /\ row'[e].status = "PENDING" /\ row'[e].attempts = row[e].attempts
       /\ failures'[e] = failures[e]
    \/ row[e].status = "PUBLISHED" /\ row'[e].status = "PURGED"
       /\ row'[e].attempts = row[e].attempts /\ failures'[e] = failures[e]
    \/ e \in handled /\ e \in performed /\ row[e].status \in {"PENDING", "PUBLISHED", "DEAD"}
       /\ row'[e].status = "PUBLISHED" /\ row'[e].attempts = row[e].attempts
       /\ failures'[e] = failures[e]
    \/ e \in handled /\ row'[e].status = row[e].status /\ row'[e].attempts <= failures'[e]
       /\ failures'[e] = failures[e] + 1
    \/ e \in handled /\ row[e].status \in {"PENDING", "DEAD"} /\ row'[e].status = "DEAD"
       /\ row'[e].attempts = row[e].attempts
       /\ failures'[e] = failures[e] + 1 /\ failures'[e] >= MaxAttempts

LEMMA RowSteps == IInv /\ [Next]_vars => \A e \in Event : RowStep(e)
<1> SUFFICES ASSUME IInv, [Next]_vars, NEW e \in Event PROVE RowStep(e)
    OBVIOUS
<1>0. /\ row \in [Event -> Row] /\ row[e] \in Row /\ failures \in [Event -> Nat]
      /\ failures[e] \in Nat /\ failures[e] <= failures[e]
    BY DEF IInv, TypeOK
<1>1. CASE Tick
    <2>1. row'[e] = [row[e] EXCEPT !.wait = Less(@), !.keep = Less(@)] /\ failures' = failures
        BY <1>1 DEF Tick
    <2> QED BY <1>0, <2>1 DEF RowStep, Row
<1>2. ASSUME NEW f \in Event, Elsewhere(f) PROVE RowStep(e)
    <2>1. ASSUME NEW d \in Delay, Commit(f, d) PROVE RowStep(e)
        BY <1>0, <2>1 DEF Commit, RowStep, Row
    <2>2. CASE Register(f)
        BY <1>0, <2>2 DEF Register, RowStep
    <2>3. CASE Sweep(f)
        BY <1>0, <2>3 DEF Sweep, RowStep, Row
    <2> QED BY <1>2, <2>1, <2>2, <2>3 DEF Elsewhere
<1>3. ASSUME NEW w \in Worker, Work(w) PROVE RowStep(e)
    <2>1. ASSUME NEW t \in Tenant, Claim(w, t) PROVE RowStep(e)
        <3>1. row'[e] \in {row[e], [row[e] EXCEPT !.wait = Lease]} /\ failures' = failures
            BY <1>0, <2>1 DEF Claim
        <3> QED BY <1>0, <3>1 DEF RowStep, Row
    <2>2. CASE MarkPublished(w) \/ MarkFailed(w) \/ MarkDead(w)
        <3> DEFINE f == worker[w].event
                   n == worker[w].claimed[f] + 1
        <3>1. /\ worker[w] \in WorkerState /\ f \in Event /\ f \in handled
              /\ row[f] \in Row /\ row[f].status # "ABSENT"
              /\ worker[w].claimed[f] \in Nat /\ failures[f] \in Nat
              /\ worker[w].claimed[f] <= failures[f]
            <4>1. worker[w].stage \in {"publish", "fail"}
                BY <2>2 DEF MarkPublished, MarkFailed, MarkDead
            <4>2. worker[w] \in WorkerState /\ WorkerGrounded(w)
                BY DEF IInv, TypeOK
            <4>3. f \in worker[w].batch /\ f \in handled /\ row[f].status # "ABSENT"
                BY <4>1, <4>2 DEF WorkerGrounded
            <4>4. f \in Event /\ worker[w].claimed[f] \in Nat
                BY <4>2, <4>3 DEF WorkerState
            <4>5. row[f] \in Row /\ failures[f] \in Nat
                BY <4>4 DEF IInv, TypeOK
            <4> QED BY <4>2, <4>3, <4>4, <4>5 DEF WorkerGrounded
        <3>2. CASE MarkPublished(w)
            <4>1. f \in performed
                BY <3>2 DEF MarkPublished, IInv, WorkerGrounded
            <4>2. failures' = failures
                BY <3>2 DEF MarkPublished
            <4> DEFINE to == [row[f] EXCEPT !.status = "PUBLISHED", !.wait = 0, !.keep = Retention + 1]
            <4>3. \/ row' = row
                  \/ row[f].status # "PURGED" /\ row' = [row EXCEPT ![f] = to]
                BY <3>2 DEF MarkPublished
            <4>4. row[f].status # "PURGED" => row[f].status \in {"PENDING", "PUBLISHED", "DEAD"}
                BY <3>1 DEF Row
            <4>5. to.status = "PUBLISHED" /\ to.attempts = row[f].attempts
                BY <3>1, RowChanges
            <4> HIDE DEF f, to
            <4> QED BY <1>0, <3>1, <4>1, <4>2, <4>3, <4>4, <4>5 DEF RowStep
        <3>3. CASE MarkFailed(w)
            <4>1. failures' = [failures EXCEPT ![f] = @ + 1]
                BY <3>3 DEF MarkFailed
            <4>2. n \in Nat /\ n <= failures[f] + 1
                BY <3>1
            <4> DEFINE to == [row[f] EXCEPT !.attempts = n, !.wait = Backoff(n)]
            <4>3. row' = row \/ row' = [row EXCEPT ![f] = to]
                BY <3>3 DEF MarkFailed
            <4>4. row[f].attempts \in Nat /\ row[f].attempts <= failures[f] + 1
                BY <3>1 DEF IInv, AttemptsHappened, Row
            <4>5. to.status = row[f].status /\ to.attempts = n
                BY <3>1, RowChanges
            <4> HIDE DEF n, f, to
            <4>6. CASE e = f
                <5>1. row'[e].status = row[e].status /\ row'[e].attempts \in {row[e].attempts, n}
                    BY <1>0, <3>1, <4>3, <4>5, <4>6
                <5> QED BY <1>0, <3>1, <4>1, <4>2, <4>4, <4>6, <5>1 DEF RowStep
            <4>7. CASE e # f
                BY <1>0, <3>1, <4>1, <4>3, <4>7 DEF RowStep
            <4> QED BY <4>6, <4>7
        <3>4. CASE MarkDead(w)
            <4>1. n >= MaxAttempts /\ failures[f] + 1 >= n
                BY <3>1, <3>4 DEF MarkDead
            <4>2. failures[f] + 1 >= MaxAttempts
                BY <3>1, <4>1
            <4>3. \/ row' = row /\ failures' = failures
                  \/ /\ row[f].status \in {"PENDING", "DEAD"}
                     /\ row' = [row EXCEPT ![f].status = "DEAD", ![f].wait = 0]
                     /\ failures' = [failures EXCEPT ![f] = @ + 1]
                BY <3>4 DEF MarkDead
            <4> HIDE DEF n, f
            <4> QED BY <1>0, <3>1, <4>2, <4>3 DEF RowStep, Row
        <3> QED BY <2>2, <3>2, <3>3, <3>4
    <2>3. CASE row' = row /\ failures' = failures
        BY <1>0, <2>3 DEF RowStep
    <2>4. \/ \E t \in Tenant : Claim(w, t)
          \/ MarkPublished(w) \/ MarkFailed(w) \/ MarkDead(w)
          \/ row' = row /\ failures' = failures
        BY <1>3 DEF Work, BeginCycle, Skip, Start, HandlerSucceeds, HandlerFails
    <2> QED BY <2>1, <2>2, <2>3, <2>4
<1>4. ASSUME NEW w \in Worker, Crash(w) \/ Refused(w) PROVE RowStep(e)
    BY <1>0, <1>4 DEF Crash, Refused, Fault, RowStep
<1>5. CASE UNCHANGED vars
    BY <1>0, <1>5 DEF vars, RowStep
<1> QED BY <1>1, <1>2, <1>3, <1>4, <1>5 DEF Next

\* IInv is kept by every step.
LEMMA InductiveStep == IInv /\ [Next]_vars => IInv'
<1> SUFFICES ASSUME IInv, [Next]_vars PROVE IInv'
    OBVIOUS
<1>1. TypeOK'
    BY TypeStep
<1>2. \A w \in Worker : WorkerGrounded(w)'
    BY <1>1, GroundedStep
<1>3. \A e \in Event : /\ row[e] \in Row /\ row'[e] \in Row
                       /\ failures[e] \in Nat /\ failures'[e] \in Nat
    BY <1>1 DEF IInv, TypeOK
<1>4. \A e \in Event : RowStep(e) /\ (e \in handled => e \in handled')
    BY RowSteps, NothingForgotten
<1>5. ASSUME NEW e \in Event
      PROVE  /\ row'[e].status = "DEAD" => failures'[e] >= MaxAttempts
             /\ row'[e].attempts <= failures'[e]
             /\ e \notin handled' => row'[e].status \in {"ABSENT", "PENDING"} /\ row'[e].attempts = 0
    <2>1. /\ row[e].status = "DEAD" => failures[e] >= MaxAttempts
          /\ row[e].attempts <= failures[e]
          /\ e \notin handled => row[e].status \in {"ABSENT", "PENDING"} /\ row[e].attempts = 0
        BY DEF IInv, DeadAfterEveryAttempt, AttemptsHappened, UnhandledIsUntouched
    <2>2. row[e].attempts \in Nat /\ row'[e].attempts \in Nat
        BY <1>3 DEF Row
    <2>3. row'[e].status = "DEAD" => failures'[e] >= MaxAttempts
        BY <1>3, <1>4, <2>1 DEF RowStep
    <2>4. row'[e].attempts <= failures'[e]
        BY <1>3, <1>4, <2>1, <2>2 DEF RowStep
    <2>5. e \notin handled' => row'[e].status \in {"ABSENT", "PENDING"} /\ row'[e].attempts = 0
        BY <1>4, <2>1 DEF RowStep
    <2> QED BY <2>3, <2>4, <2>5
<1>6. DeadAfterEveryAttempt' /\ AttemptsHappened' /\ UnhandledIsUntouched'
    BY <1>5 DEF DeadAfterEveryAttempt, AttemptsHappened, UnhandledIsUntouched
<1> QED BY <1>1, <1>2, <1>6 DEF IInv

THEOREM Invariance == Spec => []IInv
<1>1. Init => IInv
    BY InitIInv
<1>2. IInv /\ [Next]_vars => IInv'
    BY InductiveStep
<1> QED BY <1>1, <1>2, PTL DEF Spec

\* Every variable of the dispatcher always has its type, and the order is one of pending rows.
THEOREM DispatchTypes == Spec => []TypeOK
<1>1. IInv => TypeOK
    BY DEF IInv
<1> QED BY <1>1, Invariance, PTL

\* However workers overtake each other and whatever counts they overwrite, an event is given
\* up only after every one of its attempts has failed.
THEOREM NoneGivenUpEarly == Spec => []DeadAfterEveryAttempt
<1>1. IInv => DeadAfterEveryAttempt
    BY DEF IInv
<1> QED BY <1>1, Invariance, PTL

\* An event without a handler is never touched but for its turn in the queue.
THEOREM UnhandledWait == Spec => []UnhandledIsUntouched
<1>1. IInv => UnhandledIsUntouched
    BY DEF IInv
<1> QED BY <1>1, Invariance, PTL

\* Each step of the dispatcher is a step of AtLeastOnce, or none.
LEMMA StepsAreAllowed == IInv /\ [Next]_vars => [Fate!Next]_<<[e \in Event |-> row[e].status], performed>>
<1> SUFFICES ASSUME IInv, [Next]_vars
             PROVE  [Fate!Next]_<<[e \in Event |-> row[e].status], performed>>
    OBVIOUS
<1> DEFINE fate == [e \in Event |-> row[e].status]
<1>0. row \in [Event -> Row]
    BY DEF IInv, TypeOK
<1>1. CASE \A e \in Event : row'[e].status = row[e].status
    <2>1. fate' = fate
        BY <1>1
    <2>2. performed' = performed \/ \E e \in Event : row[e].status # "ABSENT" /\ performed' = performed \union {e}
        <3>1. ASSUME NEW w \in Worker, HandlerSucceeds(w)
              PROVE  \E e \in Event : row[e].status # "ABSENT" /\ performed' = performed \union {e}
            <4>1. worker[w].event \in Event /\ row[worker[w].event].status # "ABSENT"
                BY <3>1 DEF HandlerSucceeds, IInv, TypeOK, WorkerGrounded, WorkerState
            <4> QED BY <3>1, <4>1 DEF HandlerSucceeds
        <3>2. performed' = performed \/ \E w \in Worker : HandlerSucceeds(w)
            BY DEF Next, vars, Tick, Elsewhere, Commit, Register, Sweep, Work, BeginCycle, Claim,
                Skip, Start, HandlerFails, MarkPublished, MarkFailed, MarkDead, Crash, Refused, Fault
        <3> QED BY <3>1, <3>2
    <2>3. CASE performed' = performed
        BY <2>1, <2>3
    <2>4. ASSUME NEW e \in Event, row[e].status # "ABSENT", performed' = performed \union {e}
          PROVE  Fate!Next
        <3>1. fate[e] # "ABSENT"
            BY <2>4
        <3>2. Fate!Perform(e)
            BY <2>1, <2>4, <3>1 DEF Fate!Perform
        <3> QED BY <3>2 DEF Fate!Next
    <2> QED BY <2>2, <2>3, <2>4
<1>2. ASSUME NEW e \in Event, row'[e].status # row[e].status
      PROVE  Fate!Next
    <2>1. (\A f \in Event \ {e} : row'[f].status = row[f].status) /\ performed' = performed
        <3>1. ASSUME NEW f \in Event, Elsewhere(f)
              PROVE  (\A g \in Event \ {f} : row'[g] = row[g]) /\ performed' = performed
            BY <1>0, <3>1 DEF Elsewhere, Commit, Register, Sweep
        <3>2. ASSUME NEW w \in Worker, MarkPublished(w) \/ MarkDead(w)
              PROVE  (\A g \in Event \ {worker[w].event} : row'[g] = row[g]) /\ performed' = performed
            BY <1>0, <3>2 DEF MarkPublished, MarkDead
        <3>3. \/ \E f \in Event : Elsewhere(f)
              \/ \E w \in Worker : MarkPublished(w) \/ MarkDead(w)
            <4>1. CASE Tick
                <5>1. row[e] \in Row /\ row'[e] = [row[e] EXCEPT !.wait = Less(@), !.keep = Less(@)]
                    BY <1>0, <4>1 DEF Tick
                <5> QED BY <1>2, <5>1 DEF Row
            <4>2. ASSUME NEW w \in Worker, NEW t \in Tenant, Claim(w, t) PROVE FALSE
                <5>1. row[e] \in Row /\ row'[e] \in {row[e], [row[e] EXCEPT !.wait = Lease]}
                    BY <1>0, <4>2 DEF Claim
                <5> QED BY <1>2, <5>1 DEF Row
            <4>3. ASSUME NEW w \in Worker, MarkFailed(w) PROVE FALSE
                <5> DEFINE f == worker[w].event
                           n == worker[w].claimed[f] + 1
                <5>1. row' = row \/ row' = [row EXCEPT ![f] = [row[f] EXCEPT !.attempts = n, !.wait = Backoff(n)]]
                    BY <4>3 DEF MarkFailed
                <5> HIDE DEF f, n
                <5>2. row'[e] \in {row[e], [row[e] EXCEPT !.attempts = n, !.wait = Backoff(n)]}
                    <6>1. CASE e = f
                        BY <1>0, <5>1, <6>1
                    <6>2. CASE e # f
                        BY <1>0, <5>1, <6>2
                    <6> QED BY <6>1, <6>2
                <5> DEFINE to == [row[e] EXCEPT !.attempts = n, !.wait = Backoff(n)]
                <5>3. to.status = row[e].status
                    BY <1>0, RowChanges
                <5>4. row'[e] \in {row[e], to}
                    BY <5>2
                <5> HIDE DEF to
                <5> QED BY <1>2, <5>3, <5>4
            <4>4. \/ Tick \/ row' = row \/ (\E f \in Event : Elsewhere(f))
                  \/ \E w \in Worker : \/ \E t \in Tenant : Claim(w, t)
                                       \/ MarkFailed(w) \/ MarkPublished(w) \/ MarkDead(w)
                BY DEF Next, vars, Work, BeginCycle, Skip, Start, HandlerSucceeds, HandlerFails,
                    Crash, Refused, Fault
            <4> QED BY <1>2, <4>1, <4>2, <4>3, <4>4
        <3> QED BY <1>2, <3>1, <3>2, <3>3
    <2>2. fate' = [fate EXCEPT ![e] = row'[e].status]
        BY <2>1
    <2>3. RowStep(e)
        BY RowSteps
    <2>4. fate[e] = row[e].status
        OBVIOUS
    <2>5. row[e].status \in {"ABSENT", "PENDING", "PUBLISHED", "DEAD", "PURGED"}
        BY <1>0 DEF Row
    <2>6. \/ fate[e] = "ABSENT" /\ row'[e].status = "PENDING"
          \/ fate[e] = "PUBLISHED" /\ row'[e].status = "PURGED"
          \/ fate[e] \in {"PENDING", "DEAD"} /\ e \in performed /\ row'[e].status = "PUBLISHED"
          \/ fate[e] = "PENDING" /\ row'[e].status = "DEAD"
        BY <1>2, <2>3, <2>4, <2>5 DEF RowStep
    <2>7. Fate!Commit(e) \/ Fate!Purge(e) \/ Fate!Publish(e) \/ Fate!GiveUp(e)
        BY <2>1, <2>2, <2>6 DEF Fate!Commit, Fate!Purge, Fate!Publish, Fate!GiveUp
    <2> QED BY <2>7 DEF Fate!Next
<1> QED BY <1>1, <1>2

\* The dispatcher, its workers overtaking each other and dying where they may, implements
\* at-least-once delivery.
THEOREM DispatchIsAtLeastOnce == Spec => ImplementsAtLeastOnce
<1>1. Init => Fate!Init
    BY DEF Init, Fate!Init
<1>2. IInv /\ [Next]_vars => [Fate!Next]_<<[e \in Event |-> row[e].status], performed>>
    BY StepsAreAllowed
<1> QED BY <1>1, <1>2, Invariance, PTL DEF Spec, Fate!Spec, ImplementsAtLeastOnce

=============================================================================
