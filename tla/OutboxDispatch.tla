--------------------------- MODULE OutboxDispatch ---------------------------
(***************************************************************************)
(* The transactional outbox and its dispatcher                             *)
(* (apps/server/src/common/outbox).  Events are rows written in the        *)
(* transaction of the state change they describe; workers poll, claim a    *)
(* batch under a lease, run one handler per event and mark the row.  A     *)
(* worker is a process that may be overtaken by the others, or die, at     *)
(* each await, and that keeps the attempts it read when it claimed.        *)
(*                                                                         *)
(* The gateway's SQL is that of test/isolation/outbox.int-spec.ts, the     *)
(* only one the repository has.  Time is kept as what is left of it:       *)
(* row.wait ticks until available_at, row.keep until the sweep may delete  *)
(* it, so that a run need not end; what that loses, the order of           *)
(* available_at among rows already due, is the relation older.             *)
(***************************************************************************)
EXTENDS Naturals, FiniteSets

CONSTANTS
    Event,         \* events, each of a type of its own
    Tenant,
    TenantOf,      \* outbox.tenant_id
    Worker,        \* processes that poll
    NONE,          \* no event
    BatchSize,     \* options.batchSize
    MaxAttempts,   \* options.maxAttempts
    Lease,         \* options.leaseMs, in ticks
    MaxBackoff,    \* MAX_BACKOFF_MS
    Retention,     \* options.retentionDays
    Delay,         \* how far ahead a writer may set availableAt
    HandlerBudget, \* bound on the ticks a worker spends on one event
    MaxFaults      \* bound on the deaths of workers and the writes refused

ASSUME TenantAssumption == TenantOf \in [Event -> Tenant] /\ NONE \notin Event
ASSUME OptionsAssumption ==
    /\ BatchSize \in Nat \ {0} /\ MaxAttempts \in Nat \ {0} /\ Lease \in Nat \ {0}
    /\ MaxBackoff \in Nat /\ Retention \in Nat /\ Delay \in SUBSET Nat
    /\ HandlerBudget \in Nat /\ MaxFaults \in Nat

VARIABLES
    row,       \* the outbox table
    older,     \* the order of available_at, then id, among the pending rows
    handled,   \* the events whose type has a handler
    worker,    \* what each worker is doing, and what it has read
    performed, \* history: the events whose handler has run to its end at least once
    failures,  \* history: the failures recorded for each event
    faults     \* how many faults there have been

vars == <<row, older, handled, worker, performed, failures, faults>>

Row == [status: {"ABSENT", "PENDING", "PUBLISHED", "DEAD", "PURGED"},
        attempts: Nat, wait: Nat, keep: Nat]

Stage == {"idle", "cycle", "batch", "handle", "publish", "fail"}

\* tenants and batch are what is left of the cycle and of the claim, event the one whose
\* handler was called, claimed the attempts read with the batch, busy the ticks spent on event.
WorkerState ==
    [stage: Stage, tenants: SUBSET Tenant, batch: SUBSET Event, event: Event \union {NONE},
     claimed: [Event -> Nat], busy: Nat]

Idle == [stage |-> "idle", tenants |-> {}, batch |-> {}, event |-> NONE,
         claimed |-> [e \in Event |-> 0], busy |-> 0]

Init ==
    /\ row = [e \in Event |-> [status |-> "ABSENT", attempts |-> 0, wait |-> 0, keep |-> 0]]
    /\ older = {}
    /\ handled = {}
    /\ worker = [w \in Worker |-> Idle]
    /\ performed = {}
    /\ failures = [e \in Event |-> 0]
    /\ faults = 0

-----------------------------------------------------------------------------
Pending  == {e \in Event : row[e].status = "PENDING"}
Due      == {e \in Pending : row[e].wait = 0}
DueOf(t) == {e \in Due : TenantOf[e] = t}

\* available_at of the rows in some becomes now + d.  Among rows due together, and among
\* equal ones, the order stays what it was (the ids are random).
Requeued(some, d) ==
    {p \in (Pending \union some) \X (Pending \union some) :
        IF (p[1] \in some) = (p[2] \in some) THEN p \in older
        ELSE IF p[2] \in some THEN row[p[1]].wait <= d
        ELSE row[p[2]].wait > d}

Dequeued(e) == {p \in older : e \notin {p[1], p[2]}}

\* backoffMs, in ticks.
Backoff(attempts) == IF 2 ^ attempts \in 0..MaxBackoff THEN 2 ^ attempts ELSE MaxBackoff

\* Where the loops of dispatchOnce and dispatchCycle go next.
Onward(q) ==
    IF q.batch # {} THEN [q EXCEPT !.stage = "batch"]
    ELSE IF q.tenants # {} THEN [q EXCEPT !.stage = "cycle"]
    ELSE Idle

\* Event e of the batch is dealt with.
Past(q, e) ==
    Onward([q EXCEPT !.batch = @ \ {e}, !.claimed[e] = 0, !.event = NONE, !.busy = 0])

\* Something threw out of dispatchOnce: dispatchCycle logs it and takes the next tenant.
Thrown(q) == Onward([Idle EXCEPT !.tenants = q.tenants])

-----------------------------------------------------------------------------
(* The writer, and what is deployed                                        *)

\* The transaction that recorded the event commits.
Commit(e, d) ==
    /\ row[e].status = "ABSENT"
    /\ row' = [row EXCEPT ![e].status = "PENDING", ![e].wait = d]
    /\ older' = Requeued({e}, d)
    /\ UNCHANGED <<handled, worker, performed, failures, faults>>

\* on: a second registration throws.
Register(e) ==
    /\ e \notin handled
    /\ handled' = handled \union {e}
    /\ UNCHANGED <<row, older, worker, performed, failures, faults>>

-----------------------------------------------------------------------------
(* dispatchCycle and dispatchOnce                                          *)

\* pendingTenants: those with work, the oldest first, as many as a batch has rows.
TenantIsOlder(t, u) == \E e \in DueOf(t) : \A f \in DueOf(u) : <<e, f>> \in older

WithWork == {t \in Tenant : DueOf(t) # {}}

BeginCycle(w) ==
    /\ worker[w].stage = "idle"
    /\ WithWork # {}
    /\ worker' = [worker EXCEPT ![w] = Onward([Idle EXCEPT !.tenants =
           {t \in WithWork : Cardinality({u \in WithWork : TenantIsOlder(u, t)}) < BatchSize}])]
    /\ UNCHANGED <<row, older, handled, performed, failures, faults>>

\* What claimBatch selects, ORDER BY available_at, id LIMIT batchSize, and what it returns.
OldestDue(t) ==
    {e \in DueOf(t) : Cardinality({f \in DueOf(t) : <<f, e>> \in older}) < BatchSize}

WithBatch(q, t) ==
    [q EXCEPT !.tenants = @ \ {t}, !.batch = OldestDue(t),
              !.claimed = [e \in Event |-> IF e \in OldestDue(t) THEN row[e].attempts ELSE 0]]

\* claimBatch: UPDATE ... SET available_at = now + lease ... RETURNING.
Claim(w, t) ==
    /\ worker[w].stage = "cycle"
    /\ t \in worker[w].tenants
    /\ row' = [e \in Event |->
                  IF e \in OldestDue(t) THEN [row[e] EXCEPT !.wait = Lease] ELSE row[e]]
    /\ older' = Requeued(OldestDue(t), Lease)
    /\ worker' = [worker EXCEPT ![w] = Onward(WithBatch(@, t))]
    /\ UNCHANGED <<handled, performed, failures, faults>>

Skip_AsFailure(w, e) ==
    /\ worker[w].stage = "batch"
    /\ e \in worker[w].batch \ handled
    /\ worker' = [worker EXCEPT ![w].stage = "fail", ![w].event = e]
    /\ UNCHANGED <<row, older, handled, performed, failures, faults>>

\* No handler yet: the row is left as the claim left it.
Skip(w, e) ==
    /\ worker[w].stage = "batch"
    /\ e \in worker[w].batch \ handled
    /\ worker' = [worker EXCEPT ![w] = Past(@, e)]
    /\ UNCHANGED <<row, older, handled, performed, failures, faults>>

\* RETURNING promises no order: any event of the batch is next.
Start(w, e) ==
    /\ worker[w].stage = "batch"
    /\ e \in worker[w].batch \intersect handled
    /\ worker' = [worker EXCEPT ![w].stage = "handle", ![w].event = e]
    /\ UNCHANGED <<row, older, handled, performed, failures, faults>>

HandlerSucceeds(w) ==
    /\ worker[w].stage = "handle"
    /\ performed' = performed \union {worker[w].event}
    /\ worker' = [worker EXCEPT ![w].stage = "publish"]
    /\ UNCHANGED <<row, older, handled, failures, faults>>

HandlerFails(w) ==
    /\ worker[w].stage = "handle"
    /\ worker' = [worker EXCEPT ![w].stage = "fail"]
    /\ UNCHANGED <<row, older, handled, performed, failures, faults>>

\* UPDATE ... SET status = 'PUBLISHED', published_at = now WHERE id: whatever the status was.
MarkPublished(w) ==
    LET e == worker[w].event
    IN  /\ worker[w].stage = "publish"
        /\ IF row[e].status = "PURGED" THEN UNCHANGED <<row, older>>
           ELSE /\ row' = [row EXCEPT ![e] =
                       [@ EXCEPT !.status = "PUBLISHED", !.wait = 0, !.keep = Retention + 1]]
                /\ older' = Dequeued(e)
        /\ worker' = [worker EXCEPT ![w] = Past(@, e)]
        /\ UNCHANGED <<handled, performed, failures, faults>>

MarkFailed_NotCounted(w) ==
    LET e == worker[w].event
    IN  /\ worker[w].stage = "fail"
        /\ worker[w].claimed[e] + 1 < MaxAttempts
        /\ IF row[e].status = "PENDING"
           THEN /\ row' = [row EXCEPT ![e].wait = Backoff(1)]
                /\ older' = Requeued({e}, Backoff(1))
           ELSE UNCHANGED <<row, older>>
        /\ worker' = [worker EXCEPT ![w] = Past(@, e)]
        /\ UNCHANGED <<handled, performed, failures, faults>>

MarkFailed_BackToPending(w) ==
    LET e == worker[w].event
        attempts == worker[w].claimed[e] + 1
    IN  /\ worker[w].stage = "fail"
        /\ attempts < MaxAttempts
        /\ row' = [row EXCEPT ![e] =
               [@ EXCEPT !.status = "PENDING", !.attempts = attempts, !.wait = Backoff(attempts)]]
        /\ older' = Requeued({e}, Backoff(attempts))
        /\ failures' = [failures EXCEPT ![e] = @ + 1]
        /\ worker' = [worker EXCEPT ![w] = Past(@, e)]
        /\ UNCHANGED <<handled, performed, faults>>

\* The attempts written are those the claim read, and one; available_at moves only what is
\* still pending.
MarkFailed(w) ==
    LET e == worker[w].event
        attempts == worker[w].claimed[e] + 1
    IN  /\ worker[w].stage = "fail"
        /\ attempts < MaxAttempts
        /\ IF row[e].status = "PENDING"
           THEN /\ row' = [row EXCEPT ![e] =
                       [@ EXCEPT !.attempts = attempts, !.wait = Backoff(attempts)]]
                /\ older' = Requeued({e}, Backoff(attempts))
           ELSE UNCHANGED <<row, older>>
        /\ failures' = [failures EXCEPT ![e] = @ + 1]
        /\ worker' = [worker EXCEPT ![w] = Past(@, e)]
        /\ UNCHANGED <<handled, performed, faults>>

MarkDead_OneEarly(w) ==
    LET e == worker[w].event
    IN  /\ worker[w].stage = "fail"
        /\ worker[w].claimed[e] + 2 >= MaxAttempts
        /\ row[e].status \in {"PENDING", "DEAD"}
        /\ row' = [row EXCEPT ![e].status = "DEAD", ![e].wait = 0]
        /\ older' = Dequeued(e)
        /\ failures' = [failures EXCEPT ![e] = @ + 1]
        /\ worker' = [worker EXCEPT ![w] = Past(@, e)]
        /\ UNCHANGED <<handled, performed, faults>>

\* UPDATE ... SET status = 'DEAD' WHERE id.  ck_outbox__published refuses it on a row that
\* has a published_at, and that throws out of the catch block.
MarkDead(w) ==
    LET e == worker[w].event
    IN  /\ worker[w].stage = "fail"
        /\ worker[w].claimed[e] + 1 >= MaxAttempts
        /\ IF row[e].status \in {"PENDING", "DEAD"}
           THEN /\ row' = [row EXCEPT ![e].status = "DEAD", ![e].wait = 0]
                /\ older' = Dequeued(e)
                /\ failures' = [failures EXCEPT ![e] = @ + 1]
           ELSE UNCHANGED <<row, older, failures>>
        /\ worker' = [worker EXCEPT ![w] =
               IF row[e].status = "PUBLISHED" THEN Thrown(@) ELSE Past(@, e)]
        /\ UNCHANGED <<handled, performed, faults>>

\* sweep: batched deletes, one row or another at a time.
Sweep(e) ==
    /\ row[e].status = "PUBLISHED" /\ row[e].keep = 0
    /\ row' = [row EXCEPT ![e].status = "PURGED"]
    /\ UNCHANGED <<older, handled, worker, performed, failures, faults>>

-----------------------------------------------------------------------------
(* The environment                                                         *)

Fault(w, q) ==
    /\ faults < MaxFaults
    /\ faults' = faults + 1
    /\ worker' = [worker EXCEPT ![w] = q]
    /\ UNCHANGED <<row, older, handled, performed, failures>>

\* The process dies, and is started again.
Crash(w) == worker[w].stage # "idle" /\ Fault(w, Idle)

\* The database refuses a write: markPublished is inside the try, the rest is not.
Refused(w) ==
    \/ worker[w].stage = "publish" /\ Fault(w, [worker[w] EXCEPT !.stage = "fail"])
    \/ worker[w].stage = "fail" /\ Fault(w, Thrown(worker[w]))
    \/ worker[w].stage = "cycle" /\ \E t \in worker[w].tenants :
          Fault(w, Onward([worker[w] EXCEPT !.tenants = @ \ {t}]))

Less(n) == IF n = 0 THEN 0 ELSE n - 1

InABatch(w) == worker[w].stage \in {"batch", "handle", "publish", "fail"}

Tick ==
    /\ \A w \in Worker : InABatch(w) => worker[w].busy < HandlerBudget
    /\ row' = [e \in Event |-> [row[e] EXCEPT !.wait = Less(@), !.keep = Less(@)]]
    /\ worker' = [w \in Worker |->
           IF InABatch(w) THEN [worker[w] EXCEPT !.busy = @ + 1] ELSE worker[w]]
    /\ UNCHANGED <<older, handled, performed, failures, faults>>

Work(w) ==
    \/ BeginCycle(w)
    \/ \E t \in Tenant : Claim(w, t)
    \/ \E e \in Event : Skip(w, e) \/ Start(w, e)
    \/ HandlerSucceeds(w) \/ HandlerFails(w)
    \/ MarkPublished(w) \/ MarkFailed(w) \/ MarkDead(w)

Elsewhere(e) == Register(e) \/ Sweep(e) \/ \E d \in Delay : Commit(e, d)

Next ==
    \/ Tick
    \/ \E e \in Event : Elsewhere(e)
    \/ \E w \in Worker : Work(w) \/ Crash(w) \/ Refused(w)

Spec == Init /\ [][Next]_vars

\* Every worker keeps polling, its handlers settle, and time passes.
Fairness == WF_vars(Tick) /\ \A w \in Worker : WF_vars(Work(w))

FairSpec == Spec /\ Fairness

-----------------------------------------------------------------------------
(* What holds                                                              *)

\* Every variable has its type; the order is one of pending rows.
TypeOK ==
    /\ row \in [Event -> Row]
    /\ older \in SUBSET (Pending \X Pending)
    /\ handled \in SUBSET Event
    /\ worker \in [Worker -> WorkerState]
    /\ performed \in SUBSET Event
    /\ failures \in [Event -> Nat]
    /\ faults \in 0..MaxFaults

\* An event is given up only after MaxAttempts failures were recorded for it, although a
\* worker counts from the attempts it claimed with and overwrites what others wrote since.
DeadAfterEveryAttempt ==
    \A e \in Event : row[e].status = "DEAD" => failures[e] >= MaxAttempts

\* An event nobody handles waits: it is neither given up nor published, and the polls it
\* goes through cost it no attempt, so it has them all when its handler is registered.
UnhandledIsUntouched ==
    \A e \in Event \ handled :
        row[e].status \in {"ABSENT", "PENDING"} /\ row[e].attempts = 0

\* A committed event somebody handles is published or given up in the end, whatever fails,
\* is claimed twice or dies in between, and whatever unhandled events are ahead of it.
EventsSettle ==
    \A e \in Event :
        e \in handled /\ row[e].status = "PENDING" ~> row[e].status # "PENDING"

Fate == INSTANCE AtLeastOnce WITH
    fate <- [e \in Event |-> row[e].status]

\* Every step, overtaken or cut short as it may be, is one at-least-once delivery allows:
\* nothing is lost, and nothing is published that was not performed.
ImplementsAtLeastOnce == Fate!Spec

-----------------------------------------------------------------------------
(* What the comments say and the code does not do                          *)

\* "OUTBOX EVENT DEAD-LETTERED - this work did not happen."
DeadMeansNotPerformed ==
    \A e \in Event : row[e].status = "DEAD" => e \notin performed

\* "Long enough that a slow handler finishes inside it": while every worker spends less than
\* the lease on an event, no event is in the hands of two of them.
ClaimedByOne ==
    \A e \in Event : \A v, w \in Worker :
        e \in worker[v].batch /\ e \in worker[w].batch => v = w

=============================================================================
