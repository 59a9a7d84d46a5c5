------------------------------- MODULE AuditTrail -------------------------------
(***************************************************************************)
(* What gets onto the audit log, and who reads across gyms.  A request has *)
(* its frames (TenantContextMiddleware, ImpersonationContextMiddleware),   *)
(* which live in asynchronous contexts.  A platform read goes through      *)
(* runElevated, which appends its row first; a mutation is wrapped by the  *)
(* idempotency interceptor around the audit interceptor, which appends     *)
(* after the handler and does not wait.  append reports a failure to the   *)
(* logger and to nobody else.                                              *)
(***************************************************************************)
EXTENDS Integers, FiniteSets

CONSTANTS
    Flows, Gyms, RequestKeys, None,
    MaxRequests   \* bound: the requests of a behaviour

VARIABLES
    request,    \* flow -> its token's kind and gym, and the elevation it is in
    work,       \* flow -> where it is, and the mutation it performs
    stored,     \* idempotency key -> the gym and the action it was claimed for
    appending,    \* what the interceptor has begun to append and not yet written
    rows,       \* audit rows of mutations -> how many
    happened,   \* history: mutations that took effect -> how many
    crossed,    \* history: the requests that read across gyms
    recorded,   \* flow -> whether its elevation's row was written
    served      \* requests so far

vars == <<request, work, stored, appending, rows, happened, crossed, recorded, served>>

\* The tokens a request may carry: of somebody with a gym, of staff, of an
\* impersonation (signed without a gym), and the context of a job, which has none.
Tokens == [kind : {"gym"}, gym : Gyms]
          \cup [kind : {"staff", "borrowed", "job"}, gym : {None}]

Mutations == [action : {"CREATE", "UPDATE"}, gym : Gyms]
NoMutation == [action |-> "none", gym |-> None]
Nothing == [at |-> "idle", key |-> None, does |-> NoMutation]
NoRequest == [token |-> [kind |-> "job", gym |-> None], elevated |-> FALSE]
Unclaimed == [state |-> "free", does |-> NoMutation]
Zero == [m \in Mutations |-> 0]

Init ==
    /\ request = [f \in Flows |-> NoRequest]
    /\ work = [f \in Flows |-> Nothing]
    /\ stored = [k \in RequestKeys |-> Unclaimed]
    /\ appending = Zero /\ rows = Zero /\ happened = Zero
    /\ crossed = {} /\ recorded = [f \in Flows |-> FALSE]
    /\ served = 0

Token(f) == request[f].token

\* currentTenantContext, currentImpersonation.
Frame(f) == Token(f).gym
Borrowed(f) == Token(f).kind = "borrowed"

\* currentElevation.
Elevation(f) == request[f].elevated

Goto(f, stage) == work' = [work EXCEPT ![f].at = stage]

Arrive(f) ==
    /\ work[f].at = "idle" /\ served < MaxRequests
    /\ \E t \in Tokens : request' = [request EXCEPT ![f] = [token |-> t, elevated |-> FALSE]]
    /\ Goto(f, "in")
    /\ recorded' = [recorded EXCEPT ![f] = FALSE]
    /\ served' = served + 1
    /\ UNCHANGED <<stored, appending, rows, happened, crossed>>

Answer(f) ==
    /\ work[f].at = "in"
    /\ work' = [work EXCEPT ![f] = Nothing]
    /\ UNCHANGED <<request, stored, appending, rows, happened, crossed, recorded, served>>

\* runElevated's refusals.
MayElevate(f) == Frame(f) = None /\ ~Borrowed(f)

\* runElevated, up to the append: the row is written, or its failure swallowed.
Elevate(f) ==
    /\ work[f].at = "in" /\ MayElevate(f)
    /\ \E written \in BOOLEAN : recorded' = [recorded EXCEPT ![f] = written]
    /\ Goto(f, "recorded")
    /\ UNCHANGED <<request, stored, appending, rows, happened, crossed, served>>

\* The callback's context opens.
OpenElevation(f) ==
    /\ work[f].at = "recorded"
    /\ request' = [request EXCEPT ![f].elevated = TRUE]
    /\ Goto(f, "in")
    /\ UNCHANGED <<stored, appending, rows, happened, crossed, recorded, served>>

\* PlatformPrismaService.client, wherever it is reached from.
ReadAcross(f) ==
    /\ work[f].at \in {"in", "handling"} /\ Elevation(f)
    /\ crossed' = crossed \cup {[token |-> Token(f), recorded |-> recorded[f]]}
    /\ UNCHANGED <<request, work, stored, appending, rows, happened, recorded, served>>

CloseElevation(f) ==
    /\ work[f].at = "in" /\ request[f].elevated
    /\ request' = [request EXCEPT ![f].elevated = FALSE]
    /\ UNCHANGED <<work, stored, appending, rows, happened, crossed, recorded, served>>

\* A mutation of the gym of the token claims its key: the first comer performs
\* it, and so does one who waited for the first to the deadline; a later one is
\* given the stored answer, and a different request is a mismatch.
Claim(f, key, action) ==
    LET does == [action |-> action, gym |-> Frame(f)]
    IN  /\ work[f].at = "in" /\ Frame(f) # None
        /\ stored[key] \in {Unclaimed, [state |-> "claimed", does |-> does]}
        /\ stored' = [stored EXCEPT ![key] = [state |-> "claimed", does |-> does]]
        /\ work' = [work EXCEPT ![f] = [at |-> "handling", key |-> key, does |-> does]]
        /\ UNCHANGED <<request, appending, rows, happened, crossed, recorded, served>>

Replay_Audited(f, key, action) ==   \* mutant: the audit interceptor is the outer one
    LET does == [action |-> action, gym |-> Frame(f)]
    IN  /\ work[f].at = "in" /\ Frame(f) # None
        /\ stored[key] = [state |-> "done", does |-> does]
        /\ appending' = [appending EXCEPT ![does] = @ + 1]
        /\ work' = [work EXCEPT ![f] = Nothing]
        /\ UNCHANGED <<request, stored, rows, happened, crossed, recorded, served>>

Replay(f, key, action) ==
    /\ work[f].at = "in" /\ Frame(f) # None
    /\ stored[key] = [state |-> "done", does |-> [action |-> action, gym |-> Frame(f)]]
    /\ work' = [work EXCEPT ![f] = Nothing]
    /\ UNCHANGED <<request, stored, appending, rows, happened, crossed, recorded, served>>

\* The handler.  Done: both interceptors hear of it, the inner one first, and
\* neither waits: the key's answer may not get stored.  Failed: the key is
\* released and no row is appended.
Handle(f) ==
    /\ work[f].at = "handling"
    /\ LET key == work[f].key
           does == work[f].does
       IN  \/ /\ happened' = [happened EXCEPT ![does] = @ + 1]
              /\ appending' = [appending EXCEPT ![[does EXCEPT !.gym = Frame(f)]] = @ + 1]
              /\ stored' \in {stored, [stored EXCEPT ![key] = [state |-> "done", does |-> does]]}
           \/ /\ stored' = [stored EXCEPT ![key] = Unclaimed]
              /\ UNCHANGED <<happened, appending>>
    /\ work' = [work EXCEPT ![f] = Nothing]
    /\ UNCHANGED <<request, rows, crossed, recorded, served>>

\* The insert.  A route without an :id names no entity (extractIdParam), and an
\* empty id is not a uuid: the row of a CREATE is always lost.
Write(m) ==
    /\ appending[m] > 0
    /\ appending' = [appending EXCEPT ![m] = @ - 1]
    /\ \/ m.action # "CREATE" /\ rows' = [rows EXCEPT ![m] = @ + 1]
       \/ UNCHANGED rows
    /\ UNCHANGED <<request, work, stored, happened, crossed, recorded, served>>

\* The process dies: what was under way and not yet written is lost.
Die ==
    /\ \E f \in Flows : work[f].at # "idle"
    /\ work' = [f \in Flows |-> Nothing]
    /\ request' = [f \in Flows |-> [request[f] EXCEPT !.elevated = FALSE]]
    /\ appending' = Zero
    /\ UNCHANGED <<stored, rows, happened, crossed, recorded, served>>

Step(f) ==
    \/ Arrive(f) \/ Answer(f) \/ Elevate(f) \/ OpenElevation(f) \/ ReadAcross(f)
    \/ CloseElevation(f) \/ Handle(f)
    \/ \E key \in RequestKeys, action \in {"CREATE", "UPDATE"} :
           Claim(f, key, action) \/ Replay(f, key, action)

Next == (\E f \in Flows : Step(f)) \/ (\E m \in Mutations : Write(m)) \/ Die

Spec == Init /\ [][Next]_vars

-----------------------------------------------------------------------------
\* Whoever reads across gyms has neither a gym of his own open nor another's
\* identity, and only while his own elevation lasts.
OnlyTheElevatedCross ==
    \A read \in crossed : read.token.kind \in {"staff", "job"}

\* A row of a mutation names one that took effect, in its gym, and once: not one
\* that failed, and not one that was replayed.
RowsAreEvents == \A m \in Mutations : rows[m] + appending[m] <= happened[m]

\* The trail says what happened and nothing else, and nobody crosses gyms who may
\* not (audit.interceptor.ts "AFTER SUCCESS, NOT BEFORE"; app.module.ts
\* "Interceptor ORDER matters"; platform-elevation.ts PE-T5).
TrailIsTrue == OnlyTheElevatedCross /\ RowsAreEvents

\* "The audit row is written FIRST and the elevation is abandoned if it fails."
ElevationsAreOnRecord == \A read \in crossed : read.recorded
=============================================================================
