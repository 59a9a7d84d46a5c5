----------------------------- MODULE Idempotency -----------------------------
(***************************************************************************)
(* The idempotency interceptor and its store                               *)
(* (apps/server/src/common/idempotency), for one Idempotency-Key: the key  *)
(* is unique in the whole table, so rows of different keys never meet.     *)
(* The requests that carry it are retries of one request, other requests   *)
(* of the same gym that reuse it, and requests of another gym that chose   *)
(* it too.  A request may be overtaken at each of its statements, and its  *)
(* process may die there.                                                  *)
(*                                                                         *)
(* One clock stands for the clocks of the processes.  A tick is far longer *)
(* than the millisecond a released claim is given and than one poll.       *)
(***************************************************************************)
EXTENDS Naturals, FiniteSets

CONSTANTS
    Request,
    NOBODY,      \* no request
    Question,    \* what a request may ask: the gym it runs in, the id in its path, and its
                 \* route and canonical body
    Asking,      \* what the requests may ask between them
    Retention,   \* IDEMPOTENCY_RETENTION_SECONDS
    Timeout,     \* IN_FLIGHT_TIMEOUT_MS
    WorkBudget,  \* bound on the time from the start of a handler to the last write about it
    MaxClock,    \* bound on the clock
    MaxFaults    \* bound on the deaths of processes and the writes refused

ASSUME NobodyAssumption == NOBODY \notin Request
ASSUME QuestionAssumption ==
    /\ \A q \in Question : DOMAIN q = {"gym", "target", "body"}
    /\ Asking \subseteq [Request -> Question]
ASSUME TimeAssumption ==
    /\ Retention \in Nat \ {0} /\ Timeout \in Nat /\ WorkBudget \in Nat
    /\ WorkBudget < Retention
    /\ MaxClock \in Nat /\ MaxFaults \in Nat

VARIABLES
    row,       \* the row of the key: who inserted it, whose response it holds, expires_at
    req,       \* what each request is doing, and what it has read
    performed, \* history: the requests whose handler has taken effect
    clock,
    faults     \* how many faults there have been

vars == <<row, req, performed, clock, faults>>

Answered == {"record", "undo", "release", "served", "failed", "replayed", "refused", "dead"}

Stage == {"new", "claim", "inspect", "work"} \union Answered

Row == [holder: Request \union {NOBODY}, response: Request \union {NOBODY}, expires: Nat]

NoRow == [holder |-> NOBODY, response |-> NOBODY, expires |-> 0]

\* asked is the now of the last claim, right how the request came to execute, begun when,
\* seen the row its release read, answer whose response it was given.
RequestState ==
    [asks: Question, stage: Stage, deadline: Nat, asked: Nat, right: {"none", "claimed", "outwaited"},
     begun: Nat, seen: Request \union {NOBODY}, answer: Request \union {NOBODY}]

Init ==
    /\ row = NoRow
    /\ \E a \in Asking :
           req = [r \in Request |->
                     [asks |-> a[r], stage |-> "new", deadline |-> 0, asked |-> 0, right |-> "none",
                      begun |-> 0, seen |-> NOBODY, answer |-> NOBODY]]
    /\ performed = {}
    /\ clock = 0
    /\ faults = 0

-----------------------------------------------------------------------------
\* fingerprint: the path the interceptor hashes is the route's pattern, not what was called.
Fingerprint(r) == <<req[r].asks.gym, req[r].asks.body>>

\* What row-level security lets a request read and update.
Visible(r) == row.holder # NOBODY /\ req[row.holder].asks.gym = req[r].asks.gym

Current(r) == Visible(r) /\ row.expires > req[r].asked

Matches(r) == Fingerprint(row.holder) = Fingerprint(r)

InFlight(r) == Current(r) => Matches(r) /\ row.response = NOBODY

\* What a request no longer reads is forgotten.
Executing(q, right) ==
    [q EXCEPT !.stage = "work", !.right = right, !.begun = clock, !.deadline = 0, !.asked = 0]

Ended(q, stage) == [q EXCEPT !.stage = stage, !.deadline = 0, !.seen = NOBODY]

-----------------------------------------------------------------------------
(* resolve and claim                                                       *)

\* resolve has set the deadline.  Requests come early enough to be followed to it.
Claiming(r) ==
    \/ req[r].stage = "claim"
    \/ req[r].stage = "new" /\ clock + Timeout <= MaxClock

\* The INSERT goes in.
Claim(r) ==
    /\ Claiming(r)
    /\ row.holder = NOBODY
    /\ row' = [holder |-> r, response |-> NOBODY, expires |-> clock + Retention]
    /\ req' = [req EXCEPT ![r] = Executing(@, "claimed")]
    /\ UNCHANGED <<performed, clock, faults>>

\* The INSERT violates uq_idempotency_keys__key, whichever gym the row is of.
Collide(r) ==
    /\ Claiming(r)
    /\ row.holder # NOBODY
    /\ req' = [req EXCEPT ![r] = [@ EXCEPT !.stage = "inspect", !.asked = clock,
           !.deadline = IF req[r].stage = "new" THEN clock + Timeout ELSE req[r].deadline]]
    /\ UNCHANGED <<row, performed, clock, faults>>

-----------------------------------------------------------------------------
(* inspectExisting, and what intercept and resolve make of it              *)

\* MISMATCH: 409.
Refuse(r) ==
    /\ req[r].stage = "inspect"
    /\ Current(r) /\ ~Matches(r)
    /\ req' = [req EXCEPT ![r] = [Ended(@, "refused") EXCEPT !.asked = 0]]
    /\ UNCHANGED <<row, performed, clock, faults>>

Replay_Unmatched(r) ==
    /\ req[r].stage = "inspect"
    /\ Current(r) /\ row.response # NOBODY
    /\ req' = [req EXCEPT ![r] = [Ended(@, "replayed") EXCEPT !.answer = row.response]]
    /\ UNCHANGED <<row, performed, clock, faults>>

\* REPLAY: the stored response.
Replay(r) ==
    /\ req[r].stage = "inspect"
    /\ Current(r) /\ Matches(r) /\ row.response # NOBODY
    /\ req' = [req EXCEPT ![r] = [Ended(@, "replayed") EXCEPT !.answer = row.response]]
    /\ UNCHANGED <<row, performed, clock, faults>>

Wait_NoDeadline(r) ==
    /\ req[r].stage = "inspect"
    /\ InFlight(r)
    /\ req' = [req EXCEPT ![r].stage = "claim", ![r].asked = 0]
    /\ UNCHANGED <<row, performed, clock, faults>>

\* IN_FLIGHT before the deadline: sleep, and claim again.
Wait(r) ==
    /\ req[r].stage = "inspect"
    /\ InFlight(r)
    /\ clock < req[r].deadline
    /\ req' = [req EXCEPT ![r].stage = "claim", ![r].asked = 0]
    /\ UNCHANGED <<row, performed, clock, faults>>

Outwait_Claimed(r) ==
    /\ req[r].stage = "inspect"
    /\ InFlight(r)
    /\ clock >= req[r].deadline \/ row.holder = NOBODY
    /\ req' = [req EXCEPT ![r] = Executing(@, IF row.holder = NOBODY THEN "claimed" ELSE "outwaited")]
    /\ UNCHANGED <<row, performed, clock, faults>>

\* IN_FLIGHT at the deadline: resolve returns it, and intercept, which singles out only
\* MISMATCH and REPLAY, runs the handler.
Outwait(r) ==
    /\ req[r].stage = "inspect"
    /\ InFlight(r)
    /\ clock >= req[r].deadline
    /\ req' = [req EXCEPT ![r] = Executing(@, "outwaited")]
    /\ UNCHANGED <<row, performed, clock, faults>>

-----------------------------------------------------------------------------
(* The handler, and the writes about it that nobody awaits                 *)

Succeed(r) ==
    /\ req[r].stage = "work"
    /\ performed' = performed \union {r}
    /\ req' = [req EXCEPT ![r].stage = "record"]
    /\ UNCHANGED <<row, clock, faults>>

Fail(r) ==
    /\ req[r].stage = "work"
    /\ req' = [req EXCEPT ![r].stage = "undo"]
    /\ UNCHANGED <<row, performed, clock, faults>>

\* complete: the row of the key, whoever claimed it.
Record(r) ==
    /\ req[r].stage = "record"
    /\ row' = IF Visible(r) THEN [row EXCEPT !.response = r] ELSE row
    /\ req' = [req EXCEPT ![r] = Ended(@, "served")]
    /\ UNCHANGED <<performed, clock, faults>>

\* release, its findFirst.
FindClaim(r) ==
    /\ req[r].stage = "undo"
    /\ req' = [req EXCEPT ![r] = IF Visible(r) /\ row.response = NOBODY
                                 THEN [@ EXCEPT !.stage = "release", !.seen = row.holder]
                                 ELSE Ended(@, "failed")]
    /\ UNCHANGED <<row, performed, clock, faults>>

Release_Unguarded(r) ==
    /\ req[r].stage = "release"
    /\ row' = IF row.holder = req[r].seen THEN [row EXCEPT !.expires = 0] ELSE row
    /\ req' = [req EXCEPT ![r] = Ended(@, "failed")]
    /\ UNCHANGED <<performed, clock, faults>>

\* release, its UPDATE: expires_at becomes created_at + 1 ms, which is past.  If the row is
\* another by now, the created_at read is too old for ck_idempotency_keys__expiry.
Release(r) ==
    /\ req[r].stage = "release"
    /\ row' = IF row.holder = req[r].seen /\ row.response = NOBODY
              THEN [row EXCEPT !.expires = 0] ELSE row
    /\ req' = [req EXCEPT ![r] = Ended(@, "failed")]
    /\ UNCHANGED <<performed, clock, faults>>

-----------------------------------------------------------------------------
(* Everything else                                                         *)

\* runIdempotencySweep deletes what has expired.
Sweep ==
    /\ row.holder # NOBODY
    /\ row.expires <= clock
    /\ row' = NoRow
    /\ UNCHANGED <<req, performed, clock, faults>>

\* The process dies, or the database refuses a write whose failure is only logged.
Fault(r) ==
    /\ faults < MaxFaults
    /\ faults' = faults + 1
    /\ \/ /\ req[r].stage \in {"claim", "inspect", "work", "record", "undo", "release"}
          /\ req' = [req EXCEPT ![r] = [Ended(@, "dead") EXCEPT !.asked = 0]]
       \/ /\ req[r].stage = "record"
          /\ req' = [req EXCEPT ![r] = Ended(@, "served")]
       \/ /\ req[r].stage \in {"undo", "release"}
          /\ req' = [req EXCEPT ![r] = Ended(@, "failed")]
    /\ UNCHANGED <<row, performed, clock>>

Tick ==
    /\ clock < MaxClock
    /\ \A r \in Request : req[r].stage \in {"work", "record", "undo", "release"} =>
           clock < req[r].begun + WorkBudget
    /\ clock' = clock + 1
    /\ UNCHANGED <<row, req, performed, faults>>

Resolve(r) == Claim(r) \/ Collide(r) \/ Refuse(r) \/ Replay(r) \/ Wait(r) \/ Outwait(r)

Execute(r) == Succeed(r) \/ Fail(r) \/ Record(r) \/ FindClaim(r) \/ Release(r)

Next ==
    \/ \E r \in Request : Resolve(r) \/ Execute(r) \/ Fault(r)
    \/ Sweep
    \/ Tick

Spec == Init /\ [][Next]_vars

\* The statements and handlers of a request that came settle, and time passes.  Nothing
\* obliges a request to come, the sweep to run or a process to die.
Proceed(r) == req[r].stage # "new" /\ (Resolve(r) \/ Execute(r))

Fairness == WF_vars(Tick) /\ \A r \in Request : WF_vars(Proceed(r))

FairSpec == Spec /\ Fairness

-----------------------------------------------------------------------------
(* Properties                                                              *)

\* Every variable keeps its type; only a row that exists holds a response, and it is one of
\* a request that has been performed.
TypeOK ==
    /\ row \in Row /\ req \in [Request -> RequestState] /\ performed \subseteq Request
    /\ clock \in Nat /\ faults \in Nat
    /\ row.response # NOBODY => row.holder # NOBODY /\ row.response \in performed

\* No request has run its handler without holding the claim.
NobodyOutwaited == \A r \in Request : req[r].right # "outwaited"

\* As long as no request outwaits the deadline, the effects under one key are a retention
\* apart, whatever fails, dies, is swept or is asked under it: the claim (INSERT first, read
\* on collision), the release of a failed claim and the sweep add up to one execution.
OnePerRetention ==
    NobodyOutwaited =>
        \A r, q \in performed : r # q =>
            \/ req[r].begun + Retention <= req[q].begun
            \/ req[q].begun + Retention <= req[r].begun

\* And what is replayed then is the outcome of a request of the same gym with the same
\* fingerprint, begun within the retention: no late complete lands on another's row.
TrueReplay ==
    NobodyOutwaited =>
        \A r \in Request : req[r].stage = "replayed" =>
            LET q == req[r].answer IN
            /\ q \in performed
            /\ Fingerprint(q) = Fingerprint(r)
            /\ req[r].asked < req[q].begun + Retention

\* A late failure signal does not disturb a row that succeeded: while it is current, a
\* recorded success stays recorded and keeps its expiry.
SuccessIsKept ==
    [][row.response # NOBODY /\ row.expires > clock =>
           row'.response # NOBODY /\ row'.expires = row.expires]_vars

\* A request is answered, unless its process dies: nobody polls for ever on a claim whose
\* holder is gone.
EveryoneAnswered ==
    \A r \in Request : req[r].stage = "inspect" ~> req[r].stage \in Answered

\* "WAIT, then replay - never a 409, and never a second execution": two requests with one
\* fingerprint do not both take effect within the retention.
NoSecondExecution ==
    \A r, q \in performed : r # q /\ Fingerprint(r) = Fingerprint(q) =>
        \/ req[r].begun + Retention <= req[q].begun
        \/ req[q].begun + Retention <= req[r].begun

=============================================================================
