----------------------------- MODULE PrecheckJob -----------------------------
(***************************************************************************)
(* The pre-checks of a submitted application as a job                      *)
(* (run-prechecks.processor.ts), under the advisory lock every job runs    *)
(* under (job-runner.ts, distributed-lock.ts), and the approval that       *)
(* weighs their results (approval-override.policy.ts).                     *)
(*                                                                         *)
(* The lock gateway has no implementation in src/: it is a session-level   *)
(* lock, and each worker has one session for it at a time.  The lock is    *)
(* taken as often as its session asks for it, and is gone with as many     *)
(* releases or with the session; the worker does not hear of the latter,   *)
(* and goes on with the suite it is in.                                    *)
(***************************************************************************)
EXTENDS FiniteSets

CONSTANTS Applications, Workers, Checks, Nobody

VARIABLES lock,      \* application -> the worker whose session holds it
          retained,  \* worker -> what its session still holds after a release that failed
          job,       \* what each worker is at
          stored,    \* application -> precheck_results, {} before any run
          adrift     \* history: the workers whose session ended under the suite they are in

vars == <<lock, retained, job, stored, adrift>>

Outcomes == {"PASS", "FLAG", "ERROR"}
Waiting == [at |-> "waiting"]

Start(w) ==
    /\ job[w].at = "waiting"
    /\ \E a \in Applications :
          job' = [job EXCEPT ![w] = [at |-> "acquire", app |-> a]]
    /\ UNCHANGED <<lock, retained, stored, adrift>>

Acquire_Anyway(w) ==   \* mutant: the answer of the lock is not looked at
    /\ job[w].at = "acquire"
    /\ lock' = IF lock[job[w].app] = Nobody THEN [lock EXCEPT ![job[w].app] = w] ELSE lock
    /\ job' = [job EXCEPT ![w].at = "settle"]
    /\ UNCHANGED <<retained, stored, adrift>>

(* withDistributedLock: a lock another session has is a run that is        *)
(* skipped, and a question that fails is a run that failed.                *)
Acquire(w) ==
    /\ job[w].at = "acquire"
    /\ \/ /\ lock[job[w].app] \in {Nobody, w}
          /\ lock' = [lock EXCEPT ![job[w].app] = w]
          /\ job' = [job EXCEPT ![w].at = "settle"]
       \/ job' = [job EXCEPT ![w] = Waiting] /\ UNCHANGED lock
    /\ UNCHANGED <<retained, stored, adrift>>

(* A check answers or throws; a check that threw is that check's ERROR. *)
Settled(answers) ==
    {[check |-> c, outcome |-> IF answers[c] = "threw" THEN "ERROR" ELSE answers[c]]
       : c \in Checks}

SettleAll(w) ==
    /\ job[w].at = "settle"
    /\ \E answers \in [Checks -> {"PASS", "FLAG", "threw"}] :
          job' = [job EXCEPT ![w] = [at |-> "store", app |-> job[w].app,
                                     results |-> Settled(answers)]]
    /\ UNCHANGED <<lock, retained, stored, adrift>>

(* One UPDATE of the whole set; if it fails, the finally still releases. *)
ReplaceFor(w) ==
    /\ job[w].at = "store"
    /\ \E ok \in BOOLEAN :
          stored' = IF ok THEN [stored EXCEPT ![job[w].app] = job[w].results] ELSE stored
    /\ job' = [job EXCEPT ![w] = [at |-> "release", app |-> job[w].app]]
    /\ UNCHANGED <<lock, retained, adrift>>

(* A release that fails is caught with the job (job-runner.ts): the worker *)
(* takes the next one, and its session keeps the lock.  A release of what  *)
(* the session no longer holds changes nothing.                            *)
Release(w) ==
    LET a == job[w].app IN
    /\ job[w].at = "release"
    /\ \/ /\ lock' = IF lock[a] = w /\ a \notin retained[w] THEN [lock EXCEPT ![a] = Nobody] ELSE lock
          /\ UNCHANGED retained
       \/ /\ retained' = IF lock[a] = w THEN [retained EXCEPT ![w] = @ \cup {a}] ELSE retained
          /\ UNCHANGED lock
    /\ job' = [job EXCEPT ![w] = Waiting]
    /\ adrift' = adrift \ {w}
    /\ UNCHANGED stored

Freed(w) ==
    /\ lock' = [a \in Applications |-> IF lock[a] = w THEN Nobody ELSE lock[a]]
    /\ retained' = [retained EXCEPT ![w] = {}]

(* The worker dies, and the database frees its locks.                      *)
Dies(w) ==
    /\ job[w].at /= "waiting"
    /\ Freed(w)
    /\ job' = [job EXCEPT ![w] = Waiting]
    /\ adrift' = adrift \ {w}
    /\ UNCHANGED stored

(* Its session alone is closed: nothing stops the work under way.          *)
SessionEnds(w) ==
    /\ \E a \in Applications : lock[a] = w
    /\ Freed(w)
    /\ adrift' = IF job[w].at \in {"settle", "store", "release"} THEN adrift \cup {w} ELSE adrift
    /\ UNCHANGED <<job, stored>>

-----------------------------------------------------------------------------
(* outstanding is everything that is not PASS; then a reason is needed. *)
Outstanding(results) == {r.check : r \in {x \in results : x.outcome /= "PASS"}}
MayApprove(results, reasoned) == Outstanding(results) = {} \/ reasoned

Init ==
    /\ lock = [a \in Applications |-> Nobody]
    /\ retained = [w \in Workers |-> {}]
    /\ job = [w \in Workers |-> Waiting]
    /\ stored = [a \in Applications |-> {}]
    /\ adrift = {}

Run(w) == Start(w) \/ Acquire(w) \/ SettleAll(w) \/ ReplaceFor(w) \/ Release(w)
            \/ Dies(w) \/ SessionEnds(w)

Next == \E w \in Workers : Run(w)

Spec == Init /\ [][Next]_vars

-----------------------------------------------------------------------------
InSuite(w) == job[w].at \in {"settle", "store"}

(* Two workers handed the same submission run its suite at the same time   *)
(* only when the session of one ended under it: of those whose session     *)
(* stands, one alone is in the suite, while different submissions do not   *)
(* contend (run-prechecks.processor.ts, distributed-lock.ts).              *)
OneSuiteAtATime ==
    \A v, w \in Workers :
        InSuite(v) /\ InSuite(w) /\ v /= w /\ job[v].app = job[w].app => {v, w} \cap adrift /= {}

(* A job that failed does not keep its lock: a session that holds one is   *)
(* that of a worker in that suite, or it could not give the lock back      *)
(* (distributed-lock.ts, the finally).                                     *)
LockIsGivenBack ==
    \A a \in Applications : lock[a] /= Nobody =>
       LET w == lock[a] IN
       \/ a \in retained[w]
       \/ job[w].at \in {"settle", "store", "release"} /\ job[w].app = a /\ w \notin adrift

(* Once a suite is stored, an approval without a reason means that every   *)
(* check ran and passed: a check that threw costs a reason too             *)
(* (run-prechecks.processor.ts settleAll, approval-override.policy.ts).    *)
UnexplainedMeansAllPassed ==
    \A a \in Applications : stored[a] /= {} /\ MayApprove(stored[a], FALSE) =>
       stored[a] = {[check |-> c, outcome |-> "PASS"] : c \in Checks}

(* A suite is run by one worker at a time unless a session is lost, ends   *)
(* with its lock given back or the giving back failed, and leaves a result *)
(* of every check                                                          *)
(* (distributed-lock.ts, run-prechecks.processor.ts).                      *)
SuitesAreSound == OneSuiteAtATime /\ LockIsGivenBack /\ UnexplainedMeansAllPassed
=============================================================================
