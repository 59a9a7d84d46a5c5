----------------------------- MODULE GymsProofs -----------------------------
(***************************************************************************)
(* The suite of pre-checks, the branches of a tenant, its submissions and  *)
(* uploads, the lists of the console and what opens over them, of MCSpec:  *)
(* a step of it is a step of one of them, or leaves them alone (JobSteps,  *)
(* EstateSteps, IntakeSteps, ScreenSteps).                                 *)
(*                                                                         *)
(* JobInv: whoever is past acquiring a lock holds it unless its session    *)
(* ended, a lock has a holder at work or whose release failed, and what is *)
(* stored or about to be has an outcome of every check.  EstateInv: a gym  *)
(* with branches has one primary, who does not ask to be it saw a branch,  *)
(* and a walk has listed a branch that keeps its place once if its cursor  *)
(* has passed it, else never.  SubInv: the versions taken are 1 .. n and a *)
(* submission has computed one of them or the next.  UpInv: what is past   *)
(* the scan is clean, past the store stored, past the row there.  OverInv: *)
(* the focus is in what is open or comes back to where it was taken from.  *)
(* ListInv: no two gyms applied at one tick, what is ticked has been shown *)
(* and the reason was written for the gym of the dialog.  IntakeInv is the *)
(* last four and the scanner's ScanInv, of RulesProofs.                    *)
(***************************************************************************)
EXTENDS RulesProofs

-----------------------------------------------------------------------------
(* The pre-checks. *)
Holding == {"settle", "store", "release"}

Results == [check : Checks, outcome : Job!Outcomes]

(* What settling may make: an outcome of every check. *)
Suites == {S \in SUBSET Results : \A c \in Checks : \E r \in S : r.check = c}

Jobs ==
    {Job!Waiting}
    \union [at : {"acquire", "settle", "release"}, app : Applications]
    \union [at : {"store"}, app : Applications, results : Suites]

JobTypes ==
    /\ lock \in [Applications -> Workers \union {Nobody}]
    /\ retained \in [Workers -> SUBSET Applications]
    /\ job \in [Workers -> Jobs]
    /\ stored \in [Applications -> Suites \union {{}}]
    /\ adrift \subseteq Workers

(* Past acquiring a lock, with the session that acquired it. *)
Stands(w) == job[w].at \in Holding /\ w \notin adrift

HoldersHold == \A w \in Workers : Stands(w) => lock[job[w].app] = w

HeldBy(w, a) == a \in retained[w] \/ (Stands(w) /\ job[w].app = a)

LocksAreHeld == \A a \in Applications : lock[a] /= Nobody => HeldBy(lock[a], a)

AdriftAtWork == \A w \in adrift : job[w].at \in Holding

JobInv == JobTypes /\ HoldersHold /\ LocksAreHeld /\ AdriftAtWork

-----------------------------------------------------------------------------
(* A step of MCSpec is a step of the job or leaves its variables alone:    *)
(* only CheckingNext touches them.                                         *)
LEMMA JobSteps ==
    ASSUME [MCNext]_mcvars
    PROVE  [Job!Next]_jobVars
<1>1. CASE CheckingNext
  BY <1>1 DEF CheckingNext
<1>2. CASE OpeningNext \/ ListingNext
  BY <1>2 DEF OpeningNext, ListingNext
<1>3. CASE SubmittingNext \/ UploadingNext \/ ReviewingNext \/ OverlaysNext \/ ScanningNext
  BY <1>3 DEF SubmittingNext, UploadingNext, ReviewingNext, OverlaysNext, ScanningNext
<1>4. CASE UNCHANGED mcvars
  BY <1>4 DEF mcvars
<1>5. QED
  BY <1>1, <1>2, <1>3, <1>4 DEF MCNext

(* Each kind of job has its own place, so the fields read are there.       *)
LEMMA JobFields ==
    ASSUME JobTypes, NEW w \in Workers
    PROVE  /\ job[w].at \in {"waiting", "acquire", "settle", "store", "release"}
           /\ job[w].at = "waiting" => job[w] = Job!Waiting
           /\ job[w].at /= "waiting" => job[w].app \in Applications
           /\ job[w].at = "store" => job[w].results \in Suites
           /\ job[w].at \notin {"waiting", "store"} =>
                job[w] = [at |-> job[w].at, app |-> job[w].app]
<1>1. job[w] \in Jobs
  BY DEF JobTypes
<1>2. CASE job[w] = Job!Waiting
  BY <1>2 DEF Job!Waiting
<1>3. CASE job[w] \in [at : {"acquire", "settle", "release"}, app : Applications]
  BY <1>3
<1>4. CASE job[w] \in [at : {"store"}, app : Applications, results : Suites]
  BY <1>4
<1>5. QED
  BY <1>1, <1>2, <1>3, <1>4 DEF Jobs

(* settleAll leaves an outcome of every check, whatever was thrown. *)
LEMMA SettledIsASuite ==
    ASSUME NEW answers \in [Checks -> {"PASS", "FLAG", "threw"}]
    PROVE  Job!Settled(answers) \in Suites
<1>1. ASSUME NEW c \in Checks
      PROVE  [check |-> c, outcome |-> IF answers[c] = "threw" THEN "ERROR" ELSE answers[c]]
               \in Results
  BY <1>1 DEF Results, Job!Outcomes
<1>2. Job!Settled(answers) \in SUBSET Results
  BY <1>1 DEF Job!Settled
<1>3. ASSUME NEW c \in Checks
      PROVE  \E r \in Job!Settled(answers) : r.check = c
  <2>1. [check |-> c, outcome |-> IF answers[c] = "threw" THEN "ERROR" ELSE answers[c]]
          \in Job!Settled(answers)
    BY <1>3 DEF Job!Settled
  <2>2. QED
    BY <2>1
<1>4. QED
  BY <1>2, <1>3 DEF Suites

(* Nobody is at work, and nothing is stored.                               *)
LEMMA JobInitInv ==
    ASSUME Job!Init
    PROVE  JobInv
BY GymsAssumption DEF Job!Init, JobInv, JobTypes, Jobs, HoldersHold, LocksAreHeld, AdriftAtWork,
                      Stands, Holding, Job!Waiting

(* A step of one worker disturbs no lock of another's.                     *)
LEMMA OneWorkerMoves ==
    ASSUME JobInv, NEW w \in Workers,
           \A v \in Workers \ {w} : job'[v] = job[v] /\ retained'[v] = retained[v]
                                    /\ (v \in adrift' <=> v \in adrift),
           \A b \in Applications : lock'[b] = lock[b] \/ {lock[b], lock'[b]} \subseteq {Nobody, w},
           Stands(w)' => lock'[job'[w].app] = w,
           \A b \in Applications : lock'[b] = w => HeldBy(w, b)',
           w \in adrift' => job'[w].at \in Holding
    PROVE  HoldersHold' /\ LocksAreHeld' /\ (adrift' \subseteq Workers => AdriftAtWork')
<1>1. ASSUME NEW v \in Workers, v /= w, Stands(v)'
      PROVE  lock'[job'[v].app] = v
  <2>1. Stands(v) /\ job'[v] = job[v]
    BY <1>1 DEF Stands
  <2>2. lock[job[v].app] = v /\ v /= Nobody
    BY <2>1, GymsAssumption DEF JobInv, HoldersHold
  <2>3. job[v].app \in Applications
    BY <2>1, JobFields DEF JobInv, Stands, Holding
  <2>4. QED
    BY <1>1, <2>1, <2>2, <2>3
<1>2. HoldersHold'
  BY <1>1 DEF HoldersHold
<1>3. ASSUME NEW b \in Applications, lock'[b] /= Nobody, NEW v, v = lock'[b]
      PROVE  HeldBy(v, b)'
  <2>1. CASE v = w
    BY <1>3, <2>1
  <2>2. CASE v /= w
    <3>1. v = lock[b] /\ v \in Workers \ {w} /\ HeldBy(v, b)
      BY <1>3, <2>2 DEF JobInv, JobTypes, LocksAreHeld
    <3>2. QED
      BY <3>1 DEF HeldBy, Stands
  <2>3. QED
    BY <2>1, <2>2
<1>4. LocksAreHeld'
  BY <1>3 DEF LocksAreHeld, HeldBy, Stands
<1>5. ASSUME adrift' \subseteq Workers PROVE AdriftAtWork'
  BY <1>5 DEF JobInv, AdriftAtWork
<1>6. QED
  BY <1>2, <1>4, <1>5

(* Who is not in a suite holds only what a release left behind.            *)
LEMMA HeldIdle ==
    ASSUME JobInv, NEW w \in Workers, job[w].at \notin Holding, NEW b \in Applications, lock[b] = w
    PROVE  b \in retained[w]
BY GymsAssumption DEF JobInv, LocksAreHeld, HeldBy, Stands

(* Who waits asks for a lock first.                                        *)
LEMMA StartKeeps ==
    ASSUME JobInv, NEW w \in Workers, Job!Start(w)
    PROVE  JobInv'
<1>1. PICK a \in Applications : job' = [job EXCEPT ![w] = [at |-> "acquire", app |-> a]]
  BY DEF Job!Start
<1>2. JobTypes'
  BY <1>1 DEF Job!Start, JobInv, JobTypes, Jobs
<1>3. /\ job'[w].at = "acquire" /\ \A v \in Workers : v /= w => job'[v] = job[v]
      /\ job[w].at \notin Holding /\ UNCHANGED <<lock, retained, adrift>>
  BY <1>1 DEF Job!Start, JobInv, JobTypes, Holding
<1>4. w \notin adrift /\ ~Stands(w)'
  BY <1>3 DEF JobInv, AdriftAtWork, Stands, Holding
<1>5. HoldersHold' /\ LocksAreHeld' /\ AdriftAtWork'
  BY <1>2, <1>3, <1>4, HeldIdle, OneWorkerMoves DEF HeldBy, JobTypes
<1>6. QED
  BY <1>2, <1>5 DEF JobInv

(* The lock is given to one session, and only when no other has it.        *)
LEMMA AcquireKeeps ==
    ASSUME JobInv, NEW w \in Workers, Job!Acquire(w)
    PROVE  JobInv'
<1> DEFINE a == job[w].app
<1>1. /\ job[w].at = "acquire" /\ a \in Applications
      /\ job[w] = [at |-> "acquire", app |-> a]
      /\ UNCHANGED <<retained, stored, adrift>>
  BY JobFields DEF Job!Acquire, JobInv
<1>2. w \notin adrift /\ job[w].at \notin Holding
  BY <1>1 DEF JobInv, AdriftAtWork, Holding
<1>3. CASE /\ lock[a] \in {Nobody, w} /\ lock' = [lock EXCEPT ![a] = w]
           /\ job' = [job EXCEPT ![w].at = "settle"]
  <2>1. job' = [job EXCEPT ![w] = [at |-> "settle", app |-> a]]
    <3>1. [job[w] EXCEPT !.at = "settle"] = [at |-> "settle", app |-> a]
      BY <1>1
    <3> HIDE DEF a
    <3>2. QED
      BY <1>3, <3>1
  <2> HIDE DEF a
  <2>2. JobTypes'
    BY <1>1, <1>3, <2>1 DEF JobInv, JobTypes, Jobs
  <2>3. /\ job'[w].at = "settle" /\ job'[w].app = a /\ lock'[a] = w
        /\ \A v \in Workers : v /= w => job'[v] = job[v]
        /\ \A b \in Applications : b /= a => lock'[b] = lock[b]
    BY <1>1, <1>3, <2>1 DEF JobInv, JobTypes
  <2>4. \A b \in Applications : lock'[b] = w => HeldBy(w, b)'
    BY <1>1, <1>2, <2>3, HeldIdle DEF HeldBy, Stands, Holding
  <2>5. HoldersHold' /\ LocksAreHeld' /\ AdriftAtWork'
    BY <1>1, <1>2, <1>3, <2>2, <2>3, <2>4, OneWorkerMoves DEF JobTypes
  <2>6. QED
    BY <2>2, <2>5 DEF JobInv
<1>4. CASE job' = [job EXCEPT ![w] = Job!Waiting] /\ UNCHANGED lock
  <2>1. JobTypes'
    BY <1>1, <1>4 DEF JobInv, JobTypes, Jobs
  <2>2. job'[w].at = "waiting" /\ \A v \in Workers : v /= w => job'[v] = job[v]
    BY <1>4 DEF JobInv, JobTypes, Job!Waiting
  <2>3. ~Stands(w)'
    BY <2>2 DEF Stands, Holding
  <2>4. HoldersHold' /\ LocksAreHeld' /\ AdriftAtWork'
    BY <1>1, <1>2, <1>4, <2>1, <2>2, <2>3, HeldIdle, OneWorkerMoves DEF HeldBy, JobTypes
  <2>5. QED
    BY <2>1, <2>4 DEF JobInv
<1>5. QED
  BY <1>3, <1>4 DEF Job!Acquire

(* A worker that goes on with the same application disturbs no lock. *)
LEMMA WorkGoesOn ==
    ASSUME JobInv, NEW w \in Workers, NEW j \in Jobs,
           job[w].at \in Holding, j.at \in Holding, j.app = job[w].app,
           job' = [job EXCEPT ![w] = j], UNCHANGED <<lock, retained, adrift>>
    PROVE  HoldersHold' /\ LocksAreHeld' /\ AdriftAtWork'
<1>1. job'[w] = j /\ \A v \in Workers : v /= w => job'[v] = job[v]
  BY DEF JobInv, JobTypes
<1>2. Stands(w)' <=> Stands(w)
  BY <1>1 DEF Stands
<1>3. \A b \in Applications : HeldBy(w, b)' <=> HeldBy(w, b)
  BY <1>1, <1>2 DEF HeldBy
<1>4. Stands(w)' => lock'[job'[w].app] = w
  BY <1>1, <1>2 DEF JobInv, HoldersHold
<1>5. \A b \in Applications : lock'[b] = w => HeldBy(w, b)'
  BY <1>3, GymsAssumption DEF JobInv, LocksAreHeld
<1>6. adrift \subseteq Workers
  BY DEF JobInv, JobTypes
<1>7. QED
  BY <1>1, <1>4, <1>5, <1>6, OneWorkerMoves

(* A suite that was settled is whole.                                      *)
LEMMA SettleAllKeeps ==
    ASSUME JobInv, NEW w \in Workers, Job!SettleAll(w)
    PROVE  JobInv'
<1>1. PICK answers \in [Checks -> {"PASS", "FLAG", "threw"}] :
        job' = [job EXCEPT ![w] = [at |-> "store", app |-> job[w].app,
                                   results |-> Job!Settled(answers)]]
  BY DEF Job!SettleAll
<1> DEFINE j == [at |-> "store", app |-> job[w].app, results |-> Job!Settled(answers)]
<1>2. job[w].at = "settle" /\ UNCHANGED <<lock, retained, stored, adrift>>
  BY DEF Job!SettleAll
<1>3. j \in Jobs
  <2>1. job[w].app \in Applications
    BY <1>2, JobFields DEF JobInv
  <2>2. QED
    BY <2>1, SettledIsASuite DEF Jobs
<1>4. j.at \in Holding /\ j.app = job[w].app /\ job[w].at \in Holding
  BY <1>2 DEF Holding
<1>5. job' = [job EXCEPT ![w] = j]
  BY <1>1
<1> HIDE DEF j
<1>6. JobTypes'
  BY <1>2, <1>3, <1>5 DEF JobInv, JobTypes
<1>7. QED
  BY <1>2, <1>3, <1>4, <1>5, <1>6, WorkGoesOn DEF JobInv

(* A suite is stored whole, or not at all.                                 *)
LEMMA ReplaceForKeeps ==
    ASSUME JobInv, NEW w \in Workers, Job!ReplaceFor(w)
    PROVE  JobInv'
<1> DEFINE j == [at |-> "release", app |-> job[w].app]
<1>1. /\ job[w].at = "store" /\ UNCHANGED <<lock, retained, adrift>>
      /\ job' = [job EXCEPT ![w] = j]
  BY DEF Job!ReplaceFor
<1>2. job[w].app \in Applications /\ job[w].results \in Suites
  BY <1>1, JobFields DEF JobInv
<1>3. j \in Jobs
  BY <1>2 DEF Jobs
<1>4. j.at \in Holding /\ j.app = job[w].app /\ job[w].at \in Holding
  BY <1>1 DEF Holding
<1>5. stored' \in [Applications -> Suites \union {{}}]
  <2>1. PICK ok \in BOOLEAN :
          stored' = IF ok THEN [stored EXCEPT ![job[w].app] = job[w].results] ELSE stored
    BY DEF Job!ReplaceFor
  <2>2. CASE ok
    BY <1>2, <2>1, <2>2 DEF JobInv, JobTypes
  <2>3. CASE ~ok
    BY <2>1, <2>3 DEF JobInv, JobTypes
  <2>4. QED
    BY <2>2, <2>3
<1> HIDE DEF j
<1>6. JobTypes'
  BY <1>1, <1>3, <1>5 DEF JobInv, JobTypes
<1>7. QED
  BY <1>1, <1>3, <1>4, <1>6, WorkGoesOn DEF JobInv

(* The lock goes back with the job, or is retained by the session.         *)
LEMMA ReleaseKeeps ==
    ASSUME JobInv, NEW w \in Workers, Job!Release(w)
    PROVE  JobInv'
<1> DEFINE a == job[w].app
<1>1. /\ job[w].at = "release" /\ a \in Applications /\ stored' = stored
      /\ job' = [job EXCEPT ![w] = Job!Waiting] /\ adrift' = adrift \ {w}
  BY JobFields DEF JobInv, Job!Release
<1>2. job'[w].at = "waiting" /\ \A v \in Workers : v /= w => job'[v] = job[v]
  BY <1>1 DEF JobInv, JobTypes, Job!Waiting
<1>3. ~Stands(w)'
  BY <1>2 DEF Stands, Holding
<1>4. \A b \in Applications : lock[b] = w => b \in retained[w] \/ b = a
  BY GymsAssumption DEF JobInv, LocksAreHeld, HeldBy
<1>5. /\ lock' \in [Applications -> Workers \union {Nobody}]
      /\ retained' \in [Workers -> SUBSET Applications]
      /\ \A v \in Workers \ {w} : retained'[v] = retained[v]
      /\ \A b \in Applications : lock'[b] = lock[b] \/ {lock[b], lock'[b]} \subseteq {Nobody, w}
      /\ \A b \in Applications : lock'[b] = w => b \in retained'[w]
  <2>t. /\ lock \in [Applications -> Workers \union {Nobody}]
        /\ retained \in [Workers -> SUBSET Applications] /\ w /= Nobody
    BY GymsAssumption DEF JobInv, JobTypes
  <2>1. CASE /\ lock' = IF lock[a] = w /\ a \notin retained[w] THEN [lock EXCEPT ![a] = Nobody] ELSE lock
             /\ retained' = retained
    <3> HIDE DEF a
    <3>1. QED
      BY <1>1, <1>4, <2>t, <2>1
  <2>2. CASE /\ retained' = IF lock[a] = w THEN [retained EXCEPT ![w] = @ \union {a}] ELSE retained
             /\ lock' = lock
    <3> HIDE DEF a
    <3>1. QED
      BY <1>1, <1>4, <2>t, <2>2
  <2>3. QED
    BY <2>1, <2>2 DEF Job!Release
<1>6. JobTypes'
  BY <1>1, <1>5 DEF JobInv, JobTypes, Jobs
<1>7. HoldersHold' /\ LocksAreHeld' /\ AdriftAtWork'
  BY <1>1, <1>2, <1>3, <1>5, <1>6, OneWorkerMoves DEF HeldBy, JobTypes
<1>8. QED
  BY <1>6, <1>7 DEF JobInv

(* A session that ends takes its locks with it, and nothing else; a worker *)
(* that dies takes its job too.                                            *)
LEMMA SessionGone ==
    ASSUME JobInv, NEW w \in Workers, Job!Freed(w)
    PROVE  /\ lock' \in [Applications -> Workers \union {Nobody}]
           /\ retained' \in [Workers -> SUBSET Applications]
           /\ \A v \in Workers \ {w} : retained'[v] = retained[v]
           /\ \A b \in Applications :
                 lock'[b] /= w /\ (lock'[b] = lock[b] \/ {lock[b], lock'[b]} \subseteq {Nobody, w})
<1>1. /\ lock \in [Applications -> Workers \union {Nobody}]
      /\ retained \in [Workers -> SUBSET Applications] /\ w /= Nobody
  BY GymsAssumption DEF JobInv, JobTypes
<1>2. QED
  BY <1>1 DEF Job!Freed

LEMMA DiesKeeps ==
    ASSUME JobInv, NEW w \in Workers, Job!Dies(w)
    PROVE  JobInv'
<1>1. /\ job' = [job EXCEPT ![w] = Job!Waiting] /\ stored' = stored
      /\ adrift' = adrift \ {w} /\ Job!Freed(w)
  BY DEF Job!Dies
<1>2. JobTypes'
  BY <1>1, SessionGone DEF JobInv, JobTypes, Jobs
<1>3. job'[w].at = "waiting" /\ \A v \in Workers : v /= w => job'[v] = job[v]
  BY <1>1 DEF JobInv, JobTypes, Job!Waiting
<1>4. ~Stands(w)'
  BY <1>3 DEF Stands, Holding
<1>5. HoldersHold' /\ LocksAreHeld' /\ AdriftAtWork'
  BY <1>1, <1>2, <1>3, <1>4, SessionGone, OneWorkerMoves DEF JobTypes
<1>6. QED
  BY <1>2, <1>5 DEF JobInv

LEMMA SessionEndsKeeps ==
    ASSUME JobInv, NEW w \in Workers, Job!SessionEnds(w)
    PROVE  JobInv'
<1>1. /\ UNCHANGED <<job, stored>> /\ Job!Freed(w)
      /\ adrift' = IF job[w].at \in {"settle", "store", "release"} THEN adrift \union {w} ELSE adrift
  BY DEF Job!SessionEnds
<1>2. JobTypes'
  BY <1>1, SessionGone DEF JobInv, JobTypes
<1>3. ~Stands(w)' /\ (w \in adrift' => job'[w].at \in Holding)
  BY <1>1 DEF Stands, Holding, JobInv, AdriftAtWork
<1>4. HoldersHold' /\ LocksAreHeld' /\ AdriftAtWork'
  BY <1>1, <1>2, <1>3, SessionGone, OneWorkerMoves DEF JobTypes
<1>5. QED
  BY <1>2, <1>4 DEF JobInv

(* Each step of a worker, and each step of the rest.                       *)
LEMMA JobInvStep ==
    ASSUME JobInv, [Job!Next]_jobVars
    PROVE  JobInv'
<1>1. ASSUME NEW w \in Workers, Job!Run(w)
      PROVE  JobInv'
  BY <1>1, StartKeeps, AcquireKeeps, SettleAllKeeps, ReplaceForKeeps, ReleaseKeeps,
     DiesKeeps, SessionEndsKeeps DEF Job!Run
<1>2. CASE UNCHANGED jobVars
  BY <1>2 DEF jobVars, JobInv, JobTypes, HoldersHold, LocksAreHeld, AdriftAtWork, HeldBy, Stands
<1>3. QED
  BY <1>1, <1>2 DEF Job!Next

(* Two workers in the suite of one application, with their sessions, would *)
(* both hold its lock.                                                     *)
LEMMA JobInvSuffices ==
    ASSUME JobInv
    PROVE  Job!SuitesAreSound
<1>1. Job!OneSuiteAtATime
  BY DEF JobInv, HoldersHold, Stands, Holding, Job!OneSuiteAtATime, Job!InSuite
<1>2. Job!LockIsGivenBack
  BY DEF JobInv, LocksAreHeld, HeldBy, Stands, Holding, Job!LockIsGivenBack
<1>3. Job!UnexplainedMeansAllPassed
  <2>1. SUFFICES ASSUME NEW a \in Applications, stored[a] /= {},
                        Job!Outstanding(stored[a]) = {}
                 PROVE  stored[a] = {[check |-> c, outcome |-> "PASS"] : c \in Checks}
    BY DEF Job!UnexplainedMeansAllPassed, Job!MayApprove
  <2>2. stored[a] \in Suites
    BY <2>1 DEF JobInv, JobTypes
  <2>3. \A r \in stored[a] : r.outcome = "PASS"
    BY <2>1 DEF Job!Outstanding
  <2>4. ASSUME NEW r \in stored[a]
        PROVE  r.check \in Checks /\ r = [check |-> r.check, outcome |-> "PASS"]
    BY <2>2, <2>3 DEF Suites, Results
  <2>5. ASSUME NEW c \in Checks
        PROVE  [check |-> c, outcome |-> "PASS"] \in stored[a]
    <3>1. PICK r \in stored[a] : r.check = c
      BY <2>2 DEF Suites
    <3>2. QED
      BY <2>4, <3>1
  <2>6. QED
    BY <2>4, <2>5
<1>4. QED
  BY <1>1, <1>2, <1>3 DEF Job!SuitesAreSound

(* However workers are handed submissions, fail, or lose their session, of *)
(* those whose session stands one is in a suite, a lock is that of one at  *)
(* work or of a session that could not give it back, and what is stored    *)
(* tells of every check (distributed-lock.ts, run-prechecks.processor.ts). *)
THEOREM SuitesAlwaysSound == MCSpec => []SuitesAreSound
<1>1. MCInit => JobInv
  BY JobInitInv DEF MCInit
<1>2. JobInv /\ [MCNext]_mcvars => JobInv'
  BY JobSteps, JobInvStep
<1>3. JobInv => SuitesAreSound
  BY JobInvSuffices DEF SuitesAreSound
<1>4. QED
  BY <1>1, <1>2, <1>3, PTL DEF MCSpec

-----------------------------------------------------------------------------
(* The estate. *)
BranchRows == [gym : Gyms, name : Names, primary : BOOLEAN]
Requests == {Idle} \union [at : {"insert"}, gym : Gyms, primary : BOOLEAN]
Keys == [k : Nat, i : Ids]
Walks == [at : {"off", "walking", "done"}, sort : Sorts, gyms : SUBSET Gyms,
          cursor : Keys \union {NoCursor}, listed : Seq(Ids),
          there : SUBSET Ids, renamed : SUBSET Ids]

EstateTypes ==
    /\ rows \in [Ids -> BranchRows \union {None}]
    /\ opened \in Seq(Ids) /\ ToSet(opened) = Live /\ Len(opened) = Cardinality(Live)
    /\ req \in [Handlers -> Requests]

(* Who does not ask to be the primary saw a branch of the gym. *)
LaterOnesAreLater ==
    \A h \in Handlers : req[h].at = "insert" /\ ~req[h].primary => InGym(rows, req[h].gym) /= {}

HasOnePrimary ==
    \A g \in Gyms : InGym(rows, g) /= {} => \E b \in Ids : PrimariesOf(rows, g) = {b}

Once(s, b) == \E j \in 1 .. Len(s) : \A i \in 1 .. Len(s) : s[i] = b <=> i = j
Never(s, b) == \A i \in 1 .. Len(s) : s[i] /= b

(* The cursor has gone past a branch: it is not behind it. *)
Passed(b) ==
    walk.cursor /= NoCursor /\ ~Behind(walk.sort, KeyOf(walk.sort, b, rows[b]), walk.cursor)

WalkTypes ==
    /\ walk \in Walks
    /\ ToSet(walk.listed) \union walk.there \union walk.renamed \subseteq Live
    /\ \A b \in walk.there : Matches(walk.gyms, rows[b])

(* A branch that keeps its place is listed once, when the cursor goes past *)
(* it.                                                                     *)
WalkGoesOn ==
    /\ walk.at = "walking" =>
         \A b \in Steady : IF Passed(b) THEN Once(walk.listed, b) ELSE Never(walk.listed, b)
    /\ walk.at = "done" => \A b \in Steady : Once(walk.listed, b)

EstateInv == EstateTypes /\ LaterOnesAreLater /\ HasOnePrimary /\ WalkTypes /\ WalkGoesOn

-----------------------------------------------------------------------------
(* Orders. *)

(* Each of the three orders of the list is strict and total. *)
LEMMA BehindOrders ==
    ASSUME NEW s, NEW p \in Keys, NEW q \in Keys, NEW r \in Keys
    PROVE  /\ ~Behind(s, p, p)
           /\ Behind(s, p, q) => ~Behind(s, q, p)
           /\ Behind(s, p, q) /\ Behind(s, q, r) => Behind(s, p, r)
           /\ p /= q => Behind(s, p, q) \/ Behind(s, q, p)
<1>1. p.k \in Nat /\ q.k \in Nat /\ r.k \in Nat /\ p.i \in Nat /\ q.i \in Nat /\ r.i \in Nat
  BY BranchesAssumption DEF Keys
<1>2. p /= q => p.k /= q.k \/ p.i /= q.i
  BY DEF Keys
<1>3. QED
  BY <1>1, <1>2 DEF Behind, Below

(* Any finite set of keys has an order of its own: give each the number of *)
(* those before it.  So InOrder is that order, and leaves out no key.      *)
LEMMA InOrderSorts ==
    ASSUME NEW s, NEW S \in SUBSET Keys, IsFiniteSet(S)
    PROVE  /\ Cardinality(S) \in Nat
           /\ InOrder(s, S) \in [1 .. Cardinality(S) -> S]
           /\ \A i, j \in 1 .. Cardinality(S) :
                 i < j => Behind(s, InOrder(s, S)[j], InOrder(s, S)[i])
           /\ \A p \in S : \E j \in 1 .. Cardinality(S) : InOrder(s, S)[j] = p
<1> DEFINE n == Cardinality(S)
           Ahead(p) == {q \in S : Behind(s, p, q)}
           rank == [p \in S |-> Cardinality(Ahead(p)) + 1]
<1>1. n \in Nat
  BY FS_CardinalityType
<1>2. ASSUME NEW p \in S
      PROVE  /\ IsFiniteSet(Ahead(p)) /\ Cardinality(Ahead(p)) \in Nat
             /\ Cardinality(Ahead(p)) + 1 \in 1 .. n
  <2>1. IsFiniteSet(S \ {p}) /\ Cardinality(S \ {p}) = n - 1
    BY FS_RemoveElement
  <2>2. Ahead(p) \in SUBSET (S \ {p})
    BY BehindOrders
  <2>3. IsFiniteSet(Ahead(p)) /\ Cardinality(Ahead(p)) <= n - 1
    BY <2>1, <2>2, FS_Subset
  <2>4. Cardinality(Ahead(p)) \in Nat
    BY <2>3, FS_CardinalityType
  <2>5. QED
    BY <1>1, <2>3, <2>4
<1>3. ASSUME NEW p \in S, NEW q \in S, Behind(s, p, q)
      PROVE  Cardinality(Ahead(q)) < Cardinality(Ahead(p))
  <2>1. Ahead(q) \in SUBSET Ahead(p)
    BY <1>3, BehindOrders
  <2>2. q \in Ahead(p) /\ q \notin Ahead(q)
    BY <1>3, BehindOrders
  <2>3. Cardinality(Ahead(q)) <= Cardinality(Ahead(p)) /\ Cardinality(Ahead(q)) /= Cardinality(Ahead(p))
    BY <1>2, <2>1, <2>2, FS_Subset
  <2>4. Cardinality(Ahead(p)) \in Nat /\ Cardinality(Ahead(q)) \in Nat
    BY <1>2
  <2> HIDE DEF Ahead
  <2>5. QED
    BY <2>3, <2>4
<1>4. rank \in [S -> 1 .. n] /\ \A p \in S : rank[p] = Cardinality(Ahead(p)) + 1
  BY <1>2
<1>5. ASSUME NEW p \in S, NEW q \in S, Behind(s, p, q)
      PROVE  rank[q] < rank[p]
  <2>1. /\ rank[p] = Cardinality(Ahead(p)) + 1 /\ rank[q] = Cardinality(Ahead(q)) + 1
        /\ Cardinality(Ahead(p)) \in Nat /\ Cardinality(Ahead(q)) \in Nat
        /\ Cardinality(Ahead(q)) < Cardinality(Ahead(p))
    BY <1>2, <1>3, <1>4, <1>5
  <2> HIDE DEF Ahead, rank
  <2>2. QED
    BY <2>1
<1> HIDE DEF rank, Ahead
<1>6. ASSUME NEW p \in S, NEW q \in S, rank[p] = rank[q]
      PROVE  p = q
  <2>1. rank[p] \in Nat /\ rank[q] \in Nat
    BY <1>4
  <2>2. QED
    BY <1>5, <1>6, <2>1, BehindOrders
<1>7. \A j \in 1 .. n : \E p \in S : rank[p] = j
  <2>1. rank \in Injection(S, 1 .. n)
    BY <1>4, <1>6 DEF Injection, IsInjective
  <2>2. IsFiniteSet(1 .. n) /\ Cardinality(1 .. n) = n
    BY <1>1, FS_Interval
  <2>3. rank \in Surjection(S, 1 .. n)
    BY <2>1, <2>2, FS_Injection
  <2>4. QED
    BY <2>3 DEF Surjection
<1> DEFINE f == [j \in 1 .. n |-> CHOOSE p \in S : rank[p] = j]
           Sorted(g) == \A i, j \in DOMAIN g : i < j => Behind(s, g[j], g[i])
<1>8. f \in [1 .. n -> S] /\ \A j \in 1 .. n : rank[f[j]] = j
  BY <1>7
<1>9. Sorted(f)
  <2> HIDE DEF f
  <2>1. ASSUME NEW i \in 1 .. n, NEW j \in 1 .. n, i < j
        PROVE  Behind(s, f[j], f[i])
    <3>1. f[i] \in S /\ f[j] \in S /\ rank[f[i]] = i /\ rank[f[j]] = j
      BY <1>8
    <3>2. ~Behind(s, f[i], f[j])
      BY <1>1, <1>5, <2>1, <3>1
    <3>3. f[i] /= f[j]
      BY <1>1, <2>1, <3>1
    <3>4. QED
      BY <3>1, <3>2, <3>3, BehindOrders
  <2>2. DOMAIN f = 1 .. n
    BY <1>8
  <2>3. QED
    BY <2>1, <2>2
<1> HIDE DEF f
<1>10. InOrder(s, S) \in [1 .. n -> S] /\ Sorted(InOrder(s, S))
  BY <1>8, <1>9 DEF InOrder
<1> DEFINE o == InOrder(s, S)
<1> HIDE DEF o
<1>11. o \in [1 .. n -> S] /\ \A i, j \in 1 .. n : i < j => Behind(s, o[j], o[i])
  BY <1>10 DEF o
<1>12. ASSUME NEW i \in 1 .. n, NEW j \in 1 .. n, o[i] = o[j]
       PROVE  i = j
  <2>1. o[i] \in S /\ ~Behind(s, o[i], o[i])
    BY <1>11, BehindOrders
  <2>2. QED
    BY <1>1, <1>11, <1>12, <2>1
<1>13. \A p \in S : \E j \in 1 .. n : o[j] = p
  <2>1. o \in Injection(1 .. n, S)
    BY <1>11, <1>12 DEF Injection, IsInjective
  <2>2. Cardinality(1 .. n) = n
    BY <1>1, FS_Interval
  <2>3. o \in Surjection(1 .. n, S)
    BY <2>1, <2>2, FS_Injection
  <2>4. QED
    BY <2>3 DEF Surjection
<1>14. QED
  BY <1>1, <1>11, <1>13 DEF o

-----------------------------------------------------------------------------
(* A step of MCSpec is a step of the branches, whatever the scene leaves   *)
(* out, or leaves their variables alone.                                   *)
LEMMA EstateSteps ==
    ASSUME [MCNext]_mcvars
    PROVE  [Next]_vars
<1>1. CASE OpeningNext
  BY <1>1 DEF OpeningNext, Next
<1>2. CASE ListingNext
  <2>1. \A b \in InGym(rows, OneGym) : b \in Ids
    BY DEF InGym
  <2>2. OneHandler \in Handlers
    BY GymsAssumption DEF OneHandler
  <2>3. QED
    BY <1>2, <2>1, <2>2 DEF ListingNext, Next, OpenOneMore
<1>3. CASE \/ SubmittingNext \/ UploadingNext \/ CheckingNext
           \/ ReviewingNext \/ OverlaysNext \/ ScanningNext
  BY <1>3 DEF SubmittingNext, UploadingNext, CheckingNext, ReviewingNext, OverlaysNext,
              ScanningNext
<1>4. CASE UNCHANGED mcvars
  BY <1>4 DEF mcvars
<1>5. QED
  BY <1>1, <1>2, <1>3, <1>4 DEF MCNext

(* What is no branch has no primary; what is one has all its fields.       *)
LEMMA RowFields ==
    ASSUME EstateTypes, NEW b \in Ids
    PROVE  /\ None \notin BranchRows
           /\ b \in Live <=> rows[b] \in BranchRows
           /\ b \in Live <=> rows[b] /= None
           /\ b \in Nat /\ b /= 0
<1>1. None \notin BranchRows
  BY DEF None, BranchRows
<1>2. QED
  BY <1>1, BranchesAssumption DEF EstateTypes, Live

(* A request that has read the estate has a gym, and asks or does not.     *)
LEMMA RequestFields ==
    ASSUME EstateTypes, NEW h \in Handlers, req[h].at = "insert"
    PROVE  req[h].gym \in Gyms /\ req[h].primary \in BOOLEAN
<1>1. req[h] /= Idle
  BY DEF Idle
<1>2. QED
  BY <1>1 DEF EstateTypes, Requests

(* A branch that was opened has its place in the order of opening.         *)
LEMMA OpenedAtSomeTime ==
    ASSUME EstateTypes, NEW b \in Live
    PROVE  OpenedAt(b) \in 1 .. Len(opened) /\ opened[OpenedAt(b)] = b
<1>1. \E j \in 1 .. Len(opened) : opened[j] = b
  BY DEF EstateTypes, ToSet
<1>2. QED
  BY <1>1 DEF OpenedAt

(* A walk that is left where it was is not disturbed by what does not move *)
(* the branches that keep their place.                                     *)
LEMMA WalkUndisturbed ==
    ASSUME WalkGoesOn,
           walk'.at = walk.at, walk'.sort = walk.sort, walk'.cursor = walk.cursor,
           walk'.listed = walk.listed, Steady' \subseteq Steady,
           \A b \in Steady' : KeyOf(walk.sort, b, rows'[b]) = KeyOf(walk.sort, b, rows[b])
    PROVE  WalkGoesOn'
<1>1. \A b \in Steady' : Passed(b)' <=> Passed(b)
  BY DEF Passed
<1>2. QED
  BY <1>1 DEF WalkGoesOn

(* No branch, no request under way, no walk.                               *)
LEMMA EstateInit ==
    ASSUME Init
    PROVE  EstateInv
<1>1. Live = {} /\ \A g : InGym(rows, g) = {}
  BY DEF Init, Live, InGym
<1>2. EstateTypes
  BY <1>1, FS_EmptySet DEF Init, EstateTypes, ToSet, Requests
<1>3. NotWalking \in Walks
  BY DEF NotWalking, Walks, Sorts
<1>4. WalkTypes
  BY <1>1, <1>3 DEF Init, WalkTypes, NotWalking, ToSet
<1>5. LaterOnesAreLater /\ HasOnePrimary /\ WalkGoesOn
  BY <1>1 DEF Init, LaterOnesAreLater, HasOnePrimary, WalkGoesOn, Idle, NotWalking
<1>6. QED
  BY <1>2, <1>4, <1>5 DEF EstateInv

(* Who does not ask to be the primary saw a branch of the gym.             *)
LEMMA ReadEstateKeeps ==
    ASSUME EstateInv, NEW h \in Handlers, ReadEstate(h)
    PROVE  EstateInv'
<1>1. PICK g \in Gyms, asked \in BOOLEAN :
        req' = [req EXCEPT ![h] = [at |-> "insert", gym |-> g,
                                   primary |-> InGym(rows, g) = {} \/ asked]]
  BY DEF ReadEstate
<1>2. rows' = rows /\ opened' = opened /\ walk' = walk
  BY DEF ReadEstate
<1> DEFINE p == InGym(rows, g) = {} \/ asked
           r == [at |-> "insert", gym |-> g, primary |-> p]
<1>3. p \in BOOLEAN
  OBVIOUS
<1>4. ~p => InGym(rows, g) /= {}
  OBVIOUS
<1>5. req' = [req EXCEPT ![h] = r]
  BY <1>1
<1> HIDE DEF p
<1>6. r \in Requests /\ r.gym = g /\ r.primary = p
  BY <1>3 DEF Requests
<1> HIDE DEF r
<1>7. EstateTypes'
  BY <1>2, <1>5, <1>6 DEF EstateInv, EstateTypes, Live
<1>8. LaterOnesAreLater'
  <2>1. req'[h] = r /\ \A k \in Handlers : k /= h => req'[k] = req[k]
    BY <1>5 DEF EstateInv, EstateTypes
  <2>2. QED
    BY <1>2, <1>4, <1>6, <2>1 DEF EstateInv, LaterOnesAreLater, InGym
<1>9. HasOnePrimary' /\ WalkTypes' /\ WalkGoesOn'
  BY <1>2 DEF EstateInv, HasOnePrimary, WalkTypes, WalkGoesOn, InGym, PrimariesOf, Live, Steady, Passed
<1>10. QED
  BY <1>7, <1>8, <1>9 DEF EstateInv

(* A row the index refuses leaves everything as it was.                    *)
LEMMA RefusedKeeps ==
    ASSUME EstateInv, NEW h \in Handlers, Refused(h)
    PROVE  EstateInv'
<1>1. req' = [req EXCEPT ![h] = Idle] /\ rows' = rows /\ opened' = opened /\ walk' = walk
  BY DEF Refused
<1>2. EstateTypes'
  BY <1>1 DEF EstateInv, EstateTypes, Live, Requests
<1>3. LaterOnesAreLater'
  BY <1>1 DEF EstateInv, EstateTypes, LaterOnesAreLater, InGym, Idle
<1>4. HasOnePrimary' /\ WalkTypes' /\ WalkGoesOn'
  BY <1>1 DEF EstateInv, HasOnePrimary, WalkTypes, WalkGoesOn, InGym, PrimariesOf, Live, Steady, Passed
<1>5. QED
  BY <1>2, <1>3, <1>4 DEF EstateInv

(* Who finds the gym without a primary is its first branch, and is one: a  *)
(* later one that did not ask saw a branch, and so there is a primary.     *)
LEMMA InsertKeeps ==
    ASSUME EstateInv, NEW h \in Handlers, Insert(h)
    PROVE  EstateInv'
<1> DEFINE g == req[h].gym
           p == req[h].primary
<1>1. PICK b \in Ids \ Live, n \in Names :
        /\ rows' = [rows EXCEPT ![b] = [gym |-> g, name |-> n, primary |-> p]]
        /\ opened' = Append(opened, b)
  BY DEF Insert
<1> DEFINE r == [gym |-> g, name |-> n, primary |-> p]
<1>2. /\ req[h].at = "insert" /\ IndexAdmits(g, p)
      /\ req' = [req EXCEPT ![h] = Idle] /\ walk' = walk
  BY DEF Insert
<1>3. g \in Gyms /\ p \in BOOLEAN
  BY <1>2, RequestFields DEF EstateInv
<1>4. ~p => InGym(rows, g) /= {}
  BY <1>2 DEF EstateInv, LaterOnesAreLater
<1> HIDE DEF g, p
<1>5. r \in BranchRows /\ r /= None /\ r.gym = g /\ r.primary = p
  BY <1>3 DEF BranchRows, None
<1>6. rows' = [rows EXCEPT ![b] = r]
  BY <1>1
<1> HIDE DEF r
<1>7. rows'[b] = r /\ rows[b] = None /\ \A x \in Ids : x /= b => rows'[x] = rows[x]
  BY <1>6 DEF EstateInv, EstateTypes, Live
<1>8. Live' = Live \union {b}
  BY <1>5, <1>7 DEF Live
<1>9. EstateTypes'
  <2>1. rows' \in [Ids -> BranchRows \union {None}]
    BY <1>5, <1>6 DEF EstateInv, EstateTypes
  <2>2. req' \in [Handlers -> Requests]
    BY <1>2 DEF EstateInv, EstateTypes, Requests
  <2>3. opened \in Seq(Ids) /\ ToSet(opened) = Live /\ Len(opened) = Cardinality(Live)
    BY DEF EstateInv, EstateTypes
  <2>4. opened' \in Seq(Ids) /\ Len(opened') = Len(opened) + 1
    BY <1>1, <2>3
  <2>5. ToSet(opened') = ToSet(opened) \union {b}
    BY <1>1, <2>3 DEF ToSet
  <2>6. IsFiniteSet(Live)
    BY BranchesAssumption, FS_Subset DEF Live
  <2>7. Cardinality(Live') = Cardinality(Live) + 1
    BY <1>1, <1>8, <2>6, FS_AddElement
  <2>8. QED
    BY <1>8, <2>1, <2>2, <2>3, <2>4, <2>5, <2>7 DEF EstateTypes
<1>10. /\ InGym(rows', g) = InGym(rows, g) \union {b}
       /\ \A o : o /= g => InGym(rows', o) = InGym(rows, o)
  BY <1>5, <1>7 DEF InGym
<1>11. /\ PrimariesOf(rows', g) = PrimariesOf(rows, g) \union (IF p THEN {b} ELSE {})
       /\ \A o : o /= g => PrimariesOf(rows', o) = PrimariesOf(rows, o)
  <2>1. \A o, x : x \in PrimariesOf(rows', o) <=> x \in InGym(rows', o) /\ rows'[x].primary
    BY DEF PrimariesOf
  <2>2. \A o, x : x \in PrimariesOf(rows, o) <=> x \in InGym(rows, o) /\ rows[x].primary
    BY DEF PrimariesOf
  <2>3. \A o : InGym(rows, o) \subseteq Ids /\ b \notin InGym(rows, o)
    BY <1>7 DEF InGym
  <2>4. ASSUME NEW x
        PROVE  x \in PrimariesOf(rows', g) <=> x \in PrimariesOf(rows, g) \/ (p /\ x = b)
    <3>1. CASE x = b
      BY <1>5, <1>7, <1>10, <2>1, <2>2, <2>3, <3>1
    <3>2. CASE x /= b
      <4>1. x \in InGym(rows', g) <=> x \in InGym(rows, g)
        BY <1>10, <3>2
      <4>2. x \in InGym(rows, g) => rows'[x] = rows[x]
        BY <1>7, <2>3, <3>2
      <4>3. QED
        BY <2>1, <2>2, <3>2, <4>1, <4>2
    <3>3. QED
      BY <3>1, <3>2
  <2>5. ASSUME NEW o, o /= g
        PROVE  PrimariesOf(rows', o) = PrimariesOf(rows, o)
    <3>1. InGym(rows', o) = InGym(rows, o) /\ \A x \in InGym(rows, o) : rows'[x] = rows[x]
      BY <1>7, <1>10, <2>3, <2>5
    <3>2. QED
      BY <3>1 DEF PrimariesOf
  <2>6. QED
    BY <2>4, <2>5
<1>12. LaterOnesAreLater'
  <2>1. \A k \in Handlers : k /= h => req'[k] = req[k]
    BY <1>2 DEF EstateInv, EstateTypes
  <2>2. req'[h].at /= "insert"
    BY <1>2 DEF EstateInv, EstateTypes, Idle
  <2>3. \A o : InGym(rows, o) /= {} => InGym(rows', o) /= {}
    BY <1>10
  <2>4. QED
    BY <2>1, <2>2, <2>3 DEF EstateInv, LaterOnesAreLater
<1>13. HasOnePrimary'
  <2>1. ASSUME NEW o \in Gyms, InGym(rows', o) /= {}
        PROVE  \E x \in Ids : PrimariesOf(rows', o) = {x}
    <3>1. CASE o /= g
      BY <1>10, <1>11, <2>1, <3>1 DEF EstateInv, HasOnePrimary
    <3>2. CASE o = g /\ p
      BY <1>2, <1>11, <3>2 DEF IndexAdmits
    <3>3. CASE o = g /\ ~p
      BY <1>3, <1>4, <1>11, <3>3 DEF EstateInv, HasOnePrimary
    <3>4. QED
      BY <3>1, <3>2, <3>3
  <2>2. QED
    BY <2>1 DEF HasOnePrimary
<1>14. WalkTypes'
  BY <1>1, <1>2, <1>7, <1>8 DEF EstateInv, WalkTypes, Live
<1>15. WalkGoesOn'
  <2>1. Steady' = Steady /\ Steady \subseteq Live
    BY <1>2 DEF Steady, EstateInv, WalkTypes
  <2>2. \A x \in Steady : rows'[x] = rows[x]
    BY <1>1, <1>7, <2>1 DEF Live
  <2>3. QED
    BY <1>2, <2>1, <2>2, WalkUndisturbed DEF EstateInv
<1>16. QED
  BY <1>9, <1>12, <1>13, <1>14, <1>15 DEF EstateInv

(* A branch keeps its key, or is renamed: created_at does not look at the  *)
(* name.                                                                   *)
LEMMA UpdateBranchKeeps ==
    ASSUME EstateInv, NEW b \in Ids, UpdateBranch(b)
    PROVE  EstateInv'
<1>1. PICK n \in Names : rows' = [rows EXCEPT ![b].name = n]
  BY DEF UpdateBranch
<1>2. rows[b] /= None /\ opened' = opened /\ req' = req
  BY DEF UpdateBranch
<1>3. rows[b] \in BranchRows
  BY <1>2 DEF EstateInv, EstateTypes
<1>4. /\ rows' \in [Ids -> BranchRows \union {None}]
      /\ rows'[b] \in BranchRows /\ rows'[b].gym = rows[b].gym /\ rows'[b].primary = rows[b].primary
      /\ \A x \in Ids : x /= b => rows'[x] = rows[x]
  BY <1>1, <1>3 DEF EstateInv, EstateTypes, BranchRows
<1>5. rows'[b] /= None
  BY <1>4 DEF BranchRows, None
<1>6. Live' = Live
  BY <1>2, <1>4, <1>5 DEF Live
<1>7. \A g : InGym(rows', g) = InGym(rows, g) /\ PrimariesOf(rows', g) = PrimariesOf(rows, g)
  BY <1>2, <1>4, <1>5 DEF InGym, PrimariesOf
<1>8. EstateTypes'
  BY <1>2, <1>4, <1>6 DEF EstateInv, EstateTypes
<1>9. LaterOnesAreLater' /\ HasOnePrimary'
  BY <1>2, <1>7 DEF EstateInv, LaterOnesAreLater, HasOnePrimary
<1>10. CASE walk.at /= "walking"
  <2>1. walk' = walk
    BY <1>10 DEF UpdateBranch
  <2>2. WalkTypes'
    BY <1>4, <1>6, <2>1 DEF EstateInv, WalkTypes, Matches, Live
  <2>3. WalkGoesOn'
    <3>1. Steady' = Steady
      BY <2>1 DEF Steady
    <3>2. QED
      BY <1>10, <2>1, <3>1 DEF EstateInv, WalkGoesOn
  <2>4. QED
    BY <1>8, <1>9, <2>2, <2>3 DEF EstateInv
<1>11. CASE walk.at = "walking"
  <2>1. walk' = [walk EXCEPT !.renamed = @ \union {b}]
    BY <1>11 DEF UpdateBranch
  <2>2. walk \in Walks
    BY DEF EstateInv, WalkTypes
  <2>3. /\ walk' \in Walks /\ walk'.at = walk.at /\ walk'.sort = walk.sort
        /\ walk'.cursor = walk.cursor /\ walk'.listed = walk.listed /\ walk'.gyms = walk.gyms
        /\ walk'.there = walk.there /\ walk'.renamed = walk.renamed \union {b}
    BY <2>1, <2>2 DEF Walks
  <2>4. WalkTypes'
    BY <1>2, <1>4, <1>6, <2>3 DEF EstateInv, WalkTypes, Matches, Live
  <2>5. WalkGoesOn'
    <3>1. Steady' \subseteq Steady /\ Steady \subseteq Ids
      BY <2>3 DEF Steady, EstateInv, WalkTypes, Live
    <3>2. ASSUME NEW x \in Steady'
          PROVE  KeyOf(walk.sort, x, rows'[x]) = KeyOf(walk.sort, x, rows[x])
      <4>1. CASE walk.sort = "created_at:desc"
        BY <4>1 DEF KeyOf
      <4>2. CASE walk.sort /= "created_at:desc"
        BY <1>4, <2>3, <3>1, <3>2, <4>2 DEF Steady
      <4>3. QED
        BY <4>1, <4>2
    <3>3. QED
      BY <2>3, <3>1, <3>2, WalkUndisturbed DEF EstateInv
  <2>6. QED
    BY <1>8, <1>9, <2>4, <2>5 DEF EstateInv
<1>12. QED
  BY <1>10, <1>11

(* A walk that starts has passed nothing and listed nothing.               *)
LEMMA StartWalkKeeps ==
    ASSUME EstateInv, StartWalk
    PROVE  EstateInv'
<1>1. PICK s \in Sorts, gs \in SUBSET Gyms :
        walk' = [NotWalking EXCEPT !.at = "walking", !.sort = s, !.gyms = gs,
                                   !.there = {b \in Live : Matches(gs, rows[b])}]
  BY DEF StartWalk
<1>2. rows' = rows /\ opened' = opened /\ req' = req
  BY DEF StartWalk
<1>3. walk' = [at |-> "walking", sort |-> s, gyms |-> gs, cursor |-> NoCursor, listed |-> << >>,
               there |-> {b \in Live : Matches(gs, rows[b])}, renamed |-> {}]
  BY <1>1 DEF NotWalking
<1>4. EstateTypes' /\ LaterOnesAreLater' /\ HasOnePrimary'
  BY <1>2 DEF EstateInv, EstateTypes, LaterOnesAreLater, HasOnePrimary, InGym, PrimariesOf, Live
<1>5. /\ walk'.at = "walking" /\ walk'.cursor = NoCursor /\ walk'.listed = << >>
      /\ walk'.gyms = gs /\ walk'.renamed = {}
      /\ walk'.there \subseteq Live /\ \A b \in walk'.there : Matches(gs, rows[b])
  BY <1>3
<1>6. walk' \in Walks
  <2>1. walk'.there \in SUBSET Ids
    BY <1>5 DEF Live
  <2>2. QED
    BY <1>3, <2>1 DEF Walks
<1>7. WalkTypes'
  <2>1. Live' = Live
    BY <1>2 DEF Live
  <2>2. ToSet(walk'.listed) = {}
    BY <1>5 DEF ToSet
  <2>3. QED
    BY <1>2, <1>5, <1>6, <2>1, <2>2 DEF WalkTypes
<1>8. WalkGoesOn'
  <2>1. \A b : Never(walk'.listed, b)
    BY <1>5 DEF Never
  <2>2. \A b : ~Passed(b)'
    BY <1>5 DEF Passed
  <2>3. QED
    BY <1>5, <2>1, <2>2 DEF WalkGoesOn
<1>9. QED
  BY <1>4, <1>7, <1>8 DEF EstateInv

-----------------------------------------------------------------------------
(* A page.  The rows that are left to list are those of walk.gyms behind   *)
(* the cursor.                                                             *)
Left ==
    {p \in {KeyOf(walk.sort, b, rows[b]) : b \in {x \in Live : Matches(walk.gyms, rows[x])}} :
       walk.cursor = NoCursor \/ Behind(walk.sort, p, walk.cursor)}

(* The key of a branch is one, and has its id.                             *)
LEMMA KeyFields ==
    ASSUME EstateTypes, NEW s, NEW b \in Live
    PROVE  KeyOf(s, b, rows[b]) \in Keys /\ KeyOf(s, b, rows[b]).i = b
<1>1. rows[b] \in BranchRows /\ b \in Ids
  BY RowFields DEF Live
<1>2. rows[b].name \in Nat
  BY <1>1, BranchesAssumption DEF BranchRows
<1>3. QED
  BY <1>1, <1>2 DEF KeyOf, Keys

(* A key has the id of its branch, and there are as many ids at most.      *)
LEMMA LeftKeys ==
    ASSUME EstateTypes
    PROVE  /\ Left \in SUBSET Keys /\ IsFiniteSet(Left)
           /\ \A p \in Left : p.i \in Live /\ p = KeyOf(walk.sort, p.i, rows[p.i])
<1>1. \A p \in Left : p \in Keys /\ p.i \in Live /\ p = KeyOf(walk.sort, p.i, rows[p.i])
  <2>1. SUFFICES ASSUME NEW p \in Left
                 PROVE  p \in Keys /\ p.i \in Live /\ p = KeyOf(walk.sort, p.i, rows[p.i])
    OBVIOUS
  <2>2. PICK b \in Live : p = KeyOf(walk.sort, b, rows[b])
    BY DEF Left
  <2>3. QED
    BY <2>2, KeyFields
<1>2. IsFiniteSet(Left)
  <2> DEFINE f == [p \in Left |-> p.i]
  <2>1. f \in [Left -> Ids] /\ \A p \in Left : f[p] = p.i
    BY <1>1 DEF Live
  <2>2. \A p, q \in Left : f[p] = f[q] => p = q
    BY <1>1, <2>1
  <2> HIDE DEF f
  <2>3. f \in Injection(Left, Ids)
    BY <2>1, <2>2 DEF Injection, IsInjective
  <2>4. QED
    BY <2>3, BranchesAssumption, FS_Injection
<1>3. QED
  BY <1>1, <1>2

(* A page is a beginning of what was selected: all of it, or as much as    *)
(* its last row is the cursor of.                                          *)
LEMMA PageIsABeginning ==
    ASSUME NEW s \in Seq(Keys)
    PROVE  \E m \in 0 .. Len(s) :
             /\ PageOf(s, Limit).data \in Seq(Keys) /\ Len(PageOf(s, Limit).data) = m
             /\ \A j \in 1 .. m : PageOf(s, Limit).data[j] = s[j]
             /\ \/ m = Len(s) /\ PageOf(s, Limit).cursor = NoCursor
                \/ m \in 1 .. Len(s) - 1 /\ PageOf(s, Limit).cursor = s[m]
<1>1. Limit \in Nat /\ Limit >= 1 /\ Len(s) \in Nat
  BY BranchesAssumption
<1>2. CASE Len(s) < Limit + 1
  <2> DEFINE read == SubSeq(s, 1, Len(s))
  <2>1. read \in Seq(Keys) /\ Len(read) = Len(s) /\ \A j \in 1 .. Len(s) : read[j] = s[j]
    BY <1>1
  <2>2. ~(Len(read) > Limit)
    BY <1>1, <1>2, <2>1
  <2>3. PageOf(s, Limit) = [data |-> read, cursor |-> NoCursor]
    BY <1>2, <2>2 DEF PageOf
  <2> HIDE DEF read
  <2>4. QED
    BY <1>1, <2>1, <2>3
<1>3. CASE ~(Len(s) < Limit + 1)
  <2> DEFINE read == SubSeq(s, 1, Limit + 1)
             data == SubSeq(read, 1, Limit)
  <2>1. read \in Seq(Keys) /\ Len(read) = Limit + 1 /\ \A j \in 1 .. Limit + 1 : read[j] = s[j]
    BY <1>1, <1>3
  <2>2. PageOf(s, Limit) = [data |-> data, cursor |-> data[Len(data)]]
    <3>1. Len(read) > Limit
      BY <1>1, <2>1
    <3>2. QED
      BY <1>3, <3>1 DEF PageOf
  <2> HIDE DEF read
  <2>3. data \in Seq(Keys) /\ Len(data) = Limit /\ \A j \in 1 .. Limit : data[j] = read[j]
    BY <1>1, <2>1
  <2> HIDE DEF data
  <2>4. \A j \in 1 .. Limit : data[j] = s[j]
    BY <1>1, <2>1, <2>3
  <2>5. Limit \in 1 .. Len(s) - 1 /\ data[Len(data)] = s[Limit]
    BY <1>1, <1>3, <2>3, <2>4
  <2>6. QED
    BY <1>1, <2>2, <2>3, <2>4, <2>5
<1>4. QED
  BY <1>2, <1>3

(* Once in all: once in one part and never in the other.                   *)
LEMMA OnceInParts ==
    ASSUME NEW s \in Seq(Ids), NEW t \in Seq(Ids), NEW b
    PROVE  /\ Once(s, b) /\ Never(t, b) => Once(s \o t, b)
           /\ Never(s, b) /\ Once(t, b) => Once(s \o t, b)
           /\ Never(s, b) /\ Never(t, b) => Never(s \o t, b)
<1> DEFINE n == Len(s)
           m == Len(t)
           u == s \o t
<1>1. /\ n \in Nat /\ m \in Nat /\ u \in Seq(Ids) /\ Len(u) = n + m
      /\ \A i \in 1 .. n : u[i] = s[i]
      /\ \A i \in 1 .. m : u[n + i] = t[i]
  OBVIOUS
<1> HIDE DEF n, m, u
<1>2. \A i \in 1 .. n + m : i \in 1 .. n \/ (i - n \in 1 .. m /\ n + (i - n) = i)
  BY <1>1
<1>3. \A i \in 1 .. n : i \in 1 .. n + m
  BY <1>1
<1>4. \A i \in 1 .. m : n + i \in 1 .. n + m /\ n + i \notin 1 .. n /\ n + i \in Int
  BY <1>1
<1>5. ASSUME Once(s, b), Never(t, b)
      PROVE  Once(u, b)
  <2>1. PICK j \in 1 .. n : \A i \in 1 .. n : s[i] = b <=> i = j
    BY <1>5 DEF Once, n
  <2>2. \A i \in 1 .. m : t[i] /= b
    BY <1>5 DEF Never, m
  <2>3. ASSUME NEW i \in 1 .. n + m
        PROVE  u[i] = b <=> i = j
    <3>1. CASE i \in 1 .. n
      BY <1>1, <2>1, <3>1
    <3>2. CASE i - n \in 1 .. m /\ n + (i - n) = i
      <4>1. u[i] = t[i - n] /\ t[i - n] /= b
        BY <1>1, <2>2, <3>2
      <4>2. i /= j
        BY <1>1, <2>1, <2>3, <3>2
      <4>3. QED
        BY <4>1, <4>2
    <3>3. QED
      BY <1>2, <3>1, <3>2
  <2>4. j \in 1 .. Len(u)
    BY <1>1, <1>3, <2>1
  <2>5. \A i \in 1 .. Len(u) : u[i] = b <=> i = j
    BY <1>1, <2>3
  <2>6. QED
    BY <2>4, <2>5 DEF Once
<1>6. ASSUME Never(s, b), Once(t, b)
      PROVE  Once(u, b)
  <2>1. PICK j \in 1 .. m : \A i \in 1 .. m : t[i] = b <=> i = j
    BY <1>6 DEF Once, m
  <2>2. \A i \in 1 .. n : s[i] /= b
    BY <1>6 DEF Never, n
  <2>3. ASSUME NEW i \in 1 .. n + m
        PROVE  u[i] = b <=> i = n + j
    <3>1. CASE i \in 1 .. n
      BY <1>1, <1>4, <2>1, <2>2, <3>1
    <3>2. CASE i - n \in 1 .. m /\ n + (i - n) = i
      <4>1. u[i] = t[i - n]
        BY <1>1, <3>2
      <4>2. i - n = j <=> i = n + j
        BY <1>1, <2>1, <2>3
      <4>3. QED
        BY <2>1, <3>2, <4>1, <4>2
    <3>3. QED
      BY <1>2, <3>1, <3>2
  <2>4. n + j \in 1 .. Len(u)
    BY <1>1, <1>4, <2>1
  <2>5. \A i \in 1 .. Len(u) : u[i] = b <=> i = n + j
    BY <1>1, <2>3
  <2>6. QED
    BY <2>4, <2>5 DEF Once
<1>7. ASSUME Never(s, b), Never(t, b)
      PROVE  Never(u, b)
  <2>1. (\A i \in 1 .. n : s[i] /= b) /\ (\A i \in 1 .. m : t[i] /= b)
    BY <1>7 DEF Never, n, m
  <2>2. \A i \in 1 .. n + m : u[i] /= b
    BY <1>1, <1>2, <2>1
  <2>3. QED
    BY <1>1, <2>2 DEF Never
<1>8. QED
  BY <1>5, <1>6, <1>7 DEF u

(* The page lists what the cursor goes past by it: what it had passed is   *)
(* not selected again, and what is selected is listed once or still        *)
(* behind.                                                                 *)
LEMMA NextPageKeeps ==
    ASSUME EstateInv, NextPage
    PROVE  EstateInv'
<1> DEFINE sel == Selected(walk.sort, walk.gyms, walk.cursor)
           leaf == PageOf(sel, Limit)
           ids == [j \in 1 .. Len(leaf.data) |-> leaf.data[j].i]
           n == Cardinality(Left)
           Key(b) == KeyOf(walk.sort, b, rows[b])
<1>1. /\ walk.at = "walking"
      /\ walk' = [walk EXCEPT !.listed = @ \o ids, !.cursor = leaf.cursor,
                              !.at = IF leaf.cursor = NoCursor THEN "done" ELSE "walking"]
      /\ rows' = rows /\ opened' = opened /\ req' = req
  BY DEF NextPage
<1>2. walk \in Walks /\ EstateTypes
  BY DEF EstateInv, WalkTypes
<1>3. sel = InOrder(walk.sort, Left)
  BY DEF Selected, Left
<1>4. Left \in SUBSET Keys /\ \A p \in Left : p.i \in Live /\ p = Key(p.i)
  BY <1>2, LeftKeys
<1>5. /\ n \in Nat /\ sel \in [1 .. n -> Left]
      /\ \A i, j \in 1 .. n : i < j => Behind(walk.sort, sel[j], sel[i])
      /\ \A p \in Left : \E j \in 1 .. n : sel[j] = p
  BY <1>2, <1>3, LeftKeys, InOrderSorts
<1> HIDE DEF sel, n
<1>6. sel \in Seq(Keys) /\ Len(sel) = n
  BY <1>4, <1>5
<1>7. PICK m \in 0 .. n :
        /\ leaf.data \in Seq(Keys) /\ Len(leaf.data) = m
        /\ \A j \in 1 .. m : leaf.data[j] = sel[j]
        /\ \/ m = n /\ leaf.cursor = NoCursor
           \/ m \in 1 .. n - 1 /\ leaf.cursor = sel[m]
  BY <1>6, PageIsABeginning
<1> HIDE DEF leaf
<1>8. /\ ids \in Seq(Ids) /\ Len(ids) = m
      /\ \A j \in 1 .. m : ids[j] = sel[j].i /\ ids[j] \in Live /\ sel[j] \in Left
  <2>1. ASSUME NEW j \in 1 .. m
        PROVE  j \in 1 .. n /\ sel[j] \in Left /\ leaf.data[j].i = sel[j].i /\ sel[j].i \in Live
    BY <1>4, <1>5, <1>7, <2>1
  <2>2. QED
    BY <1>7, <2>1 DEF Live
<1> HIDE DEF ids
<1>9. leaf.cursor \in Keys \union {NoCursor}
  <2>1. CASE leaf.cursor = NoCursor
    BY <2>1
  <2>2. CASE m \in 1 .. n - 1 /\ leaf.cursor = sel[m]
    BY <1>4, <1>5, <2>2
  <2>3. QED
    BY <1>7, <2>1, <2>2
<1>10. /\ walk' \in Walks /\ walk'.sort = walk.sort /\ walk'.gyms = walk.gyms
       /\ walk'.there = walk.there /\ walk'.renamed = walk.renamed
       /\ walk'.listed = walk.listed \o ids /\ walk'.cursor = leaf.cursor
       /\ walk'.at = IF leaf.cursor = NoCursor THEN "done" ELSE "walking"
  <2>1. walk.listed \in Seq(Ids)
    BY <1>2 DEF Walks
  <2>2. walk.listed \o ids \in Seq(Ids)
    BY <1>8, <2>1
  <2>3. QED
    BY <1>1, <1>2, <1>9, <2>2 DEF Walks
<1>11. EstateTypes' /\ LaterOnesAreLater' /\ HasOnePrimary'
  BY <1>1 DEF EstateInv, EstateTypes, LaterOnesAreLater, HasOnePrimary, InGym, PrimariesOf, Live
<1>12. WalkTypes'
  <2>1. Live' = Live
    BY <1>1 DEF Live
  <2>2. ToSet(walk'.listed) \subseteq ToSet(walk.listed) \union Live
    <3>1. walk.listed \in Seq(Ids)
      BY <1>2 DEF Walks
    <3>2. ASSUME NEW i \in DOMAIN (walk.listed \o ids)
          PROVE  (walk.listed \o ids)[i] \in ToSet(walk.listed) \union Live
      <4>1. CASE i \in 1 .. Len(walk.listed)
        BY <1>8, <3>1, <4>1 DEF ToSet
      <4>2. CASE i \notin 1 .. Len(walk.listed)
        <5>1. i - Len(walk.listed) \in 1 .. m /\ (walk.listed \o ids)[i] = ids[i - Len(walk.listed)]
          BY <1>8, <3>1, <3>2, <4>2
        <5>2. QED
          BY <1>8, <5>1
      <4>3. QED
        BY <4>1, <4>2
    <3>3. QED
      BY <1>10, <3>2 DEF ToSet
  <2>3. QED
    BY <1>1, <1>10, <2>1, <2>2 DEF EstateInv, WalkTypes
<1>13. Steady' = Steady /\ Steady \subseteq walk.there /\ walk.there \subseteq Live
  BY <1>10 DEF Steady, EstateInv, WalkTypes
<1>14. ASSUME NEW b \in Steady
       PROVE  /\ Key(b) \in Keys /\ Key(b).i = b
              /\ Key(b) \in Left <=> ~Passed(b)
  <2>1. b \in Live /\ Matches(walk.gyms, rows[b])
    BY <1>13 DEF EstateInv, WalkTypes
  <2>2. QED
    BY <1>2, <2>1, KeyFields DEF Left, Passed
(* A branch that was passed stays so, and the page is of others.           *)
<1>15. ASSUME NEW b \in Steady, Passed(b)
       PROVE  Never(ids, b) /\ (leaf.cursor /= NoCursor => Passed(b)')
  <2>1. Key(b) \in Keys /\ Key(b) \notin Left
    BY <1>14, <1>15
  <2>2. Never(ids, b)
    <3>1. \A j \in 1 .. m : ids[j] /= b
      BY <1>4, <1>8, <2>1
    <3>2. QED
      BY <1>8, <3>1 DEF Never
  <2>3. ASSUME leaf.cursor /= NoCursor
        PROVE  Passed(b)'
    <3>1. m \in 1 .. n - 1 /\ leaf.cursor = sel[m]
      BY <1>7, <2>3
    <3>2. leaf.cursor \in Left
      BY <1>5, <3>1
    <3>3. walk.cursor \in Keys /\ ~Behind(walk.sort, Key(b), walk.cursor)
      BY <1>2, <1>15 DEF Passed, Walks
    <3>4. Behind(walk.sort, leaf.cursor, walk.cursor)
      BY <1>15, <3>2 DEF Left, Passed
    <3>5. ~Behind(walk.sort, Key(b), leaf.cursor)
      BY ZenonT(30), <1>4, <2>1, <3>2, <3>3, <3>4, BehindOrders
    <3>6. QED
      BY <1>1, <1>10, <2>3, <3>5 DEF Passed
  <2>4. QED
    BY <2>2, <2>3
(* A branch that was not is at one place of the order: up to the end of    *)
(* the page it is passed now, and from there on it is behind the cursor.   *)
<1>16. ASSUME NEW b \in Steady, ~Passed(b)
       PROVE  \/ Once(ids, b) /\ (leaf.cursor /= NoCursor => Passed(b)')
              \/ Never(ids, b) /\ leaf.cursor /= NoCursor /\ ~Passed(b)'
  <2>1. Key(b) \in Left /\ Key(b) \in Keys /\ Key(b).i = b
    BY <1>14, <1>16
  <2>2. PICK j \in 1 .. n : sel[j] = Key(b)
    BY <1>5, <2>1
  <2>3. ASSUME NEW i \in 1 .. n
        PROVE  sel[i].i = b <=> i = j
    <3>1. CASE i = j
      BY <2>1, <2>2, <3>1
    <3>2. CASE i /= j
      <4>1. i < j \/ j < i
        BY <1>5, <3>2
      <4>2. sel[i] \in Left /\ sel[i] /= sel[j]
        BY <1>4, <1>5, <2>3, <4>1, BehindOrders
      <4>3. QED
        BY <1>4, <2>2, <3>2, <4>2
    <3>3. QED
      BY <3>1, <3>2
  <2>4. CASE j <= m
    <3>1. Once(ids, b)
      <4>1. j \in 1 .. m /\ \A i \in 1 .. m : i \in 1 .. n
        BY <1>5, <1>7, <2>4
      <4>2. \A i \in 1 .. m : ids[i] = b <=> i = j
        BY <1>8, <2>3, <4>1
      <4>3. QED
        BY <1>8, <4>1, <4>2 DEF Once
    <3>2. ASSUME leaf.cursor /= NoCursor
          PROVE  Passed(b)'
      <4>1. m \in 1 .. n - 1 /\ m \in 1 .. n /\ leaf.cursor = sel[m]
        BY <1>5, <1>7, <3>2
      <4>2. j = m \/ j < m
        BY <1>5, <2>4, <4>1
      <4>3. sel[m] \in Keys
        BY <1>4, <1>5, <4>1
      <4>4. ~Behind(walk.sort, Key(b), sel[m])
        BY <1>5, <2>1, <2>2, <4>1, <4>2, <4>3, BehindOrders
      <4>5. QED
        BY <1>1, <1>10, <3>2, <4>1, <4>4 DEF Passed
    <3>3. QED
      BY <3>1, <3>2
  <2>5. CASE ~(j <= m)
    <3>1. m < j /\ m \in 1 .. n - 1 /\ m \in 1 .. n /\ leaf.cursor = sel[m]
      BY <1>5, <1>7, <2>5
    <3>2. Never(ids, b)
      <4>1. \A i \in 1 .. m : i \in 1 .. n /\ i /= j
        BY <1>5, <3>1
      <4>2. \A i \in 1 .. m : ids[i] /= b
        BY <1>8, <2>3, <4>1
      <4>3. QED
        BY <1>8, <4>2 DEF Never
    <3>3. Behind(walk.sort, Key(b), sel[m])
      BY <1>5, <2>2, <3>1
    <3>4. sel[m] /= NoCursor
      <4>1. sel[m] \in Keys
        BY <1>4, <1>5, <3>1
      <4>2. QED
        BY <4>1 DEF Keys, NoCursor
    <3>5. ~Passed(b)'
      BY <1>1, <1>10, <3>1, <3>3 DEF Passed
    <3>6. QED
      BY <3>1, <3>2, <3>4, <3>5
  <2>6. QED
    BY <2>4, <2>5
<1>17. WalkGoesOn'
  <2>1. walk.listed \in Seq(Ids)
    BY <1>2 DEF Walks
  <2>2. ASSUME NEW b \in Steady
        PROVE  \/ Once(walk'.listed, b) /\ (leaf.cursor /= NoCursor => Passed(b)')
               \/ Never(walk'.listed, b) /\ leaf.cursor /= NoCursor /\ ~Passed(b)'
    <3>1. CASE Passed(b)
      <4>1. Once(walk.listed, b)
        BY <1>1, <3>1 DEF EstateInv, WalkGoesOn
      <4>2. Never(ids, b) /\ (leaf.cursor /= NoCursor => Passed(b)')
        BY <1>15, <3>1
      <4>3. Once(walk.listed \o ids, b)
        BY <1>8, <2>1, <4>1, <4>2, OnceInParts
      <4>4. QED
        BY <1>10, <4>2, <4>3
    <3>2. CASE ~Passed(b)
      <4>1. Never(walk.listed, b)
        BY <1>1, <3>2 DEF EstateInv, WalkGoesOn
      <4>2. CASE Once(ids, b) /\ (leaf.cursor /= NoCursor => Passed(b)')
        <5>1. Once(walk.listed \o ids, b)
          BY <1>8, <2>1, <4>1, <4>2, OnceInParts
        <5>2. QED
          BY <1>10, <4>2, <5>1
      <4>3. CASE Never(ids, b) /\ leaf.cursor /= NoCursor /\ ~Passed(b)'
        <5>1. Never(walk.listed \o ids, b)
          BY <1>8, <2>1, <4>1, <4>3, OnceInParts
        <5>2. QED
          BY <1>10, <4>3, <5>1
      <4>4. QED
        BY <1>16, <3>2, <4>2, <4>3
    <3>3. QED
      BY <3>1, <3>2
  <2>3. QED
    BY <1>10, <1>13, <2>2 DEF WalkGoesOn
<1>18. QED
  BY <1>11, <1>12, <1>17 DEF EstateInv

(* Each step of the estate, and each step of the rest.                     *)
LEMMA EstateInvStep ==
    ASSUME EstateInv, [Next]_vars
    PROVE  EstateInv'
<1>1. ASSUME NEW h \in Handlers, ReadEstate(h) \/ Insert(h) \/ Refused(h)
      PROVE  EstateInv'
  BY <1>1, ReadEstateKeeps, InsertKeeps, RefusedKeeps
<1>2. ASSUME NEW b \in Ids, UpdateBranch(b)
      PROVE  EstateInv'
  BY <1>2, UpdateBranchKeeps
<1>3. CASE StartWalk \/ NextPage
  BY <1>3, StartWalkKeeps, NextPageKeeps
<1>4. CASE UNCHANGED vars
  BY <1>4 DEF vars, EstateInv, EstateTypes, LaterOnesAreLater, HasOnePrimary, WalkTypes,
              WalkGoesOn, InGym, PrimariesOf, Live, Steady, Passed
<1>5. QED
  BY <1>1, <1>2, <1>3, <1>4 DEF Next

-----------------------------------------------------------------------------
(* Of branches none of which is the primary, the first is the one that was *)
(* opened first: places in the order of opening have a least one.          *)
LEMMA FirstIsTheOldest ==
    ASSUME EstateTypes, NEW T \in SUBSET Live, T /= {},
           \A x \in T : rows[x].primary = FALSE
    PROVE  First(T) \in T /\ \A y \in T : OpenedAt(First(T)) <= OpenedAt(y)
<1> DEFINE places == {OpenedAt(x) : x \in T}
<1>1. \A x \in T : /\ OpenedAt(x) \in 1 .. Len(opened) /\ OpenedAt(x) \in Nat
                   /\ opened[OpenedAt(x)] = x
  <2>1. ASSUME NEW x \in T
        PROVE  OpenedAt(x) \in 1 .. Len(opened) /\ opened[OpenedAt(x)] = x
    BY OpenedAtSomeTime
  <2>2. Len(opened) \in Nat
    BY DEF EstateTypes
  <2>3. QED
    BY <2>1, <2>2
<1>2. places \in SUBSET Nat /\ places /= {}
  BY <1>1
<1>3. PICK k \in places : \A l \in places : k <= l
  BY <1>2, LeastOne
<1>4. PICK x \in T : k = OpenedAt(x)
  OBVIOUS
<1>5. ASSUME NEW y \in T \ {x}
      PROVE  Precedes(x, y)
  <2>1. OpenedAt(x) <= OpenedAt(y) /\ OpenedAt(x) /= OpenedAt(y)
    BY <1>1, <1>3, <1>4, <1>5
  <2>2. OpenedAt(x) \in Nat /\ OpenedAt(y) \in Nat
    BY <1>1
  <2>3. OpenedAt(x) < OpenedAt(y)
    BY <2>1, <2>2
  <2>4. rows[x].primary = rows[y].primary
    BY <1>5
  <2>5. QED
    BY <2>3, <2>4 DEF Precedes
<1> HIDE DEF places
<1>6. First(T) \in T /\ \A y \in T \ {First(T)} : Precedes(First(T), y)
  BY <1>5 DEF First
<1>7. ASSUME NEW y \in T
      PROVE  OpenedAt(First(T)) <= OpenedAt(y)
  <2>1. CASE y = First(T)
    BY <1>1, <2>1
  <2>2. CASE y /= First(T)
    <3>1. Precedes(First(T), y)
      BY <1>6, <2>2
    <3>2. rows[First(T)].primary = rows[y].primary
      BY <1>6
    <3>3. OpenedAt(First(T)) < OpenedAt(y)
      BY <3>1, <3>2 DEF Precedes
    <3>4. QED
      BY <1>1, <1>6, <3>3
  <2>3. QED
    BY <2>1, <2>2
<1>8. QED
  BY <1>6, <1>7

(* What the two statements leave, in terms of what was there.              *)
LEMMA AfterDeactivation ==
    ASSUME EstateTypes, NEW b \in Live, NEW x, x = 0 \/ x \in Live \ {b}
    PROVE  /\ \A g : InGym(Deactivated(rows, b, x), g) = InGym(rows, g) \ {b}
           /\ \A g : PrimariesOf(Deactivated(rows, b, x), g) =
                       (PrimariesOf(rows, g) \ {b}) \union (InGym(rows, g) \cap {x})
<1> DEFINE after == Deactivated(rows, b, x)
<1>1. b \in Ids /\ 0 \notin Ids
  BY BranchesAssumption DEF Live
<1>2. after[b] = None
  BY <1>1 DEF Deactivated
<1>3. \A y \in Ids \ {b, x} : after[y] = rows[y]
  BY DEF Deactivated
<1>4. ASSUME x \in Live \ {b}
      PROVE  /\ x \in Ids /\ rows[x] \in BranchRows
             /\ after[x] = [rows[x] EXCEPT !.primary = TRUE]
  BY <1>4, RowFields DEF Deactivated, Live
<1> HIDE DEF after
<1>5. ASSUME x \in Live \ {b}
      PROVE  /\ after[x] /= None /\ rows[x] /= None
             /\ after[x].gym = rows[x].gym /\ after[x].primary
  BY <1>4, <1>5 DEF BranchRows, None
<1>6. ASSUME NEW g
      PROVE  InGym(after, g) = InGym(rows, g) \ {b}
  <2>1. ASSUME NEW y \in Ids
        PROVE  y \in InGym(after, g) <=> y \in InGym(rows, g) /\ y /= b
    <3>1. CASE y = b
      BY <1>2, <3>1 DEF InGym
    <3>2. CASE y /= b /\ y /= x
      BY <1>3, <3>2 DEF InGym
    <3>3. CASE y /= b /\ y = x
      BY <1>1, <1>5, <2>1, <3>3 DEF InGym
    <3>4. QED
      BY <3>1, <3>2, <3>3
  <2>2. QED
    BY <2>1 DEF InGym
<1>7. ASSUME NEW g
      PROVE  PrimariesOf(after, g) = (PrimariesOf(rows, g) \ {b}) \union (InGym(rows, g) \cap {x})
  <2>1. ASSUME NEW y \in InGym(after, g)
        PROVE  after[y].primary <=> rows[y].primary \/ y = x
    <3>1. y \in Ids /\ y /= b
      BY <1>6, <2>1 DEF InGym
    <3>2. CASE y = x
      BY <1>1, <1>5, <3>1, <3>2
    <3>3. CASE y /= x
      BY <1>3, <3>1, <3>3
    <3>4. QED
      BY <3>2, <3>3
  <2>2. x /= b
    BY <1>1
  <2>3. ASSUME NEW y
        PROVE  y \in PrimariesOf(after, g)
                 <=> y \in (PrimariesOf(rows, g) \ {b}) \union (InGym(rows, g) \cap {x})
    BY <1>6, <2>1, <2>2 DEF PrimariesOf
  <2>4. QED
    BY <2>3
<1>8. QED
  BY <1>6, <1>7 DEF after

(* A permitted closing of any branch leaves a gym in its shape: the        *)
(* primary is another and stays, or was this one and the oldest of the     *)
(* others is promoted, or this was the last and the gym was not listed.    *)
LEMMA ClosingKeepsShape ==
    ASSUME EstateInv, NEW g \in Gyms, NEW b \in Live,
           NEW status \in GymStatuses, NEW affected \in Affected
    PROVE  KeepsItsShape(g, b, status, affected)
<1> DEFINE active == InGym(rows, g)
           others == active \ {b}
           v == MayDeactivate(active, status, affected, b)
           after == Deactivated(rows, b, v.promote)
<1>1. EstateTypes /\ active \subseteq Live
  BY DEF EstateInv, InGym, Live
<1>2. active /= {} => \E p \in Ids : PrimariesOf(rows, g) = {p}
  BY DEF EstateInv, HasOnePrimary
<1>3. PrimariesOf(rows, g) \subseteq active
  BY DEF PrimariesOf
<1> DEFINE Keeps ==
             /\ InGym(after, g) /= {} => Cardinality(PrimariesOf(after, g)) = 1
             /\ active /= {} /\ status \in ListedStatuses => InGym(after, g) /= {}
             /\ \A x \in InGym(after, g) : v.promote /= 0 =>
                   \E i, j \in 1 .. Len(opened) :
                      opened[i] = v.promote /\ opened[j] = x /\ i <= j
<1>4. SUFFICES ASSUME v.permitted
               PROVE  Keeps
  BY DEF KeepsItsShape
(* Nobody is promoted, and this is not the primary of the gym.             *)
<1>5. ASSUME v.promote = 0, b \notin PrimariesOf(rows, g)
      PROVE  Keeps
  <2>1. InGym(after, g) = others /\ PrimariesOf(after, g) = PrimariesOf(rows, g)
    <3>1. 0 \notin active
      BY <1>1, RowFields DEF InGym
    <3>2. QED
      BY <1>1, <1>5, <3>1, AfterDeactivation
  <2>2. CASE active = {}
    BY <1>5, <2>1, <2>2
  <2>3. CASE active /= {}
    <3>1. PICK p \in Ids : PrimariesOf(rows, g) = {p}
      BY <1>2, <2>3
    <3>2. p \in others
      BY <1>3, <1>5, <3>1
    <3>3. QED
      BY <1>5, <2>1, <3>1, <3>2, FS_Singleton
  <2>4. QED
    BY <2>2, <2>3
<1>6. CASE b \notin active
  BY <1>3, <1>5, <1>6 DEF MayDeactivate
<1>7. CASE b \in active
  <2>1. ~(others = {} /\ status \in ListedStatuses)
    BY <1>4, <1>7 DEF MayDeactivate
  <2>2. v.promote = IF rows[b].primary /\ others /= {} THEN First(others) ELSE 0
    BY <1>4, <1>7 DEF MayDeactivate
  <2>3. CASE ~rows[b].primary
    <3>1. b \notin PrimariesOf(rows, g)
      BY <2>3 DEF PrimariesOf
    <3>2. QED
      BY <1>5, <2>2, <2>3, <3>1
  <2>4. CASE rows[b].primary
    <3>1. PrimariesOf(rows, g) = {b}
      BY <1>2, <1>7, <2>4 DEF PrimariesOf
    <3>2. CASE others = {}
      <4>1. InGym(after, g) = {}
        BY <1>1, <2>2, <3>2, AfterDeactivation
      <4>2. QED
        BY <2>1, <3>2, <4>1
    <3>3. CASE others /= {}
      <4>1. v.promote = First(others)
        BY <2>2, <2>4, <3>3
      <4>2. \A x \in others : x \in Live /\ rows[x].primary = FALSE
        <5>1. SUFFICES ASSUME NEW x \in others
                       PROVE  x \in Live /\ rows[x].primary = FALSE
          OBVIOUS
        <5>2. x \in Live /\ x \in Ids /\ x \in active /\ x /= b
          BY <1>1 DEF Live
        <5>3. rows[x] \in BranchRows
          BY <1>1, <5>2, RowFields
        <5>4. ~rows[x].primary
          BY <3>1, <5>2 DEF PrimariesOf
        <5>5. QED
          BY <5>2, <5>3, <5>4 DEF BranchRows
      <4>3. First(others) \in others /\ \A y \in others : OpenedAt(First(others)) <= OpenedAt(y)
        BY <1>1, <3>3, <4>2, FirstIsTheOldest
      <4>4. InGym(after, g) = others /\ PrimariesOf(after, g) = {First(others)}
        <5>1. First(others) \in Live \ {b}
          BY <4>2, <4>3
        <5> DEFINE x == First(others)
        <5> HIDE DEF x
        <5>2. /\ InGym(Deactivated(rows, b, x), g) = InGym(rows, g) \ {b}
              /\ PrimariesOf(Deactivated(rows, b, x), g) =
                   (PrimariesOf(rows, g) \ {b}) \union (InGym(rows, g) \cap {x})
          <6>1. x \in Live \ {b}
            BY <5>1 DEF x
          <6>2. QED
            BY <1>1, <6>1, AfterDeactivation
        <5>3. after = Deactivated(rows, b, x)
          BY <4>1 DEF x
        <5>4. x \in others
          BY <4>3 DEF x
        <5>5. (PrimariesOf(rows, g) \ {b}) \union (InGym(rows, g) \cap {x}) = {x}
          BY <3>1, <5>4
        <5> HIDE DEF after, v
        <5>6. QED
          BY <5>2, <5>3, <5>5 DEF x
      <4>5. ASSUME NEW x \in others
            PROVE  \E i, j \in 1 .. Len(opened) :
                      opened[i] = First(others) /\ opened[j] = x /\ i <= j
        <5>1. /\ OpenedAt(x) \in 1 .. Len(opened) /\ opened[OpenedAt(x)] = x
              /\ OpenedAt(First(others)) \in 1 .. Len(opened)
              /\ opened[OpenedAt(First(others))] = First(others)
          BY <1>1, <4>2, <4>3, OpenedAtSomeTime
        <5>2. QED
          BY <4>3, <5>1
      <4>6. QED
        BY <3>3, <4>1, <4>4, <4>5, FS_Singleton
    <3>4. QED
      BY <3>2, <3>3
  <2>5. QED
    BY <2>3, <2>4
<1>8. QED
  BY <1>6, <1>7

(* What the invariant says is the shape that was promised.                 *)
LEMMA EstateInvSuffices ==
    ASSUME EstateInv
    PROVE  EstateKeepsItsShape
<1>1. BranchTypes
  BY DEF EstateInv, EstateTypes, WalkTypes, BranchTypes, BranchRows
<1>2. OnePrimary
  BY FS_Singleton DEF EstateInv, HasOnePrimary, OnePrimary
<1>3. ClosingKeepsTheShape
  BY ClosingKeepsShape DEF ClosingKeepsTheShape
<1>4. EachListedOnce
  <2>1. SUFFICES ASSUME walk.at = "done", NEW b \in Steady
                 PROVE  Cardinality({j \in 1 .. Len(walk.listed) : walk.listed[j] = b}) = 1
    BY DEF EachListedOnce
  <2>2. Once(walk.listed, b)
    BY <2>1 DEF EstateInv, WalkGoesOn
  <2>3. PICK j \in 1 .. Len(walk.listed) :
          \A i \in 1 .. Len(walk.listed) : walk.listed[i] = b <=> i = j
    BY <2>2 DEF Once
  <2>4. {i \in 1 .. Len(walk.listed) : walk.listed[i] = b} = {j}
    BY <2>3
  <2>5. QED
    BY <2>4, FS_Singleton
<1>5. QED
  BY <1>1, <1>2, <1>3, <1>4 DEF EstateKeepsItsShape

(* However handlers open branches of a gym at once, it has one primary; a  *)
(* closing the policy permits leaves it one, and a listed gym a branch;    *)
(* and a client that pages through the list meanwhile sees every branch    *)
(* that keeps its place once (create-branch.use-case.ts,                   *)
(* branch-deactivation.policy.ts, branch.prisma-repository.ts).            *)
THEOREM EstateAlwaysKeepsItsShape == MCSpec => []EstateKeepsItsShape
<1>1. MCInit => EstateInv
  BY EstateInit DEF MCInit
<1>2. EstateInv /\ [MCNext]_mcvars => EstateInv'
  BY EstateSteps, EstateInvStep
<1>3. EstateInv => EstateKeepsItsShape
  BY EstateInvSuffices
<1>4. QED
  BY <1>1, <1>2, <1>3, PTL DEF MCSpec

-----------------------------------------------------------------------------
(* Submissions and uploads. *)
SubSteps == {"start", "create", "event", "audit", "done", "failed"}
Submissions == [id : Submitters, version : Nat]

SubTypes ==
    /\ applications \in SUBSET Submissions /\ IsFiniteSet(applications)
    /\ sub \in [Submitters -> [at : SubSteps, version : Nat]]

(* The versions taken have no gap, and a submission that has read them     *)
(* computed one of them, or the next.                                      *)
NoGap ==
    /\ Intake!Versions = 1 .. Cardinality(applications)
    /\ \A a, b \in applications : a.id = b.id => a = b
    /\ \A h \in Submitters : sub[h].at = "create" =>
          sub[h].version \in 1 .. Cardinality(applications) + 1

(* What each step of a submission has left behind. *)
LeftBehind ==
    \A h \in Submitters :
       /\ sub[h].at \in {"start", "create"} => \A a \in applications : a.id /= h
       /\ sub[h].at \in {"event", "audit"} =>
             [id |-> h, version |-> sub[h].version] \in applications
       /\ sub[h].at = "audit" => [id |-> h, version |-> sub[h].version] \in events

SubInv == SubTypes /\ NoGap /\ LeftBehind /\ Intake!AnnouncedIsSubmitted

UpSteps == {"start", "scan", "privacy", "put", "row", "event", "done", "refused", "failed"}

UpInv ==
    /\ up \in [Uploaders -> [at : UpSteps, content : Intake!Contents]]
    /\ objects \subseteq Uploaders
    /\ documents \subseteq objects /\ docEvents \subseteq documents
    /\ \A u \in Uploaders :
          /\ up[u].at \in {"privacy", "put", "row", "event"} => up[u].content = "clean"
          /\ up[u].at \in {"row", "event"} => u \in objects
          /\ up[u].at = "event" => u \in documents
    /\ \A u \in objects : up[u].content = "clean" /\ up[u].at /= "start"

(* A step of MCSpec is one of one submission or one upload, or leaves      *)
(* their variables alone.                                                  *)
LEMMA IntakeSteps ==
    ASSUME [MCNext]_mcvars
    PROVE  [Intake!Next]_intakeVars
<1>1. CASE SubmittingNext \/ UploadingNext
  BY <1>1 DEF SubmittingNext, UploadingNext, Intake!Next
<1>2. CASE OpeningNext \/ ListingNext
  BY <1>2 DEF OpeningNext, ListingNext
<1>3. CASE CheckingNext \/ ReviewingNext \/ OverlaysNext \/ ScanningNext
  BY <1>3 DEF CheckingNext, ReviewingNext, OverlaysNext, ScanningNext
<1>4. CASE UNCHANGED mcvars
  BY <1>4 DEF mcvars
<1>5. QED
  BY <1>1, <1>2, <1>3, <1>4 DEF MCNext

(* No version is taken, and the first is the next.                         *)
LEMMA SubInit ==
    ASSUME Intake!Init
    PROVE  SubInv
<1>1. SubTypes
  BY FS_EmptySet DEF Intake!Init, SubTypes, SubSteps
<1>2. Intake!Versions = {} /\ Cardinality(applications) = 0
  BY FS_EmptySet DEF Intake!Init, Intake!Versions
<1>3. 1 .. 0 = {}
  OBVIOUS
<1>4. NoGap
  BY <1>2, <1>3 DEF Intake!Init, NoGap
<1>5. LeftBehind /\ Intake!AnnouncedIsSubmitted
  BY DEF Intake!Init, LeftBehind, Intake!AnnouncedIsSubmitted
<1>6. QED
  BY <1>1, <1>4, <1>5 DEF SubInv

(* The version read and one more is the first that was free then.          *)
LEMMA ReadLatestKeeps ==
    ASSUME SubInv, NEW h \in Submitters, Intake!ReadLatest(h)
    PROVE  SubInv'
<1> DEFINE latest == IF Intake!Versions = {} THEN 0
                     ELSE CHOOSE v \in Intake!Versions : \A w \in Intake!Versions : w <= v
           n == Cardinality(applications)
<1>1. /\ sub[h].at = "start"
      /\ sub' = [sub EXCEPT ![h] = [at |-> "create", version |-> latest + 1]]
      /\ applications' = applications /\ events' = events /\ audits' = audits
  BY DEF Intake!ReadLatest
<1>2. n \in Nat /\ Intake!Versions = 1 .. n
  BY FS_CardinalityType DEF SubInv, SubTypes, NoGap
<1>3. latest \in 0 .. n
  <2>1. CASE n = 0
    BY <1>2, <2>1
  <2>2. CASE n > 0
    <3>1. n \in Intake!Versions /\ \A w \in Intake!Versions : w <= n
      BY <1>2, <2>2
    <3>2. latest \in Intake!Versions
      BY <3>1
    <3>3. QED
      BY <1>2, <3>2
  <2>3. QED
    BY <1>2, <2>1, <2>2
<1> HIDE DEF latest
<1>4. latest + 1 \in 1 .. n + 1 /\ latest + 1 \in Nat
  BY <1>2, <1>3
<1> HIDE DEF n
<1>5. /\ sub' \in [Submitters -> [at : SubSteps, version : Nat]]
      /\ sub'[h].at = "create" /\ sub'[h].version = latest + 1
      /\ \A k \in Submitters : k /= h => sub'[k] = sub[k]
  BY <1>1, <1>4 DEF SubInv, SubTypes, SubSteps
<1>6. SubTypes'
  BY <1>1, <1>5 DEF SubInv, SubTypes
<1>7. NoGap'
  BY <1>1, <1>4, <1>5 DEF SubInv, NoGap, Intake!Versions, n
<1>8. LeftBehind'
  BY <1>1, <1>5 DEF SubInv, LeftBehind
<1>9. QED
  BY <1>1, <1>6, <1>7, <1>8 DEF SubInv, Intake!AnnouncedIsSubmitted

(* The index lets in one version at a time: the next.                      *)
LEMMA CreateApplicationKeeps ==
    ASSUME SubInv, NEW h \in Submitters, Intake!CreateApplication(h)
    PROVE  SubInv'
<1> DEFINE v == sub[h].version
           n == Cardinality(applications)
           row == [id |-> h, version |-> v]
<1>1. sub[h].at = "create" /\ events' = events /\ audits' = audits
  BY DEF Intake!CreateApplication
<1>2. n \in Nat /\ Intake!Versions = 1 .. n /\ v \in 1 .. n + 1 /\ v \in Nat
  BY <1>1, FS_CardinalityType DEF SubInv, SubTypes, NoGap
<1>3. CASE ~Intake!VersionFree(v)
  <2>1. sub' = [sub EXCEPT ![h].at = "failed"] /\ applications' = applications
    BY <1>3 DEF Intake!CreateApplication
  <2>2. /\ sub' \in [Submitters -> [at : SubSteps, version : Nat]]
        /\ sub'[h].at = "failed" /\ \A k \in Submitters : k /= h => sub'[k] = sub[k]
    BY <2>1 DEF SubInv, SubTypes, SubSteps
  <2>3. SubTypes' /\ NoGap' /\ LeftBehind'
    BY <1>1, <2>1, <2>2 DEF SubInv, SubTypes, NoGap, LeftBehind, Intake!Versions
  <2>4. QED
    BY <1>1, <2>1, <2>3 DEF SubInv, Intake!AnnouncedIsSubmitted
<1>4. CASE Intake!VersionFree(v)
  <2>1. /\ applications' = applications \union {row}
        /\ sub' = [sub EXCEPT ![h].at = "event"]
    BY <1>4 DEF Intake!CreateApplication
  <2>2. v = n + 1
    BY <1>2, <1>4 DEF Intake!VersionFree
  <2>3. \A a \in applications : a.id /= h
    BY <1>1 DEF SubInv, LeftBehind
  <2>4. row.id = h /\ row.version = v /\ row \in Submissions
    BY <1>2 DEF Submissions
  <2> HIDE DEF row, n, v
  <2>5. row \notin applications
    BY <2>3, <2>4
  <2>6. IsFiniteSet(applications') /\ Cardinality(applications') = n + 1
    BY <2>1, <2>5, FS_AddElement DEF SubInv, SubTypes, n
  <2>7. /\ sub' \in [Submitters -> [at : SubSteps, version : Nat]]
        /\ sub'[h].at = "event" /\ sub'[h].version = v
        /\ \A k \in Submitters : k /= h => sub'[k] = sub[k]
    BY <2>1 DEF SubInv, SubTypes, SubSteps, v
  <2>8. SubTypes'
    BY <2>1, <2>4, <2>6, <2>7 DEF SubInv, SubTypes
  <2>9. Intake!Versions' = Intake!Versions \union {v}
    BY <2>1, <2>4 DEF Intake!Versions
  <2>10. NoGap'
    <3>1. Intake!Versions' = 1 .. n + 1
      BY <1>2, <2>2, <2>9
    <3>2. \A a, b \in applications' : a.id = b.id => a = b
      BY <2>1, <2>3, <2>4 DEF SubInv, NoGap
    <3>3. ASSUME NEW k \in Submitters, sub'[k].at = "create"
          PROVE  sub'[k].version \in 1 .. (n + 1) + 1
      <4>1. sub'[k].version \in 1 .. n + 1
        BY <2>7, <3>3 DEF SubInv, NoGap, n
      <4>2. QED
        BY <1>2, <4>1
    <3>4. QED
      BY <2>6, <3>1, <3>2, <3>3 DEF NoGap
  <2>11. LeftBehind'
    <3>1. [id |-> h, version |-> v] \in applications'
      BY <2>1 DEF row
    <3>2. ASSUME NEW k \in Submitters, k /= h
          PROVE  sub'[k] = sub[k] /\ \A a \in applications' : a.id = k => a \in applications
      BY <2>1, <2>4, <2>7, <3>2
    <3>3. QED
      BY <1>1, <2>1, <2>7, <3>1, <3>2 DEF SubInv, LeftBehind
  <2>12. QED
    BY <1>1, <2>1, <2>8, <2>10, <2>11 DEF SubInv, Intake!AnnouncedIsSubmitted
<1>5. QED
  BY <1>3, <1>4

(* What follows the row writes of what is there, and takes no version.     *)
LEMMA AfterTheRowKeeps ==
    ASSUME SubInv, NEW h \in Submitters,
           Intake!RecordEvent(h) \/ Intake!AppendAudit(h) \/ Intake!FailSubmission(h)
    PROVE  SubInv'
<1> DEFINE row == [id |-> h, version |-> sub[h].version]
<1>1. /\ applications' = applications
      /\ \E s \in {"audit", "done", "failed"} : sub' = [sub EXCEPT ![h].at = s]
  BY DEF Intake!RecordEvent, Intake!AppendAudit, Intake!FailSubmission
<1>2. /\ sub' \in [Submitters -> [at : SubSteps, version : Nat]]
      /\ sub'[h].at \in {"audit", "done", "failed"} /\ sub'[h].version = sub[h].version
      /\ \A k \in Submitters : k /= h => sub'[k] = sub[k]
  BY <1>1 DEF SubInv, SubTypes, SubSteps
<1>3. SubTypes' /\ NoGap'
  BY <1>1, <1>2 DEF SubInv, SubTypes, NoGap, Intake!Versions
<1>4. CASE Intake!RecordEvent(h)
  <2>1. /\ sub[h].at = "event" /\ events' = events \union {row} /\ audits' = audits
    BY <1>4 DEF Intake!RecordEvent
  <2>2. row \in applications
    BY <2>1 DEF SubInv, LeftBehind
  <2>3. LeftBehind'
    BY <1>1, <1>2, <2>1, <2>2 DEF SubInv, LeftBehind
  <2>4. Intake!AnnouncedIsSubmitted'
    BY <1>1, <2>1, <2>2 DEF SubInv, Intake!AnnouncedIsSubmitted
  <2>5. QED
    BY <1>3, <2>3, <2>4 DEF SubInv
<1>5. CASE Intake!AppendAudit(h)
  <2>1. /\ sub[h].at = "audit" /\ events' = events /\ audits' \subseteq audits \union {row}
        /\ sub' = [sub EXCEPT ![h].at = "done"]
    BY <1>5 DEF Intake!AppendAudit
  <2>2. row \in events /\ sub'[h].at = "done"
    BY <2>1 DEF SubInv, SubTypes, LeftBehind
  <2>3. LeftBehind'
    BY <1>1, <1>2, <2>1, <2>2 DEF SubInv, LeftBehind
  <2>4. Intake!AnnouncedIsSubmitted'
    BY <1>1, <2>1, <2>2 DEF SubInv, Intake!AnnouncedIsSubmitted
  <2>5. QED
    BY <1>3, <2>3, <2>4 DEF SubInv
<1>6. CASE Intake!FailSubmission(h)
  <2>1. events' = events /\ audits' = audits /\ sub' = [sub EXCEPT ![h].at = "failed"]
    BY <1>6 DEF Intake!FailSubmission
  <2>2. sub'[h].at = "failed"
    BY <2>1 DEF SubInv, SubTypes
  <2>3. LeftBehind' /\ Intake!AnnouncedIsSubmitted'
    BY <1>1, <1>2, <2>1, <2>2 DEF SubInv, LeftBehind, Intake!AnnouncedIsSubmitted
  <2>4. QED
    BY <1>3, <2>3 DEF SubInv
<1>7. QED
  BY <1>4, <1>5, <1>6

(* Each step of a submission, and each step of the rest.                   *)
LEMMA SubInvStep ==
    ASSUME SubInv, [Intake!Next]_intakeVars
    PROVE  SubInv'
<1>1. ASSUME NEW h \in Submitters, Intake!Submit(h)
      PROVE  SubInv'
  BY <1>1, ReadLatestKeeps, CreateApplicationKeeps, AfterTheRowKeeps DEF Intake!Submit
<1>2. ASSUME NEW u \in Uploaders, Intake!Upload(u)
      PROVE  UNCHANGED <<applications, events, audits, sub>>
  BY <1>2 DEF Intake!Upload, Intake!Inspect, Intake!Scan, Intake!ProvePrivate, Intake!Put,
              Intake!CreateDocument, Intake!RecordUpload, Intake!FailUpload, Intake!subVars
<1>3. CASE UNCHANGED <<applications, events, audits, sub>>
  BY <1>3 DEF SubInv, SubTypes, NoGap, LeftBehind, Intake!Versions, Intake!AnnouncedIsSubmitted
<1>4. QED
  BY <1>1, <1>2, <1>3 DEF Intake!Next, intakeVars

(* Onboarding counts as FiniteSets does.                                   *)
LEMMA SameCount ==
    ASSUME NEW S
    PROVE  Intake!Cardinality(S) = Cardinality(S)
BY DEF Intake!Cardinality, Cardinality

(* As many ids as applications: no submission has made two.                *)
LEMMA SubInvSuffices ==
    ASSUME SubInv
    PROVE  Intake!SubmissionsAgree
<1> DEFINE ids == {a.id : a \in applications}
           f == [a \in applications |-> a.id]
<1>1. f \in [applications -> ids] /\ \A a \in applications : f[a] = a.id
  OBVIOUS
<1>2. \A i \in ids : \E a \in applications : f[a] = i
  BY <1>1
<1>3. \A a, b \in applications : f[a] = f[b] => a = b
  BY <1>1 DEF SubInv, NoGap
<1> HIDE DEF f, ids
<1>4. f \in Bijection(applications, ids)
  BY <1>1, <1>2, <1>3 DEF Bijection, Injection, Surjection, IsInjective
<1>5. Cardinality(ids) = Cardinality(applications)
  BY <1>4, FS_Bijection DEF SubInv, SubTypes, ExistsBijection
<1>6. Intake!VersionsAreDense
  <2>1. Intake!Versions = 1 .. Cardinality(applications)
    BY DEF SubInv, NoGap
  <2>2. Cardinality({a.id : a \in applications}) = Cardinality(applications)
    BY <1>5 DEF ids
  <2>3. QED
    BY <2>1, <2>2, SameCount DEF Intake!VersionsAreDense
<1>7. QED
  BY <1>6 DEF SubInv, Intake!SubmissionsAgree

(* However submissions race and wherever one fails, the versions of a      *)
(* tenant have no gap and no double, and what is announced or audited is   *)
(* on record (submit-application.use-case.ts,                              *)
(* uq_applications__tenant_version).                                       *)
THEOREM SubmissionsAlwaysAgree == MCSpec => []SubmissionsAgree
<1>1. MCInit => SubInv
  BY SubInit DEF MCInit
<1>2. SubInv /\ [MCNext]_mcvars => SubInv'
  BY IntakeSteps, SubInvStep
<1>3. SubInv => SubmissionsAgree
  BY SubInvSuffices DEF SubmissionsAgree
<1>4. QED
  BY <1>1, <1>2, <1>3, PTL DEF MCSpec

(* Nothing is stored, and nothing is claimed.                              *)
LEMMA UpInit ==
    ASSUME Intake!Init
    PROVE  UpInv
BY DEF Intake!Init, UpInv, UpSteps, Intake!Contents

(* Only a clean scan leads on, and each step needs the one before.         *)
LEMMA UploadKeeps ==
    ASSUME UpInv, NEW u \in Uploaders, Intake!Upload(u)
    PROVE  UpInv'
<1>1. up[u].content \in Intake!Contents /\ up[u].at \in UpSteps
  BY DEF UpInv
<1>2. CASE Intake!Inspect(u)
  <2>1. PICK c \in Intake!Contents :
          up' = [up EXCEPT ![u] = [at |-> IF c = "unaccepted" THEN "refused" ELSE "scan",
                                   content |-> c]]
    BY <1>2 DEF Intake!Inspect
  <2>2. /\ up[u].at = "start" /\ objects' = objects
        /\ documents' = documents /\ docEvents' = docEvents
    BY <1>2 DEF Intake!Inspect
  <2>3. /\ up' \in [Uploaders -> [at : UpSteps, content : Intake!Contents]]
        /\ up'[u].at \in {"refused", "scan"}
        /\ \A o \in Uploaders : o /= u => up'[o] = up[o]
    BY <2>1 DEF UpInv, UpSteps
  <2>4. u \notin objects
    BY <2>2 DEF UpInv
  <2>5. QED
    BY <2>2, <2>3, <2>4 DEF UpInv
<1>3. ASSUME NEW s \in UpSteps, up' = [up EXCEPT ![u].at = s]
      PROVE  /\ up' \in [Uploaders -> [at : UpSteps, content : Intake!Contents]]
             /\ up'[u].at = s /\ up'[u].content = up[u].content
             /\ \A o \in Uploaders : o /= u => up'[o] = up[o]
  BY <1>3 DEF UpInv
<1>4. CASE Intake!Scan(u)
  <2>1. PICK v \in {IF up[u].content = "clean" THEN "CLEAN" ELSE "INFECTED", "UNSCANNED"} :
          up' = [up EXCEPT ![u].at = IF Intake!MayBeServed(v) THEN "privacy" ELSE "refused"]
    BY <1>4 DEF Intake!Scan
  <2>2. Intake!MayBeServed(v) => up[u].content = "clean"
    BY DEF Intake!MayBeServed
  <2>3. PICK s \in {"privacy", "refused"} : /\ up' = [up EXCEPT ![u].at = s]
                                            /\ s = "privacy" => up[u].content = "clean"
    BY <2>1, <2>2
  <2>4. s \in UpSteps
    BY DEF UpSteps
  <2>5. /\ up[u].at = "scan" /\ objects' = objects
        /\ documents' = documents /\ docEvents' = docEvents
    BY <1>4 DEF Intake!Scan
  <2>6. QED
    BY <1>3, <2>3, <2>4, <2>5 DEF UpInv
<1>5. CASE Intake!ProvePrivate(u)
  <2>1. PICK s \in {"put", "refused"} : up' = [up EXCEPT ![u].at = s]
    BY <1>5 DEF Intake!ProvePrivate
  <2>2. s \in UpSteps
    BY DEF UpSteps
  <2>3. /\ up[u].at = "privacy" /\ objects' = objects
        /\ documents' = documents /\ docEvents' = docEvents
    BY <1>5 DEF Intake!ProvePrivate
  <2>4. QED
    BY <1>3, <2>1, <2>2, <2>3 DEF UpInv
<1>6. CASE Intake!Put(u)
  <2>1. PICK stored_ \in BOOLEAN, ok \in BOOLEAN :
          /\ ok => stored_
          /\ objects' = IF stored_ THEN objects \union {u} ELSE objects
          /\ up' = [up EXCEPT ![u].at = IF ok THEN "row" ELSE "refused"]
    BY <1>6 DEF Intake!Put
  <2>2. PICK s \in {"row", "refused"} : /\ up' = [up EXCEPT ![u].at = s]
                                        /\ s = "row" => ok
    BY <2>1
  <2>3. s \in UpSteps
    BY DEF UpSteps
  <2>4. up[u].at = "put" /\ documents' = documents /\ docEvents' = docEvents
    BY <1>6 DEF Intake!Put
  <2>5. /\ objects \subseteq objects' /\ objects' \subseteq objects \union {u}
        /\ s = "row" => u \in objects'
    BY <2>1, <2>2
  <2>6. up[u].content = "clean"
    BY <2>4 DEF UpInv
  <2>7. QED
    BY <1>3, <2>2, <2>3, <2>4, <2>5, <2>6 DEF UpInv
<1>7. CASE Intake!CreateDocument(u)
  <2>1. /\ up[u].at = "row" /\ documents' = documents \union {u}
        /\ up' = [up EXCEPT ![u].at = "event"]
        /\ objects' = objects /\ docEvents' = docEvents
    BY <1>7 DEF Intake!CreateDocument
  <2>2. "event" \in UpSteps
    BY DEF UpSteps
  <2>3. QED
    BY <1>3, <2>1, <2>2 DEF UpInv
<1>8. CASE Intake!RecordUpload(u)
  <2>1. /\ up[u].at = "event" /\ docEvents' = docEvents \union {u}
        /\ up' = [up EXCEPT ![u].at = "done"]
        /\ objects' = objects /\ documents' = documents
    BY <1>8 DEF Intake!RecordUpload
  <2>2. "done" \in UpSteps
    BY DEF UpSteps
  <2>3. QED
    BY <1>3, <2>1, <2>2 DEF UpInv
<1>9. CASE Intake!FailUpload(u)
  <2>1. /\ up' = [up EXCEPT ![u].at = "failed"]
        /\ objects' = objects /\ documents' = documents /\ docEvents' = docEvents
    BY <1>9 DEF Intake!FailUpload
  <2>2. "failed" \in UpSteps
    BY DEF UpSteps
  <2>3. QED
    BY <1>3, <2>1, <2>2 DEF UpInv
<1>10. QED
  BY <1>2, <1>4, <1>5, <1>6, <1>7, <1>8, <1>9 DEF Intake!Upload

(* Each step of an upload, and each step of the rest.                      *)
LEMMA UpInvStep ==
    ASSUME UpInv, [Intake!Next]_intakeVars
    PROVE  UpInv'
<1>1. ASSUME NEW u \in Uploaders, Intake!Upload(u)
      PROVE  UpInv'
  BY <1>1, UploadKeeps
<1>2. ASSUME NEW h \in Submitters, Intake!Submit(h)
      PROVE  UNCHANGED <<objects, documents, docEvents, up>>
  BY <1>2 DEF Intake!Submit, Intake!ReadLatest, Intake!CreateApplication, Intake!RecordEvent,
              Intake!AppendAudit, Intake!FailSubmission, Intake!docVars
<1>3. CASE UNCHANGED <<objects, documents, docEvents, up>>
  BY <1>3 DEF UpInv
<1>4. QED
  BY <1>1, <1>2, <1>3 DEF Intake!Next, intakeVars

(* Wherever an upload ends, nothing is in the enclave that no scan found   *)
(* clean, no row claims an object that is not there, and no event a row    *)
(* (upload-kyc-document.use-case.ts, malware-scan.port.ts).                *)
THEOREM UploadsAlwaysAgree == MCSpec => []UploadsAgree
<1>1. MCInit => UpInv
  BY UpInit DEF MCInit
<1>2. UpInv /\ [MCNext]_mcvars => UpInv'
  BY IntakeSteps, UpInvStep
<1>3. UpInv => UploadsAgree
  BY DEF UpInv, UploadsAgree, Intake!UploadsAgree, Intake!RowHasItsObject, Intake!EnclaveIsScanned
<1>4. QED
  BY <1>1, <1>2, <1>3, PTL DEF MCSpec

-----------------------------------------------------------------------------
(* The lists of the console are filtered and sorted as the others are.     *)
LEMMA OverRanks ==
    /\ \A S : Over!Cardinality(S) = Cardinality(S)
    /\ \A s, I : Over!Picked(s, I) = Picked(s, I)
    /\ \A S, below : Over!Ranked(S, below) = Ranked(S, below)
BY DEF Over!Cardinality, Cardinality, Over!Picked, Picked, Over!Ranked, Ranked, Over!Less, Less

(* A group is drawn in one place if nothing is between two of its own.     *)
Unbroken(items) ==
    \A i, j, k \in DOMAIN items :
        i < j /\ j < k /\ items[i].group = items[k].group => items[j].group = items[i].group

(* What is picked of a list with unbroken groups has unbroken groups.      *)
LEMMA PickedUnbroken ==
    ASSUME NEW S, NEW items \in Seq(S), Unbroken(items), NEW I \in SUBSET (DOMAIN items)
    PROVE  Picked(items, I) \in Seq(S) /\ Unbroken(Picked(items, I))
<1> DEFINE n == Len(items)
           c == Cardinality(I)
           at == Ranked(I, Less(I))
           p == Picked(items, I)
<1>1. n \in Nat /\ DOMAIN items = 1 .. n
  OBVIOUS
<1>2. /\ c \in Nat /\ at \in [1 .. c -> I]
      /\ \A i, j \in 1 .. c : i < j => at[i] < at[j]
  BY <1>1, PickedInOrder
<1>3. p = [i \in 1 .. c |-> items[at[i]]]
  BY DEF Picked
<1> HIDE DEF at, p, c
<1>4. p \in Seq(S) /\ DOMAIN p = 1 .. c
  BY <1>1, <1>2, <1>3
<1>5. ASSUME NEW i \in 1 .. c, NEW j \in 1 .. c, NEW k \in 1 .. c, i < j, j < k,
             p[i].group = p[k].group
      PROVE  p[j].group = p[i].group
  <2>1. at[i] < at[j] /\ at[j] < at[k] /\ at[i] \in DOMAIN items /\ at[j] \in DOMAIN items
        /\ at[k] \in DOMAIN items
    BY <1>2, <1>5
  <2>2. QED
    BY <1>3, <1>5, <2>1 DEF Unbroken
<1>6. QED
  BY <1>4, <1>5 DEF Unbroken, p

(* The first of a group.                                                   *)
LEMMA FirstIsOne ==
    ASSUME NEW S, NEW items \in Seq(S), NEW i \in DOMAIN items
    PROVE  LET f == Over!FirstOfGroup(items, items[i].group)
           IN  f \in DOMAIN items /\ items[f].group = items[i].group /\ f <= i
               /\ \A j \in DOMAIN items : items[j].group = items[i].group => f <= j
<1> DEFINE T == {j \in DOMAIN items : items[j].group = items[i].group}
<1>1. DOMAIN items \subseteq Nat
  OBVIOUS
<1>2. T \in SUBSET Nat /\ i \in T
  BY <1>1
<1> HIDE DEF T
<1>3. \E m \in T : \A k \in T : m <= k
  BY <1>2, LeastOne
<1>4. \E f \in DOMAIN items : items[f].group = items[i].group
          /\ \A j \in DOMAIN items : items[j].group = items[i].group => f <= j
  BY <1>3 DEF T
<1> DEFINE f == Over!FirstOfGroup(items, items[i].group)
<1>5. f \in DOMAIN items /\ items[f].group = items[i].group
      /\ \A j \in DOMAIN items : items[j].group = items[i].group => f <= j
  BY <1>4 DEF Over!FirstOfGroup
<1>6. QED
  BY <1>5

(* Groups that are unbroken are drawn as they come.                        *)
LEMMA DrawnAsTheyCome ==
    ASSUME NEW S, NEW items \in Seq(S), Unbroken(items)
    PROVE  Over!Drawn(items) = items
<1> DEFINE n == Len(items)
           first(i) == Over!FirstOfGroup(items, items[i].group)
           below == [j \in DOMAIN items |->
                       {i \in DOMAIN items : first(i) < first(j) \/ (~(first(j) < first(i)) /\ i < j)}]
           at == Over!Ranked(DOMAIN items, below)
<1>1. n \in Nat /\ DOMAIN items = 1 .. n
  OBVIOUS
<1>2. Over!Drawn(items) = [i \in DOMAIN items |-> items[at[i]]]
  BY DEF Over!Drawn, Over!SortedBy
<1>3. ASSUME NEW i \in 1 .. n
      PROVE  /\ first(i) \in 1 .. n /\ items[first(i)].group = items[i].group /\ first(i) <= i
             /\ \A j \in 1 .. n : items[j].group = items[i].group => first(i) <= j
  BY <1>1, FirstIsOne
<1> HIDE DEF first
<1>4. ASSUME NEW i \in 1 .. n, NEW j \in 1 .. n, i < j
      PROVE  ~(first(j) < first(i))
  <2>1. SUFFICES ASSUME first(j) < first(i)
                 PROVE  FALSE
    OBVIOUS
  <2>2. /\ first(i) \in 1 .. n /\ first(i) <= i /\ items[first(i)].group = items[i].group
        /\ first(j) \in 1 .. n /\ items[first(j)].group = items[j].group
    BY <1>3
  <2>3. first(j) < i
    BY <2>1, <2>2
  <2>4. items[i].group = items[j].group
    BY <1>1, <1>4, <2>2, <2>3 DEF Unbroken
  <2>5. first(i) <= first(j)
    BY <1>3, <2>2, <2>4
  <2>6. QED
    BY <2>1, <2>2, <2>5
<1>5. ASSUME NEW i \in 1 .. n, NEW j \in 1 .. n
      PROVE  (first(i) < first(j) \/ (~(first(j) < first(i)) /\ i < j)) <=> i < j
  <2>1. CASE i < j
    BY <1>4, <2>1
  <2>2. CASE j < i
    <3>1. ~(first(i) < first(j))
      BY <1>4, <2>2
    <3>2. QED
      BY <2>2, <3>1
  <2>3. CASE i = j
    <3>1. first(i) \in Int
      BY <1>3
    <3>2. QED
      BY <2>3, <3>1
  <2>4. QED
    BY <2>1, <2>2, <2>3
<1>6. below = Less(1 .. n)
  BY <1>1, <1>5 DEF Less
<1>7. \A i \in 1 .. n : at[i] = i
  <2>1. 1 \in Nat /\ 1 <= n + 1 /\ n - 1 + 1 = n /\ \A i \in 1 .. n : 1 + i - 1 = i
    BY <1>1
  <2>2. \A i \in 1 .. n - 1 + 1 : Ranked(1 .. n, Less(1 .. n))[i] = 1 + i - 1
    BY <1>1, <2>1, NumbersInOrder
  <2> HIDE DEF below
  <2>3. QED
    BY <1>1, <1>6, <2>1, <2>2, OverRanks
<1> HIDE DEF at
<1>8. [i \in DOMAIN items |-> items[at[i]]] = items
  BY <1>1, <1>7
<1>9. QED
  BY <1>2, <1>8

(* Nothing typed breaks a group up.                                        *)
LEMMA MatchesUnbroken ==
    ASSUME NEW query
    PROVE  /\ Over!MatchesOf(query) \in Seq({Commands[i] : i \in DOMAIN Commands})
           /\ Unbroken(Over!MatchesOf(query))
<1> DEFINE S == {Commands[i] : i \in DOMAIN Commands}
           enabled == Over!Enabled
           able == {i \in DOMAIN Commands : ~Commands[i].disabled}
           found == {i \in DOMAIN enabled : query \subseteq enabled[i].words}
<1>1. DOMAIN Commands = 1 .. 4 /\ Commands \in Seq(S)
  <2>1. DOMAIN Commands = 1 .. 4 /\ Len(Commands) = 4
    BY DEF Commands
  <2>2. Commands = [i \in 1 .. 4 |-> Commands[i]]
    BY DEF Commands
  <2>3. QED
    BY <2>1, <2>2
<1>2. Unbroken(Commands)
  <2>1. /\ Commands[1].group = "go" /\ Commands[2].group = "go"
        /\ Commands[3].group = "go" /\ Commands[4].group = "act"
    BY DEF Commands
  <2>2. \A i \in 1 .. 4 : Commands[i].group = IF i <= 3 THEN "go" ELSE "act"
    BY <2>1
  <2>3. QED
    BY <1>1, <2>2 DEF Unbroken
<1>3. enabled = Picked(Commands, able) /\ able \in SUBSET (DOMAIN Commands)
  BY OverRanks DEF Over!Enabled, Over!Filtered
<1>4. Over!MatchesOf(query) = Picked(enabled, found)
  BY OverRanks DEF Over!MatchesOf, Over!Filtered
<1> HIDE DEF S, enabled, able
<1>5. enabled \in Seq(S) /\ Unbroken(enabled)
  BY <1>1, <1>2, <1>3, PickedUnbroken
<1>6. found \in SUBSET (DOMAIN enabled)
  OBVIOUS
<1> HIDE DEF found
<1>7. QED
  BY <1>4, <1>5, <1>6, PickedUnbroken DEF S

-----------------------------------------------------------------------------
(* What opens over a screen. *)
PageTyped(el) == el.layer = "page" => el = Over!OnPage(el.name)
BackAgain(el) == el = story.origin \/ story.excused

(* What the focus is in, or comes back to when the palette closes, brings  *)
(* the reader back, or is in what is open.                                 *)
Minds(el) ==
    /\ ~Over!MenuOpen /\ ~Over!DialogOpen => BackAgain(el)
    /\ Over!MenuOpen => el.layer = "menu" \/ story.escaped
    /\ Over!DialogOpen => el.layer = "dialog" \/ story.escaped

OverTypes ==
    /\ shownRows \subseteq Gyms
    /\ PageTyped(focus) /\ PageTyped(pending.back) /\ PageTyped(palette.back)
    /\ PageTyped(story.origin)
    /\ palette = [open |-> palette.open, back |-> palette.back, query |-> palette.query,
                  active |-> palette.active]
    /\ palette.open \in BOOLEAN
    /\ story = [origin |-> story.origin, excused |-> story.excused, escaped |-> story.escaped]
    /\ story.excused \in BOOLEAN /\ story.escaped \in BOOLEAN

InTheList ==
    palette.active \in 0 .. IF Over!Matches = <<>> THEN 0 ELSE Len(Over!Matches) - 1

OverInv ==
    /\ OverTypes /\ InTheList
    /\ story.excused \/ Over!There(story.origin, shownRows, FALSE, FALSE)
    /\ Over!MenuOpen => /\ menu.open \in shownRows /\ menu.back = Over!Trigger(menu.open)
                        /\ BackAgain(menu.back) /\ ~Over!DialogOpen
    /\ Over!DialogOpen => BackAgain(pending.back)
    /\ IF palette.open THEN focus.layer = "palette" /\ Minds(palette.back) ELSE Minds(focus)

(* The elements there are.                                                 *)
LEMMA Elements ==
    /\ \A l, s : Over!El(l, s).layer = l /\ Over!El(l, s).stop = s
    /\ \A n : Over!OnPage(n).layer = "page" /\ Over!OnPage(n).name = n /\ PageTyped(Over!OnPage(n))
    /\ \A l, s : l /= "page" => PageTyped(Over!El(l, s))
    /\ Over!Body.layer = "body" /\ PageTyped(Over!Body)
    /\ Over!Main = Over!OnPage("main") /\ Over!Header = Over!OnPage("header")
    /\ \A r : Over!Trigger(r) = Over!OnPage(r)
    /\ Over!Closed.open = "none" /\ Over!Closed.back = Over!Body /\ Over!None = "none"
BY DEF Over!El, Over!OnPage, PageTyped, Over!Body, Over!Main, Over!Header, Over!Trigger,
       Over!Closed, Over!None

(* What is there gets the focus.                                           *)
LEMMA FocusGiven ==
    ASSUME NEW el, NEW rs, NEW m \in BOOLEAN, NEW d \in BOOLEAN
    PROVE  /\ Over!There(el, rs, m, d) => Over!Restored(el, rs, m, d) = el
           /\ ~Over!There(el, rs, m, d) => Over!Restored(el, rs, m, d) = Over!Body
           /\ el.layer = "page" =>
                 (Over!There(el, rs, m, d) <=> el \in {Over!Header, Over!Main} \/ el.name \in rs)
           /\ el.layer = "menu" => (Over!There(el, rs, m, d) <=> m)
           /\ el.layer = "dialog" => (Over!There(el, rs, m, d) <=> d)
           /\ el.layer \notin {"page", "menu", "dialog"} => ~Over!There(el, rs, m, d)
           /\ Over!There(el, rs, FALSE, FALSE) => el.layer = "page" /\ Over!There(el, rs, m, d)
BY DEF Over!There, Over!Restored

(* The focus goes back to the row it came from.                            *)
LEMMA RowsGetItBack ==
    ASSUME NEW r \in shownRows
    PROVE  /\ Over!Restored(Over!Trigger(r), shownRows, FALSE, FALSE) = Over!Trigger(r)
           /\ PageTyped(Over!Trigger(r))
<1>1. Over!Trigger(r) = Over!OnPage(r) /\ PageTyped(Over!OnPage(r))
  BY Elements
<1>2. Over!There(Over!OnPage(r), shownRows, FALSE, FALSE)
  BY Elements DEF Over!There
<1>3. QED
  BY <1>1, <1>2 DEF Over!Restored

(* Nothing is open, and the focus is on the page.                          *)
LEMMA OverAtFirst == ASSUME Over!Init PROVE OverInv
<1>1. /\ shownRows = Gyms /\ focus = Over!Main /\ menu = Over!Closed /\ pending = Over!Closed
      /\ palette = [open |-> FALSE, back |-> Over!Body, query |-> {}, active |-> 0]
      /\ story = [origin |-> Over!Main, excused |-> FALSE, escaped |-> FALSE]
  BY DEF Over!Init
<1>2. OverTypes
  BY <1>1, Elements DEF OverTypes
<1>3. InTheList
  <2>1. Over!Matches \in Seq({Commands[i] : i \in DOMAIN Commands})
    BY MatchesUnbroken DEF Over!Matches
  <2>2. Len(Over!Matches) \in Nat /\ (Over!Matches /= <<>> => Len(Over!Matches) > 0)
    BY <2>1, EmptySeq
  <2>3. palette.active = 0
    BY <1>1
  <2>4. QED
    BY <2>2, <2>3 DEF InTheList
<1>4. ~Over!MenuOpen /\ ~Over!DialogOpen
  BY <1>1, Elements DEF Over!MenuOpen, Over!DialogOpen
<1>5. Over!There(story.origin, shownRows, FALSE, FALSE)
  BY <1>1, Elements, FocusGiven
<1>6. QED
  BY <1>1, <1>2, <1>3, <1>4, <1>5 DEF OverInv, Minds, BackAgain

overState == <<shownRows, focus, menu, pending, palette, story>>

(* The list found stays while the words do.                                *)
LEMMA SameWordsSameList ==
    ASSUME InTheList, palette'.query = palette.query, palette'.active = palette.active
    PROVE  InTheList'
BY DEF InTheList, Over!Matches

(* The focus moves, or escapes.                                            *)
LEMMA MovingKeeps ==
    ASSUME OverInv, NEW el \in {Over!Header, Over!Main} \union {Over!Trigger(r) : r \in Gyms},
           Over!MoveOnPage(el)
    PROVE  OverInv'
<1>1. /\ ~palette.open /\ ~Over!MenuOpen /\ ~Over!DialogOpen
      /\ Over!There(el, shownRows, FALSE, FALSE) /\ focus' = el
      /\ story' = [story EXCEPT !.origin = el, !.excused = FALSE, !.escaped = FALSE]
      /\ UNCHANGED <<shownRows, menu, pending, palette>>
  BY DEF Over!MoveOnPage, Over!NothingOpen, Over!ReaderAt, Over!Rest, Over!Overlays
<1>2. story' = [origin |-> el, excused |-> FALSE, escaped |-> FALSE]
  BY <1>1 DEF OverInv, OverTypes
<1>3. PageTyped(el)
  BY Elements
<1>4. OverTypes' /\ InTheList'
  <2>1. OverTypes'
    BY <1>1, <1>2, <1>3 DEF OverInv, OverTypes, PageTyped
  <2>2. InTheList'
    BY <1>1, SameWordsSameList DEF OverInv
  <2>3. QED
    BY <2>1, <2>2
<1>5. Over!There(story.origin, shownRows, FALSE, FALSE)'
  BY <1>1, <1>2
<1>6. ~Over!MenuOpen' /\ ~Over!DialogOpen' /\ BackAgain(focus)'
  BY <1>1, <1>2 DEF Over!MenuOpen, Over!DialogOpen, BackAgain
<1>7. QED
  BY <1>1, <1>4, <1>5, <1>6 DEF OverInv, Minds

(* A menu opens, runs or closes.                                           *)
LEMMA MenusKeep ==
    ASSUME OverInv, Over!OpenMenu \/ Over!CloseMenu \/ Over!SelectSuspend
    PROVE  OverInv'
<1> USE DEF Over!MenuOpen, Over!DialogOpen
<1>1. CASE Over!OpenMenu
  <2>1. /\ ~palette.open /\ ~Over!MenuOpen /\ ~Over!DialogOpen
        /\ focus.layer = "page" /\ focus.name \in shownRows
        /\ menu' = [open |-> focus.name, back |-> focus]
        /\ focus' = Over!FirstOf("menu", focus.name)
        /\ UNCHANGED <<shownRows, pending, palette, story>>
    BY <1>1 DEF Over!OpenMenu, Over!NothingOpen, Over!Rest
  <2>2. focus'.layer = "menu" /\ PageTyped(focus)'
    BY <2>1, Elements DEF Over!FirstOf, PageTyped
  <2>3. focus = Over!Trigger(focus.name) /\ BackAgain(focus)
    BY <2>1, Elements DEF OverInv, OverTypes, PageTyped, Minds
  <2>4. OverTypes'
    BY <2>1, <2>2 DEF OverInv, OverTypes, PageTyped
  <2>5. InTheList'
    BY <2>1, SameWordsSameList DEF OverInv
  <2>6. /\ menu'.open = focus.name /\ menu'.back = focus /\ menu'.open /= Over!None
        /\ BackAgain(menu.back)' /\ pending'.open = Over!None
    BY <2>1, <2>3, Elements, NamesAssumption DEF OverInv, OverTypes, BackAgain
  <2>7. QED
    BY <2>1, <2>2, <2>3, <2>4, <2>5, <2>6 DEF OverInv, Minds
<1>2. CASE Over!CloseMenu
  <2>1. /\ ~palette.open /\ Over!MenuOpen /\ ~Over!DialogOpen
        /\ menu' = Over!Closed /\ focus' = Over!Restored(menu.back, shownRows, FALSE, FALSE)
        /\ UNCHANGED <<shownRows, pending, palette, story>>
    BY <1>2 DEF Over!CloseMenu, Over!Top, Over!Rest
  <2>2. menu.open \in shownRows /\ menu.back = Over!Trigger(menu.open) /\ BackAgain(menu.back)
    BY <2>1 DEF OverInv
  <2>3. focus' = menu.back /\ PageTyped(menu.back)
    BY <2>1, <2>2, RowsGetItBack
  <2>4. OverTypes'
    BY <2>1, <2>3 DEF OverInv, OverTypes, PageTyped
  <2>5. InTheList'
    BY <2>1, SameWordsSameList DEF OverInv
  <2>6. menu'.open = Over!None /\ pending'.open = Over!None /\ BackAgain(focus)'
    BY <2>1, <2>2, <2>3, Elements DEF BackAgain
  <2>7. QED
    BY <2>1, <2>4, <2>5, <2>6 DEF OverInv, Minds
<1>3. CASE Over!SelectSuspend
  <2>1. /\ ~palette.open /\ Over!MenuOpen /\ ~Over!DialogOpen
        /\ menu' = Over!Closed
        /\ pending' = [open |-> menu.open, back |-> Over!Restored(menu.back, shownRows, FALSE, FALSE)]
        /\ focus' = Over!FirstOf("dialog", menu.open)
        /\ UNCHANGED <<shownRows, palette, story>>
    BY <1>3 DEF Over!SelectSuspend, Over!Top, Over!Rest
  <2>2. menu.open \in shownRows /\ menu.back = Over!Trigger(menu.open) /\ BackAgain(menu.back)
    BY <2>1 DEF OverInv
  <2>3. /\ pending'.back = menu.back /\ PageTyped(menu.back) /\ focus'.layer = "dialog"
        /\ PageTyped(focus)'
    <3>1. pending'.back = menu.back /\ PageTyped(menu.back)
      BY <2>1, <2>2, RowsGetItBack
    <3>2. focus'.layer = "dialog" /\ PageTyped(focus)'
      BY <2>1, Elements DEF Over!FirstOf, PageTyped
    <3>3. QED
      BY <3>1, <3>2
  <2>4. OverTypes'
    BY <2>1, <2>3 DEF OverInv, OverTypes, PageTyped
  <2>5. InTheList'
    BY <2>1, SameWordsSameList DEF OverInv
  <2>6. menu'.open = Over!None /\ BackAgain(pending.back)'
    BY <2>1, <2>2, <2>3, Elements DEF BackAgain
  <2>7. QED
    BY <2>1, <2>3, <2>4, <2>5, <2>6 DEF OverInv, Minds
<1>4. QED
  BY <1>1, <1>2, <1>3

(* A dialog opens or closes.                                               *)
LEMMA DialogsKeep ==
    ASSUME OverInv, Over!CloseDialog \/ Over!ClickInside \/ Over!TabKey \/ Over!ShiftTab
    PROVE  OverInv'
<1> USE DEF Over!MenuOpen, Over!DialogOpen
<1>1. CASE Over!CloseDialog
  <2>1. /\ ~palette.open /\ Over!DialogOpen /\ ~Over!MenuOpen
        /\ pending' = Over!Closed /\ focus' = Over!Restored(pending.back, shownRows, FALSE, FALSE)
        /\ UNCHANGED <<shownRows, menu, palette, story>>
    BY <1>1 DEF Over!CloseDialog, Over!Top, Over!Rest, OverInv
  <2>2. BackAgain(pending.back)
    BY <2>1 DEF OverInv
  <2>3. BackAgain(focus)' /\ PageTyped(focus)'
    <3>1. CASE Over!There(pending.back, shownRows, FALSE, FALSE)
      BY <2>1, <2>2, <3>1, FocusGiven DEF BackAgain, OverInv, OverTypes, PageTyped
    <3>2. CASE ~Over!There(pending.back, shownRows, FALSE, FALSE)
      <4>1. focus' = Over!Body
        BY <2>1, <3>2, FocusGiven
      <4>2. story.excused
        BY <2>2, <3>2 DEF OverInv, BackAgain
      <4>3. QED
        BY <2>1, <4>1, <4>2, Elements DEF BackAgain, PageTyped
    <3>3. QED
      BY <3>1, <3>2
  <2>4. OverTypes'
    BY <2>1, <2>3, Elements DEF OverInv, OverTypes, PageTyped
  <2>5. InTheList'
    BY <2>1, SameWordsSameList DEF OverInv
  <2>6. menu'.open = Over!None /\ pending'.open = Over!None
    BY <2>1, Elements
  <2>7. QED
    BY <2>1, <2>3, <2>4, <2>5, <2>6 DEF OverInv, Minds
<1>2. CASE Over!ClickInside \/ Over!TabKey \/ Over!ShiftTab
  <2>1. /\ Over!Top \in {"menu", "dialog"}
        /\ UNCHANGED <<shownRows, menu, pending, palette>>
    BY <1>2 DEF Over!ClickInside, Over!TabKey, Over!ShiftTab, Over!Rest, Over!Overlays
  <2>2. /\ ~palette.open /\ (Over!MenuOpen \/ Over!DialogOpen)
        /\ (Over!DialogOpen => Over!Top = "dialog") /\ (Over!MenuOpen => Over!Top = "menu")
    BY <2>1 DEF Over!Top, OverInv
  <2>3. \E b \in BOOLEAN : story' = [story EXCEPT !.escaped = b]
                             /\ (focus'.layer = Over!Top \/ b) /\ PageTyped(focus)'
    <3>1. CASE Over!ClickInside
      BY <2>1, <3>1, Elements DEF Over!ClickInside, PageTyped
    <3>2. CASE Over!TabKey
      <4> DEFINE b == Over!Stops = 0
      <4>1. b \in BOOLEAN /\ story' = [story EXCEPT !.escaped = b]
        BY <3>2 DEF Over!TabKey
      <4>2. (focus'.layer = Over!Top \/ b) /\ PageTyped(focus)'
        BY <2>1, <3>2, Elements DEF Over!TabKey, PageTyped
      <4>3. QED
        BY <4>1, <4>2
    <3>3. CASE Over!ShiftTab
      <4> DEFINE b == focus'.layer /= Over!Top
      <4>1. b \in BOOLEAN /\ story' = [story EXCEPT !.escaped = b]
        BY <3>3 DEF Over!ShiftTab
      <4>2. PageTyped(focus)'
        BY <2>1, <3>3, Elements DEF Over!ShiftTab, PageTyped
      <4>3. QED
        BY <4>1, <4>2
    <3>4. QED
      BY <1>2, <3>1, <3>2, <3>3
  <2>4. PICK b \in BOOLEAN : story' = [story EXCEPT !.escaped = b]
                             /\ (focus'.layer = Over!Top \/ b) /\ PageTyped(focus)'
    BY <2>3
  <2>5. /\ story' = [origin |-> story.origin, excused |-> story.excused, escaped |-> b]
    BY <2>4 DEF OverInv, OverTypes
  <2>6. OverTypes'
    BY <2>1, <2>4, <2>5 DEF OverInv, OverTypes, PageTyped
  <2>7. InTheList'
    BY <2>1, SameWordsSameList DEF OverInv
  <2>8. Minds(focus)'
    BY <2>1, <2>2, <2>4, <2>5 DEF Minds
  <2>9. QED
    BY <2>1, <2>2, <2>5, <2>6, <2>7, <2>8 DEF OverInv, BackAgain
<1>3. QED
  BY <1>1, <1>2

(* The palette opens or closes.                                            *)
LEMMA PaletteKeeps ==
    ASSUME OverInv, Over!OpenPalette \/ (palette.open /\ Over!Dismissed)
    PROVE  OverInv'
<1> USE DEF Over!MenuOpen, Over!DialogOpen
<1>1. CASE Over!OpenPalette
  <2>1. /\ ~palette.open /\ focus' = Over!El("palette", 1)
        /\ palette' = [open |-> TRUE, back |-> focus, query |-> {}, active |-> 0]
        /\ UNCHANGED <<shownRows, menu, pending, story>>
    BY <1>1 DEF Over!OpenPalette, Over!Rest
  <2>2. Minds(focus)
    BY <2>1 DEF OverInv
  <2>3. OverTypes'
    BY <2>1, Elements DEF OverInv, OverTypes, PageTyped
  <2>4. InTheList'
    <3> DEFINE found == Over!MatchesOf({})
    <3>1. found \in Seq({Commands[i] : i \in DOMAIN Commands})
      BY MatchesUnbroken
    <3>2. Len(found) \in Nat /\ (found /= <<>> => Len(found) > 0)
      BY <3>1, EmptySeq
    <3>3. Over!Matches' = found /\ palette'.active = 0
      BY <2>1 DEF Over!Matches
    <3> HIDE DEF found
    <3>4. QED
      BY <3>2, <3>3 DEF InTheList
  <2>5. Minds(palette.back)'
    BY <2>1, <2>2 DEF Minds, BackAgain
  <2>6. QED
    BY <2>1, <2>3, <2>4, <2>5, Elements DEF OverInv, BackAgain
<1>2. CASE palette.open /\ Over!Dismissed
  <2> DEFINE m == menu.open /= Over!None
             d == pending.open /= Over!None
             back == palette.back
  <2>1. /\ palette' = [palette EXCEPT !.open = FALSE]
        /\ focus' = Over!Restored(back, shownRows, m, d)
        /\ UNCHANGED <<shownRows, menu, pending, story>>
    BY <1>2 DEF Over!Dismissed
  <2>2. /\ Minds(back) /\ PageTyped(back) /\ m \in BOOLEAN /\ d \in BOOLEAN /\ ~(m /\ d)
        /\ (story.excused \/ Over!There(story.origin, shownRows, FALSE, FALSE))
    BY <1>2 DEF OverInv, OverTypes
  <2>3. PageTyped(focus)'
    <3>1. focus' = back \/ focus' = Over!Body
      BY <2>1 DEF Over!Restored
    <3>2. PageTyped(Over!Body)
      BY Elements
    <3>3. QED
      BY <2>2, <3>1, <3>2 DEF PageTyped
  <2>4. palette' = [open |-> FALSE, back |-> palette.back, query |-> palette.query,
                    active |-> palette.active]
    BY <2>1 DEF OverInv, OverTypes
  <2>5. OverTypes'
    BY <2>1, <2>3, <2>4 DEF OverInv, OverTypes, PageTyped
  <2>6. InTheList'
    BY <2>4, SameWordsSameList DEF OverInv
  <2>7. Minds(focus)'
    <3>1. CASE ~m /\ ~d
      <4>1. back = story.origin \/ story.excused
        BY <2>2, <3>1 DEF Minds, BackAgain
      <4>2. story.excused \/ focus' = story.origin
        <5>1. Over!There(story.origin, shownRows, FALSE, FALSE) =>
                Over!There(story.origin, shownRows, m, d)
          BY <2>2, FocusGiven
        <5>2. QED
          BY <2>1, <2>2, <4>1, <5>1 DEF Over!Restored
      <4>3. QED
        BY <2>1, <3>1, <4>2 DEF Minds, BackAgain
    <3>2. CASE m
      <4>1. back.layer = "menu" \/ story.escaped
        BY <2>2, <3>2 DEF Minds
      <4>2. back.layer = "menu" => Over!There(back, shownRows, m, d)
        BY <3>2 DEF Over!There
      <4>3. back.layer = "menu" => focus' = back
        BY <2>1, <4>2 DEF Over!Restored
      <4>4. QED
        BY <2>1, <2>2, <3>2, <4>1, <4>3 DEF Minds
    <3>3. CASE d
      <4>1. back.layer = "dialog" \/ story.escaped
        BY <2>2, <3>3 DEF Minds
      <4>2. back.layer = "dialog" => Over!There(back, shownRows, m, d)
        BY <3>3 DEF Over!There
      <4>3. back.layer = "dialog" => focus' = back
        BY <2>1, <4>2 DEF Over!Restored
      <4>4. QED
        BY <2>1, <2>2, <3>3, <4>1, <4>3 DEF Minds
    <3>4. QED
      BY <3>1, <3>2, <3>3
  <2>8. QED
    BY <2>1, <2>4, <2>5, <2>6, <2>7 DEF OverInv, BackAgain
<1>3. QED
  BY <1>1, <1>2

(* What is typed and pointed at moves nothing but the highlight.           *)
LEMMA TypingKeeps ==
    ASSUME OverInv,
           \/ \E query \in SUBSET {"gyms", "queue", "nothing"} : Over!Type(query)
           \/ \E step \in {1, -1} : Over!Arrow(step)
           \/ \E index \in 0 .. Len(Commands) : Over!Hover(index)
    PROVE  OverInv'
<1> DEFINE L(query) == Len(Over!MatchesOf(query))
<1>1. ASSUME NEW query
      PROVE  L(query) \in Nat /\ (Over!MatchesOf(query) = <<>> <=> L(query) = 0)
  <2>1. Over!MatchesOf(query) \in Seq({Commands[i] : i \in DOMAIN Commands})
    BY MatchesUnbroken
  <2>2. QED
    BY <2>1, EmptySeq
<1> HIDE DEF L
<1>2. /\ \A query : Len(Over!MatchesOf(query)) = L(query)
      /\ Over!Matches = Over!MatchesOf(palette.query)
      /\ Over!Matches' = Over!MatchesOf(palette'.query)
  BY DEF L, Over!Matches
<1>3. palette.active \in 0 .. IF L(palette.query) = 0 THEN 0 ELSE L(palette.query) - 1
  BY <1>1, <1>2 DEF OverInv, InTheList
<1>4. SUFFICES ASSUME /\ palette.open /\ palette'.open = palette.open /\ palette'.back = palette.back
                      /\ palette' = [open |-> palette'.open, back |-> palette'.back,
                                     query |-> palette'.query, active |-> palette'.active]
                      /\ palette'.active \in 0 .. IF L(palette'.query) = 0 THEN 0 ELSE L(palette'.query) - 1
                      /\ UNCHANGED <<shownRows, focus, menu, pending, story>>
               PROVE  OverInv'
  <2> DEFINE p == [open |-> palette.open, back |-> palette.back, query |-> palette.query,
                   active |-> palette.active]
  <2>0. palette = p
    BY DEF OverInv, OverTypes
  <2>1. CASE \E query \in SUBSET {"gyms", "queue", "nothing"} : Over!Type(query)
    <3>1. PICK query \in SUBSET {"gyms", "queue", "nothing"} : Over!Type(query)
      BY <2>1
    <3> DEFINE active == IF palette.active < L(query) THEN palette.active
                         ELSE IF Over!MatchesOf(query) = <<>> THEN 0 ELSE L(query) - 1
    <3>2. /\ palette.open /\ UNCHANGED <<shownRows, focus, menu, pending, story>>
          /\ palette' = [palette EXCEPT !.query = query, !.active = active]
      BY <3>1 DEF Over!Type, Over!Rest, L
    <3>3. active \in 0 .. IF L(query) = 0 THEN 0 ELSE L(query) - 1
      BY <1>1, <1>3
    <3> HIDE DEF active
    <3>4. palette' = [open |-> palette.open, back |-> palette.back, query |-> query, active |-> active]
      BY <2>0, <3>2
    <3>5. QED
      BY <1>4, <3>2, <3>3, <3>4
  <2>2. CASE \E step \in {1, -1} : Over!Arrow(step)
    <3>1. PICK step \in {1, -1} : Over!Arrow(step)
      BY <2>2
    <3> DEFINE l == L(palette.query)
               active == IF l = 0 THEN 0 ELSE (palette.active + step + l) % l
    <3>2. /\ palette.open /\ UNCHANGED <<shownRows, focus, menu, pending, story>>
          /\ palette' = [palette EXCEPT !.active = active]
      BY <1>1, <1>2, <3>1 DEF Over!Arrow, Over!Rest
    <3>3. active \in 0 .. IF l = 0 THEN 0 ELSE l - 1
      <4>1. l \in Nat
        BY <1>1
      <4>2. l /= 0 => palette.active + step + l \in Int
        BY <1>3, <4>1
      <4> HIDE DEF l
      <4>3. QED
        BY <4>1, <4>2
    <3> HIDE DEF active
    <3>4. palette' = [open |-> palette.open, back |-> palette.back, query |-> palette.query,
                      active |-> active]
      BY <2>0, <3>2
    <3>5. QED
      BY <1>4, <3>2, <3>3, <3>4
  <2>3. CASE \E index \in 0 .. Len(Commands) : Over!Hover(index)
    <3>1. PICK index \in 0 .. Len(Commands) : Over!Hover(index)
      BY <2>3
    <3>2. /\ palette.open /\ UNCHANGED <<shownRows, focus, menu, pending, story>>
          /\ palette' = [palette EXCEPT !.active = index] /\ index \in 0 .. L(palette.query) - 1
      BY <1>2, <3>1 DEF Over!Hover, Over!Rest
    <3>3. index \in 0 .. IF L(palette.query) = 0 THEN 0 ELSE L(palette.query) - 1
      BY <1>1, <3>2
    <3>4. palette' = [open |-> palette.open, back |-> palette.back, query |-> palette.query,
                      active |-> index]
      BY <2>0, <3>2
    <3>5. QED
      BY <1>4, <3>2, <3>3, <3>4
  <2>4. QED
    BY <2>1, <2>2, <2>3
<1>5. InTheList'
  BY <1>1, <1>2, <1>4 DEF InTheList
<1>6. OverTypes'
  BY <1>4 DEF OverInv, OverTypes, PageTyped
<1>7. QED
  BY <1>4, <1>5, <1>6 DEF OverInv, Minds, BackAgain, Over!MenuOpen, Over!DialogOpen

(* Another screen comes, or a row goes.                                    *)
LEMMA GoingKeeps ==
    ASSUME OverInv, Over!RouteChanges \/ \E r \in Gyms : Over!RowGoes(r)
    PROVE  OverInv'
<1> USE DEF Over!MenuOpen, Over!DialogOpen
<1>1. CASE Over!RouteChanges
  <2>1. /\ shownRows' \subseteq Gyms /\ menu' = Over!Closed /\ pending' = Over!Closed
        /\ focus' = IF focus = Over!Header \/ focus.layer = "palette" THEN focus ELSE Over!Body
        /\ story' = [story EXCEPT !.excused = TRUE]
        /\ palette' = [palette EXCEPT !.back = IF palette.back = Over!Header THEN Over!Header
                                               ELSE Over!Body]
    BY <1>1 DEF Over!RouteChanges
  <2>2. story' = [origin |-> story.origin, excused |-> TRUE, escaped |-> story.escaped]
    BY <2>1 DEF OverInv, OverTypes
  <2>3. \E back \in {Over!Header, Over!Body} :
          palette' = [open |-> palette.open, back |-> back, query |-> palette.query,
                      active |-> palette.active]
    BY <2>1 DEF OverInv, OverTypes
  <2>4. PageTyped(focus)' /\ PageTyped(palette.back)' /\ PageTyped(pending.back)'
    <3>1. PageTyped(Over!Body) /\ PageTyped(Over!Header)
      BY Elements
    <3>2. PageTyped(focus)'
      BY <2>1, <3>1 DEF OverInv, OverTypes, PageTyped
    <3>3. PageTyped(palette.back)'
      BY <2>3, <3>1 DEF PageTyped
    <3>4. PageTyped(pending.back)'
      BY <2>1, <3>1, Elements DEF PageTyped
    <3>5. QED
      BY <3>2, <3>3, <3>4
  <2>5. OverTypes'
    BY <2>1, <2>2, <2>3, <2>4 DEF OverInv, OverTypes
  <2>6. InTheList'
    BY <2>3, SameWordsSameList DEF OverInv
  <2>7. menu'.open = Over!None /\ pending'.open = Over!None
    BY <2>1, Elements
  <2>8. palette.open => focus'.layer = "palette"
    BY <2>1 DEF OverInv
  <2>9. palette'.open = palette.open /\ story'.excused
    BY <2>2, <2>3
  <2>10. QED
    BY <2>5, <2>6, <2>7, <2>8, <2>9 DEF OverInv, Minds, BackAgain
<1>2. ASSUME NEW r \in Gyms, Over!RowGoes(r)
      PROVE  OverInv'
  <2>1. /\ r \in shownRows /\ shownRows' = shownRows \ {r}
        /\ menu' = IF menu.open = r THEN Over!Closed ELSE menu
        /\ focus' = IF focus = Over!Trigger(r) \/ (menu.open = r /\ focus.layer = "menu")
                    THEN Over!Body ELSE focus
        /\ story' = [story EXCEPT !.excused = story.excused \/ story.origin = Over!Trigger(r)]
        /\ UNCHANGED <<pending, palette>>
    BY <1>2 DEF Over!RowGoes
  <2> DEFINE gone == story.excused \/ story.origin = Over!Trigger(r)
  <2>2. story' = [origin |-> story.origin, excused |-> gone, escaped |-> story.escaped]
    BY <2>1 DEF OverInv, OverTypes
  <2>3. PageTyped(focus)'
    <3>1. PageTyped(Over!Body)
      BY Elements
    <3>2. QED
      BY <2>1, <3>1 DEF OverInv, OverTypes, PageTyped
  <2>4. OverTypes'
    BY <2>1, <2>2, <2>3 DEF OverInv, OverTypes, PageTyped
  <2>5. InTheList'
    BY <2>1, SameWordsSameList DEF OverInv
  <2>6. story'.excused \/ Over!There(story.origin, shownRows, FALSE, FALSE)'
    <3>1. CASE gone
      BY <2>2, <3>1
    <3>2. CASE ~gone
      <4>1. Over!There(story.origin, shownRows, FALSE, FALSE)
        BY <3>2 DEF OverInv
      <4>2. story.origin.layer = "page" /\ (\/ story.origin \in {Over!Header, Over!Main}
                                            \/ story.origin.name \in shownRows)
        BY <4>1 DEF Over!There
      <4>3. PageTyped(story.origin)
        BY DEF OverInv, OverTypes
      <4>4. story.origin.name /= r \/ story.origin \in {Over!Header, Over!Main}
        BY <3>2, <4>2, <4>3, Elements DEF PageTyped
      <4>5. story'.origin = story.origin
        BY <2>2
      <4>6. QED
        BY <2>1, <4>2, <4>4, <4>5 DEF Over!There
    <3>3. QED
      BY <3>1, <3>2
  <2>7. CASE menu.open = r
    <3>1. r /= Over!None
      BY NamesAssumption DEF Over!None
    <3>2. menu.back = Over!Trigger(r) /\ BackAgain(menu.back) /\ pending.open = Over!None
      BY <2>7, <3>1 DEF OverInv
    <3>3. gone
      BY <3>2 DEF BackAgain
    <3>4. menu'.open = Over!None /\ pending'.open = Over!None
      BY <2>1, <2>7, <3>2, Elements
    <3>5. story'.excused
      BY <2>2, <3>3
    <3>6. palette'.open => focus'.layer = "palette"
      BY <2>1, Elements DEF OverInv
    <3>7. QED
      BY <2>4, <2>5, <3>4, <3>5, <3>6 DEF OverInv, Minds, BackAgain
  <2>8. CASE menu.open /= r
    <3>1. menu' = menu /\ pending' = pending /\ palette' = palette
      BY <2>1, <2>8
    <3>2. story'.origin = story.origin /\ story'.escaped = story.escaped /\ (story.excused => story'.excused)
          /\ (story.origin = Over!Trigger(r) => story'.excused)
      BY <2>2
    <3>3. \A el : BackAgain(el) => (el = story'.origin \/ story'.excused)
      BY <3>2 DEF BackAgain
    <3>4. palette.open => focus'.layer = "palette" /\ Minds(palette.back)'
      BY <2>1, <2>8, <3>1, <3>2, <3>3, Elements DEF OverInv, Minds, BackAgain
    <3>5. ~palette.open => Minds(focus)'
      <4>1. CASE focus = Over!Trigger(r)
        <5>1. focus.layer = "page"
          BY <4>1, Elements
        <5>2. QED
          BY <2>1, <3>1, <3>2, <4>1, <5>1 DEF OverInv, Minds, BackAgain
      <4>2. CASE focus /= Over!Trigger(r)
        <5>1. focus' = focus
          BY <2>1, <2>8, <4>2
        <5>2. QED
          BY <3>1, <3>2, <5>1 DEF OverInv, Minds, BackAgain
      <4>3. QED
        BY <4>1, <4>2
    <3>6. Over!MenuOpen => menu.open \in shownRows'
      BY <2>1, <2>8 DEF OverInv
    <3>7. (Over!MenuOpen => BackAgain(menu.back)') /\ (Over!DialogOpen => BackAgain(pending.back)')
      BY <3>1, <3>3 DEF OverInv, BackAgain
    <3>8. QED
      BY <2>4, <2>5, <2>6, <3>1, <3>4, <3>5, <3>6, <3>7 DEF OverInv
  <2>9. QED
    BY <2>7, <2>8
<1>3. QED
  BY <1>1, <1>2

(* Each step of what opens over a screen.                                  *)
LEMMA OverKept == ASSUME OverInv, Over!Next \/ UNCHANGED overState PROVE OverInv'
<1>1. CASE UNCHANGED overState
  BY <1>1 DEF overState, OverInv, OverTypes, InTheList, Over!Matches, Minds, BackAgain, PageTyped,
              Over!MenuOpen, Over!DialogOpen
<1>2. CASE Over!Next
  BY <1>2, MovingKeeps, MenusKeep, DialogsKeep, PaletteKeeps, TypingKeeps, GoingKeeps
  DEF Over!Next, Over!ClosePalette, Over!Enter
<1>3. QED
  BY <1>1, <1>2

(* So the focus comes back, stays inside, and Enter runs what is seen.     *)
LEMMA OverSuffices == ASSUME OverInv PROVE Over!OverlaysAreHonest
<1>1. Over!FocusComesBack
  BY DEF OverInv, Minds, BackAgain, Over!FocusComesBack, Over!NothingOpen
<1>2. Over!FocusStaysInside
  BY DEF OverInv, Minds, Over!FocusStaysInside, Over!Top
<1>3. Over!EnterRunsTheHighlighted
  <2>1. Over!Drawn(Over!Matches) = Over!Matches
    BY MatchesUnbroken, DrawnAsTheyCome DEF Over!Matches
  <2>2. palette.active \in 0 .. IF Over!Matches = <<>> THEN 0 ELSE Len(Over!Matches) - 1
    BY DEF OverInv, InTheList
  <2>3. Over!EnterRuns = Over!Highlighted
    BY <2>1 DEF Over!EnterRuns, Over!Highlighted
  <2>4. QED
    BY <2>2, <2>3 DEF Over!EnterRunsTheHighlighted
<1>4. QED
  BY <1>1, <1>2, <1>3 DEF Over!OverlaysAreHonest

-----------------------------------------------------------------------------
(* The lists. *)
LEMMA ListRanks ==
    /\ \A S : Lists!Cardinality(S) = Cardinality(S)
    /\ \A s, I : Lists!Picked(s, I) = Picked(s, I)
    /\ \A S, below : Lists!Ranked(S, below) = Ranked(S, below)
    /\ \A S : Lists!Less(S) = Less(S)
    /\ \A s : Lists!SumOf(s) = Sums!SumOf(s)
    /\ \A s : Lists!ToSet(s) = {s[i] : i \in DOMAIN s}
    /\ \A s : Lists!Last(s) = s[Len(s)]
BY DEF Lists!Cardinality, Cardinality, Lists!Picked, Picked, Lists!Ranked, Ranked, Lists!Less, Less,
       Lists!SumOf, Sums!SumOf, Lists!ToSet, Lists!Last

ListedRows == [id : 1 .. 2, status : Lists!Statuses, age : Int,
               sla : {"none", "PAUSED", "BREACHED", "APPROACHING", "WITHIN"}]

(* A list in order is as long as it was.                                   *)
LEMMA SortedIsAsLong ==
    ASSUME NEW rs \in Seq(ListedRows), NEW order
    PROVE  /\ DOMAIN Lists!Sorted(rs, order) = 1 .. Len(rs)
           /\ Len(Lists!Sorted(rs, order)) = Len(rs)
           /\ \E S : Lists!Sorted(rs, order) \in Seq(S)
<1> DEFINE n == Len(rs)
           s == Lists!Sorted(rs, order)
<1>1. n \in Nat /\ DOMAIN rs = 1 .. n
  OBVIOUS
<1>2. DOMAIN s = 1 .. n /\ s = [i \in 1 .. n |-> s[i]]
  BY <1>1 DEF Lists!Sorted, Lists!SortedBy
<1> HIDE DEF s
<1> DEFINE T == {s[i] : i \in 1 .. n}
<1>3. s \in [1 .. n -> T]
  BY <1>2
<1> HIDE DEF T, n
<1>4. s \in Seq(T) /\ Len(s) = n
  BY <1>1, <1>3
<1>5. (\E S : s \in Seq(S)) /\ DOMAIN s = 1 .. n /\ Len(s) = n
  BY <1>2, <1>4
<1>6. QED
  BY <1>5 DEF s, n

(* The rows of a tab, and of a list.                                       *)
LEMMA AdmittedOf ==
    ASSUME NEW rs \in Seq(ListedRows), NEW which, NEW t
    PROVE  LET I == {i \in DOMAIN rs : rs[i].status \in Lists!TabsOf(which)[t]}
           IN  /\ Lists!Admitted(rs, which, t) = Picked(rs, I)
               /\ Lists!Admitted(rs, which, t) \in Seq(ListedRows)
               /\ Lists!CountOn(rs, which, t) = Cardinality(I)
<1> DEFINE I == {i \in DOMAIN rs : rs[i].status \in Lists!TabsOf(which)[t]}
<1>1. Lists!Admitted(rs, which, t) = Picked(rs, I)
  BY ListRanks DEF Lists!Admitted, Lists!Filtered
<1>2. I \in SUBSET (DOMAIN rs)
  OBVIOUS
<1> HIDE DEF I
<1>3. Picked(rs, I) \in Seq(ListedRows) /\ Len(Picked(rs, I)) = Cardinality(I)
  BY <1>2, PickedOf
<1>4. QED
  BY <1>1, <1>3 DEF I, Lists!CountOn

(* The rows of a list are a list.                                          *)
LEMMA RowsOfAList ==
    ASSUME NEW rs \in Seq(ListedRows), NEW which, NEW t, NEW order
    PROVE  /\ \E S : Lists!RowsOf(rs, which, t, order) \in Seq(S)
           /\ Len(Lists!RowsOf(rs, which, t, order)) \in Nat
<1> DEFINE a == Lists!Admitted(rs, which, t)
<1>1. a \in Seq(ListedRows)
  BY AdmittedOf
<1> HIDE DEF a
<1>2. Lists!RowsOf(rs, which, t, order) = IF which = "queue" THEN Lists!Sorted(a, order) ELSE a
  BY DEF a, Lists!RowsOf
<1>3. \E S : Lists!RowsOf(rs, which, t, order) \in Seq(S)
  BY <1>1, <1>2, SortedIsAsLong
<1>4. QED
  BY <1>3

-----------------------------------------------------------------------------
(* Pages. *)
LEMMA PagesOf ==
    ASSUME NEW n \in Nat
    PROVE  /\ Lists!PagesFor(n) \in Nat \ {0}
           /\ \A p \in Nat \ {0} : n > 0 /\ p <= Lists!PagesFor(n) =>
                 (p - 1) * PageSize + 1 <= n
<1> DEFINE d == PageSize
           q == (n + d - 1) \div d
<1>1. d \in Nat /\ d > 0
  BY ListsAssumption
<1>2. Lists!PagesFor(n) = IF n = 0 THEN 1 ELSE q
  BY DEF Lists!PagesFor
<1> HIDE DEF d
<1>3. q \in Int /\ d * q <= n + d - 1 /\ n + d - 1 < d * q + d
  <2> DEFINE m == n + d - 1
  <2>1. m \in Int /\ d \in Nat \ {0}
    BY <1>1
  <2> HIDE DEF m
  <2>2. m \div d \in Int /\ d * (m \div d) <= m /\ m < d * (m \div d) + d
    BY <2>1, Quotient
  <2>3. QED
    BY <2>2 DEF m
<1> HIDE DEF q
<1>4. n > 0 => q > 0
  <2>1. SUFFICES ASSUME n > 0, q <= 0
                 PROVE  FALSE
    BY <1>3
  <2>2. d * q <= 0
    BY <1>1, <1>3, <2>1
  <2>3. d * q \in Int
    BY <1>1, <1>3
  <2>4. QED
    BY <1>1, <1>3, <2>1, <2>2, <2>3
<1>5. ASSUME NEW p \in Nat \ {0}, n > 0, p <= q
      PROVE  (p - 1) * d + 1 <= n
  <2>1. (p - 1) * d = d * p - d /\ d * p \in Int
    BY <1>1
  <2>2. d * p <= d * q
    BY <1>1, <1>3, <1>5
  <2>3. d * q \in Int
    BY <1>1, <1>3
  <2>4. QED
    BY <1>1, <1>3, <2>1, <2>2, <2>3
<1>6. QED
  BY <1>2, <1>3, <1>4, <1>5 DEF d

(* A page that the pager offers has rows, if there are any.                *)
LEMMA PagesHaveRows ==
    ASSUME NEW S, NEW rs \in Seq(S), Len(rs) > 0,
           NEW p \in Nat \ {0}, p <= Lists!PagesFor(Len(rs))
    PROVE  Lists!Slice(rs, p) /= <<>>
<1> DEFINE n == Len(rs)
           a == (p - 1) * PageSize + 1
           e == p * PageSize
           b == IF e < n THEN e ELSE n
           s == SubSeq(rs, a, b)
<1>1. n \in Nat /\ n > 0
  OBVIOUS
<1>2. a <= n
  BY <1>1, PagesOf
<1>3. a \in Nat /\ a > 0 /\ e \in Nat /\ e >= a
  <2>1. p \in Nat /\ p > 0 /\ PageSize \in Nat /\ PageSize > 0
    BY ListsAssumption
  <2>2. (p - 1) * PageSize \in Nat /\ e = (p - 1) * PageSize + PageSize
    BY <2>1
  <2>3. QED
    BY <2>1, <2>2
<1>4. Lists!Slice(rs, p) = s
  BY DEF Lists!Slice, Lists!LeastOf
<1> HIDE DEF a, e
<1>5. a \in Int /\ b \in Int /\ a <= b /\ b <= n
  BY <1>1, <1>2, <1>3
<1> HIDE DEF b
<1>6. Len(s) = b - a + 1
  <2>1. \A i \in a .. b : rs[i] \in S
    BY <1>3, <1>5
  <2>2. QED
    BY <1>5, <2>1, SubSeqProperties
<1>7. Len(s) > 0
  <2> DEFINE l == Len(s)
  <2>1. l = b - a + 1
    BY <1>6
  <2> HIDE DEF l
  <2>2. l > 0
    BY <1>5, <2>1
  <2>3. QED
    BY <2>2 DEF l
<1> HIDE DEF s
<1>8. s /= <<>>
  BY <1>7, EmptySeq
<1>9. QED
  BY <1>4, <1>8

(* The pager's numbers: first page, perhaps a gap, those around the page   *)
(* on screen, perhaps a gap, last page.                                    *)
Around(p, pages) == Picked(<<p - 1, p, p + 1>>, {i \in 1 .. 3 : p - 2 + i > 1 /\ p - 2 + i < pages})

(* They are between the first and the last page.                           *)
LEMMA AroundOf ==
    ASSUME NEW p \in Nat \ {0}, NEW pages \in Nat
    PROVE  /\ Around(p, pages) \in Seq(Int)
           /\ \A i \in 1 .. Len(Around(p, pages)) :
                 Around(p, pages)[i] > 1 /\ Around(p, pages)[i] < pages
           /\ pages > 7 =>
                Lists!PageWindow(p, pages)
                  = <<1>>
                    \o (IF Around(p, pages) /= <<>> /\ Head(Around(p, pages)) > 2 THEN <<0>> ELSE <<>>)
                    \o Around(p, pages)
                    \o (IF Around(p, pages) /= <<>>
                             /\ Around(p, pages)[Len(Around(p, pages))] < pages - 1
                        THEN <<0>> ELSE <<>>)
                    \o <<pages>>
<1> DEFINE three == <<p - 1, p, p + 1>>
           I == {i \in 1 .. 3 : p - 2 + i > 1 /\ p - 2 + i < pages}
<1>1. three \in Seq(Int) /\ DOMAIN three = 1 .. 3 /\ \A i \in 1 .. 3 : three[i] = p - 2 + i
  <2>1. three[1] = p - 1 /\ three[2] = p /\ three[3] = p + 1 /\ DOMAIN three = 1 .. 3
    OBVIOUS
  <2>2. three \in Seq(Int)
    OBVIOUS
  <2>3. \A i \in 1 .. 3 : i = 1 \/ i = 2 \/ i = 3
    OBVIOUS
  <2> HIDE DEF three
  <2>4. QED
    BY <2>1, <2>2, <2>3
<1>2. I \in SUBSET (DOMAIN three) /\ I = {i \in DOMAIN three : three[i] > 1 /\ three[i] < pages}
  BY <1>1
<1>3. Around(p, pages) = Picked(three, I)
  BY DEF Around
<1> DEFINE W(a) == <<1>> \o (IF a /= <<>> /\ Head(a) > 2 THEN <<0>> ELSE <<>>) \o a
                   \o (IF a /= <<>> /\ a[Len(a)] < pages - 1 THEN <<0>> ELSE <<>>) \o <<pages>>
           around == Lists!Picked(three, {i \in DOMAIN three : three[i] > 1 /\ three[i] < pages})
<1>4. ~(pages <= 7) => Lists!PageWindow(p, pages) = W(around)
  BY Zenon DEF Lists!PageWindow, Lists!Filtered, Lists!Last
<1>8. around = Around(p, pages)
  BY <1>2, <1>3, ListRanks
<1>9. pages > 7 => ~(pages <= 7)
  OBVIOUS
<1> HIDE DEF around
<1>6. pages > 7 => Lists!PageWindow(p, pages) = W(Around(p, pages))
  BY <1>4, <1>8, <1>9, Zenon
<1> HIDE DEF three, I
<1>5. Picked(three, I) \in Seq(Int)
      /\ \A i \in 1 .. Len(Picked(three, I)) : Picked(three, I)[i] > 1 /\ Picked(three, I)[i] < pages
  <2> DEFINE q == Picked(three, I)
             at == Ranked(I, Less(I))
             c == Cardinality(I)
  <2>1. q \in Seq(Int) /\ Len(q) = c /\ at \in [1 .. c -> I] /\ \A i \in 1 .. c : q[i] = three[at[i]]
    <3>1. three \in Seq(Int) /\ I \in SUBSET (DOMAIN three)
      BY <1>1, <1>2
    <3>2. QED
      BY <3>1, PickedOf
  <2> HIDE DEF q, at, c
  <2>2. \A i \in 1 .. c : at[i] \in I
    BY <2>1
  <2>3. q \in Seq(Int) /\ \A i \in 1 .. Len(q) : q[i] > 1 /\ q[i] < pages
    BY <1>2, <2>1, <2>2
  <2>4. QED
    BY <2>3 DEF q
<1>7. QED
  BY <1>3, <1>5, <1>6

(* What the pager has at each place.                                       *)
LEMMA WindowPlaces ==
    ASSUME NEW p \in Nat \ {0}, NEW pages \in Nat, pages > 7
    PROVE  LET a == Around(p, pages)
               c == Len(a)
               l == IF c > 0 /\ a[1] > 2 THEN 1 ELSE 0
               r == IF c > 0 /\ a[c] < pages - 1 THEN 1 ELSE 0
               w == Lists!PageWindow(p, pages)
           IN  /\ c \in Nat /\ w \in Seq(Int) /\ Len(w) = 1 + l + c + r + 1
               /\ \A k \in 1 .. Len(w) :
                     w[k] = IF k = 1 THEN 1 ELSE IF k <= 1 + l THEN 0
                            ELSE IF k <= 1 + l + c THEN a[k - 1 - l]
                            ELSE IF k <= 1 + l + c + r THEN 0 ELSE pages
<1> DEFINE a == Around(p, pages)
           c == Len(a)
           l == IF c > 0 /\ a[1] > 2 THEN 1 ELSE 0
           r == IF c > 0 /\ a[c] < pages - 1 THEN 1 ELSE 0
           w == Lists!PageWindow(p, pages)
           L == IF a /= <<>> /\ Head(a) > 2 THEN <<0>> ELSE <<>>
           R == IF a /= <<>> /\ a[Len(a)] < pages - 1 THEN <<0>> ELSE <<>>
           one == <<1>>
           end == <<pages>>
<1>1. a \in Seq(Int) /\ c \in Nat
  <2>1. Around(p, pages) \in Seq(Int)
    BY AroundOf, Zenon
  <2> HIDE DEF a
  <2>2. a \in Seq(Int)
    BY <2>1 DEF a
  <2>3. QED
    BY <2>2
<1>2. w = one \o L \o a \o R \o end
  BY AroundOf
<1>3. one \in Seq(Int) /\ Len(one) = 1 /\ one[1] = 1 /\ end \in Seq(Int) /\ Len(end) = 1
      /\ end[1] = pages
  OBVIOUS
<1>4. L \in Seq(Int) /\ Len(L) = l /\ (l = 1 => L[1] = 0)
  <2>1. (a /= <<>> <=> c > 0) /\ (c > 0 => Head(a) = a[1])
    <3> HIDE DEF a
    <3>1. a /= <<>> => c > 0
      BY <1>1, EmptySeq
    <3>2. c > 0 => a /= <<>>
      BY EmptySeq
    <3>3. a /= <<>> => Head(a) = a[1]
      BY <1>1
    <3>4. QED
      BY <3>1, <3>2, <3>3
  <2>2. <<0>> \in Seq(Int) /\ Len(<<0>>) = 1 /\ <<0>>[1] = 0 /\ <<>> \in Seq(Int) /\ Len(<<>>) = 0
    OBVIOUS
  <2>3. L = IF c > 0 /\ a[1] > 2 THEN <<0>> ELSE <<>>
    BY <2>1
  <2> HIDE DEF a, c, L
  <2>4. QED
    BY <2>2, <2>3
<1>5. R \in Seq(Int) /\ Len(R) = r /\ (r = 1 => R[1] = 0)
  <2>1. a /= <<>> <=> c > 0
    <3> HIDE DEF a
    <3>1. a /= <<>> => c > 0
      BY <1>1, EmptySeq
    <3>2. c > 0 => a /= <<>>
      BY EmptySeq
    <3>3. QED
      BY <3>1, <3>2
  <2>2. <<0>> \in Seq(Int) /\ Len(<<0>>) = 1 /\ <<0>>[1] = 0 /\ <<>> \in Seq(Int) /\ Len(<<>>) = 0
    OBVIOUS
  <2>3. R = IF c > 0 /\ a[c] < pages - 1 THEN <<0>> ELSE <<>>
    BY <2>1
  <2> HIDE DEF a, c, R
  <2>4. QED
    BY <2>2, <2>3
<1>6. l \in {0, 1} /\ r \in {0, 1}
  OBVIOUS
<1> HIDE DEF a, c, l, r, w, L, R, one, end
<1> DEFINE s1 == one \o L
           s2 == s1 \o a
           s3 == s2 \o R
           s4 == s3 \o end
<1>20. Len(a) = c
  BY DEF c
<1>7. /\ s1 \in Seq(Int) /\ Len(s1) = 1 + l
      /\ \A k \in 1 .. 1 + l : s1[k] = IF k <= 1 THEN one[k] ELSE L[k - 1]
  <2>1. /\ s1 \in Seq(Int) /\ Len(s1) = Len(one) + Len(L)
        /\ \A k \in 1 .. Len(one) + Len(L) :
              s1[k] = IF k <= Len(one) THEN one[k] ELSE L[k - Len(one)]
    BY <1>3, <1>4, Joined, Zenon
  <2> HIDE DEF s1
  <2>2. QED
    BY <1>3, <1>4, <2>1
<1> HIDE DEF s1
<1>8. /\ s2 \in Seq(Int) /\ Len(s2) = 1 + l + c
      /\ \A k \in 1 .. 1 + l + c : s2[k] = IF k <= 1 + l THEN s1[k] ELSE a[k - (1 + l)]
  <2>1. /\ s2 \in Seq(Int) /\ Len(s2) = Len(s1) + Len(a)
        /\ \A k \in 1 .. Len(s1) + Len(a) :
              s2[k] = IF k <= Len(s1) THEN s1[k] ELSE a[k - Len(s1)]
    BY <1>1, <1>7, Joined, Zenon
  <2> HIDE DEF s2
  <2>2. QED
    BY <1>7, <1>20, <2>1
<1> HIDE DEF s2
<1>9. /\ s3 \in Seq(Int) /\ Len(s3) = 1 + l + c + r
      /\ \A k \in 1 .. 1 + l + c + r : s3[k] = IF k <= 1 + l + c THEN s2[k] ELSE R[k - (1 + l + c)]
  <2>1. /\ s3 \in Seq(Int) /\ Len(s3) = Len(s2) + Len(R)
        /\ \A k \in 1 .. Len(s2) + Len(R) :
              s3[k] = IF k <= Len(s2) THEN s2[k] ELSE R[k - Len(s2)]
    BY <1>5, <1>8, Joined, Zenon
  <2> HIDE DEF s3
  <2>2. QED
    BY <1>5, <1>8, <2>1
<1> HIDE DEF s3
<1>10. /\ s4 \in Seq(Int) /\ Len(s4) = 1 + l + c + r + 1
       /\ \A k \in 1 .. 1 + l + c + r + 1 :
             s4[k] = IF k <= 1 + l + c + r THEN s3[k] ELSE end[k - (1 + l + c + r)]
  <2>1. /\ s4 \in Seq(Int) /\ Len(s4) = Len(s3) + Len(end)
        /\ \A k \in 1 .. Len(s3) + Len(end) :
              s4[k] = IF k <= Len(s3) THEN s3[k] ELSE end[k - Len(s3)]
    BY <1>3, <1>9, Joined, Zenon
  <2> HIDE DEF s4
  <2>2. QED
    BY <1>3, <1>9, <2>1
<1>11. w = s4
  BY <1>2 DEF s1, s2, s3
<1> HIDE DEF s4
<1>12. ASSUME NEW k \in 1 .. 1 + l + c + r + 1
       PROVE  w[k] = IF k = 1 THEN 1 ELSE IF k <= 1 + l THEN 0
                     ELSE IF k <= 1 + l + c THEN a[k - 1 - l]
                     ELSE IF k <= 1 + l + c + r THEN 0 ELSE pages
  <2>1. CASE k = 1
    <3>1. k <= 1 + l /\ k <= 1 + l + c /\ k <= 1 + l + c + r
      BY <1>1, <1>6, <2>1
    <3>2. QED
      BY <1>3, <1>6, <1>7, <1>8, <1>9, <1>10, <1>11, <2>1, <3>1
  <2>2. CASE k /= 1 /\ k <= 1 + l
    <3>1. l = 1 /\ k - 1 = 1 /\ ~(k <= 1) /\ k \in 1 .. 1 + l /\ k \in 1 .. 1 + l + c
          /\ k \in 1 .. 1 + l + c + r /\ k <= 1 + l + c /\ k <= 1 + l + c + r
      BY <1>1, <1>6, <2>2
    <3>2. w[k] = L[1]
      BY <1>7, <1>8, <1>9, <1>10, <1>11, <2>2, <3>1
    <3>3. QED
      BY <1>4, <2>2, <3>1, <3>2
  <2>3. CASE k /= 1 /\ ~(k <= 1 + l) /\ k <= 1 + l + c
    <3>1. k \in 1 .. 1 + l + c /\ k \in 1 .. 1 + l + c + r /\ k <= 1 + l + c + r
          /\ k - (1 + l) = k - 1 - l
      BY <1>1, <1>6, <2>3
    <3>2. w[k] = a[k - (1 + l)]
      BY <1>8, <1>9, <1>10, <1>11, <2>3, <3>1
    <3>3. QED
      BY <2>3, <3>1, <3>2
  <2>4. CASE k /= 1 /\ ~(k <= 1 + l) /\ ~(k <= 1 + l + c) /\ k <= 1 + l + c + r
    <3>1. r = 1 /\ k - (1 + l + c) = 1 /\ k \in 1 .. 1 + l + c + r
      BY <1>1, <1>6, <2>4
    <3>2. w[k] = R[1]
      BY <1>9, <1>10, <1>11, <2>4, <3>1
    <3>3. QED
      BY <1>5, <2>4, <3>1, <3>2
  <2>5. CASE k /= 1 /\ ~(k <= 1 + l) /\ ~(k <= 1 + l + c) /\ ~(k <= 1 + l + c + r)
    <3>1. k - (1 + l + c + r) = 1
      BY <1>1, <1>6, <2>5
    <3>2. w[k] = end[1]
      BY <1>10, <1>11, <2>5, <3>1
    <3>3. QED
      BY <1>3, <2>5, <3>2
  <2>6. QED
    BY <2>1, <2>2, <2>3, <2>4, <2>5
<1>13. c \in Nat /\ w \in Seq(Int) /\ Len(w) = 1 + l + c + r + 1
  BY <1>1, <1>10, <1>11
<1>14. QED
  BY <1>12, <1>13 DEF w, a, c, l, r

(* The pager offers the first page, and none that there is not.            *)
LEMMA WindowIsOfPages ==
    ASSUME NEW p \in Nat \ {0}, NEW pages \in Nat \ {0}
    PROVE  /\ 1 \in Lists!ToSet(Lists!PageWindow(p, pages))
           /\ Lists!ToSet(Lists!PageWindow(p, pages)) \subseteq 0 .. pages
<1> DEFINE w == Lists!PageWindow(p, pages)
<1>1. CASE pages <= 7
  <2>1. w = [i \in 1 .. pages |-> i]
    BY <1>1 DEF Lists!PageWindow
  <2>2. Lists!ToSet(w) = {w[i] : i \in DOMAIN w}
    BY ListRanks
  <2> HIDE DEF w
  <2>3. QED
    BY <2>1, <2>2 DEF w
<1>2. CASE ~(pages <= 7)
  <2> DEFINE a == Around(p, pages)
             c == Len(a)
             l == IF c > 0 /\ a[1] > 2 THEN 1 ELSE 0
             r == IF c > 0 /\ a[c] < pages - 1 THEN 1 ELSE 0
  <2>0. pages > 7
    BY <1>2
  <2>1. /\ c \in Nat /\ w \in Seq(Int) /\ Len(w) = 1 + l + c + r + 1
        /\ \A k \in 1 .. Len(w) :
              w[k] = IF k = 1 THEN 1 ELSE IF k <= 1 + l THEN 0
                     ELSE IF k <= 1 + l + c THEN a[k - 1 - l]
                     ELSE IF k <= 1 + l + c + r THEN 0 ELSE pages
    BY <2>0, WindowPlaces
  <2>2. \A i \in 1 .. c : a[i] > 1 /\ a[i] < pages /\ a[i] \in Int
    <3>1. Around(p, pages) \in Seq(Int)
          /\ \A i \in 1 .. Len(Around(p, pages)) :
                Around(p, pages)[i] > 1 /\ Around(p, pages)[i] < pages
      BY AroundOf, Zenon
    <3> HIDE DEF a
    <3>2. a \in Seq(Int) /\ \A i \in 1 .. Len(a) : a[i] > 1 /\ a[i] < pages
      BY <3>1 DEF a
    <3>3. QED
      BY <3>2
  <2>3. l \in {0, 1} /\ r \in {0, 1}
    OBVIOUS
  <2>4. Lists!ToSet(w) = {w[i] : i \in DOMAIN w}
    BY ListRanks, Zenon
  <2> HIDE DEF w, a, c, l, r
  <2>8. DOMAIN w = 1 .. Len(w)
    BY <2>1
  <2>5. 1 \in 1 .. Len(w) /\ w[1] = 1
    BY <2>1, <2>3
  <2>6. ASSUME NEW k \in 1 .. Len(w)
        PROVE  w[k] \in 0 .. pages
    <3>1. CASE k > 1 + l /\ k <= 1 + l + c
      <4>1. k - 1 - l \in 1 .. c
        BY <2>1, <2>3, <3>1
      <4>2. w[k] = a[k - 1 - l]
        BY <2>1, <2>3, <3>1
      <4>3. QED
        BY <2>2, <4>1, <4>2
    <3>2. CASE k <= 1 + l
      <4>1. w[k] = 1 \/ w[k] = 0
        BY <2>1, <3>2
      <4>2. QED
        BY <4>1
    <3>3. CASE k > 1 + l + c
      <4>1. k /= 1 /\ ~(k <= 1 + l) /\ ~(k <= 1 + l + c)
        BY <2>1, <2>3, <3>3
      <4>2. w[k] = 0 \/ w[k] = pages
        BY <2>1, <4>1
      <4>3. QED
        BY <4>2
    <3>4. QED
      BY <2>1, <2>3, <3>1, <3>2, <3>3
  <2>7. QED
    BY <2>4, <2>5, <2>6, <2>8 DEF w
<1>3. QED
  BY <1>1, <1>2

(* Around a page of a long list there is a run of numbers.                 *)
LowOf(p) == IF p <= 2 THEN 2 ELSE p - 1
HighOf(p, pages) == IF p >= pages - 1 THEN pages - 1 ELSE p + 1

(* These are the numbers from the lower to the higher.                     *)
LEMMA AroundIsARun ==
    ASSUME NEW pages \in Nat, pages > 7, NEW p \in 1 .. pages
    PROVE  LET lo == LowOf(p)
               hi == HighOf(p, pages)
               a == Around(p, pages)
           IN  /\ lo \in Nat /\ hi \in Nat /\ 2 <= lo /\ lo <= hi /\ hi <= pages - 1
               /\ a \in Seq(Int) /\ Len(a) = hi - lo + 1
               /\ \A i \in 1 .. hi - lo + 1 : a[i] = lo + i - 1
<1> DEFINE lo == LowOf(p)
           hi == HighOf(p, pages)
           three == <<p - 1, p, p + 1>>
           I == {i \in 1 .. 3 : p - 2 + i > 1 /\ p - 2 + i < pages}
           x == lo - p + 2
           y == hi - p + 2
           c == y - x + 1
<1>1. lo \in Nat /\ hi \in Nat /\ 2 <= lo /\ lo <= hi /\ hi <= pages - 1
  BY DEF LowOf, HighOf
<1>2. x \in 1 .. 3 /\ y \in 1 .. 3 /\ x <= y + 1
  BY DEF LowOf, HighOf
<1>3. I = x .. y
  <2>1. \A i \in 1 .. 3 : (p - 2 + i > 1 /\ p - 2 + i < pages) <=> (x <= i /\ i <= y)
    BY DEF LowOf, HighOf
  <2>2. \A i \in x .. y : i \in 1 .. 3
    BY <1>2
  <2> HIDE DEF x, y
  <2>3. x \in Int /\ y \in Int
    BY <1>2
  <2>4. QED
    BY <2>1, <2>2, <2>3
<1>4. \A i \in 1 .. 3 : three[i] = p - 2 + i
  <2>1. three[1] = p - 1 /\ three[2] = p /\ three[3] = p + 1
    OBVIOUS
  <2>2. \A i \in 1 .. 3 : i = 1 \/ i = 2 \/ i = 3
    OBVIOUS
  <2> HIDE DEF three
  <2>3. QED
    BY <2>1, <2>2
<1>5. c = hi - lo + 1
  BY <1>1
<1>6. Around(p, pages) = Picked(three, I)
  BY DEF Around
<1> HIDE DEF I, three, x, y
<1>7. Cardinality(I) = c /\ c \in Nat /\ \A i \in 1 .. c : Ranked(I, Less(I))[i] = x + i - 1
  <2>1. x \in Nat /\ y \in Nat /\ x <= y + 1
    BY <1>2
  <2>2. Cardinality(x .. y) = y - x + 1
        /\ \A i \in 1 .. y - x + 1 : Ranked(x .. y, Less(x .. y))[i] = x + i - 1
    BY <2>1, NumbersInOrder
  <2>3. c \in Nat
    BY <2>1
  <2>4. QED
    BY <1>3, <2>2, <2>3
<1> HIDE DEF c, lo, hi
<1>8. Around(p, pages) = [i \in 1 .. c |-> three[Ranked(I, Less(I))[i]]]
  BY <1>6, <1>7 DEF Picked
<1>9. ASSUME NEW i \in 1 .. c
      PROVE  Around(p, pages)[i] = lo + i - 1
  <2>1. Around(p, pages)[i] = three[x + i - 1]
    BY <1>7, <1>8
  <2>2. x + i - 1 \in 1 .. 3
    BY <1>2, <1>7 DEF c
  <2>3. three[x + i - 1] = p - 2 + (x + i - 1)
    BY <1>4, <2>2
  <2>4. QED
    BY <1>1, <1>7, <2>1, <2>3 DEF x
<1>10. Around(p, pages) \in Seq(Int)
  <2>1. p \in Nat \ {0}
    OBVIOUS
  <2>2. QED
    BY <2>1, AroundOf, Zenon
<1>11. Len(Around(p, pages)) = c
  BY <1>7, <1>8
<1>12. QED
  BY <1>1, <1>5, <1>9, <1>10, <1>11 DEF lo, hi

(* So the pager's numbers rise, with a gap where one is left out.          *)
LEMMA WindowIsAlwaysWhole ==
    ASSUME NEW pages \in Nat \ {0}
    PROVE  Lists!WindowIsWhole(pages)
<1> SUFFICES ASSUME NEW p \in 1 .. pages
             PROVE  LET shown == Lists!PageWindow(p, pages)
                    IN  /\ {1, p, pages} \subseteq Lists!ToSet(shown)
                        /\ \A i \in 1 .. (Len(shown) - 1) :
                             shown[i] /= 0 => shown[i + 1] = 0 \/ shown[i + 1] = shown[i] + 1
                        /\ \A i \in 2 .. (Len(shown) - 1) :
                             shown[i] = 0 => shown[i + 1] > shown[i - 1] + 1
  BY Zenon DEF Lists!WindowIsWhole
<1> DEFINE w == Lists!PageWindow(p, pages)
<1>0. Lists!ToSet(w) = {w[i] : i \in DOMAIN w}
  BY ListRanks, Zenon
<1>1. CASE pages <= 7
  <2>1. w = [i \in 1 .. pages |-> i]
    BY <1>1 DEF Lists!PageWindow
  <2> HIDE DEF w
  <2>2. Len(w) = pages /\ DOMAIN w = 1 .. pages /\ \A i \in 1 .. pages : w[i] = i
    BY <2>1
  <2>3. \A i \in 1 .. pages - 1 : w[i + 1] = w[i] + 1
    BY <2>2
  <2>4. \A i \in 2 .. pages - 1 : w[i] /= 0
    BY <2>2
  <2>5. {1, p, pages} \subseteq Lists!ToSet(w)
    BY <1>0, <2>2
  <2>6. QED
    BY <2>2, <2>3, <2>4, <2>5 DEF w
<1>2. CASE ~(pages <= 7)
  <2> DEFINE lo == LowOf(p)
             hi == HighOf(p, pages)
             a == Around(p, pages)
             c == Len(a)
             l == IF c > 0 /\ a[1] > 2 THEN 1 ELSE 0
             r == IF c > 0 /\ a[c] < pages - 1 THEN 1 ELSE 0
  <2>0. pages > 7 /\ p \in Nat \ {0} /\ pages \in Nat
    BY <1>2
  <2>1. /\ c \in Nat /\ w \in Seq(Int) /\ Len(w) = 1 + l + c + r + 1
        /\ \A k \in 1 .. Len(w) :
              w[k] = IF k = 1 THEN 1 ELSE IF k <= 1 + l THEN 0
                     ELSE IF k <= 1 + l + c THEN a[k - 1 - l]
                     ELSE IF k <= 1 + l + c + r THEN 0 ELSE pages
    BY <2>0, WindowPlaces
  <2>2. /\ lo \in Nat /\ hi \in Nat /\ 2 <= lo /\ lo <= hi /\ hi <= pages - 1
        /\ c = hi - lo + 1 /\ \A i \in 1 .. hi - lo + 1 : a[i] = lo + i - 1
    BY <2>0, AroundIsARun
  <2>3. (lo <= p \/ p = 1) /\ (p <= hi \/ p = pages)
    BY <2>0 DEF LowOf, HighOf
  <2> HIDE DEF w, lo, hi, a
  <2>4. c > 0 /\ 1 \in 1 .. c /\ c \in 1 .. c /\ a[1] = lo /\ a[c] = hi
    BY <2>2
  <2>5. l = IF lo > 2 THEN 1 ELSE 0
    BY <2>4
  <2>6. r = IF hi < pages - 1 THEN 1 ELSE 0
    BY <2>4
  <2> HIDE DEF c, l, r
  <2>7. ASSUME NEW k \in 1 .. 1 + l + c + r + 1
        PROVE  w[k] = IF k = 1 THEN 1 ELSE IF k <= 1 + l THEN 0
                      ELSE IF k <= 1 + l + c THEN lo + k - 2 - l
                      ELSE IF k <= 1 + l + c + r THEN 0 ELSE pages
    <3>1. CASE k > 1 + l /\ k <= 1 + l + c
      <4>1. k - 1 - l \in 1 .. c
        BY <2>1, <2>5, <3>1
      <4>2. w[k] = a[k - 1 - l]
        BY <2>1, <2>5, <3>1
      <4>3. a[k - 1 - l] = lo + (k - 1 - l) - 1
        BY <2>2, <4>1
      <4>4. QED
        BY <2>1, <2>2, <2>5, <3>1, <4>2, <4>3
    <3>2. CASE k <= 1 + l
      BY <2>1, <2>5, <2>6, <3>2
    <3>3. CASE k > 1 + l + c
      BY <2>1, <2>5, <2>6, <3>3
    <3>4. QED
      BY <2>1, <2>5, <3>1, <3>2, <3>3
  <2>8. Len(w) = 1 + l + c + r + 1 /\ l \in {0, 1} /\ r \in {0, 1} /\ c \in Nat /\ c > 0
    BY <2>1, <2>4, <2>5, <2>6
  <2>9. DOMAIN w = 1 .. Len(w)
    BY <2>1
  <2>10. {1, p, pages} \subseteq Lists!ToSet(w)
    <3>1. 1 \in DOMAIN w /\ w[1] = 1
      BY <2>7, <2>8, <2>9
    <3>2. Len(w) \in DOMAIN w /\ w[Len(w)] = pages
      BY <2>7, <2>8, <2>9
    <3>3. CASE p = 1 \/ p = pages
      BY <1>0, <3>1, <3>2, <3>3
    <3>4. CASE lo <= p /\ p <= hi
      <4> DEFINE k == p - lo + 2 + l
      <4>1. k \in 1 .. 1 + l + c + r + 1 /\ k > 1 + l /\ k <= 1 + l + c /\ k /= 1
        BY <2>0, <2>2, <2>8, <3>4
      <4>2. k \in Int /\ lo + k - 2 - l = p
        BY <2>0, <2>2, <2>8
      <4> HIDE DEF k
      <4>3. w[k] = p
        BY <2>7, <2>8, <4>1, <4>2
      <4>4. k \in DOMAIN w
        BY <2>8, <2>9, <4>1
      <4>5. QED
        BY <1>0, <3>1, <3>2, <4>3, <4>4
    <3>5. QED
      BY <2>3, <3>3, <3>4
  <2>11. ASSUME NEW i \in 1 .. (Len(w) - 1), w[i] /= 0
         PROVE  w[i + 1] = 0 \/ w[i + 1] = w[i] + 1
    <3>1. i \in 1 .. 1 + l + c + r + 1 /\ i + 1 \in 1 .. 1 + l + c + r + 1 /\ i + 1 /= 1
      BY <2>8
    <3>2. w[i + 1] = IF i + 1 <= 1 + l THEN 0
                     ELSE IF i + 1 <= 1 + l + c THEN lo + (i + 1) - 2 - l
                     ELSE IF i + 1 <= 1 + l + c + r THEN 0 ELSE pages
      BY <2>7, <2>8, <3>1
    <3>3. w[i] = IF i = 1 THEN 1 ELSE IF i <= 1 + l THEN 0
                 ELSE IF i <= 1 + l + c THEN lo + i - 2 - l
                 ELSE IF i <= 1 + l + c + r THEN 0 ELSE pages
      BY <2>7, <3>1
    <3>4. CASE i = 1
      BY <2>2, <2>5, <2>8, <3>2, <3>3, <3>4
    <3>5. CASE i > 1 + l /\ i < 1 + l + c
      BY <2>2, <2>8, <3>2, <3>3, <3>5
    <3>6. CASE i = 1 + l + c
      BY <2>2, <2>6, <2>8, <3>2, <3>3, <3>6
    <3>7. CASE i > 1 /\ i <= 1 + l
      BY <2>8, <2>11, <3>3, <3>7
    <3>8. CASE i > 1 + l + c
      BY <2>8, <2>11, <3>1, <3>3, <3>8
    <3>9. QED
      BY <2>8, <3>1, <3>4, <3>5, <3>6, <3>7, <3>8
  <2>12. ASSUME NEW i \in 2 .. (Len(w) - 1), w[i] = 0
         PROVE  w[i + 1] > w[i - 1] + 1
    <3>1. i \in 1 .. 1 + l + c + r + 1 /\ i + 1 \in 1 .. 1 + l + c + r + 1
          /\ i - 1 \in 1 .. 1 + l + c + r + 1 /\ i /= 1 /\ i + 1 /= 1
      BY <2>8
    <3>2. w[i + 1] = IF i + 1 <= 1 + l THEN 0
                     ELSE IF i + 1 <= 1 + l + c THEN lo + (i + 1) - 2 - l
                     ELSE IF i + 1 <= 1 + l + c + r THEN 0 ELSE pages
      BY <2>7, <2>8, <3>1
    <3>3. w[i] = IF i <= 1 + l THEN 0
                 ELSE IF i <= 1 + l + c THEN lo + i - 2 - l
                 ELSE IF i <= 1 + l + c + r THEN 0 ELSE pages
      BY <2>7, <3>1
    <3>4. w[i - 1] = IF i - 1 = 1 THEN 1 ELSE IF i - 1 <= 1 + l THEN 0
                     ELSE IF i - 1 <= 1 + l + c THEN lo + (i - 1) - 2 - l
                     ELSE IF i - 1 <= 1 + l + c + r THEN 0 ELSE pages
      BY <2>7, <2>8, <3>1
    <3>5. CASE i <= 1 + l
      <4>1. i = 2 /\ l = 1
        BY <2>8, <3>1, <3>5
      <4>2. lo > 2
        BY <2>5, <4>1
      <4>3. w[i - 1] = 1 /\ w[i + 1] = lo
        BY <2>2, <2>8, <3>2, <3>4, <4>1
      <4>4. QED
        BY <2>2, <4>2, <4>3
    <3>6. CASE ~(i <= 1 + l) /\ i <= 1 + l + c
      BY <2>2, <2>8, <2>12, <3>1, <3>3, <3>6
    <3>7. CASE ~(i <= 1 + l + c) /\ i <= 1 + l + c + r
      <4>1. r = 1 /\ i = 2 + l + c
        BY <2>8, <3>1, <3>7
      <4>2. hi < pages - 1
        BY <2>6, <4>1
      <4>3. w[i - 1] = hi
        BY <2>2, <2>8, <3>4, <4>1
      <4>4. w[i + 1] = pages
        BY <2>2, <2>8, <3>2, <4>1
      <4>5. QED
        BY <2>0, <2>2, <4>2, <4>3, <4>4
    <3>8. CASE ~(i <= 1 + l + c + r)
      BY <2>0, <2>8, <2>12, <3>1, <3>3, <3>8
    <3>9. QED
      BY <3>5, <3>6, <3>7, <3>8
  <2>13. QED
    BY <2>10, <2>11, <2>12 DEF w
<1>3. QED
  BY <1>1, <1>2

-----------------------------------------------------------------------------
(* What a poll reads. *)
Shapes ==
    /\ dialog = [row |-> dialog.row, reason |-> dialog.reason, typed |-> dialog.typed]
    /\ dialog.reason \in Nat
    /\ glance = [shown |-> glance.shown, taken |-> glance.taken, wroteFor |-> glance.wroteFor]
    /\ glance.taken \in BOOLEAN

GymsOnce ==
    /\ DOMAIN gyms \subseteq 1 .. 2 /\ now \in Nat
    /\ \A g \in DOMAIN gyms : gyms[g] \in [status : Lists!Statuses, at : Nat]
    /\ \A g, h \in DOMAIN gyms : g /= h => gyms[g].at /= gyms[h].at

Screen ==
    /\ listed \in Seq(ListedRows) /\ list \in {"queue", "register"} /\ page \in Nat \ {0}
    /\ page > Lists!PagesFor(Len(Lists!Rows)) => glance.taken
    /\ list = "register" => Lists!IdsOf(Lists!Paged) \subseteq glance.shown

Ticked == (list = "queue" => selected = {}) /\ selected \subseteq glance.shown

Written == dialog.row /= Nobody /\ dialog.reason > 0 => glance.wroteFor = dialog.row

ListInv == GymsOnce /\ Shapes /\ Screen /\ Ticked /\ Written

Newer == [g \in DOMAIN gyms |-> {h \in DOMAIN gyms : gyms[h].at > gyms[g].at}]
Tenants == Ranked(DOMAIN gyms, Newer)

(* The newest first: no two gyms have applied at one tick.                 *)
LEMMA TenantsInOrder ==
    ASSUME GymsOnce
    PROVE  /\ IsFiniteSet(DOMAIN gyms)
           /\ ListedInOrder(DOMAIN gyms, Newer, Tenants)
<1> DEFINE D == DOMAIN gyms
           at == [g \in D |-> gyms[g].at]
<1>1. IsFiniteSet(D)
  <2>1. IsFiniteSet(1 .. 2) /\ D \in SUBSET (1 .. 2)
    BY CountUpTo DEF GymsOnce
  <2>2. QED
    BY <2>1, FS_Subset
<1>2. at \in [D -> Nat] /\ \A g, h \in D : g /= h => at[g] /= at[h]
  <2>1. \A g \in D : gyms[g].at \in Nat
    BY DEF GymsOnce
  <2>2. QED
    BY <2>1 DEF GymsOnce
<1>3. Newer \in [D -> SUBSET D] /\ \A g, h \in D : h \in Newer[g] <=> at[h] > at[g]
  BY DEF Newer
<1> HIDE DEF at, D
<1>4. \A x \in D : x \notin Newer[x]
  BY <1>2, <1>3
<1>5. ASSUME NEW x \in D, NEW y \in D, x \in Newer[y]
      PROVE  Newer[x] \subseteq Newer[y]
  BY <1>2, <1>3, <1>5
<1>6. ASSUME NEW x \in D, NEW y \in D
      PROVE  x = y \/ x \in Newer[y] \/ y \in Newer[x]
  BY <1>2, <1>3
<1>7. StrictOrder(D, Newer)
  BY <1>3, <1>4, <1>5, <1>6 DEF StrictOrder
<1>8. ListedInOrder(D, Newer, Ranked(D, Newer))
  BY <1>1, <1>7, RankedInOrder
<1>9. QED
  BY <1>1, <1>8 DEF Tenants, D

SlaStates == {"none", "PAUSED", "BREACHED", "APPROACHING", "WITHIN"}

(* A gym's row.                                                            *)
LEMMA RowIsListed ==
    ASSUME GymsOnce, NEW g \in DOMAIN gyms
    PROVE  Lists!Row(g) \in ListedRows
<1>1. Lists!SlaFor(gyms[g].status, gyms[g].at, now) \in SlaStates
  BY DEF Lists!SlaFor, SlaStates
<1>2. (now - gyms[g].at) \div TicksPerHour \in Int
  <2>1. gyms[g].at \in Nat /\ now \in Nat /\ TicksPerHour \in Nat \ {0}
    BY ListsAssumption DEF GymsOnce
  <2>2. QED
    BY <2>1
<1>3. g \in 1 .. 2 /\ gyms[g].status \in Lists!Statuses
  BY DEF GymsOnce
<1>4. QED
  BY <1>1, <1>2, <1>3 DEF Lists!Row, ListedRows, SlaStates

(* A poll brings the newest of the gyms, as far as the limit.              *)
Brought == IF Cardinality(DOMAIN gyms) < ListLimit THEN Cardinality(DOMAIN gyms) ELSE ListLimit

(* Row by row it is the newest gyms'.                                      *)
LEMMA PollBrings ==
    ASSUME GymsOnce
    PROVE  /\ Brought \in Nat /\ Brought <= Cardinality(DOMAIN gyms)
           /\ \A i \in 1 .. Brought : Tenants[i] \in DOMAIN gyms
           /\ Lists!GymRows \in Seq(ListedRows) /\ Len(Lists!GymRows) = Brought
           /\ \A i \in 1 .. Brought : Lists!GymRows[i] = Lists!Row(Tenants[i])
<1> DEFINE D == DOMAIN gyms
           n == Cardinality(D)
           m == Brought
           s == Lists!ListTenants
<1>1. n \in Nat /\ Tenants \in [1 .. n -> D]
  BY TenantsInOrder DEF ListedInOrder
<1>2. m \in Nat /\ m <= n
  BY <1>1, ListsAssumption DEF Brought
<1>3. Len(Tenants) = n
  BY <1>1
<1>4. s = SubSeq(Tenants, 1, m)
  BY <1>3, ListRanks DEF Lists!ListTenants, Tenants, Newer, Brought
<1> HIDE DEF m, n, D, s
<1>5. Len(s) = m /\ \A i \in 1 .. m : s[i] = Tenants[i]
  <2>1. Tenants \in Seq(D)
    BY <1>1
  <2>2. \A i \in 1 .. m : Tenants[i] \in D
    BY <1>1, <1>2
  <2>3. Len(s) = m
    BY <1>2, <1>4, <2>2, SubSeqProperties
  <2>4. \A i \in 1 .. m : s[i] = Tenants[i]
    BY <1>2, <1>4, <2>2, SubSeqProperties
  <2>5. QED
    BY <2>3, <2>4
<1>6. Lists!GymRows = [i \in 1 .. m |-> Lists!Row(s[i])]
  BY <1>5 DEF Lists!GymRows, s
<1>7. \A i \in 1 .. m : Tenants[i] \in D
  BY <1>1, <1>2
<1>8. \A i \in 1 .. m : Lists!Row(Tenants[i]) \in ListedRows
  BY <1>7, RowIsListed DEF D
<1>9. /\ Lists!GymRows \in [1 .. m -> ListedRows]
      /\ \A i \in 1 .. m : Lists!GymRows[i] = Lists!Row(Tenants[i])
  BY <1>5, <1>6, <1>8
<1>10. Lists!GymRows \in Seq(ListedRows) /\ Len(Lists!GymRows) = m
  BY <1>2, <1>9
<1>11. QED
  BY <1>2, <1>7, <1>9, <1>10 DEF m, n, D

-----------------------------------------------------------------------------
(* The lists, from poll to poll. *)
LEMMA PageOfAList ==
    ASSUME NEW rs \in Seq(ListedRows), NEW which, NEW t, NEW order
    PROVE  /\ Lists!PagesFor(Len(Lists!RowsOf(rs, which, t, order))) \in Nat \ {0}
           /\ \A p \in Nat \ {0} :
                /\ Lists!RowsOf(rs, which, t, order) /= <<>>
                /\ p <= Lists!PagesFor(Len(Lists!RowsOf(rs, which, t, order)))
                => Lists!Slice(Lists!RowsOf(rs, which, t, order), p) /= <<>>
<1> DEFINE l == Lists!RowsOf(rs, which, t, order)
<1>1. PICK S : l \in Seq(S)
  BY RowsOfAList
<1> HIDE DEF l
<1>2. Len(l) \in Nat
  BY <1>1
<1>3. Lists!PagesFor(Len(l)) \in Nat \ {0}
  BY <1>2, PagesOf
<1>4. ASSUME NEW p \in Nat \ {0}, l /= <<>>, p <= Lists!PagesFor(Len(l))
      PROVE  Lists!Slice(l, p) /= <<>>
  <2>1. Len(l) > 0
    BY <1>1, <1>2, <1>4, EmptySeq
  <2>2. QED
    BY <1>1, <1>4, <2>1, PagesHaveRows
<1>5. QED
  BY <1>3, <1>4 DEF l

(* The pager leads to the first page, to none before it, and past the last *)
(* only from there.                                                        *)
LEMMA TurnsAreOf ==
    ASSUME NEW p \in Nat \ {0}, NEW pages \in Nat \ {0}
    PROVE  /\ 1 \in Lists!Turns(p, pages)
           /\ Lists!Turns(p, pages) \subseteq Nat \ {0}
           /\ \A q \in Lists!Turns(p, pages) : q > pages => p > pages
<1> DEFINE shown == Lists!ToSet(Lists!PageWindow(p, pages))
<1>1. 1 \in shown /\ shown \subseteq 0 .. pages
  BY WindowIsOfPages
<1>2. Lists!Turns(p, pages) = (shown \ {0}) \union (IF p > 1 THEN {p - 1} ELSE {})
                              \union (IF p < pages THEN {p + 1} ELSE {})
  BY DEF Lists!Turns
<1> HIDE DEF shown
<1>3. 1 \in Lists!Turns(p, pages)
  BY <1>1, <1>2
<1>4. ASSUME NEW q \in Lists!Turns(p, pages)
      PROVE  q \in Nat \ {0} /\ (q > pages => p > pages)
  <2>1. CASE q \in shown \ {0}
    BY <1>1, <2>1
  <2>2. CASE p > 1 /\ q = p - 1
    BY <2>2
  <2>3. CASE p < pages /\ q = p + 1
    BY <2>3
  <2>4. QED
    BY <1>2, <1>4, <2>1, <2>2, <2>3
<1>5. QED
  BY <1>3, <1>4

(* No gym, no row, nothing ticked and nothing written.                     *)
LEMMA ListAtFirst == ASSUME Lists!Init PROVE ListInv
<1> USE DEF Lists!Init
<1>1. GymsOnce
  <2>1. gyms = [g \in {} |-> 0] /\ DOMAIN gyms = {} /\ now = 0
    OBVIOUS
  <2>2. QED
    BY <2>1 DEF GymsOnce
<1>2. Shapes /\ Written /\ Ticked
  BY DEF Shapes, Written, Ticked, Lists!NoDialog, Lists!Fresh
<1>3. listed = <<>> /\ <<>> \in Seq(ListedRows) /\ page = 1
  OBVIOUS
<1>4. Lists!PagesFor(Len(Lists!Rows)) \in Nat \ {0}
  BY <1>3, PageOfAList DEF Lists!Rows
<1>5. list = "register" => Lists!IdsOf(Lists!Paged) = {}
  <2> SUFFICES ASSUME list = "register"
               PROVE  Lists!IdsOf(Lists!Paged) = {}
    OBVIOUS
  <2> DEFINE l == Lists!Rows
             I == {i \in DOMAIN listed : listed[i].status \in Lists!TabsOf(list)[tab]}
  <2>1. l = Lists!Admitted(listed, list, tab)
    BY DEF Lists!Rows, Lists!RowsOf
  <2>3. I = {} /\ listed \in Seq(ListedRows)
    BY <1>3
  <2>2. Lists!Admitted(listed, list, tab) \in Seq(ListedRows)
        /\ Lists!CountOn(listed, list, tab) = Cardinality(I)
    BY ONLY <2>3, AdmittedOf
  <2> HIDE DEF I, l
  <2>4. l \in Seq(ListedRows) /\ Len(l) = 0
    BY <2>1, <2>2, <2>3, FS_EmptySet DEF Lists!CountOn
  <2>5. Lists!Paged = SubSeq(l, 1, 0)
    <3> DEFINE e == 1 * PageSize
    <3>1. e \in Nat /\ e > 0 /\ (1 - 1) * PageSize + 1 = 1
      BY ListsAssumption
    <3>2. Lists!Paged = SubSeq(l, (1 - 1) * PageSize + 1, IF e < Len(l) THEN e ELSE Len(l))
      BY <1>3 DEF Lists!Paged, Lists!Slice, Lists!LeastOf, l
    <3> HIDE DEF e
    <3>3. QED
      BY <2>4, <3>1, <3>2
  <2>6. Len(SubSeq(l, 1, 0)) = 0
    BY <2>4
  <2>7. \A i \in 1 .. 0 : FALSE
    OBVIOUS
  <2>8. QED
    BY <2>5, <2>6, <2>7 DEF Lists!IdsOf
<1>6. Screen
  <2>1. page \in Nat \ {0} /\ list \in {"queue", "register"}
    BY <1>3
  <2>2. ~(page > Lists!PagesFor(Len(Lists!Rows)))
    BY <1>3, <1>4
  <2>3. QED
    BY <1>3, <1>5, <2>1, <2>2 DEF Screen
<1>7. QED
  BY <1>1, <1>2, <1>6 DEF ListInv

(* The screen stays as it is while the platform moves on.                  *)
LEMMA ScreenStays ==
    ASSUME Screen, UNCHANGED <<listed, list, tab, page, sort>>,
           glance'.taken = glance.taken, glance'.shown = glance.shown
    PROVE  Screen'
<1>1. Lists!Rows' = Lists!Rows /\ Lists!Paged' = Lists!Paged
  BY DEF Lists!Rows, Lists!Paged
<1>2. QED
  BY <1>1 DEF Screen

Comes ==
    /\ Screen' /\ glance'.wroteFor = glance.wroteFor
    /\ glance' = [shown |-> glance'.shown, taken |-> glance'.taken, wroteFor |-> glance'.wroteFor]
    /\ glance'.taken \in BOOLEAN
    /\ list = "register" => glance.shown \subseteq glance'.shown

(* What the history says of a new screen is so.                            *)
LEMMA ScreenComes ==
    ASSUME Shapes, NEW rs \in Seq(ListedRows), NEW t, NEW order, NEW p \in Nat \ {0},
           NEW taken \in BOOLEAN, list \in {"queue", "register"},
           listed' = rs, list' = list, tab' = t, sort' = order, page' = p,
           Lists!Showing(Lists!RowsOf(rs, list, t, order), p, taken),
           p > Lists!PagesFor(Len(Lists!RowsOf(rs, list, t, order))) => taken
    PROVE  Comes
<1> DEFINE l == Lists!RowsOf(rs, list, t, order)
           s == IF list = "queue" THEN {} ELSE glance.shown \union Lists!IdsOf(Lists!Slice(l, p))
<1>1. glance' = [shown |-> s, taken |-> taken, wroteFor |-> glance.wroteFor]
  BY DEF Lists!Showing, Shapes
<1>2. glance'.shown = s /\ glance'.taken = taken /\ glance'.wroteFor = glance.wroteFor
  BY <1>1
<1>3. Lists!Rows' = l /\ Lists!Paged' = Lists!Slice(l, p)
  BY DEF Lists!Rows, Lists!Paged
<1> HIDE DEF l
<1>4. list' = "register" => Lists!IdsOf(Lists!Paged') \subseteq glance'.shown
  BY <1>2, <1>3
<1>5. page' > Lists!PagesFor(Len(Lists!Rows')) => glance'.taken
  BY <1>2, <1>3 DEF l
<1>6. Screen'
  BY <1>4, <1>5 DEF Screen
<1>7. QED
  BY <1>1, <1>2, <1>6 DEF Comes

(* The platform moves on, and the screen stays.                            *)
LEMMA MovesKeep ==
    ASSUME ListInv, (\E g \in 1 .. 2 : Lists!Apply(g) \/ Lists!Decide(g)) \/ Lists!Tick
    PROVE  ListInv'
<1> USE DEF ListInv
<1>1. UNCHANGED <<listed, list, tab, page, sort, focused, selected, dialog, glance>>
  BY DEF Lists!Apply, Lists!Decide, Lists!Tick
<1>2. Shapes' /\ Ticked' /\ Written'
  BY <1>1 DEF Shapes, Ticked, Written
<1>3. Screen'
  BY <1>1, ScreenStays
<1>4. GymsOnce'
  <2>1. ASSUME NEW g \in 1 .. 2, Lists!Apply(g)
        PROVE  GymsOnce'
    <3>1. PICK s \in Moves :
             gyms' = [h \in DOMAIN gyms \union {g} |->
                        IF h = g THEN [status |-> s, at |-> now] ELSE gyms[h]]
      BY <2>1 DEF Lists!Apply
    <3>2. now' = now /\ now \in Nat /\ s \in Lists!Statuses /\ g \notin DOMAIN gyms
          /\ \A h \in DOMAIN gyms : gyms[h].at /= now
      BY <2>1, ListsAssumption DEF Lists!Apply, GymsOnce
    <3> DEFINE new == [status |-> s, at |-> now]
    <3>3. new \in [status : Lists!Statuses, at : Nat] /\ new.at = now
      BY <3>2
    <3>4. DOMAIN gyms' = DOMAIN gyms \union {g} /\ gyms'[g] = new
          /\ \A h \in DOMAIN gyms : gyms'[h] = gyms[h]
      BY <3>1, <3>2
    <3> HIDE DEF new
    <3>5. \A h \in DOMAIN gyms' : gyms'[h] \in [status : Lists!Statuses, at : Nat]
      BY <3>3, <3>4 DEF GymsOnce
    <3>6. \A h, k \in DOMAIN gyms' : h /= k => gyms'[h].at /= gyms'[k].at
      BY <3>2, <3>3, <3>4 DEF GymsOnce
    <3>7. QED
      BY <3>2, <3>4, <3>5, <3>6 DEF GymsOnce
  <2>2. ASSUME NEW g \in 1 .. 2, Lists!Decide(g)
        PROVE  GymsOnce'
    <3>1. PICK s \in Moves : gyms' = [gyms EXCEPT ![g].status = s]
      BY <2>2 DEF Lists!Decide
    <3>2. now' = now /\ s \in Lists!Statuses /\ g \in DOMAIN gyms
      BY <2>2, ListsAssumption DEF Lists!Decide
    <3>3. DOMAIN gyms' = DOMAIN gyms
      BY <3>1
    <3>4. ASSUME NEW h \in DOMAIN gyms
          PROVE  gyms'[h] \in [status : Lists!Statuses, at : Nat] /\ gyms'[h].at = gyms[h].at
      BY <3>1, <3>2 DEF GymsOnce
    <3>5. QED
      BY <3>2, <3>3, <3>4 DEF GymsOnce
  <2>3. ASSUME Lists!Tick
        PROVE  GymsOnce'
    BY <2>3, ListsAssumption DEF Lists!Tick, GymsOnce
  <2>4. QED
    BY <2>1, <2>2, <2>3
<1>5. QED
  BY <1>2, <1>3, <1>4

(* A poll may take the page, and says so.                                  *)
LEMMA PollKeeps == ASSUME ListInv, Lists!Poll PROVE ListInv'
<1> USE DEF ListInv
<1> DEFINE rs == Lists!GymRows
           l == Lists!RowsOf(rs, list, tab, sort)
           taken == page > Lists!PagesFor(Len(l))
<1>1. /\ listed' = rs /\ UNCHANGED <<gyms, now, list, tab, page, sort, selected, dialog>>
      /\ Lists!Showing(l, page, taken)
  BY DEF Lists!Poll
<1>2. rs \in Seq(ListedRows)
  BY PollBrings
<1>3. page \in Nat \ {0} /\ list \in {"queue", "register"} /\ taken \in BOOLEAN /\ Shapes
  BY DEF Screen
<1> HIDE DEF rs
<1>4. Comes
  BY <1>1, <1>2, <1>3, ScreenComes
<1>5. GymsOnce'
  BY <1>1 DEF GymsOnce
<1>6. Shapes' /\ Written'
  BY <1>1, <1>4 DEF Shapes, Written, Comes
<1>7. Ticked'
  BY <1>1, <1>3, <1>4 DEF Ticked, Comes
<1>8. QED
  BY <1>4, <1>5, <1>6, <1>7 DEF Comes

(* A tab, an order or a page.                                              *)
LEMMA TurningKeeps ==
    ASSUME ListInv,
           \/ \E t \in DOMAIN Lists!TabsOf(list) : Lists!SelectTab(t)
           \/ \E key \in {"age", "gym", "status"} : Lists!OnSort(key)
           \/ Lists!OnPage
    PROVE  ListInv'
<1> USE DEF ListInv
<1> DEFINE pages(l) == Lists!PagesFor(Len(l))
<1>0. listed \in Seq(ListedRows) /\ list \in {"queue", "register"} /\ page \in Nat \ {0}
  BY DEF Screen
<1>1. UNCHANGED <<gyms, now, listed, list, selected, dialog>>
  BY DEF Lists!SelectTab, Lists!OnSort, Lists!OnPage
<1>2. Comes
  <2>1. \A t, order : pages(Lists!RowsOf(listed, list, t, order)) \in Nat \ {0}
    BY <1>0, PageOfAList
  <2>2. ASSUME NEW t, Lists!SelectTab(t)
        PROVE  Comes
    <3>1. tab' = t /\ page' = 1 /\ sort' = sort
          /\ Lists!Showing(Lists!RowsOf(listed, list, t, sort), 1, FALSE)
      BY <2>2 DEF Lists!SelectTab
    <3>2. ~(1 > pages(Lists!RowsOf(listed, list, t, sort)))
      BY <2>1
    <3>3. 1 \in Nat \ {0} /\ FALSE \in BOOLEAN
      OBVIOUS
    <3>4. QED
      BY <1>0, <1>1, <3>1, <3>2, <3>3, ScreenComes
  <2>3. ASSUME NEW key, Lists!OnSort(key)
        PROVE  Comes
    <3> DEFINE order == sort'
    <3>1. tab' = tab /\ page' = 1 /\ sort' = order
          /\ Lists!Showing(Lists!RowsOf(listed, list, tab, order), 1, FALSE)
      BY <2>3 DEF Lists!OnSort
    <3> HIDE DEF order
    <3>2. ~(1 > pages(Lists!RowsOf(listed, list, tab, order)))
      BY <2>1
    <3>3. 1 \in Nat \ {0} /\ FALSE \in BOOLEAN
      OBVIOUS
    <3>4. QED
      BY <1>0, <1>1, <3>1, <3>2, <3>3, ScreenComes
  <2>4. ASSUME Lists!OnPage
        PROVE  Comes
    <3> DEFINE all == pages(Lists!Rows)
               taken(p) == IF p > all THEN glance.taken ELSE FALSE
    <3>1. PICK p \in Lists!Turns(page, all) :
             page' = p /\ Lists!Showing(Lists!Rows, p, taken(p))
      BY <2>4 DEF Lists!OnPage
    <3>2. tab' = tab /\ sort' = sort
      BY <2>4 DEF Lists!OnPage
    <3>3. all \in Nat \ {0}
      BY <2>1 DEF Lists!Rows
    <3>4. page > all => glance.taken
      BY DEF Screen
    <3> HIDE DEF all
    <3>5. p \in Nat \ {0} /\ (p > all => page > all)
      BY <1>0, <3>1, <3>3, TurnsAreOf
    <3>6. taken(p) \in BOOLEAN /\ (p > all => taken(p))
      BY <3>4, <3>5 DEF Shapes
    <3>7. Lists!Showing(Lists!RowsOf(listed, list, tab, sort), p, taken(p))
          /\ (p > pages(Lists!RowsOf(listed, list, tab, sort)) => taken(p))
      BY <3>1, <3>6 DEF Lists!Rows, all
    <3> HIDE DEF taken
    <3>8. QED
      BY <1>0, <1>1, <3>1, <3>2, <3>5, <3>6, <3>7, ScreenComes
  <2>5. QED
    BY <2>2, <2>3, <2>4, Zenon
<1>5. GymsOnce'
  BY <1>1 DEF GymsOnce
<1>6. Shapes' /\ Written'
  BY <1>1, <1>2 DEF Shapes, Written, Comes
<1>7. Ticked'
  BY <1>0, <1>1, <1>2 DEF Ticked, Comes
<1>8. QED
  BY <1>2, <1>5, <1>6, <1>7 DEF Comes

(* What is ticked is on the page.                                          *)
LEMMA TickingKeeps ==
    ASSUME ListInv,
           \/ Lists!Move \/ Lists!ToggleAll \/ Lists!Clear
           \/ \E g \in 1 .. 2 : Lists!Toggle(g)
    PROVE  ListInv'
<1> USE DEF ListInv
<1>1. UNCHANGED <<gyms, now, listed, list, tab, page, sort, dialog, glance>>
  BY DEF Lists!Move, Lists!ToggleAll, Lists!Clear, Lists!Toggle
<1>2. GymsOnce' /\ Shapes' /\ Written'
  BY <1>1 DEF GymsOnce, Shapes, Written
<1>3. Screen'
  BY <1>1, ScreenStays
<1>4. Ticked'
  <2>1. CASE Lists!Move
    BY <1>1, <2>1 DEF Lists!Move, Ticked
  <2> DEFINE seen == Lists!IdsOf(Lists!Paged)
  <2>2. ASSUME list = "register"
        PROVE  seen \subseteq glance.shown
    BY <2>2 DEF Screen
  <2> HIDE DEF seen
  <2>3. CASE Lists!ToggleAll
    <3>1. list = "register" /\ selected' \subseteq selected \union seen
      BY <2>3 DEF Lists!ToggleAll, seen
    <3>2. QED
      BY <1>1, <2>2, <3>1 DEF Ticked
  <2>4. CASE Lists!Clear
    BY <1>1, <2>4 DEF Lists!Clear, Ticked
  <2>5. ASSUME NEW g \in 1 .. 2, Lists!Toggle(g)
        PROVE  Ticked'
    <3>1. list = "register" /\ selected' \subseteq selected \union seen
      BY <2>5 DEF Lists!Toggle, seen
    <3>2. QED
      BY <1>1, <2>2, <3>1 DEF Ticked
  <2>6. QED
    BY <2>1, <2>3, <2>4, <2>5
<1>5. QED
  BY <1>2, <1>3, <1>4

(* A dialog opens empty, and what is written is for its row.               *)
LEMMA DialogKeeps ==
    ASSUME ListInv, Lists!Suspend \/ Lists!Write \/ Lists!Close
    PROVE  ListInv'
<1> USE DEF ListInv
<1>1. UNCHANGED <<gyms, now, listed, list, tab, page, sort, selected>>
  BY DEF Lists!Suspend, Lists!Write, Lists!Close
<1> DEFINE Opens == /\ dialog' = [row |-> dialog'.row, reason |-> dialog'.reason, typed |-> dialog'.typed]
                    /\ dialog'.reason \in Nat /\ Written'
                    /\ glance' = [shown |-> glance.shown, taken |-> glance.taken,
                                  wroteFor |-> glance'.wroteFor]
<1>2. Opens
  <2>1. CASE Lists!Suspend
    <3>1. PICK i : dialog' = [row |-> Lists!Paged[i].id, reason |-> 0, typed |-> Nobody]
      BY <2>1 DEF Lists!Suspend, Lists!Opened
    <3>2. glance' = [shown |-> glance.shown, taken |-> glance.taken, wroteFor |-> Nobody]
      BY <2>1 DEF Lists!Suspend, Shapes
    <3>3. QED
      BY <3>1, <3>2 DEF Written
  <2>2. CASE Lists!Close
    <3>1. dialog' = [row |-> Nobody, reason |-> dialog.reason, typed |-> dialog.typed]
          /\ glance' = glance
      BY <2>2 DEF Lists!Close, Shapes
    <3>2. QED
      BY <3>1 DEF Written, Shapes
  <2>3. CASE Lists!Write
    <3>1. ASSUME NEW length \in Nat, dialog' = [dialog EXCEPT !.reason = length],
                 glance' = [glance EXCEPT !.wroteFor = dialog.row]
          PROVE  Opens
      <4>1. dialog' = [row |-> dialog.row, reason |-> length, typed |-> dialog.typed]
            /\ glance' = [shown |-> glance.shown, taken |-> glance.taken, wroteFor |-> dialog.row]
        BY <3>1 DEF Shapes
      <4>2. QED
        BY <4>1 DEF Written
    <3>2. ASSUME NEW name, dialog' = [dialog EXCEPT !.typed = name], glance' = glance
          PROVE  Opens
      <4>1. dialog' = [row |-> dialog.row, reason |-> dialog.reason, typed |-> name]
        BY <3>2 DEF Shapes
      <4>2. dialog'.row = dialog.row /\ dialog'.reason = dialog.reason /\ dialog'.typed = name
        BY <4>1
      <4>3. Written'
        BY <3>2, <4>2 DEF Written
      <4>4. QED
        BY <3>2, <4>1, <4>2, <4>3 DEF Shapes
    <3>3. ReasonFloor - 1 \in Nat /\ ReasonFloor \in Nat
      BY ListsAssumption
    <3>4. \/ \E length \in Nat : /\ dialog' = [dialog EXCEPT !.reason = length]
                                 /\ glance' = [glance EXCEPT !.wroteFor = dialog.row]
          \/ \E name : dialog' = [dialog EXCEPT !.typed = name] /\ glance' = glance
      BY <2>3, <3>3 DEF Lists!Write
    <3>5. QED
      BY <3>1, <3>2, <3>4, Zenon
  <2>4. QED
    BY <2>1, <2>2, <2>3
<1>3. glance'.shown = glance.shown /\ glance'.taken = glance.taken
  BY <1>2
<1>4. GymsOnce'
  BY <1>1 DEF GymsOnce
<1>5. Shapes' /\ Ticked'
  BY <1>1, <1>2, <1>3 DEF Shapes, Ticked
<1>6. Screen'
  BY <1>1, <1>3, ScreenStays
<1>7. QED
  BY <1>2, <1>4, <1>5, <1>6

(* Each step of the lists.                                                 *)
LEMMA ListKept == ASSUME ListInv, Lists!Next \/ UNCHANGED listVars PROVE ListInv'
<1>1. CASE Lists!Next
  BY <1>1, MovesKeep, PollKeeps, TurningKeeps, TickingKeeps, DialogKeeps DEF Lists!Next
<1>2. CASE UNCHANGED listVars
  <2>1. UNCHANGED <<gyms, now, listed, list, tab, page, sort, focused, selected, dialog, glance>>
    BY <1>2 DEF listVars
  <2>2. GymsOnce' /\ Shapes' /\ Ticked' /\ Written'
    BY <2>1 DEF ListInv, GymsOnce, Shapes, Ticked, Written
  <2>3. Screen'
    BY <2>1, ScreenStays DEF ListInv
  <2>4. QED
    BY <2>2, <2>3 DEF ListInv
<1>3. QED
  BY <1>1, <1>2

(* What the reader was never shown, or did not write, is never acted on.   *)
LEMMA ListScreenSuffices ==
    ASSUME ListInv
    PROVE  Lists!NeverStranded /\ Lists!SelectedWereSeen /\ Lists!ReasonIsForThisGym
<1> USE DEF ListInv
<1>1. Lists!SelectedWereSeen
  BY DEF Lists!SelectedWereSeen, Ticked
<1>2. Lists!ReasonIsForThisGym
  <2>1. dialog.reason >= ReasonFloor => dialog.reason > 0
    BY ListsAssumption DEF Shapes
  <2>2. QED
    BY <2>1 DEF Lists!ReasonIsForThisGym, Lists!Ready, Written
<1>3. Lists!NeverStranded
  <2> SUFFICES ASSUME Lists!Rows /= <<>>, Lists!Paged = <<>>
               PROVE  /\ glance.taken
                      /\ \E p \in Lists!Turns(page, Lists!PagesFor(Len(Lists!Rows))) :
                            Lists!Slice(Lists!Rows, p) /= <<>>
    BY DEF Lists!NeverStranded
  <2> DEFINE all == Lists!PagesFor(Len(Lists!Rows))
  <2>1. listed \in Seq(ListedRows) /\ page \in Nat \ {0} /\ (page > all => glance.taken)
    BY DEF Screen
  <2>2. all \in Nat \ {0}
        /\ \A p \in Nat \ {0} : p <= all => Lists!Slice(Lists!Rows, p) /= <<>>
    BY <2>1, PageOfAList DEF Lists!Rows
  <2> HIDE DEF all
  <2>3. page > all
    BY <2>1, <2>2 DEF Lists!Paged
  <2>4. 1 \in Lists!Turns(page, all)
    BY <2>1, <2>2, TurnsAreOf
  <2>5. Lists!Slice(Lists!Rows, 1) /= <<>>
    BY <2>2
  <2>6. QED
    BY <2>1, <2>3, <2>4, <2>5 DEF all
<1>4. QED
  BY <1>1, <1>2, <1>3

-----------------------------------------------------------------------------
(* Gyms counted. *)
Having(S) == {g \in DOMAIN gyms : gyms[g].status \in S}

(* There are so many of them.                                              *)
LEMMA HavingIsFinite ==
    ASSUME GymsOnce, NEW S
    PROVE  IsFiniteSet(Having(S)) /\ Cardinality(Having(S)) \in Nat
<1>1. Having(S) \in SUBSET (DOMAIN gyms)
  BY DEF Having
<1>2. QED
  BY <1>1, TenantsInOrder, FS_Subset, FS_CardinalityType

(* Apart in status, apart in number.                                       *)
LEMMA HavingAdds ==
    ASSUME GymsOnce, NEW S, NEW T, S \intersect T = {}
    PROVE  Cardinality(Having(S \union T)) = Cardinality(Having(S)) + Cardinality(Having(T))
<1> DEFINE A == Having(S)
           B == Having(T)
<1>1. IsFiniteSet(A) /\ IsFiniteSet(B) /\ Cardinality(A) \in Nat /\ Cardinality(B) \in Nat
  BY HavingIsFinite
<1>2. A \intersect B = {} /\ Having(S \union T) = A \union B
  BY DEF Having
<1> HIDE DEF A, B
<1>3. Cardinality(A \union B) = Cardinality(A) + Cardinality(B) - Cardinality(A \intersect B)
  BY <1>1, FS_Union
<1>4. Cardinality({}) = 0
  BY FS_EmptySet
<1>5. Cardinality(Having(S \union T)) = Cardinality(A) + Cardinality(B)
  <2>1. Cardinality(A \intersect B) = 0
    BY <1>2, <1>4
  <2>2. Cardinality(A \union B) = Cardinality(A) + Cardinality(B)
    BY <1>1, <1>3, <2>1
  <2>3. QED
    BY <1>2, <2>2
<1>6. QED
  BY <1>5 DEF A, B

(* The gyms of one status.                                                 *)
LEMMA CountedByStatus ==
    ASSUME NEW status
    PROVE  Lists!CountByStatus(status) = Cardinality(Having({status}))
<1>1. Having({status}) = {g \in DOMAIN gyms : gyms[g].status = status}
  BY DEF Having
<1>2. QED
  BY <1>1, ListRanks DEF Lists!CountByStatus

(* The sum over statuses told apart is the number of gyms of any of them.  *)
LEMMA SumOverIs ==
    ASSUME GymsOnce, NEW m \in Nat, NEW s, Len(s) = m, DOMAIN s = 1 .. m,
           \A i, j \in 1 .. m : i /= j => s[i] /= s[j]
    PROVE  Lists!SumOver(s) = Cardinality(Having({s[i] : i \in 1 .. m}))
<1> DEFINE first(i) == {s[j] : j \in 1 .. i}
           f == [i \in 0 .. m |-> Cardinality(Having(first(i)))]
           c == [i \in 1 .. m |-> Lists!CountByStatus(s[i])]
<1>1. \A i \in 0 .. m : f[i] = Cardinality(Having(first(i)))
  OBVIOUS
<1>2. f \in [0 .. m -> Int]
  <2>1. ASSUME NEW i \in 0 .. m
        PROVE  Cardinality(Having(first(i))) \in Int
    BY HavingIsFinite
  <2>2. QED
    BY <2>1
<1>3. f[0] = 0
  <2>1. first(0) = {}
    OBVIOUS
  <2>2. Having({}) = {}
    BY DEF Having
  <2>3. 0 \in 0 .. m
    OBVIOUS
  <2> HIDE DEF f, first
  <2>4. QED
    BY <1>1, <2>1, <2>2, <2>3, FS_EmptySet
<1>4. ASSUME NEW i \in 1 .. m
      PROVE  f[i] = f[i - 1] + c[i]
  <2>1. first(i) = first(i - 1) \union {s[i]}
    <3>1. \A j \in 1 .. i : j \in 1 .. i - 1 \/ j = i
      OBVIOUS
    <3>2. \A j \in 1 .. i - 1 : j \in 1 .. i
      OBVIOUS
    <3>3. i \in 1 .. i
      OBVIOUS
    <3>4. QED
      BY <3>1, <3>2, <3>3
  <2>2. first(i - 1) \intersect {s[i]} = {}
    <3>1. \A j \in 1 .. i - 1 : j \in 1 .. m /\ j /= i
      OBVIOUS
    <3>2. QED
      BY <3>1
  <2>3. c[i] = Cardinality(Having({s[i]}))
    BY CountedByStatus
  <2>4. i \in 0 .. m /\ i - 1 \in 0 .. m
    OBVIOUS
  <2> HIDE DEF first, f, c
  <2>5. Cardinality(Having(first(i - 1) \union {s[i]}))
          = Cardinality(Having(first(i - 1))) + Cardinality(Having({s[i]}))
    BY <2>2, HavingAdds
  <2>6. QED
    BY <1>1, <2>1, <2>3, <2>4, <2>5
<1>5. c \in [1 .. m -> Int]
  <2>1. ASSUME NEW i \in 1 .. m
        PROVE  Lists!CountByStatus(s[i]) \in Int
    <3>1. Cardinality(Having({s[i]})) \in Nat
      BY HavingIsFinite
    <3>2. QED
      BY <3>1, CountedByStatus
  <2>2. QED
    BY <2>1
<1>6. Lists!SumOver(s) = Sums!SumOf(c)
  BY ListRanks DEF Lists!SumOver
<1> HIDE DEF f, c
<1>7. IsSum(f, c, m)
  BY <1>2, <1>3, <1>4 DEF IsSum
<1>8. Sums!Len(c) = m
  BY <1>5, ListOf
<1>9. Sums!SumOf(c) = f[m]
  BY <1>7, <1>8, SumIs
<1>10. m \in 0 .. m
  OBVIOUS
<1>11. f[m] = Cardinality(Having(first(m)))
  BY <1>1, <1>10
<1>12. QED
  BY <1>6, <1>9, <1>11

(* Of the statuses there are, in the order of the source. *)
LEMMA StatusLists ==
    /\ Len(Lists!AllStatuses) = 8 /\ DOMAIN Lists!AllStatuses = 1 .. 8
    /\ \A i, j \in 1 .. 8 : i /= j => Lists!AllStatuses[i] /= Lists!AllStatuses[j]
    /\ {Lists!AllStatuses[i] : i \in 1 .. 8} = Lists!Statuses
    /\ Len(Lists!AllAwaiting) = 3 /\ DOMAIN Lists!AllAwaiting = 1 .. 3
    /\ \A i, j \in 1 .. 3 : i /= j => Lists!AllAwaiting[i] /= Lists!AllAwaiting[j]
    /\ {Lists!AllAwaiting[i] : i \in 1 .. 3} = Lists!Awaiting
    /\ Lists!Awaiting = {"SUBMITTED", "UNDER_REVIEW", "INFO_REQUESTED"}
    /\ Lists!Statuses = {"DRAFT", "SUBMITTED", "UNDER_REVIEW", "INFO_REQUESTED",
                         "APPROVED", "REJECTED", "SUSPENDED", "CLOSED"}
<1> DEFINE s == Lists!AllStatuses
           a == Lists!AllAwaiting
<1>1. /\ Len(s) = 8 /\ DOMAIN s = 1 .. 8
      /\ s[1] = "DRAFT" /\ s[2] = "SUBMITTED" /\ s[3] = "UNDER_REVIEW" /\ s[4] = "INFO_REQUESTED"
      /\ s[5] = "APPROVED" /\ s[6] = "REJECTED" /\ s[7] = "SUSPENDED" /\ s[8] = "CLOSED"
  BY DEF Lists!AllStatuses
<1>2. /\ Len(a) = 3 /\ DOMAIN a = 1 .. 3
      /\ a[1] = "SUBMITTED" /\ a[2] = "UNDER_REVIEW" /\ a[3] = "INFO_REQUESTED"
  BY DEF Lists!AllAwaiting
<1>3. \A i \in 1 .. 8 : i \in {1, 2, 3, 4, 5, 6, 7, 8}
  OBVIOUS
<1>4. \A i \in 1 .. 3 : i \in {1, 2, 3}
  OBVIOUS
<1>5. Lists!Statuses = {s[i] : i \in 1 .. 8}
  BY <1>1, ListRanks DEF Lists!Statuses
<1>6. Lists!Awaiting = {a[i] : i \in 1 .. 3}
  BY <1>2, ListRanks DEF Lists!Awaiting
<1> HIDE DEF s, a
<1>7. \A i, j \in 1 .. 8 : i /= j => s[i] /= s[j]
  BY <1>1, <1>3
<1>8. \A i, j \in 1 .. 3 : i /= j => a[i] /= a[j]
  BY <1>2, <1>4
<1>9. {a[i] : i \in 1 .. 3} = {"SUBMITTED", "UNDER_REVIEW", "INFO_REQUESTED"}
  BY <1>2, <1>4
<1>10. {s[i] : i \in 1 .. 8} = {"DRAFT", "SUBMITTED", "UNDER_REVIEW", "INFO_REQUESTED",
                                "APPROVED", "REJECTED", "SUSPENDED", "CLOSED"}
  BY <1>1, <1>3
<1>11. QED
  BY <1>1, <1>2, <1>5, <1>6, <1>7, <1>8, <1>9, <1>10 DEF s, a

(* What a poll brought that is of some statuses is the gyms of them.       *)
LEMMA BroughtAreThere ==
    ASSUME GymsOnce, Cardinality(DOMAIN gyms) <= ListLimit, NEW T
    PROVE  LET I == {i \in DOMAIN Lists!GymRows : Lists!GymRows[i].status \in T}
           IN  /\ IsFiniteSet(I) /\ Cardinality(I) = Cardinality(Having(T))
               /\ \A i \in I : Tenants[i] \in Having(T)
               /\ \A i \in DOMAIN Lists!GymRows :
                     /\ Tenants[i] \in DOMAIN gyms
                     /\ Lists!GymRows[i] = Lists!Row(Tenants[i])
               /\ \A i, j \in DOMAIN Lists!GymRows : i /= j => Tenants[i] /= Tenants[j]
               /\ \A g \in Having(T) : \E i \in I : Tenants[i] = g
<1> DEFINE D == DOMAIN gyms
           n == Cardinality(D)
           rs == Lists!GymRows
           I == {i \in DOMAIN rs : rs[i].status \in T}
<1>1. /\ n \in Nat /\ Tenants \in [1 .. n -> D]
      /\ \A i, j \in 1 .. n : i < j => Tenants[i] \in Newer[Tenants[j]]
      /\ \A x \in D : \E j \in 1 .. n : Tenants[j] = x
  BY TenantsInOrder DEF ListedInOrder
<1>2. Brought = n
  BY <1>1, ListsAssumption DEF Brought
<1>3. rs \in Seq(ListedRows) /\ Len(rs) = n /\ \A i \in 1 .. n : rs[i] = Lists!Row(Tenants[i])
  BY <1>2, PollBrings
<1> HIDE DEF n, rs
<1>4. DOMAIN rs = 1 .. n
  BY <1>3
<1>5. \A x \in D : x \notin Newer[x]
  <2>1. \A x \in D : ~(gyms[x].at > gyms[x].at)
    BY DEF GymsOnce
  <2>2. QED
    BY <2>1 DEF Newer
<1> HIDE DEF D
<1>6. \A i, j \in 1 .. n : i /= j => Tenants[i] /= Tenants[j]
  <2>1. \A i, j \in 1 .. n : i < j => Tenants[i] /= Tenants[j]
    BY <1>1, <1>5
  <2>2. QED
    BY <1>1, <2>1
<1>7. \A i \in 1 .. n : rs[i].status = gyms[Tenants[i]].status
  BY <1>3 DEF Lists!Row
<1>8. I = {i \in 1 .. n : gyms[Tenants[i]].status \in T} /\ I \in SUBSET (1 .. n)
  BY <1>4, <1>7
<1> HIDE DEF I
<1>9. \A i \in I : Tenants[i] \in Having(T)
  BY <1>1, <1>8 DEF Having, D
<1>10. \A g \in Having(T) : \E i \in I : Tenants[i] = g
  BY <1>1, <1>8 DEF Having, D
<1>11. IsFiniteSet(I)
  BY <1>1, <1>8, CountUpTo, FS_Subset
<1>12. Cardinality(I) = Cardinality(Having(T))
  <2> DEFINE h == [i \in I |-> Tenants[i]]
  <2>1. h \in Bijection(I, Having(T))
    <3>1. h \in [I -> Having(T)]
      BY <1>9
    <3>2. \A i, j \in I : h[i] = h[j] => i = j
      BY <1>6, <1>8
    <3>3. \A g \in Having(T) : \E i \in I : h[i] = g
      BY <1>10
    <3> HIDE DEF h
    <3>4. h \in Injection(I, Having(T))
      BY <3>1, <3>2 DEF Injection, IsInjective
    <3>5. h \in Surjection(I, Having(T))
      BY <3>1, <3>3 DEF Surjection
    <3>6. QED
      BY <3>4, <3>5 DEF Bijection
  <2>2. ExistsBijection(I, Having(T))
    BY <2>1 DEF ExistsBijection
  <2>3. QED
    BY <1>11, <2>2, FS_Bijection
<1>13. QED
  BY <1>1, <1>3, <1>4, <1>6, <1>9, <1>10, <1>11, <1>12 DEF I, rs, D

(* No gym is on two tabs.                                                  *)
LEMMA TabsApart ==
    /\ Lists!TabsOf("queue")["all"] = Lists!Awaiting
    /\ Lists!TabsOf("register")["active"] = {"APPROVED"}
    /\ Lists!TabsOf("register")["pending"] = Lists!Awaiting
    /\ Lists!TabsOf("register")["suspended"] = {"SUSPENDED"}
    /\ Lists!TabsOf("register")["rejected"] = {"REJECTED"}
    /\ Lists!TabsOf("register")["draft"] = {"DRAFT", "CLOSED"}
    /\ \A which \in {"queue", "register"} :
         \A s, t \in DOMAIN Lists!TabsOf(which) \ {"all"} :
            s /= t => Lists!TabsOf(which)[s] \intersect Lists!TabsOf(which)[t] = {}
<1> DEFINE q == Lists!TabsOf("queue")
           r == Lists!TabsOf("register")
<1>1. /\ DOMAIN q = {"all", "INFO_REQUESTED", "UNDER_REVIEW", "SUBMITTED", "APPROVED", "REJECTED"}
      /\ q["all"] = Lists!Awaiting
      /\ \A t \in DOMAIN q \ {"all"} : q[t] = {t}
  BY DEF Lists!TabsOf, Lists!QueueTabs
<1>2. /\ DOMAIN r = {"all", "active", "pending", "suspended", "rejected", "draft"}
      /\ r["active"] = {"APPROVED"} /\ r["pending"] = Lists!Awaiting
      /\ r["suspended"] = {"SUSPENDED"} /\ r["rejected"] = {"REJECTED"}
      /\ r["draft"] = {"DRAFT", "CLOSED"}
  BY DEF Lists!TabsOf, Lists!RegisterTabs
<1>3. Lists!Awaiting = {"SUBMITTED", "UNDER_REVIEW", "INFO_REQUESTED"}
  BY StatusLists
<1> HIDE DEF q, r
<1>4. \A s, t \in DOMAIN q \ {"all"} : s /= t => q[s] \intersect q[t] = {}
  BY <1>1
<1>5. ASSUME NEW s \in DOMAIN r \ {"all"}, NEW t \in DOMAIN r \ {"all"}, s /= t
      PROVE  r[s] \intersect r[t] = {}
  <2>1. s \in {"active", "pending", "suspended", "rejected", "draft"}
        /\ t \in {"active", "pending", "suspended", "rejected", "draft"}
    BY <1>2
  <2>2. CASE s = "active"
    BY <1>2, <1>3, <1>5, <2>1, <2>2
  <2>3. CASE s = "pending"
    BY <1>2, <1>3, <1>5, <2>1, <2>3
  <2>4. CASE s = "suspended"
    BY <1>2, <1>3, <1>5, <2>1, <2>4
  <2>5. CASE s = "rejected"
    BY <1>2, <1>3, <1>5, <2>1, <2>5
  <2>6. CASE s = "draft"
    BY <1>2, <1>3, <1>5, <2>1, <2>6
  <2>7. QED
    BY <2>1, <2>2, <2>3, <2>4, <2>5, <2>6
<1>6. QED
  BY <1>1, <1>2, <1>4, <1>5 DEF q, r

(* So the count on a tab is that of the gyms of its statuses.              *)
LEMMA CountedOn ==
    ASSUME GymsOnce, Cardinality(DOMAIN gyms) <= ListLimit, NEW which, NEW t
    PROVE  Lists!CountOn(Lists!GymRows, which, t) = Cardinality(Having(Lists!TabsOf(which)[t]))
<1>1. Lists!GymRows \in Seq(ListedRows)
  BY PollBrings
<1>2. Lists!CountOn(Lists!GymRows, which, t)
        = Cardinality({i \in DOMAIN Lists!GymRows :
                         Lists!GymRows[i].status \in Lists!TabsOf(which)[t]})
  BY <1>1, AdmittedOf
<1> DEFINE T == Lists!TabsOf(which)[t]
<1> HIDE DEF T
<1>3. Cardinality({i \in DOMAIN Lists!GymRows : Lists!GymRows[i].status \in T})
        = Cardinality(Having(T))
  BY BroughtAreThere
<1>4. QED
  BY <1>2, <1>3 DEF T

(* The clock of an application stands while the applicant is asked.        *)
LEMMA PausedIsAsked ==
    ASSUME NEW g \in DOMAIN gyms, gyms[g].status \in Lists!Awaiting
    PROVE  Lists!Row(g).sla = "PAUSED" <=> gyms[g].status = "INFO_REQUESTED"
<1>1. Lists!Row(g).sla = Lists!SlaFor(gyms[g].status, gyms[g].at, now)
  BY DEF Lists!Row
<1>2. QED
  BY <1>1 DEF Lists!SlaFor

(* The paused ones of the queue are those asked.                           *)
LEMMA PausedCounted ==
    ASSUME GymsOnce, Cardinality(DOMAIN gyms) <= ListLimit
    PROVE  Lists!InState(Lists!Admitted(Lists!GymRows, "queue", "all"), "PAUSED")
             = Cardinality(Having({"INFO_REQUESTED"}))
<1> DEFINE rs == Lists!GymRows
           T == Lists!Awaiting
           I == {i \in DOMAIN rs : rs[i].status \in T}
           a == Lists!Admitted(rs, "queue", "all")
           at == Ranked(I, Less(I))
           c == Cardinality(I)
           K == {k \in 1 .. c : a[k].sla = "PAUSED"}
           R == Having({"INFO_REQUESTED"})
<1>1. rs \in Seq(ListedRows) /\ DOMAIN rs = 1 .. Len(rs) /\ Len(rs) \in Nat
  BY PollBrings
<1>2. Lists!TabsOf("queue")["all"] = T
  BY TabsApart
<1>3. /\ \A i \in I : Tenants[i] \in Having(T)
      /\ \A i \in DOMAIN rs : rs[i] = Lists!Row(Tenants[i])
      /\ \A i, j \in DOMAIN rs : i /= j => Tenants[i] /= Tenants[j]
      /\ \A g \in Having(T) : \E i \in I : Tenants[i] = g
  <2> HIDE DEF T
  <2>1. QED
    BY BroughtAreThere
<1>4. I \in SUBSET (DOMAIN rs)
  OBVIOUS
<1>5. a = Picked(rs, I)
  <2>1. a = Picked(rs, {i \in DOMAIN rs : rs[i].status \in Lists!TabsOf("queue")["all"]})
    BY <1>1, AdmittedOf
  <2>2. QED
    BY <1>2, <2>1
<1> HIDE DEF rs, I, a
<1>6. /\ c \in Nat /\ Len(a) = c /\ at \in [1 .. c -> I]
      /\ \A k \in 1 .. c : a[k] = rs[at[k]]
      /\ \A i, j \in 1 .. c : i < j => at[i] < at[j]
      /\ \A x \in I : \E j \in 1 .. c : at[j] = x
  BY <1>1, <1>4, <1>5, PickedOf
<1> HIDE DEF c, at
<1>7. Lists!InState(a, "PAUSED") = Cardinality(K)
  BY <1>6, ListRanks DEF Lists!InState
<1>8. ASSUME NEW k \in 1 .. c
      PROVE  /\ Tenants[at[k]] \in Having(T)
             /\ a[k].sla = "PAUSED" <=> Tenants[at[k]] \in R
  <2> DEFINE g == Tenants[at[k]]
  <2>1. at[k] \in I /\ at[k] \in DOMAIN rs
    BY <1>4, <1>6
  <2>2. g \in Having(T) /\ a[k] = Lists!Row(g)
    BY <1>3, <1>6, <2>1
  <2> HIDE DEF g
  <2>3. g \in DOMAIN gyms /\ gyms[g].status \in Lists!Awaiting
    BY <2>2 DEF Having
  <2>4. a[k].sla = "PAUSED" <=> gyms[g].status = "INFO_REQUESTED"
    BY <2>2, <2>3, PausedIsAsked
  <2>5. g \in R <=> gyms[g].status = "INFO_REQUESTED"
    BY <2>3 DEF Having
  <2>6. QED
    BY <2>2, <2>4, <2>5 DEF g
<1>9. \A i, j \in 1 .. c : i /= j => Tenants[at[i]] /= Tenants[at[j]]
  <2>1. \A i, j \in 1 .. c : i /= j => at[i] /= at[j]
    <3>1. \A i \in 1 .. c : at[i] \in Int
      BY <1>1, <1>4, <1>6
    <3>2. \A i, j \in 1 .. c : i < j => at[i] /= at[j]
      BY <1>6, <3>1
    <3>3. QED
      BY <1>6, <3>2
  <2>2. QED
    BY <1>3, <1>4, <1>6, <2>1
<1>10. R \subseteq Having(T)
  BY StatusLists DEF Having
<1>11. \A g \in R : \E k \in 1 .. c : Tenants[at[k]] = g
  BY <1>3, <1>6, <1>10
<1> HIDE DEF R, T
<1>12. K \in SUBSET (1 .. c) /\ IsFiniteSet(K)
  BY <1>6, CountUpTo, FS_Subset
<1> DEFINE h == [k \in K |-> Tenants[at[k]]]
<1>13. h \in [K -> R]
  BY <1>8
<1>14. \A i, j \in K : h[i] = h[j] => i = j
  BY <1>9
<1>15. \A g \in R : \E k \in K : h[k] = g
  BY <1>8, <1>11
<1>16. DOMAIN h = K
  OBVIOUS
<1> HIDE DEF h, K
<1>17. h \in Bijection(K, R)
  BY <1>13, <1>14, <1>15, <1>16 DEF Bijection, Injection, Surjection, IsInjective
<1>18. Cardinality(R) = Cardinality(K)
  <2>1. ExistsBijection(K, R)
    BY <1>17 DEF ExistsBijection
  <2>2. QED
    BY <1>12, <2>1, FS_Bijection
<1>19. QED
  BY <1>7, <1>18 DEF R, a, rs

(* However many gyms there are, up to the limit of the list.               *)
LEMMA CountsAlwaysAgree == ASSUME GymsOnce PROVE Lists!CountsAgree
<1> SUFFICES ASSUME Cardinality(DOMAIN gyms) <= ListLimit
             PROVE  Lists!CountsAgree
  BY ListRanks DEF Lists!CountsAgree
<1> DEFINE C(S) == Cardinality(Having(S))
           count(t) == Lists!CountOn(Lists!GymRows, "register", t)
           waiting == Lists!Admitted(Lists!GymRows, "queue", "all")
<1>1. Lists!SumOver(Lists!AllStatuses) = C(Lists!Statuses)
      /\ Lists!SumOver(Lists!AllAwaiting) = C(Lists!Awaiting)
  <2>1. 8 \in Nat /\ 3 \in Nat
    OBVIOUS
  <2>2. Lists!SumOver(Lists!AllStatuses)
          = Cardinality(Having({Lists!AllStatuses[i] : i \in 1 .. 8}))
    <3> DEFINE m == 8
    <3>1. m \in Nat
      OBVIOUS
    <3>2. /\ Len(Lists!AllStatuses) = m /\ DOMAIN Lists!AllStatuses = 1 .. m
          /\ \A i, j \in 1 .. m : i /= j => Lists!AllStatuses[i] /= Lists!AllStatuses[j]
      BY StatusLists
    <3> HIDE DEF m
    <3>3. Lists!SumOver(Lists!AllStatuses)
            = Cardinality(Having({Lists!AllStatuses[i] : i \in 1 .. m}))
      BY <3>1, <3>2, SumOverIs
    <3>4. QED
      BY <3>3 DEF m
  <2>3. Lists!SumOver(Lists!AllAwaiting)
          = Cardinality(Having({Lists!AllAwaiting[i] : i \in 1 .. 3}))
    <3> DEFINE m == 3
    <3>1. m \in Nat
      OBVIOUS
    <3>2. /\ Len(Lists!AllAwaiting) = m /\ DOMAIN Lists!AllAwaiting = 1 .. m
          /\ \A i, j \in 1 .. m : i /= j => Lists!AllAwaiting[i] /= Lists!AllAwaiting[j]
      BY StatusLists
    <3> HIDE DEF m
    <3>3. Lists!SumOver(Lists!AllAwaiting)
            = Cardinality(Having({Lists!AllAwaiting[i] : i \in 1 .. m}))
      BY <3>1, <3>2, SumOverIs
    <3>4. QED
      BY <3>3 DEF m
  <2>4. QED
    BY <2>2, <2>3, StatusLists
<1>2. Lists!CountOn(Lists!GymRows, "queue", "all") = Lists!Overview.awaitingReview
  <2>1. Lists!Overview.awaitingReview = Lists!SumOver(Lists!AllAwaiting)
    BY DEF Lists!Overview
  <2>2. QED
    BY <1>1, <2>1, CountedOn, TabsApart
<1>3. \A which \in {"queue", "register"} :
        LET tabs == DOMAIN Lists!TabsOf(which) \ {"all"}
        IN  \A s, t \in tabs :
               s /= t => Lists!TabsOf(which)[s] \intersect Lists!TabsOf(which)[t] = {}
  BY TabsApart
<1>4. count("active") + count("pending") + count("suspended") + count("rejected") + count("draft")
        = Lists!Overview.count
  <2>1. /\ count("active") = C({"APPROVED"}) /\ count("pending") = C(Lists!Awaiting)
        /\ count("suspended") = C({"SUSPENDED"}) /\ count("rejected") = C({"REJECTED"})
        /\ count("draft") = C({"DRAFT", "CLOSED"})
    <3>1. \A t : count(t) = C(Lists!TabsOf("register")[t])
      BY CountedOn
    <3> HIDE DEF count, C
    <3>2. QED
      BY <3>1, TabsApart
  <2>2. Lists!Overview.count = C(Lists!Statuses)
    BY <1>1 DEF Lists!Overview
  <2> DEFINE A == {"APPROVED"}
             B == A \union Lists!Awaiting
             D == B \union {"SUSPENDED"}
             E == D \union {"REJECTED"}
             F == E \union {"DRAFT", "CLOSED"}
  <2>3. C(B) = C(A) + C(Lists!Awaiting)
    <3>1. A \intersect Lists!Awaiting = {}
      BY StatusLists
    <3>2. QED
      BY <3>1, HavingAdds
  <2>4. C(D) = C(B) + C({"SUSPENDED"})
    <3>1. B \intersect {"SUSPENDED"} = {}
      BY StatusLists
    <3>2. QED
      BY <3>1, HavingAdds
  <2>5. C(E) = C(D) + C({"REJECTED"})
    <3>1. D \intersect {"REJECTED"} = {}
      BY StatusLists
    <3>2. QED
      BY <3>1, HavingAdds
  <2>6. C(F) = C(E) + C({"DRAFT", "CLOSED"})
    <3>1. E \intersect {"DRAFT", "CLOSED"} = {}
      BY StatusLists
    <3>2. QED
      BY <3>1, HavingAdds
  <2>7. F = Lists!Statuses
    BY StatusLists
  <2>8. /\ C(A) \in Nat /\ C(Lists!Awaiting) \in Nat /\ C({"SUSPENDED"}) \in Nat
        /\ C({"REJECTED"}) \in Nat /\ C({"DRAFT", "CLOSED"}) \in Nat
    BY HavingIsFinite
  <2> HIDE DEF C, F, E, D, B, A, count
  <2>9. C({"APPROVED"}) = C(A)
    BY DEF A
  <2>10. C(Lists!Statuses)
           = C(A) + C(Lists!Awaiting) + C({"SUSPENDED"}) + C({"REJECTED"}) + C({"DRAFT", "CLOSED"})
    BY <2>3, <2>4, <2>5, <2>6, <2>7, <2>8
  <2>11. QED
    BY <2>1, <2>2, <2>9, <2>10
<1>5. count("active") = Lists!Overview.listed
  <2>1. Lists!Overview.listed = Lists!CountByStatus("APPROVED")
    BY DEF Lists!Overview
  <2>2. QED
    BY <2>1, CountedByStatus, CountedOn, TabsApart
<1>6. Lists!Summary(waiting).paused = Lists!Overview.byStatus["INFO_REQUESTED"]
  <2>1. Lists!Overview.byStatus["INFO_REQUESTED"] = Lists!CountByStatus("INFO_REQUESTED")
    BY StatusLists DEF Lists!Overview
  <2>2. Lists!Summary(waiting).paused = Lists!InState(waiting, "PAUSED")
    BY DEF Lists!Summary
  <2>3. QED
    BY <2>1, <2>2, PausedCounted, CountedByStatus
<1>7. QED
  BY <1>2, <1>3, <1>4, <1>5, <1>6, Zenon DEF Lists!CountsAgree

-----------------------------------------------------------------------------
(* Hours, rounded towards zero. *)
LEMMA TruncIsMonotone ==
    ASSUME NEW a \in Int, NEW b \in Int, a <= b, NEW d \in Nat \ {0}
    PROVE  Lists!Trunc(a, d) <= Lists!Trunc(b, d)
<1>1. CASE a >= 0
  BY <1>1, DivIsMonotone DEF Lists!Trunc
<1>2. CASE a < 0 /\ b >= 0
  <2>1. (-a) \div d \in Nat /\ b \div d \in Nat
    BY <1>2, DivSign
  <2>2. QED
    BY <1>2, <2>1 DEF Lists!Trunc
<1>3. CASE a < 0 /\ b < 0
  <2>1. (-b) \div d <= (-a) \div d
    <3>1. -b <= -a /\ -b \in Int /\ -a \in Int
      BY <1>3
    <3>2. QED
      BY <3>1, DivIsMonotone
  <2>2. (-b) \div d \in Int /\ (-a) \div d \in Int
    BY Quotient
  <2>3. QED
    BY <1>3, <2>1, <2>2 DEF Lists!Trunc
<1>4. QED
  BY <1>1, <1>2, <1>3

(* What is rounded to more than h is an hour more than h hours.            *)
LEMMA TruncOf ==
    ASSUME NEW n \in Int, NEW d \in Nat \ {0}
    PROVE  /\ Lists!Trunc(n, d) \in Int
           /\ n <= 0 => Lists!Trunc(n, d) <= 0
           /\ \A h \in Nat : Lists!Trunc(n, d) > h => n >= d * h + d
<1>1. Lists!Trunc(n, d) \in Int
  BY Quotient DEF Lists!Trunc
<1>2. n <= 0 => Lists!Trunc(n, d) <= 0
  <2>1. Lists!Trunc(0, d) = 0
    BY DEF Lists!Trunc
  <2>2. QED
    BY <2>1, TruncIsMonotone
<1>3. ASSUME NEW h \in Nat, Lists!Trunc(n, d) > h
      PROVE  n >= d * h + d
  <2> DEFINE q == n \div d
  <2>1. n > 0
    BY <1>1, <1>2, <1>3
  <2>2. q \in Int /\ d * q <= n
    BY Quotient
  <2>3. q > h
    BY <1>3, <2>1 DEF Lists!Trunc
  <2> HIDE DEF q
  <2>4. q >= h + 1
    BY <2>2, <2>3
  <2>5. d * q >= d * (h + 1)
    BY <2>2, <2>4
  <2>6. d * (h + 1) = d * h + d /\ d * h \in Int /\ d * q \in Int
    BY <2>2
  <2>7. QED
    BY <2>2, <2>5, <2>6
<1>4. QED
  BY <1>1, <1>2, <1>3

(* A row: how long it has waited, and how late it is called.               *)
Waited(g) == now - gyms[g].at

(* They are the row's.                                                     *)
LEMMA AgeOf ==
    ASSUME GymsOnce, NEW g \in DOMAIN gyms
    PROVE  /\ gyms[g].at \in Nat /\ now \in Nat /\ Waited(g) \in Int
           /\ TicksPerHour \in Nat \ {0} /\ TargetHours \in Nat /\ SoonHours \in Nat
           /\ TargetHours * TicksPerHour \in Nat
           /\ Lists!Row(g).age = Waited(g) \div TicksPerHour /\ Lists!Row(g).age \in Int
           /\ Lists!HoursRemaining(gyms[g].at, now)
                = Lists!Trunc(TargetHours * TicksPerHour - Waited(g), TicksPerHour)
           /\ Lists!Row(g).sla = Lists!SlaFor(gyms[g].status, gyms[g].at, now)
<1>1. gyms[g].at \in Nat /\ now \in Nat
  BY DEF GymsOnce
<1>2. TicksPerHour \in Nat \ {0} /\ TargetHours \in Nat /\ SoonHours \in Nat
  BY ListsAssumption
<1>3. TargetHours * TicksPerHour \in Nat
  BY <1>2
<1>4. Waited(g) \in Int
  BY <1>1 DEF Waited
<1>5. Lists!Row(g).age = Waited(g) \div TicksPerHour
      /\ Lists!Row(g).sla = Lists!SlaFor(gyms[g].status, gyms[g].at, now)
  BY DEF Lists!Row, Waited
<1>6. Waited(g) \div TicksPerHour \in Int
  BY <1>2, <1>4, Quotient
<1>7. Lists!HoursRemaining(gyms[g].at, now)
        = Lists!Trunc(TargetHours * TicksPerHour - Waited(g), TicksPerHour)
  <2> DEFINE H == TargetHours * TicksPerHour
  <2>1. H \in Int
    BY <1>3
  <2> HIDE DEF H
  <2>2. gyms[g].at + H - now = H - Waited(g)
    BY <1>1, <2>1 DEF Waited
  <2>3. QED
    BY <2>2 DEF Lists!HoursRemaining, H
<1>8. QED
  BY <1>1, <1>2, <1>3, <1>4, <1>5, <1>6, <1>7

(* Of two whose clocks run, the one that is older by the hour is no less   *)
(* late.                                                                   *)
LEMMA LatenessGrows ==
    ASSUME GymsOnce, NEW g \in DOMAIN gyms, NEW h \in DOMAIN gyms,
           Lists!Row(g).sla \in DOMAIN Lists!Lateness, Lists!Row(h).sla \in DOMAIN Lists!Lateness,
           Lists!Row(g).age > Lists!Row(h).age
    PROVE  Lists!Lateness[Lists!Row(g).sla] >= Lists!Lateness[Lists!Row(h).sla]
<1> DEFINE T == TicksPerHour
           H == TargetHours * TicksPerHour
           a == Waited(g)
           b == Waited(h)
           p == Lists!HoursRemaining(gyms[g].at, now)
           q == Lists!HoursRemaining(gyms[h].at, now)
           L == Lists!Lateness
           sla(r) == IF r <= 0 THEN "BREACHED" ELSE IF r <= SoonHours THEN "APPROACHING" ELSE "WITHIN"
<1>1. /\ a \in Int /\ b \in Int /\ T \in Nat \ {0} /\ H \in Nat /\ SoonHours \in Nat
      /\ p = Lists!Trunc(H - a, T) /\ q = Lists!Trunc(H - b, T)
      /\ Lists!Row(g).age = a \div T /\ Lists!Row(h).age = b \div T
  BY AgeOf
<1>2. L = [WITHIN |-> 1, APPROACHING |-> 2, BREACHED |-> 3]
  BY DEF Lists!Lateness
<1>3. Lists!Row(g).sla = sla(p) /\ Lists!Row(h).sla = sla(q)
  <2>1. \A k \in DOMAIN gyms : Lists!Row(k).sla \in DOMAIN L =>
           Lists!Row(k).sla = sla(Lists!HoursRemaining(gyms[k].at, now))
    <3>1. ASSUME NEW k \in DOMAIN gyms, Lists!Row(k).sla \in DOMAIN L
          PROVE  Lists!Row(k).sla = sla(Lists!HoursRemaining(gyms[k].at, now))
      <4>1. Lists!Row(k).sla = Lists!SlaFor(gyms[k].status, gyms[k].at, now)
        BY AgeOf
      <4>2. Lists!Row(k).sla /= "none" /\ Lists!Row(k).sla /= "PAUSED"
        BY <1>2, <3>1
      <4>3. QED
        BY <4>1, <4>2 DEF Lists!SlaFor
    <3>2. QED
      BY <3>1
  <2>2. QED
    BY <2>1
<1> HIDE DEF a, b, p, q, T, H
<1>4. a > b
  <2>1. a \div T > b \div T /\ a \div T \in Int /\ b \div T \in Int
    BY <1>1, Quotient
  <2>2. a <= b => a \div T <= b \div T
    BY <1>1, DivIsMonotone
  <2>3. QED
    BY <1>1, <2>2
<1>5. p <= q /\ p \in Int /\ q \in Int
  <2>1. H - a \in Int /\ H - b \in Int /\ H - a <= H - b
    BY <1>1, <1>4
  <2>2. QED
    BY <1>1, <2>1, TruncIsMonotone, TruncOf
<1>6. \/ sla(p) = "BREACHED" \/ sla(q) = "WITHIN"
      \/ sla(p) = "APPROACHING" /\ sla(q) = "APPROACHING"
  BY <1>1, <1>5
<1>7. L["WITHIN"] = 1 /\ L["APPROACHING"] = 2 /\ L["BREACHED"] = 3
  BY <1>2
<1>8. sla(p) \in {"WITHIN", "APPROACHING", "BREACHED"} /\ sla(q) \in {"WITHIN", "APPROACHING", "BREACHED"}
  OBVIOUS
<1> HIDE DEF sla, L
<1>9. L[sla(p)] >= L[sla(q)]
  BY <1>6, <1>7, <1>8
<1>10. QED
  BY <1>3, <1>9 DEF L

(* In time is younger than the target by what is soon.                     *)
LEMMA WithinIsYoung ==
    ASSUME GymsOnce, NEW g \in DOMAIN gyms, Lists!Row(g).sla = "WITHIN"
    PROVE  Lists!Row(g).age < TargetHours - SoonHours
<1> DEFINE T == TicksPerHour
           H == TargetHours
           S == SoonHours
           a == Waited(g)
           p == Lists!HoursRemaining(gyms[g].at, now)
           q == a \div T
<1>1. /\ a \in Int /\ T \in Nat \ {0} /\ H * T \in Nat /\ H \in Nat /\ S \in Nat
      /\ p = Lists!Trunc(H * T - a, T) /\ Lists!Row(g).age = q
      /\ Lists!Row(g).sla = Lists!SlaFor(gyms[g].status, gyms[g].at, now)
  BY AgeOf
<1>2. ~(p <= 0) /\ ~(p <= S)
  BY <1>1 DEF Lists!SlaFor
<1> HIDE DEF a, p, T, H, S
<1>3. p > S
  <2>1. p \in Int
    BY <1>1, TruncOf
  <2>2. QED
    BY <1>1, <1>2, <2>1
<1>4. H * T - a >= T * S + T
  <2> DEFINE n == H * T - a
  <2>1. n \in Int
    BY <1>1
  <2> HIDE DEF n
  <2>2. n >= T * S + T
    BY <1>1, <1>3, <2>1, TruncOf DEF n
  <2>3. QED
    BY <2>2 DEF n
<1>5. q \in Int /\ T * q <= a
  BY <1>1, Quotient
<1> HIDE DEF q
<1>6. T * q + T * S + T <= H * T
  <2>1. T * q \in Int /\ T * S \in Int /\ H * T \in Int
    BY <1>1, <1>5
  <2>2. QED
    BY <1>1, <1>4, <1>5, <2>1
<1>7. SUFFICES ASSUME ~(q < H - S)
               PROVE  FALSE
  BY <1>1 DEF H, S
<1>8. q + S >= H
  BY <1>1, <1>5, <1>7
<1>9. T * (q + S) >= T * H
  BY <1>1, <1>5, <1>8
<1>10. T * (q + S) = T * q + T * S /\ T * H = H * T
  BY <1>1, <1>5
<1>11. T * q \in Int /\ T * S \in Int /\ H * T \in Int
  BY <1>1, <1>5
<1>12. QED
  BY <1>1, <1>6, <1>9, <1>10, <1>11

(* Past the target is breached.                                            *)
LEMMA PastIsBreached ==
    ASSUME GymsOnce, NEW g \in DOMAIN gyms,
           gyms[g].status \in Lists!Awaiting \ {"INFO_REQUESTED"},
           now >= gyms[g].at + TargetHours * TicksPerHour
    PROVE  Lists!Row(g).sla = "BREACHED"
<1> DEFINE H == TargetHours * TicksPerHour
           n == H - Waited(g)
<1>1. H \in Nat /\ gyms[g].at \in Nat /\ now \in Nat /\ TicksPerHour \in Nat \ {0}
      /\ Lists!HoursRemaining(gyms[g].at, now) = Lists!Trunc(n, TicksPerHour)
      /\ Lists!Row(g).sla = Lists!SlaFor(gyms[g].status, gyms[g].at, now)
  BY AgeOf
<1>2. n \in Int /\ n <= 0
  <2> HIDE DEF H
  <2>1. now >= gyms[g].at + H
    BY DEF H
  <2>2. QED
    BY <1>1, <2>1 DEF Waited
<1> HIDE DEF n
<1>3. Lists!HoursRemaining(gyms[g].at, now) <= 0
  BY <1>1, <1>2, TruncOf
<1>4. QED
  BY <1>1, <1>3 DEF Lists!SlaFor

-----------------------------------------------------------------------------
(* The oldest first. *)
OldestFirst == [key |-> "age", direction |-> "desc"]

(* Who is older comes first.                                               *)
LEMMA ByAge ==
    ASSUME NEW a, NEW b
    PROVE  Lists!Before(OldestFirst, a, b) <=> a.age > b.age
<1>1. OldestFirst.key = "age" /\ OldestFirst.direction = "desc"
  BY DEF OldestFirst
<1>2. \A r : Lists!KeyOf(r, OldestFirst.key) = r.age
  BY <1>1 DEF Lists!KeyOf
<1>3. QED
  BY <1>1, <1>2 DEF Lists!Before

(* A list sorted by age has the older before the younger.                  *)
LEMMA SortedByAge ==
    ASSUME NEW S, \A r \in S : r.age \in Int, NEW s \in Seq(S)
    PROVE  /\ Lists!Sorted(s, OldestFirst) \in Seq(S)
           /\ Len(Lists!Sorted(s, OldestFirst)) = Len(s)
           /\ \A i, j \in 1 .. Len(s) :
                 i < j => Lists!Sorted(s, OldestFirst)[i].age >= Lists!Sorted(s, OldestFirst)[j].age
<1> DEFINE n == Len(s)
           D == DOMAIN s
           before(i, j) == Lists!Before(OldestFirst, s[i], s[j])
           below == [j \in D |-> {i \in D : before(i, j) \/ (~before(j, i) /\ i < j)}]
           at == Ranked(D, below)
           t == Lists!Sorted(s, OldestFirst)
<1>1. n \in Nat /\ D = 1 .. n
  OBVIOUS
<1>2. t = [i \in D |-> s[at[i]]]
  BY ListRanks DEF Lists!Sorted, Lists!SortedBy
<1>3. \A i, j \in D : i \in below[j] <=>
         s[i].age > s[j].age \/ (~(s[j].age > s[i].age) /\ i < j)
  BY ByAge
<1>4. below \in [D -> SUBSET D] /\ \A i \in D : s[i] \in S /\ s[i].age \in Int
  OBVIOUS
<1> HIDE DEF D, below, at, t, n
<1>5. \A i \in D : i \in Int
  BY <1>1
<1>6. \A i \in D : i \notin below[i]
  BY <1>3, <1>4, <1>5
<1>7. ASSUME NEW x \in D, NEW y \in D, x \in below[y]
      PROVE  below[x] \subseteq below[y]
  <2>1. ASSUME NEW z \in D, z \in below[x]
        PROVE  z \in below[y]
    BY <1>3, <1>4, <1>5, <1>7, <2>1
  <2>2. QED
    BY <1>4, <2>1
<1>8. \A x, y \in D : x = y \/ x \in below[y] \/ y \in below[x]
  BY <1>3, <1>4, <1>5
<1>9. StrictOrder(D, below)
  BY <1>4, <1>6, <1>7, <1>8 DEF StrictOrder
<1>10. IsFiniteSet(D) /\ Cardinality(D) = n
  BY <1>1, CountUpTo
<1>11. ListedInOrder(D, below, at)
  BY <1>9, <1>10, RankedInOrder DEF at
<1>12. at \in [1 .. n -> D] /\ \A i, j \in 1 .. n : i < j => at[i] \in below[at[j]]
  BY <1>10, <1>11 DEF ListedInOrder
<1>13. t \in [1 .. n -> S] /\ \A i \in 1 .. n : t[i] = s[at[i]]
  BY <1>1, <1>2, <1>4, <1>12
<1>14. t \in Seq(S) /\ Len(t) = n
  BY <1>1, <1>13
<1>15. ASSUME NEW i \in 1 .. n, NEW j \in 1 .. n, i < j
       PROVE  t[i].age >= t[j].age
  <2>1. at[i] \in D /\ at[j] \in D /\ at[i] \in below[at[j]]
    BY <1>12, <1>15
  <2>2. s[at[i]].age \in Int /\ s[at[j]].age \in Int
        /\ (s[at[i]].age > s[at[j]].age \/ ~(s[at[j]].age > s[at[i]].age))
    BY <1>3, <1>4, <2>1
  <2>3. QED
    BY <1>13, <2>2
<1>16. QED
  BY <1>14, <1>15 DEF t, n

(* Sorting by age is sorting by lateness, whatever the target and the      *)
(* hour.                                                                   *)
LEMMA OldestIsAlwaysLatest == ASSUME GymsOnce PROVE Lists!OldestIsLatest
<1> DEFINE RR == {Lists!Row(g) : g \in DOMAIN gyms}
           rs == Lists!GymRows
           a == Lists!Admitted(rs, "queue", "all")
           waiting == Lists!RowsOf(rs, "queue", "all", OldestFirst)
           J == {i \in DOMAIN waiting : waiting[i].sla \in DOMAIN Lists!Lateness}
           running == Picked(waiting, J)
<1>1. rs \in Seq(RR) /\ rs \in Seq(ListedRows)
  <2>1. Brought \in Nat /\ rs \in Seq(ListedRows) /\ Len(rs) = Brought
        /\ \A i \in 1 .. Brought : Tenants[i] \in DOMAIN gyms /\ rs[i] = Lists!Row(Tenants[i])
    BY PollBrings
  <2> HIDE DEF rs
  <2>2. \A i \in 1 .. Brought : rs[i] \in RR
    BY <2>1
  <2> HIDE DEF RR
  <2>3. rs \in [1 .. Brought -> RR]
    BY <2>1, <2>2
  <2>4. QED
    BY <2>1, <2>3
<1>2. \A r \in RR : r.age \in Int
  BY AgeOf
<1> HIDE DEF RR
<1>3. a \in Seq(RR)
  <2> DEFINE I == {i \in DOMAIN rs : rs[i].status \in Lists!TabsOf("queue")["all"]}
  <2>1. a = Picked(rs, I)
    BY <1>1, AdmittedOf
  <2>2. I \in SUBSET (DOMAIN rs)
    OBVIOUS
  <2> HIDE DEF I, rs, a
  <2>3. QED
    BY <1>1, <2>1, <2>2, PickedOf
<1>4. waiting = Lists!Sorted(a, OldestFirst)
  BY DEF Lists!RowsOf
<1> HIDE DEF a, rs, waiting
<1>5. /\ waiting \in Seq(RR) /\ Len(waiting) = Len(a) /\ Len(a) \in Nat
      /\ \A i, j \in 1 .. Len(a) : i < j => waiting[i].age >= waiting[j].age
  BY <1>2, <1>3, <1>4, SortedByAge
<1>6. DOMAIN waiting = 1 .. Len(a) /\ \A i \in 1 .. Len(a) : waiting[i] \in RR
  BY <1>5
<1>7. J \in SUBSET (DOMAIN waiting)
  OBVIOUS
<1> DEFINE at == Ranked(J, Less(J))
           c == Cardinality(J)
<1>8. /\ c \in Nat /\ Len(running) = c /\ at \in [1 .. c -> J]
      /\ \A i \in 1 .. c : running[i] = waiting[at[i]]
      /\ \A i, j \in 1 .. c : i < j => at[i] < at[j]
  <2> HIDE DEF J
  <2>1. QED
    BY <1>5, <1>7, PickedOf
<1>9. \A i \in J : i \in 1 .. Len(a) /\ waiting[i].sla \in DOMAIN Lists!Lateness
  BY <1>6
<1> HIDE DEF J, at, c, running
<1>10. ASSUME NEW i \in 1 .. Len(running), NEW j \in 1 .. Len(running),
              i < j, running[i].age /= running[j].age
       PROVE  Lists!Lateness[running[i].sla] >= Lists!Lateness[running[j].sla]
  <2>1. i \in 1 .. c /\ j \in 1 .. c
    BY <1>8
  <2> DEFINE x == at[i]
             y == at[j]
  <2>2. x \in J /\ y \in J /\ x < y /\ running[i] = waiting[x] /\ running[j] = waiting[y]
    BY <1>8, <1>10, <2>1
  <2> HIDE DEF x, y
  <2>3. waiting[x].age >= waiting[y].age /\ waiting[x] \in RR /\ waiting[y] \in RR
        /\ waiting[x].sla \in DOMAIN Lists!Lateness /\ waiting[y].sla \in DOMAIN Lists!Lateness
    BY <1>5, <1>6, <1>9, <2>2
  <2>4. waiting[x].age > waiting[y].age
    BY <1>2, <1>10, <2>2, <2>3
  <2>5. PICK g \in DOMAIN gyms, h \in DOMAIN gyms :
           waiting[x] = Lists!Row(g) /\ waiting[y] = Lists!Row(h)
    BY <2>3 DEF RR
  <2>6. Lists!Lateness[Lists!Row(g).sla] >= Lists!Lateness[Lists!Row(h).sla]
    BY <2>3, <2>4, <2>5, LatenessGrows
  <2>7. QED
    BY <2>2, <2>5, <2>6
<1>11. ASSUME NEW i \in 1 .. Len(waiting), waiting[i].sla = "WITHIN"
       PROVE  waiting[i].age < TargetHours - SoonHours
  <2>1. PICK g \in DOMAIN gyms : waiting[i] = Lists!Row(g)
    BY <1>5, <1>6 DEF RR
  <2>2. QED
    BY <1>11, <2>1, WithinIsYoung
<1>12. \A g \in DOMAIN gyms :
          gyms[g].status \in Lists!Awaiting \ {"INFO_REQUESTED"}
              /\ now >= gyms[g].at + TargetHours * TicksPerHour
            => Lists!Row(g).sla = "BREACHED"
  BY PastIsBreached
<1>13. QED
  BY <1>10, <1>11, <1>12, ListRanks DEF Lists!OldestIsLatest, Lists!Filtered, OldestFirst, waiting, running, J, rs

-----------------------------------------------------------------------------
(* The intake. *)

(* A step of MCSpec is one of the scanner, of what opens over a screen or  *)
(* of the lists, or leaves their variables alone.                          *)
LEMMA ScreenSteps ==
    ASSUME [MCNext]_mcvars
    PROVE  /\ scene = "scanning" => [Kept!Next]_scan
           /\ Over!Next \/ UNCHANGED overState
           /\ Lists!Next \/ UNCHANGED listVars
<1>1. CASE OpeningNext \/ ListingNext
  BY <1>1 DEF OpeningNext, ListingNext, overVars, overState
<1>2. CASE SubmittingNext \/ UploadingNext \/ CheckingNext
  BY <1>2 DEF SubmittingNext, UploadingNext, CheckingNext, overVars, overState
<1>3. CASE ReviewingNext
  BY <1>3 DEF ReviewingNext, overVars, overState
<1>4. CASE OverlaysNext
  BY <1>4 DEF OverlaysNext
<1>5. CASE ScanningNext
  BY <1>5 DEF ScanningNext, overState
<1>6. CASE UNCHANGED mcvars
  BY <1>6 DEF mcvars, overVars, overState
<1>7. QED
  BY <1>1, <1>2, <1>3, <1>4, <1>5, <1>6 DEF MCNext

IntakeInv ==
    /\ SubInv /\ UpInv /\ OverInv /\ ListInv
    /\ scene = "scanning" => ScanInv
    /\ scene = "bytes" => input.bytes \in Seq(Int) /\ input.rest \in Seq(Int)

LEMMA IntakeAtFirst ==
    ASSUME MCInit
    PROVE  IntakeInv
<1>1. SubInv /\ UpInv /\ OverInv /\ ListInv
  BY SubInit, UpInit, OverAtFirst, ListAtFirst DEF MCInit
<1>2. scene = "scanning" => ScanInv
  BY ScanAtFirst DEF MCInit
<1>3. scene = "bytes" => input.bytes \in Seq(Int) /\ input.rest \in Seq(Int)
  <2>1. SUFFICES ASSUME scene = "bytes"
                 PROVE  BytesInput
    BY BytesInputs
  <2>2. scene \notin Steps \union {"lifecycle"}
    BY <2>1 DEF Steps
  <2>3. QED
    BY <2>1, <2>2 DEF MCInit, ChecklistInput, EditInput, RoundingInput, SplitInput, QuoteInput,
                      ClockInput, SuiteInput, WizardInput, TaxInput
<1>4. QED
  BY <1>1, <1>2, <1>3 DEF IntakeInv

LEMMA IntakeKept ==
    ASSUME IntakeInv, [MCNext]_mcvars
    PROVE  IntakeInv'
<1> USE DEF IntakeInv
<1>1. SubInv' /\ UpInv'
  BY IntakeSteps, SubInvStep, UpInvStep
<1>2. OverInv'
  BY ScreenSteps, OverKept
<1>3. ListInv'
  BY ScreenSteps, ListKept
<1>4. UNCHANGED <<scene, input>>
  BY InputsStay
<1>5. scene' = "scanning" => ScanInv'
  BY <1>4, ScreenSteps, ScanKept
<1>6. QED
  BY <1>1, <1>2, <1>3, <1>4, <1>5

LEMMA IntakeSuffices ==
    ASSUME IntakeInv
    PROVE  IntakeAgrees
<1> USE DEF IntakeInv
<1>1. SubmissionsAgree
  BY SubInvSuffices DEF SubmissionsAgree
<1>2. UploadsAgree
  BY DEF UpInv, UploadsAgree, Intake!UploadsAgree, Intake!RowHasItsObject, Intake!EnclaveIsScanned
<1>3. ListsAreTrue
  <2>1. Lists!NeverStranded /\ Lists!SelectedWereSeen /\ Lists!ReasonIsForThisGym
    BY ListScreenSuffices
  <2>2. Lists!CountsAgree /\ Lists!OldestIsLatest
    BY CountsAlwaysAgree, OldestIsAlwaysLatest DEF ListInv
  <2>3. \A n \in 1 .. 12 : Lists!WindowIsWhole(n)
    BY WindowIsAlwaysWhole
  <2>4. QED
    BY <2>1, <2>2, <2>3 DEF ListsAreTrue, Lists!ListsAreTrue
<1>4. OverlaysAreHonest
  BY OverSuffices DEF OverlaysAreHonest
<1>5. ScannerTellsTheTruth
  BY ScanIsTrue DEF ScannerTellsTheTruth
<1>6. BytesHaveOneReading
  <2>1. 12 \in Nat
    OBVIOUS
  <2>2. QED
    BY <2>1, BytesAlwaysHaveOneReading DEF BytesHaveOneReading
<1>7. QED
  BY <1>1, <1>2, <1>3, <1>4, <1>5, <1>6 DEF IntakeAgrees

(* What a gym sends in is kept everywhere or nowhere, and taken for what   *)
(* it is: however submissions race, uploads fail and scans break off; the  *)
(* lists it is reviewed from count, order, page and select the gyms there  *)
(* are; and what opens over them acts on what is pointed out (Onboarding,  *)
(* DocumentScan, ReviewQueue, ConsoleChrome).                              *)
THEOREM IntakeAlwaysAgrees == MCSpec => []IntakeAgrees
<1>1. MCInit => IntakeInv
  BY IntakeAtFirst
<1>2. IntakeInv /\ [MCNext]_mcvars => IntakeInv'
  BY IntakeKept
<1>3. IntakeInv => IntakeAgrees
  BY IntakeSuffices
<1>4. QED
  BY <1>1, <1>2, <1>3, PTL DEF MCSpec
=============================================================================
