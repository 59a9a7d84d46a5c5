--------------------------- MODULE IdempotencyProofs ---------------------------
(***************************************************************************)
(* What the idempotency interceptor keeps of one key, for any number of    *)
(* requests, any retention and any budget of work shorter than it.         *)
(*                                                                         *)
(* That effects are a retention apart is not inductive: it rests on who    *)
(* holds the row while a handler runs.  As long as nobody has outwaited    *)
(* the deadline, a handler that runs is the handler of the request whose   *)
(* row stands, that row has not expired (the budget of the work is shorter *)
(* than the retention) and holds no response; a row leaves only when it    *)
(* has expired or its handler failed.                                      *)
(***************************************************************************)
EXTENDS Idempotency, TLAPS

Running == {"work", "record", "undo", "release"}

\* What a request is at, whoever holds the row.
Sound(r) ==
    /\ req[r].stage \in {"new", "claim", "inspect"} => req[r].right = "none"
    /\ req[r].right # "none" => req[r].begun <= clock
    /\ req[r].stage \in Running => req[r].right # "none" /\ clock <= req[r].begun + WorkBudget
    /\ req[r].stage = "record" => r \in performed
    /\ r \in performed => req[r].stage \in {"record", "served", "dead"}

\* The row is its holder's, and current for a retention or released.
RowOfHolder ==
    row.holder # NOBODY =>
        /\ row.expires \in {0, req[row.holder].begun + Retention}
        /\ row.response # NOBODY => /\ row.response = row.holder
                                    /\ row.expires = req[row.holder].begun + Retention

\* A handler runs on the row of its request.
RunsOnItsRow(r) ==
    req[r].stage \in Running =>
        /\ row.holder = r /\ row.response = NOBODY
        /\ row.expires = req[r].begun + Retention
        /\ req[r].stage = "release" => req[r].seen = r

\* An effect keeps its row for a retention, and the next claim comes after it.
KeepsItsRow(q) ==
    q \in performed =>
        IF row.holder = q THEN row.expires = req[q].begun + Retention
        ELSE /\ req[q].begun + Retention <= clock
             /\ row.holder # NOBODY => req[q].begun + Retention <= req[row.holder].begun

Held ==
    /\ RowOfHolder
    /\ \A r \in Request : RunsOnItsRow(r) /\ KeepsItsRow(r)

IInv ==
    /\ TypeOK
    /\ \A r \in Request : Sound(r)
    /\ NobodyOutwaited => Held
    /\ OnePerRetention /\ TrueReplay

USE NobodyAssumption, QuestionAssumption, TimeAssumption DEF Running

-----------------------------------------------------------------------------
(* What the handlers of the request make of its record.                     *)
LEMMA ExecutingFacts ==
    ASSUME TypeOK, NEW r \in Request, NEW right \in {"claimed", "outwaited"}
    PROVE  /\ Executing(req[r], right) \in RequestState
           /\ Executing(req[r], right).stage = "work"
           /\ Executing(req[r], right).right = right
           /\ Executing(req[r], right).begun = clock
           /\ Executing(req[r], right).asks = req[r].asks
<1>1. req[r] \in RequestState /\ clock \in Nat
  BY DEF TypeOK
<1>2. "work" \in Stage
  BY DEF Stage
<1>3. QED
  BY <1>1, <1>2 DEF RequestState, Executing

LEMMA EndedFacts ==
    ASSUME TypeOK, NEW r \in Request, NEW stage \in Answered
    PROVE  /\ Ended(req[r], stage) \in RequestState
           /\ Ended(req[r], stage).stage = stage
           /\ Ended(req[r], stage).right = req[r].right
           /\ Ended(req[r], stage).begun = req[r].begun
           /\ Ended(req[r], stage).asks = req[r].asks
           /\ Ended(req[r], stage).asked = req[r].asked
<1>1. req[r] \in RequestState
  BY DEF TypeOK
<1>2. stage \in Stage
  BY DEF Stage
<1>3. QED
  BY <1>1, <1>2 DEF RequestState, Ended

(* A step that changes the record of r alone.                               *)
LEMMA OneRequest ==
    ASSUME TypeOK, NEW r \in Request, NEW x \in RequestState, req' = [req EXCEPT ![r] = x]
    PROVE  /\ req' \in [Request -> RequestState]
           /\ req'[r] = x
           /\ \A q \in Request \ {r} : req'[q] = req[q]
BY DEF TypeOK

(* Before any request, there is no row.                                     *)
LEMMA IInvInit == ASSUME Init PROVE IInv
<1>1. PICK a \in [Request -> Question] :
         req = [r \in Request |->
                  [asks |-> a[r], stage |-> "new", deadline |-> 0, asked |-> 0, right |-> "none",
                   begun |-> 0, seen |-> NOBODY, answer |-> NOBODY]]
  BY DEF Init
<1>2. TypeOK
  BY <1>1 DEF Init, TypeOK, NoRow, Row, RequestState, Stage
<1>3. \A r \in Request : Sound(r) /\ RunsOnItsRow(r) /\ KeepsItsRow(r)
  BY <1>1 DEF Init, Sound, RunsOnItsRow, KeepsItsRow
<1>4. RowOfHolder /\ OnePerRetention /\ TrueReplay
  BY <1>1 DEF Init, NoRow, RowOfHolder, OnePerRetention, TrueReplay
<1>5. QED
  BY <1>2, <1>3, <1>4 DEF IInv, Held

-----------------------------------------------------------------------------
(* A step that changes neither the row nor the effects nor the clock, and   *)
(* takes r out of a handler or leaves it where it is.                       *)
LEMMA QuietStep ==
    ASSUME IInv, NEW r \in Request, NEW x \in RequestState, req' = [req EXCEPT ![r] = x],
           UNCHANGED <<row, performed, clock>>, faults' \in Nat,
           x.asks = req[r].asks, x.right = req[r].right, x.begun = req[r].begun,
           x.stage \in {"new", "claim", "inspect"} =>
               req[r].stage \in {"new", "claim", "inspect"},
           x.stage \in {"undo", "release"} => req[r].stage \in {"work", "undo"},
           x.stage \notin {"work", "record"},
           r \in performed => x.stage \in {"served", "dead"},
           NobodyOutwaited /\ x.stage = "release" => x.seen = r,
           NobodyOutwaited /\ x.stage = "replayed" =>
               /\ x.answer \in performed
               /\ Fingerprint(x.answer) = Fingerprint(r)
               /\ x.asked < req[x.answer].begun + Retention
    PROVE  IInv'
<1>1. /\ req' \in [Request -> RequestState] /\ req'[r] = x
      /\ \A q \in Request \ {r} : req'[q] = req[q]
  BY OneRequest DEF IInv
<1>2. TypeOK'
  BY <1>1 DEF IInv, TypeOK
<1>3. \A q \in Request : Sound(q)'
  BY <1>1 DEF IInv, Sound
<1>4. \A q \in Request : req'[q].begun = req[q].begun /\ req'[q].right = req[q].right
                        /\ req'[q].asks = req[q].asks
  BY <1>1
<1>5. NobodyOutwaited' = NobodyOutwaited
  BY <1>4 DEF NobodyOutwaited
<1>6. ASSUME NobodyOutwaited PROVE Held'
  <2>1. RowOfHolder'
    BY <1>4, <1>6 DEF IInv, TypeOK, Row, Held, RowOfHolder
  <2>2. \A q \in Request : RunsOnItsRow(q)'
    BY <1>1, <1>6 DEF IInv, Held, RunsOnItsRow
  <2>3. \A q \in Request : KeepsItsRow(q)'
    BY <1>4, <1>6 DEF IInv, TypeOK, Row, Held, KeepsItsRow
  <2>4. QED
    BY <2>1, <2>2, <2>3 DEF Held
<1>7. OnePerRetention'
  BY <1>4, <1>5 DEF IInv, TypeOK, OnePerRetention
<1>8. TrueReplay'
  <2>1. SUFFICES ASSUME NobodyOutwaited, NEW q \in Request, req'[q].stage = "replayed"
                 PROVE  /\ req'[q].answer \in performed
                        /\ (Fingerprint(req[q].answer) = Fingerprint(q))'
                        /\ req'[q].asked < req'[req'[q].answer].begun + Retention
    BY <1>5 DEF TrueReplay
  <2>2. req'[q].answer \in performed /\ Fingerprint(req'[q].answer) = Fingerprint(q)
        /\ req'[q].asked < req[req'[q].answer].begun + Retention
    BY <1>1, <2>1 DEF IInv, TrueReplay
  <2>3. req'[q].answer \in Request
    BY <2>2 DEF IInv, TypeOK
  <2>4. QED
    BY <1>4, <2>2, <2>3 DEF Fingerprint
<1>9. QED
  BY <1>2, <1>3, <1>5, <1>6, <1>7, <1>8 DEF IInv

(* What a request has read of the row leads to no step on it.               *)
LEMMA ReadStep ==
    ASSUME IInv, NEW r \in Request, Collide(r) \/ Refuse(r) \/ Replay(r) \/ Wait(r)
    PROVE  IInv'
<1>1. req[r] \in RequestState /\ clock \in Nat /\ Timeout \in Nat /\ row \in Row
  BY DEF IInv, TypeOK
<1>2. /\ r \in performed => req[r].stage \in {"record", "served", "dead"}
  BY DEF IInv, Sound
<1>3. CASE Collide(r)
  <2> DEFINE late == IF req[r].stage = "new" THEN clock + Timeout ELSE req[r].deadline
             x == [req[r] EXCEPT !.stage = "inspect", !.asked = clock, !.deadline = late]
  <2>1. req' = [req EXCEPT ![r] = x] /\ UNCHANGED <<row, performed, clock, faults>>
    BY <1>3 DEF Collide
  <2>2. late \in Nat
    BY <1>1 DEF RequestState
  <2> HIDE DEF late
  <2>3. /\ x \in RequestState /\ x.stage = "inspect"
        /\ x.asks = req[r].asks /\ x.right = req[r].right /\ x.begun = req[r].begun
    BY <1>1, <2>2 DEF RequestState, Stage
  <2> HIDE DEF x
  <2>4. req[r].stage \in {"new", "claim"} /\ faults' \in Nat
    BY <1>3, <2>1 DEF Collide, Claiming, IInv, TypeOK
  <2>5. QED
    BY <1>2, <2>1, <2>3, <2>4, QuietStep
<1>4. CASE Refuse(r)
  <2> DEFINE x == [Ended(req[r], "refused") EXCEPT !.asked = 0]
  <2>1. /\ x \in RequestState /\ x.stage = "refused"
        /\ x.asks = req[r].asks /\ x.right = req[r].right /\ x.begun = req[r].begun
    BY <1>1 DEF RequestState, Stage, Answered, Ended
  <2>2. req' = [req EXCEPT ![r] = x] /\ UNCHANGED <<row, performed, clock, faults>>
    BY <1>4 DEF Refuse
  <2> HIDE DEF x
  <2>3. req[r].stage = "inspect" /\ faults' \in Nat
    BY <1>4, <2>2 DEF IInv, TypeOK, Refuse
  <2>4. QED
    BY <1>2, <2>1, <2>2, <2>3, QuietStep
<1>5. CASE Replay(r)
  <2> DEFINE x == [Ended(req[r], "replayed") EXCEPT !.answer = row.response]
  <2>1. /\ x \in RequestState /\ x.stage = "replayed"
        /\ x.asks = req[r].asks /\ x.right = req[r].right /\ x.begun = req[r].begun
        /\ x.asked = req[r].asked /\ x.answer = row.response
    BY <1>1 DEF RequestState, Row, Stage, Answered, Ended
  <2>2. req' = [req EXCEPT ![r] = x] /\ UNCHANGED <<row, performed, clock, faults>>
    BY <1>5 DEF Replay
  <2> HIDE DEF x
  <2>3. row.response # NOBODY /\ row.response \in performed /\ row.expires > req[r].asked
        /\ Fingerprint(row.holder) = Fingerprint(r)
    BY <1>5 DEF IInv, TypeOK, Replay, Current, Matches
  <2>4. NobodyOutwaited => row.response = row.holder
                           /\ row.expires = req[row.response].begun + Retention
    BY <2>3 DEF IInv, TypeOK, Held, RowOfHolder
  <2>5. req[r].stage = "inspect" /\ faults' \in Nat
    BY <1>5, <2>2 DEF Replay, IInv, TypeOK
  <2>6. NobodyOutwaited /\ x.stage = "replayed" =>
           /\ x.answer \in performed
           /\ Fingerprint(x.answer) = Fingerprint(r)
           /\ x.asked < req[x.answer].begun + Retention
    BY <2>1, <2>3, <2>4
  <2>7. QED
    BY <1>2, <2>1, <2>2, <2>5, <2>6, QuietStep
<1>6. CASE Wait(r)
  <2> DEFINE x == [req[r] EXCEPT !.stage = "claim", !.asked = 0]
  <2>1. /\ x \in RequestState /\ x.stage = "claim"
        /\ x.asks = req[r].asks /\ x.right = req[r].right /\ x.begun = req[r].begun
    BY <1>1 DEF RequestState, Stage
  <2>2. req' = [req EXCEPT ![r] = x] /\ UNCHANGED <<row, performed, clock, faults>>
    BY <1>1, <1>6 DEF Wait, IInv, TypeOK, RequestState
  <2> HIDE DEF x
  <2>3. req[r].stage = "inspect" /\ faults' \in Nat
    BY <1>6, <2>2 DEF IInv, TypeOK, Wait
  <2>4. QED
    BY <1>2, <2>1, <2>2, <2>3, QuietStep
<1>7. QED
  BY <1>3, <1>4, <1>5, <1>6

(* Whoever outwaits the deadline ends what the promise rests on.            *)
LEMMA OutwaitStep == ASSUME IInv, NEW r \in Request, Outwait(r) PROVE IInv'
<1> DEFINE x == Executing(req[r], "outwaited")
<1>1. /\ x \in RequestState /\ x.stage = "work" /\ x.right = "outwaited" /\ x.begun = clock
  BY ExecutingFacts DEF IInv
<1>2. req' = [req EXCEPT ![r] = x] /\ UNCHANGED <<row, performed, clock, faults>>
  BY DEF Outwait
<1> HIDE DEF x
<1>3. /\ req' \in [Request -> RequestState] /\ req'[r] = x
      /\ \A q \in Request \ {r} : req'[q] = req[q]
  BY <1>1, <1>2, OneRequest DEF IInv
<1>4. TypeOK'
  BY <1>2, <1>3 DEF IInv, TypeOK
<1>5. ~NobodyOutwaited'
  BY <1>1, <1>3 DEF NobodyOutwaited
<1>6. \A q \in Request : Sound(q)'
  BY <1>1, <1>2, <1>3 DEF IInv, TypeOK, Sound, Outwait
<1>7. QED
  BY <1>4, <1>5, <1>6 DEF IInv, OnePerRetention, TrueReplay

(* A handler that fails, and one that dies or whose write is refused.       *)
LEMMA FailStep == ASSUME IInv, NEW r \in Request, Fail(r) \/ FindClaim(r) \/ Fault(r) PROVE IInv'
<1>1. req[r] \in RequestState /\ row \in Row /\ faults \in Nat
  BY DEF IInv, TypeOK
<1>2. /\ r \in performed => req[r].stage \in {"record", "served", "dead"}
  BY DEF IInv, Sound
<1>3. CASE Fail(r)
  <2> DEFINE x == [req[r] EXCEPT !.stage = "undo"]
  <2>1. /\ x \in RequestState /\ x.stage = "undo"
        /\ x.asks = req[r].asks /\ x.right = req[r].right /\ x.begun = req[r].begun
    BY <1>1 DEF RequestState, Stage, Answered
  <2>2. req' = [req EXCEPT ![r] = x] /\ UNCHANGED <<row, performed, clock, faults>>
    BY <1>3 DEF Fail
  <2> HIDE DEF x
  <2>3. req[r].stage = "work" /\ faults' \in Nat
    BY <1>1, <1>3, <2>2 DEF Fail
  <2>4. QED
    BY <1>2, <2>1, <2>2, <2>3, QuietStep
<1>4. CASE FindClaim(r) /\ Visible(r) /\ row.response = NOBODY
  <2> DEFINE x == [req[r] EXCEPT !.stage = "release", !.seen = row.holder]
  <2>1. /\ x \in RequestState /\ x.stage = "release" /\ x.seen = row.holder
        /\ x.asks = req[r].asks /\ x.right = req[r].right /\ x.begun = req[r].begun
    BY <1>1 DEF RequestState, Row, Stage, Answered
  <2>2. req' = [req EXCEPT ![r] = x] /\ UNCHANGED <<row, performed, clock, faults>>
    BY <1>4 DEF FindClaim
  <2> HIDE DEF x
  <2>3. req[r].stage = "undo"
    BY <1>4 DEF FindClaim
  <2>4. NobodyOutwaited => x.seen = r
    BY <2>1, <2>3 DEF IInv, Held, RunsOnItsRow
  <2>5. QED
    BY <1>1, <1>2, <2>1, <2>2, <2>3, <2>4, QuietStep
<1>5. CASE FindClaim(r) /\ ~(Visible(r) /\ row.response = NOBODY)
  <2>1. req' = [req EXCEPT ![r] = Ended(req[r], "failed")]
        /\ UNCHANGED <<row, performed, clock, faults>> /\ req[r].stage = "undo"
    BY <1>5 DEF FindClaim
  <2> DEFINE x == Ended(req[r], "failed")
  <2>2. /\ x \in RequestState /\ x.stage = "failed"
        /\ x.asks = req[r].asks /\ x.right = req[r].right /\ x.begun = req[r].begun
    BY EndedFacts DEF IInv, Answered
  <2> HIDE DEF x
  <2>3. req' = [req EXCEPT ![r] = x]
    BY <2>1 DEF x
  <2>4. QED
    BY <1>1, <1>2, <2>1, <2>2, <2>3, QuietStep
<1>6. ASSUME NEW x \in RequestState, req' = [req EXCEPT ![r] = x], Fault(r),
             x.asks = req[r].asks, x.right = req[r].right, x.begun = req[r].begun,
             x.stage \in {"dead", "served", "failed"},
             x.stage = "failed" => req[r].stage \in {"undo", "release"}
      PROVE  IInv'
  <2>1. UNCHANGED <<row, performed, clock>> /\ faults' \in Nat
    BY <1>1, <1>6 DEF Fault
  <2>2. QED
    BY <1>2, <1>6, <2>1, QuietStep
<1>7. CASE Fault(r)
  <2> DEFINE d == [Ended(req[r], "dead") EXCEPT !.asked = 0]
             s == Ended(req[r], "served")
             f == Ended(req[r], "failed")
  <2>1. /\ d \in RequestState /\ d.stage = "dead"
        /\ d.asks = req[r].asks /\ d.right = req[r].right /\ d.begun = req[r].begun
    BY <1>1 DEF RequestState, Stage, Answered, Ended
  <2>2. /\ s \in RequestState /\ s.stage = "served"
        /\ s.asks = req[r].asks /\ s.right = req[r].right /\ s.begun = req[r].begun
    BY EndedFacts DEF IInv, Answered
  <2>3. /\ f \in RequestState /\ f.stage = "failed"
        /\ f.asks = req[r].asks /\ f.right = req[r].right /\ f.begun = req[r].begun
    BY EndedFacts DEF IInv, Answered
  <2>4. \/ req' = [req EXCEPT ![r] = d]
        \/ req' = [req EXCEPT ![r] = s]
        \/ req' = [req EXCEPT ![r] = f] /\ req[r].stage \in {"undo", "release"}
    BY <1>7 DEF Fault
  <2> HIDE DEF d, s, f
  <2>5. QED
    BY <1>6, <1>7, <2>1, <2>2, <2>3, <2>4
<1>8. QED
  BY <1>3, <1>4, <1>5, <1>7

-----------------------------------------------------------------------------
(* A claim comes a retention after every effect before it.                  *)
LEMMA ClaimStep == ASSUME IInv, NEW r \in Request, Claim(r) PROVE IInv'
<1> DEFINE x == Executing(req[r], "claimed")
<1>1. /\ x \in RequestState /\ x.stage = "work" /\ x.right = "claimed" /\ x.begun = clock
      /\ x.asks = req[r].asks
  BY ExecutingFacts DEF IInv
<1>2. req' = [req EXCEPT ![r] = x] /\ UNCHANGED <<performed, clock, faults>>
      /\ row' = [holder |-> r, response |-> NOBODY, expires |-> clock + Retention]
      /\ row.holder = NOBODY /\ req[r].stage \in {"new", "claim"}
  BY DEF Claim, Claiming
<1> HIDE DEF x
<1>3. /\ req' \in [Request -> RequestState] /\ req'[r] = x
      /\ \A q \in Request \ {r} : req'[q] = req[q]
  BY <1>1, <1>2, OneRequest DEF IInv
<1>t. clock \in Nat /\ req \in [Request -> RequestState] /\ performed \subseteq Request
  BY DEF IInv, TypeOK
<1>4. TypeOK'
  BY <1>2, <1>3 DEF IInv, TypeOK, Row
<1>5. \A q \in Request : Sound(q)'
  BY <1>1, <1>2, <1>3 DEF IInv, TypeOK, Sound
<1>6. r \notin performed /\ req[r].right = "none"
  BY <1>2 DEF IInv, Sound
<1>7. NobodyOutwaited' => NobodyOutwaited
  BY <1>3, <1>6 DEF NobodyOutwaited
<1>8. ASSUME NobodyOutwaited PROVE Held'
  <2>1. \A q \in performed : req[q].begun + Retention <= clock
    BY <1>2, <1>8, <1>t DEF IInv, Held, KeepsItsRow
  <2>2. \A q \in Request \ {r} : req[q].stage \notin Running
    BY <1>2, <1>8 DEF IInv, Held, RunsOnItsRow
  <2>3. RowOfHolder'
    BY <1>1, <1>2, <1>3 DEF RowOfHolder
  <2>4. \A q \in Request : RunsOnItsRow(q)'
    BY <1>1, <1>2, <1>3, <2>2 DEF RunsOnItsRow
  <2>5. \A q \in Request : KeepsItsRow(q)'
    BY <1>1, <1>2, <1>3, <1>6, <2>1 DEF KeepsItsRow
  <2>6. QED
    BY <2>3, <2>4, <2>5 DEF Held
<1>9. OnePerRetention'
  BY <1>2, <1>3, <1>6, <1>7, <1>t DEF IInv, OnePerRetention
<1>10. TrueReplay'
  <2>1. SUFFICES ASSUME NobodyOutwaited, NEW q \in Request, req'[q].stage = "replayed"
                 PROVE  /\ req'[q].answer \in performed'
                        /\ (Fingerprint(req[q].answer) = Fingerprint(q))'
                        /\ req'[q].asked < req'[req'[q].answer].begun + Retention
    BY <1>7 DEF TrueReplay
  <2>2. q # r
    BY <1>1, <1>3, <2>1
  <2>3. req'[q].answer \in performed /\ Fingerprint(req'[q].answer) = Fingerprint(q)
        /\ req'[q].asked < req[req'[q].answer].begun + Retention
    BY <1>3, <2>1, <2>2 DEF IInv, TrueReplay
  <2>4. QED
    BY <1>2, <1>3, <1>6, <1>t, <2>2, <2>3 DEF Fingerprint
<1>11. QED
  BY <1>4, <1>5, <1>7, <1>8, <1>9, <1>10 DEF IInv

(* What a step keeps of the replays that leaves them, the effects and what  *)
(* everybody asked and began as they are.                                   *)
LEMMA ReplaysStand ==
    ASSUME IInv, performed \subseteq performed',
           \A q \in Request : /\ req'[q].asks = req[q].asks /\ req'[q].begun = req[q].begun
                              /\ req'[q].right = req[q].right
                              /\ req'[q].stage = "replayed" => req'[q] = req[q]
    PROVE  TrueReplay' /\ NobodyOutwaited' = NobodyOutwaited
<1>1. NobodyOutwaited' = NobodyOutwaited
  BY DEF NobodyOutwaited
<1>2. SUFFICES ASSUME NobodyOutwaited, NEW q \in Request, req'[q].stage = "replayed"
               PROVE  /\ req'[q].answer \in performed'
                      /\ (Fingerprint(req[q].answer) = Fingerprint(q))'
                      /\ req'[q].asked < req'[req'[q].answer].begun + Retention
  BY <1>1 DEF TrueReplay
<1>3. req'[q].answer \in performed /\ Fingerprint(req'[q].answer) = Fingerprint(q)
      /\ req'[q].asked < req[req'[q].answer].begun + Retention
  BY <1>2 DEF IInv, TrueReplay
<1>4. req'[q].answer \in Request
  BY <1>3 DEF IInv, TypeOK
<1>5. QED
  BY <1>3, <1>4 DEF Fingerprint

(* An effect: of the one whose row stands.                                  *)
LEMMA SucceedStep == ASSUME IInv, NEW r \in Request, Succeed(r) PROVE IInv'
<1> DEFINE x == [req[r] EXCEPT !.stage = "record"]
<1>t. clock \in Nat /\ req \in [Request -> RequestState] /\ performed \subseteq Request
  BY DEF IInv, TypeOK
<1>1. /\ x \in RequestState /\ x.stage = "record" /\ x.begun = req[r].begun
      /\ x.asks = req[r].asks /\ x.right = req[r].right
  BY <1>t DEF RequestState, Stage, Answered
<1>2. req' = [req EXCEPT ![r] = x] /\ UNCHANGED <<row, clock, faults>>
      /\ performed' = performed \union {r} /\ req[r].stage = "work"
  BY DEF Succeed
<1> HIDE DEF x
<1>3. /\ req' \in [Request -> RequestState] /\ req'[r] = x
      /\ \A q \in Request \ {r} : req'[q] = req[q]
  BY <1>1, <1>2, OneRequest DEF IInv
<1>4. TypeOK'
  BY <1>2, <1>3 DEF IInv, TypeOK
<1>5. \A q \in Request : Sound(q)'
  BY <1>1, <1>2, <1>3 DEF IInv, Sound
<1>6. TrueReplay' /\ NobodyOutwaited' = NobodyOutwaited
  BY <1>1, <1>2, <1>3, ReplaysStand
<1>7. \A q \in Request : req'[q].begun = req[q].begun
  BY <1>1, <1>3
<1>8. NobodyOutwaited => row.holder = r /\ row.expires = req[r].begun + Retention
                         /\ row.response = NOBODY
  BY <1>2 DEF IInv, Held, RunsOnItsRow
<1>9. ASSUME NobodyOutwaited PROVE Held'
  <2>1. RowOfHolder'
    BY <1>2, <1>7, <1>8, <1>9 DEF RowOfHolder
  <2>2. \A q \in Request : RunsOnItsRow(q)'
    BY <1>1, <1>2, <1>3, <1>8, <1>9 DEF IInv, Held, RunsOnItsRow
  <2>3. \A q \in Request : KeepsItsRow(q)'
    BY <1>2, <1>7, <1>8, <1>9 DEF IInv, Held, KeepsItsRow
  <2>4. QED
    BY <2>1, <2>2, <2>3 DEF Held
<1>10. OnePerRetention'
  <2>1. SUFFICES ASSUME NobodyOutwaited, NEW q \in performed, NEW p \in performed', p # q
                 PROVE  \/ req[p].begun + Retention <= req[q].begun
                        \/ req[q].begun + Retention <= req[p].begun
    BY <1>2, <1>6, <1>7, <1>t DEF OnePerRetention
  <2>2. CASE p \in performed
    BY <2>1, <2>2 DEF IInv, OnePerRetention
  <2>3. CASE p = r
    BY <1>8, <1>t, <2>1, <2>3 DEF IInv, Held, KeepsItsRow
  <2>4. QED
    BY <1>2, <2>2, <2>3
<1>11. QED
  BY <1>4, <1>5, <1>6, <1>9, <1>10 DEF IInv

(* What complete writes, it writes to its own row.                          *)
LEMMA RecordStep == ASSUME IInv, NEW r \in Request, Record(r) PROVE IInv'
<1> DEFINE x == Ended(req[r], "served")
<1>t. clock \in Nat /\ row \in Row /\ performed \subseteq Request
  BY DEF IInv, TypeOK
<1>1. /\ x \in RequestState /\ x.stage = "served" /\ x.begun = req[r].begun
      /\ x.asks = req[r].asks /\ x.right = req[r].right
  BY EndedFacts DEF IInv, Answered
<1>2. req' = [req EXCEPT ![r] = x] /\ UNCHANGED <<performed, clock, faults>>
      /\ req[r].stage = "record" /\ row' = IF Visible(r) THEN [row EXCEPT !.response = r] ELSE row
  BY DEF Record
<1> HIDE DEF x
<1>3. /\ req' \in [Request -> RequestState] /\ req'[r] = x
      /\ \A q \in Request \ {r} : req'[q] = req[q]
  BY <1>1, <1>2, OneRequest DEF IInv
<1>a. r \in performed
  BY <1>2 DEF IInv, Sound
<1>b. /\ row'.holder = row.holder /\ row'.expires = row.expires /\ row' \in Row
      /\ row'.response \in {row.response, r}
      /\ row'.response # NOBODY => row.holder # NOBODY
  <2>1. CASE Visible(r)
    BY <1>2, <1>t, <2>1 DEF Row, Visible
  <2>2. CASE ~Visible(r)
    BY <1>2, <1>t, <2>2 DEF IInv, TypeOK
  <2>3. QED
    BY <2>1, <2>2
<1>4. TypeOK'
  BY <1>2, <1>3, <1>a, <1>b DEF IInv, TypeOK
<1>5. \A q \in Request : Sound(q)'
  BY <1>1, <1>2, <1>3, <1>a DEF IInv, Sound
<1>6. TrueReplay' /\ NobodyOutwaited' = NobodyOutwaited
  BY <1>1, <1>2, <1>3, ReplaysStand
<1>7. \A q \in Request : req'[q].begun = req[q].begun
  BY <1>1, <1>3
<1>8. ASSUME NobodyOutwaited PROVE Held'
  <2>1. row.holder = r /\ row.expires = req[r].begun + Retention
    BY <1>2, <1>8 DEF IInv, Held, RunsOnItsRow
  <2>2. RowOfHolder'
    BY <1>7, <1>8, <1>b, <2>1 DEF RowOfHolder, IInv, Held
  <2>3. \A q \in Request : RunsOnItsRow(q)'
    BY <1>1, <1>3, <1>8, <2>1 DEF IInv, Held, RunsOnItsRow
  <2>4. \A q \in Request : KeepsItsRow(q)'
    BY <1>2, <1>7, <1>8, <1>b, <2>1 DEF IInv, Held, KeepsItsRow
  <2>5. QED
    BY <2>2, <2>3, <2>4 DEF Held
<1>9. OnePerRetention'
  BY <1>2, <1>6, <1>7, <1>t DEF IInv, OnePerRetention
<1>10. QED
  BY <1>4, <1>5, <1>6, <1>8, <1>9 DEF IInv

(* What release lets go is the row of a handler that failed.                *)
LEMMA ReleaseStep == ASSUME IInv, NEW r \in Request, Release(r) PROVE IInv'
<1> DEFINE x == Ended(req[r], "failed")
<1>t. clock \in Nat /\ row \in Row /\ performed \subseteq Request
  BY DEF IInv, TypeOK
<1>1. /\ x \in RequestState /\ x.stage = "failed" /\ x.begun = req[r].begun
      /\ x.asks = req[r].asks /\ x.right = req[r].right
  BY EndedFacts DEF IInv, Answered
<1>2. req' = [req EXCEPT ![r] = x] /\ UNCHANGED <<performed, clock, faults>>
      /\ req[r].stage = "release"
      /\ row' = IF row.holder = req[r].seen /\ row.response = NOBODY
                THEN [row EXCEPT !.expires = 0] ELSE row
  BY DEF Release
<1> HIDE DEF x
<1>3. /\ req' \in [Request -> RequestState] /\ req'[r] = x
      /\ \A q \in Request \ {r} : req'[q] = req[q]
  BY <1>1, <1>2, OneRequest DEF IInv
<1>a. r \notin performed
  BY <1>2 DEF IInv, Sound
<1>b. /\ row'.holder = row.holder /\ row'.response = row.response /\ row' \in Row
      /\ row'.expires = row.expires \/ (row'.expires = 0 /\ row.response = NOBODY)
  <2>1. CASE row.holder = req[r].seen /\ row.response = NOBODY
    BY <1>2, <1>t, <2>1 DEF Row
  <2>2. CASE ~(row.holder = req[r].seen /\ row.response = NOBODY)
    BY <1>2, <1>t, <2>2
  <2>3. QED
    BY <2>1, <2>2
<1>4. TypeOK'
  BY <1>2, <1>3, <1>b DEF IInv, TypeOK
<1>5. \A q \in Request : Sound(q)'
  BY <1>1, <1>2, <1>3, <1>a DEF IInv, Sound
<1>6. TrueReplay' /\ NobodyOutwaited' = NobodyOutwaited
  BY <1>1, <1>2, <1>3, ReplaysStand
<1>7. \A q \in Request : req'[q].begun = req[q].begun
  BY <1>1, <1>3
<1>8. ASSUME NobodyOutwaited PROVE Held'
  <2>1. row.holder = r
    BY <1>2, <1>8 DEF IInv, Held, RunsOnItsRow
  <2>2. RowOfHolder'
    BY <1>7, <1>8, <1>b, <2>1 DEF RowOfHolder, IInv, Held
  <2>3. \A q \in Request : RunsOnItsRow(q)'
    BY <1>1, <1>3, <1>8, <2>1 DEF IInv, Held, RunsOnItsRow
  <2>4. \A q \in Request : KeepsItsRow(q)'
    BY <1>2, <1>7, <1>8, <1>a, <1>b, <2>1 DEF IInv, Held, KeepsItsRow
  <2>5. QED
    BY <2>2, <2>3, <2>4 DEF Held
<1>9. OnePerRetention'
  BY <1>2, <1>6, <1>7, <1>t DEF IInv, OnePerRetention
<1>10. QED
  BY <1>4, <1>5, <1>6, <1>8, <1>9 DEF IInv

(* The sweep takes no row from under a handler.                             *)
LEMMA SweepStep == ASSUME IInv, Sweep PROVE IInv'
<1>t. clock \in Nat /\ row \in Row /\ performed \subseteq Request
      /\ req \in [Request -> RequestState]
  BY DEF IInv, TypeOK
<1>1. UNCHANGED <<req, performed, clock, faults>>
      /\ row.holder \in Request /\ row.expires <= clock /\ row' = NoRow
  BY <1>t DEF Sweep, Row
<1>2. TypeOK'
  BY <1>1 DEF IInv, TypeOK, NoRow, Row
<1>3. \A q \in Request : Sound(q)'
  BY <1>1 DEF IInv, Sound
<1>4. TrueReplay' /\ NobodyOutwaited' = NobodyOutwaited
  BY <1>1, ReplaysStand
<1>5. ASSUME NobodyOutwaited PROVE Held'
  <2>1. \A q \in Request : req[q].stage \notin Running
    BY <1>1, <1>5, <1>t DEF IInv, Sound, Held, RunsOnItsRow, RequestState
  <2>2. \A q \in Request : RunsOnItsRow(q)'
    BY <1>1, <2>1 DEF RunsOnItsRow
  <2>3. \A q \in Request : KeepsItsRow(q)'
    BY <1>1, <1>5, <1>t DEF IInv, Held, KeepsItsRow, NoRow
  <2>4. RowOfHolder'
    BY <1>1 DEF RowOfHolder, NoRow
  <2>5. QED
    BY <2>2, <2>3, <2>4 DEF Held
<1>6. OnePerRetention'
  BY <1>1, <1>4 DEF IInv, OnePerRetention
<1>7. QED
  BY <1>2, <1>3, <1>4, <1>5, <1>6 DEF IInv

LEMMA TickStep == ASSUME IInv, Tick PROVE IInv'
<1>t. clock \in Nat /\ req \in [Request -> RequestState] /\ performed \subseteq Request
  BY DEF IInv, TypeOK
<1>1. UNCHANGED <<row, req, performed, faults>> /\ clock' = clock + 1
      /\ \A r \in Request : req[r].stage \in Running => clock < req[r].begun + WorkBudget
  BY DEF Tick
<1>2. TypeOK'
  BY <1>1, <1>t DEF IInv, TypeOK
<1>3. \A q \in Request : Sound(q)'
  BY <1>1, <1>t DEF IInv, Sound, RequestState
<1>4. TrueReplay' /\ NobodyOutwaited' = NobodyOutwaited
  BY <1>1, ReplaysStand
<1>5. ASSUME NobodyOutwaited PROVE Held'
  <2>1. RowOfHolder' /\ \A q \in Request : RunsOnItsRow(q)'
    BY <1>1, <1>5 DEF IInv, Held, RowOfHolder, RunsOnItsRow
  <2>2. \A q \in Request : KeepsItsRow(q)'
    BY <1>1, <1>5, <1>t DEF IInv, Held, KeepsItsRow, RequestState
  <2>3. QED
    BY <2>1, <2>2 DEF Held
<1>6. OnePerRetention'
  BY <1>1, <1>4 DEF IInv, OnePerRetention
<1>7. QED
  BY <1>2, <1>3, <1>4, <1>5, <1>6 DEF IInv

LEMMA IInvStep == ASSUME IInv, [Next]_vars PROVE IInv'
<1>1. ASSUME UNCHANGED vars PROVE IInv'
  <2>1. TypeOK' /\ \A r \in Request : Sound(r)'
    BY <1>1 DEF vars, IInv, TypeOK, Sound
  <2>2. TrueReplay' /\ NobodyOutwaited' = NobodyOutwaited
    BY <1>1, ReplaysStand DEF vars
  <2>3. OnePerRetention' /\ (NobodyOutwaited => Held')
    BY <1>1, <2>2 DEF vars, IInv, OnePerRetention, Held, RowOfHolder, RunsOnItsRow, KeepsItsRow
  <2>4. QED
    BY <2>1, <2>2, <2>3 DEF IInv
<1>2. ASSUME NEW r \in Request, Resolve(r) PROVE IInv'
  BY <1>2, ClaimStep, ReadStep, OutwaitStep DEF Resolve
<1>3. ASSUME NEW r \in Request, Execute(r) \/ Fault(r) PROVE IInv'
  BY <1>3, SucceedStep, FailStep, RecordStep, ReleaseStep DEF Execute
<1>4. QED
  BY <1>1, <1>2, <1>3, SweepStep, TickStep DEF Next

(* A recorded success is written by nobody but a complete, and deleted by   *)
(* nobody before it expires.                                                *)
LEMMA SuccessStep ==
    ASSUME IInv, [Next]_vars, row.response # NOBODY, row.expires > clock
    PROVE  row'.response # NOBODY /\ row'.expires = row.expires
<1>1. row \in Row /\ row.holder # NOBODY /\ clock \in Nat
  BY DEF IInv, TypeOK
<1>2. row' = row \/ \E r \in Request : row' = [row EXCEPT !.response = r]
  <2>1. ASSUME NEW r \in Request, Resolve(r) \/ Fault(r) PROVE row' = row
    BY <1>1, <2>1 DEF Resolve, Claim, Collide, Refuse, Replay, Wait, Outwait, Fault
  <2>2. ASSUME NEW r \in Request, Execute(r)
        PROVE  row' = row \/ row' = [row EXCEPT !.response = r]
    BY <2>2 DEF Execute, Succeed, Fail, Record, FindClaim, Release
  <2>3. ~Sweep
    BY <1>1 DEF Sweep, Row
  <2>4. Tick \/ UNCHANGED vars => row' = row
    BY DEF Tick, vars
  <2>5. QED
    BY <2>1, <2>2, <2>3, <2>4 DEF Next
<1>3. QED
  BY <1>1, <1>2 DEF Row

-----------------------------------------------------------------------------
(* Whose row stands while a handler runs, and what an effect leaves: the    *)
(* inductive invariant of one key (idempotency.interceptor.ts,              *)
(* idempotency.store.ts).                                                   *)
THEOREM KeyIsHeld == Spec => []IInv
BY IInvInit, IInvStep, PTL DEF Spec

(* Effects under one key are a retention apart as long as nobody outwaits   *)
(* the deadline: INSERT first, read on collision, release and sweep.        *)
THEOREM EffectsAreApart == Spec => []OnePerRetention
<1>1. IInv => OnePerRetention
  BY DEF IInv
<1>2. QED
  BY <1>1, KeyIsHeld, PTL

(* What is replayed then is the outcome of a request of the gym with the    *)
(* same fingerprint, begun within the retention (inspectExisting).          *)
THEOREM ReplaysAreTrue == Spec => []TrueReplay
<1>1. IInv => TrueReplay
  BY DEF IInv
<1>2. QED
  BY <1>1, KeyIsHeld, PTL

(* A current success stays recorded, and its expiry with it: complete and   *)
(* release are not awaited and come in any order.                           *)
THEOREM SuccessKept == Spec => SuccessIsKept
<1>1. IInv /\ [Next]_vars =>
        [row.response # NOBODY /\ row.expires > clock =>
            row'.response # NOBODY /\ row'.expires = row.expires]_vars
  BY SuccessStep
<1>2. QED
  BY <1>1, KeyIsHeld, PTL DEF Spec, SuccessIsKept
=============================================================================
