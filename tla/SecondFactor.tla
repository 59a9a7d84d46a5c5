----------------------------- MODULE SecondFactor -----------------------------
(***************************************************************************)
(* One account's second factor: enrolling it, confirming it, presenting a  *)
(* TOTP or a recovery code, and removing it.                               *)
(*                                                                         *)
(* The factor is five columns of one row.  A handler reads the row, judges *)
(* what was presented against what it read, and writes one statement; the  *)
(* handlers of the same account overlap freely.  A secret and a set of     *)
(* recovery codes are known by a number, the order they were drawn in.     *)
(***************************************************************************)
EXTENDS Integers, FiniteSets, RedisKeys

CONSTANTS
    Handlers,
    RecoveryCount,   \* RECOVERY_CODE_COUNT
    Threshold,       \* LOCKOUT_THRESHOLD
    Window,          \* LOCKOUT_WINDOW_SECONDS, in steps of 30 seconds
    EscalationThreshold,
    EscalationWindow,    \* LOCKOUT_ESCALATION_WINDOW_SECONDS, likewise
    Drift,           \* TOTP_DRIFT_STEPS
    MaxSecrets, MaxEnrolments, MaxStep,    \* bounds of the model
    None

\* What the constants are (a hypothesis, where something is proved of every value).
FactorAssumption ==
    /\ IsFiniteSet(Handlers)
    /\ {RecoveryCount, Threshold, Window, EscalationThreshold, EscalationWindow,
        MaxSecrets, MaxEnrolments, MaxStep} \subseteq Nat \ {0}
    /\ Drift \in Nat

VARIABLES
    row,         \* the mfa_* columns
    drawn,       \* the secrets and the sets of codes drawn so far
    now,         \* the step of the clock
    failures,    \* auth:fail:{user}
    locks,       \* auth:locks:{user}
    req,         \* the handlers
    confirmed,   \* history: the secrets a live code has confirmed
    spent,       \* history: the recovery codes that were accepted
    mixed        \* history: the ways handlers have crossed

vars == <<row, drawn, now, failures, locks, req, confirmed, spent, mixed>>
histories == <<confirmed, spent, mixed>>

NoSecret == 0
NoStep == -1
NoFactor == [enabled |-> FALSE, secret |-> NoSecret, codes |-> {}, step |-> NoStep]

Totp == [kind : {"totp"}, of : 1 .. MaxSecrets, n : 0 .. MaxStep + Drift]
RecoveryCodes == [kind : {"recovery"}, of : 1 .. MaxEnrolments, n : 1 .. RecoveryCount]

\* code: what was presented and accepted; codes: the list of them, as the handler
\* read it; late: someone wrote the row since.
Idle == [at |-> "idle", code |-> None, codes |-> {}, late |-> FALSE]

Init ==
    /\ row = NoFactor
    /\ drawn = [secrets |-> 0, enrolments |-> 0]
    /\ now = 1
    /\ failures = Absent /\ locks = Absent
    /\ req = [h \in Handlers |-> Idle]
    /\ confirmed = {} /\ spent = {} /\ mixed = {}

At(h, stage) == req[h].at = stage
Become(h, r) == req' = [req EXCEPT ![h] = r]
Goto(h, stage) == Become(h, [req[h] EXCEPT !.at = stage])

\* What the others are told of a write to the row (history).
Written(h, r) == req' = [g \in Handlers |-> IF g = h THEN r
                                  ELSE [req[g] EXCEPT !.late = req[g].at = "recordStep"]]

Activating == \E h \in Handlers : At(h, "activate")

-----------------------------------------------------------------------------
\* EnrolMfaUseCase.begin, past the password: whatever the factor's state, the
\* secret is replaced and nothing else is.
Enrol ==
    /\ drawn.secrets < MaxSecrets
    /\ drawn' = [drawn EXCEPT !.secrets = @ + 1]
    /\ row' = [row EXCEPT !.secret = drawn'.secrets]
    /\ mixed' = mixed \cup (IF row.enabled \/ Activating THEN {"replaced"} ELSE {})
    /\ UNCHANGED <<now, failures, locks, req, confirmed, spent>>

\* DisableMfaUseCase, past the role and the password.
Disable ==
    /\ row # NoFactor
    /\ row' = NoFactor
    /\ mixed' = mixed \cup (IF Activating THEN {"cleared"} ELSE {})
    /\ UNCHANGED <<drawn, now, failures, locks, req, confirmed, spent>>

\* verifyMfaCode: confirmation or presentation, told apart by the row.
Present(h) ==
    /\ At(h, "idle")
    /\ Goto(h, IF ~row.enabled /\ row.secret # NoSecret THEN "confirm" ELSE "locked")
    /\ UNCHANGED <<row, drawn, now, failures, locks, histories>>

(***************************************************************************)
(* verifyTotp: a step within the drift and above the last accepted one.    *)
(***************************************************************************)
InDrift(code) == code.kind = "totp" /\ code.n \in now - Drift .. now + Drift

ValidTotp_Replayed(code, secret, last) ==
    InDrift(code) /\ code.of = secret

ValidTotp(code, secret, last) ==
    InDrift(code) /\ code.of = secret /\ code.n > last

Confirm_AnyCode(h, code) ==
    /\ At(h, "confirm")
    /\ IF ~row.enabled /\ row.secret # NoSecret /\ InDrift(code)
       THEN Become(h, [Idle EXCEPT !.at = "activate", !.code = code])
       ELSE Become(h, Idle)
    /\ UNCHANGED <<row, drawn, now, failures, locks, histories>>

\* EnrolMfaUseCase.confirm reads the row once more; a wrong code costs nothing.
Confirm(h, code) ==
    /\ At(h, "confirm")
    /\ IF ~row.enabled /\ row.secret # NoSecret /\ ValidTotp(code, row.secret, row.step)
       THEN Become(h, [Idle EXCEPT !.at = "activate", !.code = code])
       ELSE Become(h, Idle)
    /\ UNCHANGED <<row, drawn, now, failures, locks, histories>>

\* activate: the flag, the codes and the first step, but not the secret.
Activate(h) ==
    /\ At(h, "activate") /\ drawn.enrolments < MaxEnrolments
    /\ drawn' = [drawn EXCEPT !.enrolments = @ + 1]
    /\ row' = [row EXCEPT !.enabled = TRUE, !.step = req[h].code.n,
                          !.codes = {c \in RecoveryCodes : c.of = drawn'.enrolments}]
    /\ confirmed' = confirmed \cup {req[h].code.of}
    /\ Written(h, Idle)
    /\ UNCHANGED <<now, failures, locks, spent, mixed>>

-----------------------------------------------------------------------------
\* VerifyMfaUseCase: the lockout the password shares ...
CheckLock(h) ==
    /\ At(h, "locked")
    /\ IF failures.n >= Threshold THEN Become(h, Idle) ELSE Goto(h, "read")
    /\ UNCHANGED <<row, drawn, now, failures, locks, histories>>

\* ... the row, and the verdict on it.
Judge(h, code) ==
    /\ At(h, "read")
    /\ LET asked == row.enabled /\ row.secret # NoSecret IN
       Become(h,
         CASE ~asked -> Idle
           [] asked /\ ValidTotp(code, row.secret, row.step) ->
                 [Idle EXCEPT !.at = "recordStep", !.code = code]
           [] asked /\ code \in row.codes ->
                 [Idle EXCEPT !.at = "replace", !.code = code, !.codes = row.codes]
           [] OTHER -> [Idle EXCEPT !.at = "failed"])
    /\ UNCHANGED <<row, drawn, now, failures, locks, histories>>

\* The predicate of recordAcceptedStep's updateMany.
Advanced(last, step) == IF last < step THEN step ELSE last

RecordStep(h) ==
    /\ At(h, "recordStep")
    /\ row' = [row EXCEPT !.step = Advanced(@, req[h].code.n)]
    /\ Written(h, [Idle EXCEPT !.at = "clear"])
    /\ UNCHANGED <<drawn, now, failures, locks, confirmed, spent, mixed>>

Remaining(r) == r.codes \ {r.code}

\* replaceRecoveryCodes: the list that was read, without the code.
ReplaceCodes(h) ==
    /\ At(h, "replace")
    /\ row' = [row EXCEPT !.codes = Remaining(req[h])]
    /\ spent' = spent \cup {req[h].code}
    /\ mixed' = mixed \cup (IF row.codes # req[h].codes THEN {"rewritten"} ELSE {})
    /\ Written(h, [Idle EXCEPT !.at = "clear"])
    /\ UNCHANGED <<drawn, now, failures, locks, confirmed>>

ClearFailures(h) ==
    /\ At(h, "clear")
    /\ failures' = Absent
    /\ Become(h, Idle)
    /\ UNCHANGED <<row, drawn, now, locks, histories>>

\* Every count that is at the threshold or beyond it records a lock of its own.
CountFailure(h) ==
    /\ At(h, "failed")
    /\ failures' = IncrWithin(failures, Window)
    /\ IF failures'.n >= Threshold THEN Goto(h, "lock") ELSE Become(h, Idle)
    /\ UNCHANGED <<row, drawn, now, locks, histories>>

RecordLock(h) ==
    /\ At(h, "lock")
    /\ locks' = Capped(IncrWithin(locks, EscalationWindow), EscalationThreshold)
    /\ Become(h, Idle)
    /\ UNCHANGED <<row, drawn, now, failures, histories>>

\* A rejected command counts as a failure once the row was judged; a death, or a
\* rejection before, ends the request.
Fail(h) ==
    /\ ~At(h, "idle")
    /\ \/ Become(h, Idle)
       \/ /\ req[h].at \in {"recordStep", "replace", "clear"}
          /\ Become(h, [Idle EXCEPT !.at = "failed"])
    /\ UNCHANGED <<row, drawn, now, failures, locks, histories>>

Tick ==
    /\ now < MaxStep
    /\ now' = now + 1
    /\ failures' = Aged(failures) /\ locks' = Aged(locks)
    /\ UNCHANGED <<row, drawn, req, histories>>

Next ==
    \/ Enrol \/ Disable \/ Tick
    \/ \E h \in Handlers :
          \/ \E code \in Totp \cup RecoveryCodes : Confirm(h, code) \/ Judge(h, code)
          \/ Present(h) \/ Activate(h) \/ CheckLock(h) \/ RecordStep(h)
          \/ ReplaceCodes(h) \/ ClearFailures(h) \/ CountFailure(h) \/ RecordLock(h) \/ Fail(h)

Spec == Init /\ [][Next]_vars

-----------------------------------------------------------------------------
\* Types.
FactorTypes ==
    /\ row \in [enabled : BOOLEAN, secret : NoSecret .. MaxSecrets, codes : SUBSET RecoveryCodes,
                step : NoStep .. MaxStep + Drift]
    /\ drawn \in [secrets : 0 .. MaxSecrets, enrolments : 0 .. MaxEnrolments]
    /\ now \in 1 .. MaxStep
    /\ failures \in Counters(Threshold + Cardinality(Handlers), Window)
    /\ locks \in Counters(EscalationThreshold, EscalationWindow)
    /\ spent \subseteq RecoveryCodes

StepAdvances ==
    row'.step < row.step => row' = NoFactor \/ drawn'.enrolments > drawn.enrolments

\* The high-water mark of an enrolment only rises: two codes verified at once
\* cannot make the newer one replayable.
StepsOnlyAdvance == [][StepAdvances]_vars

TotpServesAgain ==
    \A h \in Handlers :
        At(h, "recordStep") /\ req'[h].at = "clear" /\ req[h].code.n <= row.step => req[h].late

\* A step that was accepted, or one before it, is accepted again only from a
\* request that had read the row before the other wrote it.
TotpServesTwiceOnlyTogether == [][TotpServesAgain]_vars

\* A recovery code that was used is on the list again only when two requests
\* wrote the list each had read.
SpentCodesStaySpent == spent \cap row.codes # {} => "rewritten" \in mixed

\* An account asks for a factor it does not hold only when a removal crossed a
\* confirmation ("locked out with no way back except support").
EnabledHasSecret == row.enabled /\ row.secret = NoSecret => "cleared" \in mixed

\* The secret in force was confirmed with a live code, unless an enrolment was
\* begun over a factor in force or in the middle of its confirmation.
ConfirmedUnlessReplaced ==
    row.enabled /\ row.secret # NoSecret => row.secret \in confirmed \/ "replaced" \in mixed

\* Wrong codes in one window: the threshold, and one more of every other handler
\* that was already past the check.
GuessesAreBounded == failures.n <= Threshold + Cardinality(Handlers) - 1

\* A factor that is asked for can be given: its secret is there and was confirmed,
\* whoever guesses is stopped, and a recovery code serves once
\* (enrol-mfa.use-case.ts, verify-mfa.use-case.ts).
FactorHolds ==
    /\ FactorTypes /\ EnabledHasSecret /\ ConfirmedUnlessReplaced
    /\ GuessesAreBounded /\ SpentCodesStaySpent

\* A step of the clock serves once: the mark only rises, and only requests under
\* way together get past it (mfa.prisma-repository.ts, recordAcceptedStep).
StepsServeOnce == [][StepAdvances /\ TotpServesAgain]_vars

\* The factor "is NOT active until POST /auth/mfa/verify confirms it with a live code".
ActiveOnlyWhenConfirmed ==
    row.enabled /\ row.secret # NoSecret => row.secret \in confirmed
=============================================================================
