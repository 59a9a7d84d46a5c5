-------------------------- MODULE OnboardingRules --------------------------
(***************************************************************************)
(* The pure rules of onboarding: the lifecycle of an application           *)
(* (application.state-machine.ts), the checklist of documents              *)
(* (checklist.ts) and what an edit of a listed gym costs                   *)
(* (material-field.policy.ts).                                             *)
(***************************************************************************)
EXTENDS Integers, Sequences, Ranking

-----------------------------------------------------------------------------
(* The lifecycle. *)
Allowed == [DRAFT          |-> {"SUBMITTED"},
            SUBMITTED      |-> {"UNDER_REVIEW"},
            UNDER_REVIEW   |-> {"APPROVED", "REJECTED", "INFO_REQUESTED"},
            INFO_REQUESTED |-> {"SUBMITTED"},
            APPROVED       |-> {"SUSPENDED", "CLOSED"},
            REJECTED       |-> {"DRAFT"},
            SUSPENDED      |-> {"APPROVED", "CLOSED"},
            CLOSED         |-> {}]

LifecycleStates == DOMAIN Allowed
HumanOnly == {"APPROVED", "REJECTED", "INFO_REQUESTED"}
ReviewerRoles == {"VERIFICATION_OFFICER", "SUPER_ADMIN"}
Actors == ReviewerRoles \union {"SYSTEM", "GYM_OWNER", "SUPPORT_AGENT"}

CanTransition(from, to, actor) ==
    to \in Allowed[from] /\ (to \in HumanOnly => actor \in ReviewerRoles)

(* What a group of actors can make of an application, taking turns: what   *)
(* is in every set of states that has the first and that they cannot leave.*)
Closed(S, actors) ==
    \A s \in S, t \in LifecycleStates, a \in actors : CanTransition(s, t, a) => t \in S

Reached(from, actors) ==
    {t \in LifecycleStates :
       \A S \in SUBSET LifecycleStates : from \in S /\ Closed(S, actors) => t \in S}

-----------------------------------------------------------------------------
(***************************************************************************)
(* The checklist.  An item asks for a document always, as advice, or under *)
(* a condition: keys it names, each an operator on the facts.  A fact the  *)
(* applicant has not declared leaves the item waiting; an operator nobody  *)
(* knows refuses the whole checklist.                                      *)
(***************************************************************************)
Operators == {"taxRegistrationStatusIn", "declaredByApplicant"}
Answers == {"yes", "no", "undeclared"}

(* facts.tax is one of the statuses the condition may list. *)
Evaluate(item, facts) ==
    LET has(op) == op \in DOMAIN item.condition
    IN  IF DOMAIN item.condition = {} \/ ~(DOMAIN item.condition \subseteq Operators)
          THEN "throws"
        ELSE IF has("taxRegistrationStatusIn")
                /\ facts.tax \notin item.condition["taxRegistrationStatusIn"]
          THEN "unmet"
        ELSE IF ~has("declaredByApplicant") THEN "met"
        ELSE CASE facts.declared[item.condition["declaredByApplicant"]] = "undeclared" -> "awaiting"
               [] facts.declared[item.condition["declaredByApplicant"]] = "no" -> "unmet"
               [] OTHER -> "met"

Resolved_TwoValued(item, facts) ==   \* mutant: an unanswered question is a no
    CASE item.obligation = "ALWAYS"   -> "REQUIRED"
      [] item.obligation = "ADVISORY" -> "ADVISORY"
      [] OTHER -> IF Evaluate(item, facts) = "met" THEN "REQUIRED" ELSE "NOT_REQUIRED"

Resolved(item, facts) ==
    CASE item.obligation = "ALWAYS"   -> "REQUIRED"
      [] item.obligation = "ADVISORY" -> "ADVISORY"
      [] OTHER -> CASE Evaluate(item, facts) = "awaiting" -> "AWAITING_DECLARATION"
                    [] Evaluate(item, facts) = "met"      -> "REQUIRED"
                    [] Evaluate(item, facts) = "unmet"    -> "NOT_REQUIRED"
                    [] OTHER                              -> "throws"

ResolveChecklist(items, facts) == [i \in DOMAIN items |-> Resolved(items[i], facts)]

(* checklistCompleteness over what resolveChecklist made of the items. *)
Missing(items, resolved, supplied) ==
    {i \in DOMAIN items : resolved[i] = "REQUIRED" /\ items[i].document \notin supplied}
Awaiting(resolved) == {i \in DOMAIN resolved : resolved[i] = "AWAITING_DECLARATION"}

Complete(items, facts, supplied) ==
    LET resolved == ResolveChecklist(items, facts)
    IN  /\ \A i \in DOMAIN items : resolved[i] /= "throws"
        /\ Missing(items, resolved, supplied) = {}
        /\ Awaiting(resolved) = {}

-----------------------------------------------------------------------------
(* Edits.  A field nobody classified is material. *)
MaterialFields == {"legalName", "entityType", "registrationNumber",
                   "registeredAddressLine1", "registeredAddressLine2",
                   "registeredCity", "registeredState", "registeredPostalCode",
                   "latitude", "longitude", "ownerUserId", "pan", "gstin",
                   "bankAccountNumber", "bankIfsc", "bankAccountHolderName"}
NonMaterialFields == {"photos", "media", "description", "amenities", "openingHours",
                      "timings", "planPriceMinor", "tradingName", "contactPhone",
                      "contactEmail"}
PayoutSuspendingFields == {"bankAccountNumber", "bankIfsc", "bankAccountHolderName"}

ClassifyEdit(changed) ==
    LET material == {f \in changed : f \notin NonMaterialFields}
    IN  [material       |-> material /= {},
         suspendsPayouts |-> changed \intersect PayoutSuspendingFields /= {},
         fields         |-> material]

-----------------------------------------------------------------------------
(* Tax identifiers (pan.vo.ts, gstin.vo.ts).  A PAN is whether it is well  *)
(* formed, its fourth letter and the rest; a GSTIN has a state's number    *)
(* and a PAN in it, which is compared with the one given, if any is.       *)
PanEntityCodes(entity) ==
    CASE entity = "COMPANY"         -> {"C"}
      [] entity = "PARTNERSHIP"     -> {"F"}
      [] entity = "SOLE_PROPRIETOR" -> {"P"}
      [] entity = "OTHER"           -> {"T", "H", "A", "B", "L", "G", "J"}
      [] OTHER                      -> {}   \* a type nobody knows

ValidPan(pan, entity) == pan.formed /\ pan.code \in PanEntityCodes(entity)

IsKnownStateCode(state) == state \in 1 .. 38 \union {97, 99}

ValidGstin(gstin, given) ==
    /\ gstin.pan.formed /\ IsKnownStateCode(gstin.state)
    /\ \A pan \in given : pan.formed /\ gstin.pan = pan

(* The wizard a gym is led through (wizard-step.ts). *)
WizardSteps == <<"BUSINESS_IDENTITY", "KYC", "GYM_PROFILE", "PLANS", "PAYOUT", "REVIEW">>

ProgressFrom(completed) ==
    LET open == Filtered(WizardSteps, LAMBDA s : s \notin completed)
    IN  [completed |-> Filtered(WizardSteps, LAMBDA s : s \in completed),
         next      |-> IF open = <<>> THEN "none" ELSE Head(open)]

-----------------------------------------------------------------------------
(* No sequence of acts without a reviewer brings an application to a       *)
(* verdict, whoever takes turns; with a reviewer every application that is *)
(* not closed can still be approved, and closed is the only end            *)
(* (application.state-machine.ts).                                         *)
VerdictsNeedAReviewer ==
    \A s \in LifecycleStates :
       /\ Reached(s, Actors \ ReviewerRoles) \intersect HumanOnly \subseteq {s}
       /\ s /= "CLOSED" => "APPROVED" \in Reached(s, Actors)
       /\ Allowed[s] = {} <=> s = "CLOSED"

(* A checklist found complete stays complete however the questions still   *)
(* open are answered and whatever is supplied on top: an unanswered        *)
(* question is never taken for a no, an unknown operator never for a       *)
(* document that is not needed (checklist.ts).                             *)
Answered(declared) ==
    {d \in [DOMAIN declared -> Answers] :
       \A q \in DOMAIN declared : declared[q] /= "undeclared" => d[q] = declared[q]}

(* What a reader of the law would ask: every document that could be due. *)
Due(item, facts) ==
    \/ item.obligation = "ALWAYS"
    \/ /\ item.obligation = "CONDITIONAL"
       /\ \A op \in DOMAIN item.condition \intersect Operators :
             IF op = "taxRegistrationStatusIn" THEN facts.tax \in item.condition[op]
             ELSE facts.declared[item.condition[op]] /= "no"

CompleteWhateverIsAnswered(items, facts, supplied) ==
    Complete(items, facts, supplied) =>
       \A d \in Answered(facts.declared) :
          \A i \in DOMAIN items :
             Due(items[i], [facts EXCEPT !.declared = d]) => items[i].document \in supplied

(* An edit that touches where the money goes both suspends payouts and     *)
(* goes to review, and no set of immediate fields does either; a field     *)
(* nobody knows goes to review (material-field.policy.ts).                 *)
MoneyEditsAreReviewed(changed) ==
    LET v == ClassifyEdit(changed)
    IN  /\ v.suspendsPayouts => v.material /\ PayoutSuspendingFields \intersect changed \subseteq v.fields
        /\ ~v.material => changed \subseteq NonMaterialFields
        /\ changed \intersect MaterialFields /= {} => v.material

(* The identifiers of a business agree: a PAN taken for one kind of entity *)
(* is refused for every other, and a tax number is taken with one PAN only *)
(* (pan.vo.ts validatePan, gstin.vo.ts validateGstin).                     *)
TaxIdsAgree(gstin, pans, entities) ==
    /\ \A pan \in pans : \A e, f \in entities : ValidPan(pan, e) /\ ValidPan(pan, f) => e = f
    /\ \A p, q \in pans : ValidGstin(gstin, {p}) /\ ValidGstin(gstin, {q}) => p = q

(* Whatever was completed, in whatever order, the wizard leads through     *)
(* what is left and nothing else, in its own order, and ends               *)
(* (wizard-step.ts progressFrom).                                          *)
WizardLeadsOn(completed) ==
    LET follow(done) ==
            LET next == ProgressFrom(done).next
            IN  IF next = "none" THEN done ELSE done \union {next}
        led[n \in 0 .. Len(WizardSteps)] == IF n = 0 THEN completed ELSE follow(led[n - 1])
        left == Len(WizardSteps) - Cardinality(completed)
    IN  /\ ProgressFrom(led[left]).next = "none"
        /\ left > 0 => ProgressFrom(led[left - 1]).next /= "none"
        /\ ProgressFrom(led[left]).completed = WizardSteps
        /\ Len(ProgressFrom(completed).completed) = Cardinality(completed)
=============================================================================
