------------------------------- MODULE Problems -------------------------------
(***************************************************************************)
(* What becomes of something thrown: the filter answers it in the one      *)
(* error shape (common/errors), the dashboard's client reads the answer    *)
(* (shared/api/client.ts) and a screen shows it (packages/ui/src/state).   *)
(* The code of an answer is a row of the registry (packages/types).        *)
(*                                                                         *)
(* Texts are where they come from: the sentence kept for a code, one the   *)
(* exception brings for the client, or what only operators may read.       *)
(***************************************************************************)
EXTENDS Integers, FiniteSets, TLC

Row(class, status, retryable) ==
    [class |-> class, httpStatus |-> status, retryable |-> retryable]

CommonRows ==
    [VALIDATION_FAILED        |-> Row("Validation", 400, FALSE),
     INTERNAL_ERROR           |-> Row("System", 500, FALSE),
     RESOURCE_NOT_FOUND       |-> Row("NotFound", 404, FALSE),
     UNAUTHENTICATED          |-> Row("Authentication", 401, FALSE),
     RATE_LIMIT_EXCEEDED      |-> Row("RateLimit", 429, TRUE),
     DEPENDENCY_UNAVAILABLE   |-> Row("System", 503, TRUE),
     IDEMPOTENCY_KEY_REQUIRED |-> Row("Validation", 400, FALSE),
     IDEMPOTENCY_KEY_MISMATCH |-> Row("Conflict", 409, FALSE),
     CURRENCY_MISMATCH        |-> Row("Validation", 422, FALSE)]

TenancyRows ==
    [TENANT_HEADER_NOT_ACCEPTED |-> Row("Validation", 400, FALSE),
     TENANT_CONTEXT_MISSING     |-> Row("System", 500, FALSE),
     TENANT_CONTEXT_ALREADY_SET |-> Row("System", 500, FALSE),
     ELEVATION_REFUSED          |-> Row("System", 500, FALSE),
     PERMISSION_DENIED          |-> Row("Authorisation", 403, FALSE),
     LAST_OWNER_PROTECTED       |-> Row("Business", 422, FALSE)]

OnboardingRows ==
    [APPLICATION_ILLEGAL_TRANSITION |-> Row("Business", 422, FALSE),
     APPLICATION_ALREADY_SUBMITTED  |-> Row("Business", 409, FALSE),
     APPLICATION_SNAPSHOT_IMMUTABLE |-> Row("Business", 422, FALSE),
     KYC_CHECKLIST_NOT_PUBLISHED    |-> Row("System", 503, FALSE),
     KYC_DOCUMENT_REJECTED          |-> Row("Validation", 422, FALSE),
     KYC_STORAGE_UNAVAILABLE        |-> Row("System", 503, FALSE)]

AssuranceRows ==
    [IMPERSONATION_FINANCIAL_MUTATION_REFUSED |-> Row("Business", 403, FALSE),
     IMPERSONATION_REFUSED                    |-> Row("Business", 422, FALSE),
     MFA_VERIFICATION_FAILED                  |-> Row("Business", 401, FALSE),
     MFA_ENROLMENT_REQUIRED                   |-> Row("Business", 403, FALSE),
     MFA_MANDATORY_FOR_ROLE                   |-> Row("Business", 422, FALSE),
     MFA_NOT_AVAILABLE_FOR_ROLE               |-> Row("Business", 422, FALSE)]

AccountRows ==
    [ACCOUNT_LOCKED             |-> Row("Authorisation", 403, FALSE),
     PASSWORD_BREACHED          |-> Row("Validation", 422, FALSE),
     EMAIL_ALREADY_REGISTERED   |-> Row("Conflict", 409, FALSE),
     PHONE_ALREADY_REGISTERED   |-> Row("Conflict", 409, FALSE),
     RESET_TOKEN_INVALID        |-> Row("Validation", 422, FALSE),
     OTP_INVALID                |-> Row("Validation", 400, FALSE),
     OTP_EXPIRED                |-> Row("Validation", 400, FALSE),
     OTP_ATTEMPTS_EXCEEDED      |-> Row("RateLimit", 429, TRUE),
     OTP_RESEND_LIMIT_REACHED   |-> Row("RateLimit", 429, TRUE),
     OTP_RESEND_TOO_SOON        |-> Row("RateLimit", 429, TRUE),
     CAPTCHA_REQUIRED           |-> Row("Authorisation", 403, FALSE),
     VERIFICATION_TOKEN_INVALID |-> Row("Validation", 422, FALSE)]

CatalogRows ==
    [BRANCH_HAS_ACTIVE_MEMBERSHIPS          |-> Row("Business", 422, FALSE),
     APPLICATION_PRECHECK_OVERRIDE_REQUIRED |-> Row("Business", 422, TRUE),
     GEO_ADDRESS_MISMATCH                   |-> Row("Business", 422, FALSE),
     BRANCH_NOT_ASSIGNED_TO_STAFF           |-> Row("Authorisation", 403, FALSE),
     RESOURCE_VERSION_CONFLICT              |-> Row("Conflict", 409, FALSE),
     CONFIG_VALIDATION_FAILED               |-> Row("Business", 422, FALSE)]

ErrorRegistry ==
    CommonRows @@ TenancyRows @@ OnboardingRows @@ AssuranceRows @@ AccountRows @@ CatalogRows
IsErrorCode(code) == code \in DOMAIN ErrorRegistry

(* Three codes are answered in the words of an internal error. *)
Generic == "INTERNAL_ERROR"
ClientSafeMessage ==
    [code \in DOMAIN ErrorRegistry |->
       IF code \in {"TENANT_CONTEXT_MISSING", "TENANT_CONTEXT_ALREADY_SET"} THEN Generic ELSE code]

-----------------------------------------------------------------------------
(* Things thrown.  details: the names of what the exception encloses. *)
Domain(code, client, details, operator) ==
    [kind |-> "domain", code |-> code, client |-> client, details |-> details,
     operator |-> operator]
Zod(issues) == [kind |-> "zod", details |-> issues, operator |-> "none"]
Http(status, operator) == [kind |-> "http", status |-> status, operator |-> operator]
Other(operator) == [kind |-> "other", operator |-> operator]

IamErrors(operator) ==
    {Domain("EMAIL_ALREADY_REGISTERED", "none", {"field"}, operator),
     Domain("PHONE_ALREADY_REGISTERED", "none", {"field"}, operator),
     Domain("PASSWORD_BREACHED", "none", {"field"}, operator),
     Domain("ACCOUNT_LOCKED", "own", {"locked_until", "unlock_channels"}, operator),
     Domain("RESET_TOKEN_INVALID", "none", {}, operator),
     Domain("VERIFICATION_TOKEN_INVALID", "none", {}, operator),
     Domain("OTP_INVALID", "own", {"attempts_remaining"}, operator),
     Domain("OTP_EXPIRED", "none", {}, operator),
     Domain("OTP_ATTEMPTS_EXCEEDED", "none", {"retry_after_seconds"}, operator),
     Domain("OTP_RESEND_LIMIT_REACHED", "none", {"retry_after_seconds"}, operator),
     Domain("OTP_RESEND_TOO_SOON", "none", {"retry_after_seconds"}, operator),
     Domain("CAPTCHA_REQUIRED", "none", {}, operator)}

TenancyErrors(operator) ==
    {Domain("TENANT_CONTEXT_MISSING", "none", {"field", "model", "operation", "diagnosis"}, operator),
     Domain("TENANT_CONTEXT_ALREADY_SET", "none", {"field", "current", "attempted", "diagnosis"}, operator),
     Domain("TENANT_HEADER_NOT_ACCEPTED", "none", {"field", "location", "remedy"}, operator),
     Domain("ELEVATION_REFUSED", "none", {"field", "scope", "diagnosis"}, operator),
     Domain("TENANT_CONTEXT_ALREADY_SET", "none", {"field", "diagnosis"}, operator)}

(* What the use cases throw by their code alone. *)
ByCode(operator) ==
    {Domain(code, "none", {}, operator) : code \in DOMAIN ErrorRegistry \union {"NOT_A_ROW"}}

FrameworkStatuses == {400, 401, 403, 404, 409, 413, 429, 500, 502, 503}

Throwables(operator) ==
    IamErrors(operator) \union TenancyErrors(operator) \union ByCode(operator)
    \union {Zod({"email"}), Zod({}), Other(operator)}
    \union {Http(status, operator) : status \in FrameworkStatuses}

-----------------------------------------------------------------------------
(* The filter. *)
CodeForStatus(status) ==
    CASE status = 400 -> "VALIDATION_FAILED"
      [] status = 401 -> "UNAUTHENTICATED"
      [] status = 403 -> "PERMISSION_DENIED"
      [] status = 404 -> "RESOURCE_NOT_FOUND"
      [] status = 409 -> "IDEMPOTENCY_KEY_MISMATCH"
      [] status = 429 -> "RATE_LIMIT_EXCEEDED"
      [] status = 503 -> "DEPENDENCY_UNAVAILABLE"
      [] OTHER -> "INTERNAL_ERROR"

Envelope(code, message, details) ==
    IF IsErrorCode(code) THEN [code |-> code, message |-> message, details |-> details]
    ELSE [code |-> "INTERNAL_ERROR", message |-> Generic, details |-> {}]

StatusOf(thrown) ==
    CASE thrown.kind = "domain" ->
           IF IsErrorCode(thrown.code) THEN ErrorRegistry[thrown.code].httpStatus ELSE 500
      [] thrown.kind = "zod"  -> 400
      [] thrown.kind = "http" -> thrown.status
      [] OTHER                -> 500

MessageFor(thrown) ==
    IF thrown.client /= "none" THEN thrown.client
    ELSE IF IsErrorCode(thrown.code) THEN ClientSafeMessage[thrown.code] ELSE Generic

MessageOfFramework(thrown) ==
    LET code == CodeForStatus(thrown.status)
    IN  IF thrown.status >= 500 THEN Generic
        ELSE IF code \in DOMAIN ClientSafeMessage THEN ClientSafeMessage[code]
        ELSE thrown.operator

Translate(thrown) ==
    [status |-> StatusOf(thrown),
     body   |-> CASE thrown.kind = "domain" ->
                       Envelope(thrown.code, MessageFor(thrown), thrown.details)
                  [] thrown.kind = "zod"  ->
                       Envelope("VALIDATION_FAILED", "VALIDATION_FAILED", thrown.details)
                  [] thrown.kind = "http" ->
                       Envelope(CodeForStatus(thrown.status), MessageOfFramework(thrown), {})
                  [] OTHER -> Envelope("INTERNAL_ERROR", Generic, {}),
     log    |-> IF StatusOf(thrown) >= 500 THEN "error" ELSE "warn"]

-----------------------------------------------------------------------------
(***************************************************************************)
(* The client.  What arrives is the answer, an empty body, something that  *)
(* is not JSON (a proxy's page), or nothing at all.                        *)
(***************************************************************************)
Parse(arrived) ==
    CASE arrived.kind = "answer" -> arrived.body
      [] arrived.kind = "page"   -> [code |-> "UNEXPECTED_RESPONSE", message |-> "page", details |-> {}]
      [] OTHER                   -> [code |-> "UNKNOWN", message |-> "status", details |-> {}]

ToProblem(arrived) ==
    IF arrived.kind = "nothing" THEN [code |-> "NETWORK", message |-> "network", status |-> 0]
    ELSE [code    |-> Parse(arrived).code,
          message |-> Parse(arrived).message,
          status  |-> arrived.status]

(* What may arrive of an answer, the status kept. *)
Arrivals(answer) ==
    {[kind |-> "answer", status |-> answer.status, body |-> answer.body],
     [kind |-> "empty", status |-> answer.status],
     [kind |-> "page", status |-> 502],
     [kind |-> "nothing"]}

(* The screen's state.  A status of 0 is none; data: what loaded before. *)
CanRetry(problem) == problem.status = 0 \/ problem.status >= 500 \/ problem.status = 429

ToSurfaceState(query) ==
    IF query.pending THEN [kind |-> "loading"]
    ELSE IF query.failed THEN
           IF query.problem.status = 403
           THEN [kind |-> "permission-denied", missingPermission |-> query.problem.code]
           ELSE [kind |-> "error", error |-> query.problem, canRetry |-> CanRetry(query.problem),
                 lastGood |-> query.data]
    ELSE IF query.data = "none" THEN [kind |-> "loading"]
    ELSE IF query.data = "empty" THEN [kind |-> "empty"]
    ELSE [kind |-> "ready", data |-> query.data]

(* What a reader of the boundary sees and may press. *)
Boundary(state) ==
    [says  |-> IF state.kind = "error" THEN state.error.message ELSE state.kind,
     rows  |-> IF state.kind = "ready" THEN state.data ELSE "none",
     retry |-> state.kind = "error" /\ state.canRetry,
     trace |-> state.kind = "error" /\ state.error.status >= 500]

Seen(arrived, data) ==
    Boundary(ToSurfaceState([pending |-> FALSE, failed |-> TRUE, data |-> data,
                             problem |-> ToProblem(arrived)]))

-----------------------------------------------------------------------------
(* "its raw message is NOT echoed to the client": an answer does not       *)
(* depend on what operators read of its cause (domain-exception.filter.ts),*)
(* nor does anything a screen makes of it (client.ts, state-boundary.tsx). *)
CausesStayHidden(thrown, causes) ==
    \A other \in causes :
       LET same == [thrown EXCEPT !.operator = other]
       IN  /\ Translate(same) = Translate(thrown)
           /\ \A data \in {"none", "rows"} :
                {Seen(a, data) : a \in Arrivals(Translate(same))}
                  = {Seen(a, data) : a \in Arrivals(Translate(thrown))}

(* Whose fault it was is told the same way everywhere: the row's class,    *)
(* the status, the log, and whether support can trace it, of everything    *)
(* but a refusal of the framework's without a code (registry.ts, filter).  *)
BlameIsKept(thrown) ==
    LET answer == Translate(thrown)
        ours   == ErrorRegistry[answer.body.code].class = "System"
        seen   == Seen([kind |-> "answer", status |-> answer.status,
                        body |-> answer.body], "none")
    IN  /\ IsErrorCode(answer.body.code)
        /\ thrown.kind /= "http" =>
             answer.status = ErrorRegistry[answer.body.code].httpStatus
        /\ ~(thrown.kind = "http" /\ thrown.status < 500 /\ answer.body.code = "INTERNAL_ERROR") =>
             (answer.status >= 500) = ours /\ (answer.log = "error") = ours /\ seen.trace = ours

(* The rows a screen judges otherwise than the registry: by its status     *)
(* each may be tried again, and its row says no; or the other way round.   *)
OfferedAgainstTheRow ==
    {"INTERNAL_ERROR", "TENANT_CONTEXT_MISSING", "TENANT_CONTEXT_ALREADY_SET", "ELEVATION_REFUSED",
     "KYC_CHECKLIST_NOT_PUBLISHED", "KYC_STORAGE_UNAVAILABLE"}
KeptAgainstTheRow == {"APPLICATION_PRECHECK_OVERRIDE_REQUIRED"}

(* "Whether the caller may retry the identical request unchanged and       *)
(* expect a different result": another try is offered where the row allows *)
(* one, and for the network and a proxy's page, and is not offered where   *)
(* it does not.  Of the seven rows above the contrary is so: two of them   *)
(* are 503s of which the registry says that they must not invite a retry   *)
(* (registry.ts:290-293, :322-324; surface-state.ts:123).                  *)
RetriesMaySucceed(thrown) ==
    LET answer == Translate(thrown)
        code   == answer.body.code
    IN  \A a \in Arrivals(answer) :
          LET seen == Seen(a, "none")
          IN  /\ a.kind \in {"nothing", "page"} => seen.retry
              /\ a.kind = "answer" /\ thrown.kind /= "http" =>
                   (seen.retry = ErrorRegistry[code].retryable
                      <=> code \notin OfferedAgainstTheRow \union KeptAgainstTheRow)

ProblemsAreTold(thrown, causes) ==
    /\ CausesStayHidden(thrown, causes)
    /\ BlameIsKept(thrown)
    /\ RetriesMaySucceed(thrown)
=============================================================================
