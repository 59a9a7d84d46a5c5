---------------------------------- MODULE Gate ----------------------------------
(***************************************************************************)
(* The way of one request to its handler (app.module.ts): the middleware   *)
(* that opens the frame of an impersonation, the one that opens the frame  *)
(* of a gym and puts the principal on the request, and the five guards in  *)
(* the order they are bound.  Each reads the clock for itself, and time    *)
(* and a revocation may pass between any two.                              *)
(*                                                                         *)
(* MfaGuard and ResourceTenantGuard are bound nowhere.  No issuer sets     *)
(* nbf, and no route is a financial mutation yet: the last guard is here   *)
(* for the first that is.  An unreachable Redis, which the denylist takes  *)
(* for "not revoked", is left out.                                         *)
(***************************************************************************)
EXTENDS Permissions, Integers

CONSTANTS
    Gym, Agent, Subject,
    Cap,        \* IMPERSONATION_MAX_MINUTES, in ticks
    MaxWall     \* bound: the ticks of a behaviour

Verdicts == {"TENANT_HEADER_NOT_ACCEPTED", "UNAUTHENTICATED", "TENANT_CONTEXT_MISSING",
             "PERMISSION_DENIED", "IMPERSONATION_FINANCIAL_MUTATION_REFUSED"}

\* What the constants are (a hypothesis, where something is proved of every value).
GateAssumption == Cap \in Nat /\ MaxWall \in Nat /\ None \notin Verdicts

VARIABLES
    gate,      \* the request: what it carries and asks, how far it is, what it has by then
    wall,      \* the time
    revoked    \* the family of the token is on the denylist

vars == <<gate, wall, revoked>>

-----------------------------------------------------------------------------
(* Tokens, as they were signed.  One that does not have three parts, its   *)
(* header, signature, issuer, audience and subject in order is not sound.  *)
Access(claims, gym, exp) ==
    [typ |-> "ACCESS", sound |-> TRUE, claims |-> claims, gym |-> gym, exp |-> exp,
     agent |-> None, agentClaims |-> {}, begun |-> 0, issued |-> 0]

\* Its expiry may be beyond the cap: "a signer bug, a redeployment with a different
\* IMPERSONATION_MAX_MINUTES".
Borrowed(claims, gym, exp) ==
    [Access(claims, gym, exp) EXCEPT
        !.typ = "IMPERSONATION", !.agent = Agent,
        !.agentClaims = {RoleScope("SUPPORT_AGENT", None)}]

Signed ==
    {Access({RoleScope("GYM_OWNER", Gym), RoleScope("USER", None)}, Gym, exp) : exp \in {1, 3}}
    \union {Access({RoleScope(r, None)}, None, 2) : r \in {"USER", "SUPER_ADMIN"}}
    \union {Borrowed({Claim("USER", "self", None)}, gym, exp) : gym \in {Gym, None}, exp \in {1, 3}}

\* One thing wrong with a token that was good.
Spoiled(t) ==
    {[t EXCEPT !.sound = FALSE], [t EXCEPT !.typ = "REFRESH"]}
    \union IF t.typ /= "IMPERSONATION" THEN {}
           ELSE {[t EXCEPT !.agent = None], [t EXCEPT !.agentClaims = {}],
                 [t EXCEPT !.begun = None], [t EXCEPT !.begun = t.issued + 1]}

Tokens == Signed \union UNION {Spoiled(t) : t \in Signed}

Route(permission) ==
    [public |-> FALSE, tenantScoped |-> FALSE, platformOnly |-> FALSE, financial |-> FALSE,
     permission |-> permission]
Routes ==
    {[Route(None) EXCEPT !.public = TRUE], Route(None),
     Route("iam.session.list"), Route("refunds.refund_request.create"),
     [Route("refunds.refund_request.create") EXCEPT !.financial = TRUE],
     [Route("catalog.branch.create") EXCEPT !.tenantScoped = TRUE],
     [Route("admin.gym_register.read") EXCEPT !.platformOnly = TRUE]}

Init ==
    /\ wall = 0 /\ revoked = FALSE
    /\ \E carried \in Tokens \union {None}, route \in Routes, naming \in BOOLEAN :
          gate = [token |-> carried, route |-> route, naming |-> naming, at |-> "sent",
                  principal |-> None, frame |-> None, acting |-> None,
                  arrived |-> 0, known |-> FALSE, verdict |-> None]

-----------------------------------------------------------------------------
(* AccessTokenVerifier.verify, by the clock as it is.                      *)
Verifies(t) ==
    /\ t /= None
    /\ t.sound /\ t.exp > wall
    /\ t.typ \in {"ACCESS", "IMPERSONATION"}
    /\ t.typ = "IMPERSONATION" =>
          t.agent /= None /\ t.agentClaims /= {} /\ t.begun /= None /\ t.begun <= t.issued

Goto(at) == [gate EXCEPT !.at = at]
Refuse(verdict) == [gate EXCEPT !.at = "refused", !.verdict = verdict]
At(stage) == gate.at = stage /\ UNCHANGED <<wall, revoked>>

(* ImpersonationContextMiddleware: outermost, and it never refuses.        *)
OpenImpersonation ==
    /\ At("sent")
    /\ gate' = [Goto("framed") EXCEPT
                  !.arrived = wall, !.known = revoked,
                  !.acting = IF Verifies(gate.token) /\ gate.token.typ = "IMPERSONATION"
                             THEN [agent |-> gate.token.agent, since |-> gate.token.begun]
                             ELSE None]

(* TenantContextMiddleware: a client may not name a gym; a token that does *)
(* not verify is no principal, and no frame.                               *)
OpenTenant ==
    /\ At("framed")
    /\ gate' = CASE gate.naming -> Refuse("TENANT_HEADER_NOT_ACCEPTED")
                 [] ~gate.naming /\ Verifies(gate.token) ->
                      [Goto("jwt") EXCEPT !.principal = gate.token, !.frame = gate.token.gym]
                 [] OTHER -> Goto("jwt")

(* JwtAuthGuard, up to the denylist.                                       *)
Authenticate ==
    /\ At("jwt")
    /\ gate' = CASE gate.route.public -> Goto("guards")
                 [] ~gate.route.public /\ gate.principal = None /\ ~Verifies(gate.token) ->
                      Refuse("UNAUTHENTICATED")
                 [] OTHER -> [Goto("denylist") EXCEPT !.principal = gate.token]

(* EXISTS, answered.                                                       *)
ReadDenylist ==
    /\ At("denylist")
    /\ gate' = IF revoked THEN Refuse("UNAUTHENTICATED") ELSE Goto("cap")

CheckCap ==
    /\ At("cap")
    /\ gate' = IF gate.principal.typ = "IMPERSONATION" /\ wall - gate.principal.begun >= Cap
               THEN Refuse("UNAUTHENTICATED") ELSE Goto("guards")

(* TenantGuard, PlatformRoleGuard, PermissionsGuard and                    *)
(* ImpersonationRestrictionGuard wait for nothing.                         *)
HoldsPlatformRole(claims) ==
    \E claim \in claims : claim.at = "platform" /\ claim.role \in PlatformStaff

Grants(p) ==
    IF p.typ = "IMPERSONATION" THEN EffectiveGrants(p.claims, p.agentClaims)
    ELSE ParseRoleGrants(p.claims)

Permitted(p, permission) ==
    /\ permission /= None /\ p /= None
    /\ Permits(permission, Grants(p), FallbackResource(p.claims, Subject), Subject) = "allowed"

Guards ==
    /\ At("guards")
    /\ LET p == gate.principal
           route == gate.route
           outsider == route.platformOnly /\ (p = None \/ ~HoldsPlatformRole(p.claims))
           forbidden == ~route.public /\ ~Permitted(p, route.permission)
       IN  gate' = IF route.tenantScoped /\ gate.frame = None
                   THEN Refuse("TENANT_CONTEXT_MISSING")
                   ELSE IF outsider \/ forbidden THEN Refuse("PERMISSION_DENIED")
                   ELSE IF p /= None /\ p.typ = "IMPERSONATION" /\ route.financial
                   THEN Refuse("IMPERSONATION_FINANCIAL_MUTATION_REFUSED")
                   ELSE Goto("handler")

Tick == wall < MaxWall /\ wall' = wall + 1 /\ UNCHANGED <<gate, revoked>>
Revoke == ~revoked /\ revoked' = TRUE /\ UNCHANGED <<gate, wall>>

Next ==
    \/ OpenImpersonation \/ OpenTenant \/ Authenticate \/ ReadDenylist \/ CheckCap
    \/ Guards \/ Tick \/ Revoke

Spec == Init /\ [][Next]_vars

-----------------------------------------------------------------------------
Handled == gate.at = "handler"

(* A handler that is not public runs for a token that was in order, in     *)
(* time and not revoked when its request arrived, a borrowed one within    *)
(* its cap; a route that declares neither permission nor @Public, and a    *)
(* request that names a gym, never get there (JwtAuthGuard).               *)
NobodyUnverified ==
    Handled =>
        /\ ~gate.naming
        /\ ~gate.route.public =>
              /\ gate.route.permission /= None /\ ~gate.known
              /\ gate.principal = gate.token /\ gate.token \in Signed
              /\ gate.arrived < gate.token.exp
              /\ gate.token.typ = "IMPERSONATION" => gate.arrived < gate.token.begun + Cap

(* "AC-7 wants the agent on EVERY write": whoever is impersonated, public  *)
(* route or not, his agent is on the frame the audit log reads, whenever   *)
(* the token expired in between; and the frame of the gym is the token's.  *)
FramesAreThePrincipals ==
    Handled /\ gate.principal /= None =>
        /\ gate.frame = gate.principal.gym
        /\ gate.principal.typ = "IMPERSONATION" =>
              gate.acting = [agent |-> gate.principal.agent, since |-> gate.principal.begun]
        /\ gate.principal.typ = "ACCESS" => gate.acting = None

(* A borrowed identity moves no money and reaches nothing that is for the  *)
(* platform's staff, its agent among them.                                 *)
BorrowedHandsAreTied ==
    Handled /\ gate.principal /= None /\ gate.principal.typ = "IMPERSONATION" =>
        ~gate.route.financial /\ ~gate.route.platformOnly

(* "what a 403 MEANS": a request is told who forbids it, no guard masking  *)
(* the one before it.                                                      *)
RefusalsSayWhy ==
    /\ gate.verdict = "IMPERSONATION_FINANCIAL_MUTATION_REFUSED" =>
          Permitted(gate.principal, gate.route.permission)
    /\ gate.verdict \in {"PERMISSION_DENIED", "TENANT_CONTEXT_MISSING"} =>
          gate.principal \in Signed /\ gate.arrived < gate.token.exp
    /\ gate.verdict = "TENANT_CONTEXT_MISSING" => gate.token.gym = None

GateHolds ==
    NobodyUnverified /\ FramesAreThePrincipals /\ BorrowedHandsAreTied /\ RefusalsSayWhy
=============================================================================
