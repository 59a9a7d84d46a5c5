----------------------------- MODULE Impersonation -----------------------------
(***************************************************************************)
(* A support agent who acts as a user: the session is started with a       *)
(* reason, carries the roles of both, and ends at its time or when the     *)
(* agent ends it.  The routes are behind JwtAuthGuard and                  *)
(* PermissionsGuard, and the second judges the request that ends a session *)
(* as it judges any other.                                                 *)
(***************************************************************************)
EXTENDS Permissions, Integers, FiniteSets

CONSTANTS
    Gym, Agent, Subject,   \* the gym of a tenant's roles, and the two users
    MaxMinutes,            \* IMPERSONATION_MAX_MINUTES, in ticks
    DenylistTtl            \* FAMILY_DENYLIST_TTL_SECONDS, in ticks

\* What the constants are (a hypothesis, where something is proved of every value).
SessionAssumption == MaxMinutes \in Nat /\ DenylistTtl \in Nat /\ Subject # None

VARIABLES
    agentRoles, subjectRoles,   \* the live rows of user_roles of the two
    pending,   \* the minutes of a start that is recorded and not yet signed, or 0
    session,   \* the token
    denied,    \* what is left of the denylist entry of its family
    trail,     \* the audit rows
    asked      \* history: the agent asked to end the session

vars == <<agentRoles, subjectRoles, pending, session, denied, trail, asked>>

NoSession == [claims |-> {}, agentClaims |-> {}, minutes |-> 0, age |-> 0]
MayImpersonate == {"SUPPORT_AGENT", "SUPER_ADMIN"}

ClaimsOf(roles) == {RoleScope(role, Gym) : role \in roles}
ParsedRoles(roles) == RolesOf(ParseRoleGrants(ClaimsOf(roles)))

Init ==
    /\ agentRoles \in {{role} : role \in RoleNames}
    /\ subjectRoles \in {roles \in SUBSET RoleNames : Cardinality(roles) \in 1 .. 2}
    /\ pending = 0
    /\ session = NoSession
    /\ denied = 0
    /\ trail = {}
    /\ asked = FALSE

\* JwtAuthGuard: the token has not expired, its family is not denied, and less
\* than the cap has passed since it was begun.
Accepted ==
    /\ session # NoSession
    /\ session.age < session.minutes
    /\ denied = 0
    /\ session.age < MaxMinutes

\* PermissionsGuard, for a request under the session and for one of the user's own.
Admits(permission) ==
    Permits(permission, EffectiveGrants(session.claims, session.agentClaims),
            FallbackResource(session.claims, Subject), Subject) = "allowed"

AdmitsOwn(permission, roles, user) ==
    Permits(permission, ParseRoleGrants(ClaimsOf(roles)),
            FallbackResource(ClaimsOf(roles), user), user) = "allowed"

MayStartImpersonation(agents, targets, minutes) ==
    /\ agents \cap MayImpersonate # {}
    /\ targets \cap MayImpersonate = {}
    /\ minutes \in 1 .. MaxMinutes

\* StartImpersonationUseCase up to the audit row, behind the guard of its route.
\* append logs a write that fails and returns.  The model follows one session.
Start(minutes) ==
    /\ pending = 0 /\ session = NoSession
    /\ AdmitsOwn("iam.impersonation.start", agentRoles, Agent)
    /\ MayStartImpersonation(ParsedRoles(agentRoles), ParsedRoles(subjectRoles), minutes)
    /\ trail' \in {trail, trail \cup {"started"}}
    /\ pending' = minutes
    /\ UNCHANGED <<agentRoles, subjectRoles, session, denied, asked>>

\* The rest of it: the subject's roles are claimed as his own, the agent's as
\* the platform's.
Sign ==
    /\ pending # 0
    /\ session' = [claims |-> {Claim(r, "self", None) : r \in ParsedRoles(subjectRoles)},
                   agentClaims |-> {Claim(r, "platform", None) : r \in ParsedRoles(agentRoles)},
                   minutes |-> pending, age |-> 0]
    /\ pending' = 0
    /\ UNCHANGED <<agentRoles, subjectRoles, denied, trail, asked>>

\* The process dies between the row and the token.
Die ==
    /\ pending # 0
    /\ pending' = 0
    /\ UNCHANGED <<agentRoles, subjectRoles, session, denied, trail, asked>>

\* POST /auth/impersonate/end: both guards, then EndImpersonationUseCase, which
\* denies the family and records the end; the row may be lost.
RequestEnd ==
    /\ Accepted
    /\ asked' = TRUE
    /\ IF Admits("iam.impersonation.end")
       THEN denied' = DenylistTtl /\ trail' \in {trail, trail \cup {"ended"}}
       ELSE UNCHANGED <<denied, trail>>
    /\ UNCHANGED <<agentRoles, subjectRoles, pending, session>>

Tick ==
    /\ session # NoSession /\ session.age < MaxMinutes
    /\ session' = [session EXCEPT !.age = @ + 1]
    /\ denied' = IF denied = 0 THEN 0 ELSE denied - 1
    /\ UNCHANGED <<agentRoles, subjectRoles, pending, trail, asked>>

Next ==
    \/ \E minutes \in 1 .. MaxMinutes + 1 : Start(minutes)
    \/ Sign \/ Die \/ RequestEnd \/ Tick

Spec == Init /\ [][Next]_vars

-----------------------------------------------------------------------------
\* What the console was told the session may do.
Announced == ImpersonatedPermissions(ParsedRoles(agentRoles), ParsedRoles(subjectRoles))

\* Types.
SessionTypes ==
    /\ pending \in 0 .. MaxMinutes
    /\ session.minutes \in 0 .. MaxMinutes /\ session.age \in 0 .. MaxMinutes
    /\ denied \in 0 .. DenylistTtl
    /\ trail \subseteq {"started", "ended"} /\ asked \in BOOLEAN

\* A session admits nothing its subject could not do himself.
NothingBeyondTheSubject ==
    Accepted => \A permission \in PermissionKeys :
                    Admits(permission) => AdmitsOwn(permission, subjectRoles, Subject)

\* Nobody acts as somebody who may act as others: the session starts no other,
\* and is not announced as one that does.
NoChainOfIdentities ==
    Accepted => /\ ~Admits("iam.impersonation.start")
                /\ "iam.impersonation.start" \notin Announced

\* What the console was told is admitted, where the subject holds no role but a
\* consumer's (the claims of the others are not the subject's own and are dropped).
ConsumersGetWhatIsAnnounced ==
    Accepted /\ ParsedRoles(subjectRoles) \subseteq Consumers =>
        \A permission \in Announced : Admits(permission)

\* What is admitted and was not announced came with a role: effectiveGrants keeps
\* a consumer's role whole where the agent holds any permission of it.
UnannouncedOnlyWithItsRole ==
    Accepted => \A permission \in PermissionKeys \ Announced :
        Admits(permission) =>
            \E role \in ParsedRoles(subjectRoles) \cap Consumers :
                permission \in Held[role] /\ Held[role] \cap Announced # {}

\* AC-5: "the effective set is the intersection of the agent's and the impersonated
\* user's" (impersonation.policy.ts), "for the client to render honestly"
\* (start-impersonation.use-case.ts).  The guard admits more of every consumer.
NothingUnannounced == Accepted => {p \in PermissionKeys : Admits(p)} \subseteq Announced

\* "A token handed out before its start event is recorded is the un-attributable
\* session this milestone exists to prevent": a session that can be used is on record.
SessionsAreOnRecord == session # NoSession => "started" \in trail

\* The console of permissions agrees with the guard (RB5), for any user's grants.
InspectorAgrees ==
    Agrees(ParseRoleGrants(ClaimsOf(subjectRoles)),
           [tenant : {Gym, None}, branch : {None}, subject : {Subject, None}], Subject)

\* An impersonation stays within what it was started for: its subject and one hop
\* (start-impersonation.use-case.ts, effectiveGrants).
SessionStaysWithin == SessionTypes /\ NothingBeyondTheSubject /\ NoChainOfIdentities

\* What the agent's console was told of a consumer's session is admitted, what else
\* is admitted belongs to a role it was told something of, and the console of
\* permissions shows what the guard decides (effective-permissions.ts).
ConsolesTellTheTruth ==
    ConsumersGetWhatIsAnnounced /\ UnannouncedOnlyWithItsRole /\ InspectorAgrees

\* Ending an impersonation "Revokes the token family, so the credential stops
\* working immediately rather than running to its 30-minute expiry".
EndEndsTheSession == asked => ~Accepted
=============================================================================
