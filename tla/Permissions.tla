----------------------------- MODULE Permissions -----------------------------
(***************************************************************************)
(* Who may do what: the matrix of capabilities and roles, the role claims  *)
(* of a token, and the decision taken on a request.  Everything here is a  *)
(* function of its arguments.                                              *)
(*                                                                         *)
(* A cell of the matrix is FULL, OWN, READ or NONE.  The decision tells    *)
(* READ and NONE from the rest and never OWN from FULL, so a row has the   *)
(* roles that write (FULL or OWN) and those that only read.                *)
(***************************************************************************)
CONSTANT None

Consumers == {"USER", "MEMBER"}
Managers == {"GYM_MANAGER", "GYM_OWNER"}
Desk == Managers \cup {"RECEPTIONIST"}
Floor == Desk \cup {"TRAINER"}
PlatformStaff == {"SUPER_ADMIN", "VERIFICATION_OFFICER", "SUPPORT_AGENT", "FINANCE", "MODERATOR"}
Root == {"SUPER_ADMIN"}

RoleNames == {"VISITOR"} \cup Consumers \cup Floor \cup PlatformStaff

\* ROLE_DEFINITIONS: the scope a role is declared with.
DeclaredScope(role) == CASE role = "VISITOR" -> "PUBLIC"
                         [] role \in Consumers -> "SELF"
                         [] role = "GYM_OWNER" -> "TENANT"
                         [] role \in Floor \ {"GYM_OWNER"} -> "BRANCH"
                         [] role \in PlatformStaff -> "PLATFORM"

(***************************************************************************)
(* CAPABILITY_MATRIX.  A row has its read keys, its write keys, the roles  *)
(* that hold both and the roles that hold the read keys.                   *)
(***************************************************************************)
Row(reads, writes, writers, readers) ==
    [reads |-> reads, writes |-> writes, writers |-> writers, readers |-> readers]

MarketplaceRows == {
    Row({"discovery.listing.read"}, {}, RoleNames, {}),
    Row({"catalog.plan_price.read"}, {}, RoleNames, {}),
    Row({"discovery.favourite.read"}, {"discovery.favourite.write"}, Consumers, {}),
    Row({"discovery.comparison.read"}, {}, Consumers \cup {"VISITOR"}, {}),
    Row({}, {"ordering.checkout.create"}, Consumers, {}),
    Row({"memberships.own_membership.read"}, {}, {"MEMBER"}, {"USER"}),
    Row({}, {"attendance.own_qr.create"}, {"MEMBER"}, {})}

RequestRows == {
    Row({}, {"reviews.review.create"}, {"MEMBER"}, {}),
    Row({"billing.own_invoice.read"}, {}, Consumers, {}),
    Row({"refunds.refund_request.read"}, {"refunds.refund_request.create"},
        Consumers \cup {"SUPPORT_AGENT", "FINANCE", "SUPER_ADMIN"}, {}),
    Row({"attendance.check_in.read"}, {"attendance.check_in.create"}, Floor, {}),
    Row({}, {"attendance.override.create"}, Desk \cup Root, {}),
    Row({"attendance.branch_attendance.read"}, {}, Floor, {"SUPPORT_AGENT", "SUPER_ADMIN"}),
    Row({"crm.member.read"}, {"crm.member.create"}, Desk, {})}

GymRecordRows == {
    Row({"crm.member_record.read"}, {"crm.member_record.update"},
        Desk, {"SUPPORT_AGENT", "SUPER_ADMIN"}),
    Row({}, {"payments.offline_payment.create"}, Desk, {}),
    Row({"plans.plan.read"}, {"plans.plan.write"},
        {"GYM_OWNER"}, {"GYM_MANAGER", "SUPPORT_AGENT", "FINANCE", "SUPER_ADMIN"}),
    Row({}, {"plans.plan_publication.create"}, {"GYM_OWNER", "SUPER_ADMIN"}, {}),
    Row({"catalog.gym_profile.read"}, {"catalog.gym_profile.update", "catalog.branch.update"},
        Managers \cup Root, {"VERIFICATION_OFFICER", "SUPPORT_AGENT"})}

GymManagementRows == {
    Row({"catalog.branch.read", "catalog.branch.list"},
        {"catalog.branch.create", "catalog.branch.deactivate"},
        {"GYM_OWNER", "SUPER_ADMIN"}, Floor \ {"GYM_OWNER"}),
    Row({"staff.staff_member.read"}, {"staff.staff_member.write"}, Managers \cup Root, {}),
    Row({"staff.trainer_assignment.read"}, {"staff.trainer_assignment.write"},
        Managers, {"TRAINER"}),
    Row({"staff.workout_plan.read"}, {"staff.workout_plan.write"},
        Managers \cup {"TRAINER"}, {}),
    Row({"plans.coupon.read"}, {"plans.coupon.write"},
        {"GYM_OWNER", "SUPER_ADMIN"}, {"GYM_MANAGER"}),
    Row({"reviews.review_response.read"}, {"reviews.review_response.create"},
        Managers \cup Root, {"MODERATOR"})}

GymMoneyRows == {
    Row({"reviews.moderation.read"}, {"reviews.moderation.write"},
        {"MODERATOR", "SUPER_ADMIN"}, {}),
    Row({"reporting.tenant_report.read"}, {},
        Floor, {"SUPPORT_AGENT", "FINANCE", "SUPER_ADMIN"}),
    Row({"settlements.statement.read"}, {},
        {"GYM_OWNER", "FINANCE", "SUPER_ADMIN"}, {"SUPPORT_AGENT"}),
    Row({}, {"settlements.payout_account.update"}, {"GYM_OWNER", "SUPER_ADMIN"}, {}),
    Row({}, {"reporting.tenant_export.create"}, {"GYM_OWNER", "FINANCE", "SUPER_ADMIN"}, {}),
    Row({"onboarding.kyc_document.read"}, {"onboarding.kyc_review.create"},
        {"VERIFICATION_OFFICER", "SUPER_ADMIN"}, {}),
    Row({}, {"onboarding.application_decision.create"},
        {"VERIFICATION_OFFICER", "SUPER_ADMIN"}, {})}

PlatformMoneyRows == {
    Row({}, {"admin.tenant_suspension.create"}, Root, {}),
    Row({"admin.commission_rule.read"}, {"admin.commission_rule.write"}, Root, {"FINANCE"}),
    Row({"settlements.payout_run.read"}, {"settlements.payout_run.approve"},
        {"FINANCE", "SUPER_ADMIN"}, {}),
    Row({"refunds.policy_exception.read"}, {"refunds.policy_exception.approve"},
        Root, {"FINANCE"}),
    Row({"payments.dispute.read"}, {"payments.dispute.write"},
        {"FINANCE", "SUPER_ADMIN"}, {"GYM_OWNER"}),
    Row({}, {"iam.impersonation.start", "iam.impersonation.end"},
        {"SUPPORT_AGENT", "SUPER_ADMIN"}, {})}

PlatformRows == {
    Row({"iam.platform_user.read", "admin.user.read_permissions"}, {"iam.platform_user.write"},
        Root, {}),
    Row({"admin.feature_flag.read"}, {"admin.feature_flag.write"}, Root, {}),
    Row({"audit.audit_log.read"}, {},
        {"GYM_OWNER", "SUPER_ADMIN"}, PlatformStaff \ Root),
    Row({"catalog.taxonomy.read"}, {"catalog.taxonomy.write"}, {"MODERATOR", "SUPER_ADMIN"}, {})}

OnboardingRows == {
    Row({"onboarding.application.read", "onboarding.kyc_document.list"},
        {"onboarding.application.submit", "onboarding.kyc_document.upload",
         "onboarding.kyc_document.delete"}, {"GYM_OWNER"}, {}),
    Row({"admin.platform_overview.read"}, {}, Root, {"SUPPORT_AGENT"}),
    Row({"admin.gym_register.read"}, {}, Root, {"SUPPORT_AGENT"}),
    Row({}, {"tenancy.tenant.create"}, Consumers \cup {"GYM_OWNER"}, {})}

Matrix == MarketplaceRows \cup RequestRows \cup GymRecordRows \cup GymManagementRows
          \cup GymMoneyRows \cup PlatformMoneyRows \cup PlatformRows \cup OnboardingRows

Keys(row) == row.reads \cup row.writes
PermissionKeys == UNION {Keys(row) : row \in Matrix}

\* permissionsFor: what a role holds.
Held == [role \in RoleNames |->
            {key \in PermissionKeys : \E row \in Matrix :
                \/ role \in row.writers /\ key \in Keys(row)
                \/ role \in row.readers /\ key \in row.reads}]

PermissionsFor(roles) == UNION {Held[role] : role \in roles}

\* The keys outside the matrix: what anyone may do to his own account, and the ping.
SelfServicePermissions == {"iam.session.list", "iam.session.revoke", "iam.mfa.enrol",
                           "iam.mfa.verify", "iam.mfa.disable"}
ScopedNonMatrixPermissions == {"tenancy.ping.read"}

-----------------------------------------------------------------------------
(***************************************************************************)
(* Claims and grants.  A claim is a role and where it is said to hold:     *)
(* "platform", "self", "t" (a gym), "b" (a branch of a gym), or anything   *)
(* else, which no grant is made of.                                        *)
(***************************************************************************)
Claim(role, at, tenant) == [role |-> role, at |-> at, tenant |-> tenant, branch |-> None]

\* roleScopesFor: the claims of a user, of his live rows.
RoleScope(role, gym) ==
    IF DeclaredScope(role) \in {"TENANT", "BRANCH"}
    THEN Claim(role, "t", gym)
    ELSE Claim(role, CASE DeclaredScope(role) = "PLATFORM" -> "platform"
                       [] DeclaredScope(role) = "SELF" -> "self"
                       [] DeclaredScope(role) = "PUBLIC" -> "public", None)

\* parseRoleGrant answers a grant where the claim suits the role's declared scope.
Parses(claim) ==
    /\ claim.role \in RoleNames
    /\ LET declared == DeclaredScope(claim.role)
       IN  \/ claim.at = "platform" /\ declared = "PLATFORM"
           \/ claim.at = "self" /\ declared \in {"SELF", "PUBLIC"}
           \/ claim.at = "t" /\ claim.tenant # None /\ declared \in {"TENANT", "BRANCH"}
           \/ claim.at = "b" /\ claim.tenant # None /\ claim.branch # None /\ declared = "BRANCH"

ParseRoleGrants(claims) == {claim \in claims : Parses(claim)}
RolesOf(grants) == {grant.role : grant \in grants}

ScopeReaches(grant, resource, user) ==
    \/ grant.at = "platform"
    \/ grant.at = "t" /\ resource.tenant # None /\ resource.tenant = grant.tenant
    \/ /\ grant.at = "b"
       /\ resource.tenant # None /\ resource.tenant = grant.tenant
       /\ resource.branch # None /\ resource.branch = grant.branch
    \/ grant.at = "self" /\ resource.subject # None /\ resource.subject = user

Holding(permission, grants) ==
    IF permission \in ScopedNonMatrixPermissions
    THEN grants
    ELSE {grant \in grants : permission \in Held[grant.role]}

Permits(permission, grants, resource, user) ==
    IF permission \in SelfServicePermissions
    THEN IF grants = {} THEN "NOT_GRANTED" ELSE "allowed"
    ELSE IF permission \notin PermissionKeys \cup ScopedNonMatrixPermissions
    THEN "UNKNOWN_PERMISSION"
    ELSE IF Holding(permission, grants) = {} THEN "NOT_GRANTED"
    ELSE IF \E grant \in Holding(permission, grants) : ScopeReaches(grant, resource, user)
    THEN "allowed"
    ELSE "OUT_OF_SCOPE"

\* The resource PermissionsGuard judges by where no route declares one: the first
\* gym among the claims (a token carries one), and the principal himself.
FallbackResource(claims, user) ==
    LET gyms == {grant.tenant : grant \in ParseRoleGrants(claims)} \ {None}
    IN  [tenant |-> IF gyms = {} THEN None ELSE CHOOSE gym \in gyms : TRUE,
         branch |-> None, subject |-> user]

\* effectiveGrants under an impersonation: a grant of the subject survives where
\* the agent holds something it confers.
EffectiveGrants_Every(claims, agentClaims) ==
    {grant \in ParseRoleGrants(claims) :
        Held[grant.role] \subseteq PermissionsFor(RolesOf(ParseRoleGrants(agentClaims)))}

EffectiveGrants_Swapped(claims, agentClaims) ==
    {grant \in ParseRoleGrants(agentClaims) :
        Held[grant.role] \cap PermissionsFor(RolesOf(ParseRoleGrants(claims))) # {}}

EffectiveGrants(claims, agentClaims) ==
    {grant \in ParseRoleGrants(claims) :
        Held[grant.role] \cap PermissionsFor(RolesOf(ParseRoleGrants(agentClaims))) # {}}

\* impersonatedPermissions: what the console is told.
ImpersonatedPermissions(agentRoles, targetRoles) ==
    PermissionsFor(agentRoles) \cap PermissionsFor(targetRoles)

\* capabilityDeclares: any of the keys of the row.
CapabilityDeclares(row, permission) == permission \in Keys(row)

\* inspectPermission: the reasons the console shows, one for each grant and row.
Reasons(grants, permission) ==
    {reason \in {grant \in grants : permission \in Held[grant.role]} \X Matrix :
        /\ CapabilityDeclares(reason[2], permission)
        /\ reason[1].role \in reason[2].writers \cup reason[2].readers}

\* The console agrees with the guard: it shows a permission of the matrix as held
\* exactly where the guard admits it on some resource.
Agrees(grants, resources, user) ==
    \A permission \in PermissionKeys :
        Reasons(grants, permission) # {}
        <=> \E resource \in resources : Permits(permission, grants, resource, user) = "allowed"
=============================================================================
