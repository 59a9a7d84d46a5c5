------------------------------ MODULE TenantRoles ------------------------------
(***************************************************************************)
(* Who may act for one gym: the rows of user_roles, the use case that      *)
(* replaces a user's role, and the access tokens that carry a user's roles *)
(* as claims.                                                              *)
(*                                                                         *)
(* A change reads the gym's assignments, lets the last-owner policy decide,*)
(* and only then opens the transaction that writes; in the transaction it  *)
(* reads the user's live rows before it revokes them.  Nothing locks what  *)
(* was read, so two changes overlap at both places.  A grant is a row that *)
(* is never deleted: it is live or revoked.                                *)
(***************************************************************************)
EXTENDS Integers, FiniteSets

CONSTANTS
    Users, Roles, Owner,
    Changes,       \* role changes under way at once
    AccessLife,    \* ACCESS_TOKEN_TTL_SECONDS, in ticks
    None

ASSUME RolesAssumption == Owner \in Roles /\ None \notin Users \cup Roles
ASSUME LifeAssumption == AccessLife \in Nat \ {0}

VARIABLES
    grant,     \* user_roles of the gym
    token,     \* an access token: whose it is, its roles claim, and what is left of it
    req,       \* the changes
    lost       \* history: ticks since its user lost each role, up to AccessLife

vars == <<grant, token, req, lost>>

NoToken == [user |-> None, roles |-> {}, left |-> 0]
RowStates == {"none", "live", "revoked"}
LiveRoles(u) == {r \in Roles : grant[u][r] = "live"}
Owners == {u \in Users : grant[u][Owner] = "live"}

\* owner, others, deposed: whether the user was an owner when judged, the other
\* owners counted, and who of them lost it since; overlap: someone wrote the
\* user's rows since they were read.
Idle == [at |-> "idle", user |-> None, role |-> None, live |-> {}, owner |-> FALSE,
         others |-> {}, deposed |-> {}, overlap |-> FALSE]

Init ==
    /\ grant \in {g \in [Users -> [Roles -> {"none", "live"}]] :
                     \E u \in Users : g[u][Owner] = "live"}
    /\ token = NoToken
    /\ req = [c \in Changes |-> Idle]
    /\ lost = [r \in Roles |-> 0]

At(c, stage) == req[c].at = stage

(***************************************************************************)
(* mayChangeRole: the owners that count are live rows of other users.      *)
(***************************************************************************)
OwnersOtherThan_AnyRow(u) == {v \in Users \ {u} : grant[v][Owner] # "none"}

OwnersOtherThan(u) == Owners \ {u}

MayChangeRole(u, next) ==
    \/ next = Owner
    \/ u \notin Owners
    \/ OwnersOtherThan(u) # {}

\* ChangeUserRoleUseCase: assignmentsFor and the verdict on what it read.
Judge(c, u, next) ==
    /\ At(c, "idle")
    /\ MayChangeRole(u, next)
    /\ req' = [req EXCEPT ![c] = [Idle EXCEPT !.at = "read", !.user = u, !.role = next,
                                              !.owner = u \in Owners,
                                              !.others = OwnersOtherThan(u)]]
    /\ UNCHANGED <<grant, token, lost>>

\* replaceRole: the user's live rows, read in the transaction.
ReadLive(c) ==
    /\ At(c, "read")
    /\ req' = [req EXCEPT ![c].at = "write", ![c].live = LiveRoles(req[c].user),
                          ![c].overlap = FALSE]
    /\ UNCHANGED <<grant, token, lost>>

\* What the others under way are told of a write to u's rows (history).
Seen(d, c, u) ==
    IF d = c THEN [req[c] EXCEPT !.at = "invalidate"]
    ELSE [req[d] EXCEPT
             !.deposed = IF req[c].role # Owner THEN @ \cup ({u} \cap req[d].others) ELSE @,
             !.overlap = @ \/ (req[d].at = "write" /\ req[d].user = u)]

Rewritten(row, revoked, next) ==
    [r \in Roles |-> IF r = next THEN "live" ELSE IF r \in revoked THEN "revoked" ELSE row[r]]

Commit(c, revoked) ==
    LET u == req[c].user
    IN  /\ grant' = [grant EXCEPT ![u] = Rewritten(@, revoked, req[c].role)]
        /\ lost' = [r \in Roles |->
                       IF token.user = u /\ grant[u][r] = "live" /\ grant'[u][r] # "live"
                       THEN 0 ELSE lost[r]]
        /\ req' = [d \in Changes |-> Seen(d, c, u)]
        /\ UNCHANGED token

\* The rest of the transaction: the rows it read are revoked but the target's,
\* and the target is created or brought back to life.
WriteRole(c) == At(c, "write") /\ Commit(c, req[c].live \ {req[c].role})

\* invalidate, then the audit row.  Nothing fills the cache it empties: the
\* guard reads the claims.
Invalidate(c) ==
    /\ At(c, "invalidate")
    /\ req' = [req EXCEPT ![c] = Idle]
    /\ UNCHANGED <<grant, token, lost>>

\* A rejected await or a death; before the commit it leaves nothing behind.
Fail(c) ==
    /\ ~At(c, "idle")
    /\ req' = [req EXCEPT ![c] = Idle]
    /\ UNCHANGED <<grant, token, lost>>

Sign_OldClaims(u) ==
    /\ token' = [user |-> u, left |-> AccessLife,
                 roles |-> IF token.user = u THEN token.roles ELSE LiveRoles(u)]
    /\ lost' = IF token.user = u THEN lost ELSE [r \in Roles |-> 0]
    /\ UNCHANGED <<grant, req>>

\* An access token: roleScopesFor reads the live rows, and the claims are what
\* they were at that moment.  The model follows one token at a time.
Sign(u) ==
    /\ token' = [user |-> u, roles |-> LiveRoles(u), left |-> AccessLife]
    /\ lost' = [r \in Roles |-> 0]
    /\ UNCHANGED <<grant, req>>

Tick ==
    /\ token.left > 0
    /\ IF token.left = 1
       THEN token' = NoToken /\ lost' = [r \in Roles |-> 0]
       ELSE /\ token' = [token EXCEPT !.left = @ - 1]
            /\ lost' = [r \in Roles |->
                          IF lost[r] < AccessLife THEN lost[r] + 1 ELSE AccessLife]
    /\ UNCHANGED <<grant, req>>

Next ==
    \/ \E c \in Changes :
          \/ \E u \in Users, r \in Roles : Judge(c, u, r)
          \/ ReadLive(c) \/ WriteRole(c) \/ Invalidate(c) \/ Fail(c)
    \/ \E u \in Users : Sign(u)
    \/ Tick

Spec == Init /\ [][Next]_vars

-----------------------------------------------------------------------------
\* Types.
RoleTypes ==
    /\ grant \in [Users -> [Roles -> RowStates]]
    /\ token \in [user : Users \cup {None}, roles : SUBSET Roles, left : 0 .. AccessLife]
    /\ req \in [Changes -> [at : {"idle", "read", "write", "invalidate"},
                            user : Users \cup {None}, role : Roles \cup {None},
                            live : SUBSET Roles, owner : BOOLEAN, others : SUBSET Users,
                            deposed : SUBSET Users, overlap : BOOLEAN]]
    /\ lost \in [Roles -> 0 .. AccessLife]

\* The policy as such never lets the gym's last owner go: where one goes, a change
\* overlapped the one that took him, and either deposed another owner it had
\* counted or made an owner of a user who was none when it judged.
LastOwnerGoesOnlyByOverlap ==
    [][Owners # {} /\ Owners' = {} =>
         \E c \in Changes : At(c, "write") /\ (req[c].owner => req[c].deposed # {})]_vars

\* A replaced role is replaced: after a change nobody overlapped, the user
\* holds the new role and no other.
ReplacedMeansReplaced ==
    [][\A c \in Changes :
         At(c, "write") /\ req'[c].at = "invalidate" /\ ~req[c].overlap =>
             LiveRoles(req[c].user)' = {req[c].role}]_vars

\* A revoked role lives on in the claims, and for no longer than the token that
\* was signed while it was held.
AuthorityEndsWithTheToken ==
    \A r \in token.roles :
        grant[token.user][r] = "live" \/ lost[r] + token.left <= AccessLife

\* A change does what its policy judged, but for the changes that overlap it
\* (change-user-role.use-case.ts, user-role.prisma-repository.ts).
ChangesAreAsJudged == LastOwnerGoesOnlyByOverlap /\ ReplacedMeansReplaced

\* The roles in a token are those of its user, or were within its lifetime
\* (roleScopesFor, and no check of the rows when the token is used).  Nothing
\* sooner ends them: TakesEffectWithin is false of less than that lifetime.
ClaimsEndWithTheToken == RoleTypes /\ AuthorityEndsWithTheToken

\* FR-RBAC-04 "requires a role change to take effect within 60 seconds without
\* forcing a re-authentication" (user.prisma-repository.ts).
TakesEffectWithin(ticks) ==
    \A r \in token.roles : grant[token.user][r] = "live" \/ lost[r] <= ticks

\* A gym keeps an owner ("Removing or demoting them would leave nobody able to
\* grant roles").
OwnerRemains == Owners # {}
=============================================================================
