--------------------------- MODULE RefreshSession ---------------------------
(***************************************************************************)
(* Sessions, refresh-token rotation and the token-family denylist          *)
(* (apps/server/src/iam/application/session.use-cases.ts and what it       *)
(* calls).  Two stores are involved and no transaction spans them: the     *)
(* PostgreSQL tables auth_sessions and refresh_tokens, and the Redis       *)
(* denylist the guard reads.  A request handler is therefore modelled as a *)
(* process that may be interrupted by any other at each await, and that    *)
(* works afterwards on what it read before.                                *)
(*                                                                         *)
(* A family id is minted with its session and is unique                    *)
(* (uq_auth_sessions__family_id), so one name, a member of Session, stands *)
(* for both.  A refresh token is named by its session and its generation:  *)
(* (session_id, generation) is unique.  An access token is named by its    *)
(* family and the instant it was signed.                                   *)
(***************************************************************************)
EXTENDS Naturals

CONSTANTS
    Session,    \* sessions, each its own token family
    User,       \* the people who own them
    Owner,      \* auth_sessions.user_id
    Request,    \* concurrent request handlers
    NULL,       \* an SQL null
    AccessTtl,  \* ACCESS_TOKEN_TTL_SECONDS, in clock units
    RefreshTtl, \* REFRESH_TOKEN_TTL_SECONDS
    Grace,      \* ROTATION_GRACE_SECONDS
    MaxGen,     \* bound on the generations of one family
    MaxClock    \* bound on the clock

ASSUME OwnerAssumption  == Owner \in [Session -> User]
ASSUME TtlAssumption    == AccessTtl \in Nat \ {0} /\ RefreshTtl \in Nat \ {0} /\ Grace \in Nat
ASSUME BoundsAssumption == MaxGen \in Nat \ {0} /\ MaxClock \in Nat

VARIABLES
    clock,   \* the CLOCK port every handler reads
    session, \* auth_sessions
    token,   \* refresh_tokens, by session and generation; NULL where there is no row
    denied,  \* the Redis denylist: when each family's entry expires (0: no entry)
    access,  \* the instants at which access tokens of each family were signed
    held,    \* the generations whose plaintext has been returned to a client
    cut,     \* history: the access tokens that existed when their family was last denied
    req      \* what each request handler is doing, and what it has read

vars == <<clock, session, token, denied, access, held, cut, req>>

Gen == 1..MaxGen

ShortDenylistTtl == AccessTtl - 1

\* FAMILY_DENYLIST_TTL_SECONDS: an entry lives exactly as long as an access token.
DenylistTtl == AccessTtl

Reason == {"USER_SIGNED_OUT", "PASSWORD_RESET", "TOKEN_REUSE_DETECTED"}

SessionRow ==
    [status: {"NONE", "ACTIVE", "REVOKED"}, reason: Reason \union {NULL}, absoluteExpiresAt: Nat]

TokenRow == [usedAt: Nat \union {NULL}, next: Gen \union {NULL}, expiresAt: Nat]

\* An SQL null equals no value a column holds, and no row.
ASSUME NullAssumption == NULL \notin Nat \union Reason \union Session \union TokenRow

Stage == {"idle", "issueFirst", "find", "found", "successor", "mint", "sign",
          "revokeFamily", "revokeOne", "deny"}

\* presented is the generation in the cookie, seen the row findByToken returned for
\* it, gen the generation mintFrom was called with (0: issue, which has none).
RequestState ==
    [stage: Stage, session: Session \union {NULL}, presented: 0..MaxGen, gen: 0..MaxGen,
     now: Nat, seen: TokenRow \union {NULL}, reason: Reason \union {NULL}]

Idle == [stage |-> "idle", session |-> NULL, presented |-> 0, gen |-> 0, now |-> 0,
         seen |-> NULL, reason |-> NULL]

Init ==
    /\ clock = 0
    /\ session = [s \in Session |->
                    [status |-> "NONE", reason |-> NULL, absoluteExpiresAt |-> 0]]
    /\ token = [s \in Session |-> [g \in Gen |-> NULL]]
    /\ denied = [s \in Session |-> 0]
    /\ access = [s \in Session |-> {}]
    /\ held = [s \in Session |-> {}]
    /\ cut = [s \in Session |-> {}]
    /\ req = [r \in Request |-> Idle]

-----------------------------------------------------------------------------
(* What a row, a decision and a statement are                              *)

Exists(s, g) == token[s][g] # NULL

\* A generation nobody has spent: the one that rotates.
Live(s, g) == Exists(s, g) /\ token[s][g].usedAt = NULL

Denied(s) == clock < denied[s]

\* JwtAuthGuard: the token signed at instant m still verifies and its family is not denied.
Accepted(s, m) == m \in access[s] /\ clock < m + AccessTtl /\ ~Denied(s)

NewGeneration(now) == [usedAt |-> NULL, next |-> NULL, expiresAt |-> now + RefreshTtl]

WithinGrace_NoUpperBound(row, now) == row.usedAt <= now

\* decideRotation, on the row as it was read, the status just read and the now captured earlier.
WithinGrace(row, now) == row.usedAt <= now /\ now <= row.usedAt + Grace

Decision_ExpiredIsTheft(row, active, now) ==
    IF ~active THEN "EXPIRED"
    ELSE IF row.expiresAt <= now THEN "REUSE_DETECTED"
    ELSE IF row.usedAt = NULL THEN "ROTATE"
    ELSE IF WithinGrace(row, now) /\ row.next # NULL THEN "REPLAY_WITHIN_GRACE"
    ELSE "REUSE_DETECTED"

Decision(row, active, now) ==
    IF ~active \/ row.expiresAt <= now THEN "EXPIRED"
    ELSE IF row.usedAt = NULL THEN "ROTATE"
    ELSE IF WithinGrace(row, now) /\ row.next # NULL THEN "REPLAY_WITHIN_GRACE"
    ELSE "REUSE_DETECTED"

RevokeWhereActive_NoReason(chosen, why) ==
    [s \in Session |->
        IF s \in chosen /\ session[s].status = "ACTIVE"
        THEN [session[s] EXCEPT !.status = "REVOKED"]
        ELSE session[s]]

\* UPDATE auth_sessions SET status = 'REVOKED' ... WHERE <among which> AND status = 'ACTIVE'
RevokeWhereActive(chosen, why) ==
    [s \in Session |->
        IF s \in chosen /\ session[s].status = "ACTIVE"
        THEN [session[s] EXCEPT !.status = "REVOKED", !.reason = why]
        ELSE session[s]]

Goto(r, stage) == req' = [req EXCEPT ![r].stage = stage]
Answer(r)      == req' = [req EXCEPT ![r] = Idle]

-----------------------------------------------------------------------------
(* issue: a credential has been proved and a session is opened             *)

OpenSession(r, s) ==
    /\ req[r] = Idle
    /\ session[s].status = "NONE"
    /\ session' = [session EXCEPT ![s] =
           [status |-> "ACTIVE", reason |-> NULL, absoluteExpiresAt |-> clock + RefreshTtl]]
    /\ req' = [req EXCEPT ![r] =
           [Idle EXCEPT !.stage = "issueFirst", !.session = s, !.now = clock]]
    /\ UNCHANGED <<clock, token, denied, access, held, cut>>

IssueFirst(r) ==
    /\ req[r].stage = "issueFirst"
    /\ token' = [token EXCEPT ![req[r].session][1] = NewGeneration(req[r].now)]
    /\ Goto(r, "sign")
    /\ UNCHANGED <<clock, session, denied, access, held, cut>>

\* The last step of issue and of mintFrom: the clock is read again, the session is not.
Sign(r) ==
    /\ req[r].stage = "sign"
    /\ access' = [access EXCEPT ![req[r].session] = @ \union {clock}]
    /\ held' = [held EXCEPT ![req[r].session] = @ \union {req[r].gen + 1}]
    /\ Answer(r)
    /\ UNCHANGED <<clock, session, token, denied, cut>>

-----------------------------------------------------------------------------
(* rotate: POST /auth/refresh                                              *)

\* now is captured before anything is read.
BeginRotate(r, s, g) ==
    /\ req[r] = Idle
    /\ g \in held[s]
    /\ req' = [req EXCEPT ![r] =
           [Idle EXCEPT !.stage = "find", !.session = s, !.presented = g, !.now = clock]]
    /\ UNCHANGED <<clock, session, token, denied, access, held, cut>>

FindToken(r) ==
    /\ req[r].stage = "find"
    /\ req' = [req EXCEPT ![r].stage = "found",
                          ![r].seen = token[req[r].session][req[r].presented]]
    /\ UNCHANGED <<clock, session, token, denied, access, held, cut>>

\* findById, then decideRotation on the two rows read.
Decide(r) ==
    LET q == req[r]
        d == Decision(q.seen, session[q.session].status = "ACTIVE", q.now)
    IN  /\ q.stage = "found"
        /\ \/ d = "EXPIRED" /\ Answer(r)
           \/ d = "ROTATE"
              /\ req' = [req EXCEPT ![r].stage = "mint", ![r].seen = NULL,
                                    ![r].gen = q.presented]
           \/ d = "REPLAY_WITHIN_GRACE"
              /\ req' = [req EXCEPT ![r].stage = "successor", ![r].seen = NULL,
                                    ![r].gen = q.seen.next]
           \/ d = "REUSE_DETECTED"
              /\ req' = [req EXCEPT ![r].stage = "revokeFamily", ![r].seen = NULL,
                                    ![r].reason = "TOKEN_REUSE_DETECTED"]
        /\ UNCHANGED <<clock, session, token, denied, access, held, cut>>

\* findSuccessor: a missing row ends in 401; a found one is minted from, spent or not.
FindSuccessor(r) ==
    /\ req[r].stage = "successor"
    /\ IF Exists(req[r].session, req[r].gen) THEN Goto(r, "mint") ELSE Answer(r)
    /\ UNCHANGED <<clock, session, token, denied, access, held, cut>>

MintConflict_Never(s, g, now) == FALSE

\* The rotation transaction: INSERT generation + 1, UPDATE the old row.
\* uq_refresh_tokens__session_generation refuses the first, the write-once trigger the second.
MintConflict(s, g, now) ==
    \/ Exists(s, g + 1)
    \/ token[s][g].usedAt \notin {NULL, now}
    \/ token[s][g].next # NULL

Mint(r) ==
    LET s == req[r].session
        g == req[r].gen
    IN  /\ req[r].stage = "mint"
        /\ g + 1 \in Gen
        /\ ~MintConflict(s, g, req[r].now)
        /\ token' = [token EXCEPT
               ![s][g + 1] = NewGeneration(req[r].now),
               ![s][g].usedAt = req[r].now,
               ![s][g].next = g + 1]
        /\ Goto(r, "sign")
        /\ UNCHANGED <<clock, session, denied, access, held, cut>>

\* The transaction rolls back and the request ends in an error.
MintRefused(r) ==
    /\ req[r].stage = "mint"
    /\ req[r].gen + 1 \in Gen
    /\ MintConflict(req[r].session, req[r].gen, req[r].now)
    /\ Answer(r)
    /\ UNCHANGED <<clock, session, token, denied, access, held, cut>>

-----------------------------------------------------------------------------
(* Revocation                                                              *)

\* logout: both lookups read columns that never change.
BeginLogout(r, s, g) ==
    /\ req[r] = Idle
    /\ g \in held[s]
    /\ req' = [req EXCEPT ![r] = [Idle EXCEPT
           !.stage = "revokeFamily", !.session = s, !.reason = "USER_SIGNED_OUT"]]
    /\ UNCHANGED <<clock, session, token, denied, access, held, cut>>

RevokeFamily_DenyOnly(r) ==
    /\ req[r].stage = "revokeFamily"
    /\ Goto(r, "deny")
    /\ UNCHANGED <<clock, session, token, denied, access, held, cut>>

\* revokeFamilyEverywhere, first half: the rows.
RevokeFamily(r) ==
    /\ req[r].stage = "revokeFamily"
    /\ session' = RevokeWhereActive({req[r].session}, req[r].reason)
    /\ Goto(r, "deny")
    /\ UNCHANGED <<clock, token, denied, access, held, cut>>

\* revokeOne, DELETE /auth/sessions/:id.  The caller u is the owner or gets a 404.
BeginRevokeOne(r, s, u) ==
    /\ req[r] = Idle
    /\ session[s].status # "NONE"
    /\ Owner[s] = u
    /\ req' = [req EXCEPT ![r] = [Idle EXCEPT
           !.stage = "revokeOne", !.session = s, !.reason = "USER_SIGNED_OUT"]]
    /\ UNCHANGED <<clock, session, token, denied, access, held, cut>>

\* Only an UPDATE that changed a row leads on to the denylist.
RevokeOne(r) ==
    /\ req[r].stage = "revokeOne"
    /\ session' = RevokeWhereActive({req[r].session}, req[r].reason)
    /\ IF session[req[r].session].status = "ACTIVE" THEN Goto(r, "deny") ELSE Answer(r)
    /\ UNCHANGED <<clock, token, denied, access, held, cut>>

\* FamilyDenylist.revoke: SET ... EX, after the database write.
Deny(r) ==
    /\ req[r].stage = "deny"
    /\ denied' = [denied EXCEPT ![req[r].session] = clock + DenylistTtl]
    /\ cut' = [cut EXCEPT ![req[r].session] = access[req[r].session]]
    /\ Answer(r)
    /\ UNCHANGED <<clock, session, token, access, held>>

\* ResetPasswordUseCase.reset: one transaction revokes every session of the user.
ResetPassword(u) ==
    /\ \E s \in Session : Owner[s] = u /\ session[s].status = "ACTIVE"
    /\ session' = RevokeWhereActive({s \in Session : Owner[s] = u}, "PASSWORD_RESET")
    /\ UNCHANGED <<clock, token, denied, access, held, cut, req>>

-----------------------------------------------------------------------------
(* The environment                                                         *)

\* An await rejects, or the process dies: what was written stays written.
Fail(r) ==
    /\ req[r] # Idle
    /\ Answer(r)
    /\ UNCHANGED <<clock, session, token, denied, access, held, cut>>

Tick ==
    /\ clock < MaxClock
    /\ clock' = clock + 1
    /\ UNCHANGED <<session, token, denied, access, held, cut, req>>

Handler(r) ==
    \/ IssueFirst(r) \/ Sign(r)
    \/ FindToken(r) \/ Decide(r) \/ FindSuccessor(r) \/ Mint(r) \/ MintRefused(r)
    \/ RevokeFamily(r) \/ RevokeOne(r) \/ Deny(r)

\* A request reaches the server.
Arrive(r) ==
    \E s \in Session :
        \/ OpenSession(r, s)
        \/ \E g \in Gen : BeginRotate(r, s, g) \/ BeginLogout(r, s, g)
        \/ \E u \in User : BeginRevokeOne(r, s, u)

Next ==
    \/ Tick
    \/ \E u \in User : ResetPassword(u)
    \/ \E r \in Request : Arrive(r) \/ Handler(r) \/ Fail(r)

Spec == Init /\ [][Next]_vars

-----------------------------------------------------------------------------
(* What holds                                                              *)

\* Every variable has its type, and the two CHECKs of auth_sessions hold: a row has
\* a revocation reason exactly when it is revoked.
TypeOK ==
    /\ clock \in 0..MaxClock
    /\ session \in [Session -> SessionRow]
    /\ token \in [Session -> [Gen -> TokenRow \union {NULL}]]
    /\ denied \in [Session -> Nat]
    /\ access \in [Session -> SUBSET (0..MaxClock)]
    /\ held \in [Session -> SUBSET Gen]
    /\ cut \in [Session -> SUBSET (0..MaxClock)]
    /\ req \in [Request -> RequestState]
    /\ \A s \in Session : (session[s].status = "REVOKED") <=> (session[s].reason # NULL)

\* The generations of a family form one unbroken chain, however rotations interleave:
\* below an existing generation every other exists and is spent, a spent generation
\* names its successor, which exists, and an unspent one names none.  So a family has at
\* most one generation that still rotates, which is what reuse detection rests on.
UnbrokenChain ==
    \A s \in Session : \A g \in Gen : Exists(s, g) =>
        /\ \A h \in Gen : h < g => Exists(s, h) /\ ~Live(s, h)
        /\ Live(s, g) <=> token[s][g].next = NULL
        /\ ~Live(s, g) => token[s][g].next = g + 1 /\ g + 1 \in Gen /\ Exists(s, g + 1)

\* Whatever ran between the read of the presented generation and the rotation it led
\* to, a generation buys a successor only while it is unspent, or within the grace of the
\* instant that spent it, and only before it expires.
UsableOnceOrWithinGrace ==
    [][\A r \in Request :
          req[r].stage = "mint" /\ req'[r].stage = "sign" =>
              LET row == token[req[r].session][req[r].presented]
              IN  /\ req[r].now < row.expiresAt
                  /\ \/ row.usedAt = NULL
                     \/ row.usedAt <= req[r].now /\ req[r].now <= row.usedAt + Grace]_vars

\* A revoked session stays revoked, and for the reason first recorded: a later sign-out
\* or a later replay does not rewrite the reason the incident will be read by.
RevocationIsFinal ==
    [][\A s \in Session : session[s].status = "REVOKED" =>
          session'[s].status = "REVOKED" /\ session'[s].reason = session[s].reason]_vars

\* An access token that existed when its family was denied is never accepted again: the
\* entry lasts until that token has expired by itself, whatever is signed, denied again or
\* refreshed meanwhile.
DenialIsForGood == \A s \in Session : \A m \in cut[s] : ~Accepted(s, m)

\* The guard refuses only families whose rows say so: a crash between the two writes of
\* a revocation never locks a member out of a session that is still live.
DeniedOnlyIfRevoked ==
    \A s \in Session : denied[s] # 0 => session[s].status = "REVOKED"

\* A theft alarm is raised only in a family one of whose generations was spent: an
\* expired token, a dead session and a failed rotation raise none.
AlarmNeedsAReplay ==
    \A s \in Session : session[s].reason = "TOKEN_REUSE_DETECTED" =>
        \E g \in held[s] : Exists(s, g) /\ ~Live(s, g)

\* What a handler must be able to rely on at its next await.
Grounded(r) ==
    LET q == req[r]
        presented == token[q.session][q.presented]
    IN  /\ IF q.stage = "idle" THEN q = Idle
           ELSE q.session \in Session /\ session[q.session].status # "NONE"
        /\ q.stage = "issueFirst" =>
              /\ q.gen = 0
              /\ \A g \in Gen : ~Exists(q.session, g)
              /\ \A o \in Request \ {r} : req[o].stage = "issueFirst" => req[o].session # q.session
        /\ q.stage \in {"find", "found"} => q.presented \in held[q.session]
        /\ q.stage = "found" => q.seen \in TokenRow /\ q.seen.expiresAt = presented.expiresAt
                               /\ (q.seen.usedAt # NULL => q.seen = presented)
        /\ q.stage \in {"successor", "mint"} =>
              /\ q.gen \in Gen /\ Exists(q.session, q.gen)
              /\ q.presented \in Gen /\ Exists(q.session, q.presented)
              /\ q.now < presented.expiresAt
              /\ q.presented = q.gen \/ (presented.usedAt # NULL /\ WithinGrace(presented, q.now))
        /\ q.stage = "sign" => q.gen + 1 \in Gen /\ Exists(q.session, q.gen + 1)
        /\ q.stage = "revokeFamily" => q.reason # NULL
        /\ q.stage = "revokeOne" => q.reason = "USER_SIGNED_OUT"
        /\ q.stage = "revokeFamily" /\ q.reason = "TOKEN_REUSE_DETECTED" =>
              q.presented \in held[q.session] /\ ~Live(q.session, q.presented)
        /\ q.stage = "deny" => session[q.session].status = "REVOKED"

\* What a handler has read still holds when it acts on it: the row it was presented has not
\* been spent anew meanwhile, the row it will rotate exists, the session it opens has no
\* token yet, and it denies a family only once the rows say revoked.
HandlersActOnFacts ==
    /\ \A s \in Session :
          /\ \A g \in held[s] : Exists(s, g)
          /\ session[s].status = "NONE" => \A g \in Gen : ~Exists(s, g)
    /\ \A r \in Request : Grounded(r)

\* The tables, seen as TokenFamily sees a family.
Family == INSTANCE TokenFamily WITH
    verdict <- [s \in Session |->
                   IF session[s].status = "REVOKED" THEN session[s].reason ELSE session[s].status],
    spent <- [s \in Session |-> {g \in Gen : Exists(s, g) /\ ~Live(s, g)}],
    live <- [s \in Session |-> {g \in Gen : Live(s, g)}]

\* Every step of the handlers, interleaved at their awaits and cut short at any of them,
\* is a step the token family allows: one generation after another, and no way back.
ImplementsTokenFamily == Family!Spec

-----------------------------------------------------------------------------
(* What the comments say and the code does not do                          *)

\* "Revoking the rows and denying the access tokens are one operation, always."  Once a
\* session is revoked and no handler is still at work, none of its access tokens is accepted.
RevocationReachesAccessTokens ==
    \A s \in Session :
        session[s].status = "REVOKED" /\ (\A r \in Request : req[r] = Idle)
            => \A m \in access[s] : ~Accepted(s, m)

\* "An absolute expiry, not a sliding one": no refresh token outlives its session's.
AbsoluteExpiry ==
    \A s \in Session : \A g \in Gen :
        Exists(s, g) => token[s][g].expiresAt <= session[s].absoluteExpiresAt

\* "Safe because the successor is itself unspent": what the grace path is about to rotate
\* from has not been spent.
SuccessorIsUnspent ==
    \A r \in Request : req[r].stage = "mint" /\ req[r].presented < req[r].gen =>
        Live(req[r].session, req[r].gen)

=============================================================================
