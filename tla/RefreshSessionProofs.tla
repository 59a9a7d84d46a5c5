------------------------ MODULE RefreshSessionProofs ------------------------
(* What TLAPS proves of RefreshSession, for any number of sessions, users,  *)
(* handlers and generations and any lifetimes.                              *)
EXTENDS RefreshSession, TLAPS

USE OwnerAssumption, NullAssumption, TtlAssumption, BoundsAssumption

\* The inductive invariant: the chain alone is not preserved by a rotation unless the
\* handler about to make it still has a row to rotate.
IInv == TypeOK /\ UnbrokenChain /\ HandlersActOnFacts

\* RevokeWhereActive keeps the rows well formed and only ever turns ACTIVE into REVOKED.
LEMMA RevokeWhereActiveFacts ==
    ASSUME TypeOK, NEW chosen, NEW why \in Reason
    PROVE  /\ RevokeWhereActive(chosen, why) \in [Session -> SessionRow]
           /\ \A s \in Session :
                LET row == RevokeWhereActive(chosen, why)[s]
                IN  /\ (row.status = "REVOKED") <=> (row.reason # NULL)
                    /\ (row.status = "NONE") <=> (session[s].status = "NONE")
                    /\ s \in chosen /\ session[s].status # "NONE" => row.status = "REVOKED"
                    /\ session[s].status = "REVOKED" => row = session[s]
                    /\ s \notin chosen => row = session[s]
                    /\ session[s].status = "ACTIVE" /\ row # session[s] => row.reason = why
<1> DEFINE R == RevokeWhereActive(chosen, why)
<1>1. ASSUME NEW s \in Session
      PROVE  R[s] = IF s \in chosen /\ session[s].status = "ACTIVE"
                    THEN [session[s] EXCEPT !.status = "REVOKED", !.reason = why]
                    ELSE session[s]
    BY DEF RevokeWhereActive
<1>2. ASSUME NEW s \in Session
      PROVE  /\ session[s] \in SessionRow
             /\ (session[s].status = "REVOKED") <=> (session[s].reason # NULL)
    BY DEF TypeOK
<1>3. why # NULL
    OBVIOUS
<1>4. ASSUME NEW s \in Session
      PROVE  /\ R[s] \in SessionRow
             /\ (R[s].status = "REVOKED") <=> (R[s].reason # NULL)
             /\ (R[s].status = "NONE") <=> (session[s].status = "NONE")
             /\ s \in chosen /\ session[s].status # "NONE" => R[s].status = "REVOKED"
             /\ session[s].status = "REVOKED" => R[s] = session[s]
             /\ s \notin chosen => R[s] = session[s]
             /\ session[s].status = "ACTIVE" /\ R[s] # session[s] => R[s].reason = why
    <2> HIDE DEF R
    <2>1. CASE s \in chosen /\ session[s].status = "ACTIVE"
        <3> DEFINE to == [session[s] EXCEPT !.status = "REVOKED", !.reason = why]
        <3>1. to \in SessionRow /\ to.status = "REVOKED" /\ to.reason = why
            BY <1>2 DEF SessionRow
        <3>2. R[s] = to
            BY <1>1, <2>1
        <3> HIDE DEF to
        <3> QED BY <1>3, <2>1, <3>1, <3>2
    <2>2. CASE ~(s \in chosen /\ session[s].status = "ACTIVE")
        BY <1>1, <1>2, <2>2 DEF SessionRow
    <2> QED BY <2>1, <2>2
<1>5. R = [s \in Session |-> R[s]]
    BY DEF RevokeWhereActive
<1>6. R \in [Session -> SessionRow]
    <2> HIDE DEF R
    <2> QED BY <1>4, <1>5
<1> QED BY <1>4, <1>6

LEMMA InitIInv == Init => IInv
<1> SUFFICES ASSUME Init PROVE IInv
    OBVIOUS
<1>1. TypeOK
    BY DEF Init, TypeOK, SessionRow, Reason, Idle, RequestState, Stage, Gen
<1>2. UnbrokenChain
    BY DEF Init, UnbrokenChain, Exists
<1>3. HandlersActOnFacts
    BY DEF Init, HandlersActOnFacts, Grounded, Exists, Idle
<1> QED BY <1>1, <1>2, <1>3 DEF IInv

\* What every handler that is under way relies on, a rotation and a revocation besides.
LEMMA ActingFacts ==
    ASSUME TypeOK, HandlersActOnFacts, NEW r \in Request, req[r].stage # "idle"
    PROVE  /\ Grounded(r) /\ req[r] \in RequestState
           /\ req[r].session \in Session /\ session[req[r].session].status # "NONE"
<1>1. Grounded(r) /\ req[r] \in RequestState
    BY DEF HandlersActOnFacts, TypeOK
<1> QED BY <1>1 DEF Grounded

LEMMA RotatingFacts ==
    ASSUME TypeOK, HandlersActOnFacts, NEW r \in Request, Mint(r)
    PROVE  /\ req[r].session \in Session /\ session[req[r].session].status # "NONE"
           /\ req[r].gen \in Gen /\ req[r].gen + 1 \in Gen /\ req[r].now \in Nat
           /\ Exists(req[r].session, req[r].gen)
<1>1. req[r].stage = "mint" /\ req[r].gen + 1 \in Gen
    BY DEF Mint
<1>2. /\ Grounded(r) /\ req[r] \in RequestState
      /\ req[r].session \in Session /\ session[req[r].session].status # "NONE"
    BY <1>1, ActingFacts
<1>3. req[r].gen \in Gen /\ Exists(req[r].session, req[r].gen)
    BY <1>1, <1>2 DEF Grounded
<1>4. req[r].now \in Nat
    BY <1>2 DEF RequestState
<1> QED BY <1>1, <1>2, <1>3, <1>4

LEMMA RevokingFacts ==
    ASSUME TypeOK, HandlersActOnFacts, NEW r \in Request, RevokeFamily(r) \/ RevokeOne(r)
    PROVE  /\ req[r].stage \in {"revokeFamily", "revokeOne"}
           /\ Grounded(r) /\ req[r] \in RequestState
           /\ req[r].session \in Session /\ req[r].reason \in Reason
           /\ session' = RevokeWhereActive({req[r].session}, req[r].reason)
           /\ UNCHANGED <<token, denied, access, held, cut>>
<1>1. /\ req[r].stage \in {"revokeFamily", "revokeOne"}
      /\ session' = RevokeWhereActive({req[r].session}, req[r].reason)
      /\ UNCHANGED <<token, denied, access, held, cut>>
    BY DEF RevokeFamily, RevokeOne
<1>2. Grounded(r) /\ req[r] \in RequestState /\ req[r].session \in Session
    BY <1>1, ActingFacts
<1>3. req[r].reason # NULL
    <2>1. CASE req[r].stage = "revokeFamily"
        BY <1>2, <2>1 DEF Grounded
    <2>2. CASE req[r].stage = "revokeOne"
        <3>1. req[r].reason = "USER_SIGNED_OUT" /\ "USER_SIGNED_OUT" \in Reason
            BY <1>2, <2>2 DEF Grounded, Reason
        <3> QED BY <3>1
    <2> QED BY <1>1, <2>1, <2>2
<1>4. req[r].reason \in Reason
    BY <1>2, <1>3 DEF RequestState
<1> QED BY <1>1, <1>2, <1>4

\* Who writes what: the client's tokens, the denylist, the sessions.
LEMMA Writers ==
    ASSUME [Next]_vars
    PROVE  /\ held' # held => \E r \in Request : Sign(r)
           /\ denied' # denied => \E r \in Request : Deny(r)
           /\ session' # session =>
                 \/ \E u \in User : ResetPassword(u)
                 \/ \E r \in Request : RevokeFamily(r) \/ RevokeOne(r)
                 \/ \E r \in Request, s \in Session : OpenSession(r, s)
<1>1. ASSUME NEW r \in Request, Arrive(r)
      PROVE  /\ UNCHANGED <<held, denied>>
             /\ session' # session => \E s \in Session : OpenSession(r, s)
    <2>1. PICK s \in Session :
             \/ OpenSession(r, s)
             \/ \E g \in Gen : BeginRotate(r, s, g) \/ BeginLogout(r, s, g)
             \/ \E u \in User : BeginRevokeOne(r, s, u)
        BY <1>1 DEF Arrive
    <2>2. CASE OpenSession(r, s)
        BY <2>2 DEF OpenSession
    <2>3. CASE \E g \in Gen : BeginRotate(r, s, g) \/ BeginLogout(r, s, g)
        BY <2>3 DEF BeginRotate, BeginLogout
    <2>4. CASE \E u \in User : BeginRevokeOne(r, s, u)
        BY <2>4 DEF BeginRevokeOne
    <2> QED BY <2>1, <2>2, <2>3, <2>4
<1>2. ASSUME NEW r \in Request, Handler(r)
      PROVE  /\ held' # held => Sign(r)
             /\ denied' # denied => Deny(r)
             /\ session' # session => RevokeFamily(r) \/ RevokeOne(r)
    <2>1. CASE IssueFirst(r) \/ FindToken(r) \/ Decide(r) \/ FindSuccessor(r)
        BY <2>1 DEF IssueFirst, FindToken, Decide, FindSuccessor
    <2>2. CASE Mint(r) \/ MintRefused(r)
        BY <2>2 DEF Mint, MintRefused
    <2>3. CASE Sign(r)
        BY <2>3 DEF Sign
    <2>4. CASE RevokeFamily(r) \/ RevokeOne(r)
        BY <2>4 DEF RevokeFamily, RevokeOne
    <2>5. CASE Deny(r)
        BY <2>5 DEF Deny
    <2> QED BY <1>2, <2>1, <2>2, <2>3, <2>4, <2>5 DEF Handler
<1>3. CASE Tick \/ (\E r \in Request : Fail(r)) \/ UNCHANGED vars
    BY <1>3 DEF Tick, Fail, vars
<1>4. ASSUME NEW u \in User, ResetPassword(u) PROVE UNCHANGED <<held, denied>>
    BY <1>4 DEF ResetPassword
<1> QED BY <1>1, <1>2, <1>3, <1>4 DEF Next

\* The answer to a request, and its move to another stage, keep req well typed.
LEMMA RequestTypes ==
    ASSUME TypeOK, NEW r \in Request
    PROVE  /\ Answer(r) => req' \in [Request -> RequestState]
           /\ \A stage \in Stage : Goto(r, stage) => req' \in [Request -> RequestState]
<1>1. Idle \in RequestState
    BY DEF Idle, RequestState, Stage
<1>2. ASSUME NEW stage \in Stage
      PROVE  [req[r] EXCEPT !.stage = stage] \in RequestState
    <2>1. req[r] \in RequestState
        BY DEF TypeOK
    <2> QED BY <2>1 DEF RequestState
<1>3. \A q \in RequestState : [req EXCEPT ![r] = q] \in [Request -> RequestState]
    BY DEF TypeOK
<1>4. ASSUME NEW stage \in Stage, Goto(r, stage)
      PROVE  req' = [req EXCEPT ![r] = [req[r] EXCEPT !.stage = stage]]
    BY <1>4 DEF Goto
<1> QED BY <1>1, <1>2, <1>3, <1>4 DEF Answer

LEMMA TypeStep == IInv /\ [Next]_vars => TypeOK'
<1> SUFFICES ASSUME IInv, [Next]_vars PROVE TypeOK'
    OBVIOUS
<1> USE DEF IInv
<1>1. CASE Tick
    BY <1>1 DEF Tick, TypeOK
<1>2. ASSUME NEW u \in User, ResetPassword(u) PROVE TypeOK'
    <2>1. "PASSWORD_RESET" \in Reason
        BY DEF Reason
    <2> QED BY <1>2, <2>1, RevokeWhereActiveFacts DEF ResetPassword, TypeOK
<1>3. ASSUME NEW r \in Request, Handler(r) PROVE TypeOK'
    <2>1. CASE IssueFirst(r)
        <3>1. "sign" \in Stage BY DEF Stage
        <3>2. req[r] \in RequestState BY DEF TypeOK
        <3>3. NewGeneration(req[r].now) \in TokenRow
            BY <3>2 DEF NewGeneration, TokenRow, RequestState, Gen
        <3> QED BY <2>1, <3>1, <3>3, RequestTypes DEF IssueFirst, TypeOK
    <2>2. CASE Sign(r)
        <3>1. req[r].gen + 1 \in Gen
            BY <2>2 DEF Sign, HandlersActOnFacts, Grounded
        <3> QED BY <2>2, <3>1, RequestTypes DEF Sign, TypeOK
    <2>3. CASE FindToken(r)
        <3>1. req[r].session \in Session /\ req[r].presented \in Gen
            <4>1. req[r].stage = "find"
                BY <2>3 DEF FindToken
            <4>2. Grounded(r) /\ req[r].session \in Session
                BY <4>1, ActingFacts
            <4> QED BY <4>1, <4>2 DEF Grounded, TypeOK
        <3>2. token[req[r].session][req[r].presented] \in TokenRow \union {NULL}
            BY <3>1 DEF TypeOK
        <3> DEFINE q == [req[r] EXCEPT !.stage = "found",
                                       !.seen = token[req[r].session][req[r].presented]]
        <3>3. q \in RequestState
            <4>1. req[r] \in RequestState
                BY DEF TypeOK
            <4>2. "found" \in Stage
                BY DEF Stage
            <4> QED BY <3>2, <4>1, <4>2 DEF RequestState
        <3>4. req' = [req EXCEPT ![r] = q]
            BY <2>3 DEF FindToken
        <3> HIDE DEF q
        <3>5. req' \in [Request -> RequestState]
            BY <3>3, <3>4 DEF TypeOK
        <3>6. UNCHANGED <<clock, session, token, denied, access, held, cut>>
            BY <2>3 DEF FindToken
        <3> QED BY <3>5, <3>6 DEF TypeOK
    <2>4. CASE Decide(r)
        <3>1. req[r].seen \in TokenRow /\ req[r] \in RequestState /\ req[r].session \in Session
            <4>1. req[r].stage = "found"
                BY <2>4 DEF Decide
            <4>2. Grounded(r) /\ req[r] \in RequestState /\ req[r].session \in Session
                BY <4>1, ActingFacts
            <4> QED BY <4>1, <4>2 DEF Grounded
        <3>2. Decision(req[r].seen, session[req[r].session].status = "ACTIVE", req[r].now)
                = "REPLAY_WITHIN_GRACE" => req[r].seen.next \in Gen
            BY <3>1 DEF Decision, TokenRow
        <3>3. req' \in [Request -> RequestState]
            <4> DEFINE q == req[r]
            <4>1. CASE Answer(r)
                BY <4>1, RequestTypes
            <4>2. CASE req' = [req EXCEPT ![r].stage = "mint", ![r].seen = NULL, ![r].gen = q.presented]
                <5> DEFINE to == [q EXCEPT !.stage = "mint", !.seen = NULL, !.gen = q.presented]
                <5>1. to \in RequestState
                    BY <3>1 DEF RequestState, Stage
                <5>2. req' = [req EXCEPT ![r] = to]
                    BY <4>2
                <5> HIDE DEF to
                <5> QED BY <5>1, <5>2 DEF TypeOK
            <4>3. CASE /\ req' = [req EXCEPT ![r].stage = "successor", ![r].seen = NULL,
                                              ![r].gen = q.seen.next]
                       /\ q.seen.next \in Gen
                <5> DEFINE to == [q EXCEPT !.stage = "successor", !.seen = NULL, !.gen = q.seen.next]
                <5>1. to \in RequestState
                    <6>1. q.seen.next \in 0..MaxGen
                        BY <4>3 DEF Gen
                    <6>2. "successor" \in Stage
                        BY DEF Stage
                    <6> HIDE DEF q
                    <6> DEFINE n == q.seen.next
                    <6>3. \A k \in 0..MaxGen :
                             [q EXCEPT !.stage = "successor", !.seen = NULL, !.gen = k] \in RequestState
                        BY <3>1, <6>2 DEF RequestState, q
                    <6> QED BY <6>1, <6>3
                <5>2. req' = [req EXCEPT ![r] = to]
                    BY <4>3
                <5> HIDE DEF to
                <5> QED BY <5>1, <5>2 DEF TypeOK
            <4>4. CASE req' = [req EXCEPT ![r].stage = "revokeFamily", ![r].seen = NULL,
                                          ![r].reason = "TOKEN_REUSE_DETECTED"]
                <5> DEFINE to == [q EXCEPT !.stage = "revokeFamily", !.seen = NULL,
                                           !.reason = "TOKEN_REUSE_DETECTED"]
                <5>1. to \in RequestState
                    BY <3>1 DEF RequestState, Stage, Reason
                <5>2. req' = [req EXCEPT ![r] = to]
                    BY <4>4
                <5> HIDE DEF to
                <5> QED BY <5>1, <5>2 DEF TypeOK
            <4> QED BY <2>4, <3>2, <4>1, <4>2, <4>3, <4>4 DEF Decide
        <3> QED BY <2>4, <3>3 DEF Decide, TypeOK
    <2>5. CASE FindSuccessor(r)
        <3>1. "mint" \in Stage BY DEF Stage
        <3> QED BY <2>5, <3>1, RequestTypes DEF FindSuccessor, TypeOK
    <2>6. CASE Mint(r)
        <3>1. "sign" \in Stage BY DEF Stage
        <3> DEFINE s == req[r].session
                   g == req[r].gen
                   now == req[r].now
        <3>2. s \in Session /\ g \in Gen /\ g + 1 \in Gen /\ now \in Nat /\ Exists(s, g)
            BY <2>6, RotatingFacts
        <3>3. NewGeneration(now) \in TokenRow /\ token[s][g] \in TokenRow /\ g # g + 1
            <4>1. token[s][g] \in TokenRow
                BY <3>2 DEF TypeOK, Exists
            <4>2. now + RefreshTtl \in Nat /\ g # g + 1
                BY <3>2 DEF Gen
            <4>3. NewGeneration(now) \in TokenRow
                BY <4>2 DEF NewGeneration, TokenRow
            <4> QED BY <4>1, <4>2, <4>3
        <3>4. token' \in [Session -> [Gen -> TokenRow \union {NULL}]]
            <4> DEFINE spent == [token[s][g] EXCEPT !.usedAt = now, !.next = g + 1]
            <4>1. spent \in TokenRow
                BY <3>2, <3>3 DEF TokenRow
            <4>2. token' = [token EXCEPT ![s] =
                              [token[s] EXCEPT ![g + 1] = NewGeneration(now), ![g] = spent]]
                <5>1. token' = [token EXCEPT ![s][g + 1] = NewGeneration(now),
                                             ![s][g].usedAt = now, ![s][g].next = g + 1]
                    BY <2>6 DEF Mint
                <5>2. token \in [Session -> [Gen -> TokenRow \union {NULL}]]
                    BY DEF TypeOK
                <5> HIDE DEF s, g, now
                <5> QED BY <3>2, <3>3, <5>1, <5>2
            <4> HIDE DEF spent
            <4> QED BY <4>1, <4>2, <3>2, <3>3 DEF TypeOK
        <3> QED BY <2>6, <3>1, <3>4, RequestTypes DEF Mint, TypeOK
    <2>7. CASE MintRefused(r)
        BY <2>7, RequestTypes DEF MintRefused, TypeOK
    <2>8. CASE RevokeFamily(r)
        <3>1. "deny" \in Stage BY DEF Stage
        <3>2. req[r].reason \in Reason
            BY <2>8, RevokingFacts
        <3> QED BY <2>8, <3>1, <3>2, RevokeWhereActiveFacts, RequestTypes DEF RevokeFamily, TypeOK
    <2>9. CASE RevokeOne(r)
        <3>1. "deny" \in Stage BY DEF Stage
        <3>2. req[r].reason \in Reason
            BY <2>9, RevokingFacts
        <3> QED BY <2>9, <3>1, <3>2, RevokeWhereActiveFacts, RequestTypes DEF RevokeOne, TypeOK
    <2>10. CASE Deny(r)
        <3>1. req[r].session \in Session
            BY <2>10 DEF Deny, HandlersActOnFacts, Grounded
        <3>2. clock + DenylistTtl \in Nat
            BY DEF TypeOK, DenylistTtl
        <3>3. denied' \in [Session -> Nat]
            BY <2>10, <3>1, <3>2 DEF Deny, TypeOK
        <3>4. cut' \in [Session -> SUBSET (0..MaxClock)]
            BY <2>10, <3>1 DEF Deny, TypeOK
        <3> QED BY <2>10, <3>3, <3>4, RequestTypes DEF Deny, TypeOK
    <2> QED BY <1>3, <2>1, <2>2, <2>3, <2>4, <2>5, <2>6, <2>7, <2>8, <2>9, <2>10 DEF Handler
<1>4. ASSUME NEW r \in Request, Fail(r) PROVE TypeOK'
    BY <1>4, RequestTypes DEF Fail, TypeOK
<1>5. ASSUME NEW r \in Request, NEW s \in Session, OpenSession(r, s) PROVE TypeOK'
    <2>1. [Idle EXCEPT !.stage = "issueFirst", !.session = s, !.now = clock] \in RequestState
        <3>1. clock \in Nat
            BY DEF TypeOK
        <3>2. Idle \in RequestState /\ "issueFirst" \in Stage
            BY DEF RequestState, Stage, Idle
        <3> QED BY <3>1, <3>2 DEF RequestState
    <2>2. [status |-> "ACTIVE", reason |-> NULL, absoluteExpiresAt |-> clock + RefreshTtl]
            \in SessionRow
        BY DEF TypeOK, SessionRow
    <2> QED BY <1>5, <2>1, <2>2 DEF OpenSession, TypeOK
<1>6. ASSUME NEW r \in Request, NEW s \in Session, NEW g \in Gen, BeginRotate(r, s, g)
      PROVE TypeOK'
    <2>1. [Idle EXCEPT !.stage = "find", !.session = s, !.presented = g, !.now = clock] \in RequestState
        <3>1. clock \in Nat /\ g \in 0..MaxGen
            BY DEF TypeOK, Gen
        <3>2. Idle \in RequestState /\ "find" \in Stage
            BY DEF RequestState, Stage, Idle
        <3> QED BY <3>1, <3>2 DEF RequestState
    <2> QED BY <1>6, <2>1 DEF BeginRotate, TypeOK
<1>7. ASSUME NEW r \in Request, NEW s \in Session, NEW g \in Gen, BeginLogout(r, s, g)
      PROVE TypeOK'
    BY <1>7 DEF BeginLogout, TypeOK, RequestState, Stage, Idle, Reason
<1>8. ASSUME NEW r \in Request, NEW s \in Session, NEW u \in User, BeginRevokeOne(r, s, u)
      PROVE TypeOK'
    BY <1>8 DEF BeginRevokeOne, TypeOK, RequestState, Stage, Idle, Reason
<1>9. CASE UNCHANGED vars
    BY <1>9 DEF vars, TypeOK
<1> QED BY <1>1, <1>2, <1>3, <1>4, <1>5, <1>6, <1>7, <1>8, <1>9 DEF Next, Arrive

-----------------------------------------------------------------------------
(* What a step may not take back                                           *)

\* A session stays opened, a revoked row is not written again, a token a client holds is
\* not forgotten; a generation's row stays, keeps its expiry, and once spent never changes.
Monotone ==
    \A s \in Session :
        /\ session[s].status # "NONE" => session'[s].status # "NONE"
        /\ session[s].status = "REVOKED" => session'[s] = session[s]
        /\ held[s] \subseteq held'[s]
        /\ \A g \in Gen : Exists(s, g) =>
              /\ token'[s][g] # NULL
              /\ token'[s][g].expiresAt = token[s][g].expiresAt
              /\ token[s][g].usedAt # NULL => token'[s][g] = token[s][g]

\* A rotation that is not refused starts from the live generation of its family, and
\* changes no row but that one and the next.
LEMMA MintFacts ==
    ASSUME IInv, NEW r \in Request, Mint(r)
    PROVE  LET s == req[r].session
               g == req[r].gen
           IN  /\ s \in Session /\ g \in Gen /\ g + 1 \in Gen /\ req[r].now \in Nat
               /\ Live(s, g) /\ ~Exists(s, g + 1)
               /\ token'[s][g + 1] = NewGeneration(req[r].now)
               /\ token'[s][g] = [token[s][g] EXCEPT !.usedAt = req[r].now, !.next = g + 1]
               /\ token[s][g] \in TokenRow
               /\ \A t \in Session : \A h \in Gen :
                     t # s \/ h \notin {g, g + 1} => token'[t][h] = token[t][h]
<1> DEFINE s == req[r].session
           g == req[r].gen
<1>1. s \in Session /\ g \in Gen /\ g + 1 \in Gen /\ req[r].now \in Nat /\ Exists(s, g)
    BY RotatingFacts DEF IInv
<1>2. Live(s, g) /\ ~Exists(s, g + 1)
    BY <1>1 DEF Mint, MintConflict, IInv, UnbrokenChain
<1>3. token[s][g] \in TokenRow /\ g # g + 1
    BY <1>1 DEF IInv, TypeOK, Exists, Gen
<1>4. /\ token'[s][g + 1] = NewGeneration(req[r].now)
      /\ token'[s][g] = [token[s][g] EXCEPT !.usedAt = req[r].now, !.next = g + 1]
      /\ \A t \in Session : \A h \in Gen :
            t # s \/ h \notin {g, g + 1} => token'[t][h] = token[t][h]
    <2>1. token' = [token EXCEPT ![s][g + 1] = NewGeneration(req[r].now),
                                 ![s][g].usedAt = req[r].now, ![s][g].next = g + 1]
        BY DEF Mint
    <2>2. token \in [Session -> [Gen -> TokenRow \union {NULL}]]
        BY DEF IInv, TypeOK
    <2> HIDE DEF s, g
    <2> QED BY <1>1, <1>3, <2>1, <2>2
<1> QED BY <1>1, <1>2, <1>3, <1>4

\* So is the first generation the first.
LEMMA IssueFirstFacts ==
    ASSUME IInv, NEW r \in Request, IssueFirst(r)
    PROVE  LET s == req[r].session
           IN  /\ s \in Session /\ 1 \in Gen /\ req[r].gen = 0 /\ req[r].now \in Nat
               /\ \A h \in Gen : ~Exists(s, h)
               /\ token'[s][1] = NewGeneration(req[r].now)
               /\ \A t \in Session : \A h \in Gen : t # s \/ h # 1 => token'[t][h] = token[t][h]
<1>1. /\ req[r].stage = "issueFirst"
      /\ token' = [token EXCEPT ![req[r].session][1] = NewGeneration(req[r].now)]
    BY DEF IssueFirst
<1>2. Grounded(r) /\ req[r] \in RequestState /\ req[r].session \in Session
    BY <1>1, ActingFacts DEF IInv
<1>3. 1 \in Gen /\ req[r].now \in Nat
    BY <1>2 DEF Gen, RequestState
<1>4. req[r].gen = 0 /\ \A h \in Gen : ~Exists(req[r].session, h)
    BY <1>1, <1>2 DEF Grounded
<1>5. /\ token'[req[r].session][1] = NewGeneration(req[r].now)
      /\ \A t \in Session : \A h \in Gen :
            t # req[r].session \/ h # 1 => token'[t][h] = token[t][h]
    BY <1>1, <1>2, <1>3 DEF IInv, TypeOK
<1> QED BY <1>2, <1>3, <1>4, <1>5

LEMMA StepIsMonotone == IInv /\ [Next]_vars => Monotone
<1> SUFFICES ASSUME IInv, [Next]_vars PROVE Monotone
    OBVIOUS
<1> DEFINE Same == UNCHANGED <<session, token, held>>
<1>1. CASE Same
    BY <1>1 DEF Monotone, Exists
<1>2. ASSUME NEW r \in Request, IssueFirst(r) PROVE Monotone
    <2>1. ASSUME NEW t \in Session, NEW h \in Gen, Exists(t, h)
          PROVE  token'[t][h] = token[t][h] /\ token[t][h] # NULL
        <3>1. /\ ~Exists(req[r].session, 1)
              /\ t # req[r].session \/ h # 1 => token'[t][h] = token[t][h]
            BY <1>2, IssueFirstFacts
        <3> QED BY <2>1, <3>1 DEF Exists
    <2>2. UNCHANGED <<session, held>>
        BY <1>2 DEF IssueFirst
    <2> QED BY <2>1, <2>2 DEF Monotone
<1>3. ASSUME NEW r \in Request, Mint(r) PROVE Monotone
    <2> DEFINE s == req[r].session
               g == req[r].gen
    <2>1. ASSUME NEW t \in Session, NEW h \in Gen, Exists(t, h)
          PROVE  /\ token'[t][h] # NULL
                 /\ token'[t][h].expiresAt = token[t][h].expiresAt
                 /\ token[t][h].usedAt # NULL => token'[t][h] = token[t][h]
        <3>1. CASE t = s /\ h = g
            <4>1. token'[s][g] = [token[s][g] EXCEPT !.usedAt = req[r].now, !.next = g + 1]
                    /\ token[s][g] \in TokenRow /\ Live(s, g) /\ req[r].now \in Nat /\ g + 1 \in Gen
                BY <1>3, MintFacts
            <4>2. token'[s][g] \in TokenRow /\ token'[s][g].expiresAt = token[s][g].expiresAt
                BY <4>1 DEF TokenRow
            <4> QED BY <3>1, <4>1, <4>2 DEF Live
        <3>2. CASE ~(t = s /\ h = g)
            <4>1. /\ ~Exists(s, g + 1)
                  /\ \A u \in Session : \A k \in Gen :
                        u # s \/ k \notin {g, g + 1} => token'[u][k] = token[u][k]
                BY <1>3, MintFacts
            <4> QED BY <2>1, <3>2, <4>1 DEF Exists
        <3> QED BY <3>1, <3>2
    <2> QED BY <1>3, <2>1 DEF Mint, Monotone
<1>4. ASSUME NEW r \in Request, Sign(r) PROVE Monotone
    BY <1>4 DEF Sign, Monotone, Exists, IInv, TypeOK
<1>5. ASSUME NEW r \in Request, NEW s \in Session, OpenSession(r, s) PROVE Monotone
    BY <1>5 DEF OpenSession, Monotone, Exists, IInv, TypeOK
<1>6. ASSUME NEW chosen, NEW why \in Reason, session' = RevokeWhereActive(chosen, why),
             UNCHANGED <<token, held>>
      PROVE  Monotone
    BY <1>6, RevokeWhereActiveFacts DEF Monotone, Exists, IInv
<1>7. ASSUME NEW r \in Request, RevokeFamily(r) \/ RevokeOne(r) PROVE Monotone
    BY <1>6, <1>7, RevokingFacts DEF IInv
<1>8. ASSUME NEW u \in User, ResetPassword(u) PROVE Monotone
    <2>1. "PASSWORD_RESET" \in Reason
        BY DEF Reason
    <2> QED BY <1>6, <1>8, <2>1 DEF ResetPassword
<1>9. ASSUME NEW r \in Request,
             FindToken(r) \/ Decide(r) \/ FindSuccessor(r) \/ MintRefused(r) \/ Deny(r) \/ Fail(r)
      PROVE  Same
    BY <1>9 DEF FindToken, Decide, FindSuccessor, MintRefused, Deny, Fail
<1>10. ASSUME NEW r \in Request, NEW s \in Session, NEW g \in Gen,
              BeginRotate(r, s, g) \/ BeginLogout(r, s, g)
       PROVE  Same
    BY <1>10 DEF BeginRotate, BeginLogout
<1>11. ASSUME NEW r \in Request, NEW s \in Session, NEW u \in User, BeginRevokeOne(r, s, u)
       PROVE  Same
    BY <1>11 DEF BeginRevokeOne
<1>12. CASE Tick \/ UNCHANGED vars
    BY <1>1, <1>12 DEF Tick, vars
<1> HIDE DEF Same, Monotone
<1> QED BY <1>1, <1>2, <1>3, <1>4, <1>5, <1>7, <1>8, <1>9, <1>10, <1>11, <1>12 DEF Next, Arrive, Handler

LEMMA NewGenerationType ==
    ASSUME NEW now \in Nat
    PROVE  /\ NewGeneration(now) \in TokenRow /\ NewGeneration(now) # NULL
           /\ NewGeneration(now).usedAt = NULL /\ NewGeneration(now).next = NULL
<1>1. NewGeneration(now) \in TokenRow
    BY DEF NewGeneration, TokenRow
<1> QED BY <1>1 DEF NewGeneration

LEMMA ChainStep == IInv /\ [Next]_vars => UnbrokenChain'
<1> SUFFICES ASSUME IInv, [Next]_vars PROVE UnbrokenChain'
    OBVIOUS
<1>1. CASE UNCHANGED token
    BY <1>1 DEF IInv, UnbrokenChain, Exists, Live
<1>2. ASSUME NEW r \in Request, IssueFirst(r) PROVE UnbrokenChain'
    <2> DEFINE s == req[r].session
    <2>1. /\ s \in Session /\ 1 \in Gen
          /\ \A h \in Gen : ~Exists(s, h)
          /\ \A t \in Session : \A h \in Gen : t # s \/ h # 1 => token'[t][h] = token[t][h]
        BY <1>2, IssueFirstFacts
    <2>2. token'[s][1] # NULL /\ token'[s][1].usedAt = NULL /\ token'[s][1].next = NULL
        BY <1>2, IssueFirstFacts, NewGenerationType
    <2> HIDE DEF s
    <2>3. ASSUME NEW t \in Session, t # s, NEW g \in Gen
          PROVE  token'[t][g] = token[t][g]
        BY <2>1, <2>3
    <2>4. ASSUME NEW g \in Gen, g # 1
          PROVE  token'[s][g] = NULL
        BY <2>1, <2>4 DEF Exists
    <2> QED BY <2>1, <2>2, <2>3, <2>4 DEF IInv, UnbrokenChain, Exists, Live, Gen
<1>3. ASSUME NEW r \in Request, Mint(r) PROVE UnbrokenChain'
    <2> DEFINE s == req[r].session
               g == req[r].gen
    <2>1. /\ s \in Session /\ g \in Gen /\ g + 1 \in Gen
          /\ Live(s, g) /\ ~Exists(s, g + 1)
          /\ \A t \in Session : \A h \in Gen :
                t # s \/ h \notin {g, g + 1} => token'[t][h] = token[t][h]
        BY <1>3, MintFacts
    <2>2. /\ token'[s][g + 1] # NULL /\ token'[s][g + 1].usedAt = NULL
          /\ token'[s][g + 1].next = NULL
        <3>1. token'[s][g + 1] = NewGeneration(req[r].now) /\ req[r].now \in Nat
            BY <1>3, MintFacts
        <3> QED BY <3>1, NewGenerationType
    <2>3. token'[s][g] # NULL /\ token'[s][g].usedAt # NULL /\ token'[s][g].next = g + 1
        <3>1. /\ token'[s][g] = [token[s][g] EXCEPT !.usedAt = req[r].now, !.next = g + 1]
              /\ token[s][g] \in TokenRow /\ req[r].now \in Nat
            BY <1>3, MintFacts
        <3>2. token'[s][g] \in TokenRow /\ token'[s][g].usedAt = req[r].now
                /\ token'[s][g].next = g + 1
            BY <2>1, <3>1 DEF TokenRow
        <3> QED BY <3>1, <3>2
    <2>4. ASSUME NEW h \in Gen, Exists(s, h), h # g PROVE h < g /\ ~Live(s, h)
        <3>1. CASE g < h
            BY <2>1, <2>4, <3>1 DEF IInv, UnbrokenChain
        <3>2. CASE h < g
            <4>1. Exists(s, g) => \A k \in Gen : k < g => Exists(s, k) /\ ~Live(s, k)
                BY <2>1 DEF IInv, UnbrokenChain
            <4> QED BY <2>1, <3>2, <4>1 DEF Live
        <3> QED BY <2>1, <2>4, <3>1, <3>2 DEF Gen
    <2> HIDE DEF s, g
    <2>5. ASSUME NEW t \in Session, t # s, NEW h \in Gen PROVE token'[t][h] = token[t][h]
        BY <2>1, <2>5
    <2>6. ASSUME NEW h \in Gen, h \notin {g, g + 1} PROVE token'[s][h] = token[s][h]
        BY <2>1, <2>6
    <2>7. ASSUME NEW h \in Gen, token'[s][h] # NULL PROVE h < g \/ h = g \/ h = g + 1
        BY <2>4, <2>6, <2>7 DEF Exists
    <2>8. /\ g \in Nat /\ g < g + 1 /\ g # g + 1
        BY <2>1 DEF Gen
    <2>9. ASSUME NEW h \in Gen, h < g PROVE token'[s][h] # NULL /\ token'[s][h].usedAt # NULL
        <3>1. Exists(s, h) /\ ~Live(s, h)
            BY <2>1, <2>9 DEF IInv, UnbrokenChain, Live
        <3>2. h \notin {g, g + 1}
            BY <2>1, <2>9 DEF Gen
        <3> QED BY <2>6, <3>1, <3>2 DEF Exists, Live
    <2>10. ASSUME NEW t \in Session, NEW h \in Gen, token'[t][h] # NULL
           PROVE  /\ \A k \in Gen : k < h => token'[t][k] # NULL /\ token'[t][k].usedAt # NULL
                  /\ token'[t][h].usedAt = NULL <=> token'[t][h].next = NULL
                  /\ token'[t][h].usedAt # NULL =>
                        token'[t][h].next = h + 1 /\ h + 1 \in Gen /\ token'[t][h + 1] # NULL
        <3>1. CASE t # s
            BY <2>5, <2>10, <3>1 DEF IInv, UnbrokenChain, Exists, Live, Gen
        <3>2. CASE t = s /\ h = g + 1
            <4>1. ASSUME NEW k \in Gen, k < h PROVE k < g \/ k = g
                BY <2>1, <3>2, <4>1 DEF Gen
            <4>2. \A k \in Gen : k < h => token'[s][k] # NULL /\ token'[s][k].usedAt # NULL
                BY <2>3, <2>9, <4>1
            <4>3. token'[s][h].usedAt = NULL /\ token'[s][h].next = NULL
                BY <2>2, <3>2
            <4> QED BY <3>2, <4>2, <4>3
        <3>3. CASE t = s /\ h = g
            <4>1. g + 1 \in Gen /\ g + 1 # NULL
                BY <2>1, NullAssumption DEF Gen
            <4>2. \A k \in Gen : k < h => token'[s][k] # NULL /\ token'[s][k].usedAt # NULL
                BY <2>9, <3>3
            <4>3. /\ token'[s][h].usedAt # NULL /\ token'[s][h].next = h + 1
                  /\ h + 1 \in Gen /\ token'[s][h + 1] # NULL /\ h + 1 # NULL
                BY <2>2, <2>3, <3>3, <4>1
            <4> QED BY <3>3, <4>2, <4>3
        <3>4. CASE t = s /\ h < g
            <4>1. Exists(s, h) /\ ~Live(s, h) /\ token'[s][h] = token[s][h]
                BY <2>1, <2>6, <3>4 DEF IInv, UnbrokenChain, Live, Gen
            <4>2. ~(token[s][h].next = NULL) /\ token[s][h].next = h + 1 /\ h + 1 \in Gen
                BY <3>4, <4>1 DEF IInv, UnbrokenChain
            <4>3. h + 1 < g \/ h + 1 = g
                BY <2>8, <3>4 DEF Gen
            <4>4. ASSUME NEW k \in Gen, k < h PROVE k < g
                BY <2>1, <3>4, <4>4 DEF Gen
            <4>5. \A k \in Gen : k < h => token'[s][k] # NULL /\ token'[s][k].usedAt # NULL
                BY <2>9, <4>4
            <4>6. token'[s][h + 1] # NULL
                BY <2>3, <2>9, <4>2, <4>3
            <4>7. token'[s][h].usedAt # NULL /\ token'[s][h].next # NULL /\ token'[s][h].next = h + 1
                BY <2>9, <3>4, <4>1, <4>2
            <4> QED BY <3>4, <4>2, <4>5, <4>6, <4>7
        <3> QED BY <2>7, <2>10, <3>1, <3>2, <3>3, <3>4
    <2> QED BY <2>10 DEF UnbrokenChain, Exists, Live
<1>4. ASSUME NEW r \in Request, Handler(r), ~IssueFirst(r), ~Mint(r) PROVE UNCHANGED token
    BY <1>4 DEF Handler, Sign, FindToken, Decide, FindSuccessor, MintRefused, RevokeFamily,
                RevokeOne, Deny
<1>5. ASSUME ~(\E r \in Request : Handler(r)) PROVE UNCHANGED token
    BY <1>5 DEF Next, Arrive, vars, Tick, ResetPassword, Fail, OpenSession, BeginRotate, BeginLogout,
                BeginRevokeOne
<1> QED BY <1>1, <1>2, <1>3, <1>4, <1>5

-----------------------------------------------------------------------------
(* Handlers act on facts                                                   *)

\* Only OpenSession brings a handler to issueFirst, with a session nobody had opened.
LEMMA OpeningIsNew ==
    ASSUME IInv, [Next]_vars, NEW o \in Request, req'[o].stage = "issueFirst", req'[o] # req[o]
    PROVE  req'[o].session \in Session /\ session[req'[o].session].status = "NONE"
<1>1. req \in [Request -> RequestState]
    BY DEF IInv, TypeOK
<1>2. PICK r \in Request : Arrive(r) \/ Handler(r) \/ Fail(r)
    <2>1. Next
        BY DEF vars
    <2>2. ~Tick /\ ~(\E u \in User : ResetPassword(u))
        BY DEF Tick, ResetPassword
    <2> QED BY <2>1, <2>2 DEF Next
<1> DEFINE Elsewhere == req'[o] = req[o] \/ req'[o].stage # "issueFirst"
<1>a. /\ Answer(r) => Elsewhere
      /\ \A stage \in Stage \ {"issueFirst"} : Goto(r, stage) => Elsewhere
    BY <1>1 DEF Answer, Goto, Idle, RequestState
<1>3. CASE Handler(r) \/ Fail(r)
    <2> SUFFICES Elsewhere
        OBVIOUS
    <2> HIDE DEF Elsewhere
    <2>1. {"sign", "mint", "deny"} \subseteq Stage \ {"issueFirst"}
        BY DEF Stage
    <2>2. CASE IssueFirst(r) \/ Mint(r)
        BY <1>a, <2>1, <2>2 DEF IssueFirst, Mint
    <2>3. CASE Sign(r) \/ MintRefused(r) \/ Deny(r) \/ Fail(r)
        BY <1>a, <2>3 DEF Sign, MintRefused, Deny, Fail
    <2>4. CASE FindSuccessor(r) \/ RevokeFamily(r) \/ RevokeOne(r)
        BY <1>a, <2>1, <2>4 DEF FindSuccessor, RevokeFamily, RevokeOne
    <2>5. CASE FindToken(r)
        BY <1>1, <2>5 DEF FindToken, RequestState, Elsewhere
    <2>6. CASE Decide(r)
        BY <1>1, <1>a, <2>6 DEF Decide, RequestState, Elsewhere
    <2> QED BY <1>3, <2>2, <2>3, <2>4, <2>5, <2>6 DEF Handler
<1>4. ASSUME NEW s \in Session, NEW g \in Gen, BeginRotate(r, s, g) \/ BeginLogout(r, s, g)
      PROVE  FALSE
    <2>1. CASE BeginRotate(r, s, g)
        BY <1>1, <2>1 DEF BeginRotate, Idle, RequestState
    <2>2. CASE BeginLogout(r, s, g)
        BY <1>1, <2>2 DEF BeginLogout, Idle, RequestState
    <2> QED BY <1>4, <2>1, <2>2
<1>5. ASSUME NEW s \in Session, NEW u \in User, BeginRevokeOne(r, s, u) PROVE FALSE
    BY <1>1, <1>5 DEF BeginRevokeOne, Idle, RequestState
<1>6. ASSUME NEW s \in Session, OpenSession(r, s)
      PROVE  req'[o].session \in Session /\ session[req'[o].session].status = "NONE"
    BY <1>1, <1>6 DEF OpenSession, Idle, RequestState
<1> QED BY <1>2, <1>3, <1>4, <1>5, <1>6 DEF Arrive

\* While a handler is about to insert generation 1, nobody else inserts into its family.
LEMMA UntouchedUntilIssued ==
    ASSUME IInv, [Next]_vars, NEW r \in Request, req[r].stage = "issueFirst", req'[r] = req[r],
           NEW g \in Gen
    PROVE  token'[req[r].session][g] = NULL
<1> DEFINE mine == req[r].session
<1>1. mine \in Session /\ token[mine][g] = NULL
      /\ \A h \in Gen : ~Exists(mine, h)
      /\ \A o \in Request \ {r} : req[o].stage = "issueFirst" => req[o].session # mine
    BY DEF IInv, HandlersActOnFacts, Grounded, Exists
<1>2. CASE UNCHANGED token
    BY <1>1, <1>2
<1>3. ASSUME NEW o \in Request, IssueFirst(o) PROVE token'[mine][g] = token[mine][g]
    <2>1. o # r
        BY <1>3 DEF IssueFirst, Goto, IInv, TypeOK, RequestState
    <2>2. req[o].session # mine
        BY <1>1, <1>3, <2>1 DEF IssueFirst
    <2> QED BY <1>1, <1>3, <2>2, IssueFirstFacts
<1>4. ASSUME NEW o \in Request, Mint(o) PROVE token'[mine][g] = token[mine][g]
    <2>1. Exists(req[o].session, req[o].gen) /\ req[o].gen \in Gen
        BY <1>4, MintFacts DEF Live
    <2>2. req[o].session # mine
        BY <1>1, <2>1
    <2>3. /\ \A t \in Session : \A h \in Gen :
                t # req[o].session \/ h \notin {req[o].gen, req[o].gen + 1} => token'[t][h] = token[t][h]
        BY <1>4, MintFacts
    <2> QED BY <1>1, <2>2, <2>3
<1>5. ASSUME NEW o \in Request, Handler(o), ~IssueFirst(o), ~Mint(o) PROVE UNCHANGED token
    BY <1>5 DEF Handler, Sign, FindToken, Decide, FindSuccessor, MintRefused, RevokeFamily,
                RevokeOne, Deny
<1>6. ASSUME ~(\E o \in Request : Handler(o)) PROVE UNCHANGED token
    BY <1>6 DEF Next, Arrive, vars, Tick, ResetPassword, Fail, OpenSession, BeginRotate, BeginLogout,
                BeginRevokeOne
<1> QED BY <1>1, <1>2, <1>3, <1>4, <1>5, <1>6

\* What a handler relies on survives the steps of the others.
LEMMA OtherStaysGrounded ==
    ASSUME IInv, [Next]_vars, NEW r \in Request, req'[r] = req[r]
    PROVE  Grounded(r)'
<1> DEFINE q == req[r]
           presented == token[q.session][q.presented]
<1>1. Monotone /\ Grounded(r)
    BY StepIsMonotone DEF IInv, HandlersActOnFacts
<1>2. CASE q.stage = "idle"
    BY <1>1, <1>2 DEF Grounded, Idle
<1>3. CASE q.stage # "idle"
    <2>1. q.session \in Session /\ session[q.session].status # "NONE"
        BY <1>1, <1>3 DEF Grounded
    <2>2. session'[q.session].status # "NONE" /\ held[q.session] \subseteq held'[q.session]
          /\ (session[q.session].status = "REVOKED" => session'[q.session].status = "REVOKED")
        BY <1>1, <2>1 DEF Monotone
    <2>3. ASSUME NEW g \in Gen, Exists(q.session, g)
          PROVE  /\ Exists(q.session, g)' /\ token'[q.session][g].expiresAt = token[q.session][g].expiresAt
                 /\ token[q.session][g].usedAt # NULL => token'[q.session][g] = token[q.session][g]
        BY <1>1, <2>1, <2>3 DEF Monotone, Exists
    <2>4. \A g \in held[q.session] : g \in Gen /\ Exists(q.session, g)
        BY <2>1 DEF IInv, HandlersActOnFacts, TypeOK
    <2>5. CASE q.stage = "issueFirst"
        <3>1. q.gen = 0 /\ \A g \in Gen : ~Exists(q.session, g)'
            BY <1>1, <2>5, UntouchedUntilIssued DEF Grounded, Exists
        <3>2. ASSUME NEW o \in Request \ {r}, req'[o].stage = "issueFirst"
              PROVE  req'[o].session # q.session
            BY <1>1, <2>1, <2>5, <3>2, OpeningIsNew DEF Grounded
        <3> QED BY <2>1, <2>2, <2>5, <3>1, <3>2 DEF Grounded
    <2>6. CASE q.stage \in {"find", "found"}
        <3>1. q.presented \in held[q.session] /\ q.presented \in Gen
              /\ Exists(q.session, q.presented)
            BY <1>1, <2>4, <2>6 DEF Grounded
        <3>2. q.presented \in held'[q.session]
            BY <2>2, <3>1
        <3>3. q.stage = "found" =>
                  /\ q.seen \in TokenRow
                  /\ q.seen.expiresAt = token'[q.session][q.presented].expiresAt
                  /\ q.seen.usedAt # NULL => q.seen = token'[q.session][q.presented]
            <4>1. q.stage = "found" =>
                      /\ q.seen \in TokenRow /\ q.seen.expiresAt = presented.expiresAt
                      /\ q.seen.usedAt # NULL => q.seen = presented
                BY <1>1 DEF Grounded
            <4> QED BY <2>3, <3>1, <4>1
        <3> HIDE DEF presented
        <3> QED BY <2>1, <2>2, <2>6, <3>2, <3>3 DEF Grounded
    <2>7. CASE q.stage \in {"successor", "mint"}
        <3>1. /\ q.gen \in Gen /\ Exists(q.session, q.gen)
              /\ q.presented \in Gen /\ Exists(q.session, q.presented)
              /\ q.now < presented.expiresAt
              /\ q.presented = q.gen \/ (presented.usedAt # NULL /\ WithinGrace(presented, q.now))
            BY <1>1, <2>7 DEF Grounded
        <3> DEFINE later == token'[q.session][q.presented]
        <3>2. /\ Exists(q.session, q.gen)' /\ Exists(q.session, q.presented)'
              /\ later.expiresAt = presented.expiresAt
              /\ presented.usedAt # NULL => later = presented
            BY <2>3, <3>1
        <3>3. /\ q.now < later.expiresAt
              /\ q.presented = q.gen \/ (later.usedAt # NULL /\ WithinGrace(later, q.now))
            <4> HIDE DEF presented, later, q
            <4> QED BY <3>1, <3>2
        <3> QED BY <2>1, <2>2, <2>7, <3>1, <3>2, <3>3 DEF Grounded
    <2>8. CASE q.stage = "sign"
        BY <1>1, <2>1, <2>2, <2>3, <2>8 DEF Grounded
    <2>9. CASE q.stage \in {"revokeFamily", "revokeOne", "deny"}
        <3>1. CASE q.stage = "deny"
            <4>1. session[q.session].status = "REVOKED"
                BY <1>1, <3>1 DEF Grounded
            <4> QED BY <2>1, <2>2, <3>1, <4>1 DEF Grounded
        <3>2. CASE q.stage = "revokeOne"
            <4>1. q.reason = "USER_SIGNED_OUT"
                BY <1>1, <3>2 DEF Grounded
            <4> QED BY <2>1, <2>2, <3>2, <4>1 DEF Grounded
        <3>3. CASE q.stage = "revokeFamily"
            <4>1. q.reason # NULL
                BY <1>1, <3>3 DEF Grounded
            <4>2. q.reason = "TOKEN_REUSE_DETECTED" =>
                      q.presented \in held[q.session] /\ ~Live(q.session, q.presented)
                BY <1>1, <3>3 DEF Grounded
            <4>3. q.reason = "TOKEN_REUSE_DETECTED" =>
                      q.presented \in held'[q.session] /\ ~Live(q.session, q.presented)'
                <5>1. CASE q.reason = "TOKEN_REUSE_DETECTED"
                    <6>1. /\ q.presented \in held[q.session] /\ q.presented \in Gen
                          /\ Exists(q.session, q.presented)
                          /\ token[q.session][q.presented].usedAt # NULL
                        BY <2>4, <4>2, <5>1 DEF Live
                    <6>2. token'[q.session][q.presented] = token[q.session][q.presented]
                        BY <2>3, <6>1
                    <6> QED BY <2>2, <6>1, <6>2 DEF Live
                <5> QED BY <5>1
            <4> QED BY <2>1, <2>2, <3>3, <4>1, <4>3 DEF Grounded
        <3> QED BY <2>9, <3>1, <3>2, <3>3
    <2>10. q.stage \in Stage
        BY DEF IInv, TypeOK, RequestState
    <2> QED BY <1>3, <2>5, <2>6, <2>7, <2>8, <2>9, <2>10 DEF Stage
<1> QED BY <1>2, <1>3

\* An answered request relies on nothing.
LEMMA AnsweredIsGrounded ==
    ASSUME TypeOK, NEW r \in Request, Answer(r)
    PROVE  Grounded(r)'
<1>1. req'[r] = Idle
    BY DEF TypeOK, Answer
<1> QED BY <1>1 DEF Grounded, Idle

\* A handler that moves on relies, in its new stage, on what its step has just established.
LEMMA ActorIsGrounded ==
    ASSUME IInv, [Next]_vars, TypeOK', NEW r \in Request, Handler(r)
    PROVE  Grounded(r)'
<1> DEFINE q == req[r]
           s == q.session
<1>1. TypeOK /\ UnbrokenChain /\ Grounded(r) /\ q \in RequestState /\ Monotone
    BY StepIsMonotone DEF IInv, HandlersActOnFacts, TypeOK
<1>2. CASE IssueFirst(r)
    <2>1. s \in Session /\ session[s].status # "NONE" /\ 1 \in Gen /\ q.gen = 0
        BY <1>1, <1>2, IssueFirstFacts DEF IssueFirst, Grounded
    <2>2. token'[s][1] = NewGeneration(q.now) /\ q.now \in Nat
        BY <1>2, IssueFirstFacts
    <2>3. token'[s][1] # NULL
        BY <2>2, NewGenerationType
    <2>4. req'[r] = [q EXCEPT !.stage = "sign"] /\ session' = session
        BY <1>1, <1>2 DEF IssueFirst, Goto, TypeOK
    <2>5. req'[r].stage = "sign" /\ req'[r].session = s /\ req'[r].gen = 0
        BY <1>1, <2>1, <2>4 DEF RequestState
    <2> HIDE DEF q, s
    <2> QED BY <2>1, <2>3, <2>4, <2>5 DEF Grounded, Exists
<1>3. CASE Sign(r) \/ MintRefused(r) \/ Deny(r)
    BY <1>1, <1>3, AnsweredIsGrounded DEF Sign, MintRefused, Deny
<1>4. CASE FindToken(r)
    <2>1. s \in Session /\ session[s].status # "NONE" /\ q.presented \in held[s]
        BY <1>1, <1>4 DEF FindToken, Grounded
    <2>2. q.presented \in Gen /\ Exists(s, q.presented)
        BY <2>1 DEF IInv, TypeOK, HandlersActOnFacts
    <2>3. token[s][q.presented] \in TokenRow
        BY <1>1, <2>1, <2>2 DEF TypeOK, Exists
    <2>4. req'[r] = [q EXCEPT !.stage = "found", !.seen = token[s][q.presented]]
            /\ UNCHANGED <<session, token, held>>
        BY <1>1, <1>4 DEF FindToken, TypeOK
    <2>5. /\ req'[r].stage = "found" /\ req'[r].session = s
          /\ req'[r].presented = q.presented /\ req'[r].seen = token[s][q.presented]
        BY <1>1, <2>4 DEF RequestState
    <2> HIDE DEF q, s
    <2> QED BY <2>1, <2>3, <2>4, <2>5 DEF Grounded
<1>5. CASE Decide(r)
    <2> DEFINE row == token[s][q.presented]
               d == Decision(q.seen, session[s].status = "ACTIVE", q.now)
    <2>1. /\ s \in Session /\ session[s].status # "NONE" /\ q.presented \in held[s]
          /\ q.seen \in TokenRow /\ q.seen.expiresAt = row.expiresAt
          /\ (q.seen.usedAt # NULL => q.seen = row)
        BY <1>1, <1>5 DEF Decide, Grounded
    <2>2. q.presented \in Gen /\ Exists(s, q.presented)
        BY <2>1 DEF IInv, TypeOK, HandlersActOnFacts
    <2>3. UNCHANGED <<session, token, held>>
        BY <1>5 DEF Decide
    <2>4. CASE Answer(r)
        BY <1>1, <2>4, AnsweredIsGrounded
    <2>5. CASE d = "ROTATE" /\ req' = [req EXCEPT ![r].stage = "mint", ![r].seen = NULL,
                                                  ![r].gen = q.presented]
        <3>1. req'[r] = [q EXCEPT !.stage = "mint", !.seen = NULL, !.gen = q.presented]
            BY <1>1, <2>5 DEF TypeOK
        <3>2. /\ req'[r].stage = "mint" /\ req'[r].session = s /\ req'[r].now = q.now
              /\ req'[r].presented = q.presented /\ req'[r].gen = q.presented
            BY <1>1, <3>1 DEF RequestState
        <3>3. q.now < q.seen.expiresAt
            <4>1. ~(q.seen.expiresAt <= q.now)
                BY <2>5 DEF Decision
            <4>2. q.now \in Nat /\ q.seen.expiresAt \in Nat
                BY <1>1, <2>1 DEF TokenRow, RequestState
            <4> QED BY <4>1, <4>2
        <3> HIDE DEF q, s
        <3> QED BY <2>1, <2>2, <2>3, <3>2, <3>3 DEF Grounded, Exists
    <2>6. CASE d = "REPLAY_WITHIN_GRACE"
               /\ req' = [req EXCEPT ![r].stage = "successor", ![r].seen = NULL,
                                     ![r].gen = q.seen.next]
        <3>1. req'[r] = [q EXCEPT !.stage = "successor", !.seen = NULL, !.gen = q.seen.next]
            BY <1>1, <2>6 DEF TypeOK
        <3>2. /\ req'[r].stage = "successor" /\ req'[r].session = s /\ req'[r].now = q.now
              /\ req'[r].presented = q.presented /\ req'[r].gen = q.seen.next
            BY <1>1, <3>1 DEF RequestState
        <3>3. /\ q.now < q.seen.expiresAt /\ q.seen.usedAt # NULL /\ q.seen.next # NULL
              /\ WithinGrace(q.seen, q.now)
            <4>1. /\ ~(q.seen.expiresAt <= q.now) /\ q.seen.usedAt # NULL
                  /\ q.seen.next # NULL /\ WithinGrace(q.seen, q.now)
                BY <2>6 DEF Decision
            <4>2. q.now \in Nat /\ q.seen.expiresAt \in Nat
                BY <1>1, <2>1 DEF TokenRow, RequestState
            <4> QED BY <4>1, <4>2
        <3>4. q.seen = row /\ row.next \in Gen /\ Exists(s, row.next)
            <4>1. q.seen = row /\ ~Live(s, q.presented)
                BY <2>1, <3>3 DEF Live
            <4> HIDE DEF q, s
            <4> QED BY <1>1, <2>1, <2>2, <4>1 DEF UnbrokenChain
        <3> HIDE DEF q, s
        <3> QED BY <2>1, <2>2, <2>3, <3>2, <3>3, <3>4 DEF Grounded, Exists, WithinGrace
    <2>7. CASE d = "REUSE_DETECTED"
               /\ req' = [req EXCEPT ![r].stage = "revokeFamily", ![r].seen = NULL,
                                     ![r].reason = "TOKEN_REUSE_DETECTED"]
        <3>1. req'[r] = [q EXCEPT !.stage = "revokeFamily", !.seen = NULL,
                                  !.reason = "TOKEN_REUSE_DETECTED"]
            BY <1>1, <2>7 DEF TypeOK
        <3>2. /\ req'[r].stage = "revokeFamily" /\ req'[r].session = s
              /\ req'[r].presented = q.presented /\ req'[r].reason = "TOKEN_REUSE_DETECTED"
            BY <1>1, <3>1 DEF RequestState
        <3>3. q.seen.usedAt # NULL
            BY <1>1, <2>1, <2>7 DEF Decision, TokenRow, RequestState
        <3>4. ~Live(s, q.presented)
            BY <2>1, <3>3 DEF Live
        <3>5. "TOKEN_REUSE_DETECTED" # NULL
            BY DEF Reason
        <3> HIDE DEF q, s
        <3> QED BY <2>1, <2>3, <3>2, <3>4, <3>5 DEF Grounded, Live, Exists
    <2> QED BY <1>5, <2>4, <2>5, <2>6, <2>7 DEF Decide
<1>6. CASE FindSuccessor(r)
    <2>1. CASE Answer(r)
        BY <1>1, <2>1, AnsweredIsGrounded
    <2>2. CASE Goto(r, "mint")
        <3>1. req'[r] = [q EXCEPT !.stage = "mint"] /\ UNCHANGED <<session, token, held>>
            BY <1>1, <1>6, <2>2 DEF Goto, FindSuccessor, TypeOK
        <3>2. /\ req'[r].stage = "mint" /\ req'[r].session = s /\ req'[r].now = q.now
              /\ req'[r].presented = q.presented /\ req'[r].gen = q.gen
            BY <1>1, <3>1 DEF RequestState
        <3>3. q.stage = "successor"
            BY <1>6 DEF FindSuccessor
        <3> HIDE DEF q, s
        <3> QED BY <1>1, <3>1, <3>2, <3>3 DEF Grounded, Exists, WithinGrace, q, s
    <2> QED BY <1>6, <2>1, <2>2 DEF FindSuccessor
<1>7. CASE Mint(r)
    <2>1. s \in Session /\ q.gen + 1 \in Gen /\ session[s].status # "NONE"
        BY <1>1, <1>7, MintFacts DEF Mint, Grounded
    <2>2. token'[s][q.gen + 1] = NewGeneration(q.now) /\ q.now \in Nat
        BY <1>7, MintFacts
    <2>3. token'[s][q.gen + 1] # NULL
        BY <2>2, NewGenerationType
    <2>4. req'[r] = [q EXCEPT !.stage = "sign"] /\ session' = session
        BY <1>1, <1>7 DEF Mint, Goto, TypeOK
    <2>5. req'[r].stage = "sign" /\ req'[r].session = s /\ req'[r].gen = q.gen
        BY <1>1, <2>1, <2>4 DEF RequestState
    <2> HIDE DEF q, s
    <2> QED BY <2>1, <2>3, <2>4, <2>5 DEF Grounded, Exists
<1>8. CASE RevokeFamily(r) \/ RevokeOne(r)
    <2>1. CASE Answer(r)
        BY <1>1, <2>1, AnsweredIsGrounded
    <2>2. CASE Goto(r, "deny")
        <3>1. s \in Session /\ session[s].status # "NONE" /\ q.reason \in Reason
            BY <1>1, <1>8 DEF RevokeFamily, RevokeOne, Grounded, RequestState, Reason
        <3>2. session'[s].status = "REVOKED"
            BY <1>1, <1>8, <3>1, RevokeWhereActiveFacts DEF RevokeFamily, RevokeOne
        <3>3. req'[r] = [q EXCEPT !.stage = "deny"]
            BY <1>1, <2>2 DEF Goto, TypeOK
        <3>4. req'[r].stage = "deny" /\ req'[r].session = s
            BY <1>1, <3>3 DEF RequestState
        <3> HIDE DEF q, s
        <3> QED BY <3>1, <3>2, <3>4 DEF Grounded
    <2> QED BY <1>8, <2>1, <2>2 DEF RevokeFamily, RevokeOne
<1> QED BY <1>2, <1>3, <1>4, <1>5, <1>6, <1>7, <1>8 DEF Handler

\* So does a handler that has just been given a request.
LEMMA ArrivalIsGrounded ==
    ASSUME IInv, [Next]_vars, NEW r \in Request, Arrive(r)
    PROVE  Grounded(r)'
<1>1. req \in [Request -> RequestState] /\ Idle.gen = 0
    BY DEF IInv, TypeOK, Idle
<1>2. ASSUME NEW s \in Session, OpenSession(r, s) PROVE Grounded(r)'
    <2>1. /\ req'[r].stage = "issueFirst" /\ req'[r].session = s /\ req'[r].gen = 0
          /\ token' = token /\ session[s].status = "NONE"
        BY <1>1, <1>2 DEF OpenSession, Idle
    <2>2. session'[s].status = "ACTIVE"
        BY <1>2 DEF OpenSession, IInv, TypeOK
    <2>3. \A g \in Gen : ~Exists(s, g)'
        BY <2>1 DEF IInv, HandlersActOnFacts, Exists
    <2>4. ASSUME NEW o \in Request \ {r}, req'[o].stage = "issueFirst"
          PROVE  req'[o].session # s
        <3>1. req'[o] = req[o] /\ req[o].stage = "issueFirst"
            BY <1>1, <1>2, <2>4 DEF OpenSession
        <3>2. session[req[o].session].status # "NONE"
            BY <3>1 DEF IInv, HandlersActOnFacts, Grounded
        <3> QED BY <2>1, <3>1, <3>2
    <2> QED BY <1>2, <2>1, <2>2, <2>3, <2>4 DEF Grounded
<1>3. ASSUME NEW s \in Session, NEW g \in Gen, BeginRotate(r, s, g) PROVE Grounded(r)'
    <2>1. /\ req'[r].stage = "find" /\ req'[r].session = s /\ req'[r].presented = g
          /\ g \in held[s] /\ UNCHANGED <<session, token, held>>
        BY <1>1, <1>3 DEF BeginRotate, Idle
    <2>2. session[s].status # "NONE"
        BY <2>1 DEF IInv, HandlersActOnFacts
    <2> QED BY <1>3, <2>1, <2>2 DEF Grounded
<1>4. ASSUME NEW s \in Session, NEW g \in Gen, BeginLogout(r, s, g) PROVE Grounded(r)'
    <2>1. /\ req'[r].stage = "revokeFamily" /\ req'[r].session = s
          /\ req'[r].reason = "USER_SIGNED_OUT"
          /\ g \in held[s] /\ UNCHANGED <<session, token, held>>
        BY <1>1, <1>4 DEF BeginLogout, Idle
    <2>2. session[s].status # "NONE" /\ "USER_SIGNED_OUT" # NULL
        BY <2>1 DEF IInv, HandlersActOnFacts, Reason
    <2> QED BY <1>4, <2>1, <2>2 DEF Grounded
<1>5. ASSUME NEW s \in Session, NEW u \in User, BeginRevokeOne(r, s, u) PROVE Grounded(r)'
    <2>1. /\ req'[r].stage = "revokeOne" /\ req'[r].session = s
          /\ req'[r].reason = "USER_SIGNED_OUT"
          /\ session[s].status # "NONE" /\ UNCHANGED <<session, token, held>>
        BY <1>1, <1>5 DEF BeginRevokeOne, Idle
    <2>2. "USER_SIGNED_OUT" # NULL
        BY DEF Reason
    <2> QED BY <1>5, <2>1, <2>2 DEF Grounded
<1> QED BY <1>2, <1>3, <1>4, <1>5 DEF Arrive

\* A step moves one handler at most.
LEMMA OneHandlerMoves ==
    ASSUME TypeOK, NEW r \in Request, Arrive(r) \/ Handler(r) \/ Fail(r),
           NEW o \in Request, o # r
    PROVE  req'[o] = req[o]
<1> USE DEF TypeOK
<1>1. CASE Arrive(r)
    BY <1>1 DEF Arrive, OpenSession, BeginRotate, BeginLogout, BeginRevokeOne
<1>2. CASE Fail(r)
    BY <1>2 DEF Fail, Answer
<1>3. CASE IssueFirst(r) \/ Sign(r) \/ FindToken(r) \/ FindSuccessor(r)
    BY <1>3 DEF IssueFirst, Sign, FindToken, FindSuccessor, Goto, Answer
<1>4. CASE Decide(r)
    BY <1>4 DEF Decide, Answer
<1>5. CASE Mint(r) \/ MintRefused(r) \/ RevokeFamily(r) \/ RevokeOne(r) \/ Deny(r)
    BY <1>5 DEF Mint, MintRefused, RevokeFamily, RevokeOne, Deny, Goto, Answer
<1> QED BY <1>1, <1>2, <1>3, <1>4, <1>5 DEF Handler

LEMMA FactsStep == IInv /\ [Next]_vars /\ TypeOK' => HandlersActOnFacts'
<1> SUFFICES ASSUME IInv, [Next]_vars, TypeOK' PROVE HandlersActOnFacts'
    OBVIOUS
<1>1. ASSUME NEW s \in Session, NEW g \in held'[s] PROVE Exists(s, g)'
    <2>1. g \in Gen /\ Monotone
        BY <1>1, StepIsMonotone DEF TypeOK
    <2>2. CASE g \in held[s]
        BY <2>1, <2>2 DEF IInv, HandlersActOnFacts, Monotone, Exists
    <2>3. CASE g \notin held[s]
        <3>1. PICK r \in Request : Sign(r)
            BY <1>1, <2>3, Writers
        <3>2. s = req[r].session /\ g = req[r].gen + 1
            BY <1>1, <2>3, <3>1 DEF Sign, IInv, TypeOK
        <3>3. Exists(s, g)
            BY <3>1, <3>2 DEF Sign, IInv, HandlersActOnFacts, Grounded
        <3> QED BY <2>1, <3>3 DEF Monotone, Exists
    <2> QED BY <2>2, <2>3
<1>2. ASSUME NEW s \in Session, session'[s].status = "NONE", NEW g \in Gen PROVE ~Exists(s, g)'
    <2>1. session[s].status = "NONE" /\ \A h \in Gen : ~Exists(s, h)
        BY <1>2, StepIsMonotone DEF Monotone, IInv, HandlersActOnFacts
    <2>2. CASE UNCHANGED token
        BY <2>1, <2>2 DEF Exists
    <2>3. ASSUME NEW r \in Request, IssueFirst(r) PROVE token'[s][g] = token[s][g]
        <3>1. req[r].session # s
            BY <2>1, <2>3, ActingFacts DEF IssueFirst, IInv
        <3> QED BY <2>3, <3>1, IssueFirstFacts
    <2>4. ASSUME NEW r \in Request, Mint(r) PROVE token'[s][g] = token[s][g]
        <3>1. req[r].session # s
            BY <2>1, <2>4, RotatingFacts DEF IInv
        <3>2. \A t \in Session : \A h \in Gen :
                t # req[r].session \/ h \notin {req[r].gen, req[r].gen + 1} => token'[t][h] = token[t][h]
            BY <2>4, MintFacts
        <3> QED BY <3>1, <3>2
    <2>5. ASSUME NEW r \in Request, Handler(r), ~IssueFirst(r), ~Mint(r) PROVE UNCHANGED token
        BY <2>5 DEF Handler, Sign, FindToken, Decide, FindSuccessor, MintRefused, RevokeFamily,
                    RevokeOne, Deny
    <2>6. ASSUME ~(\E r \in Request : Handler(r)) PROVE UNCHANGED token
        BY <2>6 DEF Next, Arrive, vars, Tick, ResetPassword, Fail, OpenSession, BeginRotate,
                    BeginLogout, BeginRevokeOne
    <2> QED BY <2>1, <2>2, <2>3, <2>4, <2>5, <2>6 DEF Exists
<1>3. ASSUME NEW o \in Request PROVE Grounded(o)'
    <2>1. CASE req'[o] = req[o]
        BY <2>1, OtherStaysGrounded
    <2>2. CASE req'[o] # req[o]
        <3>1. PICK r \in Request : Arrive(r) \/ Handler(r) \/ Fail(r)
            BY <2>2 DEF Next, vars, Tick, ResetPassword
        <3>2. r = o
            BY <2>2, <3>1, OneHandlerMoves DEF IInv
        <3>3. CASE Fail(o)
            BY <3>3, AnsweredIsGrounded DEF Fail, IInv
        <3> QED BY <3>1, <3>2, <3>3, ArrivalIsGrounded, ActorIsGrounded
    <2> QED BY <2>1, <2>2
<1> QED BY <1>1, <1>2, <1>3 DEF HandlersActOnFacts

-----------------------------------------------------------------------------
(* The theorems                                                            *)

THEOREM Invariance == Spec => []IInv
<1>1. IInv /\ [Next]_vars => IInv'
    BY TypeStep, ChainStep, FactsStep DEF IInv
<1> QED BY InitIInv, <1>1, PTL DEF Spec

\* Every variable keeps its type and auth_sessions its CHECKs.
THEOREM TypeCorrect == Spec => []TypeOK
<1>1. IInv => TypeOK
    BY DEF IInv
<1> QED BY Invariance, <1>1, PTL

\* However many handlers rotate, replay, revoke and fail at once, a family's generations
\* form one chain with at most one that rotates.
THEOREM ChainIsUnbroken == Spec => []UnbrokenChain
<1>1. IInv => UnbrokenChain
    BY DEF IInv
<1> QED BY Invariance, <1>1, PTL

\* What a handler read before an await still holds when it acts on it.
THEOREM HandlersKnowWhatTheyDo == Spec => []HandlersActOnFacts
<1>1. IInv => HandlersActOnFacts
    BY DEF IInv
<1> QED BY Invariance, <1>1, PTL

\* Revocation is final, in status and in reason.
THEOREM RevokedForGood == Spec => RevocationIsFinal
<1>1. Monotone => \A s \in Session : session[s].status = "REVOKED" =>
                     session'[s].status = "REVOKED" /\ session'[s].reason = session[s].reason
    BY DEF Monotone
<1>2. IInv /\ [Next]_vars =>
        [\A s \in Session : session[s].status = "REVOKED" =>
            session'[s].status = "REVOKED" /\ session'[s].reason = session[s].reason]_vars
    BY <1>1, StepIsMonotone
<1> QED BY Invariance, <1>2, PTL DEF Spec, RevocationIsFinal

\* A generation buys a successor once, or again within the grace, and never once expired.
THEOREM UsedOnceOrWithinGrace == Spec => UsableOnceOrWithinGrace
<1> DEFINE Use == \A r \in Request :
              req[r].stage = "mint" /\ req'[r].stage = "sign" =>
                  LET row == token[req[r].session][req[r].presented]
                  IN  /\ req[r].now < row.expiresAt
                      /\ \/ row.usedAt = NULL
                         \/ row.usedAt <= req[r].now /\ req[r].now <= row.usedAt + Grace
<1>1. IInv /\ [Next]_vars => [Use]_vars
    <2> SUFFICES ASSUME IInv, NEW r \in Request,
                        req[r].stage = "mint", req'[r].stage = "sign", [Next]_vars
                 PROVE  LET row == token[req[r].session][req[r].presented]
                        IN  /\ req[r].now < row.expiresAt
                            /\ \/ row.usedAt = NULL
                               \/ row.usedAt <= req[r].now /\ req[r].now <= row.usedAt + Grace
        BY DEF IInv
    <2>1. Grounded(r) /\ req \in [Request -> RequestState]
        BY DEF IInv, HandlersActOnFacts, TypeOK
    <2>2. PICK o \in Request : Arrive(o) \/ Handler(o) \/ Fail(o)
        BY DEF Next, vars, Tick, ResetPassword
    <2>3. o = r
        BY <2>2, OneHandlerMoves DEF IInv
    <2>4. ~Fail(r) /\ ~Arrive(r)
        <3>1. CASE Fail(r)
            BY <2>1, <3>1 DEF Fail, Answer, Idle
        <3>2. CASE Arrive(r)
            <4>1. req[r] # Idle
                BY DEF Idle
            <4> QED BY <3>2, <4>1 DEF Arrive, OpenSession, BeginRotate, BeginLogout, BeginRevokeOne
        <3> QED BY <3>1, <3>2
    <2>5. Mint(r)
        <3>1. ~MintRefused(r)
            BY <2>1 DEF MintRefused, Answer, Idle
        <3> QED BY <2>2, <2>3, <2>4, <3>1 DEF Handler, IssueFirst, Sign, FindToken, Decide,
                    FindSuccessor, RevokeFamily, RevokeOne, Deny
    <2>6. Live(req[r].session, req[r].gen)
        BY <2>5, MintFacts
    <2> QED BY <2>1, <2>6 DEF Grounded, Live, WithinGrace
<1> QED BY Invariance, <1>1, PTL DEF Spec, UsableOnceOrWithinGrace

\* A family is refused at the guard only once its rows say so.
THEOREM DeniedIsRevoked == Spec => []DeniedOnlyIfRevoked
<1>1. Init => DeniedOnlyIfRevoked
    BY DEF Init, DeniedOnlyIfRevoked
<1>2. IInv /\ DeniedOnlyIfRevoked /\ [Next]_vars => DeniedOnlyIfRevoked'
    <2> SUFFICES ASSUME IInv, DeniedOnlyIfRevoked, [Next]_vars,
                        NEW s \in Session, denied'[s] # 0
                 PROVE  session'[s].status = "REVOKED"
        BY DEF DeniedOnlyIfRevoked
    <2>1. session[s].status = "REVOKED"
        <3>1. CASE denied[s] # 0
            BY <3>1 DEF DeniedOnlyIfRevoked
        <3>2. CASE denied[s] = 0
            <4>1. PICK r \in Request : Deny(r)
                BY <3>2, Writers
            <4>2. s = req[r].session
                BY <3>2, <4>1 DEF Deny, IInv, TypeOK
            <4> QED BY <4>1, <4>2 DEF Deny, IInv, HandlersActOnFacts, Grounded
        <3> QED BY <3>1, <3>2
    <2> QED BY <2>1, StepIsMonotone DEF Monotone
<1> QED BY Invariance, <1>1, <1>2, PTL DEF Spec

\* A theft alarm means that a generation some client held had been spent.
THEOREM NoAlarmWithoutReplay == Spec => []AlarmNeedsAReplay
<1>1. Init => AlarmNeedsAReplay
    <2>1. NULL # "TOKEN_REUSE_DETECTED"
        BY DEF Reason
    <2> QED BY <2>1 DEF Init, AlarmNeedsAReplay
<1>2. IInv /\ AlarmNeedsAReplay /\ [Next]_vars => AlarmNeedsAReplay'
    <2> SUFFICES ASSUME IInv, AlarmNeedsAReplay, [Next]_vars,
                        NEW s \in Session, session'[s].reason = "TOKEN_REUSE_DETECTED"
                 PROVE  \E g \in held'[s] : Exists(s, g)' /\ ~Live(s, g)'
        BY DEF AlarmNeedsAReplay
    <2>1. ASSUME NEW g \in held[s], Exists(s, g), ~Live(s, g)
          PROVE  g \in held'[s] /\ Exists(s, g)' /\ ~Live(s, g)'
        BY <2>1, StepIsMonotone DEF Monotone, IInv, TypeOK, Exists, Live
    <2>2. \E g \in held[s] : Exists(s, g) /\ ~Live(s, g)
        <3>1. CASE session[s].reason = "TOKEN_REUSE_DETECTED"
            BY <3>1 DEF AlarmNeedsAReplay
        <3>2. CASE session[s].reason # "TOKEN_REUSE_DETECTED"
            <4>1. ASSUME NEW chosen, NEW why \in Reason, why # "TOKEN_REUSE_DETECTED",
                         session' = RevokeWhereActive(chosen, why)
                  PROVE  FALSE
                <5>1. /\ session'[s].status = "REVOKED"
                      /\ session'[s] # session[s]
                      /\ session[s].status \in {"ACTIVE", "REVOKED"}
                    <6>1. "TOKEN_REUSE_DETECTED" # NULL /\ session[s] \in SessionRow
                        BY DEF Reason, IInv, TypeOK
                    <6> QED BY <3>2, <4>1, <6>1, RevokeWhereActiveFacts DEF IInv, SessionRow
                <5> QED BY <4>1, <5>1, RevokeWhereActiveFacts DEF IInv
            <4>2. ~ \E u \in User : ResetPassword(u)
                <5>1. "PASSWORD_RESET" \in Reason /\ "PASSWORD_RESET" # "TOKEN_REUSE_DETECTED"
                    BY DEF Reason
                <5> QED BY <4>1, <5>1 DEF ResetPassword
            <4>3. PICK r \in Request : RevokeFamily(r) \/ RevokeOne(r)
                <5>1. ~ \E r \in Request, t \in Session : OpenSession(r, t)
                    <6>1. NULL # "TOKEN_REUSE_DETECTED"
                        BY DEF Reason
                    <6>2. ASSUME NEW r \in Request, NEW t \in Session, OpenSession(r, t) PROVE FALSE
                        <7>1. session'[s].reason = NULL \/ session'[s] = session[s]
                            BY <6>2 DEF OpenSession, IInv, TypeOK
                        <7> QED BY <3>2, <6>1, <7>1
                    <6> QED BY <6>2
                <5> QED BY <3>2, <4>2, <5>1, Writers
            <4>4. /\ req[r].stage \in {"revokeFamily", "revokeOne"} /\ Grounded(r)
                  /\ req[r] \in RequestState /\ req[r].reason \in Reason
                BY <4>3, RevokingFacts DEF IInv
            <4>5. req[r].reason = "TOKEN_REUSE_DETECTED" /\ s = req[r].session
                <5>1. session' = RevokeWhereActive({req[r].session}, req[r].reason)
                    BY <4>3 DEF RevokeFamily, RevokeOne
                <5>2. req[r].reason = "TOKEN_REUSE_DETECTED"
                    BY <4>1, <4>4, <5>1
                <5>3. s \in {req[r].session}
                    BY <3>2, <5>1 DEF RevokeWhereActive
                <5> QED BY <5>2, <5>3
            <4>6. req[r].stage = "revokeFamily"
                <5>1. "TOKEN_REUSE_DETECTED" # "USER_SIGNED_OUT"
                    OBVIOUS
                <5> QED BY <4>4, <4>5, <5>1 DEF Grounded
            <4> QED BY <4>4, <4>5, <4>6 DEF Grounded, IInv, HandlersActOnFacts
        <3> QED BY <3>1, <3>2
    <2> QED BY <2>1, <2>2
<1> QED BY Invariance, <1>1, <1>2, PTL DEF Spec

\* Nothing is signed in the future, and an entry lasts as long as the tokens it cut off.
EntriesOutlast ==
    \A s \in Session :
        /\ \A m \in access[s] : m <= clock
        /\ \A m \in cut[s] : m + AccessTtl <= denied[s]

LEMMA EntriesOutlastStep == IInv /\ EntriesOutlast /\ [Next]_vars => EntriesOutlast'
<1> SUFFICES ASSUME IInv, EntriesOutlast, [Next]_vars PROVE EntriesOutlast'
    OBVIOUS
<1>1. CASE UNCHANGED <<clock, denied, access, cut>>
    BY <1>1 DEF EntriesOutlast
<1>2. CASE Tick
    BY <1>2 DEF Tick, EntriesOutlast, IInv, TypeOK
<1>3. ASSUME NEW r \in Request, Sign(r) PROVE EntriesOutlast'
    BY <1>3 DEF Sign, EntriesOutlast, IInv, TypeOK
<1>4. ASSUME NEW r \in Request, Deny(r) PROVE EntriesOutlast'
    <2> DEFINE s == req[r].session
    <2>1. s \in Session /\ clock \in Nat /\ \A t \in Session : access[t] \subseteq Nat
        <3>1. req[r].stage = "deny"
            BY <1>4 DEF Deny
        <3>2. s \in Session
            BY <3>1, ActingFacts DEF IInv
        <3> QED BY <3>2 DEF IInv, TypeOK
    <2>2. denied'[s] = clock + AccessTtl /\ cut'[s] = access[s] /\ UNCHANGED <<clock, access>>
          /\ \A t \in Session \ {s} : denied'[t] = denied[t] /\ cut'[t] = cut[t]
        BY <1>4, <2>1 DEF Deny, DenylistTtl, IInv, TypeOK
    <2> HIDE DEF s
    <2> QED BY <2>1, <2>2 DEF EntriesOutlast
<1>5. ASSUME NEW r \in Request,
             Arrive(r) \/ Fail(r) \/ (Handler(r) /\ ~Sign(r) /\ ~Deny(r))
      PROVE  UNCHANGED <<clock, denied, access, cut>>
    BY <1>5 DEF Arrive, OpenSession, BeginRotate, BeginLogout, BeginRevokeOne, Fail, Handler,
        IssueFirst, FindToken, Decide, FindSuccessor, Mint, MintRefused, RevokeFamily, RevokeOne
<1>6. ASSUME NEW u \in User, ResetPassword(u) PROVE UNCHANGED <<clock, denied, access, cut>>
    BY <1>6 DEF ResetPassword
<1>7. CASE UNCHANGED vars
    BY <1>1, <1>7 DEF vars
<1> QED BY <1>1, <1>2, <1>3, <1>4, <1>5, <1>6, <1>7 DEF Next

\* An access token that existed when its family was denied is never accepted again.
THEOREM DeniedForGood == Spec => []DenialIsForGood
<1>1. Init => EntriesOutlast
    BY DEF Init, EntriesOutlast
<1>2. IInv /\ EntriesOutlast => DenialIsForGood
    <2> SUFFICES ASSUME IInv, EntriesOutlast, NEW s \in Session, NEW m \in cut[s],
                        Accepted(s, m)
                 PROVE  FALSE
        BY DEF DenialIsForGood
    <2>1. clock \in Nat /\ denied[s] \in Nat /\ m \in Nat
        BY DEF IInv, TypeOK
    <2> QED BY <2>1 DEF EntriesOutlast, Accepted, Denied
<1> QED BY Invariance, EntriesOutlastStep, <1>1, <1>2, PTL DEF Spec

-----------------------------------------------------------------------------
(* The handlers implement the token family                                 *)

Verdict ==
    [s \in Session |-> IF session[s].status = "REVOKED" THEN session[s].reason ELSE session[s].status]
SpentGens == [s \in Session |-> {g \in Gen : Exists(s, g) /\ ~Live(s, g)}]
LiveGens  == [s \in Session |-> {g \in Gen : Live(s, g)}]

\* A write of revocations is the family's Revoke.
LEMMA RevokeRefines ==
    ASSUME IInv, NEW chosen \in SUBSET Session, NEW why \in Reason,
           session' = RevokeWhereActive(chosen, why), token' = token
    PROVE  Family!Revoke(chosen, why)
<1>1. ASSUME NEW s \in Session
      PROVE  (IF session'[s].status = "REVOKED" THEN session'[s].reason ELSE session'[s].status)
               = IF s \in chosen /\ Verdict[s] = "ACTIVE" THEN why ELSE Verdict[s]
    <2>1. session[s] \in SessionRow
            /\ ((session[s].status = "REVOKED") <=> (session[s].reason # NULL))
        BY DEF IInv, TypeOK
    <2>2. "ACTIVE" \notin Reason
        BY DEF Reason
    <2>3. CASE s \in chosen /\ session[s].status = "ACTIVE"
        <3>1. session'[s].status = "REVOKED" /\ session'[s].reason = why
            BY <2>3, <2>1 DEF RevokeWhereActive, SessionRow
        <3> QED BY <2>3, <3>1 DEF Verdict
    <2>4. CASE ~(s \in chosen /\ session[s].status = "ACTIVE")
        <3>1. session'[s] = session[s]
            BY <2>4 DEF RevokeWhereActive
        <3> QED BY <2>1, <2>2, <2>4, <3>1 DEF Verdict, SessionRow
    <2> QED BY <2>3, <2>4
<1>2. UNCHANGED <<SpentGens, LiveGens>>
    BY DEF SpentGens, LiveGens, Live, Exists
<1> QED BY <1>1, <1>2 DEF Family!Revoke, Verdict, SpentGens, LiveGens

\* A rotation is the family's Rotate.
LEMMA MintRefines ==
    ASSUME IInv, NEW r \in Request, Mint(r)
    PROVE  Family!Rotate(req[r].session, req[r].gen) /\ req[r].gen \in LiveGens[req[r].session]
<1> DEFINE s == req[r].session
           g == req[r].gen
<1>1. /\ s \in Session /\ g \in Gen /\ g + 1 \in Gen /\ Live(s, g) /\ ~Exists(s, g + 1)
      /\ \A t \in Session : \A h \in Gen :
            t # s \/ h \notin {g, g + 1} => token'[t][h] = token[t][h]
    BY MintFacts
<1>2. token'[s][g + 1] # NULL /\ token'[s][g + 1].usedAt = NULL
    <2>1. token'[s][g + 1] = NewGeneration(req[r].now) /\ req[r].now \in Nat
        BY MintFacts
    <2> QED BY <2>1, NewGenerationType
<1>3. token'[s][g] # NULL /\ token'[s][g].usedAt # NULL
    <2>1. /\ token'[s][g] = [token[s][g] EXCEPT !.usedAt = req[r].now, !.next = g + 1]
          /\ token[s][g] \in TokenRow /\ req[r].now \in Nat
        BY MintFacts
    <2>2. token'[s][g] \in TokenRow /\ token'[s][g].usedAt = req[r].now
        BY <1>1, <2>1 DEF TokenRow
    <2> QED BY <2>1, <2>2
<1>4. ASSUME NEW h \in Gen, Exists(s, h), h # g PROVE h < g /\ ~Live(s, h)
    <2>1. CASE g < h
        BY <1>1, <1>4, <2>1 DEF IInv, UnbrokenChain
    <2>2. CASE h < g
        <3>1. Exists(s, g) => \A k \in Gen : k < g => Exists(s, k) /\ ~Live(s, k)
            BY <1>1 DEF IInv, UnbrokenChain
        <3> QED BY <1>1, <2>2, <3>1 DEF Live
    <2> QED BY <1>1, <1>4, <2>1, <2>2 DEF Gen
<1> HIDE DEF s, g
<1>5. g \in Nat /\ g # g + 1
    BY <1>1 DEF Gen
<1>6. LiveGens[s] = {g}
    BY <1>1, <1>4 DEF LiveGens, Live
<1>7. LiveGens' = [LiveGens EXCEPT ![s] = {g + 1}]
    <2>1. ASSUME NEW t \in Session
          PROVE  {h \in Gen : Live(t, h)'} = IF t = s THEN {g + 1} ELSE {h \in Gen : Live(t, h)}
        <3>1. CASE t = s
            BY <1>1, <1>2, <1>3, <1>4, <1>5, <3>1 DEF Live, Exists
        <3>2. CASE t # s
            BY <1>1, <3>2 DEF Live, Exists
        <3> QED BY <3>1, <3>2
    <2> QED BY <1>1, <2>1 DEF LiveGens
<1>8. SpentGens' = [SpentGens EXCEPT ![s] = @ \union {g}]
    <2>1. ASSUME NEW t \in Session
          PROVE  {h \in Gen : Exists(t, h)' /\ ~Live(t, h)'}
                   = IF t = s THEN SpentGens[t] \union {g} ELSE SpentGens[t]
        <3>1. CASE t = s
            BY <1>1, <1>2, <1>3, <1>4, <1>5, <3>1 DEF Live, Exists, SpentGens
        <3>2. CASE t # s
            BY <1>1, <3>2 DEF Live, Exists, SpentGens
        <3> QED BY <3>1, <3>2
    <2> QED BY <1>1, <2>1 DEF SpentGens
<1>9. UNCHANGED Verdict
    BY DEF Mint, Verdict
<1> QED BY <1>1, <1>6, <1>7, <1>8, <1>9 DEF Family!Rotate, Verdict, SpentGens, LiveGens, s, g

\* The first generation is the family's First.
LEMMA IssueFirstRefines ==
    ASSUME IInv, NEW r \in Request, IssueFirst(r)
    PROVE  Family!First(req[r].session)
<1> DEFINE s == req[r].session
<1>1. /\ s \in Session /\ 1 \in Gen /\ (\A h \in Gen : ~Exists(s, h))
      /\ session[s].status # "NONE"
      /\ \A t \in Session : \A h \in Gen : t # s \/ h # 1 => token'[t][h] = token[t][h]
    BY IssueFirstFacts, ActingFacts DEF IInv, IssueFirst
<1>2. token'[s][1] # NULL /\ token'[s][1].usedAt = NULL
    <2>1. token'[s][1] = NewGeneration(req[r].now) /\ req[r].now \in Nat
        BY IssueFirstFacts
    <2> QED BY <2>1, NewGenerationType
<1> HIDE DEF s
<1>3. SpentGens[s] = {} /\ LiveGens[s] = {}
    BY <1>1 DEF SpentGens, LiveGens, Live
<1>4. LiveGens' = [LiveGens EXCEPT ![s] = {1}]
    <2>1. ASSUME NEW t \in Session
          PROVE  {h \in Gen : Live(t, h)'} = IF t = s THEN {1} ELSE {h \in Gen : Live(t, h)}
        BY <1>1, <1>2 DEF Live, Exists
    <2> QED BY <1>1, <2>1 DEF LiveGens
<1>5. UNCHANGED SpentGens
    <2>1. ASSUME NEW t \in Session, NEW h \in Gen
          PROVE  (Exists(t, h)' /\ ~Live(t, h)') <=> (Exists(t, h) /\ ~Live(t, h))
        <3>1. CASE t = s /\ h = 1
            BY <1>1, <1>2, <3>1 DEF Live, Exists
        <3>2. CASE ~(t = s /\ h = 1)
            BY <1>1, <3>2 DEF Live, Exists
        <3> QED BY <3>1, <3>2
    <2> QED BY <2>1 DEF SpentGens
<1>6. Verdict[s] # "NONE" /\ UNCHANGED Verdict
    <2>1. session[s].status = "REVOKED" => session[s].reason \in Reason /\ "NONE" \notin Reason
        BY <1>1 DEF IInv, TypeOK, SessionRow, Reason
    <2> QED BY <1>1, <2>1 DEF IssueFirst, Verdict
<1> QED BY <1>1, <1>3, <1>4, <1>5, <1>6 DEF Family!First, Verdict, SpentGens, LiveGens, s

\* Opening a session is the family's Open.
LEMMA OpenRefines ==
    ASSUME IInv, NEW r \in Request, NEW s \in Session, OpenSession(r, s)
    PROVE  Family!Open(s)
<1>1. Verdict[s] = "NONE"
    BY DEF OpenSession, Verdict
<1>2. Verdict' = [Verdict EXCEPT ![s] = "ACTIVE"]
    BY DEF OpenSession, Verdict, IInv, TypeOK
<1>3. UNCHANGED <<SpentGens, LiveGens>>
    BY DEF OpenSession, SpentGens, LiveGens, Live, Exists
<1> QED BY <1>1, <1>2, <1>3 DEF Family!Open, Verdict, SpentGens, LiveGens

\* Every behaviour of the handlers is one of the abstract token family.
THEOREM HandlersImplementTokenFamily == Spec => ImplementsTokenFamily
<1>1. Init => Family!Init
    BY DEF Init, Family!Init, Exists, Live
<1>2. IInv /\ [Next]_vars => [Family!Next]_Family!vars
    <2> SUFFICES ASSUME IInv, [Next]_vars PROVE [Family!Next]_Family!vars
        OBVIOUS
    <2>1. CASE UNCHANGED <<session, token>>
        BY <2>1 DEF Family!vars, Exists, Live
    <2>2. ASSUME NEW r \in Request, NEW s \in Session, OpenSession(r, s) PROVE Family!Next
        BY <2>2, OpenRefines DEF Family!Next
    <2>3. ASSUME NEW r \in Request, IssueFirst(r) PROVE Family!Next
        BY <2>3, IssueFirstRefines, IssueFirstFacts DEF Family!Next
    <2>4. ASSUME NEW r \in Request, Mint(r) PROVE Family!Next
        <3>1. req[r].session \in Session
            BY <2>4, MintFacts
        <3> QED BY <2>4, <3>1, MintRefines DEF Family!Next, LiveGens
    <2>5. ASSUME NEW r \in Request, RevokeFamily(r) \/ RevokeOne(r) PROVE Family!Next
        <3>1. req[r].session \in Session /\ req[r].reason \in Reason
            BY <2>5, RevokingFacts DEF IInv
        <3>2. session' = RevokeWhereActive({req[r].session}, req[r].reason) /\ token' = token
            BY <2>5 DEF RevokeFamily, RevokeOne
        <3> QED BY <3>1, <3>2, RevokeRefines DEF Family!Next
    <2>6. ASSUME NEW u \in User, ResetPassword(u) PROVE Family!Next
        <3>1. "PASSWORD_RESET" \in Reason /\ {s \in Session : Owner[s] = u} \in SUBSET Session
            BY DEF Reason
        <3> QED BY <2>6, <3>1, RevokeRefines DEF ResetPassword, Family!Next
    <2>7. ASSUME NEW r \in Request,
                 \/ Fail(r) \/ Sign(r) \/ FindToken(r) \/ Decide(r) \/ FindSuccessor(r)
                 \/ MintRefused(r) \/ Deny(r)
          PROVE  UNCHANGED <<session, token>>
        BY <2>7 DEF Fail, Sign, FindToken, Decide, FindSuccessor, MintRefused, Deny
    <2>8. ASSUME NEW r \in Request, NEW s \in Session, NEW g \in Gen,
                 BeginRotate(r, s, g) \/ BeginLogout(r, s, g)
          PROVE  UNCHANGED <<session, token>>
        BY <2>8 DEF BeginRotate, BeginLogout
    <2>9. ASSUME NEW r \in Request, NEW s \in Session, NEW u \in User, BeginRevokeOne(r, s, u)
          PROVE  UNCHANGED <<session, token>>
        BY <2>9 DEF BeginRevokeOne
    <2>10. CASE Tick \/ UNCHANGED vars
        BY <2>1, <2>10 DEF Tick, vars
    <2> QED BY <2>1, <2>2, <2>3, <2>4, <2>5, <2>6, <2>7, <2>8, <2>9, <2>10 DEF Next, Arrive, Handler
<1> QED BY Invariance, <1>1, <1>2, PTL DEF Spec, ImplementsTokenFamily, Family!Spec

=============================================================================
