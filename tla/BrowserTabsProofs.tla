------------------------- MODULE BrowserTabsProofs -------------------------
(***************************************************************************)
(* What one browser keeps in front of the server, for any number of        *)
(* requests under way, any lifetimes and any bounds.                       *)
(*                                                                         *)
(* Any number of tabs only asks the server what a client may ask, so all   *)
(* that is proved of RefreshSession holds behind them.  That no tab is     *)
(* taken for a thief needs more: one tab, and no page left while it was    *)
(* refreshing.  Then, while its session is active, the cookie is the       *)
(* generation that rotates, or the one refresh under way has rotated it    *)
(* and brings its successor.                                               *)
(***************************************************************************)
EXTENDS BrowserTabs, RefreshSessionProofs

USE OwnerAssumption, NullAssumption, TtlAssumption, BoundsAssumption,
    FamilyAssumption, TabAssumption

\* The shared promise is the tab's: two tabs have two.
OneTab == \A t, u \in Tab : t = u

Theft == "TOKEN_REUSE_DETECTED"

Fetches == [tab : Tab \cup {NULL}, route : Route, answer : Answered, gen : 0 .. MaxGen]

TabTypes ==
    /\ cookie \in 0 .. MaxGen
    /\ fetch \in [Request -> Fetches]
    /\ signedIn \subseteq Tab /\ calling \subseteq Tab /\ overtaken \subseteq Tab
    /\ screen \in [Tab -> Screen]

\* The stages of the handler behind each route.
StagesOf(route) ==
    CASE route = "login"   -> {"issueFirst", "sign"}
      [] route = "refresh" -> {"find", "found", "successor", "mint", "sign", "revokeFamily", "deny"}
      [] route = "logout"  -> {"revokeFamily", "deny"}
      [] route = "revoke"  -> {"revokeOne", "deny"}

\* A handler is at work for what is sent and not answered, and answers as its route does, or
\* for a page that was left.
Served(r) ==
    /\ ~Sent(r) => fetch[r] = Unused /\ (req[r] = Idle \/ req[r].session = family)
    /\ Sent(r) => IF fetch[r].answer = "pending"
                  THEN req[r].session = family /\ req[r].stage \in StagesOf(fetch[r].route)
                  ELSE req[r] = Idle
    /\ fetch[r].answer = "issued" => fetch[r].route \in {"login", "refresh"} /\ fetch[r].gen \in Gen
    /\ fetch[r].answer = "refused" => fetch[r].route = "refresh"
    /\ fetch[r].answer = "done" =>
           fetch[r].route \in {"logout", "revoke"} /\ session[family].status = "REVOKED"

\* For any number of tabs: the dashboard is over a token, and a page that loads waits for one.
ScreensHold ==
    \A t \in Tab :
        /\ screen[t] = "AUTHENTICATED" => t \in signedIn
        /\ screen[t] = "LOADING" => Awaits(t, "refresh")

\* A tab without a page waits for nothing.
ClosedIsQuiet ==
    \A t \in Tab : screen[t] = "CLOSED" =>
        t \notin calling /\ t \notin signedIn /\ \A r \in Request : fetch[r].tab # t

TabsInv == TabTypes /\ (\A r \in Request : Served(r)) /\ ScreensHold /\ ClosedIsQuiet

-----------------------------------------------------------------------------
Refreshing(r) == Sent(r) /\ fetch[r].route = "refresh"

\* The refresh has its successor, and the cookie jar has not.
Rotated(r) == Refreshing(r) /\ (req[r].stage = "sign" \/ fetch[r].answer = "issued")

OneRefresh == \A r, q \in Request : Refreshing(r) /\ Refreshing(q) => r = q

Unaccused == session[family].reason # "TOKEN_REUSE_DETECTED"

\* What goes on for a page that was left, unless it was refreshing.
LeftStages == {"idle", "issueFirst", "sign", "revokeFamily", "revokeOne", "deny"}

NoAlarm ==
    /\ Unaccused
    /\ \A r \in Request :
          /\ req[r].reason # Theft
          /\ Refreshing(r) => req[r].stage \in {"idle", "find", "found", "mint", "sign"}
          /\ ~Sent(r) => req[r].stage \in LeftStages

\* Before anybody has signed in, or when the page that did was left before it heard of it:
\* nothing but a page that loads and will be refused.
BeforeSignIn ==
    /\ cookie = 0 /\ signedIn = {} /\ calling = {}
    /\ \A t \in Tab : screen[t] # "AUTHENTICATED"
    /\ \A r \in Request : Sent(r) =>
          Refreshing(r) /\ fetch[r].answer = "refused" /\ screen[fetch[r].tab] = "LOADING"

\* The session is open and the tab has not heard of it.
SigningIn ==
    /\ signedIn = {} /\ calling = {} /\ \A t \in Tab : screen[t] = "UNAUTHENTICATED"
    /\ \E r \in Request :
          /\ Sent(r) /\ fetch[r].route = "login"
          /\ \A q \in Request \ {r} : ~Sent(q) /\ req[q].stage = "idle"
          /\ req[r].stage # "issueFirst" => Live(family, 1)
          /\ req[r].stage = "sign" => req[r].gen = 0
          /\ fetch[r].answer = "issued" => fetch[r].gen = 1

\* What a refresh under way will come to, told from the generation in the jar.
Carries(r) ==
    LET q == req[r] IN
    /\ q.stage # "idle" => q.presented = cookie /\ q.now <= clock
    /\ q.stage = "found" => q.seen.usedAt = NULL
    /\ q.stage \in {"mint", "sign"} => q.gen = cookie
    /\ fetch[r].answer = "issued" => fetch[r].gen = cookie + 1
    /\ fetch[r].answer = "refused" => CookieExpired

SignedIn ==
    /\ \A r \in Request : IF Sent(r) THEN fetch[r].route # "login"
                          ELSE req[r].stage \in {"idle", "revokeFamily", "revokeOne", "deny"}
    /\ \A r \in Request : Refreshing(r) => Carries(r)
    /\ IF \E r \in Request : Rotated(r) THEN Live(family, cookie + 1) ELSE Live(family, cookie)
    /\ \A t \in Tab : screen[t] = "UNAUTHENTICATED" =>
          /\ CookieExpired
          /\ \A r \in Request : Refreshing(r) =>
                /\ req[r].stage \in {"idle", "find", "found"} /\ fetch[r].answer # "issued"
                /\ req[r].stage # "idle" => token[family][cookie].expiresAt <= req[r].now

\* What holds of the one tab, by the state of its session; once it is revoked, little matters.
Follows ==
    /\ session[family].status = "NONE" => BeforeSignIn
    /\ session[family].status = "ACTIVE" =>
          IF cookie = 0 THEN SigningIn \/ BeforeSignIn ELSE SignedIn

OneTabInv == OneRefresh /\ NoAlarm /\ Follows

\* A page left while it was refreshing takes away the answer, and with it all of this.
OneTabKept == overtaken = {} => OneTabInv

-----------------------------------------------------------------------------
(* What a step of the browser is                                           *)

LEMMA ServerStands == IInv /\ [Next]_vars => IInv'
BY TypeStep, ChainStep, FactsStep DEF IInv

\* A tab sends a request, and a handler takes it up unless there is no cookie to refresh with.
SendsOne(t, r, route, answer) ==
    /\ fetch[r] = Unused
    /\ fetch' = [fetch EXCEPT ![r] = [tab |-> t, route |-> route, answer |-> answer, gen |-> 0]]
    /\ \/ answer = "refused" /\ route = "refresh" /\ cookie = 0 /\ req[r] = Idle /\ UNCHANGED vars
       \/ /\ answer = "pending"
          /\ \/ route = "login" /\ OpenSession(r, family)
             \/ route = "refresh" /\ cookie \in 1 .. MaxGen - 1 /\ BeginRotate(r, family, cookie)
             \/ route = "logout" /\ cookie \in Gen /\ BeginLogout(r, family, cookie)
             \/ route = "revoke" /\ BeginRevokeOne(r, family, Owner[family])
    /\ UNCHANGED cookie

LEMMA UnusedBecomes ==
    ASSUME NEW t \in Tab, NEW route \in Route, NEW answer \in Answered
    PROVE  /\ [Unused EXCEPT !.tab = t, !.route = route]
                 = [tab |-> t, route |-> route, answer |-> "pending", gen |-> 0]
           /\ [Unused EXCEPT !.tab = t, !.route = route, !.answer = answer]
                 = [tab |-> t, route |-> route, answer |-> answer, gen |-> 0]
<1> DEFINE x == [Unused EXCEPT !.tab = t, !.route = route]
           y == [Unused EXCEPT !.tab = t, !.route = route, !.answer = answer]
<1>1. Unused \in Fetches /\ Unused.answer = "pending" /\ Unused.gen = 0
  BY DEF Unused, Fetches, Route, Answered
<1>2. /\ x \in Fetches /\ x.tab = t /\ x.route = route /\ x.answer = "pending" /\ x.gen = 0
      /\ y \in Fetches /\ y.tab = t /\ y.route = route /\ y.answer = answer /\ y.gen = 0
  BY <1>1 DEF Fetches
<1>3. \A f \in Fetches : f = [tab |-> f.tab, route |-> f.route, answer |-> f.answer, gen |-> f.gen]
  BY DEF Fetches
<1> HIDE DEF x, y
<1>4. /\ x = [tab |-> t, route |-> route, answer |-> "pending", gen |-> 0]
      /\ y = [tab |-> t, route |-> route, answer |-> answer, gen |-> 0]
  BY <1>2, <1>3
<1>5. QED
  BY <1>4 DEF x, y

LEMMA TabsSend ==
    ASSUME TabTypes, NEW t \in Tab, NEW r \in Request
    PROVE  /\ Login(t, r) => SendsOne(t, r, "login", "pending")
           /\ Refresh(t, r) \/ Restore(t, r) =>
                 \E answer \in {"pending", "refused"} : SendsOne(t, r, "refresh", answer)
           /\ Logout(t, r) => SendsOne(t, r, "logout", "pending")
           /\ Revoke(t, r) => SendsOne(t, r, "revoke", "pending")
<1>1. ASSUME NEW route \in Route, NEW answer \in Answered
      PROVE  [Unused EXCEPT !.tab = t, !.route = route, !.answer = answer]
                = [tab |-> t, route |-> route, answer |-> answer, gen |-> 0]
  BY UnusedBecomes
<1>a. ASSUME NEW route \in Route
      PROVE  [Unused EXCEPT !.tab = t, !.route = route]
                = [tab |-> t, route |-> route, answer |-> "pending", gen |-> 0]
  <2>1. "pending" \in Answered
    BY DEF Answered
  <2>2. QED
    BY <2>1, UnusedBecomes
<1>2. cookie \in 0 .. MaxGen /\ MaxGen \in Nat
  BY DEF TabTypes
<1>3. ASSUME NEW route \in Route, Send(t, r, route)
      PROVE  /\ fetch[r] = Unused /\ UNCHANGED cookie
             /\ fetch' = [fetch EXCEPT ![r] =
                            [tab |-> t, route |-> route, answer |-> "pending", gen |-> 0]]
  BY <1>a, <1>3 DEF Send
<1>4. {"login", "refresh", "logout", "revoke"} = Route
  BY DEF Route
<1>5. Login(t, r) => SendsOne(t, r, "login", "pending")
  BY <1>3, <1>4 DEF Login, SendsOne
<1>6. Logout(t, r) => SendsOne(t, r, "logout", "pending")
  BY <1>2, <1>3, <1>4 DEF Logout, SendsOne, Gen
<1>7. Revoke(t, r) => SendsOne(t, r, "revoke", "pending")
  BY <1>3, <1>4 DEF Revoke, SendsOne
<1>8. ASSUME Refresh(t, r)
      PROVE  \E answer \in {"pending", "refused"} : SendsOne(t, r, "refresh", answer)
  <2>1. CASE cookie \in 1 .. (MaxGen - 2) /\ BeginRotate(r, family, cookie) /\ Send(t, r, "refresh")
    <3>1. SendsOne(t, r, "refresh", "pending")
      <4>1. cookie \in 1 .. (MaxGen - 1)
        BY <1>2, <2>1
      <4>2. QED
        BY <1>3, <1>4, <2>1, <4>1 DEF SendsOne
    <3>2. QED
      BY <3>1
  <2>2. CASE cookie = 0 /\ RefuseBare(t, r)
    <3>1. SendsOne(t, r, "refresh", "refused")
      <4>1. "refused" \in Answered
        BY DEF Answered
      <4>2. QED
        BY <1>1, <1>4, <2>2, <4>1 DEF SendsOne, RefuseBare, vars
    <3>2. QED
      BY <3>1
  <2>3. QED
    BY <1>8, <2>1, <2>2 DEF Refresh
<1>9. ASSUME Restore(t, r)
      PROVE  \E answer \in {"pending", "refused"} : SendsOne(t, r, "refresh", answer)
  <2> DEFINE answer == IF cookie = 0 THEN "refused" ELSE "pending"
  <2>1. answer \in Answered
    BY DEF Answered
  <2>2. fetch[r] = Unused /\ req[r] = Idle /\ UNCHANGED cookie /\ cookie + 1 < MaxGen
        /\ fetch' = [fetch EXCEPT ![r] = [tab |-> t, route |-> "refresh", answer |-> answer, gen |-> 0]]
    BY <1>1, <1>4, <1>9, <2>1 DEF Restore
  <2>3. IF cookie = 0 THEN UNCHANGED vars ELSE BeginRotate(r, family, cookie)
    BY <1>9 DEF Restore
  <2>4. SendsOne(t, r, "refresh", answer)
    <3>1. CASE cookie = 0
      BY <2>2, <2>3, <3>1 DEF SendsOne
    <3>2. CASE cookie # 0
      BY <1>2, <2>2, <2>3, <3>2 DEF SendsOne
    <3>3. QED
      BY <3>1, <3>2
  <2>5. QED
    BY <2>4
<1>10. QED
  BY <1>5, <1>6, <1>7, <1>8, <1>9

\* Whatever the tabs do, the server sees a request it may see, or nothing.
LEMMA TabsOnlyAskStep == ASSUME TabTypes, [BrowserNext]_allVars PROVE [Next]_vars
<1>1. ASSUME NEW t \in Tab, NEW r \in Request, NEW route, NEW answer, SendsOne(t, r, route, answer)
      PROVE  [Next]_vars
  <2>1. cookie \in 1 .. MaxGen - 1 => cookie \in Gen
    BY DEF Gen
  <2>2. family \in Session /\ Owner[family] \in User
    BY FamilyAssumption
  <2>3. UNCHANGED vars \/ Arrive(r)
    BY <1>1, <2>1, <2>2 DEF SendsOne, Arrive
  <2>4. QED
    BY <2>3 DEF Next
<1>2. ASSUME NEW t \in Tab, NEW r \in Request,
             Login(t, r) \/ Refresh(t, r) \/ Restore(t, r) \/ Logout(t, r) \/ Revoke(t, r)
      PROVE  [Next]_vars
  BY <1>1, <1>2, TabsSend
<1>3. ASSUME NEW r \in Request, Serve(r) PROVE [Next]_vars
  BY <1>3 DEF Serve, Next
<1>4. ASSUME NEW r \in Request, Deliver(r) PROVE [Next]_vars
  BY <1>4 DEF Deliver
<1>5. ASSUME NEW t \in Tab, Call(t) \/ CallAnswered(t) \/ Leave(t) PROVE [Next]_vars
  BY <1>5 DEF Call, CallAnswered, Leave
<1>6. CASE Tick \/ \E u \in User : ResetPassword(u)
  BY <1>6 DEF Next
<1>7. CASE UNCHANGED allVars
  BY <1>7 DEF allVars, vars
<1>8. QED
  BY <1>2, <1>3, <1>4, <1>5, <1>6, <1>7 DEF BrowserNext

-----------------------------------------------------------------------------
(* What a handler of a tab's request does                                  *)

\* The handler's record, one awaited statement later.
LEMMA HandlerMoves ==
    ASSUME IInv, NEW r \in Request, Handler(r)
    PROVE  LET q == req[r]
               n == req'[r]
           IN  \/ q.stage = "issueFirst" /\ IssueFirst(r) /\ n = [q EXCEPT !.stage = "sign"]
               \/ q.stage = "sign" /\ n = Idle /\ UNCHANGED <<session, token>>
               \/ /\ q.stage = "find" /\ UNCHANGED <<session, token>>
                  /\ n = [q EXCEPT !.stage = "found", !.seen = token[q.session][q.presented]]
               \/ q.stage = "found" /\ Decide(r) /\ UNCHANGED <<session, token>>
               \/ /\ q.stage = "successor" /\ UNCHANGED <<session, token>>
                  /\ n \in {Idle, [q EXCEPT !.stage = "mint"]}
               \/ q.stage = "mint" /\ Mint(r) /\ n = [q EXCEPT !.stage = "sign"] /\ UNCHANGED session
               \/ /\ q.stage = "mint" /\ n = Idle /\ UNCHANGED <<session, token>>
                  /\ MintConflict(q.session, q.gen, q.now)
               \/ /\ q.stage = "revokeFamily" /\ RevokeFamily(r) /\ UNCHANGED token
                  /\ n = [q EXCEPT !.stage = "deny"]
               \/ /\ q.stage = "revokeOne" /\ RevokeOne(r) /\ UNCHANGED token
                  /\ n \in {Idle, [q EXCEPT !.stage = "deny"]}
               \/ q.stage = "deny" /\ n = Idle /\ UNCHANGED <<session, token>>
<1>1. /\ \A stage : Goto(r, stage) => req'[r] = [req[r] EXCEPT !.stage = stage]
      /\ Answer(r) => req'[r] = Idle
  BY DEF Goto, Answer, IInv, TypeOK
<1>2. CASE IssueFirst(r)
  BY <1>1, <1>2 DEF IssueFirst
<1>3. CASE Sign(r)
  BY <1>1, <1>3 DEF Sign
<1>4. CASE FindToken(r)
  BY <1>4 DEF FindToken, IInv, TypeOK
<1>5. CASE Decide(r)
  BY <1>5 DEF Decide
<1>6. CASE FindSuccessor(r)
  BY <1>1, <1>6 DEF FindSuccessor
<1>7. CASE Mint(r)
  BY <1>1, <1>7 DEF Mint
<1>8. CASE MintRefused(r)
  BY <1>1, <1>8 DEF MintRefused
<1>9. CASE RevokeFamily(r)
  BY <1>1, <1>9 DEF RevokeFamily
<1>10. CASE RevokeOne(r)
  BY <1>1, <1>10 DEF RevokeOne
<1>11. CASE Deny(r)
  BY <1>1, <1>11 DEF Deny
<1>12. QED
  BY <1>2, <1>3, <1>4, <1>5, <1>6, <1>7, <1>8, <1>9, <1>10, <1>11 DEF Handler

\* The verdict on what was found, with what it leads to.
LEMMA DecisionMoves ==
    ASSUME IInv, NEW r \in Request, Decide(r)
    PROVE  LET q == req[r]
               n == req'[r]
               active == session[q.session].status = "ACTIVE"
           IN  /\ q.stage = "found" /\ q.seen \in TokenRow
               /\ \/ n = Idle /\ (active => q.seen.expiresAt <= q.now)
                  \/ /\ n.session = q.session /\ n.presented = q.presented /\ n.now = q.now
                     /\ active
                     /\ \/ /\ q.seen.usedAt = NULL /\ q.seen.expiresAt > q.now
                           /\ n.stage = "mint" /\ n.gen = q.presented /\ n.reason = q.reason
                        \/ q.seen.usedAt # NULL /\ n.stage \in {"successor", "revokeFamily"}
<1> DEFINE q == req[r]
           n == req'[r]
           active == session[q.session].status = "ACTIVE"
           d == Decision(q.seen, active, q.now)
           moved(stage, gen) == [q EXCEPT !.stage = stage, !.seen = NULL, !.gen = gen]
<1>1. q.stage = "found"
  BY DEF Decide
<1>2. Grounded(r) /\ q \in RequestState
  BY <1>1, ActingFacts DEF IInv
<1>3. q.seen \in TokenRow /\ q.seen.expiresAt \in Nat /\ q.now \in Nat
  BY <1>1, <1>2 DEF Grounded, TokenRow, RequestState
<1>4. /\ d = "EXPIRED" => (active => q.seen.expiresAt <= q.now)
      /\ d = "ROTATE" => active /\ q.seen.usedAt = NULL /\ q.seen.expiresAt > q.now
      /\ d \in {"REPLAY_WITHIN_GRACE", "REUSE_DETECTED"} => active /\ q.seen.usedAt # NULL
  BY <1>3 DEF Decision
<1>5. req \in [Request -> RequestState]
  BY DEF IInv, TypeOK
<1>6. \/ d = "EXPIRED" /\ n = Idle
      \/ d = "ROTATE" /\ n = moved("mint", q.presented)
      \/ /\ d = "REPLAY_WITHIN_GRACE"
         /\ n = moved("successor", q.seen.next)
      \/ /\ d = "REUSE_DETECTED"
         /\ n = [q EXCEPT !.stage = "revokeFamily", !.seen = NULL, !.reason = Theft]
  BY <1>5 DEF Decide, Answer, Theft
<1> HIDE DEF d, active, n, q
<1>7. ASSUME NEW stage, NEW gen
      PROVE  /\ moved(stage, gen).stage = stage /\ moved(stage, gen).gen = gen
             /\ moved(stage, gen).session = q.session
             /\ moved(stage, gen).presented = q.presented
             /\ moved(stage, gen).now = q.now /\ moved(stage, gen).reason = q.reason
  BY <1>2 DEF RequestState
<1>8. LET x == [q EXCEPT !.stage = "revokeFamily", !.seen = NULL, !.reason = Theft]
      IN  /\ x.stage = "revokeFamily" /\ x.session = q.session
          /\ x.presented = q.presented /\ x.now = q.now
  BY <1>2 DEF RequestState
<1> HIDE DEF moved
<1>9. d = "ROTATE" => /\ n.stage = "mint" /\ n.gen = q.presented /\ n.reason = q.reason
                      /\ n.session = q.session /\ n.presented = q.presented /\ n.now = q.now
  BY <1>6, <1>7
<1>10. d = "REPLAY_WITHIN_GRACE" =>
          /\ n.stage = "successor"
          /\ n.session = q.session /\ n.presented = q.presented /\ n.now = q.now
  BY <1>6, <1>7
<1>11. d = "REUSE_DETECTED" =>
          /\ n.stage = "revokeFamily"
          /\ n.session = q.session /\ n.presented = q.presented /\ n.now = q.now
  BY <1>6, <1>8
<1>12. d \in {"EXPIRED", "ROTATE", "REPLAY_WITHIN_GRACE", "REUSE_DETECTED"}
       /\ (d = "EXPIRED" => n = Idle)
  BY <1>6
<1>13. \/ n = Idle /\ (active => q.seen.expiresAt <= q.now)
       \/ /\ n.session = q.session /\ n.presented = q.presented /\ n.now = q.now
          /\ active
          /\ \/ /\ q.seen.usedAt = NULL /\ q.seen.expiresAt > q.now
                /\ n.stage = "mint" /\ n.gen = q.presented /\ n.reason = q.reason
             \/ q.seen.usedAt # NULL /\ n.stage \in {"successor", "revokeFamily"}
  BY <1>4, <1>9, <1>10, <1>11, <1>12
<1>14. QED
  BY <1>1, <1>3, <1>13 DEF active, n, q

LEMMA HandlerKeepsSession ==
    ASSUME IInv, NEW r \in Request, Handler(r)
    PROVE  req'[r] = Idle \/ req'[r].session = req[r].session
<1>1. req[r] \in RequestState
  BY DEF IInv, TypeOK
<1>2. ASSUME NEW stage PROVE [req[r] EXCEPT !.stage = stage].session = req[r].session
  BY <1>1 DEF RequestState
<1>3. CASE req[r].stage = "found"
  <2>1. Decide(r)
    BY <1>3, HandlerMoves
  <2>2. QED
    BY <2>1, DecisionMoves
<1>4. CASE req[r].stage = "find"
  <2>1. req'[r] = [req[r] EXCEPT !.stage = "found",
                                 !.seen = token[req[r].session][req[r].presented]]
    BY <1>4, HandlerMoves
  <2>2. QED
    BY <1>1, <2>1 DEF RequestState
<1>5. CASE req[r].stage \notin {"find", "found"}
  <2>1. req'[r] = Idle \/ \E stage \in Stage : req'[r] = [req[r] EXCEPT !.stage = stage]
    BY <1>5, HandlerMoves DEF Stage
  <2>2. QED
    BY <1>2, <2>1
<1>6. QED
  BY <1>3, <1>4, <1>5

\* The request of a page that was left is served, and the browser does not hear of it.
LEMMA ServeForgotten ==
    ASSUME IInv, TabsInv, NEW r \in Request, Serve(r), ~Sent(r)
    PROVE  /\ Handler(r) /\ req[r] # Idle /\ req[r].stage # "idle" /\ req[r].session = family
           /\ req'[r] = Idle \/ req'[r].session = family
           /\ \A q \in Request \ {r} : req'[q] = req[q]
           /\ UNCHANGED browserVars
<1>1. Handler(r) /\ UNCHANGED browserVars
  BY DEF Serve, browserVars
<1>2. req[r].stage # "idle" /\ Idle.stage = "idle"
  BY <1>1, HandlerMoves DEF Idle
<1>3. Served(r)
  BY DEF TabsInv
<1>4. req[r] # Idle /\ req[r].session = family
  BY <1>2, <1>3 DEF Served
<1>5. req'[r] = Idle \/ req'[r].session = family
  BY <1>1, <1>4, HandlerKeepsSession
<1>6. \A q \in Request \ {r} : req'[q] = req[q]
  BY <1>1, OneHandlerMoves DEF IInv
<1>7. QED
  BY <1>1, <1>2, <1>4, <1>5, <1>6

\* A tab's request is served: its handler moves, and its answer is there once it is idle.
LEMMA ServeFacts ==
    ASSUME IInv, TabsInv, NEW r \in Request, Serve(r), Sent(r)
    PROVE  /\ Handler(r) /\ req[r] # Idle
           /\ Sent(r) /\ fetch[r].tab \in Tab /\ fetch[r].answer = "pending"
           /\ req[r].session = family /\ req[r].stage \in StagesOf(fetch[r].route)
           /\ \A q \in Request \ {r} : req'[q] = req[q] /\ fetch'[q] = fetch[q]
           /\ fetch' \in [Request -> Fetches]
           /\ fetch'[r].tab = fetch[r].tab /\ fetch'[r].route = fetch[r].route
           /\ IF req'[r] = Idle
              THEN fetch'[r].answer = AnswerOf(r).answer /\ fetch'[r].gen = AnswerOf(r).gen
              ELSE fetch'[r] = fetch[r]
           /\ UNCHANGED <<cookie, signedIn, screen, calling, overtaken>>
<1>1. /\ Handler(r) /\ UNCHANGED <<cookie, signedIn, screen, calling, overtaken>>
      /\ fetch' = IF req'[r] = Idle
                  THEN [fetch EXCEPT ![r].answer = AnswerOf(r).answer, ![r].gen = AnswerOf(r).gen]
                  ELSE fetch
  BY DEF Serve
<1>2. req[r].stage # "idle" /\ Idle.stage = "idle"
  BY <1>1, HandlerMoves DEF Idle
<1>3. Served(r) /\ fetch \in [Request -> Fetches] /\ fetch[r] \in Fetches
  BY DEF TabsInv, TabTypes
<1>4. Sent(r) /\ fetch[r].answer = "pending"
  BY <1>2, <1>3 DEF Served
<1>5. /\ req[r].session = family /\ req[r].stage \in StagesOf(fetch[r].route)
      /\ fetch[r].tab \in Tab
  BY <1>3, <1>4 DEF Served, Sent, Fetches
<1>6. AnswerOf(r).answer \in Answered /\ AnswerOf(r).gen \in 0 .. MaxGen
  <2>1. req[r].stage = "sign" => req[r].gen + 1 \in Gen
    BY <1>2, ActingFacts DEF IInv, Grounded
  <2>2. QED
    BY <2>1 DEF AnswerOf, Answered, Gen
<1>7. ASSUME NEW q \in Request \ {r} PROVE req'[q] = req[q] /\ fetch'[q] = fetch[q]
  BY <1>1, <1>3, OneHandlerMoves DEF IInv
<1>8. CASE req'[r] = Idle
  <2> DEFINE a == AnswerOf(r).answer
             g == AnswerOf(r).gen
             f == [fetch[r] EXCEPT !.answer = a, !.gen = g]
  <2>1. a \in Answered /\ g \in 0 .. MaxGen
    BY <1>6
  <2>2. fetch' = [fetch EXCEPT ![r] = f]
    BY <1>1, <1>8
  <2> HIDE DEF a, g
  <2>3. /\ f \in Fetches /\ f.tab = fetch[r].tab /\ f.route = fetch[r].route
        /\ f.answer = a /\ f.gen = g
    BY <1>3, <2>1 DEF Fetches
  <2> HIDE DEF f
  <2>4. fetch' \in [Request -> Fetches] /\ fetch'[r] = f
    BY <1>3, <2>2, <2>3
  <2>5. fetch'[r].answer = AnswerOf(r).answer /\ fetch'[r].gen = AnswerOf(r).gen
    BY <2>3, <2>4 DEF a, g
  <2>6. QED
    BY <1>1, <1>2, <1>4, <1>5, <1>7, <1>8, <2>3, <2>4, <2>5
<1>9. CASE req'[r] # Idle
  BY <1>1, <1>2, <1>3, <1>4, <1>5, <1>7, <1>9
<1>10. QED
  BY <1>8, <1>9

\* A tab's request is sent: nothing else of the tabs' requests changes.
LEMMA SendFacts ==
    ASSUME IInv, TabsInv, NEW t \in Tab, NEW r \in Request, NEW route \in Route, NEW answer,
           SendsOne(t, r, route, answer)
    PROVE  /\ answer \in Answered /\ ~Sent(r) /\ req[r] = Idle
           /\ fetch' \in [Request -> Fetches]
           /\ fetch'[r] = [tab |-> t, route |-> route, answer |-> answer, gen |-> 0]
           /\ Sent(r)'
           /\ \A q \in Request \ {r} : req'[q] = req[q] /\ fetch'[q] = fetch[q]
           /\ session # session' => route = "login" /\ OpenSession(r, family)
           /\ UNCHANGED <<clock, token, cookie>>
<1>1. answer \in Answered /\ fetch[r] = Unused
  BY DEF SendsOne, Answered
<1>2. ~Sent(r) /\ req[r] = Idle
  <2>1. ~Sent(r)
    BY <1>1 DEF Sent, Unused
  <2>2. req[r] = Idle
    BY DEF SendsOne, OpenSession, BeginRotate, BeginLogout, BeginRevokeOne
  <2>3. QED
    BY <2>1, <2>2
<1>3. fetch \in [Request -> Fetches]
  BY DEF TabsInv, TabTypes
<1>4. [tab |-> t, route |-> route, answer |-> answer, gen |-> 0] \in Fetches
  BY <1>1 DEF Fetches
<1>5. /\ fetch' \in [Request -> Fetches]
      /\ fetch'[r] = [tab |-> t, route |-> route, answer |-> answer, gen |-> 0]
      /\ \A q \in Request \ {r} : fetch'[q] = fetch[q]
  BY <1>3, <1>4 DEF SendsOne
<1>6. fetch'[r].tab = t /\ t # NULL
  BY <1>5
<1>7. \A q \in Request \ {r} : req'[q] = req[q]
  BY DEF SendsOne, vars, OpenSession, BeginRotate, BeginLogout, BeginRevokeOne, IInv, TypeOK
<1>8. /\ session # session' => route = "login" /\ OpenSession(r, family)
      /\ UNCHANGED <<clock, token, cookie>>
  BY DEF SendsOne, vars, OpenSession, BeginRotate, BeginLogout, BeginRevokeOne
<1>9. QED
  BY <1>1, <1>2, <1>5, <1>6, <1>7, <1>8 DEF Sent

\* The handler that takes it up has what the tab sent.
LEMMA SentHandler ==
    ASSUME IInv, NEW t \in Tab, NEW r \in Request, NEW route \in Route, NEW answer,
           SendsOne(t, r, route, answer)
    PROVE  IF answer = "pending"
           THEN /\ req'[r].session = family
                /\ route = "login" => req'[r].stage = "issueFirst"
                /\ route = "refresh" => /\ req'[r].stage = "find"
                                        /\ req'[r].presented = cookie /\ req'[r].now = clock
                                        /\ cookie \in 1 .. MaxGen - 1
                /\ route = "logout" => req'[r].stage = "revokeFamily"
                /\ route = "revoke" => req'[r].stage = "revokeOne"
                /\ req'[r].reason \in {NULL, "USER_SIGNED_OUT"}
           ELSE answer = "refused" /\ route = "refresh" /\ cookie = 0 /\ UNCHANGED vars
<1>1. req \in [Request -> RequestState]
  BY DEF IInv, TypeOK
<1>2. Idle \in RequestState /\ Idle.reason = NULL
  BY DEF Idle, RequestState, Stage
<1>3. ASSUME OpenSession(r, family)
      PROVE  /\ req'[r].session = family /\ req'[r].stage = "issueFirst"
             /\ req'[r].reason = NULL
  BY <1>1, <1>2, <1>3 DEF OpenSession, RequestState
<1>4. ASSUME BeginRotate(r, family, cookie)
      PROVE  /\ req'[r].session = family /\ req'[r].stage = "find" /\ req'[r].reason = NULL
             /\ req'[r].presented = cookie /\ req'[r].now = clock
  BY <1>1, <1>2, <1>4 DEF BeginRotate, RequestState
<1>5. ASSUME BeginLogout(r, family, cookie)
      PROVE  /\ req'[r].session = family /\ req'[r].stage = "revokeFamily"
             /\ req'[r].reason = "USER_SIGNED_OUT"
  BY <1>1, <1>2, <1>5 DEF BeginLogout, RequestState
<1>6. ASSUME BeginRevokeOne(r, family, Owner[family])
      PROVE  /\ req'[r].session = family /\ req'[r].stage = "revokeOne"
             /\ req'[r].reason = "USER_SIGNED_OUT"
  BY <1>1, <1>2, <1>6 DEF BeginRevokeOne, RequestState
<1>7. QED
  BY <1>3, <1>4, <1>5, <1>6 DEF SendsOne

\* A revocation of a handler leaves its session revoked, and names no theft of its own.
LEMMA RevocationShuts ==
    ASSUME IInv, NEW r \in Request, RevokeFamily(r) \/ RevokeOne(r)
    PROVE  /\ session'[req[r].session].status = "REVOKED"
           /\ \A s \in Session : session'[s] # session[s] => session'[s].reason = req[r].reason
<1>1. /\ req[r].session \in Session /\ req[r].reason \in Reason
      /\ session' = RevokeWhereActive({req[r].session}, req[r].reason)
      /\ session[req[r].session].status # "NONE"
  BY RevokingFacts, ActingFacts DEF IInv
<1>2. \A s \in Session : session[s].status \in {"NONE", "ACTIVE", "REVOKED"}
  BY DEF IInv, TypeOK, SessionRow
<1>3. TypeOK
  BY DEF IInv
<1>4. QED
  BY <1>1, <1>2, <1>3, RevokeWhereActiveFacts

-----------------------------------------------------------------------------
(* Any number of tabs                                                      *)

LEMMA ServedHandler ==
    ASSUME IInv, TabsInv, NEW r \in Request, Serve(r), Sent(r), Monotone
    PROVE  Served(r)'
<1>1. /\ Handler(r) /\ Sent(r) /\ fetch[r].answer = "pending"
      /\ req[r].session = family /\ req[r].stage \in StagesOf(fetch[r].route)
      /\ fetch'[r].tab = fetch[r].tab /\ fetch'[r].route = fetch[r].route
      /\ IF req'[r] = Idle
         THEN fetch'[r].answer = AnswerOf(r).answer /\ fetch'[r].gen = AnswerOf(r).gen
         ELSE fetch'[r] = fetch[r]
  BY ServeFacts
<1>2. Sent(r)' /\ fetch[r].route \in Route /\ req[r].stage # "idle"
  BY <1>1, HandlerMoves DEF Sent, TabsInv, TabTypes, Fetches
<1>3. Grounded(r) /\ req[r] \in RequestState
  BY <1>2, ActingFacts DEF IInv
<1>4. Idle.stage = "idle"
  BY DEF Idle
<1>5. ASSUME NEW stage \in StagesOf(fetch[r].route), req'[r].stage = stage,
             req'[r].session = family, stage # "idle"
      PROVE  Served(r)'
  <2>1. fetch'[r] = fetch[r]
    BY <1>1, <1>4, <1>5
  <2>2. QED
    BY <1>1, <1>2, <1>5, <2>1 DEF Served
<1>6. ASSUME req'[r] = Idle,
             AnswerOf(r).answer = "issued" =>
                 fetch[r].route \in {"login", "refresh"} /\ AnswerOf(r).gen \in Gen,
             AnswerOf(r).answer = "refused" => fetch[r].route = "refresh",
             AnswerOf(r).answer = "done" =>
                 fetch[r].route \in {"logout", "revoke"} /\ session'[family].status = "REVOKED"
      PROVE  Served(r)'
  <2>1. AnswerOf(r).answer # "pending"
    BY DEF AnswerOf
  <2>2. QED
    BY <1>1, <1>2, <1>6, <2>1 DEF Served
<1>7. ASSUME NEW stage \in Stage \ {"idle"}, req'[r] = [req[r] EXCEPT !.stage = stage],
             stage \in StagesOf(fetch[r].route)
      PROVE  Served(r)'
  <2>1. req'[r].stage = stage /\ req'[r].session = family
    BY <1>1, <1>3, <1>7 DEF RequestState
  <2>2. QED
    BY <1>5, <1>7, <2>1
<1>8. CASE req[r].stage = "issueFirst"
  <2>1. req'[r] = [req[r] EXCEPT !.stage = "sign"]
    BY <1>1, <1>8, HandlerMoves
  <2>2. "sign" \in StagesOf(fetch[r].route) /\ "sign" \in Stage
    BY <1>1, <1>2, <1>8 DEF StagesOf, Route, Stage
  <2>3. QED
    BY <1>7, <2>1, <2>2
<1>9. CASE req[r].stage = "sign"
  <2>1. req'[r] = Idle
    BY <1>1, <1>9, HandlerMoves
  <2>2. fetch[r].route \in {"login", "refresh"}
    BY <1>1, <1>2, <1>9 DEF StagesOf, Route
  <2>3. AnswerOf(r).answer = "issued" /\ AnswerOf(r).gen \in Gen
    BY <1>3, <1>9 DEF AnswerOf, Grounded
  <2>4. QED
    BY <1>6, <2>1, <2>2, <2>3
<1>10. CASE req[r].stage \in {"find", "found", "successor", "mint"}
  <2>1. fetch[r].route = "refresh"
    BY <1>1, <1>2, <1>10 DEF StagesOf, Route
  <2>2. CASE req'[r] = Idle
    <3>1. AnswerOf(r).answer = "refused"
      BY <1>10, <2>1 DEF AnswerOf
    <3>2. QED
      BY <1>6, <2>1, <2>2, <3>1
  <2>3. CASE req'[r] # Idle
    <3>1. /\ req'[r].stage \in {"found", "successor", "mint", "sign", "revokeFamily"}
          /\ req'[r].session = req[r].session
      <4>1. CASE req[r].stage = "found"
        <5>1. Decide(r)
          BY <1>1, <4>1, HandlerMoves
        <5>2. QED
          BY <1>3, <2>3, <5>1, DecisionMoves DEF RequestState
      <4>2. CASE req[r].stage # "found"
        BY <1>1, <1>3, <1>10, <2>3, <4>2, HandlerMoves DEF RequestState
      <4>3. QED
        BY <4>1, <4>2
    <3>2. req'[r].stage \in StagesOf(fetch[r].route)
      BY <2>1, <3>1 DEF StagesOf
    <3>3. QED
      BY <1>1, <1>5, <3>1, <3>2
  <2>4. QED
    BY <2>2, <2>3
<1>11. CASE req[r].stage \in {"revokeFamily", "revokeOne"}
  <2>1. RevokeFamily(r) \/ RevokeOne(r)
    BY <1>1, <1>11, HandlerMoves
  <2>2. session'[family].status = "REVOKED"
    BY <1>1, <2>1, RevocationShuts
  <2>3. CASE req'[r] = Idle
    <3>1. fetch[r].route = "revoke"
      <4>1. req[r].stage = "revokeOne"
        <5>1. req[r].stage = "revokeFamily" => req'[r] = [req[r] EXCEPT !.stage = "deny"]
          BY <1>1, HandlerMoves
        <5>2. req[r].stage = "revokeFamily" => req'[r].stage = "deny"
          BY <1>3, <5>1 DEF RequestState
        <5>3. QED
          BY <1>4, <1>11, <2>3, <5>2
      <4>2. QED
        BY <1>1, <1>2, <4>1 DEF StagesOf, Route
    <3>2. AnswerOf(r).answer = "done"
      BY <1>11, <3>1 DEF AnswerOf
    <3>3. QED
      BY <1>6, <2>2, <2>3, <3>1, <3>2
  <2>4. CASE req'[r] # Idle
    <3>1. req'[r] = [req[r] EXCEPT !.stage = "deny"]
      BY <1>1, <1>11, <2>4, HandlerMoves
    <3>2. "deny" \in StagesOf(fetch[r].route) /\ "deny" \in Stage
      BY <1>1, <1>2, <1>11 DEF StagesOf, Route, Stage
    <3>3. QED
      BY <1>7, <3>1, <3>2
  <2>5. QED
    BY <2>3, <2>4
<1>12. CASE req[r].stage = "deny"
  <2>1. req'[r] = Idle /\ UNCHANGED session
    BY <1>1, <1>12, HandlerMoves
  <2>2. session'[family].status = "REVOKED"
    BY <1>1, <1>3, <1>12, <2>1 DEF Grounded
  <2>3. fetch[r].route \in {"refresh", "logout", "revoke"}
    BY <1>1, <1>2, <1>12 DEF StagesOf, Route
  <2>4. AnswerOf(r).answer = IF fetch[r].route = "refresh" THEN "refused" ELSE "done"
    BY <1>12, <2>3 DEF AnswerOf
  <2>5. QED
    BY <1>6, <2>1, <2>2, <2>3, <2>4
<1>13. QED
  BY <1>1, <1>8, <1>9, <1>10, <1>11, <1>12, HandlerMoves

\* An answer arrives: its request is over, and the jar and the tab have what it brought.
LEMMA DeliverFacts ==
    ASSUME TabsInv, NEW r \in Request, Deliver(r)
    PROVE  /\ Sent(r) /\ fetch[r].tab \in Tab /\ req[r] = Idle /\ Served(r)
           /\ fetch[r].answer \in {"refused", "done", "issued"} /\ fetch[r].route \in Route
           /\ fetch' \in [Request -> Fetches] /\ fetch'[r] = Unused /\ ~Sent(r)'
           /\ \A q \in Request \ {r} : fetch'[q] = fetch[q]
           /\ screen' \in [Tab -> Screen] /\ screen'[fetch[r].tab] = ScreenAfter(r)
           /\ \A t \in Tab \ {fetch[r].tab} : screen'[t] = screen[t]
           /\ UNCHANGED <<vars, calling, overtaken>>
<1>1. Sent(r) /\ fetch[r].answer # "pending" /\ fetch \in [Request -> Fetches]
  BY DEF Deliver, Sent, TabsInv, TabTypes
<1>2. fetch[r].tab \in Tab /\ fetch[r].answer \in Answered /\ fetch[r].route \in Route
  BY <1>1 DEF Sent, Fetches
<1>3. Served(r) /\ req[r] = Idle
  BY <1>1 DEF TabsInv, Served
<1>4. Unused \in Fetches /\ Unused.tab = NULL
  BY DEF Unused, Fetches, Route, Answered
<1>5. /\ fetch' \in [Request -> Fetches] /\ fetch'[r] = Unused
      /\ \A q \in Request \ {r} : fetch'[q] = fetch[q]
      /\ UNCHANGED <<vars, calling, overtaken>>
  BY <1>1, <1>4 DEF Deliver
<1>6. ScreenAfter(r) \in Screen /\ screen \in [Tab -> Screen]
  BY <1>2 DEF ScreenAfter, Screen, TabsInv, TabTypes
<1>7. /\ screen' \in [Tab -> Screen] /\ screen'[fetch[r].tab] = ScreenAfter(r)
      /\ \A t \in Tab \ {fetch[r].tab} : screen'[t] = screen[t]
  BY <1>2, <1>6 DEF Deliver
<1>8. QED
  BY <1>1, <1>2, <1>3, <1>4, <1>5, <1>7 DEF Sent, Answered

LEMMA ServedStep ==
    ASSUME IInv, TabsInv, [BrowserNext]_allVars
    PROVE  \A q \in Request : Served(q)'
<1>1. Monotone
  BY TabsOnlyAskStep, StepIsMonotone DEF TabsInv
<1>2. session[family].status = "REVOKED" => session'[family].status = "REVOKED"
  BY <1>1 DEF Monotone
<1>3. ASSUME NEW q \in Request, req'[q] = req[q], fetch'[q] = fetch[q] PROVE Served(q)'
  BY <1>2, <1>3 DEF TabsInv, Served, Sent
<1>4. ASSUME NEW r \in Request, Serve(r), NEW q \in Request PROVE Served(q)'
  <2>1. CASE Sent(r)
    BY <1>1, <1>3, <1>4, <2>1, ServeFacts, ServedHandler
  <2>2. CASE ~Sent(r)
    <3>1. /\ req'[r] = Idle \/ req'[r].session = family
          /\ \A p \in Request \ {r} : req'[p] = req[p]
          /\ fetch' = fetch
      BY <1>4, <2>2, ServeForgotten DEF browserVars
    <3>2. Served(r)'
      <4>1. fetch[r] = Unused /\ fetch'[r] = Unused /\ ~Sent(r)'
        BY <2>2, <3>1 DEF TabsInv, Served, Sent
      <4>2. Unused.answer = "pending"
        BY DEF Unused
      <4>3. QED
        BY <3>1, <4>1, <4>2 DEF Served
    <3>3. QED
      BY <1>3, <3>1, <3>2
  <2>3. QED
    BY <2>1, <2>2
<1>5. ASSUME NEW r \in Request, Deliver(r), NEW q \in Request PROVE Served(q)'
  <2>1. /\ req[r] = Idle /\ UNCHANGED vars /\ fetch'[r] = Unused /\ ~Sent(r)'
        /\ \A p \in Request \ {r} : fetch'[p] = fetch[p]
    BY <1>5, DeliverFacts
  <2>2. CASE q = r
    BY <2>1, <2>2 DEF Served, Unused, vars
  <2>3. CASE q # r
    BY <1>3, <2>1, <2>3 DEF vars
  <2>4. QED
    BY <2>2, <2>3
<1>6. ASSUME NEW t \in Tab, NEW r \in Request, NEW route \in Route, NEW answer,
             SendsOne(t, r, route, answer), NEW q \in Request
      PROVE  Served(q)'
  <2>1. /\ fetch'[r] = [tab |-> t, route |-> route, answer |-> answer, gen |-> 0]
        /\ Sent(r)' /\ req[r] = Idle
        /\ \A p \in Request \ {r} : req'[p] = req[p] /\ fetch'[p] = fetch[p]
    BY <1>6, SendFacts
  <2>2. CASE q = r
    <3>1. fetch'[r].answer = answer /\ fetch'[r].route = route
      BY <2>1
    <3>2. CASE answer = "pending"
      <4>1. req'[r].session = family /\ req'[r].stage \in StagesOf(route)
        BY <1>6, <3>2, SentHandler DEF StagesOf, Route
      <4>2. QED
        BY <2>1, <2>2, <3>1, <3>2, <4>1 DEF Served
    <3>3. CASE answer # "pending"
      <4>1. answer = "refused" /\ route = "refresh" /\ UNCHANGED vars
        BY <1>6, <3>3, SentHandler
      <4>2. QED
        BY <2>1, <2>2, <3>1, <4>1 DEF Served, vars
    <3>4. QED
      BY <3>2, <3>3
  <2>3. CASE q # r
    BY <1>3, <2>1, <2>3
  <2>4. QED
    BY <2>2, <2>3
<1>7. ASSUME NEW t \in Tab, NEW r \in Request,
             Login(t, r) \/ Refresh(t, r) \/ Restore(t, r) \/ Logout(t, r) \/ Revoke(t, r),
             NEW q \in Request
      PROVE  Served(q)'
  <2>1. \E route \in Route, answer \in Answered : SendsOne(t, r, route, answer)
    BY <1>7, TabsSend DEF TabsInv, Route, Answered
  <2>2. QED
    BY <1>6, <2>1
<1>8. CASE UNCHANGED <<req, fetch>>
  BY <1>3, <1>8
<1>9. ASSUME NEW t \in Tab, Call(t) \/ CallAnswered(t) PROVE UNCHANGED <<req, fetch>>
  BY <1>9 DEF Call, CallAnswered, vars
<1>10. CASE (Tick \/ \E u \in User : ResetPassword(u)) /\ UNCHANGED browserVars
  BY <1>8, <1>10 DEF Tick, ResetPassword, browserVars
<1>11. CASE UNCHANGED allVars
  BY <1>8, <1>11 DEF allVars, vars
<1>12. ASSUME NEW t \in Tab, Leave(t), NEW q \in Request PROVE Served(q)'
  <2>1. req' = req /\ fetch'[q] = IF fetch[q].tab = t THEN Unused ELSE fetch[q]
    BY <1>12 DEF Leave, vars
  <2>2. CASE fetch[q].tab # t
    BY <1>3, <2>1, <2>2
  <2>3. CASE fetch[q].tab = t
    <3>1. req[q] = Idle \/ req[q].session = family
      BY <2>3 DEF TabsInv, Served, Sent
    <3>2. fetch'[q] = Unused /\ ~Sent(q)'
      BY <2>1, <2>3 DEF Sent, Unused
    <3>3. Unused.answer = "pending"
      BY DEF Unused
    <3>4. QED
      BY <2>1, <3>1, <3>2, <3>3 DEF Served
  <2>4. QED
    BY <2>2, <2>3
<1>13. QED
  BY <1>4, <1>5, <1>7, <1>8, <1>9, <1>10, <1>11, <1>12 DEF BrowserNext

LEMMA TabTypesStep ==
    ASSUME IInv, TabsInv, [BrowserNext]_allVars
    PROVE  TabTypes'
<1> USE DEF TabTypes
<1>1. TabTypes
  BY DEF TabsInv
<1>2. ASSUME NEW r \in Request, Serve(r) PROVE TabTypes'
  <2>1. CASE Sent(r)
    BY <1>1, <1>2, <2>1, ServeFacts
  <2>2. CASE ~Sent(r)
    BY <1>1, <1>2, <2>2, ServeForgotten DEF browserVars
  <2>3. QED
    BY <2>1, <2>2
<1>3. ASSUME NEW r \in Request, Deliver(r) PROVE TabTypes'
  <2>1. /\ fetch' \in [Request -> Fetches] /\ screen' \in [Tab -> Screen]
        /\ calling' = calling /\ overtaken' = overtaken
        /\ fetch[r].tab \in Tab /\ fetch[r] \in Fetches
    BY <1>1, <1>3, DeliverFacts
  <2>2. cookie' \in 0 .. MaxGen
    BY <1>1, <1>3, <2>1 DEF Deliver, Jar, Fetches
  <2>3. signedIn' \subseteq Tab
    BY <1>1, <1>3, <2>1 DEF Deliver
  <2>4. QED
    BY <1>1, <2>1, <2>2, <2>3
<1>4. ASSUME NEW t \in Tab, NEW r \in Request,
             Login(t, r) \/ Refresh(t, r) \/ Restore(t, r) \/ Logout(t, r) \/ Revoke(t, r)
      PROVE  TabTypes'
  <2>1. \E route \in Route, answer \in Answered : SendsOne(t, r, route, answer)
    BY <1>1, <1>4, TabsSend DEF Route, Answered
  <2>2. fetch' \in [Request -> Fetches] /\ cookie' = cookie
    BY <2>1, SendFacts
  <2>3. /\ signedIn' \subseteq Tab /\ calling' \subseteq Tab /\ overtaken' \subseteq Tab
        /\ screen' = screen \/ screen' = [screen EXCEPT ![t] = "LOADING"]
    BY <1>1, <1>4 DEF Login, Refresh, Restore, Logout, Revoke, Send, RefuseBare
  <2>4. QED
    BY <1>1, <2>2, <2>3 DEF Screen
<1>5. ASSUME NEW t \in Tab, Call(t) \/ CallAnswered(t) PROVE TabTypes'
  BY <1>1, <1>5 DEF Call, CallAnswered
<1>6. CASE UNCHANGED browserVars
  BY <1>1, <1>6 DEF browserVars
<1>7. UNCHANGED allVars => UNCHANGED browserVars
  BY DEF allVars, browserVars
<1>8. ASSUME NEW t \in Tab, Leave(t) PROVE TabTypes'
  <2>1. Unused \in Fetches
    BY DEF Unused, Fetches, Route, Answered
  <2>2. /\ fetch' \in [Request -> Fetches] /\ cookie' = cookie
        /\ signedIn' \subseteq Tab /\ calling' \subseteq Tab /\ overtaken' \subseteq Tab
    BY <1>1, <1>8, <2>1 DEF Leave
  <2>3. screen' \in [Tab -> Screen]
    BY <1>1, <1>8 DEF Leave, Screen
  <2>4. QED
    BY <1>1, <2>2, <2>3
<1>9. QED
  BY <1>2, <1>3, <1>4, <1>5, <1>6, <1>7, <1>8 DEF BrowserNext

LEMMA ScreensStep ==
    ASSUME IInv, TabsInv, [BrowserNext]_allVars
    PROVE  ScreensHold'
<1>1. ScreensHold /\ TabTypes
  BY DEF TabsInv
<1>2. ASSUME NEW r \in Request, Serve(r) PROVE ScreensHold'
  <2>1. /\ UNCHANGED <<screen, signedIn>>
        /\ \A q \in Request : fetch'[q].tab = fetch[q].tab /\ fetch'[q].route = fetch[q].route
    BY <1>2, ServeFacts, ServeForgotten DEF browserVars
  <2>2. QED
    BY <1>1, <2>1 DEF ScreensHold, Awaits
<1>3. ASSUME NEW r \in Request, Deliver(r) PROVE ScreensHold'
  <2> DEFINE tab == fetch[r].tab
  <2>1. /\ tab \in Tab /\ fetch[r].route \in Route
        /\ fetch[r].answer \in {"refused", "done", "issued"} /\ Served(r)
        /\ \A q \in Request \ {r} : fetch'[q] = fetch[q]
        /\ screen'[tab] = ScreenAfter(r) /\ \A t \in Tab \ {tab} : screen'[t] = screen[t]
    BY <1>3, DeliverFacts
  <2>2. /\ fetch[r].answer = "issued" => fetch[r].route \in {"login", "refresh"}
        /\ fetch[r].answer = "refused" => fetch[r].route = "refresh"
        /\ fetch[r].answer = "done" => fetch[r].route \in {"logout", "revoke"}
    BY <2>1 DEF Served
  <2>3. signedIn' = IF fetch[r].answer = "issued" THEN signedIn \cup {tab}
                    ELSE IF DropsToken(r) THEN signedIn \ {tab} ELSE signedIn
    BY <1>3 DEF Deliver
  <2>4. ASSUME NEW t \in Tab PROVE screen'[t] = "AUTHENTICATED" => t \in signedIn'
    <3>1. CASE t # tab
      BY <1>1, <2>1, <2>3, <3>1 DEF ScreensHold
    <3>2. CASE t = tab /\ fetch[r].answer = "issued"
      BY <2>3, <3>2
    <3>3. CASE t = tab /\ fetch[r].answer # "issued"
      BY <1>1, <2>1, <2>3, <3>3 DEF ScreensHold, ScreenAfter
    <3>4. QED
      BY <3>1, <3>2, <3>3
  <2>5. ASSUME NEW t \in Tab, screen'[t] = "LOADING" PROVE Awaits(t, "refresh")'
    <3>1. screen[t] = "LOADING"
      BY <2>1, <2>5 DEF ScreenAfter
    <3>2. PICK q \in Request : fetch[q].tab = t /\ fetch[q].route = "refresh"
      BY <1>1, <3>1 DEF ScreensHold, Awaits
    <3>3. q # r
      BY <2>1, <2>2, <2>5, <3>1, <3>2 DEF ScreenAfter, DropsToken
    <3>4. QED
      BY <2>1, <3>2, <3>3 DEF Awaits
  <2>6. QED
    BY <2>4, <2>5 DEF ScreensHold
<1>4. ASSUME NEW t \in Tab, NEW r \in Request,
             Login(t, r) \/ Refresh(t, r) \/ Restore(t, r) \/ Logout(t, r) \/ Revoke(t, r)
      PROVE  ScreensHold'
  <2>1. PICK route \in Route, answer \in Answered : SendsOne(t, r, route, answer)
    BY <1>1, <1>4, TabsSend DEF Route, Answered
  <2>2. /\ ~Sent(r) /\ \A q \in Request \ {r} : fetch'[q] = fetch[q]
        /\ fetch'[r] = [tab |-> t, route |-> route, answer |-> answer, gen |-> 0]
    BY <2>1, SendFacts
  <2>3. \A u \in Tab : Awaits(u, "refresh") => Awaits(u, "refresh")'
    BY <2>2 DEF Awaits, Sent
  <2>4. CASE UNCHANGED <<screen, signedIn>>
    BY <1>1, <2>3, <2>4 DEF ScreensHold
  <2>5. CASE Restore(t, r)
    <3>1. /\ screen' = [screen EXCEPT ![t] = "LOADING"] /\ signedIn' = signedIn
          /\ fetch'[r].tab = t /\ fetch'[r].route = "refresh"
      <4>1. PICK a \in {"pending", "refused"} : SendsOne(t, r, "refresh", a)
        BY <1>1, <2>5, TabsSend
      <4>2. fetch'[r] = [tab |-> t, route |-> "refresh", answer |-> a, gen |-> 0]
        BY <1>1, <4>1, SendFacts DEF Route
      <4>3. QED
        BY <2>5, <4>2 DEF Restore
    <3>2. Awaits(t, "refresh")'
      BY <3>1 DEF Awaits
    <3>3. QED
      BY <1>1, <2>3, <3>1, <3>2 DEF ScreensHold, TabTypes
  <2>6. Login(t, r) \/ Refresh(t, r) \/ Logout(t, r) \/ Revoke(t, r) => UNCHANGED <<screen, signedIn>>
    BY DEF Login, Refresh, Logout, Revoke, Send, RefuseBare
  <2>7. QED
    BY <1>4, <2>4, <2>5, <2>6
<1>5. CASE UNCHANGED <<fetch, screen, signedIn>>
  BY <1>1, <1>5 DEF ScreensHold, Awaits
<1>6. ASSUME NEW t \in Tab, Call(t) \/ CallAnswered(t) PROVE UNCHANGED <<fetch, screen, signedIn>>
  BY <1>6 DEF Call, CallAnswered
<1>7. UNCHANGED browserVars \/ UNCHANGED allVars => UNCHANGED <<fetch, screen, signedIn>>
  BY DEF allVars, browserVars
<1>8. ASSUME NEW t \in Tab, Leave(t) PROVE ScreensHold'
  <2>1. /\ screen'[t] = "CLOSED" /\ \A u \in Tab \ {t} : screen'[u] = screen[u]
        /\ signedIn' = signedIn \ {t}
    BY <1>1, <1>8 DEF Leave, TabTypes
  <2>2. \A u \in Tab \ {t} : Awaits(u, "refresh") => Awaits(u, "refresh")'
    BY <1>8 DEF Leave, Awaits
  <2>3. QED
    BY <1>1, <2>1, <2>2 DEF ScreensHold
<1>9. QED
  BY <1>2, <1>3, <1>4, <1>5, <1>6, <1>7, <1>8 DEF BrowserNext

LEMMA ClosedStep ==
    ASSUME IInv, TabsInv, [BrowserNext]_allVars
    PROVE  ClosedIsQuiet'
<1>1. ClosedIsQuiet /\ TabTypes
  BY DEF TabsInv
<1>2. ASSUME NEW r \in Request, Serve(r) PROVE ClosedIsQuiet'
  <2>1. /\ UNCHANGED <<screen, signedIn, calling>>
        /\ \A q \in Request : fetch'[q].tab = fetch[q].tab
    BY <1>2, ServeFacts, ServeForgotten DEF browserVars
  <2>2. QED
    BY <1>1, <2>1 DEF ClosedIsQuiet
<1>3. ASSUME NEW r \in Request, Deliver(r) PROVE ClosedIsQuiet'
  <2> DEFINE tab == fetch[r].tab
  <2>1. /\ tab \in Tab /\ fetch'[r] = Unused /\ calling' = calling
        /\ \A q \in Request \ {r} : fetch'[q] = fetch[q]
        /\ screen'[tab] = ScreenAfter(r) /\ \A t \in Tab \ {tab} : screen'[t] = screen[t]
    BY <1>3, DeliverFacts
  <2>2. screen[tab] # "CLOSED"
    BY <1>1, <2>1 DEF ClosedIsQuiet
  <2>3. screen'[tab] # "CLOSED"
    BY <2>1, <2>2 DEF ScreenAfter
  <2>4. \A t \in Tab \ {tab} : t \in signedIn' => t \in signedIn
    BY <1>3 DEF Deliver
  <2>5. Unused.tab = NULL
    BY DEF Unused
  <2>6. QED
    BY <1>1, <2>1, <2>3, <2>4, <2>5 DEF ClosedIsQuiet
<1>4. ASSUME NEW t \in Tab, NEW r \in Request,
             Login(t, r) \/ Refresh(t, r) \/ Restore(t, r) \/ Logout(t, r) \/ Revoke(t, r)
      PROVE  ClosedIsQuiet'
  <2>1. PICK route \in Route, answer \in Answered : SendsOne(t, r, route, answer)
    BY <1>1, <1>4, TabsSend DEF Route, Answered
  <2>2. /\ \A q \in Request \ {r} : fetch'[q] = fetch[q]
        /\ fetch'[r] = [tab |-> t, route |-> route, answer |-> answer, gen |-> 0]
    BY <2>1, SendFacts
  <2>3. fetch'[r].tab = t
    BY <2>2
  <2>4. /\ signedIn' = signedIn /\ calling' \subseteq calling
        /\ screen' = screen \/ screen' = [screen EXCEPT ![t] = "LOADING"]
    BY <1>4 DEF Login, Refresh, Restore, Logout, Revoke, Send, RefuseBare
  <2>5. screen'[t] # "CLOSED"
    BY <1>1, <1>4 DEF Login, Refresh, Restore, Logout, Revoke, TabTypes, ClosedIsQuiet
  <2>6. \A u \in Tab \ {t} : screen'[u] = screen[u]
    BY <1>1, <2>4 DEF TabTypes
  <2>7. QED
    BY <1>1, <2>2, <2>3, <2>4, <2>5, <2>6 DEF ClosedIsQuiet
<1>5. ASSUME NEW t \in Tab, Call(t) \/ CallAnswered(t) PROVE ClosedIsQuiet'
  BY <1>1, <1>5 DEF Call, CallAnswered, ClosedIsQuiet
<1>6. ASSUME NEW t \in Tab, Leave(t) PROVE ClosedIsQuiet'
  <2>1. /\ \A u \in Tab \ {t} : screen'[u] = screen[u]
        /\ signedIn' = signedIn \ {t} /\ calling' = calling \ {t}
        /\ \A r \in Request : fetch'[r] = IF fetch[r].tab = t THEN Unused ELSE fetch[r]
    BY <1>1, <1>6 DEF Leave, TabTypes
  <2>2. Unused.tab = NULL
    BY DEF Unused
  <2>3. QED
    BY <1>1, <2>1, <2>2 DEF ClosedIsQuiet
<1>7. UNCHANGED browserVars \/ UNCHANGED allVars => ClosedIsQuiet'
  BY <1>1 DEF allVars, browserVars, ClosedIsQuiet
<1>8. QED
  BY <1>2, <1>3, <1>4, <1>5, <1>6, <1>7 DEF BrowserNext

LEMMA TabsInit == ASSUME BrowserInit PROVE IInv /\ TabsInv
<1>1. IInv
  BY InitIInv DEF BrowserInit
<1>2. TabTypes
  BY DEF BrowserInit, TabTypes, Fetches, Unused, Route, Answered, Screen
<1>3. \A r \in Request : req[r] = Idle /\ fetch[r] = Unused
  BY DEF BrowserInit, Init
<1>4. \A r \in Request : Served(r)
  BY <1>3 DEF Served, Sent, Unused
<1>5. ScreensHold
  BY DEF BrowserInit, ScreensHold
<1>6. ClosedIsQuiet
  BY <1>3 DEF BrowserInit, ClosedIsQuiet, Unused
<1>7. QED
  BY <1>1, <1>2, <1>4, <1>5, <1>6 DEF TabsInv

LEMMA TabsStep == ASSUME IInv, TabsInv, [BrowserNext]_allVars PROVE IInv' /\ TabsInv'
<1>1. [Next]_vars
  BY TabsOnlyAskStep DEF TabsInv
<1>2. IInv'
  BY <1>1, ServerStands
<1>3. QED
  BY <1>2, TabTypesStep, ServedStep, ScreensStep, ClosedStep DEF TabsInv

(* However many tabs the browser has: a handler is at work for what is sent *)
(* and not answered, or for a page that was left, the dashboard is over a   *)
(* token, and a page that loads waits for its refresh (client.ts, the       *)
(* session context).                                                        *)
THEOREM TabsAreServed == BrowserSpec => [](IInv /\ TabsInv)
BY TabsInit, TabsStep, PTL DEF BrowserSpec

(* The tabs only ask what a client may ask: all that RefreshSession keeps,  *)
(* and the token family it implements, stands behind them.                  *)
THEOREM TabsOnlyAsk == BrowserSpec => Spec
<1>1. BrowserInit => Init
  BY DEF BrowserInit
<1>2. TabsInv /\ [BrowserNext]_allVars => [Next]_vars
  BY TabsOnlyAskStep DEF TabsInv
<1>3. QED
  BY <1>1, <1>2, TabsAreServed, PTL DEF BrowserSpec, Spec

-----------------------------------------------------------------------------
(* One tab                                                                 *)

Status == session[family].status

LEMMA ThreeStates ==
    ASSUME IInv
    PROVE  /\ Status \in {"NONE", "ACTIVE", "REVOKED"}
           /\ clock \in Nat /\ req \in [Request -> RequestState]
BY DEF IInv, TypeOK, Status, SessionRow

\* The generation in the jar of an open session has a row.
LEMMA JarHasRow ==
    ASSUME IInv, TabsInv, SignedIn, cookie # 0
    PROVE  /\ cookie \in Gen /\ Exists(family, cookie)
           /\ token[family][cookie] \in TokenRow /\ token[family][cookie].expiresAt \in Nat
           /\ (\E r \in Request : Rotated(r)) => cookie + 1 \in Gen
<1>1. cookie \in Gen
  BY DEF TabsInv, TabTypes, Gen
<1>2. ASSUME NEW r \in Request, Rotated(r) PROVE cookie + 1 \in Gen
  <2>1. Carries(r) /\ Served(r) /\ Refreshing(r)
    BY <1>2 DEF SignedIn, Rotated, TabsInv
  <2>2. CASE req[r].stage = "sign"
    <3>1. Grounded(r)
      BY <2>2, ActingFacts DEF IInv
    <3>2. req[r].gen = cookie /\ req[r].gen + 1 \in Gen
      BY <2>1, <2>2, <3>1 DEF Grounded, Carries
    <3>3. QED
      BY <3>2
  <2>3. CASE fetch[r].answer = "issued"
    BY <2>1, <2>3 DEF Served, Carries
  <2>4. QED
    BY <1>2, <2>2, <2>3 DEF Rotated
<1>3. Exists(family, cookie)
  <2>1. CASE \E r \in Request : Rotated(r)
    <3>1. cookie + 1 \in Gen /\ Exists(family, cookie + 1) /\ cookie < cookie + 1
      BY <1>1, <1>2, <2>1 DEF SignedIn, Live, Gen
    <3>2. QED
      BY <1>1, <3>1 DEF IInv, UnbrokenChain
  <2>2. CASE ~\E r \in Request : Rotated(r)
    BY <2>2 DEF SignedIn, Live
  <2>3. QED
    BY <2>1, <2>2
<1>4. token[family][cookie] \in TokenRow
  BY <1>1, <1>3 DEF IInv, TypeOK, Exists
<1>5. QED
  BY <1>1, <1>2, <1>3, <1>4 DEF TokenRow

\* A step that changes nothing of the requests, the rows and the tab but the passing of time
\* and the calls of a tab that shows the dashboard.
LEMMA CalmStep ==
    ASSUME IInv, TabsInv, OneTabInv, IInv',
           UNCHANGED <<cookie, fetch, signedIn, screen, req, token>>,
           session'[family] = session[family], clock' >= clock,
           calling' # calling => calling # {} \/ \E t \in Tab : screen[t] = "AUTHENTICATED"
    PROVE  OneTabInv'
<1>1. OneRefresh' /\ NoAlarm'
  BY DEF OneTabInv, OneRefresh, Refreshing, Sent, NoAlarm, Unaccused, LeftStages
<1>2. ASSUME BeforeSignIn PROVE BeforeSignIn'
  <2>1. calling' = calling
    BY <1>2 DEF BeforeSignIn
  <2>2. QED
    BY <1>2, <2>1 DEF BeforeSignIn, Refreshing, Sent
<1>3. ASSUME SigningIn PROVE SigningIn'
  <2>1. calling' = calling
    BY <1>3 DEF SigningIn
  <2>2. QED
    BY <1>3, <2>1 DEF SigningIn, Sent, Live, Exists
<1>4. ASSUME SignedIn, cookie # 0 PROVE SignedIn'
  <2>1. token[family][cookie].expiresAt \in Nat /\ clock \in Nat /\ clock' \in Nat
    BY <1>4, JarHasRow, ThreeStates DEF IInv, TypeOK
  <2>2. CookieExpired => CookieExpired'
    BY <2>1 DEF CookieExpired
  <2>3. \A r \in Request : req[r].now \in Nat /\ (req[r].now <= clock => req[r].now <= clock')
    BY <2>1, ThreeStates DEF RequestState
  <2>4. \A r \in Request : Carries(r) => Carries(r)'
    BY <2>2, <2>3 DEF Carries
  <2>5. \A r \in Request : (Refreshing(r) <=> Refreshing(r)') /\ (Rotated(r) <=> Rotated(r)')
    BY DEF Refreshing, Rotated, Sent
  <2>6. Live(family, cookie)' <=> Live(family, cookie)
    BY DEF Live, Exists
  <2>7. Live(family, cookie + 1)' <=> Live(family, cookie + 1)
    BY DEF Live, Exists
  <2>8. QED
    BY <1>4, <2>2, <2>4, <2>5, <2>6, <2>7 DEF SignedIn, Sent
<1>5. Follows'
  BY <1>2, <1>3, <1>4 DEF OneTabInv, Follows
<1>6. QED
  BY <1>1, <1>5 DEF OneTabInv

LEMMA RefreshIsAlone ==
    ASSUME OneTab, TabsInv, NEW t \in Tab, NEW r \in Request, Refresh(t, r) \/ Restore(t, r)
    PROVE  /\ \A q \in Request : ~Refreshing(q)
           /\ Restore(t, r) => \A q \in Request : ~Sent(q)
<1>1. \A q \in Request : Sent(q) => fetch[q].tab = t
  BY DEF OneTab, Sent, TabsInv, TabTypes, Fetches
<1>2. Refresh(t, r) => ~Awaits(t, "refresh")
  BY DEF Refresh
<1>3. Restore(t, r) => \A q \in Request : ~Sent(q)
  BY <1>1 DEF Restore, TabsInv, ClosedIsQuiet
<1>4. QED
  BY <1>1, <1>2, <1>3 DEF Awaits, Refreshing

LEMMA OneRefreshStep ==
    ASSUME OneTab, IInv, TabsInv, OneRefresh, [BrowserNext]_allVars
    PROVE  OneRefresh'
<1>1. ASSUME \A q \in Request : Refreshing(q)' => Refreshing(q) PROVE OneRefresh'
  BY <1>1 DEF OneRefresh
<1>2. ASSUME NEW r \in Request, Serve(r) PROVE OneRefresh'
  <2>1. \A q \in Request : fetch'[q].tab = fetch[q].tab /\ fetch'[q].route = fetch[q].route
    BY <1>2, ServeFacts, ServeForgotten DEF browserVars
  <2>2. QED
    BY <1>1, <2>1 DEF Refreshing, Sent
<1>3. ASSUME NEW r \in Request, Deliver(r) PROVE OneRefresh'
  <2>1. ~Sent(r)' /\ \A q \in Request \ {r} : fetch'[q] = fetch[q]
    BY <1>3, DeliverFacts
  <2>2. QED
    BY <1>1, <2>1 DEF Refreshing, Sent
<1>4. ASSUME NEW t \in Tab, NEW r \in Request,
             Login(t, r) \/ Refresh(t, r) \/ Restore(t, r) \/ Logout(t, r) \/ Revoke(t, r)
      PROVE  OneRefresh'
  <2>1. PICK route \in Route, answer \in Answered :
           /\ SendsOne(t, r, route, answer)
           /\ Login(t, r) \/ Logout(t, r) \/ Revoke(t, r) => route # "refresh"
    BY <1>4, TabsSend DEF TabsInv, Route, Answered
  <2>2. /\ \A q \in Request \ {r} : fetch'[q] = fetch[q]
        /\ fetch'[r] = [tab |-> t, route |-> route, answer |-> answer, gen |-> 0]
    BY <2>1, SendFacts
  <2>3. CASE Refresh(t, r) \/ Restore(t, r)
    BY <2>2, <2>3, RefreshIsAlone DEF OneRefresh, Refreshing, Sent
  <2>4. CASE ~(Refresh(t, r) \/ Restore(t, r))
    <3>1. ~Refreshing(r)'
      BY <1>4, <2>1, <2>2, <2>4 DEF Refreshing
    <3>2. QED
      BY <1>1, <2>2, <3>1 DEF Refreshing, Sent
  <2>5. QED
    BY <2>3, <2>4
<1>5. CASE UNCHANGED fetch
  BY <1>1, <1>5 DEF Refreshing, Sent
<1>6. ASSUME NEW t \in Tab, Call(t) \/ CallAnswered(t) PROVE UNCHANGED fetch
  BY <1>6 DEF Call, CallAnswered
<1>7. UNCHANGED browserVars \/ UNCHANGED allVars => UNCHANGED fetch
  BY DEF allVars, browserVars
<1>8. ASSUME NEW t \in Tab, Leave(t) PROVE OneRefresh'
  <2>1. \A q \in Request : fetch'[q] = IF fetch[q].tab = t THEN Unused ELSE fetch[q]
    BY <1>8 DEF Leave
  <2>2. QED
    BY <1>1, <2>1 DEF Refreshing, Sent, Unused
<1>9. QED
  BY <1>2, <1>3, <1>4, <1>5, <1>6, <1>7, <1>8 DEF BrowserNext

\* Where the one refresh stands decides what the jar is good for.
LEMMA SignedInStays ==
    ASSUME OneRefresh, SignedIn, NEW r \in Request, Refreshing(r), UNCHANGED <<cookie, screen>>,
           \A q \in Request : fetch'[q].tab = fetch[q].tab /\ fetch'[q].route = fetch[q].route,
           \A q \in Request \ {r} : req'[q] = req[q],
           Carries(r)',
           IF Rotated(r)' THEN Live(family, cookie + 1)' ELSE Live(family, cookie)',
           \A t \in Tab : screen[t] = "UNAUTHENTICATED" =>
               /\ CookieExpired'
               /\ req'[r].stage \in {"idle", "find", "found"} /\ fetch'[r].answer # "issued"
               /\ req'[r].stage # "idle" => token'[family][cookie].expiresAt <= req'[r].now
    PROVE  SignedIn'
<1>1. \A q \in Request : (Refreshing(q)' <=> Refreshing(q)) /\ (Sent(q)' <=> Sent(q))
  BY DEF Refreshing, Sent
<1>2. \A q \in Request : Refreshing(q)' => q = r
  BY <1>1 DEF OneRefresh
<1>3. (\E q \in Request : Rotated(q)') <=> Rotated(r)'
  BY <1>2 DEF Rotated
<1>4. \A q \in Request : IF Sent(q)' THEN fetch'[q].route # "login"
                        ELSE req'[q].stage \in {"idle", "revokeFamily", "revokeOne", "deny"}
  BY <1>1 DEF SignedIn, Refreshing
<1>5. \A q \in Request : Refreshing(q)' => Carries(q)'
  BY <1>2
<1>6. IF \E q \in Request : Rotated(q)' THEN Live(family, cookie + 1)' ELSE Live(family, cookie)'
  BY <1>3
<1>7. \A t \in Tab : screen'[t] = "UNAUTHENTICATED" =>
          /\ CookieExpired'
          /\ \A q \in Request : Refreshing(q)' =>
                /\ req'[q].stage \in {"idle", "find", "found"} /\ fetch'[q].answer # "issued"
                /\ req'[q].stage # "idle" => token'[family][cookie'].expiresAt <= req'[q].now
  BY <1>2
<1>8. QED
  BY <1>4, <1>5, <1>6, <1>7 DEF SignedIn

\* While the session is open, its handlers find what the tab relies on.
LEMMA ServeWhileOpen ==
    ASSUME OneTab, IInv, TabsInv, OneTabInv, NEW r \in Request, Serve(r), Sent(r),
           Status # "REVOKED"
    PROVE  /\ Status = "ACTIVE"
           /\ \/ cookie = 0 /\ SigningIn /\ fetch[r].route = "login"
              \/ cookie # 0 /\ SignedIn /\ fetch[r].route # "login"
           /\ fetch[r].route = "refresh" => Refreshing(r) /\ Carries(r)
<1>1. Sent(r) /\ fetch[r].answer = "pending"
  BY ServeFacts
<1>2. Status = "ACTIVE"
  BY <1>1, ThreeStates DEF OneTabInv, Follows, BeforeSignIn, Status
<1>3. CASE cookie = 0
  <2>1. SigningIn
    BY <1>1, <1>2, <1>3 DEF OneTabInv, Follows, Status, BeforeSignIn
  <2>2. QED
    BY <1>1, <1>2, <1>3, <2>1 DEF SigningIn
<1>4. CASE cookie # 0
  <2>1. SignedIn
    BY <1>2, <1>4 DEF OneTabInv, Follows, Status
  <2>2. QED
    BY <1>1, <1>2, <1>4, <2>1 DEF SignedIn, Refreshing
<1>5. QED
  BY <1>3, <1>4

LEMMA ServeAlarmless ==
    ASSUME OneTab, IInv, TabsInv, OneTabInv, NEW r \in Request, Serve(r), Sent(r)
    PROVE  NoAlarm'
<1>1. /\ Handler(r) /\ Sent(r) /\ req[r].session = family /\ req[r].stage \in StagesOf(fetch[r].route)
      /\ fetch[r].route \in Route
      /\ \A q \in Request \ {r} : req'[q] = req[q]
      /\ \A q \in Request : fetch'[q].tab = fetch[q].tab /\ fetch'[q].route = fetch[q].route
  BY ServeFacts DEF TabsInv, TabTypes, Fetches
<1>2. NoAlarm /\ req[r] \in RequestState
  BY ThreeStates DEF OneTabInv
<1>3. Idle.stage = "idle" /\ Idle.reason # Theft
  BY DEF Idle, Theft, Reason
<1>4. session'[family].reason # Theft
  <2>1. CASE RevokeFamily(r) \/ RevokeOne(r)
    BY <1>2, <2>1, RevocationShuts DEF NoAlarm, Unaccused, Theft
  <2>2. CASE ~(RevokeFamily(r) \/ RevokeOne(r))
    <3>1. session' = session
      BY <1>1, <2>2 DEF Handler, IssueFirst, Sign, FindToken, Decide, FindSuccessor, Mint, MintRefused, Deny
    <3>2. QED
      BY <1>2, <3>1 DEF NoAlarm, Unaccused, Theft
  <2>3. QED
    BY <2>1, <2>2
<1>5. /\ req'[r].reason # Theft
      /\ Refreshing(r) => req'[r].stage \in {"idle", "find", "found", "mint", "sign"}
  <2>1. CASE req[r].stage = "found"
    <3>1. Decide(r)
      BY <1>1, <2>1, HandlerMoves
    <3>2. fetch[r].route = "refresh"
      BY <1>1, <2>1 DEF StagesOf, Route
    <3>3. session[family].status = "ACTIVE" => req[r].seen.usedAt = NULL
      BY <2>1, <3>2, ServeWhileOpen DEF Status, Carries
    <3>4. req'[r] = Idle \/ (req'[r].stage = "mint" /\ req'[r].reason = req[r].reason)
      BY <1>1, <3>1, <3>3, DecisionMoves
    <3>5. QED
      BY <1>2, <1>3, <3>4 DEF NoAlarm
  <2>2. CASE req[r].stage # "found"
    <3>1. req'[r] = Idle \/ req'[r].reason = req[r].reason
      BY <1>1, <1>2, <2>2, HandlerMoves DEF RequestState
    <3>2. Refreshing(r) => req[r].stage \in {"idle", "find", "mint", "sign"}
      BY <1>2, <2>2 DEF NoAlarm
    <3>3. Refreshing(r) => req'[r].stage \in {"idle", "found", "sign"}
      BY <1>1, <1>2, <1>3, <3>2, HandlerMoves DEF RequestState
    <3>4. QED
      BY <1>2, <1>3, <3>1, <3>3 DEF NoAlarm
  <2>3. QED
    BY <2>1, <2>2
<1>6. \A q \in Request : Refreshing(q)' => Refreshing(q)
  BY <1>1 DEF Refreshing, Sent
<1>7. \A q \in Request : /\ req'[q].reason # Theft
                         /\ Refreshing(q)' => req'[q].stage \in {"idle", "find", "found", "mint", "sign"}
  <2>1. ASSUME NEW q \in Request
        PROVE  /\ req'[q].reason # Theft
               /\ Refreshing(q)' => req'[q].stage \in {"idle", "find", "found", "mint", "sign"}
    <3>1. CASE q = r
      BY <1>5, <1>6, <3>1
    <3>2. CASE q # r
      BY <1>1, <1>2, <1>6, <3>2 DEF NoAlarm
    <3>3. QED
      BY <3>1, <3>2
  <2>2. QED
    BY <2>1
<1>8. \A q \in Request : ~Sent(q)' => q # r /\ ~Sent(q) /\ req'[q] = req[q]
  BY <1>1 DEF Sent
<1>9. \A q \in Request : ~Sent(q)' => req'[q].stage \in LeftStages
  BY <1>2, <1>8 DEF NoAlarm
<1>10. QED
  BY <1>4, <1>7, <1>9 DEF NoAlarm, Unaccused, Theft

\* The sign-in is served: the first generation, and the answer that brings it.
LEMMA ServeLogin ==
    ASSUME OneTab, IInv, TabsInv, OneTabInv, NEW r \in Request, Serve(r), Sent(r),
           Status = "ACTIVE", cookie = 0
    PROVE  Follows'
<1>1. /\ Handler(r) /\ Sent(r) /\ req[r].session = family /\ req[r].stage \in StagesOf(fetch[r].route)
      /\ fetch[r].answer = "pending" /\ req[r] # Idle
      /\ \A q \in Request \ {r} : req'[q] = req[q] /\ fetch'[q] = fetch[q]
      /\ fetch'[r].tab = fetch[r].tab /\ fetch'[r].route = fetch[r].route
      /\ IF req'[r] = Idle
         THEN fetch'[r].answer = AnswerOf(r).answer /\ fetch'[r].gen = AnswerOf(r).gen
         ELSE fetch'[r] = fetch[r]
      /\ UNCHANGED <<cookie, signedIn, screen, calling>>
  BY ServeFacts
<1>2. SigningIn /\ fetch[r].route = "login" /\ Status # "REVOKED"
  BY ServeWhileOpen
<1>3. /\ \A q \in Request \ {r} : ~Sent(q) /\ req[q].stage = "idle"
      /\ req[r].stage # "issueFirst" => Live(family, 1)
      /\ req[r].stage = "sign" => req[r].gen = 0
  BY <1>1, <1>2 DEF SigningIn
<1>4. req[r].stage \in {"issueFirst", "sign"} /\ req[r] \in RequestState
  BY <1>1, <1>2, ThreeStates DEF StagesOf
<1>5. Idle.stage = "idle"
  BY DEF Idle
<1>6. CASE req[r].stage = "issueFirst"
  <2>1. IssueFirst(r) /\ req'[r] = [req[r] EXCEPT !.stage = "sign"]
    BY <1>1, <1>6, HandlerMoves
  <2>2. req'[r].stage = "sign" /\ req'[r].gen = req[r].gen
    BY <1>4, <2>1 DEF RequestState
  <2>3. /\ req[r].gen = 0 /\ 1 \in Gen /\ req[r].now \in Nat
        /\ token'[family][1] = NewGeneration(req[r].now)
    BY <1>1, <2>1, IssueFirstFacts
  <2>4. Live(family, 1)'
    BY <2>3, NewGenerationType DEF Live, Exists
  <2>5. fetch'[r] = fetch[r] /\ session' = session
    BY <1>1, <1>5, <2>1, <2>2 DEF IssueFirst
  <2>6. SigningIn'
    BY <1>1, <1>2, <1>3, <2>2, <2>3, <2>4, <2>5 DEF SigningIn, Sent
  <2>7. QED
    BY <1>1, <2>5, <2>6 DEF Follows, Status
<1>7. CASE req[r].stage = "sign"
  <2>1. req'[r] = Idle /\ UNCHANGED <<session, token>>
    BY <1>1, <1>7, HandlerMoves
  <2>2. fetch'[r].answer = "issued" /\ fetch'[r].gen = 1
    BY <1>1, <1>3, <1>7, <2>1 DEF AnswerOf
  <2>3. Live(family, 1)'
    BY <1>3, <1>7, <2>1 DEF Live, Exists
  <2>4. SigningIn'
    BY <1>1, <1>2, <1>3, <1>5, <2>1, <2>2, <2>3 DEF SigningIn, Sent
  <2>5. QED
    BY <1>1, <2>1, <2>4 DEF Follows, Status
<1>8. QED
  BY <1>4, <1>6, <1>7

\* A rotation is served: the generation in the jar gives way to the one the answer will bring.
LEMMA ServeRefresh ==
    ASSUME OneTab, IInv, TabsInv, OneTabInv, NEW r \in Request, Serve(r), Sent(r),
           Status = "ACTIVE", cookie # 0, fetch[r].route = "refresh"
    PROVE  SignedIn' /\ UNCHANGED session
<1>1. /\ Handler(r) /\ Sent(r) /\ req[r].session = family /\ req[r] # Idle
      /\ fetch[r].answer = "pending"
      /\ \A q \in Request : fetch'[q].tab = fetch[q].tab /\ fetch'[q].route = fetch[q].route
      /\ \A q \in Request \ {r} : req'[q] = req[q]
      /\ IF req'[r] = Idle
         THEN fetch'[r].answer = AnswerOf(r).answer /\ fetch'[r].gen = AnswerOf(r).gen
         ELSE fetch'[r] = fetch[r]
      /\ UNCHANGED <<cookie, signedIn, screen, calling>>
  BY ServeFacts
<1>2. SignedIn /\ Refreshing(r) /\ Carries(r) /\ Status # "REVOKED"
  BY ServeWhileOpen
<1>3. OneRefresh /\ NoAlarm /\ req[r] \in RequestState /\ req[r].stage # "idle"
  BY <1>1, ThreeStates, HandlerMoves DEF OneTabInv
<1>4. /\ cookie \in Gen /\ Exists(family, cookie) /\ token[family][cookie] \in TokenRow
      /\ token[family][cookie].expiresAt \in Nat /\ clock \in Nat
  BY <1>2, JarHasRow, ThreeStates
<1>5. /\ Grounded(r) /\ req[r].presented = cookie /\ req[r].now <= clock /\ req[r].now \in Nat
  BY <1>2, <1>3, ActingFacts DEF IInv, Carries, RequestState
<1>6. Rotated(r) <=> req[r].stage = "sign"
  BY <1>1, <1>2 DEF Rotated
<1>7. (\E q \in Request : Rotated(q)) <=> Rotated(r)
  BY <1>2, <1>3 DEF OneRefresh, Rotated
<1>8. IF Rotated(r) THEN Live(family, cookie + 1) ELSE Live(family, cookie)
  BY <1>2, <1>7 DEF SignedIn
<1>9. Rotated(r)' <=> req'[r].stage = "sign" \/ fetch'[r].answer = "issued"
  BY <1>1, <1>2 DEF Rotated, Refreshing, Sent
<1>10. Idle.stage = "idle" /\ Idle.presented = 0
  BY DEF Idle
<1>11. \A t \in Tab : screen[t] = "UNAUTHENTICATED" =>
          /\ CookieExpired /\ req[r].stage \in {"find", "found"}
          /\ token[family][cookie].expiresAt <= req[r].now
  BY <1>2, <1>3 DEF SignedIn
<1>12. clock' = clock
  BY <1>1 DEF Handler, IssueFirst, Sign, FindToken, Decide, FindSuccessor, Mint, MintRefused,
              RevokeFamily, RevokeOne, Deny
<1>13. CASE req[r].stage = "find"
  <2>1. /\ UNCHANGED <<session, token>>
        /\ req'[r] = [req[r] EXCEPT !.stage = "found", !.seen = token[family][cookie]]
    BY <1>1, <1>5, <1>13, HandlerMoves
  <2>2. /\ req'[r].stage = "found" /\ req'[r].seen = token[family][cookie]
        /\ req'[r].presented = cookie /\ req'[r].now = req[r].now
    BY <1>3, <1>5, <2>1 DEF RequestState
  <2>3. fetch'[r] = fetch[r]
    BY <1>1, <1>10, <2>2
  <2>4. Live(family, cookie) /\ Live(family, cookie)'
    BY <1>1, <1>6, <1>8, <1>13, <2>1 DEF Live, Exists
  <2>5. Carries(r)'
    BY <1>1, <1>5, <1>12, <2>2, <2>3, <2>4 DEF Carries, Live
  <2>6. ~Rotated(r)'
    BY <1>1, <1>9, <2>2, <2>3
  <2>7. \A t \in Tab : screen[t] = "UNAUTHENTICATED" =>
          /\ CookieExpired' /\ token'[family][cookie].expiresAt <= req'[r].now
    BY <1>1, <1>11, <1>12, <2>1, <2>2 DEF CookieExpired
  <2>8. QED
    BY <1>1, <1>2, <1>3, <2>1, <2>2, <2>3, <2>4, <2>5, <2>6, <2>7, SignedInStays
<1>14. CASE req[r].stage = "found"
  <2>1. Decide(r) /\ UNCHANGED <<session, token>>
    BY <1>1, <1>14, HandlerMoves
  <2>2. req[r].seen.usedAt = NULL /\ req[r].seen.expiresAt = token[family][cookie].expiresAt
    BY <1>1, <1>2, <1>5, <1>14 DEF Carries, Grounded
  <2>3. Live(family, cookie)'
    BY <1>1, <1>6, <1>8, <1>14, <2>1 DEF Live, Exists
  <2>4. CASE req'[r] = Idle
    <3>1. token[family][cookie].expiresAt <= clock
      <4>1. req[r].seen.expiresAt <= req[r].now
        <5>1. req[r].seen.expiresAt \in Nat /\ req[r].now \in Nat
          BY <1>4, <1>5, <2>2
        <5>2. req'[r].stage # "mint"
          BY <1>10, <2>4
        <5>3. session[req[r].session].status = "ACTIVE"
          BY <1>1 DEF Status
        <5>4. QED
          BY <2>1, <2>2, <5>1, <5>2, <5>3, DecisionMoves
      <4>2. QED
        BY <1>4, <1>5, <2>2, <4>1
    <3>2. fetch'[r].answer = "refused"
      BY <1>1, <1>14, <2>4 DEF AnswerOf
    <3>3. CookieExpired'
      BY <1>1, <1>12, <2>1, <3>1 DEF CookieExpired
    <3>4. Carries(r)'
      BY <1>10, <2>4, <3>2, <3>3 DEF Carries
    <3>5. ~Rotated(r)'
      BY <1>9, <1>10, <2>4, <3>2
    <3>6. QED
      BY <1>1, <1>2, <1>3, <1>10, <2>1, <2>3, <2>4, <3>2, <3>3, <3>4, <3>5, SignedInStays
  <2>5. CASE req'[r] # Idle
    <3>1. /\ req'[r].stage = "mint" /\ req'[r].gen = cookie /\ req'[r].presented = cookie
          /\ req'[r].now = req[r].now /\ req[r].seen.expiresAt > req[r].now
      BY <1>5, <2>1, <2>2, <2>5, DecisionMoves
    <3>2. fetch'[r] = fetch[r]
      BY <1>1, <2>5
    <3>3. Carries(r)'
      BY <1>1, <1>5, <1>12, <3>1, <3>2 DEF Carries
    <3>4. ~Rotated(r)'
      BY <1>1, <1>9, <3>1, <3>2
    <3>5. \A t \in Tab : screen[t] # "UNAUTHENTICATED"
      BY <1>4, <1>5, <1>11, <2>2, <3>1
    <3>6. QED
      BY <1>1, <1>2, <1>3, <2>1, <2>3, <3>3, <3>4, <3>5, SignedInStays
  <2>6. QED
    BY <2>4, <2>5
<1>15. CASE req[r].stage = "mint"
  <2>1. req[r].gen = cookie /\ Live(family, cookie) /\ \A t \in Tab : screen[t] # "UNAUTHENTICATED"
    BY <1>2, <1>6, <1>8, <1>11, <1>15 DEF Carries
  <2>2. ~MintConflict(req[r].session, req[r].gen, req[r].now)
    <3>1. token[family][cookie].next = NULL /\ token[family][cookie].usedAt = NULL
      BY <1>4, <2>1 DEF IInv, UnbrokenChain, Live
    <3>2. CASE cookie + 1 \in Gen
      <4>1. ~Exists(family, cookie + 1)
        BY <1>4, <2>1, <3>2 DEF IInv, UnbrokenChain, Gen
      <4>2. QED
        BY <1>1, <2>1, <3>1, <4>1 DEF MintConflict
    <3>3. CASE cookie + 1 \notin Gen
      <4>1. MintRefused(r) \/ Mint(r)
        BY <1>1, <1>15 DEF Handler, IssueFirst, Sign, FindToken, Decide, FindSuccessor,
                           RevokeFamily, RevokeOne, Deny
      <4>2. QED
        BY <2>1, <3>3, <4>1 DEF MintRefused, Mint
    <3>4. QED
      BY <3>2, <3>3
  <2>3. Mint(r) /\ req'[r] = [req[r] EXCEPT !.stage = "sign"] /\ UNCHANGED session
    BY <1>1, <1>15, <2>2, HandlerMoves
  <2>4. /\ req'[r].stage = "sign" /\ req'[r].gen = cookie /\ req'[r].presented = cookie
        /\ req'[r].now = req[r].now
    BY <1>3, <1>5, <2>1, <2>3 DEF RequestState
  <2>5. fetch'[r] = fetch[r]
    BY <1>1, <1>10, <2>4
  <2>6. token'[family][cookie + 1] = NewGeneration(req[r].now)
    BY <1>1, <2>1, <2>3, MintFacts
  <2>7. Live(family, cookie + 1)'
    <3>1. token'[family][cookie + 1] # NULL /\ token'[family][cookie + 1].usedAt = NULL
      BY <1>5, <2>6, NewGenerationType
    <3>2. QED
      BY <1>1, <3>1 DEF Live, Exists
  <2>8. Carries(r)'
    BY <1>1, <1>5, <1>12, <2>4, <2>5 DEF Carries
  <2>9. Rotated(r)'
    BY <1>9, <2>4
  <2>10. QED
    BY <1>1, <1>2, <1>3, <2>1, <2>3, <2>7, <2>8, <2>9, SignedInStays
<1>16. CASE req[r].stage = "sign"
  <2>1. req'[r] = Idle /\ UNCHANGED <<session, token>>
    BY <1>1, <1>16, HandlerMoves
  <2>2. /\ req[r].gen = cookie /\ Live(family, cookie + 1)
        /\ \A t \in Tab : screen[t] # "UNAUTHENTICATED"
    BY <1>2, <1>6, <1>8, <1>11, <1>16 DEF Carries
  <2>3. fetch'[r].answer = "issued" /\ fetch'[r].gen = cookie + 1
    BY <1>1, <1>16, <2>1, <2>2 DEF AnswerOf
  <2>4. Carries(r)'
    BY <1>1, <1>10, <2>1, <2>3 DEF Carries
  <2>5. Rotated(r)' /\ Live(family, cookie + 1)'
    BY <1>1, <1>9, <2>1, <2>2, <2>3 DEF Live, Exists
  <2>6. QED
    BY <1>1, <1>2, <1>3, <2>1, <2>2, <2>4, <2>5, SignedInStays
<1>17. QED
  BY <1>2, <1>3, <1>13, <1>14, <1>15, <1>16 DEF NoAlarm

LEMMA ServeStep ==
    ASSUME OneTab, IInv, TabsInv, OneTabInv, NEW r \in Request, Serve(r), Sent(r),
           IInv', Monotone
    PROVE  Follows'
<1>1. /\ Handler(r) /\ Sent(r) /\ req[r].session = family /\ req[r].stage \in StagesOf(fetch[r].route)
      /\ fetch[r].route \in Route /\ UNCHANGED cookie
  BY ServeFacts DEF TabsInv, TabTypes, Fetches
<1>2. ASSUME session'[family].status = "REVOKED" PROVE Follows'
  BY <1>2 DEF Follows
<1>3. CASE Status = "REVOKED"
  BY <1>2, <1>3 DEF Monotone, Status
<1>4. CASE Status # "REVOKED" /\ cookie = 0
  BY <1>4, ServeLogin, ServeWhileOpen
<1>5. CASE Status # "REVOKED" /\ cookie # 0 /\ fetch[r].route = "refresh"
  <2>1. Status = "ACTIVE"
    BY <1>5, ServeWhileOpen
  <2>2. SignedIn' /\ UNCHANGED session
    BY <1>5, <2>1, ServeRefresh
  <2>3. QED
    BY <1>1, <1>5, <2>1, <2>2 DEF Follows, Status
<1>6. CASE Status # "REVOKED" /\ cookie # 0 /\ fetch[r].route # "refresh"
  <2>1. fetch[r].route \in {"logout", "revoke"}
    BY <1>1, <1>6, ServeWhileOpen DEF Route
  <2>2. req[r].stage \in {"revokeFamily", "revokeOne", "deny"}
    BY <1>1, <2>1 DEF StagesOf
  <2>3. req[r].stage # "deny"
    <3>1. req[r].stage = "deny" => Grounded(r)
      BY ActingFacts DEF IInv
    <3>2. QED
      BY <1>1, <1>6, <3>1 DEF Grounded, Status
  <2>4. RevokeFamily(r) \/ RevokeOne(r)
    BY <1>1, <2>2, <2>3, HandlerMoves
  <2>5. QED
    BY <1>1, <1>2, <2>4, RevocationShuts
<1>7. QED
  BY <1>3, <1>4, <1>5, <1>6

\* What a page left behind may still revoke the session, and touches nothing else it relies on.
LEMMA ForgottenStep ==
    ASSUME OneTab, IInv, TabsInv, OneTabInv, NEW r \in Request, Serve(r), ~Sent(r),
           IInv', Monotone
    PROVE  NoAlarm' /\ Follows'
<1>1. /\ Handler(r) /\ req[r].stage # "idle" /\ req[r].session = family
      /\ \A q \in Request \ {r} : req'[q] = req[q]
      /\ UNCHANGED <<cookie, fetch, signedIn, screen, calling>>
  BY ServeForgotten DEF browserVars
<1>2. /\ NoAlarm /\ Follows /\ req[r] \in RequestState /\ Grounded(r)
      /\ req[r].stage \in LeftStages /\ req[r].reason # Theft
  BY <1>1, ThreeStates, ActingFacts DEF OneTabInv, NoAlarm, IInv
<1>3. Idle.stage = "idle" /\ Idle.reason # Theft
  BY DEF Idle, Theft, Reason
<1>4. req'[r] = Idle \/ \E stage \in {"sign", "deny"} : req'[r] = [req[r] EXCEPT !.stage = stage]
  BY <1>1, <1>2, HandlerMoves DEF LeftStages
<1>5. req'[r].stage \in {"idle", "sign", "deny"} /\ req'[r].reason # Theft
  BY <1>2, <1>3, <1>4 DEF RequestState
<1>6. session'[family].reason # Theft
  <2>1. CASE RevokeFamily(r) \/ RevokeOne(r)
    BY <1>2, <2>1, RevocationShuts DEF NoAlarm, Unaccused, Theft
  <2>2. CASE ~(RevokeFamily(r) \/ RevokeOne(r))
    <3>1. session' = session
      BY <1>1, <2>2 DEF Handler, IssueFirst, Sign, FindToken, Decide, FindSuccessor, Mint, MintRefused, Deny
    <3>2. QED
      BY <1>2, <3>1 DEF NoAlarm, Unaccused, Theft
  <2>3. QED
    BY <2>1, <2>2
<1>7. NoAlarm'
  <2>1. \A q \in Request : (Sent(q)' <=> Sent(q)) /\ (Refreshing(q)' <=> Refreshing(q))
    BY <1>1 DEF Sent, Refreshing
  <2>2. ASSUME NEW q \in Request
        PROVE  /\ req'[q].reason # Theft
               /\ Refreshing(q)' => req'[q].stage \in {"idle", "find", "found", "mint", "sign"}
               /\ ~Sent(q)' => req'[q].stage \in LeftStages
    <3>1. CASE q = r
      BY <1>5, <2>1, <3>1 DEF Refreshing, LeftStages
    <3>2. CASE q # r
      BY <1>1, <1>2, <2>1, <3>2 DEF NoAlarm
    <3>3. QED
      BY <3>1, <3>2
  <2>3. QED
    BY <1>6, <2>2 DEF NoAlarm, Unaccused, Theft
<1>8. session'[family].status = "REVOKED" => Follows'
  BY DEF Follows
<1>9. Status = "REVOKED" => Follows'
  BY <1>8 DEF Monotone, Status
<1>10. CASE Status # "REVOKED"
  <2>1. Status = "ACTIVE"
    BY <1>1, <1>2, <1>10, ThreeStates DEF Grounded, Status
  <2>2. BeforeSignIn => BeforeSignIn'
    BY <1>1 DEF BeforeSignIn, Refreshing, Sent
  <2>3. CASE RevokeFamily(r) \/ RevokeOne(r)
    <3>1. req[r].session = family
      BY <1>1, <1>2
    <3>2. session'[family].status = "REVOKED"
      BY <1>1, <2>3, <3>1, RevocationShuts
    <3>3. QED
      BY <1>7, <1>8, <3>2
  <2>4. CASE ~(RevokeFamily(r) \/ RevokeOne(r))
    <3>1. session' = session
      BY <1>1, <2>4 DEF Handler, IssueFirst, Sign, FindToken, Decide, FindSuccessor, Mint, MintRefused, Deny
    <3>2. req[r].stage \in {"issueFirst", "sign"}
      <4>1. req[r].stage # "deny"
        BY <1>2, <1>1, <2>1 DEF Grounded, Status
      <4>2. req[r].stage \notin {"revokeFamily", "revokeOne"}
        BY <1>1, <2>4, HandlerMoves
      <4>3. QED
        BY <1>1, <1>2, <4>1, <4>2 DEF LeftStages
    <3>3. ~SigningIn
      BY <3>2 DEF SigningIn
    <3>4. ~SignedIn
      BY <3>2 DEF SignedIn
    <3>5. cookie = 0 /\ BeforeSignIn
      BY <1>2, <2>1, <3>3, <3>4 DEF Follows, Status
    <3>6. session'[family].status = "ACTIVE" /\ cookie' = 0 /\ BeforeSignIn'
      BY <1>1, <2>1, <2>2, <3>1, <3>5 DEF Status
    <3>7. QED
      BY <1>7, <3>6 DEF Follows
  <2>5. QED
    BY <2>3, <2>4
<1>11. QED
  BY <1>7, <1>9, <1>10

LEMMA DeliverStep ==
    ASSUME OneTab, IInv, TabsInv, OneTabInv, NEW r \in Request, Deliver(r)
    PROVE  NoAlarm' /\ Follows'
<1> DEFINE tab == fetch[r].tab
<1>1. /\ Sent(r) /\ tab \in Tab /\ req[r] = Idle /\ Served(r)
      /\ fetch[r].answer \in {"refused", "done", "issued"} /\ fetch[r].route \in Route
      /\ fetch'[r] = Unused /\ ~Sent(r)'
      /\ \A q \in Request \ {r} : fetch'[q] = fetch[q]
      /\ screen'[tab] = ScreenAfter(r) /\ \A t \in Tab \ {tab} : screen'[t] = screen[t]
      /\ UNCHANGED <<vars, calling>>
  BY DeliverFacts
<1>2. /\ cookie' = Jar(r)
      /\ signedIn' = IF fetch[r].answer = "issued" THEN signedIn \cup {tab}
                     ELSE IF DropsToken(r) THEN signedIn \ {tab} ELSE signedIn
  BY DEF Deliver
<1>3. UNCHANGED <<clock, session, token, req>>
  BY <1>1 DEF vars
<1>4. \A q \in Request : Sent(q)' => q # r /\ Sent(q)
  BY <1>1 DEF Sent
<1>5. \A q \in Request : Refreshing(q)' => q # r /\ Refreshing(q)
  BY <1>1, <1>4 DEF Refreshing
<1>6. /\ fetch[r].answer = "issued" => fetch[r].route \in {"login", "refresh"}
      /\ fetch[r].answer = "refused" => fetch[r].route = "refresh"
      /\ fetch[r].answer = "done" => session[family].status = "REVOKED"
  BY <1>1 DEF Served
<1>7. \A t \in Tab : t = tab
  BY <1>1 DEF OneTab
<1>8. Idle.stage = "idle"
  BY DEF Idle
<1>9. NoAlarm'
  <2>1. \A q \in Request : ~Sent(q)' => q = r \/ ~Sent(q)
    BY <1>1 DEF Sent
  <2>2. \A q \in Request : ~Sent(q)' => req'[q].stage \in LeftStages
    BY <1>1, <1>3, <1>8, <2>1 DEF OneTabInv, NoAlarm, LeftStages
  <2>3. QED
    BY <1>3, <1>5, <2>2 DEF OneTabInv, NoAlarm, Unaccused
<1>10. ASSUME BeforeSignIn PROVE BeforeSignIn'
  <2>1. BeforeSignIn
    BY <1>10
  <2>2. fetch[r].answer = "refused" /\ fetch[r].route = "refresh"
    BY <1>1, <2>1 DEF BeforeSignIn, Refreshing
  <2>3. cookie' = 0 /\ signedIn' = {} /\ calling' = {}
    BY <1>1, <1>2, <2>1, <2>2 DEF BeforeSignIn, Jar
  <2>4. screen'[tab] = "UNAUTHENTICATED"
    BY <1>1, <2>2 DEF ScreenAfter, DropsToken
  <2>5. \A q \in Request : ~Sent(q)'
    <3>1. OneRefresh /\ Refreshing(r)
      BY <1>1, <2>2 DEF OneTabInv, Refreshing
    <3>2. \A q \in Request : Sent(q) => Refreshing(q)
      BY <2>1 DEF BeforeSignIn
    <3>3. QED
      BY <1>4, <3>1, <3>2 DEF OneRefresh
  <2>6. QED
    BY <1>7, <2>3, <2>4, <2>5 DEF BeforeSignIn
<1>11. ASSUME session[family].status = "ACTIVE", SigningIn PROVE cookie' # 0 /\ SignedIn'
  <2>1. SigningIn
    BY <1>11
  <2>2. /\ fetch[r].route = "login"
        /\ \A q \in Request \ {r} : ~Sent(q) /\ req[q].stage = "idle"
        /\ Live(family, 1)
        /\ fetch[r].answer = "issued" => fetch[r].gen = 1
    <3>1. PICK q \in Request :
             /\ Sent(q) /\ fetch[q].route = "login"
             /\ \A p \in Request \ {q} : ~Sent(p) /\ req[p].stage = "idle"
             /\ req[q].stage # "issueFirst" => Live(family, 1)
             /\ fetch[q].answer = "issued" => fetch[q].gen = 1
      BY <2>1 DEF SigningIn
    <3>2. q = r
      BY <1>1, <3>1
    <3>3. QED
      BY <1>1, <1>8, <3>1, <3>2
  <2>3. fetch[r].answer = "issued" /\ fetch[r].gen = 1
    BY <1>1, <1>6, <1>11, <2>2
  <2>4. cookie' = 1 /\ Live(family, cookie)'
    BY <1>2, <1>3, <2>2, <2>3 DEF Jar, Live, Exists
  <2>5. \A t \in Tab : screen'[t] = "AUTHENTICATED"
    <3>1. ScreenAfter(r) = "AUTHENTICATED"
      BY <2>2, <2>3 DEF ScreenAfter, DropsToken
    <3>2. QED
      BY <1>1, <1>7, <3>1
  <2>6. \A q \in Request : ~Sent(q)' /\ req'[q].stage = "idle"
    BY <1>1, <1>3, <1>4, <1>8, <2>2
  <2>7. SignedIn'
    BY <2>4, <2>5, <2>6 DEF SignedIn, Refreshing, Rotated, Live, Exists
  <2>8. QED
    BY <2>4, <2>7
<1>12. ASSUME session[family].status = "ACTIVE", cookie # 0 PROVE cookie' # 0 /\ SignedIn'
  <2>1. SignedIn
    BY <1>12 DEF OneTabInv, Follows
  <2>2. /\ Refreshing(r) /\ Carries(r) /\ fetch[r].answer \in {"issued", "refused"}
    BY <1>1, <1>6, <1>12, <2>1 DEF SignedIn, Refreshing
  <2>3. \A q \in Request : ~Refreshing(q)'
    BY <1>5, <2>2 DEF OneTabInv, OneRefresh
  <2>4. \A q \in Request : IF Sent(q)' THEN fetch'[q].route # "login"
                          ELSE req'[q].stage \in {"idle", "revokeFamily", "revokeOne", "deny"}
    <3>1. \A q \in Request \ {r} : Sent(q)' <=> Sent(q)
      BY <1>1 DEF Sent
    <3>2. QED
      BY <1>1, <1>3, <1>8, <2>1, <3>1 DEF SignedIn
  <2>5. cookie \in Nat
    BY <2>1, <1>12, JarHasRow DEF Gen
  <2>6. CASE fetch[r].answer = "issued"
    <3>1. cookie' = cookie + 1
      <4>1. fetch[r].gen = cookie + 1
        BY <2>2, <2>6 DEF Carries
      <4>2. Jar(r) = fetch[r].gen
        BY <1>6, <2>6 DEF Jar
      <4>3. QED
        BY <1>2, <4>1, <4>2
    <3>2. Live(family, cookie + 1)
      BY <2>1, <2>2, <2>6 DEF SignedIn, Rotated
    <3>3. Live(family, cookie)'
      BY <1>3, <3>1, <3>2 DEF Live, Exists
    <3>4. \A t \in Tab : screen'[t] # "UNAUTHENTICATED"
      <4>1. \A t \in Tab : screen[t] # "UNAUTHENTICATED"
        BY <2>1, <2>2, <2>6 DEF SignedIn
      <4>2. QED
        <5>1. ScreenAfter(r) \in {"AUTHENTICATED", screen[tab]}
          BY <1>6, <2>6 DEF ScreenAfter, DropsToken
        <5>2. QED
          BY <1>1, <1>7, <4>1, <5>1
    <3>5. SignedIn'
      BY <2>3, <2>4, <3>3, <3>4 DEF SignedIn, Rotated, Live, Exists
    <3>6. QED
      BY <2>5, <3>1, <3>5
  <2>7. CASE fetch[r].answer = "refused"
    <3>1. cookie' = cookie
      BY <1>2, <2>2, <2>7 DEF Jar, Refreshing
    <3>2. ~\E q \in Request : Rotated(q)
      BY <1>1, <1>8, <2>2, <2>7 DEF OneTabInv, OneRefresh, Rotated
    <3>3. Live(family, cookie)
      BY <2>1, <3>2 DEF SignedIn
    <3>4. Live(family, cookie)' /\ CookieExpired'
      BY <1>3, <2>2, <2>7, <3>1, <3>3 DEF Live, Exists, Carries, CookieExpired
    <3>5. SignedIn'
      BY <2>3, <2>4, <3>1, <3>4 DEF SignedIn, Rotated, Live, Exists
    <3>6. QED
      BY <1>12, <3>1, <3>5
  <2>8. QED
    BY <2>2, <2>6, <2>7
<1>13. Follows'
  <2>1. BeforeSignIn => cookie' = 0
    BY <1>10 DEF BeforeSignIn
  <2>2. QED
    BY <1>3, <1>10, <1>11, <1>12, <2>1 DEF OneTabInv, Follows
<1>14. QED
  BY <1>9, <1>13

LEMMA SendStep ==
    ASSUME OneTab, IInv, TabsInv, OneTabInv, NEW t \in Tab, NEW r \in Request,
           Login(t, r) \/ Refresh(t, r) \/ Restore(t, r) \/ Logout(t, r) \/ Revoke(t, r),
           Monotone
    PROVE  NoAlarm' /\ Follows'
<1>1. PICK route \in Route, answer \in Answered :
         /\ SendsOne(t, r, route, answer)
         /\ Login(t, r) => route = "login"
         /\ Refresh(t, r) \/ Restore(t, r) => route = "refresh"
         /\ Logout(t, r) => route = "logout"
         /\ Revoke(t, r) => route = "revoke"
  <2>1. ASSUME NEW route \in Route, NEW answer \in Answered, SendsOne(t, r, route, answer)
        PROVE  fetch'[r].route = route
    <3>1. fetch'[r] = [tab |-> t, route |-> route, answer |-> answer, gen |-> 0]
      BY <2>1, SendFacts
    <3>2. QED
      BY <3>1
  <2>2. {"login", "refresh", "logout", "revoke"} = Route /\ {"pending", "refused"} \subseteq Answered
    BY DEF Route, Answered
  <2>3. TabTypes
    BY DEF TabsInv
  <2>4. \E route \in Route, answer \in Answered : SendsOne(t, r, route, answer)
    BY <2>2, <2>3, TabsSend
  <2>5. PICK route \in Route, answer \in Answered : SendsOne(t, r, route, answer)
    BY <2>4
  <2>6. route = fetch'[r].route
    BY <2>1, <2>5
  <2>7. /\ Login(t, r) => fetch'[r].route = "login"
        /\ Refresh(t, r) \/ Restore(t, r) => fetch'[r].route = "refresh"
        /\ Logout(t, r) => fetch'[r].route = "logout"
        /\ Revoke(t, r) => fetch'[r].route = "revoke"
    BY <2>1, <2>2, <2>3, TabsSend
  <2>8. QED
    BY <2>5, <2>6, <2>7
<1>2. /\ ~Sent(r) /\ req[r] = Idle /\ Sent(r)'
      /\ fetch'[r] = [tab |-> t, route |-> route, answer |-> answer, gen |-> 0]
      /\ \A q \in Request \ {r} : req'[q] = req[q] /\ fetch'[q] = fetch[q]
      /\ session # session' => route = "login" /\ OpenSession(r, family)
      /\ UNCHANGED <<clock, token, cookie>>
  BY <1>1, SendFacts
<1>3. fetch'[r].tab = t /\ fetch'[r].route = route /\ fetch'[r].answer = answer
  BY <1>2
<1>4. IF answer = "pending"
      THEN /\ req'[r].session = family
           /\ route = "login" => req'[r].stage = "issueFirst"
           /\ route = "refresh" => /\ req'[r].stage = "find"
                                   /\ req'[r].presented = cookie /\ req'[r].now = clock
                                   /\ cookie \in 1 .. MaxGen - 1
           /\ req'[r].reason \in {NULL, "USER_SIGNED_OUT"}
      ELSE answer = "refused" /\ route = "refresh" /\ cookie = 0 /\ UNCHANGED vars
  BY <1>1, SentHandler
<1>5. /\ OneTabInv /\ OneRefresh /\ NoAlarm /\ Follows
      /\ \A u \in Tab : u = t
      /\ Idle.stage = "idle" /\ Idle.reason = NULL /\ NULL # Theft
  BY DEF OneTabInv, OneTab, Idle, Theft, Reason
<1>6. \A q \in Request : Sent(q) => fetch[q].tab = t
  BY DEF OneTab, Sent, TabsInv, TabTypes, Fetches
<1>7. \A q \in Request \ {r} : (Sent(q)' <=> Sent(q)) /\ (Refreshing(q)' <=> Refreshing(q))
  BY <1>2 DEF Sent, Refreshing
<1>8. NoAlarm'
  <2>1. Unaccused'
    <3>1. CASE session' = session
      BY <1>5, <3>1 DEF NoAlarm, Unaccused
    <3>2. CASE session' # session
      <4>1. session' = [session EXCEPT ![family] =
               [status |-> "ACTIVE", reason |-> NULL, absoluteExpiresAt |-> clock + RefreshTtl]]
        BY <1>2, <3>2 DEF OpenSession
      <4>2. session'[family].reason = NULL
        BY <4>1 DEF IInv, TypeOK
      <4>3. QED
        BY <1>5, <4>2 DEF Unaccused, Theft
    <3>3. QED
      BY <3>1, <3>2
  <2>2. ASSUME NEW q \in Request
        PROVE  /\ req'[q].reason # Theft
               /\ Refreshing(q)' => req'[q].stage \in {"idle", "find", "found", "mint", "sign"}
               /\ ~Sent(q)' => req'[q].stage \in LeftStages
    <3>1. CASE q # r
      BY <1>2, <1>5, <1>7, <3>1 DEF NoAlarm
    <3>2. CASE q = r /\ answer = "pending"
      BY <1>2, <1>3, <1>4, <1>5, <3>2 DEF Refreshing, Theft
    <3>3. CASE q = r /\ answer # "pending"
      BY <1>2, <1>4, <1>5, <3>3 DEF vars
    <3>4. QED
      BY <3>1, <3>2, <3>3
  <2>3. QED
    BY <2>1, <2>2 DEF NoAlarm
<1>9. CASE Status = "REVOKED"
  BY <1>8, <1>9 DEF Follows, Monotone, Status
<1>a. ASSUME BeforeSignIn, Restore(t, r) PROVE BeforeSignIn' /\ session' = session
  <2>1. /\ screen' = [screen EXCEPT ![t] = "LOADING"] /\ UNCHANGED <<signedIn, calling>>
        /\ route = "refresh"
    BY <1>1, <1>a DEF Restore
  <2>2. cookie = 0 /\ cookie' = 0
    BY <1>2, <1>a DEF BeforeSignIn
  <2>3. answer = "refused" /\ session' = session
    BY <1>4, <2>1, <2>2 DEF vars
  <2>4. \A q \in Request \ {r} : ~Sent(q)'
    BY <1>7, <1>a, RefreshIsAlone
  <2>5. screen'[t] = "LOADING"
    BY <2>1 DEF TabsInv, TabTypes
  <2>6. BeforeSignIn'
    BY <1>3, <1>5, <1>a, <2>1, <2>2, <2>3, <2>4, <2>5 DEF BeforeSignIn, Refreshing
  <2>7. QED
    BY <2>3, <2>6
<1>b. BeforeSignIn => ~Refresh(t, r) /\ ~Logout(t, r) /\ ~Revoke(t, r)
  BY DEF BeforeSignIn, Refresh, Logout, Revoke
<1>10. CASE Status = "NONE"
  <2>1. BeforeSignIn
    BY <1>5, <1>10 DEF Follows, Status
  <2>2. CASE Login(t, r)
    <3>1. /\ screen[t] = "UNAUTHENTICATED" /\ OpenSession(r, family) /\ route = "login"
          /\ UNCHANGED <<screen, calling, signedIn>>
      BY <1>1, <2>2 DEF Login, Send
    <3>2. session'[family].status = "ACTIVE"
      <4>1. session' = [session EXCEPT ![family] =
               [status |-> "ACTIVE", reason |-> NULL, absoluteExpiresAt |-> clock + RefreshTtl]]
        BY <3>1 DEF OpenSession
      <4>2. QED
        BY <4>1 DEF IInv, TypeOK
    <3>3. answer = "pending" /\ req'[r].stage = "issueFirst"
      BY <1>4, <3>1
    <3>4. ASSUME NEW q \in Request \ {r} PROVE ~Sent(q)' /\ req'[q].stage = "idle"
      <4>1. ~Sent(q)'
        BY <1>6, <1>7, <2>1, <3>1 DEF BeforeSignIn
      <4>2. req[q] = Idle \/ req[q].session = family
        BY <1>7, <4>1 DEF TabsInv, Served
      <4>3. req[q].stage # "idle" => Grounded(q)
        BY ActingFacts DEF IInv
      <4>4. req[q].stage = "idle"
        BY <1>5, <1>10, <4>2, <4>3 DEF Grounded, Status
      <4>5. QED
        BY <1>2, <4>1, <4>4
    <3>5. SigningIn'
      BY <1>2, <1>3, <1>5, <2>1, <3>1, <3>3, <3>4 DEF SigningIn, BeforeSignIn
    <3>6. QED
      BY <1>2, <1>8, <2>1, <3>2, <3>5 DEF Follows, BeforeSignIn
  <2>3. CASE Restore(t, r)
    BY <1>8, <1>10, <1>a, <2>1, <2>3 DEF Follows, Status
  <2>4. QED
    BY <1>b, <2>1, <2>2, <2>3
<1>11. CASE Status = "ACTIVE" /\ cookie = 0
  <2>1. ~Login(t, r)
    BY <1>11 DEF Login, OpenSession, Status
  <2>2. CASE BeforeSignIn
    <3>1. Restore(t, r)
      BY <1>b, <2>1, <2>2
    <3>2. QED
      BY <1>2, <1>8, <1>11, <1>a, <2>2, <3>1 DEF Follows, Status
  <2>3. CASE ~BeforeSignIn
    <3>1. SigningIn
      BY <1>5, <1>11, <2>3 DEF Follows, Status
    <3>2. ~Refresh(t, r) /\ ~Restore(t, r) /\ ~Logout(t, r) /\ ~Revoke(t, r)
      BY <3>1 DEF SigningIn, Refresh, Restore, Logout, Revoke
    <3>3. QED
      BY <2>1, <3>2
  <2>4. QED
    BY <2>2, <2>3
<1>12. CASE Status = "ACTIVE" /\ cookie # 0
  <2>1. SignedIn
    BY <1>5, <1>12 DEF Follows, Status
  <2>2. ~Login(t, r)
    BY <1>12 DEF Login, OpenSession, Status
  <2>3. route # "login" /\ answer = "pending" /\ session' = session
    BY <1>1, <1>2, <1>4, <1>12, <2>2
  <2>4. /\ Live(family, cookie)' <=> Live(family, cookie)
        /\ Live(family, cookie + 1)' <=> Live(family, cookie + 1)
        /\ CookieExpired' <=> CookieExpired
    BY <1>2 DEF Live, Exists, CookieExpired
  <2>5. \A q \in Request \ {r} : (Rotated(q)' <=> Rotated(q)) /\ (Carries(q) => Carries(q)')
    BY <1>2, <1>7, <2>4 DEF Rotated, Carries
  <2>6. \A q \in Request : IF Sent(q)' THEN fetch'[q].route # "login"
                          ELSE req'[q].stage \in {"idle", "revokeFamily", "revokeOne", "deny"}
    BY <1>2, <1>3, <1>7, <2>1, <2>3 DEF SignedIn
  <2>7. CASE Refresh(t, r) \/ Restore(t, r)
    <3>1. \A q \in Request : ~Refreshing(q)
      BY <2>7, RefreshIsAlone
    <3>2. /\ req'[r].stage = "find" /\ req'[r].presented = cookie /\ req'[r].now = clock
          /\ fetch'[r].answer = "pending" /\ route = "refresh"
      BY <1>1, <1>3, <1>4, <2>3, <2>7
    <3>3. Carries(r)' /\ ~Rotated(r)'
      BY <1>2, <3>2, ThreeStates DEF Carries, Rotated
    <3>4. /\ \A q \in Request : Refreshing(q)' => q = r
          /\ ~\E q \in Request : Rotated(q)'
          /\ ~\E q \in Request : Rotated(q)
      BY <1>7, <2>5, <3>1, <3>3 DEF Rotated
    <3>5. Live(family, cookie)'
      BY <2>1, <2>4, <3>4 DEF SignedIn
    <3>6. ASSUME NEW u \in Tab, screen'[u] = "UNAUTHENTICATED"
          PROVE  CookieExpired' /\ token'[family][cookie'].expiresAt <= req'[r].now
      <4>1. screen[u] = "UNAUTHENTICATED"
        BY <1>5, <2>7, <3>6 DEF Refresh, Restore, TabsInv, TabTypes
      <4>2. CookieExpired
        BY <2>1, <4>1 DEF SignedIn
      <4>3. QED
        BY <1>2, <2>4, <3>2, <4>2 DEF CookieExpired
    <3>7. SignedIn'
      BY <2>6, <3>2, <3>3, <3>4, <3>5, <3>6 DEF SignedIn
    <3>8. QED
      BY <1>2, <1>8, <1>12, <2>3, <3>7 DEF Follows, Status
  <2>8. CASE Logout(t, r) \/ Revoke(t, r)
    <3>1. route # "refresh" /\ screen' = screen
      BY <1>1, <2>8 DEF Logout, Revoke
    <3>2. ~Refreshing(r)' /\ ~Refreshing(r)
      BY <1>2, <1>3, <3>1 DEF Refreshing
    <3>3. (\E q \in Request : Rotated(q)') <=> \E q \in Request : Rotated(q)
      BY <2>5, <3>2 DEF Rotated
    <3>4. \A q \in Request : Refreshing(q)' => q # r /\ Refreshing(q) /\ Carries(q)'
      BY <1>7, <2>1, <2>5, <3>2 DEF SignedIn
    <3>5. \A u \in Tab : screen'[u] = "UNAUTHENTICATED" =>
             /\ CookieExpired'
             /\ \A q \in Request : Refreshing(q)' =>
                   /\ req'[q].stage \in {"idle", "find", "found"} /\ fetch'[q].answer # "issued"
                   /\ req'[q].stage # "idle" => token'[family][cookie'].expiresAt <= req'[q].now
      BY <1>2, <2>1, <2>4, <3>1, <3>4 DEF SignedIn
    <3>6. SignedIn'
      BY <2>1, <2>4, <2>6, <3>3, <3>4, <3>5 DEF SignedIn
    <3>7. QED
      BY <1>2, <1>8, <1>12, <2>3, <3>6 DEF Follows, Status
  <2>9. QED
    BY <2>2, <2>7, <2>8
<1>13. QED
  BY <1>9, <1>10, <1>11, <1>12, ThreeStates

LEMMA OneTabInit == ASSUME BrowserInit PROVE OneTabInv
<1>1. Idle.stage = "idle" /\ Idle.reason # Theft /\ NULL # Theft
  BY DEF Idle, Theft, Reason
<1>2. /\ \A r \in Request : req[r] = Idle /\ ~Sent(r)
      /\ session[family].status = "NONE" /\ session[family].reason = NULL
  BY DEF BrowserInit, Init, Sent, Unused
<1>3. OneRefresh /\ NoAlarm
  BY <1>1, <1>2 DEF OneRefresh, Refreshing, NoAlarm, Unaccused, Theft, LeftStages
<1>4. BeforeSignIn
  BY <1>2 DEF BrowserInit, BeforeSignIn
<1>5. QED
  BY <1>2, <1>3, <1>4 DEF OneTabInv, Follows

\* A page is left with nothing to be refreshed: the session it had is as it was.
LEMMA LeaveStep ==
    ASSUME OneTab, IInv, TabsInv, OneTabInv, NEW t \in Tab, Leave(t), overtaken' = {}
    PROVE  NoAlarm' /\ Follows'
<1>1. \A q \in Request : Sent(q) => fetch[q].tab = t
  BY DEF OneTab, Sent, TabsInv, TabTypes, Fetches
<1>2. /\ \A q \in Request : ~Sent(q)'
      /\ UNCHANGED <<cookie, clock, session, token, req>>
      /\ signedIn' = signedIn \ {t} /\ calling' = calling \ {t}
      /\ \A u \in Tab : screen'[u] = "CLOSED"
  <2>1. \A q \in Request : fetch'[q] = IF fetch[q].tab = t THEN Unused ELSE fetch[q]
    BY DEF Leave
  <2>2. Unused.tab = NULL
    BY DEF Unused
  <2>3. \A u \in Tab : screen'[u] = "CLOSED"
    BY DEF Leave, OneTab, TabsInv, TabTypes
  <2>4. QED
    BY <1>1, <2>1, <2>2, <2>3 DEF Leave, vars, Sent
<1>3. \A q \in Request : Refreshing(q) => fetch[q].answer = "refused" /\ req[q] = Idle
  <2>1. ASSUME NEW q \in Request, Refreshing(q), fetch[q].answer # "refused" PROVE FALSE
    <3>1. fetch[q].tab = t /\ fetch[q].route = "refresh"
      BY <1>1, <2>1 DEF Refreshing
    <3>2. QED
      BY <2>1, <3>1 DEF Leave
  <2>2. \A q \in Request : Served(q)
    BY DEF TabsInv
  <2>3. QED
    BY <2>1, <2>2 DEF Refreshing, Served
<1>4. Idle.stage = "idle"
  BY DEF Idle
<1>5. ASSUME NEW q \in Request, Sent(q), fetch[q].route # "login"
      PROVE  req[q].stage \in {"idle", "revokeFamily", "revokeOne", "deny"}
  <2>1. Served(q) /\ fetch[q].route \in Route
    BY DEF TabsInv, TabTypes, Fetches
  <2>2. CASE fetch[q].route = "refresh"
    BY <1>3, <1>4, <1>5, <2>2 DEF Refreshing
  <2>3. CASE fetch[q].route \in {"logout", "revoke"}
    <3>1. StagesOf(fetch[q].route) \subseteq {"revokeFamily", "revokeOne", "deny"}
      BY <2>3 DEF StagesOf
    <3>2. QED
      BY <1>4, <1>5, <2>1, <3>1 DEF Served
  <2>4. QED
    BY <1>5, <2>1, <2>2, <2>3 DEF Route
<1>6. NoAlarm'
  <2>1. ASSUME NEW q \in Request PROVE req[q].stage \in LeftStages
    <3>1. CASE ~Sent(q)
      BY <3>1 DEF OneTabInv, NoAlarm
    <3>2. CASE Sent(q) /\ fetch[q].route = "login"
      <4>1. Served(q)
        BY DEF TabsInv
      <4>2. StagesOf(fetch[q].route) = {"issueFirst", "sign"}
        BY <3>2 DEF StagesOf
      <4>3. QED
        BY <1>4, <3>2, <4>1, <4>2 DEF Served, LeftStages
    <3>3. CASE Sent(q) /\ fetch[q].route # "login"
      BY <1>5, <3>3 DEF LeftStages
    <3>4. QED
      BY <3>1, <3>2, <3>3
  <2>2. QED
    BY <1>2, <2>1 DEF OneTabInv, NoAlarm, Unaccused, Refreshing
<1>7. BeforeSignIn \/ (SigningIn /\ cookie = 0) => BeforeSignIn'
  BY <1>2 DEF BeforeSignIn, SigningIn
<1>8. SignedIn => SignedIn'
  <2>1. SUFFICES ASSUME SignedIn PROVE SignedIn'
    OBVIOUS
  <2>2. \A q \in Request : req'[q].stage \in {"idle", "revokeFamily", "revokeOne", "deny"}
    BY <1>2, <1>5, <2>1 DEF SignedIn
  <2>3. \A q \in Request : ~Rotated(q) /\ ~Rotated(q)' /\ ~Refreshing(q)'
    BY <1>2, <1>3, <1>4 DEF Rotated, Refreshing
  <2>4. Live(family, cookie)'
    BY <1>2, <2>1, <2>3 DEF SignedIn, Live, Exists
  <2>5. QED
    BY <1>2, <2>2, <2>3, <2>4 DEF SignedIn
<1>9. Follows /\ session' = session /\ cookie' = cookie
  BY <1>2 DEF OneTabInv
<1>10. Follows'
  BY <1>7, <1>8, <1>9 DEF Follows
<1>11. QED
  BY <1>6, <1>10

LEMMA OneTabStep ==
    ASSUME OneTab, IInv, TabsInv, OneTabInv, [BrowserNext]_allVars, overtaken' = {}
    PROVE  OneTabInv'
<1>1. IInv' /\ Monotone /\ OneRefresh'
  BY TabsStep, TabsOnlyAskStep, StepIsMonotone, OneRefreshStep DEF OneTabInv, TabsInv
<1>2. ASSUME NEW r \in Request, Serve(r) PROVE OneTabInv'
  BY <1>1, <1>2, ServeAlarmless, ServeStep, ForgottenStep DEF OneTabInv
<1>3. ASSUME NEW r \in Request, Deliver(r) PROVE OneTabInv'
  BY <1>1, <1>3, DeliverStep DEF OneTabInv
<1>4. ASSUME NEW t \in Tab, NEW r \in Request,
             Login(t, r) \/ Refresh(t, r) \/ Restore(t, r) \/ Logout(t, r) \/ Revoke(t, r)
      PROVE  OneTabInv'
  BY <1>1, <1>4, SendStep DEF OneTabInv
<1>5. ASSUME NEW t \in Tab, Call(t) \/ CallAnswered(t) PROVE OneTabInv'
  <2>1. /\ UNCHANGED <<cookie, fetch, signedIn, screen, req, token, session, clock>>
        /\ calling # {} \/ screen[t] = "AUTHENTICATED"
    BY <1>5 DEF Call, CallAnswered, vars
  <2>2. clock' >= clock
    BY <2>1, ThreeStates
  <2>3. QED
    BY <1>1, <2>1, <2>2, CalmStep
<1>6. CASE Tick /\ UNCHANGED browserVars
  <2>1. /\ UNCHANGED <<cookie, fetch, signedIn, screen, calling, req, token, session>>
        /\ clock' = clock + 1
    BY <1>6 DEF Tick, browserVars
  <2>2. clock' >= clock
    BY <2>1, ThreeStates
  <2>3. QED
    BY <1>1, <2>1, <2>2, CalmStep
<1>7. ASSUME NEW u \in User, ResetPassword(u), UNCHANGED browserVars PROVE OneTabInv'
  <2>1. /\ UNCHANGED <<cookie, fetch, signedIn, screen, calling, req, token, clock>>
        /\ session' = RevokeWhereActive({s \in Session : Owner[s] = u}, "PASSWORD_RESET")
    BY <1>7 DEF ResetPassword, browserVars
  <2>2. CASE session'[family] = session[family]
    <3>1. clock' >= clock
      BY <2>1, ThreeStates
    <3>2. QED
      BY <1>1, <2>1, <2>2, <3>1, CalmStep
  <2>3. CASE session'[family] # session[family]
    <3>1. "PASSWORD_RESET" \in Reason /\ TypeOK
      BY DEF Reason, IInv
    <3>2. session'[family].status = "REVOKED" /\ session'[family].reason = "PASSWORD_RESET"
      <4>1. family \in {s \in Session : Owner[s] = u}
        BY <2>1, <2>3, <3>1, RevokeWhereActiveFacts
      <4>2. Status # "NONE" /\ Status # "REVOKED"
        <5>1. Status # "REVOKED"
          BY <2>1, <2>3, <3>1, RevokeWhereActiveFacts DEF Status
        <5>2. Status = "NONE" => session'[family] = session[family]
          BY <2>1 DEF RevokeWhereActive, Status
        <5>3. QED
          BY <2>3, <5>1, <5>2
      <4>3. Status = "ACTIVE"
        BY <4>2, ThreeStates
      <4>4. QED
        BY <2>1, <2>3, <3>1, <4>1, <4>3, RevokeWhereActiveFacts DEF Status
    <3>3. NoAlarm'
      BY <2>1, <3>2 DEF OneTabInv, NoAlarm, Unaccused, Refreshing, Sent
    <3>4. QED
      BY <1>1, <3>2, <3>3 DEF OneTabInv, Follows
  <2>4. QED
    BY <2>2, <2>3
<1>8. CASE UNCHANGED allVars
  <2>1. UNCHANGED <<cookie, fetch, signedIn, screen, calling, req, token, session, clock>>
    BY <1>8 DEF allVars, vars
  <2>2. clock' >= clock
    BY <2>1, ThreeStates
  <2>3. QED
    BY <1>1, <2>1, <2>2, CalmStep
<1>9. ASSUME NEW t \in Tab, Leave(t) PROVE OneTabInv'
  BY <1>1, <1>9, LeaveStep DEF OneTabInv
<1>10. QED
  BY <1>2, <1>3, <1>4, <1>5, <1>6, <1>7, <1>8, <1>9 DEF BrowserNext

\* A tab that was left mid-refresh is remembered.
LEMMA OvertakenGrows == ASSUME [BrowserNext]_allVars PROVE overtaken \subseteq overtaken'
BY DEF BrowserNext, Serve, Deliver, Login, Refresh, Restore, Logout, Revoke, Call, CallAnswered,
       Leave, Send, RefuseBare, browserVars, allVars

(* The cookie jar of a browser with one tab, by the state of its session:   *)
(* until the page is left mid-refresh, it holds what rotates, or the one    *)
(* refresh under way brings it.                                             *)
THEOREM OneTabIsFollowed == ASSUME OneTab PROVE BrowserSpec => []OneTabKept
<1>1. BrowserInit => OneTabKept
  BY OneTabInit DEF OneTabKept
<1>2. IInv /\ TabsInv /\ OneTabKept /\ [BrowserNext]_allVars => OneTabKept'
  BY OneTabStep, OvertakenGrows DEF OneTabKept
<1>3. QED
  BY <1>1, <1>2, TabsAreServed, PTL DEF BrowserSpec

(* A browser with one tab is never taken for a thief, in whatever order its *)
(* answers come and whenever its page is loaded, until a page is left while *)
(* it was refreshing ("so the promise is shared", client.ts).               *)
THEOREM NoTheftByOrder == ASSUME OneTab PROVE BrowserSpec => []NoFalseTheft
<1>1. OneTabKept => NoFalseTheft
  BY DEF OneTabKept, OneTabInv, NoAlarm, Unaccused, NoFalseTheft
<1>2. QED
  BY <1>1, OneTabIsFollowed, PTL

(* At rest and signed in, it holds the generation that still rotates.       *)
THEOREM CookieStillRotates == ASSUME OneTab PROVE BrowserSpec => []CookieRotates
<1>1. ASSUME OneTabKept PROVE CookieRotates
  <2>1. SUFFICES ASSUME Quiet, cookie # 0, session[family].status = "ACTIVE", overtaken = {}
                 PROVE  Live(family, cookie)
    BY DEF CookieRotates
  <2>2. SignedIn
    BY <1>1, <2>1 DEF OneTabKept, OneTabInv, Follows
  <2>3. \A r \in Request : ~Rotated(r)
    BY <2>1 DEF Quiet, Rotated, Refreshing, Sent, Unused
  <2>4. QED
    BY <2>2, <2>3 DEF SignedIn
<1>2. QED
  BY <1>1, OneTabIsFollowed, PTL

(* What the tab shows is what it holds (the session context, client.ts).    *)
THEOREM ScreenIsFollowed == ASSUME OneTab PROVE BrowserSpec => []ScreenFollows
<1>1. ASSUME IInv, TabsInv, OneTabKept PROVE ScreenFollows
  <2>1. ASSUME NEW t \in Tab, Quiet, screen[t] = "UNAUTHENTICATED", t \in signedIn \/ cookie # 0,
               session[family].status = "ACTIVE", overtaken = {}
        PROVE  CookieExpired
    <3>1. \A r \in Request : ~Sent(r)
      BY <2>1 DEF Quiet, Sent, Unused
    <3>2. cookie # 0 /\ SignedIn
      BY <1>1, <2>1, <3>1 DEF OneTabKept, OneTabInv, Follows, SigningIn, BeforeSignIn
    <3>3. QED
      BY <2>1, <3>2 DEF SignedIn
  <2>2. QED
    BY <1>1, <2>1 DEF ScreenFollows, TabsInv, ScreensHold
<1>2. QED
  BY <1>1, OneTabIsFollowed, TabsAreServed, PTL
=============================================================================
