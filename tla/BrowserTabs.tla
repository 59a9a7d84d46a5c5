----------------------------- MODULE BrowserTabs -----------------------------
(***************************************************************************)
(* One browser in front of RefreshSession: tabs of the dashboard, each     *)
(* with its own access token in memory and its own single-flight refresh   *)
(* (apps/admin-dashboard/src/shared/api/client.ts), and one cookie jar     *)
(* they all share.  A request carries the cookie of the moment it was      *)
(* sent; its response sets the cookie when it arrives, which need not be   *)
(* in the order the server answered.  A page that is left takes with it    *)
(* what it awaits: the server finishes, and the answer reaches nobody.     *)
(* Nothing else is lost and no handler fails: what goes wrong goes wrong   *)
(* by order alone.                                                         *)
(***************************************************************************)
EXTENDS RefreshSession

CONSTANTS
    Tab,    \* the tabs of one browser
    family  \* the session the browser holds

ASSUME FamilyAssumption == family \in Session
ASSUME TabAssumption    == NULL \notin Tab

VARIABLES
    cookie,   \* the generation in the cookie jar; 0: none
    fetch,    \* by handler: the tab that awaits it, its route, and its answer once given
    signedIn, \* the tabs that hold an access token in memory
    screen,   \* by tab: the status its session context renders
    calling,  \* the tabs with a call to the API under way, one at a time
    overtaken \* history: the tabs that were left while a refresh of theirs was under way

browserVars == <<cookie, fetch, signedIn, screen, calling, overtaken>>
allVars     == <<vars, cookie, fetch, signedIn, screen, calling, overtaken>>

Route == {"login", "refresh", "logout", "revoke"}

\* What the session context renders, or no page at all.
Screen == {"CLOSED", "LOADING", "UNAUTHENTICATED", "AUTHENTICATED"}

\* What the server has answered: nothing yet, an error, success, or success with a token.
Answered == {"pending", "refused", "done", "issued"}

Unused == [tab |-> NULL, route |-> "login", answer |-> "pending", gen |-> 0]

BrowserInit ==
    /\ Init
    /\ cookie = 0
    /\ fetch = [r \in Request |-> Unused]
    /\ signedIn = {}
    /\ screen = [t \in Tab |-> "CLOSED"]
    /\ calling = {}
    /\ overtaken = {}

-----------------------------------------------------------------------------
Awaits(t, route) == \E r \in Request : fetch[r].tab = t /\ fetch[r].route = route

Sent(r) == fetch[r].tab # NULL

Quiet == \A r \in Request : fetch[r] = Unused

\* A refresh without a cookie is refused at the door.
RefuseBare(t, r) ==
    /\ fetch[r] = Unused /\ req[r] = Idle
    /\ fetch' = [fetch EXCEPT ![r] = [Unused EXCEPT !.tab = t, !.route = "refresh",
                                                    !.answer = "refused"]]
    /\ UNCHANGED <<vars, cookie, signedIn, overtaken>>

Send(t, r, route) ==
    /\ fetch[r] = Unused
    /\ fetch' = [fetch EXCEPT ![r] = [Unused EXCEPT !.tab = t, !.route = route]]
    /\ UNCHANGED <<cookie, signedIn, overtaken>>

\* The sign-in form, which is busy until its answer comes.
Login(t, r) ==
    /\ screen[t] = "UNAUTHENTICATED" /\ ~Awaits(t, "login")
    /\ OpenSession(r, family)
    /\ Send(t, r, "login")
    /\ UNCHANGED <<screen, calling>>

\* The dashboard polls; the answer may be anything and, if it is a 401, calls for a refresh.
Call(t) ==
    /\ screen[t] = "AUTHENTICATED" /\ t \notin calling
    /\ calling' = calling \union {t}
    /\ UNCHANGED <<vars, cookie, fetch, signedIn, screen, overtaken>>

CallAnswered(t) ==
    /\ t \in calling
    /\ calling' = calling \ {t}
    /\ UNCHANGED <<vars, cookie, fetch, signedIn, screen, overtaken>>

Refresh_NoSingleFlight(t, r) ==   \* mutant: every 401 sends a refresh of its own
    /\ t \in calling
    /\ \/ cookie \in 1..(MaxGen - 2) /\ BeginRotate(r, family, cookie) /\ Send(t, r, "refresh")
       \/ cookie = 0 /\ RefuseBare(t, r)
    /\ calling' = calling \ {t}
    /\ UNCHANGED screen

\* refresh, after a 401, which may reach a tab that was signed out meanwhile: the promise of
\* one in flight is shared, so a tab sends no second one.
\* (The bound on generations stops the browser, never a handler halfway: a replay within
\* the grace is minted from the successor.)
Refresh(t, r) ==
    /\ t \in calling /\ ~Awaits(t, "refresh")
    /\ \/ cookie \in 1..(MaxGen - 2) /\ BeginRotate(r, family, cookie) /\ Send(t, r, "refresh")
       \/ cookie = 0 /\ RefuseBare(t, r)
    /\ calling' = calling \ {t}
    /\ UNCHANGED screen

\* A page is closed or reloaded, at any moment: its token, its promise and its calls die with
\* it.  The browser drops the answers it awaited, cookie and all; the server knows nothing.
Leave(t) ==
    /\ screen[t] # "CLOSED"
    /\ screen' = [screen EXCEPT ![t] = "CLOSED"]
    /\ signedIn' = signedIn \ {t}
    /\ calling' = calling \ {t}
    /\ fetch' = [r \in Request |-> IF fetch[r].tab = t THEN Unused ELSE fetch[r]]
    /\ overtaken' = IF \E r \in Request : /\ fetch[r].tab = t /\ fetch[r].route = "refresh"
                                          /\ fetch[r].answer # "refused"
                    THEN overtaken \union {t} ELSE overtaken
    /\ UNCHANGED <<vars, cookie>>

\* A page loads with no token, and one refresh decides between signed in and not.
Restore(t, r) ==
    /\ screen[t] = "CLOSED"
    /\ screen' = [screen EXCEPT ![t] = "LOADING"]
    /\ fetch[r] = Unused /\ req[r] = Idle
    /\ fetch' = [fetch EXCEPT ![r] = [Unused EXCEPT !.tab = t, !.route = "refresh",
                                     !.answer = IF cookie = 0 THEN "refused" ELSE "pending"]]
    /\ cookie + 1 < MaxGen
    /\ IF cookie = 0 THEN UNCHANGED vars ELSE BeginRotate(r, family, cookie)
    /\ UNCHANGED <<cookie, signedIn, calling, overtaken>>

\* The sign-out button works while other requests of the tab are under way.
Logout(t, r) ==
    /\ screen[t] = "AUTHENTICATED" /\ ~Awaits(t, "logout")
    /\ cookie # 0
    /\ BeginLogout(r, family, cookie)
    /\ Send(t, r, "logout")
    /\ UNCHANGED <<screen, calling>>

\* The sessions screen revokes one session, and it may be this browser's own.
Revoke(t, r) ==
    /\ screen[t] = "AUTHENTICATED" /\ t \in signedIn /\ ~Awaits(t, "revoke")
    /\ BeginRevokeOne(r, family, Owner[family])
    /\ Send(t, r, "revoke")
    /\ UNCHANGED <<screen, calling>>

\* The handler's last step leaves the answer on the wire; a sign-out is always answered well.
AnswerOf(r) ==
    IF req[r].stage = "sign" THEN [answer |-> "issued", gen |-> req[r].gen + 1]
    ELSE IF fetch[r].route \in {"logout", "revoke"} THEN [answer |-> "done", gen |-> 0]
    ELSE [answer |-> "refused", gen |-> 0]

Serve(r) ==
    /\ Handler(r)
    /\ fetch' = IF Sent(r) /\ req'[r] = Idle
                THEN [fetch EXCEPT ![r].answer = AnswerOf(r).answer, ![r].gen = AnswerOf(r).gen]
                ELSE fetch
    /\ UNCHANGED <<cookie, signedIn, screen, calling, overtaken>>

\* The cookie jar after an answer: only a success or a sign-out touches it.
Jar(r) ==
    CASE fetch[r].answer = "issued" -> fetch[r].gen
      [] fetch[r].route = "logout"  -> 0
      [] OTHER                      -> cookie

\* A refused refresh and a sign-out drop the tab's token, which tells the screen.
DropsToken(r) ==
    fetch[r].route = "logout" \/ (fetch[r].route = "refresh" /\ fetch[r].answer = "refused")

ScreenAfter_Untold(r) ==   \* mutant: a token dropped outside the form is not listened for
    CASE fetch[r].answer = "issued" ->
             IF fetch[r].route = "login" \/ screen[fetch[r].tab] = "LOADING"
             THEN "AUTHENTICATED" ELSE screen[fetch[r].tab]
      [] fetch[r].answer = "refused" /\ fetch[r].route = "login" -> "UNAUTHENTICATED"
      [] OTHER -> screen[fetch[r].tab]

\* Signing in and restoring show the dashboard; a token that a refresh brings changes nothing.
ScreenAfter(r) ==
    CASE fetch[r].answer = "issued" ->
             IF fetch[r].route = "login" \/ screen[fetch[r].tab] = "LOADING"
             THEN "AUTHENTICATED" ELSE screen[fetch[r].tab]
      [] DropsToken(r) \/ (fetch[r].answer = "refused" /\ fetch[r].route = "login")
             -> "UNAUTHENTICATED"
      [] OTHER -> screen[fetch[r].tab]

Deliver_StuckOnRefusal(r) ==
    /\ Sent(r) /\ fetch[r].answer # "pending"
    /\ fetch' = IF fetch[r].answer = "refused" THEN fetch ELSE [fetch EXCEPT ![r] = Unused]
    /\ cookie' = Jar(r)
    /\ signedIn' = IF fetch[r].answer = "issued" THEN signedIn \union {fetch[r].tab}
                   ELSE IF DropsToken(r) THEN signedIn \ {fetch[r].tab} ELSE signedIn
    /\ screen' = [screen EXCEPT ![fetch[r].tab] = ScreenAfter(r)]
    /\ UNCHANGED <<vars, calling, overtaken>>

\* The response arrives: the browser applies Set-Cookie, the tab its access token, and
\* .finally clears refreshInFlight.
Deliver(r) ==
    /\ Sent(r) /\ fetch[r].answer # "pending"
    /\ fetch' = [fetch EXCEPT ![r] = Unused]
    /\ cookie' = Jar(r)
    /\ signedIn' = IF fetch[r].answer = "issued" THEN signedIn \union {fetch[r].tab}
                   ELSE IF DropsToken(r) THEN signedIn \ {fetch[r].tab} ELSE signedIn
    /\ screen' = [screen EXCEPT ![fetch[r].tab] = ScreenAfter(r)]
    /\ UNCHANGED <<vars, calling, overtaken>>

BrowserNext ==
    \/ \E r \in Request :
          \/ Serve(r) \/ Deliver(r)
          \/ \E t \in Tab :
                Login(t, r) \/ Refresh(t, r) \/ Restore(t, r) \/ Logout(t, r) \/ Revoke(t, r)
    \/ \E t \in Tab : Call(t) \/ CallAnswered(t) \/ Leave(t)
    \/ (Tick \/ \E u \in User : ResetPassword(u)) /\ UNCHANGED browserVars

BrowserSpec == BrowserInit /\ [][BrowserNext]_allVars

\* The server is not starved and the network delivers.
BrowserFairness == \A r \in Request : WF_allVars(Serve(r)) /\ WF_allVars(Deliver(r))

FairBrowserSpec == BrowserSpec /\ BrowserFairness

-----------------------------------------------------------------------------
(* What the single flight is for                                           *)

\* "Outside the window it revokes the family and signs the operator out of everything.  So
\* the promise is shared": a browser with one tab is taken for a thief only if its page was
\* left while a refresh was under way.  The promise is shared within a page, not across two.
NoFalseTheft == session[family].reason = "TOKEN_REUSE_DETECTED" => overtaken # {}

\* A browser at rest, signed in, holds the one generation of its family that still rotates,
\* unless a page took the answer that brought it away.
CookieRotates ==
    Quiet /\ cookie # 0 /\ session[family].status = "ACTIVE" /\ overtaken = {} =>
        Live(family, cookie)

CookieExpired == cookie # 0 /\ token[family][cookie].expiresAt <= clock

\* What a tab at rest shows is what it holds: the dashboard only over a token, and, where no
\* refresh was left under way, the sign-in form over a token or a cookie only if the session
\* is over or the cookie expired.
ScreenFollows ==
    \A t \in Tab :
       /\ screen[t] = "AUTHENTICATED" => t \in signedIn
       /\ screen[t] = "LOADING" => Awaits(t, "refresh")
       /\ Quiet /\ screen[t] = "UNAUTHENTICATED" /\ (t \in signedIn \/ cookie # 0) /\ overtaken = {}
             => session[family].status # "ACTIVE" \/ CookieExpired

\* A refresh a page started settles, well or badly, and the page that sent it is free to start
\* another: the shared promise is dropped with the answer, or with the page.
RefreshSettles ==
    \A r \in Request : Sent(r) /\ fetch[r].route = "refresh" ~> fetch[r] = Unused

=============================================================================
