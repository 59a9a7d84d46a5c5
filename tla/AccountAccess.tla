----------------------------- MODULE AccountAccess -----------------------------
(***************************************************************************)
(* One account and the ways into it: the password login with its lockout,  *)
(* the one-time code that opens a session, and the reset link.  State is   *)
(* spread over PostgreSQL (the password hash, the sessions) and Redis (the *)
(* failure counters, the links and the index of links), and every handler  *)
(* reads one before it writes another.                                     *)
(*                                                                         *)
(* A handler is a process: between two awaits it works on what it has read.*)
(* It may die at any of them (Fail), its writes stay.  The clock is the    *)
(* lifetime of the Redis keys, counted in ticks.                           *)
(***************************************************************************)
EXTENDS RedisKeys, FiniteSets

CONSTANTS
    Handlers,             \* requests under way at once
    Links,                \* the reset tokens that may be issued
    Passwords,
    Code,                 \* a session opened by a one-time code
    Threshold,            \* LOCKOUT_THRESHOLD of the policy
    ConfiguredThreshold,  \* LOCKOUT_THRESHOLD of the configuration
    Window,               \* LOCKOUT_WINDOW_SECONDS, in ticks
    EscalationThreshold,
    EscalationWindow,     \* LOCKOUT_ESCALATION_WINDOW_SECONDS, in ticks
    LinkLife,             \* PASSWORD_RESET_TTL_SECONDS, in ticks
    None

\* What the constants are (a hypothesis, where something is proved of every value).
ThresholdAssumption ==
    /\ Threshold \in Nat \ {0} /\ ConfiguredThreshold \in Nat \ {0}
    /\ EscalationThreshold \in Nat \ {0}
LifetimeAssumption ==
    /\ Window \in Nat \ {0} /\ EscalationWindow \in Nat \ {0}
    /\ LinkLife \in Nat \ {0}
NamesAssumption ==
    IsFiniteSet(Handlers) /\ Code \notin Passwords /\ None \notin Links \cup Passwords

VARIABLES
    hash,        \* users.password_hash: of which password, and whether its parameters are old
    active,      \* the credentials on which the ACTIVE sessions were opened
    failures,    \* auth:fail:{user}
    locks,       \* auth:locks:{user}
    link,        \* iam:reset:{digest}: ticks left, 0 when gone, Unissued before it exists
    index,       \* iam:reset:user:{user}
    indexLeft,   \* the lifetime of the index
    req,         \* the handlers
    bought,      \* history: how many passwords each link has set
    overtaken,   \* history: links issued while a revokeAll stood between its two calls
    crossings,   \* history: locks decided in the present failure window
    again        \* history: those of them that a second factor decided at another count

vars == <<hash, active, failures, locks, link, index, indexLeft, req,
          bought, overtaken, crossings, again>>
redisLinks == <<link, index, indexLeft>>
histories == <<bought, overtaken, crossings, again>>

Unissued == -1
Live(l) == link[l] > 0
Locked == failures.n >= Threshold

Stages == {"check", "verify", "judge", "lock", "rehash", "enter", "unindex", "commit",
           "read", "sweep", "clear"}
Hash == [of : Passwords, stale : BOOLEAN]
Idle == [at |-> "idle", pw |-> None, known |-> None, link |-> None, found |-> {}]

NobodyHasEntered ==
    /\ active = {}
    /\ failures = Absent /\ locks = Absent
    /\ link = [l \in Links |-> Unissued]
    /\ index = {} /\ indexLeft = 0
    /\ req = [h \in Handlers |-> Idle]
    /\ bought = [l \in Links |-> 0]
    /\ overtaken = {} /\ crossings = 0 /\ again = 0

Init == hash \in Hash /\ NobodyHasEntered

At(h, stage) == req[h].at = stage
Goto(h, stage) == req' = [req EXCEPT ![h].at = stage]
Finish(h) == req' = [req EXCEPT ![h] = Idle]

\* DEL of the failure counter; the window's history goes with it.
ForgetFailures == failures' = Absent /\ crossings' = 0 /\ again' = 0

(***************************************************************************)
(* LoginWithPasswordUseCase.execute, then issueFor.                        *)
(***************************************************************************)

\* findForAuthentication: the handler keeps the hash it read.
BeginLogin(h, p) ==
    /\ At(h, "idle")
    /\ req' = [req EXCEPT ![h] = [Idle EXCEPT !.at = "check", !.pw = p, !.known = hash]]
    /\ UNCHANGED <<hash, active, failures, locks, redisLinks, histories>>

\* assertNotLocked: what is read is the counter; no lock is stored.
CheckLock(h) ==
    /\ At(h, "check")
    /\ IF Locked THEN Finish(h) ELSE Goto(h, "verify")
    /\ UNCHANGED <<hash, active, failures, locks, redisLinks, histories>>

WrongPassword_AtOrAbove(h) ==
    /\ At(h, "verify") /\ req[h].pw # req[h].known.of
    /\ failures' = IncrWithin(failures, Window)
    /\ IF failures'.n >= ConfiguredThreshold
       THEN Goto(h, "lock") /\ crossings' = crossings + 1
       ELSE Finish(h) /\ UNCHANGED crossings
    /\ UNCHANGED <<hash, active, locks, redisLinks, bought, overtaken, again>>

\* A wrong password is counted; the count that meets the configured threshold
\* is the one that records a lock.
WrongPassword(h) ==
    /\ At(h, "verify") /\ req[h].pw # req[h].known.of
    /\ failures' = IncrWithin(failures, Window)
    /\ IF failures'.n = ConfiguredThreshold
       THEN Goto(h, "lock") /\ crossings' = crossings + 1
       ELSE Finish(h) /\ UNCHANGED crossings
    /\ UNCHANGED <<hash, active, locks, redisLinks, bought, overtaken, again>>

RecordLock(h) ==
    /\ At(h, "lock")
    /\ locks' = Capped(IncrWithin(locks, EscalationWindow), EscalationThreshold)
    /\ Finish(h)
    /\ UNCHANGED <<hash, active, failures, redisLinks, histories>>

\* clearFailures; an old hash is replaced while the password is at hand.
RightPassword(h) ==
    /\ At(h, "verify") /\ req[h].pw = req[h].known.of
    /\ ForgetFailures
    /\ Goto(h, IF req[h].known.stale THEN "rehash" ELSE "enter")
    /\ UNCHANGED <<hash, active, locks, redisLinks, bought, overtaken>>

\* setPasswordHash names the user only: whatever the hash has become.
Rehash(h) ==
    /\ At(h, "rehash")
    /\ hash' = [of |-> req[h].pw, stale |-> FALSE]
    /\ Goto(h, "enter")
    /\ UNCHANGED <<active, failures, locks, redisLinks, histories>>

\* issueFor: a session on the strength of what was verified.
Enter(h) ==
    /\ At(h, "enter")
    /\ active' = active \cup {req[h].pw}
    /\ Finish(h)
    /\ UNCHANGED <<hash, failures, locks, redisLinks, histories>>

\* VerifyMfaUseCase on the same counters: past the lock a code is judged, and a wrong one
\* (or one whose spending failed) is counted.
PresentFactor(h) ==
    /\ At(h, "idle") /\ ~Locked
    /\ Goto(h, "judge")
    /\ UNCHANGED <<hash, active, failures, locks, redisLinks, histories>>

\* Here every count at the policy's threshold or beyond it records a lock.
WrongFactor(h) ==
    /\ At(h, "judge")
    /\ failures' = IncrWithin(failures, Window)
    /\ IF failures'.n >= Threshold
       THEN /\ Goto(h, "lock") /\ crossings' = crossings + 1
            /\ again' = IF failures'.n = ConfiguredThreshold THEN again ELSE again + 1
       ELSE Finish(h) /\ UNCHANGED <<crossings, again>>
    /\ UNCHANGED <<hash, active, locks, redisLinks, bought, overtaken>>

RightFactor(h) ==
    /\ At(h, "judge")
    /\ ForgetFailures
    /\ Finish(h)
    /\ UNCHANGED <<hash, active, locks, redisLinks, bought, overtaken>>

\* VerifyOtp for LOGIN or UNLOCK, whose code was right: it opens a session, and
\* does nothing about the failures.
VerifyCode(h) ==
    /\ At(h, "idle")
    /\ req' = [req EXCEPT ![h] = [Idle EXCEPT !.at = "enter", !.pw = Code]]
    /\ UNCHANGED <<hash, active, failures, locks, redisLinks, histories>>

(***************************************************************************)
(* RequestReset and Reset, over the credential-token store.                *)
(***************************************************************************)

\* issue: one MULTI sets the token, adds it to the index, renews the index.
RequestLink(l) ==
    /\ link[l] = Unissued
    /\ link' = [link EXCEPT ![l] = LinkLife]
    /\ index' = index \cup {l}
    /\ indexLeft' = LinkLife
    /\ overtaken' = IF \E h \in Handlers : At(h, "sweep")
                    THEN overtaken \cup {l} ELSE overtaken
    /\ UNCHANGED <<hash, active, failures, locks, req, bought, crossings, again>>

BeginReset_GetOnly(h, l, p) ==
    /\ At(h, "idle") /\ Live(l)
    /\ req' = [req EXCEPT ![h] = [Idle EXCEPT !.at = "unindex", !.pw = p, !.link = l]]
    /\ UNCHANGED <<hash, active, failures, locks, redisLinks, histories>>

\* consume, its GETDEL: of two handlers with one link the second finds nothing.
BeginReset(h, l, p) ==
    /\ At(h, "idle") /\ Live(l)
    /\ link' = [link EXCEPT ![l] = 0]
    /\ req' = [req EXCEPT ![h] = [Idle EXCEPT !.at = "unindex", !.pw = p, !.link = l]]
    /\ UNCHANGED <<hash, active, failures, locks, index, indexLeft, histories>>

\* consume, its SREM: a set that is empty is no key, and has no lifetime.
Unindex(h) ==
    /\ At(h, "unindex")
    /\ index' = index \ {req[h].link}
    /\ indexLeft' = IF index' = {} THEN 0 ELSE indexLeft
    /\ Goto(h, "commit")
    /\ UNCHANGED <<hash, active, failures, locks, link, histories>>

\* The transaction: the password and the sessions, together.
CommitReset(h) ==
    /\ At(h, "commit")
    /\ hash' = [of |-> req[h].pw, stale |-> FALSE]
    /\ active' = {}
    /\ bought' = [bought EXCEPT ![req[h].link] = @ + 1]
    /\ Goto(h, "read")
    /\ UNCHANGED <<failures, locks, redisLinks, overtaken, crossings, again>>

\* revokeAll, its SMEMBERS: an empty index ends it.
ReadIndex(h) ==
    /\ At(h, "read")
    /\ req' = [req EXCEPT ![h].at = IF index = {} THEN "clear" ELSE "sweep",
                          ![h].found = index]
    /\ UNCHANGED <<hash, active, failures, locks, redisLinks, histories>>

\* revokeAll, its MULTI: the links it read, and the whole index.
SweepLinks(h) ==
    /\ At(h, "sweep")
    /\ link' = [l \in Links |-> IF l \in req[h].found THEN 0 ELSE link[l]]
    /\ index' = {} /\ indexLeft' = 0
    /\ Goto(h, "clear")
    /\ UNCHANGED <<hash, active, failures, locks, histories>>

ClearFailures(h) ==
    /\ At(h, "clear")
    /\ ForgetFailures
    /\ Finish(h)
    /\ UNCHANGED <<hash, active, locks, redisLinks, bought, overtaken>>

\* A rejected await or a death: the rest of the handler does not happen.
Fail(h) ==
    /\ ~At(h, "idle")
    /\ Finish(h)
    /\ UNCHANGED <<hash, active, failures, locks, redisLinks, histories>>

\* Redis lets its keys expire.
Tick ==
    /\ failures' = Aged(failures)
    /\ locks' = Aged(locks)
    /\ crossings' = IF failures' = Absent THEN 0 ELSE crossings
    /\ again' = IF failures' = Absent THEN 0 ELSE again
    /\ link' = [l \in Links |-> IF Live(l) THEN link[l] - 1 ELSE link[l]]
    /\ indexLeft' = IF indexLeft > 0 THEN indexLeft - 1 ELSE 0
    /\ index' = IF indexLeft' = 0 THEN {} ELSE index
    /\ UNCHANGED <<hash, active, req, bought, overtaken>>

LoginStep(h) ==
    \/ \E p \in Passwords : BeginLogin(h, p)
    \/ CheckLock(h) \/ WrongPassword(h) \/ RecordLock(h)
    \/ RightPassword(h) \/ Rehash(h) \/ Enter(h) \/ VerifyCode(h)
FactorStep(h) == PresentFactor(h) \/ WrongFactor(h) \/ RightFactor(h)
ResetStep(h) ==
    \/ \E l \in Links, p \in Passwords : BeginReset(h, l, p)
    \/ Unindex(h) \/ CommitReset(h) \/ ReadIndex(h) \/ SweepLinks(h) \/ ClearFailures(h)

Next ==
    \/ \E h \in Handlers : LoginStep(h) \/ FactorStep(h) \/ ResetStep(h) \/ Fail(h)
    \/ \E l \in Links : RequestLink(l)
    \/ Tick

Spec == Init /\ [][Next]_vars

-----------------------------------------------------------------------------
\* Types.
TypeOK ==
    /\ hash \in Hash
    /\ active \subseteq Passwords \cup {Code}
    /\ failures.n \in Nat /\ failures.left \in 0 .. Window
    /\ locks \in Counters(EscalationThreshold, EscalationWindow)
    /\ link \in [Links -> Unissued .. LinkLife]
    /\ index \subseteq Links /\ indexLeft \in 0 .. LinkLife
    /\ req \in [Handlers -> [at : Stages \cup {"idle"},
                             pw : Passwords \cup {Code, None},
                             known : Hash \cup {None},
                             link : Links \cup {None},
                             found : SUBSET Links]]
    /\ bought \in [Links -> 0 .. Cardinality(Handlers)] /\ overtaken \subseteq Links
    /\ crossings \in Nat /\ again \in Nat

\* A link sets one password: while one handler has it to spend, no other has,
\* it is not live, and it has bought nothing yet.  ("Atomic redeem.  Two
\* simultaneous uses of one link cannot both pass here.")
Holds(h, l) == req[h].at \in {"unindex", "commit"} /\ req[h].link = l
LinkBuysOnePassword ==
    \A l \in Links :
        /\ bought[l] <= 1
        /\ \A h \in Handlers : Holds(h, l) =>
               /\ ~Live(l) /\ bought[l] = 0
               /\ \A g \in Handlers \ {h} : ~Holds(g, l)

\* What revokeAll can find: every live link is in the index, and the index
\* outlives it, unless it was issued between the two calls of a revokeAll.
IndexCoversLinks ==
    \A l \in Links \ overtaken :
        Live(l) => l \in index /\ link[l] <= indexLeft

\* A link is worth one password and is where a revocation of all links looks for it.
LinksHold == LinkBuysOnePassword /\ IndexCoversLinks

\* The check of the lock and the count of the failure are apart, so guesses
\* under way may pass the threshold; by no more than the requests under way, those for a
\* password and those for a second factor together.
GuessesAreBounded == failures.n < Threshold + Cardinality(Handlers)

\* "The escalation counts LOCKS, and the account locks once when the count crosses": however
\* many failures land at once, one window records one lock, whichever credential crosses it,
\* and one more for each failure of a second factor that is counted at the policy's threshold
\* or beyond it otherwise (verify-mfa.use-case.ts:138, "exactly as the password path does").
OneLockPerWindow == crossings <= 1 + again

\* The counters of login-with-password.use-case.ts say what happened: guesses past
\* the lock and locks of one window are as few as the requests under way allow.
CountsHold == TypeOK /\ GuessesAreBounded /\ OneLockPerWindow

\* A lock is not prolonged by the guesses that were under way when it fell:
\* while it lasts, its end does not move.
LocksNotProlonged == Locked /\ Locked' => failures'.left <= failures.left
LockIsNotProlonged == [][LocksNotProlonged]_vars

\* The password is what the last reset made it.
ResetSticks == [][hash'.of # hash.of => \E h \in Handlers : At(h, "commit")]_vars

\* A token that works and cannot be revoked is "the one outcome worth avoiding".
NoUnrevokableLink == \A l \in Links : Live(l) => l \in index
=============================================================================
