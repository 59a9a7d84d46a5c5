# gymMap: a verification of a gym marketplace

gymMap is a monorepo: a NestJS server (`apps/server`), an operator dashboard
(`apps/admin-dashboard`), a public site (`apps/customer-web`) and shared packages
(`packages/*`). The server keeps its state in PostgreSQL and Redis. Its requests are
asynchronous handlers: they interleave at every `await`, several processes may run at once,
any `await` may reject and any process may die between two writes. This directory holds a
TLA+ model of the server's identity, authorisation, tenancy, delivery and onboarding, of the
algorithms it shares with the rest, and of the clients in front of it, checked with TLC and,
where stated, proved with TLAPS.

## Inventory

| Part | State it keeps | Operations | What makes it hard | What makes it correct | Here |
|---|---|---|---|---|---|
| Sessions and refresh rotation (`iam/application/session.use-cases.ts`, `iam/domain/refresh-rotation.policy.ts`, `common/auth`) | `auth_sessions`, `refresh_tokens`; the family denylist in Redis | issue, rotate, revoke, sign out, deny | read, decide and write at three instants; two stores; a crash between them | one live generation per family, spent once; revocation final | partly |
| Dashboard client (`shared/api/client.ts`, `shared/auth`) | a token per tab, one cookie per browser | call, refresh, sign in and out, leave, restore | answers overtake each other; a page dies with what it awaits | one refresh in flight, no false theft but after a page left mid-refresh, a screen that follows the token | partly |
| Outbox (`common/outbox`) | `outbox_events` | publish, claim, handle, mark, sweep | leases that lapse under a slow worker, crashes | every committed event is handled at least once | modelled |
| Idempotency (`common/idempotency`) | `idempotency_keys` | claim, wait, replay, complete, release, sweep | retries while the first still runs | one effect per retention, true replays | modelled |
| One-time codes (`request-otp`, `verify-otp`, `otp.redis-store.ts`) | challenges, limits, cooldowns in Redis; `users` | request, verify, activate | counters and scripts of several handlers; a death between two commands | limits hold, a code serves once | modelled |
| Reset links, e-mail verification | links and an index of them in Redis | issue, redeem, revoke all | the index is read and deleted in steps | a link serves once and old links die | partly |
| Password login and lockout (`login-with-password.use-case.ts`, `lockout.policy.ts`, `argon2.hasher.adapter.ts`) | the hash, failure counters, hashing slots | check, count, lock, rehash | a lock that exists only as a counter; a bounded pool with time-outs | guesses bounded, nothing prolongs a lock, no slot lost | modelled |
| Second factor (`enrol-mfa`, `verify-mfa`, `disable-mfa`) | five columns of `users` | enrol, confirm, present, remove | one code presented twice at once | a code or a step serves once | modelled |
| Roles, permissions and the last owner (`change-user-role.use-case.ts`, `iam/permissions.ts`, `effective-permissions.ts`) | `user_roles`, the claims of a token | change a role, sign, decide | write skew; claims are a copy | judged as it was read; a revoked role ends with its token | partly |
| Impersonation (`start-impersonation.use-case.ts`, `end-impersonation.use-case.ts`) | a token, the denylist, audit rows | start, act, end, expire | two users' grants at once | nothing its subject could not do, nothing beyond its time | modelled |
| Registration (`register-with-password.use-case.ts`) | `users` | register, activate | a link against a code | an account is activated by who owns its address | partly |
| Guards and middlewares (`common/guards`, `app.module.ts`) | the frames of a request | open frames, verify, decide | each reads the clock for itself | no handler for a token out of order | partly |
| Job runner and lock (`common/queue`) | an advisory lock | acquire, run, release | the holder dies, its session does, or the release fails | one runner while its session stands, and never none for good | partly |
| Onboarding (`onboarding`) | applications, documents, events, pre-check results | submit, upload, check, approve | racing submissions; a store that fails half-way | one submission of a version; verdicts need a reviewer | partly |
| Catalogue: branches (`catalog`) | `branches` | open, rename, list, judge a closing | a page read while rows move | a primary and an active branch remain; a page loses nothing | modelled |
| Tenancy and row-level security (`tenancy`) | a setting of a pooled connection, a frame per request | run a statement, elevate | connections are reused; transactions nest | no statement sees another gym's rows | partly |
| Audit log (`audit`) | `audit_log` | append before, append after | a replay, a failure, an append nobody awaits | the log names what happened, once | partly |
| Platform administration (`admin`, `admin-dashboard/src/routes`) | a read model | overview, register, review clock | what is shown is a poll old | order, counts and selection tell the truth | partly |
| Object storage and malware scan (`common/storage`) | a socket | inspect, scan, put | replies in pieces, failures half-way | nothing passes unscanned | partly |
| Errors (`common/errors`, `packages/types/src/errors`) | none | filter, answer, read, show | causes that should not leave | no cause leaks, blame as registered, another try as registered but for seven rows | partly |
| Public site (`apps/customer-web`) | the address, a bar, a drawer, a theme | search, compare, navigate | links that drop or invent a filter; two timers over one bar | pages are what their address says | partly |
| Dashboard screens (`apps/admin-dashboard`, `packages/ui`) | what is open over what | queue, register, menus, dialogs, palette | rows go under what is open | focus comes back, commands act on what was shown | partly |
| Money and time (`packages/utils`) | none | round, allocate, quote; local days and schedules | remainders; days of 23 and 25 hours | nothing is lost, no gap and no overlap | modelled |
| Notifications; tokens, types and schemas; areas without code | none | send; validate | - | - | not modelled |

How they interact. A request passes two middlewares that open its frames and five guards (access
token, then the Redis denylist, then roles), may be wrapped by the idempotency interceptor around
the audit interceptor, and reaches a use case that writes PostgreSQL through a client which scopes
each statement to the gym of the frame. What must happen elsewhere is written as an outbox row
in the same transaction and delivered later by the dispatcher. Sessions are opened by login and
one-time codes, revoked by sign-out, by reuse detection and by a password reset; only the first
two write the denylist. The dashboard refreshes through a cookie every tab of the browser shares.

## The modules

Every module is parameterised by its constants, has one action per operation or awaited
statement, and declares nothing recursive, so each can be proved about as well as checked.
Four ideas are common to all of them.

- *A handler is a process.* Between two `await`s a handler works on what it read before the
  first, and everyone else runs in between. So every awaited read or write is a step of its own,
  and what the handler has read is part of its state.
- *Two writes are two steps* unless one transaction or one Redis script holds them. Everywhere
  between them the process may die.
- *Time is what the comparisons need.* A duration of the code (fifteen minutes, ten seconds,
  thirty) is a small number of ticks that keeps their order. A lifetime is kept as what is left
  of it wherever nothing compares instants, so that time needs no end.
- *A history variable holds what a property asks of the past* (which code was bought by whom,
  whether two handlers overlapped); no action's guard reads it. The tables call it history.

| Module | Models | State in the model | In the code |
|---|---|---|---|
| `RefreshSession` | issue, rotate, sign out, revoke, reset, the denylist, the guard | `session`, `token`, `denied`, `req`, `clock`, `access`, `held`; history `cut` | `auth_sessions`, `refresh_tokens`, Redis `family` keys, each handler's locals, the `CLOCK` port, the tokens clients were given |
| `TokenFamily` | what a family promises (abstract) | `verdict`, `spent`, `live` | - |
| `BrowserTabs` (EXTENDS `RefreshSession`) | the dashboard's client in front of the server | `cookie`, `fetch`, `signedIn`, `screen`, `calling`; history `overtaken` | the cookie jar, requests and answers under way, each tab's token, its session context |
| `OutboxDispatch` | publish, cycle, claim, handlers, marks, sweep | `row`, `older`, `handled`, `worker`, `faults`; history `performed`, `failures` | `outbox_events`, `ORDER BY available_at, id`, the registered handlers, each process' locals |
| `AtLeastOnce` | what the outbox promises (abstract) | `fate`, `performed` | - |
| `Idempotency` | one key of the interceptor and its store | `row`, `req`, `clock`, `faults`; history `performed` | `idempotency_keys`, each request's locals |
| `RedisKeys` | counters with a lifetime (operators) | - | `INCR`, `EXPIRE` and the scripts over them |
| `AccountAccess` | password login, lockout, reset links | `hash`, `active`, `failures`, `locks`, `link`, `index`, `indexLeft`, `req`; history `bought`, `overtaken`, `crossings`, `again` | the `users` row, the two Redis counters, link keys and their index |
| `OneTimeCodes` | sending, verifying, activating | `challenge`, `sends`, `ip`, `account`, `link`, `req`; history `story` | the challenge hash, its limits, the counter of an address, the account |
| `SecondFactor` | enrol, confirm, present, remove | `row`, `drawn`, `now`, `failures`, `locks`, `req`; history `confirmed`, `spent`, `mixed` | the `mfa_*` columns, the random source, the 30-second step, the shared counters |
| `HashPool` | the slots to hash in | `available`, `waiting`, `caller` | the fields of the hasher's semaphore |
| `TenantRoles` | changing a role, signing claims | `grant`, `token`, `req`; history `lost` | `user_roles`, an access token, the use case's locals |
| `Permissions` | the capability matrix and the decision (pure) | - | `iam/permissions.ts`, `effective-permissions.ts`, the guard |
| `Impersonation` | start, sign, act, end, expire | `agentRoles`, `subjectRoles`, `pending`, `session`, `denied`, `trail`, `asked` | grants of two users, the token, what is left of its denylist entry, the audit rows |
| `Gate` | two middlewares and five guards | `gate`, `wall`, `revoked` | what the request carries and has by then, the clock, the denylist |
| `TenantScope` | the scope of a statement on a pooled connection | `frame`, `conn`, `flow`; history `saw` | AsyncLocalStorage, `app.tenant_id` of each connection, where a context is |
| `AuditTrail` | appends, elevation, replay | `request`, `work`, `stored`, `appending`, `rows`, `served`; history `happened`, `crossed`, `recorded` | the frames, the two interceptors, `idempotency_keys`, `audit_log` |
| `Branches` | open, rename, list; the closing policy | `rows`, `opened`, `req`, `walk` | `branches`, each handler's locals, a client's pages |
| `Onboarding` | submit, upload | `applications`, `events`, `audits`, `sub`, `objects`, `documents`, `docEvents`, `up` | the tables, the object store, each handler's locals |
| `DocumentScan` | the first bytes (pure); the conversation with clamd | `scan` | the socket, what is on the wire both ways, the chunks read |
| `Prechecks` | the six checks, the two audiences (pure) | - | `onboarding/application/prechecks/*` |
| `PrecheckJob` | the job under its lock; the approval | `lock`, `retained`, `job`, `stored`; history `adrift` | the advisory locks and whose session holds them, a worker's locals, `precheck_results` |
| `OnboardingRules` | lifecycle, checklist, edits, tax ids, wizard (pure) | - | `onboarding/domain/*` |
| `ReviewQueue` | the console's queue and register | `gyms`, `now`, `listed`, `list`, `tab`, `page`, `sort`, `focused`, `selected`, `dialog`, `glance` | tenants, what a poll brought, the state of the two screens |
| `ConsoleChrome` | menu, dialog, palette over a screen | `rows`, `focus`, `menu`, `dialog`, `palette`, `screen`; history `story` | `useOverlay`, the palette, the element in focus |
| `Discovery` | search, comparison, landings | `url` | the address; the pages keep no state |
| `SiteChrome` | the bar of a navigation, the drawer, the theme | `bar`, `drawer`, `theme` | the component state and refs, `document.body.style`, two storage keys |
| `Problems` | registry, filter, client, screen (pure) | - | `packages/types/src/errors`, the exception filter, `parseProblem`, `StateBoundary` |
| `Ranking` | filter and sort by what comes before what (operators) | - | `Array.prototype.filter`, `sort` |
| `Money`, `GymTime` | amounts; local days (pure) | - | `packages/utils/src/money`, `packages/utils/src/time` |
| `*Proofs` | theorems | | |
| `MC*` | the small instances TLC checks | | |

### Sessions: `RefreshSession`, `BrowserTabs`

`issue` is `OpenSession` (the INSERT of the session, with `now` captured), `IssueFirst` (the
INSERT of generation 1) and `Sign`. `rotate` is `BeginRotate` (`now` is captured first),
`FindToken`, `Decide` (`findById` and `decideRotation`, on a row, a status and an instant
read at three moments), then `Mint` or `MintRefused`, preceded within the grace by
`FindSuccessor`, and `Sign`, which reads the clock again and the session not. `Mint` is one
transaction: INSERT generation + 1, UPDATE the old row. What decides between two of them is
not the code but the schema: `uq_refresh_tokens__session_generation` and the write-once
trigger (`MintConflict`). A revocation is `RevokeFamily` or `RevokeOne`, then `Deny`; between
the two lie the two stores. `ResetPassword` is the transaction of another use case, which
writes the same rows and no denylist. `Fail` is any rejected `await` and any death: the
handler disappears, its writes stay. A family is named by its session (the id is minted with
the session and unique), an access token by family and instant. Redis is reachable, except
where `Fail` cuts a handler off before it.

`BrowserTabs` extends the server with the browser. A tab sends `Login`, `Refresh` or `Logout`
with the cookie of that moment; `Serve` is a step of the server's handler, whose last one
leaves the answer on the wire; `Deliver` is its arrival, which sets the shared cookie. Answers
may overtake each other. A refresh in flight is shared by its page (`Awaits`), and the
page may be left at any moment (`Leave`): the promise dies with it, the server finishes, and the
answer is dropped, cookie and all. A page load (`Restore`) sends a refresh with the cookie of that
moment, whatever the page before it was waiting for. Every request reaches the server, no handler
fails and no other answer is lost, so that what goes wrong goes wrong by order alone. One family
is followed: signing in again after a sign-out is outside (a late refused refresh would then sign
the tab out).

### Ways into an account: `AccountAccess`, `OneTimeCodes`, `SecondFactor`, `HashPool`

Each keeps one account, its Redis keys with their lifetimes (`RedisKeys`), and handlers that read
one store before they write another. `AccountAccess`: a login checks the counter, the password,
counts, records the lock on the exact threshold and rehashes; a reset reads its link, sets the
hash, then `revokeAll` reads the index of links and deletes in another step. A second factor is
judged past the same lock, and a wrong one counts on the same key and records a lock at every
count that is at the threshold or beyond it (`WrongFactor`, and `CountFailure` of `SecondFactor`).
`OneTimeCodes`: `INCR` and `EXPIRE` of an address' counter are two commands, issuing reads a
generation and then sets the next, and a verified code stamps the phone in one statement and
activates in another; `Fail` may fall between any two. An account may be suspended between any two
as well (`Suspend`; no code of the server does it yet, so it is somebody's UPDATE, and external).
`SecondFactor`: the factor is five columns; what was presented is judged against the row that was
read. `HashPool` is the semaphore in front of Argon2: a released permit is handed to the head of
the queue without being counted free, and a waiter's timer may fire at any time before.

### Who may do what: `TenantRoles`, `Permissions`, `Impersonation`, `Gate`

`Permissions` holds every row of the capability matrix and the decision, as functions of their
arguments; the console's own reading of it is there too. `TenantRoles` changes a role:
read the assignments, let the policy decide, then revoke and grant in a transaction that reads
again. Claims are copied into a token that lives on. `Impersonation` judges every subject with
one or two roles under an agent of every role. `Gate` is the order of `app.module.ts`: the
frame of an impersonation, the frame of a gym, then five guards; each reads the clock for
itself, time and a revocation fall between any two. No issuer sets `nbf`, no route is a
financial mutation yet, and a denylist entry does not lapse within one request. An
impersonation token's `exp` may lie beyond the cap: the gate refuses it by its start.

### Whose rows, and what is recorded: `TenantScope`, `AuditTrail`

A flow of `TenantScope` is an asynchronous context with a frame, and its statements are of the
five kinds the code has: a model operation wrapped by the extension, one on a table of
everybody, raw SQL that the extension never sees, `inTenantTransaction`, and
`client.$transaction` around model operations, each of which the extension commits by itself.
A connection goes back to the pool with whatever setting it was left. `AuditTrail` has the
appends before an act (elevation, impersonation) and after it (the interceptor, which does not
wait), under replays, failures and deaths.

### A gym's way in: `Onboarding`, `DocumentScan`, `Prechecks`, `PrecheckJob`, `OnboardingRules`, `Branches`

`Onboarding` has a submission (compute the version, INSERT, event, audit: each commits alone, see
finding 3) and an upload (inspect, scan, put, row, event), both failing anywhere. `DocumentScan`
is the protocol under the upload: frames of a file, a size limit that closes the stream, a reply
in pieces. `PrecheckJob` runs the six checks of `Prechecks` under an advisory lock that goes with
its session. A worker that dies loses both. A session that is lost alone takes the lock and does
not stop the suite (`SessionEnds`): nothing tells the worker. A release that fails is caught with
the job, and the worker takes the next one while its session keeps the lock (`retained`). The lock
gateway is external (no implementation is in `src/`): a worker has one session for its locks at a
time, and a session may take a lock it has once more. `OnboardingRules` are the pure rules.
`Branches` opens, renames and lists by cursor while rows move, and judges a closing over every
estate that arises; no caller closes one yet.

### What is shown: `ReviewQueue`, `ConsoleChrome`, `Discovery`, `SiteChrome`, `Problems`

A poll is one step of `ReviewQueue`; what is on the screen stays what it brought while gyms move
on under it. `ConsoleChrome` keeps the element in focus and what each overlay will give it back
to; React's effects run before the next gesture, a render's clean-ups before its effects.
`Discovery` has one variable, the address: every control is a link or form that names the next
one, and a page is what its address is parsed into. In `SiteChrome` clicks, Back, a settled path
and two timers race over one bar; the drawer keeps the body's style; the theme has a control, an
attribute, two stored keys and a device that changes. `Problems` carries every row of the registry
from what was thrown, through the filter and the client, to the screen.

### Delivery: `OutboxDispatch`, `Idempotency`

`Commit` is the transaction that records the event. A worker begins a cycle over the gyms
with work (`BeginCycle`: as many as a batch has rows, the oldest first), claims a batch of
one of them under a lease (`Claim`), and takes its events one after another: `Skip` where no
handler is registered, or `Start`, `HandlerSucceeds` or `HandlerFails`, and `MarkPublished`,
`MarkFailed` or `MarkDead`. Each writes by id, whatever the row has become, with the
attempts read at the claim. `Refused` is a write the database refuses (after the handler, that
counts as the handler's failure; inside the catch block it ends the batch), `Crash` a death.
Time is kept as what is left of it, so a run has no last instant; `older` keeps what that
loses, the order of `available_at` among rows already due. The gateway's SQL is the one in
`test/isolation/outbox.int-spec.ts`: the repository has no other. A handler that fails is taken
to have performed nothing.

`Idempotency` follows one key, because the key is unique in the whole table and rows of
different keys never meet. `Claim` is the INSERT, `Collide` its refusal, after which the row is
read at a later instant and ends in `Refuse` (409), `Replay`, `Wait` (poll and INSERT again) or
`Outwait`: at the deadline `resolve` returns IN_FLIGHT, which `intercept` does not single out, and
the handler runs. `Succeed` and `Fail` are the handler; `Record` (complete), `FindClaim` and
`Release` the writes after it, which nobody awaits and any of which may come late, be refused or
never run. Row-level security (`Visible`) hides the row from another gym, not from the unique
constraint. `Fingerprint` leaves the id in the path out: what the interceptor hashes is the
route's pattern. `Sweep` deletes what has expired.

## The runs

A property is chosen because several steps, often of several actors, would be needed to break
it. An MC module whose components share no state has them as scenes: a behaviour is a behaviour
of one scene, and an invariant of the run names the invariants of its scenes.
`CHECK_DEADLOCK FALSE` stands where a bounded clock or a finite number of requests lets the
system stop; the outbox and the ways into an account never stop and are checked for deadlock.

| Run | Instance | Asks | Answer | States |
|---|---|---|---|---|
| `rotation` | 1 session, 2 handlers, generations to 3, clock to 3; access 2, refresh 3, grace 1 | one chain of generations, the reuse rule, order and finality of revocation, the denylist's lifetime; does it implement `TokenFamily`? | holds | 783 672 |
| `reset` | the same | does a revocation reach the access tokens? | no: a reset never denies the family | 75 |
| `one_tab` | 1 tab, 2 handlers, generations to 4, clock to 2; access 1, refresh 2, grace 0; 3 gyms, 2 compared; 3 pages | no order of answers looks like theft, the jar ends with a cookie that rotates, the screen follows the token, while no page is left mid-refresh; a refresh settles; site, errors, bar, drawer and theme tell the truth | holds | 575 988 |
| `outbox` | 2 events of one gym, 2 workers, batch 2, lease 2, handlers up to 3 ticks, 2 attempts, 1 fault | nothing given up early, nothing unhandled charged; does it implement `AtLeastOnce`? | holds | 1 186 056 |
| `outbox_settles` | 2 events of two gyms, one to a batch, lease 1, 1 fault | is every handled event published or given up? | yes | 110 010 |
| `idempotency` | 3 requests, retention 2, deadline 1, clock to 3, 1 fault | one effect a retention and true replays while nobody outwaits the deadline; a success is kept, everyone is answered | holds | 236 736 |
| `credentials` | 2 handlers; 2 attempts, 2 sends, threshold 2; 2 links; 2 secrets, 2 recovery codes, drift 1; 4 callers, 2 slots | limits, single use, single locks, index of links, slots: what holds although handlers cross, and what only a death parts | holds | 1 161 703 |
| `authority` | 2 users, 2 changes; every pair of agent and subject roles; 2 contexts, 2 gyms, 2 connections; 3 requests; one request at the gate, clock to 3 | changes as judged, claims end, a session stays within its subject, consoles and guards agree, scopes hold, the log is true | holds | 595 874 |
| `end` | the session scene | does asking for the end end an impersonation? | no: always refused | 8 799 |
| `record` | the audit and session scenes | does the row come before the act? | no: `append` swallows its failure | 3 861 |
| `gyms` | 2 gyms, 3 branches, 2 handlers; 3 submissions, 2 uploads, 2 workers; queue and register of 2 gyms; bounded inputs of every rule | estates, intake and its screens, suites, rules, amounts and days | holds | 477 436 |
| `submission` | the submitting scene | does an application have its event? | no: the statements commit one by one | 21 952 |

(For a violated run the states are those seen before the counterexample, about.)

What the invariants of the runs of scenes stand for:

- `one_tab`: `NoFalseTheft`, `CookieRotates`, `ScreenFollows` and `RefreshSettles` are of the
  dashboard; `PagesTellTheTruth` is what each scene promises. On the site: a count next to a
  filter is what its link finds, whatever narrows a page is shown as a chip that removes it, a
  selection changes by the gym whose control was used, an address parsed and printed is the
  same page. Of an error: no cause reaches a client, the status is the registry's, and another try is
  offered where the row allows one, but for seven rows that are named. Of the chrome: a bar that is
  up has a timer that takes it down, and stands for a page on its way unless what was last asked
  for is the page that is there; the page scrolls when
  the drawer is shut, the control says the theme that is painted.
- `credentials`: `LimitsHold` (a code verifies once and is guessed at no more often than its
  attempts, sends keep apart), `OnlyDeathParts` (a counter nothing expires and a verified account
  left inactive need a death), `FactorHolds` (a spent recovery code stays spent, the secret in
  force was confirmed, unless handlers overlapped in the way that is named), `LinksHold` (a link
  sets one password; `revokeAll` finds every link not issued in its middle), `CountsHold` (guesses
  pass the threshold by no more than the handlers; one lock a window, and one more for each failure
  of a second factor at another count), `SlotsAreKept`; and of
  steps: `StepsAreHeld` (the cooldown; nothing revives an account once it is suspended),
  `StepsServeOnce`, `LockIsNotProlonged`.
- `authority`: `ChangesAreAsJudged` (a last owner goes only where two changes overlap),
  `ClaimsEndWithTheToken` (a revoked role lives as long as the token that claims it, and no
  longer), `SessionStaysWithin` (an impersonation admits nothing its subject could not do, ends in
  time and starts no other, and no handler runs for a token out of order; it does *not* keep to
  what the agent may do, see *Authority* below), `ConsolesTellTheTruth` (what the agent is told of a
  consumer's session is admitted; what else is admitted comes with a role of which he was told
  something; the inspector shows what the guard decides), `ScopeHolds`, `TrailIsTrue`.
- `gyms`: `EstateKeepsItsShape` (a primary however branches race; a listing loses nothing that
  stood still; no closing takes the last branch), `IntakeAgrees` (submissions and uploads with
  their rows and events, the queue and the overlays above it, the scanner), `SuitesAreSound` (one
  worker at a time among those whose session stands, no lock left behind but by a release that
  failed, no approval over a failed suite), `RulesAreSafe` (lifecycle, checklist, edits, tax ids,
  wizard; a look-up that passes was answered, a picture that passes was measured as far as it
  says), `NothingIsLost` (amounts and days).

### The bounds, and why they are enough

- *RefreshSession*: a family has one chain, and handlers meet only through it, so two handlers
  show every interference of two; the theorems carry it to any number. Three generations are
  what a replay of a replay within the grace needs. A clock to 3 passes the grace (1), an access
  token (2) and a refresh token (3). `MaxGen` and `MaxClock` stop new work, never a handler
  halfway through the rule under test.
- *BrowserTabs*: a fourth generation, since the browser stops at `MaxGen - 1` to leave no handler
  stuck. With a grace of 0 any replay after the tick of its use is outside the window, and a
  lifetime of 2 lets a cookie expire under a refresh; a page is left and loaded as often as
  it likes. *Discovery*: three gyms with and without what each filter asks; one more than may be
  compared. *SiteChrome*: three pages let a navigation be overtaken by another and by Back; the
  two timers start together, so the shorter is due first; one tab.
- *OutboxDispatch*: two events and two workers are one overtaking and one queue; a handler
  budget of 3 against a lease of 2 lets a worker be overtaken and come back; two attempts are a
  first failure and a last; one fault is a death or a refused write. `outbox_settles` uses the
  shortest lease and two gyms, so that an unhandled event of one may starve the other.
- *Idempotency*: a request, its retry and a third that is either a different request of the gym or
  the request of another; the clock reaches one retention and a tick beyond, so the key is
  released, swept and claimed again. `WorkBudget` (a handler and its last write take less than
  the retention) is a bound of the model: 24 hours in the configuration.
- *Credentials*: two handlers are every pair that can cross; thresholds of two have a first, a
  last and one too many. The codes of a phone are two scenes: in `sending` two handlers race over
  the limits and the account stays unknown; in `joining` one handler asks at a time and the
  account, its link, its suspension and its deaths are in play. The key that counts locks lives
  two ticks for the password and one for the second factor, whose scene is the larger. Four
  callers on two slots are two that hold and two that queue.
- *Authority*: two changes over three assignments are the smallest write skew; the matrix is
  whole. Two connections for two contexts of two gyms give every reuse. A token at the gate has
  at most one defect, and the clock passes the cap (2) and the last guard.
- *Gyms*: two branches that race and a third; the listing has one handler, one gym listed with at
  most one branch of the other, and one rename each. Two applications to two workers, of which one alone
  gets its suite stored (what is stored is said of each by itself); three
  submissions, since the second's version may be the third's. The queue has a page of one and at
  most one change between two polls, at three instants around the review clock; trading names
  are legal names. Files have at most five parts in frames of two, of which clamd takes four.
  Rules, amounts and clocks are checked over every input of the named sets: weights to 4, quotes
  to 200 units, dates round the ends of months and of February, zones
  with one change, of hours before and after it.

### Fairness

- `BrowserFairness`: a handler under way takes its next step (`Serve`) and an answer arrives
  (`Deliver`): the event loop and the network of a run without failures, which is what the
  module is about. No tab is obliged to do anything.
- `FairSpec` of the outbox: each worker polls and works (`worker.ts` registers the dispatch on an
  interval), handlers settle, and time passes. Weak fairness of all of a worker's work, not of
  single statements: which one it takes is the code's. Deaths, refused writes, registrations
  and sweeps are obliged to nothing.
- `FairSpec` of the idempotency: a request that has come goes on, and time passes. No request
  has to come, the sweep need not run.

Every other run states safety only, and assumes no fairness.

## What is proved

For every value of the constants that the named assumptions admit (positive lifetimes and lease,
an SQL null that is no value, a gym that is not the absent one, a budget of work shorter than the
retention, finitely many handlers of a phone number's codes, a cap and a denylist entry that last
a natural number of ticks, an impersonated user who is somebody, branch ids that are naturals
other than 0, a job's worker who is somebody, one handler at least). The last three theorems on
the tabs have the hypothesis `OneTab`, that two tabs are the same: the promise that makes them
true is a tab's own, and with a second tab in `MCBrowserTabs_one.cfg` TLC finds a theft after 13
steps. The theorems of `CredentialsProofs`, `GymsProofs` and `RulesProofs`, and those of
`AuthorityProofs` but the two on roles, are stated of `MCSpec`, the composition the runs check,
for any constants.

| Theorem | Module | Says |
|---|---|---|
| `TypeCorrect`, `ChainIsUnbroken`, `HandlersKnowWhatTheyDo` | `RefreshSessionProofs` | the invariants of a family under any number of handlers |
| `UsedOnceOrWithinGrace` | | a generation buys a successor once, or again within the grace, and never once expired |
| `RevokedForGood`, `DeniedIsRevoked`, `DeniedForGood` | | revocation is final, the guard refuses only what is revoked, and what it refused it never accepts again |
| `NoAlarmWithoutReplay` | | a theft alarm means a spent generation |
| `HandlersImplementTokenFamily` | | the handlers over two stores implement `TokenFamily` |
| `DispatchTypes`, `NoneGivenUpEarly`, `UnhandledWait` | `OutboxDispatchProofs` | the invariants of the dispatcher |
| `DispatchIsAtLeastOnce` | | the dispatcher implements `AtLeastOnce` |
| `SlotsAreAlwaysKept` | `CredentialsProofs` | every permit is in the pool or with one caller, and nobody waits while one is free |
| `AccessIsKept`, `LinksAreHeld` | | the invariant of a password and its links; a link sets one password, and revoking all finds every link not issued in its middle |
| `GuessesAreCounted`, `LocksEndInTime` | | guesses pass the threshold by no more than the requests under way less one, a window records one lock, and one more for each failure of a second factor at another count; no failure prolongs a lock in force |
| `FactorIsKept`, `FactorIsGood` | | the invariant of a second factor; in force it has a confirmed secret, and a spent recovery code stays spent, but for the crossings that are named |
| `StepsAreServedOnce` | | the mark of accepted steps only rises within an enrolment; only requests under way together get past it |
| `ScopeAlwaysHolds` | `AuthorityProofs` | a statement works on its own gym's rows; no setting outlives its transaction |
| `TrailIsAlwaysTrue` | | a row of the audit log is of a mutation that took effect, once, in its gym; nobody reads across gyms who may not |
| `GateAlwaysHolds` | | the invariant of a request on its way through two middlewares and five guards |
| `SessionIsAlwaysTheirs` | | the invariant of an impersonation, for any roles of the two |
| `SessionAlwaysStaysWithin` | | a session admits nothing its subject could not do and starts no other; no handler runs for a token that does not carry its request there |
| `ConsolesAlwaysTellTheTruth` | | what the agent is told of a consumer's session is admitted, and what is admitted untold comes with a role of which something was told; the inspector shows what the guard decides |
| `RolesAreGrounded` | | the invariant of the changes of roles |
| `ClaimsEnd`, `RolesChangeAsJudged` | | a role in a token is its user's or was within the token's lifetime; the last owner goes only where two changes overlap |
| `SuitesAlwaysSound` | `GymsProofs` | of the workers whose session stands one at a time is in the suite of an application; a lock is held by who is at work under it or could not give it back; a suite has an outcome of every check |
| `EstateAlwaysKeepsItsShape` | | a gym with branches has one primary; deactivating keeps one while a branch is open; a walk lists what keeps its place once |
| `SubmissionsAlwaysAgree`, `UploadsAlwaysAgree` | | applications, events and versions, and stored documents, agree for any number of submitters and uploads |
| `IntakeAlwaysAgrees` | | all six parts of `IntakeAgrees`: these two; the scanner; the lists of the reviewer, for any target, list limit, page size and moves; what opens over them, for any rows; the first bytes of a document |
| `TabsAreServed` | `BrowserTabsProofs` | any number of tabs: a handler is at work exactly for what is sent and not answered, and answers as its route does |
| `TabsOnlyAsk` | | the browser implements `RefreshSession!Spec`: all of the first five rows holds behind it |
| `OneTabIsFollowed` | | one tab, until its page is left while it refreshes: one refresh at a time, and the cookie rotates or the refresh under way brings its successor |
| `NoTheftByOrder`, `CookieStillRotates`, `ScreenIsFollowed` | | one tab, of which no page was left while it refreshed: no order of answers or reloads is a theft, the jar ends with a cookie that rotates, the screen says what the tab holds |
| `KeyIsHeld` | `IdempotencyProofs` | the invariant of one key under any number of requests |
| `EffectsAreApart`, `ReplaysAreTrue`, `SuccessKept` | | while nobody outwaits the deadline, one effect a retention and every replay true to its effect; a recorded success stays until it expires |
| `CodesAreCounted` | `CredentialsProofs` | the invariant of a phone number's codes |
| `LimitsAreHeld` | | a code verifies once, is guessed at no more often than its attempts, and sends pass their limit by no more than the handlers less one |
| `DeathAloneParts`, `StepsHeld` | | a counter nothing expires and a verified account left inactive need a death; no send within the cooldown of another unless they overlapped, and no code or link revives an account, whenever it is suspended |
| `RulesAreAlwaysSafe` | `RulesProofs` | every rule of onboarding and every pre-check, of every input a run can begin with: verdicts need a reviewer, a complete checklist stays so, edits of where the money goes are reviewed, the wizard ends |
| `NothingIsEverLost` | | rounding, shares and quotes, of all integers; days, terms, financial years and schedules, in any zone with one change of an hour |

*The family.* The chain is not inductive: a handler about to `Mint` must still have a live
row to mint from. What a handler may rely on at each `await` is `HandlersActOnFacts`
(`Grounded` per handler): the row it saw has not been spent anew if it was spent, the row it will
rotate exists, a session it opens has no token, it denies only once the rows say revoked. With
the types and the chain it is the inductive invariant `IInv`. Its proof rests on one lemma,
`StepIsMonotone`: sessions stay opened, revoked rows stay as they are, a spent generation never
changes. That lets every handler be overtaken: one lemma for the handler that moves
(`ActorIsGrounded`), one for all that do not (`OtherStaysGrounded`). `DeniedForGood` needs one
invariant more, `EntriesOutlast`: an entry outlasts the tokens that existed when it was written,
which is where `FAMILY_DENYLIST_TTL_SECONDS = ACCESS_TOKEN_TTL_SECONDS` enters.

*The dispatcher.* "Dead after `MaxAttempts` failures" is not inductive either: a worker writes the
count it read at its claim, so the row's count may go back, and only a history of recorded
failures bounds both. `IInv` says that no row and no worker counts a failure that was not
recorded (`AttemptsHappened`, `WorkerGrounded`), and that a worker about to publish has
performed. The refinement then follows step by step: `RowStep` lists what a step may do to one row.

*The slots.* That permits are conserved needs to be known together with the queue holding whoever
waits, once, and with nobody waiting while a permit is free: a permit handed over is counted with
the caller that was at the head, before that caller has taken it up. The lemmas are about what is
left of a queue when one in its middle leaves.

*The password.* "The counter is below the threshold and the handlers" is not inductive: a handler past
the check has not failed yet. `FailuresCount` counts the guesses under way (`Guessing`) with those
recorded. "A link sets one password" needs that a link which can still be redeemed has bought
nothing and that nobody is between its redemption and the new password (`LinkIsUnspent`).
"Revoking all links finds every link" is about two commands of two handlers: `SweepersFound` says
that whoever is about to delete has read every live link but those issued since it read. A lock is
not prolonged because a key that has a lifetime keeps it: only the first failure of a window sets it.

*The factor.* The five columns are written by id, so the invariant says what each writer has read:
who activates, activates the secret that stands, or its removal or replacement is on record
(`ActivatesTheSecret`); who records a step judged it ahead of the mark, or was late
(`RecordsAnAdvance`); who rewrites the recovery codes writes codes drawn before
(`ReplacesWhatItRead`), so that a new enrolment, whose codes are fresh, brings back none that was
spent (`Drawn`). `GuessesCount` is the argument of the password again.

*The scope.* `ScopeHolds` speaks of the moment a statement runs; that it runs under its gym must be
known from the moment its connection was taken. `ScopeInv` says what a flow may hold at each stage
(`FlowShape`), that its request has a gym as soon as a statement will need one (`FrameShape`),
that a connection is held by one flow (`HeldOnce`), and what the setting of each connection is by
the stage of its holder (`SettingShape`); a free connection has none, which is what makes reuse
harmless.

*The log.* "Nobody reads across gyms who may not" is known of an elevation from before it opens, when
its row is about to be written (`ElevatedMay`); that the row of a mutation is in its gym needs that
the handler at work performs what was asked of its token's gym (`HandlesItsGym`), which a claim
under an elevation would break and the middlewares' order excludes.

*The gate.* The token is verified three times by three clocks. Time does not go back, so whoever
verifies now verified at arrival (`VerifiesAt`): a principal set by the second middleware or by the
guard is that of a token the first saw in order too, and has its agent on the frame
(`ActingIsTheTokens`, `PrincipalIsTheTokens`). `GuardsEstablish` says what each guard leaves to the
next, and `VerdictsSayWhy` what a refusal means.

*The session and the matrix.* `SessionIsTheirs` says that from the start, one of the two may act as
others and one may not, and that the claims are theirs. The rest is about the matrix, row by row
(`RowsAreSafe`): the key that starts a session is in no row but that of those who may, and no key is
one of those everybody has. A grant of a session is a consumer's own (`SessionGrants`), because only
SELF roles parse at `self`; so it reaches what it would reach without the agent. The agent's roles
are all of the platform, so his half of the announcement is in the token (`AgentsRolesCarry`). What
the guard admits beyond it comes by the other half: a role survives whole when the agent holds one
permission of it, so its holder was told of that one (`MoreWithItsRole`).

*The suites.* `JobInv`: a worker past acquiring holds the lock of its application unless its session
ended under it (`Stands`), and a lock is held by who is past acquiring it or could not give it back
(`HeldBy`, with `AdriftAtWork`). Neither half is inductive alone: taking a lock that is free is
harmless only because its holder would be known, and one that the own session has kept is taken
again by nobody else. What is stored, or about to be, is a suite
(`Suites`), which `SettleAll` establishes by catching what a check throws.

*The estate.* Who does not ask to be the primary saw a branch, and branches stay
(`LaterOnesAreLater`); so the index admits one and a gym with branches has one (`HasOnePrimary`).
For a deactivation the branch promoted is the least of a strict order, which exists because the
naturals are well founded (`FirstIsTheOldest`). For the listing, `WalkGoesOn` says of each branch
that keeps its place: listed once if the cursor has passed its key, never otherwise. A page takes
a beginning of what is left in order (`PageIsABeginning`), and an order of any finite set of keys
exists because each key can be given the number of those before it (`InOrderSorts`).

*The intake.* The versions of a gym are 1 .. n with no gap (`NoGap`), because a submission under way
computed one of them, and will be refused by the index, or the next. What a failed one leaves behind
is the row without its event, or nothing (`LeftBehind`). An upload past the scan is of a
clean file, past the store is stored, past its row has it (`UpInv`).

*The scanner.* `ScanInv`: until it answers, the scanner holds the part of the file whose frames
have left the wire, and it has said nothing before the frame of length 0 (`Streaming`); then what
has come and what is still to come of its answer are one of three sentences cut anywhere (`Told`,
`WordsOfTwo`, `WordsOfThree`). So a reply that is read is read whole (`RepliesRead`). The scene
has files of up to five parts; the lemmas are of a file of any length (`FramesOf`, `ScanKept`), in
frames of two.

*The lists.* `ListInv` is small: no two gyms applied at one tick, what is ticked has been shown, a
page past the end is so because a poll took rows, a reason that is there was written for the gym
of the dialog. Most of the work is in what a poll computes. The scene has two applicants, at any
ticks. Counting on the tabs and counting in the overview agree because the register's tabs part
the eight statuses (`CountsAlwaysAgree`). "The oldest first is the latest first" needs that
division by hours, rounded towards zero on either side of it, keeps the order (`TruncIsMonotone`,
`OldestIsAlwaysLatest`). `WindowIsAlwaysWhole` is for every number of pages.

*What opens over a screen.* `OverInv`: the focus is in what is open, or, when the palette opened over
it, in what is under that; and each closing hands it to the element it came from, unless that has
gone. That Enter runs what is highlighted needs that grouping the matches is stable and that the
groups lie together in the list as declared (`DrawnAsTheyCome`).

Early returns whose conditions overlap (`inspectContent`, `slaFor`, the pictures of a pre-check)
are written as `IF`s in the order of the source: a `CASE` with overlapping guards means any of the
branches that apply; TLC happens to take the first, a proof may not.

*The tabs.* First, for any number of them: what a tab sends is what a client may ask, and a step
that serves it is a step of its handler, so `BrowserSpec => Spec` and the family's `IInv` stands
behind the browser. `TabsInv` ties the two together: a request on the wire and unanswered has its
handler in a stage its route has, and nobody else has one. `NoFalseTheft` is far from inductive.
The promise lives in a page, so all of it is said until a page is left while it refreshes
(`OneTabKept`: `overtaken = {}` implies `OneTabInv`; `LeaveStep`, `ForgottenStep` and
`OvertakenGrows` carry the implication). It rests on `OneTabInv`, by the status of the session:
before it, a page load that will be refused is all there is; while it opens, the sign-in is the
only request; while it is active and the jar has a cookie, that cookie is live, or the one refresh
that presented it has minted its successor and is bringing it (`SignedIn`, with `Carries` for what
the refresh knows at each `await`). The server's invariants are used where the alarm would be:
`Decide` on a spent row alone raises it, and the chain says the generation in the jar is spent
only by that one refresh. A sign-in form under a cookie is possible only once the cookie has
expired; the proof has to carry that the refresh which found so cannot be overtaken, since time
does not go back. Once the session is revoked nothing is left to follow but that the reason is no
theft.

*The key.* That effects are a retention apart depends on who holds the row while a handler runs.
`Held` says it: a handler that runs is the row's holder's, the row is current and empty
(`RunsOnItsRow`); whoever performed has its row for a retention, and the next holder began after it
(`KeepsItsRow`). It holds only while nobody has outwaited the deadline (`NobodyOutwaited`), as the
properties do; `Sound`, what a request may be at, holds always.

*The codes.* The limit on sends is not inductive: handlers that have passed it and not yet recorded
are not in the list. `SendsAndSenders` counts both and bounds their sum. The limit on guesses needs
that the counter of a challenge is the number of wrong codes it has been told
(`CountsItsGuesses`), the cooldown that who saw it over sees it over still or was told of a send
(`CooldownSeen`). The lemmas are about the sends still in the window when one is appended and when
time passes: the list is sorted by what is left, so the oldest leave first.

*The roles.* What a change read must still be related to the rows when it writes
(`ChangesKnowWhatTheyDo`): the owners it counted are owners still or it knows who was deposed, and
the live rows it read are the live rows or it knows of an overlap. Both of these memories are
history; the theorem says they are the only way to a gym without an owner.

*The rules.* A behaviour keeps the input it began with (`InputsStay`), so an invariant of the rules is
a statement on all inputs. The lemmas make it on more than a run enumerates: the checklist for any
operators and facts, wizards for any set of completed steps, the lifecycle by sets of states that
cannot be left (`Closed`) in place of a search. What the code does with `filter` and `sort` is
told by ranks (`Ranking`): what comes i-th has i - 1 before it, so that nothing has to be unfolded.
`RanksDiffer` proves that a strict order on a finite set gives each member its own rank;
`RankedInOrder` that the list is then complete, sorted and without repetition.

*The amounts.* `AlwaysNearestEven` is for all integers n and d other than 0; `AlwaysSplitsFairly` for
every amount and every list of naturals that is not all zeros; `QuoteAlwaysBalances` for every
price. Each unit left after the floors goes to a rank, so as many shares get one as there are
units (`FirstOnes`). A sum is a recursive function; that the sum of floors falls short by less than
one each needs an induction, which is told without one: a set of numbers has a least member
(`LeastOne`, from the library's `WFMin`, which takes no operator), so what holds of 0 and passes
from each number to the next has no first exception (`UpTo`).

*The days.* `DaysAlwaysTile` and `AlwaysFiresNext` are for every date and instant,
`TermsAlwaysTile` and `YearsAlwaysTile` for those of 2001 to 2094 (the calendar of `GymTime` is
that of a century), each in every zone between -12 and 14 whose clocks change once, by an hour at
most, at any instant. The calendar is a date of the new year's day, the days before its month and
its day (`FirstOfMonth`); that it is so in one way only (`PartsOfADate`, `DateOfParts`) is what
the `CHOOSE`s of the model need. The first attempts failed, and for a good reason: `FiresNext` and
`YearsTile` held on the inputs TLC had and not on others (see *Time* below). They now name what
they need of the clocks (`HasMidnight`, `HasOneMidnight`), and the run has the instants that show
why.

Only model-checked:

- Liveness (`RefreshSettles`, `EventsSettle`, `EveryoneAnswered`), which the prover does not reach.
- `PagesTellTheTruth`: the pages of the site, the errors, the bar, the drawer and the theme, which fold
  and sort over data.
- The violations.

## What the code does not do as it says

Each is a run TLC ends with a counterexample; `PROJECT.json` quotes the line.

1. A password reset leaves the access tokens of the sessions it revokes accepted (`reset`).
2. An impersonation cannot be ended: the request is judged by the subject's grants, and no
   subject may hold the permission. The token lives to its expiry (`end`).
3. A submission's statements commit one by one inside its `$transaction`, because the tenant
   extension answers each with a transaction of its own. One that fails in between leaves an
   application without its event (`submission`).
4. `append` logs its failure and returns, so what is to be written first, or not done at all, is
   done without its row (`record`).

Seen while reading, each by the definition that models the lines or by the lines alone, and not
run as findings (a property named here is stated in its module, and is false):

- *Sessions.* `absolute_expires_at` is written and never read; the successor a replay rotates from
  may be spent already (`session.use-cases.ts:152`), so a third presentation is a server error;
  `now` is captured before the row is read (`:110`), so two tabs at once may look like a theft;
  the session is not read again before an access token is signed (`:226`); the answer of a
  committed rotation may be lost. A page that is left while it refreshes and loaded again sends
  the cookie that is being spent: later than the grace that is taken for a theft, and within it as
  well where the second request captured its `now` before the first wrote `used_at`
  (`refresh-rotation.policy.ts:103-107` asks for `sinceUseMs >= 0`), against what the policy wants
  the grace for (`:18-30`) and `client.ts:22` ("The server's ten-second grace absorbs it").
  `JWT_ACCESS_TTL` of the configuration is not what signs.
- *Delivery.* One lease covers a batch (`outbox.dispatcher.ts:186`); an event may be given up as
  "did not happen" after it did (`:207`). A retry that outwaits ten seconds executes as well
  (`idempotency.interceptor.ts:117`, `:193`); the path it hashes is the route's pattern (`:172`), so
  two deletions of different branches under one key are one request.
- *Accounts.* A link issued in the middle of `revokeAll` works and is in no index, against
  `redis-credential-token.store.ts:67-68` (`NoUnrevokableLink` of `AccountAccess`). A login that
  rehashes writes by id, so one that read the old password before a reset may write it back after
  (`ResetSticks`). An enrolment may replace a secret that another request is confirming, against
  `auth.controller.ts:433` (`ActiveOnlyWhenConfirmed` of `SecondFactor`). A second factor that fails
  records a lock at *every* count at the threshold or beyond it (`verify-mfa.use-case.ts:135-138`),
  which it calls "exactly as the password path does"; `login-with-password.use-case.ts:102-108` says
  why the password path does not, and a few requests in flight together bring the escalation of
  several locks. `lockout.policy.ts:18-23` says "Failed PASSWORD verifications only" and that TOTP
  failures "have their own 5-in-15 MFA lock"; they are counted on the password's key.
- *Authority.* Two owners may demote each other (`change-user-role.use-case.ts:88`; `OwnerRemains`).
  A role change is to take effect "within 60 seconds without forcing a re-authentication"
  (FR-RBAC-04; `user.prisma-repository.ts:178-181`, `permission-cache.port.ts:4-20`, the header of
  `change-user-role.use-case.ts`). The change invalidates a cache nothing reads: the guard decides by
  the claims alone, so a revoked role lives as long as the access token that claims it, fifteen
  minutes (`ClaimsEndWithTheToken` says that and no more; `TakesEffectWithin` of fewer ticks than
  `AccessLife` is false). An impersonation is to have the intersection of the two users'
  permissions (AC-5; `impersonation.policy.ts:5-8`, `start-impersonation.use-case.ts:52`, `:87-103`,
  `effective-permissions.ts:229-238`: "a grant that survives here still cannot exercise a permission
  the agent lacks"), but `permits()` knows nothing of the agent, and `effectiveGrants` keeps a
  subject's role whole where the agent holds one permission of it: of a member the agent is told 4
  of 12 permissions and is admitted to more (`NothingUnannounced`); a `@self` claim drops the
  scopes that are not SELF; branch roles always claim the tenant. `MfaGuard` and
  `ResourceTenantGuard` are not bound in `app.module.ts`. `seed/roles.ts` inserts and never deletes,
  so a permission taken from the matrix keeps its row (nothing reads the table).
- *Tenancy and audit.* The interceptor appends after the handler, although
  `audit-write.port.ts:9-10` says that both writers "write BEFORE the work they describe".
  `audit-read.prisma-repository.ts` runs raw SQL on the scoped client, where `app.tenant_id` may
  be unset; staff who also hold a gym's role carry its tenant and are refused an elevation; under
  PLATFORM scope a scoped model runs without `set_config`. Migration 20260810160000 re-creates the
  partition function without the immutability trigger. Creating a branch leaves no audit row (its
  id is empty, `::uuid` fails).
- *Branches.* `:id` is parsed as a v7 uuid while ids are v4 (`branch.controller.ts:169, 198,
  245`), and `created_at:desc` sorts by id, which is therefore not the order of creation
  (`branch.prisma-repository.ts:501-502`; `NewestFirst`). `deactivate` has no caller; the loser of
  two INSERTs surfaces as a constraint failure.
- *Onboarding.* Blur and perceptual hashes, which nothing measures, are to "report `ERROR` with
  the reason rather than `PASS`, because 'not checked' is not 'checked and fine'"
  (`image-quality.check.ts:19-24`); the check answers PASS and names them in `notChecked`
  (`:198-212`; `NothingUnmeasuredPasses` of `Prechecks`), which counts as passed where an approval
  asks for a reason. Nothing stops a suite whose lock session was lost, so a second worker may run
  it at once and the later UPDATE stays (`distributed-lock.ts:76-80`,
  `run-prechecks.processor.ts:110-113`); a release that fails is caught as a failed job
  (`job-runner.ts:124-126`) and the lock stays with its session, which is what the `finally` is to
  prevent (`distributed-lock.ts:61-64`). `mayApprove([])` takes no results for clean ones
  (`approval-override.policy.ts:56-57`); the job returns results even when it FAILED. The owner is
  to be shown distance and tolerance (`precheck-audience.ts:59-60`), but the check writes
  `distanceMetres` and the whitelist has `measuredMetres`; evidence of pictures and wording does
  not reach the owner either. The search for duplicates does not leave out the applicant's own
  gym, and looks up a number of separators only. `declaredTypeAgrees` and
  `carriesCrossTenantEvidence` have no caller. Object store and lock gateway have no working
  implementation.
- *Time.* `localMidnightUtc` answers 23 o'clock of the day before where midnight is skipped west
  of Greenwich (`local-midnight-utc.ts:101-106`): `nextLocalTimeUtc` may then be an instant that
  has passed, and a scheduler whose delay is floored at zero (`timezone-schedule.ts:38-40`) fires
  again and again for that hour. East of Greenwich, of a midnight that comes twice it takes the
  second, and the first hour of the day is in the financial year before. On the day of a
  transition the firing is an hour off. The launch market has no such days, but
  `local-midnight-utc.ts` says the design must not depend on that.
- *Errors.* Details of some 500s reach the client (`tenancy.errors.ts:37-48, 72-85`); 405, 410, 413 and
  422 of the framework carry INTERNAL_ERROR; the console shows "the last results that loaded" without
  them (`state-boundary.tsx:66-75, 135-138`). It decides by status whether to offer another try
  (`surface-state.ts:123`), not by the row: six rows of status 500 and 503 that say
  `retryable: false` get one (`OfferedAgainstTheRow`), two of them against the registry's own words
  ("503 usually invites a retry, and this one must not", `registry.ts:290-293`, and `:322-324`), and
  one row that says `retryable: true` gets none (`KeptAgainstTheRow`; it is a 422, which
  `error-code.registry.spec.ts:87-94` and `registry.ts:370` do not allow). `isRetryable`, "Read by the
  shared fetch wrapper" (`error-code.ts:38`), has no caller, and every query is tried again once
  whatever the code (`main.tsx:32`).
- *Console.* The queue's comparison is of whole hours, so within an hour the younger stands above
  (`approval-queue.route.tsx:96`); beyond a thousand gyms the oldest drop out
  (`elevated-tenant-reader.ts:104-105`) and are still counted; the review clock starts at the creation
  of the gym (`platform-overview.use-case.ts:115`) and is truncated toward zero although `:158` says a
  breach reads -1; the focused index is clamped to all rows, not to the page's; a page past the end
  reads "21 to 5 of 5". The overlay's focus trap opens on Shift+Tab from its container
  (`overlay.tsx:83`) and on Tab where nothing is enabled (`:75`); Enter on a command reached by Tab
  runs the highlighted one (`command-palette.tsx:117-119`).
- *Site.* Facets, chips, sorts and forms drop the compared gyms, although ADR-0050 (`DECISION_LOG.md`)
  has the selection accumulate everywhere. A link back to the current page while another is pending
  leaves the bar until it gives up (`route-pending.tsx:145`), so the timer that "exists to be
  unreachable" (`:83`) is reached; a click between paint and effect loses
  it (`:177-180`). A tab that follows the system overwrites the theme chosen in another; the timer of
  the restored scroll may save under the next page's key (`restore-scroll.tsx:102-103`).

## What is not modelled, and why

- *Formatting, validation, templates, layout, metadata, logging, OpenAPI, configuration, health*: no
  state outlives a request and nothing is decided that another part relies on. Most of the
  repository's lines are these: rendering, wording, tokens, seeds, generated types, tests.
- *SMTP, the object store, Redis and PostgreSQL as services.* What the code relies on is in the
  actions: which statements are one transaction, which constraint refuses, what a script does at
  once. A Redis that cannot be reached (the guard then lets pass) is left out.
- *Sessions*: the list of sessions and the cap per user. *Registration*: a second registration of one
  address. *Roles*: the first grant; the permission cache, which nothing fills. *Job runner*: the
  registry of queues and the record of runs. *Audit*: the explorer and the upkeep of partitions.
  *Storage*: put and get, whose only adapter refuses. *Onboarding*: the encryption of bank details.
- *Hash functions, HMAC, base32, JWT signatures, timing defences*: a secret is a name, a check an
  equality.
- *The areas of the server whose directories hold a README and no code* (attendance, billing, crm,
  discovery, ledger, memberships, ordering, payments, plans, refunds, reporting, reviews,
  settlements, staff, support).

## What is left of the plan

1. A Redis that fails: guard, limits and lockout decide what to do without it, each its own way.
2. The session list with its cap; the resource guard, once it is bound to a route.
3. The audit explorer and its partitions; a registration that races another for one address.
4. Restored scroll and toasts of the clients.
5. Theorems: `PagesTellTheTruth`, page by page, each a composition of its own.
