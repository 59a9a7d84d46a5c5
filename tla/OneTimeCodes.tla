----------------------------- MODULE OneTimeCodes -----------------------------
(***************************************************************************)
(* The codes texted to one phone number, the limits on sending them, and   *)
(* the account they (or the link of an e-mail) activate.                   *)
(*                                                                         *)
(* A handler asks for a code or presents one.  Redis keeps the challenge   *)
(* of each purpose, the times of the last sends and a counter per address; *)
(* a handler reads them, decides, and writes, and another handler runs     *)
(* between any two of its commands.  The text message is not state of the  *)
(* server: whoever presents a code presents any code.                      *)
(***************************************************************************)
EXTENDS Integers, FiniteSets, Sequences, SequencesExt

CONSTANTS
    Handlers, Purposes, Codes,
    MaxAttempts,     \* OTP_MAX_VERIFY_ATTEMPTS
    MaxSends,        \* OTP_MAX_SENDS_PER_WINDOW
    MaxFromIp,       \* OTP_MAX_PER_IP_PER_HOUR
    CaptchaFrom,     \* OTP_CAPTCHA_THRESHOLD_PER_IP
    CodeLife, SendWindow, Cooldown, IpWindow,    \* in ticks
    MaxGeneration,   \* bound of the model: how often a live code is replaced
    None

ASSUME LimitsAssumption ==
    /\ MaxAttempts \in Nat \ {0} /\ MaxSends \in Nat \ {0}
    /\ CaptchaFrom \in Nat /\ MaxFromIp \in Nat /\ MaxGeneration \in Nat \ {0}
    /\ {CodeLife, SendWindow, Cooldown, IpWindow} \subseteq Nat \ {0}
    /\ Cooldown <= SendWindow
ASSUME HandlersAssumption == IsFiniteSet(Handlers)

VARIABLES
    challenge,    \* otp:code:<purpose>:<phone>
    sends,        \* otp:resend:<phone>, oldest first: ticks until each leaves the window
    ip,           \* otp:ip:<address>
    account,      \* the row of users with this phone
    link,         \* whether an e-mail verification link of it is outstanding
    req,          \* the handlers
    story         \* history: what was presented since the challenge was set, and the deaths

vars == <<challenge, sends, ip, account, link, req, story>>

NoTtl == -1
NoCode == [code |-> None, generation |-> 0, attempts |-> 0, left |-> 0]
Nobody == [status |-> "none", phone |-> FALSE, email |-> FALSE]

\* generation, count: of the challenge, or of the address, as the handler read it;
\* crowded: another send was recorded since this handler counted them.
Idle == [at |-> "idle", purpose |-> None, code |-> None, generation |-> 0,
         count |-> 0, crowded |-> FALSE]

Init ==
    /\ challenge = [p \in Purposes |-> NoCode]
    /\ sends = <<>>
    /\ ip = [count |-> 0, left |-> NoTtl]
    /\ account = Nobody
    /\ link = FALSE
    /\ req = [h \in Handlers |-> Idle]
    /\ story = [guesses |-> [p \in Purposes |-> 0], verified |-> [p \in Purposes |-> 0],
                died |-> {}]

At(h, stage) == req[h].at = stage
Become(h, r) == req' = [req EXCEPT ![h] = r]
Goto(h, stage) == Become(h, [req[h] EXCEPT !.at = stage])
Known == account.status # "none"

-----------------------------------------------------------------------------
(***************************************************************************)
(* RequestOtpUseCase.                                                      *)
(***************************************************************************)
IpCap == MaxFromIp + 1    \* counts are compared with a limit, never added up

\* recordIpOperation: INCR, and EXPIRE by whoever made the key.
CountIp(h, p) ==
    /\ At(h, "idle")
    /\ ip' = [ip EXCEPT !.count = IF @ < IpCap THEN @ + 1 ELSE @]
    /\ Become(h, [Idle EXCEPT !.at = IF ip.count = 0 THEN "expire" ELSE "admit",
                              !.purpose = p, !.count = ip.count])
    /\ UNCHANGED <<challenge, sends, account, link, story>>

ExpireIp(h) ==
    /\ At(h, "expire")
    /\ ip' = [ip EXCEPT !.left = IpWindow]
    /\ Goto(h, "admit")
    /\ UNCHANGED <<challenge, sends, account, link, story>>

CoolingDown == sends # <<>> /\ Last(sends) > SendWindow - Cooldown

\* evaluateSend, of the operations before this one.
Admitted_NoCooldown(before, captcha) ==
    /\ before < MaxFromIp
    /\ before < CaptchaFrom \/ captcha
    /\ Len(sends) < MaxSends

Admitted(before, captcha) ==
    /\ before < MaxFromIp
    /\ before < CaptchaFrom \/ captcha
    /\ ~CoolingDown
    /\ Len(sends) < MaxSends

\* readSendCounters, then the verdict; a refusal ends the request.
Admit(h) ==
    /\ At(h, "admit")
    /\ \E captcha \in BOOLEAN :
          IF Admitted(req[h].count, captcha)
          THEN Become(h, [req[h] EXCEPT !.at = "issue", !.count = 0])
          ELSE Become(h, Idle)
    /\ UNCHANGED <<challenge, sends, ip, account, link, story>>

\* issue: the generation of the code it replaces, whatever account the number has ...
ReadGeneration(h) ==
    /\ At(h, "issue")
    /\ Become(h, [req[h] EXCEPT !.at = "set", !.generation = challenge[req[h].purpose].generation])
    /\ UNCHANGED <<challenge, sends, ip, account, link, story>>

\* ... and the code, drawn at random, over the next one.
SetCode(h, c) ==
    /\ At(h, "set")
    /\ req[h].generation < MaxGeneration
    /\ challenge' = [challenge EXCEPT ![req[h].purpose] =
                        [code |-> c, generation |-> req[h].generation + 1,
                         attempts |-> 0, left |-> CodeLife]]
    /\ story' = [story EXCEPT !.guesses[req[h].purpose] = 0, !.verified[req[h].purpose] = 0]
    /\ Goto(h, "record")
    /\ UNCHANGED <<sends, ip, account, link>>

\* ZREMRANGEBYSCORE: the set is sorted by time, so what has less left is its beginning.
SentSince(s, left) == SubSeq(s, 1 + Cardinality({i \in DOMAIN s : s[i] < left}), Len(s))

\* recordSend, one MULTI: the new time in, those past the window out.  What is
\* delivered then, if the number is known or registering, changes no state.
RecordSend(h) ==
    /\ At(h, "record")
    /\ sends' = Append(SentSince(sends, 1), SendWindow)
    /\ req' = [g \in Handlers |->
                  IF g = h THEN Idle
                  ELSE [req[g] EXCEPT !.crowded = @ \/ req[g].at \in {"issue", "set", "record"}]]
    /\ UNCHANGED <<challenge, ip, account, link, story>>

-----------------------------------------------------------------------------
(***************************************************************************)
(* VerifyOtpUseCase and the e-mail link.                                   *)
(***************************************************************************)
\* verify: the generation the digest is taken over, read ahead of the script.
ReadChallenge(h, p, c) ==
    /\ At(h, "idle") /\ challenge[p] # NoCode
    /\ Become(h, [Idle EXCEPT !.at = "judge", !.purpose = p, !.code = c,
                              !.generation = challenge[p].generation,
                              !.count = challenge[p].attempts])
    /\ UNCHANGED <<challenge, sends, ip, account, link, story>>

Matches(r, standing) == r.code = standing.code /\ r.generation = standing.generation

\* One run of VERIFY_AND_CONSUME, by what it leaves of the challenge.
Judged_NotConsumed(r, standing) ==
    CASE standing = NoCode -> NoCode
      [] Matches(r, standing) -> standing
      [] standing.attempts + 1 >= MaxAttempts -> NoCode
      [] OTHER -> [standing EXCEPT !.attempts = @ + 1]

Judged(r, standing) ==
    CASE standing = NoCode -> NoCode
      [] Matches(r, standing) -> NoCode
      [] standing.attempts + 1 >= MaxAttempts -> NoCode
      [] OTHER -> [standing EXCEPT !.attempts = @ + 1]

JudgeCode(h) ==
    /\ At(h, "judge")
    /\ LET p == req[h].purpose
           standing == challenge[p]
           verified == standing # NoCode /\ Matches(req[h], standing)
           wrong == standing # NoCode /\ ~verified
       IN  /\ challenge' = [challenge EXCEPT ![p] = Judged(req[h], standing)]
           /\ story' = [story EXCEPT !.guesses[p] = IF wrong THEN @ + 1 ELSE @,
                                     !.verified[p] = IF verified THEN @ + 1 ELSE @]
           /\ Become(h, IF verified THEN [Idle EXCEPT !.at = "find"] ELSE Idle)
    /\ UNCHANGED <<sends, ip, account, link>>

\* findForAuthentication: only a number not verified before is marked.
FindAccount(h) ==
    /\ At(h, "find")
    /\ Become(h, IF Known /\ ~account.phone THEN [Idle EXCEPT !.at = "stamp"] ELSE Idle)
    /\ UNCHANGED <<challenge, sends, ip, account, link, story>>

\* markPhoneVerified and markEmailVerified: the time, whatever the status ...
Stamp_Only(h) ==
    /\ At(h, "stamp") \/ At(h, "stampEmail")
    /\ account' = IF At(h, "stamp") THEN [account EXCEPT !.phone = TRUE]
                  ELSE [account EXCEPT !.email = TRUE]
    /\ Become(h, Idle)
    /\ UNCHANGED <<challenge, sends, ip, link, story>>

Stamp(h) ==
    /\ At(h, "stamp") \/ At(h, "stampEmail")
    /\ account' = IF At(h, "stamp") THEN [account EXCEPT !.phone = TRUE]
                  ELSE [account EXCEPT !.email = TRUE]
    /\ Goto(h, "activate")
    /\ UNCHANGED <<challenge, sends, ip, link, story>>

Activate_Whatever(h) ==
    /\ At(h, "activate")
    /\ account' = [account EXCEPT !.status = "active"]
    /\ Become(h, Idle)
    /\ UNCHANGED <<challenge, sends, ip, link, story>>

\* ... and the status in a second statement, only from PENDING_VERIFICATION.
Activate(h) ==
    /\ At(h, "activate")
    /\ account' = IF account.status = "pending" THEN [account EXCEPT !.status = "active"] ELSE account
    /\ Become(h, Idle)
    /\ UNCHANGED <<challenge, sends, ip, link, story>>

\* VerifyEmailUseCase: the link is consumed first.
OpenLink(h) ==
    /\ At(h, "idle") /\ link
    /\ link' = FALSE
    /\ Goto(h, "stampEmail")
    /\ UNCHANGED <<challenge, sends, ip, account, story>>

\* RegisterWithPasswordUseCase: the row (the number is unique), then the link,
\* which a death between the two never issues.
CreateAccount ==
    /\ ~Known
    /\ account' = [Nobody EXCEPT !.status = "pending"]
    /\ link' \in BOOLEAN
    /\ UNCHANGED <<challenge, sends, ip, req, story>>

\* An administrator's UPDATE of the status, at any moment between two statements of a
\* handler; the API has no operation that suspends an account, or that lifts it.
Suspend ==
    /\ Known /\ account.status # "suspended"
    /\ account' = [account EXCEPT !.status = "suspended"]
    /\ UNCHANGED <<challenge, sends, ip, link, req, story>>

-----------------------------------------------------------------------------
\* A command of Redis or of the database that fails, or a process that dies.
Fail(h) ==
    /\ ~At(h, "idle")
    /\ story' = [story EXCEPT !.died = @ \cup ({req[h].at} \cap {"expire", "activate"})]
    /\ Become(h, Idle)
    /\ UNCHANGED <<challenge, sends, ip, account, link>>

AgedCode(ch) == IF ch.left <= 1 THEN NoCode ELSE [ch EXCEPT !.left = @ - 1]

\* EXPIRE of the set of sends counts from the newest, which may leave with it.
AgedSends(s) ==
    IF s = <<>> \/ Last(s) = 1 THEN <<>>
    ELSE SentSince([i \in DOMAIN s |-> s[i] - 1], 0)

Tick ==
    /\ challenge' = [p \in Purposes |-> AgedCode(challenge[p])]
    /\ sends' = AgedSends(sends)
    /\ ip' = CASE ip.left = NoTtl -> ip
               [] ip.left = 1 -> [count |-> 0, left |-> NoTtl]
               [] OTHER -> [ip EXCEPT !.left = @ - 1]
    /\ UNCHANGED <<account, link, req, story>>

Request(h) ==
    \/ \E p \in Purposes : CountIp(h, p)
    \/ ExpireIp(h) \/ Admit(h) \/ ReadGeneration(h)
    \/ \E c \in Codes : SetCode(h, c)
    \/ RecordSend(h)

Verify(h) ==
    \/ \E p \in Purposes, c \in Codes : ReadChallenge(h, p, c)
    \/ JudgeCode(h) \/ FindAccount(h) \/ Stamp(h) \/ Activate(h)
    \/ OpenLink(h)

Next == \/ \E h \in Handlers : Request(h) \/ Verify(h) \/ Fail(h)
        \/ CreateAccount \/ Suspend
        \/ Tick

Spec == Init /\ [][Next]_vars

-----------------------------------------------------------------------------
\* Types.
CodeTypes ==
    /\ challenge \in [Purposes -> [code : Codes \cup {None}, generation : 0 .. MaxGeneration,
                                   attempts : 0 .. MaxAttempts - 1, left : 0 .. CodeLife]]
    /\ sends \in Seq(0 .. SendWindow)
    /\ ip \in [count : 0 .. IpCap, left : {NoTtl} \cup 1 .. IpWindow]
    /\ account \in [status : {"none", "pending", "active", "suspended"},
                    phone : BOOLEAN, email : BOOLEAN]
    /\ link \in BOOLEAN
    /\ \A h \in Handlers : req[h].generation \in 0 .. MaxGeneration

\* "five simultaneous submissions yield exactly one verification": a challenge
\* verifies at most one of what is presented to it, and is gone with it.
OneVerificationPerCode ==
    \A p \in Purposes : /\ story.verified[p] <= 1
                        /\ story.verified[p] = 1 => challenge[p] = NoCode

\* "the fifth wrong attempt destroys it": a challenge that stands has taken fewer
\* wrong codes than the limit, however many handlers presented them together.
GuessesPerCode ==
    \A p \in Purposes : /\ story.guesses[p] <= MaxAttempts
                        /\ challenge[p] # NoCode => story.guesses[p] < MaxAttempts

\* The limits on sending are read before they are recorded, so requests under
\* way together pass them together, by one send each and no more.
SendsAreBounded ==
    Cardinality({i \in DOMAIN sends : sends[i] > 0}) <= MaxSends + Cardinality(Handlers) - 1

\* A send nobody crowded is a cooldown away from the one before it.
SendsKeepApart ==
    [][\A h \in Handlers :
         At(h, "record") /\ sends' # sends /\ req'[h] = Idle /\ ~req[h].crowded =>
             sends = <<>> \/ Last(sends) <= SendWindow - Cooldown]_vars

\* A counter of an address that nothing will expire is one whose first request
\* is about to, or died between INCR and EXPIRE.
IpCountsExpire ==
    ip.count > 0 /\ ip.left = NoTtl =>
        "expire" \in story.died \/ \E h \in Handlers : At(h, "expire")

\* An account that proved its number or its address is left pending only by a
\* death between the two statements; a suspended one is revived by neither.
VerifiedIsActive ==
    account.status = "pending" /\ (account.phone \/ account.email) =>
        "activate" \in story.died \/ \E h \in Handlers : At(h, "activate")

\* What Redis is asked to limit is limited: verifications and guesses of a code,
\* sends to a number (otp.redis-store.ts, request-otp.use-case.ts).
LimitsHold == CodeTypes /\ OneVerificationPerCode /\ GuessesPerCode /\ SendsAreBounded

\* Two commands that belong together are parted by nothing but a death: INCR and
\* EXPIRE of an address, the stamp and the activation of an account.
OnlyDeathParts == IpCountsExpire /\ VerifiedIsActive

\* A suspended account is not revived by a code or a link, though the suspension falls
\* between what a handler read, or stamped, and the statement that activates
\* (markPhoneVerified, user.prisma-repository.ts:136-138, and verify-email).
SuspensionStands == [][account.status = "suspended" => account'.status = "suspended"]_vars

\* What a step may not do: send within the cooldown of a send it knew of, or lift
\* a suspension (request-otp.use-case.ts, user.prisma-repository.ts).
StepsAreHeld == SendsKeepApart /\ SuspensionStands
=============================================================================
