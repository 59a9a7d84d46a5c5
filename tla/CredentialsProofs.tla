--------------------------- MODULE CredentialsProofs ---------------------------
(***************************************************************************)
(* What the ways into an account keep, whatever the number of handlers,    *)
(* purposes, callers, links and codes, the limits and the lifetimes.  The  *)
(* four scenes of MCCredentials, in turn: the codes of one phone number    *)
(* (OneTimeCodes); the slots to hash in (HashPool), of which none is lost; *)
(* the password, its lockout and its links (AccountAccess, AccessInv); the *)
(* second factor (SecondFactor, FactorInv).  The codes are proved of their *)
(* own specification (OneTimeCodes), the others of the composition that    *)
(* the runs check.                                                         *)
(*                                                                         *)
(* The limit on sends is not inductive: handlers that have passed it and   *)
(* not recorded their send yet count towards it.  Those still under way    *)
(* and the sends in the window together never pass the limit by more than  *)
(* the handlers less one.  The limit on guesses rests on the counter of    *)
(* the challenge being the number of wrong codes it has taken, and the     *)
(* cooldown on nobody having recorded a send unseen by those under way.    *)
(***************************************************************************)
EXTENDS MCCredentials, FiniteSetTheorems, SequenceTheorems, TLAPS

Stages == {"idle", "expire", "admit", "issue", "set", "record", "judge", "find", "stamp",
           "stampEmail", "activate"}

HandlerRecords ==
    [at : Stages, purpose : Purposes \cup {None}, code : Codes \cup {None},
     generation : 0 .. MaxGeneration, count : Nat, crowded : BOOLEAN]

\* What is asked for or presented has a purpose.
HandlerStates ==
    {x \in HandlerRecords :
        x.at \in {"expire", "admit", "issue", "set", "record", "judge"} => x.purpose \in Purposes}

Challenges ==
    [code : Codes \cup {None}, generation : 0 .. MaxGeneration,
     attempts : 0 .. MaxAttempts - 1, left : 0 .. CodeLife]

\* The stages between the verdict on a send and its record.
Sending == {"issue", "set", "record"}

SendersUnderWay == {h \in Handlers : req[h].at \in Sending}

Sorted(s) == \A i, j \in DOMAIN s : i <= j => s[i] <= s[j]

Live(s) == {i \in DOMAIN s : s[i] > 0}

Histories ==
    [guesses : [Purposes -> Nat], verified : [Purposes -> Nat], died : SUBSET Stages]

HandlerTypes == req \in [Handlers -> HandlerStates] /\ story \in Histories

\* The counter of a challenge is what it has been told wrong.
CountsItsGuesses == \A p \in Purposes : challenge[p] # NoCode => story.guesses[p] = challenge[p].attempts

\* Whoever has passed the limit is counted with those recorded.
SendsAndSenders ==
    Cardinality(Live(sends)) + Cardinality(SendersUnderWay) <= MaxSends + Cardinality(Handlers) - 1

\* Whoever saw the cooldown over sees it over still, or was told of a send.
CooldownSeen ==
    \A h \in Handlers : req[h].at \in Sending /\ ~req[h].crowded => ~CoolingDown

IInv ==
    /\ CodeTypes /\ HandlerTypes
    /\ OneVerificationPerCode /\ CountsItsGuesses /\ GuessesPerCode
    /\ Sorted(sends) /\ SendsAndSenders /\ CooldownSeen
    /\ IpCountsExpire /\ VerifiedIsActive

-----------------------------------------------------------------------------
LEMMA CountUpTo ==
    ASSUME NEW n \in Nat PROVE IsFiniteSet(1 .. n) /\ Cardinality(1 .. n) = n
BY FS_Interval

LEMMA Retyped ==
    ASSUME NEW S, NEW T, NEW s \in Seq(S), \A i \in 1 .. Len(s) : s[i] \in T
    PROVE  s \in Seq(T)
<1>1. Len(s) \in Nat /\ s \in [1 .. Len(s) -> S]
  BY LenProperties
<1>2. s \in [1 .. Len(s) -> T]
  BY <1>1
<1>3. QED
  BY <1>1, <1>2, SeqDef

(* What is past of a sorted set is a prefix of it, as long as it is many.   *)
LEMMA SentSinceFacts ==
    ASSUME NEW s \in Seq(Int), Sorted(s), NEW left \in Int
    PROVE  \E k \in 0 .. Len(s) :
              /\ SentSince(s, left) \in Seq(Int)
              /\ Len(SentSince(s, left)) = Len(s) - k
              /\ \A i \in 1 .. Len(s) - k : SentSince(s, left)[i] = s[i + k]
              /\ \A i \in 1 .. Len(s) : s[i] < left <=> i <= k
<1> DEFINE past == {i \in DOMAIN s : s[i] < left}
           k == Cardinality(past)
<1>a. Len(s) \in Nat /\ DOMAIN s = 1 .. Len(s)
  OBVIOUS
<1>1. /\ IsFiniteSet(1 .. Len(s)) /\ Cardinality(1 .. Len(s)) = Len(s)
  BY <1>a, CountUpTo
<1>2. past \subseteq 1 .. Len(s)
  OBVIOUS
<1>3. IsFiniteSet(past) /\ k <= Len(s)
  BY <1>1, <1>2, FS_Subset
<1>4. k \in 0 .. Len(s)
  BY <1>3, FS_CardinalityType
<1>5. ASSUME NEW i \in past PROVE i <= k
  <2>1. 1 .. i \subseteq past
    BY <1>2, <1>5 DEF Sorted
  <2>2. Cardinality(1 .. i) = i
    BY <1>2, <1>5, FS_Interval
  <2>3. Cardinality(1 .. i) <= k
    BY <1>3, <2>1, FS_Subset
  <2>4. QED
    BY <2>2, <2>3
<1>6. past = 1 .. k
  <2>1. past \subseteq 1 .. k
    BY <1>2, <1>4, <1>5
  <2>2. IsFiniteSet(1 .. k) /\ Cardinality(1 .. k) = k
    BY <1>4, FS_Interval
  <2>3. QED
    BY <2>1, <2>2, FS_Subset
<1> HIDE DEF k
<1>7. SentSince(s, left) = SubSeq(s, 1 + k, Len(s))
  BY DEF SentSince, k
<1>8. \A i \in 1 .. Len(s) : s[i] < left <=> i <= k
  BY <1>4, <1>6
<1>9. QED
  BY <1>4, <1>7, <1>8

(* What a sorted set loses at its beginning leaves it sorted, its live      *)
(* members no more than they were, and its last where it was.               *)
LEMMA Shifted ==
    ASSUME NEW s \in Seq(Int), NEW t \in Seq(Int), NEW k \in 0 .. Len(s), Sorted(s),
           Len(t) = Len(s) - k, \A i \in 1 .. Len(t) : t[i] = s[i + k]
    PROVE  /\ Sorted(t)
           /\ IsFiniteSet(Live(s)) /\ IsFiniteSet(Live(t))
           /\ Cardinality(Live(t)) <= Cardinality(Live(s))
           /\ t # <<>> => Last(t) = Last(s)
<1>a. /\ Len(s) \in Nat /\ DOMAIN s = 1 .. Len(s)
      /\ Len(t) \in Nat /\ DOMAIN t = 1 .. Len(t)
  OBVIOUS
<1>b. ASSUME NEW i \in DOMAIN t PROVE i \in Int /\ i + k \in DOMAIN s /\ t[i] = s[i + k]
  <2>1. i \in 1 .. Len(t)
    BY <1>a
  <2>2. i \in Int /\ i + k \in 1 .. Len(s)
    BY <1>a, <2>1, SMTT(30)
  <2>3. QED
    BY <1>a, <2>1, <2>2
<1>1. Sorted(t)
  <2>1. SUFFICES ASSUME NEW i \in DOMAIN t, NEW j \in DOMAIN t, i <= j PROVE t[i] <= t[j]
    BY DEF Sorted
  <2>2. i + k \in DOMAIN s /\ j + k \in DOMAIN s /\ i + k <= j + k
    BY <1>b, <2>1
  <2>3. s[i + k] <= s[j + k]
    BY <2>2 DEF Sorted
  <2>4. QED
    BY <1>b, <2>3
<1>2. IsFiniteSet(Live(s))
  <2>1. IsFiniteSet(1 .. Len(s)) /\ Live(s) \subseteq 1 .. Len(s)
    BY <1>a, CountUpTo DEF Live
  <2>2. QED
    BY <2>1, FS_Subset
<1> DEFINE f == [i \in Live(t) |-> i + k]
<1>3. f \in Injection(Live(t), Live(s))
  <2>1. \A i \in Live(t) : i \in DOMAIN t /\ t[i] > 0 /\ i \in Int
    BY <1>a DEF Live
  <2>2. f \in [Live(t) -> Live(s)]
    BY <1>b, <2>1 DEF Live
  <2>3. \A i, j \in Live(t) : f[i] = f[j] => i = j
    BY <2>1
  <2>4. QED
    BY <2>2, <2>3 DEF Injection, IsInjective
<1>4. IsFiniteSet(Live(t)) /\ Cardinality(Live(t)) <= Cardinality(Live(s))
  BY <1>2, <1>3, FS_Injection
<1>5. t # <<>> => Last(t) = Last(s)
  BY <1>a, <1>b, SMTT(30) DEF Last
<1>6. QED
  BY <1>1, <1>2, <1>4, <1>5

(* A send recorded now is the last and one more.                            *)
LEMMA Recorded ==
    ASSUME NEW t \in Seq(Int), NEW w \in Int, Sorted(t), IsFiniteSet(Live(t)),
           \A i \in DOMAIN t : t[i] <= w
    PROVE  /\ Sorted(Append(t, w)) /\ Append(t, w) # <<>> /\ Last(Append(t, w)) = w
           /\ IsFiniteSet(Live(Append(t, w)))
           /\ Cardinality(Live(Append(t, w))) <= Cardinality(Live(t)) + 1
<1> DEFINE u == Append(t, w)
<1>1. /\ Len(t) \in Nat /\ DOMAIN t = 1 .. Len(t)
      /\ u \in Seq(Int) /\ Len(u) = Len(t) + 1 /\ DOMAIN u = 1 .. Len(u)
      /\ \A i \in 1 .. Len(t) : u[i] = t[i]
      /\ u[Len(t) + 1] = w
  OBVIOUS
<1> HIDE DEF u
<1>2. Sorted(u)
  <2>1. SUFFICES ASSUME NEW i \in 1 .. Len(t) + 1, NEW j \in 1 .. Len(t) + 1, i <= j
                 PROVE  u[i] <= u[j]
    BY <1>1 DEF Sorted
  <2>2. CASE j \in 1 .. Len(t)
    <3>1. i \in 1 .. Len(t)
      BY <1>1, <2>1, <2>2
    <3>2. QED
      BY <1>1, <2>1, <2>2, <3>1 DEF Sorted
  <2>3. CASE j = Len(t) + 1
    <3>1. CASE i = j
      BY <1>1, <2>3, <3>1
    <3>2. CASE i \in 1 .. Len(t)
      BY <1>1, <2>3, <3>2
    <3>3. QED
      BY <1>1, <2>1, <2>3, <3>1, <3>2
  <2>4. QED
    BY <1>1, <2>1, <2>2, <2>3
<1>3. Live(u) \subseteq Live(t) \cup {Len(t) + 1}
  BY <1>1 DEF Live
<1>4. /\ IsFiniteSet(Live(t) \cup {Len(t) + 1})
      /\ Cardinality(Live(t) \cup {Len(t) + 1}) <= Cardinality(Live(t)) + 1
      /\ Cardinality(Live(t)) \in Nat /\ Cardinality(Live(t) \cup {Len(t) + 1}) \in Nat
  <2>1. /\ IsFiniteSet(Live(t) \cup {Len(t) + 1})
        /\ Cardinality(Live(t) \cup {Len(t) + 1}) =
              IF Len(t) + 1 \in Live(t) THEN Cardinality(Live(t)) ELSE Cardinality(Live(t)) + 1
    BY FS_AddElement
  <2>2. Cardinality(Live(t)) \in Nat
    BY FS_CardinalityType
  <2>3. QED
    BY <2>1, <2>2
<1>5. /\ IsFiniteSet(Live(u)) /\ Cardinality(Live(u)) \in Nat
      /\ Cardinality(Live(u)) <= Cardinality(Live(t) \cup {Len(t) + 1})
  BY <1>3, <1>4, FS_Subset, FS_CardinalityType
<1>6. u # <<>> /\ Last(u) = w
  BY <1>1 DEF Last
<1>7. QED
  BY <1>2, <1>4, <1>5, <1>6 DEF u

USE LimitsAssumption, HandlersAssumption DEF At, Become, Goto, Known, NoTtl, IpCap

LEMMA SendersFinite ==
    /\ IsFiniteSet(SendersUnderWay) /\ Cardinality(SendersUnderWay) \in Nat
    /\ Cardinality(SendersUnderWay) <= Cardinality(Handlers) /\ Cardinality(Handlers) \in Nat
BY FS_Subset, FS_CardinalityType DEF SendersUnderWay

(* What the limit counts is no more than what is kept.                      *)
LEMMA SendsFinite ==
    ASSUME IInv
    PROVE  /\ IsFiniteSet(Live(sends)) /\ Cardinality(Live(sends)) \in Nat
           /\ Cardinality(Live(sends)) <= Len(sends) /\ Len(sends) \in Nat
           /\ sends \in Seq(Int)
<1>1. /\ sends \in Seq(0 .. SendWindow) /\ SendWindow \in Nat
  BY DEF IInv, CodeTypes
<1>2. /\ sends \in Seq(Int) /\ Len(sends) \in Nat /\ DOMAIN sends = 1 .. Len(sends)
  BY <1>1
<1>3. IsFiniteSet(1 .. Len(sends)) /\ Cardinality(1 .. Len(sends)) = Len(sends)
  BY <1>2, CountUpTo
<1>4. Live(sends) \subseteq 1 .. Len(sends)
  BY <1>2 DEF Live
<1>5. QED
  BY <1>2, <1>3, <1>4, FS_Subset, FS_CardinalityType

-----------------------------------------------------------------------------
(* A handler that goes from one stage to the next.                          *)
LEMMA OneHandler ==
    ASSUME IInv, NEW h \in Handlers, NEW x \in HandlerStates, Become(h, x)
    PROVE  /\ req' \in [Handlers -> HandlerStates]
           /\ req'[h] = x
           /\ \A g \in Handlers \ {h} : req'[g] = req[g]
           /\ \A g \in Handlers : req'[g].generation \in 0 .. MaxGeneration
BY DEF IInv, HandlerTypes, HandlerRecords, HandlerStates

(* It is not on its way to a send unless it was.                            *)
LEMMA SendsStand ==
    ASSUME IInv, NEW h \in Handlers, NEW x \in HandlerStates, Become(h, x), sends' = sends,
           x.at \in Sending => req[h].at \in Sending /\ x.crowded = req[h].crowded
    PROVE  Sorted(sends)' /\ SendsAndSenders' /\ CooldownSeen'
<1>1. /\ req'[h] = x /\ \A g \in Handlers \ {h} : req'[g] = req[g]
  BY OneHandler
<1>2. Sorted(sends)' /\ CoolingDown' = CoolingDown /\ Live(sends)' = Live(sends)
  BY DEF IInv, Sorted, CoolingDown, Live
<1>3. SendersUnderWay' \subseteq SendersUnderWay
  BY <1>1 DEF SendersUnderWay
<1>4. /\ IsFiniteSet(SendersUnderWay') /\ Cardinality(SendersUnderWay') \in Nat
      /\ Cardinality(SendersUnderWay') <= Cardinality(SendersUnderWay)
  BY <1>3, SendersFinite, FS_Subset, FS_CardinalityType
<1>5. SendsAndSenders'
  BY <1>2, <1>4, SendersFinite, SendsFinite DEF IInv, SendsAndSenders
<1>6. CooldownSeen'
  BY <1>1, <1>2 DEF IInv, CooldownSeen
<1>7. QED
  BY <1>2, <1>5, <1>6

LEMMA CodesStand ==
    ASSUME IInv, challenge' = challenge,
           story'.guesses = story.guesses, story'.verified = story.verified
    PROVE  OneVerificationPerCode' /\ CountsItsGuesses' /\ GuessesPerCode'
BY DEF IInv, OneVerificationPerCode, CountsItsGuesses, GuessesPerCode

(* A handler between two statements that belong together goes on to the     *)
(* second, or its death is told.                                            *)
LEMMA DeathsStand ==
    ASSUME IInv, NEW h \in Handlers, NEW x \in HandlerStates, Become(h, x),
           ip' = ip, account' = account, story.died \subseteq story'.died,
           req[h].at \in {"expire", "activate"} => x.at = req[h].at \/ req[h].at \in story'.died
    PROVE  IpCountsExpire' /\ VerifiedIsActive'
<1>1. /\ req'[h] = x /\ \A g \in Handlers \ {h} : req'[g] = req[g]
  BY OneHandler
<1>2. \A stage \in {"expire", "activate"} :
         (stage \in story.died \/ \E g \in Handlers : req[g].at = stage) =>
             stage \in story'.died \/ \E g \in Handlers : req'[g].at = stage
  BY <1>1
<1>3. QED
  BY <1>2 DEF IInv, IpCountsExpire, VerifiedIsActive

(* A step of one handler that changes nothing but what it has read.         *)
LEMMA ReadingStep ==
    ASSUME IInv, NEW h \in Handlers, NEW x \in HandlerStates, Become(h, x),
           UNCHANGED <<challenge, sends, ip, account>>, link' \in BOOLEAN, story' = story,
           x.at \in Sending => req[h].at \in Sending /\ x.crowded = req[h].crowded,
           req[h].at \notin {"expire", "activate"}
    PROVE  IInv'
<1>1. CodeTypes' /\ HandlerTypes'
  BY OneHandler DEF IInv, CodeTypes, HandlerTypes
<1>2. Sorted(sends)' /\ SendsAndSenders' /\ CooldownSeen'
  BY SendsStand
<1>3. OneVerificationPerCode' /\ CountsItsGuesses' /\ GuessesPerCode'
  BY CodesStand
<1>4. IpCountsExpire' /\ VerifiedIsActive'
  BY DeathsStand
<1>5. QED
  BY <1>1, <1>2, <1>3, <1>4 DEF IInv

LEMMA IdleType == Idle \in HandlerStates
BY DEF Idle, HandlerRecords, HandlerStates, Stages

(* A number nobody has asked a code for.                                    *)
LEMMA IInvInit == ASSUME Init PROVE IInv
<1>1. CodeTypes
  <2>1. NoCode \in Challenges
    BY DEF NoCode, Challenges
  <2>2. challenge \in [Purposes -> Challenges] /\ sends \in Seq(0 .. SendWindow)
    BY <2>1 DEF Init
  <2>3. ip \in [count : 0 .. IpCap, left : {NoTtl} \cup 1 .. IpWindow] /\ link \in BOOLEAN
    <3>1. ip = [count |-> 0, left |-> NoTtl] /\ link = FALSE
      BY DEF Init
    <3>2. 0 \in 0 .. IpCap
      OBVIOUS
    <3>3. QED
      BY <3>1, <3>2
  <2>4. account \in [status : {"none", "pending", "active", "suspended"},
                     phone : BOOLEAN, email : BOOLEAN]
    <3>1. account = Nobody
      BY DEF Init
    <3>2. Nobody \in [status : {"none", "pending", "active", "suspended"},
                     phone : BOOLEAN, email : BOOLEAN]
      BY DEF Nobody
    <3>3. QED
      BY <3>1, <3>2
  <2>5. \A h \in Handlers : req[h].generation \in 0 .. MaxGeneration
    BY DEF Init, Idle
  <2>6. QED
    BY <2>2, <2>3, <2>4, <2>5 DEF CodeTypes, Challenges
<1>2. HandlerTypes
  BY IdleType DEF Init, HandlerTypes, Histories
<1>3. OneVerificationPerCode /\ CountsItsGuesses /\ GuessesPerCode
  BY DEF Init, OneVerificationPerCode, CountsItsGuesses, GuessesPerCode
<1>4. Sorted(sends) /\ CooldownSeen
  BY DEF Init, Sorted, CooldownSeen, Idle, Sending
<1>5. SendsAndSenders
  <2>1. Live(sends) = {} /\ SendersUnderWay = {}
    BY DEF Init, Live, SendersUnderWay, Idle, Sending
  <2>2. QED
    BY <2>1, FS_EmptySet, SendersFinite DEF SendsAndSenders
<1>6. IpCountsExpire /\ VerifiedIsActive
  BY DEF Init, IpCountsExpire, VerifiedIsActive, Nobody
<1>7. QED
  BY <1>1, <1>2, <1>3, <1>4, <1>5, <1>6 DEF IInv

(* The steps that only read: a generation, a challenge, an account, a link. *)
LEMMA ReadStep ==
    ASSUME IInv, NEW h \in Handlers,
           \/ ReadGeneration(h) \/ FindAccount(h) \/ OpenLink(h)
           \/ \E p \in Purposes, c \in Codes : ReadChallenge(h, p, c)
    PROVE  IInv'
<1>t. /\ req[h] \in HandlerStates /\ link \in BOOLEAN /\ challenge \in [Purposes -> Challenges]
  BY DEF IInv, HandlerTypes, CodeTypes, Challenges
<1>1. CASE ReadGeneration(h)
  <2> DEFINE g == challenge[req[h].purpose].generation
             x == [req[h] EXCEPT !.at = "set", !.generation = g]
  <2>1. /\ Become(h, x) /\ UNCHANGED <<challenge, sends, ip, account, link, story>>
        /\ req[h].at = "issue"
    BY <1>1 DEF ReadGeneration
  <2>2. g \in 0 .. MaxGeneration
    BY <1>t, <2>1 DEF Challenges, HandlerStates
  <2> HIDE DEF g
  <2>3. x \in HandlerStates /\ x.at = "set" /\ x.crowded = req[h].crowded
    BY <1>t, <2>1, <2>2 DEF HandlerStates, HandlerRecords, Stages
  <2> HIDE DEF x
  <2>4. QED
    BY <1>t, <2>1, <2>3, ReadingStep DEF Sending
<1>2. CASE FindAccount(h)
  <2>1. PICK x \in {Idle, [Idle EXCEPT !.at = "stamp"]} : Become(h, x)
    BY <1>2 DEF FindAccount
  <2>2. x \in HandlerStates /\ x.at \in {"idle", "stamp"}
    <3>1. CASE x = Idle
      BY <3>1, IdleType DEF Idle
    <3>2. CASE x = [Idle EXCEPT !.at = "stamp"]
      <4>1. x.at = "stamp" /\ Idle \in HandlerRecords
        BY <3>2, IdleType DEF Idle, HandlerStates
      <4>2. x \in HandlerRecords
        BY <3>2, <4>1 DEF HandlerRecords, Stages
      <4>3. QED
        BY <4>1, <4>2 DEF HandlerStates
    <3>3. QED
      BY <2>1, <3>1, <3>2
  <2>3. UNCHANGED <<challenge, sends, ip, account, link, story>> /\ req[h].at = "find"
    BY <1>2 DEF FindAccount
  <2>4. QED
    BY <1>t, <2>1, <2>2, <2>3, ReadingStep DEF Sending
<1>3. CASE OpenLink(h)
  <2> DEFINE x == [req[h] EXCEPT !.at = "stampEmail"]
  <2>1. /\ Become(h, x) /\ UNCHANGED <<challenge, sends, ip, account, story>> /\ link' = FALSE
        /\ req[h].at = "idle"
    BY <1>3 DEF OpenLink
  <2>2. x \in HandlerStates /\ x.at = "stampEmail"
    BY <1>t DEF HandlerStates, HandlerRecords, Stages
  <2> HIDE DEF x
  <2>3. QED
    BY <2>1, <2>2, ReadingStep DEF Sending
<1>4. ASSUME NEW p \in Purposes, NEW c \in Codes, ReadChallenge(h, p, c) PROVE IInv'
  <2> DEFINE g == challenge[p].generation
             n == challenge[p].attempts
             x == [Idle EXCEPT !.at = "judge", !.purpose = p, !.code = c,
                               !.generation = g, !.count = n]
  <2>1. /\ Become(h, x) /\ UNCHANGED <<challenge, sends, ip, account, link, story>>
        /\ req[h].at = "idle"
    BY <1>4 DEF ReadChallenge
  <2>2. g \in 0 .. MaxGeneration /\ n \in Nat
    BY <1>t DEF Challenges
  <2> HIDE DEF g, n
  <2>3. x \in HandlerStates /\ x.at = "judge"
    BY <2>2 DEF Idle, HandlerStates, HandlerRecords, Stages
  <2> HIDE DEF x
  <2>4. QED
    BY <1>t, <2>1, <2>3, ReadingStep DEF Sending
<1>5. QED
  BY <1>1, <1>2, <1>3, <1>4

-----------------------------------------------------------------------------
(* The counter of an address is expired by whoever made it.                 *)
LEMMA IpStep ==
    ASSUME IInv, NEW h \in Handlers, ExpireIp(h) \/ \E p \in Purposes : CountIp(h, p)
    PROVE  IInv'
<1>t. /\ req[h] \in HandlerStates /\ IpWindow \in Nat \ {0} /\ IpCap \in Nat
      /\ ip \in [count : 0 .. IpCap, left : {NoTtl} \cup 1 .. IpWindow]
  BY DEF IInv, HandlerTypes, CodeTypes
<1>1. ASSUME NEW x \in HandlerStates, Become(h, x), x.at \in {"expire", "admit"},
             UNCHANGED <<challenge, sends, account, link, story>>,
             ip' \in [count : 0 .. IpCap, left : {NoTtl} \cup 1 .. IpWindow],
             req[h].at # "activate", IpCountsExpire'
      PROVE  IInv'
  <2>1. /\ req'[h] = x /\ \A g \in Handlers \ {h} : req'[g] = req[g]
    BY <1>1, OneHandler
  <2>2. CodeTypes' /\ HandlerTypes'
    BY <1>1, OneHandler DEF IInv, CodeTypes, HandlerTypes
  <2>3. Sorted(sends)' /\ SendsAndSenders' /\ CooldownSeen'
    BY <1>1, SendsStand DEF Sending
  <2>4. OneVerificationPerCode' /\ CountsItsGuesses' /\ GuessesPerCode'
    BY <1>1, CodesStand
  <2>5. VerifiedIsActive'
    BY <1>1, <2>1 DEF IInv, VerifiedIsActive
  <2>6. QED
    BY <1>1, <2>2, <2>3, <2>4, <2>5 DEF IInv
<1>2. CASE ExpireIp(h)
  <2> DEFINE x == [req[h] EXCEPT !.at = "admit"]
  <2>1. /\ Become(h, x) /\ UNCHANGED <<challenge, sends, account, link, story>>
        /\ ip' = [ip EXCEPT !.left = IpWindow] /\ req[h].at = "expire"
    BY <1>2 DEF ExpireIp
  <2>2. x \in HandlerStates /\ x.at = "admit"
    BY <1>t, <2>1 DEF HandlerStates, HandlerRecords, Stages
  <2> HIDE DEF x
  <2>3. ip' \in [count : 0 .. IpCap, left : {NoTtl} \cup 1 .. IpWindow] /\ ip'.left = IpWindow
    BY <1>t, <2>1
  <2>4. IpCountsExpire'
    BY <1>t, <2>3 DEF IpCountsExpire
  <2>5. QED
    BY <1>1, <2>1, <2>2, <2>3, <2>4
<1>3. ASSUME NEW p \in Purposes, CountIp(h, p) PROVE IInv'
  <2> DEFINE to == IF ip.count = 0 THEN "expire" ELSE "admit"
             n == ip.count
             x == [Idle EXCEPT !.at = to, !.purpose = p, !.count = n]
  <2>1. /\ Become(h, x) /\ UNCHANGED <<challenge, sends, account, link, story>>
        /\ ip' = [ip EXCEPT !.count = IF @ < IpCap THEN @ + 1 ELSE @] /\ req[h].at = "idle"
    BY <1>3 DEF CountIp
  <2>2. n \in Nat /\ to \in {"expire", "admit"} /\ (n = 0 => to = "expire")
    BY <1>t
  <2>3. /\ ip' \in [count : 0 .. IpCap, left : {NoTtl} \cup 1 .. IpWindow]
        /\ ip'.left = ip.left
    BY <1>t, <2>1
  <2> HIDE DEF to
  <2>4. x \in HandlerStates /\ x.at = to
    <3>1. Idle \in HandlerRecords
      BY IdleType DEF HandlerStates
    <3>2. x \in HandlerRecords /\ x.at = to /\ x.purpose = p
      BY <2>2, <3>1 DEF HandlerRecords, Stages
    <3>3. QED
      BY <3>2 DEF HandlerStates
  <2> HIDE DEF x
  <2>5. /\ req'[h] = x /\ \A g \in Handlers \ {h} : req'[g] = req[g]
    BY <2>1, <2>4, OneHandler
  <2>6. IpCountsExpire'
    <3>1. CASE n = 0
      BY <2>2, <2>4, <2>5, <3>1 DEF IpCountsExpire
    <3>2. CASE n # 0
      <4>1. ip.count > 0
        BY <1>t, <3>2
      <4>2. QED
        BY <2>1, <2>3, <2>5, <4>1 DEF IInv, IpCountsExpire
    <3>3. QED
      BY <3>1, <3>2
  <2>7. QED
    BY <1>1, <2>1, <2>2, <2>3, <2>4, <2>6
<1>4. QED
  BY <1>2, <1>3

(* Whoever is admitted passes the limit with fewer sends than it, and no    *)
(* more under way than there are handlers.                                  *)
LEMMA AdmitStep == ASSUME IInv, NEW h \in Handlers, Admit(h) PROVE IInv'
<1>t. req[h] \in HandlerStates /\ req[h].at = "admit"
      /\ UNCHANGED <<challenge, sends, ip, account, link, story>>
  BY DEF IInv, HandlerTypes, Admit
<1>1. CASE Become(h, Idle)
  <2>1. Idle.at = "idle"
    BY DEF Idle
  <2>2. link' \in BOOLEAN
    BY <1>t DEF IInv, CodeTypes
  <2>3. QED
    BY <1>1, <1>t, <2>1, <2>2, IdleType, ReadingStep DEF Sending
<1>2. ASSUME NEW captcha \in BOOLEAN, Admitted(req[h].count, captcha),
             Become(h, [req[h] EXCEPT !.at = "issue", !.count = 0])
      PROVE  IInv'
  <2> DEFINE x == [req[h] EXCEPT !.at = "issue", !.count = 0]
  <2>1. x \in HandlerStates /\ x.at = "issue"
    BY <1>t DEF HandlerStates, HandlerRecords, Stages
  <2>2. Become(h, x)
    BY <1>2
  <2> HIDE DEF x
  <2>3. /\ req'[h] = x /\ \A g \in Handlers \ {h} : req'[g] = req[g]
    BY <2>1, <2>2, OneHandler
  <2>4. CodeTypes' /\ HandlerTypes'
    BY <1>t, <2>1, <2>2, OneHandler DEF IInv, CodeTypes, HandlerTypes
  <2>5. Sorted(sends)' /\ CoolingDown' = CoolingDown /\ Live(sends)' = Live(sends)
    BY <1>t DEF IInv, Sorted, CoolingDown, Live
  <2>6. CooldownSeen'
    BY <1>2, <2>3, <2>5 DEF IInv, CooldownSeen, Admitted
  <2>7. SendsAndSenders'
    <3>1. Cardinality(Live(sends)) <= MaxSends - 1
      BY <1>2, SendsFinite DEF Admitted
    <3>2. /\ Cardinality(SendersUnderWay') <= Cardinality(Handlers)
          /\ Cardinality(SendersUnderWay') \in Nat
      <4>1. SendersUnderWay' \subseteq Handlers
        BY DEF SendersUnderWay
      <4>2. IsFiniteSet(SendersUnderWay')
        BY <4>1, FS_Subset
      <4>3. QED
        BY <4>1, <4>2, FS_Subset, FS_CardinalityType
    <3>3. QED
      BY <2>5, <3>1, <3>2, SendersFinite, SendsFinite DEF SendsAndSenders
  <2>8. OneVerificationPerCode' /\ CountsItsGuesses' /\ GuessesPerCode'
    BY <1>t, CodesStand
  <2>9. IpCountsExpire' /\ VerifiedIsActive'
    BY <1>t, <2>1, <2>2, DeathsStand
  <2>10. QED
    BY <2>4, <2>5, <2>6, <2>7, <2>8, <2>9 DEF IInv
<1>3. QED
  BY <1>1, <1>2 DEF Admit

(* A send is recorded: one more in the window, one fewer under way, and     *)
(* everybody else under way is told.                                        *)
LEMMA RecordSendStep == ASSUME IInv, NEW h \in Handlers, RecordSend(h) PROVE IInv'
<1>t. /\ sends \in Seq(0 .. SendWindow) /\ SendWindow \in Nat \ {0}
      /\ req \in [Handlers -> HandlerStates] /\ req[h].at = "record"
      /\ UNCHANGED <<challenge, ip, account, link, story>>
  BY DEF IInv, HandlerTypes, CodeTypes, RecordSend
<1>1. PICK k \in 0 .. Len(sends) :
         /\ SentSince(sends, 1) \in Seq(Int)
         /\ Len(SentSince(sends, 1)) = Len(sends) - k
         /\ \A i \in 1 .. Len(sends) - k : SentSince(sends, 1)[i] = sends[i + k]
         /\ \A i \in 1 .. Len(sends) : sends[i] < 1 <=> i <= k
  <2>1. sends \in Seq(Int) /\ Sorted(sends) /\ 1 \in Int
    BY SendsFinite DEF IInv
  <2>2. QED
    BY <2>1, SentSinceFacts
<1> DEFINE kept == SentSince(sends, 1)
<1>2. /\ kept \in Seq(Int) /\ Len(kept) = Len(sends) - k
      /\ \A i \in 1 .. Len(kept) : kept[i] = sends[i + k]
  BY <1>1
<1>3. sends' = Append(kept, SendWindow)
  BY DEF RecordSend
<1> HIDE DEF kept
<1>4. /\ Sorted(kept) /\ IsFiniteSet(Live(kept))
      /\ Cardinality(Live(kept)) <= Cardinality(Live(sends))
  BY <1>2, Shifted, SendsFinite DEF IInv
<1>5. kept \in Seq(0 .. SendWindow)
  <2>1. \A i \in 1 .. Len(kept) : kept[i] \in 0 .. SendWindow
    <3>1. SUFFICES ASSUME NEW i \in 1 .. Len(kept) PROVE kept[i] \in 0 .. SendWindow
      OBVIOUS
    <3>2. Len(sends) \in Nat /\ Len(kept) \in Nat
      BY <1>2, <1>t
    <3>3. i + k \in 1 .. Len(sends)
      BY <1>2, <3>2
    <3>4. sends[i + k] \in 0 .. SendWindow
      BY <1>t, <3>3
    <3>5. QED
      BY <1>2, <3>4
  <2>2. QED
    BY <1>2, <2>1, Retyped
<1>6. /\ sends' \in Seq(0 .. SendWindow) /\ Sorted(sends)' /\ IsFiniteSet(Live(sends'))
      /\ Cardinality(Live(sends')) <= Cardinality(Live(kept)) + 1
  <2>1. \A i \in DOMAIN kept : kept[i] <= SendWindow
    BY <1>5, <1>t
  <2>2. SendWindow \in Int /\ SendWindow \in 0 .. SendWindow
    BY <1>t
  <2>3. Append(kept, SendWindow) \in Seq(0 .. SendWindow)
    BY <1>5, <2>2
  <2>4. /\ Sorted(Append(kept, SendWindow)) /\ IsFiniteSet(Live(Append(kept, SendWindow)))
        /\ Cardinality(Live(Append(kept, SendWindow))) <= Cardinality(Live(kept)) + 1
    BY <1>2, <1>4, <2>1, <2>2, Recorded
  <2>5. QED
    BY <1>3, <2>3, <2>4 DEF Sorted
<1>7. ASSUME NEW g \in Handlers
      PROVE  /\ req'[g] \in HandlerStates
             /\ g = h => req'[g] = Idle
             /\ g # h => /\ req'[g].at = req[g].at
                         /\ req[g].at \in Sending => req'[g].crowded
  <2>1. CASE g = h
    BY <2>1, IdleType DEF RecordSend
  <2>2. CASE g # h
    <3> DEFINE told == req[g].crowded \/ req[g].at \in {"issue", "set", "record"}
    <3>1. req'[g] = [req[g] EXCEPT !.crowded = told]
      BY <2>2 DEF RecordSend
    <3>2. told \in BOOLEAN /\ (req[g].at \in Sending => told) /\ req[g] \in HandlerStates
      BY <1>t DEF HandlerStates, HandlerRecords, Sending
    <3> HIDE DEF told
    <3>3. req'[g] \in HandlerStates /\ req'[g].at = req[g].at /\ req'[g].crowded = told
      BY <3>1, <3>2 DEF HandlerStates, HandlerRecords
    <3>4. QED
      BY <2>2, <3>2, <3>3
  <2>3. QED
    BY <2>1, <2>2
<1>8. req' \in [Handlers -> HandlerStates]
  BY <1>7 DEF RecordSend
<1>9. CodeTypes' /\ HandlerTypes'
  <2>1. \A g \in Handlers : req'[g].generation \in 0 .. MaxGeneration
    BY <1>8 DEF HandlerStates, HandlerRecords
  <2>2. QED
    BY <1>6, <1>8, <1>t, <2>1 DEF IInv, CodeTypes, HandlerTypes
<1>10. CooldownSeen'
  BY <1>7 DEF CooldownSeen, Idle, Sending
<1>11. SendsAndSenders'
  <2>1. SendersUnderWay' = SendersUnderWay \ {h} /\ h \in SendersUnderWay
    BY <1>7, <1>t DEF SendersUnderWay, Idle, Sending
  <2>2. Cardinality(SendersUnderWay') = Cardinality(SendersUnderWay) - 1
    BY <2>1, SendersFinite, FS_RemoveElement
  <2>3. Cardinality(Live(sends')) \in Nat /\ Cardinality(Live(kept)) \in Nat
    BY <1>4, <1>6, FS_CardinalityType
  <2>4. Live(sends)' = Live(sends')
    BY DEF Live
  <2>5. QED
    BY <1>4, <1>6, <2>2, <2>3, <2>4, SendersFinite, SendsFinite, SMTT(30) DEF IInv, SendsAndSenders
<1>12. OneVerificationPerCode' /\ CountsItsGuesses' /\ GuessesPerCode'
  BY <1>t, CodesStand
<1>13. IpCountsExpire' /\ VerifiedIsActive'
  BY <1>7, <1>t DEF IInv, IpCountsExpire, VerifiedIsActive
<1>14. QED
  BY <1>6, <1>9, <1>10, <1>11, <1>12, <1>13 DEF IInv

-----------------------------------------------------------------------------
(* A challenge is set, told a code, or destroyed: what is counted of it     *)
(* goes with it.                                                            *)
LEMMA CodeStep ==
    ASSUME IInv, NEW h \in Handlers, NEW x \in HandlerStates, Become(h, x),
           UNCHANGED <<sends, ip, account, link>>,
           x.at \in Sending => req[h].at \in Sending /\ x.crowded = req[h].crowded,
           req[h].at \notin {"expire", "activate"},
           NEW p \in Purposes, NEW new \in Challenges, NEW g \in Nat, NEW v \in Nat,
           challenge' = [challenge EXCEPT ![p] = new],
           story' \in Histories, story'.died = story.died,
           story'.guesses = [story.guesses EXCEPT ![p] = g],
           story'.verified = [story.verified EXCEPT ![p] = v],
           v <= 1, v = 1 => new = NoCode, g <= MaxAttempts,
           new # NoCode => g = new.attempts /\ g < MaxAttempts
    PROVE  IInv'
<1>t. /\ challenge \in [Purposes -> Challenges] /\ story \in Histories
  BY DEF IInv, CodeTypes, HandlerTypes, Challenges
<1>1. \A q \in Purposes :
         /\ challenge'[q] = IF q = p THEN new ELSE challenge[q]
         /\ story'.guesses[q] = IF q = p THEN g ELSE story.guesses[q]
         /\ story'.verified[q] = IF q = p THEN v ELSE story.verified[q]
  BY <1>t DEF Histories
<1>2. OneVerificationPerCode' /\ CountsItsGuesses' /\ GuessesPerCode'
  BY <1>1 DEF IInv, OneVerificationPerCode, CountsItsGuesses, GuessesPerCode
<1>3. CodeTypes'
  <2>1. challenge' \in [Purposes -> Challenges]
    BY <1>t
  <2>2. QED
    BY <2>1, OneHandler DEF IInv, CodeTypes, Challenges
<1>4. HandlerTypes'
  BY OneHandler DEF HandlerTypes
<1>5. Sorted(sends)' /\ SendsAndSenders' /\ CooldownSeen'
  BY SendsStand
<1>6. IpCountsExpire' /\ VerifiedIsActive'
  BY DeathsStand
<1>7. QED
  BY <1>2, <1>3, <1>4, <1>5, <1>6 DEF IInv

LEMMA NoCodeType == NoCode \in Challenges
BY DEF NoCode, Challenges

LEMMA SetCodeStep == ASSUME IInv, NEW h \in Handlers, NEW c \in Codes, SetCode(h, c) PROVE IInv'
<1> DEFINE p == req[h].purpose
           n == req[h].generation + 1
           new == [code |-> c, generation |-> n, attempts |-> 0, left |-> CodeLife]
           x == [req[h] EXCEPT !.at = "record"]
<1>1. /\ Become(h, x) /\ UNCHANGED <<sends, ip, account, link>>
      /\ challenge' = [challenge EXCEPT ![p] = new]
      /\ story' = [story EXCEPT !.guesses[p] = 0, !.verified[p] = 0]
      /\ req[h].at = "set" /\ req[h].generation < MaxGeneration
  BY DEF SetCode
<1>2. req[h] \in HandlerStates /\ story \in Histories /\ CodeLife \in Nat \ {0}
  BY DEF IInv, HandlerTypes
<1>3. p \in Purposes /\ n \in 0 .. MaxGeneration
  BY <1>1, <1>2 DEF HandlerStates, HandlerRecords
<1>4. x \in HandlerStates /\ x.at = "record" /\ x.crowded = req[h].crowded
  BY <1>1, <1>2 DEF HandlerStates, HandlerRecords, Stages
<1> HIDE DEF p, n, x
<1>5. new \in Challenges /\ new.attempts = 0
  BY <1>2, <1>3 DEF Challenges
<1> HIDE DEF new
<1>6. /\ story' \in Histories /\ story'.died = story.died
      /\ story'.guesses = [story.guesses EXCEPT ![p] = 0]
      /\ story'.verified = [story.verified EXCEPT ![p] = 0]
  BY <1>1, <1>2 DEF Histories
<1>7. x.at \in Sending => req[h].at \in Sending /\ x.crowded = req[h].crowded
  BY <1>1, <1>4 DEF Sending
<1>8. /\ req[h].at \notin {"expire", "activate"} /\ 0 \in Nat /\ 0 <= 1 /\ 0 # 1
      /\ 0 <= MaxAttempts /\ 0 < MaxAttempts
  BY <1>1
<1>9. QED
  BY <1>1, <1>3, <1>4, <1>5, <1>6, <1>7, <1>8, CodeStep

LEMMA JudgeCodeStep == ASSUME IInv, NEW h \in Handlers, JudgeCode(h) PROVE IInv'
<1> DEFINE p == req[h].purpose
           old == challenge[p]
           verified == old # NoCode /\ Matches(req[h], old)
           missed == old # NoCode /\ ~verified
           new == Judged(req[h], old)
           g == IF missed THEN story.guesses[p] + 1 ELSE story.guesses[p]
           v == IF verified THEN story.verified[p] + 1 ELSE story.verified[p]
           x == IF verified THEN [Idle EXCEPT !.at = "find"] ELSE Idle
<1>1. /\ Become(h, x) /\ UNCHANGED <<sends, ip, account, link>>
      /\ challenge' = [challenge EXCEPT ![p] = new]
      /\ story' = [story EXCEPT !.guesses[p] = g, !.verified[p] = v]
      /\ req[h].at = "judge"
  BY DEF JudgeCode
<1>2. /\ req[h] \in HandlerStates /\ story \in Histories
      /\ challenge \in [Purposes -> Challenges]
  BY DEF IInv, HandlerTypes, CodeTypes, Challenges
<1>3. p \in Purposes /\ old \in Challenges
  BY <1>1, <1>2 DEF HandlerStates, HandlerRecords
<1>4. /\ story.guesses[p] \in Nat /\ story.verified[p] \in Nat
      /\ story.verified[p] <= 1 /\ story.guesses[p] <= MaxAttempts
      /\ old # NoCode => /\ story.verified[p] = 0
                         /\ story.guesses[p] = old.attempts /\ story.guesses[p] < MaxAttempts
  BY <1>2, <1>3 DEF IInv, OneVerificationPerCode, CountsItsGuesses, GuessesPerCode, Histories
<1>5. x \in HandlerStates /\ x.at \in {"idle", "find"}
  <2>1. Idle \in HandlerRecords /\ Idle.at = "idle"
    BY IdleType DEF HandlerStates, Idle
  <2>2. [Idle EXCEPT !.at = "find"] \in HandlerRecords /\ [Idle EXCEPT !.at = "find"].at = "find"
    BY <2>1 DEF HandlerRecords, Stages
  <2>3. QED
    BY <2>1, <2>2 DEF HandlerStates
<1>6. old = NoCode \/ verified => new = NoCode
  BY DEF Judged
<1>7. missed => new = NoCode \/ (/\ old.attempts + 1 < MaxAttempts
                               /\ new = [old EXCEPT !.attempts = @ + 1])
  BY <1>3 DEF Judged, Challenges
<1>8. /\ new \in Challenges
      /\ new # NoCode => /\ missed /\ new.attempts = old.attempts + 1
                         /\ old.attempts + 1 < MaxAttempts
  <2>1. CASE new = NoCode
    BY <2>1, NoCodeType
  <2>2. CASE new # NoCode
    BY <1>3, <1>6, <1>7, <2>2 DEF Challenges
  <2>3. QED
    BY <2>1, <2>2
<1>9. /\ g \in Nat /\ g <= MaxAttempts /\ v \in Nat /\ v <= 1
      /\ v = 1 => new = NoCode
      /\ new # NoCode => g = new.attempts /\ g < MaxAttempts
  <2>1. CASE old = NoCode
    BY <1>4, <1>6, <2>1
  <2>2. CASE verified
    BY <1>4, <1>6, <2>2
  <2>3. CASE missed
    BY <1>4, <1>8, <2>3
  <2>4. QED
    BY <2>1, <2>2, <2>3
<1> HIDE DEF p, new, g, v, x
<1>10. /\ story' \in Histories /\ story'.died = story.died
       /\ story'.guesses = [story.guesses EXCEPT ![p] = g]
       /\ story'.verified = [story.verified EXCEPT ![p] = v]
  BY <1>1, <1>2, <1>9 DEF Histories
<1>11. x.at \notin Sending
  BY <1>5 DEF Sending
<1>12. QED
  BY <1>1, <1>3, <1>5, <1>8, <1>9, <1>10, <1>11, CodeStep

-----------------------------------------------------------------------------
(* The account: stamped, activated, created, suspended.                     *)
LEMMA AccountStands ==
    ASSUME IInv, UNCHANGED <<challenge, sends, ip, story>>, link' \in BOOLEAN,
           NEW h \in Handlers, NEW x \in HandlerStates, Become(h, x), x.at \notin Sending,
           account' \in [status : {"none", "pending", "active", "suspended"},
                         phone : BOOLEAN, email : BOOLEAN],
           req[h].at # "expire", VerifiedIsActive'
    PROVE  IInv'
<1>1. /\ req'[h] = x /\ \A g \in Handlers \ {h} : req'[g] = req[g]
  BY OneHandler
<1>2. CodeTypes' /\ HandlerTypes'
  BY OneHandler DEF IInv, CodeTypes, HandlerTypes
<1>3. Sorted(sends)' /\ SendsAndSenders' /\ CooldownSeen'
  BY SendsStand
<1>4. OneVerificationPerCode' /\ CountsItsGuesses' /\ GuessesPerCode'
  BY CodesStand
<1>5. IpCountsExpire'
  BY <1>1 DEF IInv, IpCountsExpire
<1>6. QED
  BY <1>2, <1>3, <1>4, <1>5 DEF IInv

LEMMA AccountStep == ASSUME IInv, NEW h \in Handlers, Stamp(h) \/ Activate(h) PROVE IInv'
<1>t. /\ req[h] \in HandlerStates /\ link \in BOOLEAN
      /\ account \in [status : {"none", "pending", "active", "suspended"},
                       phone : BOOLEAN, email : BOOLEAN]
  BY DEF IInv, HandlerTypes, CodeTypes
<1>1. CASE Stamp(h)
  <2> DEFINE x == [req[h] EXCEPT !.at = "activate"]
  <2>1. /\ Become(h, x) /\ UNCHANGED <<challenge, sends, ip, link, story>>
        /\ req[h].at \in {"stamp", "stampEmail"}
        /\ account' \in {[account EXCEPT !.phone = TRUE], [account EXCEPT !.email = TRUE]}
    BY <1>1 DEF Stamp
  <2>2. x \in HandlerStates /\ x.at = "activate"
    BY <1>t, <2>1 DEF HandlerStates, HandlerRecords, Stages
  <2> HIDE DEF x
  <2>3. VerifiedIsActive'
    BY <2>1, <2>2, OneHandler DEF VerifiedIsActive
  <2>4. account' \in [status : {"none", "pending", "active", "suspended"},
                      phone : BOOLEAN, email : BOOLEAN]
    BY <1>t, <2>1
  <2>5. QED
    BY <1>t, <2>1, <2>2, <2>3, <2>4, AccountStands DEF Sending
<1>2. CASE Activate(h)
  <2>1. /\ Become(h, Idle) /\ UNCHANGED <<challenge, sends, ip, link, story>>
        /\ req[h].at = "activate"
        /\ account' = IF account.status = "pending"
                      THEN [account EXCEPT !.status = "active"] ELSE account
    BY <1>2 DEF Activate
  <2>2. /\ account' \in [status : {"none", "pending", "active", "suspended"},
                         phone : BOOLEAN, email : BOOLEAN]
        /\ account'.status # "pending"
    BY <1>t, <2>1
  <2>3. VerifiedIsActive'
    BY <2>2 DEF VerifiedIsActive
  <2>4. Idle.at = "idle"
    BY DEF Idle
  <2>5. QED
    BY <1>t, <2>1, <2>2, <2>3, <2>4, IdleType, AccountStands DEF Sending
<1>3. QED
  BY <1>1, <1>2

LEMMA CreateAccountStep == ASSUME IInv, CreateAccount PROVE IInv'
<1>1. UNCHANGED <<challenge, sends, ip, req, story>> /\ link' \in BOOLEAN
      /\ account' = [Nobody EXCEPT !.status = "pending"]
  BY DEF CreateAccount
<1>2. /\ account' \in [status : {"none", "pending", "active", "suspended"},
                       phone : BOOLEAN, email : BOOLEAN]
      /\ ~account'.phone /\ ~account'.email
  BY <1>1 DEF Nobody
<1>3. CodeTypes' /\ HandlerTypes'
  BY <1>1, <1>2 DEF IInv, CodeTypes, HandlerTypes
<1>4. OneVerificationPerCode' /\ CountsItsGuesses' /\ GuessesPerCode'
  BY <1>1, CodesStand
<1>5. Sorted(sends)' /\ SendsAndSenders' /\ CooldownSeen'
  BY <1>1 DEF IInv, Sorted, SendsAndSenders, CooldownSeen, CoolingDown, Live, SendersUnderWay
<1>6. IpCountsExpire' /\ VerifiedIsActive'
  BY <1>1, <1>2 DEF IInv, IpCountsExpire, VerifiedIsActive
<1>7. QED
  BY <1>3, <1>4, <1>5, <1>6 DEF IInv

(* A suspension leaves what the handlers have in hand as it is.              *)
LEMMA SuspendStep == ASSUME IInv, Suspend PROVE IInv'
<1>1. UNCHANGED <<challenge, sends, ip, link, req, story>>
      /\ account' = [account EXCEPT !.status = "suspended"]
  BY DEF Suspend
<1>2. /\ account' \in [status : {"none", "pending", "active", "suspended"},
                       phone : BOOLEAN, email : BOOLEAN]
      /\ account'.status = "suspended"
  BY <1>1 DEF IInv, CodeTypes
<1>3. CodeTypes' /\ HandlerTypes'
  BY <1>1, <1>2 DEF IInv, CodeTypes, HandlerTypes
<1>4. OneVerificationPerCode' /\ CountsItsGuesses' /\ GuessesPerCode'
  BY <1>1, CodesStand
<1>5. Sorted(sends)' /\ SendsAndSenders' /\ CooldownSeen'
  BY <1>1 DEF IInv, Sorted, SendsAndSenders, CooldownSeen, CoolingDown, Live, SendersUnderWay
<1>6. IpCountsExpire' /\ VerifiedIsActive'
  BY <1>1, <1>2 DEF IInv, IpCountsExpire, VerifiedIsActive
<1>7. QED
  BY <1>3, <1>4, <1>5, <1>6 DEF IInv

(* A death is told where it parts two statements.                           *)
LEMMA FailStep == ASSUME IInv, NEW h \in Handlers, Fail(h) PROVE IInv'
<1>1. /\ Become(h, Idle) /\ UNCHANGED <<challenge, sends, ip, account, link>>
      /\ story' = [story EXCEPT !.died = @ \cup ({req[h].at} \cap {"expire", "activate"})]
  BY DEF Fail
<1>2. /\ story \in Histories
      /\ story' \in Histories /\ story.died \subseteq story'.died
      /\ story'.guesses = story.guesses /\ story'.verified = story.verified
      /\ req[h].at \in {"expire", "activate"} => req[h].at \in story'.died
  BY <1>1 DEF IInv, HandlerTypes, Histories, Stages
<1>3. Idle.at = "idle"
  BY DEF Idle
<1>4. CodeTypes' /\ HandlerTypes'
  BY <1>1, <1>2, IdleType, OneHandler DEF IInv, CodeTypes, HandlerTypes
<1>5. OneVerificationPerCode' /\ CountsItsGuesses' /\ GuessesPerCode'
  BY <1>1, <1>2, CodesStand
<1>6. Sorted(sends)' /\ SendsAndSenders' /\ CooldownSeen'
  BY <1>1, <1>3, IdleType, SendsStand DEF Sending
<1>7. IpCountsExpire' /\ VerifiedIsActive'
  BY <1>1, <1>2, IdleType, DeathsStand
<1>8. QED
  BY <1>4, <1>5, <1>6, <1>7 DEF IInv

-----------------------------------------------------------------------------
(* A tick takes the sends out of the window at its beginning and brings the *)
(* last no nearer.                                                          *)
LEMMA AgedSendsFacts ==
    ASSUME IInv, sends' = AgedSends(sends), UNCHANGED req
    PROVE  /\ sends' \in Seq(0 .. SendWindow) /\ Sorted(sends)' /\ SendsAndSenders'
           /\ CoolingDown' => CoolingDown
<1>t. /\ sends \in Seq(0 .. SendWindow) /\ SendWindow \in Nat \ {0} /\ Sorted(sends)
      /\ sends \in Seq(Int) /\ Len(sends) \in Nat /\ DOMAIN sends = 1 .. Len(sends)
  BY SendsFinite DEF IInv, CodeTypes
<1>s. SendersUnderWay' = SendersUnderWay
  BY DEF SendersUnderWay
<1>1. CASE sends = <<>> \/ Last(sends) = 1
  <2>1. sends' = <<>>
    BY <1>1 DEF AgedSends
  <2>2. Live(sends)' = {} /\ Sorted(sends)' /\ ~CoolingDown'
    BY <2>1 DEF Live, Sorted, CoolingDown
  <2>3. SendsAndSenders'
    BY <1>s, <2>2, FS_EmptySet, SendersFinite DEF SendsAndSenders
  <2>4. QED
    BY <2>1, <2>2, <2>3
<1>2. CASE ~(sends = <<>> \/ Last(sends) = 1)
  <2> DEFINE s == [i \in DOMAIN sends |-> sends[i] - 1]
  <2>1. sends' = SentSince(s, 0)
    BY <1>2 DEF AgedSends
  <2>2. /\ s \in Seq(Int) /\ Len(s) = Len(sends) /\ DOMAIN s = 1 .. Len(sends)
        /\ \A i \in 1 .. Len(sends) : s[i] = sends[i] - 1 /\ s[i] <= SendWindow
    BY <1>t
  <2> HIDE DEF s
  <2>3. Sorted(s)
    <3>1. SUFFICES ASSUME NEW i \in 1 .. Len(sends), NEW j \in 1 .. Len(sends), i <= j
                   PROVE  s[i] <= s[j]
      BY <2>2 DEF Sorted
    <3>2. sends[i] <= sends[j]
      BY <1>t, <3>1 DEF Sorted
    <3>a. sends[i] \in Int /\ sends[j] \in Int
      BY <1>t, <3>1
    <3>3. QED
      BY <2>2, <3>2, <3>a
  <2>a. PICK k \in 0 .. Len(s) :
           /\ SentSince(s, 0) \in Seq(Int) /\ Len(SentSince(s, 0)) = Len(s) - k
           /\ \A i \in 1 .. Len(s) - k : SentSince(s, 0)[i] = s[i + k]
           /\ \A i \in 1 .. Len(s) : s[i] < 0 <=> i <= k
    <3>1. s \in Seq(Int) /\ 0 \in Int
      BY <2>2
    <3>2. QED
      BY <2>3, <3>1, SentSinceFacts
  <2> DEFINE t == SentSince(s, 0)
  <2>4. /\ t \in Seq(Int) /\ Len(t) = Len(s) - k
        /\ \A i \in 1 .. Len(s) - k : t[i] = s[i + k]
        /\ \A i \in 1 .. Len(s) : s[i] < 0 <=> i <= k
    BY <2>a
  <2>b. sends' = t
    BY <2>1
  <2> HIDE DEF t
  <2>5. /\ Sorted(t) /\ IsFiniteSet(Live(t)) /\ IsFiniteSet(Live(s))
        /\ Cardinality(Live(t)) <= Cardinality(Live(s))
        /\ t # <<>> => Last(t) = Last(s)
    BY <2>2, <2>3, <2>4, Shifted
  <2>6. /\ Cardinality(Live(s)) <= Cardinality(Live(sends))
        /\ Cardinality(Live(s)) \in Nat /\ Cardinality(Live(t)) \in Nat
    <3>1. Live(s) \subseteq Live(sends)
      BY <1>t, <2>2 DEF Live
    <3>2. QED
      BY <2>5, <3>1, SendsFinite, FS_Subset, FS_CardinalityType
  <2>7. SendsAndSenders'
    <3>1. Live(sends)' = Live(t)
      BY <2>b DEF Live
    <3>2. QED
      BY <1>s, <2>5, <2>6, <3>1, SendersFinite, SendsFinite, SMTT(30) DEF IInv, SendsAndSenders
  <2>8. t \in Seq(0 .. SendWindow)
    <3>1. ASSUME NEW i \in 1 .. Len(t) PROVE t[i] \in 0 .. SendWindow
      <4>1. i + k \in 1 .. Len(s) /\ ~(i + k <= k) /\ t[i] = s[i + k]
        BY <1>t, <2>2, <2>4
      <4>2. s[i + k] \in Int /\ ~(s[i + k] < 0) /\ s[i + k] <= SendWindow
        BY <2>2, <2>4, <4>1
      <4>3. QED
        BY <1>t, <4>1, <4>2
    <3>2. QED
      BY <2>4, <3>1, Retyped
  <2>9. CoolingDown' => CoolingDown
    <3>1. CoolingDown' => t # <<>> /\ Last(t) > SendWindow - Cooldown
      BY <2>b DEF CoolingDown
    <3>2. sends # <<>> /\ Last(s) = Last(sends) - 1 /\ Last(sends) \in Int
      BY <1>2, <1>t, <2>2 DEF Last
    <3>3. Cooldown \in Nat
      OBVIOUS
    <3>4. QED
      BY <1>t, <2>5, <3>1, <3>2, <3>3 DEF CoolingDown
  <2>10. Sorted(sends)'
    BY <2>b, <2>5 DEF Sorted
  <2>11. QED
    BY <2>b, <2>7, <2>8, <2>9, <2>10
<1>3. QED
  BY <1>1, <1>2

LEMMA AgedCodeFacts ==
    ASSUME NEW ch \in Challenges
    PROVE  /\ AgedCode(ch) \in Challenges
           /\ AgedCode(ch) # NoCode => ch # NoCode /\ AgedCode(ch).attempts = ch.attempts
<1>1. CASE ch.left <= 1
  BY <1>1, NoCodeType DEF AgedCode
<1>2. CASE ~(ch.left <= 1)
  <2>1. AgedCode(ch) = [ch EXCEPT !.left = @ - 1]
    BY <1>2 DEF AgedCode
  <2>2. CodeLife \in Nat
    OBVIOUS
  <2>3. ch.left \in 0 .. CodeLife /\ ch # NoCode
    BY <1>2, <2>2 DEF Challenges, NoCode
  <2>4. QED
    BY <1>2, <2>1, <2>2, <2>3 DEF Challenges
<1>3. QED
  BY <1>1, <1>2

LEMMA TickStep == ASSUME IInv, Tick PROVE IInv'
<1>t. /\ challenge \in [Purposes -> Challenges] /\ IpWindow \in Nat \ {0}
      /\ ip \in [count : 0 .. IpCap, left : {NoTtl} \cup 1 .. IpWindow]
  BY DEF IInv, CodeTypes, Challenges
<1>1. /\ UNCHANGED <<account, link, req, story>> /\ sends' = AgedSends(sends)
      /\ challenge' = [p \in Purposes |-> AgedCode(challenge[p])]
  BY DEF Tick
<1>2. /\ sends' \in Seq(0 .. SendWindow) /\ Sorted(sends)' /\ SendsAndSenders'
      /\ CoolingDown' => CoolingDown
  BY <1>1, AgedSendsFacts
<1>3. CooldownSeen'
  BY <1>1, <1>2 DEF IInv, CooldownSeen
<1>4. \A p \in Purposes :
         /\ challenge'[p] \in Challenges
         /\ challenge'[p] # NoCode => challenge[p] # NoCode
                                      /\ challenge'[p].attempts = challenge[p].attempts
  BY <1>t, <1>1, AgedCodeFacts
<1>5. OneVerificationPerCode' /\ CountsItsGuesses' /\ GuessesPerCode'
  BY <1>1, <1>4 DEF IInv, OneVerificationPerCode, CountsItsGuesses, GuessesPerCode
<1>6. /\ ip' \in [count : 0 .. IpCap, left : {NoTtl} \cup 1 .. IpWindow]
      /\ ip'.left = NoTtl => ip'.count = 0 \/ ip' = ip
  <2>1. CASE ip.left = NoTtl
    BY <1>t, <2>1 DEF Tick
  <2>2. CASE ip.left = 1
    <3>1. ip' = [count |-> 0, left |-> NoTtl]
      BY <2>2 DEF Tick
    <3>2. QED
      BY <3>1
  <2>3. CASE ip.left # NoTtl /\ ip.left # 1
    <3>1. ip' = [ip EXCEPT !.left = @ - 1]
      BY <2>3 DEF Tick
    <3>2. ip.left \in 2 .. IpWindow
      BY <1>t, <2>3
    <3>3. QED
      BY <1>t, <3>1, <3>2
  <2>4. QED
    BY <2>1, <2>2, <2>3
<1>7. IpCountsExpire' /\ VerifiedIsActive'
  BY <1>1, <1>6 DEF IInv, IpCountsExpire, VerifiedIsActive
<1>8. challenge' \in [Purposes -> Challenges]
  BY <1>1, <1>4
<1>9. CodeTypes' /\ HandlerTypes'
  BY <1>1, <1>2, <1>6, <1>8 DEF IInv, CodeTypes, HandlerTypes, Challenges
<1>10. QED
  BY <1>2, <1>3, <1>5, <1>7, <1>9 DEF IInv

LEMMA IInvStep == ASSUME IInv, [Next]_vars PROVE IInv'
<1>1. ASSUME UNCHANGED vars PROVE IInv'
  <2>1. CodeTypes' /\ HandlerTypes'
    BY <1>1 DEF vars, IInv, CodeTypes, HandlerTypes
  <2>2. OneVerificationPerCode' /\ CountsItsGuesses' /\ GuessesPerCode'
    BY <1>1, CodesStand DEF vars
  <2>3. Sorted(sends)' /\ SendsAndSenders' /\ CooldownSeen'
    BY <1>1 DEF vars, IInv, Sorted, SendsAndSenders, CooldownSeen, CoolingDown, Live,
                SendersUnderWay
  <2>4. IpCountsExpire' /\ VerifiedIsActive'
    BY <1>1 DEF vars, IInv, IpCountsExpire, VerifiedIsActive
  <2>5. QED
    BY <2>1, <2>2, <2>3, <2>4 DEF IInv
<1>2. ASSUME NEW h \in Handlers, Request(h) PROVE IInv'
  BY <1>2, IpStep, AdmitStep, ReadStep, SetCodeStep, RecordSendStep DEF Request
<1>3. ASSUME NEW h \in Handlers, Verify(h) PROVE IInv'
  BY <1>3, ReadStep, JudgeCodeStep, AccountStep DEF Verify
<1>4. ASSUME NEW h \in Handlers, Fail(h) PROVE IInv'
  BY <1>4, FailStep
<1>5. QED
  BY <1>1, <1>2, <1>3, <1>4, CreateAccountStep, SuspendStep, TickStep DEF Next

-----------------------------------------------------------------------------
(* Only a record changes the sends of a handler that was about to.          *)
LEMMA ApartStep ==
    ASSUME IInv, [Next]_vars, NEW h \in Handlers, At(h, "record"), ~req[h].crowded
    PROVE  sends = <<>> \/ Last(sends) <= SendWindow - Cooldown
<1>1. ~CoolingDown
  BY DEF IInv, CooldownSeen, Sending
<1>2. sends # <<>> => Last(sends) \in Int
  BY SendsFinite DEF Last
<1>3. SendWindow \in Nat /\ Cooldown \in Nat
  OBVIOUS
<1>4. QED
  BY <1>1, <1>2, <1>3 DEF CoolingDown

(* A status is written by the row's creation, by a suspension and, from     *)
(* pending, by a code or a link: not by a handler that read it before.      *)
LEMMA SuspensionStep ==
    ASSUME IInv, [Next]_vars, account.status = "suspended"
    PROVE  account'.status = "suspended"
<1>1. account \in [status : {"none", "pending", "active", "suspended"},
                   phone : BOOLEAN, email : BOOLEAN]
  BY DEF IInv, CodeTypes
<1>2. ASSUME NEW h \in Handlers, Request(h) \/ Fail(h) PROVE account' = account
  BY <1>2 DEF Request, CountIp, ExpireIp, Admit, ReadGeneration, SetCode, RecordSend, Fail
<1>3. ASSUME NEW h \in Handlers, Verify(h) PROVE account'.status = account.status
  <2>1. CASE Stamp(h)
    <3>1. account' \in {[account EXCEPT !.phone = TRUE], [account EXCEPT !.email = TRUE]}
      BY <2>1 DEF Stamp
    <3>2. QED
      BY <1>1, <3>1
  <2>2. CASE Activate(h)
    BY <2>2 DEF Activate
  <2>3. CASE \/ \E p \in Purposes, c \in Codes : ReadChallenge(h, p, c)
             \/ JudgeCode(h) \/ FindAccount(h) \/ OpenLink(h)
    BY <2>3 DEF ReadChallenge, JudgeCode, FindAccount, OpenLink
  <2>4. QED
    BY <1>3, <2>1, <2>2, <2>3 DEF Verify
<1>4. ~CreateAccount /\ ~Suspend
  BY DEF CreateAccount, Known, Suspend
<1>5. QED
  BY <1>2, <1>3, <1>4 DEF Next, Tick, vars

-----------------------------------------------------------------------------
(* What stands in Redis and what the handlers have read of it are of a      *)
(* piece: the inductive invariant of the codes of a number.                 *)
THEOREM CodesAreCounted == Spec => []IInv
BY IInvInit, IInvStep, PTL DEF Spec

(* A code verifies once and dies of its wrong guesses, and the sends pass   *)
(* their limit by no more than the handlers less one (otp.redis-store.ts,   *)
(* request-otp.use-case.ts).                                                *)
THEOREM LimitsAreHeld == Spec => []LimitsHold
<1>1. IInv => LimitsHold
  <2>1. SUFFICES ASSUME IInv PROVE LimitsHold
    OBVIOUS
  <2>2. SendsAreBounded
    <3>1. {i \in DOMAIN sends : sends[i] > 0} = Live(sends)
      BY DEF Live
    <3>2. Cardinality(Live(sends)) <= MaxSends + Cardinality(Handlers) - 1
      BY <2>1, SendsFinite, SendersFinite DEF IInv, SendsAndSenders
    <3>3. QED
      BY <3>1, <3>2 DEF SendsAreBounded
  <2>3. QED
    BY <2>1, <2>2 DEF IInv, LimitsHold
<1>2. QED
  BY <1>1, CodesAreCounted, PTL

(* A counter without an expiry and a stamp without an activation are left   *)
(* by a death between the two and by nothing else.                          *)
THEOREM DeathAloneParts == Spec => []OnlyDeathParts
<1>1. IInv => OnlyDeathParts
  BY DEF IInv, OnlyDeathParts
<1>2. QED
  BY <1>1, CodesAreCounted, PTL

(* No send within the cooldown of one its handler knew of, and no code or   *)
(* link revives an account that is suspended before its last statement.     *)
THEOREM StepsHeld == Spec => StepsAreHeld
<1>1. IInv /\ [Next]_vars =>
        [\A h \in Handlers :
           At(h, "record") /\ sends' # sends /\ req'[h] = Idle /\ ~req[h].crowded =>
               sends = <<>> \/ Last(sends) <= SendWindow - Cooldown]_vars
  BY ApartStep
<1>2. IInv /\ [Next]_vars =>
        [account.status = "suspended" => account'.status = "suspended"]_vars
  BY SuspensionStep
<1>3. QED
  BY <1>1, <1>2, CodesAreCounted, PTL
     DEF Spec, StepsAreHeld, SendsKeepApart, SuspensionStands

-----------------------------------------------------------------------------
(* The sets of an instance are the sets of everybody.                       *)
LEMMA PoolSets ==
    ASSUME NEW S
    PROVE  (Pool!IsFiniteSet(S) <=> IsFiniteSet(S)) /\ Pool!Cardinality(S) = Cardinality(S)
BY DEF Pool!IsFiniteSet, IsFiniteSet, Pool!Cardinality, Cardinality


(* What is left of a queue when the waiter at i leaves it: the others, in   *)
(* their order.                                                             *)
Dropped(s, i) == SubSeq(s, 1, i - 1) \o SubSeq(s, i + 1, Len(s))

LEMMA DroppedIsTheRest ==
    ASSUME NEW S, NEW s \in Seq(S), NEW i \in 1 .. Len(s)
    PROVE  /\ Dropped(s, i) \in Seq(S)
           /\ Len(Dropped(s, i)) = Len(s) - 1
           /\ \A j \in 1 .. Len(s) - 1 : Dropped(s, i)[j] = IF j < i THEN s[j] ELSE s[j + 1]
<1> DEFINE a == SubSeq(s, 1, i - 1)
           b == SubSeq(s, i + 1, Len(s))
<1>1. a \in Seq(S) /\ Len(a) = i - 1 /\ \A j \in 1 .. i - 1 : a[j] = s[j]
  OBVIOUS
<1>2. b \in Seq(S) /\ Len(b) = Len(s) - i /\ \A j \in 1 .. Len(s) - i : b[j] = s[i + j]
  OBVIOUS
<1> HIDE DEF a, b
<1>3. a \o b \in Seq(S) /\ Len(a \o b) = Len(s) - 1
  <2>1. a \o b \in Seq(S) /\ Len(a \o b) = Len(a) + Len(b)
    BY <1>1, <1>2, ConcatProperties
  <2>2. (i - 1) + (Len(s) - i) = Len(s) - 1
    OBVIOUS
  <2> QED  BY <1>1, <1>2, <2>1, <2>2
<1>4. ASSUME NEW j \in 1 .. Len(s) - 1
      PROVE  (a \o b)[j] = IF j < i THEN s[j] ELSE s[j + 1]
  <2>1. CASE j < i
    BY <1>1, <1>2, <2>1
  <2>2. CASE ~(j < i)
    <3>1. (a \o b)[j] = b[j - (i - 1)]
      BY <1>1, <1>2, <2>2, SMTT(30)
    <3>2. j - (i - 1) \in 1 .. Len(s) - i /\ i + (j - (i - 1)) = j + 1
      BY <2>2
    <3> QED  BY <1>2, <2>2, <3>1, <3>2
  <2> QED  BY <2>1, <2>2
<1> QED  BY <1>3, <1>4 DEF Dropped, a, b

(* The queue after somebody left it is as good as before, whatever becomes  *)
(* of who left.                                                             *)
LEMMA LeavingKeepsTheQueue ==
    ASSUME Pool!TypeOK, Pool!QueueIsWaiting, NEW i \in DOMAIN waiting,
           waiting' = Dropped(waiting, i),
           NEW after \in {"out", "granted"},
           \A c \in Callers \ {waiting[i]} : caller'[c] = "queued" <=> caller[c] = "queued",
           caller'[waiting[i]] = after,
           available' = available
    PROVE  Pool!QueueIsWaiting' /\ waiting' \in Seq(Callers)
<1>1. waiting \in Seq(Callers) /\ i \in 1 .. Len(waiting) /\ DOMAIN waiting = 1 .. Len(waiting)
  BY DEF Pool!TypeOK
<1>2. /\ waiting' \in Seq(Callers) /\ Len(waiting') = Len(waiting) - 1
      /\ DOMAIN waiting' = 1 .. Len(waiting) - 1
      /\ \A j \in DOMAIN waiting' : waiting'[j] = IF j < i THEN waiting[j] ELSE waiting[j + 1]
  <2>1. /\ Dropped(waiting, i) \in Seq(Callers)
        /\ Len(Dropped(waiting, i)) = Len(waiting) - 1
        /\ \A j \in 1 .. Len(waiting) - 1 :
               Dropped(waiting, i)[j] = IF j < i THEN waiting[j] ELSE waiting[j + 1]
    BY <1>1, DroppedIsTheRest
  <2>2. DOMAIN Dropped(waiting, i) = 1 .. Len(Dropped(waiting, i))
    BY <2>1
  <2> QED  BY <2>1, <2>2
<1>3. \A j \in DOMAIN waiting' : \E k \in DOMAIN waiting \ {i} :
          waiting'[j] = waiting[k] /\ k = IF j < i THEN j ELSE j + 1
  BY <1>1, <1>2
<1>4. \A k \in DOMAIN waiting \ {i} : \E j \in DOMAIN waiting' : waiting'[j] = waiting[k]
  <2> TAKE k \in DOMAIN waiting \ {i}
  <2> DEFINE j == IF k < i THEN k ELSE k - 1
  <2>1. j \in DOMAIN waiting' /\ waiting'[j] = waiting[k]
    BY <1>1, <1>2, SMTT(30)
  <2> QED  BY <2>1
<1>5. \A k \in DOMAIN waiting \ {i} : waiting[k] # waiting[i] /\ waiting[k] \in Callers
  BY <1>1 DEF Pool!QueueIsWaiting
<1>6. \A j \in DOMAIN waiting' : caller'[waiting'[j]] = "queued"
  BY <1>3, <1>5 DEF Pool!QueueIsWaiting
<1>7. \A c \in Callers : caller'[c] = "queued" => \E j \in DOMAIN waiting' : waiting'[j] = c
  <2> SUFFICES ASSUME NEW c \in Callers, caller'[c] = "queued"
               PROVE  \E j \in DOMAIN waiting' : waiting'[j] = c
    OBVIOUS
  <2>1. c # waiting[i] /\ caller[c] = "queued"
    OBVIOUS
  <2>2. PICK k \in DOMAIN waiting : waiting[k] = c
    BY <2>1 DEF Pool!QueueIsWaiting
  <2> QED  BY <1>4, <2>1, <2>2
<1>8. \A j, k \in DOMAIN waiting' : waiting'[j] = waiting'[k] => j = k
  BY <1>1, <1>2, <1>3, SMTT(30) DEF Pool!QueueIsWaiting
<1>9. waiting' # <<>> => available' = 0
  BY <1>1, <1>2 DEF Pool!QueueIsWaiting
<1> QED  BY <1>2, <1>6, <1>7, <1>8, <1>9 DEF Pool!QueueIsWaiting

(* Who holds a permit is some of the callers, of whom there are finitely   *)
(* many.                                                                   *)
LEMMA HoldersAreFinite ==
    Pool!PoolAssumption => IsFiniteSet(Pool!Holders) /\ Cardinality(Pool!Holders) \in Nat
BY FS_Subset, FS_CardinalityType, PoolSets DEF Pool!Holders, Pool!PoolAssumption

LEMMA InitKeepsSlots == Pool!PoolAssumption /\ Pool!Init => Pool!SlotsAreKept
<1> SUFFICES ASSUME Pool!PoolAssumption, Pool!Init PROVE Pool!SlotsAreKept
  OBVIOUS
<1>1. Pool!Holders = {}
  BY DEF Pool!Init, Pool!Holders
<1>2. Pool!PermitsAreKept
  BY <1>1, FS_EmptySet, PoolSets DEF Pool!Init, Pool!PermitsAreKept, Pool!PoolAssumption
<1> QED  BY <1>2 DEF Pool!Init, Pool!SlotsAreKept, Pool!TypeOK, Pool!QueueIsWaiting, Pool!PoolAssumption

(* Every step of a caller, and every timer, keeps the slots.               *)
LEMMA StepKeepsSlots == Pool!PoolAssumption /\ Pool!SlotsAreKept /\ [Pool!Next]_poolVars => Pool!SlotsAreKept'
<1> SUFFICES ASSUME Pool!PoolAssumption, Pool!SlotsAreKept, [Pool!Next]_poolVars PROVE Pool!SlotsAreKept'
  OBVIOUS
<1> USE DEF Pool!SlotsAreKept, Pool!PermitsAreKept
<1>0. IsFiniteSet(Pool!Holders) /\ Cardinality(Pool!Holders) \in Nat /\ Permits \in Nat
  BY HoldersAreFinite DEF Pool!PoolAssumption
<1>1. ASSUME NEW c \in Callers, Pool!TakeFree(c) PROVE Pool!SlotsAreKept'
  <2>1. Pool!Holders' = Pool!Holders \union {c} /\ c \notin Pool!Holders
    BY <1>1 DEF Pool!TakeFree, Pool!Holders, Pool!TypeOK
  <2>2. Pool!PermitsAreKept'
    <3>1. Cardinality(Pool!Holders') = Cardinality(Pool!Holders) + 1
      BY <1>0, <2>1, FS_AddElement
    <3> QED  BY <1>0, <1>1, <3>1, PoolSets DEF Pool!TakeFree, Pool!TypeOK
  <2>3. Pool!TypeOK'
    BY <1>0, <1>1 DEF Pool!TakeFree, Pool!TypeOK
  <2>4. waiting = <<>> /\ waiting' = <<>>
    BY <1>1 DEF Pool!TakeFree, Pool!TypeOK, Pool!QueueIsWaiting
  <2>5. \A d \in Callers : caller'[d] = "queued" => caller[d] = "queued"
    BY <1>1 DEF Pool!TakeFree, Pool!TypeOK
  <2>6. Pool!QueueIsWaiting'
    BY <2>4, <2>5 DEF Pool!QueueIsWaiting
  <2> QED  BY <2>2, <2>3, <2>6
<1>2. ASSUME NEW c \in Callers, Pool!Enqueue(c) PROVE Pool!SlotsAreKept'
  <2>1. Pool!Holders' = Pool!Holders
    BY <1>2 DEF Pool!Enqueue, Pool!Holders, Pool!TypeOK
  <2>2. Pool!TypeOK'
    BY <1>2 DEF Pool!Enqueue, Pool!TypeOK
  <2>3. /\ DOMAIN waiting' = DOMAIN waiting \union {Len(waiting) + 1}
        /\ waiting'[Len(waiting) + 1] = c
        /\ \A i \in DOMAIN waiting : waiting'[i] = waiting[i]
        /\ Len(waiting) + 1 \notin DOMAIN waiting
    BY <1>2 DEF Pool!Enqueue, Pool!TypeOK
  <2>4. \A d \in Callers : caller'[d] = IF d = c THEN "queued" ELSE caller[d]
    BY <1>2 DEF Pool!Enqueue, Pool!TypeOK
  <2>5. \A i \in DOMAIN waiting : waiting[i] \in Callers /\ waiting[i] # c
    BY <1>2 DEF Pool!Enqueue, Pool!TypeOK, Pool!QueueIsWaiting
  <2>6. Pool!QueueIsWaiting'
    BY <1>2, <2>3, <2>4, <2>5 DEF Pool!Enqueue, Pool!QueueIsWaiting
  <2> QED  BY <1>2, <2>1, <2>2, <2>6 DEF Pool!Enqueue
<1>3. ASSUME NEW c \in Callers, Pool!Work(c) PROVE Pool!SlotsAreKept'
  <2>1. Pool!Holders' = Pool!Holders
    BY <1>3 DEF Pool!Work, Pool!Holders, Pool!TypeOK
  <2>2. Pool!TypeOK' /\ Pool!QueueIsWaiting'
    BY <1>3 DEF Pool!Work, Pool!TypeOK, Pool!QueueIsWaiting
  <2> QED  BY <1>3, <2>1, <2>2 DEF Pool!Work
<1>4. ASSUME NEW c \in Callers, Pool!Release(c), waiting = <<>> PROVE Pool!SlotsAreKept'
  <2>1. c \in Pool!Holders /\ Pool!Holders' = Pool!Holders \ {c}
    BY <1>4 DEF Pool!Release, Pool!Hand, Pool!Holders, Pool!TypeOK
  <2>2. Pool!PermitsAreKept' /\ available' \in 0 .. Permits
    <3>1. Cardinality(Pool!Holders') = Cardinality(Pool!Holders) - 1 /\ Cardinality(Pool!Holders') \in Nat
      BY <1>0, <2>1, FS_RemoveElement, FS_CardinalityType
    <3>2. available' = available + 1
      BY <1>4 DEF Pool!Release, Pool!Hand
    <3> QED  BY <1>0, <3>1, <3>2, PoolSets DEF Pool!TypeOK
  <2>3. Pool!TypeOK' /\ Pool!QueueIsWaiting'
    BY <1>4, <2>2 DEF Pool!Release, Pool!Hand, Pool!TypeOK, Pool!QueueIsWaiting
  <2> QED  BY <2>2, <2>3
<1>5. ASSUME NEW c \in Callers, Pool!Release(c), waiting # <<>> PROVE Pool!SlotsAreKept'
  <2> DEFINE d == Head(waiting)
  <2>1. /\ 1 \in DOMAIN waiting /\ d = waiting[1] /\ d \in Callers /\ caller[d] = "queued"
        /\ caller[c] = "working" /\ d # c
    BY <1>5 DEF Pool!Release, Pool!TypeOK, Pool!QueueIsWaiting
  <2>2. Tail(waiting) = Dropped(waiting, 1)
    BY <1>5 DEF Dropped, Pool!TypeOK
  <2>3. /\ waiting' = Dropped(waiting, 1) /\ available' = available
        /\ caller' = [caller EXCEPT ![c] = "out", ![d] = "granted"]
    BY <1>5, <2>2 DEF Pool!Release, Pool!Hand
  <2>4. \A e \in Callers : caller'[e] = IF e = d THEN "granted" ELSE IF e = c THEN "out" ELSE caller[e]
    BY <2>1, <2>3 DEF Pool!TypeOK
  <2>5. Pool!QueueIsWaiting' /\ waiting' \in Seq(Callers)
    <3>1. \A e \in Callers \ {waiting[1]} : caller'[e] = "queued" <=> caller[e] = "queued"
      BY <2>1, <2>4
    <3>2. caller'[waiting[1]] = "granted"
      BY <2>1, <2>4
    <3>3. "granted" \in {"out", "granted"}
      OBVIOUS
    <3> QED  BY <2>1, <2>3, <3>1, <3>2, <3>3, LeavingKeepsTheQueue
  <2>6. Pool!TypeOK'
    BY <2>3, <2>5 DEF Pool!TypeOK
  <2>7. /\ c \in Pool!Holders /\ d \notin Pool!Holders
        /\ Pool!Holders' = (Pool!Holders \ {c}) \union {d} /\ d \notin Pool!Holders \ {c}
    BY <2>1, <2>4 DEF Pool!Holders
  <2>8. Cardinality(Pool!Holders') = Cardinality(Pool!Holders)
    <3>1. IsFiniteSet(Pool!Holders \ {c}) /\ Cardinality(Pool!Holders \ {c}) = Cardinality(Pool!Holders) - 1
      BY <1>0, <2>7, FS_RemoveElement
    <3>2. Cardinality((Pool!Holders \ {c}) \union {d}) = Cardinality(Pool!Holders \ {c}) + 1
      BY <2>7, <3>1, FS_AddElement
    <3> QED  BY <1>0, <2>7, <3>1, <3>2
  <2> QED  BY <2>3, <2>5, <2>6, <2>8, PoolSets
<1>6. ASSUME NEW i \in DOMAIN waiting, Pool!Leave(i) PROVE Pool!SlotsAreKept'
  <2>1. waiting' = Dropped(waiting, i) /\ available' = available
    BY <1>6 DEF Pool!Leave, Dropped
  <2>2. waiting[i] \in Callers /\ caller[waiting[i]] = "queued"
    BY <1>6 DEF Pool!TypeOK, Pool!QueueIsWaiting
  <2>3. \A e \in Callers : caller'[e] = IF e = waiting[i] THEN "out" ELSE caller[e]
    BY <1>6, <2>2 DEF Pool!Leave, Pool!TypeOK
  <2>4. Pool!QueueIsWaiting' /\ waiting' \in Seq(Callers)
    BY <1>6, <2>1, <2>2, <2>3, LeavingKeepsTheQueue
  <2>5. Pool!TypeOK'
    BY <1>6, <2>1, <2>4 DEF Pool!Leave, Pool!TypeOK
  <2>6. Pool!Holders' = Pool!Holders
    BY <2>2, <2>3 DEF Pool!Holders
  <2> QED  BY <2>1, <2>4, <2>5, <2>6
<1>7. CASE UNCHANGED poolVars
  BY <1>7 DEF poolVars, Pool!TypeOK, Pool!QueueIsWaiting, Pool!Holders
<1> QED
  BY <1>1, <1>2, <1>3, <1>4, <1>5, <1>6, <1>7 DEF Pool!Next, Pool!TimesOut

(* Where a step of the run leaves the slots.                                *)
LEMMA RunOfSlots == [MCNext]_allVars => [Pool!Next]_poolVars
BY DEF MCNext, allVars, poolVars

(* The ceiling on concurrent hashes is kept in every behaviour, each permit *)
(* is in the pool or with one caller, and a caller that gave up waiting     *)
(* takes none (BoundedSemaphore and withSlot).                              *)
THEOREM SlotsAreAlwaysKept == MCSpec => []SlotsAreKept
<1>1. MCInit => Pool!SlotsAreKept
  BY InitKeepsSlots, PoolIsGiven DEF MCInit
<1>2. Pool!SlotsAreKept /\ [MCNext]_allVars => Pool!SlotsAreKept'
  BY StepKeepsSlots, RunOfSlots, PoolIsGiven
<1>3. Pool!SlotsAreKept => SlotsAreKept
  BY DEF SlotsAreKept
<1> QED  BY <1>1, <1>2, <1>3, PTL DEF MCSpec

-----------------------------------------------------------------------------
(* The password, its lockout and its links                                  *)

\* What a handler has in hand at each of its stages.
EntryKnows(h) ==
    /\ entry[h].at \in {"check", "verify", "rehash"} =>
           entry[h].pw \in Passwords /\ entry[h].known \in Access!Hash
    /\ entry[h].at = "enter" => entry[h].pw \in Passwords \cup {Code}
    /\ entry[h].at \in {"unindex", "commit"} => entry[h].pw \in Passwords /\ entry[h].link \in Codes

\* Past the check of the lock, for a password or for a code, and the failure not counted yet.
Guessing == {h \in Handlers : entry[h].at \in {"verify", "judge"}}

\* A guess under way is one the check let pass: together with those counted they are
\* as few as the handlers allow.  But for a second factor's, a lock is recorded once the
\* count has met the threshold.
FailuresCount ==
    /\ wrong \in [n : Nat, left : 0 .. LoginWindow]
    /\ wrong.n + Cardinality(Guessing) <= Threshold + Cardinality(Handlers) - 1
    /\ crossings \in Nat /\ again \in Nat
    /\ crossings <= again + (IF wrong.n >= ConfiguredThreshold THEN 1 ELSE 0)

\* A link that lives, or is yet to be issued, has bought nothing and nobody has it to spend.
LinkIsUnspent ==
    \A l \in Codes : reset[l] # 0 => bought[l] = 0 /\ \A h \in Handlers : ~Access!Holds(h, l)

\* Who is about to sweep has read every live link, but for those issued since.
SweepersFound ==
    \A h \in Handlers : entry[h].at = "sweep" =>
        \A l \in Codes \ overtaken : reset[l] > 0 => l \in entry[h].found

AccessTypes == Access!TypeOK /\ \A h \in Handlers : EntryKnows(h)
LinksKept == LinkIsUnspent /\ SweepersFound /\ Access!LinksHold
AccessInv == AccessTypes /\ FailuresCount /\ LinksKept

LEMMA AccessSets ==
    ASSUME NEW S
    PROVE  (Access!IsFiniteSet(S) <=> IsFiniteSet(S)) /\ Access!Cardinality(S) = Cardinality(S)
BY DEF Access!IsFiniteSet, IsFiniteSet, Access!Cardinality, Cardinality

(* The parameters of the logins, as they are used below.                     *)
LEMMA AccessConstants ==
    /\ Threshold \in Nat \ {0} /\ ConfiguredThreshold \in Nat \ {0}
    /\ EscalationThreshold \in Nat \ {0} /\ LoginWindow \in Nat \ {0}
    /\ EscalationWindow \in Nat \ {0} /\ LinkLife \in Nat \ {0}
    /\ IsFiniteSet(Handlers) /\ Cardinality(Handlers) \in Nat
    /\ Code \notin Passwords /\ None \notin Codes \cup Passwords
BY AccessIsGiven, HandlersAssumption, FS_CardinalityType
   DEF Access!ThresholdAssumption, Access!LifetimeAssumption, Access!NamesAssumption

LEMMA GuessingIsFinite ==
    /\ IsFiniteSet(Guessing) /\ Cardinality(Guessing) \in Nat
    /\ Cardinality(Guessing) <= Cardinality(Handlers)
BY AccessConstants, FS_Subset, FS_CardinalityType DEF Guessing

LEMMA AccessInit == Access!Init => AccessInv
<1> SUFFICES ASSUME Access!Init PROVE AccessInv
  OBVIOUS
<1> USE AccessConstants, AccessSets
    DEF Access!Init, Access!NobodyHasEntered, Access!Idle, Access!Absent, Access!Unissued
<1>1. AccessTypes
  BY DEF AccessTypes, Access!TypeOK, EntryKnows, Access!Counters, Access!Stages
<1>2. FailuresCount
  <2>1. Guessing = {}
    BY DEF Guessing
  <2>2. Cardinality(Guessing) = 0
    BY <2>1, FS_EmptySet
  <2>3. QED
    BY <2>2 DEF FailuresCount
<1>3. LinksKept
  BY DEF LinksKept, LinkIsUnspent, SweepersFound, Access!LinksHold, Access!Live, Access!Holds,
         Access!LinkBuysOnePassword, Access!IndexCoversLinks
<1>4. QED
  BY <1>1, <1>2, <1>3 DEF AccessInv

(* The step of a handler in its types: its own record changes, no other's.  *)
LEMMA EntryMoves ==
    ASSUME AccessTypes, NEW h \in Handlers, NEW e, entry' = [entry EXCEPT ![h] = e]
    PROVE  entry'[h] = e /\ \A g \in Handlers \ {h} : entry'[g] = entry[g]
BY DEF AccessTypes, Access!TypeOK

-----------------------------------------------------------------------------
EntryRecords ==
    [at : Access!Stages \cup {"idle"}, pw : Passwords \cup {Code, None},
     known : Access!Hash \cup {None}, link : Codes \cup {None}, found : SUBSET Codes]

Knows(e) ==
    /\ e.at \in {"check", "verify", "rehash"} => e.pw \in Passwords /\ e.known \in Access!Hash
    /\ e.at = "enter" => e.pw \in Passwords \cup {Code}
    /\ e.at \in {"unindex", "commit"} => e.pw \in Passwords /\ e.link \in Codes

LEMMA EntriesStayTyped ==
    ASSUME AccessTypes, NEW h \in Handlers, NEW e \in EntryRecords, Knows(e),
           entry' = [entry EXCEPT ![h] = e]
    PROVE  entry' \in [Handlers -> EntryRecords] /\ \A g \in Handlers : EntryKnows(g)'
<1>1. entry \in [Handlers -> EntryRecords]
  BY DEF AccessTypes, Access!TypeOK, EntryRecords
<1>2. entry' \in [Handlers -> EntryRecords]
  BY <1>1
<1>3. ASSUME NEW g \in Handlers PROVE EntryKnows(g)'
  <2>1. CASE g = h
    <3>1. entry'[g] = e
      BY <1>1, <2>1
    <3>2. QED
      BY <3>1 DEF Knows, EntryKnows
  <2>2. CASE g # h
    <3>1. entry'[g] = entry[g]
      BY <1>1, <2>2
    <3>2. QED
      BY <3>1 DEF EntryKnows, AccessTypes
  <2>3. QED
    BY <2>1, <2>2
<1>4. QED
  BY <1>2, <1>3

(* A handler that goes on with what it has in hand.                         *)
LEMMA EntryGoesOn ==
    ASSUME AccessTypes, NEW h \in Handlers, NEW stage \in Access!Stages \ {"check"},
           entry' = [entry EXCEPT ![h].at = stage],
           stage \in {"verify", "rehash"} =>
               entry[h].pw \in Passwords /\ entry[h].known \in Access!Hash,
           stage = "enter" => entry[h].pw \in Passwords \cup {Code},
           stage \in {"unindex", "commit"} => entry[h].pw \in Passwords /\ entry[h].link \in Codes
    PROVE  entry' \in [Handlers -> EntryRecords] /\ \A g \in Handlers : EntryKnows(g)'
<1> DEFINE e == [entry[h] EXCEPT !.at = stage]
<1>1. entry[h] \in EntryRecords
  BY DEF AccessTypes, Access!TypeOK, EntryRecords
<1>2. e \in EntryRecords /\ e.at = stage /\ e.pw = entry[h].pw /\ e.known = entry[h].known
      /\ e.link = entry[h].link
  BY <1>1 DEF EntryRecords
<1>3. entry' = [entry EXCEPT ![h] = e]
  OBVIOUS
<1> HIDE DEF e
<1>4. Knows(e)
  BY <1>2 DEF Knows
<1>5. QED
  BY <1>2, <1>3, <1>4, EntriesStayTyped

LEMMA EntryEnds ==
    ASSUME AccessTypes, NEW h \in Handlers, entry' = [entry EXCEPT ![h] = Access!Idle]
    PROVE  entry' \in [Handlers -> EntryRecords] /\ \A g \in Handlers : EntryKnows(g)'
<1>1. Access!Idle \in EntryRecords /\ Knows(Access!Idle)
  BY DEF Access!Idle, EntryRecords, Knows
<1>2. QED
  BY <1>1, EntriesStayTyped
(* Every step of a login hands its handler what the next stage needs.       *)
LEMMA LoginsStayTyped ==
    ASSUME AccessTypes, NEW h \in Handlers,
           Access!LoginStep(h) \/ Access!FactorStep(h) \/ Access!Fail(h)
    PROVE  entry' \in [Handlers -> EntryRecords] /\ \A g \in Handlers : EntryKnows(g)'
<1> DEFINE Typed == entry' \in [Handlers -> EntryRecords] /\ \A g \in Handlers : EntryKnows(g)'
<1> USE DEF Access!At, Access!Goto, Access!Finish
<1>k. EntryKnows(h)
  BY DEF AccessTypes
<1>1. ASSUME NEW p \in Passwords, Access!BeginLogin(h, p) PROVE Typed
  <2> DEFINE e == [Access!Idle EXCEPT !.at = "check", !.pw = p, !.known = hash]
  <2>1. e \in EntryRecords /\ Knows(e)
    BY DEF Access!Idle, EntryRecords, Knows, AccessTypes, Access!TypeOK, Access!Stages
  <2>2. entry' = [entry EXCEPT ![h] = e]
    BY <1>1 DEF Access!BeginLogin
  <2> HIDE DEF e
  <2>3. QED
    BY <2>1, <2>2, EntriesStayTyped
<1>2. ASSUME entry' = [entry EXCEPT ![h] = Access!Idle] PROVE Typed
  BY <1>2, EntryEnds
<1>3. CASE Access!CheckLock(h)
  <2>1. CASE entry' = [entry EXCEPT ![h].at = "verify"]
    BY <1>k, <1>3, <2>1, EntryGoesOn DEF Access!CheckLock, EntryKnows, Access!Stages
  <2>2. QED
    BY <1>2, <1>3, <2>1 DEF Access!CheckLock
<1>4. CASE Access!WrongPassword(h)
  <2>1. CASE entry' = [entry EXCEPT ![h].at = "lock"]
    BY <2>1, EntryGoesOn DEF Access!Stages
  <2>2. QED
    BY <1>2, <1>4, <2>1 DEF Access!WrongPassword
<1>5. CASE Access!RecordLock(h)
  BY <1>2, <1>5 DEF Access!RecordLock
<1>6. CASE Access!RightPassword(h)
  <2>1. PICK stage \in {"rehash", "enter"} : entry' = [entry EXCEPT ![h].at = stage]
    BY <1>6 DEF Access!RightPassword
  <2>2. entry[h].pw \in Passwords /\ entry[h].known \in Access!Hash
    BY <1>k, <1>6 DEF Access!RightPassword, EntryKnows
  <2>3. stage \in Access!Stages \ {"check"}
    BY DEF Access!Stages
  <2>4. QED
    BY <2>1, <2>2, <2>3, EntryGoesOn
<1>7. CASE Access!Rehash(h)
  <2>1. entry' = [entry EXCEPT ![h].at = "enter"] /\ entry[h].pw \in Passwords
    BY <1>k, <1>7 DEF Access!Rehash, EntryKnows
  <2>2. QED
    BY <2>1, EntryGoesOn DEF Access!Stages
<1>8. CASE Access!Enter(h)
  BY <1>2, <1>8 DEF Access!Enter
<1>9. CASE Access!VerifyCode(h)
  <2> DEFINE e == [Access!Idle EXCEPT !.at = "enter", !.pw = Code]
  <2>1. e \in EntryRecords /\ Knows(e)
    BY DEF Access!Idle, EntryRecords, Knows, Access!Stages
  <2>2. entry' = [entry EXCEPT ![h] = e]
    BY <1>9 DEF Access!VerifyCode
  <2> HIDE DEF e
  <2>3. QED
    BY <2>1, <2>2, EntriesStayTyped
<1>10. CASE Access!Fail(h)
  BY <1>2, <1>10 DEF Access!Fail
<1>11. CASE Access!FactorStep(h)
  <2>1. \/ entry' = [entry EXCEPT ![h] = Access!Idle]
        \/ entry' = [entry EXCEPT ![h].at = "judge"]
        \/ entry' = [entry EXCEPT ![h].at = "lock"]
    BY <1>11 DEF Access!FactorStep, Access!PresentFactor, Access!WrongFactor, Access!RightFactor
  <2>2. CASE entry' = [entry EXCEPT ![h].at = "judge"]
    BY <2>2, EntryGoesOn DEF Access!Stages
  <2>3. CASE entry' = [entry EXCEPT ![h].at = "lock"]
    BY <2>3, EntryGoesOn DEF Access!Stages
  <2>4. QED
    BY <1>2, <2>1, <2>2, <2>3
<1>12. QED
  BY <1>1, <1>3, <1>4, <1>5, <1>6, <1>7, <1>8, <1>9, <1>10, <1>11 DEF Access!LoginStep

LEMMA ResetsStayTyped ==
    ASSUME AccessTypes, NEW h \in Handlers, Access!ResetStep(h)
    PROVE  entry' \in [Handlers -> EntryRecords] /\ \A g \in Handlers : EntryKnows(g)'
<1> DEFINE Typed == entry' \in [Handlers -> EntryRecords] /\ \A g \in Handlers : EntryKnows(g)'
<1> USE DEF Access!At, Access!Goto, Access!Finish
<1>k. EntryKnows(h) /\ entry[h] \in EntryRecords /\ index \in SUBSET Codes
  BY DEF AccessTypes, Access!TypeOK, EntryRecords
<1>1. ASSUME NEW l \in Codes, NEW p \in Passwords, Access!BeginReset(h, l, p) PROVE Typed
  <2> DEFINE e == [Access!Idle EXCEPT !.at = "unindex", !.pw = p, !.link = l]
  <2>1. e \in EntryRecords /\ Knows(e)
    BY DEF Access!Idle, EntryRecords, Knows, Access!Stages
  <2>2. entry' = [entry EXCEPT ![h] = e]
    BY <1>1 DEF Access!BeginReset
  <2> HIDE DEF e
  <2>3. QED
    BY <2>1, <2>2, EntriesStayTyped
<1>2. CASE Access!Unindex(h)
  <2>1. /\ entry' = [entry EXCEPT ![h].at = "commit"]
        /\ entry[h].pw \in Passwords /\ entry[h].link \in Codes
    BY <1>k, <1>2 DEF Access!Unindex, EntryKnows
  <2>2. QED
    BY <2>1, EntryGoesOn DEF Access!Stages
<1>3. CASE Access!CommitReset(h)
  <2>1. entry' = [entry EXCEPT ![h].at = "read"]
    BY <1>3 DEF Access!CommitReset
  <2>2. QED
    BY <2>1, EntryGoesOn DEF Access!Stages
<1>4. CASE Access!ReadIndex(h)
  <2> DEFINE e == [entry[h] EXCEPT !.at = IF index = {} THEN "clear" ELSE "sweep", !.found = index]
  <2>1. e \in EntryRecords /\ e.at \in {"clear", "sweep"}
    BY <1>k DEF EntryRecords, Access!Stages
  <2>2. Knows(e)
    BY <2>1 DEF Knows
  <2>3. entry' = [entry EXCEPT ![h] = e]
    BY <1>4 DEF Access!ReadIndex
  <2> HIDE DEF e
  <2>4. QED
    BY <2>1, <2>2, <2>3, EntriesStayTyped
<1>5. CASE Access!SweepLinks(h)
  <2>1. entry' = [entry EXCEPT ![h].at = "clear"]
    BY <1>5 DEF Access!SweepLinks
  <2>2. QED
    BY <2>1, EntryGoesOn DEF Access!Stages
<1>6. CASE Access!ClearFailures(h)
  BY <1>6, EntryEnds DEF Access!ClearFailures
<1>7. QED
  BY <1>1, <1>2, <1>3, <1>4, <1>5, <1>6 DEF Access!ResetStep
-----------------------------------------------------------------------------
(* The failures: a step that counts none and lets nobody past the check.    *)
LEMMA FailuresStand ==
    ASSUME AccessInv, wrong' = wrong, UNCHANGED <<crossings, again>>, Guessing' \subseteq Guessing
    PROVE  FailuresCount'
<1>1. Cardinality(Guessing') <= Cardinality(Guessing) /\ Cardinality(Guessing') \in Nat
  BY GuessingIsFinite, FS_Subset, FS_CardinalityType
<1>2. QED
  BY <1>1, GuessingIsFinite, AccessConstants DEF AccessInv, FailuresCount

(* And one that forgets them.                                               *)
LEMMA FailuresForgotten ==
    ASSUME AccessInv, wrong' = Access!Absent, crossings' = 0, again' = 0
    PROVE  FailuresCount'
<1>1. Cardinality(Guessing') <= Cardinality(Handlers) /\ Cardinality(Guessing') \in Nat
  BY AccessConstants, FS_Subset, FS_CardinalityType DEF Guessing
<1>2. QED
  BY <1>1, AccessConstants DEF FailuresCount, Access!Absent

(* A wrong password, or a wrong code, leaves the guesses under way as it    *)
(* joins those counted; it adds a lock of its own where the count meets the *)
(* threshold, and otherwise only with one more of the second factor's.      *)
LEMMA GuessCounts ==
    ASSUME AccessInv, NEW h \in Handlers, Access!WrongPassword(h) \/ Access!WrongFactor(h)
    PROVE  FailuresCount'
<1> DEFINE n == wrong.n
<1>0. /\ wrong \in [n : Nat, left : 0 .. LoginWindow] /\ n \in Nat
      /\ crossings \in Nat /\ again \in Nat
      /\ crossings <= again + (IF n >= ConfiguredThreshold THEN 1 ELSE 0)
  BY DEF AccessInv, FailuresCount
<1>1. /\ wrong' = [n |-> n + 1, left |-> IF n = 0 THEN LoginWindow ELSE wrong.left]
      /\ entry[h].at \in {"verify", "judge"} /\ entry'[h].at \notin {"verify", "judge"}
      /\ \A g \in Handlers \ {h} : entry'[g] = entry[g]
  BY DEF AccessInv, AccessTypes, Access!TypeOK, Access!WrongPassword, Access!WrongFactor,
         Access!IncrWithin, Access!At, Access!Goto, Access!Finish, Access!Idle
<1>2. h \in Guessing /\ Guessing' = Guessing \ {h}
  BY <1>1 DEF Guessing
<1>3. Cardinality(Guessing') = Cardinality(Guessing) - 1
  BY <1>2, GuessingIsFinite, FS_RemoveElement
<1>4. wrong' \in [n : Nat, left : 0 .. LoginWindow] /\ wrong'.n = n + 1
  BY <1>0, <1>1, AccessConstants
<1>5. wrong'.n + Cardinality(Guessing') <= Threshold + Cardinality(Handlers) - 1
  BY <1>0, <1>3, <1>4, GuessingIsFinite, AccessConstants DEF AccessInv, FailuresCount
<1>6. \/ wrong'.n = ConfiguredThreshold /\ crossings' \in {crossings, crossings + 1} /\ again' = again
      \/ crossings' = crossings /\ again' = again
      \/ crossings' = crossings + 1 /\ again' = again + 1
  BY DEF Access!WrongPassword, Access!WrongFactor
<1>7. /\ crossings' \in Nat /\ again' \in Nat
      /\ crossings' <= again' + (IF wrong'.n >= ConfiguredThreshold THEN 1 ELSE 0)
  BY <1>0, <1>4, <1>6, AccessConstants
<1>8. QED
  BY <1>4, <1>5, <1>7 DEF FailuresCount

(* The check of the lock lets through whom the handlers leave room for.     *)
LEMMA CheckLockCounts ==
    ASSUME AccessInv, NEW h \in Handlers, Access!CheckLock(h) \/ Access!PresentFactor(h)
    PROVE  FailuresCount'
<1>1. wrong' = wrong /\ UNCHANGED <<crossings, again>>
  BY DEF Access!CheckLock, Access!PresentFactor, Access!histories
<1>2. CASE wrong.n >= Threshold
  <2>1. \A g \in Handlers : entry'[g].at \in {"verify", "judge"} =>
                             entry[g].at \in {"verify", "judge"}
    BY <1>2 DEF AccessInv, AccessTypes, Access!TypeOK, Access!CheckLock, Access!PresentFactor,
                Access!Locked, Access!Finish, Access!Idle
  <2>2. QED
    BY <1>1, <2>1, FailuresStand DEF Guessing
<1>3. CASE ~(wrong.n >= Threshold)
  <2>1. Cardinality(Guessing') <= Cardinality(Handlers) /\ Cardinality(Guessing') \in Nat
    BY AccessConstants, FS_Subset, FS_CardinalityType DEF Guessing
  <2>2. QED
    BY <1>1, <1>3, <2>1, AccessConstants DEF AccessInv, FailuresCount
<1>4. QED
  BY <1>2, <1>3

(* Time ends the window, or leaves the count.                               *)
LEMMA TickCounts == ASSUME AccessInv, Access!Tick PROVE FailuresCount'
<1>0. wrong \in [n : Nat, left : 0 .. LoginWindow]
  BY DEF AccessInv, FailuresCount
<1>1. wrong' = Access!Aged(wrong) /\ crossings' = (IF wrong' = Access!Absent THEN 0 ELSE crossings)
      /\ again' = (IF wrong' = Access!Absent THEN 0 ELSE again) /\ entry' = entry
  BY DEF Access!Tick
<1>2. CASE wrong' = Access!Absent
  BY <1>1, <1>2, FailuresForgotten
<1>3. CASE wrong' # Access!Absent
  <2>1. wrong' = [wrong EXCEPT !.left = @ - 1] /\ wrong.left > 1
    BY <1>0, <1>1, <1>3 DEF Access!Aged
  <2>2. wrong' \in [n : Nat, left : 0 .. LoginWindow] /\ wrong'.n = wrong.n
    BY <1>0, <2>1, AccessConstants
  <2>3. Guessing' = Guessing
    BY <1>1 DEF Guessing
  <2>4. QED
    BY <1>1, <1>3, <2>2, <2>3 DEF AccessInv, FailuresCount
<1>4. QED
  BY <1>2, <1>3

LEMMA FailuresStep == ASSUME AccessInv, [Access!Next]_accessVars PROVE FailuresCount'
<1> USE DEF Access!At, Access!Goto, Access!Finish, Access!Idle, Access!histories
<1>e. entry \in [Handlers -> EntryRecords]
  BY DEF AccessInv, AccessTypes, Access!TypeOK, EntryRecords
<1>1. ASSUME NEW h \in Handlers, wrong' = wrong, UNCHANGED <<crossings, again>>,
             \A g \in Handlers \ {h} : entry'[g] = entry[g],
             entry'[h].at \notin {"verify", "judge"}
      PROVE FailuresCount'
  BY <1>1, FailuresStand DEF Guessing
<1>2. ASSUME NEW h \in Handlers, Access!LoginStep(h) PROVE FailuresCount'
  <2>1. ASSUME NEW p \in Passwords, Access!BeginLogin(h, p) PROVE FailuresCount'
    BY <1>e, <1>1, <2>1 DEF Access!BeginLogin
  <2>2. CASE Access!RightPassword(h)
    BY <2>2, FailuresForgotten DEF Access!RightPassword, Access!ForgetFailures
  <2>3. CASE Access!RecordLock(h)
    BY <1>e, <1>1, <2>3 DEF Access!RecordLock
  <2>4. CASE Access!Rehash(h)
    BY <1>e, <1>1, <2>4 DEF Access!Rehash
  <2>5. CASE Access!Enter(h)
    BY <1>e, <1>1, <2>5 DEF Access!Enter
  <2>6. CASE Access!VerifyCode(h)
    BY <1>e, <1>1, <2>6 DEF Access!VerifyCode
  <2>7. QED
    BY <1>2, <2>1, <2>2, <2>3, <2>4, <2>5, <2>6, CheckLockCounts, GuessCounts
       DEF Access!LoginStep
<1>3. ASSUME NEW h \in Handlers, Access!ResetStep(h) PROVE FailuresCount'
  <2>1. ASSUME NEW l \in Codes, NEW p \in Passwords, Access!BeginReset(h, l, p) PROVE FailuresCount'
    BY <1>e, <1>1, <2>1 DEF Access!BeginReset
  <2>2. CASE Access!Unindex(h)
    BY <1>e, <1>1, <2>2 DEF Access!Unindex
  <2>3. CASE Access!CommitReset(h)
    BY <1>e, <1>1, <2>3 DEF Access!CommitReset
  <2>4. CASE Access!ReadIndex(h)
    <3> DEFINE e == [entry[h] EXCEPT !.at = IF index = {} THEN "clear" ELSE "sweep", !.found = index]
    <3>1. entry' = [entry EXCEPT ![h] = e] /\ UNCHANGED <<wrong, crossings, again>>
      BY <2>4 DEF Access!ReadIndex
    <3>2. e.at \notin {"verify", "judge"}
      BY <1>e DEF EntryRecords
    <3> HIDE DEF e
    <3>3. QED
      BY <1>e, <1>1, <3>1, <3>2
  <2>5. CASE Access!SweepLinks(h)
    BY <1>e, <1>1, <2>5 DEF Access!SweepLinks
  <2>6. CASE Access!ClearFailures(h)
    BY <2>6, FailuresForgotten DEF Access!ClearFailures, Access!ForgetFailures
  <2>7. QED
    BY <1>3, <2>1, <2>2, <2>3, <2>4, <2>5, <2>6 DEF Access!ResetStep
<1>4. ASSUME NEW h \in Handlers, Access!Fail(h) PROVE FailuresCount'
  BY <1>e, <1>1, <1>4 DEF Access!Fail
<1>5. ASSUME NEW l \in Codes, Access!RequestLink(l) PROVE FailuresCount'
  BY <1>5, FailuresStand DEF Access!RequestLink, Guessing
<1>6. CASE UNCHANGED accessVars
  BY <1>6, FailuresStand DEF accessVars, Guessing
<1>7. ASSUME NEW h \in Handlers, Access!FactorStep(h) PROVE FailuresCount'
  <2>1. CASE Access!RightFactor(h)
    BY <2>1, FailuresForgotten DEF Access!RightFactor, Access!ForgetFailures
  <2>2. QED
    BY <1>7, <2>1, CheckLockCounts, GuessCounts DEF Access!FactorStep
<1>8. QED
  BY <1>2, <1>3, <1>4, <1>5, <1>6, <1>7, TickCounts DEF Access!Next
-----------------------------------------------------------------------------
(* The links: a step of a handler that has no link and touches none.        *)
LEMMA LinksStand ==
    ASSUME AccessInv, NEW h \in Handlers, UNCHANGED <<reset, index, indexLeft, bought, overtaken>>,
           \A g \in Handlers \ {h} : entry'[g] = entry[g],
           entry'[h].at \notin {"unindex", "commit", "sweep"}
    PROVE  LinksKept'
<1>1. \A g \in Handlers, l \in Codes : Access!Holds(g, l)' => Access!Holds(g, l)
  BY DEF Access!Holds
<1>2. LinkIsUnspent' /\ SweepersFound'
  BY <1>1 DEF AccessInv, LinksKept, LinkIsUnspent, SweepersFound
<1>3. Access!LinksHold'
  BY <1>1 DEF AccessInv, LinksKept, Access!LinksHold, Access!LinkBuysOnePassword,
              Access!IndexCoversLinks, Access!Live
<1>4. QED
  BY <1>2, <1>3 DEF LinksKept

(* A link that is issued is indexed for its whole life, and told to those    *)
(* about to sweep.                                                          *)
LEMMA RequestLinkKeeps ==
    ASSUME AccessInv, NEW l \in Codes, Access!RequestLink(l)
    PROVE  LinksKept'
<1> USE DEF Access!Unissued
<1>1. /\ reset \in [Codes -> Access!Unissued .. LinkLife] /\ reset[l] = Access!Unissued
      /\ reset' = [reset EXCEPT ![l] = LinkLife] /\ index' = index \cup {l} /\ indexLeft' = LinkLife
      /\ overtaken' = (IF \E h \in Handlers : entry[h].at = "sweep"
                       THEN overtaken \cup {l} ELSE overtaken)
      /\ UNCHANGED <<entry, bought>>
  BY DEF AccessInv, AccessTypes, Access!TypeOK, Access!RequestLink, Access!At
<1>2. reset'[l] = LinkLife /\ \A k \in Codes \ {l} : reset'[k] = reset[k]
  BY <1>1
<1>3. \A g \in Handlers, k \in Codes : Access!Holds(g, k)' <=> Access!Holds(g, k)
  BY <1>1 DEF Access!Holds
<1>4. bought[l] = 0 /\ \A h \in Handlers : ~Access!Holds(h, l)
  BY <1>1 DEF AccessInv, LinksKept, LinkIsUnspent
<1>5. LinkIsUnspent'
  BY <1>1, <1>2, <1>3, <1>4 DEF AccessInv, LinksKept, LinkIsUnspent
<1>6. SweepersFound'
  BY <1>1, <1>2 DEF AccessInv, LinksKept, SweepersFound
<1>7. Access!LinkBuysOnePassword'
  BY <1>1, <1>2, <1>3, <1>4
     DEF AccessInv, LinksKept, Access!LinksHold, Access!LinkBuysOnePassword, Access!Live
<1>8. Access!IndexCoversLinks'
  <2>1. \A k \in Codes : reset'[k] <= LinkLife
    BY <1>1, AccessConstants
  <2>2. QED
    BY <1>1, <1>2, <2>1, AccessConstants
       DEF AccessInv, LinksKept, Access!LinksHold, Access!IndexCoversLinks, Access!Live
<1>9. QED
  BY <1>5, <1>6, <1>7, <1>8 DEF LinksKept, Access!LinksHold

(* A link is redeemed at once: it is dead before anybody can hold it.       *)
LEMMA BeginResetKeeps ==
    ASSUME AccessInv, NEW h \in Handlers, NEW l \in Codes, NEW p \in Passwords,
           Access!BeginReset(h, l, p)
    PROVE  LinksKept'
<1>1. /\ reset \in [Codes -> Access!Unissued .. LinkLife] /\ reset[l] > 0
      /\ reset' = [reset EXCEPT ![l] = 0]
      /\ UNCHANGED <<index, indexLeft, bought, overtaken>>
      /\ entry \in [Handlers -> EntryRecords]
      /\ entry' = [entry EXCEPT ![h] = [Access!Idle EXCEPT !.at = "unindex", !.pw = p, !.link = l]]
  BY DEF AccessInv, AccessTypes, Access!TypeOK, Access!BeginReset, Access!Live, EntryRecords,
         Access!histories
<1>2. reset'[l] = 0 /\ \A k \in Codes \ {l} : reset'[k] = reset[k]
  BY <1>1
<1>3. /\ entry'[h].at = "unindex" /\ entry'[h].link = l
      /\ \A g \in Handlers \ {h} : entry'[g] = entry[g]
  BY <1>1 DEF Access!Idle
<1>4. \A g \in Handlers, k \in Codes :
          Access!Holds(g, k)' <=> IF g = h THEN k = l ELSE Access!Holds(g, k)
  BY <1>3 DEF Access!Holds
<1>5. bought[l] = 0 /\ \A g \in Handlers : ~Access!Holds(g, l)
  BY <1>1 DEF AccessInv, LinksKept, LinkIsUnspent
<1>6. LinkIsUnspent'
  BY <1>1, <1>2, <1>4 DEF AccessInv, LinksKept, LinkIsUnspent
<1>7. SweepersFound'
  BY <1>1, <1>2, <1>3 DEF AccessInv, LinksKept, SweepersFound
<1>8. Access!LinkBuysOnePassword'
  <2> SUFFICES ASSUME NEW k \in Codes
               PROVE  /\ bought[k] <= 1
                      /\ \A g \in Handlers : Access!Holds(g, k)' =>
                             /\ ~(reset'[k] > 0) /\ bought[k] = 0
                             /\ \A f \in Handlers \ {g} : ~Access!Holds(f, k)'
    BY <1>1 DEF Access!LinkBuysOnePassword, Access!Live
  <2>1. CASE k = l
    BY <1>2, <1>4, <1>5, <2>1
  <2>2. CASE k # l
    BY <1>2, <1>4, <1>5, <2>2 DEF AccessInv, LinksKept, Access!LinksHold,
       Access!LinkBuysOnePassword, Access!Live, LinkIsUnspent
  <2>3. QED
    BY <2>1, <2>2
<1>9. Access!IndexCoversLinks'
  BY <1>1, <1>2 DEF AccessInv, LinksKept, Access!LinksHold, Access!IndexCoversLinks, Access!Live
<1>10. QED
  BY <1>6, <1>7, <1>8, <1>9 DEF LinksKept, Access!LinksHold

(* A link leaves the index dead; of the others the index stays what it was. *)
LEMMA UnindexKeeps ==
    ASSUME AccessInv, NEW h \in Handlers, Access!Unindex(h)
    PROVE  LinksKept'
<1>1. /\ entry \in [Handlers -> EntryRecords] /\ entry' = [entry EXCEPT ![h].at = "commit"]
      /\ entry[h].at = "unindex" /\ index' = index \ {entry[h].link}
      /\ indexLeft' = (IF index' = {} THEN 0 ELSE indexLeft)
      /\ UNCHANGED <<reset, bought, overtaken>>
  BY DEF AccessInv, AccessTypes, Access!TypeOK, Access!Unindex, EntryRecords, Access!At,
         Access!Goto, Access!histories
<1>2. /\ entry'[h].at = "commit" /\ entry'[h].link = entry[h].link
      /\ \A g \in Handlers \ {h} : entry'[g] = entry[g]
  BY <1>1 DEF EntryRecords
<1>3. \A g \in Handlers, k \in Codes : Access!Holds(g, k)' <=> Access!Holds(g, k)
  BY <1>1, <1>2 DEF Access!Holds
<1>4. LinkIsUnspent' /\ SweepersFound'
  BY <1>1, <1>2, <1>3 DEF AccessInv, LinksKept, LinkIsUnspent, SweepersFound
<1>5. Access!LinkBuysOnePassword'
  BY <1>1, <1>3 DEF AccessInv, LinksKept, Access!LinksHold, Access!LinkBuysOnePassword, Access!Live
<1>6. \A k \in Codes : reset[k] > 0 => k # entry[h].link
  BY <1>1 DEF AccessInv, LinksKept, LinkIsUnspent, Access!Holds
<1>7. Access!IndexCoversLinks'
  BY <1>1, <1>6 DEF AccessInv, LinksKept, Access!LinksHold, Access!IndexCoversLinks, Access!Live
<1>8. QED
  BY <1>4, <1>5, <1>7 DEF LinksKept, Access!LinksHold
(* The password is set by the one handler that had the link.                *)
LEMMA CommitResetKeeps ==
    ASSUME AccessInv, NEW h \in Handlers, Access!CommitReset(h)
    PROVE  LinksKept' /\ bought' \in [Codes -> 0 .. Cardinality(Handlers)]
<1> DEFINE l == entry[h].link
<1>1. /\ entry \in [Handlers -> EntryRecords] /\ entry' = [entry EXCEPT ![h].at = "read"]
      /\ entry[h].at = "commit" /\ l \in Codes
      /\ bought \in [Codes -> 0 .. Cardinality(Handlers)]
      /\ bought' = [bought EXCEPT ![l] = bought[l] + 1]
      /\ UNCHANGED <<reset, index, indexLeft, overtaken>>
  BY AccessSets DEF AccessInv, AccessTypes, Access!TypeOK, Access!CommitReset, EntryRecords, EntryKnows,
         Access!At, Access!Goto, Access!redisLinks
<1>2. /\ entry'[h].at = "read" /\ \A g \in Handlers \ {h} : entry'[g] = entry[g]
  BY <1>1 DEF EntryRecords
<1>3. Access!Holds(h, l)
  BY <1>1 DEF Access!Holds
<1>4. /\ ~(reset[l] > 0) /\ reset[l] = 0 /\ bought[l] = 0
      /\ \A g \in Handlers \ {h} : ~Access!Holds(g, l)
  BY <1>1, <1>3 DEF AccessInv, LinksKept, Access!LinksHold, Access!LinkBuysOnePassword, Access!Live,
                    LinkIsUnspent
<1>5. bought'[l] = 1 /\ \A k \in Codes \ {l} : bought'[k] = bought[k]
  BY <1>1, <1>4
<1>6. \A g \in Handlers, k \in Codes : Access!Holds(g, k)' => Access!Holds(g, k) /\ g # h
  BY <1>2 DEF Access!Holds
<1> HIDE DEF l
<1>7. LinkIsUnspent' /\ SweepersFound'
  BY <1>1, <1>2, <1>4, <1>5, <1>6 DEF AccessInv, LinksKept, LinkIsUnspent, SweepersFound
<1>8. Access!LinkBuysOnePassword'
  BY <1>1, <1>4, <1>5, <1>6
     DEF AccessInv, LinksKept, Access!LinksHold, Access!LinkBuysOnePassword, Access!Live
<1>9. Access!IndexCoversLinks'
  BY <1>1 DEF AccessInv, LinksKept, Access!LinksHold, Access!IndexCoversLinks, Access!Live
<1>10. Cardinality(Handlers) >= 1
  <2>1. Cardinality(Handlers) # 0
    BY AccessConstants, FS_EmptySet
  <2>2. QED
    BY <2>1, AccessConstants
<1>11. bought' \in [Codes -> 0 .. Cardinality(Handlers)]
  BY <1>1, <1>4, <1>10, AccessConstants
<1>12. QED
  BY <1>7, <1>8, <1>9, <1>11 DEF LinksKept, Access!LinksHold

(* What is in the index when it is read is every live link not overtaken.   *)
LEMMA ReadIndexKeeps ==
    ASSUME AccessInv, NEW h \in Handlers, Access!ReadIndex(h)
    PROVE  LinksKept'
<1> DEFINE e == [entry[h] EXCEPT !.at = IF index = {} THEN "clear" ELSE "sweep", !.found = index]
<1>1. /\ entry \in [Handlers -> EntryRecords] /\ entry' = [entry EXCEPT ![h] = e]
      /\ UNCHANGED <<reset, index, indexLeft, bought, overtaken>>
  BY DEF AccessInv, AccessTypes, Access!TypeOK, Access!ReadIndex, EntryRecords,
         Access!redisLinks, Access!histories
<1>2. e.at \in {"clear", "sweep"} /\ e.found = index
  BY <1>1 DEF EntryRecords
<1> HIDE DEF e
<1>3. entry'[h] = e /\ \A g \in Handlers \ {h} : entry'[g] = entry[g]
  BY <1>1
<1>4. \A g \in Handlers, k \in Codes : Access!Holds(g, k)' => Access!Holds(g, k)
  BY <1>2, <1>3 DEF Access!Holds
<1>5. LinkIsUnspent' /\ Access!LinksHold'
  BY <1>1, <1>4 DEF AccessInv, LinksKept, LinkIsUnspent, Access!LinksHold,
                    Access!LinkBuysOnePassword, Access!IndexCoversLinks, Access!Live
<1>6. SweepersFound'
  <2>1. \A k \in Codes \ overtaken : reset[k] > 0 => k \in index
    BY DEF AccessInv, LinksKept, Access!LinksHold, Access!IndexCoversLinks, Access!Live
  <2>2. QED
    BY <1>1, <1>2, <1>3, <2>1 DEF AccessInv, LinksKept, SweepersFound
<1>7. QED
  BY <1>5, <1>6 DEF LinksKept

(* The index goes, and every link it was answerable for.                    *)
LEMMA SweepLinksKeeps ==
    ASSUME AccessInv, NEW h \in Handlers, Access!SweepLinks(h)
    PROVE  LinksKept'
<1>1. /\ entry \in [Handlers -> EntryRecords] /\ entry' = [entry EXCEPT ![h].at = "clear"]
      /\ entry[h].at = "sweep"
      /\ reset' = [k \in Codes |-> IF k \in entry[h].found THEN 0 ELSE reset[k]]
      /\ UNCHANGED <<bought, overtaken>>
  BY DEF AccessInv, AccessTypes, Access!TypeOK, Access!SweepLinks, EntryRecords, Access!At,
         Access!Goto, Access!histories
<1>2. /\ entry'[h].at = "clear" /\ \A g \in Handlers \ {h} : entry'[g] = entry[g]
  BY <1>1 DEF EntryRecords
<1>3. \A g \in Handlers, k \in Codes : Access!Holds(g, k)' => Access!Holds(g, k)
  BY <1>2 DEF Access!Holds
<1>4. \A k \in Codes : reset'[k] \in {0, reset[k]}
  BY <1>1
<1>5. LinkIsUnspent' /\ SweepersFound'
  BY <1>1, <1>2, <1>3, <1>4 DEF AccessInv, LinksKept, LinkIsUnspent, SweepersFound
<1>6. Access!LinkBuysOnePassword'
  BY <1>1, <1>3, <1>4
     DEF AccessInv, LinksKept, Access!LinksHold, Access!LinkBuysOnePassword, Access!Live
<1>7. \A k \in Codes \ overtaken : ~(reset'[k] > 0)
  BY <1>1 DEF AccessInv, LinksKept, SweepersFound
<1>8. Access!IndexCoversLinks'
  BY <1>1, <1>7 DEF Access!IndexCoversLinks, Access!Live
<1>9. QED
  BY <1>5, <1>6, <1>8 DEF LinksKept, Access!LinksHold

(* The index is renewed with every link, so it goes after the last of them. *)
LEMMA TickKeeps == ASSUME AccessInv, Access!Tick PROVE LinksKept'
<1>1. /\ reset \in [Codes -> Access!Unissued .. LinkLife] /\ indexLeft \in 0 .. LinkLife
      /\ reset' = [k \in Codes |-> IF reset[k] > 0 THEN reset[k] - 1 ELSE reset[k]]
      /\ indexLeft' = (IF indexLeft > 0 THEN indexLeft - 1 ELSE 0)
      /\ index' = (IF indexLeft' = 0 THEN {} ELSE index)
      /\ UNCHANGED <<entry, bought, overtaken>>
  BY DEF AccessInv, AccessTypes, Access!TypeOK, Access!Tick, Access!Live
<1>2. \A k \in Codes : /\ reset[k] \in Int
                       /\ reset'[k] # 0 => reset[k] # 0
                       /\ reset'[k] > 0 => reset[k] > 1 /\ reset'[k] = reset[k] - 1
  BY <1>1 DEF Access!Unissued
<1>3. \A g \in Handlers, k \in Codes : Access!Holds(g, k)' <=> Access!Holds(g, k)
  BY <1>1 DEF Access!Holds
<1>4. \A k \in Codes : reset'[k] > 0 => reset[k] > 0
  BY <1>2
<1>5. LinkIsUnspent' /\ SweepersFound'
  BY <1>1, <1>2, <1>3, <1>4 DEF AccessInv, LinksKept, LinkIsUnspent, SweepersFound
<1>6. Access!LinkBuysOnePassword'
  BY <1>1, <1>3, <1>4
     DEF AccessInv, LinksKept, Access!LinksHold, Access!LinkBuysOnePassword, Access!Live
<1>7. Access!IndexCoversLinks'
  <2> SUFFICES ASSUME NEW k \in Codes \ overtaken, reset'[k] > 0
               PROVE  k \in index' /\ reset'[k] <= indexLeft'
    BY <1>1 DEF Access!IndexCoversLinks, Access!Live
  <2>1. k \in index /\ reset[k] <= indexLeft
    BY <1>4 DEF AccessInv, LinksKept, Access!LinksHold, Access!IndexCoversLinks, Access!Live
  <2>2. QED
    BY <1>1, <1>2, <2>1, AccessConstants
<1>8. QED
  BY <1>5, <1>6, <1>7 DEF LinksKept, Access!LinksHold

LEMMA LinksStep == ASSUME AccessInv, [Access!Next]_accessVars PROVE LinksKept'
<1> USE DEF Access!At, Access!Goto, Access!Finish, Access!Idle, Access!histories, Access!redisLinks
<1>e. entry \in [Handlers -> EntryRecords]
  BY DEF AccessInv, AccessTypes, Access!TypeOK, EntryRecords
<1>1. ASSUME NEW h \in Handlers, Access!LoginStep(h) PROVE LinksKept'
  <2>1. ASSUME NEW p \in Passwords, Access!BeginLogin(h, p) PROVE LinksKept'
    BY <1>e, <2>1, LinksStand DEF Access!BeginLogin
  <2>2. CASE Access!CheckLock(h)
    <3>1. entry'[h].at \in {"idle", "verify"} /\ \A g \in Handlers \ {h} : entry'[g] = entry[g]
      BY <1>e, <2>2 DEF Access!CheckLock, EntryRecords
    <3>2. QED
      BY <2>2, <3>1, LinksStand DEF Access!CheckLock
  <2>3. CASE Access!WrongPassword(h)
    <3>1. entry'[h].at \in {"idle", "lock"} /\ \A g \in Handlers \ {h} : entry'[g] = entry[g]
      BY <1>e, <2>3 DEF Access!WrongPassword, EntryRecords
    <3>2. QED
      BY <2>3, <3>1, LinksStand DEF Access!WrongPassword
  <2>4. CASE Access!RecordLock(h)
    BY <1>e, <2>4, LinksStand DEF Access!RecordLock
  <2>5. CASE Access!RightPassword(h)
    <3>1. PICK stage \in {"rehash", "enter"} : entry' = [entry EXCEPT ![h].at = stage]
      BY <2>5 DEF Access!RightPassword
    <3>2. QED
      BY <1>e, <2>5, <3>1, LinksStand DEF Access!RightPassword
  <2>6. CASE Access!Rehash(h)
    BY <1>e, <2>6, LinksStand DEF Access!Rehash
  <2>7. CASE Access!Enter(h)
    BY <1>e, <2>7, LinksStand DEF Access!Enter
  <2>8. CASE Access!VerifyCode(h)
    BY <1>e, <2>8, LinksStand DEF Access!VerifyCode
  <2>9. QED
    BY <1>1, <2>1, <2>2, <2>3, <2>4, <2>5, <2>6, <2>7, <2>8 DEF Access!LoginStep
<1>2. ASSUME NEW h \in Handlers, Access!ClearFailures(h) \/ Access!Fail(h) PROVE LinksKept'
  BY <1>e, <1>2, LinksStand DEF Access!ClearFailures, Access!Fail
<1>3. ASSUME NEW h \in Handlers, Access!ResetStep(h) PROVE LinksKept'
  BY <1>2, <1>3, BeginResetKeeps, UnindexKeeps, CommitResetKeeps, ReadIndexKeeps, SweepLinksKeeps
     DEF Access!ResetStep
<1>4. CASE UNCHANGED accessVars
  BY <1>4 DEF accessVars, AccessInv, LinksKept, LinkIsUnspent, SweepersFound, Access!LinksHold,
     Access!LinkBuysOnePassword, Access!IndexCoversLinks, Access!Live, Access!Holds
<1>5. ASSUME NEW h \in Handlers, Access!FactorStep(h) PROVE LinksKept'
  <2>1. UNCHANGED <<reset, index, indexLeft, bought, overtaken>>
    BY <1>5 DEF Access!FactorStep, Access!PresentFactor, Access!WrongFactor, Access!RightFactor
  <2>2. /\ entry'[h].at \in {"idle", "judge", "lock"}
        /\ \A g \in Handlers \ {h} : entry'[g] = entry[g]
    BY <1>e, <1>5
       DEF Access!FactorStep, Access!PresentFactor, Access!WrongFactor, Access!RightFactor, EntryRecords
  <2>3. QED
    BY <2>1, <2>2, LinksStand
<1>6. QED
  BY <1>1, <1>2, <1>3, <1>4, <1>5, RequestLinkKeeps, TickKeeps DEF Access!Next
-----------------------------------------------------------------------------
(* The types of the row and of Redis.                                       *)
LEMMA RowStaysTyped ==
    ASSUME AccessInv, [Access!Next]_accessVars
    PROVE  hash' \in Access!Hash /\ active' \subseteq Passwords \cup {Code}
<1> DEFINE Typed == hash' \in Access!Hash /\ active' \subseteq Passwords \cup {Code}
<1>0. hash \in Access!Hash /\ active \subseteq Passwords \cup {Code}
      /\ \A h \in Handlers : EntryKnows(h)
  BY DEF AccessInv, AccessTypes, Access!TypeOK
<1>1. CASE UNCHANGED <<hash, active>>
  BY <1>0, <1>1
<1>2. ASSUME NEW h \in Handlers, Access!Rehash(h) PROVE Typed
  BY <1>0, <1>2 DEF Access!Rehash, Access!Hash, Access!At, EntryKnows
<1>3. ASSUME NEW h \in Handlers, Access!Enter(h) PROVE Typed
  BY <1>0, <1>3 DEF Access!Enter, Access!At, EntryKnows
<1>4. ASSUME NEW h \in Handlers, Access!CommitReset(h) PROVE Typed
  BY <1>0, <1>4 DEF Access!CommitReset, Access!Hash, Access!At, EntryKnows
<1>5. ASSUME NEW h \in Handlers, Access!LoginStep(h) PROVE Typed
  <2>1. CASE Access!Rehash(h) \/ Access!Enter(h)
    BY <1>2, <1>3, <2>1
  <2>2. CASE ~(Access!Rehash(h) \/ Access!Enter(h))
    BY <1>1, <1>5, <2>2
       DEF Access!LoginStep, Access!BeginLogin, Access!CheckLock, Access!WrongPassword,
           Access!RecordLock, Access!RightPassword, Access!VerifyCode
  <2>3. QED
    BY <2>1, <2>2
<1>6. ASSUME NEW h \in Handlers, Access!ResetStep(h) PROVE Typed
  BY <1>1, <1>4, <1>6
     DEF Access!ResetStep, Access!BeginReset, Access!Unindex, Access!ReadIndex,
         Access!SweepLinks, Access!ClearFailures
<1>7. QED
  BY <1>1, <1>5, <1>6
     DEF Access!Next, Access!FactorStep, Access!PresentFactor, Access!WrongFactor,
         Access!RightFactor, Access!Fail, Access!RequestLink, Access!Tick, accessVars

LEMMA LocksStayTyped ==
    ASSUME AccessInv, [Access!Next]_accessVars
    PROVE  locks' \in Access!Counters(EscalationThreshold, EscalationWindow)
<1> DEFINE Typed == locks' \in Access!Counters(EscalationThreshold, EscalationWindow)
<1>0. locks \in [n : 0 .. EscalationThreshold, left : 0 .. EscalationWindow]
  BY DEF AccessInv, AccessTypes, Access!TypeOK, Access!Counters
<1>1. CASE UNCHANGED locks
  BY <1>0, <1>1 DEF Access!Counters
<1>2. ASSUME NEW h \in Handlers, Access!RecordLock(h) PROVE Typed
  <2> DEFINE c == [n |-> locks.n + 1, left |-> IF locks.n = 0 THEN EscalationWindow ELSE locks.left]
  <2>1. c.n \in 1 .. EscalationThreshold + 1 /\ c.left \in 0 .. EscalationWindow
        /\ c \in [n : Nat, left : Nat]
    BY <1>0, AccessConstants
  <2>2. locks' = IF c.n > EscalationThreshold THEN [c EXCEPT !.n = EscalationThreshold] ELSE c
    BY <1>2 DEF Access!RecordLock, Access!IncrWithin, Access!Capped
  <2>3. locks' \in [n : 0 .. EscalationThreshold, left : 0 .. EscalationWindow]
    BY <2>1, <2>2, AccessConstants
  <2>4. QED
    BY <2>3 DEF Access!Counters
<1>3. CASE Access!Tick
  <2>1. locks' = IF locks.left <= 1 THEN Access!Absent ELSE [locks EXCEPT !.left = @ - 1]
    BY <1>3 DEF Access!Tick, Access!Aged
  <2>2. locks' \in [n : 0 .. EscalationThreshold, left : 0 .. EscalationWindow]
    BY <1>0, <2>1, AccessConstants DEF Access!Absent
  <2>3. QED
    BY <2>2 DEF Access!Counters
<1>4. ASSUME NEW h \in Handlers, Access!LoginStep(h) PROVE Typed
  BY <1>1, <1>2, <1>4
     DEF Access!LoginStep, Access!BeginLogin, Access!CheckLock, Access!WrongPassword,
         Access!RightPassword, Access!Rehash, Access!Enter, Access!VerifyCode
<1>5. ASSUME NEW h \in Handlers, Access!ResetStep(h) PROVE Typed
  BY <1>1, <1>5
     DEF Access!ResetStep, Access!BeginReset, Access!Unindex, Access!CommitReset, Access!ReadIndex,
         Access!SweepLinks, Access!ClearFailures
<1>6. QED
  BY <1>1, <1>3, <1>4, <1>5
     DEF Access!Next, Access!FactorStep, Access!PresentFactor, Access!WrongFactor,
         Access!RightFactor, Access!Fail, Access!RequestLink, accessVars

LEMMA LinksStayTyped ==
    ASSUME AccessInv, [Access!Next]_accessVars
    PROVE  /\ reset' \in [Codes -> Access!Unissued .. LinkLife]
           /\ index' \subseteq Codes /\ indexLeft' \in 0 .. LinkLife
           /\ bought' \in [Codes -> 0 .. Cardinality(Handlers)] /\ overtaken' \subseteq Codes
<1> DEFINE Typed == /\ reset' \in [Codes -> Access!Unissued .. LinkLife]
                    /\ index' \subseteq Codes /\ indexLeft' \in 0 .. LinkLife
                    /\ bought' \in [Codes -> 0 .. Cardinality(Handlers)] /\ overtaken' \subseteq Codes
<1>0. /\ reset \in [Codes -> Access!Unissued .. LinkLife]
      /\ index \subseteq Codes /\ indexLeft \in 0 .. LinkLife
      /\ bought \in [Codes -> 0 .. Cardinality(Handlers)] /\ overtaken \subseteq Codes
  BY AccessSets DEF AccessInv, AccessTypes, Access!TypeOK
<1>1. CASE UNCHANGED <<reset, index, indexLeft, bought, overtaken>>
  BY <1>0, <1>1
<1> USE DEF Access!Unissued
<1>2. ASSUME NEW l \in Codes, Access!RequestLink(l) PROVE Typed
  BY <1>0, <1>2, AccessConstants DEF Access!RequestLink
<1>3. CASE Access!Tick
  BY <1>0, <1>3, AccessConstants DEF Access!Tick, Access!Live
<1>4. ASSUME NEW h \in Handlers, Access!ResetStep(h) PROVE Typed
  <2>1. ASSUME NEW l \in Codes, NEW p \in Passwords, Access!BeginReset(h, l, p) PROVE Typed
    BY <1>0, <2>1, AccessConstants DEF Access!BeginReset, Access!histories
  <2>2. CASE Access!Unindex(h)
    BY <1>0, <2>2, AccessConstants DEF Access!Unindex, Access!histories
  <2>3. CASE Access!CommitReset(h)
    BY <1>0, <2>3, CommitResetKeeps DEF Access!CommitReset, Access!redisLinks
  <2>4. CASE Access!SweepLinks(h)
    BY <1>0, <2>4, AccessConstants DEF Access!SweepLinks, Access!histories
  <2>5. QED
    BY <1>1, <1>4, <2>1, <2>2, <2>3, <2>4
       DEF Access!ResetStep, Access!ReadIndex, Access!ClearFailures, Access!redisLinks,
           Access!histories
<1>5. ASSUME NEW h \in Handlers, Access!LoginStep(h) PROVE Typed
  BY <1>1, <1>5
     DEF Access!LoginStep, Access!BeginLogin, Access!CheckLock, Access!WrongPassword, Access!RecordLock,
         Access!RightPassword, Access!Rehash, Access!Enter, Access!VerifyCode,
         Access!redisLinks, Access!histories
<1>6. QED
  BY <1>1, <1>2, <1>3, <1>4, <1>5
     DEF Access!Next, Access!FactorStep, Access!PresentFactor, Access!WrongFactor,
         Access!RightFactor, Access!Fail, accessVars, Access!redisLinks, Access!histories

LEMMA EntriesStayInType ==
    ASSUME AccessInv, [Access!Next]_accessVars
    PROVE  entry' \in [Handlers -> EntryRecords] /\ \A g \in Handlers : EntryKnows(g)'
<1>1. CASE entry' = entry
  BY <1>1 DEF AccessInv, AccessTypes, Access!TypeOK, EntryRecords, EntryKnows
<1>2. QED
  BY <1>1, LoginsStayTyped, ResetsStayTyped
     DEF AccessInv, Access!Next, Access!RequestLink, Access!Tick, accessVars

LEMMA AccessStep == AccessInv /\ [Access!Next]_accessVars => AccessInv'
<1> SUFFICES ASSUME AccessInv, [Access!Next]_accessVars PROVE AccessInv'
  OBVIOUS
<1>1. FailuresCount' /\ LinksKept'
  BY FailuresStep, LinksStep
<1>2. /\ wrong'.n \in Nat /\ wrong'.left \in 0 .. LoginWindow
      /\ crossings' \in Nat /\ again' \in Nat
  BY <1>1 DEF FailuresCount
<1>3. Access!TypeOK'
  BY <1>2, RowStaysTyped, LocksStayTyped, LinksStayTyped, EntriesStayInType, AccessSets
     DEF Access!TypeOK, EntryRecords
<1>4. QED
  BY <1>1, <1>3, EntriesStayInType DEF AccessInv, AccessTypes

(* A lock is not prolonged: of the steps of the counter, one leaves its     *)
(* lifetime, one shortens it, the others end it.                            *)
LEMMA LockStep ==
    (scene = "password" => AccessInv) /\ [MCNext]_allVars => [Access!LocksNotProlonged]_accessVars
<1> SUFFICES ASSUME scene = "password" => AccessInv, [MCNext]_allVars, accessVars' # accessVars,
                    wrong.n >= Threshold, wrong'.n >= Threshold
             PROVE  wrong'.left <= wrong.left
  BY DEF Access!LocksNotProlonged, Access!Locked
<1>1. AccessInv /\ Access!Next
  BY DEF MCNext, allVars
<1>2. wrong \in [n : Nat, left : 0 .. LoginWindow]
  BY <1>1 DEF AccessInv, FailuresCount
<1>3. CASE wrong' = wrong
  BY <1>2, <1>3
<1>4. CASE wrong' = Access!Absent
  BY <1>4, AccessConstants DEF Access!Absent
<1>5. CASE wrong' = Access!IncrWithin(wrong, LoginWindow)
  BY <1>2, <1>5, AccessConstants DEF Access!IncrWithin
<1>6. CASE wrong' = Access!Aged(wrong)
  BY <1>2, <1>4, <1>6, AccessConstants DEF Access!Aged
<1>7. QED
  <2>1. CASE \E h \in Handlers : Access!LoginStep(h)
    BY <1>3, <1>4, <1>5, <2>1
       DEF Access!LoginStep, Access!BeginLogin, Access!CheckLock, Access!WrongPassword, Access!RecordLock,
           Access!RightPassword, Access!Rehash, Access!Enter, Access!VerifyCode, Access!ForgetFailures
  <2>2. CASE \E h \in Handlers : Access!ResetStep(h)
    BY <1>3, <1>4, <2>2
       DEF Access!ResetStep, Access!BeginReset, Access!Unindex, Access!CommitReset, Access!ReadIndex,
           Access!SweepLinks, Access!ClearFailures, Access!ForgetFailures
  <2>3. CASE \E h \in Handlers : Access!FactorStep(h)
    BY <1>3, <1>4, <1>5, <2>3
       DEF Access!FactorStep, Access!PresentFactor, Access!WrongFactor, Access!RightFactor,
           Access!ForgetFailures
  <2>4. QED
    BY <1>1, <1>3, <1>6, <2>1, <2>2, <2>3
       DEF Access!Next, Access!Fail, Access!RequestLink, Access!Tick

(* The invariant of the password: the limit on guesses counts those under   *)
(* way, a window records the second factor's locks and one, a link has one  *)
(* owner at most and is in the index or overtook its sweep.                 *)
THEOREM AccessIsKept == MCSpec => [](scene = "password" => AccessInv)
<1>1. MCInit => (scene = "password" => AccessInv)
  BY AccessInit DEF MCInit
<1>2. (scene = "password" => AccessInv) /\ [MCNext]_allVars => (scene = "password" => AccessInv)'
  BY AccessStep DEF MCNext, allVars, accessVars
<1>3. QED
  BY <1>1, <1>2, PTL DEF MCSpec

(* A reset link sets one password, and revoking all links finds every link  *)
(* that was not issued in its middle (redis-credential-token.store.ts).     *)
THEOREM LinksAreHeld == MCSpec => []LinksHold
<1>1. (scene = "password" => AccessInv) => LinksHold
  BY DEF AccessInv, LinksKept, LinksHold
<1>2. QED
  BY <1>1, AccessIsKept, PTL

(* Guesses pass the threshold by no more than the requests under way less   *)
(* one, passwords and codes together, and a window of failures records one  *)
(* lock and those that a second factor decides at another count             *)
(* (login-with-password.use-case.ts, verify-mfa.use-case.ts:133-139).       *)
THEOREM GuessesAreCounted == MCSpec => []CountsHold
<1>1. ASSUME AccessInv PROVE Access!CountsHold
  <2>1. wrong.n < Threshold + Cardinality(Handlers) /\ wrong.n \in Nat
    BY <1>1, GuessingIsFinite, AccessConstants DEF AccessInv, FailuresCount
  <2>2. crossings <= 1 + again
    BY <1>1 DEF AccessInv, FailuresCount
  <2>3. QED
    BY <1>1, <2>1, <2>2, AccessSets
       DEF AccessInv, AccessTypes, Access!CountsHold, Access!GuessesAreBounded,
           Access!OneLockPerWindow
<1>2. (scene = "password" => AccessInv) => CountsHold
  BY <1>1 DEF CountsHold
<1>3. QED
  BY <1>2, AccessIsKept, PTL

(* A lock ends when it was to end: no guess under way when it fell moves    *)
(* it (INCR, and EXPIRE only for the first).                                *)
THEOREM LocksEndInTime == MCSpec => LockIsNotProlonged
<1>1. QED
  BY LockStep, AccessIsKept, PTL DEF MCSpec, LockIsNotProlonged

-----------------------------------------------------------------------------
(* The second factor                                                        *)

FactorStages ==
    {"idle", "confirm", "activate", "locked", "read", "recordStep", "replace", "clear", "failed",
     "lock"}

Attempts ==
    [at : FactorStages, code : Factor!Totp \cup Factor!RecoveryCodes \cup {None},
     codes : SUBSET Factor!RecoveryCodes, late : BOOLEAN]

Drawn(codes) == \A c \in codes : c.of <= drawn.enrolments

\* The secret that is about to be in force is the one confirmed, or something was in its way.
ActivatesTheSecret(e) ==
    e.at = "activate" =>
        /\ e.code \in Factor!Totp
        /\ row.secret = Factor!NoSecret => "cleared" \in mixed
        /\ row.secret \in {Factor!NoSecret, e.code.of} \/ "replaced" \in mixed

\* A step about to be recorded is above the mark, or its handler was told of another.
RecordsAnAdvance(e) ==
    e.at = "recordStep" => e.code \in Factor!Totp /\ (row.step < e.code.n \/ e.late)

\* The list about to be written is of codes drawn before.
ReplacesWhatItRead(e) ==
    e.at = "replace" =>
        e.code \in Factor!RecoveryCodes /\ e.code.of <= drawn.enrolments /\ Drawn(e.codes)

AttemptKnows(e) == ActivatesTheSecret(e) /\ RecordsAnAdvance(e) /\ ReplacesWhatItRead(e)

\* Past the check of the lockout, and no failure counted yet.
Guessers == {h \in Handlers : attempt[h].at \in {"read", "recordStep", "replace", "clear", "failed"}}

GuessesCount ==
    /\ failures \in Factor!Counters(Threshold + Cardinality(Handlers), Window)
    /\ failures.n + Cardinality(Guessers) <= Threshold + Cardinality(Handlers) - 1

RowTypes ==
    /\ row \in [enabled : BOOLEAN, secret : Factor!NoSecret .. MaxSecrets,
                codes : SUBSET Factor!RecoveryCodes, step : Factor!NoStep .. MaxStep + Drift]
    /\ drawn \in [secrets : 0 .. MaxSecrets, enrolments : 0 .. MaxEnrolments]
    /\ now \in 1 .. MaxStep
    /\ spent \subseteq Factor!RecoveryCodes

RowKept ==
    /\ Factor!EnabledHasSecret /\ Factor!ConfirmedUnlessReplaced /\ Factor!SpentCodesStaySpent
    /\ Drawn(spent) /\ Drawn(row.codes)

AttemptsKept == attempt \in [Handlers -> Attempts] /\ \A h \in Handlers : AttemptKnows(attempt[h])

FactorInv == RowTypes /\ RowKept /\ AttemptsKept /\ GuessesCount

\* The locks that wrong codes recorded; nothing of the factor reads them.
StrikesTyped == strikes \in [n : 0 .. EscalationThreshold, left : 0 .. StrikeWindow]

LEMMA FactorSets ==
    ASSUME NEW S
    PROVE  (Factor!IsFiniteSet(S) <=> IsFiniteSet(S)) /\ Factor!Cardinality(S) = Cardinality(S)
BY DEF Factor!IsFiniteSet, IsFiniteSet, Factor!Cardinality, Cardinality

LEMMA FactorConstants ==
    /\ RecoveryCount \in Nat \ {0} /\ Threshold \in Nat \ {0} /\ Window \in Nat \ {0}
    /\ MaxSecrets \in Nat \ {0} /\ MaxEnrolments \in Nat \ {0} /\ MaxStep \in Nat \ {0}
    /\ Drift \in Nat /\ IsFiniteSet(Handlers) /\ Cardinality(Handlers) \in Nat
    /\ EscalationThreshold \in Nat \ {0} /\ StrikeWindow \in Nat \ {0}
BY FactorIsGiven, HandlersAssumption, FS_CardinalityType DEF Factor!FactorAssumption

LEMMA GuessersAreFinite ==
    /\ IsFiniteSet(Guessers) /\ Cardinality(Guessers) \in Nat
    /\ Cardinality(Guessers) <= Cardinality(Handlers)
BY FactorConstants, FS_Subset, FS_CardinalityType DEF Guessers

LEMMA FactorInit == Factor!Init => FactorInv
<1> SUFFICES ASSUME Factor!Init PROVE FactorInv
  OBVIOUS
<1> USE FactorConstants DEF Factor!Init, Factor!NoFactor, Factor!NoSecret, Factor!NoStep,
        Factor!Idle, Factor!Absent
<1>1. RowTypes
  BY DEF RowTypes
<1>2. RowKept
  BY DEF RowKept, Drawn, Factor!EnabledHasSecret, Factor!ConfirmedUnlessReplaced,
         Factor!SpentCodesStaySpent
<1>3. AttemptsKept
  BY DEF AttemptsKept, Attempts, FactorStages, AttemptKnows, ActivatesTheSecret, RecordsAnAdvance,
         ReplacesWhatItRead
<1>4. GuessesCount
  <2>1. Cardinality(Guessers) = 0
    BY FS_EmptySet DEF Guessers
  <2>2. QED
    BY <2>1 DEF GuessesCount, Factor!Counters
<1>5. QED
  BY <1>1, <1>2, <1>3, <1>4 DEF FactorInv

-----------------------------------------------------------------------------
(* The guesses: as those at a password.                                     *)
LEMMA GuessesStand ==
    ASSUME FactorInv, failures' = failures, Guessers' \subseteq Guessers
    PROVE  GuessesCount'
<1>1. Cardinality(Guessers') <= Cardinality(Guessers) /\ Cardinality(Guessers') \in Nat
  BY GuessersAreFinite, FS_Subset, FS_CardinalityType
<1>2. failures.n \in Nat
  BY DEF FactorInv, GuessesCount, Factor!Counters
<1>3. QED
  BY <1>1, <1>2, GuessersAreFinite, FactorConstants DEF FactorInv, GuessesCount

LEMMA GuessesForgotten == ASSUME FactorInv, failures' = Factor!Absent PROVE GuessesCount'
<1>1. Cardinality(Guessers') <= Cardinality(Handlers) /\ Cardinality(Guessers') \in Nat
  BY FactorConstants, FS_Subset, FS_CardinalityType DEF Guessers
<1>2. QED
  BY <1>1, FactorConstants DEF GuessesCount, Factor!Absent, Factor!Counters

LEMMA CountFailureCounts ==
    ASSUME FactorInv, NEW h \in Handlers, Factor!CountFailure(h)
    PROVE  GuessesCount'
<1> DEFINE n == failures.n
<1>0. /\ failures \in [n : 0 .. Threshold + Cardinality(Handlers), left : 0 .. Window] /\ n \in Nat
      /\ n + Cardinality(Guessers) <= Threshold + Cardinality(Handlers) - 1
  BY DEF FactorInv, GuessesCount, Factor!Counters
<1>1. /\ failures' = [n |-> n + 1, left |-> IF n = 0 THEN Window ELSE failures.left]
      /\ attempt[h].at = "failed" /\ attempt'[h].at \in {"idle", "lock"}
      /\ \A g \in Handlers \ {h} : attempt'[g] = attempt[g]
  BY DEF FactorInv, AttemptsKept, Attempts, Factor!CountFailure, Factor!IncrWithin, Factor!At,
         Factor!Goto, Factor!Become, Factor!Idle
<1>2. h \in Guessers /\ Guessers' = Guessers \ {h}
  BY <1>1 DEF Guessers
<1>3. Cardinality(Guessers') = Cardinality(Guessers) - 1 /\ Cardinality(Guessers') \in Nat
  BY <1>2, GuessersAreFinite, FS_RemoveElement, FS_CardinalityType
<1>4. failures' \in [n : 0 .. Threshold + Cardinality(Handlers), left : 0 .. Window]
      /\ failures'.n = n + 1
  BY <1>0, <1>1, <1>3, FactorConstants, GuessersAreFinite
<1>5. QED
  BY <1>0, <1>3, <1>4, GuessersAreFinite, FactorConstants DEF GuessesCount, Factor!Counters

LEMMA LockoutCounts ==
    ASSUME FactorInv, NEW h \in Handlers, Factor!CheckLock(h)
    PROVE  GuessesCount'
<1>1. failures' = failures /\ failures.n \in Nat
  BY DEF Factor!CheckLock, FactorInv, GuessesCount, Factor!Counters
<1>2. CASE failures.n >= Threshold
  <2>1. attempt'[h].at = "idle" /\ \A g \in Handlers \ {h} : attempt'[g] = attempt[g]
    BY <1>2 DEF FactorInv, AttemptsKept, Factor!CheckLock, Factor!Become, Factor!Idle
  <2>2. QED
    BY <1>1, <2>1, GuessesStand DEF Guessers
<1>3. CASE ~(failures.n >= Threshold)
  <2>1. Cardinality(Guessers') <= Cardinality(Handlers) /\ Cardinality(Guessers') \in Nat
    BY FactorConstants, FS_Subset, FS_CardinalityType DEF Guessers
  <2>2. QED
    BY <1>1, <1>3, <2>1, FactorConstants DEF FactorInv, GuessesCount
<1>4. QED
  BY <1>2, <1>3
-----------------------------------------------------------------------------
(* A handler that writes no row goes on, knowing what its stage needs.      *)
LEMMA AttemptGoesOn ==
    ASSUME FactorInv, NEW h \in Handlers, NEW e \in Attempts, AttemptKnows(e),
           attempt' = [attempt EXCEPT ![h] = e], GuessesCount',
           UNCHANGED <<row, drawn, now, confirmed, spent, mixed>>
    PROVE  FactorInv'
<1>1. /\ attempt' \in [Handlers -> Attempts] /\ attempt'[h] = e
      /\ \A g \in Handlers \ {h} : attempt'[g] = attempt[g]
  BY DEF FactorInv, AttemptsKept
<1>2. RowTypes' /\ RowKept'
  BY DEF FactorInv, RowTypes, RowKept, Factor!EnabledHasSecret, Factor!ConfirmedUnlessReplaced,
         Factor!SpentCodesStaySpent, Drawn
<1>3. ASSUME NEW g \in Handlers PROVE AttemptKnows(attempt[g])'
  <2>1. AttemptKnows(attempt'[g])
    BY <1>1 DEF FactorInv, AttemptsKept
  <2>2. QED
    BY <2>1 DEF AttemptKnows, ActivatesTheSecret, RecordsAnAdvance, ReplacesWhatItRead, Drawn
<1>4. QED
  BY <1>1, <1>2, <1>3 DEF FactorInv, AttemptsKept

(* One that ends, or waits its turn, needs nothing.                         *)
LEMMA AttemptMovesOn ==
    ASSUME FactorInv, NEW h \in Handlers, NEW stage \in FactorStages \ {"activate", "recordStep", "replace"},
           NEW e \in {Factor!Idle, attempt[h]}, GuessesCount',
           attempt' = [attempt EXCEPT ![h] = [e EXCEPT !.at = stage]],
           UNCHANGED <<row, drawn, now, confirmed, spent, mixed>>
    PROVE  FactorInv'
<1>0. Factor!Idle \in Attempts
  BY DEF Attempts, Factor!Idle, FactorStages
<1>1. e \in Attempts
  BY <1>0 DEF FactorInv, AttemptsKept
<1> DEFINE m == [e EXCEPT !.at = stage]
<1>2. m \in Attempts /\ m.at = stage
  BY <1>1 DEF Attempts
<1>3. attempt' = [attempt EXCEPT ![h] = m]
  OBVIOUS
<1> HIDE DEF m
<1>4. AttemptKnows(m)
  BY <1>2 DEF AttemptKnows, ActivatesTheSecret, RecordsAnAdvance, ReplacesWhatItRead
<1>5. QED
  BY <1>2, <1>3, <1>4, AttemptGoesOn

LEMMA AttemptEnds ==
    ASSUME FactorInv, NEW h \in Handlers, GuessesCount',
           attempt' = [attempt EXCEPT ![h] = Factor!Idle],
           UNCHANGED <<row, drawn, now, confirmed, spent, mixed>>
    PROVE  FactorInv'
<1>1. Factor!Idle \in Attempts /\ AttemptKnows(Factor!Idle)
  BY DEF Attempts, Factor!Idle, FactorStages, AttemptKnows, ActivatesTheSecret, RecordsAnAdvance,
         ReplacesWhatItRead
<1>2. QED
  BY <1>1, AttemptGoesOn

(* The guesses under way when a handler that is not one of them moves on to *)
(* a stage that is not, or when one of them moves.                          *)
LEMMA GuesserMoves ==
    ASSUME FactorInv, NEW h \in Handlers, NEW e, attempt' = [attempt EXCEPT ![h] = e],
           failures' = failures,
           h \in Guessers \/ e.at \notin {"read", "recordStep", "replace", "clear", "failed"}
    PROVE  GuessesCount'
<1>1. attempt'[h] = e /\ \A g \in Handlers \ {h} : attempt'[g] = attempt[g]
  BY DEF FactorInv, AttemptsKept
<1>2. QED
  BY <1>1, GuessesStand DEF Guessers

-----------------------------------------------------------------------------
LEMMA PresentKeeps ==
    ASSUME FactorInv, NEW h \in Handlers, Factor!Present(h) PROVE FactorInv'
<1>1. PICK stage \in {"confirm", "locked"} : attempt' = [attempt EXCEPT ![h] = [attempt[h] EXCEPT !.at = stage]]
  BY DEF Factor!Present, Factor!Goto, Factor!Become
<1>2. [attempt[h] EXCEPT !.at = stage].at = stage
  BY DEF FactorInv, AttemptsKept, Attempts
<1>3. GuessesCount'
  BY <1>1, <1>2, GuesserMoves DEF Factor!Present
<1>4. QED
  BY <1>1, <1>3, AttemptMovesOn DEF Factor!Present, Factor!histories, FactorStages

LEMMA ConfirmKeeps ==
    ASSUME FactorInv, NEW h \in Handlers, NEW code \in Factor!Totp \cup Factor!RecoveryCodes,
           Factor!Confirm(h, code)
    PROVE  FactorInv'
<1>1. /\ failures' = failures /\ UNCHANGED <<row, drawn, now, confirmed, spent, mixed>>
  BY DEF Factor!Confirm, Factor!histories
<1>2. CASE attempt' = [attempt EXCEPT ![h] = Factor!Idle]
  BY <1>1, <1>2, GuesserMoves, AttemptEnds DEF Factor!Idle
<1>3. CASE attempt' # [attempt EXCEPT ![h] = Factor!Idle]
  <2> DEFINE e == [Factor!Idle EXCEPT !.at = "activate", !.code = code]
  <2>1. /\ row.secret # Factor!NoSecret /\ Factor!ValidTotp(code, row.secret, row.step)
        /\ attempt' = [attempt EXCEPT ![h] = e]
    BY <1>3 DEF Factor!Confirm, Factor!Become
  <2>2. code.kind = "totp" /\ code.of = row.secret
    BY <2>1 DEF Factor!ValidTotp, Factor!InDrift
  <2>3. code \in Factor!Totp
    BY <2>2 DEF Factor!Totp, Factor!RecoveryCodes
  <2>4. e \in Attempts /\ e.at = "activate" /\ e.code = code
    BY DEF Attempts, Factor!Idle, FactorStages
  <2> HIDE DEF e
  <2>5. AttemptKnows(e)
    BY <2>1, <2>2, <2>3, <2>4
       DEF AttemptKnows, ActivatesTheSecret, RecordsAnAdvance, ReplacesWhatItRead
  <2>6. GuessesCount'
    BY <1>1, <2>1, <2>4, GuesserMoves
  <2>7. QED
    BY <1>1, <2>1, <2>4, <2>5, <2>6, AttemptGoesOn
<1>4. QED
  BY <1>2, <1>3

LEMMA LockoutKeeps ==
    ASSUME FactorInv, NEW h \in Handlers, Factor!CheckLock(h) PROVE FactorInv'
<1>1. UNCHANGED <<row, drawn, now, confirmed, spent, mixed>>
  BY DEF Factor!CheckLock, Factor!histories
<1>2. CASE attempt' = [attempt EXCEPT ![h] = Factor!Idle]
  BY <1>1, <1>2, LockoutCounts, AttemptEnds
<1>3. CASE attempt' = [attempt EXCEPT ![h] = [attempt[h] EXCEPT !.at = "read"]]
  BY <1>1, <1>3, LockoutCounts, AttemptMovesOn DEF FactorStages
<1>4. QED
  BY <1>2, <1>3 DEF Factor!CheckLock, Factor!Become, Factor!Goto

LEMMA JudgeKeeps ==
    ASSUME FactorInv, NEW h \in Handlers, NEW code \in Factor!Totp \cup Factor!RecoveryCodes,
           Factor!Judge(h, code)
    PROVE  FactorInv'
<1>1. /\ attempt[h].at = "read" /\ failures' = failures
      /\ UNCHANGED <<row, drawn, now, confirmed, spent, mixed>>
  BY DEF Factor!Judge, Factor!histories, Factor!At
<1>2. h \in Guessers
  BY <1>1 DEF Guessers
<1>3. CASE attempt' = [attempt EXCEPT ![h] = Factor!Idle]
  BY <1>1, <1>2, <1>3, GuesserMoves, AttemptEnds
<1>4. CASE attempt' = [attempt EXCEPT ![h] = [Factor!Idle EXCEPT !.at = "failed"]]
  BY <1>1, <1>2, <1>4, GuesserMoves, AttemptMovesOn DEF FactorStages
<1>5. CASE /\ Factor!ValidTotp(code, row.secret, row.step)
           /\ attempt' = [attempt EXCEPT ![h] = [Factor!Idle EXCEPT !.at = "recordStep", !.code = code]]
  <2> DEFINE e == [Factor!Idle EXCEPT !.at = "recordStep", !.code = code]
  <2>1. code.kind = "totp" /\ row.step < code.n
    BY <1>5 DEF Factor!ValidTotp, Factor!InDrift, FactorInv, RowTypes, Factor!Totp,
                Factor!RecoveryCodes, Factor!NoStep
  <2>2. code \in Factor!Totp
    BY <2>1 DEF Factor!Totp, Factor!RecoveryCodes
  <2>3. e \in Attempts /\ e.at = "recordStep" /\ e.code = code
    BY DEF Attempts, Factor!Idle, FactorStages
  <2> HIDE DEF e
  <2>4. AttemptKnows(e)
    BY <2>1, <2>2, <2>3 DEF AttemptKnows, ActivatesTheSecret, RecordsAnAdvance, ReplacesWhatItRead
  <2>5. attempt' = [attempt EXCEPT ![h] = e]
    BY <1>5 DEF e
  <2>6. QED
    BY <1>1, <1>2, <2>3, <2>4, <2>5, GuesserMoves, AttemptGoesOn
<1>6. CASE /\ code \in row.codes
           /\ attempt' = [attempt EXCEPT ![h] = [Factor!Idle EXCEPT !.at = "replace", !.code = code,
                                                                    !.codes = row.codes]]
  <2> DEFINE e == [Factor!Idle EXCEPT !.at = "replace", !.code = code, !.codes = row.codes]
  <2>1. row.codes \in SUBSET Factor!RecoveryCodes /\ Drawn(row.codes)
    BY DEF FactorInv, RowTypes, RowKept
  <2>2. e \in Attempts /\ e.at = "replace" /\ e.code = code /\ e.codes = row.codes
    BY <2>1 DEF Attempts, Factor!Idle, FactorStages
  <2>3. code \in Factor!RecoveryCodes /\ code.of <= drawn.enrolments
    BY <1>6, <2>1 DEF Drawn
  <2> HIDE DEF e
  <2>4. AttemptKnows(e)
    BY <2>1, <2>2, <2>3 DEF AttemptKnows, ActivatesTheSecret, RecordsAnAdvance, ReplacesWhatItRead
  <2>5. attempt' = [attempt EXCEPT ![h] = e]
    BY <1>6 DEF e
  <2>6. QED
    BY <1>1, <1>2, <2>2, <2>4, <2>5, GuesserMoves, AttemptGoesOn
<1>7. ~(Factor!ValidTotp(code, row.secret, row.step) /\ code \in row.codes)
  BY DEF Factor!ValidTotp, Factor!InDrift, Factor!RecoveryCodes, FactorInv, RowTypes
<1>8. QED
  BY <1>3, <1>4, <1>5, <1>6, <1>7 DEF Factor!Judge, Factor!Become
LEMMA OutcomeKeeps ==
    ASSUME FactorInv, NEW h \in Handlers,
           \/ Factor!ClearFailures(h) \/ Factor!CountFailure(h) \/ Factor!RecordLock(h)
           \/ Factor!Fail(h)
    PROVE  FactorInv'
<1>1. UNCHANGED <<row, drawn, now, confirmed, spent, mixed>>
  BY DEF Factor!ClearFailures, Factor!CountFailure, Factor!RecordLock, Factor!Fail, Factor!histories
<1>2. CASE attempt' = [attempt EXCEPT ![h] = Factor!Idle] /\ GuessesCount'
  BY <1>1, <1>2, AttemptEnds
<1>3. CASE Factor!ClearFailures(h)
  BY <1>2, <1>3, GuessesForgotten DEF Factor!ClearFailures, Factor!Become
<1>4. CASE Factor!CountFailure(h)
  <2>1. CASE attempt' = [attempt EXCEPT ![h] = [attempt[h] EXCEPT !.at = "lock"]]
    BY <1>1, <1>4, <2>1, CountFailureCounts, AttemptMovesOn DEF FactorStages
  <2>2. QED
    BY <1>2, <1>4, <2>1, CountFailureCounts DEF Factor!CountFailure, Factor!Goto, Factor!Become
<1>5. CASE Factor!Fail(h)
  <2>1. CASE attempt' = [attempt EXCEPT ![h] = Factor!Idle]
    BY <1>2, <1>5, <2>1, GuesserMoves DEF Factor!Fail, Factor!Idle
  <2>2. CASE /\ attempt[h].at \in {"recordStep", "replace", "clear"}
             /\ attempt' = [attempt EXCEPT ![h] = [Factor!Idle EXCEPT !.at = "failed"]]
    <3>1. h \in Guessers
      BY <2>2 DEF Guessers
    <3>2. QED
      BY <1>1, <1>5, <2>2, <3>1, GuesserMoves, AttemptMovesOn DEF Factor!Fail, FactorStages
  <2>3. QED
    BY <1>5, <2>1, <2>2 DEF Factor!Fail, Factor!Become
<1>6. CASE Factor!RecordLock(h)
  BY <1>2, <1>6, GuesserMoves DEF Factor!RecordLock, Factor!Become, Factor!Idle
<1>7. QED
  BY <1>3, <1>4, <1>5, <1>6

(* A step of the clock touches the counter alone.                           *)
LEMMA ClockKeeps == ASSUME FactorInv, Factor!Tick PROVE FactorInv'
<1>1. /\ UNCHANGED <<row, drawn, attempt, confirmed, spent, mixed>> /\ now' \in 1 .. MaxStep
      /\ failures' = Factor!Aged(failures)
  BY FactorConstants DEF Factor!Tick, Factor!histories, FactorInv, RowTypes
<1>2. GuessesCount'
  <2>1. CASE failures' = Factor!Absent
    BY <2>1, GuessesForgotten
  <2>2. CASE failures' # Factor!Absent
    <3>0. failures \in [n : 0 .. Threshold + Cardinality(Handlers), left : 0 .. Window]
      BY DEF FactorInv, GuessesCount, Factor!Counters
    <3>1. failures' = [failures EXCEPT !.left = @ - 1] /\ failures.left > 1
      BY <1>1, <2>2, <3>0, FactorConstants DEF Factor!Aged
    <3>2. /\ failures' \in [n : 0 .. Threshold + Cardinality(Handlers), left : 0 .. Window]
          /\ failures'.n = failures.n
      BY <3>0, <3>1, FactorConstants
    <3>3. Guessers' = Guessers
      BY <1>1 DEF Guessers
    <3>4. QED
      BY <3>2, <3>3 DEF FactorInv, GuessesCount, Factor!Counters
  <2>3. QED
    BY <2>1, <2>2
<1>3. RowTypes' /\ RowKept' /\ AttemptsKept'
  BY <1>1 DEF FactorInv, RowTypes, RowKept, AttemptsKept, AttemptKnows, ActivatesTheSecret,
     RecordsAnAdvance, ReplacesWhatItRead, Drawn, Factor!EnabledHasSecret,
     Factor!ConfirmedUnlessReplaced, Factor!SpentCodesStaySpent
<1>4. QED
  BY <1>2, <1>3 DEF FactorInv

-----------------------------------------------------------------------------
(* What a write to the row makes of the others: who was about to record a   *)
(* step is told.                                                            *)
LEMMA OthersAreTold ==
    ASSUME FactorInv, NEW h \in Handlers, NEW r \in Attempts, Factor!Written(h, r)
    PROVE  /\ attempt' \in [Handlers -> Attempts] /\ attempt'[h] = r
           /\ \A g \in Handlers \ {h} :
                 /\ attempt'[g].at = attempt[g].at /\ attempt'[g].code = attempt[g].code
                 /\ attempt'[g].codes = attempt[g].codes
                 /\ attempt[g].at = "recordStep" => attempt'[g].late
<1>1. \A g \in Handlers : attempt[g] \in Attempts
  BY DEF FactorInv, AttemptsKept
<1> DEFINE told(g) == [attempt[g] EXCEPT !.late = attempt[g].at = "recordStep"]
<1>2. ASSUME NEW g \in Handlers
      PROVE  /\ told(g) \in Attempts /\ told(g).at = attempt[g].at
             /\ told(g).code = attempt[g].code /\ told(g).codes = attempt[g].codes
             /\ attempt[g].at = "recordStep" => told(g).late
  BY <1>1 DEF Attempts
<1>3. attempt' = [g \in Handlers |-> IF g = h THEN r ELSE told(g)]
  BY DEF Factor!Written
<1> HIDE DEF told
<1>4. QED
  BY <1>2, <1>3

(* A secret that is replaced or removed is told of to whoever confirms it.  *)
LEMMA EnrolKeeps == ASSUME FactorInv, Factor!Enrol PROVE FactorInv'
<1> DEFINE n == drawn.secrets + 1
<1>0. /\ row \in [enabled : BOOLEAN, secret : Factor!NoSecret .. MaxSecrets,
                  codes : SUBSET Factor!RecoveryCodes, step : Factor!NoStep .. MaxStep + Drift]
      /\ drawn \in [secrets : 0 .. MaxSecrets, enrolments : 0 .. MaxEnrolments]
  BY DEF FactorInv, RowTypes
<1>1. /\ drawn.secrets < MaxSecrets /\ drawn' = [drawn EXCEPT !.secrets = n]
      /\ row' = [row EXCEPT !.secret = drawn'.secrets]
      /\ mixed' = mixed \cup (IF row.enabled \/ Factor!Activating THEN {"replaced"} ELSE {})
      /\ UNCHANGED <<now, failures, attempt, confirmed, spent>>
  BY DEF Factor!Enrol
<1>2. /\ drawn' \in [secrets : 0 .. MaxSecrets, enrolments : 0 .. MaxEnrolments]
      /\ drawn'.secrets = n /\ n \in 1 .. MaxSecrets /\ drawn'.enrolments = drawn.enrolments
  BY <1>0, <1>1, FactorConstants
<1>3. /\ row' \in [enabled : BOOLEAN, secret : Factor!NoSecret .. MaxSecrets,
                  codes : SUBSET Factor!RecoveryCodes, step : Factor!NoStep .. MaxStep + Drift]
      /\ row'.enabled = row.enabled /\ row'.secret = n /\ row'.codes = row.codes
      /\ row'.step = row.step
  BY <1>0, <1>1, <1>2, FactorConstants DEF Factor!NoSecret, Factor!NoStep
<1> HIDE DEF n
<1>4. RowTypes'
  BY <1>1, <1>2, <1>3 DEF FactorInv, RowTypes
<1>5. row'.secret # Factor!NoSecret
  BY <1>2, <1>3 DEF Factor!NoSecret
<1>6. RowKept'
  <2>1. Factor!EnabledHasSecret'
    BY <1>5 DEF Factor!EnabledHasSecret
  <2>2. Factor!ConfirmedUnlessReplaced'
    BY <1>1, <1>3 DEF Factor!ConfirmedUnlessReplaced
  <2>3. Factor!SpentCodesStaySpent' /\ Drawn(spent)' /\ Drawn(row.codes)'
    BY <1>1, <1>2, <1>3 DEF FactorInv, RowKept, Factor!SpentCodesStaySpent, Drawn
  <2>4. QED
    BY <2>1, <2>2, <2>3 DEF RowKept
<1>7. AttemptsKept'
  <2>1. ASSUME NEW h \in Handlers PROVE AttemptKnows(attempt[h])'
    <3>1. attempt[h].at = "activate" => "replaced" \in mixed'
      BY <1>1 DEF Factor!Activating, Factor!At
    <3>2. AttemptKnows(attempt[h])
      BY DEF FactorInv, AttemptsKept
    <3>3. QED
      BY <1>1, <1>2, <1>3, <1>5, <3>1, <3>2
         DEF AttemptKnows, ActivatesTheSecret, RecordsAnAdvance, ReplacesWhatItRead, Drawn
  <2>2. QED
    BY <1>1, <2>1 DEF FactorInv, AttemptsKept
<1>8. GuessesCount'
  BY <1>1, GuessesStand DEF Guessers
<1>9. QED
  BY <1>4, <1>6, <1>7, <1>8 DEF FactorInv

LEMMA DisableKeeps == ASSUME FactorInv, Factor!Disable PROVE FactorInv'
<1>1. /\ row' = [enabled |-> FALSE, secret |-> Factor!NoSecret, codes |-> {}, step |-> Factor!NoStep]
      /\ mixed' = mixed \cup (IF Factor!Activating THEN {"cleared"} ELSE {})
      /\ UNCHANGED <<drawn, now, failures, attempt, confirmed, spent>>
  BY DEF Factor!Disable, Factor!NoFactor
<1>2. RowTypes'
  BY <1>1, FactorConstants DEF FactorInv, RowTypes, Factor!NoSecret, Factor!NoStep
<1>3. RowKept'
  BY <1>1 DEF FactorInv, RowKept, Factor!EnabledHasSecret, Factor!ConfirmedUnlessReplaced,
     Factor!SpentCodesStaySpent, Drawn
<1>4. AttemptsKept'
  <2>1. ASSUME NEW h \in Handlers PROVE AttemptKnows(attempt[h])'
    <3>1. attempt[h].at = "activate" => "cleared" \in mixed'
      BY <1>1 DEF Factor!Activating, Factor!At
    <3>2. AttemptKnows(attempt[h])
      BY DEF FactorInv, AttemptsKept
    <3>3. \A c \in Factor!Totp : row'.step < c.n
      BY <1>1, FactorConstants DEF Factor!Totp, Factor!NoStep
    <3>4. QED
      BY <1>1, <3>1, <3>2, <3>3
         DEF AttemptKnows, ActivatesTheSecret, RecordsAnAdvance, ReplacesWhatItRead, Drawn
  <2>2. QED
    BY <1>1, <2>1 DEF FactorInv, AttemptsKept
<1>5. GuessesCount'
  BY <1>1, GuessesStand DEF Guessers
<1>6. QED
  BY <1>2, <1>3, <1>4, <1>5 DEF FactorInv
(* A write of the row, as far as those who did not write it are concerned.  *)
LEMMA OthersStillKnow ==
    ASSUME FactorInv, NEW h \in Handlers, NEW r \in Attempts, Factor!Written(h, r), AttemptKnows(r)',
           row'.secret = row.secret, mixed \subseteq mixed', drawn.enrolments \in Nat,
           drawn'.enrolments \in Nat, drawn'.enrolments >= drawn.enrolments
    PROVE  AttemptsKept'
<1>1. /\ attempt' \in [Handlers -> Attempts] /\ attempt'[h] = r
      /\ \A g \in Handlers \ {h} :
            /\ attempt'[g].at = attempt[g].at /\ attempt'[g].code = attempt[g].code
            /\ attempt'[g].codes = attempt[g].codes
            /\ attempt[g].at = "recordStep" => attempt'[g].late
  BY OthersAreTold
<1>2. ASSUME NEW g \in Handlers PROVE AttemptKnows(attempt[g])'
  <2>1. CASE g = h
    <3>1. attempt'[g] = r
      BY <1>1, <2>1
    <3>2. QED
      BY <3>1 DEF AttemptKnows, ActivatesTheSecret, RecordsAnAdvance, ReplacesWhatItRead, Drawn
  <2>2. CASE g # h
    <3>1. AttemptKnows(attempt[g]) /\ attempt[g] \in Attempts
      BY DEF FactorInv, AttemptsKept
    <3>2. ActivatesTheSecret(attempt[g])'
      BY <1>1, <2>2, <3>1 DEF AttemptKnows, ActivatesTheSecret
    <3>3. RecordsAnAdvance(attempt[g])'
      BY <1>1, <2>2, <3>1 DEF AttemptKnows, RecordsAnAdvance
    <3>4. ReplacesWhatItRead(attempt[g])'
      <4>1. \A c \in Factor!RecoveryCodes :
                c.of \in Nat /\ (c.of <= drawn.enrolments => c.of <= drawn'.enrolments)
        BY DEF Factor!RecoveryCodes
      <4>2. attempt[g].codes \subseteq Factor!RecoveryCodes
        BY <3>1 DEF Attempts
      <4>3. QED
        BY <1>1, <2>2, <3>1, <4>1, <4>2 DEF AttemptKnows, ReplacesWhatItRead, Drawn
    <3>5. QED
      BY <3>2, <3>3, <3>4 DEF AttemptKnows
  <2>3. QED
    BY <2>1, <2>2
<1>3. QED
  BY <1>1, <1>2 DEF AttemptsKept

\* A handler that is done with the row, and knows nothing of it any more.
LEMMA DoneWithTheRow ==
    ASSUME NEW stage \in {"idle", "clear"}
    PROVE  /\ [Factor!Idle EXCEPT !.at = stage] \in Attempts
           /\ [Factor!Idle EXCEPT !.at = stage].at = stage
           /\ AttemptKnows([Factor!Idle EXCEPT !.at = stage])'
<1> DEFINE r == [Factor!Idle EXCEPT !.at = stage]
<1>1. r \in Attempts /\ r.at = stage
  BY DEF Factor!Idle, Attempts, FactorStages
<1> HIDE DEF r
<1>2. AttemptKnows(r)'
  BY <1>1 DEF AttemptKnows, ActivatesTheSecret, RecordsAnAdvance, ReplacesWhatItRead
<1>3. QED
  BY <1>1, <1>2 DEF r

LEMMA ActivateKeeps ==
    ASSUME FactorInv, NEW h \in Handlers, Factor!Activate(h) PROVE FactorInv'
<1> DEFINE code == attempt[h].code
           n == drawn.enrolments + 1
           fresh == {c \in Factor!RecoveryCodes : c.of = n}
           idle == Factor!Idle
<1>0. /\ row \in [enabled : BOOLEAN, secret : Factor!NoSecret .. MaxSecrets,
                  codes : SUBSET Factor!RecoveryCodes, step : Factor!NoStep .. MaxStep + Drift]
      /\ drawn \in [secrets : 0 .. MaxSecrets, enrolments : 0 .. MaxEnrolments]
  BY DEF FactorInv, RowTypes
<1>1. /\ attempt[h].at = "activate" /\ drawn.enrolments < MaxEnrolments
      /\ drawn' = [drawn EXCEPT !.enrolments = n]
      /\ row' = [row EXCEPT !.enabled = TRUE, !.step = code.n,
                            !.codes = {c \in Factor!RecoveryCodes : c.of = drawn'.enrolments}]
      /\ confirmed' = confirmed \cup {code.of} /\ Factor!Written(h, Factor!Idle)
      /\ UNCHANGED <<now, failures, spent, mixed>>
  BY DEF Factor!Activate, Factor!At
<1>2. /\ drawn' \in [secrets : 0 .. MaxSecrets, enrolments : 0 .. MaxEnrolments]
      /\ drawn'.enrolments = n /\ n \in 1 .. MaxEnrolments /\ drawn.enrolments \in Nat
  BY <1>0, <1>1, FactorConstants
<1>3. ActivatesTheSecret(attempt[h]) /\ code \in Factor!Totp
  BY <1>1 DEF FactorInv, AttemptsKept, AttemptKnows, ActivatesTheSecret
<1>4. code.n \in Factor!NoStep .. MaxStep + Drift
  BY <1>3, FactorConstants DEF Factor!Totp, Factor!NoStep
<1>5. fresh \in SUBSET Factor!RecoveryCodes
      /\ row' = [row EXCEPT !.enabled = TRUE, !.step = code.n, !.codes = fresh]
  BY <1>1, <1>2
<1> HIDE DEF code, fresh
<1>6. /\ row' \in [enabled : BOOLEAN, secret : Factor!NoSecret .. MaxSecrets,
                  codes : SUBSET Factor!RecoveryCodes, step : Factor!NoStep .. MaxStep + Drift]
      /\ row'.enabled = TRUE /\ row'.secret = row.secret /\ row'.codes = fresh
  BY <1>0, <1>4, <1>5
<1>7. RowTypes'
  BY <1>1, <1>2, <1>6 DEF FactorInv, RowTypes
<1>m. /\ spent' = spent /\ mixed' = mixed /\ drawn'.enrolments = n /\ n \in Nat
      /\ drawn.enrolments \in Nat /\ n > drawn.enrolments
  BY <1>1, <1>2, FactorConstants
<1> HIDE DEF n
<1>8. Drawn(spent)' /\ Drawn(row.codes)'
  <2>1. \A c \in spent : c.of \in Nat /\ c.of <= drawn.enrolments
    BY DEF FactorInv, RowTypes, RowKept, Drawn, Factor!RecoveryCodes
  <2>2. \A c \in fresh : c.of = n
    BY DEF fresh
  <2>3. QED
    BY <1>m, <1>6, <2>1, <2>2 DEF Drawn
<1>9. Factor!SpentCodesStaySpent'
  <2>1. spent \cap fresh = {}
    <3>1. \A c \in spent : c.of # n
      BY <1>m DEF FactorInv, RowTypes, RowKept, Drawn, Factor!RecoveryCodes
    <3>2. QED
      BY <3>1 DEF fresh
  <2>2. QED
    BY <1>1, <1>6, <2>1 DEF Factor!SpentCodesStaySpent
<1>10. Factor!EnabledHasSecret' /\ Factor!ConfirmedUnlessReplaced'
  BY <1>1, <1>3, <1>6
     DEF ActivatesTheSecret, code, Factor!EnabledHasSecret, Factor!ConfirmedUnlessReplaced
<1>11. idle \in Attempts /\ idle.at = "idle" /\ AttemptKnows(idle)'
  BY DEF Factor!Idle, Attempts, FactorStages, AttemptKnows, ActivatesTheSecret, RecordsAnAdvance,
         ReplacesWhatItRead
<1>i. Factor!Written(h, idle)
  BY <1>1
<1> HIDE DEF idle
<1>12. AttemptsKept'
  <2>1. /\ row'.secret = row.secret /\ mixed \subseteq mixed' /\ drawn'.enrolments \in Nat
        /\ drawn'.enrolments >= drawn.enrolments
    BY <1>m, <1>6
  <2>2. QED
    BY <1>m, <1>11, <1>i, <2>1, OthersStillKnow
<1>13. GuessesCount'
  BY <1>1, <1>11, <1>i, OthersAreTold, GuessesStand DEF Guessers
<1>14. QED
  BY <1>7, <1>8, <1>9, <1>10, <1>12, <1>13 DEF FactorInv, RowKept

(* The mark goes up or stays.                                               *)
LEMMA RecordStepKeeps ==
    ASSUME FactorInv, NEW h \in Handlers, Factor!RecordStep(h)
    PROVE  FactorInv' /\ row'.step >= row.step
<1> DEFINE done == [Factor!Idle EXCEPT !.at = "clear"]
           step == Factor!Advanced(row.step, attempt[h].code.n)
<1>0. /\ row \in [enabled : BOOLEAN, secret : Factor!NoSecret .. MaxSecrets,
                  codes : SUBSET Factor!RecoveryCodes, step : Factor!NoStep .. MaxStep + Drift]
      /\ drawn \in [secrets : 0 .. MaxSecrets, enrolments : 0 .. MaxEnrolments]
  BY DEF FactorInv, RowTypes
<1>1. /\ attempt[h].at = "recordStep" /\ row' = [row EXCEPT !.step = step]
      /\ Factor!Written(h, done)
      /\ UNCHANGED <<drawn, now, failures, confirmed, spent, mixed>>
  BY DEF Factor!RecordStep, Factor!At
<1>2. step \in Factor!NoStep .. MaxStep + Drift /\ step >= row.step
  <2>1. attempt[h].code \in Factor!Totp
    BY <1>1 DEF FactorInv, AttemptsKept, AttemptKnows, RecordsAnAdvance
  <2>2. QED
    BY <1>0, <2>1, FactorConstants DEF Factor!Totp, Factor!NoStep, Factor!Advanced
<1> HIDE DEF step
<1>3. /\ row' \in [enabled : BOOLEAN, secret : Factor!NoSecret .. MaxSecrets,
                  codes : SUBSET Factor!RecoveryCodes, step : Factor!NoStep .. MaxStep + Drift]
      /\ row'.enabled = row.enabled /\ row'.secret = row.secret /\ row'.codes = row.codes
      /\ row'.step = step
  BY <1>0, <1>1, <1>2
<1>4. RowTypes' /\ RowKept'
  BY <1>1, <1>3 DEF FactorInv, RowTypes, RowKept, Drawn, Factor!EnabledHasSecret,
     Factor!ConfirmedUnlessReplaced, Factor!SpentCodesStaySpent
<1>5. done \in Attempts /\ done.at = "clear" /\ AttemptKnows(done)'
  BY DoneWithTheRow
<1> HIDE DEF done
<1>6. AttemptsKept'
  BY <1>0, <1>1, <1>3, <1>5, OthersStillKnow
<1>7. GuessesCount'
  BY <1>1, <1>5, OthersAreTold, GuessesStand DEF Guessers
<1>8. QED
  BY <1>2, <1>3, <1>4, <1>6, <1>7 DEF FactorInv

(* The list that was read, without the code: it brings back no spent code   *)
(* unless another list was written since.                                   *)
LEMMA ReplaceCodesKeeps ==
    ASSUME FactorInv, NEW h \in Handlers, Factor!ReplaceCodes(h)
    PROVE  FactorInv' /\ row'.step = row.step
<1> DEFINE done == [Factor!Idle EXCEPT !.at = "clear"]
           code == attempt[h].code
           rest == attempt[h].codes \ {code}
<1>0. /\ row \in [enabled : BOOLEAN, secret : Factor!NoSecret .. MaxSecrets,
                  codes : SUBSET Factor!RecoveryCodes, step : Factor!NoStep .. MaxStep + Drift]
      /\ drawn \in [secrets : 0 .. MaxSecrets, enrolments : 0 .. MaxEnrolments]
  BY DEF FactorInv, RowTypes
<1>1. /\ attempt[h].at = "replace" /\ row' = [row EXCEPT !.codes = rest]
      /\ spent' = spent \cup {code} /\ Factor!Written(h, done)
      /\ mixed' = mixed \cup (IF row.codes # attempt[h].codes THEN {"rewritten"} ELSE {})
      /\ UNCHANGED <<drawn, now, failures, confirmed>>
  BY DEF Factor!ReplaceCodes, Factor!Remaining, Factor!At
<1>2. /\ code \in Factor!RecoveryCodes /\ code.of <= drawn.enrolments
      /\ rest \in SUBSET Factor!RecoveryCodes /\ Drawn(rest)
  BY <1>1 DEF FactorInv, AttemptsKept, AttemptKnows, ReplacesWhatItRead, Attempts, Drawn
<1>3. attempt[h].codes = row.codes => rest = row.codes \ {code}
  OBVIOUS
<1> HIDE DEF code, rest
<1>4. /\ row' \in [enabled : BOOLEAN, secret : Factor!NoSecret .. MaxSecrets,
                  codes : SUBSET Factor!RecoveryCodes, step : Factor!NoStep .. MaxStep + Drift]
      /\ row'.enabled = row.enabled /\ row'.secret = row.secret /\ row'.codes = rest
      /\ row'.step = row.step
  BY <1>0, <1>1, <1>2
<1>5. RowTypes'
  BY <1>1, <1>2, <1>4 DEF FactorInv, RowTypes
<1>6. Factor!EnabledHasSecret' /\ Factor!ConfirmedUnlessReplaced'
  BY <1>1, <1>4 DEF FactorInv, RowKept, Factor!EnabledHasSecret, Factor!ConfirmedUnlessReplaced
<1>7. Drawn(spent)' /\ Drawn(row.codes)'
  BY <1>1, <1>2, <1>4 DEF FactorInv, RowKept, Drawn
<1>8. Factor!SpentCodesStaySpent'
  <2>1. CASE attempt[h].codes = row.codes
    BY <1>1, <1>3, <1>4, <2>1 DEF FactorInv, RowKept, Factor!SpentCodesStaySpent
  <2>2. CASE attempt[h].codes # row.codes
    BY <1>1, <2>2 DEF Factor!SpentCodesStaySpent
  <2>3. QED
    BY <2>1, <2>2
<1>9. done \in Attempts /\ done.at = "clear" /\ AttemptKnows(done)'
  BY DoneWithTheRow
<1> HIDE DEF done
<1>10. AttemptsKept'
  BY <1>0, <1>1, <1>4, <1>9, OthersStillKnow
<1>11. GuessesCount'
  BY <1>1, <1>9, OthersAreTold, GuessesStand DEF Guessers
<1>12. QED
  BY <1>4, <1>5, <1>6, <1>7, <1>8, <1>10, <1>11 DEF FactorInv, RowKept
LEMMA FactorStep == FactorInv /\ [Factor!Next]_factorVars => FactorInv'
<1> SUFFICES ASSUME FactorInv, [Factor!Next]_factorVars PROVE FactorInv'
  OBVIOUS
<1>1. CASE UNCHANGED factorVars
  <2>1. UNCHANGED <<row, drawn, now, failures, attempt, confirmed, spent, mixed>>
    BY <1>1 DEF factorVars
  <2>2. GuessesCount'
    BY <2>1, GuessesStand DEF Guessers
  <2>3. QED
    BY <2>1, <2>2 DEF FactorInv, RowTypes, RowKept, AttemptsKept, AttemptKnows, ActivatesTheSecret,
       RecordsAnAdvance, ReplacesWhatItRead, Drawn, Factor!EnabledHasSecret,
       Factor!ConfirmedUnlessReplaced, Factor!SpentCodesStaySpent
<1>2. CASE Factor!Next
  BY <1>2, EnrolKeeps, DisableKeeps, ClockKeeps, PresentKeeps, ConfirmKeeps, ActivateKeeps, LockoutKeeps,
     JudgeKeeps, RecordStepKeeps, ReplaceCodesKeeps, OutcomeKeeps
     DEF Factor!Next
<1>3. QED
  BY <1>1, <1>2

(* The mark falls only with the factor, or with a new enrolment.            *)
LEMMA MarkStep == FactorInv /\ Factor!Next => Factor!StepAdvances
<1> SUFFICES ASSUME FactorInv, Factor!Next PROVE Factor!StepAdvances
  OBVIOUS
<1>0. row.step \in Int /\ drawn.enrolments \in Nat
  BY FactorConstants DEF FactorInv, RowTypes, Factor!NoStep
<1>i. row'.step \in Int
  BY FactorStep, FactorConstants DEF FactorInv, RowTypes, Factor!NoStep
<1>1. CASE row'.step >= row.step
  BY <1>0, <1>1, <1>i DEF Factor!StepAdvances
<1>2. CASE UNCHANGED row
  BY <1>0, <1>1, <1>2
<1>3. CASE Factor!Enrol
  <2>1. row' = [row EXCEPT !.secret = drawn'.secrets]
    BY <1>3 DEF Factor!Enrol
  <2>2. row'.step = row.step
    BY <2>1 DEF FactorInv, RowTypes
  <2>3. QED
    BY <1>0, <1>1, <2>2
<1>4. CASE Factor!Disable
  BY <1>4 DEF Factor!Disable, Factor!StepAdvances
<1>5. ASSUME NEW h \in Handlers, Factor!Activate(h) PROVE Factor!StepAdvances
  <2>1. drawn' = [drawn EXCEPT !.enrolments = drawn.enrolments + 1]
    BY <1>5 DEF Factor!Activate
  <2>2. drawn'.enrolments = drawn.enrolments + 1
    BY <2>1 DEF FactorInv, RowTypes
  <2>3. QED
    BY <1>0, <2>2 DEF Factor!StepAdvances
<1>6. ASSUME NEW h \in Handlers, Factor!RecordStep(h) \/ Factor!ReplaceCodes(h)
      PROVE  Factor!StepAdvances
  BY <1>0, <1>1, <1>6, RecordStepKeeps, ReplaceCodesKeeps
<1>7. QED
  BY <1>2, <1>3, <1>4, <1>5, <1>6
     DEF Factor!Next, Factor!Tick, Factor!Confirm, Factor!Judge, Factor!Present, Factor!CheckLock,
         Factor!ClearFailures, Factor!CountFailure, Factor!RecordLock, Factor!Fail

(* Who records a step that is not above the mark was told of another.       *)
LEMMA TogetherStep == FactorInv => Factor!TotpServesAgain
<1> SUFFICES ASSUME FactorInv, NEW h \in Handlers, attempt[h].at = "recordStep",
                    attempt[h].code.n <= row.step
             PROVE  attempt[h].late
  BY DEF Factor!TotpServesAgain, Factor!At
<1>1. RecordsAnAdvance(attempt[h])
  BY DEF FactorInv, AttemptsKept, AttemptKnows
<1>2. attempt[h].code \in Factor!Totp /\ (row.step < attempt[h].code.n \/ attempt[h].late)
  BY <1>1 DEF RecordsAnAdvance
<1>3. attempt[h].code.n \in Int /\ row.step \in Int
  BY <1>2, FactorConstants DEF Factor!Totp, FactorInv, RowTypes, Factor!NoStep
<1>4. ~(row.step < attempt[h].code.n)
  BY <1>3
<1>5. QED
  BY <1>2, <1>4

LEMMA RunOfFactor == [MCNext]_allVars => [Factor!Next]_factorVars
BY DEF MCNext, allVars, factorVars

(* The locks are counted to where they escalate, and age with the clock.    *)
LEMMA StrikesStayTyped == ASSUME StrikesTyped, [Factor!Next]_factorVars PROVE StrikesTyped'
<1>1. CASE UNCHANGED strikes
  BY <1>1 DEF StrikesTyped
<1>2. ASSUME NEW h \in Handlers, Factor!RecordLock(h) PROVE StrikesTyped'
  <2> DEFINE c == [n |-> strikes.n + 1, left |-> IF strikes.n = 0 THEN StrikeWindow ELSE strikes.left]
  <2>1. c.n \in 1 .. EscalationThreshold + 1 /\ c.left \in 0 .. StrikeWindow
        /\ c \in [n : Nat, left : Nat]
    BY FactorConstants DEF StrikesTyped
  <2>2. strikes' = IF c.n > EscalationThreshold THEN [c EXCEPT !.n = EscalationThreshold] ELSE c
    BY <1>2 DEF Factor!RecordLock, Factor!IncrWithin, Factor!Capped
  <2>3. QED
    BY <2>1, <2>2, FactorConstants DEF StrikesTyped
<1>3. CASE Factor!Tick
  <2>1. strikes' = IF strikes.left <= 1 THEN Factor!Absent ELSE [strikes EXCEPT !.left = @ - 1]
    BY <1>3 DEF Factor!Tick, Factor!Aged
  <2>2. QED
    BY <2>1, FactorConstants DEF StrikesTyped, Factor!Absent
<1>4. QED
  BY <1>1, <1>2, <1>3
     DEF Factor!Next, Factor!Enrol, Factor!Disable, Factor!Confirm, Factor!Judge, Factor!Present,
         Factor!Activate, Factor!CheckLock, Factor!RecordStep, Factor!ReplaceCodes,
         Factor!ClearFailures, Factor!CountFailure, Factor!Fail, factorVars

(* The invariant of the factor: what a handler about to write has read is   *)
(* still so, or it crossed another in a way that is named.                  *)
THEOREM FactorIsKept == MCSpec => [](FactorInv /\ StrikesTyped)
<1>1. MCInit => FactorInv /\ StrikesTyped
  BY FactorInit, FactorConstants DEF MCInit, StrikesTyped, Factor!Init, Factor!Absent
<1>2. FactorInv /\ StrikesTyped /\ [MCNext]_allVars => (FactorInv /\ StrikesTyped)'
  BY FactorStep, StrikesStayTyped, RunOfFactor
<1>3. QED
  BY <1>1, <1>2, PTL DEF MCSpec

(* A factor that is asked for can be given: its secret is there and was     *)
(* confirmed, but for the crossings that are named; whoever guesses is      *)
(* stopped; a recovery code serves once (enrol-mfa.use-case.ts,             *)
(* verify-mfa.use-case.ts).                                                 *)
THEOREM FactorIsGood == MCSpec => []FactorHolds
<1>1. ASSUME FactorInv, StrikesTyped PROVE Factor!FactorHolds
  <2>1. failures.n <= Threshold + Cardinality(Handlers) - 1
    <3>1. failures.n \in Nat
      BY <1>1 DEF FactorInv, GuessesCount, Factor!Counters
    <3>2. QED
      BY <1>1, <3>1, GuessersAreFinite, FactorConstants DEF FactorInv, GuessesCount
  <2>2. Factor!FactorTypes
    BY <1>1, FactorSets
       DEF FactorInv, RowTypes, GuessesCount, StrikesTyped, Factor!Counters, Factor!FactorTypes
  <2>3. Factor!GuessesAreBounded
    BY <2>1, FactorSets DEF Factor!GuessesAreBounded
  <2>4. QED
    BY <1>1, <2>2, <2>3 DEF FactorInv, RowKept, Factor!FactorHolds
<1>2. FactorInv /\ StrikesTyped => FactorHolds
  BY <1>1 DEF FactorHolds
<1>3. QED
  BY <1>2, FactorIsKept, PTL

(* A step of the clock serves once: the mark only rises within an           *)
(* enrolment, and only requests under way together get past it              *)
(* (recordAcceptedStep of mfa.prisma-repository.ts).                        *)
THEOREM StepsAreServedOnce == MCSpec => StepsServeOnce
<1>1. FactorInv /\ [MCNext]_allVars => [Factor!StepAdvances /\ Factor!TotpServesAgain]_factorVars
  BY MarkStep, TogetherStep, RunOfFactor
<1>2. QED
  BY <1>1, FactorIsKept, PTL DEF MCSpec, StepsServeOnce
=============================================================================
