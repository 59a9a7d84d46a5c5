----------------------------- MODULE RulesProofs -----------------------------
(***************************************************************************)
(* The rules of onboarding and of the pre-checks, the arithmetic of        *)
(* amounts and of local days, for every input and not only for those of a  *)
(* run: a behaviour of MCSpec keeps the input it began with (InputsStay),  *)
(* and of every input like it they hold.  And a document: what its first   *)
(* bytes are read as, and what the scanner says of it (ScanInv: it holds   *)
(* the part of the file whose frames have left the wire, and has told      *)
(* nothing of it before it holds it all).                                  *)
(*                                                                         *)
(* Lists are told by ranks: what comes i-th has i - 1 before it            *)
(* (RanksDiffer, RankedInOrder), and so are the shares of an amount        *)
(* (FirstOnes).  Sums are told by the least number a fact about them fails *)
(* of, of which there is none (LeastOne, UpTo).  A date is the new year's  *)
(* day of its year, the days before its month and its day (FirstOfMonth),  *)
(* in one way (PartsOfADate, DateOfParts).  A zone is any                  *)
(* two offsets of the world's clocks an hour apart at most (IsZone).       *)
(***************************************************************************)
EXTENDS MCGyms, Ranking, FiniteSetTheorems, SequenceTheorems, WellFoundedInduction, TLAPS

(* below[x]: those of a set that are before x, in a strict total order.    *)
StrictOrder(S, below) ==
    /\ below \in [S -> SUBSET S]
    /\ \A x \in S : x \notin below[x]
    /\ \A x, y \in S : x \in below[y] => below[x] \subseteq below[y]
    /\ \A x, y \in S : x = y \/ x \in below[y] \/ y \in below[x]

(* How many are before x tells x from every other.                         *)
RanksTell(S, below) ==
    /\ Cardinality(S) \in Nat
    /\ \A x \in S : Cardinality(below[x]) + 1 \in 1 .. Cardinality(S)
    /\ \A x, y \in S : x \in below[y] => Cardinality(below[x]) < Cardinality(below[y])
    /\ \A x, y \in S : Cardinality(below[x]) = Cardinality(below[y]) => x = y
    /\ \A j \in 1 .. Cardinality(S) : \E x \in S : Cardinality(below[x]) = j - 1

(* Each at the place that the number of those before it tells.             *)
ByRank(S, below, at) ==
    /\ at \in [1 .. Cardinality(S) -> S]
    /\ \A i \in 1 .. Cardinality(S) : Cardinality(below[at[i]]) = i - 1

(* Every member once, each after those before it.                          *)
ListedInOrder(S, below, at) ==
    /\ Cardinality(S) \in Nat /\ at \in [1 .. Cardinality(S) -> S]
    /\ \A i, j \in 1 .. Cardinality(S) : i < j => at[i] \in below[at[j]]
    /\ \A x \in S : \E j \in 1 .. Cardinality(S) : at[j] = x

(* In a strict total order ranks are 0 to n - 1, each had once.            *)
LEMMA RanksDiffer ==
    ASSUME NEW S, IsFiniteSet(S), NEW below, StrictOrder(S, below)
    PROVE  RanksTell(S, below)
<1> USE DEF StrictOrder
<1> DEFINE n == Cardinality(S)
           rank == [p \in S |-> Cardinality(below[p]) + 1]
<1>1. n \in Nat
  BY FS_CardinalityType
<1>2. ASSUME NEW p \in S
      PROVE  /\ IsFiniteSet(below[p]) /\ Cardinality(below[p]) \in Nat
             /\ Cardinality(below[p]) + 1 \in 1 .. n
  <2>1. IsFiniteSet(S \ {p}) /\ Cardinality(S \ {p}) = n - 1
    BY FS_RemoveElement
  <2>2. below[p] \in SUBSET (S \ {p})
    OBVIOUS
  <2>3. IsFiniteSet(below[p]) /\ Cardinality(below[p]) <= n - 1
    BY <2>1, <2>2, FS_Subset
  <2>4. Cardinality(below[p]) \in Nat
    BY <2>3, FS_CardinalityType
  <2>5. QED
    BY <1>1, <2>3, <2>4
<1>3. ASSUME NEW p \in S, NEW q \in S, p \in below[q]
      PROVE  Cardinality(below[p]) < Cardinality(below[q])
  <2>1. below[p] \in SUBSET below[q]
    BY <1>3
  <2>2. p \in below[q] /\ p \notin below[p]
    BY <1>3
  <2>3. Cardinality(below[p]) <= Cardinality(below[q]) /\ Cardinality(below[p]) /= Cardinality(below[q])
    BY <1>2, <2>1, <2>2, FS_Subset
  <2>4. Cardinality(below[p]) \in Nat /\ Cardinality(below[q]) \in Nat
    BY <1>2
  <2>5. QED
    BY <2>3, <2>4
<1>4. ASSUME NEW p \in S, NEW q \in S, Cardinality(below[p]) = Cardinality(below[q])
      PROVE  p = q
  <2>1. Cardinality(below[p]) \in Nat
    BY <1>2
  <2>2. QED
    BY <1>3, <1>4, <2>1
<1>5. rank \in [S -> 1 .. n] /\ \A p \in S : rank[p] = Cardinality(below[p]) + 1
  BY <1>2
<1>6. ASSUME NEW p \in S, NEW q \in S, rank[p] = rank[q]
      PROVE  p = q
  <2>1. Cardinality(below[p]) = Cardinality(below[q])
    <3>1. Cardinality(below[p]) \in Nat /\ Cardinality(below[q]) \in Nat
      BY <1>2
    <3>2. Cardinality(below[p]) + 1 = Cardinality(below[q]) + 1
      BY <1>5, <1>6
    <3>3. QED
      BY <3>1, <3>2
  <2>2. QED
    BY <1>4, <2>1
<1>7. \A j \in 1 .. n : \E p \in S : rank[p] = j
  <2>1. rank \in Injection(S, 1 .. n)
    BY <1>5, <1>6 DEF Injection, IsInjective
  <2>2. IsFiniteSet(1 .. n) /\ Cardinality(1 .. n) = n
    BY <1>1, FS_Interval
  <2>3. rank \in Surjection(S, 1 .. n)
    BY <2>1, <2>2, FS_Injection
  <2>4. QED
    BY <2>3 DEF Surjection
<1>8. ASSUME NEW j \in 1 .. n
      PROVE  \E x \in S : Cardinality(below[x]) = j - 1
  <2>1. PICK x \in S : rank[x] = j
    BY <1>7
  <2>2. Cardinality(below[x]) \in Nat /\ Cardinality(below[x]) + 1 = j
    BY <1>2, <1>5, <2>1
  <2>3. QED
    BY <1>1, <2>2
<1> HIDE DEF rank
<1>9. QED
  BY <1>1, <1>2, <1>3, <1>4, <1>8 DEF RanksTell

(* So whoever lists them by that number lists them in order.               *)
LEMMA RankingSorts ==
    ASSUME NEW S, IsFiniteSet(S), NEW below, StrictOrder(S, below),
           NEW at, ByRank(S, below, at)
    PROVE  ListedInOrder(S, below, at)
<1> USE DEF StrictOrder, ByRank
<1> DEFINE n == Cardinality(S)
           rank == [p \in S |-> Cardinality(below[p])]
<1>1. /\ n \in Nat
      /\ \A x \in S : rank[x] + 1 \in 1 .. n
      /\ \A x, y \in S : x \in below[y] => rank[x] < rank[y]
      /\ \A x, y \in S : rank[x] = rank[y] => x = y
  BY RanksDiffer DEF RanksTell
<1>2. \A x \in S : rank[x] \in Nat
  <2>1. ASSUME NEW x \in S
        PROVE  Cardinality(below[x]) \in Nat
    BY FS_Subset, FS_CardinalityType
  <2>2. QED
    BY <2>1
<1>3. \A j \in 1 .. n : at[j] \in S /\ rank[at[j]] = j - 1
  OBVIOUS
<1>4. at \in [1 .. n -> S]
  OBVIOUS
<1> HIDE DEF rank, n
<1>5. ASSUME NEW i \in 1 .. n, NEW j \in 1 .. n, i < j
      PROVE  at[i] \in below[at[j]]
  <2>1. at[i] \in S /\ at[j] \in S /\ rank[at[i]] = i - 1 /\ rank[at[j]] = j - 1
    BY <1>3
  <2>2. ~(rank[at[j]] < rank[at[i]]) /\ rank[at[i]] /= rank[at[j]]
    BY <1>1, <1>5, <2>1
  <2>3. at[j] \notin below[at[i]] /\ at[i] /= at[j]
    BY <1>1, <2>1, <2>2
  <2>4. QED
    BY <2>1, <2>3
<1>6. ASSUME NEW x \in S
      PROVE  \E j \in 1 .. n : at[j] = x
  <2>1. rank[x] + 1 \in 1 .. n /\ rank[x] = (rank[x] + 1) - 1
    BY <1>1, <1>2
  <2>2. at[rank[x] + 1] \in S /\ rank[at[rank[x] + 1]] = rank[x]
    BY <1>3, <2>1
  <2>3. at[rank[x] + 1] = x
    BY <1>1, <2>2
  <2>4. QED
    BY <2>1, <2>3
<1>7. QED
  BY <1>1, <1>4, <1>5, <1>6 DEF n, ListedInOrder

(* The same of numbers in their own order.                                 *)
LEMMA LessIsAnOrder ==
    ASSUME NEW S \in SUBSET Nat
    PROVE  StrictOrder(S, Less(S))
<1> DEFINE below == Less(S)
<1>1. below \in [S -> SUBSET S] /\ \A x \in S : below[x] = {y \in S : y < x}
  BY DEF Less
<1> HIDE DEF below
<1>2. \A x \in S : x \notin below[x]
  BY <1>1
<1>3. ASSUME NEW x \in S, NEW y \in S, x \in below[y]
      PROVE  below[x] \subseteq below[y]
  <2>1. below[x] = {z \in S : z < x} /\ below[y] = {z \in S : z < y} /\ x < y
    BY <1>1, <1>3
  <2>2. S \subseteq Nat /\ x \in Nat /\ y \in Nat /\ x < y
    BY <2>1
  <2>3. \A z \in S : z < x => z < y
    BY <2>2
  <2>4. QED
    BY <2>1, <2>3
<1>4. ASSUME NEW x \in S, NEW y \in S, x /= y
      PROVE  x \in below[y] \/ y \in below[x]
  <2>1. x < y \/ y < x
    BY <1>4
  <2>2. QED
    BY <1>1, <2>1
<1>5. StrictOrder(S, below)
  BY <1>1, <1>2, <1>3, <1>4 DEF StrictOrder
<1>6. QED
  BY <1>5 DEF below

(* What Ranked makes of an order.                                          *)
LEMMA RankedInOrder ==
    ASSUME NEW S, IsFiniteSet(S), NEW below, StrictOrder(S, below)
    PROVE  ListedInOrder(S, below, Ranked(S, below))
<1> DEFINE n == Cardinality(S)
           at == Ranked(S, below)
<1>1. RanksTell(S, below)
  BY RanksDiffer
<1>2. ASSUME NEW i \in 1 .. n
      PROVE  at[i] \in S /\ Cardinality(below[at[i]]) = i - 1
  <2>1. \E x \in S : Cardinality(below[x]) = i - 1
    BY <1>1 DEF RanksTell
  <2>2. at[i] = CHOOSE x \in S : Cardinality(below[x]) = i - 1
    BY DEF Ranked
  <2>3. QED
    BY <2>1, <2>2
<1>3. at \in [1 .. n -> S]
  BY <1>2 DEF Ranked
<1> HIDE DEF at
<1>4. ByRank(S, below, at)
  BY <1>2, <1>3 DEF ByRank
<1>5. ListedInOrder(S, below, at)
  BY <1>4, RankingSorts
<1>6. QED
  BY <1>5 DEF at

(* There are n numbers from 1 to n.                                        *)
LEMMA CountUpTo ==
    ASSUME NEW n \in Nat
    PROVE  IsFiniteSet(1 .. n) /\ Cardinality(1 .. n) = n
BY FS_Interval

(* What Picked keeps of a list: the members at the places, in their order. *)
LEMMA PickedInOrder ==
    ASSUME NEW n \in Nat, NEW I \in SUBSET (1 .. n)
    PROVE  /\ IsFiniteSet(I) /\ Cardinality(I) \in Nat /\ Cardinality(I) <= n
           /\ Ranked(I, Less(I)) \in [1 .. Cardinality(I) -> I]
           /\ \A i, j \in 1 .. Cardinality(I) :
                 i < j => Ranked(I, Less(I))[i] < Ranked(I, Less(I))[j]
           /\ \A x \in I : \E j \in 1 .. Cardinality(I) : Ranked(I, Less(I))[j] = x
<1> DEFINE at == Ranked(I, Less(I))
<1>1. IsFiniteSet(1 .. n) /\ Cardinality(1 .. n) = n
  BY FS_Interval
<1>2. IsFiniteSet(I) /\ Cardinality(I) <= n /\ Cardinality(I) \in Nat
  BY <1>1, FS_Subset, FS_CardinalityType
<1>3. I \in SUBSET Nat
  OBVIOUS
<1>4. ListedInOrder(I, Less(I), at)
  BY <1>2, <1>3, LessIsAnOrder, RankedInOrder
<1>5. \A x \in I : Less(I)[x] = {y \in I : y < x}
  BY DEF Less
<1> HIDE DEF at
<1>6. at \in [1 .. Cardinality(I) -> I] /\ \A x \in I : \E j \in 1 .. Cardinality(I) : at[j] = x
  BY <1>4 DEF ListedInOrder
<1>7. \A i, j \in 1 .. Cardinality(I) : i < j => at[i] < at[j]
  BY <1>4, <1>5, <1>6 DEF ListedInOrder
<1>8. QED
  BY <1>2, <1>6, <1>7 DEF at

(* What is picked of a list comes from its places, in their order.         *)
LEMMA PickedOf ==
    ASSUME NEW S, NEW s \in Seq(S), NEW I \in SUBSET (DOMAIN s)
    PROVE  LET p == Picked(s, I)
               at == Ranked(I, Less(I))
               c == Cardinality(I)
           IN  /\ c \in Nat /\ p \in Seq(S) /\ Len(p) = c /\ DOMAIN p = 1 .. c
               /\ at \in [1 .. c -> I]
               /\ \A i \in 1 .. c : p[i] = s[at[i]]
               /\ \A i, j \in 1 .. c : i < j => at[i] < at[j]
               /\ \A x \in I : \E j \in 1 .. c : at[j] = x
<1> DEFINE n == Len(s)
           c == Cardinality(I)
           at == Ranked(I, Less(I))
           p == Picked(s, I)
<1>1. n \in Nat /\ DOMAIN s = 1 .. n
  OBVIOUS
<1>2. /\ c \in Nat /\ at \in [1 .. c -> I]
      /\ \A i, j \in 1 .. c : i < j => at[i] < at[j]
      /\ \A x \in I : \E j \in 1 .. c : at[j] = x
  BY <1>1, PickedInOrder
<1>3. p = [i \in 1 .. c |-> s[at[i]]]
  BY DEF Picked
<1> HIDE DEF at, c, p
<1>4. p \in [1 .. c -> S]
  BY <1>1, <1>2, <1>3
<1>5. p \in Seq(S) /\ Len(p) = c /\ DOMAIN p = 1 .. c
  BY <1>2, <1>4
<1>6. \A i \in 1 .. c : p[i] = s[at[i]]
  BY <1>3
<1>7. QED
  BY <1>2, <1>5, <1>6 DEF at, c, p

(* The numbers from one to another, in order, are these numbers.           *)
LEMMA NumbersInOrder ==
    ASSUME NEW a \in Nat, NEW b \in Nat, a <= b + 1
    PROVE  /\ Cardinality(a .. b) = b - a + 1 /\ IsFiniteSet(a .. b)
           /\ \A i \in 1 .. b - a + 1 : Ranked(a .. b, Less(a .. b))[i] = a + i - 1
<1> DEFINE S == a .. b
           n == b - a + 1
           below == Less(S)
<1>1. IsFiniteSet(S) /\ Cardinality(S) = n /\ n \in Nat
  <2>1. n \in Nat
    OBVIOUS
  <2>2. IsFiniteSet(S) /\ Cardinality(S) = IF a > b THEN 0 ELSE b - a + 1
    BY FS_Interval
  <2>3. QED
    BY <2>1, <2>2
<1>2. ASSUME NEW x \in S
      PROVE  Cardinality(below[x]) = x - a
  <2>1. below[x] = a .. x - 1
    BY DEF Less
  <2>2. a \in Int /\ x - 1 \in Int
    OBVIOUS
  <2>3. Cardinality(a .. x - 1) = IF a > x - 1 THEN 0 ELSE x - 1 - a + 1
    BY <2>2, FS_Interval
  <2>4. QED
    BY <2>1, <2>3
<1> HIDE DEF below, S
<1>3. ASSUME NEW i \in 1 .. n
      PROVE  Ranked(S, below)[i] = a + i - 1
  <2>1. a + i - 1 \in S /\ Cardinality(below[a + i - 1]) = i - 1
    BY <1>1, <1>2 DEF S
  <2>2. \A x \in S : Cardinality(below[x]) = i - 1 => x = a + i - 1
    BY <1>2 DEF S
  <2>3. Ranked(S, below)[i] = CHOOSE x \in S : Cardinality(below[x]) = i - 1
    BY <1>1 DEF Ranked
  <2>4. QED
    BY <2>1, <2>2, <2>3
<1>4. QED
  BY <1>1, <1>3 DEF S, below

(* A list and another after it.                                            *)
LEMMA Joined ==
    ASSUME NEW S, NEW x \in Seq(S), NEW y \in Seq(S)
    PROVE  /\ x \o y \in Seq(S) /\ Len(x \o y) = Len(x) + Len(y)
           /\ \A k \in 1 .. Len(x) + Len(y) :
                 (x \o y)[k] = IF k <= Len(x) THEN x[k] ELSE y[k - Len(x)]
BY ConcatProperties

(* OnboardingRules has Ranking's operators by another name.                *)
LEMMA RulesRanks ==
    /\ \A S : Rules!Cardinality(S) = Cardinality(S)
    /\ \A s, I : Rules!Picked(s, I) = Picked(s, I)
BY DEF Rules!Cardinality, Cardinality, Rules!Picked, Picked, Rules!Ranked, Ranked, Rules!Less, Less

-----------------------------------------------------------------------------
(* The wizard. *)
WizardSet == {"BUSINESS_IDENTITY", "KYC", "GYM_PROFILE", "PLANS", "PAYOUT", "REVIEW"}

(* The wizard has six steps, each once (steps.ts).                         *)
LEMMA WizardStepsAre ==
    /\ DOMAIN Rules!WizardSteps = 1 .. 6
    /\ Rules!WizardSteps \in Seq(WizardSet) /\ Len(Rules!WizardSteps) = 6
    /\ \A i, j \in 1 .. 6 : Rules!WizardSteps[i] = Rules!WizardSteps[j] => i = j
    /\ \A s \in WizardSet : \E i \in 1 .. 6 : Rules!WizardSteps[i] = s
    /\ IsFiniteSet(WizardSet) /\ Cardinality(WizardSet) = 6
<1> DEFINE W == Rules!WizardSteps
<1>1. W = <<"BUSINESS_IDENTITY", "KYC", "GYM_PROFILE", "PLANS", "PAYOUT", "REVIEW">>
  BY DEF Rules!WizardSteps
<1>2. /\ DOMAIN W = 1 .. 6 /\ W \in Seq(WizardSet) /\ Len(W) = 6
      /\ \A i, j \in 1 .. 6 : W[i] = W[j] => i = j
      /\ \A s \in WizardSet : \E i \in 1 .. 6 : W[i] = s
  BY <1>1 DEF WizardSet
<1> HIDE DEF W
<1>3. W \in Bijection(1 .. 6, WizardSet)
  BY <1>2 DEF Bijection, Injection, Surjection, IsInjective
<1>4. IsFiniteSet(1 .. 6) /\ Cardinality(1 .. 6) = 6
  BY CountUpTo, 6 \in Nat
<1>5. IsFiniteSet(WizardSet) /\ Cardinality(WizardSet) = 6
  BY <1>3, <1>4, FS_Bijection DEF ExistsBijection
<1>6. QED
  BY <1>2, <1>5 DEF W

(* Where in the order of the wizard the members of a set are.              *)
Places(c) == {i \in 1 .. 6 : Rules!WizardSteps[i] \in c}

(* A set of steps has as many places in the wizard as members.             *)
LEMMA WizardPlaces ==
    ASSUME NEW c \in SUBSET WizardSet
    PROVE  Cardinality(Places(c)) = Cardinality(c) /\ IsFiniteSet(c) /\ Cardinality(c) \in 0 .. 6
<1> DEFINE W == Rules!WizardSteps
           f == [i \in Places(c) |-> W[i]]
<1>1. f \in Bijection(Places(c), c)
  <2>1. f \in [Places(c) -> c]
    BY DEF Places
  <2>2. \A i, j \in Places(c) : f[i] = f[j] => i = j
    BY WizardStepsAre DEF Places
  <2>3. \A s \in c : \E i \in Places(c) : f[i] = s
    BY WizardStepsAre DEF Places
  <2> HIDE DEF f
  <2>4. QED
    BY <2>1, <2>2, <2>3 DEF Bijection, Injection, Surjection, IsInjective
<1>2. IsFiniteSet(1 .. 6) /\ Cardinality(1 .. 6) = 6 /\ Places(c) \in SUBSET (1 .. 6)
  BY CountUpTo, 6 \in Nat DEF Places
<1>3. IsFiniteSet(Places(c)) /\ Cardinality(Places(c)) <= 6 /\ Cardinality(Places(c)) \in Nat
  BY <1>2, FS_Subset, FS_CardinalityType
<1>4. IsFiniteSet(c) /\ Cardinality(c) = Cardinality(Places(c))
  BY <1>1, <1>3, FS_Bijection DEF ExistsBijection
<1>5. QED
  BY <1>3, <1>4

(* What progressFrom suggests, and how it lists what is done.              *)
LEMMA WizardSuggests ==
    ASSUME NEW c \in SUBSET WizardSet
    PROVE  /\ Rules!ProgressFrom(c).next = "none" <=> c = WizardSet
           /\ c /= WizardSet => Rules!ProgressFrom(c).next \in WizardSet \ c
           /\ Len(Rules!ProgressFrom(c).completed) = Cardinality(c)
           /\ c = WizardSet => Rules!ProgressFrom(c).completed = Rules!WizardSteps
<1> DEFINE W == Rules!WizardSteps
           open == {i \in DOMAIN W : W[i] \notin c}
           done == {i \in DOMAIN W : W[i] \in c}
           p == Rules!ProgressFrom(c)
<1>0. /\ \A i \in 1 .. 6 : W[i] \in WizardSet
      /\ \A s \in WizardSet : \E i \in 1 .. 6 : W[i] = s
  BY WizardStepsAre, SMTT(30)
<1>1. /\ p.completed = Picked(W, done)
      /\ p.next = IF Picked(W, open) = <<>> THEN "none" ELSE Head(Picked(W, open))
  BY RulesRanks DEF Rules!ProgressFrom, Rules!Filtered
<1>2. done = Places(c) /\ open = (1 .. 6) \ Places(c)
  BY WizardStepsAre DEF Places
<1> HIDE DEF open, done, p, W
<1> DEFINE at(I) == Ranked(I, Less(I))
<1>3. ASSUME NEW I \in SUBSET (1 .. 6)
      PROVE  /\ IsFiniteSet(I) /\ Cardinality(I) \in Nat /\ at(I) \in [1 .. Cardinality(I) -> I]
             /\ \A i, j \in 1 .. Cardinality(I) : i < j => at(I)[i] < at(I)[j]
             /\ Picked(W, I) = [i \in 1 .. Cardinality(I) |-> W[at(I)[i]]]
  BY PickedInOrder DEF Picked
<1> HIDE DEF at
<1>4. ASSUME NEW I \in SUBSET (1 .. 6)
      PROVE  /\ Picked(W, I) \in Seq(WizardSet) /\ Len(Picked(W, I)) = Cardinality(I)
             /\ Picked(W, I) = <<>> <=> I = {}
             /\ I /= {} => \E i \in I : Head(Picked(W, I)) = W[i]
  <2>1. \A i \in 1 .. Cardinality(I) : at(I)[i] \in 1 .. 6 /\ W[at(I)[i]] \in WizardSet
    BY <1>0, <1>3
  <2>2. Picked(W, I) \in Seq(WizardSet) /\ Len(Picked(W, I)) = Cardinality(I)
    BY <1>3, <2>1
  <2>3. Cardinality(I) = 0 <=> I = {}
    BY <1>3, FS_EmptySet
  <2>4. Picked(W, I) = <<>> <=> I = {}
    BY <2>2, <2>3
  <2>5. ASSUME I /= {}
        PROVE  \E i \in I : Head(Picked(W, I)) = W[i]
    <3>1. 1 \in 1 .. Cardinality(I)
      <4>1. Cardinality(I) \in Nat /\ Cardinality(I) /= 0
        BY <1>3, <2>3, <2>5
      <4>2. QED
        BY <4>1
    <3>2. at(I)[1] \in I /\ Picked(W, I)[1] = W[at(I)[1]]
      BY <1>3, <3>1
    <3>3. Head(Picked(W, I)) = Picked(W, I)[1]
      BY <2>2, <2>4, <2>5
    <3>4. QED
      BY <3>2, <3>3
  <2>6. QED
    BY <2>2, <2>4, <2>5
<1>5. open = {} <=> c = WizardSet
  BY <1>0, <1>2 DEF Places, W
<1>6. \A i \in open : W[i] \in WizardSet \ c
  BY <1>0, <1>2 DEF Places, W
<1>7. open \in SUBSET (1 .. 6) /\ done \in SUBSET (1 .. 6)
  BY <1>2 DEF Places
<1>8. p.next = "none" <=> c = WizardSet
  <2>1. "none" \notin WizardSet
    BY DEF WizardSet
  <2>2. QED
    BY <1>1, <1>4, <1>5, <1>6, <1>7, <2>1
<1>9. c /= WizardSet => p.next \in WizardSet \ c
  BY <1>1, <1>4, <1>5, <1>6, <1>7
<1>10. Len(p.completed) = Cardinality(c)
  BY <1>1, <1>2, <1>4, <1>7, WizardPlaces
<1>11. ASSUME c = WizardSet
       PROVE  p.completed = W
  <2>1. done = 1 .. 6
    BY <1>2, <1>11, WizardStepsAre DEF Places, W
  <2>2. Cardinality(1 .. 6) = 6
    BY CountUpTo, 6 \in Nat
  <2>3. /\ at(1 .. 6) \in [1 .. 6 -> 1 .. 6]
        /\ \A i, j \in 1 .. 6 : i < j => at(1 .. 6)[i] < at(1 .. 6)[j]
        /\ Picked(W, 1 .. 6) = [i \in 1 .. 6 |-> W[at(1 .. 6)[i]]]
    BY ZenonT(30), <1>3, <2>2
  <2>4. \A i \in 1 .. 6 : at(1 .. 6)[i] = i
    <3> DEFINE g == at(1 .. 6)
    <3>1. g \in [1 .. 6 -> 1 .. 6] /\ \A i, j \in 1 .. 6 : i < j => g[i] < g[j]
      BY <2>3
    <3> HIDE DEF g
    <3>2. /\ g[1] < g[2] /\ g[2] < g[3] /\ g[3] < g[4] /\ g[4] < g[5] /\ g[5] < g[6]
          /\ g[1] \in 1 .. 6 /\ g[2] \in 1 .. 6 /\ g[3] \in 1 .. 6
          /\ g[4] \in 1 .. 6 /\ g[5] \in 1 .. 6 /\ g[6] \in 1 .. 6
      BY <3>1
    <3>3. g[1] = 1 /\ g[2] = 2 /\ g[3] = 3 /\ g[4] = 4 /\ g[5] = 5 /\ g[6] = 6
      BY <3>2
    <3>4. \A i \in 1 .. 6 : i = 1 \/ i = 2 \/ i = 3 \/ i = 4 \/ i = 5 \/ i = 6
      OBVIOUS
    <3>5. QED
      BY <3>3, <3>4 DEF g
  <2>5. Picked(W, 1 .. 6) = [i \in 1 .. 6 |-> W[i]]
    BY <2>3, <2>4
  <2>6. W = [i \in 1 .. 6 |-> W[i]]
    BY WizardStepsAre DEF W
  <2>7. QED
    BY <1>1, <2>1, <2>5, <2>6
<1>12. QED
  BY <1>8, <1>9, <1>10, <1>11 DEF p, W

(* Following what is suggested adds one step, until all are there.         *)
Followed(done) ==
    IF Rules!ProgressFrom(done).next = "none" THEN done
    ELSE done \union {Rules!ProgressFrom(done).next}

(* Following the wizard adds one step, until there is none to add.         *)
LEMMA FollowingAddsOne ==
    ASSUME NEW c \in SUBSET WizardSet
    PROVE  /\ Followed(c) \in SUBSET WizardSet
           /\ Cardinality(c) < 6 => Cardinality(Followed(c)) = Cardinality(c) + 1
           /\ Cardinality(c) = 6 => c = WizardSet /\ Followed(c) = c
           /\ c = WizardSet => Cardinality(c) = 6
<1>1. IsFiniteSet(c) /\ Cardinality(c) \in 0 .. 6
  BY WizardPlaces
<1>2. Cardinality(c) = 6 <=> c = WizardSet
  BY WizardStepsAre, FS_Subset
<1>3. CASE c = WizardSet
  <2>1. Followed(c) = c
    BY <1>3, WizardSuggests DEF Followed
  <2>2. QED
    BY <1>2, <1>3, <2>1
<1>4. CASE c /= WizardSet
  <2> DEFINE s == Rules!ProgressFrom(c).next
  <2>1. s /= "none" /\ s \in WizardSet \ c
    BY <1>4, WizardSuggests
  <2>2. Followed(c) = c \union {s}
    BY <2>1 DEF Followed
  <2> HIDE DEF s
  <2>3. Cardinality(c \union {s}) = Cardinality(c) + 1
    BY <1>1, <2>1, FS_AddElement
  <2>4. QED
    BY <1>2, <1>4, <2>1, <2>2, <2>3
<1>5. QED
  BY <1>3, <1>4

(* Whatever is done, following the wizard ends at its end (progress.ts).   *)
LEMMA WizardAlwaysLeadsOn ==
    ASSUME NEW c \in SUBSET WizardSet
    PROVE  Rules!WizardLeadsOn(c)
<1> DEFINE W == Rules!WizardSteps
           Led(f) == f = [n \in 0 .. Len(W) |-> IF n = 0 THEN c ELSE Followed(f[n - 1])]
           led == CHOOSE f : Led(f)
           left == Len(W) - Cardinality(c)
<1>1. SUFFICES /\ Rules!ProgressFrom(led[left]).next = "none"
               /\ left > 0 => Rules!ProgressFrom(led[left - 1]).next /= "none"
               /\ Rules!ProgressFrom(led[left]).completed = W
               /\ Len(Rules!ProgressFrom(c).completed) = Cardinality(c)
  BY RulesRanks DEF Rules!WizardLeadsOn, Followed
<1>2. Len(W) = 6
  BY WizardStepsAre
<1> HIDE DEF W
<1>3. \E f : Led(f)
  <2> DEFINE x1 == Followed(c)
             x2 == Followed(x1)
             x3 == Followed(x2)
             x4 == Followed(x3)
             x5 == Followed(x4)
             x6 == Followed(x5)
             f == [n \in 0 .. 6 |-> CASE n = 0 -> c [] n = 1 -> x1 [] n = 2 -> x2 [] n = 3 -> x3
                                      [] n = 4 -> x4 [] n = 5 -> x5 [] n = 6 -> x6]
  <2>1. /\ f[0] = c /\ f[1] = x1 /\ f[2] = x2 /\ f[3] = x3 /\ f[4] = x4 /\ f[5] = x5 /\ f[6] = x6
        /\ f = [n \in 0 .. 6 |-> f[n]]
    OBVIOUS
  <2>2. x1 = Followed(c) /\ x2 = Followed(x1) /\ x3 = Followed(x2) /\ x4 = Followed(x3)
        /\ x5 = Followed(x4) /\ x6 = Followed(x5)
    OBVIOUS
  <2> HIDE DEF f, x1, x2, x3, x4, x5, x6
  <2>3. ASSUME NEW n \in 0 .. 6
        PROVE  f[n] = IF n = 0 THEN c ELSE Followed(f[n - 1])
    <3>1. n = 0 \/ n = 1 \/ n = 2 \/ n = 3 \/ n = 4 \/ n = 5 \/ n = 6
      OBVIOUS
    <3>2. QED
      BY <2>1, <2>2, <3>1
  <2>4. Led(f)
    BY <1>2, <2>1, <2>3
  <2>5. QED
    BY <2>4
<1>4. Led(led)
  BY <1>3
<1> HIDE DEF led
<1>5. led[0] = c /\ \A n \in 0 .. 5 : led[n + 1] = Followed(led[n])
  <2>1. led = [n \in 0 .. 6 |-> IF n = 0 THEN c ELSE Followed(led[n - 1])]
    BY <1>2, <1>4
  <2>2. \A n \in 0 .. 6 : led[n] = IF n = 0 THEN c ELSE Followed(led[n - 1])
    BY <2>1
  <2>3. ASSUME NEW n \in 0 .. 5
        PROVE  led[n + 1] = Followed(led[n])
    <3>1. n + 1 \in 0 .. 6 /\ n + 1 /= 0 /\ (n + 1) - 1 = n
      OBVIOUS
    <3>2. QED
      BY <2>2, <3>1
  <2>4. QED
    BY <2>2, <2>3
<1> HIDE DEF Led
<1> DEFINE Has(n) == /\ led[n] \in SUBSET WizardSet
                     /\ n + Cardinality(c) <= 6 => Cardinality(led[n]) = n + Cardinality(c)
<1>6. Cardinality(c) \in 0 .. 6
  BY WizardPlaces
<1>7. Has(0)
  BY <1>5, <1>6
<1>8. ASSUME NEW n \in 0 .. 5, Has(n)
      PROVE  Has(n + 1)
  <2>1. led[n + 1] = Followed(led[n]) /\ led[n] \in SUBSET WizardSet
    BY <1>5, <1>8
  <2>2. ASSUME n + 1 + Cardinality(c) <= 6
        PROVE  Cardinality(led[n + 1]) = n + 1 + Cardinality(c)
    <3>1. Cardinality(led[n]) = n + Cardinality(c) /\ n + Cardinality(c) < 6
      BY <1>6, <1>8, <2>2
    <3>2. Cardinality(Followed(led[n])) = Cardinality(led[n]) + 1
      BY <2>1, <3>1, FollowingAddsOne
    <3>3. QED
      BY <1>6, <2>1, <3>1, <3>2
  <2>3. QED
    BY <2>1, <2>2, FollowingAddsOne
<1> HIDE DEF Has
<1>9. \A n \in 0 .. 6 : Has(n)
  <2>1. Has(1)
    BY <1>7, <1>8, 0 + 1 = 1
  <2>2. Has(2)
    BY <2>1, <1>8, 1 + 1 = 2
  <2>3. Has(3)
    BY <2>2, <1>8, 2 + 1 = 3
  <2>4. Has(4)
    BY <2>3, <1>8, 3 + 1 = 4
  <2>5. Has(5)
    BY <2>4, <1>8, 4 + 1 = 5
  <2>6. Has(6)
    BY <2>5, <1>8, 5 + 1 = 6
  <2>7. \A n \in 0 .. 6 : n = 0 \/ n = 1 \/ n = 2 \/ n = 3 \/ n = 4 \/ n = 5 \/ n = 6
    OBVIOUS
  <2>8. QED
    BY <1>7, <2>1, <2>2, <2>3, <2>4, <2>5, <2>6, <2>7
<1>10. left \in 0 .. 6 /\ left = 6 - Cardinality(c)
  BY <1>2, <1>6
<1> HIDE DEF left
<1>11. led[left] = WizardSet
  <2>1. led[left] \in SUBSET WizardSet /\ Cardinality(led[left]) = 6
    BY <1>6, <1>9, <1>10 DEF Has
  <2>2. QED
    BY <2>1, FollowingAddsOne
<1>12. ASSUME left > 0
       PROVE  led[left - 1] \in SUBSET WizardSet /\ led[left - 1] /= WizardSet
  <2>1. left - 1 \in 0 .. 6 /\ (left - 1) + Cardinality(c) = 5
    BY <1>6, <1>10, <1>12
  <2>2. led[left - 1] \in SUBSET WizardSet /\ Cardinality(led[left - 1]) = 5
    BY <1>9, <2>1 DEF Has
  <2>3. QED
    BY <2>2, WizardStepsAre
<1>13. QED
  BY <1>11, <1>12, WizardSuggests DEF W

-----------------------------------------------------------------------------
(* The lifecycle. *)
States == {"DRAFT", "SUBMITTED", "UNDER_REVIEW", "INFO_REQUESTED", "APPROVED", "REJECTED",
           "SUSPENDED", "CLOSED"}

(* The transitions of the lifecycle, state by state.                       *)
LEMMA LifecycleTable ==
    /\ Rules!LifecycleStates = States
    /\ Rules!Allowed["DRAFT"] = {"SUBMITTED"}
    /\ Rules!Allowed["SUBMITTED"] = {"UNDER_REVIEW"}
    /\ Rules!Allowed["UNDER_REVIEW"] = {"APPROVED", "REJECTED", "INFO_REQUESTED"}
    /\ Rules!Allowed["INFO_REQUESTED"] = {"SUBMITTED"}
    /\ Rules!Allowed["APPROVED"] = {"SUSPENDED", "CLOSED"}
    /\ Rules!Allowed["REJECTED"] = {"DRAFT"}
    /\ Rules!Allowed["SUSPENDED"] = {"APPROVED", "CLOSED"}
    /\ Rules!Allowed["CLOSED"] = {}
BY DEF Rules!LifecycleStates, Rules!Allowed, States

(* No verdict but through a reviewer (application.state-machine.ts).       *)
LEMMA VerdictsAlwaysNeedAReviewer == Rules!VerdictsNeedAReviewer
<1> DEFINE A == Rules!Allowed
<1>1. ASSUME NEW s \in States
      PROVE  Rules!Reached(s, Rules!Actors \ Rules!ReviewerRoles) \intersect Rules!HumanOnly \subseteq {s}
  <2> DEFINE S == (States \ Rules!HumanOnly) \union {s}
  <2>1. S \in SUBSET States /\ s \in S
    OBVIOUS
  <2>2. ASSUME NEW from \in S, NEW t \in States, NEW a \in Rules!Actors \ Rules!ReviewerRoles,
               Rules!CanTransition(from, t, a)
        PROVE  t \in S
    BY <2>2 DEF Rules!CanTransition
  <2>3. Rules!Closed(S, Rules!Actors \ Rules!ReviewerRoles)
    BY <2>2, LifecycleTable DEF Rules!Closed
  <2>4. ASSUME NEW t \in Rules!Reached(s, Rules!Actors \ Rules!ReviewerRoles)
        PROVE  t \in S
    BY <2>1, <2>3, <2>4, LifecycleTable DEF Rules!Reached
  <2>5. QED
    BY <2>4
<1>2. ASSUME NEW s \in States, s /= "CLOSED"
      PROVE  "APPROVED" \in Rules!Reached(s, Rules!Actors)
  <2>1. ASSUME NEW S \in SUBSET States, s \in S, Rules!Closed(S, Rules!Actors)
        PROVE  "APPROVED" \in S
    <3>1. "SUPER_ADMIN" \in Rules!Actors /\ "SUPER_ADMIN" \in Rules!ReviewerRoles
      BY DEF Rules!Actors, Rules!ReviewerRoles
    <3>2. ASSUME NEW from \in S, NEW t \in States, t \in A[from]
          PROVE  t \in S
      <4>1. Rules!CanTransition(from, t, "SUPER_ADMIN")
        BY <3>1, <3>2 DEF Rules!CanTransition
      <4>2. QED
        BY <2>1, <3>1, <4>1, LifecycleTable DEF Rules!Closed
    <3>3. /\ "DRAFT" \in S => "SUBMITTED" \in S
          /\ "SUBMITTED" \in S => "UNDER_REVIEW" \in S
          /\ "UNDER_REVIEW" \in S => "APPROVED" \in S
          /\ "INFO_REQUESTED" \in S => "SUBMITTED" \in S
          /\ "REJECTED" \in S => "DRAFT" \in S
          /\ "SUSPENDED" \in S => "APPROVED" \in S
      BY <3>2, LifecycleTable DEF States
    <3>4. QED
      BY <1>2, <2>1, <3>3 DEF States
  <2>2. QED
    BY <2>1, LifecycleTable DEF Rules!Reached, States
<1>3. ASSUME NEW s \in States
      PROVE  A[s] = {} <=> s = "CLOSED"
  BY <1>3, LifecycleTable DEF States
<1>4. QED
  BY <1>1, <1>2, <1>3, LifecycleTable DEF Rules!VerdictsNeedAReviewer

-----------------------------------------------------------------------------
(* The checklist. *)
(* An item is asked for always, as advice or under a condition, and its    *)
(* condition asks what the applicant was asked.                            *)
ItemAsked(item, facts) ==
    "declaredByApplicant" \in DOMAIN item.condition =>
       item.condition["declaredByApplicant"] \in DOMAIN facts.declared

FactsTold(facts) ==
    /\ facts.declared \in [DOMAIN facts.declared -> Rules!Answers]
    /\ facts = [tax |-> facts.tax, declared |-> facts.declared]

(* What some answer would make due is asked for when it is known.          *)
LEMMA DueIsAsked ==
    ASSUME NEW item, NEW facts, FactsTold(facts), ItemAsked(item, facts),
           NEW d \in Rules!Answered(facts.declared),
           Rules!Due(item, [facts EXCEPT !.declared = d]),
           Rules!Resolved(item, facts) /= "throws",
           Rules!Resolved(item, facts) /= "AWAITING_DECLARATION"
    PROVE  Rules!Resolved(item, facts) = "REQUIRED"
<1> DEFINE then == [facts EXCEPT !.declared = d]
<1>1. then.tax = facts.tax /\ then.declared = d
  BY DEF FactsTold
<1>2. \A q \in DOMAIN facts.declared :
         facts.declared[q] /= "undeclared" => d[q] = facts.declared[q]
  BY DEF Rules!Answered
<1> HIDE DEF then
<1>3. CASE item.obligation = "ALWAYS"
  BY <1>3 DEF Rules!Resolved
<1>4. CASE item.obligation /= "ALWAYS"
  <2> DEFINE C == item.condition
             e == Rules!Evaluate(item, facts)
  <2>1. /\ item.obligation = "CONDITIONAL"
        /\ \A op \in DOMAIN C \intersect Rules!Operators :
             IF op = "taxRegistrationStatusIn" THEN facts.tax \in C[op] ELSE d[C[op]] /= "no"
    BY <1>1, <1>4 DEF Rules!Due, then
  <2>2. e /= "awaiting" /\ (e /= "met" => e = "unmet")
    BY <2>1 DEF Rules!Resolved
  <2>3. e /= "unmet"
    <3>1. SUFFICES ASSUME e = "unmet" PROVE FALSE
      OBVIOUS
    <3>2. CASE "taxRegistrationStatusIn" \in DOMAIN C /\ facts.tax \notin C["taxRegistrationStatusIn"]
      BY <2>1, <3>2 DEF Rules!Operators
    <3>3. CASE ~("taxRegistrationStatusIn" \in DOMAIN C /\ facts.tax \notin C["taxRegistrationStatusIn"])
      <4>1. /\ "declaredByApplicant" \in DOMAIN C
            /\ facts.declared[C["declaredByApplicant"]] = "no"
        BY <3>1, <3>3 DEF Rules!Evaluate
      <4>2. d[C["declaredByApplicant"]] /= "no"
        BY <2>1, <4>1 DEF Rules!Operators
      <4>3. d[C["declaredByApplicant"]] = "no"
        BY <1>2, <4>1 DEF ItemAsked
      <4>4. QED
        BY <4>2, <4>3
    <3>4. QED
      BY <3>2, <3>3
  <2>4. e = "met"
    BY <2>2, <2>3
  <2>5. QED
    BY <2>1, <2>4 DEF Rules!Resolved
<1>5. QED
  BY <1>3, <1>4

(* A checklist that is complete stays so whatever is answered.             *)
LEMMA AlwaysCompleteWhateverIsAnswered ==
    ASSUME NEW items, NEW facts, NEW supplied, FactsTold(facts),
           \A i \in DOMAIN items : ItemAsked(items[i], facts)
    PROVE  Rules!CompleteWhateverIsAnswered(items, facts, supplied)
<1>1. SUFFICES ASSUME Rules!Complete(items, facts, supplied),
                      NEW d \in Rules!Answered(facts.declared), NEW i \in DOMAIN items,
                      Rules!Due(items[i], [facts EXCEPT !.declared = d])
               PROVE  items[i].document \in supplied
  BY DEF Rules!CompleteWhateverIsAnswered
<1> DEFINE r == Rules!ResolveChecklist(items, facts)
<1>2. DOMAIN r = DOMAIN items /\ r[i] = Rules!Resolved(items[i], facts)
  BY DEF Rules!ResolveChecklist
<1>3. r[i] /= "throws" /\ Rules!Missing(items, r, supplied) = {} /\ Rules!Awaiting(r) = {}
  BY <1>1 DEF Rules!Complete
<1> HIDE DEF r
<1>4. r[i] /= "AWAITING_DECLARATION"
  BY <1>2, <1>3 DEF Rules!Awaiting
<1>5. r[i] = "REQUIRED"
  BY <1>1, <1>2, <1>3, <1>4, DueIsAsked
<1>6. QED
  BY <1>3, <1>5 DEF Rules!Missing

-----------------------------------------------------------------------------
(* Edits and tax identifiers.                                              *)
LEMMA MoneyEditsAreAlwaysReviewed ==
    ASSUME NEW changed
    PROVE  Rules!MoneyEditsAreReviewed(changed)
<1> DEFINE material == {f \in changed : f \notin Rules!NonMaterialFields}
           v == Rules!ClassifyEdit(changed)
<1>1. /\ v.material <=> material /= {}
      /\ v.suspendsPayouts <=> changed \intersect Rules!PayoutSuspendingFields /= {}
      /\ v.fields = material
  BY DEF Rules!ClassifyEdit
<1>2. /\ Rules!PayoutSuspendingFields \subseteq Rules!MaterialFields
      /\ Rules!MaterialFields \intersect Rules!NonMaterialFields = {}
  BY DEF Rules!PayoutSuspendingFields, Rules!MaterialFields, Rules!NonMaterialFields
<1> HIDE DEF v
<1>3. v.suspendsPayouts => v.material /\ Rules!PayoutSuspendingFields \intersect changed \subseteq v.fields
  BY <1>1, <1>2
<1>4. ~v.material => changed \subseteq Rules!NonMaterialFields
  BY <1>1
<1>5. changed \intersect Rules!MaterialFields /= {} => v.material
  BY <1>1, <1>2
<1>6. QED
  BY <1>3, <1>4, <1>5 DEF v, Rules!MoneyEditsAreReviewed

(* A tax id is taken exactly if its parts agree (gstin.ts, pan.ts).        *)
LEMMA TaxIdsAlwaysAgree ==
    ASSUME NEW gstin
    PROVE  Rules!TaxIdsAgree(gstin, Pans, Entities)
<1>1. ASSUME NEW pan \in Pans, NEW e \in Entities, NEW f \in Entities,
             Rules!ValidPan(pan, e), Rules!ValidPan(pan, f)
      PROVE  e = f
  <2>1. pan.code \in Rules!PanEntityCodes(e) /\ pan.code \in Rules!PanEntityCodes(f)
    BY <1>1 DEF Rules!ValidPan
  <2>2. /\ Rules!PanEntityCodes("COMPANY") = {"C"}
        /\ Rules!PanEntityCodes("PARTNERSHIP") = {"F"}
        /\ Rules!PanEntityCodes("SOLE_PROPRIETOR") = {"P"}
        /\ Rules!PanEntityCodes("OTHER") = {"T", "H", "A", "B", "L", "G", "J"}
        /\ Rules!PanEntityCodes("TRUST") = {}
    BY DEF Rules!PanEntityCodes
  <2>3. QED
    BY <1>1, <2>1, <2>2 DEF Entities
<1>2. ASSUME NEW p \in Pans, NEW q \in Pans, Rules!ValidGstin(gstin, {p}), Rules!ValidGstin(gstin, {q})
      PROVE  p = q
  BY <1>2 DEF Rules!ValidGstin
<1>3. QED
  BY <1>1, <1>2 DEF Rules!TaxIdsAgree

-----------------------------------------------------------------------------
(* The pre-checks. *)
LEMMA SuiteCounts == \A S : Suite!Cardinality(S) = Cardinality(S)
BY DEF Suite!Cardinality, Cardinality

(* No member, no count.                                                    *)
LEMMA NoneIsNoCount ==
    ASSUME NEW S, IsFiniteSet(S)
    PROVE  Cardinality(S) = 0 <=> S = {}
BY FS_EmptySet

(* What a gym is shown keeps the outcome and the keys of the check.        *)
LEMMA ToldToTheTenant ==
    ASSUME NEW check, NEW o, NEW e
    PROVE  Suite!ForTenant(check, Suite!Precheck(o, e)) =
             [outcome |-> o,
              evidence |-> [k \in DOMAIN e \intersect Suite!TenantVisible[check] |-> e[k]]]
BY DEF Suite!ForTenant, Suite!Precheck

(* What a flag and its absence are made of.                                *)
LEMMA FlagsOf ==
    ASSUME NEW b \in BOOLEAN, NEW e
    PROVE  /\ Suite!FlagIf(b, e) = [outcome |-> IF b THEN "FLAG" ELSE "PASS", evidence |-> e]
           /\ Suite!FlagIf(b, e) = Suite!Precheck(IF b THEN "FLAG" ELSE "PASS", e)
BY DEF Suite!FlagIf, Suite!Precheck

(* The evidence a gym is shown names no other gym.                         *)
LEMMA OthersStay ==
    ASSUME NEW check, NEW asked, NEW answer, IsFiniteSet(Others),
           answer.kind = "found" /\ check \in Suite!OfOthers => answer.what \in SUBSET Others
    PROVE  Suite!OthersStayHidden(check, asked, answer, Others)
<1>1. SUFFICES ASSUME check \in Suite!OfOthers, answer.kind = "found",
                      NEW found \in SUBSET Others, Cardinality(found) = Cardinality(answer.what)
               PROVE  Suite!ForTenant(check, Suite!Run(check, asked, answer))
                        = Suite!ForTenant(check, Suite!Run(check, asked, Suite!Found(found)))
  BY SuiteCounts DEF Suite!OthersStayHidden
<1> DEFINE other == Suite!Found(found)
<1>2. other.kind = "found" /\ other.what = found
  BY DEF Suite!Found
<1>3. answer.what = {} <=> found = {}
  <2>1. IsFiniteSet(answer.what) /\ IsFiniteSet(found)
    BY <1>1, FS_Subset
  <2>2. QED
    BY <1>1, <2>1, NoneIsNoCount
<1> HIDE DEF other
<1>4. CASE check = "DUPLICATE_ADDRESS"
  <2> DEFINE C(what) == Suite!Cardinality(what)
             pass == [normalisedAddress |-> asked.address]
             flag(what) == [normalisedAddress         |-> asked.address,
                     exactMatches              |-> {m \in what : m.address = asked.address},
                     proximateMatches          |-> {m \in what : m.address /= asked.address},
                     radiusMetres              |-> asked.radius,
                     possibleDuplicateGymCount |-> C(what)]
             shown(e) == [k \in DOMAIN e \intersect Suite!TenantVisible[check] |-> e[k]]
  <2>1. /\ Suite!Run(check, asked, answer) = Suite!DuplicateAddress(asked, answer)
        /\ Suite!Run(check, asked, other) = Suite!DuplicateAddress(asked, other)
    BY <1>4 DEF Suite!Run
  <2>2. CASE asked.address = ""
    BY <2>1, <2>2 DEF Suite!DuplicateAddress, other
  <2>3. CASE asked.address /= "" /\ found = {}
    BY <1>1, <1>2, <1>3, <2>1, <2>3 DEF Suite!DuplicateAddress, other
  <2>4. CASE asked.address /= "" /\ found /= {}
    <3>1. /\ Suite!Run(check, asked, answer) = Suite!Precheck("FLAG", flag(answer.what))
          /\ Suite!Run(check, asked, other) = Suite!Precheck("FLAG", flag(found))
      BY <1>1, <1>2, <1>3, <2>1, <2>4 DEF Suite!DuplicateAddress
    <3>2. C(answer.what) = C(found)
      BY <1>1, SuiteCounts
    <3> HIDE DEF C
    <3>3. Suite!TenantVisible[check] = {"possibleDuplicateGymCount"}
      BY <1>4 DEF Suite!TenantVisible
    <3>4. ASSUME NEW what
          PROVE  shown(flag(what)) = [k \in {"possibleDuplicateGymCount"} |-> C(what)]
      BY <3>3
    <3>5. shown(flag(answer.what)) = shown(flag(found))
      BY <3>2, <3>4
    <3>6. ASSUME NEW x
          PROVE  Suite!ForTenant(check, Suite!Precheck("FLAG", x)) = [outcome |-> "FLAG", evidence |-> shown(x)]
      BY ToldToTheTenant
    <3> HIDE DEF flag, shown
    <3>7. QED
      BY <3>1, <3>5, <3>6 DEF other
  <2>5. QED
    BY <2>2, <2>3, <2>4
<1>5. CASE check \in {"DUPLICATE_REGISTRATION_ID", "DUPLICATE_BANK_ACCOUNT"}
  <2> DEFINE R(a) == IF ~asked.supplied THEN Suite!Precheck("PASS", [supplied |-> FALSE])
                     ELSE IF a.kind /= "found" THEN Suite!Errored
                     ELSE Suite!FlagIf(a.what /= {}, [supplied |-> TRUE, otherTenants |-> a.what])
  <2>1. Suite!Run(check, asked, answer) = R(answer) /\ Suite!Run(check, asked, other) = R(other)
    BY <1>5 DEF Suite!Run, Suite!DuplicateRegistrationId, Suite!DuplicateBankAccount
  <2>2. CASE ~asked.supplied
    BY <2>1, <2>2 DEF other
  <2>3. CASE asked.supplied
    <3> DEFINE e(what) == [supplied |-> TRUE, otherTenants |-> what]
               o == IF found /= {} THEN "FLAG" ELSE "PASS"
    <3>1. /\ R(answer) = Suite!FlagIf(answer.what /= {}, e(answer.what))
          /\ R(other) = Suite!FlagIf(found /= {}, e(found))
      BY <1>1, <1>2, <2>3
    <3>2. R(answer) = Suite!Precheck(o, e(answer.what)) /\ R(other) = Suite!Precheck(o, e(found))
      BY <1>3, <3>1, FlagsOf
    <3>3. Suite!TenantVisible[check] = {}
      BY <1>5 DEF Suite!TenantVisible
    <3>4. ASSUME NEW x
          PROVE  Suite!ForTenant(check, Suite!Precheck(o, x)) = [outcome |-> o, evidence |-> [k \in {} |-> x[k]]]
      BY <3>3, ToldToTheTenant
    <3>5. ASSUME NEW x, NEW y
          PROVE  [k \in {} |-> x[k]] = [k \in {} |-> y[k]]
      OBVIOUS
    <3> HIDE DEF e, o, R
    <3>6. QED
      BY <2>1, <3>2, <3>4, <3>5 DEF other
  <2>4. QED
    BY <2>2, <2>3
<1>6. QED
  BY <1>1, <1>4, <1>5 DEF Suite!OfOthers

(* A pass was checked: nothing passes that could not be looked up.         *)
LEMMA PassesWereChecked ==
    ASSUME NEW check, NEW asked, NEW answer,
           check \in Suite!PrecheckNames, "supplied" \in DOMAIN asked => asked.supplied \in BOOLEAN
    PROVE  Suite!PassedIsChecked(check, asked, answer)
<1> DEFINE outcome == Suite!Run(check, asked, answer).outcome
<1>1. ASSUME check \in Suite!OfOthers \union {"GEO_DISTANCE"}, Suite!Supplied(check, asked),
             answer.kind /= "found"
      PROVE  outcome = "ERROR"
  <2>1. Suite!Errored.outcome = "ERROR"
    BY DEF Suite!Errored, Suite!Precheck
  <2>2. CASE check \in {"DUPLICATE_REGISTRATION_ID", "DUPLICATE_BANK_ACCOUNT"}
    BY <1>1, <2>1, <2>2
    DEF Suite!Run, Suite!Supplied, Suite!DuplicateRegistrationId, Suite!DuplicateBankAccount
  <2>3. CASE check \in {"GEO_DISTANCE", "DUPLICATE_ADDRESS"}
    BY <1>1, <2>1, <2>3 DEF Suite!Run, Suite!GeoDistance, Suite!DuplicateAddress
  <2>4. QED
    BY <1>1, <2>2, <2>3 DEF Suite!OfOthers
<1>2. ASSUME check \in Suite!OfOthers, answer.kind = "found", NEW fewer \in SUBSET answer.what,
             Suite!Run(check, asked, Suite!Found(fewer)).outcome = "FLAG"
      PROVE  outcome = "FLAG"
  <2> DEFINE less == Suite!Found(fewer)
  <2>1. less.kind = "found" /\ less.what = fewer
    BY DEF Suite!Found
  <2> HIDE DEF less
  <2>2. /\ Suite!Errored.outcome = "ERROR"
        /\ \A o, e : Suite!Precheck(o, e).outcome = o
    BY DEF Suite!Errored, Suite!Precheck
  <2>3. \A b \in BOOLEAN : \A e : Suite!FlagIf(b, e).outcome = IF b THEN "FLAG" ELSE "PASS"
    BY FlagsOf
  <2>4. CASE check = "DUPLICATE_ADDRESS"
    <3>1. /\ outcome = Suite!DuplicateAddress(asked, answer).outcome
          /\ Suite!DuplicateAddress(asked, less).outcome = "FLAG"
      BY <1>2, <2>4 DEF Suite!Run, less
    <3>2. asked.address /= "" /\ fewer /= {}
      <4>1. ASSUME asked.address = ""
            PROVE  FALSE
        <5>1. Suite!DuplicateAddress(asked, less) = Suite!Errored
          BY <4>1, Zenon DEF Suite!DuplicateAddress
        <5>2. QED
          BY <2>2, <3>1, <5>1
      <4>2. ASSUME asked.address /= "", fewer = {}
            PROVE  FALSE
        <5>1. Suite!DuplicateAddress(asked, less)
                = Suite!Precheck("PASS", [normalisedAddress |-> asked.address])
          BY <2>1, <4>2, Zenon DEF Suite!DuplicateAddress
        <5>2. QED
          BY <2>2, <3>1, <5>1
      <4>3. QED
        BY <4>1, <4>2
    <3>3. answer.what /= {}
      BY <3>2
    <3>4. QED
      BY <1>2, <2>2, <3>1, <3>2, <3>3 DEF Suite!DuplicateAddress
  <2>5. CASE check \in {"DUPLICATE_REGISTRATION_ID", "DUPLICATE_BANK_ACCOUNT"}
    <3> DEFINE R(a) == IF ~asked.supplied THEN Suite!Precheck("PASS", [supplied |-> FALSE])
                       ELSE IF a.kind /= "found" THEN Suite!Errored
                       ELSE Suite!FlagIf(a.what /= {}, [supplied |-> TRUE, otherTenants |-> a.what])
    <3>1. outcome = R(answer).outcome /\ R(less).outcome = "FLAG"
      BY <1>2, <2>5
      DEF Suite!Run, Suite!DuplicateRegistrationId, Suite!DuplicateBankAccount, less
    <3>2. asked.supplied /\ fewer /= {}
      BY <2>1, <2>2, <2>3, <3>1
    <3>3. answer.what /= {}
      BY <3>2
    <3>4. R(answer) = Suite!FlagIf(TRUE, [supplied |-> TRUE, otherTenants |-> answer.what])
      <4>1. (answer.what /= {}) = TRUE
        BY <3>3
      <4>2. QED
        BY <1>2, <3>2, <4>1
    <3>5. R(answer).outcome = "FLAG"
      BY <2>3, <3>4
    <3>6. QED
      BY <3>1, <3>5
  <2>6. QED
    BY <1>2, <2>4, <2>5 DEF Suite!OfOthers
<1>3. QED
  BY <1>1, <1>2 DEF Suite!PassedIsChecked

(* Pictures that pass are all in order, and what was not measured is told.  *)
LEMMA PicturesPass ==
    ASSUME NEW check, NEW asked, NEW answer
    PROVE  Suite!PassedPictures(check, asked, answer)
<1> DEFINE bad == {p \in asked.pictures : Suite!Refusal(p, asked.limits) /= "NONE"}
           r == Suite!Run(check, asked, answer)
<1>1. SUFFICES ASSUME check = "IMAGE_QUALITY", r.outcome = "PASS", NEW p \in asked.pictures
               PROVE  /\ p.readable /\ ~(p.width * p.height > asked.limits.pixels)
                      /\ r.evidence.notChecked /= {}
  BY DEF Suite!PassedPictures
<1>2. bad = {} /\ r.evidence.notChecked = {"BLUR_THRESHOLD", "PERCEPTUAL_HASH_DUPLICATE"}
  BY <1>1 DEF Suite!Run, Suite!ImageQuality, Suite!FlagIf, Suite!Precheck
<1>3. Suite!Refusal(p, asked.limits) = "NONE"
  BY <1>2
<1>4. p.readable /\ ~(p.width * p.height > asked.limits.pixels)
  BY <1>3 DEF Suite!Refusal
<1>5. QED
  BY <1>2, <1>4

(* What a flag tells a reviewer, check by check.                           *)
LEMMA DistancesAreTold ==
    ASSUME NEW asked, NEW answer
    PROVE  Suite!FlagsAreActionable("GEO_DISTANCE", asked, answer)
<1> DEFINE e == [distanceMetres |-> answer.what, toleranceMetres |-> asked.tolerance,
                 confidence |-> "of the geocoder"]
           r == Suite!Run("GEO_DISTANCE", asked, answer)
<1>1. r = IF answer.kind /= "found" THEN Suite!Errored
          ELSE Suite!FlagIf(answer.what > asked.tolerance, e)
  BY DEF Suite!Run, Suite!GeoDistance
<1>2. e.distanceMetres = answer.what /\ e.toleranceMetres = asked.tolerance
  OBVIOUS
<1> HIDE DEF e, r
<1>3. ASSUME r.outcome = "FLAG"
      PROVE  r.evidence.distanceMetres > r.evidence.toleranceMetres
  <2>1. r = Suite!FlagIf(answer.what > asked.tolerance, e)
    BY <1>1, <1>3 DEF Suite!Errored, Suite!Precheck
  <2>2. r.evidence = e /\ r.outcome = IF answer.what > asked.tolerance THEN "FLAG" ELSE "PASS"
    BY <2>1 DEF Suite!FlagIf, Suite!Precheck
  <2>3. answer.what > asked.tolerance
    BY <1>3, <2>2
  <2>4. QED
    BY <1>2, <2>2, <2>3
<1>4. QED
  BY <1>3 DEF r, Suite!FlagsAreActionable, Suite!ForReviewer, Suite!OfOthers

(* A duplicate is flagged with how many there are.                         *)
LEMMA DuplicatesAreTold ==
    ASSUME NEW asked, NEW answer, NEW check \in Suite!OfOthers,
           "supplied" \in DOMAIN asked => asked.supplied \in BOOLEAN
    PROVE  Suite!FlagsAreActionable(check, asked, answer)
<1> DEFINE r == Suite!Run(check, asked, answer)
<1>1. CASE check = "DUPLICATE_ADDRESS"
  <2> DEFINE exact == {m \in answer.what : m.address = asked.address}
             near  == {m \in answer.what : m.address /= asked.address}
  <2>1. ASSUME r.outcome = "FLAG"
        PROVE  r.evidence.exactMatches = exact /\ r.evidence.proximateMatches = near
    BY <1>1, <2>1 DEF Suite!Run, Suite!DuplicateAddress, Suite!Errored, Suite!Precheck
  <2>2. exact \union near = answer.what /\ exact \intersect near = {}
    OBVIOUS
  <2> HIDE DEF exact, near, r
  <2>3. QED
    BY <1>1, <2>1, <2>2 DEF r, Suite!FlagsAreActionable, Suite!ForReviewer
<1>2. CASE check \in {"DUPLICATE_REGISTRATION_ID", "DUPLICATE_BANK_ACCOUNT"}
  <2>1. ASSUME r.outcome = "FLAG"
        PROVE  r.evidence.otherTenants = answer.what
    <3>1. r = Suite!FlagIf(answer.what /= {}, [supplied |-> TRUE, otherTenants |-> answer.what])
      BY <1>2, <2>1
      DEF Suite!Run, Suite!DuplicateRegistrationId, Suite!DuplicateBankAccount, Suite!Errored,
          Suite!Precheck
    <3>2. QED
      BY <3>1 DEF Suite!FlagIf, Suite!Precheck
  <2> HIDE DEF r
  <2>2. QED
    BY <1>2, <2>1 DEF r, Suite!FlagsAreActionable, Suite!ForReviewer, Suite!OfOthers
<1>3. QED
  BY <1>1, <1>2 DEF Suite!OfOthers

(* A picture is flagged with what is wrong with it.                        *)
LEMMA PicturesAreTold ==
    ASSUME NEW asked, NEW answer, asked.pictures \in SUBSET Pictures, asked.limits = PictureLimits
    PROVE  Suite!FlagsAreActionable("IMAGE_QUALITY", asked, answer)
<1> DEFINE bad == {p \in asked.pictures : Suite!Refusal(p, asked.limits) /= "NONE"}
           unreadable == {p \in bad : Suite!Refusal(p, asked.limits) = "UNREADABLE"}
           r == Suite!Run("IMAGE_QUALITY", asked, answer)
<1>1. ASSUME r.outcome = "FLAG"
      PROVE  r.evidence.refused = bad \ unreadable /\ r.evidence.unreadable = unreadable
  BY <1>1 DEF Suite!Run, Suite!ImageQuality, Suite!FlagIf, Suite!Precheck
<1>2. ASSUME NEW p \in asked.pictures, p \notin bad
      PROVE  p.readable /\ p.width * p.height <= asked.limits.pixels
  <2>1. Suite!Refusal(p, asked.limits) = "NONE"
    BY <1>2
  <2>2. p.readable /\ ~(p.width * p.height > asked.limits.pixels)
    BY <2>1 DEF Suite!Refusal
  <2>3. asked.limits.pixels = 12 /\ p.width \in {1, 4, 7} /\ p.height \in {1, 4, 7}
    BY DEF PictureLimits, Pictures
  <2>4. p.width * p.height \in Int
    BY <2>3
  <2>5. QED
    BY <2>2, <2>3, <2>4
<1> HIDE DEF r, bad, unreadable
<1>3. ASSUME r.outcome = "FLAG", NEW p \in asked.pictures
      PROVE  \/ p \in r.evidence.refused \union r.evidence.unreadable
             \/ p.readable /\ p.width * p.height <= asked.limits.pixels
  <2>1. CASE p \in bad
    BY <1>1, <1>3, <2>1
  <2>2. CASE p \notin bad
    BY <1>2, <2>2
  <2>3. QED
    BY <2>1, <2>2
<1>4. QED
  BY <1>3 DEF r, Suite!FlagsAreActionable, Suite!ForReviewer, Suite!OfOthers

(* A text is flagged with the field at fault.                              *)
LEMMA FindingsAreTold ==
    ASSUME NEW asked, NEW answer
    PROVE  Suite!FlagsAreActionable("PROFANITY", asked, answer)
<1> DEFINE found == UNION {{[field |-> f, kind |-> k] : k \in asked.fields[f]}
                             : f \in DOMAIN asked.fields}
           r == Suite!Run("PROFANITY", asked, answer)
<1>1. r.evidence.findings = found
  BY DEF Suite!Run, Suite!Profanity, Suite!FlagIf, Suite!Precheck
<1>2. ASSUME NEW f \in DOMAIN asked.fields, asked.fields[f] /= {}
      PROVE  \E x \in found : x.field = f
  <2>1. PICK k \in asked.fields[f] : TRUE
    BY <1>2
  <2>2. [field |-> f, kind |-> k] \in found
    BY <2>1
  <2>3. QED
    BY <2>2
<1> HIDE DEF found, r
<1>3. QED
  BY <1>1, <1>2 DEF r, Suite!FlagsAreActionable, Suite!ForReviewer, Suite!OfOthers

(* There are finitely many other gyms.                                     *)
LEMMA OthersAreFew == IsFiniteSet(Others)
<1> DEFINE a == [gym |-> "g1", address |-> "n1"]
           b == [gym |-> "g1", address |-> "n2"]
           c == [gym |-> "g2", address |-> "n1"]
           d == [gym |-> "g2", address |-> "n2"]
<1>1. Others = ((({} \union {a}) \union {b}) \union {c}) \union {d}
  BY DEF Others
<1> HIDE DEF a, b, c, d
<1>2. IsFiniteSet({} \union {a})
  BY FS_EmptySet, FS_AddElement
<1>3. IsFiniteSet(({} \union {a}) \union {b})
  BY <1>2, FS_AddElement
<1>4. IsFiniteSet((({} \union {a}) \union {b}) \union {c})
  BY <1>3, FS_AddElement
<1>5. QED
  BY <1>1, <1>4, FS_AddElement

-----------------------------------------------------------------------------
(* The inputs are those MCInit takes, and no step changes them.            *)
ChecksAsked(i) ==
    /\ i.check \in Suite!PrecheckNames
    /\ "supplied" \in DOMAIN i.asked => i.asked.supplied \in BOOLEAN
    /\ i.check \in Suite!OfOthers /\ i.answer.kind = "found" => i.answer.what \in SUBSET Others
    /\ i.check = "IMAGE_QUALITY" =>
          i.asked.pictures \in SUBSET Pictures /\ i.asked.limits = PictureLimits

(* What the run asks of a pre-check is among what the lemmas assume.       *)
LEMMA SuiteInputs ==
    ASSUME SuiteInput
    PROVE  ChecksAsked(input)
<1> USE DEF ChecksAsked
<1>0. /\ \A w : Suite!Found(w).kind = "found" /\ Suite!Found(w).what = w
      /\ \A a \in Suite!Unanswered : a.kind /= "found"
      /\ Suite!Unbound.kind /= "found"
  BY DEF Suite!Found, Suite!Unanswered, Suite!Unbound
<1>1. \A a \in Replies : a.kind = "found" => a.what \in SUBSET Others
  BY <1>0 DEF Replies
<1>2. ASSUME NEW d \in 0 .. 3, NEW n \in 0 .. 4,
             input = [check |-> "GEO_DISTANCE", asked |-> [tolerance |-> d], answer |-> Suite!Found(n)]
      PROVE  ChecksAsked(input)
  BY <1>2 DEF Suite!PrecheckNames, Suite!OfOthers
<1>3. ASSUME NEW a \in Suite!Unanswered,
             input = [check |-> "GEO_DISTANCE", asked |-> [tolerance |-> 1], answer |-> a]
      PROVE  ChecksAsked(input)
  BY <1>3 DEF Suite!PrecheckNames, Suite!OfOthers
<1>4. ASSUME NEW n \in {"", "n1"}, NEW a \in Replies \ {Suite!Unbound},
             input = [check |-> "DUPLICATE_ADDRESS", asked |-> [address |-> n, radius |-> 1], answer |-> a]
      PROVE  ChecksAsked(input)
  BY <1>1, <1>4 DEF Suite!PrecheckNames
<1>5. ASSUME NEW c \in {"DUPLICATE_REGISTRATION_ID", "DUPLICATE_BANK_ACCOUNT"},
             NEW b \in BOOLEAN, NEW a \in Replies,
             input = [check |-> c, asked |-> [supplied |-> b], answer |-> a]
      PROVE  ChecksAsked(input)
  BY <1>1, <1>5 DEF Suite!PrecheckNames
<1>6. ASSUME NEW p \in Pictures, NEW q \in Pictures,
             input = [check |-> "IMAGE_QUALITY", answer |-> Suite!Unbound,
                      asked |-> [pictures |-> {p, q}, limits |-> PictureLimits]]
      PROVE  ChecksAsked(input)
  BY <1>0, <1>6 DEF Suite!PrecheckNames, Suite!OfOthers
<1>7. ASSUME NEW fs \in [{"description", "rules"} -> SUBSET {"EMAIL", "URL"}],
             input = [check |-> "PROFANITY", asked |-> [fields |-> fs], answer |-> Suite!Unbound]
      PROVE  ChecksAsked(input)
  BY <1>0, <1>7 DEF Suite!PrecheckNames, Suite!OfOthers
<1> HIDE DEF ChecksAsked
<1>8. QED
  BY <1>2, <1>3, <1>4, <1>5, <1>6, <1>7 DEF SuiteInput

(* A pre-check tells what it found and hides whom it found.                *)
LEMMA ChecksAreAlwaysHonest ==
    ASSUME NEW i, ChecksAsked(i)
    PROVE  Suite!ChecksAreHonest(i.check, i.asked, i.answer, Others)
<1> USE DEF ChecksAsked
<1>1. Suite!PassedIsChecked(i.check, i.asked, i.answer)
  BY PassesWereChecked
<1>2. Suite!OthersStayHidden(i.check, i.asked, i.answer, Others)
  BY OthersStay, OthersAreFew
<1>3. Suite!FlagsAreActionable(i.check, i.asked, i.answer)
  BY DistancesAreTold, DuplicatesAreTold, PicturesAreTold, FindingsAreTold
  DEF Suite!PrecheckNames, Suite!OfOthers
<1>4. Suite!PassedPictures(i.check, i.asked, i.answer)
  BY PicturesPass
<1>5. QED
  BY <1>1, <1>2, <1>3, <1>4 DEF Suite!ChecksAreHonest

(* A checklist of two items, whose conditions ask one of the questions.    *)
ChecklistAsked(i) ==
    /\ FactsTold(i.facts)
    /\ \A n \in DOMAIN i.items : ItemAsked(i.items[n], i.facts)

(* What the run asks of a checklist is among what the lemmas assume.       *)
LEMMA ChecklistInputs ==
    ASSUME ChecklistInput
    PROVE  ChecklistAsked(input)
<1>1. PICK first \in Items, second \in Items, tax \in {"registered", "exempt"},
           declared \in [{"q1", "q2"} -> Rules!Answers], supplied \in SUBSET {"d1", "d2"} :
             input = [items |-> <<first, second>>, supplied |-> supplied,
                      facts |-> [tax |-> tax, declared |-> declared]]
  BY DEF ChecklistInput
<1> DEFINE facts == [tax |-> tax, declared |-> declared]
<1>2. FactsTold(facts) /\ DOMAIN facts.declared = {"q1", "q2"}
  BY DEF FactsTold
<1>3. \A c \in Conditions :
         "declaredByApplicant" \in DOMAIN c => c["declaredByApplicant"] \in {"q1", "q2"}
  BY DEF Conditions, NoCondition
<1>4. \A item \in Items : item.condition \in Conditions
  BY DEF Items, Conditions
<1>5. \A item \in Items : ItemAsked(item, facts)
  BY <1>2, <1>3, <1>4 DEF ItemAsked
<1>6. input.facts = facts /\ input.items = <<first, second>>
  BY <1>1
<1> HIDE DEF facts
<1>7. QED
  BY <1>2, <1>5, <1>6 DEF ChecklistAsked

(* The inputs that RulesAreSafe is about.                                  *)
RulesInputs ==
    /\ scene = "checklist" => ChecklistAsked(input)
    /\ scene = "suite" => ChecksAsked(input)
    /\ scene = "wizard" => input \in SUBSET WizardSet

(* The inputs of the rules at the beginning.                               *)
LEMMA RulesInputsAtFirst ==
    ASSUME MCInit
    PROVE  RulesInputs
<1> USE DEF RulesInputs
<1>1. CASE scene \in Steps \union {"lifecycle"}
  BY <1>1 DEF Steps
<1>2. CASE ChecklistInput
  BY <1>2, ChecklistInputs DEF ChecklistInput
<1>3. CASE SuiteInput
  BY <1>3, SuiteInputs DEF SuiteInput
<1>4. CASE WizardInput
  <2>1. Range(Rules!WizardSteps) \subseteq WizardSet
    <3> DEFINE W == Rules!WizardSteps
    <3>1. DOMAIN W = 1 .. 6 /\ \A i \in 1 .. 6 : W[i] \in WizardSet
      BY WizardStepsAre
    <3> HIDE DEF W
    <3>2. \A i \in DOMAIN W : W[i] \in WizardSet
      BY <3>1
    <3>3. Range(W) = {W[i] : i \in DOMAIN W}
      BY DEF Range
    <3>4. Range(W) \subseteq WizardSet
      BY <3>2, <3>3
    <3>5. QED
      BY <3>4 DEF W
  <2>2. QED
    BY <1>4, <2>1 DEF WizardInput
<1>5. CASE EditInput \/ RoundingInput \/ SplitInput \/ QuoteInput \/ ClockInput \/ TaxInput \/ BytesInput
  BY <1>5 DEF EditInput, RoundingInput, SplitInput, QuoteInput, ClockInput, TaxInput, BytesInput
<1>6. QED
  BY <1>1, <1>2, <1>3, <1>4, <1>5 DEF MCInit

(* Every step belongs to a scene, and keeps it and the input.              *)
LEMMA InputsStay ==
    ASSUME [MCNext]_mcvars
    PROVE  UNCHANGED <<scene, input>>
<1>1. CASE OpeningNext \/ ListingNext
  BY <1>1 DEF OpeningNext, ListingNext
<1>2. CASE SubmittingNext \/ UploadingNext \/ CheckingNext
  BY <1>2 DEF SubmittingNext, UploadingNext, CheckingNext
<1>3. CASE ReviewingNext \/ OverlaysNext \/ ScanningNext
  BY <1>3 DEF ReviewingNext, OverlaysNext, ScanningNext
<1>4. CASE UNCHANGED mcvars
  BY <1>4 DEF mcvars
<1>5. QED
  BY <1>1, <1>2, <1>3, <1>4 DEF MCNext

(* Of such inputs the rules hold.                                          *)
LEMMA RulesInputsSuffice ==
    ASSUME RulesInputs
    PROVE  RulesAreSafe
<1> USE DEF RulesInputs
<1>1. VerdictsNeedAReviewer
  BY VerdictsAlwaysNeedAReviewer DEF VerdictsNeedAReviewer
<1>2. CompleteWhateverIsAnswered
  BY AlwaysCompleteWhateverIsAnswered DEF CompleteWhateverIsAnswered, ChecklistAsked
<1>3. MoneyEditsAreReviewed
  BY MoneyEditsAreAlwaysReviewed DEF MoneyEditsAreReviewed
<1>4. TaxIdsAgree
  BY TaxIdsAlwaysAgree DEF TaxIdsAgree
<1>5. WizardLeadsOn
  BY WizardAlwaysLeadsOn DEF WizardLeadsOn
<1>6. ChecksAreHonest
  BY ChecksAreAlwaysHonest DEF ChecksAreHonest
<1>7. QED
  BY <1>1, <1>2, <1>3, <1>4, <1>5, <1>6 DEF RulesAreSafe

(* The rules of onboarding and the pre-checks hold of every input they are *)
(* given (OnboardingRules, Prechecks): the inputs never change, and of any *)
(* the rules hold.                                                         *)
THEOREM RulesAreAlwaysSafe == MCSpec => []RulesAreSafe
<1>1. MCInit => RulesInputs
  BY RulesInputsAtFirst
<1>2. RulesInputs /\ [MCNext]_mcvars => RulesInputs'
  BY InputsStay DEF RulesInputs, ChecklistAsked, ChecksAsked, FactsTold, ItemAsked
<1>3. RulesInputs => RulesAreSafe
  BY RulesInputsSuffice
<1>4. QED
  BY <1>1, <1>2, <1>3, PTL DEF MCSpec

-----------------------------------------------------------------------------
(* Local days.  Offsets are those of the world's clocks, which change by   *)
(* an hour at most.                                                        *)
IsZone(zone) ==
    /\ zone.at \in Int /\ zone.before \in -12 .. 14 /\ zone.after \in -12 .. 14
    /\ zone.after - zone.before \in -1 .. 1

(* What an instant shows on the clocks of a zone.                          *)
LEMMA Offsets ==
    ASSUME NEW zone, IsZone(zone), NEW t \in Int
    PROVE  /\ Clock!Offset(zone, t) = IF t < zone.at THEN zone.before ELSE zone.after
           /\ Clock!Offset(zone, t) \in -12 .. 14
           /\ Clock!LocalOf(zone, t) = t + Clock!Offset(zone, t)
           /\ Clock!LocalOf(zone, t) \in Int
           /\ Clock!IsoDateIn(zone, t) \in Int
           /\ \A d \in Int : Clock!IsoDateIn(zone, t) = d
                               <=> 24 * d <= Clock!LocalOf(zone, t) /\ Clock!LocalOf(zone, t) < 24 * d + 24
<1>1. /\ Clock!Offset(zone, t) = IF t < zone.at THEN zone.before ELSE zone.after
      /\ Clock!LocalOf(zone, t) = t + Clock!Offset(zone, t)
  BY DEF Clock!Offset, Clock!LocalOf
<1>2. Clock!Offset(zone, t) \in -12 .. 14
  BY <1>1 DEF IsZone
<1> DEFINE l == Clock!LocalOf(zone, t)
<1>3. l \in Int
  BY <1>1, <1>2
<1>4. Clock!IsoDateIn(zone, t) = l \div 24
  BY DEF Clock!IsoDateIn, Clock!Hours
<1> HIDE DEF l
<1>5. l \div 24 \in Int /\ \A d \in Int : l \div 24 = d <=> 24 * d <= l /\ l < 24 * d + 24
  BY <1>3
<1>6. QED
  BY <1>1, <1>2, <1>3, <1>4, <1>5 DEF l

(* The midnight that two passes find is within the offsets, and is one the *)
(* clocks show, if they show one.                                          *)
LEMMA MidnightIsShown ==
    ASSUME NEW zone, IsZone(zone), NEW date \in Int
    PROVE  /\ Clock!LocalMidnightUtc(zone, date) \in Int
           /\ Clock!LocalMidnightUtc(zone, date) - 24 * date \in -14 .. 12
           /\ Clock!LocalOf(zone, Clock!LocalMidnightUtc(zone, date)) - 24 * date \in -1 .. 1
           /\ Clock!HasMidnight(zone, date) =>
                 Clock!LocalOf(zone, Clock!LocalMidnightUtc(zone, date)) = 24 * date
<1> DEFINE off(t) == IF t < zone.at THEN zone.before ELSE zone.after
           n == 24 * date
           m == Clock!LocalMidnightUtc(zone, date)
<1>1. m = n - off(n - off(n))
  <2>1. n \in Int /\ off(n) \in Int
    BY DEF IsZone
  <2>2. QED
    BY <2>1, Offsets DEF Clock!LocalMidnightUtc, Clock!Hours
<1>2. m \in Int /\ m - n \in -14 .. 12
  BY <1>1 DEF IsZone
<1>3. Clock!HasMidnight(zone, date) => \E t \in Int : t + off(t) = n
  <2>1. \A t \in (date - 1) * 24 .. (date + 1) * 24 : t \in Int /\ Clock!LocalOf(zone, t) = t + off(t)
    BY Offsets
  <2> HIDE DEF off
  <2>2. QED
    BY <2>1 DEF Clock!HasMidnight, Clock!Hours
<1>4. ASSUME NEW t \in Int, t + off(t) = n
      PROVE  m + off(m) = n
  BY <1>1, <1>4 DEF IsZone
<1>5. m + off(m) - n \in -1 .. 1
  BY <1>1 DEF IsZone
<1>6. Clock!LocalOf(zone, m) = m + off(m)
  BY <1>2, Offsets
<1>7. Clock!HasMidnight(zone, date) => m + off(m) = n
  <2> HIDE DEF m, off, n
  <2>1. QED
    BY <1>3, <1>4
<1> DEFINE l == Clock!LocalOf(zone, m)
<1>8. l - n \in -1 .. 1 /\ (Clock!HasMidnight(zone, date) => l = n)
  <2>1. l = m + off(m) /\ off(m) \in Int /\ n \in Int /\ m \in Int
    BY <1>2, <1>6 DEF IsZone
  <2> HIDE DEF l, m, n, off
  <2>2. l - n \in -1 .. 1
    BY <1>5, <2>1
  <2>3. QED
    BY <1>7, <2>1, <2>2
<1>9. n = 24 * date
  OBVIOUS
<1> HIDE DEF m, l, n
<1>10. QED
  BY <1>2, <1>8, <1>9 DEF m, l

(* Days follow each other, and a window of days ends where it should.      *)
LEMMA DaysAlwaysTile ==
    ASSUME NEW zone, IsZone(zone), NEW date \in Int, NEW days \in Nat
    PROVE  Clock!DaysTile(zone, date, days)
<1> DEFINE M(d) == Clock!LocalMidnightUtc(zone, d)
           L(t) == Clock!LocalOf(zone, t)
<1>1. SUFFICES ASSUME \A d \in date .. date + days : Clock!HasMidnight(zone, d)
               PROVE  /\ L(M(date)) = 24 * date
                      /\ Clock!LocalDayEndUtc(zone, date) = M(date + 1)
                      /\ M(date) < M(date + 1)
                      /\ days > 0 => Clock!DailyWindow(zone, date, days).endsAt = M(date + days)
  BY DEF Clock!DaysTile, Clock!Hours
<1>2. L(M(date)) = 24 * date /\ M(date) \in Int
  BY <1>1, MidnightIsShown
<1>3. M(date + 1) \in Int /\ L(M(date + 1)) - 24 * (date + 1) \in -1 .. 1
  BY MidnightIsShown
<1>4. ASSUME NEW t \in Int
      PROVE  L(t) = t + (IF t < zone.at THEN zone.before ELSE zone.after)
  BY Offsets
<1> HIDE DEF M, L
<1>5. M(date) < M(date + 1)
  BY <1>2, <1>3, <1>4 DEF IsZone
<1>6. Clock!IsoDateIn(zone, M(date) + 26) = date + 1
  <2>1. M(date) + 26 \in Int /\ date + 1 \in Int
    BY <1>2
  <2>2. 24 * (date + 1) <= L(M(date) + 26) /\ L(M(date) + 26) < 24 * (date + 1) + 24
    BY <1>2, <1>4 DEF IsZone
  <2>3. QED
    BY <2>1, <2>2, Offsets DEF L
<1>7. Clock!IsoDateIn(zone, M(date) + days * 24 + 12) = date + days
  <2>1. M(date) + days * 24 + 12 \in Int /\ date + days \in Int
    BY <1>2
  <2>2. /\ 24 * (date + days) <= L(M(date) + days * 24 + 12)
        /\ L(M(date) + days * 24 + 12) < 24 * (date + days) + 24
    BY <1>2, <1>4 DEF IsZone
  <2>3. QED
    BY <2>1, <2>2, Offsets DEF L
<1>8. Clock!LocalDayEndUtc(zone, date) = M(date + 1)
  BY <1>6 DEF M, Clock!LocalDayEndUtc
<1>9. Clock!DailyWindow(zone, date, days).endsAt = M(date + days)
  BY <1>7 DEF M, Clock!DailyWindow, Clock!Hours
<1>10. QED
  BY <1>2, <1>5, <1>8, <1>9

(* A schedule fires later, soon, and at its hour.                          *)
LEMMA AlwaysFiresNext ==
    ASSUME NEW zone, IsZone(zone), NEW after \in Int, NEW hour \in 0 .. 23
    PROVE  Clock!FiresNext(zone, after, hour)
<1> DEFINE M(d) == Clock!LocalMidnightUtc(zone, d)
           L(t) == Clock!LocalOf(zone, t)
           off(t) == IF t < zone.at THEN zone.before ELSE zone.after
           day == Clock!IsoDateIn(zone, after)
           next == Clock!NextLocalTimeUtc(zone, after, hour)
<1>1. day \in Int /\ 24 * day <= L(after) /\ L(after) < 24 * day + 24
  BY Offsets
<1>2. ASSUME NEW t \in Int
      PROVE  L(t) = t + off(t)
  BY Offsets
<1>3. ASSUME NEW d \in Int
      PROVE  M(d) = 24 * d - off(24 * d - off(24 * d))
  <2>1. off(24 * d) \in Int
    BY DEF IsZone
  <2>2. QED
    BY <2>1, Offsets DEF Clock!LocalMidnightUtc, Clock!Hours
<1>4. Clock!IsoDateIn(zone, M(day) + 26) = day + 1
  <2>1. M(day) \in Int /\ L(M(day)) - 24 * day \in -1 .. 1
    BY <1>1, MidnightIsShown
  <2>2. M(day) + 26 \in Int /\ day + 1 \in Int
    BY <1>1, <2>1
  <2>3. 24 * (day + 1) <= L(M(day) + 26) /\ L(M(day) + 26) < 24 * (day + 1) + 24
    <3>1. /\ L(M(day)) = M(day) + off(M(day))
          /\ L(M(day) + 26) = M(day) + 26 + off(M(day) + 26)
      BY <1>2, <2>1, <2>2
    <3>2. off(M(day)) \in Int /\ off(M(day) + 26) \in Int /\ off(M(day) + 26) - off(M(day)) \in -1 .. 1
      BY DEF IsZone
    <3> HIDE DEF M, L, day, off
    <3>3. QED
      BY <1>1, <2>1, <3>1, <3>2
  <2>4. QED
    BY <2>2, <2>3, Offsets
<1>5. next = IF M(day) + hour > after THEN M(day) + hour ELSE M(day + 1) + hour
  BY <1>4 DEF Clock!NextLocalTimeUtc
<1>6. Clock!HasMidnight(zone, day + 1) => L(M(day + 1)) = 24 * (day + 1)
  BY <1>1, MidnightIsShown
<1>7. Clock!FiresNext(zone, after, hour) <=>
        /\ Clock!HasMidnight(zone, day + 1) => Clock!DelayUntilNextFiring(zone, after, hour) > 0
        /\ next <= after + 48
        /\ off(after - 24) = off(after + 48) => L(next) % 24 = hour /\ next - after <= 24
  BY Offsets, SMTT(30) DEF Clock!FiresNext, Clock!Hours
<1>8. Clock!DelayUntilNextFiring(zone, after, hour) = IF next - after > 0 THEN next - after ELSE 0
  BY DEF Clock!DelayUntilNextFiring
<1> DEFINE b == zone.before
           a == zone.after
           at == zone.at
           l == L(after)
           m == M(day)
           k == M(day + 1)
<1>9. /\ b \in -12 .. 14 /\ a \in -12 .. 14 /\ a - b \in -1 .. 1 /\ at \in Int
      /\ l = after + (IF after < at THEN b ELSE a)
      /\ m = 24 * day - off(24 * day - off(24 * day))
      /\ k = 24 * (day + 1) - off(24 * (day + 1) - off(24 * (day + 1)))
      /\ m \in Int /\ k \in Int
  <2>1. day \in Int /\ day + 1 \in Int
    BY <1>1
  <2>2. m \in Int /\ k \in Int
    BY <2>1, MidnightIsShown
  <2>3. QED
    BY <1>2, <1>3, <2>1, <2>2 DEF IsZone
<1>10. L(k) = k + off(k) /\ L(m) = m + off(m) /\ next \in Int /\ L(next) = next + off(next)
  BY <1>2, <1>5, <1>9
<1> HIDE DEF M, L, day, next, b, a, at, l, m, k
<1>11. ASSUME k + off(k) = 24 * (day + 1)
       PROVE  next > after
  BY <1>1, <1>5, <1>9, <1>11, SMTT(30) DEF l, m, k, b, a, at
<1>12. next <= after + 48
  BY <1>1, <1>5, <1>9 DEF l, m, k, b, a, at
<1>13. ASSUME off(after - 24) = off(after + 48)
       PROVE  L(next) = 24 * day + hour \/ L(next) = 24 * (day + 1) + hour
  BY <1>1, <1>5, <1>9, <1>10, <1>13 DEF l, m, k, b, a, at
<1>14. ASSUME off(after - 24) = off(after + 48)
       PROVE  next - after <= 24
  <2>2. off(after) \in Int /\ l = after + off(after)
    BY <1>9 DEF b, a, at
  <2>3. m = 24 * day - off(after)
    BY <1>1, <1>9, <1>14 DEF l, b, a, at
  <2>4. k = 24 * (day + 1) - off(after)
    BY <1>1, <1>9, <1>14 DEF l, b, a, at
  <2> HIDE DEF off
  <2>5. QED
    BY <1>1, <1>5, <2>2, <2>3, <2>4 DEF l, m, k
<1>15. ASSUME off(after - 24) = off(after + 48)
       PROVE  L(next) % 24 = hour
  BY <1>1, <1>13, <1>15
<1>16. ASSUME Clock!HasMidnight(zone, day + 1)
       PROVE  Clock!DelayUntilNextFiring(zone, after, hour) > 0
  <2>1. next > after
    BY <1>6, <1>10, <1>11, <1>16 DEF k
  <2>2. QED
    BY <1>8, <1>10, <2>1
<1>17. QED
  BY <1>7, <1>12, <1>14, <1>15, <1>16

-----------------------------------------------------------------------------
(* The calendar of a century. *)
IsYear(y) == y \in Int /\ 2000 <= y /\ y <= 2099
IsDay(date) == date \in Int /\ 0 <= date /\ date <= 36524
NewYear(y) == 365 * (y - 2000) + (y + 3) \div 4 - 500

(* Division with a divisor that is not a literal.                          *)
LEMMA Quotient ==
    ASSUME NEW n \in Int, NEW d \in Nat \ {0}
    PROVE  /\ n \div d \in Int /\ d * (n \div d) <= n /\ n < d * (n \div d) + d
           /\ n % d = n - d * (n \div d)
OBVIOUS

(* Division keeps the order.                                               *)
LEMMA DivIsMonotone ==
    ASSUME NEW a \in Int, NEW b \in Int, a <= b, NEW d \in Nat \ {0}
    PROVE  a \div d <= b \div d
<1> DEFINE p == a \div d
           q == b \div d
<1>1. p \in Int /\ d * p <= a /\ q \in Int /\ b < d * q + d
  BY Quotient
<1> HIDE DEF p, q
<1>2. SUFFICES ASSUME q < p
               PROVE  FALSE
  BY <1>1 DEF p, q
<1>3. q + 1 <= p
  BY <1>1, <1>2
<1>4. d * (q + 1) <= d * p
  BY <1>1, <1>3
<1>5. d * (q + 1) = d * q + d
  BY <1>1
<1>6. d * p \in Int /\ d * q \in Int
  BY <1>1
<1>7. QED
  BY <1>1, <1>4, <1>5, <1>6

(* Nor does it change the sign.                                            *)
LEMMA DivSign ==
    ASSUME NEW n \in Nat, NEW d \in Nat \ {0}
    PROVE  n \div d \in Nat
<1>1. 0 \div d <= n \div d /\ n \div d \in Int
  BY DivIsMonotone, Quotient
<1>2. 0 \div d = 0
  OBVIOUS
<1>3. QED
  BY <1>1, <1>2

(* So does rounding towards zero.                                          *)

(* New year's day by the leap years before it.                             *)
LEMMA NewYearsDay ==
    ASSUME NEW y \in Int
    PROVE  /\ Clock!DateOf(y, 1, 1) = 365 * (y - 2000) + Clock!LeapsBefore(y) - 484
           /\ Clock!DateOf(y, 1, 1) \in Int
           /\ Clock!LeapsBefore(2000) = 484 /\ Clock!LeapsBefore(y) \in Int
           /\ Clock!LeapsBefore(y) = (y - 1) \div 4 - (y - 1) \div 100 + (y - 1) \div 400
           /\ (y - 1) \div 4 \in Int /\ (y - 1) \div 100 \in Int /\ (y - 1) \div 400 \in Int
<1>1. Clock!DaysBefore[1] = 0
  BY DEF Clock!DaysBefore
<1>2. Clock!LeapsBefore(2000) = 484
  BY DEF Clock!LeapsBefore
<1>3. /\ Clock!LeapsBefore(y) \in Int
      /\ Clock!LeapsBefore(y) = (y - 1) \div 4 - (y - 1) \div 100 + (y - 1) \div 400
      /\ (y - 1) \div 4 \in Int /\ (y - 1) \div 100 \in Int /\ (y - 1) \div 400 \in Int
  BY DEF Clock!LeapsBefore
<1> DEFINE L == Clock!LeapsBefore(y)
<1>4. Clock!DateOf(y, 1, 1) = 365 * (y - 2000) + L - 484 + 0 + 0 + 1 - 1
  BY <1>1, <1>2 DEF Clock!DateOf
<1>5. L \in Int
  BY <1>3
<1> HIDE DEF L
<1>6. Clock!DateOf(y, 1, 1) = 365 * (y - 2000) + L - 484
  BY <1>4, <1>5
<1>7. QED
  BY <1>2, <1>3, <1>5, <1>6 DEF L

(* A date counts from new year's day.                                      *)
LEMMA DayOfYear ==
    ASSUME NEW y \in Int, NEW m \in 1 .. 12, NEW d \in Int
    PROVE  Clock!DateOf(y, m, d) = Clock!DateOf(y, 1, 1) + Clock!DaysBefore[m]
                                     + (IF m > 2 /\ Clock!Leap(y) THEN 1 ELSE 0) + d - 1
<1> DEFINE L == Clock!LeapsBefore(y)
           B == Clock!DaysBefore[m]
           e == IF m > 2 /\ Clock!Leap(y) THEN 1 ELSE 0
<1>1. Clock!DateOf(y, m, d) = 365 * (y - 2000) + L - 484 + B + e + d - 1
  BY NewYearsDay DEF Clock!DateOf
<1>2. Clock!DateOf(y, 1, 1) = 365 * (y - 2000) + L - 484
  BY NewYearsDay
<1>3. L \in Int /\ B \in Int /\ e \in Int
  <2>1. B \in Int
    BY DEF Clock!DaysBefore
  <2>2. L \in Int
    BY NewYearsDay
  <2>3. QED
    BY <2>1, <2>2
<1> HIDE DEF L, B, e
<1>4. Clock!DateOf(y, m, d) = Clock!DateOf(y, 1, 1) + B + e + d - 1
  BY <1>1, <1>2, <1>3
<1>5. QED
  BY <1>4 DEF B, e

(* In the century, new years are 365 days apart and one every fourth.      *)
LEMMA NewYears ==
    /\ \A y \in Int : 2000 <= y /\ y <= 2100 => Clock!DateOf(y, 1, 1) = NewYear(y)
    /\ \A y : IsYear(y) => (Clock!Leap(y) <=> y % 4 = 0)
    /\ Clock!DateOf(1999, 1, 1) = -365 /\ Clock!DateOf(2000, 1, 1) = 0
    /\ Clock!DateOf(2100, 1, 1) = 36525 /\ Clock!DateOf(2101, 1, 1) = 36890
    /\ Clock!DateOf(2102, 1, 1) = 37255
<1>1. ASSUME NEW y \in Int, 2000 <= y, y <= 2100
      PROVE  Clock!DateOf(y, 1, 1) = NewYear(y)
  <2>1. (y - 1) \div 4 = (y + 3) \div 4 - 1
    OBVIOUS
  <2> DEFINE p == (y - 1) \div 100
             q == (y - 1) \div 400
             r == (y + 3) \div 4
  <2>2. /\ p \in Int /\ 100 * p <= y - 1 /\ y - 1 < 100 * p + 100
        /\ q \in Int /\ 400 * q <= y - 1 /\ y - 1 < 400 * q + 400
        /\ r \in Int
    BY NewYearsDay
  <2>3. Clock!LeapsBefore(y) = r - 1 - p + q
    <3>1. Clock!LeapsBefore(y) = (y - 1) \div 4 - p + q
      BY NewYearsDay
    <3>2. QED
      BY <2>1, <3>1
  <2>4. NewYear(y) = 365 * (y - 2000) + r - 500
    BY DEF NewYear
  <2> HIDE DEF p, q, r
  <2>5. CASE y = 2000
    BY NewYearsDay, <2>2, <2>3, <2>4, <2>5
  <2>6. CASE y > 2000
    <3>1. p <= 20 /\ p >= 20 /\ q <= 5 /\ q >= 5
      BY <1>1, <2>2, <2>6
    <3>2. p = 20 /\ q = 5
      BY <2>2, <3>1
    <3>3. QED
      BY NewYearsDay, <2>2, <2>3, <2>4, <3>2
  <2>7. QED
    BY <1>1, <2>5, <2>6
<1>2. ASSUME NEW y, IsYear(y)
      PROVE  Clock!Leap(y) <=> y % 4 = 0
  <2> DEFINE p == y % 100
  <2>1. y % 4 \in Int /\ p \in Int /\ y % 100 = p
    BY <1>2 DEF IsYear
  <2>2. y % 100 = 0 => y = 2000
    BY <1>2 DEF IsYear
  <2>3. 2000 % 400 = 0 /\ 2000 % 4 = 0
    OBVIOUS
  <2>4. QED
    BY <2>2, <2>3 DEF Clock!Leap
<1>3. /\ Clock!LeapsBefore(1999) = 484 /\ Clock!LeapsBefore(2100) = 509
      /\ Clock!LeapsBefore(2101) = 509 /\ Clock!LeapsBefore(2102) = 509
  BY DEF Clock!LeapsBefore
<1>4. /\ Clock!DateOf(1999, 1, 1) = -365 /\ Clock!DateOf(2000, 1, 1) = 0
       /\ Clock!DateOf(2100, 1, 1) = 36525 /\ Clock!DateOf(2101, 1, 1) = 36890
       /\ Clock!DateOf(2102, 1, 1) = 37255
  BY NewYearsDay, <1>3
<1>5. QED
  BY <1>1, <1>2, <1>4

(* The new years around the century.                                       *)
LEMMA SomeYears ==
    /\ Clock!DateOf(1999, 1, 1) = -365 /\ Clock!DateOf(2100, 1, 1) = 36525
    /\ Clock!DateOf(2101, 1, 1) = 36890
BY NewYears

(* The new years of the century.                                           *)
LEMMA YearsInTheCentury ==
    \A y \in Int : 2000 <= y /\ y <= 2100 => Clock!DateOf(y, 1, 1) = NewYear(y)
BY NewYears

(* The year that follows.                                                  *)
LEMMA NextYear ==
    ASSUME NEW y \in Int
    PROVE  /\ NewYear(y) \in Int
           /\ NewYear(y + 1) = NewYear(y) + (IF y % 4 = 0 THEN 366 ELSE 365)
<1>1. (y + 4) \div 4 = (y + 3) \div 4 + (IF y % 4 = 0 THEN 1 ELSE 0)
  OBVIOUS
<1>2. (y + 3) \div 4 \in Int
  OBVIOUS
<1>3. NewYear(y + 1) = 365 * (y - 1999) + (y + 4) \div 4 - 500
  BY DEF NewYear
<1>4. NewYear(y) = 365 * (y - 2000) + (y + 3) \div 4 - 500
  BY DEF NewYear
<1> DEFINE a == (y + 3) \div 4
           b == (y + 4) \div 4
<1> HIDE DEF a, b
<1>5. QED
  BY <1>1, <1>2, <1>3, <1>4 DEF a, b

(* New years follow each other, a year apart at least.                     *)
LEMMA YearsFollow ==
    /\ \A p, q \in Int : p < q => NewYear(p) + 365 <= NewYear(q)
    /\ \A y \in Int : NewYear(y) \in Int
         /\ NewYear(y + 1) = NewYear(y) + (IF y % 4 = 0 THEN 366 ELSE 365)
    /\ NewYear(2000) = 0 /\ NewYear(2100) = 36525
<1>1. ASSUME NEW p \in Int, NEW q \in Int, p < q
      PROVE  NewYear(p) + 365 <= NewYear(q)
  <2> DEFINE a == (p + 3) \div 4
             b == (q + 3) \div 4
  <2>1. /\ a \in Int /\ 4 * a <= p + 3 /\ p + 3 < 4 * a + 4
        /\ b \in Int /\ 4 * b <= q + 3 /\ q + 3 < 4 * b + 4
    BY Quotient
  <2>2. NewYear(p) = 365 * (p - 2000) + a - 500 /\ NewYear(q) = 365 * (q - 2000) + b - 500
    BY DEF NewYear
  <2> HIDE DEF a, b
  <2>3. a <= b
    BY <1>1, <2>1
  <2>4. QED
    BY <1>1, <2>1, <2>2, <2>3
<1>2. ASSUME NEW y \in Int
      PROVE  /\ NewYear(y) \in Int
             /\ NewYear(y + 1) = NewYear(y) + (IF y % 4 = 0 THEN 366 ELSE 365)
  BY NextYear
<1>3. NewYear(2000) = 0 /\ NewYear(2100) = 36525
  BY DEF NewYear
<1>4. QED
  BY <1>1, <1>2, <1>3

(* The year of a day is the one it is in.                                  *)
LEMMA YearOfDay ==
    ASSUME NEW date, IsDay(date), NEW y, IsYear(y), NewYear(y) <= date, date < NewYear(y + 1)
    PROVE  Clock!YearOf(date) = y
<1> DEFINE lo == 1999 + (date \div 366)
           hi == 2001 + (date \div 365)
           D(p) == Clock!DateOf(p, 1, 1)
<1>1. date \in Int /\ 0 <= date /\ date <= 36524 /\ y \in Int /\ 2000 <= y /\ y <= 2099
  BY DEF IsDay, IsYear
<1>2. /\ lo \in Int /\ 366 * (lo - 1999) <= date /\ date < 366 * (lo - 1999) + 366
      /\ hi \in Int /\ 365 * (hi - 2001) <= date /\ date < 365 * (hi - 2001) + 365
  <2>1. /\ date \div 366 \in Int /\ 366 * (date \div 366) <= date /\ date < 366 * (date \div 366) + 366
        /\ date \div 365 \in Int /\ 365 * (date \div 365) <= date /\ date < 365 * (date \div 365) + 365
    <3>1. date \div 366 \in Int /\ 366 * (date \div 366) <= date /\ date < 366 * (date \div 366) + 366
      BY <1>1
    <3>2. date \div 365 \in Int /\ 365 * (date \div 365) <= date /\ date < 365 * (date \div 365) + 365
      BY <1>1
    <3>3. QED
      BY <3>1, <3>2
  <2> DEFINE a == date \div 366
             b == date \div 365
  <2>2. lo = 1999 + a /\ hi = 2001 + b
    OBVIOUS
  <2> HIDE DEF a, b, lo, hi
  <2>3. QED
    BY <2>1, <2>2 DEF a, b
<1> HIDE DEF lo, hi
<1>3. y \in lo .. hi
  <2> DEFINE a == (y + 3) \div 4
  <2>1. /\ a \in Int /\ 4 * a <= y + 3 /\ y + 3 < 4 * a + 4
        /\ NewYear(y) = 365 * (y - 2000) + a - 500
    BY <1>1, Quotient DEF NewYear
  <2>2. NewYear(y) \in Int /\ NewYear(y + 1) \in Int /\ NewYear(y + 1) <= NewYear(y) + 366
    <3>1. NewYear(y) \in Int /\ NewYear(y + 1) = NewYear(y) + (IF y % 4 = 0 THEN 366 ELSE 365)
      BY <1>1, YearsFollow
    <3>2. QED
      BY <3>1
  <2> HIDE DEF a
  <2>3. a <= 500 + y - 2000 /\ 500 <= a
    BY <1>1, <2>1
  <2>4. 365 * (y - 2000) <= date /\ date < 366 * (y - 2000) + 366
    <3>1. 365 * (y - 2000) <= NewYear(y) /\ NewYear(y) <= 366 * (y - 2000)
      BY <1>1, <2>1, <2>3
    <3>2. QED
      BY <1>1, <2>2, <3>1
  <2>5. y <= hi /\ lo <= y
    BY <1>1, <1>2, <2>4
  <2>6. QED
    BY <1>1, <1>2, <2>5
<1>4. D(y) <= date /\ date < D(y + 1)
  BY <1>1, YearsInTheCentury
<1>5. ASSUME NEW p \in lo .. hi, D(p) <= date, date < D(p + 1)
      PROVE  p = y
  <2>1. p \in Int /\ 1999 <= p /\ p <= 2101
    <3>1. lo >= 1999 /\ hi <= 2101
      BY <1>1, <1>2
    <3>2. QED
      BY <1>2, <3>1
  <2>2. p /= 1999
    BY <1>1, <1>5, YearsInTheCentury DEF NewYear
  <2>3. p /= 2100 /\ p /= 2101
    <3>1. ~(D(2100) <= date) /\ ~(D(2101) <= date)
      BY <1>1, SomeYears
    <3>2. QED
      BY <1>5, <3>1
  <2>4. 2000 <= p /\ p <= 2099
    BY <2>1, <2>2, <2>3
  <2>5. NewYear(p) <= date /\ date < NewYear(p + 1)
    BY <1>5, <2>1, <2>4, YearsInTheCentury
  <2>6. /\ NewYear(p) \in Int /\ NewYear(y) \in Int /\ NewYear(p + 1) \in Int /\ NewYear(y + 1) \in Int
        /\ p < y => NewYear(p + 1) <= NewYear(y)
        /\ y < p => NewYear(y + 1) <= NewYear(p)
    <3>1. /\ NewYear(p) \in Int /\ NewYear(y) \in Int /\ NewYear(p + 1) \in Int /\ NewYear(y + 1) \in Int
          /\ p + 1 < y => NewYear(p + 1) + 365 <= NewYear(y)
          /\ y + 1 < p => NewYear(y + 1) + 365 <= NewYear(p)
      <4>1. p + 1 \in Int /\ y + 1 \in Int
        BY <1>1, <2>1
      <4>2. /\ NewYear(p) \in Int /\ NewYear(y) \in Int
            /\ NewYear(p + 1) \in Int /\ NewYear(y + 1) \in Int
        BY <1>1, <2>1, <4>1, YearsFollow
      <4>3. ASSUME p + 1 < y
            PROVE  NewYear(p + 1) + 365 <= NewYear(y)
        BY <1>1, <4>1, <4>3, YearsFollow
      <4>4. ASSUME y + 1 < p
            PROVE  NewYear(y + 1) + 365 <= NewYear(p)
        BY <2>1, <4>1, <4>4, YearsFollow
      <4>5. QED
        BY <4>2, <4>3, <4>4
    <3>2. (p < y => p + 1 < y \/ p + 1 = y) /\ (y < p => y + 1 < p \/ y + 1 = p)
      BY <1>1, <2>1
    <3>3. QED
      BY <3>1, <3>2
  <2>7. ~(p < y) /\ ~(y < p)
    BY <1>1, <2>5, <2>6
  <2>8. QED
    BY <1>1, <2>1, <2>7
<1> HIDE DEF D
<1>6. QED
  BY <1>3, <1>4, <1>5 DEF Clock!YearOf, lo, hi, D

(* Every day of the century is in one of its years.                        *)
LEMMA DayHasAYear ==
    ASSUME NEW date, IsDay(date)
    PROVE  \E y : IsYear(y) /\ NewYear(y) <= date /\ date < NewYear(y + 1)
<1> DEFINE c == date \div 1461
           r == date - 1461 * c
           k == IF r < 366 THEN 0 ELSE IF r < 731 THEN 1 ELSE IF r < 1096 THEN 2 ELSE 3
           y == 2000 + 4 * c + k
<1>1. /\ date \in Int /\ 0 <= date /\ date <= 36524
      /\ c \in Int /\ 1461 * c <= date /\ date < 1461 * c + 1461
  BY Quotient DEF IsDay
<1> HIDE DEF c
<1>2. r \in Int /\ 0 <= r /\ r < 1461 /\ date = 1461 * c + r /\ 0 <= c /\ c <= 24
  <2>1. 0 <= c /\ c <= 24
    BY <1>1
  <2>2. QED
    BY <1>1, <2>1
<1> HIDE DEF r
<1>3. \/ k = 0 /\ 0 <= r /\ r < 366
      \/ k = 1 /\ 366 <= r /\ r < 731
      \/ k = 2 /\ 731 <= r /\ r < 1096
      \/ k = 3 /\ 1096 <= r /\ r < 1461
  BY <1>2
<1> HIDE DEF k
<1>4. k \in Int /\ 0 <= k /\ k <= 3
  BY <1>3
<1>5. IsYear(y)
  BY <1>1, <1>2, <1>4 DEF IsYear
<1>6. NewYear(y) = 1461 * c + 365 * k + (k + 3) \div 4
  <2>1. (y + 3) \div 4 = 500 + c + (k + 3) \div 4
    BY <1>1, <1>4
  <2>2. (k + 3) \div 4 \in Int
    BY <1>4
  <2>3. QED
    BY <1>1, <1>4, <2>1, <2>2 DEF NewYear
<1>7. NewYear(y + 1) = 1461 * c + 365 * (k + 1) + (k + 4) \div 4
  <2>1. (y + 4) \div 4 = 500 + c + (k + 4) \div 4
    BY <1>1, <1>4
  <2>2. (k + 4) \div 4 \in Int
    BY <1>4
  <2>3. NewYear(y + 1) = 365 * (y - 1999) + (y + 4) \div 4 - 500
    BY <1>5 DEF NewYear, IsYear
  <2>4. QED
    BY <1>1, <1>4, <2>1, <2>2, <2>3
<1>8. NewYear(y) <= date /\ date < NewYear(y + 1)
  <2>1. /\ (0 + 3) \div 4 = 0 /\ (1 + 3) \div 4 = 1 /\ (2 + 3) \div 4 = 1 /\ (3 + 3) \div 4 = 1
        /\ (0 + 4) \div 4 = 1 /\ (1 + 4) \div 4 = 1 /\ (2 + 4) \div 4 = 1 /\ (3 + 4) \div 4 = 1
    OBVIOUS
  <2> HIDE DEF y
  <2>2. QED
    BY <1>1, <1>2, <1>3, <1>6, <1>7, <2>1
<1>9. QED
  BY <1>5, <1>8

(* How many days of a year are before a month of it.                       *)
Before(y, m) == Clock!DaysBefore[m] + (IF m > 2 /\ Clock!Leap(y) THEN 1 ELSE 0)

(* The months of a year: how long they are and where they begin.           *)
LEMMA MonthTable ==
    ASSUME NEW y
    PROVE  /\ \A m \in 1 .. 12 : /\ Before(y, m) \in Int /\ Before(y, m) >= 0
                                 /\ Clock!MonthLength(y, m) \in Int
                                 /\ Clock!MonthLength(y, m) >= 28 /\ Clock!MonthLength(y, m) <= 31
           /\ Before(y, 1) = 0
           /\ \A m \in 1 .. 11 : Before(y, m + 1) = Before(y, m) + Clock!MonthLength(y, m)
           /\ Before(y, 12) + Clock!MonthLength(y, 12) = IF Clock!Leap(y) THEN 366 ELSE 365
<1>1. Clock!DaysBefore = <<0, 31, 59, 90, 120, 151, 181, 212, 243, 273, 304, 334>>
  BY DEF Clock!DaysBefore
<1>2. \A m \in 1 .. 12 : \/ m = 1 \/ m = 2 \/ m = 3 \/ m = 4 \/ m = 5 \/ m = 6 \/ m = 7 \/ m = 8
                         \/ m = 9 \/ m = 10 \/ m = 11 \/ m = 12
  OBVIOUS
<1> DEFINE e == IF Clock!Leap(y) THEN 1 ELSE 0
<1>3. /\ Before(y, 1) = 0 /\ Before(y, 2) = 31 /\ Before(y, 3) = 59 + e /\ Before(y, 4) = 90 + e
      /\ Before(y, 5) = 120 + e /\ Before(y, 6) = 151 + e /\ Before(y, 7) = 181 + e
      /\ Before(y, 8) = 212 + e /\ Before(y, 9) = 243 + e /\ Before(y, 10) = 273 + e
      /\ Before(y, 11) = 304 + e /\ Before(y, 12) = 334 + e
  BY <1>1 DEF Before
<1>4. /\ Clock!MonthLength(y, 1) = 31 /\ Clock!MonthLength(y, 2) = 28 + e
      /\ Clock!MonthLength(y, 3) = 31 /\ Clock!MonthLength(y, 4) = 30
      /\ Clock!MonthLength(y, 5) = 31 /\ Clock!MonthLength(y, 6) = 30
      /\ Clock!MonthLength(y, 7) = 31 /\ Clock!MonthLength(y, 8) = 31
      /\ Clock!MonthLength(y, 9) = 30 /\ Clock!MonthLength(y, 10) = 31
      /\ Clock!MonthLength(y, 11) = 30 /\ Clock!MonthLength(y, 12) = 31
  BY DEF Clock!MonthLength
<1>5. e \in 0 .. 1 /\ (e = 1 <=> Clock!Leap(y))
  OBVIOUS
<1> HIDE DEF e
<1>6. ASSUME NEW m \in 1 .. 12
      PROVE  /\ Before(y, m) \in Int /\ Before(y, m) >= 0
             /\ Clock!MonthLength(y, m) \in Int
             /\ Clock!MonthLength(y, m) >= 28 /\ Clock!MonthLength(y, m) <= 31
  BY <1>2, <1>3, <1>4, <1>5
<1>7. ASSUME NEW m \in 1 .. 11
      PROVE  Before(y, m + 1) = Before(y, m) + Clock!MonthLength(y, m)
  <2>1. \/ m = 1 \/ m = 2 \/ m = 3 \/ m = 4 \/ m = 5 \/ m = 6 \/ m = 7 \/ m = 8
        \/ m = 9 \/ m = 10 \/ m = 11
    OBVIOUS
  <2>2. QED
    BY <1>3, <1>4, <1>5, <2>1
<1>8. Before(y, 12) + Clock!MonthLength(y, 12) = IF Clock!Leap(y) THEN 366 ELSE 365
  BY <1>3, <1>4, <1>5
<1>9. QED
  BY <1>3, <1>6, <1>7, <1>8

(* The lengths of months, without their order.                             *)
LEMMA MonthRanges ==
    ASSUME NEW y
    PROVE  /\ \A i \in 1 .. 12 : /\ Before(y, i) \in Int /\ Before(y, i) >= 0
                                 /\ Clock!MonthLength(y, i) \in Int
                                 /\ Clock!MonthLength(y, i) >= 28 /\ Clock!MonthLength(y, i) <= 31
           /\ Before(y, 1) = 0
BY MonthTable

(* A later month of the year begins at the end of an earlier, or later.    *)
LEMMA MonthsFollow ==
    ASSUME NEW y, NEW m \in 1 .. 12, NEW k \in 1 .. 12, m < k
    PROVE  Before(y, m) + Clock!MonthLength(y, m) <= Before(y, k)
<1> DEFINE b(i) == Before(y, i)
           l(i) == Clock!MonthLength(y, i)
<1>1. /\ \A i \in 1 .. 12 : b(i) \in Int /\ l(i) \in Int /\ l(i) >= 28
      /\ \A i \in 1 .. 11 : b(i + 1) = b(i) + l(i)
  BY MonthTable
<1> HIDE DEF b, l
<1>2. /\ b(2) = b(1) + l(1) /\ b(3) = b(2) + l(2) /\ b(4) = b(3) + l(3) /\ b(5) = b(4) + l(4)
      /\ b(6) = b(5) + l(5) /\ b(7) = b(6) + l(6) /\ b(8) = b(7) + l(7) /\ b(9) = b(8) + l(8)
      /\ b(10) = b(9) + l(9) /\ b(11) = b(10) + l(10) /\ b(12) = b(11) + l(11)
  BY <1>1
<1>3. \A i \in 1 .. 12 : \/ i = 1 \/ i = 2 \/ i = 3 \/ i = 4 \/ i = 5 \/ i = 6 \/ i = 7 \/ i = 8
                         \/ i = 9 \/ i = 10 \/ i = 11 \/ i = 12
  OBVIOUS
<1>4. b(m) + l(m) <= b(k)
  BY <1>1, <1>2, <1>3
<1>5. QED
  BY <1>4 DEF b, l

(* A date counts from new year's day and the first of the month.           *)
LEMMA FirstOfMonth ==
    ASSUME NEW y, IsYear(y), NEW m \in 1 .. 12, NEW d \in Int
    PROVE  /\ Clock!DateOf(y, m, d) = NewYear(y) + Before(y, m) + d - 1
           /\ NewYear(y) \in Int /\ NewYear(y) >= 0 /\ NewYear(y + 1) <= 36525
           /\ NewYear(y + 1) = NewYear(y) + Before(y, 12) + Clock!MonthLength(y, 12)
<1>1. y \in Int /\ 2000 <= y /\ y <= 2099
  BY DEF IsYear
<1>2. Clock!DateOf(y, m, d) = Clock!DateOf(y, 1, 1) + Clock!DaysBefore[m]
                                + (IF m > 2 /\ Clock!Leap(y) THEN 1 ELSE 0) + d - 1
  BY <1>1, DayOfYear
<1>3. Clock!DateOf(y, 1, 1) = NewYear(y)
  BY <1>1, YearsInTheCentury
<1>4. NewYear(y) \in Int /\ NewYear(y + 1) \in Int /\ NewYear(2000) = 0 /\ NewYear(2100) = 36525
  BY <1>1, YearsFollow
<1>5. NewYear(y + 1) = NewYear(y) + (IF Clock!Leap(y) THEN 366 ELSE 365)
  <2>1. NewYear(y + 1) = NewYear(y) + (IF y % 4 = 0 THEN 366 ELSE 365)
    BY <1>1, NextYear
  <2>2. Clock!Leap(y) <=> y % 4 = 0
    BY NewYears
  <2>3. QED
    BY <2>1, <2>2
<1>6. NewYear(y) >= 0
  <2>1. y = 2000 \/ 2000 < y
    BY <1>1
  <2>2. 2000 < y => NewYear(2000) + 365 <= NewYear(y)
    BY <1>1, YearsFollow
  <2>3. QED
    BY <1>4, <2>1, <2>2
<1>7. NewYear(y + 1) <= 36525
  <2>1. y + 1 = 2100 \/ y + 1 < 2100
    BY <1>1
  <2>2. y + 1 < 2100 => NewYear(y + 1) + 365 <= NewYear(2100)
    BY <1>1, YearsFollow
  <2>3. QED
    BY <1>4, <2>1, <2>2
<1>8. Before(y, m) \in Int /\ Clock!DaysBefore[m] \in Int
  BY MonthTable DEF Before, Clock!DaysBefore
<1>9. Clock!DateOf(y, m, d) = NewYear(y) + Before(y, m) + d - 1
  <2> DEFINE e == IF m > 2 /\ Clock!Leap(y) THEN 1 ELSE 0
             B == Clock!DaysBefore[m]
  <2>1. Before(y, m) = B + e /\ e \in Int
    BY DEF Before
  <2> HIDE DEF e, B
  <2>2. Clock!DateOf(y, m, d) = NewYear(y) + B + e + d - 1 /\ B \in Int
    BY <1>2, <1>3, <1>8 DEF e, B
  <2>3. QED
    BY <1>4, <2>1, <2>2
<1>10. NewYear(y + 1) = NewYear(y) + Before(y, 12) + Clock!MonthLength(y, 12)
  <2>1. /\ Before(y, 12) + Clock!MonthLength(y, 12) = IF Clock!Leap(y) THEN 366 ELSE 365
        /\ Before(y, 12) \in Int /\ Clock!MonthLength(y, 12) \in Int
    BY MonthTable
  <2>2. QED
    BY <1>4, <1>5, <2>1
<1>11. QED
  BY <1>4, <1>6, <1>7, <1>9, <1>10

(* The parts a date is made of are those it is taken apart into.           *)
IsDate(y, m, d) ==
    /\ IsYear(y) /\ m \in 1 .. 12
    /\ d \in Int /\ 1 <= d /\ d <= Clock!MonthLength(y, m)

(* A date's year, month and day are those it was made of.                  *)
LEMMA PartsOfADate ==
    ASSUME NEW y, NEW m, NEW d, IsDate(y, m, d)
    PROVE  /\ IsDay(Clock!DateOf(y, m, d)) /\ Clock!YearOf(Clock!DateOf(y, m, d)) = y
           /\ Clock!MonthOf(Clock!DateOf(y, m, d)) = m /\ Clock!DayOf(Clock!DateOf(y, m, d)) = d
<1> DEFINE date == Clock!DateOf(y, m, d)
           N == NewYear(y)
           b(i) == Before(y, i)
           l(i) == Clock!MonthLength(y, i)
<1>1. IsYear(y) /\ m \in 1 .. 12 /\ d \in Int /\ 1 <= d /\ d <= l(m)
  BY DEF IsDate
<1>2. /\ date = N + b(m) + d - 1 /\ N \in Int /\ N >= 0 /\ NewYear(y + 1) <= 36525
      /\ NewYear(y + 1) = N + b(12) + l(12)
  BY <1>1, FirstOfMonth
<1>3. /\ \A i \in 1 .. 12 : b(i) \in Int /\ l(i) \in Int /\ b(i) >= 0 /\ l(i) >= 28
      /\ b(1) = 0
  BY MonthRanges
<1>4. \A i, j \in 1 .. 12 : i < j => b(i) + l(i) <= b(j)
  BY MonthsFollow
<1>5. \A i \in 1 .. 12 : Clock!DateOf(y, i, 1) = N + b(i)
  <2>1. ASSUME NEW i \in 1 .. 12
        PROVE  Clock!DateOf(y, i, 1) = N + b(i)
    <3>1. Clock!DateOf(y, i, 1) = N + b(i) + 1 - 1
      BY <1>1, FirstOfMonth
    <3>2. QED
      BY <1>2, <1>3, <3>1
  <2>2. QED
    BY <2>1
<1> HIDE DEF date, N, b, l
<1>6. N <= date /\ date < N + b(12) + l(12)
  <2>1. m = 12 \/ b(m) + l(m) <= b(12)
    BY <1>1, <1>4
  <2>2. b(m) \in Int /\ l(m) \in Int /\ b(m) >= 0 /\ b(12) \in Int /\ l(12) \in Int /\ l(12) >= 28
    BY <1>1, <1>3
  <2>3. QED
    BY <1>1, <1>2, <2>1, <2>2
<1>7. IsDay(date)
  <2>1. b(m) \in Int /\ b(12) \in Int /\ l(12) \in Int
    BY <1>1, <1>3
  <2>2. QED
    BY <1>1, <1>2, <1>6, <2>1 DEF IsDay
<1>8. Clock!YearOf(date) = y
  BY <1>1, <1>2, <1>6, <1>7, YearOfDay DEF N
<1>9. ASSUME NEW i \in 1 .. 12, 0 <= date - (N + b(i)), date - (N + b(i)) < l(i)
      PROVE  i = m
  <2>1. /\ b(m) \in Int /\ l(m) \in Int /\ b(i) \in Int /\ l(i) \in Int
        /\ b(i) <= b(m) + d - 1 /\ b(m) + d - 1 < b(i) + l(i)
    BY <1>1, <1>2, <1>3, <1>9
  <2>2. ~(i < m)
    BY <1>1, <1>4, <2>1
  <2>3. ~(m < i)
    BY <1>1, <1>4, <2>1
  <2>4. QED
    BY <1>1, <2>2, <2>3
<1>10. 0 <= date - (N + b(m)) /\ date - (N + b(m)) < l(m)
  <2>1. b(m) \in Int /\ l(m) \in Int
    BY <1>1, <1>3
  <2>2. QED
    BY <1>1, <1>2, <2>1
<1>11. Clock!MonthOf(date) = m
  <2>1. Clock!MonthOf(date) = CHOOSE i \in 1 .. 12 : /\ 0 <= date - Clock!DateOf(y, i, 1)
                                                      /\ date - Clock!DateOf(y, i, 1) < l(i)
    BY <1>8 DEF Clock!MonthOf, l
  <2>2. ASSUME NEW i \in 1 .. 12
        PROVE  (0 <= date - Clock!DateOf(y, i, 1) /\ date - Clock!DateOf(y, i, 1) < l(i)) <=> i = m
    <3>1. Clock!DateOf(y, i, 1) = N + b(i)
      BY <1>5
    <3>2. (0 <= date - (N + b(i)) /\ date - (N + b(i)) < l(i)) => i = m
      BY <1>9
    <3>3. QED
      BY <1>10, <3>1, <3>2
  <2>3. QED
    BY <1>1, <2>1, <2>2
<1>12. Clock!DayOf(date) = d
  <2>1. Clock!DayOf(date) = date - (N + b(m)) + 1
    BY <1>1, <1>5, <1>8, <1>11 DEF Clock!DayOf
  <2>2. b(m) \in Int
    BY <1>1, <1>3
  <2>3. QED
    BY <1>1, <1>2, <2>1, <2>2
<1>13. QED
  BY <1>7, <1>8, <1>11, <1>12 DEF date

(* Every day of a year is in a month of it.                                *)
LEMMA DayHasAMonth ==
    ASSUME NEW y, IsYear(y), NEW n \in Int, 0 <= n, n < Before(y, 12) + Clock!MonthLength(y, 12)
    PROVE  \E m \in 1 .. 12 : Before(y, m) <= n /\ n < Before(y, m) + Clock!MonthLength(y, m)
<1> DEFINE b(i) == Before(y, i)
           l(i) == Clock!MonthLength(y, i)
<1>1. /\ \A i \in 1 .. 12 : b(i) \in Int /\ l(i) \in Int
      /\ \A i \in 1 .. 11 : b(i + 1) = b(i) + l(i)
      /\ b(1) = 0
  <2>1. \A i \in 1 .. 11 : b(i + 1) = b(i) + l(i)
    BY MonthTable
  <2>2. QED
    BY <2>1, MonthRanges
<1>2. n < b(12) + l(12)
  OBVIOUS
<1> HIDE DEF b, l
<1>3. /\ b(2) = b(1) + l(1) /\ b(3) = b(2) + l(2) /\ b(4) = b(3) + l(3) /\ b(5) = b(4) + l(4)
      /\ b(6) = b(5) + l(5) /\ b(7) = b(6) + l(6) /\ b(8) = b(7) + l(7) /\ b(9) = b(8) + l(8)
      /\ b(10) = b(9) + l(9) /\ b(11) = b(10) + l(10) /\ b(12) = b(11) + l(11)
  BY <1>1
<1>4. /\ b(1) \in Int /\ b(2) \in Int /\ b(3) \in Int /\ b(4) \in Int /\ b(5) \in Int
      /\ b(6) \in Int /\ b(7) \in Int /\ b(8) \in Int /\ b(9) \in Int /\ b(10) \in Int
      /\ b(11) \in Int /\ b(12) \in Int /\ b(12) + l(12) \in Int
  BY <1>1
<1>5. \/ (b(1) <= n /\ n < b(2)) \/ (b(2) <= n /\ n < b(3)) \/ (b(3) <= n /\ n < b(4))
      \/ (b(4) <= n /\ n < b(5)) \/ (b(5) <= n /\ n < b(6)) \/ (b(6) <= n /\ n < b(7))
      \/ (b(7) <= n /\ n < b(8)) \/ (b(8) <= n /\ n < b(9)) \/ (b(9) <= n /\ n < b(10))
      \/ (b(10) <= n /\ n < b(11)) \/ (b(11) <= n /\ n < b(12)) \/ (b(12) <= n /\ n < b(12) + l(12))
  BY <1>1, <1>2, <1>4
<1>6. \E m \in 1 .. 12 : b(m) <= n /\ n < b(m) + l(m)
  BY <1>3, <1>5
<1>7. QED
  BY <1>6 DEF b, l

(* Taken apart and put together a day is itself.                           *)
LEMMA DateOfParts ==
    ASSUME NEW date, IsDay(date)
    PROVE  /\ IsDate(Clock!YearOf(date), Clock!MonthOf(date), Clock!DayOf(date))
           /\ Clock!DateOf(Clock!YearOf(date), Clock!MonthOf(date), Clock!DayOf(date)) = date
<1>1. PICK y : IsYear(y) /\ NewYear(y) <= date /\ date < NewYear(y + 1)
  BY DayHasAYear
<1>2. /\ NewYear(y) \in Int /\ NewYear(y + 1) = NewYear(y) + Before(y, 12) + Clock!MonthLength(y, 12)
      /\ Before(y, 12) \in Int /\ Clock!MonthLength(y, 12) \in Int /\ date \in Int
  <2>1. /\ NewYear(y) \in Int
        /\ NewYear(y + 1) = NewYear(y) + Before(y, 12) + Clock!MonthLength(y, 12)
    BY <1>1, FirstOfMonth, 12 \in 1 .. 12, 1 \in Int
  <2>2. Before(y, 12) \in Int /\ Clock!MonthLength(y, 12) \in Int
    BY MonthRanges
  <2>3. QED
    BY <2>1, <2>2 DEF IsDay
<1> DEFINE n == date - NewYear(y)
<1>3. n \in Int /\ 0 <= n /\ n < Before(y, 12) + Clock!MonthLength(y, 12) /\ date = NewYear(y) + n
  BY <1>1, <1>2
<1> HIDE DEF n
<1>4. PICK m \in 1 .. 12 : Before(y, m) <= n /\ n < Before(y, m) + Clock!MonthLength(y, m)
  BY <1>1, <1>3, DayHasAMonth
<1> DEFINE d == n - Before(y, m) + 1
<1>5. Before(y, m) \in Int /\ Clock!MonthLength(y, m) \in Int
  BY MonthRanges
<1>6. d \in Int /\ 1 <= d /\ d <= Clock!MonthLength(y, m)
  BY <1>3, <1>4, <1>5
<1>7. Clock!DateOf(y, m, d) = date
  <2>1. Clock!DateOf(y, m, d) = NewYear(y) + Before(y, m) + d - 1
    BY <1>1, <1>6, FirstOfMonth
  <2>2. QED
    BY <1>2, <1>3, <1>5, <2>1
<1> HIDE DEF d
<1>8. IsDate(y, m, d)
  BY <1>1, <1>6 DEF IsDate
<1>9. Clock!YearOf(date) = y /\ Clock!MonthOf(date) = m /\ Clock!DayOf(date) = d
  BY <1>7, <1>8, PartsOfADate
<1>10. QED
  BY <1>7, <1>8, <1>9

(* A later month begins at the end of an earlier, or later.                *)
LEMMA MonthsLater ==
    ASSUME NEW y, IsYear(y), NEW m \in 1 .. 12, NEW z, IsYear(z), NEW k \in 1 .. 12,
           12 * y + m < 12 * z + k
    PROVE  NewYear(y) + Before(y, m) + Clock!MonthLength(y, m) <= NewYear(z) + Before(z, k)
<1>1. y \in Int /\ z \in Int
  BY DEF IsYear
<1>2. y < z \/ (y = z /\ m < k)
  BY <1>1
<1> DEFINE s == NewYear(y)
           t == NewYear(z)
           u == NewYear(y + 1)
           p == Before(y, m)
           q == Before(z, k)
           l == Clock!MonthLength(y, m)
<1>3. /\ p \in Int /\ l \in Int /\ q \in Int /\ q >= 0
      /\ Before(y, 12) \in Int /\ Clock!MonthLength(y, 12) \in Int /\ Clock!MonthLength(y, 12) >= 28
  BY MonthRanges
<1>4. s \in Int /\ u = s + Before(y, 12) + Clock!MonthLength(y, 12)
  BY FirstOfMonth, 1 \in Int
<1>5. t \in Int
  BY FirstOfMonth, 1 \in Int
<1>6. CASE y < z
  <2>1. u <= t
    <3>1. y + 1 = z \/ y + 1 < z
      BY <1>1, <1>6
    <3>2. y + 1 < z => u + 365 <= t
      BY <1>1, YearsFollow
    <3>3. u \in Int
      BY <1>3, <1>4
    <3>4. QED
      BY <1>5, <3>1, <3>2, <3>3
  <2>2. p + l <= Before(y, 12) + Clock!MonthLength(y, 12)
    <3>1. m = 12 \/ m < 12
      OBVIOUS
    <3>2. m < 12 => p + l <= Before(y, 12)
      BY MonthsFollow
    <3>3. QED
      BY <1>3, <3>1, <3>2
  <2>3. QED
    BY <1>3, <1>4, <1>5, <2>1, <2>2
<1>7. CASE y = z /\ m < k
  <2>1. p + l <= q
    BY <1>7, MonthsFollow
  <2>2. s = t
    BY <1>7
  <2>3. QED
    BY <1>3, <1>4, <2>1, <2>2
<1>8. QED
  BY <1>2, <1>6, <1>7

(* Months later is at least four weeks later, on the day of the month or   *)
(* on the last there is.                                                   *)
LEMMA AddedMonths ==
    ASSUME NEW date, IsDay(date), NEW months \in 1 .. 24, Clock!YearOf(date) <= 2096
    PROVE  LET e == Clock!AddMonths(date, months)
           IN  /\ IsDay(e) /\ e >= date + 28 /\ Clock!YearOf(e) <= Clock!YearOf(date) + 2
               /\ Clock!DayOf(e) <= Clock!DayOf(date) /\ Clock!DayOf(date) - Clock!DayOf(e) <= 3
<1> DEFINE y == Clock!YearOf(date)
           m == Clock!MonthOf(date)
           d == Clock!DayOf(date)
           total == m - 1 + months
           z == y + total \div 12
           k == (total % 12) + 1
           last == Clock!MonthLength(z, k)
           c == IF d < last THEN d ELSE last
           e == Clock!AddMonths(date, months)
<1>1. IsDate(y, m, d) /\ Clock!DateOf(y, m, d) = date
  BY DateOfParts
<1>2. /\ y \in Int /\ 2000 <= y /\ y <= 2096 /\ m \in 1 .. 12 /\ IsYear(y)
      /\ d \in Int /\ 1 <= d /\ d <= Clock!MonthLength(y, m)
  BY <1>1 DEF IsDate, IsYear
<1>3. e = Clock!DateOf(z, k, c)
  BY DEF Clock!AddMonths
<1> HIDE DEF y, m, d, e
<1>4. total \in Int /\ 1 <= total /\ total <= 35 /\ total = m - 1 + months
  BY <1>2
<1> HIDE DEF total
<1>5. /\ z \in Int /\ y <= z /\ z <= y + 2 /\ k \in 1 .. 12
      /\ 12 * z + k = 12 * y + total + 1
  <2> DEFINE a == total \div 12
             b == total % 12
  <2>1. a \in Int /\ 0 <= a /\ a <= 2 /\ b \in 0 .. 11 /\ total = 12 * a + b
    <3>1. a \in Int /\ 12 * a <= total /\ total < 12 * a + 12
      BY <1>4
    <3>2. b \in Int /\ 0 <= b /\ b <= 11
      BY <1>4
    <3>3. total = 12 * a + b
      BY <1>4
    <3> HIDE DEF a, b
    <3>4. QED
      BY <1>4, <3>1, <3>2, <3>3
  <2>2. z = y + a /\ k = b + 1
    OBVIOUS
  <2> HIDE DEF a, b, z, k
  <2>3. QED
    BY <1>2, <2>1, <2>2
<1> HIDE DEF z, k
<1>6. IsYear(z) /\ 12 * y + m < 12 * z + k
  BY <1>2, <1>4, <1>5 DEF IsYear
<1>7. /\ last \in Int /\ last >= 28 /\ last <= 31
      /\ Clock!MonthLength(y, m) \in Int /\ Clock!MonthLength(y, m) >= 28 /\ Clock!MonthLength(y, m) <= 31
      /\ Before(y, m) \in Int /\ Before(z, k) \in Int
  BY <1>2, <1>5, MonthRanges
<1>8. IsDate(z, k, c) /\ c \in Int
  BY <1>2, <1>5, <1>6, <1>7 DEF IsDate
<1>9. IsDay(e) /\ Clock!YearOf(e) = z /\ Clock!DayOf(e) = c
  BY <1>3, <1>8, PartsOfADate
<1>10. date = NewYear(y) + Before(y, m) + d - 1 /\ NewYear(y) \in Int
  BY <1>1, <1>2, FirstOfMonth
<1>11. e = NewYear(z) + Before(z, k) + c - 1 /\ NewYear(z) \in Int
  BY <1>3, <1>5, <1>6, <1>8, FirstOfMonth
<1>12. NewYear(y) + Before(y, m) + Clock!MonthLength(y, m) <= NewYear(z) + Before(z, k)
  BY <1>2, <1>5, <1>6, MonthsLater
<1>13. /\ c <= d /\ d - c <= 3 /\ Clock!MonthLength(y, m) + c - d >= 28
  BY <1>2, <1>7
<1> HIDE DEF c, last
<1>14. e >= date + 28
  BY <1>2, <1>7, <1>8, <1>10, <1>11, <1>12, <1>13
<1>15. QED
  BY <1>5, <1>9, <1>13, <1>14 DEF y, d, e

-----------------------------------------------------------------------------
(* A term and its extension.                                               *)
LEMMA TermsAlwaysTile ==
    ASSUME NEW zone, IsZone(zone), NEW date, IsDay(date), Clock!YearOf(date) <= 2094,
           NEW months \in 1 .. 24, NEW more \in 1 .. 24
    PROVE  Clock!TermsTile(zone, date, months, more)
<1> DEFINE M(d) == Clock!LocalMidnightUtc(zone, d)
           L(t) == Clock!LocalOf(zone, t)
           then == Clock!AddMonths(date, months)
           last == Clock!AddMonths(then, more)
           first == Clock!MonthlyWindow(zone, date, months)
           extended == Clock!ExtendMonthly(zone, first, more)
           second == Clock!MonthlyWindow(zone, Clock!IsoDateIn(zone, first.endsAt), more)
<1>1. /\ IsDay(then) /\ then >= date + 28 /\ Clock!YearOf(then) <= Clock!YearOf(date) + 2
      /\ Clock!DayOf(then) <= Clock!DayOf(date) /\ Clock!DayOf(date) - Clock!DayOf(then) <= 3
  <2>1. Clock!YearOf(date) \in Int /\ Clock!YearOf(date) <= 2096
    BY DateOfParts DEF IsDate, IsYear
  <2>2. QED
    BY <2>1, AddedMonths
<1>2. IsDay(last) /\ last >= then + 28
  <2>1. Clock!YearOf(then) <= 2096
    <3>1. IsYear(Clock!YearOf(then)) /\ IsYear(Clock!YearOf(date))
      BY <1>1, DateOfParts DEF IsDate
    <3>2. QED
      BY <1>1, <3>1 DEF IsYear
  <2> HIDE DEF then
  <2>2. QED
    BY <1>1, <2>1, AddedMonths
<1>3. date \in Int /\ then \in Int /\ last \in Int
  BY <1>1, <1>2 DEF IsDay
<1>4. SUFFICES ASSUME Clock!HasMidnight(zone, date), Clock!HasMidnight(zone, then)
               PROVE  /\ first.startsAt < first.endsAt /\ first.endsAt < extended.endsAt
                      /\ ~Clock!Overlaps(first, second)
                      /\ \A t \in Int : Clock!IsWithin(t, extended)
                            <=> (Clock!IsWithin(t, first) /= Clock!IsWithin(t, second))
  <2> DEFINE edges == {first.startsAt, first.endsAt, extended.endsAt}
             near == UNION {e - 2 .. e + 2 : e \in edges}
  <2>1. near \subseteq Int
    OBVIOUS
  <2>2. Clock!TermsTile(zone, date, months, more) <=>
          ((\A d \in {date, then} : Clock!HasMidnight(zone, d)) =>
             /\ first.startsAt < first.endsAt /\ first.endsAt < extended.endsAt
             /\ ~Clock!Overlaps(first, second)
             /\ \A t \in near : Clock!IsWithin(t, extended)
                   <=> (Clock!IsWithin(t, first) /= Clock!IsWithin(t, second))
             /\ Clock!DayOf(then) <= Clock!DayOf(date)
             /\ Clock!DayOf(date) - Clock!DayOf(then) <= 3)
    BY DEF Clock!TermsTile
  <2> HIDE DEF near, first, extended, second, then
  <2>3. QED
    BY <1>1, <2>1, <2>2
<1>5. first.startsAt = M(date) /\ first.endsAt = M(then)
  BY DEF Clock!MonthlyWindow
<1>6. L(M(date)) = 24 * date /\ L(M(then)) = 24 * then /\ M(date) \in Int /\ M(then) \in Int
  BY <1>3, <1>4, MidnightIsShown
<1>7. M(last) \in Int /\ L(M(last)) - 24 * last \in -1 .. 1
  BY <1>3, MidnightIsShown
<1>8. Clock!IsoDateIn(zone, first.endsAt) = then
  <2>1. /\ M(then) \in Int /\ then \in Int /\ 24 * then <= L(M(then)) /\ L(M(then)) < 24 * then + 24
    BY <1>3, <1>6
  <2>2. QED
    BY <1>5, <2>1, Offsets
<1>9. /\ extended.startsAt = M(date) /\ extended.endsAt = M(last)
      /\ second.startsAt = M(then) /\ second.endsAt = M(last)
  BY <1>5, <1>8 DEF Clock!MonthlyWindow, Clock!ExtendMonthly
<1>10. ASSUME NEW t \in Int
       PROVE  L(t) = t + (IF t < zone.at THEN zone.before ELSE zone.after)
  BY Offsets
<1> HIDE DEF M, L, then, last, first, extended, second
<1>11. M(date) < M(then)
  BY <1>1, <1>3, <1>6, <1>10 DEF IsZone
<1>12. M(then) < M(last)
  BY <1>2, <1>3, <1>6, <1>7, <1>10 DEF IsZone
<1>13. ~Clock!Overlaps(first, second)
  BY <1>5, <1>6, <1>9 DEF Clock!Overlaps
<1>14. ASSUME NEW t \in Int
       PROVE  Clock!IsWithin(t, extended) <=> (Clock!IsWithin(t, first) /= Clock!IsWithin(t, second))
  <2>1. /\ Clock!IsWithin(t, extended) <=> t >= M(date) /\ t < M(last)
        /\ Clock!IsWithin(t, first) <=> t >= M(date) /\ t < M(then)
        /\ Clock!IsWithin(t, second) <=> t >= M(then) /\ t < M(last)
    BY <1>5, <1>9 DEF Clock!IsWithin
  <2>2. /\ Clock!IsWithin(t, extended) \in BOOLEAN /\ Clock!IsWithin(t, first) \in BOOLEAN
        /\ Clock!IsWithin(t, second) \in BOOLEAN
    BY DEF Clock!IsWithin
  <2>3. /\ (t >= M(date) /\ t < M(last))
              <=> ((t >= M(date) /\ t < M(then)) \/ (t >= M(then) /\ t < M(last)))
        /\ ~((t >= M(date) /\ t < M(then)) /\ (t >= M(then) /\ t < M(last)))
    BY <1>6, <1>7, <1>11, <1>12
  <2>4. QED
    BY <2>1, <2>2, <2>3
<1>15. QED
  BY <1>5, <1>9, <1>11, <1>12, <1>13, <1>14

-----------------------------------------------------------------------------
(* The date an instant is on is the one its clocks have begun.             *)
LEMMA DayShown ==
    ASSUME NEW zone, IsZone(zone), NEW t \in Int, NEW d \in Int,
           24 * d <= Clock!LocalOf(zone, t), Clock!LocalOf(zone, t) < 24 * d + 24
    PROVE  Clock!IsoDateIn(zone, t) = d
BY Offsets

(* An instant is at or after a midnight the clocks show once exactly if    *)
(* they show that midnight or later at it.                                 *)
LEMMA MidnightParts ==
    ASSUME NEW zone, IsZone(zone), NEW d \in Int, Clock!HasOneMidnight(zone, d), NEW t \in Int
    PROVE  /\ t >= Clock!LocalMidnightUtc(zone, d) <=> Clock!LocalOf(zone, t) >= 24 * d
           /\ Clock!LocalMidnightUtc(zone, d) \in Int
           /\ Clock!LocalOf(zone, Clock!LocalMidnightUtc(zone, d)) = 24 * d
<1> DEFINE L(u) == Clock!LocalOf(zone, u)
           m == Clock!LocalMidnightUtc(zone, d)
           near == (d - 1) * 24 .. (d + 1) * 24
<1>1. PICK s \in near : \A u \in near : L(u) = 24 * d <=> u = s
  BY DEF Clock!HasOneMidnight, Clock!Hours
<1>2. Clock!HasMidnight(zone, d)
  BY <1>1 DEF Clock!HasMidnight, Clock!Hours
<1>3. m \in Int /\ m - 24 * d \in -14 .. 12 /\ L(m) = 24 * d
  BY <1>2, MidnightIsShown
<1>4. ASSUME NEW u \in Int
      PROVE  L(u) = u + (IF u < zone.at THEN zone.before ELSE zone.after)
  BY Offsets
<1> HIDE DEF L, m
<1>5. m = s
  BY <1>1, <1>3
<1>6. m - 1 \in near /\ m - 1 # s /\ m - 1 \in Int
  BY <1>3, <1>5
<1>7. L(m - 1) # 24 * d
  BY <1>1, <1>6
<1> HIDE DEF near
<1>8. t >= m => L(t) >= 24 * d
  BY <1>3, <1>4 DEF IsZone
<1>9. t < m => L(t) < 24 * d
  BY <1>3, <1>4, <1>6, <1>7, SMTT(30) DEF IsZone
<1>10. L(t) \in Int
  BY <1>4 DEF IsZone
<1>11. QED
  BY <1>3, <1>8, <1>9, <1>10 DEF L, m

(* The financial year of a date begins at or before it and ends after it.  *)
LEMMA YearAround ==
    ASSUME NEW date, IsDay(date), Clock!YearOf(date) >= 2001, Clock!YearOf(date) <= 2097,
           NEW month \in 1 .. 12,
           NEW y, y = IF Clock!MonthOf(date) >= month THEN Clock!YearOf(date)
                                                    ELSE Clock!YearOf(date) - 1
    PROVE  /\ IsYear(y) /\ IsYear(y + 1)
           /\ Clock!DateOf(y, month, 1) \in Int /\ Clock!DateOf(y, month, 1) <= date
           /\ Clock!DateOf(y + 1, month, 1) \in Int /\ date < Clock!DateOf(y + 1, month, 1)
<1> DEFINE z == Clock!YearOf(date)
           k == Clock!MonthOf(date)
           n == Clock!DayOf(date)
<1>1. IsDate(z, k, n) /\ Clock!DateOf(z, k, n) = date
  BY DateOfParts
<1>2. /\ IsYear(z) /\ k \in 1 .. 12 /\ z \in Int /\ z >= 2001 /\ z <= 2097
      /\ n \in Int /\ 1 <= n /\ n <= Clock!MonthLength(z, k)
  BY <1>1 DEF IsDate, IsYear
<1> HIDE DEF z, k, n
<1>3. /\ y \in Int /\ IsYear(y) /\ IsYear(y + 1)
      /\ 12 * z + k < 12 * (y + 1) + month
      /\ (y = z /\ month = k) \/ 12 * y + month < 12 * z + k
  BY <1>2 DEF IsYear, z, k
<1>4. /\ Clock!DateOf(y, month, 1) = NewYear(y) + Before(y, month)
      /\ NewYear(y) \in Int /\ Before(y, month) \in Int
      /\ Clock!MonthLength(y, month) \in Int /\ Clock!MonthLength(y, month) >= 28
  <2>1. Clock!DateOf(y, month, 1) = NewYear(y) + Before(y, month) + 1 - 1 /\ NewYear(y) \in Int
    BY <1>3, FirstOfMonth, 1 \in Int
  <2>2. QED
    BY <2>1, MonthRanges
<1>5. /\ Clock!DateOf(y + 1, month, 1) = NewYear(y + 1) + Before(y + 1, month)
      /\ NewYear(y + 1) \in Int /\ Before(y + 1, month) \in Int
  <2>1. /\ Clock!DateOf(y + 1, month, 1) = NewYear(y + 1) + Before(y + 1, month) + 1 - 1
        /\ NewYear(y + 1) \in Int
    BY <1>3, FirstOfMonth, 1 \in Int
  <2>2. QED
    BY <2>1, MonthRanges
<1>6. /\ date = NewYear(z) + Before(z, k) + n - 1
      /\ NewYear(z) \in Int /\ Before(z, k) \in Int /\ Clock!MonthLength(z, k) \in Int
  <2>1. Clock!DateOf(z, k, n) = NewYear(z) + Before(z, k) + n - 1 /\ NewYear(z) \in Int
    BY <1>2, FirstOfMonth
  <2>2. Before(z, k) \in Int /\ Clock!MonthLength(z, k) \in Int
    BY <1>2, MonthRanges
  <2>3. QED
    BY <1>1, <2>1, <2>2
<1>7. NewYear(z) + Before(z, k) + Clock!MonthLength(z, k) <= NewYear(y + 1) + Before(y + 1, month)
  BY <1>2, <1>3, MonthsLater
<1>8. NewYear(y) + Before(y, month) <= NewYear(z) + Before(z, k)
  <2>1. CASE y = z /\ month = k
    BY <1>4, <2>1
  <2>2. CASE 12 * y + month < 12 * z + k
    <3>1. NewYear(y) + Before(y, month) + Clock!MonthLength(y, month) <= NewYear(z) + Before(z, k)
      BY <1>2, <1>3, <2>2, MonthsLater
    <3>2. QED
      BY <1>4, <1>6, <3>1
  <2>3. QED
    BY <1>3, <2>1, <2>2
<1>9. QED
  BY <1>2, <1>3, <1>4, <1>5, <1>6, <1>7, <1>8

(* Every instant is in the financial year it is given, and years follow.   *)
LEMMA YearsAlwaysTile ==
    ASSUME NEW zone, IsZone(zone), NEW t \in Int, IsDay(Clock!IsoDateIn(zone, t)),
           Clock!YearOf(Clock!IsoDateIn(zone, t)) >= 2001,
           Clock!YearOf(Clock!IsoDateIn(zone, t)) <= 2097, NEW month \in 1 .. 12
    PROVE  Clock!YearsTile(zone, t, month)
<1> DEFINE date == Clock!IsoDateIn(zone, t)
           y == IF Clock!MonthOf(date) >= month THEN Clock!YearOf(date) ELSE Clock!YearOf(date) - 1
           s == Clock!DateOf(y, month, 1)
           n == Clock!DateOf(y + 1, month, 1)
           M(d) == Clock!LocalMidnightUtc(zone, d)
           L(u) == Clock!LocalOf(zone, u)
           fy == Clock!FinancialYearOf(zone, t, month)
<1>1. fy = [startYear |-> y, startsAt |-> M(s), endsAt |-> M(n)]
  BY DEF Clock!FinancialYearOf, Clock!FinancialYear
<1>2. /\ IsYear(y) /\ IsYear(y + 1) /\ s \in Int /\ s <= date /\ n \in Int /\ date < n
  <2> HIDE DEF date
  <2>1. IsDay(date) /\ Clock!YearOf(date) >= 2001 /\ Clock!YearOf(date) <= 2097
    BY DEF date
  <2>2. QED
    BY <2>1, YearAround
<1>3. date \in Int /\ 24 * date <= L(t) /\ L(t) < 24 * date + 24 /\ L(t) \in Int
  BY Offsets
<1>4. fy.startYear = y /\ fy.startsAt = M(s) /\ fy.endsAt = M(n)
  BY <1>1
<1> HIDE DEF fy, date, y
<1>5. SUFFICES ASSUME Clock!HasOneMidnight(zone, s), Clock!HasOneMidnight(zone, n)
               PROVE  /\ Clock!IsWithin(t, fy)
                      /\ Clock!FinancialYear(zone, y + 1, month).startsAt = M(n)
                      /\ Clock!FinancialYearOf(zone, M(n), month).startYear = y + 1
  <2> DEFINE starts == {Clock!DateOf(y + i, month, 1) : i \in {0, 1}}
  <2>1. s \in starts /\ n \in starts
    <3>1. y + 0 = y
      BY <1>2 DEF IsYear
    <3>2. QED
      BY <3>1
  <2>2. Clock!YearsTile(zone, t, month) <=>
          ((\A d \in starts : Clock!HasOneMidnight(zone, d)) =>
             /\ Clock!IsWithin(t, fy)
             /\ Clock!FinancialYear(zone, y + 1, month).startsAt = M(n)
             /\ Clock!FinancialYearOf(zone, M(n), month).startYear = y + 1)
    BY <1>4 DEF Clock!YearsTile, fy
  <2> HIDE DEF starts, M, s, n
  <2>3. QED
    BY <2>1, <2>2
<1>6. /\ t >= M(s) <=> L(t) >= 24 * s
      /\ M(s) \in Int
  BY <1>2, <1>5, MidnightParts
<1>7. /\ t >= M(n) <=> L(t) >= 24 * n
      /\ M(n) \in Int /\ L(M(n)) = 24 * n
  BY <1>2, <1>5, MidnightParts
<1>8. Clock!IsWithin(t, fy)
  <2> HIDE DEF M, L, s, n
  <2>1. t >= M(s) /\ t < M(n)
    BY <1>2, <1>3, <1>6, <1>7
  <2>2. QED
    BY <1>4, <2>1 DEF Clock!IsWithin
<1>9. Clock!IsoDateIn(zone, M(n)) = n
  <2>1. 24 * n <= L(M(n)) /\ L(M(n)) < 24 * n + 24
    <3> HIDE DEF M, L, n
    <3>1. QED
      BY <1>2, <1>7
  <2> HIDE DEF M, n
  <2>2. QED
    BY <1>2, <1>7, <2>1, DayShown
<1>10. Clock!YearOf(n) = y + 1 /\ Clock!MonthOf(n) = month
  <2>1. IsDate(y + 1, month, 1)
    BY <1>2, MonthRanges DEF IsDate
  <2>2. QED
    BY <2>1, PartsOfADate
<1>11. Clock!FinancialYearOf(zone, M(n), month).startYear = y + 1
  BY <1>9, <1>10 DEF Clock!FinancialYearOf, Clock!FinancialYear
<1>12. Clock!FinancialYear(zone, y + 1, month).startsAt = M(n)
  BY DEF Clock!FinancialYear
<1>13. QED
  BY <1>8, <1>11, <1>12

-----------------------------------------------------------------------------
(* The inputs of the clock: a zone, and a day of 2002 to 2094.             *)
ClockAsked(i) ==
    /\ IsZone(i.zone) /\ IsDay(i.date)
    /\ 2002 <= Clock!YearOf(i.date) /\ Clock!YearOf(i.date) <= 2094

(* A year of days around a day of one year is in it or in the next ones.   *)
LEMMA YearsNear ==
    ASSUME NEW date, IsDay(date), 2002 <= Clock!YearOf(date), Clock!YearOf(date) <= 2094,
           NEW e \in Int, date - 28 <= e, e <= date + 28
    PROVE  IsDay(e) /\ Clock!YearOf(e) >= 2001 /\ Clock!YearOf(e) <= 2097
<1> DEFINE y == Clock!YearOf(date)
<1>1. IsYear(y) /\ y \in Int /\ 2002 <= y /\ y <= 2094 /\ date \in Int
  BY DateOfParts DEF IsDate, IsYear, IsDay
<1>2. PICK z : IsYear(z) /\ NewYear(z) <= date /\ date < NewYear(z + 1)
  BY DayHasAYear
<1>3. y = z
  BY <1>2, YearOfDay
<1> HIDE DEF y
<1>4. \A p, q \in Int : p < q => NewYear(p) + 365 <= NewYear(q)
  BY YearsFollow
<1>5. \A p \in Int : NewYear(p) \in Int
  BY YearsFollow
<1>6. NewYear(y) <= date /\ date < NewYear(y + 1)
  BY <1>2, <1>3
<1>7. NewYear(2000) = 0 /\ NewYear(2100) = 36525
  BY YearsFollow
<1>8. NewYear(2000) + 365 <= NewYear(y) /\ NewYear(y) \in Int
  BY <1>1, <1>4, <1>5
<1>9. NewYear(y + 1) + 365 <= NewYear(2100) /\ NewYear(y + 1) \in Int
  BY <1>1, <1>4, <1>5
<1>10. IsDay(e)
  BY <1>1, <1>6, <1>7, <1>8, <1>9 DEF IsDay
<1>11. PICK w : IsYear(w) /\ NewYear(w) <= e /\ e < NewYear(w + 1)
  BY <1>10, DayHasAYear
<1>12. Clock!YearOf(e) = w /\ w \in Int
  BY <1>10, <1>11, YearOfDay DEF IsYear
<1>13. w <= y + 1
  <2>1. SUFFICES ASSUME y + 1 < w
                 PROVE  FALSE
    BY <1>1, <1>12
  <2>2. NewYear(y + 1) + 365 <= NewYear(w) /\ NewYear(w) \in Int
    BY <1>1, <1>4, <1>5, <1>12, <2>1
  <2>3. QED
    BY <1>1, <1>6, <1>9, <1>11, <2>2
<1>14. w >= y - 1
  <2>1. SUFFICES ASSUME w + 1 < y
                 PROVE  FALSE
    BY <1>1, <1>12
  <2>2. NewYear(w + 1) + 365 <= NewYear(y) /\ NewYear(w + 1) \in Int
    BY <1>1, <1>4, <1>5, <1>12, <2>1
  <2>3. QED
    BY <1>1, <1>6, <1>8, <1>11, <2>2
<1>15. QED
  BY <1>1, <1>10, <1>12, <1>13, <1>14

(* What the run asks of the clock is among what the lemmas assume.         *)
LEMMA ClockInputs ==
    ASSUME ClockInput
    PROVE  ClockAsked(input)
<1>1. PICK date \in Dates : \E zone \in Zones(date) : input = [zone |-> zone, date |-> date]
  BY DEF ClockInput
<1>2. PICK zone \in Zones(date) : input = [zone |-> zone, date |-> date]
  BY <1>1
<1>3. PICK y, m, d : /\ y \in {2023, 2024} /\ IsDate(y, m, d)
                     /\ date = Clock!DateOf(y, m, d)
  <2>1. \A y \in {2023, 2024}, m \in {1, 2, 4, 12}, d \in {1, 28, 29, 30, 31} :
           d <= Clock!MonthLength(y, m) => IsDate(y, m, d)
    BY DEF IsDate, IsYear
  <2>2. Clock!Leap(2024)
    BY DEF Clock!Leap
  <2>3. /\ 28 <= Clock!MonthLength(2023, 1) /\ 31 <= Clock!MonthLength(2023, 1)
        /\ 30 <= Clock!MonthLength(2024, 1) /\ 29 <= Clock!MonthLength(2024, 2)
        /\ 1 <= Clock!MonthLength(2023, 4) /\ 31 <= Clock!MonthLength(2023, 12)
    BY <2>2 DEF Clock!MonthLength
  <2>4. /\ IsDate(2023, 1, 28) /\ IsDate(2023, 1, 31) /\ IsDate(2024, 1, 30)
        /\ IsDate(2024, 2, 29) /\ IsDate(2023, 4, 1) /\ IsDate(2023, 12, 31)
    BY <2>1, <2>3
  <2>5. QED
    BY <2>4 DEF Dates
<1>4. IsDay(date) /\ Clock!YearOf(date) = y
  BY <1>3, PartsOfADate
<1>5. IsZone(zone)
  <2>1. PICK b \in {0, 5, -3}, s \in {-1, 0, 1},
             k \in {-30, -24, -23, -5, -4, -3, -1, 0, 1, 3, 4, 23, 24, 25} :
             zone = [before |-> b, after |-> b + s, at |-> 24 * date + k]
    BY <1>2 DEF Zones
  <2>2. zone.before = b /\ zone.after = b + s /\ zone.at = 24 * date + k
    BY <2>1
  <2>3. date \in Int
    BY <1>4 DEF IsDay
  <2>4. QED
    BY <2>2, <2>3 DEF IsZone
<1>6. QED
  BY <1>2, <1>3, <1>4, <1>5 DEF ClockAsked

(* Time is tiled in every such zone on every such day. *)
LEMMA ClockAlwaysTiles ==
    ASSUME scene = "clock" => ClockAsked(input)
    PROVE  TimeIsTiled
<1>1. SUFFICES ASSUME scene = "clock" PROVE TimeIsTiled
  BY DEF TimeIsTiled, DaysTile, TermsTile, YearsTile, FiresNext
<1> DEFINE zone == input.zone
           date == input.date
<1>2. /\ IsZone(zone) /\ IsDay(date) /\ date \in Int
      /\ 2002 <= Clock!YearOf(date) /\ Clock!YearOf(date) <= 2094
  BY <1>1 DEF ClockAsked, IsDay
<1> HIDE DEF zone, date
<1>3. DaysTile
  <2>1. \A n \in 0 .. 3 : Clock!DaysTile(zone, date, n)
    BY <1>2, DaysAlwaysTile
  <2>2. QED
    BY <2>1 DEF DaysTile, zone, date
<1>4. TermsTile
  <2>1. \A months \in {1, 12, 13}, more \in {1, 12} : Clock!TermsTile(zone, date, months, more)
    BY <1>2, TermsAlwaysTile
  <2>2. QED
    BY <2>1 DEF TermsTile, zone, date
<1>5. YearsTile
  <2>1. ASSUME NEW month \in {1, 4, 12}, NEW h \in {-25} \union -6 .. 5 \union {23}
        PROVE  Clock!YearsTile(zone, 24 * date + h, month)
    <3> DEFINE t == 24 * date + h
               e == Clock!IsoDateIn(zone, t)
    <3>1. t \in Int /\ month \in 1 .. 12
      BY <1>2
    <3>2. /\ e \in Int /\ 24 * e <= Clock!LocalOf(zone, t) /\ Clock!LocalOf(zone, t) < 24 * e + 24
          /\ Clock!LocalOf(zone, t) = t + Clock!Offset(zone, t)
          /\ Clock!Offset(zone, t) \in -12 .. 14
      <4> HIDE DEF t
      <4>1. QED
        BY <1>2, <3>1, Offsets
    <3> HIDE DEF e
    <3>3. date - 28 <= e /\ e <= date + 28
      BY <1>2, <3>2
    <3>4. IsDay(e) /\ Clock!YearOf(e) >= 2001 /\ Clock!YearOf(e) <= 2097
      BY <1>2, <3>2, <3>3, YearsNear
    <3> HIDE DEF t
    <3>5. Clock!YearsTile(zone, t, month)
      BY <1>2, <3>1, <3>4, YearsAlwaysTile DEF e
    <3>6. QED
      BY <3>5 DEF t
  <2>2. QED
    BY <2>1 DEF YearsTile, zone, date
<1>6. FiresNext
  <2>1. \A hour \in {0, 3, 12, 23}, k \in -6 .. 24 :
           hour \in 0 .. 23 /\ 24 * date + k \in Int
    BY <1>2
  <2>2. \A hour \in {0, 3, 12, 23}, k \in -6 .. 24 : Clock!FiresNext(zone, 24 * date + k, hour)
    BY <1>2, <2>1, AlwaysFiresNext
  <2>3. QED
    BY <2>2 DEF FiresNext, zone, date
<1>7. QED
  BY <1>3, <1>4, <1>5, <1>6 DEF TimeIsTiled

(* Numbers, if there are any, have a least.                                *)
LEMMA LeastOne ==
    ASSUME NEW T \in SUBSET Nat, T /= {}
    PROVE  \E m \in T : \A k \in T : m <= k
<1>1. PICK m \in T : \A k \in T : ~(<<k, m>> \in OpToRel(<, Nat))
  BY WFMin, NatLessThanWellFounded, Zenon
<1>2. ASSUME NEW k \in T, k < m
      PROVE  <<k, m>> \in OpToRel(<, Nat)
  BY <1>2, Zenon DEF OpToRel
<1>3. ASSUME NEW k \in T
      PROVE  m <= k
  <2>1. m \in Nat /\ k \in Nat
    BY <1>3
  <2>2. ~(k < m)
    BY <1>1, <1>2, <1>3, Zenon
  <2>3. QED
    BY <2>1, <2>2
<1>4. QED
  BY <1>3
-----------------------------------------------------------------------------
(* Sums: f[i] is the sum of the first i of a list. *)
IsSum(f, s, n) ==
    /\ f \in [0 .. n -> Int] /\ f[0] = 0
    /\ \A i \in 1 .. n : f[i] = f[i - 1] + s[i]

(* What holds of no number, and of a number if of the one before, holds of *)
(* all there are.                                                          *)
LEMMA UpTo ==
    ASSUME NEW n \in Nat, NEW G, 0 \in G, \A i \in 1 .. n : i - 1 \in G => i \in G
    PROVE  \A i \in 0 .. n : i \in G
<1> DEFINE T == {i \in 0 .. n : i \notin G}
<1>1. SUFFICES ASSUME T /= {}
               PROVE  FALSE
  OBVIOUS
<1>2. PICK m \in T : \A k \in T : m <= k
  <2>1. T \in SUBSET Nat
    OBVIOUS
  <2> HIDE DEF T
  <2>2. QED
    BY <1>1, <2>1, LeastOne
<1>3. m \in 1 .. n /\ m \notin G
  BY <1>2
<1>4. m - 1 \notin T
  BY <1>2, <1>3
<1>5. m - 1 \in 0 .. n
  BY <1>3
<1>6. m - 1 \in G
  BY <1>4, <1>5
<1>7. QED
  BY <1>3, <1>6

(* Every list of numbers has sums.                                         *)
LEMMA SumExists ==
    ASSUME NEW n \in Nat, NEW s, \A i \in 1 .. n : s[i] \in Int
    PROVE  \E f : IsSum(f, s, n)
<1> DEFINE G == {m \in 0 .. n : \E f : IsSum(f, s, m)}
<1>1. 0 \in G
  <2>1. IsSum([i \in 0 .. 0 |-> 0], s, 0)
    BY DEF IsSum
  <2>2. QED
    BY <2>1
<1>2. ASSUME NEW m \in 1 .. n, m - 1 \in G
      PROVE  m \in G
  <2>1. PICK g : IsSum(g, s, m - 1)
    BY <1>2
  <2> DEFINE h == [i \in 0 .. m |-> IF i = m THEN g[m - 1] + s[m] ELSE g[i]]
  <2>2. s[m] \in Int /\ g[m - 1] \in Int /\ \A i \in 0 .. m - 1 : g[i] \in Int
    BY <2>1 DEF IsSum
  <2>3. h \in [0 .. m -> Int] /\ h[0] = 0
    BY <2>1, <2>2 DEF IsSum
  <2>4. ASSUME NEW i \in 1 .. m
        PROVE  h[i] = h[i - 1] + s[i]
    BY <2>1, <2>2 DEF IsSum
  <2>5. IsSum(h, s, m)
    BY <2>3, <2>4 DEF IsSum
  <2>6. QED
    BY <2>5
<1> HIDE DEF G
<1>3. n \in G
  BY <1>1, <1>2, UpTo, SMTT(30)
<1>4. QED
  BY <1>3 DEF G

(* SumOf is the last of the sums.                                          *)
LEMMA SumIs ==
    ASSUME NEW n \in Nat, NEW s, Sums!Len(s) = n, NEW f, IsSum(f, s, n)
    PROVE  Sums!SumOf(s) = f[n]
<1> DEFINE Totals(g) == g = [i \in 0 .. n |-> IF i = 0 THEN 0 ELSE g[i - 1] + s[i]]
           total == CHOOSE g : Totals(g)
<1>1. Sums!SumOf(s) = total[n]
  BY DEF Sums!SumOf
<1>2. Totals(f)
  <2>1. f = [i \in 0 .. n |-> f[i]]
    BY DEF IsSum
  <2>2. \A i \in 0 .. n : f[i] = IF i = 0 THEN 0 ELSE f[i - 1] + s[i]
    BY DEF IsSum
  <2>3. QED
    BY <2>1, <2>2
<1>3. Totals(total)
  BY <1>2
<1> HIDE DEF total
<1>4. \A i \in 0 .. n : total[i] = IF i = 0 THEN 0 ELSE total[i - 1] + s[i]
  BY <1>3
<1> DEFINE G == {i \in 0 .. n : total[i] = f[i]}
<1>5. 0 \in G
  BY <1>4 DEF IsSum
<1>6. ASSUME NEW i \in 1 .. n, i - 1 \in G
      PROVE  i \in G
  BY <1>4, <1>6 DEF IsSum
<1> HIDE DEF G
<1>7. n \in G
  BY <1>5, <1>6, UpTo, SMTT(30)
<1>8. QED
  BY <1>1, <1>7 DEF G

(* c times a list is a times another and b times a third.                  *)
Combined(n, c, u, a, s, b, t) ==
    \A i \in 1 .. n : /\ s[i] \in Int /\ t[i] \in Int /\ u[i] \in Int
                      /\ c * u[i] = a * s[i] + b * t[i]

(* The sum of what is a combination of two lists is that of their sums.    *)
LEMMA SumsCombine ==
    ASSUME NEW n \in Nat, NEW a \in Int, NEW b \in Int, NEW c \in Int,
           NEW s, NEW t, NEW u, NEW f, NEW g, NEW h,
           IsSum(f, s, n), IsSum(g, t, n), IsSum(h, u, n), Combined(n, c, u, a, s, b, t)
    PROVE  c * h[n] = a * f[n] + b * g[n]
<1> DEFINE G == {i \in 0 .. n : c * h[i] = a * f[i] + b * g[i]}
<1>1. 0 \in G
  BY DEF IsSum
<1>2. ASSUME NEW i \in 1 .. n, i - 1 \in G
      PROVE  i \in G
  <2> DEFINE p == f[i - 1]
             q == g[i - 1]
             r == h[i - 1]
             x == s[i]
             y == t[i]
             z == u[i]
  <2>1. /\ p \in Int /\ q \in Int /\ r \in Int /\ x \in Int /\ y \in Int /\ z \in Int
        /\ f[i] = p + x /\ g[i] = q + y /\ h[i] = r + z
    BY DEF IsSum, Combined
  <2>2. c * r = a * p + b * q /\ c * z = a * x + b * y
    BY <1>2 DEF Combined
  <2> HIDE DEF p, q, r, x, y, z
  <2>3. c * (r + z) = a * (p + x) + b * (q + y)
    <3>1. /\ c * (r + z) = c * r + c * z /\ a * (p + x) = a * p + a * x
          /\ b * (q + y) = b * q + b * y
      BY <2>1
    <3>2. QED
      BY <2>1, <2>2, <3>1
  <2>4. c * h[i] = a * f[i] + b * g[i]
    BY <2>1, <2>3, Zenon
  <2>5. QED
    BY <2>4
<1> HIDE DEF G
<1>3. n \in G
  <2>1. \A i \in 1 .. n : i - 1 \in G => i \in G
    BY ONLY <1>2
  <2>2. \A i \in 0 .. n : i \in G
    BY ONLY n \in Nat, <1>1, <2>1, UpTo
  <2>3. QED
    BY ONLY n \in Nat, <2>2
<1>4. QED
  BY <1>3 DEF G

(* The sum of what is at most a multiple is at most that multiple.         *)
LEMMA SumsBound ==
    ASSUME NEW n \in Nat, NEW a \in Int, NEW s, NEW t, NEW f, NEW g,
           IsSum(f, s, n), IsSum(g, t, n),
           \A i \in 1 .. n : /\ s[i] \in Int /\ t[i] \in Int
                             /\ 0 <= s[i] /\ s[i] <= a * t[i]
    PROVE  0 <= f[n] /\ f[n] <= a * g[n]
<1> DEFINE G == {i \in 0 .. n : 0 <= f[i] /\ f[i] <= a * g[i]}
<1>1. 0 \in G
  BY DEF IsSum
<1>2. ASSUME NEW i \in 1 .. n, i - 1 \in G
      PROVE  i \in G
  <2> DEFINE p == f[i - 1]
             q == g[i - 1]
             x == s[i]
             y == t[i]
  <2>1. /\ p \in Int /\ q \in Int /\ x \in Int /\ y \in Int
        /\ f[i] = p + x /\ g[i] = q + y
    BY DEF IsSum
  <2>2. 0 <= p /\ p <= a * q /\ 0 <= x /\ x <= a * y
    BY <1>2
  <2> HIDE DEF p, q, x, y
  <2>3. a * (q + y) = a * q + a * y /\ a * q \in Int /\ a * y \in Int
    BY <2>1
  <2>4. QED
    BY <2>1, <2>2, <2>3
<1> HIDE DEF G
<1>3. n \in G
  BY <1>1, <1>2, UpTo, SMTT(30)
<1>4. QED
  BY <1>3 DEF G

(* To count is to sum ones.                                                *)
LEMMA SumCounts ==
    ASSUME NEW n \in Nat, NEW T \in SUBSET (1 .. n), NEW f,
           IsSum(f, [i \in 1 .. n |-> IF i \in T THEN 1 ELSE 0], n)
    PROVE  f[n] = Cardinality(T)
<1> DEFINE G == {i \in 0 .. n : IsFiniteSet(T \cap (1 .. i)) /\ f[i] = Cardinality(T \cap (1 .. i))}
<1>1. 0 \in G
  <2>1. T \cap (1 .. 0) = {}
    OBVIOUS
  <2>2. QED
    BY <2>1, FS_EmptySet DEF IsSum
<1>2. ASSUME NEW i \in 1 .. n, i - 1 \in G
      PROVE  i \in G
  <2> DEFINE S == T \cap (1 .. i - 1)
  <2>1. IsFiniteSet(S) /\ f[i - 1] = Cardinality(S) /\ Cardinality(S) \in Nat
    BY <1>2, FS_CardinalityType
  <2>2. f[i] = f[i - 1] + (IF i \in T THEN 1 ELSE 0)
    BY DEF IsSum
  <2>3. T \cap (1 .. i) = IF i \in T THEN S \union {i} ELSE S
    <3>1. 1 .. i = (1 .. i - 1) \union {i}
      OBVIOUS
    <3>2. QED
      BY <3>1
  <2>4. i \notin S
    OBVIOUS
  <2> HIDE DEF S
  <2>5. IsFiniteSet(S \union {i}) /\ Cardinality(S \union {i}) = Cardinality(S) + 1
    BY <2>1, <2>4, FS_AddElement
  <2>6. IsFiniteSet(T \cap (1 .. i)) /\ f[i] = Cardinality(T \cap (1 .. i))
    <3> DEFINE R == T \cap (1 .. i)
    <3>1. R = IF i \in T THEN S \union {i} ELSE S
      BY <2>3
    <3> HIDE DEF R
    <3>2. IsFiniteSet(R) /\ f[i] = Cardinality(R)
      BY <2>1, <2>2, <2>5, <3>1
    <3>3. QED
      BY <3>2 DEF R
  <2>7. QED
    BY <2>6
<1> HIDE DEF G
<1>3. n \in G
  BY <1>1, <1>2, UpTo, SMTT(30)
<1>4. T \cap (1 .. n) = T
  OBVIOUS
<1>5. QED
  BY <1>3, <1>4 DEF G

-----------------------------------------------------------------------------
(* A list of n is as long as n.                                            *)
LEMMA ListOf ==
    ASSUME NEW n \in Nat, NEW s \in [1 .. n -> Int]
    PROVE  Sums!Len(s) = n /\ DOMAIN s = 1 .. n
OBVIOUS

(* Money counts as the library does.                                       *)
LEMMA SumsCount ==
    ASSUME NEW S
    PROVE  Sums!Cardinality(S) = Cardinality(S)
BY DEF Sums!Cardinality, Cardinality

(* Who is handed a unit first: a strict total order.                       *)
LEMMA EarlierIsAnOrder ==
    ASSUME NEW n \in Nat, NEW rest \in [1 .. n -> Int]
    PROVE  StrictOrder(1 .. n, [i \in 1 .. n |-> {j \in 1 .. n : Sums!Earlier(rest, j, i)}])
<1> DEFINE P == 1 .. n
           below == [i \in P |-> {j \in P : Sums!Earlier(rest, j, i)}]
<1>1. \A i, j \in P : j \in below[i] <=> rest[j] > rest[i] \/ (rest[j] = rest[i] /\ j < i)
  BY DEF Sums!Earlier
<1>2. below \in [P -> SUBSET P]
  OBVIOUS
<1>3. \A i \in P : i \in Int /\ rest[i] \in Int
  OBVIOUS
<1> HIDE DEF below, P
<1>4. \A x \in P : x \notin below[x]
  BY <1>1, <1>3
<1>5. ASSUME NEW x \in P, NEW y \in P, x \in below[y]
      PROVE  below[x] \subseteq below[y]
  <2>1. below[x] \subseteq P /\ below[y] \subseteq P
    BY <1>2
  <2>2. ASSUME NEW z \in P, z \in below[x]
        PROVE  z \in below[y]
    <3>1. rest[z] > rest[x] \/ (rest[z] = rest[x] /\ z < x)
      BY <1>1, <2>2
    <3>2. rest[x] > rest[y] \/ (rest[x] = rest[y] /\ x < y)
      BY <1>1, <1>5
    <3>3. rest[z] > rest[y] \/ (rest[z] = rest[y] /\ z < y)
      BY <1>3, <3>1, <3>2
    <3>4. QED
      BY <1>1, <3>3
  <2>3. QED
    BY <2>1, <2>2
<1>6. ASSUME NEW x \in P, NEW y \in P
      PROVE  x = y \/ x \in below[y] \/ y \in below[x]
  <2>1. \/ x = y \/ rest[x] > rest[y] \/ (rest[x] = rest[y] /\ x < y)
        \/ rest[y] > rest[x] \/ (rest[y] = rest[x] /\ y < x)
    BY <1>3
  <2>2. QED
    BY <1>1, <2>1
<1>7. StrictOrder(P, below)
  BY <1>2, <1>4, <1>5, <1>6 DEF StrictOrder
<1>8. QED
  BY <1>7 DEF P, below

(* As many have fewer than k before them as k.                             *)
LEMMA FirstOnes ==
    ASSUME NEW n \in Nat, NEW below, StrictOrder(1 .. n, below), NEW k \in 0 .. n
    PROVE  Cardinality({i \in 1 .. n : Cardinality(below[i]) < k}) = k
<1> DEFINE P == 1 .. n
           T == {i \in P : Cardinality(below[i]) < k}
           rank == [i \in T |-> Cardinality(below[i]) + 1]
<1>1. IsFiniteSet(P) /\ Cardinality(P) = n
  BY FS_Interval
<1>2. RanksTell(P, below)
  BY <1>1, RanksDiffer
<1>3. /\ \A i \in P : Cardinality(below[i]) + 1 \in 1 .. n
      /\ \A i, j \in P : Cardinality(below[i]) = Cardinality(below[j]) => i = j
      /\ \A j \in 1 .. n : \E i \in P : Cardinality(below[i]) = j - 1
  BY <1>1, <1>2 DEF RanksTell
<1>4. ASSUME NEW i \in P
      PROVE  Cardinality(below[i]) \in Nat
  <2>1. below[i] \in SUBSET P
    BY DEF StrictOrder
  <2> HIDE DEF P
  <2>2. IsFiniteSet(below[i])
    BY <1>1, <2>1, FS_Subset
  <2>3. QED
    BY <2>2, FS_CardinalityType
<1>5. T \subseteq P
  OBVIOUS
<1>6. \A i \in T : i \in P /\ Cardinality(below[i]) < k
  OBVIOUS
<1>7. \A i \in P : Cardinality(below[i]) < k => i \in T
  OBVIOUS
<1> HIDE DEF T, P
<1>8. rank \in [T -> 1 .. k] /\ \A i \in T : rank[i] = Cardinality(below[i]) + 1
  <2>1. ASSUME NEW i \in T
        PROVE  Cardinality(below[i]) + 1 \in 1 .. k
    <3>1. Cardinality(below[i]) \in Nat /\ Cardinality(below[i]) < k
      BY <1>4, <1>6
    <3>2. QED
      BY <3>1
  <2>2. QED
    BY <2>1
<1> HIDE DEF rank
<1>9. ASSUME NEW i \in T, NEW j \in T, rank[i] = rank[j]
      PROVE  i = j
  <2>1. Cardinality(below[i]) \in Nat /\ Cardinality(below[j]) \in Nat
    BY <1>4, <1>6
  <2>2. Cardinality(below[i]) = Cardinality(below[j])
    BY <1>8, <1>9, <2>1
  <2>3. QED
    BY <1>3, <1>6, <2>2
<1>10. ASSUME NEW j \in 1 .. k
       PROVE  \E i \in T : rank[i] = j
  <2>1. j \in 1 .. n
    OBVIOUS
  <2>2. PICK i \in P : Cardinality(below[i]) = j - 1
    BY <1>3, <2>1
  <2>3. i \in T
    BY <1>7, <2>2
  <2>4. QED
    BY <1>8, <2>2, <2>3
<1>11. rank \in Injection(T, 1 .. k)
  BY <1>8, <1>9 DEF Injection, IsInjective
<1>12. rank \in Surjection(T, 1 .. k)
  BY <1>8, <1>10 DEF Surjection
<1>13. IsFiniteSet(1 .. k) /\ Cardinality(1 .. k) = k
  BY FS_Interval
<1>14. Cardinality(T) = k
  BY <1>11, <1>12, <1>13, FS_Injection
<1>15. QED
  BY <1>14 DEF T, P

(* What products with a positive whole tell of their factors.              *)
LEMMA Factors ==
    ASSUME NEW whole \in Int, whole > 0
    PROVE  /\ \A x, p \in Int : p >= 0 /\ whole * x <= (whole - 1) * p => x <= p
           /\ \A x \in Int : whole * x >= 0 => x >= 0
           /\ \A x \in Int : 0 < whole * x + whole => x >= 0
           /\ \A x, y \in Int : whole * x < whole * y + whole => x <= y
<1>1. ASSUME NEW x \in Int, NEW y \in Int, x > y
      PROVE  whole * x >= whole * y + whole
  <2> DEFINE e == x - y - 1
  <2>1. e \in Int /\ e >= 0 /\ x = y + 1 + e
    BY <1>1
  <2> HIDE DEF e
  <2>2. whole * x = whole * y + whole + whole * e
    BY <2>1
  <2>3. whole * e >= 0
    BY <2>1
  <2>4. whole * e \in Int /\ whole * y \in Int
    BY <2>1
  <2>5. QED
    BY <2>2, <2>3, <2>4
<1>2. \A x, y \in Int : whole * x < whole * y + whole => x <= y
  <2>1. ASSUME NEW x \in Int, NEW y \in Int, whole * x < whole * y + whole
        PROVE  x <= y
    <3>1. ~(x > y)
      <4>1. whole * x \in Int /\ whole * y \in Int
        OBVIOUS
      <4>2. QED
        BY <1>1, <2>1, <4>1
    <3>2. QED
      BY <3>1
  <2>2. QED
    BY <2>1
<1>3. \A x \in Int : whole * x >= 0 => x >= 0
  <2>1. ASSUME NEW x \in Int, x < 0
        PROVE  whole * x < 0
    <3>1. 0 > x /\ 0 \in Int /\ whole * 0 = 0 /\ whole * x \in Int
      BY <2>1
    <3>2. whole * 0 >= whole * x + whole
      BY <1>1, <2>1, <3>1
    <3>3. QED
      BY <3>1, <3>2
  <2>2. QED
    BY <2>1
<1>4. \A x \in Int : 0 < whole * x + whole => x >= 0
  <2>1. ASSUME NEW x \in Int, 0 < whole * x + whole
        PROVE  x >= 0
    <3>1. whole * 0 = 0 /\ 0 \in Int
      OBVIOUS
    <3>2. 0 <= x
      BY <1>2, <2>1, <3>1
    <3>3. QED
      BY <3>2
  <2>2. QED
    BY <2>1
<1>5. \A x, p \in Int : p >= 0 /\ whole * x <= (whole - 1) * p => x <= p
  <2>1. ASSUME NEW x \in Int, NEW p \in Int, p >= 0, whole * x <= (whole - 1) * p
        PROVE  x <= p
    <3>1. (whole - 1) * p = whole * p - p /\ whole * p \in Int /\ whole * x \in Int
      OBVIOUS
    <3>2. whole * x < whole * p + whole
      BY <2>1, <3>1
    <3>3. QED
      BY <1>2, <3>2
  <2>2. QED
    BY <2>1
<1>6. QED
  BY <1>2, <1>3, <1>4, <1>5

(* A factor of what is less than a multiple.                               *)
LEMMA FactorAtMost ==
    ASSUME NEW whole \in Int, whole > 0, NEW x \in Int, NEW p \in Int, p >= 0,
           whole * x <= (whole - 1) * p
    PROVE  x <= p
BY Factors

(* A factor of what is not negative.                                       *)
LEMMA FactorNotNegative ==
    ASSUME NEW whole \in Int, whole > 0, NEW x \in Int, whole * x >= 0
    PROVE  x >= 0
BY Factors

(* The sum of what is nowhere negative.                                    *)
LEMMA WholeIsPositive ==
    ASSUME NEW n \in Nat, NEW w \in [1 .. n -> Nat], NEW f, IsSum(f, w, n)
    PROVE  Sums!SumOf(w) = f[n] /\ Sums!SumOf(w) \in Nat
<1>1. w \in [1 .. n -> Int]
  OBVIOUS
<1>2. Sums!SumOf(w) = f[n]
  BY <1>1, ListOf, SumIs
<1>3. \A i \in 1 .. n : /\ w[i] \in Int /\ w[i] \in Int
                        /\ 0 <= w[i] /\ w[i] <= 1 * w[i]
  OBVIOUS
<1>4. 0 <= f[n]
  BY <1>3, SumsBound, 1 \in Int
<1>5. f[n] \in Int
  BY DEF IsSum
<1>6. QED
  BY <1>2, <1>4, <1>5

-----------------------------------------------------------------------------
(* The floors of a split and what they leave over.                         *)
Floored(n, w, whole, m, floors, rest) ==
    /\ n \in Nat /\ w \in [1 .. n -> Nat] /\ whole \in Int /\ whole > 0 /\ m \in Nat
    /\ floors \in [1 .. n -> Nat] /\ rest \in [1 .. n -> Int]
    /\ \A i \in 1 .. n : 0 <= rest[i] /\ rest[i] <= whole - 1
    /\ \A i \in 1 .. n : m * w[i] = whole * floors[i] + rest[i]

(* Quotients and remainders are floors of a split.                         *)
LEMMA Floors ==
    ASSUME NEW n \in Nat, NEW w \in [1 .. n -> Nat], NEW whole \in Int, whole > 0, NEW m \in Nat
    PROVE  Floored(n, w, whole, m, [i \in 1 .. n |-> (m * w[i]) \div whole],
                                   [i \in 1 .. n |-> (m * w[i]) % whole])
<1> DEFINE x(i) == m * w[i]
           q(i) == x(i) \div whole
           r(i) == x(i) % whole
           floors == [i \in 1 .. n |-> q(i)]
           rest == [i \in 1 .. n |-> r(i)]
<1>1. \A i \in 1 .. n : x(i) = m * w[i] /\ x(i) \in Int /\ x(i) >= 0
  <2>1. ASSUME NEW i \in 1 .. n
        PROVE  m * w[i] \in Int /\ m * w[i] >= 0
    <3>1. w[i] \in Nat
      OBVIOUS
    <3>2. QED
      BY <3>1
  <2>2. QED
    BY <2>1, Zenon
<1> HIDE DEF x
<1>2. ASSUME NEW i \in 1 .. n
      PROVE  /\ q(i) \in Nat /\ r(i) \in Int /\ 0 <= r(i) /\ r(i) <= whole - 1
             /\ x(i) = whole * q(i) + r(i)
  <2>1. x(i) \in Int /\ x(i) >= 0 /\ whole \in Nat \ {0}
    BY <1>1
  <2>2. q(i) \in Int /\ whole * q(i) <= x(i) /\ x(i) < whole * q(i) + whole /\ r(i) = x(i) - whole * q(i)
    BY <2>1, Quotient
  <2> HIDE DEF q, r
  <2>3. whole * q(i) \in Int
    BY <2>2
  <2>4. 0 < whole * q(i) + whole
    BY <2>1, <2>2, <2>3
  <2>5. q(i) >= 0
    BY <2>2, <2>4, Factors
  <2> DEFINE v == whole * q(i)
             y == x(i)
             z == r(i)
  <2>6. v \in Int /\ y \in Int /\ z = y - v /\ v <= y /\ y < v + whole
    BY <2>1, <2>2, <2>3
  <2> HIDE DEF v, y, z
  <2>7. z \in Int /\ 0 <= z /\ z <= whole - 1 /\ y = v + z
    BY <2>1, <2>6
  <2>8. q(i) \in Nat
    BY <2>2, <2>5
  <2>9. QED
    BY <2>7, <2>8, Zenon DEF v, y, z
<1> HIDE DEF q, r
<1>3. floors \in [1 .. n -> Nat] /\ rest \in [1 .. n -> Int]
  BY <1>2
<1>4. \A i \in 1 .. n : floors[i] = q(i) /\ rest[i] = r(i)
  OBVIOUS
<1> HIDE DEF floors, rest
<1>5. \A i \in 1 .. n : 0 <= rest[i] /\ rest[i] <= whole - 1
  BY <1>2, <1>4
<1>6. \A i \in 1 .. n : m * w[i] = whole * floors[i] + rest[i]
  BY <1>1, <1>2, <1>4, Zenon
<1>7. Floored(n, w, whole, m, floors, rest)
  BY <1>3, <1>5, <1>6 DEF Floored
<1>8. QED
  BY <1>7, Zenon DEF floors, rest, q, r, x

(* What is left over is the sum of the remainders, and less than those     *)
(* that have one.                                                          *)
LEMMA LeftOver ==
    ASSUME NEW n, NEW w, NEW whole, NEW m, NEW floors, NEW rest,
           Floored(n, w, whole, m, floors, rest), whole = Sums!SumOf(w),
           NEW left, left = m - Sums!SumOf(floors)
    PROVE  /\ left \in Nat /\ Sums!SumOf(floors) \in Nat
           /\ left <= Cardinality({i \in 1 .. n : rest[i] > 0})
           /\ Cardinality({i \in 1 .. n : rest[i] > 0}) <= n
           /\ m = 0 => left = 0
<1> DEFINE T == {i \in 1 .. n : rest[i] > 0}
           one == [i \in 1 .. n |-> IF i \in T THEN 1 ELSE 0]
           p == Cardinality(T)
<1>0. /\ n \in Nat /\ w \in [1 .. n -> Nat] /\ whole \in Int /\ whole > 0 /\ m \in Nat /\ m \in Int
      /\ floors \in [1 .. n -> Nat] /\ rest \in [1 .. n -> Int]
  <2>1. /\ n \in Nat /\ w \in [1 .. n -> Nat] /\ whole \in Int /\ whole > 0 /\ m \in Nat
        /\ floors \in [1 .. n -> Nat] /\ rest \in [1 .. n -> Int]
    BY Zenon DEF Floored
  <2>2. QED
    BY <2>1
<1>1. /\ \A i \in 1 .. n : w[i] \in Int /\ floors[i] \in Int /\ rest[i] \in Int /\ one[i] \in Int
      /\ \A i \in 1 .. n : i \in T <=> rest[i] > 0
  BY SMTT(30), <1>0
<1>2. PICK W, F, R, C : /\ IsSum(W, w, n) /\ IsSum(F, floors, n)
                        /\ IsSum(R, rest, n) /\ IsSum(C, one, n)
  <2> HIDE DEF one, T
  <2>1. /\ \E f : IsSum(f, w, n)
        /\ \E f : IsSum(f, floors, n)
        /\ \E f : IsSum(f, rest, n)
        /\ \E f : IsSum(f, one, n)
    BY <1>0, <1>1, SumExists
  <2>2. QED
    BY <2>1
<1>3. W[n] = whole /\ Sums!SumOf(floors) = F[n] /\ F[n] \in Nat /\ R[n] \in Int
  <2>1. R[n] \in Int
    BY <1>0, <1>2 DEF IsSum
  <2>2. QED
    BY <1>0, <1>2, <2>1, WholeIsPositive
<1>4. IsFiniteSet(T) /\ p \in Nat /\ p <= n
  <2>1. T \in SUBSET (1 .. n)
    OBVIOUS
  <2>2. IsFiniteSet(1 .. n) /\ Cardinality(1 .. n) = n
    BY <1>0, FS_Interval
  <2> HIDE DEF T
  <2>3. IsFiniteSet(T) /\ Cardinality(T) <= n
    BY <2>1, <2>2, FS_Subset
  <2>4. QED
    BY <2>3, FS_CardinalityType
<1>5. C[n] = p
  <2>1. T \in SUBSET (1 .. n)
    OBVIOUS
  <2> HIDE DEF T
  <2>2. QED
    BY <1>0, <1>2, <2>1, SumCounts
<1>6. m * whole = whole * F[n] + 1 * R[n]
  <2>1. \A i \in 1 .. n : /\ floors[i] \in Int /\ rest[i] \in Int /\ w[i] \in Int
                          /\ m * w[i] = whole * floors[i] + 1 * rest[i]
    BY <1>1 DEF Floored
  <2>2. m * W[n] = whole * F[n] + 1 * R[n]
    <3>1. n \in Nat /\ whole \in Int /\ 1 \in Int /\ m \in Int
      BY <1>0
    <3>2. Combined(n, m, w, whole, floors, 1, rest)
      BY <2>1, Zenon DEF Combined
    <3>3. QED
      BY ONLY <1>2, <3>1, <3>2, SumsCombine
  <2>3. QED
    BY <1>3, <2>2
<1>7. 0 <= R[n] /\ R[n] <= (whole - 1) * p
  <2>1. ASSUME NEW i \in 1 .. n
        PROVE  /\ rest[i] \in Int /\ one[i] \in Int
               /\ 0 <= rest[i] /\ rest[i] <= (whole - 1) * one[i]
    <3>1. 0 <= rest[i] /\ rest[i] <= whole - 1 /\ rest[i] \in Int
      BY <1>1 DEF Floored
    <3>2. CASE rest[i] > 0
      <4>1. one[i] = 1
        BY <3>2
      <4>2. (whole - 1) * 1 = whole - 1
        BY <1>0
      <4>3. QED
        BY <3>1, <4>1, <4>2
    <3>3. CASE rest[i] = 0
      <4>1. one[i] = 0
        BY <3>3
      <4>2. (whole - 1) * 0 = 0
        BY <1>0
      <4>3. QED
        BY <3>3, <4>1, <4>2
    <3>4. QED
      BY <3>1, <3>2, <3>3
  <2>2. whole - 1 \in Int
    BY <1>0
  <2> HIDE DEF one, p, T
  <2>3. 0 <= R[n] /\ R[n] <= (whole - 1) * C[n]
    BY <1>0, <1>2, <2>1, <2>2, SumsBound
  <2>4. QED
    BY <1>5, <2>3
<1> HIDE DEF p, T, one
<1>8. whole * left = R[n] /\ left \in Int
  <2>1. left = m - F[n] /\ F[n] \in Int
    BY <1>3
  <2>2. whole * (m - F[n]) = m * whole - whole * F[n]
    BY <1>0, <2>1
  <2>3. m * whole \in Int /\ whole * F[n] \in Int
    BY <1>0, <2>1
  <2>4. whole * left = whole * (m - F[n])
    BY <2>1
  <2>5. left \in Int
    BY <1>0, <2>1
  <2> DEFINE a == m * whole
             b == whole * F[n]
             c == whole * left
  <2>6. c = a - b /\ a = b + 1 * R[n] /\ a \in Int /\ b \in Int
    BY <1>6, <2>2, <2>3, <2>4
  <2> HIDE DEF a, b, c
  <2>7. c = R[n]
    BY <1>3, <2>6
  <2>8. QED
    BY <2>5, <2>7 DEF c
<1>9. left >= 0 /\ left <= p
  <2>1. p \in Int /\ p >= 0
    BY <1>4
  <2>2. whole * left <= (whole - 1) * p /\ whole * left >= 0
    BY <1>3, <1>7, <1>8
  <2>3. QED
    BY <1>0, <1>8, <2>1, <2>2, FactorAtMost, FactorNotNegative
<1>10. m = 0 => left = 0
  BY <1>3, <1>9
<1>11. QED
  BY <1>3, <1>4, <1>8, <1>9, <1>10 DEF p, T

(* Products of sums.                                                       *)
LEMMA Products ==
    ASSUME NEW a \in Int, NEW b \in Int, NEW c \in Int
    PROVE  /\ (a + b) * c = c * a + b * c /\ c * a \in Int
           /\ a >= 1 /\ c >= 1 => c * a >= 1
OBVIOUS

(* How many get their unit before i.                                       *)
Sooner(n, rest, i) == Cardinality({j \in 1 .. n : Sums!Earlier(rest, j, i)})

(* Who gets a unit of what is left over has a remainder, and as many get   *)
(* one as units are left.                                                  *)
LEMMA UnitsHanded ==
    ASSUME NEW n \in Nat, NEW rest \in [1 .. n -> Int], NEW left \in Nat,
           \A i \in 1 .. n : 0 <= rest[i],
           left <= Cardinality({i \in 1 .. n : rest[i] > 0}),
           Cardinality({i \in 1 .. n : rest[i] > 0}) <= n
    PROVE  /\ Cardinality({i \in 1 .. n : Sooner(n, rest, i) < left}) = left
           /\ \A i \in 1 .. n : Sooner(n, rest, i) \in Nat
           /\ \A i \in 1 .. n : Sooner(n, rest, i) < left => rest[i] > 0
           /\ \A i, j \in 1 .. n : rest[i] > rest[j] => Sooner(n, rest, i) < Sooner(n, rest, j)
<1> DEFINE P == 1 .. n
           T == {i \in P : rest[i] > 0}
           below == [i \in P |-> {j \in P : Sums!Earlier(rest, j, i)}]
<1>1. StrictOrder(P, below)
  BY EarlierIsAnOrder
<1>2. IsFiniteSet(P) /\ Cardinality(P) = n
  BY FS_Interval
<1>3. RanksTell(P, below)
  <2> HIDE DEF P, below
  <2>1. QED
    BY <1>1, <1>2, RanksDiffer
<1>4. \A i \in P : Cardinality(below[i]) = Sooner(n, rest, i)
  BY DEF Sooner
<1>5. left <= Cardinality(T) /\ Cardinality(T) <= n /\ Cardinality(T) \in Nat
  <2>1. T \in SUBSET P
    OBVIOUS
  <2>2. IsFiniteSet(T)
    BY <1>2, <2>1, FS_Subset
  <2>3. Cardinality(T) \in Nat
    BY <2>2, FS_CardinalityType
  <2>4. QED
    BY <2>3
<1>6. Cardinality({i \in P : Cardinality(below[i]) < left}) = left
  <2>1. left \in 0 .. n
    BY <1>5
  <2> HIDE DEF below
  <2>2. QED
    BY <1>1, <2>1, FirstOnes
<1>7. {i \in P : Cardinality(below[i]) < left} = {i \in P : Sooner(n, rest, i) < left}
  BY <1>4
<1>8. \A i, j \in P : j \in below[i] <=> Sums!Earlier(rest, j, i)
  OBVIOUS
<1>9. \A i \in P : below[i] \in SUBSET P
  OBVIOUS
<1>10. \A i \in P : i \in T <=> rest[i] > 0
  OBVIOUS
<1>11. T \in SUBSET P
  OBVIOUS
<1>12. \A i \in P : i \in Int /\ rest[i] \in Int /\ 0 <= rest[i]
  OBVIOUS
<1> HIDE DEF P, T, below
<1>13. ASSUME NEW i \in P
       PROVE  IsFiniteSet(below[i]) /\ Cardinality(below[i]) \in Nat
  <2>1. IsFiniteSet(below[i])
    BY <1>2, <1>9, FS_Subset
  <2>2. QED
    BY <2>1, FS_CardinalityType
<1>14. ASSUME NEW i \in P, Cardinality(below[i]) < left
       PROVE  rest[i] > 0
  <2>1. SUFFICES ASSUME rest[i] = 0
                 PROVE  FALSE
    BY <1>12
  <2>2. T \in SUBSET below[i]
    <3>1. ASSUME NEW j \in P, j \in T
          PROVE  j \in below[i]
      <4>1. rest[j] > rest[i]
        BY <1>10, <2>1, <3>1
      <4>2. QED
        BY <1>8, <4>1 DEF Sums!Earlier
    <3>2. QED
      BY <1>11, <3>1
  <2>3. Cardinality(T) <= Cardinality(below[i])
    BY <1>13, <2>2, FS_Subset
  <2>4. QED
    BY <1>5, <1>13, <1>14, <2>3
<1>15. ASSUME NEW i \in P, NEW j \in P, rest[i] > rest[j]
       PROVE  Cardinality(below[i]) < Cardinality(below[j])
  <2>1. i \in below[j]
    BY <1>8, <1>15 DEF Sums!Earlier
  <2>2. QED
    BY <1>3, <2>1 DEF RanksTell
<1>16. Cardinality({i \in P : Sooner(n, rest, i) < left}) = left
  BY <1>6, <1>7
<1>17. \A i \in P : Sooner(n, rest, i) \in Nat
  BY <1>4, <1>13
<1>18. \A i \in P : Sooner(n, rest, i) < left => rest[i] > 0
  BY <1>4, <1>14
<1>19. \A i, j \in P : rest[i] > rest[j] => Sooner(n, rest, i) < Sooner(n, rest, j)
  BY <1>4, <1>15
<1>20. QED
  BY <1>16, <1>17, <1>18, <1>19 DEF P

(* The shares of a magnitude: what they are, and that they are fair.       *)
Shared(n, w, whole, m, shares) ==
    \E floors, rest :
       /\ Floored(n, w, whole, m, floors, rest)
       /\ shares = [i \in 1 .. n |->
                      IF Sooner(n, rest, i) < m - Sums!SumOf(floors) THEN floors[i] + 1 ELSE floors[i]]

Fair(n, w, whole, m, shares) ==
    /\ shares \in [1 .. n -> Nat]
    /\ Sums!SumOf(shares) = m
    /\ \A i \in 1 .. n : shares[i] * whole - m * w[i] < whole /\ m * w[i] - shares[i] * whole < whole
    /\ \A i \in 1 .. n : w[i] = 0 => shares[i] = 0
    /\ \A i, j \in 1 .. n : w[i] > w[j] => shares[i] >= shares[j]
    /\ m = 0 => \A i \in 1 .. n : shares[i] = 0

(* The shares make the magnitude, each next to its exact share, in order.  *)
LEMMA SharesAreFair ==
    ASSUME NEW n, NEW w, NEW whole, NEW m, NEW shares, Shared(n, w, whole, m, shares),
           whole = Sums!SumOf(w)
    PROVE  Fair(n, w, whole, m, shares)
<1>1. PICK floors, rest :
         /\ Floored(n, w, whole, m, floors, rest)
         /\ shares = [i \in 1 .. n |->
               IF Sooner(n, rest, i) < m - Sums!SumOf(floors) THEN floors[i] + 1 ELSE floors[i]]
  BY DEF Shared
<1> DEFINE left == m - Sums!SumOf(floors)
           D == {i \in 1 .. n : Sooner(n, rest, i) < left}
           one == [i \in 1 .. n |-> IF i \in D THEN 1 ELSE 0]
<1>2. /\ n \in Nat /\ w \in [1 .. n -> Nat] /\ whole \in Int /\ whole > 0 /\ m \in Nat
      /\ floors \in [1 .. n -> Nat] /\ rest \in [1 .. n -> Int]
  BY <1>1, Zenon DEF Floored
<1>3. /\ left \in Nat /\ Sums!SumOf(floors) \in Nat
      /\ left <= Cardinality({i \in 1 .. n : rest[i] > 0})
      /\ Cardinality({i \in 1 .. n : rest[i] > 0}) <= n
      /\ m = 0 => left = 0
  BY <1>1, LeftOver
<1>4. \A i \in 1 .. n : 0 <= rest[i] /\ rest[i] <= whole - 1
  BY <1>1, Zenon DEF Floored
<1>5. \A i \in 1 .. n : m * w[i] = whole * floors[i] + rest[i]
  BY <1>1, Zenon DEF Floored
<1>6. /\ Cardinality(D) = left
      /\ \A i \in 1 .. n : Sooner(n, rest, i) \in Nat
      /\ \A i \in 1 .. n : i \in D => rest[i] > 0
      /\ \A i, j \in 1 .. n : rest[i] > rest[j] => Sooner(n, rest, i) < Sooner(n, rest, j)
  <2> HIDE DEF left
  <2>1. /\ Cardinality({i \in 1 .. n : Sooner(n, rest, i) < left}) = left
        /\ \A i \in 1 .. n : Sooner(n, rest, i) \in Nat
        /\ \A i \in 1 .. n : Sooner(n, rest, i) < left => rest[i] > 0
        /\ \A i, j \in 1 .. n : rest[i] > rest[j] => Sooner(n, rest, i) < Sooner(n, rest, j)
    BY <1>2, <1>3, <1>4, UnitsHanded
  <2>2. QED
    BY <2>1
<1>7. /\ D \in SUBSET (1 .. n)
      /\ \A i \in 1 .. n : shares[i] = floors[i] + one[i]
      /\ \A i \in 1 .. n : one[i] \in {0, 1} /\ (one[i] = 1 <=> i \in D)
      /\ shares \in [1 .. n -> Nat]
  BY <1>1, <1>2
<1>8. \A i, j \in 1 .. n : rest[i] > rest[j] => one[i] >= one[j]
  <2>1. ASSUME NEW i \in 1 .. n, NEW j \in 1 .. n, rest[i] > rest[j], one[j] = 1
        PROVE  one[i] = 1
    <3>1. Sooner(n, rest, j) < left /\ Sooner(n, rest, i) < Sooner(n, rest, j)
      BY <1>6, <1>7, <2>1
    <3>2. Sooner(n, rest, i) < left
      BY <1>3, <1>6, <3>1
    <3>3. QED
      BY <1>7, <3>2
  <2>2. QED
    BY <1>7, <2>1
<1>9. m = 0 => \A i \in 1 .. n : one[i] = 0
  BY <1>3, <1>6, <1>7
<1> HIDE DEF left, D
<1>10. Sums!SumOf(shares) = m
  <2>1. \A i \in 1 .. n : floors[i] \in Int /\ one[i] \in Int /\ shares[i] \in Int
    BY <1>2, <1>7
  <2> HIDE DEF one
  <2>2. /\ \E f : IsSum(f, floors, n)
        /\ \E f : IsSum(f, one, n)
        /\ \E f : IsSum(f, shares, n)
    BY <1>2, <2>1, SumExists
  <2>3. PICK F, C, S : IsSum(F, floors, n) /\ IsSum(C, one, n) /\ IsSum(S, shares, n)
    BY <2>2
  <2>4. Combined(n, 1, shares, 1, floors, 1, one)
    BY <1>7, <2>1 DEF Combined
  <2>5. 1 * S[n] = 1 * F[n] + 1 * C[n]
    BY <1>2, <2>3, <2>4, SumsCombine, 1 \in Int
  <2>6. C[n] = Cardinality(D)
    BY <1>2, <1>7, <2>3, SumCounts DEF one
  <2>7. Sums!SumOf(floors) = F[n] /\ Sums!SumOf(shares) = S[n]
    BY <1>2, <1>7, <2>3, WholeIsPositive
  <2>8. Sums!SumOf(shares) \in Nat
    BY <1>2, <1>7, <2>3, WholeIsPositive
  <2>9. QED
    BY <1>2, <1>3, <1>6, <2>5, <2>6, <2>7, <2>8 DEF left
<1> HIDE DEF one
<1>11. ASSUME NEW i \in 1 .. n
       PROVE  /\ shares[i] * whole - m * w[i] < whole /\ m * w[i] - shares[i] * whole < whole
              /\ w[i] = 0 => shares[i] = 0
              /\ m = 0 => shares[i] = 0
  <2> DEFINE f == floors[i]
             r == rest[i]
             o == one[i]
             x == m * w[i]
             y == whole * f
  <2>1. /\ f \in Nat /\ r \in Int /\ 0 <= r /\ r <= whole - 1 /\ o \in {0, 1}
        /\ x = y + r /\ (o = 1 => r > 0) /\ shares[i] = f + o /\ y \in Int
    BY SMTT(30), <1>2, <1>4, <1>5, <1>6, <1>7
  <2>2. shares[i] * whole = y + o * whole
    <3>1. f \in Int /\ o \in Int
      BY <2>1
    <3> HIDE DEF f, o
    <3>2. (f + o) * whole = whole * f + o * whole
      BY <1>2, <3>1, Products
    <3>3. QED
      BY <2>1, <3>2, Zenon
  <2>3. w[i] = 0 \/ m = 0 => x = 0
    BY <1>2
  <2>4. y >= 0 /\ (y = 0 => f = 0)
    <3>1. f = 0 => y = 0
      BY <1>2
    <3>2. f >= 1 => y >= 1
      <4>1. f \in Int /\ whole >= 1 /\ 1 \in Int
        BY <1>2, <2>1
      <4> HIDE DEF f
      <4>2. QED
        BY <1>2, <4>1, Products
    <3>3. QED
      BY <2>1, <3>1, <3>2
  <2> HIDE DEF f, r, o, x, y
  <2>5. o * whole = IF o = 1 THEN whole ELSE 0
    BY <1>2, <2>1
  <2> DEFINE s == shares[i] * whole
  <2>6. s = y + (IF o = 1 THEN whole ELSE 0)
    BY <2>2, <2>5
  <2> HIDE DEF s
  <2>7. s - x < whole /\ x - s < whole
    BY <1>2, <2>1, <2>6, SMTT(30)
  <2>8. x = 0 => shares[i] = 0
    BY <2>1, <2>4
  <2>9. QED
    BY <2>3, <2>7, <2>8 DEF s, x
<1>12. ASSUME NEW i \in 1 .. n, NEW j \in 1 .. n, w[i] > w[j]
       PROVE  shares[i] >= shares[j]
  <2> DEFINE f == floors[i]
             g == floors[j]
             r == rest[i]
             q == rest[j]
             x == m * w[i]
             y == m * w[j]
  <2>1. /\ f \in Nat /\ r \in Int /\ 0 <= r /\ r <= whole - 1 /\ one[i] \in {0, 1}
        /\ g \in Nat /\ q \in Int /\ 0 <= q /\ q <= whole - 1 /\ one[j] \in {0, 1}
        /\ x = whole * f + r /\ y = whole * g + q
        /\ shares[i] = f + one[i] /\ shares[j] = g + one[j]
        /\ (r > q => one[i] >= one[j])
    BY <1>2, <1>4, <1>5, <1>7, <1>8
  <2>2. CASE m = 0
    BY <1>11, <2>2
  <2>3. CASE m > 0
    <3>1. x > y
      <4> DEFINE u == w[i]
                 v == w[j]
      <4>1. u \in Nat /\ v \in Nat /\ u > v
        BY <1>2, <1>12
      <4> HIDE DEF u, v
      <4> DEFINE e == u - v - 1
      <4>2. e \in Int /\ e >= 0 /\ u = v + 1 + e
        BY <4>1
      <4> HIDE DEF e
      <4>3. m * u = m * v + m + m * e /\ m * e >= 0 /\ m * e \in Int /\ m * v \in Int
        BY <1>2, <4>1, <4>2
      <4>4. m * u > m * v
        BY <1>2, <2>3, <4>3
      <4>5. QED
        BY <4>4 DEF u, v
    <3>2. x \in Int /\ y \in Int
      BY <1>2
    <3> HIDE DEF f, g, r, q, x, y
    <3> DEFINE a == whole * f
               b == whole * g
    <3>3. a \in Int /\ b \in Int
      <4>1. f \in Int /\ g \in Int
        BY <2>1
      <4>2. QED
        BY <1>2, <4>1
    <3>4. x = a + r /\ y = b + q /\ (g = f => a = b)
      BY <2>1
    <3>5. g <= f
      <4> HIDE DEF a, b
      <4>0. /\ r \in Int /\ 0 <= r /\ r <= whole - 1 /\ q \in Int /\ 0 <= q /\ q <= whole - 1
            /\ whole \in Int
        BY <1>2, <2>1
      <4>1. b < a + whole
        BY ONLY <4>0, <3>1, <3>2, <3>3, <3>4
      <4>2. g \in Int /\ f \in Int
        BY <2>1
      <4>3. whole * g < whole * f + whole
        BY <4>1 DEF a, b
      <4>4. QED
        BY <1>2, <4>2, <4>3, Factors
    <3> HIDE DEF a, b
    <3>6. g = f => r > q
      BY <2>1, <3>1, <3>2, <3>3, <3>4
    <3>7. QED
      BY <2>1, <3>5, <3>6
  <2>4. QED
    BY <1>2, <2>2, <2>3
<1>13. QED
  BY <1>7, <1>10, <1>11, <1>12, Zenon DEF Fair

-----------------------------------------------------------------------------
(* Allocate hands out the shares of the magnitude, under the total's sign. *)
LEMMA AllocateShares ==
    ASSUME NEW n \in Nat, NEW w \in [1 .. n -> Nat], NEW m \in Nat, Sums!SumOf(w) > 0
    PROVE  \E shares :
             /\ Fair(n, w, Sums!SumOf(w), m, shares)
             /\ \A t \in Int : Sums!Absolute(t) = m =>
                  Sums!Allocate(t, w) = IF t < 0 THEN [i \in 1 .. n |-> -shares[i]] ELSE shares
<1> DEFINE whole == Sums!SumOf(w)
           floors == [i \in 1 .. n |-> (m * w[i]) \div whole]
           rest == [i \in 1 .. n |-> (m * w[i]) % whole]
           left == m - Sums!SumOf(floors)
           shares == [i \in 1 .. n |-> IF Sooner(n, rest, i) < left THEN floors[i] + 1 ELSE floors[i]]
<1>1. whole \in Int
  <2>1. \E f : IsSum(f, w, n)
    BY SumExists
  <2>2. QED
    BY <2>1, WholeIsPositive
<1>2. Floored(n, w, whole, m, floors, rest)
  <2> HIDE DEF whole
  <2>1. whole > 0
    BY DEF whole
  <2>2. QED
    BY <1>1, <2>1, Floors
<1>3. Shared(n, w, whole, m, shares)
  <2> HIDE DEF whole, floors, rest
  <2>1. QED
    BY <1>2 DEF Shared
<1>4. Fair(n, w, whole, m, shares)
  <2> HIDE DEF shares
  <2>1. whole = Sums!SumOf(w)
    OBVIOUS
  <2> HIDE DEF whole
  <2>2. QED
    BY <1>3, <2>1, SharesAreFair
<1>5. ASSUME NEW t \in Int, Sums!Absolute(t) = m
      PROVE  Sums!Allocate(t, w) = IF t < 0 THEN [i \in 1 .. n |-> -shares[i]] ELSE shares
  <2>1. DOMAIN w = 1 .. n
    OBVIOUS
  <2> DEFINE before(i) == Sums!Cardinality({j \in DOMAIN w : Sums!Earlier(rest, j, i)})
             given == [i \in DOMAIN w |-> IF before(i) < left THEN floors[i] + 1 ELSE floors[i]]
  <2>2. Sums!Allocate(t, w) = IF t < 0 THEN [i \in DOMAIN w |-> -given[i]] ELSE given
    BY <1>5, <2>1, Zenon DEF Sums!Allocate
  <2>3. \A i \in 1 .. n : before(i) = Sooner(n, rest, i)
    BY <2>1, SumsCount DEF Sooner
  <2>4. given = shares
    <3> HIDE DEF before, left, floors
    <3>1. QED
      BY <2>1, <2>3
  <2> HIDE DEF given, shares
  <2>5. QED
    BY <2>1, <2>2, <2>4
<1> HIDE DEF shares
<1>6. QED
  BY <1>4, <1>5

(* The sum of what is negated is negated.                                  *)
LEMMA NegatedSum ==
    ASSUME NEW n \in Nat, NEW s \in [1 .. n -> Nat]
    PROVE  Sums!SumOf([i \in 1 .. n |-> -s[i]]) = -Sums!SumOf(s)
<1> DEFINE t == [i \in 1 .. n |-> -s[i]]
<1>1. /\ t \in [1 .. n -> Int] /\ s \in [1 .. n -> Int]
      /\ \A i \in 1 .. n : s[i] \in Int /\ t[i] \in Int /\ t[i] = -s[i]
  OBVIOUS
<1> HIDE DEF t
<1>2. (\E f : IsSum(f, s, n)) /\ (\E f : IsSum(f, t, n))
  BY <1>1, SumExists
<1>3. PICK F, G : IsSum(F, s, n) /\ IsSum(G, t, n)
  BY <1>2
<1>4. Combined(n, 1, s, -1, t, 0, t)
  BY <1>1 DEF Combined
<1> DEFINE k == -1
<1>5. 1 * F[n] = k * G[n] + 0 * G[n]
  <2>1. k \in Int /\ Combined(n, 1, s, k, t, 0, t)
    BY <1>4
  <2> HIDE DEF k
  <2>2. QED
    BY <1>3, <2>1, SumsCombine, 1 \in Int, 0 \in Int
<1>6. Sums!SumOf(s) = F[n] /\ Sums!SumOf(t) = G[n]
  <2>1. Sums!Len(s) = n /\ Sums!Len(t) = n
    BY <1>1, ListOf
  <2>2. QED
    BY <1>3, <2>1, SumIs
<1>7. F[n] \in Int /\ G[n] \in Int
  BY <1>3 DEF IsSum
<1>8. Sums!SumOf(t) = -Sums!SumOf(s)
  BY <1>5, <1>6, <1>7
<1>9. QED
  BY <1>8 DEF t

(* Every amount is split fairly by every list of weights.                  *)
LEMMA AlwaysSplitsFairly ==
    ASSUME NEW total \in Int, NEW n \in Nat, NEW w \in [1 .. n -> Nat]
    PROVE  Sums!SplitsFairly(total, w)
<1> DEFINE whole == Sums!SumOf(w)
           m == Sums!Absolute(total)
           part == Sums!Allocate(total, w)
<1>1. DOMAIN w = 1 .. n
  OBVIOUS
<1>2. SUFFICES ASSUME Sums!Allocatable(w)
               PROVE  /\ Sums!SumOf(part) = total
                      /\ \A i \in 1 .. n :
                            /\ Sums!Absolute(part[i] * whole - total * w[i]) < whole
                            /\ w[i] = 0 => part[i] = 0
                            /\ \A j \in 1 .. n : w[i] > w[j] =>
                                  Sums!Absolute(part[i]) >= Sums!Absolute(part[j])
                      /\ Sums!Allocate(-total, w) = [i \in 1 .. n |-> -part[i]]
  BY <1>1, Zenon DEF Sums!SplitsFairly
<1>3. whole \in Int /\ whole > 0
  <2>1. \E f : IsSum(f, w, n)
    BY SumExists
  <2>2. whole \in Nat
    BY <2>1, WholeIsPositive
  <2>3. whole # 0
    BY <1>2 DEF Sums!Allocatable
  <2>4. QED
    BY <2>2, <2>3
<1>4. m \in Nat /\ m = (IF total < 0 THEN -total ELSE total) /\ Sums!Absolute(-total) = m
  BY DEF Sums!Absolute
<1>5. PICK shares :
        /\ Fair(n, w, whole, m, shares)
        /\ \A t \in Int : Sums!Absolute(t) = m =>
             Sums!Allocate(t, w) = IF t < 0 THEN [i \in 1 .. n |-> -shares[i]] ELSE shares
  BY <1>3, <1>4, AllocateShares
<1>6. /\ part = IF total < 0 THEN [i \in 1 .. n |-> -shares[i]] ELSE shares
      /\ Sums!Allocate(-total, w) = IF -total < 0 THEN [i \in 1 .. n |-> -shares[i]] ELSE shares
  BY <1>4, <1>5
<1> HIDE DEF part, whole
<1>7. /\ shares \in [1 .. n -> Nat] /\ Sums!SumOf(shares) = m
      /\ \A i \in 1 .. n : w[i] = 0 => shares[i] = 0
      /\ \A i, j \in 1 .. n : w[i] > w[j] => shares[i] >= shares[j]
      /\ m = 0 => \A i \in 1 .. n : shares[i] = 0
  BY <1>5, Zenon DEF Fair
<1>8. \A i \in 1 .. n : shares[i] * whole - m * w[i] < whole /\ m * w[i] - shares[i] * whole < whole
  BY <1>5, Zenon DEF Fair
<1>9. \A i \in 1 .. n : shares[i] \in Nat /\ w[i] \in Nat /\ part[i] = IF total < 0 THEN -shares[i] ELSE shares[i]
  BY <1>6, <1>7
<1>10. Sums!SumOf(part) = total
  <2>1. Sums!SumOf([i \in 1 .. n |-> -shares[i]]) = -m
    BY <1>7, NegatedSum
  <2>2. QED
    BY <1>4, <1>6, <1>7, <2>1
<1>11. ASSUME NEW i \in 1 .. n
       PROVE  Sums!Absolute(part[i] * whole - total * w[i]) < whole
  <2> DEFINE s == shares[i]
             x == s * whole
             y == m * w[i]
             z == part[i] * whole - total * w[i]
  <2>1. x \in Int /\ y \in Int /\ x - y < whole /\ y - x < whole
    <3>1. s \in Nat /\ w[i] \in Nat
      BY <1>9
    <3> HIDE DEF s
    <3>2. x \in Int /\ y \in Int
      BY <1>3, <1>4, <3>1
    <3>3. QED
      BY <1>8, <3>2 DEF s
  <2>2. z = IF total < 0 THEN -(x - y) ELSE x - y
    <3> DEFINE v == w[i]
    <3>1. s \in Int /\ v \in Int /\ part[i] = IF total < 0 THEN -s ELSE s
      BY <1>9
    <3>2. z = part[i] * whole - total * v /\ y = m * v
      OBVIOUS
    <3> HIDE DEF s, v, m, z, y
    <3>3. CASE total < 0
      <4>1. part[i] = -s /\ total = -m /\ m \in Int
        BY <1>4, <3>1, <3>3
      <4>2. (-s) * whole = -(s * whole) /\ (-m) * v = -(m * v) /\ s * whole \in Int /\ m * v \in Int
        BY <1>3, <3>1, <4>1
      <4>3. z = -(s * whole) - (-(m * v))
        BY <3>2, <4>1, <4>2, Zenon
      <4>4. QED
        BY <3>2, <3>3, <4>2, <4>3
    <3>4. CASE ~(total < 0)
      <4>1. part[i] = s /\ total = m
        BY <1>4, <3>1, <3>4
      <4>2. QED
        BY <3>2, <3>4, <4>1, Zenon
    <3>5. QED
      BY <3>3, <3>4
  <2> HIDE DEF x, y, z
  <2>3. Sums!Absolute(z) < whole
    BY <1>3, <2>1, <2>2 DEF Sums!Absolute
  <2>4. QED
    BY <2>3 DEF z
<1>12. ASSUME NEW i \in 1 .. n
       PROVE  /\ w[i] = 0 => part[i] = 0
              /\ \A j \in 1 .. n : w[i] > w[j] => Sums!Absolute(part[i]) >= Sums!Absolute(part[j])
  <2>1. w[i] = 0 => part[i] = 0
    BY <1>7, <1>9
  <2>2. \A k \in 1 .. n : Sums!Absolute(part[k]) = shares[k]
    BY <1>9 DEF Sums!Absolute
  <2>3. QED
    BY <1>7, <2>1, <2>2
<1>13. Sums!Allocate(-total, w) = [i \in 1 .. n |-> -part[i]]
  <2>1. CASE total < 0
    <3>1. ~(-total < 0)
      BY <2>1
    <3>2. Sums!Allocate(-total, w) = shares
      BY <1>6, <3>1
    <3>3. \A i \in 1 .. n : -part[i] = shares[i]
      BY <1>9, <2>1
    <3>4. QED
      BY <1>7, <3>2, <3>3
  <2>2. CASE total > 0
    <3>1. -total < 0
      BY <2>2
    <3>2. Sums!Allocate(-total, w) = [i \in 1 .. n |-> -shares[i]]
      BY <1>6, <3>1
    <3>3. \A i \in 1 .. n : part[i] = shares[i]
      BY <1>9, <2>2
    <3>4. QED
      BY <3>2, <3>3
  <2>3. CASE total = 0
    <3>1. ~(-total < 0)
      BY <2>3
    <3>2. Sums!Allocate(-total, w) = shares
      BY <1>6, <3>1
    <3>3. \A i \in 1 .. n : part[i] = 0 /\ shares[i] = 0
      BY <1>4, <1>7, <1>9, <2>3
    <3>4. QED
      BY <1>7, <3>2, <3>3
  <2>4. QED
    BY <2>1, <2>2, <2>3
<1>14. QED
  BY <1>10, <1>11, <1>12, <1>13

-----------------------------------------------------------------------------
(* Rounding: of naturals, then of any two with a divisor.                  *)
LEMMA RoundedIsNearest ==
    ASSUME NEW n \in Nat, NEW d \in Nat \ {0}
    PROVE  LET r == Sums!RoundedQuotient(n, d)
           IN  /\ r \in Nat /\ 2 * (n - r * d) <= d /\ 2 * (r * d - n) <= d
               /\ 2 * (n - r * d) = d \/ 2 * (r * d - n) = d => r % 2 = 0
<1> DEFINE q == n \div d
           e == n % d
           x == d * q
           r == Sums!RoundedQuotient(n, d)
<1>1. /\ q \in Int /\ x <= n /\ n < x + d /\ e = n - x
  BY Quotient
<1>2. r = IF 2 * e > d \/ (2 * e = d /\ q % 2 /= 0) THEN q + 1 ELSE q
  BY DEF Sums!RoundedQuotient
<1> HIDE DEF q, e, r
<1>3. x \in Int
  BY <1>1
<1>4. q >= 0
  <2>1. 0 < d * q + d
    BY <1>1, <1>3
  <2>2. d \in Int /\ d > 0
    OBVIOUS
  <2>3. QED
    BY <1>1, <2>1, <2>2, Factors
<1>5. r * d = IF r = q + 1 THEN x + d ELSE x
  <2>1. (q + 1) * d = d * q + 1 * d /\ q * d = d * q /\ 1 * d = d
    BY <1>1
  <2>2. r = q \/ r = q + 1
    BY <1>2
  <2>3. q /= q + 1
    BY <1>1
  <2>4. CASE r = q
    <3>1. r * d = x /\ r /= q + 1
      BY <2>1, <2>3, <2>4, Zenon
    <3>2. QED
      BY <3>1
  <2>5. CASE r = q + 1
    <3>1. r * d = x + d
      BY <2>1, <2>5
    <3>2. QED
      BY <2>5, <3>1
  <2>6. QED
    BY <2>2, <2>4, <2>5
<1> DEFINE y == r * d
<1>6. y = IF r = q + 1 THEN x + d ELSE x
  BY <1>5
<1> HIDE DEF x, y
<1>7. r \in Nat
  BY <1>1, <1>2, <1>4
<1>8. 2 * (n - y) <= d /\ 2 * (y - n) <= d
  BY <1>1, <1>2, <1>3, <1>6
<1>9. 2 * (n - y) = d \/ 2 * (y - n) = d => r % 2 = 0
  BY <1>1, <1>2, <1>3, <1>6
<1>10. QED
  BY <1>7, <1>8, <1>9 DEF y, r

(* Every quotient is rounded to the nearest, to even from halfway.         *)
LEMMA AlwaysNearestEven ==
    ASSUME NEW n \in Int, NEW d \in Int
    PROVE  Sums!NearestEven(n, d) /\ (d # 0 => Sums!RoundHalfEven(n, d) \in Int)
<1>1. SUFFICES ASSUME d # 0
               PROVE  Sums!NearestEven(n, d) /\ Sums!RoundHalfEven(n, d) \in Int
  BY DEF Sums!NearestEven, Sums!Roundable
<1> DEFINE N == Sums!Absolute(n)
           D == Sums!Absolute(d)
           R == Sums!RoundedQuotient(N, D)
           r == Sums!RoundHalfEven(n, d)
           y == R * D
<1>2. /\ N \in Nat /\ N = (IF n < 0 THEN -n ELSE n)
      /\ D \in Nat \ {0} /\ D = (IF d < 0 THEN -d ELSE d)
  BY <1>1 DEF Sums!Absolute
<1>3. r = IF (n < 0) /= (d < 0) THEN -R ELSE R
  BY DEF Sums!RoundHalfEven
<1> HIDE DEF N, D, r
<1>4. /\ R \in Nat /\ 2 * (N - y) <= D /\ 2 * (y - N) <= D
      /\ 2 * (N - y) = D \/ 2 * (y - N) = D => R % 2 = 0
  BY <1>2, RoundedIsNearest
<1> HIDE DEF R
<1>5. y \in Int
  BY <1>2, <1>4
<1>6. r * d = IF n < 0 THEN -y ELSE y
  <2>1. R \in Int /\ D \in Int
    BY <1>2, <1>4
  <2>2. (-R) * D = -(R * D) /\ R * (-D) = -(R * D) /\ (-R) * (-D) = R * D
    BY <2>1
  <2>3. CASE n < 0 /\ d < 0
    <3>1. r = R /\ d = -D
      BY <1>2, <1>3, <2>3
    <3>2. QED
      BY <2>2, <2>3, <3>1
  <2>4. CASE n < 0 /\ ~(d < 0)
    <3>1. r = -R /\ d = D
      BY <1>2, <1>3, <2>4
    <3>2. QED
      BY <2>2, <2>4, <3>1
  <2>5. CASE ~(n < 0) /\ d < 0
    <3>1. r = -R /\ d = -D
      BY <1>2, <1>3, <2>5
    <3>2. QED
      BY <2>2, <2>5, <3>1
  <2>6. CASE ~(n < 0) /\ ~(d < 0)
    <3>1. r = R /\ d = D
      BY <1>2, <1>3, <2>6
    <3>2. QED
      BY <2>6, <3>1
  <2>7. QED
    BY <2>3, <2>4, <2>5, <2>6
<1> DEFINE z == r * d
           off == Sums!Absolute(n - z)
<1>7. z = IF n < 0 THEN -y ELSE y
  BY <1>6
<1>8. r \in Int /\ (R % 2 = 0 => r % 2 = 0)
  <2>1. r = R \/ r = -R
    BY <1>3
  <2>2. R % 2 = 0 => (-R) % 2 = 0
    BY <1>4
  <2>3. QED
    BY <1>4, <2>1, <2>2
<1>9. Sums!NearestEven(n, d) <=> 2 * off <= D /\ (2 * off = D => r % 2 = 0)
  BY <1>1 DEF Sums!NearestEven, Sums!Roundable, D, r
<1> HIDE DEF y, z
<1>10. off = IF N >= y THEN N - y ELSE y - N
  BY <1>2, <1>5, <1>7 DEF Sums!Absolute
<1> HIDE DEF off
<1>11. 2 * off <= D /\ (2 * off = D => R % 2 = 0)
  BY <1>2, <1>4, <1>5, <1>10
<1>12. QED
  BY <1>8, <1>9, <1>11 DEF r

-----------------------------------------------------------------------------
(* The sum of two.                                                         *)
LEMMA SumOfTwo ==
    ASSUME NEW s \in [1 .. 2 -> Int]
    PROVE  Sums!SumOf(s) = s[1] + s[2]
<1>1. \E f : IsSum(f, s, 2)
  BY SumExists, 2 \in Nat
<1>2. PICK f : IsSum(f, s, 2)
  BY <1>1
<1>3. Sums!SumOf(s) = f[2]
  BY <1>2, ListOf, SumIs, 2 \in Nat
<1>4. f[0] = 0 /\ \A i \in 1 .. 2 : f[i] = f[i - 1] + s[i]
  BY <1>2 DEF IsSum
<1>5. f[1] = f[1 - 1] + s[1] /\ f[2] = f[2 - 1] + s[2]
  BY <1>4, 1 \in 1 .. 2, 2 \in 1 .. 2
<1>6. 1 - 1 = 0 /\ 2 - 1 = 1 /\ s[1] \in Int /\ s[2] \in Int
  OBVIOUS
<1>7. f[1] = s[1] /\ f[2] = s[1] + s[2]
  BY <1>4, <1>5, <1>6
<1>8. QED
  BY <1>3, <1>7

(* The lines of every quote add up.                                        *)
LEMMA QuoteAlwaysBalances ==
    ASSUME NEW gross \in Int
    PROVE  Sums!QuoteBalances(gross)
<1> DEFINE w == <<900, 900>>
           tax == Sums!RoundHalfEven(gross * 1800, 10000)
           part == Sums!Allocate(tax, w)
           q == Sums!QuoteForPlan(gross)
<1>1. gross - 0 = gross /\ gross * 1800 \in Int /\ 10000 \in Int
  OBVIOUS
<1>2. q = [gross |-> gross, discount |-> 0, net |-> gross, tax |-> tax,
           components |-> part, total |-> gross + tax]
  BY <1>1 DEF Sums!QuoteForPlan, Sums!MultiplyByBps, Sums!TaxBps, Sums!TaxComponents
<1>3. tax \in Int /\ Sums!NearestEven(gross * 1800, 10000)
  BY <1>1, AlwaysNearestEven
<1>4. w \in [1 .. 2 -> Nat] /\ w[1] = 900 /\ w[2] = 900 /\ w \in [1 .. 2 -> Int]
  OBVIOUS
<1>5. Sums!SumOf(w) = 1800
  <2> HIDE DEF w
  <2>1. Sums!SumOf(w) = w[1] + w[2]
    BY <1>4, SumOfTwo
  <2>2. QED
    BY <1>4, <2>1
<1>6. Sums!Allocatable(w)
  BY <1>4, <1>5 DEF Sums!Allocatable
<1>7. 2 * Sums!Absolute(10000 * tax - 1800 * gross) <= 10000
  <2> HIDE DEF tax
  <2>1. LET r == Sums!RoundHalfEven(gross * 1800, 10000)
        IN  2 * Sums!Absolute(gross * 1800 - r * 10000) <= Sums!Absolute(10000)
    BY <1>3 DEF Sums!NearestEven, Sums!Roundable
  <2>2. 2 * Sums!Absolute(gross * 1800 - tax * 10000) <= Sums!Absolute(10000)
    BY <2>1 DEF tax
  <2>3. Sums!Absolute(10000) = 10000
    BY DEF Sums!Absolute
  <2>4. Sums!Absolute(gross * 1800 - tax * 10000) = Sums!Absolute(10000 * tax - 1800 * gross)
    BY <1>3 DEF Sums!Absolute
  <2>5. QED
    BY <2>2, <2>3, <2>4
<1> HIDE DEF w, tax, q
<1>8. part \in [1 .. 2 -> Int]
  <2>1. Sums!Absolute(tax) \in Nat
    BY <1>3 DEF Sums!Absolute
  <2>2. \E shares :
             /\ Fair(2, w, Sums!SumOf(w), Sums!Absolute(tax), shares)
             /\ \A t \in Int : Sums!Absolute(t) = Sums!Absolute(tax) =>
                  Sums!Allocate(t, w) = IF t < 0 THEN [i \in 1 .. 2 |-> -shares[i]] ELSE shares
    <3> DEFINE k == 2
    <3>1. k \in Nat /\ w \in [1 .. k -> Nat] /\ Sums!SumOf(w) > 0
      BY <1>4, <1>5
    <3>2. k = 2
      OBVIOUS
    <3> HIDE DEF k
    <3>3. \E shares :
             /\ Fair(k, w, Sums!SumOf(w), Sums!Absolute(tax), shares)
             /\ \A t \in Int : Sums!Absolute(t) = Sums!Absolute(tax) =>
                  Sums!Allocate(t, w) = IF t < 0 THEN [i \in 1 .. k |-> -shares[i]] ELSE shares
      BY <2>1, <3>1, AllocateShares
    <3>4. QED
      BY <3>2, <3>3, Zenon
  <2>3. PICK shares :
             /\ Fair(2, w, Sums!SumOf(w), Sums!Absolute(tax), shares)
             /\ \A t \in Int : Sums!Absolute(t) = Sums!Absolute(tax) =>
                  Sums!Allocate(t, w) = IF t < 0 THEN [i \in 1 .. 2 |-> -shares[i]] ELSE shares
    BY <2>2
  <2>4. shares \in [1 .. 2 -> Nat]
    BY <2>3, Zenon DEF Fair
  <2>5. part = IF tax < 0 THEN [i \in 1 .. 2 |-> -shares[i]] ELSE shares
    BY <1>3, <2>3
  <2> HIDE DEF part
  <2>6. QED
    BY <2>4, <2>5
<1>9. Sums!SplitsFairly(tax, w)
  <2> DEFINE k == 2
  <2>1. k \in Nat /\ w \in [1 .. k -> Nat]
    BY <1>4
  <2> HIDE DEF k
  <2>2. QED
    BY <1>3, <2>1, AlwaysSplitsFairly
<1>10. DOMAIN w = 1 .. 2
  BY <1>4
<1>11. /\ Sums!SumOf(part) = tax
       /\ \A i \in 1 .. 2 : Sums!Absolute(part[i] * Sums!SumOf(w) - tax * w[i]) < Sums!SumOf(w)
  BY <1>6, <1>9, <1>10, Zenon DEF Sums!SplitsFairly
<1> HIDE DEF part
<1>12. part[1] \in Int /\ part[2] \in Int /\ part[1] + part[2] = tax
  BY <1>8, <1>11, SumOfTwo
<1>13. /\ Sums!Absolute(part[1] * 1800 - tax * 900) < 1800
       /\ Sums!Absolute(part[2] * 1800 - tax * 900) < 1800
  BY <1>4, <1>5, <1>11, 1 \in 1 .. 2, 2 \in 1 .. 2
<1>14. Sums!Absolute(part[1] - part[2]) <= 1
  BY <1>3, <1>12, <1>13 DEF Sums!Absolute
<1>15. /\ q.total = gross + tax /\ q.gross = gross /\ q.discount = 0 /\ q.components = part
       /\ q.tax = tax /\ q.net = gross
  BY <1>2
<1>16. q.total = q.gross - q.discount + q.components[1] + q.components[2]
  BY <1>3, <1>12, <1>15
<1>17. 2 * Sums!Absolute(10000 * q.tax - Sums!TaxBps * q.net) <= 10000
  BY <1>7, <1>15 DEF Sums!TaxBps
<1>18. Sums!Absolute(q.components[1] - q.components[2]) <= 1
  BY <1>14, <1>15
<1>19. QED
  BY <1>16, <1>17, <1>18 DEF Sums!QuoteBalances, q

-----------------------------------------------------------------------------
(* The inputs of amounts: whole numbers, and lists of weights.             *)
AmountsAsked ==
    /\ scene = "rounding" => input.n \in Int /\ input.d \in Int
    /\ scene = "split" => /\ input.total \in Int
                          /\ \E n \in Nat : input.weights \in [1 .. n -> Nat]
    /\ scene = "quote" => input \in Int

NothingInputs == AmountsAsked /\ (scene = "clock" => ClockAsked(input))

(* The inputs of amounts and of the clock at the beginning.                *)
LEMMA NothingInputsAtFirst ==
    ASSUME MCInit
    PROVE  NothingInputs
<1> USE DEF NothingInputs, AmountsAsked
<1>1. CASE scene \in Steps \union {"lifecycle"}
  BY <1>1 DEF Steps
<1>2. CASE RoundingInput
  BY <1>2 DEF RoundingInput
<1>3. CASE SplitInput
  <2>1. PICK t \in -12 .. 12, w \in Weights : input = [total |-> t, weights |-> w]
    BY <1>3 DEF SplitInput
  <2>2. PICK n \in 0 .. 3 : w \in [1 .. n -> 0 .. 4]
    BY DEF Weights
  <2>3. n \in Nat /\ w \in [1 .. n -> Nat]
    BY <2>2
  <2>4. input.total \in Int /\ input.weights = w /\ scene = "split"
    BY <1>3, <2>1 DEF SplitInput
  <2>5. QED
    BY <2>3, <2>4
<1>4. CASE QuoteInput
  BY <1>4 DEF QuoteInput
<1>5. CASE ClockInput
  BY <1>5, ClockInputs DEF ClockInput
<1>6. CASE ChecklistInput \/ EditInput \/ SuiteInput \/ WizardInput \/ TaxInput \/ BytesInput
  BY <1>6 DEF ChecklistInput, EditInput, SuiteInput, WizardInput, TaxInput, BytesInput
<1>7. QED
  BY <1>1, <1>2, <1>3, <1>4, <1>5, <1>6 DEF MCInit

(* Of such inputs nothing is lost.                                         *)
LEMMA NothingInputsSuffice ==
    ASSUME NothingInputs
    PROVE  NothingIsLost
<1>1. NearestEven
  BY AlwaysNearestEven DEF NothingInputs, AmountsAsked, NearestEven
<1>2. SplitsFairly
  <2>1. SUFFICES ASSUME scene = "split"
                 PROVE  Sums!SplitsFairly(input.total, input.weights)
    BY DEF SplitsFairly
  <2>2. input.total \in Int /\ \E n \in Nat : input.weights \in [1 .. n -> Nat]
    BY <2>1 DEF NothingInputs, AmountsAsked
  <2>3. PICK n \in Nat : input.weights \in [1 .. n -> Nat]
    BY <2>2
  <2>4. QED
    BY <2>2, <2>3, AlwaysSplitsFairly
<1>3. QuoteBalances
  BY QuoteAlwaysBalances DEF NothingInputs, AmountsAsked, QuoteBalances
<1>4. TimeIsTiled
  BY ClockAlwaysTiles DEF NothingInputs
<1>5. QED
  BY <1>1, <1>2, <1>3, <1>4 DEF NothingIsLost, AmountsAreExact

(* Amounts are exact or rightly rounded and days, terms and years leave no *)
(* instant out (Money, GymTime): the inputs never change, and of every     *)
(* amount, list of weights, zone and day like them it holds.               *)
THEOREM NothingIsEverLost == MCSpec => []NothingIsLost
<1>1. MCInit => NothingInputs
  BY NothingInputsAtFirst
<1>2. NothingInputs /\ [MCNext]_mcvars => NothingInputs'
  BY InputsStay DEF NothingInputs, AmountsAsked, ClockAsked, IsZone, IsDay
<1>3. NothingInputs => NothingIsLost
  BY NothingInputsSuffice
<1>4. QED
  BY <1>1, <1>2, <1>3, PTL DEF MCSpec

-----------------------------------------------------------------------------
(* The first bytes of a document. *)
(* The first bytes of a format or a program are of that one only.          *)
LEMMA PatternsBegin ==
    /\ \A p \in Kept!Patterns : p \in Seq(Int) /\ Len(p) > 0
    /\ \A p, q \in Kept!Patterns : p[1] = q[1] => p = q
<1> DEFINE pdf == <<37, 80, 68, 70, 45>>
           png == <<137, 80, 78, 71, 13, 10, 26, 10>>
           jpeg == <<255, 216>>
           dos == <<77, 90>>
           elf == <<127, 69, 76, 70>>
           macho == <<207, 250, 237, 254>>
           mach == <<206, 250, 237, 254>>
           java == <<202, 254, 186, 190>>
           zip == <<80, 75, 3, 4>>
           script == <<35, 33>>
<1>1. Kept!Patterns = {pdf, png, jpeg, dos, elf, macho, mach, java, zip, script}
  BY DEF Kept!Patterns, Kept!Signatures, Kept!ExecutableMarkers
<1>2. /\ pdf \in Seq(Int) /\ Len(pdf) > 0 /\ pdf[1] = 37
      /\ png \in Seq(Int) /\ Len(png) > 0 /\ png[1] = 137
      /\ jpeg \in Seq(Int) /\ Len(jpeg) > 0 /\ jpeg[1] = 255
      /\ dos \in Seq(Int) /\ Len(dos) > 0 /\ dos[1] = 77
      /\ elf \in Seq(Int) /\ Len(elf) > 0 /\ elf[1] = 127
      /\ macho \in Seq(Int) /\ Len(macho) > 0 /\ macho[1] = 207
      /\ mach \in Seq(Int) /\ Len(mach) > 0 /\ mach[1] = 206
      /\ java \in Seq(Int) /\ Len(java) > 0 /\ java[1] = 202
      /\ zip \in Seq(Int) /\ Len(zip) > 0 /\ zip[1] = 80
      /\ script \in Seq(Int) /\ Len(script) > 0 /\ script[1] = 35
  OBVIOUS
<1> HIDE DEF pdf, png, jpeg, dos, elf, macho, mach, java, zip, script
<1>3. ASSUME NEW p \in Kept!Patterns
      PROVE  p \in Seq(Int) /\ Len(p) > 0
  BY <1>1, <1>2
<1>4. /\ pdf[1] = 37 /\ png[1] = 137 /\ jpeg[1] = 255 /\ dos[1] = 77 /\ elf[1] = 127
      /\ macho[1] = 207 /\ mach[1] = 206 /\ java[1] = 202 /\ zip[1] = 80 /\ script[1] = 35
  BY <1>2
<1>5. ASSUME NEW p \in Kept!Patterns, NEW q \in Kept!Patterns, p[1] = q[1]
      PROVE  p = q
  BY <1>1, <1>4, <1>5
<1>6. QED
  BY <1>3, <1>5

(* What begins a file begins it still when it is longer, and is its first  *)
(* byte.                                                                   *)
LEMMA Beginning ==
    ASSUME NEW bytes \in Seq(Int), NEW p \in Seq(Int), Len(p) > 0, Kept!StartsWith(bytes, p)
    PROVE  /\ Len(bytes) > 0 /\ bytes[1] = p[1]
           /\ \A rest \in Seq(Int) : Kept!StartsWith(bytes \o rest, p)
<1> DEFINE l == Len(p)
<1>1. /\ l \in Nat /\ l > 0 /\ Len(bytes) \in Nat /\ l <= Len(bytes)
      /\ SubSeq(p, 1, l) = SubSeq(bytes, 1, l)
  BY DEF Kept!StartsWith, Kept!IsPrefix
<1>2. SubSeq(p, 1, l)[1] = p[1] /\ SubSeq(bytes, 1, l)[1] = bytes[1]
  <2>1. 1 \in Int /\ l \in Int /\ 1 \in 1 .. l - 1 + 1 /\ 1 <= l /\ 1 + 1 - 1 = 1
        /\ (\A i \in 1 .. l : p[i] \in Int) /\ (\A i \in 1 .. l : bytes[i] \in Int)
    BY <1>1
  <2> HIDE DEF l
  <2>2. SubSeq(p, 1, l)[1] = p[1 + 1 - 1]
    BY <2>1, SubSeqProperties
  <2>3. SubSeq(bytes, 1, l)[1] = bytes[1 + 1 - 1]
    BY <2>1, SubSeqProperties
  <2>4. QED
    BY <2>1, <2>2, <2>3
<1>3. ASSUME NEW rest \in Seq(Int)
      PROVE  Kept!StartsWith(bytes \o rest, p)
  <2> DEFINE more == bytes \o rest
  <2>1. /\ more \in Seq(Int) /\ Len(more) = Len(bytes) + Len(rest) /\ Len(rest) \in Nat
        /\ \A i \in 1 .. Len(bytes) : more[i] = bytes[i]
    BY ConcatProperties
  <2> HIDE DEF more
  <2>2. SubSeq(more, 1, l) = SubSeq(bytes, 1, l)
    <3> HIDE DEF l
    <3>1. SubSeq(more, 1, l) = [i \in 1 .. l |-> more[i]]
      BY <1>1, <2>1
    <3>2. SubSeq(bytes, 1, l) = [i \in 1 .. l |-> bytes[i]]
      BY <1>1, <2>1
    <3>3. \A i \in 1 .. l : more[i] = bytes[i]
      BY <1>1, <2>1
    <3>4. QED
      BY <3>1, <3>2, <3>3
  <2>3. l <= Len(more)
    BY <1>1, <2>1
  <2>4. QED
    BY <1>1, <2>2, <2>3 DEF more, Kept!StartsWith, Kept!IsPrefix
<1>4. QED
  BY <1>1, <1>2, <1>3

(* Whatever follows, and whatever the size allowed, bytes that are read as *)
(* a format are not read as another.                                       *)
LEMMA BytesAlwaysHaveOneReading ==
    ASSUME NEW bytes \in Seq(Int), NEW rest \in Seq(Int), NEW max \in Nat
    PROVE  Kept!BytesHaveOneReading(bytes, rest, max)
<1> DEFINE more == bytes \o rest
           before == Kept!InspectContent(bytes, max)
           after == Kept!InspectContent(more, max)
           Program(b) == \E m \in Kept!ExecutableMarkers : Kept!StartsWith(b, m)
<1>1. ASSUME NEW b \in Seq(Int), NEW p \in Kept!Patterns, NEW q \in Kept!Patterns,
             Kept!StartsWith(b, p), Kept!StartsWith(b, q)
      PROVE  p = q
  BY <1>1, Beginning, PatternsBegin
<1>2. ASSUME NEW p \in Kept!Patterns, Kept!StartsWith(bytes, p)
      PROVE  Kept!StartsWith(more, p)
  BY <1>2, Beginning, PatternsBegin
<1>3. more \in Seq(Int) /\ Len(bytes) \in Nat /\ Len(more) \in Nat /\ Len(bytes) <= Len(more)
  BY ConcatProperties
<1> HIDE DEF more
<1>4. ASSUME NEW b \in Seq(Int)
      PROVE  /\ b = <<>> => Kept!InspectContent(b, max) = "EMPTY"
             /\ b /= <<>> /\ Len(b) > max => Kept!InspectContent(b, max) = "TOO_LARGE"
             /\ b /= <<>> /\ ~(Len(b) > max) /\ Program(b) =>
                   Kept!InspectContent(b, max) = "EXECUTABLE_CONTENT"
             /\ b /= <<>> /\ ~(Len(b) > max) /\ ~Program(b) /\ Kept!FormatsOf(b) = {} =>
                   Kept!InspectContent(b, max) = "UNRECOGNISED_FORMAT"
             /\ b /= <<>> /\ ~(Len(b) > max) /\ ~Program(b) /\ Kept!FormatsOf(b) /= {} =>
                   Kept!InspectContent(b, max)
                     = CHOOSE t \in DOMAIN Kept!Signatures : t \in Kept!FormatsOf(b)
  BY DEF Kept!InspectContent
<1>5. SUFFICES ASSUME before \notin {"EMPTY", "UNRECOGNISED_FORMAT"}, after /= "TOO_LARGE"
               PROVE  after = before
  BY <1>1 DEF Kept!BytesHaveOneReading, more
<1>6. bytes /= <<>> /\ more /= <<>>
  <2>1. bytes /= <<>>
    BY <1>4, <1>5
  <2>2. Len(bytes) > 0
    BY <1>3, <2>1, EmptySeq
  <2>3. Len(more) > 0
    BY <1>3, <2>2
  <2>4. QED
    BY <1>3, <2>1, <2>3, EmptySeq
<1>7. ~(Len(more) > max) /\ ~(Len(bytes) > max)
  <2>1. ~(Len(more) > max)
    BY <1>3, <1>4, <1>5, <1>6
  <2>2. QED
    BY <1>3, <2>1
<1>8. /\ \A m \in Kept!ExecutableMarkers : m \in Kept!Patterns
      /\ \A t \in DOMAIN Kept!Signatures : Kept!Signatures[t] \in Kept!Patterns
  BY DEF Kept!Patterns
<1>9. CASE Program(bytes)
  <2>1. Program(more)
    BY <1>2, <1>8, <1>9
  <2>2. QED
    BY SMTT(30), <1>3, <1>4, <1>6, <1>7, <1>9, <2>1
<1>10. CASE ~Program(bytes)
  <2>1. Kept!FormatsOf(bytes) /= {}
    BY <1>4, <1>5, <1>6, <1>7, <1>10
  <2>2. PICK t \in DOMAIN Kept!Signatures : Kept!StartsWith(bytes, Kept!Signatures[t])
    BY <2>1 DEF Kept!FormatsOf
  <2>3. ASSUME NEW p \in Kept!Patterns, Kept!StartsWith(more, p)
        PROVE  p = Kept!Signatures[t]
    BY <1>1, <1>2, <1>3, <1>8, <2>2, <2>3
  <2>4. ~Program(more)
    BY <1>8, <1>10, <2>2, <2>3
  <2>5. Kept!FormatsOf(more) = Kept!FormatsOf(bytes)
    BY <1>2, <1>8, <2>2, <2>3 DEF Kept!FormatsOf
  <2>6. /\ before = CHOOSE s \in DOMAIN Kept!Signatures : s \in Kept!FormatsOf(bytes)
        /\ after = CHOOSE s \in DOMAIN Kept!Signatures : s \in Kept!FormatsOf(more)
    BY <1>3, <1>4, <1>6, <1>7, <1>10, <2>1, <2>4, <2>5
  <2>7. QED
    BY <2>5, <2>6
<1>11. QED
  BY <1>9, <1>10

(* The bytes of the run are bytes.                                         *)
LEMMA BytesInputs == ASSUME BytesInput PROVE input.bytes \in Seq(Int) /\ input.rest \in Seq(Int)
<1>1. PICK bytes \in Beginnings, rest \in Kept!Patterns : input = [bytes |-> bytes, rest |-> rest]
  BY DEF BytesInput
<1>2. rest \in Seq(Int)
  BY PatternsBegin
<1>3. bytes \in Seq(Int)
  <2>1. PICK p \in Kept!Patterns, n \in 1 .. 8 :
          bytes = SubSeq(p, 1, IF n < Len(p) THEN n ELSE Len(p))
    BY DEF Beginnings
  <2>2. p \in Seq(Int)
    BY PatternsBegin
  <2> DEFINE l == IF n < Len(p) THEN n ELSE Len(p)
  <2>3. 1 \in Int /\ l \in Int /\ \A i \in 1 .. l : p[i] \in Int
    BY <2>2
  <2> HIDE DEF l
  <2>4. SubSeq(p, 1, l) \in Seq(Int)
    BY <2>2, <2>3, SubSeqProperties
  <2>5. QED
    BY <2>1, <2>4 DEF l
<1>4. QED
  BY <1>1, <1>2, <1>3

-----------------------------------------------------------------------------
(* The scanner. *)
Parts == {"fine", "bad"}

(* What clamd says, and how much of it has come. *)
OfTwo(a, b) == {<<<<>>, <<a, b>>>>, <<<<a>>, <<b>>>>, <<<<a, b>>, <<>>>>}
OfThree(a, b, c) ==
    {<<<<>>, <<a, b, c>>>>, <<<<a>>, <<b, c>>>>, <<<<a, b>>, <<c>>>>, <<<<a, b, c>>, <<>>>>}

SentBy(k) == IF 2 * k < Len(scan.file) THEN 2 * k ELSE Len(scan.file)
Count(file) == (Len(file) + 1) \div 2

(* clamd has so many frames, and the rest is on the wire; or it has said   *)
(* what it says of the whole file, or that there is too much of it.        *)
Streaming ==
    /\ scan.reply = <<>> /\ scan.chunks = <<>>
    /\ \E k \in 0 .. Count(scan.file) :
          /\ scan.held = SubSeq(scan.file, 1, SentBy(k))
          /\ scan.wire = SubSeq(Kept!InstreamFrames(scan.file), k + 1, Count(scan.file) + 1)
Told ==
    /\ scan.wire = <<>>
    /\ \/ <<scan.chunks, scan.reply>> \in OfTwo("size limit exceeded.", "ERROR")
       \/ /\ Kept!Bad(scan.file)
          /\ <<scan.chunks, scan.reply>> \in OfThree("stream:", "Name", "FOUND")
       \/ /\ ~Kept!Bad(scan.file)
          /\ <<scan.chunks, scan.reply>> \in OfTwo("stream:", "OK")

ScanTypes ==
    /\ scan.file \in Seq(Parts) /\ scan.broken \in BOOLEAN
    /\ scan = [file |-> scan.file, at |-> scan.at, wire |-> scan.wire, held |-> scan.held,
               reply |-> scan.reply, chunks |-> scan.chunks, verdict |-> scan.verdict,
               broken |-> scan.broken]

Verdict == IF Kept!Bad(scan.file) THEN "INFECTED" ELSE "CLEAN"

ScanInv ==
    /\ ScanTypes
    /\ \/ /\ scan.at = "connecting" /\ scan.held = <<>> /\ scan.reply = <<>> /\ scan.chunks = <<>>
          /\ scan.verdict = Nobody /\ ~scan.broken
       \/ scan.at = "open" /\ (Streaming \/ Told) /\ scan.verdict = Nobody /\ ~scan.broken
       \/ scan.at = "destroyed" /\ scan.verdict = "UNSCANNED"
       \/ /\ scan.at = "closed" /\ scan.verdict \in {"UNSCANNED", Verdict}
          /\ scan.broken => scan.verdict = "UNSCANNED"

(* The frames of a file are what it is, two parts at a time, and an empty  *)
(* one.                                                                    *)
LEMMA FramesOf ==
    ASSUME NEW file \in Seq(Parts)
    PROVE  /\ Count(file) \in Nat /\ Len(Kept!InstreamFrames(file)) = Count(file) + 1
           /\ Kept!InstreamFrames(file) \in Seq(Seq(Parts))
           /\ Kept!InstreamFrames(file)[Count(file) + 1] = <<>>
           /\ \A k \in 0 .. Count(file) - 1 :
                 Kept!InstreamFrames(file)[k + 1]
                   = SubSeq(file, 2 * k + 1, IF 2 * k + 2 < Len(file) THEN 2 * k + 2 ELSE Len(file))
<1> DEFINE n == Len(file)
           c == Count(file)
           body == [i \in 1 .. c |->
                      SubSeq(file, (i - 1) * 2 + 1, IF i * 2 < n THEN i * 2 ELSE n)]
<1>1. n \in Nat /\ c \in Nat /\ c = (n + 2 - 1) \div 2
  BY DEF Count
<1>2. Kept!InstreamFrames(file) = body \o <<<<>>>>
  BY <1>1 DEF Kept!InstreamFrames
<1>3. body \in Seq(Seq(Parts)) /\ Len(body) = c
  <2>1. ASSUME NEW i \in 1 .. c
        PROVE  body[i] \in Seq(Parts)
    <3>1. (i - 1) * 2 + 1 \in Int /\ (IF i * 2 < n THEN i * 2 ELSE n) \in Int
      BY <1>1
    <3>2. \A j \in (i - 1) * 2 + 1 .. (IF i * 2 < n THEN i * 2 ELSE n) : file[j] \in Parts
      BY <1>1
    <3>3. QED
      BY <3>1, <3>2, SubSeqProperties
  <2>2. body \in [1 .. c -> Seq(Parts)]
    BY <2>1
  <2> HIDE DEF body
  <2>3. QED
    BY <1>1, <2>2
<1>4. <<<<>>>> \in Seq(Seq(Parts)) /\ Len(<<<<>>>>) = 1
  OBVIOUS
<1>5. /\ body \o <<<<>>>> \in Seq(Seq(Parts)) /\ Len(body \o <<<<>>>>) = c + 1
      /\ \A i \in 1 .. c + 1 : (body \o <<<<>>>>)[i] = IF i <= c THEN body[i] ELSE <<<<>>>>[i - c]
  <2> HIDE DEF body, c
  <2>1. QED
    BY <1>3, <1>4, ConcatProperties
<1>6. (body \o <<<<>>>>)[c + 1] = <<>>
  <2>1. <<<<>>>>[1] = <<>>
    OBVIOUS
  <2>2. c + 1 \in 1 .. c + 1 /\ ~(c + 1 <= c) /\ c + 1 - c = 1
    BY <1>1
  <2> HIDE DEF body, c
  <2>3. QED
    BY <2>1, <2>2, <1>5
<1>7. ASSUME NEW k \in 0 .. c - 1
      PROVE  (body \o <<<<>>>>)[k + 1]
               = SubSeq(file, 2 * k + 1, IF 2 * k + 2 < n THEN 2 * k + 2 ELSE n)
  <2>1. k + 1 \in 1 .. c
    BY <1>1
  <2>2. (k + 1 - 1) * 2 + 1 = 2 * k + 1 /\ (k + 1) * 2 = 2 * k + 2
    BY <1>1
  <2> DEFINE i == k + 1
  <2>3. body[k + 1] = SubSeq(file, 2 * k + 1, IF 2 * k + 2 < n THEN 2 * k + 2 ELSE n)
    <3>1. body[i] = SubSeq(file, (i - 1) * 2 + 1, IF i * 2 < n THEN i * 2 ELSE n)
      <4>1. i \in 1 .. c
        BY <2>1
      <4> HIDE DEF i, c, n
      <4>2. QED
        BY <4>1
    <3>2. (i - 1) * 2 + 1 = 2 * k + 1 /\ i * 2 = 2 * k + 2
      BY <2>2
    <3> HIDE DEF body, n, i
    <3>3. body[i] = SubSeq(file, 2 * k + 1, IF 2 * k + 2 < n THEN 2 * k + 2 ELSE n)
      BY <3>1, <3>2
    <3>4. QED
      BY <3>3 DEF i
  <2>4. (body \o <<<<>>>>)[k + 1] = body[k + 1]
    <3> HIDE DEF body
    <3>1. QED
      BY <2>1, <1>1, <1>5
  <2>5. QED
    BY <2>3, <2>4
<1>8. QED
  BY <1>1, <1>2, <1>5, <1>6, <1>7

(* A list from some place on is not empty, and goes on from the next.      *)
LEMMA Remaining ==
    ASSUME NEW S, NEW F \in Seq(S), NEW m \in 1 .. Len(F)
    PROVE  LET rest == SubSeq(F, m, Len(F))
           IN  /\ rest /= <<>> /\ Head(rest) = F[m] /\ Tail(rest) = SubSeq(F, m + 1, Len(F))
<1>1. Len(F) \in m .. Len(F)
  OBVIOUS
<1>2. Head(SubSeq(F, m, Len(F))) = F[m] /\ Tail(SubSeq(F, m, Len(F))) = SubSeq(F, m + 1, Len(F))
  BY <1>1, HeadTailOfSubSeq
<1>3. m \in Int /\ Len(F) \in Int /\ \A i \in m .. Len(F) : F[i] \in S
  OBVIOUS
<1>4. Len(SubSeq(F, m, Len(F))) = Len(F) - m + 1
  BY <1>1, <1>3, SubSeqProperties
<1>5. SubSeq(F, m, Len(F)) /= <<>>
  <2>1. Len(SubSeq(F, m, Len(F))) > 0
    <3> DEFINE n == Len(F)
               l == Len(SubSeq(F, m, Len(F)))
    <3>1. m \in Int /\ n \in Int /\ m <= n /\ l = n - m + 1
      BY <1>3, <1>4
    <3> HIDE DEF n, l
    <3>2. l > 0
      BY <3>1
    <3>3. QED
      BY <3>2 DEF l
  <2>2. Len(<<>>) = 0
    OBVIOUS
  <2>3. QED
    BY <2>1, <2>2
<1>6. QED
  BY <1>2, <1>5

(* What a stream has sent and what it sends next are what it has sent then. *)
LEMMA Sending ==
    ASSUME scan.file \in Seq(Parts), NEW k \in 0 .. Count(scan.file) - 1
    PROVE  /\ Count(scan.file) \in Nat
           /\ SubSeq(scan.file, 1, SentBy(k)) \o Kept!InstreamFrames(scan.file)[k + 1]
                = SubSeq(scan.file, 1, SentBy(k + 1))
           /\ Kept!InstreamFrames(scan.file)[k + 1] /= <<>>
<1> DEFINE f == scan.file
           n == Len(f)
           c == Count(f)
           a == 2 * k
           b == IF 2 * k + 2 < n THEN 2 * k + 2 ELSE n
<1>1. n \in Nat /\ c \in Nat /\ c = (n + 1) \div 2 /\ k \in Nat /\ k + 1 <= c
  <2>1. n \in Nat
    OBVIOUS
  <2>2. c = (n + 1) \div 2
    BY DEF Count
  <2> HIDE DEF n
  <2>3. c \in Nat
    BY <2>1, <2>2
  <2> HIDE DEF c
  <2>4. k \in 0 .. c - 1
    BY DEF c
  <2>5. QED
    BY <2>1, <2>2, <2>3, <2>4
<1>2. a \in Nat /\ a < n /\ b \in Nat /\ a < b /\ b <= n
  <2> HIDE DEF n, c
  <2>1. 2 * c <= n + 1
    BY <1>1
  <2>2. QED
    BY <1>1, <2>1
<1>3. SentBy(k) = a /\ SentBy(k + 1) = b
  <2>1. SentBy(k) = IF a < n THEN a ELSE n
    BY DEF SentBy
  <2>2. 2 * (k + 1) = 2 * k + 2
    BY <1>1
  <2>3. SentBy(k + 1) = b
    BY <2>2 DEF SentBy
  <2>4. QED
    BY <2>1, <2>3, <1>2
<1>4. Kept!InstreamFrames(f)[k + 1] = SubSeq(f, a + 1, b)
  BY FramesOf
<1>5. SubSeq(f, 1, a) \o SubSeq(f, a + 1, b) = SubSeq(f, 1, b)
  <2>1. 1 \in 1 .. Len(f) + 1 /\ a \in 1 - 1 .. Len(f) /\ b \in a .. Len(f)
    BY <1>2
  <2>2. f \in Seq(Parts)
    OBVIOUS
  <2> HIDE DEF f, a, b
  <2>3. QED
    BY <2>1, <2>2, ConcatAdjacentSubSeq
<1>6. SubSeq(f, a + 1, b) /= <<>>
  <2>1. a + 1 \in Int /\ b \in Int /\ a + 1 <= b /\ \A i \in a + 1 .. b : f[i] \in Parts
    BY <1>1, <1>2
  <2> HIDE DEF f, a, b
  <2>2. Len(SubSeq(f, a + 1, b)) = b - (a + 1) + 1
    BY <2>1, SubSeqProperties
  <2>3. Len(SubSeq(f, a + 1, b)) > 0
    <3> DEFINE l == Len(SubSeq(f, a + 1, b))
    <3>1. l = b - (a + 1) + 1
      BY <2>2
    <3> HIDE DEF l
    <3>2. l > 0
      BY <2>1, <3>1
    <3>3. QED
      BY <3>2 DEF l
  <2>4. Len(<<>>) = 0
    OBVIOUS
  <2>5. QED
    <3> DEFINE x == SubSeq(f, a + 1, b)
    <3>1. Len(x) > 0
      BY <2>3
    <3> HIDE DEF x
    <3>2. x /= <<>>
      BY <3>1, <2>4
    <3>3. QED
      BY <3>2 DEF x
<1>7. QED
  BY <1>1, <1>3, <1>4, <1>5, <1>6

(* A word more.                                                            *)
LEMMA Longer ==
    /\ \A a, b : Append(<<a>>, b) = <<a, b>>
    /\ \A a, b, c : Append(<<a, b>>, c) = <<a, b, c>>
<1>1. ASSUME NEW a, NEW b
      PROVE  Append(<<a>>, b) = <<a, b>>
  <2>1. Append(<<a>>, b) = [i \in 1 .. 2 |-> IF i = 1 THEN a ELSE b]
    OBVIOUS
  <2>2. <<a, b>> = [i \in 1 .. 2 |-> IF i = 1 THEN a ELSE b]
    OBVIOUS
  <2>3. QED
    BY <2>1, <2>2
<1>2. ASSUME NEW a, NEW b, NEW c
      PROVE  Append(<<a, b>>, c) = <<a, b, c>>
  <2>1. Append(<<a, b>>, c) = [i \in 1 .. 3 |-> IF i = 1 THEN a ELSE IF i = 2 THEN b ELSE c]
    OBVIOUS
  <2>2. <<a, b, c>> = [i \in 1 .. 3 |-> IF i = 1 THEN a ELSE IF i = 2 THEN b ELSE c]
    OBVIOUS
  <2>3. QED
    BY <2>1, <2>2
<1>3. QED
  BY <1>1, <1>2
(* A word more of a reply.                                                 *)
LEMMA WordsOfTwo ==
    ASSUME NEW a, NEW b, NEW c, NEW r, <<c, r>> \in OfTwo(a, b), r /= <<>>
    PROVE  <<Append(c, Head(r)), Tail(r)>> \in OfTwo(a, b)
<1>1. CASE c = <<>> /\ r = <<a, b>>
  <2>1. Append(c, Head(r)) = <<a>> /\ Tail(r) = <<b>>
    BY <1>1
  <2>2. QED
    BY <2>1 DEF OfTwo
<1>2. CASE c = <<a>> /\ r = <<b>>
  <2>1. Append(c, Head(r)) = <<a, b>> /\ Tail(r) = <<>>
    BY <1>2, Longer
  <2>2. QED
    BY <2>1 DEF OfTwo
<1>3. QED
  BY <1>1, <1>2 DEF OfTwo

(* The same of three words.                                                *)
LEMMA WordsOfThree ==
    ASSUME NEW a, NEW b, NEW w, NEW c, NEW r, <<c, r>> \in OfThree(a, b, w), r /= <<>>
    PROVE  <<Append(c, Head(r)), Tail(r)>> \in OfThree(a, b, w)
<1>1. CASE c = <<>> /\ r = <<a, b, w>>
  <2>1. Append(c, Head(r)) = <<a>> /\ Tail(r) = <<b, w>>
    BY <1>1
  <2>2. QED
    BY <2>1 DEF OfThree
<1>2. CASE c = <<a>> /\ r = <<b, w>>
  <2>1. Append(c, Head(r)) = <<a, b>> /\ Tail(r) = <<w>>
    BY <1>2, Longer
  <2>2. QED
    BY <2>1 DEF OfThree
<1>3. CASE c = <<a, b>> /\ r = <<w>>
  <2>1. Append(c, Head(r)) = <<a, b, w>> /\ Tail(r) = <<>>
    BY <1>3, Longer
  <2>2. QED
    BY <2>1 DEF OfThree
<1>4. QED
  BY <1>1, <1>2, <1>3 DEF OfThree

(* Of what has come of a reply the adapter makes the truth or nothing.     *)
LEMMA RepliesRead ==
    /\ Kept!ParseClamdReply(<<>>) = "UNSCANNED"
    /\ \A a : a \notin {"OK", "FOUND"} => Kept!ParseClamdReply(<<a>>) = "UNSCANNED"
    /\ \A a, b : a \notin {"OK", "FOUND"} /\ b \notin {"OK", "FOUND"} =>
                    Kept!ParseClamdReply(<<a, b>>) = "UNSCANNED"
    /\ \A a : a \notin {"OK", "FOUND"} => Kept!ParseClamdReply(<<a, "OK">>) = "CLEAN"
    /\ \A a, b : Kept!ParseClamdReply(<<a, b, "FOUND">>) = "INFECTED"
<1>1. Kept!ParseClamdReply(<<>>) = "UNSCANNED"
  BY DEF Kept!ParseClamdReply
<1>2. ASSUME NEW a, a \notin {"OK", "FOUND"}
      PROVE  Kept!ParseClamdReply(<<a>>) = "UNSCANNED"
  <2>1. Kept!Last(<<a>>) = a
    BY DEF Kept!Last
  <2>2. QED
    BY <1>2, <2>1 DEF Kept!ParseClamdReply
<1>3. ASSUME NEW a, NEW b, a \notin {"OK", "FOUND"}, b \notin {"OK", "FOUND"}
      PROVE  Kept!ParseClamdReply(<<a, b>>) = "UNSCANNED"
  <2>1. Kept!Last(<<a, b>>) = b
    BY DEF Kept!Last
  <2>2. QED
    BY <1>3, <2>1 DEF Kept!ParseClamdReply
<1>4. ASSUME NEW a, a \notin {"OK", "FOUND"}
      PROVE  Kept!ParseClamdReply(<<a, "OK">>) = "CLEAN"
  <2>1. Kept!Last(<<a, "OK">>) = "OK" /\ <<a, "OK">> /= <<>>
    BY DEF Kept!Last
  <2>2. ~Kept!Contains(<<a, "OK">>, "FOUND")
    BY <1>4 DEF Kept!Contains
  <2>3. QED
    BY <2>1, <2>2 DEF Kept!ParseClamdReply
<1>5. ASSUME NEW a, NEW b
      PROVE  Kept!ParseClamdReply(<<a, b, "FOUND">>) = "INFECTED"
  <2>1. Kept!Last(<<a, b, "FOUND">>) = "FOUND" /\ <<a, b, "FOUND">> /= <<>>
    BY DEF Kept!Last
  <2>2. QED
    BY <2>1 DEF Kept!ParseClamdReply
<1>6. QED
  BY <1>1, <1>2, <1>3, <1>4, <1>5

(* A reply that has come so far is read as the truth or as nothing.        *)
LEMMA ToldIsTrue ==
    ASSUME Told \/ Streaming
    PROVE  Kept!ParseClamdReply(scan.chunks) \in {"UNSCANNED", Verdict}
<1> DEFINE c == scan.chunks
           r == scan.reply
<1>1. CASE Streaming
  BY <1>1, RepliesRead DEF Streaming
<1>2. CASE <<c, r>> \in OfTwo("size limit exceeded.", "ERROR")
  <2>1. c \in {<<>>, <<"size limit exceeded.">>, <<"size limit exceeded.", "ERROR">>}
    BY <1>2 DEF OfTwo
  <2>2. /\ Kept!ParseClamdReply(<<"size limit exceeded.">>) = "UNSCANNED"
        /\ Kept!ParseClamdReply(<<"size limit exceeded.", "ERROR">>) = "UNSCANNED"
    BY RepliesRead
  <2>3. QED
    BY <2>1, <2>2, RepliesRead
<1>3. CASE Kept!Bad(scan.file) /\ <<c, r>> \in OfThree("stream:", "Name", "FOUND")
  <2>1. c \in {<<>>, <<"stream:">>, <<"stream:", "Name">>, <<"stream:", "Name", "FOUND">>}
    BY <1>3 DEF OfThree
  <2>2. QED
    BY <1>3, <2>1, RepliesRead DEF Verdict
<1>4. CASE ~Kept!Bad(scan.file) /\ <<c, r>> \in OfTwo("stream:", "OK")
  <2>1. c \in {<<>>, <<"stream:">>, <<"stream:", "OK">>}
    BY <1>4 DEF OfTwo
  <2>2. QED
    BY <1>4, <2>1, RepliesRead DEF Verdict
<1>5. QED
  BY <1>1, <1>2, <1>3, <1>4 DEF Told

(* Nothing is sent and nothing said.                                       *)
LEMMA ScanAtFirst == ASSUME Kept!Init PROVE ScanInv
<1>1. PICK file \in UNION {[1 .. n -> Parts] : n \in 1 .. 5} :
        scan = [file |-> file, at |-> "connecting", wire |-> <<>>, held |-> <<>>,
                reply |-> <<>>, chunks |-> <<>>, verdict |-> Nobody, broken |-> FALSE]
  BY DEF Kept!Init, Parts
<1>2. file \in Seq(Parts)
  <2>1. PICK n \in 1 .. 5 : file \in [1 .. n -> Parts]
    OBVIOUS
  <2>2. QED
    BY <2>1
<1>3. QED
  BY <1>1, <1>2 DEF ScanInv, ScanTypes

(* Each step of the stream, of clamd and of the socket.                    *)
LEMMA ScanKept == ASSUME ScanInv, [Kept!Next]_scan PROVE ScanInv'
<1> DEFINE f == scan.file
           c == Count(f)
<1> USE NamesAssumption
<1>1. CASE Kept!Connect
  <2>1. /\ scan' = [scan EXCEPT !.at = "open", !.wire = Kept!InstreamFrames(f)]
        /\ scan.at = "connecting" /\ scan.held = <<>> /\ scan.reply = <<>> /\ scan.chunks = <<>>
        /\ scan.verdict = Nobody /\ ~scan.broken
    BY <1>1 DEF Kept!Connect, ScanInv
  <2>2. /\ scan'.file = f /\ scan'.at = "open" /\ scan'.wire = Kept!InstreamFrames(f)
        /\ scan'.held = <<>> /\ scan'.reply = <<>> /\ scan'.chunks = <<>>
        /\ scan'.verdict = Nobody /\ ~scan'.broken /\ ScanTypes'
    BY <2>1 DEF ScanInv, ScanTypes
  <2>3. Streaming'
    <3>1. c \in Nat /\ Kept!InstreamFrames(f) \in Seq(Seq(Parts)) /\ Len(Kept!InstreamFrames(f)) = c + 1
      BY FramesOf DEF ScanInv, ScanTypes
    <3>2. SubSeq(Kept!InstreamFrames(f), 0 + 1, c + 1) = Kept!InstreamFrames(f)
      <4> DEFINE F == Kept!InstreamFrames(f)
      <4> HIDE DEF F, c
      <4>1. SubSeq(F, 1, Len(F)) = F
        BY <3>1, SubSeqFull DEF F
      <4>2. Len(F) = c + 1
        BY <3>1 DEF F
      <4>3. QED
        BY <4>1, <4>2 DEF F
    <3>3. SubSeq(f, 1, SentBy(0)) = <<>>
      <4>1. Len(f) \in Nat
        BY DEF ScanInv, ScanTypes
      <4>2. SentBy(0) = 0
        BY <4>1 DEF SentBy
      <4>3. QED
        BY <4>2, SubSeqEmpty
    <3>4. SentBy(0)' = SentBy(0) /\ 0 \in 0 .. c
      BY <2>2, <3>1 DEF SentBy
    <3>5. QED
      BY <2>2, <3>2, <3>3, <3>4 DEF Streaming
  <2>4. QED
    BY <2>2, <2>3 DEF ScanInv
<1>2. CASE Kept!Takes
  <2> DEFINE frame == Head(scan.wire)
             held == scan.held \o frame
             answer == IF Kept!Bad(held) THEN <<"stream:", "Name", "FOUND">> ELSE <<"stream:", "OK">>
  <2>1. /\ scan.at = "open" /\ scan.wire /= <<>>
        /\ scan' = [scan EXCEPT !.wire = IF Len(held) > 4 THEN <<>> ELSE Tail(scan.wire),
                     !.held = held,
                     !.reply = CASE Len(held) > 4 -> <<"size limit exceeded.", "ERROR">>
                                 [] Len(held) <= 4 /\ frame = <<>> -> answer
                                 [] OTHER -> scan.reply]
    BY <1>2, Zenon DEF Kept!Takes
  <2>2. Streaming /\ scan.verdict = Nobody /\ ~scan.broken
    BY <2>1 DEF ScanInv, Told
  <2>3. /\ scan'.file = f /\ scan'.at = "open" /\ scan'.verdict = Nobody /\ ~scan'.broken /\ ScanTypes'
        /\ scan'.chunks = scan.chunks /\ scan'.held = held
        /\ scan'.wire = IF Len(held) > 4 THEN <<>> ELSE Tail(scan.wire)
        /\ scan'.reply = CASE Len(held) > 4 -> <<"size limit exceeded.", "ERROR">>
                            [] Len(held) <= 4 /\ frame = <<>> -> answer
                            [] OTHER -> scan.reply
    <3> HIDE DEF held, frame, answer
    <3>1. QED
      BY <2>1, <2>2 DEF ScanInv, ScanTypes
  <2>4. PICK k \in 0 .. c : /\ scan.held = SubSeq(f, 1, SentBy(k))
                            /\ scan.wire = SubSeq(Kept!InstreamFrames(f), k + 1, c + 1)
    BY <2>2 DEF Streaming
  <2>5. /\ f \in Seq(Parts) /\ c \in Nat /\ Len(Kept!InstreamFrames(f)) = c + 1
        /\ Kept!InstreamFrames(f) \in Seq(Seq(Parts)) /\ Kept!InstreamFrames(f)[c + 1] = <<>>
    BY FramesOf DEF ScanInv, ScanTypes
  <2>6. /\ frame = Kept!InstreamFrames(f)[k + 1]
        /\ Tail(scan.wire) = SubSeq(Kept!InstreamFrames(f), k + 2, c + 1)
    <3> DEFINE F == Kept!InstreamFrames(f)
    <3> HIDE DEF F, c
    <3>1. F \in Seq(Seq(Parts)) /\ Len(F) = c + 1 /\ k + 1 \in 1 .. Len(F) /\ k + 1 + 1 = k + 2
      BY <2>5 DEF F
    <3>2. /\ Head(SubSeq(F, k + 1, Len(F))) = F[k + 1]
          /\ Tail(SubSeq(F, k + 1, Len(F))) = SubSeq(F, k + 1 + 1, Len(F))
      BY <3>1, Remaining
    <3>3. QED
      BY <2>4, <3>1, <3>2 DEF F
  <2>11. Len(held) \in Nat
    <3>1. scan.held \in Seq(Parts)
      <4>1. 1 \in Int /\ SentBy(k) \in Int /\ \A i \in 1 .. SentBy(k) : f[i] \in Parts
        BY <2>5 DEF SentBy
      <4>2. QED
        BY <2>4, <4>1, SubSeqProperties
    <3>2. frame \in Seq(Parts)
      <4>1. k + 1 \in 1 .. Len(Kept!InstreamFrames(f))
        BY <2>5
      <4>2. QED
        BY <2>5, <2>6, <4>1, ElementOfSeq
    <3> HIDE DEF frame
    <3>3. scan.held \o frame \in Seq(Parts)
      BY <3>1, <3>2, ConcatProperties
    <3>4. QED
      BY <3>3, LenProperties
  <2>7. CASE Len(held) > 4
    <3>1. scan'.wire = <<>> /\ scan'.reply = <<"size limit exceeded.", "ERROR">> /\ scan'.chunks = <<>>
      <4> HIDE DEF held, answer, frame
      <4>1. ~(Len(held) <= 4)
        <5> DEFINE l == Len(held)
        <5>1. l \in Nat /\ l > 4
          BY <2>7, <2>11
        <5> HIDE DEF l
        <5>2. ~(l <= 4)
          BY <5>1
        <5>3. QED
          BY <5>2 DEF l
      <4>2. scan'.wire = <<>> /\ scan'.chunks = <<>>
        BY <2>2, <2>3, <2>7 DEF Streaming
      <4>3. scan'.reply = <<"size limit exceeded.", "ERROR">>
        BY <2>3, <2>7, <4>1
      <4>4. QED
        BY <4>2, <4>3
    <3>2. Told'
      BY <3>1 DEF Told, OfTwo
    <3>3. QED
      BY <2>3, <3>2 DEF ScanInv
  <2>8. CASE ~(Len(held) > 4) /\ k = c
    <3>1. frame = <<>> /\ scan.held \in Seq(Parts) /\ scan.held = f
      <4>1. SentBy(c) = Len(f)
        <5> DEFINE n == Len(f)
        <5>1. n \in Nat /\ c = (n + 1) \div 2
          BY <2>5 DEF Count
        <5> HIDE DEF n, c
        <5>2. ~(2 * c < n)
          BY <5>1
        <5>3. QED
          BY <5>2 DEF SentBy, n
      <4>2. SubSeq(f, 1, Len(f)) = f
        BY <2>5, SubSeqFull
      <4>3. QED
        BY <2>4, <2>5, <2>6, <2>8, <4>1, <4>2
    <3>2. held = f
      BY <3>1, ConcatEmptySeq
    <3>3. Len(held) <= 4
      <4> HIDE DEF held
      <4>1. QED
        BY <2>8, <2>11
    <3>4. /\ Tail(scan.wire) = <<>>
      <4>1. k + 2 \in Int /\ c + 1 \in Int /\ c + 1 < k + 2
        BY <2>5, <2>8
      <4>2. QED
        BY <2>6, <4>1, SubSeqEmpty
    <3>5. /\ scan'.wire = <<>> /\ scan'.chunks = <<>>
          /\ scan'.reply = IF Kept!Bad(f) THEN <<"stream:", "Name", "FOUND">> ELSE <<"stream:", "OK">>
      <4>1. scan'.reply = answer
        <5> HIDE DEF held, answer, frame
        <5>1. QED
          BY <2>3, <2>8, <3>1, <3>3
      <4>2. answer = IF Kept!Bad(f) THEN <<"stream:", "Name", "FOUND">> ELSE <<"stream:", "OK">>
        BY <3>2
      <4> HIDE DEF held, answer, frame
      <4>3. QED
        BY <2>2, <2>3, <2>8, <3>4, <4>1, <4>2 DEF Streaming
    <3>6. Told'
      BY <2>3, <3>5 DEF Told, OfTwo, OfThree
    <3>7. QED
      BY <2>3, <3>6 DEF ScanInv
  <2>9. CASE ~(Len(held) > 4) /\ k /= c
    <3>1. k \in 0 .. c - 1 /\ k + 1 \in 0 .. c
      <4> HIDE DEF c
      <4>1. QED
        BY <2>5, <2>9
    <3>2. held = SubSeq(f, 1, SentBy(k + 1)) /\ frame /= <<>>
      <4>1. /\ SubSeq(f, 1, SentBy(k)) \o Kept!InstreamFrames(f)[k + 1] = SubSeq(f, 1, SentBy(k + 1))
            /\ Kept!InstreamFrames(f)[k + 1] /= <<>>
        BY <2>5, <3>1, Sending
      <4>2. QED
        BY <2>4, <2>6, <4>1
    <3>3. /\ scan'.wire = SubSeq(Kept!InstreamFrames(f), k + 2, c + 1) /\ scan'.chunks = <<>>
          /\ scan'.reply = <<>> /\ scan'.held = SubSeq(f, 1, SentBy(k + 1))
      <4> HIDE DEF held, answer, frame, c
      <4>1. QED
        BY <2>2, <2>3, <2>6, <2>9, <3>2 DEF Streaming
    <3>4. SentBy(k + 1)' = SentBy(k + 1) /\ c' = c
      BY <2>3 DEF SentBy
    <3>5. k + 2 = k + 1 + 1
      BY <2>5
    <3>8. Streaming'
      BY <2>3, <3>1, <3>3, <3>4, <3>5 DEF Streaming
    <3>6. QED
      BY <2>3, <3>8 DEF ScanInv
  <2>10. QED
    BY <2>7, <2>8, <2>9
<1>3. CASE Kept!Data
  <2>1. /\ scan' = [scan EXCEPT !.chunks = Append(scan.chunks, Head(scan.reply)),
                                !.reply = Tail(scan.reply)]
        /\ scan.at = "open" /\ scan.reply /= <<>>
    BY <1>3 DEF Kept!Data
  <2>2. /\ Told /\ scan.verdict = Nobody /\ ~scan.broken
    BY <2>1 DEF ScanInv, Streaming
  <2>3. /\ scan'.file = f /\ scan'.at = "open" /\ scan'.wire = scan.wire /\ scan'.verdict = Nobody
        /\ ~scan'.broken /\ ScanTypes'
        /\ scan'.chunks = Append(scan.chunks, Head(scan.reply)) /\ scan'.reply = Tail(scan.reply)
    BY <2>1, <2>2 DEF ScanInv, ScanTypes
  <2>4. Told'
    BY <2>1, <2>2, <2>3, WordsOfTwo, WordsOfThree DEF Told
  <2>5. QED
    BY <2>3, <2>4 DEF ScanInv
<1>4. CASE Kept!Close
  <2> DEFINE s == Kept!Settled(scan, Kept!ParseClamdReply(scan.chunks))
  <2>1. scan' = [s EXCEPT !.at = "closed"]
    BY <1>4 DEF Kept!Close
  <2>2. CASE scan.at = "open"
    <3>1. (Streaming \/ Told) /\ scan.verdict = Nobody /\ ~scan.broken
      BY <2>2 DEF ScanInv
    <3>2. s = [scan EXCEPT !.verdict = Kept!ParseClamdReply(scan.chunks), !.at = "destroyed"]
      BY <3>1 DEF Kept!Settled
    <3>3. Kept!ParseClamdReply(scan.chunks) \in {"UNSCANNED", Verdict}
      BY <3>1, ToldIsTrue
    <3> HIDE DEF s
    <3>4. /\ scan'.file = f /\ scan'.at = "closed" /\ ~scan'.broken /\ ScanTypes'
          /\ scan'.verdict = Kept!ParseClamdReply(scan.chunks)
      BY <2>1, <3>1, <3>2 DEF ScanInv, ScanTypes
    <3>5. QED
      BY <3>3, <3>4 DEF ScanInv, Verdict
  <2>3. CASE scan.at = "destroyed"
    <3>1. scan.verdict = "UNSCANNED"
      BY <2>3 DEF ScanInv
    <3>2. s = scan
      BY <3>1 DEF Kept!Settled
    <3> HIDE DEF s
    <3>3. /\ scan'.file = f /\ scan'.at = "closed" /\ scan'.verdict = "UNSCANNED" /\ ScanTypes'
      BY <2>1, <3>1, <3>2 DEF ScanInv, ScanTypes
    <3>4. QED
      BY <3>3 DEF ScanInv
  <2>4. QED
    BY <1>4, <2>2, <2>3 DEF Kept!Close
<1>5. CASE Kept!Breaks
  <2>1. scan.verdict = Nobody
    BY <1>5 DEF Kept!Breaks, ScanInv
  <2>2. scan' = [[scan EXCEPT !.verdict = "UNSCANNED", !.at = "destroyed"] EXCEPT !.broken = TRUE]
    BY <1>5, <2>1 DEF Kept!Breaks, Kept!Settled
  <2>3. scan'.at = "destroyed" /\ scan'.verdict = "UNSCANNED" /\ ScanTypes'
    BY <2>2 DEF ScanInv, ScanTypes
  <2>4. QED
    BY <2>3 DEF ScanInv
<1>6. CASE UNCHANGED scan
  BY <1>6 DEF ScanInv, ScanTypes, Streaming, Told, SentBy, Verdict
<1>7. QED
  BY <1>1, <1>2, <1>3, <1>4, <1>5, <1>6 DEF Kept!Next

(* So a verdict is that of the whole file, or none.                        *)
LEMMA ScanIsTrue == ASSUME ScanInv PROVE Kept!ScannerTellsTheTruth
<1>1. QED
  BY NamesAssumption DEF ScanInv, ScanTypes, Verdict, Kept!ScannerTellsTheTruth
=============================================================================
