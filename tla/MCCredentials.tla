----------------------------- MODULE MCCredentials -----------------------------
(***************************************************************************)
(* The ways into an account: the codes of a text message, the codes of a   *)
(* second factor, and the password with its lockout and its reset links.   *)
(* The slots in which passwords are hashed are the fourth.  They share no  *)
(* state here; a behaviour of the run is a behaviour of one of them, its   *)
(* scene.  Text messages take two scenes: one in which the sends are raced *)
(* and the number has no account, and one in which an account is activated *)
(* and one code is asked for at a time.  The names of the codes serve as   *)
(* those of the links.                                                     *)
(***************************************************************************)
EXTENDS OneTimeCodes, TLC

CONSTANTS RecoveryCount, Threshold, Window, Drift, MaxSecrets, MaxEnrolments, MaxStep,
          Passwords, Code, ConfiguredThreshold, LoginWindow,
          EscalationThreshold, EscalationWindow, StrikeWindow, LinkLife,
          Callers, Permits

VARIABLES scene,
          row, drawn, now, failures, strikes, attempt, confirmed, spent, mixed,
          hash, active, wrong, locks, reset, index, indexLeft, entry,
          bought, overtaken, crossings, again,
          available, waiting, caller

Factor == INSTANCE SecondFactor WITH req <- attempt, locks <- strikes,
                                     EscalationWindow <- StrikeWindow
Access == INSTANCE AccountAccess WITH failures <- wrong, link <- reset, req <- entry,
                                      Links <- Codes, Window <- LoginWindow
Pool == INSTANCE HashPool

ASSUME FactorIsGiven == Factor!FactorAssumption
ASSUME AccessIsGiven ==
    Access!ThresholdAssumption /\ Access!LifetimeAssumption /\ Access!NamesAssumption
ASSUME PoolIsGiven == Pool!PoolAssumption

factorVars == <<row, drawn, now, failures, strikes, attempt, confirmed, spent, mixed>>
accessVars == <<hash, active, wrong, locks, reset, index, indexLeft, entry,
                bought, overtaken, crossings, again>>
poolVars == <<available, waiting, caller>>
allVars == <<scene, vars, factorVars, accessVars, poolVars>>

NobodyEnters == hash = None /\ Access!NobodyHasEntered

MCInit == /\ Init /\ Factor!Init /\ Pool!Init
          /\ \/ scene = "sending" /\ account = Nobody /\ NobodyEnters
             \/ scene = "joining" /\ NobodyEnters
             \/ scene = "hashing" /\ account = Nobody /\ NobodyEnters
             \/ scene = "factor" /\ account = Nobody /\ NobodyEnters
             \/ scene = "password" /\ account = Nobody /\ Access!Init

AskedFor == {h \in Handlers : req[h].at \in {"expire", "admit", "issue", "set", "record"}}

MCNext ==
    \/ /\ scene = "sending" /\ Next /\ account' = Nobody
       /\ UNCHANGED <<scene, factorVars, accessVars, poolVars>>
    \/ /\ scene = "joining" /\ Next /\ Cardinality(AskedFor') <= 1 /\ Len(sends') <= 1
       /\ UNCHANGED <<scene, factorVars, accessVars, poolVars>>
    \/ scene = "factor" /\ Factor!Next /\ UNCHANGED <<scene, vars, accessVars, poolVars>>
    \/ scene = "password" /\ Access!Next /\ UNCHANGED <<scene, vars, factorVars, poolVars>>
    \/ scene = "hashing" /\ Pool!Next /\ UNCHANGED <<scene, vars, factorVars, accessVars>>

MCSpec == MCInit /\ [][MCNext]_allVars

Symmetry == Permutations(Handlers) \cup Permutations(Codes) \cup Permutations(Passwords)

\* SecondFactor: a factor in force can be given and guessed at no further, and a
\* used recovery code returns only by two overlapping rewrites.
FactorHolds == scene = "factor" => Factor!FactorHolds

\* SecondFactor: a step of the clock serves once, or together.
StepsServeOnce == [][Factor!StepAdvances /\ Factor!TotpServesAgain]_factorVars

\* AccountAccess: a reset link sets one password, and a revocation of all links finds
\* every link, or overlapped its issue.
LinksHold == scene = "password" => Access!LinksHold

\* AccountAccess: guesses pass the threshold by no more than the requests under
\* way, and one window records one lock, but for a second factor's.
CountsHold == scene = "password" => Access!CountsHold

\* AccountAccess: no failure prolongs a lock.
LockIsNotProlonged == [][Access!LocksNotProlonged]_accessVars

\* HashPool: the ceiling on concurrent hashes is kept and no slot is lost.
SlotsAreKept == scene = "hashing" => Pool!SlotsAreKept
=============================================================================
