-------------------------------- MODULE MCGyms --------------------------------
(***************************************************************************)
(* A gym from its application to its branches, and the lists it is         *)
(* reviewed from.  The parts share no state;                               *)
(* a behaviour of the run is about one of them, its scene.  A scene about  *)
(* a calculation takes one input and takes no step.                        *)
(***************************************************************************)
EXTENDS Branches, TLC

CONSTANTS Submitters, Uploaders, Applications, Workers, Checks, Nobody,
          TicksPerHour, TargetHours, SoonHours, ListLimit, PageSize, ReasonFloor,
          Moves, MaxGyms, Instants

ASSUME GymsAssumption == Nobody \notin Workers /\ Handlers /= {}

\* The absent one is no verdict of a scan, and no row of a list has its name.
ASSUME NamesAssumption ==
    Nobody \notin {"UNSCANNED", "INFECTED", "CLEAN"} /\ "none" \notin Gyms

VARIABLES scene, input,
          applications, events, audits, sub, objects, documents, docEvents, up,
          lock, retained, job, stored, adrift,
          gyms, now, listed, list, tab, page, sort, focused, selected, dialog, glance,
          scan, shownRows, focus, menu, pending, palette, screen, story

Intake == INSTANCE Onboarding
Job    == INSTANCE PrecheckJob
Rules  == INSTANCE OnboardingRules
Sums   == INSTANCE Money
Clock  == INSTANCE GymTime
Suite  == INSTANCE Prechecks

\* Files of up to two frames and a half; clamd takes four parts.
Kept   == INSTANCE DocumentScan
             WITH Files <- UNION {[1 .. n -> {"fine", "bad"}] : n \in 1 .. 5},
                  ChunkSize <- 2, StreamMax <- 4, None <- Nobody

\* Two applicants, the first of them the later by name.
LegalNames == [g \in 1 .. 2 |-> 3 - g]
Lists  == INSTANCE ReviewQueue WITH Gym <- 1 .. 2, LegalName <- LegalNames, None <- Nobody

ASSUME ListsAssumption ==
    /\ TicksPerHour \in Nat \ {0} /\ TargetHours \in Nat /\ SoonHours \in Nat
    /\ ListLimit \in Nat /\ PageSize \in Nat \ {0} /\ ReasonFloor \in Nat \ {0}
    /\ Moves \subseteq Lists!Statuses /\ Instants \subseteq Nat

\* Two rows of the register, one with a menu to open; four commands in two groups.
Commands ==
    <<[group |-> "go", words |-> {"gyms"}, disabled |-> FALSE],
      [group |-> "go", words |-> {"gyms", "queue"}, disabled |-> TRUE],
      [group |-> "go", words |-> {"queue"}, disabled |-> FALSE],
      [group |-> "act", words |-> {"gyms", "queue"}, disabled |-> FALSE]>>
Over   == INSTANCE ConsoleChrome
              WITH Rows <- Gyms, Listed <- {CHOOSE g \in Gyms : TRUE}, Items <- Commands,
                   Queries <- SUBSET {"gyms", "queue", "nothing"},
                   rows <- shownRows, dialog <- pending

intakeVars == <<applications, events, audits, sub, objects, documents, docEvents, up>>
jobVars    == <<lock, retained, job, stored, adrift>>
listVars   == <<gyms, now, listed, list, tab, page, sort, focused, selected, dialog, glance>>
overVars   == <<scan, shownRows, focus, menu, pending, palette, screen, story>>
mcvars     == <<vars, intakeVars, jobVars, listVars, overVars, scene, input>>

-----------------------------------------------------------------------------
(* Inputs of the calculations. *)
NoCondition == [x \in {} |-> {}]
Conditions ==
    {NoCondition,
     [taxRegistrationStatusIn |-> {"registered"}],
     [declaredByApplicant |-> "q1"],
     [taxRegistrationStatusIn |-> {"registered"}, declaredByApplicant |-> "q2"],
     [turnoverAbove |-> "limit"]}

Items ==
    {[document |-> d, obligation |-> o, condition |-> NoCondition]
       : d \in {"d1", "d2"}, o \in {"ALWAYS", "ADVISORY"}}
    \union {[document |-> d, obligation |-> "CONDITIONAL", condition |-> c]
       : d \in {"d1", "d2"}, c \in Conditions}

ChecklistInput ==
    /\ scene = "checklist"
    /\ \E first, second \in Items, tax \in {"registered", "exempt"},
          declared \in [{"q1", "q2"} -> Rules!Answers], supplied \in SUBSET {"d1", "d2"} :
          input = [items |-> <<first, second>>, supplied |-> supplied,
                   facts |-> [tax |-> tax, declared |-> declared]]

EditInput ==
    /\ scene = "edit"
    /\ \E changed \in SUBSET {"photos", "description", "pan", "bankIfsc", "latitude", "landmark"} :
          input = changed

RoundingInput ==
    scene = "rounding" /\ \E n \in -25 .. 25, d \in -6 .. 6 : input = [n |-> n, d |-> d]

Weights == UNION {[1 .. n -> 0 .. 4] : n \in 0 .. 3}

SplitInput ==
    scene = "split" /\ \E t \in -12 .. 12, w \in Weights : input = [total |-> t, weights |-> w]

QuoteInput == scene = "quote" /\ input \in 0 .. 200

Dates == {Clock!DateOf(2023, 1, 28), Clock!DateOf(2023, 1, 31), Clock!DateOf(2024, 1, 30),
          Clock!DateOf(2024, 2, 29), Clock!DateOf(2023, 4, 1), Clock!DateOf(2023, 12, 31)}

(* The clocks change, or do not, within a day of the date's midnight. *)
Zones(date) ==
    {[before |-> b, after |-> b + s, at |-> 24 * date + k]
       : b \in {0, 5, -3}, s \in {-1, 0, 1},
         k \in {-30, -24, -23, -5, -4, -3, -1, 0, 1, 3, 4, 23, 24, 25}}

ClockInput ==
    /\ scene = "clock"
    /\ \E date \in Dates : \E zone \in Zones(date) : input = [zone |-> zone, date |-> date]

-----------------------------------------------------------------------------
(* What a pre-check may be asked and answered, and other gyms to be found. *)
Others == {[gym |-> g, address |-> a] : g \in {"g1", "g2"}, a \in {"n1", "n2"}}
Replies == {Suite!Found(S) : S \in SUBSET Others} \union Suite!Unanswered \union {Suite!Unbound}
Pictures == [bytes : {1, 9}, readable : BOOLEAN, width : {1, 4, 7}, height : {1, 4, 7}]
PictureLimits == [bytes |-> 5, edge |-> 6, pixels |-> 12]

SuiteInput ==
    /\ scene = "suite"
    /\ \/ \E d \in 0 .. 3, n \in 0 .. 4 :
             input = [check |-> "GEO_DISTANCE", asked |-> [tolerance |-> d],
                      answer |-> Suite!Found(n)]
       \/ \E a \in Suite!Unanswered :
             input = [check |-> "GEO_DISTANCE", asked |-> [tolerance |-> 1], answer |-> a]
       \/ \E n \in {"", "n1"}, a \in Replies \ {Suite!Unbound} :
             input = [check |-> "DUPLICATE_ADDRESS", asked |-> [address |-> n, radius |-> 1],
                      answer |-> a]
       \/ \E c \in {"DUPLICATE_REGISTRATION_ID", "DUPLICATE_BANK_ACCOUNT"},
             b \in BOOLEAN, a \in Replies :
             input = [check |-> c, asked |-> [supplied |-> b], answer |-> a]
       \/ \E p, q \in Pictures :
             input = [check |-> "IMAGE_QUALITY", answer |-> Suite!Unbound,
                      asked |-> [pictures |-> {p, q}, limits |-> PictureLimits]]
       \/ \E fs \in [{"description", "rules"} -> SUBSET {"EMAIL", "URL"}] :
             input = [check |-> "PROFANITY", asked |-> [fields |-> fs], answer |-> Suite!Unbound]

WizardInput == scene = "wizard" /\ input \in SUBSET Range(Rules!WizardSteps)

Pans == [formed : BOOLEAN, code : {"C", "F", "P", "T", "J", "Z"}, rest : {1, 2}]
Entities == {"COMPANY", "PARTNERSHIP", "SOLE_PROPRIETOR", "OTHER", "TRUST"}

TaxInput ==
    scene = "taxid" /\ \E n \in {0, 1, 38, 39, 97, 98, 99}, p \in Pans :
                          input = [state |-> n, pan |-> p]

(* What begins like a format or a program, and goes on like another. *)
Beginnings == {SubSeq(p, 1, IF n < Len(p) THEN n ELSE Len(p)) : p \in Kept!Patterns, n \in 1 .. 8}

BytesInput ==
    /\ scene = "bytes"
    /\ \E bytes \in Beginnings, rest \in Kept!Patterns : input = [bytes |-> bytes, rest |-> rest]

-----------------------------------------------------------------------------
Steps == {"opening", "listing", "submitting", "uploading", "checking", "reviewing",
          "overlays", "scanning"}

MCInit ==
    /\ Init /\ Intake!Init /\ Job!Init /\ Lists!Init /\ Over!Init
    /\ \/ scene \in Steps \union {"lifecycle"} /\ input = "none"
       \/ ChecklistInput \/ EditInput \/ RoundingInput \/ SplitInput \/ QuoteInput
       \/ ClockInput \/ SuiteInput \/ WizardInput \/ TaxInput \/ BytesInput
    /\ scene = "reviewing" \/ list = "queue"
    /\ IF scene = "scanning" THEN Kept!Init ELSE scan = "none"

OpeningNext ==
    /\ scene = "opening"
    /\ \/ \E h \in Handlers : ReadEstate(h) \/ Insert(h) \/ Refused(h)
       \/ \E b \in Ids : UpdateBranch(b)
    /\ UNCHANGED <<scene, input, intakeVars, jobVars, listVars, overVars>>

(* One handler, so that only the listing is raced; the client lists one     *)
(* gym, and a branch of another may be in the way.                          *)
OneGym == CHOOSE g \in Gyms : TRUE
OneHandler == CHOOSE h \in Handlers : TRUE

OpenOneMore(h) ==
    /\ ReadEstate(h)
    /\ LET next == req'[h]
       IN  /\ next.primary <=> InGym(rows, next.gym) = {}
           /\ next.gym = OneGym \/ next.primary

ListingNext ==
    /\ scene = "listing"
    /\ walk.at /= "done"
    /\ \/ OpenOneMore(OneHandler) \/ Insert(OneHandler) \/ Refused(OneHandler)
       \/ /\ walk.at = "walking"
          /\ \E b \in InGym(rows, OneGym) \ walk.renamed : UpdateBranch(b)
       \/ StartWalk /\ walk'.gyms = {OneGym}
       \/ NextPage
    /\ UNCHANGED <<scene, input, intakeVars, jobVars, listVars, overVars>>

SubmittingNext ==
    /\ scene = "submitting"
    /\ \E h \in Submitters : Intake!Submit(h)
    /\ UNCHANGED <<scene, input, vars, jobVars, listVars, overVars>>

UploadingNext ==
    /\ scene = "uploading"
    /\ \E u \in Uploaders : Intake!Upload(u)
    /\ UNCHANGED <<scene, input, vars, jobVars, listVars, overVars>>

(* Of one submission alone a suite is stored (a bound).                     *)
CheckingNext ==
    /\ scene = "checking"
    /\ Job!Next
    /\ \E a \in Applications : \A b \in Applications \ {a} : stored'[b] = {}
    /\ UNCHANGED <<scene, input, vars, intakeVars, listVars, overVars>>

(* Tabs with rows of one status, of several, and of none (a bound); the     *)
(* register shows no times, and little of time passes over it.              *)
TabsOpened == {"all", "SUBMITTED", "REJECTED", "active", "draft"}

ReviewingNext ==
    /\ scene = "reviewing"
    /\ Lists!Next
    /\ tab' \in TabsOpened
    /\ list = "register" => now' \in {0, 1}
    /\ UNCHANGED <<scene, input, vars, intakeVars, jobVars, overVars>>

OverlaysNext ==
    /\ scene = "overlays"
    /\ Over!Next
    /\ UNCHANGED <<scan, scene, input, vars, intakeVars, jobVars, listVars>>

ScanningNext ==
    /\ scene = "scanning"
    /\ Kept!Next
    /\ UNCHANGED <<scene, input, vars, intakeVars, jobVars, listVars,
                   shownRows, focus, menu, pending, palette, screen, story>>

MCNext ==
    \/ OpeningNext \/ ListingNext \/ SubmittingNext \/ UploadingNext \/ CheckingNext
    \/ ReviewingNext \/ OverlaysNext \/ ScanningNext

MCSpec == MCInit /\ [][MCNext]_mcvars

Symmetry == Permutations(Handlers)

-----------------------------------------------------------------------------
(* Onboarding: the table, the outbox and the audit log agree. *)
SubmissionsAgree == scene = "submitting" => Intake!SubmissionsAgree

(* Onboarding: "The application-submitted event lands in the outbox inside *)
(* the submission transaction".                                            *)
RowWithItsEvent == scene = "submitting" => Intake!RowWithItsEvent

(* Onboarding: event, row, object and scan agree. *)
UploadsAgree == scene = "uploading" => Intake!UploadsAgree


(* ReviewQueue: what the lists show, count and select is what there is. *)
ListsAreTrue ==
    scene = "reviewing" =>
       /\ Lists!ListsAreTrue
       /\ DOMAIN gyms = {} => \A n \in 1 .. 12 : Lists!WindowIsWhole(n)

(* ConsoleChrome: the focus comes back, stays inside what is open, and     *)
(* Enter runs what is highlighted.                                         *)
OverlaysAreHonest == scene = "overlays" => Over!OverlaysAreHonest

(* DocumentScan: a verdict is the truth about the whole file, or none. *)
ScannerTellsTheTruth == scene = "scanning" => Kept!ScannerTellsTheTruth

(* DocumentScan: the first bytes have one reading, whatever follows. *)
BytesHaveOneReading ==
    scene = "bytes" => Kept!BytesHaveOneReading(input.bytes, input.rest, 12)

(* PrecheckJob: one suite at a time, its lock given back, every check told. *)
SuitesAreSound == scene = "checking" => Job!SuitesAreSound

(* OnboardingRules: no verdict without a reviewer, no dead end but closed. *)
VerdictsNeedAReviewer == scene = "lifecycle" => Rules!VerdictsNeedAReviewer

(* OnboardingRules: a complete checklist stays so whatever is answered. *)
CompleteWhateverIsAnswered ==
    scene = "checklist" =>
       Rules!CompleteWhateverIsAnswered(input.items, input.facts, input.supplied)

(* OnboardingRules: an edit of where the money goes is reviewed. *)
MoneyEditsAreReviewed == scene = "edit" => Rules!MoneyEditsAreReviewed(input)

(* OnboardingRules: one kind of entity to a PAN, one PAN to a tax number. *)
TaxIdsAgree == scene = "taxid" => Rules!TaxIdsAgree(input, Pans, Entities)

(* OnboardingRules: the wizard leads through what is left, and ends. *)
WizardLeadsOn == scene = "wizard" => Rules!WizardLeadsOn(input)

(* Prechecks: a pass was looked up, or of pictures names what was not      *)
(* measured; a flag can be followed up, others stay hidden from the gym.   *)
ChecksAreHonest ==
    scene = "suite" => Suite!ChecksAreHonest(input.check, input.asked, input.answer, Others)

(* Money: rounded to the nearest, to even from halfway. *)
NearestEven == scene = "rounding" => Sums!NearestEven(input.n, input.d)

(* Money: the parts make the whole, each next to its exact share. *)
SplitsFairly == scene = "split" => Sums!SplitsFairly(input.total, input.weights)

(* Money: the lines of a quote add up, the tax within half a unit. *)
QuoteBalances == scene = "quote" => Sums!QuoteBalances(input)

(* GymTime: local days follow each other whatever the clocks do. *)
DaysTile == scene = "clock" => \A n \in 0 .. 3 : Clock!DaysTile(input.zone, input.date, n)

(* GymTime: a term and its extension share no instant and leave none out. *)
TermsTile ==
    scene = "clock" => \A months \in {1, 12, 13}, more \in {1, 12} :
                          Clock!TermsTile(input.zone, input.date, months, more)

(* GymTime: every instant is in its financial year, and years are adjacent. *)
YearsTile ==
    scene = "clock" => \A month \in {1, 4, 12}, h \in {-25} \union -6 .. 5 \union {23} :
                          Clock!YearsTile(input.zone, 24 * input.date + h, month)

(* GymTime: a schedule fires later, soon, and at its hour. *)
FiresNext ==
    scene = "clock" => \A hour \in {0, 3, 12, 23}, k \in -6 .. 24 :
                          Clock!FiresNext(input.zone, 24 * input.date + k, hour)

(* What a gym sends in is in every place it is kept, or in none, however a *)
(* submission or an upload ended (Onboarding); the lists it is reviewed    *)
(* from show, count and select what there is (ReviewQueue); what opens     *)
(* over them acts on what is pointed out (ConsoleChrome); and a document   *)
(* is taken for what it is (DocumentScan).                                 *)
IntakeAgrees ==
    /\ SubmissionsAgree /\ UploadsAgree /\ ListsAreTrue /\ OverlaysAreHonest
    /\ ScannerTellsTheTruth /\ BytesHaveOneReading

(* The rules of onboarding, each on its inputs (OnboardingRules,           *)
(* Prechecks).                                                             *)
RulesAreSafe ==
    /\ VerdictsNeedAReviewer /\ CompleteWhateverIsAnswered /\ MoneyEditsAreReviewed
    /\ TaxIdsAgree /\ WizardLeadsOn /\ ChecksAreHonest

(* Every amount is exact or rightly rounded, on its inputs (Money). *)
AmountsAreExact == NearestEven /\ SplitsFairly /\ QuoteBalances

(* Days, terms and years follow each other, and schedules fire (GymTime). *)
TimeIsTiled == DaysTile /\ TermsTile /\ YearsTile /\ FiresNext

(* Nothing is lost between the parts of an amount or between two days,     *)
(* terms or years (Money, GymTime).                                        *)
NothingIsLost == AmountsAreExact /\ TimeIsTiled
=============================================================================
