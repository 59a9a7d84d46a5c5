------------------------------ MODULE Prechecks ------------------------------
(***************************************************************************)
(* The six pre-checks of an application (onboarding/application/prechecks) *)
(* and the two audiences of what they find (precheck-audience.ts).         *)
(*                                                                         *)
(* A check asks somebody about what the applicant supplied.  The answer    *)
(* is what was found, a failure that was reported, or one that was thrown. *)
(* Texts are what the normalisers make of them; a picture is its size, a   *)
(* copy field the findings in it.                                          *)
(***************************************************************************)
EXTENDS Integers, FiniteSets

PrecheckNames == {"GEO_DISTANCE", "DUPLICATE_ADDRESS", "DUPLICATE_REGISTRATION_ID",
                  "DUPLICATE_BANK_ACCOUNT", "IMAGE_QUALITY", "PROFANITY"}

Found(what) == [kind |-> "found", what |-> what]
Unanswered == {[kind |-> "failed", what |-> {}], [kind |-> "threw", what |-> {}]}
Unbound == [kind |-> "unbound", what |-> {}]   \* no probe to ask

Precheck(outcome, evidence) == [outcome |-> outcome, evidence |-> evidence]
Errored == Precheck("ERROR", [reason |-> "not checked"])
FlagIf(raised, evidence) == Precheck(IF raised THEN "FLAG" ELSE "PASS", evidence)

-----------------------------------------------------------------------------
GeoDistance(asked, answer) ==
    IF answer.kind /= "found" THEN Errored
    ELSE FlagIf(answer.what > asked.tolerance,
                [distanceMetres |-> answer.what, toleranceMetres |-> asked.tolerance,
                 confidence |-> "of the geocoder"])

(* The probe finds by the normalised address or by the radius. *)
DuplicateAddress(asked, answer) ==
    IF asked.address = "" \/ answer.kind /= "found" THEN Errored
    ELSE IF answer.what = {} THEN Precheck("PASS", [normalisedAddress |-> asked.address])
    ELSE Precheck("FLAG",
           [normalisedAddress         |-> asked.address,
            exactMatches              |-> {m \in answer.what : m.address = asked.address},
            proximateMatches          |-> {m \in answer.what : m.address /= asked.address},
            radiusMetres              |-> asked.radius,
            possibleDuplicateGymCount |-> Cardinality(answer.what)])

DuplicateRegistrationId(asked, answer) ==
    IF ~asked.supplied THEN Precheck("PASS", [supplied |-> FALSE])
    ELSE IF answer.kind /= "found" THEN Errored
    ELSE FlagIf(answer.what /= {}, [supplied |-> TRUE, otherTenants |-> answer.what])

(* payout_accounts does not exist yet: the suite may have no probe. *)
DuplicateBankAccount(asked, answer) ==
    IF ~asked.supplied THEN Precheck("PASS", [supplied |-> FALSE])
    ELSE IF answer.kind /= "found" THEN Errored
    ELSE FlagIf(answer.what /= {}, [supplied |-> TRUE, otherTenants |-> answer.what])

(* A picture that no reader understands is reported, not passed over. *)
Refusal(picture, limits) ==
    IF picture.bytes > limits.bytes THEN "TOO_LARGE"
    ELSE IF ~picture.readable THEN "UNREADABLE"
    ELSE IF picture.width > limits.edge \/ picture.height > limits.edge THEN "EDGE_TOO_LONG"
    ELSE IF picture.width * picture.height > limits.pixels THEN "PIXEL_BOMB"
    ELSE "NONE"

ImageQuality(asked) ==
    LET bad == {p \in asked.pictures : Refusal(p, asked.limits) /= "NONE"}
        unreadable == {p \in bad : Refusal(p, asked.limits) = "UNREADABLE"}
    IN  IF asked.pictures = {} THEN Precheck("PASS", [images |-> 0])
        ELSE FlagIf(bad /= {},
                    [images |-> Cardinality(asked.pictures), refused |-> bad \ unreadable,
                     unreadable |-> unreadable,
                     notChecked |-> {"BLUR_THRESHOLD", "PERCEPTUAL_HASH_DUPLICATE"}])

(* fields: by name, what a reader would find in it; nothing in a blank one. *)
Profanity(asked) ==
    LET findings == UNION {{[field |-> f, kind |-> k] : k \in asked.fields[f]}
                             : f \in DOMAIN asked.fields}
    IN  FlagIf(findings /= {}, [findings       |-> findings,
                                fieldsScreened |-> Cardinality(DOMAIN asked.fields)])

Run(check, asked, answer) ==
    CASE check = "GEO_DISTANCE"              -> GeoDistance(asked, answer)
      [] check = "DUPLICATE_ADDRESS"         -> DuplicateAddress(asked, answer)
      [] check = "DUPLICATE_REGISTRATION_ID" -> DuplicateRegistrationId(asked, answer)
      [] check = "DUPLICATE_BANK_ACCOUNT"    -> DuplicateBankAccount(asked, answer)
      [] check = "IMAGE_QUALITY"             -> ImageQuality(asked)
      [] OTHER                               -> Profanity(asked)

-----------------------------------------------------------------------------
(* precheck-audience.ts *)
TenantVisible ==
    [GEO_DISTANCE              |-> {"measuredMetres", "toleranceMetres"},
     DUPLICATE_ADDRESS         |-> {"possibleDuplicateGymCount"},
     DUPLICATE_REGISTRATION_ID |-> {},
     DUPLICATE_BANK_ACCOUNT    |-> {},
     IMAGE_QUALITY             |-> {"flaggedMediaIds", "checked", "flagged"},
     PROFANITY                 |-> {"flaggedTerms", "checked", "flagged"}]

ForReviewer(result) == result

ForTenant(check, result) ==
    [result EXCEPT !.evidence =
        [k \in DOMAIN result.evidence \intersect TenantVisible[check] |-> result.evidence[k]]]

-----------------------------------------------------------------------------
OfOthers == {"DUPLICATE_ADDRESS", "DUPLICATE_REGISTRATION_ID", "DUPLICATE_BANK_ACCOUNT"}

Supplied(check, asked) ==
    check \in {"DUPLICATE_REGISTRATION_ID", "DUPLICATE_BANK_ACCOUNT"} => asked.supplied

(* "never a PASS and never a blocked submission": a check that asked and   *)
(* was not answered says that it could not be made, and whatever is found  *)
(* on top of what raised a flag does not lower it (the six checks).        *)
PassedIsChecked(check, asked, answer) ==
    LET outcome == Run(check, asked, answer).outcome
    IN  /\ check \in OfOthers \union {"GEO_DISTANCE"} /\ Supplied(check, asked) =>
             (outcome = "PASS" => answer.kind = "found")
        /\ check \in OfOthers /\ answer.kind = "found" =>
             \A fewer \in SUBSET answer.what :
                Run(check, asked, Found(fewer)).outcome = "FLAG" => outcome = "FLAG"

(* Pictures pass when the header of each was read and is within the limits *)
(* and what nobody measured is named.                                      *)
PassedPictures(check, asked, answer) ==
    LET result == Run(check, asked, answer)
    IN  check = "IMAGE_QUALITY" /\ result.outcome = "PASS" =>
          \A p \in asked.pictures :
             /\ p.readable /\ ~(p.width * p.height > asked.limits.pixels)
             /\ result.evidence.notChecked /= {}

(* "Those two report ERROR with the reason rather than PASS, because 'not  *)
(* checked' is not 'checked and fine'" (image-quality.check.ts, of blur    *)
(* and of perceptual hashes, which no picture is measured for).  False.    *)
NothingUnmeasuredPasses(check, asked, answer) ==
    check = "IMAGE_QUALITY" /\ asked.pictures /= {} => Run(check, asked, answer).outcome /= "PASS"

(* "another tenant's id never survives": what a gym is shown of a check is *)
(* the same whichever others were found, as many of them as there are      *)
(* (precheck-audience.ts forTenant).                                       *)
OthersStayHidden(check, asked, answer, others) ==
    check \in OfOthers /\ answer.kind = "found" =>
       \A found \in SUBSET others : Cardinality(found) = Cardinality(answer.what) =>
          ForTenant(check, Run(check, asked, answer)) = ForTenant(check, Run(check, asked, Found(found)))

(* "The REVIEWER keeps the whole thing": a flag can be followed up, each   *)
(* ground of it is in exactly one of the lists (the six checks).           *)
FlagsAreActionable(check, asked, answer) ==
    LET result == ForReviewer(Run(check, asked, answer))
    IN  result.outcome = "FLAG" =>
          CASE check = "DUPLICATE_ADDRESS" ->
                   /\ result.evidence.exactMatches \union result.evidence.proximateMatches = answer.what
                   /\ result.evidence.exactMatches \intersect result.evidence.proximateMatches = {}
            [] check \in OfOthers \ {"DUPLICATE_ADDRESS"} -> result.evidence.otherTenants = answer.what
            [] check = "IMAGE_QUALITY" ->
                   \A p \in asked.pictures :
                      \/ p \in result.evidence.refused \union result.evidence.unreadable
                      \/ p.readable /\ p.width * p.height <= asked.limits.pixels
            [] check = "PROFANITY" ->
                   \A f \in DOMAIN asked.fields : asked.fields[f] /= {} =>
                      \E x \in result.evidence.findings : x.field = f
            [] OTHER -> result.evidence.distanceMetres > result.evidence.toleranceMetres

ChecksAreHonest(check, asked, answer, others) ==
    /\ PassedIsChecked(check, asked, answer)
    /\ PassedPictures(check, asked, answer)
    /\ OthersStayHidden(check, asked, answer, others)
    /\ FlagsAreActionable(check, asked, answer)
=============================================================================
