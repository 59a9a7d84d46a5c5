----------------------------- MODULE Onboarding -----------------------------
(***************************************************************************)
(* Submitting an application (submit-application.use-case.ts) and          *)
(* accepting a document (upload-kyc-document.use-case.ts).                 *)
(*                                                                         *)
(* Both open db.client.$transaction and run model operations on its tx.    *)
(* Application, KycDocument and OutboxEvent are scoped models, and the     *)
(* tenant extension (tenant-scoped-client.ts, $allOperations and           *)
(* runScoped) answers every operation on them at depth zero by opening a   *)
(* transaction of its own on the base client; db.client.$transaction does  *)
(* not raise the depth, only inTenantTransaction does.  So each statement  *)
(* commits by itself, on a connection of its own, and is a step here: the  *)
(* transaction around them holds nothing.                                  *)
(*                                                                         *)
(* The object store and the scanner are ports.  The scanner is bound to    *)
(* clamd; the store is bound to an adapter that refuses until there is a   *)
(* bucket, so that Put is reached only with another adapter, as in the     *)
(* unit tests.                                                             *)
(***************************************************************************)
EXTENDS Integers, FiniteSets

CONSTANTS Submitters,  \* requests that submit a version
          Uploaders    \* requests that upload a document

VARIABLES applications,  \* rows [id, version]
          events,        \* application.submitted, in the outbox
          audits,        \* audit_log rows of submissions
          sub,           \* each submission's step and the version it computed
          objects,       \* documents in the KYC enclave
          documents,     \* rows of kyc_documents
          docEvents,     \* kyc.document.uploaded, in the outbox
          up             \* each upload's step and what its bytes are

subVars == <<applications, events, audits, sub>>
docVars == <<objects, documents, docEvents, up>>
vars == <<subVars, docVars>>

Versions == {a.version : a \in applications}

-----------------------------------------------------------------------------
(* findFirst ... orderBy version desc, a transaction of its own. *)
ReadLatest(h) ==
    /\ sub[h].at = "start"
    /\ LET latest == IF Versions = {} THEN 0
                     ELSE CHOOSE v \in Versions : \A w \in Versions : w <= v
       IN  sub' = [sub EXCEPT ![h] = [at |-> "create", version |-> latest + 1]]
    /\ UNCHANGED <<applications, events, audits, docVars>>

VersionFree_NoIndex(v) == TRUE   \* mutant

(* uq_applications__tenant_version decides between two of one version. *)
VersionFree(v) == v \notin Versions

CreateApplication(h) ==
    /\ sub[h].at = "create"
    /\ IF VersionFree(sub[h].version)
         THEN /\ applications' = applications \union
                                   {[id |-> h, version |-> sub[h].version]}
              /\ sub' = [sub EXCEPT ![h].at = "event"]
         ELSE /\ sub' = [sub EXCEPT ![h].at = "failed"]
              /\ UNCHANGED applications
    /\ UNCHANGED <<events, audits, docVars>>

RecordEvent(h) ==
    /\ sub[h].at = "event"
    /\ events' = events \union {[id |-> h, version |-> sub[h].version]}
    /\ sub' = [sub EXCEPT ![h].at = "audit"]
    /\ UNCHANGED <<applications, audits, docVars>>

(* audit.append swallows a write that fails. *)
AppendAudit(h) ==
    /\ sub[h].at = "audit"
    /\ \E written \in BOOLEAN :
          audits' = IF written
                      THEN audits \union {[id |-> h, version |-> sub[h].version]}
                      ELSE audits
    /\ sub' = [sub EXCEPT ![h].at = "done"]
    /\ UNCHANGED <<applications, events, docVars>>

(* A statement fails, the outer transaction times out, the process dies. *)
FailSubmission(h) ==
    /\ sub[h].at \in {"start", "create", "event", "audit"}
    /\ sub' = [sub EXCEPT ![h].at = "failed"]
    /\ UNCHANGED <<applications, events, audits, docVars>>

-----------------------------------------------------------------------------
(***************************************************************************)
(* An upload.  What the bytes are is chosen with the request: a file of    *)
(* no accepted format, an infected one, or a clean one.                    *)
(***************************************************************************)
Contents == {"unaccepted", "infected", "clean"}

Inspect(u) ==
    /\ up[u].at = "start"
    /\ \E c \in Contents :
          up' = [up EXCEPT ![u] = [at |-> IF c = "unaccepted" THEN "refused" ELSE "scan",
                                   content |-> c]]
    /\ UNCHANGED <<subVars, objects, documents, docEvents>>

MayBeServed(verdict) == verdict = "CLEAN"

(* The scanner tells the truth or does not answer. *)
Scan(u) ==
    /\ up[u].at = "scan"
    /\ \E verdict \in {IF up[u].content = "clean" THEN "CLEAN" ELSE "INFECTED",
                       "UNSCANNED"} :
          up' = [up EXCEPT ![u].at = IF MayBeServed(verdict) THEN "privacy" ELSE "refused"]
    /\ UNCHANGED <<subVars, objects, documents, docEvents>>

ProvePrivate(u) ==
    /\ up[u].at = "privacy"
    /\ \E private \in BOOLEAN :
          up' = [up EXCEPT ![u].at = IF private THEN "put" ELSE "refused"]
    /\ UNCHANGED <<subVars, objects, documents, docEvents>>

(* A put that is answered with an error may have stored the object. *)
Put(u) ==
    /\ up[u].at = "put"
    /\ \E stored, ok \in BOOLEAN :
          /\ ok => stored
          /\ objects' = IF stored THEN objects \union {u} ELSE objects
          /\ up' = [up EXCEPT ![u].at = IF ok THEN "row" ELSE "refused"]
    /\ UNCHANGED <<subVars, documents, docEvents>>

CreateDocument(u) ==
    /\ up[u].at = "row"
    /\ documents' = documents \union {u}
    /\ up' = [up EXCEPT ![u].at = "event"]
    /\ UNCHANGED <<subVars, objects, docEvents>>

RecordUpload(u) ==
    /\ up[u].at = "event"
    /\ docEvents' = docEvents \union {u}
    /\ up' = [up EXCEPT ![u].at = "done"]
    /\ UNCHANGED <<subVars, objects, documents>>

FailUpload(u) ==
    /\ up[u].at \in {"scan", "privacy", "put", "row", "event"}
    /\ up' = [up EXCEPT ![u].at = "failed"]
    /\ UNCHANGED <<subVars, objects, documents, docEvents>>

-----------------------------------------------------------------------------
Init ==
    /\ applications = {} /\ events = {} /\ audits = {}
    /\ sub = [h \in Submitters |-> [at |-> "start", version |-> 0]]
    /\ objects = {} /\ documents = {} /\ docEvents = {}
    /\ up = [u \in Uploaders |-> [at |-> "start", content |-> "clean"]]

Submit(h) == ReadLatest(h) \/ CreateApplication(h) \/ RecordEvent(h)
               \/ AppendAudit(h) \/ FailSubmission(h)

Upload(u) == Inspect(u) \/ Scan(u) \/ ProvePrivate(u) \/ Put(u)
               \/ CreateDocument(u) \/ RecordUpload(u) \/ FailUpload(u)

Next == (\E h \in Submitters : Submit(h)) \/ (\E u \in Uploaders : Upload(u))

Spec == Init /\ [][Next]_vars

-----------------------------------------------------------------------------
(* However submissions race and wherever they fail, the versions of a      *)
(* tenant are 1, 2, 3 ... with one application each                        *)
(* (submit-application.use-case.ts, uq_applications__tenant_version).      *)
VersionsAreDense ==
    /\ Versions = 1 .. Cardinality(applications)
    /\ Cardinality({a.id : a \in applications}) = Cardinality(applications)

(* What the outbox and the audit log say was submitted is on record, under *)
(* that version; the audit never knows of one the outbox does not          *)
(* (submit-application.use-case.ts).                                       *)
AnnouncedIsSubmitted == events \subseteq applications /\ audits \subseteq events

(* The row of a document is a claim about an object: it is stored before   *)
(* the claim is made, and the claim before it is announced                 *)
(* (upload-kyc-document.use-case.ts, "WHY PUT BEFORE ROW").                *)
RowHasItsObject == documents \subseteq objects /\ docEvents \subseteq documents

(* Nothing enters the enclave that no scan has found clean, whoever fails  *)
(* in between (upload-kyc-document.use-case.ts, malware-scan.port.ts).     *)
EnclaveIsScanned == \A u \in objects : up[u].content = "clean"

(* The table, the outbox and the audit log tell one story of submissions,  *)
(* none of them ahead of the one before (submit-application.use-case.ts).  *)
SubmissionsAgree == VersionsAreDense /\ AnnouncedIsSubmitted

(* Event, row, object and scan: each is there only if the next one is      *)
(* (upload-kyc-document.use-case.ts).                                      *)
UploadsAgree == RowHasItsObject /\ EnclaveIsScanned

(* "The application-submitted event lands in the outbox inside the         *)
(* submission transaction" (submit-application.use-case.ts:7): a           *)
(* submission that failed has left both its row and its event, or neither. *)
RowWithItsEvent ==
    \A h \in Submitters : sub[h].at = "failed" =>
       \A a \in applications : a.id = h => a \in events
=============================================================================
