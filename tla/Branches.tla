------------------------------ MODULE Branches ------------------------------
(***************************************************************************)
(* The branches of a tenant's gyms: opened by handlers that run            *)
(* concurrently (create-branch.use-case.ts), renamed                       *)
(* (update-branch.use-case.ts), listed page by page while both go on       *)
(* (list-branches.use-case.ts, branch.prisma-repository.ts), and the       *)
(* policy that judges a closing (branch-deactivation.policy.ts).           *)
(*                                                                         *)
(* A branch keeps what these operations tell apart: its gym, its name and  *)
(* whether it is the primary.  Ids are numbers compared as the database    *)
(* compares uuids; the default is gen_random_uuid(), so an INSERT takes    *)
(* any unused one and the order of ids says nothing of the order of time.  *)
(* No statement of src/ closes a branch today: the DELETE route refuses    *)
(* every active one, because no adapter can count its members, and the     *)
(* repository's deactivate has no caller.  Policy and repository are       *)
(* operators here, judged over every estate that can arise.                *)
(***************************************************************************)
EXTENDS Integers, Sequences, FiniteSets, SequencesExt

CONSTANTS Ids,       \* uuids, as numbers
          Gyms, Names,
          Handlers,  \* requests that open a branch
          Limit      \* rows of a page

ASSUME BranchesAssumption ==
    /\ Ids \subseteq Nat \ {0} /\ IsFiniteSet(Ids)   \* 0 is no branch
    /\ Names \subseteq Nat
    /\ Limit \in Nat \ {0}

VARIABLES rows,     \* id -> the row, or None
          opened,   \* the ids in the order of created_at
          req,      \* what each handler has read
          walk      \* a client that lists the branches, page by page

vars == <<rows, opened, req, walk>>

None == [gym |-> "none"]
Live == {b \in Ids : rows[b] /= None}

(***************************************************************************)
(* Opening.  execute() reads the active branches of the gym, decides       *)
(* whether this is the first, and then inserts.                            *)
(***************************************************************************)
InGym(rs, g) == {b \in Ids : rs[b] /= None /\ rs[b].gym = g}
PrimariesOf(rs, g) == {b \in InGym(rs, g) : rs[b].primary}

Idle == [at |-> "idle"]

ReadEstate(h) ==
    /\ req[h].at = "idle"
    /\ \E g \in Gyms, asked \in BOOLEAN :
          req' = [req EXCEPT ![h] =
                    [at |-> "insert", gym |-> g,
                     primary |-> InGym(rows, g) = {} \/ asked]]
    /\ UNCHANGED <<rows, opened, walk>>

(* uq_branches__one_primary_per_gym, the partial unique index. *)
IndexAdmits(g, primary) == primary => PrimariesOf(rows, g) = {}

Insert(h) ==
    /\ req[h].at = "insert"
    /\ IndexAdmits(req[h].gym, req[h].primary)
    /\ \E b \in Ids \ Live, n \in Names :
          /\ rows' = [rows EXCEPT ![b] = [gym |-> req[h].gym, name |-> n,
                                          primary |-> req[h].primary]]
          /\ opened' = Append(opened, b)
    /\ req' = [req EXCEPT ![h] = Idle]
    /\ UNCHANGED walk

(* The index refuses the row: nothing is written. *)
Refused(h) ==
    /\ req[h].at = "insert"
    /\ ~IndexAdmits(req[h].gym, req[h].primary)
    /\ req' = [req EXCEPT ![h] = Idle]
    /\ UNCHANGED <<rows, opened, walk>>

(***************************************************************************)
(* Renaming: one UPDATE.  A patch that also touches a field outside the    *)
(* immediate ones is refused whole unless it acknowledges the review.      *)
(***************************************************************************)
ClassOf(field) == IF field \in {"name", "capacity", "landmark", "parking_notes",
                                "temporary_closure"}
                  THEN "IMMEDIATE" ELSE "MATERIAL"

Acknowledged(sent, ack) == ack \/ \A f \in sent : ClassOf(f) /= "MATERIAL"

UpdateBranch(b) ==
    /\ rows[b] /= None
    /\ \E n \in Names, sent \in {{"name"}, {"name", "city_id"}}, ack \in BOOLEAN :
          /\ Acknowledged(sent, ack)
          /\ n /= rows[b].name
          /\ rows' = [rows EXCEPT ![b].name = n]
    /\ walk' = IF walk.at /= "walking" THEN walk
               ELSE [walk EXCEPT !.renamed = @ \union {b}]
    /\ UNCHANGED <<opened, req>>

(***************************************************************************)
(* Listing.  A cursor names the last row of a page by its sort key and its *)
(* id; the next page starts strictly behind it, wherever rows have moved   *)
(* meanwhile.  created_at:desc anchors on the id alone.                    *)
(***************************************************************************)
Sorts == {"name:asc", "name:desc", "created_at:desc"}

KeyOf(sort, b, r) == [k |-> IF sort = "created_at:desc" THEN 0 ELSE r.name, i |-> b]

Below(p, q) == p.k < q.k \/ (p.k = q.k /\ p.i < q.i)

Behind(sort, p, q) == IF sort = "name:asc" THEN Below(q, p) ELSE Below(p, q)

Matches(gyms, r) == gyms = {} \/ r.gym \in gyms

NoCursor == [k |-> -1, i |-> -1]

InOrder(sort, keys) ==
    CHOOSE s \in [1 .. Cardinality(keys) -> keys] :
       \A i, j \in DOMAIN s : i < j => Behind(sort, s[j], s[i])

(* WHERE and ORDER BY of the three statements; the page is their LIMIT. *)
Selected(sort, gyms, at) ==
    LET keys == {KeyOf(sort, b, rows[b]) : b \in {x \in Live : Matches(gyms, rows[x])}}
        left == {p \in keys : at = NoCursor \/ Behind(sort, p, at)}
    IN  InOrder(sort, left)

(* One row more than the limit is read, to know whether more follow. *)
PageOf(selected, limit) ==
    LET read == SubSeq(selected, 1, IF Len(selected) < limit + 1
                                    THEN Len(selected) ELSE limit + 1)
        more == Len(read) > limit
        data == IF more THEN SubSeq(read, 1, limit) ELSE read
    IN  [data |-> data, cursor |-> IF more THEN data[Len(data)] ELSE NoCursor]

NotWalking == [at |-> "off", sort |-> "name:asc", gyms |-> {}, cursor |-> NoCursor,
               listed |-> << >>, there |-> {}, renamed |-> {}]

StartWalk ==
    /\ walk.at = "off"
    /\ \E sort \in Sorts, gyms \in SUBSET Gyms :
          walk' = [NotWalking EXCEPT
                     !.at = "walking", !.sort = sort, !.gyms = gyms,
                     !.there = {b \in Live : Matches(gyms, rows[b])}]
    /\ UNCHANGED <<rows, opened, req>>

NextPage ==
    /\ walk.at = "walking"
    /\ LET page == PageOf(Selected(walk.sort, walk.gyms, walk.cursor), Limit)
       IN  walk' = [walk EXCEPT
                      !.listed = @ \o [j \in 1 .. Len(page.data) |-> page.data[j].i],
                      !.cursor = page.cursor,
                      !.at = IF page.cursor = NoCursor THEN "done" ELSE "walking"]
    /\ UNCHANGED <<rows, opened, req>>

-----------------------------------------------------------------------------
(***************************************************************************)
(* Closing.  facts is what deactivate-branch.use-case.ts reads: the gym's  *)
(* status, its active branches and the count of members who could still    *)
(* check in, or that it could not be established.                          *)
(***************************************************************************)
GymStatuses == {"DRAFT", "PENDING_REVIEW", "APPROVED", "SUSPENDED", "CLOSED"}
ListedStatuses == {"APPROVED", "PENDING_REVIEW"}
Affected == {"none", "some", "unavailable"}

OpenedAt(b) == CHOOSE j \in 1 .. Len(opened) : opened[j] = b

(* The order of activeInGym: primary first, then the oldest. *)
Precedes(x, y) ==
    IF rows[x].primary = rows[y].primary THEN OpenedAt(x) < OpenedAt(y) ELSE rows[x].primary

First(active) == CHOOSE x \in active : \A y \in active \ {x} : Precedes(x, y)

MayDeactivate_NoPromotion(active, status, affected, b) ==   \* mutant
    [permitted |-> (active /= {b} \/ status \notin ListedStatuses) /\ affected = "none",
     promote |-> 0]

MayDeactivate(active, status, affected, b) ==
    LET others == active \ {b}
    IN  IF b \notin active
          THEN [permitted |-> TRUE, promote |-> 0]
        ELSE IF \/ others = {} /\ status \in ListedStatuses
                \/ affected /= "none"
          THEN [permitted |-> FALSE, promote |-> 0]
        ELSE [permitted |-> TRUE,
              promote |-> IF rows[b].primary /\ others /= {} THEN First(others) ELSE 0]

(* Both statements of BranchPrismaRepository.deactivate. *)
Deactivated(rs, b, promote) ==
    [x \in Ids |-> CASE x = b -> None
                     [] x /= b /\ x = promote /\ rs[x] /= None
                          -> [rs[x] EXCEPT !.primary = TRUE]
                     [] OTHER -> rs[x]]

-----------------------------------------------------------------------------
Init ==
    /\ rows = [b \in Ids |-> None]
    /\ opened = << >>
    /\ req = [h \in Handlers |-> Idle]
    /\ walk = NotWalking

Next ==
    \/ \E h \in Handlers : ReadEstate(h) \/ Insert(h) \/ Refused(h)
    \/ \E b \in Ids : UpdateBranch(b)
    \/ StartWalk
    \/ NextPage

Spec == Init /\ [][Next]_vars

-----------------------------------------------------------------------------
(* Every variable keeps its type; the listing holds rows that exist.       *)
BranchTypes ==
    /\ \A b \in Ids : rows[b] = None \/
          rows[b] \in [gym : Gyms, name : Names, primary : BOOLEAN]
    /\ ToSet(opened) = Live /\ Len(opened) = Cardinality(Live)
    /\ ToSet(walk.listed) \cup walk.there \cup walk.renamed \subseteq Live

(* However the handlers interleave, a gym that has branches has one        *)
(* primary: the first to be inserted is forced to be it, a later one that  *)
(* asks, or believed itself first, is refused (create-branch.use-case.ts,  *)
(* uq_branches__one_primary_per_gym).                                      *)
OnePrimary ==
    \A g \in Gyms : InGym(rows, g) /= {} => Cardinality(PrimariesOf(rows, g)) = 1

(* A client that pages to the end has seen every branch that was there     *)
(* when it began, once, unless it was renamed on the way and the list is   *)
(* sorted by name (branch.prisma-repository.ts, list and selectPage).      *)
Steady == IF walk.sort = "created_at:desc" THEN walk.there ELSE walk.there \ walk.renamed

EachListedOnce ==
    walk.at = "done" =>
       \A b \in Steady : Cardinality({j \in 1 .. Len(walk.listed) : walk.listed[j] = b}) = 1

(* What the policy permits, the repository's two statements can carry out: *)
(* a gym keeps one primary, a listed gym keeps a branch, and the branch    *)
(* promoted is the one that opened first of those left                     *)
(* (branch-deactivation.policy.ts, branch.prisma-repository.ts).  Estates  *)
(* are the same with and without a client listing them.                    *)
KeepsItsShape(g, b, status, affected) ==
    LET verdict == MayDeactivate(InGym(rows, g), status, affected, b)
        after   == Deactivated(rows, b, verdict.promote)
    IN  verdict.permitted =>
          /\ InGym(after, g) /= {} => Cardinality(PrimariesOf(after, g)) = 1
          /\ InGym(rows, g) /= {} /\ status \in ListedStatuses => InGym(after, g) /= {}
          /\ \A x \in InGym(after, g) : verdict.promote /= 0 =>
                \E i, j \in 1 .. Len(opened) :
                   opened[i] = verdict.promote /\ opened[j] = x /\ i <= j

ClosingKeepsTheShape ==
    walk.at = "off" =>
    \A g \in Gyms, b \in Live, status \in GymStatuses, affected \in Affected :
       KeepsItsShape(g, b, status, affected)

(* Whatever opens, a gym's branches have the shape its listing needs, a    *)
(* closing that is permitted leaves it, and a client that pages sees it    *)
(* (create-branch.use-case.ts, branch-deactivation.policy.ts).             *)
EstateKeepsItsShape == BranchTypes /\ OnePrimary /\ ClosingKeepsTheShape /\ EachListedOnce

(* "UUIDv7 ids are time-ordered, so ordering by id descending IS creation  *)
(* order descending, exactly" (branch.prisma-repository.ts:501-502): a     *)
(* list asked for as created_at:desc shows the newest first.               *)
NewestFirst ==
    walk.sort = "created_at:desc" =>
       \A i, j \in 1 .. Len(walk.listed) :
          i < j => OpenedAt(walk.listed[i]) > OpenedAt(walk.listed[j])
=============================================================================
