------------------------------ MODULE ReviewQueue ------------------------------
(***************************************************************************)
(* The console's two lists of gyms: the approval queue, ordered by how     *)
(* long each applicant has waited, and the register, with its selection    *)
(* and its one destructive dialog.  Both show what the last poll brought;  *)
(* the gyms move on meanwhile.  The server's side is what a poll reads:    *)
(* the rows with their age and SLA, and the counts of the overview.        *)
(*                                                                         *)
(* A poll is one step; between two of them the screen is a picture of the  *)
(* past.  Time is in ticks, TicksPerHour of them to an hour.               *)
(***************************************************************************)
EXTENDS Integers, FiniteSets, Sequences, SequencesExt, Ranking

CONSTANTS
    Gym, LegalName,      \* the name each gym signed with
    None,
    TicksPerHour, TargetHours, SoonHours,   \* VERIFICATION_SLA_TARGET_HOURS; 24
    ListLimit, PageSize, ReasonFloor,
    Moves, MaxGyms, Instants   \* bounds: statuses met, gyms, the ticks things happen at

VARIABLES
    gyms,       \* the tenants there are: status and the tick of creation
    now,
    listed,     \* what the last poll brought, newest first
    list,       \* which list is on screen
    tab, page, sort, focused,
    selected,   \* the register's ticks
    dialog,     \* the row awaiting a confirmed suspension, and what was typed
    glance      \* history: gyms the register showed, a poll that took the page, whose reason was written
vars == <<gyms, now, listed, list, tab, page, sort, focused, selected, dialog, glance>>

AllStatuses == <<"DRAFT", "SUBMITTED", "UNDER_REVIEW", "INFO_REQUESTED",
                 "APPROVED", "REJECTED", "SUSPENDED", "CLOSED">>
AllAwaiting == <<"SUBMITTED", "UNDER_REVIEW", "INFO_REQUESTED">>
Statuses == ToSet(AllStatuses)
Awaiting == ToSet(AllAwaiting)

-----------------------------------------------------------------------------
(* What a poll reads. *)
CountByStatus(status) == Cardinality({g \in DOMAIN gyms : gyms[g].status = status})
SumOver(statuses) == SumOf([i \in DOMAIN statuses |-> CountByStatus(statuses[i])])
Overview ==
    [count |-> SumOver(AllStatuses), awaitingReview |-> SumOver(AllAwaiting),
     listed |-> CountByStatus("APPROVED"),
     byStatus |-> [status \in Statuses |-> CountByStatus(status)]]

Trunc(n, d) == IF n >= 0 THEN n \div d ELSE -((-n) \div d)
HoursRemaining(at, t) == Trunc(at + TargetHours * TicksPerHour - t, TicksPerHour)
SlaFor(status, at, t) ==
    IF status \notin Awaiting THEN "none"
    ELSE IF status = "INFO_REQUESTED" THEN "PAUSED"
    ELSE IF HoursRemaining(at, t) <= 0 THEN "BREACHED"
    ELSE IF HoursRemaining(at, t) <= SoonHours THEN "APPROACHING"
    ELSE "WITHIN"

ListTenants ==
    LET newer == [g \in DOMAIN gyms |-> {h \in DOMAIN gyms : gyms[h].at > gyms[g].at}]
        newestFirst == Ranked(DOMAIN gyms, newer)
    IN  SubSeq(newestFirst, 1, IF Len(newestFirst) < ListLimit THEN Len(newestFirst) ELSE ListLimit)
Row(g) ==
    [id |-> g, status |-> gyms[g].status,
     age |-> (now - gyms[g].at) \div TicksPerHour,
     sla |-> SlaFor(gyms[g].status, gyms[g].at, now)]
GymRows == [i \in 1..Len(ListTenants) |-> Row(ListTenants[i])]

-----------------------------------------------------------------------------
(* The lists. *)
QueueTabs ==
    [all |-> Awaiting, INFO_REQUESTED |-> {"INFO_REQUESTED"}, UNDER_REVIEW |-> {"UNDER_REVIEW"},
     SUBMITTED |-> {"SUBMITTED"}, APPROVED |-> {"APPROVED"}, REJECTED |-> {"REJECTED"}]
RegisterTabs ==
    [all |-> Statuses, active |-> {"APPROVED"}, pending |-> Awaiting,
     suspended |-> {"SUSPENDED"}, rejected |-> {"REJECTED"}, draft |-> {"DRAFT", "CLOSED"}]
TabsOf(which) == IF which = "queue" THEN QueueTabs ELSE RegisterTabs

StatusRank ==
    [APPROVED |-> 1, CLOSED |-> 2, DRAFT |-> 3, INFO_REQUESTED |-> 4,
     REJECTED |-> 5, SUBMITTED |-> 6, SUSPENDED |-> 7, UNDER_REVIEW |-> 8]
KeyOf(row, key) ==
    CASE key = "gym"    -> LegalName[row.id]
      [] key = "status" -> StatusRank[row.status]
      [] OTHER          -> row.age
Before(order, a, b) ==
    IF order.direction = "desc" THEN KeyOf(a, order.key) > KeyOf(b, order.key)
    ELSE KeyOf(a, order.key) < KeyOf(b, order.key)
Sorted(rows, order) == SortedBy(rows, LAMBDA a, b : Before(order, a, b))

Admitted(rows, which, t) == Filtered(rows, LAMBDA row : row.status \in TabsOf(which)[t])
RowsOf(rows, which, t, order) ==
    IF which = "queue" THEN Sorted(Admitted(rows, which, t), order) ELSE Admitted(rows, which, t)
Rows == RowsOf(listed, list, tab, sort)
CountOn(rows, which, t) == Len(Admitted(rows, which, t))

LeastOf(a, b) == IF a < b THEN a ELSE b
Slice(rows, p) == SubSeq(rows, (p - 1) * PageSize + 1, LeastOf(p * PageSize, Len(rows)))
Paged == Slice(Rows, page)
IdsOf(rows) == {rows[i].id : i \in 1..Len(rows)}

InState(rows, state) == Cardinality({i \in 1..Len(rows) : rows[i].sla = state})
Oldest(rows) ==
    FoldSet(LAMBDA i, most : IF rows[i].age > most THEN rows[i].age ELSE most, 0, 1..Len(rows))
Summary(rows) ==
    [open |-> Len(rows), breached |-> InState(rows, "BREACHED"),
     approaching |-> InState(rows, "APPROACHING"), paused |-> InState(rows, "PAUSED"),
     oldest |-> Oldest(rows)]

(* The page numbers offered; 0 stands for a gap. *)
PagesFor(count) == IF count = 0 THEN 1 ELSE (count + PageSize - 1) \div PageSize
PageWindow(p, pages) ==
    LET around == Filtered(<<p - 1, p, p + 1>>, LAMBDA n : n > 1 /\ n < pages)
        gap    == <<0>>
    IN  IF pages <= 7 THEN [i \in 1..pages |-> i]
        ELSE <<1>>
             \o (IF around /= <<>> /\ Head(around) > 2 THEN gap ELSE <<>>)
             \o around
             \o (IF around /= <<>> /\ Last(around) < pages - 1 THEN gap ELSE <<>>)
             \o <<pages>>
Turns(p, pages) ==
    (ToSet(PageWindow(p, pages)) \ {0})
    \union (IF p > 1 THEN {p - 1} ELSE {}) \union (IF p < pages THEN {p + 1} ELSE {})

-----------------------------------------------------------------------------
NoDialog == [row |-> None, reason |-> 0, typed |-> None]
Fresh == [shown |-> {}, taken |-> FALSE, wroteFor |-> None]

Init ==
    /\ now = 0 /\ gyms = [g \in {} |-> 0]
    /\ listed = <<>>
    /\ list \in {"queue", "register"}
    /\ tab = "all" /\ page = 1 /\ sort = [key |-> "age", direction |-> "desc"] /\ focused = 0
    /\ selected = {} /\ dialog = NoDialog 
    /\ glance = Fresh

(* The platform moves on: time, applications, decisions; of these at most  *)
(* one between two polls (a bound).                                        *)
Polled == listed = GymRows
Apply(g) ==
    /\ Polled /\ g \notin DOMAIN gyms /\ Cardinality(DOMAIN gyms) < MaxGyms
    /\ \A h \in DOMAIN gyms : gyms[h].at /= now
    /\ \E status \in Moves :
         gyms' = [h \in DOMAIN gyms \union {g} |->
                    IF h = g THEN [status |-> status, at |-> now] ELSE gyms[h]]
    /\ UNCHANGED <<now, listed, list, tab, page, sort, focused, selected, dialog, glance>>

Decide(g) ==
    /\ Polled /\ g \in DOMAIN gyms
    /\ \E status \in Moves \ {gyms[g].status} : gyms' = [gyms EXCEPT ![g].status = status]
    /\ UNCHANGED <<now, listed, list, tab, page, sort, focused, selected, dialog, glance>>

Tick ==
    /\ now' \in {t \in Instants : t > now}
    /\ UNCHANGED <<gyms, listed, list, tab, page, sort, focused, selected, dialog, glance>>

(* The cursor is clamped to the rows there are when their number changes.  *)
Clamped(count) ==
    IF count = Len(Rows) THEN focused
    ELSE LeastOf(focused, IF count = 0 THEN 0 ELSE count - 1)

(* What is on screen after a step, for the history. *)
Showing(rows, p, taken) ==
    glance' = [glance EXCEPT !.taken = taken,
                             !.shown = IF list = "queue" THEN {} ELSE @ \union IdsOf(Slice(rows, p))]

Poll ==
    /\ listed' = GymRows
    /\ focused' = Clamped(Len(RowsOf(GymRows, list, tab, sort)))
    /\ Showing(RowsOf(GymRows, list, tab, sort), page,
               page > PagesFor(Len(RowsOf(GymRows, list, tab, sort))))
    /\ UNCHANGED <<gyms, now, list, tab, page, sort, selected, dialog>>

SelectTab(t) ==
    /\ dialog.row = None
    /\ tab' = t
    /\ page' = 1
    /\ focused' = Clamped(Len(RowsOf(listed, list, t, sort)))
    /\ Showing(RowsOf(listed, list, t, sort), 1, FALSE)
    /\ UNCHANGED <<gyms, now, listed, list, sort, selected, dialog>>

(* Below, the rows are on screen: an empty list shows neither table nor pager. *)
OnSort(key) ==
    /\ list = "queue" /\ Rows /= <<>>
    /\ sort' = IF key = sort.key
               THEN [sort EXCEPT !.direction = IF @ = "asc" THEN "desc" ELSE "asc"]
               ELSE [key |-> key, direction |-> "desc"]
    /\ page' = 1
    /\ Showing(RowsOf(listed, list, tab, sort'), 1, FALSE)
    /\ UNCHANGED <<gyms, now, listed, list, tab, focused, selected, dialog>>

OnPage ==
    /\ dialog.row = None /\ Rows /= <<>>
    /\ \E p \in Turns(page, PagesFor(Len(Rows))) :
         /\ page' = p
         /\ Showing(Rows, p, IF p > PagesFor(Len(Rows)) THEN glance.taken ELSE FALSE)
    /\ UNCHANGED <<gyms, now, listed, list, tab, sort, focused, selected, dialog>>

Move ==
    /\ list = "queue" /\ Rows /= <<>>
    /\ \/ focused' = LeastOf(focused + 1, Len(Paged) - 1)
       \/ focused' = IF focused > 1 THEN focused - 1 ELSE 0
    /\ UNCHANGED <<gyms, now, listed, list, tab, page, sort, selected, dialog, glance>>

(* The register's ticks: one row, or every row of this page. *)
Toggle(g) ==
    /\ list = "register" /\ dialog.row = None /\ g \in IdsOf(Paged)
    /\ selected' = IF g \in selected THEN selected \ {g} ELSE selected \union {g}
    /\ UNCHANGED <<gyms, now, listed, list, tab, page, sort, focused, dialog, glance>>

ToggleAll ==
    /\ list = "register" /\ dialog.row = None /\ Rows /= <<>>
    /\ selected' = IF Paged /= <<>> /\ IdsOf(Paged) \subseteq selected
                   THEN selected \ IdsOf(Paged) ELSE selected \union IdsOf(Paged)
    /\ UNCHANGED <<gyms, now, listed, list, tab, page, sort, focused, dialog, glance>>

Clear ==
    /\ list = "register" /\ dialog.row = None /\ Rows /= <<>> /\ selected /= {}
    /\ selected' = {}
    /\ UNCHANGED <<gyms, now, listed, list, tab, page, sort, focused, dialog, glance>>

(* The one destructive dialog: offered on an approved row, it opens empty, *)
(* and nothing behind it can be reached until it closes.                   *)
Opened(g) == [row |-> g, reason |-> 0, typed |-> None]
Suspend ==
    /\ list = "register" /\ dialog.row = None
    /\ \E i \in 1..Len(Paged) : Paged[i].status = "APPROVED" /\ dialog' = Opened(Paged[i].id)
    /\ glance' = [glance EXCEPT !.wroteFor = None]
    /\ UNCHANGED <<gyms, now, listed, list, tab, page, sort, focused, selected>>

Write ==
    /\ dialog.row /= None
    /\ \/ /\ \E length \in {ReasonFloor - 1, ReasonFloor} : dialog' = [dialog EXCEPT !.reason = length]
          /\ glance' = [glance EXCEPT !.wroteFor = dialog.row]
       \/ /\ \E g \in Gym : dialog' = [dialog EXCEPT !.typed = LegalName[g]]
          /\ UNCHANGED glance
    /\ UNCHANGED <<gyms, now, listed, list, tab, page, sort, focused, selected>>

(* Cancelled, or confirmed when it may be; there is no call behind it yet. *)
Ready == dialog.reason >= ReasonFloor /\ dialog.typed = LegalName[dialog.row]
Close ==
    /\ dialog.row /= None
    /\ dialog' = [dialog EXCEPT !.row = None]
    /\ UNCHANGED <<gyms, now, listed, list, tab, page, sort, focused, selected, glance>>

Next ==
    \/ \E g \in Gym : Apply(g) \/ Decide(g) \/ Toggle(g)
    \/ Tick \/ Poll \/ OnPage \/ Move
    \/ \E t \in DOMAIN TabsOf(list) : SelectTab(t)
    \/ \E key \in {"age", "gym", "status"} : OnSort(key)
    \/ ToggleAll \/ Clear \/ Suspend \/ Write \/ Close

-----------------------------------------------------------------------------
(* A list with rows never shows an empty page unless a poll took them, and *)
(* then the pager still offers a page that has some: no tab, order or turn *)
(* of the page leads nowhere (setPage(1), Pagination).                     *)
NeverStranded ==
    Rows /= <<>> /\ Paged = <<>> =>
        glance.taken /\ \E p \in Turns(page, PagesFor(Len(Rows))) : Slice(Rows, p) /= <<>>

(* "A header checkbox that silently selected 263 gyms across 27 pages when *)
(* the operator could see ten of them": nothing is selected that was not   *)
(* on a page this reader had before them (DataTable.toggleAll).            *)
SelectedWereSeen == selected \subseteq glance.shown

(* A suspension can be confirmed only with a reason written for the gym    *)
(* that the dialog names, under that gym's own name: nothing of an earlier *)
(* opening is left over (ConfirmDialog, gym-register.route.tsx).           *)
ReasonIsForThisGym ==
    dialog.row /= None /\ Ready =>
        glance.wroteFor = dialog.row /\ dialog.typed = LegalName[dialog.row]

(* The same gyms counted in four places: the overview's tiles, the badge,  *)
(* the tabs of the queue and of the register agree, and no gym is on two   *)
(* tabs of one list, as long as the list is not cut (platform-overview).   *)
CountsAgree ==
    Cardinality(DOMAIN gyms) <= ListLimit =>
      /\ CountOn(GymRows, "queue", "all") = Overview.awaitingReview
      /\ \A which \in {"queue", "register"} :
           LET tabs == DOMAIN TabsOf(which) \ {"all"}
           IN  \A s, t \in tabs : s /= t => TabsOf(which)[s] \intersect TabsOf(which)[t] = {}
      /\ LET count(t) == CountOn(GymRows, "register", t)
         IN  count("active") + count("pending") + count("suspended") + count("rejected")
               + count("draft") = Overview.count
      /\ CountOn(GymRows, "register", "active") = Overview.listed
      /\ Summary(Admitted(GymRows, "queue", "all")).paused = Overview.byStatus["INFO_REQUESTED"]

(* The oldest first is the latest first: of the applications whose clock   *)
(* runs, none is shown above one that is later against its target (of the  *)
(* same whole hour the younger may be); and none past its target is called *)
(* in time (slaFor: "Erring towards late on a queue is the safe direction").*)
Lateness == [WITHIN |-> 1, APPROACHING |-> 2, BREACHED |-> 3]
OldestIsLatest ==
    LET rows    == RowsOf(GymRows, "queue", "all", [key |-> "age", direction |-> "desc"])
        running == Filtered(rows, LAMBDA row : row.sla \in DOMAIN Lateness)
    IN  /\ \A i, j \in 1..Len(running) :
             i < j /\ running[i].age /= running[j].age =>
               Lateness[running[i].sla] >= Lateness[running[j].sla]
        /\ \A i \in 1..Len(rows) :
             rows[i].sla = "WITHIN" => rows[i].age < TargetHours - SoonHours
        /\ \A g \in DOMAIN gyms :
             gyms[g].status \in Awaiting \ {"INFO_REQUESTED"}
                 /\ now >= gyms[g].at + TargetHours * TicksPerHour
               => Row(g).sla = "BREACHED"

(* The pager's numbers rise, hold both ends and the page on screen, and    *)
(* leave no step out without a gap to show for it (pageWindow).            *)
WindowIsWhole(pages) ==
    \A p \in 1..pages :
      LET shown == PageWindow(p, pages)
      IN  /\ {1, p, pages} \subseteq ToSet(shown)
          /\ \A i \in 1..(Len(shown) - 1) :
               shown[i] /= 0 => shown[i + 1] = 0 \/ shown[i + 1] = shown[i] + 1
          /\ \A i \in 2..(Len(shown) - 1) :
               shown[i] = 0 => shown[i + 1] > shown[i - 1] + 1

ListsAreTrue ==
    /\ NeverStranded /\ SelectedWereSeen /\ ReasonIsForThisGym
    /\ list = "queue" /\ tab = "all" /\ page = 1 /\ focused = 0 => CountsAgree /\ OldestIsLatest
=============================================================================
