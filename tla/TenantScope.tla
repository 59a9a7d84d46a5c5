------------------------------ MODULE TenantScope ------------------------------
(***************************************************************************)
(* How a statement comes to see one gym's rows.  A request has a frame     *)
(* (tenant-context.middleware.ts): the gym of its token, or none.  A       *)
(* connection of the pool has a setting, app.tenant_id, that the policies  *)
(* of the tables read (tenant-scoped-client.ts, prisma.service.ts).        *)
(*                                                                         *)
(* A flow is an asynchronous context: a request, or one of two statements  *)
(* a request has under way at once.  Its statements are of five kinds:     *)
(*   model      an operation on a gym's table, wrapped by the extension    *)
(*   reference  one on a table of everybody, passed on as it is            *)
(*   raw        $queryRaw on the client, which the extension never sees    *)
(*   unit       inTenantTransaction, any number of statements              *)
(*   bare       client.$transaction around model operations, each of which *)
(*              the extension gives a transaction of its own               *)
(***************************************************************************)
EXTENDS Integers, FiniteSets

CONSTANTS Flows, Gyms, Connections, None

\* What the constants are (a hypothesis, where something is proved of every value).
ScopeAssumption == None \notin Flows \cup Gyms \cup Connections

VARIABLES
    frame,   \* flow -> its gym, or None
    conn,    \* connection -> the flow that holds it, and its app.tenant_id as
             \* the transaction set it (local) and as the session has it
    flow,    \* flow -> what it runs, how far it is, and its connections
    saw      \* flow -> the gyms whose rows it read or wrote since it arrived

vars == <<frame, conn, flow, saw>>

Kinds == {"model", "reference", "raw", "unit", "bare"}
Idle == [kind |-> "model", at |-> "idle", on |-> None, outer |-> None]
Fresh == [user |-> None, local |-> None, session |-> None]

PoolIsFresh ==
    /\ conn = [c \in Connections |-> Fresh]
    /\ flow = [f \in Flows |-> Idle]
    /\ saw = [f \in Flows |-> {}]

Init == frame \in [Flows -> Gyms \cup {None}] /\ PoolIsFresh

Setting(c) == IF conn[c].local # None THEN conn[c].local ELSE conn[c].session
Goto(f, stage) == flow' = [flow EXCEPT ![f].at = stage]

\* The next request of this context: TenantContextMiddleware opens its frame.
Arrive(f) ==
    /\ flow[f].at = "idle"
    /\ \E gym \in Gyms \cup {None} : frame' = [frame EXCEPT ![f] = gym]
    /\ saw' = [saw EXCEPT ![f] = {}]
    /\ UNCHANGED <<conn, flow>>

Depth_OfTheProcess(f) ==   \* mutant: one counter for all contexts
    Cardinality({g \in Flows : flow[g].at \in {"scope", "run", "done"}})

\* currentDepth: whether this context is inside a transaction the extension opened.
Depth(f) == IF flow[f].at \in {"scope", "run", "done"} THEN 1 ELSE 0

\* $allOperations and runInTenantTransaction: an operation on a gym's table
\* without a frame throws.
Begin(f, kind) ==
    /\ flow[f].at = "idle"
    /\ kind \in {"model", "unit"} => frame[f] # None
    /\ flow' = [flow EXCEPT ![f].kind = kind, ![f].at = "wait"]
    /\ UNCHANGED <<frame, conn, saw>>

Scoped(f) == flow[f].kind \in {"model", "unit"} \/ flow[f].outer # None

\* A connection for the transaction, or for the statement alone.  An operation of
\* a context that is inside a transaction already is passed on unscoped.
Take(f, c) ==
    /\ flow[f].at = "wait" /\ conn[c].user = None
    /\ conn' = [conn EXCEPT ![c].user = f]
    /\ flow' = [flow EXCEPT ![f] =
                  IF @.kind = "bare" /\ @.outer = None
                  THEN [@ EXCEPT !.outer = c, !.at = "inside"]
                  ELSE [@ EXCEPT !.on = c,
                                 !.at = IF Scoped(f) /\ Depth(f) = 0 THEN "scope" ELSE "run"]]
    /\ UNCHANGED <<frame, saw>>

\* maxWait: no connection came free in time.  What the flow held it gives back.
GiveUp(f) ==
    /\ flow[f].at = "wait" /\ \A c \in Connections : conn[c].user # None
    /\ conn' = [c \in Connections |->
                  IF conn[c].user = f THEN [conn[c] EXCEPT !.user = None] ELSE conn[c]]
    /\ flow' = [flow EXCEPT ![f] = Idle]
    /\ UNCHANGED <<frame, saw>>

\* An operation inside a bare transaction: one connection held, another wanted.
BeginInner(f) ==
    /\ flow[f].at = "inside" /\ frame[f] # None
    /\ Goto(f, "wait")
    /\ UNCHANGED <<frame, conn, saw>>

\* set_config('app.tenant_id', ..., true): for this transaction.
SetConfig(f) ==
    /\ flow[f].at = "scope"
    /\ conn' = [conn EXCEPT ![flow[f].on].local = frame[f]]
    /\ Goto(f, "run")
    /\ UNCHANGED <<frame, saw>>

\* The statement, under the policies: current_setting raises where nothing is
\* set.  A unit may go on with another.
RunStatement(f) ==
    /\ flow[f].at = "run"
    /\ LET setting == Setting(flow[f].on)
       IN  /\ saw' = IF flow[f].kind = "reference" \/ setting = None
                     THEN saw ELSE [saw EXCEPT ![f] = @ \cup {setting}]
           /\ \/ Goto(f, "done")
              \/ flow[f].kind = "unit" /\ setting # None /\ UNCHANGED flow
    /\ UNCHANGED <<frame, conn>>

\* COMMIT or ROLLBACK: the local setting ends, the connection goes back.
EndTransaction(f) ==
    /\ flow[f].at = "done"
    /\ conn' = [conn EXCEPT ![flow[f].on].user = None, ![flow[f].on].local = None]
    /\ flow' = [flow EXCEPT ![f] = IF @.outer = None THEN Idle
                                   ELSE [@ EXCEPT !.on = None, !.at = "inside"]]
    /\ UNCHANGED <<frame, saw>>

\* The bare transaction ends, by its last statement or by its timeout.
EndBare(f) ==
    /\ flow[f].at = "inside"
    /\ conn' = [conn EXCEPT ![flow[f].outer].user = None]
    /\ flow' = [flow EXCEPT ![f] = Idle]
    /\ UNCHANGED <<frame, saw>>

Step(f) ==
    \/ Arrive(f)
    \/ \E kind \in Kinds : Begin(f, kind)
    \/ \E c \in Connections : Take(f, c)
    \/ GiveUp(f) \/ BeginInner(f) \/ SetConfig(f) \/ RunStatement(f)
    \/ EndTransaction(f) \/ EndBare(f)

Next == \E f \in Flows : Step(f)

Spec == Init /\ [][Next]_vars

-----------------------------------------------------------------------------
\* No statement reads or writes a row of a gym that is not its request's.
OwnRowsOnly == \A f \in Flows : saw[f] \subseteq {frame[f]}

\* A connection comes back to the pool without a gym.
ComesBackClean == \A c \in Connections : conn[c].user = None => Setting(c) = None

\* A statement of the extension or of a unit runs under the gym of its request,
\* on a connection nobody else has.
ScopedRunsScoped ==
    \A f \in Flows : flow[f].at = "run" /\ Scoped(f) =>
        /\ frame[f] # None
        /\ conn[flow[f].on] = [user |-> f, local |-> frame[f], session |-> None]

\* A connection is held by the flow that knows it, and by no other.
HeldOnce ==
    \A c \in Connections : \A f \in Flows :
        conn[c].user = f <=> c \in {flow[f].on, flow[f].outer}

\* However requests of several gyms share the pool, each works on its own rows,
\* and nothing of it stays on the connection (tenant-scoped-client.ts,
\* "THE PROBLEM, PRECISELY").
ScopeHolds == OwnRowsOnly /\ ComesBackClean /\ ScopedRunsScoped /\ HeldOnce
=============================================================================
