------------------------------ MODULE MCAuthority ------------------------------
(***************************************************************************)
(* Who holds a gym's roles, who acts under another's, whose rows a         *)
(* statement sees, what of it all gets onto the audit log, and how a       *)
(* request comes to its handler.  They share no state; a behaviour of the  *)
(* run is a behaviour of one of them.                                      *)
(* The two changes of a role serve as the two requests of the others.      *)
(***************************************************************************)
EXTENDS TenantRoles, TLC

CONSTANTS Gym, Agent, Subject, MaxMinutes, DenylistTtl,
          Gyms, Connections, RequestKeys, MaxRequests, MaxWall

VARIABLES scene,
          agentRoles, subjectRoles, pending, session, denied, trail, asked,
          frame, conn, flow, saw,
          request, work, stored, appending, rows, happened, crossed, recorded, served,
          gate, wall, revoked

Act   == INSTANCE Impersonation
Scope == INSTANCE TenantScope WITH Flows <- Changes
Audit == INSTANCE AuditTrail WITH Flows <- Changes
Door  == INSTANCE Gate WITH Cap <- MaxMinutes

ASSUME ScopeIsGiven == Scope!ScopeAssumption
ASSUME GateIsGiven == Door!GateAssumption
ASSUME SessionIsGiven == Act!SessionAssumption

sessionVars == <<agentRoles, subjectRoles, pending, session, denied, trail, asked>>
scopeVars   == <<frame, conn, flow, saw>>
auditVars   == <<request, work, stored, appending, rows, happened, crossed, recorded, served>>
gateVars    == <<gate, wall, revoked>>
allVars     == <<scene, vars, sessionVars, scopeVars, auditVars, gateVars>>

NobodyHolds ==
    /\ grant = [u \in Users |-> [r \in Roles |-> "none"]]
    /\ token = NoToken /\ req = [c \in Changes |-> Idle] /\ lost = [r \in Roles |-> 0]

NobodyActs ==
    /\ agentRoles = {} /\ subjectRoles = {} /\ pending = 0 /\ session = Act!NoSession
    /\ denied = 0 /\ trail = {} /\ asked = FALSE

NobodyCalls == gate = "none" /\ wall = 0 /\ revoked = FALSE

NoFrames == frame = [f \in Changes |-> None] /\ Scope!PoolIsFresh

MCInit ==
    /\ Audit!Init
    /\ \/ scene = "roles" /\ Init /\ NobodyActs /\ NoFrames /\ NobodyCalls
       \/ scene = "session" /\ Act!Init /\ NobodyHolds /\ NoFrames /\ NobodyCalls
       \/ scene = "tenancy" /\ Scope!Init /\ NobodyHolds /\ NobodyActs /\ NobodyCalls
       \/ scene = "audit" /\ NobodyHolds /\ NobodyActs /\ NoFrames /\ NobodyCalls
       \/ scene = "gate" /\ NobodyHolds /\ NobodyActs /\ NoFrames /\ Door!Init

MCNext ==
    \/ /\ scene = "roles" /\ Next
       /\ UNCHANGED <<scene, sessionVars, scopeVars, auditVars, gateVars>>
    \/ /\ scene = "session" /\ Act!Next
       /\ UNCHANGED <<scene, vars, scopeVars, auditVars, gateVars>>
    \/ /\ scene = "tenancy" /\ Scope!Next
       /\ UNCHANGED <<scene, vars, sessionVars, auditVars, gateVars>>
    \/ /\ scene = "audit" /\ Audit!Next
       /\ UNCHANGED <<scene, vars, sessionVars, scopeVars, gateVars>>
    \/ /\ scene = "gate" /\ Door!Next
       /\ UNCHANGED <<scene, vars, sessionVars, scopeVars, auditVars>>

MCSpec == MCInit /\ [][MCNext]_allVars

Symmetry == Permutations(Users) \cup Permutations(Changes) \cup Permutations(Gyms)

\* Impersonation and Gate: a session stays within its subject and one hop, and no
\* request reaches a handler that its token does not carry it to.
SessionStaysWithin ==
    /\ scene = "session" => Act!SessionStaysWithin
    /\ scene = "gate" => Door!GateHolds

\* Impersonation: a consumer's session admits what was announced of it, and more
\* only of the roles announced in part; the inspector shows what the guard decides.
ConsolesTellTheTruth == scene = "session" => Act!ConsolesTellTheTruth

\* TenantScope: a statement works on the rows of its request's gym, and leaves
\* its connection as it found it.
ScopeHolds == scene = "tenancy" => Scope!ScopeHolds

\* AuditTrail: a row is of something that happened, once, and nobody reads across
\* gyms who may not.
TrailIsTrue == scene = "audit" => Audit!TrailIsTrue

\* Impersonation: ending a session ends it at once.
EndEndsTheSession == Act!EndEndsTheSession

\* Impersonation and AuditTrail: "the deliberate high-consequence paths write
\* first and refuse to proceed".
RecordComesFirst ==
    /\ scene = "session" => Act!SessionsAreOnRecord
    /\ scene = "audit" => Audit!ElevationsAreOnRecord
=============================================================================
