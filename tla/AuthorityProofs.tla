---------------------------- MODULE AuthorityProofs ----------------------------
(***************************************************************************)
(* What the five scenes of MCAuthority keep, for any number of requests,   *)
(* gyms, connections, users and roles, and any lifetimes.                  *)
(*                                                                         *)
(* The scope.  ScopeHolds is not inductive: that a statement runs under    *)
(* its request's gym needs to be known from the moment its connection is   *)
(* taken.  The invariant says what a flow may hold at each of its stages   *)
(* (FlowShape), that its request has a gym as soon as a statement will     *)
(* need one (FrameShape), and what the setting of each connection is by    *)
(* the stage of the flow that holds it (SettingShape).                     *)
(*                                                                         *)
(* The audit log, the gate and the session have each an invariant of their *)
(* own below, the matrix the lemmas about its rows that the session and    *)
(* the consoles need, and the changes of roles come last.                  *)
(***************************************************************************)
EXTENDS MCAuthority, TLAPS

-----------------------------------------------------------------------------
(* The scope (TenantScope).                                                *)

FlowStages == {"idle", "wait", "inside", "scope", "run", "done"}
Working == {"scope", "run", "done"}

Holdings == [user : Changes \cup {None}, local : Gyms \cup {None}, session : {None}]
Progress == [kind : Scope!Kinds, at : FlowStages, on : Connections \cup {None},
             outer : Connections \cup {None}]

FlowTypes ==
    /\ frame \in [Changes -> Gyms \cup {None}]
    /\ conn \in [Connections -> Holdings]
    /\ flow \in [Changes -> Progress]
    /\ saw \in [Changes -> SUBSET Gyms]

FlowShape ==
    \A f \in Changes :
        /\ flow[f].at \in Working <=> flow[f].on # None
        /\ flow[f].outer # None => flow[f].kind = "bare" /\ flow[f].at # "idle"
        /\ flow[f].outer # None => flow[f].outer # flow[f].on
        /\ flow[f].at = "inside" => flow[f].outer # None
        /\ flow[f].at = "scope" => Scope!Scoped(f)

FrameShape ==
    \A f \in Changes :
        /\ flow[f].kind \in {"model", "unit"} /\ flow[f].at # "idle" => frame[f] # None
        /\ flow[f].outer # None /\ flow[f].at # "inside" => frame[f] # None

SettingShape ==
    /\ \A c \in Connections : conn[c].user = None => conn[c].local = None
    /\ \A f \in Changes :
        /\ flow[f].outer # None => conn[flow[f].outer].local = None
        /\ flow[f].at = "scope" => conn[flow[f].on].local = None
        /\ flow[f].at \in {"run", "done"} =>
              conn[flow[f].on].local = IF Scope!Scoped(f) THEN frame[f] ELSE None

ScopeInv == FlowTypes /\ FlowShape /\ FrameShape /\ SettingShape /\ Scope!HeldOnce /\ Scope!OwnRowsOnly

USE ScopeIsGiven
DEF Scope!ScopeAssumption, Scope!Kinds, FlowStages, Working, Scope!Idle, Scope!Fresh, Scope!Scoped, Holdings, Progress

(* The invariant holds before any request has come. *)
LEMMA ScopeInit == ASSUME Scope!Init PROVE ScopeInv
<1>1. FlowTypes
  BY DEF Scope!Init, Scope!PoolIsFresh, FlowTypes
<1>2. FlowShape /\ FrameShape
  BY DEF Scope!Init, Scope!PoolIsFresh, FlowShape, FrameShape
<1>3. SettingShape
  BY DEF Scope!Init, Scope!PoolIsFresh, SettingShape
<1>4. Scope!HeldOnce /\ Scope!OwnRowsOnly
  BY DEF Scope!Init, Scope!PoolIsFresh, Scope!HeldOnce, Scope!OwnRowsOnly
<1>5. QED
  BY <1>1, <1>2, <1>3, <1>4 DEF ScopeInv

(* A request begins with nothing seen, whatever its gym. *)
LEMMA ArriveStep == ASSUME ScopeInv, NEW f \in Changes, Scope!Arrive(f) PROVE ScopeInv'
<1>1. FlowTypes'
  BY DEF ScopeInv, FlowTypes, FlowShape, Scope!Arrive
<1>2. FlowShape'
  BY DEF ScopeInv, FlowTypes, FlowShape, Scope!HeldOnce, Scope!Arrive
<1>3. FrameShape'
  BY DEF ScopeInv, FlowTypes, FlowShape, FrameShape, Scope!Arrive
<1>4. SettingShape'
  BY DEF ScopeInv, FlowTypes, FlowShape, FrameShape, SettingShape, Scope!HeldOnce, Scope!Arrive
<1>5. Scope!HeldOnce'
  BY DEF ScopeInv, FlowTypes, FlowShape, Scope!HeldOnce, Scope!Arrive
<1>6. Scope!OwnRowsOnly'
  BY DEF ScopeInv, FlowTypes, FlowShape, SettingShape, Scope!OwnRowsOnly, Scope!Arrive
<1>7. QED
  BY <1>1, <1>2, <1>3, <1>4, <1>5, <1>6 DEF ScopeInv

(* Begin asks for a frame where a statement will need one. *)
LEMMA BeginStep == ASSUME ScopeInv, NEW f \in Changes, NEW kind \in Scope!Kinds, Scope!Begin(f, kind) PROVE ScopeInv'
<1>1. FlowTypes'
  BY DEF ScopeInv, FlowTypes, FlowShape, Scope!Begin
<1>2. FlowShape'
  BY DEF ScopeInv, FlowTypes, FlowShape, Scope!HeldOnce, Scope!Begin
<1>3. FrameShape'
  BY DEF ScopeInv, FlowTypes, FlowShape, FrameShape, Scope!Begin
<1>4. SettingShape'
  BY DEF ScopeInv, FlowTypes, FlowShape, FrameShape, SettingShape, Scope!HeldOnce, Scope!Begin
<1>5. Scope!HeldOnce'
  BY DEF ScopeInv, FlowTypes, FlowShape, Scope!HeldOnce, Scope!Begin
<1>6. Scope!OwnRowsOnly'
  BY DEF ScopeInv, FlowTypes, FlowShape, SettingShape, Scope!OwnRowsOnly, Scope!Begin
<1>7. QED
  BY <1>1, <1>2, <1>3, <1>4, <1>5, <1>6 DEF ScopeInv

(* A connection nobody has comes without a setting. *)
LEMMA TakeStep == ASSUME ScopeInv, NEW f \in Changes, NEW c \in Connections, Scope!Take(f, c) PROVE ScopeInv'
<1>1. FlowTypes'
  <2>1. frame' \in [Changes -> Gyms \cup {None}] /\ saw' \in [Changes -> SUBSET Gyms]
    BY DEF ScopeInv, FlowTypes, FlowShape, Scope!Take, Scope!Depth
  <2>2. conn' \in [Connections -> Holdings]
    BY DEF ScopeInv, FlowTypes, Scope!Take
  <2>3. flow' \in [Changes -> Progress]
    (* by cases of the connection it is: the outer one, a scoped or a bare one *)
    <3> DEFINE outer == [flow[f] EXCEPT !.outer = c, !.at = "inside"]
               inner == [flow[f] EXCEPT !.on = c,
                            !.at = IF Scope!Scoped(f) /\ Scope!Depth(f) = 0 THEN "scope" ELSE "run"]
    <3>1. flow[f] \in Progress
      BY DEF ScopeInv, FlowTypes
    <3>2. outer \in Progress /\ inner \in Progress
      BY <3>1
    <3>3. flow' = [flow EXCEPT ![f] = outer] \/ flow' = [flow EXCEPT ![f] = inner]
      BY DEF Scope!Take
    <3> HIDE DEF outer, inner, Progress
    <3> QED  BY <3>2, <3>3 DEF ScopeInv, FlowTypes
  <2>4. QED
    BY <2>1, <2>2, <2>3 DEF FlowTypes
<1>2. FlowShape'
  BY DEF ScopeInv, FlowTypes, FlowShape, Scope!HeldOnce, Scope!Take, Scope!Depth
<1>3. FrameShape'
  BY DEF ScopeInv, FlowTypes, FlowShape, FrameShape, Scope!Take, Scope!Depth
<1>4. SettingShape'
  BY DEF ScopeInv, FlowTypes, FlowShape, FrameShape, SettingShape, Scope!HeldOnce, Scope!Take, Scope!Depth
<1>5. Scope!HeldOnce'
  BY DEF ScopeInv, FlowTypes, FlowShape, Scope!HeldOnce, Scope!Take, Scope!Depth
<1>6. Scope!OwnRowsOnly'
  BY DEF ScopeInv, FlowTypes, FlowShape, SettingShape, Scope!OwnRowsOnly, Scope!Take, Scope!Depth
<1>7. QED
  BY <1>1, <1>2, <1>3, <1>4, <1>5, <1>6 DEF ScopeInv

(* A flow that waits holds no connection but the outer one. *)
LEMMA GiveUpStep == ASSUME ScopeInv, NEW f \in Changes, Scope!GiveUp(f) PROVE ScopeInv'
<1>1. FlowTypes'
  <2>1. frame' \in [Changes -> Gyms \cup {None}] /\ saw' \in [Changes -> SUBSET Gyms]
    BY DEF ScopeInv, FlowTypes, FlowShape, Scope!GiveUp
  <2>2. conn' \in [Connections -> Holdings]
    <3> DEFINE returned(c) == IF conn[c].user = f THEN [conn[c] EXCEPT !.user = None]
                              ELSE conn[c]
    <3>1. ASSUME NEW c \in Connections PROVE returned(c) \in Holdings
      <4>1. conn[c] \in Holdings
        BY DEF ScopeInv, FlowTypes
      <4>2. QED
        BY <4>1
    <3>2. conn' = [c \in Connections |-> returned(c)]
      BY DEF Scope!GiveUp
    <3> HIDE DEF returned, Holdings
    <3> QED  BY <3>1, <3>2
  <2>3. flow' \in [Changes -> Progress]
    BY DEF ScopeInv, FlowTypes, FlowShape, Scope!GiveUp
  <2>4. QED
    BY <2>1, <2>2, <2>3 DEF FlowTypes
<1>2. FlowShape'
  BY DEF ScopeInv, FlowTypes, FlowShape, Scope!HeldOnce, Scope!GiveUp
<1>3. FrameShape'
  BY DEF ScopeInv, FlowTypes, FlowShape, FrameShape, Scope!GiveUp
<1>4. SettingShape'
  <2>1. \A c \in Connections : conn'[c].local = conn[c].local
    <3>1. \A c \in Connections : conn[c] \in Holdings
      BY DEF ScopeInv, FlowTypes
    <3>2. QED
      BY <3>1 DEF Scope!GiveUp
  <2>2. \A c \in Connections : conn'[c].user = None => conn'[c].local = None
    <3>1. \A c \in Connections : conn'[c].user = None => conn[c].user \in {None, f}
      BY DEF ScopeInv, FlowTypes, Scope!GiveUp
    <3>2. \A c \in Connections : conn[c].user = f => conn[c].local = None
      BY SMTT(30) DEF ScopeInv, FlowTypes, FlowShape, SettingShape, Scope!HeldOnce, Scope!GiveUp
    <3>3. QED
      BY <2>1, <3>1, <3>2 DEF ScopeInv, SettingShape
  <2>3. ASSUME NEW g \in Changes
        PROVE  /\ flow'[g].outer # None => conn'[flow'[g].outer].local = None
               /\ flow'[g].at = "scope" => conn'[flow'[g].on].local = None
               /\ flow'[g].at \in {"run", "done"} =>
                     conn'[flow'[g].on].local = IF Scope!Scoped(g)' THEN frame'[g] ELSE None
    <3>1. CASE g = f
      BY <3>1 DEF ScopeInv, FlowTypes, Scope!GiveUp
    <3>2. CASE g # f
      <4>1. flow'[g] = flow[g] /\ frame' = frame /\ flow[g] \in Progress
        BY <3>2 DEF ScopeInv, FlowTypes, Scope!GiveUp
      <4>2. QED
        BY <2>1, <4>1 DEF ScopeInv, FlowShape, SettingShape
    <3>3. QED
      BY <3>1, <3>2
  <2>4. QED
    BY <2>2, <2>3 DEF SettingShape
<1>5. Scope!HeldOnce'
  BY DEF ScopeInv, FlowTypes, FlowShape, Scope!HeldOnce, Scope!GiveUp
<1>6. Scope!OwnRowsOnly'
  BY DEF ScopeInv, FlowTypes, FlowShape, SettingShape, Scope!OwnRowsOnly, Scope!GiveUp
<1>7. QED
  BY <1>1, <1>2, <1>3, <1>4, <1>5, <1>6 DEF ScopeInv

(* An inner operation asks for a frame. *)
LEMMA BeginInnerStep == ASSUME ScopeInv, NEW f \in Changes, Scope!BeginInner(f) PROVE ScopeInv'
<1>1. FlowTypes'
  BY DEF ScopeInv, FlowTypes, FlowShape, Scope!BeginInner, Scope!Goto
<1>2. FlowShape'
  BY DEF ScopeInv, FlowTypes, FlowShape, Scope!HeldOnce, Scope!BeginInner, Scope!Goto
<1>3. FrameShape'
  BY DEF ScopeInv, FlowTypes, FlowShape, FrameShape, Scope!BeginInner, Scope!Goto
<1>4. SettingShape'
  BY DEF ScopeInv, FlowTypes, FlowShape, FrameShape, SettingShape, Scope!HeldOnce, Scope!BeginInner, Scope!Goto
<1>5. Scope!HeldOnce'
  BY DEF ScopeInv, FlowTypes, FlowShape, Scope!HeldOnce, Scope!BeginInner, Scope!Goto
<1>6. Scope!OwnRowsOnly'
  BY DEF ScopeInv, FlowTypes, FlowShape, SettingShape, Scope!OwnRowsOnly, Scope!BeginInner, Scope!Goto
<1>7. QED
  BY <1>1, <1>2, <1>3, <1>4, <1>5, <1>6 DEF ScopeInv

(* The setting becomes the gym of the request. *)
LEMMA SetConfigStep == ASSUME ScopeInv, NEW f \in Changes, Scope!SetConfig(f) PROVE ScopeInv'
<1>1. FlowTypes'
  <2>1. frame' \in [Changes -> Gyms \cup {None}] /\ saw' \in [Changes -> SUBSET Gyms]
    BY DEF ScopeInv, FlowTypes, FlowShape, Scope!SetConfig, Scope!Goto
  <2>2. conn' \in [Connections -> Holdings]
    <3> DEFINE held == flow[f].on
               set == [conn[held] EXCEPT !.local = frame[f]]
    <3>1. held \in Connections /\ conn[held] \in Holdings /\ frame[f] \in Gyms \cup {None}
      BY DEF ScopeInv, FlowTypes, FlowShape, Scope!SetConfig
    <3>2. set \in Holdings
      BY <3>1
    <3>3. conn' = [conn EXCEPT ![held] = set] /\ conn \in [Connections -> Holdings]
      BY DEF Scope!SetConfig, ScopeInv, FlowTypes
    <3> HIDE DEF held, set, Holdings
    <3> QED  BY <3>1, <3>2, <3>3
  <2>3. flow' \in [Changes -> Progress]
    BY DEF ScopeInv, FlowTypes, FlowShape, Scope!SetConfig, Scope!Goto
  <2>4. QED
    BY <2>1, <2>2, <2>3 DEF FlowTypes
<1>2. FlowShape'
  BY DEF ScopeInv, FlowTypes, FlowShape, Scope!HeldOnce, Scope!SetConfig, Scope!Goto
<1>3. FrameShape'
  BY DEF ScopeInv, FlowTypes, FlowShape, FrameShape, Scope!SetConfig, Scope!Goto
<1>4. SettingShape'
  BY DEF ScopeInv, FlowTypes, FlowShape, FrameShape, SettingShape, Scope!HeldOnce, Scope!SetConfig, Scope!Goto
<1>5. Scope!HeldOnce'
  BY DEF ScopeInv, FlowTypes, FlowShape, Scope!HeldOnce, Scope!SetConfig, Scope!Goto
<1>6. Scope!OwnRowsOnly'
  BY DEF ScopeInv, FlowTypes, FlowShape, SettingShape, Scope!OwnRowsOnly, Scope!SetConfig, Scope!Goto
<1>7. QED
  BY <1>1, <1>2, <1>3, <1>4, <1>5, <1>6 DEF ScopeInv

(* What a statement sees is the setting, which is the request's gym or none. *)
LEMMA RunStatementStep == ASSUME ScopeInv, NEW f \in Changes, Scope!RunStatement(f) PROVE ScopeInv'
<1>1. FlowTypes'
  <2>1. frame' \in [Changes -> Gyms \cup {None}] /\ saw' \in [Changes -> SUBSET Gyms]
    <3> DEFINE setting == Scope!Setting(flow[f].on)
    <3>1. setting = None \/ setting \in Gyms
      <4>1. flow[f].on \in Connections /\ conn[flow[f].on] \in Holdings
        BY DEF ScopeInv, FlowTypes, FlowShape, Scope!RunStatement
      <4>2. QED
        BY <4>1 DEF Scope!Setting
    <3>2. frame' = frame
      BY DEF Scope!RunStatement
    <3>3. CASE flow[f].kind = "reference" \/ setting = None
      BY <3>2, <3>3 DEF Scope!RunStatement, ScopeInv, FlowTypes
    <3>4. CASE ~(flow[f].kind = "reference" \/ setting = None)
      <4>1. saw' = [saw EXCEPT ![f] = @ \cup {setting}]
        BY <3>4 DEF Scope!RunStatement
      <4> HIDE DEF setting
      <4>2. QED
        BY <3>1, <3>2, <3>4, <4>1 DEF ScopeInv, FlowTypes
    <3>5. QED
      BY <3>3, <3>4
  <2>2. conn' \in [Connections -> Holdings]
    BY DEF ScopeInv, FlowTypes, FlowShape, Scope!RunStatement, Scope!Goto, Scope!Setting
  <2>3. flow' \in [Changes -> Progress]
    <3> DEFINE done == [flow[f] EXCEPT !.at = "done"]
    <3>1. done \in Progress
      BY DEF ScopeInv, FlowTypes
    <3>2. flow' = flow \/ flow' = [flow EXCEPT ![f] = done]
      BY DEF Scope!RunStatement, Scope!Goto
    <3> HIDE DEF done, Progress
    <3> QED  BY <3>1, <3>2 DEF ScopeInv, FlowTypes
  <2>4. QED
    BY <2>1, <2>2, <2>3 DEF FlowTypes
<1>2. FlowShape'
  BY DEF ScopeInv, FlowTypes, FlowShape, Scope!HeldOnce, Scope!RunStatement, Scope!Goto, Scope!Setting
<1>3. FrameShape'
  BY DEF ScopeInv, FlowTypes, FlowShape, FrameShape, Scope!RunStatement, Scope!Goto, Scope!Setting
<1>4. SettingShape'
  <2>1. conn' = conn /\ frame' = frame
    BY DEF Scope!RunStatement
  <2>2. flow' = flow \/ flow' = [flow EXCEPT ![f].at = "done"]
    BY DEF Scope!RunStatement, Scope!Goto
  <2>3. flow[f].at = "run" /\ flow[f] \in Progress
    BY DEF Scope!RunStatement, ScopeInv, FlowTypes
  <2>4. \A c \in Connections : conn'[c].user = None => conn'[c].local = None
    BY <2>1 DEF ScopeInv, SettingShape
  <2>5. ASSUME NEW g \in Changes
        PROVE  /\ flow'[g].outer # None => conn'[flow'[g].outer].local = None
               /\ flow'[g].at = "scope" => conn'[flow'[g].on].local = None
               /\ flow'[g].at \in {"run", "done"} =>
                     conn'[flow'[g].on].local = IF Scope!Scoped(g)' THEN frame'[g] ELSE None
    <3> DEFINE done == [flow[f] EXCEPT !.at = "done"]
    <3>1. /\ flow'[g].outer = flow[g].outer /\ flow'[g].on = flow[g].on
          /\ flow'[g].kind = flow[g].kind
          /\ \/ flow'[g].at = flow[g].at
             \/ flow[g].at = "run" /\ flow'[g].at = "done"
      <4>1. CASE flow' = flow
        BY <4>1
      <4>2. CASE flow' = [flow EXCEPT ![f] = done]
        <5>1. flow'[g] = IF g = f THEN done ELSE flow[g]
          BY <4>2 DEF ScopeInv, FlowTypes
        <5>2. QED
          BY <5>1, <2>3
      <4>3. QED
        BY <2>2, <4>1, <4>2
    <3>2. QED
      BY <2>1, <3>1 DEF ScopeInv, SettingShape
  <2>6. QED
    BY <2>4, <2>5 DEF SettingShape
<1>5. Scope!HeldOnce'
  BY DEF ScopeInv, FlowTypes, FlowShape, Scope!HeldOnce, Scope!RunStatement, Scope!Goto, Scope!Setting
<1>6. Scope!OwnRowsOnly'
  BY DEF ScopeInv, FlowTypes, FlowShape, SettingShape, Scope!OwnRowsOnly, Scope!RunStatement, Scope!Goto, Scope!Setting
<1>7. QED
  BY <1>1, <1>2, <1>3, <1>4, <1>5, <1>6 DEF ScopeInv

(* The setting ends with the transaction. *)
LEMMA EndTransactionStep == ASSUME ScopeInv, NEW f \in Changes, Scope!EndTransaction(f) PROVE ScopeInv'
<1>1. FlowTypes'
  <2>1. frame' \in [Changes -> Gyms \cup {None}] /\ saw' \in [Changes -> SUBSET Gyms]
    BY DEF ScopeInv, FlowTypes, FlowShape, Scope!EndTransaction
  <2>2. conn' \in [Connections -> Holdings]
    <3> DEFINE held == flow[f].on
               freed == [conn[held] EXCEPT !.user = None, !.local = None]
    <3>1. held \in Connections /\ conn[held] \in Holdings
      BY DEF ScopeInv, FlowTypes, FlowShape, Scope!EndTransaction
    <3>2. freed \in Holdings
      BY <3>1
    <3>3. conn' = [conn EXCEPT ![held] = freed] /\ conn \in [Connections -> Holdings]
      BY <3>1 DEF Scope!EndTransaction, ScopeInv, FlowTypes
    <3> HIDE DEF held, freed, Holdings
    <3> QED  BY <3>1, <3>2, <3>3
  <2>3. flow' \in [Changes -> Progress]
    <3> DEFINE back == [flow[f] EXCEPT !.on = None, !.at = "inside"]
    <3>1. Scope!Idle \in Progress /\ back \in Progress
      BY ZenonT(30) DEF ScopeInv, FlowTypes
    <3>2. flow' = [flow EXCEPT ![f] = Scope!Idle] \/ flow' = [flow EXCEPT ![f] = back]
      BY DEF Scope!EndTransaction
    <3> HIDE DEF back, Progress, Scope!Idle
    <3> QED  BY <3>1, <3>2 DEF ScopeInv, FlowTypes
  <2>4. QED
    BY <2>1, <2>2, <2>3 DEF FlowTypes
<1>2. FlowShape'
  BY DEF ScopeInv, FlowTypes, FlowShape, Scope!HeldOnce, Scope!EndTransaction
<1>3. FrameShape'
  BY DEF ScopeInv, FlowTypes, FlowShape, FrameShape, Scope!EndTransaction
<1>4. SettingShape'
  BY DEF ScopeInv, FlowTypes, FlowShape, FrameShape, SettingShape, Scope!HeldOnce, Scope!EndTransaction
<1>5. Scope!HeldOnce'
  BY DEF ScopeInv, FlowTypes, FlowShape, Scope!HeldOnce, Scope!EndTransaction
<1>6. Scope!OwnRowsOnly'
  BY DEF ScopeInv, FlowTypes, FlowShape, SettingShape, Scope!OwnRowsOnly, Scope!EndTransaction
<1>7. QED
  BY <1>1, <1>2, <1>3, <1>4, <1>5, <1>6 DEF ScopeInv

(* The outer connection has no setting. *)
LEMMA EndBareStep == ASSUME ScopeInv, NEW f \in Changes, Scope!EndBare(f) PROVE ScopeInv'
<1>1. FlowTypes'
  <2>1. frame' \in [Changes -> Gyms \cup {None}] /\ saw' \in [Changes -> SUBSET Gyms]
    BY DEF ScopeInv, FlowTypes, FlowShape, Scope!EndBare
  <2>2. conn' \in [Connections -> Holdings]
    <3> DEFINE held == flow[f].outer
               freed == [conn[held] EXCEPT !.user = None]
    <3>1. held \in Connections /\ conn[held] \in Holdings
      BY DEF ScopeInv, FlowTypes, FlowShape, Scope!EndBare
    <3>2. freed \in Holdings
      BY <3>1
    <3>3. conn' = [conn EXCEPT ![held] = freed] /\ conn \in [Connections -> Holdings]
      BY <3>1 DEF Scope!EndBare, ScopeInv, FlowTypes
    <3> HIDE DEF held, freed, Holdings
    <3> QED  BY <3>1, <3>2, <3>3
  <2>3. flow' \in [Changes -> Progress]
    BY DEF ScopeInv, FlowTypes, FlowShape, Scope!EndBare
  <2>4. QED
    BY <2>1, <2>2, <2>3 DEF FlowTypes
<1>2. FlowShape'
  BY DEF ScopeInv, FlowTypes, FlowShape, Scope!HeldOnce, Scope!EndBare
<1>3. FrameShape'
  BY DEF ScopeInv, FlowTypes, FlowShape, FrameShape, Scope!EndBare
<1>4. SettingShape'
  BY DEF ScopeInv, FlowTypes, FlowShape, FrameShape, SettingShape, Scope!HeldOnce, Scope!EndBare
<1>5. Scope!HeldOnce'
  BY DEF ScopeInv, FlowTypes, FlowShape, Scope!HeldOnce, Scope!EndBare
<1>6. Scope!OwnRowsOnly'
  BY DEF ScopeInv, FlowTypes, FlowShape, SettingShape, Scope!OwnRowsOnly, Scope!EndBare
<1>7. QED
  BY <1>1, <1>2, <1>3, <1>4, <1>5, <1>6 DEF ScopeInv

(* Every step of every flow. *)
LEMMA ScopeStep == ASSUME ScopeInv, [Scope!Next]_scopeVars PROVE ScopeInv'
<1>1. CASE UNCHANGED scopeVars
  BY <1>1 DEF scopeVars, ScopeInv, FlowTypes, FlowShape, FrameShape, SettingShape, Scope!HeldOnce, Scope!OwnRowsOnly
<1>2. ASSUME NEW f \in Changes, Scope!Step(f) PROVE ScopeInv'
  BY <1>2, ArriveStep, BeginStep, TakeStep, GiveUpStep, BeginInnerStep, SetConfigStep,
     RunStatementStep, EndTransactionStep, EndBareStep DEF Scope!Step
<1>3. QED
  BY <1>1, <1>2 DEF Scope!Next

(* What the invariant says of the connections is what the run checks. *)
LEMMA ScopeInvHolds == ASSUME ScopeInv PROVE Scope!ScopeHolds
<1>1. Scope!ComesBackClean
  BY DEF ScopeInv, FlowTypes, SettingShape, Scope!ComesBackClean, Scope!Setting
<1>2. Scope!ScopedRunsScoped
  BY DEF ScopeInv, FlowTypes, FlowShape, FrameShape, SettingShape, Scope!HeldOnce,
         Scope!ScopedRunsScoped
<1>3. QED
  BY <1>1, <1>2 DEF ScopeInv, Scope!ScopeHolds

(* Where no request is followed, none has a frame.                          *)
LEMMA NoFramesAtRest == NoFrames => Scope!Init
BY DEF NoFrames, Scope!Init

(* A step of any scene is one of the scope, or leaves it alone. *)
LEMMA RunOfScope == [MCNext]_allVars => [Scope!Next]_scopeVars
BY DEF MCNext, allVars, scopeVars

(* However many requests of however many gyms share however many           *)
(* connections, each statement works on the rows of its request's gym, and *)
(* nothing of it stays on the connection (tenant-scoped-client.ts).        *)
THEOREM ScopeAlwaysHolds == MCSpec => []ScopeHolds
<1>1. MCInit => ScopeInv
  BY ScopeInit, NoFramesAtRest DEF MCInit
<1>2. ScopeInv /\ [MCNext]_allVars => ScopeInv'
  BY RunOfScope, ScopeStep
<1>3. ScopeInv => ScopeHolds
  BY ScopeInvHolds DEF ScopeHolds
<1>4. QED
  BY <1>1, <1>2, <1>3, PTL DEF MCSpec

-----------------------------------------------------------------------------
(* The audit log (AuditTrail).  An elevation is known to be of one who has *)
(* no gym of his own from before it opens (ElevatedMay); the handler that  *)
(* runs performs what was asked of the gym of its token (HandlesItsGym).   *)

AuditRequests == [token : Audit!Tokens, elevated : BOOLEAN]
AuditWork == [at : {"idle", "in", "recorded", "handling"}, key : RequestKeys \cup {None},
              does : Audit!Mutations \cup {Audit!NoMutation}]

AuditTypes ==
    /\ request \in [Changes -> AuditRequests]
    /\ work \in [Changes -> AuditWork]
    /\ appending \in [Audit!Mutations -> Nat] /\ rows \in [Audit!Mutations -> Nat]
    /\ happened \in [Audit!Mutations -> Nat]

ElevatedMay ==
    \A f \in Changes :
        request[f].elevated \/ work[f].at = "recorded" =>
            request[f].token.kind \in {"staff", "job"} /\ request[f].token.gym = None

HandlesItsGym ==
    \A f \in Changes :
        work[f].at = "handling" =>
            work[f].does \in Audit!Mutations /\ work[f].does.gym = request[f].token.gym

AuditInv == AuditTypes /\ ElevatedMay /\ HandlesItsGym /\ Audit!TrailIsTrue

(* What a token may be of. *)
LEMMA TokensOfAudit ==
    ASSUME NEW t \in Audit!Tokens
    PROVE  /\ t.kind \in {"gym", "staff", "borrowed", "job"} /\ t.gym \in Gyms \cup {None}
           /\ t.gym = None <=> t.kind # "gym"
BY DEF Audit!Tokens

(* A request that has come, or is answered, or whose elevation ends or     *)
(* opens: the log is not touched.                                          *)
LogStands == UNCHANGED <<appending, rows, happened, crossed>>

LEMMA LogStandsKeeps ==
    ASSUME AuditInv, LogStands, NEW f \in Changes,
           NEW r \in AuditRequests, NEW w \in AuditWork,
           request' = [request EXCEPT ![f] = r], work' = [work EXCEPT ![f] = w],
           r.elevated \/ w.at = "recorded" => r.token.kind \in {"staff", "job"} /\ r.token.gym = None,
           w.at = "handling" => w.does \in Audit!Mutations /\ w.does.gym = r.token.gym
    PROVE  AuditInv'
<1>1. AuditTypes'
  BY DEF AuditInv, AuditTypes, LogStands
<1>2. ElevatedMay'
  BY DEF AuditInv, AuditTypes, ElevatedMay
<1>3. HandlesItsGym'
  BY DEF AuditInv, AuditTypes, HandlesItsGym
<1>4. Audit!TrailIsTrue'
  BY DEF AuditInv, LogStands, Audit!TrailIsTrue, Audit!OnlyTheElevatedCross, Audit!RowsAreEvents
<1>5. QED
  BY <1>1, <1>2, <1>3, <1>4 DEF AuditInv

(* A step that names one request may be read as one that writes its own. *)
LEMMA AuditKnown ==
    ASSUME AuditInv, NEW f \in Changes
    PROVE  /\ request[f] \in AuditRequests /\ work[f] \in AuditWork
           /\ request = [request EXCEPT ![f] = request[f]]
           /\ work = [work EXCEPT ![f] = work[f]]
           /\ Audit!Nothing \in AuditWork
BY DEF AuditInv, AuditTypes, AuditRequests, AuditWork, Audit!Nothing

(* A request comes with no elevation. *)
LEMMA AuditArriveStep == ASSUME AuditInv, NEW f \in Changes, Audit!Arrive(f) PROVE AuditInv'
<1>1. PICK t \in Audit!Tokens :
         request' = [request EXCEPT ![f] = [token |-> t, elevated |-> FALSE]]
  BY DEF Audit!Arrive
<1> DEFINE w == [work[f] EXCEPT !.at = "in"]
<1>2. w \in AuditWork /\ w.at = "in" /\ work' = [work EXCEPT ![f] = w]
  BY AuditKnown DEF Audit!Arrive, Audit!Goto, AuditWork
<1> HIDE DEF w
<1>3. LogStands
  BY DEF Audit!Arrive, LogStands
<1>4. QED
  BY <1>1, <1>2, <1>3, LogStandsKeeps DEF AuditWork, AuditRequests

(* A request is answered out of its stage of rest. *)
LEMMA AuditAnswerStep == ASSUME AuditInv, NEW f \in Changes, Audit!Answer(f) PROVE AuditInv'
<1>1. /\ request' = [request EXCEPT ![f] = request[f]]
      /\ work' = [work EXCEPT ![f] = Audit!Nothing] /\ LogStands
  BY AuditKnown DEF Audit!Answer, LogStands
<1>2. Audit!Nothing.at = "idle"
  BY DEF Audit!Nothing
<1>3. request[f].elevated => request[f].token.kind \in {"staff", "job"} /\ request[f].token.gym = None
  BY DEF AuditInv, ElevatedMay
<1>4. QED
  BY <1>1, <1>2, <1>3, AuditKnown, LogStandsKeeps DEF AuditWork, AuditRequests

(* Who may elevate himself is of the staff, or a job. *)
LEMMA AuditElevateStep == ASSUME AuditInv, NEW f \in Changes, Audit!Elevate(f) PROVE AuditInv'
<1> DEFINE w == [work[f] EXCEPT !.at = "recorded"]
<1>1. w \in AuditWork /\ w.at = "recorded" /\ work' = [work EXCEPT ![f] = w]
  BY AuditKnown DEF Audit!Elevate, Audit!Goto, AuditWork
<1> HIDE DEF w
<1>2. request' = [request EXCEPT ![f] = request[f]] /\ LogStands
  BY AuditKnown DEF Audit!Elevate, LogStands
<1>3. request[f].token.kind \in {"staff", "job"} /\ request[f].token.gym = None
  BY AuditKnown, TokensOfAudit
     DEF Audit!Elevate, Audit!MayElevate, Audit!Frame, Audit!Borrowed, Audit!Token, AuditRequests
<1>4. QED
  BY <1>1, <1>2, <1>3, AuditKnown, LogStandsKeeps DEF AuditWork, AuditRequests

(* The elevation that opens is the one that was judged. *)
LEMMA AuditOpenStep ==
    ASSUME AuditInv, NEW f \in Changes, Audit!OpenElevation(f) PROVE AuditInv'
<1> DEFINE w == [work[f] EXCEPT !.at = "in"]
           r == [request[f] EXCEPT !.elevated = TRUE]
<1>1. w \in AuditWork /\ w.at = "in" /\ work' = [work EXCEPT ![f] = w]
  BY AuditKnown DEF Audit!OpenElevation, Audit!Goto, AuditWork
<1>2. r \in AuditRequests /\ r.token = request[f].token /\ request' = [request EXCEPT ![f] = r]
  BY AuditKnown DEF Audit!OpenElevation, AuditRequests
<1> HIDE DEF w, r
<1>3. LogStands
  BY DEF Audit!OpenElevation, LogStands
<1>4. request[f].token.kind \in {"staff", "job"} /\ request[f].token.gym = None
  BY DEF AuditInv, ElevatedMay, Audit!OpenElevation
<1>5. QED
  BY <1>1, <1>2, <1>3, <1>4, LogStandsKeeps DEF AuditWork, AuditRequests

(* An elevation that closes leaves nothing behind. *)
LEMMA AuditCloseStep ==
    ASSUME AuditInv, NEW f \in Changes, Audit!CloseElevation(f) PROVE AuditInv'
<1> DEFINE r == [request[f] EXCEPT !.elevated = FALSE]
<1>1. r \in AuditRequests /\ ~r.elevated /\ request' = [request EXCEPT ![f] = r]
  BY AuditKnown DEF Audit!CloseElevation, AuditRequests
<1> HIDE DEF r
<1>2. work' = [work EXCEPT ![f] = work[f]] /\ LogStands /\ work[f].at = "in"
  BY AuditKnown DEF Audit!CloseElevation, LogStands
<1>3. QED
  BY <1>1, <1>2, AuditKnown, LogStandsKeeps DEF AuditWork, AuditRequests

(* Only the elevated cross. *)
LEMMA AuditReadStep == ASSUME AuditInv, NEW f \in Changes, Audit!ReadAcross(f) PROVE AuditInv'
<1>1. UNCHANGED <<request, work, appending, rows, happened>>
  BY DEF Audit!ReadAcross
<1>2. AuditTypes' /\ ElevatedMay' /\ HandlesItsGym'
  BY <1>1 DEF AuditInv, AuditTypes, ElevatedMay, HandlesItsGym
<1>3. request[f].token.kind \in {"staff", "job"}
  BY DEF AuditInv, ElevatedMay, Audit!ReadAcross, Audit!Elevation
<1>4. Audit!OnlyTheElevatedCross'
  BY <1>3 DEF AuditInv, Audit!TrailIsTrue, Audit!OnlyTheElevatedCross, Audit!ReadAcross, Audit!Token
<1>5. Audit!RowsAreEvents'
  BY <1>1 DEF AuditInv, Audit!TrailIsTrue, Audit!RowsAreEvents
<1>6. QED
  BY <1>2, <1>4, <1>5 DEF AuditInv, Audit!TrailIsTrue

(* A claim is of the gym of the token, which then is not elevated. *)
LEMMA AuditClaimStep ==
    ASSUME AuditInv, NEW f \in Changes, NEW key \in RequestKeys,
           NEW action \in {"CREATE", "UPDATE"}, Audit!Claim(f, key, action)
    PROVE  AuditInv'
<1> DEFINE gym == request[f].token.gym
           does == [action |-> action, gym |-> gym]
           w == [at |-> "handling", key |-> key, does |-> does]
<1>1. gym \in Gyms
  BY AuditKnown, TokensOfAudit DEF Audit!Claim, Audit!Frame, Audit!Token, AuditRequests
<1>2. does \in Audit!Mutations /\ does.gym = gym
  BY <1>1 DEF Audit!Mutations
<1>3. work' = [work EXCEPT ![f] = w]
  BY DEF Audit!Claim, Audit!Frame, Audit!Token
<1>4. w \in AuditWork /\ w.at = "handling" /\ w.does = does
  BY <1>2 DEF AuditWork
<1>5. gym # None
  BY DEF Audit!Claim, Audit!Frame, Audit!Token
<1> HIDE DEF w, does
<1>6. request' = [request EXCEPT ![f] = request[f]] /\ LogStands
  BY AuditKnown DEF Audit!Claim, LogStands
<1>7. ~request[f].elevated
  BY <1>5 DEF AuditInv, ElevatedMay
<1>8. QED
  BY <1>2, <1>3, <1>4, <1>6, <1>7, AuditKnown, LogStandsKeeps DEF AuditWork, AuditRequests

(* A replay answers from the store, and writes no row. *)
LEMMA AuditReplayStep ==
    ASSUME AuditInv, NEW f \in Changes, NEW key \in RequestKeys,
           NEW action \in {"CREATE", "UPDATE"}, Audit!Replay(f, key, action)
    PROVE  AuditInv'
<1>1. /\ request' = [request EXCEPT ![f] = request[f]]
      /\ work' = [work EXCEPT ![f] = Audit!Nothing] /\ LogStands
  BY AuditKnown DEF Audit!Replay, LogStands
<1>2. Audit!Nothing.at = "idle"
  BY DEF Audit!Nothing
<1>3. request[f].elevated => request[f].token.kind \in {"staff", "job"} /\ request[f].token.gym = None
  BY DEF AuditInv, ElevatedMay
<1>4. QED
  BY <1>1, <1>2, <1>3, AuditKnown, LogStandsKeeps DEF AuditWork, AuditRequests

(* A mutation put into the gym it is of is itself. *)
LEMMA SameGymSameMutation ==
    ASSUME NEW m \in Audit!Mutations
    PROVE  [m EXCEPT !.gym = m.gym] = m
BY DEF Audit!Mutations

(* The handler: what took effect is appended once, in its gym. *)
LEMMA AuditHandleStep == ASSUME AuditInv, NEW f \in Changes, Audit!Handle(f) PROVE AuditInv'
<1> DEFINE does == work[f].does
<1>1. does \in Audit!Mutations /\ [does EXCEPT !.gym = Audit!Frame(f)] = does
  BY SameGymSameMutation
     DEF AuditInv, HandlesItsGym, Audit!Handle, Audit!Frame, Audit!Token
<1>2. work' = [work EXCEPT ![f] = Audit!Nothing] /\ UNCHANGED <<request, rows, crossed>>
  BY DEF Audit!Handle
<1>3. \/ /\ happened' = [happened EXCEPT ![does] = @ + 1]
         /\ appending' = [appending EXCEPT ![does] = @ + 1]
      \/ UNCHANGED <<happened, appending>>
  BY <1>1 DEF Audit!Handle
<1> HIDE DEF does
<1>4. AuditTypes'
  BY <1>1, <1>2, <1>3, AuditKnown DEF AuditInv, AuditTypes
<1>5. ElevatedMay' /\ HandlesItsGym'
  BY <1>2 DEF AuditInv, AuditTypes, ElevatedMay, HandlesItsGym, Audit!Nothing
<1>6. Audit!RowsAreEvents'
  BY <1>1, <1>2, <1>3 DEF AuditInv, AuditTypes, Audit!TrailIsTrue, Audit!RowsAreEvents
<1>7. Audit!OnlyTheElevatedCross'
  BY <1>2 DEF AuditInv, Audit!TrailIsTrue, Audit!OnlyTheElevatedCross
<1>8. QED
  BY <1>4, <1>5, <1>6, <1>7 DEF AuditInv, Audit!TrailIsTrue

(* An insert that was begun becomes a row or is lost. *)
LEMMA AuditWriteStep ==
    ASSUME AuditInv, NEW m \in Audit!Mutations, Audit!Write(m) PROVE AuditInv'
<1>1. UNCHANGED <<request, work, happened, crossed>>
  BY DEF Audit!Write
<1>2. /\ appending[m] > 0 /\ appending' = [appending EXCEPT ![m] = @ - 1]
      /\ rows' = [rows EXCEPT ![m] = @ + 1] \/ rows' = rows
  BY DEF Audit!Write
<1>3. AuditTypes'
  BY <1>1, <1>2 DEF AuditInv, AuditTypes
<1>4. ElevatedMay' /\ HandlesItsGym'
  BY <1>1 DEF AuditInv, ElevatedMay, HandlesItsGym
<1>5. Audit!RowsAreEvents'
  BY <1>1, <1>2 DEF AuditInv, AuditTypes, Audit!TrailIsTrue, Audit!RowsAreEvents
<1>6. Audit!OnlyTheElevatedCross'
  BY <1>1 DEF AuditInv, Audit!TrailIsTrue, Audit!OnlyTheElevatedCross
<1>7. QED
  BY <1>3, <1>4, <1>5, <1>6 DEF AuditInv, Audit!TrailIsTrue

(* A death loses what was begun and adds nothing. *)
LEMMA AuditDieStep == ASSUME AuditInv, Audit!Die PROVE AuditInv'
<1>1. /\ UNCHANGED <<rows, happened, crossed>> /\ work' = [f \in Changes |-> Audit!Nothing]
      /\ appending' = Audit!Zero
      /\ request' = [f \in Changes |-> [request[f] EXCEPT !.elevated = FALSE]]
  BY DEF Audit!Die
<1>2. \A f \in Changes : [request[f] EXCEPT !.elevated = FALSE] \in AuditRequests
  BY AuditKnown DEF AuditRequests
<1>3. AuditTypes'
  BY <1>1, <1>2 DEF AuditInv, AuditTypes, AuditWork, Audit!Nothing, Audit!Zero
<1>4. \A f \in Changes : ~request'[f].elevated /\ work'[f].at = "idle"
  BY <1>1, AuditKnown DEF Audit!Nothing, AuditRequests
<1>5. ElevatedMay' /\ HandlesItsGym'
  BY <1>4 DEF ElevatedMay, HandlesItsGym
<1>6. Audit!RowsAreEvents'
  BY <1>1 DEF AuditInv, AuditTypes, Audit!TrailIsTrue, Audit!RowsAreEvents, Audit!Zero
<1>7. Audit!OnlyTheElevatedCross'
  BY <1>1 DEF AuditInv, Audit!TrailIsTrue, Audit!OnlyTheElevatedCross
<1>8. QED
  BY <1>3, <1>5, <1>6, <1>7 DEF AuditInv, Audit!TrailIsTrue

(* Nothing has happened and nothing is on the log. *)
LEMMA AuditInit == ASSUME Audit!Init PROVE AuditInv
<1>1. Audit!NoRequest \in AuditRequests
  BY DEF Audit!NoRequest, AuditRequests, Audit!Tokens
<1>2. AuditTypes
  BY <1>1 DEF Audit!Init, AuditTypes, AuditWork, Audit!Nothing, Audit!Zero
<1>3. ElevatedMay /\ HandlesItsGym
  BY DEF Audit!Init, ElevatedMay, HandlesItsGym, Audit!Nothing, Audit!NoRequest
<1>4. Audit!TrailIsTrue
  BY DEF Audit!Init, Audit!TrailIsTrue, Audit!OnlyTheElevatedCross, Audit!RowsAreEvents, Audit!Zero
<1>5. QED
  BY <1>2, <1>3, <1>4 DEF AuditInv

(* Every step of every request, the writes of the log and the death of a process. *)
LEMMA AuditStep == ASSUME AuditInv, [Audit!Next]_auditVars PROVE AuditInv'
<1>1. ASSUME UNCHANGED auditVars PROVE AuditInv'
  BY <1>1 DEF auditVars, AuditInv, AuditTypes, ElevatedMay, HandlesItsGym,
              Audit!TrailIsTrue, Audit!OnlyTheElevatedCross, Audit!RowsAreEvents
<1>2. ASSUME NEW f \in Changes, Audit!Step(f) PROVE AuditInv'
  BY <1>2, AuditArriveStep, AuditAnswerStep, AuditElevateStep, AuditOpenStep, AuditCloseStep,
     AuditReadStep, AuditClaimStep, AuditReplayStep, AuditHandleStep DEF Audit!Step
<1>3. QED
  BY <1>1, <1>2, AuditWriteStep, AuditDieStep DEF Audit!Next

(* A step of any scene is one of the audit log, or leaves it alone. *)
LEMMA RunOfAudit == [MCNext]_allVars => [Audit!Next]_auditVars
BY DEF MCNext, allVars, auditVars

(* A row of the log names what took effect, once and in its gym, and nobody *)
(* reads across gyms who may not (audit.interceptor.ts,                     *)
(* platform-elevation.ts).                                                  *)
THEOREM TrailIsAlwaysTrue == MCSpec => []TrailIsTrue
<1>1. MCInit => AuditInv
  BY AuditInit DEF MCInit
<1>2. AuditInv /\ [MCNext]_allVars => AuditInv'
  BY RunOfAudit, AuditStep
<1>3. AuditInv => TrailIsTrue
  BY DEF AuditInv, TrailIsTrue
<1>4. QED
  BY <1>1, <1>2, <1>3, PTL DEF MCSpec

-----------------------------------------------------------------------------
(* The gate (Gate).  What the request has by then is the token's, and was  *)
(* so when it arrived: whoever verifies later verified then, since time    *)
(* does not go back.                                                       *)

GateStages == {"sent", "framed", "jwt", "denylist", "cap", "guards", "handler", "refused"}

ActingFor(t) == [agent |-> t.agent, since |-> t.begun]

\* AccessTokenVerifier.verify, at the instant w.
VerifiesAt(t, w) ==
    /\ t # None
    /\ t.sound /\ t.exp > w
    /\ t.typ \in {"ACCESS", "IMPERSONATION"}
    /\ t.typ = "IMPERSONATION" =>
          t.agent # None /\ t.agentClaims # {} /\ t.begun # None /\ t.begun <= t.issued

Frames == {t.gym : t \in Door!Tokens} \cup {None}
Actings == {ActingFor(t) : t \in Door!Tokens} \cup {None}
Gates == [token : Door!Tokens \cup {None}, route : Door!Routes, naming : BOOLEAN,
          at : GateStages, principal : Door!Tokens \cup {None}, frame : Frames,
          acting : Actings, arrived : Nat, known : BOOLEAN, verdict : Door!Verdicts \cup {None}]

GateTypes ==
    /\ wall \in Nat /\ revoked \in BOOLEAN
    /\ gate \in Gates
    /\ gate.arrived <= wall /\ (gate.known => revoked)

\* The frame of an impersonation is the token's, if the token was in order at arrival.
ActingIsTheTokens ==
    gate.at # "sent" =>
        gate.acting = IF VerifiesAt(gate.token, gate.arrived) /\ gate.token.typ = "IMPERSONATION"
                      THEN ActingFor(gate.token) ELSE None

\* A principal is the token's, with its frame; who has none could have none now.
PrincipalIsTheTokens ==
    /\ gate.principal # None =>
          /\ gate.principal = gate.token /\ VerifiesAt(gate.token, gate.arrived)
          /\ gate.frame = gate.token.gym
    /\ gate.at \in {"sent", "framed"} => gate.principal = None
    /\ gate.at \in {"jwt", "denylist", "cap", "guards", "handler"} =>
          ~gate.naming /\ (gate.principal = None => ~VerifiesAt(gate.token, wall))

\* What each guard has established by the next.
GuardsEstablish ==
    /\ ~gate.route.public /\ gate.at \in {"denylist", "cap", "guards", "handler"} =>
          gate.principal # None
    /\ gate.at \in {"denylist", "cap"} => ~gate.route.public
    /\ ~gate.route.public /\ gate.at \in {"cap", "guards", "handler"} => ~gate.known
    /\ ~gate.route.public /\ gate.at \in {"guards", "handler"}
          /\ gate.principal.typ = "IMPERSONATION" => gate.arrived < gate.principal.begun + MaxMinutes
    /\ gate.at = "handler" =>
          /\ ~gate.route.public => Door!Permitted(gate.principal, gate.route.permission)
          /\ gate.route.platformOnly =>
                gate.principal # None /\ Door!HoldsPlatformRole(gate.principal.claims)
          /\ gate.principal # None /\ gate.principal.typ = "IMPERSONATION" => ~gate.route.financial

VerdictsSayWhy ==
    /\ gate.at # "refused" => gate.verdict = None
    /\ gate.verdict = "IMPERSONATION_FINANCIAL_MUTATION_REFUSED" =>
          Door!Permitted(gate.principal, gate.route.permission)
    /\ gate.verdict \in {"PERMISSION_DENIED", "TENANT_CONTEXT_MISSING"} => gate.principal # None
    /\ gate.verdict = "TENANT_CONTEXT_MISSING" => gate.token.gym = None

GateInv ==
    GateTypes /\ ActingIsTheTokens /\ PrincipalIsTheTokens /\ GuardsEstablish /\ VerdictsSayWhy

(* What GateAssumption says of the constants. *)
LEMMA GateConstants ==
    MaxMinutes \in Nat /\ MaxWall \in Nat /\ None \notin Door!Verdicts
BY GateIsGiven DEF Door!GateAssumption

(* The tokens, as far as the gate looks into them. *)
TokenFields == {"typ", "sound", "claims", "gym", "exp", "agent", "agentClaims", "begun", "issued"}

(* A token the signer made: a borrowed one claims no role of the platform. *)
LEMMA SignedTokens ==
    ASSUME NEW t \in Door!Signed
    PROVE  /\ t.typ \in {"ACCESS", "IMPERSONATION"} /\ t.exp \in Nat
           /\ t.begun = 0 /\ t.issued = 0 /\ DOMAIN t = TokenFields
           /\ t.typ = "IMPERSONATION" => \A claim \in t.claims : claim.at # "platform"
<1>1. ASSUME NEW claims, NEW gym, NEW exp \in Nat, t = Door!Access(claims, gym, exp)
      PROVE  /\ t.typ = "ACCESS" /\ t.exp \in Nat
             /\ t.begun = 0 /\ t.issued = 0 /\ DOMAIN t = TokenFields
  BY <1>1 DEF Door!Access, TokenFields
<1>2. ASSUME NEW gym, NEW exp \in Nat,
             t = Door!Borrowed({Door!Claim("USER", "self", None)}, gym, exp)
      PROVE  /\ t.typ = "IMPERSONATION" /\ t.exp \in Nat
             /\ t.begun = 0 /\ t.issued = 0 /\ DOMAIN t = TokenFields
             /\ \A claim \in t.claims : claim.at # "platform"
  <2>1. \A claim \in {Door!Claim("USER", "self", None)} : claim.at # "platform"
    BY DEF Door!Claim
  <2>2. QED
    BY <1>2, <2>1 DEF Door!Access, Door!Borrowed, TokenFields
<1>3. \/ \E claims, gym : \E exp \in {1, 2, 3} : t = Door!Access(claims, gym, exp)
      \/ \E gym : \E exp \in {1, 3} :
            t = Door!Borrowed({Door!Claim("USER", "self", None)}, gym, exp)
  BY DEF Door!Signed
<1>4. QED
  BY <1>1, <1>2, <1>3

(* A token that verifies is one that was signed: each defect shows. *)
LEMMA SpoiledShow ==
    ASSUME NEW good \in Door!Signed, NEW t \in Door!Spoiled(good), NEW w
    PROVE  ~VerifiesAt(t, w) /\ t.exp \in Nat
<1>1. DOMAIN good = TokenFields /\ good.exp \in Nat /\ good.issued = 0 /\ good.begun = 0
  BY SignedTokens
<1>2. CASE t = [good EXCEPT !.sound = FALSE]
  BY <1>1, <1>2 DEF VerifiesAt, TokenFields
<1>3. CASE t = [good EXCEPT !.typ = "REFRESH"]
  BY <1>1, <1>3 DEF VerifiesAt, TokenFields
<1>4. CASE good.typ = "IMPERSONATION" /\ t = [good EXCEPT !.agent = None]
  BY <1>1, <1>4 DEF VerifiesAt, TokenFields
<1>5. CASE good.typ = "IMPERSONATION" /\ t = [good EXCEPT !.agentClaims = {}]
  BY <1>1, <1>5 DEF VerifiesAt, TokenFields
<1>6. CASE good.typ = "IMPERSONATION" /\ t = [good EXCEPT !.begun = None]
  BY <1>1, <1>6 DEF VerifiesAt, TokenFields
<1>7. CASE good.typ = "IMPERSONATION" /\ t = [good EXCEPT !.begun = good.issued + 1]
  BY <1>1, <1>7 DEF VerifiesAt, TokenFields
<1>8. QED
  BY <1>2, <1>3, <1>4, <1>5, <1>6, <1>7 DEF Door!Spoiled

(* A token that verifies is one the signer made: what is spoiled shows. *)
LEMMA VerifiedTokens ==
    ASSUME NEW t \in Door!Tokens, NEW w, VerifiesAt(t, w)
    PROVE  t \in Door!Signed
BY SpoiledShow DEF Door!Tokens

(* A token expires at some time. *)
LEMMA TokensExpire ==
    ASSUME NEW t \in Door!Tokens
    PROVE  t.exp \in Nat
BY SpoiledShow, SignedTokens DEF Door!Tokens

(* Who verifies now verified before. *)
LEMMA VerifiedBefore ==
    ASSUME NEW t \in Door!Tokens \cup {None}, NEW early \in Nat, NEW late \in Nat,
           early <= late, VerifiesAt(t, late)
    PROVE  VerifiesAt(t, early)
BY TokensExpire DEF VerifiesAt

(* The fields of a route. *)
LEMMA RoutesOfTheGate ==
    ASSUME NEW route \in Door!Routes
    PROVE  /\ route.public \in BOOLEAN
           /\ route.public => ~route.tenantScoped /\ ~route.platformOnly /\ ~route.financial
<1>1. \A permission : /\ Door!Route(permission).public = FALSE
                      /\ Door!Route(permission).tenantScoped = FALSE
                      /\ Door!Route(permission).platformOnly = FALSE
                      /\ Door!Route(permission).financial = FALSE
                      /\ DOMAIN Door!Route(permission) =
                            {"public", "tenantScoped", "platformOnly", "financial", "permission"}
  BY DEF Door!Route
<1>2. QED
  BY <1>1 DEF Door!Routes

(* A request is sent, and nothing is known of it. *)
LEMMA GateInit == ASSUME Door!Init PROVE GateInv
<1>1. PICK carried \in Door!Tokens \cup {None}, route \in Door!Routes, naming \in BOOLEAN :
         gate = [token |-> carried, route |-> route, naming |-> naming, at |-> "sent",
                 principal |-> None, frame |-> None, acting |-> None,
                 arrived |-> 0, known |-> FALSE, verdict |-> None]
  BY DEF Door!Init
<1>2. GateTypes
  <2>1. None \in Frames /\ None \in Actings
    BY DEF Frames, Actings
  <2>2. gate \in Gates
    BY <1>1, <2>1 DEF Gates, GateStages
  <2>3. wall \in Nat /\ gate.arrived <= wall
    BY <1>1 DEF Door!Init
  <2>4. revoked \in BOOLEAN
    BY DEF Door!Init
  <2>5. ~gate.known
    BY <1>1
  <2>6. QED
    BY <2>2, <2>3, <2>4, <2>5 DEF GateTypes
<1>3. ActingIsTheTokens /\ PrincipalIsTheTokens /\ GuardsEstablish
  BY <1>1 DEF ActingIsTheTokens, PrincipalIsTheTokens, GuardsEstablish
<1>4. VerdictsSayWhy
  BY <1>1, GateConstants DEF VerdictsSayWhy, Door!Verdicts
<1>5. QED
  BY <1>2, <1>3, <1>4 DEF GateInv

(* The middleware of the impersonation sets what is known on arrival. *)
LEMMA OpenImpersonationStep == ASSUME GateInv, Door!OpenImpersonation PROVE GateInv'
<1> DEFINE acting == IF VerifiesAt(gate.token, wall) /\ gate.token.typ = "IMPERSONATION"
                     THEN ActingFor(gate.token) ELSE None
<1>1. /\ gate' = [gate EXCEPT !.at = "framed", !.arrived = wall, !.known = revoked,
                              !.acting = acting]
      /\ gate.at = "sent" /\ UNCHANGED <<wall, revoked>>
  BY DEF Door!OpenImpersonation, Door!At, Door!Goto, Door!Verifies, VerifiesAt, ActingFor
<1>2. acting \in Actings
  BY DEF GateInv, GateTypes, Gates, Actings, VerifiesAt
<1>a. acting = IF VerifiesAt(gate.token, wall) /\ gate.token.typ = "IMPERSONATION"
               THEN ActingFor(gate.token) ELSE None
  OBVIOUS
<1> HIDE DEF acting
<1>3. GateTypes'
  <2>1. gate \in Gates /\ wall \in Nat /\ revoked \in BOOLEAN
    BY DEF GateInv, GateTypes
  <2>2. gate' \in Gates
    BY <1>1, <1>2, <2>1 DEF Gates, GateStages
  <2>3. gate'.arrived = wall /\ gate'.known = revoked
    BY <1>1, <2>1 DEF Gates
  <2>4. QED
    BY <1>1, <2>1, <2>2, <2>3 DEF GateTypes
<1>4. ActingIsTheTokens'
  BY <1>1, <1>a DEF GateInv, GateTypes, Gates, ActingIsTheTokens, VerifiesAt
<1>6. PrincipalIsTheTokens'
  BY <1>1 DEF GateInv, GateTypes, Gates, PrincipalIsTheTokens, VerifiesAt
<1>7. GuardsEstablish' /\ VerdictsSayWhy'
  BY <1>1, GateConstants DEF GateInv, GateTypes, Gates, GuardsEstablish, VerdictsSayWhy
<1>8. QED
  BY <1>3, <1>4, <1>6, <1>7 DEF GateInv

(* A refusal ends the request, with a verdict that says why. *)
RefusedFor(verdict) ==
    /\ verdict = "IMPERSONATION_FINANCIAL_MUTATION_REFUSED" =>
          Door!Permitted(gate.principal, gate.route.permission)
    /\ verdict \in {"PERMISSION_DENIED", "TENANT_CONTEXT_MISSING"} => gate.principal # None
    /\ verdict = "TENANT_CONTEXT_MISSING" => gate.token.gym = None

(* A refusal ends the request with a verdict that says why. *)
LEMMA RefusalKeeps ==
    ASSUME GateInv, UNCHANGED <<wall, revoked>>, gate.at # "sent",
           NEW verdict \in Door!Verdicts, RefusedFor(verdict), gate' = Door!Refuse(verdict)
    PROVE  GateInv'
<1>1. gate' = [gate EXCEPT !.at = "refused", !.verdict = verdict] /\ gate \in Gates
  BY DEF Door!Refuse, GateInv, GateTypes
<1>2. /\ gate' \in Gates /\ gate'.at = "refused" /\ gate'.verdict = verdict
      /\ gate'.token = gate.token /\ gate'.route = gate.route /\ gate'.naming = gate.naming
      /\ gate'.principal = gate.principal /\ gate'.frame = gate.frame
      /\ gate'.acting = gate.acting /\ gate'.arrived = gate.arrived /\ gate'.known = gate.known
  BY <1>1 DEF Gates, GateStages
<1>3. GateTypes'
  BY <1>2 DEF GateInv, GateTypes
<1>4. ActingIsTheTokens'
  BY <1>2 DEF GateInv, ActingIsTheTokens, VerifiesAt, ActingFor
<1>5. PrincipalIsTheTokens'
  BY <1>2 DEF GateInv, PrincipalIsTheTokens, VerifiesAt
<1>6. GuardsEstablish'
  BY <1>2 DEF GuardsEstablish
<1>7. Door!Permitted(gate.principal, gate.route.permission)' <=>
      Door!Permitted(gate.principal, gate.route.permission)
  BY <1>2
<1>8. VerdictsSayWhy'
  BY <1>2, <1>7 DEF VerdictsSayWhy, RefusedFor
<1>9. QED
  BY <1>3, <1>4, <1>5, <1>6, <1>8 DEF GateInv

(* The request goes on, with what it has. *)
LEMMA GoingOnKeeps ==
    ASSUME GateInv, UNCHANGED <<wall, revoked>>,
           NEW stage \in {"jwt", "denylist", "cap", "guards", "handler"},
           gate.at \notin {"sent", "framed", "refused"}, gate' = Door!Goto(stage), GuardsEstablish'
    PROVE  GateInv'
<1>1. gate' = [gate EXCEPT !.at = stage] /\ gate \in Gates
  BY DEF Door!Goto, GateInv, GateTypes
<1>2. /\ gate' \in Gates /\ gate'.at = stage /\ gate'.verdict = gate.verdict
      /\ gate'.token = gate.token /\ gate'.route = gate.route /\ gate'.naming = gate.naming
      /\ gate'.principal = gate.principal /\ gate'.frame = gate.frame
      /\ gate'.acting = gate.acting /\ gate'.arrived = gate.arrived /\ gate'.known = gate.known
  BY <1>1 DEF Gates, GateStages
<1>3. GateTypes'
  BY <1>2 DEF GateInv, GateTypes
<1>4. ActingIsTheTokens'
  BY <1>2 DEF GateInv, ActingIsTheTokens, VerifiesAt, ActingFor
<1>5. PrincipalIsTheTokens'
  <2>1. gate.at \in {"jwt", "denylist", "cap", "guards", "handler"}
    BY <1>1 DEF Gates, GateStages
  <2>2. QED
    BY <1>2, <2>1 DEF GateInv, PrincipalIsTheTokens, VerifiesAt
<1>6. VerdictsSayWhy'
  BY <1>2, GateConstants DEF GateInv, VerdictsSayWhy, Door!Verdicts
<1>7. QED
  BY <1>3, <1>4, <1>5, <1>6 DEF GateInv

(* The middleware of the gym makes the principal. *)
LEMMA OpenTenantStep == ASSUME GateInv, Door!OpenTenant PROVE GateInv'
<1>1. gate.at = "framed" /\ UNCHANGED <<wall, revoked>> /\ gate \in Gates
  BY DEF Door!OpenTenant, Door!At, GateInv, GateTypes
<1>2. CASE gate.naming
  <2>1. gate' = Door!Refuse("TENANT_HEADER_NOT_ACCEPTED")
    BY <1>2 DEF Door!OpenTenant
  <2>2. RefusedFor("TENANT_HEADER_NOT_ACCEPTED")
    BY DEF RefusedFor
  <2>3. QED
    BY <1>1, <2>1, <2>2, RefusalKeeps DEF Door!Verdicts
<1>3. CASE ~gate.naming /\ VerifiesAt(gate.token, wall)
  <2>1. gate' = [gate EXCEPT !.at = "jwt", !.principal = gate.token, !.frame = gate.token.gym]
    BY <1>3 DEF Door!OpenTenant, Door!Goto, Door!Verifies, VerifiesAt
  <2>2. gate.token \in Door!Tokens /\ gate.token.gym \in Frames
    BY <1>1, <1>3 DEF Gates, VerifiesAt, Frames
  <2>3. /\ gate' \in Gates /\ gate'.at = "jwt" /\ gate'.verdict = gate.verdict
        /\ gate'.token = gate.token /\ gate'.route = gate.route /\ gate'.naming = gate.naming
        /\ gate'.principal = gate.token /\ gate'.frame = gate.token.gym
        /\ gate'.acting = gate.acting /\ gate'.arrived = gate.arrived /\ gate'.known = gate.known
    BY <1>1, <2>1, <2>2 DEF Gates, GateStages
  <2>4. GateTypes'
    BY <1>1, <2>3 DEF GateInv, GateTypes
  <2>5. ActingIsTheTokens'
    BY <1>1, <2>3 DEF GateInv, ActingIsTheTokens, VerifiesAt, ActingFor
  <2>6. VerifiesAt(gate.token, gate.arrived)
    BY <1>1, <1>3, <2>2, VerifiedBefore DEF GateInv, GateTypes, Gates
  <2>7. PrincipalIsTheTokens'
    BY <1>1, <1>3, <2>3, <2>6 DEF PrincipalIsTheTokens, VerifiesAt
  <2>8. GuardsEstablish'
    BY <2>3 DEF GuardsEstablish
  <2>9. VerdictsSayWhy'
    BY <1>1, <2>3, GateConstants DEF GateInv, VerdictsSayWhy, Door!Verdicts
  <2>10. QED
    BY <2>4, <2>5, <2>7, <2>8, <2>9 DEF GateInv
<1>4. CASE ~gate.naming /\ ~VerifiesAt(gate.token, wall)
  <2>1. gate' = [gate EXCEPT !.at = "jwt"]
    BY <1>4 DEF Door!OpenTenant, Door!Goto, Door!Verifies, VerifiesAt
  <2>2. /\ gate' \in Gates /\ gate'.at = "jwt" /\ gate'.verdict = gate.verdict
        /\ gate'.token = gate.token /\ gate'.route = gate.route /\ gate'.naming = gate.naming
        /\ gate'.principal = gate.principal /\ gate'.frame = gate.frame
        /\ gate'.acting = gate.acting /\ gate'.arrived = gate.arrived /\ gate'.known = gate.known
    BY <1>1, <2>1 DEF Gates, GateStages
  <2>3. GateTypes'
    BY <1>1, <2>2 DEF GateInv, GateTypes
  <2>4. ActingIsTheTokens'
    BY <1>1, <2>2 DEF GateInv, ActingIsTheTokens, VerifiesAt, ActingFor
  <2>5. PrincipalIsTheTokens'
    BY <1>1, <1>4, <2>2 DEF GateInv, PrincipalIsTheTokens, VerifiesAt
  <2>6. GuardsEstablish'
    BY <2>2 DEF GuardsEstablish
  <2>7. VerdictsSayWhy'
    BY <1>1, <2>2, GateConstants DEF GateInv, VerdictsSayWhy, Door!Verdicts
  <2>8. QED
    BY <2>3, <2>4, <2>5, <2>6, <2>7 DEF GateInv
<1>5. QED
  BY <1>2, <1>3, <1>4

(* A principal a guard asks the token for again is the one it has. *)
LEMMA AuthenticateStep == ASSUME GateInv, Door!Authenticate PROVE GateInv'
<1>1. gate.at = "jwt" /\ UNCHANGED <<wall, revoked>> /\ gate \in Gates
  BY DEF Door!Authenticate, Door!At, GateInv, GateTypes
<1>2. CASE gate.route.public
  <2>1. gate' = Door!Goto("guards")
    BY <1>2 DEF Door!Authenticate
  <2>2. gate'.route = gate.route /\ gate'.at = "guards"
    BY <1>1, <2>1 DEF Gates, Door!Goto
  <2>3. GuardsEstablish'
    BY <1>2, <2>2 DEF GuardsEstablish
  <2>4. QED
    BY <1>1, <2>1, <2>3, GoingOnKeeps
<1>3. CASE ~gate.route.public /\ gate.principal = None /\ ~VerifiesAt(gate.token, wall)
  <2>1. gate' = Door!Refuse("UNAUTHENTICATED")
    BY <1>3 DEF Door!Authenticate, Door!Verifies, VerifiesAt
  <2>2. RefusedFor("UNAUTHENTICATED")
    BY DEF RefusedFor
  <2>3. QED
    BY <1>1, <2>1, <2>2, RefusalKeeps DEF Door!Verdicts
<1>4. CASE ~gate.route.public /\ ~(gate.principal = None /\ ~VerifiesAt(gate.token, wall))
  <2>1. gate.principal # None /\ gate.principal = gate.token
    BY <1>1, <1>4 DEF GateInv, PrincipalIsTheTokens
  <2>2. gate' = [gate EXCEPT !.at = "denylist", !.principal = gate.token]
    BY <1>4 DEF Door!Authenticate, Door!Goto, Door!Verifies, VerifiesAt
  <2>3. gate' = Door!Goto("denylist")
    BY <1>1, <2>1, <2>2 DEF Gates, Door!Goto
  <2>4. gate'.route = gate.route /\ gate'.at = "denylist" /\ gate'.principal = gate.principal
    BY <1>1, <2>3 DEF Gates, Door!Goto
  <2>5. GuardsEstablish'
    BY <1>4, <2>1, <2>4 DEF GuardsEstablish
  <2>6. QED
    BY <1>1, <2>3, <2>5, GoingOnKeeps
<1>5. QED
  BY <1>2, <1>3, <1>4

(* The denylist is read: a family known to be revoked is refused. *)
LEMMA ReadDenylistStep == ASSUME GateInv, Door!ReadDenylist PROVE GateInv'
<1>1. gate.at = "denylist" /\ UNCHANGED <<wall, revoked>> /\ gate \in Gates
  BY DEF Door!ReadDenylist, Door!At, GateInv, GateTypes
<1>2. CASE revoked
  <2>1. gate' = Door!Refuse("UNAUTHENTICATED")
    BY <1>2 DEF Door!ReadDenylist
  <2>2. RefusedFor("UNAUTHENTICATED")
    BY DEF RefusedFor
  <2>3. QED
    BY <1>1, <2>1, <2>2, RefusalKeeps DEF Door!Verdicts
<1>3. CASE ~revoked
  <2>1. gate' = Door!Goto("cap") /\ ~gate.known
    BY <1>3 DEF Door!ReadDenylist, GateInv, GateTypes
  <2>2. /\ gate'.route = gate.route /\ gate'.at = "cap" /\ gate'.principal = gate.principal
        /\ gate'.known = gate.known
    BY <1>1, <2>1 DEF Gates, Door!Goto
  <2>3. GuardsEstablish'
    BY <1>1, <2>1, <2>2 DEF GateInv, GuardsEstablish
  <2>4. QED
    BY <1>1, <2>1, <2>3, GoingOnKeeps
<1>4. QED
  BY <1>2, <1>3

(* The cap is measured later than the request arrived. *)
LEMMA CheckCapStep == ASSUME GateInv, Door!CheckCap PROVE GateInv'
<1>1. gate.at = "cap" /\ UNCHANGED <<wall, revoked>> /\ gate \in Gates
  BY DEF Door!CheckCap, Door!At, GateInv, GateTypes
<1>2. CASE gate.principal.typ = "IMPERSONATION" /\ wall - gate.principal.begun >= MaxMinutes
  <2>1. gate' = Door!Refuse("UNAUTHENTICATED")
    BY <1>2 DEF Door!CheckCap
  <2>2. RefusedFor("UNAUTHENTICATED")
    BY DEF RefusedFor
  <2>3. QED
    BY <1>1, <2>1, <2>2, RefusalKeeps DEF Door!Verdicts
<1>3. CASE ~(gate.principal.typ = "IMPERSONATION" /\ wall - gate.principal.begun >= MaxMinutes)
  <2>1. gate' = Door!Goto("guards")
    BY <1>3 DEF Door!CheckCap
  <2>2. /\ gate'.route = gate.route /\ gate'.at = "guards" /\ gate'.principal = gate.principal
        /\ gate'.known = gate.known /\ gate'.arrived = gate.arrived
    BY <1>1, <2>1 DEF Gates, Door!Goto
  <2>3. ~gate.route.public /\ gate.principal # None /\ ~gate.known
    BY <1>1 DEF GateInv, GuardsEstablish
  <2>4. gate.principal \in Door!Tokens /\ VerifiesAt(gate.principal, gate.arrived)
    BY <1>1, <2>3 DEF GateInv, PrincipalIsTheTokens, Gates
  <2>5. gate.principal.begun = 0
    BY <2>4, VerifiedTokens, SignedTokens
  <2>6. gate.arrived \in Nat /\ wall \in Nat /\ gate.arrived <= wall
    BY <1>1 DEF GateInv, GateTypes, Gates
  <2>7. gate.principal.typ = "IMPERSONATION" => gate.arrived < gate.principal.begun + MaxMinutes
    BY <1>3, <2>5, <2>6, GateConstants
  <2>8. GuardsEstablish'
    BY <2>2, <2>3, <2>7 DEF GuardsEstablish
  <2>9. QED
    BY <1>1, <2>1, <2>8, GoingOnKeeps
<1>4. QED
  BY <1>2, <1>3

(* The guards that wait for nothing. *)
LEMMA GuardsStep == ASSUME GateInv, Door!Guards PROVE GateInv'
<1> DEFINE p == gate.principal
           route == gate.route
           outsider == route.platformOnly /\ (p = None \/ ~Door!HoldsPlatformRole(p.claims))
           forbidden == ~route.public /\ ~Door!Permitted(p, route.permission)
           unframed == route.tenantScoped /\ gate.frame = None
           borrowed == p # None /\ p.typ = "IMPERSONATION" /\ route.financial
<1>1. gate.at = "guards" /\ UNCHANGED <<wall, revoked>> /\ gate \in Gates
  BY DEF Door!Guards, Door!At, GateInv, GateTypes
<1>2. /\ route.public \in BOOLEAN
      /\ route.public => ~route.tenantScoped /\ ~route.platformOnly /\ ~route.financial
  BY <1>1, RoutesOfTheGate DEF Gates
<1>3. ~route.public => p # None
  BY <1>1 DEF GateInv, GuardsEstablish
<1>4. CASE unframed
  <2>1. gate' = Door!Refuse("TENANT_CONTEXT_MISSING")
    BY <1>4 DEF Door!Guards
  <2>2. RefusedFor("TENANT_CONTEXT_MISSING")
    BY <1>2, <1>3, <1>4 DEF RefusedFor, GateInv, PrincipalIsTheTokens
  <2>3. QED
    BY <1>1, <2>1, <2>2, RefusalKeeps DEF Door!Verdicts
<1>5. CASE ~unframed /\ (outsider \/ forbidden)
  <2>1. gate' = Door!Refuse("PERMISSION_DENIED")
    BY <1>5 DEF Door!Guards
  <2>2. RefusedFor("PERMISSION_DENIED")
    BY <1>2, <1>3, <1>5 DEF RefusedFor
  <2>3. QED
    BY <1>1, <2>1, <2>2, RefusalKeeps DEF Door!Verdicts
<1>6. CASE ~unframed /\ ~(outsider \/ forbidden) /\ borrowed
  <2>1. gate' = Door!Refuse("IMPERSONATION_FINANCIAL_MUTATION_REFUSED")
    BY <1>6 DEF Door!Guards
  <2>2. RefusedFor("IMPERSONATION_FINANCIAL_MUTATION_REFUSED")
    BY <1>2, <1>6 DEF RefusedFor
  <2>3. QED
    BY <1>1, <2>1, <2>2, RefusalKeeps DEF Door!Verdicts
<1>7. CASE ~unframed /\ ~(outsider \/ forbidden) /\ ~borrowed
  <2>1. gate' = Door!Goto("handler")
    BY <1>7 DEF Door!Guards
  <2>2. /\ gate'.route = gate.route /\ gate'.at = "handler" /\ gate'.principal = gate.principal
        /\ gate'.known = gate.known /\ gate'.arrived = gate.arrived
    BY <1>1, <2>1 DEF Gates, Door!Goto
  <2>3. Door!Permitted(gate.principal, gate.route.permission)' <=>
        Door!Permitted(gate.principal, gate.route.permission)
    BY <2>2
  <2>4. GuardsEstablish'
    BY <1>1, <1>7, <2>2, <2>3 DEF GateInv, GuardsEstablish
  <2>5. QED
    BY <1>1, <2>1, <2>4, GoingOnKeeps
<1>8. QED
  BY <1>4, <1>5, <1>6, <1>7

(* Time passes, and who could not verify still cannot. *)
LEMMA GateTimeStep == ASSUME GateInv, Door!Tick \/ Door!Revoke PROVE GateInv'
<1>1. gate' = gate /\ wall' \in Nat /\ wall <= wall' /\ revoked' \in BOOLEAN /\ (revoked => revoked')
  <2>1. gate' = gate /\ wall' \in Nat /\ wall <= wall'
    BY DEF Door!Tick, Door!Revoke, GateInv, GateTypes
  <2>2. revoked' \in BOOLEAN /\ (revoked => revoked')
    <3>1. CASE revoked' = revoked
      BY <3>1 DEF GateInv, GateTypes
    <3>2. CASE revoked' = TRUE
      BY <3>2
    <3>3. QED
      BY <3>1, <3>2, Zenon DEF Door!Tick, Door!Revoke
  <2>3. QED
    BY <2>1, <2>2
<1>2. GateTypes'
  BY <1>1 DEF GateInv, GateTypes, Gates
<1>3. ActingIsTheTokens'
  BY <1>1 DEF GateInv, ActingIsTheTokens, VerifiesAt, ActingFor
<1>4. VerifiesAt(gate.token, wall') => VerifiesAt(gate.token, wall)
  BY <1>1, VerifiedBefore DEF GateInv, GateTypes, Gates
<1>5. PrincipalIsTheTokens'
  BY <1>1, <1>4 DEF GateInv, PrincipalIsTheTokens, VerifiesAt
<1>6. Door!Permitted(gate.principal, gate.route.permission)' <=>
      Door!Permitted(gate.principal, gate.route.permission)
  BY <1>1
<1>7. GuardsEstablish' /\ VerdictsSayWhy'
  BY <1>1, <1>6 DEF GateInv, GuardsEstablish, VerdictsSayWhy
<1>8. QED
  BY <1>2, <1>3, <1>5, <1>7 DEF GateInv

(* Every step of the request, of time and of the revocation. *)
LEMMA GateStep == ASSUME GateInv, [Door!Next]_gateVars PROVE GateInv'
<1>1. ASSUME UNCHANGED gateVars PROVE GateInv'
  <2>1. gate' = gate /\ wall' = wall /\ revoked' = revoked
    BY <1>1 DEF gateVars
  <2>2. Door!Permitted(gate.principal, gate.route.permission)' <=>
        Door!Permitted(gate.principal, gate.route.permission)
    BY <2>1
  <2>3. QED
    BY <2>1, <2>2 DEF GateInv, GateTypes, ActingIsTheTokens, PrincipalIsTheTokens,
                     GuardsEstablish, VerdictsSayWhy, VerifiesAt, ActingFor
<1>2. QED
  BY <1>1, OpenImpersonationStep, OpenTenantStep, AuthenticateStep, ReadDenylistStep,
     CheckCapStep, GuardsStep, GateTimeStep DEF Door!Next

(* What is known at each guard is what the handler may rely on. *)
LEMMA GateInvHolds == ASSUME GateInv PROVE Door!GateHolds
<1>1. gate \in Gates
  BY DEF GateInv, GateTypes
<1>2. ASSUME gate.principal # None
      PROVE  /\ gate.principal = gate.token /\ gate.token \in Door!Tokens
             /\ gate.token \in Door!Signed /\ VerifiesAt(gate.token, gate.arrived)
             /\ gate.arrived < gate.token.exp /\ gate.frame = gate.token.gym
             /\ gate.at # "sent"
  <2>1. gate.principal = gate.token /\ VerifiesAt(gate.token, gate.arrived)
        /\ gate.frame = gate.token.gym /\ gate.at # "sent"
    BY <1>2 DEF GateInv, PrincipalIsTheTokens
  <2>2. gate.token \in Door!Tokens /\ gate.arrived \in Nat
    BY <1>1, <1>2, <2>1 DEF Gates
  <2>3. QED
    BY <2>1, <2>2, VerifiedTokens, TokensExpire DEF VerifiesAt
<1>3. Door!NobodyUnverified
  <2>1. ASSUME gate.at = "handler", ~gate.route.public
        PROVE  gate.principal # None /\ gate.route.permission # None /\ ~gate.known
    BY <2>1 DEF GateInv, GuardsEstablish, Door!Permitted
  <2>2. gate.at = "handler" => ~gate.naming
    BY DEF GateInv, PrincipalIsTheTokens
  <2>3. ASSUME gate.at = "handler", ~gate.route.public, gate.token.typ = "IMPERSONATION"
        PROVE  gate.arrived < gate.token.begun + MaxMinutes
    BY <2>1, <2>3, <1>2 DEF GateInv, GuardsEstablish
  <2>4. QED
    BY <2>1, <2>2, <2>3, <1>2 DEF Door!NobodyUnverified, Door!Handled
<1>4. Door!FramesAreThePrincipals
  BY <1>2 DEF GateInv, ActingIsTheTokens, ActingFor, Door!FramesAreThePrincipals, Door!Handled
<1>5. Door!BorrowedHandsAreTied
  <2>1. SUFFICES ASSUME gate.at = "handler", gate.principal # None,
                        gate.principal.typ = "IMPERSONATION"
                 PROVE  ~gate.route.financial /\ ~gate.route.platformOnly
    BY DEF Door!BorrowedHandsAreTied, Door!Handled
  <2>2. ~Door!HoldsPlatformRole(gate.principal.claims)
    BY <1>2, <2>1, SignedTokens DEF Door!HoldsPlatformRole
  <2>3. QED
    BY <2>1, <2>2 DEF GateInv, GuardsEstablish
<1>6. Door!RefusalsSayWhy
  BY <1>2 DEF GateInv, VerdictsSayWhy, Door!RefusalsSayWhy
<1>7. QED
  BY <1>3, <1>4, <1>5, <1>6 DEF Door!GateHolds

(* A step of any scene is one of the gate, or leaves it alone. *)
LEMMA RunOfGate == [MCNext]_allVars => [Door!Next]_gateVars
BY DEF MCNext, allVars, gateVars

(* No request reaches a handler that its token does not carry it to         *)
(* (app.module.ts and the guards it binds).                                 *)
THEOREM GateAlwaysHolds == MCSpec => [](scene = "gate" => GateInv)
<1>1. MCInit => (scene = "gate" => GateInv)
  BY GateInit DEF MCInit
<1>2. (scene = "gate" => GateInv) /\ [MCNext]_allVars => (scene = "gate" => GateInv)'
  <2>1. [MCNext]_allVars => scene' = scene
    BY DEF MCNext, allVars
  <2>2. QED
    BY <2>1, RunOfGate, GateStep
<1>3. QED
  BY <1>1, <1>2, PTL DEF MCSpec

-----------------------------------------------------------------------------
(* The matrix (Permissions).  Nobody but those who may act as others is    *)
(* given the key that starts it, and what anyone may do to his own account *)
(* is in no row.                                                           *)

RowIsSafe(row) ==
    /\ "iam.impersonation.start" \in row.reads \cup row.writes =>
          row.writers \cup row.readers \subseteq {"SUPPORT_AGENT", "SUPER_ADMIN"}
    /\ (row.reads \cup row.writes)
          \cap (Act!SelfServicePermissions \cup Act!ScopedNonMatrixPermissions) = {}

(* Row by row, over the whole matrix. *)
LEMMA RowsAreSafe == \A row \in Act!Matrix : RowIsSafe(row)
<1>1. \A row \in Act!MarketplaceRows : RowIsSafe(row)
  BY DEF RowIsSafe, Act!MarketplaceRows, Act!Row, Act!SelfServicePermissions,
         Act!ScopedNonMatrixPermissions
<1>2. \A row \in Act!RequestRows : RowIsSafe(row)
  BY DEF RowIsSafe, Act!RequestRows, Act!Row, Act!SelfServicePermissions,
         Act!ScopedNonMatrixPermissions
<1>3. \A row \in Act!GymRecordRows : RowIsSafe(row)
  BY DEF RowIsSafe, Act!GymRecordRows, Act!Row, Act!SelfServicePermissions,
         Act!ScopedNonMatrixPermissions
<1>4. \A row \in Act!GymManagementRows : RowIsSafe(row)
  BY DEF RowIsSafe, Act!GymManagementRows, Act!Row, Act!SelfServicePermissions,
         Act!ScopedNonMatrixPermissions
<1>5. \A row \in Act!GymMoneyRows : RowIsSafe(row)
  BY DEF RowIsSafe, Act!GymMoneyRows, Act!Row, Act!SelfServicePermissions,
         Act!ScopedNonMatrixPermissions
<1>6. \A row \in Act!PlatformMoneyRows : RowIsSafe(row)
  BY DEF RowIsSafe, Act!PlatformMoneyRows, Act!Row, Act!SelfServicePermissions,
         Act!ScopedNonMatrixPermissions
<1>7. \A row \in Act!PlatformRows : RowIsSafe(row)
  BY DEF RowIsSafe, Act!PlatformRows, Act!Row, Act!SelfServicePermissions,
         Act!ScopedNonMatrixPermissions
<1>8. \A row \in Act!OnboardingRows : RowIsSafe(row)
  BY DEF RowIsSafe, Act!OnboardingRows, Act!Row, Act!SelfServicePermissions,
         Act!ScopedNonMatrixPermissions
<1>9. QED
  BY <1>1, <1>2, <1>3, <1>4, <1>5, <1>6, <1>7, <1>8 DEF Act!Matrix

(* What a role holds is in a row that names it. *)
LEMMA HeldKeys ==
    ASSUME NEW r \in Act!RoleNames, NEW key \in Act!Held[r]
    PROVE  /\ \E row \in Act!Matrix : r \in row.writers \cup row.readers /\ key \in Act!Keys(row)
           /\ key \in Act!PermissionKeys
<1>1. /\ key \in Act!PermissionKeys
      /\ \E row \in Act!Matrix : \/ r \in row.writers /\ key \in Act!Keys(row)
                                 \/ r \in row.readers /\ key \in row.reads
  BY DEF Act!Held
<1>2. QED
  BY <1>1 DEF Act!Keys

(* Whoever holds the key that starts a session may impersonate. *)
LEMMA StartIsForFew ==
    ASSUME NEW r \in Act!RoleNames, "iam.impersonation.start" \in Act!Held[r]
    PROVE  r \in Act!MayImpersonate
BY HeldKeys, RowsAreSafe DEF RowIsSafe, Act!Keys, Act!MayImpersonate

(* No key of the matrix is one of those outside it. *)
LEMMA KeysAreNotOnesOwn ==
    ASSUME NEW key \in Act!PermissionKeys
    PROVE  key \notin Act!SelfServicePermissions \cup Act!ScopedNonMatrixPermissions
BY RowsAreSafe DEF RowIsSafe, Act!Keys, Act!PermissionKeys

(* Where the roles are claimed, and which of the claims are grants. *)
LEMMA ScopesOfRoles ==
    ASSUME NEW r \in Act!RoleNames
    PROVE  /\ r \in Act!Consumers <=> Act!DeclaredScope(r) = "SELF"
           /\ r \in Act!PlatformStaff <=> Act!DeclaredScope(r) = "PLATFORM"
           /\ r = "VISITOR" <=> Act!DeclaredScope(r) = "PUBLIC"
           /\ Act!DeclaredScope(r) \in {"SELF", "PLATFORM", "PUBLIC", "TENANT", "BRANCH"}
BY DEF Act!RoleNames, Act!DeclaredScope, Act!Consumers, Act!Floor, Act!Desk, Act!Managers,
       Act!PlatformStaff

(* The fields of a claim. *)
LEMMA ClaimFields ==
    ASSUME NEW r, NEW at, NEW gym
    PROVE  /\ Act!Claim(r, at, gym).role = r /\ Act!Claim(r, at, gym).at = at
           /\ Act!Claim(r, at, gym).tenant = gym /\ Act!Claim(r, at, gym).branch = None
BY DEF Act!Claim

(* A consumer claims himself, the staff of the platform all of it, the others their gym. *)
LEMMA ScopedClaims ==
    ASSUME NEW r \in Act!RoleNames
    PROVE  /\ r \in Act!Consumers => Act!RoleScope(r, Gym) = Act!Claim(r, "self", None)
           /\ r \in Act!PlatformStaff => Act!RoleScope(r, Gym) = Act!Claim(r, "platform", None)
           /\ r = "VISITOR" => Act!RoleScope(r, Gym) = Act!Claim(r, "public", None)
           /\ r \notin Act!Consumers \cup Act!PlatformStaff \cup {"VISITOR"} =>
                 Act!RoleScope(r, Gym) = Act!Claim(r, "t", Gym)
BY ScopesOfRoles DEF Act!RoleScope

(* A grant is the claim of a role that was claimed, of no visitor. *)
LEMMA ParsedClaims ==
    ASSUME NEW roles \in SUBSET Act!RoleNames, NEW given \in Act!ParseRoleGrants(Act!ClaimsOf(roles))
    PROVE  /\ given.role \in roles /\ given = Act!RoleScope(given.role, Gym)
           /\ given.role # "VISITOR"
           /\ given.role \notin Act!Consumers \cup Act!PlatformStaff => Gym # None
<1>1. PICK r \in roles : given = Act!RoleScope(r, Gym)
  BY DEF Act!ParseRoleGrants, Act!ClaimsOf
<1>2. given.role = r
  BY <1>1, ScopedClaims, ClaimFields
<1>3. Act!Parses(given)
  BY DEF Act!ParseRoleGrants
<1>4. r # "VISITOR"
  BY <1>1, <1>3, ScopedClaims, ClaimFields DEF Act!Parses
<1>5. r \notin Act!Consumers \cup Act!PlatformStaff => Gym # None
  BY <1>1, <1>3, <1>4, ScopedClaims, ClaimFields DEF Act!Parses
<1>6. QED
  BY <1>1, <1>2, <1>4, <1>5

(* A consumer's role is always a grant. *)
LEMMA ParsedConsumers ==
    ASSUME NEW roles \in SUBSET Act!RoleNames, NEW r \in roles \cap Act!Consumers
    PROVE  Act!Claim(r, "self", None) \in Act!ParseRoleGrants(Act!ClaimsOf(roles))
<1>1. Act!Claim(r, "self", None) \in Act!ClaimsOf(roles)
  BY ScopedClaims DEF Act!ClaimsOf
<1>2. Act!Parses(Act!Claim(r, "self", None))
  BY ScopesOfRoles, ClaimFields DEF Act!Parses
<1>3. QED
  BY <1>1, <1>2 DEF Act!ParseRoleGrants

(* The roles of the grants are among the roles. *)
LEMMA ParsedRolesAreRoles ==
    ASSUME NEW roles \in SUBSET Act!RoleNames
    PROVE  Act!ParsedRoles(roles) \subseteq roles \ {"VISITOR"}
BY ParsedClaims DEF Act!ParsedRoles, Act!RolesOf

-----------------------------------------------------------------------------
(* The session (Impersonation).  From its start on it is of two users of   *)
(* whom one may act as others and one may not, and its claims are theirs.  *)

BorrowedClaims == {Act!Claim(r, at, None) : r \in Act!RoleNames, at \in {"self", "platform"}}
Sessions == [claims : SUBSET BorrowedClaims, agentClaims : SUBSET BorrowedClaims,
             minutes : 0 .. MaxMinutes, age : 0 .. MaxMinutes]

SubjectClaims == {Act!Claim(r, "self", None) : r \in Act!ParsedRoles(subjectRoles)}
AgentClaims == {Act!Claim(r, "platform", None) : r \in Act!ParsedRoles(agentRoles)}

RolesAreTyped ==
    /\ agentRoles \in SUBSET Act!RoleNames /\ subjectRoles \in SUBSET Act!RoleNames
    /\ \A a, b \in agentRoles : a = b

SessionTyped ==
    /\ pending \in 0 .. MaxMinutes /\ session \in Sessions /\ denied \in 0 .. DenylistTtl
    /\ trail \subseteq {"started", "ended"} /\ asked \in BOOLEAN

SessionIsTheirs ==
    /\ pending # 0 \/ session # Act!NoSession =>
          /\ Act!ParsedRoles(agentRoles) \cap Act!MayImpersonate # {}
          /\ Act!ParsedRoles(subjectRoles) \cap Act!MayImpersonate = {}
    /\ session # Act!NoSession =>
          session.claims = SubjectClaims /\ session.agentClaims = AgentClaims

SessionInv == RolesAreTyped /\ SessionTyped /\ SessionIsTheirs

(* What SessionAssumption says of the constants. *)
LEMMA SessionConstants == MaxMinutes \in Nat /\ DenylistTtl \in Nat /\ Subject # None
BY SessionIsGiven DEF Act!SessionAssumption

(* No session is a session with no claims. *)
LEMMA NoSessionTyped == Act!NoSession \in Sessions
BY SessionConstants DEF Act!NoSession, Sessions

(* Before any session nothing is pending. *)
LEMMA SessionInit == ASSUME Act!Init PROVE SessionInv
<1>1. RolesAreTyped
  BY DEF Act!Init, RolesAreTyped
<1>2. asked = FALSE /\ asked \in BOOLEAN
  BY Zenon DEF Act!Init
<1>3. SessionTyped
  BY <1>2, NoSessionTyped, SessionConstants DEF Act!Init, SessionTyped
<1>4. SessionIsTheirs
  BY DEF Act!Init, SessionIsTheirs
<1>5. QED
  BY <1>1, <1>3, <1>4 DEF SessionInv

(* Where no session is followed, nobody has a role. *)
LEMMA NobodyActsInit == ASSUME NobodyActs PROVE SessionInv
<1>1. RolesAreTyped
  BY DEF NobodyActs, RolesAreTyped
<1>2. asked = FALSE /\ asked \in BOOLEAN
  BY Zenon DEF NobodyActs
<1>3. SessionTyped
  BY <1>2, NoSessionTyped, SessionConstants DEF NobodyActs, SessionTyped
<1>4. SessionIsTheirs
  BY DEF NobodyActs, SessionIsTheirs
<1>5. QED
  BY <1>1, <1>3, <1>4 DEF SessionInv

(* A start is judged by the roles of both, which no step changes. *)
LEMMA SessionStart ==
    ASSUME SessionInv, NEW minutes \in 1 .. MaxMinutes + 1, Act!Start(minutes)
    PROVE  SessionInv'
<1>1. RolesAreTyped'
  BY DEF SessionInv, RolesAreTyped, Act!Start
<1>2. SessionTyped'
  BY DEF SessionInv, SessionTyped, Act!Start, Act!MayStartImpersonation
<1>3. SessionIsTheirs'
  BY DEF SessionInv, SessionIsTheirs, Act!Start, Act!MayStartImpersonation
<1>4. QED
  BY <1>1, <1>2, <1>3 DEF SessionInv

(* The claims that are signed are the subject's, and the agent's. *)
LEMMA SessionSign == ASSUME SessionInv, Act!Sign PROVE SessionInv'
<1>1. RolesAreTyped' /\ SubjectClaims' = SubjectClaims /\ AgentClaims' = AgentClaims
  BY DEF SessionInv, RolesAreTyped, Act!Sign, SubjectClaims, AgentClaims
<1>2. session' = [claims |-> SubjectClaims, agentClaims |-> AgentClaims, minutes |-> pending,
                  age |-> 0]
  BY DEF Act!Sign, SubjectClaims, AgentClaims
<1>3. SubjectClaims \subseteq BorrowedClaims /\ AgentClaims \subseteq BorrowedClaims
  BY ParsedRolesAreRoles
     DEF SessionInv, RolesAreTyped, SubjectClaims, AgentClaims, BorrowedClaims
<1>4. session' \in Sessions
  BY <1>2, <1>3, SessionConstants DEF SessionInv, SessionTyped, Sessions
<1>5. SessionTyped'
  BY <1>4, SessionConstants DEF SessionInv, SessionTyped, Act!Sign
<1>6. SessionIsTheirs'
  BY <1>1, <1>2 DEF SessionInv, SessionIsTheirs, Act!Sign
<1>7. QED
  BY <1>1, <1>5, <1>6 DEF SessionInv

(* A step that leaves the claims what they are. *)
LEMMA ClaimsStand ==
    ASSUME SessionInv, SessionTyped', UNCHANGED <<agentRoles, subjectRoles>>,
           pending' \in {0, pending},
           session' = session \/ (session # Act!NoSession /\ session'.claims = session.claims
                                  /\ session'.agentClaims = session.agentClaims)
    PROVE  SessionInv'
<1>1. RolesAreTyped' /\ SubjectClaims' = SubjectClaims /\ AgentClaims' = AgentClaims
  BY DEF SessionInv, RolesAreTyped, SubjectClaims, AgentClaims
<1>2. SessionIsTheirs'
  BY <1>1 DEF SessionInv, SessionIsTheirs
<1>3. QED
  BY <1>1, <1>2 DEF SessionInv

(* A death, a request to end it and time leave the claims what they are. *)
LEMMA SessionGoesOn ==
    ASSUME SessionInv, Act!Die \/ Act!RequestEnd \/ Act!Tick PROVE SessionInv'
<1>1. CASE Act!Die
  <2>1. SessionTyped'
    BY <1>1, SessionConstants DEF SessionInv, SessionTyped, Act!Die
  <2>2. QED
    BY <1>1, <2>1, ClaimsStand DEF Act!Die
<1>2. CASE Act!RequestEnd
  <2>1. asked' \in BOOLEAN
    BY <1>2, Zenon DEF Act!RequestEnd
  <2>2. trail' \subseteq {"started", "ended"} /\ denied' \in 0 .. DenylistTtl
    <3>1. trail \subseteq {"started", "ended"} /\ denied \in 0 .. DenylistTtl
      BY DEF SessionInv, SessionTyped
    <3>2. CASE Act!Admits("iam.impersonation.end")
      <4>1. denied' = DenylistTtl /\ trail' \in {trail, trail \cup {"ended"}}
        BY <1>2, <3>2, Zenon DEF Act!RequestEnd
      <4>2. QED
        BY <3>1, <4>1, SessionConstants
    <3>3. CASE ~Act!Admits("iam.impersonation.end")
      BY <1>2, <3>1, <3>3 DEF Act!RequestEnd
    <3>4. QED
      BY <3>2, <3>3
  <2>3. pending' = pending /\ session' = session
    BY <1>2 DEF Act!RequestEnd
  <2>4. SessionTyped'
    BY <2>1, <2>2, <2>3 DEF SessionInv, SessionTyped
  <2>5. QED
    BY <1>2, <2>4, ClaimsStand DEF Act!RequestEnd
<1>3. CASE Act!Tick
  <2>1. /\ session' \in Sessions /\ session'.claims = session.claims
        /\ session'.agentClaims = session.agentClaims
    BY <1>3, SessionConstants DEF SessionInv, SessionTyped, Sessions, Act!Tick
  <2>2. SessionTyped'
    BY <1>3, <2>1, SessionConstants DEF SessionInv, SessionTyped, Act!Tick
  <2>3. QED
    BY <1>3, <2>1, <2>2, ClaimsStand DEF Act!Tick
<1>4. QED
  BY <1>1, <1>2, <1>3

(* Every step of the session. *)
LEMMA SessionStep == ASSUME SessionInv, [Act!Next]_sessionVars PROVE SessionInv'
<1>1. ASSUME UNCHANGED sessionVars PROVE SessionInv'
  BY <1>1, ClaimsStand DEF sessionVars, SessionInv, SessionTyped
<1>2. QED
  BY <1>1, SessionStart, SessionSign, SessionGoesOn DEF Act!Next

(* A step of any scene is one of the session, or leaves it alone. *)
LEMMA RunOfSession == [MCNext]_allVars => [Act!Next]_sessionVars
BY DEF MCNext, allVars, sessionVars

(* What the guard needs for a key of the matrix. *)
LEMMA WhoIsPermitted ==
    ASSUME NEW key, key \notin Act!SelfServicePermissions \cup Act!ScopedNonMatrixPermissions,
           NEW grants, NEW resource, NEW user
    PROVE  Act!Permits(key, grants, resource, user) = "allowed" <=>
              /\ key \in Act!PermissionKeys
              /\ \E given \in grants : /\ key \in Act!Held[given.role]
                                      /\ Act!ScopeReaches(given, resource, user)
<1>1. Act!Holding(key, grants) = {given \in grants : key \in Act!Held[given.role]}
  BY DEF Act!Holding
<1> DEFINE holding == Act!Holding(key, grants)
<1> HIDE DEF holding
<1>2. Act!Permits(key, grants, resource, user) =
         IF key \notin Act!PermissionKeys THEN "UNKNOWN_PERMISSION"
         ELSE IF holding = {} THEN "NOT_GRANTED"
         ELSE IF \E given \in holding : Act!ScopeReaches(given, resource, user) THEN "allowed"
         ELSE "OUT_OF_SCOPE"
  BY DEF Act!Permits, holding
<1>3. Act!Permits(key, grants, resource, user) = "allowed" <=>
         /\ key \in Act!PermissionKeys
         /\ \E given \in holding : Act!ScopeReaches(given, resource, user)
  BY <1>2
<1>4. QED
  BY <1>1, <1>3 DEF holding

(* A grant of the session is a consumer's role of the subject's, at himself. *)
LEMMA SessionGrants ==
    ASSUME SessionInv, session # Act!NoSession, NEW given \in Act!ParseRoleGrants(session.claims)
    PROVE  /\ given.role \in subjectRoles \cap Act!Consumers
           /\ given = Act!Claim(given.role, "self", None) /\ given.at = "self"
<1>1. PICK r \in Act!ParsedRoles(subjectRoles) : given = Act!Claim(r, "self", None)
  BY DEF SessionInv, SessionIsTheirs, SubjectClaims, Act!ParseRoleGrants
<1>2. given.role = r /\ given.at = "self"
  BY <1>1, ClaimFields
<1>3. r \in subjectRoles /\ r \in Act!RoleNames /\ r # "VISITOR"
  BY <1>1, ParsedRolesAreRoles DEF SessionInv, RolesAreTyped
<1>4. Act!DeclaredScope(r) \in {"SELF", "PUBLIC"}
  BY <1>2 DEF Act!ParseRoleGrants, Act!Parses
<1>5. r \in Act!Consumers
  BY <1>3, <1>4, ScopesOfRoles
<1>6. QED
  BY <1>1, <1>2, <1>3, <1>5

(* What a session does its subject could do: a grant of it is one of his own,   *)
(* and reaches himself, as the resource of either request is.                   *)
LEMMA NothingBeyond == ASSUME SessionInv PROVE Act!NothingBeyondTheSubject
<1> SUFFICES ASSUME session # Act!NoSession, NEW key \in Act!PermissionKeys, Act!Admits(key)
             PROVE  Act!AdmitsOwn(key, subjectRoles, Subject)
  BY DEF Act!NothingBeyondTheSubject, Act!Accepted
<1>1. PICK given \in Act!EffectiveGrants(session.claims, session.agentClaims) :
         key \in Act!Held[given.role]
  BY KeysAreNotOnesOwn, WhoIsPermitted DEF Act!Admits
<1>2. given \in Act!ParseRoleGrants(session.claims)
  BY <1>1 DEF Act!EffectiveGrants
<1>3. /\ given.role \in subjectRoles \cap Act!Consumers /\ given.at = "self"
      /\ given = Act!Claim(given.role, "self", None)
  BY <1>2, SessionGrants
<1>4. given \in Act!ParseRoleGrants(Act!ClaimsOf(subjectRoles))
  BY <1>3, ParsedConsumers DEF SessionInv, RolesAreTyped
<1>5. Act!ScopeReaches(given, Act!FallbackResource(Act!ClaimsOf(subjectRoles), Subject), Subject)
  BY <1>3, SessionConstants DEF Act!ScopeReaches, Act!FallbackResource
<1>6. QED
  BY <1>1, <1>4, <1>5, KeysAreNotOnesOwn, WhoIsPermitted DEF Act!AdmitsOwn

(* The session cannot start another: no consumer holds the key for it, nor does *)
(* anyone who may be impersonated.                                              *)
LEMMA NoChain == ASSUME SessionInv PROVE Act!NoChainOfIdentities
<1> DEFINE start == "iam.impersonation.start"
<1> SUFFICES ASSUME session # Act!NoSession
             PROVE  ~Act!Admits(start) /\ start \notin Act!Announced
  BY DEF Act!NoChainOfIdentities, Act!Accepted
<1>1. ASSUME Act!Admits(start) PROVE FALSE
  <2>1. start \notin Act!SelfServicePermissions \cup Act!ScopedNonMatrixPermissions
    BY DEF Act!SelfServicePermissions, Act!ScopedNonMatrixPermissions
  <2>2. PICK given \in Act!EffectiveGrants(session.claims, session.agentClaims) :
           start \in Act!Held[given.role]
    BY <1>1, <2>1, WhoIsPermitted DEF Act!Admits
  <2>3. given.role \in subjectRoles \cap Act!Consumers
    BY <2>2, SessionGrants DEF Act!EffectiveGrants
  <2>4. given.role \in Act!RoleNames
    BY <2>3 DEF SessionInv, RolesAreTyped
  <2>5. given.role \in Act!MayImpersonate
    BY <2>2, <2>4, StartIsForFew
  <2>6. QED
    BY <2>3, <2>5 DEF Act!Consumers, Act!MayImpersonate
<1>2. ASSUME start \in Act!Announced PROVE FALSE
  <2>1. PICK r \in Act!ParsedRoles(subjectRoles) : start \in Act!Held[r]
    BY <1>2 DEF Act!Announced, Act!ImpersonatedPermissions, Act!PermissionsFor
  <2>2. r \in Act!RoleNames
    BY <2>1, ParsedRolesAreRoles DEF SessionInv, RolesAreTyped
  <2>3. r \in Act!MayImpersonate
    BY <2>1, <2>2, StartIsForFew
  <2>4. QED
    BY <2>1, <2>3 DEF SessionInv, SessionIsTheirs
<1>3. QED
  BY <1>1, <1>2

(* What the invariant says of the session is what the run checks. *)
LEMMA SessionHolds == ASSUME SessionInv PROVE Act!SessionStaysWithin
<1>1. Act!SessionTypes
  BY DEF SessionInv, SessionTyped, Sessions, Act!SessionTypes
<1>2. QED
  BY <1>1, NothingBeyond, NoChain DEF Act!SessionStaysWithin

(* The session is typed, and of two users of whom one may act as others and the *)
(* other may not, whatever their roles (StartImpersonationUseCase).             *)
THEOREM SessionIsAlwaysTheirs == MCSpec => []SessionInv
<1>1. MCInit => SessionInv
  BY SessionInit, NobodyActsInit DEF MCInit
<1>2. SessionInv /\ [MCNext]_allVars => SessionInv'
  BY SessionStep, RunOfSession
<1>3. QED
  BY <1>1, <1>2, PTL DEF MCSpec

(* A session admits nothing its subject could not do and starts no other; and no *)
(* request comes to its handler but through its guards (SessionStaysWithin).     *)
THEOREM SessionAlwaysStaysWithin == MCSpec => []SessionStaysWithin
<1>1. SessionInv /\ (scene = "gate" => GateInv) => SessionStaysWithin
  BY SessionHolds, GateInvHolds DEF SessionStaysWithin
<1>2. QED
  BY <1>1, SessionIsAlwaysTheirs, GateAlwaysHolds, PTL

-----------------------------------------------------------------------------
(* The two consoles show what the guard decides.                           *)

(* Who may impersonate is of the platform, and so are all the roles of the agent: *)
(* the token carries every one of them.                                           *)
LEMMA AgentsRolesCarry ==
    ASSUME SessionInv, session # Act!NoSession, NEW a \in Act!ParsedRoles(agentRoles)
    PROVE  a \in Act!RolesOf(Act!ParseRoleGrants(session.agentClaims))
<1> DEFINE carried == Act!Claim(a, "platform", None)
<1>1. a \in Act!RoleNames /\ a \in agentRoles
  BY ParsedRolesAreRoles DEF SessionInv, RolesAreTyped
<1>2. PICK b \in Act!ParsedRoles(agentRoles) : b \in Act!MayImpersonate
  BY DEF SessionInv, SessionIsTheirs
<1>3. a = b
  BY <1>1, <1>2, ParsedRolesAreRoles DEF SessionInv, RolesAreTyped
<1>4. Act!DeclaredScope(a) = "PLATFORM"
  BY <1>1, <1>2, <1>3, ScopesOfRoles DEF Act!MayImpersonate, Act!PlatformStaff
<1>5. Act!Parses(carried)
  BY <1>1, <1>4, ClaimFields DEF Act!Parses
<1>6. carried \in session.agentClaims
  BY DEF SessionInv, SessionIsTheirs, AgentClaims
<1>7. QED
  BY <1>5, <1>6, ClaimFields DEF Act!ParseRoleGrants, Act!RolesOf

(* A permission announced is one some role of a consumer's holds, at himself, and *)
(* the agent holds it too: his grant of it is effective.                          *)
LEMMA ConsumersGetIt == ASSUME SessionInv PROVE Act!ConsumersGetWhatIsAnnounced
<1> SUFFICES ASSUME session # Act!NoSession, Act!ParsedRoles(subjectRoles) \subseteq Act!Consumers,
                    NEW key \in Act!Announced
             PROVE  Act!Admits(key)
  BY DEF Act!ConsumersGetWhatIsAnnounced, Act!Accepted
<1>1. PICK a \in Act!ParsedRoles(agentRoles) : key \in Act!Held[a]
  BY DEF Act!Announced, Act!ImpersonatedPermissions, Act!PermissionsFor
<1>2. PICK r \in Act!ParsedRoles(subjectRoles) : key \in Act!Held[r]
  BY DEF Act!Announced, Act!ImpersonatedPermissions, Act!PermissionsFor
<1> DEFINE given == Act!Claim(r, "self", None)
<1>3. r \in Act!RoleNames /\ r \in Act!Consumers
  BY <1>2, ParsedRolesAreRoles DEF SessionInv, RolesAreTyped
<1>4. key \in Act!PermissionKeys
  BY <1>2, <1>3, HeldKeys
<1>5. given \in session.claims /\ Act!Parses(given)
  BY <1>2, <1>3, ScopesOfRoles, ClaimFields
     DEF SessionInv, SessionIsTheirs, SubjectClaims, Act!Parses
<1>6. key \in Act!PermissionsFor(Act!RolesOf(Act!ParseRoleGrants(session.agentClaims)))
  BY <1>1, AgentsRolesCarry DEF Act!PermissionsFor
<1>7. given.role = r /\ given.at = "self"
  BY ClaimFields
<1>8. given \in Act!EffectiveGrants(session.claims, session.agentClaims)
  BY <1>2, <1>5, <1>6, <1>7 DEF Act!EffectiveGrants, Act!ParseRoleGrants
<1>9. Act!ScopeReaches(given, Act!FallbackResource(session.claims, Subject), Subject)
  BY <1>7, SessionConstants DEF Act!ScopeReaches, Act!FallbackResource
<1>10. QED
  BY <1>2, <1>4, <1>7, <1>8, <1>9, KeysAreNotOnesOwn, WhoIsPermitted DEF Act!Admits

(* Whatever a session admits comes with a consumer's role of the subject of which *)
(* the agent holds something; and that is announced.                              *)
LEMMA MoreWithItsRole == ASSUME SessionInv PROVE Act!UnannouncedOnlyWithItsRole
<1> SUFFICES ASSUME session # Act!NoSession, NEW key \in Act!PermissionKeys, Act!Admits(key)
             PROVE  \E role \in Act!ParsedRoles(subjectRoles) \cap Act!Consumers :
                       key \in Act!Held[role] /\ Act!Held[role] \cap Act!Announced # {}
  BY DEF Act!UnannouncedOnlyWithItsRole, Act!Accepted
<1>1. PICK given \in Act!EffectiveGrants(session.claims, session.agentClaims) :
         key \in Act!Held[given.role]
  BY KeysAreNotOnesOwn, WhoIsPermitted DEF Act!Admits
<1>2. given \in Act!ParseRoleGrants(session.claims)
  BY <1>1 DEF Act!EffectiveGrants
<1>3. /\ given.role \in subjectRoles \cap Act!Consumers
      /\ given = Act!Claim(given.role, "self", None)
  BY <1>2, SessionGrants
<1>4. given \in Act!ParseRoleGrants(Act!ClaimsOf(subjectRoles))
  BY <1>3, ParsedConsumers DEF SessionInv, RolesAreTyped
<1>5. given.role \in Act!ParsedRoles(subjectRoles)
  BY <1>4 DEF Act!ParsedRoles, Act!RolesOf
<1>6. PICK p \in Act!Held[given.role] :
         p \in Act!PermissionsFor(Act!RolesOf(Act!ParseRoleGrants(session.agentClaims)))
  BY <1>1 DEF Act!EffectiveGrants
<1>7. Act!RolesOf(Act!ParseRoleGrants(session.agentClaims)) \subseteq Act!ParsedRoles(agentRoles)
  BY ClaimFields DEF SessionInv, SessionIsTheirs, AgentClaims, Act!RolesOf, Act!ParseRoleGrants
<1>8. p \in Act!Announced
  BY <1>5, <1>6, <1>7 DEF Act!Announced, Act!ImpersonatedPermissions, Act!PermissionsFor
<1>9. QED
  BY <1>1, <1>3, <1>5, <1>6, <1>8

(* A grant of a user's claims reaches his gym, or himself. *)
LEMMA GrantsReach ==
    ASSUME NEW roles \in SUBSET Act!RoleNames, NEW given \in Act!ParseRoleGrants(Act!ClaimsOf(roles))
    PROVE  Act!ScopeReaches(given, [tenant |-> Gym, branch |-> None, subject |-> Subject], Subject)
<1>1. /\ given = Act!RoleScope(given.role, Gym) /\ given.role # "VISITOR"
      /\ given.role \in Act!RoleNames
      /\ given.role \notin Act!Consumers \cup Act!PlatformStaff => Gym # None
  BY ParsedClaims
<1>2. CASE given.role \in Act!Consumers
  BY <1>1, <1>2, ScopedClaims, ClaimFields, SessionConstants DEF Act!ScopeReaches
<1>3. CASE given.role \in Act!PlatformStaff
  BY <1>1, <1>3, ScopedClaims, ClaimFields DEF Act!ScopeReaches
<1>4. CASE given.role \notin Act!Consumers \cup Act!PlatformStaff
  BY <1>1, <1>4, ScopedClaims, ClaimFields DEF Act!ScopeReaches
<1>5. QED
  BY <1>2, <1>3, <1>4

(* The reasons the console shows are those of the grants that hold the key. *)
LEMMA ReasonsAreGrants ==
    ASSUME NEW roles \in SUBSET Act!RoleNames, NEW key \in Act!PermissionKeys
    PROVE  Act!Reasons(Act!ParseRoleGrants(Act!ClaimsOf(roles)), key) # {}
           <=> \E given \in Act!ParseRoleGrants(Act!ClaimsOf(roles)) : key \in Act!Held[given.role]
<1> DEFINE grants == Act!ParseRoleGrants(Act!ClaimsOf(roles))
           holding == {given \in grants : key \in Act!Held[given.role]}
<1>1. ASSUME NEW reason \in Act!Reasons(grants, key)
      PROVE  \E given \in grants : key \in Act!Held[given.role]
  BY <1>1 DEF Act!Reasons
<1>2. ASSUME NEW given \in grants, key \in Act!Held[given.role]
      PROVE  Act!Reasons(grants, key) # {}
  <2>1. given.role \in Act!RoleNames
    BY ParsedClaims
  <2>2. PICK row \in Act!Matrix :
           given.role \in row.writers \cup row.readers /\ key \in Act!Keys(row)
    BY <1>2, <2>1, HeldKeys
  <2> DEFINE reason == <<given, row>>
  <2>3. given \in holding
    BY <1>2
  <2>4. reason \in holding \X Act!Matrix /\ reason[1] = given /\ reason[2] = row
    BY <2>3
  <2>5. reason \in Act!Reasons(grants, key)
    BY <2>2, <2>4 DEF Act!Reasons, Act!CapabilityDeclares
  <2>6. QED
    BY <2>5
<1>3. QED
  BY <1>1, <1>2

(* A reason is a grant that holds the key, and it reaches some resource. *)
LEMMA InspectorIsRight == ASSUME SessionInv PROVE Act!InspectorAgrees
<1> DEFINE grants == Act!ParseRoleGrants(Act!ClaimsOf(subjectRoles))
           resources == [tenant : {Gym, None}, branch : {None}, subject : {Subject, None}]
           near == [tenant |-> Gym, branch |-> None, subject |-> Subject]
<1>1. subjectRoles \in SUBSET Act!RoleNames
  BY DEF SessionInv, RolesAreTyped
<1>2. near \in resources
  OBVIOUS
<1>3. ASSUME NEW key \in Act!PermissionKeys
      PROVE  Act!Reasons(grants, key) # {}
             <=> \E resource \in resources : Act!Permits(key, grants, resource, Subject) = "allowed"
  <2>1. Act!Reasons(grants, key) # {} <=> \E given \in grants : key \in Act!Held[given.role]
    BY <1>1, ReasonsAreGrants
  <2>2. \A given \in grants : Act!ScopeReaches(given, near, Subject)
    BY <1>1, GrantsReach
  <2> HIDE DEF grants, resources, near
  <2>3. key \notin Act!SelfServicePermissions \cup Act!ScopedNonMatrixPermissions
    BY KeysAreNotOnesOwn
  <2>4. \A resource : Act!Permits(key, grants, resource, Subject) = "allowed" <=>
           \E given \in grants : /\ key \in Act!Held[given.role]
                                 /\ Act!ScopeReaches(given, resource, Subject)
    BY <2>3, WhoIsPermitted
  <2>5. QED
    BY <1>2, <2>1, <2>2, <2>4
<1>4. QED
  BY <1>3 DEF Act!InspectorAgrees, Act!Agrees

(* What the agent's console is told the session may do, it may where its subject  *)
(* is only a consumer; what it may besides comes with a role of which it was told *)
(* something; and the console of permissions shows a permission as held exactly   *)
(* where the guard admits it (effective-permissions.ts).                          *)
THEOREM ConsolesAlwaysTellTheTruth == MCSpec => []ConsolesTellTheTruth
<1>1. SessionInv => ConsolesTellTheTruth
  BY ConsumersGetIt, MoreWithItsRole, InspectorIsRight
     DEF ConsolesTellTheTruth, Act!ConsolesTellTheTruth
<1>2. QED
  BY <1>1, SessionIsAlwaysTheirs, PTL

-----------------------------------------------------------------------------
(* The changes of roles (TenantRoles).  Neither action property follows    *)
(* from the types: what a change read must still be related to the rows    *)
(* when it writes.  ChangesKnowWhatTheyDo says how: the owners it counted  *)
(* are owners still, or it was told who deposed them; the live rows it     *)
(* read are the live rows, or it was told of an overlap.                   *)

ChangeStates ==
    [at : {"idle", "read", "write", "invalidate"}, user : Users \cup {None},
     role : Roles \cup {None}, live : SUBSET Roles, owner : BOOLEAN,
     others : SUBSET Users, deposed : SUBSET Users, overlap : BOOLEAN]

JudgedRight(c) ==
    /\ req[c].user \in Users /\ req[c].role \in Roles
    /\ req[c].user \notin req[c].others
    /\ req[c].owner /\ req[c].role # Owner => req[c].others # {}

CountedRight(c) == req[c].others \subseteq Owners \cup req[c].deposed

ReadRight(c) == ~req[c].overlap => req[c].live = LiveRoles(req[c].user)

ChangesKnowWhatTheyDo ==
    \A c \in Changes :
        /\ req[c].at \in {"read", "write"} => JudgedRight(c) /\ CountedRight(c)
        /\ req[c].at = "write" => ReadRight(c)

HeldBySomebody == token.roles # {} => token.user \in Users

RolesInv ==
    /\ RoleTypes /\ ChangesKnowWhatTheyDo
    /\ HeldBySomebody /\ AuthorityEndsWithTheToken

USE RolesAssumption, LifeAssumption DEF Idle, NoToken, RowStates, At

-----------------------------------------------------------------------------
(* The rows of a user after a change of a role, as a type.                  *)
LEMMA RewrittenType ==
    ASSUME NEW row \in [Roles -> RowStates], NEW gone, NEW next
    PROVE  Rewritten(row, gone, next) \in [Roles -> RowStates]
BY DEF Rewritten

(* Before any change, nobody has a token and the gym has its first owner.   *)
LEMMA RolesInvInit == ASSUME Init PROVE RolesInv
<1>1. RoleTypes
  BY DEF Init, RoleTypes
<1>2. ChangesKnowWhatTheyDo /\ HeldBySomebody /\ AuthorityEndsWithTheToken
  BY DEF Init, ChangesKnowWhatTheyDo, HeldBySomebody, AuthorityEndsWithTheToken
<1>3. QED
  BY <1>1, <1>2 DEF RolesInv

-----------------------------------------------------------------------------
(* A step that leaves the rows and the token alone, and changes c only.     *)
LEMMA RowsStand ==
    ASSUME RolesInv, NEW c \in Changes, UNCHANGED <<grant, token, lost>>,
           RoleTypes', \A d \in Changes \ {c} : req'[d] = req[d],
           req'[c].at \in {"read", "write"} => (JudgedRight(c) /\ CountedRight(c))',
           req'[c].at = "write" => ReadRight(c)'
    PROVE  RolesInv'
<1>1. ChangesKnowWhatTheyDo'
  BY DEF RolesInv, ChangesKnowWhatTheyDo, JudgedRight, CountedRight, ReadRight, Owners, LiveRoles
<1>2. HeldBySomebody' /\ AuthorityEndsWithTheToken'
  BY DEF RolesInv, HeldBySomebody, AuthorityEndsWithTheToken
<1>3. QED
  BY <1>1, <1>2 DEF RolesInv

(* The judgement counts the other owners. *)
LEMMA JudgeStep ==
    ASSUME RolesInv, NEW c \in Changes, NEW u \in Users, NEW next \in Roles, Judge(c, u, next)
    PROVE  RolesInv'
<1> DEFINE owns == u \in Owners
           rest == Owners \ {u}
           new == [Idle EXCEPT !.at = "read", !.user = u, !.role = next, !.owner = owns,
                               !.others = rest]
<1>1. req' = [req EXCEPT ![c] = new]
  BY DEF Judge, OwnersOtherThan
<1>2. owns \in BOOLEAN /\ rest \subseteq Users
  BY DEF Owners
<1> HIDE DEF owns, rest
<1>3. new \in ChangeStates
  BY <1>2 DEF ChangeStates
<1>4. /\ new.user = u /\ new.role = next /\ new.at = "read"
      /\ new.others = rest /\ new.owner = owns
  OBVIOUS
<1> HIDE DEF new
<1>5. req \in [Changes -> ChangeStates]
  BY DEF RolesInv, RoleTypes, ChangeStates
<1>6. req' \in [Changes -> ChangeStates] /\ req'[c] = new
  BY <1>1, <1>3, <1>5
<1>7. UNCHANGED <<grant, token, lost>>
  BY DEF Judge
<1>8. RoleTypes'
  BY <1>6, <1>7 DEF RolesInv, RoleTypes, ChangeStates
<1>9. Owners' = Owners
  BY <1>7 DEF Owners
<1>10. next = Owner \/ ~owns \/ rest # {}
  BY DEF Judge, MayChangeRole, OwnersOtherThan, owns, rest
<1>11. (JudgedRight(c) /\ CountedRight(c))'
  BY <1>4, <1>6, <1>9, <1>10 DEF JudgedRight, CountedRight, rest
<1>12. \A d \in Changes \ {c} : req'[d] = req[d]
  BY <1>1, <1>5
<1>13. QED
  BY <1>4, <1>6, <1>7, <1>8, <1>11, <1>12, RowsStand

(* The live rows are read, and nobody has written yet. *)
LEMMA ReadLiveStep == ASSUME RolesInv, NEW c \in Changes, ReadLive(c) PROVE RolesInv'
<1>1. req' = [req EXCEPT ![c] = [req[c] EXCEPT !.at = "write", !.live = LiveRoles(req[c].user),
                                                !.overlap = FALSE]]
  BY DEF ReadLive, RolesInv, RoleTypes
<1>a. req[c] \in ChangeStates
  BY DEF RolesInv, RoleTypes, ChangeStates
<1>b. /\ req'[c].at = "write" /\ req'[c].live = LiveRoles(req[c].user)
      /\ req'[c].user = req[c].user /\ req'[c].role = req[c].role
      /\ req'[c].owner = req[c].owner /\ req'[c].others = req[c].others
      /\ req'[c].deposed = req[c].deposed /\ req'[c] \in ChangeStates
  BY <1>1, <1>a DEF ChangeStates, LiveRoles, RolesInv, RoleTypes
<1>2. RoleTypes'
  BY <1>1, <1>b DEF RolesInv, RoleTypes, ReadLive, ChangeStates
<1>3. (JudgedRight(c) /\ CountedRight(c) /\ ReadRight(c))'
  BY <1>b DEF RolesInv, ReadLive, ChangesKnowWhatTheyDo, JudgedRight, CountedRight,
              ReadRight, Owners, LiveRoles
<1>4. \A d \in Changes \ {c} : req'[d] = req[d]
  BY DEF RolesInv, RoleTypes, ReadLive
<1>5. QED
  BY <1>2, <1>3, <1>4, RowsStand DEF ReadLive

(* A change that has ended, well or badly, knows nothing any more.          *)
LEMMA EndStep == ASSUME RolesInv, NEW c \in Changes, Invalidate(c) \/ Fail(c) PROVE RolesInv'
<1>1. req' = [req EXCEPT ![c] = Idle] /\ UNCHANGED <<grant, token, lost>>
  BY DEF Invalidate, Fail
<1>2. RoleTypes'
  BY <1>1 DEF RolesInv, RoleTypes
<1>3. req'[c].at = "idle" /\ \A d \in Changes \ {c} : req'[d] = req[d]
  BY <1>1 DEF RolesInv, RoleTypes
<1>4. QED
  BY <1>1, <1>2, <1>3, RowsStand

-----------------------------------------------------------------------------
(* What a commit leaves: the rows of its user, and everybody else's as they *)
(* were.                                                                    *)
RowsWritten(c) ==
    /\ req[c].user \in Users /\ req[c].role \in Roles
    /\ grant'[req[c].user] =
          Rewritten(grant[req[c].user], req[c].live \ {req[c].role}, req[c].role)
    /\ \A v \in Users \ {req[c].user} : grant'[v] = grant[v]
    /\ grant' \in [Users -> [Roles -> RowStates]]

(* What a commit makes of the rows. *)
LEMMA Committed == ASSUME RolesInv, NEW c \in Changes, WriteRole(c) PROVE RowsWritten(c)
<1>1. req[c].user \in Users /\ req[c].role \in Roles
  BY DEF RolesInv, ChangesKnowWhatTheyDo, JudgedRight, WriteRole
<1>2. grant \in [Users -> [Roles -> RowStates]]
  BY DEF RolesInv, RoleTypes
<1>3. Rewritten(grant[req[c].user], req[c].live \ {req[c].role}, req[c].role)
         \in [Roles -> RowStates]
  BY <1>1, <1>2, RewrittenType
<1>4. grant' = [grant EXCEPT ![req[c].user] =
                   Rewritten(@, req[c].live \ {req[c].role}, req[c].role)]
  BY DEF WriteRole, Commit
<1>5. QED
  BY <1>1, <1>2, <1>3, <1>4 DEF RowsWritten

(* What another change d keeps and is told of it.                           *)
ToldOf(d, c) ==
    /\ req'[d].at = req[d].at /\ req'[d].user = req[d].user
    /\ req'[d].role = req[d].role /\ req'[d].owner = req[d].owner
    /\ req'[d].live = req[d].live /\ req'[d].others = req[d].others
    /\ req'[d].deposed = IF req[c].role # Owner
                         THEN req[d].deposed \cup ({req[c].user} \cap req[d].others)
                         ELSE req[d].deposed
    /\ req'[d].overlap <=>
          req[d].overlap \/ (req[d].at = "write" /\ req[d].user = req[c].user)

(* The others are told of what a commit did. *)
LEMMA Told ==
    ASSUME RolesInv, NEW c \in Changes, WriteRole(c)
    PROVE  /\ req'[c] = [req[c] EXCEPT !.at = "invalidate"]
           /\ \A d \in Changes \ {c} : ToldOf(d, c)
           /\ RoleTypes'
<1>1. req' = [d \in Changes |-> Seen(d, c, req[c].user)]
  BY DEF WriteRole, Commit
<1>2. req'[c] = [req[c] EXCEPT !.at = "invalidate"]
  BY <1>1 DEF Seen
<1>3. req \in [Changes -> ChangeStates]
  BY DEF RolesInv, RoleTypes, ChangeStates
<1>4. ASSUME NEW d \in Changes \ {c} PROVE req'[d] \in ChangeStates /\ ToldOf(d, c)
  <2>1. req'[d] = [req[d] EXCEPT
                      !.deposed = IF req[c].role # Owner
                                  THEN @ \cup ({req[c].user} \cap req[d].others) ELSE @,
                      !.overlap = @ \/ (req[d].at = "write" /\ req[d].user = req[c].user)]
    BY <1>1 DEF Seen
  <2>2. req[d] \in ChangeStates
    BY <1>3
  <2> DEFINE said == req[d].overlap \/ (req[d].at = "write" /\ req[d].user = req[c].user)
             gone == IF req[c].role # Owner
                     THEN req[d].deposed \cup ({req[c].user} \cap req[d].others)
                     ELSE req[d].deposed
  <2>3. said \in BOOLEAN /\ gone \subseteq Users
    BY <2>2 DEF ChangeStates
  <2>4. req'[d] = [req[d] EXCEPT !.deposed = gone, !.overlap = said]
    BY <2>1
  <2> HIDE DEF said, gone
  <2>5. /\ req'[d] \in ChangeStates
        /\ req'[d].at = req[d].at /\ req'[d].user = req[d].user
        /\ req'[d].role = req[d].role /\ req'[d].owner = req[d].owner
        /\ req'[d].live = req[d].live /\ req'[d].others = req[d].others
        /\ req'[d].deposed = gone /\ req'[d].overlap = said
    BY <2>2, <2>3, <2>4 DEF ChangeStates
  <2>6. QED
    BY <2>5 DEF ToldOf, said, gone
<1>5. req'[c] \in ChangeStates
  BY <1>2, <1>3 DEF ChangeStates
<1>6. req' \in [Changes -> ChangeStates]
  BY <1>1, <1>4, <1>5
<1>7. token' = token /\ lost' \in [Roles -> 0 .. AccessLife]
  BY DEF RolesInv, RoleTypes, WriteRole, Commit
<1>8. RowsWritten(c)
  BY Committed
<1>9. RoleTypes'
  BY <1>6, <1>7, <1>8 DEF RolesInv, RoleTypes, RowsWritten, ChangeStates
<1>10. QED
  BY <1>2, <1>4, <1>9

(* A write is of what was judged; who judged earlier is told. *)
LEMMA WriteRoleStep == ASSUME RolesInv, NEW c \in Changes, WriteRole(c) PROVE RolesInv'
<1>a. RowsWritten(c)
  BY Committed
<1>b. /\ req'[c] = [req[c] EXCEPT !.at = "invalidate"]
      /\ \A d \in Changes \ {c} : ToldOf(d, c)
      /\ RoleTypes'
  BY Told
<1>c. req[c] \in ChangeStates
  BY DEF RolesInv, RoleTypes, ChangeStates
<1>1. RoleTypes' /\ token' = token
  BY <1>b DEF WriteRole, Commit
<1>2. ChangesKnowWhatTheyDo'
  <2>1. SUFFICES ASSUME NEW d \in Changes, req'[d].at \in {"read", "write"}
                 PROVE  /\ (JudgedRight(d) /\ CountedRight(d))'
                        /\ req'[d].at = "write" => ReadRight(d)'
    BY DEF ChangesKnowWhatTheyDo
  <2>2. d # c
    BY <2>1, <1>b, <1>c DEF ChangeStates
  <2>t. ToldOf(d, c)
    BY <1>b, <2>2
  <2>3. JudgedRight(d) /\ CountedRight(d) /\ (req[d].at = "write" => ReadRight(d))
    BY <2>1, <2>t DEF RolesInv, ChangesKnowWhatTheyDo, ToldOf
  <2>4. JudgedRight(d)'
    BY <2>3, <2>t DEF JudgedRight, ToldOf
  <2>5. CountedRight(d)'
    <3>1. \A v \in Owners : v \in Owners' \/ (v = req[c].user /\ req[c].role # Owner)
      BY <1>a DEF Owners, Rewritten, RowsWritten
    <3>2. QED
      BY <2>3, <2>t, <3>1 DEF CountedRight, ToldOf
  <2>6. req'[d].at = "write" => ReadRight(d)'
    <3>1. SUFFICES ASSUME req'[d].at = "write", ~req'[d].overlap
                   PROVE  req'[d].live = LiveRoles(req[d].user)'
      BY DEF ReadRight
    <3>2. req[d].user # req[c].user /\ ~req[d].overlap /\ req[d].at = "write"
      BY <2>t, <3>1 DEF ToldOf
    <3>3. req[d].user \in Users \ {req[c].user}
      BY <2>3, <3>2 DEF JudgedRight
    <3>4. req'[d].user = req[d].user /\ req'[d].live = req[d].live
      BY <2>t DEF ToldOf
    <3>5. grant'[req[d].user] = grant[req[d].user]
      BY <3>3, <1>a DEF RowsWritten
    <3>6. LiveRoles(req[d].user)' = LiveRoles(req[d].user)
      BY <3>4, <3>5 DEF LiveRoles
    <3>7. QED
      BY <2>3, <3>2, <3>4, <3>6 DEF ReadRight
  <2>7. QED
    BY <2>4, <2>5, <2>6
<1>3. HeldBySomebody'
  BY <1>1 DEF RolesInv, HeldBySomebody
<1>4. AuthorityEndsWithTheToken'
  <2>1. SUFFICES ASSUME NEW r \in token.roles
                 PROVE  grant'[token.user][r] = "live" \/ lost'[r] + token.left <= AccessLife
    BY <1>1 DEF AuthorityEndsWithTheToken
  <2>2. r \in Roles /\ token.user \in Users /\ token.left \in 0 .. AccessLife
    BY <2>1 DEF RolesInv, RoleTypes, HeldBySomebody
  <2>3. lost'[r] = IF token.user = req[c].user /\ grant[req[c].user][r] = "live"
                      /\ grant'[req[c].user][r] # "live" THEN 0 ELSE lost[r]
    BY <2>2 DEF WriteRole, Commit
  <2>4. grant[token.user][r] = "live" \/ lost[r] + token.left <= AccessLife
    BY <2>1 DEF RolesInv, AuthorityEndsWithTheToken
  <2>5. QED
    BY <2>2, <2>3, <2>4, <1>a DEF RowsWritten
<1>5. QED
  BY <1>1, <1>2, <1>3, <1>4 DEF RolesInv

-----------------------------------------------------------------------------
(* A token carries the live rows of its user. *)
LEMMA SignStep == ASSUME RolesInv, NEW u \in Users, Sign(u) PROVE RolesInv'
<1>1. RoleTypes'
  BY DEF RolesInv, RoleTypes, Sign, LiveRoles
<1>2. ChangesKnowWhatTheyDo'
  BY DEF RolesInv, Sign, ChangesKnowWhatTheyDo, JudgedRight, CountedRight, ReadRight, Owners, LiveRoles
<1>3. HeldBySomebody' /\ AuthorityEndsWithTheToken'
  BY DEF Sign, LiveRoles, HeldBySomebody, AuthorityEndsWithTheToken
<1>4. QED
  BY <1>1, <1>2, <1>3 DEF RolesInv

(* Time passes, for the token and for the roles it has lost. *)
LEMMA TickStep == ASSUME RolesInv, Tick PROVE RolesInv'
<1>1. RoleTypes'
  BY DEF RolesInv, RoleTypes, Tick
<1>2. ChangesKnowWhatTheyDo'
  BY DEF RolesInv, Tick, ChangesKnowWhatTheyDo, JudgedRight, CountedRight, ReadRight, Owners, LiveRoles
<1>3. HeldBySomebody'
  BY DEF RolesInv, RoleTypes, Tick, HeldBySomebody
<1>4. AuthorityEndsWithTheToken'
  BY DEF RolesInv, RoleTypes, Tick, AuthorityEndsWithTheToken
<1>5. QED
  BY <1>1, <1>2, <1>3, <1>4 DEF RolesInv

(* Every step of every change. *)
LEMMA RolesInvStep == ASSUME RolesInv, [Next]_vars PROVE RolesInv'
<1>1. ASSUME UNCHANGED vars PROVE RolesInv'
  BY <1>1 DEF vars, RolesInv, RoleTypes, ChangesKnowWhatTheyDo, JudgedRight, CountedRight, ReadRight,
              Owners, LiveRoles, HeldBySomebody, AuthorityEndsWithTheToken
<1>2. ASSUME NEW c \in Changes,
             \/ \E u \in Users, r \in Roles : Judge(c, u, r)
             \/ ReadLive(c) \/ WriteRole(c) \/ Invalidate(c) \/ Fail(c)
      PROVE  RolesInv'
  BY <1>2, JudgeStep, ReadLiveStep, WriteRoleStep, EndStep
<1>3. QED
  BY <1>1, <1>2, SignStep, TickStep DEF Next

-----------------------------------------------------------------------------
(* Only a change that writes takes an owner, and its own user at that.      *)
LEMMA TakesAnOwner ==
    ASSUME RolesInv, [Next]_vars, Owners' # Owners
    PROVE  \E c \in Changes : WriteRole(c)
BY DEF vars, Next, Judge, ReadLive, Invalidate, Fail, Sign, Tick, Owners

(* The last owner goes only with a change that another overlapped. *)
LEMMA LastOwnerStep ==
    ASSUME RolesInv, [Next]_vars, Owners # {}, Owners' = {}
    PROVE  \E c \in Changes : At(c, "write") /\ (req[c].owner => req[c].deposed # {})
<1>1. PICK c \in Changes : WriteRole(c)
  BY TakesAnOwner
<1>2. JudgedRight(c) /\ CountedRight(c)
  BY <1>1 DEF RolesInv, ChangesKnowWhatTheyDo, WriteRole
<1>w. RowsWritten(c)
  BY <1>1, Committed
<1>3. req[c].role # Owner /\ Owners \subseteq {req[c].user}
  BY <1>w DEF Owners, Rewritten, RowsWritten
<1>4. req[c].owner => req[c].deposed # {}
  BY <1>2, <1>3 DEF JudgedRight, CountedRight
<1>5. QED
  BY <1>1, <1>4 DEF WriteRole

(* A change nobody overlapped leaves the one role it was asked for. *)
LEMMA ReplacedStep ==
    ASSUME RolesInv, [Next]_vars, NEW c \in Changes,
           At(c, "write"), req'[c].at = "invalidate", ~req[c].overlap
    PROVE  LiveRoles(req[c].user)' = {req[c].role}
<1>r. req \in [Changes -> ChangeStates]
  BY DEF RolesInv, RoleTypes, ChangeStates
<1>s. req' # req
  OBVIOUS
<1>j. ~\E d \in Changes, u \in Users, r \in Roles : Judge(d, u, r)
  <2>1. SUFFICES ASSUME NEW d \in Changes, NEW u \in Users, NEW r \in Roles, Judge(d, u, r)
                 PROVE  FALSE
    OBVIOUS
  <2>2. d # c /\ req'[c] = req[c]
    BY <2>1, <1>r DEF Judge
  <2>3. QED
    BY <2>2
<1>l. ~\E d \in Changes : ReadLive(d)
  BY <1>r DEF ReadLive, ChangeStates
<1>f. ~\E d \in Changes : Invalidate(d) \/ Fail(d)
  BY <1>r DEF Invalidate, Fail
<1>1. PICK d \in Changes : WriteRole(d)
  BY <1>s, <1>j, <1>l, <1>f DEF vars, Next, Sign, Tick
<1>2. /\ req'[d] = [req[d] EXCEPT !.at = "invalidate"]
      /\ \A e \in Changes \ {d} : ToldOf(e, d)
  BY <1>1, Told
<1>3. d = c
  BY <1>2 DEF ToldOf
<1>4. req'[c].user = req[c].user
  BY <1>2, <1>3 DEF RolesInv, RoleTypes
<1>5. req[c].live = LiveRoles(req[c].user)
  BY DEF RolesInv, ChangesKnowWhatTheyDo, ReadRight
<1>6. RowsWritten(c)
  BY <1>1, <1>3, Committed
<1>7. QED
  BY <1>4, <1>5, <1>6 DEF LiveRoles, Rewritten, RowsWritten

-----------------------------------------------------------------------------
(* What a change read is so when it writes, or it was told: the inductive   *)
(* invariant of the changes and of the token.                               *)
THEOREM RolesAreGrounded == Spec => []RolesInv
BY RolesInvInit, RolesInvStep, PTL DEF Spec

(* The roles in a token are those of its user, or were within its lifetime  *)
(* (roleScopesFor of user.prisma-repository.ts).                            *)
THEOREM ClaimsEnd == Spec => []ClaimsEndWithTheToken
<1>1. RolesInv => ClaimsEndWithTheToken
  BY DEF RolesInv, ClaimsEndWithTheToken
<1>2. QED
  BY <1>1, RolesAreGrounded, PTL

(* A last owner goes only where two changes overlap, and a change nobody    *)
(* overlapped leaves the one role it was asked for                          *)
(* (change-user-role.use-case.ts, user-role.prisma-repository.ts).          *)
THEOREM RolesChangeAsJudged == Spec => ChangesAreAsJudged
<1>1. RolesInv /\ [Next]_vars =>
        [Owners # {} /\ Owners' = {} =>
           \E c \in Changes : At(c, "write") /\ (req[c].owner => req[c].deposed # {})]_vars
  BY LastOwnerStep
<1>2. RolesInv /\ [Next]_vars =>
        [\A c \in Changes :
           At(c, "write") /\ req'[c].at = "invalidate" /\ ~req[c].overlap =>
               LiveRoles(req[c].user)' = {req[c].role}]_vars
  BY ReplacedStep DEF RolesInv
<1>3. QED
  BY <1>1, <1>2, RolesAreGrounded, PTL
     DEF Spec, ChangesAreAsJudged, LastOwnerGoesOnlyByOverlap, ReplacedMeansReplaced
=============================================================================
