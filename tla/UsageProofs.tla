----------------------------- MODULE UsageProofs -----------------------------
(***************************************************************************)
(* UsageCollector.tla, for any panes, sessions, trees and capacities:      *)
(* what is billed for a session stays within what it used, and what is     *)
(* not billed is accounted for.                                            *)
(***************************************************************************)
EXTENDS UsageCollector, FiniteSetTheorems, TLAPS

USE ShownAssumption, SessionsAssumption, TreeAssumption, BoundsAssumption

\* What TypeOK leaves out because only the proofs need it.
ChannelTypes ==
  /\ reqMap \in PaneMaps /\ syncs \in Seq(PaneMaps)
  /\ transitions \in Seq([pane : Panes, working : BOOLEAN])
  /\ down \in BOOLEAN
  /\ store \in [Sessions -> Nat] /\ accrued \in [Sessions -> Nat]

(* The account of one session. Billed is what its cursor has passed; what  *)
(* the store shows beyond the cursor is still owed.                        *)
Account(s) ==
  /\ store[s] <= 1 + accrued[s]
  /\ 0 <= billed[s] /\ billed[s] <= accrued[s]
  /\ s \notin DOMAIN cursors => billed[s] = 0
  /\ s \in DOMAIN cursors =>
       /\ cursors[s] \in Nat /\ cursors[s] <= 1 + accrued[s]
       /\ store[s] > cursors[s] => billed[s] + (store[s] - cursors[s]) <= accrued[s]
       /\ store[s] = 1 + accrued[s] =>
            billed[s] + missed[s] + (store[s] - cursors[s]) = accrued[s]

Types == TypeOK /\ ChannelTypes
Accounts == \A s \in Sessions : Account(s)
Inv == Types /\ Accounts

\* A session is never billed more than it used, and never less than before.
WithinUse == /\ \A s \in Sessions : billed[s] <= billed'[s] /\ billed'[s] <= accrued[s]
             /\ billed' \in [Sessions -> Nat]

-----------------------------------------------------------------------------
(* One poll.                                                               *)

UsageTypes ==
  /\ DOMAIN cursors \subseteq Sessions /\ \A s \in DOMAIN cursors : cursors[s] \in Nat
  /\ deltas \in 0..DeltaCap
  /\ billed \in [Sessions -> Int] /\ missed \in [Sessions -> Int]
  /\ fell \subseteq DOMAIN cursors

LEMMA DeltasFit ==
  ASSUME Inv, NEW grown \in SUBSET Sessions, NEW sent \in SUBSET grown,
         emitDelta(grown, sent)
  PROVE  deltas' \in 0..DeltaCap
<1>1. IsFiniteSet(grown) /\ IsFiniteSet(sent)
  BY FS_Subset
<1>2. Cardinality(grown) \in Nat /\ Cardinality(sent) \in Nat
  BY <1>1, FS_CardinalityType
<1> QED
  BY <1>2 DEF Inv, Types, TypeOK, emitDelta, Lesser

LEMMA PollKeeps ==
  ASSUME Inv, NEW pane \in PaneState, pollPane(pane), UNCHANGED <<store, accrued>>
  PROVE  UsageTypes' /\ Accounts' /\ WithinUse
<1>1. CASE UNCHANGED usageVars
  BY <1>1 DEF usageVars, Inv, Types, TypeOK, ChannelTypes, UsageTypes, Accounts, Account,
     WithinUse
<1>2. CASE ~(pane.closing \/ pane.session = None \/ down)
  <2> DEFINE polled == Tree[pane.session]
             grown == {s \in polled : diffAndRecord(s) # 0}
  <2>1. pane.session \in Sessions /\ polled \in SUBSET Sessions
    BY <1>2 DEF PaneState
  <2>2. PICK sent \in SUBSET grown :
          /\ emitDelta(grown, sent)
          /\ missed' = [s \in Sessions |->
                          IF s \in (polled \cap fell) \cup (grown \ sent)
                            THEN missed[s] + Growth(s)
                          ELSE IF s \in polled \ DOMAIN cursors THEN accrued[s] ELSE missed[s]]
          /\ fell' = fell \ polled
          /\ cursors' = [s \in DOMAIN cursors \cup polled |->
                           IF s \in polled THEN store[s] ELSE cursors[s]]
    BY <1>2 DEF pollPane
  <2>3. deltas' \in 0..DeltaCap
    BY <2>1, <2>2, DeltasFit
  <2>4. billed' = [s \in Sessions |-> IF s \in sent THEN billed[s] + diffAndRecord(s) ELSE billed[s]]
    BY <2>2 DEF emitDelta
  <2>5. \A s \in Sessions : /\ store[s] \in Nat /\ accrued[s] \in Nat
                            /\ billed[s] \in Int /\ missed[s] \in Int /\ Account(s)
    BY DEF Inv, Types, TypeOK, ChannelTypes, Accounts
  <2>6. \A s \in Sessions : Growth(s) \in Nat /\ diffAndRecord(s) \in Nat
    BY <2>5 DEF diffAndRecord, Growth, Account
  <2>11. fell \subseteq DOMAIN cursors
    BY DEF Inv, Types, TypeOK
  <2>7. ASSUME NEW s \in Sessions
        PROVE  Account(s)' /\ billed[s] <= billed'[s] /\ billed'[s] <= accrued[s]
    <3>1. CASE s \in sent
      BY <2>1, <2>2, <2>4, <2>5, <3>1 DEF diffAndRecord, Growth, Account
    <3>2. CASE s \in grown \ sent
      BY <2>1, <2>2, <2>4, <2>5, <3>2 DEF diffAndRecord, Growth, Account
    <3>5. CASE s \in polled \cap fell
      BY <2>1, <2>2, <2>4, <2>5, <2>11, <3>5 DEF diffAndRecord, Growth, Account
    <3>3. CASE s \in polled \ (grown \cup fell)
      BY <2>1, <2>2, <2>4, <2>5, <3>3 DEF diffAndRecord, Growth, Account
    <3>4. CASE s \notin polled
      BY <2>1, <2>2, <2>4, <2>5, <3>4 DEF Account
    <3> QED
      BY <3>1, <3>2, <3>3, <3>4, <3>5
  <2>8. billed' \in [Sessions -> Int] /\ missed' \in [Sessions -> Int]
    BY <2>2, <2>4, <2>5, <2>6
  <2>9. billed' \in [Sessions -> Nat]
    BY <2>7, <2>8 DEF Account
  <2>10. DOMAIN cursors' \subseteq Sessions /\ \A s \in DOMAIN cursors' : cursors'[s] \in Nat
    BY <2>1, <2>2, <2>5 DEF Inv, Types, TypeOK
  <2>12. fell' \subseteq DOMAIN cursors'
    BY <2>2, <2>11
  <2> QED
    BY <2>3, <2>7, <2>8, <2>9, <2>10, <2>12 DEF UsageTypes, Accounts, WithinUse
<1> QED
  BY <1>1, <1>2 DEF pollPane

LEMMA PollInMapKeeps ==
  ASSUME Inv, NEW p \in Panes, NEW panes \in PaneMaps, pollPaneInMap(p, panes),
         UNCHANGED <<store, accrued>>
  PROVE  UsageTypes' /\ Accounts' /\ WithinUse
<1>1. CASE Gone(p, panes)
  BY <1>1 DEF pollPaneInMap, usageVars, Inv, Types, TypeOK, ChannelTypes, UsageTypes,
     Accounts, Account, WithinUse
<1>2. CASE ~Gone(p, panes)
  <2>1. panes[p] \in PaneState
    BY <1>2 DEF Gone, PaneMaps
  <2> QED
    BY <1>2, <2>1, PollKeeps DEF pollPaneInMap
<1> QED
  BY <1>1, <1>2

-----------------------------------------------------------------------------
(* The rest of the types.                                                  *)

OtherTypes ==
  /\ live \in PaneMaps /\ map \in PaneMaps
  /\ active \subseteq Panes /\ todo \subseteq Panes
  /\ job \in {"none", "sync", "poll"} /\ req \in {"idle", "request", "drain", "send"}
  /\ Len(syncs) <= 1 /\ Len(transitions) <= TransitionCap
  /\ ChannelTypes

LEMMA TypesSplit == /\ Types => OtherTypes /\ UsageTypes
                    /\ OtherTypes' /\ UsageTypes' => Types'
  BY DEF Types, TypeOK, OtherTypes, UsageTypes

\* What leaves the accounts and the store alone.
LEMMA UsageUnchanged ==
  ASSUME Inv, UNCHANGED <<usageVars, store, accrued>> PROVE UsageTypes' /\ Accounts'
  BY DEF usageVars, Inv, Types, TypeOK, ChannelTypes, UsageTypes, Accounts, Account

LEMMA MapOf == ASSUME NEW P \in SUBSET Panes, NEW f \in [P -> PaneState] PROVE f \in PaneMaps
  BY DEF PaneMaps

LEMMA MapHas ==
  ASSUME NEW f \in PaneMaps
  PROVE  DOMAIN f \in SUBSET Panes /\ f \in [DOMAIN f -> PaneState]
  BY DEF PaneMaps

LEMMA WorkingArePanes == ASSUME NEW view \in PaneMaps PROVE Working(view) \subseteq Panes
  BY DEF Working, PaneMaps

LEMMA ViewsAreMaps == Views \subseteq PaneMaps
  BY DEF Views, PaneMaps

LEMMA Initially == Init => Inv
<1> SUFFICES ASSUME Init PROVE Inv
  OBVIOUS
<1> USE DEF Init
<1>1. OtherTypes
  <2>1. live \in PaneMaps /\ reqMap \in PaneMaps
    BY ViewsAreMaps
  <2>2. map \in PaneMaps
    <3>1. map \in [{} -> PaneState]
      OBVIOUS
    <3> QED
      BY <3>1, MapOf
  <2>3. syncs \in Seq(PaneMaps) /\ transitions \in Seq([pane : Panes, working : BOOLEAN])
    OBVIOUS
  <2>4. Len(syncs) <= 1 /\ Len(transitions) <= TransitionCap
    OBVIOUS
  <2>5. down \in BOOLEAN
    OBVIOUS
  <2> QED
    BY <2>1, <2>2, <2>3, <2>4, <2>5 DEF OtherTypes, ChannelTypes
<1>2. UsageTypes /\ Accounts
  BY DEF UsageTypes, Accounts, Account
<1> QED
  BY <1>1, <1>2 DEF Inv, Types, TypeOK, OtherTypes, UsageTypes

-----------------------------------------------------------------------------
(* The event loop.                                                         *)

\* A channel of capacity c, with a send that drops.
LEMMA SendFits ==
  ASSUME NEW S, NEW q \in Seq(S), NEW x \in S, NEW c \in Nat, Len(q) <= c,
         NEW r, r = IF Len(q) = c THEN q ELSE Append(q, x)
  PROVE  r \in Seq(S) /\ Len(r) <= c
<1>1. CASE Len(q) = c
  BY <1>1
<1>2. CASE Len(q) # c
  BY <1>2
<1> QED
  BY <1>1, <1>2

LEMMA Single ==
  ASSUME NEW S, NEW x \in S
  PROVE  /\ <<x>> \in Seq(S) /\ Len(<<x>>) = 1
         /\ <<>> \in Seq(S) /\ Len(<<>>) = 0
  OBVIOUS

LEMMA TrackedKeeps ==
  ASSUME Inv, Tracked \/ \E p \in Panes : EvictExpired(p)
  PROVE  OtherTypes' /\ UNCHANGED <<usageVars, store, accrued>>
<1> USE DEF Inv, Types, TypeOK, ChannelTypes, OtherTypes
<1>1. ASSUME NEW p \in Panes, NEW working \in BOOLEAN, NotifyTransition(p, working)
      PROVE  OtherTypes' /\ UNCHANGED <<usageVars, store, accrued>>
  <2> USE <1>1 DEF NotifyTransition, TrackerChanges, storeVars, runVars
  <2>0. DOMAIN live \in SUBSET Panes /\ live \in [DOMAIN live -> PaneState]
    BY MapHas
  <2>1. live' \in PaneMaps
    <3>1. live' \in [DOMAIN live -> PaneState]
      BY ZenonT(40), <2>0 DEF PaneState
    <3> QED
      BY <2>0, <3>1, MapOf
  <2> DEFINE t == [pane |-> p, working |-> working]
  <2>3. t \in [pane : Panes, working : BOOLEAN]
    OBVIOUS
  <2> HIDE DEF t
  <2>4. transitions' = IF Len(transitions) = TransitionCap THEN transitions
                       ELSE Append(transitions, t)
    BY DEF t
  <2>5. transitions' \in Seq([pane : Panes, working : BOOLEAN]) /\ Len(transitions') <= TransitionCap
    <3> DEFINE S == [pane : Panes, working : BOOLEAN]
    <3>1. transitions \in Seq(S) /\ Len(transitions) <= TransitionCap /\ TransitionCap \in Nat
      OBVIOUS
    <3>2. t \in S
      BY <2>3
    <3> HIDE DEF S
    <3>3. transitions' \in Seq(S) /\ Len(transitions') <= TransitionCap
      BY <2>4, <3>1, <3>2, SendFits
    <3> QED
      BY <3>3 DEF S
  <2> QED
    BY <2>1, <2>5
<1>2. ASSUME NEW p \in Panes, PaneCreated(p) \/ FirstSeenWorking(p)
      PROVE  OtherTypes' /\ UNCHANGED <<usageVars, store, accrued>>
  <2>0. PICK r \in PaneState : live' = Put(live, p, r)
    BY <1>2 DEF PaneCreated, FirstSeenWorking, PaneState, Blank
  <2>1. live' \in PaneMaps
    <3>1. DOMAIN live \in SUBSET Panes /\ live \in [DOMAIN live -> PaneState]
      BY MapHas
    <3>2. live' \in [DOMAIN live \cup {p} -> PaneState]
      BY <2>0, <3>1 DEF Put
    <3> QED
      BY <3>1, <3>2, MapOf
  <2> QED
    BY <1>2, <2>1 DEF PaneCreated, FirstSeenWorking, TrackerChanges, storeVars, runVars
<1>3. ASSUME NEW p \in Panes, PaneCloses(p)
      PROVE  OtherTypes' /\ UNCHANGED <<usageVars, store, accrued>>
  <2>1. live' \in PaneMaps
    <3>1. DOMAIN live \in SUBSET Panes /\ live \in [DOMAIN live -> PaneState]
      BY MapHas
    <3>2. live' \in [DOMAIN live -> PaneState]
      BY ZenonT(40), <1>3, <3>1 DEF PaneCloses, PaneState
    <3> QED
      BY <3>1, <3>2, MapOf
  <2> QED
    BY <1>3, <2>1 DEF PaneCloses, TrackerChanges, storeVars, runVars
<1>4. ASSUME NEW view \in Views, ApplySnapshot(view)
      PROVE  OtherTypes' /\ UNCHANGED <<usageVars, store, accrued>>
  BY <1>4, ViewsAreMaps DEF ApplySnapshot, TrackerChanges, storeVars, runVars
<1>5. ASSUME NEW p \in Panes, EvictExpired(p)
      PROVE  OtherTypes' /\ UNCHANGED <<usageVars, store, accrued>>
  <2>1. live' \in PaneMaps
    <3>1. DOMAIN live \in SUBSET Panes /\ live \in [DOMAIN live -> PaneState]
      BY MapHas
    <3>2. live' \in [DOMAIN live \ {p} -> PaneState]
      BY <1>5, <3>1 DEF EvictExpired, Without
    <3> QED
      BY <3>1, <3>2, MapOf
  <2> QED
    BY <1>5, <2>1 DEF EvictExpired, storeVars, runVars
<1> QED
  BY <1>1, <1>2, <1>3, <1>4, <1>5 DEF Tracked

LEMMA LoopKeeps ==
  ASSUME Inv, Loop
  PROVE  OtherTypes' /\ UsageTypes' /\ Accounts' /\ UNCHANGED <<accrued, billed>>
<1> USE DEF Inv, Types, TypeOK, ChannelTypes, OtherTypes
<1>1. CASE RequestSync \/ DrainSync \/ SendSync
  <2>0. syncs' = syncs \/ syncs' = <<>> \/ syncs' = <<reqMap>>
    BY <1>1 DEF RequestSync, DrainSync, SendSync
  <2>1. syncs' \in Seq(PaneMaps) /\ Len(syncs') <= 1
    <3>1. CASE syncs' = syncs
      BY <3>1
    <3>2. CASE syncs' = <<>>
      BY <3>2
    <3>3. CASE syncs' = <<reqMap>>
      BY <3>3, Single
    <3> QED
      BY <2>0, <3>1, <3>2, <3>3
  <2>4. req' \in {"idle", "request", "drain", "send"}
    BY <1>1 DEF RequestSync, DrainSync, SendSync
  <2>2. UNCHANGED reqKeeps
    BY <1>1 DEF RequestSync, DrainSync, SendSync
  <2>3. UNCHANGED <<usageVars, store, accrued>>
    BY <2>2 DEF reqKeeps, storeVars
  <2> QED
    BY <2>1, <2>2, <2>3, <2>4, UsageUnchanged DEF reqKeeps, storeVars, runVars, usageVars
<1>2. CASE ExportDelta
  <2>1. UsageTypes' /\ Accounts'
    BY <1>2 DEF ExportDelta, storeVars, UsageTypes, Accounts, Account
  <2> QED
    BY <1>2, <2>1 DEF ExportDelta, trackerVars, storeVars, runVars
<1> QED
  BY <1>1, <1>2 DEF Loop

-----------------------------------------------------------------------------
(* The store.                                                              *)

LEMMA AccrualOwed ==
  ASSUME NEW st \in Nat, NEW acc \in Nat, NEW b \in Int, NEW m \in Int, NEW c \in Nat,
         st = 1 + acc => b + m + (st - c) = acc
  PROVE  st + 1 = 1 + (acc + 1) => b + m + ((st + 1) - c) = acc + 1
  OBVIOUS

LEMMA AccrueKeeps ==
  ASSUME Inv, NEW s \in Sessions, Accrue(s), NEW t \in Sessions PROVE Account(t)'
<1>1. Account(t)
  BY DEF Inv, Accounts
<1>2. /\ billed[t] \in Int /\ missed[t] \in Int
      /\ store[t] \in Nat /\ accrued[t] \in Nat
  BY DEF Inv, Types, TypeOK, ChannelTypes
<1>3. cursors' = cursors /\ billed' = billed /\ missed' = missed
  BY DEF Accrue, storeKeeps, usageVars
<1>4. CASE t = s
  <2>1. store'[t] = store[t] + 1 /\ accrued'[t] = accrued[t] + 1
    BY <1>4 DEF Accrue, Inv, Types, ChannelTypes
  <2>2. CASE t \notin DOMAIN cursors
    BY <1>1, <1>2, <1>3, <2>1, <2>2 DEF Account
  <2>3. CASE t \in DOMAIN cursors
    <3>1. cursors[t] \in Nat /\ cursors[t] <= 1 + accrued[t]
      BY <1>1, <2>3 DEF Account
    <3>2. store[t] > cursors[t] => billed[t] + (store[t] - cursors[t]) <= accrued[t]
      BY <1>1, <2>3 DEF Account
    <3>3. store[t] = 1 + accrued[t] =>
            billed[t] + missed[t] + (store[t] - cursors[t]) = accrued[t]
      BY <1>1, <2>3 DEF Account
    <3>4. /\ store'[t] <= 1 + accrued'[t] /\ 0 <= billed'[t] /\ billed'[t] <= accrued'[t]
          /\ cursors'[t] \in Nat /\ cursors'[t] <= 1 + accrued'[t]
      BY <1>1, <1>2, <1>3, <2>1, <3>1 DEF Account
    <3>5. store'[t] > cursors'[t] => billed'[t] + (store'[t] - cursors'[t]) <= accrued'[t]
      BY <1>1, <1>2, <1>3, <2>1, <3>1, <3>2 DEF Account
    <3>6. store'[t] = 1 + accrued'[t] =>
            billed'[t] + missed'[t] + (store'[t] - cursors'[t]) = accrued'[t]
      BY <1>2, <1>3, <2>1, <3>1, <3>3, AccrualOwed
    <3> QED
      BY <1>3, <2>3, <3>4, <3>5, <3>6 DEF Account
  <2> QED
    BY <2>2, <2>3
<1>5. CASE t # s
  <2>1. store'[t] = store[t] /\ accrued'[t] = accrued[t]
    BY <1>5 DEF Accrue, Inv, Types, ChannelTypes
  <2> QED
    BY <1>1, <1>3, <2>1 DEF Account
<1> QED
  BY <1>4, <1>5

LEMMA StoreKeeps ==
  ASSUME Inv, Store \/ Recover
  PROVE  /\ OtherTypes' /\ UsageTypes' /\ Accounts'
         /\ \/ UNCHANGED <<accrued, billed>>
            \/ UNCHANGED billed /\ \E s \in Sessions : accrued' = [accrued EXCEPT ![s] = @ + 1]
<1> USE DEF Inv, Types, TypeOK, ChannelTypes, OtherTypes, storeKeeps, trackerVars, runVars,
            usageVars, UsageTypes
<1>1. ASSUME NEW s \in Sessions, Accrue(s)
      PROVE  OtherTypes' /\ UsageTypes' /\ Accounts'
  <2>1. OtherTypes' /\ UsageTypes'
    BY <1>1 DEF Accrue
  <2>2. Accounts'
    BY <1>1, AccrueKeeps DEF Accounts
  <2> QED
    BY <2>1, <2>2
<1>2. ASSUME Fault PROVE OtherTypes' /\ UsageTypes' /\ Accounts'
  <2>1. down' \in BOOLEAN
    BY <1>2 DEF Fault
  <2>2. store' \in [Sessions -> Nat]
    <3>1. CASE UNCHANGED store
      BY <3>1
    <3>2. CASE \E s \in Sessions : store' = [store EXCEPT ![s] = 0]
      BY <3>2
    <3> QED
      BY <1>2, <3>1, <3>2 DEF Fault
  <2>3. OtherTypes' /\ UsageTypes'
    BY <1>2, <2>1, <2>2 DEF Fault
  <2>4. \A s \in Sessions : store'[s] = store[s] \/ store'[s] = 0
    BY <1>2 DEF Fault
  <2>5. Accounts'
    BY SMTT(30), <1>2, <2>4 DEF Fault, Accounts, Account
  <2> QED
    BY <2>3, <2>5
<1>3. ASSUME Recover PROVE OtherTypes' /\ UsageTypes' /\ Accounts'
  <2>1. down' \in BOOLEAN
    BY <1>3 DEF Recover
  <2> QED
    BY <1>3, <2>1 DEF Recover, Accounts, Account
<1>4. \A s \in Sessions : Accrue(s) => UNCHANGED billed /\ accrued' = [accrued EXCEPT ![s] = @ + 1]
  BY DEF Accrue
<1>5. Fault \/ Recover => UNCHANGED <<accrued, billed>>
  BY DEF Fault, Recover
<1> QED
  BY <1>1, <1>2, <1>3, <1>4, <1>5 DEF Store

-----------------------------------------------------------------------------
(* The collector. A step of it either leaves the accounts alone or polls.  *)

Accounted == UsageTypes' /\ Accounts' /\ (WithinUse \/ UNCHANGED billed)

LEMMA TransitionKeeps == ASSUME Inv, applyTransition PROVE OtherTypes' /\ Accounted
<1> DEFINE p == Head(transitions).pane
<1>1. p \in Panes /\ Tail(transitions) \in Seq([pane : Panes, working : BOOLEAN])
  <2> DEFINE S == [pane : Panes, working : BOOLEAN]
  <2>1. transitions \in Seq(S) /\ transitions # <<>>
    BY DEF applyTransition, Inv, Types, ChannelTypes
  <2> HIDE DEF S
  <2>2. Head(transitions) \in S /\ Tail(transitions) \in Seq(S)
    BY <2>1
  <2> QED
    BY <2>2 DEF S
<1>2. Len(Tail(transitions)) <= TransitionCap
  BY DEF applyTransition, Inv, Types, TypeOK, ChannelTypes
<1>3. active' \subseteq Panes
  BY <1>1 DEF applyTransition, StillActive, Inv, Types, TypeOK
<1>4. OtherTypes'
  BY <1>1, <1>2, <1>3 DEF applyTransition, OtherTypes, Inv, Types, TypeOK, ChannelTypes,
     runKeeps, trackerVars, storeVars
<1>5. UNCHANGED <<store, accrued>>
  BY DEF applyTransition, runKeeps, storeVars
<1>6. ASSUME pollPaneInMap(p, live) PROVE Accounted
  BY <1>1, <1>5, <1>6, PollInMapKeeps DEF Accounted, Inv, Types, TypeOK
<1>7. ASSUME UNCHANGED usageVars PROVE Accounted
  BY <1>5, <1>7, UsageUnchanged DEF Accounted, usageVars
<1>8. pollPaneInMap(p, live) \/ UNCHANGED usageVars
  BY DEF applyTransition
<1> QED
  BY <1>4, <1>6, <1>7, <1>8

LEMMA SyncKeeps ==
  ASSUME Inv, TakeSync \/ SelfHeal \/ SyncFinish \/ PollTick \/ PollFinish
  PROVE  OtherTypes' /\ Accounted
<1> USE DEF Inv, Types, TypeOK, ChannelTypes, OtherTypes, runKeeps, trackerVars, storeVars
<1>1. UNCHANGED <<usageVars, store, accrued>>
  BY DEF TakeSync, SelfHeal, SyncFinish, PollTick, PollFinish
<1>2. CASE TakeSync
  <2>1. Head(syncs) \in PaneMaps
    BY <1>2 DEF TakeSync
  <2>2. <<>> \in Seq(PaneMaps) /\ Len(<<>>) <= 1
    OBVIOUS
  <2>3. Working(Head(syncs)) \subseteq Panes
    BY <2>1, WorkingArePanes
  <2> QED
    BY <1>1, <1>2, <2>1, <2>2, <2>3, UsageUnchanged DEF TakeSync, StartSync, Accounted, usageVars
<1>3. CASE SelfHeal
  BY <1>1, <1>3, WorkingArePanes, UsageUnchanged DEF SelfHeal, StartSync, Accounted, usageVars
<1>4. CASE SyncFinish \/ PollFinish
  <2>1. <<>> \in PaneMaps
    <3>1. <<>> \in [{} -> PaneState]
      OBVIOUS
    <3> QED
      BY <3>1, MapOf
  <2> QED
    BY <1>1, <1>4, <2>1, UsageUnchanged DEF SyncFinish, PollFinish, Accounted, usageVars
<1>5. CASE PollTick
  BY <1>1, <1>5, UsageUnchanged DEF PollTick, Accounted, usageVars
<1> QED
  BY <1>2, <1>3, <1>4, <1>5

LEMMA PollingKeeps ==
  ASSUME Inv, NEW p \in Panes, SyncPane(p) \/ PollActive(p)
  PROVE  OtherTypes' /\ Accounted
<1>1. UNCHANGED <<store, accrued>>
  BY DEF SyncPane, PollActive, runKeeps, storeVars
<1>2. OtherTypes'
  BY DEF SyncPane, PollActive, StillActive, OtherTypes, Inv, Types, TypeOK, ChannelTypes,
     runKeeps, trackerVars, storeVars
<1>3. ASSUME SyncPane(p) PROVE Accounted
  <2>1. CASE UNCHANGED usageVars
    BY <1>1, <2>1, UsageUnchanged DEF Accounted, usageVars
  <2>2. CASE p \in Working(live) /\ pollPane(live[p])
    <3>1. live[p] \in PaneState
      BY <2>2, MapHas DEF Working, Inv, Types, TypeOK
    <3> QED
      BY <1>1, <2>2, <3>1, PollKeeps DEF Accounted
  <2> QED
    BY <1>3, <2>1, <2>2 DEF SyncPane
<1>4. ASSUME PollActive(p) PROVE Accounted
  BY <1>1, <1>4, PollInMapKeeps DEF PollActive, Accounted, Inv, Types, TypeOK
<1> QED
  BY <1>2, <1>3, <1>4

-----------------------------------------------------------------------------
LEMMA Inductive == Inv /\ [Next]_vars => Inv' /\ [Bills!Next]_<<accrued, billed>>
<1> SUFFICES ASSUME Inv, [Next]_vars PROVE Inv' /\ [Bills!Next]_<<accrued, billed>>
  OBVIOUS
<1> USE DEF Bills!Next, Bills!Bill, Bills!Use
<1>1. OtherTypes' /\ UsageTypes' /\ Accounts' => Inv'
  BY TypesSplit DEF Inv
<1>2. CASE Tracked \/ \E p \in Panes : EvictExpired(p)
  BY <1>1, <1>2, TrackedKeeps, UsageUnchanged DEF usageVars
<1>3. CASE Loop
  BY <1>1, <1>3, LoopKeeps
<1>4. CASE Store \/ Recover
  BY <1>1, <1>4, StoreKeeps
<1>5. CASE applyTransition \/ TakeSync \/ SelfHeal \/ PollTick \/ Polling
  <2>1. OtherTypes' /\ Accounted
    BY <1>5, TransitionKeeps, SyncKeeps, PollingKeeps DEF Polling
  <2>2. UNCHANGED accrued
    BY <1>5 DEF Polling, applyTransition, TakeSync, SelfHeal, PollTick, SyncPane, PollActive,
       SyncFinish, PollFinish, runKeeps, storeVars
  <2> QED
    BY <1>1, <2>1, <2>2 DEF Accounted, WithinUse
<1>6. CASE UNCHANGED vars
  <2>1. UNCHANGED <<usageVars, store, accrued>>
    BY <1>6 DEF vars, storeVars
  <2>2. OtherTypes'
    BY <1>6 DEF vars, trackerVars, storeVars, runVars, OtherTypes, Inv, Types, TypeOK, ChannelTypes
  <2> QED
    BY <1>1, <2>1, <2>2, UsageUnchanged DEF usageVars
<1> QED
  BY <1>2, <1>3, <1>4, <1>5, <1>6 DEF Next

LEMMA Invariance == Spec => []Inv
<1>1. Inv /\ [Next]_vars => Inv'
  BY Inductive
<1> QED
  BY <1>1, Initially, PTL DEF Spec

(* Every variable has its type, the channels stay within their capacities. *)
THEOREM TypeCorrect == Spec => []TypeOK
<1>1. Inv => TypeOK
  BY DEF Inv, Types
<1> QED
  BY <1>1, Invariance, PTL

(* What a session uses from its first poll on is billed, still owed, or    *)
(* was in a delta that a full channel dropped or in a poll that re-seeded  *)
(* because another counter fell (emitDelta, pollPane).                     *)
THEOREM UsageIsConserved == Spec => []UsageConserved
<1>1. Inv => UsageConserved
  BY DEF Inv, Types, TypeOK, Accounts, Account, UsageConserved
<1> QED
  BY <1>1, Invariance, PTL

(* The collector implements Billing: whatever panes share a session or its *)
(* tree, whenever they are polled, and whatever the store forgets.         *)
THEOREM ImplementsBilling == Spec => BillingImplemented
<1>1. Init => Bills!Init
  BY DEF Init, Bills!Init
<1>2. Inv /\ [Next]_vars => [Bills!Next]_<<accrued, billed>>
  BY Inductive
<1> QED
  BY <1>1, <1>2, Invariance, PTL DEF Spec, BillingImplemented, Bills!Spec

(* While a sync is being sent the channel is empty once it was drained:    *)
(* Run only takes from it.                                                 *)
SyncOrder == NewestSyncKept /\ (req = "send" => syncs = <<>>)

(* The newest requested sync is pending or was the last one received,      *)
(* whichever of RequestSync's selects a receive of Run falls between.      *)
THEOREM NewestSyncIsKept == Spec => []NewestSyncKept
<1>1. Init => SyncOrder
  BY DEF Init, SyncOrder, NewestSyncKept
<1>2. SyncOrder /\ [Next]_vars => SyncOrder'
  <2> SUFFICES ASSUME SyncOrder, [Next]_vars PROVE SyncOrder'
    OBVIOUS
  <2>1. CASE UNCHANGED <<req, reqMap, syncs, taken>>
    BY <2>1 DEF SyncOrder, NewestSyncKept
  <2>2. CASE \E view \in Views : ApplySnapshot(view)
    BY <2>2 DEF ApplySnapshot, SyncOrder, NewestSyncKept
  <2>3. CASE RequestSync
    <3>1. req' \in {"idle", "drain"} /\ (req' = "idle" => syncs' = <<reqMap'>>)
      BY <2>3 DEF RequestSync, reqKeeps
    <3> QED
      BY <3>1 DEF SyncOrder, NewestSyncKept
  <2>4. CASE DrainSync
    BY <2>4 DEF DrainSync, SyncOrder, NewestSyncKept
  <2>5. CASE SendSync
    <3>1. req' = "idle" /\ syncs' = <<reqMap'>>
      BY <2>5 DEF SendSync, reqKeeps, SyncOrder
    <3> QED
      BY <3>1 DEF SyncOrder, NewestSyncKept
  <2>6. CASE TakeSync
    <3>1. syncs # <<>> /\ syncs' = <<>> /\ taken' = Head(syncs) /\ UNCHANGED <<req, reqMap>>
      BY <2>6 DEF TakeSync, runKeeps, trackerVars
    <3>2. syncs = <<reqMap>> => Head(syncs) = reqMap
      OBVIOUS
    <3> QED
      BY <3>1, <3>2 DEF SyncOrder, NewestSyncKept
  <2>7. CASE \/ \E p \in Panes, working \in BOOLEAN : NotifyTransition(p, working)
             \/ \E p \in Panes : PaneCreated(p) \/ FirstSeenWorking(p) \/ PaneCloses(p)
    BY <2>1, <2>7 DEF NotifyTransition, PaneCreated, FirstSeenWorking, PaneCloses,
       TrackerChanges, runVars
  <2>8. CASE ExportDelta \/ Store \/ Recover \/ \E p \in Panes : EvictExpired(p)
    BY <2>1, <2>8 DEF ExportDelta, Store, Fault, Accrue, Recover, EvictExpired, storeKeeps,
       trackerVars, runVars
  <2>9. CASE Polling \/ applyTransition \/ SelfHeal \/ PollTick
    BY <2>1, <2>9 DEF Polling, SyncFinish, PollFinish, SyncPane, PollActive, applyTransition,
       SelfHeal, PollTick, runKeeps, trackerVars
  <2>10. CASE UNCHANGED vars
    BY <2>1, <2>10 DEF vars, trackerVars, runVars
  <2> QED
    BY <2>2, <2>3, <2>4, <2>5, <2>6, <2>7, <2>8, <2>9, <2>10 DEF Next, Tracked, Loop
<1>3. SyncOrder => NewestSyncKept
  BY DEF SyncOrder
<1> QED
  BY <1>1, <1>2, <1>3, PTL DEF Spec
=============================================================================
