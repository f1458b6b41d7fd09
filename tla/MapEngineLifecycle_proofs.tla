--------------------- MODULE MapEngineLifecycle_proofs ---------------------
(***************************************************************************)
(* Theorems about the map engine hook, for every set of engines and every  *)
(* bound: the types, the honest switching indicator, the rule for the      *)
(* session preference, the newest request's victory, the view kept while   *)
(* the next engine loads, and that no view is leaked but by a failed       *)
(* switch, whatever requests overlap; and, when no call is made during a   *)
(* switch, that the container comes to rest with one live view.            *)
(***************************************************************************)
EXTENDS MapEngineViews, WellFoundedInduction, TLAPS

(* The fallback order names an engine of every nonempty set of engines     *)
(* (ENGINE_PRIORITY lists each engine once).                               *)
LEMMA FirstOfIsMember ==
    ASSUME NEW S \in SUBSET Engines, S # {}
    PROVE  FirstOf(S) \in S
<1> DEFINE T == {Rank[e] : e \in S}
           Less == OpToRel(<, Nat)
<1>1. T \subseteq Nat /\ T # {}
  BY EnginesAssumption
<1>2. \E n \in T : \A m \in T : ~(<<m, n>> \in Less)
  <2>1. IsWellFoundedOn(Less, Nat)
    BY NatLessThanWellFounded
  <2> HIDE DEF Less, T
  <2> QED
    BY <1>1, <2>1, WFMin
<1>3. PICK n \in T : \A m \in T : n <= m
  <2>1. \A m, n \in Nat : m < n => <<m, n>> \in Less
    BY DEF OpToRel
  <2>2. \A m, n \in Nat : ~(m < n) => n <= m
    OBVIOUS
  <2> HIDE DEF Less, T
  <2> QED
    BY <1>1, <1>2, <2>1, <2>2
<1>4. PICK e \in S : \A d \in S : Rank[e] <= Rank[d]
  BY <1>3
<1> QED
  BY <1>4 DEF FirstOf

(* A mount always starts from a configured engine (resolveEngine).         *)
LEMMA ResolvedIsEngine == Resolved \in Engines
BY FirstOfIsMember, EnginesAssumption DEF Resolved

-----------------------------------------------------------------------------
(* Type correctness *)

(* The only action that reads the engine of an old view is the rollback, and *)
(* a request reaches that stage only with an old view (switchMapEngine).     *)
RollbackHasFrom == \A s \in switches : s.stage = "rollback" => s.from # None

(* Aborting changes nothing of a request but its flag.                       *)
LEMMA AbortKeepsShape ==
    ASSUME TypeOK, RollbackHasFrom
    PROVE  /\ AbortActive \in SUBSET Switch
           /\ \A s \in AbortActive : s.stage = "rollback" => s.from # None
BY DEF TypeOK, SwitchTyped, RollbackHasFrom, AbortActive, Switch

LEMMA NewChainIsChain ==
    ASSUME NEW n \in Nat
    PROVE  NewChain(n) \in Chain
BY ResolvedIsEngine DEF NewChain, Chain

LEMMA TypeInit == Init => TypeOK /\ RollbackHasFrom
<1> SUFFICES ASSUME Init
             PROVE  TypeOK /\ RollbackHasFrom
  OBVIOUS
<1>1. ViewsTyped
  BY DEF Init, ViewsTyped, MaybeView
<1>2. StateTyped
  BY DEF Init, StateTyped
<1>3. MountTyped
  BY DEF Init, MountTyped
<1>4. SwitchTyped /\ RollbackHasFrom
  BY DEF Init, SwitchTyped, RollbackHasFrom
<1> QED
  BY <1>1, <1>2, <1>3, <1>4 DEF TypeOK

LEMMA TypeStep == TypeOK /\ RollbackHasFrom /\ [Next]_vars => TypeOK' /\ RollbackHasFrom'
<1> SUFFICES ASSUME TypeOK, RollbackHasFrom, [Next]_vars
             PROVE  TypeOK' /\ RollbackHasFrom'
  OBVIOUS
<1> USE DEF refs, mountVars, switchVars
<1>1. CASE FirstMount
  <2>1. ViewsTyped' /\ StateTyped'
    BY <1>1, ResolvedIsEngine DEF FirstMount, RunMount, TypeOK, ViewsTyped, StateTyped
  <2>2. MountTyped' /\ SwitchTyped' /\ RollbackHasFrom'
    BY <1>1, NewChainIsChain DEF FirstMount, RunMount, TypeOK, MountTyped, SwitchTyped,
       RollbackHasFrom
  <2> QED
    BY <2>1, <2>2 DEF TypeOK
<1>2. CASE RetryMount
  <2>1. ViewsTyped' /\ StateTyped'
    BY <1>2, ResolvedIsEngine DEF RetryMount, RunMount, TypeOK, ViewsTyped, StateTyped
  <2>2. MountTyped' /\ SwitchTyped' /\ RollbackHasFrom'
    BY <1>2, NewChainIsChain DEF RetryMount, RunMount, TypeOK, MountTyped, SwitchTyped,
       RollbackHasFrom
  <2> QED
    BY <2>1, <2>2 DEF TypeOK
<1>3. CASE Reconnect
  <2>1. HandOver \in MaybeView /\ DoomedNow \in SUBSET View
    BY DEF HandOver, DoomedNow, MaybeView, TypeOK, ViewsTyped
  <2>2. ViewsTyped'
    BY <1>3, <2>1 DEF Reconnect, RunMount, TypeOK, ViewsTyped, MaybeView
  <2>3. StateTyped'
    BY <1>3, ResolvedIsEngine DEF Reconnect, RunMount, TypeOK, StateTyped
  <2>4. MountTyped'
    <3>1. mountRunning' \in BOOLEAN
      BY <1>3, Zenon DEF Reconnect, RunMount
    <3>2. mountSeq' \in Nat /\ chains' \in SUBSET Chain
      BY <1>3, NewChainIsChain DEF Reconnect, RunMount, TypeOK, MountTyped
    <3> QED
      BY <3>1, <3>2 DEF MountTyped
  <2>5. SwitchTyped' /\ RollbackHasFrom'
    BY <1>3, AbortKeepsShape DEF Reconnect, TypeOK, SwitchTyped, RollbackHasFrom
  <2> QED
    BY <2>2, <2>3, <2>4, <2>5 DEF TypeOK
<1>4. CASE Unmount
  <2>1. HandOver \in MaybeView /\ DoomedNow \in SUBSET View
    BY DEF HandOver, DoomedNow, MaybeView, TypeOK, ViewsTyped
  <2>2. ViewsTyped'
    BY <1>4, <2>1 DEF Unmount, TypeOK, ViewsTyped, MaybeView
  <2>3. StateTyped' /\ MountTyped'
    <3>1. mountRunning' \in BOOLEAN
      BY <1>4, Zenon DEF Unmount
    <3>2. StateTyped' /\ mountSeq' \in Nat /\ chains' \in SUBSET Chain
      BY <1>4 DEF Unmount, TypeOK, StateTyped, MountTyped
    <3> QED
      BY <3>1, <3>2 DEF MountTyped
  <2>4. SwitchTyped' /\ RollbackHasFrom'
    BY <1>4, AbortKeepsShape DEF Unmount, TypeOK, SwitchTyped, RollbackHasFrom
  <2> QED
    BY <2>2, <2>3, <2>4 DEF TypeOK
<1>5. ASSUME NEW c \in chains, ChainStep(c)
      PROVE  TypeOK' /\ RollbackHasFrom'
  <2> USE DEF Settle, Advance, TypeOK, ViewsTyped, StateTyped, MountTyped, SwitchTyped,
              RollbackHasFrom
  <2>1. c \in Chain /\ MountView(c) \in View
    BY DEF Chain, MountView, View
  <2>2. CASE MountLoaded(c)
    BY <2>1, <2>2 DEF MountLoaded, Chain
  <2>3. CASE MountCreated(c)
    BY <2>1, <2>3 DEF MountCreated, Chain
  <2>4. CASE MountFails(c)
    <3>1. CASE c.todo # {}
      <4>1. FirstOf(c.todo) \in Engines
        BY <2>1, <3>1, FirstOfIsMember DEF Chain
      <4>2. [c EXCEPT !.eng = FirstOf(c.todo), !.stage = "load",
                      !.todo = @ \ {FirstOf(c.todo)}] \in Chain
        BY <2>1, <4>1 DEF Chain
      <4> QED
        BY <2>4, <3>1, <4>2 DEF MountFails
    <3>2. CASE c.todo = {}
      BY <2>1, <2>4, <3>2 DEF MountFails, Chain
    <3> QED
      BY <3>1, <3>2
  <2>5. CASE LandMount(c)
    BY <2>1, <2>5 DEF LandMount, Chain, MaybeView
  <2> QED
    BY <1>5, <2>2, <2>3, <2>4, <2>5 DEF ChainStep
<1>6. ASSUME NEW c \in chains, Watchdog(c)
      PROVE  TypeOK' /\ RollbackHasFrom'
  <2>1. ViewsTyped' /\ SwitchTyped' /\ RollbackHasFrom'
    BY <1>6 DEF Watchdog, TypeOK, ViewsTyped, SwitchTyped, RollbackHasFrom
  <2>2. StateTyped'
    BY <1>6 DEF Watchdog, TypeOK, StateTyped, MountTyped, Chain
  <2>3. MountTyped'
    <3>1. mountRunning' \in BOOLEAN
      BY <1>6, Zenon DEF Watchdog
    <3>2. [c EXCEPT !.timedOut = TRUE] \in Chain
      BY DEF TypeOK, MountTyped, Chain
    <3>3. mountSeq' \in Nat
      BY <1>6 DEF Watchdog, TypeOK, MountTyped
    <3>4. chains' \in SUBSET Chain
      BY <1>6, <3>2, Zenon DEF Watchdog, TypeOK, MountTyped
    <3> QED
      BY <3>1, <3>3, <3>4 DEF MountTyped
  <2> QED
    BY <2>1, <2>2, <2>3 DEF TypeOK
<1>7. ASSUME NEW v \in doomed, DelayedDestroy(v)
      PROVE  TypeOK' /\ RollbackHasFrom'
  BY <1>7 DEF DelayedDestroy, MaybeView, TypeOK, ViewsTyped, StateTyped, MountTyped,
     SwitchTyped, RollbackHasFrom
<1>8. ASSUME NEW e \in Engines, SwitchEngine(e)
      PROVE  TypeOK' /\ RollbackHasFrom'
  <2>1. NewSwitch(e) \in Switch /\ NewSwitch(e).stage # "rollback"
    BY DEF NewSwitch, Switch, MaybeView, TypeOK, ViewsTyped, SwitchTyped
  <2>2. ViewsTyped' /\ StateTyped' /\ MountTyped'
    BY <1>8 DEF SwitchEngine, TypeOK, ViewsTyped, StateTyped, MountTyped
  <2>3. SwitchTyped' /\ RollbackHasFrom'
    BY <1>8, <2>1, AbortKeepsShape DEF SwitchEngine, TypeOK, SwitchTyped, RollbackHasFrom
  <2> QED
    BY <2>2, <2>3 DEF TypeOK
<1>9. ASSUME NEW e \in Engines, SwitchEngineThrows(e)
      PROVE  TypeOK' /\ RollbackHasFrom'
  <2>1. ViewsTyped' /\ StateTyped' /\ MountTyped'
    BY <1>9 DEF SwitchEngineThrows, TypeOK, ViewsTyped, StateTyped, MountTyped, MaybeView
  <2>2. SwitchTyped' /\ RollbackHasFrom'
    <3>1. isSwitching' \in BOOLEAN
      BY <1>9, Zenon DEF SwitchEngineThrows
    <3>2. generation' \in Nat /\ switches' \in SUBSET Switch /\ RollbackHasFrom'
      BY <1>9, AbortKeepsShape DEF SwitchEngineThrows, TypeOK, SwitchTyped, RollbackHasFrom
    <3> QED
      BY <3>1, <3>2 DEF SwitchTyped
  <2> QED
    BY <2>1, <2>2 DEF TypeOK
<1>10. ASSUME NEW s \in switches, SwitchStep(s)
       PROVE  TypeOK' /\ RollbackHasFrom'
  <2>1. s \in Switch /\ SwitchView(s, s.to) \in View
    BY DEF Switch, SwitchView, View, TypeOK, SwitchTyped
  <2>2. StateTyped' /\ MountTyped'
    BY <1>10, <2>1 DEF SwitchStep, SwitchLoaded, SwitchLoadFails, SwitchCreated,
       SwitchCreateFails, RolledBack, RollbackFails, LandSwitch, KeepOthers, Switch,
       TypeOK, StateTyped, MountTyped
  <2>3. s.stage = "rollback" => SwitchView(s, s.from.eng) \in View
    BY <2>1 DEF Switch, SwitchView, MaybeView, View, RollbackHasFrom
  <2>4. ViewsTyped'
    BY <1>10, <2>1, <2>3 DEF SwitchStep, SwitchLoaded, SwitchLoadFails, SwitchCreated,
       SwitchCreateFails, RolledBack, RollbackFails, LandSwitch, KeepOthers, GiveWay,
       Throw, Switch, TypeOK, ViewsTyped, MaybeView
  <2>5. ASSUME NEW t \in Switch, t.stage = "rollback" => t.from # None, Proceed(s, t)
        PROVE  SwitchTyped' /\ RollbackHasFrom'
    BY <2>5 DEF Proceed, TypeOK, SwitchTyped, RollbackHasFrom
  <2>6. ASSUME Return(s)
        PROVE  SwitchTyped' /\ RollbackHasFrom'
    BY <2>6 DEF Return, TypeOK, SwitchTyped, RollbackHasFrom
  <2>7. SwitchTyped' /\ RollbackHasFrom'
    <3>1. CASE SwitchLoaded(s)
      <4>1. [s EXCEPT !.stage = "create"] \in Switch
        BY <2>1 DEF Switch
      <4> QED
        BY <2>5, <2>6, <3>1, <4>1 DEF SwitchLoaded, GiveWay, Switch
    <3>2. CASE SwitchLoadFails(s)
      <4>1. [s EXCEPT !.stage = "landing", !.view = s.from, !.result = "rolledBack"] \in Switch
        BY <2>1 DEF Switch
      <4> QED
        BY <2>5, <2>6, <3>2, <4>1 DEF SwitchLoadFails, GiveWay, Throw, Switch
    <3>3. CASE SwitchCreated(s)
      <4>1. [s EXCEPT !.stage = "landing", !.view = SwitchView(s, s.to)] \in Switch
        BY <2>1 DEF Switch, MaybeView
      <4> QED
        BY <2>5, <2>6, <3>3, <4>1 DEF SwitchCreated, GiveWay, Switch
    <3>4. CASE SwitchCreateFails(s)
      <4>1. [s EXCEPT !.stage = "rollback"] \in Switch
        BY <2>1 DEF Switch
      <4> QED
        BY <2>1, <2>5, <2>6, <3>4, <4>1 DEF SwitchCreateFails, GiveWay, Throw, Switch
    <3>5. CASE RolledBack(s)
      <4>1. [s EXCEPT !.stage = "landing", !.result = "rolledBack",
                      !.view = SwitchView(s, s.from.eng)] \in Switch
        BY <2>1, <2>3, <3>5 DEF RolledBack, Switch, MaybeView
      <4> QED
        BY <2>5, <3>5, <4>1 DEF RolledBack, Switch
    <3>6. CASE RollbackFails(s) \/ LandSwitch(s)
      BY <2>6, <3>6 DEF RollbackFails, LandSwitch, Throw
    <3> QED
      BY <1>10, <3>1, <3>2, <3>3, <3>4, <3>5, <3>6 DEF SwitchStep
  <2> QED
    BY <2>2, <2>4, <2>7 DEF TypeOK
<1>11. CASE UNCHANGED vars
  BY <1>11 DEF vars, TypeOK, ViewsTyped, StateTyped, MountTyped, SwitchTyped, RollbackHasFrom
<1> QED
  BY <1>1, <1>2, <1>3, <1>4, <1>5, <1>6, <1>7, <1>8, <1>9, <1>10, <1>11 DEF Next

(* Every reachable state is well typed, whatever overlaps (use-map-engine.ts). *)
THEOREM TypeCorrect == Spec => []TypeOK
<1>1. Spec => [](TypeOK /\ RollbackHasFrom)
  BY TypeInit, TypeStep, PTL DEF Spec
<1> QED
  BY <1>1, PTL


-----------------------------------------------------------------------------
(* The switching indicator *)

(* Requests are numbered by generation, no two alike and none from the future. *)
Numbered == /\ \A s \in switches : s.gen <= generation
            /\ \A s, t \in switches : s.gen = t.gen => s = t

SpinnerInv == Numbered /\ SpinnerHonest

LEMMA AbortKeepsGenerations ==
    ASSUME TypeOK, SpinnerInv
    PROVE  /\ \A t \in AbortActive : t.gen <= generation
           /\ \A t, u \in AbortActive : t.gen = u.gen => t = u
           /\ (\E t \in AbortActive : t.gen = generation)
                <=> (\E s \in switches : s.gen = generation)
<1> DEFINE Image(s) == IF s.gen = generation /\ isSwitching
                       THEN [s EXCEPT !.aborted = TRUE] ELSE s
<1>1. \A s \in switches : Image(s).gen = s.gen
  BY DEF TypeOK, SwitchTyped, Switch
<1>2. \A t \in AbortActive : \E s \in switches : t = Image(s)
  BY DEF AbortActive
<1>3. \A s \in switches : Image(s) \in AbortActive
  BY DEF AbortActive
<1> HIDE DEF Image
<1> QED
  BY <1>1, <1>2, <1>3 DEF SpinnerInv, Numbered

LEMMA SpinnerInit == Init => SpinnerInv
BY DEF Init, SpinnerInv, Numbered, SpinnerHonest

LEMMA SpinnerStep == TypeOK /\ SpinnerInv /\ [Next]_vars => SpinnerInv'
<1> SUFFICES ASSUME TypeOK, SpinnerInv, [Next]_vars
             PROVE  SpinnerInv'
  OBVIOUS
<1> USE DEF SpinnerInv
<1>0. ASSUME UNCHANGED switchVars
      PROVE  SpinnerInv'
  BY <1>0 DEF switchVars, Numbered, SpinnerHonest
<1>1. ASSUME switches' = AbortActive, UNCHANGED <<generation, isSwitching>>
      PROVE  SpinnerInv'
  BY <1>1, AbortKeepsGenerations DEF Numbered, SpinnerHonest
<1>2. CASE FirstMount \/ RetryMount
  BY <1>0, <1>2 DEF FirstMount, RetryMount
<1>3. CASE Reconnect \/ Unmount
  BY <1>1, <1>3 DEF Reconnect, Unmount
<1>4. ASSUME NEW c \in chains, ChainStep(c) \/ Watchdog(c)
      PROVE  SpinnerInv'
  BY <1>0, <1>4 DEF ChainStep, MountLoaded, MountCreated, MountFails, LandMount, Watchdog
<1>5. ASSUME NEW v \in doomed, DelayedDestroy(v)
      PROVE  SpinnerInv'
  BY <1>0, <1>5 DEF DelayedDestroy
<1>6. ASSUME NEW e \in Engines, SwitchEngine(e)
      PROVE  SpinnerInv'
  <2>1. NewSwitch(e).gen = generation + 1 /\ generation \in Nat
    BY DEF NewSwitch, TypeOK, SwitchTyped
  <2>2. \A t \in AbortActive : t.gen \in Nat /\ t.gen <= generation
    BY AbortKeepsGenerations DEF AbortActive, TypeOK, SwitchTyped, Switch
  <2>3. Numbered'
    BY <1>6, <2>1, <2>2, AbortKeepsGenerations DEF SwitchEngine, Numbered
  <2>4. SpinnerHonest'
    BY <1>6, <2>1 DEF SwitchEngine, SpinnerHonest
  <2> QED
    BY <2>3, <2>4
<1>7. ASSUME NEW e \in Engines, SwitchEngineThrows(e)
      PROVE  SpinnerInv'
  <2>1. \A t \in AbortActive : t.gen \in Nat /\ t.gen <= generation /\ generation \in Nat
    BY AbortKeepsGenerations DEF AbortActive, TypeOK, SwitchTyped, Switch
  <2>2. Numbered'
    BY <1>7, <2>1, AbortKeepsGenerations DEF SwitchEngineThrows, Numbered
  <2>3. SpinnerHonest'
    BY <1>7, <2>1 DEF SwitchEngineThrows, SpinnerHonest
  <2> QED
    BY <2>2, <2>3
<1>8. ASSUME NEW s \in switches, SwitchStep(s)
      PROVE  SpinnerInv'
  <2>1. s \in Switch
    BY DEF TypeOK, SwitchTyped
  <2>2. ASSUME Return(s)
        PROVE  SpinnerInv'
    BY <2>2 DEF Return, Numbered, SpinnerHonest
  <2>3. ASSUME NEW t, t.gen = s.gen, Proceed(s, t)
        PROVE  SpinnerInv'
    BY <2>3 DEF Proceed, Numbered, SpinnerHonest
  <2>4. CASE SwitchLoaded(s)
    BY <2>1, <2>2, <2>3, <2>4 DEF SwitchLoaded, GiveWay, Switch
  <2>5. CASE SwitchLoadFails(s)
    BY <2>1, <2>2, <2>3, <2>5 DEF SwitchLoadFails, GiveWay, Throw, Switch
  <2>6. CASE SwitchCreated(s)
    BY <2>1, <2>2, <2>3, <2>6 DEF SwitchCreated, GiveWay, Switch
  <2>7. CASE SwitchCreateFails(s)
    BY <2>1, <2>2, <2>3, <2>7 DEF SwitchCreateFails, GiveWay, Throw, Switch
  <2>8. CASE RolledBack(s)
    BY <2>1, <2>3, <2>8 DEF RolledBack, Switch
  <2>9. CASE RollbackFails(s) \/ LandSwitch(s)
    BY <2>2, <2>9 DEF RollbackFails, LandSwitch, Throw
  <2> QED
    BY <1>8, <2>4, <2>5, <2>6, <2>7, <2>8, <2>9 DEF SwitchStep
<1>9. CASE UNCHANGED vars
  BY <1>0, <1>9 DEF vars
<1> QED
  BY <1>2, <1>3, <1>4, <1>5, <1>6, <1>7, <1>8, <1>9 DEF Next

(* The switching indicator is never stuck and never cleared early, for any   *)
(* number of overlapping requests (the finally of switchEngine).             *)
THEOREM SpinnerIsHonest == Spec => []SpinnerHonest
<1>1. Init => SpinnerInv
  BY SpinnerInit
<1>2. TypeOK /\ SpinnerInv /\ [Next]_vars => SpinnerInv'
  BY SpinnerStep
<1>3. SpinnerInv => SpinnerHonest
  BY DEF SpinnerInv
<1> QED
  BY <1>1, <1>2, <1>3, TypeCorrect, PTL DEF Spec


-----------------------------------------------------------------------------
(* The session preference *)

(* A view the hook already holds belongs to a request that has returned.     *)
Old(v) == v # None /\ v.by = "switch" =>
            /\ v.n <= generation
            /\ \A s \in switches : s.gen # v.n

OldRefs == Old(viewRef) /\ Old(keepalive) /\ \A s \in switches : Old(s.from)

(* What a request may land: its own live view of the target, its own view of *)
(* the old engine, or the old view itself.                                   *)
Deciding ==
    \A s \in switches :
        /\ s.stage # "landing" => s.result = "created"
        /\ s.stage = "landing" /\ s.result = "rolledBack" =>
              s.view = s.from \/ s.view = SwitchView(s, s.from.eng)
        /\ s.stage = "landing" /\ s.result = "created" =>
              s.view = SwitchView(s, s.to) /\ s.view \in live

LandInv == TypeOK /\ SpinnerInv /\ OldRefs /\ Deciding

LEMMA LandInit == Init => OldRefs /\ Deciding
BY DEF Init, OldRefs, Old, Deciding

(* Aborting keeps all that the invariant says of a request.                  *)
LEMMA AbortKeepsLanding ==
    ASSUME LandInv
    PROVE  \A t \in AbortActive : \E s \in switches :
             /\ t.gen = s.gen /\ t.from = s.from /\ t.to = s.to /\ t.stage = s.stage
             /\ t.view = s.view /\ t.result = s.result
BY DEF LandInv, TypeOK, SwitchTyped, Switch, AbortActive

(* Requests with the same numbers, old views and results, and a live set     *)
(* that only grows, keep the invariant.                                      *)
LEMMA LandKept ==
    ASSUME LandInv, live \subseteq live', generation' = generation,
           viewRef' \in {viewRef, keepalive, None}, keepalive' \in {viewRef, keepalive, None},
           switches' = switches \/ switches' = AbortActive
    PROVE  OldRefs' /\ Deciding'
<1>1. \A t \in switches' : \E s \in switches :
         /\ t.gen = s.gen /\ t.from = s.from /\ t.to = s.to /\ t.stage = s.stage
         /\ t.view = s.view /\ t.result = s.result
  BY AbortKeepsLanding
<1>2. \A v : Old(v) => Old(v)'
  BY <1>1 DEF Old
<1>3. OldRefs'
  BY <1>1, <1>2 DEF LandInv, OldRefs, Old
<1>4. Deciding'
  <2> SUFFICES ASSUME NEW t \in switches'
               PROVE  /\ t.stage # "landing" => t.result = "created"
                      /\ t.stage = "landing" /\ t.result = "rolledBack" =>
                            t.view = t.from \/ t.view = SwitchView(t, t.from.eng)
                      /\ t.stage = "landing" /\ t.result = "created" =>
                            t.view = SwitchView(t, t.to) /\ t.view \in live'
    BY DEF Deciding, SwitchView
  <2>1. PICK s \in switches :
          /\ t.gen = s.gen /\ t.from = s.from /\ t.to = s.to /\ t.stage = s.stage
          /\ t.view = s.view /\ t.result = s.result
    BY <1>1
  <2>2. SwitchView(t, t.to) = SwitchView(s, s.to)
        /\ SwitchView(t, t.from.eng) = SwitchView(s, s.from.eng)
    BY <2>1 DEF SwitchView
  <2> QED
    BY <2>1, <2>2 DEF LandInv, Deciding
<1> QED
  BY <1>3, <1>4


(* A request that goes on keeps its number, its old view and its target.     *)
LEMMA LandProceed ==
    ASSUME LandInv, NEW s \in switches, NEW t, Proceed(s, t),
           t.gen = s.gen, t.from = s.from, t.to = s.to,
           t.stage # "landing" => t.result = "created",
           t.stage = "landing" /\ t.result = "rolledBack" =>
               t.view = s.from \/ t.view = SwitchView(s, s.from.eng),
           t.stage = "landing" /\ t.result = "created" =>
               t.view = SwitchView(s, s.to) /\ t.view \in live',
           \A u \in switches \ {s} : u.stage = "landing" /\ u.result = "created" =>
               u.view \in live',
           UNCHANGED <<viewRef, keepalive>>
    PROVE  OldRefs' /\ Deciding'
<1>1. switches' = (switches \ {s}) \cup {t} /\ generation' = generation
  BY DEF Proceed
<1>2. \A v : Old(v) => Old(v)'
  BY <1>1 DEF Old
<1>3. OldRefs'
  BY <1>1, <1>2 DEF LandInv, OldRefs, Old
<1>4. Deciding'
  <2>1. SwitchView(t, t.to) = SwitchView(s, s.to)
        /\ SwitchView(t, t.from.eng) = SwitchView(s, s.from.eng)
    BY DEF SwitchView
  <2> QED
    BY <1>1, <2>1 DEF LandInv, Deciding, SwitchView
<1> QED
  BY <1>3, <1>4

(* A request that returns leaves its own result behind as an old view.       *)
LEMMA LandReturn ==
    ASSUME LandInv, NEW s \in switches, Return(s),
           viewRef' \in {viewRef, None}
             \/ (s.stage = "landing" /\ viewRef' = s.view),
           \A u \in switches \ {s} : u.stage = "landing" /\ u.result = "created" =>
               u.view \in live',
           UNCHANGED keepalive
    PROVE  OldRefs' /\ Deciding'
<1>1. switches' = switches \ {s} /\ generation' = generation
  BY DEF Return
<1>2. \A v : Old(v) => Old(v)'
  BY <1>1 DEF Old
<1>3. \A e : Old(SwitchView(s, e))'
  BY <1>1 DEF Old, SwitchView, LandInv, SpinnerInv, Numbered
<1>4. s.stage = "landing" => Old(s.view)'
  BY <1>2, <1>3 DEF LandInv, OldRefs, Deciding, TypeOK, SwitchTyped, Switch
<1>5. OldRefs'
  BY <1>1, <1>2, <1>4 DEF LandInv, OldRefs, Old
<1>6. Deciding'
  BY <1>1 DEF LandInv, Deciding, SwitchView
<1> QED
  BY <1>5, <1>6

(* The fresh view of an undecided request is none of the views that other    *)
(* parties may destroy meanwhile.                                            *)
LEMMA FreshIsSafe ==
    ASSUME LandInv, NEW u \in switches, u.stage = "landing", u.result = "created"
    PROVE  /\ u.view \in live
           /\ \A v : Old(v) => u.view # v
           /\ \A c \in chains : u.view # MountView(c)
           /\ \A s \in switches \ {u} : \A e : u.view # SwitchView(s, e)
<1>1. u.view = SwitchView(u, u.to) /\ u.view \in live
  BY DEF LandInv, Deciding
<1>2. u.view.by = "switch" /\ u.view.n = u.gen
  BY <1>1 DEF SwitchView
<1>3. \A v : Old(v) => u.view # v
  BY <1>1, <1>2, NoneAssumption DEF Old, LandInv, TypeOK, ViewsTyped
<1>4. \A c \in chains : u.view # MountView(c)
  BY <1>2 DEF MountView
<1>5. \A s \in switches \ {u} : \A e : u.view # SwitchView(s, e)
  BY <1>2 DEF SwitchView, LandInv, SpinnerInv, Numbered
<1> QED
  BY <1>1, <1>3, <1>4, <1>5


LEMMA LandStep == LandInv /\ [Next]_vars => OldRefs' /\ Deciding'
<1> SUFFICES ASSUME LandInv, [Next]_vars
             PROVE  OldRefs' /\ Deciding'
  OBVIOUS
<1> USE DEF refs, mountVars, switchVars
<1>1. CASE FirstMount
  BY <1>1, LandKept DEF FirstMount
<1>2. CASE RetryMount
  BY <1>2, LandKept DEF RetryMount
<1>3. CASE Reconnect
  BY <1>3, LandKept DEF Reconnect, HandOver
<1>4. CASE Unmount
  BY <1>4, LandKept DEF Unmount, HandOver
<1>5. ASSUME NEW c \in chains, ChainStep(c)
      PROVE  OldRefs' /\ Deciding'
  <2>1. CASE MountLoaded(c) \/ MountCreated(c) \/ MountFails(c)
    BY <2>1, LandKept DEF MountLoaded, MountCreated, MountFails
  <2>2. CASE LandMount(c)
    <3>1. UNCHANGED <<switches, generation, keepalive>>
      BY <2>2 DEF LandMount
    <3>2. Old(MountView(c)) /\ viewRef' \in {viewRef, MountView(c)}
      BY <2>2 DEF LandMount, Old, MountView
    <3>3. \A v : Old(v) => Old(v)'
      BY <3>1 DEF Old
    <3>4. OldRefs'
      BY <3>1, <3>2, <3>3 DEF LandInv, OldRefs
    <3>5. \A u \in switches : u.stage = "landing" /\ u.result = "created"
                              => u.view \in live'
      BY <2>2, FreshIsSafe DEF LandMount
    <3>6. Deciding'
      BY <3>1, <3>5 DEF LandInv, Deciding, SwitchView
    <3> QED
      BY <3>4, <3>6
  <2> QED
    BY <1>5, <2>1, <2>2 DEF ChainStep
<1>6. ASSUME NEW c \in chains, Watchdog(c)
      PROVE  OldRefs' /\ Deciding'
  BY <1>6, LandKept DEF Watchdog
<1>7. ASSUME NEW v \in doomed, DelayedDestroy(v)
      PROVE  OldRefs' /\ Deciding'
  <2>1. UNCHANGED <<switches, generation, viewRef>> /\ keepalive' \in {keepalive, None}
    BY <1>7 DEF DelayedDestroy
  <2>2. \A u \in switches : u.stage # "landing"
    BY <1>7 DEF DelayedDestroy, TaskBoundary
  <2>3. \A w : Old(w) => Old(w)'
    BY <2>1 DEF Old
  <2>4. OldRefs'
    BY <2>1, <2>3 DEF LandInv, OldRefs, Old
  <2>5. Deciding'
    BY <2>1, <2>2 DEF LandInv, Deciding
  <2> QED
    BY <2>4, <2>5
<1>8. ASSUME NEW e \in Engines, SwitchEngine(e) \/ SwitchEngineThrows(e)
      PROVE  OldRefs' /\ Deciding'
  <2>1. /\ switches' = AbortActive \/ switches' = AbortActive \cup {NewSwitch(e)}
        /\ generation' = generation + 1 /\ generation \in Nat
        /\ viewRef' \in {viewRef, None} /\ keepalive' = keepalive
    BY <1>8 DEF SwitchEngine, SwitchEngineThrows, LandInv, TypeOK, SwitchTyped
  <2>2. \A u \in switches : u.stage # "landing"
    BY <1>8 DEF SwitchEngine, SwitchEngineThrows, MayClick, TaskBoundary
  <2>3. /\ NewSwitch(e).gen = generation + 1 /\ NewSwitch(e).from = viewRef
        /\ NewSwitch(e).stage = "load" /\ NewSwitch(e).result = "created"
    BY DEF NewSwitch
  <2>4. \A t \in AbortActive : \E s \in switches :
           t.gen = s.gen /\ t.from = s.from /\ t.stage = s.stage /\ t.result = s.result
    BY AbortKeepsLanding
  <2>5. \A v \in MaybeView : Old(v) => Old(v)'
    <3> SUFFICES ASSUME NEW v \in MaybeView, Old(v), v # None, v.by = "switch"
                 PROVE  v.n <= generation' /\ \A t \in switches' : t.gen # v.n
      BY DEF Old
    <3>1. v.n \in Nat /\ v.n <= generation /\ \A s \in switches : s.gen # v.n
      BY DEF Old, MaybeView, View
    <3> QED
      BY <2>1, <2>3, <2>4, <3>1
  <2>6. OldRefs'
    <3>1. viewRef \in MaybeView /\ keepalive \in MaybeView
          /\ \A s \in switches : s.from \in MaybeView
      BY DEF LandInv, TypeOK, ViewsTyped, SwitchTyped, Switch
    <3>2. Old(viewRef)' /\ Old(keepalive)'
      BY <2>1, <2>5, <3>1 DEF LandInv, OldRefs, Old
    <3>3. \A v \in MaybeView : Old(v) /\ v # None /\ v.by = "switch" =>
              v.n <= generation' /\ \A t \in switches' : t.gen # v.n
      BY <2>5 DEF Old
    <3>4. \A t \in switches' : t.from = viewRef \/ \E s \in switches : t.from = s.from
      BY <2>1, <2>3, <2>4
    <3>5. \A t \in switches' : t.from \in MaybeView /\ Old(t.from)
      BY <3>1, <3>4 DEF LandInv, OldRefs
    <3> QED
      BY <3>2, <3>3, <3>5 DEF OldRefs, Old
  <2>7. Deciding'
    BY <2>1, <2>2, <2>3, <2>4 DEF LandInv, Deciding
  <2> QED
    BY <2>6, <2>7
<1>9. ASSUME NEW s \in switches, SwitchStep(s)
      PROVE  OldRefs' /\ Deciding'
  <2> USE DEF KeepOthers, Throw
  <2>1. s \in Switch /\ Old(s.from) /\ Old(viewRef)
    BY DEF LandInv, TypeOK, SwitchTyped, OldRefs
  <2>2. live' = live =>
          \A u \in switches \ {s} : u.stage = "landing" /\ u.result = "created" =>
               u.view \in live'
    BY FreshIsSafe
  <2>3. s.stage # "landing" => s.result = "created"
    BY DEF LandInv, Deciding
  <2>4. ASSUME GiveWay(s), UNCHANGED keepalive
        PROVE  OldRefs' /\ Deciding'
    BY <2>2, <2>4, LandReturn DEF GiveWay
  <2>5. CASE SwitchLoaded(s)
    <3>1. CASE GiveWay(s)
      BY <2>4, <2>5, <3>1 DEF SwitchLoaded
    <3>2. CASE ~s.aborted
      <4> DEFINE t == [s EXCEPT !.stage = "create"]
      <4>1. live' = live \ {s.from} /\ Proceed(s, t) /\ UNCHANGED <<viewRef, keepalive>>
        BY <2>5, <3>2 DEF SwitchLoaded, GiveWay
      <4>2. \A u \in switches : u.stage = "landing" /\ u.result = "created" => u.view \in live'
        BY <2>1, <4>1, FreshIsSafe
      <4>3. t.gen = s.gen /\ t.from = s.from /\ t.to = s.to /\ t.stage = "create"
            /\ t.result = s.result
        BY <2>1 DEF Switch
      <4>4. t.result = "created"
        BY <2>3, <2>5, <4>3 DEF SwitchLoaded
      <4> HIDE DEF t
      <4> QED
        BY <4>1, <4>2, <4>3, <4>4, LandProceed
    <3> QED
      BY <2>5, <3>1, <3>2 DEF SwitchLoaded
  <2>6. CASE SwitchLoadFails(s)
    <3> DEFINE t == [s EXCEPT !.stage = "landing", !.view = s.from, !.result = "rolledBack"]
    <3>1. CASE Proceed(s, t) /\ UNCHANGED <<live, viewRef, keepalive>>
      <4>1. t.gen = s.gen /\ t.from = s.from /\ t.to = s.to /\ t.stage = "landing"
            /\ t.result = "rolledBack" /\ t.view = s.from
        BY <2>1 DEF Switch
      <4> HIDE DEF t
      <4> QED
        BY <2>2, <3>1, <4>1, LandProceed
    <3>2. CASE Throw(s) /\ UNCHANGED keepalive
      BY <2>2, <3>2, LandReturn
    <3> QED
      BY <2>4, <2>6, <3>1, <3>2 DEF SwitchLoadFails
  <2>7. CASE SwitchCreated(s)
    <3> DEFINE t == [s EXCEPT !.stage = "landing", !.view = SwitchView(s, s.to)]
    <3>1. CASE Proceed(s, t) /\ live' = live \cup {SwitchView(s, s.to)}
               /\ UNCHANGED <<viewRef, keepalive>>
      <4>1. t.gen = s.gen /\ t.from = s.from /\ t.to = s.to /\ t.stage = "landing"
            /\ t.result = s.result /\ t.view = SwitchView(s, s.to)
        BY <2>1 DEF Switch
      <4>2. t.result = "created"
        BY <2>3, <2>7, <4>1 DEF SwitchCreated
      <4>3. \A u \in switches \ {s} : u.stage = "landing" /\ u.result = "created" =>
               u.view \in live'
        BY <3>1, FreshIsSafe
      <4> HIDE DEF t
      <4> QED
        BY <3>1, <4>1, <4>2, <4>3, LandProceed
    <3> QED
      BY <2>4, <2>7, <3>1 DEF SwitchCreated
  <2>8. CASE SwitchCreateFails(s)
    <3> DEFINE t == [s EXCEPT !.stage = "rollback"]
    <3>1. CASE Proceed(s, t) /\ UNCHANGED <<live, viewRef, keepalive>>
      <4>1. t.gen = s.gen /\ t.from = s.from /\ t.to = s.to /\ t.stage = "rollback"
            /\ t.result = s.result
        BY <2>1 DEF Switch
      <4>2. t.result = "created"
        BY <2>3, <2>8, <4>1 DEF SwitchCreateFails
      <4> HIDE DEF t
      <4> QED
        BY <2>2, <3>1, <4>1, <4>2, LandProceed
    <3>2. CASE Throw(s) /\ UNCHANGED keepalive
      BY <2>2, <3>2, LandReturn
    <3> QED
      BY <2>4, <2>8, <3>1, <3>2 DEF SwitchCreateFails
  <2>9. CASE RolledBack(s)
    <3> DEFINE t == [s EXCEPT !.stage = "landing", !.result = "rolledBack",
                              !.view = SwitchView(s, s.from.eng)]
    <3>1. Proceed(s, t) /\ live' = live \cup {SwitchView(s, s.from.eng)}
          /\ UNCHANGED <<viewRef, keepalive>>
      BY <2>9 DEF RolledBack
    <3>2. t.gen = s.gen /\ t.from = s.from /\ t.to = s.to /\ t.stage = "landing"
          /\ t.result = "rolledBack" /\ t.view = SwitchView(s, s.from.eng)
      BY <2>1 DEF Switch
    <3>3. \A u \in switches \ {s} : u.stage = "landing" /\ u.result = "created" =>
             u.view \in live'
      BY <3>1, FreshIsSafe
    <3> HIDE DEF t
    <3> QED
      BY <3>1, <3>2, <3>3, LandProceed
  <2>10. CASE RollbackFails(s)
    BY <2>2, <2>10, LandReturn DEF RollbackFails
  <2>11. CASE LandSwitch(s)
    <3>1. \A u \in switches \ {s} : u.stage = "landing" /\ u.result = "created" =>
             u.view \in live'
      <4>1. s.view = s.from \/ \E e : s.view = SwitchView(s, e)
        BY <2>1, <2>11 DEF LandSwitch, LandInv, Deciding, Switch
      <4>2. live \ {s.view, viewRef} \subseteq live'
        BY <2>11 DEF LandSwitch
      <4>3. \A u \in switches \ {s} : u.stage = "landing" /\ u.result = "created" =>
               u.view \in live /\ u.view # viewRef /\ u.view # s.view
        BY <2>1, <4>1, FreshIsSafe
      <4> QED
        BY <4>2, <4>3
    <3>2. Return(s) /\ UNCHANGED keepalive /\ s.stage = "landing"
          /\ (viewRef' = viewRef \/ viewRef' = s.view)
      BY <2>11 DEF LandSwitch
    <3> QED
      BY <3>1, <3>2, LandReturn
  <2> QED
    BY <1>9, <2>5, <2>6, <2>7, <2>8, <2>9, <2>10, <2>11 DEF SwitchStep
<1>10. CASE UNCHANGED vars
  BY <1>10, LandKept DEF vars
<1> QED
  BY <1>1, <1>2, <1>3, <1>4, <1>5, <1>6, <1>7, <1>8, <1>9, <1>10 DEF Next

(* The one step that changes the preference lands a live view of the newest  *)
(* request on that very engine.                                              *)
LEMMA PreferenceStep ==
    ASSUME LandInv, [Next]_vars, pref' # pref
    PROVE  /\ viewRef' \in live' /\ viewRef'.eng = pref'
           /\ viewRef'.by = "switch" /\ viewRef'.n = generation
<1>1. PICK s \in switches : LandSwitch(s)
  BY DEF Next, vars, FirstMount, RetryMount, Reconnect, Unmount, ChainStep, MountLoaded,
     MountCreated, MountFails, LandMount, Watchdog, DelayedDestroy, SwitchEngine,
     SwitchEngineThrows, SwitchStep, SwitchLoaded, SwitchLoadFails, SwitchCreated,
     SwitchCreateFails, RolledBack, RollbackFails, KeepOthers
<1>2. /\ ~Stale(s) /\ s.stage = "landing" /\ s.result = "created"
      /\ viewRef' = s.view /\ live' = live \ ({viewRef} \ {s.view}) /\ pref' = s.to
  BY <1>1 DEF LandSwitch
<1>3. s.view = SwitchView(s, s.to) /\ s.view \in live
  BY <1>2 DEF LandInv, Deciding
<1>4. s.gen = generation
  BY <1>2 DEF Stale
<1> QED
  BY <1>2, <1>3, <1>4 DEF SwitchView

(* The session preference follows landings of the newest request only, for   *)
(* every way requests overlap (the landing in switchEngine).                 *)
THEOREM PreferenceIsEarned == Spec => PreferenceFollowsLanding
<1>1. Init => LandInv
  BY TypeInit, SpinnerInit, LandInit DEF LandInv
<1>2. LandInv /\ RollbackHasFrom /\ [Next]_vars => LandInv' /\ RollbackHasFrom'
  BY TypeStep, SpinnerStep, LandStep DEF LandInv
<1>3. LandInv /\ [Next]_vars =>
        [pref' # pref => /\ viewRef' \in live' /\ viewRef'.eng = pref'
                         /\ viewRef'.by = "switch" /\ viewRef'.n = generation]_vars
  BY PreferenceStep
<1>4. Init => RollbackHasFrom
  BY TypeInit
<1> QED
  BY <1>1, <1>2, <1>3, <1>4, PTL DEF Spec, PreferenceFollowsLanding


-----------------------------------------------------------------------------
(* The newest request wins *)

(* A request that has been overtaken is aborted before it can decide, or has *)
(* decided already with a view of its own making: only the newest one can    *)
(* hand the old view back (switchMapEngine asks the signal after each await). *)
Overtaken ==
    \A s \in switches :
        /\ s.stage # "landing" => s.view = None
        /\ s.stage \in {"load", "create"} /\ s.gen # generation => s.aborted
        /\ s.stage = "landing" /\ s.gen # generation =>
              \E e \in Engines : s.view = SwitchView(s, e)

IntentInv == LandInv /\ RollbackHasFrom /\ Overtaken

LEMMA AbortStopsTheOvertaken ==
    ASSUME IntentInv
    PROVE  \A t \in AbortActive : \E s \in switches :
             /\ t.gen = s.gen /\ t.stage = s.stage /\ t.view = s.view
             /\ s.aborted => t.aborted
             /\ s.gen = generation => t.aborted
<1>1. \A s \in switches : s.gen = generation => isSwitching
  BY DEF IntentInv, LandInv, SpinnerInv, SpinnerHonest
<1> QED
  BY <1>1 DEF IntentInv, LandInv, TypeOK, SwitchTyped, Switch, AbortActive

LEMMA OvertakenStep == IntentInv /\ [Next]_vars => Overtaken'
<1> SUFFICES ASSUME IntentInv, [Next]_vars
             PROVE  Overtaken'
  OBVIOUS
<1> USE DEF refs, mountVars, switchVars
<1>0. switches \in SUBSET Switch /\ generation \in Nat
  BY DEF IntentInv, LandInv, TypeOK, SwitchTyped
<1>1. ASSUME UNCHANGED <<switches, generation>>
      PROVE  Overtaken'
  BY <1>1 DEF IntentInv, Overtaken, SwitchView
<1>2. CASE Reconnect \/ Unmount
  <2>1. switches' = AbortActive /\ generation' = generation
        /\ \A s \in switches : s.stage # "landing"
    BY <1>2 DEF Reconnect, Unmount, TaskBoundary
  <2> QED
    BY <2>1, AbortStopsTheOvertaken DEF IntentInv, Overtaken
<1>3. ASSUME NEW e \in Engines, SwitchEngine(e) \/ SwitchEngineThrows(e)
      PROVE  Overtaken'
  <2>1. /\ switches' \subseteq AbortActive \cup {NewSwitch(e)}
        /\ generation' = generation + 1
        /\ \A s \in switches : s.stage # "landing"
    BY <1>3 DEF SwitchEngine, SwitchEngineThrows, MayClick, TaskBoundary
  <2>2. /\ NewSwitch(e).gen = generation + 1 /\ NewSwitch(e).stage = "load"
        /\ NewSwitch(e).view = None
    BY DEF NewSwitch
  <2>3. \A t \in AbortActive : t.stage # "landing" /\ t.view = None
                               /\ (t.stage \in {"load", "create"} => t.aborted)
    BY <2>1, AbortStopsTheOvertaken DEF IntentInv, Overtaken
  <2> QED
    BY <2>1, <2>2, <2>3 DEF Overtaken
<1>4. ASSUME NEW s \in switches, SwitchStep(s)
      PROVE  Overtaken'
  <2>1. ASSUME Return(s)
        PROVE  Overtaken'
    BY <2>1 DEF Return, IntentInv, Overtaken, SwitchView
  <2>2. ASSUME NEW t, Proceed(s, t), t.gen = s.gen,
               t.stage # "landing" => t.view = None,
               t.stage \in {"load", "create"} => t.gen = generation \/ t.aborted,
               t.stage = "landing" =>
                  t.gen = generation \/ \E e \in Engines : t.view = SwitchView(s, e)
        PROVE  Overtaken'
    BY <2>2 DEF Proceed, IntentInv, Overtaken, SwitchView
  <2>3. s \in Switch
    BY <1>0
  <2>4. ~s.aborted /\ s.stage \in {"load", "create"} => s.gen = generation
    BY DEF IntentInv, Overtaken
  <2>5. s.stage # "landing" => s.view = None
    BY DEF IntentInv, Overtaken
  <2>6. CASE SwitchLoaded(s)
    <3> DEFINE t == [s EXCEPT !.stage = "create"]
    <3>1. t.gen = s.gen /\ t.stage = "create" /\ t.view = s.view
      BY <2>3 DEF Switch
    <3>2. Return(s) \/ (~s.aborted /\ s.stage = "load" /\ Proceed(s, t))
      BY <2>6 DEF SwitchLoaded, GiveWay
    <3> HIDE DEF t
    <3> QED
      BY <2>1, <2>2, <2>4, <2>5, <3>1, <3>2
  <2>7. CASE SwitchLoadFails(s)
    <3> DEFINE t == [s EXCEPT !.stage = "landing", !.view = s.from, !.result = "rolledBack"]
    <3>1. t.gen = s.gen /\ t.stage = "landing"
      BY <2>3 DEF Switch
    <3>2. Return(s) \/ (~s.aborted /\ s.stage = "load" /\ Proceed(s, t))
      BY <2>7 DEF SwitchLoadFails, GiveWay, Throw
    <3> HIDE DEF t
    <3> QED
      BY <2>1, <2>2, <2>4, <3>1, <3>2
  <2>8. CASE SwitchCreated(s)
    <3> DEFINE t == [s EXCEPT !.stage = "landing", !.view = SwitchView(s, s.to)]
    <3>1. t.gen = s.gen /\ t.stage = "landing" /\ t.view = SwitchView(s, s.to)
          /\ s.to \in Engines
      BY <2>3 DEF Switch
    <3>2. Return(s) \/ Proceed(s, t)
      BY <2>8 DEF SwitchCreated, GiveWay
    <3> HIDE DEF t
    <3> QED
      BY <2>1, <2>2, <3>1, <3>2
  <2>9. CASE SwitchCreateFails(s)
    <3> DEFINE t == [s EXCEPT !.stage = "rollback"]
    <3>1. t.gen = s.gen /\ t.stage = "rollback" /\ t.view = s.view
      BY <2>3 DEF Switch
    <3>2. Return(s) \/ (s.stage = "create" /\ Proceed(s, t))
      BY <2>9 DEF SwitchCreateFails, GiveWay, Throw
    <3> HIDE DEF t
    <3> QED
      BY <2>1, <2>2, <2>5, <3>1, <3>2
  <2>10. CASE RolledBack(s)
    <3> DEFINE t == [s EXCEPT !.stage = "landing", !.result = "rolledBack",
                              !.view = SwitchView(s, s.from.eng)]
    <3>1. t.gen = s.gen /\ t.stage = "landing" /\ t.view = SwitchView(s, s.from.eng)
      BY <2>3 DEF Switch
    <3>2. s.from.eng \in Engines
      BY <2>3, <2>10 DEF RolledBack, IntentInv, RollbackHasFrom, Switch, MaybeView, View
    <3>3. Proceed(s, t)
      BY <2>10 DEF RolledBack
    <3> HIDE DEF t
    <3> QED
      BY <2>2, <3>1, <3>2, <3>3
  <2>11. CASE RollbackFails(s) \/ LandSwitch(s)
    BY <2>1, <2>11 DEF RollbackFails, LandSwitch, Throw
  <2> QED
    BY <1>4, <2>6, <2>7, <2>8, <2>9, <2>10, <2>11 DEF SwitchStep
<1>5. CASE FirstMount \/ RetryMount
  BY <1>1, <1>5 DEF FirstMount, RetryMount
<1>6. ASSUME NEW c \in chains, ChainStep(c) \/ Watchdog(c)
      PROVE  Overtaken'
  BY <1>1, <1>6 DEF ChainStep, MountLoaded, MountCreated, MountFails, LandMount, Watchdog
<1>7. ASSUME NEW v \in doomed, DelayedDestroy(v)
      PROVE  Overtaken'
  BY <1>1, <1>7 DEF DelayedDestroy
<1>8. CASE UNCHANGED vars
  BY <1>1, <1>8 DEF vars
<1> QED
  BY <1>2, <1>3, <1>4, <1>5, <1>6, <1>7, <1>8 DEF Next

LEMMA IntentInit == Init => IntentInv
<1>1. Init => Overtaken
  BY DEF Init, Overtaken
<1> QED
  BY <1>1, TypeInit, SpinnerInit, LandInit DEF IntentInv, LandInv

LEMMA IntentStep == IntentInv /\ [Next]_vars => IntentInv'
<1>1. IntentInv /\ [Next]_vars => LandInv' /\ RollbackHasFrom'
  BY TypeStep, SpinnerStep, LandStep DEF IntentInv, LandInv
<1> QED
  BY <1>1, OvertakenStep DEF IntentInv

(* Two undecided requests cannot hold the same view: it would be the old view *)
(* of both, and then both would be the newest.                                *)
LEMMA LandingsDiffer ==
    ASSUME IntentInv, NEW s \in switches, NEW t \in switches,
           s.stage = "landing", t.stage = "landing", s.gen # generation,
           t.gen = generation
    PROVE  s.view # t.view
<1>1. PICK e \in Engines : s.view = SwitchView(s, e)
  BY DEF IntentInv, Overtaken
<1>2. s.view # None /\ s.view.by = "switch" /\ s.view.n = s.gen
  <2>1. s.view \in View
    BY <1>1 DEF IntentInv, LandInv, TypeOK, SwitchTyped, Switch, SwitchView, View
  <2> QED
    BY <1>1, <2>1, NoneAssumption DEF SwitchView
<1>3. ~Old(s.view)
  BY <1>2 DEF Old
<1>4. t.view = t.from \/ \E d : t.view = SwitchView(t, d)
  BY DEF IntentInv, LandInv, Deciding, TypeOK, SwitchTyped, Switch
<1>5. Old(t.from)
  BY DEF IntentInv, LandInv, OldRefs
<1>6. \A d : s.view # SwitchView(t, d)
  BY <1>2 DEF SwitchView
<1> QED
  BY <1>3, <1>4, <1>5, <1>6

LEMMA IntentWinsStep ==
    ASSUME IntentInv, [Next]_vars, NEW s \in switches,
           viewRef' # viewRef, viewRef' = s.view, s.view # None
    PROVE  s.gen = generation
<1> SUFFICES ASSUME s.gen # generation
             PROVE  FALSE
  OBVIOUS
<1>1. s.stage = "landing"
  BY DEF IntentInv, Overtaken
<1>2. PICK e \in Engines : s.view = SwitchView(s, e)
  BY <1>1 DEF IntentInv, Overtaken
<1>3. ~TaskBoundary
  BY <1>1 DEF TaskBoundary
<1>4. CASE \E c \in chains : LandMount(c)
  BY <1>2, <1>4 DEF LandMount, MountView, SwitchView
<1>5. ASSUME NEW t \in switches, LandSwitch(t)
      PROVE  FALSE
  <2>1. t.stage = "landing" /\ t.gen = generation /\ viewRef' = t.view
    BY <1>5 DEF LandSwitch, Stale
  <2> QED
    BY <1>1, <2>1, LandingsDiffer
<1>6. ASSUME NEW t \in switches, Throw(t)
      PROVE  FALSE
  BY <1>6 DEF Throw
<1> QED
  BY <1>3, <1>4, <1>5, <1>6 DEF Next, vars, refs, FirstMount, RetryMount, Reconnect, Unmount,
     ChainStep, MountLoaded, MountCreated, MountFails, Watchdog, DelayedDestroy, SwitchEngine,
     SwitchEngineThrows, MayClick, SwitchStep, SwitchLoaded, SwitchLoadFails, SwitchCreated,
     SwitchCreateFails, RolledBack, RollbackFails, GiveWay

(* However many requests overlap, and whatever their engines answer, only    *)
(* the newest one puts its view on the screen (the checks of the signal and  *)
(* of the generation in switchMapEngine and switchEngine).                   *)
THEOREM NewestIntentAlwaysWins == Spec => NewestIntentWins
<1>1. IntentInv /\ [Next]_vars =>
        [\A s \in switches : viewRef' # viewRef /\ viewRef' = s.view /\ s.view # None
             => s.gen = generation]_vars
  BY IntentWinsStep
<1> QED
  BY <1>1, IntentInit, IntentStep, PTL DEF Spec, NewestIntentWins

-----------------------------------------------------------------------------
(* The load phase keeps the old view *)

LEMMA LoadPhaseStep ==
    ASSUME TypeOK, [Next]_vars, NEW s \in switches,
           s.stage = "load", s \notin switches', s.from \in live
    PROVE  \/ s.from \in live'
           \/ \E t \in switches' : t.gen = s.gen /\ t.stage = "create"
<1>1. s \in Switch
  BY DEF TypeOK, SwitchTyped
<1>2. CASE FirstMount \/ RetryMount \/ Reconnect \/ Unmount
  BY <1>2 DEF FirstMount, RetryMount, Reconnect, Unmount
<1>3. CASE \E e \in Engines : SwitchEngine(e) \/ SwitchEngineThrows(e)
  BY <1>3 DEF SwitchEngine, SwitchEngineThrows
<1>4. CASE \E c \in chains : ChainStep(c) \/ Watchdog(c)
  BY <1>4 DEF ChainStep, MountLoaded, MountCreated, MountFails, LandMount, Watchdog, switchVars
<1>5. CASE \E v \in doomed : DelayedDestroy(v)
  BY <1>5 DEF DelayedDestroy, switchVars
<1>6. ASSUME NEW t \in switches, SwitchStep(t)
      PROVE  \/ s.from \in live'
             \/ \E u \in switches' : u.gen = s.gen /\ u.stage = "create"
  <2>1. switches \ {t} \subseteq switches'
    BY <1>6 DEF SwitchStep, SwitchLoaded, SwitchLoadFails, SwitchCreated, SwitchCreateFails,
       RolledBack, RollbackFails, LandSwitch, GiveWay, Throw, Return, Proceed
  <2>2. t = s
    BY <2>1
  <2>3. CASE SwitchLoaded(s)
    <3>1. [s EXCEPT !.stage = "create"].gen = s.gen
          /\ [s EXCEPT !.stage = "create"].stage = "create"
      BY <1>1 DEF Switch
    <3> QED
      BY <2>3, <3>1 DEF SwitchLoaded, GiveWay, Proceed
  <2>4. CASE SwitchLoadFails(s)
    BY <2>4 DEF SwitchLoadFails, GiveWay, Throw
  <2> QED
    BY <1>6, <2>2, <2>3, <2>4 DEF SwitchStep, SwitchCreated, SwitchCreateFails, RolledBack,
       RollbackFails, LandSwitch
<1>7. CASE UNCHANGED vars
  BY <1>7 DEF vars, switchVars
<1> QED
  BY <1>2, <1>3, <1>4, <1>5, <1>6, <1>7 DEF Next

(* Whoever overtakes a request, and however its load ends, the old view is   *)
(* destroyed only by the step that goes on to create the new one.            *)
THEOREM LoadPhaseAlwaysKeepsView == Spec => LoadPhaseKeepsView
<1>1. TypeOK /\ [Next]_vars =>
        [\A s \in switches :
            s.stage = "load" /\ s \notin switches' /\ s.from \in live
            => \/ s.from \in live'
               \/ \E t \in switches' : t.gen = s.gen /\ t.stage = "create"]_vars
  BY LoadPhaseStep
<1> QED
  BY <1>1, TypeCorrect, PTL DEF Spec, LoadPhaseKeepsView

-----------------------------------------------------------------------------
(* Mount chains and their views, whatever requests overlap *)

(* Mount chains are numbered by mountSeq, no two alike, and one that the     *)
(* watchdog gave up is never the current one.                                *)
ChainsNumbered ==
    /\ \A c \in chains : c.seq <= mountSeq /\ (c.timedOut => c.seq < mountSeq)
    /\ \A c, d \in chains : c.seq = d.seq => c = d

(* A view the hook already holds belongs to a chain that has settled.        *)
Landed(v) == v # None /\ v.by = "mount" => /\ v.n <= mountSeq
                                           /\ \A c \in chains : c.seq # v.n
LandedRefs == Landed(viewRef) /\ Landed(keepalive) /\ \A s \in switches : Landed(s.from)

(* A chain that is about to land has its view.                               *)
LandingsLive == \A c \in chains : c.stage = "landing" => MountView(c) \in live

MountInv == ChainsNumbered /\ LandedRefs /\ LandingsLive
MountsInv == IntentInv /\ MountInv

LEMMA MountTypes ==
    ASSUME MountsInv
    PROVE  TypeOK /\ ViewsTyped /\ StateTyped /\ MountTyped /\ SwitchTyped
BY DEF MountsInv, IntentInv, LandInv, TypeOK

(* What a step does to the mount chains: some settle, one goes on, or one    *)
(* starts with a new number.                                                 *)
ChainsShrink == chains' \subseteq chains /\ mountSeq' >= mountSeq
ChainGoesOn ==
    \E c \in chains, d \in Chain :
        /\ chains' = (chains \ {c}) \cup {d} /\ d.seq = c.seq
        /\ mountSeq' >= mountSeq
        /\ d.timedOut => c.timedOut \/ mountSeq' > mountSeq
ChainStarts ==
    \E d \in Chain : chains' = chains \cup {d} /\ d.seq = mountSeq' /\ mountSeq' > mountSeq
                     /\ ~d.timedOut

LEMMA ChainsMove ==
    ASSUME TypeOK, [Next]_vars
    PROVE  mountSeq' \in Nat /\ (ChainsShrink \/ ChainGoesOn \/ ChainStarts)
<1> USE DEF refs, mountVars, switchVars
<1>0. chains \in SUBSET Chain /\ mountSeq \in Nat
  BY DEF TypeOK, MountTyped
<1>1. \A n \in Nat : NewChain(n) \in Chain /\ NewChain(n).seq = n /\ ~NewChain(n).timedOut
  BY NewChainIsChain DEF NewChain
<1>2. ASSUME NEW n \in Nat, n > mountSeq, RunMount(n)
      PROVE  mountSeq' \in Nat /\ ChainStarts
  BY <1>1, <1>2 DEF RunMount, ChainStarts
<1>3. ASSUME chains' \subseteq chains, mountSeq' \in {mountSeq, mountSeq + 1}
      PROVE  mountSeq' \in Nat /\ ChainsShrink
  BY <1>0, <1>3 DEF ChainsShrink
<1>4. CASE FirstMount \/ RetryMount
  BY <1>0, <1>2, <1>4 DEF FirstMount, RetryMount
<1>5. CASE Reconnect
  BY <1>0, <1>2, <1>3, <1>5 DEF Reconnect
<1>6. CASE Unmount
  BY <1>3, <1>6 DEF Unmount
<1>7. ASSUME NEW c \in chains, ChainStep(c)
      PROVE  mountSeq' \in Nat /\ (ChainsShrink \/ ChainGoesOn)
  <2>1. c \in Chain
    BY <1>0
  <2>2. ASSUME Settle(c)
        PROVE  mountSeq' \in Nat /\ ChainsShrink
    BY <1>3, <2>2 DEF Settle
  <2>3. ASSUME NEW d \in Chain, d.seq = c.seq, d.timedOut = c.timedOut, Advance(c, d)
        PROVE  mountSeq' \in Nat /\ ChainGoesOn
    BY <1>0, <2>3 DEF Advance, ChainGoesOn
  <2>4. \A st \in {"create", "landing"} :
           /\ [c EXCEPT !.stage = st] \in Chain
           /\ [c EXCEPT !.stage = st].seq = c.seq
           /\ [c EXCEPT !.stage = st].timedOut = c.timedOut
    BY <2>1 DEF Chain
  <2>5. CASE MountLoaded(c)
    BY <2>2, <2>3, <2>4, <2>5 DEF MountLoaded
  <2>6. CASE MountCreated(c)
    BY <2>2, <2>3, <2>4, <2>6 DEF MountCreated
  <2>7. CASE MountFails(c)
    <3> DEFINE d == [c EXCEPT !.eng = FirstOf(c.todo), !.stage = "load",
                              !.todo = @ \ {FirstOf(c.todo)}]
    <3>1. c.todo # {} => d \in Chain /\ d.seq = c.seq /\ d.timedOut = c.timedOut
      BY <2>1, FirstOfIsMember DEF Chain
    <3>2. Settle(c) \/ (c.todo # {} /\ Advance(c, d))
      BY <2>7 DEF MountFails
    <3> HIDE DEF d
    <3> QED
      BY <2>2, <2>3, <3>1, <3>2
  <2>8. CASE LandMount(c)
    BY <2>2, <2>8 DEF LandMount
  <2> QED
    BY <1>7, <2>5, <2>6, <2>7, <2>8 DEF ChainStep
<1>8. ASSUME NEW c \in chains, Watchdog(c)
      PROVE  mountSeq' \in Nat /\ ChainGoesOn
  <2> DEFINE d == [c EXCEPT !.timedOut = TRUE]
  <2>1. d \in Chain /\ d.seq = c.seq
    BY <1>0 DEF Chain
  <2>2. mountSeq' = mountSeq + 1 /\ chains' = (chains \ {c}) \cup {d}
    BY <1>8 DEF Watchdog
  <2> HIDE DEF d
  <2>3. mountSeq' \in Nat /\ mountSeq' >= mountSeq /\ mountSeq' > mountSeq
    BY <1>0, <2>2
  <2> QED
    BY <2>1, <2>2, <2>3 DEF ChainGoesOn
<1>9. ASSUME NEW v \in doomed, DelayedDestroy(v)
      PROVE  mountSeq' \in Nat /\ ChainsShrink
  BY <1>3, <1>9 DEF DelayedDestroy
<1>10. ASSUME NEW e \in Engines, SwitchEngine(e) \/ SwitchEngineThrows(e)
       PROVE  mountSeq' \in Nat /\ ChainsShrink
  BY <1>3, <1>10 DEF SwitchEngine, SwitchEngineThrows
<1>11. ASSUME NEW s \in switches, SwitchStep(s)
       PROVE  mountSeq' \in Nat /\ ChainsShrink
  BY <1>3, <1>11 DEF SwitchStep, SwitchLoaded, SwitchLoadFails, SwitchCreated,
     SwitchCreateFails, RolledBack, RollbackFails, LandSwitch, KeepOthers
<1>12. CASE UNCHANGED vars
  BY <1>3, <1>12 DEF vars
<1> QED
  BY <1>4, <1>5, <1>6, <1>7, <1>8, <1>9, <1>10, <1>11, <1>12 DEF Next

LEMMA NumberedStep ==
    ASSUME MountsInv, [Next]_vars
    PROVE  ChainsNumbered'
<1>0. chains \in SUBSET Chain /\ mountSeq \in Nat /\ \A d \in Chain : d.seq \in Nat
  BY MountTypes DEF MountTyped, Chain
<1>1. ChainsNumbered /\ mountSeq' \in Nat /\ (ChainsShrink \/ ChainGoesOn \/ ChainStarts)
  BY MountTypes, ChainsMove DEF MountsInv, MountInv
<1>2. CASE ChainsShrink
  BY <1>0, <1>1, <1>2 DEF ChainsShrink, ChainsNumbered
<1>3. CASE ChainGoesOn
  <2>1. PICK c \in chains, d \in Chain :
          /\ chains' = (chains \ {c}) \cup {d} /\ d.seq = c.seq
          /\ mountSeq' >= mountSeq
          /\ d.timedOut => c.timedOut \/ mountSeq' > mountSeq
    BY <1>3 DEF ChainGoesOn
  <2> QED
    BY <1>0, <1>1, <2>1 DEF ChainsNumbered
<1>4. CASE ChainStarts
  <2>1. PICK d \in Chain : chains' = chains \cup {d} /\ d.seq = mountSeq'
                           /\ mountSeq' > mountSeq /\ ~d.timedOut
    BY <1>4 DEF ChainStarts
  <2> QED
    BY <1>0, <1>1, <2>1 DEF ChainsNumbered
<1> QED
  BY <1>1, <1>2, <1>3, <1>4

(* What has landed stays so, and a cancelled chain stays cancelled: numbers  *)
(* only grow.                                                                *)
LEMMA NumbersOnlyGrow ==
    ASSUME MountsInv, [Next]_vars
    PROVE  /\ \A v \in MaybeView : Landed(v) => Landed(v)'
           /\ (\A c \in chains : Cancelled(c)) /\ ~ChainStarts
                 => \A c \in chains' : c.seq # mountSeq'
<1>0. chains \in SUBSET Chain /\ mountSeq \in Nat /\ \A d \in Chain : d.seq \in Nat
  BY MountTypes DEF MountTyped, Chain
<1>1. \A v \in MaybeView : v # None => v.n \in Nat
  BY DEF MaybeView, View
<1>2. ChainsNumbered /\ mountSeq' \in Nat /\ (ChainsShrink \/ ChainGoesOn \/ ChainStarts)
  BY MountTypes, ChainsMove DEF MountsInv, MountInv
<1>3. CASE ChainsShrink
  BY <1>0, <1>1, <1>2, <1>3 DEF ChainsShrink, ChainsNumbered, Landed, Cancelled
<1>4. CASE ChainGoesOn
  <2>1. PICK c \in chains, d \in Chain :
          /\ chains' = (chains \ {c}) \cup {d} /\ d.seq = c.seq
          /\ mountSeq' >= mountSeq
          /\ d.timedOut => c.timedOut \/ mountSeq' > mountSeq
    BY <1>4 DEF ChainGoesOn
  <2> QED
    BY <1>0, <1>1, <1>2, <2>1 DEF ChainsNumbered, Landed, Cancelled
<1>5. CASE ChainStarts
  <2>1. PICK d \in Chain : chains' = chains \cup {d} /\ d.seq = mountSeq'
                           /\ mountSeq' > mountSeq /\ ~d.timedOut
    BY <1>5 DEF ChainStarts
  <2> QED
    BY <1>0, <1>1, <1>2, <1>5, <2>1 DEF Landed
<1> QED
  BY <1>2, <1>3, <1>4, <1>5

(* Where the hook's views come from.                                         *)
LEMMA RefsMove ==
    ASSUME TypeOK, [Next]_vars
    PROVE  /\ \/ viewRef' \in {viewRef, keepalive, None}
              \/ \E c \in chains : LandMount(c) /\ viewRef' = MountView(c)
              \/ \E s \in switches : LandSwitch(s) /\ viewRef' = s.view
           /\ keepalive' \in {viewRef, keepalive, None}
           /\ \A t \in switches' : t.from = viewRef \/ \E s \in switches : t.from = s.from
<1> USE DEF refs, mountVars, switchVars
<1>1. CASE FirstMount \/ RetryMount
  BY <1>1 DEF FirstMount, RetryMount
<1>2. \A t \in AbortActive : \E s \in switches : t.from = s.from
  BY DEF AbortActive, TypeOK, SwitchTyped, Switch
<1>3. CASE Reconnect \/ Unmount
  BY <1>2, <1>3 DEF Reconnect, Unmount, HandOver
<1>4. ASSUME NEW c \in chains, ChainStep(c) \/ Watchdog(c)
      PROVE  /\ viewRef' = viewRef \/ (LandMount(c) /\ viewRef' = MountView(c))
             /\ UNCHANGED <<keepalive, switches>>
  BY <1>4 DEF ChainStep, MountLoaded, MountCreated, MountFails, LandMount, Watchdog
<1>5. ASSUME NEW v \in doomed, DelayedDestroy(v)
      PROVE  UNCHANGED <<viewRef, switches>> /\ keepalive' \in {keepalive, None}
  BY <1>5 DEF DelayedDestroy
<1>6. ASSUME NEW e \in Engines, SwitchEngine(e) \/ SwitchEngineThrows(e)
      PROVE  /\ viewRef' \in {viewRef, None} /\ keepalive' = keepalive
             /\ \A t \in switches' : t.from = viewRef \/ \E s \in switches : t.from = s.from
  BY <1>2, <1>6 DEF SwitchEngine, SwitchEngineThrows, NewSwitch
<1>7. ASSUME NEW s \in switches, SwitchStep(s)
      PROVE  /\ viewRef' \in {viewRef, None} \/ (LandSwitch(s) /\ viewRef' = s.view)
             /\ keepalive' = keepalive
             /\ \A t \in switches' : \E u \in switches : t.from = u.from
  <2> USE DEF KeepOthers, GiveWay, Throw
  <2>1. s \in Switch
    BY DEF TypeOK, SwitchTyped
  <2>2. viewRef' \in {viewRef, None} \/ (LandSwitch(s) /\ viewRef' = s.view)
    BY <1>7 DEF SwitchStep, SwitchLoaded, SwitchLoadFails, SwitchCreated, SwitchCreateFails,
       RolledBack, RollbackFails, LandSwitch
  <2>3. keepalive' = keepalive
    BY <1>7 DEF SwitchStep, SwitchLoaded, SwitchLoadFails, SwitchCreated, SwitchCreateFails,
       RolledBack, RollbackFails, LandSwitch
  <2>4. \A t \in switches' : \E u \in switches : t.from = u.from
    BY <1>7, <2>1 DEF SwitchStep, SwitchLoaded, SwitchLoadFails, SwitchCreated,
       SwitchCreateFails, RolledBack, RollbackFails, LandSwitch, Return, Proceed, Switch
  <2> QED
    BY <2>2, <2>3, <2>4
<1>8. CASE UNCHANGED vars
  BY <1>8 DEF vars
<1> QED
  BY <1>1, <1>3, <1>4, <1>5, <1>6, <1>7, <1>8 DEF Next

LEMMA LandedStep ==
    ASSUME MountsInv, [Next]_vars
    PROVE  LandedRefs'
<1>0. /\ viewRef \in MaybeView /\ keepalive \in MaybeView
      /\ \A s \in switches : s.from \in MaybeView
  BY MountTypes DEF ViewsTyped, SwitchTyped, Switch
<1>2. \A v \in {viewRef, keepalive, None} : v \in MaybeView /\ Landed(v)
  BY <1>0 DEF MountsInv, MountInv, LandedRefs, Landed, MaybeView
<1>3. \A v \in MaybeView : Landed(v) => (v # None /\ v.by = "mount" =>
            v.n <= mountSeq' /\ \A c \in chains' : c.seq # v.n)
  BY NumbersOnlyGrow DEF Landed
<1>4. ASSUME NEW c \in chains, LandMount(c), viewRef' = MountView(c)
      PROVE  Landed(viewRef)'
  <2>1. chains' = chains \ {c} /\ mountSeq' = mountSeq
    BY <1>4 DEF LandMount, Settle
  <2>2. c.seq <= mountSeq /\ \A d \in chains \ {c} : d.seq # c.seq
    BY DEF MountsInv, MountInv, ChainsNumbered
  <2> QED
    BY <1>4, <2>1, <2>2 DEF Landed, MountView
<1>5. ASSUME NEW s \in switches, LandSwitch(s), viewRef' = s.view
      PROVE  Landed(viewRef)'
  <2>1. s.view = s.from \/ \E e : s.view = SwitchView(s, e)
    BY <1>5, MountTypes DEF LandSwitch, MountsInv, IntentInv, LandInv, Deciding, SwitchTyped, Switch
  <2>2. CASE s.view = s.from
    BY <1>0, <1>3, <1>5, <2>2 DEF MountsInv, MountInv, LandedRefs, Landed
  <2>3. CASE \E e : s.view = SwitchView(s, e)
    BY <1>5, <2>3 DEF SwitchView, Landed
  <2> QED
    BY <2>1, <2>2, <2>3
<1>6. Landed(viewRef)' /\ Landed(keepalive)'
  BY <1>2, <1>3, <1>4, <1>5, MountTypes, RefsMove DEF Landed
<1>7. \A t \in switches' : t.from \in MaybeView /\ Landed(t.from)
  BY <1>0, MountTypes, RefsMove DEF MountsInv, MountInv, LandedRefs
<1> QED
  BY <1>3, <1>6, <1>7 DEF LandedRefs, Landed

(* The view of a chain that has not settled is none of those others hold.    *)
LEMMA ChainViewsAreTheirOwn ==
    ASSUME MountsInv, NEW c \in chains
    PROVE  /\ MountView(c) \in View /\ MountView(c) # None
           /\ viewRef # MountView(c)
           /\ \A s \in switches : s.from # MountView(c)
           /\ \A s \in switches : s.stage = "landing" => s.view # MountView(c)
           /\ \A d \in chains \ {c} : MountView(d) # MountView(c)
           /\ \A s \in switches, e \in Engines : SwitchView(s, e) # MountView(c)
<1>1. MountView(c) \in View /\ MountView(c) # None
  BY MountTypes, NoneAssumption DEF MountTyped, Chain, MountView, View
<1>2. MountView(c).by = "mount" /\ MountView(c).n = c.seq
  BY DEF MountView
<1>3. ~Landed(MountView(c))
  BY <1>1, <1>2 DEF Landed
<1>4. \A s, e : SwitchView(s, e) # MountView(c)
  BY <1>2 DEF SwitchView
<1>5. \A s \in switches : s.stage = "landing" =>
           s.view = s.from \/ \E e : s.view = SwitchView(s, e)
  BY MountTypes DEF MountsInv, IntentInv, LandInv, Deciding, SwitchTyped, Switch
<1>6. \A d \in chains \ {c} : MountView(d) # MountView(c)
  BY <1>2 DEF MountView, MountsInv, MountInv, ChainsNumbered
<1> QED
  BY <1>1, <1>3, <1>4, <1>5, <1>6 DEF MountsInv, MountInv, LandedRefs

LEMMA LandingsStep ==
    ASSUME MountsInv, [Next]_vars
    PROVE  LandingsLive'
<1> USE DEF refs, mountVars, switchVars
<1>0. LandingsLive /\ chains \in SUBSET Chain
  BY MountTypes DEF MountsInv, MountInv, MountTyped
<1>1. \A c \in chains : /\ viewRef # MountView(c)
                        /\ \A s \in switches : s.from # MountView(c)
                        /\ \A s \in switches : s.stage = "landing" => s.view # MountView(c)
                        /\ \A d \in chains \ {c} : MountView(d) # MountView(c)
  BY ChainViewsAreTheirOwn
<1>2. ASSUME \A c \in chains' : c.stage = "landing" => c \in chains, live \subseteq live'
      PROVE  LandingsLive'
  BY <1>0, <1>2 DEF LandingsLive, MountView
<1>3. \A n : NewChain(n).stage = "load"
  BY DEF NewChain
<1>4. CASE FirstMount \/ RetryMount
  BY <1>2, <1>3, <1>4 DEF FirstMount, RetryMount, RunMount
<1>5. CASE Reconnect \/ Unmount
  BY <1>2, <1>3, <1>5 DEF Reconnect, Unmount, RunMount
<1>6. ASSUME NEW c \in chains, ChainStep(c)
      PROVE  LandingsLive'
  <2>0. c \in Chain
    BY <1>0
  <2>1. CASE MountLoaded(c)
    <3>1. [c EXCEPT !.stage = "create"].stage = "create"
      BY <2>0 DEF Chain
    <3> QED
      BY <1>2, <2>1, <3>1 DEF MountLoaded, Settle, Advance
  <2>2. CASE MountCreated(c)
    <3> DEFINE d == [c EXCEPT !.stage = "landing"]
    <3>1. MountView(d) = MountView(c)
      BY <2>0 DEF Chain, MountView
    <3>2. \/ chains' \subseteq chains /\ live' = live
          \/ chains' = (chains \ {c}) \cup {d} /\ live' = live \cup {MountView(c)}
      BY <2>2 DEF MountCreated, Settle, Advance
    <3> HIDE DEF d
    <3> QED
      BY <1>0, <1>2, <3>1, <3>2 DEF LandingsLive, MountView
  <2>3. CASE MountFails(c)
    <3> DEFINE d == [c EXCEPT !.eng = FirstOf(c.todo), !.stage = "load",
                              !.todo = @ \ {FirstOf(c.todo)}]
    <3>1. d.stage = "load"
      BY <2>0 DEF Chain
    <3>2. (chains' \subseteq chains \/ chains' = (chains \ {c}) \cup {d}) /\ live' = live
      BY <2>3 DEF MountFails, Settle, Advance
    <3> HIDE DEF d
    <3> QED
      BY <1>2, <3>1, <3>2
  <2>4. CASE LandMount(c)
    <3>1. chains' = chains \ {c} /\ live \ {MountView(c)} \subseteq live'
      BY <2>4 DEF LandMount, Settle
    <3> QED
      BY <1>0, <1>1, <3>1 DEF LandingsLive, MountView
  <2> QED
    BY <1>6, <2>1, <2>2, <2>3, <2>4 DEF ChainStep
<1>7. ASSUME NEW c \in chains, Watchdog(c)
      PROVE  LandingsLive'
  <2>1. [c EXCEPT !.timedOut = TRUE].stage = c.stage /\ c.stage # "landing"
    BY <1>0, <1>7 DEF Chain, Watchdog, TaskBoundary
  <2> QED
    BY <1>2, <1>7, <2>1 DEF Watchdog
<1>8. ASSUME NEW v \in doomed, DelayedDestroy(v)
      PROVE  LandingsLive'
  BY <1>8 DEF DelayedDestroy, TaskBoundary, LandingsLive
<1>9. ASSUME NEW e \in Engines, SwitchEngine(e) \/ SwitchEngineThrows(e)
      PROVE  LandingsLive'
  BY <1>2, <1>9 DEF SwitchEngine, SwitchEngineThrows
<1>10. ASSUME NEW s \in switches, SwitchStep(s)
       PROVE  LandingsLive'
  <2>1. chains' = chains
    BY <1>10 DEF SwitchStep, SwitchLoaded, SwitchLoadFails, SwitchCreated, SwitchCreateFails,
       RolledBack, RollbackFails, LandSwitch, KeepOthers
  <2>2. \/ live \ {s.from} \subseteq live'
        \/ s.stage = "landing" /\ live \ {s.view, viewRef} \subseteq live'
    BY <1>10 DEF SwitchStep, SwitchLoaded, SwitchLoadFails, SwitchCreated, SwitchCreateFails,
       RolledBack, RollbackFails, LandSwitch, GiveWay, Throw
  <2> QED
    BY <1>0, <1>1, <2>1, <2>2 DEF LandingsLive, MountView
<1>11. CASE UNCHANGED vars
  BY <1>2, <1>11 DEF vars
<1> QED
  BY <1>4, <1>5, <1>6, <1>7, <1>8, <1>9, <1>10, <1>11 DEF Next

LEMMA MountsInit == Init => MountsInv
<1>1. Init => MountInv
  BY DEF Init, MountInv, ChainsNumbered, LandedRefs, Landed, LandingsLive
<1> QED
  BY <1>1, IntentInit DEF MountsInv

LEMMA MountsStep == MountsInv /\ [Next]_vars => MountsInv'
<1>1. MountsInv /\ [Next]_vars => IntentInv'
  BY IntentStep DEF MountsInv
<1>2. MountsInv /\ [Next]_vars => MountInv'
  BY NumberedStep, LandedStep, LandingsStep DEF MountInv
<1> QED
  BY <1>1, <1>2 DEF MountsInv

-----------------------------------------------------------------------------
(* No view is leaked, whatever requests overlap, but for the dropped ones *)

LEMMA OwnersStep ==
    ASSUME TypeOK, NoOrphan, [NotedNext]_notedVars
    PROVE  NoOrphan'
<1> USE DEF refs, mountVars, switchVars
<1>a. live \in SUBSET View /\ None \notin View /\ chains \in SUBSET Chain
      /\ switches \in SUBSET Switch
  BY NoneAssumption DEF TypeOK, ViewsTyped, MountTyped, SwitchTyped
<1>b. CASE UNCHANGED notedVars
  BY <1>b DEF notedVars, vars, NoOrphan, Owned, MountView
<1>c. CASE NotedNext
  <2>0. forgotten \subseteq forgotten' /\ DroppedNow \subseteq forgotten' /\ Next
    BY <1>c DEF NotedNext
  <2>1. ASSUME live' \subseteq live, doomed \subseteq doomed',
               viewRef' = viewRef \/ viewRef \notin live' \/ viewRef \in doomed',
               \A c \in chains : c.stage = "landing" => c \in chains',
               \A s \in switches : s.stage = "landing" => s \in switches'
        PROVE  NoOrphan'
    BY <2>0, <2>1 DEF NoOrphan, Owned, MountView
  <2>2. CASE FirstMount \/ RetryMount
    BY <2>1, <2>2 DEF FirstMount, RetryMount, RunMount
  <2>3. CASE Reconnect \/ Unmount
    <3>1. live' = live /\ doomed' = DoomedNow /\ TaskBoundary
      BY <2>3 DEF Reconnect, Unmount
    <3>2. doomed \subseteq DoomedNow /\ (viewRef \in live => viewRef \in DoomedNow)
      BY DEF DoomedNow
    <3> QED
      BY <2>1, <3>1, <3>2 DEF TaskBoundary
  <2>4. ASSUME NEW c \in chains, ChainStep(c)
        PROVE  NoOrphan'
    <3>0. c \in Chain /\ UNCHANGED <<doomed, switches>>
      BY <2>4, <1>a DEF ChainStep, MountLoaded, MountCreated, MountFails, LandMount
    <3>1. CASE MountLoaded(c)
      BY <2>1, <3>0, <3>1 DEF MountLoaded, Settle, Advance
    <3>2. CASE MountCreated(c)
      <4> DEFINE d == [c EXCEPT !.stage = "landing"]
      <4>1. d.stage = "landing" /\ MountView(d) = MountView(c)
        BY <3>0 DEF Chain, MountView
      <4>2. c.stage # "landing" /\ viewRef' = viewRef
        BY <3>2 DEF MountCreated
      <4>3. CASE chains' = chains \ {c} /\ live' = live
        BY <2>1, <3>0, <4>2, <4>3
      <4>4. CASE chains' = (chains \ {c}) \cup {d} /\ live' = live \cup {MountView(c)}
        <5> HIDE DEF d
        <5> QED
          BY <2>0, <3>0, <4>1, <4>2, <4>4 DEF NoOrphan, Owned, MountView
      <4> QED
        BY <3>2, <4>3, <4>4 DEF MountCreated, Settle, Advance
    <3>3. CASE MountFails(c)
      BY <2>1, <3>0, <3>3 DEF MountFails, Settle, Advance
    <3>4. CASE LandMount(c)
      <4>1. chains' = chains \ {c}
        BY <3>4 DEF LandMount, Settle
      <4>2. \/ live' = live \ {MountView(c)} /\ viewRef' = viewRef
            \/ live' = live /\ viewRef = None /\ viewRef' = MountView(c)
        BY <3>4 DEF LandMount
      <4> QED
        BY <1>a, <2>0, <3>0, <4>1, <4>2 DEF NoOrphan, Owned, MountView
    <3> QED
      BY <2>4, <3>1, <3>2, <3>3, <3>4 DEF ChainStep
  <2>5. ASSUME NEW c \in chains, Watchdog(c)
        PROVE  NoOrphan'
    BY <2>1, <2>5 DEF Watchdog, TaskBoundary
  <2>6. ASSUME NEW v \in doomed, DelayedDestroy(v)
        PROVE  NoOrphan'
    <3>1. UNCHANGED <<viewRef, chains, switches>> /\ doomed' = doomed \ {v}
          /\ ((viewRef = v /\ live' = live) \/ live' = live \ {v})
      BY <2>6 DEF DelayedDestroy
    <3> QED
      BY <2>0, <3>1 DEF NoOrphan, Owned, MountView
  <2>7. ASSUME NEW e \in Engines, SwitchEngine(e) \/ SwitchEngineThrows(e)
        PROVE  NoOrphan'
    <3>1. UNCHANGED <<live, doomed, chains>> /\ TaskBoundary
          /\ (viewRef' = viewRef \/ viewRef \notin live)
      BY <2>7 DEF SwitchEngine, SwitchEngineThrows, MayClick
    <3> QED
      BY <2>1, <3>1 DEF TaskBoundary
  <2>8. ASSUME NEW s \in switches, SwitchStep(s)
        PROVE  NoOrphan'
    <3>0. s \in Switch /\ UNCHANGED <<doomed, chains>>
      BY <2>8, <1>a DEF SwitchStep, SwitchLoaded, SwitchLoadFails, SwitchCreated,
         SwitchCreateFails, RolledBack, RollbackFails, LandSwitch, KeepOthers
    <3>1. ASSUME s.stage # "landing", NEW t, Proceed(s, t), viewRef' = viewRef,
                 live' \subseteq live \cup ({t.view} \cap View),
                 live' \subseteq live \/ t.stage = "landing"
          PROVE  NoOrphan'
      <4>1. switches' = (switches \ {s}) \cup {t}
        BY <3>1 DEF Proceed
      <4> QED
        BY <2>0, <3>0, <3>1, <4>1 DEF NoOrphan, Owned, MountView
    <3>2. ASSUME s.stage # "landing", switches' = switches \ {s}, live' = live,
                 viewRef' = viewRef \/ (viewRef' = None /\ s.gen = generation)
          PROVE  NoOrphan'
      <4>1. viewRef \in live => viewRef' = viewRef \/ viewRef \in doomed
                                \/ viewRef \in forgotten'
        BY <1>a, <2>0, <3>2 DEF DroppedNow
      <4> QED
        BY <2>0, <3>0, <3>2, <4>1 DEF NoOrphan, Owned, MountView
    <3>3. CASE GiveWay(s) /\ s.stage # "landing"
      BY <3>2, <3>3 DEF GiveWay, Return
    <3>4. CASE Throw(s) /\ s.stage # "landing"
      BY <3>2, <3>4 DEF Throw, Return
    <3>5. CASE SwitchLoaded(s)
      <4>1. s.stage = "load"
        BY <3>5 DEF SwitchLoaded
      <4>2. GiveWay(s) \/ \E t : Proceed(s, t) /\ viewRef' = viewRef /\ live' \subseteq live
        BY <3>5 DEF SwitchLoaded
      <4> QED
        BY <3>1, <3>3, <4>1, <4>2
    <3>6. CASE SwitchLoadFails(s)
      <4>1. s.stage = "load"
        BY <3>6 DEF SwitchLoadFails
      <4>2. \/ GiveWay(s) \/ Throw(s)
            \/ \E t : Proceed(s, t) /\ viewRef' = viewRef /\ live' \subseteq live
        BY <3>6 DEF SwitchLoadFails
      <4> QED
        BY <3>1, <3>3, <3>4, <4>1, <4>2
    <3>7. CASE SwitchCreated(s)
      <4> DEFINE t == [s EXCEPT !.stage = "landing", !.view = SwitchView(s, s.to)]
      <4>1. s.stage = "create"
        BY <3>7 DEF SwitchCreated
      <4>2. t.stage = "landing" /\ t.view = SwitchView(s, s.to) /\ SwitchView(s, s.to) \in View
        BY <3>0 DEF Switch, SwitchView, View
      <4>3. \/ GiveWay(s)
            \/ Proceed(s, t) /\ viewRef' = viewRef /\ live' = live \cup {SwitchView(s, s.to)}
        BY <3>7 DEF SwitchCreated
      <4> HIDE DEF t
      <4> QED
        BY <3>1, <3>3, <4>1, <4>2, <4>3
    <3>8. CASE SwitchCreateFails(s)
      <4>1. s.stage = "create"
        BY <3>8 DEF SwitchCreateFails
      <4>2. \/ GiveWay(s) \/ Throw(s)
            \/ \E t : Proceed(s, t) /\ viewRef' = viewRef /\ live' \subseteq live
        BY <3>8 DEF SwitchCreateFails
      <4> QED
        BY <3>1, <3>3, <3>4, <4>1, <4>2
    <3>9. CASE RolledBack(s)
      <4> DEFINE w == SwitchView(s, s.from.eng)
                 t == [s EXCEPT !.stage = "landing", !.result = "rolledBack", !.view = w]
      <4>1. s.stage = "rollback"
        BY <3>9 DEF RolledBack
      <4>2. t.stage = "landing" /\ t.view = w
        BY <3>0 DEF Switch
      <4>3. Proceed(s, t) /\ viewRef' = viewRef /\ live' = live \cup {w}
        BY <3>9 DEF RolledBack
      <4> HIDE DEF t, w
      <4>4. switches' = (switches \ {s}) \cup {t}
        BY <4>3 DEF Proceed
      <4> QED
        BY <2>0, <3>0, <4>1, <4>2, <4>3, <4>4 DEF NoOrphan, Owned, MountView
    <3>10. CASE RollbackFails(s)
      BY <3>4, <3>10 DEF RollbackFails
    <3>11. CASE LandSwitch(s)
      <4>1. s.stage = "landing" /\ switches' = switches \ {s}
        BY <3>11 DEF LandSwitch, Return
      <4>2. \/ live' = live \ {s.view} /\ viewRef' = viewRef
            \/ /\ s.gen = generation /\ s.result = "rolledBack"
               /\ viewRef' = s.view /\ live' = live
            \/ viewRef' = s.view /\ live' = live \ ({viewRef} \ {s.view})
        BY <3>11 DEF LandSwitch, Stale
      <4>3. viewRef \in live' => viewRef' = viewRef \/ viewRef \in doomed
                                 \/ viewRef \in forgotten'
        BY <2>0, <4>1, <4>2 DEF DroppedNow
      <4>4. s.view \in live' => viewRef' = s.view
        BY <4>2
      <4>5. live' \subseteq live
        BY <4>2
      <4> QED
        BY <2>0, <3>0, <4>1, <4>3, <4>4, <4>5 DEF NoOrphan, Owned, MountView
    <3> QED
      BY <2>8, <3>5, <3>6, <3>7, <3>8, <3>9, <3>10, <3>11 DEF SwitchStep
  <2> QED
    BY <2>0, <2>2, <2>3, <2>4, <2>5, <2>6, <2>7, <2>8 DEF Next
<1> QED
  BY <1>b, <1>c

LEMMA NotedIsSpec == NotedSpec => Spec
<1>1. NotedInit => Init
  BY DEF NotedInit
<1>2. [NotedNext]_notedVars => [Next]_vars
  BY DEF NotedNext, notedVars
<1> QED
  BY <1>1, <1>2, PTL DEF NotedSpec, Spec

(* Every live view is on screen, waits for its destruction, or is in the     *)
(* hands of a landing, but for those a failed switch dropped: for every set  *)
(* of engines, any number of mounts, switches and rollbacks and every kind   *)
(* of overlap (use-map-engine.ts, mount.ts, switch.ts: the cleanups).        *)
THEOREM NothingIsOrphaned == NotedSpec => []NoOrphan
<1>1. NotedInit => NoOrphan
  BY DEF NotedInit, Init, NoOrphan
<1>2. TypeOK /\ NoOrphan /\ [NotedNext]_notedVars => NoOrphan'
  BY OwnersStep
<1>3. NotedSpec => []TypeOK
  BY NotedIsSpec, TypeCorrect, PTL
<1> QED
  BY <1>1, <1>2, <1>3, PTL DEF NotedSpec

-----------------------------------------------------------------------------
(* One view at rest.  The rest of the module assumes of the overlaps what    *)
(* the layers panel ensures (layers-panel.tsx:81): no click during a switch. *)

PanelOverlaps == "clickDuringSwitch" \notin Overlaps

(* There is one request at a time.                                           *)
OneRequest == \A s \in switches : s.gen = generation

(* Nothing lands before the first mount or after an unmount.                 *)
Emptied == phase # "mounted" => viewRef = None /\ \A c \in chains : Cancelled(c)

(* A request that may still go on has the old view on screen while it loads. *)
LoadHolds == \A s \in switches :
    s.stage = "load" /\ ~s.aborted /\ s.from # None => viewRef = s.from /\ s.from \in live

(* The page shows the hook's view; it is alive unless it is being replaced   *)
(* by a request that nothing has aborted.                                    *)
Screen == viewRef # None =>
    /\ shown = viewRef
    /\ \/ viewRef \in live
       \/ \E s \in switches : s.from = viewRef /\ s.stage # "load" /\ ~s.aborted

RequestInv == OneRequest /\ Emptied /\ LoadHolds /\ LoadFailureReturnsLiveView
PanelInv == MountsInv /\ RequestInv /\ Screen

LEMMA PanelTypes ==
    ASSUME PanelInv
    PROVE  TypeOK /\ ViewsTyped /\ StateTyped /\ MountTyped /\ SwitchTyped
BY MountTypes DEF PanelInv

(* One request at a time.                                                    *)
LEMMA Alone ==
    ASSUME PanelInv, NEW s \in switches
    PROVE  switches = {s}
BY DEF PanelInv, RequestInv, OneRequest, MountsInv, IntentInv, LandInv, SpinnerInv, Numbered

(* A request starts only when there is none, and then the view is alive.     *)
LEMMA PanelBlocks ==
    ASSUME PanelOverlaps, PanelInv, NEW e \in Engines, MayClick(e)
    PROVE  /\ phase = "mounted" /\ switches = {} /\ AbortActive = {}
           /\ viewRef # None => viewRef \in live
<1>1. ~isSwitching /\ phase = "mounted"
  BY DEF PanelOverlaps, MayClick
<1>2. switches = {}
  BY <1>1 DEF PanelInv, RequestInv, OneRequest, MountsInv, IntentInv, LandInv, SpinnerInv,
     SpinnerHonest
<1> QED
  BY <1>1, <1>2 DEF AbortActive, PanelInv, Screen

(* A reconnect or an unmount aborts the request in flight.                   *)
LEMMA AbortStopsAll ==
    ASSUME PanelInv
    PROVE  \A t \in AbortActive : t.aborted /\ t.gen = generation
                                  /\ \E s \in switches : t.stage = s.stage
BY AbortStopsTheOvertaken DEF PanelInv, RequestInv, OneRequest, MountsInv

(* What a step of the one request does: it returns, or goes on under the     *)
(* same number from the same old view.                                       *)
LEMMA RequestMoves ==
    ASSUME PanelInv, NEW s \in switches, SwitchStep(s)
    PROVE  /\ UNCHANGED <<phase, generation, doomed, mountSeq, chains>>
           /\ \/ switches' = {}
              \/ /\ UNCHANGED <<viewRef, shown>>
                 /\ \E t : /\ switches' = {t}
                           /\ t.gen = s.gen /\ t.from = s.from /\ t.aborted = s.aborted
<1>1. s \in Switch
  BY PanelTypes DEF SwitchTyped
<1>2. switches = {s}
  BY Alone
<1>3. UNCHANGED <<phase, generation, doomed, mountSeq, chains>>
  BY DEF SwitchStep, SwitchLoaded, SwitchLoadFails, SwitchCreated, SwitchCreateFails,
     RolledBack, RollbackFails, LandSwitch, KeepOthers, GiveWay, Throw, Return, Proceed,
     mountVars
<1>4. \/ Return(s)
      \/ UNCHANGED <<viewRef, shown>> /\
         \E t : Proceed(s, t) /\ t.gen = s.gen /\ t.from = s.from /\ t.aborted = s.aborted
  <2> DEFINE Goal == \/ Return(s)
                     \/ UNCHANGED <<viewRef, shown>> /\
                        \E t : Proceed(s, t) /\ t.gen = s.gen /\ t.from = s.from
                               /\ t.aborted = s.aborted
             Moved(st) == [s EXCEPT !.stage = st]
             Created(v) == [s EXCEPT !.stage = "landing", !.view = v]
             Kept == [s EXCEPT !.stage = "landing", !.view = s.from, !.result = "rolledBack"]
             Restored(v) == [s EXCEPT !.stage = "landing", !.result = "rolledBack",
                                      !.view = v]
  <2>1. ASSUME NEW t, t.gen = s.gen, t.from = s.from, t.aborted = s.aborted,
               Proceed(s, t), UNCHANGED <<viewRef, shown>>
        PROVE  Goal
    BY <2>1
  <2>2. \A st : Moved(st).gen = s.gen /\ Moved(st).from = s.from
                /\ Moved(st).aborted = s.aborted
    BY <1>1 DEF Switch
  <2>3. \A v : Created(v).gen = s.gen /\ Created(v).from = s.from
               /\ Created(v).aborted = s.aborted
    BY <1>1 DEF Switch
  <2>4. Kept.gen = s.gen /\ Kept.from = s.from /\ Kept.aborted = s.aborted
    BY <1>1 DEF Switch
  <2>5. \A v : Restored(v).gen = s.gen /\ Restored(v).from = s.from
               /\ Restored(v).aborted = s.aborted
    BY <1>1 DEF Switch
  <2>6. \/ Return(s)
        \/ /\ UNCHANGED <<viewRef, shown>>
           /\ \/ \E st : Proceed(s, Moved(st))
              \/ \E v : Proceed(s, Created(v)) \/ Proceed(s, Restored(v))
              \/ Proceed(s, Kept)
    BY DEF SwitchStep, SwitchLoaded, SwitchLoadFails, SwitchCreated, SwitchCreateFails,
       RolledBack, RollbackFails, LandSwitch, GiveWay, Throw
  <2> HIDE DEF Moved, Created, Kept, Restored
  <2> QED
    BY <2>1, <2>2, <2>3, <2>4, <2>5, <2>6
<1> QED
  BY <1>2, <1>3, <1>4 DEF Return, Proceed

LEMMA OneRequestStep ==
    ASSUME PanelOverlaps, PanelInv, [Next]_vars
    PROVE  OneRequest'
<1> USE DEF refs, mountVars, switchVars
<1>0. OneRequest
  BY DEF PanelInv, RequestInv
<1>1. CASE UNCHANGED <<switches, generation>>
  BY <1>0, <1>1 DEF OneRequest
<1>2. CASE Reconnect \/ Unmount
  BY <1>2, AbortStopsAll DEF Reconnect, Unmount, OneRequest
<1>3. ASSUME NEW e \in Engines, SwitchEngine(e)
      PROVE  OneRequest'
  BY <1>3, PanelBlocks DEF SwitchEngine, NewSwitch, OneRequest
<1>4. ASSUME NEW e \in Engines, SwitchEngineThrows(e)
      PROVE  OneRequest'
  BY <1>4, PanelBlocks DEF SwitchEngineThrows, OneRequest
<1>5. ASSUME NEW s \in switches, SwitchStep(s)
      PROVE  OneRequest'
  BY <1>0, <1>5, RequestMoves DEF OneRequest
<1>6. CASE FirstMount \/ RetryMount \/ UNCHANGED vars
  BY <1>1, <1>6 DEF FirstMount, RetryMount, vars
<1>7. ASSUME NEW c \in chains, ChainStep(c) \/ Watchdog(c)
      PROVE  OneRequest'
  BY <1>1, <1>7 DEF ChainStep, MountLoaded, MountCreated, MountFails, LandMount, Watchdog
<1>8. ASSUME NEW v \in doomed, DelayedDestroy(v)
      PROVE  OneRequest'
  BY <1>1, <1>8 DEF DelayedDestroy
<1> QED
  BY <1>2, <1>3, <1>4, <1>5, <1>6, <1>7, <1>8 DEF Next

LEMMA EmptiedStep ==
    ASSUME PanelInv, [Next]_vars
    PROVE  Emptied'
<1> USE DEF refs, mountVars, switchVars
<1>0. Emptied
  BY DEF PanelInv, RequestInv
<1>1. (\A c \in chains : Cancelled(c)) /\ ~ChainStarts
         => \A c \in chains' : c.seq # mountSeq'
  BY NumbersOnlyGrow DEF PanelInv
<1>2. mountSeq \in Nat /\ \A c \in chains : c.seq \in Nat /\ c.seq <= mountSeq
  BY PanelTypes DEF MountTyped, Chain, PanelInv, MountsInv, MountInv, ChainsNumbered
<1>3. CASE FirstMount \/ RetryMount \/ Reconnect
  BY <1>3 DEF FirstMount, RetryMount, Reconnect, Emptied
<1>4. CASE Unmount
  <2>1. \A c \in chains : c.seq # mountSeq + 1
    BY <1>2
  <2> QED
    BY <1>4, <2>1 DEF Unmount, Emptied, Cancelled
<1>5. ASSUME NEW c \in chains, ChainStep(c) \/ Watchdog(c)
      PROVE  Emptied'
  <2>1. UNCHANGED phase
    BY <1>5 DEF ChainStep, MountLoaded, MountCreated, MountFails, LandMount, Watchdog
  <2>2. ASSUME ChainStarts
        PROVE  FALSE
    <3>1. mountSeq' = mountSeq \/ (Watchdog(c) /\ mountSeq' = mountSeq + 1)
      BY <1>5 DEF ChainStep, MountLoaded, MountCreated, MountFails, LandMount, Watchdog,
         Settle, Advance
    <3>2. PICK d \in Chain : chains' = chains \cup {d} /\ d.seq = mountSeq'
                             /\ mountSeq' > mountSeq /\ ~d.timedOut
      BY <2>2 DEF ChainStarts
    <3>3. Watchdog(c) /\ mountSeq' = mountSeq + 1
      BY <1>2, <3>1, <3>2
    <3>4. chains' = (chains \ {c}) \cup {[c EXCEPT !.timedOut = TRUE]}
          /\ [c EXCEPT !.timedOut = TRUE].seq = c.seq
      BY <3>3, PanelTypes DEF Watchdog, MountTyped, Chain
    <3>5. d.seq = c.seq \/ d \in chains
      BY <3>2, <3>4
    <3> QED
      BY <1>2, <3>2, <3>3, <3>5
  <2>3. viewRef' = viewRef \/ (LandMount(c) /\ ~Cancelled(c))
    BY <1>5 DEF ChainStep, MountLoaded, MountCreated, MountFails, LandMount, Watchdog
  <2> QED
    BY <1>0, <1>1, <2>1, <2>2, <2>3 DEF Emptied, Cancelled
<1>6. ASSUME NEW v \in doomed, DelayedDestroy(v)
      PROVE  Emptied'
  BY <1>0, <1>6 DEF DelayedDestroy, Emptied, Cancelled
<1>7. ASSUME NEW e \in Engines, SwitchEngine(e) \/ SwitchEngineThrows(e)
      PROVE  Emptied'
  BY <1>7 DEF SwitchEngine, SwitchEngineThrows, MayClick, Emptied
<1>8. ASSUME NEW s \in switches, SwitchStep(s)
      PROVE  Emptied'
  <2>1. UNCHANGED <<phase, chains, mountSeq>>
    BY <1>8, RequestMoves
  <2>2. phase # "mounted" /\ viewRef = None => viewRef' = None
    BY <1>8 DEF SwitchStep, SwitchLoaded, SwitchLoadFails, SwitchCreated,
       SwitchCreateFails, RolledBack, RollbackFails, LandSwitch, Stale, GiveWay, Throw
  <2> QED
    BY <1>0, <2>1, <2>2 DEF Emptied, Cancelled
<1>9. CASE UNCHANGED vars
  BY <1>0, <1>9 DEF vars, Emptied, Cancelled
<1> QED
  BY <1>3, <1>4, <1>5, <1>6, <1>7, <1>8, <1>9 DEF Next

(* The view a request makes is new: the hook does not hold it.               *)
LEMMA RequestViewsAreNew ==
    ASSUME PanelInv, NEW s \in switches, NEW e \in Engines
    PROVE  SwitchView(s, e) \in View /\ SwitchView(s, e) # s.from
<1>1. SwitchView(s, e) \in View
  BY PanelTypes DEF SwitchTyped, Switch, SwitchView, View
<1>2. Old(s.from) /\ SwitchView(s, e).by = "switch" /\ SwitchView(s, e).n = s.gen
  BY DEF SwitchView, PanelInv, MountsInv, IntentInv, LandInv, OldRefs
<1> QED
  BY <1>1, <1>2, NoneAssumption DEF Old

(* What a step of a mount chain or of its watchdog does to the views.        *)
LEMMA ChainTouchesItsOwn ==
    ASSUME PanelInv, NEW c \in chains, ChainStep(c) \/ Watchdog(c)
    PROVE  /\ UNCHANGED <<switches, phase>>
           /\ live \ {MountView(c)} \subseteq live'
           /\ \/ UNCHANGED <<viewRef, shown>>
              \/ /\ viewRef = None /\ viewRef' = MountView(c) /\ shown' = MountView(c)
                 /\ viewRef' \in live'
<1>1. UNCHANGED <<switches, phase>> /\ live \ {MountView(c)} \subseteq live'
  BY DEF ChainStep, MountLoaded, MountCreated, MountFails, LandMount, Watchdog, switchVars
<1>2. c.stage = "landing" => MountView(c) \in live
  BY DEF PanelInv, MountsInv, MountInv, LandingsLive
<1> QED
  BY <1>1, <1>2 DEF ChainStep, MountLoaded, MountCreated, MountFails, LandMount, Watchdog, refs

LEMMA LoadHoldsStep ==
    ASSUME PanelOverlaps, PanelInv, [Next]_vars
    PROVE  LoadHolds'
<1> USE DEF refs, mountVars, switchVars
<1>0. LoadHolds
  BY DEF PanelInv, RequestInv
<1>1. CASE FirstMount \/ RetryMount \/ UNCHANGED vars
  BY <1>0, <1>1 DEF FirstMount, RetryMount, vars, LoadHolds
<1>2. CASE Reconnect \/ Unmount
  BY <1>2, AbortStopsAll DEF Reconnect, Unmount, LoadHolds
<1>3. ASSUME NEW c \in chains, ChainStep(c) \/ Watchdog(c)
      PROVE  LoadHolds'
  <2>1. \A s \in switches : s.from # MountView(c)
    BY ChainViewsAreTheirOwn DEF PanelInv
  <2> QED
    BY <1>0, <1>3, <2>1, ChainTouchesItsOwn DEF LoadHolds
<1>4. ASSUME NEW v \in doomed, DelayedDestroy(v)
      PROVE  LoadHolds'
  BY <1>0, <1>4 DEF DelayedDestroy, LoadHolds
<1>5. ASSUME NEW e \in Engines, SwitchEngine(e) \/ SwitchEngineThrows(e)
      PROVE  LoadHolds'
  <2>1. switches' \subseteq {NewSwitch(e)} /\ live' = live
        /\ (switches' # {} => viewRef' = viewRef)
    BY <1>5, PanelBlocks DEF SwitchEngine, SwitchEngineThrows
  <2>2. NewSwitch(e).from = viewRef /\ (viewRef # None => viewRef \in live)
    BY <1>5, PanelBlocks DEF SwitchEngine, SwitchEngineThrows, NewSwitch
  <2> QED
    BY <2>1, <2>2 DEF LoadHolds
<1>6. ASSUME NEW s \in switches, SwitchStep(s)
      PROVE  LoadHolds'
  <2>1. s \in Switch /\ switches = {s}
    BY Alone, PanelTypes DEF SwitchTyped
  <2>2. ASSUME NEW t, Proceed(s, t), t.stage # "load"
        PROVE  LoadHolds'
    BY <2>1, <2>2 DEF Proceed, LoadHolds
  <2>3. CASE Return(s)
    BY <2>1, <2>3 DEF Return, LoadHolds
  <2>4. \A st : [s EXCEPT !.stage = st].stage = st
    BY <2>1 DEF Switch
  <2>5. \A v : [s EXCEPT !.stage = "landing", !.view = v].stage = "landing"
    BY <2>1 DEF Switch
  <2>6. \A v : /\ [s EXCEPT !.stage = "landing", !.result = "rolledBack", !.view = v].stage
                    = "landing"
               /\ [s EXCEPT !.stage = "landing", !.view = v, !.result = "rolledBack"].stage
                    = "landing"
    BY <2>1 DEF Switch
  <2>7. CASE SwitchLoaded(s) \/ SwitchCreateFails(s)
    BY <2>2, <2>3, <2>4, <2>7 DEF SwitchLoaded, SwitchCreateFails, GiveWay, Throw
  <2>8. CASE SwitchCreated(s)
    BY <2>2, <2>3, <2>5, <2>8 DEF SwitchCreated, GiveWay
  <2>9. CASE SwitchLoadFails(s) \/ RolledBack(s)
    BY <2>2, <2>3, <2>6, <2>9 DEF SwitchLoadFails, RolledBack, GiveWay, Throw
  <2>10. CASE RollbackFails(s) \/ LandSwitch(s)
    BY <2>3, <2>10 DEF RollbackFails, LandSwitch, Throw
  <2> QED
    BY <1>6, <2>7, <2>8, <2>9, <2>10 DEF SwitchStep
<1> QED
  BY <1>1, <1>2, <1>3, <1>4, <1>5, <1>6 DEF Next

LEMMA LandsAliveStep ==
    ASSUME PanelOverlaps, PanelInv, [Next]_vars
    PROVE  LoadFailureReturnsLiveView'
<1> USE DEF refs, mountVars, switchVars
<1>0. LoadHolds /\ LoadFailureReturnsLiveView
  BY DEF PanelInv, RequestInv
<1>1. CASE FirstMount \/ RetryMount \/ UNCHANGED vars
  BY <1>0, <1>1 DEF FirstMount, RetryMount, vars, LoadFailureReturnsLiveView
<1>2. CASE Reconnect \/ Unmount
  BY <1>2, AbortStopsAll DEF Reconnect, Unmount, TaskBoundary, LoadFailureReturnsLiveView
<1>3. ASSUME NEW c \in chains, ChainStep(c) \/ Watchdog(c)
      PROVE  LoadFailureReturnsLiveView'
  <2>1. \A s \in switches : s.stage = "landing" => s.view # MountView(c)
    BY ChainViewsAreTheirOwn DEF PanelInv
  <2> QED
    BY <1>0, <1>3, <2>1, ChainTouchesItsOwn DEF LoadFailureReturnsLiveView
<1>4. ASSUME NEW v \in doomed, DelayedDestroy(v)
      PROVE  LoadFailureReturnsLiveView'
  BY <1>4 DEF DelayedDestroy, TaskBoundary, LoadFailureReturnsLiveView
<1>5. ASSUME NEW e \in Engines, SwitchEngine(e) \/ SwitchEngineThrows(e)
      PROVE  LoadFailureReturnsLiveView'
  <2>1. switches' \subseteq {NewSwitch(e)}
    BY <1>5, PanelBlocks DEF SwitchEngine, SwitchEngineThrows
  <2>2. NewSwitch(e).stage = "load"
    BY DEF NewSwitch
  <2> QED
    BY <2>1, <2>2 DEF LoadFailureReturnsLiveView
<1>6. ASSUME NEW s \in switches, SwitchStep(s)
      PROVE  LoadFailureReturnsLiveView'
  <2>1. s \in Switch /\ switches = {s}
    BY Alone, PanelTypes DEF SwitchTyped
  <2>2. ASSUME NEW t, Proceed(s, t), t.stage = "landing" => t.view \in live'
        PROVE  LoadFailureReturnsLiveView'
    BY <2>1, <2>2 DEF Proceed, LoadFailureReturnsLiveView
  <2>3. CASE Return(s)
    BY <2>1, <2>3 DEF Return, LoadFailureReturnsLiveView
  <2>4. CASE SwitchLoaded(s) \/ SwitchCreateFails(s)
    <3>1. \A st : [s EXCEPT !.stage = st].stage = st
      BY <2>1 DEF Switch
    <3> QED
      BY <2>2, <2>3, <2>4, <3>1 DEF SwitchLoaded, SwitchCreateFails, GiveWay, Throw
  <2>5. CASE SwitchCreated(s)
    <3>1. \A v : [s EXCEPT !.stage = "landing", !.view = v].view = v
      BY <2>1 DEF Switch
    <3> QED
      BY <2>2, <2>3, <2>5, <3>1 DEF SwitchCreated, GiveWay
  <2>6. CASE SwitchLoadFails(s)
    <3> DEFINE t == [s EXCEPT !.stage = "landing", !.view = s.from, !.result = "rolledBack"]
    <3>1. t.view = s.from
      BY <2>1 DEF Switch
    <3>2. Return(s) \/ (s.stage = "load" /\ ~s.aborted /\ s.from # None /\ live' = live
                        /\ Proceed(s, t))
      BY <2>6 DEF SwitchLoadFails, GiveWay, Throw
    <3> HIDE DEF t
    <3> QED
      BY <1>0, <2>2, <2>3, <3>1, <3>2 DEF LoadHolds
  <2>7. CASE RolledBack(s)
    <3> DEFINE w == SwitchView(s, s.from.eng)
               t == [s EXCEPT !.stage = "landing", !.result = "rolledBack", !.view = w]
    <3>1. t.view = w
      BY <2>1 DEF Switch
    <3>2. Proceed(s, t) /\ live' = live \cup {w}
      BY <2>7 DEF RolledBack
    <3> HIDE DEF t, w
    <3> QED
      BY <2>2, <3>1, <3>2
  <2>8. CASE RollbackFails(s) \/ LandSwitch(s)
    BY <2>3, <2>8 DEF RollbackFails, LandSwitch, Throw
  <2> QED
    BY <1>6, <2>4, <2>5, <2>6, <2>7, <2>8 DEF SwitchStep
<1> QED
  BY <1>1, <1>2, <1>3, <1>4, <1>5, <1>6 DEF Next

LEMMA ScreenStep ==
    ASSUME PanelOverlaps, PanelInv, [Next]_vars
    PROVE  Screen'
<1> USE DEF refs, mountVars, switchVars
<1>0. Screen /\ OneRequest /\ Emptied /\ LoadFailureReturnsLiveView
  BY DEF PanelInv, RequestInv
<1>1. CASE FirstMount \/ RetryMount \/ UNCHANGED vars
  BY <1>0, <1>1 DEF FirstMount, RetryMount, vars, Screen
<1>2. CASE Reconnect \/ Unmount
  BY <1>2 DEF Reconnect, Unmount, Screen
<1>3. ASSUME NEW c \in chains, ChainStep(c) \/ Watchdog(c)
      PROVE  Screen'
  <2>1. viewRef # MountView(c)
    BY ChainViewsAreTheirOwn DEF PanelInv
  <2> QED
    BY <1>0, <1>3, <2>1, ChainTouchesItsOwn DEF Screen
<1>4. ASSUME NEW v \in doomed, DelayedDestroy(v)
      PROVE  Screen'
  BY <1>0, <1>4 DEF DelayedDestroy, Screen
<1>5. ASSUME NEW e \in Engines, SwitchEngine(e) \/ SwitchEngineThrows(e)
      PROVE  Screen'
  <2>1. viewRef # None => viewRef \in live /\ shown = viewRef
    BY <1>0, <1>5, PanelBlocks DEF SwitchEngine, SwitchEngineThrows, Screen
  <2> QED
    BY <1>5, <2>1 DEF SwitchEngine, SwitchEngineThrows, Screen
<1>6. ASSUME NEW s \in switches, SwitchStep(s)
      PROVE  Screen'
  <2>0. s \in Switch /\ switches = {s} /\ s.gen = generation
    BY <1>0, Alone, PanelTypes DEF SwitchTyped, OneRequest
  <2>1. viewRef # None => /\ shown = viewRef
                          /\ viewRef \in live \/ (s.from = viewRef /\ s.stage # "load"
                                                  /\ ~s.aborted)
    BY <1>0, <2>0 DEF Screen
  <2>2. CASE GiveWay(s)
    BY <2>1, <2>2 DEF GiveWay, Screen
  <2>3. CASE Throw(s)
    BY <2>0, <2>3 DEF Throw, Screen
  <2>4. ASSUME NEW t, Proceed(s, t), t.from = s.from, t.aborted = s.aborted,
               t.stage # "load", UNCHANGED <<viewRef, shown>>,
               live \subseteq live' \/ (live' = live \ {s.from} /\ ~s.aborted)
        PROVE  Screen'
    <3>1. t \in switches'
      BY <2>4 DEF Proceed
    <3> QED
      BY <2>1, <2>4, <3>1 DEF Screen
  <2>5. CASE SwitchLoaded(s)
    <3> DEFINE t == [s EXCEPT !.stage = "create"]
    <3>1. t.from = s.from /\ t.aborted = s.aborted /\ t.stage = "create"
      BY <2>0 DEF Switch
    <3>2. GiveWay(s) \/ (~s.aborted /\ live' = live \ {s.from} /\ Proceed(s, t)
                         /\ UNCHANGED <<viewRef, shown>>)
      BY <2>5 DEF SwitchLoaded
    <3> HIDE DEF t
    <3> QED
      BY <2>2, <2>4, <3>1, <3>2
  <2>6. CASE SwitchLoadFails(s)
    <3> DEFINE t == [s EXCEPT !.stage = "landing", !.view = s.from, !.result = "rolledBack"]
    <3>1. t.from = s.from /\ t.aborted = s.aborted /\ t.stage = "landing"
      BY <2>0 DEF Switch
    <3>2. GiveWay(s) \/ Throw(s) \/ (Proceed(s, t) /\ UNCHANGED <<live, viewRef, shown>>)
      BY <2>6 DEF SwitchLoadFails
    <3> HIDE DEF t
    <3> QED
      BY <2>2, <2>3, <2>4, <3>1, <3>2
  <2>7. CASE SwitchCreated(s)
    <3> DEFINE t == [s EXCEPT !.stage = "landing", !.view = SwitchView(s, s.to)]
    <3>1. t.from = s.from /\ t.aborted = s.aborted /\ t.stage = "landing"
      BY <2>0 DEF Switch
    <3>2. GiveWay(s) \/ (Proceed(s, t) /\ live \subseteq live' /\ UNCHANGED <<viewRef, shown>>)
      BY <2>7 DEF SwitchCreated
    <3> HIDE DEF t
    <3> QED
      BY <2>2, <2>4, <3>1, <3>2
  <2>8. CASE SwitchCreateFails(s)
    <3> DEFINE t == [s EXCEPT !.stage = "rollback"]
    <3>1. t.from = s.from /\ t.aborted = s.aborted /\ t.stage = "rollback"
      BY <2>0 DEF Switch
    <3>2. GiveWay(s) \/ Throw(s) \/ (Proceed(s, t) /\ UNCHANGED <<live, viewRef, shown>>)
      BY <2>8 DEF SwitchCreateFails
    <3> HIDE DEF t
    <3> QED
      BY <2>2, <2>3, <2>4, <3>1, <3>2
  <2>9. CASE RolledBack(s)
    <3> DEFINE w == SwitchView(s, s.from.eng)
               t == [s EXCEPT !.stage = "landing", !.result = "rolledBack", !.view = w]
    <3>1. t.from = s.from /\ t.aborted = s.aborted /\ t.stage = "landing"
      BY <2>0 DEF Switch
    <3>2. Proceed(s, t) /\ live \subseteq live' /\ UNCHANGED <<viewRef, shown>>
      BY <2>9 DEF RolledBack
    <3> HIDE DEF t, w
    <3> QED
      BY <2>4, <3>1, <3>2
  <2>10. CASE RollbackFails(s)
    BY <2>3, <2>10 DEF RollbackFails
  <2>11. CASE LandSwitch(s)
    <3>1. s.stage = "landing" /\ s.view \in live
      BY <1>0, <2>11 DEF LandSwitch, LoadFailureReturnsLiveView
    <3>2. Stale(s) => viewRef = None
      BY <1>0, <2>0 DEF Stale, Emptied
    <3>3. \/ viewRef' = viewRef /\ viewRef = None
          \/ /\ viewRef' = s.view /\ shown' = s.view
             /\ (live' = live \/ live' = live \ ({viewRef} \ {s.view}))
      BY <2>11, <3>2 DEF LandSwitch
    <3> QED
      BY <3>1, <3>3 DEF Screen
  <2> QED
    BY <1>6, <2>5, <2>6, <2>7, <2>8, <2>9, <2>10, <2>11 DEF SwitchStep
<1> QED
  BY <1>1, <1>2, <1>3, <1>4, <1>5, <1>6 DEF Next

LEMMA PanelInit == Init => PanelInv
<1> SUFFICES ASSUME Init
             PROVE  PanelInv
  OBVIOUS
<1>1. RequestInv
  BY DEF Init, RequestInv, OneRequest, Emptied, LoadHolds, LoadFailureReturnsLiveView
<1>2. Screen
  BY DEF Init, Screen
<1> QED
  BY <1>1, <1>2, MountsInit DEF PanelInv

LEMMA PanelStep ==
    ASSUME PanelOverlaps
    PROVE  PanelInv /\ [Next]_vars => PanelInv'
<1> SUFFICES ASSUME PanelInv, [Next]_vars
             PROVE  PanelInv'
  OBVIOUS
<1>1. MountsInv'
  BY MountsStep DEF PanelInv
<1>2. RequestInv'
  BY OneRequestStep, EmptiedStep, LoadHoldsStep, LandsAliveStep DEF RequestInv
<1> QED
  BY <1>1, <1>2, ScreenStep DEF PanelInv

(* What a switch lands is alive: with the panel's overlaps the old view that *)
(* a failed load hands back has not been destroyed, whatever mounts, retries *)
(* and reconnects ran beside it (switch.ts:158).                             *)
THEOREM LandsAlive ==
    ASSUME PanelOverlaps
    PROVE  Spec => []LoadFailureReturnsLiveView
<1>1. PanelInv /\ [Next]_vars => PanelInv'
  BY PanelStep
<1>2. PanelInv => LoadFailureReturnsLiveView
  BY DEF PanelInv, RequestInv
<1> QED
  BY <1>1, <1>2, PanelInit, PTL DEF Spec

(* At rest the container holds, besides what a failed switch dropped, the    *)
(* one live view that hook and page show, and nothing after an unmount.      *)
THEOREM OneViewAtRest ==
    ASSUME PanelOverlaps
    PROVE  NotedSpec => []OneViewWhenQuiet
<1>1. PanelInv /\ [Next]_vars => PanelInv'
  BY PanelStep
<1>2. PanelInv /\ NoOrphan => OneViewWhenQuiet
  <2> SUFFICES ASSUME PanelInv, NoOrphan, Quiet
               PROVE  /\ live \subseteq {viewRef} \cup forgotten
                      /\ viewRef # None => viewRef \in live /\ shown = viewRef
                      /\ phase = "gone" => live \subseteq forgotten
    BY DEF OneViewWhenQuiet
  <2>1. live \subseteq {viewRef} \cup forgotten
    BY DEF NoOrphan, Owned, Quiet
  <2>2. viewRef # None => viewRef \in live /\ shown = viewRef
    BY DEF PanelInv, Screen, Quiet
  <2>3. phase = "gone" => viewRef = None
    BY DEF PanelInv, RequestInv, Emptied
  <2>4. None \notin live
    BY PanelTypes, NoneAssumption DEF ViewsTyped
  <2> QED
    BY <2>1, <2>2, <2>3, <2>4
<1>3. Spec => []PanelInv
  BY <1>1, PanelInit, PTL DEF Spec
<1> QED
  BY <1>2, <1>3, NotedIsSpec, NothingIsOrphaned, PTL

=============================================================================
