------------------------- MODULE MapEngineLifecycle -------------------------
(***************************************************************************)
(* The life of the map view in one container: first mount with fallback,   *)
(* watchdog and retry, engine switching with rollback, and the StrictMode  *)
(* disconnect/reconnect hand-over (hooks/use-map-engine.ts on top of       *)
(* lib/map-engine/mount.ts and lib/map-engine/switch.ts).                  *)
(*                                                                         *)
(* Definitions named Faulty... are plausible slips in the code; no action  *)
(* uses them.  Each one stands for the definition after it in a run that   *)
(* shows that a property notices.                                          *)
(*                                                                         *)
(* A step is what runs between two awaits.  Mount chains and switches are  *)
(* records with a stage: "load" and "create" wait for the engine, "landing"*)
(* waits only for the microtask in which the hook takes the result, so no  *)
(* user event, timer or effect runs while a landing is pending.            *)
(*                                                                         *)
(* A view is named by who created it: mount chain number or switch         *)
(* generation, and its engine.  A view outside live has been destroyed.    *)
(***************************************************************************)
EXTENDS Naturals, FiniteSets

CONSTANTS
    Engines,     \* the configured engines (an unconfigured one is ignored everywhere)
    Rank,        \* ENGINE_PRIORITY: position of every engine in the fallback order
    None,        \* null
    Overlaps,    \* which further overlapping requests the environment may make, see below
    MaxGen,      \* bound on the number of switch requests
    MaxSeq       \* bound on mountSeq for a new retry or reconnect

(* Clicks on a chip while a mount is in flight and retries while a switch is *)
(* are always possible: isSwitching, which disables the chips, stays false    *)
(* during a mount, and the retry button asks only for mountError.  What else  *)
(* may overlap: a StrictMode reconnect during a mount or a switch, and a call *)
(* of switchEngine during a switch, which the layers panel does not make.     *)
OverlapKinds == {"reconnectDuringMount", "reconnectDuringSwitch", "clickDuringSwitch"}

ASSUME EnginesAssumption ==
    /\ Engines # {} /\ IsFiniteSet(Engines)
    /\ Rank \in [Engines -> Nat]
    /\ \A d, e \in Engines : Rank[d] = Rank[e] => d = e
ASSUME OverlapsAssumption == Overlaps \subseteq OverlapKinds
ASSUME BoundsAssumption == MaxGen \in Nat /\ MaxSeq \in Nat

VARIABLES
    phase,         \* "new", "mounted" (aliveRef) or "gone"
    live,          \* views created and not destroyed
    viewRef,       \* viewRef.current
    shown,         \* the React state view
    keepalive,     \* keepaliveRef.current?.view
    doomed,        \* views with a pending delayed destroy
    engine,        \* the React state engine, and the active search provider set with it
    pref,          \* the session's engine preference
    mountError,    \* the engine mountError names, or None
    mountSeq,      \* mountSeqRef.current
    mountRunning,  \* mountRunningRef.current
    chains,        \* mount chains that have not settled
    generation,    \* generationRef.current
    isSwitching,   \* isSwitching; equally activeSignalRef.current # null
    switches       \* switchEngine calls that have not returned

refs == <<viewRef, shown, keepalive, doomed>>
mountVars == <<mountSeq, mountRunning, chains>>
switchVars == <<generation, isSwitching, switches>>
vars == <<phase, live, refs, engine, pref, mountError, mountVars, switchVars>>

View == [by : {"mount", "switch"}, n : Nat, eng : Engines]
MaybeView == View \cup {None}
ASSUME NoneAssumption == None \notin Engines /\ None \notin View

Chain == [seq : Nat, first : Engines, eng : Engines, todo : SUBSET Engines,
          stage : {"load", "create", "landing"}, timedOut : BOOLEAN]
Switch == [gen : Nat, to : Engines, from : MaybeView, aborted : BOOLEAN,
           stage : {"load", "create", "rollback", "landing"},
           view : MaybeView, result : {"created", "rolledBack"}]

MountView(c) == [by |-> "mount", n |-> c.seq, eng |-> c.eng]
SwitchView(s, e) == [by |-> "switch", n |-> s.gen, eng |-> e]

ShowsEngine(v, e) == v # None /\ v.eng = e

FirstOf(S) == CHOOSE e \in S : \A d \in S : Rank[e] <= Rank[d]

(* resolveEngine: the preference when it is configured, else the first one *)
Resolved == IF pref \in Engines THEN pref ELSE FirstOf(Engines)

(* Events and timers are tasks; a pending landing is a microtask before them *)
TaskBoundary == /\ \A c \in chains : c.stage # "landing"
                /\ \A s \in switches : s.stage # "landing"

MountInFlight == \E c \in chains : ~c.timedOut
Allowed(kind, overlapping) == overlapping => kind \in Overlaps

-----------------------------------------------------------------------------
(* Mounting: runMount, mountEngineView and the then/catch/finally of runMount *)

NewChain(seq) == [seq |-> seq, first |-> Resolved, eng |-> Resolved,
                  todo |-> Engines \ {Resolved}, stage |-> "load",
                  timedOut |-> FALSE]

RunMount(seq) ==
    /\ mountRunning' = TRUE
    /\ mountError' = None
    /\ mountSeq' = seq
    /\ engine' = Resolved
    /\ chains' = chains \cup {NewChain(seq)}

Cancelled(c) == c.seq # mountSeq

(* finally: every settlement but one the watchdog has forestalled *)
Settle(c) ==
    /\ chains' = chains \ {c}
    /\ mountRunning' = (c.timedOut /\ mountRunning)
    /\ UNCHANGED mountSeq

Advance(c, new) == /\ chains' = (chains \ {c}) \cup {new}
                   /\ UNCHANGED <<mountSeq, mountRunning>>

MountLoaded(c) ==
    /\ c.stage = "load"
    /\ \/ Cancelled(c) /\ Settle(c)
       \/ ~Cancelled(c) /\ Advance(c, [c EXCEPT !.stage = "create"])
    /\ UNCHANGED <<phase, live, refs, engine, pref, mountError, switchVars>>

FaultyMountCreated(c) ==   \* a cancelled chain forgets the view it receives
    /\ c.stage = "create"
    /\ live' = live \cup {MountView(c)}
    /\ \/ (Cancelled(c) \/ viewRef # None) /\ Settle(c)
       \/ /\ ~Cancelled(c) /\ viewRef = None
          /\ Advance(c, [c EXCEPT !.stage = "landing"])
    /\ UNCHANGED <<phase, refs, engine, pref, mountError, switchVars>>

(* A view that may not land is destroyed in the step that receives it *)
MountCreated(c) ==
    /\ c.stage = "create"
    /\ \/ /\ Cancelled(c) \/ viewRef # None
          /\ Settle(c)
          /\ UNCHANGED live
       \/ /\ ~Cancelled(c) /\ viewRef = None
          /\ Advance(c, [c EXCEPT !.stage = "landing"])
          /\ live' = live \cup {MountView(c)}
    /\ UNCHANGED <<phase, refs, engine, pref, mountError, switchVars>>

(* The next candidate is tried without asking whether the chain is cancelled *)
MountFails(c) ==
    /\ c.stage \in {"load", "create"}
    /\ \/ /\ c.todo # {}
          /\ Advance(c, [c EXCEPT !.eng = FirstOf(c.todo), !.stage = "load",
                                  !.todo = @ \ {FirstOf(c.todo)}])
          /\ UNCHANGED mountError
       \/ /\ c.todo = {}
          /\ Settle(c)
          /\ mountError' = IF c.timedOut THEN mountError ELSE c.eng
    /\ UNCHANGED <<phase, live, refs, engine, pref, switchVars>>

LandMount(c) ==
    /\ c.stage = "landing"
    /\ Settle(c)
    /\ \/ /\ Cancelled(c) \/ viewRef # None
          /\ live' = live \ {MountView(c)}
          /\ UNCHANGED <<viewRef, shown, engine, mountError>>
       \/ /\ ~Cancelled(c) /\ viewRef = None
          /\ viewRef' = MountView(c)
          /\ shown' = MountView(c)
          /\ engine' = c.eng
          /\ mountError' = None
          /\ UNCHANGED live
    /\ UNCHANGED <<phase, keepalive, doomed, pref, switchVars>>

FaultyWatchdog(c) ==   \* the timeout reports the error but the mount still counts as running
    /\ TaskBoundary
    /\ ~c.timedOut
    /\ chains' = (chains \ {c}) \cup {[c EXCEPT !.timedOut = TRUE]}
    /\ mountSeq' = mountSeq + 1
    /\ mountError' = c.first
    /\ UNCHANGED <<phase, live, refs, engine, pref, mountRunning, switchVars>>

(* withTimeout: the chain keeps running, but its outcome no longer counts *)
Watchdog(c) ==
    /\ TaskBoundary
    /\ ~c.timedOut
    /\ chains' = (chains \ {c}) \cup {[c EXCEPT !.timedOut = TRUE]}
    /\ mountSeq' = mountSeq + 1
    /\ mountRunning' = FALSE
    /\ mountError' = c.first
    /\ UNCHANGED <<phase, live, refs, engine, pref, switchVars>>

(* The retry button is there while mountError is *)
RetryMount ==
    /\ phase = "mounted" /\ TaskBoundary
    /\ mountError # None
    /\ viewRef = None /\ ~mountRunning
    /\ mountSeq < MaxSeq
    /\ RunMount(mountSeq + 1)
    /\ UNCHANGED <<phase, live, refs, pref, switchVars>>

-----------------------------------------------------------------------------
(* Effects: first mount, StrictMode disconnect and reconnect, unmount *)

FirstMount ==
    /\ phase = "new"
    /\ phase' = "mounted"
    /\ RunMount(mountSeq + 1)
    /\ UNCHANGED <<live, refs, pref, switchVars>>

(* relinquishView hands a live view over and dooms it unless it is adopted *)
HandOver == IF viewRef \in live THEN viewRef ELSE keepalive
DoomedNow == IF viewRef \in live THEN doomed \cup {viewRef} ELSE doomed

FaultyAbortActive == switches   \* the request in flight is not told to give way

AbortActive == {IF s.gen = generation /\ isSwitching THEN [s EXCEPT !.aborted = TRUE]
                                                     ELSE s : s \in switches}

(* Disconnect and reconnect happen in one commit, nothing runs in between *)
Reconnect ==
    /\ phase = "mounted" /\ TaskBoundary
    /\ Allowed("reconnectDuringMount", MountInFlight)
    /\ Allowed("reconnectDuringSwitch", isSwitching)
    /\ mountSeq < MaxSeq
    /\ doomed' = DoomedNow
    /\ switches' = AbortActive
    /\ \/ /\ HandOver \in live /\ HandOver.eng = Resolved
          /\ keepalive' = None
          /\ viewRef' = HandOver
          /\ shown' = HandOver
          /\ engine' = Resolved
          /\ mountSeq' = mountSeq + 1
          /\ mountRunning' = FALSE
          /\ UNCHANGED <<chains, mountError>>
       \/ /\ ~(HandOver \in live /\ HandOver.eng = Resolved)
          /\ keepalive' = HandOver
          /\ viewRef' = None
          /\ RunMount(mountSeq + 2)
          /\ UNCHANGED shown
    /\ UNCHANGED <<phase, live, pref, generation, isSwitching>>

Unmount ==
    /\ phase = "mounted" /\ TaskBoundary
    /\ phase' = "gone"
    /\ keepalive' = HandOver
    /\ doomed' = DoomedNow
    /\ viewRef' = None
    /\ mountSeq' = mountSeq + 1
    /\ mountRunning' = FALSE
    /\ switches' = AbortActive
    /\ UNCHANGED <<live, shown, engine, pref, mountError, chains, generation, isSwitching>>

DelayedDestroy(v) ==
    /\ TaskBoundary
    /\ doomed' = doomed \ {v}
    /\ \/ viewRef = v /\ UNCHANGED <<live, keepalive, shown>>
       \/ /\ viewRef # v
          /\ live' = live \ {v}
          /\ keepalive' = IF keepalive = v THEN None ELSE keepalive
          /\ shown' = IF phase = "mounted" /\ shown = v THEN None ELSE shown
    /\ UNCHANGED <<phase, viewRef, engine, pref, mountError, mountVars, switchVars>>

-----------------------------------------------------------------------------
(* Switching: switchEngine and switchMapEngine *)

(* The chip is enabled when it is not the active engine and nothing switches; *)
(* a caller of switchEngine itself meets only the hook's same-engine guard.   *)
MayClick(e) ==
    /\ phase = "mounted" /\ TaskBoundary
    /\ "clickDuringSwitch" \in Overlaps \/ (engine # e /\ ~isSwitching)
    /\ ~ShowsEngine(viewRef, e)
    /\ generation < MaxGen

NewSwitch(e) == [gen |-> generation + 1, to |-> e, from |-> viewRef, aborted |-> FALSE,
                 stage |-> "load", view |-> None, result |-> "created"]

FaultySwitchEngine(e) ==   \* the preference is written when the request starts
    /\ MayClick(e)
    /\ generation' = generation + 1
    /\ isSwitching' = TRUE
    /\ switches' = AbortActive \cup {NewSwitch(e)}
    /\ pref' = e
    /\ UNCHANGED <<phase, live, refs, engine, mountError, mountVars>>

SwitchEngine(e) ==
    /\ MayClick(e)
    /\ generation' = generation + 1
    /\ isSwitching' = TRUE
    /\ switches' = AbortActive \cup {NewSwitch(e)}
    /\ UNCHANGED <<phase, live, refs, engine, pref, mountError, mountVars>>

(* Reading the camera of a destroyed view may throw, and the catch clears the view *)
SwitchEngineThrows(e) ==
    /\ MayClick(e)
    /\ viewRef # None /\ viewRef \notin live
    /\ generation' = generation + 1
    /\ isSwitching' = FALSE
    /\ switches' = AbortActive
    /\ viewRef' = None
    /\ shown' = None
    /\ UNCHANGED <<phase, live, keepalive, doomed, engine, pref, mountError, mountVars>>

FaultyReturn(s) ==   \* finally without the generation check
    /\ switches' = switches \ {s}
    /\ isSwitching' = FALSE
    /\ UNCHANGED generation

(* finally: only the newest request clears the switching state *)
Return(s) ==
    /\ switches' = switches \ {s}
    /\ isSwitching' = (isSwitching /\ s.gen # generation)
    /\ UNCHANGED generation

Proceed(s, new) == /\ switches' = (switches \ {s}) \cup {new}
                   /\ UNCHANGED <<generation, isSwitching>>

GiveWay(s) == s.aborted /\ Return(s) /\ UNCHANGED <<live, viewRef, shown>>

(* catch: a superseded request is silent, the newest one clears the view *)
Throw(s) ==
    /\ Return(s)
    /\ viewRef' = IF s.gen = generation THEN None ELSE viewRef
    /\ shown' = IF s.gen = generation THEN None ELSE shown
    /\ UNCHANGED live

KeepOthers == UNCHANGED <<phase, keepalive, doomed, engine, pref, mountError, mountVars>>

SwitchLoaded(s) ==
    /\ s.stage = "load"
    /\ \/ GiveWay(s)
       \/ /\ ~s.aborted
          /\ live' = live \ {s.from}
          /\ Proceed(s, [s EXCEPT !.stage = "create"])
          /\ UNCHANGED <<viewRef, shown>>
    /\ KeepOthers

SwitchLoadFails(s) ==
    /\ s.stage = "load"
    /\ \/ GiveWay(s)
       \/ /\ ~s.aborted /\ s.from # None
          /\ Proceed(s, [s EXCEPT !.stage = "landing", !.view = s.from,
                                  !.result = "rolledBack"])
          /\ UNCHANGED <<live, viewRef, shown>>
       \/ ~s.aborted /\ s.from = None /\ Throw(s)
    /\ KeepOthers

SwitchCreated(s) ==
    /\ s.stage = "create"
    /\ \/ GiveWay(s)
       \/ /\ ~s.aborted
          /\ live' = live \cup {SwitchView(s, s.to)}
          /\ Proceed(s, [s EXCEPT !.stage = "landing", !.view = SwitchView(s, s.to)])
          /\ UNCHANGED <<viewRef, shown>>
    /\ KeepOthers

SwitchCreateFails(s) ==
    /\ s.stage = "create"
    /\ \/ GiveWay(s)
       \/ /\ ~s.aborted /\ s.from # None
          /\ Proceed(s, [s EXCEPT !.stage = "rollback"])
          /\ UNCHANGED <<live, viewRef, shown>>
       \/ ~s.aborted /\ s.from = None /\ Throw(s)
    /\ KeepOthers

(* The rollback does not look at the abort signal *)
RolledBack(s) ==
    /\ s.stage = "rollback"
    /\ live' = live \cup {SwitchView(s, s.from.eng)}
    /\ Proceed(s, [s EXCEPT !.stage = "landing", !.result = "rolledBack",
                            !.view = SwitchView(s, s.from.eng)])
    /\ UNCHANGED <<viewRef, shown>>
    /\ KeepOthers

RollbackFails(s) ==
    /\ s.stage = "rollback"
    /\ Throw(s)
    /\ KeepOthers

FaultyStaleNoAlive(s) == s.gen # generation
FaultyStaleNoGen(s) == phase # "mounted"

(* A result nobody wants any more: unmounted, or a newer request exists *)
Stale(s) == phase # "mounted" \/ s.gen # generation

FaultyLandSwitch(s) ==   \* the view a mount has landed meanwhile is overwritten, not destroyed
    /\ s.stage = "landing"
    /\ Return(s)
    /\ \/ /\ Stale(s)
          /\ live' = live \ {s.view}
          /\ UNCHANGED <<viewRef, shown, engine, pref, mountError>>
       \/ /\ ~Stale(s)
          /\ viewRef' = s.view
          /\ shown' = s.view
          /\ mountError' = None
          /\ UNCHANGED live
          /\ engine' = IF s.result = "created" THEN s.to ELSE engine
          /\ pref' = IF s.result = "created" THEN s.to ELSE pref
    /\ UNCHANGED <<phase, keepalive, doomed, mountVars>>

LandSwitch(s) ==
    /\ s.stage = "landing"
    /\ Return(s)
    /\ \/ /\ Stale(s)
          /\ live' = live \ {s.view}
          /\ UNCHANGED <<viewRef, shown, engine, pref, mountError>>
       \/ /\ ~Stale(s)
          /\ viewRef' = s.view
          /\ shown' = s.view
          /\ mountError' = None
          /\ \/ s.result = "rolledBack" /\ UNCHANGED <<live, engine, pref>>
             \/ /\ s.result = "created"
                /\ live' = live \ ({viewRef} \ {s.view})
                /\ engine' = s.to
                /\ pref' = s.to
    /\ UNCHANGED <<phase, keepalive, doomed, mountVars>>

-----------------------------------------------------------------------------
Init ==
    /\ phase = "new"
    /\ live = {}
    /\ viewRef = None /\ shown = None /\ keepalive = None /\ doomed = {}
    /\ engine = None
    /\ pref \in Engines \cup {None}
    /\ mountError = None
    /\ mountSeq = 0 /\ mountRunning = FALSE /\ chains = {}
    /\ generation = 0 /\ isSwitching = FALSE /\ switches = {}

ChainStep(c) == MountLoaded(c) \/ MountCreated(c) \/ MountFails(c) \/ LandMount(c)

SwitchStep(s) == \/ SwitchLoaded(s) \/ SwitchLoadFails(s)
                 \/ SwitchCreated(s) \/ SwitchCreateFails(s)
                 \/ RolledBack(s) \/ RollbackFails(s) \/ LandSwitch(s)

Next ==
    \/ FirstMount \/ RetryMount \/ Reconnect \/ Unmount
    \/ \E c \in chains : ChainStep(c) \/ Watchdog(c)
    \/ \E v \in doomed : DelayedDestroy(v)
    \/ \E e \in Engines : SwitchEngine(e) \/ SwitchEngineThrows(e)
    \/ \E s \in switches : SwitchStep(s)

Spec == Init /\ [][Next]_vars
-----------------------------------------------------------------------------
ViewsTyped ==
    /\ live \in SUBSET View /\ doomed \in SUBSET View
    /\ viewRef \in MaybeView /\ shown \in MaybeView /\ keepalive \in MaybeView
StateTyped ==
    /\ phase \in {"new", "mounted", "gone"}
    /\ engine \in Engines \cup {None} /\ pref \in Engines \cup {None}
    /\ mountError \in Engines \cup {None}
MountTyped == mountSeq \in Nat /\ mountRunning \in BOOLEAN /\ chains \in SUBSET Chain
SwitchTyped == generation \in Nat /\ isSwitching \in BOOLEAN /\ switches \in SUBSET Switch

(* Every variable keeps its shape (use-map-engine.ts, the hook's refs and state). *)
TypeOK == ViewsTyped /\ StateTyped /\ MountTyped /\ SwitchTyped

(* The switching indicator is on exactly while the newest request is still  *)
(* running: neither an overtaken request that returns late nor an unmount   *)
(* can leave it stuck or clear it early (the finally of switchEngine).      *)
SpinnerHonest == isSwitching <=> \E s \in switches : s.gen = generation

(* While no request is undecided, the engine whose search answers the user   *)
(* is the engine of the view on screen, also after fallbacks and rollbacks. *)
SearchMatchesView ==
    viewRef \in live /\ ~isSwitching => engine = viewRef.eng

(* The session preference changes only to the engine of a view that lands   *)
(* alive in that very step for the newest request: fallback, rollback and   *)
(* overtaken requests never rewrite the user's choice.                      *)
PreferenceFollowsLanding ==
    [][pref' # pref => /\ viewRef' \in live' /\ viewRef'.eng = pref'
                       /\ viewRef'.by = "switch" /\ viewRef'.n = generation]_vars

(* A request that has been overtaken never puts its view on the screen.     *)
NewestIntentWins ==
    [][\A s \in switches : viewRef' # viewRef /\ viewRef' = s.view /\ s.view # None
            => s.gen = generation]_vars

(* A switch gives up the view on screen only once the target has loaded:    *)
(* whichever way the load phase ends otherwise (failure, an overtaking      *)
(* request, an unmount), the old view is left alive (switchMapEngine).      *)
LoadPhaseKeepsView ==
    [][\A s \in switches :
          s.stage = "load" /\ s \notin switches' /\ s.from \in live
          => \/ s.from \in live'
             \/ \E t \in switches' : t.gen = s.gen /\ t.stage = "create"]_vars

(* What a switch lands is alive, also when a failed load hands the old view   *)
(* back: nothing that ran beside the load has destroyed it ("the old view has *)
(* not been destroyed", switch.ts:158).  A call during a switch breaks it.    *)
LoadFailureReturnsLiveView ==
    \A s \in switches : s.stage = "landing" => s.view \in live
-----------------------------------------------------------------------------
(* What the hook's comments promise of overlapping requests; each is refuted *)
(* under a configuration of its own.                                         *)

(* Nothing in flight: no mount, no switch and no delayed destruction *)
Quiet == chains = {} /\ switches = {} /\ doomed = {}

(* "avoid two instances in one container": with nothing in flight at most one *)
(* view is alive (use-map-engine.ts, landing of a switch during a mount).     *)
NoDoubleInstance == Quiet => Cardinality(live) <= 1

(* "a live view has landed: no mount error": the error state and a live view  *)
(* exclude each other (use-map-engine.ts, every landing clears mountError).   *)
ErrorOnlyWithoutView == viewRef \in live => mountError = None

(* "a mount is in flight: no-op": a retry starts only when no current mount   *)
(* chain is running (use-map-engine.ts, retryMount).                          *)
RetryOnlyWhenIdle ==
    [][RetryMount => \A c \in chains : Cancelled(c) \/ c.timedOut]_vars

=============================================================================
