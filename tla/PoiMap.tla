------------------------------ MODULE PoiMap ------------------------------
(***************************************************************************)
(* The markers of the map page (hooks/use-poi-map.ts): the hook that keeps *)
(* the markers of the current view in step with what the page asks for -   *)
(* the pool, the visible POIs, the selected and the highlighted one.       *)
(*                                                                         *)
(* A controller outlives its effect for one turn of the event loop, so that*)
(* a fiber that is disconnected and connected again finds its markers on   *)
(* the map.  Renders and their effects run together; between them come the *)
(* zero-delay timers, the end of a camera movement, the outcome of images  *)
(* and fetches, and the engine's destruction of a view.                    *)
(*                                                                         *)
(* The page's accent colour is the same in every mode (lib/modes.ts), so   *)
(* the hook's dependence on it is left out, with the markers' colour.      *)
(***************************************************************************)
EXTENDS MarkerController

CONSTANTS
    Overlay,     \* POIs of the saved layer, retained by a replacement
    Focus,       \* bound: POIs that are selected or highlighted
    Unsteady,    \* bound: POIs that filters hide and the layer refuses
    Flaky,       \* bound: URLs whose image may fail
    MaxViews,    \* bound: views
    MaxTimers,   \* bound: disconnections whose timer is pending
    MaxFaults,   \* bound: steps in which the layer refuses a marker
    MaxRenders   \* bound: renders that ask for something else

ASSUME PoiMapConstants ==
    /\ Overlay \subseteq Places /\ Unsteady \subseteq POIs
    /\ {MaxViews, MaxTimers, MaxFaults, MaxRenders} \subseteq Nat \ {0}

VARIABLES
    world,       \* icons, layer, waiting, ctl, dead: see MarkerController
    role,        \* what the controller is: "none", "attached" or "kept"
    timers,      \* timers pending that may destroy it
    connected,   \* the hook's effects are set up
    lastMode,    \* prevResetKeyRef
    page,        \* what the page asks for: view, mode, pois, visible,
                 \* selected, highlighted
    latest,      \* the last view shown
    faults,      \* bound: steps with a refusal
    renders      \* bound: renders

poiMapVars == <<world, role, timers, connected, lastMode, page, latest, faults, renders>>

Urls == UNION {ToSet(Chain[p]) : p \in Companies}
PageModes == {"work", "domain"}
PoisOf(mode) == IF mode = "work" THEN Companies ELSE Places

\* mergeMapPois and visiblePOIIds: the visible POIs are in the pool or saved.
Visibles(mode, pois) ==
    LET all == pois \cup (IF mode = "domain" THEN Overlay ELSE {})
    IN  {all \ hidden : hidden \in SUBSET Unsteady}

PoiMapInit ==
    /\ world = [icons |-> NoIcons, layer |-> [m \in Wrappers |-> NoMarker],
                waiting |-> {}, ctl |-> NoController, fails |-> {}, dead |-> {}]
    /\ role = "none" /\ timers = 0
    /\ connected = TRUE /\ lastMode = "work"
    /\ page = [view |-> NoView, mode |-> "work", pois |-> {}, visible |-> {},
               selected |-> NoPoi, highlighted |-> NoPoi]
    /\ latest = NoView /\ faults = 0 /\ renders = 0

-----------------------------------------------------------------------------
\* The effects, as operators on the world

\* applySync
ApplySync(w, pg) ==
    LET put   == SetPOIs(w, pg.pois, pg.mode = "domain", Overlay)
        shown == SetVisiblePOIs(put, pg.visible)
    IN  Sync(Highlight(Select(shown, pg.selected), pg.highlighted))

\* The pool effect, and the one on the visible POIs, which change with it.
\* A new mode starts from an empty map.
PoolEffect(w, pg, reset) ==
    SetVisiblePOIs(ApplySync(IF reset THEN Clear(w) ELSE w, pg), pg.visible)

\* A bug: the kept controller is forgotten, not destroyed.
FaultyCreateEffect(w, pg, kept) ==
    IF pg.view = NoView THEN w
    ELSE LET reusable == kept /\ w.ctl.view = pg.view /\ pg.view \notin w.dead
             ready == IF reusable THEN w
                      ELSE [w EXCEPT !.ctl = NewController(pg.view)]
         IN  ApplySync(ready, pg)

\* The creating effect: the kept controller is used again for its own view,
\* and destroyed for another.
CreateEffect(w, pg, kept) ==
    IF pg.view = NoView THEN w
    ELSE LET reusable == kept /\ w.ctl.view = pg.view /\ pg.view \notin w.dead
             ready == IF reusable THEN w
                      ELSE [Destroy(w) EXCEPT !.ctl = NewController(pg.view)]
         IN  ApplySync(ready, pg)

\* The page is rendered with something else.
Rendered(pg) ==
    /\ renders' = renders + 1
    /\ page' = pg

\* The markers the layer refuses in this step, within the bound.
Refused(F) ==
    /\ F # {} => faults < MaxFaults
    /\ faults' = IF F # {} THEN faults + 1 ELSE faults

Facing(F) == [world EXCEPT !.fails = F]

\* The effects of a render with another pool; without an attached controller
\* only the mode is remembered, and without effects nothing happens.
Repooled(F) ==
    /\ world' = IF role = "attached"
                THEN PoolEffect(Facing(F), page', lastMode # page'.mode)
                ELSE world
    /\ lastMode' = IF connected THEN page'.mode ELSE lastMode

-----------------------------------------------------------------------------
\* Renders

\* A new catalogue, or a new search over it: the pool and the visible POIs.
RenderPool(pois, visible, F) ==
    /\ renders < MaxRenders /\ Refused(F) /\ HasRoom(world, 1)
    /\ Rendered([page EXCEPT !.pois = pois, !.visible = visible])
    /\ Repooled(F)
    /\ UNCHANGED <<role, timers, connected, latest>>

\* Another mode: another catalogue, and nothing selected.
RenderMode(mode, pois, visible, F) ==
    /\ renders < MaxRenders /\ Refused(F) /\ HasRoom(world, 1)
    /\ Rendered([page EXCEPT !.mode = mode, !.pois = pois, !.visible = visible,
                            !.selected = NoPoi, !.highlighted = NoPoi])
    /\ Repooled(F)
    /\ UNCHANGED <<role, timers, connected, latest>>

\* A filter, the zoom or the saved layer: only what is visible changes.
RenderVisible(visible, F) ==
    /\ renders < MaxRenders /\ connected /\ visible # page.visible /\ Refused(F)
    /\ Rendered([page EXCEPT !.visible = visible])
    /\ world' = IF role = "attached"
                THEN [SetVisiblePOIs(Facing(F), visible) EXCEPT
                            !.fails = @ \cup world.fails]
                ELSE world
    /\ UNCHANGED <<role, timers, connected, lastMode, latest>>

RenderSelected(p) ==
    /\ renders < MaxRenders /\ connected
    /\ p \in ((page.pois \cap Focus) \cup {NoPoi}) \ {page.selected}
    /\ Rendered([page EXCEPT !.selected = p])
    /\ world' = IF role = "attached"
                THEN Select(world, p) ELSE world
    /\ UNCHANGED <<role, timers, connected, lastMode, latest, faults>>

RenderHighlighted(p) ==
    /\ renders < MaxRenders /\ connected
    /\ p \in ((page.pois \cap Focus) \cup {NoPoi}) \ {page.highlighted}
    /\ Rendered([page EXCEPT !.highlighted = p])
    /\ world' = IF role = "attached"
                THEN Highlight(world, p) ELSE world
    /\ UNCHANGED <<role, timers, connected, lastMode, latest, faults>>

\* The engine shows another view, or none: the creating effect is cleaned up
\* and runs again.
RenderView(v, F) ==
    LET cleaned == role = "attached"
        kept    == cleaned \/ role = "kept"
    IN  /\ renders < MaxRenders /\ connected /\ timers < MaxTimers
        /\ Refused(F) /\ HasRoom(world, 1)
        /\ v \in {NoView, latest + 1} \ {page.view} /\ v <= MaxViews
        /\ Rendered([page EXCEPT !.view = v])
        /\ world' = CreateEffect(Facing(F), page', kept)
        /\ role' = IF v # NoView THEN "attached" ELSE IF cleaned THEN "kept" ELSE role
        /\ timers' = IF v # NoView THEN 0 ELSE IF cleaned THEN timers + 1 ELSE timers
        /\ latest' = IF v = NoView THEN latest ELSE v
        /\ UNCHANGED <<connected, lastMode>>

-----------------------------------------------------------------------------
\* The fiber's effects, the timer, the map and the network

\* The fiber is disconnected, or unmounted for good.
Disconnect ==
    /\ connected /\ timers < MaxTimers
    /\ connected' = FALSE
    /\ role' = IF role = "attached" THEN "kept" ELSE role
    /\ timers' = IF role = "attached" THEN timers + 1 ELSE timers
    /\ UNCHANGED <<world, lastMode, page, latest, faults, renders>>

\* It is connected again: every effect runs, the creating one first.
Reconnect(F) ==
    LET made == CreateEffect(Facing(F), page, role = "kept")
    IN  /\ ~connected /\ HasRoom(world, 2) /\ Refused(F)
        /\ connected' = TRUE /\ lastMode' = page.mode
        /\ IF page.view = NoView THEN UNCHANGED <<world, role, timers>>
           ELSE /\ world' = PoolEffect(made, page, lastMode # page.mode)
                /\ role' = "attached"
                /\ timers' = IF world.ctl # NoController /\ world.ctl.view = page.view
                                /\ page.view \notin world.dead
                             THEN timers ELSE 0
        /\ UNCHANGED <<page, latest, renders>>

\* The timer of a cleanup: nothing if the controller is in use again.
KeepaliveTimer ==
    /\ timers > 0
    /\ timers' = IF role = "kept" THEN 0 ELSE timers - 1
    /\ IF role = "kept" THEN role' = "none" /\ world' = Destroy(world)
       ELSE UNCHANGED <<role, world>>
    /\ UNCHANGED <<connected, lastMode, page, latest, faults, renders>>

\* moveend, which an attached controller listens to
MoveEnd(F) ==
    /\ role = "attached" /\ HasRoom(world, 1) /\ Refused(F)
    /\ world' = Sync(Facing(F))
    /\ UNCHANGED <<role, timers, connected, lastMode, page, latest, renders>>

\* The engine destroys the view: its markers go with it.
ViewDies(v) ==
    /\ v \in (1 .. latest) \ world.dead
    /\ world' = [world EXCEPT !.dead = @ \cup {v},
                    !.layer = [m \in Wrappers |->
                        IF @[m] # NoMarker /\ @[m].view = v
                        THEN [@[m] EXCEPT !.known = FALSE, !.onLayer = FALSE] ELSE @[m]]]
    /\ UNCHANGED <<role, timers, connected, lastMode, page, latest, faults, renders>>

ImageTried(url, ok) ==
    /\ url \in world.icons.trying /\ (ok \/ url \in Flaky)
    /\ world' = [world EXCEPT !.icons = IF ok THEN TriedWell(@, url) ELSE TriedInVain(@, url)]
    /\ UNCHANGED <<role, timers, connected, lastMode, page, latest, faults, renders>>

\* The upgrades that waited for the bytes of a logo go on, one after the other.
Woken(w, markers, url) ==
    Along(LAMBDA acc, m : ApplyLogoUpgrade(acc, m[1], m, url), w, SetToSeq(markers))

\* The bytes arrive, and every upgrade that waits for them goes on.
LogoFetched(url) ==
    LET here == [world EXCEPT !.icons = Fetched(@, url),
                              !.waiting = {u \in @ : u.url # url}]
        woken == {u.marker : u \in {x \in world.waiting : x.url = url}}
    IN  /\ url \in world.icons.fetching
        /\ world' = Woken(here, woken, url)
        /\ UNCHANGED <<role, timers, connected, lastMode, page, latest, faults, renders>>

LogoLost(url) ==
    /\ url \in world.icons.fetching
    /\ world' = [world EXCEPT !.icons = FetchFailed(@, url),
                              !.waiting = {u \in @ : u.url # url}]
    /\ UNCHANGED <<role, timers, connected, lastMode, page, latest, faults, renders>>

\* A step in which the layer takes every marker, or refuses one POI's.
Refusals == {{}} \cup {{p} : p \in Unsteady}

PoiMapNext ==
    \/ \E F \in Refusals :
        \/ \E pois \in SUBSET PoisOf(page.mode) :
            \E visible \in Visibles(page.mode, pois) : RenderPool(pois, visible, F)
        \/ \E mode \in PageModes \ {page.mode} : \E pois \in SUBSET PoisOf(mode) :
            \E visible \in Visibles(mode, pois) : RenderMode(mode, pois, visible, F)
        \/ \E visible \in Visibles(page.mode, page.pois) : RenderVisible(visible, F)
        \/ \E v \in 0 .. MaxViews : RenderView(v, F)
        \/ Reconnect(F)
        \/ MoveEnd(F)
    \/ \E p \in POIs \cup {NoPoi} : RenderSelected(p) \/ RenderHighlighted(p)
    \/ Disconnect
    \/ KeepaliveTimer
    \/ \E v \in 1 .. MaxViews : ViewDies(v)
    \/ \E url \in Urls :
        \/ \E ok \in BOOLEAN : ImageTried(url, ok)
        \/ LogoFetched(url)
        \/ LogoLost(url)

PoiMapSpec == PoiMapInit /\ [][PoiMapNext]_poiMapVars

-----------------------------------------------------------------------------
\* Properties

Marker(p) == world.layer[Wrapper(world, p)]

\* The hook's effects are set up on a view that is not destroyed.
OnMap == role = "attached" /\ page.view \notin world.dead

\* Types, and what the bounded caches hold.
PoiMapTypeOK ==
    /\ role \in {"none", "attached", "kept"} /\ timers \in 0 .. MaxTimers
    /\ connected \in BOOLEAN /\ lastMode \in PageModes
    /\ page.pois \subseteq PoisOf(page.mode) /\ page.visible \subseteq PoisOf(page.mode)
    /\ role = "none" <=> world.ctl = NoController
    /\ Len(world.icons.results) <= MaxResults /\ Len(world.icons.inlined) <= MaxInlined
    /\ Len(world.icons.failed) <= MaxFailed
    /\ Cardinality(world.icons.trying) <= MaxTrying
    /\ Cardinality(world.icons.fetching) <= MaxFetching
    /\ \A u \in world.waiting : u.url \in world.icons.fetching

\* A marker on a living view is one of the controller that still has it, once
\* for its POI, and a controller without an effect has a timer to end it:
\* switches, disconnections and late timers leave nothing on the map that
\* nobody will remove (lib/map-markers.ts destroy, hooks/use-poi-map.ts 186-227).
NothingLeftBehind ==
    /\ \A m \in Wrappers :
        (world.layer[m] # NoMarker /\ world.layer[m].view \notin world.dead) =>
            /\ world.ctl # NoController
            /\ m = Wrapper(world, m[1]) /\ m \in world.ctl.placed
            /\ world.layer[m].view = world.ctl.view
    /\ role = "kept" => timers > 0

\* What is registered is what the page's mode asks for: nothing of the other
\* mode, nothing outside a place search's own pool but the saved layer, and -
\* while the layer has refused nothing - all of the pool (setPOIs, resetKey).
PoolIsMarked ==
    OnMap =>
        /\ Registered(world) \subseteq PoisOf(page.mode)
        /\ (page.mode = "domain" /\ page.pois # {}) =>
                Registered(world) \subseteq page.pois \cup Overlay
        /\ faults = 0 => page.pois \subseteq Registered(world)

\* A registered marker is meant to be shown exactly if the page shows its POI,
\* and is on the layer then unless the layer has refused it since the markers
\* were last looked through (setVisiblePOIs and its record of what was last
\* applied, sync).
ShownIsWanted ==
    OnMap => \A p \in Registered(world) :
        /\ Marker(p).want <=> p \in page.visible
        /\ (Marker(p).want /\ p \notin world.fails) => Marker(p).onLayer

\* The selected POI, and no other, is drawn as selected; what is drawn as
\* highlighted is the highlighted one (resolveMarkerState, refresh).
SelectionIsShown ==
    OnMap => \A p \in Registered(world) :
        /\ Marker(p).style = "selected" <=> p = page.selected
        /\ Marker(p).style = "highlighted" => p = page.highlighted

\* The map shows what the page asks for, whatever was rendered, refused, moved
\* or disconnected in between.
MapShowsThePage == PoolIsMarked /\ ShownIsWanted /\ SelectionIsShown

\* What the controller records of a marker is what is drawn, so that comparing
\* with the record may skip the drawing: style, logo, visibility.
RecordsMatchTheMap ==
    role # "none" => \A p \in Registered(world) :
        /\ world.ctl.style[p] = Marker(p).style
        /\ world.ctl.logo[p] = Marker(p).icon
        /\ world.ctl.kind[p] = "logo" <=> Marker(p).icon # NoUrl
        /\ world.ctl.applied[p] = (IF Marker(p).want THEN "shown" ELSE "hidden")

\* A marker that shows its logo goes on showing it while it is on the map:
\* selecting it after the shared cache has dropped the bytes does not turn it
\* back into an emoji (lib/map-markers.ts glIconForState).
LogosStay ==
    [][\A m \in Wrappers :
        (/\ world.layer[m] # NoMarker /\ world.layer'[m] # NoMarker
         /\ world.layer[m].icon # NoUrl /\ IsAttached(world, m)
         /\ world.layer'[m].view = world.layer[m].view)
            => world.layer'[m].icon # NoUrl]_poiMapVars

\* An image remembered as failed in this session is not tried again, whatever
\* the caches have dropped (lib/map-engine/icon-preflight.ts 28-30).
FailuresAreRemembered ==
    [][(world.icons'.trying \ world.icons.trying) \cap ToSet(world.icons.failed) = {}]_poiMapVars

\* Fails: the highlighted POI is drawn as highlighted unless it is selected.
\* select() forgets the highlight of its POI, so that after deselect() or the
\* selection of another the marker is drawn as normal, while the interface
\* says "恢复为默认/高亮样式" (lib/map-markers.ts).
HighlightIsShown ==
    OnMap => \A p \in Registered(world) :
        (p = page.highlighted /\ p # page.selected) => Marker(p).style = "highlighted"

\* Fails with two candidates for a logo: two upgrades of one marker, to different URLs,
\* can wait at once, as the guard that "重复触发不重复重建" relies on compares only the
\* wrapper; the second redraws the marker with its own logo, the worse one perhaps
\* (lib/map-markers.ts maybeUpgradeIcon).
FirstLogoStays ==
    [][\A m \in Wrappers :
        (/\ world.layer[m] # NoMarker /\ world.layer'[m] # NoMarker
         /\ world.layer[m].icon # NoUrl /\ IsAttached(world, m)
         /\ world.layer'[m].view = world.layer[m].view)
            => world.layer'[m].icon = world.layer[m].icon]_poiMapVars
=============================================================================
