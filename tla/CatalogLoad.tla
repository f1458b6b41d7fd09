---------------------------- MODULE CatalogLoad ----------------------------
(***************************************************************************)
(* How the map page keeps its catalogue: the main load of map-shell.tsx,   *)
(* the viewport loads of use-work-viewport.ts, the session cache of        *)
(* mode-cache.ts with its restore on mount, and what the user does to them.*)
(*                                                                         *)
(* The browser runs one task at a time and React runs the effects of a     *)
(* state change before the next task, so an action here is a task with its *)
(* effects. A place is identified by what it was fetched for: its mode,    *)
(* topic (search text or category), view and page; merging by id is union. *)
(***************************************************************************)
EXTENDS Naturals, FiniteSets

CONSTANTS
    Queries, Categories,   \* nonempty search texts and categories
    Views,                 \* map views far enough apart to need another load
    FirstView,             \* the view the map opens with
    LastPage,              \* pages 0..LastPage of a full load
    NoLoad,                \* no main load is in flight
    Faults,                \* what requests may do: come back "empty", lose a "page", "fail"
    Operations,            \* what the user may do
    MaxOperations,         \* bound: user operations in a behaviour
    MaxOffset              \* bound: the page offset

NoText == ""   \* no search, no category

ASSUME CatalogAssumption ==
    /\ LastPage \in Nat /\ MaxOperations \in Nat /\ MaxOffset \in Nat
    /\ FirstView \in Views
    /\ NoText \notin Queries \cup Categories

VARIABLES
    ui,             \* mode, query, category, offset and token (refreshToken)
    more,           \* loadingMore
    error,          \* error # null
    prevCategory,   \* prevDomainCategoryRef
    catalog,        \* catalogRef and the catalog state
    cache,          \* sessionStorage: an entry for each cached mode
    noMore,         \* noMoreRef
    skipFetch,      \* skipFetchRef
    refreshPending, \* viewportRefreshPendingRef
    due,            \* the main effect's setTimeout is pending
    main,           \* the main load in flight (loadingRef) or NoLoad
    view, ready, settled,   \* the camera, mapReady, geoSettled
    epoch,          \* viewportEpochRef
    starting,       \* a viewport load begins in the next microtask
    vloads,         \* the viewport loads in flight, of this loader and disposed ones
    operations,     \* user operations so far
    timer, inFlight, pending, disposed   \* the viewport loader

L == INSTANCE ViewportLoader

loaderVars == <<timer, inFlight, pending, disposed>>
dataVars == <<catalog, cache, noMore>>
mainVars == <<due, main, skipFetch, refreshPending>>
uiVars   == <<ui, more, error, prevCategory>>
mapVars  == <<view, ready, settled>>
loadVars == <<epoch, starting, vloads>>
vars == <<dataVars, mainVars, uiVars, mapVars, loadVars, operations, loaderVars>>
-----------------------------------------------------------------------------
Modes == {"work", "domain"}
Topics == Queries \cup Categories \cup {"all"}

(* What a load is for; NoText is a domain page with neither search nor       *)
(* category, which loads nothing.                                            *)
Topic(u) == IF u.query # NoText THEN u.query
            ELSE IF u.mode = "work" THEN "all" ELSE u.category

(* A search in domain mode asks for one page, everything else for all pages. *)
FirstPage(u) == IF u.mode = "domain" /\ u.query # NoText THEN u.offset ELSE 0
FinalPage(u) == IF u.mode = "domain" /\ u.query # NoText THEN u.offset ELSE LastPage

(* The places of one page: the work catalogue does not depend on the view. *)
PageOf(m, topic, v, p) ==
    {[mode |-> m, topic |-> topic, view |-> IF m = "work" THEN FirstView ELSE v, page |-> p]}
Batches(page) == IF "empty" \in Faults THEN {{}, page} ELSE {page}

(* writeModeCache drops an empty catalogue; readModeCache drops a mixed one. *)
Written(c, m, e) == IF e.catalog = {} THEN c
                    ELSE [n \in DOMAIN c \cup {m} |-> IF n = m THEN e ELSE c[n]]
Cleared(c, m) == [n \in DOMAIN c \ {m} |-> c[n]]
Cached(m) == m \in DOMAIN cache /\ \A p \in cache[m].catalog : p.mode = m

(* readMapViewSnapshot: {} while there is no map *)
Snapshot == IF ready THEN {view} ELSE {}

Entry(u, places, shot) ==
    [catalog |-> places, offset |-> u.offset, query |-> u.query,
     category |-> u.category, view |-> shot]
-----------------------------------------------------------------------------
(* The effects of a render with state u, catalogue places and cache c, in   *)
(* their order: the category effect, the main effect (which cancels the load *)
(* of the parameters before and restarts the timer), the [filters] effect.   *)
Render(u, places, c, newFilters) ==
    LET recategorised == u.mode = "domain" /\ u.query = NoText /\ u.category # prevCategory
        u2 == IF recategorised THEN [u EXCEPT !.offset = 0] ELSE u
        kept == IF recategorised THEN {} ELSE places
        c2 == IF recategorised THEN Cleared(c, "domain") ELSE c
    IN  /\ ui' = u2
        /\ catalog' = kept
        /\ prevCategory' = IF recategorised THEN u.category ELSE prevCategory
        /\ cache' = IF newFilters /\ ready THEN Written(c2, u2.mode, Entry(u2, kept, Snapshot))
                    ELSE c2
        /\ due' = (due \/ u2 # ui)
        /\ main' = IF u2 # ui /\ main # NoLoad
                   THEN [main EXCEPT !.cancelled = TRUE] ELSE main

(* viewportLoaderRef.current?.schedule(), where a null loader is a disposed one *)
ScheduleIf(wanted) == IF wanted THEN L!Schedule ELSE UNCHANGED loaderVars

(* needsViewportAlign: the cached view is missing or far from the present one *)
Misaligned(c, m) == m \in DOMAIN c /\ c[m].view # {view}
-----------------------------------------------------------------------------
FreshPage(m) == [mode |-> m, query |-> NoText, category |-> NoText, offset |-> 0, token |-> 0]
Restored(u, e) == [u EXCEPT !.query = e.query, !.category = e.category, !.offset = e.offset]

Init ==
    /\ ui = FreshPage("work") /\ more = FALSE /\ error = FALSE /\ prevCategory = NoText
    /\ catalog = {} /\ cache = << >> /\ noMore = FALSE
    /\ due = TRUE /\ main = NoLoad /\ skipFetch = FALSE /\ refreshPending = FALSE
    /\ view = FirstView /\ ready = FALSE /\ settled = FALSE
    /\ epoch = 0 /\ starting = FALSE /\ vloads = {}
    /\ operations = 0
    /\ L!InitLoader(TRUE)

UserMay(op) == op \in Operations /\ operations < MaxOperations /\ operations' = operations + 1

(* A new document: only the session cache survives. The page opens in work  *)
(* mode and useModeCacheRestore shows what was cached for it.               *)
Reload ==
    /\ UserMay("reload")
    /\ \/ /\ Cached("work")
          /\ ui' = Restored(FreshPage("work"), cache["work"])
          /\ catalog' = cache["work"].catalog
          /\ noMore' = TRUE /\ skipFetch' = TRUE
       \/ /\ ~Cached("work")
          /\ ui' = FreshPage("work")
          /\ catalog' = {}
          /\ noMore' = FALSE /\ skipFetch' = FALSE
    /\ more' = FALSE /\ error' = FALSE /\ prevCategory' = NoText
    /\ refreshPending' = FALSE /\ due' = TRUE /\ main' = NoLoad
    /\ view' = FirstView /\ ready' = FALSE /\ settled' = FALSE
    /\ epoch' = 0 /\ starting' = FALSE /\ vloads' = {}
    /\ disposed' = TRUE /\ timer' = "off" /\ pending' = FALSE /\ inFlight' = FALSE
    /\ UNCHANGED cache
-----------------------------------------------------------------------------
(* handleModeChange: cache the mode that is left, restore or open the other *)
ChangeMode ==
    /\ UserMay("mode")
    /\ LET target == CHOOSE m \in Modes : m # ui.mode
           c == Written(cache, ui.mode, Entry(ui, catalog, Snapshot))
           opened == [FreshPage(target) EXCEPT !.token = ui.token]
       IN  /\ IF Cached(target)
              THEN /\ Render(Restored(opened, cache[target]), cache[target].catalog, c, TRUE)
                   /\ skipFetch' = TRUE
                   /\ noMore' = (target = "work")
              ELSE /\ Render(opened, {}, c, TRUE)
                   /\ noMore' = FALSE
                   /\ UNCHANGED skipFetch
           /\ ScheduleIf(ready /\ settled /\ Misaligned(cache', target))
    /\ UNCHANGED <<more, error, refreshPending, mapVars, loadVars>>

(* setQuery *)
TypeQuery(q) ==
    /\ UserMay("query") /\ q # ui.query
    /\ Render([ui EXCEPT !.query = q], catalog, cache, FALSE)
    /\ UNCHANGED <<more, error, noMore, skipFetch, refreshPending, mapVars, loadVars, loaderVars>>

(* setFilters: a category of domain mode, or another filter *)
PickFilter(c) ==
    /\ UserMay("filter")
    /\ ui.mode = "work" => c = ui.category
    /\ Render([ui EXCEPT !.category = c], catalog, cache, TRUE)
    /\ UNCHANGED <<more, error, noMore, skipFetch, refreshPending, mapVars, loadVars, loaderVars>>

(* handleRefreshHere *)
RefreshHere ==
    /\ UserMay("refresh")
    /\ Render([ui EXCEPT !.offset = 0, !.token = @ + 1], {}, Cleared(cache, ui.mode), FALSE)
    /\ UNCHANGED <<more, error, noMore, skipFetch, refreshPending, mapVars, loadVars, loaderVars>>

(* handleRetry: a list that is not empty offers it after a failure *)
Retry ==
    /\ UserMay("retry") /\ error /\ catalog # {}
    /\ more' = TRUE
    /\ Render([ui EXCEPT !.token = @ + 1], catalog, Cleared(cache, ui.mode), FALSE)
    /\ UNCHANGED <<error, noMore, skipFetch, refreshPending, mapVars, loadVars, loaderVars>>

MayNeedMore == ui.mode = "domain" /\ ~noMore /\ main = NoLoad

(* handleNeedMore: from the sentinel or button below a list, or from         *)
(* handleWidenSearch when there is nothing to widen.                         *)
NeedMore ==
    /\ UserMay("more") /\ MayNeedMore /\ ui.offset < MaxOffset
    /\ (catalog # {} /\ ~more /\ ~error) \/ Topic(ui) = NoText
    /\ more' = TRUE
    /\ Render([ui EXCEPT !.offset = @ + 1], catalog, cache, FALSE)
    /\ UNCHANGED <<error, noMore, skipFetch, refreshPending, mapVars, loadVars, loaderVars>>

(* moveend and zoomend, once the loader listens *)
Move(v) ==
    /\ UserMay("move") /\ ready /\ v # view
    /\ view' = v
    /\ L!Schedule
    /\ UNCHANGED <<dataVars, mainVars, uiVars, ready, settled, loadVars>>
-----------------------------------------------------------------------------
(* A loader is created (schedule: the alignment effect follows at once). *)
FreshLoader(schedule) ==
    /\ disposed' = FALSE /\ inFlight' = FALSE
    /\ pending' = schedule
    /\ timer' = IF schedule THEN "fresh" ELSE "off"

(* createMap: the main effect restarts its timer *)
MapReady ==
    /\ ~ready
    /\ ready' = TRUE
    /\ due' = TRUE
    /\ FreshLoader(FALSE)
    /\ UNCHANGED <<dataVars, main, skipFetch, refreshPending, uiVars, view, settled, loadVars,
                   operations>>

(* settleGeolocation; setCenter at the user's place is a Move *)
GeoSettles ==
    /\ ready /\ ~settled
    /\ settled' = TRUE
    /\ UNCHANGED <<view, ready>>
    /\ ScheduleIf(Misaligned(cache, ui.mode))
    /\ UNCHANGED <<dataVars, mainVars, uiVars, loadVars, operations>>

(* An engine switch publishes a new view: the loader is disposed, its load is *)
(* cancelled, and a new loader listens to the new map.                        *)
Rebind ==
    /\ UserMay("rebind") /\ ready
    /\ vloads' = {[l EXCEPT !.cancelled = TRUE] : l \in vloads}
    /\ UNCHANGED mapVars
    /\ FreshLoader(settled /\ Misaligned(cache, ui.mode))
    /\ UNCHANGED <<dataVars, mainVars, uiVars, epoch, starting>>
-----------------------------------------------------------------------------
(* load(): the main effect's timer fires *)
CacheHit ==
    /\ catalog # {} /\ Cached(ui.mode)
    /\ cache[ui.mode].offset = ui.offset
    /\ cache[ui.mode].query = ui.query
    /\ ui.token = 0

TimerSkips ==
    /\ skipFetch
    /\ skipFetch' = FALSE
    /\ more' = FALSE
    /\ refreshPending' = FALSE
    /\ ScheduleIf(refreshPending)
    /\ UNCHANGED <<ui, error, prevCategory, main, dataVars>>

(* The domain page without search or category: an empty catalogue at once. *)
TimerFindsGateClosed ==
    /\ error' = FALSE
    /\ catalog' = {}
    /\ noMore' = TRUE
    /\ more' = FALSE
    /\ refreshPending' = FALSE
    /\ ScheduleIf(refreshPending)
    /\ UNCHANGED <<ui, prevCategory, cache, skipFetch, main>>

NewMain == [mode |-> ui.mode, query |-> ui.query, category |-> ui.category,
            offset |-> ui.offset, view |-> view, epoch |-> epoch,
            base |-> catalog, acc |-> catalog, page |-> FirstPage(ui),
            arrived |-> FALSE, grew |-> FALSE, cancelled |-> FALSE]

TimerStartsLoad ==
    /\ error' = FALSE
    /\ main' = NewMain
    /\ UNCHANGED <<ui, more, prevCategory, dataVars, skipFetch, refreshPending, loaderVars>>

TimerDoesNothing ==
    UNCHANGED <<uiVars, dataVars, skipFetch, refreshPending, main, loaderVars>>

MainTimer ==
    /\ due /\ due' = FALSE
    /\ IF ~ready THEN TimerDoesNothing
       ELSE IF skipFetch THEN TimerSkips
       ELSE IF main # NoLoad \/ CacheHit THEN TimerDoesNothing
       ELSE IF Topic(ui) = NoText THEN TimerFindsGateClosed
       ELSE TimerStartsLoad
    /\ UNCHANGED <<mapVars, loadVars, operations>>
-----------------------------------------------------------------------------
(* A batch or result of the main load may be shown: not cancelled, no newer *)
(* viewport load, same mode.                                                *)
MainIsCurrent == ~main.cancelled /\ main.epoch = epoch /\ main.mode = ui.mode

(* onBatch: the places of one more page, merged into what was there at the start *)
MainPageArrives ==
    /\ main # NoLoad /\ main.page <= FinalPage(main)
    /\ \E batch \in Batches(PageOf(main.mode, Topic(main), main.view, main.page)) :
         LET acc == main.acc \cup batch IN
         /\ main' = [main EXCEPT !.acc = acc, !.page = @ + 1, !.arrived = TRUE,
                                 !.grew = IF MainIsCurrent THEN acc # main.base ELSE @]
         /\ catalog' = IF MainIsCurrent THEN acc ELSE catalog
    /\ UNCHANGED <<cache, noMore, due, skipFetch, refreshPending, uiVars, mapVars, loadVars,
                   operations, loaderVars>>

(* A page of the work catalogue fails or times out: it is skipped. *)
WorkPageFails ==
    /\ "page" \in Faults
    /\ main # NoLoad /\ main.mode = "work" /\ main.page <= LastPage
    /\ main' = [main EXCEPT !.page = @ + 1]
    /\ UNCHANGED <<dataVars, due, skipFetch, refreshPending, uiVars, mapVars, loadVars,
                   operations, loaderVars>>

FaultyFinally ==   \* the viewport refresh that waited is forgotten
    /\ main' = NoLoad
    /\ more' = FALSE
    /\ UNCHANGED <<refreshPending, loaderVars>>

(* finally: release the load and replay the viewport refresh that waited *)
Finally ==
    /\ main' = NoLoad
    /\ more' = FALSE
    /\ refreshPending' = FALSE
    /\ ScheduleIf(refreshPending)

(* Nothing new in domain mode (vacant): the catalogue stays. *)
Vacant == main.mode = "domain" /\ main.base # {} /\ ~main.grew
Unavailable == main.mode = "work" /\ main.page > 0 /\ ~main.arrived

(* The pages are through, or the load saw that it is cancelled. In domain   *)
(* mode it may stop early (service total) or have nothing to ask for.       *)
MayEnd == \/ main.cancelled
          \/ main.mode = "work" /\ main.page > LastPage
          \/ main.mode = "domain" /\ (main.arrived \/ "empty" \in Faults)

EndsUnavailable ==
    /\ Unavailable
    /\ error' = (error \/ main.base = {})
    /\ noMore' = FALSE
    /\ UNCHANGED <<catalog, cache>>

EndsVacant(exhausted) ==
    /\ Vacant
    /\ noMore' = exhausted
    /\ UNCHANGED <<catalog, cache, error>>

EndsShown(exhausted) ==
    /\ ~Unavailable /\ ~Vacant /\ MainIsCurrent
    /\ catalog' = main.acc
    /\ cache' = Written(cache, main.mode,
                  [Entry(main, main.acc, {main.view}) EXCEPT !.category = ui.category])
    /\ noMore' = exhausted
    /\ UNCHANGED error

EndsDropped ==
    ~Unavailable /\ ~Vacant /\ ~MainIsCurrent /\ UNCHANGED <<dataVars, error>>

(* The load returns; exhausted is its noMore. *)
MainEnds(exhausted) ==
    /\ main # NoLoad /\ MayEnd
    /\ exhausted /\ main.mode = "work" => main.page > LastPage /\ main.arrived
    /\ EndsUnavailable \/ EndsVacant(exhausted) \/ EndsShown(exhausted) \/ EndsDropped
    /\ Finally
    /\ UNCHANGED <<ui, prevCategory, due, skipFetch, mapVars, loadVars, operations>>

(* A domain load throws: nothing is shown, and it is told unless cancelled. *)
MainFails ==
    /\ "fail" \in Faults
    /\ main # NoLoad /\ main.mode = "domain"
    /\ error' = (error \/ ~main.cancelled)
    /\ Finally
    /\ UNCHANGED <<ui, prevCategory, dataVars, due, skipFetch, mapVars, loadVars, operations>>
-----------------------------------------------------------------------------
(* The viewport loader's delay of 800 ms is longer than the main effect's 80  *)
(* or 300: a main timer that is still pending was started near its end.       *)
ViewportDelayPasses ==
    ~due /\ L!DelayPasses /\ UNCHANGED <<dataVars, mainVars, uiVars, mapVars, loadVars, operations>>

(* The loader's timer may begin a load in the same task. *)
ViewportTimer ==
    /\ L!TimerFires
    /\ starting' = (inFlight' /\ ~inFlight)
    /\ UNCHANGED <<dataVars, mainVars, uiVars, mapVars, epoch, vloads, operations>>

MustWait == main # NoLoad

(* load() of useWorkViewport begins: not before the user is located, not    *)
(* during a main load (which will replay it), and only for a domain topic.   *)
ViewportLoadReturns ==
    /\ starting
    /\ ~settled \/ MustWait \/ ui.mode = "work" \/ Topic(ui) = NoText
    /\ refreshPending' = (refreshPending \/ (settled /\ MustWait))
    /\ starting' = FALSE
    /\ L!LoadEnds
    /\ UNCHANGED <<dataVars, due, main, skipFetch, uiVars, mapVars, epoch, vloads, operations>>

FaultyArms == TRUE   \* skipFetch is armed though no main load will be due
Arms == ui.offset # 0

ViewportLoadBegins ==
    /\ starting
    /\ settled /\ ~MustWait /\ ui.mode = "domain" /\ Topic(ui) # NoText
    /\ starting' = FALSE
    /\ noMore' = FALSE
    /\ epoch' = epoch + 1
    /\ skipFetch' = (skipFetch \/ Arms)
    /\ Render([ui EXCEPT !.offset = 0], catalog, cache, FALSE)
    /\ vloads' = vloads \cup
         {[topic |-> Topic(ui), view |-> view, epoch |-> epoch + 1, page |-> 0,
           final |-> IF ui.query # NoText THEN 0 ELSE LastPage,
           accepted |-> FALSE, cancelled |-> FALSE]}
    /\ UNCHANGED <<more, error, refreshPending, mapVars, operations, loaderVars>>

FaultyIsCurrent(l) == l.epoch = epoch /\ ~l.cancelled   \* the mode is not looked at

IsCurrent(l) == ui.mode = "domain" /\ l.epoch = epoch /\ ~l.cancelled

(* onBatch: a nonempty batch of a current load joins the catalogue *)
ViewportPageArrives(l) ==
    /\ l.page <= l.final
    /\ \E batch \in Batches(PageOf("domain", l.topic, l.view, l.page)) :
         LET taken == IsCurrent(l) /\ batch # {} IN
         /\ catalog' = IF taken THEN catalog \cup batch ELSE catalog
         /\ vloads' = (vloads \ {l}) \cup
              {[l EXCEPT !.page = @ + 1, !.accepted = @ \/ taken]}
    /\ UNCHANGED <<cache, noMore, mainVars, uiVars, mapVars, epoch, starting, operations,
                   loaderVars>>

(* The loader hears of the end of its own load, and may begin the next one. *)
LoaderHears(l) ==
    /\ vloads' = vloads \ {l}
    /\ IF l.cancelled THEN UNCHANGED loaderVars ELSE L!LoadEnds
    /\ starting' = (~l.cancelled /\ inFlight')
    /\ UNCHANGED <<mainVars, uiVars, mapVars, epoch, catalog, operations>>

(* The load returns: a current one that showed something is cached, unless  *)
(* its data came from the fallback; exhausted is noMore, {} when unknown.   *)
ViewportEnds(l, cacheable, exhausted) ==
    /\ l.page > 0
    /\ cache' = IF IsCurrent(l) /\ l.accepted /\ cacheable
                THEN Written(cache, "domain",
                       [Entry(ui, catalog, {l.view}) EXCEPT !.offset = 0])
                ELSE cache
    /\ noMore' = IF IsCurrent(l) /\ exhausted # {} THEN exhausted = {TRUE} ELSE noMore
    /\ LoaderHears(l)

ViewportFails(l) == "fail" \in Faults /\ UNCHANGED <<cache, noMore>> /\ LoaderHears(l)
-----------------------------------------------------------------------------
UserActs ==
    \/ Reload \/ ChangeMode \/ RefreshHere \/ Retry \/ NeedMore \/ Rebind
    \/ \E q \in Queries \cup {NoText} : TypeQuery(q)
    \/ \E c \in Categories \cup {NoText} : PickFilter(c)
    \/ \E v \in Views : Move(v)

MainSettles == \/ MainPageArrives \/ WorkPageFails \/ MainFails
               \/ \E exhausted \in BOOLEAN : MainEnds(exhausted)

ViewportSettles == \E l \in vloads :
    \/ ViewportPageArrives(l) \/ ViewportFails(l)
    \/ \E cacheable \in BOOLEAN, exhausted \in {{}, {TRUE}, {FALSE}} :
         ViewportEnds(l, cacheable, exhausted)

Microtask == ViewportLoadReturns \/ ViewportLoadBegins

Task == \/ UserActs \/ MapReady \/ GeoSettles \/ MainTimer \/ MainSettles
        \/ ViewportDelayPasses \/ ViewportTimer \/ ViewportSettles

(* A microtask runs before any other task. *)
Next == IF starting THEN Microtask ELSE Task

(* Timers run and requests are answered or fail; neither the user nor the map *)
(* service need act.                                                          *)
Fairness ==
    /\ WF_vars(Microtask) /\ WF_vars(~starting /\ MainTimer) /\ WF_vars(~starting /\ MainSettles)
    /\ WF_vars(~starting /\ ViewportDelayPasses) /\ WF_vars(~starting /\ ViewportTimer)
    /\ WF_vars(~starting /\ ViewportSettles)

Spec == Init /\ [][Next]_vars
FairSpec == Spec /\ Fairness
-----------------------------------------------------------------------------
(* Types and bounds; an empty catalogue is never cached (writeModeCache). *)
CatalogTypeOK ==
    /\ L!LoaderTypeOK
    /\ ui.mode \in Modes /\ ui.query \in Queries \cup {NoText} /\ ui.category \in Categories \cup {NoText}
    /\ ui.offset \in 0..MaxOffset
    /\ DOMAIN cache \subseteq Modes /\ \A m \in DOMAIN cache : cache[m].catalog # {}
    /\ {more, error, noMore, skipFetch, refreshPending, due, ready, settled, starting}
         \subseteq BOOLEAN

(* mode-cache.ts "v6: in-flight batches of a mode switch wrote work places    *)
(* into the domain cache": no place of one mode is ever shown or cached in    *)
(* the other, whichever loads are in flight when the mode changes.            *)
NoMixing ==
    /\ \A p \in catalog : p.mode = ui.mode
    /\ \A m \in DOMAIN cache : \A p \in cache[m].catalog : p.mode = m

(* map-shell.tsx load(): skipFetch must not outlive the timer it was set for, *)
(* or it would swallow the next load.                                         *)
SkipFetchIsDue == skipFetch => due \/ ~ready

(* A viewport refresh that was put off is held by a main load in flight,      *)
(* whose end replays it: it is never left to a load that has ended.           *)
PutOffRefreshIsHeld == refreshPending => main # NoLoad

(* No viewport load begins while a main load runs: the epoch a main load took *)
(* at its start is the present one until it ends.                             *)
MainLoadUndisturbed == main # NoLoad => main.epoch = epoch

(* map-shell.tsx load() and handleNeedMore: the work catalogue is fetched     *)
(* from its first page, so no offset of domain mode may reach work mode, by   *)
(* paging or through the cache.                                               *)
WorkStartsAtFirstPage ==
    /\ ui.mode = "work" => ui.offset = 0
    /\ "work" \in DOMAIN cache => cache["work"].offset = 0

(* The loader counts as busy exactly while one load of its own is starting or *)
(* in flight; loads of disposed loaders are cancelled and do not count.       *)
OneOwnLoad ==
    LET own == {l \in vloads : ~l.cancelled} IN
    /\ Cardinality(own) <= 1
    /\ inFlight <=> starting \/ own # {}
=============================================================================
