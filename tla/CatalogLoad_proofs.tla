------------------------- MODULE CatalogLoad_proofs -------------------------
(***************************************************************************)
(* Proofs about CatalogLoad, for any searches, categories, views and pages,  *)
(* and however often the user acts.                                          *)
(*                                                                          *)
(* Modal says of which mode the places are, wherever they are kept: those    *)
(* shown are of the page's mode, those cached of the mode they are cached    *)
(* for, those of a main load of the mode it was started in.                  *)
(***************************************************************************)
EXTENDS CatalogLoad, FiniteSetTheorems, TLAPS

Of(places, m) == \A p \in places : p.mode = m

Texts == Queries \cup Categories \cup {NoText, "all"}
Places == [mode : Modes, topic : Texts, view : Views, page : Nat]
Pages == [mode : Modes, query : Queries \cup {NoText}, category : Categories \cup {NoText},
          offset : 0..MaxOffset, token : Nat]
Entries == [catalog : SUBSET Places, offset : 0..MaxOffset, query : Queries \cup {NoText},
            category : Categories \cup {NoText}, view : SUBSET Views]
MainLoads == [mode : Modes, query : Queries \cup {NoText}, category : Categories \cup {NoText},
              offset : 0..MaxOffset, view : Views, epoch : Nat,
              base : SUBSET Places, acc : SUBSET Places, page : Nat,
              arrived : BOOLEAN, grew : BOOLEAN, cancelled : BOOLEAN]
ViewportLoads == [topic : Texts, view : Views, epoch : Nat, page : Nat, final : Nat,
                  accepted : BOOLEAN, cancelled : BOOLEAN]

\* An entry fit to be cached for the mode m, and a cache of such entries.
Fits(e, m) == /\ e \in Entries /\ e.catalog # {} /\ Of(e.catalog, m)
              /\ m = "work" => e.offset = 0
Clean(c) == DOMAIN c \subseteq Modes /\ \A m \in DOMAIN c : Fits(c[m], m)

\* What the page shows.
Shows(u, places) ==
    /\ u \in Pages /\ (u.mode = "work" => u.offset = 0)
    /\ places \in SUBSET Places /\ Of(places, u.mode)

Gathers(l) ==
    /\ l \in MainLoads
    /\ Of(l.base, l.mode) /\ Of(l.acc, l.mode)
    /\ l.mode = "work" => l.offset = 0

Modal ==
    /\ Shows(ui, catalog)
    /\ Clean(cache)
    /\ main # NoLoad => Gathers(main) /\ main.epoch = epoch
    /\ vloads \in SUBSET ViewportLoads
    /\ view \in Views /\ epoch \in Nat
    /\ prevCategory \in Categories \cup {NoText}

-----------------------------------------------------------------------------
\* The operators

LEMMA Constants == MaxOffset \in Nat /\ LastPage \in Nat /\ FirstView \in Views
<1>1. MaxOffset \in Nat /\ LastPage \in Nat
  BY CatalogAssumption
<1>2. FirstView \in Views
  BY CatalogAssumption
<1>. QED BY <1>1, <1>2

LEMMA ZeroOffset == 0 \in 0..MaxOffset
<1>1. MaxOffset \in Nat
  BY Constants
<1>. QED BY <1>1

LEMMA WrittenIsClean ==
    ASSUME NEW c, Clean(c), NEW m \in Modes, NEW e \in Entries, Of(e.catalog, m),
           m = "work" => e.offset = 0
    PROVE  Clean(Written(c, m, e))
<1>1. CASE e.catalog = {}
  BY <1>1 DEF Written
<1>2. CASE e.catalog # {}
  <2>. DEFINE w == Written(c, m, e)
  <2>1. /\ DOMAIN w = {m} \cup DOMAIN c
        /\ w[m] = e
        /\ \A n \in DOMAIN c : n # m => w[n] = c[n]
    BY <1>2 DEF Written
  <2>. HIDE DEF w
  <2>2. Fits(e, m)
    BY <1>2 DEF Fits
  <2>3. DOMAIN w \subseteq Modes /\ \A n \in DOMAIN w : Fits(w[n], n)
    BY <2>1, <2>2 DEF Clean
  <2>. QED BY <2>3 DEF Clean, w
<1>. QED BY <1>1, <1>2

LEMMA ClearedIsClean ==
    ASSUME NEW c, Clean(c), NEW m
    PROVE  Clean(Cleared(c, m))
BY DEF Clean, Cleared

LEMMA EntryIs ==
    ASSUME NEW u, u.offset \in 0..MaxOffset, u.query \in Queries \cup {NoText},
           u.category \in Categories \cup {NoText}, NEW places \in SUBSET Places, NEW shot \in SUBSET Views
    PROVE  /\ Entry(u, places, shot) \in Entries
           /\ Entry(u, places, shot).catalog = places
           /\ Entry(u, places, shot).offset = u.offset
BY DEF Entry, Entries

LEMMA TopicIs ==
    ASSUME NEW u, u.query \in Queries \cup {NoText}, u.category \in Categories \cup {NoText}
    PROVE  Topic(u) \in Texts
BY DEF Topic, Texts

LEMMA PageIs ==
    ASSUME NEW m \in Modes, NEW topic \in Texts, NEW v \in Views, NEW p \in Nat,
           NEW batch \in Batches(PageOf(m, topic, v, p))
    PROVE  batch \in SUBSET Places /\ Of(batch, m)
<1>1. batch \subseteq PageOf(m, topic, v, p)
  BY DEF Batches
<1>2. PageOf(m, topic, v, p) \subseteq Places /\ Of(PageOf(m, topic, v, p), m)
  BY Constants DEF PageOf, Places, Of
<1>. QED BY <1>1, <1>2 DEF Of

\* The effects of a render keep apart what they are given.
LEMMA RenderShows ==
    ASSUME Modal, NEW u, NEW places, Shows(u, places), NEW c, Clean(c), NEW newFilters,
           Render(u, places, c, newFilters)
    PROVE  /\ Shows(ui', catalog') /\ Clean(cache') /\ ui'.mode = u.mode
           /\ main' # NoLoad => Gathers(main') /\ main'.epoch = main.epoch /\ main # NoLoad
           /\ prevCategory' \in Categories \cup {NoText}
<1>. DEFINE recategorised == u.mode = "domain" /\ u.query = NoText /\ u.category # prevCategory
            u2 == IF recategorised THEN [u EXCEPT !.offset = 0] ELSE u
            kept == IF recategorised THEN {} ELSE places
            c2 == IF recategorised THEN Cleared(c, "domain") ELSE c
<1>1. /\ ui' = u2 /\ catalog' = kept
      /\ prevCategory' = IF recategorised THEN u.category ELSE prevCategory
      /\ cache' = IF newFilters /\ ready THEN Written(c2, u2.mode, Entry(u2, kept, Snapshot)) ELSE c2
      /\ main' = IF u2 # ui /\ main # NoLoad THEN [main EXCEPT !.cancelled = TRUE] ELSE main
  BY DEF Render
<1>2. u2 \in Pages /\ u2.mode = u.mode /\ (u2.mode = "work" => u2.offset = 0)
  <2>1. 0 \in 0..MaxOffset
    BY ZeroOffset
  <2>. QED BY <2>1 DEF Shows, Pages
<1>3. kept \in SUBSET Places /\ Of(kept, u.mode)
  BY DEF Shows, Of
<1>4. Clean(c2)
  BY ClearedIsClean
<1>. HIDE DEF u2, kept, c2
<1>5. Shows(ui', catalog')
  BY <1>1, <1>2, <1>3 DEF Shows
<1>6. Clean(cache')
  <2>1. Snapshot \in SUBSET Views
    BY DEF Snapshot, Modal
  <2>2. u2.offset \in 0..MaxOffset /\ u2.query \in Queries \cup {NoText} /\ u2.category \in Categories \cup {NoText}
        /\ u2.mode \in Modes
    BY <1>2 DEF Pages
  <2>. DEFINE e == Entry(u2, kept, Snapshot)
  <2>3. e \in Entries /\ e.catalog = kept /\ e.offset = u2.offset
    BY <1>3, <2>1, <2>2, EntryIs
  <2>. HIDE DEF e
  <2>4. Clean(Written(c2, u2.mode, e))
    BY <1>2, <1>3, <1>4, <2>2, <2>3, WrittenIsClean
  <2>. QED BY <1>1, <1>4, <2>4 DEF e
<1>7. main' # NoLoad => Gathers(main') /\ main'.epoch = main.epoch /\ main # NoLoad
  <2>1. ASSUME main # NoLoad
        PROVE  /\ Gathers([main EXCEPT !.cancelled = TRUE])
               /\ [main EXCEPT !.cancelled = TRUE].epoch = main.epoch
    BY <2>1 DEF Modal, Gathers, MainLoads
  <2>. QED BY <1>1, <2>1 DEF Modal
<1>8. prevCategory' \in Categories \cup {NoText}
  BY <1>1 DEF Modal, Shows, Pages
<1>. QED BY <1>1, <1>2, <1>5, <1>6, <1>7, <1>8

LEMMA RenderedModal ==
    ASSUME Modal, NEW u, NEW places, Shows(u, places), NEW c, Clean(c), NEW newFilters,
           Render(u, places, c, newFilters),
           view' = view, vloads' \in SUBSET ViewportLoads, epoch' \in Nat,
           epoch' = epoch \/ main = NoLoad
    PROVE  Modal'
BY RenderShows DEF Modal

LEMMA RestoredIs ==
    ASSUME NEW u \in Pages, NEW e \in Entries, u.mode = "work" => e.offset = 0
    PROVE  /\ Restored(u, e) \in Pages /\ Restored(u, e).mode = u.mode
           /\ Restored(u, e).mode = "work" => Restored(u, e).offset = 0
BY DEF Restored, Pages, Entries

LEMMA FreshPageIs ==
    ASSUME NEW m \in Modes
    PROVE  FreshPage(m) \in Pages /\ FreshPage(m).mode = m /\ FreshPage(m).offset = 0
<1>1. 0 \in 0..MaxOffset
  BY ZeroOffset
<1>. QED BY <1>1 DEF FreshPage, Pages

-----------------------------------------------------------------------------
\* The steps

LEMMA ModalInit == Init => Modal
<1>. SUFFICES ASSUME Init PROVE Modal
  OBVIOUS
<1>1. ui = FreshPage("work") /\ catalog = {} /\ main = NoLoad /\ vloads = {} /\ view = FirstView
      /\ epoch = 0 /\ prevCategory = NoText /\ cache = << >>
  BY DEF Init
<1>4. DOMAIN cache = {}
  <2>1. DOMAIN << >> = {}
    OBVIOUS
  <2>. QED BY <1>1, <2>1
<1>2. ui \in Pages /\ ui.mode = "work" /\ ui.offset = 0
  BY <1>1, FreshPageIs DEF Modes
<1>3. Shows(ui, catalog) /\ Clean(cache)
  BY <1>1, <1>2, <1>4 DEF Shows, Of, Clean
<1>. QED BY <1>1, <1>3, Constants DEF Modal

LEMMA ModalReload == ASSUME Modal, Reload PROVE Modal'
<1>1. /\ main' = NoLoad /\ vloads' = {} /\ view' = FirstView /\ epoch' = 0 /\ prevCategory' = NoText
      /\ cache' = cache
  BY DEF Reload
<1>2. "work" \in Modes /\ FreshPage("work") \in Pages /\ FreshPage("work").mode = "work"
      /\ FreshPage("work").offset = 0
  BY FreshPageIs DEF Modes
<1>3. Shows(ui', catalog')
  <2>1. CASE Cached("work")
    <3>1. ui' = Restored(FreshPage("work"), cache["work"]) /\ catalog' = cache["work"].catalog
      BY <2>1 DEF Reload
    <3>2. Fits(cache["work"], "work")
      BY <2>1 DEF Cached, Modal, Clean
    <3>3. cache["work"] \in Entries /\ cache["work"].offset = 0
          /\ Of(cache["work"].catalog, "work") /\ cache["work"].catalog \in SUBSET Places
      BY <3>2 DEF Fits, Entries
    <3>4. ui' \in Pages /\ ui'.mode = "work" /\ ui'.offset = 0
      BY <1>2, <3>1, <3>3, RestoredIs
    <3>. QED BY <3>1, <3>3, <3>4 DEF Shows
  <2>2. CASE ~Cached("work")
    BY <1>2, <2>2 DEF Reload, Shows, Of
  <2>. QED BY <2>1, <2>2
<1>. QED BY <1>1, <1>3, Constants DEF Modal

LEMMA ModalChangeMode == ASSUME Modal, ChangeMode PROVE Modal'
<1>. DEFINE target == CHOOSE m \in Modes : m # ui.mode
            c == Written(cache, ui.mode, Entry(ui, catalog, Snapshot))
            opened == [FreshPage(target) EXCEPT !.token = ui.token]
<1>1. /\ IF Cached(target)
         THEN Render(Restored(opened, cache[target]), cache[target].catalog, c, TRUE)
         ELSE Render(opened, {}, c, TRUE)
      /\ UNCHANGED <<view, vloads, epoch>>
  BY DEF ChangeMode, mapVars, loadVars
<1>2. ui \in Pages /\ catalog \in SUBSET Places /\ Of(catalog, ui.mode) /\ ui.mode \in Modes
      /\ (ui.mode = "work" => ui.offset = 0) /\ view \in Views /\ vloads \in SUBSET ViewportLoads /\ epoch \in Nat
  BY DEF Modal, Shows, Pages
<1>3. target \in Modes
  BY DEF Modes
<1>4. opened \in Pages /\ opened.mode = target /\ opened.offset = 0
  BY <1>2, <1>3, FreshPageIs DEF Pages
<1>5. Clean(c)
  <2>1. Snapshot \in SUBSET Views
    BY <1>2 DEF Snapshot
  <2>. DEFINE e == Entry(ui, catalog, Snapshot)
  <2>4. ui.offset \in 0..MaxOffset /\ ui.query \in Queries \cup {NoText} /\ ui.category \in Categories \cup {NoText}
    BY <1>2 DEF Pages
  <2>2. e \in Entries /\ e.catalog = catalog /\ e.offset = ui.offset
    BY <1>2, <2>1, <2>4, EntryIs
  <2>. HIDE DEF e
  <2>3. Clean(Written(cache, ui.mode, e))
    BY <1>2, <2>2, WrittenIsClean DEF Modal
  <2>. QED BY <2>3 DEF e
<1>. HIDE DEF target, c, opened
<1>6. CASE Cached(target)
  <2>1. Fits(cache[target], target)
    BY <1>6 DEF Cached, Modal, Clean
  <2>2. cache[target] \in Entries /\ (target = "work" => cache[target].offset = 0)
        /\ Of(cache[target].catalog, target) /\ cache[target].catalog \in SUBSET Places
    BY <2>1 DEF Fits, Entries
  <2>. DEFINE u == Restored(opened, cache[target])
  <2>3. u \in Pages /\ u.mode = target /\ (u.mode = "work" => u.offset = 0)
    BY <1>4, <2>2, RestoredIs
  <2>. HIDE DEF u
  <2>4. Shows(u, cache[target].catalog)
    BY <2>2, <2>3 DEF Shows
  <2>. QED BY <1>1, <1>2, <1>5, <1>6, <2>4, RenderedModal DEF u
<1>7. CASE ~Cached(target)
  <2>1. Shows(opened, {})
    BY <1>4 DEF Shows, Of
  <2>. QED BY <1>1, <1>2, <1>5, <1>7, <2>1, RenderedModal
<1>. QED BY <1>6, <1>7

\* The user's other actions on the page: something about it changes, not its mode.
LEMMA ModalPage ==
    ASSUME Modal,
           \/ \E q \in Queries \cup {NoText} : TypeQuery(q)
           \/ \E x \in Categories \cup {NoText} : PickFilter(x)
           \/ RefreshHere \/ Retry \/ NeedMore
    PROVE  Modal'
<1>1. /\ ui \in Pages /\ (ui.mode = "work" => ui.offset = 0)
      /\ catalog \in SUBSET Places /\ Of(catalog, ui.mode) /\ Of({}, ui.mode)
      /\ vloads \in SUBSET ViewportLoads /\ epoch \in Nat /\ Clean(cache) /\ Clean(Cleared(cache, ui.mode))
  BY ClearedIsClean DEF Modal, Shows, Of
<1>2. 0 \in 0..MaxOffset
  BY ZeroOffset
<1>3. ASSUME NEW u, NEW places, NEW c, NEW newFilters, Render(u, places, c, newFilters),
             u \in Pages, u.mode = ui.mode, u.mode = "work" => u.offset = 0,
             places \in {{}, catalog}, c \in {cache, Cleared(cache, ui.mode)},
             UNCHANGED <<mapVars, loadVars>>
      PROVE  Modal'
  <2>1. Shows(u, places) /\ Clean(c)
    BY <1>1, <1>3 DEF Shows
  <2>. QED BY <1>1, <1>3, <2>1, RenderedModal DEF mapVars, loadVars
<1>4. ASSUME NEW q \in Queries \cup {NoText}, TypeQuery(q) PROVE Modal'
  <2>1. /\ [ui EXCEPT !.query = q] \in Pages /\ [ui EXCEPT !.query = q].mode = ui.mode
        /\ [ui EXCEPT !.query = q].offset = ui.offset
    BY <1>1 DEF Pages
  <2>. QED BY <1>1, <1>3, <1>4, <2>1 DEF TypeQuery
<1>5. ASSUME NEW x \in Categories \cup {NoText}, PickFilter(x) PROVE Modal'
  <2>1. /\ [ui EXCEPT !.category = x] \in Pages /\ [ui EXCEPT !.category = x].mode = ui.mode
        /\ [ui EXCEPT !.category = x].offset = ui.offset
    BY <1>1 DEF Pages
  <2>. QED BY <1>1, <1>3, <1>5, <2>1 DEF PickFilter
<1>6. ASSUME RefreshHere PROVE Modal'
  <2>. DEFINE u == [ui EXCEPT !.offset = 0, !.token = @ + 1]
  <2>4. ui.token \in Nat
    BY <1>1 DEF Pages
  <2>3. ui.token + 1 \in Nat
    BY <2>4
  <2>1. u \in Pages /\ u.mode = ui.mode /\ u.offset = 0
    BY <1>1, <1>2, <2>3 DEF Pages
  <2>2. Render(u, {}, Cleared(cache, ui.mode), FALSE) /\ UNCHANGED <<mapVars, loadVars>>
    BY <1>6 DEF RefreshHere
  <2>. HIDE DEF u
  <2>. QED BY <1>3, <2>1, <2>2
<1>7. ASSUME Retry PROVE Modal'
  <2>. DEFINE u == [ui EXCEPT !.token = @ + 1]
  <2>4. ui.token \in Nat
    BY <1>1 DEF Pages
  <2>3. ui.token + 1 \in Nat
    BY <2>4
  <2>1. u \in Pages /\ u.mode = ui.mode /\ u.offset = ui.offset
    BY <1>1, <2>3 DEF Pages
  <2>2. Render(u, catalog, Cleared(cache, ui.mode), FALSE) /\ UNCHANGED <<mapVars, loadVars>>
    BY <1>7 DEF Retry
  <2>. HIDE DEF u
  <2>. QED BY <1>1, <1>3, <2>1, <2>2
<1>8. ASSUME NeedMore PROVE Modal'
  <2>. DEFINE u == [ui EXCEPT !.offset = @ + 1]
  <2>1. ui.offset < MaxOffset /\ ui.mode = "domain"
    BY <1>8 DEF NeedMore, MayNeedMore
  <2>5. MaxOffset \in Nat /\ ui.offset \in 0..MaxOffset
    BY <1>1, Constants DEF Pages
  <2>6. ui.offset < MaxOffset
    BY <2>1
  <2>2. ui.offset + 1 \in 0..MaxOffset
    BY <2>5, <2>6
  <2>3. u \in Pages /\ u.mode = "domain"
    BY <1>1, <2>1, <2>2 DEF Pages
  <2>4. Render(u, catalog, cache, FALSE) /\ UNCHANGED <<mapVars, loadVars>>
    BY <1>8 DEF NeedMore
  <2>. HIDE DEF u
  <2>. QED BY <1>3, <2>1, <2>3, <2>4
<1>. QED BY <1>4, <1>5, <1>6, <1>7, <1>8

\* Steps that leave alone what the page shows.
LEMMA ModalFrame ==
    ASSUME Modal, UNCHANGED <<ui, prevCategory, cache, epoch>>,
           view' \in Views, vloads' \in SUBSET ViewportLoads,
           catalog' = catalog \/ catalog' = {},
           main' \in {main, NoLoad}
    PROVE  Modal'
<1>1. Shows(ui', catalog')
  BY DEF Modal, Shows, Of
<1>. QED BY <1>1 DEF Modal

LEMMA ModalMap ==
    ASSUME Modal, (\E v \in Views : Move(v)) \/ MapReady \/ GeoSettles \/ Rebind
    PROVE  Modal'
<1>1. view \in Views /\ vloads \in SUBSET ViewportLoads
  BY DEF Modal
<1>2. UNCHANGED <<ui, prevCategory, cache, catalog, epoch, main>> /\ view' \in Views
  BY <1>1 DEF Move, MapReady, GeoSettles, Rebind, dataVars, mainVars, uiVars, mapVars, loadVars
<1>3. vloads' \in SUBSET ViewportLoads
  <2>1. {[l EXCEPT !.cancelled = TRUE] : l \in vloads} \in SUBSET ViewportLoads
    BY <1>1 DEF ViewportLoads
  <2>2. CASE Rebind
    BY <2>1, <2>2 DEF Rebind
  <2>3. CASE ~Rebind
    BY <1>1, <2>3 DEF Move, MapReady, GeoSettles, loadVars
  <2>. QED BY <2>2, <2>3
<1>. QED BY <1>2, <1>3, ModalFrame

LEMMA ModalMainTimer == ASSUME Modal, MainTimer PROVE Modal'
<1>1. UNCHANGED <<view, vloads, epoch>> /\ view \in Views /\ vloads \in SUBSET ViewportLoads /\ epoch \in Nat
  BY DEF MainTimer, mapVars, loadVars, Modal
<1>2. CASE TimerDoesNothing \/ TimerSkips \/ TimerFindsGateClosed
  <2>1. UNCHANGED <<ui, prevCategory, cache, main>> /\ (catalog' = catalog \/ catalog' = {})
    BY <1>2 DEF TimerDoesNothing, TimerSkips, TimerFindsGateClosed, uiVars, dataVars
  <2>. QED BY <1>1, <2>1, ModalFrame
<1>3. CASE TimerStartsLoad
  <2>1. UNCHANGED <<ui, catalog, cache, prevCategory>> /\ main' = NewMain
    BY <1>3 DEF TimerStartsLoad, dataVars
  <2>2. ui \in Pages /\ (ui.mode = "work" => ui.offset = 0) /\ catalog \in SUBSET Places /\ Of(catalog, ui.mode)
    BY DEF Modal, Shows
  <2>3. FirstPage(ui) \in Nat
    <3>1. ui.offset \in 0..MaxOffset
      BY <2>2 DEF Pages
    <3>2. ui.offset \in Nat
      BY <3>1
    <3>. QED BY <3>2 DEF FirstPage
  <2>4. /\ NewMain \in MainLoads /\ NewMain.epoch = epoch
        /\ NewMain.mode = ui.mode /\ NewMain.offset = ui.offset
        /\ NewMain.base = catalog /\ NewMain.acc = catalog
    BY <1>1, <2>2, <2>3 DEF NewMain, MainLoads, Pages
  <2>5. Gathers(NewMain) /\ NewMain.epoch = epoch
    BY <2>2, <2>4 DEF Gathers
  <2>. QED BY <1>1, <2>1, <2>5 DEF Modal
<1>. QED BY <1>2, <1>3 DEF MainTimer

\* A page that comes is of the mode of the load, and shown only in that mode.
LEMMA ModalMainPage == ASSUME Modal, MainPageArrives PROVE Modal' /\ main' \in MainLoads
<1>1. PICK batch \in Batches(PageOf(main.mode, Topic(main), main.view, main.page)) :
         LET acc == main.acc \cup batch IN
         /\ main' = [main EXCEPT !.acc = acc, !.page = @ + 1, !.arrived = TRUE,
                                 !.grew = IF MainIsCurrent THEN acc # main.base ELSE @]
         /\ catalog' = IF MainIsCurrent THEN acc ELSE catalog
  BY DEF MainPageArrives
<1>2. /\ main # NoLoad
      /\ UNCHANGED <<cache, ui, prevCategory, view, vloads, epoch>>
  BY DEF MainPageArrives, uiVars, mapVars, loadVars
<1>3. main \in MainLoads /\ Of(main.base, main.mode) /\ Of(main.acc, main.mode)
      /\ (main.mode = "work" => main.offset = 0) /\ main.epoch = epoch
  BY <1>2 DEF Modal, Gathers
<1>4. batch \in SUBSET Places /\ Of(batch, main.mode)
  <2>1. /\ main.mode \in Modes /\ main.view \in Views /\ main.page \in Nat
        /\ main.query \in Queries \cup {NoText} /\ main.category \in Categories \cup {NoText}
    BY <1>3 DEF MainLoads
  <2>. QED BY <1>1, <2>1, TopicIs, PageIs
<1>. DEFINE acc == main.acc \cup batch
            grew == IF MainIsCurrent THEN acc # main.base ELSE main.grew
<1>5. acc \in SUBSET Places /\ Of(acc, main.mode)
  BY <1>3, <1>4 DEF MainLoads, Of
<1>6. main.page + 1 \in Nat
  <2>1. main.page \in Nat
    BY <1>3 DEF MainLoads
  <2>. QED BY <2>1
<1>7. grew \in BOOLEAN
  <2>1. main.grew \in BOOLEAN
    BY <1>3 DEF MainLoads
  <2>. QED BY <2>1, Zenon
<1>8. main' = [main EXCEPT !.acc = acc, !.page = main.page + 1, !.arrived = TRUE, !.grew = grew]
      /\ catalog' = IF MainIsCurrent THEN acc ELSE catalog
  BY <1>1
<1>. HIDE DEF acc, grew
<1>9. /\ main' \in MainLoads
      /\ main'.mode = main.mode /\ main'.offset = main.offset /\ main'.epoch = main.epoch
      /\ main'.base = main.base /\ main'.acc = acc
  BY <1>3, <1>5, <1>6, <1>7, <1>8 DEF MainLoads
<1>10. Gathers(main')
  BY <1>3, <1>5, <1>9 DEF Gathers
<1>11. Shows(ui', catalog')
  BY <1>2, <1>5, <1>8 DEF Shows, Modal, MainIsCurrent
<1>. QED BY <1>2, <1>3, <1>9, <1>10, <1>11 DEF Modal

LEMMA ModalWorkPage == ASSUME Modal, WorkPageFails PROVE Modal' /\ main' \in MainLoads
<1>1. /\ main # NoLoad /\ main' = [main EXCEPT !.page = @ + 1]
      /\ UNCHANGED <<catalog, cache, ui, prevCategory, view, vloads, epoch>>
  BY DEF WorkPageFails, dataVars, uiVars, mapVars, loadVars
<1>2. main \in MainLoads /\ Gathers(main) /\ main.epoch = epoch
  BY <1>1 DEF Modal, Gathers
<1>3. main.page + 1 \in Nat
  <2>1. main.page \in Nat
    BY <1>2 DEF MainLoads
  <2>. QED BY <2>1
<1>4. /\ main' \in MainLoads
      /\ main'.mode = main.mode /\ main'.offset = main.offset /\ main'.epoch = main.epoch
      /\ main'.base = main.base /\ main'.acc = main.acc
  BY <1>1, <1>2, <1>3 DEF MainLoads
<1>5. Gathers(main')
  BY <1>2, <1>4 DEF Gathers
<1>. QED BY <1>1, <1>2, <1>4, <1>5 DEF Modal

\* What a main load returns is shown and cached for its own mode.
LEMMA ModalMainEnds ==
    ASSUME Modal, MainFails \/ (\E exhausted \in BOOLEAN : MainEnds(exhausted))
    PROVE  Modal'
<1>1. main' = NoLoad /\ UNCHANGED <<ui, prevCategory, view, vloads, epoch>> /\ main # NoLoad
  BY DEF MainFails, MainEnds, Finally, mapVars, loadVars
<1>2. view \in Views /\ vloads \in SUBSET ViewportLoads
  BY DEF Modal
<1>3. CASE UNCHANGED <<catalog, cache>>
  BY <1>1, <1>2, <1>3, ModalFrame
<1>4. ASSUME NEW exhausted, EndsShown(exhausted) PROVE Modal'
  <2>. DEFINE e0 == Entry(main, main.acc, {main.view})
              e == [e0 EXCEPT !.category = ui.category]
  <2>1. MainIsCurrent /\ catalog' = main.acc /\ cache' = Written(cache, main.mode, e)
    BY <1>4 DEF EndsShown
  <2>2. main \in MainLoads /\ Of(main.acc, main.mode) /\ (main.mode = "work" => main.offset = 0)
        /\ main.mode = ui.mode
    BY <1>1, <2>1 DEF Modal, Gathers, MainIsCurrent
  <2>3. /\ main.mode \in Modes /\ main.acc \in SUBSET Places /\ {main.view} \in SUBSET Views
        /\ main.offset \in 0..MaxOffset /\ main.query \in Queries \cup {NoText}
        /\ main.category \in Categories \cup {NoText}
    BY <2>2 DEF MainLoads
  <2>4. ui.category \in Categories \cup {NoText} /\ ui \in Pages /\ (ui.mode = "work" => ui.offset = 0)
    BY DEF Modal, Shows, Pages
  <2>5. e0 \in Entries /\ e0.catalog = main.acc /\ e0.offset = main.offset
    BY <2>3, EntryIs
  <2>. HIDE DEF e0
  <2>6. e \in Entries /\ e.catalog = main.acc /\ e.offset = main.offset
    BY <2>4, <2>5 DEF Entries
  <2>. HIDE DEF e
  <2>7. Clean(cache')
    BY <2>1, <2>2, <2>3, <2>6, WrittenIsClean DEF Modal
  <2>8. Shows(ui', catalog')
    BY <1>1, <2>1, <2>2, <2>3, <2>4 DEF Shows
  <2>. QED BY <1>1, <2>7, <2>8 DEF Modal
<1>. QED BY <1>3, <1>4
     DEF MainFails, MainEnds, EndsUnavailable, EndsVacant, EndsDropped, dataVars

LEMMA ModalLoader ==
    ASSUME Modal, ViewportDelayPasses \/ ViewportTimer \/ ViewportLoadReturns
    PROVE  Modal'
<1>1. UNCHANGED <<ui, prevCategory, cache, catalog, epoch, main, view, vloads>>
  BY DEF ViewportDelayPasses, ViewportTimer, ViewportLoadReturns, dataVars, mainVars, uiVars, mapVars, loadVars
<1>. QED BY <1>1, ModalFrame DEF Modal

LEMMA ModalViewportBegins == ASSUME Modal, ViewportLoadBegins PROVE Modal'
<1>. DEFINE u == [ui EXCEPT !.offset = 0]
            l == [topic |-> Topic(ui), view |-> view, epoch |-> epoch + 1, page |-> 0,
                  final |-> IF ui.query # NoText THEN 0 ELSE LastPage,
                  accepted |-> FALSE, cancelled |-> FALSE]
<1>1. /\ ui \in Pages /\ catalog \in SUBSET Places /\ Of(catalog, ui.mode)
      /\ view \in Views /\ vloads \in SUBSET ViewportLoads /\ Clean(cache)
  BY DEF Modal, Shows
<1>2. /\ main = NoLoad /\ view' = view /\ epoch' = epoch + 1 /\ vloads' = vloads \cup {l}
      /\ Render(u, catalog, cache, FALSE)
  BY DEF ViewportLoadBegins, MustWait, mapVars
<1>3. epoch + 1 \in Nat
  <2>1. epoch \in Nat
    BY DEF Modal
  <2>. QED BY <2>1
<1>4. Topic(ui) \in Texts
  BY <1>1, TopicIs DEF Pages
<1>5. l \in ViewportLoads
  <2>1. 0 \in Nat /\ LastPage \in Nat
    BY Constants
  <2>. QED BY <1>1, <1>3, <1>4, <2>1 DEF ViewportLoads
<1>6. Shows(u, catalog)
  <2>1. u \in Pages /\ u.mode = ui.mode /\ u.offset = 0
    BY <1>1, ZeroOffset DEF Pages
  <2>. HIDE DEF u
  <2>. QED BY <1>1, <2>1 DEF Shows
<1>. HIDE DEF u, l
<1>. QED BY <1>1, <1>2, <1>3, <1>5, <1>6, RenderedModal

LEMMA ModalViewportPage ==
    ASSUME Modal, NEW l \in vloads, ViewportPageArrives(l)
    PROVE  Modal'
<1>1. PICK batch \in Batches(PageOf("domain", l.topic, l.view, l.page)) :
         LET taken == IsCurrent(l) /\ batch # {} IN
         /\ catalog' = IF taken THEN catalog \cup batch ELSE catalog
         /\ vloads' = (vloads \ {l}) \cup {[l EXCEPT !.page = @ + 1, !.accepted = @ \/ taken]}
  BY DEF ViewportPageArrives
<1>2. UNCHANGED <<cache, ui, prevCategory, view, main, epoch>>
  BY DEF ViewportPageArrives, mainVars, uiVars, mapVars
<1>3. l \in ViewportLoads /\ vloads \in SUBSET ViewportLoads
  BY DEF Modal
<1>. DEFINE taken == IsCurrent(l) /\ batch # {}
            accepted == l.accepted \/ taken
<1>4. accepted \in BOOLEAN
  <2>1. l.accepted \in BOOLEAN
    BY <1>3 DEF ViewportLoads
  <2>. QED BY <2>1, Zenon
<1>5. l.page + 1 \in Nat
  <2>1. l.page \in Nat
    BY <1>3 DEF ViewportLoads
  <2>. QED BY <2>1
<1>6. /\ vloads' = (vloads \ {l}) \cup {[l EXCEPT !.page = l.page + 1, !.accepted = accepted]}
      /\ catalog' = IF taken THEN catalog \cup batch ELSE catalog
  BY <1>1
<1>7. [l EXCEPT !.page = l.page + 1, !.accepted = accepted] \in ViewportLoads
  <2>. HIDE DEF accepted
  <2>. QED BY <1>3, <1>4, <1>5 DEF ViewportLoads
<1>8. vloads' \in SUBSET ViewportLoads
  BY <1>3, <1>6, <1>7
<1>9. batch \in SUBSET Places /\ Of(batch, "domain")
  <2>1. l.topic \in Texts /\ l.view \in Views /\ l.page \in Nat /\ "domain" \in Modes
    BY <1>3 DEF ViewportLoads, Modes
  <2>. QED BY <1>1, <2>1, PageIs
<1>10. Shows(ui', catalog')
  <2>1. taken => ui.mode = "domain"
    BY DEF IsCurrent
  <2>. HIDE DEF taken
  <2>. QED BY <1>2, <1>6, <1>9, <2>1 DEF Modal, Shows, Of
<1>. QED BY <1>2, <1>8, <1>10 DEF Modal

LEMMA ModalViewportEnds ==
    ASSUME Modal, NEW l \in vloads,
           ViewportFails(l) \/ (\E cacheable \in BOOLEAN, exhausted \in {{}, {TRUE}, {FALSE}} :
                                   ViewportEnds(l, cacheable, exhausted))
    PROVE  Modal'
<1>1. /\ UNCHANGED <<ui, prevCategory, view, main, epoch, catalog>> /\ vloads' = vloads \ {l}
      /\ view \in Views /\ vloads \in SUBSET ViewportLoads
  BY DEF ViewportFails, ViewportEnds, LoaderHears, mainVars, uiVars, mapVars, Modal
<1>2. CASE cache' = cache
  BY <1>1, <1>2, ModalFrame
<1>3. CASE IsCurrent(l) /\ cache' = Written(cache, "domain", [Entry(ui, catalog, {l.view}) EXCEPT !.offset = 0])
  <2>. DEFINE e0 == Entry(ui, catalog, {l.view})
              e == [e0 EXCEPT !.offset = 0]
  <2>1. /\ ui \in Pages /\ catalog \in SUBSET Places /\ Of(catalog, "domain")
        /\ "domain" \in Modes
    BY <1>3 DEF Modal, Shows, IsCurrent, Modes
  <2>2. {l.view} \in SUBSET Views
    BY <1>1 DEF ViewportLoads
  <2>3. ui.offset \in 0..MaxOffset /\ ui.query \in Queries \cup {NoText}
        /\ ui.category \in Categories \cup {NoText}
    BY <2>1 DEF Pages
  <2>4. e0 \in Entries /\ e0.catalog = catalog
    BY <2>1, <2>2, <2>3, EntryIs
  <2>. HIDE DEF e0
  <2>5. e \in Entries /\ e.catalog = catalog
    BY <2>4, ZeroOffset DEF Entries
  <2>6. cache' = Written(cache, "domain", e)
    BY <1>3 DEF e0
  <2>. HIDE DEF e
  <2>7. Clean(cache')
    BY <2>1, <2>5, <2>6, WrittenIsClean DEF Modal
  <2>. QED BY <1>1, <2>7 DEF Modal
<1>. QED BY <1>2, <1>3 DEF ViewportFails, ViewportEnds

LEMMA ModalStep == Modal /\ [Next]_vars => Modal'
<1>. SUFFICES ASSUME Modal, [Next]_vars PROVE Modal'
  OBVIOUS
<1>1. CASE UNCHANGED vars
  <2>1. UNCHANGED <<ui, prevCategory, cache, catalog, epoch, main, view, vloads>>
    BY <1>1 DEF vars, dataVars, mainVars, uiVars, mapVars, loadVars
  <2>. QED BY <2>1, ModalFrame DEF Modal
<1>2. CASE Microtask
  BY <1>2, ModalLoader, ModalViewportBegins DEF Microtask
<1>3. CASE UserActs
  BY <1>3, ModalReload, ModalChangeMode, ModalPage, ModalMap DEF UserActs
<1>4. CASE MainSettles
  BY <1>4, ModalMainPage, ModalWorkPage, ModalMainEnds DEF MainSettles
<1>5. CASE ViewportSettles
  BY <1>5, ModalViewportPage, ModalViewportEnds DEF ViewportSettles
<1>. QED BY <1>1, <1>2, <1>3, <1>4, <1>5, ModalMap, ModalMainTimer, ModalLoader DEF Next, Task

\* For any searches, views and pages, and however many loads are in flight when
\* the mode changes: no place of one mode is ever shown or cached in the other
\* (handleModeChange, the checks of onBatch and of the end of load() in
\* map-shell.tsx and use-work-viewport.ts, readModeCache).
THEOREM ModesNeverMix == Spec => []NoMixing
<1>1. Modal => NoMixing
  BY DEF Modal, NoMixing, Shows, Of, Clean, Fits
<1>. QED BY <1>1, ModalInit, ModalStep, PTL DEF Spec

\* No viewport load begins while a main load runs, so the epoch that a main load
\* took at its start is the present one until it ends: the check of the epoch in
\* load() of map-shell.tsx never drops a result.
THEOREM MainLoadsAreUndisturbed == Spec => []MainLoadUndisturbed
<1>1. Modal => MainLoadUndisturbed
  BY DEF Modal, MainLoadUndisturbed
<1>. QED BY <1>1, ModalInit, ModalStep, PTL DEF Spec

\* No page offset of domain mode reaches work mode, by paging or through the cache.
THEOREM WorkLoadsFromItsStart == Spec => []WorkStartsAtFirstPage
<1>1. Modal => WorkStartsAtFirstPage
  BY DEF Modal, WorkStartsAtFirstPage, Shows, Clean, Fits
<1>. QED BY <1>1, ModalInit, ModalStep, PTL DEF Spec

-----------------------------------------------------------------------------
\* skipFetch and the timer it is for

LEMMA RenderDue ==
    ASSUME NEW u, NEW places, NEW c, NEW newFilters, Render(u, places, c, newFilters)
    PROVE  /\ due \/ ui' # ui => due'
           /\ ui' = u \/ ui' = [u EXCEPT !.offset = 0]
<1>1. due' = (due \/ ui' # ui)
  BY DEF Render
<1>2. due \/ ui' # ui => due'
  BY <1>1, Zenon
<1>3. ui' = u \/ ui' = [u EXCEPT !.offset = 0]
  BY DEF Render
<1>. QED BY <1>2, <1>3

\* Steps that keep the timer and arm nothing.
LEMMA SkipFrame ==
    ASSUME SkipFetchIsDue, skipFetch' => skipFetch, ready' => ready, due => due'
    PROVE  SkipFetchIsDue'
BY DEF SkipFetchIsDue

LEMMA SkipStep == Modal /\ SkipFetchIsDue /\ [Next]_vars => SkipFetchIsDue'
<1>. SUFFICES ASSUME Modal, SkipFetchIsDue, [Next]_vars PROVE SkipFetchIsDue'
  OBVIOUS
<1>1. ASSUME Reload PROVE SkipFetchIsDue'
  <2>1. ready' = FALSE
    BY <1>1 DEF Reload
  <2>. QED BY <2>1 DEF SkipFetchIsDue
<1>2. ASSUME ChangeMode PROVE SkipFetchIsDue'
  <2>. DEFINE target == CHOOSE m \in Modes : m # ui.mode
              c == Written(cache, ui.mode, Entry(ui, catalog, Snapshot))
              opened == [FreshPage(target) EXCEPT !.token = ui.token]
  <2>1. \/ Render(Restored(opened, cache[target]), cache[target].catalog, c, TRUE)
        \/ Render(opened, {}, c, TRUE)
    BY <1>2 DEF ChangeMode
  <2>2. target # ui.mode
    BY DEF Modes
  <2>. HIDE DEF target
  <2>3. /\ opened.mode = target /\ [opened EXCEPT !.offset = 0].mode = target
        /\ Restored(opened, cache[target]).mode = target
        /\ [Restored(opened, cache[target]) EXCEPT !.offset = 0].mode = target
    BY DEF FreshPage, Restored
  <2>. HIDE DEF c, opened
  <2>4. ui'.mode = target /\ (ui' # ui => due')
    BY <2>1, <2>3, RenderDue
  <2>5. due'
    BY <2>2, <2>4
  <2>. QED BY <2>5 DEF SkipFetchIsDue
<1>3. ASSUME NEW u, NEW places, NEW c, NEW newFilters, Render(u, places, c, newFilters),
             UNCHANGED <<skipFetch, ready>>
      PROVE  SkipFetchIsDue'
  <2>1. due => due'
    BY <1>3, RenderDue
  <2>. QED BY <1>3, <2>1, SkipFrame
<1>4. ASSUME NEW q, TypeQuery(q) PROVE SkipFetchIsDue'
  BY <1>3, <1>4 DEF TypeQuery, mapVars
<1>5. ASSUME NEW x, PickFilter(x) PROVE SkipFetchIsDue'
  BY <1>3, <1>5 DEF PickFilter, mapVars
<1>6. ASSUME RefreshHere PROVE SkipFetchIsDue'
  BY <1>3, <1>6 DEF RefreshHere, mapVars
<1>7. ASSUME Retry PROVE SkipFetchIsDue'
  BY <1>3, <1>7 DEF Retry, mapVars
<1>8. ASSUME NeedMore PROVE SkipFetchIsDue'
  BY <1>3, <1>8 DEF NeedMore, mapVars
<1>9. ASSUME (\E v \in Views : Move(v)) \/ Rebind \/ GeoSettles PROVE SkipFetchIsDue'
  <2>1. UNCHANGED <<skipFetch, due, ready>>
    BY <1>9 DEF Move, Rebind, GeoSettles, mainVars, mapVars
  <2>. QED BY <2>1, SkipFrame
<1>10. ASSUME MapReady PROVE SkipFetchIsDue'
  <2>1. due' = TRUE
    BY <1>10 DEF MapReady
  <2>. QED BY <2>1 DEF SkipFetchIsDue
<1>11. ASSUME MainTimer PROVE SkipFetchIsDue'
  <2>1. ready' = ready
    BY <1>11 DEF MainTimer, mapVars
  <2>2. ready => ~skipFetch'
    <3>1. CASE ready /\ skipFetch
      BY <1>11, <3>1 DEF MainTimer, TimerSkips
    <3>2. CASE ready /\ ~skipFetch
      <4>1. skipFetch' = skipFetch
        BY <1>11, <3>2
           DEF MainTimer, TimerDoesNothing, TimerFindsGateClosed, TimerStartsLoad
      <4>. QED BY <3>2, <4>1
    <3>. QED BY <3>1, <3>2
  <2>. QED BY <2>1, <2>2 DEF SkipFetchIsDue
<1>12. ASSUME MainSettles PROVE SkipFetchIsDue'
  <2>1. UNCHANGED <<skipFetch, due, ready>>
    BY <1>12 DEF MainSettles, MainPageArrives, WorkPageFails, MainFails, MainEnds, mapVars
  <2>. QED BY <2>1, SkipFrame
<1>13. ASSUME ViewportDelayPasses \/ ViewportTimer \/ ViewportLoadReturns PROVE SkipFetchIsDue'
  <2>1. UNCHANGED <<skipFetch, due, ready>>
    BY <1>13 DEF ViewportDelayPasses, ViewportTimer, ViewportLoadReturns, mainVars, mapVars
  <2>. QED BY <2>1, SkipFrame
<1>14. ASSUME ViewportLoadBegins PROVE SkipFetchIsDue'
  <2>1. /\ skipFetch' = (skipFetch \/ Arms) /\ ready' = ready
        /\ Render([ui EXCEPT !.offset = 0], catalog, cache, FALSE)
    BY <1>14 DEF ViewportLoadBegins, mapVars
  <2>2. due => due'
    BY <2>1, RenderDue
  <2>3. Arms => due'
    <3>1. ui \in Pages
      BY DEF Modal, Shows
    <3>2. [ui EXCEPT !.offset = 0].offset = 0
          /\ [[ui EXCEPT !.offset = 0] EXCEPT !.offset = 0].offset = 0
      BY <3>1 DEF Pages
    <3>3. ui'.offset = 0
      BY <2>1, <3>2, RenderDue
    <3>. QED BY <2>1, <3>3, RenderDue DEF Arms
  <2>4. skipFetch' => skipFetch \/ Arms
    BY <2>1, Zenon
  <2>. QED BY <2>1, <2>2, <2>3, <2>4 DEF SkipFetchIsDue
<1>15. ASSUME ViewportSettles PROVE SkipFetchIsDue'
  <2>1. UNCHANGED <<skipFetch, due, ready>>
    BY <1>15 DEF ViewportSettles, ViewportPageArrives, ViewportFails, ViewportEnds, LoaderHears, mainVars, mapVars
  <2>. QED BY <2>1, SkipFrame
<1>16. CASE UNCHANGED vars
  <2>1. UNCHANGED <<skipFetch, due, ready>>
    BY <1>16 DEF vars, mainVars, mapVars
  <2>. QED BY <2>1, SkipFrame
<1>. QED BY <1>1, <1>2, <1>4, <1>5, <1>6, <1>7, <1>8, <1>9, <1>10, <1>11, <1>12, <1>13, <1>14, <1>15, <1>16
     DEF Next, Microtask, Task, UserActs

\* For any searches and views: skipFetch is never set without a timer of the main
\* effect that will take it back, unless the map is still to come, whose effect
\* starts one; so it cannot swallow a later load (handleModeChange,
\* useModeCacheRestore and the viewport loads set it, load() clears it).
THEOREM SkipFetchIsAlwaysDue == Spec => []SkipFetchIsDue
<1>1. Init => SkipFetchIsDue
  BY DEF Init, SkipFetchIsDue
<1>. QED BY <1>1, ModalInit, ModalStep, SkipStep, PTL DEF Spec

-----------------------------------------------------------------------------
\* The loader of this view and its load

Own == {l \in vloads : ~l.cancelled}

OwnInv ==
    /\ \A l, k \in vloads : ~l.cancelled /\ ~k.cancelled => l = k
    /\ inFlight <=> starting \/ \E l \in vloads : ~l.cancelled
    /\ starting => ~pending /\ \A l \in vloads : l.cancelled
    /\ ~ready => disposed /\ ~inFlight

\* What the loader does: an event waits, a timer or the end of a load begins one.
LEMMA Scheduled ==
    ASSUME NEW wanted, ScheduleIf(wanted)
    PROVE  UNCHANGED <<inFlight, disposed>>
BY DEF ScheduleIf, L!Schedule, loaderVars

LEMMA Fired ==
    ASSUME L!TimerFires
    PROVE  /\ inFlight' <=> inFlight \/ (~disposed /\ pending)
           /\ ~inFlight /\ inFlight' => ~pending'
           /\ disposed' = disposed
<1>1. L!RunPending(inFlight) /\ disposed' = disposed
  BY DEF L!TimerFires
<1>2. inFlight' <=> inFlight \/ (~disposed /\ pending)
  BY <1>1, Zenon DEF L!RunPending
<1>3. ~inFlight /\ inFlight' => ~pending'
  BY <1>1, Zenon DEF L!RunPending
<1>. QED BY <1>1, <1>2, <1>3

LEMMA Heard ==
    ASSUME L!LoadEnds
    PROVE  /\ inFlight' <=> ~disposed /\ pending
           /\ inFlight' => ~pending'
           /\ disposed' = disposed /\ inFlight
<1>1. L!RunPending(FALSE) /\ disposed' = disposed /\ inFlight
  BY DEF L!LoadEnds
<1>2. inFlight' <=> ~disposed /\ pending
  BY <1>1, Zenon DEF L!RunPending
<1>3. inFlight' => ~pending'
  BY <1>1, Zenon DEF L!RunPending
<1>. QED BY <1>1, <1>2, <1>3

\* Steps between loads.
LEMMA OwnFrame ==
    ASSUME OwnInv, UNCHANGED <<vloads, inFlight, starting, ready, disposed>>,
           ~starting \/ pending' = pending
    PROVE  OwnInv'
BY DEF OwnInv

LEMMA OwnStep == OwnInv /\ Modal /\ [Next]_vars => OwnInv'
<1>. SUFFICES ASSUME OwnInv, Modal, [Next]_vars PROVE OwnInv'
  OBVIOUS
<1>1. CASE UNCHANGED vars
  BY <1>1, OwnFrame DEF vars, loadVars, mapVars, loaderVars
<1>2. ASSUME starting, ViewportLoadReturns PROVE OwnInv'
  <2>1. ~pending /\ (\A l \in vloads : l.cancelled) /\ (~ready => disposed)
    BY <1>2 DEF OwnInv
  <2>2. L!LoadEnds /\ starting' = FALSE /\ UNCHANGED <<vloads, ready>>
    BY <1>2 DEF ViewportLoadReturns, mapVars
  <2>3. ~inFlight' /\ disposed' = disposed
    BY <2>1, <2>2, Heard
  <2>. QED BY <2>1, <2>2, <2>3 DEF OwnInv
<1>3. ASSUME starting, ViewportLoadBegins PROVE OwnInv'
  <2>. DEFINE l == [topic |-> Topic(ui), view |-> view, epoch |-> epoch + 1, page |-> 0,
                    final |-> IF ui.query # NoText THEN 0 ELSE LastPage,
                    accepted |-> FALSE, cancelled |-> FALSE]
  <2>1. /\ vloads' = vloads \cup {l} /\ starting' = FALSE
        /\ UNCHANGED <<ready, inFlight, disposed>>
    BY <1>3 DEF ViewportLoadBegins, mapVars, loaderVars
  <2>2. ~l.cancelled
    OBVIOUS
  <2>. HIDE DEF l
  <2>. QED BY <1>3, <2>1, <2>2 DEF OwnInv
<1>4. ASSUME Reload PROVE OwnInv'
  <2>1. starting' = FALSE /\ vloads' = {} /\ inFlight' = FALSE /\ disposed' = TRUE
    BY <1>4 DEF Reload
  <2>. QED BY <2>1 DEF OwnInv
<1>5. ASSUME ~starting, UNCHANGED <<vloads, starting, ready>>,
             (\E wanted : ScheduleIf(wanted)) \/ UNCHANGED loaderVars
      PROVE  OwnInv'
  <2>1. UNCHANGED <<inFlight, disposed>>
    BY <1>5, Scheduled DEF loaderVars
  <2>. QED BY <1>5, <2>1, OwnFrame
<1>6. ASSUME ~starting, ChangeMode \/ RefreshHere \/ Retry \/ NeedMore
                        \/ (\E q : TypeQuery(q)) \/ (\E x : PickFilter(x))
      PROVE  OwnInv'
  <2>1. UNCHANGED <<vloads, starting, ready>> /\ ((\E wanted : ScheduleIf(wanted)) \/ UNCHANGED loaderVars)
    BY <1>6 DEF ChangeMode, RefreshHere, Retry, NeedMore, TypeQuery, PickFilter, loadVars, mapVars
  <2>. QED BY <1>5, <1>6, <2>1
<1>7. ASSUME ~starting, (\E v \in Views : Move(v)) \/ GeoSettles PROVE OwnInv'
  <2>1. UNCHANGED <<vloads, starting, ready>>
    BY <1>7 DEF Move, GeoSettles, loadVars
  <2>2. (\E v \in Views : Move(v)) => L!Schedule
    BY DEF Move
  <2>3. L!Schedule => ScheduleIf(TRUE)
    BY DEF ScheduleIf
  <2>4. GeoSettles => \E wanted : ScheduleIf(wanted)
    BY DEF GeoSettles
  <2>. QED BY <1>5, <1>7, <2>1, <2>2, <2>3, <2>4
<1>8. ASSUME ~starting, MapReady PROVE OwnInv'
  <2>1. ~ready /\ UNCHANGED <<vloads, starting>> /\ inFlight' = FALSE /\ ready' = TRUE
    BY <1>8 DEF MapReady, FreshLoader, loadVars
  <2>2. \A l \in vloads : l.cancelled
    BY <2>1 DEF OwnInv
  <2>. QED BY <1>8, <2>1, <2>2 DEF OwnInv
<1>9. ASSUME ~starting, Rebind PROVE OwnInv'
  <2>1. /\ vloads' = {[l EXCEPT !.cancelled = TRUE] : l \in vloads}
        /\ ready' = ready /\ ready /\ starting' = starting /\ inFlight' = FALSE
    BY <1>9 DEF Rebind, FreshLoader, mapVars
  <2>2. \A l \in vloads : [l EXCEPT !.cancelled = TRUE].cancelled
    BY DEF Modal, ViewportLoads
  <2>. QED BY <1>9, <2>1, <2>2 DEF OwnInv
<1>10. ASSUME ~starting, MainTimer PROVE OwnInv'
  <2>1. UNCHANGED <<vloads, starting, ready>>
    BY <1>10 DEF MainTimer, loadVars, mapVars
  <2>2. (\E wanted : ScheduleIf(wanted)) \/ UNCHANGED loaderVars
    BY <1>10 DEF MainTimer, TimerDoesNothing, TimerSkips, TimerFindsGateClosed, TimerStartsLoad
  <2>. QED BY <1>5, <1>10, <2>1, <2>2
<1>11. ASSUME ~starting, MainSettles PROVE OwnInv'
  <2>1. UNCHANGED <<vloads, starting, ready>>
    BY <1>11 DEF MainSettles, MainPageArrives, WorkPageFails, MainFails, MainEnds, loadVars, mapVars
  <2>2. (\E wanted : ScheduleIf(wanted)) \/ UNCHANGED loaderVars
    BY <1>11 DEF MainSettles, MainPageArrives, WorkPageFails, MainFails, MainEnds, Finally
  <2>. QED BY <1>5, <1>11, <2>1, <2>2
<1>12. ASSUME ~starting, ViewportDelayPasses PROVE OwnInv'
  <2>1. UNCHANGED <<vloads, starting, ready, inFlight, disposed>>
    BY <1>12 DEF ViewportDelayPasses, L!DelayPasses, loadVars, mapVars
  <2>. QED BY <1>12, <2>1, OwnFrame
<1>13. ASSUME ~starting, ViewportTimer PROVE OwnInv'
  <2>1. L!TimerFires /\ UNCHANGED <<vloads, ready>> /\ starting' = (inFlight' /\ ~inFlight)
    BY <1>13 DEF ViewportTimer, mapVars
  <2>2. starting' <=> inFlight' /\ ~inFlight
    BY <2>1, Zenon
  <2>3. /\ inFlight' <=> inFlight \/ (~disposed /\ pending)
        /\ ~inFlight /\ inFlight' => ~pending'
        /\ disposed' = disposed
    BY <2>1, Fired
  <2>. QED BY <1>13, <2>1, <2>2, <2>3 DEF OwnInv
<1>14. ASSUME ~starting, NEW l \in vloads, ViewportPageArrives(l) PROVE OwnInv'
  <2>1. /\ \E n : vloads' = (vloads \ {l}) \cup {n} /\ (n.cancelled <=> l.cancelled)
        /\ UNCHANGED <<starting, ready, inFlight, disposed, pending>>
    <3>1. PICK batch \in Batches(PageOf("domain", l.topic, l.view, l.page)) :
            LET taken == IsCurrent(l) /\ batch # {} IN
            vloads' = (vloads \ {l}) \cup {[l EXCEPT !.page = @ + 1, !.accepted = @ \/ taken]}
      BY <1>14 DEF ViewportPageArrives
    <3>. DEFINE n == [l EXCEPT !.page = @ + 1, !.accepted = @ \/ (IsCurrent(l) /\ batch # {})]
    <3>2. n.cancelled = l.cancelled
      BY DEF Modal, ViewportLoads
    <3>3. vloads' = (vloads \ {l}) \cup {n}
      BY <3>1
    <3>4. UNCHANGED <<starting, ready, inFlight, disposed, pending>>
      BY <1>14 DEF ViewportPageArrives, loaderVars, mapVars
    <3>. HIDE DEF n
    <3>. QED BY <3>2, <3>3, <3>4
  <2>2. PICK n : vloads' = (vloads \ {l}) \cup {n} /\ (n.cancelled <=> l.cancelled)
    BY <2>1
  <2>. QED BY <1>14, <2>1, <2>2 DEF OwnInv
<1>15. ASSUME ~starting, NEW l \in vloads,
              ViewportFails(l) \/ (\E cacheable, exhausted : ViewportEnds(l, cacheable, exhausted))
       PROVE  OwnInv'
  <2>1. LoaderHears(l)
    BY <1>15 DEF ViewportFails, ViewportEnds
  <2>2. /\ vloads' = vloads \ {l} /\ ready' = ready
        /\ starting' = (~l.cancelled /\ inFlight')
    BY <2>1 DEF LoaderHears, mapVars
  <2>3. starting' <=> ~l.cancelled /\ inFlight'
    BY <2>2, Zenon
  <2>4. CASE l.cancelled
    <3>1. UNCHANGED <<inFlight, disposed, pending>>
      BY <2>1, <2>4 DEF LoaderHears, loaderVars
    <3>. QED BY <1>15, <2>2, <2>3, <2>4, <3>1 DEF OwnInv
  <2>5. CASE ~l.cancelled
    <3>1. L!LoadEnds
      BY <2>1, <2>5 DEF LoaderHears
    <3>2. /\ inFlight' <=> ~disposed /\ pending
          /\ inFlight' => ~pending'
          /\ disposed' = disposed
      BY <3>1, Heard
    <3>. QED BY <1>15, <2>2, <2>3, <2>5, <3>2 DEF OwnInv
  <2>. QED BY <2>4, <2>5
<1>. QED BY <1>1, <1>2, <1>3, <1>4, <1>6, <1>7, <1>8, <1>9, <1>10, <1>11, <1>12, <1>13, <1>14, <1>15
     DEF Next, Microtask, Task, UserActs, ViewportSettles

\* For any number of moves, reloads and engine switches: at most one viewport
\* load belongs to the present loader, and the loader counts as busy exactly while
\* that one starts or runs; the loads of loaders before it are cancelled, so none
\* of their ends is taken for its own (createViewportLoader, composed with the
\* microtask in which use-work-viewport.ts begins a load).
THEOREM LoaderHasOneLoad == Spec => []OneOwnLoad
<1>1. Init => OwnInv
  BY DEF Init, OwnInv, L!InitLoader
<1>2. OwnInv => OneOwnLoad
  <2>. SUFFICES ASSUME OwnInv PROVE OneOwnLoad
    OBVIOUS
  <2>1. Cardinality(Own) <= 1
    <3>1. CASE Own = {}
      <4>1. Cardinality({}) = 0
        BY FS_EmptySet
      <4>. QED BY <3>1, <4>1
    <3>2. CASE Own # {}
      <4>1. PICK l : Own = {l}
        BY <3>2 DEF Own, OwnInv
      <4>2. Cardinality({l}) = 1
        BY FS_Singleton
      <4>. QED BY <4>1, <4>2
    <3>. QED BY <3>1, <3>2
  <2>2. inFlight <=> starting \/ Own # {}
    BY DEF OwnInv, Own
  <2>. QED BY <2>1, <2>2 DEF OneOwnLoad, Own
<1>. QED BY <1>1, <1>2, ModalInit, ModalStep, OwnStep, PTL DEF Spec

-----------------------------------------------------------------------------
\* A viewport refresh put off by a main load

\* NoLoad is null: it is no load.
NoLoadIsNone == NoLoad \notin MainLoads

LEMMA RenderKeepsLoad ==
    ASSUME NoLoadIsNone, Modal, NEW u, NEW places, NEW c, NEW newFilters,
           Render(u, places, c, newFilters), main # NoLoad
    PROVE  main' # NoLoad
<1>1. main' = [main EXCEPT !.cancelled = TRUE] \/ main' = main
  BY DEF Render
<1>2. [main EXCEPT !.cancelled = TRUE] \in MainLoads
  BY DEF Modal, Gathers, MainLoads
<1>. QED BY <1>1, <1>2 DEF NoLoadIsNone

LEMMA HeldFrame ==
    ASSUME PutOffRefreshIsHeld, refreshPending' => refreshPending, main # NoLoad => main' # NoLoad
    PROVE  PutOffRefreshIsHeld'
BY DEF PutOffRefreshIsHeld

LEMMA HeldStep ==
    ASSUME NoLoadIsNone
    PROVE  Modal /\ Modal' /\ PutOffRefreshIsHeld /\ [Next]_vars => PutOffRefreshIsHeld'
<1>. SUFFICES ASSUME Modal, Modal', PutOffRefreshIsHeld, [Next]_vars PROVE PutOffRefreshIsHeld'
  OBVIOUS
<1>1. ASSUME UNCHANGED <<main, refreshPending>> PROVE PutOffRefreshIsHeld'
  BY <1>1, HeldFrame
<1>2. ASSUME refreshPending' = FALSE PROVE PutOffRefreshIsHeld'
  BY <1>2 DEF PutOffRefreshIsHeld
<1>3. ASSUME NEW u, NEW places, NEW c, NEW newFilters, Render(u, places, c, newFilters),
             refreshPending' = refreshPending
      PROVE  PutOffRefreshIsHeld'
  BY <1>3, RenderKeepsLoad, HeldFrame
<1>4. ASSUME (\E q : TypeQuery(q)) \/ (\E x : PickFilter(x)) \/ RefreshHere \/ Retry \/ NeedMore
             \/ ChangeMode \/ ViewportLoadBegins
      PROVE  PutOffRefreshIsHeld'
  <2>1. /\ refreshPending' = refreshPending
        /\ \E u, places, c, newFilters : Render(u, places, c, newFilters)
    BY <1>4 DEF TypeQuery, PickFilter, RefreshHere, Retry, NeedMore, ChangeMode, ViewportLoadBegins
  <2>. QED BY <1>3, <2>1
<1>5. ASSUME Reload \/ MainFails \/ (\E exhausted : MainEnds(exhausted)) PROVE PutOffRefreshIsHeld'
  BY <1>2, <1>5 DEF Reload, MainFails, MainEnds, Finally
<1>6. ASSUME (\E v : Move(v)) \/ MapReady \/ GeoSettles \/ Rebind \/ ViewportDelayPasses \/ ViewportTimer
             \/ ViewportSettles
      PROVE  PutOffRefreshIsHeld'
  <2>1. UNCHANGED <<main, refreshPending>>
    BY <1>6 DEF Move, MapReady, GeoSettles, Rebind, ViewportDelayPasses, ViewportTimer, ViewportSettles,
       ViewportPageArrives, ViewportFails, ViewportEnds, LoaderHears, mainVars
  <2>. QED BY <1>1, <2>1
<1>7. ASSUME MainTimer PROVE PutOffRefreshIsHeld'
  <2>1. TimerDoesNothing \/ TimerSkips \/ TimerFindsGateClosed \/ (TimerStartsLoad /\ main = NoLoad)
    BY <1>7 DEF MainTimer
  <2>2. TimerDoesNothing => UNCHANGED <<main, refreshPending>>
    BY DEF TimerDoesNothing
  <2>3. TimerSkips \/ TimerFindsGateClosed => refreshPending' = FALSE
    BY DEF TimerSkips, TimerFindsGateClosed
  <2>4. ASSUME TimerStartsLoad, main = NoLoad PROVE PutOffRefreshIsHeld'
    BY <2>4, HeldFrame DEF TimerStartsLoad
  <2>. QED BY <1>1, <1>2, <2>1, <2>2, <2>3, <2>4
<1>8. ASSUME MainPageArrives \/ WorkPageFails PROVE PutOffRefreshIsHeld'
  <2>1. refreshPending' = refreshPending
    BY <1>8 DEF MainPageArrives, WorkPageFails
  <2>2. main' \in MainLoads
    BY <1>8, ModalMainPage, ModalWorkPage
  <2>. QED BY <2>1, <2>2, HeldFrame DEF NoLoadIsNone
<1>9. ASSUME ViewportLoadReturns PROVE PutOffRefreshIsHeld'
  <2>1. /\ refreshPending' = (refreshPending \/ (settled /\ MustWait)) /\ main' = main
    BY <1>9 DEF ViewportLoadReturns
  <2>2. refreshPending' => refreshPending \/ MustWait
    BY <2>1, Zenon
  <2>. QED BY <2>1, <2>2 DEF MustWait, PutOffRefreshIsHeld
<1>10. CASE UNCHANGED vars
  BY <1>1, <1>10 DEF vars, mainVars
<1>. QED BY <1>4, <1>5, <1>6, <1>7, <1>8, <1>9, <1>10
     DEF Next, Microtask, Task, UserActs, MainSettles

\* A viewport refresh that falls into a main load is remembered only while that
\* load is in flight, whose end plays it: no end of a load, no timer and no change
\* of mode leaves it behind (viewportRefreshPendingRef, load() and its finally).
THEOREM RefreshWaitsForItsLoad ==
    ASSUME NoLoadIsNone PROVE Spec => []PutOffRefreshIsHeld
<1>1. Init => PutOffRefreshIsHeld
  BY DEF Init, PutOffRefreshIsHeld
<1>2. Modal /\ Modal' /\ PutOffRefreshIsHeld /\ [Next]_vars => PutOffRefreshIsHeld'
  BY HeldStep
<1>. QED BY <1>1, <1>2, ModalInit, ModalStep, PTL DEF Spec
=============================================================================
