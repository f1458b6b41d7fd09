------------------------- MODULE MarkerController -------------------------
(***************************************************************************)
(* The controller of the POI markers of one view (lib/map-markers.ts,      *)
(* POIMarkerControllerImpl) on a WebGL label layer (amap-engine.ts         *)
(* createLabelMarker; tencent-engine.ts createMultiMarker keeps the same   *)
(* three flags).  Markers are added and kept: a POI that leaves the visible*)
(* set is taken off the layer, not destroyed.                              *)
(*                                                                         *)
(* The operators are pure: they take and return a world                    *)
(*   icons    what the tab knows of remote logos (RemoteIcons)             *)
(*   layer    the vendor's markers with their wrappers' flags              *)
(*   waiting  the upgrades that await the bytes of a logo                  *)
(*   ctl      the one controller that is not destroyed, or NoController    *)
(*   fails    the POIs the layer refuses now, or has since the last sync   *)
(*   dead     the views that are destroyed                                 *)
(* A wrapper is identified by its POI and a number that no wrapper in use  *)
(* has: an upgrade holds on to its wrapper, as the code compares them.  An *)
(* upgrade of a destroyed controller finds no marker of its own, so one    *)
(* test stands for the two guards of applyLogoUpgrade.                     *)
(*                                                                         *)
(* Left out: positions, click callbacks, the z-index (a function of the    *)
(* style), the HTML content (same style as the icon) and local logos (set  *)
(* at once, never upgraded).                                               *)
(***************************************************************************)
EXTENDS RemoteIcons, FiniteSetsExt

CONSTANTS
    Companies,     \* recruitment POIs, with a logo to look for
    Places,        \* domain POIs, drawn as pins
    Chain,         \* Companies -> the URLs a logo may come from
    Order,         \* the POIs in the order of the lists
    MaxWrappers    \* bound: wrappers of one POI in use at once

POIs == Companies \cup Places

ASSUME MarkerConstants ==
    /\ Companies \cap Places = {}
    /\ {"no poi", "everything"} \cap POIs = {}
    /\ DOMAIN Chain = Companies
    /\ \A c \in Companies : Chain[c] \in Seq(ToSet(Chain[c])) /\ NoUrl \notin ToSet(Chain[c])
    /\ Order \in Seq(POIs) /\ ToSet(Order) = POIs /\ IsInjective(Order)
    /\ MaxWrappers \in Nat \ {0}

NoPoi == "no poi"
NoView == 0
NoMarker == << >>
NoController == [view |-> NoView]
Everything == {"everything"}    \* visibleIds = null
Wrappers == POIs \X (1 .. MaxWrappers)

NewController(view) ==
    [view |-> view, markers |-> [p \in POIs |-> 0], placed |-> {},
     style |-> [p \in POIs |-> "none"], kind |-> [p \in POIs |-> "none"],
     logo |-> [p \in POIs |-> NoUrl], applied |-> [p \in POIs |-> "none"],
     visible |-> Everything, selected |-> NoPoi, highlighted |-> NoPoi]

Registered(w) == {p \in POIs : w.ctl.markers[p] # 0}

Wrapper(w, p) == <<p, w.ctl.markers[p]>>

\* isReady
IsReady(w) == w.ctl # NoController /\ w.ctl.view \notin w.dead

StyleOf(p, selected, highlighted) ==
    CASE p = selected -> "selected"
      [] p # selected /\ p = highlighted -> "highlighted"
      [] OTHER -> "normal"

Wanted(w, p) == w.ctl.visible = Everything \/ p \in w.ctl.visible

-----------------------------------------------------------------------------
\* The wrapper of a label marker

SetIcon(w, m, icon, style) ==
    [w EXCEPT !.layer[m] = [@ EXCEPT !.icon = icon, !.style = style]]

\* setVisible: shown by adding the marker to the layer, which may fail.
SetVisible(w, m, on) ==
    IF w.layer[m].want = on THEN w
    ELSE [w EXCEPT !.layer[m] =
            [@ EXCEPT !.want = on, !.onLayer = on /\ m[1] \notin w.fails]]

\* isAttached: a hidden marker counts as attached.
IsAttached(w, m) ==
    w.layer[m].known /\ (w.layer[m].want => w.layer[m].onLayer)

RemoveMarker(w, m) == [w EXCEPT !.layer[m] = NoMarker]

\* The numbers of wrappers still drawn or awaited.
InUse(w, p) ==
    {n \in 1 .. MaxWrappers :
        \/ w.layer[<<p, n>>] # NoMarker
        \/ \E u \in w.waiting : u.marker = <<p, n>>}

HasRoom(w, n) == \A p \in POIs : Cardinality(InUse(w, p)) + n <= MaxWrappers

-----------------------------------------------------------------------------
\* Logos

\* resolveGlIcon: a logo to draw at once, or one to upgrade to.
GlIconFrom(found) ==
    LET logo == IF found.src # NoUrl /\ IsInlined(found.icons, found.src)
                THEN found.src ELSE NoUrl
    IN  [icons |-> found.icons, logo |-> logo,
         upgrade |-> IF logo = NoUrl THEN found.src ELSE NoUrl]

GlIcon(w, p) == GlIconFrom(Resolve(w.icons, Chain[p]))

\* What is recorded of the icon that has been resolved.
Recorded(w, p, gl) ==
    [w |-> [w EXCEPT !.icons = gl.icons, !.ctl.logo[p] = gl.logo,
                     !.ctl.kind[p] = IF gl.logo = NoUrl THEN "emoji" ELSE "logo"],
     icon |-> gl.logo]

\* A bug: only the shared cache is asked.
FaultyRestoreIcon(w, p) ==
    IF p \in Places THEN [w |-> w, icon |-> NoUrl] ELSE Recorded(w, p, GlIcon(w, p))

\* glIconForState: the logo the marker has is used again, whatever the shared
\* cache has dropped since.
RestoreIcon(w, p) ==
    IF p \in Places THEN [w |-> w, icon |-> NoUrl]
    ELSE IF w.ctl.logo[p] # NoUrl
    THEN [w |-> [w EXCEPT !.ctl.kind[p] = "logo"], icon |-> w.ctl.logo[p]]
    ELSE Recorded(w, p, GlIcon(w, p))

SetDrawn(drawn, m, style) == SetIcon(drawn.w, m, drawn.icon, style)

\* applyStyle
ApplyStyle(w, p, m, style) ==
    IF w.ctl.style[p] = style THEN w
    ELSE SetDrawn(RestoreIcon([w EXCEPT !.ctl.style[p] = style], p), m, style)

\* A bug: the marker of the POI is not compared with the one that waited.
FaultyApplyLogoUpgrade(w, p, m, url) ==
    IF w.ctl = NoController THEN w
    ELSE IF w.layer[m] = NoMarker THEN RestoreIcon([w EXCEPT !.ctl.logo[p] = url], p).w
    ELSE SetDrawn(RestoreIcon([w EXCEPT !.ctl.logo[p] = url], p), m, w.layer[m].style)

\* applyLogoUpgrade: of the marker it was asked for, or of none.
ApplyLogoUpgrade(w, p, m, url) ==
    IF w.ctl = NoController \/ m # Wrapper(w, p) THEN w
    ELSE LET style == w.ctl.style[p]
             known == [w EXCEPT !.ctl.logo[p] = url, !.ctl.kind[p] = "logo",
                                !.ctl.style[p] = "none"]
         IN  ApplyStyle(known, p, m, style)

\* upgradeMarkerIcon, up to its await
AwaitLogo(w, p, m, url) ==
    IF ~CanFetch(w.icons, url) THEN w
    ELSE [w EXCEPT !.icons = Fetch(@, url),
                   !.waiting = @ \cup {[marker |-> m, url |-> url]}]

UpgradeTo(gl, w, p, m) ==
    IF gl.logo # NoUrl THEN ApplyLogoUpgrade(w, p, m, gl.logo)
    ELSE IF gl.upgrade = NoUrl THEN w
    ELSE AwaitLogo(w, p, m, gl.upgrade)

UpgradeIcon(gl, w, p, m) == UpgradeTo(gl, [w EXCEPT !.icons = gl.icons], p, m)

\* maybeUpgradeIcon
MaybeUpgrade(w, p, m) ==
    IF w.ctl.kind[p] # "emoji" \/ ~Wanted(w, p) THEN w
    ELSE UpgradeIcon(GlIcon(w, p), w, p, m)

-----------------------------------------------------------------------------
\* Markers

\* applyVisibility
ApplyVisibility(w, p) ==
    LET on == Wanted(w, p)
    IN  IF w.ctl.applied[p] = (IF on THEN "shown" ELSE "hidden") THEN w
        ELSE SetVisible([w EXCEPT !.ctl.applied[p] = IF on THEN "shown" ELSE "hidden"],
                        Wrapper(w, p), on)

\* What is recorded of the marker of p goes with it.
Forgotten(c, p, m) ==
    [c EXCEPT !.markers[p] = 0, !.style[p] = "none", !.kind[p] = "none", !.logo[p] = NoUrl,
              !.applied[p] = "none", !.placed = @ \ {m}]

\* A bug: what was applied to the marker is still recorded.
FaultyDrop(w, p) ==
    [RemoveMarker(w, Wrapper(w, p)) EXCEPT
        !.ctl = [Forgotten(@, p, Wrapper(w, p)) EXCEPT !.applied[p] = w.ctl.applied[p]]]

\* removeMarker
Drop(w, p) ==
    [RemoveMarker(w, Wrapper(w, p)) EXCEPT !.ctl = Forgotten(@, p, Wrapper(w, p))]

\* What is recorded of a marker n of p with its icon.
Recording(c, p, n, style, logo) ==
    [c EXCEPT !.markers[p] = n, !.placed = @ \cup {<<p, n>>}, !.style[p] = style, !.logo[p] = logo,
              !.kind[p] = IF p \in Places THEN "none" ELSE IF logo = NoUrl THEN "emoji" ELSE "logo"]

\* The marker with the icon that has been resolved, or none if the layer does not
\* take it.
AddWithIcon(w, p, gl) ==
    LET style == StyleOf(p, w.ctl.selected, w.ctl.highlighted)
        seen  == [w EXCEPT !.icons = gl.icons]
        n     == CHOOSE i \in 1 .. MaxWrappers : i \notin InUse(w, p)
        m     == <<p, n>>
        added == [seen EXCEPT
                    !.layer[m] = [view |-> w.ctl.view, known |-> TRUE, want |-> TRUE,
                                  onLayer |-> TRUE, icon |-> gl.logo, style |-> style],
                    !.ctl = Recording(@, p, n, style, gl.logo)]
    IN  IF p \in w.fails THEN seen
        ELSE IF gl.upgrade = NoUrl THEN ApplyVisibility(added, p)
        ELSE AwaitLogo(ApplyVisibility(added, p), p, m, gl.upgrade)

\* addMarker: a marker the layer does not take leaves no trace.
AddMarker(w, p) ==
    AddWithIcon(w, p, IF p \in Companies THEN GlIcon(w, p)
                      ELSE [icons |-> w.icons, logo |-> NoUrl, upgrade |-> NoUrl])

\* What Op does for one POI, done for those of a set in the order of the list.
ForEach(Op(_, _), w, ps) == Along(LAMBDA acc, p : IF p \in ps THEN Op(acc, p) ELSE acc, w, Order)

\* clear
Clear(w) ==
    ForEach(Drop, [w EXCEPT !.ctl = [@ EXCEPT !.selected = NoPoi, !.highlighted = NoPoi,
                                              !.visible = Everything]],
            Registered(w))

\* destroy: clears, then sweeps whatever is still placed.
Swept(w) ==
    [w EXCEPT !.layer = [m \in Wrappers |-> IF m \in w.ctl.placed THEN NoMarker ELSE @[m]],
              !.ctl = NoController]

Destroy(w) == IF w.ctl = NoController THEN w ELSE Swept(Clear(w))

\* A replacement takes away whatever is not in the list and not retained.
Pruned(w, pois, replace, retain) ==
    IF replace THEN ForEach(Drop, w, Registered(w) \ (pois \cup retain)) ELSE w

\* A POI of the list: a new marker, or the one it has.
Put(w, p) ==
    IF w.ctl.markers[p] = 0 THEN AddMarker(w, p)
    ELSE MaybeUpgrade(
            ApplyStyle(w, p, Wrapper(w, p), StyleOf(p, w.ctl.selected, w.ctl.highlighted)),
            p, Wrapper(w, p))

\* setPOIs: an empty list keeps what there is.
SetPOIs(w, pois, replace, retain) ==
    IF ~IsReady(w) \/ pois = {} THEN w
    ELSE Pruned(ForEach(Put, w, pois), pois, replace, retain)

Show(w, p) == MaybeUpgrade(ApplyVisibility(w, p), p, Wrapper(w, p))

\* setVisiblePOIs
SetVisiblePOIs(w, ids) == ForEach(Show, [w EXCEPT !.ctl.visible = ids], Registered(w))

Remade(w, p) == AddMarker(Drop(w, p), p)

\* sync: markers that are gone from the layer are made again. Its sweep of placed
\* markers that are not registered finds none: the two are kept together here.
Sync(w) ==
    IF ~IsReady(w) THEN w
    ELSE ForEach(Remade, w, {p \in Registered(w) : ~IsAttached(w, Wrapper(w, p))})

Refresh(w, p) ==
    IF p = NoPoi THEN w
    ELSE IF w.ctl.markers[p] = 0 THEN w
    ELSE ApplyStyle(w, p, Wrapper(w, p), StyleOf(p, w.ctl.selected, w.ctl.highlighted))

\* select, deselect
Select(w, p) ==
    LET prev == w.ctl.selected
        told == [w EXCEPT !.ctl.selected = p,
                          !.ctl.highlighted = IF p # NoPoi /\ @ = p THEN NoPoi ELSE @]
    IN  Refresh(IF prev # p THEN Refresh(told, prev) ELSE told, p)

\* highlight, unhighlight
Highlight(w, p) ==
    LET prev == w.ctl.highlighted
        told == [w EXCEPT !.ctl.highlighted = p]
    IN  Refresh(IF prev # p THEN Refresh(told, prev) ELSE told, p)
=============================================================================
