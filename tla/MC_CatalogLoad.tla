--------------------------- MODULE MC_CatalogLoad ---------------------------
(***************************************************************************)
(* CatalogLoad with a note of the camera moves that no viewport load has   *)
(* answered yet.                                                           *)
(***************************************************************************)
EXTENDS CatalogLoad

VARIABLE awaiting   \* the user moved the map in a domain topic that is still open

mcVars == <<vars, awaiting>>

MCInit == Init /\ awaiting = FALSE

MCNext ==
    /\ Next
    /\ awaiting' =
         IF \/ epoch' > epoch \/ ~ready' \/ Rebind   \* a new engine's loader starts afresh
            \/ ui'.mode = "work" \/ Topic(ui') # Topic(ui)
         THEN FALSE
         ELSE IF view' # view THEN settled /\ Topic(ui) # NoText
         ELSE awaiting

MCSpec == MCInit /\ [][MCNext]_mcVars
MCFairSpec == MCSpec /\ Fairness
-----------------------------------------------------------------------------
(* A camera move in an open domain topic is answered by a viewport load, even *)
(* when it falls into a main load or into another viewport load.              *)
MovesAreAnswered == awaiting ~> ~awaiting
-----------------------------------------------------------------------------
AtRest == /\ ready /\ ~due /\ main = NoLoad /\ vloads = {} /\ ~starting
          /\ timer = "off" /\ ~pending

(* map-shell.tsx:1025-1026 "a changed query or page offset is searched anew": *)
(* at rest the catalogue has places of what is asked for, or an error shows.  *)
WantedIsLoaded ==
    AtRest /\ ~error /\ Topic(ui) # NoText =>
        \E p \in catalog : p.topic = Topic(ui)

(* use-work-viewport.ts:9 "a new view is merged into the accumulated pool, and *)
(* places outside the view stay": while mode, topic and reset are the same,   *)
(* no place leaves the catalogue.                                             *)
PoolOnlyGrows ==
    [][ui' = ui /\ ui.mode = "domain" /\ Topic(ui) # NoText => catalog \subseteq catalog']_mcVars

(* map-shell.tsx:2101 "the cache is the result of the last full load, nothing *)
(* more to page": a work catalogue shown with noMore and no load to come has  *)
(* every page of its topic.                                                   *)
ExhaustedWorkIsWhole ==
    AtRest /\ ui.mode = "work" /\ noMore =>
        \A p \in 0..LastPage : PageOf("work", Topic(ui), view, p) \subseteq catalog

(* map-shell.tsx:1173-1174 "loadingMore must be released, or the sentinel is  *)
(* barred for good".                                                          *)
MoreIsReleased == AtRest => ~more

(* map-shell.tsx:1105-1106 "domain mode without a category: nothing is loaded, *)
(* the catalogue stays empty": nothing appears in an empty catalogue while the *)
(* gate is closed.                                                             *)
ClosedGateStaysEmpty ==
    [][ui' = ui /\ Topic(ui) = NoText /\ catalog = {} => catalog' = {}]_mcVars

(* map-shell.tsx:2050 "if the target mode has a cache it is restored, without *)
(* a new search": the places that were cached are shown after the switch.     *)
RestoredIsShown ==
    [][ui'.mode # ui.mode /\ ui'.mode = "domain" /\ Cached("domain")
         => catalog' = cache["domain"].catalog]_mcVars

(* use-work-viewport.ts:300-302 "when the cached view differs from the map's, *)
(* a load of the present view is scheduled", checked on a mode switch.        *)
RestoredIsAligned ==
    [][ui'.mode # ui.mode /\ ui'.mode = "domain" /\ ready /\ settled
         /\ Cached("domain") /\ cache["domain"].view # {view}
         => pending']_mcVars

(* use-mode-cache-restore.ts:68-69 "the restored work pool is exhausted; set   *)
(* noMore, or load-more is a dead button": only a load of work mode takes that *)
(* back.                                                                       *)
NoMoreIsOfThisMode ==
    [][ui' = ui /\ ui.mode = "work" /\ noMore /\ ~noMore' => main.mode = "work"]_mcVars
=============================================================================
