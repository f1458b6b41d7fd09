--------------------------- MODULE ViewportLoader ---------------------------
(***************************************************************************)
(* createViewportLoader (lib/viewport-search.ts): map events are debounced, *)
(* loads run one at a time, events during a load are coalesced into one     *)
(* follow-up load, and dispose() stops everything that has not begun.       *)
(*                                                                          *)
(* The load itself is the caller's: CatalogLoad composes this module with   *)
(* the load function of useWorkViewport.                                    *)
(***************************************************************************)
VARIABLES
    timer,      \* "off", "fresh" (delayMs has not passed) or "ripe"
    inFlight,   \* inFlight
    pending,    \* pending
    disposed    \* disposed, and cancelSignal.cancelled

loaderVars == <<timer, inFlight, pending, disposed>>

InitLoader(closed) ==
    timer = "off" /\ inFlight = FALSE /\ pending = FALSE /\ disposed = closed

(* schedule(): restarts the delay, or waits for the running load *)
Schedule ==
    /\ \/ disposed /\ UNCHANGED <<timer, pending>>
       \/ ~disposed /\ inFlight /\ pending' = TRUE /\ UNCHANGED timer
       \/ ~disposed /\ ~inFlight /\ pending' = TRUE /\ timer' = "fresh"
    /\ UNCHANGED <<inFlight, disposed>>

DelayPasses == timer = "fresh" /\ timer' = "ripe" /\ UNCHANGED <<inFlight, pending, disposed>>

(* runPending(): begins a load unless one runs or there is nothing to do *)
RunPending(busy) ==
    LET begins == ~disposed /\ ~busy /\ pending IN
    /\ pending' = (pending /\ ~begins)
    /\ inFlight' = (busy \/ begins)

TimerFires ==
    /\ timer = "ripe"
    /\ timer' = "off"
    /\ RunPending(inFlight)
    /\ UNCHANGED disposed

FaultyLoadEnds ==   \* an event that came during the load is left waiting
    /\ inFlight
    /\ inFlight' = FALSE
    /\ UNCHANGED <<timer, pending, disposed>>

(* finally: whether the load succeeded or failed *)
LoadEnds ==
    /\ inFlight
    /\ RunPending(FALSE)
    /\ UNCHANGED <<timer, disposed>>

FaultyDispose ==   \* the waiting timer is not cleared
    /\ disposed' = TRUE
    /\ UNCHANGED <<timer, pending, inFlight>>

Dispose ==
    /\ disposed' = TRUE
    /\ timer' = "off"
    /\ pending' = FALSE
    /\ UNCHANGED inFlight

LoaderNext == Schedule \/ DelayPasses \/ TimerFires \/ LoadEnds \/ Dispose

Init == InitLoader(FALSE)
Spec == Init /\ [][LoaderNext]_loaderVars
-----------------------------------------------------------------------------
LoaderTypeOK ==
    /\ timer \in {"off", "fresh", "ripe"}
    /\ inFlight \in BOOLEAN /\ pending \in BOOLEAN /\ disposed \in BOOLEAN

(* Whoever waits is waited for: an unanswered event has a timer or a running *)
(* load that will answer it, and a closed loader holds neither timer nor     *)
(* event (createViewportLoader, all four entry points together).             *)
NobodyForgotten ==
    /\ pending => timer # "off" \/ inFlight
    /\ disposed => timer = "off" /\ ~pending

(* The loader implements the coalescing contract. *)
Contract == INSTANCE CoalescedLoads WITH stale <- pending, busy <- inFlight, closed <- disposed
CoalescesLoads == Contract!Spec
=============================================================================
