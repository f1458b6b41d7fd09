------------------------- MODULE MC_ViewportLoader -------------------------
(***************************************************************************)
(* ViewportLoader with a bounded number of map events, and with what the   *)
(* loader itself does not remember: which event each load began after.     *)
(***************************************************************************)
EXTENDS ViewportLoader, Naturals, FiniteSets

CONSTANT MaxEvents   \* bound: map events in a behaviour

VARIABLES
    newest,    \* the number of the last map event
    running,   \* the loads in flight, each the event it began after
    shown      \* the event the last begun load answers

history == <<newest, running, shown>>
mcVars == <<timer, inFlight, pending, disposed, newest, running, shown>>

MCInit == Init /\ newest = 0 /\ running = {} /\ shown = 0

MapEvent == /\ newest < MaxEvents
            /\ Schedule
            /\ newest' = IF disposed THEN newest ELSE newest + 1
            /\ UNCHANGED <<running, shown>>

Delay == DelayPasses /\ UNCHANGED history

(* The load that begins in this step, if one does, answers all events so far. *)
BeginsIn(others) ==
    LET begins == pending /\ ~pending' IN
    /\ running' = IF begins THEN others \cup {newest} ELSE others
    /\ shown' = IF begins THEN newest ELSE shown
    /\ UNCHANGED newest

MCTimerFires == TimerFires /\ BeginsIn(running)

MCLoadEnds == LoadEnds /\ \E r \in running : BeginsIn(running \ {r})

MCDispose == ~disposed /\ Dispose /\ UNCHANGED history

MCNext == MapEvent \/ Delay \/ MCTimerFires \/ MCLoadEnds \/ MCDispose

(* setTimeout callbacks run and promises settle; nobody has to move the map. *)
MCSpec == /\ MCInit /\ [][MCNext]_mcVars
          /\ WF_mcVars(Delay) /\ WF_mcVars(MCTimerFires)
          /\ WF_mcVars(MCLoadEnds)
-----------------------------------------------------------------------------
(* Every event is answered by a load, or the loader is disposed: the last   *)
(* event is never swallowed, whenever the earlier loads end or fail.        *)
EventsAnswered ==
    \A n \in 1..MaxEvents : newest >= n ~> (shown >= n \/ disposed)
=============================================================================
