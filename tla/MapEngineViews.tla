--------------------------- MODULE MapEngineViews ---------------------------
(***************************************************************************)
(* Who answers for a live map view.  The lifecycle, with one history       *)
(* variable: the views that a switch has dropped from viewRef while they   *)
(* were alive.  Two places of switchEngine do that when something landed   *)
(* beside the request: its catch clears viewRef (use-map-engine.ts:328),   *)
(* and the landing of a rollback overwrites it (:283, without the cleanup  *)
(* of :294-300).  The properties say that nothing else loses a view.       *)
(***************************************************************************)
EXTENDS MapEngineLifecycle

VARIABLE forgotten     \* views dropped alive from viewRef, in one of these two ways

notedVars == <<vars, forgotten>>

(* The view dropped by this step, if it is the end of a failed newest request *)
DroppedNow ==
    {v \in {viewRef} \cap live :
        /\ viewRef' # v /\ v \notin doomed
        /\ \E s \in switches :
              /\ s.gen = generation /\ switches' = switches \ {s}
              /\ \/ s.stage # "landing" /\ viewRef' = None
                 \/ s.stage = "landing" /\ s.result = "rolledBack" /\ viewRef' = s.view}

NotedInit == Init /\ forgotten = {}
NotedNext == Next /\ forgotten' = forgotten \cup DroppedNow
NotedSpec == NotedInit /\ [][NotedNext]_notedVars
-----------------------------------------------------------------------------
(* Who will show the view or destroy it: the hook, a delayed destruction, or *)
(* the mount or switch whose result is just being taken.                     *)
Owned(v) ==
    \/ v = viewRef \/ v \in doomed
    \/ \E c \in chains : c.stage = "landing" /\ v = MountView(c)
    \/ \E s \in switches : s.stage = "landing" /\ v = s.view

(* Every live view has an owner, or is one a failed switch dropped: however  *)
(* mounts, retries, switches, reconnects and an unmount overlap, the mount's *)
(* cleanups, the landing guards, the destruction of the mounted view by the  *)
(* switch that lands over it and the hand-over leak nothing.                 *)
NoOrphan == \A v \in live : Owned(v) \/ v \in forgotten

(* When nothing is in flight the container holds, besides such dropped views, *)
(* at most the view that the hook and the page both show; that one is alive,  *)
(* and after an unmount there is none.                                        *)
OneViewWhenQuiet ==
    Quiet => /\ live \subseteq {viewRef} \cup forgotten
             /\ viewRef # None => viewRef \in live /\ shown = viewRef
             /\ phase = "gone" => live \subseteq forgotten
=============================================================================
