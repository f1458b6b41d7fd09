---------------------------- MODULE MC_MapEngine ----------------------------
(* Instances of MapEngineViews: two or three engines in the order of ENGINE_PRIORITY. *)
EXTENDS MapEngineViews

CONSTANTS amap, tencent, baidu

MCRank == [e \in Engines |-> IF e = amap THEN 0 ELSE IF e = tencent THEN 1 ELSE 2]

(* Reconnect may add two to mountSeq, so chains are numbered up to MaxSeq + 1 *)
ChainNumbers == 1 .. MaxSeq + 1

(* The watchdog timer fires and microtasks run; engines need not ever answer. *)
WatchdogFairness ==
    \A n \in ChainNumbers :
        /\ WF_vars(\E c \in chains : c.seq = n /\ LandMount(c))
        /\ WF_vars(\E c \in chains : c.seq = n /\ Watchdog(c))

(* Every load and creation settles, as the engines' own time limits ensure. *)
EngineFairness ==
    /\ \A n \in ChainNumbers : WF_vars(\E c \in chains : c.seq = n /\ ChainStep(c))
    /\ \A g \in 1 .. MaxGen : WF_vars(\E s \in switches : s.gen = g /\ SwitchStep(s))
    /\ WF_vars(\E v \in doomed : DelayedDestroy(v))

MicrotaskFairness ==
    \A g \in 1 .. MaxGen : WF_vars(\E s \in switches : s.gen = g /\ LandSwitch(s))

WatchdogSpec == NotedSpec /\ WatchdogFairness /\ MicrotaskFairness
EngineSpec == NotedSpec /\ WatchdogFairness /\ EngineFairness

(* A mount never runs for ever, even with an engine that never answers: the  *)
(* 25 s watchdog ends it, so that the error state and the retry are reached. *)
MountIsBounded == mountRunning ~> ~mountRunning

(* After an unmount every view but the dropped ones is destroyed in the end, *)
(* whatever was being loaded, created, rolled back or handed over then.      *)
UnmountFreesAll == phase = "gone" ~> live \subseteq forgotten
=============================================================================
