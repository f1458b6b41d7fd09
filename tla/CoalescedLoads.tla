--------------------------- MODULE CoalescedLoads ---------------------------
(***************************************************************************)
(* What a debounced, coalescing loader promises, without timers: an event  *)
(* makes the shown data stale, loads run one at a time, a load answers     *)
(* every event that came before it, and a closed loader starts nothing.    *)
(***************************************************************************)
VARIABLES
    stale,    \* an event came after the last load began
    busy,     \* a load is running
    closed    \* the loader has been closed

vars == <<stale, busy, closed>>

Init == stale = FALSE /\ busy = FALSE /\ closed = FALSE

Event == ~closed /\ stale' = TRUE /\ UNCHANGED <<busy, closed>>

Begin == stale /\ ~busy /\ ~closed /\ stale' = FALSE /\ busy' = TRUE /\ UNCHANGED closed

End == busy /\ busy' = FALSE /\ UNCHANGED <<stale, closed>>

(* The next load begins in the step that ends the previous one. *)
EndAndBegin == busy /\ stale /\ ~closed /\ stale' = FALSE /\ UNCHANGED <<busy, closed>>

Close == closed' = TRUE /\ stale' = FALSE /\ UNCHANGED busy

Next == Event \/ Begin \/ End \/ EndAndBegin \/ Close

Spec == Init /\ [][Next]_vars

=============================================================================
