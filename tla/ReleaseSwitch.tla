---------------------------- MODULE ReleaseSwitch ----------------------------
(***************************************************************************)
(* What deploying and rolling back promise: a published release never       *)
(* changes, and a switch happens as a whole or not at all.  The release     *)
(* selected, the one to go back to, the image configured for the next boot  *)
(* and the image that serves change together.                               *)
(***************************************************************************)
CONSTANTS Names, Builds, None

VARIABLES
    published,    \* the build each release holds
    selected,     \* the current release
    fallback,     \* the release a rollback returns to
    configured,   \* the build the host starts when it boots
    serving       \* the build that runs

switchVars == <<published, selected, fallback, configured, serving>>

Holds(n) == IF n = None THEN None ELSE published[n]

Init ==
    /\ published \in [Names -> Builds \union {None}]
    /\ selected \in Names \union {None}
    /\ fallback = None
    /\ configured = Holds(selected)
    /\ serving = Holds(selected)

Publish(n, b) ==
    /\ published[n] = None
    /\ published' = [published EXCEPT ![n] = b]
    /\ UNCHANGED <<selected, fallback, configured, serving>>

Switch(n) ==
    /\ published[n] # None
    /\ n # selected
    /\ selected' = n
    /\ fallback' = IF selected = None THEN fallback ELSE selected
    /\ configured' = published[n]
    /\ serving' = published[n]
    /\ UNCHANGED published

Next == \E n \in Names : Switch(n) \/ \E b \in Builds : Publish(n, b)

Spec == Init /\ [][Next]_switchVars
=============================================================================
