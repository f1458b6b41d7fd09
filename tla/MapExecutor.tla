---------------------------- MODULE MapExecutor ----------------------------
(***************************************************************************)
(* The executor that carries out the agent's map actions, and the bridge   *)
(* to the view it draws on (components/agent-map-executor.ts,               *)
(* lib/agent-map-bridge.ts): what each action does to the map, the stack of *)
(* entries that take it back, and routes whose geometry is fetched first.   *)
(*                                                                          *)
(* An executor belongs to one panel and one view: a new view, or a panel    *)
(* opened again, gets a new one with empty stacks, while the fetches of the *)
(* old one go on.  Only the agent moves the camera and selects here.        *)
(*                                                                          *)
(* Left out: coordinates, labels and their validation (an action is a kind  *)
(* and a number of its own), and the clock: an action of a kind executed    *)
(* before may or may not fall within the 500 ms of the throttle.            *)
(***************************************************************************)
EXTENDS Naturals, Sequences, FiniteSets, SequencesExt

CONSTANTS
    ActionKinds,  \* action types the agent uses
    MaxItems,     \* bound: actions executed
    MaxViews      \* bound: map views

OverlayKinds == {"addMarkers", "drawCircle"}
HistoryKinds == {"select", "openDetail"}

ASSUME ExecutorBounds ==
    /\ ActionKinds \subseteq OverlayKinds \cup HistoryKinds \cup {"flyTo", "showRoute", "search"}
    /\ MaxItems \in Nat
    /\ MaxViews \in Nat \ {0}

VARIABLES
    view,       \* the view the bridge was made for; 0 before the first
    alive,      \* that view is not destroyed
    executor,   \* number of the panel's executor; 0 for none
    undoStack,  \* undoStack of that executor
    histories,  \* its selectStack and detailStack
    recent,     \* types with an entry in its lastExecAt
    fetches,    \* routes being fetched, by whichever executor
    drawn,      \* overlays on the view
    shown,      \* what is selected, and whose detail is open
    camera,     \* the action that last placed the camera
    executed    \* actions executed

stacks  == <<executor, undoStack, histories, recent>>
map     == <<view, alive, drawn, shown, camera>>
execVars == <<stacks, map, fetches, executed>>

Ready == view > 0 /\ alive

-----------------------------------------------------------------------------
\* Executors

ExecutorInit(v) ==
    /\ view = v /\ alive = TRUE
    /\ executor = v
    /\ undoStack = <<>>
    /\ histories = [k \in HistoryKinds |-> <<>>]
    /\ recent = {}
    /\ fetches = {}
    /\ drawn = {}
    /\ shown = [k \in HistoryKinds |-> 0]
    /\ camera = 0
    /\ executed = 0

\* The panel is opened, or rendered with another bridge.
NewExecutor ==
    /\ executor' = executor + 1
    /\ undoStack' = <<>>
    /\ histories' = [k \in HistoryKinds |-> <<>>]
    /\ recent' = {}

-----------------------------------------------------------------------------
\* Actions

Overlay(item) == [item |-> item, by |-> executor]
Entry(kind, item) ==
    [kind |-> kind, item |-> item, before |-> IF kind = "camera" THEN camera ELSE 0]

UndoEntries(kind, item) ==
    IF kind \in OverlayKinds THEN <<Entry("overlay", item)>>
    ELSE IF kind = "flyTo" THEN <<Entry("camera", item)>>
    ELSE IF kind \in HistoryKinds THEN <<Entry(kind, item)>>
    ELSE <<>>

\* executeAction past the throttle, on a view that is ready.
Carry(kind) ==
    LET n == executed + 1
        replaced(f, v) == IF kind \in HistoryKinds THEN [f EXCEPT ![kind] = v] ELSE f
    IN  /\ executed < MaxItems
        /\ executed' = n
        /\ recent' = recent \cup {kind}
        /\ undoStack' = undoStack \o UndoEntries(kind, n)
        /\ histories' =
               IF kind \in HistoryKinds THEN [histories EXCEPT ![kind] = Append(@, n)]
               ELSE histories
        /\ shown' = replaced(shown, n)
        /\ camera' = IF kind = "flyTo" THEN n ELSE camera
        /\ drawn' = IF kind \in OverlayKinds THEN drawn \cup {Overlay(n)} ELSE drawn
        /\ fetches' =
               IF kind = "showRoute"
               THEN fetches \cup {[item |-> n, by |-> executor, view |-> view]}
               ELSE fetches
        /\ UNCHANGED <<view, alive, executor>>

\* Dropped by the 500 ms throttle of its type.
Throttled(kind) ==
    /\ kind \in recent
    /\ UNCHANGED execVars

\* MAP_NOT_READY; the throttle has noted the action all the same.
Refused(kind) ==
    /\ ~Ready
    /\ recent' = recent \cup {kind}
    /\ UNCHANGED <<executor, undoStack, histories, map, fetches, executed>>

\* A mutant: the entry goes to whichever executor there is.
FaultyRouteAnswered(f, ok) ==
    /\ f \in fetches
    /\ fetches' = fetches \ {f}
    /\ drawn' = IF ok /\ f.view = view /\ alive
                THEN drawn \cup {[item |-> f.item, by |-> f.by]} ELSE drawn
    /\ undoStack' = IF ok THEN Append(undoStack, Entry("overlay", f.item)) ELSE undoStack
    /\ UNCHANGED <<executor, histories, recent, view, alive, shown, camera, executed>>

\* A route's geometry arrives, or the fetch fails.  It is drawn by the bridge
\* it was asked with, and its entry goes to the executor that asked.
RouteAnswered(f, ok) ==
    /\ f \in fetches
    /\ fetches' = fetches \ {f}
    /\ drawn' = IF ok /\ f.view = view /\ alive
                THEN drawn \cup {[item |-> f.item, by |-> f.by]} ELSE drawn
    /\ undoStack' = IF ok /\ f.by = executor
                    THEN Append(undoStack, Entry("overlay", f.item)) ELSE undoStack
    /\ UNCHANGED <<executor, histories, recent, view, alive, shown, camera, executed>>

-----------------------------------------------------------------------------
\* Undo and clear

\* undoStack.pop() and its run(): a camera entry flies back only on a live
\* view, a history entry replays the one before it, if there is one.
UndoLatest ==
    LET e == Last(undoStack)
        rest(k) == Front(histories[k])
    IN  /\ undoStack # <<>>
        /\ undoStack' = Front(undoStack)
        /\ drawn' = IF e.kind = "overlay" THEN drawn \ {Overlay(e.item)} ELSE drawn
        /\ camera' = IF e.kind = "camera" /\ Ready THEN e.before ELSE camera
        /\ histories' =
               IF e.kind \in HistoryKinds THEN [histories EXCEPT ![e.kind] = rest(e.kind)]
               ELSE histories
        /\ shown' =
               IF e.kind \in HistoryKinds /\ rest(e.kind) # <<>>
               THEN [shown EXCEPT ![e.kind] = Last(rest(e.kind))] ELSE shown
        /\ UNCHANGED <<executor, recent, view, alive, fetches, executed>>

\* The positions of the entries of a kind.
At(kind) == {i \in DOMAIN undoStack : undoStack[i].kind = kind}

\* The stack without its overlay entries.
WithoutOverlays(s) ==
    LET rest[n \in 0..Len(s)] ==
            IF n = 0 THEN <<>>
            ELSE IF s[n].kind = "overlay" THEN rest[n - 1] ELSE Append(rest[n - 1], s[n])
    IN  rest[Len(s)]

\* clearOverlays: runs the overlay entries and takes them out of the stack.
OverlaysCleared ==
    LET cleared == {Overlay(undoStack[i].item) : i \in At("overlay")}
    IN  /\ drawn' = drawn \ cleared
        /\ undoStack' = WithoutOverlays(undoStack)
        /\ UNCHANGED <<executor, histories, recent, view, alive, shown, camera, fetches, executed>>

-----------------------------------------------------------------------------
\* The view

\* The engine destroys its view; the bridge keeps it until there is another.
ViewDestroyed ==
    /\ Ready
    /\ alive' = FALSE
    /\ drawn' = {}
    /\ UNCHANGED <<stacks, view, shown, camera, fetches, executed>>

\* Another view is there, at the same place: a new bridge, and with it a new
\* executor if a panel is open to use it.
ViewReplaced(opened) ==
    /\ ~Ready
    /\ view < MaxViews
    /\ view' = view + 1
    /\ alive' = TRUE
    /\ drawn' = {}
    /\ IF opened THEN NewExecutor ELSE UNCHANGED stacks
    /\ UNCHANGED <<shown, camera, fetches, executed>>

-----------------------------------------------------------------------------
\* Properties

ItemNumbers == 0..MaxItems

\* Of an executor, that its stacks hold known actions.
ExecutorTypeOK ==
    /\ view \in 0..MaxViews /\ alive \in BOOLEAN
    /\ undoStack \in Seq([kind : {"overlay", "camera"} \cup HistoryKinds,
                          item : ItemNumbers, before : ItemNumbers])
    /\ \A k \in HistoryKinds : histories[k] \in Seq(ItemNumbers)
    /\ recent \subseteq ActionKinds
    /\ \A f \in fetches : f.item \in ItemNumbers /\ f.by <= executor /\ f.view <= view
    /\ \A o \in drawn : o.item \in ItemNumbers /\ o.by <= executor
    /\ shown \in [HistoryKinds -> ItemNumbers]
    /\ camera \in ItemNumbers /\ executed \in ItemNumbers

\* What the executor's own overlays on a live view are is what its undo stack
\* can take back, each once: nothing it drew is beyond undo and clear, and no
\* entry stands for nothing, however late a route is drawn and whatever was
\* cleared in the middle of the stack.
UndoCoversDrawn ==
    Ready =>
        /\ {undoStack[i].item : i \in At("overlay")} = {o.item : o \in {p \in drawn : p.by = executor}}
        /\ \A i, j \in At("overlay") : undoStack[i].item = undoStack[j].item => i = j

\* The map shows the latest of the executor's actions that has not been taken
\* back: the latest flyTo in the stack placed the camera, and the stacks of
\* selections hold the items of their entries in the undo stack, both in the
\* order in which they were carried out, their last one shown.
MapFollowsTheStack ==
    /\ Ready => \A i \in At("camera") :
                   (\A j \in At("camera") : j <= i) => undoStack[i].item = camera
    /\ \A k \in HistoryKinds :
           /\ {undoStack[i].item : i \in At(k)} = Range(histories[k])
           /\ \A i, j \in At(k) : i < j => undoStack[i].item < undoStack[j].item
           /\ \A i, j \in DOMAIN histories[k] : i < j => histories[k][i] < histories[k][j]
           /\ histories[k] # <<>> => Last(histories[k]) = shown[k]

\* Undo and clear take back all that the executor did, and nothing else.
UndoTakesBack == UndoCoversDrawn /\ MapFollowsTheStack
=============================================================================
