----------------------------- MODULE AgentPanel -----------------------------
(***************************************************************************)
(* The agent's panel: the stream of the current turn, the session kept in   *)
(* localStorage, and the executor the stream's events go to                 *)
(* (components/agent-panel.tsx, lib/agent-stream-store.ts,                  *)
(* lib/agent-session-store.ts, lib/agent-panel-state.ts,                    *)
(* components/agent-chat-client.ts).                                        *)
(*                                                                          *)
(* Every question begins a turn with a controller of its own and a run that *)
(* reads the answer's events; stopping, clearing, asking again and closing  *)
(* abort a controller, and the run notices later.  The panel uses one       *)
(* session.  A state update is one step: a render always comes between two  *)
(* tasks of the network.  Abort empties a response, so a closed panel's runs *)
(* are over, with no more events, when the panel is opened again.           *)
(*                                                                          *)
(* Left out: texts (their pieces are counted, a question is one piece),     *)
(* images but for their kind, wording, scrolling, and a localStorage that    *)
(* refuses to write.                                                        *)
(***************************************************************************)
EXTENDS MapExecutor

CONSTANTS
    MaxQuestions,  \* bound: questions asked
    MaxReads,      \* bound: events of all runs
    MaxOpens,      \* bound: times the panel is opened
    MessageCap,    \* SESSION_MESSAGES_CAP = AGENT_CHAT_MAX_MESSAGES
    ContentMax,    \* MESSAGE_CONTENT_MAX = AGENT_CHAT_MAX_CHARS, in pieces of text
    ToolsCap,      \* TOOLS_PER_MESSAGE_CAP
    CardsCap,      \* ACTIONS_PER_MESSAGE_CAP
    ToolNames      \* public tool kinds

ASSUME PanelBounds ==
    /\ MaxQuestions \in Nat \ {0} /\ MaxReads \in Nat /\ MaxOpens \in Nat \ {0}
    /\ {MessageCap, ContentMax, ToolsCap, CardsCap} \subseteq Nat \ {0}
    /\ "none" \notin ToolNames

VARIABLES
    opened,     \* the panel is mounted
    opens,      \* times it was mounted
    entry,      \* the session's stream (SessionStream), or NoStream
    session,    \* the session exists
    stored,     \* its messages, in state and in localStorage
    run,        \* of each turn, its run: "none", "open", "answered" or "ended"
    abort,      \* of each turn, why its controller was aborted: see Reasons
    due,        \* of each turn, the tools begun and not yet reported, by name
    turns,      \* questions asked
    events,     \* events delivered
    routed      \* streamSessionRef is set

panel == <<opened, opens, entry, session, stored, run, abort, due, turns, events, routed>>
panelVars == <<panel, execVars>>

Turns   == 1..MaxQuestions
Reasons == {"no", "stopped", "dropped", "closed"}
Begun   == {c \in Turns : run[c] \in {"open", "answered"}}

-----------------------------------------------------------------------------
\* Messages

\* Images are shown from anywhere, and stored if they are not data: URLs.
ImageKinds == {"https", "data"}

\* An empty message.
AgentMessage(role, c) ==
    [role |-> role, turn |-> c, text |-> 0, tools |-> <<>>, cards |-> <<>>, images |-> {}]
Question(c) == [AgentMessage("user", c) EXCEPT !.text = 1]
Activity(name, status) == [name |-> name, status |-> status]

\* The first n of s, and the last n.
FirstOf(n, s) == IF Len(s) <= n THEN s ELSE SubSeq(s, 1, n)
LastOf(n, s)  == IF Len(s) <= n THEN s ELSE SubSeq(s, Len(s) - n + 1, Len(s))

\* The text that is stored, and posted.
CutText(text) == IF text <= ContentMax THEN text ELSE ContentMax

\* discardTrailingAssistants
UpToQuestion(s) == SubSeq(s, 1, SelectLastInSeq(s, LAMBDA m : m.role = "user"))

LastIsAnswer(s) == s # <<>> /\ Last(s).role = "assistant"

\* An event that goes to the last message if that is an answer, else to a new one.
ToLast(c, s, Change(_)) ==
    IF LastIsAnswer(s) THEN Append(Front(s), Change(Last(s)))
    ELSE Append(s, Change(AgentMessage("assistant", c)))

\* reduceAgentEvent for a delta or a tool's start: a message with tools is full.
Extended(c, s, Change(_)) ==
    IF LastIsAnswer(s) /\ Last(s).tools # <<>>
    THEN Append(s, Change(AgentMessage("assistant", c))) ELSE ToLast(c, s, Change)

\* A mutant: looks for the running tool from the front.
FaultyRunsTool(s, name) ==
    SelectInSeq(s, LAMBDA m : Activity(name, "start") \in Range(m.tools))

\* The latest message in which the tool is still running; 0 for none.
RunsTool(s, name) ==
    SelectLastInSeq(s, LAMBDA m : Activity(name, "start") \in Range(m.tools))

AfterDelta(c, s) == Extended(c, s, LAMBDA m : [m EXCEPT !.text = @ + 1])

AfterToolStart(c, s, name) ==
    Extended(c, s, LAMBDA m : [m EXCEPT !.tools = Append(@, Activity(name, "start"))])

AfterToolDone(c, s, name) ==
    LET a == Activity(name, "done")
        i == RunsTool(s, name)
        settled(tools) == [j \in DOMAIN tools |->
                              IF tools[j] = Activity(name, "start") THEN a ELSE tools[j]]
    IN  IF i # 0 THEN [s EXCEPT ![i].tools = settled(@)]
        ELSE ToLast(c, s, LAMBDA m : [m EXCEPT !.tools = Append(@, a)])

AfterAction(c, s, kind) == ToLast(c, s, LAMBDA m : [m EXCEPT !.cards = Append(@, kind)])

AfterImages(c, s, kind) == ToLast(c, s, LAMBDA m : [m EXCEPT !.images = @ \cup {kind}])

-----------------------------------------------------------------------------
\* The stream store

NoStream == [turn |-> 0, streaming |-> FALSE, messages |-> <<>>, done |-> FALSE,
             completion |-> "none", fatal |-> FALSE, tool |-> "none"]

\* startStream: whatever was there is replaced.
Started(c, messages) ==
    [NoStream EXCEPT !.turn = c, !.streaming = TRUE, !.messages = messages]

IsCurrent(c) == entry.turn = c

\* markStreamError; no stream, no error.
Fatal(e) == IF e.turn = 0 THEN e ELSE [e EXCEPT !.fatal = TRUE, !.tool = "none"]

\* A mutant: finishStream, whosever turn the stream is.
FaultyFinished(e, c) ==
    [e EXCEPT !.streaming = FALSE,
              !.completion = IF e.done THEN "done"
                             ELSE IF abort[c] # "no" THEN "stopped" ELSE "none"]

\* finishStreamIfCurrent
Finished(e, c) ==
    IF e.turn = c
    THEN [e EXCEPT !.streaming = FALSE,
                   !.completion = IF e.done THEN "done"
                                  ELSE IF abort[c] # "no" THEN "stopped" ELSE "none"]
    ELSE e

\* Aborting the controller of the stream's turn, if it has one.
Aborted(reason) ==
    IF entry.turn = 0 THEN abort ELSE [abort EXCEPT ![entry.turn] = reason]

\* normalizeMessage
Normalized(m) ==
    [role |-> m.role, turn |-> m.turn, text |-> CutText(m.text),
     tools |-> FirstOf(ToolsCap, m.tools), cards |-> FirstOf(CardsCap, m.cards),
     images |-> m.images \ {"data"}]

\* saveMessages
Saved(messages) == LastOf(MessageCap, [i \in DOMAIN messages |-> Normalized(messages[i])])

\* appendMessage
SavedWith(messages, m) == LastOf(MessageCap, Append(messages, Normalized(m)))

\* What the panel shows, and what send continues: sessionMessages.
Shown == IF entry.turn # 0 THEN entry.messages ELSE stored

\* toAgentChatMessages: at most MessageCap messages, the first a user's, of
\* each its text only.
RequestOf(messages) ==
    LET posted == [i \in DOMAIN messages |->
                      [role |-> messages[i].role, turn |-> messages[i].turn,
                       text |-> CutText(messages[i].text)]]
        fromUser(s) ==
            LET i == SelectInSeq(s, LAMBDA m : m.role = "user")
            IN  IF i = 0 THEN <<>> ELSE SubSeq(s, i, Len(s))
    IN  fromUser(LastOf(MessageCap, fromUser(posted)))

-----------------------------------------------------------------------------
\* The user

\* send: an answer under way is aborted and thrown away, its question kept.
Send ==
    LET c == turns + 1
        interrupted == entry.streaming
        kept == IF interrupted THEN UpToQuestion(Shown) ELSE Shown
    IN  /\ opened
        /\ turns < MaxQuestions
        /\ turns' = c
        /\ abort' = IF interrupted THEN Aborted("dropped") ELSE abort
        /\ session' = TRUE
        /\ stored' = SavedWith(IF interrupted THEN Saved(kept) ELSE stored, Question(c))
        /\ entry' = Started(c, Append(kept, Question(c)))
        /\ run' = [run EXCEPT ![c] = "open"]
        /\ UNCHANGED <<opened, opens, due, events, routed, execVars>>

\* stop: the controller only; the run settles the rest.
Stop ==
    /\ opened
    /\ entry.streaming
    /\ abort[entry.turn] = "no"
    /\ abort' = Aborted("stopped")
    /\ UNCHANGED <<opened, opens, entry, session, stored, run, due, turns, events, routed, execVars>>

\* undo
Undo ==
    /\ opened
    /\ UndoLatest
    /\ UNCHANGED panel

\* clearScreen
ClearScreen ==
    /\ opened
    /\ OverlaysCleared
    /\ abort' = IF session THEN Aborted("dropped") ELSE abort
    /\ entry' = NoStream
    /\ stored' = <<>>
    /\ UNCHANGED <<opened, opens, session, run, due, turns, events, routed>>

\* handleError of MAP_NOT_READY: an error of the last turn routed, if any.
NotReady(e) == IF routed THEN Fatal(e) ELSE e

\* replayAction: a card of a message shown.
Replay(kind) ==
    /\ opened
    /\ view > 0
    /\ \E i \in DOMAIN Shown : kind \in Range(Shown[i].cards)
    /\ \/ /\ Ready /\ Carry(kind)
          /\ UNCHANGED panel
       \/ /\ Refused(kind)
          /\ entry' = NotReady(entry)
          /\ UNCHANGED <<opened, opens, session, stored, run, abort, due, turns, events, routed>>

\* The panel is unmounted: its streams are aborted; its executor is gone and
\* the next opening will make another.
Close ==
    /\ opened
    /\ opened' = FALSE
    /\ abort' = Aborted("closed")
    /\ NewExecutor
    /\ UNCHANGED <<opens, entry, session, stored, run, due, turns, events, routed, map, fetches, executed>>

Open ==
    /\ ~opened
    /\ opens < MaxOpens
    /\ Begun = {}
    /\ opened' = TRUE
    /\ opens' = opens + 1
    /\ entry' = NoStream
    /\ routed' = FALSE
    /\ UNCHANGED <<session, stored, run, abort, due, turns, events, execVars>>

-----------------------------------------------------------------------------
\* The runs

\* An event of the run of turn c is read; dispatchEvent drops it unless the
\* turn is still the stream's.
Reads(c) ==
    /\ opened
    /\ run[c] = "open"
    /\ events < MaxReads
    /\ events' = events + 1
    /\ routed' = (routed \/ IsCurrent(c))
    /\ UNCHANGED <<opened, opens, session, stored, abort, turns>>

Delta(c) ==
    /\ Reads(c)
    /\ entry' = IF IsCurrent(c) THEN [entry EXCEPT !.messages = AfterDelta(c, @)] ELSE entry
    /\ UNCHANGED <<run, due, execVars>>

ToolStart(c, name) ==
    /\ Reads(c)
    /\ due' = [due EXCEPT ![c][name] = @ + 1]
    /\ entry' = IF IsCurrent(c)
                THEN [entry EXCEPT !.messages = AfterToolStart(c, @, name), !.tool = name]
                ELSE entry
    /\ UNCHANGED <<run, execVars>>

\* The server reports each tool it began, once.
ToolDone(c, name) ==
    /\ Reads(c)
    /\ due[c][name] > 0
    /\ due' = [due EXCEPT ![c][name] = @ - 1]
    /\ entry' = IF IsCurrent(c)
                THEN [entry EXCEPT !.messages = AfterToolDone(c, @, name), !.tool = "none"]
                ELSE entry
    /\ UNCHANGED <<run, execVars>>

Images(c, kind) ==
    /\ Reads(c)
    /\ entry' = IF IsCurrent(c) THEN [entry EXCEPT !.messages = AfterImages(c, @, kind)] ELSE entry
    /\ UNCHANGED <<run, due, execVars>>

\* How a run's last event is meant: done, an error of the turn, or an error
\* whose code handleError passes to the route's notice instead.
LastEvents == {"done", "error", "routeError"}

LastEvent(c, kind) ==
    /\ Reads(c)
    /\ run' = [run EXCEPT ![c] = "answered"]
    /\ entry' = IF ~IsCurrent(c) \/ kind = "routeError" THEN entry
                ELSE IF kind = "error" THEN Fatal(entry)
                ELSE [entry EXCEPT !.done = TRUE, !.completion = "done", !.tool = "none"]
    /\ UNCHANGED <<due, execVars>>

\* An action: carried out, dropped by the throttle, or refused while there is
\* no live view; without an executor, or of another turn, nothing.  Its card
\* is shown when it is carried out (a route's before its geometry is there).
Action(c, kind) ==
    /\ Reads(c)
    /\ \/ /\ IsCurrent(c) /\ view > 0
          /\ \/ /\ Ready /\ Carry(kind)
                /\ entry' = [entry EXCEPT !.messages = AfterAction(c, @, kind)]
             \/ Throttled(kind) /\ UNCHANGED entry
             \/ Refused(kind) /\ entry' = Fatal(entry)
       \/ /\ ~IsCurrent(c) \/ view = 0
          /\ UNCHANGED <<entry, execVars>>
    /\ UNCHANGED <<run, due>>

\* A mutant: an aborted run stores nothing.
FaultyRunEnds(c, failed) ==
    LET e == Finished(IF failed /\ IsCurrent(c) THEN Fatal(entry) ELSE entry, c)
    IN  /\ c \in Begun
        /\ failed => abort[c] = "no"
        /\ run' = [run EXCEPT ![c] = "ended"]
        /\ entry' = e
        /\ stored' = IF IsCurrent(c) /\ abort[c] = "no" THEN Saved(e.messages) ELSE stored
        /\ UNCHANGED <<opened, opens, session, abort, due, turns, events, routed, execVars>>

\* The run is over: the response closed, the reading aborted, or it failed.
\* Its finally settles the stream and stores its messages, if the stream is
\* still this turn's.  The state of a closed panel may or may not be updated.
RunEnds(c, failed) ==
    LET e == Finished(IF failed /\ IsCurrent(c) THEN Fatal(entry) ELSE entry, c)
    IN  /\ c \in Begun
        /\ failed => abort[c] = "no"
        /\ run' = [run EXCEPT ![c] = "ended"]
        /\ entry' = e
        /\ \/ stored' = IF IsCurrent(c) THEN Saved(e.messages) ELSE stored
           \/ ~opened /\ stored' = stored
        /\ UNCHANGED <<opened, opens, session, abort, due, turns, events, routed, execVars>>

-----------------------------------------------------------------------------

PanelInit ==
    /\ \E v \in {0, 1} : ExecutorInit(v)
    /\ opened = TRUE /\ opens = 1
    /\ entry = NoStream
    /\ session = FALSE /\ stored = <<>>
    /\ run = [c \in Turns |-> "none"]
    /\ abort = [c \in Turns |-> "no"]
    /\ due = [c \in Turns |-> [n \in ToolNames |-> 0]]
    /\ turns = 0 /\ events = 0 /\ routed = FALSE

\* The fetch of a route, and the coming and going of views.
MapSteps ==
    /\ \/ \E f \in fetches, ok \in BOOLEAN : RouteAnswered(f, ok)
       \/ ViewDestroyed
       \/ ViewReplaced(opened)
    /\ UNCHANGED panel

PanelNext ==
    \/ Send \/ Stop \/ Undo \/ ClearScreen \/ Close \/ Open
    \/ \E kind \in ActionKinds : Replay(kind)
    \/ \E c \in Turns :
          \/ Delta(c)
          \/ \E name \in ToolNames : ToolStart(c, name) \/ ToolDone(c, name)
          \/ \E kind \in LastEvents : LastEvent(c, kind)
          \/ \E kind \in ImageKinds : Images(c, kind)
          \/ \E kind \in ActionKinds : Action(c, kind)
          \/ \E failed \in BOOLEAN : RunEnds(c, failed)
    \/ MapSteps

PanelSpec == PanelInit /\ [][PanelNext]_panelVars

-----------------------------------------------------------------------------
\* Properties

Messages == [role : {"user", "assistant"}, turn : Turns, text : Nat,
             tools : Seq([name : ToolNames, status : {"start", "done"}]), cards : Seq(ActionKinds),
             images : SUBSET ImageKinds]

PanelTypeOK ==
    /\ ExecutorTypeOK
    /\ entry.turn \in 0..turns /\ entry.messages \in Seq(Messages)
    /\ entry.tool \in ToolNames \cup {"none"}
    /\ stored \in Seq(Messages) /\ Len(stored) <= MessageCap
    /\ abort \in [Turns -> Reasons]
    /\ session = FALSE => stored = <<>> /\ entry = NoStream
    /\ \A c \in Turns : run[c] = "none" <=> c > turns

\* The state a turn shows is its own: the composer offers "stop" exactly while
\* the run of the stream's turn is going on, and a turn is marked stopped only
\* if its own controller was aborted, never by the late end of the turn it
\* interrupted.
TurnStateIsItsOwn ==
    entry.turn # 0 =>
        /\ entry.streaming <=> entry.turn \in Begun
        /\ entry.completion = "stopped" => abort[entry.turn] # "no" /\ run[entry.turn] = "ended"

\* What a reload would bring back is what is on the screen, cut to what a
\* session keeps: the shown messages at rest, and up to the question while an
\* answer is coming; nothing of a half answer, nothing lost of an earlier one
\* but what normalizeMessage cuts.
StoredFollowsShown ==
    opened /\ entry.turn # 0 =>
        stored = Saved(IF entry.streaming THEN UpToQuestion(entry.messages) ELSE entry.messages)

\* The half answer of a turn that the user interrupted or cleared appears
\* nowhere again: not on the screen, not in the store, and so in no request.
NoHalfAnswerKept ==
    \A s \in {entry.messages, stored} : \A i \in DOMAIN s :
        s[i].role = "assistant" => abort[s[i].turn] # "dropped"

\* The events of a turn change what comes after its own question only: a
\* report of a tool never settles a tool that an earlier, stopped turn left
\* running.
EarlierTurnsAreFrozen ==
    [][entry'.turn = entry.turn /\ entry.turn # 0 =>
          UpToQuestion(entry'.messages) = UpToQuestion(entry.messages)]_panelVars

\* What send posts is what POST /api/agent/chat accepts: at most MessageCap
\* messages of at most ContentMax, the first and the last a user's, the last
\* the new question.
RequestsAreAcceptable ==
    [][turns' > turns =>
          LET r == RequestOf(entry'.messages)
          IN  /\ r # <<>> /\ Len(r) <= MessageCap
              /\ Head(r).role = "user" /\ Last(r).role = "user" /\ Last(r).turn = turns'
              /\ \A i \in DOMAIN r : r[i].text <= ContentMax]_panelVars

\* The tool bar names a tool only while the answer is coming.  (A comment says
\* so of the code; a turn stopped while a tool runs leaves its name.)
ToolBarIsLive == entry.tool # "none" => entry.streaming

\* After clearing the screen no overlay of the agent is on the map.  (Overlays
\* drawn before the panel was closed and opened again stay.)
ClearScreenClears == [][ClearScreen => drawn' = {}]_panelVars
=============================================================================
