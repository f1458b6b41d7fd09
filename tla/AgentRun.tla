------------------------------ MODULE AgentRun ------------------------------
(***************************************************************************)
(* One POST /api/agent/chat: the route that writes server-sent events, the *)
(* runAgent generator, the EventQueue between it and the LLM client, and    *)
(* the client's attempts, timers and retries                                *)
(* (app/api/agent/chat/route.ts, lib/agent/run-agent.ts,                    *)
(* lib/agent/llm-provider.ts).                                              *)
(*                                                                          *)
(* An action is one task of the event loop, or one turn of the generator    *)
(* with the route's handling of the event it yields.  Network, timer and    *)
(* tool tasks run only when the generator has nothing left to do (Quiet):   *)
(* its turns are microtasks.  The two exceptions are the ends of a stream   *)
(* that come in the same task as its last chunk, before the generator has   *)
(* taken that chunk's events.                                               *)
(*                                                                          *)
(* Left out: the texts, reasoning events (never sent), images, arguments    *)
(* growing over chunks, and the order of an answer's actions.               *)
(***************************************************************************)
EXTENDS Naturals, Sequences, FiniteSets

CONSTANTS
    MaxTurns,       \* config.maxTurns
    MaxRetries,     \* retryDelays.length
    SentBudget,     \* events that fit in MAX_SSE_BYTES less the tail reserve
    HistoryLimit,   \* config.maxHistoryChars
    ToolSizes,      \* sizes a sanitized tool result may have
    Dialogues,      \* message lists toAgentChatMessages may return
    MaxEvents,      \* bound: events one attempt streams
    MaxChunk        \* bound: events in one chunk

ASSUME AgentBounds ==
    /\ MaxTurns \in Nat \ {0}
    /\ MaxRetries \in Nat
    /\ SentBudget \in Nat
    /\ HistoryLimit \in Nat \ {0}
    /\ ToolSizes \subseteq Nat
    /\ MaxEvents \in Nat
    /\ MaxChunk \in Nat \ {0}

\* The route refuses an empty list, and a list that does not begin with a question.
ASSUME DialoguesAreTexts ==
    \A d \in Dialogues :
        /\ d \in Seq([role : {"user", "assistant"}, size : Nat, calls : {{}}])
        /\ d # << >> /\ d[1].role = "user"

VARIABLES
    history,    \* messages sent to the LLM
    turn,       \* turns of runConversation
    noTools,    \* noTools: the unsupported_tools fallback was taken
    gen,        \* where the generator stands
    outbox,     \* events of the final turn still to yield
    toolsDone,  \* tool messages of the running tool calls
    error,      \* kind of the error the generator caught, or "none"
    items,      \* EventQueue.items
    closed,     \* EventQueue.closed
    round,      \* the promise streamRound returns: "pending" or "resolved"
    call,       \* where streamChat stands
    attempt,    \* the loop counter of streamChat
    sawPacket,  \* the attempt has had a packet: its first-packet timer is cleared
    doomed,     \* attemptAbort has been aborted
    overall,    \* overallAbort has been aborted
    text,       \* for each delta of the round, the request that streamed it
    calls,      \* tool calls of the round, in order
    aborted,    \* upstreamAbort has been aborted
    client,     \* "connected" or "gone"
    sent,       \* events written to the response
    open,       \* the response is not closed
    requests    \* requests sent to the LLM

conversation == <<history, turn, noTools>>
generator    == <<gen, outbox, toolsDone, error>>
queue        == <<items, closed, round>>
streamVars   == <<call, attempt, sawPacket, doomed, overall, text, calls>>
response     == <<aborted, client, sent, open>>
vars == <<conversation, generator, queue, streamVars, response, requests>>

Terminal == {"done", "truncated", "error"}
Events   == {"delta", "toolStart", "toolDone", "toolError", "action"} \cup Terminal
Kinds    == {"unsupported", "http", "network", "timeout", "aborted"}

-----------------------------------------------------------------------------
\* Trimming the history (trimHistory, frontDeletableEnd)

\* A call is numbered by its request and its place in the answer.
CallIds == Nat \X Nat
MessageType ==
    [role : {"system", "user", "assistant", "tool"}, size : Nat, calls : SUBSET CallIds]

Message(role, size, ids) == [role |-> role, size |-> size, calls |-> ids]

LeastOf(S) == CHOOSE i \in S : \A j \in S : i <= j
MostOf(S)  == CHOOSE i \in S : \A j \in S : j <= i

TotalSize(h) ==
    LET sum[n \in 0..Len(h)] == IF n = 0 THEN 0 ELSE sum[n - 1] + h[n].size
    IN  sum[Len(h)]

\* Start of the latest round: back over the trailing tool messages.
LatestRound(h) == MostOf({i \in 2..Len(h) : h[i].role # "tool" \/ i = 2})

\* First index from i on that holds no tool message, at most keep.
AfterTools(h, i, keep) ==
    IF i >= keep THEN i ELSE LeastOf({j \in i..keep : j = keep \/ h[j].role # "tool"})

\* Index after the front round: a user message, the next assistant message
\* and its tool messages.  A round without an assistant ends at the next user.
FrontEnd(h, keep) ==
    IF keep <= 2 THEN 2
    ELSE IF h[2].role # "user" THEN AfterTools(h, 3, keep)
    ELSE LET next == AfterTools(h, 3, keep)
         IN  IF next < keep /\ h[next].role = "assistant"
             THEN IF h[next].calls = {} THEN next + 1 ELSE AfterTools(h, next + 1, keep)
             ELSE next

\* Fault: deletes the oldest message instead of the oldest round.
FaultyWithoutFront(h) ==
    IF TotalSize(h) <= HistoryLimit \/ LatestRound(h) = 2 THEN h
    ELSE SubSeq(h, 1, 1) \o SubSeq(h, 3, Len(h))

WithoutFront(h) ==
    LET end == FrontEnd(h, LatestRound(h))
    IN  IF TotalSize(h) <= HistoryLimit THEN h
        ELSE SubSeq(h, 1, 1) \o SubSeq(h, end, Len(h))

\* The system message and at least one other.
Histories == {h \in Seq(MessageType) : Len(h) >= 2}

\* The loop of trimHistory; no more than n trips are left, since each but the
\* last takes a message.
Trimmed(h) ==
    LET trim[n \in 0..Len(h)] ==
            [g \in Histories |->
                IF n = 0 \/ WithoutFront(g) = g THEN g ELSE trim[n - 1][WithoutFront(g)]]
    IN  trim[Len(h)][h]

-----------------------------------------------------------------------------
\* The generator has no microtask to run.
Quiet == gen \in {"waiting", "tools", "ended"} \/ (gen = "round" /\ round = "pending")

InAttempt == call \in {"fetching", "reading"}
Active    == InAttempt \/ call = "backoff"

\* upstreamAbort.abort(): the listeners of streamChat and of a running attempt.
AbortUpstream ==
    /\ aborted' = TRUE
    /\ overall' = (overall \/ Active)
    /\ doomed' = (doomed \/ InAttempt)

\* The route leaves its loop; its finally aborts the upstream.
CloseWith(events) ==
    /\ sent' = events
    /\ open' = FALSE
    /\ gen' = "ended"
    /\ AbortUpstream

\* Fault: a budget overrun writes the truncation and reads on.
ReadingOnDeliver(event, next) ==
    IF aborted THEN CloseWith(sent)
    ELSE /\ sent' = Append(sent, IF Len(sent) = SentBudget THEN "truncated" ELSE event)
         /\ gen' = next
         /\ UNCHANGED <<aborted, open, overall, doomed>>

\* Fault: the route does not look at the aborted signal.
DeafDeliver(event, next) ==
    IF Len(sent) >= SentBudget THEN CloseWith(Append(sent, "truncated"))
    ELSE /\ sent' = Append(sent, event)
         /\ gen' = next
         /\ UNCHANGED <<aborted, open, overall, doomed>>

\* The route's handling of an event the generator yields.
Deliver(event, next) ==
    IF aborted THEN CloseWith(sent)
    ELSE IF Len(sent) >= SentBudget THEN CloseWith(Append(sent, "truncated"))
    ELSE /\ sent' = Append(sent, event)
         /\ gen' = next
         /\ UNCHANGED <<aborted, open, overall, doomed>>

\* streamRound: a queue, a promise and a first attempt.  The generator waits.
StartRound ==
    /\ gen' = "waiting"
    /\ call' = "fetching" /\ attempt' = 0 /\ sawPacket' = FALSE
    /\ doomed' = FALSE /\ overall' = FALSE
    /\ text' = << >> /\ calls' = << >>
    /\ items' = << >> /\ closed' = FALSE /\ round' = "pending"
    /\ error' = "none"
    /\ toolsDone' = << >>
    /\ requests' = requests + 1

Init ==
    /\ history \in {<<Message("system", 1, {})>> \o d : d \in Dialogues}
    /\ turn = 0 /\ noTools = FALSE
    /\ gen = "waiting" /\ outbox = << >> /\ toolsDone = << >> /\ error = "none"
    /\ items = << >> /\ closed = FALSE /\ round = "pending"
    /\ call = "fetching" /\ attempt = 0 /\ sawPacket = FALSE
    /\ doomed = FALSE /\ overall = FALSE
    /\ text = << >> /\ calls = << >>
    /\ aborted = FALSE /\ client = "connected" /\ sent = << >> /\ open = TRUE
    /\ requests = 1

-----------------------------------------------------------------------------
\* The LLM client (streamChat)

\* queue.fail: a waiting generator gets the error; otherwise it is kept nowhere.
Fail(kind) ==
    /\ call' = "settled"
    /\ closed' = TRUE
    /\ IF gen = "waiting"
       THEN gen' = "failed" /\ error' = kind
       ELSE UNCHANGED <<gen, error>>
    /\ UNCHANGED <<items, round, attempt>>

\* The catch around an attempt, for an error isRetryableProviderError accepts.
RetryOrFail(kind) ==
    IF attempt < MaxRetries
    THEN /\ call' = "backoff"
         /\ UNCHANGED <<gen, error, queue, attempt>>
    ELSE Fail(kind)

Untouched == <<conversation, outbox, toolsDone, response, requests, text, calls>>

ResponseStarts ==
    /\ Quiet /\ call = "fetching" /\ ~doomed
    /\ call' = "reading"
    /\ UNCHANGED <<Untouched, gen, error, queue, attempt, sawPacket, doomed, overall>>

\* 408, 429, 5xx or a network error before the response.
AttemptFails ==
    /\ Quiet /\ call = "fetching" /\ ~doomed
    /\ \E kind \in {"http", "network"} : RetryOrFail(kind)
    /\ UNCHANGED <<Untouched, sawPacket, doomed, overall>>

\* 400 or 422 whose body rejects the tools, and any other status.
AttemptRefused ==
    /\ Quiet /\ call = "fetching" /\ ~doomed
    /\ \E kind \in {"unsupported", "http"} : Fail(kind)
    /\ UNCHANGED <<Untouched, sawPacket, doomed, overall>>

OwnCalls == {i \in 1..Len(calls) : calls[i][1] = requests}
Streamed ==
    Cardinality(OwnCalls) + Cardinality({i \in 1..Len(text) : text[i] = requests})

Chunks == UNION {[1..n -> {"delta", "toolStart"}] : n \in 1..MaxChunk}

\* The deltas of a chunk and its new tool calls, each with its event.
ChunkArrives(chunk) ==
    LET deltas == Cardinality({i \in DOMAIN chunk : chunk[i] = "delta"})
        starts == Len(chunk) - deltas
        own    == Cardinality(OwnCalls)
    IN
    /\ Quiet /\ call = "reading" /\ ~doomed
    /\ Streamed + Len(chunk) <= MaxEvents
    /\ sawPacket' = TRUE
    /\ text' = text \o [i \in 1..deltas |-> requests]
    /\ calls' = calls \o [i \in 1..starts |-> <<requests, own + i>>]
    /\ items' = items \o chunk
    /\ gen' = IF gen = "waiting" THEN "taking" ELSE gen
    /\ UNCHANGED <<conversation, outbox, toolsDone, error, closed, round, call, attempt,
                   doomed, overall, response, requests>>

\* Fault: close does not wake a waiting generator.
FaultyStreamEnds ==
    /\ call = "reading" /\ ~doomed
    /\ call' = "settled"
    /\ closed' = TRUE /\ round' = "resolved"
    /\ UNCHANGED <<Untouched, gen, error, items, attempt, sawPacket, doomed, overall>>

\* [DONE] or the end of the body: onDone.
StreamEnds ==
    /\ call = "reading" /\ ~doomed
    /\ call' = "settled"
    /\ closed' = TRUE /\ round' = "resolved"
    /\ gen' = IF gen = "waiting" THEN "taking" ELSE gen
    /\ UNCHANGED <<Untouched, error, items, attempt, sawPacket, doomed, overall>>

\* The connection breaks after the response has started.
StreamBreaks ==
    /\ call = "reading" /\ ~doomed
    /\ RetryOrFail("network")
    /\ UNCHANGED <<Untouched, sawPacket, doomed, overall>>

\* The fetch or the read rejects with AbortError.
AttemptAborted ==
    /\ Quiet /\ InAttempt /\ doomed
    /\ Fail(IF aborted THEN "aborted" ELSE "timeout")
    /\ UNCHANGED <<Untouched, sawPacket, doomed, overall>>

FirstPacketTimer ==
    /\ Quiet /\ InAttempt /\ ~sawPacket /\ ~doomed
    /\ doomed' = TRUE
    /\ UNCHANGED <<Untouched, gen, error, queue, call, attempt, sawPacket, overall>>

\* 120 s pass only when an attempt has streamed: the first-packet timers of
\* all attempts and the backoffs add up to less.
OverallTimer ==
    /\ Quiet /\ Active /\ ~overall
    /\ text # << >> \/ calls # << >>
    /\ overall' = TRUE
    /\ doomed' = (doomed \/ InAttempt)
    /\ UNCHANGED <<Untouched, gen, error, queue, call, attempt, sawPacket>>

\* sleep returns, by its timer or by the caller's abort; a fresh attempt whose
\* controller listens only for aborts to come.
BackoffEnds ==
    /\ Quiet /\ call = "backoff"
    /\ call' = "fetching" /\ attempt' = attempt + 1
    /\ sawPacket' = FALSE /\ doomed' = FALSE
    /\ requests' = requests + 1
    /\ UNCHANGED <<conversation, generator, queue, overall, text, calls, response>>

-----------------------------------------------------------------------------
\* The generator (runAgent, runConversation, streamRound) and the route

GenTakes ==
    /\ gen = "taking" /\ items # << >>
    /\ items' = Tail(items)
    /\ Deliver(Head(items), "taking")
    /\ UNCHANGED <<conversation, outbox, toolsDone, error, closed, round, call, attempt,
                   sawPacket, text, calls, client, requests>>

\* The queue is empty: wait for an event, or, once it is closed, for the round.
GenWaits ==
    /\ gen = "taking" /\ items = << >>
    /\ gen' = IF closed THEN "round" ELSE "waiting"
    /\ UNCHANGED <<conversation, outbox, toolsDone, error, queue, streamVars, response, requests>>

\* The round's text and calls: a final answer, the last turn, or tools to run.
RoundReturns ==
    /\ gen = "round" /\ round = "resolved"
    /\ \/ /\ calls = << >>
          /\ outbox' \in {<<"done">>, <<"action", "done">>}
          /\ gen' = "ending"
       \/ /\ calls # << >> /\ turn = MaxTurns - 1
          /\ outbox' = <<"truncated">>
          /\ gen' = "ending"
       \/ /\ calls # << >> /\ turn < MaxTurns - 1
          /\ gen' = "tools"
          /\ UNCHANGED outbox
    /\ UNCHANGED <<conversation, toolsDone, error, queue, streamVars, response, requests>>

\* One tool call returns, well or not; its message and its event.
ToolReturns ==
    /\ gen = "tools"
    /\ \E event \in {"toolDone", "toolError"}, size \in ToolSizes :
         /\ toolsDone' = Append(toolsDone, Message("tool", size, {calls[Len(toolsDone) + 1]}))
         /\ Deliver(event, IF Len(toolsDone) + 1 = Len(calls) THEN "turning" ELSE "tools")
    /\ UNCHANGED <<conversation, outbox, error, queue, call, attempt, sawPacket, text, calls,
                   client, requests>>

\* All tools have returned: the history grows, is trimmed, and a round starts.
NextTurn ==
    /\ gen = "turning"
    /\ turn' = turn + 1
    /\ history' = Trimmed(history
                          \o <<Message("assistant", Len(text), {calls[i] : i \in 1..Len(calls)})>>
                          \o toolsDone)
    /\ StartRound
    /\ UNCHANGED <<noTools, outbox, response>>

\* Fault: the fallback without tools is not limited to one.
EndlessGenFails ==
    /\ gen = "failed"
    /\ \/ /\ error = "unsupported"
          /\ noTools' = TRUE
          /\ StartRound
          /\ UNCHANGED <<history, turn, outbox, response>>
       \/ /\ error # "unsupported"
          /\ gen' = "ending"
          /\ outbox' = IF aborted \/ error = "aborted" THEN << >> ELSE <<"error">>
          /\ UNCHANGED <<conversation, toolsDone, error, queue, streamVars, response, requests>>

\* Fault: a timeout is taken for the caller's abort.
SilentGenFails ==
    /\ gen = "failed"
    /\ \/ /\ error = "unsupported" /\ ~noTools
          /\ noTools' = TRUE
          /\ StartRound
          /\ UNCHANGED <<history, turn, outbox, response>>
       \/ /\ error # "unsupported" \/ noTools
          /\ gen' = "ending"
          /\ outbox' = IF error \in {"aborted", "timeout"} THEN << >> ELSE <<"error">>
          /\ UNCHANGED <<conversation, toolsDone, error, queue, streamVars, response, requests>>

\* The round failed: once without tools, then silence or an error event.
GenFails ==
    /\ gen = "failed"
    /\ \/ /\ error = "unsupported" /\ ~noTools
          /\ noTools' = TRUE
          /\ StartRound
          /\ UNCHANGED <<history, turn, outbox, response>>
       \/ /\ error # "unsupported" \/ noTools
          /\ gen' = "ending"
          /\ outbox' = IF aborted \/ error = "aborted" THEN << >> ELSE <<"error">>
          /\ UNCHANGED <<conversation, toolsDone, error, queue, streamVars, response, requests>>

\* The last events, then the end of the generator: the route closes the response.
Ending ==
    /\ gen = "ending"
    /\ IF outbox = << >>
       THEN CloseWith(sent) /\ UNCHANGED outbox
       ELSE Deliver(Head(outbox), "ending") /\ outbox' = Tail(outbox)
    /\ UNCHANGED <<conversation, toolsDone, error, queue, call, attempt, sawPacket, text, calls,
                   client, requests>>

\* The request's signal aborts: the client stopped the answer or went away.
ClientLeaves ==
    /\ Quiet /\ open /\ client = "connected"
    /\ client' = "gone"
    /\ AbortUpstream
    /\ UNCHANGED <<conversation, generator, queue, call, attempt, sawPacket, text, calls,
                   sent, open, requests>>

Timers == FirstPacketTimer \/ OverallTimer \/ BackoffEnds \/ AttemptAborted
Generator == GenTakes \/ GenWaits \/ RoundReturns \/ NextTurn \/ GenFails \/ Ending

Next ==
    \/ ResponseStarts \/ AttemptFails \/ AttemptRefused
    \/ \E chunk \in Chunks : ChunkArrives(chunk)
    \/ StreamEnds \/ StreamBreaks \/ Timers
    \/ Generator \/ ToolReturns \/ ClientLeaves

\* Microtasks run; timers fire; aborted fetches reject; a tool call returns
\* (each has its own timeout).  The LLM and the client owe nothing.
Fairness ==
    /\ WF_vars(Generator) /\ WF_vars(ToolReturns)
    /\ WF_vars(FirstPacketTimer) /\ WF_vars(OverallTimer)
    /\ WF_vars(BackoffEnds) /\ WF_vars(AttemptAborted)

Spec == Init /\ [][Next]_vars /\ Fairness

-----------------------------------------------------------------------------
\* Properties

\* Types of the variables.
AgentTypeOK ==
    /\ history \in Seq(MessageType) /\ turn \in 0..(MaxTurns - 1) /\ noTools \in BOOLEAN
    /\ gen \in {"waiting", "taking", "round", "tools", "turning", "failed", "ending", "ended"}
    /\ outbox \in Seq(Events) /\ toolsDone \in Seq(MessageType)
    /\ error \in Kinds \cup {"none"}
    /\ items \in Seq(Events) /\ closed \in BOOLEAN /\ round \in {"pending", "resolved"}
    /\ call \in {"fetching", "reading", "backoff", "settled"} /\ attempt \in 0..MaxRetries
    /\ sawPacket \in BOOLEAN /\ doomed \in BOOLEAN /\ overall \in BOOLEAN
    /\ text \in Seq(Nat) /\ calls \in Seq(CallIds)
    /\ aborted \in BOOLEAN /\ client \in {"connected", "gone"}
    /\ sent \in Seq(Events) /\ open \in BOOLEAN /\ requests \in Nat

\* The client sees at most one end of the answer, and nothing after it: neither
\* a budget overrun, nor an error after a retry, nor the fallback writes a
\* second terminal event or a late delta.
TerminalIsLast == \A i \in 1..Len(sent) : sent[i] \in Terminal => i = Len(sent)

\* A response is closed on a terminal event unless the client left before it.
ClosedWithTerminal ==
    ~open /\ client = "connected" => sent # << >> /\ sent[Len(sent)] \in Terminal

\* What the LLM is sent is well formed after any number of trims: every tool
\* message follows its assistant message with only tool messages between, and
\* every call of an assistant message is answered (else the provider refuses
\* the request with 400).
Paired(h) ==
    \A i \in 1..Len(h) :
        /\ h[i].role = "tool" =>
             \E j \in 1..(i - 1) :
                /\ h[j].role = "assistant" /\ h[i].calls \subseteq h[j].calls
                /\ \A k \in (j + 1)..(i - 1) : h[k].role = "tool"
        /\ h[i].role = "assistant" =>
             \A id \in h[i].calls :
                \E j \in (i + 1)..Len(h) :
                    /\ h[j].role = "tool" /\ h[j].calls = {id}
                    /\ \A k \in (i + 1)..j : h[k].role = "tool"

HistoryWellFormed == history[1].role = "system" /\ Paired(history)

\* trimHistory stops only when the history fits or nothing before the latest
\* round can go.
HistoryFits ==
    turn > 0 => TotalSize(history) <= HistoryLimit \/ LatestRound(history) = 2

\* A trim takes away as much as it has to and nothing that belongs together.
HistoryIsSound == HistoryWellFormed /\ HistoryFits

\* One chat costs a bounded number of LLM requests: the fallback restarts a
\* turn once, and each round retries at most MaxRetries times.
RequestsBounded == requests <= (MaxTurns + 1) * (MaxRetries + 1)

\* Nothing is written once the client has gone, whatever was still queued.
NothingSentAfterLeaving == [][client = "gone" => sent' = sent]_vars

\* An attempt that started after its cancellation, which therefore cannot reach it.
Escaped == InAttempt /\ overall /\ ~doomed

\* streamChat rejected while the generator was not waiting: the error is kept nowhere.
FailureLost == call = "settled" /\ round = "pending" /\ error = "none"

\* Every chat comes to an end, its response closed and its LLM call settled,
\* with a server that may fall silent at any point: the timers see to it.  The
\* two exceptions are the findings below.
ChatEnds == [](~Escaped /\ ~FailureLost) => <>[](~open /\ call = "settled")

\* "2 retries before the first packet" (llm-provider.ts:12): a round's text and
\* tool calls come from one attempt.  An error after the first packet is retried
\* as well: the answer starts again behind the part already sent.
OneAttemptPerRound ==
    \A i \in 1..Len(text), j \in 1..Len(calls) : text[i] = text[1] /\ calls[j][1] = text[1]

\* "the caller has aborted: no request is sent" (agent-llm-provider.test.mjs:484).
\* Only the entry of streamChat looks: an abort during the backoff cuts the
\* sleep short and a new attempt starts that no longer hears of it.
NoRequestAfterAbort == [][aborted => requests' = requests]_vars

\* "120 s limit on the whole streamChat call" (llm-provider.ts:11).  The limit
\* reached during the backoff stops neither the sleep nor the next attempt.
NoAttemptPastTheLimit == [][overall /\ ~aborted /\ call = "backoff" => call' # "fetching"]_vars

\* "errors are thrown as they are, and runAgent classifies them"
\* (llm-provider.ts:16): once the LLM call has failed the response ends.
\* An error raised while the generator is busy with queued events is dropped
\* by queue.fail, and the generator awaits a promise nobody resolves.
FailureEndsTheChat == (call = "settled" /\ round = "pending") ~> ~open
=============================================================================
