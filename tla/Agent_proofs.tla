----------------------------- MODULE Agent_proofs -----------------------------
(* Proofs about the agent, for every value of the bounds.                     *)
(*                                                                            *)
(* AgentRun, for every number of turns and retries, every budget and every    *)
(* dialogue: one terminal event, at the end; nothing sent to a client that    *)
(* left; a bounded number of requests; a history the provider accepts,        *)
(* however often it is trimmed.                                               *)
(*                                                                            *)
(* AgentPanel with its MapExecutor, for every number of questions, events,    *)
(* actions and views: undo and clear take back what was done; a turn's state  *)
(* is its own; what is stored is what is shown; no event touches an earlier   *)
(* turn.                                                                      *)
EXTENDS AgentRun, AgentPanel, SequenceTheorems, FiniteSetTheorems, WellFoundedInduction, TLAPS

\* The parts of the state the arguments need, with their types.
AgentShape ==
    /\ gen \in {"waiting", "taking", "round", "tools", "turning", "failed", "ending", "ended"}
    /\ sent \in Seq(Events)
    /\ items \in Seq(Events \ Terminal)
    /\ outbox \in Seq(Events)

\* The final events hold one terminal event, the last of them.
OutboxEndsOnce == \A i \in 1..Len(outbox) : outbox[i] \in Terminal => i = Len(outbox)

\* Once a terminal event is written there is nothing left to write.
WrittenIsOver ==
    (\E i \in 1..Len(sent) : sent[i] \in Terminal)
        => gen = "ended" \/ (gen = "ending" /\ outbox = << >>)

SentInv == AgentShape /\ OutboxEndsOnce /\ WrittenIsOver /\ TerminalIsLast

-----------------------------------------------------------------------------
\* Appending to a sequence without terminal events keeps TerminalIsLast.
LEMMA AppendEnd ==
    ASSUME NEW s \in Seq(Events), NEW e \in Events,
           ~ \E i \in 1..Len(s) : s[i] \in Terminal
    PROVE  /\ Append(s, e) \in Seq(Events)
           /\ \A i \in 1..Len(Append(s, e)) :
                 Append(s, e)[i] \in Terminal => i = Len(Append(s, e))
           /\ e \notin Terminal => ~ \E i \in 1..Len(Append(s, e)) : Append(s, e)[i] \in Terminal
OBVIOUS

\* Final events: one event, or one that is not terminal and a second one.
LEMMA OneEvent ==
    ASSUME NEW e \in Events
    PROVE  <<e>> \in Seq(Events) /\ Len(<<e>>) = 1
OBVIOUS

LEMMA TwoEvents ==
    ASSUME NEW e \in Events \ Terminal, NEW f \in Events
    PROVE  /\ <<e, f>> \in Seq(Events)
           /\ \A i \in 1..Len(<<e, f>>) : <<e, f>>[i] \in Terminal => i = Len(<<e, f>>)
<1>1. <<e, f>> \in Seq(Events) /\ Len(<<e, f>>) = 2 /\ <<e, f>>[1] = e
  OBVIOUS
<1> QED BY <1>1

\* Deliver, from a state in which nothing terminal has been written.
LEMMA DeliverSafe ==
    ASSUME SentInv, NEW e \in Events, NEW g,
           ~ \E i \in 1..Len(sent) : sent[i] \in Terminal,
           Deliver(e, g)
    PROVE  /\ sent' \in Seq(Events)
           /\ \A i \in 1..Len(sent') : sent'[i] \in Terminal => i = Len(sent')
           /\ gen' = "ended" \/ gen' = g
           /\ \/ gen' = "ended"
              \/ e \in Terminal
              \/ ~ \E i \in 1..Len(sent') : sent'[i] \in Terminal
<1>1. CASE aborted
  BY <1>1 DEF Deliver, CloseWith, SentInv, AgentShape, TerminalIsLast
<1>2. CASE ~aborted /\ Len(sent) >= SentBudget
  <2>1. "truncated" \in Events BY DEF Events, Terminal
  <2>2. sent' = Append(sent, "truncated") /\ gen' = "ended"
    BY <1>2 DEF Deliver, CloseWith
  <2> QED BY <2>1, <2>2, AppendEnd DEF SentInv, AgentShape
<1>3. CASE ~aborted /\ ~(Len(sent) >= SentBudget)
  <2>1. sent' = Append(sent, e) /\ gen' = g
    BY <1>3 DEF Deliver
  <2> QED BY <2>1, AppendEnd DEF SentInv, AgentShape
<1> QED BY <1>1, <1>2, <1>3

\* A step that leaves sent and outbox alone and does not resurrect the generator.
LEMMA Undisturbed ==
    ASSUME SentInv, UNCHANGED <<sent, outbox>>,
           items' \in Seq(Events \ Terminal),
           gen' \in {"waiting", "taking", "round", "tools", "turning", "failed", "ending", "ended"},
           gen' = gen \/ (gen # "ended" /\ gen # "ending")
    PROVE  SentInv'
BY DEF SentInv, AgentShape, OutboxEndsOnce, WrittenIsOver, TerminalIsLast

\* A new round also leaves them alone.
LEMMA RoundUndisturbed ==
    ASSUME SentInv, StartRound, UNCHANGED <<sent, outbox>>, gen # "ended", gen # "ending"
    PROVE  SentInv'
<1>1. items' \in Seq(Events \ Terminal) BY DEF StartRound
<1>2. gen' = "waiting" BY DEF StartRound
<1> QED BY <1>1, <1>2, Undisturbed

LEMMA InitSent == Init => SentInv
BY DEF Init, SentInv, AgentShape, OutboxEndsOnce, WrittenIsOver, TerminalIsLast

LEMMA FailUndisturbed ==
    ASSUME SentInv, NEW kind, Fail(kind) \/ RetryOrFail(kind), UNCHANGED <<sent, outbox>>
    PROVE  SentInv'
<1>1. UNCHANGED items BY DEF Fail, RetryOrFail, queue
<1>2. gen' = gen \/ (gen = "waiting" /\ gen' = "failed") BY DEF Fail, RetryOrFail
<1>3. items' \in Seq(Events \ Terminal) BY <1>1 DEF SentInv, AgentShape
<1> QED BY <1>2, <1>3, Undisturbed DEF SentInv, AgentShape

LEMMA NextSent == SentInv /\ [Next]_vars => SentInv'
<1> SUFFICES ASSUME SentInv, [Next]_vars PROVE SentInv'
  OBVIOUS
<1> USE DEF Untouched, conversation, generator, queue, streamVars, response
<1>t. /\ gen \in {"waiting", "taking", "round", "tools", "turning", "failed", "ending", "ended"}
      /\ sent \in Seq(Events) /\ items \in Seq(Events \ Terminal) /\ outbox \in Seq(Events)
  BY DEF SentInv, AgentShape
<1>1. CASE ResponseStarts
  BY <1>1, <1>t, Undisturbed DEF ResponseStarts
<1>2. CASE AttemptFails
  <2>1. PICK kind \in {"http", "network"} : RetryOrFail(kind) BY <1>2 DEF AttemptFails
  <2> QED BY <1>2, <2>1, FailUndisturbed DEF AttemptFails
<1>3. CASE AttemptRefused
  <2>1. PICK kind \in {"unsupported", "http"} : Fail(kind) BY <1>3 DEF AttemptRefused
  <2> QED BY <1>3, <2>1, FailUndisturbed DEF AttemptRefused
<1>4. ASSUME NEW chunk \in Chunks, ChunkArrives(chunk) PROVE SentInv'
  <2>1. chunk \in Seq(Events \ Terminal) BY DEF Chunks, Events, Terminal
  <2>2. items' = items \o chunk /\ UNCHANGED <<sent, outbox>> BY <1>4 DEF ChunkArrives
  <2>3. items' \in Seq(Events \ Terminal) BY <1>t, <2>1, <2>2
  <2>4. gen' = gen \/ (gen = "waiting" /\ gen' = "taking") BY <1>4 DEF ChunkArrives
  <2> QED BY <1>t, <2>2, <2>3, <2>4, Undisturbed
<1>5. CASE StreamEnds
  <2>1. UNCHANGED <<sent, outbox, items>> BY <1>5 DEF StreamEnds
  <2>2. gen' = gen \/ (gen = "waiting" /\ gen' = "taking") BY <1>5 DEF StreamEnds
  <2> QED BY <1>t, <2>1, <2>2, Undisturbed
<1>6. CASE StreamBreaks
  BY <1>6, FailUndisturbed DEF StreamBreaks
<1>7. CASE Timers
  <2>1. CASE FirstPacketTimer BY <2>1, <1>t, Undisturbed DEF FirstPacketTimer
  <2>2. CASE OverallTimer BY <2>2, <1>t, Undisturbed DEF OverallTimer
  <2>3. CASE BackoffEnds BY <2>3, <1>t, Undisturbed DEF BackoffEnds
  <2>4. CASE AttemptAborted
    <3>1. PICK kind : Fail(kind) BY <2>4 DEF AttemptAborted
    <3> QED BY <2>4, <3>1, FailUndisturbed DEF AttemptAborted
  <2> QED BY <1>7, <2>1, <2>2, <2>3, <2>4 DEF Timers
<1>8. CASE GenTakes
  <2>1. Head(items) \in Events \ Terminal /\ items' \in Seq(Events \ Terminal)
    BY <1>8, <1>t DEF GenTakes
  <2>2. ~ \E i \in 1..Len(sent) : sent[i] \in Terminal
    BY <1>8 DEF GenTakes, SentInv, WrittenIsOver
  <2>3. Deliver(Head(items), "taking") /\ UNCHANGED outbox BY <1>8 DEF GenTakes
  <2>4. /\ sent' \in Seq(Events)
        /\ \A i \in 1..Len(sent') : sent'[i] \in Terminal => i = Len(sent')
        /\ gen' = "ended" \/ gen' = "taking"
        /\ gen' = "ended" \/ ~ \E i \in 1..Len(sent') : sent'[i] \in Terminal
    BY <2>1, <2>2, <2>3, DeliverSafe
  <2> QED BY <2>1, <2>3, <2>4 DEF SentInv, AgentShape, OutboxEndsOnce, WrittenIsOver, TerminalIsLast
<1>9. CASE GenWaits
  <2>1. UNCHANGED <<sent, outbox, items>> /\ gen = "taking" /\ gen' \in {"round", "waiting"}
    BY <1>9 DEF GenWaits
  <2> QED BY <2>1, <1>t, Undisturbed
<1>10. CASE RoundReturns
  <2>1. UNCHANGED <<sent, items>> /\ gen = "round" BY <1>10 DEF RoundReturns
  <2>2. ~ \E i \in 1..Len(sent) : sent[i] \in Terminal
    BY <2>1 DEF SentInv, WrittenIsOver
  <2>3. CASE gen' = "tools" /\ outbox' = outbox
    BY <2>1, <2>3, <1>t, Undisturbed
  <2>4. CASE gen' = "ending" /\ outbox' \in {<<"done">>, <<"action", "done">>, <<"truncated">>}
    <3>1. ASSUME outbox' \in {<<"done">>, <<"truncated">>}
          PROVE  outbox' \in Seq(Events) /\ OutboxEndsOnce'
      <4>1. PICK e \in {"done", "truncated"} : outbox' = <<e>> BY <3>1
      <4>2. outbox' \in Seq(Events) /\ Len(outbox') = 1
        BY <4>1, OneEvent DEF Events, Terminal
      <4> QED BY <4>2 DEF OutboxEndsOnce
    <3>2. ASSUME outbox' = <<"action", "done">>
          PROVE  outbox' \in Seq(Events) /\ OutboxEndsOnce'
      <4>1. "action" \in Events \ Terminal /\ "done" \in Events BY DEF Events, Terminal
      <4> QED BY <3>2, <4>1, TwoEvents DEF OutboxEndsOnce
    <3>3. outbox' \in Seq(Events) /\ OutboxEndsOnce' BY <2>4, <3>1, <3>2
    <3> QED BY <2>1, <2>2, <2>4, <3>3 DEF SentInv, AgentShape, WrittenIsOver, TerminalIsLast
  <2> QED BY <1>10, <2>3, <2>4 DEF RoundReturns
<1>11. CASE ToolReturns
  <2>1. PICK event \in {"toolDone", "toolError"} :
          Deliver(event, IF Len(toolsDone) + 1 = Len(calls) THEN "turning" ELSE "tools")
    BY <1>11 DEF ToolReturns
  <2>2. UNCHANGED <<items, outbox>> /\ gen = "tools" BY <1>11 DEF ToolReturns
  <2>3. ~ \E i \in 1..Len(sent) : sent[i] \in Terminal
    BY <2>2 DEF SentInv, WrittenIsOver
  <2>4. event \in Events /\ event \notin Terminal BY DEF Events, Terminal
  <2>5. /\ sent' \in Seq(Events)
        /\ \A i \in 1..Len(sent') : sent'[i] \in Terminal => i = Len(sent')
        /\ gen' \in {"ended", "turning", "tools"}
        /\ gen' = "ended" \/ ~ \E i \in 1..Len(sent') : sent'[i] \in Terminal
    BY <2>1, <2>3, <2>4, DeliverSafe
  <2> QED BY <2>2, <2>5 DEF SentInv, AgentShape, OutboxEndsOnce, WrittenIsOver, TerminalIsLast
<1>12. CASE NextTurn
  BY <1>12, RoundUndisturbed DEF NextTurn
<1>13. CASE GenFails
  <2>1. CASE StartRound /\ UNCHANGED <<sent, outbox>>
    BY <1>13, <2>1, RoundUndisturbed DEF GenFails
  <2>2. CASE gen' = "ending" /\ UNCHANGED <<sent, items>> /\ outbox' \in {<< >>, <<"error">>}
    <3>1. outbox' \in Seq(Events) /\ OutboxEndsOnce'
      <4>1. CASE outbox' = << >> BY <4>1 DEF OutboxEndsOnce
      <4>2. ASSUME outbox' = <<"error">> PROVE outbox' \in Seq(Events) /\ OutboxEndsOnce'
        <5>1. "error" \in Events BY DEF Events, Terminal
        <5>2. outbox' \in Seq(Events) /\ Len(outbox') = 1 BY <4>2, <5>1, OneEvent
        <5> QED BY <5>2 DEF OutboxEndsOnce
      <4> QED BY <2>2, <4>1, <4>2
    <3>2. ~ \E i \in 1..Len(sent) : sent[i] \in Terminal
      BY <1>13 DEF GenFails, SentInv, WrittenIsOver
    <3> QED BY <2>2, <3>1, <3>2 DEF SentInv, AgentShape, WrittenIsOver, TerminalIsLast
  <2> QED BY <1>13, <2>1, <2>2 DEF GenFails
<1>14. CASE Ending
  <2>1. CASE outbox = << >>
    BY <1>14, <2>1 DEF Ending, CloseWith, SentInv, AgentShape, OutboxEndsOnce, WrittenIsOver, TerminalIsLast
  <2>2. CASE outbox # << >>
    <3>1. Deliver(Head(outbox), "ending") /\ outbox' = Tail(outbox) /\ UNCHANGED items
      BY <1>14, <2>2 DEF Ending
    <3>2. ~ \E i \in 1..Len(sent) : sent[i] \in Terminal
      BY <1>14, <2>2 DEF Ending, SentInv, WrittenIsOver
    <3>3. Head(outbox) \in Events /\ outbox' \in Seq(Events) BY <1>t, <2>2, <3>1
    <3>4. OutboxEndsOnce' BY <1>t, <2>2, <3>1 DEF SentInv, OutboxEndsOnce
    <3>5. Head(outbox) \in Terminal => outbox' = << >>
      <4>1. Head(outbox) = outbox[1] /\ 1 \in 1..Len(outbox) BY <1>t, <2>2
      <4>2. Head(outbox) \in Terminal => Len(outbox) = 1
        BY <4>1 DEF SentInv, OutboxEndsOnce
      <4> QED BY <4>2, <3>1, <1>t, <2>2
    <3>6. /\ sent' \in Seq(Events)
          /\ \A i \in 1..Len(sent') : sent'[i] \in Terminal => i = Len(sent')
          /\ gen' = "ended" \/ gen' = "ending"
          /\ \/ gen' = "ended"
             \/ Head(outbox) \in Terminal
             \/ ~ \E i \in 1..Len(sent') : sent'[i] \in Terminal
      BY <3>1, <3>2, <3>3, DeliverSafe
    <3> QED BY <1>t, <3>1, <3>3, <3>4, <3>5, <3>6 DEF SentInv, AgentShape, WrittenIsOver, TerminalIsLast
  <2> QED BY <2>1, <2>2
<1>15. CASE ClientLeaves
  BY <1>15, <1>t, Undisturbed DEF ClientLeaves
<1>16. CASE UNCHANGED vars
  BY <1>16, <1>t, Undisturbed DEF vars
<1> QED
  BY <1>1, <1>2, <1>3, <1>4, <1>5, <1>6, <1>7, <1>8, <1>9, <1>10, <1>11, <1>12, <1>13, <1>14,
     <1>15, <1>16 DEF Next, Generator

\* A response holds at most one terminal event, and it is the last one written,
\* whatever the LLM, the network, the tools and the client do (the route's loop
\* over runAgent).
THEOREM OneTerminalEvent == Spec => []TerminalIsLast
<1>1. SentInv => TerminalIsLast BY DEF SentInv
<1> QED BY InitSent, NextSent, <1>1, PTL DEF Spec

-----------------------------------------------------------------------------
\* Leaving aborts the upstream, and nothing undoes that.
GoneIsAborted == client = "gone" => aborted

LEMMA InitGone == Init => GoneIsAborted
BY DEF Init, GoneIsAborted

LEMMA NextGone ==
    GoneIsAborted /\ [Next]_vars
        => GoneIsAborted' /\ (client = "gone" => sent' = sent)
<1> SUFFICES ASSUME GoneIsAborted, [Next]_vars
             PROVE  GoneIsAborted' /\ (client = "gone" => sent' = sent)
  OBVIOUS
<1> USE DEF GoneIsAborted, Untouched, conversation, generator, queue, streamVars, response
<1>1. CASE ResponseStarts BY <1>1 DEF ResponseStarts
<1>2. CASE AttemptFails BY <1>2 DEF AttemptFails
<1>3. CASE AttemptRefused BY <1>3 DEF AttemptRefused
<1>4. ASSUME NEW chunk \in Chunks, ChunkArrives(chunk)
      PROVE  GoneIsAborted' /\ (client = "gone" => sent' = sent)
  BY <1>4 DEF ChunkArrives
<1>5. CASE StreamEnds BY <1>5 DEF StreamEnds
<1>6. CASE StreamBreaks BY <1>6 DEF StreamBreaks
<1>7. CASE Timers
  BY <1>7 DEF Timers, FirstPacketTimer, OverallTimer, BackoffEnds, AttemptAborted
<1>8. CASE GenTakes BY <1>8 DEF GenTakes, Deliver, CloseWith, AbortUpstream
<1>9. CASE GenWaits BY <1>9 DEF GenWaits
<1>10. CASE RoundReturns BY <1>10 DEF RoundReturns
<1>11. CASE ToolReturns
  <2>1. PICK event \in {"toolDone", "toolError"} :
          Deliver(event, IF Len(toolsDone) + 1 = Len(calls) THEN "turning" ELSE "tools")
    BY <1>11 DEF ToolReturns
  <2>2. UNCHANGED client BY <1>11 DEF ToolReturns
  <2> QED BY <2>1, <2>2 DEF Deliver, CloseWith, AbortUpstream
<1>12. CASE NextTurn BY <1>12 DEF NextTurn
<1>13. CASE GenFails BY <1>13 DEF GenFails
<1>14. CASE Ending BY <1>14 DEF Ending, Deliver, CloseWith, AbortUpstream
<1>15. CASE ClientLeaves BY <1>15 DEF ClientLeaves, AbortUpstream
<1>16. CASE UNCHANGED vars BY <1>16 DEF vars
<1> QED
  BY <1>1, <1>2, <1>3, <1>4, <1>5, <1>6, <1>7, <1>8, <1>9, <1>10, <1>11, <1>12, <1>13, <1>14,
     <1>15, <1>16 DEF Next, Generator

\* No event reaches a client that has left, whatever was queued when it did
\* (the route's look at upstreamAbort before every write).
THEOREM SilenceAfterLeaving == Spec => NothingSentAfterLeaving
<1>1. GoneIsAborted /\ [Next]_vars => [client = "gone" => sent' = sent]_vars
  BY NextGone
<1> QED BY InitGone, NextGone, <1>1, PTL DEF Spec, NothingSentAfterLeaving

-----------------------------------------------------------------------------
\* Requests per round are counted by attempt, rounds by turn and fallback.
Fallbacks == IF noTools THEN 1 ELSE 0

CountInv ==
    /\ turn \in Nat /\ turn <= MaxTurns - 1
    /\ gen \in {"tools", "turning"} => turn < MaxTurns - 1
    /\ noTools \in BOOLEAN
    /\ attempt \in Nat /\ attempt <= MaxRetries
    /\ call = "backoff" => attempt < MaxRetries
    /\ requests \in Nat
    /\ requests <= (turn + Fallbacks) * (MaxRetries + 1) + attempt + 1

\* A new round may add the requests of one more round.
LEMMA OneMoreRound ==
    ASSUME NEW x \in Nat, NEW r \in Nat, NEW a \in Nat, NEW q \in Nat,
           a <= r, q <= x * (r + 1) + a + 1
    PROVE  q + 1 <= (x + 1) * (r + 1) + 0 + 1
<1>1. (x + 1) * (r + 1) = x * (r + 1) + (r + 1) OBVIOUS
<1>2. x * (r + 1) \in Nat OBVIOUS
<1> QED BY <1>1, <1>2

LEMMA Monotone ==
    ASSUME NEW x \in Nat, NEW y \in Nat, NEW r \in Nat, x <= y
    PROVE  x * (r + 1) <= y * (r + 1)
<1>1. PICK d \in Nat : y = x + d BY y - x \in Nat
<1>2. y * (r + 1) = x * (r + 1) + d * (r + 1) BY <1>1
<1>3. d * (r + 1) \in Nat /\ x * (r + 1) \in Nat OBVIOUS
<1> QED BY <1>2, <1>3

LEMMA InitCount == Init => CountInv
<1> SUFFICES ASSUME Init PROVE CountInv
  OBVIOUS
<1>1. /\ turn = 0 /\ noTools = FALSE /\ attempt = 0 /\ requests = 1
      /\ gen = "waiting" /\ call = "fetching"
  BY DEF Init
<1>2. Fallbacks = 0 BY <1>1 DEF Fallbacks
<1>3. (turn + Fallbacks) * (MaxRetries + 1) = 0 BY <1>1, <1>2, AgentBounds
<1>4. noTools \in BOOLEAN BY <1>1
<1> QED BY <1>1, <1>3, <1>4, AgentBounds DEF CountInv

\* A step that changes none of the counters.
LEMMA CountUndisturbed ==
    ASSUME CountInv, UNCHANGED <<turn, noTools, attempt, requests>>,
           call' = "backoff" => attempt < MaxRetries,
           gen' \in {"tools", "turning"} => turn < MaxTurns - 1
    PROVE  CountInv'
BY DEF CountInv, Fallbacks

LEMMA NextCount == CountInv /\ [Next]_vars => CountInv'
<1> SUFFICES ASSUME CountInv, [Next]_vars PROVE CountInv'
  OBVIOUS
<1> USE DEF Untouched, conversation, generator, queue, streamVars, response
<1>t. /\ call = "backoff" => attempt < MaxRetries
      /\ gen \in {"tools", "turning"} => turn < MaxTurns - 1
  BY DEF CountInv
<1>1. CASE ResponseStarts BY <1>1, <1>t, CountUndisturbed DEF ResponseStarts
<1>2. CASE AttemptFails
  <2>1. PICK kind \in {"http", "network"} : RetryOrFail(kind) BY <1>2 DEF AttemptFails
  <2> QED BY <1>2, <1>t, <2>1, CountUndisturbed DEF AttemptFails, RetryOrFail, Fail
<1>3. CASE AttemptRefused
  <2>1. PICK kind \in {"unsupported", "http"} : Fail(kind) BY <1>3 DEF AttemptRefused
  <2> QED BY <1>3, <1>t, <2>1, CountUndisturbed DEF AttemptRefused, Fail
<1>4. ASSUME NEW chunk \in Chunks, ChunkArrives(chunk) PROVE CountInv'
  BY <1>4, <1>t, CountUndisturbed DEF ChunkArrives
<1>5. CASE StreamEnds BY <1>5, <1>t, CountUndisturbed DEF StreamEnds
<1>6. CASE StreamBreaks BY <1>6, <1>t, CountUndisturbed DEF StreamBreaks, RetryOrFail, Fail
<1>7. CASE Timers
  <2>1. CASE FirstPacketTimer BY <2>1, <1>t, CountUndisturbed DEF FirstPacketTimer
  <2>2. CASE OverallTimer BY <2>2, <1>t, CountUndisturbed DEF OverallTimer
  <2>3. CASE BackoffEnds
    <3>1. /\ attempt' = attempt + 1 /\ requests' = requests + 1 /\ call' = "fetching"
          /\ UNCHANGED <<turn, noTools, gen>> /\ attempt < MaxRetries
      BY <2>3, <1>t DEF BackoffEnds
    <3>2. (turn + Fallbacks) * (MaxRetries + 1) \in Nat
      BY AgentBounds DEF CountInv, Fallbacks
    <3> QED BY <3>1, <3>2, AgentBounds DEF CountInv, Fallbacks
  <2>4. CASE AttemptAborted
    <3>1. PICK kind : Fail(kind) BY <2>4 DEF AttemptAborted
    <3> QED BY <2>4, <1>t, <3>1, CountUndisturbed DEF AttemptAborted, Fail
  <2> QED BY <1>7, <2>1, <2>2, <2>3, <2>4 DEF Timers
<1>8. CASE GenTakes
  <2>1. gen' \in {"ended", "taking"} BY <1>8 DEF GenTakes, Deliver, CloseWith
  <2> QED BY <1>8, <2>1, <1>t, CountUndisturbed DEF GenTakes
<1>9. CASE GenWaits BY <1>9, <1>t, CountUndisturbed DEF GenWaits
<1>10. CASE RoundReturns BY <1>10, <1>t, CountUndisturbed DEF RoundReturns
<1>11. CASE ToolReturns
  <2>1. gen = "tools" /\ UNCHANGED <<turn, noTools, attempt, requests, call>>
    BY <1>11 DEF ToolReturns
  <2> QED BY <2>1, <1>t, CountUndisturbed
<1>12. CASE NextTurn
  <2>1. /\ turn' = turn + 1 /\ turn < MaxTurns - 1 /\ UNCHANGED noTools
        /\ gen' = "waiting" /\ call' = "fetching" /\ attempt' = 0 /\ requests' = requests + 1
    BY <1>12, <1>t DEF NextTurn, StartRound
  <2>2. turn + Fallbacks \in Nat BY DEF CountInv, Fallbacks
  <2>3. requests + 1 <= (turn + Fallbacks + 1) * (MaxRetries + 1) + 0 + 1
    BY <2>2, OneMoreRound, AgentBounds DEF CountInv
  <2>4. turn' + Fallbacks' = turn + Fallbacks + 1 BY <2>1 DEF CountInv, Fallbacks
  <2> QED BY <2>1, <2>3, <2>4, AgentBounds DEF CountInv
<1>13. CASE GenFails
  <2>1. CASE ~noTools /\ noTools' = TRUE /\ StartRound /\ UNCHANGED turn
    <3>1. /\ gen' = "waiting" /\ call' = "fetching" /\ attempt' = 0 /\ requests' = requests + 1
      BY <2>1 DEF StartRound
    <3>2. turn + Fallbacks \in Nat BY DEF CountInv, Fallbacks
    <3>3. requests + 1 <= (turn + Fallbacks + 1) * (MaxRetries + 1) + 0 + 1
      BY <3>2, OneMoreRound, AgentBounds DEF CountInv
    <3>4. turn' + Fallbacks' = turn + Fallbacks + 1 BY <2>1 DEF CountInv, Fallbacks
    <3>5. noTools' \in BOOLEAN BY <2>1
    <3> QED BY <2>1, <3>1, <3>3, <3>4, <3>5, AgentBounds DEF CountInv
  <2>2. CASE gen' = "ending" /\ UNCHANGED <<turn, noTools, attempt, requests, call>>
    BY <2>2, <1>t, CountUndisturbed
  <2> QED BY <1>13, <2>1, <2>2 DEF GenFails
<1>14. CASE Ending
  <2>1. gen' \in {"ended", "ending"} BY <1>14 DEF Ending, Deliver, CloseWith
  <2> QED BY <1>14, <2>1, <1>t, CountUndisturbed DEF Ending
<1>15. CASE ClientLeaves BY <1>15, <1>t, CountUndisturbed DEF ClientLeaves
<1>16. CASE UNCHANGED vars BY <1>16, <1>t, CountUndisturbed DEF vars
<1> QED
  BY <1>1, <1>2, <1>3, <1>4, <1>5, <1>6, <1>7, <1>8, <1>9, <1>10, <1>11, <1>12, <1>13, <1>14,
     <1>15, <1>16 DEF Next, Generator

\* One chat sends the LLM at most (MaxTurns + 1) * (MaxRetries + 1) requests:
\* the turns of runConversation, one fallback, and the retries of streamChat.
THEOREM RequestsAreBounded == Spec => []RequestsBounded
<1>1. CountInv => RequestsBounded
  <2> SUFFICES ASSUME CountInv PROVE RequestsBounded
    OBVIOUS
  <2>1. turn + Fallbacks \in Nat /\ turn + Fallbacks <= MaxTurns
    BY AgentBounds DEF CountInv, Fallbacks
  <2>2. (turn + Fallbacks) * (MaxRetries + 1) <= MaxTurns * (MaxRetries + 1)
    BY <2>1, Monotone, AgentBounds
  <2>3. (MaxTurns + 1) * (MaxRetries + 1) = MaxTurns * (MaxRetries + 1) + MaxRetries + 1
    BY AgentBounds
  <2>4. /\ (turn + Fallbacks) * (MaxRetries + 1) \in Nat
        /\ MaxTurns * (MaxRetries + 1) \in Nat
    BY <2>1, AgentBounds
  <2> QED BY <2>2, <2>3, <2>4, AgentBounds DEF CountInv, RequestsBounded
<1> QED BY InitCount, NextCount, <1>1, PTL DEF Spec

-----------------------------------------------------------------------------
\* Numbers

\* Induction, for a set of numbers: the least number outside it cannot exist.
LEMMA InductionOverNat ==
    ASSUME NEW S, 0 \in S, \A n \in Nat : n \in S => n + 1 \in S
    PROVE  Nat \subseteq S
<1>. DEFINE T == Nat \ S
            Less == OpToRel(<, Nat)
<1>1. \A m, n \in Nat : <<m, n>> \in Less <=> m < n
  BY Zenon DEF OpToRel
<1>2. IsWellFoundedOn(Less, Nat)
  BY NatLessThanWellFounded
<1>3. T # {} => \E n \in T : \A m \in T : ~(<<m, n>> \in Less)
  <2>1. T \subseteq Nat
    OBVIOUS
  <2>. HIDE DEF T, Less
  <2>. QED BY <1>2, <2>1, WFMin
<1>4. T \subseteq Nat
  OBVIOUS
<1>. SUFFICES ASSUME T # {} PROVE FALSE
  OBVIOUS
<1>. HIDE DEF Less
<1>5. PICK n \in T : \A m \in T : ~(m < n)
  BY <1>1, <1>3, <1>4
<1>6. n # 0 /\ n \in Nat /\ n - 1 \in Nat /\ n - 1 \notin S
  BY <1>5
<1>7. n - 1 \in T /\ n - 1 < n
  BY <1>6
<1>. QED BY <1>5, <1>7

\* LeastOf and MostOf find what they are asked for.
LEMMA LeastExists ==
    ASSUME NEW S \in SUBSET Nat, S # {}
    PROVE  LeastOf(S) \in S /\ \A j \in S : LeastOf(S) <= j
<1>. DEFINE Below == {n \in Nat : \A m \in S : n <= m}
<1>1. \E i \in S : \A j \in S : i <= j
  <2>1. SUFFICES ASSUME \A i \in S : \E j \in S : ~(i <= j) PROVE FALSE
    OBVIOUS
  <2>2. 0 \in Below
    OBVIOUS
  <2>3. \A n \in Nat : n \in Below => n + 1 \in Below
    BY <2>1
  <2>4. Nat \subseteq Below
    <3>. HIDE DEF Below
    <3>. QED BY <2>2, <2>3, InductionOverNat
  <2>5. PICK s \in S : TRUE
    OBVIOUS
  <2>6. s + 1 \in Below
    BY <2>4
  <2>. QED BY <2>5, <2>6
<1>. QED BY <1>1 DEF LeastOf

LEMMA MostExists ==
    ASSUME NEW n \in Nat, NEW S \in SUBSET (0..n), S # {}
    PROVE  MostOf(S) \in S /\ \A j \in S : j <= MostOf(S)
<1>. DEFINE T == {n - i : i \in S}
<1>1. T \in SUBSET Nat /\ T # {}
  <2>1. \A i \in S : i \in 0..n
    OBVIOUS
  <2>2. \A i \in 0..n : n - i \in Nat
    OBVIOUS
  <2>. QED BY <2>1, <2>2
<1>2. LeastOf(T) \in T /\ \A j \in T : LeastOf(T) <= j
  <2>. HIDE DEF T
  <2>. QED BY <1>1, LeastExists
<1>3. PICK i \in S : LeastOf(T) = n - i
  BY <1>2
<1>4. \A j \in S : n - j \in T
  OBVIOUS
<1>5. \A j \in S : j <= i
  <2>. TAKE j \in S
  <2>1. n - i <= n - j
    BY <1>2, <1>3, <1>4
  <2>. QED BY <2>1
<1>6. \E k \in S : \A j \in S : j <= k
  BY <1>5
<1>. QED BY <1>6 DEF MostOf

-----------------------------------------------------------------------------
\* The history

\* What is left of a history when the messages from the second up to end go.
Cut(h, end) == SubSeq(h, 1, 1) \o SubSeq(h, end, Len(h))

\* A cut keeps the first message and shifts the others.
LEMMA CutIs ==
    ASSUME NEW h \in Histories, NEW end \in 2..Len(h)
    PROVE  /\ Cut(h, end) \in Histories
           /\ Len(Cut(h, end)) = Len(h) - end + 2
           /\ Cut(h, end)[1] = h[1]
           /\ \A i \in 2..Len(Cut(h, end)) : Cut(h, end)[i] = h[i + end - 2]
           /\ end = 2 => Cut(h, end) = h
<1>. DEFINE a == SubSeq(h, 1, 1)
            b == SubSeq(h, end, Len(h))
<1>0. h \in Seq(MessageType) /\ Len(h) \in Nat /\ Len(h) >= 2
  BY DEF Histories
<1>e. \A i \in 1..Len(h) : h[i] \in MessageType
  BY <1>0
<1>1. a \in Seq(MessageType) /\ Len(a) = 1 /\ a[1] = h[1]
  <2>1. \A i \in 1..1 : h[i] \in MessageType
    BY <1>0, <1>e
  <2>2. /\ a \in Seq(MessageType) /\ Len(a) = IF 1 <= 1 THEN 1 - 1 + 1 ELSE 0
        /\ \A i \in 1..1 - 1 + 1 : a[i] = h[1 + i - 1]
    BY <2>1, SubSeqProperties
  <2>. HIDE DEF a
  <2>. QED BY <2>2
<1>2. b \in Seq(MessageType) /\ Len(b) = Len(h) - end + 1 /\ \A i \in 1..Len(b) : b[i] = h[i + end - 1]
  <2>1. \A i \in end..Len(h) : h[i] \in MessageType
    BY <1>0, <1>e
  <2>2. /\ b \in Seq(MessageType) /\ Len(b) = IF end <= Len(h) THEN Len(h) - end + 1 ELSE 0
        /\ \A i \in 1..Len(h) - end + 1 : b[i] = h[end + i - 1]
    BY <1>0, <2>1, SubSeqProperties
  <2>. HIDE DEF b
  <2>3. Len(b) = Len(h) - end + 1
    BY <1>0, <2>2
  <2>4. \A i \in 1..Len(b) : end + i - 1 = i + end - 1
    BY <1>0
  <2>. QED BY <2>2, <2>3, <2>4
<1>3. Cut(h, end) = a \o b
  BY DEF Cut
<1>. HIDE DEF a, b
<1>4. /\ a \o b \in Seq(MessageType) /\ Len(a \o b) = Len(a) + Len(b)
      /\ \A i \in 1..Len(a) + Len(b) :
            (a \o b)[i] = IF i <= Len(a) THEN a[i] ELSE b[i - Len(a)]
  BY <1>1, <1>2, ConcatProperties
<1>5. (a \o b)[1] = a[1] /\ \A i \in 2..Len(a \o b) : (a \o b)[i] = b[i - 1]
  <2>1. Len(b) \in Nat /\ Len(a \o b) = 1 + Len(b)
    BY <1>0, <1>1, <1>2, <1>4
  <2>2. \A i \in 2..Len(a \o b) : i \in 1..Len(a) + Len(b) /\ ~(i <= Len(a)) /\ i - Len(a) = i - 1
    BY <1>1, <2>1
  <2>. QED BY <1>1, <1>4, <2>1, <2>2
<1>6. \A i \in 2..Len(a \o b) : i - 1 \in 1..Len(b) /\ i - 1 + end - 1 = i + end - 2
  BY <1>1, <1>2, <1>4
<1>7. \A i \in 2..Len(a \o b) : (a \o b)[i] = h[i + end - 2]
  BY <1>2, <1>5, <1>6
<1>8. Len(a \o b) = Len(h) - end + 2 /\ Len(a \o b) >= 2
  BY <1>0, <1>1, <1>2, <1>4
<1>9. ASSUME end = 2 PROVE a \o b = h
  <2>1. Len(a \o b) = Len(h)
    BY <1>0, <1>8, <1>9
  <2>2. \A i \in 1..Len(h) : (a \o b)[i] = h[i]
    <3>. TAKE i \in 1..Len(h)
    <3>1. CASE i = 1
      BY <3>1, <1>1, <1>5
    <3>2. CASE i # 1
      <4>1. i \in 2..Len(a \o b) /\ i + end - 2 = i
        BY <3>2, <2>1, <1>9, <1>0
      <4>. QED BY <4>1, <1>7
    <3>. QED BY <3>1, <3>2
  <2>. QED BY <2>1, <2>2, <1>0, <1>4, SeqEqual
<1>. QED BY <1>1, <1>3, <1>4, <1>5, <1>7, <1>8, <1>9 DEF Histories

\* The latest round begins behind the first message, at no tool message unless
\* nothing else is there.
LEMMA LatestIs ==
    ASSUME NEW h \in Histories
    PROVE  /\ LatestRound(h) \in 2..Len(h)
           /\ LatestRound(h) = 2 \/ h[LatestRound(h)].role # "tool"
<1>. DEFINE S == {i \in 2..Len(h) : h[i].role # "tool" \/ i = 2}
<1>1. Len(h) \in Nat /\ S \in SUBSET (0..Len(h)) /\ 2 \in S
  BY DEF Histories
<1>2. MostOf(S) \in S
  <2>. HIDE DEF S
  <2>. QED BY <1>1, MostExists
<1>. QED BY <1>2 DEF LatestRound

\* AfterTools stops where it has to, or at a message that is no tool message.
LEMMA AfterToolsIs ==
    ASSUME NEW h, NEW keep \in Nat, NEW i \in Nat, i <= keep
    PROVE  /\ AfterTools(h, i, keep) \in i..keep
           /\ AfterTools(h, i, keep) = keep \/ h[AfterTools(h, i, keep)].role # "tool"
<1>. DEFINE S == {j \in i..keep : j = keep \/ h[j].role # "tool"}
<1>1. S \in SUBSET Nat /\ keep \in S
  OBVIOUS
<1>2. LeastOf(S) \in S
  <2>. HIDE DEF S
  <2>. QED BY <1>1, LeastExists
<1>3. CASE i >= keep
  BY <1>3 DEF AfterTools
<1>4. CASE ~(i >= keep)
  BY <1>2, <1>4 DEF AfterTools
<1>. QED BY <1>3, <1>4

\* The end of the front round: within bounds, behind its tool messages.
Apart(h, end) ==
    end = 2 \/ h[end].role # "tool" \/ (h[end - 1].role = "assistant" /\ h[end - 1].calls = {})

\* The front round ends within bounds and never in the middle of tool messages.
LEMMA FrontIs ==
    ASSUME NEW h \in Histories
    PROVE  LET keep == LatestRound(h)
               end == FrontEnd(h, keep)
           IN  /\ end \in 2..keep
               /\ end = 2 => keep = 2
               /\ Apart(h, end)
<1>. DEFINE keep == LatestRound(h)
            end == FrontEnd(h, keep)
            next == AfterTools(h, 3, keep)
<1>0. keep \in 2..Len(h) /\ keep \in Nat /\ (keep = 2 \/ h[keep].role # "tool")
  BY LatestIs DEF Histories
<1>1. CASE keep <= 2
  BY <1>0, <1>1 DEF FrontEnd, Apart
<1>2. CASE ~(keep <= 2)
  <2>0. 3 \in Nat /\ 3 <= keep
    BY <1>0, <1>2
  <2>1. next \in 3..keep /\ (next = keep \/ h[next].role # "tool")
    <3>. HIDE DEF keep
    <3>. QED BY <1>0, <2>0, AfterToolsIs
  <2>2. next < keep => /\ AfterTools(h, next + 1, keep) \in next + 1..keep
                       /\ \/ AfterTools(h, next + 1, keep) = keep
                          \/ h[AfterTools(h, next + 1, keep)].role # "tool"
    <3>1. next < keep => next + 1 \in Nat /\ next + 1 <= keep
      BY <2>1, <1>0
    <3>. HIDE DEF keep, next
    <3>. QED BY <3>1, <1>0, AfterToolsIs
  <2>3. CASE h[2].role # "user"
    BY <1>0, <1>2, <2>1, <2>3 DEF FrontEnd, Apart
  <2>4. CASE h[2].role = "user" /\ next < keep /\ h[next].role = "assistant" /\ h[next].calls = {}
    <3>1. end = next + 1
      BY <1>2, <2>4 DEF FrontEnd
    <3>. QED BY <2>1, <2>4, <3>1, <1>0 DEF Apart
  <2>5. CASE h[2].role = "user" /\ next < keep /\ h[next].role = "assistant" /\ h[next].calls # {}
    <3>1. end = AfterTools(h, next + 1, keep)
      BY <1>2, <2>5 DEF FrontEnd
    <3>. QED BY <2>1, <2>2, <2>5, <3>1, <1>0 DEF Apart
  <2>6. CASE h[2].role = "user" /\ ~(next < keep /\ h[next].role = "assistant")
    <3>1. end = next
      BY <1>2, <2>6 DEF FrontEnd
    <3>. QED BY <2>1, <3>1, <1>0 DEF Apart
  <2>. QED BY <2>3, <2>4, <2>5, <2>6
<1>. QED BY <1>1, <1>2

\* A trip of the loop leaves a history alone or cuts its front round off.
LEMMA WithoutFrontIs ==
    ASSUME NEW h \in Histories
    PROVE  \/ TotalSize(h) <= HistoryLimit /\ WithoutFront(h) = h
           \/ LatestRound(h) = 2 /\ WithoutFront(h) = h
           \/ \E end \in 3..Len(h) : Apart(h, end) /\ WithoutFront(h) = Cut(h, end)
<1>. DEFINE end == FrontEnd(h, LatestRound(h))
<1>1. end \in 2..LatestRound(h) /\ (end = 2 => LatestRound(h) = 2) /\ Apart(h, end)
  BY FrontIs
<1>2. LatestRound(h) \in 2..Len(h) /\ Len(h) \in Nat
  BY LatestIs DEF Histories
<1>3. end \in 2..Len(h)
  BY <1>1, <1>2
<1>4. CASE TotalSize(h) <= HistoryLimit
  BY <1>4 DEF WithoutFront
<1>5. CASE ~(TotalSize(h) <= HistoryLimit)
  <2>1. WithoutFront(h) = Cut(h, end)
    BY <1>5 DEF WithoutFront, Cut
  <2>. HIDE DEF end
  <2>2. CASE end = 2
    BY <1>1, <1>3, <2>1, <2>2, CutIs
  <2>3. CASE end # 2
    BY <1>1, <1>2, <1>3, <2>1, <2>3
  <2>. QED BY <2>2, <2>3
<1>. QED BY <1>4, <1>5

\* A history that the provider accepts.
Sound(h) ==
    /\ h \in Histories
    /\ h[1].role = "system"
    /\ \A i \in 1..Len(h) : h[i].role = "tool" => h[i].calls # {}
    /\ Paired(h)

\* The two halves of Paired.
Owned(h, i) ==
    \E j \in 1..(i - 1) :
        /\ h[j].role = "assistant" /\ h[i].calls \subseteq h[j].calls
        /\ \A k \in (j + 1)..(i - 1) : h[k].role = "tool"

Answered(h, i, id) ==
    \E j \in (i + 1)..Len(h) :
        /\ h[j].role = "tool" /\ h[j].calls = {id}
        /\ \A k \in (i + 1)..j : h[k].role = "tool"

\* Paired, by its two halves.
LEMMA PairedIs ==
    ASSUME NEW h
    PROVE  Paired(h) <=> \A i \in 1..Len(h) :
                            /\ h[i].role = "tool" => Owned(h, i)
                            /\ h[i].role = "assistant" => \A id \in h[i].calls : Answered(h, i, id)
BY Zenon DEF Paired, Owned, Answered

\* Cutting at the end of a round leaves an acceptable history.
LEMMA CutIsSound ==
    ASSUME NEW h, Sound(h), NEW end \in 3..Len(h), Apart(h, end)
    PROVE  Sound(Cut(h, end))
<1>. DEFINE g == Cut(h, end)
            d == end - 2
<1>0. /\ h \in Histories /\ Len(h) \in Nat /\ end \in Nat /\ end \in 2..Len(h)
      /\ h[1].role = "system" /\ d \in Nat
  BY DEF Sound, Histories
<1>1. /\ g \in Histories /\ Len(g) = Len(h) - d /\ g[1] = h[1]
      /\ \A i \in 2..Len(g) : g[i] = h[i + d]
  <2>1. g \in Histories /\ g[1] = h[1]
    BY <1>0, CutIs
  <2>2. Len(g) \in Nat /\ Len(g) = Len(h) - d
    BY <1>0, CutIs DEF Histories
  <2>3. \A i \in 2..Len(g) : g[i] = h[i + end - 2]
    BY <1>0, CutIs
  <2>. HIDE DEF g
  <2>4. \A i \in 2..Len(g) : i + end - 2 = i + d
    BY <1>0, <2>2
  <2>. QED BY <2>1, <2>2, <2>3, <2>4
<1>. HIDE DEF g, d
<1>2. Len(g) \in Nat /\ Len(g) >= 2 /\ \A i \in 2..Len(g) : i + d \in 2..Len(h) /\ i + d \in 1..Len(h)
  BY <1>0, <1>1 DEF Histories
<1>3. g[1].role # "tool" /\ g[1].role # "assistant"
  BY <1>0, <1>1
<1>4. \A i \in 1..Len(g) : g[i].role = "tool" => i \in 2..Len(g) /\ g[i].calls # {}
  <2>. TAKE i \in 1..Len(g)
  <2>1. CASE i = 1
    BY <2>1, <1>3
  <2>2. CASE i # 1
    BY <2>2, <1>1, <1>2 DEF Sound
  <2>. QED BY <2>1, <2>2
\* Whose answer a tool message is has not been cut away.
<1>5. ASSUME NEW i \in 2..Len(g), g[i].role = "tool"
      PROVE  Owned(g, i)
  <2>1. i + d \in 1..Len(h) /\ h[i + d].role = "tool" /\ h[i + d] = g[i] /\ g[i].calls # {}
    BY <1>1, <1>2, <1>4, <1>5
  <2>2. PICK j \in 1..((i + d) - 1) :
          /\ h[j].role = "assistant" /\ h[i + d].calls \subseteq h[j].calls
          /\ \A k \in (j + 1)..((i + d) - 1) : h[k].role = "tool"
    <3>1. Paired(h)
      BY DEF Sound
    <3>2. Owned(h, i + d)
      BY <2>1, <3>1, PairedIs
    <3>. QED BY <3>2 DEF Owned
  <2>3. j >= end
    <3>1. SUFFICES ASSUME j < end PROVE FALSE
      BY <1>0
    <3>2. end \in (j + 1)..(i + d) /\ end # 2
      BY <1>0, <3>1 DEF d
    <3>3. h[end].role = "tool"
      <4>1. CASE end = i + d
        BY <4>1, <2>1
      <4>2. CASE end # i + d
        <5>1. end \in (j + 1)..((i + d) - 1)
          BY <3>2, <4>2, <1>0
        <5>. QED BY <5>1, <2>2
      <4>. QED BY <4>1, <4>2
    <3>4. h[end - 1].role = "assistant" /\ h[end - 1].calls = {}
      BY <3>2, <3>3 DEF Apart
    <3>5. CASE j = end - 1
      BY <3>4, <3>5, <2>1, <2>2
    <3>6. CASE j # end - 1
      <4>1. end - 1 \in (j + 1)..((i + d) - 1)
        BY <3>2, <3>6, <3>1, <1>0
      <4>. QED BY <4>1, <3>4, <2>2
    <3>. QED BY <3>5, <3>6
  <2>4. j - d \in 2..(i - 1) /\ j - d \in 2..Len(g) /\ (j - d) + d = j
    <3>1. j \in Nat /\ j - d \in Nat /\ (j - d) + d = j /\ j - d >= 2
      BY <2>2, <2>3, <1>0 DEF d
    <3>2. j <= i + d - 1 /\ i <= Len(g) /\ i \in Nat
      BY <2>2, <1>0, <1>2
    <3>. QED BY <3>1, <3>2, <1>0, <1>2
  <2>5. g[j - d] = h[j]
    BY <2>4, <1>1
  <2>6. ASSUME NEW k \in ((j - d) + 1)..(i - 1) PROVE g[k].role = "tool"
    <3>1. k \in 2..Len(g) /\ k + d \in (j + 1)..((i + d) - 1)
      BY <2>4, <1>0, <1>2
    <3>. QED BY <3>1, <1>1, <2>2
  <2>7. j - d \in 1..(i - 1)
    BY <2>4
  <2>. QED BY <2>1, <2>2, <2>5, <2>6, <2>7 DEF Owned
\* The answers of an assistant's message come after it.
<1>6. ASSUME NEW i \in 2..Len(g), g[i].role = "assistant", NEW id \in g[i].calls
      PROVE  Answered(g, i, id)
  <2>1. i + d \in 1..Len(h) /\ h[i + d].role = "assistant" /\ id \in h[i + d].calls
    BY <1>1, <1>2, <1>6
  <2>2. PICK j \in (i + d + 1)..Len(h) :
          /\ h[j].role = "tool" /\ h[j].calls = {id}
          /\ \A k \in (i + d + 1)..j : h[k].role = "tool"
    <3>1. Answered(h, i + d, id)
      BY <2>1, PairedIs DEF Sound
    <3>. QED BY <3>1 DEF Answered
  <2>3. j - d \in (i + 1)..Len(g) /\ j - d \in 2..Len(g) /\ (j - d) + d = j
    BY <2>2, <1>0, <1>1, <1>2
  <2>4. g[j - d] = h[j]
    BY <2>3, <1>1
  <2>5. ASSUME NEW k \in (i + 1)..(j - d) PROVE g[k].role = "tool"
    <3>1. k \in 2..Len(g) /\ k + d \in (i + d + 1)..j
      BY <2>3, <1>0, <1>2
    <3>. QED BY <3>1, <1>1, <2>2
  <2>. QED BY <2>2, <2>3, <2>4, <2>5 DEF Answered
<1>7. \A i \in 1..Len(g) : i = 1 \/ i \in 2..Len(g)
  BY <1>2
<1>8. Paired(g)
  BY <1>3, <1>5, <1>6, <1>7, PairedIs
<1>9. Sound(g)
  BY <1>0, <1>1, <1>4, <1>8 DEF Sound
<1>. QED BY <1>9 DEF g

-----------------------------------------------------------------------------
\* The loop of trimHistory

Trips(f, N) ==
    f = [n \in 0..N |->
           [g \in Histories |->
               IF n = 0 \/ WithoutFront(g) = g THEN g ELSE f[n - 1][WithoutFront(g)]]]

\* The loop as a function of the trips left, which exists for every number.
LEMMA OneTrip == \A h \in Histories : WithoutFront(h) \in Histories
<1>. TAKE h \in Histories
<1>1. \A end \in 3..Len(h) : end \in 2..Len(h)
  OBVIOUS
<1>. QED BY <1>1, WithoutFrontIs, CutIs

LEMMA TripsExist == \A N \in Nat : \E f : Trips(f, N)
<1>. DEFINE S == {m \in Nat : \E f : Trips(f, m)}
<1>1. 0 \in S
  <2>. DEFINE f == [n \in 0..0 |-> [g \in Histories |-> g]]
  <2>1. Trips(f, 0)
    BY DEF Trips
  <2>. QED BY <2>1
<1>2. \A m \in Nat : m \in S => m + 1 \in S
  <2>. TAKE m \in Nat
  <2>. HAVE m \in S
  <2>1. PICK f : Trips(f, m)
    OBVIOUS
  <2>. DEFINE e == [n \in 0..m + 1 |->
                     [g \in Histories |->
                         IF n = 0 \/ WithoutFront(g) = g THEN g
                         ELSE f[n - 1][WithoutFront(g)]]]
  <2>2. \A n \in 0..m : e[n] = f[n]
    <3>. TAKE n \in 0..m
    <3>1. f[n] = [g \in Histories |->
                    IF n = 0 \/ WithoutFront(g) = g THEN g ELSE f[n - 1][WithoutFront(g)]]
      BY Zenon, <2>1 DEF Trips
    <3>2. n \in 0..m + 1
      OBVIOUS
    <3>. QED BY Zenon, <3>1, <3>2
  <2>3. \A n \in 0..m + 1 : n # 0 => n - 1 \in 0..m
    OBVIOUS
  <2>4. Trips(e, m + 1)
    BY <2>2, <2>3, OneTrip DEF Trips
  <2>. QED BY <2>4
<1>3. Nat \subseteq S
  <2>. HIDE DEF S
  <2>. QED BY <1>1, <1>2, InductionOverNat
<1>. QED BY <1>3

\* Trimming keeps a history acceptable, and stops only where it has to.
LEMMA TrimmedIsSound ==
    ASSUME NEW h, Sound(h)
    PROVE  /\ Sound(Trimmed(h))
           /\ TotalSize(Trimmed(h)) <= HistoryLimit \/ LatestRound(Trimmed(h)) = 2
<1>. DEFINE N == Len(h)
            trim == CHOOSE f : Trips(f, N)
            Ends(g) == Sound(g) /\ (TotalSize(g) <= HistoryLimit \/ LatestRound(g) = 2)
            S == {n \in Nat : n <= N => \A g \in Histories :
                                 Sound(g) /\ Len(g) <= n + 2 => Ends(trim[n][g])}
<1>0. N \in Nat /\ h \in Histories
  BY DEF Sound, Histories
<1>1. Trips(trim, N)
  BY <1>0, TripsExist
<1>2. Trimmed(h) = trim[N][h]
  BY DEF Trimmed, Trips
<1>. HIDE DEF trim
<1>3. \A n \in 0..N, g \in Histories :
        trim[n][g] = IF n = 0 \/ WithoutFront(g) = g THEN g ELSE trim[n - 1][WithoutFront(g)]
  <2>1. \A n \in 0..N :
          trim[n] = [g \in Histories |->
                       IF n = 0 \/ WithoutFront(g) = g THEN g ELSE trim[n - 1][WithoutFront(g)]]
    BY Zenon, <1>1 DEF Trips
  <2>. QED BY Zenon, <2>1
<1>4. ASSUME NEW g \in Histories, Sound(g)
      PROVE  /\ Ends(g) /\ WithoutFront(g) = g
             \/ /\ Sound(WithoutFront(g)) /\ WithoutFront(g) \in Histories
                /\ Len(WithoutFront(g)) < Len(g) /\ WithoutFront(g) # g /\ Len(g) > 2
  <2>1. CASE WithoutFront(g) = g /\ (TotalSize(g) <= HistoryLimit \/ LatestRound(g) = 2)
    BY <1>4, <2>1
  <2>2. ASSUME NEW end \in 3..Len(g), Apart(g, end), WithoutFront(g) = Cut(g, end)
        PROVE  /\ Sound(WithoutFront(g)) /\ WithoutFront(g) \in Histories
               /\ Len(WithoutFront(g)) < Len(g) /\ WithoutFront(g) # g /\ Len(g) > 2
    <3>1. end \in 2..Len(g) /\ Len(g) \in Nat
      BY DEF Histories
    <3>2. Sound(Cut(g, end)) /\ Cut(g, end) \in Histories /\ Len(Cut(g, end)) = Len(g) - end + 2
      BY <1>4, <2>2, <3>1, CutIs, CutIsSound
    <3>3. Len(Cut(g, end)) < Len(g) /\ Len(g) > 2
      BY <3>1, <3>2
    <3>. QED BY <2>2, <3>2, <3>3
  <2>. QED BY <2>1, <2>2, WithoutFrontIs
<1>5. 0 \in S
  <2>1. \A g \in Histories : trim[0][g] = g
    BY <1>0, <1>3
  <2>2. \A g \in Histories : Len(g) \in Nat
    BY DEF Histories
  <2>. QED BY <1>4, <2>1, <2>2
<1>6. \A n \in Nat : n \in S => n + 1 \in S
  <2>. TAKE n \in Nat
  <2>. HAVE n \in S
  <2>. SUFFICES ASSUME n + 1 <= N, NEW g \in Histories, Sound(g), Len(g) <= n + 1 + 2
                PROVE  Ends(trim[n + 1][g])
    OBVIOUS
  <2>1. n <= N /\ n + 1 \in 0..N /\ n + 1 # 0 /\ n + 1 - 1 = n
    BY <1>0
  <2>2. trim[n + 1][g] = IF WithoutFront(g) = g THEN g ELSE trim[n][WithoutFront(g)]
    BY <1>3, <2>1
  <2>3. CASE WithoutFront(g) = g
    BY <1>4, <2>2, <2>3
  <2>4. CASE WithoutFront(g) # g
    <3>1. /\ Sound(WithoutFront(g)) /\ WithoutFront(g) \in Histories
          /\ Len(WithoutFront(g)) < Len(g)
      BY <1>4, <2>4
    <3>2. Len(WithoutFront(g)) <= n + 2
      BY <3>1 DEF Histories
    <3>. QED BY <2>1, <2>2, <2>4, <3>1, <3>2
  <2>. QED BY <2>3, <2>4
<1>7. N \in S
  <2>. HIDE DEF S
  <2>1. Nat \subseteq S
    BY <1>5, <1>6, InductionOverNat
  <2>. QED BY <1>0, <2>1
<1>8. Ends(trim[N][h])
  BY <1>0, <1>7
<1>. QED BY <1>2, <1>8
-----------------------------------------------------------------------------
\* A round appended: the assistant's message and an answer to each of its calls.
LEMMA AppendedIsSound ==
    ASSUME NEW h, Sound(h), NEW c \in Seq(CallIds), NEW n \in Nat,
           NEW t \in Seq(MessageType), Len(t) = Len(c),
           \A i \in 1..Len(t) : t[i].role = "tool" /\ t[i].calls = {c[i]}
    PROVE  Sound(h \o <<Message("assistant", n, {c[i] : i \in 1..Len(c)})>> \o t)
<1>. DEFINE a == Message("assistant", n, {c[i] : i \in 1..Len(c)})
            g == h \o <<a>> \o t
            N == Len(h)
<1>1. /\ h \in Seq(MessageType) /\ N \in Nat /\ N >= 2 /\ Len(t) \in Nat
      /\ h[1].role = "system" /\ Paired(h)
      /\ \A i \in 1..N : h[i].role = "tool" => h[i].calls # {}
  BY DEF Sound, Histories
<1>2. /\ a \in MessageType /\ a.role = "assistant"
      /\ \A id \in a.calls : \E m \in 1..Len(c) : id = c[m]
      /\ \A m \in 1..Len(c) : c[m] \in a.calls
  BY DEF Message, MessageType
<1>. HIDE DEF a, N
<1>3. /\ h \o <<a>> \in Seq(MessageType) /\ Len(h \o <<a>>) = N + 1
      /\ \A i \in 1..N : (h \o <<a>>)[i] = h[i]
      /\ (h \o <<a>>)[N + 1] = a
  BY <1>1, <1>2 DEF N
<1>4. /\ g \in Seq(MessageType) /\ Len(g) = N + 1 + Len(t)
      /\ \A i \in 1..N : g[i] = h[i]
      /\ g[N + 1] = a
      /\ \A m \in 1..Len(t) : g[N + 1 + m] = t[m]
  <2>. DEFINE b == h \o <<a>>
  <2>1. /\ b \in Seq(MessageType) /\ Len(b) = N + 1
        /\ \A i \in 1..N : b[i] = h[i]
        /\ b[N + 1] = a
    BY <1>3
  <2>. HIDE DEF b
  <2>2. /\ b \o t \in Seq(MessageType) /\ Len(b \o t) = Len(b) + Len(t)
        /\ \A i \in 1..Len(b) + Len(t) :
              (b \o t)[i] = IF i <= Len(b) THEN b[i] ELSE t[i - Len(b)]
    BY <2>1, ConcatProperties
  <2>3. \A i \in 1..N + 1 : i \in 1..Len(b) + Len(t) /\ i <= Len(b)
    BY <1>1, <2>1
  <2>4. \A m \in 1..Len(t) : /\ N + 1 + m \in 1..Len(b) + Len(t) /\ ~(N + 1 + m <= Len(b))
                             /\ (N + 1 + m) - Len(b) = m
    BY <1>1, <2>1
  <2>5. (b \o t)[N + 1] = a /\ \A i \in 1..N : (b \o t)[i] = h[i]
    <3>1. \A i \in 1..N + 1 : (b \o t)[i] = b[i]
      BY <2>2, <2>3
    <3>2. N + 1 \in 1..N + 1 /\ \A i \in 1..N : i \in 1..N + 1
      BY <1>1
    <3>. QED BY <2>1, <3>1, <3>2
  <2>6. \A m \in 1..Len(t) : (b \o t)[N + 1 + m] = t[m]
    BY <2>2, <2>4
  <2>7. Len(b \o t) = N + 1 + Len(t)
    BY <2>1, <2>2
  <2>8. g = b \o t
    BY DEF b
  <2>. QED BY <2>2, <2>5, <2>6, <2>7, <2>8
<1>. HIDE DEF g
<1>5. \A i \in 1..Len(g) : i \in 1..N \/ i = N + 1 \/ \E m \in 1..Len(t) : i = N + 1 + m
  <2>. TAKE i \in 1..Len(g)
  <2>1. CASE i <= N + 1
    BY <1>1, <1>4, <2>1
  <2>2. CASE i > N + 1
    <3>1. i - (N + 1) \in 1..Len(t) /\ i = N + 1 + (i - (N + 1))
      BY <1>1, <1>4, <2>2
    <3>. QED BY <3>1
  <2>. QED BY <2>1, <2>2, <1>1
<1>6. ASSUME NEW i \in 1..N
      PROVE  /\ g[i].role = "tool" => Owned(g, i)
             /\ g[i].role = "assistant" => \A id \in g[i].calls : Answered(g, i, id)
  <2>1. g[i] = h[i]
    BY <1>4
  <2>2. ASSUME h[i].role = "tool" PROVE Owned(g, i)
    <3>1. PICK j \in 1..(i - 1) :
            /\ h[j].role = "assistant" /\ h[i].calls \subseteq h[j].calls
            /\ \A k \in (j + 1)..(i - 1) : h[k].role = "tool"
      <4>1. Owned(h, i)
        BY <1>1, <2>2, PairedIs DEF N
      <4>. QED BY <4>1 DEF Owned
    <3>2. j \in 1..N /\ \A k \in (j + 1)..(i - 1) : k \in 1..N
      BY <1>1
    <3>. QED BY <1>4, <3>1, <3>2 DEF Owned
  <2>3. ASSUME h[i].role = "assistant", NEW id \in h[i].calls PROVE Answered(g, i, id)
    <3>1. PICK j \in (i + 1)..N :
            /\ h[j].role = "tool" /\ h[j].calls = {id}
            /\ \A k \in (i + 1)..j : h[k].role = "tool"
      <4>1. Answered(h, i, id)
        BY <1>1, <2>3, PairedIs DEF N
      <4>. QED BY <4>1 DEF Answered, N
    <3>2. j \in (i + 1)..Len(g) /\ j \in 1..N /\ \A k \in (i + 1)..j : k \in 1..N
      BY <1>1, <1>4
    <3>. QED BY <1>4, <3>1, <3>2 DEF Answered
  <2>. QED BY <2>1, <2>2, <2>3
<1>7. \A m \in 1..Len(t) : g[N + 1 + m].role = "tool" /\ g[N + 1 + m].calls = {c[m]}
  BY <1>4
<1>8. ASSUME NEW i, NEW m \in 1..Len(t), i = N + 1 + m PROVE Owned(g, i)
  <2>1. N + 1 \in 1..(i - 1)
    BY <1>1, <1>8
  <2>2. g[i].calls \subseteq g[N + 1].calls
    BY <1>2, <1>4, <1>7, <1>8
  <2>3. ASSUME NEW k \in ((N + 1) + 1)..(i - 1) PROVE g[k].role = "tool"
    <3>1. k - (N + 1) \in 1..Len(t) /\ k = N + 1 + (k - (N + 1))
      BY <1>1, <1>8
    <3>. QED BY <3>1, <1>7
  <2>4. g[N + 1].role = "assistant"
    BY <1>2, <1>4
  <2>. QED BY <2>1, <2>2, <2>3, <2>4 DEF Owned
<1>9. ASSUME NEW id \in a.calls PROVE Answered(g, N + 1, id)
  <2>1. PICK m \in 1..Len(t) : id = c[m]
    BY <1>2
  <2>2. N + 1 + m \in ((N + 1) + 1)..Len(g)
    BY <1>1, <1>4
  <2>3. ASSUME NEW k \in ((N + 1) + 1)..(N + 1 + m) PROVE g[k].role = "tool"
    <3>0. Len(t) \in Nat /\ N \in Nat /\ m \in Nat /\ m <= Len(t) /\ k \in Nat
      BY <1>1
    <3>1. k - (N + 1) \in 1..Len(t) /\ k = N + 1 + (k - (N + 1))
      BY <3>0
    <3>. QED BY <3>1, <1>7
  <2>. QED BY <1>7, <2>1, <2>2, <2>3 DEF Answered
<1>10. ASSUME NEW i \in 1..Len(g)
       PROVE  /\ g[i].role = "tool" => Owned(g, i)
              /\ g[i].role = "assistant" => \A id \in g[i].calls : Answered(g, i, id)
  <2>1. CASE i \in 1..N
    BY <2>1, <1>6
  <2>2. CASE i = N + 1
    <3>1. g[i] = a /\ a.role = "assistant" /\ a.role # "tool"
      BY <2>2, <1>2, <1>4
    <3>. QED BY <2>2, <3>1, <1>9
  <2>3. CASE \E m \in 1..Len(t) : i = N + 1 + m
    BY <2>3, <1>7, <1>8
  <2>. QED BY <2>1, <2>2, <2>3, <1>5
<1>11. Paired(g)
  BY <1>10, PairedIs
<1>12. \A i \in 1..Len(g) : g[i].role = "tool" => g[i].calls # {}
  <2>. TAKE i \in 1..Len(g)
  <2>1. CASE i \in 1..N
    BY <2>1, <1>1, <1>4
  <2>2. CASE i = N + 1
    BY <2>2, <1>2, <1>4
  <2>3. CASE \E m \in 1..Len(t) : i = N + 1 + m
    BY <2>3, <1>7
  <2>. QED BY <2>1, <2>2, <2>3, <1>5
<1>13. g \in Histories /\ g[1].role = "system"
  <2>1. 1 \in 1..N /\ Len(g) >= 2
    BY <1>1, <1>4
  <2>. QED BY <1>1, <1>4, <2>1 DEF Histories
<1>14. Sound(g)
  BY <1>11, <1>12, <1>13 DEF Sound
<1>. QED BY <1>14 DEF g, a

-----------------------------------------------------------------------------
\* A tool runs only when the round is over, and its message answers the call
\* at its place.
ToolsInv ==
    /\ calls \in Seq(CallIds) /\ text \in Seq(Nat) /\ requests \in Nat
    /\ round = "resolved" => call = "settled"
    /\ gen \in {"tools", "turning"} => round = "resolved"
    /\ toolsDone \in Seq(MessageType)
    /\ toolsDone # << >> => round = "resolved"
    /\ gen \in {"waiting", "taking", "round"} => toolsDone = << >>
    /\ Len(toolsDone) <= Len(calls)
    /\ gen = "tools" => Len(toolsDone) < Len(calls)
    /\ gen = "turning" => Len(toolsDone) = Len(calls)
    /\ \A i \in 1..Len(toolsDone) :
          toolsDone[i].role = "tool" /\ toolsDone[i].calls = {calls[i]}

HistoryInv == Sound(history) /\ HistoryFits /\ ToolsInv

\* A step that runs no tool and starts no round.
LEMMA ToolsUndisturbed ==
    ASSUME HistoryInv, UNCHANGED <<history, turn, toolsDone, calls, text>>, requests' \in Nat,
           round' = "resolved" => call' = "settled",
           round = "resolved" => round' = "resolved",
           \/ gen' = gen
           \/ gen' \in {"failed", "ending", "ended"}
           \/ gen \in {"waiting", "taking"} /\ gen' \in {"waiting", "taking", "round"}
    PROVE  HistoryInv'
<1>1. Sound(history)' /\ HistoryFits'
  BY DEF HistoryInv, HistoryFits
<1>2. ToolsInv'
  BY DEF HistoryInv, ToolsInv
<1>. QED BY <1>1, <1>2 DEF HistoryInv

\* A failed attempt, a new round.
LEMMA FailKeepsTools ==
    ASSUME HistoryInv, NEW kind, Fail(kind) \/ RetryOrFail(kind), round # "resolved",
           UNCHANGED <<history, turn, toolsDone, calls, text, requests>>
    PROVE  HistoryInv'
<1>1. round' = round /\ (gen' = gen \/ gen' = "failed")
  BY DEF Fail, RetryOrFail, queue
<1>. QED BY <1>1, ToolsUndisturbed DEF HistoryInv, ToolsInv

LEMMA RoundKeepsTools ==
    ASSUME HistoryInv, StartRound, Sound(history'), HistoryFits'
    PROVE  HistoryInv'
<1>1. requests \in Nat
  BY DEF HistoryInv, ToolsInv
<1>2. /\ gen' = "waiting" /\ call' = "fetching" /\ text' = << >> /\ calls' = << >>
      /\ round' = "pending" /\ toolsDone' = << >> /\ requests' = requests + 1
  BY DEF StartRound
<1>3. ToolsInv'
  BY <1>1, <1>2 DEF ToolsInv
<1>. QED BY <1>3 DEF HistoryInv

\* A dialogue behind the system message: no tool messages, no calls.
LEMMA InitHistory == Init => HistoryInv
<1>. SUFFICES ASSUME Init PROVE HistoryInv
  OBVIOUS
<1>1. PICK d \in Dialogues : history = <<Message("system", 1, {})>> \o d
  BY DEF Init
<1>. DEFINE a == Message("system", 1, {})
<1>2. a \in MessageType /\ a.role = "system"
  BY DEF Message, MessageType
<1>3. /\ d \in Seq([role : {"user", "assistant"}, size : Nat, calls : {{}}])
      /\ d # << >>
  BY DialoguesAreTexts
<1>4. \A m \in [role : {"user", "assistant"}, size : Nat, calls : {{}}] :
         m \in MessageType /\ m.role # "tool" /\ m.calls = {}
  BY DEF MessageType
<1>5. /\ d \in Seq(MessageType) /\ Len(d) \in Nat /\ Len(d) >= 1
      /\ \A i \in 1..Len(d) : d[i].role # "tool" /\ d[i].calls = {}
  <2>. DEFINE R == [role : {"user", "assistant"}, size : Nat, calls : {{}}]
  <2>1. R \subseteq MessageType /\ \A m \in R : m.role # "tool" /\ m.calls = {}
    BY <1>4
  <2>2. d \in Seq(R) /\ d # << >>
    BY <1>3
  <2>. HIDE DEF R
  <2>3. \A i \in 1..Len(d) : d[i] \in R
    BY <2>2
  <2>4. Len(d) \in Nat /\ Len(d) >= 1
    BY <2>2
  <2>5. d \in Seq(MessageType)
    BY <2>1, <2>2
  <2>. QED BY <2>1, <2>3, <2>4, <2>5
<1>. HIDE DEF a
<1>6. /\ <<a>> \o d \in Seq(MessageType) /\ Len(<<a>> \o d) = 1 + Len(d)
      /\ (<<a>> \o d)[1] = a
      /\ \A i \in 2..Len(<<a>> \o d) : (<<a>> \o d)[i] = d[i - 1] /\ i - 1 \in 1..Len(d)
  BY <1>2, <1>5
<1>7. \A i \in 1..Len(history) :
         history[i].role # "tool" /\ (history[i].role = "assistant" => history[i].calls = {})
  <2>. TAKE i \in 1..Len(history)
  <2>1. CASE i = 1
    BY <2>1, <1>1, <1>2, <1>6 DEF a
  <2>2. CASE i # 1
    <3>1. i \in 2..Len(<<a>> \o d)
      BY <2>2, <1>1, <1>6 DEF a
    <3>. QED BY <3>1, <1>1, <1>5, <1>6 DEF a
  <2>. QED BY <2>1, <2>2
<1>8. Paired(history)
  BY <1>7, PairedIs
<1>9. Sound(history)
  BY <1>1, <1>2, <1>5, <1>6, <1>7, <1>8 DEF Sound, Histories, a
<1>10. HistoryFits /\ ToolsInv
  BY DEF Init, HistoryFits, ToolsInv
<1>. QED BY <1>9, <1>10 DEF HistoryInv

\* A chunk arrives only while no tool has run.
LEMMA ChunkKeepsTools ==
    ASSUME HistoryInv, NEW chunk \in Chunks, ChunkArrives(chunk)
    PROVE  HistoryInv'
<1>. DEFINE D == {i \in DOMAIN chunk : chunk[i] = "delta"}
            deltas == Cardinality(D)
            starts == Len(chunk) - deltas
            own == Cardinality(OwnCalls)
<1>1. PICK n \in 1..MaxChunk : chunk \in [1..n -> {"delta", "toolStart"}]
  BY DEF Chunks
<1>2. n \in Nat /\ Len(chunk) = n /\ D \in SUBSET (1..n)
  BY <1>1, AgentBounds
<1>3. IsFiniteSet(1..n) /\ Cardinality(1..n) = n
  BY <1>2, FS_Interval
<1>4. deltas \in Nat /\ deltas <= n
  <2>1. IsFiniteSet(D) /\ Cardinality(D) <= Cardinality(1..n)
    BY <1>2, <1>3, FS_Subset
  <2>2. Cardinality(D) \in Nat
    BY <2>1, FS_CardinalityType
  <2>. QED BY <1>3, <2>1, <2>2
<1>5. own \in Nat
  <2>0. Len(calls) \in Nat /\ OwnCalls \in SUBSET (1..Len(calls))
    BY DEF OwnCalls, HistoryInv, ToolsInv
  <2>1. IsFiniteSet(1..Len(calls))
    BY <2>0, FS_Interval
  <2>2. IsFiniteSet(OwnCalls)
    BY <2>0, <2>1, FS_Subset
  <2>. QED BY <2>2, FS_CardinalityType
<1>6. starts \in Nat
  BY <1>2, <1>4
<1>7. /\ text' = text \o [i \in 1..deltas |-> requests]
      /\ calls' = calls \o [i \in 1..starts |-> <<requests, own + i>>]
      /\ UNCHANGED <<history, turn, toolsDone, round, call, requests>>
      /\ call = "reading"
      /\ gen' = gen \/ (gen = "waiting" /\ gen' = "taking")
  BY DEF ChunkArrives, conversation
<1>. HIDE DEF deltas, starts, own
<1>8. /\ calls \in Seq(CallIds) /\ text \in Seq(Nat) /\ requests \in Nat
      /\ round # "resolved" /\ toolsDone = << >> /\ gen \notin {"tools", "turning"}
  BY <1>7 DEF HistoryInv, ToolsInv
<1>9. [i \in 1..starts |-> <<requests, own + i>>] \in Seq(CallIds)
  BY <1>5, <1>6, <1>8 DEF CallIds
<1>10. [i \in 1..deltas |-> requests] \in Seq(Nat)
  BY <1>4, <1>8
<1>11. calls' \in Seq(CallIds) /\ text' \in Seq(Nat)
  BY <1>7, <1>8, <1>9, <1>10
<1>12. toolsDone' = << >> /\ Len(toolsDone') = 0 /\ toolsDone' \in Seq(MessageType)
  BY <1>7, <1>8
<1>13. ToolsInv'
  <2>1. Len(toolsDone') <= Len(calls')
    BY <1>11, <1>12
  <2>2. gen' \notin {"tools", "turning"} /\ round' # "resolved" /\ requests' \in Nat
    BY <1>7, <1>8
  <2>3. \A i \in 1..Len(toolsDone') :
           toolsDone'[i].role = "tool" /\ toolsDone'[i].calls = {calls'[i]}
    BY <1>12
  <2>. QED BY <1>11, <1>12, <2>1, <2>2, <2>3 DEF ToolsInv
<1>14. Sound(history)' /\ HistoryFits'
  BY <1>7 DEF HistoryInv, HistoryFits
<1>. QED BY <1>13, <1>14 DEF HistoryInv

\* A tool answers the next call.
LEMMA ToolKeepsTools ==
    ASSUME HistoryInv, ToolReturns
    PROVE  HistoryInv'
<1>1. PICK event \in {"toolDone", "toolError"}, size \in ToolSizes :
        /\ toolsDone' = Append(toolsDone, Message("tool", size, {calls[Len(toolsDone) + 1]}))
        /\ Deliver(event, IF Len(toolsDone) + 1 = Len(calls) THEN "turning" ELSE "tools")
  BY DEF ToolReturns
<1>. DEFINE m == Message("tool", size, {calls[Len(toolsDone) + 1]})
<1>2. /\ gen = "tools" /\ UNCHANGED <<history, turn, round, call, calls, text, requests>>
  BY DEF ToolReturns, conversation, queue
<1>3. /\ calls \in Seq(CallIds) /\ text \in Seq(Nat) /\ requests \in Nat
      /\ toolsDone \in Seq(MessageType) /\ Len(toolsDone) < Len(calls)
      /\ round = "resolved" /\ call = "settled"
      /\ \A i \in 1..Len(toolsDone) :
            toolsDone[i].role = "tool" /\ toolsDone[i].calls = {calls[i]}
  BY <1>2 DEF HistoryInv, ToolsInv
<1>4. m \in MessageType /\ m.role = "tool" /\ m.calls = {calls[Len(toolsDone) + 1]}
  <2>1. calls[Len(toolsDone) + 1] \in CallIds /\ size \in Nat
    BY <1>3, AgentBounds
  <2>. QED BY <2>1 DEF Message, MessageType
<1>5. toolsDone' = Append(toolsDone, m)
  BY <1>1
<1>. HIDE DEF m
<1>6. /\ toolsDone' \in Seq(MessageType) /\ Len(toolsDone') = Len(toolsDone) + 1
      /\ \A i \in 1..Len(toolsDone) : toolsDone'[i] = toolsDone[i]
      /\ toolsDone'[Len(toolsDone) + 1] = m
  BY <1>3, <1>4, <1>5
<1>7. \A i \in 1..Len(toolsDone') :
         toolsDone'[i].role = "tool" /\ toolsDone'[i].calls = {calls[i]}
  BY <1>3, <1>4, <1>6
<1>8. \/ gen' = "ended"
      \/ gen' = IF Len(toolsDone) + 1 = Len(calls) THEN "turning" ELSE "tools"
  BY <1>1 DEF Deliver, CloseWith
<1>9. Len(calls) \in Nat /\ Len(toolsDone) \in Nat
  BY <1>3
<1>10. /\ Len(toolsDone') <= Len(calls)
       /\ gen' = "tools" => Len(toolsDone') < Len(calls)
       /\ gen' = "turning" => Len(toolsDone') = Len(calls)
       /\ gen' \notin {"waiting", "taking", "round"}
  BY <1>3, <1>6, <1>8, <1>9
<1>11. ToolsInv'
  BY <1>2, <1>3, <1>6, <1>7, <1>10 DEF ToolsInv
<1>12. Sound(history)' /\ HistoryFits'
  BY <1>2 DEF HistoryInv, HistoryFits
<1>. QED BY <1>11, <1>12 DEF HistoryInv

\* The round that is appended is complete, so the history stays acceptable.
LEMMA NextTurnKeepsTools ==
    ASSUME HistoryInv, NextTurn
    PROVE  HistoryInv'
<1>. DEFINE g == history
                 \o <<Message("assistant", Len(text), {calls[i] : i \in 1..Len(calls)})>>
                 \o toolsDone
<1>1. gen = "turning" /\ history' = Trimmed(g) /\ StartRound
  BY DEF NextTurn
<1>2. /\ calls \in Seq(CallIds) /\ Len(text) \in Nat
      /\ toolsDone \in Seq(MessageType) /\ Len(toolsDone) = Len(calls)
      /\ \A i \in 1..Len(toolsDone) :
            toolsDone[i].role = "tool" /\ toolsDone[i].calls = {calls[i]}
      /\ Sound(history)
  BY <1>1 DEF HistoryInv, ToolsInv
<1>3. Sound(g)
  BY <1>2, AppendedIsSound
<1>. HIDE DEF g
<1>4. Sound(history') /\ HistoryFits'
  BY <1>1, <1>3, TrimmedIsSound DEF HistoryFits
<1>. QED BY <1>1, <1>4, RoundKeepsTools

LEMMA NextHistory == HistoryInv /\ [Next]_vars => HistoryInv'
<1>. SUFFICES ASSUME HistoryInv, [Next]_vars PROVE HistoryInv'
  OBVIOUS
<1>. USE DEF Untouched, conversation, generator, queue, streamVars, response
<1>t. requests \in Nat /\ (round = "resolved" => call = "settled")
  BY DEF HistoryInv, ToolsInv
<1>1. CASE ResponseStarts
  BY <1>1, <1>t, ToolsUndisturbed DEF ResponseStarts
<1>2. CASE AttemptFails
  <2>1. PICK kind \in {"http", "network"} : RetryOrFail(kind)
    BY <1>2 DEF AttemptFails
  <2>. QED BY <1>2, <1>t, <2>1, FailKeepsTools DEF AttemptFails
<1>3. CASE AttemptRefused
  <2>1. PICK kind \in {"unsupported", "http"} : Fail(kind)
    BY <1>3 DEF AttemptRefused
  <2>. QED BY <1>3, <1>t, <2>1, FailKeepsTools DEF AttemptRefused
<1>4. ASSUME NEW chunk \in Chunks, ChunkArrives(chunk) PROVE HistoryInv'
  BY <1>4, ChunkKeepsTools
<1>5. CASE StreamEnds
  <2>1. gen' = gen \/ (gen = "waiting" /\ gen' = "taking")
    BY <1>5 DEF StreamEnds
  <2>. QED BY <1>5, <1>t, <2>1, ToolsUndisturbed DEF StreamEnds
<1>6. CASE StreamBreaks
  BY <1>6, <1>t, FailKeepsTools DEF StreamBreaks
<1>7. CASE Timers
  <2>1. CASE FirstPacketTimer
    BY <2>1, <1>t, ToolsUndisturbed DEF FirstPacketTimer
  <2>2. CASE OverallTimer
    BY <2>2, <1>t, ToolsUndisturbed DEF OverallTimer
  <2>3. CASE BackoffEnds
    BY <2>3, <1>t, ToolsUndisturbed DEF BackoffEnds
  <2>4. CASE AttemptAborted
    <3>1. PICK kind : Fail(kind)
      BY <2>4 DEF AttemptAborted
    <3>2. round # "resolved"
      BY <2>4, <1>t DEF AttemptAborted, InAttempt
    <3>. QED BY <2>4, <3>1, <3>2, FailKeepsTools DEF AttemptAborted
  <2>. QED BY <1>7, <2>1, <2>2, <2>3, <2>4 DEF Timers
<1>8. CASE GenTakes
  <2>1. gen = "taking" /\ gen' \in {"taking", "ended"}
    BY <1>8 DEF GenTakes, Deliver, CloseWith
  <2>. QED BY <1>8, <1>t, <2>1, ToolsUndisturbed DEF GenTakes
<1>9. CASE GenWaits
  <2>1. gen = "taking" /\ gen' \in {"round", "waiting"}
    BY <1>9 DEF GenWaits
  <2>. QED BY <1>9, <1>t, <2>1, ToolsUndisturbed DEF GenWaits
<1>10. CASE RoundReturns
  <2>1. /\ gen = "round" /\ round = "resolved"
        /\ UNCHANGED <<history, turn, toolsDone, calls, text, round, call, requests>>
    BY <1>10 DEF RoundReturns
  <2>2. CASE gen' = "ending"
    BY <2>1, <2>2, <1>t, ToolsUndisturbed
  <2>3. CASE gen' = "tools" /\ calls # << >>
    <3>1. /\ calls \in Seq(CallIds) /\ toolsDone = << >>
      BY <2>1 DEF HistoryInv, ToolsInv
    <3>2. Len(calls) > 0 /\ Len(toolsDone) = 0
      BY <2>3, <3>1
    <3>3. ToolsInv'
      BY <2>1, <2>3, <3>1, <3>2 DEF HistoryInv, ToolsInv
    <3>. QED BY <2>1, <3>3 DEF HistoryInv, HistoryFits
  <2>. QED BY <1>10, <2>2, <2>3 DEF RoundReturns
<1>11. CASE ToolReturns
  BY <1>11, ToolKeepsTools
<1>12. CASE NextTurn
  BY <1>12, NextTurnKeepsTools
<1>13. CASE GenFails
  <2>1. CASE StartRound /\ UNCHANGED <<history, turn>>
    BY <2>1, RoundKeepsTools DEF HistoryInv, HistoryFits
  <2>2. CASE gen' = "ending" /\ UNCHANGED <<conversation, toolsDone, queue, streamVars, requests>>
    BY <2>2, <1>t, ToolsUndisturbed
  <2>. QED BY <1>13, <2>1, <2>2 DEF GenFails
<1>14. CASE Ending
  <2>1. gen' \in {"ending", "ended"}
    BY <1>14 DEF Ending, Deliver, CloseWith
  <2>. QED BY <1>14, <1>t, <2>1, ToolsUndisturbed DEF Ending
<1>15. CASE ClientLeaves
  BY <1>15, <1>t, ToolsUndisturbed DEF ClientLeaves
<1>16. CASE UNCHANGED vars
  BY <1>16, <1>t, ToolsUndisturbed DEF vars
<1>. QED BY <1>1, <1>2, <1>3, <1>4, <1>5, <1>6, <1>7, <1>8, <1>9, <1>10, <1>11, <1>12,
            <1>13, <1>14, <1>15, <1>16 DEF Next, Generator

\* What the LLM is sent is well formed and as short as it can be, after any
\* number of turns and trims, for every limit and every dialogue.
THEOREM HistoryStaysSound == Spec => []HistoryIsSound
<1>1. HistoryInv => HistoryIsSound
  BY DEF HistoryInv, HistoryIsSound, HistoryWellFormed, Sound
<1>. QED BY <1>1, InitHistory, NextHistory, PTL DEF Spec

-----------------------------------------------------------------------------
\* The executor of the map actions

Numbers == [HistoryKinds -> Nat]
Entries == [kind : {"overlay", "camera"} \cup HistoryKinds, item : Nat, before : Nat]
Fetches == [item : Nat, by : Nat, view : Nat]
Overlays == [item : Nat, by : Nat]

ExecutorShape ==
    /\ view \in Nat /\ executor \in Nat /\ executed \in Nat /\ camera \in Nat
    /\ undoStack \in Seq(Entries)
    /\ histories \in [HistoryKinds -> Seq(Nat)]
    /\ shown \in Numbers
    /\ fetches \subseteq Fetches
    /\ drawn \subseteq Overlays

\* Numbers are given in order: nothing has the number of an action to come,
\* and nothing belongs to an executor to come.
NumbersAreGiven ==
    /\ \A i \in DOMAIN undoStack : undoStack[i].item <= executed
    /\ \A f \in fetches : f.item <= executed /\ f.by <= executor
    /\ \A o \in drawn : o.by <= executor

\* A fetch of this executor will be drawn by this view, once, and has left no
\* trace yet.
FetchesAreNew ==
    /\ \A f \in fetches : f.by = executor => f.view = view
    /\ \A f, g \in fetches : f.item = g.item => f = g
    /\ \A f \in fetches, i \in At("overlay") : undoStack[i].item # f.item

\* An entry of the camera goes back to the place of the one before it.
CameraChain ==
    /\ \A i, j \in At("camera") : i < j => undoStack[i].item < undoStack[j].item
    /\ \A i, j \in At("camera") :
          i < j /\ (\A k \in At("camera") : k <= i \/ j <= k) => undoStack[j].before = undoStack[i].item

\* What was drawn by this executor is what the stack says, also when the view is gone.
EntriesAreApart == \A i, j \in At("overlay") : undoStack[i].item = undoStack[j].item => i = j

\* The executor of a closed panel has done nothing.
ClosedIsIdle ==
    ~opened =>
        /\ undoStack = <<>>
        /\ \A k \in HistoryKinds : histories[k] = <<>>
        /\ \A f \in fetches : f.by # executor

UndoInv ==
    /\ ExecutorShape /\ NumbersAreGiven /\ FetchesAreNew /\ CameraChain /\ EntriesAreApart
    /\ ClosedIsIdle /\ UndoTakesBack

-----------------------------------------------------------------------------
\* Stacks

LEMMA PushIs ==
    ASSUME NEW S, NEW s \in Seq(S), NEW e \in S
    PROVE  /\ Append(s, e) \in Seq(S) /\ Append(s, e) # <<>>
           /\ Len(Append(s, e)) = Len(s) + 1
           /\ DOMAIN s = 1..Len(s) /\ Len(s) \in Nat
           /\ DOMAIN Append(s, e) = 1..(Len(s) + 1)
           /\ \A i \in 1..Len(s) : Append(s, e)[i] = s[i]
           /\ Append(s, e)[Len(s) + 1] = e
OBVIOUS

LEMMA PopIs ==
    ASSUME NEW S, NEW s \in Seq(S), s # <<>>
    PROVE  /\ Front(s) \in Seq(S)
           /\ Len(Front(s)) = Len(s) - 1 /\ Len(Front(s)) \in Nat
           /\ DOMAIN s = 1..Len(s) /\ Len(s) \in Nat /\ Len(s) \in 1..Len(s)
           /\ DOMAIN Front(s) = 1..(Len(s) - 1)
           /\ \A i \in 1..(Len(s) - 1) : Front(s)[i] = s[i]
           /\ Last(s) = s[Len(s)]
           /\ Front(s) # <<>> => Len(s) - 1 \in 1..(Len(s) - 1) /\ Last(Front(s)) = s[Len(s) - 1]
<1>1. Len(s) \in Nat /\ Len(s) >= 1 /\ DOMAIN s = 1..Len(s)
  OBVIOUS
<1>2. /\ Front(s) \in Seq(S)
      /\ Len(Front(s)) = Len(s) - 1
      /\ \A i \in 1..(Len(s) - 1) : Front(s)[i] = s[i]
  <2>1. \A i \in 1..(Len(s) - 1) : s[i] \in S
    BY <1>1
  <2>2. /\ Front(s) \in Seq(S)
        /\ Len(Front(s)) = IF 1 <= Len(s) - 1 THEN (Len(s) - 1) - 1 + 1 ELSE 0
        /\ \A i \in 1..(Len(s) - 1) - 1 + 1 : Front(s)[i] = s[1 + i - 1]
    BY <1>1, <2>1, SubSeqProperties DEF Front
  <2>3. Len(Front(s)) = Len(s) - 1 /\ (Len(s) - 1) - 1 + 1 = Len(s) - 1
    <3>1. Len(Front(s)) = IF 1 <= Len(s) - 1 THEN (Len(s) - 1) - 1 + 1 ELSE 0
      BY <2>2
    <3>2. Len(s) \in Nat /\ Len(s) >= 1
      BY <1>1
    <3>3. (Len(s) - 1) - 1 + 1 = Len(s) - 1
      BY <3>2
    <3>4. CASE 1 <= Len(s) - 1
      BY <3>1, <3>3, <3>4
    <3>5. CASE ~(1 <= Len(s) - 1)
      <4>1. Len(s) - 1 = 0
        <5>1. \A n \in Nat : n >= 1 /\ ~(1 <= n - 1) => n - 1 = 0
          OBVIOUS
        <5>. QED BY Zenon, <3>2, <3>5, <5>1
      <4>. QED BY <3>1, <3>3, <3>5, <4>1
    <3>. QED BY <3>4, <3>5
  <2>4. \A i \in 1..(Len(s) - 1) : 1 + i - 1 = i
    BY <1>1
  <2>. HIDE DEF Front
  <2>5. \A i \in 1..(Len(s) - 1) : Front(s)[i] = s[i]
    BY <2>2, <2>3, <2>4
  <2>. QED BY <2>2, <2>3, <2>5
<1>3. DOMAIN Front(s) = 1..(Len(s) - 1)
  BY <1>1, <1>2
<1>4. ASSUME Front(s) # <<>>
      PROVE  Len(s) - 1 \in 1..(Len(s) - 1) /\ Last(Front(s)) = s[Len(s) - 1]
  <2>1. Len(Front(s)) # 0
    BY <1>2, <1>4
  <2>2. Len(s) - 1 \in 1..(Len(s) - 1)
    BY <1>1, <1>2, <2>1
  <2>. QED BY <1>2, <2>2 DEF Last
<1>. QED BY <1>1, <1>2, <1>3, <1>4 DEF Last

\* How the entries of a kind stand after a push.
LEMMA PushedAt ==
    ASSUME ExecutorShape, NEW e \in Entries, undoStack' = Append(undoStack, e), NEW k
    PROVE  /\ DOMAIN undoStack = 1..Len(undoStack) /\ Len(undoStack) \in Nat
           /\ undoStack' \in Seq(Entries)
           /\ \A i \in DOMAIN undoStack : undoStack'[i] = undoStack[i]
           /\ undoStack'[Len(undoStack) + 1] = e
           /\ DOMAIN undoStack' = DOMAIN undoStack \cup {Len(undoStack) + 1}
           /\ Len(undoStack) + 1 \notin DOMAIN undoStack
           /\ At(k)' = IF e.kind = k THEN At(k) \cup {Len(undoStack) + 1} ELSE At(k)
           /\ At(k) \subseteq DOMAIN undoStack
<1>. DEFINE N == Len(undoStack)
<1>1. undoStack \in Seq(Entries)
  BY DEF ExecutorShape
<1>2. /\ Append(undoStack, e) \in Seq(Entries)
      /\ DOMAIN undoStack = 1..N /\ N \in Nat
      /\ DOMAIN undoStack' = 1..(N + 1)
      /\ \A i \in 1..N : undoStack'[i] = undoStack[i]
      /\ undoStack'[N + 1] = e
  BY <1>1, PushIs
<1>3. DOMAIN undoStack' = DOMAIN undoStack \cup {N + 1} /\ N + 1 \notin DOMAIN undoStack
  BY <1>2
<1>4. At(k)' = {i \in DOMAIN undoStack' : undoStack'[i].kind = k}
  BY DEF At
<1>. HIDE DEF N
<1>5. At(k)' = IF e.kind = k THEN At(k) \cup {N + 1} ELSE At(k)
  BY <1>2, <1>3, <1>4 DEF At
<1>. QED BY <1>2, <1>3, <1>5 DEF At, N

\* How they stand after a pop.
LEMMA PoppedAt ==
    ASSUME ExecutorShape, undoStack # <<>>, undoStack' = Front(undoStack), NEW k
    PROVE  /\ DOMAIN undoStack = 1..Len(undoStack) /\ Len(undoStack) \in Nat
           /\ undoStack' \in Seq(Entries)
           /\ Last(undoStack) = undoStack[Len(undoStack)]
           /\ Len(undoStack) \in DOMAIN undoStack
           /\ DOMAIN undoStack' = DOMAIN undoStack \ {Len(undoStack)}
           /\ \A i \in DOMAIN undoStack' : undoStack'[i] = undoStack[i]
           /\ At(k)' = At(k) \ {Len(undoStack)}
           /\ At(k) \subseteq DOMAIN undoStack
<1>. DEFINE N == Len(undoStack)
<1>1. undoStack \in Seq(Entries)
  BY DEF ExecutorShape
<1>2. /\ undoStack' \in Seq(Entries)
      /\ DOMAIN undoStack = 1..N /\ N \in Nat /\ N \in 1..N
      /\ DOMAIN undoStack' = 1..(N - 1)
      /\ \A i \in 1..(N - 1) : undoStack'[i] = undoStack[i]
      /\ Last(undoStack) = undoStack[N]
  BY <1>1, PopIs
<1>3. DOMAIN undoStack' = DOMAIN undoStack \ {N}
  BY <1>2
<1>. HIDE DEF N
<1>4. At(k)' = At(k) \ {N}
  BY <1>2, <1>3 DEF At
<1>. QED BY <1>2, <1>3, <1>4 DEF At, N

LEMMA KindsApart == \A k \in HistoryKinds : k # "overlay" /\ k # "camera"
BY DEF HistoryKinds

-----------------------------------------------------------------------------
\* The steps of the executor

\* The entries of kind k are as they were.
SameAt(k) == At(k)' = At(k) /\ \A i \in At(k) : undoStack'[i] = undoStack[i]

LEMMA SameCamera ==
    ASSUME CameraChain, SameAt("camera")
    PROVE  CameraChain'
<1>1. /\ At("camera")' = At("camera")
      /\ \A i \in At("camera") : undoStack'[i] = undoStack[i]
  BY DEF SameAt
<1>. QED BY <1>1 DEF CameraChain

LEMMA SameCameraShown ==
    ASSUME \A i \in At("camera") : (\A j \in At("camera") : j <= i) => undoStack[i].item = camera,
           SameAt("camera"), UNCHANGED camera
    PROVE  \A i \in At("camera")' : (\A j \in At("camera")' : j <= i) => undoStack'[i].item = camera'
BY DEF SameAt

\* What MapFollowsTheStack says of one kind of history.
HistoryFollows(k) ==
    /\ {undoStack[i].item : i \in At(k)} = Range(histories[k])
    /\ \A i, j \in At(k) : i < j => undoStack[i].item < undoStack[j].item
    /\ \A i, j \in DOMAIN histories[k] : i < j => histories[k][i] < histories[k][j]
    /\ histories[k] # <<>> => Last(histories[k]) = shown[k]

LEMMA SameHistory ==
    ASSUME NEW k, HistoryFollows(k), SameAt(k),
           histories'[k] = histories[k], shown'[k] = shown[k]
    PROVE  HistoryFollows(k)'
<1>1. At(k)' = At(k) /\ \A i \in At(k) : undoStack'[i] = undoStack[i]
  BY DEF SameAt
<1>2. {undoStack'[i].item : i \in At(k)'} = {undoStack[i].item : i \in At(k)}
  BY <1>1
<1>. QED BY <1>1, <1>2 DEF HistoryFollows

LEMMA MapFollowsIs ==
    MapFollowsTheStack <=>
        /\ Ready => \A i \in At("camera") :
                       (\A j \in At("camera") : j <= i) => undoStack[i].item = camera
        /\ \A k \in HistoryKinds : HistoryFollows(k)
BY Zenon DEF MapFollowsTheStack, HistoryFollows

\* What the executor's own overlays are.
Own == {o.item : o \in {p \in drawn : p.by = executor}}

LEMMA SameOverlays ==
    ASSUME EntriesAreApart, SameAt("overlay")
    PROVE  /\ EntriesAreApart'
           /\ {undoStack'[i].item : i \in At("overlay")'} = {undoStack[i].item : i \in At("overlay")}
<1>1. /\ At("overlay")' = At("overlay")
      /\ \A i \in At("overlay") : undoStack'[i] = undoStack[i]
  BY DEF SameAt
<1>. QED BY <1>1 DEF EntriesAreApart

LEMMA CoversIs ==
    ASSUME EntriesAreApart
    PROVE  UndoCoversDrawn <=> (Ready => {undoStack[i].item : i \in At("overlay")} = Own)
BY DEF UndoCoversDrawn, EntriesAreApart, Own

\* An action is carried out: its number is new.
LEMMA CarryKeeps ==
    ASSUME UndoInv, UNCHANGED opened, opened, Ready, NEW kind \in ActionKinds, Carry(kind)
    PROVE  UndoInv'
<1>. DEFINE n == executed + 1
            N == Len(undoStack)
            f0 == [item |-> n, by |-> executor, view |-> view]
            o0 == [item |-> n, by |-> executor]
<1>1. /\ view \in Nat /\ executor \in Nat /\ executed \in Nat /\ camera \in Nat /\ n \in Nat
      /\ undoStack \in Seq(Entries) /\ histories \in [HistoryKinds -> Seq(Nat)]
      /\ shown \in Numbers /\ fetches \subseteq Fetches /\ drawn \subseteq Overlays
      /\ ExecutorShape
  BY DEF UndoInv, ExecutorShape
<1>2. /\ executed' = n /\ UNCHANGED <<view, alive, executor>>
      /\ undoStack' = undoStack \o UndoEntries(kind, n)
  BY DEF Carry
<1>3. Ready' /\ opened'
  BY <1>2 DEF Ready
<1>4. n > executed /\ \A i \in DOMAIN undoStack : undoStack[i].item \in Nat /\ undoStack[i].item < n
  <2>1. \A i \in DOMAIN undoStack : undoStack[i] \in Entries
    BY <1>1
  <2>2. \A i \in DOMAIN undoStack : undoStack[i].item \in Nat
    BY <2>1 DEF Entries
  <2>. QED BY <1>1, <2>2 DEF UndoInv, NumbersAreGiven
<1>5. \A f \in fetches : f.item \in Nat /\ f.by \in Nat /\ f.item < n /\ f.by <= executor
  <2>1. \A f \in fetches : f.item \in Nat /\ f.by \in Nat
    BY <1>1 DEF Fetches
  <2>. QED BY <1>1, <2>1 DEF UndoInv, NumbersAreGiven
<1>6. \A o \in drawn : o.by <= executor
  BY DEF UndoInv, NumbersAreGiven
<1>7. ClosedIsIdle'
  BY <1>3 DEF ClosedIsIdle
<1>8. /\ FetchesAreNew /\ CameraChain /\ EntriesAreApart
      /\ {undoStack[i].item : i \in At("overlay")} = Own
      /\ \A i \in At("camera") : (\A j \in At("camera") : j <= i) => undoStack[i].item = camera
      /\ \A k \in HistoryKinds : HistoryFollows(k)
  BY CoversIs, MapFollowsIs DEF UndoInv, UndoTakesBack
<1>. HIDE DEF n, N
<1>9. ASSUME NEW k, SameAt(k), kind \notin HistoryKinds, k \in HistoryKinds
      PROVE  HistoryFollows(k)'
  BY <1>8, <1>9, SameHistory DEF Carry
<1>10. CASE kind \in OverlayKinds
  <2>. DEFINE e == [kind |-> "overlay", item |-> n, before |-> 0]
  <2>1. kind \notin HistoryKinds /\ kind # "flyTo" /\ kind # "showRoute"
    BY <1>10 DEF OverlayKinds, HistoryKinds
  <2>2. /\ UNCHANGED <<histories, shown, camera, fetches>>
        /\ drawn' = drawn \cup {o0}
    BY <1>10, <2>1 DEF Carry, Overlay, n
  <2>3. e \in Entries /\ undoStack' = Append(undoStack, e)
    <3>1. UndoEntries(kind, n) = <<e>>
      BY <1>10 DEF UndoEntries, Entry
    <3>. QED BY <1>1, <1>2, <3>1 DEF Entries
  <2>. HIDE DEF e
  <2>4. e.kind = "overlay" /\ e.item = n
    BY DEF e
  <2>5. /\ undoStack' \in Seq(Entries) /\ N + 1 \notin DOMAIN undoStack
        /\ DOMAIN undoStack' = DOMAIN undoStack \cup {N + 1}
        /\ undoStack'[N + 1] = e
        /\ \A i \in DOMAIN undoStack : undoStack'[i] = undoStack[i]
    BY <1>1, <2>3, PushedAt DEF N
  <2>6. ASSUME NEW k, k # "overlay" PROVE SameAt(k)
    BY <1>1, <2>3, <2>4, <2>6, PushedAt DEF SameAt
  <2>7. At("overlay")' = At("overlay") \cup {N + 1} /\ At("overlay") \subseteq DOMAIN undoStack
    BY <1>1, <2>3, <2>4, PushedAt DEF N
  <2>8. ExecutorShape'
    <3>1. o0 \in Overlays
      BY <1>1 DEF Overlays
    <3>. QED BY <1>1, <1>2, <2>2, <2>5, <3>1 DEF ExecutorShape
  <2>9. NumbersAreGiven'
    <3>1. \A i \in DOMAIN undoStack' : undoStack'[i].item <= n
      BY <1>1, <1>4, <2>4, <2>5
    <3>2. \A o \in drawn' : o.by <= executor
      BY <1>1, <1>6, <2>2
    <3>. QED BY <1>1, <1>2, <1>5, <2>2, <3>1, <3>2 DEF NumbersAreGiven
  <2>10. FetchesAreNew'
    <3>1. \A f \in fetches, i \in At("overlay")' : undoStack'[i].item # f.item
      BY <1>1, <1>5, <1>8, <2>4, <2>5, <2>7 DEF FetchesAreNew
    <3>. QED BY <1>2, <1>8, <2>2, <3>1 DEF FetchesAreNew
  <2>11. CameraChain'
    BY <1>8, <2>6, SameCamera
  <2>12. EntriesAreApart'
    BY <1>1, <1>4, <1>8, <2>4, <2>5, <2>7 DEF EntriesAreApart
  <2>13. {undoStack'[i].item : i \in At("overlay")'} = Own'
    <3>1. {undoStack'[i].item : i \in At("overlay")'} = {undoStack[i].item : i \in At("overlay")} \cup {n}
      BY <2>4, <2>5, <2>7
    <3>2. Own' = Own \cup {n}
      <4>1. {p \in drawn' : p.by = executor'} = {p \in drawn : p.by = executor} \cup {o0}
        BY <1>2, <2>2
      <4>2. o0.item = n
        OBVIOUS
      <4>. QED BY <4>1, <4>2 DEF Own
    <3>. QED BY <1>8, <3>1, <3>2
  <2>14. UndoCoversDrawn'
    BY <2>12, <2>13 DEF UndoCoversDrawn, EntriesAreApart, Own
  <2>15. \A k \in HistoryKinds : HistoryFollows(k)'
    BY <1>9, <2>1, <2>6, KindsApart
  <2>16. \A i \in At("camera")' : (\A j \in At("camera")' : j <= i) => undoStack'[i].item = camera'
    BY <1>8, <2>2, <2>6, SameCameraShown
  <2>17. MapFollowsTheStack'
    BY Zenon, <2>15, <2>16 DEF MapFollowsTheStack, HistoryFollows
  <2>. QED BY <1>7, <2>8, <2>9, <2>10, <2>11, <2>12, <2>14, <2>17 DEF UndoInv, UndoTakesBack
<1>11. CASE kind = "flyTo"
  <2>. DEFINE e == [kind |-> "camera", item |-> n, before |-> camera]
  <2>1. kind \notin HistoryKinds /\ kind \notin OverlayKinds /\ kind # "showRoute"
    BY <1>11 DEF OverlayKinds, HistoryKinds
  <2>2. /\ UNCHANGED <<histories, shown, drawn, fetches>>
        /\ camera' = n
    BY <1>11, <2>1 DEF Carry, n
  <2>3. e \in Entries /\ undoStack' = Append(undoStack, e)
    <3>1. UndoEntries(kind, n) = <<e>>
      BY <1>11, <2>1 DEF UndoEntries, Entry
    <3>. QED BY <1>1, <1>2, <3>1 DEF Entries
  <2>. HIDE DEF e
  <2>4. e.kind = "camera" /\ e.item = n /\ e.before = camera
    BY DEF e
  <2>5. /\ undoStack' \in Seq(Entries) /\ N + 1 \notin DOMAIN undoStack
        /\ DOMAIN undoStack' = DOMAIN undoStack \cup {N + 1}
        /\ undoStack'[N + 1] = e
        /\ \A i \in DOMAIN undoStack : undoStack'[i] = undoStack[i]
        /\ DOMAIN undoStack = 1..N /\ N \in Nat
    BY <1>1, <2>3, PushedAt DEF N
  <2>6. ASSUME NEW k, k # "camera" PROVE SameAt(k)
    BY <1>1, <2>3, <2>4, <2>6, PushedAt DEF SameAt
  <2>7. At("camera")' = At("camera") \cup {N + 1} /\ At("camera") \subseteq 1..N
    BY <1>1, <2>3, <2>4, PushedAt DEF N
  <2>8. ExecutorShape'
    BY <1>1, <1>2, <2>2, <2>5 DEF ExecutorShape
  <2>9. NumbersAreGiven'
    <3>1. \A i \in DOMAIN undoStack' : undoStack'[i].item <= n
      BY <1>1, <1>4, <2>4, <2>5
    <3>. QED BY <1>1, <1>2, <1>5, <1>6, <2>2, <3>1 DEF NumbersAreGiven
  <2>10. SameAt("overlay")
    BY <2>6
  <2>11. FetchesAreNew'
    BY <1>2, <1>8, <2>2, <2>10 DEF FetchesAreNew, SameAt
  <2>12. CameraChain'
    <3>1. \A i, j \in At("camera")' : i < j => undoStack'[i].item < undoStack'[j].item
      <4>1. \A i \in At("camera") : undoStack'[i] = undoStack[i] /\ undoStack[i].item < n /\ i < N + 1
        BY <1>4, <2>5, <2>7
      <4>. QED BY <1>8, <2>4, <2>5, <2>7, <4>1 DEF CameraChain
    <3>2. ASSUME NEW i \in At("camera")', NEW j \in At("camera")', i < j,
                 \A k \in At("camera")' : k <= i \/ j <= k
          PROVE  undoStack'[j].before = undoStack'[i].item
      <4>0. i \in 1..(N + 1) /\ j \in 1..(N + 1) /\ i \in At("camera") /\ i \in 1..N
        BY <3>2, <2>5, <2>7
      <4>1. CASE j = N + 1
        <5>1. \A k \in At("camera") : k <= i
          BY <3>2, <2>5, <2>7, <4>0, <4>1
        <5>2. undoStack[i].item = camera
          BY <1>8, <4>0, <5>1
        <5>. QED BY <2>4, <2>5, <4>0, <4>1, <5>2
      <4>2. CASE j # N + 1
        <5>1. j \in At("camera") /\ j \in 1..N
          BY <2>7, <4>2
        <5>2. \A k \in At("camera") : k <= i \/ j <= k
          BY <3>2, <2>7
        <5>3. undoStack[j].before = undoStack[i].item
          BY <1>8, <3>2, <4>0, <5>1, <5>2 DEF CameraChain
        <5>. QED BY <2>5, <4>0, <5>1, <5>3
      <4>. QED BY <4>1, <4>2
    <3>. QED BY <3>1, <3>2 DEF CameraChain
  <2>13. /\ EntriesAreApart'
         /\ {undoStack'[i].item : i \in At("overlay")'} = {undoStack[i].item : i \in At("overlay")}
    BY <1>8, <2>10, SameOverlays
  <2>14. Own' = Own
    BY <1>2, <2>2 DEF Own
  <2>15. UndoCoversDrawn'
    BY <1>8, <2>13, <2>14 DEF UndoCoversDrawn, EntriesAreApart, Own
  <2>16. \A k \in HistoryKinds : HistoryFollows(k)'
    BY <1>9, <2>1, <2>6, KindsApart
  <2>17. \A i \in At("camera")' : (\A j \in At("camera")' : j <= i) => undoStack'[i].item = camera'
    BY <2>2, <2>4, <2>5, <2>7
  <2>18. MapFollowsTheStack'
    BY Zenon, <2>16, <2>17 DEF MapFollowsTheStack, HistoryFollows
  <2>. QED BY <1>7, <2>8, <2>9, <2>11, <2>12, <2>13, <2>15, <2>18 DEF UndoInv, UndoTakesBack
<1>12. CASE kind \in HistoryKinds
  <2>. DEFINE e == [kind |-> kind, item |-> n, before |-> 0]
  <2>1. kind # "flyTo" /\ kind \notin OverlayKinds /\ kind # "showRoute" /\ kind # "overlay" /\ kind # "camera"
    BY <1>12 DEF OverlayKinds, HistoryKinds
  <2>2. /\ UNCHANGED <<drawn, camera, fetches>>
        /\ histories' = [histories EXCEPT ![kind] = Append(@, n)]
        /\ shown' = [shown EXCEPT ![kind] = n]
    BY <1>12, <2>1 DEF Carry, n
  <2>3. e \in Entries /\ undoStack' = Append(undoStack, e)
    <3>1. UndoEntries(kind, n) = <<e>>
      BY <1>12, <2>1 DEF UndoEntries, Entry
    <3>. QED BY <1>1, <1>2, <1>12, <3>1 DEF Entries
  <2>. HIDE DEF e
  <2>4. e.kind = kind /\ e.item = n
    BY DEF e
  <2>5. /\ undoStack' \in Seq(Entries) /\ N + 1 \notin DOMAIN undoStack
        /\ DOMAIN undoStack' = DOMAIN undoStack \cup {N + 1}
        /\ undoStack'[N + 1] = e
        /\ \A i \in DOMAIN undoStack : undoStack'[i] = undoStack[i]
        /\ DOMAIN undoStack = 1..N /\ N \in Nat
    BY <1>1, <2>3, PushedAt DEF N
  <2>6. ASSUME NEW k, k # kind PROVE SameAt(k)
    BY <1>1, <2>3, <2>4, <2>6, PushedAt DEF SameAt
  <2>7. At(kind)' = At(kind) \cup {N + 1} /\ At(kind) \subseteq 1..N
    BY <1>1, <2>3, <2>4, PushedAt DEF N
  <2>8. ExecutorShape'
    <3>1. histories' \in [HistoryKinds -> Seq(Nat)]
      <4>1. Append(histories[kind], n) \in Seq(Nat)
        BY <1>1, <1>12
      <4>. QED BY <1>1, <2>2, <4>1
    <3>2. shown' \in Numbers
      BY <1>1, <2>2 DEF Numbers
    <3>. QED BY <1>1, <1>2, <2>2, <2>5, <3>1, <3>2 DEF ExecutorShape
  <2>9. NumbersAreGiven'
    <3>1. \A i \in DOMAIN undoStack' : undoStack'[i].item <= n
      BY <1>1, <1>4, <2>4, <2>5
    <3>. QED BY <1>1, <1>2, <1>5, <1>6, <2>2, <3>1 DEF NumbersAreGiven
  <2>10. SameAt("overlay") /\ SameAt("camera")
    BY <2>1, <2>6
  <2>11. FetchesAreNew'
    BY <1>2, <1>8, <2>2, <2>10 DEF FetchesAreNew, SameAt
  <2>12. CameraChain'
    BY <1>8, <2>10, SameCamera
  <2>13. /\ EntriesAreApart'
         /\ {undoStack'[i].item : i \in At("overlay")'} = {undoStack[i].item : i \in At("overlay")}
    BY <1>8, <2>10, SameOverlays
  <2>14. Own' = Own
    BY <1>2, <2>2 DEF Own
  <2>15. UndoCoversDrawn'
    BY <1>8, <2>13, <2>14 DEF UndoCoversDrawn, EntriesAreApart, Own
  <2>16. ASSUME NEW k \in HistoryKinds PROVE HistoryFollows(k)'
    <3>1. CASE k # kind
      <4>1. histories'[k] = histories[k] /\ shown'[k] = shown[k]
        BY <1>1, <2>2, <3>1 DEF Numbers
      <4>. QED BY <1>8, <2>6, <3>1, <4>1, SameHistory
    <3>2. CASE k = kind
      <4>. DEFINE h == histories[kind]
      <4>1. h \in Seq(Nat)
        BY <1>1, <1>12
      <4>2. histories'[k] = Append(h, n) /\ shown'[k] = n
        BY <1>1, <1>12, <2>2, <3>2 DEF Numbers
      <4>3. HistoryFollows(kind)
        BY <1>8, <1>12
      <4>. HIDE DEF h
      <4>4. /\ Append(h, n) # <<>> /\ DOMAIN h = 1..Len(h) /\ Len(h) \in Nat
            /\ DOMAIN Append(h, n) = 1..(Len(h) + 1)
            /\ \A i \in 1..Len(h) : Append(h, n)[i] = h[i]
            /\ Append(h, n)[Len(h) + 1] = n
            /\ Len(Append(h, n)) = Len(h) + 1
        <5>1. n \in Nat
          BY <1>1
        <5>. QED BY <4>1, <5>1, PushIs
      <4>5. {undoStack'[i].item : i \in At(kind)'} = {undoStack[i].item : i \in At(kind)} \cup {n}
        BY <2>4, <2>5, <2>7
      <4>6. Range(Append(h, n)) = Range(h) \cup {n}
        <5>1. DOMAIN Append(h, n) = DOMAIN h \cup {Len(h) + 1}
          BY <4>4
        <5>. QED BY <4>4, <5>1 DEF Range
      <4>7. \A i \in At(kind) : undoStack'[i] = undoStack[i] /\ undoStack[i].item < n /\ i < N + 1
        BY <1>4, <2>5, <2>7
      <4>8. \A i, j \in At(kind)' : i < j => undoStack'[i].item < undoStack'[j].item
        BY <2>4, <2>5, <2>7, <4>3, <4>7 DEF HistoryFollows
      <4>9. \A i \in 1..Len(h) : h[i] < n
        <5>1. \A i \in 1..Len(h) : h[i] \in {undoStack[j].item : j \in At(kind)}
          BY <4>3, <4>4 DEF HistoryFollows, Range, h
        <5>. QED BY <4>7, <5>1
      <4>10. \A i, j \in DOMAIN Append(h, n) : i < j => Append(h, n)[i] < Append(h, n)[j]
        BY <4>3, <4>4, <4>9 DEF HistoryFollows, h
      <4>11. Last(Append(h, n)) = n
        BY <4>4 DEF Last
      <4>12. {undoStack[i].item : i \in At(kind)} = Range(h)
        BY <4>3 DEF HistoryFollows, h
      <4>13. {undoStack'[i].item : i \in At(kind)'} = Range(Append(h, n))
        BY <4>5, <4>6, <4>12
      <4>. QED BY <3>2, <4>2, <4>8, <4>10, <4>11, <4>13 DEF HistoryFollows
    <3>. QED BY <3>1, <3>2
  <2>17. \A i \in At("camera")' : (\A j \in At("camera")' : j <= i) => undoStack'[i].item = camera'
    BY <1>8, <2>2, <2>10, SameCameraShown
  <2>18. MapFollowsTheStack'
    BY Zenon, <2>16, <2>17 DEF MapFollowsTheStack, HistoryFollows
  <2>. QED BY <1>7, <2>8, <2>9, <2>11, <2>12, <2>13, <2>15, <2>18 DEF UndoInv, UndoTakesBack
<1>13. CASE kind \notin OverlayKinds \cup HistoryKinds \cup {"flyTo"}
  <2>1. /\ undoStack' = undoStack
        /\ UNCHANGED <<drawn, camera, histories, shown>>
        /\ fetches' \in {fetches, fetches \cup {f0}}
    <3>1. UndoEntries(kind, n) = <<>>
      BY <1>13 DEF UndoEntries
    <3>2. undoStack' = undoStack
      BY <1>1, <1>2, <3>1
    <3>. QED BY <1>13, <3>2 DEF Carry, n
  <2>2. \A k : SameAt(k)
    BY <2>1 DEF SameAt, At
  <2>3. ExecutorShape'
    <3>1. f0 \in Fetches
      BY <1>1 DEF Fetches
    <3>. QED BY <1>1, <1>2, <2>1, <3>1 DEF ExecutorShape
  <2>4. NumbersAreGiven'
    <3>1. \A f \in fetches' : f.item <= n /\ f.by <= executor
      BY <1>1, <1>5, <2>1
    <3>2. \A i \in DOMAIN undoStack : undoStack[i].item <= n
      BY <1>1, <1>4
    <3>. QED BY <1>2, <1>6, <2>1, <3>1, <3>2 DEF NumbersAreGiven
  <2>5. FetchesAreNew'
    <3>1. \A f, g \in fetches' : f.item = g.item => f = g
      BY <1>1, <1>5, <1>8, <2>1 DEF FetchesAreNew
    <3>2. At("overlay")' = At("overlay") /\ At("overlay") \subseteq DOMAIN undoStack
      BY <2>2 DEF SameAt, At
    <3>3. \A f \in fetches', i \in At("overlay") : undoStack[i].item # f.item
      BY <1>1, <1>4, <1>8, <2>1, <3>2 DEF FetchesAreNew
    <3>4. \A f \in fetches' : f.by = executor => f.view = view
      BY <1>8, <2>1 DEF FetchesAreNew
    <3>. QED BY <1>2, <2>1, <3>1, <3>2, <3>3, <3>4 DEF FetchesAreNew
  <2>6. CameraChain'
    BY <1>8, <2>2, SameCamera
  <2>7. /\ EntriesAreApart'
        /\ {undoStack'[i].item : i \in At("overlay")'} = {undoStack[i].item : i \in At("overlay")}
    BY <1>8, <2>2, SameOverlays
  <2>8. Own' = Own
    BY <1>2, <2>1 DEF Own
  <2>9. UndoCoversDrawn'
    BY <1>8, <2>7, <2>8 DEF UndoCoversDrawn, EntriesAreApart, Own
  <2>10. \A k \in HistoryKinds : HistoryFollows(k)'
    BY <1>9, <1>13, <2>2
  <2>11. \A i \in At("camera")' : (\A j \in At("camera")' : j <= i) => undoStack'[i].item = camera'
    BY <1>8, <2>1, <2>2, SameCameraShown
  <2>12. MapFollowsTheStack'
    BY Zenon, <2>10, <2>11 DEF MapFollowsTheStack, HistoryFollows
  <2>. QED BY <1>7, <2>3, <2>4, <2>5, <2>6, <2>7, <2>9, <2>12 DEF UndoInv, UndoTakesBack
<1>. QED BY <1>10, <1>11, <1>12, <1>13

\* A refusal changes nothing that matters here.
LEMMA NothingKeeps ==
    ASSUME UndoInv, UNCHANGED <<view, alive, executor, undoStack, histories, fetches, drawn, shown,
                                camera, executed>>,
           ~opened' => ~opened
    PROVE  UndoInv'
<1>1. \A k : SameAt(k)
  BY DEF SameAt, At
<1>2. /\ FetchesAreNew /\ CameraChain /\ EntriesAreApart /\ ClosedIsIdle
      /\ ExecutorShape /\ NumbersAreGiven
      /\ Ready => {undoStack[i].item : i \in At("overlay")} = Own
      /\ Ready => \A i \in At("camera") : (\A j \in At("camera") : j <= i) => undoStack[i].item = camera
      /\ \A k \in HistoryKinds : HistoryFollows(k)
  BY CoversIs, MapFollowsIs DEF UndoInv, UndoTakesBack
<1>3. Ready' = Ready /\ Own' = Own
  BY DEF Ready, Own
<1>4. CameraChain' /\ EntriesAreApart'
      /\ {undoStack'[i].item : i \in At("overlay")'} = {undoStack[i].item : i \in At("overlay")}
  BY <1>1, <1>2, SameCamera, SameOverlays
<1>5. ExecutorShape' /\ NumbersAreGiven' /\ ClosedIsIdle'
  BY <1>2 DEF ExecutorShape, NumbersAreGiven, ClosedIsIdle
<1>6. FetchesAreNew'
  BY <1>1, <1>2 DEF FetchesAreNew, SameAt
<1>7. UndoCoversDrawn'
  BY <1>2, <1>3, <1>4 DEF UndoCoversDrawn, EntriesAreApart, Own
<1>8. \A k \in HistoryKinds : HistoryFollows(k)'
  BY <1>1, <1>2, SameHistory
<1>9. Ready' => \A i \in At("camera")' :
                   (\A j \in At("camera")' : j <= i) => undoStack'[i].item = camera'
  BY <1>1, <1>2, <1>3, SameCameraShown
<1>10. MapFollowsTheStack'
  BY Zenon, <1>8, <1>9 DEF MapFollowsTheStack, HistoryFollows
<1>. QED BY <1>4, <1>5, <1>6, <1>7, <1>10 DEF UndoInv, UndoTakesBack

\* A new executor begins with nothing, and nobody works for it yet.
LEMMA EmptyKeeps ==
    ASSUME UndoInv, NewExecutor, UNCHANGED <<shown, camera, fetches, executed>>,
           view' \in Nat, drawn' \subseteq drawn
    PROVE  UndoInv'
<1>1. /\ executor \in Nat /\ executor' = executor + 1 /\ undoStack' = <<>>
      /\ histories' = [k \in HistoryKinds |-> <<>>]
      /\ fetches \subseteq Fetches /\ drawn \subseteq Overlays
      /\ ExecutorShape /\ NumbersAreGiven /\ FetchesAreNew
  BY DEF UndoInv, ExecutorShape, NewExecutor
<1>2. \A k : At(k)' = {}
  BY <1>1 DEF At
<1>3. /\ \A f \in fetches : f.by \in Nat /\ f.by < executor'
      /\ \A o \in drawn : o.by \in Nat /\ o.by < executor'
  <2>1. /\ \A f \in fetches : f.by \in Nat
        /\ \A o \in drawn : o.by \in Nat
    BY <1>1 DEF Fetches, Overlays
  <2>. QED BY <1>1, <2>1 DEF NumbersAreGiven
<1>4. ExecutorShape'
  BY <1>1 DEF ExecutorShape
<1>5. NumbersAreGiven'
  <2>1. /\ \A f \in fetches : f.by <= executor'
        /\ \A o \in drawn' : o.by <= executor'
    BY <1>1, <1>3
  <2>2. DOMAIN undoStack' = {}
    BY <1>1
  <2>. QED BY <1>1, <2>1, <2>2 DEF NumbersAreGiven
<1>6. FetchesAreNew'
  <2>1. \A f \in fetches : f.by # executor'
    BY <1>1, <1>3
  <2>. QED BY <1>1, <1>2, <2>1 DEF FetchesAreNew
<1>7. CameraChain' /\ EntriesAreApart'
  BY <1>2 DEF CameraChain, EntriesAreApart
<1>8. ClosedIsIdle'
  <2>1. \A f \in fetches : f.by # executor'
    BY <1>1, <1>3
  <2>. QED BY <1>1, <2>1 DEF ClosedIsIdle
<1>9. UndoCoversDrawn'
  <2>1. \A o \in drawn' : o.by # executor'
    BY <1>1, <1>3
  <2>. QED BY <1>2, <2>1 DEF UndoCoversDrawn
<1>10. \A k \in HistoryKinds : HistoryFollows(k)'
  <2>1. \A k \in HistoryKinds : histories'[k] = <<>> /\ Range(histories'[k]) = {}
    BY <1>1 DEF Range
  <2>. QED BY <1>2, <2>1 DEF HistoryFollows
<1>11. \A i \in At("camera")' : (\A j \in At("camera")' : j <= i) => undoStack'[i].item = camera'
  BY <1>2
<1>12. MapFollowsTheStack'
  BY Zenon, <1>10, <1>11 DEF MapFollowsTheStack, HistoryFollows
<1>. QED BY <1>4, <1>5, <1>6, <1>7, <1>8, <1>9, <1>12 DEF UndoInv, UndoTakesBack

LEMMA DestroyedKeeps ==
    ASSUME UndoInv, ViewDestroyed, UNCHANGED opened
    PROVE  UndoInv'
<1>1. /\ ~Ready' /\ drawn' = {}
      /\ UNCHANGED <<view, executor, undoStack, histories, fetches, shown, camera, executed>>
  BY DEF ViewDestroyed, Ready, stacks
<1>2. \A k : SameAt(k)
  BY <1>1 DEF SameAt, At
<1>3. /\ FetchesAreNew /\ CameraChain /\ EntriesAreApart /\ ClosedIsIdle
      /\ ExecutorShape /\ NumbersAreGiven
      /\ \A k \in HistoryKinds : HistoryFollows(k)
  BY CoversIs, MapFollowsIs DEF UndoInv, UndoTakesBack
<1>4. CameraChain' /\ EntriesAreApart'
  BY <1>2, <1>3, SameCamera, SameOverlays
<1>5. ExecutorShape' /\ NumbersAreGiven' /\ ClosedIsIdle'
  BY <1>1, <1>3 DEF ExecutorShape, NumbersAreGiven, ClosedIsIdle
<1>6. FetchesAreNew'
  BY <1>1, <1>2, <1>3 DEF FetchesAreNew, SameAt
<1>7. \A k \in HistoryKinds : HistoryFollows(k)'
  BY <1>1, <1>2, <1>3, SameHistory
<1>8. UndoCoversDrawn' /\ MapFollowsTheStack'
  <2>1. UndoCoversDrawn'
    BY <1>1 DEF UndoCoversDrawn
  <2>2. MapFollowsTheStack'
    BY Zenon, <1>1, <1>7 DEF MapFollowsTheStack, HistoryFollows
  <2>. QED BY <2>1, <2>2
<1>. QED BY <1>4, <1>5, <1>6, <1>8 DEF UndoInv, UndoTakesBack

\* A route's entry goes to the executor that asked, its overlay to the view it
\* was asked for, or to neither.
LEMMA RouteKeeps ==
    ASSUME UndoInv, NEW f \in fetches, NEW ok \in BOOLEAN, RouteAnswered(f, ok), UNCHANGED opened
    PROVE  UndoInv'
<1>. DEFINE N == Len(undoStack)
            o0 == [item |-> f.item, by |-> f.by]
            e == [kind |-> "overlay", item |-> f.item, before |-> 0]
<1>1. /\ view \in Nat /\ executor \in Nat /\ executed \in Nat /\ camera \in Nat
      /\ undoStack \in Seq(Entries) /\ histories \in [HistoryKinds -> Seq(Nat)]
      /\ shown \in Numbers /\ fetches \subseteq Fetches /\ drawn \subseteq Overlays
      /\ ExecutorShape
  BY DEF UndoInv, ExecutorShape
<1>2. /\ fetches' = fetches \ {f}
      /\ UNCHANGED <<executor, histories, view, alive, shown, camera, executed, opened>>
      /\ drawn' = IF ok /\ f.view = view /\ alive THEN drawn \cup {o0} ELSE drawn
      /\ undoStack' = IF ok /\ f.by = executor THEN Append(undoStack, e) ELSE undoStack
  BY DEF RouteAnswered, Entry
<1>3. /\ FetchesAreNew /\ CameraChain /\ EntriesAreApart /\ ClosedIsIdle
      /\ ExecutorShape /\ NumbersAreGiven
      /\ Ready => {undoStack[i].item : i \in At("overlay")} = Own
      /\ Ready => \A i \in At("camera") : (\A j \in At("camera") : j <= i) => undoStack[i].item = camera
      /\ \A k \in HistoryKinds : HistoryFollows(k)
  BY CoversIs, MapFollowsIs DEF UndoInv, UndoTakesBack
<1>4. /\ f.item \in Nat /\ f.by \in Nat /\ f.item <= executed /\ f.by <= executor
      /\ f.by = executor => f.view = view
      /\ \A g \in fetches' : g # f /\ g \in fetches /\ g.item # f.item
      /\ \A i \in At("overlay") : undoStack[i].item # f.item
      /\ o0 \in Overlays /\ e \in Entries
  <2>1. f.item \in Nat /\ f.by \in Nat
    BY <1>1 DEF Fetches
  <2>2. o0 \in Overlays /\ e \in Entries
    BY <2>1 DEF Overlays, Entries
  <2>. QED BY <1>2, <1>3, <2>1, <2>2 DEF NumbersAreGiven, FetchesAreNew
<1>5. e.kind = "overlay" /\ e.item = f.item /\ o0.item = f.item /\ o0.by = f.by
  OBVIOUS
<1>6. Ready' = Ready
  BY <1>2 DEF Ready
<1>. HIDE DEF e, o0, N
<1>7. /\ \A o \in drawn' : o.by <= executor
      /\ drawn' \subseteq Overlays
      /\ \A g \in fetches' : g.item <= executed /\ g.by <= executor
  BY <1>1, <1>2, <1>3, <1>4, <1>5 DEF NumbersAreGiven
<1>8. CASE ok /\ f.by = executor
  <2>1. undoStack' = Append(undoStack, e) /\ opened'
    BY <1>2, <1>3, <1>8 DEF ClosedIsIdle
  <2>2. /\ undoStack' \in Seq(Entries) /\ N + 1 \notin DOMAIN undoStack
        /\ DOMAIN undoStack' = DOMAIN undoStack \cup {N + 1}
        /\ undoStack'[N + 1] = e
        /\ \A i \in DOMAIN undoStack : undoStack'[i] = undoStack[i]
    BY <1>1, <1>4, <2>1, PushedAt DEF N
  <2>3. ASSUME NEW k, k # "overlay" PROVE SameAt(k)
    BY <1>1, <1>4, <1>5, <2>1, <2>3, PushedAt DEF SameAt
  <2>4. At("overlay")' = At("overlay") \cup {N + 1} /\ At("overlay") \subseteq DOMAIN undoStack
    BY <1>1, <1>4, <1>5, <2>1, PushedAt DEF N
  <2>5. ExecutorShape'
    BY <1>1, <1>2, <1>7, <2>2 DEF ExecutorShape
  <2>6. NumbersAreGiven'
    <3>1. \A i \in DOMAIN undoStack' : undoStack'[i].item <= executed
      BY <1>3, <1>4, <1>5, <2>2 DEF NumbersAreGiven
    <3>. QED BY <1>2, <1>7, <3>1 DEF NumbersAreGiven
  <2>7. FetchesAreNew'
    <3>1. \A g \in fetches', i \in At("overlay")' : undoStack'[i].item # g.item
      BY <1>3, <1>4, <1>5, <2>2, <2>4 DEF FetchesAreNew
    <3>. QED BY <1>2, <1>3, <3>1 DEF FetchesAreNew
  <2>8. CameraChain'
    BY <1>3, <2>3, SameCamera
  <2>9. EntriesAreApart'
    BY <1>3, <1>4, <1>5, <2>2, <2>4 DEF EntriesAreApart
  <2>10. ClosedIsIdle'
    BY <2>1 DEF ClosedIsIdle
  <2>11. UndoCoversDrawn'
    <3>. SUFFICES ASSUME Ready'
                  PROVE  {undoStack'[i].item : i \in At("overlay")'} = Own'
      BY <2>9 DEF UndoCoversDrawn, EntriesAreApart, Own
    <3>1. drawn' = drawn \cup {o0}
      BY <1>2, <1>4, <1>6, <1>8 DEF Ready
    <3>2. {undoStack'[i].item : i \in At("overlay")'}
            = {undoStack[i].item : i \in At("overlay")} \cup {f.item}
      BY <1>5, <2>2, <2>4
    <3>3. {p \in drawn' : p.by = executor'} = {p \in drawn : p.by = executor} \cup {o0}
      BY <1>2, <1>5, <1>8, <3>1
    <3>4. Own' = Own \cup {f.item}
      BY <1>5, <3>3 DEF Own
    <3>. QED BY <1>3, <1>6, <3>2, <3>4
  <2>12. \A k \in HistoryKinds : HistoryFollows(k)'
    BY <1>2, <1>3, <2>3, KindsApart, SameHistory
  <2>13. Ready' => \A i \in At("camera")' :
                      (\A j \in At("camera")' : j <= i) => undoStack'[i].item = camera'
    BY <1>2, <1>3, <1>6, <2>3, SameCameraShown
  <2>14. MapFollowsTheStack'
    BY Zenon, <2>12, <2>13 DEF MapFollowsTheStack, HistoryFollows
  <2>. QED BY <2>5, <2>6, <2>7, <2>8, <2>9, <2>10, <2>11, <2>14 DEF UndoInv, UndoTakesBack
<1>9. CASE ~(ok /\ f.by = executor)
  <2>1. undoStack' = undoStack
    BY <1>2, <1>9
  <2>2. \A k : SameAt(k)
    BY <2>1 DEF SameAt, At
  <2>3. ExecutorShape' /\ NumbersAreGiven'
    BY <1>1, <1>2, <1>3, <1>7, <2>1 DEF ExecutorShape, NumbersAreGiven
  <2>4. FetchesAreNew'
    BY <1>2, <1>3, <2>2 DEF FetchesAreNew, SameAt
  <2>5. /\ CameraChain' /\ EntriesAreApart'
        /\ {undoStack'[i].item : i \in At("overlay")'} = {undoStack[i].item : i \in At("overlay")}
    BY <1>3, <2>2, SameCamera, SameOverlays
  <2>6. ClosedIsIdle'
    BY <1>2, <1>3, <2>1 DEF ClosedIsIdle
  <2>7. Own' = Own
    <3>1. {p \in drawn' : p.by = executor'} = {p \in drawn : p.by = executor}
      BY <1>2, <1>5, <1>9
    <3>. QED BY <3>1 DEF Own
  <2>8. UndoCoversDrawn'
    BY <1>3, <1>6, <2>5, <2>7 DEF UndoCoversDrawn, EntriesAreApart, Own
  <2>9. \A k \in HistoryKinds : HistoryFollows(k)'
    BY <1>2, <1>3, <2>2, SameHistory
  <2>10. Ready' => \A i \in At("camera")' :
                      (\A j \in At("camera")' : j <= i) => undoStack'[i].item = camera'
    BY <1>2, <1>3, <1>6, <2>2, SameCameraShown
  <2>11. MapFollowsTheStack'
    BY Zenon, <2>9, <2>10 DEF MapFollowsTheStack, HistoryFollows
  <2>. QED BY <2>3, <2>4, <2>5, <2>6, <2>8, <2>11 DEF UndoInv, UndoTakesBack
<1>. QED BY <1>8, <1>9

\* The latest entry is taken back.
LEMMA UndoKeeps ==
    ASSUME UndoInv, UndoLatest, opened, UNCHANGED opened
    PROVE  UndoInv'
<1>. DEFINE N == Len(undoStack)
            e == undoStack[N]
            rest(k) == Front(histories[k])
<1>1. /\ view \in Nat /\ executor \in Nat /\ executed \in Nat /\ camera \in Nat
      /\ undoStack \in Seq(Entries) /\ histories \in [HistoryKinds -> Seq(Nat)]
      /\ shown \in Numbers /\ fetches \subseteq Fetches /\ drawn \subseteq Overlays
      /\ ExecutorShape
  BY DEF UndoInv, ExecutorShape
<1>2. undoStack # <<>> /\ undoStack' = Front(undoStack)
  BY DEF UndoLatest
<1>3. /\ undoStack' \in Seq(Entries) /\ Last(undoStack) = e
      /\ DOMAIN undoStack = 1..N /\ N \in Nat /\ N \in DOMAIN undoStack
      /\ DOMAIN undoStack' = DOMAIN undoStack \ {N}
      /\ \A i \in DOMAIN undoStack' : undoStack'[i] = undoStack[i]
      /\ \A k : At(k)' = At(k) \ {N} /\ At(k) \subseteq DOMAIN undoStack
  BY <1>1, <1>2, PoppedAt
<1>4. /\ drawn' = IF e.kind = "overlay" THEN drawn \ {Overlay(e.item)} ELSE drawn
      /\ camera' = IF e.kind = "camera" /\ Ready THEN e.before ELSE camera
      /\ histories' = IF e.kind \in HistoryKinds
                      THEN [histories EXCEPT ![e.kind] = rest(e.kind)] ELSE histories
      /\ shown' = IF e.kind \in HistoryKinds /\ rest(e.kind) # <<>>
                  THEN [shown EXCEPT ![e.kind] = Last(rest(e.kind))] ELSE shown
      /\ UNCHANGED <<executor, view, alive, fetches, executed>>
  BY <1>3 DEF UndoLatest
<1>5. /\ FetchesAreNew /\ CameraChain /\ EntriesAreApart /\ NumbersAreGiven
      /\ Ready => {undoStack[i].item : i \in At("overlay")} = Own
      /\ Ready => \A i \in At("camera") : (\A j \in At("camera") : j <= i) => undoStack[i].item = camera
      /\ \A k \in HistoryKinds : HistoryFollows(k)
  BY CoversIs, MapFollowsIs DEF UndoInv, UndoTakesBack
<1>6. e \in Entries /\ e.item \in Nat /\ e.before \in Nat
      /\ e.kind \in {"overlay", "camera"} \cup HistoryKinds
  <2>1. e \in Entries
    BY <1>1, <1>3
  <2>. QED BY <2>1 DEF Entries
<1>7. Ready' = Ready /\ ClosedIsIdle'
  BY <1>4 DEF Ready, ClosedIsIdle
<1>8. \A k : e.kind = k <=> N \in At(k)
  BY <1>3 DEF At
<1>. HIDE DEF N, e
<1>9. ASSUME NEW k, k # e.kind PROVE SameAt(k)
  BY <1>3, <1>8, <1>9 DEF SameAt
<1>10. drawn' \subseteq drawn
  BY <1>4
<1>11. NumbersAreGiven'
  <2>1. \A i \in DOMAIN undoStack' : undoStack'[i].item <= executed
    BY <1>3, <1>5 DEF NumbersAreGiven
  <2>. QED BY <1>4, <1>5, <1>10, <2>1 DEF NumbersAreGiven
<1>12. FetchesAreNew'
  <2>1. \A i \in At("overlay")' : i \in At("overlay") /\ undoStack'[i] = undoStack[i]
    BY <1>3
  <2>. QED BY <1>4, <1>5, <2>1 DEF FetchesAreNew
<1>13. EntriesAreApart'
  <2>1. \A i \in At("overlay")' : i \in At("overlay") /\ undoStack'[i] = undoStack[i]
    BY <1>3
  <2>. QED BY <1>5, <2>1 DEF EntriesAreApart
<1>14. CASE e.kind = "overlay"
  <2>1. /\ UNCHANGED <<camera, histories, shown>> /\ drawn' = drawn \ {Overlay(e.item)}
    BY <1>4, <1>14, KindsApart
  <2>2. ExecutorShape'
    BY <1>1, <1>3, <1>4, <2>1 DEF ExecutorShape
  <2>3. CameraChain'
    BY <1>5, <1>9, <1>14, SameCamera
  <2>4. UndoCoversDrawn'
    <3>. SUFFICES ASSUME Ready
                  PROVE  {undoStack'[i].item : i \in At("overlay")'} = Own'
      BY <1>7, <1>13 DEF UndoCoversDrawn, EntriesAreApart, Own
    <3>1. {undoStack'[i].item : i \in At("overlay")'} = {undoStack[i].item : i \in At("overlay") \ {N}}
      BY <1>3
    <3>2. {undoStack[i].item : i \in At("overlay") \ {N}}
            = {undoStack[i].item : i \in At("overlay")} \ {e.item}
      <4>1. \A i \in At("overlay") : undoStack[i].item = e.item => i = N
        BY <1>5, <1>8, <1>14 DEF EntriesAreApart, e
      <4>2. N \in At("overlay") /\ undoStack[N].item = e.item
        BY <1>8, <1>14 DEF e
      <4>. QED BY <4>1, <4>2
    <3>3. Own' = Own \ {e.item}
      <4>1. \A o \in drawn : o.by = executor /\ o.item = e.item => o = Overlay(e.item)
        BY <1>1 DEF Overlays, Overlay
      <4>2. Overlay(e.item).item = e.item /\ Overlay(e.item).by = executor
        BY DEF Overlay
      <4>3. {p \in drawn' : p.by = executor'} = {p \in drawn : p.by = executor} \ {Overlay(e.item)}
        BY <1>4, <2>1
      <4>4. {o.item : o \in {p \in drawn : p.by = executor} \ {Overlay(e.item)}}
              = {o.item : o \in {p \in drawn : p.by = executor}} \ {e.item}
        BY <4>1, <4>2
      <4>. QED BY <4>3, <4>4 DEF Own
    <3>. QED BY <1>5, <3>1, <3>2, <3>3
  <2>5. \A k \in HistoryKinds : HistoryFollows(k)'
    BY <1>5, <1>9, <1>14, <2>1, KindsApart, SameHistory
  <2>6. Ready' => \A i \in At("camera")' :
                     (\A j \in At("camera")' : j <= i) => undoStack'[i].item = camera'
    BY <1>5, <1>7, <1>9, <1>14, <2>1, SameCameraShown
  <2>7. MapFollowsTheStack'
    BY Zenon, <2>5, <2>6 DEF MapFollowsTheStack, HistoryFollows
  <2>. QED BY <1>7, <1>11, <1>12, <1>13, <2>2, <2>3, <2>4, <2>7 DEF UndoInv, UndoTakesBack
<1>15. CASE e.kind = "camera"
  <2>1. /\ UNCHANGED <<histories, shown, drawn>>
        /\ camera' = IF Ready THEN e.before ELSE camera
    BY <1>4, <1>15, KindsApart
  <2>2. ExecutorShape'
    BY <1>1, <1>3, <1>4, <1>6, <2>1 DEF ExecutorShape
  <2>3. N \in At("camera") /\ At("camera")' = At("camera") \ {N} /\ At("camera") \subseteq 1..N /\ N \in Nat
        /\ \A i \in At("camera")' : undoStack'[i] = undoStack[i] /\ i < N /\ i \in Nat
    BY <1>3, <1>8, <1>15
  <2>4. CameraChain'
    <3>1. ASSUME NEW i \in At("camera")', NEW j \in At("camera")', i < j,
                 \A k \in At("camera")' : k <= i \/ j <= k
          PROVE  undoStack'[j].before = undoStack'[i].item
      <4>1. \A k \in At("camera") : k <= i \/ j <= k
        BY <2>3, <3>1
      <4>. QED BY <1>5, <2>3, <3>1, <4>1 DEF CameraChain
    <3>2. \A i, j \in At("camera")' : i < j => undoStack'[i].item < undoStack'[j].item
      BY <1>5, <2>3 DEF CameraChain
    <3>. QED BY <3>1, <3>2 DEF CameraChain
  <2>5. {undoStack'[i].item : i \in At("overlay")'} = {undoStack[i].item : i \in At("overlay")}
    BY <1>5, <1>9, <1>15, SameOverlays
  <2>6. Own' = Own
    BY <1>4, <2>1 DEF Own
  <2>7. UndoCoversDrawn'
    BY <1>5, <1>7, <1>13, <2>5, <2>6 DEF UndoCoversDrawn, EntriesAreApart, Own
  <2>8. \A k \in HistoryKinds : HistoryFollows(k)'
    BY <1>5, <1>9, <1>15, <2>1, KindsApart, SameHistory
  <2>9. Ready' => \A i \in At("camera")' :
                     (\A j \in At("camera")' : j <= i) => undoStack'[i].item = camera'
    <3>. SUFFICES ASSUME Ready, NEW i \in At("camera")', \A j \in At("camera")' : j <= i
                  PROVE  undoStack'[i].item = e.before
      BY <1>7, <2>1
    <3>1. \A k \in At("camera") : k <= i \/ N <= k
      BY <2>3
    <3>2. undoStack[N].before = undoStack[i].item
      BY <1>5, <2>3, <3>1 DEF CameraChain
    <3>. QED BY <2>3, <3>2 DEF e
  <2>10. MapFollowsTheStack'
    BY Zenon, <2>8, <2>9 DEF MapFollowsTheStack, HistoryFollows
  <2>. QED BY <1>7, <1>11, <1>12, <1>13, <2>2, <2>4, <2>7, <2>10 DEF UndoInv, UndoTakesBack
<1>16. CASE e.kind \in HistoryKinds
  <2>0. PICK q \in HistoryKinds : q = e.kind
    BY <1>16
  <2>. DEFINE h == histories[q]
              r == Front(h)
              M == Len(h)
  <2>1. /\ UNCHANGED <<camera, drawn>> /\ q # "overlay" /\ q # "camera"
        /\ histories' = [histories EXCEPT ![q] = r]
        /\ shown' = IF r # <<>> THEN [shown EXCEPT ![q] = Last(r)] ELSE shown
    BY <1>4, <1>16, <2>0, KindsApart
  <2>2. N \in At(q) /\ At(q)' = At(q) \ {N} /\ At(q) \subseteq 1..N /\ N \in Nat
        /\ \A i \in At(q)' : undoStack'[i] = undoStack[i] /\ i < N /\ i \in Nat
    <3>1. N \in At(q) /\ At(q)' = At(q) \ {N} /\ At(q) \subseteq 1..N /\ N \in Nat
      BY <1>3, <1>8, <2>0
    <3>2. \A i \in At(q)' : i \in 1..N /\ i # N /\ i \in DOMAIN undoStack'
      BY <1>3, <3>1
    <3>. QED BY <1>3, <3>1, <3>2
  <2>3. h \in Seq(Nat) /\ HistoryFollows(q)
    BY <1>1, <1>5
  <2>4. undoStack[N].item = e.item /\ e.item \in Range(h)
    BY <2>2, <2>3 DEF HistoryFollows, e
  <2>5. h # <<>>
    BY <2>3, <2>4 DEF Range
  <2>. HIDE DEF h, r, M
  <2>7. /\ r \in Seq(Nat) /\ DOMAIN h = 1..M /\ M \in Nat /\ M \in 1..M
        /\ DOMAIN r = 1..(M - 1) /\ \A i \in 1..(M - 1) : r[i] = h[i]
        /\ r # <<>> => M - 1 \in 1..(M - 1) /\ Last(r) = h[M - 1]
    BY <2>3, <2>5, PopIs DEF r, M
  <2>8. \A i, j \in 1..M : i < j => h[i] < h[j]
    BY <2>3, <2>7 DEF HistoryFollows, h
  <2>9. \A i \in 1..M : h[i] \in Nat
    BY <2>3, <2>7
  <2>10. h[M] = e.item
    <3>1. PICK m \in 1..M : h[m] = e.item
      BY <2>4, <2>7 DEF Range
    <3>2. h[M] \in {undoStack[i].item : i \in At(q)}
      BY <2>3, <2>7 DEF HistoryFollows, Range, h
    <3>3. PICK i \in At(q) : undoStack[i].item = h[M]
      BY <3>2
    <3>4. i = N \/ undoStack[i].item < e.item
      BY <2>2, <2>3, <2>4 DEF HistoryFollows
    <3>5. m = M \/ h[m] < h[M]
      BY <2>7, <2>8
    <3>. QED BY <1>6, <2>4, <2>7, <2>9, <3>1, <3>3, <3>4, <3>5
  <2>11. ExecutorShape'
    <3>1. histories' \in [HistoryKinds -> Seq(Nat)]
      BY <1>1, <2>1, <2>7
    <3>2. shown' \in Numbers
      <4>1. r # <<>> => Last(r) \in Nat
        BY <2>7, <2>9
      <4>. QED BY <1>1, <2>1, <4>1 DEF Numbers
    <3>. QED BY <1>1, <1>3, <1>4, <2>1, <3>1, <3>2 DEF ExecutorShape
  <2>12. SameAt("overlay") /\ SameAt("camera")
    BY <1>9, <2>0, <2>1
  <2>13. CameraChain'
    BY <1>5, <2>12, SameCamera
  <2>14. {undoStack'[i].item : i \in At("overlay")'} = {undoStack[i].item : i \in At("overlay")}
    BY <1>5, <2>12, SameOverlays
  <2>15. Own' = Own
    BY <1>4, <2>1 DEF Own
  <2>16. UndoCoversDrawn'
    BY <1>5, <1>7, <1>13, <2>14, <2>15 DEF UndoCoversDrawn, EntriesAreApart, Own
  <2>17. ASSUME NEW k \in HistoryKinds PROVE HistoryFollows(k)'
    <3>1. CASE k # q
      <4>1. histories'[k] = histories[k] /\ shown'[k] = shown[k]
        BY <1>1, <2>1, <3>1 DEF Numbers
      <4>2. SameAt(k)
        BY <1>9, <2>0, <3>1
      <4>. QED BY <1>5, <4>1, <4>2, SameHistory
    <3>2. CASE k = q
      <4>1. histories'[k] = r /\ (r # <<>> => Last(r) = shown'[k])
        BY <1>1, <2>1, <2>0, <3>2 DEF Numbers
      <4>2. {undoStack'[i].item : i \in At(q)'} = {undoStack[i].item : i \in At(q)} \ {e.item}
        <5>1. \A i \in At(q) : i # N => undoStack[i].item # e.item
          <6>1. \A i \in At(q) : i # N => undoStack[i].item < e.item
            BY <2>2, <2>3, <2>4 DEF HistoryFollows
          <6>. QED BY <1>6, <6>1
        <5>2. {undoStack'[i].item : i \in At(q)'} = {undoStack[i].item : i \in At(q) \ {N}}
          BY <2>2
        <5>. QED BY <2>2, <2>4, <5>1, <5>2
      <4>3. Range(r) = Range(h) \ {e.item}
        <5>1. \A i \in 1..(M - 1) : i \in 1..M /\ h[i] # e.item
          <6>1. \A i \in 1..(M - 1) : i \in 1..M /\ i < M
            BY <2>7
          <6>2. \A i \in 1..(M - 1) : h[i] < h[M]
            BY <2>7, <2>8, <6>1
          <6>. QED BY <2>9, <2>10, <6>1, <6>2
        <5>2. \A i \in 1..M : i = M \/ i \in 1..(M - 1)
          BY <2>7
        <5>. QED BY <2>7, <2>10, <5>1, <5>2 DEF Range
      <4>4. {undoStack'[i].item : i \in At(q)'} = Range(r)
        BY <2>3, <4>2, <4>3 DEF HistoryFollows, h
      <4>5. \A i, j \in At(q)' : i < j => undoStack'[i].item < undoStack'[j].item
        BY <2>2, <2>3 DEF HistoryFollows
      <4>6. \A i, j \in DOMAIN r : i < j => r[i] < r[j]
        <5>1. \A i \in 1..(M - 1) : i \in 1..M
          BY <2>7
        <5>. QED BY <2>7, <2>8, <5>1
      <4>7. /\ {undoStack'[i].item : i \in At(k)'} = Range(histories'[k])
            /\ \A i, j \in At(k)' : i < j => undoStack'[i].item < undoStack'[j].item
        BY <3>2, <4>1, <4>4, <4>5
      <4>8. /\ \A i, j \in DOMAIN histories'[k] : i < j => histories'[k][i] < histories'[k][j]
            /\ histories'[k] # <<>> => Last(histories'[k]) = shown'[k]
        BY <4>1, <4>6
      <4>. QED BY Zenon, <4>7, <4>8 DEF HistoryFollows
    <3>. QED BY <3>1, <3>2
  <2>18. Ready' => \A i \in At("camera")' :
                      (\A j \in At("camera")' : j <= i) => undoStack'[i].item = camera'
    BY <1>5, <1>7, <2>1, <2>12, SameCameraShown
  <2>19. MapFollowsTheStack'
    BY Zenon, <2>17, <2>18 DEF MapFollowsTheStack, HistoryFollows
  <2>. QED BY <1>7, <1>11, <1>12, <1>13, <2>11, <2>13, <2>16, <2>19 DEF UndoInv, UndoTakesBack
<1>. QED BY <1>6, <1>14, <1>15, <1>16

-----------------------------------------------------------------------------
\* Taking the overlays out of the stack

\* r holds the entries of the first n of s that are no overlays, in their order.
Keeps(s, n, r) ==
    /\ r \in Seq(Entries)
    /\ \E p \in [1..Len(r) -> 1..n] :
          /\ \A i \in 1..Len(r) : r[i] = s[p[i]] /\ r[i].kind # "overlay"
          /\ \A i, j \in 1..Len(r) : i < j => p[i] < p[j]
          /\ \A m \in 1..n : s[m].kind # "overlay" => \E i \in 1..Len(r) : p[i] = m

LEMMA KeepsOn ==
    ASSUME NEW s \in Seq(Entries), NEW n \in Nat, n + 1 <= Len(s), NEW r, Keeps(s, n, r)
    PROVE  Keeps(s, n + 1, IF s[n + 1].kind = "overlay" THEN r ELSE Append(r, s[n + 1]))
<1>. DEFINE L == Len(r)
            e == s[n + 1]
<1>1. PICK p \in [1..L -> 1..n] :
        /\ \A i \in 1..L : r[i] = s[p[i]] /\ r[i].kind # "overlay"
        /\ \A i, j \in 1..L : i < j => p[i] < p[j]
        /\ \A m \in 1..n : s[m].kind # "overlay" => \E i \in 1..L : p[i] = m
  BY DEF Keeps
<1>2. r \in Seq(Entries) /\ L \in Nat
  BY DEF Keeps
<1>3. e \in Entries
  <2>1. n + 1 \in 1..Len(s)
    OBVIOUS
  <2>. QED BY <2>1
<1>4. \A m \in 1..(n + 1) : m \in 1..n \/ m = n + 1
  OBVIOUS
<1>5. \A m \in 1..n : m \in 1..(n + 1) /\ m < n + 1
  OBVIOUS
<1>. HIDE DEF L, e
<1>6. CASE e.kind = "overlay"
  <2>1. p \in [1..L -> 1..(n + 1)]
    BY <1>1, <1>5
  <2>2. \A m \in 1..(n + 1) : s[m].kind # "overlay" => \E i \in 1..L : p[i] = m
    BY <1>1, <1>4, <1>6 DEF e
  <2>3. Keeps(s, n + 1, r)
    BY <1>1, <1>2, <2>1, <2>2 DEF Keeps, L
  <2>. QED BY <1>6, <2>3 DEF e
<1>7. CASE e.kind # "overlay"
  <2>. DEFINE r1 == Append(r, e)
              p1 == [i \in 1..(L + 1) |-> IF i = L + 1 THEN n + 1 ELSE p[i]]
  <2>1. /\ r1 \in Seq(Entries) /\ Len(r1) = L + 1
        /\ \A i \in 1..L : r1[i] = r[i]
        /\ r1[L + 1] = e
    BY <1>2, <1>3, PushIs DEF L
  <2>2. \A i \in 1..(L + 1) : i = L + 1 \/ (i \in 1..L /\ i # L + 1)
    BY <1>2
  <2>3. \A i \in 1..L : i \in 1..(L + 1) /\ i # L + 1 /\ i < L + 1
    BY <1>2
  <2>4. p1 \in [1..(L + 1) -> 1..(n + 1)]
    BY <1>1, <1>5, <2>2
  <2>5. L + 1 \in 1..(L + 1)
    BY <1>2
  <2>6. p1[L + 1] = n + 1 /\ \A i \in 1..L : p1[i] = p[i] /\ p[i] \in 1..n
    BY <1>1, <2>3, <2>5
  <2>. HIDE DEF r1, p1
  <2>7. \A i \in 1..(L + 1) : r1[i] = s[p1[i]] /\ r1[i].kind # "overlay"
    BY <1>1, <1>7, <2>1, <2>2, <2>6 DEF e
  <2>8. \A i, j \in 1..(L + 1) : i < j => p1[i] < p1[j]
    <3>. SUFFICES ASSUME NEW i \in 1..(L + 1), NEW j \in 1..(L + 1), i < j PROVE p1[i] < p1[j]
      OBVIOUS
    <3>1. i \in 1..L
      BY <1>2
    <3>2. CASE j = L + 1
      BY <1>5, <2>6, <3>1, <3>2
    <3>3. CASE j \in 1..L
      BY <1>1, <2>6, <3>1, <3>3
    <3>. QED BY <2>2, <3>2, <3>3
  <2>9. \A m \in 1..(n + 1) : s[m].kind # "overlay" => \E i \in 1..(L + 1) : p1[i] = m
    <3>. SUFFICES ASSUME NEW m \in 1..(n + 1), s[m].kind # "overlay"
                  PROVE  \E i \in 1..(L + 1) : p1[i] = m
      OBVIOUS
    <3>1. CASE m = n + 1
      BY <2>5, <2>6, <3>1
    <3>2. CASE m \in 1..n
      BY <1>1, <2>3, <2>6, <3>2
    <3>. QED BY <1>4, <3>1, <3>2
  <2>10. Keeps(s, n + 1, r1)
    <3>1. p1 \in [1..Len(r1) -> 1..(n + 1)]
      BY <2>1, <2>4
    <3>2. \A i \in 1..Len(r1) : r1[i] = s[p1[i]] /\ r1[i].kind # "overlay"
      BY <2>1, <2>7
    <3>3. \A i, j \in 1..Len(r1) : i < j => p1[i] < p1[j]
      BY <2>1, <2>8
    <3>4. \A m \in 1..(n + 1) : s[m].kind # "overlay" => \E i \in 1..Len(r1) : p1[i] = m
      BY <2>1, <2>9
    <3>. QED BY Zenon, <2>1, <3>1, <3>2, <3>3, <3>4 DEF Keeps
  <2>. QED BY <1>7, <2>10 DEF r1, e
<1>. QED BY <1>6, <1>7

\* The function of WithoutOverlays, which exists for every prefix.
Rests(f, s, n) ==
    f = [m \in 0..n |-> IF m = 0 THEN <<>>
                        ELSE IF s[m].kind = "overlay" THEN f[m - 1] ELSE Append(f[m - 1], s[m])]

LEMMA RestsExist ==
    ASSUME NEW s
    PROVE  \A n \in Nat : \E f : Rests(f, s, n)
<1>. DEFINE S == {n \in Nat : \E f : Rests(f, s, n)}
<1>1. 0 \in S
  <2>. DEFINE f == [m \in 0..0 |-> <<>>]
  <2>1. Rests(f, s, 0)
    BY DEF Rests
  <2>. QED BY <2>1
<1>2. \A n \in Nat : n \in S => n + 1 \in S
  <2>. TAKE n \in Nat
  <2>. HAVE n \in S
  <2>1. PICK f : Rests(f, s, n)
    OBVIOUS
  <2>. DEFINE g == [m \in 0..(n + 1) |->
                      IF m = 0 THEN <<>>
                      ELSE IF s[m].kind = "overlay" THEN f[m - 1] ELSE Append(f[m - 1], s[m])]
  <2>2. \A m \in 0..n : g[m] = f[m]
    <3>. TAKE m \in 0..n
    <3>1. f[m] = IF m = 0 THEN <<>>
                 ELSE IF s[m].kind = "overlay" THEN f[m - 1] ELSE Append(f[m - 1], s[m])
      BY Zenon, <2>1 DEF Rests
    <3>2. m \in 0..(n + 1)
      OBVIOUS
    <3>. QED BY Zenon, <3>1, <3>2
  <2>3. \A m \in 0..(n + 1) : m # 0 => m - 1 \in 0..n
    OBVIOUS
  <2>4. g = [m \in 0..(n + 1) |->
               IF m = 0 THEN <<>>
               ELSE IF s[m].kind = "overlay" THEN g[m - 1] ELSE Append(g[m - 1], s[m])]
    BY Zenon, <2>2, <2>3
  <2>5. Rests(g, s, n + 1)
    BY Zenon, <2>4 DEF Rests
  <2>. QED BY <2>5
<1>3. Nat \subseteq S
  <2>. HIDE DEF S
  <2>. QED BY <1>1, <1>2, InductionOverNat
<1>. QED BY <1>3

LEMMA WithoutOverlaysKeeps ==
    ASSUME NEW s \in Seq(Entries)
    PROVE  Keeps(s, Len(s), WithoutOverlays(s))
<1>. DEFINE N == Len(s)
            f == CHOOSE g : Rests(g, s, N)
            S == {n \in Nat : n <= N => Keeps(s, n, f[n])}
<1>1. N \in Nat
  OBVIOUS
<1>2. Rests(f, s, N)
  BY <1>1, RestsExist
<1>3. WithoutOverlays(s) = f[N]
  BY DEF WithoutOverlays, Rests
<1>. HIDE DEF f
<1>4. \A m \in 0..N :
        f[m] = IF m = 0 THEN <<>>
               ELSE IF s[m].kind = "overlay" THEN f[m - 1] ELSE Append(f[m - 1], s[m])
  BY Zenon, <1>2 DEF Rests
<1>5. 0 \in S
  <2>1. f[0] = <<>>
    BY <1>1, <1>4
  <2>2. Keeps(s, 0, <<>>)
    <3>. DEFINE r == <<>>
                p == [i \in 1..0 |-> 0]
    <3>1. r \in Seq(Entries) /\ Len(r) = 0
      OBVIOUS
    <3>. HIDE DEF r
    <3>2. p \in [1..Len(r) -> 1..0]
      BY <3>1
    <3>. HIDE DEF p
    <3>3. /\ \A i \in 1..Len(r) : r[i] = s[p[i]] /\ r[i].kind # "overlay"
          /\ \A i, j \in 1..Len(r) : i < j => p[i] < p[j]
          /\ \A m \in 1..0 : s[m].kind # "overlay" => \E i \in 1..Len(r) : p[i] = m
      BY <3>1
    <3>4. Keeps(s, 0, r)
      BY Zenon, <3>1, <3>2, <3>3 DEF Keeps
    <3>. QED BY <3>4 DEF r
  <2>. QED BY <2>1, <2>2
<1>6. \A n \in Nat : n \in S => n + 1 \in S
  <2>. SUFFICES ASSUME NEW n \in Nat, n \in S, n + 1 <= N PROVE Keeps(s, n + 1, f[n + 1])
    OBVIOUS
  <2>1. n + 1 \in 0..N /\ n + 1 # 0 /\ n + 1 - 1 = n /\ n <= N
    BY <1>1
  <2>2. f[n + 1] = IF s[n + 1].kind = "overlay" THEN f[n] ELSE Append(f[n], s[n + 1])
    BY <1>4, <2>1
  <2>3. Keeps(s, n, f[n])
    BY <2>1
  <2>. QED BY <2>2, <2>3, KeepsOn
<1>7. N \in S
  <2>. HIDE DEF S
  <2>1. Nat \subseteq S
    BY <1>5, <1>6, InductionOverNat
  <2>. QED BY <1>1, <2>1
<1>. QED BY <1>1, <1>3, <1>7

\* How the entries of a kind stand after a clear: each is one of those before,
\* in their order, and of a kind other than an overlay's none is missing.
LEMMA ClearedAt ==
    ASSUME ExecutorShape, undoStack' = WithoutOverlays(undoStack)
    PROVE  /\ undoStack' \in Seq(Entries)
           /\ At("overlay")' = {}
           /\ \E p \in [DOMAIN undoStack' -> DOMAIN undoStack] :
                 /\ \A i \in DOMAIN undoStack' : undoStack'[i] = undoStack[p[i]]
                 /\ \A i, j \in DOMAIN undoStack' : i < j => p[i] < p[j]
                 /\ \A i, j \in DOMAIN undoStack' : i <= j => p[i] <= p[j]
                 /\ \A k : k # "overlay" =>
                       /\ \A i \in At(k)' : i \in DOMAIN undoStack' /\ p[i] \in At(k)
                       /\ \A m \in At(k) : \E i \in At(k)' : p[i] = m
<1>. DEFINE w == undoStack'
            N == Len(undoStack)
            L == Len(w)
<1>1. undoStack \in Seq(Entries)
  BY DEF ExecutorShape
<1>2. Keeps(undoStack, N, w)
  BY <1>1, WithoutOverlaysKeeps
<1>3. w \in Seq(Entries)
  BY <1>2 DEF Keeps
<1>4. DOMAIN undoStack = 1..N /\ N \in Nat
  BY <1>1
<1>5. DOMAIN w = 1..L /\ L \in Nat
  BY <1>3
<1>6. PICK p \in [1..L -> 1..N] :
        /\ \A i \in 1..L : w[i] = undoStack[p[i]] /\ w[i].kind # "overlay"
        /\ \A i, j \in 1..L : i < j => p[i] < p[j]
        /\ \A m \in 1..N : undoStack[m].kind # "overlay" => \E i \in 1..L : p[i] = m
  BY <1>2 DEF Keeps
<1>7. \A k : At(k)' = {i \in 1..L : w[i].kind = k}
  BY <1>5 DEF At
<1>8. \A k : At(k) = {i \in 1..N : undoStack[i].kind = k}
  BY <1>4 DEF At
<1>. HIDE DEF w, L, N
<1>9. \A i, j \in 1..L : i <= j => p[i] <= p[j]
  <2>. SUFFICES ASSUME NEW i \in 1..L, NEW j \in 1..L, i <= j PROVE p[i] <= p[j]
    OBVIOUS
  <2>1. p[i] \in Nat /\ p[j] \in Nat
    BY <1>4, <1>6
  <2>2. i = j \/ i < j
    BY <1>5
  <2>. QED BY <1>6, <2>1, <2>2
<1>10. ASSUME NEW k, k # "overlay"
       PROVE  /\ \A i \in At(k)' : i \in 1..L /\ p[i] \in At(k)
              /\ \A m \in At(k) : \E i \in At(k)' : p[i] = m
  <2>1. \A i \in At(k)' : i \in 1..L /\ p[i] \in At(k)
    BY <1>6, <1>7, <1>8
  <2>2. \A m \in At(k) : \E i \in At(k)' : p[i] = m
    <3>. SUFFICES ASSUME NEW m \in At(k) PROVE \E i \in At(k)' : p[i] = m
      OBVIOUS
    <3>1. m \in 1..N /\ undoStack[m].kind = k
      BY <1>8
    <3>2. PICK i \in 1..L : p[i] = m
      BY <1>6, <1>10, <3>1
    <3>3. w[i].kind = k
      BY <1>6, <3>1, <3>2
    <3>. QED BY <1>7, <3>2, <3>3
  <2>. QED BY <2>1, <2>2
<1>11. At("overlay")' = {}
  BY <1>6, <1>7
<1>. QED BY <1>3, <1>4, <1>5, <1>6, <1>9, <1>10, <1>11 DEF w

\* The overlays are taken back; nothing else is.
LEMMA ClearKeeps ==
    ASSUME UndoInv, OverlaysCleared, UNCHANGED opened
    PROVE  UndoInv'
<1>1. /\ undoStack' = WithoutOverlays(undoStack)
      /\ drawn' = drawn \ {Overlay(undoStack[i].item) : i \in At("overlay")}
      /\ UNCHANGED <<executor, histories, view, alive, shown, camera, fetches, executed, opened>>
  BY DEF OverlaysCleared
<1>2. /\ FetchesAreNew /\ CameraChain /\ EntriesAreApart /\ ClosedIsIdle
      /\ ExecutorShape /\ NumbersAreGiven
      /\ Ready => {undoStack[i].item : i \in At("overlay")} = Own
      /\ Ready => \A i \in At("camera") : (\A j \in At("camera") : j <= i) => undoStack[i].item = camera
      /\ \A k \in HistoryKinds : HistoryFollows(k)
  BY CoversIs, MapFollowsIs DEF UndoInv, UndoTakesBack
<1>3. undoStack' \in Seq(Entries) /\ At("overlay")' = {}
  BY <1>1, <1>2, ClearedAt
<1>4. PICK p \in [DOMAIN undoStack' -> DOMAIN undoStack] :
        /\ \A i \in DOMAIN undoStack' : undoStack'[i] = undoStack[p[i]]
        /\ \A i, j \in DOMAIN undoStack' : i < j => p[i] < p[j]
        /\ \A i, j \in DOMAIN undoStack' : i <= j => p[i] <= p[j]
        /\ \A k : k # "overlay" =>
              /\ \A i \in At(k)' : i \in DOMAIN undoStack' /\ p[i] \in At(k)
              /\ \A m \in At(k) : \E i \in At(k)' : p[i] = m
  BY <1>1, <1>2, ClearedAt
<1>5. Ready' = Ready
  BY <1>1 DEF Ready
<1>6. ExecutorShape'
  BY <1>1, <1>2, <1>3 DEF ExecutorShape
<1>7. NumbersAreGiven'
  <2>1. \A i \in DOMAIN undoStack' : undoStack'[i].item <= executed
    BY <1>2, <1>4 DEF NumbersAreGiven
  <2>. QED BY <1>1, <1>2, <2>1 DEF NumbersAreGiven
<1>8. FetchesAreNew' /\ EntriesAreApart'
  BY <1>1, <1>2, <1>3 DEF FetchesAreNew, EntriesAreApart
<1>9. CameraChain'
  <2>1. ASSUME NEW i \in At("camera")', NEW j \in At("camera")', i < j
        PROVE  /\ undoStack'[i].item < undoStack'[j].item
               /\ (\A k \in At("camera")' : k <= i \/ j <= k) => undoStack'[j].before = undoStack'[i].item
    <3>1. /\ i \in DOMAIN undoStack' /\ j \in DOMAIN undoStack'
          /\ p[i] \in At("camera") /\ p[j] \in At("camera") /\ p[i] < p[j]
      BY <1>4, <2>1
    <3>2. undoStack'[i] = undoStack[p[i]] /\ undoStack'[j] = undoStack[p[j]]
      BY <1>4, <3>1
    <3>3. ASSUME \A k \in At("camera")' : k <= i \/ j <= k
          PROVE  \A m \in At("camera") : m <= p[i] \/ p[j] <= m
      <4>. SUFFICES ASSUME NEW m \in At("camera") PROVE m <= p[i] \/ p[j] <= m
        OBVIOUS
      <4>1. PICK k \in At("camera")' : p[k] = m
        BY <1>4
      <4>2. k \in DOMAIN undoStack'
        BY <1>4
      <4>. QED BY <1>4, <3>1, <3>3, <4>1, <4>2
    <3>. QED BY <1>2, <3>1, <3>2, <3>3 DEF CameraChain
  <2>. QED BY <2>1 DEF CameraChain
<1>10. ClosedIsIdle'
  <2>. SUFFICES ASSUME ~opened PROVE undoStack' = <<>>
    BY <1>1, <1>2 DEF ClosedIsIdle
  <2>1. DOMAIN undoStack = {}
    BY <1>2 DEF ClosedIsIdle
  <2>2. DOMAIN undoStack' = {}
    BY <1>4, <2>1
  <2>. QED BY <1>3, <2>2
<1>11. UndoCoversDrawn'
  <2>. SUFFICES ASSUME Ready PROVE Own' = {}
    BY <1>3, <1>5 DEF UndoCoversDrawn, Own
  <2>1. ASSUME NEW o \in drawn, o.by = executor PROVE o \notin drawn'
    <3>1. o.item \in Own
      BY <2>1 DEF Own
    <3>2. PICK i \in At("overlay") : undoStack[i].item = o.item
      BY <1>2, <3>1
    <3>3. o = Overlay(undoStack[i].item)
      BY <1>2, <2>1, <3>2 DEF ExecutorShape, Overlays, Overlay
    <3>. QED BY <1>1, <3>3
  <2>. QED BY <1>1, <2>1 DEF Own
<1>12. ASSUME NEW k \in HistoryKinds PROVE HistoryFollows(k)'
  <2>1. k # "overlay"
    BY KindsApart
  <2>2. HistoryFollows(k) /\ histories'[k] = histories[k] /\ shown'[k] = shown[k]
    BY <1>1, <1>2
  <2>3. \A i \in At(k)' : i \in DOMAIN undoStack' /\ p[i] \in At(k) /\ undoStack'[i] = undoStack[p[i]]
    BY <1>4, <2>1
  <2>4. {undoStack'[i].item : i \in At(k)'} = {undoStack[i].item : i \in At(k)}
    BY <1>4, <2>1, <2>3
  <2>5. \A i, j \in At(k)' : i < j => undoStack'[i].item < undoStack'[j].item
    BY <1>4, <2>2, <2>3 DEF HistoryFollows
  <2>6. /\ {undoStack'[i].item : i \in At(k)'} = Range(histories'[k])
        /\ \A i, j \in DOMAIN histories'[k] : i < j => histories'[k][i] < histories'[k][j]
        /\ histories'[k] # <<>> => Last(histories'[k]) = shown'[k]
    BY <2>2, <2>4 DEF HistoryFollows
  <2>. QED BY Zenon, <2>5, <2>6 DEF HistoryFollows
<1>13. Ready' => \A i \in At("camera")' :
                    (\A j \in At("camera")' : j <= i) => undoStack'[i].item = camera'
  <2>. SUFFICES ASSUME Ready, NEW i \in At("camera")', \A j \in At("camera")' : j <= i
                PROVE  undoStack'[i].item = camera
    BY <1>1, <1>5
  <2>1. i \in DOMAIN undoStack' /\ p[i] \in At("camera") /\ undoStack'[i] = undoStack[p[i]]
    BY <1>4
  <2>2. \A m \in At("camera") : m <= p[i]
    <3>. SUFFICES ASSUME NEW m \in At("camera") PROVE m <= p[i]
      OBVIOUS
    <3>1. PICK j \in At("camera")' : p[j] = m
      BY <1>4
    <3>. QED BY <1>4, <2>1, <3>1
  <2>. QED BY <1>2, <2>1, <2>2
<1>14. MapFollowsTheStack'
  BY Zenon, <1>12, <1>13 DEF MapFollowsTheStack, HistoryFollows
<1>. QED BY <1>6, <1>7, <1>8, <1>9, <1>10, <1>11, <1>14 DEF UndoInv, UndoTakesBack

\* Another view: the panel gets a new executor, or has none that did anything.
LEMMA ReplacedKeeps ==
    ASSUME UndoInv, ViewReplaced(opened), opened \in BOOLEAN, UNCHANGED opened
    PROVE  UndoInv'
<1>1. /\ view' = view + 1 /\ view \in Nat /\ drawn' = {}
      /\ UNCHANGED <<shown, camera, fetches, executed, opened>>
  BY DEF ViewReplaced, UndoInv, ExecutorShape
<1>2. CASE opened
  <2>1. NewExecutor
    BY <1>2 DEF ViewReplaced
  <2>. QED BY <1>1, <2>1, EmptyKeeps
<1>3. CASE ~opened
  <2>1. UNCHANGED <<executor, undoStack, histories>>
    BY <1>3 DEF ViewReplaced, stacks
  <2>2. /\ FetchesAreNew /\ ExecutorShape /\ NumbersAreGiven
        /\ undoStack = <<>> /\ \A k \in HistoryKinds : histories[k] = <<>>
        /\ \A f \in fetches : f.by # executor
        /\ ClosedIsIdle
        /\ \A k \in HistoryKinds : HistoryFollows(k)
    BY <1>3, MapFollowsIs DEF UndoInv, ClosedIsIdle, UndoTakesBack
  <2>3. \A k : At(k) = {} /\ At(k)' = {} /\ SameAt(k)
    BY <2>1, <2>2 DEF At, SameAt
  <2>4. ExecutorShape' /\ NumbersAreGiven' /\ ClosedIsIdle'
    BY <1>1, <2>1, <2>2 DEF ExecutorShape, NumbersAreGiven, ClosedIsIdle
  <2>5. FetchesAreNew' /\ CameraChain' /\ EntriesAreApart' /\ UndoCoversDrawn'
    BY <1>1, <2>1, <2>2, <2>3 DEF FetchesAreNew, CameraChain, EntriesAreApart, UndoCoversDrawn
  <2>6. \A k \in HistoryKinds : HistoryFollows(k)'
    BY <1>1, <2>1, <2>2, <2>3, SameHistory
  <2>7. \A i \in At("camera")' : (\A j \in At("camera")' : j <= i) => undoStack'[i].item = camera'
    BY <2>3
  <2>8. MapFollowsTheStack'
    BY Zenon, <2>6, <2>7 DEF MapFollowsTheStack, HistoryFollows
  <2>. QED BY <2>4, <2>5, <2>8 DEF UndoInv, UndoTakesBack
<1>. QED BY <1>2, <1>3

LEMMA InitUndo == PanelInit => UndoInv
<1>. SUFFICES ASSUME PanelInit PROVE UndoInv
  OBVIOUS
<1>1. PICK v \in {0, 1} : ExecutorInit(v)
  BY DEF PanelInit
<1>2. /\ view \in Nat /\ executor \in Nat /\ undoStack = <<>> /\ fetches = {} /\ drawn = {}
      /\ histories = [k \in HistoryKinds |-> <<>>] /\ shown = [k \in HistoryKinds |-> 0]
      /\ camera = 0 /\ executed = 0
  BY <1>1 DEF ExecutorInit
<1>3. opened
  BY DEF PanelInit
<1>4. \A k : At(k) = {}
  BY <1>2 DEF At
<1>5. ExecutorShape
  BY <1>2 DEF ExecutorShape, Numbers
<1>6. NumbersAreGiven /\ FetchesAreNew /\ CameraChain /\ EntriesAreApart /\ ClosedIsIdle
  BY <1>2, <1>3, <1>4 DEF NumbersAreGiven, FetchesAreNew, CameraChain, EntriesAreApart, ClosedIsIdle
<1>7. UndoCoversDrawn
  BY <1>2, <1>4 DEF UndoCoversDrawn
<1>8. \A k \in HistoryKinds : HistoryFollows(k)
  <2>1. \A k \in HistoryKinds : histories[k] = <<>> /\ Range(histories[k]) = {}
    BY <1>2 DEF Range
  <2>. QED BY <1>4, <2>1 DEF HistoryFollows
<1>9. MapFollowsTheStack
  BY <1>4, <1>8, MapFollowsIs
<1>. QED BY <1>5, <1>6, <1>7, <1>9 DEF UndoInv, UndoTakesBack

LEMMA NextUndo == opened \in BOOLEAN /\ UndoInv /\ [PanelNext]_panelVars => UndoInv'
<1>. SUFFICES ASSUME opened \in BOOLEAN, UndoInv, [PanelNext]_panelVars PROVE UndoInv'
  OBVIOUS
<1>1. ASSUME UNCHANGED execVars, ~opened' => ~opened PROVE UndoInv'
  BY <1>1, NothingKeeps DEF execVars, stacks, map
<1>2. ASSUME NEW kind, Refused(kind), UNCHANGED opened PROVE UndoInv'
  BY <1>2, NothingKeeps DEF Refused, map
<1>3. CASE Send
  BY <1>1, <1>3 DEF Send
<1>4. CASE Stop
  BY <1>1, <1>4 DEF Stop
<1>5. CASE Undo
  BY <1>5, UndoKeeps DEF Undo, panel
<1>6. CASE ClearScreen
  BY <1>6, ClearKeeps DEF ClearScreen
<1>7. CASE Close
  <2>1. /\ NewExecutor /\ UNCHANGED <<shown, camera, fetches, executed>>
        /\ view' \in Nat /\ drawn' \subseteq drawn
    BY <1>7 DEF Close, map, UndoInv, ExecutorShape
  <2>. QED BY <2>1, EmptyKeeps
<1>8. CASE Open
  BY <1>1, <1>8 DEF Open
<1>9. ASSUME NEW kind \in ActionKinds, Replay(kind) PROVE UndoInv'
  <2>1. UNCHANGED opened /\ opened
    BY <1>9 DEF Replay, panel
  <2>2. (Ready /\ Carry(kind)) \/ Refused(kind)
    BY <1>9 DEF Replay
  <2>. QED BY <1>2, <2>1, <2>2, CarryKeeps
<1>10. ASSUME NEW c \in Turns, Delta(c) PROVE UndoInv'
  BY <1>1, <1>10 DEF Delta, Reads
<1>11. ASSUME NEW c \in Turns, NEW name \in ToolNames, ToolStart(c, name) \/ ToolDone(c, name) PROVE UndoInv'
  BY <1>1, <1>11 DEF ToolStart, ToolDone, Reads
<1>12. ASSUME NEW c \in Turns, NEW kind \in LastEvents, LastEvent(c, kind) PROVE UndoInv'
  BY <1>1, <1>12 DEF LastEvent, Reads
<1>17. ASSUME NEW c \in Turns, NEW kind \in ImageKinds, Images(c, kind) PROVE UndoInv'
  BY <1>1, <1>17 DEF Images, Reads
<1>13. ASSUME NEW c \in Turns, NEW kind \in ActionKinds, Action(c, kind) PROVE UndoInv'
  <2>1. UNCHANGED opened /\ opened
    BY <1>13 DEF Action, Reads
  <2>2. (Ready /\ Carry(kind)) \/ Throttled(kind) \/ Refused(kind) \/ UNCHANGED execVars
    BY <1>13 DEF Action
  <2>. QED BY <1>1, <1>2, <2>1, <2>2, CarryKeeps DEF Throttled
<1>14. ASSUME NEW c \in Turns, NEW failed \in BOOLEAN, RunEnds(c, failed) PROVE UndoInv'
  BY <1>1, <1>14 DEF RunEnds
<1>15. CASE MapSteps
  <2>1. UNCHANGED opened
    BY <1>15 DEF MapSteps, panel
  <2>2. \/ \E f \in fetches, ok \in BOOLEAN : RouteAnswered(f, ok)
        \/ ViewDestroyed \/ ViewReplaced(opened)
    BY <1>15 DEF MapSteps
  <2>. QED BY <2>1, <2>2, RouteKeeps, DestroyedKeeps, ReplacedKeeps
<1>16. CASE UNCHANGED panelVars
  BY <1>1, <1>16 DEF panelVars, panel
<1>. QED BY <1>3, <1>4, <1>5, <1>6, <1>7, <1>8, <1>9, <1>10, <1>11, <1>12, <1>13, <1>14, <1>15,
            <1>16, <1>17 DEF PanelNext

\* Undo and clear take back all that the executor did, and nothing else.
THEOREM UndoAlwaysTakesBack == PanelSpec => []UndoTakesBack
<1>1. PanelInit => opened \in BOOLEAN
  BY DEF PanelInit
<1>2. opened \in BOOLEAN /\ [PanelNext]_panelVars => (opened \in BOOLEAN)'
  <2>. SUFFICES ASSUME opened \in BOOLEAN, [PanelNext]_panelVars PROVE opened' \in BOOLEAN
    OBVIOUS
  <2>. QED BY DEF PanelNext, Send, Stop, Undo, ClearScreen, Close, Open, Replay, Delta, ToolStart,
              ToolDone, LastEvent, Images, Action, RunEnds, MapSteps, Reads, panel, panelVars
<1>3. UndoInv => UndoTakesBack
  BY DEF UndoInv
<1>. QED BY <1>1, <1>2, <1>3, InitUndo, NextUndo, PTL DEF PanelSpec

-----------------------------------------------------------------------------
\* The question an answer follows

QuestionAt(s) == SelectLastInSeq(s, LAMBDA m : m.role = "user")

\* A message that is a question, the latest one of s; 0 for none.
Latest(s, u) ==
    /\ u \in 0..Len(s)
    /\ u # 0 => s[u].role = "user"
    /\ \A i \in 1..Len(s) : i > u => s[i].role # "user"

LEMMA MaxIs ==
    ASSUME NEW n \in Nat, NEW S \in SUBSET (1..n), S # {}
    PROVE  Max(S) \in S /\ \A j \in S : Max(S) >= j
<1>1. S \in SUBSET (0..n)
  OBVIOUS
<1>2. \E x \in S : \A j \in S : j <= x
  BY <1>1, MostExists
<1>3. \E x \in S : \A j \in S : x >= j
  <2>1. \A x \in 1..n, j \in 1..n : j <= x => x >= j
    OBVIOUS
  <2>. QED BY <1>2, <2>1
<1>. QED BY <1>3 DEF Max

LEMMA LatestQuestionIs ==
    ASSUME NEW s \in Seq(Messages)
    PROVE  /\ Latest(s, QuestionAt(s))
           /\ \A u : Latest(s, u) => u = QuestionAt(s)
           /\ UpToQuestion(s) = SubSeq(s, 1, QuestionAt(s))
<1>. DEFINE I == {i \in 1..Len(s) : s[i].role = "user"}
            q == QuestionAt(s)
<1>1. q = IF I # {} THEN Max(I) ELSE 0
  BY DEF QuestionAt, SelectLastInSeq
<1>2. Len(s) \in Nat /\ I \in SUBSET (1..Len(s))
  OBVIOUS
<1>3. UpToQuestion(s) = SubSeq(s, 1, q)
  BY DEF UpToQuestion, QuestionAt
<1>. HIDE DEF q
<1>4. Latest(s, q)
  <2>1. CASE I = {}
    BY <1>1, <1>2, <2>1 DEF Latest
  <2>2. CASE I # {}
    <3>1. q \in I /\ \A j \in I : q >= j
      <4>. HIDE DEF I
      <4>. QED BY <1>1, <1>2, <2>2, MaxIs
    <3>2. \A i \in 1..Len(s) : i > q => i \notin I
      BY <1>2, <3>1
    <3>. QED BY <1>2, <3>1, <3>2 DEF Latest
  <2>. QED BY <2>1, <2>2
<1>5. ASSUME NEW u, Latest(s, u) PROVE u = q
  <2>1. u \in 0..Len(s) /\ q \in 0..Len(s)
    BY <1>4, <1>5 DEF Latest
  <2>2. ~(u > q)
    BY <1>2, <1>4, <1>5, <2>1 DEF Latest
  <2>3. ~(q > u)
    BY <1>2, <1>4, <1>5, <2>1 DEF Latest
  <2>. QED BY <1>2, <2>1, <2>2, <2>3
<1>. QED BY <1>3, <1>4, <1>5 DEF q

\* What comes after the latest question does not change what is up to it.
LEMMA SameQuestion ==
    ASSUME NEW s \in Seq(Messages), NEW t \in Seq(Messages),
           QuestionAt(s) <= Len(t),
           \A i \in 1..QuestionAt(s) : t[i] = s[i],
           \A i \in 1..Len(t) : i > QuestionAt(s) => t[i].role # "user"
    PROVE  QuestionAt(t) = QuestionAt(s) /\ UpToQuestion(t) = UpToQuestion(s)
<1>. DEFINE q == QuestionAt(s)
<1>1. q \in 0..Len(s) /\ (q # 0 => s[q].role = "user") /\ Len(s) \in Nat /\ Len(t) \in Nat
  BY LatestQuestionIs DEF Latest
<1>. HIDE DEF q
<1>2. Latest(t, q)
  BY <1>1 DEF Latest, q
<1>3. QuestionAt(t) = q
  BY <1>2, LatestQuestionIs
<1>4. SubSeq(t, 1, q) = SubSeq(s, 1, q)
  <2>. DEFINE f == SubSeq(t, 1, q)
              g == SubSeq(s, 1, q)
  <2>1. /\ \A i \in 1..q : i \in 1..Len(t) /\ i \in 1..Len(s)
        /\ q \in Nat
    BY <1>1 DEF q
  <2>2. /\ f \in Seq(Messages) /\ g \in Seq(Messages)
        /\ Len(f) = q /\ Len(g) = q
        /\ \A i \in 1..q : f[i] = t[i] /\ g[i] = s[i]
    <3>1. CASE q = 0
      BY <3>1
    <3>2. CASE q # 0
      <4>1. \A i \in 1..q : t[i] \in Messages /\ s[i] \in Messages
        BY <2>1
      <4>2. 1 <= q /\ q - 1 + 1 = q /\ \A i \in 1..q : 1 + i - 1 = i
        BY <2>1, <3>2
      <4>3. /\ f \in Seq(Messages) /\ g \in Seq(Messages)
            /\ Len(f) = (IF 1 <= q THEN q - 1 + 1 ELSE 0) /\ Len(g) = (IF 1 <= q THEN q - 1 + 1 ELSE 0)
            /\ \A i \in 1..(q - 1 + 1) : f[i] = t[1 + i - 1] /\ g[i] = s[1 + i - 1]
        BY <2>1, <4>1, SubSeqProperties
      <4>. HIDE DEF f, g
      <4>. QED BY <4>2, <4>3
    <3>. QED BY <3>1, <3>2
  <2>3. \A i \in 1..q : f[i] = g[i]
    BY <2>2 DEF q
  <2>. HIDE DEF f, g
  <2>4. f = g
    BY <2>2, <2>3, SeqEqual
  <2>. QED BY <2>4 DEF f, g
<1>. QED BY <1>3, <1>4, LatestQuestionIs DEF q

-----------------------------------------------------------------------------
\* What an event makes of the messages

\* The messages of the answer in which the tool is still running.
Running(s, name) ==
    {i \in DOMAIN s : i > QuestionAt(s) /\ Activity(name, "start") \in Range(s[i].tools)}

\* t is s with m as its new last message, or in the place of its last answer.
Changed(s, t, n, m) ==
    \/ t = Append(s, m) /\ n = Len(s) + 1
    \/ LastIsAnswer(s) /\ t = Append(Front(s), m) /\ n = Len(s)

LEMMA ChangedIs ==
    ASSUME NEW s \in Seq(Messages), NEW m \in Messages, m.role = "assistant",
           NEW t, NEW n \in Nat, Changed(s, t, n, m)
    PROVE  /\ t \in Seq(Messages) /\ n \in DOMAIN t /\ n > QuestionAt(s) /\ t[n] = m
           /\ n \in Nat /\ Len(t) = n /\ DOMAIN s \subseteq DOMAIN t
           /\ \A i \in DOMAIN t : i = n \/ i \in DOMAIN s
           /\ \A i \in DOMAIN s : i = n \/ t[i] = s[i]
<1>1. /\ QuestionAt(s) \in 0..Len(s) /\ Len(s) \in Nat /\ DOMAIN s = 1..Len(s)
      /\ QuestionAt(s) # 0 => s[QuestionAt(s)].role = "user"
  BY LatestQuestionIs DEF Latest
<1>2. CASE t = Append(s, m) /\ n = Len(s) + 1
  <2>1. /\ t \in Seq(Messages) /\ Len(t) = n /\ DOMAIN t = 1..n /\ t[n] = m
        /\ \A i \in 1..Len(s) : t[i] = s[i]
    BY <1>2, PushIs
  <2>2. n \in Nat /\ n \in 1..n /\ n > QuestionAt(s) /\ 1..n = 1..Len(s) \cup {n}
    BY <1>1, <1>2
  <2>. QED BY <1>1, <2>1, <2>2
<1>3. CASE LastIsAnswer(s) /\ t = Append(Front(s), m) /\ n = Len(s)
  <2>0. s # <<>> /\ Last(s).role = "assistant"
    BY <1>3 DEF LastIsAnswer
  <2>1. /\ Front(s) \in Seq(Messages) /\ Len(Front(s)) = n - 1 /\ n \in 1..n
        /\ \A i \in 1..(n - 1) : Front(s)[i] = s[i]
        /\ s[n].role = "assistant"
    BY <1>3, <2>0, PopIs
  <2>2. n - 1 + 1 = n /\ n \in Nat
    BY <1>1, <1>3
  <2>3. /\ t \in Seq(Messages) /\ Len(t) = n /\ DOMAIN t = 1..n /\ t[n] = m
        /\ \A i \in 1..(n - 1) : t[i] = Front(s)[i]
    BY <1>3, <2>1, <2>2, PushIs
  <2>4. \A i \in 1..n : i = n \/ i \in 1..(n - 1)
    BY <2>2
  <2>5. n > QuestionAt(s)
    <3>1. QuestionAt(s) # n
      <4>1. n # 0
        BY <2>1
      <4>. QED BY <1>1, <2>1, <4>1
    <3>. QED BY <1>1, <1>3, <3>1
  <2>. QED BY <1>1, <1>3, <2>1, <2>2, <2>3, <2>4, <2>5
<1>. QED BY <1>2, <1>3 DEF Changed

\* An answer grows after its question, and only in its last message.
LEMMA ChangedAfterQuestion ==
    ASSUME NEW s \in Seq(Messages), NEW m \in Messages, m.role = "assistant",
           NEW t, NEW n \in Nat, Changed(s, t, n, m)
    PROVE  /\ t \in Seq(Messages)
           /\ QuestionAt(t) = QuestionAt(s) /\ UpToQuestion(t) = UpToQuestion(s)
           /\ \A name : Running(t, name) =
                 (Running(s, name) \ {n})
                 \cup {i \in {n} : Activity(name, "start") \in Range(m.tools)}
<1>1. /\ t \in Seq(Messages) /\ n \in DOMAIN t /\ n > QuestionAt(s) /\ t[n] = m
      /\ n \in Nat /\ Len(t) = n /\ DOMAIN s \subseteq DOMAIN t
      /\ \A i \in DOMAIN t : i = n \/ i \in DOMAIN s
      /\ \A i \in DOMAIN s : i = n \/ t[i] = s[i]
  BY ChangedIs
<1>2. Latest(s, QuestionAt(s)) /\ DOMAIN s = 1..Len(s) /\ Len(s) \in Nat /\ DOMAIN t = 1..Len(t)
  <2>1. Latest(s, QuestionAt(s))
    BY LatestQuestionIs
  <2>2. DOMAIN s = 1..Len(s) /\ Len(s) \in Nat /\ DOMAIN t = 1..Len(t)
    BY <1>1
  <2>. QED BY <2>1, <2>2
<1>3. /\ QuestionAt(s) \in 0..Len(s) /\ QuestionAt(s) <= Len(t)
      /\ \A i \in 1..QuestionAt(s) : i \in DOMAIN s /\ i # n
  BY <1>1, <1>2 DEF Latest
<1>4. \A i \in 1..QuestionAt(s) : t[i] = s[i]
  BY <1>1, <1>3
<1>5. \A i \in 1..Len(t) : i > QuestionAt(s) => t[i].role # "user"
  <2>. SUFFICES ASSUME NEW i \in 1..Len(t), i > QuestionAt(s), i # n PROVE t[i].role # "user"
    BY <1>1
  <2>1. i \in DOMAIN s /\ t[i] = s[i]
    BY <1>1, <1>2
  <2>. QED BY <1>2, <2>1 DEF Latest
<1>6. QuestionAt(t) = QuestionAt(s) /\ UpToQuestion(t) = UpToQuestion(s)
  BY <1>1, <1>3, <1>4, <1>5, SameQuestion
<1>7. ASSUME NEW name
      PROVE  Running(t, name) = (Running(s, name) \ {n})
                 \cup {i \in {n} : Activity(name, "start") \in Range(m.tools)}
  <2>. DEFINE a == Activity(name, "start")
  <2>. HIDE DEF a
  <2>1. /\ Running(s, name) = {i \in DOMAIN s : i > QuestionAt(s) /\ a \in Range(s[i].tools)}
        /\ Running(t, name) = {i \in DOMAIN t : i > QuestionAt(s) /\ a \in Range(t[i].tools)}
    BY <1>6 DEF Running, a
  <2>2. Running(t, name) = (Running(s, name) \ {n}) \cup {i \in {n} : a \in Range(m.tools)}
    BY <1>1, <2>1
  <2>. QED BY <2>2 DEF a
<1>. QED BY <1>1, <1>6, <1>7

\* A new message, or a change of the last answer while it has no tools: no tool
\* was running there.
LEMMA ExtendedIs ==
    ASSUME NEW s \in Seq(Messages), NEW m \in Messages, m.role = "assistant", NEW t,
           \/ t = Append(s, m)
           \/ LastIsAnswer(s) /\ Last(s).tools = <<>> /\ t = Append(Front(s), m)
    PROVE  /\ t \in Seq(Messages) /\ UpToQuestion(t) = UpToQuestion(s)
           /\ \E n \in Nat : \A name :
                 /\ n \notin Running(s, name)
                 /\ Running(t, name) =
                       Running(s, name) \cup {i \in {n} : Activity(name, "start") \in Range(m.tools)}
<1>1. Len(s) \in Nat /\ Len(s) + 1 \in Nat /\ DOMAIN s = 1..Len(s) /\ Len(s) + 1 \notin DOMAIN s
  OBVIOUS
<1>2. CASE t = Append(s, m)
  <2>. DEFINE n == Len(s) + 1
  <2>1. Changed(s, t, n, m) /\ n \in Nat
    BY <1>1, <1>2 DEF Changed
  <2>2. \A name : n \notin Running(s, name)
    BY <1>1 DEF Running
  <2>. HIDE DEF n
  <2>. QED BY <2>1, <2>2, ChangedAfterQuestion
<1>3. CASE LastIsAnswer(s) /\ Last(s).tools = <<>> /\ t = Append(Front(s), m)
  <2>. DEFINE n == Len(s)
  <2>1. Changed(s, t, n, m) /\ n \in Nat
    BY <1>1, <1>3 DEF Changed
  <2>2. \A name : n \notin Running(s, name)
    <3>1. Range(s[n].tools) = {}
      BY <1>3 DEF Last, Range
    <3>. QED BY <3>1 DEF Running
  <2>. HIDE DEF n
  <2>. QED BY <2>1, <2>2, ChangedAfterQuestion
<1>. QED BY <1>2, <1>3

LEMMA LastAnswerIs ==
    ASSUME NEW s \in Seq(Messages), LastIsAnswer(s)
    PROVE  /\ Last(s) \in Messages /\ Last(s).role = "assistant"
           /\ Last(s) = s[Len(s)] /\ Len(s) \in DOMAIN s /\ Len(s) \in Nat
<1>1. s # <<>> /\ Last(s).role = "assistant"
  BY DEF LastIsAnswer
<1>2. Last(s) = s[Len(s)]
  BY DEF Last
<1>3. Len(s) \in DOMAIN s /\ Len(s) \in Nat
  BY <1>1
<1>4. Last(s) \in Messages
  BY <1>2, <1>3
<1>. QED BY <1>1, <1>2, <1>3, <1>4

\* An empty message is one.
LEMMA FreshIs ==
    ASSUME NEW role \in {"user", "assistant"}, NEW c \in Turns
    PROVE  /\ AgentMessage(role, c) \in Messages
           /\ AgentMessage(role, c).role = role /\ AgentMessage(role, c).tools = <<>>
           /\ AgentMessage(role, c).text = 0
<1>1. <<>> \in Seq([name : ToolNames, status : {"start", "done"}]) /\ <<>> \in Seq(ActionKinds)
  OBVIOUS
<1>. QED BY <1>1 DEF AgentMessage, Messages

\* A change of a message that leaves its role and its tools.
LEMMA ChangeIs ==
    ASSUME NEW m \in Messages
    PROVE  /\ LET f == [m EXCEPT !.text = @ + 1]
              IN  f \in Messages /\ f.role = m.role /\ f.tools = m.tools
           /\ \A kind \in ActionKinds :
                 LET f == [m EXCEPT !.cards = Append(@, kind)]
                 IN  f \in Messages /\ f.role = m.role /\ f.tools = m.tools
           /\ \A kind \in ImageKinds :
                 LET f == [m EXCEPT !.images = @ \cup {kind}]
                 IN  f \in Messages /\ f.role = m.role /\ f.tools = m.tools
<1>1. /\ m = [role |-> m.role, turn |-> m.turn, text |-> m.text, tools |-> m.tools,
               cards |-> m.cards, images |-> m.images]
      /\ m.text + 1 \in Nat /\ m.cards \in Seq(ActionKinds) /\ m.images \subseteq ImageKinds
  BY DEF Messages
<1>2. \A kind \in ActionKinds : Append(m.cards, kind) \in Seq(ActionKinds)
  BY <1>1, PushIs
<1>3. \A kind \in ImageKinds : m.images \cup {kind} \subseteq ImageKinds
  BY <1>1
<1>. QED BY <1>1, <1>2, <1>3 DEF Messages

LEMMA DeltaIs ==
    ASSUME NEW s \in Seq(Messages), NEW c \in Turns
    PROVE  /\ AfterDelta(c, s) \in Seq(Messages)
           /\ UpToQuestion(AfterDelta(c, s)) = UpToQuestion(s)
           /\ \A name : Running(AfterDelta(c, s), name) = Running(s, name)
<1>. DEFINE fresh == AgentMessage("assistant", c)
            new == [fresh EXCEPT !.text = @ + 1]
            more == [Last(s) EXCEPT !.text = @ + 1]
            t == AfterDelta(c, s)
<1>1. t = IF LastIsAnswer(s) /\ Last(s).tools # <<>> THEN Append(s, new)
          ELSE IF LastIsAnswer(s) THEN Append(Front(s), more) ELSE Append(s, new)
  BY DEF AfterDelta, Extended, ToLast
<1>2. new \in Messages /\ new.role = "assistant" /\ new.tools = <<>>
  <2>1. fresh \in Messages /\ fresh.role = "assistant" /\ fresh.tools = <<>>
    BY FreshIs
  <2>. HIDE DEF fresh
  <2>. QED BY <2>1, ChangeIs
<1>3. LastIsAnswer(s) => more \in Messages /\ more.role = "assistant" /\ more.tools = Last(s).tools
  <2>. SUFFICES ASSUME LastIsAnswer(s)
                PROVE  more \in Messages /\ more.role = "assistant" /\ more.tools = Last(s).tools
    OBVIOUS
  <2>1. Last(s) \in Messages /\ Last(s).role = "assistant"
    BY LastAnswerIs
  <2>. QED BY <2>1, ChangeIs
<1>. HIDE DEF new, more, t
<1>4. PICK m \in {new, more} :
        /\ m \in Messages /\ m.role = "assistant" /\ m.tools = <<>>
        /\ \/ t = Append(s, m)
           \/ LastIsAnswer(s) /\ Last(s).tools = <<>> /\ t = Append(Front(s), m)
  BY <1>1, <1>2, <1>3
<1>5. Range(m.tools) = {}
  BY <1>4 DEF Range
<1>6. t \in Seq(Messages) /\ UpToQuestion(t) = UpToQuestion(s)
  BY <1>4, ExtendedIs
<1>7. PICK n \in Nat : \A name :
         Running(t, name) = Running(s, name) \cup {i \in {n} : Activity(name, "start") \in Range(m.tools)}
  BY <1>4, ExtendedIs
<1>8. \A name : Running(t, name) = Running(s, name)
  BY <1>5, <1>7
<1>. QED BY <1>6, <1>8 DEF t

\* A tool begins: in a message in which it was not running.
LEMMA ToolStartIs ==
    ASSUME NEW s \in Seq(Messages), NEW c \in Turns, NEW name \in ToolNames
    PROVE  /\ AfterToolStart(c, s, name) \in Seq(Messages)
           /\ UpToQuestion(AfterToolStart(c, s, name)) = UpToQuestion(s)
           /\ \E n \in Nat :
                 /\ n \notin Running(s, name)
                 /\ Running(AfterToolStart(c, s, name), name) = Running(s, name) \cup {n}
           /\ \A other : other # name =>
                 Running(AfterToolStart(c, s, name), other) = Running(s, other)
<1>. DEFINE a == Activity(name, "start")
            fresh == AgentMessage("assistant", c)
            new == [fresh EXCEPT !.tools = Append(@, a)]
            more == [Last(s) EXCEPT !.tools = Append(@, a)]
            t == AfterToolStart(c, s, name)
<1>1. t = IF LastIsAnswer(s) /\ Last(s).tools # <<>> THEN Append(s, new)
          ELSE IF LastIsAnswer(s) THEN Append(Front(s), more) ELSE Append(s, new)
  BY DEF AfterToolStart, Extended, ToLast
<1>2. <<a>> \in Seq([name : ToolNames, status : {"start", "done"}])
  BY DEF Activity
<1>3. new \in Messages /\ new.role = "assistant" /\ new.tools = <<a>>
  <2>1. fresh \in Messages /\ fresh.role = "assistant" /\ fresh.tools = <<>>
    BY FreshIs
  <2>. HIDE DEF fresh, a
  <2>2. Append(fresh.tools, a) = <<a>>
    BY <2>1
  <2>. QED BY <1>2, <2>1, <2>2 DEF Messages
<1>4. LastIsAnswer(s) /\ Last(s).tools = <<>> =>
         more \in Messages /\ more.role = "assistant" /\ more.tools = <<a>>
  <2>. SUFFICES ASSUME LastIsAnswer(s), Last(s).tools = <<>>
                PROVE  more \in Messages /\ more.role = "assistant" /\ more.tools = <<a>>
    OBVIOUS
  <2>1. Last(s) \in Messages /\ Last(s).role = "assistant" /\ Append(Last(s).tools, a) = <<a>>
    BY LastAnswerIs
  <2>. HIDE DEF a
  <2>. QED BY <1>2, <2>1 DEF Messages
<1>5. \A other : Activity(other, "start") = a <=> other = name
  BY DEF Activity
<1>6. Range(<<a>>) = {a}
  BY DEF Range
<1>. HIDE DEF a, new, more, t
<1>7. PICK m \in {new, more} :
        /\ m \in Messages /\ m.role = "assistant" /\ m.tools = <<a>>
        /\ \/ t = Append(s, m)
           \/ LastIsAnswer(s) /\ Last(s).tools = <<>> /\ t = Append(Front(s), m)
  BY <1>1, <1>3, <1>4
<1>8. t \in Seq(Messages) /\ UpToQuestion(t) = UpToQuestion(s)
  BY <1>7, ExtendedIs
<1>9. PICK n \in Nat : \A other :
         /\ n \notin Running(s, other)
         /\ Running(t, other) = Running(s, other) \cup {i \in {n} : Activity(other, "start") \in Range(m.tools)}
  BY <1>7, ExtendedIs
<1>10. \A other : Activity(other, "start") \in Range(m.tools) <=> other = name
  BY <1>5, <1>6, <1>7
<1>11. n \notin Running(s, name) /\ Running(t, name) = Running(s, name) \cup {n}
  BY <1>9, <1>10
<1>12. \A other : other # name => Running(t, other) = Running(s, other)
  BY <1>9, <1>10
<1>. QED BY <1>8, <1>11, <1>12 DEF t

\* A change of the last answer, or a new one, that begins and ends no tool.
LEMMA ToLastIs ==
    ASSUME NEW s \in Seq(Messages), NEW new \in Messages, new.role = "assistant", new.tools = <<>>,
           NEW more, LastIsAnswer(s) => /\ more \in Messages /\ more.role = "assistant"
                                        /\ more.tools = Last(s).tools,
           NEW t, LastIsAnswer(s) => t = Append(Front(s), more),
           ~LastIsAnswer(s) => t = Append(s, new)
    PROVE  /\ t \in Seq(Messages) /\ UpToQuestion(t) = UpToQuestion(s)
           /\ \A name : Running(t, name) = Running(s, name)
<1>1. CASE ~LastIsAnswer(s)
  <2>1. Range(new.tools) = {}
    BY DEF Range
  <2>0. \/ t = Append(s, new)
        \/ LastIsAnswer(s) /\ Last(s).tools = <<>> /\ t = Append(Front(s), new)
    BY <1>1
  <2>2. /\ t \in Seq(Messages) /\ UpToQuestion(t) = UpToQuestion(s)
        /\ \E n \in Nat : \A name :
              /\ n \notin Running(s, name)
              /\ Running(t, name) =
                    Running(s, name) \cup {i \in {n} : Activity(name, "start") \in Range(new.tools)}
    BY ONLY <2>0, ExtendedIs, s \in Seq(Messages), new \in Messages, new.role = "assistant"
  <2>. QED BY <2>1, <2>2
<1>2. CASE LastIsAnswer(s)
  <2>. DEFINE n == Len(s)
  <2>2. Last(s) \in Messages /\ Last(s) = s[n] /\ n \in DOMAIN s /\ n \in Nat
    BY <1>2, LastAnswerIs
  <2>3. more \in Messages /\ more.role = "assistant" /\ more.tools = s[n].tools
    BY <1>2, <2>2 DEF Last
  <2>4. Changed(s, t, n, more)
    BY <1>2 DEF Changed
  <2>. HIDE DEF n
  <2>5. n > QuestionAt(s)
    BY <2>2, <2>3, <2>4, ChangedIs
  <2>6. t \in Seq(Messages) /\ UpToQuestion(t) = UpToQuestion(s)
    BY <2>2, <2>3, <2>4, ChangedAfterQuestion
  <2>7. \A name : Running(t, name) =
                 (Running(s, name) \ {n})
                 \cup {i \in {n} : Activity(name, "start") \in Range(s[n].tools)}
    BY <2>2, <2>3, <2>4, ChangedAfterQuestion
  <2>8. ASSUME NEW name PROVE Running(t, name) = Running(s, name)
    <3>1. n \in Running(s, name) <=> Activity(name, "start") \in Range(s[n].tools)
      BY <2>2, <2>5 DEF Running
    <3>. QED BY <2>7, <3>1
  <2>. QED BY <2>6, <2>8
<1>. QED BY <1>1, <1>2

\* A card.
LEMMA CardIs ==
    ASSUME NEW s \in Seq(Messages), NEW c \in Turns, NEW kind \in ActionKinds
    PROVE  /\ AfterAction(c, s, kind) \in Seq(Messages)
           /\ UpToQuestion(AfterAction(c, s, kind)) = UpToQuestion(s)
           /\ \A name : Running(AfterAction(c, s, kind), name) = Running(s, name)
<1>. DEFINE fresh == AgentMessage("assistant", c)
            new == [fresh EXCEPT !.cards = Append(@, kind)]
            more == [Last(s) EXCEPT !.cards = Append(@, kind)]
            t == AfterAction(c, s, kind)
<1>1. /\ LastIsAnswer(s) => t = Append(Front(s), more)
      /\ ~LastIsAnswer(s) => t = Append(s, new)
  BY DEF AfterAction, ToLast
<1>2. new \in Messages /\ new.role = "assistant" /\ new.tools = <<>>
  <2>1. fresh \in Messages /\ fresh.role = "assistant" /\ fresh.tools = <<>>
    BY FreshIs
  <2>. HIDE DEF fresh
  <2>. QED BY <2>1, ChangeIs
<1>3. LastIsAnswer(s) => more \in Messages /\ more.role = "assistant" /\ more.tools = Last(s).tools
  <2>. SUFFICES ASSUME LastIsAnswer(s)
                PROVE  more \in Messages /\ more.role = "assistant" /\ more.tools = Last(s).tools
    OBVIOUS
  <2>1. Last(s) \in Messages /\ Last(s).role = "assistant"
    BY LastAnswerIs
  <2>. QED BY <2>1, ChangeIs
<1>. HIDE DEF fresh, new, more, t
<1>4. /\ t \in Seq(Messages) /\ UpToQuestion(t) = UpToQuestion(s)
      /\ \A name : Running(t, name) = Running(s, name)
  BY <1>1, <1>2, <1>3, ToLastIs
<1>. QED BY <1>4 DEF t

\* Images.
LEMMA ImagesAre ==
    ASSUME NEW s \in Seq(Messages), NEW c \in Turns, NEW kind \in ImageKinds
    PROVE  /\ AfterImages(c, s, kind) \in Seq(Messages)
           /\ UpToQuestion(AfterImages(c, s, kind)) = UpToQuestion(s)
           /\ \A name : Running(AfterImages(c, s, kind), name) = Running(s, name)
<1>. DEFINE fresh == AgentMessage("assistant", c)
            new == [fresh EXCEPT !.images = @ \cup {kind}]
            more == [Last(s) EXCEPT !.images = @ \cup {kind}]
            t == AfterImages(c, s, kind)
<1>1. /\ LastIsAnswer(s) => t = Append(Front(s), more)
      /\ ~LastIsAnswer(s) => t = Append(s, new)
  BY DEF AfterImages, ToLast
<1>2. new \in Messages /\ new.role = "assistant" /\ new.tools = <<>>
  <2>1. fresh \in Messages /\ fresh.role = "assistant" /\ fresh.tools = <<>>
    BY FreshIs
  <2>. HIDE DEF fresh
  <2>. QED BY <2>1, ChangeIs
<1>3. LastIsAnswer(s) => more \in Messages /\ more.role = "assistant" /\ more.tools = Last(s).tools
  <2>. SUFFICES ASSUME LastIsAnswer(s)
                PROVE  more \in Messages /\ more.role = "assistant" /\ more.tools = Last(s).tools
    OBVIOUS
  <2>1. Last(s) \in Messages /\ Last(s).role = "assistant"
    BY LastAnswerIs
  <2>. QED BY <2>1, ChangeIs
<1>. HIDE DEF fresh, new, more, t
<1>4. /\ t \in Seq(Messages) /\ UpToQuestion(t) = UpToQuestion(s)
      /\ \A name : Running(t, name) = Running(s, name)
  BY <1>1, <1>2, <1>3, ToLastIs
<1>. QED BY <1>4 DEF t

\* A report settles a tool of the answer, if one of that name runs there.
LEMMA ToolDoneIs ==
    ASSUME NEW s \in Seq(Messages), NEW c \in Turns, NEW name \in ToolNames, Running(s, name) # {}
    PROVE  /\ AfterToolDone(c, s, name) \in Seq(Messages)
           /\ UpToQuestion(AfterToolDone(c, s, name)) = UpToQuestion(s)
           /\ \E n \in Running(s, name) : Running(s, name) \ {n} \subseteq Running(AfterToolDone(c, s, name), name)
           /\ \A other : other # name =>
                 Running(s, other) \subseteq Running(AfterToolDone(c, s, name), other)
<1>. DEFINE Tools == [name : ToolNames, status : {"start", "done"}]
            a == Activity(name, "start")
            b == Activity(name, "done")
            I == {i \in 1..Len(s) : a \in Range(s[i].tools)}
            n == RunsTool(s, name)
            settled(tools) == [j \in DOMAIN tools |-> IF tools[j] = a THEN b ELSE tools[j]]
            m == [s[n] EXCEPT !.tools = settled(s[n].tools)]
            t == AfterToolDone(c, s, name)
<1>1. n = IF I # {} THEN Max(I) ELSE 0
  BY DEF RunsTool, SelectLastInSeq
<1>2. Len(s) \in Nat /\ DOMAIN s = 1..Len(s) /\ I \in SUBSET (1..Len(s))
  OBVIOUS
<1>3. Running(s, name) = {i \in I : i > QuestionAt(s)}
  BY <1>2 DEF Running
<1>4. Latest(s, QuestionAt(s)) /\ QuestionAt(s) \in 0..Len(s)
  BY LatestQuestionIs DEF Latest
<1>5. b \in Tools
  BY DEF Activity
<1>6. \A other : other # name => Activity(other, "start") # a
  BY DEF Activity
<1>7. t = IF n # 0 THEN [s EXCEPT ![n].tools = settled(@)]
          ELSE ToLast(c, s, LAMBDA msg : [msg EXCEPT !.tools = Append(@, b)])
  BY DEF AfterToolDone
<1>8. n \in I /\ n > QuestionAt(s) /\ n # 0
  <2>. HIDE DEF n, I, a
  <2>1. PICK r \in I : r > QuestionAt(s)
    BY <1>3
  <2>2. n \in I /\ \A j \in I : n >= j
    BY <1>1, <1>2, <2>1, MaxIs
  <2>3. n >= r /\ n \in 1..Len(s) /\ r \in 1..Len(s)
    BY <1>2, <2>1, <2>2
  <2>. QED BY <1>2, <1>4, <2>1, <2>2, <2>3
<1>. HIDE DEF n, a, b
<1>9. n \in DOMAIN s /\ n \in Nat /\ s[n] \in Messages
  BY <1>2, <1>8
<1>10. s[n].role # "user" /\ s[n].tools \in Seq(Tools)
  BY <1>2, <1>4, <1>8, <1>9 DEF Latest, Messages
<1>11. settled(s[n].tools) \in Seq(Tools)
  <2>. DEFINE u == s[n].tools
              N == Len(u)
  <2>0. u \in Seq(Tools)
    BY <1>10
  <2>. HIDE DEF u, Tools
  <2>1. DOMAIN u = 1..N /\ N \in Nat /\ \A j \in 1..N : u[j] \in Tools
    BY <2>0
  <2>. HIDE DEF N
  <2>2. settled(u) = [j \in 1..N |-> IF u[j] = a THEN b ELSE u[j]]
    BY <2>1
  <2>3. \A j \in 1..N : (IF u[j] = a THEN b ELSE u[j]) \in Tools
    BY <1>5, <2>1
  <2>4. [j \in 1..N |-> IF u[j] = a THEN b ELSE u[j]] \in Seq(Tools)
    BY <2>1, <2>3, IsASeq
  <2>. QED BY <2>2, <2>4 DEF u
<1>12. m \in Messages /\ m.role = s[n].role /\ m.tools = settled(s[n].tools)
  <2>. HIDE DEF settled
  <2>. QED BY <1>9, <1>11 DEF Messages
<1>13. t = [s EXCEPT ![n] = m]
  <2>. HIDE DEF settled
  <2>. QED BY <1>7, <1>8
<1>. HIDE DEF m, t, I
<1>14. /\ t \in Seq(Messages) /\ Len(t) = Len(s) /\ DOMAIN t = DOMAIN s
       /\ t[n] = m /\ \A i \in DOMAIN s : i # n => t[i] = s[i]
  BY <1>9, <1>12, <1>13
<1>15. QuestionAt(t) = QuestionAt(s) /\ UpToQuestion(t) = UpToQuestion(s)
  <2>1. QuestionAt(s) <= Len(t) /\ \A i \in 1..QuestionAt(s) : i \in DOMAIN s /\ i # n
    BY <1>2, <1>4, <1>8, <1>14
  <2>2. \A i \in 1..QuestionAt(s) : t[i] = s[i]
    BY <1>14, <2>1
  <2>3. \A i \in 1..Len(t) : i > QuestionAt(s) => t[i].role # "user"
    BY <1>2, <1>4, <1>10, <1>12, <1>14 DEF Latest
  <2>. QED BY <1>14, <2>1, <2>2, <2>3, SameQuestion
<1>16. n \in Running(s, name)
  BY <1>3, <1>8
<1>17. ASSUME NEW other, NEW i \in Running(s, other), other # name \/ i # n
       PROVE  i \in Running(t, other)
  <2>. DEFINE o == Activity(other, "start")
  <2>1. i \in DOMAIN s /\ i > QuestionAt(s) /\ o \in Range(s[i].tools)
    BY DEF Running
  <2>2. o \in Range(t[i].tools)
    <3>1. CASE i # n
      BY <1>14, <2>1, <3>1
    <3>2. CASE i = n
      <4>1. o # a
        BY <1>6, <1>17, <3>2
      <4>. HIDE DEF o
      <4>2. PICK j \in DOMAIN s[n].tools : s[n].tools[j] = o
        BY <2>1, <3>2 DEF Range
      <4>3. j \in DOMAIN m.tools /\ m.tools[j] = o
        BY <1>12, <4>1, <4>2
      <4>. QED BY <1>14, <3>2, <4>3 DEF Range
    <3>. QED BY <3>1, <3>2
  <2>. QED BY <1>14, <1>15, <2>1, <2>2 DEF Running
<1>18. Running(s, name) \ {n} \subseteq Running(t, name)
  BY <1>17
<1>19. \A other : other # name => Running(s, other) \subseteq Running(t, other)
  BY <1>17
<1>. QED BY <1>14, <1>15, <1>16, <1>18, <1>19 DEF t

-----------------------------------------------------------------------------
\* What is stored

LEMMA LastOfIs ==
    ASSUME NEW n \in Nat \ {0}, NEW s \in Seq(Messages)
    PROVE  /\ LastOf(n, s) \in Seq(Messages)
           /\ Len(LastOf(n, s)) = IF Len(s) <= n THEN Len(s) ELSE n
           /\ \A i \in 1..Len(LastOf(n, s)) : LastOf(n, s)[i] = s[Len(s) - Len(LastOf(n, s)) + i]
<1>. DEFINE L == Len(s)
            a == L - n + 1
<1>1. L \in Nat /\ DOMAIN s = 1..L
  OBVIOUS
<1>2. CASE L <= n
  <2>1. LastOf(n, s) = s
    BY <1>2 DEF LastOf
  <2>2. \A i \in 1..L : L - L + i = i
    BY <1>1
  <2>. QED BY <1>1, <1>2, <2>1, <2>2
<1>3. CASE ~(L <= n)
  <2>1. LastOf(n, s) = SubSeq(s, a, L)
    BY <1>3 DEF LastOf
  <2>0. /\ a \in Int /\ L \in Int
        /\ a <= L /\ L - a + 1 = n
    <3>1. L - a + 1 = n
      BY <1>1
    <3>2. a \in Int /\ L \in Int
      BY <1>1
    <3>3. a <= L
      BY <1>1
    <3>. QED BY <3>1, <3>2, <3>3
  <2>2. /\ \A i \in a..L : i \in 1..L
        /\ \A i \in 1..n : a + i - 1 = L - n + i
    <3>1. \A i \in 1..n : a + i - 1 = L - n + i
      BY <1>1
    <3>2. \A i \in a..L : i \in 1..L
      BY <1>1, <1>3
    <3>. QED BY <3>1, <3>2
  <2>3. \A i \in a..L : s[i] \in Messages
    BY <1>1, <2>2
  <2>. HIDE DEF a, L
  <2>4. /\ SubSeq(s, a, L) \in Seq(Messages)
        /\ Len(SubSeq(s, a, L)) = IF a <= L THEN L - a + 1 ELSE 0
        /\ \A i \in 1..(L - a + 1) : SubSeq(s, a, L)[i] = s[a + i - 1]
    BY <2>0, <2>3, SubSeqProperties
  <2>. QED BY <1>3, <2>0, <2>1, <2>2, <2>4 DEF L
<1>. QED BY <1>2, <1>3

\* Cutting before a message is added changes nothing.
LEMMA CutOnce ==
    ASSUME NEW s \in Seq(Messages), NEW q \in Messages
    PROVE  LastOf(MessageCap, Append(LastOf(MessageCap, s), q)) = LastOf(MessageCap, Append(s, q))
<1>. DEFINE n == MessageCap
            L == Len(s)
            w == LastOf(n, s)
            l == Len(w)
            x == Append(w, q)
            y == Append(s, q)
            f == LastOf(n, x)
            g == LastOf(n, y)
            k == Len(g)
<1>1. n \in Nat \ {0} /\ n \in Nat
  BY PanelBounds
<1>2. /\ w \in Seq(Messages) /\ l = (IF L <= n THEN L ELSE n)
      /\ \A i \in 1..l : w[i] = s[L - l + i]
  BY <1>1, LastOfIs
<1>3. /\ x \in Seq(Messages) /\ Len(x) = l + 1 /\ x[l + 1] = q
      /\ \A i \in 1..l : x[i] = w[i]
  BY <1>2, PushIs
<1>4. /\ y \in Seq(Messages) /\ Len(y) = L + 1 /\ y[L + 1] = q /\ L \in Nat
      /\ \A i \in 1..L : y[i] = s[i]
  BY PushIs
<1>5. /\ f \in Seq(Messages) /\ Len(f) = (IF Len(x) <= n THEN Len(x) ELSE n)
      /\ \A i \in 1..Len(f) : f[i] = x[Len(x) - Len(f) + i]
  BY <1>1, <1>3, LastOfIs
<1>6. /\ g \in Seq(Messages) /\ k = (IF Len(y) <= n THEN Len(y) ELSE n)
      /\ \A i \in 1..k : g[i] = y[Len(y) - k + i]
  BY <1>1, <1>4, LastOfIs
<1>. HIDE DEF n, L, w, l, x, y, f, g, k
<1>7. /\ l \in Nat /\ k \in Nat /\ l <= L /\ Len(f) = k /\ k <= l + 1 /\ k <= L + 1 /\ k >= 1
  <2>1. CASE L <= n
    BY <1>1, <1>2, <1>3, <1>4, <1>5, <1>6, <2>1
  <2>2. CASE ~(L <= n)
    BY <1>1, <1>2, <1>3, <1>4, <1>5, <1>6, <2>2
  <2>. QED BY <2>1, <2>2
<1>8. ASSUME NEW i \in 1..k PROVE f[i] = g[i]
  <2>1. f[i] = x[l + 1 - k + i] /\ g[i] = y[L + 1 - k + i]
    <3>1. f[i] = x[Len(x) - Len(f) + i] /\ g[i] = y[Len(y) - k + i]
      BY <1>5, <1>6, <1>7
    <3>. QED BY <1>3, <1>4, <1>7, <3>1
  <2>2. CASE i = k
    <3>1. l + 1 - k + i = l + 1 /\ L + 1 - k + i = L + 1
      BY <1>4, <1>7, <2>2
    <3>. QED BY <1>3, <1>4, <2>1, <3>1
  <2>3. CASE i # k
    <3>. DEFINE j == l + 1 - k + i
    <3>1. j \in 1..l /\ L - l + j = L + 1 - k + i /\ L + 1 - k + i \in 1..L
      BY <1>4, <1>7, <2>3
    <3>. HIDE DEF j
    <3>2. x[j] = s[L - l + j]
      BY <1>2, <1>3, <3>1
    <3>3. y[L + 1 - k + i] = s[L + 1 - k + i]
      BY <1>4, <3>1
    <3>. QED BY <2>1, <3>1, <3>2, <3>3 DEF j
  <2>. QED BY <2>2, <2>3
<1>9. f = g
  BY <1>5, <1>6, <1>7, <1>8, SeqEqual DEF k
<1>. QED BY <1>9 DEF n, w, x, y, f, g

LEMMA FirstOfIs ==
    ASSUME NEW S, NEW n \in Nat \ {0}, NEW s \in Seq(S)
    PROVE  FirstOf(n, s) \in Seq(S) /\ FirstOf(n, FirstOf(n, s)) = FirstOf(n, s)
<1>1. CASE Len(s) <= n
  BY <1>1 DEF FirstOf
<1>2. CASE ~(Len(s) <= n)
  <2>1. FirstOf(n, s) = SubSeq(s, 1, n) /\ Len(s) \in Nat /\ \A i \in 1..n : i \in 1..Len(s)
    BY <1>2 DEF FirstOf
  <2>2. \A i \in 1..n : s[i] \in S
    BY <2>1
  <2>3. 1 <= n /\ n - 1 + 1 = n /\ n \in Int /\ 1 \in Int
    OBVIOUS
  <2>4. SubSeq(s, 1, n) \in Seq(S) /\ Len(SubSeq(s, 1, n)) = IF 1 <= n THEN n - 1 + 1 ELSE 0
    BY <2>2, <2>3, SubSeqProperties
  <2>5. Len(SubSeq(s, 1, n)) <= n
    BY <2>3, <2>4
  <2>. QED BY <2>1, <2>4, <2>5 DEF FirstOf
<1>. QED BY <1>1, <1>2

\* A message that is stored is as it will be stored again.
LEMMA NormalizedIs ==
    ASSUME NEW m \in Messages
    PROVE  Normalized(m) \in Messages /\ Normalized(Normalized(m)) = Normalized(m)
<1>. DEFINE x == CutText(m.text)
            t == FirstOf(ToolsCap, m.tools)
            k == FirstOf(CardsCap, m.cards)
            g == m.images \ {"data"}
            Norm == [role |-> m.role, turn |-> m.turn, text |-> x, tools |-> t, cards |-> k, images |-> g]
<1>1. /\ m = [role |-> m.role, turn |-> m.turn, text |-> m.text, tools |-> m.tools,
               cards |-> m.cards, images |-> m.images]
      /\ m.role \in {"user", "assistant"} /\ m.turn \in Turns /\ m.text \in Nat
      /\ m.tools \in Seq([name : ToolNames, status : {"start", "done"}])
      /\ m.cards \in Seq(ActionKinds) /\ m.images \in SUBSET ImageKinds
  BY DEF Messages
<1>2. ContentMax \in Nat \ {0} /\ ToolsCap \in Nat \ {0} /\ CardsCap \in Nat \ {0}
  BY PanelBounds
<1>3. x \in Nat /\ CutText(x) = x
  BY <1>1, <1>2 DEF CutText
<1>4. /\ t \in Seq([name : ToolNames, status : {"start", "done"}]) /\ FirstOf(ToolsCap, t) = t
      /\ k \in Seq(ActionKinds) /\ FirstOf(CardsCap, k) = k
  BY <1>1, <1>2, FirstOfIs
<1>5. g \in SUBSET ImageKinds /\ g \ {"data"} = g
  BY <1>1
<1>6. Normalized(m) = Norm
  BY <1>1 DEF Normalized
<1>. HIDE DEF x, t, k, g
<1>7. Norm \in Messages
  BY <1>1, <1>3, <1>4, <1>5 DEF Messages
<1>8. Normalized(Norm) = Norm
  BY <1>3, <1>4, <1>5 DEF Normalized
<1>. QED BY <1>6, <1>7, <1>8

\* Messages as they are stored.
NormalMessages == {s \in Seq(Messages) : \A i \in DOMAIN s : Normalized(s[i]) = s[i]}

\* What saveMessages stores is normal, and a question added to it, or to what
\* is normal, is as if all had been saved together.
LEMMA SavedIs ==
    ASSUME NEW s \in Seq(Messages), NEW q \in Messages
    PROVE  /\ Saved(s) \in NormalMessages
           /\ SavedWith(Saved(s), q) = Saved(Append(s, q))
           /\ s \in NormalMessages => SavedWith(s, q) = Saved(Append(s, q))
<1>. DEFINE n == MessageCap
            L == Len(s)
            N == [i \in DOMAIN s |-> Normalized(s[i])]
            p == Normalized(q)
            y == Append(s, q)
            M == [i \in DOMAIN y |-> Normalized(y[i])]
            w == LastOf(n, N)
<1>1. n \in Nat \ {0}
  BY PanelBounds
<1>2. p \in Messages /\ \A m \in Messages : Normalized(m) \in Messages /\ Normalized(Normalized(m)) = Normalized(m)
  BY NormalizedIs
<1>3. DOMAIN s = 1..L /\ L \in Nat /\ \A i \in 1..L : s[i] \in Messages
  OBVIOUS
<1>4. /\ y \in Seq(Messages) /\ Len(y) = L + 1 /\ DOMAIN y = 1..(L + 1) /\ y[L + 1] = q
      /\ \A i \in 1..L : y[i] = s[i]
  BY PushIs
<1>5. Saved(s) = w /\ Saved(y) = LastOf(n, M)
  BY DEF Saved
<1>6. SavedWith(Saved(s), q) = LastOf(n, Append(w, p)) /\ SavedWith(s, q) = LastOf(n, Append(s, p))
  BY <1>5 DEF SavedWith
<1>. HIDE DEF n, y, p, L
<1>7. N = [i \in 1..L |-> Normalized(s[i])] /\ \A i \in 1..L : Normalized(s[i]) \in Messages
  BY <1>2, <1>3
<1>8. N \in Seq(Messages) /\ Len(N) = L /\ \A i \in 1..L : N[i] = Normalized(s[i])
  <2>1. [i \in 1..L |-> Normalized(s[i])] \in Seq(Messages)
    BY <1>3, <1>7, IsASeq
  <2>. QED BY <1>3, <1>7, <2>1
<1>9. M = [i \in 1..(L + 1) |-> Normalized(y[i])] /\ \A i \in 1..(L + 1) : Normalized(y[i]) \in Messages
  <2>1. \A i \in 1..(L + 1) : y[i] \in Messages
    <3>1. \A i \in 1..Len(y) : y[i] \in Messages
      BY <1>4
    <3>. QED BY <1>4, <3>1
  <2>. QED BY <1>2, <1>4, <2>1
<1>10. M \in Seq(Messages) /\ Len(M) = L + 1 /\ \A i \in 1..(L + 1) : M[i] = Normalized(y[i])
  <2>1. [i \in 1..(L + 1) |-> Normalized(y[i])] \in Seq(Messages) /\ L + 1 \in Nat
    BY <1>3, <1>9, IsASeq
  <2>. QED BY <1>3, <1>9, <2>1
<1>. HIDE DEF N, M
<1>11. Append(N, p) = M
  <2>1. /\ Append(N, p) \in Seq(Messages) /\ Len(Append(N, p)) = L + 1 /\ Append(N, p)[L + 1] = p
        /\ \A i \in 1..L : Append(N, p)[i] = N[i]
    BY <1>2, <1>8, PushIs
  <2>2. ASSUME NEW i \in 1..(L + 1) PROVE Append(N, p)[i] = M[i]
    <3>1. CASE i = L + 1
      BY <1>4, <1>10, <2>1, <3>1 DEF p
    <3>2. CASE i # L + 1
      <4>1. i \in 1..L
        BY <1>3, <3>2
      <4>. QED BY <1>4, <1>8, <1>10, <2>1, <4>1
    <3>. QED BY <3>1, <3>2
  <2>. QED BY <1>10, <2>1, <2>2, SeqEqual
<1>12. SavedWith(Saved(s), q) = Saved(y)
  <2>1. LastOf(n, Append(w, p)) = LastOf(n, Append(N, p))
    BY <1>2, <1>8, CutOnce DEF n
  <2>. QED BY <1>5, <1>6, <1>11, <2>1
<1>13. s \in NormalMessages => SavedWith(s, q) = Saved(y)
  <2>. SUFFICES ASSUME s \in NormalMessages PROVE SavedWith(s, q) = Saved(y)
    OBVIOUS
  <2>1. N = s
    BY <1>3, <1>8, SeqEqual DEF NormalMessages, L
  <2>. QED BY <1>5, <1>6, <1>11, <2>1
<1>14. w \in NormalMessages
  <2>1. /\ w \in Seq(Messages) /\ Len(w) = (IF L <= n THEN L ELSE n)
        /\ \A i \in 1..Len(w) : w[i] = N[L - Len(w) + i]
    BY <1>1, <1>8, LastOfIs
  <2>. HIDE DEF w
  <2>2. ASSUME NEW i \in 1..Len(w) PROVE Normalized(w[i]) = w[i]
    <3>1. L - Len(w) + i \in 1..L
      BY <1>1, <1>3, <2>1
    <3>. QED BY <1>2, <1>3, <1>8, <2>1, <3>1
  <2>. QED BY <2>1, <2>2 DEF NormalMessages
<1>. QED BY <1>5, <1>12, <1>13, <1>14 DEF y

LEMMA UpToQuestionIs ==
    ASSUME NEW s \in Seq(Messages)
    PROVE  UpToQuestion(s) \in Seq(Messages)
<1>. DEFINE q == QuestionAt(s)
<1>1. q \in 0..Len(s) /\ Len(s) \in Nat /\ UpToQuestion(s) = SubSeq(s, 1, q)
  BY LatestQuestionIs DEF Latest
<1>. HIDE DEF q
<1>2. \A i \in 1..q : s[i] \in Messages
  <2>1. \A i \in 1..q : i \in 1..Len(s)
    BY <1>1
  <2>. QED BY <2>1
<1>3. q \in Int /\ 1 \in Int
  BY <1>1
<1>4. SubSeq(s, 1, q) \in Seq(Messages)
  BY <1>2, <1>3, SubSeqProperties
<1>. QED BY <1>1, <1>4

\* With the question just asked, everything is up to it, and no tool runs after it.
LEMMA AskedIs ==
    ASSUME NEW s \in Seq(Messages), NEW q \in Messages, q.role = "user"
    PROVE  /\ Append(s, q) \in Seq(Messages)
           /\ UpToQuestion(Append(s, q)) = Append(s, q)
           /\ \A name : Running(Append(s, q), name) = {}
<1>. DEFINE t == Append(s, q)
            n == Len(s) + 1
<1>1. /\ t \in Seq(Messages) /\ Len(t) = n /\ DOMAIN t = 1..n /\ t[n] = q /\ Len(s) \in Nat
  BY PushIs
<1>. HIDE DEF t
<1>2. n \in 1..n /\ n \in 0..n /\ \A i \in 1..n : ~(i > n)
  BY <1>1
<1>. HIDE DEF n
<1>3. Latest(t, n)
  BY <1>1, <1>2 DEF Latest
<1>4. QuestionAt(t) = n /\ UpToQuestion(t) = SubSeq(t, 1, n)
  BY <1>1, <1>3, LatestQuestionIs
<1>5. SubSeq(t, 1, n) = t
  BY <1>1, SubSeqFull
<1>6. \A name : Running(t, name) = {}
  BY <1>1, <1>2, <1>4 DEF Running
<1>. QED BY <1>1, <1>4, <1>5, <1>6 DEF t

-----------------------------------------------------------------------------
\* The invariant of the turns

Streams ==
    [turn : Nat, streaming : BOOLEAN, messages : Seq(Messages), done : BOOLEAN,
     completion : {"none", "done", "stopped"}, fatal : BOOLEAN, tool : ToolNames \cup {"none"}]

PanelShape ==
    /\ opened \in BOOLEAN
    /\ turns \in 0..MaxQuestions
    /\ entry \in Streams
    /\ stored \in NormalMessages
    /\ run \in [Turns -> {"none", "open", "answered", "ended"}]
    /\ abort \in [Turns -> Reasons]
    /\ due \in [Turns -> [ToolNames -> Nat]]

\* Turns are begun in order; what has not begun has nothing under way.
TurnsInOrder ==
    /\ entry.turn <= turns
    /\ entry.turn = 0 => ~entry.streaming
    /\ \A c \in Turns : run[c] = "none" <=> c > turns
    /\ \A c \in Turns, name \in ToolNames : c > turns => due[c][name] = 0

\* Every report that the current turn still owes settles a tool of its answer.
ReportsHaveTools ==
    entry.turn # 0 =>
        \A name \in ToolNames : due[entry.turn][name] <= Cardinality(Running(entry.messages, name))

PanelInv ==
    /\ PanelShape /\ TurnsInOrder /\ ReportsHaveTools
    /\ TurnStateIsItsOwn /\ StoredFollowsShown

\* What a step does to the current turn's messages leaves its question, and
\* all before it.
QuestionsStay ==
    entry'.turn = entry.turn /\ entry.turn # 0 =>
        UpToQuestion(entry'.messages) = UpToQuestion(entry.messages)

LEMMA RunningFinite ==
    ASSUME NEW s \in Seq(Messages), NEW name
    PROVE  IsFiniteSet(Running(s, name)) /\ Cardinality(Running(s, name)) \in Nat
<1>1. Running(s, name) \subseteq 1..Len(s) /\ Len(s) \in Nat
  BY DEF Running
<1>2. IsFiniteSet(1..Len(s))
  BY <1>1, FS_Interval
<1>3. IsFiniteSet(Running(s, name))
  BY <1>1, <1>2, FS_Subset
<1>. QED BY <1>3, FS_CardinalityType

LEMMA TurnIs ==
    ASSUME PanelShape, TurnsInOrder
    PROVE  /\ entry.turn \in Nat /\ (entry.turn # 0 => entry.turn \in Turns)
           /\ entry.messages \in Seq(Messages) /\ entry.streaming \in BOOLEAN
           /\ turns \in Nat /\ \A c \in Turns : c # 0 /\ c \in Nat
<1>1. /\ entry.turn \in Nat
      /\ entry.messages \in Seq(Messages) /\ entry.streaming \in BOOLEAN
  BY DEF PanelShape, Streams
<1>2. MaxQuestions \in Nat
  BY PanelBounds
<1>3. turns \in 0..MaxQuestions /\ entry.turn <= turns
  BY DEF PanelShape, TurnsInOrder
<1>4. entry.turn # 0 => entry.turn \in Turns
  BY <1>1, <1>2, <1>3 DEF Turns
<1>5. turns \in Nat /\ \A c \in Turns : c # 0 /\ c \in Nat
  BY <1>2, <1>3 DEF Turns
<1>. QED BY <1>1, <1>4, <1>5

\* Nothing happens to the turns but an abort, an error or a closing panel.
LEMMA QuietKeeps ==
    ASSUME PanelInv, opened' \in BOOLEAN, opened' => opened,
           UNCHANGED <<turns, stored, run, due>>,
           entry' \in Streams, entry'.turn = entry.turn, entry'.streaming = entry.streaming,
           entry'.messages = entry.messages, entry'.completion = entry.completion,
           abort' \in [Turns -> Reasons], \A c \in Turns : abort[c] # "no" => abort'[c] # "no"
    PROVE  PanelInv' /\ QuestionsStay
<1>1. PanelShape'
  BY DEF PanelInv, PanelShape
<1>2. TurnsInOrder' /\ ReportsHaveTools'
  BY DEF PanelInv, TurnsInOrder, ReportsHaveTools
<1>3. Begun' = Begun
  BY DEF Begun
<1>4. TurnStateIsItsOwn'
  BY <1>3, TurnIs DEF PanelInv, TurnStateIsItsOwn
<1>5. StoredFollowsShown'
  BY DEF PanelInv, StoredFollowsShown
<1>. QED BY <1>1, <1>2, <1>4, <1>5 DEF PanelInv, QuestionsStay

\* The stream is gone.
LEMMA GoneKeeps ==
    ASSUME PanelInv, opened' \in BOOLEAN, UNCHANGED <<turns, run, due>>, entry' = NoStream,
           stored' \in NormalMessages, abort' \in [Turns -> Reasons]
    PROVE  PanelInv' /\ QuestionsStay
<1>1. /\ entry' \in Streams /\ entry'.turn = 0 /\ ~entry'.streaming
  <2>1. <<>> \in Seq(Messages)
    OBVIOUS
  <2>. QED BY <2>1 DEF NoStream, Streams
<1>2. PanelShape'
  BY <1>1 DEF PanelInv, PanelShape
<1>3. TurnsInOrder'
  <2>1. 0 <= turns
    BY TurnIs DEF PanelInv
  <2>. QED BY <1>1, <2>1 DEF PanelInv, TurnsInOrder
<1>4. ReportsHaveTools' /\ TurnStateIsItsOwn' /\ StoredFollowsShown'
  BY <1>1 DEF ReportsHaveTools, TurnStateIsItsOwn, StoredFollowsShown
<1>5. QuestionsStay
  BY <1>1 DEF QuestionsStay
<1>. QED BY <1>2, <1>3, <1>4, <1>5 DEF PanelInv

\* An event of a turn's run is read.
LEMMA EventKeeps ==
    ASSUME PanelInv, NEW c \in Turns, Reads(c),
           entry' \in Streams, entry'.turn = entry.turn, entry'.streaming = entry.streaming,
           entry'.completion = "stopped" => entry.completion = "stopped",
           \/ entry'.messages = entry.messages
           \/ entry.turn = c /\ UpToQuestion(entry'.messages) = UpToQuestion(entry.messages),
           run' = run \/ run' = [run EXCEPT ![c] = "answered"],
           due' \in [Turns -> [ToolNames -> Nat]],
           \A d \in Turns, name \in ToolNames : d # c => due'[d][name] = due[d][name],
           ReportsHaveTools'
    PROVE  PanelInv' /\ QuestionsStay
<1>1. /\ opened /\ run[c] = "open" /\ UNCHANGED <<opened, stored, abort, turns>>
  BY DEF Reads
<1>2. run \in [Turns -> {"none", "open", "answered", "ended"}] /\ ~(c > turns)
  BY <1>1 DEF PanelInv, PanelShape, TurnsInOrder
<1>3. PanelShape'
  BY <1>1, <1>2 DEF PanelInv, PanelShape
<1>4. \A d \in Turns : run'[d] = run[d] \/ (d = c /\ run'[d] = "answered")
  <2>1. CASE run' = run
    BY <2>1
  <2>2. CASE run' = [run EXCEPT ![c] = "answered"]
    BY <1>2, <2>2
  <2>. QED BY <2>1, <2>2
<1>5. TurnsInOrder'
  BY <1>1, <1>2, <1>4 DEF PanelInv, TurnsInOrder
<1>6. Begun' = Begun /\ c \in Begun
  BY <1>1, <1>4 DEF Begun
<1>7. TurnStateIsItsOwn'
  BY <1>1, <1>4, <1>6, TurnIs DEF PanelInv, TurnStateIsItsOwn
<1>8. entry.turn = c => entry.streaming
  BY <1>6, TurnIs DEF PanelInv, TurnStateIsItsOwn
<1>9. QuestionsStay
  BY DEF QuestionsStay
<1>10. StoredFollowsShown'
  BY <1>1, <1>8 DEF PanelInv, StoredFollowsShown
<1>. QED BY <1>3, <1>5, <1>7, <1>9, <1>10 DEF PanelInv

-----------------------------------------------------------------------------
\* The steps

\* No turn's messages are shown in the new one's place before it is asked.
LEMMA SendKeeps ==
    ASSUME PanelInv, Send
    PROVE  PanelInv' /\ QuestionsStay
<1>. DEFINE c == turns + 1
            kept == IF entry.streaming THEN UpToQuestion(Shown) ELSE Shown
            q == Question(c)
            asked == Append(kept, q)
<1>1. /\ opened /\ turns < MaxQuestions /\ turns' = c /\ UNCHANGED <<opened, due>>
      /\ abort' = IF entry.streaming THEN Aborted("dropped") ELSE abort
      /\ stored' = SavedWith(IF entry.streaming THEN Saved(kept) ELSE stored, q)
      /\ entry' = Started(c, asked)
      /\ run' = [run EXCEPT ![c] = "open"]
  BY DEF Send
<1>2. PanelShape /\ TurnsInOrder /\ ReportsHaveTools /\ TurnStateIsItsOwn /\ StoredFollowsShown
  BY DEF PanelInv
<1>3. /\ entry.turn \in Nat /\ (entry.turn # 0 => entry.turn \in Turns)
      /\ entry.messages \in Seq(Messages) /\ entry.streaming \in BOOLEAN
      /\ turns \in Nat /\ \A d \in Turns : d # 0 /\ d \in Nat
  BY <1>2, TurnIs
<1>4. c \in Turns /\ turns' \in 0..MaxQuestions
  BY <1>1, <1>3, PanelBounds DEF Turns
<1>5. q \in Messages /\ q.role = "user"
  <2>. DEFINE fresh == AgentMessage("user", c)
  <2>1. fresh \in Messages /\ fresh.role = "user" /\ q = [fresh EXCEPT !.text = 1]
    BY <1>4, FreshIs DEF Question
  <2>. HIDE DEF fresh, q
  <2>. QED BY <2>1 DEF Messages
<1>6. Shown \in Seq(Messages) /\ stored \in NormalMessages /\ stored \in Seq(Messages)
  BY <1>2, <1>3 DEF Shown, PanelShape, NormalMessages
<1>7. kept \in Seq(Messages)
  BY <1>6, UpToQuestionIs
<1>8. stored' = Saved(asked)
  <2>1. CASE entry.streaming
    BY <1>1, <1>5, <1>7, <2>1, SavedIs
  <2>2. CASE ~entry.streaming /\ entry.turn = 0
    BY <1>1, <1>5, <1>6, <2>2, SavedIs DEF Shown
  <2>3. CASE ~entry.streaming /\ entry.turn # 0
    <3>1. stored = Saved(entry.messages) /\ kept = entry.messages
      BY <1>1, <1>2, <2>3 DEF StoredFollowsShown, Shown
    <3>. QED BY <1>1, <1>3, <1>5, <2>3, <3>1, SavedIs
  <2>. QED BY <2>1, <2>2, <2>3
<1>. HIDE DEF kept, q
<1>9. /\ asked \in Seq(Messages) /\ UpToQuestion(asked) = asked
      /\ \A name : Running(asked, name) = {}
  BY <1>5, <1>7, AskedIs
<1>10. stored' \in NormalMessages
  BY <1>8, <1>9, <1>5, SavedIs
<1>. HIDE DEF asked
<1>11. /\ entry' \in Streams /\ entry'.turn = c /\ entry'.streaming
       /\ entry'.messages = asked /\ entry'.completion = "none"
  <2>1. entry' = [turn |-> c, streaming |-> TRUE, messages |-> asked, done |-> FALSE,
                  completion |-> "none", fatal |-> FALSE, tool |-> "none"]
    BY <1>1 DEF Started, NoStream
  <2>. QED BY <1>3, <1>9, <2>1 DEF Streams
<1>12. abort' \in [Turns -> Reasons]
  BY <1>1, <1>2, <1>3 DEF Aborted, PanelShape, Reasons
<1>13. PanelShape'
  BY <1>1, <1>2, <1>4, <1>10, <1>11, <1>12 DEF PanelShape
<1>14. \A d \in Turns : run'[d] = IF d = c THEN "open" ELSE run[d]
  BY <1>1, <1>2 DEF PanelShape
<1>15. TurnsInOrder'
  <2>1. \A d \in Turns : d > c => d > turns
    BY <1>3
  <2>2. \A d \in Turns : d # c => (d > c <=> d > turns)
    BY <1>3
  <2>3. ~(c > c) /\ c <= c
    BY <1>3
  <2>4. \A d \in Turns : run'[d] = "none" <=> d > c
    BY <1>2, <1>14, <2>2, <2>3 DEF TurnsInOrder
  <2>5. \A d \in Turns, name \in ToolNames : d > c => due'[d][name] = 0
    BY <1>1, <1>2, <2>1 DEF TurnsInOrder
  <2>6. entry'.turn <= turns' /\ entry'.turn # 0
    BY <1>1, <1>4, <1>3, <1>11, <2>3
  <2>. QED BY <1>1, <2>4, <2>5, <2>6 DEF TurnsInOrder
<1>16. ReportsHaveTools'
  <2>1. \A name \in ToolNames : due[c][name] = 0
    BY <1>2, <1>3, <1>4 DEF TurnsInOrder
  <2>2. \A name \in ToolNames : Cardinality(Running(entry'.messages, name)) = 0
    BY <1>9, <1>11, FS_EmptySet
  <2>. QED BY <1>1, <1>11, <2>1, <2>2 DEF ReportsHaveTools
<1>17. TurnStateIsItsOwn'
  BY <1>4, <1>11, <1>14 DEF TurnStateIsItsOwn, Begun
<1>18. StoredFollowsShown'
  BY <1>8, <1>9, <1>11 DEF StoredFollowsShown
<1>19. QuestionsStay
  <2>1. c # entry.turn
    BY <1>2, <1>3 DEF TurnsInOrder
  <2>. QED BY <1>11, <2>1 DEF QuestionsStay
<1>. QED BY <1>13, <1>15, <1>16, <1>17, <1>18, <1>19 DEF PanelInv

LEMMA AbortedIs ==
    ASSUME PanelShape, NEW reason \in Reasons \ {"no"}
    PROVE  /\ Aborted(reason) \in [Turns -> Reasons]
           /\ \A c \in Turns : abort[c] # "no" => Aborted(reason)[c] # "no"
<1>1. abort \in [Turns -> Reasons] /\ reason \in Reasons /\ reason # "no"
  BY DEF PanelShape
<1>2. CASE entry.turn = 0
  BY <1>1, <1>2 DEF Aborted
<1>3. CASE entry.turn # 0
  <2>1. Aborted(reason) = [abort EXCEPT ![entry.turn] = reason]
    BY <1>3 DEF Aborted
  <2>. QED BY <1>1, <2>1
<1>. QED BY <1>2, <1>3

LEMMA FatalIs ==
    ASSUME NEW e \in Streams
    PROVE  /\ Fatal(e) \in Streams /\ Fatal(e).turn = e.turn /\ Fatal(e).streaming = e.streaming
           /\ Fatal(e).messages = e.messages /\ Fatal(e).completion = e.completion
BY DEF Fatal, Streams

LEMMA FinishedIs ==
    ASSUME NEW e \in Streams, NEW c \in Turns
    PROVE  /\ Finished(e, c) \in Streams /\ Finished(e, c).turn = e.turn
           /\ Finished(e, c).messages = e.messages
           /\ e.turn # c => Finished(e, c) = e
           /\ e.turn = c => /\ ~Finished(e, c).streaming
                            /\ Finished(e, c).completion = "stopped" => abort[c] # "no"
BY DEF Finished, Streams

\* What the panel does beside the runs.
LEMMA PanelKeeps ==
    ASSUME PanelInv,
           Stop \/ Undo \/ ClearScreen \/ Close \/ Open \/ MapSteps \/ UNCHANGED panelVars
           \/ \E kind \in ActionKinds : Replay(kind)
    PROVE  PanelInv' /\ QuestionsStay
<1>1. /\ PanelShape /\ entry \in Streams /\ opened \in BOOLEAN /\ abort \in [Turns -> Reasons]
      /\ stored \in NormalMessages
  BY DEF PanelInv, PanelShape
<1>2. ASSUME UNCHANGED panel PROVE PanelInv' /\ QuestionsStay
  BY <1>1, <1>2, QuietKeeps DEF panel
<1>3. CASE Stop
  <2>1. "stopped" \in Reasons \ {"no"}
    BY DEF Reasons
  <2>2. abort' = Aborted("stopped") /\ UNCHANGED <<opened, entry, stored, run, due, turns>>
    BY <1>3 DEF Stop
  <2>3. abort' \in [Turns -> Reasons] /\ \A c \in Turns : abort[c] # "no" => abort'[c] # "no"
    BY <1>1, <2>1, <2>2, AbortedIs
  <2>. QED BY <1>1, <2>2, <2>3, QuietKeeps
<1>4. CASE Undo
  BY <1>2, <1>4 DEF Undo
<1>5. CASE ClearScreen
  <2>1. "dropped" \in Reasons \ {"no"}
    BY DEF Reasons
  <2>2. /\ abort' = IF session THEN Aborted("dropped") ELSE abort
        /\ entry' = NoStream /\ stored' = <<>> /\ UNCHANGED <<opened, run, due, turns>>
    BY <1>5 DEF ClearScreen
  <2>3. abort' \in [Turns -> Reasons]
    BY <1>1, <2>1, <2>2, AbortedIs
  <2>4. stored' \in NormalMessages
    BY <2>2 DEF NormalMessages
  <2>. QED BY <1>1, <2>2, <2>3, <2>4, GoneKeeps
<1>6. CASE Close
  <2>1. "closed" \in Reasons \ {"no"}
    BY DEF Reasons
  <2>2. abort' = Aborted("closed") /\ opened' = FALSE /\ UNCHANGED <<entry, stored, run, due, turns>>
    BY <1>6 DEF Close
  <2>3. abort' \in [Turns -> Reasons] /\ \A c \in Turns : abort[c] # "no" => abort'[c] # "no"
    BY <1>1, <2>1, <2>2, AbortedIs
  <2>. QED BY <1>1, <2>2, <2>3, QuietKeeps
<1>7. CASE Open
  <2>1. opened' = TRUE /\ entry' = NoStream /\ UNCHANGED <<stored, run, abort, due, turns>>
    BY <1>7 DEF Open
  <2>. QED BY <1>1, <2>1, GoneKeeps
<1>8. CASE MapSteps
  BY <1>2, <1>8 DEF MapSteps
<1>9. CASE UNCHANGED panelVars
  BY <1>2, <1>9 DEF panelVars
<1>10. ASSUME NEW kind \in ActionKinds, Replay(kind) PROVE PanelInv' /\ QuestionsStay
  <2>1. \/ UNCHANGED panel
        \/ entry' = NotReady(entry) /\ UNCHANGED <<opened, stored, run, abort, due, turns>>
    BY <1>10 DEF Replay
  <2>2. ASSUME entry' = NotReady(entry), UNCHANGED <<opened, stored, run, abort, due, turns>>
        PROVE  PanelInv' /\ QuestionsStay
    <3>1. /\ entry' \in Streams /\ entry'.turn = entry.turn /\ entry'.streaming = entry.streaming
          /\ entry'.messages = entry.messages /\ entry'.completion = entry.completion
      BY <1>1, <2>2, FatalIs DEF NotReady
    <3>. QED BY <1>1, <2>2, <3>1, QuietKeeps
  <2>. QED BY <1>2, <2>1, <2>2
<1>. QED BY <1>3, <1>4, <1>5, <1>6, <1>7, <1>8, <1>9, <1>10

\* A run is over.
LEMMA EndKeeps ==
    ASSUME PanelInv, NEW c \in Turns, NEW failed \in BOOLEAN, RunEnds(c, failed)
    PROVE  PanelInv' /\ QuestionsStay
<1>. DEFINE before == IF failed /\ IsCurrent(c) THEN Fatal(entry) ELSE entry
            e == Finished(before, c)
<1>1. /\ c \in Begun /\ run' = [run EXCEPT ![c] = "ended"] /\ entry' = e
      /\ \/ stored' = IF IsCurrent(c) THEN Saved(e.messages) ELSE stored
         \/ ~opened /\ stored' = stored
      /\ UNCHANGED <<opened, abort, due, turns>>
  BY DEF RunEnds
<1>2. /\ PanelShape /\ TurnsInOrder /\ ReportsHaveTools /\ TurnStateIsItsOwn /\ StoredFollowsShown
      /\ entry \in Streams /\ run \in [Turns -> {"none", "open", "answered", "ended"}]
      /\ stored \in NormalMessages
  BY DEF PanelInv, PanelShape
<1>3. /\ before \in Streams /\ before.turn = entry.turn /\ before.messages = entry.messages
      /\ before.streaming = entry.streaming /\ before.completion = entry.completion
  BY <1>2, FatalIs
<1>. HIDE DEF before
<1>4. /\ e \in Streams /\ e.turn = entry.turn /\ e.messages = entry.messages
      /\ before.turn # c => e = before
      /\ before.turn = c => ~e.streaming /\ (e.completion = "stopped" => abort[c] # "no")
  BY <1>3, FinishedIs
<1>. HIDE DEF e
<1>5. /\ entry.turn \in Nat /\ (entry.turn # 0 => entry.turn \in Turns)
      /\ entry.messages \in Seq(Messages) /\ entry.streaming \in BOOLEAN
      /\ turns \in Nat /\ \A d \in Turns : d # 0 /\ d \in Nat
  BY <1>2, TurnIs
<1>6. \A d \in Turns : run'[d] = IF d = c THEN "ended" ELSE run[d]
  BY <1>1, <1>2
<1>7. stored' \in NormalMessages
  <2>1. AgentMessage("user", c) \in Messages
    BY FreshIs
  <2>2. Saved(entry.messages) \in NormalMessages
    BY <1>5, <2>1, SavedIs
  <2>. QED BY <1>1, <1>2, <1>4, <2>2
<1>8. PanelShape'
  BY <1>1, <1>2, <1>4, <1>7 DEF PanelShape
<1>9. ~(c > turns) /\ run[c] # "none"
  BY <1>1, <1>2 DEF Begun, TurnsInOrder
<1>10. TurnsInOrder'
  <2>1. \A d \in Turns : run'[d] = "none" <=> d > turns
    BY <1>2, <1>6, <1>9 DEF TurnsInOrder
  <2>2. entry'.turn = 0 => ~entry'.streaming
    BY <1>1, <1>2, <1>3, <1>4, <1>5 DEF TurnsInOrder
  <2>. QED BY <1>1, <1>2, <1>4, <2>1, <2>2 DEF TurnsInOrder
<1>11. ReportsHaveTools'
  BY <1>1, <1>2, <1>4 DEF ReportsHaveTools
<1>12. CASE entry.turn = c
  <2>1. ~entry'.streaming /\ (entry'.completion = "stopped" => abort[c] # "no")
        /\ entry'.turn = c
    BY <1>1, <1>3, <1>4, <1>12
  <2>2. run'[c] = "ended" /\ c \notin Begun'
    BY <1>6 DEF Begun
  <2>3. TurnStateIsItsOwn'
    BY <1>1, <2>1, <2>2 DEF TurnStateIsItsOwn
  <2>4. StoredFollowsShown'
    BY <1>1, <1>4, <1>12, <2>1 DEF StoredFollowsShown, IsCurrent
  <2>5. QuestionsStay
    BY <1>1, <1>4 DEF QuestionsStay
  <2>. QED BY <1>8, <1>10, <1>11, <2>3, <2>4, <2>5 DEF PanelInv
<1>13. CASE entry.turn # c
  <2>1. /\ entry'.turn = entry.turn /\ entry'.messages = entry.messages
        /\ entry'.streaming = entry.streaming /\ entry'.completion = entry.completion
    BY <1>1, <1>3, <1>4, <1>13
  <2>2. \A d \in Turns : d # c => (run'[d] = run[d] /\ (d \in Begun' <=> d \in Begun))
    BY <1>6 DEF Begun
  <2>3. TurnStateIsItsOwn'
    BY <1>1, <1>2, <1>5, <1>13, <2>1, <2>2 DEF TurnStateIsItsOwn
  <2>4. StoredFollowsShown'
    BY <1>1, <1>2, <1>13, <2>1 DEF StoredFollowsShown, IsCurrent
  <2>5. QuestionsStay
    BY <2>1 DEF QuestionsStay
  <2>. QED BY <1>8, <1>10, <1>11, <2>3, <2>4, <2>5 DEF PanelInv
<1>. QED BY <1>12, <1>13

\* What an event makes of the stream of its own turn.
LEMMA EntryIs ==
    ASSUME NEW e \in Streams, NEW messages \in Seq(Messages), NEW f, f = [e EXCEPT !.messages = messages]
    PROVE  /\ f \in Streams /\ f.turn = e.turn /\ f.streaming = e.streaming
           /\ f.completion = e.completion /\ f.messages = messages
BY DEF Streams

LEMMA DeltaKeeps ==
    ASSUME PanelInv, NEW c \in Turns, Delta(c)
    PROVE  PanelInv' /\ QuestionsStay
<1>1. /\ Reads(c) /\ UNCHANGED <<run, due>>
      /\ entry' = IF entry.turn = c
                  THEN [entry EXCEPT !.messages = AfterDelta(c, entry.messages)] ELSE entry
  BY DEF Delta, IsCurrent
<1>2. /\ PanelShape /\ TurnsInOrder /\ ReportsHaveTools
      /\ entry \in Streams /\ due \in [Turns -> [ToolNames -> Nat]]
  BY DEF PanelInv, PanelShape
<1>3. entry.messages \in Seq(Messages)
  BY <1>2, TurnIs
<1>4. CASE entry.turn # c
  <2>1. entry' = entry
    BY <1>1, <1>4
  <2>2. ReportsHaveTools'
    BY <1>1, <1>2, <2>1 DEF ReportsHaveTools
  <2>. QED BY <1>1, <1>2, <2>1, <2>2, EventKeeps
<1>5. CASE entry.turn = c
  <2>. DEFINE t == AfterDelta(c, entry.messages)
  <2>1. /\ t \in Seq(Messages) /\ UpToQuestion(t) = UpToQuestion(entry.messages)
        /\ \A name : Running(t, name) = Running(entry.messages, name)
    BY <1>3, DeltaIs
  <2>. HIDE DEF t
  <2>2. entry' = [entry EXCEPT !.messages = t]
    BY <1>1, <1>5 DEF t
  <2>3. /\ entry' \in Streams /\ entry'.turn = entry.turn /\ entry'.streaming = entry.streaming
        /\ entry'.completion = entry.completion /\ entry'.messages = t
    BY <1>2, <2>1, <2>2, EntryIs
  <2>4. ReportsHaveTools'
    BY <1>1, <1>2, <2>1, <2>3 DEF ReportsHaveTools
  <2>. QED BY <1>1, <1>2, <1>5, <2>1, <2>3, <2>4, EventKeeps
<1>. QED BY <1>4, <1>5

LEMMA ImagesKeep ==
    ASSUME PanelInv, NEW c \in Turns, NEW kind \in ImageKinds, Images(c, kind)
    PROVE  PanelInv' /\ QuestionsStay
<1>1. /\ Reads(c) /\ UNCHANGED <<run, due>>
      /\ entry' = IF entry.turn = c
                  THEN [entry EXCEPT !.messages = AfterImages(c, entry.messages, kind)] ELSE entry
  BY DEF Images, IsCurrent
<1>2. /\ PanelShape /\ TurnsInOrder /\ ReportsHaveTools
      /\ entry \in Streams /\ due \in [Turns -> [ToolNames -> Nat]]
  BY DEF PanelInv, PanelShape
<1>3. entry.messages \in Seq(Messages)
  BY <1>2, TurnIs
<1>4. CASE entry.turn # c
  <2>1. entry' = entry
    BY <1>1, <1>4
  <2>2. ReportsHaveTools'
    BY <1>1, <1>2, <2>1 DEF ReportsHaveTools
  <2>. QED BY <1>1, <1>2, <2>1, <2>2, EventKeeps
<1>5. CASE entry.turn = c
  <2>. DEFINE t == AfterImages(c, entry.messages, kind)
  <2>1. /\ t \in Seq(Messages) /\ UpToQuestion(t) = UpToQuestion(entry.messages)
        /\ \A name : Running(t, name) = Running(entry.messages, name)
    BY <1>3, ImagesAre
  <2>. HIDE DEF t
  <2>2. entry' = [entry EXCEPT !.messages = t]
    BY <1>1, <1>5 DEF t
  <2>3. /\ entry' \in Streams /\ entry'.turn = entry.turn /\ entry'.streaming = entry.streaming
        /\ entry'.completion = entry.completion /\ entry'.messages = t
    BY <1>2, <2>1, <2>2, EntryIs
  <2>4. ReportsHaveTools'
    BY <1>1, <1>2, <2>1, <2>3 DEF ReportsHaveTools
  <2>. QED BY <1>1, <1>2, <1>5, <2>1, <2>3, <2>4, EventKeeps
<1>. QED BY <1>4, <1>5

LEMMA ToolStartKeeps ==
    ASSUME PanelInv, NEW c \in Turns, NEW name \in ToolNames, ToolStart(c, name)
    PROVE  PanelInv' /\ QuestionsStay
<1>1. /\ Reads(c) /\ UNCHANGED run
      /\ due' = [due EXCEPT ![c][name] = @ + 1]
      /\ entry' = IF entry.turn = c
                  THEN [entry EXCEPT !.messages = AfterToolStart(c, entry.messages, name), !.tool = name]
                  ELSE entry
  BY DEF ToolStart, IsCurrent
<1>2. /\ PanelShape /\ TurnsInOrder /\ ReportsHaveTools
      /\ entry \in Streams /\ due \in [Turns -> [ToolNames -> Nat]]
  BY DEF PanelInv, PanelShape
<1>3. entry.messages \in Seq(Messages)
  BY <1>2, TurnIs
<1>4. /\ due' \in [Turns -> [ToolNames -> Nat]]
      /\ \A d \in Turns, other \in ToolNames : d # c => due'[d][other] = due[d][other]
      /\ due'[c][name] = due[c][name] + 1
      /\ \A other \in ToolNames : other # name => due'[c][other] = due[c][other]
  BY <1>1, <1>2
<1>5. CASE entry.turn # c
  <2>1. entry' = entry
    BY <1>1, <1>5
  <2>2. ReportsHaveTools'
    <3>1. entry.turn # 0 => entry.turn \in Turns
      BY <1>2, TurnIs
    <3>. QED BY <1>2, <1>4, <1>5, <2>1, <3>1 DEF ReportsHaveTools
  <2>. QED BY <1>1, <1>2, <1>4, <2>1, <2>2, EventKeeps
<1>6. CASE entry.turn = c
  <2>. DEFINE s == entry.messages
              t == AfterToolStart(c, s, name)
  <2>1. /\ t \in Seq(Messages) /\ UpToQuestion(t) = UpToQuestion(s)
        /\ \E n \in Nat : n \notin Running(s, name) /\ Running(t, name) = Running(s, name) \cup {n}
        /\ \A other : other # name => Running(t, other) = Running(s, other)
    BY <1>3, ToolStartIs
  <2>2. entry' = [entry EXCEPT !.messages = t, !.tool = name]
    BY <1>1, <1>6
  <2>. HIDE DEF t
  <2>3. /\ entry' \in Streams /\ entry'.turn = entry.turn /\ entry'.streaming = entry.streaming
        /\ entry'.completion = entry.completion /\ entry'.messages = t
    <3>1. t \in Seq(Messages) /\ name \in ToolNames \cup {"none"}
      BY <2>1
    <3>. QED BY <1>2, <2>2, <3>1 DEF Streams
  <2>4. c # 0 /\ \A other \in ToolNames : due[c][other] <= Cardinality(Running(s, other))
    BY <1>2, <1>6, TurnIs DEF ReportsHaveTools
  <2>5. Cardinality(Running(t, name)) = Cardinality(Running(s, name)) + 1
    <3>1. PICK n \in Nat : n \notin Running(s, name) /\ Running(t, name) = Running(s, name) \cup {n}
      BY <2>1
    <3>2. IsFiniteSet(Running(s, name))
      BY <1>3, RunningFinite
    <3>. QED BY <3>1, <3>2, FS_AddElement
  <2>6. due'[c][name] <= Cardinality(Running(t, name))
    <3>1. Cardinality(Running(s, name)) \in Nat /\ due[c][name] \in Nat
      BY <1>2, <1>3, RunningFinite
    <3>. QED BY <1>4, <2>4, <2>5, <3>1
  <2>7. \A other \in ToolNames : due'[c][other] <= Cardinality(Running(t, other))
    BY <1>4, <2>1, <2>4, <2>6
  <2>8. ReportsHaveTools'
    BY <1>6, <2>3, <2>7 DEF ReportsHaveTools
  <2>. QED BY <1>1, <1>2, <1>4, <1>6, <2>1, <2>3, <2>8, EventKeeps
<1>. QED BY <1>5, <1>6

LEMMA ToolDoneKeeps ==
    ASSUME PanelInv, NEW c \in Turns, NEW name \in ToolNames, ToolDone(c, name)
    PROVE  PanelInv' /\ QuestionsStay
<1>1. /\ Reads(c) /\ UNCHANGED run /\ due[c][name] > 0
      /\ due' = [due EXCEPT ![c][name] = @ - 1]
      /\ entry' = IF entry.turn = c
                  THEN [entry EXCEPT !.messages = AfterToolDone(c, entry.messages, name), !.tool = "none"]
                  ELSE entry
  BY DEF ToolDone, IsCurrent
<1>2. /\ PanelShape /\ TurnsInOrder /\ ReportsHaveTools
      /\ entry \in Streams /\ due \in [Turns -> [ToolNames -> Nat]]
  BY DEF PanelInv, PanelShape
<1>3. entry.messages \in Seq(Messages)
  BY <1>2, TurnIs
<1>4. /\ due' \in [Turns -> [ToolNames -> Nat]]
      /\ \A d \in Turns, other \in ToolNames : d # c => due'[d][other] = due[d][other]
      /\ due'[c][name] = due[c][name] - 1
      /\ \A other \in ToolNames : other # name => due'[c][other] = due[c][other]
  <2>1. due[c][name] - 1 \in Nat
    BY <1>1, <1>2
  <2>. QED BY <1>1, <1>2, <2>1
<1>5. CASE entry.turn # c
  <2>1. entry' = entry
    BY <1>1, <1>5
  <2>2. ReportsHaveTools'
    <3>1. entry.turn # 0 => entry.turn \in Turns
      BY <1>2, TurnIs
    <3>. QED BY <1>2, <1>4, <1>5, <2>1, <3>1 DEF ReportsHaveTools
  <2>. QED BY <1>1, <1>2, <1>4, <2>1, <2>2, EventKeeps
<1>6. CASE entry.turn = c
  <2>. DEFINE s == entry.messages
              t == AfterToolDone(c, s, name)
  <2>1. c # 0 /\ \A other \in ToolNames : due[c][other] <= Cardinality(Running(s, other))
    BY <1>2, <1>6, TurnIs DEF ReportsHaveTools
  <2>2. \A other : IsFiniteSet(Running(s, other)) /\ Cardinality(Running(s, other)) \in Nat
    BY <1>3, RunningFinite
  <2>3. Running(s, name) # {}
    <3>1. Cardinality(Running(s, name)) # 0
      BY <1>1, <1>2, <2>1, <2>2
    <3>. QED BY <3>1, FS_EmptySet
  <2>4. /\ t \in Seq(Messages) /\ UpToQuestion(t) = UpToQuestion(s)
        /\ \E n \in Running(s, name) : Running(s, name) \ {n} \subseteq Running(t, name)
        /\ \A other : other # name => Running(s, other) \subseteq Running(t, other)
    BY <1>3, <2>3, ToolDoneIs
  <2>5. entry' = [entry EXCEPT !.messages = t, !.tool = "none"]
    BY <1>1, <1>6
  <2>. HIDE DEF t
  <2>6. /\ entry' \in Streams /\ entry'.turn = entry.turn /\ entry'.streaming = entry.streaming
        /\ entry'.completion = entry.completion /\ entry'.messages = t
    <3>1. t \in Seq(Messages)
      BY <2>4
    <3>. QED BY <1>2, <2>5, <3>1 DEF Streams
  <2>7. \A other : IsFiniteSet(Running(t, other)) /\ Cardinality(Running(t, other)) \in Nat
    BY <2>4, RunningFinite
  <2>8. due'[c][name] <= Cardinality(Running(t, name))
    <3>1. PICK n \in Running(s, name) : Running(s, name) \ {n} \subseteq Running(t, name)
      BY <2>4
    <3>2. Cardinality(Running(s, name) \ {n}) = Cardinality(Running(s, name)) - 1
      BY <2>2, <3>1, FS_RemoveElement
    <3>3. Cardinality(Running(s, name) \ {n}) <= Cardinality(Running(t, name))
      BY <2>7, <3>1, FS_Subset
    <3>. QED BY <1>2, <1>4, <2>1, <2>2, <2>7, <3>2, <3>3
  <2>9. ASSUME NEW other \in ToolNames PROVE due'[c][other] <= Cardinality(Running(t, other))
    <3>1. CASE other = name
      BY <2>8, <3>1
    <3>2. CASE other # name
      <4>1. Cardinality(Running(s, other)) <= Cardinality(Running(t, other))
        BY <2>4, <2>7, <3>2, FS_Subset
      <4>2. due'[c][other] = due[c][other] /\ due[c][other] \in Nat
        BY <1>2, <1>4, <3>2
      <4>. QED BY <2>1, <2>2, <2>7, <4>1, <4>2
    <3>. QED BY <3>1, <3>2
  <2>10. ReportsHaveTools'
    BY <1>6, <2>6, <2>9 DEF ReportsHaveTools
  <2>. QED BY <1>1, <1>2, <1>4, <1>6, <2>4, <2>6, <2>10, EventKeeps
<1>. QED BY <1>5, <1>6

LEMMA LastEventKeeps ==
    ASSUME PanelInv, NEW c \in Turns, NEW kind \in LastEvents, LastEvent(c, kind)
    PROVE  PanelInv' /\ QuestionsStay
<1>1. /\ Reads(c) /\ UNCHANGED due /\ run' = [run EXCEPT ![c] = "answered"]
      /\ entry' = IF entry.turn # c \/ kind = "routeError" THEN entry
                  ELSE IF kind = "error" THEN Fatal(entry)
                  ELSE [entry EXCEPT !.done = TRUE, !.completion = "done", !.tool = "none"]
  BY DEF LastEvent, IsCurrent
<1>2. /\ PanelShape /\ ReportsHaveTools
      /\ entry \in Streams /\ due \in [Turns -> [ToolNames -> Nat]]
  BY DEF PanelInv, PanelShape
<1>3. /\ entry' \in Streams /\ entry'.turn = entry.turn /\ entry'.streaming = entry.streaming
      /\ entry'.messages = entry.messages
      /\ entry'.completion = "stopped" => entry.completion = "stopped"
  <2>1. CASE entry.turn # c \/ kind = "routeError"
    BY <1>1, <1>2, <2>1
  <2>2. CASE entry.turn = c /\ kind = "error"
    BY <1>1, <1>2, <2>2, FatalIs
  <2>3. CASE entry.turn = c /\ kind \notin {"error", "routeError"}
    BY <1>1, <1>2, <2>3 DEF Streams
  <2>. QED BY <2>1, <2>2, <2>3
<1>4. ReportsHaveTools'
  BY <1>1, <1>2, <1>3 DEF ReportsHaveTools
<1>. QED BY <1>1, <1>2, <1>3, <1>4, EventKeeps

LEMMA ActionKeeps ==
    ASSUME PanelInv, NEW c \in Turns, NEW kind \in ActionKinds, Action(c, kind)
    PROVE  PanelInv' /\ QuestionsStay
<1>1. /\ Reads(c) /\ UNCHANGED <<run, due>>
      /\ \/ entry.turn = c /\ entry' = [entry EXCEPT !.messages = AfterAction(c, entry.messages, kind)]
         \/ entry' = Fatal(entry)
         \/ entry' = entry
  BY DEF Action, IsCurrent
<1>2. /\ PanelShape /\ TurnsInOrder /\ ReportsHaveTools
      /\ entry \in Streams /\ due \in [Turns -> [ToolNames -> Nat]]
  BY DEF PanelInv, PanelShape
<1>3. entry.messages \in Seq(Messages)
  BY <1>2, TurnIs
<1>4. CASE entry' = Fatal(entry) \/ entry' = entry
  <2>1. /\ entry' \in Streams /\ entry'.turn = entry.turn /\ entry'.streaming = entry.streaming
        /\ entry'.completion = entry.completion /\ entry'.messages = entry.messages
    BY <1>2, <1>4, FatalIs
  <2>2. ReportsHaveTools'
    BY <1>1, <1>2, <2>1 DEF ReportsHaveTools
  <2>. QED BY <1>1, <1>2, <2>1, <2>2, EventKeeps
<1>5. CASE entry.turn = c /\ entry' = [entry EXCEPT !.messages = AfterAction(c, entry.messages, kind)]
  <2>. DEFINE t == AfterAction(c, entry.messages, kind)
  <2>1. /\ t \in Seq(Messages) /\ UpToQuestion(t) = UpToQuestion(entry.messages)
        /\ \A name : Running(t, name) = Running(entry.messages, name)
    BY <1>3, CardIs
  <2>2. entry' = [entry EXCEPT !.messages = t]
    BY <1>5
  <2>. HIDE DEF t
  <2>3. /\ entry' \in Streams /\ entry'.turn = entry.turn /\ entry'.streaming = entry.streaming
        /\ entry'.completion = entry.completion /\ entry'.messages = t
    BY <1>2, <2>1, <2>2, EntryIs
  <2>4. ReportsHaveTools'
    BY <1>1, <1>2, <2>1, <2>3 DEF ReportsHaveTools
  <2>. QED BY <1>1, <1>2, <1>5, <2>1, <2>3, <2>4, EventKeeps
<1>. QED BY <1>1, <1>4, <1>5

LEMMA InitPanel == PanelInit => PanelInv
<1>. SUFFICES ASSUME PanelInit PROVE PanelInv
  OBVIOUS
<1>1. /\ opened = TRUE /\ entry = NoStream /\ stored = <<>> /\ turns = 0
      /\ run = [c \in Turns |-> "none"] /\ abort = [c \in Turns |-> "no"]
      /\ due = [c \in Turns |-> [n \in ToolNames |-> 0]]
  BY DEF PanelInit
<1>2. entry \in Streams /\ entry.turn = 0 /\ ~entry.streaming
  <2>1. <<>> \in Seq(Messages)
    OBVIOUS
  <2>. QED BY <1>1, <2>1 DEF NoStream, Streams
<1>3. PanelShape
  BY <1>1, <1>2, PanelBounds DEF PanelShape, Reasons, NormalMessages
<1>4. TurnsInOrder
  <2>1. \A c \in Turns : c > 0
    BY PanelBounds DEF Turns
  <2>. QED BY <1>1, <1>2, <2>1 DEF TurnsInOrder
<1>. QED BY <1>2, <1>3, <1>4 DEF PanelInv, ReportsHaveTools, TurnStateIsItsOwn, StoredFollowsShown

LEMMA NextPanel == PanelInv /\ [PanelNext]_panelVars => PanelInv' /\ QuestionsStay
BY PanelKeeps, SendKeeps, DeltaKeeps, ToolStartKeeps, ToolDoneKeeps, LastEventKeeps, ImagesKeep, ActionKeeps,
   EndKeeps DEF PanelNext

\* The composer's state and the mark of a stopped turn are the turn's own.
THEOREM TurnStateStaysItsOwn == PanelSpec => []TurnStateIsItsOwn
<1>1. PanelInv => TurnStateIsItsOwn
  BY DEF PanelInv
<1>. QED BY <1>1, InitPanel, NextPanel, PTL DEF PanelSpec

\* What a reload would bring back is what is on the screen.
THEOREM StoredAlwaysFollowsShown == PanelSpec => []StoredFollowsShown
<1>1. PanelInv => StoredFollowsShown
  BY DEF PanelInv
<1>. QED BY <1>1, InitPanel, NextPanel, PTL DEF PanelSpec

\* No event touches anything up to the question of its turn.
THEOREM EarlierTurnsStayFrozen == PanelSpec => EarlierTurnsAreFrozen
<1>1. PanelInv /\ [PanelNext]_panelVars => QuestionsStay
  BY NextPanel
<1>2. QuestionsStay => [entry'.turn = entry.turn /\ entry.turn # 0 =>
          UpToQuestion(entry'.messages) = UpToQuestion(entry.messages)]_panelVars
  BY DEF QuestionsStay
<1>. QED BY <1>1, <1>2, InitPanel, NextPanel, PTL DEF PanelSpec, EarlierTurnsAreFrozen
=============================================================================
