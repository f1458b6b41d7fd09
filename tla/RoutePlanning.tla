---------------------------- MODULE RoutePlanning ----------------------------
(***************************************************************************)
(* Planning routes on the server: createRouteService                        *)
(* (lib/navigation/route-service.ts) over the store of RouteArtifacts, and   *)
(* the commute comparisons that call it for several destinations at once     *)
(* (mapPool and planDestinations, lib/navigation/compare.ts).                *)
(*                                                                          *)
(* Each client has a session, one abort signal and some destinations; a      *)
(* single plan is a comparison of one.  A plan asks the providers in order.  *)
(* The race of a provider's answer with the time-out and the caller's abort  *)
(* is settled in one step and read in a later one: callerAborted is read     *)
(* after the await.  The answer that lost the race changes nothing.          *)
(*                                                                          *)
(* An answer is the points and the life of a route that validateProviderResult*)
(* lets through, or NoRoute: an error of any kind, a route it does not let    *)
(* through, the time-out and the abort.  The codes of failures are left out:  *)
(* they only choose the words of the estimate that takes the route's place.   *)
(***************************************************************************)
EXTENDS RouteArtifacts, Sequences, FiniteSetsExt

CONSTANTS
    Clients, Destinations,  \* clients, and how many destinations each has
    Concurrency,            \* COMMUTE_COMPARE_CONCURRENCY
    Providers,              \* how many providers are registered
    Routes,                 \* routes that providers answer: [points, life]
    MaxTime                 \* bound on the clock

ASSUME RoutesBounds ==
    /\ IsFiniteSet(Clients)
    /\ Destinations \in [Clients -> Nat \ {0}]
    /\ {Concurrency, MaxTime} \subseteq Nat \ {0}
    /\ Providers \in Nat
    /\ Routes \subseteq [points : Nat \ {0}, life : Nat]

VARIABLES
    now,        \* the clock
    aborted,    \* the client's signal is aborted
    cursor,     \* destinations taken from the client's list
    plans,      \* for each client, the plan of each destination
    written     \* artifacts written, in order; an id is its place in it

vars == <<now, aborted, cursor, plans, written, store>>

NoRoute == [points |-> 0, expires |-> 0]
Waiting == [at |-> "waiting", provider |-> 0, answer |-> NoRoute, gone |-> FALSE, id |-> 0]

\* A plan that is done has the id of its artifact, or 0: an estimate or a failure.
Done(id) == [Waiting EXCEPT !.at = "done", !.id = id]
Active(c) == {d \in 1..Destinations[c] : plans[c][d].at \in {"calling", "settled"}}

\* What the loop of plan makes of p after its provider: providers that are not
\* configured, do not support the request or throw are passed over; one is
\* called, or none is left.
Onward(p) ==
    {[Waiting EXCEPT !.at = "calling", !.provider = j] : j \in p.provider + 1..Providers}
        \cup {Done(0)}

SetPlan(c, d, p) == plans' = [plans EXCEPT ![c][d] = p]

\* A worker of mapPool is free.
Free(c) == Cardinality(Active(c)) < Concurrency

\* It takes the next destination; plan runs up to its first provider call, or
\* to its end when the request is refused.
Begin(c) ==
    LET d == cursor[c] + 1
    IN  /\ ~aborted[c]
        /\ d <= Destinations[c]
        /\ Free(c)
        /\ cursor' = [cursor EXCEPT ![c] = d]
        /\ \E p \in Onward(Waiting) : SetPlan(c, d, p)
        /\ UNCHANGED <<now, aborted, written, store>>

Settled(p, answer) == [p EXCEPT !.at = "settled", !.answer = answer]

\* The provider answers.
ProviderAnswers(c, d) ==
    /\ plans[c][d].at = "calling"
    /\ \E a \in {NoRoute} \cup {[points |-> r.points, expires |-> now + r.life] : r \in Routes} :
           SetPlan(c, d, Settled(plans[c][d], a))
    /\ UNCHANGED <<now, aborted, cursor, written, store>>

\* A mutant: the timer aborts the provider's signal and settles nothing.
FaultyTimesOut(c, d) ==
    /\ plans[c][d].at = "calling"
    /\ UNCHANGED vars

\* The timer of callProvider.
TimesOut(c, d) ==
    /\ plans[c][d].at = "calling"
    /\ SetPlan(c, d, Settled(plans[c][d], NoRoute))
    /\ UNCHANGED <<now, aborted, cursor, written, store>>

\* onCallerAbort, for each call whose listener is still registered.
GoneWith(p) ==
    CASE p.at = "calling" -> [Settled(p, NoRoute) EXCEPT !.gone = TRUE]
      [] p.at = "settled" -> [p EXCEPT !.gone = TRUE]
      [] OTHER            -> p

\* The client leaves: its signal aborts.
Abort(c) ==
    /\ ~aborted[c]
    /\ aborted' = [aborted EXCEPT ![c] = TRUE]
    /\ plans' = [plans EXCEPT ![c] = [d \in DOMAIN @ |-> GoneWith(@[d])]]
    /\ UNCHANGED <<now, cursor, written, store>>

-----------------------------------------------------------------------------
\* plan after the await

\* validateProviderResult's look at the clock.
Usable(a) == a # NoRoute /\ a.expires > now

\* The plan goes on with its next provider after a failure.
FailsOver(c, d) == \E p \in Onward(plans[c][d]) : SetPlan(c, d, p)

GivesUp(c, d) ==
    /\ plans[c][d].gone
    /\ SetPlan(c, d, Done(0))
    /\ UNCHANGED <<now, written, store>>

Refused(c, d) ==
    /\ ~plans[c][d].gone
    /\ ~Usable(plans[c][d].answer)
    /\ FailsOver(c, d)
    /\ UNCHANGED <<now, written, store>>

Artifact(c, a) ==
    [id |-> Len(written) + 1, session |-> c, points |-> a.points, expires |-> a.expires]

\* A mutant: the artifact is written before the caller's abort is looked at.
FaultyIssues(c, d) ==
    LET x == Artifact(c, plans[c][d].answer)
    IN  /\ Usable(plans[c][d].answer)
        /\ Write(x, now)
        /\ IF WriteRefusal(x, now) = "none"
           THEN /\ written' = Append(written, x)
                /\ SetPlan(c, d, Done(IF plans[c][d].gone THEN 0 ELSE x.id))
           ELSE FailsOver(c, d) /\ UNCHANGED written
        /\ UNCHANGED now

\* A valid route is written under a new id.  The store's clock may have gone on.
Issues(c, d) ==
    LET x == Artifact(c, plans[c][d].answer)
    IN  /\ ~plans[c][d].gone
        /\ Usable(plans[c][d].answer)
        /\ \E t \in now..Min({now + 1, MaxTime}) :
               /\ now' = t
               /\ Write(x, t)
               /\ IF WriteRefusal(x, t) = "none"
                  THEN written' = Append(written, x) /\ SetPlan(c, d, Done(x.id))
                  ELSE FailsOver(c, d) /\ UNCHANGED written

\* All ID_ISSUE_ATTEMPTS ids are of no use: taken, which is found out after
\* clearExpired, or malformed.
NoId(c, d) ==
    /\ ~plans[c][d].gone
    /\ Usable(plans[c][d].answer)
    /\ ClearExpired(now) \/ UNCHANGED store
    /\ FailsOver(c, d)
    /\ UNCHANGED <<now, written>>

Resume(c, d) ==
    /\ plans[c][d].at = "settled"
    /\ GivesUp(c, d) \/ Refused(c, d) \/ Issues(c, d) \/ NoId(c, d)
    /\ UNCHANGED <<aborted, cursor>>

\* GET /api/navigation/routes/:routeId
Fetch(s) ==
    /\ \E id \in 1..Len(written) : Read(s, id, now)
    /\ UNCHANGED <<now, aborted, cursor, plans, written>>

Tick ==
    /\ now < MaxTime
    /\ now' = now + 1
    /\ UNCHANGED <<aborted, cursor, plans, written, store>>

Init ==
    /\ now = 0
    /\ aborted = [c \in Clients |-> FALSE]
    /\ cursor = [c \in Clients |-> 0]
    /\ plans = [c \in Clients |-> [d \in 1..Destinations[c] |-> Waiting]]
    /\ written = <<>>
    /\ StoreInit

Next ==
    \/ \E c \in Clients :
          \/ Begin(c) \/ Abort(c) \/ Fetch(c)
          \/ \E d \in 1..Destinations[c] :
                ProviderAnswers(c, d) \/ TimesOut(c, d) \/ Resume(c, d)
    \/ Tick

Spec == Init /\ [][Next]_vars

\* Timers fire, and what the event loop has to run is run; providers need not
\* answer and clients need not stay.
FairSpec ==
    /\ Spec
    /\ \A c \in Clients :
          /\ WF_vars(Begin(c))
          /\ \A d \in 1..Destinations[c] : WF_vars(TimesOut(c, d)) /\ WF_vars(Resume(c, d))

-----------------------------------------------------------------------------
\* Properties

Over(c) == Active(c) = {} /\ (aborted[c] \/ cursor[c] = Destinations[c])

RoutesTypeOK ==
    /\ now \in 0..MaxTime
    /\ aborted \in [Clients -> BOOLEAN]
    /\ \A c \in Clients : cursor[c] \in 0..Destinations[c] /\ Cardinality(Active(c)) <= Concurrency
    /\ \A c \in Clients : \A d \in 1..Destinations[c] : plans[c][d].provider \in 0..Providers
    /\ {e.id : e \in entries} \subseteq 1..Len(written)

\* The count of points is that of the artifacts held, whatever expired, was
\* evicted or was read meanwhile, and both budgets are kept.
BudgetsAreKept ==
    /\ pointCount = PointsOf(entries)
    /\ pointCount <= PointBudget
    /\ Cardinality(entries) <= Capacity

\* Artifacts make room in the order they were written, however often they are
\* read: when one that has not expired is gone, so are all older ones.
OldestGoFirst ==
    \A i, j \in 1..Len(written) :
        /\ i < j /\ written[j].expires > now
        /\ ReadStatus(written[j].session, j, now) # "ok"
        => ReadStatus(written[i].session, i, now) # "ok"

\* Every artifact was handed to the session it is kept for, by the answer to
\* exactly one plan: none is written for a plan that failed, was timed out or
\* whose client has left.
ArtifactsAreAnswered ==
    \A i \in 1..Len(written) :
        LET c == written[i].session
        IN  Cardinality({d \in 1..Destinations[c] :
                             plans[c][d].id = i}) = 1

\* Once a client's signal has aborted nothing is written for it and no provider
\* is called for it, not even for an answer that came just before.
NothingAfterLeaving ==
    [][\A c \in Clients : aborted[c] =>
          /\ \A i \in DOMAIN written' \ DOMAIN written : written'[i].session # c
          /\ \A d \in 1..Destinations[c] :
                plans'[c][d].at = "calling" => plans[c][d] = plans'[c][d]]_vars

\* A comparison that has an entry for each destination.
Whole(c) == \A d \in 1..Destinations[c] : plans[c][d].at = "done"

\* The entries of a matrix are all there, also after an abort: what the type
\* CommuteMatrixEntry[] says and formatCommuteMatrix relies on.
NoHoles == \A c \in Clients : Over(c) => Whole(c)

\* Every comparison comes to an end, whatever the providers do, and then has its
\* entry for each destination unless the client has left.
ComparisonsEnd == \A c \in Clients : <>(Over(c) /\ (aborted[c] \/ Whole(c)))
=============================================================================
