------------------------ MODULE RoutePlanning_proofs ------------------------
(***************************************************************************)
(* Theorems about route planning: the store keeps its two budgets and an    *)
(* exact count of the points it holds, every artifact belongs to exactly one *)
(* plan, and nothing is begun or written for a client that has left.         *)
(***************************************************************************)
EXTENDS RoutePlanning, FiniteSetTheorems, TLAPS

-----------------------------------------------------------------------------
\* The number of points of a set of artifacts

Sized(es) == IsFiniteSet(es) /\ \A e \in es : e.points \in Nat

\* The geometry of one artifact has as many points as it says.
LEMMA PointsOfOne ==
    ASSUME NEW x, x.points \in Nat
    PROVE  IsFiniteSet(Geometry({x})) /\ PointsOf({x}) = x.points
<1>1. Geometry({x}) = {x} \X (1..x.points)
  BY DEF Geometry
<1>2. IsFiniteSet({x}) /\ Cardinality({x}) = 1
  BY FS_Singleton
<1>3. IsFiniteSet(1..x.points) /\ Cardinality(1..x.points) = x.points
  BY FS_Interval
<1>4. /\ IsFiniteSet({x} \X (1..x.points))
      /\ Cardinality({x} \X (1..x.points)) = 1 * x.points
  BY <1>2, <1>3, FS_Product
<1>5. 1 * x.points = x.points
  OBVIOUS
<1>. QED BY Zenon, <1>1, <1>4, <1>5 DEF PointsOf

\* Finitely many artifacts have finitely many points.
LEMMA GeometryIsFinite ==
    ASSUME NEW es, Sized(es)
    PROVE  IsFiniteSet(Geometry(es)) /\ PointsOf(es) \in Nat
<1>. DEFINE Part(e) == {e} \X (1..e.points)
            parts == {Part(e) : e \in es}
            f == [e \in es |-> Part(e)]
<1>1. f \in Surjection(es, parts)
  BY DEF Surjection
<1>2. IsFiniteSet(parts)
  BY <1>1, FS_Surjection DEF Sized
<1>3. \A p \in parts : IsFiniteSet(p)
  <2>. SUFFICES ASSUME NEW e \in es PROVE IsFiniteSet(Part(e))
    OBVIOUS
  <2>1. Geometry({e}) = Part(e)
    BY DEF Geometry
  <2>. QED BY <2>1, PointsOfOne DEF Sized
<1>4. IsFiniteSet(UNION parts)
  BY <1>2, <1>3, FS_UNION
<1>. QED BY <1>4, FS_CardinalityType DEF Geometry, PointsOf

\* What a part of the artifacts takes away is what it counts for.
LEMMA PointsSplit ==
    ASSUME NEW es, Sized(es), NEW part \in SUBSET es
    PROVE  PointsOf(es) = PointsOf(part) + PointsOf(es \ part)
<1>1. Sized(part) /\ Sized(es \ part)
  BY FS_Subset DEF Sized
<1>2. Geometry(es) = Geometry(part) \cup Geometry(es \ part)
  BY DEF Geometry
<1>3. Geometry(part) \cap Geometry(es \ part) = {}
  BY DEF Geometry
<1>4. Cardinality({}) = 0
  BY FS_EmptySet
<1>. DEFINE A == Geometry(part)
            B == Geometry(es \ part)
<1>5. /\ IsFiniteSet(A) /\ Cardinality(A) \in Nat
      /\ IsFiniteSet(B) /\ Cardinality(B) \in Nat
  BY <1>1, GeometryIsFinite DEF PointsOf
<1>6. Cardinality(A \cup B) = Cardinality(A) + Cardinality(B) - Cardinality(A \cap B)
  BY <1>5, FS_Union
<1>7. PointsOf(es) = Cardinality(A \cup B) /\ Cardinality(A \cap B) = 0
  BY Zenon, <1>2, <1>3, <1>4 DEF PointsOf
<1>8. PointsOf(part) = Cardinality(A) /\ PointsOf(es \ part) = Cardinality(B)
  BY Zenon DEF PointsOf
<1>. HIDE DEF A, B
<1>. QED BY <1>5, <1>6, <1>7, <1>8

LEMMA PointsWithOne ==
    ASSUME NEW es, Sized(es), NEW x, x.points \in Nat, x \notin es
    PROVE  Sized(es \cup {x}) /\ PointsOf(es \cup {x}) = PointsOf(es) + x.points
<1>1. Sized(es \cup {x})
  BY FS_AddElement DEF Sized
<1>2. (es \cup {x}) \ {x} = es
  OBVIOUS
<1>3. PointsOf(es \cup {x}) = PointsOf({x}) + PointsOf(es)
  BY <1>1, <1>2, PointsSplit
<1>. QED BY <1>1, <1>3, PointsOfOne, GeometryIsFinite
-----------------------------------------------------------------------------
\* The store alone

StoreInv == Sized(entries) /\ BudgetsAreKept

\* clearExpired leaves the count of what is still alive.
LEMMA ClearedIsAlive ==
    ASSUME StoreInv, NEW t
    PROVE  /\ Sized(Alive(t)) /\ Alive(t) \subseteq entries
           /\ ClearedCount(t) = PointsOf(Alive(t))
           /\ PointsOf(Alive(t)) \in Nat /\ PointsOf(Alive(t)) <= PointBudget
           /\ Cardinality(Alive(t)) \in Nat /\ Cardinality(Alive(t)) <= Capacity
<1>. DEFINE alive == Alive(t)
            gone == entries \ alive
<1>1. alive \in SUBSET entries /\ gone \in SUBSET entries
  BY DEF Alive
<1>2. Sized(alive) /\ Sized(gone) /\ Cardinality(alive) <= Cardinality(entries)
  BY <1>1, FS_Subset DEF StoreInv, Sized
<1>3. PointsOf(entries) = PointsOf(alive) + PointsOf(gone)
  BY <1>1, PointsSplit DEF StoreInv
<1>4. PointsOf(alive) \in Nat /\ PointsOf(gone) \in Nat /\ PointsOf(entries) \in Nat
  BY <1>2, GeometryIsFinite DEF StoreInv
<1>5. Cardinality(alive) \in Nat /\ Cardinality(entries) \in Nat
  BY <1>2, FS_CardinalityType DEF StoreInv, Sized
<1>6. ClearedCount(t) = pointCount - PointsOf(gone)
  BY DEF ClearedCount
<1>7. /\ pointCount = PointsOf(entries) /\ pointCount <= PointBudget
      /\ Cardinality(entries) <= Capacity
  BY DEF StoreInv, BudgetsAreKept
<1>8. PointBudget \in Nat /\ Capacity \in Nat
  BY StoreBounds
<1>. HIDE DEF alive, gone
<1>9. /\ ClearedCount(t) = PointsOf(alive)
      /\ PointsOf(alive) <= PointBudget /\ Cardinality(alive) <= Capacity
  BY <1>2, <1>3, <1>4, <1>5, <1>6, <1>7, <1>8
<1>. QED BY <1>1, <1>2, <1>4, <1>5, <1>9 DEF alive

\* A write evicts what it has to and no more, and counts right.
LEMMA WriteKeepsBudgets ==
    ASSUME StoreInv, NEW t \in Nat, NEW x, x.points \in Nat, x \notin entries, Write(x, t)
    PROVE  StoreInv'
<1>1. CASE WriteRefusal(x, t) = "expired"
  BY <1>1 DEF Write, store, StoreInv, Sized, BudgetsAreKept
<1>2. CASE WriteRefusal(x, t) = "point_budget"
  <2>1. entries' = Alive(t) /\ pointCount' = ClearedCount(t)
    BY <1>2 DEF Write, ClearExpired
  <2>. QED BY <2>1, ClearedIsAlive DEF StoreInv, Sized, BudgetsAreKept, PointsOf, Geometry
<1>3. CASE WriteRefusal(x, t) = "none"
  <2>. DEFINE Left(k) == {e \in Alive(t) : e.id > k}
              Count(k) == ClearedCount(t) - PointsOf(Alive(t) \ Left(k))
              Room(k) == Cardinality(Left(k)) < Capacity /\ Count(k) + x.points <= PointBudget
  <2>1. Insert(x, t)
    BY <1>3 DEF Write
  <2>2. PICK k \in 0..x.id :
           /\ Left(k) = {} \/ Room(k)
           /\ entries' = Left(k) \cup {x}
           /\ pointCount' = Count(k) + x.points
    BY <2>1 DEF Insert
  <2>3. Left(k) \in SUBSET Alive(t)
    OBVIOUS
  <2>. DEFINE left == Left(k)
              out == Alive(t) \ left
  <2>. HIDE DEF Left
  <2>4. Sized(left) /\ Sized(out) /\ left \subseteq entries
    BY <2>3, ClearedIsAlive, FS_Subset DEF Sized
  <2>5. PointsOf(Alive(t)) = PointsOf(left) + PointsOf(out)
    BY <2>3, ClearedIsAlive, PointsSplit
  <2>6. PointsOf(left) \in Nat /\ PointsOf(out) \in Nat
    BY <2>4, GeometryIsFinite
  <2>7. Count(k) = PointsOf(left)
    BY <2>5, <2>6, ClearedIsAlive
  <2>8. Sized(entries') /\ PointsOf(entries') = PointsOf(left) + x.points
    BY <2>2, <2>4, PointsWithOne
  <2>9. Cardinality(entries') = Cardinality(left) + 1 /\ Cardinality(left) \in Nat
    BY <2>2, <2>4, FS_AddElement, FS_CardinalityType DEF Sized
  <2>10. left = {} => PointsOf(left) = 0 /\ Cardinality(left) = 0
    <3>1. Geometry({}) = {}
      BY DEF Geometry
    <3>. QED BY <3>1, FS_EmptySet DEF PointsOf
  <2>11. x.points <= PointBudget
    BY <1>3, StoreBounds DEF WriteRefusal
  <2>12. PointsOf(left) + x.points <= PointBudget /\ Cardinality(left) + 1 <= Capacity
    BY <2>2, <2>6, <2>7, <2>9, <2>10, <2>11, StoreBounds
  <2>13. pointCount' = PointsOf(left) + x.points
    BY <2>2, <2>7
  <2>. QED
    BY <2>8, <2>9, <2>12, <2>13 DEF StoreInv, Sized, BudgetsAreKept, PointsOf, Geometry
<1>. QED BY <1>1, <1>2, <1>3 DEF WriteRefusal

LEMMA ClearKeepsBudgets ==
    ASSUME StoreInv, NEW t, ClearExpired(t)
    PROVE  StoreInv'
  BY ClearedIsAlive DEF ClearExpired, StoreInv, Sized, BudgetsAreKept, PointsOf, Geometry

\* A read that finds its artifact expired takes it away with its points.
LEMMA ReadKeepsBudgets ==
    ASSUME StoreInv, NEW s, NEW id, NEW t, Read(s, id, t)
    PROVE  StoreInv'
<1>. DEFINE found == Found(id)
            rest == entries \ found
<1>1. found \in SUBSET entries /\ rest \in SUBSET entries
  BY DEF Found
<1>2. Sized(found) /\ Sized(rest) /\ Cardinality(rest) <= Cardinality(entries)
  BY <1>1, FS_Subset DEF StoreInv, Sized
<1>3. PointsOf(entries) = PointsOf(found) + PointsOf(rest)
  BY <1>1, PointsSplit DEF StoreInv
<1>4. PointsOf(found) \in Nat /\ PointsOf(rest) \in Nat
  BY <1>2, GeometryIsFinite
<1>5. Cardinality(rest) \in Nat /\ Cardinality(entries) \in Nat
  BY <1>2, FS_CardinalityType DEF StoreInv, Sized
<1>6. entries' = rest /\ pointCount' = pointCount - PointsOf(found)
  BY DEF Read
<1>7. /\ pointCount = PointsOf(entries) /\ pointCount <= PointBudget
      /\ Cardinality(entries) <= Capacity
  BY DEF StoreInv, BudgetsAreKept
<1>. HIDE DEF found, rest
<1>8. /\ pointCount' = PointsOf(rest) /\ PointsOf(rest) <= PointBudget
      /\ Cardinality(rest) <= Capacity
  BY <1>2, <1>3, <1>4, <1>5, <1>6, <1>7, StoreBounds
<1>. QED BY <1>2, <1>6, <1>8 DEF StoreInv, Sized, BudgetsAreKept, PointsOf, Geometry
-----------------------------------------------------------------------------
\* The shape of the state

RouteAnswers == [points : Nat, expires : Nat]
Plans ==
    [at : {"waiting", "calling", "settled", "done"}, provider : 0..Providers,
     answer : RouteAnswers, gone : BOOLEAN, id : Nat]
Artifacts == [id : Nat, session : Clients, points : Nat, expires : Nat]

RoutesShape ==
    /\ now \in Nat
    /\ aborted \in [Clients -> BOOLEAN]
    /\ cursor \in [Clients -> Nat]
    /\ plans = [c \in Clients |-> plans[c]]
    /\ \A c \in Clients : plans[c] \in [1..Destinations[c] -> Plans]
    /\ written \in Seq(Artifacts)

\* SetPlan changes one plan.
LEMMA OnePlanChanges ==
    ASSUME RoutesShape, NEW c \in Clients, NEW d \in 1..Destinations[c],
           NEW p \in Plans, SetPlan(c, d, p)
    PROVE  /\ plans' = [b \in Clients |-> plans'[b]]
           /\ \A b \in Clients : plans'[b] \in [1..Destinations[b] -> Plans]
           /\ plans'[c][d] = p
           /\ \A b \in Clients : \A e \in 1..Destinations[b] :
                 b # c \/ e # d => plans'[b][e] = plans[b][e]
<1>1. plans' = [plans EXCEPT ![c] = [plans[c] EXCEPT ![d] = p]]
  BY DEF SetPlan
<1>2. plans' = [b \in Clients |-> IF b = c THEN [plans[c] EXCEPT ![d] = p] ELSE plans[b]]
  BY <1>1 DEF RoutesShape
<1>3. plans[c] \in [1..Destinations[c] -> Plans]
  BY DEF RoutesShape
<1>4. [plans[c] EXCEPT ![d] = p] \in [1..Destinations[c] -> Plans]
  BY <1>3
<1>5. /\ [plans[c] EXCEPT ![d] = p][d] = p
      /\ \A e \in 1..Destinations[c] \ {d} : [plans[c] EXCEPT ![d] = p][e] = plans[c][e]
  BY <1>3
<1>6. plans'[c] = [plans[c] EXCEPT ![d] = p] /\ \A b \in Clients \ {c} : plans'[b] = plans[b]
  BY <1>2
<1>. QED BY <1>2, <1>4, <1>5, <1>6 DEF RoutesShape

\* A plan that goes on calls a later provider or ends without a route.
LEMMA OnwardPlans ==
    ASSUME NEW p, p.provider \in 0..Providers, NEW q \in Onward(p)
    PROVE  /\ q \in Plans /\ q.at \in {"calling", "done"} /\ q.id = 0
           /\ q # Waiting
<1>1. Waiting \in Plans
  BY RoutesBounds DEF Waiting, NoRoute, Plans, RouteAnswers
<1>2. CASE q = Done(0)
  BY <1>1, <1>2 DEF Done, Waiting, Plans
<1>3. CASE \E j \in p.provider + 1..Providers :
              q = [Waiting EXCEPT !.at = "calling", !.provider = j]
  <2>1. PICK j \in p.provider + 1..Providers :
              q = [Waiting EXCEPT !.at = "calling", !.provider = j]
    BY <1>3
  <2>2. q = [at |-> "calling", provider |-> j, answer |-> NoRoute, gone |-> FALSE, id |-> 0]
    BY <2>1 DEF Waiting
  <2>3. j \in 0..Providers /\ NoRoute \in RouteAnswers
    BY <2>1, RoutesBounds DEF NoRoute, RouteAnswers
  <2>. QED BY <2>2, <2>3 DEF Plans, Waiting
<1>. QED BY <1>2, <1>3 DEF Onward

LEMMA DonePlans ==
    ASSUME NEW i \in Nat
    PROVE  Done(i) \in Plans /\ Done(i).at = "done" /\ Done(i).id = i
<1>1. ASSUME NEW r, r = Done(i)
      PROVE  r = [at |-> "done", provider |-> 0, answer |-> NoRoute, gone |-> FALSE, id |-> i]
  BY <1>1 DEF Done, Waiting
<1>2. 0 \in 0..Providers /\ NoRoute \in RouteAnswers
  BY RoutesBounds DEF NoRoute, RouteAnswers
<1>3. Done(i) = [at |-> "done", provider |-> 0, answer |-> NoRoute, gone |-> FALSE, id |-> i]
  BY <1>1
<1>. QED BY <1>2, <1>3 DEF Plans

LEMMA SettledPlans ==
    ASSUME NEW p \in Plans, NEW a \in RouteAnswers
    PROVE  /\ Settled(p, a) \in Plans /\ Settled(p, a).at = "settled"
           /\ Settled(p, a).id = p.id /\ Settled(p, a).gone = p.gone
  BY DEF Settled, Plans

LEMMA GonePlans ==
    ASSUME NEW p \in Plans
    PROVE  /\ GoneWith(p) \in Plans /\ GoneWith(p).id = p.id
           /\ GoneWith(p).at # "calling"
           /\ GoneWith(p).at = "settled" => GoneWith(p).gone
           /\ p.at \notin {"calling", "settled"} => GoneWith(p) = p
           /\ GoneWith(p).at = "settled" <=> p.at \in {"calling", "settled"}
<1>1. NoRoute \in RouteAnswers
  BY DEF NoRoute, RouteAnswers
<1>. QED BY <1>1, SettledPlans DEF GoneWith, Settled, Plans

\* What a resumed plan may do, in terms of the plan and what is written.
LEMMA ResumeEffects ==
    ASSUME RoutesShape, NEW c \in Clients, NEW d \in 1..Destinations[c], Resume(c, d)
    PROVE  /\ UNCHANGED <<aborted, cursor>>
           /\ now' \in Nat
           /\ plans[c][d].at = "settled"
           /\ \E p \in Plans :
                /\ SetPlan(c, d, p)
                /\ p.at \in {"calling", "done"}
                /\ plans[c][d].gone => p.at = "done"
                /\ \/ p.id = 0 /\ written' = written
                   \/ /\ ~plans[c][d].gone /\ p.at = "done"
                      /\ p.id = Len(written) + 1
                      /\ \E x \in Artifacts :
                            written' = Append(written, x) /\ x.session = c
<1>. DEFINE q == plans[c][d]
<1>1. q \in Plans /\ q.provider \in 0..Providers /\ q.answer \in RouteAnswers
  BY DEF RoutesShape, Plans
<1>2. UNCHANGED <<aborted, cursor>> /\ q.at = "settled"
  BY DEF Resume
<1>3. CASE GivesUp(c, d)
  BY <1>2, <1>3, DonePlans DEF GivesUp, RoutesShape
<1>4. ASSUME FailsOver(c, d)
      PROVE  \E p \in Plans : /\ SetPlan(c, d, p) /\ p.at \in {"calling", "done"}
                              /\ p.id = 0
  BY <1>1, <1>4, OnwardPlans DEF FailsOver
<1>5. CASE Refused(c, d)
  BY <1>2, <1>4, <1>5 DEF Refused, RoutesShape
<1>6. CASE NoId(c, d)
  BY <1>2, <1>4, <1>6 DEF NoId, RoutesShape
<1>7. CASE Issues(c, d)
  <2>. DEFINE x == Artifact(c, q.answer)
  <2>1. Len(written) \in Nat
    BY DEF RoutesShape
  <2>2. x \in Artifacts /\ x.session = c /\ x.id = Len(written) + 1
    BY <1>1, <2>1 DEF Artifact, Artifacts, RouteAnswers
  <2>. HIDE DEF x
  <2>3. PICK t \in now..Min({now + 1, MaxTime}) :
           /\ now' = t
           /\ IF WriteRefusal(x, t) = "none"
              THEN written' = Append(written, x) /\ SetPlan(c, d, Done(x.id))
              ELSE FailsOver(c, d) /\ UNCHANGED written
    BY <1>7 DEF Issues, x
  <2>4. now' \in Nat
    BY <2>3 DEF RoutesShape
  <2>5. ~q.gone
    BY <1>7 DEF Issues
  <2>6. CASE WriteRefusal(x, t) = "none"
    <3>1. Done(x.id) \in Plans /\ Done(x.id).at = "done" /\ Done(x.id).id = Len(written) + 1
      BY <2>1, <2>2, DonePlans
    <3>. QED BY <1>2, <2>2, <2>3, <2>4, <2>5, <2>6, <3>1
  <2>7. CASE WriteRefusal(x, t) # "none"
    BY <1>2, <1>4, <2>3, <2>4, <2>5, <2>7
  <2>. QED BY <2>6, <2>7
<1>. QED BY <1>3, <1>5, <1>6, <1>7 DEF Resume
-----------------------------------------------------------------------------
\* Every step keeps the shape

LEMMA ShapeInit == Init => RoutesShape
<1>. SUFFICES ASSUME Init PROVE RoutesShape
  OBVIOUS
<1>1. Waiting \in Plans
  BY RoutesBounds DEF Waiting, NoRoute, Plans, RouteAnswers
<1>. QED BY <1>1 DEF Init, RoutesShape

\* A step either leaves the plans alone, changes one plan, or aborts a client.
LEMMA ShapeStep == RoutesShape /\ [Next]_vars => RoutesShape'
<1>. SUFFICES ASSUME RoutesShape, [Next]_vars PROVE RoutesShape'
  OBVIOUS
<1>1. ASSUME NEW c \in Clients, NEW d \in 1..Destinations[c], NEW p \in Plans, SetPlan(c, d, p)
      PROVE  /\ plans' = [b \in Clients |-> plans'[b]]
             /\ \A b \in Clients : plans'[b] \in [1..Destinations[b] -> Plans]
  BY <1>1, OnePlanChanges
<1>2. ASSUME NEW c \in Clients, Begin(c) PROVE RoutesShape'
  <2>. DEFINE d == cursor[c] + 1
  <2>1. d \in 1..Destinations[c] /\ cursor' \in [Clients -> Nat]
    BY <1>2, RoutesBounds DEF Begin, RoutesShape
  <2>2. PICK p \in Onward(Waiting) : SetPlan(c, d, p)
    BY <1>2 DEF Begin
  <2>3. p \in Plans
    BY <2>2, OnwardPlans, RoutesBounds DEF Waiting
  <2>. QED BY <1>1, <1>2, <2>1, <2>2, <2>3 DEF Begin, RoutesShape
<1>3. ASSUME NEW c \in Clients, Abort(c) PROVE RoutesShape'
  <2>1. plans' = [plans EXCEPT ![c] = [d \in DOMAIN plans[c] |-> GoneWith(plans[c][d])]]
    BY <1>3 DEF Abort
  <2>2. plans' = [b \in Clients |-> IF b = c THEN [d \in 1..Destinations[c] |-> GoneWith(plans[c][d])]
                                    ELSE plans[b]]
    BY <2>1 DEF RoutesShape
  <2>3. [d \in 1..Destinations[c] |-> GoneWith(plans[c][d])] \in [1..Destinations[c] -> Plans]
    BY GonePlans DEF RoutesShape
  <2>4. aborted' \in [Clients -> BOOLEAN]
    BY <1>3 DEF Abort, RoutesShape
  <2>. QED BY <1>3, <2>2, <2>3, <2>4 DEF Abort, RoutesShape
<1>4. ASSUME NEW c \in Clients, Fetch(c) PROVE RoutesShape'
  BY <1>4 DEF Fetch, RoutesShape
<1>5. ASSUME NEW c \in Clients, NEW d \in 1..Destinations[c],
             ProviderAnswers(c, d) \/ TimesOut(c, d)
      PROVE  RoutesShape'
  <2>1. plans[c][d] \in Plans /\ now \in Nat
    BY DEF RoutesShape
  <2>2. PICK a \in {NoRoute} \cup {[points |-> r.points, expires |-> now + r.life] : r \in Routes} :
           SetPlan(c, d, Settled(plans[c][d], a))
    BY <1>5 DEF ProviderAnswers, TimesOut
  <2>3. a \in RouteAnswers
    BY <2>1, <2>2, RoutesBounds DEF RouteAnswers, NoRoute
  <2>4. Settled(plans[c][d], a) \in Plans
    BY <2>1, <2>3, SettledPlans
  <2>. QED BY <1>1, <1>5, <2>2, <2>4 DEF ProviderAnswers, TimesOut, RoutesShape
<1>6. ASSUME NEW c \in Clients, NEW d \in 1..Destinations[c], Resume(c, d) PROVE RoutesShape'
  <2>1. PICK p \in Plans :
           /\ SetPlan(c, d, p)
           /\ \/ written' = written
              \/ \E x \in Artifacts : written' = Append(written, x)
    BY <1>6, ResumeEffects
  <2>2. written' \in Seq(Artifacts)
    <3>1. written \in Seq(Artifacts)
      BY DEF RoutesShape
    <3>2. ASSUME NEW x \in Artifacts, written' = Append(written, x)
          PROVE  written' \in Seq(Artifacts)
      BY <3>1, <3>2
    <3>. QED BY <2>1, <3>1, <3>2
  <2>. QED BY <1>1, <1>6, <2>1, <2>2, ResumeEffects DEF RoutesShape
<1>7. CASE Tick
  BY <1>7 DEF Tick, RoutesShape
<1>8. CASE UNCHANGED vars
  BY <1>8 DEF vars, RoutesShape
<1>. QED BY <1>2, <1>3, <1>4, <1>5, <1>6, <1>7, <1>8 DEF Next
-----------------------------------------------------------------------------
\* The count and the budgets

\* The ids of artifacts held are ids that have been issued, so a new one is free.
IdsAreIssued == \A e \in entries : e.id \in 1..Len(written)

BudgetsInv == RoutesShape /\ StoreInv /\ IdsAreIssued

LEMMA BudgetsInit == Init => BudgetsInv
<1>. SUFFICES ASSUME Init PROVE BudgetsInv
  OBVIOUS
<1>1. entries = {} /\ pointCount = 0
  BY DEF Init, StoreInit
<1>2. Geometry({}) = {}
  BY DEF Geometry
<1>3. IsFiniteSet({}) /\ Cardinality({}) = 0
  BY FS_EmptySet
<1>4. StoreInv
  BY <1>1, <1>2, <1>3, StoreBounds DEF StoreInv, Sized, BudgetsAreKept, PointsOf
<1>. QED BY <1>1, <1>4, ShapeInit DEF BudgetsInv, IdsAreIssued

\* What a write leaves in the store was there or is the new artifact.
LEMMA WriteAdds ==
    ASSUME NEW x, NEW t, Write(x, t)
    PROVE  /\ entries' \subseteq entries \cup {x}
           /\ WriteRefusal(x, t) # "none" => entries' \subseteq entries
<1>1. CASE WriteRefusal(x, t) = "expired"
  BY <1>1 DEF Write, store
<1>2. CASE WriteRefusal(x, t) = "point_budget"
  BY <1>2 DEF Write, ClearExpired, Alive
<1>3. CASE WriteRefusal(x, t) = "none"
  BY <1>3 DEF Write, Insert, Alive
<1>. QED BY <1>1, <1>2, <1>3 DEF WriteRefusal

LEMMA BudgetsStep == BudgetsInv /\ [Next]_vars => BudgetsInv'
<1>. SUFFICES ASSUME BudgetsInv, [Next]_vars PROVE StoreInv' /\ IdsAreIssued'
  BY ShapeStep DEF BudgetsInv
<1>. USE DEF BudgetsInv
<1>1. ASSUME UNCHANGED <<store, written>> PROVE StoreInv' /\ IdsAreIssued'
  BY <1>1 DEF store, StoreInv, Sized, BudgetsAreKept, PointsOf, Geometry, IdsAreIssued
<1>2. ASSUME NEW t, ClearExpired(t), UNCHANGED written PROVE StoreInv' /\ IdsAreIssued'
  <2>1. entries' \subseteq entries
    BY <1>2 DEF ClearExpired, Alive
  <2>. QED BY <1>2, <2>1, ClearKeepsBudgets DEF IdsAreIssued
<1>3. ASSUME NEW c \in Clients, NEW d \in 1..Destinations[c], Resume(c, d)
      PROVE  StoreInv' /\ IdsAreIssued'
  <2>1. CASE GivesUp(c, d) \/ Refused(c, d)
    BY <1>1, <2>1 DEF GivesUp, Refused
  <2>2. CASE NoId(c, d)
    BY <1>1, <1>2, <2>2 DEF NoId
  <2>3. CASE Issues(c, d)
    <3>. DEFINE x == Artifact(c, plans[c][d].answer)
    <3>1. plans[c][d].answer \in RouteAnswers /\ Len(written) \in Nat /\ now \in Nat
      <4>1. plans[c][d] \in Plans /\ now \in Nat /\ written \in Seq(Artifacts)
        BY DEF RoutesShape
      <4>. QED BY <4>1 DEF Plans
    <3>2. x.id = Len(written) + 1 /\ x.points \in Nat
      BY <3>1 DEF Artifact, RouteAnswers
    <3>. HIDE DEF x
    <3>3. PICK t \in now..Min({now + 1, MaxTime}) :
             /\ Write(x, t)
             /\ IF WriteRefusal(x, t) = "none" THEN written' = Append(written, x)
                                               ELSE written' = written
      BY <2>3 DEF Issues, x
    <3>4. x \notin entries
      BY <3>1, <3>2 DEF IdsAreIssued
    <3>5. t \in Nat
      BY <3>1
    <3>6. StoreInv'
      BY <3>2, <3>3, <3>4, <3>5, WriteKeepsBudgets
    <3>7. CASE WriteRefusal(x, t) = "none"
      <4>1. Len(written') = Len(written) + 1
        BY <3>3, <3>7 DEF RoutesShape
      <4>. QED BY <3>1, <3>2, <3>3, <3>6, <4>1, WriteAdds DEF IdsAreIssued
    <3>8. CASE WriteRefusal(x, t) # "none"
      BY <3>3, <3>6, <3>8, WriteAdds DEF IdsAreIssued
    <3>. QED BY <3>7, <3>8
  <2>. QED BY <1>3, <2>1, <2>2, <2>3 DEF Resume
<1>4. ASSUME NEW c \in Clients, Fetch(c) PROVE StoreInv' /\ IdsAreIssued'
  <2>1. PICK id \in 1..Len(written) : Read(c, id, now)
    BY <1>4 DEF Fetch
  <2>2. entries' \subseteq entries /\ written' = written
    BY <1>4, <2>1 DEF Fetch, Read
  <2>. QED BY <2>1, <2>2, ReadKeepsBudgets DEF IdsAreIssued
<1>5. ASSUME NEW c \in Clients, NEW d \in 1..Destinations[c],
             ProviderAnswers(c, d) \/ TimesOut(c, d)
      PROVE  StoreInv' /\ IdsAreIssued'
  BY <1>1, <1>5 DEF ProviderAnswers, TimesOut
<1>6. ASSUME NEW c \in Clients, Begin(c) \/ Abort(c) PROVE StoreInv' /\ IdsAreIssued'
  BY <1>1, <1>6 DEF Begin, Abort
<1>7. CASE Tick \/ UNCHANGED vars
  BY <1>1, <1>7 DEF Tick, vars
<1>. QED BY <1>3, <1>4, <1>5, <1>6, <1>7 DEF Next

\* For any capacity and budget, routes, clients and providers: the count of
\* points is exactly that of the artifacts held, and both budgets are kept,
\* however expiry, eviction and reading follow one another
\* (route-artifacts.ts: geometryPointCount is kept by hand in three places).
THEOREM RouteBudgets == Spec => []BudgetsAreKept
<1>1. BudgetsInv => BudgetsAreKept
  BY DEF BudgetsInv, StoreInv
<1>. QED BY <1>1, BudgetsInit, BudgetsStep, PTL DEF Spec
-----------------------------------------------------------------------------
\* Artifacts and the plans they answer

PlanHolds(c, d, i) == plans[c][d].id = i
OnePlanHas(c, i) ==
    \E d \in 1..Destinations[c] :
        /\ PlanHolds(c, d, i)
        /\ \A e \in 1..Destinations[c] : PlanHolds(c, e, i) => e = d

\* Destinations not taken yet wait; only a plan that is done has an artifact, one
\* that has been written; and every artifact is had by one plan of its session.
AnswersInv ==
    /\ RoutesShape
    /\ \A c \in Clients : \A d \in 1..Destinations[c] :
           /\ d > cursor[c] => plans[c][d] = Waiting
           /\ plans[c][d].id # 0 => plans[c][d].at = "done" /\ plans[c][d].id \in 1..Len(written)
    /\ \A i \in 1..Len(written) : OnePlanHas(written[i].session, i)

LEMMA AnswersInit == Init => AnswersInv
<1>. SUFFICES ASSUME Init PROVE AnswersInv
  OBVIOUS
<1>1. \A c \in Clients : \A d \in 1..Destinations[c] : plans[c][d] = Waiting
  BY DEF Init
<1>2. Waiting.id = 0 /\ written = <<>>
  BY DEF Init, Waiting
<1>. QED BY <1>1, <1>2, ShapeInit DEF AnswersInv

\* A step that writes nothing and keeps every plan's artifact keeps the invariant.
LEMMA AnswersSame ==
    ASSUME AnswersInv, RoutesShape', written' = written,
           \A c \in Clients : \A d \in 1..Destinations[c] :
               /\ plans'[c][d].id = plans[c][d].id
               /\ plans[c][d].at = "done" => plans'[c][d].at = "done"
               /\ d > cursor'[c] => plans'[c][d] = Waiting
    PROVE  AnswersInv'
<1>1. ASSUME NEW i \in 1..Len(written) PROVE written[i].session \in Clients
  <2>1. written \in Seq(Artifacts)
    BY DEF AnswersInv, RoutesShape
  <2>2. written[i] \in Artifacts
    BY <2>1
  <2>. QED BY <2>2 DEF Artifacts
<1>2. ASSUME NEW i \in 1..Len(written) PROVE OnePlanHas(written[i].session, i)'
  <2>1. ASSUME NEW b \in Clients, OnePlanHas(b, i) PROVE OnePlanHas(b, i)'
    BY <2>1 DEF OnePlanHas, PlanHolds
  <2>2. OnePlanHas(written[i].session, i)
    BY DEF AnswersInv
  <2>. QED BY <1>1, <2>1, <2>2
<1>. QED BY <1>2 DEF AnswersInv

LEMMA AnswersStep == AnswersInv /\ [Next]_vars => AnswersInv'
<1>. SUFFICES ASSUME AnswersInv, [Next]_vars PROVE AnswersInv'
  OBVIOUS
<1>1. RoutesShape /\ RoutesShape'
  BY ShapeStep DEF AnswersInv
<1>2. ASSUME NEW c \in Clients, NEW d \in 1..Destinations[c]
      PROVE  plans[c][d] \in Plans
  BY <1>1 DEF RoutesShape
<1>3. ASSUME NEW c \in Clients, Begin(c) PROVE AnswersInv'
  <2>. DEFINE d == cursor[c] + 1
  <2>1. d \in 1..Destinations[c] /\ cursor' = [cursor EXCEPT ![c] = d] /\ written' = written
    BY <1>1, <1>3, RoutesBounds DEF Begin, RoutesShape
  <2>2. PICK p \in Onward(Waiting) : SetPlan(c, d, p)
    BY <1>3 DEF Begin
  <2>3. p \in Plans /\ p.id = 0
    BY <2>2, OnwardPlans, RoutesBounds DEF Waiting
  <2>4. plans[c][d] = Waiting /\ Waiting.id = 0 /\ Waiting.at # "done"
    <3>1. cursor[c] \in Nat
      BY <1>1 DEF RoutesShape
    <3>2. Waiting.id = 0 /\ Waiting.at # "done"
      BY DEF Waiting
    <3>. QED BY <2>1, <3>1, <3>2 DEF AnswersInv
  <2>5. \A b \in Clients : \A e \in 1..Destinations[b] :
           b # c \/ e # d => plans'[b][e] = plans[b][e]
    BY <1>1, <2>1, <2>2, <2>3, OnePlanChanges
  <2>6. plans'[c][d] = p
    BY <1>1, <2>1, <2>2, <2>3, OnePlanChanges
  <2>7. \A b \in Clients : \A e \in 1..Destinations[b] :
           e > cursor'[b] => e > cursor[b] /\ (b # c \/ e # d)
    BY <1>1, <2>1 DEF RoutesShape
  <2>8. \A b \in Clients : \A e \in 1..Destinations[b] :
               /\ plans'[b][e].id = plans[b][e].id
               /\ plans[b][e].at = "done" => plans'[b][e].at = "done"
               /\ e > cursor'[b] => plans'[b][e] = Waiting
    BY <2>3, <2>4, <2>5, <2>6, <2>7 DEF AnswersInv
  <2>. QED BY <1>1, <2>1, <2>8, AnswersSame
<1>4. ASSUME NEW c \in Clients, Abort(c) PROVE AnswersInv'
  <2>1. \A b \in Clients : \A e \in 1..Destinations[b] :
           plans'[b][e] = plans[b][e] \/ plans'[b][e] = GoneWith(plans[b][e])
    BY <1>1, <1>4 DEF Abort, RoutesShape
  <2>2. Waiting.at = "waiting"
    BY DEF Waiting
  <2>3. \A b \in Clients : \A e \in 1..Destinations[b] :
               /\ plans'[b][e].id = plans[b][e].id
               /\ plans[b][e].at = "done" => plans'[b][e].at = "done"
               /\ plans[b][e] = Waiting => plans'[b][e] = Waiting
    BY <1>2, <2>1, <2>2, GonePlans
  <2>4. cursor' = cursor /\ written' = written
    BY <1>4 DEF Abort
  <2>. QED BY <1>1, <2>3, <2>4, AnswersSame DEF AnswersInv
<1>5. ASSUME NEW c \in Clients, NEW d \in 1..Destinations[c],
             ProviderAnswers(c, d) \/ TimesOut(c, d)
      PROVE  AnswersInv'
  <2>1. plans[c][d].at = "calling" /\ cursor' = cursor /\ written' = written /\ now \in Nat
    BY <1>1, <1>5 DEF ProviderAnswers, TimesOut, RoutesShape
  <2>2. PICK a \in {NoRoute} \cup {[points |-> r.points, expires |-> now + r.life] : r \in Routes} :
           SetPlan(c, d, Settled(plans[c][d], a))
    BY <1>5 DEF ProviderAnswers, TimesOut
  <2>3. a \in RouteAnswers
    BY <2>1, <2>2, RoutesBounds DEF RouteAnswers, NoRoute
  <2>4. Settled(plans[c][d], a) \in Plans /\ Settled(plans[c][d], a).id = plans[c][d].id
    BY <1>2, <2>3, SettledPlans
  <2>5. /\ plans'[c][d] = Settled(plans[c][d], a)
        /\ \A b \in Clients : \A e \in 1..Destinations[b] :
             b # c \/ e # d => plans'[b][e] = plans[b][e]
    BY <1>1, <2>2, <2>4, OnePlanChanges
  <2>6. plans[c][d] # Waiting
    BY <2>1 DEF Waiting
  <2>7. \A b \in Clients : \A e \in 1..Destinations[b] :
               /\ plans'[b][e].id = plans[b][e].id
               /\ plans[b][e].at = "done" => plans'[b][e].at = "done"
               /\ plans[b][e] = Waiting => plans'[b][e] = Waiting
    BY <2>1, <2>4, <2>5, <2>6
  <2>. QED BY <1>1, <2>1, <2>7, AnswersSame DEF AnswersInv
<1>6. ASSUME NEW c \in Clients, NEW d \in 1..Destinations[c], Resume(c, d) PROVE AnswersInv'
  <2>1. PICK p \in Plans :
           /\ SetPlan(c, d, p)
           /\ \/ p.id = 0 /\ written' = written
              \/ /\ p.at = "done" /\ p.id = Len(written) + 1
                 /\ \E x \in Artifacts : written' = Append(written, x) /\ x.session = c
    BY <1>1, <1>6, ResumeEffects
  <2>2. plans[c][d].at = "settled" /\ cursor' = cursor
    BY <1>1, <1>6, ResumeEffects
  <2>3. plans[c][d].id = 0 /\ plans[c][d] # Waiting
    BY <1>1, <2>2 DEF AnswersInv, Waiting
  <2>4. /\ plans'[c][d] = p
        /\ \A b \in Clients : \A e \in 1..Destinations[b] :
             b # c \/ e # d => plans'[b][e] = plans[b][e]
    BY <1>1, <2>1, OnePlanChanges
  <2>5. CASE p.id = 0 /\ written' = written
    <3>1. \A b \in Clients : \A e \in 1..Destinations[b] :
                 /\ plans'[b][e].id = plans[b][e].id
                 /\ plans[b][e].at = "done" => plans'[b][e].at = "done"
                 /\ plans[b][e] = Waiting => plans'[b][e] = Waiting
      BY <2>2, <2>3, <2>4, <2>5
    <3>. QED BY <1>1, <2>2, <2>5, <3>1, AnswersSame DEF AnswersInv
  <2>6. ASSUME NEW x \in Artifacts, written' = Append(written, x), x.session = c,
               p.at = "done", p.id = Len(written) + 1
        PROVE  AnswersInv'
    <3>1. written \in Seq(Artifacts) /\ Len(written) \in Nat
      BY <1>1 DEF RoutesShape
    <3>2. /\ Len(written') = Len(written) + 1
          /\ \A i \in 1..Len(written) : written'[i] = written[i]
          /\ written'[Len(written) + 1] = x
      BY <2>6, <3>1
    <3>3. \A b \in Clients : \A e \in 1..Destinations[b] :
             /\ e > cursor'[b] => plans'[b][e] = Waiting
             /\ plans'[b][e].id # 0 => plans'[b][e].at = "done"
             /\ plans'[b][e].id # 0 => plans'[b][e].id \in 1..Len(written')
      BY <2>2, <2>3, <2>4, <2>6, <3>1, <3>2 DEF AnswersInv
    <3>4. ASSUME NEW i \in 1..Len(written')
          PROVE  OnePlanHas(written[i].session, i)' 
      <4>1. CASE i \in 1..Len(written)
        <5>. DEFINE s == written[i].session
        <5>1. s \in Clients /\ written'[i] = written[i]
          <6>1. written[i] \in Artifacts
            BY <3>1, <4>1
          <6>. QED BY <3>2, <4>1, <6>1 DEF Artifacts
        <5>2. PICK e \in 1..Destinations[s] :
                 /\ plans[s][e].id = i
                 /\ \A k \in 1..Destinations[s] : plans[s][k].id = i => k = e
          BY <4>1 DEF AnswersInv, OnePlanHas, PlanHolds
        <5>3. s # c \/ e # d
          BY <2>3, <4>1, <5>2
        <5>4. \A k \in 1..Destinations[s] :
                 plans'[s][k].id = i => plans[s][k].id = i
          BY <2>4, <2>6, <3>1, <4>1, <5>1
        <5>. QED BY <2>4, <5>1, <5>2, <5>3, <5>4 DEF OnePlanHas, PlanHolds
      <4>2. CASE i = Len(written) + 1
        <5>1. \A k \in 1..Destinations[c] : plans[c][k].id # i
          BY <1>2, <3>1, <4>2 DEF AnswersInv
        <5>. QED BY <2>4, <2>6, <3>2, <4>2, <5>1 DEF OnePlanHas, PlanHolds
      <4>. QED BY <3>1, <3>2, <4>1, <4>2
    <3>. QED BY <1>1, <3>3, <3>4 DEF AnswersInv
  <2>. QED BY <2>1, <2>5, <2>6
<1>7. ASSUME UNCHANGED <<plans, cursor, written>> PROVE AnswersInv'
  BY <1>1, <1>7, AnswersSame DEF AnswersInv
<1>8. ASSUME NEW c \in Clients, Fetch(c) PROVE AnswersInv'
  BY <1>7, <1>8 DEF Fetch
<1>9. CASE Tick \/ UNCHANGED vars
  BY <1>7, <1>9 DEF Tick, vars
<1>. QED BY <1>3, <1>4, <1>5, <1>6, <1>8, <1>9 DEF Next

\* A set with exactly one member has cardinality one.
LEMMA AnswersAreSingle == AnswersInv => ArtifactsAreAnswered
<1>. SUFFICES ASSUME AnswersInv, NEW i \in 1..Len(written)
              PROVE  LET c == written[i].session
                     IN  Cardinality({d \in 1..Destinations[c] : plans[c][d].id = i}) = 1
  BY DEF ArtifactsAreAnswered
<1>. DEFINE c == written[i].session
            having == {d \in 1..Destinations[c] : plans[c][d].id = i}
<1>1. PICK d \in 1..Destinations[c] :
         /\ plans[c][d].id = i
         /\ \A e \in 1..Destinations[c] : plans[c][e].id = i => e = d
  BY DEF AnswersInv, OnePlanHas, PlanHolds
<1>2. having = {d}
  BY <1>1
<1>. QED BY <1>2, FS_Singleton

\* For any number of clients, destinations, providers and routes: every artifact
\* written is the answer of exactly one plan of the session it is kept for, so
\* no failed, timed-out or abandoned plan leaves one behind.
THEOREM EveryArtifactHasItsPlan == Spec => []ArtifactsAreAnswered
  BY AnswersInit, AnswersStep, AnswersAreSingle, PTL DEF Spec
-----------------------------------------------------------------------------
\* After a client has left

\* The abort settles every call of the client, and marks what is settled.
LeavingInv ==
    /\ RoutesShape
    /\ \A c \in Clients : aborted[c] =>
           \A d \in 1..Destinations[c] :
               /\ plans[c][d].at # "calling"
               /\ plans[c][d].at = "settled" => plans[c][d].gone

\* What one step may do to a client that has left.
NothingFor(c) ==
    /\ \A i \in DOMAIN written' \ DOMAIN written : written'[i].session # c
    /\ \A d \in 1..Destinations[c] :
          plans'[c][d].at = "calling" => plans[c][d] = plans'[c][d]

LEMMA LeavingInit == Init => LeavingInv
<1>. SUFFICES ASSUME Init PROVE LeavingInv
  OBVIOUS
<1>1. RoutesShape
  BY ShapeInit
<1>2. \A c \in Clients : ~aborted[c]
  BY DEF Init
<1>. QED BY <1>1, <1>2 DEF LeavingInv

LEMMA LeavingStep ==
    LeavingInv /\ [Next]_vars => LeavingInv' /\ \A c \in Clients : aborted[c] => NothingFor(c)
<1>. SUFFICES ASSUME LeavingInv, [Next]_vars, NEW b \in Clients
              PROVE  /\ aborted[b] => NothingFor(b)
                     /\ aborted'[b] => \A d \in 1..Destinations[b] :
                           /\ plans'[b][d].at # "calling"
                           /\ plans'[b][d].at = "settled" => plans'[b][d].gone
  BY ShapeStep DEF LeavingInv
<1>. DEFINE Left == \A d \in 1..Destinations[b] :
                        /\ plans'[b][d].at # "calling"
                        /\ plans'[b][d].at = "settled" => plans'[b][d].gone
            Goal == (aborted[b] => NothingFor(b)) /\ (aborted'[b] => Left)
<1>1. RoutesShape
  BY DEF LeavingInv
<1>2. ASSUME aborted' = aborted, written' = written,
             aborted[b] => \A d \in 1..Destinations[b] : plans'[b][d] = plans[b][d]
      PROVE  Goal
  BY <1>2 DEF LeavingInv, NothingFor
<1>3. ASSUME NEW c \in Clients, NEW d \in 1..Destinations[c], NEW p \in Plans,
             SetPlan(c, d, p), aborted' = aborted, written' = written,
             ~aborted[c] \/ p.at = "done"
      PROVE  Goal
  <2>1. /\ plans'[c][d] = p
        /\ \A a \in Clients : \A e \in 1..Destinations[a] :
             a # c \/ e # d => plans'[a][e] = plans[a][e]
    BY <1>1, <1>3, OnePlanChanges
  <2>. QED BY <1>2, <1>3, <2>1 DEF LeavingInv, NothingFor
<1>4. ASSUME NEW c \in Clients, Begin(c) PROVE Goal
  <2>1. cursor[c] + 1 \in 1..Destinations[c]
    BY <1>1, <1>4, RoutesBounds DEF Begin, RoutesShape
  <2>2. PICK p \in Onward(Waiting) : SetPlan(c, cursor[c] + 1, p)
    BY <1>4 DEF Begin
  <2>3. p \in Plans
    BY <2>2, OnwardPlans, RoutesBounds DEF Waiting
  <2>. QED BY <1>3, <1>4, <2>1, <2>2, <2>3 DEF Begin
<1>5. ASSUME NEW c \in Clients, Abort(c) PROVE Goal
  <2>1. /\ aborted' = [aborted EXCEPT ![c] = TRUE] /\ ~aborted[c] /\ written' = written
        /\ plans' = [plans EXCEPT ![c] = [d \in DOMAIN plans[c] |-> GoneWith(plans[c][d])]]
    BY <1>5 DEF Abort
  <2>2. CASE b = c
    <3>1. \A d \in 1..Destinations[b] :
             plans[b][d] \in Plans /\ plans'[b][d] = GoneWith(plans[b][d])
      BY <1>1, <2>1, <2>2 DEF RoutesShape
    <3>2. Left
      BY <3>1, GonePlans
    <3>. QED BY <2>1, <2>2, <3>2
  <2>3. CASE b # c
    <3>1. aborted'[b] = aborted[b] /\ plans'[b] = plans[b]
      BY <1>1, <2>1, <2>3 DEF RoutesShape
    <3>. QED BY <2>1, <3>1 DEF LeavingInv, NothingFor
  <2>. QED BY <2>2, <2>3
<1>6. ASSUME NEW c \in Clients, NEW d \in 1..Destinations[c],
             ProviderAnswers(c, d) \/ TimesOut(c, d)
      PROVE  Goal
  <2>1. plans[c][d].at = "calling" /\ aborted' = aborted /\ written' = written /\ now \in Nat
    BY <1>1, <1>6 DEF ProviderAnswers, TimesOut, RoutesShape
  <2>2. PICK a \in {NoRoute} \cup {[points |-> r.points, expires |-> now + r.life] : r \in Routes} :
           SetPlan(c, d, Settled(plans[c][d], a))
    BY <1>6 DEF ProviderAnswers, TimesOut
  <2>3. a \in RouteAnswers /\ plans[c][d] \in Plans
    BY <1>1, <2>1, <2>2, RoutesBounds DEF RouteAnswers, NoRoute, RoutesShape
  <2>4. Settled(plans[c][d], a) \in Plans
    BY <2>3, SettledPlans
  <2>5. ~aborted[c]
    BY <2>1 DEF LeavingInv
  <2>. QED BY <1>3, <2>1, <2>2, <2>4, <2>5
<1>7. ASSUME NEW c \in Clients, NEW d \in 1..Destinations[c], Resume(c, d) PROVE Goal
  <2>1. PICK p \in Plans :
           /\ SetPlan(c, d, p)
           /\ plans[c][d].gone => p.at = "done"
           /\ \/ written' = written
              \/ /\ ~plans[c][d].gone /\ p.at = "done"
                 /\ \E x \in Artifacts : written' = Append(written, x) /\ x.session = c
    BY <1>1, <1>7, ResumeEffects
  <2>2. plans[c][d].at = "settled" /\ aborted' = aborted
    BY <1>1, <1>7, ResumeEffects
  <2>3. aborted[c] => plans[c][d].gone
    BY <2>2 DEF LeavingInv
  <2>4. CASE written' = written
    BY <1>3, <2>1, <2>2, <2>3, <2>4
  <2>5. ASSUME NEW x \in Artifacts, written' = Append(written, x), x.session = c,
               ~plans[c][d].gone
        PROVE  Goal
    <3>1. written \in Seq(Artifacts)
      BY <1>1 DEF RoutesShape
    <3>2. \A i \in DOMAIN written' \ DOMAIN written : written'[i] = x
      BY <2>5, <3>1
    <3>3. \A a \in Clients : \A e \in 1..Destinations[a] :
             a # c => plans'[a][e] = plans[a][e]
      BY <1>1, <2>1, OnePlanChanges
    <3>4. aborted[b] => b # c
      BY <2>3, <2>5
    <3>. QED BY <2>2, <2>5, <3>2, <3>3, <3>4 DEF LeavingInv, NothingFor
  <2>. QED BY <2>1, <2>4, <2>5
<1>8. ASSUME UNCHANGED <<aborted, written, plans>> PROVE Goal
  BY <1>2, <1>8
<1>9. ASSUME NEW c \in Clients, Fetch(c) PROVE Goal
  BY <1>8, <1>9 DEF Fetch
<1>10. CASE Tick \/ UNCHANGED vars
  BY <1>8, <1>10 DEF Tick, vars
<1>. QED BY <1>4, <1>5, <1>6, <1>7, <1>9, <1>10 DEF Next

\* For any number of clients and destinations: once a client's signal has aborted,
\* no step writes an artifact for it or calls a provider for it, not even the
\* one that resumes a plan whose answer came just before (route-service.ts
\* reads callerAborted after the await).
THEOREM SilenceForTheGone == Spec => NothingAfterLeaving
<1>1. LeavingInv /\ [Next]_vars =>
        [\A c \in Clients : aborted[c] =>
          /\ \A i \in DOMAIN written' \ DOMAIN written : written'[i].session # c
          /\ \A d \in 1..Destinations[c] :
                plans'[c][d].at = "calling" => plans[c][d] = plans'[c][d]]_vars
  BY LeavingStep DEF NothingFor
<1>2. LeavingInv /\ [Next]_vars => LeavingInv'
  BY LeavingStep
<1>. QED BY <1>1, <1>2, LeavingInit, PTL DEF Spec, NothingAfterLeaving
-----------------------------------------------------------------------------
\* Types, and the workers of mapPool

PoolInv ==
    /\ BudgetsInv
    /\ now \in 0..MaxTime
    /\ \A c \in Clients : cursor[c] \in 0..Destinations[c] /\ Cardinality(Active(c)) <= Concurrency

LEMMA ActiveIsFinite ==
    ASSUME NEW c \in Clients
    PROVE  /\ IsFiniteSet(Active(c)) /\ Cardinality(Active(c)) \in Nat
           /\ IsFiniteSet(Active(c)') /\ Cardinality(Active(c)') \in Nat
<1>1. IsFiniteSet(1..Destinations[c])
  BY FS_Interval, RoutesBounds
<1>2. Active(c) \in SUBSET (1..Destinations[c]) /\ Active(c)' \in SUBSET (1..Destinations[c])
  BY DEF Active
<1>. QED BY <1>1, <1>2, FS_Subset, FS_CardinalityType

LEMMA PoolInit == Init => PoolInv
<1>. SUFFICES ASSUME Init PROVE PoolInv
  OBVIOUS
<1>1. ASSUME NEW c \in Clients
      PROVE  cursor[c] \in 0..Destinations[c] /\ Cardinality(Active(c)) <= Concurrency
  <2>1. Active(c) = {}
    BY DEF Init, Active, Waiting
  <2>2. Cardinality({}) = 0
    BY FS_EmptySet
  <2>. QED BY <2>1, <2>2, RoutesBounds DEF Init
<1>2. now \in 0..MaxTime
  BY RoutesBounds DEF Init
<1>. QED BY <1>1, <1>2, BudgetsInit DEF PoolInv

LEMMA TimeStep == now \in 0..MaxTime /\ [Next]_vars => now' \in 0..MaxTime
<1>. SUFFICES ASSUME now \in 0..MaxTime, [Next]_vars PROVE now' \in 0..MaxTime
  OBVIOUS
<1>1. now \in Nat /\ now <= MaxTime /\ MaxTime \in Nat
  BY RoutesBounds
<1>2. ASSUME NEW c \in Clients, NEW d \in 1..Destinations[c], Resume(c, d)
      PROVE  now' \in 0..MaxTime
  <2>1. now' = now \/ now' \in now..Min({now + 1, MaxTime})
    BY <1>2 DEF Resume, GivesUp, Refused, NoId, Issues
  <2>2. Min({now + 1, MaxTime}) \in {now + 1, MaxTime} /\ Min({now + 1, MaxTime}) <= MaxTime
    <3>1. \E m \in {now + 1, MaxTime} : \A y \in {now + 1, MaxTime} : m <= y
      BY <1>1
    <3>. QED BY <3>1 DEF Min
  <2>. QED BY <1>1, <2>1, <2>2
<1>3. CASE Tick
  BY <1>1, <1>3 DEF Tick
<1>. QED
  BY <1>2, <1>3 DEF Next, Begin, Abort, ProviderAnswers, TimesOut, Fetch, vars

\* Only Begin makes a plan active, and only when a worker is free.
LEMMA PoolStep == PoolInv /\ [Next]_vars => PoolInv'
<1>. SUFFICES ASSUME PoolInv, [Next]_vars, NEW b \in Clients
              PROVE  cursor'[b] \in 0..Destinations[b]
                     /\ Cardinality(Active(b)') <= Concurrency
  BY BudgetsStep, TimeStep DEF PoolInv, Active
<1>. DEFINE Goal == /\ cursor'[b] \in 0..Destinations[b]
                    /\ Cardinality(Active(b)') <= Concurrency
<1>1. RoutesShape /\ Concurrency \in Nat /\ Cardinality(Active(b)) <= Concurrency
  BY RoutesBounds DEF PoolInv, BudgetsInv
<1>2. ASSUME Active(b)' \subseteq Active(b) PROVE Cardinality(Active(b)') <= Concurrency
  <2>1. Cardinality(Active(b)') <= Cardinality(Active(b))
    BY <1>2, ActiveIsFinite, FS_Subset
  <2>. QED BY <1>1, <2>1, ActiveIsFinite
<1>3. ASSUME NEW c \in Clients, NEW d \in 1..Destinations[c], NEW p \in Plans, SetPlan(c, d, p),
             d \in Active(c) \/ c # b
      PROVE  Active(b)' \subseteq Active(b)
  BY <1>1, <1>3, OnePlanChanges DEF Active
<1>4. ASSUME NEW c \in Clients, Begin(c) PROVE Goal
  <2>. DEFINE d == cursor[c] + 1
  <2>1. /\ d \in 1..Destinations[c] /\ cursor' = [cursor EXCEPT ![c] = d] /\ now' = now
        /\ cursor'[b] \in 0..Destinations[b]
    BY <1>1, <1>4, RoutesBounds DEF Begin, RoutesShape, PoolInv
  <2>2. PICK p \in Onward(Waiting) : SetPlan(c, d, p)
    BY <1>4 DEF Begin
  <2>3. p \in Plans
    BY <2>2, OnwardPlans, RoutesBounds DEF Waiting
  <2>4. CASE b # c
    BY <1>2, <1>3, <2>1, <2>2, <2>3, <2>4 DEF PoolInv
  <2>5. CASE b = c
    <3>1. Active(b)' \subseteq Active(b) \cup {d}
      BY <1>1, <2>1, <2>2, <2>3, <2>5, OnePlanChanges DEF Active
    <3>2. Cardinality(Active(b)) < Concurrency
      BY <1>4, <2>5 DEF Begin, Free
    <3>. DEFINE A == Active(b)
    <3>3. /\ IsFiniteSet(A \cup {d})
          /\ Cardinality(A \cup {d}) <= Cardinality(A) + 1
      <4>1. IsFiniteSet(A) /\ Cardinality(A) \in Nat
        BY ActiveIsFinite
      <4>. HIDE DEF A, d
      <4>2. /\ IsFiniteSet(A \cup {d})
            /\ Cardinality(A \cup {d}) = IF d \in A THEN Cardinality(A) ELSE Cardinality(A) + 1
        BY <4>1, FS_AddElement
      <4>. QED BY <4>1, <4>2
    <3>4. Cardinality(Active(b)') <= Cardinality(Active(b) \cup {d})
      BY <3>1, <3>3, FS_Subset
    <3>5. Cardinality(Active(b) \cup {d}) \in Nat
      BY <3>3, FS_CardinalityType
    <3>6. Cardinality(Active(b)') <= Concurrency
      BY <1>1, <3>2, <3>3, <3>4, <3>5, ActiveIsFinite
    <3>. QED BY <2>1, <3>6 DEF PoolInv
  <2>. QED BY <2>4, <2>5
<1>5. ASSUME NEW c \in Clients, Abort(c) PROVE Goal
  <2>1. plans' = [plans EXCEPT ![c] = [d \in DOMAIN plans[c] |-> GoneWith(plans[c][d])]]
    BY <1>5 DEF Abort
  <2>2. \A d \in 1..Destinations[b] :
           plans'[b][d] = plans[b][d] \/ plans'[b][d] = GoneWith(plans[b][d])
    BY <1>1, <2>1 DEF RoutesShape
  <2>3. \A d \in 1..Destinations[b] : plans[b][d] \in Plans
    BY <1>1 DEF RoutesShape
  <2>4. Active(b)' \subseteq Active(b)
    BY <2>2, <2>3, GonePlans DEF Active
  <2>. QED BY <1>2, <1>5, <2>4 DEF Abort, PoolInv
<1>6. ASSUME NEW c \in Clients, NEW d \in 1..Destinations[c],
             ProviderAnswers(c, d) \/ TimesOut(c, d)
      PROVE  Goal
  <2>1. plans[c][d].at = "calling" /\ cursor' = cursor /\ now' = now /\ now \in Nat
    BY <1>1, <1>6 DEF ProviderAnswers, TimesOut, RoutesShape
  <2>2. PICK a \in {NoRoute} \cup {[points |-> r.points, expires |-> now + r.life] : r \in Routes} :
           SetPlan(c, d, Settled(plans[c][d], a))
    BY <1>6 DEF ProviderAnswers, TimesOut
  <2>3. a \in RouteAnswers /\ plans[c][d] \in Plans
    BY <1>1, <2>1, <2>2, RoutesBounds DEF RouteAnswers, NoRoute, RoutesShape
  <2>4. Settled(plans[c][d], a) \in Plans /\ d \in Active(c)
    BY <2>1, <2>3, SettledPlans DEF Active
  <2>. QED BY <1>2, <1>3, <2>1, <2>2, <2>4 DEF PoolInv
<1>7. ASSUME NEW c \in Clients, NEW d \in 1..Destinations[c], Resume(c, d) PROVE Goal
  <2>1. PICK p \in Plans : SetPlan(c, d, p)
    BY <1>1, <1>7, ResumeEffects
  <2>2. plans[c][d].at = "settled" /\ cursor' = cursor
    BY <1>1, <1>7, ResumeEffects
  <2>4. d \in Active(c)
    BY <2>2 DEF Active
  <2>. QED BY <1>2, <1>3, <2>1, <2>2, <2>4 DEF PoolInv
<1>8. ASSUME UNCHANGED <<cursor, plans>> PROVE Goal
  <2>1. Active(b)' = Active(b)
    BY <1>8 DEF Active
  <2>. QED BY <1>2, <1>8, <2>1 DEF PoolInv
<1>9. ASSUME NEW c \in Clients, Fetch(c) PROVE Goal
  BY <1>8, <1>9 DEF Fetch
<1>10. CASE Tick
  BY <1>8, <1>10 DEF Tick
<1>11. CASE UNCHANGED vars
  BY <1>8, <1>11 DEF vars
<1>. QED BY <1>4, <1>5, <1>6, <1>7, <1>9, <1>10, <1>11 DEF Next

\* Types for any values of the constants; in particular no comparison ever has
\* more than Concurrency destinations in progress (compare.ts mapPool).
THEOREM RoutesTypes == Spec => []RoutesTypeOK
<1>1. PoolInv => RoutesTypeOK
  <2>. SUFFICES ASSUME PoolInv PROVE RoutesTypeOK
    OBVIOUS
  <2>1. RoutesShape /\ IdsAreIssued
    BY DEF PoolInv, BudgetsInv
  <2>2. \A c \in Clients : \A d \in 1..Destinations[c] : plans[c][d].provider \in 0..Providers
    BY <2>1 DEF RoutesShape, Plans
  <2>. QED BY <2>1, <2>2 DEF PoolInv, RoutesTypeOK, RoutesShape, IdsAreIssued
<1>. QED BY <1>1, PoolInit, PoolStep, PTL DEF Spec
=============================================================================
