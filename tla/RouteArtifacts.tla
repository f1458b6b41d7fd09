--------------------------- MODULE RouteArtifacts ---------------------------
(***************************************************************************)
(* The store of route geometries of one server process                      *)
(* (lib/navigation/route-artifacts.ts): at most Capacity artifacts and       *)
(* PointBudget points together; the oldest make room for a new one, and an   *)
(* expired one goes with the next write or when its owner reads it.          *)
(* Ids are issued in order, so the order of the Map is that of the ids.      *)
(***************************************************************************)
EXTENDS Integers, FiniteSets

CONSTANTS Capacity, PointBudget

ASSUME StoreBounds ==
    /\ Capacity \in Nat \ {0}
    /\ PointBudget \in Nat /\ PointBudget >= 1

VARIABLES
    entries,    \* the artifacts of the Map: [id, session, points, expires]
    pointCount  \* geometryPointCount

store == <<entries, pointCount>>

StoreInit == entries = {} /\ pointCount = 0

\* The points of the geometries of es together, and their number.
Geometry(es) == UNION {{e} \X (1..e.points) : e \in es}
PointsOf(es) == Cardinality(Geometry(es))

Alive(t) == {e \in entries : e.expires > t}

\* A mutant: what has expired leaves the map and stays in the count.
FaultyClearedCount(t) == pointCount

\* geometryPointCount after clearExpired.
ClearedCount(t) == pointCount - PointsOf(entries \ Alive(t))

ClearExpired(t) ==
    /\ entries' = Alive(t)
    /\ pointCount' = ClearedCount(t)

\* The accepted write of x: the oldest go, those up to an id, no more than needed.
Insert(x, t) ==
    LET Left(k) == {e \in Alive(t) : e.id > k}
        Count(k) == ClearedCount(t) - PointsOf(Alive(t) \ Left(k))
        Room(k) == Cardinality(Left(k)) < Capacity /\ Count(k) + x.points <= PointBudget
    IN  \E k \in 0..x.id :
            /\ Left(k) = {} \/ Room(k)
            /\ \A j \in 0..k - 1 : ~Room(j) /\ Left(j) # {}
            /\ entries' = Left(k) \cup {x}
            /\ pointCount' = Count(k) + x.points

\* Why write refuses x at time t: its id is new.
WriteRefusal(x, t) ==
    IF x.expires <= t THEN "expired"
    ELSE IF x.points > PointBudget THEN "point_budget"
    ELSE "none"

\* write
Write(x, t) ==
    CASE WriteRefusal(x, t) = "expired"      -> UNCHANGED store
      [] WriteRefusal(x, t) = "point_budget" -> ClearExpired(t)
      [] OTHER                               -> Insert(x, t)

Found(id) == {e \in entries : e.id = id}

\* read, as the session s: what it answers, and what it does to the store.
ReadStatus(s, id, t) ==
    IF Found(id) = {} THEN "not_found"
    ELSE IF \A e \in Found(id) : e.session # s THEN "wrong_session"
    ELSE IF \A e \in Found(id) : e.expires <= t THEN "expired"
    ELSE "ok"

Read(s, id, t) ==
    /\ ReadStatus(s, id, t) = "expired"
    /\ entries' = entries \ Found(id)
    /\ pointCount' = pointCount - PointsOf(Found(id))
=============================================================================
