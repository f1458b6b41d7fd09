-------------------------- MODULE OneTimeCodes_proofs --------------------------
(***************************************************************************)
(* Proofs about OneTimeCodes, for any number of requests and codes, any     *)
(* windows and limits, with and without a database.                         *)
(*                                                                          *)
(* A code is used once because it is in one place at a time: with the       *)
(* request that issues it, in a row, with the request that is about to       *)
(* accept it, or accepted (OnePlace).  Only the last code is valid because   *)
(* the cooldown of the guard leaves one issuing request at a time            *)
(* (OneIssues).  Wrong attempts are bounded because whatever was counted     *)
(* against a valid code is still in the guard, with a request on its way     *)
(* to the guard, or has locked the target for longer than the code lives     *)
(* (Accounted).                                                             *)
(***************************************************************************)
EXTENDS OneTimeCodes, FiniteSetTheorems, TLAPS

Sending(r) == Does(r, "issue") \/ Does(r, "insert")
Accepting(r) == Does(r, "accept")

Rows == [code : Codes, expires : Nat]
Doing == [does : {"nothing", "issue", "insert", "verify", "accept", "reject"},
          code : Nat, at : Nat, seen : SUBSET Rows, guard : Nat]

Guards == [kept : BOOLEAN, born : Nat, lastSentAt : Nat, sent : BOOLEAN,
           sentAt : SUBSET Nat, wrongAt : SUBSET (Nat \X (1..MaxWrongAttempts)),
           lockedUntil : Nat]

\* The last wrong attempt allowed is never noted: it locks.
GuardShape(g) ==
    /\ g \in Guards
    /\ IsFiniteSet(g.wrongAt) /\ Cardinality(g.wrongAt) < MaxWrongAttempts

CodesShape ==
    /\ usesDb \in BOOLEAN /\ now \in Nat
    /\ issued \in 0..MaxCodes
    /\ req \in [Requests -> Doing]
    /\ rows \in SUBSET Rows /\ memory \in SUBSET Rows
    /\ accepted \in [Codes -> {0, 1}]
    /\ ~usesDb => rows = {} /\ \A r \in Requests : req[r].does = "nothing"

\* No code is anywhere before it is issued.
Issued ==
    /\ \A x \in rows \cup memory : x.code <= issued
    /\ \A r \in Requests : Sending(r) \/ Accepting(r) => req[r].code \in 1..issued
    /\ \A c \in Codes : accepted[c] > 0 => c <= issued

\* A code is in one place, and in the memory's copy only until it is accepted.
OnePlace ==
    /\ \A x, y \in rows : x.code = y.code => x = y
    /\ \A r, s \in Requests :
          /\ Sending(r) \/ Accepting(r)
          /\ Sending(s) \/ Accepting(s)
          /\ req[r].code = req[s].code
          => r = s
    /\ \A r \in Requests : Sending(r) \/ Accepting(r) =>
          /\ accepted[req[r].code] = 0
          /\ \A x \in rows : x.code # req[r].code
    /\ \A x \in rows \cup memory : accepted[x.code] = 0

PlaceInv == CodesShape /\ Issued /\ OnePlace

GuardInv == PlaceInv /\ GuardShape(guard)

\* While ShortCalls holds: a request under way began in this tick and under
\* the guard in force, which still knows of a code that is being sent.
Prompt ==
    \A r \in Requests : req[r].does # "nothing" =>
        /\ Kept /\ req[r].at = now
        /\ IF Sending(r) THEN guard.sent /\ guard.lastSentAt = now
                         ELSE req[r].guard = guard.born

\* So there is one of them, and what it deletes is all there is.
OneIssues ==
    /\ \A r, s \in Requests : Sending(r) /\ Sending(s) => r = s
    /\ \A r \in Requests : Does(r, "insert") => rows \subseteq req[r].seen
    /\ \A x \in rows \cup (IF usesDb THEN {} ELSE memory) : x.code = latest

LatestInv == GuardInv /\ Prompt /\ OneIssues

\* The requests in a phase, and what the guard holds against a challenge.
InPhase(w) == {r \in Requests : Does(r, w)}
Against(g, x) == {a \in g.wrongAt : a[1] + CodeTtl >= x.expires}

Limit == MaxWrongAttempts - 1 + Cardinality(Requests)

\* w wrong attempts on x, while v attempts wait to be judged and j of those
\* judged wrong are on their way to the guard: x ends before the lock does, or
\* everything counted is on its way or in the guard.
Covered(x, g, w, v, j) ==
    \/ x.expires < g.lockedUntil /\ w + v <= Limit
    \/ w <= Cardinality(Against(g, x)) + j

Accounted ==
    /\ wrongs \in [Codes -> Nat]
    /\ \A c \in Codes : wrongs[c] <= Limit /\ (wrongs[c] > 0 => c <= issued)
    /\ \A r \in Requests : Sending(r) => wrongs[req[r].code] = 0
    /\ \A x \in rows \cup memory : x.expires <= now + CodeTtl
    /\ \A x \in Live :
          Covered(x, guard, wrongs[x.code], Cardinality(InPhase("verify")),
                  Cardinality(InPhase("reject")))
-----------------------------------------------------------------------------
\* One place for a code

LEMMA Constants ==
    /\ Cooldown \in Nat \ {0} /\ CodeTtl \in Nat \ {0} /\ AttemptWindow \in Nat \ {0}
    /\ LockTime \in Nat \ {0} /\ MaxWrongAttempts \in Nat \ {0} /\ DailyWindow \in Nat \ {0}
    /\ MaxCodes \in Nat /\ IsFiniteSet(Requests)
BY CodesBounds

LEMMA IdleIsDoing == Idle \in Doing /\ Idle.does = "nothing"
BY DEF Idle, Doing

LEMMA NoGuardShape == GuardShape(NoGuard)
<1>1. IsFiniteSet({}) /\ Cardinality({}) = 0
  BY FS_EmptySet
<1>. QED BY <1>1, Constants DEF GuardShape, NoGuard, Guards

LEMMA ClearedShape == ASSUME NEW g, GuardShape(g) PROVE GuardShape(Cleared(g))
<1>1. IsFiniteSet({}) /\ Cardinality({}) = 0
  BY FS_EmptySet
<1>2. Cleared(g) \in Guards /\ Cleared(g).wrongAt = {}
  BY DEF GuardShape, Cleared, Guards
<1>. QED BY <1>1, <1>2, Constants DEF GuardShape

LEMMA PrunedShape == ASSUME GuardShape(guard), now \in Nat PROVE GuardShape(Pruned)
<1>1. CASE Kept
  <2>1. /\ Pruned \in Guards /\ Pruned.wrongAt = RecentWrongs(guard.wrongAt)
        /\ Pruned.wrongAt \subseteq guard.wrongAt
    BY <1>1 DEF Pruned, GuardShape, Guards, Recent, RecentWrongs
  <2>2. /\ IsFiniteSet(Pruned.wrongAt)
        /\ Cardinality(Pruned.wrongAt) <= Cardinality(guard.wrongAt)
    BY <2>1, FS_Subset DEF GuardShape
  <2>3. Cardinality(guard.wrongAt) \in Nat /\ Cardinality(Pruned.wrongAt) \in Nat
    BY <2>2, FS_CardinalityType DEF GuardShape
  <2>. QED BY <2>1, <2>2, <2>3, Constants DEF GuardShape
<1>2. CASE ~Kept
  <2>1. Pruned \in Guards /\ Pruned.wrongAt = {}
    BY <1>2 DEF Pruned, NoGuard, Guards
  <2>. QED BY <2>1, NoGuardShape DEF GuardShape, NoGuard
<1>. QED BY <1>1, <1>2

\* There is always a number left for another attempt of the same tick.
LEMMA AttemptIsNew ==
    ASSUME NEW g, GuardShape(g), NEW t \in Nat
    PROVE  Attempt(g, t) \in (Nat \X (1..MaxWrongAttempts)) \ g.wrongAt /\ Attempt(g, t)[1] = t
<1>1. \E n \in 1..MaxWrongAttempts : <<t, n>> \notin g.wrongAt
  <2>. SUFFICES ASSUME \A n \in 1..MaxWrongAttempts : <<t, n>> \in g.wrongAt PROVE FALSE
    OBVIOUS
  <2>. DEFINE f == [n \in 1..MaxWrongAttempts |-> <<t, n>>]
  <2>1. f \in Injection(1..MaxWrongAttempts, g.wrongAt)
    BY DEF Injection, IsInjective
  <2>2. Cardinality(1..MaxWrongAttempts) <= Cardinality(g.wrongAt)
    BY <2>1, FS_Injection DEF GuardShape
  <2>3. Cardinality(1..MaxWrongAttempts) = MaxWrongAttempts
    BY FS_Interval, Constants
  <2>4. Cardinality(g.wrongAt) \in Nat
    BY FS_CardinalityType DEF GuardShape
  <2>. QED BY <2>2, <2>3, <2>4, Constants DEF GuardShape
<1>. QED BY <1>1 DEF Attempt

LEMMA WithWrongShape ==
    ASSUME NEW g, GuardShape(g), NEW t \in Nat
    PROVE  GuardShape(WithWrong(g, t))
<1>. DEFINE a == Attempt(g, t)
<1>1. a \in (Nat \X (1..MaxWrongAttempts)) \ g.wrongAt
  BY AttemptIsNew
<1>2. /\ IsFiniteSet(g.wrongAt \cup {a})
      /\ Cardinality(g.wrongAt \cup {a}) = Cardinality(g.wrongAt) + 1
  BY <1>1, FS_AddElement DEF GuardShape
<1>3. Cardinality(g.wrongAt) \in Nat
  BY FS_CardinalityType DEF GuardShape
<1>4. CASE Cardinality(g.wrongAt) + 1 >= MaxWrongAttempts
  <2>1. WithWrong(g, t) \in Guards /\ WithWrong(g, t).wrongAt = {}
    <3>1. t + LockTime \in Nat
      BY Constants
    <3>2. Locked(g, t) \in Guards /\ Locked(g, t).wrongAt = {}
      BY <3>1 DEF Locked, GuardShape, Guards
    <3>. QED BY <1>4, <3>2 DEF WithWrong
  <2>. QED BY <2>1, NoGuardShape DEF GuardShape, NoGuard
<1>5. CASE ~(Cardinality(g.wrongAt) + 1 >= MaxWrongAttempts)
  <2>1. WithWrong(g, t) \in Guards /\ WithWrong(g, t).wrongAt = g.wrongAt \cup {a}
    BY <1>1, <1>5 DEF WithWrong, Noted, GuardShape, Guards
  <2>. QED BY <1>2, <1>3, <1>5, <2>1, Constants DEF GuardShape
<1>. QED BY <1>4, <1>5

LEMMA GuardStep == CodesShape /\ GuardShape(guard) /\ [Next]_vars => GuardShape(guard')
<1>. SUFFICES ASSUME CodesShape, GuardShape(guard), [Next]_vars PROVE GuardShape(guard')
  OBVIOUS
<1>1. GuardShape(Pruned) /\ now \in Nat
  BY PrunedShape DEF CodesShape
<1>2. ASSUME NEW r \in Requests, Issue(r) PROVE GuardShape(guard')
  <2>1. /\ guard'.wrongAt = Pruned.wrongAt
        /\ guard' \in Guards
    BY <1>1, <1>2 DEF Issue, GuardShape, Guards
  <2>. QED BY <1>1, <2>1 DEF GuardShape
<1>3. ASSUME NEW r \in Requests, Rejects(r) \/ Accepts(r) PROVE GuardShape(guard')
  <2>1. req[r].at \in Nat
    BY DEF CodesShape, Doing
  <2>. QED BY <1>3, <2>1, WithWrongShape, ClearedShape DEF Rejects, Accepts
<1>4. ASSUME NEW r, NEW c, VerifyInMemory(r, c) PROVE GuardShape(guard')
  BY <1>1, <1>4, WithWrongShape, ClearedShape DEF VerifyInMemory
<1>5. CASE Restart
  BY <1>5, NoGuardShape DEF Restart
<1>. QED
  BY <1>1, <1>2, <1>3, <1>4, <1>5
     DEF Next, vars, Refused, IssueDeletes, IssueFails, IssueCommits, Verify, Judged, VerifyFails, Tick

\* One request moves on.
LEMMA OneMoves ==
    ASSUME CodesShape, NEW r \in Requests, NEW v \in Doing, req' = [req EXCEPT ![r] = v]
    PROVE  /\ req' \in [Requests -> Doing] /\ req'[r] = v
           /\ \A q \in Requests : q # r => req'[q] = req[q]
BY DEF CodesShape

\* What request r may become when no code takes a new place.
Withdrawn(r) ==
    \/ req'[r] = req[r]
    \/ req'[r].does \in {"nothing", "verify", "reject"}
    \/ Sending(r) /\ req'[r].does = "insert" /\ req'[r].code = req[r].code

LEMMA NothingNew ==
    ASSUME PlaceInv, usesDb' = usesDb, now' \in Nat, issued' = issued, accepted' = accepted,
           req' \in [Requests -> Doing], \A r \in Requests : Withdrawn(r),
           ~usesDb => \A r \in Requests : req'[r].does = "nothing",
           rows' \subseteq rows, memory' \subseteq memory
    PROVE  PlaceInv'
<1>. USE DEF PlaceInv, CodesShape, Withdrawn, Sending, Accepting, Does
<1>1. CodesShape'
  OBVIOUS
<1>2. Issued'
  BY DEF Issued
<1>3. OnePlace'
  BY DEF OnePlace
<1>. QED BY <1>1, <1>2, <1>3

LEMMA PlaceInit == Init => GuardInv
<1>. SUFFICES ASSUME Init PROVE GuardInv
  OBVIOUS
<1>1. \A r \in Requests : req[r] = Idle
  BY DEF Init
<1>2. CodesShape
  BY <1>1, IdleIsDoing, Constants DEF Init, CodesShape
<1>3. Issued /\ OnePlace
  BY <1>1, IdleIsDoing, Constants DEF Init, Issued, OnePlace, Sending, Accepting, Does
<1>. QED BY <1>2, <1>3, NoGuardShape DEF PlaceInv, GuardInv, Init

LEMMA PlaceStep == GuardInv /\ [Next]_vars => GuardInv'
<1>. SUFFICES ASSUME GuardInv, [Next]_vars PROVE PlaceInv'
  BY GuardStep DEF GuardInv, PlaceInv
<1>1. CodesShape /\ Issued /\ OnePlace /\ PlaceInv /\ GuardShape(guard)
  BY DEF PlaceInv, GuardInv
<1>2. ASSUME NEW r \in Requests, NEW v \in Doing, req' = [req EXCEPT ![r] = v],
             v.does \in {"nothing", "verify", "reject"}, usesDb, usesDb' = usesDb, now' = now,
             issued' = issued, accepted' = accepted, rows' \subseteq rows, memory' \subseteq memory
      PROVE  PlaceInv'
  <2>1. req' \in [Requests -> Doing] /\ \A q \in Requests : Withdrawn(q)
    BY <1>1, <1>2, OneMoves DEF Withdrawn
  <2>. QED BY <1>1, <1>2, <2>1, NothingNew DEF CodesShape
<1>3. ASSUME UNCHANGED <<usesDb, req, issued, accepted>>, now' \in Nat,
             rows' \subseteq rows, memory' \subseteq memory
      PROVE  PlaceInv'
  BY <1>1, <1>3, NothingNew DEF CodesShape, Withdrawn
<1>4. ASSUME NEW r \in Requests, Issue(r) PROVE PlaceInv'
  <2>. DEFINE c == issued + 1
              v == [Idle EXCEPT !.does = "issue", !.code = c, !.at = now]
              x == Challenge(c)
  <2>1. /\ c \in Codes /\ issued' = c /\ memory' = {x} /\ x \in Rows /\ x.code = c
        /\ v \in Doing /\ v.does = "issue" /\ v.code = c
        /\ UNCHANGED <<usesDb, now, rows, accepted>>
    <3>1. c \in Codes /\ c \in Nat /\ now \in Nat /\ now + CodeTtl \in Nat
      BY <1>1, <1>4, Constants DEF Issue, CodesShape, Codes
    <3>2. issued' = c /\ memory' = {x} /\ UNCHANGED <<usesDb, now, rows, accepted>>
      BY <1>4 DEF Issue
    <3>. HIDE DEF c
    <3>3. x \in Rows /\ x.code = c
      BY <3>1 DEF Challenge, Rows
    <3>4. v \in Doing /\ v.does = "issue" /\ v.code = c
      BY <3>1 DEF Doing, Idle
    <3>. QED BY <3>1, <3>2, <3>3, <3>4
  <2>2. accepted[c] = 0 /\ \A k \in Codes : k <= issued => k # c /\ k <= c
    BY <1>1, <2>1, Constants DEF Issued, CodesShape, Codes
  <2>3. /\ \A y \in rows : y.code # c /\ y.code <= c
        /\ \A q \in Requests : Sending(q) \/ Accepting(q) => req[q].code # c /\ req[q].code \in 1..c
    BY <1>1, <2>1, Constants DEF Issued, CodesShape, Codes, Rows
  <2>4. CASE usesDb
    <3>1. /\ req' \in [Requests -> Doing] /\ req'[r] = v
          /\ \A q \in Requests : q # r => req'[q] = req[q]
      BY <1>1, <1>4, <2>1, <2>4, OneMoves DEF Issue
    <3>. HIDE DEF c, v, x
    <3>2. CodesShape'
      BY <1>1, <2>1, <2>4, <3>1 DEF CodesShape, Codes
    <3>3. Issued'
      BY <1>1, <2>1, <2>2, <2>3, <3>1 DEF Issued, CodesShape, Codes, Sending, Accepting, Does
    <3>4. OnePlace'
      BY <1>1, <2>1, <2>2, <2>3, <3>1 DEF OnePlace, CodesShape, Sending, Accepting, Does
    <3>. QED BY <3>2, <3>3, <3>4 DEF PlaceInv
  <2>5. CASE ~usesDb
    <3>1. req' = req
      BY <1>4, <2>5 DEF Issue
    <3>. HIDE DEF c, v, x
    <3>2. CodesShape'
      BY <1>1, <2>1, <2>5, <3>1 DEF CodesShape, Codes
    <3>3. Issued'
      BY <1>1, <2>1, <2>2, <2>3, <3>1 DEF Issued, CodesShape, Codes, Sending, Accepting, Does
    <3>4. OnePlace'
      BY <1>1, <2>1, <2>2, <2>3, <3>1 DEF OnePlace, CodesShape, Sending, Accepting, Does
    <3>. QED BY <3>2, <3>3, <3>4 DEF PlaceInv
  <2>. QED BY <1>1, <2>4, <2>5 DEF CodesShape
<1>5. ASSUME NEW r \in Requests, Refused(r) PROVE PlaceInv'
  BY <1>1, <1>3, <1>5 DEF Refused, CodesShape
<1>6. ASSUME NEW r \in Requests, IssueDeletes(r) PROVE PlaceInv'
  <2>. DEFINE v == [req[r] EXCEPT !.does = "insert", !.seen = rows]
  <2>1. v \in Doing /\ v.does = "insert" /\ v.code = req[r].code /\ req' = [req EXCEPT ![r] = v]
    BY <1>1, <1>6 DEF IssueDeletes, CodesShape, Doing
  <2>2. req' \in [Requests -> Doing] /\ req'[r] = v /\ \A q \in Requests : q # r => req'[q] = req[q]
    BY <1>1, <2>1, OneMoves
  <2>3. \A q \in Requests : Withdrawn(q)
    BY <1>6, <2>1, <2>2 DEF Withdrawn, IssueDeletes, Sending
  <2>4. usesDb
    BY <1>1, <1>6 DEF IssueDeletes, CodesShape, Does
  <2>. QED BY <1>1, <1>6, <2>2, <2>3, <2>4, NothingNew DEF IssueDeletes, CodesShape, history
<1>7. ASSUME NEW r \in Requests, NEW known \in BOOLEAN, IssueCommits(r, known) PROVE PlaceInv'
  <2>. DEFINE c == req[r].code
              x == [code |-> c, expires |-> req[r].at + CodeTtl]
  <2>1. /\ c \in Codes /\ c <= issued /\ x \in Rows /\ x.code = c /\ accepted[c] = 0
        /\ \A y \in rows : y.code # c
        /\ usesDb
    BY <1>1, <1>7, Constants
       DEF IssueCommits, CodesShape, Issued, OnePlace, Sending, Does, Doing, Rows, Codes
  <2>2. rows' \subseteq rows \cup {x} /\ memory' \subseteq memory
        /\ UNCHANGED <<usesDb, now, issued, accepted>>
    BY <1>7 DEF IssueCommits, history
  <2>3. req' \in [Requests -> Doing] /\ req'[r] = Idle /\ \A q \in Requests : q # r => req'[q] = req[q]
    BY <1>1, <1>7, OneMoves, IdleIsDoing DEF IssueCommits
  <2>4. \A q \in Requests : Sending(q)' \/ Accepting(q)' =>
              (Sending(q) \/ Accepting(q)) /\ q # r /\ req'[q] = req[q] /\ req[q].code # c
    BY <1>1, <1>7, <2>3, IdleIsDoing DEF OnePlace, Sending, Accepting, Does, IssueCommits
  <2>. HIDE DEF c, x
  <2>5. CodesShape'
    BY <1>1, <2>1, <2>2, <2>3 DEF CodesShape
  <2>6. Issued'
    BY <1>1, <2>1, <2>2, <2>3, <2>4 DEF Issued
  <2>7. OnePlace'
    BY <1>1, <2>1, <2>2, <2>3, <2>4 DEF OnePlace
  <2>. QED BY <2>5, <2>6, <2>7 DEF PlaceInv
<1>8. ASSUME NEW r \in Requests, IssueFails(r) PROVE PlaceInv'
  <2>1. usesDb
    BY <1>1, <1>8 DEF IssueFails, CodesShape, Does
  <2>. QED BY <1>2, <1>8, <2>1, IdleIsDoing DEF IssueFails, history
<1>9. ASSUME NEW r \in Requests, NEW c \in {Guess} \cup 1..issued, Verify(r, c) PROVE PlaceInv'
  <2>. DEFINE v == [Idle EXCEPT !.does = "verify", !.code = c, !.at = now, !.guard = Pruned.born]
  <2>1. Pruned.born \in Nat /\ c \in Nat /\ now \in Nat
    BY <1>1, <1>9, PrunedShape DEF GuardShape, Guards, CodesShape, Guess
  <2>2. v \in Doing /\ v.does = "verify"
    BY <2>1 DEF Doing, Idle
  <2>. QED BY <1>1, <1>2, <1>9, <2>2 DEF Verify
<1>10. ASSUME NEW r \in Requests, NEW c \in {Guess} \cup 1..issued, VerifyInMemory(r, c)
       PROVE  PlaceInv'
  <2>1. CASE Matching(Fresh(memory), c) = {}
    BY <1>1, <1>3, <1>10, <2>1 DEF VerifyInMemory, Spent, Fresh, CodesShape
  <2>2. CASE Matching(Fresh(memory), c) # {}
    <3>1. /\ accepted' = [accepted EXCEPT ![c] = @ + 1]
          /\ memory' \subseteq memory /\ \A x \in memory' : x.code # c
          /\ UNCHANGED <<usesDb, now, rows, req, issued>> /\ ~usesDb
      BY <1>10, <2>2 DEF VerifyInMemory, CountAccepted, Spent, Fresh
    <3>2. PICK x \in memory : x.code = c
      BY <2>2 DEF Matching, Fresh
    <3>3. c \in Codes /\ accepted[c] = 0 /\ c <= issued
      BY <1>1, <3>2 DEF CodesShape, Rows, OnePlace, Issued
    <3>4. accepted' \in [Codes -> {0, 1}] /\ accepted'[c] = 1
          /\ \A k \in Codes : k # c => accepted'[k] = accepted[k]
      BY <1>1, <3>1, <3>3 DEF CodesShape
    <3>5. CodesShape'
      BY <1>1, <3>1, <3>4 DEF CodesShape
    <3>6. Issued'
      BY <1>1, <3>1, <3>3, <3>4 DEF Issued, Sending, Accepting, Does
    <3>7. OnePlace'
      BY <1>1, <3>1, <3>3, <3>4 DEF OnePlace, CodesShape, Sending, Accepting, Does, Rows
    <3>. QED BY <3>5, <3>6, <3>7 DEF PlaceInv
  <2>. QED BY <2>1, <2>2
<1>11. ASSUME NEW r \in Requests, Judged(r) PROVE PlaceInv'
  <2>. DEFINE c == req[r].code
              hit == Matching(Valid(rows), c)
              v == [req[r] EXCEPT !.does = IF hit # {} THEN "accept" ELSE "reject"]
  <2>1. /\ v \in Doing /\ v.code = c /\ (v.does = "accept" <=> hit # {})
        /\ v.does \in {"accept", "reject"}
        /\ req' = [req EXCEPT ![r] = v] /\ req[r].does = "verify" /\ usesDb
    BY <1>1, <1>11 DEF Judged, CodesShape, Doing, Does
  <2>2. rows' \subseteq rows /\ (hit # {} => rows' = rows \ hit)
        /\ UNCHANGED <<usesDb, now, memory, issued, accepted>>
    BY <1>11 DEF Judged, Valid
  <2>3. CASE hit = {}
    BY <1>1, <1>2, <2>1, <2>2, <2>3
  <2>4. CASE hit # {}
    <3>1. PICK x \in rows : x \in hit /\ x.code = c
      BY <2>4 DEF Matching, Valid
    <3>2. req' \in [Requests -> Doing] /\ req'[r] = v /\ \A q \in Requests : q # r => req'[q] = req[q]
      BY <1>1, <2>1, OneMoves
    <3>3. c \in Codes /\ c \in 1..issued /\ accepted[c] = 0
      BY <1>1, <3>1, Constants DEF CodesShape, Rows, OnePlace, Issued, Codes
    <3>4. \A q \in Requests : Sending(q) \/ Accepting(q) => req[q].code # c /\ q # r
      BY <1>1, <2>1, <3>1 DEF OnePlace, Sending, Accepting, Does
    <3>5. \A y \in rows' : y.code # c
      BY <1>1, <2>2, <2>4, <3>1 DEF OnePlace
    <3>. HIDE DEF c, hit, v
    <3>6. CodesShape'
      BY <1>1, <2>1, <2>2, <3>2 DEF CodesShape
    <3>7. Issued'
      BY <1>1, <2>1, <2>2, <2>4, <3>2, <3>3, <3>4 DEF Issued, Sending, Accepting, Does
    <3>8. OnePlace'
      BY <1>1, <2>1, <2>2, <2>4, <3>2, <3>3, <3>4, <3>5 DEF OnePlace, Sending, Accepting, Does
    <3>. QED BY <3>6, <3>7, <3>8 DEF PlaceInv
  <2>. QED BY <2>3, <2>4
<1>12. ASSUME NEW r \in Requests, NEW spent \in BOOLEAN, VerifyFails(r, spent) PROVE PlaceInv'
  <2>1. usesDb
    BY <1>1, <1>12 DEF VerifyFails, CodesShape, Does
  <2>. QED BY <1>1, <1>2, <1>12, <2>1, IdleIsDoing DEF VerifyFails, history
<1>13. ASSUME NEW r \in Requests, Accepts(r) PROVE PlaceInv'
  <2>. DEFINE c == req[r].code
  <2>1. /\ c \in Codes /\ c \in 1..issued /\ accepted[c] = 0 /\ usesDb /\ Accepting(r)
        /\ \A x \in rows : x.code # c
        /\ \A q \in Requests : Sending(q) \/ Accepting(q) => q = r \/ req[q].code # c
    BY <1>1, <1>13, Constants DEF Accepts, CodesShape, Issued, OnePlace, Accepting, Does, Codes
  <2>2. /\ accepted' = [accepted EXCEPT ![c] = @ + 1]
        /\ memory' \subseteq memory /\ \A x \in memory' : x.code # c
        /\ UNCHANGED <<usesDb, now, rows, issued>>
    BY <1>13 DEF Accepts, CountAccepted, Spent, Fresh
  <2>3. accepted' \in [Codes -> {0, 1}] /\ accepted'[c] = 1
        /\ \A k \in Codes : k # c => accepted'[k] = accepted[k]
    BY <1>1, <2>1, <2>2 DEF CodesShape
  <2>4. req' \in [Requests -> Doing] /\ req'[r] = Idle /\ \A q \in Requests : q # r => req'[q] = req[q]
    BY <1>1, <1>13, OneMoves, IdleIsDoing DEF Accepts
  <2>5. \A q \in Requests : Sending(q)' \/ Accepting(q)' =>
              (Sending(q) \/ Accepting(q)) /\ req'[q] = req[q] /\ req[q].code # c
    BY <2>1, <2>4, IdleIsDoing DEF Sending, Accepting, Does
  <2>. HIDE DEF c
  <2>6. CodesShape'
    BY <1>1, <2>1, <2>2, <2>3, <2>4 DEF CodesShape
  <2>7. Issued'
    BY <1>1, <2>1, <2>2, <2>3, <2>5 DEF Issued
  <2>8. OnePlace'
    BY <1>1, <2>1, <2>2, <2>3, <2>5 DEF OnePlace, CodesShape, Rows, Issued
  <2>. QED BY <2>6, <2>7, <2>8 DEF PlaceInv
<1>14. ASSUME NEW r \in Requests, Rejects(r) PROVE PlaceInv'
  <2>1. usesDb
    BY <1>1, <1>14 DEF Rejects, CodesShape, Does
  <2>. QED BY <1>1, <1>2, <1>14, <2>1, IdleIsDoing DEF Rejects, history
<1>15. CASE Restart
  <2>1. req' \in [Requests -> Doing] /\ \A r \in Requests : req'[r].does = "nothing"
    BY <1>15, IdleIsDoing DEF Restart
  <2>2. \A r \in Requests : Withdrawn(r)
    BY <2>1 DEF Withdrawn
  <2>. QED BY <1>1, <1>15, <2>1, <2>2, NothingNew DEF Restart, CodesShape
<1>16. CASE Tick
  BY <1>1, <1>3, <1>16 DEF Tick, history, CodesShape
<1>17. CASE UNCHANGED vars
  BY <1>1, <1>3, <1>17 DEF vars, history, CodesShape
<1>. QED
  BY <1>4, <1>5, <1>6, <1>7, <1>8, <1>9, <1>10, <1>11, <1>12, <1>13, <1>14, <1>15, <1>16, <1>17
     DEF Next

LEMMA AtMostOne ==
    ASSUME NEW S, \A x, y \in S : x = y
    PROVE  Cardinality(S) \in {0, 1} /\ (Cardinality(S) = 1 => S # {})
<1>1. CASE S = {}
  BY <1>1, FS_EmptySet
<1>2. CASE S # {}
  <2>1. PICK x \in S : TRUE
    BY <1>2
  <2>2. S = {x}
    BY <2>1
  <2>. QED BY <1>2, <2>2, FS_Singleton
<1>. QED BY <1>1, <1>2

\* For any number of requests at once, with and without a database, whatever
\* fails and however often the process restarts: a code is accepted at most
\* once, and stays valid nowhere (consumeOtp's DELETE ... RETURNING and the
\* memory's deletion).
THEOREM CodesAreSingleUse == Spec => []SingleUse
<1>1. GuardInv => SingleUse
  <2>. SUFFICES ASSUME GuardInv, NEW c \in Codes
                PROVE  /\ accepted[c] + Cardinality({r \in Requests : Does(r, "accept") /\ req[r].code = c}) <= 1
                       /\ accepted[c] > 0 => Matching(rows, c) = {} /\ Matching(memory, c) = {}
    BY DEF SingleUse
  <2>. DEFINE S == {r \in Requests : Does(r, "accept") /\ req[r].code = c}
  <2>1. CodesShape /\ OnePlace
    BY DEF GuardInv, PlaceInv
  <2>2. accepted[c] \in {0, 1} /\ (S # {} => accepted[c] = 0) /\ \A r, s \in S : r = s
    BY <2>1 DEF CodesShape, OnePlace, Accepting
  <2>3. Cardinality(S) \in {0, 1} /\ (Cardinality(S) = 1 => S # {})
    BY <2>2, AtMostOne
  <2>4. accepted[c] > 0 => Matching(rows, c) = {} /\ Matching(memory, c) = {}
    BY <2>1 DEF OnePlace, Matching, CodesShape, Rows
  <2>. HIDE DEF S
  <2>5. accepted[c] + Cardinality(S) <= 1
    BY <2>2, <2>3
  <2>. QED BY <2>4, <2>5 DEF S
<1>. QED BY <1>1, PlaceInit, PlaceStep, PTL DEF Spec
-----------------------------------------------------------------------------
\* One issuing request at a time

LEMMA GuardTtlIsPositive == GuardTtl \in Nat /\ GuardTtl > 0
<1>. DEFINE S == {DailyWindow, AttemptWindow, LockTime}
<1>1. \E m \in S : \A y \in S : m >= y
  BY Constants
<1>2. Max(S) \in S
  BY <1>1 DEF Max
<1>. QED BY <1>2, Constants DEF GuardTtl

LEMMA PrunedIsKept ==
    ASSUME GuardShape(guard), now \in Nat
    PROVE  /\ Pruned.kept /\ Pruned.born \in Nat /\ Pruned.born + GuardTtl > now
           /\ Kept => /\ Pruned.born = guard.born /\ Pruned.sent = guard.sent
                      /\ Pruned.lastSentAt = guard.lastSentAt
<1>1. CASE Kept
  BY <1>1 DEF Kept, Pruned, GuardShape, Guards
<1>2. CASE ~Kept
  <2>1. Pruned.kept /\ Pruned.born = now
    BY <1>2 DEF Pruned, NoGuard
  <2>. QED BY <1>2, <2>1, GuardTtlIsPositive
<1>. QED BY <1>1, <1>2

\* What a step within a tick leaves of a guard that is still kept.
KeepsGuard ==
    Kept => /\ Kept' /\ guard'.born = guard.born
            /\ guard.sent /\ guard.lastSentAt = now => guard'.sent /\ guard'.lastSentAt = now

LEMMA GuardStays ==
    ASSUME GuardInv, [Next]_vars, ~Tick, ~Restart
    PROVE  KeepsGuard /\ now' = now
<1>1. now \in Nat /\ GuardShape(guard) /\ guard \in Guards
  BY DEF GuardInv, PlaceInv, CodesShape, GuardShape
<1>2. ASSUME now' = now,
             \/ guard' = guard
             \/ guard'.kept = guard.kept /\ guard'.born = guard.born
                /\ guard'.sent = guard.sent /\ guard'.lastSentAt = guard.lastSentAt
             \/ /\ guard'.kept /\ guard'.born = Pruned.born
                /\ \/ guard'.sent = Pruned.sent /\ guard'.lastSentAt = Pruned.lastSentAt
                   \/ guard'.sent /\ guard'.lastSentAt = now
      PROVE  KeepsGuard /\ now' = now
  BY <1>1, <1>2, PrunedIsKept DEF KeepsGuard, Kept
<1>3. /\ Pruned \in Guards /\ Pruned.kept
      /\ \A t : /\ WithWrong(Pruned, t).kept = Pruned.kept /\ WithWrong(Pruned, t).born = Pruned.born
                /\ WithWrong(Pruned, t).sent = Pruned.sent
                /\ WithWrong(Pruned, t).lastSentAt = Pruned.lastSentAt
      /\ Cleared(Pruned).kept = Pruned.kept /\ Cleared(Pruned).born = Pruned.born
      /\ Cleared(Pruned).sent = Pruned.sent /\ Cleared(Pruned).lastSentAt = Pruned.lastSentAt
  <2>1. Pruned \in Guards /\ Pruned.kept
    BY <1>1, PrunedShape, PrunedIsKept DEF GuardShape
  <2>. QED BY <2>1 DEF WithWrong, Locked, Noted, Cleared, Guards
<1>4. ASSUME NEW r \in Requests, Issue(r) PROVE KeepsGuard /\ now' = now
  <2>1. guard'.kept = Pruned.kept /\ guard'.born = Pruned.born /\ guard'.sent /\ guard'.lastSentAt = now
        /\ now' = now
    BY <1>3, <1>4 DEF Issue, Guards
  <2>. QED BY <1>2, <1>3, <2>1
<1>5. ASSUME NEW r \in Requests, Refused(r) PROVE KeepsGuard /\ now' = now
  BY <1>2, <1>3, <1>5 DEF Refused
<1>6. ASSUME NEW r \in Requests, NEW c, Verify(r, c) PROVE KeepsGuard /\ now' = now
  BY <1>2, <1>3, <1>6 DEF Verify
<1>7. ASSUME NEW r \in Requests, NEW c, VerifyInMemory(r, c) PROVE KeepsGuard /\ now' = now
  BY <1>2, <1>3, <1>7 DEF VerifyInMemory
<1>8. ASSUME NEW r \in Requests, Accepts(r) \/ Rejects(r) PROVE KeepsGuard /\ now' = now
  <2>1. now' = now /\ (guard' = guard \/ guard' = Cleared(guard) \/ guard' = WithWrong(guard, req[r].at))
    BY <1>8 DEF Accepts, Rejects, history
  <2>2. CASE guard' = Cleared(guard)
    BY <1>1, <1>2, <2>1, <2>2 DEF Cleared, Guards
  <2>3. CASE guard' = WithWrong(guard, req[r].at)
    <3>1. /\ guard'.kept = guard.kept /\ guard'.born = guard.born
          /\ guard'.sent = guard.sent /\ guard'.lastSentAt = guard.lastSentAt
      BY <1>1, <2>3 DEF WithWrong, Locked, Noted, Guards
    <3>. QED BY <1>2, <2>1, <3>1
  <2>. QED BY <1>2, <2>1, <2>2, <2>3
<1>9. ASSUME UNCHANGED <<now, guard>> PROVE KeepsGuard /\ now' = now
  BY <1>2, <1>9
<1>. QED
  BY <1>4, <1>5, <1>6, <1>7, <1>8, <1>9
     DEF Next, vars, IssueDeletes, IssueFails, IssueCommits, Judged, VerifyFails

\* A call that goes on, or ends.
SameCall(r) ==
    \/ req'[r] = req[r]
    \/ req'[r].does = "nothing"
    \/ /\ req[r].does # "nothing" /\ req'[r].at = req[r].at /\ req'[r].guard = req[r].guard
       /\ Sending(r)' <=> Sending(r)

LEMMA StaysPrompt ==
    ASSUME Prompt, KeepsGuard, now' = now, \A r \in Requests : SameCall(r)
    PROVE  Prompt'
BY DEF Prompt, KeepsGuard, SameCall, Sending, Does

LEMMA PromptStep == ShortCalls /\ GuardInv /\ Prompt /\ [Next]_vars => Prompt'
<1>. SUFFICES ASSUME ShortCalls, GuardInv, Prompt, [Next]_vars PROVE Prompt'
  OBVIOUS
<1>1. CodesShape /\ GuardShape(guard) /\ now \in Nat
  BY DEF GuardInv, PlaceInv, CodesShape
<1>2. CASE Tick \/ Restart
  <2>1. \A r \in Requests : req'[r] = Idle
    BY <1>2 DEF Tick, Restart
  <2>. QED BY <2>1, IdleIsDoing DEF Prompt
<1>3. CASE ~Tick /\ ~Restart
  <2>1. KeepsGuard /\ now' = now
    BY <1>3, GuardStays
  <2>2. ASSUME NEW r \in Requests, NEW v \in Doing, req' = [req EXCEPT ![r] = v],
               /\ v.at = now /\ Kept'
               /\ IF v.does \in {"issue", "insert"} THEN guard'.sent /\ guard'.lastSentAt = now
                                                  ELSE v.guard = guard'.born
        PROVE  Prompt'
    <3>1. req'[r] = v /\ \A q \in Requests : q # r => req'[q] = req[q]
      BY <1>1, <2>2, OneMoves
    <3>. QED BY <2>1, <2>2, <3>1 DEF Prompt, KeepsGuard, Sending, Does
  <2>4. ASSUME UNCHANGED req PROVE Prompt'
    BY <2>1, <2>4, StaysPrompt DEF SameCall
  <2>5. ASSUME NEW r \in Requests, req' = [req EXCEPT ![r] = Idle] PROVE Prompt'
    <3>1. \A q \in Requests : SameCall(q)
      BY <1>1, <2>5, IdleIsDoing, OneMoves DEF SameCall
    <3>. QED BY <2>1, <3>1, StaysPrompt
  <2>6. ASSUME NEW r \in Requests, Issue(r) PROVE Prompt'
    <3>. DEFINE v == [Idle EXCEPT !.does = "issue", !.code = issued + 1, !.at = now]
    <3>1. CASE usesDb
      <4>1. req' = [req EXCEPT ![r] = v] /\ v.at = now /\ v.does = "issue"
        BY <2>6, <3>1 DEF Issue, Idle
      <4>2. v \in Doing
        <5>1. issued + 1 \in Nat
          BY <1>1 DEF CodesShape
        <5>. QED BY <1>1, <5>1 DEF Doing, Idle
      <4>3. Pruned \in Guards
        BY <1>1, PrunedShape DEF GuardShape
      <4>4. guard'.sent /\ guard'.lastSentAt = now /\ guard'.kept /\ guard'.born = Pruned.born
        BY <1>1, <2>6, <4>3, PrunedIsKept DEF Issue, Guards
      <4>5. Kept'
        BY <1>1, <2>1, <4>4, PrunedIsKept DEF Kept
      <4>. HIDE DEF v
      <4>. QED BY <2>2, <4>1, <4>2, <4>4, <4>5
    <3>2. CASE ~usesDb
      BY <2>4, <2>6, <3>2 DEF Issue
    <3>. QED BY <3>1, <3>2
  <2>7. ASSUME NEW r \in Requests, NEW c \in {Guess} \cup 1..issued, Verify(r, c) PROVE Prompt'
    <3>. DEFINE v == [Idle EXCEPT !.does = "verify", !.code = c, !.at = now, !.guard = Pruned.born]
    <3>1. Pruned.born \in Nat /\ c \in Nat
      BY <1>1, <2>7, PrunedShape DEF GuardShape, Guards, CodesShape, Guess
    <3>2. v \in Doing /\ v.does = "verify" /\ v.at = now /\ v.guard = Pruned.born
      BY <1>1, <3>1 DEF Doing, Idle
    <3>3. guard' = Pruned /\ req' = [req EXCEPT ![r] = v]
      BY <2>7 DEF Verify
    <3>4. Kept'
      BY <1>1, <2>1, <3>3, PrunedIsKept DEF Kept
    <3>. HIDE DEF v
    <3>. QED BY <2>2, <3>2, <3>3, <3>4
  <2>8. ASSUME NEW r \in Requests, IssueDeletes(r) PROVE Prompt'
    <3>1. \A q \in Requests : SameCall(q)
      BY <1>1, <2>8 DEF IssueDeletes, SameCall, CodesShape, Doing, Sending, Does
    <3>. QED BY <2>1, <3>1, StaysPrompt
  <2>9. ASSUME NEW r \in Requests, Judged(r) PROVE Prompt'
    <3>1. PICK w \in {"accept", "reject"} : req' = [req EXCEPT ![r].does = w]
      BY <2>9 DEF Judged
    <3>2. \A q \in Requests : SameCall(q)
      BY <1>1, <2>9, <3>1 DEF Judged, SameCall, CodesShape, Doing, Sending, Does
    <3>. QED BY <2>1, <3>2, StaysPrompt
  <2>. QED
    BY <1>3, <2>4, <2>5, <2>6, <2>7, <2>8, <2>9
       DEF Next, vars, Refused, IssueFails, IssueCommits, VerifyInMemory, VerifyFails, Accepts, Rejects
<1>. QED BY <1>2, <1>3

LEMMA StaysOne ==
    ASSUME OneIssues, UNCHANGED <<usesDb, latest>>, rows' \subseteq rows,
           usesDb \/ memory' \subseteq memory, usesDb \in BOOLEAN,
           \A r \in Requests : Sending(r)' =>
               Sending(r) /\ (req'[r] = req[r] \/ req'[r].seen = rows)
    PROVE  OneIssues'
<1>. USE DEF OneIssues, Sending, Does
<1>1. (\A r, s \in Requests : Sending(r) /\ Sending(s) => r = s)'
  OBVIOUS
<1>2. (\A r \in Requests : Does(r, "insert") => rows \subseteq req[r].seen)'
  OBVIOUS
<1>3. (\A x \in rows \cup (IF usesDb THEN {} ELSE memory) : x.code = latest)'
  OBVIOUS
<1>. QED BY <1>1, <1>2, <1>3

LEMMA OneIssuesStep == LatestInv /\ [Next]_vars => OneIssues'
<1>. SUFFICES ASSUME LatestInv, [Next]_vars PROVE OneIssues'
  OBVIOUS
<1>1. /\ CodesShape /\ GuardShape(guard) /\ Prompt /\ OneIssues
      /\ now \in Nat /\ usesDb \in BOOLEAN
  BY DEF LatestInv, GuardInv, PlaceInv, CodesShape
<1>2. ASSUME NEW r \in Requests, NEW v \in Doing, req' = [req EXCEPT ![r] = v],
             v.does \in {"nothing", "verify", "accept", "reject"}
             \/ (Sending(r) /\ v.does = "insert" /\ v.seen = rows),
             UNCHANGED <<usesDb, latest>>, rows' \subseteq rows,
             usesDb \/ memory' \subseteq memory
      PROVE  OneIssues'
  <2>1. req'[r] = v /\ \A q \in Requests : q # r => req'[q] = req[q]
    BY <1>1, <1>2, OneMoves
  <2>. QED BY <1>1, <1>2, <2>1, StaysOne DEF Sending, Does
<1>3. ASSUME UNCHANGED <<usesDb, latest, rows, req>>, usesDb \/ memory' \subseteq memory
      PROVE  OneIssues'
  BY <1>1, <1>3, StaysOne DEF Sending, Does
<1>4. ASSUME NEW r \in Requests, Issue(r) PROVE OneIssues'
  <2>. DEFINE v == [Idle EXCEPT !.does = "issue", !.code = issued + 1, !.at = now]
  <2>1. CASE usesDb
    <3>1. ASSUME NEW s \in Requests, Sending(s) PROVE FALSE
      <4>1. Kept /\ guard.sent /\ guard.lastSentAt = now
        BY <1>1, <3>1 DEF Prompt, Sending, Does
      <4>2. Pruned.sent /\ Pruned.lastSentAt = now
        BY <1>1, <4>1, PrunedIsKept
      <4>3. now >= now + Cooldown
        BY <1>4, <4>2 DEF Issue, MaySend
      <4>. QED BY <1>1, <4>3, Constants
    <3>2. issued + 1 \in Nat
      BY <1>1 DEF CodesShape
    <3>3. v \in Doing /\ v.does = "issue"
      BY <1>1, <3>2 DEF Doing, Idle
    <3>4. req'[r] = v /\ \A q \in Requests : q # r => req'[q] = req[q]
      BY <1>1, <1>4, <2>1, <3>3, OneMoves DEF Issue
    <3>5. UNCHANGED <<usesDb, latest, rows>>
      BY <1>4, <2>1 DEF Issue
    <3>. HIDE DEF v
    <3>. QED BY <1>1, <2>1, <3>1, <3>3, <3>4, <3>5 DEF OneIssues, Sending, Does
  <2>2. CASE ~usesDb
    <3>1. /\ memory' = {Challenge(issued + 1)} /\ latest' = issued + 1
          /\ UNCHANGED <<usesDb, req, rows>>
      BY <1>4, <2>2 DEF Issue
    <3>2. rows = {} /\ \A q \in Requests : req[q].does = "nothing"
      BY <1>1, <2>2 DEF CodesShape
    <3>3. Challenge(issued + 1).code = issued + 1
      BY DEF Challenge
    <3>. QED BY <2>2, <3>1, <3>2, <3>3 DEF OneIssues, Sending, Does
  <2>. QED BY <2>1, <2>2
<1>5. ASSUME NEW r \in Requests, IssueDeletes(r) PROVE OneIssues'
  <2>. DEFINE v == [req[r] EXCEPT !.does = "insert", !.seen = rows]
  <2>1. v \in Doing /\ v.does = "insert" /\ v.seen = rows /\ req' = [req EXCEPT ![r] = v]
    BY <1>1, <1>5 DEF IssueDeletes, CodesShape, Doing
  <2>. HIDE DEF v
  <2>. QED BY <1>2, <1>5, <2>1 DEF IssueDeletes, Sending
<1>6. ASSUME NEW r \in Requests, NEW known \in BOOLEAN, IssueCommits(r, known) PROVE OneIssues'
  <2>. DEFINE c == req[r].code
              x == [code |-> c, expires |-> req[r].at + CodeTtl]
  <2>1. /\ rows' = (rows \ req[r].seen) \cup {x} /\ latest' = c /\ x.code = c
        /\ req' = [req EXCEPT ![r] = Idle] /\ usesDb' = usesDb
    BY <1>6 DEF IssueCommits
  <2>2. usesDb /\ rows \subseteq req[r].seen /\ Sending(r)
    BY <1>1, <1>6 DEF IssueCommits, CodesShape, OneIssues, Sending, Does
  <2>3. req'[r] = Idle /\ \A q \in Requests : q # r => req'[q] = req[q]
    BY <1>1, <2>1, IdleIsDoing, OneMoves
  <2>4. \A q \in Requests : ~Sending(q)'
    BY <1>1, <2>2, <2>3, IdleIsDoing DEF OneIssues, Sending, Does
  <2>. HIDE DEF x, c
  <2>5. rows' \subseteq {x}
    BY <2>1, <2>2
  <2>. QED BY <2>1, <2>2, <2>4, <2>5 DEF OneIssues, Sending, Does
<1>7. ASSUME NEW r \in Requests, IssueFails(r) \/ Rejects(r) \/ Accepts(r)
                                 \/ \E spent \in BOOLEAN : VerifyFails(r, spent)
      PROVE  OneIssues'
  <2>1. req' = [req EXCEPT ![r] = Idle] /\ UNCHANGED <<usesDb, latest>> /\ rows' \subseteq rows
    BY <1>7 DEF IssueFails, Rejects, Accepts, VerifyFails
  <2>2. usesDb
    BY <1>1, <1>7 DEF IssueFails, Rejects, Accepts, VerifyFails, CodesShape, Does
  <2>. QED BY <1>2, <2>1, <2>2, IdleIsDoing
<1>8. ASSUME NEW r \in Requests, NEW c \in {Guess} \cup 1..issued, Verify(r, c) PROVE OneIssues'
  <2>. DEFINE v == [Idle EXCEPT !.does = "verify", !.code = c, !.at = now, !.guard = Pruned.born]
  <2>1. Pruned.born \in Nat /\ c \in Nat
    BY <1>1, <1>8, PrunedShape DEF GuardShape, Guards, CodesShape, Guess
  <2>2. v \in Doing /\ v.does = "verify"
    BY <1>1, <2>1 DEF Doing, Idle
  <2>3. req' = [req EXCEPT ![r] = v] /\ UNCHANGED <<usesDb, latest, rows, memory>>
    BY <1>8 DEF Verify
  <2>. HIDE DEF v
  <2>. QED BY <1>2, <2>2, <2>3
<1>9. ASSUME NEW r \in Requests, Judged(r) PROVE OneIssues'
  <2>1. PICK w \in {"accept", "reject"} : req' = [req EXCEPT ![r].does = w]
    BY <1>9 DEF Judged
  <2>. DEFINE v == [req[r] EXCEPT !.does = w]
  <2>2. v \in Doing /\ v.does = w /\ req' = [req EXCEPT ![r] = v]
    BY <1>1, <2>1 DEF CodesShape, Doing
  <2>3. rows' \subseteq rows /\ UNCHANGED <<usesDb, latest, memory>>
    BY <1>9 DEF Judged, Valid
  <2>. HIDE DEF v
  <2>. QED BY <1>2, <2>1, <2>2, <2>3
<1>10. ASSUME NEW r \in Requests, NEW c, VerifyInMemory(r, c) PROVE OneIssues'
  BY <1>3, <1>10 DEF VerifyInMemory, Spent, Fresh
<1>11. CASE Restart
  <2>1. \A q \in Requests : ~Sending(q)'
    BY <1>11, IdleIsDoing DEF Restart, Sending, Does
  <2>2. UNCHANGED <<usesDb, latest, rows>> /\ memory' = {}
    BY <1>11 DEF Restart
  <2>. QED BY <1>1, <2>1, <2>2, StaysOne
<1>. QED
  BY <1>3, <1>4, <1>5, <1>6, <1>7, <1>8, <1>9, <1>10, <1>11 DEF Next, vars, Refused, Tick

LEMMA LatestInit == Init => LatestInv
<1>. SUFFICES ASSUME Init PROVE LatestInv
  OBVIOUS
<1>1. (\A r \in Requests : req[r] = Idle) /\ rows = {} /\ memory = {} /\ usesDb \in BOOLEAN
  BY DEF Init
<1>2. Prompt
  BY <1>1, IdleIsDoing DEF Prompt
<1>3. OneIssues
  BY <1>1, IdleIsDoing DEF OneIssues, Sending, Does
<1>. QED BY <1>2, <1>3, PlaceInit DEF LatestInv

\* For any number of requests, with and without a database: as long as no
\* database call outlasts the cooldown, the only code that can be accepted is
\* the last one sent (issueOtp deletes the others, and its cooldown keeps two
\* transactions of one target apart).
THEOREM OnlyTheLatestCounts == ASSUME ShortCalls PROVE Spec => []OnlyTheLatest
<1>1. LatestInv => OnlyTheLatest
  BY DEF LatestInv, OneIssues, OnlyTheLatest, Live, Valid, Fresh
<1>2. LatestInv /\ [Next]_vars => LatestInv'
  BY PlaceStep, PromptStep, OneIssuesStep DEF LatestInv
<1>. QED BY <1>1, <1>2, LatestInit, PTL DEF Spec
-----------------------------------------------------------------------------
\* Every wrong attempt on a valid code is accounted for

\* The code lives shorter than the window of attempts and than the lock: ten
\* minutes against fifteen in the code.
CodeEndsFirst == CodeTtl < AttemptWindow /\ CodeTtl < LockTime

LEMMA CountMoves ==
    ASSUME CodesShape, NEW r \in Requests, NEW u \in Doing, req' = [req EXCEPT ![r] = u], NEW w
    PROVE  /\ Cardinality(InPhase(w)) \in Nat /\ Cardinality(InPhase(w)') \in Nat
           /\ (req[r].does = w <=> u.does = w) => Cardinality(InPhase(w)') = Cardinality(InPhase(w))
           /\ req[r].does = w /\ u.does # w => Cardinality(InPhase(w)') = Cardinality(InPhase(w)) - 1
           /\ req[r].does # w /\ u.does = w => Cardinality(InPhase(w)') = Cardinality(InPhase(w)) + 1
<1>. DEFINE P == InPhase(w)
            Q == InPhase(w)'
<1>1. req'[r] = u /\ \A q \in Requests : q # r => req'[q] = req[q]
  BY OneMoves
<1>2. IsFiniteSet(P) /\ IsFiniteSet(Q)
  BY FS_Subset, Constants DEF InPhase
<1>3. Cardinality(P) \in Nat /\ Cardinality(Q) \in Nat
  BY <1>2, FS_CardinalityType
<1>4. /\ r \in P <=> req[r].does = w
      /\ Q = IF u.does = w THEN P \cup {r} ELSE P \ {r}
  BY <1>1 DEF InPhase, Does
<1>. HIDE DEF P, Q
<1>5. /\ Cardinality(P \cup {r}) = IF r \in P THEN Cardinality(P) ELSE Cardinality(P) + 1
      /\ Cardinality(P \ {r}) = IF r \in P THEN Cardinality(P) - 1 ELSE Cardinality(P)
  BY <1>2, FS_AddElement, FS_RemoveElement
<1>6. /\ (req[r].does = w <=> u.does = w) => Cardinality(Q) = Cardinality(P)
      /\ req[r].does = w /\ u.does # w => Cardinality(Q) = Cardinality(P) - 1
      /\ req[r].does # w /\ u.does = w => Cardinality(Q) = Cardinality(P) + 1
  BY <1>3, <1>4, <1>5
<1>. QED BY <1>3, <1>6 DEF P, Q

LEMMA PhasesCount ==
    /\ Cardinality(Requests) \in Nat /\ Limit \in Nat
    /\ Cardinality(InPhase("verify")) \in Nat /\ Cardinality(InPhase("reject")) \in Nat
    /\ Cardinality(InPhase("verify")) + Cardinality(InPhase("reject")) <= Cardinality(Requests)
<1>. DEFINE V == InPhase("verify")
            J == InPhase("reject")
<1>1. V \cup J \in SUBSET Requests /\ V \cap J = {} /\ V \in SUBSET Requests /\ J \in SUBSET Requests
  BY DEF InPhase, Does
<1>. HIDE DEF V, J
<1>2. IsFiniteSet(Requests) /\ IsFiniteSet(V) /\ IsFiniteSet(J) /\ IsFiniteSet(V \cup J)
      /\ Cardinality(V \cup J) <= Cardinality(Requests)
  BY <1>1, FS_Subset, Constants
<1>3. Cardinality(V \cup J) = Cardinality(V) + Cardinality(J) - Cardinality(V \cap J)
  BY <1>2, FS_Union
<1>4. Cardinality(V \cap J) = 0
  BY <1>1, FS_EmptySet
<1>5. Cardinality(V) \in Nat /\ Cardinality(J) \in Nat /\ Cardinality(Requests) \in Nat
  BY <1>2, FS_CardinalityType
<1>. QED BY <1>2, <1>3, <1>4, <1>5, Constants DEF V, J, Limit

LEMMA AgainstCount ==
    ASSUME NEW g, GuardShape(g), NEW x
    PROVE  /\ IsFiniteSet(Against(g, x)) /\ Cardinality(Against(g, x)) \in Nat
           /\ Cardinality(Against(g, x)) <= MaxWrongAttempts - 1
<1>1. IsFiniteSet(Against(g, x)) /\ Cardinality(Against(g, x)) <= Cardinality(g.wrongAt)
  BY FS_Subset DEF Against, GuardShape
<1>2. Cardinality(Against(g, x)) \in Nat /\ Cardinality(g.wrongAt) \in Nat
  BY <1>1, FS_CardinalityType DEF GuardShape
<1>. QED BY <1>1, <1>2, Constants DEF GuardShape

LEMMA CoveredIsBounded ==
    ASSUME NEW g, GuardShape(g), NEW x, NEW w \in Nat, NEW v \in Nat, NEW j \in Nat,
           Covered(x, g, w, v, j), j <= Cardinality(Requests)
    PROVE  w <= Limit
BY AgainstCount, PhasesCount, Constants DEF Covered, Limit

\* Pruning a guard takes nothing from what it holds against a live challenge.
LEMMA PrunedCovers ==
    ASSUME CodeEndsFirst, GuardShape(guard), now \in Nat, wrongs \in [Codes -> Nat],
           NEW x, x.code \in Codes, x.expires \in Nat, x.expires >= now,
           NEW v \in Nat, NEW j \in Nat, Covered(x, guard, wrongs[x.code], v, j)
    PROVE  Covered(x, Pruned, CountedWrongs[x.code], v, j)
<1>1. CASE Kept
  <2>1. /\ Pruned.wrongAt = RecentWrongs(guard.wrongAt) /\ CountedWrongs = wrongs
        /\ guard.lockedUntil > now => Pruned.lockedUntil = guard.lockedUntil
    BY <1>1 DEF Pruned, GuardShape, Guards, CountedWrongs
  <2>2. \A a \in guard.wrongAt : a[1] + CodeTtl >= x.expires => a[1] + AttemptWindow > now
    BY Constants DEF GuardShape, Guards, CodeEndsFirst
  <2>3. Against(Pruned, x) = Against(guard, x)
    BY <2>1, <2>2 DEF Against, RecentWrongs
  <2>4. x.expires < guard.lockedUntil => Pruned.lockedUntil = guard.lockedUntil
    BY <2>1 DEF GuardShape, Guards
  <2>. QED BY <2>1, <2>3, <2>4 DEF Covered
<1>2. CASE ~Kept
  <2>1. CountedWrongs[x.code] = 0
    BY <1>2 DEF CountedWrongs
  <2>2. Cardinality(Against(Pruned, x)) \in Nat
    BY AgainstCount, PrunedShape
  <2>. QED BY <2>1, <2>2 DEF Covered
<1>. QED BY <1>1, <1>2

\* The guard takes up one of the attempts on their way to it.
LEMMA WithWrongCovers ==
    ASSUME CodeEndsFirst, NEW g, GuardShape(g), NEW t \in Nat,
           NEW x, x.expires \in Nat, x.expires <= t + CodeTtl,
           NEW w \in Nat, NEW v \in Nat, NEW j \in Nat,
           Covered(x, g, w, v, j + 1), v + j + 1 <= Cardinality(Requests)
    PROVE  Covered(x, WithWrong(g, t), w, v, j)
<1>. DEFINE a == Attempt(g, t)
            G == WithWrong(g, t)
            n == Cardinality(Against(g, x))
<1>0. n \in Nat /\ n <= MaxWrongAttempts - 1 /\ IsFiniteSet(Against(g, x))
  BY AgainstCount
<1>1. CASE Cardinality(g.wrongAt) + 1 >= MaxWrongAttempts
  <2>1. G.lockedUntil = t + LockTime
    BY <1>1 DEF WithWrong, Locked, GuardShape, Guards
  <2>2. x.expires < G.lockedUntil
    BY <2>1, Constants DEF CodeEndsFirst
  <2>3. w + v <= Limit
    <3>1. CASE w + v <= Limit
      BY <3>1
    <3>2. CASE w <= n + (j + 1)
      BY <1>0, <3>2, PhasesCount, Constants DEF Limit
    <3>. QED BY <3>1, <3>2 DEF Covered
  <2>. QED BY <2>2, <2>3 DEF Covered
<1>2. CASE ~(Cardinality(g.wrongAt) + 1 >= MaxWrongAttempts)
  <2>1. a \notin g.wrongAt /\ a[1] = t
    BY AttemptIsNew
  <2>2. G.wrongAt = g.wrongAt \cup {a} /\ G.lockedUntil = g.lockedUntil
    BY <1>2 DEF WithWrong, Noted, GuardShape, Guards
  <2>3. Against(G, x) = Against(g, x) \cup {a} /\ a \notin Against(g, x)
    BY <2>1, <2>2 DEF Against
  <2>4. Cardinality(Against(G, x)) = n + 1
    BY <1>0, <2>3, FS_AddElement
  <2>. HIDE DEF G, n
  <2>5. w <= n + (j + 1) => w <= (n + 1) + j
    BY <1>0
  <2>. QED BY <2>2, <2>4, <2>5 DEF Covered, n, G
<1>. QED BY <1>1, <1>2

\* A step that judges no attempt wrong: what is left of the wrong attempts is
\* covered as before, or nothing is left of them.
LEMMA StaysAccounted ==
    ASSUME Accounted, CodesShape, wrongs' \in [Codes -> Nat],
           \A c \in Codes : wrongs'[c] <= wrongs[c],
           issued' \in Nat, issued' >= issued, now' \in Nat, now' >= now,
           \A r \in Requests : Sending(r)' =>
               /\ req'[r].code \in Codes
               /\ wrongs[req'[r].code] = 0 \/ (Sending(r) /\ req'[r].code = req[r].code),
           \A x \in rows' \cup memory' : x \in rows \cup memory \/ x.expires <= now' + CodeTtl,
           \A x \in Live' : Covered(x, guard', wrongs'[x.code], Cardinality(InPhase("verify")'),
                                   Cardinality(InPhase("reject")'))
    PROVE  Accounted'
<1>1. Limit \in Nat /\ CodeTtl \in Nat
  BY PhasesCount, Constants
<1>2. \A c \in Codes : wrongs'[c] <= Limit /\ (wrongs'[c] > 0 => c <= issued')
  BY <1>1 DEF Accounted, CodesShape, Codes
<1>3. \A r \in Requests : Sending(r)' => wrongs'[req'[r].code] = 0
  <2>. SUFFICES ASSUME NEW r \in Requests, Sending(r)' PROVE wrongs'[req'[r].code] = 0
    OBVIOUS
  <2>1. req'[r].code \in Codes /\ wrongs[req'[r].code] = 0
    BY DEF Accounted
  <2>. QED BY <2>1
<1>4. \A x \in rows' \cup memory' : x.expires <= now' + CodeTtl
  <2>. SUFFICES ASSUME NEW x \in rows \cup memory PROVE x.expires <= now' + CodeTtl
    OBVIOUS
  <2>1. x.expires \in Nat /\ x.expires <= now + CodeTtl /\ now \in Nat
    BY DEF Accounted, CodesShape, Rows
  <2>. QED BY <1>1, <2>1
<1>5. (\A x \in Live : Covered(x, guard, wrongs[x.code], Cardinality(InPhase("verify")),
                              Cardinality(InPhase("reject"))))'
  BY DEF Covered, Against, InPhase, Does
<1>. QED BY <1>2, <1>3, <1>4, <1>5 DEF Accounted, Sending, Does

LEMMA LiveShape ==
    ASSUME CodesShape, NEW x \in Live
    PROVE  /\ x \in rows \cup memory /\ x.code \in Codes /\ x.expires \in Nat /\ x.expires >= now
           /\ usesDb => x \in rows
BY DEF CodesShape, Live, Valid, Fresh, Rows

LEMMA LiveEnds ==
    ASSUME CodesShape, usesDb' = usesDb, now' \in Nat, now' >= now, NEW x \in Live',
           IF usesDb THEN x \in rows ELSE x \in memory
    PROVE  x \in Live
<1>1. x \in Rows /\ x.expires \in Nat /\ now \in Nat
  BY DEF CodesShape, Rows
<1>. QED BY <1>1 DEF Live, Valid, Fresh

LEMMA CountedWrongsShape ==
    ASSUME wrongs \in [Codes -> Nat]
    PROVE  CountedWrongs \in [Codes -> Nat] /\ \A c \in Codes : CountedWrongs[c] <= wrongs[c]
BY DEF CountedWrongs

LEMMA AccountedStep == CodeEndsFirst /\ LatestInv /\ Accounted /\ [Next]_vars => Accounted'
<1>. SUFFICES ASSUME CodeEndsFirst, LatestInv, Accounted, [Next]_vars PROVE Accounted'
  OBVIOUS
<1>. DEFINE V == Cardinality(InPhase("verify"))
            J == Cardinality(InPhase("reject"))
            Goal(x) == Covered(x, guard', wrongs'[x.code], Cardinality(InPhase("verify")'),
                               Cardinality(InPhase("reject")'))
<1>1. /\ CodesShape /\ Issued /\ OnePlace /\ GuardShape(guard) /\ Prompt
      /\ now \in Nat /\ usesDb \in BOOLEAN /\ issued \in Nat /\ wrongs \in [Codes -> Nat]
  BY Constants DEF LatestInv, GuardInv, PlaceInv, CodesShape, Accounted
<1>2. V \in Nat /\ J \in Nat /\ V + J <= Cardinality(Requests) /\ Cardinality(Requests) \in Nat
  BY PhasesCount
<1>3. \A x \in Live : /\ Covered(x, guard, wrongs[x.code], V, J)
                      /\ Covered(x, Pruned, CountedWrongs[x.code], V, J)
  BY <1>1, <1>2, LiveShape, PrunedCovers DEF Accounted
<1>4. GuardShape(Pruned) /\ CountedWrongs \in [Codes -> Nat]
      /\ \A c \in Codes : CountedWrongs[c] <= wrongs[c]
  BY <1>1, PrunedShape, CountedWrongsShape
<1>. HIDE DEF V, J
\* Nothing is judged wrong, and the challenges are no more than they were.
<1>5. ASSUME UNCHANGED usesDb, issued' = issued, now' \in Nat, now' >= now,
             wrongs' \in [Codes -> Nat], \A c \in Codes : wrongs'[c] <= wrongs[c],
             \A r \in Requests : Sending(r)' => Sending(r) /\ req'[r].code = req[r].code,
             rows' \subseteq rows, memory' \subseteq memory,
             \A x \in Live : Goal(x)
      PROVE  Accounted'
  <2>1. \A x \in Live' : x \in Live
    BY <1>1, <1>5, LiveEnds DEF Live, Valid, Fresh
  <2>2. \A r \in Requests : Sending(r) => req[r].code \in Codes
    BY <1>1, Constants DEF Issued, CodesShape, Codes
  <2>. QED BY <1>1, <1>5, <2>1, <2>2, StaysAccounted
<1>6. ASSUME UNCHANGED req PROVE Cardinality(InPhase("verify")') = V /\ Cardinality(InPhase("reject")') = J
  BY <1>6 DEF V, J, InPhase, Does
<1>7. ASSUME NEW r \in Requests, NEW u \in Doing, req' = [req EXCEPT ![r] = u]
      PROVE  /\ Cardinality(InPhase("verify")') \in Nat /\ Cardinality(InPhase("reject")') \in Nat
             /\ (req[r].does = "verify" <=> u.does = "verify") => Cardinality(InPhase("verify")') = V
             /\ req[r].does = "verify" /\ u.does # "verify" => Cardinality(InPhase("verify")') = V - 1
             /\ (req[r].does = "reject" <=> u.does = "reject") => Cardinality(InPhase("reject")') = J
             /\ req[r].does = "reject" /\ u.does # "reject" => Cardinality(InPhase("reject")') = J - 1
             /\ req[r].does # "reject" /\ u.does = "reject" => Cardinality(InPhase("reject")') = J + 1
             /\ req'[r] = u /\ \A q \in Requests : q # r => req'[q] = req[q]
  <2>1. req'[r] = u /\ \A q \in Requests : q # r => req'[q] = req[q]
    BY <1>1, <1>7, OneMoves
  <2>2. /\ Cardinality(InPhase("verify")') \in Nat
        /\ (req[r].does = "verify" <=> u.does = "verify") => Cardinality(InPhase("verify")') = V
        /\ req[r].does = "verify" /\ u.does # "verify" => Cardinality(InPhase("verify")') = V - 1
    BY <1>1, <1>7, CountMoves DEF V
  <2>3. /\ Cardinality(InPhase("reject")') \in Nat
        /\ (req[r].does = "reject" <=> u.does = "reject") => Cardinality(InPhase("reject")') = J
        /\ req[r].does = "reject" /\ u.does # "reject" => Cardinality(InPhase("reject")') = J - 1
        /\ req[r].does # "reject" /\ u.does = "reject" => Cardinality(InPhase("reject")') = J + 1
    BY <1>1, <1>7, CountMoves DEF J
  <2>. QED BY <2>1, <2>2, <2>3
\* Requests may stop waiting to be judged, and more may be on their way.
<1>8. ASSUME NEW x \in Live, UNCHANGED <<guard, wrongs>>,
             Cardinality(InPhase("verify")') \in Nat, Cardinality(InPhase("reject")') \in Nat,
             Cardinality(InPhase("verify")') <= V, Cardinality(InPhase("reject")') >= J
      PROVE  Goal(x)
  <2>1. wrongs[x.code] \in Nat /\ Limit \in Nat /\ Cardinality(Against(guard, x)) \in Nat
    BY <1>1, LiveShape, PhasesCount, AgainstCount
  <2>. QED BY <1>2, <1>3, <1>8, <2>1 DEF Covered
<1>. HIDE DEF Goal
<1>10. CASE Restart
  <2>1. \A x \in Live : Goal(x)
    <3>. SUFFICES ASSUME NEW x \in Live PROVE Goal(x)
      OBVIOUS
    <3>1. guard' = NoGuard /\ wrongs'[x.code] = 0
      BY <1>1, <1>10, LiveShape DEF Restart
    <3>2. Cardinality(InPhase("reject")') \in Nat
      <4>1. InPhase("reject")' = {}
        BY <1>10, IdleIsDoing DEF InPhase, Does, Restart
      <4>. QED BY <4>1, FS_EmptySet
    <3>3. Cardinality(Against(guard', x)) \in Nat
      BY <3>1, NoGuardShape, AgainstCount
    <3>. QED BY <3>1, <3>2, <3>3 DEF Goal, Covered
  <2>2. \A r \in Requests : ~Sending(r)'
    BY <1>10, IdleIsDoing DEF Restart, Sending, Does
  <2>. QED BY <1>1, <1>5, <1>10, <2>1, <2>2 DEF Restart
<1>11. CASE Tick \/ UNCHANGED vars
  <2>1. UNCHANGED <<usesDb, guard, rows, memory, req, issued, wrongs>> /\ now' \in Nat /\ now' >= now
    BY <1>1, <1>11 DEF Tick, vars, history
  <2>. QED BY <1>1, <1>2, <1>5, <1>6, <1>8, <2>1 DEF Sending, Does
<1>12. ASSUME NEW r \in Requests, IssueDeletes(r) PROVE Accounted'
  <2>. DEFINE u == [req[r] EXCEPT !.does = "insert", !.seen = rows]
  <2>1. u \in Doing /\ u.does = "insert" /\ u.code = req[r].code /\ req[r].does = "issue"
        /\ req' = [req EXCEPT ![r] = u]
    BY <1>1, <1>12 DEF IssueDeletes, CodesShape, Doing, Does
  <2>2. UNCHANGED <<usesDb, now, guard, rows, memory, issued, wrongs>>
    BY <1>12 DEF IssueDeletes, history
  <2>. HIDE DEF u
  <2>9. Cardinality(InPhase("verify")') = V /\ Cardinality(InPhase("reject")') = J
    BY <1>2, <1>7, <2>1
  <2>3. \A x \in Live : Goal(x)
    BY <1>2, <1>8, <2>2, <2>9
  <2>. QED BY <1>1, <1>5, <1>7, <2>1, <2>2, <2>3 DEF Sending, Does
<1>13. ASSUME NEW r \in Requests, IssueFails(r) \/ \E spent \in BOOLEAN : VerifyFails(r, spent)
       PROVE  Accounted'
  <2>1. req' = [req EXCEPT ![r] = Idle] /\ Idle \in Doing /\ Idle.does = "nothing"
        /\ rows' \subseteq rows /\ memory' \subseteq memory
        /\ UNCHANGED <<usesDb, now, guard, issued, wrongs>> /\ req[r].does # "reject"
    BY <1>13, IdleIsDoing DEF IssueFails, VerifyFails, history, Does
  <2>9. /\ Cardinality(InPhase("verify")') \in Nat /\ Cardinality(InPhase("verify")') <= V
        /\ Cardinality(InPhase("reject")') = J
    <3>1. Cardinality(InPhase("reject")') = J
      BY <1>7, <2>1
    <3>2. Cardinality(InPhase("verify")') \in Nat
      BY <1>7, <2>1
    <3>3. Cardinality(InPhase("verify")') \in {V, V - 1}
      BY <1>7, <2>1
    <3>. QED BY <1>2, <3>1, <3>2, <3>3
  <2>2. \A x \in Live : Goal(x)
    BY <1>2, <1>8, <2>1, <2>9
  <2>. QED BY <1>1, <1>5, <1>7, <2>1, <2>2 DEF Sending, Does
<1>14. ASSUME NEW r \in Requests, Refused(r) PROVE Accounted'
  <2>1. guard' = Pruned /\ wrongs' = CountedWrongs
        /\ UNCHANGED <<usesDb, now, rows, memory, req, issued>>
    BY <1>14 DEF Refused
  <2>2. \A x \in Live : Goal(x)
    BY <1>3, <1>6, <2>1 DEF Goal
  <2>. QED BY <1>1, <1>4, <1>5, <2>1, <2>2 DEF Sending, Does
<1>15. ASSUME NEW r \in Requests, NEW c \in {Guess} \cup 1..issued, Verify(r, c) PROVE Accounted'
  <2>. DEFINE u == [Idle EXCEPT !.does = "verify", !.code = c, !.at = now, !.guard = Pruned.born]
  <2>1. Pruned.born \in Nat /\ c \in Nat /\ Pruned.lockedUntil \in Nat
    BY <1>1, <1>15, PrunedShape DEF GuardShape, Guards, CodesShape, Guess
  <2>2. u \in Doing /\ u.does = "verify"
    BY <1>1, <2>1 DEF Doing, Idle
  <2>3. /\ guard' = Pruned /\ Pruned.lockedUntil <= now /\ wrongs' = CountedWrongs
        /\ req' = [req EXCEPT ![r] = u] /\ req[r].does = "nothing"
        /\ UNCHANGED <<usesDb, now, rows, memory, issued>>
    BY <1>15, IdleIsDoing DEF Verify
  <2>. HIDE DEF u
  <2>4. Cardinality(InPhase("reject")') = J
    BY <1>2, <1>7, <2>2, <2>3
  <2>5. \A x \in Live : Goal(x)
    <3>. SUFFICES ASSUME NEW x \in Live PROVE Goal(x)
      OBVIOUS
    <3>1. ~(x.expires < Pruned.lockedUntil)
      BY <1>1, <2>1, <2>3, LiveShape
    <3>. QED BY <1>3, <2>3, <2>4, <3>1 DEF Goal, Covered
  <2>. QED BY <1>1, <1>4, <1>5, <1>7, <2>2, <2>3, <2>5 DEF Sending, Does
<1>16. ASSUME NEW r \in Requests, Accepts(r) PROVE Accounted'
  <2>1. /\ req' = [req EXCEPT ![r] = Idle] /\ Idle \in Doing /\ Idle.does = "nothing"
        /\ wrongs' = [k \in Codes |-> 0] /\ memory' \subseteq memory
        /\ guard' = guard \/ guard' = Cleared(guard)
        /\ UNCHANGED <<usesDb, now, rows, issued>>
    BY <1>16, IdleIsDoing DEF Accepts, CountAccepted, Spent, Fresh
  <2>2. GuardShape(guard')
    BY <1>1, <2>1, ClearedShape
  <2>3. Cardinality(InPhase("reject")') \in Nat
    BY <1>7, <2>1
  <2>4. \A x \in Live : Goal(x)
    <3>. SUFFICES ASSUME NEW x \in Live PROVE Goal(x)
      OBVIOUS
    <3>1. wrongs'[x.code] = 0 /\ Cardinality(Against(guard', x)) \in Nat
      BY <1>1, <2>1, <2>2, LiveShape, AgainstCount
    <3>. QED BY <2>3, <3>1 DEF Goal, Covered
  <2>. QED BY <1>1, <1>5, <1>7, <2>1, <2>4 DEF Sending, Does
<1>17. ASSUME NEW r \in Requests, Rejects(r) PROVE Accounted'
  <2>1. /\ req' = [req EXCEPT ![r] = Idle] /\ Idle \in Doing /\ Idle.does = "nothing"
        /\ req[r].does = "reject"
        /\ UNCHANGED <<usesDb, now, rows, memory, issued, wrongs>>
    BY <1>17, IdleIsDoing DEF Rejects, history, Does
  <2>2. Holds(r) /\ req[r].at = now
    BY <1>17, <2>1 , <1>1 DEF Prompt, Sending, Does, Holds, Kept
  <2>3. guard' = WithWrong(guard, now)
    BY <1>17, <2>2 DEF Rejects
  <2>4. Cardinality(InPhase("verify")') = V /\ Cardinality(InPhase("reject")') = J - 1
        /\ J - 1 \in Nat
    BY <1>2, <1>7, <2>1
  <2>5. \A x \in Live : Goal(x)
    <3>. SUFFICES ASSUME NEW x \in Live PROVE Goal(x)
      OBVIOUS
    <3>. DEFINE j == J - 1
    <3>1. /\ x.expires \in Nat /\ x.expires <= now + CodeTtl /\ wrongs[x.code] \in Nat
      BY <1>1, LiveShape DEF Accounted
    <3>2. j \in Nat /\ V + j + 1 <= Cardinality(Requests) /\ j + 1 = J
      BY <1>2, <2>4
    <3>3. Covered(x, guard, wrongs[x.code], V, j + 1)
      BY <1>3, <3>2
    <3>. HIDE DEF j
    <3>4. Covered(x, WithWrong(guard, now), wrongs[x.code], V, j)
      BY <1>1, <1>2, <3>1, <3>2, <3>3, WithWrongCovers
    <3>. QED BY <2>1, <2>3, <2>4, <3>4 DEF Goal, j
  <2>. QED BY <1>1, <1>5, <1>7, <2>1, <2>5 DEF Sending, Does
<1>18. ASSUME NEW r \in Requests, Issue(r) PROVE Accounted'
  <2>. DEFINE c == issued + 1
              u == [Idle EXCEPT !.does = "issue", !.code = c, !.at = now]
  <2>1. /\ issued' = c /\ c \in Codes /\ c \in Nat /\ c >= issued
        /\ memory' = {Challenge(c)} /\ wrongs' = CountedWrongs /\ req[r].does = "nothing"
        /\ UNCHANGED <<usesDb, now, rows>>
    BY <1>1, <1>18, IdleIsDoing, Constants DEF Issue, CodesShape, Codes
  <2>2. guard'.lockedUntil = Pruned.lockedUntil /\ guard'.wrongAt = Pruned.wrongAt
    BY <1>4, <1>18 DEF Issue, GuardShape, Guards
  <2>3. wrongs[c] = 0 /\ wrongs'[c] = 0
    <3>1. wrongs[c] \in Nat /\ ~(wrongs[c] > 0) /\ wrongs'[c] \in Nat /\ wrongs'[c] <= wrongs[c]
      BY <1>1, <1>4, <2>1 DEF Accounted
    <3>. QED BY <3>1
  <2>4. Challenge(c).expires = now + CodeTtl /\ Challenge(c).code = c
    BY DEF Challenge
  <2>5. /\ Cardinality(InPhase("verify")') = V /\ Cardinality(InPhase("reject")') = J
        /\ \A q \in Requests : q # r => req'[q] = req[q]
        /\ Sending(r)' => req'[r].code = c
    <3>1. u \in Doing /\ u.does = "issue" /\ u.code = c
      <4>. HIDE DEF c
      <4>. QED BY <1>1, <2>1 DEF Doing, Idle
    <3>2. CASE usesDb
      <4>1. req' = [req EXCEPT ![r] = u]
        BY <1>18, <3>2 DEF Issue
      <4>. HIDE DEF u, c
      <4>2. Cardinality(InPhase("verify")') = V /\ Cardinality(InPhase("reject")') = J
        BY <1>7, <2>1, <3>1, <4>1
      <4>. QED BY <1>7, <3>1, <4>1, <4>2
    <3>3. CASE ~usesDb
      <4>1. req' = req
        BY <1>18, <3>3 DEF Issue
      <4>. QED BY <1>6, <2>1, <4>1 DEF Sending, Does
    <3>. QED BY <1>1, <3>2, <3>3
  <2>. HIDE DEF c, u
  <2>6. \A x \in Live' : Goal(x)
    <3>. SUFFICES ASSUME NEW x \in Live' PROVE Goal(x)
      OBVIOUS
    <3>1. CASE x = Challenge(c)
      <4>1. Against(guard', x) = Against(Pruned, x)
        BY <2>2 DEF Against
      <4>2. Cardinality(Against(guard', x)) \in Nat
        BY <1>4, <4>1, AgainstCount
      <4>. QED BY <1>2, <2>3, <2>4, <2>5, <3>1, <4>2 DEF Goal, Covered
    <3>2. CASE x # Challenge(c)
      <4>1. x \in rows /\ usesDb
        BY <2>1, <3>2, <1>1 DEF Live, Valid, Fresh
      <4>2. x \in Live
        BY <1>1, <2>1, <4>1, LiveEnds
      <4>. QED BY <1>3, <2>1, <2>2, <2>5, <4>2 DEF Goal, Covered, Against
    <3>. QED BY <3>1, <3>2
  <2>7. \A q \in Requests : Sending(q)' =>
           /\ req'[q].code \in Codes
           /\ wrongs[req'[q].code] = 0 \/ (Sending(q) /\ req'[q].code = req[q].code)
    <3>1. \A q \in Requests : Sending(q) => req[q].code \in Codes
      BY <1>1, Constants DEF Issued, CodesShape, Codes
    <3>2. \A q \in Requests : q # r => (Sending(q)' <=> Sending(q))
      BY <2>5 DEF Sending, Does
    <3>. QED BY <2>1, <2>3, <2>5, <3>1, <3>2
  <2>8. \A x \in rows' \cup memory' : x \in rows \cup memory \/ x.expires <= now' + CodeTtl
    BY <1>1, <2>1, <2>4, Constants
  <2>. QED BY <1>1, <1>4, <2>1, <2>6, <2>7, <2>8, StaysAccounted DEF Goal
<1>19. ASSUME NEW r \in Requests, NEW known \in BOOLEAN, IssueCommits(r, known) PROVE Accounted'
  <2>. DEFINE y == [code |-> req[r].code, expires |-> req[r].at + CodeTtl]
  <2>1. /\ rows' \subseteq rows \cup {y} /\ memory' \subseteq memory
        /\ req' = [req EXCEPT ![r] = Idle] /\ Idle \in Doing /\ Idle.does = "nothing"
        /\ req[r].does = "insert" /\ UNCHANGED <<usesDb, now, guard, issued, wrongs>>
    BY <1>19, IdleIsDoing DEF IssueCommits, history, Does
  <2>2. y.expires = now + CodeTtl /\ wrongs[y.code] = 0
    BY <1>1, <2>1 DEF Prompt, Accounted, Sending, Does
  <2>3. Cardinality(InPhase("verify")') = V /\ Cardinality(InPhase("reject")') = J
    BY <1>7, <2>1
  <2>4. usesDb
    BY <1>1, <2>1 DEF CodesShape
  <2>. HIDE DEF y
  <2>5. \A x \in Live' : Goal(x)
    <3>. SUFFICES ASSUME NEW x \in Live' PROVE Goal(x)
      OBVIOUS
    <3>1. CASE x = y
      <4>1. Cardinality(Against(guard', x)) \in Nat
        BY <1>1, <2>1, AgainstCount
      <4>. QED BY <1>2, <2>1, <2>2, <2>3, <3>1, <4>1 DEF Goal, Covered
    <3>2. CASE x # y
      <4>1. x \in rows
        BY <2>1, <2>4, <3>2 DEF Live, Valid
      <4>2. x \in Live
        BY <1>1, <2>1, <2>4, <4>1, LiveEnds
      <4>. QED BY <1>3, <2>1, <2>3, <4>2 DEF Goal
    <3>. QED BY <3>1, <3>2
  <2>6. \A q \in Requests : Sending(q)' =>
           req'[q].code \in Codes /\ Sending(q) /\ req'[q].code = req[q].code
    <3>1. \A q \in Requests : Sending(q) => req[q].code \in Codes
      BY <1>1, Constants DEF Issued, CodesShape, Codes
    <3>2. ~Sending(r)' /\ \A q \in Requests : q # r => (Sending(q)' <=> Sending(q)) /\ req'[q] = req[q]
      BY <1>7, <2>1 DEF Sending, Does
    <3>. QED BY <3>1, <3>2
  <2>7. \A x \in rows' \cup memory' : x \in rows \cup memory \/ x.expires <= now' + CodeTtl
    BY <1>1, <2>1, <2>2, Constants
  <2>. QED BY <1>1, <2>1, <2>5, <2>6, <2>7, StaysAccounted DEF Goal
<1>20. ASSUME NEW r \in Requests, Judged(r) PROVE Accounted'
  <2>. DEFINE hit == Matching(Valid(rows), req[r].code)
              u == [req[r] EXCEPT !.does = IF hit # {} THEN "accept" ELSE "reject"]
  <2>1. /\ u \in Doing /\ (u.does = "accept" <=> hit # {}) /\ (u.does = "reject" <=> hit = {})
        /\ req' = [req EXCEPT ![r] = u] /\ req[r].does = "verify"
    BY <1>1, <1>20 DEF Judged, CodesShape, Doing, Does
  <2>2. /\ rows' \subseteq rows /\ UNCHANGED <<usesDb, now, guard, memory, issued>>
        /\ wrongs' = IF hit # {} THEN wrongs ELSE WrongsAfterAMiss
    BY <1>20 DEF Judged, Valid
  <2>3. usesDb /\ CountedWrongs = wrongs
    BY <1>1, <2>1 DEF CodesShape, Prompt, CountedWrongs
  <2>. HIDE DEF hit, u
  <2>4. \A q \in Requests : Sending(q)' <=> Sending(q) /\ req'[q].code = req[q].code
    <3>1. ~Sending(r)' /\ ~Sending(r) /\ \A q \in Requests : q # r => req'[q] = req[q]
      BY <1>7, <2>1 DEF Sending, Does
    <3>. QED BY <3>1 DEF Sending, Does
  <2>5. CASE hit # {}
    <3>1. /\ Cardinality(InPhase("verify")') \in Nat /\ Cardinality(InPhase("verify")') = V - 1
          /\ Cardinality(InPhase("reject")') = J
      BY <1>7, <2>1, <2>5
    <3>2. \A x \in Live : Goal(x)
      BY <1>2, <1>8, <2>2, <2>5, <3>1
    <3>. QED BY <1>1, <1>5, <2>2, <2>4, <2>5, <3>2
  <2>6. CASE hit = {}
    <3>1. /\ Cardinality(InPhase("verify")') \in Nat /\ Cardinality(InPhase("verify")') = V - 1
          /\ Cardinality(InPhase("reject")') = J + 1
      BY <1>7, <2>1, <2>6
    <3>2. /\ wrongs' \in [Codes -> Nat]
          /\ \A k \in Codes : (\E x \in Live : x.code = k) => wrongs'[k] = wrongs[k] + 1
          /\ \A k \in Codes : ~(\E x \in Live : x.code = k) => wrongs'[k] = wrongs[k]
      BY <1>1, <2>2, <2>3, <2>6 DEF WrongsAfterAMiss
    <3>3. \A x \in Live : Goal(x)
      <4>. SUFFICES ASSUME NEW x \in Live PROVE Goal(x)
        OBVIOUS
      <4>1. wrongs[x.code] \in Nat /\ Limit \in Nat /\ Cardinality(Against(guard, x)) \in Nat
        BY <1>1, LiveShape, PhasesCount, AgainstCount
      <4>2. wrongs'[x.code] = wrongs[x.code] + 1
        BY <1>1, <3>2, LiveShape
      <4>3. Covered(x, guard, wrongs[x.code], V, J)
        BY <1>3
      <4>4. Covered(x, guard, wrongs[x.code] + 1, V - 1, J + 1)
        BY <1>2, <4>1, <4>3 DEF Covered
      <4>. QED BY <2>2, <3>1, <4>2, <4>4 DEF Goal
    <3>4. \A k \in Codes : wrongs'[k] <= Limit /\ (wrongs'[k] > 0 => k <= issued)
      <4>. SUFFICES ASSUME NEW k \in Codes PROVE wrongs'[k] <= Limit /\ (wrongs'[k] > 0 => k <= issued)
        OBVIOUS
      <4>1. CASE \E x \in Live : x.code = k
        <5>1. PICK x \in Live : x.code = k
          BY <4>1
        <5>2. Covered(x, guard, wrongs'[k], V - 1, J + 1)
          BY <2>2, <3>1, <3>3, <5>1 DEF Goal
        <5>3. wrongs'[k] \in Nat /\ V - 1 \in Nat /\ J + 1 \in Nat /\ J + 1 <= Cardinality(Requests)
          BY <1>2, <3>1, <3>2
        <5>4. wrongs'[k] <= Limit
          BY <1>1, <5>2, <5>3, CoveredIsBounded
        <5>5. k <= issued
          BY <1>1, <5>1, LiveShape DEF Issued
        <5>. QED BY <5>4, <5>5
      <4>2. CASE ~(\E x \in Live : x.code = k)
        BY <3>2, <4>2 DEF Accounted
      <4>. QED BY <4>1, <4>2
    <3>5. \A q \in Requests : Sending(q)' => wrongs'[req'[q].code] = 0
      <4>. SUFFICES ASSUME NEW q \in Requests, Sending(q) PROVE wrongs'[req[q].code] = 0
        BY <2>4
      <4>1. req[q].code \in Codes /\ wrongs[req[q].code] = 0
        BY <1>1, Constants DEF Issued, CodesShape, Codes, Accounted
      <4>2. ~(\E x \in Live : x.code = req[q].code)
        BY <1>1, <2>3, LiveShape DEF OnePlace
      <4>. QED BY <3>2, <4>1, <4>2
    <3>6. \A x \in Live' : x \in Live
      BY <1>1, <2>2, <2>3, LiveEnds DEF Live, Valid
    <3>7. (\A x \in Live : Covered(x, guard, wrongs[x.code], Cardinality(InPhase("verify")),
                                  Cardinality(InPhase("reject"))))'
      BY <3>3, <3>6 DEF Goal, Covered, Against, InPhase, Does
    <3>8. \A x \in rows' \cup memory' : x.expires <= now' + CodeTtl
      BY <2>2 DEF Accounted
    <3>. QED BY <2>2, <3>2, <3>4, <3>5, <3>7, <3>8 DEF Accounted, Sending, Does
  <2>. QED BY <2>5, <2>6
<1>21. ASSUME NEW r \in Requests, NEW c \in {Guess} \cup 1..issued, VerifyInMemory(r, c)
       PROVE  Accounted'
  <2>1. /\ ~usesDb /\ Pruned.lockedUntil <= now /\ memory' \subseteq Fresh(memory) /\ memory' \subseteq memory
        /\ UNCHANGED <<usesDb, now, rows, req, issued>>
    BY <1>21 DEF VerifyInMemory, Spent, Fresh
  <2>2. Cardinality(InPhase("verify")') = V /\ Cardinality(InPhase("reject")') = J /\ V = 0 /\ J = 0
    <3>1. InPhase("verify") = {} /\ InPhase("reject") = {}
      BY <1>1, <2>1 DEF InPhase, Does, CodesShape
    <3>2. V = 0 /\ J = 0
      BY <3>1, FS_EmptySet DEF V, J
    <3>. QED BY <1>6, <2>1, <3>2
  <2>3. CASE Matching(Fresh(memory), c) # {}
    <3>1. wrongs' = [k \in Codes |-> 0] /\ guard' = Cleared(Pruned)
      BY <1>21, <2>3 DEF VerifyInMemory, CountAccepted
    <3>2. \A x \in Live : Goal(x)
      <4>. SUFFICES ASSUME NEW x \in Live PROVE Goal(x)
        OBVIOUS
      <4>1. wrongs'[x.code] = 0 /\ Cardinality(Against(guard', x)) \in Nat
        BY <1>1, <1>4, <3>1, ClearedShape, LiveShape, AgainstCount
      <4>. QED BY <2>2, <4>1 DEF Goal, Covered
    <3>. QED BY <1>1, <1>5, <2>1, <3>1, <3>2 DEF Sending, Does
  <2>4. CASE Matching(Fresh(memory), c) = {}
    <3>1. wrongs' = WrongsAfterAMiss /\ guard' = WithWrong(Pruned, now)
      BY <1>21, <2>4 DEF VerifyInMemory
    <3>2. /\ wrongs' \in [Codes -> Nat]
          /\ \A k \in Codes : (\E x \in Live : x.code = k) => wrongs'[k] = CountedWrongs[k] + 1
          /\ \A k \in Codes : ~(\E x \in Live : x.code = k) => wrongs'[k] = CountedWrongs[k]
      BY <1>4, <3>1 DEF WrongsAfterAMiss
    <3>3. Cardinality(Requests) >= 1
      <4>1. Requests # {} /\ IsFiniteSet(Requests)
        BY Constants
      <4>2. Cardinality(Requests) # 0
        BY <4>1, FS_EmptySet
      <4>. QED BY <1>2, <4>2
    <3>4. ASSUME NEW x \in Live
          PROVE  Covered(x, guard', wrongs'[x.code], 0, 0)
      <4>1. /\ x.code \in Codes /\ x.expires \in Nat /\ x.expires >= now
            /\ x.expires <= now + CodeTtl /\ Pruned.lockedUntil \in Nat
        BY <1>1, <1>4, <3>4, LiveShape DEF Accounted, GuardShape, Guards
      <4>2. Covered(x, Pruned, CountedWrongs[x.code], 0, 0) /\ ~(x.expires < Pruned.lockedUntil)
        BY <1>1, <1>3, <2>1, <2>2, <3>4, <4>1
      <4>3. CountedWrongs[x.code] \in Nat /\ wrongs'[x.code] = CountedWrongs[x.code] + 1
            /\ wrongs'[x.code] \in Nat
        BY <1>4, <3>2, <3>4, <4>1
      <4>4. Cardinality(Against(Pruned, x)) \in Nat
        BY <1>4, AgainstCount
      <4>5. Covered(x, Pruned, wrongs'[x.code], 0, 0 + 1)
        BY <4>2, <4>3, <4>4 DEF Covered
      <4>6. 0 + 0 + 1 <= Cardinality(Requests)
        BY <1>2, <3>3
      <4>7. Covered(x, WithWrong(Pruned, now), wrongs'[x.code], 0, 0)
        BY <1>1, <1>4, <4>1, <4>3, <4>5, <4>6, WithWrongCovers
      <4>. QED BY <3>1, <4>7
    <3>5. GuardShape(guard')
      BY <1>1, <1>4, <3>1, WithWrongShape
    <3>6. \A k \in Codes : wrongs'[k] <= Limit /\ (wrongs'[k] > 0 => k <= issued)
      <4>. SUFFICES ASSUME NEW k \in Codes PROVE wrongs'[k] <= Limit /\ (wrongs'[k] > 0 => k <= issued)
        OBVIOUS
      <4>1. CASE \E x \in Live : x.code = k
        <5>1. PICK x \in Live : x.code = k
          BY <4>1
        <5>2. Covered(x, guard', wrongs'[k], 0, 0) /\ wrongs'[k] \in Nat
          BY <3>2, <3>4, <5>1
        <5>3. wrongs'[k] <= Limit
          BY <1>2, <3>5, <5>2, CoveredIsBounded
        <5>4. k <= issued
          BY <1>1, <5>1, LiveShape DEF Issued
        <5>. QED BY <5>3, <5>4
      <4>2. CASE ~(\E x \in Live : x.code = k)
        <5>1. wrongs'[k] \in Nat /\ wrongs'[k] <= wrongs[k] /\ wrongs[k] \in Nat /\ Limit \in Nat
          BY <1>1, <1>4, <3>2, <4>2, PhasesCount
        <5>. QED BY <1>1, <5>1 DEF Accounted, Codes
      <4>. QED BY <4>1, <4>2
    <3>7. \A q \in Requests : ~Sending(q)'
      BY <1>1, <2>1 DEF CodesShape, Sending, Does
    <3>8. \A x \in Live' : x \in Live
      BY <1>1, <2>1, LiveEnds DEF Live, Fresh
    <3>9. (\A x \in Live : Covered(x, guard, wrongs[x.code], Cardinality(InPhase("verify")),
                                  Cardinality(InPhase("reject"))))'
      BY <2>2, <3>4, <3>8 DEF Covered, Against, InPhase, Does
    <3>10. \A x \in rows' \cup memory' : x.expires <= now' + CodeTtl
      BY <2>1 DEF Accounted
    <3>. QED BY <2>1, <3>2, <3>6, <3>7, <3>9, <3>10 DEF Accounted, Sending, Does
  <2>. QED BY <2>3, <2>4
<1>. QED
  BY <1>10, <1>11, <1>12, <1>13, <1>14, <1>15, <1>16, <1>17, <1>18, <1>19, <1>20, <1>21 DEF Next

LEMMA AccountedInit == Init => Accounted
<1>. SUFFICES ASSUME Init PROVE Accounted
  OBVIOUS
<1>1. /\ \A r \in Requests : req[r] = Idle
      /\ rows = {} /\ memory = {} /\ wrongs = [c \in Codes |-> 0] /\ Live = {}
  BY DEF Init, Live, Valid, Fresh
<1>. QED BY <1>1, IdleIsDoing, PhasesCount DEF Accounted, Sending, Does

\* For any limits and windows of which the code's validity is the shortest, and
\* as long as no database call outlasts the cooldown: under one guard and since the last
\* success, a code is judged against at most OTP_MAX_WRONG_ATTEMPTS - 1 wrong
\* attempts and one more per request that can be under way at once, whatever
\* expires, fails or is sent in between.
THEOREM AttemptsStayBounded ==
    ASSUME ShortCalls, CodeEndsFirst PROVE Spec => []AttemptsAreBounded
<1>1. LatestInv /\ Accounted => AttemptsAreBounded
  BY DEF Accounted, AttemptsAreBounded, Limit
<1>2. LatestInv /\ Accounted /\ [Next]_vars => (LatestInv /\ Accounted)'
  BY PlaceStep, PromptStep, OneIssuesStep, AccountedStep DEF LatestInv
<1>. QED BY <1>1, <1>2, LatestInit, AccountedInit, PTL DEF Spec
=============================================================================
