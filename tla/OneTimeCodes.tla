---------------------------- MODULE OneTimeCodes ----------------------------
(***************************************************************************)
(* The one-time codes of one phone number or address: issueOtp, consumeOtp  *)
(* and the guard of their sends and wrong attempts (lib/account-store.ts),  *)
(* the challenges in the process (lib/session-store.ts) and in              *)
(* auth_otp_challenges.                                                     *)
(*                                                                          *)
(* The process either has a database (usesDb) or keeps the challenge itself; *)
(* with a database the memory holds a copy that is written and never read.  *)
(* A request runs up to its database call, the call takes effect or fails,  *)
(* and the request goes on: other requests come between.  A transaction     *)
(* whose commit is done may still be reported as failed.                    *)
(*                                                                          *)
(* Time is counted in ticks of the cooldown's order.  ShortCalls says that   *)
(* no database call lasts until the next tick.                              *)
(*                                                                          *)
(* Left out: the buckets per IP and per account (they count like the guard),*)
(* the sending of the mail or message (a failure gives nothing back), and   *)
(* the guard's eviction by 10 000 other targets.  That the store drops a     *)
(* guard GuardTtl after it was made, used or not, is modelled.               *)
(***************************************************************************)
EXTENDS Naturals, Sequences, FiniteSetsExt

CONSTANTS
    Requests,       \* requests in flight at once
    Cooldown, DailyLimit, DailyWindow, AttemptWindow, MaxWrongAttempts, LockTime,
    CodeTtl,        \* OTP_TTL_MS
    ShortCalls,     \* no database call lasts a tick
    MaxTime, MaxCodes, MaxRestarts  \* bounds

ASSUME CodesBounds ==
    /\ {Cooldown, DailyLimit, DailyWindow, AttemptWindow, MaxWrongAttempts, LockTime, CodeTtl}
           \subseteq Nat \ {0}
    /\ IsFiniteSet(Requests)
    /\ ShortCalls \in BOOLEAN
    /\ {MaxTime, MaxCodes, MaxRestarts} \subseteq Nat

VARIABLES
    usesDb,     \* DATABASE_URL is configured
    now,        \* the clock
    guard,      \* OtpGuard of the target
    rows,       \* committed rows of auth_otp_challenges for the target
    memory,     \* challenges of the process for the target: at most one
    req,        \* what each request is doing
    issued,     \* codes issued; a code is its number
    latest,     \* the last code to become valid
    accepted,   \* for each code, the times it was accepted
    wrongs,     \* for each code, wrong attempts judged while it was valid, since
                \* the last success and under one guard
    sends,      \* when each code was issued, since the last restart
    restarts

history == <<accepted, wrongs, sends>>
vars == <<usesDb, now, guard, rows, memory, req, issued, latest, history, restarts>>

Codes == 1..MaxCodes
Guess == 0          \* a code that was never issued
NoGuard ==
    [kept |-> FALSE, born |-> 0, lastSentAt |-> 0, sent |-> FALSE,
     sentAt |-> {}, wrongAt |-> {}, lockedUntil |-> 0]
Idle == [does |-> "nothing", code |-> 0, at |-> 0, seen |-> {}, guard |-> 0]

\* otpGuardTtlMs
GuardTtl == 2 * Max({DailyWindow, AttemptWindow, LockTime})

Challenge(c) == [code |-> c, expires |-> now + CodeTtl]
\* Of rows, and of challenges in memory, those that can still be accepted.
Valid(rs) == {x \in rs : x.expires > now}
Fresh(m) == {x \in m : x.expires >= now}
Does(r, what) == req[r].does = what

-----------------------------------------------------------------------------
\* The guard

\* The lists of times in a guard are sets: of ticks for the sends, which are a
\* Cooldown apart, of pairs (tick, number) for the wrong attempts.
Recent(sent) == {t \in sent : t + DailyWindow > now}
RecentWrongs(wrong) == {a \in wrong : a[1] + AttemptWindow > now}

\* The store still has the guard: it is never kept for longer than GuardTtl.
Kept == guard.kept /\ guard.born + GuardTtl > now

\* getOtpGuard, then pruneOtpGuard.
Pruned ==
    IF Kept
    THEN [guard EXCEPT !.sentAt = Recent(@),
                       !.wrongAt = RecentWrongs(@),
                       !.lockedUntil = IF @ <= now THEN 0 ELSE @]
    ELSE [NoGuard EXCEPT !.kept = TRUE, !.born = now]

\* Bookkeeping: the wrong attempts counted under the guard in force.
CountedWrongs == IF Kept THEN wrongs ELSE [c \in Codes |-> 0]

\* The checks of issueOtp, in its order.
MaySend(g) ==
    /\ g.lockedUntil <= now
    /\ ~g.sent \/ now >= g.lastSentAt + Cooldown
    /\ Cardinality(g.sentAt) < DailyLimit

\* A wrong attempt of time t, numbered apart from the others of that tick.
Attempt(g, t) ==
    <<t, CHOOSE n \in 1..MaxWrongAttempts : <<t, n>> \notin g.wrongAt>>

Locked(g, t) == [g EXCEPT !.wrongAt = {}, !.lockedUntil = t + LockTime]
Noted(g, t) == [g EXCEPT !.wrongAt = @ \cup {Attempt(g, t)}]

\* A mutant: locks one attempt too late.
FaultyWithWrong(g, t) ==
    IF Cardinality(g.wrongAt) + 1 > MaxWrongAttempts THEN Locked(g, t) ELSE Noted(g, t)

\* A wrong attempt of time t: the last one allowed locks the target.
WithWrong(g, t) ==
    IF Cardinality(g.wrongAt) + 1 >= MaxWrongAttempts THEN Locked(g, t) ELSE Noted(g, t)

-----------------------------------------------------------------------------
\* Sending

\* issueOtp up to its transaction.  Without a database it is all there is.
Issue(r) ==
    LET c == issued + 1
        g == Pruned
    IN  /\ req[r] = Idle
        /\ issued < MaxCodes
        /\ MaySend(g)
        /\ issued' = c
        /\ guard' = [g EXCEPT !.lastSentAt = now, !.sent = TRUE, !.sentAt = @ \cup {now}]
        /\ memory' = {Challenge(c)}
        /\ req' = IF usesDb
                  THEN [req EXCEPT ![r] = [Idle EXCEPT !.does = "issue", !.code = c, !.at = now]]
                  ELSE req
        /\ latest' = IF usesDb THEN latest ELSE c
        /\ sends' = Append(sends, now)
        /\ wrongs' = CountedWrongs
        /\ UNCHANGED <<usesDb, now, rows, accepted, restarts>>

\* A request refused by the guard has pruned it.
Refused(r) ==
    /\ req[r] = Idle
    /\ ~MaySend(Pruned)
    /\ guard' = Pruned
    /\ guard' # guard
    /\ wrongs' = CountedWrongs
    /\ UNCHANGED <<usesDb, now, rows, memory, req, issued, latest, accepted, sends, restarts>>

\* The rows that transactions under way have deleted, and so locked.
LockedRows == UNION {req[r].seen : r \in {q \in Requests : Does(q, "insert")}}

\* A mutant: deletes the expired rows only.
FaultyIssueDeletes(r) ==
    /\ Does(r, "issue")
    /\ rows \cap LockedRows = {}
    /\ req' = [req EXCEPT ![r].does = "insert", ![r].seen = rows \ Valid(rows)]
    /\ UNCHANGED <<usesDb, now, guard, rows, memory, issued, latest, history, restarts>>

\* The DELETEs of issueOtp's transaction: every row committed by now.
IssueDeletes(r) ==
    /\ Does(r, "issue")
    /\ rows \cap LockedRows = {}
    /\ req' = [req EXCEPT ![r].does = "insert", ![r].seen = rows]
    /\ UNCHANGED <<usesDb, now, guard, rows, memory, issued, latest, history, restarts>>

\* INSERT and COMMIT; known: the process learns of it, or takes it for failed
\* and removes the challenge in memory.
IssueCommits(r, known) ==
    /\ Does(r, "insert")
    /\ rows' = (rows \ req[r].seen) \cup {[code |-> req[r].code, expires |-> req[r].at + CodeTtl]}
    /\ latest' = req[r].code
    /\ memory' = IF known THEN memory ELSE {}
    /\ req' = [req EXCEPT ![r] = Idle]
    /\ UNCHANGED <<usesDb, now, guard, issued, history, restarts>>

\* The database fails and rolls back; memRevokeOtp.
IssueFails(r) ==
    /\ Does(r, "issue") \/ Does(r, "insert")
    /\ memory' = {}
    /\ req' = [req EXCEPT ![r] = Idle]
    /\ UNCHANGED <<usesDb, now, guard, rows, issued, latest, history, restarts>>

-----------------------------------------------------------------------------
\* Verifying

\* consumeOtp up to its database call.
Verify(r, c) ==
    LET g == Pruned
    IN  /\ usesDb
        /\ req[r] = Idle
        /\ g.lockedUntil <= now
        /\ guard' = g
        /\ wrongs' = CountedWrongs
        /\ req' = [req EXCEPT ![r] =
               [Idle EXCEPT !.does = "verify", !.code = c, !.at = now, !.guard = g.born]]
        /\ UNCHANGED <<usesDb, now, rows, memory, issued, latest, accepted, sends, restarts>>

Matching(rs, c) == {x \in rs : x.code = c}

\* The challenges an attempt is judged by.
Live == IF usesDb THEN Valid(rows) ELSE Fresh(memory)

\* A mutant: the memory's challenge is not removed.
FaultySpent(m, c) == Fresh(m)

\* What a success leaves of the guard and of the memory's challenge.
Cleared(g) == [g EXCEPT !.wrongAt = {}]
Spent(m, c) == {x \in Fresh(m) : x.code # c}

\* Bookkeeping for the properties: an acceptance, and an attempt judged wrong.
CountAccepted(c) ==
    /\ accepted' = [accepted EXCEPT ![c] = @ + 1]
    /\ wrongs' = [k \in Codes |-> 0]
WrongsAfterAMiss ==
    [k \in Codes |-> CountedWrongs[k] + (IF \E x \in Live : x.code = k THEN 1 ELSE 0)]

\* consumeOtp without a database: one step.
VerifyInMemory(r, c) ==
    LET g == Pruned
    IN  /\ ~usesDb
        /\ g.lockedUntil <= now
        /\ memory' = Spent(memory, c)
        /\ IF Matching(Fresh(memory), c) # {}
           THEN guard' = Cleared(g) /\ CountAccepted(c)
           ELSE guard' = WithWrong(g, now) /\ wrongs' = WrongsAfterAMiss /\ UNCHANGED accepted
        /\ UNCHANGED <<usesDb, now, rows, req, issued, latest, sends, restarts>>

\* DELETE ... RETURNING: the code is matched and spent in one step; a row that
\* is locked is waited for.
Judged(r) ==
    LET hit == Matching(Valid(rows), req[r].code)
    IN  /\ Does(r, "verify")
        /\ hit \cap LockedRows = {}
        /\ req' = [req EXCEPT ![r].does = IF hit # {} THEN "accept" ELSE "reject"]
        /\ rows' = IF hit # {} THEN rows \ hit ELSE Valid(rows)
        /\ wrongs' = IF hit # {} THEN wrongs ELSE WrongsAfterAMiss
        /\ UNCHANGED <<usesDb, now, guard, memory, issued, latest, accepted, sends, restarts>>

\* The database fails before, or just after, the code is spent.
VerifyFails(r, spent) ==
    /\ Does(r, "verify")
    /\ Matching(Valid(rows), req[r].code) \cap LockedRows = {}
    /\ rows' = IF spent THEN rows \ Matching(Valid(rows), req[r].code) ELSE rows
    /\ req' = [req EXCEPT ![r] = Idle]
    /\ UNCHANGED <<usesDb, now, guard, memory, issued, latest, history, restarts>>

\* The guard object a request holds is still the one in the store.
Holds(r) == guard.kept /\ guard.born = req[r].guard

\* The rest of consumeOtp for a code that matched.
Accepts(r) ==
    /\ Does(r, "accept")
    /\ guard' = IF Holds(r) THEN Cleared(guard) ELSE guard
    /\ memory' = Spent(memory, req[r].code)
    /\ CountAccepted(req[r].code)
    /\ req' = [req EXCEPT ![r] = Idle]
    /\ UNCHANGED <<usesDb, now, rows, issued, latest, sends, restarts>>

\* The rest of consumeOtp for one that did not.
Rejects(r) ==
    /\ Does(r, "reject")
    /\ guard' = IF Holds(r) THEN WithWrong(guard, req[r].at) ELSE guard
    /\ req' = [req EXCEPT ![r] = Idle]
    /\ UNCHANGED <<usesDb, now, rows, memory, issued, latest, history, restarts>>

-----------------------------------------------------------------------------
\* The process and the clock

\* The process ends and starts again; its transactions are rolled back.
Restart ==
    /\ restarts < MaxRestarts
    /\ restarts' = restarts + 1
    /\ guard' = NoGuard
    /\ memory' = {}
    /\ req' = [r \in Requests |-> Idle]
    /\ wrongs' = [c \in Codes |-> 0]
    /\ sends' = <<>>
    /\ UNCHANGED <<usesDb, now, rows, issued, latest, accepted>>

Tick ==
    /\ now < MaxTime
    /\ ShortCalls => \A r \in Requests : req[r] = Idle
    /\ now' = now + 1
    /\ UNCHANGED <<usesDb, guard, rows, memory, req, issued, latest, history, restarts>>

Init ==
    /\ usesDb \in BOOLEAN
    /\ now = 0
    /\ guard = NoGuard
    /\ rows = {} /\ memory = {}
    /\ req = [r \in Requests |-> Idle]
    /\ issued = 0 /\ latest = 0
    /\ accepted = [c \in Codes |-> 0]
    /\ wrongs = [c \in Codes |-> 0]
    /\ sends = <<>>
    /\ restarts = 0

Next ==
    \/ \E r \in Requests :
          \/ Issue(r) \/ Refused(r) \/ IssueDeletes(r) \/ IssueFails(r)
          \/ \E known \in BOOLEAN : IssueCommits(r, known)
          \/ \E c \in {Guess} \cup 1..issued : Verify(r, c) \/ VerifyInMemory(r, c)
          \/ Judged(r) \/ Accepts(r) \/ Rejects(r)
          \/ \E spent \in BOOLEAN : VerifyFails(r, spent)
    \/ Restart
    \/ Tick

Spec == Init /\ [][Next]_vars

-----------------------------------------------------------------------------
\* Properties

Times == 0..MaxTime
Challenges == [code : Codes, expires : 0..MaxTime + CodeTtl]

CodesTypeOK ==
    /\ usesDb \in BOOLEAN /\ now \in Times
    /\ {guard.lastSentAt, guard.born} \cup guard.sentAt \subseteq Times
    /\ guard.wrongAt \subseteq Times \X (1..MaxWrongAttempts)
    /\ Cardinality(guard.wrongAt) < MaxWrongAttempts
    /\ guard.lockedUntil \in 0..MaxTime + LockTime
    /\ rows \subseteq Challenges /\ memory \subseteq Challenges /\ Cardinality(memory) <= 1
    /\ \A r \in Requests : req[r].at <= now /\ req[r].code <= issued /\ req[r].seen \subseteq Challenges
    /\ latest <= issued

\* A code is accepted at most once, however many requests bring it at once,
\* and a code that was accepted is valid nowhere any more: not in the table,
\* not in the memory's copy.
SingleUse ==
    \A c \in Codes :
        /\ accepted[c] + Cardinality({r \in Requests : Does(r, "accept") /\ req[r].code = c}) <= 1
        /\ accepted[c] > 0 => Matching(rows, c) = {} /\ Matching(memory, c) = {}

\* Only the last code to have become valid can be accepted: sending another
\* one invalidates those before it, whatever requests are in between.
OnlyTheLatest == \A x \in Live : x.code = latest

\* While a code is valid, wrong attempts on its target since the last success
\* and under one guard are limited to the maximum plus those already under way
\* when the target is locked: neither the window of attempts nor the lock ends
\* before the code does.
AttemptsAreBounded ==
    \A c \in Codes : wrongs[c] <= MaxWrongAttempts - 1 + Cardinality(Requests)

Spaced(from) ==
    LET at == SelectSeq(sends, LAMBDA t : t >= from)
    IN  /\ \A i, j \in DOMAIN at : i < j => at[j] >= at[i] + Cooldown
        /\ \A i \in DOMAIN at :
               i + DailyLimit \in DOMAIN at => at[i + DailyLimit] >= at[i] + DailyWindow

\* Under one guard, codes are issued at least the cooldown apart and at most
\* DailyLimit of them in any DailyWindow.
SendsAreSpaced == Spaced(guard.born)

\* The same without the guard's end in between: what the limit of issueOtp
\* promises while the process runs.
DailyLimitHolds == Spaced(0)
=============================================================================
