------------------------------ MODULE Accounts ------------------------------
(***************************************************************************)
(* Users, their contacts and the identities that lead to them: upsertIdentity,*)
(* registerWithPassword, bindPhone, bindEmail and the sessions of            *)
(* lib/account-store.ts (tables users, auth_identities, auth_sessions) and   *)
(* of lib/session-store.ts (maps in the process).                            *)
(*                                                                          *)
(* The process has a database (usesDb) or keeps everything itself; with one  *)
(* the maps of the process stay empty.  A contact has been verified when one *)
(* of these is called (OneTimeCodes).  A transaction is one step; it may     *)
(* fail, or commit and be taken for failed.                                  *)
(*                                                                          *)
(* Left out: names, avatars, preferences and passwords; the expiry of        *)
(* sessions and the ceilings of the maps.  A session is its user.            *)
(***************************************************************************)
EXTENDS Naturals, Sequences, FiniteSets

CONSTANTS
    Phones, Emails, Githubs, Usernames,
    Absent,     \* a column that is NULL
    MaxUsers, MaxRestarts   \* bounds

ASSUME AccountsBounds ==
    /\ MaxUsers \in Nat /\ MaxRestarts \in Nat
    /\ Absent \notin Phones \cup Emails
    /\ Phones \cap Emails = {}

VARIABLES
    usesDb,
    users,      \* the rows of users in order of their ids: [subject, phone, email]
    identities, \* the rows or entries of identities: [subject, user]
    sessions,   \* users with a session
    pending,    \* users answered by upsertIdentity or register, session to come
    answer,     \* the last sign-in by a contact: [contact, who]; 0 is nobody
    clash,      \* the last upsertIdentity met a unique index: "none", or what held it
    restarts

vars == <<usesDb, users, identities, sessions, pending, answer, clash, restarts>>

NoAnswer == [contact |-> Absent, who |-> 0]
Ids == 1..Len(users)
ByPhone(n) == [provider |-> "phone", value |-> n]
ByEmail(e) == [provider |-> "email", value |-> e]
ByGithub(g) == [provider |-> "github", value |-> g]
ByPassword(n) == [provider |-> "password", value |-> n]

\* Users other than u that hold the phone number n or the address e.
PhoneHolders(n, u) == {v \in Ids \ {u} : n # Absent /\ users[v].phone = n}
EmailHolders(e, u) == {v \in Ids \ {u} : e # Absent /\ users[v].email = e}

NewUser(s, n, e) == [subject |-> s, phone |-> n, email |-> e]

\* INSERT ... ON CONFLICT (provider, subject) DO NOTHING
Identified(ids, s, u) ==
    IF \E i \in ids : i.subject = s THEN ids ELSE ids \cup {[subject |-> s, user |-> u]}

\* A mutant: the column of the row wins, as it does for display_name.
FaultyCoalesce(new, old) == IF old # Absent THEN old ELSE new

\* A mutant: x = EXCLUDED.x.
FaultyOverwrite(new, old) == new

\* COALESCE(EXCLUDED.x, users.x)
Coalesce(new, old) == IF new # Absent THEN new ELSE old

-----------------------------------------------------------------------------
\* upsertIdentity: it answers the user u, or fails

\* Its user: the row of the subject, or one to come.
RowOf(s) ==
    IF \E v \in Ids : users[v].subject = s
    THEN CHOOSE v \in Ids : users[v].subject = s
    ELSE Len(users) + 1

\* With a database.  The INSERT ... ON CONFLICT (subject) DO UPDATE:
Upserts(s, n, e, u) ==
    /\ u = RowOf(s)
    /\ PhoneHolders(n, u) = {} /\ EmailHolders(e, u) = {}
    /\ users' = IF u \in Ids
                THEN [users EXCEPT ![u].phone = Coalesce(n, @), ![u].email = Coalesce(e, @)]
                ELSE Append(users, NewUser(s, n, e))
    /\ identities' = Identified(identities, s, u)
    /\ clash' = "none"

\* The same when a unique index is met (23505): attachIdentityToExistingEmailUser.
Attaches(s, n, e, u) ==
    /\ PhoneHolders(n, RowOf(s)) \cup EmailHolders(e, RowOf(s)) # {}
    /\ u \in EmailHolders(e, 0)
    /\ identities' = Identified(identities, s, u)
    /\ clash' = IF PhoneHolders(n, RowOf(s)) # {} THEN "phone" ELSE "email"
    /\ UNCHANGED users

\* No user has the address: the error is thrown on and the route answers 503.
ThrowsOn(s, n, e) ==
    /\ PhoneHolders(n, RowOf(s)) \cup EmailHolders(e, RowOf(s)) # {}
    /\ EmailHolders(e, 0) = {}
    /\ clash' = "phone"
    /\ UNCHANGED <<users, identities>>

\* Without one: the identity decides.
Remembers(s, n, e, u) ==
    /\ clash' = "none"
    /\ IF \E i \in identities : i.subject = s
       THEN [subject |-> s, user |-> u] \in identities /\ UNCHANGED <<users, identities>>
       ELSE /\ u = Len(users) + 1
            /\ users' = Append(users, NewUser(s, n, e))
            /\ identities' = identities \cup {[subject |-> s, user |-> u]}

Answers(contact, u) ==
    /\ answer' = IF contact = Absent THEN NoAnswer ELSE [contact |-> contact, who |-> u]
    /\ pending' = pending \cup {u}

\* A sign-in whose call of upsertIdentity succeeds; known: and is known to.
Succeeds(s, n, e, contact) ==
    \E u \in 1..MaxUsers :
        /\ IF usesDb THEN Upserts(s, n, e, u) \/ Attaches(s, n, e, u)
           ELSE Remembers(s, n, e, u)
        /\ \/ Answers(contact, u)
           \/ usesDb /\ answer' = NoAnswer /\ UNCHANGED pending
        /\ UNCHANGED <<usesDb, sessions, restarts>>

FailsToSignIn(s, n, e) ==
    /\ usesDb
    /\ ThrowsOn(s, n, e)
    /\ answer' = NoAnswer
    /\ UNCHANGED <<usesDb, sessions, pending, restarts>>

SignIn(s, n, e, contact) == Succeeds(s, n, e, contact) \/ FailsToSignIn(s, n, e)

\* POST /api/auth/otp/verify for a phone number or an address.
SignInByPhone(n) == SignIn(ByPhone(n), n, Absent, n)
SignInByEmail(e) == SignIn(ByEmail(e), Absent, e, e)

\* The callback of an OAuth provider, with the verified address it gives, if any.
SignInByGithub(g, e) == SignIn(ByGithub(g), Absent, e, Absent)

\* registerWithPassword: the name is free.
Register(name) ==
    LET s == ByPassword(name)
        u == Len(users) + 1
    IN  /\ Len(users) < MaxUsers
        /\ ~\E i \in identities : i.subject = s
        /\ users' = Append(users, NewUser(s, Absent, Absent))
        /\ identities' = Identified(identities, s, u)
        /\ pending' = pending \cup {u}
        /\ answer' = NoAnswer /\ clash' = "none"
        /\ UNCHANGED <<usesDb, sessions, restarts>>

\* createSession after either; it may fail, and the user has to sign in again.
OpensSession(u, opened) ==
    /\ u \in pending
    /\ pending' = pending \ {u}
    /\ sessions' = IF opened THEN sessions \cup {u} ELSE sessions
    /\ answer' = NoAnswer /\ clash' = "none"
    /\ UNCHANGED <<usesDb, users, identities, restarts>>

\* destroySession, or the end of the session's time.
EndsSession(u) ==
    /\ u \in sessions
    /\ sessions' = sessions \ {u}
    /\ answer' = NoAnswer /\ clash' = "none"
    /\ UNCHANGED <<usesDb, users, identities, pending, restarts>>

-----------------------------------------------------------------------------
\* bindPhone and bindEmail

\* What binding leaves of identities.  In the process only the entry of the
\* contact that u had goes, and the new one replaces another's.
Rebound(u, s, old) ==
    IF usesDb
    THEN Identified({i \in identities : ~(i.user = u /\ i.subject.provider = s.provider)}, s, u)
    ELSE {i \in identities : i.subject # s /\ ~(i.user = u /\ i.subject = old)}
             \cup {[subject |-> s, user |-> u]}

\* A mutant: the identity of the number given up stays.
FaultyBindPhone(u, n) ==
    /\ u \in sessions
    /\ PhoneHolders(n, u) = {}
    /\ users' = [users EXCEPT ![u].phone = n]
    /\ identities' = Rebound(u, ByPhone(n), ByPhone(n))
    /\ answer' = NoAnswer /\ clash' = "none"
    /\ UNCHANGED <<usesDb, sessions, pending, restarts>>

\* A number that nobody else has; another's is refused and changes nothing.
BindPhone(u, n) ==
    /\ u \in sessions
    /\ PhoneHolders(n, u) = {}
    /\ users' = [users EXCEPT ![u].phone = n]
    /\ identities' = Rebound(u, ByPhone(n), ByPhone(users[u].phone))
    /\ answer' = NoAnswer /\ clash' = "none"
    /\ UNCHANGED <<usesDb, sessions, pending, restarts>>

BindEmail(u, e) ==
    /\ u \in sessions
    /\ EmailHolders(e, u) = {}
    /\ users' = [users EXCEPT ![u].email = e]
    /\ identities' = Rebound(u, ByEmail(e), ByEmail(users[u].email))
    /\ answer' = NoAnswer /\ clash' = "none"
    /\ UNCHANGED <<usesDb, sessions, pending, restarts>>

\* The process ends and starts again: the database stays.
Restart ==
    /\ restarts < MaxRestarts
    /\ restarts' = restarts + 1
    /\ pending' = {}
    /\ answer' = NoAnswer /\ clash' = "none"
    /\ IF usesDb THEN UNCHANGED <<users, identities, sessions>>
       ELSE users' = <<>> /\ identities' = {} /\ sessions' = {}
    /\ UNCHANGED usesDb

Init ==
    /\ usesDb \in BOOLEAN
    /\ users = <<>> /\ identities = {}
    /\ sessions = {} /\ pending = {}
    /\ answer = NoAnswer /\ clash = "none"
    /\ restarts = 0

Next ==
    \/ \E n \in Phones : SignInByPhone(n)
    \/ \E e \in Emails : SignInByEmail(e)
    \/ \E g \in Githubs, e \in Emails \cup {Absent} : SignInByGithub(g, e)
    \/ \E name \in Usernames : Register(name)
    \/ \E u \in Ids :
          \/ \E opened \in BOOLEAN : OpensSession(u, opened)
          \/ EndsSession(u)
          \/ \E n \in Phones : BindPhone(u, n)
          \/ \E e \in Emails : BindEmail(u, e)
    \/ Restart

Spec == Init /\ [][Next]_vars

-----------------------------------------------------------------------------
\* Properties

AccountsTypeOK ==
    /\ Len(users) <= MaxUsers
    /\ \A u \in Ids : users[u].phone \in Phones \cup {Absent} /\ users[u].email \in Emails \cup {Absent}
    /\ \A i \in identities : i.user \in Ids
    /\ \A i, j \in identities : i.subject = j.subject => i = j
    /\ sessions \cup pending \subseteq Ids

\* A sign-in with a verified contact leads to a user who holds it, and with a
\* database nobody else does: whatever subject the row was made for, whatever
\* was bound or attached since.
HolderSignsIn ==
    answer.who # 0 =>
        LET c == answer.contact
        IN  /\ c \in {users[answer.who].phone, users[answer.who].email}
            /\ usesDb => PhoneHolders(c, answer.who) \cup EmailHolders(c, answer.who) = {}

\* With a database a user's contact changes only to another one, by binding or
\* by signing in, and no step takes it away or changes two users.
ContactsAreKept ==
    [][usesDb => /\ Cardinality({u \in Ids : users'[u] # users[u]}) <= 1
                 /\ \A u \in Ids : /\ users[u].phone # Absent => users'[u].phone # Absent
                                   /\ users[u].email # Absent => users'[u].email # Absent]_vars

\* Without a database the identities lead from a phone number to the user that
\* holds it: the two maps keep the promise of Directory.
Holder(n) ==
    IF usesDb \/ PhoneHolders(n, 0) = {} THEN 0 ELSE CHOOSE u \in PhoneHolders(n, 0) : TRUE
PhoneDirectory == INSTANCE Directory WITH
    Contacts <- Phones, AccountIds <- 1..MaxUsers, Nobody <- 0,
    holder <- [n \in Phones |-> Holder(n)],
    answer <- IF ~usesDb /\ answer.contact \in Phones THEN answer ELSE [contact |-> 0, who |-> 0]
MemoryIsADirectory == PhoneDirectory!Spec

\* account-store.ts:400 of the unique index that upsertIdentity has met.
OnlyEmailClashes == clash # "phone"
=============================================================================
