---------------------------- MODULE Accounts_proofs ----------------------------
(***************************************************************************)
(* Proofs about Accounts, for any contacts, any number of users, with and   *)
(* without a database.                                                      *)
(*                                                                          *)
(* With a database the unique indexes keep two users from one contact        *)
(* (Unique).  Without one the entries of identities do it: they name the     *)
(* holder of a phone number and nobody else, and of an address a user who    *)
(* has it (Leads).  A sign-in goes by the one or the other.                  *)
(***************************************************************************)
EXTENDS Accounts, FiniteSetTheorems, TLAPS

Subjects == [provider : {"phone", "email", "github", "password"},
             value : Phones \cup Emails \cup Githubs \cup Usernames]
Row == [subject : Subjects, phone : Phones \cup {Absent}, email : Emails \cup {Absent}]
Entry(s, u) == [subject |-> s, user |-> u]

Tables ==
    /\ usesDb \in BOOLEAN
    /\ users \in Seq(Row) /\ Len(users) <= MaxUsers
    /\ identities \in SUBSET [subject : Subjects, user : Ids]
    /\ \A i, j \in identities : i.subject = j.subject => i = j
    /\ sessions \cup pending \subseteq Ids

Unique ==
    \A u, v \in Ids :
        /\ users[u].phone = users[v].phone /\ users[u].phone # Absent => u = v
        /\ users[u].email = users[v].email /\ users[u].email # Absent => u = v

Leads ==
    \A u \in Ids :
        /\ \A n \in Phones : Entry(ByPhone(n), u) \in identities <=> users[u].phone = n
        /\ \A e \in Emails : Entry(ByEmail(e), u) \in identities => users[u].email = e

\* The user that the last sign-in was answered with has the contact.
Answered ==
    answer.who # 0 =>
        /\ answer.who \in Ids
        /\ \/ answer.contact \in Phones /\ users[answer.who].phone = answer.contact
           \/ answer.contact \in Emails /\ users[answer.who].email = answer.contact

AccountsInv ==
    /\ Tables
    /\ usesDb => Unique
    /\ ~usesDb => Leads
    /\ Answered

-----------------------------------------------------------------------------
\* A row added or changed

LEMMA AddedRow ==
    ASSUME users \in Seq(Row), NEW r \in Row, users' = Append(users, r)
    PROVE  /\ users' \in Seq(Row) /\ Len(users) \in Nat /\ Len(users') = Len(users) + 1
           /\ Ids' = Ids \cup {Len(users) + 1} /\ Len(users) + 1 \notin Ids
           /\ users'[Len(users) + 1] = r
           /\ \A v \in Ids : users'[v] = users[v]
BY DEF Ids

LEMMA ChangedRow ==
    ASSUME users \in Seq(Row), NEW u \in Ids, NEW r \in Row, users' = [users EXCEPT ![u] = r]
    PROVE  /\ users' \in Seq(Row) /\ Len(users') = Len(users) /\ Ids' = Ids
           /\ users'[u] = r
           /\ \A v \in Ids : v # u => users'[v] = users[v]
BY DEF Ids

LEMMA RowsOf ==
    ASSUME users \in Seq(Row), NEW u \in Ids
    PROVE  users[u] \in Row
BY DEF Ids

LEMMA SubjectsDiffer ==
    \A n, x : /\ ByPhone(n) # ByEmail(x) /\ ByPhone(n) # ByGithub(x) /\ ByPhone(n) # ByPassword(x)
              /\ ByEmail(n) # ByGithub(x) /\ ByEmail(n) # ByPassword(x)
              /\ ByPhone(n) = ByPhone(x) => n = x
              /\ ByEmail(n) = ByEmail(x) => n = x
BY DEF ByPhone, ByEmail, ByGithub, ByPassword

LEMMA EntriesDiffer == \A s, t, u, v : Entry(s, u) = Entry(t, v) => s = t /\ u = v
BY DEF Entry

\* What upsertIdentity is called with.
Call(s, n, e, contact) ==
    \/ n \in Phones /\ s = ByPhone(n) /\ e = Absent /\ contact = n
    \/ e \in Emails /\ s = ByEmail(e) /\ n = Absent /\ contact = e
    \/ e \in Emails \cup {Absent} /\ n = Absent /\ contact = Absent
       /\ \E g \in Githubs : s = ByGithub(g)

LEMMA CallShape ==
    ASSUME NEW s, NEW n, NEW e, NEW contact, Call(s, n, e, contact)
    PROVE  /\ s \in Subjects /\ n \in Phones \cup {Absent} /\ e \in Emails \cup {Absent}
           /\ NewUser(s, n, e) \in Row
           /\ NewUser(s, n, e).phone = n /\ NewUser(s, n, e).email = e
           /\ \A x \in Phones : ByPhone(x) = s <=> x = n
           /\ \A x \in Emails : ByEmail(x) = s => x = e
BY SubjectsDiffer, AccountsBounds
   DEF Call, Subjects, NewUser, Row, ByPhone, ByEmail, ByGithub
-----------------------------------------------------------------------------
\* The inductive invariant

LEMMA AccountsInit == Init => AccountsInv
<1>. SUFFICES ASSUME Init PROVE AccountsInv
  OBVIOUS
<1>1. users = <<>> /\ Len(users) = 0 /\ Ids = {} /\ users \in Seq(Row)
  BY DEF Init, Ids
<1>. QED BY <1>1, AccountsBounds DEF Init, AccountsInv, Tables, Unique, Leads, Answered, NoAnswer

\* The identities of a step: one more entry, or fewer and one more.
LEMMA IdentifiedEntries ==
    ASSUME NEW ids, NEW s, NEW u
    PROVE  /\ Identified(ids, s, u) \subseteq ids \cup {Entry(s, u)}
           /\ ids \subseteq Identified(ids, s, u)
           /\ (\A i, j \in ids : i.subject = j.subject => i = j) =>
                 \A i, j \in Identified(ids, s, u) : i.subject = j.subject => i = j
BY DEF Identified, Entry

LEMMA TablesStep ==
    ASSUME Tables, usesDb' = usesDb, users' \in Seq(Row), Len(users') <= MaxUsers,
           Ids \subseteq Ids',
           NEW s \in Subjects, NEW u \in Ids',
           identities' \subseteq identities \cup {Entry(s, u)},
           \A i, j \in identities' : i.subject = j.subject => i = j,
           sessions' \cup pending' \subseteq Ids'
    PROVE  Tables'
<1>1. Entry(s, u) \in [subject : Subjects, user : Ids']
  BY DEF Entry
<1>2. identities' \in SUBSET [subject : Subjects, user : Ids']
  BY <1>1 DEF Tables
<1>. QED BY <1>2 DEF Tables, Ids

LEMMA AnswersWhom ==
    ASSUME NEW contact, NEW u, Answers(contact, u)
    PROVE  /\ pending' = pending \cup {u}
           /\ answer' = NoAnswer \/ (answer'.contact = contact /\ answer'.who = u /\ contact # Absent)
<1>1. pending' = pending \cup {u}
  BY DEF Answers
<1>2. contact = Absent => answer' = NoAnswer
  BY DEF Answers
<1>3. contact # Absent => answer' = [contact |-> contact, who |-> u]
  BY DEF Answers
<1>. QED BY <1>1, <1>2, <1>3

\* A call of upsertIdentity with a database, whatever it answers.
LEMMA DatabaseSignIn ==
    ASSUME AccountsInv, usesDb, UNCHANGED <<usesDb, sessions>>,
           NEW s, NEW n, NEW e, NEW contact, Call(s, n, e, contact), NEW u \in 1..MaxUsers,
           Upserts(s, n, e, u) \/ Attaches(s, n, e, u),
           Answers(contact, u) \/ (answer' = NoAnswer /\ UNCHANGED pending)
    PROVE  AccountsInv'
<1>1. /\ Tables /\ Unique /\ users \in Seq(Row) /\ Len(users) \in Nat /\ MaxUsers \in Nat
      /\ \A v \in Ids : users[v] \in Row
  BY RowsOf, AccountsBounds DEF AccountsInv, Tables
<1>2. /\ s \in Subjects /\ n \in Phones \cup {Absent} /\ e \in Emails \cup {Absent}
      /\ NewUser(s, n, e) \in Row /\ NewUser(s, n, e).phone = n /\ NewUser(s, n, e).email = e
  BY CallShape
<1>3. /\ identities' = Identified(identities, s, u)
      /\ answer' = NoAnswer \/ (answer'.contact = contact /\ answer'.who = u /\ contact # Absent)
      /\ pending' \subseteq pending \cup {u}
  <2>1. identities' = Identified(identities, s, u)
    BY DEF Upserts, Attaches
  <2>. QED BY <2>1, AnswersWhom
\* Whoever is answered has the contact.
<1>4. ASSUME Tables', Unique', u \in Ids',
             \/ contact = n /\ contact \in Phones /\ users'[u].phone = n
             \/ contact = e /\ contact \in Emails /\ users'[u].email = e
             \/ contact = Absent
      PROVE  AccountsInv'
  BY <1>3, <1>4 DEF AccountsInv, Answered, NoAnswer
<1>5. CASE Upserts(s, n, e, u) /\ u \in Ids
  <2>. DEFINE r == [users[u] EXCEPT !.phone = Coalesce(n, @), !.email = Coalesce(e, @)]
  <2>1. users' = [users EXCEPT ![u] = r]
    BY <1>1, <1>5 DEF Upserts, Row
  <2>2. r \in Row /\ r.phone = Coalesce(n, users[u].phone) /\ r.email = Coalesce(e, users[u].email)
    BY <1>1, <1>2, <1>5 DEF Row, Coalesce
  <2>. HIDE DEF r
  <2>3. /\ users' \in Seq(Row) /\ Len(users') = Len(users) /\ Ids' = Ids
        /\ users'[u] = r /\ \A v \in Ids : v # u => users'[v] = users[v]
    BY <1>1, <1>5, <2>1, <2>2, ChangedRow
  <2>4. Tables'
    <3>1. /\ identities' \subseteq identities \cup {Entry(s, u)}
          /\ \A i, j \in identities' : i.subject = j.subject => i = j
      BY <1>1, <1>3, IdentifiedEntries DEF Tables
    <3>2. Len(users') <= MaxUsers /\ sessions' \cup pending' \subseteq Ids'
      BY <1>1, <1>3, <1>5, <2>3 DEF Tables
    <3>. QED BY <1>1, <1>2, <1>5, <2>3, <3>1, <3>2, TablesStep
  <2>5. \A v \in Ids :
             /\ v # u /\ n # Absent => users[v].phone # n
             /\ v # u /\ e # Absent => users[v].email # e
    BY <1>5 DEF Upserts, PhoneHolders, EmailHolders
  <2>6. Unique'
    <3>1. \A v \in Ids :
             /\ v # u /\ users[v].phone = r.phone => users[v].phone = Absent
             /\ v # u /\ users[v].email = r.email => users[v].email = Absent
      BY <1>1, <1>5, <2>2, <2>5 DEF Unique, Coalesce
    <3>. SUFFICES ASSUME NEW v \in Ids, NEW w \in Ids
                  PROVE  /\ users'[v].phone = users'[w].phone /\ users'[v].phone # Absent => v = w
                         /\ users'[v].email = users'[w].email /\ users'[v].email # Absent => v = w
      BY <2>3 DEF Unique
    <3>2. CASE v = u /\ w # u
      <4>1. users'[v] = r /\ users'[w] = users[w]
        BY <2>3, <3>2
      <4>2. /\ users[w].phone = r.phone => users[w].phone = Absent
            /\ users[w].email = r.email => users[w].email = Absent
        BY <3>1, <3>2
      <4>. QED BY <4>1, <4>2
    <3>3. CASE v # u /\ w = u
      <4>1. users'[w] = r /\ users'[v] = users[v]
        BY <2>3, <3>3
      <4>2. /\ users[v].phone = r.phone => users[v].phone = Absent
            /\ users[v].email = r.email => users[v].email = Absent
        BY <3>1, <3>3
      <4>. QED BY <4>1, <4>2
    <3>4. CASE v # u /\ w # u
      BY <1>1, <2>3, <3>4 DEF Unique
    <3>. QED BY <3>2, <3>3, <3>4
  <2>7. \/ contact = n /\ contact \in Phones /\ users'[u].phone = n
        \/ contact = e /\ contact \in Emails /\ users'[u].email = e
        \/ contact = Absent
    BY <2>2, <2>3, AccountsBounds DEF Call, Coalesce
  <2>. QED BY <1>4, <1>5, <2>3, <2>4, <2>6, <2>7
<1>6. CASE Upserts(s, n, e, u) /\ u \notin Ids
  <2>1. u = Len(users) + 1 /\ users' = Append(users, NewUser(s, n, e))
    BY <1>6 DEF Upserts, RowOf
  <2>2. /\ users' \in Seq(Row) /\ Len(users') = Len(users) + 1 /\ Ids' = Ids \cup {u}
        /\ users'[u] = NewUser(s, n, e) /\ \A v \in Ids : users'[v] = users[v]
    BY <1>1, <1>2, <2>1, AddedRow
  <2>3. Tables'
    <3>1. /\ identities' \subseteq identities \cup {Entry(s, u)}
          /\ \A i, j \in identities' : i.subject = j.subject => i = j
      BY <1>1, <1>3, IdentifiedEntries DEF Tables
    <3>2. Len(users') <= MaxUsers /\ sessions' \cup pending' \subseteq Ids'
      BY <1>1, <1>3, <2>1, <2>2 DEF Tables
    <3>. QED BY <1>1, <1>2, <2>2, <3>1, <3>2, TablesStep
  <2>4. \A v \in Ids : /\ n # Absent => users[v].phone # n
                       /\ e # Absent => users[v].email # e
    BY <1>6 DEF Upserts, PhoneHolders, EmailHolders
  <2>5. Unique'
    BY <1>1, <1>2, <1>6, <2>2, <2>4 DEF Unique
  <2>6. \/ contact = n /\ contact \in Phones /\ users'[u].phone = n
        \/ contact = e /\ contact \in Emails /\ users'[u].email = e
        \/ contact = Absent
    BY <1>2, <2>2 DEF Call
  <2>. QED BY <1>4, <2>2, <2>3, <2>5, <2>6
<1>7. CASE Attaches(s, n, e, u)
  <2>1. users' = users /\ u \in Ids /\ e # Absent /\ users[u].email = e
    BY <1>7 DEF Attaches, EmailHolders
  <2>2. Tables'
    <3>1. /\ identities' \subseteq identities \cup {Entry(s, u)}
          /\ \A i, j \in identities' : i.subject = j.subject => i = j
      BY <1>1, <1>3, IdentifiedEntries DEF Tables
    <3>2. Len(users') <= MaxUsers /\ sessions' \cup pending' \subseteq Ids' /\ Ids' = Ids
      BY <1>1, <1>3, <2>1 DEF Tables, Ids
    <3>. QED BY <1>1, <1>2, <2>1, <3>1, <3>2, TablesStep
  <2>3. Unique' /\ u \in Ids'
    BY <1>1, <2>1 DEF Unique, Ids
  <2>4. \/ contact = e /\ contact \in Emails /\ users'[u].email = e
        \/ contact = Absent
    BY <2>1 DEF Call
  <2>. QED BY <1>4, <2>2, <2>3, <2>4
<1>. QED BY <1>5, <1>6, <1>7

\* The same in the process.
LEMMA MemorySignIn ==
    ASSUME AccountsInv, ~usesDb, UNCHANGED <<usesDb, sessions>>,
           NEW s, NEW n, NEW e, NEW contact, Call(s, n, e, contact), NEW u \in 1..MaxUsers,
           Remembers(s, n, e, u), Answers(contact, u)
    PROVE  AccountsInv'
<1>1. /\ Tables /\ Leads /\ users \in Seq(Row) /\ Len(users) \in Nat /\ MaxUsers \in Nat
      /\ \A v \in Ids : users[v] \in Row
  BY RowsOf, AccountsBounds DEF AccountsInv, Tables
<1>2. /\ s \in Subjects /\ n \in Phones \cup {Absent} /\ e \in Emails \cup {Absent}
      /\ NewUser(s, n, e) \in Row /\ NewUser(s, n, e).phone = n /\ NewUser(s, n, e).email = e
      /\ \A x \in Phones : ByPhone(x) = s <=> x = n
      /\ \A x \in Emails : ByEmail(x) = s => x = e
  BY CallShape
<1>3. /\ pending' = pending \cup {u}
      /\ answer' = NoAnswer \/ (answer'.contact = contact /\ answer'.who = u /\ contact # Absent)
  BY AnswersWhom
<1>4. ASSUME Tables', Leads', u \in Ids',
             \/ contact = n /\ contact \in Phones /\ users'[u].phone = n
             \/ contact = e /\ contact \in Emails /\ users'[u].email = e
             \/ contact = Absent
      PROVE  AccountsInv'
  BY <1>3, <1>4 DEF AccountsInv, Answered, NoAnswer
<1>5. CASE \E i \in identities : i.subject = s
  <2>1. Entry(s, u) \in identities /\ UNCHANGED <<users, identities>>
    BY <1>5 DEF Remembers, Entry
  <2>2. u \in Ids
    BY <1>1, <2>1 DEF Tables, Entry
  <2>3. Tables' /\ Leads' /\ u \in Ids'
    <3>1. Ids' = Ids
      BY <2>1 DEF Ids
    <3>2. Tables'
      BY <1>1, <1>3, <2>1, <2>2, <3>1 DEF Tables
    <3>. QED BY <1>1, <2>1, <2>2, <3>1, <3>2 DEF Leads
  <2>4. \/ contact = n /\ contact \in Phones /\ users'[u].phone = n
        \/ contact = e /\ contact \in Emails /\ users'[u].email = e
        \/ contact = Absent
    BY <1>1, <2>1, <2>2 DEF Call, Leads
  <2>. QED BY <1>4, <2>3, <2>4
<1>6. CASE ~\E i \in identities : i.subject = s
  <2>1. /\ u = Len(users) + 1 /\ users' = Append(users, NewUser(s, n, e))
        /\ identities' = identities \cup {Entry(s, u)}
    BY <1>6 DEF Remembers, Entry
  <2>2. /\ users' \in Seq(Row) /\ Len(users') = Len(users) + 1 /\ Ids' = Ids \cup {u} /\ u \notin Ids
        /\ users'[u] = NewUser(s, n, e) /\ \A v \in Ids : users'[v] = users[v]
    BY <1>1, <1>2, <2>1, AddedRow
  <2>3. Tables'
    <3>1. \A i, j \in identities' : i.subject = j.subject => i = j
      BY <1>1, <1>6, <2>1 DEF Tables, Entry
    <3>2. Len(users') <= MaxUsers /\ sessions' \cup pending' \subseteq Ids'
      BY <1>1, <1>3, <2>1, <2>2 DEF Tables
    <3>. QED BY <1>1, <1>2, <2>1, <2>2, <3>1, <3>2, TablesStep
  <2>4. \A t : Entry(t, u) \notin identities
    BY <1>1, <2>2 DEF Tables, Entry
  <2>5. \A t, v : Entry(t, v) \in identities' <=> Entry(t, v) \in identities \/ (t = s /\ v = u)
    BY <2>1, EntriesDiffer
  <2>6. ASSUME NEW v \in Ids'
        PROVE  /\ \A x \in Phones : Entry(ByPhone(x), v) \in identities' <=> users'[v].phone = x
               /\ \A x \in Emails : Entry(ByEmail(x), v) \in identities' => users'[v].email = x
    <3>1. CASE v = u
      BY <1>2, <2>2, <2>4, <2>5, <3>1
    <3>2. CASE v # u
      BY <1>1, <2>2, <2>5, <2>6, <3>2 DEF Leads
    <3>. QED BY <3>1, <3>2
  <2>7. Leads'
    BY <2>6 DEF Leads
  <2>8. \/ contact = n /\ contact \in Phones /\ users'[u].phone = n
        \/ contact = e /\ contact \in Emails /\ users'[u].email = e
        \/ contact = Absent
    BY <1>2, <2>2 DEF Call
  <2>. QED BY <1>4, <2>2, <2>3, <2>7, <2>8
<1>. QED BY <1>5, <1>6

LEMMA RegisterStep ==
    ASSUME AccountsInv, NEW name \in Usernames, Register(name)
    PROVE  AccountsInv'
<1>. DEFINE s == ByPassword(name)
            u == Len(users) + 1
            r == NewUser(s, Absent, Absent)
<1>1. /\ Tables /\ users \in Seq(Row) /\ MaxUsers \in Nat /\ \A v \in Ids : users[v] \in Row
  BY RowsOf, AccountsBounds DEF AccountsInv, Tables
<1>2. /\ Len(users) < MaxUsers /\ ~\E i \in identities : i.subject = s
      /\ users' = Append(users, r) /\ identities' = Identified(identities, s, u)
      /\ pending' = pending \cup {u} /\ answer' = NoAnswer /\ UNCHANGED <<usesDb, sessions>>
  BY DEF Register
<1>3. s \in Subjects /\ r \in Row /\ r.phone = Absent /\ r.email = Absent
      /\ \A x : s # ByPhone(x) /\ s # ByEmail(x)
  BY SubjectsDiffer DEF Subjects, Row, NewUser, ByPassword
<1>. HIDE DEF s, r
<1>4. /\ users' \in Seq(Row) /\ Len(users') = u /\ Ids' = Ids \cup {u} /\ u \notin Ids
      /\ users'[u] = r /\ \A v \in Ids : users'[v] = users[v] /\ Len(users) \in Nat
  BY <1>1, <1>2, <1>3, AddedRow
<1>5. /\ identities' = identities \cup {Entry(s, u)}
      /\ \A i, j \in identities' : i.subject = j.subject => i = j
  BY <1>1, <1>2 DEF Identified, Entry, Tables
<1>6. Tables'
  <2>1. Len(users') <= MaxUsers /\ sessions' \cup pending' \subseteq Ids' /\ u \in Ids'
    BY <1>1, <1>2, <1>4 DEF Tables
  <2>. HIDE DEF u
  <2>. QED BY <1>1, <1>2, <1>3, <1>4, <1>5, <2>1, TablesStep
<1>7. usesDb => Unique'
  BY <1>1, <1>3, <1>4 DEF Unique, AccountsInv
<1>8. ~usesDb => Leads'
  <2>. SUFFICES ASSUME ~usesDb, NEW v \in Ids'
                PROVE  /\ \A x \in Phones : Entry(ByPhone(x), v) \in identities' <=> users'[v].phone = x
                       /\ \A x \in Emails : Entry(ByEmail(x), v) \in identities' => users'[v].email = x
    BY DEF Leads
  <2>1. \A t : Entry(t, u) \notin identities
    BY <1>1, <1>4 DEF Tables, Entry
  <2>2. \A t, w : Entry(t, w) \in identities' <=> Entry(t, w) \in identities \/ (t = s /\ w = u)
    BY <1>5, EntriesDiffer
  <2>3. CASE v = u
    BY <1>3, <1>4, <2>1, <2>2, <2>3, AccountsBounds
  <2>4. CASE v # u
    BY <1>3, <1>4, <2>2, <2>4 DEF Leads, AccountsInv
  <2>. QED BY <2>3, <2>4
<1>. QED BY <1>2, <1>6, <1>7, <1>8 DEF AccountsInv, Answered, NoAnswer

\* What binding does to the entries of identities.
LEMMA ReboundEntries ==
    ASSUME Tables, NEW u \in Ids, NEW s \in Subjects, NEW old,
           identities' = Rebound(u, s, old)
    PROVE  /\ identities' \subseteq identities \cup {Entry(s, u)}
           /\ \A i, j \in identities' : i.subject = j.subject => i = j
           /\ ~usesDb => \A t, v :
                 Entry(t, v) \in identities' <=>
                     \/ t = s /\ v = u
                     \/ Entry(t, v) \in identities /\ t # s /\ ~(v = u /\ t = old)
<1>1. CASE usesDb
  <2>. DEFINE kept == {i \in identities : ~(i.user = u /\ i.subject.provider = s.provider)}
  <2>1. identities' = Identified(kept, s, u)
    BY <1>1 DEF Rebound
  <2>2. kept \subseteq identities /\ \A i, j \in kept : i.subject = j.subject => i = j
    BY DEF Tables
  <2>. HIDE DEF kept
  <2>3. /\ identities' \subseteq kept \cup {Entry(s, u)}
        /\ \A i, j \in identities' : i.subject = j.subject => i = j
    BY <2>1, <2>2, IdentifiedEntries
  <2>. QED BY <1>1, <2>2, <2>3
<1>2. CASE ~usesDb
  <2>. DEFINE kept == {i \in identities : i.subject # s /\ ~(i.user = u /\ i.subject = old)}
  <2>1. identities' = kept \cup {Entry(s, u)}
    BY <1>2 DEF Rebound, Entry
  <2>2. \A i, j \in identities' : i.subject = j.subject => i = j
    BY <2>1 DEF Tables, Entry
  <2>3. \A t, v : Entry(t, v).subject = t /\ Entry(t, v).user = v
    BY DEF Entry
  <2>4. \A t, v : Entry(t, v) \in kept <=> Entry(t, v) \in identities /\ t # s /\ ~(v = u /\ t = old)
    BY <2>3
  <2>5. kept \subseteq identities
    OBVIOUS
  <2>. HIDE DEF kept
  <2>6. \A t, v : Entry(t, v) \in identities' <=> Entry(t, v) \in kept \/ (t = s /\ v = u)
    BY <2>1, EntriesDiffer
  <2>. QED BY <2>1, <2>2, <2>4, <2>5, <2>6
<1>. QED BY <1>1, <1>2 DEF Tables

LEMMA BindPhoneStep ==
    ASSUME AccountsInv, NEW u \in Ids, NEW n \in Phones, BindPhone(u, n)
    PROVE  /\ AccountsInv'
           /\ Ids' = Ids /\ users'[u] = [users[u] EXCEPT !.phone = n]
           /\ \A v \in Ids : v # u => users'[v] = users[v]
<1>. DEFINE r == [users[u] EXCEPT !.phone = n]
            s == ByPhone(n)
            old == ByPhone(users[u].phone)
<1>1. /\ Tables /\ users \in Seq(Row) /\ \A v \in Ids : users[v] \in Row
  BY RowsOf DEF AccountsInv, Tables
<1>2. r \in Row /\ r.phone = n /\ r.email = users[u].email /\ users' = [users EXCEPT ![u] = r]
  BY <1>1 DEF BindPhone, Row
<1>3. s \in Subjects /\ n # Absent
  BY AccountsBounds DEF Subjects, ByPhone
<1>4. /\ identities' = Rebound(u, s, old) /\ answer' = NoAnswer
      /\ UNCHANGED <<usesDb, sessions, pending>>
      /\ \A v \in Ids : v # u => users[v].phone # n
  BY <1>3 DEF BindPhone, PhoneHolders
<1>. HIDE DEF r
<1>5. /\ users' \in Seq(Row) /\ Len(users') = Len(users) /\ Ids' = Ids
      /\ users'[u] = r /\ \A v \in Ids : v # u => users'[v] = users[v]
  BY <1>1, <1>2, ChangedRow
<1>. HIDE DEF s, old
<1>6. /\ identities' \subseteq identities \cup {Entry(s, u)}
      /\ \A i, j \in identities' : i.subject = j.subject => i = j
      /\ ~usesDb => \A t, v :
            Entry(t, v) \in identities' <=>
                \/ t = s /\ v = u
                \/ Entry(t, v) \in identities /\ t # s /\ ~(v = u /\ t = old)
  BY <1>1, <1>3, <1>4, ReboundEntries
<1>7. Tables'
  <2>1. Len(users') <= MaxUsers /\ sessions' \cup pending' \subseteq Ids'
    BY <1>1, <1>4, <1>5 DEF Tables
  <2>. QED BY <1>1, <1>3, <1>4, <1>5, <1>6, <2>1, TablesStep
<1>8. usesDb => Unique'
  BY <1>2, <1>4, <1>5 DEF Unique, AccountsInv
<1>9. ~usesDb => Leads'
  <2>. SUFFICES ASSUME ~usesDb, NEW v \in Ids
                PROVE  /\ \A x \in Phones : Entry(ByPhone(x), v) \in identities' <=> users'[v].phone = x
                       /\ \A x \in Emails : Entry(ByEmail(x), v) \in identities' => users'[v].email = x
    BY <1>5 DEF Leads
  <2>1. /\ \A x \in Phones : Entry(ByPhone(x), v) \in identities <=> users[v].phone = x
        /\ \A x \in Emails : Entry(ByEmail(x), v) \in identities => users[v].email = x
    BY DEF Leads, AccountsInv
  <2>2. \A x : /\ ByPhone(x) = s <=> x = n
               /\ ByPhone(x) = old <=> x = users[u].phone
               /\ ByEmail(x) # s
    BY SubjectsDiffer DEF s, old
  <2>3. CASE v = u
    BY <1>2, <1>5, <1>6, <2>1, <2>2, <2>3
  <2>4. CASE v # u
    BY <1>4, <1>5, <1>6, <2>1, <2>2, <2>4
  <2>. QED BY <2>3, <2>4
<1>. QED BY <1>4, <1>5, <1>7, <1>8, <1>9 DEF AccountsInv, Answered, NoAnswer, r

LEMMA BindEmailStep ==
    ASSUME AccountsInv, NEW u \in Ids, NEW e \in Emails, BindEmail(u, e)
    PROVE  /\ AccountsInv'
           /\ Ids' = Ids /\ users'[u] = [users[u] EXCEPT !.email = e]
           /\ \A v \in Ids : v # u => users'[v] = users[v]
<1>. DEFINE r == [users[u] EXCEPT !.email = e]
            s == ByEmail(e)
            old == ByEmail(users[u].email)
<1>1. /\ Tables /\ users \in Seq(Row) /\ \A v \in Ids : users[v] \in Row
  BY RowsOf DEF AccountsInv, Tables
<1>2. r \in Row /\ r.email = e /\ r.phone = users[u].phone /\ users' = [users EXCEPT ![u] = r]
  BY <1>1 DEF BindEmail, Row
<1>3. s \in Subjects /\ e # Absent
  BY AccountsBounds DEF Subjects, ByEmail
<1>4. /\ identities' = Rebound(u, s, old) /\ answer' = NoAnswer
      /\ UNCHANGED <<usesDb, sessions, pending>>
      /\ \A v \in Ids : v # u => users[v].email # e
  BY <1>3 DEF BindEmail, EmailHolders
<1>. HIDE DEF r
<1>5. /\ users' \in Seq(Row) /\ Len(users') = Len(users) /\ Ids' = Ids
      /\ users'[u] = r /\ \A v \in Ids : v # u => users'[v] = users[v]
  BY <1>1, <1>2, ChangedRow
<1>. HIDE DEF s, old
<1>6. /\ identities' \subseteq identities \cup {Entry(s, u)}
      /\ \A i, j \in identities' : i.subject = j.subject => i = j
      /\ ~usesDb => \A t, v :
            Entry(t, v) \in identities' <=>
                \/ t = s /\ v = u
                \/ Entry(t, v) \in identities /\ t # s /\ ~(v = u /\ t = old)
  BY <1>1, <1>3, <1>4, ReboundEntries
<1>7. Tables'
  <2>1. Len(users') <= MaxUsers /\ sessions' \cup pending' \subseteq Ids'
    BY <1>1, <1>4, <1>5 DEF Tables
  <2>. QED BY <1>1, <1>3, <1>4, <1>5, <1>6, <2>1, TablesStep
<1>8. usesDb => Unique'
  BY <1>2, <1>4, <1>5 DEF Unique, AccountsInv
<1>9. ~usesDb => Leads'
  <2>. SUFFICES ASSUME ~usesDb, NEW v \in Ids
                PROVE  /\ \A x \in Phones : Entry(ByPhone(x), v) \in identities' <=> users'[v].phone = x
                       /\ \A x \in Emails : Entry(ByEmail(x), v) \in identities' => users'[v].email = x
    BY <1>5 DEF Leads
  <2>1. /\ \A x \in Phones : Entry(ByPhone(x), v) \in identities <=> users[v].phone = x
        /\ \A x \in Emails : Entry(ByEmail(x), v) \in identities => users[v].email = x
    BY DEF Leads, AccountsInv
  <2>2. \A x : /\ ByEmail(x) = s <=> x = e
               /\ ByEmail(x) = old <=> x = users[u].email
               /\ ByPhone(x) # s /\ ByPhone(x) # old
    BY SubjectsDiffer DEF s, old
  <2>3. CASE v = u
    BY <1>2, <1>5, <1>6, <2>1, <2>2, <2>3
  <2>4. CASE v # u
    BY <1>4, <1>5, <1>6, <2>1, <2>2, <2>4
  <2>. QED BY <2>3, <2>4
<1>. QED BY <1>4, <1>5, <1>7, <1>8, <1>9 DEF AccountsInv, Answered, NoAnswer, r

\* A step that leaves the tables alone.
LEMMA QuietStep ==
    ASSUME AccountsInv, UNCHANGED <<usesDb, users, identities>>,
           answer' = NoAnswer \/ answer' = answer, sessions' \cup pending' \subseteq Ids
    PROVE  AccountsInv'
<1>1. Ids' = Ids
  BY DEF Ids
<1>2. Tables'
  BY <1>1 DEF AccountsInv, Tables
<1>3. (usesDb => Unique') /\ (~usesDb => Leads')
  BY <1>1 DEF AccountsInv, Unique, Leads
<1>4. Answered'
  BY <1>1 DEF AccountsInv, Answered, NoAnswer
<1>. QED BY <1>2, <1>3, <1>4 DEF AccountsInv

\* A request for a sign-in, as upsertIdentity sees it.
LEMMA SignInStep ==
    ASSUME AccountsInv, NEW s, NEW n, NEW e, NEW contact, Call(s, n, e, contact),
           SignIn(s, n, e, contact)
    PROVE  AccountsInv'
<1>1. CASE Succeeds(s, n, e, contact)
  <2>1. PICK u \in 1..MaxUsers :
            /\ IF usesDb THEN Upserts(s, n, e, u) \/ Attaches(s, n, e, u) ELSE Remembers(s, n, e, u)
            /\ \/ Answers(contact, u)
               \/ usesDb /\ answer' = NoAnswer /\ UNCHANGED pending
            /\ UNCHANGED <<usesDb, sessions, restarts>>
    BY <1>1 DEF Succeeds
  <2>2. CASE usesDb
    BY <2>1, <2>2, DatabaseSignIn
  <2>3. CASE ~usesDb
    BY <2>1, <2>3, MemorySignIn
  <2>. QED BY <2>2, <2>3
<1>2. CASE FailsToSignIn(s, n, e)
  <2>1. UNCHANGED <<usesDb, users, identities, sessions, pending>> /\ answer' = NoAnswer
    BY <1>2 DEF FailsToSignIn, ThrowsOn
  <2>. QED BY <2>1, QuietStep DEF AccountsInv, Tables
<1>. QED BY <1>1, <1>2 DEF SignIn

\* Every step is one of these: a sign-in by some contact or account, a new
\* user, a contact bound, or one that leaves the users alone.
LEMMA StepKinds ==
    ASSUME [Next]_vars, AccountsInv
    PROVE  \/ \E s, n, e, contact : Call(s, n, e, contact) /\ SignIn(s, n, e, contact)
           \/ \E name \in Usernames : Register(name)
           \/ \E u \in Ids : (\E n \in Phones : BindPhone(u, n)) \/ (\E e \in Emails : BindEmail(u, e))
           \/ /\ UNCHANGED <<usesDb, users, identities>>
              /\ answer' = NoAnswer \/ answer' = answer
              /\ sessions' \cup pending' \subseteq Ids
           \/ Restart
<1>1. ASSUME NEW n \in Phones, SignInByPhone(n)
      PROVE  Call(ByPhone(n), n, Absent, n) /\ SignIn(ByPhone(n), n, Absent, n)
  BY <1>1 DEF SignInByPhone, Call
<1>2. ASSUME NEW e \in Emails, SignInByEmail(e)
      PROVE  Call(ByEmail(e), Absent, e, e) /\ SignIn(ByEmail(e), Absent, e, e)
  BY <1>2 DEF SignInByEmail, Call
<1>3. ASSUME NEW g \in Githubs, NEW e \in Emails \cup {Absent}, SignInByGithub(g, e)
      PROVE  Call(ByGithub(g), Absent, e, Absent) /\ SignIn(ByGithub(g), Absent, e, Absent)
  BY <1>3 DEF SignInByGithub, Call
<1>4. ASSUME NEW u \in Ids, EndsSession(u) \/ (\E opened \in BOOLEAN : OpensSession(u, opened))
      PROVE  /\ UNCHANGED <<usesDb, users, identities>> /\ answer' = NoAnswer
             /\ sessions' \cup pending' \subseteq Ids
  BY <1>4 DEF EndsSession, OpensSession, AccountsInv, Tables
<1>5. CASE UNCHANGED vars
  BY <1>5 DEF vars, AccountsInv, Tables
<1>. QED BY <1>1, <1>2, <1>3, <1>4, <1>5 DEF Next

LEMMA AccountsStep == AccountsInv /\ [Next]_vars => AccountsInv'
<1>. SUFFICES ASSUME AccountsInv, [Next]_vars PROVE AccountsInv'
  OBVIOUS
<1>1. CASE Restart
  <2>1. CASE usesDb
    <3>1. UNCHANGED <<usesDb, users, identities, sessions>> /\ pending' = {} /\ answer' = NoAnswer
      BY <1>1, <2>1 DEF Restart
    <3>. QED BY <3>1, QuietStep DEF AccountsInv, Tables
  <2>2. CASE ~usesDb
    <3>1. /\ users' = <<>> /\ identities' = {} /\ sessions' = {} /\ pending' = {}
          /\ answer' = NoAnswer /\ usesDb' = usesDb
      BY <1>1, <2>2 DEF Restart
    <3>2. users' \in Seq(Row) /\ Len(users') = 0 /\ Ids' = {}
      BY <3>1 DEF Ids
    <3>. QED BY <2>2, <3>1, <3>2, AccountsBounds DEF AccountsInv, Tables, Leads, Answered, NoAnswer
  <2>. QED BY <2>1, <2>2
<1>. QED BY <1>1, StepKinds, SignInStep, RegisterStep, BindPhoneStep, BindEmailStep, QuietStep

\* For any contacts and any number of users, with and without a database: a
\* verified phone number or address signs in the user who holds it, and with
\* a database nobody else holds it, whatever was bound, attached or registered
\* before (upsertIdentity, attachIdentityToExistingEmailUser, bindPhone, bindEmail).
THEOREM HoldersSignIn == Spec => []HolderSignsIn
<1>1. AccountsInv => HolderSignsIn
  <2>. SUFFICES ASSUME AccountsInv, answer.who # 0
                PROVE  LET c == answer.contact
                       IN  /\ c \in {users[answer.who].phone, users[answer.who].email}
                           /\ usesDb => PhoneHolders(c, answer.who) \cup EmailHolders(c, answer.who) = {}
    BY DEF HolderSignsIn
  <2>. DEFINE w == answer.who
              c == answer.contact
  <2>1. /\ w \in Ids
        /\ \/ c \in Phones /\ users[w].phone = c
           \/ c \in Emails /\ users[w].email = c
    BY DEF AccountsInv, Answered
  <2>2. \A v \in Ids : /\ users[v].phone \in Phones \cup {Absent}
                       /\ users[v].email \in Emails \cup {Absent}
    BY RowsOf DEF AccountsInv, Tables, Row
  <2>3. usesDb => Unique
    BY DEF AccountsInv
  <2>. HIDE DEF w, c
  <2>4. ASSUME usesDb PROVE PhoneHolders(c, w) \cup EmailHolders(c, w) = {}
    <3>1. \A v \in Ids \ {w} : users[v].phone # c /\ users[v].email # c
      BY <2>1, <2>2, <2>3, <2>4, AccountsBounds DEF Unique
    <3>. QED BY <3>1 DEF PhoneHolders, EmailHolders
  <2>. QED BY <2>1, <2>4 DEF w, c
<1>. QED BY <1>1, AccountsInit, AccountsStep, PTL DEF Spec
-----------------------------------------------------------------------------
\* Contacts are kept

\* A user's row after a step: nobody's contact is taken away.
Keeps(v) ==
    /\ users[v].phone # Absent => users'[v].phone # Absent
    /\ users[v].email # Absent => users'[v].email # Absent

LEMMA OneRowChanges ==
    ASSUME AccountsInv, [Next]_vars, usesDb
    PROVE  /\ \A v \in Ids : Keeps(v)
           /\ \E w : \A v \in Ids : v # w => users'[v] = users[v]
<1>. DEFINE Goal == /\ \A v \in Ids : Keeps(v)
                    /\ \E w : \A v \in Ids : v # w => users'[v] = users[v]
<1>1. users \in Seq(Row) /\ \A v \in Ids : users[v] \in Row
  BY RowsOf DEF AccountsInv, Tables
<1>2. ASSUME \A v \in Ids : users'[v] = users[v] PROVE Goal
  BY <1>2 DEF Keeps
<1>3. ASSUME NEW w \in Ids, \A v \in Ids : v # w => users'[v] = users[v], Keeps(w) PROVE Goal
  BY <1>3 DEF Keeps
<1>4. ASSUME NEW s, NEW n, NEW e, NEW contact, Call(s, n, e, contact), SignIn(s, n, e, contact)
      PROVE  Goal
  <2>1. NewUser(s, n, e) \in Row
    BY <1>4, CallShape
  <2>2. \/ UNCHANGED users
        \/ \E u : Upserts(s, n, e, u)
    BY <1>4 DEF SignIn, Succeeds, FailsToSignIn, ThrowsOn, Attaches
  <2>3. ASSUME NEW u, Upserts(s, n, e, u) PROVE Goal
    <3>1. CASE u \in Ids
      <4>. DEFINE r == [users[u] EXCEPT !.phone = Coalesce(n, @), !.email = Coalesce(e, @)]
      <4>1. users' = [users EXCEPT ![u] = r]
        BY <1>1, <2>3, <3>1 DEF Upserts, Row
      <4>2. /\ r.phone = Coalesce(n, users[u].phone) /\ r.email = Coalesce(e, users[u].email)
            /\ r \in Row
        <5>1. n \in Phones \cup {Absent} /\ e \in Emails \cup {Absent}
          BY <1>4, CallShape
        <5>. QED BY <1>1, <3>1, <5>1 DEF Row, Coalesce
      <4>. HIDE DEF r
      <4>3. users'[u] = r /\ \A v \in Ids : v # u => users'[v] = users[v]
        BY <1>1, <3>1, <4>1, <4>2, ChangedRow
      <4>4. Keeps(u)
        BY <4>2, <4>3 DEF Keeps, Coalesce
      <4>. QED BY <1>3, <3>1, <4>3, <4>4
    <3>2. CASE u \notin Ids
      <4>1. users' = Append(users, NewUser(s, n, e))
        BY <2>3, <3>2 DEF Upserts
      <4>. QED BY <1>1, <1>2, <2>1, <4>1, AddedRow
    <3>. QED BY <3>1, <3>2
  <2>. QED BY <1>2, <2>2, <2>3
<1>5. ASSUME NEW name \in Usernames, Register(name) PROVE Goal
  <2>1. users' = Append(users, NewUser(ByPassword(name), Absent, Absent))
    BY <1>5 DEF Register
  <2>2. NewUser(ByPassword(name), Absent, Absent) \in Row
    BY DEF NewUser, Row, ByPassword, Subjects
  <2>. QED BY <1>1, <1>2, <2>1, <2>2, AddedRow
<1>6. ASSUME NEW u \in Ids, NEW n \in Phones, BindPhone(u, n) PROVE Goal
  <2>1. /\ users'[u] = [users[u] EXCEPT !.phone = n]
        /\ \A v \in Ids : v # u => users'[v] = users[v]
    BY <1>6, BindPhoneStep
  <2>2. Keeps(u)
    BY <1>1, <2>1, AccountsBounds DEF Keeps, Row
  <2>. QED BY <1>3, <2>1, <2>2
<1>7. ASSUME NEW u \in Ids, NEW e \in Emails, BindEmail(u, e) PROVE Goal
  <2>1. /\ users'[u] = [users[u] EXCEPT !.email = e]
        /\ \A v \in Ids : v # u => users'[v] = users[v]
    BY <1>7, BindEmailStep
  <2>2. Keeps(u)
    BY <1>1, <2>1, AccountsBounds DEF Keeps, Row
  <2>. QED BY <1>3, <2>1, <2>2
<1>8. ASSUME Restart PROVE Goal
  BY <1>2, <1>8 DEF Restart
<1>. HIDE DEF Goal
<1>9. Goal
  <2>1. CASE UNCHANGED <<usesDb, users, identities>>
    BY <1>2, <2>1
  <2>2. CASE \E s, n, e, contact : Call(s, n, e, contact) /\ SignIn(s, n, e, contact)
    BY <1>4, <2>2
  <2>3. CASE \E name \in Usernames : Register(name)
    BY <1>5, <2>3
  <2>4. CASE \E u \in Ids : (\E n \in Phones : BindPhone(u, n)) \/ (\E e \in Emails : BindEmail(u, e))
    BY <1>6, <1>7, <2>4
  <2>5. \/ \E s, n, e, contact : Call(s, n, e, contact) /\ SignIn(s, n, e, contact)
        \/ \E name \in Usernames : Register(name)
        \/ \E u \in Ids : (\E n \in Phones : BindPhone(u, n)) \/ (\E e \in Emails : BindEmail(u, e))
        \/ UNCHANGED <<usesDb, users, identities>>
        \/ Restart
    BY StepKinds
  <2>6. CASE Restart
    BY <1>8, <2>6
  <2>. QED BY <2>1, <2>2, <2>3, <2>4, <2>5, <2>6
<1>. QED BY <1>9 DEF Goal

\* For any contacts and users, with a database: no step of a sign-in, a
\* registration or a binding changes the rows of two users, and none takes a
\* contact away (COALESCE in upsertIdentity, the UPDATEs of bindPhone and bindEmail).
THEOREM KeepsContacts == Spec => ContactsAreKept
<1>1. AccountsInv /\ [Next]_vars =>
        (usesDb => /\ Cardinality({u \in Ids : users'[u] # users[u]}) <= 1
                   /\ \A u \in Ids : /\ users[u].phone # Absent => users'[u].phone # Absent
                                     /\ users[u].email # Absent => users'[u].email # Absent)
  <2>. SUFFICES ASSUME AccountsInv, [Next]_vars, usesDb
                PROVE  /\ Cardinality({u \in Ids : users'[u] # users[u]}) <= 1
                       /\ \A u \in Ids : Keeps(u)
    BY DEF Keeps
  <2>1. PICK w : \A v \in Ids : v # w => users'[v] = users[v]
    BY OneRowChanges
  <2>. DEFINE S == {u \in Ids : users'[u] # users[u]}
  <2>2. S \in SUBSET {w}
    BY <2>1
  <2>. HIDE DEF S
  <2>3. IsFiniteSet({w}) /\ Cardinality({w}) = 1
    BY FS_Singleton
  <2>4. IsFiniteSet(S) /\ Cardinality(S) <= Cardinality({w})
    BY <2>2, <2>3, FS_Subset
  <2>5. Cardinality(S) <= 1
    BY <2>3, <2>4
  <2>. QED BY <2>5, OneRowChanges DEF S
<1>2. AccountsInv /\ [Next]_vars => AccountsInv'
  BY AccountsStep
<1>. QED BY <1>1, <1>2, AccountsInit, PTL DEF Spec, ContactsAreKept
-----------------------------------------------------------------------------
\* The maps of the process as a directory

\* The holder that the directory sees, in terms of rows.
LEMMA HolderRow ==
    ASSUME AccountsInv, ~usesDb, NEW n \in Phones
    PROVE  /\ \A u \in Ids : users[u].phone = n => Holder(n) = u
           /\ Holder(n) # 0 => Holder(n) \in Ids /\ users[Holder(n)].phone = n
<1>1. Tables /\ Leads /\ n # Absent
  BY AccountsBounds DEF AccountsInv
<1>2. \A u, v \in Ids : users[u].phone = n /\ users[v].phone = n => u = v
  <2>. SUFFICES ASSUME NEW u \in Ids, NEW v \in Ids, users[u].phone = n, users[v].phone = n
                PROVE  u = v
    OBVIOUS
  <2>1. Entry(ByPhone(n), u) \in identities /\ Entry(ByPhone(n), v) \in identities
    BY <1>1 DEF Leads
  <2>2. Entry(ByPhone(n), u).subject = Entry(ByPhone(n), v).subject
    BY DEF Entry
  <2>3. Entry(ByPhone(n), u) = Entry(ByPhone(n), v)
    BY <1>1, <2>1, <2>2 DEF Tables
  <2>. QED BY <2>3, EntriesDiffer
<1>3. PhoneHolders(n, 0) = {u \in Ids : users[u].phone = n}
  BY <1>1 DEF PhoneHolders, Ids, Tables
<1>4. CASE PhoneHolders(n, 0) = {}
  <2>1. Holder(n) = 0
    BY <1>4 DEF Holder
  <2>. QED BY <1>3, <1>4, <2>1
<1>5. CASE PhoneHolders(n, 0) # {}
  <2>1. Holder(n) = CHOOSE u \in PhoneHolders(n, 0) : TRUE
    BY <1>5 DEF Holder
  <2>2. Holder(n) \in PhoneHolders(n, 0)
    BY <1>5, <2>1
  <2>. QED BY <1>2, <1>3, <2>2
<1>. QED BY <1>4, <1>5

LEMMA HoldersAre ==
    ASSUME AccountsInv, NEW n \in Phones, NEW w, usesDb => w = 0,
           ~usesDb => IF w = 0 THEN \A u \in Ids : users[u].phone # n
                               ELSE w \in Ids /\ users[w].phone = n
    PROVE  Holder(n) = w
<1>1. CASE usesDb
  BY <1>1 DEF Holder
<1>2. CASE ~usesDb
  BY <1>2, HolderRow
<1>. QED BY <1>1, <1>2 DEF AccountsInv, Tables

Holders == [n \in Phones |-> Holder(n)]
Reply == IF ~usesDb /\ answer.contact \in Phones THEN answer ELSE [contact |-> 0, who |-> 0]

LEMMA HoldersOfRows ==
    AccountsInv => \A n \in Phones, w \in Nat :
        (~usesDb /\ (IF w = 0 THEN \A u \in Ids : users[u].phone # n
                             ELSE w \in Ids /\ users[w].phone = n)) => Holders[n] = w
BY HoldersAre DEF Holders

\* The holder of every number after a step without a database, from its rows.
LEMMA NextHolders ==
    ASSUME AccountsInv', ~usesDb', NEW h \in [Phones -> Nat],
           \A n \in Phones : IF h[n] = 0 THEN \A u \in Ids' : users'[u].phone # n
                                         ELSE h[n] \in Ids' /\ users'[h[n]].phone = n
    PROVE  Holders' = h
<1>1. (AccountsInv => \A n \in Phones, w \in Nat :
          (~usesDb /\ (IF w = 0 THEN \A u \in Ids : users[u].phone # n
                               ELSE w \in Ids /\ users[w].phone = n)) => Holders[n] = w)'
  BY HoldersOfRows, PTL
<1>2. \A n \in Phones : Holders'[n] = h[n]
  BY <1>1
<1>3. Holders' = [n \in Phones |-> Holders'[n]]
  BY DEF Holders
<1>. QED BY <1>2, <1>3

NoReply == [contact |-> 0, who |-> 0]

\* Who holds a phone number: a user, or 0.
LEMMA HoldersShape ==
    ASSUME AccountsInv
    PROVE  /\ Holders \in [Phones -> Nat]
           /\ \A n \in Phones : Holders[n] \in Ids \cup {0}
           /\ ~usesDb => \A n \in Phones, u \in Ids : Holders[n] = u <=> users[u].phone = n
           /\ usesDb => Holders = [n \in Phones |-> 0]
<1>1. CASE usesDb
  BY <1>1 DEF Holders, Holder
<1>2. CASE ~usesDb
  <2>1. \A n \in Phones : /\ Holder(n) \in Ids \cup {0}
                          /\ \A u \in Ids : Holder(n) = u <=> users[u].phone = n
    <3>1. 0 \notin Ids
      BY DEF Ids
    <3>. QED BY <1>2, <3>1, HolderRow
  <2>2. Ids \cup {0} \subseteq Nat
    BY DEF Ids
  <2>. QED BY <1>2, <2>1, <2>2 DEF Holders
<1>. QED BY <1>1, <1>2 DEF AccountsInv, Tables

\* The directory's state and steps, of the maps.
LEMMA DirectoryOther == Holders' = Holders /\ Reply' = NoReply => PhoneDirectory!Next
BY DEF PhoneDirectory!Next, PhoneDirectory!Other, PhoneDirectory!None, Holders, Reply, NoReply

LEMMA DirectoryForget == Holders' = [n \in Phones |-> 0] /\ Reply' = NoReply => PhoneDirectory!Next
BY DEF PhoneDirectory!Next, PhoneDirectory!Forget, PhoneDirectory!None, Holders, Reply, NoReply

LEMMA DirectoryMove ==
    ASSUME NEW n \in Phones, NEW u \in 1..MaxUsers, Holders[n] \in {0, u},
           Holders' = [x \in Phones |-> IF x = n THEN u ELSE IF Holders[x] = u THEN 0 ELSE Holders[x]],
           Reply' = NoReply
    PROVE  PhoneDirectory!Next
BY DEF PhoneDirectory!Next, PhoneDirectory!Move, PhoneDirectory!None, Holders, Reply, NoReply

LEMMA DirectorySignIn ==
    ASSUME NEW n \in Phones,
           \/ Holders[n] # 0 /\ Holders' = Holders
           \/ /\ Holders[n] = 0
              /\ \E u \in 1..MaxUsers : /\ \A x \in Phones : Holders[x] # u
                                        /\ Holders' = [Holders EXCEPT ![n] = u],
           Reply' = [contact |-> n, who |-> Holders'[n]]
    PROVE  PhoneDirectory!Next
BY DEF PhoneDirectory!Next, PhoneDirectory!SignIn, PhoneDirectory!Held, Holders, Reply

LEMMA ReplyIs ==
    /\ usesDb \/ answer.contact \notin Phones => Reply = NoReply
    /\ ~usesDb /\ answer.contact \in Phones => Reply = answer
BY DEF Reply, NoReply

LEMMA NextReplyIs ==
    /\ usesDb' \/ answer'.contact \notin Phones => Reply' = NoReply
    /\ ~usesDb' /\ answer'.contact \in Phones => Reply' = answer'
BY DEF Reply, NoReply

LEMMA NoAnswerNoReply == NoAnswer.contact \notin Phones
BY AccountsBounds DEF NoAnswer

\* Steps that move no phone number.
LEMMA SameHolders ==
    ASSUME AccountsInv, AccountsInv', ~usesDb, ~usesDb',
           Ids \subseteq Ids', \A v \in Ids : users'[v].phone = users[v].phone,
           \A v \in Ids' : v \notin Ids => users'[v].phone = Absent
    PROVE  Holders' = Holders
<1>1. /\ Holders \in [Phones -> Nat] /\ \A n \in Phones : Holders[n] \in Ids \cup {0}
      /\ \A n \in Phones, u \in Ids : Holders[n] = u <=> users[u].phone = n
  BY HoldersShape
<1>. DEFINE h == Holders
<1>2. ASSUME NEW n \in Phones
      PROVE  IF h[n] = 0 THEN \A u \in Ids' : users'[u].phone # n
                         ELSE h[n] \in Ids' /\ users'[h[n]].phone = n
  <2>1. 0 \notin Ids /\ n # Absent
    BY AccountsBounds DEF Ids
  <2>2. CASE h[n] = 0
    BY <1>1, <2>1, <2>2
  <2>3. CASE h[n] # 0
    BY <1>1, <2>3
  <2>. QED BY <2>2, <2>3
<1>3. h \in [Phones -> Nat]
  BY <1>1
<1>. HIDE DEF h
<1>4. Holders' = h
  BY <1>2, <1>3, NextHolders
<1>. QED BY <1>4 DEF h

\* A sign-in in the process is a sign-in of the directory, or none of its business.
LEMMA DirectoryRemembers ==
    ASSUME AccountsInv, AccountsInv', ~usesDb, ~usesDb',
           NEW s, NEW n, NEW e, NEW contact, Call(s, n, e, contact), NEW u \in 1..MaxUsers,
           Remembers(s, n, e, u), Answers(contact, u)
    PROVE  PhoneDirectory!Next
<1>1. /\ Tables /\ Leads /\ users \in Seq(Row) /\ Len(users) \in Nat
      /\ Holders \in [Phones -> Nat] /\ \A x \in Phones : Holders[x] \in Ids \cup {0}
      /\ \A x \in Phones, v \in Ids : Holders[x] = v <=> users[v].phone = x
      /\ 0 \notin Ids
  BY HoldersShape DEF AccountsInv, Tables, Ids
<1>2. /\ NewUser(s, n, e) \in Row /\ NewUser(s, n, e).phone = n
      /\ n \in Phones => s = ByPhone(n) /\ contact = n
      /\ n \notin Phones => n = Absent /\ contact \notin Phones
  <2>1. NewUser(s, n, e) \in Row /\ NewUser(s, n, e).phone = n
    BY CallShape
  <2>2. Absent \notin Phones /\ \A x \in Emails : x \notin Phones
    BY AccountsBounds
  <2>3. n \in Phones => s = ByPhone(n) /\ contact = n
    BY <2>2 DEF Call
  <2>4. n \notin Phones => n = Absent /\ contact \notin Phones
    BY <2>2 DEF Call
  <2>. QED BY <2>1, <2>3, <2>4
<1>3. /\ n \in Phones => answer' = [contact |-> n, who |-> u]
      /\ n \notin Phones => answer'.contact \notin Phones
  BY <1>2, NoAnswerNoReply, AccountsBounds DEF Answers
<1>4. /\ n \in Phones => Reply' = [contact |-> n, who |-> u]
      /\ n \notin Phones => Reply' = NoReply
  BY <1>3, NextReplyIs
<1>5. CASE \E i \in identities : i.subject = s
  <2>1. Entry(s, u) \in identities /\ UNCHANGED users
    BY <1>5 DEF Remembers, Entry
  <2>2. u \in Ids /\ Ids' = Ids
    BY <1>1, <2>1 DEF Tables, Entry, Ids
  <2>3. Holders' = Holders
    BY <2>1, <2>2, SameHolders
  <2>4. CASE n \in Phones
    <3>1. Holders[n] = u
      BY <1>1, <1>2, <2>1, <2>2, <2>4 DEF Leads
    <3>. QED BY <1>1, <1>4, <2>2, <2>3, <2>4, <3>1, DirectorySignIn
  <2>5. CASE n \notin Phones
    BY <1>4, <2>3, <2>5, DirectoryOther
  <2>. QED BY <2>4, <2>5
<1>6. CASE ~\E i \in identities : i.subject = s
  <2>1. u = Len(users) + 1 /\ users' = Append(users, NewUser(s, n, e))
    BY <1>6 DEF Remembers
  <2>2. /\ Ids' = Ids \cup {u} /\ u \notin Ids /\ users'[u].phone = n
        /\ \A v \in Ids : users'[v] = users[v]
    BY <1>1, <1>2, <2>1, AddedRow
  <2>3. CASE n \in Phones
    <3>. DEFINE h == [Holders EXCEPT ![n] = u]
    <3>1. \A v \in Ids : users[v].phone # n
      <4>1. \A v : Entry(s, v) \notin identities
        BY <1>6 DEF Entry
      <4>. QED BY <1>1, <1>2, <2>3, <4>1 DEF Leads
    <3>2. Holders[n] = 0 /\ \A x \in Phones : Holders[x] # u
      BY <1>1, <2>1, <2>2, <2>3, <3>1
    <3>3. h \in [Phones -> Nat] /\ h[n] = u /\ \A x \in Phones : x # n => h[x] = Holders[x]
      BY <1>1, <2>1, <2>3
    <3>. HIDE DEF h
    <3>4. ASSUME NEW x \in Phones
          PROVE  IF h[x] = 0 THEN \A v \in Ids' : users'[v].phone # x
                             ELSE h[x] \in Ids' /\ users'[h[x]].phone = x
      <4>1. CASE x = n
        BY <2>2, <3>3, <4>1
      <4>2. CASE x # n /\ Holders[x] = 0
        <5>1. \A v \in Ids : users[v].phone # x
          BY <1>1, <4>2
        <5>. QED BY <2>2, <3>3, <4>2, <5>1
      <4>3. CASE x # n /\ Holders[x] # 0
        <5>1. Holders[x] \in Ids /\ users[Holders[x]].phone = x
          BY <1>1, <4>3
        <5>. QED BY <2>2, <3>3, <4>3, <5>1
      <4>. QED BY <4>1, <4>2, <4>3
    <3>5. Holders' = h
      BY <3>3, <3>4, NextHolders
    <3>6. Reply' = [contact |-> n, who |-> Holders'[n]]
      BY <1>4, <2>3, <3>3, <3>5
    <3>. QED BY <2>3, <3>2, <3>5, <3>6, DirectorySignIn DEF h
  <2>4. CASE n \notin Phones
    <3>1. Holders' = Holders
      BY <1>2, <2>2, <2>4, SameHolders
    <3>. QED BY <1>4, <2>4, <3>1, DirectoryOther
  <2>. QED BY <2>3, <2>4
<1>. QED BY <1>5, <1>6

\* A user who binds a phone number exchanges the one he had for it.
LEMMA DirectoryBinds ==
    ASSUME AccountsInv, AccountsInv', ~usesDb, ~usesDb',
           NEW u \in Ids, NEW n \in Phones, BindPhone(u, n)
    PROVE  PhoneDirectory!Next
<1>. DEFINE h == [x \in Phones |-> IF x = n THEN u ELSE IF Holders[x] = u THEN 0 ELSE Holders[x]]
<1>1. /\ Tables /\ users \in Seq(Row) /\ \A v \in Ids : users[v] \in Row
      /\ Holders \in [Phones -> Nat] /\ \A x \in Phones : Holders[x] \in Ids \cup {0}
      /\ \A x \in Phones, v \in Ids : Holders[x] = v <=> users[v].phone = x
      /\ n # Absent
  BY HoldersShape, RowsOf, AccountsBounds DEF AccountsInv, Tables
<1>2. 0 \notin Ids /\ u \in Nat /\ u # 0 /\ u \in 1..MaxUsers
  BY <1>1, AccountsBounds DEF Ids, Tables
<1>3. /\ Ids' = Ids /\ users'[u] = [users[u] EXCEPT !.phone = n]
      /\ \A v \in Ids : v # u => users'[v] = users[v]
  BY BindPhoneStep
<1>4. users'[u].phone = n
  BY <1>1, <1>3 DEF Row
<1>5. \A v \in Ids : v # u => users[v].phone # n
  BY <1>1 DEF BindPhone, PhoneHolders
<1>6. Holders[n] \in {0, u}
  BY <1>1, <1>5
<1>7. /\ h \in [Phones -> Nat] /\ h[n] = u
      /\ \A x \in Phones : x # n => h[x] = IF Holders[x] = u THEN 0 ELSE Holders[x]
  BY <1>1, <1>2
<1>. HIDE DEF h
<1>8. ASSUME NEW x \in Phones
      PROVE  IF h[x] = 0 THEN \A v \in Ids' : users'[v].phone # x
                         ELSE h[x] \in Ids' /\ users'[h[x]].phone = x
  <2>1. CASE x = n
    BY <1>2, <1>3, <1>4, <1>7, <2>1
  <2>2. CASE x # n /\ Holders[x] \in {0, u}
    <3>1. h[x] = 0
      BY <1>7, <2>2
    <3>2. \A v \in Ids : v # u => users[v].phone # x
      BY <1>1, <1>2, <2>2
    <3>. QED BY <1>3, <1>4, <2>2, <3>1, <3>2
  <2>3. CASE x # n /\ Holders[x] \notin {0, u}
    <3>1. h[x] = Holders[x] /\ Holders[x] \in Ids
      BY <1>1, <1>7, <2>3
    <3>2. users[Holders[x]].phone = x
      BY <1>1, <3>1
    <3>. QED BY <1>2, <1>3, <2>3, <3>1, <3>2
  <2>. QED BY <2>1, <2>2, <2>3
<1>9. Holders' = h
  BY <1>7, <1>8, NextHolders
<1>10. Reply' = NoReply
  <2>1. answer' = NoAnswer
    BY DEF BindPhone
  <2>. QED BY <2>1, NoAnswerNoReply, NextReplyIs
<1>. QED BY <1>2, <1>6, <1>9, <1>10, DirectoryMove DEF h

LEMMA EmptyHolders == AccountsInv => (usesDb => Holders = [n \in Phones |-> 0])
BY HoldersShape

LEMMA DatabaseStays ==
    ASSUME [Next]_vars, AccountsInv
    PROVE  usesDb' = usesDb
<1>1. ASSUME NEW s, NEW n, NEW e, NEW contact, SignIn(s, n, e, contact)
      PROVE  usesDb' = usesDb
  BY <1>1 DEF SignIn, Succeeds, FailsToSignIn
<1>2. ASSUME NEW name, Register(name) PROVE usesDb' = usesDb
  BY <1>2 DEF Register
<1>3. ASSUME NEW u, NEW x, BindPhone(u, x) \/ BindEmail(u, x) PROVE usesDb' = usesDb
  BY <1>3 DEF BindPhone, BindEmail
<1>4. ASSUME Restart PROVE usesDb' = usesDb
  BY <1>4 DEF Restart
<1>. QED BY <1>1, <1>2, <1>3, <1>4, StepKinds

LEMMA DirectoryStep ==
    ASSUME AccountsInv, AccountsInv', [Next]_vars
    PROVE  PhoneDirectory!Next \/ (Holders' = Holders /\ Reply' = Reply)
<1>1. usesDb' = usesDb
  BY DatabaseStays
<1>2. CASE usesDb
  <2>1. (AccountsInv => (usesDb => Holders = [n \in Phones |-> 0]))'
    BY EmptyHolders, PTL
  <2>. QED BY <1>1, <1>2, <2>1, NextReplyIs, DirectoryForget
<1>3. CASE ~usesDb
  <2>1. ASSUME NEW s, NEW n, NEW e, NEW contact, Call(s, n, e, contact), SignIn(s, n, e, contact)
        PROVE  PhoneDirectory!Next
    <3>1. PICK u \in 1..MaxUsers : Remembers(s, n, e, u) /\ Answers(contact, u)
      BY <1>3, <2>1 DEF SignIn, Succeeds, FailsToSignIn
    <3>. QED BY <1>1, <1>3, <2>1, <3>1, DirectoryRemembers
  <2>2. ASSUME answer' = NoAnswer, Ids \subseteq Ids', \A v \in Ids : users'[v].phone = users[v].phone,
               \A v \in Ids' : v \notin Ids => users'[v].phone = Absent
        PROVE  PhoneDirectory!Next
    BY <1>1, <1>3, <2>2, SameHolders, NextReplyIs, NoAnswerNoReply, DirectoryOther
  <2>3. ASSUME NEW name \in Usernames, Register(name) PROVE PhoneDirectory!Next
    <3>. DEFINE r == NewUser(ByPassword(name), Absent, Absent)
    <3>1. users' = Append(users, r) /\ answer' = NoAnswer
      BY <2>3 DEF Register
    <3>2. r \in Row /\ r.phone = Absent /\ users \in Seq(Row)
      BY DEF NewUser, Row, ByPassword, Subjects, AccountsInv, Tables
    <3>. HIDE DEF r
    <3>3. /\ Ids' = Ids \cup {Len(users) + 1} /\ users'[Len(users) + 1] = r
          /\ \A v \in Ids : users'[v] = users[v]
      BY <3>1, <3>2, AddedRow
    <3>. QED BY <2>2, <3>1, <3>2, <3>3
  <2>4. ASSUME NEW u \in Ids, NEW n \in Phones, BindPhone(u, n) PROVE PhoneDirectory!Next
    BY <1>1, <1>3, <2>4, DirectoryBinds
  <2>5. ASSUME NEW u \in Ids, NEW e \in Emails, BindEmail(u, e) PROVE PhoneDirectory!Next
    <3>1. /\ Ids' = Ids /\ users'[u] = [users[u] EXCEPT !.email = e]
          /\ \A v \in Ids : v # u => users'[v] = users[v]
      BY <2>5, BindEmailStep
    <3>2. users'[u].phone = users[u].phone
      BY <3>1, RowsOf DEF Row, AccountsInv, Tables
    <3>3. answer' = NoAnswer
      BY <2>5 DEF BindEmail
    <3>. QED BY <2>2, <3>1, <3>2, <3>3
  <2>6. ASSUME UNCHANGED users, answer' = NoAnswer PROVE PhoneDirectory!Next
    <3>1. Ids' = Ids
      BY <2>6 DEF Ids
    <3>. QED BY <2>2, <2>6, <3>1
  <2>7. ASSUME UNCHANGED users, answer' = answer PROVE Holders' = Holders /\ Reply' = Reply
    <3>1. Ids' = Ids
      BY <2>7 DEF Ids
    <3>2. Holders' = Holders
      BY <1>1, <1>3, <2>7, <3>1, SameHolders
    <3>. QED BY <1>1, <2>7, <3>2 DEF Reply
  <2>8. ASSUME Restart PROVE PhoneDirectory!Next
    <3>1. users' = <<>> /\ answer' = NoAnswer
      BY <1>3, <2>8 DEF Restart
    <3>2. Ids' = {}
      BY <3>1 DEF Ids
    <3>. DEFINE h == [n \in Phones |-> 0]
    <3>3. h \in [Phones -> Nat] /\ \A n \in Phones : h[n] = 0
      OBVIOUS
    <3>. HIDE DEF h
    <3>4. Holders' = h
      BY <1>1, <1>3, <3>2, <3>3, NextHolders
    <3>. QED BY <3>1, <3>4, NextReplyIs, NoAnswerNoReply, DirectoryForget DEF h
  <2>. QED BY <2>1, <2>3, <2>4, <2>5, <2>6, <2>7, <2>8, StepKinds
<1>. QED BY <1>2, <1>3 DEF AccountsInv, Tables

\* For any contacts and users, without a database: what the maps of the process
\* do with phone numbers is what Directory allows.  A number leads to the one
\* user who holds it, a free one to a new user, and binding another gives up
\* the first (upsertIdentity, bindPhone; the maps of session-store.ts).
THEOREM MapsAreADirectory == Spec => MemoryIsADirectory
<1>1. Init => PhoneDirectory!Init
  <2>. SUFFICES ASSUME Init PROVE PhoneDirectory!Init
    OBVIOUS
  <2>1. users = <<>> /\ answer = NoAnswer /\ Ids = {} /\ AccountsInv
    BY AccountsInit DEF Init, Ids
  <2>2. \A n \in Phones : Holders[n] = 0
    BY <2>1, HoldersShape
  <2>3. Holders = [n \in Phones |-> 0]
    BY <2>2 DEF Holders
  <2>4. Reply = NoReply
    BY <2>1, NoAnswerNoReply, ReplyIs
  <2>. QED BY <2>3, <2>4 DEF PhoneDirectory!Init, PhoneDirectory!None, Holders, Reply, NoReply
<1>2. AccountsInv /\ [Next]_vars => AccountsInv'
  BY AccountsStep
<1>3. AccountsInv /\ AccountsInv' /\ [Next]_vars =>
          [PhoneDirectory!Next]_<<[n \in Phones |-> Holder(n)],
              IF ~usesDb /\ answer.contact \in Phones THEN answer ELSE [contact |-> 0, who |-> 0]>>
  BY DirectoryStep DEF Holders, Reply
<1>. QED BY <1>1, <1>2, <1>3, AccountsInit, PTL DEF Spec, MemoryIsADirectory, PhoneDirectory!Spec
=============================================================================
