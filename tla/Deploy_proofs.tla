---------------------------- MODULE Deploy_proofs ----------------------------
(* Proofs about Deploy for every number of wrappers, commits, builds and      *)
(* migrations: the types and the lock, a dump before every migration, and no  *)
(* selected release without its migrations under any mixture of faults, and   *)
(* that a deployment switches everything or nothing (ReleaseSwitch).          *)
EXTENDS Deploy, TLAPS

\* What a job holds where it stands.
JobShape(w) ==
    /\ job[w].pc = "publish" => job[w].build \in Builds
    /\ job[w].pc \in {"backup", "migrate"} => job[w].build \in Builds
    /\ job[w].pc \in {"pull", "backup", "migrate", "previous", "current", "env", "up", "probe"}
           => job[w].target \in Names
    /\ job[w].pc \in {"envBack", "upBack"} => job[w].found.current \in Names

ShapeInv == DeployTypeOK /\ \A w \in Wrappers : JobShape(w)

-----------------------------------------------------------------------------
\* The job of one wrapper changes and the others' do not; the lock follows.
LEMMA JobStep ==
    ASSUME ShapeInv, NEW w \in Wrappers,
           lock = w \/ lock = None,
           NEW j \in [pc : Pcs, build : Builds \union {None},
                      target : Names \union {None}, found : Founds],
           job' = [job EXCEPT ![w] = j],
           (j.pc \in {"idle", "failed"} /\ lock' = None) \/ lock' = w,
           /\ j.pc = "publish" => j.build \in Builds
           /\ j.pc \in {"backup", "migrate"} => j.build \in Builds
           /\ j.pc \in {"pull", "backup", "migrate", "previous", "current", "env", "up", "probe"}
                  => j.target \in Names
           /\ j.pc \in {"envBack", "upBack"} => j.found.current \in Names,
           /\ releases' \in [Names -> Builds \union {None}]
           /\ current' \in Names \union {None} /\ previous' \in Names \union {None}
           /\ composeEnv' \in Builds \union {None} /\ app' \in Builds \union {None}
           /\ schema' \in Nat /\ began' \in Nat /\ dumps' \subseteq Nat
           /\ legacyEnv' \in Builds \union {None}
    PROVE  ShapeInv'
<1> DEFINE Jobs == [pc : Pcs, build : Builds \union {None},
                    target : Names \union {None}, found : Founds]
<1>1. job \in [Wrappers -> Jobs] /\ job' \in [Wrappers -> Jobs]
  BY DEF ShapeInv, DeployTypeOK
<1>2. job'[w] = j /\ \A v \in Wrappers \ {w} : job'[v] = job[v]
  BY <1>1
<1>3. \A v \in Wrappers \ {w} : job[v].pc \in {"idle", "failed"}
  BY DeployConstants DEF ShapeInv, DeployTypeOK
<1>4. \A v \in Wrappers : job'[v].pc \in {"idle", "failed"} \/ lock' = v
  BY <1>2, <1>3
<1>5. lock' \in Wrappers \union {None}
  OBVIOUS
<1>6. DeployTypeOK'
  BY <1>1, <1>4, <1>5 DEF DeployTypeOK
<1>7. \A v \in Wrappers : JobShape(v)'
  BY <1>2, <1>3 DEF JobShape
<1> QED BY <1>6, <1>7 DEF ShapeInv

\* The jobs and the lock stay.
LEMMA JobStays ==
    ASSUME ShapeInv, UNCHANGED <<lock, job>>,
           /\ releases' \in [Names -> Builds \union {None}]
           /\ current' \in Names \union {None} /\ previous' \in Names \union {None}
           /\ composeEnv' \in Builds \union {None} /\ app' \in Builds \union {None}
           /\ schema' \in Nat /\ began' \in Nat /\ dumps' \subseteq Nat
           /\ legacyEnv' \in Builds \union {None}
    PROVE  ShapeInv'
BY DEF ShapeInv, DeployTypeOK, JobShape

LEMMA ShapeInit == Init => ShapeInv
<1> SUFFICES ASSUME Init PROVE ShapeInv
  OBVIOUS
<1>1. PICK b \in Installed :
        LET name == IF b = None THEN None ELSE ShaOf[b] IN
        /\ releases = [n \in Names |-> IF n = name THEN b ELSE None]
        /\ current = name /\ previous = None
        /\ composeEnv = b /\ app = b
        /\ schema = IF b = None THEN 0 ELSE Needs[b]
        /\ began = schema /\ dumps = {} /\ legacyEnv = None
        /\ lock = None
        /\ job = [w \in Wrappers |-> Idle]
  BY DEF Init
<1>2. b \in Builds \union {None} /\ (b # None => ShaOf[b] \in Shas /\ Needs[b] \in Nat)
  BY DeployConstants
<1>3. Idle \in [pc : Pcs, build : Builds \union {None}, target : Names \union {None}, found : Founds]
  BY DEF Idle, Nothing, Founds, Pcs
<1>4. current \in Names \union {None} /\ previous \in Names \union {None}
  BY <1>1, <1>2 DEF Names
<1>5. schema \in Nat /\ releases \in [Names -> Builds \union {None}] /\ legacyEnv \in Builds \union {None}
  BY <1>1, <1>2
<1>6. job \in [Wrappers -> [pc : Pcs, build : Builds \union {None},
                            target : Names \union {None}, found : Founds]]
  BY <1>1, <1>3
<1>7. \A w \in Wrappers : job[w].pc = "idle"
  BY <1>1 DEF Idle
<1>8. DeployTypeOK
  BY <1>1, <1>2, <1>4, <1>5, <1>6, <1>7 DEF DeployTypeOK
<1> QED BY <1>7, <1>8 DEF ShapeInv, JobShape

LEMMA ShapeNext == ShapeInv /\ [Next]_vars => ShapeInv'
<1> SUFFICES ASSUME ShapeInv, [Next]_vars PROVE ShapeInv'
  OBVIOUS
<1> DEFINE Jobs == [pc : Pcs, build : Builds \union {None},
                    target : Names \union {None}, found : Founds]
<1>0. /\ releases \in [Names -> Builds \union {None}]
      /\ current \in Names \union {None} /\ previous \in Names \union {None}
      /\ composeEnv \in Builds \union {None} /\ app \in Builds \union {None}
      /\ schema \in Nat /\ began \in Nat /\ dumps \subseteq Nat
      /\ legacyEnv \in Builds \union {None}
      /\ job \in [Wrappers -> Jobs]
  BY DEF ShapeInv, DeployTypeOK
<1>a. KeptEnv \in Builds \union {None} /\ \A n \in Names : EnvOf(n) \in Builds \union {None}
  BY <1>0 DEF KeptEnv, EnvOf
<1>1. ASSUME NEW w \in Wrappers, NEW b \in Builds, BeginApply(w, b) PROVE ShapeInv'
  <2> DEFINE j == [Idle EXCEPT !.pc = "publish", !.build = b]
  <2>1. j \in Jobs /\ j.pc = "publish" /\ j.build = b
    BY DEF Idle, Nothing, Founds, Pcs
  <2>2. /\ job' = [job EXCEPT ![w] = j] /\ lock' = w /\ lock = None
        /\ began' = schema /\ dumps' = {} /\ UNCHANGED <<selection, releases, legacyEnv, schema>>
    BY <1>1 DEF BeginApply, TakeLock
  <2> QED BY <1>0, <2>1, <2>2, JobStep DEF selection
<1>2. ASSUME NEW w \in Wrappers, NEW n \in Names, BeginRollback(w, n) PROVE ShapeInv'
  <2> DEFINE j == [Idle EXCEPT !.pc = "pull", !.target = n, !.found = Found]
  <2>1. Found \in Founds
    BY <1>0 DEF Found, Founds
  <2>2. j \in Jobs /\ j.pc = "pull" /\ j.target = n
    BY <2>1 DEF Idle, Pcs
  <2>3. job' = [job EXCEPT ![w] = j] /\ lock' = w /\ lock = None /\ UNCHANGED <<selection, host>>
    BY <1>2 DEF BeginRollback, TakeLock
  <2> QED BY <1>0, <2>2, <2>3, JobStep DEF selection, host
<1>3. ASSUME NEW w \in Wrappers, Step(w) PROVE ShapeInv'
  <2>0. job[w] \in Jobs /\ JobShape(w)
    BY <1>0 DEF ShapeInv
  <2>1. job[w].pc \notin {"idle", "failed"}
    BY <1>3 DEF Step, Publish, Pull, Backup, BackupImpossible, Migrate, FailsBefore, LinkPrevious,
                LinkCurrent, SetEnv, FailsLinking, Up, Probe, LinkBack, EnvBack, UpBack, ProbeBack,
                PreviousBack
  <2>2. lock = w
    BY <2>1 DEF ShapeInv, DeployTypeOK
  \* Three ways the job changes.
  <2>3. ASSUME NEW next \in Pcs \ {"publish", "backup", "migrate"}, GoOn(w, next),
               next \in {"pull", "previous", "current", "env", "up", "probe"} => job[w].target \in Names,
               next \in {"envBack", "upBack"} => job[w].found.current \in Names,
               /\ releases' \in [Names -> Builds \union {None}]
               /\ current' \in Names \union {None} /\ previous' \in Names \union {None}
               /\ composeEnv' \in Builds \union {None} /\ app' \in Builds \union {None}
               /\ schema' \in Nat /\ began' \in Nat /\ dumps' \subseteq Nat
               /\ legacyEnv' \in Builds \union {None}
        PROVE  ShapeInv'
    <3> DEFINE j == [job[w] EXCEPT !.pc = next]
    <3>1. j \in Jobs /\ j.pc = next /\ j.target = job[w].target /\ j.found = job[w].found
      BY <2>0, <2>3
    <3>2. job' = [job EXCEPT ![w] = j] /\ lock' = w
      BY <2>2, <2>3 DEF GoOn
    <3> QED BY <2>2, <2>3, <3>1, <3>2, JobStep
  <2>4. ASSUME Exit(w) \/ ExitFailed(w),
               /\ releases' \in [Names -> Builds \union {None}]
               /\ current' \in Names \union {None} /\ previous' \in Names \union {None}
               /\ composeEnv' \in Builds \union {None} /\ app' \in Builds \union {None}
               /\ schema' \in Nat /\ began' \in Nat /\ dumps' \subseteq Nat
               /\ legacyEnv' \in Builds \union {None}
        PROVE  ShapeInv'
    <3>1. CASE Exit(w)
      <4>1. Idle \in Jobs /\ Idle.pc = "idle"
        BY DEF Idle, Nothing, Founds, Pcs
      <4> QED BY <2>2, <2>4, <3>1, <4>1, JobStep DEF Exit
    <3>2. CASE ExitFailed(w)
      <4> DEFINE j == [job[w] EXCEPT !.pc = "failed"]
      <4>1. j \in Jobs /\ j.pc = "failed"
        BY <2>0 DEF Pcs
      <4>2. job' = [job EXCEPT ![w] = j] /\ lock' = None
        BY <3>2 DEF ExitFailed
      <4> QED BY <2>2, <2>4, <4>1, <4>2, JobStep
    <3> QED BY <2>4, <3>1, <3>2
  <2>5. CASE Publish(w)
    <3> DEFINE b == job[w].build
               n == ReleasePath(b)
    <3>1. b \in Builds /\ n \in Names
      BY <2>0, <2>5, DeployConstants DEF Publish, JobShape, ReleasePath, Names
    <3>2. CASE Exit(w) /\ UNCHANGED releases
      BY <1>0, <2>4, <2>5, <3>2 DEF Publish, selection, database
    <3>3. CASE /\ releases' = [releases EXCEPT ![n] = b]
               /\ job' = [job EXCEPT ![w].pc = "pull", ![w].target = n]
               /\ UNCHANGED lock
      <4> DEFINE j == [job[w] EXCEPT !.pc = "pull", !.target = n]
      <4>1. j \in Jobs /\ j.pc = "pull" /\ j.target = n
        BY <2>0, <3>1 DEF Pcs
      <4>2. job' = [job EXCEPT ![w] = j]
        BY <1>0, <3>3
      <4>3. releases' \in [Names -> Builds \union {None}]
        BY <1>0, <3>1, <3>3
      <4>4. UNCHANGED <<current, previous, composeEnv, app, legacyEnv, schema, began, dumps>>
        BY <2>5 DEF Publish, selection, database
      <4>5. lock' = w
        BY <2>2, <3>3
      <4> HIDE DEF j, n, b
      <4> QED BY <1>0, <2>2, <3>1, <4>1, <4>2, <4>3, <4>4, <4>5, JobStep
    <3> QED BY <2>5, <3>2, <3>3 DEF Publish
  <2>6. CASE Pull(w)
    <3> DEFINE next == IF job[w].build = None THEN "previous" ELSE "backup"
               j == [job[w] EXCEPT !.pc = next]
    <3>1. job[w].target \in Names /\ UNCHANGED <<selection, host>>
      BY <2>0, <2>6 DEF Pull, JobShape
    <3>2. j \in Jobs /\ j.pc = next /\ j.build = job[w].build /\ j.target = job[w].target
      BY <2>0 DEF Pcs
    <3>3. job' = [job EXCEPT ![w] = j] /\ lock' = w
      BY <2>2, <2>6 DEF Pull, GoOn
    <3>4. j.pc = "backup" => j.build \in Builds
      BY <2>0, <3>2
    <3> QED BY <1>0, <2>2, <3>1, <3>2, <3>3, <3>4, JobStep DEF selection, host
  <2>7. CASE Backup(w)
    <3> DEFINE j == [job[w] EXCEPT !.pc = "migrate", !.found = Found]
    <3>1. Found \in Founds
      BY <1>0 DEF Found, Founds
    <3>2. j \in Jobs /\ j.pc = "migrate" /\ j.build = job[w].build /\ j.target = job[w].target
      BY <2>0, <3>1 DEF Pcs
    <3>3. job' = [job EXCEPT ![w] = j] /\ lock' = w
      BY <1>0, <2>2, <2>7 DEF Backup
    <3>4. job[w].build \in Builds /\ job[w].target \in Names
      BY <2>0, <2>7 DEF Backup, JobShape
    <3>5. /\ dumps' \subseteq Nat /\ legacyEnv' \in Builds \union {None}
          /\ UNCHANGED <<releases, current, previous, composeEnv, app, schema, began>>
      BY <1>0, <1>a, <2>7 DEF Backup, selection
    <3> QED BY <1>0, <2>2, <3>2, <3>3, <3>4, <3>5, JobStep
  <2>8. CASE BackupImpossible(w)
    BY <1>0, <2>4, <2>8 DEF BackupImpossible, selection, host
  <2>9. CASE Migrate(w)
    <3>1. Needs[job[w].build] \in Nat /\ job[w].target \in Names
      BY <2>0, <2>9, DeployConstants DEF Migrate, JobShape
    <3>2. schema' \in Nat /\ UNCHANGED <<selection, releases, legacyEnv, began, dumps>>
      BY <1>0, <2>9, <3>1 DEF Migrate
    <3>3. GoOn(w, "previous") \/ Exit(w) \/ UNCHANGED <<lock, job>>
      BY <2>9 DEF Migrate
    <3>4. CASE UNCHANGED <<lock, job>>
      BY <1>0, <3>2, <3>4, JobStays DEF selection
    <3> QED BY <1>0, <2>3, <2>4, <3>1, <3>2, <3>3, <3>4 DEF selection, Pcs
  <2>10. CASE FailsBefore(w)
    <3>1. legacyEnv' \in Builds \union {None} /\ UNCHANGED <<selection, releases, database>>
      BY <1>0, <1>a, <2>10 DEF FailsBefore
    <3> QED BY <1>0, <2>4, <2>10, <3>1 DEF FailsBefore, selection, database
  <2>11. CASE LinkPrevious(w)
    <3>1. job[w].target \in Names /\ job[w].found.current \in Names \union {None}
      BY <2>0, <2>11 DEF LinkPrevious, JobShape, Founds
    <3>2. previous' \in Names \union {None}
      BY <1>0, <2>11, <3>1 DEF LinkPrevious
    <3> QED BY <1>0, <2>3, <2>11, <3>1, <3>2 DEF LinkPrevious, host, Pcs
  <2>12. CASE LinkCurrent(w)
    <3>1. job[w].target \in Names
      BY <2>0, <2>12 DEF LinkCurrent, JobShape
    <3> QED BY <1>0, <2>3, <2>12, <3>1 DEF LinkCurrent, host, Pcs
  <2>13. CASE SetEnv(w)
    <3>1. job[w].target \in Names
      BY <2>0, <2>13 DEF SetEnv, JobShape
    <3> QED BY <1>0, <1>a, <2>3, <2>13, <3>1 DEF SetEnv, host, Pcs
  <2>14. CASE FailsLinking(w)
    BY <1>0, <2>4, <2>14 DEF FailsLinking, selection, host
  <2>15. CASE Up(w)
    <3>1. job[w].target \in Names
      BY <2>0, <2>15 DEF Up, JobShape
    <3>2. app' \in Builds \union {None} /\ UNCHANGED <<current, previous, composeEnv, host>>
      BY <1>0, <1>a, <2>15, <3>1 DEF Up
    <3>3. GoOn(w, "probe") \/ ExitFailed(w)
      BY <2>15 DEF Up
    <3> QED BY <1>0, <2>3, <2>4, <3>1, <3>2, <3>3 DEF host, Pcs
  <2>16. CASE Probe(w)
    <3>1. GoOn(w, "linkBack") \/ Exit(w)
      BY <2>16 DEF Probe
    <3> QED BY <1>0, <2>3, <2>4, <2>16, <3>1 DEF Probe, selection, host, Pcs
  <2>17. CASE LinkBack(w)
    <3> DEFINE old == job[w].found.current
    <3>1. old \in Names \union {None}
      BY <2>0 DEF Founds
    <3>2. /\ current' \in Names \union {None} /\ composeEnv' \in Builds \union {None}
          /\ UNCHANGED <<previous, app, host>>
      BY <1>0, <2>17, <3>1 DEF LinkBack
    <3>3. CASE ExitFailed(w)
      BY <1>0, <2>4, <3>2, <3>3 DEF host
    <3>4. CASE GoOn(w, IF old = None THEN "previousBack" ELSE "envBack")
      BY <1>0, <2>3, <3>1, <3>2, <3>4 DEF host, Pcs
    <3> QED BY <2>17, <3>3, <3>4 DEF LinkBack
  <2>18. CASE EnvBack(w)
    <3>1. job[w].found.current \in Names
      BY <2>0, <2>18 DEF EnvBack, JobShape
    <3> QED BY <1>0, <1>a, <2>3, <2>18, <3>1 DEF EnvBack, host, Pcs
  <2>19. CASE UpBack(w)
    <3>1. job[w].found.current \in Names
      BY <2>0, <2>19 DEF UpBack, JobShape
    <3>2. app' \in Builds \union {None}
      BY <1>0, <1>a, <2>19, <3>1 DEF UpBack
    <3> QED BY <1>0, <2>3, <2>19, <3>2 DEF UpBack, host, Pcs
  <2>20. CASE ProbeBack(w)
    <3>1. GoOn(w, "previousBack") \/ ExitFailed(w)
      BY <2>20 DEF ProbeBack
    <3> QED BY <1>0, <2>3, <2>4, <2>20, <3>1 DEF ProbeBack, selection, host, Pcs
  <2>21. CASE PreviousBack(w)
    <3>1. job[w].found.previous \in Names \union {None}
      BY <2>0 DEF Founds
    <3> QED BY <1>0, <2>4, <2>21, <3>1 DEF PreviousBack, host
  <2> QED BY <1>3, <2>5, <2>6, <2>7, <2>8, <2>9, <2>10, <2>11, <2>12, <2>13, <2>14, <2>15, <2>16,
             <2>17, <2>18, <2>19, <2>20, <2>21 DEF Step
<1>4. CASE Dies
  <2>1. app' \in Builds \union {None}
    BY <1>0, <1>4 DEF Dies
  <2>2. Idle \in Jobs /\ Idle.pc = "idle"
    BY DEF Idle, Nothing, Founds, Pcs
  <2>3. job' \in [Wrappers -> Jobs] /\ \A v \in Wrappers : job'[v].pc = "idle"
    BY <1>4, <2>2 DEF Dies
  <2>4. DeployTypeOK'
    BY <1>0, <1>4, <2>1, <2>3 DEF Dies, host, DeployTypeOK
  <2> QED BY <2>3, <2>4 DEF ShapeInv, JobShape
<1>5. CASE Boot
  BY <1>0, <1>5, JobStays DEF Boot, host
<1>6. CASE UNCHANGED vars
  BY <1>0, <1>6, JobStays DEF vars
<1> QED BY <1>1, <1>2, <1>3, <1>4, <1>5, <1>6 DEF Next

\* The types hold, and whoever is at work holds the lock, however many
\* wrappers are started and whatever fails.
THEOREM DeployTypes == Spec => []DeployTypeOK
<1>1. ShapeInv => DeployTypeOK
  BY DEF ShapeInv
<1> QED BY <1>1, ShapeInit, ShapeNext, PTL DEF Spec

-----------------------------------------------------------------------------
\* Until an apply has made its dump the database is as the apply found it; at
\* the migration there is a dump of what it found.
BackedUp(w) ==
    /\ job[w].pc \in {"publish", "backup"} \/ (job[w].pc = "pull" /\ job[w].build # None)
           => schema = began
    /\ job[w].pc = "migrate" => began \in dumps

DumpInv == DumpBeforeMigration /\ \A w \in Wrappers : BackedUp(w)

\* Only the wrapper that holds the lock, or takes it, has to be looked at.
LEMMA BackedStep ==
    ASSUME ShapeInv, NEW w \in Wrappers, lock = w \/ lock = None,
           \A v \in Wrappers \ {w} : job'[v] = job[v],
           BackedUp(w)', DumpBeforeMigration'
    PROVE  DumpInv'
<1>1. ASSUME NEW v \in Wrappers \ {w} PROVE BackedUp(v)'
  <2>1. job'[v] = job[v] /\ job[v].pc \in {"idle", "failed"}
    BY DeployConstants DEF ShapeInv, DeployTypeOK
  <2> QED BY <2>1 DEF BackedUp
<1> QED BY <1>1 DEF DumpInv

LEMMA DumpNext ==
    ASSUME ShapeInv, DumpInv, [Next]_vars
    PROVE  DumpInv'
<1> DEFINE Jobs == [pc : Pcs, build : Builds \union {None},
                    target : Names \union {None}, found : Founds]
<1>0. job \in [Wrappers -> Jobs] /\ DumpBeforeMigration
  BY DEF ShapeInv, DeployTypeOK, DumpInv
<1>a. UNCHANGED database => DumpBeforeMigration'
  BY <1>0 DEF DumpBeforeMigration, database
<1>1. ASSUME NEW w \in Wrappers, NEW b \in Builds, BeginApply(w, b) PROVE DumpInv'
  <2>1. lock = None /\ schema' = began' /\ \A v \in Wrappers \ {w} : job'[v] = job[v]
    BY <1>0, <1>1 DEF BeginApply, TakeLock
  <2>2. job'[w].pc = "publish"
    BY <1>0, <1>1 DEF BeginApply, Idle
  <2> QED BY <2>1, <2>2, BackedStep DEF BackedUp, DumpBeforeMigration
<1>2. ASSUME NEW w \in Wrappers, NEW n \in Names, BeginRollback(w, n) PROVE DumpInv'
  <2>1. lock = None /\ UNCHANGED database /\ \A v \in Wrappers \ {w} : job'[v] = job[v]
    BY <1>0, <1>2 DEF BeginRollback, TakeLock, host, database
  <2>2. job'[w].pc = "pull" /\ job'[w].build = None
    BY <1>0, <1>2 DEF BeginRollback, Idle
  <2> QED BY <1>a, <2>1, <2>2, BackedStep DEF BackedUp
<1>3. ASSUME NEW w \in Wrappers, Step(w) PROVE DumpInv'
  <2>1. job[w].pc \notin {"idle", "failed"}
    BY <1>3 DEF Step, Publish, Pull, Backup, BackupImpossible, Migrate, FailsBefore, LinkPrevious,
                LinkCurrent, SetEnv, FailsLinking, Up, Probe, LinkBack, EnvBack, UpBack, ProbeBack,
                PreviousBack
  <2>2. lock = w /\ BackedUp(w)
    BY <2>1 DEF ShapeInv, DeployTypeOK, DumpInv
  \* After the migration, and when the wrapper ends, nothing is owed.
  <2>3. ASSUME DumpBeforeMigration',
               \/ Exit(w) \/ ExitFailed(w)
               \/ \E next \in Pcs \ {"publish", "pull", "backup", "migrate"} : GoOn(w, next)
        PROVE  DumpInv'
    <3>1. /\ \A v \in Wrappers \ {w} : job'[v] = job[v]
          /\ job'[w].pc \notin {"publish", "pull", "backup", "migrate"}
      BY <1>0, <2>3 DEF Exit, ExitFailed, GoOn, Idle
    <3> QED BY <2>2, <2>3, <3>1, BackedStep DEF BackedUp
  <2>4. CASE Publish(w)
    <3>1. job[w].pc = "publish" /\ UNCHANGED database
      BY <2>4 DEF Publish
    <3>2. CASE Exit(w)
      BY <1>a, <2>3, <3>1, <3>2
    <3>3. CASE job' = [job EXCEPT ![w].pc = "pull", ![w].target = ReleasePath(job[w].build)]
      <4>1. job'[w].pc = "pull" /\ \A v \in Wrappers \ {w} : job'[v] = job[v]
        BY <1>0, <3>3
      <4>2. schema' = began'
        BY <2>2, <3>1 DEF BackedUp, database
      <4> QED BY <1>a, <2>2, <3>1, <4>1, <4>2, BackedStep DEF BackedUp
    <3> QED BY <2>4, <3>2, <3>3 DEF Publish
  <2>5. CASE Pull(w)
    <3>1. job[w].pc = "pull" /\ UNCHANGED database
      BY <2>5 DEF Pull, host, database
    <3>2. CASE GoOn(w, "previous")
      BY <1>a, <2>3, <3>1, <3>2 DEF Pcs
    <3>3. CASE job[w].build # None /\ GoOn(w, "backup")
      <4>1. job'[w].pc = "backup" /\ \A v \in Wrappers \ {w} : job'[v] = job[v]
        BY <1>0, <3>3 DEF GoOn
      <4>2. schema' = began'
        BY <2>2, <3>1, <3>3 DEF BackedUp, database
      <4> QED BY <1>a, <2>2, <3>1, <4>1, <4>2, BackedStep DEF BackedUp
    <3> QED BY <2>5, <3>2, <3>3 DEF Pull
  <2>6. CASE Backup(w)
    <3>1. /\ job[w].pc = "backup" /\ dumps' = dumps \union {schema} /\ UNCHANGED <<schema, began>>
          /\ job' = [job EXCEPT ![w].pc = "migrate", ![w].found = Found]
      BY <2>6 DEF Backup
    <3>2. job'[w].pc = "migrate" /\ \A v \in Wrappers \ {w} : job'[v] = job[v]
      BY <1>0, <3>1
    <3>3. began' \in dumps'
      BY <2>2, <3>1 DEF BackedUp
    <3> QED BY <2>2, <3>2, <3>3, BackedStep DEF BackedUp, DumpBeforeMigration
  <2>7. CASE Migrate(w)
    <3>1. began' \in dumps' /\ job[w].pc = "migrate"
      BY <2>2, <2>7 DEF Migrate, BackedUp
    <3>2. CASE UNCHANGED <<job, lock>>
      BY <2>2, <3>1, <3>2, BackedStep DEF BackedUp, DumpBeforeMigration
    <3>3. CASE Exit(w) \/ GoOn(w, "previous")
      BY <2>3, <3>1, <3>3 DEF DumpBeforeMigration, Pcs
    <3> QED BY <2>7, <3>2, <3>3 DEF Migrate
  <2>8. CASE FailsBefore(w)
    BY <1>a, <2>3, <2>8 DEF FailsBefore
  <2>9. CASE \/ BackupImpossible(w) \/ LinkPrevious(w) \/ LinkCurrent(w) \/ SetEnv(w)
             \/ FailsLinking(w) \/ Up(w) \/ Probe(w)
    <3>1. UNCHANGED database
      BY <2>9 DEF BackupImpossible, LinkPrevious, LinkCurrent, SetEnv, FailsLinking, Up, Probe,
                  host, database
    <3> QED BY <1>a, <2>3, <2>9, <3>1 DEF BackupImpossible, LinkPrevious, LinkCurrent, SetEnv,
                  FailsLinking, Up, Probe, Pcs
  <2>10. CASE LinkBack(w) \/ EnvBack(w) \/ UpBack(w) \/ ProbeBack(w) \/ PreviousBack(w)
    <3>1. UNCHANGED database
      BY <2>10 DEF LinkBack, EnvBack, UpBack, ProbeBack, PreviousBack, host, database
    <3> QED BY <1>a, <2>3, <2>10, <3>1 DEF LinkBack, EnvBack, UpBack, ProbeBack, PreviousBack, Pcs
  <2> QED BY <1>3, <2>4, <2>5, <2>6, <2>7, <2>8, <2>9, <2>10 DEF Step
<1>4. CASE Dies
  <2>1. UNCHANGED database /\ \A w \in Wrappers : job'[w].pc = "idle"
    BY <1>4 DEF Dies, Idle, host, database
  <2> QED BY <1>a, <2>1 DEF DumpInv, BackedUp
<1>5. CASE Boot \/ UNCHANGED vars
  BY <1>5 DEF Boot, vars, host, DumpInv, BackedUp, DumpBeforeMigration
<1> QED BY <1>1, <1>2, <1>3, <1>4, <1>5 DEF Next

\* Whatever fails or dies, however many wrappers are started and however far a
\* migration has come: what the latest deployment found in the database has
\* been dumped before anything of it was changed.
THEOREM DumpsComeFirst == Spec => []DumpBeforeMigration
<1>1. Init => DumpInv
  BY DEF Init, DumpInv, BackedUp, DumpBeforeMigration, Idle
<1>2. ShapeInv /\ DumpInv /\ [Next]_vars => DumpInv'
  BY DumpNext
<1>3. DumpInv => DumpBeforeMigration
  BY DEF DumpInv
<1> QED BY <1>1, <1>2, <1>3, ShapeInit, ShapeNext, PTL DEF Spec

-----------------------------------------------------------------------------
\* A name stands for no release or for one whose migrations the database has.
Migrated(b) == b = None \/ Needs[b] <= schema
Sound(n) == n = None \/ (releases[n] # None /\ Needs[releases[n]] <= schema)

\* A directory with a build's own name holds that build.
OwnDirectory == \A b \in Builds : releases[b] \in {None, b}

\* What a job deploys is published before the database is migrated, and sound
\* from there on; what it found is sound.
JobSound(w) ==
    /\ job[w].pc \in {"pull", "backup", "migrate"} /\ job[w].build # None
           => releases[job[w].target] = job[w].build
    /\ (job[w].pc = "pull" /\ job[w].build = None)
          \/ job[w].pc \in {"previous", "current", "env", "up", "probe"}
           => Sound(job[w].target)
    /\ Sound(job[w].found.current) /\ Sound(job[w].found.previous)

\* What is linked, configured, kept or running has its migrations.
SelectionSound ==
    /\ Sound(current) /\ Sound(previous)
    /\ Migrated(composeEnv) /\ Migrated(app) /\ Migrated(legacyEnv)

SoundInv ==
    /\ OwnDirectory
    /\ SelectionSound
    /\ \A w \in Wrappers : JobSound(w)

\* Releases and migrations are only ever added.
Grows ==
    /\ schema <= schema'
    /\ \A n \in Names : releases[n] # None => releases'[n] = releases[n]

LEMMA SoundStays ==
    ASSUME ShapeInv, Grows, schema' \in Nat
    PROVE  /\ \A n \in Names \union {None} : Sound(n) => Sound(n)'
           /\ \A b \in Builds \union {None} : Migrated(b) => Migrated(b)'
<1>1. /\ releases \in [Names -> Builds \union {None}] /\ schema \in Nat
      /\ Needs \in [Builds -> Nat]
  BY DeployConstants DEF ShapeInv, DeployTypeOK
<1>2. ASSUME NEW n \in Names \union {None}, Sound(n) PROVE Sound(n)'
  <2>1. CASE n = None
    BY <2>1 DEF Sound
  <2>2. CASE n # None
    <3>1. releases'[n] = releases[n] /\ releases[n] \in Builds /\ Needs[releases[n]] <= schema
      BY <1>1, <1>2, <2>2 DEF Sound, Grows
    <3>2. Needs[releases[n]] \in Nat
      BY <1>1, <3>1
    <3>3. Needs[releases[n]] <= schema'
      BY <1>1, <3>1, <3>2 DEF Grows
    <3>4. releases[n] # None
      BY <1>2, <2>2 DEF Sound
    <3> QED BY <3>1, <3>3, <3>4 DEF Sound
  <2> QED BY <2>1, <2>2
<1>3. ASSUME NEW b \in Builds \union {None}, Migrated(b) PROVE Migrated(b)'
  <2>1. CASE b = None
    BY <2>1 DEF Migrated
  <2>2. CASE b # None
    <3>1. Needs[b] \in Nat /\ Needs[b] <= schema
      BY <1>1, <1>3, <2>2 DEF Migrated
    <3> QED BY <1>1, <3>1 DEF Migrated, Grows
  <2> QED BY <2>1, <2>2
<1> QED BY <1>2, <1>3

\* A step of the wrapper w, whose job becomes j.
LEMMA SoundStep ==
    ASSUME ShapeInv, SoundInv, Grows, schema' \in Nat, OwnDirectory',
           NEW w \in Wrappers, lock = w \/ lock = None,
           NEW j \in [pc : Pcs, build : Builds \union {None},
                      target : Names \union {None}, found : Founds],
           job' = [job EXCEPT ![w] = j],
           j.pc \in {"pull", "backup", "migrate"} /\ j.build # None
               => releases'[j.target] = j.build,
           (j.pc = "pull" /\ j.build = None)
               \/ j.pc \in {"previous", "current", "env", "up", "probe"}
               => Sound(j.target)',
           Sound(j.found.current)', Sound(j.found.previous)',
           SelectionSound'
    PROVE  SoundInv'
<1>1. job \in [Wrappers -> [pc : Pcs, build : Builds \union {None},
                            target : Names \union {None}, found : Founds]]
  BY DEF ShapeInv, DeployTypeOK
<1>2. job'[w] = j /\ \A v \in Wrappers \ {w} : job'[v] = job[v]
  BY <1>1
<1>3. JobSound(w)'
  BY <1>2 DEF JobSound
<1>4. ASSUME NEW v \in Wrappers \ {w} PROVE JobSound(v)'
  <2>1. job[v].pc \in {"idle", "failed"} /\ job'[v] = job[v]
    BY <1>2, DeployConstants DEF ShapeInv, DeployTypeOK
  <2>2. /\ job[v].found.current \in Names \union {None}
        /\ job[v].found.previous \in Names \union {None}
    BY <1>1 DEF Founds
  <2>3. Sound(job[v].found.current) /\ Sound(job[v].found.previous)
    BY DEF SoundInv, JobSound
  <2>4. ASSUME NEW n \in Names \union {None}, Sound(n) PROVE Sound(n)'
    BY <2>4, SoundStays
  <2>5. Sound(job[v].found.current)' /\ Sound(job[v].found.previous)'
    <3>1. PICK n \in Names \union {None} : n = job[v].found.current
      BY <2>2
    <3>2. PICK m \in Names \union {None} : m = job[v].found.previous
      BY <2>2
    <3>3. Sound(n)' /\ Sound(m)'
      BY <2>3, <2>4, <3>1, <3>2
    <3>4. n = job'[v].found.current /\ m = job'[v].found.previous
      BY <2>1, <3>1, <3>2
    <3> QED BY <3>3, <3>4
  <2> QED BY <2>1, <2>5 DEF JobSound
<1> QED BY <1>3, <1>4 DEF SoundInv

LEMMA SoundInit == Init => SoundInv
<1> SUFFICES ASSUME Init PROVE SoundInv
  OBVIOUS
<1>1. PICK b \in Installed :
        LET name == IF b = None THEN None ELSE ShaOf[b] IN
        /\ releases = [n \in Names |-> IF n = name THEN b ELSE None]
        /\ current = name /\ previous = None
        /\ composeEnv = b /\ app = b
        /\ schema = IF b = None THEN 0 ELSE Needs[b]
        /\ began = schema /\ dumps = {} /\ legacyEnv = None
        /\ lock = None
        /\ job = [w \in Wrappers |-> Idle]
  BY DEF Init
<1>2. b \in Builds \union {None} /\ (b # None => ShaOf[b] \in Shas /\ Needs[b] \in Nat)
  BY DeployConstants
<1>3. \A w \in Wrappers : JobSound(w)
  BY <1>1 DEF JobSound, Idle, Nothing, Sound
<1>4. Migrated(b)
  BY <1>1, <1>2 DEF Migrated
<1>5. CASE b = None
  <2>1. current = None /\ previous = None /\ releases = [n \in Names |-> None]
    BY <1>1, <1>5, <1>2, DeployConstants DEF Names
  <2>2. OwnDirectory
    BY <2>1 DEF OwnDirectory, Names
  <2> QED BY <1>1, <1>3, <1>4, <2>1, <2>2 DEF SoundInv, SelectionSound, Sound, Migrated
<1>6. CASE b # None
  <2>1. current = ShaOf[b] /\ current \in Names /\ current \notin Builds /\ previous = None
    BY <1>1, <1>2, <1>6, DeployConstants DEF Names
  <2>2. releases = [n \in Names |-> IF n = current THEN b ELSE None]
    BY <1>1, <1>6
  <2>3. OwnDirectory
    BY <2>1, <2>2 DEF OwnDirectory, Names
  <2>4. releases[current] = b /\ Needs[b] = schema /\ schema \in Nat
    BY <1>1, <1>2, <1>6, <2>1, <2>2
  <2>5. Sound(current) /\ Sound(previous)
    BY <1>6, <2>1, <2>4 DEF Sound
  <2> QED BY <1>1, <1>3, <1>4, <2>3, <2>5 DEF SoundInv, SelectionSound, Migrated
<1> QED BY <1>5, <1>6

\* A step that publishes nothing and migrates nothing.
LEMMA SameHost ==
    ASSUME ShapeInv, SoundInv, UNCHANGED <<releases, schema>>
    PROVE  Grows /\ OwnDirectory' /\ schema' \in Nat
BY DEF ShapeInv, DeployTypeOK, SoundInv, Grows, OwnDirectory

\* Going on, from a state in which what the next command relies on is sound.
LEMMA SoundGoOn ==
    ASSUME ShapeInv, SoundInv, Grows, schema' \in Nat, OwnDirectory',
           NEW w \in Wrappers, lock = w,
           NEW next \in Pcs \ {"pull"}, GoOn(w, next),
           next \in {"backup", "migrate"} /\ job[w].build # None
               => releases'[job[w].target] = job[w].build,
           next \in {"previous", "current", "env", "up", "probe"} => Sound(job[w].target),
           SelectionSound'
    PROVE  SoundInv'
<1> DEFINE j == [job[w] EXCEPT !.pc = next]
<1>1. job[w] \in [pc : Pcs, build : Builds \union {None},
                  target : Names \union {None}, found : Founds]
  BY DEF ShapeInv, DeployTypeOK
<1>2. /\ j \in [pc : Pcs, build : Builds \union {None},
                target : Names \union {None}, found : Founds]
      /\ j.pc = next /\ j.build = job[w].build /\ j.target = job[w].target
      /\ j.found = job[w].found
  BY <1>1
<1>3. job' = [job EXCEPT ![w] = j]
  BY DEF GoOn
<1>4. j.found.current \in Names \union {None} /\ j.found.previous \in Names \union {None}
  BY <1>2 DEF Founds
<1>5. Sound(j.found.current) /\ Sound(j.found.previous)
  BY <1>2 DEF SoundInv, JobSound
<1>6. j.target \in Names \union {None}
  BY <1>2
<1> HIDE DEF j
<1>7. PICK k \in [pc : Pcs, build : Builds \union {None},
                  target : Names \union {None}, found : Founds] : k = j
  BY <1>2
<1>8. PICK c \in Names \union {None}, p \in Names \union {None}, t \in Names \union {None} :
         c = j.found.current /\ p = j.found.previous /\ t = j.target
  BY <1>4, <1>6
<1>9. Sound(c)' /\ Sound(p)' /\ (Sound(t) => Sound(t)')
  BY <1>5, <1>8, SoundStays
<1>10. Sound(k.found.current)' /\ Sound(k.found.previous)'
  BY <1>7, <1>8, <1>9
<1>11. (k.pc = "pull" /\ k.build = None)
           \/ k.pc \in {"previous", "current", "env", "up", "probe"} => Sound(k.target)'
  BY <1>2, <1>7, <1>8, <1>9
<1>12. k.pc \in {"pull", "backup", "migrate"} /\ k.build # None => releases'[k.target] = k.build
  BY <1>2, <1>7
<1> QED BY <1>3, <1>7, <1>10, <1>11, <1>12, SoundStep

\* The wrapper ends.
LEMMA SoundExit ==
    ASSUME ShapeInv, SoundInv, Grows, schema' \in Nat, OwnDirectory',
           NEW w \in Wrappers, lock = w, Exit(w) \/ ExitFailed(w),
           SelectionSound'
    PROVE  SoundInv'
<1>1. CASE Exit(w)
  <2>1. /\ Idle \in [pc : Pcs, build : Builds \union {None},
                     target : Names \union {None}, found : Founds]
        /\ Idle.pc = "idle" /\ Idle.found.current = None /\ Idle.found.previous = None
    BY DEF Idle, Nothing, Founds, Pcs
  <2>2. job' = [job EXCEPT ![w] = Idle]
    BY <1>1 DEF Exit
  <2>3. PICK k \in [pc : Pcs, build : Builds \union {None},
                    target : Names \union {None}, found : Founds] : k = Idle
    BY <2>1
  <2>4. Sound(k.found.current)' /\ Sound(k.found.previous)'
    BY <2>1, <2>3 DEF Sound
  <2> QED BY <2>1, <2>2, <2>3, <2>4, SoundStep
<1>2. CASE ExitFailed(w)
  <2> DEFINE j == [job[w] EXCEPT !.pc = "failed"]
  <2>2. job[w] \in [pc : Pcs, build : Builds \union {None},
                    target : Names \union {None}, found : Founds]
    BY DEF ShapeInv, DeployTypeOK
  <2>3. /\ j \in [pc : Pcs, build : Builds \union {None},
                  target : Names \union {None}, found : Founds]
        /\ j.pc = "failed" /\ j.found = job[w].found
    BY <2>2 DEF Pcs
  <2>4. job' = [job EXCEPT ![w] = j]
    BY <1>2 DEF ExitFailed
  <2>5. j.found.current \in Names \union {None} /\ j.found.previous \in Names \union {None}
    BY <2>3 DEF Founds
  <2>6. Sound(j.found.current) /\ Sound(j.found.previous)
    BY <2>3 DEF SoundInv, JobSound
  <2> HIDE DEF j
  <2>7. PICK k \in [pc : Pcs, build : Builds \union {None},
                    target : Names \union {None}, found : Founds] : k = j
    BY <2>3
  <2>8. PICK c \in Names \union {None}, p \in Names \union {None} :
           c = j.found.current /\ p = j.found.previous
    BY <2>5
  <2>9. Sound(c)' /\ Sound(p)'
    BY <2>6, <2>8, SoundStays
  <2>10. Sound(k.found.current)' /\ Sound(k.found.previous)'
    BY <2>7, <2>8, <2>9
  <2> QED BY <2>3, <2>4, <2>7, <2>10, SoundStep
<1> QED BY <1>1, <1>2

LEMMA SoundNext ==
    ASSUME "select" \notin Commands, ShapeInv, SoundInv, [Next]_vars
    PROVE  SoundInv'
<1>0. /\ releases \in [Names -> Builds \union {None}]
      /\ current \in Names \union {None} /\ previous \in Names \union {None}
      /\ composeEnv \in Builds \union {None} /\ app \in Builds \union {None}
      /\ legacyEnv \in Builds \union {None}
      /\ schema \in Nat /\ Needs \in [Builds -> Nat]
      /\ job \in [Wrappers -> [pc : Pcs, build : Builds \union {None},
                               target : Names \union {None}, found : Founds]]
  BY DeployConstants DEF ShapeInv, DeployTypeOK
<1>a. /\ Sound(current) /\ Sound(previous)
      /\ Migrated(composeEnv) /\ Migrated(app) /\ Migrated(legacyEnv)
      /\ Sound(None) /\ Migrated(None)
  BY DEF SoundInv, SelectionSound, Sound, Migrated
\* A sound release names a migrated build.
<1>b. ASSUME NEW n \in Names, Sound(n) PROVE Migrated(releases[n])
  BY <1>b, DeployConstants DEF Sound, Migrated, Names
\* Steps that leave the releases and the schema alone.
<1>c. ASSUME UNCHANGED <<releases, schema>>
      PROVE  /\ Grows /\ OwnDirectory' /\ schema' \in Nat
             /\ \A n \in Names \union {None} : Sound(n)' <=> Sound(n)
             /\ \A b \in Builds \union {None} : Migrated(b)' <=> Migrated(b)
  BY <1>c, SameHost DEF SelectionSound, Sound, Migrated
<1>1. ASSUME NEW w \in Wrappers, NEW b \in Builds, BeginApply(w, b) PROVE SoundInv'
  <2> DEFINE j == [Idle EXCEPT !.pc = "publish", !.build = b]
  <2>1. /\ j \in [pc : Pcs, build : Builds \union {None},
                  target : Names \union {None}, found : Founds]
        /\ j.pc = "publish" /\ j.found.current = None /\ j.found.previous = None
    BY DEF Idle, Nothing, Founds, Pcs
  <2>2. /\ job' = [job EXCEPT ![w] = j] /\ lock = None
        /\ UNCHANGED <<selection, releases, legacyEnv, schema>>
    BY <1>1 DEF BeginApply, TakeLock
  <2>3. PICK k \in [pc : Pcs, build : Builds \union {None},
                    target : Names \union {None}, found : Founds] : k = j
    BY <2>1
  <2> HIDE DEF j
  <2>4. Sound(k.found.current)' /\ Sound(k.found.previous)'
    BY <2>1, <2>3 DEF Sound
  <2>5. SelectionSound'
    BY <1>a, <2>2 DEF selection, SelectionSound, Sound, Migrated
  <2>6. Grows /\ OwnDirectory' /\ schema' \in Nat
    BY <1>c, <2>2
  <2> QED BY <2>1, <2>2, <2>3, <2>4, <2>5, <2>6, SoundStep
<1>2. ASSUME NEW w \in Wrappers, NEW n \in Names, BeginRollback(w, n) PROVE SoundInv'
  <2> DEFINE j == [Idle EXCEPT !.pc = "pull", !.target = n, !.found = Found]
  <2>1. Found \in Founds /\ Found.current = current /\ Found.previous = previous
    BY DEF ShapeInv, DeployTypeOK, Found, Founds
  <2>2. /\ j \in [pc : Pcs, build : Builds \union {None},
                  target : Names \union {None}, found : Founds]
        /\ j.pc = "pull" /\ j.build = None /\ j.target = n
        /\ j.found.current = current /\ j.found.previous = previous
    BY <2>1 DEF Idle, Pcs
  <2>3. /\ job' = [job EXCEPT ![w] = j] /\ lock = None /\ UNCHANGED <<selection, host>>
        /\ n = previous
    BY <1>2 DEF BeginRollback, TakeLock
  <2>4. PICK k \in [pc : Pcs, build : Builds \union {None},
                    target : Names \union {None}, found : Founds] : k = j
    BY <2>2
  <2> HIDE DEF j
  <2>5. UNCHANGED <<releases, schema, current, previous, composeEnv, app, legacyEnv>>
    BY <2>3 DEF selection, host
  <2>6. SelectionSound'
    BY <1>a, <2>5 DEF SelectionSound, Sound, Migrated
  <2>7. Sound(k.found.current)' /\ Sound(k.found.previous)' /\ Sound(k.target)'
    BY <1>a, <2>2, <2>3, <2>4, <2>5 DEF Sound
  <2>8. Grows /\ OwnDirectory' /\ schema' \in Nat
    BY <1>c, <2>5
  <2> QED BY <2>2, <2>3, <2>4, <2>6, <2>7, <2>8, SoundStep
<1>3. ASSUME NEW w \in Wrappers, Step(w) PROVE SoundInv'
  <2>0. /\ job[w].build \in Builds \union {None} /\ job[w].target \in Names \union {None}
        /\ job[w].found.current \in Names \union {None}
        /\ job[w].found.previous \in Names \union {None}
        /\ JobSound(w) /\ JobShape(w)
    BY <1>0 DEF Founds, SoundInv, ShapeInv
  <2>1. job[w].pc \notin {"idle", "failed"}
    BY <1>3 DEF Step, Publish, Pull, Backup, BackupImpossible, Migrate, FailsBefore, LinkPrevious,
                LinkCurrent, SetEnv, FailsLinking, Up, Probe, LinkBack, EnvBack, UpBack, ProbeBack,
                PreviousBack
  <2>2. lock = w
    BY <2>1 DEF ShapeInv, DeployTypeOK
  <2>3. CASE Publish(w)
    <3> DEFINE b == job[w].build
               n == ReleasePath(b)
    <3>1. b \in Builds /\ ShaOf[b] \in Shas /\ ShaOf[b] \in Names /\ b \in Names
      BY <2>0, <2>3, DeployConstants DEF Publish, JobShape, Names
    <3>2. UNCHANGED <<current, previous, composeEnv, app, legacyEnv, schema>>
      BY <2>3 DEF Publish, selection, database
    <3>3. CASE Exit(w) /\ UNCHANGED releases
      <4>1. SelectionSound'
        BY <1>a, <3>2, <3>3 DEF SelectionSound, Sound, Migrated
      <4> QED BY <1>c, <2>2, <3>2, <3>3, <4>1, SoundExit
    <3>4. CASE /\ releases' = [releases EXCEPT ![n] = b]
               /\ job' = [job EXCEPT ![w].pc = "pull", ![w].target = n]
      <4>1. n \in Names /\ releases[n] \in {None, b} /\ (n \in Builds => n = b)
        BY <1>0, <3>1, DeployConstants DEF ReleasePath, SoundInv, OwnDirectory
      <4>2. Grows /\ schema' \in Nat
        BY <1>0, <3>2, <3>4, <4>1 DEF Grows
      <4>3. OwnDirectory'
        BY <1>0, <3>1, <3>4, <4>1 DEF SoundInv, OwnDirectory, Names
      <4>4. SelectionSound'
        <5>1. ASSUME NEW m \in Names \union {None}, Sound(m) PROVE Sound(m)'
          BY <4>2, <5>1, SoundStays
        <5>2. PICK c \in Names \union {None}, p \in Names \union {None} :
                 c = current /\ p = previous
          BY <1>0
        <5>3. Sound(c)' /\ Sound(p)'
          BY <1>a, <5>1, <5>2
        <5> QED BY <1>a, <3>2, <5>2, <5>3 DEF SelectionSound, Sound, Migrated
      <4> DEFINE j == [job[w] EXCEPT !.pc = "pull", !.target = n]
      <4>5. /\ j \in [pc : Pcs, build : Builds \union {None},
                      target : Names \union {None}, found : Founds]
            /\ j.pc = "pull" /\ j.build = b /\ j.target = n /\ j.found = job[w].found
        BY <1>0, <4>1 DEF Pcs
      <4>6. job' = [job EXCEPT ![w] = j]
        BY <1>0, <3>4
      <4>7. b # None /\ releases'[n] = b
        BY <1>0, <3>1, <3>4, <4>1, DeployConstants
      <4> HIDE DEF j, n, b
      <4>8. PICK k \in [pc : Pcs, build : Builds \union {None},
                        target : Names \union {None}, found : Founds] : k = j
        BY <4>5
      <4>9. PICK c \in Names \union {None}, p \in Names \union {None} :
               c = job[w].found.current /\ p = job[w].found.previous
        BY <2>0
      <4>10. Sound(c)' /\ Sound(p)'
        BY <2>0, <4>2, <4>9, SoundStays DEF JobSound
      <4>11. Sound(k.found.current)' /\ Sound(k.found.previous)'
        BY <4>5, <4>8, <4>9, <4>10
      <4> QED BY <2>2, <4>2, <4>3, <4>4, <4>5, <4>6, <4>7, <4>8, <4>11, SoundStep
    <3> QED BY <2>3, <3>3, <3>4 DEF Publish
  <2>4. CASE Migrate(w)
    <3> DEFINE b == job[w].build
    <3>1. b \in Builds /\ b # None /\ Needs[b] \in Nat
      BY <1>0, <2>0, <2>4, DeployConstants DEF Migrate, JobShape
    <3>2. UNCHANGED <<releases, current, previous, composeEnv, app, legacyEnv>>
      BY <2>4 DEF Migrate, selection
    <3>3. schema' \in Nat /\ schema <= schema'
      BY <1>0, <2>4, <3>1 DEF Migrate
    <3>4. Grows /\ OwnDirectory'
      BY <3>2, <3>3 DEF Grows, SoundInv, OwnDirectory
    <3>5. SelectionSound'
      <4>1. PICK c \in Names \union {None}, p \in Names \union {None},
                 e \in Builds \union {None}, a \in Builds \union {None},
                 l \in Builds \union {None} :
               c = current /\ p = previous /\ e = composeEnv /\ a = app /\ l = legacyEnv
        BY <1>0
      <4>2. Sound(c)' /\ Sound(p)' /\ Migrated(e)' /\ Migrated(a)' /\ Migrated(l)'
        BY <1>a, <3>3, <3>4, <4>1, SoundStays
      <4> QED BY <3>2, <4>1, <4>2 DEF SelectionSound
    <3>6. CASE Exit(w)
      BY <2>2, <3>3, <3>4, <3>5, <3>6, SoundExit
    <3>7. CASE UNCHANGED <<job, lock>>
      <4>1. PICK k \in [pc : Pcs, build : Builds \union {None},
                        target : Names \union {None}, found : Founds] : k = job[w]
        BY <1>0
      <4>2. job' = [job EXCEPT ![w] = k] /\ k.pc = "migrate"
        BY <1>0, <2>4, <3>7, <4>1 DEF Migrate
      <4>3. PICK c \in Names \union {None}, p \in Names \union {None} :
               c = job[w].found.current /\ p = job[w].found.previous
        BY <2>0
      <4>4. Sound(c)' /\ Sound(p)'
        BY <2>0, <3>3, <3>4, <4>3, SoundStays DEF JobSound
      <4>5. Sound(k.found.current)' /\ Sound(k.found.previous)'
        BY <4>1, <4>3, <4>4
      <4>6. k.build # None => releases'[k.target] = k.build
        BY <2>0, <3>2, <4>1, <4>2 DEF JobSound
      <4> QED BY <2>2, <3>3, <3>4, <3>5, <4>2, <4>5, <4>6, SoundStep
    <3>8. CASE schema = Needs[b] /\ UNCHANGED schema /\ GoOn(w, "previous")
      <4>1. job[w].target \in Names /\ releases[job[w].target] = b
        BY <2>0, <2>4, <3>1 DEF Migrate, JobShape, JobSound
      <4> DEFINE j == [job[w] EXCEPT !.pc = "previous"]
      <4>2. /\ j \in [pc : Pcs, build : Builds \union {None},
                      target : Names \union {None}, found : Founds]
            /\ j.pc = "previous" /\ j.target = job[w].target /\ j.found = job[w].found
        BY <1>0 DEF Pcs
      <4>3. job' = [job EXCEPT ![w] = j]
        BY <3>8 DEF GoOn
      <4> HIDE DEF j
      <4>4. PICK k \in [pc : Pcs, build : Builds \union {None},
                        target : Names \union {None}, found : Founds] : k = j
        BY <4>2
      <4>5. PICK c \in Names \union {None}, p \in Names \union {None} :
               c = job[w].found.current /\ p = job[w].found.previous
        BY <2>0
      <4>6. Sound(c)' /\ Sound(p)'
        BY <2>0, <3>3, <3>4, <4>5, SoundStays DEF JobSound
      <4>7. Sound(k.found.current)' /\ Sound(k.found.previous)'
        BY <4>2, <4>4, <4>5, <4>6
      <4>8. Sound(k.target)'
        <5>1. releases'[k.target] = b /\ Needs[b] <= schema'
          BY <3>1, <3>2, <3>8, <4>1, <4>2, <4>4
        <5> QED BY <3>1, <5>1 DEF Sound
      <4> QED BY <2>2, <3>3, <3>4, <3>5, <4>2, <4>3, <4>4, <4>7, <4>8, SoundStep
    <3> QED BY <2>4, <3>6, <3>7, <3>8 DEF Migrate
  \* The other commands publish and migrate nothing.
  <2>5. ASSUME UNCHANGED <<releases, schema>>,
               NEW next \in Pcs \ {"pull", "backup", "migrate"}, GoOn(w, next),
               next \in {"previous", "current", "env", "up", "probe"} => Sound(job[w].target),
               SelectionSound'
        PROVE  SoundInv'
    BY <1>c, <2>2, <2>5, SoundGoOn
  <2>6. ASSUME UNCHANGED <<releases, schema>>, Exit(w) \/ ExitFailed(w),
               SelectionSound'
        PROVE  SoundInv'
    BY <1>c, <2>2, <2>6, SoundExit
  <2>7. ASSUME UNCHANGED <<releases, schema, current, previous, composeEnv, app>>,
               legacyEnv' \in {legacyEnv, composeEnv}
        PROVE  SelectionSound'
    BY <1>a, <2>7 DEF SelectionSound, Sound, Migrated
  <2>8. CASE Pull(w)
    <3>1. /\ UNCHANGED <<releases, schema, current, previous, composeEnv, app, legacyEnv>>
          /\ job[w].pc = "pull"
      BY <2>8 DEF Pull, selection, host
    <3>2. CASE job[w].build = None
      <4>1. GoOn(w, "previous") /\ Sound(job[w].target)
        BY <2>0, <2>8, <3>1, <3>2 DEF Pull, JobSound
      <4> QED BY <2>5, <2>7, <3>1, <4>1 DEF Pcs
    <3>3. CASE job[w].build # None
      <4>1. GoOn(w, "backup") /\ releases'[job[w].target] = job[w].build
        BY <2>0, <2>8, <3>1, <3>3 DEF Pull, JobSound
      <4> QED BY <1>c, <2>2, <2>7, <3>1, <4>1, SoundGoOn DEF Pcs
    <3> QED BY <3>2, <3>3
  <2>9. CASE Backup(w)
    <3> DEFINE j == [job[w] EXCEPT !.pc = "migrate", !.found = Found]
    <3>1. Found \in Founds /\ Found.current = current /\ Found.previous = previous
      BY DEF ShapeInv, DeployTypeOK, Found, Founds
    <3>2. /\ j \in [pc : Pcs, build : Builds \union {None},
                    target : Names \union {None}, found : Founds]
          /\ j.pc = "migrate" /\ j.build = job[w].build /\ j.target = job[w].target
          /\ j.found.current = current /\ j.found.previous = previous
      BY <1>0, <3>1 DEF Pcs
    <3>3. /\ job' = [job EXCEPT ![w] = j] /\ job[w].pc = "backup"
          /\ UNCHANGED <<releases, schema, current, previous, composeEnv, app>>
          /\ legacyEnv' \in {legacyEnv, composeEnv}
      BY <1>0, <2>9 DEF Backup, KeptEnv, selection
    <3>4. PICK k \in [pc : Pcs, build : Builds \union {None},
                      target : Names \union {None}, found : Founds] : k = j
      BY <3>2
    <3> HIDE DEF j
    <3>5. Sound(k.found.current)' /\ Sound(k.found.previous)'
      BY <1>a, <3>2, <3>3, <3>4 DEF Sound
    <3>6. k.build # None => releases'[k.target] = k.build
      BY <2>0, <3>2, <3>3, <3>4 DEF JobSound
    <3> QED BY <1>c, <2>2, <2>7, <3>2, <3>3, <3>4, <3>5, <3>6, SoundStep
  <2>10. CASE BackupImpossible(w) \/ FailsBefore(w) \/ FailsLinking(w)
    <3>1. /\ UNCHANGED <<releases, schema, current, previous, composeEnv, app>>
          /\ legacyEnv' \in {legacyEnv, composeEnv}
          /\ Exit(w) \/ ExitFailed(w)
      BY <2>10 DEF BackupImpossible, FailsBefore, FailsLinking, KeptEnv, selection, host, database
    <3> QED BY <2>6, <2>7, <3>1
  <2>11. CASE Probe(w) \/ ProbeBack(w)
    <3>1. /\ UNCHANGED <<releases, schema, current, previous, composeEnv, app, legacyEnv>>
          /\ Exit(w) \/ ExitFailed(w) \/ GoOn(w, "linkBack") \/ GoOn(w, "previousBack")
      BY <2>11 DEF Probe, ProbeBack, selection, host
    <3> QED BY <2>5, <2>6, <2>7, <3>1 DEF Pcs
  <2>12. CASE LinkPrevious(w)
    <3>1. /\ UNCHANGED <<releases, schema, current, composeEnv, app, legacyEnv>>
          /\ GoOn(w, "current") /\ Sound(job[w].target)
          /\ previous' \in {previous, job[w].found.current}
      BY <2>0, <2>12 DEF LinkPrevious, host, JobSound
    <3>2. SelectionSound'
      BY <1>a, <2>0, <3>1 DEF SelectionSound, Sound, Migrated, JobSound
    <3> QED BY <2>5, <3>1, <3>2 DEF Pcs
  <2>13. CASE LinkCurrent(w)
    <3>1. /\ UNCHANGED <<releases, schema, previous, composeEnv, app, legacyEnv>>
          /\ GoOn(w, "env") /\ Sound(job[w].target) /\ current' = job[w].target
      BY <2>0, <2>13 DEF LinkCurrent, host, JobSound
    <3>2. SelectionSound'
      BY <1>a, <3>1 DEF SelectionSound, Sound, Migrated
    <3> QED BY <2>5, <3>1, <3>2 DEF Pcs
  <2>14. CASE SetEnv(w)
    <3>1. /\ UNCHANGED <<releases, schema, current, previous, app, legacyEnv>>
          /\ GoOn(w, "up") /\ Sound(job[w].target) /\ job[w].target \in Names
          /\ composeEnv' \in {releases[job[w].target], legacyEnv}
      BY <2>0, <2>14 DEF SetEnv, EnvOf, host, JobSound, JobShape
    <3>2. SelectionSound'
      BY <1>a, <1>b, <3>1 DEF SelectionSound, Sound, Migrated
    <3> QED BY <2>5, <3>1, <3>2 DEF Pcs
  <2>15. CASE Up(w)
    <3>1. /\ UNCHANGED <<releases, schema, current, previous, composeEnv, legacyEnv>>
          /\ GoOn(w, "probe") \/ ExitFailed(w)
          /\ Sound(job[w].target) /\ job[w].target \in Names
          /\ app' \in {releases[job[w].target], legacyEnv, app, None}
      BY <2>0, <2>15 DEF Up, EnvOf, host, JobSound, JobShape
    <3>2. SelectionSound'
      BY <1>a, <1>b, <3>1 DEF SelectionSound, Sound, Migrated
    <3> QED BY <2>5, <2>6, <3>1, <3>2 DEF Pcs
  <2>16. CASE LinkBack(w)
    <3>1. /\ UNCHANGED <<releases, schema, previous, app, legacyEnv>>
          /\ GoOn(w, "previousBack") \/ GoOn(w, "envBack") \/ ExitFailed(w)
          /\ current' \in {job[w].found.current, current} /\ composeEnv' \in {None, composeEnv}
      BY <2>16 DEF LinkBack, host
    <3>2. SelectionSound'
      BY <1>a, <2>0, <3>1 DEF SelectionSound, Sound, Migrated, JobSound
    <3> QED BY <2>5, <2>6, <3>1, <3>2 DEF Pcs
  <2>17. CASE EnvBack(w)
    <3>1. /\ UNCHANGED <<releases, schema, current, previous, app, legacyEnv>>
          /\ GoOn(w, "upBack") /\ Sound(job[w].found.current) /\ job[w].found.current \in Names
          /\ composeEnv' \in {releases[job[w].found.current], legacyEnv}
      BY <2>0, <2>17 DEF EnvBack, EnvOf, host, JobSound, JobShape
    <3>2. SelectionSound'
      BY <1>a, <1>b, <3>1 DEF SelectionSound, Sound, Migrated
    <3> QED BY <2>5, <3>1, <3>2 DEF Pcs
  <2>18. CASE UpBack(w)
    <3>1. /\ UNCHANGED <<releases, schema, current, previous, composeEnv, legacyEnv>>
          /\ GoOn(w, "probeBack")
          /\ Sound(job[w].found.current) /\ job[w].found.current \in Names
          /\ app' \in {releases[job[w].found.current], legacyEnv, app, None}
      BY <2>0, <2>18 DEF UpBack, EnvOf, host, JobSound, JobShape
    <3>2. SelectionSound'
      BY <1>a, <1>b, <3>1 DEF SelectionSound, Sound, Migrated
    <3> QED BY <2>5, <3>1, <3>2 DEF Pcs
  <2>19. CASE PreviousBack(w)
    <3>1. /\ UNCHANGED <<releases, schema, current, composeEnv, app, legacyEnv>>
          /\ ExitFailed(w) /\ previous' = job[w].found.previous
      BY <2>19 DEF PreviousBack, host
    <3>2. SelectionSound'
      BY <1>a, <2>0, <3>1 DEF SelectionSound, Sound, Migrated, JobSound
    <3> QED BY <2>6, <3>1, <3>2
  <2> QED BY <1>3, <2>3, <2>4, <2>8, <2>9, <2>10, <2>11, <2>12, <2>13, <2>14, <2>15, <2>16, <2>17,
             <2>18, <2>19 DEF Step
<1>4. CASE Dies
  <2>1. /\ UNCHANGED <<releases, schema, current, previous, composeEnv, legacyEnv>>
        /\ app' \in {app, None}
        /\ \A w \in Wrappers : job'[w] = Idle
    BY <1>4 DEF Dies, host
  <2>2. \A w \in Wrappers : JobSound(w)'
    BY <2>1 DEF JobSound, Idle, Nothing, Sound
  <2>3. SelectionSound'
    BY <1>a, <2>1 DEF SelectionSound, Sound, Migrated
  <2> QED BY <1>c, <2>1, <2>2, <2>3 DEF SoundInv
<1>5. CASE Boot
  <2>1. /\ UNCHANGED <<releases, schema, current, previous, composeEnv, legacyEnv, job>>
        /\ app' = composeEnv
    BY <1>5 DEF Boot, host
  <2> QED BY <2>1 DEF SoundInv, SelectionSound, OwnDirectory, Sound, Migrated, JobSound
<1>6. CASE UNCHANGED vars
  BY <1>6 DEF vars, SoundInv, SelectionSound, OwnDirectory, Sound, Migrated, JobSound
<1> QED BY <1>1, <1>2, <1>3, <1>4, <1>5, <1>6 DEF Next

\* Under any mixture of failing commands, failed restores, killed wrappers
\* and boots, no release that is selected, kept to go back to, configured or
\* running lacks a migration, as long as releases are not picked by name.
THEOREM SelectedIsAlwaysMigrated ==
    ASSUME "select" \notin Commands
    PROVE  Spec => []SelectedIsMigrated
<1>1. ShapeInv /\ SoundInv => SelectedIsMigrated
  <2> SUFFICES ASSUME ShapeInv, SoundInv PROVE SelectedIsMigrated
    OBVIOUS
  <2>1. ASSUME NEW n \in {current, previous}, Holds(n) # None PROVE Needs[Holds(n)] <= schema
    BY <2>1 DEF SoundInv, SelectionSound, Sound, Holds
  <2>2. ASSUME NEW b \in {composeEnv, app, legacyEnv}, b # None PROVE Needs[b] <= schema
    BY <2>2 DEF SoundInv, SelectionSound, Migrated
  <2> QED BY <2>1, <2>2 DEF SelectedIsMigrated
<1>2. ShapeInv /\ SoundInv /\ [Next]_vars => SoundInv'
  BY SoundNext
<1> QED BY <1>1, <1>2, ShapeInit, ShapeNext, SoundInit, PTL DEF Spec

-----------------------------------------------------------------------------
\* A selection that is of one piece: a published release, configured and running.
Whole(f) ==
    /\ f.current # None /\ releases[f.current] # None
    /\ f.composeEnv = releases[f.current] /\ f.app = releases[f.current]

\* The release to go back to after the switch of a job.
NewPrevious(j) ==
    IF j.found.current # None /\ j.found.current # j.target THEN j.found.current ELSE j.found.previous

SwitchPcs == {"current", "env", "up", "probe", "linkBack", "envBack", "upBack", "probeBack",
              "previousBack"}

\* A compose.env kept in a legacy release names that release's image.
Kept(n) == releases[n] = LegacyBuild => legacyEnv = LegacyBuild

\* How far the switch of a job j has come, command by command.
Phase(j) ==
    /\ j.pc = "publish" => j.build # LegacyBuild
    /\ j.pc \in {"pull", "backup", "migrate", "previous", "current", "env", "up", "probe", "linkBack"}
           => j.target \in Names /\ releases[j.target] # None /\ Kept(j.target)
    /\ (j.pc = "pull" /\ j.build = None) \/ j.pc \in {"migrate", "previous"}
           => /\ j.found.current = current /\ j.found.previous = previous
              /\ j.found.composeEnv = composeEnv /\ j.found.app = app
    /\ j.pc \in SwitchPcs => Whole(j.found)
    /\ j.pc \in {"current", "env", "up", "probe", "linkBack"} => previous = NewPrevious(j)
    /\ j.pc = "current" => current = j.found.current
    /\ j.pc \in {"env", "up", "probe", "linkBack"} => current = j.target
    /\ j.pc \in {"current", "env"} => composeEnv = j.found.composeEnv
    /\ j.pc \in {"up", "probe", "linkBack"} => composeEnv = releases[j.target]
    /\ j.pc \in {"current", "env", "up"} => app = j.found.app
    /\ j.pc \in {"probe", "linkBack"} => app = releases[j.target]
    /\ j.pc \in {"envBack", "upBack"} => Kept(j.found.current)
    /\ j.pc \in {"envBack", "upBack", "probeBack", "previousBack"} => current = j.found.current
    /\ j.pc \in {"upBack", "probeBack", "previousBack"} => composeEnv = j.found.composeEnv
    /\ j.pc \in {"probeBack", "previousBack"} => app = j.found.app

WholeInv ==
    /\ OwnDirectory
    /\ legacyEnv \in {None, LegacyBuild}
    /\ ~Switching => Whole(Found)
    /\ \A w \in Wrappers : lock = w => Phase(job[w])

\* The host has a release, and only commands before the switch and the probe of
\* the new release may fail.
ReleaseFaults == Faults \subseteq {"before", "probe"} /\ None \notin Installed

\* What a step does to the promise: nothing, a publication, or a whole switch.
Promised == [Promise!Next]_(Promise!switchVars)

-----------------------------------------------------------------------------
\* The lock is held by the wrapper w, which goes on.
LEMMA GoesOn ==
    ASSUME ShapeInv, NEW w \in Wrappers, lock = w, NEW next \in Pcs, GoOn(w, next)
    PROVE  /\ lock' = w /\ job'[w].pc = next /\ job'[w].build = job[w].build
           /\ job'[w].target = job[w].target /\ job'[w].found = job[w].found
BY DEF ShapeInv, DeployTypeOK, GoOn

\* What the promise sees while no switch is under way, and while one is.
LEMMA Unswitched ==
    ASSUME ~Switching
    PROVE  /\ Settled(Found).current = current /\ Settled(Found).previous = previous
           /\ Settled(Found).composeEnv = composeEnv /\ Settled(Found).app = app
BY DEF Settled, Found

LEMMA UnswitchedNext ==
    ASSUME ~Switching'
    PROVE  /\ Settled(Found)'.current = current' /\ Settled(Found)'.previous = previous'
           /\ Settled(Found)'.composeEnv = composeEnv' /\ Settled(Found)'.app = app'
BY DEF Settled, Found

\* A step that changes no release and nothing of what the promise sees.
LEMMA Stutters ==
    ASSUME UNCHANGED releases,
           /\ Settled(Found)'.current = Settled(Found).current
           /\ Settled(Found)'.previous = Settled(Found).previous
           /\ Settled(Found)'.composeEnv = Settled(Found).composeEnv
           /\ Settled(Found)'.app = Settled(Found).app
    PROVE  Promised
BY DEF Promised, Promise!switchVars

\* A command outside the switch that leaves the selection and the releases.
LEMMA OutsideSwitch ==
    ASSUME ~Switching, ~Switching', UNCHANGED <<releases, current, previous, composeEnv, app>>
    PROVE  Promised
BY Unswitched, UnswitchedNext, Stutters

\* A command within the switch of w: what was found stays what is promised.
LEMMA WithinSwitch ==
    ASSUME ShapeInv, WholeInv, NEW w \in Wrappers, lock = w, NEW next \in SwitchPcs, GoOn(w, next),
           UNCHANGED releases,
           \/ job[w].pc \in SwitchPcs
           \/ /\ job[w].found.current = current /\ job[w].found.previous = previous
              /\ job[w].found.composeEnv = composeEnv /\ job[w].found.app = app
    PROVE  Promised
<1>1. lock' = w /\ job'[w].pc = next /\ job'[w].found = job[w].found
  BY GoesOn DEF SwitchPcs, Pcs
<1>2. lock # None
  BY DeployConstants
<1>3. Switching' /\ Settled(Found)' = job[w].found
  BY <1>1, <1>2 DEF Switching, Settled, SwitchPcs
<1>4. CASE job[w].pc \in SwitchPcs
  <2>1. Settled(Found) = job[w].found
    BY <1>2, <1>4 DEF Switching, Settled, SwitchPcs
  <2> QED BY <1>3, <2>1, Stutters
<1>5. CASE job[w].pc \notin SwitchPcs
  <2>1. ~Switching
    BY <1>2, <1>5 DEF Switching, SwitchPcs
  <2> QED BY <1>3, <1>5, <2>1, Unswitched, Stutters
<1> QED BY <1>4, <1>5

\* The invariant after a step, while w holds the lock and after w has let go.
LEMMA WholeHeld ==
    ASSUME NEW w \in Wrappers, lock' = w, OwnDirectory', Phase(job[w])',
           legacyEnv' \in {None, LegacyBuild},
           job'[w].pc \notin SwitchPcs => Whole(Found)'
    PROVE  WholeInv'
BY DeployConstants DEF WholeInv, Switching, SwitchPcs

LEMMA WholeFreed ==
    ASSUME lock' = None, OwnDirectory', Whole(Found)', legacyEnv' \in {None, LegacyBuild}
    PROVE  WholeInv'
BY DeployConstants DEF WholeInv

LEMMA WholeInit ==
    ASSUME ReleaseFaults, Init
    PROVE  WholeInv /\ Promise!Init
<1>1. PICK b \in Installed :
        LET name == IF b = None THEN None ELSE ShaOf[b] IN
        /\ releases = [n \in Names |-> IF n = name THEN b ELSE None]
        /\ current = name /\ previous = None
        /\ composeEnv = b /\ app = b
        /\ legacyEnv = None /\ lock = None
  BY DEF Init
<1>2. b \in Builds /\ b # None /\ ShaOf[b] \in Shas
  BY DeployConstants DEF ReleaseFaults
<1>3. current = ShaOf[b] /\ current \in Names /\ current # None /\ releases[current] = b
  BY <1>1, <1>2, DeployConstants DEF Names
<1>4. ~Switching /\ Whole(Found)
  BY <1>1, <1>2, <1>3 DEF Switching, Whole, Found
<1>5. OwnDirectory
  BY ShapeInit, SoundInit DEF SoundInv
<1>6. WholeInv
  BY <1>1, <1>4, <1>5, DeployConstants DEF WholeInv
<1>7. releases \in [Names -> Builds \union {None}]
  BY <1>1, <1>2
<1>8. Promise!Init
  BY <1>1, <1>3, <1>4, <1>7, Unswitched DEF Promise!Init, Promise!Holds
<1> QED BY <1>6, <1>8

\* What is kept in a legacy release while the selection is of one piece.
LEMMA KeepsItsOwn ==
    ASSUME WholeInv, ~Switching, legacyEnv' \in {legacyEnv, KeptEnv}, UNCHANGED releases
    PROVE  legacyEnv' \in {None, LegacyBuild} /\ \A n \in Names : Kept(n) => Kept(n)'
BY DEF WholeInv, Whole, Found, KeptEnv, Holds, Kept

\* A command before the switch: the job goes on or ends, the selection stays.
LEMMA BeforeSwitch ==
    ASSUME ShapeInv, WholeInv, NEW w \in Wrappers, lock = w, job[w].pc \notin SwitchPcs,
           UNCHANGED <<releases, current, previous, composeEnv, app>>,
           legacyEnv' \in {legacyEnv, KeptEnv},
           \/ Exit(w)
           \/ \E next \in {"previous", "backup"} : GoOn(w, next) /\ Phase(job[w])'
    PROVE  WholeInv' /\ Promised
<1>1. ~Switching /\ Whole(Found) /\ OwnDirectory
  BY DeployConstants DEF WholeInv, Switching, SwitchPcs
<1>2. Whole(Found)' /\ OwnDirectory' /\ legacyEnv' \in {None, LegacyBuild}
  BY <1>1, KeepsItsOwn DEF Whole, Found, OwnDirectory
<1>3. CASE Exit(w)
  <2>1. lock' = None
    BY <1>3 DEF Exit
  <2>2. ~Switching'
    BY <2>1 DEF Switching
  <2> QED BY <1>1, <1>2, <2>1, <2>2, WholeFreed, OutsideSwitch
<1>4. CASE \E next \in {"previous", "backup"} : GoOn(w, next) /\ Phase(job[w])'
  <2>1. PICK next \in {"previous", "backup"} : GoOn(w, next) /\ Phase(job[w])'
    BY <1>4
  <2>2. lock' = w /\ job'[w].pc = next
    BY <2>1, GoesOn DEF Pcs
  <2>3. ~Switching'
    BY <2>1, <2>2 DEF Switching, SwitchPcs
  <2> QED BY <1>1, <1>2, <2>1, <2>2, <2>3, WholeHeld, OutsideSwitch
<1> QED BY <1>3, <1>4

\* A command of the switch: the job goes on and what it found is what counts.
LEMMA SwitchStep ==
    ASSUME ShapeInv, WholeInv, NEW w \in Wrappers, lock = w, NEW next \in SwitchPcs, GoOn(w, next),
           UNCHANGED <<releases, legacyEnv>>,
           job[w].pc = "previous" \/ job[w].pc \in SwitchPcs,
           Phase(job[w])'
    PROVE  WholeInv' /\ Promised
<1>1. lock' = w /\ job'[w].pc = next
  BY GoesOn DEF SwitchPcs, Pcs
<1>2. OwnDirectory' /\ legacyEnv' \in {None, LegacyBuild}
  BY DEF WholeInv, OwnDirectory
<1>3. WholeInv'
  BY <1>1, <1>2, WholeHeld
<1>4. job[w].pc = "previous" =>
        /\ job[w].found.current = current /\ job[w].found.previous = previous
        /\ job[w].found.composeEnv = composeEnv /\ job[w].found.app = app
  BY DEF WholeInv, Phase
<1> QED BY <1>3, <1>4, WithinSwitch

LEMMA PublishKeepsPromise ==
    ASSUME ShapeInv, WholeInv, NEW w \in Wrappers, lock = w, Publish(w)
    PROVE  WholeInv' /\ Promised
<1> DEFINE Jobs == [pc : Pcs, build : Builds \union {None},
                    target : Names \union {None}, found : Founds]
           b == job[w].build
           n == ReleasePath(b)
<1>0. job \in [Wrappers -> Jobs] /\ releases \in [Names -> Builds \union {None}] /\ job[w].pc = "publish"
  BY DEF ShapeInv, DeployTypeOK, Publish
<1>1. b \in Builds /\ b # None /\ b # LegacyBuild
  BY <1>0, DeployConstants DEF ShapeInv, JobShape, WholeInv, Phase
<1>2. OwnDirectory /\ ~Switching /\ Whole(Found) /\ legacyEnv \in {None, LegacyBuild}
  BY <1>0, DeployConstants DEF WholeInv, Switching
<1>3. n \in Names /\ releases[n] \in {None, b}
  BY <1>1, <1>2, DeployConstants DEF ReleasePath, OwnDirectory, Names
<1>4. UNCHANGED <<current, previous, composeEnv, app, legacyEnv>>
  BY DEF Publish, selection
<1>5. CASE Exit(w) /\ UNCHANGED releases
  BY <1>0, <1>4, <1>5, BeforeSwitch DEF SwitchPcs
<1>6. CASE /\ releases' = [releases EXCEPT ![n] = b]
           /\ job' = [job EXCEPT ![w].pc = "pull", ![w].target = n]
           /\ UNCHANGED lock
  <2>1. lock' = w /\ job'[w].pc = "pull" /\ job'[w].target = n /\ job'[w].build = b
    BY <1>0, <1>6
  <2>2. releases'[n] = b /\ \A m \in Names : releases[m] # None => releases'[m] = releases[m]
    BY <1>0, <1>3, <1>6
  <2>3. Phase(job[w])'
    BY <1>1, <1>3, <2>1, <2>2 DEF Phase, Kept, SwitchPcs
  <2>4. current \in Names
    BY <1>2 DEF Whole, Found, ShapeInv, DeployTypeOK
  <2>5. Whole(Found)'
    BY <1>2, <1>4, <2>2, <2>4 DEF Whole, Found
  <2>6. \A m \in Builds : releases'[m] \in {releases[m], IF m = n THEN b ELSE releases[m]}
    BY <1>0, <1>6 DEF Names
  <2>7. OwnDirectory'
    <3>1. ASSUME NEW m \in Builds PROVE releases'[m] \in {None, m}
      <4>1. CASE m = n
        BY <1>1, <1>2, <1>3, <2>2, <4>1, DeployConstants DEF ReleasePath
      <4>2. CASE m # n
        BY <1>2, <2>6, <4>2 DEF OwnDirectory
      <4> QED BY <4>1, <4>2
    <3> QED BY <3>1 DEF OwnDirectory
  <2>8. ~Switching'
    BY <2>1 DEF Switching
  <2>9. Promised
    <3>1. CASE releases[n] = b
      <4>1. releases' = releases
        BY <1>0, <1>6, <3>1
      <4> QED BY <1>2, <1>4, <2>8, <4>1, OutsideSwitch
    <3>2. CASE releases[n] = None
      <4>1. Promise!Publish(n, b)
        BY <1>2, <1>4, <1>6, <2>8, <3>2, Unswitched, UnswitchedNext DEF Promise!Publish
      <4> HIDE DEF n, b
      <4>2. Promise!Next
        BY <1>1, <1>3, <4>1 DEF Promise!Next
      <4> QED BY <4>2 DEF Promised
    <3> QED BY <1>3, <3>1, <3>2
  <2> QED BY <1>2, <1>4, <2>1, <2>3, <2>5, <2>7, <2>9, WholeHeld
<1> QED BY <1>5, <1>6 DEF Publish

\* The wrapper lets go of a release that is linked, configured and running: the
\* whole switch at once, or, when it was current already, nothing at all.
LEMMA SwitchEnds ==
    ASSUME ShapeInv, WholeInv, NEW w \in Wrappers, lock = w, job[w].pc \in {"probe", "linkBack"},
           lock' = None, UNCHANGED <<releases, current, previous, composeEnv, app, legacyEnv>>
    PROVE  WholeInv' /\ Promised
<1> DEFINE found == job[w].found
           target == job[w].target
<1>1. /\ target \in Names /\ releases[target] # None /\ Whole(found)
      /\ previous = NewPrevious(job[w]) /\ current = target
      /\ composeEnv = releases[target] /\ app = releases[target]
  BY DEF WholeInv, Phase, SwitchPcs
<1>2. ~Switching'
  BY DEF Switching
<1>3. Whole(Found)' /\ OwnDirectory' /\ legacyEnv' \in {None, LegacyBuild}
  BY <1>1, DeployConstants DEF Whole, Found, WholeInv, OwnDirectory, Names
<1>4. Settled(Found) = found
  BY DeployConstants DEF Switching, Settled
<1>5. /\ Settled(Found)'.current = target /\ Settled(Found)'.previous = NewPrevious(job[w])
      /\ Settled(Found)'.composeEnv = releases[target] /\ Settled(Found)'.app = releases[target]
  BY <1>1, <1>2, UnswitchedNext
<1>6. CASE target = found.current
  <2>1. found.composeEnv = releases[target] /\ found.app = releases[target]
    BY <1>1, <1>6 DEF Whole
  <2>2. NewPrevious(job[w]) = found.previous
    BY <1>6 DEF NewPrevious
  <2>3. Promised
    BY <1>4, <1>5, <1>6, <2>1, <2>2, Stutters
  <2> QED BY <1>3, <2>3, WholeFreed
<1>7. CASE target # found.current
  <2>1. Promise!Switch(target)
    BY <1>1, <1>4, <1>5, <1>7 DEF Promise!Switch, NewPrevious, Whole
  <2> HIDE DEF target
  <2>2. Promise!Next
    BY <1>1, <2>1 DEF Promise!Next
  <2> QED BY <1>3, <2>2, WholeFreed DEF Promised
<1> QED BY <1>6, <1>7

LEMMA StepKeepsPromise ==
    ASSUME ReleaseFaults, ShapeInv, WholeInv, NEW w \in Wrappers, Step(w)
    PROVE  WholeInv' /\ Promised
<1>1. job[w].pc \notin {"idle", "failed"}
  BY DEF Step, Publish, Pull, Backup, BackupImpossible, Migrate, FailsBefore, LinkPrevious,
         LinkCurrent, SetEnv, FailsLinking, Up, Probe, LinkBack, EnvBack, UpBack, ProbeBack,
         PreviousBack
<1>2. lock = w /\ Phase(job[w]) /\ OwnDirectory
  BY <1>1 DEF ShapeInv, DeployTypeOK, WholeInv
<1>a. legacyEnv \in {None, LegacyBuild} /\ \A n \in Names : Kept(n) => EnvOf(n) = releases[n]
  BY DEF WholeInv, Kept, EnvOf
<1>3. job[w].pc \notin SwitchPcs => ~Switching /\ Whole(Found)
  BY <1>2, DeployConstants DEF WholeInv, Switching, SwitchPcs
<1>4. "up" \notin Faults /\ "restore" \notin Faults /\ "link" \notin Faults
  BY DEF ReleaseFaults
<1>5. job[w].pc \in SwitchPcs => Whole(job[w].found)
  BY <1>2 DEF Phase
<1>6. CASE Publish(w)
  BY <1>2, <1>6, PublishKeepsPromise
<1>7. CASE Pull(w)
  <2>1. job[w].pc = "pull" /\ UNCHANGED <<releases, current, previous, composeEnv, app, legacyEnv>>
    BY <1>7 DEF Pull, selection, host
  <2>2. PICK next \in {"previous", "backup"} :
          GoOn(w, next) /\ (next = "previous" => job[w].build = None)
    BY <1>7 DEF Pull
  <2>3. /\ job'[w].pc = next /\ job'[w].target = job[w].target
        /\ job'[w].found = job[w].found /\ job'[w].build = job[w].build
    BY <1>2, <2>2, GoesOn DEF Pcs
  <2>4. Phase(job[w])'
    BY <1>2, <2>1, <2>2, <2>3 DEF Phase, Kept, SwitchPcs
  <2> QED BY <1>2, <2>1, <2>2, <2>4, BeforeSwitch DEF SwitchPcs
<1>8. CASE Backup(w)
  <2>1. /\ UNCHANGED <<releases, current, previous, composeEnv, app, lock>> /\ job[w].pc = "backup"
        /\ job' = [job EXCEPT ![w].pc = "migrate", ![w].found = Found] /\ legacyEnv' = KeptEnv
    BY <1>8 DEF Backup, selection
  <2>2. job'[w].pc = "migrate" /\ job'[w].target = job[w].target /\ job'[w].found = Found
    BY <2>1 DEF ShapeInv, DeployTypeOK
  <2>4. ~Switching /\ Whole(Found)
    BY <1>3, <2>1 DEF SwitchPcs
  <2>6. legacyEnv' \in {None, LegacyBuild} /\ \A n \in Names : Kept(n) => Kept(n)'
    BY <2>1, <2>4, KeepsItsOwn
  <2>7. job[w].target \in Names /\ releases[job[w].target] # None /\ Kept(job[w].target)
    BY <1>2, <2>1 DEF Phase
  <2>8. Kept(job[w].target)'
    BY <2>1, <2>2, <2>6, <2>7 DEF Kept
  <2>3. Phase(job[w])'
    BY <2>1, <2>2, <2>7, <2>8 DEF Phase, SwitchPcs, Found
  <2>5. Whole(Found)' /\ OwnDirectory' /\ ~Switching'
    BY <1>2, <2>1, <2>2, <2>4 DEF Whole, Found, OwnDirectory, Switching
  <2> QED BY <1>2, <2>1, <2>3, <2>4, <2>5, <2>6, WholeHeld, OutsideSwitch
<1>9. CASE BackupImpossible(w)
  <2>1. Whole(Found) /\ (composeEnv = None \/ current = None)
    BY <1>3, <1>9 DEF BackupImpossible, SwitchPcs
  <2> QED BY <2>1 DEF Whole, Found
<1>10. CASE Migrate(w)
  <2>1. job[w].pc = "migrate" /\ UNCHANGED <<releases, current, previous, composeEnv, app, legacyEnv>>
    BY <1>10 DEF Migrate, selection
  <2>2. CASE Exit(w)
    BY <1>2, <2>1, <2>2, BeforeSwitch DEF SwitchPcs
  <2>3. CASE GoOn(w, "previous")
    <3>1. job'[w].pc = "previous" /\ job'[w].target = job[w].target /\ job'[w].found = job[w].found
      BY <1>2, <2>3, GoesOn DEF Pcs
    <3>2. Phase(job[w])'
      BY <1>2, <2>1, <3>1 DEF Phase, Kept, SwitchPcs
    <3> QED BY <1>2, <2>1, <2>3, <3>2, BeforeSwitch DEF SwitchPcs
  <2>4. CASE UNCHANGED <<job, lock>>
    <3>1. ~Switching /\ ~Switching' /\ Whole(Found)' /\ OwnDirectory'
      BY <1>2, <1>3, <2>1, <2>4 DEF SwitchPcs, Switching, Whole, Found, OwnDirectory
    <3>2. Phase(job[w])'
      BY <1>2, <2>1, <2>4 DEF Phase, Kept, SwitchPcs
    <3> QED BY <1>2, <1>a, <2>1, <2>4, <3>1, <3>2, WholeHeld, OutsideSwitch
  <2> QED BY <1>10, <2>2, <2>3, <2>4 DEF Migrate
<1>11. CASE FailsBefore(w)
  <2>1. /\ job[w].pc \notin SwitchPcs /\ UNCHANGED <<releases, current, previous, composeEnv, app>>
        /\ legacyEnv' \in {legacyEnv, KeptEnv} /\ Exit(w)
    BY <1>11 DEF FailsBefore, selection, SwitchPcs
  <2> QED BY <1>2, <2>1, BeforeSwitch
<1>12. CASE LinkPrevious(w)
  <2>1. /\ job[w].pc = "previous" /\ UNCHANGED <<releases, current, composeEnv, app, legacyEnv>>
        /\ GoOn(w, "current")
        /\ previous' = IF job[w].found.current # None /\ job[w].found.current # job[w].target
                       THEN job[w].found.current ELSE previous
    BY <1>12 DEF LinkPrevious, host
  <2>2. job'[w].pc = "current" /\ job'[w].target = job[w].target /\ job'[w].found = job[w].found
    BY <1>2, <2>1, GoesOn DEF Pcs
  <2>3. /\ Whole(Found) /\ job[w].found.current = current /\ job[w].found.previous = previous
        /\ job[w].found.composeEnv = composeEnv /\ job[w].found.app = app
        /\ job[w].target \in Names /\ releases[job[w].target] # None /\ Kept(job[w].target)
    BY <1>2, <1>3, <2>1 DEF Phase, SwitchPcs
  <2>4. Whole(job[w].found)
    BY <2>3 DEF Whole, Found
  <2>5. Whole(job[w].found)' /\ previous' = NewPrevious(job[w])'
    BY <2>1, <2>2, <2>3, <2>4 DEF Whole, NewPrevious
  <2>6. Phase(job[w])'
    BY <2>1, <2>2, <2>3, <2>5 DEF Phase, Kept, SwitchPcs
  <2> QED BY <1>2, <2>1, <2>6, SwitchStep DEF SwitchPcs
\* What the commands of the switch leave alone.
<1>13. ASSUME NEW next \in SwitchPcs, GoOn(w, next), job[w].pc \in SwitchPcs, UNCHANGED <<releases, legacyEnv>>
       PROVE  /\ job'[w].pc = next /\ job'[w].target = job[w].target
              /\ job'[w].found = job[w].found
              /\ Whole(job[w].found)' /\ NewPrevious(job[w])' = NewPrevious(job[w])
              /\ \A n \in Names : Kept(n)' <=> Kept(n)
  <2>1. job'[w].pc = next /\ job'[w].target = job[w].target /\ job'[w].found = job[w].found
    BY <1>2, <1>13, GoesOn DEF SwitchPcs, Pcs
  <2> QED BY <1>5, <1>13, <2>1 DEF Whole, NewPrevious, Kept
<1>14. CASE LinkCurrent(w)
  <2>1. /\ job[w].pc = "current" /\ UNCHANGED <<releases, previous, composeEnv, app, legacyEnv>>
        /\ GoOn(w, "env") /\ current' = job[w].target
    BY <1>14 DEF LinkCurrent, host
  <2>2. Phase(job[w])'
    BY <1>2, <1>13, <2>1 DEF Phase, SwitchPcs
  <2> QED BY <1>2, <2>1, <2>2, SwitchStep DEF SwitchPcs
<1>15. CASE SetEnv(w)
  <2>1. /\ job[w].pc = "env" /\ UNCHANGED <<releases, current, previous, app, legacyEnv>>
        /\ GoOn(w, "up") /\ composeEnv' = releases[job[w].target]
    BY <1>2, <1>a, <1>15 DEF SetEnv, Phase, host
  <2>2. Phase(job[w])'
    BY <1>2, <1>13, <2>1 DEF Phase, SwitchPcs
  <2> QED BY <1>2, <2>1, <2>2, SwitchStep DEF SwitchPcs
<1>16. CASE FailsLinking(w)
  BY <1>4, <1>16 DEF FailsLinking
<1>17. CASE Up(w)
  <2>1. /\ job[w].pc = "up" /\ UNCHANGED <<releases, current, previous, composeEnv, legacyEnv>>
        /\ GoOn(w, "probe") /\ app' = releases[job[w].target]
    BY <1>2, <1>4, <1>a, <1>17 DEF Up, Phase, host
  <2>2. Phase(job[w])'
    BY <1>2, <1>13, <2>1 DEF Phase, SwitchPcs
  <2> QED BY <1>2, <2>1, <2>2, SwitchStep DEF SwitchPcs
<1>18. CASE Probe(w)
  <2>1. /\ job[w].pc = "probe"
        /\ UNCHANGED <<releases, current, previous, composeEnv, app, legacyEnv>>
    BY <1>18 DEF Probe, selection, host
  <2>2. CASE Exit(w)
    BY <1>2, <2>1, <2>2, SwitchEnds DEF Exit
  <2>3. CASE GoOn(w, "linkBack")
    <3>1. Phase(job[w])'
      BY <1>2, <1>13, <2>1, <2>3 DEF Phase, SwitchPcs
    <3> QED BY <1>2, <2>1, <2>3, <3>1, SwitchStep DEF SwitchPcs
  <2> QED BY <1>18, <2>2, <2>3 DEF Probe
<1>19. CASE LinkBack(w)
  <2>1. /\ job[w].pc = "linkBack" /\ job[w].found.current # None
        /\ UNCHANGED <<releases, previous, app, legacyEnv>>
    BY <1>5, <1>19 DEF LinkBack, SwitchPcs, Whole, host
  <2>2. CASE ExitFailed(w) /\ UNCHANGED <<current, composeEnv>>
    BY <1>2, <2>1, <2>2, SwitchEnds DEF ExitFailed
  <2>3. CASE /\ Deployable(job[w].found.current)
             /\ GoOn(w, "envBack") /\ current' = job[w].found.current
    <3>1. Kept(job[w].found.current) /\ job[w].found.current \in Names
      BY <1>a, <2>1, <2>3 DEF Deployable, Kept, ShapeInv, DeployTypeOK, Founds
    <3>2. Phase(job[w])'
      BY <1>2, <1>13, <2>1, <2>3, <3>1 DEF Phase, SwitchPcs
    <3> QED BY <1>2, <2>1, <2>3, <3>2, SwitchStep DEF SwitchPcs
  <2> QED BY <1>19, <2>1, <2>2, <2>3 DEF LinkBack
<1>20. CASE EnvBack(w)
  <2>1. /\ job[w].pc = "envBack" /\ UNCHANGED <<releases, current, previous, app, legacyEnv>>
        /\ GoOn(w, "upBack") /\ composeEnv' = releases[job[w].found.current]
        /\ job[w].found.current \in Names
    BY <1>2, <1>a, <1>20 DEF EnvBack, Phase, ShapeInv, JobShape, host
  <2>2. composeEnv' = job[w].found.composeEnv
    BY <1>5, <2>1 DEF Whole, SwitchPcs
  <2>3. Phase(job[w])'
    BY <1>2, <1>13, <2>1, <2>2 DEF Phase, SwitchPcs
  <2> QED BY <1>2, <2>1, <2>3, SwitchStep DEF SwitchPcs
<1>21. CASE UpBack(w)
  <2>1. /\ job[w].pc = "upBack" /\ UNCHANGED <<releases, current, previous, composeEnv, legacyEnv>>
        /\ GoOn(w, "probeBack") /\ app' = releases[job[w].found.current]
    BY <1>2, <1>4, <1>a, <1>21 DEF UpBack, Phase, ShapeInv, JobShape, host
  <2>2. app' = job[w].found.app
    BY <1>5, <2>1 DEF Whole, SwitchPcs
  <2>3. Phase(job[w])'
    BY <1>2, <1>13, <2>1, <2>2 DEF Phase, SwitchPcs
  <2> QED BY <1>2, <2>1, <2>3, SwitchStep DEF SwitchPcs
<1>22. CASE ProbeBack(w)
  <2>1. /\ job[w].pc = "probeBack" /\ UNCHANGED <<releases, current, previous, composeEnv, app, legacyEnv>>
        /\ GoOn(w, "previousBack")
    BY <1>4, <1>22 DEF ProbeBack, selection, host
  <2>2. Phase(job[w])'
    BY <1>2, <1>13, <2>1 DEF Phase, SwitchPcs
  <2> QED BY <1>2, <2>1, <2>2, SwitchStep DEF SwitchPcs
<1>23. CASE PreviousBack(w)
  <2>1. /\ job[w].pc = "previousBack" /\ UNCHANGED <<releases, current, composeEnv, app, legacyEnv>>
        /\ previous' = job[w].found.previous /\ lock' = None
    BY <1>23 DEF PreviousBack, ExitFailed, host
  <2>2. /\ Whole(job[w].found) /\ current = job[w].found.current
        /\ composeEnv = job[w].found.composeEnv /\ app = job[w].found.app
    BY <1>2, <1>5, <2>1 DEF Phase, SwitchPcs
  <2>3. Whole(Found)' /\ OwnDirectory' /\ ~Switching'
    BY <1>2, <2>1, <2>2 DEF Whole, Found, OwnDirectory, Switching
  <2>4. Settled(Found) = job[w].found
    BY <1>2, <2>1, DeployConstants DEF Switching, Settled
  <2>5. Promised
    BY <2>1, <2>2, <2>3, <2>4, UnswitchedNext, Stutters
  <2> QED BY <1>a, <2>1, <2>3, <2>5, WholeFreed
<1> QED BY <1>6, <1>7, <1>8, <1>9, <1>10, <1>11, <1>12, <1>14, <1>15, <1>16, <1>17, <1>18, <1>19,
           <1>20, <1>21, <1>22, <1>23 DEF Step

LEMMA WholeNext ==
    ASSUME ReleaseFaults, ShapeInv, WholeInv, [Next]_vars
    PROVE  WholeInv' /\ Promised
<1>1. ASSUME NEW w \in Wrappers, NEW b \in Builds \ {LegacyBuild}, BeginApply(w, b)
      PROVE  WholeInv' /\ Promised
  <2>1. /\ UNCHANGED <<releases, current, previous, composeEnv, app, legacyEnv>>
        /\ lock = None /\ lock' = w /\ job'[w].pc = "publish" /\ job'[w].build = b
    BY <1>1 DEF BeginApply, TakeLock, selection, ShapeInv, DeployTypeOK, Idle
  <2>2. Phase(job[w])'
    BY <2>1 DEF Phase, SwitchPcs
  <2>3. ~Switching /\ Whole(Found) /\ OwnDirectory /\ legacyEnv \in {None, LegacyBuild}
    BY <2>1 DEF Switching, WholeInv
  <2>4. Whole(Found)' /\ OwnDirectory' /\ ~Switching'
    BY <2>1, <2>3 DEF Whole, Found, OwnDirectory, Switching
  <2> QED BY <2>1, <2>2, <2>3, <2>4, WholeHeld, OutsideSwitch
<1>2. ASSUME NEW w \in Wrappers, NEW n \in Names, BeginRollback(w, n) PROVE WholeInv' /\ Promised
  <2>1. /\ UNCHANGED <<releases, current, previous, composeEnv, app, legacyEnv>>
        /\ lock = None /\ lock' = w
        /\ job'[w].pc = "pull" /\ job'[w].target = n /\ job'[w].found = Found
        /\ Deployable(n)
    BY <1>2 DEF BeginRollback, TakeLock, selection, host, ShapeInv, DeployTypeOK, Idle
  <2>2. Phase(job[w])'
    BY <2>1 DEF Phase, SwitchPcs, Found, Deployable, Kept, WholeInv
  <2>3. ~Switching /\ Whole(Found) /\ OwnDirectory /\ legacyEnv \in {None, LegacyBuild}
    BY <2>1 DEF Switching, WholeInv
  <2>4. Whole(Found)' /\ OwnDirectory' /\ ~Switching'
    BY <2>1, <2>3 DEF Whole, Found, OwnDirectory, Switching
  <2> QED BY <2>1, <2>2, <2>3, <2>4, WholeHeld, OutsideSwitch
<1>3. ASSUME NEW w \in Wrappers, Step(w) PROVE WholeInv' /\ Promised
  BY <1>3, StepKeepsPromise
<1>4. CASE Dies
  BY <1>4 DEF Dies, ReleaseFaults
<1>5. CASE Boot
  <2>1. lock = None /\ app = None
    BY <1>5 DEF Boot
  <2>2. Whole(Found)
    BY <2>1 DEF WholeInv, Switching
  <2> QED BY <2>1, <2>2 DEF Whole, Found
<1>6. CASE UNCHANGED vars
  <2>1. UNCHANGED <<releases, current, previous, composeEnv, app, schema, legacyEnv, lock, job>>
    BY <1>6 DEF vars
  <2>2. WholeInv'
    BY <2>1 DEF WholeInv, OwnDirectory, Switching, Whole, Found, Phase, Kept, NewPrevious
  <2>3. Promised
    BY <2>1, Stutters DEF Settled, Switching, Found
  <2> QED BY <2>2, <2>3
<1> QED BY <1>1, <1>2, <1>3, <1>4, <1>5, <1>6 DEF Next

\* On a host that has a release, and as long as nothing fails but commands
\* before the switch and the new release's probe, every deployment switches the
\* release, the way back, the next boot and the running app as a whole or leaves
\* them all, and no published release ever changes.
THEOREM SwitchesAllOrNothing ==
    ASSUME ReleaseFaults
    PROVE  Spec => AllOrNothing
<1>1. Init => WholeInv /\ Promise!Init
  BY WholeInit
<1>2. ShapeInv /\ WholeInv /\ [Next]_vars => WholeInv' /\ [Promise!Next]_(Promise!switchVars)
  BY WholeNext DEF Promised
<1> QED BY <1>1, <1>2, ShapeInit, ShapeNext, PTL DEF Spec, AllOrNothing, Promise!Spec
=============================================================================
