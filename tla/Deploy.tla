------------------------------- MODULE Deploy -------------------------------
(***************************************************************************)
(* The deployment wrapper of the production host                            *)
(* (deploy/domain-map-deploy.sh), with the backup script and the migration  *)
(* runner it calls (deploy/domain-map-backup.sh, db/scripts/apply.sh,       *)
(* db/scripts/preflight.sh) and the unit that starts the host               *)
(* (deploy/domain-map.service).                                             *)
(*                                                                          *)
(* An action is one command of the wrapper that changes something another   *)
(* command, a reboot or an operator can see, with the checks before it.  A  *)
(* release is identified by the pair of image digests it holds (a build).   *)
(* Left out: ownership and format checks, the registry, the upload, and the *)
(* seven days a dump is kept.                                               *)
(***************************************************************************)
EXTENDS Naturals, FiniteSets

CONSTANTS
    Wrappers,     \* invocations of the wrapper that may overlap
    Shas,         \* commits
    Builds,       \* pairs of image digests; also the full release id of each
    LegacyBuild,  \* the build installed by hand, a release without release.env
    ShaOf,        \* the commit of a build
    Needs,        \* how many migrations the image of a build carries
    Installed,    \* builds the host may start with, None for a fresh host
    Commands,     \* "apply", "rollback" and "select" (rollback <release-id>)
    Faults,       \* "before", "link", "up", "probe", "restore", "dies"
    None

ASSUME DeployConstants ==
    /\ ShaOf \in [Builds -> Shas]
    /\ Needs \in [Builds -> Nat]
    /\ Shas \intersect Builds = {}
    /\ None \notin Shas \union Builds \union Wrappers
    /\ Installed \subseteq Builds \union {None}

Names == Shas \union Builds   \* directories under releases/

VARIABLES
    releases,    \* the build each directory holds, None where there is none
    current,     \* the symlink current
    previous,    \* the symlink previous
    composeEnv,  \* the build compose.env names
    app,         \* the build the app container runs
    schema,      \* migrations the database has
    began,       \* the migrations it had when the latest apply began
    dumps,       \* the schemas of which a dump was made since then
    legacyEnv,   \* the build named by the compose.env kept in the legacy release
    lock,        \* who holds /run/lock/domain-map-deploy.lock
    job          \* per wrapper: where it stands, what it deploys, what it found

selection == <<current, previous, composeEnv, app>>
database == <<schema, began, dumps>>
host == <<releases, legacyEnv, schema, began, dumps>>
vars == <<releases, current, previous, composeEnv, app, schema, began, dumps, legacyEnv, lock, job>>

Nothing == [current |-> None, previous |-> None, composeEnv |-> None, app |-> None]
Idle == [pc |-> "idle", build |-> None, target |-> None, found |-> Nothing]

Holds(n) == IF n = None THEN None ELSE releases[n]

(* current_target, previous_target: what the wrapper has to put back; the    *)
(* other fields serve the properties only.                                   *)
Found == [current |-> current, previous |-> previous, composeEnv |-> composeEnv,
          app |-> app]

Init ==
    \E b \in Installed :
        LET name == IF b = None THEN None ELSE ShaOf[b] IN
        /\ releases = [n \in Names |-> IF n = name THEN b ELSE None]
        /\ current = name /\ previous = None
        /\ composeEnv = b /\ app = b
        /\ schema = IF b = None THEN 0 ELSE Needs[b]
        /\ began = schema /\ dumps = {} /\ legacyEnv = None
        /\ lock = None
        /\ job = [w \in Wrappers |-> Idle]

(* release_path_for: the commit's own directory if it holds this very build, *)
(* the directory named after the digests otherwise.                          *)
ReleasePath(b) == IF releases[ShaOf[b]] = b THEN ShaOf[b] ELSE b

(* resolve_release_selector: the releases a selector stands for *)
Resolves(selector) ==
    IF selector \in Shas
    THEN {n \in Names : releases[n] # None /\ (n = selector \/ (n \in Builds /\ ShaOf[n] = selector))}
    ELSE {selector}

(* assert_release, assert_legacy_release *)
Deployable(n) == releases[n] # None /\ (releases[n] = LegacyBuild => legacyEnv # None)

(* The image a release is run with: its release.env, or the compose.env that  *)
(* was kept in a legacy release.                                              *)
EnvOf(n) == IF releases[n] = LegacyBuild THEN legacyEnv ELSE releases[n]

(* compose.env, whatever it names, is kept in a current legacy release. *)
KeptEnv == IF Holds(current) = LegacyBuild THEN composeEnv ELSE legacyEnv

GoOn(w, next) == job' = [job EXCEPT ![w].pc = next] /\ UNCHANGED lock

(* The wrapper exits: the kernel drops its lock.  A wrapper that has switched *)
(* and failed is remembered, for RestoredAfterFailure.                        *)
Exit(w) == job' = [job EXCEPT ![w] = Idle] /\ lock' = None
ExitFailed(w) == job' = [job EXCEPT ![w].pc = "failed"] /\ lock' = None
-----------------------------------------------------------------------------
(* flock -n *)
TakeLock(w) == lock = None /\ lock' = w

BeginApply(w, b) ==
    /\ "apply" \in Commands
    /\ job[w].pc \in {"idle", "failed"}
    /\ TakeLock(w)
    /\ job' = [job EXCEPT ![w] = [Idle EXCEPT !.pc = "publish", !.build = b]]
    /\ began' = schema /\ dumps' = {}
    /\ UNCHANGED <<selection, releases, legacyEnv, schema>>

BeginRollback(w, n) ==
    /\ job[w].pc \in {"idle", "failed"}
    /\ TakeLock(w)
    /\ \/ "rollback" \in Commands /\ n = previous
       \/ "select" \in Commands /\ \E s \in Names : Resolves(s) = {n}
    /\ n # current
    /\ Deployable(n)
    /\ job' = [job EXCEPT ![w] = [Idle EXCEPT !.pc = "pull", !.target = n, !.found = Found]]
    /\ UNCHANGED <<selection, host>>

(* release_path_for and write_release: the directory appears at once, by mv. *)
(* assert_legacy_release refuses the commit of a legacy release whose         *)
(* compose.env has not been kept yet.                                         *)
Publish(w) ==
    LET b == job[w].build
        n == ReleasePath(b)
        refused == releases[ShaOf[b]] = LegacyBuild /\ legacyEnv = None IN
    /\ job[w].pc = "publish"
    /\ \/ /\ ~refused
          /\ releases' = [releases EXCEPT ![n] = b]
          /\ job' = [job EXCEPT ![w].pc = "pull", ![w].target = n]
          /\ UNCHANGED lock
       \/ refused /\ Exit(w) /\ UNCHANGED releases
    /\ UNCHANGED <<selection, legacyEnv, database>>

FaultyPull(w) ==   \* the migration does not wait for a backup
    /\ job[w].pc = "pull"
    /\ GoOn(w, IF job[w].build = None THEN "previous" ELSE "migrate")
    /\ UNCHANGED <<selection, host>>

(* registry_login, docker pull; for apply also the database and its health *)
Pull(w) ==
    /\ job[w].pc = "pull"
    /\ GoOn(w, IF job[w].build = None THEN "previous" ELSE "backup")
    /\ UNCHANGED <<selection, host>>

(* current_target, previous_target, compose.env kept in a legacy release, and *)
(* the dump: the backup script reads compose.env and runs in the Compose      *)
(* project of current, so it needs both.                                      *)
Backup(w) ==
    /\ job[w].pc = "backup"
    /\ composeEnv # None /\ current # None
    /\ legacyEnv' = KeptEnv
    /\ dumps' = dumps \union {schema}
    /\ job' = [job EXCEPT ![w].pc = "migrate", ![w].found = Found]
    /\ UNCHANGED <<selection, releases, schema, began, lock>>

(* A first backup without a current release to run it in *)
BackupImpossible(w) ==
    /\ job[w].pc = "backup"
    /\ composeEnv = None \/ current = None
    /\ ExitFailed(w)
    /\ UNCHANGED <<selection, host>>

FaultyMigrate(w) ==   \* the wrapper goes on whatever the migration image says
    /\ job[w].pc = "migrate"
    /\ \/ UNCHANGED schema /\ GoOn(w, "previous")
       \/ schema < Needs[job[w].build] /\ schema' = schema + 1 /\ UNCHANGED <<job, lock>>
    /\ UNCHANGED <<selection, releases, legacyEnv, began, dumps>>

(* apply.sh, step by step: the pending migrations in order, one transaction   *)
(* each; then preflight.sh: the database has none that the image lacks.       *)
Migrate(w) ==
    LET needs == Needs[job[w].build] IN
    /\ job[w].pc = "migrate"
    /\ \/ schema < needs /\ schema' = schema + 1 /\ UNCHANGED <<job, lock>>
       \/ schema = needs /\ UNCHANGED schema /\ GoOn(w, "previous")
       \/ (schema > needs \/ "before" \in Faults) /\ UNCHANGED schema /\ Exit(w)
    /\ UNCHANGED <<selection, releases, legacyEnv, began, dumps>>

(* Any command before the switch fails: set -e ends the wrapper. *)
FailsBefore(w) ==
    /\ "before" \in Faults
    /\ job[w].pc \in {"publish", "pull", "backup"}
    /\ legacyEnv' \in IF job[w].pc = "backup" THEN {legacyEnv, KeptEnv} ELSE {legacyEnv}
    /\ Exit(w)
    /\ UNCHANGED <<selection, releases, database>>
-----------------------------------------------------------------------------
(* Under pc = "previous", "current" and "env" the trap is not yet set. *)
LinkPrevious(w) ==
    LET old == job[w].found.current IN
    /\ job[w].pc = "previous"
    /\ previous' = IF old # None /\ old # job[w].target THEN old ELSE previous
    /\ GoOn(w, "current")
    /\ UNCHANGED <<current, composeEnv, app, host>>

LinkCurrent(w) ==
    /\ job[w].pc = "current"
    /\ current' = job[w].target
    /\ GoOn(w, "env")
    /\ UNCHANGED <<previous, composeEnv, app, host>>

SetEnv(w) ==
    /\ job[w].pc = "env"
    /\ composeEnv' = EnvOf(job[w].target)
    /\ GoOn(w, "up")
    /\ UNCHANGED <<current, previous, app, host>>

FailsLinking(w) ==
    /\ "link" \in Faults
    /\ job[w].pc \in {"previous", "current", "env"}
    /\ ExitFailed(w)
    /\ UNCHANGED <<selection, host>>

(* docker compose up -d --no-build app.  When it fails set -e leaves the      *)
(* function before the EXIT trap runs: the trap's variables, local to the     *)
(* function, are gone, and set -u ends the trap at the first of them.         *)
Up(w) ==
    /\ job[w].pc = "up"
    /\ \/ app' = EnvOf(job[w].target) /\ GoOn(w, "probe")
       \/ "up" \in Faults /\ app' \in {app, None} /\ ExitFailed(w)
    /\ UNCHANGED <<current, previous, composeEnv, host>>

(* wait_for_app three times; die runs the EXIT trap inside the function *)
Probe(w) ==
    /\ job[w].pc = "probe"
    /\ \/ Exit(w)
       \/ "probe" \in Faults /\ GoOn(w, "linkBack")
    /\ UNCHANGED <<selection, host>>
-----------------------------------------------------------------------------
(* restore_app: current first.  Without an old release both are removed; an   *)
(* old legacy release whose compose.env was never kept ends the wrapper.      *)
LinkBack(w) ==
    LET old == job[w].found.current
        refused == old # None /\ ~Deployable(old) IN
    /\ job[w].pc = "linkBack"
    /\ \/ /\ ~refused
          /\ current' = old
          /\ composeEnv' = IF old = None THEN None ELSE composeEnv
          /\ GoOn(w, IF old = None THEN "previousBack" ELSE "envBack")
       \/ refused /\ ExitFailed(w) /\ UNCHANGED <<current, composeEnv>>
    /\ UNCHANGED <<previous, app, host>>

FaultyEnvBack(w) ==   \* compose.env keeps naming the release that failed
    /\ job[w].pc = "envBack"
    /\ GoOn(w, "upBack")
    /\ UNCHANGED <<selection, host>>

EnvBack(w) ==
    /\ job[w].pc = "envBack"
    /\ composeEnv' = EnvOf(job[w].found.current)
    /\ GoOn(w, "upBack")
    /\ UNCHANGED <<current, previous, app, host>>

(* Under restore_app || true a failing command is passed over. *)
UpBack(w) ==
    /\ job[w].pc = "upBack"
    /\ \/ app' = EnvOf(job[w].found.current)
       \/ "restore" \in Faults /\ app' \in {app, None}
    /\ GoOn(w, "probeBack")
    /\ UNCHANGED <<current, previous, composeEnv, host>>

(* A die in restore_app exits the shell, whatever stands after it. *)
ProbeBack(w) ==
    /\ job[w].pc = "probeBack"
    /\ \/ app # None /\ GoOn(w, "previousBack")
       \/ "restore" \in Faults /\ ExitFailed(w)
    /\ UNCHANGED <<selection, host>>

(* restore_previous_link *)
PreviousBack(w) ==
    /\ job[w].pc = "previousBack"
    /\ previous' = job[w].found.previous
    /\ ExitFailed(w)
    /\ UNCHANGED <<current, composeEnv, app, host>>
-----------------------------------------------------------------------------
(* The wrapper is killed, or the host loses power: no trap runs. *)
Dies ==
    /\ "dies" \in Faults
    /\ job' = [w \in Wrappers |-> Idle]
    /\ lock' = None
    /\ app' \in {app, None}
    /\ UNCHANGED <<current, previous, composeEnv, host>>

(* domain-map.service: current's Compose file with the image of compose.env *)
Boot ==
    /\ app = None /\ lock = None
    /\ current # None /\ composeEnv # None
    /\ app' = composeEnv
    /\ UNCHANGED <<current, previous, composeEnv, host, lock, job>>

Step(w) ==
    \/ Publish(w) \/ Pull(w) \/ Backup(w) \/ BackupImpossible(w) \/ Migrate(w) \/ FailsBefore(w)
    \/ LinkPrevious(w) \/ LinkCurrent(w) \/ SetEnv(w) \/ FailsLinking(w) \/ Up(w) \/ Probe(w)
    \/ LinkBack(w) \/ EnvBack(w) \/ UpBack(w) \/ ProbeBack(w) \/ PreviousBack(w)

Next ==
    \/ \E w \in Wrappers :
        \/ Step(w)
        \/ \E b \in Builds \ {LegacyBuild} : BeginApply(w, b)
        \/ \E n \in Names : BeginRollback(w, n)
    \/ Dies
    \/ Boot

Spec == Init /\ [][Next]_vars
-----------------------------------------------------------------------------
Pcs == {"idle", "failed", "publish", "pull", "backup", "migrate", "previous", "current", "env",
        "up", "probe", "linkBack", "envBack", "upBack", "probeBack", "previousBack"}

Founds == [current : Names \union {None}, previous : Names \union {None},
           composeEnv : Builds \union {None}, app : Builds \union {None}]

(* Types, and: who works holds the lock. *)
DeployTypeOK ==
    /\ releases \in [Names -> Builds \union {None}]
    /\ current \in Names \union {None} /\ previous \in Names \union {None}
    /\ composeEnv \in Builds \union {None} /\ app \in Builds \union {None}
    /\ schema \in Nat /\ began \in Nat /\ dumps \subseteq Nat /\ legacyEnv \in Builds \union {None}
    /\ lock \in Wrappers \union {None}
    /\ job \in [Wrappers -> [pc : Pcs, build : Builds \union {None},
                             target : Names \union {None}, found : Founds]]
    /\ \A w \in Wrappers : job[w].pc \in {"idle", "failed"} \/ lock = w

(* A database that is not as the latest apply found it can be put back: a     *)
(* dump of what that apply found has been made since it began, also when a    *)
(* migration broke off half way, the wrapper died or an earlier attempt had   *)
(* stopped between two migrations (apply: run_backup before the migration     *)
(* image; one wrapper at a time).                                             *)
DumpBeforeMigration == schema # began => began \in dumps

(* Nothing that is selected, to be gone back to, configured for the next boot *)
(* or running needs a migration the database lacks - after any crash, failed  *)
(* switch or failed restore, as long as releases are not picked by name.      *)
SelectedIsMigrated ==
    \A b \in {Holds(current), Holds(previous), composeEnv, app, legacyEnv} :
        b # None => Needs[b] <= schema

(* The host as it was before the switch that is under way, if one is *)
Switching == lock # None /\ job[lock].pc \in {"current", "env", "up", "probe",
                                              "linkBack", "envBack", "upBack", "probeBack", "previousBack"}
Settled(now) == IF Switching THEN job[lock].found ELSE now

Promise == INSTANCE ReleaseSwitch WITH
    published <- releases,
    selected <- Settled(Found).current,
    fallback <- Settled(Found).previous,
    configured <- Settled(Found).composeEnv,
    serving <- Settled(Found).app

(* apply and rollback switch as a whole or leave everything as it was, and    *)
(* published releases never change, whatever fails before the switch and      *)
(* whichever probe the new release fails (deploy/README.md, the release flow). *)
AllOrNothing == Promise!Spec

(* "If the new app fails its health gate after a successful migration, the    *)
(* wrapper restores the previous application release/image."                  *)
FailedSwitchIsRestored ==
    \A w \in Wrappers : job[w].pc = "failed" => current = job[w].found.current

(* "previous -> previous application release": at rest the release to go back *)
(* to is not the one that is current.                                         *)
PreviousIsNotCurrent == lock = None /\ current # None => previous # current

(* "Atomically switch current and compose.env": at rest they name the same    *)
(* image, so a boot starts the current release.                               *)
SwitchIsAtomic == lock = None => composeEnv = Holds(current)

(* "workflow_dispatch is kept for the first rollout": with nothing failing,   *)
(* no deployment fails, on a host that never had one either.                  *)
FirstRolloutSucceeds == \A w \in Wrappers : job[w].pc # "failed"

(* "select a retained release explicitly": every retained release has an id   *)
(* that stands for it alone.                                                  *)
EveryReleaseIsSelectable ==
    \A n \in Names : releases[n] # None => \E s \in Names : Resolves(s) = {n}
=============================================================================
