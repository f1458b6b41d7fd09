# Verification of JobMap

JobMap is a map of places: jobs of companies ("work" mode) and points of interest of a city
("domain" mode), with an AI assistant that answers questions about both. The browser application and its
server are one Next.js program (`src/server`), with a PostgreSQL schema (`src/db`), a host with a
deployment wrapper (`src/deploy`), and an offline crawler (`src/crawler`).

This directory holds TLA+ models of the parts whose correctness depends on the order in which things
happen, the TLC configurations that check them on small instances, and proofs, checked by TLAPS, that hold
for every value of the constants.

    tlasany M.tla                         parse
    tlc -workers 2 -config X.cfg M        check a configuration (the tables below pair X and M)
    tlapm M_proofs.tla                    check the proofs of M

`PROJECT.json` is the machine-readable index: components, runs, which source lines each definition stands
for (`map`), a mutated definition for each property that makes it fail (`mutants`), findings, hazards,
theorems. Definitions named `Faulty...` are those mutations; nothing uses them.

## 1. The system

| Component | State it keeps | Operations | Talks to | What is hard | What makes it correct |
|---|---|---|---|---|---|
| Map engine lifecycle: `hooks/use-map-engine.ts`, `lib/map-engine/{mount,switch}.ts` | the live view, the engine, the session preference, mount and switch counters | first mount with fallback, 25 s watchdog, retry, switch, rollback, StrictMode hand-over, unmount | engine adapters (await), search provider, layers panel | mounts and switches overlap in one DOM container; every await may be overtaken | no leaked or doubled view, the newest request wins, honest indicator and preference |
| Viewport loader: `createViewportLoader` in `lib/viewport-search.ts` | timer, `inFlight`, `pending`, `disposed` | schedule, timer, end of a load, dispose | the load function of `use-work-viewport.ts` | events during a load, disposal at any time | the last event is answered, one load at a time |
| Catalogue load: `components/map-shell.tsx`, `hooks/use-work-viewport.ts`, `hooks/use-mode-cache-restore.ts`, `lib/mode-cache.ts` | catalogue, session cache, `noMore`, `loadingMore`, `skipFetch`, epoch, page offset | main load in pages, viewport loads, mode switch, query, filters, load more, refresh, retry, restore, reload | the loader above, the POI and job services, `sessionStorage` | effects of one render run in source order; two kinds of loads write one catalogue | modes never mix, put-off work is done later, every camera move is answered |
| Agent chat run: `app/api/agent/chat/route.ts`, `lib/agent/{run-agent,llm-provider,chat-messages,public-sse}.ts` | the conversation, an event queue, timers and attempts, what the client was sent | turns with tool calls, retries, fallback without tools, history trimming, abort | the LLM (streamed), tools, the browser (SSE) | three parties wait for one another; failures meet queued events | one terminal event, bounded cost, well-formed history, an end |
| Deployment: `deploy/domain-map-deploy.sh`, `deploy/domain-map-backup.sh`, `db/scripts/{apply,preflight}.sh` | release directories, symlinks, `compose.env`, container, schema, dumps, lock | apply, rollback, trap, boot | GitHub workflow, operator, systemd, Docker, PostgreSQL | any command may fail, the host may lose power between two of them | all or nothing, dump before migration, nothing selected without its schema |
| Agent panel, streams, sessions and map executor: `components/agent-panel.tsx`, `components/agent-map-executor.ts`, `lib/agent-{stream-store,session-store,panel-state,map-bridge}.ts` | the turn and its stream, stored messages, the executor's stacks, overlays on the map | send, stop, undo, clear, replay, open, close; map actions, routes fetched before they are drawn | agent chat run (events), map view, `localStorage` | the end of an interrupted turn, or a late route, meets the next turn | turns stay apart, what is stored is what is shown cut to a session's limits, undo takes back what was done |
| Route planning: `lib/navigation/{route-service,route-artifacts,compare}.ts` | provider attempts, route artifacts, the cursor of a comparison | plan, time-out, fallback, store, evict, compare | providers, agent tools | answer, time-out and abort at once; workers share a cursor | one outcome per plan, ceilings respected, a comparison ends |
| One-time codes: `issueOtp`, `consumeOtp` in `lib/account-store.ts`, `lib/session-store.ts`, `lib/bounded-rate-store.ts` | codes in memory and in the database, a guard in the process | send, verify, lock, restart | database, mail, SMS | the guard is read before and written after a transaction | a code is used once, only the last, attempts are limited |
| Accounts: `upsertIdentity`, `bindPhone`, `bindEmail` and the sessions in the same files | users, identities, sessions, in the database or in memory | sign in by code, OAuth identity or password, register, bind, sign out | database | two kinds of rows lead to a user; a commit may be taken for a failure | a contact leads to who holds it |
| Markers: `hooks/use-poi-map.ts`, `lib/map-markers.ts`, `lib/map-engine/icon-preflight.ts` | the controller of a view, markers, caches of logos | render, disconnect, connect, sync, select; images tried and fetched | map view, network, the page | a controller outlives its effect; views die; logos come late | the map shows what the page asks for, nothing is left behind |
| Search suggestions: `hooks/use-search-state.ts` | the list, two timers, requests in flight | type, select, change mode, move, engine ready | `/api/suggest`, engine search | four kinds of answers write one list | what is shown answers what is asked now |
| Bounded caches, saved layer, guest history, profile | entries with time and use, local history | get, put, evict, merge at login | request handlers | eviction against refresh | never over the limit |
| Server catalogue, recruitment import, geocoding, crawler | database rows and files | queries and batches | database | little: one statement or one transaction each | contracts of pages and totals |
| Engine adapters, OAuth, mail and SMS clients, UI, texts | - | - | external services | external | - |

`PROJECT.json` lists all of them, and under `hazards` each place that a test would hardly reach.

## 2. Modules

| Module | What it is |
|---|---|
| `MapEngineLifecycle` | the map engine hook with its mount chains and switches |
| `MapEngineViews` | the lifecycle with a note of the views a failed switch has dropped: `NoOrphan`, `OneViewWhenQuiet` |
| `MC_MapEngine` | two or three engines, two kinds of fairness, the two liveness properties |
| `MapEngineLifecycle_proofs` | types, `SpinnerHonest`, `PreferenceFollowsLanding`, `NewestIntentWins`, `LoadPhaseKeepsView`, `NoOrphan`, `OneViewWhenQuiet`, `LoadFailureReturnsLiveView` |
| `CoalescedLoads` | abstract: what a debounced loader promises, without timers |
| `ViewportLoader` | `createViewportLoader`; implements `CoalescedLoads` |
| `MC_ViewportLoader` | with numbered events, so that it can be said which event a load answers |
| `SearchSuggestions` | `useSearchState`: the question's timer and requests, the move's timer and request |
| `MC_CameraMoves` | a move of the map sets off both the viewport loader and the suggestions |
| `CatalogLoad` | main load, viewport loads, cache and user; composes `ViewportLoader` (`INSTANCE`) |
| `MC_CatalogLoad` | with a note of unanswered camera moves; also the promises the code does not keep |
| `CatalogLoad_proofs` | `NoMixing`, `SkipFetchIsDue` and four lemmas of the catalogue's bookkeeping |
| `AgentRun` | route, generator, event queue and LLM client of one chat |
| `MC_AgentRun` | three kinds of dialogues |
| `MapExecutor` | the executor of the agent's map actions: throttle, stacks, routes fetched first, undo, clear |
| `AgentPanel` | turns, stream store and stored session of the panel; composes `MapExecutor` (`EXTENDS`) |
| `MC_AgentPanel` | two turns with three events |
| `Agent_proofs` | of `AgentRun`: `TerminalIsLast`, `NothingSentAfterLeaving`, `RequestsBounded`, `HistoryIsSound`; of `AgentPanel` and its `MapExecutor`: `UndoTakesBack`, `TurnStateIsItsOwn`, `StoredFollowsShown`, `EarlierTurnsAreFrozen` |
| `ReleaseSwitch` | abstract: publish, and switch as a whole |
| `Deploy` | the wrapper command by command; implements `ReleaseSwitch` under the faults it handles |
| `MC_Deploy` | two commits, a legacy release, a build with migrations |
| `RouteArtifacts` | the store of route geometries with its two budgets |
| `RoutePlanning` | `planRoute` over providers, and the workers of a comparison; composes `RouteArtifacts` |
| `MC_RoutePlanning` | a comparison of three destinations beside a single plan |
| `RoutePlanning_proofs` | types, `BudgetsAreKept`, `ArtifactsAreAnswered`, `NothingAfterLeaving` |
| `OneTimeCodes` | the codes of one target: guard, memory, database |
| `MC_OneTimeCodes` | two requests at once, symmetric |
| `OneTimeCodes_proofs` | `SingleUse`, `OnlyTheLatest`, `AttemptsAreBounded` |
| `Directory` | abstract: what accounts promise of a verified contact |
| `Accounts` | users, identities and sessions; without a database it implements `Directory` for phone numbers |
| `MC_Accounts` | two phone numbers, two addresses, one OAuth account, one user name |
| `Accounts_proofs` | `HolderSignsIn`, `ContactsAreKept`, the refinement of `Directory` |
| `RemoteIcons` | what a tab knows of remote logos: pure operators over its caches |
| `MarkerController` | the marker controller on a label layer: pure operators over a world |
| `PoiMap` | the hook that keeps markers in step with the page; composes the two |
| `MC_PoiMap` | two companies, two places, caches of one entry |
| `MapPage_proofs` | of the loader `NobodyForgotten` and the refinement; `SuggestionsAreCurrent`; of `PoiMap` `NothingLeftBehind`, `MapShowsThePage`, `RecordsMatchTheMap`, `LogosStay` |
| `Deploy_proofs` | types and lock, `DumpBeforeMigration`, `SelectedIsMigrated`, the refinement |

### How actions correspond to the code

*MapEngineLifecycle.* An action is the code between two awaits. A mount chain or a switch is a record with
the stage it waits in: `load`, `create`, `rollback` wait for the engine; `landing` waits only for the
microtask in which the hook takes the result, so no event, timer or effect runs meanwhile
(`TaskBoundary`). A view is named by its creator, and `live` holds those not destroyed. A click during a mount
and a retry during a switch are always possible: `isSwitching` stays false during a mount, and the retry button
does not ask for it. `Overlaps` names what else the environment does: a StrictMode reconnect during a mount or a
switch, and a call of `switchEngine` during a switch. Only the last is what the layers panel prevents
(`layers-panel.tsx:81`); the hook itself does not. `MapEngineViews` adds the history variable `forgotten`: the views that
the end of a failed newest request took off `viewRef` alive and without a delayed destruction (`use-map-engine.ts:328` and
`:283`, section 4).

*ViewportLoader.* One action for each of `schedule`, the debounce timer (in two: the delay passes, the
timer fires), the `finally` of a load, `dispose`. The early return of `schedule` during a load and the
check of `inFlight` in `runPending` are each enough without the other.

*CatalogLoad.* An action is a browser task with the effects React runs after it, in source order
(`Render`: category effect, main effect, `[filters]` effect). `starting` marks the microtask in which a
viewport load begins and comes before every other task. A place is its mode, topic (search text or
category), view and page, so merging by id is union and "whose place is this" can be asked. A category load
is the paged loop of an in-city view, which ignores the offset. `ViewportDelayPasses` waits for the main
timer, since 80 or 300 ms that started before end before 800 ms that started after. The guards of `NeedMore`
and `Retry` are those of the list that offers them (`poi-list.tsx`, `secondary-sidebar.tsx`). The constants
`Operations` and `Faults` select what a configuration lets the user and the requests do.

*AgentRun.* An action is one task, or one turn of the generator with the route's handling of what it
yields. Tasks wait until the generator is `Quiet`, except the ends of a stream that come in the task of its
last chunk. `text` and `calls` remember which request streamed what. The overall timer is enabled only
while an attempt has streamed: three first-packet time-outs with their backoffs stay below 120 s. The
checks of `aborted` around tool calls, and the budget check after the loop, cannot be reached through
this route and are left out.

*Deploy.* An action is one command that changes what another command, a boot or an operator can see, with
the checks before it. A build is a pair of image digests; a directory is named by its commit or by its
build. The bash rules matter and are modelled: `set -e` unwinds the function and its locals before the
`EXIT` trap, `die` exits inside it; under `restore_app || true` a failing command is passed over while
a `die` ends the shell; a signal runs the trap with status 0, which restores nothing, so it is part of
`Dies`. The lock is taken with `flock -n`, which never waits. `began` and `dumps` only observe: what an
apply found in the database, and what has been dumped since.

*SearchSuggestions.* A user's action is a browser task with the two effects React runs after it. A callback in flight
is a record with the question it was made for; `live` is its closure's `cancelled`, so a cancelled one is kept and its answer does
what the code does with it. `far` is what the timer of the last move will ask. Readiness of the engine is a
boolean: a switch of engines is lost and made again. Suggestions are their question, the place their distances are
measured from, and who gave them.

*MapExecutor and AgentPanel.* An action of the agent is its kind and a number. A route is drawn when its fetch
returns, by then perhaps for another view or after an undo. `AgentPanel` has one action per handler of the panel and
one per kind of event of an answer; an event is the whole effect on the stream store, the message and the executor.
The run that reads the answer notices an abort only later, so its end can fall into the next turn. What is shown and what is
stored differ: `Normalized` cuts a message's text, tools and cards and drops its `data:` images, as `normalizeMessage` does,
while the screen keeps them until the panel is closed; `saveMessages` (`Saved`) normalises all messages, `appendMessage`
(`SavedWith`) only the new one. The last event of a run is done, an error of the turn, or an error whose code `handleError`
passes on to the route's notice; the turn then ends with neither mark.

*RoutePlanning and RouteArtifacts.* The race of answer, time-out and abort is settled in one step and read in a later one, as
`callerAborted` is read after the await. An artifact is its id, its session, its points and its expiry; the store is a set of
them, because the ids are issued in the order of the `Map`. Workers take destinations from a cursor.

*OneTimeCodes.* A request runs up to its database call, the call takes effect, fails, or takes effect and is
reported as failed, and the request goes on; everything in between is another request's. The clock ticks;
`ShortCalls` says that no database call lasts a tick. The guard's two lists of times are sets: a send has a tick of its own (the
cooldown keeps sends apart), a wrong attempt a tick and a number.

*Accounts.* A transaction is one step that may fail, or commit and be taken for failed. The refinement maps the
identities of memory mode to the holder of each number; with a database the directory stutters, because signing in with a
number that was given up brings it back there (section 4).

*MarkerController and PoiMap.* The controller's methods are pure operators over a record `world`; `PoiMap` applies them
in the order the hook's effects do. Between renders come zero-delay timers, camera ends, dying views and the outcomes of
images. A wrapper has a number of its own, because the code compares wrappers after an await. Intermediate results
are passed as arguments of small operators (`Recorded`, `UpgradeTo`, `Swept`, ...), one per use. What the code does in a
loop is `Along` a sequence, a recursive function; `ForEach` goes through the POIs in the order of the lists. A new wrapper takes
any number not in use.

## 3. Runs

Twelve runs, each a question of its own; every property has a mutant that breaks it. All are expected to pass.

| Run | Module, configuration | Question |
|---|---|---|
| `engine_overlaps` | `MC_MapEngine`, `_overlaps` | with every overlap: `SpinnerHonest`, `PreferenceFollowsLanding`, `NewestIntentWins`; and `MountIsBounded` although engines may never answer |
| `engine_panel` | `MC_MapEngine`, `_panel` | with every overlap but a call during a switch: `NoOrphan`, `OneViewWhenQuiet`, `LoadFailureReturnsLiveView`, and `UnmountFreesAll` |
| `camera_moves` | `MC_CameraMoves` | `NobodyForgotten`, `EventsAnswered`, the contract `CoalescesLoads`; `SuggestionsAreCurrent` |
| `catalogCore` | `MC_CatalogLoad`, `_core` | `NoMixing`, `SkipFetchIsDue`, `MovesAreAnswered` |
| `agentCore` | `MC_AgentRun`, `_core` | `TerminalIsLast`, `RequestsBounded`, `HistoryIsSound`, `NothingSentAfterLeaving`, `ChatEnds` |
| `agent_panel` | `MC_AgentPanel` | `TurnStateIsItsOwn`, `StoredFollowsShown`, `UndoTakesBack`, `EarlierTurnsAreFrozen` |
| `routes` | `MC_RoutePlanning` | `BudgetsAreKept`, `ArtifactsAreAnswered`, and `ComparisonsEnd`, whole |
| `one_time_codes` | `MC_OneTimeCodes` | `SingleUse`, `OnlyTheLatest`, `AttemptsAreBounded` |
| `accounts` | `MC_Accounts` | `HolderSignsIn`, `ContactsAreKept`, and the refinement `MemoryIsADirectory` |
| `markers` | `MC_PoiMap` | `NothingLeftBehind`, `MapShowsThePage`, `RecordsMatchTheMap`, `LogosStay` |
| `deploy_core` | `MC_Deploy`, `_core` | the refinement `AllOrNothing` |
| `deploy_faults` | `MC_Deploy`, `_faults` | `DumpBeforeMigration` and `SelectedIsMigrated` under every fault |

Each module also has a type invariant (`TypeOK`, `CatalogTypeOK`, `PanelTypeOK`, ...) and smaller invariants that hold under the
same constants and can be added to the configuration: `PutOffRefreshIsHeld`,
`MainLoadUndisturbed`, `WorkStartsAtFirstPage`, `OneOwnLoad`, `ClosedWithTerminal`, `NoHalfAnswerKept`,
`RequestsAreAcceptable`, `LoadPhaseKeepsView`, `SendsAreSpaced`, `OldestGoFirst`, `NothingAfterLeaving`,
`FailuresAreRemembered`.

### Bounds and why they are enough

- Map engine: two engines (`overlaps`) make a fallback, a switch and a rollback to the other one possible;
  `panel` has three, so that a fallback has a choice. `MaxGen = 2` is an overtaken and an overtaking request, `MaxSeq = 2` a
  cancelled mount chain and its successors; the defects found need no more than two requests and four chain numbers.
- Camera moves: four moves and actions at the search box together; after its third event the loader can only repeat
  itself, and a late answer needs two questions, a late distance two places.
- Catalogue: four user operations in any order, two views, two pages, one query and one category, an
  offset up to 1. The recorded defects need one to five operations. The pages matter as first and last; the
  views as same and different.
- Agent: three turns (the last has to answer), one retry, six events of output so that the budget is
  reached in the middle of a second answer, a history limit of 4 that makes the trimming happen at the
  first, the second or no turn; attempts stream at most two events in chunks of one or two, which gives a
  terminal event in the chunk of a delta and two calls in one answer.
- Agent panel: two turns, one interrupted by the other, three events over both, a panel opened twice, two map actions
  and a view that is lost; a message cap of two, so that the oldest message is dropped; one piece of text and one card to a
  stored message, so that an answer of two pieces or two cards is cut when it is stored. (A message has at most one tool, since an
  event after a tool begins another message; the cap on tools is in the model and never cuts.)
- Routes: three destinations for two workers, two providers (none is registered in the shipped configuration; a
  plan then goes straight to its estimate), routes of one point, of two and of more than the store's budget of three.
- One-time codes: two requests at once, three codes, limits of one or two ticks and attempts, a clock of five ticks, so that every
  window, lock and life ends within a run; one restart.
- Accounts: two users are enough for a clash of contacts, two numbers for an exchange.
- Markers: caches of one entry make every entry fall out at the next; three wrappers per POI leave room for one that waits
  for its logo while its successor is drawn; two views, two pending timers, so that a
  second disconnection meets the timer of the first, one refusal, four renders. The logo
  of one company may fail; the other company is the one that is selected, hidden and refused.
- Deploy: two overlapping wrappers, without (`core`) and with every fault (`faults`), two commits, a build
  of one commit beside the legacy release, a build with two migrations more, each a step of its own, so that the
  wrapper may fail or die between them and a later one finds the database half way. Wrappers are symmetric; no
  liveness is checked there.

`CHECK_DEADLOCK FALSE` stands where the system may really come to rest: a map nobody touches, a chat that
has ended, a catalogue whose user has used up the bound. `Deploy` never stops: another deployment can begin.

### Fairness

- `engine_overlaps` assumes of the engines nothing at all: only that microtasks run and that the
  watchdog's timer fires. `engine_panel` adds that loads and creations settle, which the adapters' script
  time-outs ensure, and that the zero-delay destroy timer fires.
- `camera_moves`: the loader's timers fire and a load settles (its requests have time-outs); nobody has to move the map.
  Of the suggestions nothing is assumed.
- `routes`: the time-outs of a plan fire and workers go on. Providers and callers owe nothing.
- `catalogCore`: microtasks and timers run, requests are answered or fail. Not assumed: that the map becomes
  ready, that the user is located, that anybody acts.
- `agentCore`: the generator's turns are microtasks, timers fire, an aborted fetch rejects, a tool returns
  (each has its own time-out). The LLM server and the client owe nothing: a server may fall silent after
  any packet.

Fairness is stated per mount chain, request or timer, over finitely many of them, never as strong fairness.

### What excuses a property has, and why

- `NoOrphan`, `OneViewWhenQuiet` and `UnmountFreesAll` excuse the views in `forgotten`, which a failed switch has
  dropped alive in one of the two places section 4 shows, and nothing else: without either of the two cases in
  `DroppedNow` TLC finds `NoOrphan` violated.
- `LoadFailureReturnsLiveView` holds while nobody calls `switchEngine` during a switch; such a call breaks it (section 4).
- `ChatEnds` is required of behaviours without an attempt that began after its cancellation (`Escaped`) and without a
  lost failure (`FailureLost`): these are the defects described below, and the property says there are no others.
- `MovesAreAnswered` excuses a move that an engine switch comes between (the new loader only aligns with the
  cache) and one whose topic is closed or changed meanwhile.
- `SuggestionsAreCurrent` lets old suggestions stand while a question is under way, or, in domain mode, while there is no
  engine to ask (`Waits`); distances of the engine's own suggestions are excused, see `DistancesAreCurrent` below.
- `AttemptsAreBounded` and `OnlyTheLatest` hold while no database call outlasts a tick (`ShortCalls`), see below.
- `HolderSignsIn` and `ContactsAreKept` speak of a process with a database, except that a sign-in always leads to a user who
  holds the contact.
- `MapShowsThePage` speaks of an attached controller on a living view, and of a pool that the layer has not refused.
- `SelectedIsMigrated` is checked and proved for `rollback` without an id. A rollback by name accepts
  a release whose migration never ran; the documents promise nothing there.
- `AllOrNothing` holds for failures before the switch and of the new release's probe, on a host that has a
  release. Failures of the linking commands, of `compose up`, of the restore, and power losses break it, as the
  configurations below show; `SelectedIsMigrated` is what remains under all of them.

## 4. Where the code differs from what it says

Each disagreement is a property that TLC finds violated. The runs all pass; the configurations here are kept beside
them, or differ from a kept one by the constants or the property named.

| Configuration | Property | What happens |
|---|---|---|
| `MC_MapEngine_orphan` | `NoDoubleInstance` | a switch that fails after a concurrent mount has landed forgets the mounted view; the next mount makes a second instance in the container (`use-map-engine.ts:328`). With `"reconnectDuringSwitch"` the landing of a rollback does the same: it overwrites the view a mount has landed (`:283`, without the destruction of `:294-300`) |
| `MC_MapEngine_panel` | `SearchMatchesView` | a rollback that lands after a StrictMode reconnect has begun a mount puts its view on screen and leaves the engine and its search to those of that mount (`:283`, against `:307`) |
| `_orphan` with `MaxSeq = 4`, `Overlaps = {"reconnectDuringMount", "clickDuringSwitch"}` | `LoadFailureReturnsLiveView` | a switch whose load fails keeps its old view although an overtaken switch has destroyed it (`switch.ts:158`, against `:11`) |
| as the line before | `ErrorOnlyWithoutView` | a mount that fails after a switch has landed sets the error over a live view (`use-map-engine.ts:437`, against `:285`) |
| as the line before | `RetryOnlyWhenIdle` (property) | a cancelled chain's `finally` makes the newer chain look idle (`:444`, against `:113-114`) |
| `MC_CameraMoves` | `DistancesAreCurrent` | the engine's answer carries distances to where the map was when the server was asked; if the answer to the move came before it, they stay (`use-search-state.ts:166`, against `:12-13`) |
| `MC_CatalogLoad_wanted` | `WantedIsLoaded` | a load of new parameters is dropped while the cancelled load of the old ones has not returned; nothing restarts it (`map-shell.tsx:1021`) |
| `MC_CatalogLoad_whole` | `ExhaustedWorkIsWhole` | a mode left during its full load is cached in part and restored as complete (`:2054`) |
| `MC_CatalogLoad_pool` | `PoolOnlyGrows` | a main load overwrites what a viewport load merged after its start (`:1053`, against `use-work-viewport.ts:9`) |
| `_pool` with `Categories = {"c"}`, `MaxOperations = 5`, `Operations = {"mode", "filter", "query", "move", "more", "refresh", "reload"}`, `Faults = {"empty"}` | `MoreIsReleased` | the return at the cache check keeps `loadingMore` set (`:1034`, against `:1173-1174`) |
| as the line before | `ClosedGateStaysEmpty` | a late batch of a cleared search fills the empty catalogue (`use-work-viewport.ts:219`, against `map-shell.tsx:1105`) |
| as the line before | `RestoredIsShown` | after a reload a restored category looks like a new one and is cleared (`:978`, against `:2050`) |
| as the line before | `RestoredIsAligned` | the `[filters]` effect rewrites the cached view before it is compared (`:1214`, against `use-work-viewport.ts:300-302`) |
| `_pool` with `Operations = {"mode", "query", "refresh", "more"}`, `Faults = {"empty"}` | `NoMoreIsOfThisMode` | a cancelled domain load takes back `noMore` of a restored work catalogue (`:1146`, against `use-mode-cache-restore.ts:68`) |
| `MC_AgentRun_lost` | `FailureEndsTheChat` | an error of the last attempt is dropped when events are queued; the response never ends (`run-agent.ts:110`) |
| the same, `MaxTurns = 2` | `OneAttemptPerRound` | an error behind the first packet is retried and the answer starts again behind its own beginning (`llm-provider.ts:301`, against `:12`) |
| as the line before | `NoRequestAfterAbort` (property) | an abort in the backoff is followed by a request (`:151`, against `agent-llm-provider.test.mjs:484`) |
| as the line before | `NoAttemptPastTheLimit` (property) | the 120 s limit reached in the backoff does not limit the next attempt (`:165`, against `:11`) |
| `MC_AgentPanel` | `ToolBarIsLive` | a turn stopped while a tool runs keeps the tool's name in the bar (`agent-stream-store.ts:42`) |
| `MC_AgentPanel` | `ClearScreenClears` (property) | overlays drawn before the panel was closed belong to a dropped executor; clearing the screen leaves them (`agent-panel.tsx:500`) |
| `MC_OneTimeCodes_limit` | `DailyLimitHolds` | the guard is dropped a fixed time after it was made, used or not, and its sends are forgotten with it (`bounded-rate-store.ts:29`, `account-store.ts:132`) |
| `MC_OneTimeCodes` with `ShortCalls = FALSE` | `AttemptsAreBounded`, `OnlyTheLatest` | a database call that outlasts a cooldown or a lock lets requests through that the guard meant to keep apart |
| `MC_RoutePlanning` | `NoHoles` | an abort leaves holes in the matrix, whose type has none (`compare.ts:274-275`) |
| `MC_Accounts_clash` | `OnlyEmailClashes` | a user who has exchanged the number by `bindPhone` signs in with the new one: the row was made for the old number and is not found, and a new row meets the unique index of phone numbers, every time; the comment at `account-store.ts:400` expects clashes of addresses only |
| `MC_PoiMap` | `HighlightIsShown` | `select` forgets the highlight of its POI; deselected, it is drawn as normal although it is still highlighted (`map-markers.ts`, interface) |
| `MC_PoiMap` with two candidates for the logo of `p`, `<<"a", "b">>`, and `MaxResults`, `MaxInlined`, `MaxFetching` of 2 | `FirstLogoStays` (property) | two upgrades of one marker wait for different URLs; both find their wrapper, and the one that comes last draws its logo, the second-best one perhaps (`map-markers.ts:957-964`, against `:974`) |
| `MC_Deploy_up` | `FailedSwitchIsRestored` | when `compose up` itself fails the trap's variables are gone, and nothing is restored (`domain-map-deploy.sh:434`) |
| the same, `Faults = {"before", "probe"}`, `Commands = {"apply", "select"}` | `FailedSwitchIsRestored` | a release published by an `apply` that failed in its pull is selected while the legacy release is current; no `compose.env` has been kept there, `restore_app` ends at `assert_legacy_release`, and the failing release stays (`:363`, against `:495`) |
| the same, `Faults = {"probe", "restore"}` | `PreviousIsNotCurrent` | a probe that fails in the restore ends the shell before `previous` is put back (`:434`, against `deploy/README.md:93`) |
| the same, `Faults = {"dies"}` | `SwitchIsAtomic` | a wrapper that dies between two renames leaves `current` and `compose.env` apart (`:430`, against `deploy/README.md:161`) |
| the same, `Faults = {}`, `Installed = {None}` | `FirstRolloutSucceeds` | without a current release the backup fails, so no first rollout can succeed (`:420`, against `deploy/README.md:23`) |
| the same, `Faults = {}`, `Installed = {built}`, with a second build and `"select"` | `EveryReleaseIsSelectable` | the release in the commit's own directory cannot be named once the commit has a second build (`:163`, against `deploy/README.md:182-185`) |

### Seen while reading

- `layers-panel.tsx` says the preference is kept in `localStorage`; it is in `sessionStorage`.
- `use-map-engine.ts:14-15` describes clicks during a switch that `layers-panel.tsx:81` does not let through.
- The guard of the epoch in the main load is never false (`MainLoadUndisturbed`: no viewport load begins
  during a main load), and among viewport loads it is implied by the cancelled signal. The replay of a put-off refresh
  on the `skipFetch` path never happens (`PutOffRefreshIsHeld`).
- Signing in with a number that `bindPhone` has replaced gives the old number back to its user with a database, and
  makes a new user without one. An identity's row may name another user than the one whose column holds the contact. In
  memory mode two users may have one address.
- No route provider is registered in the shipped configuration (`route-runtime.ts:21-25`).
- The clean-up of `use-poi-map.ts` keeps the accent colour of the next render (`:199-207`, against `:10`); all modes have the same
  colour today. `isAttached` asks only the adapter's own flags (`:12`, against `amap-engine.ts`). A marker whose
  making fails in `sync` is lost until the next `setPOIs`. A stored logo is not refreshed when a company's `logoUrl` changes. With two
  clean-ups pending, the first timer may end a controller that the second was to keep.
- A selected suggestion is a new question: 200 ms later its suggestions are there again.
- With a small history limit `trimHistory` deletes the user's own question and keeps its tool round
  (`agent-runner.test.mjs:400` asserts it); so no property forbids it.
- `release_path_for` never makes a directory named by the commit alone, although `deploy/README.md` calls that the usual
  id; such directories come from an earlier wrapper, and `Init` has one.
- Recruitment import (read, not modelled). A position whose external id moves to another company gets a new `site_id`
  (`recruitment-import.ts:917`) and keeps its `company_id`. Two imports of one source with disjoint companies do not
  see each other's rows when they close the absent ones (`:963`). A process that ends between the commit of the
  run rows and that of the data (`:698`, `:971`) leaves the runs `running`.

## 5. Proofs

Every theorem holds for every value of the constants that satisfies the named assumptions
(`EnginesAssumption`, `AgentBounds`, `DeployConstants`, ...), which TLC evaluates in the runs.

- **Map engine.** `TypeCorrect` needs one strengthening: a switch in its rollback stage has an old view
  (`RollbackHasFrom`). `SpinnerIsHonest` rests on `Numbered`: no request has a number above `generation`, and no two
  share one, so "the newest request" is one request. `PreferenceIsEarned` rests on `LandInv`: a view of a switch that
  is shown, kept or remembered belongs to a request that has ended (`OldRefs`), and a request that is about to
  land its target carries its own view of that target, alive (`Deciding`); hence the landing that writes the
  preference shows exactly that view. `NewestIntentAlwaysWins` adds `Overtaken`: a request that a newer one has overtaken
  is aborted, or is about to land with a view of its own making, so no newer request can carry that view. These hold for every
  kind of overlap, and so does `NothingIsOrphaned`: `NoOrphan` is inductive with the types alone, because each action that
  takes a view from its owner destroys it, dooms it, gives it to another owner or is one of the two that forget it.
  `OneViewAtRest` and `LandsAlive` assume `PanelOverlaps`, that nobody calls `switchEngine` during a
  switch, which is what `layers-panel.tsx:81` ensures; clicks during a mount, retries and reconnects at any time stay. With such a call both fail
  (section 4). `PanelInv` says why: chains are numbered apart, so a landing chain's view is nobody else's
  (`ChainsNumbered`, `LandedRefs`); there is one request (`OneRequest`), and while it may still go on it
  finds the view it started from on screen and alive (`LoadHolds`); a dead view stays on screen only while a request that nothing
  has aborted is replacing it (`Screen`); nothing lands after an unmount (`Emptied`).
- **Viewport loader.** `LoaderInv` (types and `NobodyForgotten`) is inductive as it stands.
  `LoaderCoalesces` maps every step to one of the contract or to a stutter; a timer that fires with nothing pending or
  after disposal is the stutter, and `inFlight` at the end of a load decides between `End` and `EndAndBegin`.
- **Suggestions.** `SuggestionsStayCurrent` is about `SuggestionsSpec`, the hook without the bounds of the run. An asking that
  is not cancelled asks the present question and knows the present engine (`AsksArePresent`); a blank text is never asked about
  (`BlankIsSilent`); a distance to where the map no longer is has its replacement under way (`DistancesDue`).
- **Catalogue.** `Modal` says of which mode the places are wherever they are kept: shown, cached, gathered by a main load; and
  that an offset in work mode is zero. `ModesNeverMix`, `MainLoadsAreUndisturbed` and `WorkLoadsFromItsStart` are parts of it.
  `SkipFetchIsAlwaysDue` is inductive beside it. `LoaderHasOneLoad` (`OwnInv`) relates the embedded loader to the loads of the
  page: those of earlier loaders are cancelled, and the present loader is busy exactly while its one load starts or runs.
  `RefreshWaitsForItsLoad` assumes `NoLoadIsNone`, that the value for "no load" is not the record of a load.
- **Agent.** `OneTerminalEvent`: in `SentInv` the outbox has its only terminal event at the end
  (`OutboxEndsOnce`), and once one is written the response is closed (`WrittenIsOver`). `SilenceAfterLeaving`:
  a client that is gone has aborted the upstream (`GoneIsAborted`), and every write looks at that.
  `RequestsAreBounded`: `CountInv` counts requests by turn, fallback and attempt; the fallback restarts a turn at most once.
  `HistoryStaysSound`: `ToolsInv` says that tools run only when the round is over and that each tool's message answers the call at
  its place, so the appended round is complete (`AppendedIsSound`); a front round ends at no tool message that has its
  assistant before the cut (`FrontIs`, `Apart`), so a cut leaves every answer with its call (`CutIsSound`); and a trip of the
  loop that takes nothing away is its last (`TrimmedIsSound`), by induction over the trips.
  The induction is over a set of numbers (`InductionOverNat`, from the well-foundedness of `<`): the library's own theorems take
  a predicate as a parameter.
- **Agent panel and executor** (in `Agent_proofs`, beside the run they talk to). `UndoAlwaysTakesBack`: numbers are given in order
  (`NumbersAreGiven`); a route that this executor still fetches is for the present view and has left no entry yet
  (`FetchesAreNew`), so its late entry is a new one; an entry of the camera goes back to the place of the camera entry before
  it (`CameraChain`), so popping any entry uncovers the right place; and a closed panel's executor has nothing on its stacks
  (`ClosedIsIdle`), so a new view leaves no entry behind that nothing draws. Clearing takes entries out of the middle:
  `WithoutOverlaysKeeps`, by induction over the prefixes of the stack, says that what is left is what was not an overlay, in its order.
  The theorems of the turns rest on `PanelInv` of this module: turns are begun in order (`TurnsInOrder`), and every report that the
  current turn still owes has a running tool of its own answer to settle (`ReportsHaveTools`). So a report never has to look behind the
  question of its turn, where a stopped turn may have left a tool of that name running; and what stands up to the question
  stays (`EarlierTurnsStayFrozen`), as the store keeps it (`StoredAlwaysFollowsShown`). For the latter the invariant also says that
  every stored message is already as `normalizeMessage` makes it (`NormalMessages`): a question appended to what is stored then
  gives what saving the whole screen would give (`SavedIs`), whatever the limits are.
- **Routes.** `RouteBudgets`: the store's count is the sum of the points it holds (`StoreInv`), and an insertion deletes
  the oldest until both budgets have room, which an artifact that is not refused always finds (`BudgetsInv`). The number of points of a set is the size of
  its geometry, so the sums are cardinalities and need no induction of their own. `EveryArtifactHasItsPlan`: an artifact's id was
  issued to one plan, which was answered with it for its session. `SilenceForTheGone` is about the steps between an abort and the
  end of what it interrupts. `RoutesTypes` adds that at most `Concurrency` destinations are in progress.
- **One-time codes.** `CodesAreSingleUse` (`PlaceInv`): a code is in one place at a time: with the request that issues it, in a
  row, with the request about to accept it, or accepted. `OnlyTheLatestCounts` assumes `ShortCalls`: then the
  cooldown leaves one issuing request at a time. `AttemptsStayBounded` assumes `ShortCalls` and `CodeEndsFirst`, that a code expires before
  the attempt window and the lock end (`OTP_TTL_MS` is 10 minutes, both others 15): what was counted against a valid code is then
  still in the guard, on its way to it, or has locked the target for longer than the code lives (`Accounted`).
- **Accounts.** With a database the unique indexes keep two users from one contact (`Unique`); without one the entries of
  `identities` name the holder of a number and nobody else, and of an address a user who has it (`Leads`). Phone numbers and
  addresses are different values (an assumption of the module). `MapsAreADirectory` is the refinement of `Directory` with the holder of each number
  and the last answer; a step for an address or an OAuth account is a stutter.
- **Markers.** The inductive invariant of `PoiMap` is `MapInv`. Of each POI it says that its marker is in order (`Tidy`: of
  its wrappers at most the controller's is on the layer, it is of the controller's view, known to the layer while that lives, and
  drawn as recorded), drawn in the style that the selection calls for (`Styled`), and meant to be shown exactly if it is to be
  seen (`AsWanted`). Of the page: an attached controller is of the page's view, has been told what the page asks for (`ToldOf`),
  has on a living view only what the page's mode and pool allow and everything shown that is not refused (`UpToDate`), and all
  of the pool if nothing was ever refused (`Complete`); a kept one has a timer, and without a role nothing is on the map (`Bare`).
  `NothingLeftBehind`, `MapShowsThePage` and `RecordsMatchTheMap` follow from it at once.
  The operators are proved bottom up: what each does to the marker of one POI, that it leaves the others alone (`Local`), and hence
  what it does along the list, whose POIs come once each (`IsInjective(Order)`), by the induction over a set of numbers named above.
  `LogosStay` compares two states with a whole effect between them, which may draw a marker several times, drop it and make it again. So the
  lemmas carry the state before the effect along: a logo shown then is shown now, or its marker has been taken away, and that
  only if it is refused or not of the pool (`Keeps`). A marker that is made again needs a number for its wrapper: at
  most one of those free before the effect has been used, and none while one may still be needed (`Room`), so the guards `HasRoom` of
  the actions suffice, and the `CHOOSE` in `AddWithIcon` always finds one. Nothing is assumed of the number of POIs, URLs, views or
  of the sizes of the caches but that two of these hold an entry (`CacheBounds`). `FailuresAreRememberedAlways` and
  `PoiMapTypeOKAlways`, the bounds of the caches, come with it.
- **Deployment.** `DeployTypes`: with the types goes the lock (whoever works holds it) and what a job holds at
  each command (`JobShape`). `DumpsComeFirst`: until an apply has made its dump the database is as that apply
  found it, and at the migration the dump is there (`BackedUp`); it rests on the order of the commands and on the
  lock, which keeps a second apply from beginning beside a migration. `SelectedIsAlwaysMigrated`, for every mixture of faults: `SoundInv` says that what is linked,
  configured, kept in a legacy release, running, or remembered by a job is published with its migrations applied; a
  build is never replaced in its directory (`OwnDirectory`) and the schema only grows (`Grows`).
  `SwitchesAllOrNothing` is the refinement of `ReleaseSwitch`, under `ReleaseFaults`: `WholeInv` says how far the
  switch has come at each command (`Phase`) and that outside a switch the selection is of one piece (`Whole`); a `compose.env`
  kept in a legacy release names that release's own image (`Kept`), because it is copied when the selection is whole.
  The refinement mapping shows, during a switch, what the job found at its start; the last probe is the whole switch
  at once (`SwitchEnds`; so is a restore refused for want of a kept `compose.env`), and the last command of the
  restore is a stutter.

Proved and in no run's configuration, because the other proofs use them or TLC checks them with another configuration's
constants: `TypeCorrect`, `LoadPhaseAlwaysKeepsView`, `DeployTypes`, `RoutesTypes`, `SilenceForTheGone`, `PoiMapTypeOKAlways`, `FailuresAreRememberedAlways`
and the four of the catalogue's bookkeeping.

Each inductive invariant was also checked by TLC, with the constants of its component's run.

Only model-checked is liveness under fairness (`MountIsBounded`, `UnmountFreesAll`, `EventsAnswered`, `MovesAreAnswered`,
`ChatEnds`, `ComparisonsEnd`), which TLAPS cannot prove. Every other property of a run is the statement of a theorem.

## 6. Not modelled

- In the modelled components: camera state, style and controllers of a map view; skeleton flags, caps of 1000 places,
  the session place of a picked suggestion, the distance origin, a profile's default mode; the texts,
  reasoning events of a chat, its request checks before the run, the synthesis of actions; ownership and
  format checks, the registry, the upload and the retention of dumps of a deployment; the list of sessions of the agent
  panel and what a card or an image shows; the choice of points and zoom of a map action; the checks of a route request and the ranking of a
  comparison; passwords, preferences, search history and the expiry of sessions; buckets per address and per account;
  city clusters, positions, clicks and the drawing of icons; what a suggestion opens, and the caches of suggestions.
- External: engine adapters (but for the label layer), LLM server, tools, route providers, POI and job services, Docker,
  PostgreSQL, mail and messages. They succeed, fail, or (where nothing forbids it) never answer.
- Profile, applications, saved places and memories, the merge of a guest's history: handlers with one database statement
  each. Server catalogue and POI service: queries, whose pages are external in `CatalogLoad`. Recruitment
  import: a batch in two transactions (see section 4). OAuth: its state is a signed cookie.
- Pure functions over texts and coordinates (search, filters, spatial queries, address heuristics, evaluation of
  routes), the user interface and the crawler are left to unit tests: they are sequential and keep no state between calls.
  They make up most of the source, so the models cover the concurrent tenth of it.

## 7. Plan

Done, the most concurrent component first: map engine, viewport loader, catalogue load, agent run, deployment, then agent panel
and map executor, one-time codes, accounts, route planning, markers and logos, search suggestions; with the proofs of section 5.

If more models are wanted: the shared promise of the script loader (`lib/map-engine/script-loader.ts`), the public cache over
an abstract bounded store, the paging loop of `loadWorkViewport`, the recruitment import with its
two transactions, and the merge of a guest's history.
