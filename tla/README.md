# Verification of the living history engine

TLA+ models of the parts of this repository that keep state across awaits,
requests, crashes and retries; TLC runs that check them on small instances; and
TLAPS proofs of what the runtime's storage and its server, the drafts, their proposals and copies,
access, the job records and the assistant, the assets, the releases and the published sessions, the AI
connections and the front ends promise, for every instance. The TypeScript sources are the
reference: every definition that models code is mapped to the lines it stands for
in `PROJECT.json` (`map`), every property has a mutant there (a plausible bug in the
code under which the property fails), and every hazard names the properties aimed
at it, or says why none is.

## The system

A player's action travels: player client → runtime server (`apps/server`) →
runtime storage (`packages/runtime`), with the language model asked in between.
An author's change travels: studio → control server → job, proposal and draft
stores (`packages/control`), with a model turn in between. A release ties the two
sides together: drafts become immutable releases, a pointer per quest says which
one new sessions start on, and a session stays on the release it began with. What a
turn computes — conditions, effects, the scheduler, plugins — is pure code the
runtime server calls between its awaits; what the front ends show of it is state of
their own that answers overtake.

| Component | State it keeps | Operations | Interacts with | What is hard, and what makes it correct |
| --- | --- | --- | --- | --- |
| Runtime storage (`packages/runtime`: memory and SQLite) | sessions (revision, world, active operation, fencing counter), operations per idempotency key (status, lease, token, answer), turns, guest credentials | `claimOperation`, `renewOperationLease`, `commitTurn`, `finishWithoutTurn`, `createGuestSession`, loads | service clock; called by the runtime server | leases expire under their holders, the clock is read before the write lock is obtained, counters are bounded. One owner per session; a stale holder never decides; each key is decided once; revisions, tokens and turns agree |
| Runtime action handler (`apps/server/src/server.ts`) | none of its own: a request between awaits | `handleAction`: check, claim, load, interpret, narrate, commit or finish, fail | storage, AI provider, player | retries and lost replies around every await, busy storage, crashes. Every answer a player gets for a key is the same; the world is exactly its turns |
| Published sessions (`published-*`, `authored-runtime-server.ts`) | session bindings, beside the runtime's sessions | create a session (binding first), resolve an action's release | release store, runtime storage | two stores without a common transaction; the pointer moves meanwhile; restarts change the plugins. A published session never lacks its binding and is always played on its own release |
| Authoring drafts (`packages/control`: memory and SQLite) | quests with append-only history, restore results, validations, playtests | `createQuest`, `applyDraftChanges`, `restoreDraft`, `validateDraft`, `createPlaytest` | compiler (awaited) | calls overlap while the compiler runs. No update is lost, history only grows, a restore happens once per key, a playtest is what was validated |
| Authoring proposals | reservations per key with the application recorded | preview, apply = reserve, change the draft, complete | draft store | three transactions and a crash between any two. A recorded application is true, and one key lands at most once |
| Author agent jobs | job (state, version, budget used), journal, budgeted operations | create, transition, checkpoint, reserve, complete | called by the executor and the routes | completion is not version-checked. The journal explains the job; budget per pause |
| Author assistant (`author-assistant.ts`, `author-job-http.ts`) | a segment between awaits, per-job mutex in the process, artifacts, conversation | run segment, apply, cancel, audit | jobs, proposals, drafts, model | a person applies, edits or cancels while a segment runs; crashes; a new kit after a restart. Nothing is journaled as applied that did not land, nothing twice |
| Release store and publication | releases, current pointer, events, idempotency records | create, publish, rollback | validations, plugin registry | competing publishers, retries after the pointer moved. The log explains the pointer; rollback goes where the pointer has been |
| Core scheduler (`packages/core`) | a trial queue of due events | plan and process a time advance, tasks | rules, plugins' handlers | children at the same instant, budgets, a terminal event in the middle |
| Quest copies (clone, import, export) | reservations per key | reserve, create the quest, complete | draft store | the source is edited and the destination taken between the steps. Every copy is of the revision its key pinned |
| Author conversation and artifacts (`author-conversation.ts`, `author-agent-artifacts.ts`) | messages and proposals of a job, by id and by key of the turn | journal, append, produce, answer | the segment route; jobs | three stores written one after another, with a moving draft. A message about a proposal leads to the artifact its segment stored; nothing is said twice |
| Tool broker and reference reads (`author-tool-broker.ts`, `author-tool-loop.ts`, `author-mcp.ts`) | the pin of the documents, an operation of the job | pin, authorize, reserve, ask, record | jobs; an MCP server | a timer and an abort race a late answer; restarts. The transport is asked once, and a retry is answered as recorded |
| Authored scenarios (`authored-scenario.ts`, `authored-runtime-server.ts`) | the scenario of a release; the runtime's sessions | normalise, list options, execute, the action handler | runtime storage, interpreter | conditions evaluated without short circuit, a world held across an await. The world is the scenario played with the recorded options |
| Plugin registry and execution (`packages/plugins`, `plugin-action-service.ts`) | registry, stream position | build, register, execute, handle events | scheduler, runtime | orders of listing; plugin code that catches, keeps its generator, throws. The registry depends on the set; the stream is exactly the accepted draws |
| AI connections (`packages/ai`, `local-author-provider.ts`) | a login's lease, sessions, the configured provider and its status | log in and out, rotate, open, run turns, configure | app server or model endpoint, external | answers of a former login or provider arrive late; an endpoint that never answers |
| Control server access (`control-server.ts`, `security*.ts`) | sessions, roles, counted failures | log in, authorize, set and remove members | every control route | checks are awaits at which other requests go on. A project keeps an owner; failures are all counted |
| Studio (`apps/studio`) | one state object of the page | every click, every answer | control server | handlers overlap on one object, answers are lost. A submitted edit lands at most once, also when a conflicting one is sent again, on the quest selected then |
| Player page, executor and launcher (`apps/player`, `packages/player`) | confirmed frame, remembered session, the chain of launches | load, submit, skip, restore, reset; launch, close | runtime server, renderer | slow frames, reloads, overlapping calls. The page shows the turn it holds; one player listens per playtest |
| Presentation plans (`packages/contracts`) | none | check that a plan ends at its frame | player | branches run together. An accepted plan ends alike in every order |
| Assets (`packages/assets`) | objects by hash, a record per asset and hash | ingest, read | files only | two processes put one asset, or stop between object and record. What was stored stays, whole |
| Builder runner, contracts | see `components` in `PROJECT.json` | | | not modelled; the reason is given there |

## The modules

| Module | Models | Composes with |
| --- | --- | --- |
| `TurnLedger` | abstract: what the runtime promises of a session (who owns it, what became of each key, the ledger of turns) without clock, lease, token or revision | refined by `RuntimeStorage` |
| `RuntimeStorage` | both storage adapters, method by method | — |
| `RuntimeServer` | `handleAction` as concurrent requests | extends `RuntimeStorage` |
| `AuthoredScenario` | the interpreter of authored scenarios and its action handler | extends `RuntimeStorage` |
| `Arrangements` | sorting, as what it achieves | — |
| `Scheduler` | time advances: planning, the trial with handlers, the static way | extends `Arrangements` |
| `PluginRegistry`, `PluginActions` | the registry; resolvers and handlers with their generator and host | extends `Arrangements`; the second extends the first |
| `RuntimeModels` | the calls of the interpreter and the narrator | — |
| `DraftLog` | abstract: what the durable store promises of drafts (a log of contents per quest, what a restore key added, what playtests copied) without calls, bases or hashes | refined by `DraftStore` |
| `DraftStore` | the drafts of both control stores | — |
| `AuthoringProposals` | the apply saga | extends `DraftStore` |
| `QuestCopies` | clone and import | the SQLite store, reduced to snapshots |
| `AssetStore` | asset files: ingestion, publication, reading | — |
| `AuthorAgentJobs` | the job records | — |
| `AuthorAssistant` | segments and routes around a job | extends `AuthorAgentJobs` |
| `AuthorConversation` | messages and artifacts around a segment | extends `AuthorAgentJobs` |
| `ReferenceReads` | the brokered read of a reference | extends `AuthorAgentJobs` |
| `CodexAccount` | the subscription account and the backend that trusts its lease | — |
| `ModelAuthor` | the backend over a provider the operator configures | — |
| `ControlAccess` | logins, sessions, roles, the way of a request | — |
| `ReleaseStore` | releases, pointer, events | — |
| `PublishedSessions` | session creation and pinning | extends `ReleaseStore` |
| `Studio` | the page of the studio | a control server served atomically |
| `PresentationExecutor`, `PlayerPage` | the executor; the page around it | the second extends the first |
| `PlayerLaunch` | launches and closings of players | — |
| `PresentationPlans` | the convergence check, and a player that plays commands in any order | — |
| `…Proofs` | theorems: `RuntimeStorageProofs` and `RuntimeServerProofs` about the module each is named for; `TurnsProofs` about authored scenarios, the plugins and the scheduler; `ReleaseProofs` about releases and the sessions pinned to them; `ControlProofs` about access, drafts, proposals and copies of quests; `AuthorAgentJobsProofs` about jobs, the assistant that works on them, and assets; `ClientsProofs` about the executor, the page, the launcher and the Studio; `AiProofs` about the account, the model provider, the model calls, the reads of references and the conversation | extend them |
| `MC…` | instances. `MCStores`, `MCDraftStore`, `MCControl`, `MCTurns`, `MCAiConnections` and `MCClients` put modules that share no state side by side: a variable `part`, fixed in the initial state, says which of them moves, so a run is the sum of its parts and not their product | |

How code becomes an action:

- A method of the runtime storage is an *outcome operator* — its early returns
  in their order — and an *action*, what it writes. A call refused by the code
  is an outcome other than the one that writes, and changes nothing.
- A handler with awaits is a record with a `pc` (`handler`, `seg`, `app`,
  `applies`, `calls`, `players`): one action per stretch between two awaits, each
  the whole stretch. What the handler has read is kept in the record, so stale
  reads stay stale.
- A transaction (`BEGIN IMMEDIATE`, or a stretch of memory-adapter code without
  an await) is one action.
- A crash loses the records of what was in flight and keeps the tables. Since
  tables are shared and handlers independent, a process's death is modelled as
  any of its handlers being lost.
- Hashes, ids and JSON are represented by what they identify: a request hash by
  the request, a content hash by the content, a turn id by its key.
- A busy database is the storage call throwing before it changes anything.

### RuntimeStorage

`session`, `operation` and `turns` are the three tables and `now` the service
clock. The SQLite adapter reads the clock *before* `BEGIN IMMEDIATE`, which may
wait for another writer, so every method takes its time from `now - MaxLag .. now`.
`MaxLag = 0` is the memory adapter. `MaxSafe` plays `Number.MAX_SAFE_INTEGER`: the
clock, revisions, tokens and lease ends refuse beyond it, as the code does, and so
the counter's limit is reached in the runs. An operation id is its session and
key, which the code's uniqueness constraint makes equivalent.

### RuntimeServer

A handler: `claim`, `load`, `execute`, `commit` or `finish`, `fail`. The AI is a
choice of wording and outcome. A world is the sequence of keys whose actions made
it, so a turn computed from a stale world would show. Replies may be lost, and
the same key may come again with the same or another body, at any moment.

### DraftStore and AuthoringProposals

A call that compiles is a Begin action (before the await) and an End action
(after it). `Adapter` chooses the code after the await where the two stores
differ. Blocks have ids and references to ids; the edits and reference checks of
`applyTrialChange` and the validator are modelled on them, with their order of
errors left out. A proposal's apply is a worker of `DraftStore` with its own
record of what `executeApply` knows.

### QuestCopies

A row of a reservation is what the key pinned: the request and, of a clone, the
revision of the source. A call is a worker that goes from step to step, each a
transaction or a read; it may crash at any of them, and the retry goes on from
the row. A quest's contents are what an author may save, and a copy is compared
with what the pinned revision makes, ids of blocks rewritten.

### AuthorAgentJobs, AuthorAssistant, AuthorConversation, ReferenceReads

One job (jobs share nothing). `AuthorAgentJobs` is the record, its journal and
its operations under arbitrary clients; the other three replace the clients by
code. `AuthorAssistant` has the executor with its tools and the routes;
`applyAuthoringProposalFromStore` is one step there, since `AuthoringProposals`
takes it apart, and the draft is the list of who made each revision.
`AuthorConversation` takes the segment route apart instead: request, journal, message,
lock, segment, message, each a step of its own, while the executor is reduced to
what it stores. Whether the draft has moved is looked at in the preview and decided on later,
when the segment settles. A turn's key is the instruction and the revision it was asked about,
as the hash is. `ReferenceReads` is one tool call with its broker and its timer.

### CodexAccount, ModelAuthor, RuntimeModels

`CodexAccount` gives every account request and every backend request a step when it
is sent and one for each answer; the lease is a number of generations. Two
auxiliary variables record the generation in which the server started a thread and
a request was admitted. `ModelAuthor` has a turn pass through its request, the
observing wrapper of the studio and the continuation, with both timers as actions
and the signal as a predicate. `RuntimeModels` is one call of the interpreter or
narrator with any sequence of answers.

### ControlAccess

A request is a record that goes through identity, role, proof and body, an await at
each, and then calls the store. `InOneTransaction` chooses the durable adapter;
the run takes the one in memory, where a new project and its owner are written apart. `tried`
is auxiliary: the failures that were verified, to compare with those counted.

### ReleaseStore and PublishedSessions

A service call is a Begin (preflight: release, plugins) and a store call. Plugins
may change at a restart. `PublishedSessions` adds requests that create sessions —
read the pointer, load the release, bind, create — and requests that resolve an
action's release, with each failure path of both servers.

### AuthoredScenario

A scenario is a list of beats of options; a session at revision n is offered beat
n. A world is one resource, the holder of one item, the clock and the end. An
option's cases, conditions (`all`, `any`, `none` of tests) and batches of effects are
operators that follow the source's order; the handler is an action per stretch
between awaits over `RuntimeStorage`'s methods. `scenario` is chosen among lists
authors may hand in, some of which normalisation refuses.

### Scheduler

`world` is the session's world reduced to its clock, revision, end and one bounded
resource; `trial` is what `processTimeAdvancePlan` keeps in its local variables
(queue, pending, processed, seen ids, counts, trial stock). Each turn of its loop is
an action chosen by the kind of the queue's head; a handler's answer is one
`Generate` per child and then `HandlerReturns`, so every list of children is
covered, and a handler may throw at any point. The function is synchronous: the
steps in between are there to be looked at by the invariants, nobody interleaves.
`Plannable` collapses the refusals before the start, whose codes no property tells
apart. `MaxDue`, `MaxEvents`, `MaxSteps` and `SafeInteger` are the limits of the code,
made small. The sorts of the code are `Arranged`: the one list of the given members in which
each is before the next, which is what `sort` makes of distinct keys. The projection of quest
tasks is left out.

### PluginRegistry and PluginActions

`buildPluginRegistry` goes manifest by manifest, and its topological order plugin by
plugin; `CodeUnits` and `Locale` are the two ways the code sorts ids. A plugin's call
is open from `ExecuteAction` or `PassEvent` to `ReturnPlan`, `ReturnEvents` or a throw;
in between it draws, and a generator kept past its call is used by `DrawLate`. A draw is
named by its place in the stream.

### Studio

`ui` is the state object, a handler a record with the request it waits for and what
is left to do; every handler reads `ui` when it is clicked and writes it when an
answer arrives, whatever others did meanwhile. `Serve` is the server's answer, `Lose`
loses a request or an answer, `OtherAuthor` moves drafts. `desk` restricts a run to the
panels an author works with. The forms stay enabled while a save is under way
(`app.ts:383-417`), so each submission is an edit of its own, named by its click; what the
property speaks of is the Studio sending one submission twice, not an author who
presses the button twice. A conflict that is sent again goes to the quest selected then.

### PresentationExecutor, PlayerPage, PlayerLaunch, PresentationPlans

A call of the executor is a record with its generation; the renderer resolves or
rejects any request at any time. `PlayerPage` has the page's handlers with the
requests they wait for; a turn posted lands even when the page is gone. `TheTurnIsShown`
speaks of the last frame the page was given; after a reload that finds none the page is
blank, so that a reload brings back the latest frame (ADR 0024) is more than is checked.
`PlayerLaunch` has the chain of promises and what is open at each step; `createPlayerDevServer`
(`launch.ts:190`) is taken not to throw, since the launch gives it none of the options it refuses.
`PresentationPlans` computes the check as the code does, by differences of branches, and beside it plays the
plan one command at a time in every order. A plan is a function from the paths of its
nodes to the nodes, and `Course` gives at every node the state that `applyNode` finds
there and the one it leaves, each from those before it.

### AssetStore

A path leads to what its file holds; bytes stand for their hash and inspection for
the constant `KindOf`. `publishImmutable` is taken apart at its awaits (look, verify,
write aside, link, verify what was there first, remove), once for the object and once
for the record, and every file operation may fail or be the last of the process. A
temporary file has a random name that nobody looks up, so it is not in the state. Files
that a loss of power truncates are not modelled: the code does not flush them, and
`read` would report them as corrupt.

## The runs

The instances are small and the counters bounded by refusals the code itself
makes, or by named bounds (`MaxVersion`, `MaxStart`, `MaxRecords`).

| Run | Question |
| --- | --- |
| `stores` (MCStores) | Any caller, any order of calls. Of the runtime storage, with expiring and retaken leases and clock readings one tick late: one fenced owner, turns that account for every revision, and the turn ledger implemented, in which a decision is final and only a turn moves the world. Of the job store: the grant is never exceeded between two journaled pauses, and nothing journaled or completed is taken back. Of the asset files, with calls that race and stop anywhere: what was stored or read stays, with the whole of its bytes. `SingleFencedOwner`, `HistoryAgrees`, `ImplementsLedger`, `BudgetPerPause`, `DurableFacts`, `AssetsAreWhole` |
| `server` (MCRuntimeServer) | Two concurrent handlers of two retried keys with AI awaits, busy storage, lost replies, expiring leases and crashes: replies agree, no update is lost, and answers are to questions asked of the world they change, even with a clock reading a tick old. `RepliesAgree`, `WorldIsItsTurns`, `AnswersAreCurrent` |
| `drafts` (MCDraftStore) | Two workers creating, editing, restoring, validating and freezing one quest, each suspended while the compiler runs and each liable to crash, up to the last revision: every snapshot is what its author's change set makes of exactly the revision before it, a restore key restores once, and the store implements a log of contents that grows by atomic edits and restores and that playtests copy.  And two calls under two keys cloning or importing a quest its author goes on changing, to an id anyone may take, with crashes anywhere: every copy is of the revision its key pinned. `EditsCompose`, `RestoresOnce`, `CopiesComeTrue`, `DraftsAreALog` |
| `assistant` (MCAuthorAssistant) | Segments that offer their proposal or, in automatic mode, apply it, with the reference tool and a kit that may change at a restart; people applying offers under two keys, editing the draft and cancelling, with crashes between any two steps: what the journal says of the draft is true, a proposal lands once, nothing is proposed or lands without the evidence it rests on, and a job that succeeded has applied what its journal names. `EvidenceFirst`, `LandingsTrue` |
| `author_record` (MCAuthorAssistant, violation expected) | In automatic mode a crash after the draft changed and before the journal says so makes the next segment apply the same instruction again and close the job with the first revision unrecorded. `RecordsEachRevision` |
| `sessions` (MCPublishedSessions) | Two requests creating sessions and playing them, with colliding session ids, exceptions and restarts at every await, while two releases are built, published and rolled back under two keys, up to the last event sequence and across restarts with other plugins: a published session is never missing the binding that says what it runs on and is played on that or not at all, the log explains the pointer, and every move is the effect of one key. `SessionKeepsItsScope`, `LogExplainsPointer`, `MovesAreKeyed`, `RetryIsReplayed`, `PlaysItsOwnRelease` |
| `turns` (MCTurns) | Of authored scenarios: Two concurrent requests of two retried keys, explicit or interpreted text, over a scenario of two beats with cases, a resource at its bound, an end and a clock at its limit, and two scenarios that must be refused: the world is what the scenario played with the recorded options gives, and no accepted case ever breaks. Of game time: every list of up to two planned events and one order of every three out of a catalogue with an expense, an income, a completion, a deadline and a reused id, with handlers that add any of five events, over as many advances as the clock and the revision allow: no event is lost or run twice, a failed trial leaves the world alone, and without handlers the dynamic and the static way agree. Of plugins: every order of the chosen sets of up to three manifests, built any number of times, and calls of the registered actions and handlers by plugin code that draws, catches, throws or keeps its generator: the registry depends on the set alone and the published stream is exactly the draws of the accepted calls. `PlayedAsAuthored`, `CasesNeverBreak`, `EventsConserved`, `AgreesWithStaticPlan`, `RegistryIsOfItsSet`, `StreamIsItsDraws` |
| `ai` (MCAiConnections) | The subscription account with logins, logouts and rotations overtaking openings and turns; the operator's provider, replaced and disconnected under turns that time out, are cancelled or never answered; the interpreter's and narrator's calls with any answer; and the author's reference tool under restarts, retries, timeouts, aborts and moves of the job: work is done only in the login it was admitted in, the status and the outputs are of the provider configured now, a busy session becomes free however silent the endpoint, the evidence explains the outcome, and a reference read is asked for once and answered as recorded. `ThreadsServeTheirLogin`, `EvidenceExplainsOutcome`, `ReadsAreRecordedOnce`, `OnlyThisProviderSpeaks`, `BusySessionsBecomeFree` |
| `control` (MCControl) | Two workers apply three assistant proposals (one names a missing capability) under two keys while a person edits and a worker stops between any two transactions; two users send overlapping requests and logins to one project of the store in memory, with sessions that expire and a throttle that blocks. An application records what the draft became, lands at most once, a project never loses its last owner, and overlapping failures are all counted. `ApplicationsTrue`, `AProjectKeepsAnOwner`, `AttemptsAreBounded` |
| `clients` (MCClients) | The front ends under answers that are lost, late or overtaken: the Studio with another author on the same quest, two requests at a time for segments of one job with crashes, retries and a moving draft, the page of the player across reloads, skips and failing plans, its executor under overlapping calls, the chain of launches and closings, and every small plan in every order of its parallel commands. `EditsLandOnce`, `QuietMeansResting`, `TheTurnIsShown`, `OnePlayerListens`, `RuledPlansConverge`, `ConversationHolds` |
| `executor_stale` (PresentationExecutor, violation expected) | A plan whose frame is still being applied when a newer call takes over confirms its older frame all the same. `SupersededNeverOverwrites` |
| `plan_parallel` (MCPresentationPlans, violation expected) | A parallel node that hides and shows a visible actor is accepted, although where it ends depends on the order its branches come in. `AcceptedPlansConverge` |

`CHECK_DEADLOCK FALSE` is set where the system really stops: a finished job or call,
a plan played to its end, a page after its last bounded click, a clock at its bound.

The expected violations are disagreements between the code and its documents; each
is explained under `findings` in `PROJECT.json`:

- `author_record`: in automatic mode a crash after the application makes the next
  segment apply a second revision and close the job without recording the first.
- `executor_stale`: a plan whose last frame is being applied when another call
  takes over confirms its older frame over the newer one.
- `plan_parallel`: a branch that writes the value a property already has leaves no
  trace, so hiding a visible actor beside showing it is accepted although the order
  decides the end.

More disagreements of this kind are known and noted with the hazards they belong to:
two overlapping `createQuest` calls of the memory store both succeed; an identical
retry overlapping its first apply is told of a conflict although the proposal landed;
a job that died holding its last call is reported as out of budget and never paused.

### Why the bounds suffice

Two requests of one key and two or three keys are what each property needs to be
violated; every property is violated by its mutant within the bounds of its run.
One session and one quest suffice: a store's rows of different sessions or quests
meet only in identifiers and sequence numbers shared between them, and a turn id
collides within one session as it would across two. `RuntimeStorage` is run with
three keys and three turn ids so that a takeover, a finished operation and a live
one coexist, tokens and revisions up to 3 so that their limit is reached, two
worlds so that a turn that brings another world shows, and leases of length 1 and
2 with a lag of 1 so that a reading can fall on either side of a boundary. The
scheduler plans lists of up to two events, and one order of every three, with handlers adding more, up to the limits of
the processor, where an event more and a step more are refused. The author runs bound
the number of segments started and the draft's revisions.

The scenarios of `turns` have two beats, since what a beat needs of an earlier one is
the world it left; the plugins' sets have up to three members, the least with a
dependency that two share, a cycle behind a third, and an order in which the two
sortings differ; an advance has two events, so that one can fail behind one that
drew. In `ai` two account generations beyond the first suffice for an answer to arrive
in another login of the same account (`MaxGeneration = 3`), and two provider
configurations for an answer of a former one. `control` needs two users, each of whom
may be the last owner, and a throttle of two attempts, so that one more than the limit
can be under way. In `clients` the studio has two handlers and three clicks:
an edit, its retry, and anything in between, with one revision by another author on each quest,
which is what a conflict takes, and after it a retry lands on the same quest or on another; the page two loads and two turns, so
that an old turn can be restored after a new one; the executor two calls and
four generations; launching two playtests of two databases with three operations.
Plans have two branches of up to two commands: a conflict is between two writes, and
a branch of two is the least that can undo its own.

Symmetry is used for sets whose members the model tells apart by nothing, and in
no run with a liveness property.

### Fairness

One liveness property is checked, `BusySessionsBecomeFree` of `ModelAuthor`, under
`ModelFairness`: time passes, the timer of a turn fires once its instant has come, a
fetch whose signal is aborted is rejected, and a promise that is settled is
continued. The event loop and `fetch` guarantee these; nothing is assumed of the
endpoint, of the caller or of the operator. Its mutant leaves out the timer's signal.

Everything else is safety. Liveness of a session of the runtime is not stated: after a
crash between claim and commit only a retry of the same key frees it, and whether
a player retries is nobody's fairness.

## What is proved

Each of the following holds for every value of the constants that satisfies the
assumptions of its module. They are few, and what each rests on is in the code:

| Assumption | What it asks | Why |
| --- | --- | --- |
| `ConstantAssumption`, `ServerAssumption` | bounds are numbers, absent values are no values | the types of the records |
| `GrantAssumption`, `NotesAssumption` | a grant is positive; a client journals none of the lifecycle's facts | the routes and the executor do not |
| `BodiesAssumption` | what marks a revision made by hand is no answer of the model | it is a mark of the model checked here, not of the code |
| `AuthoredAssumption` | a world is a resource within its bounds, a holder, a clock and whether the story has ended; a scenario handed in is a list of lists of options, at most `MaxOptions` in a beat, and starts before its end | `normalizeScenario` refuses anything else (`authored-scenario.ts:262-300`) |
| `RegistryAssumption` | ids compare in two ways, by code units and by locale, each of which puts every id in one place; a list of manifests is a list; a manifest's dependencies are ids | `<` and `localeCompare` are total on ids, and a manifest that is not well-formed is refused before the registry is built |
| `SchedulerAssumption` | events have ids, instants and orders, and only one of effects carries a batch; the limits and the bound of the resource are positive | the strict schema of `SchedulerEvent`, and the checks of the limits (`scheduler.ts:100-102`, `scheduler-process.ts:125-126`) |
| `ReleaseAssumption`, `RecordAssumption`, `SessionAssumption`, `PinAssumption` of `PublishedSessions` | the absent value is no release, no record and no pin | it is `null` |
| `AccessAssumption` | finitely many users and calls; throttle limits of at least 1 | `buildAuthRuntime` refuses other limits (`control-server.ts:808-814`) |
| `ProposalAssumption` | the proposal under a key is fixed and changes something | proposals are stored when previewed |
| `CopyAssumption` | what an author can save is a draft (`IsDraft`): blocks with distinct ids, references that resolve; none of its blocks has an id that a clone of it would hash to (`IdsApart`); the copies' ids are not those of the originals | `hasValidQuestReleaseReferences` refuses other drafts; an id of a clone is a SHA-256 digest of quest, revision, destination and block, so the second says that the hash does not collide; which quests count as originals is a choice of the model |
| `PlaySessionsAssumption`, `PageCallAssumption`, `NoPlayerAssumption` | no session, no player: not among the sessions and players | they are `null` |
| `ModelAssumption` | finitely many turns of the model, limits that are numbers | the status counts the turns under way |
| `PlanAssumption` | a plan is a tree (`IsPlan`): finitely many nodes, under every child its parent, a sequence or a parallel; a first state has a value for every property, a number for an item | a plan is parsed from JSON; `frameToVisualState` fills in every property and counts the items |
| `UnfitAssumption`, `PinAssumption` of `ReferenceReads` | an unfit output is an output; the pin of the references is journaled by the broker alone | the executor's facts have other kinds |

The theorems about drafts and proposals have one hypothesis more, `Adapter = "sqlite"`.
It is needed: the memory adapter's `createQuest` looks whether the quest exists before
it awaits the compiler and writes afterwards, so the second of two overlapping creations
replaces a history. The runs check the SQLite adapter too, so `DraftsAreALog` does not show this defect of the other
one (`memory-store.ts:94`); the hazard is listed with the code.

- `TypeCorrect` (RuntimeStorageProofs): The tables keep their types whoever calls the storage: no revision, counter or lease end passes its bound.
- `Fencing` (RuntimeStorageProofs): At most one operation of a session is under way; it is the one the session names, was claimed at the revision the session still has, and carries the newest token, which no other operation carries.
- `ExactlyOnce` (RuntimeStorageProofs): The turns of a session are exactly its revisions, and each operation completed with a turn has exactly one of them.
- `DecisionsAreFinal` (RuntimeStorageProofs): A decided operation, response included, is never changed again.
- `OnlyTurnsMoveTheWorld` (RuntimeStorageProofs): A session's world changes only together with one appended turn of the operation under way.
- `Refinement` (RuntimeStorageProofs): The storage implements the turn ledger for every set of sessions, keys and turns.
- `ServerRunsTheStorage` (RuntimeServerProofs): Concurrent, retried and crashing request handlers drive the storage only through its methods: every behaviour of the server is one of the storage, whose theorems so hold under it.
- `RetriesAgree` (RuntimeServerProofs): Every reply a player receives for a key is the response stored with the key, for any number of overlapping attempts and lost replies.
- `NoLostUpdates` (RuntimeServerProofs): The world of a session is exactly its turns in their order, although each is computed from a world read before an await of the AI.
- `QuestionsAreAnsweredOnce` (RuntimeServerProofs): A turn that answers a question answers one asked at the revision it starts from, and no question is answered by two turns.
- `BudgetHolds` (AuthorAgentJobsProofs): Over its whole life a job reserves at most one grant of operations more than its journal has pauses, whatever its clients do.
- `JournalHolds` (AuthorAgentJobsProofs): The fact that closes a job is in its journal exactly when the job is closed, and nothing is journaled after it.
- `FactsAreDurable` (AuthorAgentJobsProofs): No step reopens a closed job, takes back a journaled fact or changes a completed operation, and every change moves the version by one.
- `ProposalsHaveEvidence` (AuthorAgentJobsProofs): A saved proposal has the completed read and the journaled context of its turn behind it, and what the draft holds was produced and previewed, across crashes, retries and both ways of applying.
- `LandingsAreTrue` (AuthorAgentJobsProofs): What the journal says was applied is that version of the draft, a proposal lands at most once by whichever way and under whatever keys, and a job that succeeded journaled what it applied.
- `AssistantKeepsTheLifecycle` (AuthorAgentJobsProofs): The segment, the apply route and the cancellation are clients of the job: a job they work on keeps to its budget and its journal ends with it, whatever ids they derive and whatever they journal.
- `AssistantKeepsFacts` (AuthorAgentJobsProofs): No step of the assistant takes back a fact, a completed operation or the end of a job, and each moves the version of the job it changes.
- `ConversationKeepsTheLifecycle` (AuthorAgentJobsProofs): The conversation is a client of the job: through its requests, retries, messages, artifacts and crashes a job keeps to its budget and its journal ends with it.
- `ConversationKeepsFacts` (AuthorAgentJobsProofs): No step of the conversation takes back a fact, a completed operation or the end of the job, and each moves the version of the job it changes.
- `ReadsKeepTheLifecycle` (AuthorAgentJobsProofs): The brokered read is a client of the job: through reservation, the timer, a late answer and the retries of other processes a job keeps to its budget and its journal ends with it.
- `ReadsKeepFacts` (AuthorAgentJobsProofs): No step of a brokered read takes back a fact, a completed operation or the end of the job, and each moves the version of the job it changes.
- `PointerHasItsLog` (ReleaseProofs): The events of a quest chain from nothing to its current release: of two calls that expected the same one, one is refused.
- `EventsAreKeyed` (ReleaseProofs): Each event is the effect of exactly one idempotency key, and is what the request of that key asked for.
- `RollbacksGoBack` (ReleaseProofs): A rollback goes only to a release published before it.
- `RetriesAreReplayed` (ReleaseProofs): A call whose key is recorded is answered from the record, or as a reused key, wherever the pointer is by now.
- `SessionsKeepReleases` (ReleaseProofs): Published sessions composed with the release store are a behaviour of the release store alone, so that its theorems hold of the composition.
- `ScopeIsKept` (ReleaseProofs): A published session never lacks the binding that names its release, for any number of requests drawing the same ids and failing anywhere.
- `StartsArePublished` (ReleaseProofs): A session starts only on a release that has been the current one of its quest.
- `PlayedAsCreated` (ReleaseProofs): An action of a published session runs on the release it was created on or fails the preflight.
- `SessionsAreTyped` (ReleaseProofs): Tables and requests keep their types; nothing is pinned to a draft that was not validated.
- `WorldsArePlayed` (TurnsProofs): The world of a session is what its scenario gives when the options recorded in its turns are played from the beginning, for every scenario that normalisation accepts and any number of concurrent requests.
- `AcceptedCasesHold` (TurnsProofs): No condition of a case of an accepted scenario ever leads nowhere, in whatever world a session gets to.
- `RegistryIsItsSet` (TurnsProofs): A registry is of its set of manifests, not of the list they came in: every plugin is in the order once and after what it needs, two builds of one set agree, and a set refused for a cycle has one; for every number of plugins and both ways of sorting ids.
- `StreamIsDrawn` (TurnsProofs): The accepted calls drew the beginning of the stream, each number once and in order, whatever plugin code did with its generator; none went on after a refused draw; an action is resolved by the only plugin that owns it.
- `EventsAreConserved` (TurnsProofs): whatever a plan holds and a handler adds, each event of it is in exactly one of processed, queued and pending, what is pending is beyond the interval, the budgets hold, and the world after is what the processed events make of the world before, for any lists, children and limits
- `StaticPlanIsFollowed` (TurnsProofs): as long as no handler adds an event, the processor and the older way without handlers make the same world, the same applied and unprocessed events and the same refusals of every plan
- `WorkIsForItsLogin` (AiProofs): Whatever logins, logouts and rotations overtake an opening, the backend works on a thread only in the generation of the lease in which that thread was started.
- `OutcomesAreExplained` (AiProofs): Whatever the provider answers, the outcome of an interpretation or a narration is explained by its evidence: the last answer, kept to what was allowed, at most one retry, and no giving up while a retry was left.
- `FormerProvidersAreSilent` (AiProofs): For any number of turns and sessions the status counts exactly the unanswered requests of the provider of now, and no answer of a replaced provider is handed out.
- `ReadsHappenOnce` (AiProofs): For any number of calls, retries and restarts an operation asks the transport at most once, under the pin of the job, and every answer is the recorded one.
- `ProjectsKeepAnOwner` (ControlProofs): A project that has a member has an owner, however many requests change its members between their checks.
- `LoginsAreThrottled` (ControlProofs): No more wrong passwords are verified in a window than the limit and the logins that were under way when it was reached.
- `EditsFollowTheirBase` (ControlProofs): Every snapshot of the durable store is what its request makes of the revision it names as its base.
- `RestoresAreMadeOnce` (ControlProofs): A restore key has made at most one revision, the one its record names.
- `HistoryIsAppendOnly` (ControlProofs): No step of the durable store rewrites or drops a revision or adds two, and a playtest stays the snapshot that was validated.
- `DraftsImplementTheLog` (ControlProofs): The durable store implements the log of contents: for every set of quests, contents, edits, keys and calls, what a call compiled before the await takes effect at one moment, on what is newest then, or not at all.
- `ProposalsRunTheStore` (ControlProofs): The apply saga, with its crashes and retries, changes drafts only as the store does: its behaviours are behaviours of the store.
- `ApplicationsStayTrue` (ControlProofs): A recorded application is the revision that its proposal made of its base, and a proposal lands at most once.
- `SubmissionsLandOnce` (ClientsProofs): An edit the author submits lands at most once, however often he clicks, whatever is lost and whoever else edits; a conflict offered to be sent again has not landed.
- `TheExecutorComesToRest` (ClientsProofs): Overlapping calls of the executor, overtaken, skipped or rejected in any order, leave no controller, no status and no turn that disagrees with the confirmed frame.
- `ThePageShowsItsTurn` (ClientsProofs): A ready page shows, whole, the last frame it was given, of its own session and no newer than its turn, after any reloads, resets and losses.
- `OnePlayerAtATime` (ClientsProofs): At most one player listens, and none outside the map when the chain of operations is empty, whichever step of a launch or closing fails.
- `AcceptedPlansAddUp` (ClientsProofs): What the check computes for an accepted plan that obeys the rule, node by node, is the effect of its commands: the last writer of every property, and the number of the commands that show an item.
- `PlansConverge` (ClientsProofs): An accepted plan whose parallel branches obey the rule ends at the frame it was accepted for, in whatever order its commands come: plans of every shape, and every number of branches and of properties.
- `CopiesAreTrue` (ControlProofs): A completed key and every answer under it name one quest: the copy of the revision the key pinned, as first made, whoever edits, creates, retries or crashes meanwhile; one call at most is told that it made it.
- `ConversationsAreWhole` (AiProofs): For any number of requests, keys and messages: an id names one message, every message comes from a journaled request, and an answer follows the words it answers and offers a proposal that is journaled, kept, and found when it is to be applied.
- `StoredAssetsStay` (AuthorAgentJobsProofs): An asset that was answered as stored, or read, is on the disk whole and under its own record, whatever other calls store and wherever a call stops.

*Storage.* The argument is one inductive invariant, `IInv`: the type invariant, at most one
processing operation per session and it is the active one (`OneActiveOperation`),
which expects the current revision (`ActiveIsCurrent`), no token granted twice
and the active one the newest (`TokensNameGrants`), a session's turns numbered by
its revisions (`TurnsExplainRevision`) and one turn per completed operation
(`OneTurnPerOperation`). The parts lean on each other: that a commit by the
active operation makes revision + 1 keeps the turns consecutive only because the
operation expects the current revision; that a takeover keeps one owner needs
that processing implies active. `Init => IInv`, the step of each method and its
conjuncts are separate lemmas. The clock plays no part: nothing in `IInv` depends
on whether leases are judged on time, which is what makes the lag harmless; an
early or late judgement only changes who is refused. The refinement theorem maps
`active`, `status` and `turns` to the ledger.

*Jobs.* `BudgetPerPause` is not inductive: a resumed job starts its count again, and
nothing in the property says that the calls of the past were paid for. `BudgetLeft`
does: what is reserved is at most the running count plus one grant per journaled
pause, and while the job is paused no more than the pauses. A pause raises the
payments by a grant when the count is at most a grant, which is why resuming may
reset it. The proof counts the positions of a fact in the journal, so it needs that
clients journal none of the lifecycle's facts themselves; the routes and the
executor do not, and `NotesAssumption` says so.

*Assistant.* Between two awaits the segment relies on what is durable only: facts of the
journal, completed operations and versions of the draft, all of which only grow
(`WhatStays`), so what it learnt at one step holds at each later one whoever came in
between, and after a crash it learns it again (`SegmentHolds`). A proposal lands on the draft
it was read against, so the version it makes is the one after its base and two landings would be the
same version. That leaves the segment that applies a proposal it finds applied already: it takes
its turn from the draft as it is now, which a landed proposal's base is behind (`AppliedOnce`).
The job's own theorems are proved of any client (`ClientStep`: whatever ids, hashes and facts it
brings, as long as the facts are not the lifecycle's), and every step of the segment and of the
routes is one (`AssistantIsAClient`), so they hold of the jobs the assistant works on. The
conversation and the brokered reads are instantiated over the same job and shown to be clients
of it in the same way (`ConversationIsAClient`, `ReadsAreAClient`).

*Releases.* Every call is first reduced to its effect on the tables (`Effect`: a
release built, a no-op recorded, the pointer moved, or nothing), so that the
early returns are dealt with once. The log then needs `RecordsInLog`, that no record
names an event yet to come: that is what makes the next sequence number belong to
the one key that writes it, and that a record's key was free is what leaves the
events of other keys alone. A rollback's target is looked up in the log, where by
induction a publication of it is.

*Published sessions.* The composition is a behaviour of the releases alone
(`SessionsKeepReleases`), so their theorems carry over (`LogHoldsBesideSessions`).
That a session keeps its scope is a matter of ownership: a request that is about to
create a session or to remove a binding is the one that wrote the binding
(`FactsOf`), no two of them own one (`OneOwner`), and while it owns it the session does
not exist. The pointer read at the first await is kept in the request; that it was
published is stable, because the log only grows.

*Server.* First, every step of the server is a step of its storage or leaves the storage
alone (`ServerRunsTheStorage`), so everything proved of the storage holds under it. A
handler between two awaits is then related to the storage: the world it carries is the
session's if the session still is at the revision the body expects
(`HandlersWorldIsOfItsRevision`). A commit checks only that revision, so this is what makes the
committed world the old one and one turn more. The question that an answer quotes was asked at
the revision the answer expects (`QuestionsAsked`), which is why a question is answered once.
Replies agree because what decides a key never changes, which is the storage's theorem.

*Access.* That a project keeps an owner is checked by a route before it reads the body and
acts: `OwnersSeen` says that what it has seen of the owners is still so where it acts. The throttle
is a count beside wrong passwords in flight (`ThrottleInv`): the count is increased only
when the answer arrives, so the bound has to include the calls that were let through.

*Drafts and proposals.* The compiler is awaited between reading a draft and changing it.
`Sound` says what a call holds meanwhile: the content of a version that exists, or the trial
content of the base, and that history only grows keeps it true; `Follows` says of every version
which one it was made from; `Frozen` says of a playtest that a validation of the same content
exists. That makes each End action one atomic step of `DraftLog` (`StepIsLogged`): the base is compared
again after the await, so what was compiled from the base is what the newest content makes. The memory
adapter does not implement the log, since its `createQuest` may replace a history.
A proposal's application is a call of the draft store, so `ProposalSpec` implements the draft
store's specification, and `AppliesKnow` relates the three transactions: from the
reservation on, what a call is about to record is what the draft's history holds.

*Copies.* A row pins a snapshot, and a snapshot never changes, so all calls of one key build one
draft, whichever of them gets to creating the quest (`BuiltFor`); what a call found there is what the
author will find as revision 0 (`Made`), whatever was saved since. A clone is again a draft with ids
of its own (`CloneFits`) and differs from its source in the ids alone (`CloneIsClone`), so the argument
covers clones of clones. Nothing locks a key: two calls of it may create at once, and `createQuest` lets one
of them through. That only this one says `made` is `OneMaker`.

*Player page, executor, launcher.* The newest call of the executor holds the controller
(`NewestHoldsController`), so nothing is left running when all calls are over. What the page shows is
what it last gave the executor, once its call is over (`CallOfPage`, `PageShowsGiven`). A
player is opened by the head of the launcher's chain alone (`ChainWorksAtHead`), which closes
or adopts what is listening before it starts (`WorkFits`, `ListenersAreKnown`).

*Studio.* An edit is named by the click that submits it, and one of a later click is nowhere yet.
A submitted edit is at one place (`OnePlace`): with the one handler that
sends it, or in the conflict that is offered again, or it has landed, and then the handler
that still carries it only reads (`OnlyReads`). That a lost answer does not make the Studio
send an edit again is the case that matters: the failed save reads, and keeps nothing to resend.

*Assets.* Files are true to their names (`FilesAreTrue`) because a call renames only what it
has written whole, and `CallIsTrue` says of each step of a call what lies under its temporary name
and its final one; no step removes a stored file.

*AI connections.* A generation of the account's lease only grows, and the thread an opening is
answered with is no older than what it saw (`SeenBeforeStarted`), so equal generations mean
the same login. A turn of a former provider has been aborted (`FormerTurnsAreRevoked`), so
its answer is not handed out. A model call under way has at most one answer, of no use and not
final (`ATryIsLeft`). A read of references that is about to write the pin knows that there is none
unless the job's version has moved (`PinIsKnown`), and one that reserved an operation is alone
with it (`HoldersHold`).

*Conversation.* The journal, the messages and the artifacts are written one after another, with
awaits between, but each only grows, so what a request has seen of them holds at every later
step (`CallHolds`): its key is journaled, its text is said, its turn is kept as this proposal, and
the proposal is journaled. The answer is written from that, and its turn, made again from the
proposal's base, is the turn the artifact is kept under although the draft may have moved. That the
last offer of a proposal can be found needs `MessagesHold` to say that there is a last one, which is
induction done by the steps instead of by the prover.

*Scenarios.* `PlayedAsAuthored` compares a world with a recursive computation, the scenario played
with the options on record. `AuthoredIInv` therefore says that a *play* of the session exists, a
sequence of worlds from the initial one in which each follows from the one before by the option its
turn was answered with; a commit lengthens it by one (`IsPlay`), and it is the recursive function
because a play is unique (`PlaysAreTrue`). In between, a handler's execution is one of the world of
the revision it was admitted at, as for the server. An accepted case was evaluated on the initial
world only; it never breaks because whether a reference leads somewhere depends on the entities of
the world, which no effect changes, and because the lists of conditions are read to their end
(`BrokenCondition`, `NeverBroken`). Both theorems, and the existence of the functions that recursion
defines (`Iterates`), need induction over numbers. The library's induction theorem cannot be
instantiated by the provers used here, since it takes an operator; `Induction` states it of sets
instead, and is proved from the library's theorem that the finite subsets of a set are well-founded.

*Plugins.* Two builds of one set get their manifests in different orders, so the proof compares the
iterates of Kahn's algorithm in both. The list of ready plugins is kept sorted by insertion, so it is a
function of the set of the ready (`PlaceInIs`, `SortHolds`); what is ready after a step is a
function of what was taken; so both take the same plugin at each step (`SortsAgree`). The algorithm stops
short only if what is left has no first member, which is a cycle (`SortEnds`). For the stream, a call's
generator is closed over the place where the stream was when it was opened, and only the call that
is accepted moves that place; a call's draws are therefore the places from there on, one after another
(`CallDraws`), and publishing appends exactly those (`FlattenAppend`). `FoldLeft`, which the library defines by
a choice of a recursive function on sets of positions, is shown to be its iterates once (`SetFolds`).

*Scheduler.* A trial keeps three lists: processed, queued, pending. `Separate` says that what is held
(processed and queued, in this order) and what is pending have all the ids seen, each once. Processing
moves the head of the queue to the end of what is processed and so leaves what is held as it is
(`JoinedMoves`). A child enters one of two lists, both of which are sorted anew; that sorting neither
loses nor doubles an event needs that no two compare as equal, ids in the one and the numbers of the
entries in the other (`ByTimeIs`, `ByTurnIs`, `GoodQueue`). `Tallied` is what makes the comparison with
the way without handlers inductive: a child in the interval makes more held than planned, for good, and as long
as there is none, what is held is the plan itself. So when the trial ends, its processed events are the
plan's up to the first terminal one (`StaticToEnd`), and when an effect is refused, the
plan has the same events before it, and a stock that has left its bounds stays outside (`StaticFails`).

*Plans of the presentation.* Two computations are compared: the check, which follows the tree
and joins the differences of branches, and the stage, on which commands come in any order
that the sequences allow. Both are compared with a third thing, the effect of a set of commands (`Effect`):
a property that none of them writes is as it was, one that a last command writes (one that precedes
no other that writes it) is what that command writes, and an item is shown once more for each that shows it.
For the check this is an induction from the leaves up (`AcceptedPlansAddUp`). In a sequence the
effects of the children follow one another, since all commands below an elder child precede all below a younger
one (`PrecedesAcross`, `EffectsAdd`); in a parallel the sums are over disjoint sets of leaves
(`BranchesCount`), and a property that several branches write is the same in each of them, which is the
rule. It is used where a branch writes the value that a property had: the check sees no write then,
and without the rule `AcceptedPlansConverge` is false. On the stage the invariant is weaker, because
last commands of different branches may disagree on the way: the value is what *some* last command
wrote (`Explained`), and what was played was played after all that precedes it. When every command has been
played, the two agree on each property. What the check computes is defined by a recursion over the points
of a tree at which `applyNode` enters or leaves a node. That it defines something is not free: the
order in which it comes to them is a strict one (`Earlier`), so the number of earlier points is a rank,
and a recursion along a rank has a solution (`Dependencies`, `Recursion`, `CourseIs`).

Only model-checked: liveness (`BusySessionsBecomeFree`), which rests on fairness and `ENABLED`; the provers used
here do not treat them.

## What is not modelled

See `components` in `PROJECT.json`, with a reason for each. In short: parsing,
validation of shapes, rendering, file and archive formats, prompts and the selection of
context, the network, and child processes; authentication of guests, authors and
tools by secrets; calculated and social actions, the projection of quest tasks, and the
arithmetic of the random generator, which are pure functions with tests of their own;
the builder's jobs, which are file and process operations; the parsers of asset
formats; the quota
adapters, which nothing uses.

Three abstractions a reader should keep in mind. A control server seen from the studio
answers atomically, since its stores are checked elsewhere. A composition by `part` puts
modules side by side and does not let them interact; the modules that do interact extend
one another. And a process's death loses the records of what was in flight one by one,
which includes losing all of them.

## What could come next

- Abstract specifications: a runtime whose keys have one answer each refined by `RuntimeServer`; a saga of
  reserve, act and complete that `AuthoringProposals`, `QuestCopies` and
  `ReferenceReads` each refine.
- Calculated actions with their bounds; the reconciliation of a lost deployment
  against an external CI service.
