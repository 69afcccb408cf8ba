# dbotter: TLA+ models, model checks and proofs

dbotter is a desktop database client written in Rust (MySQL, Redis, MongoDB; an
egui window and a small command line). Its correctness rests on a few places
where concurrent work, a shared file and failures meet: the writer of the
configuration file, the service that keeps profiles, sessions and secrets in step
with that file, the controller that runs every operation in the background, and the
window that shows what it has been told so far. Around them are parts with hard
edges of their own: exports, the two explorers, the choice of the statement to run,
and the way an error becomes something the user can do about it.
This directory holds models of those places, the TLC runs that check them on
small instances, and TLAPS proofs for every instance.

Source paths below are relative to the repository (`src/config.rs` is
`src/src/config.rs` in `PROJECT.json`).

## 1. Inventory

| Component | State it keeps | Operations | Modules |
|---|---|---|---|
| configuration file and writer (`config.rs`) | the file, its V1 backup, temporaries, the process-wide writer lock | `load_path`, `mutate_path` (create, create with a generated id, update, delete), V1 to V2 migration | `ConfigContent`, `ConfigWriter`, `AtomicConfig`, `ConfigWriterRefinement`; `ConfigWriterProofs` |
| profile, session and secret service (`service.rs`, `secrets.rs`) | observed profiles, generations, tombstones, the config-uncertain flag, the session cache, session secrets | mutate and reconcile, reload, store a prompted secret, acquire a session, evict, shut down | `ProfileService`; `ProfileServiceProofs` |
| background controller and port (`ui/runtime.rs`, `ui/adapter.rs`) | three bounded lanes, coalescing keys, task registry, permits, cancellation and terminal tokens, mutation lane flag, phase | submit, poll, start, cancel, complete, reap, clean up, shut down | `Controller`; `ControllerProofs` |
| UI model and application (`ui/model.rs`, `ui/app.rs`) | profiles on screen, connection states, workspaces, active operations, follow-ups, retry recipes | fold one event, submit one command, recover from a failure | `UiModel`, `DbotterApp`, `Window`; `WindowProofs`, `WindowPendingProofs` |
| profile form (`ui/profile_form.rs`) | one draft, its pending save | save, save and connect, cancel | `DbotterApp` |
| export to a file (`export_file.rs`, `start_export_work`, the result view) | pending and committed exports of the window; destination, private temporary, commit policy | submit, cancel, write, commit, answer | `ExportFile`; `DurableFileProofs` |
| Redis keyspace browser (`drivers/redis_browser.rs`, `ui/redis_explorer.rs`) | the keys of one SCAN cycle, cursor, caps, selection, preview, pending requests | refresh, load more, inspect, retry, restart, fold an answer | `Browsing`, `RedisExplorer`; `BrowsingProofs`, `ExplorerProofs` |
| MySQL catalog browser (`drivers/mysql_catalog.rs`, `ui/mysql_explorer.rs`) | branches with their nodes and page tokens, the retained budget; the token key file | load a branch, load more, clear, retry, fold an answer; load or create the key | `Browsing`, `CatalogExplorer`, `TokenKey`; `BrowsingProofs`, `ExplorerProofs`, `DurableFileProofs` |
| statement extraction (`execution.rs`) | none | a pure function of text, caret and selection | `StatementExtraction` |
| public errors and recovery (`public_error.rs`, the error mapping of `service.rs` and `ui/runtime.rs`) | the error that is shown | classify, choose recovery actions, attach a retry recipe | `PublicErrors` |
| drivers, encoders, drawing, command line, packaging | none that is shared | library calls, formatting, drawing | error classes in `PublicErrors`, else not modelled |

How they interact:

* The **UI** puts commands into the port's lanes and drains an event lane once per
  frame. It never calls the service.
* The **controller** is one task. It polls shutdown, messages, joins, control,
  mutation and work, in that order, and starts one task per command. Tasks send
  `Completed` on an unbounded channel; the controller answers with a terminal
  event and cancels the entry's *terminal token*, on which disconnects, reconnects
  and mutation completions wait.
* The tasks call the **service**, whose state is one mutex that is never held
  across an await. Anything a task read may therefore be stale when it goes on;
  the *profile generation* and the *session generation* are the protection.
* The service calls the **writer** from a blocking thread, one mutation at a time
  within the process. Another program, or another dbotter, may edit the file at
  any moment, and the process or the machine may stop at any moment.

What is hard, and what correctness means:

* *Writer*: crashes between any two file system calls, twelve injected failures,
  edits by others. The main file is never torn, `Committed` is never undone, an
  error means nothing was committed, a V1 file is replaced only after its bytes are
  durable in the backup, and nobody's backup is overwritten.
* *Service*: connects that end after the profile was edited, deleted or reloaded;
  secrets replaced while in use; a commit that cannot be observed. A result comes
  only from a session of the published profile, no connection leaks, no removed
  secret is in use once the change is done, generations are never reused.
* *Controller*: early returns, panics, aborts and cancels at any point, everyone
  waiting for everyone. One terminal event per command, no lost permit, key, task
  or waiter, and a shutdown that completes although the network hangs.
* *Window*: events that are older than what the user did last, commands that the port
  coalesces or refuses, saves and reloads that change generations under an operation.
  The card never names a session of other connection fields, and nothing the window
  waits for, and which keeps it from doing something else, is lost.
* *Exports*: rivals that write to the destination, cancels, failures past the commit
  point, power loss. A file is replaced only if the user agreed to that very file, and
  what is answered is what happened.
* *Explorers*: pages, filters, refreshes, retries and evictions in any order over a
  session that may be gone. What is shown as complete is complete, budgets add up, and no
  browse is pending for ever.
* *Statements and errors*: the caret at every boundary, both ways to read a backslash;
  every failure of every operation. What is sent is one whole statement, and the recovery
  that is shown fits the failure.

The full list, each at its line and with the properties that would catch it, is
`hazards` in `PROJECT.json`.

## 2. Modules and the code they stand for

`PROJECT.json` maps every definition to its lines. Text, formatting, logging,
error wording and payloads are left out; guards, early returns, their order and
every state change are kept.

### ConfigContent, ConfigWriter

`ConfigContent` has what a configuration file can be (missing, unreadable, torn, or
a version with profiles), `normalize_v1`, `apply_mutation`, id allocation and
profile validation as operators. `ConfigWriter` is `mutate_path` with one action
per file system call:

`lock → load → apply → [backupRead → backupTemp → backupWrite → backupFileSync →
backupRename → backupDirectorySync] → mainTemp → mainWrite → mainFileSync →
recheck → rename → directorySync → observe → done`

Every action has a success and a failure disjunct (the `MutationFailpoint`s and
plain I/O errors). `ProcessKill` stops the threads and releases the lock; `PowerLoss` also
loses directory entries that were not fsynced. A directory entry changed since the
last fsync of its directory may come back as any value it has had since: the
*survivors*. `EditMain` and `EditBackup` are another program.
`EditInRenameWindow` says whether it may write between the byte comparison and the
rename, a window the doc comment of `ConfigWriter` admits the code cannot close.

`AtomicConfig` is the promise: one content, changed in one step by a mutation of
the content present at that moment, by another program, or by a power loss that
undoes changes not yet answered `Committed`. `ConfigWriterRefinement` gives the
mapping: the abstract content is that of the main entry.

### ProfileService

Every action is what runs between two awaits. The file is the variable `disk`,
updated in one step, which is what the refinement above justifies.

* A mutation: `Begin` (request checks) → the write (committed, committed but
  not observable or changed by another program, or failed) → the snapshot of cached
  session identities under one lock → the publication under another (generations,
  tombstones, retag of an idle session, cleanup targets) → the controller cancels the
  old generation's work, waits for its terminal tokens, evicts the exact sessions,
  clears the secrets.
* A task: `acquire → credential → connecting → install → displacing → operate →
  observe → evict → finished`. It may be cancelled or meet its deadline at every
  await; both drop the future, and what it owned.
* A control (disconnect, reconnect): captures the cached session, cancels and waits
  for the profile's tasks, evicts what it captured, reconnects if asked.

Connections are counted in the history variable `open`, secrets that were removed
in `revoked`; the code has neither.

### Controller

`workLane`, `mutationLane`, `controlLane` and `keys` are the port. `stage`, `task`,
`waits`, `cancelled` and `terminal` are the registry entry of each operation: what it
runs (its command, a mutation's completion, a failure cleanup), where its future is,
and its tokens. Semaphores are fair queues: the first `limit` of a queue hold a
permit. One poll of the biased `select!` is atomic. Panics, `JoinSet` reaping, the
cleanup registered for a panicked task, the two-second grace of a shutdown with the
abort of what is left, and the mode without a service are modelled. What a task does
with the database, service or file is one nondeterministic step.

Any client of the port may submit any command at any time, a superset of what the
screen allows. Left out: `SessionAcquired` (which session a failure cleanup
evicts) and the capacity of the event lane (terminal events are *attempted*; a full
lane drops them). The join-error branch inside the message handler cannot be reached
and has no action.

### UiModel, DbotterApp, Window

`UiModel` is `ui/model.rs`: a model is a record and `Fold(m, e)` is `UiModel::fold`,
with one operator per event. `DbotterApp` is `ui/app.rs` and the save of
`ui/profile_form.rs`: operators from a *world* (the model, the application's own state,
the port) to the next one, one for each `submit_…` function, for `retry_recipe`, for the
credential prompt and for each part of `poll_events`; `Handle` is one event of it and
`EndFrame` what it prunes at the end.

`Window` composes them with the port, the controller and the service. `Poll` takes one
event, `FinishFrame` ends a frame, and only then a button may be pressed: `drain_events`
takes some prefix of what is queued. `profile_card`, the statement editor, the explorers,
the form, the dialogs and the recovery actions of a failure say which buttons there are.
Behind the port the controller and the service are at the grain the window can see: an
operation gets a session in one step and answers in another; a mutation is written and
published, its outdated work cancelled and joined, and then answered. What happens
between two locks of the service, panics, global permits and shutdown are in
`ProfileService` and `Controller`. A Reconnect cancels what its profile runs and waits for it;
it may be cancelled itself while it waits, or run out of time.

Left out: draft tests, the contents of pages and results, the selection, migration
consent, the recovery action that cancels another operation, the cap of 64 retry recipes
and a full event queue.

### ExportFile, TokenKey

`ExportFile` has the window's side of an export (`submit_result_export_to`,
`handle_export_terminal`, `prune_result_export_state`, a newer result), the worker, and
`export_result_to_file` with one action per file system call, on the file system model of
`ConfigWriter`. An entry's number stands for its `FileIdentity`: a rival's change gives a
new one. `TokenKey` is `load_or_create_token_key` in several processes that share a
directory: read, private temporary, write, fsync, no-clobber rename, directory fsync,
and the second read of the process that lost the race.

### Browsing, RedisExplorer, CatalogExplorer

`Browsing` is what the explorers share, for one profile generation: the operations the
window submits with their recipes (`RetryRecipeRegistry` with its cap), the one permit of
the profile, the session that a task finds or opens, and the queue of events.
`RedisExplorer` adds `RedisScanAccumulator` and `RedisExplorer` with the window's
dispositions of their events; SCAN is modelled by its guarantee only: a key that stays in
the keyspace is returned at its cursor, any other may come, go or be repeated.
`CatalogExplorer` adds keyset paging (one row more than the page is fetched), page tokens,
`CatalogRetention` in the driver and in the explorer, and `MySqlExplorerState`. A node
counts for one of the byte budget. Failed, NeedsCredential and Closing are one
"Disconnected" here; `Window` tells them apart.

A network command is started only if no task of the profile is under way and refused
otherwise, which is `start_profile_work`; a Reconnect that finds nothing to join may be
refused for want of a global permit. A Disconnect or Reconnect is taken before a command
that was sent earlier and still waits in the lane of other work; that command is taken, and
refused, before the control ends. In the code it could be taken later still, once the
control is over: `Controller` has that order, this module does not. `cycle` and `adopted`
are history variables: which list a scan or page request was made for, and whether an answer
was ever folded into another one.

### StatementExtraction

The scanner of `execution.rs` over texts with one character per class it tells apart, and
beside it a reference definition that says in one pass from left to right what each
character belongs to, with and without backslash escapes. Positions count from 0.

### PublicErrors

The path of a failure: the service errors each operation can raise, `public_error_parts`,
the recovery table of `public_error.rs` row by row, the context the runtime gives it
(`public_profile_error`, `result_export_file_error_event`, ...), and
`attach_retry_recipe` in the window, which computes the table again.

### MC modules

`MCConfigWriter`, `MCProfileService`, `MCController` and `MCWindow` give instances of one
module each. `MCExplorers` extends both explorers and has a profile of one driver or the other, and `MCParts` a
subject that is one of `ExportFile`, `TokenKey`, `StatementExtraction` and `PublicErrors`,
which share no state: a behaviour is about one of them. It extends the first three, so that
their properties are the ones the proofs are about, and instantiates the last.

## 3. Runs

| Run | Instance | What it shows |
|---|---|---|
| `config` | 2 threads, 2 calls, 1 edit, 2 crashes; V1, V2 or missing file; four mutations; no edit in the rename window; fair | refinement of `AtomicConfig`; main file never torn, `Committed` durable, answers true, V1 bytes durable in the backup before they are replaced, backups never overwritten; every call returns |
| `service` | 1 profile with a session secret, 2 task slots, 2 mutations, 1 edit by another program | sessions match the published profile, handles accounted for, a cleared secret unused, fenced work joined before a mutation is answered, ready means current, generations fresh, a changed profile never keeps its generation |
| `service_liveness` | 1 profile, 2 tasks, 1 mutation, fair, a server that may never answer | every mutation and every task ends |
| `controller` | eight scripts of two to four commands over one profile, one draft, one result; one cancel; panics; a shutdown anywhere | answered at most once, mutations serialized, permits, keys, waiters and tasks accounted for, profile exclusion, coalesced disconnects |
| `controller_liveness` | two scripts, fair | accepted commands settle when deadlines hold; a shutdown completes although network tasks hang |
| `window` | ids 1 (MySQL) and 2 (Redis), seven scenarios: every button and an outside edit on a profile with a session credential, the same on a Redis profile (3 operations); connect, disconnect, execute, cancel and a save of other connection fields (5 operations), and with reconnect and saves that keep the session (4 operations); prompts and browsing over reloads (5 operations); connect, execute, cancel and both controls (7 operations); browse, reconnect and deletions (6 operations) | the card is about the active generation's connection fields; tracked operations, pending executions and prompts are answered; active generations are above tombstones; window and service agree when all is answered |
| `parts` | two exports of two results to one path, one rival change, one power loss; two processes with two restarts; texts of up to six characters in four alphabets; every failure | no file replaced without consent, answers true, `Exported` durable, exports settle; one token key; what is sent is a whole statement that holds the caret, whichever way backslashes are read; recoveries fit |
| `explorers` | three keys at two cursors, two filters, a cap of two keys; four schemas, two relations and two columns with two nodes to a page, caps of three, one and one, and a budget of three; three operations, two sessions, two recipes | complete means complete for both explorers, the catalog budget is exact, the card's session is live, browses settle |
| `service_disconnect`, `service_secret`, `window_disconnect`, `redis_autoconnect` | the smallest instance that shows it | disagreements between code and documents, section 6 |

Each property has a mutant in `PROJECT.json`: a version of one mapped definition with
a plausible bug, for which TLC finds that property violated.

### Bounds, and why they are enough

* `MaxCalls`, `MaxEdits`, `MaxCrashes`: two calls are needed for a lost update or a
  call on the remains of an earlier one; two crashes let a migration undone by a power
  loss be tried again. The mutations are a create with a generated id, a valid and an
  invalid update, and a delete. The safety theorems of section 5 hold without these bounds.
* `MaxMutations = 2`, `MaxTasks = 2`: one task of an old generation, one of a
  new one (or a control), and a mutation after the one that fenced. The known races of
  section 6 need one mutation and two tasks.
* `Scripts`: the sets of operations submitted together. Each contains commands that
  share a permit, key, lane or waiter: any two of connect, disconnect, reconnect and
  update meet with a third, two disconnects meet with a connect and a reconnect, and
  drafts and exports meet commands of their own kind. Combinations across scripts are
  not explored; `GlobalLimit = 1` makes every script with network work contend. Lane capacities are the smallest that admit one queued
  command (two on the control lane), so full lanes happen.
* `MaxCancels`, `Cancellable`, `Fragile`: which operations may be cancelled or panic;
  `Fragile` has a connect, an update, a draft test and an export. Controls do not panic
  in these runs.
* `Scenarios`: the buttons there are, the contents that are saved, and the operations
  the window numbers (the first is its own load). With every button two more operations
  follow, enough for a save or a delete over a running operation and a late answer; the
  scenarios with fewer buttons have three or four more, enough for a connect, an operation on
  it, a control and what comes after. The last two scenarios are there for what needs a longer
  sequence, both of section 6: a Reconnect that overtakes a statement (seven operations) and
  a Reconnect that is coalesced after two refused deletions (six). All buttons with four operations on one profile were run
  once, outside these runs, and hold.
* `explorers`: three operations are a first page, a continuation and what interferes with
  them (a refresh, a control, a retry). Each cap is smaller than what there is, and each
  was seen to be met (by asking TLC for a state that meets it): two pages of schemas pass
  their level cap of three in the middle of the second page, or meet it exactly after a
  node was dropped; the second relation and the second column are cut, one by the cap of its
  level and one by that of a list of columns; and the shared budget of three refuses a page
  of relations after three schemas, or of columns after two schemas and a relation. The Redis key cap of two is met by three keys. `Oversize` is empty in the run,
  and a retry that is adopted by a later list needs four operations on the Redis side:
  those two cases are left to the theorems.
* `parts`: six characters hold a quoted or commented delimiter with a statement on either
  side; the four alphabets each have what one class of token needs. Two exports to one
  path are each other's rivals too. The failures are enumerated completely.

Symmetry is used for the task slots of `service`, which has no liveness property; no
action, no invariant and no action property distinguishes them. `CHECK_DEADLOCK FALSE` everywhere: a bounded
behaviour ends when its calls are used up, and a closed application stops.

### Fairness

* `ConfigWriter!FairSpec`: weak fairness of a thread's steps. They are file system
  calls, which return, and the lock is handed over in turn since each holder leaves it.
  Crashes and edits are not fair.
* `ProfileService!FairSpec`: weak fairness of the steps of mutations, tasks and of the
  controller. The server's answer is *not* fair; the deadline is, as every driver call
  of the code is inside `tokio::time::timeout`.
* `Controller!FairSpec`: weak fairness of the controller's loop, the grace timer and the
  durable tasks (mutations and exports, which are local). Network tasks may hang.
  `AcceptedSettles` therefore carries its own hypothesis `DeadlinesHold`;
  `ShutdownCompletes` does not.
* `MCExplorers!ExplorersSpec`: weak fairness of the window's polling (it repaints every
  frame while something is pending) and of each task, whose driver calls have deadlines.
  The user is not fair.
* `MCParts!PartsSpec`: weak fairness of the export worker, a blocking thread of local file
  system calls, and of the handling of its answer. `ExportsSettle` excepts exports that
  die with the machine.

## 4. What the properties are about

The comment above each definition states it in words and names the code. Some are
conjunctions of named parts:

| Property | Parts |
|---|---|
| `ProfileService!HandlesAccounted` | with the type invariant |
| `ProfileService!SecretsSound` | `ClearedSecretUnused`, `SecretsBelongToProfiles` |
| `Controller!ResourcesAccounted` | `TypeOK`, `PermitsAccounted`, `KeysBacked`, `DisconnectsCoalesced`, `NoDetachedTask` |
| `Controller!AnswersSound` | `AnsweredOnce`, `CompletedTasksJoinAtOnce` |
| `Controller!ExclusiveAccess` | `MutationsSerialized`, `ProfileExclusive` |
| `Window!PendingIsAnswered` | `TrackedOperationLives`, `ExecutionsSettle`, `PromptStoreLives` |
| `Window!GenerationsSound` | `LiveAboveTombstone`, `GenerationsAgree` |
| `StatementExtraction!TargetsAreStatements` | `CaretTargets`, `SelectedTargets` |

`ScanComplete` and `CatalogComplete` except one case, in which they are false: a retry
that continues a list the explorer has forgotten meanwhile (section 6). A statement after
one that the scanner calls ambiguous is excepted by `BoundariesIgnoreSqlMode` for the same
reason. `ConnectedIsLive` allows the time until the event that says otherwise is polled.
`PendingIsAnswered` excepts Disconnect and Reconnect, which the port may coalesce with a
control whose answer the window no longer waits for, and the pages of a Redis profile that
the window ignores (section 6).

## 5. Proofs

Eight modules, checked by TLAPS; `PROJECT.json` lists the theorems a reader should know of.
Of the 33 safety properties of the passing runs (the 40 without the seven liveness ones), 29 are
theorems for every value of the constants, under the `ASSUME`s of their modules.

### The writer: ConfigWriterProofs

For every set of threads, ids, bodies, initial contents, edits and bounds. Assumptions: the
named `ASSUME`s of `ConfigContent` and `ConfigWriter` (`NoWriter` is no thread; the contents
the environment uses are contents and not torn; the submitted mutations are mutations), and,
for the last two rows only, `~EditInRenameWindow`. The run `config` checks all but
`Serialized`, which `IsAtomic` would not survive without.

| Theorem | Property |
|---|---|
| `TypeCorrect` | `TypeOK` |
| `MutualExclusion` | `Serialized` |
| `MainFileNeverTorn` | `NeverTorn` |
| `CommittedStaysCommitted` | `CommittedIsDurable` |
| `AnswersAreTrue` | `OutcomeMatchesCommit` |
| `BackupNeverReplaced` | `BackupNeverOverwritten` |
| `MigrationKeepsOriginal` | `BackupHoldsOriginal` |
| `WriterIsAtomic` | `IsAtomic` (`Spec => AtomicConfig!Spec` under the mapping) |

The argument is in layers, each inductive relative to the ones before it:

1. `TypeInv`: `TypeOK`, and a thread that is not idle has a job (`JobGiven`). Without it
   nothing is known about `job[w].mutation`.
2. `Serialized`: a thread in a locked step holds the lock. So two threads are never
   both between load and observation.
3. `CrashInv`: `SyncedBeforeRename` (the temporary of a thread at recheck or rename is
   synced, so that what is renamed survives whole), `NeverTorn` for the main entry *and*
   its survivors, and `CommitsKept` (no survivor is older than the newest change answered
   `Committed`). The last two are what makes a power loss harmless.
4. `AnswerInv`: `CommitPoint` (a call has a sequence number exactly when it is past its
   rename) and `OutcomeMatchesCommit`.
5. `BackupProgress`, under `~EditInRenameWindow`: past the backup steps of a V1 file its
   bytes are the backup and its only survivor. From it, `BackupHoldsOriginal`.
6. `ChecksPassed`, for the refinement: at the rename, what was loaded is what the main
   entry holds and the mutation applied to it is not an error, so that the rename is one
   abstract `Mutate`.

`NeverTorn` and `CommittedIsDurable` alone are not inductive: a power loss picks a
survivor, about which they say nothing.

### The service: ProfileServiceProofs

For every finite set of natural numbers as profile ids (`IdsAssumption`; the runs have one or
two), any number of concurrent tasks, mutations and outside edits:

| Theorem | Property |
|---|---|
| `GenerationsAreFresh` | `GenerationsFresh` |
| `GenerationIsOneProfile` | `GenerationPinsProfile` |

`GenerationsFresh` by itself is not inductive: a fresh number could collide with one
already given out. The invariant adds `GenerationsBelowNext` (every number given out is
below the counter). A mutation or a reload renumbers several profiles at once, each by its
rank among the changed ids; `RanksDiffer` shows the ranks of a finite set differ,
`FreshIsNew` that the new numbers are above all earlier ones, `SteadySteps` that every
other action leaves the numbers alone, `RenewingSteps` the two that do not.

Sessions and secrets, on top of it and under the same assumptions (with
`ProfilesAssumption`, the shape of a profile, and `BoundsAssumption`, that the bounds are
natural numbers; how large they are does not matter):

| Theorem | Property |
|---|---|
| `HandlesAreAccounted` | `HandlesAccounted`, with the type invariant |
| `CurrentSessionsMatch` | `CurrentSessionMatchesProfile` |
| `ReadyAnswersAreCurrent` | `ReadyIsCurrent` |
| `FencedWorkIsJoined` | `FencedWorkJoined` |
| `SecretsAreSound` | `SecretsSound` |

1. `Typed`: the parts of `TypeOK`, and that a task and its lease are of one profile and one
   generation of it.
2. `HandleInv`: the open connections are exactly those in the cache, those a task opened and
   has not installed, and those a task displaced, *and* no connection has two owners
   (`OneOwner`). Without the second half a task that closes what it displaced could close
   another owner's connection.
3. `MatchInv`: a session tagged with the published generation has the published connection
   fields, and so have the lease of a task (it will be installed) and the fence of a mutation
   (a deferred session will be retagged for it).
4. `FenceInv`: the generation of a clean-up target is over, and its tasks are among the
   waiters or can no longer get anything.
5. `SecretInv`: what a mutation knows of itself and of the file it loaded, that nobody has a
   session or a lease of a generation the mutation ended and the window has not heard of
   (`NothingCurrent`, with the one exception of a session that was retagged with its secret),
   that a secret belongs to one profile, and which of them the clean-up will remove.

The attempt to prove the stronger `RevokedSecretUnused` (no session that can be handed out was
ever opened with a removed secret) failed for a good reason: the retag does not look at the
generation of the session it tags. TLC has the behaviour, run `service_secret`.

### The controller: ControllerProofs

For any operations of any kinds, subjects and generations, any lane
capacities and limits (`ControllerAssumption`: they are positive numbers), and whatever the
client submits, cancels and shuts down and whichever tasks panic:

| Theorem | Property |
|---|---|
| `AnswersAreSound` | `AnswersSound` |
| `TargetsAreSettled` | `TargetsSettle` |
| `AccessIsExclusive` | `ExclusiveAccess` |
| `ResourcesAreAccounted` | `ResourcesAccounted`, with the type invariant |

1. `AnswerInv`: a command is in at most one lane, once (`Lanes`); nothing has happened to one
   the controller has not seen (`Untouched`); an entry is unanswered and its token unfired
   (`Unanswered`); and a message of a registered operation is the only one, of a task that is
   done (`Messages`). Only past the grace period may a message be that of an aborted task.
   `AnsweredOnce` alone says nothing of what is still in a lane or in the message queue.
2. `ExclusionInv`: the mutation flag is up exactly while a mutation or its completion is
   registered; an awaited token was fired or its operation is registered; and of two tasks on
   one profile generation one waits for the other (`Ordered`), which is what makes exclusion
   inductive although a Disconnect takes no permit.
3. `PermitInv`: those queued for a permit are alive, and a task that runs and needs permits is
   among the first of its queues. It needs to know that a queue without some of its members
   keeps the others in no later a place (`Leaving`).
4. `KeyInv`: a key in use is backed by a queued command or an entry; an accepted Disconnect
   that is not answered has its key *and is the only one of its profile*, or the answer to one
   would release the key of the other; and `MessagesFit`: the event a task completes with is
   one that releases the key of its own command.

`Leaving` is about a recursive function, so it needs induction over numbers. The library's
induction theorems take an operator as a parameter and cannot be used; `UpTo` has the same
content for a set instead of an operator, and follows from the well-foundedness of `<`.

### Exports and the token key: DurableFileProofs

For any exports, results, paths, rivals' changes and power losses (`ExportAssumption`: there
is a result and a path), and for any processes, starts and power losses:

| Theorem | Property |
|---|---|
| `NoRivalClobbered` | `RivalsKept` |
| `ExportedStays` | `ExportedIsDurable` |
| `ExportAnswersAreTrue` | `ExportAnswersTrue` |
| `TokenKeyIsOne` | `OneTokenKey` |

Their invariants say where a call is and what it has done so far (`Progress`), that every
file number in use was given out (`Numbered`), what is at the destination between the check
and the rename and between the rename and the fsync (`Destinations`), and that a key, once
there, is the only one a power loss may leave (`KeyStays`). An edit by another program
between the check and the rename is not excluded: `RivalsKept` names it.

### The explorers: BrowsingProofs, ExplorerProofs

For any keyspace, filters and cap (`KeyspaceAssumption`: every key has one cursor, a filter
matches some keys), for any finite catalog, page size and caps (`CatalogAssumption`: a node
has a branch and a place in it), and any number of operations, recipes and sessions:

| Theorem | Property |
|---|---|
| `RedisCardIsLive`, `CatalogCardIsLive` | `ConnectedIsLive` |
| `RedisScanComplete` | `ScanComplete`, with the type invariant |
| `CatalogIsAccounted` | `CatalogAccounted`, with the type invariant |
| `CatalogIsComplete` | `CatalogComplete` |

1. `BrowseInv`, for both explorers, with their requests and contents as parameters. An
   operation that runs without being the active one was displaced by a Disconnect, and that
   Disconnect waits for it (`OnlyActiveRuns`). So its answer comes before the Disconnect's own,
   while the card is pending (`ActiveAnswersLast`), and nobody but the active operation changes
   the session under a card that says connected (`LeaseIsCached`, `AnswerIsTrue`, `CardIsLive`).
   `ConnectedIsLive` alone does not say who else could evict.
2. Redis: the list holds the stable keys the iteration has passed (`Gathered`), and a request
   that continues a list still has its filter and its cursor when it is answered, *or when it
   is retried after a failure* (`Continues`).
3. Catalog: at most one page is outstanding, displaced or not (`OnePageOut`), so a branch is as
   it was when the page that continues it was asked for (`Resumes`); a page that ends at a token
   misses no stable node before it (`Covers`), which rests on what LIMIT n + 1 in the order of
   the rows returns (`FirstNHolds`).

The first attempt at `ConnectedIsLive` failed, for a good reason: the model let a command
start beside a task of its own profile, and a control close before an earlier command was
out of the way. The code does neither; the guards were corrected, and the runs repeated.

### The window: WindowProofs, WindowPendingProofs

For any finite set of ids, any contents, connection fields and scenarios, and any number of
operations (`UiModelAssumption`, `DbotterAppAssumption`, `WindowAssumption`: ids are positive
numbers, what is on disk is a configuration or unreadable):

| Theorem | Property |
|---|---|
| `WindowSafe` | `WindowInv`, the inductive invariant |
| `WindowCardsFit` | `ConnectedBelongsToActive` |
| `WindowAboveTombstones` | `LiveAboveTombstone`, a part of `GenerationsSound` |
| `WindowTracks` | `TrackInv`, the second inductive invariant |
| `WindowPendingAnswered` | `PendingIsAnswered` |
| `WindowAgrees` | `AgreeInv`, the third inductive invariant |
| `WindowGenerationsSound` | `GenerationsSound` |

1. `SessionFits`: a session's number and the generation it was opened for travel together from
   the cache through a task and an event to the card. A cached session is of the current
   generation or a target of the mutation under way (`SessionsFit`); the only place where a
   session changes its generation is the end of an update with the same connection fields
   (`MutationSound`, `RetainedFits`).
2. `AnswersInOrder`, `Behind`: mutations are made one after the other, so the generations in
   the event queue are in order for each id, up to the current one, and what the window holds
   for active is not newer than any of them. Without it a load folded late could make an older
   generation active again under a card that is connected.
3. `Shown`: a profile that is shown is not newer than the active generation, and a retag that
   waits for its load leads to that generation.
4. `Above`: an active generation is above its tombstone.

For these the application's own bookkeeping (`DbotterApp`) is not needed: everything the user does, and
everything the application does besides folding an event, is `Calm`: no generation changes, and
a card may only begin to wait. `Calm` is transitive, so the many operators of `DbotterApp` are
each shown calm once and composed; the folds of `UiModel` are shown to keep 1 to 4 one by one
(the `Folded...` lemmas), and the publication of a configuration once for mutations, reloads
and an uncertain file (`Publishes`). TLC checked `WindowInv`, and later `TrackInv` and
`AgreeInv`, as invariants on the instance of the run `window` before they were proved.

`PendingIsAnswered` needs all of the bookkeeping. `TrackInv`, proved in `WindowPendingProofs` on
top of `WindowInv`:

5. `Under`: what a card, a prompt or a workspace waits for is in a lane, runs as a task or as the
   mutation, or has its answer in the queue. A step of the controller carries it from one to the
   next (`Carried`); the application only adds what it has just submitted (`Asks`) or rests
   (`Rests`); an answer that is folded clears what waited for it (`FinishLater`, `PromptLater`).
6. `PriorLives`: the operation that a deletion displaced lives as long as the deletion does not
   know that it has ended, or a refused deletion would put back what was already answered.
7. `OperationsNumbered`: operations have growing numbers, mutations are made in that order, and
   a load is older than every mutation still to be made.
8. `Warnings`: the window does not fold a refusal for an uncertain configuration that is older
   than its last load, so such a refusal alone does not settle a statement. But then the refusal
   of the mutation that made the configuration uncertain, which is newer than any load before
   it, is on the way, or has been folded and no load after it was. Without 7 it could be
   overtaken.

`GenerationsAgree` speaks of moments at which all is answered, so its invariant has to say what
the answers that are still in the queue will make of the window. `AgreeInv`, on top of the two:

9. `Agreed`: folded in their order, the answers lead from what is active to the generations the
   service has published, not counting the mutation that is not answered yet (`Published`). A
   save is only folded over the generation it replaced, so each of them has to be led to that
   one (`Leads`); the save of a profile the window has lost would be ignored.
10. `Buried`: nothing on the way is refused as stale. What a deletion, or a load in which a
    profile is missing, buries is older than whatever the window is told of that profile
    afterwards, because the generation of a deletion is numbered with the others
    (`DeletionNewest`).
11. `Agreeing`: 9 is claimed unless a load is asked for or under way (`Reloading`), the service is
    uncertain, another program has edited the file, or the window will end up uncertain
    (`Blind`): a load is ignored if a newer refusal was folded before it, and the window then
    keeps saying that the configuration is uncertain. This uses 7: a load that is taken is newer
    than every refusal before it, and loads come in order (`LoadTaken`, `AnswersKnown`).
12. `FileKnown`: the file is what was last published, so a write publishes no other profile's
    change.

The attempt to prove two earlier properties failed for a good reason. That a Reconnect interrupts
nothing is false beyond the bound the run had: a statement queued before a Disconnect starts
after it, and a Reconnect an older failure offers cancels it. And an operation of any kind being
answered is false of a Reconnect that is coalesced, and of a Redis page while its profile is
being deleted (section 6). The first was dropped and its behaviour described, the second now
names the exceptions, the model's Reconnect was corrected to wait for the work it cancels, and
the run has two longer scenarios in which both happen.

### Only model-checked

* Liveness (`CallsReturn`, `MutationsComplete`, `TasksTerminate`, `AcceptedSettles`,
  `ShutdownCompletes`, `ExportsSettle`, `BrowsesSettle`), which is outside the proof
  system's reach.
* `TargetsAreStatements` and `BoundariesIgnoreSqlMode`: the scanner and the reference of
  `StatementExtraction` are `RECURSIVE` operators.
* `RecoveryFits`: a finite table without parameters, which TLC enumerates completely.
* `TypeOK` of `Window`. What the proofs above need of the types is in the `...Shaped` parts of
  their invariants, which say less (a generation is a number, not one that exists).

## 6. Disagreements between code and documents

Four are `violation` runs with a `findings` entry that has the lines and quotations:

* `service_disconnect`: the session to evict is captured before the cancellation; a
  connect that ends in between survives a disconnect that is reported done.
* `service_secret`: a connect that installs its session between the two locks of
  `reconcile_after_mutation`, while a credential is replaced or cleared, is in no clean-up
  target. The session stays in the cache under the old generation, opened with the removed
  secret; the next edit that leaves the connection fields alone tags it with the current
  generation, and it is handed out.
* `window_disconnect`: a result that is folded after Disconnect was pressed replaces the
  pending state; the answer to the disconnect is then ignored and the card goes on saying
  connected of a session that is gone. Pressed again there, Disconnect is coalesced with the first
  by the port if that is still pending, shown as pending, and never answered.
* `redis_autoconnect`: a Redis scan or inspection of a profile that is not connected opens
  a session, but the window refuses the answer because the card does not show that
  session: the page is dropped and the explorer goes on showing the scan as pending.

Five more properties state what a document says, fail, and are kept in their modules
without a run:

* `ProfileService!DeletedSessionEvicted` (spec.md:123; `MCProfileDisconnect.cfg` with this
  invariant instead of its own): a connect that installs its session between the two locks
  of `reconcile_after_mutation` leaves a deleted profile's session in the cache until exit.
* `ProfileService!OldWorkJoined` (trace.md:207; the same configuration): creating an id that
  another program removed gives a new generation without joining the old generation's work.
* `Controller!CancelReachesOperation` (spec.md:146; `MCController.cfg` with it as a
  property): the control lane is polled first, so a cancel can be taken before the command
  it is about and is then forgotten.
* `Browsing!OneCycle` (redis_browser.rs:24; `MCExplorers.cfg` with this invariant): after a
  failed Load more, a Reconnect forgets the explorer, and Retry then folds the page into a
  fresh accumulator, which may end as "complete". In the catalog, Clear keeps the error and
  its recipe, and Retry appends page two to an empty branch.

* `PublicErrors!ServerRejectionFocusesEditor` (spec.md:318, spec.md:330; `MCParts.cfg` with
  this invariant): a statement the MySQL server rejects is shown as an unreachable server,
  and a missing privilege as an internal failure.

In the sessions' races a session of *other connection fields* is never handed to a task of
the new generation (`CurrentSessionsMatch`, `ReadyAnswersAreCurrent`); one opened with a
secret that was removed is, after a retag (`service_secret`).

Smaller things met while modelling, for which no property is stated:

* Catalog failures keep the summary but not the code (`catalog_failed_event` gives
  `PublicCode::None`), so a wrong password in a catalog auto-connect is an internal
  failure, and ClearCatalog (trace.md:470) is never offered.
* UnsupportedFeature of a connect without the legacy TLS code, a stale draft test, and a
  cancelled disconnect have no row of the recovery table and become internal failures. A
  busy refusal never knows the operation it waits for. Retry is offered by the runtime
  although the window's recipe may have expired, and `retry_recipe` uses the recipe up
  even if another operation is active.
* A first SCAN page without keys and with a cursor cannot be continued: `load_more_intent`
  wants a key (trace.md:387).
* The scanner takes a backslash for an escape inside backticks. Statements after an
  ambiguous one are not called ambiguous themselves (spec.md:141).
* A newer result drops the destination of the older one's committed export.
* A statement that was queued before a Disconnect starts after it; a Reconnect that an older
  failure still offers then cancels it.
* A deletion that is refused gives back the operation it displaced, a second one pressed
  before that answer gives back the first deletion. After two refused deletions over a
  Reconnect under way nothing is pending any more; the next Reconnect is coalesced by the port
  with the first, shown as pending, and not answered under its own number.

## 7. What could come next

All components of section 1 but those of section 8 are modelled, and every safety property
that the proof system can reach is proved but the type invariant of `Window`. In this order:

1. Composition of `Controller` with `ProfileService` for `SessionAcquired`, and draft tests.
2. The Redis target of `execution.rs` with its deny list.

## 8. Not modelled

Database drivers and their libraries (seen as: they connect, fail in one of the classes of
`PublicErrors`, or never answer), the text encoders for export and the byte caps of
previews, read-only classification and the Redis deny list (word lists), drawing,
accessibility labels and themes, the command line (one sequential service call),
environment look-up and zeroing of secrets, path resolution, MongoDB (unavailable in this
version of the window), build and release scripts. They are pure formatting or library calls, or keep
no state that another part can meet half-way.

Within what is modelled, these details are left out:

* `ConfigWriter`: a backup that another program makes lands whole, so that the directory
  sync makes it durable. The code does not sync the data of a backup it finds.
* `ProfileService`: the refusals of `validate_profile_for_network`, of `ensure_ready` and of
  a TLS mode that a driver lacks, which end like any other failed acquisition; the two read
  locks of an acquisition are one; `Install` compares the connection fields where the code
  compares the whole profile, so that it installs more often than the code does.
* `Controller`: a cancel that is answered as unavailable also emits a `ProfilesFailed` under
  the number of the operation it was about. It is no terminal event of that operation and
  `attempts` does not count it.
* `UiModel`, `DbotterApp`, `Window`: every refused deletion is one that was not committed,
  so the branch of `finish_active_operation` for a failure
  that may have committed is not taken;
  `SubmitConnect` is offered without the `can_connect` and `is_ready` guards of the button,
  which allows more than the code.
* `ExportFile`, `TokenKey`: the rename that replaces nothing is the system call of Linux,
  Android and Apple systems. The fallback of other systems, a hard link and then a removal,
  may fail between the two and is not modelled.
* `Browsing`: the eviction of a session and the event about it are one step.
* `CatalogExplorer`: a cap keeps a prefix of a page, counted in nodes. Past the byte cap the
  code may still keep a later, smaller node; the branch is marked truncated either way.
* Hazards without a property, each with its reason in `PROJECT.json`: a cancel that overtakes
  its command (its property states the documents' claim and fails), a full event lane, and
  a panic right after `SessionAcquired`. Two are caught in part: `ResourcesAccounted` sees a
  coalescing key that outlives its control but not one that another operation's event
  releases too early, and `PendingIsAnswered` excepts the controls and the Redis pages that
  section 6 describes.
