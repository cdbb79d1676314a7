# AI Worker Platform: TLA+ models and proofs

The platform is an Express application (`src/backend`) with a Vue frontend (`src/frontend`) that runs approved
Python skills as jobs. A job is a document in Firebase (over REST) or SQLite; a durable queue claims it under a
lease, a runner executes the skill in a child process, and users may cancel it meanwhile. Several runtimes may share
a store, and any of them may die at any point. Around that stand services that create jobs, verify packages, keep and
remove files, report failures, ask a language model for wording, administer settings and deploy; browsers follow a job
over a WebSocket. What makes this code hard to test is that nearly every handler reads a document, awaits something,
and writes a copy back, and that the browser does the same with answers.

This directory models the parts that own that state, checks them with TLC, and proves the central results with TLAPS.
`PROJECT.json` lists every run, theorem and hazard and says which source lines every definition models.

Paths below are relative to `src/backend/src/` unless they start with `src/`.

## Inventory

| Component | State | Operations | Hard behaviour | What makes it correct |
|---|---|---|---|---|
| Durable queue: `queue/jobQueue.js`, `services/runtimeIdentityService.js` | `queueRuntime` of each job (owner, lease deadline, queue state, cancellation flag); `queuedJobIds`, `knownJobIds`, `activeJobIds`, `drainInProgress` per process | enqueue, drain and claim, heartbeat, finalize, reconcile, cancel, shutdown | leases that run out, several runtimes, process-local sets read before an await and written after it, SIGTERM with executions under way | one owner per valid lease, every job ends, terminal is final, the concurrency limit |
| Cancellation: `services/jobService.js`, `services/jobControlService.js` | `job.cancellation`, status `cancelling`, the flag in worker state | cancel request | read, transaction and save of an older copy; a second request; the result of the run | who cancelled is never lost, partial output is not hidden, the request reaches the child |
| Job model: `models/Job.js`, `models/compatibility.js` | document, snapshot of the copy as it was read | create, find, save, delete | Firebase writes the whole copy, SQLite the changed fields with a conflict test | no lost update, no lost result |
| Skill runner and process: `skills/genericSkillRunner.js` | the copy of the job, output records (`job_files`); child, sentinel file, stop and kill timers | load, `generating`, execute, poll, stop, kill, persist result, publish, fail | every save may conflict or fail; timers against the exit event | always ends, a result that was written counts, counts add up |
| Stores: `db/firebaseRestClient.js`, `db/sqliteStore.js`, `db/jsonTree.js` | document tree; ETag or revision | transaction, plain write, patch | optimistic retry, lost and late responses, writes of other processes | a transaction is one atomic step, at most once |
| Creation: `skills/genericSkillJobService.js`, `utils/jobIdGenerator.js`, `services/jobControlService.js` | idempotency reservations, reserved IDs, workspace, input records | create with rollback | retries of a client, crash between any two of a dozen steps, reconciliation of a half-created job | one job per key, a failed creation leaves nothing, a started job has its inputs |
| Packages: `skills/skillPackageService.js`, `skills/approvedSkills.json` | files of a package, approvals | verify at start, creation, claim and spawn | files replaced between a check and the use | what runs is what was reviewed |
| WebSocket: `websocket/*.js`, `services/workerStateService.js` | subscriptions per socket, worker state | subscribe, publish, heartbeat, close | close during an awaited subscription; publications in flight overtake each other | subscribers learn the end, no leak |
| Files: `services/cleanupService.js`, `services/storageService.js`, `services/jobService.js` (rerun, downloads) | files and their records | plan and run cleanup, rerun, availability | crash between the file and its record; readers of a file about to go | inputs stay until their retention ends, records agree with files |
| Reports: `services/jobService.js`, `services/jobContextService.js`, the views under `src/frontend/src/views` | none: each derives from the stored job | detail, list, summary, diagnosis, context | six programs read one record | they do not contradict each other |
| Pages: `JobDetailView.vue`, `JobHistoryView.vue`, `GenericSkillView.vue`, `views/shared/workerRuntime.js`, `services/websocketClient.js` | detail, list and page number; form; selected job, socket | load, live update, page, filter, submit, reconnect | answers out of order, a component that serves all routes, handlers that belong to the client and not to the socket | a page shows one job whole, paging skips nothing, what is submitted is what is shown |
| Language model: `llm/*.js`, `services/healthService.js`, the three services that word an answer | cached verdict | call with retries, probe, fallback | overlapping probes, late replies, deadlines of two programs | an answer is the model's or says it is not |
| Administration: `services/admin*.js`, `middleware/adminAuth.js` | accounts, revision of the database | login, check, edit, export, import | read, await, write; other processes | a token names its account, a write knows what it replaces |
| Deployment: `services/deploymentService.js`, `src/*.ps1`, `server.js` | handoff in progress, processes on two ports | hand over, stop, build, launch, wait | a second deployment while the first one is not settled | the service comes back |
| Other models, routes, CLI, `src/skills` | none, or not shared | | | see Not modelled |

How they interact. `createSkillJob` verifies the package, reserves key and ID, writes the folder, the document and the
input records, and calls `enqueueJob`. `drainQueue` claims a queued job in a store transaction
and starts `executeClaimedJob`, which runs a heartbeat timer beside the skill runner and calls
`finalizeClaim` at the end. The runner writes the document with `Job.save` three times
(`generating`, the result, or a failure) and publishes events between, which the WebSocket server sends to the
clients subscribed to the job. `cancelJob` reads the document, calls `cancelQueuedJob` (a transaction) and saves its
copy. `renewLease` carries a cancellation recorded elsewhere to the runtime that executes the job. `reconcileQueue` runs at
startup and every 30 seconds and takes up, fails or finishes what a dead runtime left. The pages load a job over HTTP and
change it from messages; the reports and the language model's context read the same document; cleanup and rerun meet at
the job's input files.

## Modules

| Module | Models | Notes |
|---|---|---|
| `JobDocument` | the document, the updaters of every queue transaction, both forms of `Job.save` | pure operators; the lease deadline is "none", "valid" or "expired"; `heartbeatAt` is kept as far as it makes texts differ |
| `JobQueue` | `queue/jobQueue.js` of every runtime | a function up to its transaction is one step, the transaction with what follows it another |
| `SkillRun` | one execution in `genericSkillRunner.js` | the child is the envelope it leaves |
| `JobCancellation` | `cancelJob` around `cancelQueuedJob` | three steps: read, mark, save |
| `JobLifecycle` | the three together over one store; fairness and properties | composed by interleaving over `docs`, `runs`, `faults` |
| `JobContract` | what the queue promises of a job, seen from outside | the refinement mapping is `Contract` in `JobLifecycle` |
| `AtomicDocument` | what `database.transaction` promises | abstract |
| `TransactionContract` | what callers of both stores see: attempts and outcomes | shared by the two below |
| `RestTransaction` | `transactionFirebase` and the server | implements `AtomicDocument` |
| `SqliteTransaction` | `SqliteStore.transact` among other processes | implements `AtomicDocument` |
| `Transactions` | the two side by side | a process uses one of them |
| `SkillProcess` | `executeProcess`: poll, sentinel, SIGTERM and SIGKILL timers, exit, and what the runner makes of it | `StoppedChildEnds` says how far the fairness of `ChildExits` in `JobLifecycle` is justified |
| `ResultContract` | `validateResult`, `persistResult` | functions over all small envelopes, one evaluation a step |
| `LiveEvents` | `websocket/*.js` and worker state of one runtime and one job | publications in flight are sets |
| `LiveView` | `websocketClient.js`, `workerRuntime.js` and the selection in `GenericSkillView.vue` | the handlers are the client's, whichever socket calls them |
| `Deployment` | `deploymentService.js`, `src/stop-services.ps1` and `src/launcher.ps1`, the start of `server.js`, the health console | one Windows host |
| `LivePlatform` | the four above | composition, see below |
| `JobCreation` | `createSkillJob` with both reservations, rollback and crashes | the queue is reduced to what it does to a job being created |
| `FileRetention` | cleanup, availability and rerun over the files of one job | a cleaner may crash after any step |
| `Administration` | login, request check, edit, export, import | a setting is its revision |
| `FailureReport` | what the API, the context and the views say of one stored job, and which download they offer | functions over all kinds of stored jobs; outputs by kind, and which of them are still available |
| `JobPages` | `getJobDetail` read by read, while the runner stores the result; the page's live status | a message tells a status that was read before it was sent |
| `JobHistory` | `listJobs` as two queries, the history page | |
| `SubmitForm` | catalog, route change, the form's and the browser's checks, post; the server's checks in their order | a contract of one parameter and one input, and what is entered by how it stands to the contract |
| `SkillPackages` | approval and verification at four moments, files replaced at any time | two packages, one depending on the other |
| `LanguageModel` | `llmClient.js`, providers, wording services, probe and its cache | time passes in ticks |
| `ServicePlatform` | the ten above | composition, see below |
| `MC...` | constants of the runs, symmetry | no definitions of the system |
| `...Proofs` | theorems | see below |

State and code correspond by name: `queued`, `known`, `active` are `queuedJobIds`, `knownJobIds`,
`activeJobIds`; `claiming` is the local variable of `drainQueue` between the shift and the
claim (and `drainInProgress`); `runs` are the calls of `executeClaimedJob`, with the runner's copy
(`want`) and the snapshot it was read as (`base`); `requests` are the calls of `cancelJob`.
The updaters (`Claimed`, `Renewed`, `Finalized`, `Persisted`, `Reconciled`, `ReleasedForRestart`,
`CancelMarked`) are the functions passed to `transactJob`, and `...Allowed` is the condition under
which each does not return `undefined`. They are atomic in `JobLifecycle` because
`RestTransaction` and `SqliteTransaction` are shown to implement `AtomicDocument`. In the other modules, too, an action
is named for the function or handler it models, and a call that is awaited is a record of what it has read so far.

Two ways of composing. `JobLifecycle` interleaves queue, runs and cancellations over the documents they share.
`Transactions`, `LivePlatform` and `ServicePlatform` put parts beside each other that share no state: a variable chosen
in the initial state (`dbProvider`, `watched`) says which one a behaviour looks at, and the others rest in an initial
state. A property of one part then holds of the platform if it holds of these behaviours, because no step of another
part can touch its variables. Where two of them do meet in the code (a stored job, the files, the status a page shows),
the module has the other side as actions of its own.

Choices a reader should know:

- A read and the computation that follows it up to the next await are one step, as is a
  transaction with what follows it.
- SQLite's driver is synchronous, so in one process some awaits of the model cannot be
  interleaved. The model allows more behaviours there; what holds in it holds of the code.
  The observed behaviours below that need an interleaving inside one process are stated for Firebase.
- A failing call (`Fault`) is an error of the store or the publisher. A claim may have been
  applied although its answer was lost. A failed insertion of output records leads where an
  envelope that does not validate leads (`RunExitInvalid`).
- `SinceRead` and `EndedSince` say when two texts of a field differ, which SQLite's save
  compares: stamps of different moments never agree, a heartbeat renews a text, a passing
  deadline does not change it.
- In `JobCreation` the search for a free ID may start anywhere: the query for the latest ID sorts
  texts and its regular expression is not applied by `matchFilter`. The three deletions of the
  rollback are one step, of which each may be missing after a fault.
- Firebase's ETag is taken to be a hash of the content, so a document that becomes what it was
  matches again; the proof of atomicity does not need more. That the server answers with one at all is the assumption
  `ETagAssumption`: without it the code sends `if-match: *` (`db/firebaseRestClient.js:161`), which matches whatever was written
  meanwhile, and nothing is left of atomicity.
- `SkillProcess` assumes nothing of the skill but that SIGKILL ends it: it may ignore the sentinel and SIGTERM, and leave
  descendants that hold its output pipes for ever.
- A cleaner of `FileRetention` may be killed and started again; `runCleanup` has no caller in the repository, so nothing
  in the code keeps two of them apart either.
- In `SkillPackages` a hash is the content: two contents have one hash only if they are the same.
- A text of a report is a tag that tells it from the others; the wording itself plays no part.
- A definition marked "Mutant" is a mistake that is not in the code. It stands before the
  definition it would replace and shows that a property notices the difference.

## Runs

| Run | Instance | Question |
|---|---|---|
| `queue` | 2 runtimes, 2 jobs, limit 1, 2 executions, kill, SQLite | leases keep executions apart, the process-local sets stay consistent, documents move as `JobContract` allows |
| `firebase` | 2 runtimes, 1 job, kill, Firebase, fair | whole-document saves are safe when nobody cancels and heartbeats are timely; every job ends |
| `stops` | 2 runtimes, 1 job, kill and SIGTERM, 1 fault, SQLite | an execution whose lease has not ended owns it, and nobody takes a valid lease |
| `cancel` | one job in a behaviour: 1 runtime, 2 requests, the skill can be cancelled; or 2 runtimes, 1 request, the skill refuses and leaves no output; kill, SQLite, no failing call | cancellations race with the run, reconciliation and each other: terminal is final, the record and the partial result survive, a claimed job whose skill refuses cancellation is left alone |
| `cancel_ends` | 2 runtimes, 1 job, 1 request, SQLite, fair | an answered cancellation reaches the executing runtime and the job ends, though the skill might never end by itself |
| `transactions` | both stores, 2 calls, 2 attempts, 3 plain writes | each implements `AtomicDocument`; giving up means others got ahead |
| `live` | 1 child; 1 client, 1 heartbeat; 2 jobs in a view, 4 sockets, 1 switch; 2 deployments; fair | what must happen does: the child ends, the end is told, the view stays connected, the service returns |
| `services` | 2 actors in each of ten parts | the safety of the services and pages, see below |
| `refuted_foreign_lease` | 2 runtimes, 1 job, 1 request, SQLite | fails: see Findings |
| `refuted_cancelled_partial` | 1 runtime, 1 job, 1 request, SQLite | fails: see Findings |
| `refuted_requeue` | 2 runtimes, 1 job, kill, SQLite | fails: see Findings |
| `refuted_reconnect` | 2 jobs in a view, 4 sockets, 2 switches, fair | fails: see Findings |

Bounds of the life cycle. `MaxRuns` bounds the executions in a behaviour; two are enough for the situations the lease is about (an owner and
a successor), and a claim at the bound waits. `MaxFaults` bounds failing calls: one lets every single call fail at every place; only `stops`
has one. Two jobs in `queue` make the order in the local queue matter; the other runs concern one document (`cancel` one of two, by the
bounds of `CancelSpec`). A limit of one execution is the smallest that the capacity test has to enforce; the theorem is for any limit.

Bounds of the transactions. `MaxRetries` is 8 in the code and 2 here, so that the other call and three plain writes reach
it; two plain writes can restore an earlier text. The proofs are for any values.

Bounds of `live`. One heartbeat in flight beside the events makes the two overtake each other. One switch between two jobs
has an old socket close after the new one opened; a fourth socket slot is never the bound that stops it. Two deployments are one
that is asked for while another one is under way.

Bounds of `services`. Two actors are two calls of everything that may overlap: runtimes, sessions, loads of a page, history requests,
catalog loads and callers of the model. Three submissions, two with one key, and two IDs make a retry and a supply that runs out. One
cleaner that may be killed and started again meets its own half-done work. `MaxRevision` 7 lets two sessions export, edit and import with
another process between. `MCContract` varies the parameter's contract over one kind of file and the file's over a parameter that is left
empty, since the server checks one after the other; `FormsAreTrue` is for all contracts. `Posting` 1 to 3 with `Limit` 1 gives three pages,
of which one is inserted and one leaves the filter. `MaxCount` 2 has sums that fit and sums that do not. `Retries` 1, `CacheLife` 2 and
`Patience` 1 let a caller give up before the server does and a cached verdict outlive a probe. The other constants are sets of two kinds.

Symmetry: exchanging runtimes or jobs in the life cycle's safety runs; in `services` the two actors,
exchanged in all parts at once. It is used only where no liveness property is checked.
Deadlock is not checked: every bounded model stops when its submissions, runs and faults are used up, and the
code does not stop waiting for HTTP requests.

Fairness of the life cycle (`FairQueue`, `FairSpec`, `CancelFairSpec`). Awaited promises settle and microtasks run, so every step a handler
has begun is weakly fair. Heartbeats and reconciliation are timers (15 and 30 seconds, `config/env.js:67-78`), and a deadline passes.
Draining is started by every enqueue, every finish and every reconciliation. No process is due to start, and none is due to be killed.
`FairSpec` also assumes that a child ends, `CancelFairSpec` only that a child ends that was told to stop. The timeout of `executeProcess`
and its signals enforce that but for the two exceptions of `StoppedChildEnds`: so both assume besides that the sentinel can be written and
that no descendant of the skill holds its output pipes for ever, which is the skill's matter and not the code's. Both liveness properties
assume that from some point one runtime stays up.

Fairness in `live`. `ProcessFairness`: the runner's intervals and timers fire and SIGKILL ends a process; nothing else is assumed of the
skill, and nothing of its descendants. `EventFairness`: publications in flight are sent and the heartbeat timer fires. `ViewFairness`: the
reconnection timer fires, and a socket that is tried again and again opens some time (strong fairness, as each attempt may fail).
`DeploymentFairness`: scripts and services run on, and the console polls. A part that rests has not begun, so nothing fair can happen in it
and its fairness asks nothing.

## Properties

The life cycle. `ExclusiveRuns`, `RunsHoldTheirLease` and `ForeignLeaseRejects` are the lease: it names the execution that may write.
`lapsed` marks an execution whose lease has ended: heartbeats may be late and SIGTERM releases leases, and the code lets such an execution
go on without a fencing token; nothing is claimed of it. A job started in such an execution can be queued again, which `refuted_requeue`
shows. `KnownJobsAreTracked` relates the three local collections: a job that is only in `knownJobIds` is invisible to reconciliation for
ever. `TerminalIsFinal`, `CancelRecordKept` and `PartialOutputIsKept` are about old copies written late, and `UncancellableRunsUndisturbed`
about a request that was accepted before the claim and saved after it. `KeepsContract` is the whole queue seen through two state functions.

What must happen. `StoppedChildEnds`: a child that was told to stop, or has run out of time, ends and its job gets an outcome, whatever it
ignores; unless its sentinel cannot be written, or descendants hold its pipes for ever: only the process itself is signalled, and `close`
waits for the pipes. `DeliveredResultCounts`: a valid result is not lost to an exit code or a timer that came first.
`SubscribersLearnTheEnd` and `GhostsComeFromWaits`: who is subscribed while the job executes is told how it ended, and a closed client stays
in the maps only if it closed during its own subscription. `StaysConnected` and `ExtraConnectionsComeFromSwitches`: the view comes back to a
connection over which it has asked for its job (a refused request is not repeated), and only a selection makes it hold two sockets.
`ServiceReturns`: an accepted deployment brings its own backend back, unless another program has the port, one of its own calls fails (the
shell, a listing, a stop, the build, the start), or it meets another deployment before that has settled; what becomes of one deployment
excuses no other that did not meet it.

The services. `OneJobPerKey`, `AnsweredJobsExist`, `StartedJobsHaveInputs` and `RejectedLeavesNothing` are about creation.
`RecordedCountsAddUp` is what the platform can vouch for of a skill's counts. `RetentionIsSafe` relates files, records and reruns whenever
cleaners run and crash. `TokensNameTheAccount` and `WritesAreInformed` are about two administrators. `ReportsAgree` compares the six readers
of one record, the downloads they offer included, and names where those differ. `EndedPagesAreWhole` and `PagingSkipsNothing` are about
answers read piece by piece and out of order. `SubmittedAsShown` is the form against route changes, and its checks and the browser's against
the server's: what it lets through is refused only in the cases that `RefusedUnseen` lists. `RunsAsReviewed` is the package from approval to
spawn. `AnswersReflectTheModel` is the model's answers, fallbacks and verdicts in time.

## Proofs

| Theorem | Holds for | Argument |
|---|---|---|
| `JobLifecycleProofs!TypeCorrect` | all constants | one lemma per group of handlers, on lemmas about the types of updaters and saves |
| `JobLifecycleProofs!ConcurrencyIsBounded` (`ActiveWithinLimit`) | all constants | `drainQueue` tests the limit before an awaited claim and adds to the set after it, so the bound is not inductive; `RoomForTheClaim` adds that there is room while a claim is under way, which holds because one claim at a time is under way |
| `JobLifecycleProofs!KnownJobsAreInHand` (`KnownJobsAreTracked`) | no requests, until a call fails; both providers, all stops | inductive as it stands; what each step does to a queue (push, shift, filter) is a lemma |
| `JobLifecycleProofs!RecordsAreKept` (`CancelRecordKept`) | SQLite, with requests, faults and stops of every kind | `RecordInv`: the copy of an execution agrees with its snapshot in `cancellation`, that of a request may differ by its own record only, so `save` writes the record only over the one the request had read |
| `JobLeaseProofs!RunsKeepTheirLease`, `RunsAreExclusive`, `LeasesAreNotTaken` | SQLite, no requests; any runtimes, jobs, limits, faults, late heartbeats, kill and SIGTERM | `LeaseInv`: no document is `cancelling`, so a valid lease is always in queue state `running`, where every guard looks at it (`Orderly`); a run's copy never differs from its snapshot in `queueRuntime`, so its saves leave the lease alone (`OrderlyCopies`); a job not yet submitted has no document |
| `JobContractProofs!QueueKeepsContract` (`KeepsContract`) | `Undisturbed`: no requests, timely heartbeats, no SIGTERM; both providers, any runtimes, jobs, limit, faults and kills; as long as `ClaimsOnce` | `ContractInv`: at each stage of an execution what the document looks like (`InStep`), and one execution per job. Every step is then a stutter or one `Move` of one document (`ContractStep`), and each move is a step of the contract (`MoveIsAStep`) |
| `JobContractProofs!SerialQueueKeepsContract`, `SerialRunsAreExclusive` (`ExclusiveRuns`), `SerialEndsAreFinal` (`TerminalIsFinal`) | the same with `MaxConcurrent = 1` instead of `ClaimsOnce`; the last one without faults | room for a claim in a limit of one means that nothing is executed (`OneClaim`) |
| `JobCancellationProofs!UncancellableRunsAreLeftAlone`, `SerialUncancellableRunsAreLeftAlone` (`UncancellableRunsUndisturbed`) | `Attended`: SQLite, timely heartbeats, no SIGTERM; with requests and kills; until a call fails; as long as `ClaimsOnce`, or with `MaxConcurrent = 1` | `CancelInv`, see below |
| `JobCancellationProofs!ShieldedEndsAreFinal` (`TerminalIsFinal`) | `Attended`, `MaxConcurrent = 1`, no faults, every job `Shielded`: its skill refuses cancellation, or there is one runtime | `CancelInv` |
| `JobCancellationProofs!PartialOutputSurvives` (`PartialOutputIsKept`) | `Steady`, `MaxConcurrent = 1` | `Quiet`, over `CancelInv`: what the one execution left unfinished is still the document's own, and nobody puts it back in the queue |
| `TransactionProofs!RestIsAtomic` (`IsAtomic`) | any calls, documents, updaters, writes, retries; reads are answered with ETags | `PutsAreUpdates`: what a PUT carries is the updater's result on the document of its `if-match`; `OutcomesFit`: no call that was told its end has a PUT under way, except a failed one |
| `TransactionProofs!SqliteIsAtomic` (`RowIsAtomic`) | the same | `ReadsAreCurrent`: the revision was read before the document, so if it is unchanged the document is |
| `TransactionProofs!ContentionIsProgress` (`ContentionMeansProgress`) | the same | `AttemptsAreOvertaken`: an attempt is one more than the last only if its PUT met a document other than the one it had read, for which some other call or plain write had to take effect; the calls that have written are a finite set that is counted. `TriesAreOvertaken`: in SQLite the revision counts them |
| `TransactionProofs!RestTypes`, `SqliteTypes` | the same | |
| `JobCreationProofs!KeysNameOneJob` (`OneJobPerKey`), `AnswersStayTrue` (`AnsweredJobsExist`) | runtimes that do not overlap, however many follow each other; any submissions, keys, IDs, faults, both stores | `CreationInv`: of the handlers under way one holds a key and one an ID (`KeysAreHeld`, `IdsAreOwned`), whoever holds an ID is the only one to write its document (`DocsAreOwned`), and what the look-up of the key saw stays so until the handler creates its own (`KeysAreFree`) |
| `JobCreationProofs!StartedJobsAreFilled` (`StartedJobsHaveInputs`), `RejectedIsUndone` (`RejectedLeavesNothing`) | the same with at most one fault | `LeavesInv`: folders and records belong to the handler that has the ID; a rollback begins with the one fault, so it has none itself |
| `ServiceProofs!PackagesRunAsReviewed` (`RunsAsReviewed`) | any contents, approvals and restarts, any number of versions | inductive with the types of the tasks, which keep what each check saw |
| `ServiceProofs!PagesAreWhole` (`EndedPagesAreWhole`) | any number of files, messages and overlapping loads | `EndsAreStored`: an end that is shown was so in the store, where it stays so; `AnswersAreWhole`: an answer reads the job first, so if that had ended the files it reads afterwards are all there |
| `ServiceProofs!FilesAreRetained` (`RetentionIsSafe`) | any number of cleaners and reruns, any crashes | `NothingIsCleaned`: until the job has ended no cleaner has begun with it; what a cleaner is about to mark it has deleted; a rerun's inputs are those it has copied and those still to come |
| `ServiceProofs!FormsAreTrue` (`SubmittedAsShown`) | any skills and loads, every contract of the module | `FormIsOfTheRoute` and `PostIsOfTheForm`; then what the checks of the form leave of each way in which the server refuses (`Foreseen`) |
| `ServiceProofs!TokensAreRight` (`TokensNameTheAccount`) | any sessions and accounts | `CopiesAreTheAccount`: while at most one login has found no account, every copy under way is the account itself |
| `ServiceProofs!NobodyWritesBlindly` (`WritesAreInformed`) | any sessions, settings and other writers | `Knows`: while the revision is the one an editor or a preview was opened with, the settings are what it showed |
| `ServiceProofs!CountsAddUp` (`RecordedCountsAddUp`) | every envelope, counts of any size | by cases of what the validation accepts; a proof over all envelopes where TLC enumerates small ones |
| `ServiceProofs!ReportsAreOne` (`ReportsAgree`) | every job of `StoredJobs`: any worker, status, error, result and outputs, available or expired | `EveryReportAgrees`: each reader's answer, by the ways in which a job can have ended |
| `ServiceProofs!PagesLeaveNothingOut` (`PagingSkipsNothing`) | any postings, requests and page size | `NothingSkipped`: a job that was there at the start has been shown or ranks behind what has been shown. A new job moves the older ones to later pages only (`ShownBelow`), which needs the order of the two queries and that one request is under way (`OneRequest`) |
| `ServiceProofs!AnswersAreTrue` (`AnswersReflectTheModel`) | any callers, retries, timeouts and cache life | `RepliesAreRecent`: a reply is no older than its attempt, and a verdict in the cache is older than its age by no more than one probe |
| `JobCreationProofs!ServicesTypes` (`ServicesTypeOK`) | all constants, overlapping runtimes included | `PartsInv`: the invariants above, which count without a bound, and the bounds the guards keep (`PageBounds`, `KnownRevisions`, `HistoryBounds`, of which quotients of totals are the nonlinear part, `QuotientsGrow`); a handler has an ID from the reservation to the rollback (`HandlersAreBound`) |
| `LiveProofs!WrittenResultsCount` (`DeliveredResultCounts`) | all timers, stops and signals | `ResultIsFinal`: a settled job has no process that could still write |
| `LiveProofs!GhostsHaveOneSource` (`GhostsComeFromWaits`) | any clients and jobs' events | the two maps of subscriptions agree (`SubscriptionsAgree`) |
| `LiveProofs!SwitchesAreTheOnlySource` (`ExtraConnectionsComeFromSwitches`) | any jobs, sockets, losses, reconnections and switches | the property bounds the sockets beside `this.socket` by the switches, and is not inductive: a socket the client has closed, and a timer that will open one beside it, count as well (`Balanced`), and each of them stands for one switch (`CutsAreSwitches`) |
| `LiveProofs!LiveTypes` (`LiveTypeOK`) | all constants | |

The conditions of the theorems about the life cycle are needed, and TLC has a counterexample without each of them:

- With requests, `refuted_foreign_lease` takes a valid lease, and under Firebase a stale save restores an old one; hence the conditions of
  the lease theorems, and `Shielded`.
- A late heartbeat or SIGTERM ends a lease while its execution goes on without a fencing token; hence `TimelyHeartbeats` and no SIGTERM in
  `Undisturbed` and `Attended`.
- `ClaimsOnce` says that no runtime claims a job it executes. It does not follow from the code when the limit is 2, the default of
  `config/env.js:67`: reconciliation may queue a job while its `enqueueJob` awaits `persistQueuedState`, so it is queued twice, and the second
  turn of `drainQueue` claims the job its own runtime executes, because `claimJob` honours the leases of others only. No call
  has to fail for that. With the condition as `[]ClaimsOnce` in the antecedent, the theorem is about every behaviour up to such a claim; with
  `MaxConcurrent = 1` there is none.
- After a failed call an execution may write over the end it has recorded itself, so what is final is so without faults.

`CancelInv` is the invariant of executions and requests together, while no call has failed. An execution is in step with its document, whose lease is valid
and its own, and there is one for each shielded job; the active sets are the jobs of the executions. A request's copy differs in
`queueRuntime` from what the request had read (`Pledge`), and a stamp it has written is new (`StampIsNew`), so when a heartbeat or a claim comes between, its
save finds two different writers and conflicts, unless it leaves the job `cancelling`, which only cancellable jobs become. Hence
an ended job is not overwritten and an uncancellable one is not touched.

`Quiet` adds, while no runtime is lost to another, that whatever has begun with a job is an execution: a job that is `generating` or `cancelling`, or whose
lease is valid, has one, and no lease has expired, since its heartbeats are in time. So `enqueueJob` and reconciliation meet a held lease. Output
records have an execution that has come past the recording (`Reported`) or a terminal job that shows them. A request that computed
plain `cancelled` from a copy without output finds either a waiting job without output records or a stamped `queueRuntime`, and conflicts.
`Steady` is the condition: two runtimes with a kill, or a fault, refute the property (Observed behaviours). When the only runtime is killed
(`Deserted`), nothing moves the job again, which is the instance of the run `cancel`.

Assumptions are the named ones beside the constants. `StampAssumption` in `JobDocument` says that a time a request records is not one a
runtime records; the proofs about requests use it.

The concurrency theorem bounds `activeJobIds`, not the executions: see Observed behaviours.

The theorems about services are of `ServicesSpec`, those about live views of `LiveSpec`: a step of the composition is a step of the part or
leaves it alone (`StepsOf...`), so each follows from the part's own invariant. `Overlapping` is the
condition the observed behaviours of `OneJobPerKey` and `AnsweredJobsExist` call for. With a second fault a rollback may delete the
folder of a job and leave its document, so the bound of one fault stands in the theorems that need it.

Every safety property of a passing run is the property of a theorem, under the conditions above. Left to TLC: the behaviours those conditions
exclude, as far as a run has them, and liveness (fairness and `ENABLED` are beyond the prover).

## Findings

- `refuted_foreign_lease`. A runtime claims a job; a request cancels it before the run has written
  `generating`, so the queue state is `cancelling` and the status still `queued`. `claimJob` looks at a lease only when
  the queue state is `running` (or `claimed`), and another runtime that has the job in its queue takes it.
  `src/wiki/ARCHITECTURE.md:58`: "A valid foreign lease rejects a competing runtime."
- `refuted_cancelled_partial`. Under SQLite the run holds a copy with status `generating`; the cancellation writes
  `cancelling`; saving the cancelled result finds the status changed by another writer, throws, and the job is recorded as
  failed. `src/README.md:71`: "cancelled jobs with valid partial output become `cancelled_with_partial_result`".
- `refuted_requeue`. A runtime creates a job and its `enqueueJob` awaits `persistQueuedState`; another one reconciles the queued job, claims it, starts it
  and is killed. Once its lease has lapsed, the first one's transaction sees neither a valid lease nor a terminal status and writes `queued`
  (`queue/jobQueue.js:237`), so the started job is executed once more. A fault instead of the kill does the same.
  `src/wiki/ARCHITECTURE.md:61`: "Running phases: leave a valid lease alone; fail safely after lease expiry because current skills do not declare continuation."
- `refuted_reconnect`. A view that selects another job calls `close()` and `connect()` one after the other. The old
  socket's `onclose` runs later, finds `closedByUser` false and schedules a reconnection
  (`src/frontend/src/services/websocketClient.js:44`); three seconds later it replaces the live connection, whose socket stays
  subscribed without an owner. `src/wiki/ARCHITECTURE.md:134`: "reconnects after three seconds unless closed".

## Observed behaviours

The passing runs state their conditions because the properties do not hold without them. Each of the following is a
counterexample of the same modules with other constants, found with at most two runtimes, two jobs and three executions.

- `TerminalIsFinal`, Firebase, one request, no stops: `cancelJob` saves the copy it read before its transaction and takes an
  ended job back to `cancelling` (`models/Job.js:212`; `src/wiki/ARCHITECTURE.md:63`).
- `TerminalIsFinal`, SIGTERM under Firebase: `shutdownQueue` ends a lease while its execution goes on; another runtime fails the job, and
  the execution's save overwrites that. SQLite's save notices it.
- `TerminalIsFinal`, one fault: `publishJobEvent` reads the job again; when that throws after the result was
  saved, the catch clause runs `failJob` (`skills/genericSkillRunner.js:277`).
- `TerminalIsFinal`, SQLite, two runtimes and one request: a consequence of `refuted_foreign_lease`, after which two
  executions write one job.
- `CancellationsComplete`, Firebase: the run's `generating` save restores a `queueRuntime` without the request
  that was answered meanwhile.
- `UncancellableRunsUndisturbed`, Firebase: the request was accepted while the job waited, and its save comes after the claim. With
  a fault or a late heartbeat it also fails under SQLite: a job given back to the queue is cancelled, and `claimJob` claims it all the same,
  because it looks at the status and not at the recorded request.
- `KnownJobsAreTracked`, Firebase, two jobs and one request: `cancelQueuedJob` splices the local queue at an index it
  read before its transaction, and removes another job. A claim that throws leaves its job in `knownJobIds` as well, and with one runtime that job
  never ends (`JobsReachAnEnd`, one fault).
- `PartialOutputIsKept`, two runtimes, kill, one request: the runtime dies between the insertion of output records and the save, and
  the cancellation of the orphaned job records plain `cancelled`.
- Executions of one runtime, Firebase, limit 2: `enqueueJob` tests the local sets before its transaction and pushes after it;
  when reconciliation queues the job in between it is queued twice, its own runtime claims it twice (a lease never refuses its owner), and it is executed twice,
  while `activeJobIds` counts it once. The execution whose save conflicts finalizes the job as failed and the other one records its result over that,
  so `KeepsContract` and
  `TerminalIsFinal` fail as well, without a fault, a stop or a request (in the model under both providers).
- `OneJobPerKey`, two overlapping runtimes: the reservation of a key is a map of the process.
- `AnsweredJobsExist`, two overlapping runtimes, SQLite: a creation that meets `JOB_ID_CONFLICT` deletes by job ID in its
  catch clause, and with it the confirmed job of the other runtime (`skills/genericSkillJobService.js:175`).

The following were met in the other modules, which model them as they are; the properties there say what holds nevertheless.

Live events and views:

- A socket that closes while its subscription awaits the job is added again afterwards, and nothing removes it (`websocket/subscriptionManager.js:52`).
- A subscriber whose read of the job precedes its end and whose addition follows it is never told of the end.
- A cancellation that arrives after the end of a run may leave the phase `CANCELLING` (`queue/jobQueue.js:120`, `:307`).
- An adapter that throws ends in `finalizeClaim`, which publishes no event: the subscribers learn of the failure from a heartbeat.
- `JobDetailView.vue:194-197`: a snapshot with a terminal status changes the status shown and nothing else. A message that was read before the end may
  set the page back to running after the end was shown (194-201). Each message with a terminal status starts another load, and each load of a job that goes on
  opens another WebSocket client without closing the one before (180-186).
- A subscription the server refuses, because the job is not found or its read fails, is not repeated while the connection lasts (`websocket/server.js:37-42`).
- Only the skill's own process gets the sentinel's timers and signals (`skills/genericSkillRunner.js:132-141`); a descendant that holds its pipes
  keeps the job unfinished for ever.
- `GenericSkillView.vue:616-643`: a computed `download...` of the view overrides the mixin's, so a partial package is offered as "Download ZIP"; only
  the view of `pr-auditor` asks for its final summary after the report.

Reports and pages:

- Warnings of a skill are stored with code, message and details, while views show `warningType` and `description`.
- The context for the language model tells `job.error` of jobs that have not failed, and the raw category; `resultStatus` keeps an untrimmed error code.
- When the only file left is neither the report nor an archive, the history card offers it as "Download Output" (`JobHistoryCard.vue:168`), while the
  page of the job names no download (`JobDetailFiles.vue:102-104`). The workbench of the tx auditor offers workbooks only. "No audit report was generated" is also
  said of a report that has expired.
- "Apply filters" keeps the page number; the page and the total come from two queries at two moments.
- A search's regular expression is ignored (`models/compatibility.js:117-149`); `DashboardView.vue` lists jobs of `pr-worker` only;
  `DownloadPanel.vue` and `JobProgress.vue` are used by no view.

Launch form (`src/frontend/src/views/GenericSkillView.vue`):

- A failed load of the catalog leaves the form of the skill before (767-771), and overlapping loads empty the selected files (764).
- `split('.').pop()` and the server's `path.extname` disagree on names without a dot (780); a hidden parameter is not asked for (589),
  and the value of a hidden or disabled one is sent without the browser's checks (802-816); the server, which knows no visibility, refuses the job for either.
- Leaving during a submission makes the next skill's view follow the other skill's job (835-841); submitting again after a timeout carries a new idempotency key (833).

Packages and language model:

- Only the auditor's dependency is verified again at the spawn; files replaced after the claim are run. One package that is not approved fails the whole
  catalog and the start (`skills/skillPackageService.js:120`). `assertManifestEngineIntegrity` is not used at run time.
- The browser gives a question up after 45 seconds while the server may take 60. Overlapping probes overwrite a newer verdict (`services/healthService.js:196`).
  A reply of white space from qwen becomes an empty wording (`llm/providers/qwenProvider.js:72`).

Files, administration, deployment and shutdown:

- A record without `retentionUntil` is always a candidate for cleanup (`models/compatibility.js:127`); the moment of expiry itself is expired for cleanup
  and available to readers (`services/cleanupService.js:99`, `services/jobService.js:536`).
- The link from a job to its rerun is written over the whole document under Firebase (`services/jobService.js:474`).
- Two first logins create the default administrator twice, and a login's save restores an older `isActive` (`services/adminAuthService.js:115`).
- A deployment accepted while the services of the one before are booting stops the backend and launches nothing. The console counts the old backend's answer
  as the new one (`src/frontend/src/views/admin/AdminHealthView.vue:226`). A build that fails does so after the services were stopped (`src/launcher.ps1:59`).
  A `netstat` or `Stop-Process` that fails (`src/stop-services.ps1:20`, `:59-66`) leaves stopped what was stopped before, and nothing is launched.
- With an open WebSocket, SIGTERM never gets past `server.close` (`server.js:48-54`): the sockets are closed in its callback.

## Not modelled

HTTP routes and middleware other than the admin check are thin adapters from requests to the services. The models of records that are
written once have no writers that race. The CLI and the scripts under `src/backend/scripts` are offline tools and tests, the in-memory
Firebase mock is test equipment, and the Python skills are submodules behind the result contract. Hashing of
packages, prompts, wording, layout and progress counters are data no property tells apart. The closing of connections at SIGTERM is one
call in one order and is recorded as a hazard. Of the queries in `compatibility.js` only sorting, skip and limit are kept. Of
`childProcessRunner.js` only the path of the interpreter has a caller. Failing calls inside a heartbeat or a reconciliation
are not modelled, since the next timer repeats them. Cancellations together with failing calls are not checked: the
run `cancel` has no fault, and of the theorems only `RecordsAreKept` has both.

## Plan

Done, in this order: the document, the queue, the run, cancellation, the two stores and creation, with their proofs; then the child
process, live events and views, deployment, and the services and pages; then the proofs about creation, packages, pages, files, the
form and administration; then those about the contract of the queue, cancellations, contention, counts, reports, paging, the language model, the live view and the
types of all services. Left: the sockets of a server that shuts down.
