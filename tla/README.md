# A TLA+ model of the offline web archiver

The program renders the pages of a site in a controlled browser and keeps them in
a Project directory (a SQLite database and content files). Its core is a durable
queue of Page Jobs that survives crashes: workers claim a job under a fenced Lease,
render it, commit the result, and a recovery operation takes back what dead workers
left. Around it are the Project's files and lock, the vault, the assets, the browser
that is driven, the budget of each origin, logins, proxies, the rewriting of pages and
the service that answers commands. This directory holds TLA+ modules translated from
the TypeScript sources under `src/packages`, TLC configurations that check them on
small instances, and TLAPS proofs for instances of any size. `PROJECT.json` maps every
definition to the source lines it stands for and lists runs, mutants, findings,
hazards and theorems.

## 1. The system

The source path of a part is relative to `src/packages`. "Hard" says what a test
would hardly reach.

| Part (source) | Module | State it keeps | Hard | What makes it correct |
|---|---|---|---|---|
| Page Job queue (`persistence-sqlite/src/queue.ts`, `queue`) | `PageQueue` | `page_jobs`, `job_attempts`, `queue_operations` | late reports of old owners; repeated calls | attempts and rows agree; terminal states stay closed |
| Leases, recovery, Run control (`persistence-sqlite/src/recovery.ts`, `recovery`, `archive-core/src/run-state.ts`) | `PageQueue`, `RunControl` | `job_leases`, `job_checkpoints`, `run_control`, `recovery_operations` | zombies, crashes, a pause among all of these | one owner per job, fencing order, no stranded pause, every job ends |
| Render commit and job execution (`persistence-sqlite/src/render.ts`, `application-service/src/index.ts`) | `JobExecution` | `render_results`, `render_failures`, `pages/<job>/` | two stores, a commit that reports failure, every `await` | result, file, job, attempt and answer tell one story |
| Worker pool (`archive-core/src/scheduler.ts`) | `WorkerPool` | pending jobs, reservations, counters, circuits | results of old workers in a new circuit state; the clock read several times | no capacity lost or invented; no job lost; run returns |
| Origin budget and cooldowns (`archive-core/src/scheduler.ts`, `persistence-sqlite/src/scheduler.ts`, `browser-runtime/src/index.ts`) | `OriginBudget` | permits, tokens, cooldown, `scheduler_origin_state` | waiters of closed pages, permits released on every path, a failed write, a restart | limits hold; a cooldown survives the process |
| Project lock (`persistence-sqlite/src/locking.ts`) | `ProjectLock` | `.project.lock` | takeover of a dead owner's lock between the steps of another | an owner finds its own file |
| Project store (`persistence-sqlite/src/index.ts`, `migrations.ts`, `project-format`) | `ProjectStore` | database, `project.json`, `profile/config.json`, `execution_sessions` | three stores written in turn and undone in turn; commands side by side on one connection | they say the same, or the next open repairs it |
| Archives and creation (`persistence-sqlite/src/index.ts`, `archive.ts`, `atomic.ts`) | `ProjectArchive` | archive, staging directory, destination | a Project in use while it is copied; two imports to one place; a crash | an archive holds one Project; a directory is promoted whole or not at all |
| Secret vault (`secrets/src/vault.ts`) | `Vault` | vault file with a generation, lock file, key buffers | commands of one store and of another between each other's awaits; a lock broken for its age | answered changes stay; records decrypt |
| Desktop secret store (`secrets/src/os.ts`) | `ProtectedKey` | protected key file beside the vault | failure or crash between two files | the key opens the vault |
| Asset download and store (`application-service/src/asset-downloader.ts`, `persistence-sqlite/src/assets.ts`, `asset-files.ts`) | `AssetDownload` | `asset_sources`, content objects, partial files | resume, two jobs sharing an asset, an old owner's handle | a content object is one version of the asset |
| Logins and Sessions (`archive-core/src/authentication.ts`, `application-service/src/index.ts`) | `LoginFlow` | Session rows with revisions, flow and browser in memory, the Run | commands side by side, a flow that dies in memory while the Run waits | the Run goes on only with a saved Session |
| Rendering browser (`browser-runtime/src/index.ts`) | `BrowserRuntime` | one process, active pages, restarts | restart, rotation, crash and launch between each other's awaits | a page keeps its browser |
| Render of a page (`rendering/src`, `browser-runtime/src/index.ts`) | `PageRender` | engine, page, requests, three flags | a page that navigates while it is measured; a refused request that comes late | a completed render is one authorised, stable document |
| Proxy manager (`archive-core/src/proxy.ts`, `persistence-sqlite/src/proxy.ts`, `application-service`) | `ProxyManager` | proxy row, credential in the vault | a test's result that meets a changed row | results belong to the configuration tested |
| Interaction engine (`browser-runtime/src/interaction.ts`, `archive-core/src/interaction.ts`) | `Interaction` | plan, budget, trace, handlers | dialogs and popups that open when they like; abort, pause, crash, time-out | the answer tells what happened |
| Scope engine and enqueue (`scope-engine/src`, `application-service`, `queue.ts`) | `ScopeQueue` | Profile revisions, jobs, discoveries | two commands that decide before either enters; a rule changed in between | one job per page, in scope, within the limit |
| Rewriter and local runtime (`archive-core/src/rewrite.ts`, `runtime.ts`, `browser-runtime/src/local-runtime.ts`) | `OfflineRoutes` | route map, rewritten document | addresses that coincide, differ in case, or are changed by `base` | an archived link reaches its page |
| Capture and replay (`browser-runtime/src/network-replay.ts`, `persistence-sqlite/src/replay.ts`) | `NetworkReplay` | `replay_snapshots`, body files | two layers that decide on one request; two captures of one address | what is replayed was heard |
| Commands of the service (`application-service/src/index.ts`) | `ServiceCommands` | `current`, connections, locks, secret stores | nothing keeps two commands apart | changes are made in the Project named, under its lock; nothing stays open |

They interact by calls: the command line and the desktop send commands to the
application service; that calls the repository, whose every operation is one
`BEGIN IMMEDIATE ... COMMIT` transaction, and the engines, whose calls are long and
asynchronous. Nothing runs by itself: no timer claims, recovers or releases
retries; someone issues the command. Two processes on one Project are kept apart
by the lock file, two owners within it by Leases; two commands of one process are
not kept apart at all. So the unit of interleaving is one transaction, one file
operation or one stretch of code between two awaits, and this is what an action is in
the modules below.

## 2. The modules

`RunControl` has the vocabularies and transition tables of jobs and Runs, without
state. `FencedJob` is the abstract specification of the queue, which `PageQueue`
implements. `JobExecution` extends `PageQueue` with the render and interaction functions
of the application service and the commit of a render. `WorkerPool` is one call of the
scheduler's `run`.

The theorems are in eight modules. `PageQueueProofs` is about the queue (types, Leases,
fencing order, attempts, the pause protocol), `ExecutionProofs`, on top of it, about the
refinement of `FencedJob` and `JobExecution`. The others extend one module and instantiate
its neighbours: `WorkerPoolProofs` has the pool, the origin budget (`Budget!`) and the proxy
manager (`Manager!`); `ProjectStoreProofs` the store, the lock file (`LockFile!`) and the
archives (`Transfer!`); `VaultProofs` the vault and the desktop's key file (`KeyFile!`);
`ServiceProofs` the commands of the service and the enqueue (`Scope!`); `RenderProofs` a
render, the browser (`Browser!`), captured responses (`Replay!`) and interaction plans
(`Plan!`); `AssetProofs` the downloads.

Sixteen modules stand for the parts around the queue, each with its own variables.
`MCStores` has seven of them that are about what a Project keeps (it extends `Vault` and
instantiates the others), `MCEngines` the eight that are about what is under way in a
process (on `ServiceCommands`); `AssetDownload` has runs of its own. The first two have a
variable `part` that says which part a behaviour is of; the variables of the others are 0
throughout, so one run of TLC checks all of them, each as it would be checked alone,
and a property of a part is `part = "..." => ...`. The other `MC...` modules name
constants for TLC.

### FencedJob: what the queue promises

A job is unborn, waiting, held, orphaned or ended, and has a journal with one entry
per attempt. The next entry is opened together with the hold; only a holder reports;
an attempt whose holder is gone can only be taken back; a closed entry is never
written again. One step may move several jobs, as a recovery batch does. Tokens,
generations, Leases, control states and order are how the code keeps this promise
and do not occur.

### PageQueue: queue, Leases, Run control

| Variable | Code |
|---|---|
| `job` | `page_jobs`: state, recovery overlay, claim token, generation, attempt count, whether the retry time is reached |
| `attempt` | `job_attempts`: outcome of each attempt |
| `lease` | `job_leases`: every row ever inserted |
| `checkpoint` | generation that wrote the latest committed row of `job_checkpoints` |
| `control`, `runState` | `run_control.control_state`, `run_control.run_state` |
| `claim` | replies to claims that owners have in hand: never forgotten, so that every owner is a possible zombie |
| `claimOp` | the claims' rows of `queue_operations`, for keys that are presented again |

An operation is one transaction and one action; an operation that throws is rolled
back, so its checks are guards. Two code paths share a definition when they share a
statement: `Finish` is the row, attempt and Lease written by complete, fail, skip,
block and a render's commit; `GrantLease` is what both lease claims write.

Abstractions, each of which keeps the control:

- a claim token is a fresh UUID; here it is the number of its attempt. The digest in
  the Lease row stands for the token;
- a timestamp is "ahead" of the clock or "past"; `Expire` and `BecomeDue` move it. A
  heartbeat or a renewal is the absence of `Expire`;
- the data of an enqueue (URL, scope, depth, discovery) is the job's identity;
- an operation repeated under its key returns a stored reply and writes nothing. Only
  the replay of a claim is an action, because it computes its reply from present rows;
- the constants `UnleasedClaims`, `FutureEvaluation` and `RunStateRequests` say which
  callers there are. The application never calls the unleased claim and asks only for
  the two Run state changes of a login; the command line lets its user give recovery
  any evaluation time; a user of the repository port may do all of it.

### JobExecution: the application service at work

`stage` is the program counter of the process that has a claim in hand, one value per stretch
between awaits; `page` is the attempt whose bytes the HTML file holds, `result` the row of
`render_results`, `failure` the rows of `render_failures`. The commit is two actions,
`WriteHtml` (the file, with no question asked) and `CommitRenderResult` (the transaction);
`CommitRefused` is its other outcome, `ReadBack` the look for a durable result after an
ambiguous error, which may itself fail (`unread` remembers it), `ReadControl` the read that
decides between a pause and a failure record, `GiveUp` the swallowed error of either. `Crash`
empties the memory of one process at any point; `RepeatRender` is the command given again, whose
claim is replayed. The queue operations are those of `PageQueue` by name.

### WorkerPool: one run of the scheduler

The loop of `run` has no await between the start of a pass and the decision what to
wait for, so `pc` is "pass" or "decide" while nobody else moves, and "await" or "sleep"
while workers settle. `running` are the reservations, `load` and `pages` the counters
kept beside them, `circuit` the circuit breakers, `cooldown` the resting origins.
Time passes in every state, also between two reads of the clock in one pass, as it
does in the code.

### ProjectLock: the lock file

`lockFile` is the instance that created the file under its name, `written` the
instances whose record is in their file, `pc` where each process is in
`acquireProjectLock` or `release`. Creating, writing, reading, removing a stale lock and
removing one's own are steps of their own. A file is the instance that made it, so a
record written into a file that was replaced goes where the code writes it. Process ids
are not reused, which `PROJECT_LOCKING.md` excludes as well.

### ProjectStore: the Project's rows and files

`applied`, `metaSchema`, `ledger` (the current Profile revision), `revisions` and
`session` (`execution_sessions`: how many run, how many were found unclean) are rows;
`manifest` and `profileFile` the two files; `backups` and `archives` what was copied;
`current`, `conn`, `tx` and `lock` the memory of the process. `Open` takes the lock,
migrates, validates, rewrites the manifest, begins an execution session and sets
`current`; what it does after its last await is one action. A Profile write updates the
row in an open transaction, then the Profile file, then the manifest, then commits, and
undoes the files in turn when a step fails. A command that begins a transaction while
another one's is open is refused by the one connection they share and rolls the other's
back. Reads (`getProfile`, `compareProfiles`, validation, recovery status) are guards or
operators. `StoreIsSound` joins four parts: row, files and manifest agree when nothing is
under way (`ProfileAgrees`), exported archives can be imported (`ArchivesImport`), every
death is noticed once the Project is open again (`DeathsAreNoticed`), and the revisions
have no gap (`HistoryIsWhole`). All but `DeathsAreNoticed` speak of Profile writes and
exports that ran alone: `overlapped` records that one did not. Updates that overlap may
leave a gap: an update reads the revision that another one, on the same connection, has not
committed; that one is rolled back, and the update commits the number after it.

### ProjectArchive: archives, imports, creations

A directory is a set of `<<name, content>>`, where content is what the checks tell apart:
which Project a manifest or a database names, "text", "blanks" (compresses more than a
hundredfold) or "huge". The metadata entry is kept apart from the files, the structural
checks of the container are one flag, total sizes the number of entries. An export
snapshots the database and copies file after file of a `source` to which renders go on
adding; an import checks, unpacks into `staging`, checks again and renames; a creation
fills a staging directory in the same way. What the source's lock and validation do is
in `ProjectLock` and `ProjectStore`. The temporary file of one atomic write stays within
its step.

### Vault and ProtectedKey: secrets

`Vault` has the file (key number, generation, records), the lock file, and for each store
its state, key buffer and generation. A change checks, takes the lock, reads, stages,
writes, verifies and collects; lock, unlock and rotation overwrite the key buffer that a
waiting change still refers to. Reads decrypt with the key they captured and do not
compare generations. Buffers are numbered: a store's current number is the one that
still holds a key. `AcknowledgedChangesStay` and `SecretsStayReadable` exclude what they
name: a lock that was broken for its age (`aged`), and commands that ran side by side in
one store (`overlapped`).

`ProtectedKey` is the desktop's store: the key file is written first, then the vault is
initialised, and a failure undoes the first. Reading the key may write it again under a
new protection. `provider` is what the operating system offers and may change, which
counts as a fault. Keys are numbered; the later life of the vault is `Vault`'s.

### AssetDownload: one asset, several jobs

`row` is the row of `asset_sources`, `partial` the partial file of each generation,
`file` the contents of all files ever made (a file keeps its number when it is renamed,
so an old handle goes on writing into it), `objects` the content store, `locks` the
content locks. A worker goes through the stages of `ensureAsset`: claim, begin, prepare,
request, stream chunk by chunk, hash, assert ownership, lock the digest, store, finalize,
release. Bytes are chunks, a chunk is the version of the remote asset it came from, a
digest is the content. The row is entered by the first job; redirects only change where
a request goes. A claim may take any higher generation, since the claims in between ended
before they came to the asset. A job that is refused because of a download of its own, which
an earlier claim of it left, fails like any other. Two histories are kept for the
properties: `shared`, that two jobs used one partial path, and `outdated`, that a download
began from another partial file than the claimed row named. The server never returns to an
earlier version: if it did, under the validator it had then, `AssetIsOneVersion` would not
hold, since a restart of the range truncates the file before the row is told
(`asset-downloader.ts:286`). A Lease downloads an asset once; the answer to a second call
under the same Lease (`assets.ts:264`) is left out. A lock file that cannot be written stays
behind, like that of a process that dies, and holds up its content until somebody removes it.

### LoginFlow: Sessions and the waiting Run

`row` are the rows of `browser_sessions`, `stored` the browser states in the vault, `run`
the Run's state, `active`, `slot`, `flow`, `engine` and `browser` what the process keeps
in memory. Each `session.*` and `otp.*` command is a thread that waits for the browser
and the vault between its steps; a row is replaced only by an update computed from the
revision it has. A flow marks its Session first and lets the Run wait in a step of its own;
either write may fail alone, as may the one that resumes the Run after a save. The user may
close the browser at any time, and the process may die.

### BrowserRuntime and PageRender: the browser and a page in it

`BrowserRuntime` has the one rendering process, what `health` reports, `activeJobIds` and
the counters; a launch and a close are two steps each, and other calls run between them.
A call that finds the browser old (by pages or by age, which is left open) closes it and
opens another; `rotating` remembers that it has, so that it does so once. Restarts are
counted over a window of time, so the count may have fallen whenever it is looked at.

`PageRender` has two actors. The engine follows `render`: navigate, settle, authorise the
final address, measure until stable, extract, inspect. The page sends requests, navigates,
moves its address and changes its document while the engine waits, and every request has
a handler that talks to the engine through `navigationBlocked`,
`navigationAuthorizationPending` and `blockedRequests`. Each authorisation is decided anew
(`Decisions`: scope is fixed, name resolution is not and may fail). Times are steps; the
quiet of selector and document are one; a session without a budget grants at once;
handlers of a document that was left go on, as they do in the code. Screenshots, the
scroll of test fixtures, console observation and the replay adapter are not in it; the
quality of a page that answers with an HTTP error is the caller's decision.

### OriginBudget, WorkerPool's neighbour

`inflight`, `tokens` and `cooldown` are the fields of `InMemoryOriginNetworkBudget`, `req`
and `permits` what a page session holds in it, `queue` and `saved` the chain of cooldown
writes and the row. Time is counted in ticks. A page finds the permit of a request that
ends by method and URL, as `networkPermits` does, so two requests of one URL share a
queue of permits. A restart empties the memory and restores the row. `granted` counts the
permits granted and `before` what it was when each tick began: the property bounds the
difference, a window of any length.

### ProxyManager: commands on one proxy

A command reads `row`, waits for the vault or the network, and writes the row under the
revision it read; an import writes under the revision it finds. The configuration is a
number. Other proxies occur only as what an import can meet.

### Interaction: one plan in one page

`index`, `attempt` and `keys` are the loops of `executePlaywrightInteractionPlan`,
`budget` and `trace` what the plan is given, `handler` how far the handler of each dialog
or popup is, `external` the failure one of them reported. A step is a stretch between two
awaits. A click stands for every step that is one call of the browser, a tab for those
that draw on a budget at every key or scroll.

### ScopeQueue: from an address to a job

`evaluateScope` is an operator on parsed addresses: normalization of hosts, ports,
queries and fragments, classes of addresses, the rules in their order of precedence and
the reason codes. An enqueue prepares its items one by one, each with reads of the Run, the Profile
and the queue, and then enters them in one transaction that finds a job, inserts one or
replays an answer. A raw address with a flaw is the reason code the parser gives it; a
key or a value of a query is a number; a decision stands for its `decisionId`. Relation,
display text and the list of matched rules are left out; depths stay within the contract's
bounds; a client asks the same again under a key. A command that is refused for a stale
revision changes nothing.

### OfflineRoutes and NetworkReplay: reading offline

`OfflineRoutes` maps archived URLs to routes, rewrites one document, a sequence of the
tags the rewriter looks at, and answers requests. A path is the sequence of its segments.
The tokenizer, the CSS walker and the revisions of rewritten documents are not in it.

`NetworkReplay` is a request that meets the same decision twice, in the CDP session and
in the context's route, with the page's authorisation in between, and the capture of what
the network answered into a file and a row. A body stands for its digest.

### ServiceCommands: commands side by side

A command is the sequence of its storage calls (`rest`); a call is refused, or it changes
the Project that is current at that moment, whichever was named. `connections`, `lock` and
`vaults` are what is open. A Run is named by its Project. Reads count as changes. The last
step of an open and the operation's first look at `current` are one turn of the event
loop; so are the last stage of a render and the taking of the repository by its commit.
A lock that another process holds is an open that fails. `project.close` and the close of
the service go on from await to await beside other commands: each login browser
(`NextBrowser`, `LeaveBrowser`), the metadata of its Session (`RestoreSession`), each secret
store (`LockStores`), then the Project. The host's secret-store
factory may hand out stores that are unlocked. What a cancelled render does is in
`JobExecution`. Commands that are unauthorised or cannot be parsed, and `system.describe`,
change nothing; `project.create`, `import` and `validate` do not touch the current
Project's rows, and `export` is in `ProjectStore`.

## 3. The runs

| Run | Asks | Bounds | Why they are enough |
|---|---|---|---|
| `core` | everything about ownership, pause and `FencedJob`, with what the application issues | 2 jobs, 2 owners, 2 attempts, batches of 1 | jobs interact only through the Run's control state and the limits of a batch, which two jobs and batches of one exercise; every race is between an old owner and a new one; the second attempt is the last one, so both sides of every attempt check occur |
| `port` | ledger and closed states with every operation of the port | 1 job, 2 owners, 1 repeated key, any Run state, any evaluation time | one job and a second owner are enough for every replay; the rest of the state is per job |
| `live` | every job ends, a pause completes | 2 jobs of different priority, 1 owner, 2 attempts | the seed can starve the other job, which needs two; the owner may stop at any point |
| `render` | results, files, failures, answers, `FencedJob` | 1 job, 2 processes, 3 attempts | a zombie, its successor and one more attempt after both |
| `pool` | counters, circuits, accounting, termination | 6 jobs, 2 proxies, 2 origins, 3 workers, 1 probe | more jobs than workers, more workers than one proxy or origin takes, a job bound to a proxy, one that is refused, and a late one for a circuit that opened before |
| `generations` | `AssetIsOneVersion` | 2 workers, 2 jobs, 3 generations, 3 claims, or 2 and a crash or failed step, 2 chunks, 2 versions, 3 files | the second claim goes on from the first one's file and the third from the second's, while the owners before them still write and the asset changes between two chunks. `AssetsAreOneVersion` covers larger ones |
| `stores` | what a Project keeps, seven parts | below | below |
| `engines` | what is under way, eight parts | below | below |

The parts of `stores`:

| Part | Property | Bounds | Why they are enough |
|---|---|---|---|
| lock | `OwnersKeepTheirLock` | 3 processes on 2 hosts, 2 acquisitions each, each may die | a dead owner and one that judges it; the third is on another host, whose locks are never judged. The property also holds with all three on one host, where two may judge one dead owner, the case it excludes |
| project | `StoreIsSound` | 2 tasks, 5 commands, 2 opens, 2 revisions, 3 migrations of which an old Project has 1, 1 fault, 1 crash | one failed step in one undone write, a migration that fails between two others, a death and the open after it |
| vault | `AcknowledgedChangesStay`, `SecretsStayReadable` | 2 stores, 3 commands side by side, 4 in all, 2 keys, 1 fault | two commands in one store and one in another, with a rotation among them |
| replay | `ReplayIsFaithful` | 2 tasks, 3 requests, 2 bodies, 1 fault | two captures of one address and a request that meets both |
| routes | `LinksReachTheirPage` | 2 pages, documents of one tag after 3 choices of `base`, 1 archived and 1 failed asset | addresses and routes of the two pages coincide, differ in case or in an escape, or are the root |
| render | `CompletedRenderIsSound`, `RefusalIsFinal` | 2 documents, 2 requests or redirects of the page, 1 measurement, 1 signal beside the deadline | the page navigates once under the engine, to an allowed address or to one that is not |
| key | `KeyOpensVault` | 2 tasks, 5 commands, 3 keys, 2 faults, 1 crash | a failure of the vault and one of the undoing |

The parts of `engines`:

| Part | Property | Bounds | Why they are enough |
|---|---|---|---|
| login | `FirstLoginResumesAfterSave` | 2 sessions, 2 commands side by side, 5 in all, 2 browsers, 1 flow, 1 fault | the second session competes for the one slot of an authentication browser |
| browser | `PagesKeepTheirBrowser` | 2 jobs, a user who restarts, a proxy test, 4 launches, 4 calls, 1 fault | a rotation after one page or at any age, and restarts up to their limit, which may be forgotten |
| budget | `TrafficWithinBudget`, `CooldownOutlivesTheProcess` | 3 requests of 2 URLs, 1 place, burst of 2, 2 ticks, cooldowns of 1 tick, 1 fault, restarts | two requests of one URL wait for one place while a third has it |
| proxy | `TestsBelongToTheirConfiguration` | 2 commands side by side, 4 in all, 3 references, 3 revisions, 1 fault | a test, an update under it, and the deletion of the row |
| plan | `AnswerTellsThePlan` | 2 dialogs of which 1 is allowed, 1 popup, 2 tabs, 6 trace events, 1 outside event | each limit is reached and passed once |
| scope | `OneJobPerPage`, `JobsStayInScope` | 2 commands side by side out of 8 batches, 2 keys, 4 Profiles, 2 revisions, 1 or 2 pages allowed | the same page under two addresses, decided twice before it is entered once, and a Profile that changes in between |
| service | `ChangesStayInTheirProject`, `ChangesAreMadeUnderTheLock`, `QuietServiceIsTidy` | 2 commands side by side, 3 in all, 2 Projects, 2 connections | one command closes what the other opened |
| archive | `ArchivesAreWhole` | 2 tasks, 3 commands, 5 entries, 1 fault, 1 crash, 11 given archives, 1 page that a render may add, with 3 contents | each given archive is whole or has one thing wrong; two tasks race to one destination |

Crashes, failures, commands and calls are counted and their bounds are named constants
that appear in guards; `PageQueue` and its extension need none, their counters are bounded
by `max_attempts` as in the code. Only the runs of `MCAssetDownload` have a state constraint:
it leaves the search where the property has lost its hypothesis for good, or what the run
looks for cannot come about any more (and, in `generations`, lets a fault take the place of a
claim). Recovery judges by the
present time in all runs but `port`; the command line lets its user name a later time
(`--at`), by which recovery takes jobs from live owners. Deadlock is not checked: a Run
whose jobs have ended, a pool that has returned and a system that has used up its bounds
stop.

`CapacityIsKept` is both halves of the pool's accounts: the counters are those of the
reservations, and a half-open circuit without a probe has room for one.
`NoStrandedPause` and `PausedRunHasNoOwner` are about the pause protocol, in which the
last owner to leave completes the pause; `AnswersAreTrue` about what a caller was told, but
for an error that is told when the commit's durable result could not be read back (`unread`):
the code lets such a failure pass for none;
`EveryJobAccounted` about a job that is cancelled, refused and blocked on the way. The
type invariants stand in the modules; `TypeCorrect` proves the one of `PageQueue`.
`OutcomesAreFenced`, `JobsFollowTheTable` and `ResultIsImmutable` are in no run: they are
proved (section 6). A few more properties that hold are stated in the modules and not
listed in a run, since a listed one implies or outweighs them: `PageLimitHolds`,
`ValidSessionHasItsState`, `BudgetsHold`, `CredentialIsStored`; the last two are proved.

Some properties hold only beside a hazard the code is open to, and name it as a hypothesis; they
do not speak of that hazard. `OwnersKeepTheirLock` leaves out a dead owner with two judges on
its host, `StoreIsSound` asks row, files and manifest to agree on a revision only when no
process died and no writes overlapped, and says nothing of the schema a crash between migration
and manifest leaves in the manifest (that is `MigratedProjectIsValid`, section 5);
`AcknowledgedChangesStay` and `SecretsStayReadable` leave out locks broken for their age
(`aged`), the latter commands side by side in one store (`overlapped`); `LinksReachTheirPage` a
second `base`, `PagesKeepTheirBrowser` calls that met a launch or a close under way (`raced`),
`TrafficWithinBudget` requests that ended before their permit (`withdrawn`),
`FirstLoginResumesAfterSave` reauthentications, `AnswersAreTrue` results that could not be read
back (`unread`). Section 5 and the notes on the hazards in `PROJECT.json` say what happens
there.

Each property of a run that passes has a mutant of the code in `PROJECT.json` under which
its run fails.

## 4. Fairness

Nothing in the repository calls itself. `FairSpec` of `PageQueue` assumes that the
clock goes on (Leases that nobody renews run out, retry times come) and that whoever
operates the archive keeps issuing the claim, release and recovery commands. It does
not assume that an owner ever reports or acknowledges anything: owners may die, and
every liveness property holds in spite of it. `FairSpec` of `WorkerPool` assumes that
the event loop runs, that an executor settles (the browser's timeouts see to it) and
that cooldowns end. It does not assume that a circuit's open time ends: `run` gives up
without it. `FairSpec` of `PageRender`, under which `RenderIsBounded` is stated, assumes
that the engine and the request handlers take the steps they can take and that the
deadline passes, and nothing of the page.
The parts of `stores` and `engines` have no liveness property: their commands are given
by a user who may stop.

## 5. Where code and documents differ

Each of the following is a run that ends with a counterexample; `PROJECT.json` quotes
the statements.

- `page`: `commitRenderResult` replaces the HTML file before it asks whether the caller
  still owns the job. A late owner is refused and leaves its bytes under the committed
  digest. It takes two users of the repository port; within one application service a
  second render of a job is refused.
- `asset`: the partial file is named by asset and generation, and generations count per
  job: two jobs that share an asset write one file, so that what was verified need not be
  what the content object holds. `AssetIsOneVersion` excludes this case (`shared`).
- `resume`: a download takes the partial file to go on from out of the row it read before
  its claim, the offset and the validator out of the claimed row. When another job's
  download of a newer version lies between the two, bytes of both versions end up in one
  content object, and no validator tells. It takes three jobs. `AssetIsOneVersion` excludes
  this case (`outdated`).
- `refusal`: `beginAssetDownload` asks whether the job that claimed the source has an active
  Lease, not whether that Lease is of the claim's generation. A job whose worker died in a
  download and that is claimed again is refused its own source as long as it works on it.

Further definitions state what documents or names promise and TLC finds violated when a
configuration names them:

| Module | Definition | What the code does |
|---|---|---|
| `PageQueue` | `ReplayGivesOwnClaim` | a claim repeated after a recovery answers with the token of the owner that has claimed since |
| `PageQueue` | `ResumedWorkCanBeClaimed` | a job paused in its last attempt is requeued and no claim takes it; it blocks the head of the queue |
| `PageQueue` | `FinalRunsClaimNothing` | recovery sets the control state of an ended Run back to "active" |
| `LoginFlow` | `RunResumesAfterSave` | a reauthentication whose save is refused puts the previous metadata back and answers with them; they may say "valid", and the Run goes on although nothing was saved. A first login has no previous metadata that say so, hence `FirstLoginResumesAfterSave` |
| `PageRender` | `RenderIsBounded` | the deadline and a cancel are looked at between page operations, which have no timeout of their own; a script that does not end keeps the render for ever. It holds of pages whose scripts end (`MayHang` FALSE) |
| `ScopeQueue` | `RetriesAreReplayed` | an enqueue repeated under its key after it created its job has another scope decision, hence another hash, and is refused as a conflict |
| `WorkerPool` | `ProbesAreBounded` | a worker reserved before its circuit opened is counted as the probe that ended |
| `WorkerPool` | `BlockedByOpenCircuits` | a cooldown that ends between two reads of the clock leaves its jobs, and those of origins that still cool down, reported blocked |
| `ProjectLock` | `OneProjectWriter` | three processes of one host: two judge one dead owner; the second removes the lock the first has made |
| `ProjectStore` | `OlderSchemaIsValid` | a migration that fails after another one has gone through leaves a database ahead of its metadata, which neither validation nor open accepts |
| `ProjectStore` | `MigratedProjectIsValid` | a process that dies between the first migration and the manifest of an open leaves a manifest of the old schema over a migrated database; validation finds the mismatch and precedes every open |
| `Vault` | `MutationsUseTheKey`, `NoDuplicateSecret` | a change that waited over a lock encrypts with zeros; two creations side by side make a duplicate |
| `BrowserRuntime` | `RestartSparesPages` | two launches at once leave one process behind; the end of a close forgets the jobs that began since |
| `Interaction` | `CrashIsNotReplayed`, `BlockedDialogFailsThePlan` | a crash within a step is an unknown error of the step and may be retried; a failure of a dialog is looked at after completed steps only |
| `OfflineRoutes` | `LinksStayOffline` | a second `base` element remains in the rewritten document |
| `NetworkReplay` | `EveryCaptureIsKept` | of two captures of one new body the slower may fail, and its row, of another request, is missing |
| `ServiceCommands` | `StrictlyTheirProject` | `withOpenProject` does not compare the path: proxy commands, `interaction.profile.get` and `secret.list` work on whichever Project is open |
| `ServiceCommands` | `FilesAreWrittenUnderTheLock` | a render's HTML may be written after another command closed the Project |
| `ServiceCommands` | `OverlappedServiceIsTidy` | two opens side by side: the second replaces `current`, the first's lock and database stay until the process ends |

Read off the code while modelling, each visible in an action of the module named:

- Queue and Runs: recover writes a control state back for ended Runs; a Run left in
  "waiting_for_auth" by a cancel, a closed browser or a crash cannot be paused;
  `executeRenderStart` uses the current Profile and not the job's revision; an abort
  during the last step of a plan that skips failures still answers "completed".
- Project: `uncleanSessions` is never reset, so the recovery status stays
  "recovery-available" after one crash; an empty lock file after a crash keeps everyone
  out; an export and an import of the Project that is open race; an export checks neither
  the ratio nor the collisions of names that an import refuses; of two exports to one path
  the second replaces the first; an import whose last directory sync fails is answered as
  failed though it was promoted; a crash leaves a staging directory that nobody removes.
- Secrets: a store of an older generation calls healthy records tampered with; two
  initialisations side by side, an unlock that renews the key beside one, or a failure
  after the vault's rename leave a vault without its key; a crash between key file and
  vault leaves a key file with which initialize answers "already exists" and unlock
  "uninitialized" for ever.
- Scheduler: one failed cooldown write makes every later flush fail.
- Offline reading: routes with a trailing slash or a percent escape are answered 400 or
  404; an empty attribute value fails the whole rewrite; a `srcset` candidate without a
  descriptor swallows the rest; an unarchived link whose path equals a route is taken for
  local; the keys a capture ignores are not ignored by the lookup, HEAD lookups and
  redirects never replay.
- Render: navigation by script after the observer is in place always ends in a stability
  timeout; the final address is read again after its authorisation, and addresses set
  through the History API are not authorised; a slow budget or name resolution during
  navigation is classified as a refused address, which is not retried; a sensitive key of
  a denied query is absent from `normalizedUrl`.
- Without callers in the product: `releaseAllNetworkPermits`, `consumeAction`,
  `decideInteractionRecovery`, `selectEligibleProxy`, `assertProxyAffinity`,
  `classifyRedirect`, `classifyCanonical`, the rewriter and the local runtime.

## 6. The proofs

Every theorem holds for every value of the constants that satisfies the assumptions named
with it. A theorem about an instance (`Budget!`, `Browser!` and so on) is stated of the
module's own specification, in which the part runs alone; the runs `stores` and `engines`
check the same property under `part = "..."`.

| Module | Theorem | Says |
|---|---|---|
| `PageQueueProofs` | `TypeCorrect` | rows keep their types, so no counter passes the attempt limit |
| | `MutualExclusion` | at most one active Lease per job |
| | `LeaseIsCurrent` | an active Lease has the state, token and generation of its row |
| | `FencingOrder` | generations identify the Leases of a job and order its attempts |
| | `LedgerIsTrue` | attempts have no gap, only the last one is open, exactly while its job is processed, an attempt closed with a final word is the last one and its word the job's, and a completed job has one |
| | `NothingReopens` | no step takes a job out of a terminal state |
| | `PausedIsIdle`, `NothingStaysPaused` | a paused Run has no active Lease, an open Run no paused job, under `LoginOnly` |
| `ExecutionProofs` | `QueueImplementsFencedJob` | the queue implements `FencedJob`, when every claim takes a Lease |
| | `OutcomesNeedALease` | only a live owner closes an attempt with an outcome, and recovery interrupts one only when its Lease is out, unless recovery's caller chooses the time |
| | `CheckpointsMoveForward` | no Checkpoint of an older generation becomes the latest |
| | `TableIsFollowed` | every change of a job is an edge of the transition table, or two through "interrupted" |
| | `RecordsAgreeWithQueue` | results and failure records agree with the attempts and jobs they were written beside |
| | `ArtifactIsFirst` | a committed result has its page on disk |
| | `NoAnswerLies` | a success has a durable result behind it, an error none of its own, unless that could not be read |
| | `ResultStays` | a committed result is never replaced |
| | `ExecutionKeepsOwnership`, `ExecutionOutcomesNeedALease`, `ExecutionPausesWhole` | what is proved of ownership, ledger, fencing and pause holds of the application's own writes too |
| | `ExecutionKeepsFencedJob` | renders, interactions and crashes implement `FencedJob` |
| `WorkerPoolProofs` | `NoCapacityIsLost` | the counters are those of the reservations and within the limits; a half-open circuit without a probe has room for one |
| | `NoJobIsLost` | every job is in exactly one place |
| | `BudgetIsInvariant`, `TrafficStaysWithinBudget` | the permits granted in any window are within burst and rate, and the requests under way within the limit, unless one had ended before its permit came |
| | `CooldownsHold` | a cooldown that a response asked for is kept, in this process or, when its snapshots were written, in the next one |
| | `ManagerIsInvariant`, `TestsKeepTheirConfiguration` | what a test, an enable, a disable and the end of a cooldown say is written to the configuration they were about |
| | `ProxyCredentialIsStored` | the credential a proxy refers to is in the Secret Store, unless a caller named one that was another command's, or the proxy was deleted and made again under a command |
| `ProjectStoreProofs` | `StoreIsInvariant`, `StoreStaysSound` | `StoreIsSound`: row, files and manifest agree, exports can be imported, revisions have no gap, deaths are noticed |
| | `OwnersAreSafe` | who makes, holds or releases the lock finds its own file, unless a dead process has two others on its host |
| | `OneWriter` | without that window at most one process has the lock |
| | `TransferIsInvariant`, `ImportsAreWhole`, `ExportsAreAccepted` | an imported or created directory is one valid Project, whole, made by the command that says so; an archive is refused only for a reason; an export has what its source had when it began and is accepted by an import |
| `VaultProofs` | `VaultIsInvariant`, `AnsweredChangesStay` | a change that was answered is in the vault from then on, as long as no lock was broken under a command |
| | `VaultStaysReadable` | records decrypt, and no store takes one for tampered with |
| | `DesktopKeyIsKept` | the key file has the key of the vault, unless an initialization ran beside another command or failed after its vault was in place |
| `ServiceProofs` | `ServiceIsInvariant`, `ChangesStay` | a command changes the Project it names, but for proxies and Interaction Profiles |
| | `ChangesAreLocked` | rows change under the lock of their Project only, and an open Project is locked |
| | `QuietIsTidy` | commands that come one at a time leave no lock, database, unlocked store or login browser of a Project that is not open |
| | `ScopeIsInvariant`, `EntriesStaySound` | a revision has one job for an identity; every discovery is of that job and not above it; every job is of an address its revision lets in |
| | `AnswersAreOne` | two answers under one key are the same, or one is a conflict: what holds of `RetriesAreReplayed` |
| `RenderProofs` | `RenderIsInvariant`, `RendersAreSound` | a completed render has the HTML of a document the policy let through, measured by the observer that was put into it |
| | `RefusalsAreFinal` | a page the policy refused is not tried again, nor is one whose first request was still being asked about |
| | `BrowserIsInvariant`, `PagesKeepTheirs` | a page loses its browser to no restart or rotation, unless a call met a launch or a close under way |
| | `ReplayIsInvariant`, `ReplaysAreFaithful` | a replayed answer was given by a server to that request, body and status together; a strict policy lets out only requests to the runtime |
| | `PlanIsInvariant`, `PlanBudgetsHold` | keys pressed, windows let go on and attempts made stay within the budget |
| | `StepsAreTold` | an answer tells of the steps up to the plan's end, each once and in order, and is completed exactly if it tells of no failure: `AnswerTellsThePlan` without its counts |
| `AssetProofs` | `PathsKeepTheirClaim` | every claim writes a file of its own, and the row's offset and validator fit the file it names |
| | `AssetsAreOneVersion` | a completed asset is one version, whole, and its object has those bytes |

### Assumptions

- `PageQueue`: the attempt limit and the batch limits are positive, priorities are numbers,
  requests are pairs of Run states, the flags are Booleans, the null values are not jobs
  or keys. Jobs, owners and keys are any sets.
- `QueueImplementsFencedJob` assumes `~UnleasedClaims`: the repository port has a claim
  without a Lease, which no command of the application issues, and a job claimed by it is
  reported by anybody with its token. `OutcomesNeedALease` assumes `~FutureEvaluation`:
  recovery at a time that its caller names takes jobs from live owners, which is what the
  command line's `--at` is for. `JobExecution` has no unleased claim at all, so
  `ExecutionKeepsFencedJob` needs no assumption.
- `LoginOnly`: `setRunState` is asked only to let a running Run wait for a login and to let
  it run again, which is all that the application service asks: its second request names
  only the target, but a waiting Run cannot be paused (the transition table refuses it)
  and one authentication browser is open at a time, so the Run still waits. Without it the
  two theorems are false: `setRunState` writes the control state that goes with the
  requested Run state and looks at no Lease, so a user of the port may write "paused" while
  owners work.
- `WorkerPool`: `Jobs` is a sequence without repetition, each job has an origin and asks for a
  proxy or for any, limits and capacities are positive.
- The lock file (`LockConstants`): the value for "no file" is no instance and the number of
  acquisitions is a number; nothing is asked of hosts and processes. The theorem's disjunct
  `TwoJudges` is the window the code leaves open (section 5, `OneProjectWriter`): a dead
  process and two others on its host, which can both have judged its lock stale.
- `ProjectStore`: "no task" is no task; the current schema is positive and an old Project's
  lies below or at it. Archives (`TransferConstants`): given archives are archives; the names
  of the Project's own files and of the pages that renders add are portable, and no two of
  them are one when case is ignored. The code makes those names (`pages/<job>/index.html`
  with a UUID); section 5 names what an export of other files may do.
- `Vault`: every command names a store, and "nobody" is no store. `ProtectedKey`: none.
- `ServiceCommands`: "nobody" is no Project. Enqueues (`ScopeConstants`): a command enters a
  nonempty sequence of addresses, depths and depth limits are numbers. Rules, hosts and
  queries are anything.
- `PageRender`: the main frame is not an image, and what is rendered is an address. Browser
  (`Callers`): the user's restart and the proxy's test are callers of their own. Replay
  (`ReplayConstants`): there is a request, and a key is there or not. Plans
  (`PlanConstants`): plans are sequences of steps, finitely many dialogs and popups open and
  are told apart, limits are numbers.
- Budget (`BudgetConstants`): every fetch has a key; limits, rate and times are numbers.
  Proxies (`ManagerConstants`): "no reference" is not the number of one.
- `AssetAssumption`: "nobody" is no job, lengths and generations are numbers, there is a
  version. `AssetsAreOneVersion` is about behaviours in which no two page jobs used one
  partial path (`shared`) and no download began from an outdated file (`outdated`); each is
  a defect the code has, with a run that ends in it (`asset`, `resume`). Everything else is
  allowed: old owners that go on writing, expired Leases, restarts of the range, a remote
  asset that changes at any moment, crashes and failed steps.

### The arguments

**Leases.** `OneActiveLease` is not inductive: that a new Lease is the only active one
needs that an active Lease means a processing job (`ActiveLeaseIsCurrent`, since claims
take waiting jobs); that it is the newest one needs that both counters of the row bound
every Lease ever inserted (`LeasesBelowRow`), and that a generation is never drawn
without an attempt (`GenerationsBelowAttempts`), which keeps generations within the limit.
With `GenerationsOrderOwners` these make `LeaseInv`, and `IInv == TypeOK /\ LeaseInv`. The
steps are grouped by what they do to Leases: `EndingStep` is for any step that ends a set
of Leases, of which complete, fail, skip, block, release, pause and recovery are
instances, each with its own proof that the rows it changes have no active Lease left;
`QuietStep`, `GrantStep` and `ExpireStep` are for the others.

**The ledger.** `AttemptLedgerAgrees` is not inductive either: an owner closes the attempt
its token names, and that this is the last one has to be known of the row. `RowSound` adds
that a processing row carries the token of its last attempt, and that an overlay lies
only over processing, so that it hides no terminal state. Neither speaks of Leases, so
each step is classified by what it does to one row and its attempts: it `Rests`, `Waits`,
`Opens` an attempt or `Closes` one (together: `Moves`). `RowSound` is preserved by each of
the four, and `NothingReopens` and `TableIsFollowed` follow from the same four.

**Fencing and the refinement.** `Guarded` says of each step what `Moves` does not: whether
it draws an attempt, under whose Lease it closes one, and which generation it writes into
a Checkpoint. Two facts are then inductive: when every claim is leased a job has as many
generations as attempts (`ClaimsAreLeased`), so nobody reports without a Lease; and no
Checkpoint is newer than its row (`CheckpointsBelowRow`), so one that is written now is the
newest. `RowImplements` takes a row's `Moves` and `Guarded` to a step of `FencedJob` for
that job or a stutter. It asks nothing else of the step, so it serves `JobExecution` as
well, where other actions write the same tables.

**The pause.** `PausedRunHasNoOwner` says nothing of a pause that is only requested, so it
does not survive the acknowledgement by itself. `ControlFollowsRun` adds that the control
state is active exactly while the Run works; with it, claims are refused from the request
until the resume, owners can only become fewer, and `OrdinaryStep` covers every action
but the pause, its acknowledgement, the resume and recovery.

**Renders.** A step of the application is one of three (`StepKinds`): it is an operation of
the queue, or nothing, and writes no record; it commits a result together with the
queue's completion; or it records a failure together with a failure of the queue that is
due at once. The last is no step of `PageQueue`, so `QueueInv` is proved for it separately.
`RecordsAreAttempts` ties each record to the attempt of its number, and `StagesAreTrue` says
what a process in the middle of a render may believe: as long as it has not heard of its
commit, or has given up, no result is its own. A commit that took effect and reported an
error is a step to "unsure", from which only the read of the durable result leads on. When
that read fails, the code goes on as if there were none, so `StagesAreTrue` and
`AnswersAreTrue` say nothing of that process from there on (`unread`).

**The scheduler.** `Parted` says that the six places of a job are a partition; every
action moves one job between two of them, or drains the queue. The counters are
cardinalities of sets of reservations, so each action needs the lemma that adding or
removing one reservation changes exactly the counters of its proxy and its origin, and
for that, that no job is reserved twice (`OneReservation`). A circuit that could be stuck
half open is one whose probes are all counted and none is running; `FullHasProbe` excludes
it: every way out of the half-open state gives the probes back.

**The lock.** An owner keeps its file because whoever removes a file has judged its
instance dead and still finds that instance there (`JudgementHolds`). A second judge of
the same host breaks exactly this, and only this: the invariant is a disjunction with
`TwoJudges`, which stays true once it is, as no process comes back to life.

**Assets.** A claim has a partial path of its own, used by its worker alone until the
asset is completed (`Owned`, `Apart`); afterwards others are guests at the completed path and
write nothing. What makes a resumed download sound is that its predecessor may go on
writing: `Agrees` says of a file together with an offset and a validator that the bytes up
to the offset are of one version, and that a response which the server gives under this
validator is of the same version or restarts (`Tells`), whatever the file's writer still
does. It must hold of the row, and of each worker between its claim and its copy. Steps
that touch one worker and its file are `Local`; those around them are `Outer`.

**The vault.** Which file a command may write is a matter of generations: what was read is
an older vault or the one that is there (`Seen`), and what is about to be written follows
it and forgets no change (`Follows`). That needs `OneHolder`, which a lock broken for its
age destroys, so `LockInv` is proved while `aged` is false. That records decrypt needs
besides that a store's key buffer is the one its command was checked with (`Relies`), which
other commands of the same store may overwrite, hence `Alone` and `~overlapped` in `KeyInv`.
For the desktop's key file the one command that initializes is alone, and commands that
unlock hold the key that the file has (`HoldsTheKey`).

**The store.** `Exclusive` says whose the lock and the connection are in each stage of open
and close, with no hypothesis. `Orderly` follows a Profile write or an export that runs
alone through its stages: what the row, the two files and the manifest hold after each, and
what was collected to undo it; every fault of it goes back to agreement. `Sessions` says
that a session nobody ended is the open Project's, or one a crash left and the next open
finds.

**Archives.** `OnItsWay` says what each command has behind it: what was verified is what is
staged, what is staged is valid before it is promoted, and only a command that made the
destination answers so. An export that fits the limits is accepted by the checks of an
import (`ExportIsSound`): each of them is taken in turn. Files that compress more than a
hundredfold are the exception, which the code does not look at when it exports.

**The service.** `Locked` ties the lock of a Project to its one open connection, or to the
command that has the connection in its hands. Which Project a call changes follows from
`Aimed`: session commands have compared, and the last calls of a render work on what its
commit found open. `Fine` is what the proofs know of the programs; it is proved of the
table of commands entry by entry. `Tidy` is for commands that came one at a time.

**The enqueue.** Each prepared item carries a decision that was made with some reading of
the queue (`Decided`), however old; when it lets the address in, then so does a decision at
any smaller depth that takes the identity for known (`LetInAgain`). So a job keeps what let
it in when a later discovery lowers its depth, and a second job for an identity would need
the transaction not to have looked.

**The render.** The policy's yes precedes every request of the main frame that goes on, hence
every document that is there (`Authorized`); `InHand` carries this from the engine's
response to its HTML, and says that the observer was in place when quiet was measured.
`Marked` says that a refusal has left its flag, which the engine reads before it calls a
failure one of the network. `Asked` says the same of a request that policy or budget still
hold: until the first document has come there is no request but the main frame's, so only
its handler turns the pending flag off, and not before the request may go on.

**The browser.** While no call met another's launch or close (`raced`), a page under way is
counted and in the current browser, who launches or closes does so alone, and who closes
has found no active page: `restart` and rotation both wait for that count.

**Replay.** `AnswersWereHeard` follows an answer from the server or the snapshot through the
two layers into the file and the row; a key that the policy ignores is the only difference.
The body precedes its row (`BodiesAreThere`), and only damage from outside can undo it.

**Interaction plans.** The attempts counted are the tries of the step at hand, and later steps
have none; a window that was let go on was counted by the budget before it (`Spent`), which
is needed of a finite set that grows by one. `Told` says that the events of steps are those of
the first n, each once and in order, where n is the place of the plan.

**The budget.** `WithinRate` adds the tokens at hand to what was granted since a tick: a
grant moves one from the first to the second, and a tick adds at most the rate. That alone
bounds every window. `OnePermitEach` counts permits by URL, since a request that ends takes
whichever permit its URL has. A cooldown is in force and in the last snapshot that will be
written (`CooldownHolds`), the row if there is none.

**Proxies.** A command that may still write knows the row as it is, or an earlier revision,
against which its write is refused (`KnowsTheRow`), unless the row was deleted and made
again, which starts its revisions anew (`reborn`). A credential made and not yet referred
to belongs to its command alone (`Own`), and one that is to be removed is no longer the
row's, which is why a caller who names an existing one (`adopted`) is excluded.

### Only model-checked

- Liveness under fairness (`EveryJobEnds`, `PauseCompletes`, `RunEnds`) and `ENABLED` are out
  of the prover's reach.
- Induction over data is, too: a count over a sequence (what `AnswerTellsThePlan` counts,
  `PageLimitHolds`), and sorting, on which it depends that equal pages have equal identities
  (`OneJobPerPage`, of which `EntriesStaySound` is the rest) and that a normalized address
  is its own normal form (`JobsStayInScope`).
- `LinksReachTheirPage` is about one computation on documents and addresses; what can
  go wrong are coincidences of addresses, which the run enumerates.
- `FirstLoginResumesAfterSave` speaks of the sessions saved since the Run began to wait. It
  holds for the one process and the one slot that the run has; with two flows at once, a
  second one may begin while a command of the first, already saved, is about to resume the
  Run. `LoginFlow` has no proof.

## 7. What is not modelled

- Heartbeats and renewals: a Lease that is renewed is one that does not expire. The
  recovery cursor and inspection reports: `Recover` may take any batch of the candidates
  within its limit. Output descriptors of completed jobs.
- Replay of queue operations other than claims and enqueues: the reply is stored, nothing
  is computed.
- The contracts and their schemas, the command line and the desktop, observability,
  platform and test support: they parse, show and forward, and keep no state that the
  parts above decide on. The service's translation of errors and the metadata of its logs.
- Text: the tokenizer, the CSS walker, the revisions of rewritten documents and the
  generated service worker; the parsing of imported proxies.
- Screenshots, fixture scrolls, console observation.
- The secret store in memory, which tests use; cryptography; checks of symbolic links.
- Chromium itself: what it may do to the program is in `PageRender`, `BrowserRuntime` and
  `Interaction`.
- The spikes of an early phase, which no product code uses.

## 8. Plan

1. Theorems about `LoginFlow` and `OfflineRoutes`, and the facts about sorting that
   `OneJobPerPage` still needs, once a backend can do an induction.
2. The recovery cursor and output verification, added to `PageQueue`'s `Recover`.
3. Compositions: `OriginBudget` with `WorkerPool` through the origins' cooldown,
   `LoginFlow` with the Run part of `PageQueue` through `SetRunState`.

## 9. Running it

`tlc -config PageQueue_core.cfg MCPageQueue.tla` checks a run, `tlapm
PageQueueProofs.tla` the proofs of a module. `Stores.cfg` belongs to `MCStores`,
`Engines.cfg` to `MCEngines`, `AssetGenerations.cfg` and `AssetResume.cfg` to
`MCAssetDownload`, `AssetDownload.cfg` and `AssetRefusal.cfg` to `AssetDownload`; the other
configurations are named after module and run.
