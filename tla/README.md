# Formal models of unerr

TLA+ models of the parts of unerr in which several processes, timers and files have to agree,
with the TLC runs that check them and the TLAPS proofs about them. Paths below are relative to
`src/` of the repository. The system first, then the models, the checks, the proofs, what is
left out, and the plan.

    tlc -workers 2 -config pm_ensure.cfg MCProcessManager     # one run
    tlapm ProcessManager_proofs.tla                           # one module of proofs

## 1. The system

    agent / IDE ──stdio──> unerr --mcp  (bridge, one per session)
                             │  ~/.unerr/spawn.lock, unerrd.pid, unerrd.sock
                             ▼
                           unerrd       (daemon, one per machine) ──HTTPS──> cloud
                             │  fork + IPC; .unerr/state/proxy.pid, proxy.sock
                             ▼
                           proxy        (one per repository; owns .unerr/graph.db)
                             │  file watcher, incremental reindex, ledger, tool calls
    hooks, CLI ──append──> .unerr/events/*.jsonl, registry.json, claims

A bridge finds unerrd, starts it when there is none, asks it for the proxy of its repository
(`ensure`), and from then on relays frames to the socket of that proxy. unerrd forks the proxies
or adopts those already at work, keeps them alive, recycles them, stops them, and pushes their
telemetry to the cloud. A proxy keeps the code graph up to date while files change and answers
the tool calls.

### Components, their state and their properties

| Component | State | Operations | What makes it correct |
|---|---|---|---|
| Process manager, `daemon/process-manager.ts` | `repos`: key → ManagedRepo (status, child, pid, connections, strikes, readyWaiters); `startupFailures`; the children | ensure, tryAdopt, spawn, waitForReady, handleChildMessage, handleChildExit, connect, disconnect, stop, idle sweep, liveness probe, reaper, shutdownAll | every ensure() is answered; waiters and entries agree; one proxy per repository; `pm stop` leaves none |
| Proxy pid lock, `proxy/pid-lock.ts` | `proxy.pid`, health server, heartbeat | acquire, kill a wedged holder, becomePrimary, heartbeat, release | a holder at work keeps its lock; a wedged one is dead before it is replaced; nobody hangs |
| Discovery, `entrypoints/cli-main.ts`, `entrypoints/daemon.ts`, `daemon/spawn-lock.ts` | `spawn.lock`, `unerrd.pid`, `unerrd.sock`, the pass of each bridge | probe, spawn, wait, ensure, version convergence; acquirePidLock, listen, shutdown | every session gets its proxy; no lock outlives its attempt; a running unerrd is not displaced |
| Telemetry push, `daemon/push-reporter.ts`, `cloud/sync/*`, `events/event-store.ts` | segments, `push-cursor.json`, batches of a round | append, drain in rounds, combined request, truncate, reap, save | no row is lost; every row is settled some day |
| Code graph refresh, `intelligence/graph-holder.ts`, drift drain of `proxy/proxy.ts` | `changedFilePaths`, `fileChangesSinceLastRebuild`, `rebuilding`, `rebuildPending`, timers, `pendingDriftPaths` | watcher batch, idle and retry timers, incremental, checking and full runs, fallback, drain | every edit reaches the graph; one reindex at a time |
| Bridge relay, `proxy/bridge.ts`, `proxy/bridge-catalog.ts`, loop of `entrypoints/cli-main.ts` | listeners of stdin, pre-connect queue, `pending`, `answeredLocally`, `inflight`, `fallbackTimers`, heartbeat | intercept, relay, answer locally, fail what is in flight, reconnect, end with the IDE | no request is answered twice, each is answered; a bridge without an IDE ends |
| Database client, `intelligence/local-graph.ts`, `cozo-worker-client.ts`, `cozo-worker.ts` | write chain, pending requests, breaker, transactions in the worker | query, write, transact, their timers, probe, worker death, close | what callers are told is true; transactions are whole; writes keep apart and in order; every call ends |
| Entitlements and login, `cloud/plan/*`, `cloud/auth/*`, `cloud/sync/conventions-sync.ts`, `commands/login.ts`, `logout.ts`, `whoami.ts` | credentials, signed cache with its largest server time, conventions document, disconnected marker, timer chain | refresh job, login, logout, whoami, conventions pull | a lasting login keeps a usable plan; nothing outlives its login; a disconnected machine knows it and its plan lapses |
| Registry, `daemon/registry.ts` | `registry.json` | read, add, remove, touch | concurrent changes both survive |
| Transcript pipeline, `tracking/transcript-*.ts` | claims, offsets | claim, pass (resolve, read, append, save, sweep) | no turn is skipped; the last turns ship before the claims go |

Beside these there are the tool dispatch and router, sessions and dedup caches, compressors,
behaviours, drift and branch state, ledger and rewind, metrics, indexers and extractors,
conventions and semantics, federation, timeline, hooks, commands, configuration, update, work mode, skills and the terminal interface. `PROJECT.json` lists each with its sources and the
reason it has no model; in short, they are single calls, pure functions over data, or I/O.

### What is hard here

* **Awaits.** `ensure()` decides on a map entry before an await and changes the map after it; a
  caller may meanwhile have replaced the entry. Reindex runs, drains and probes have the same shape.
* **Files as locks.** Four files are read, judged stale and unlinked in separate steps by
  processes that know of each other only through them.
* **Death at any point.** Proxies, bridges and unerrd are killed, crash, block, and are replaced
  while their messages and exit events are on their way.
* **Two records of one thing.** Counter and set of changed paths, offset and file, pid file and
  socket, child handle and process.
* **Work that cannot be cancelled.** A timeout ends the wait of a caller, never the native write, the
  request or the run behind it, whose late end must do no harm.
* **Something must happen eventually.** A session gets its proxy, a held batch is sent again, an
  edit gets into the graph, a plan is refreshed, the last turns of a transcript are shipped.

`PROJECT.json` lists the hazards, each with its line and the properties that watch it.

## 2. The modules

| Module | Models | Composition |
|---|---|---|
| `ProcessManager` | unerrd's process manager for one repository, its callers, bridges and proxies | has its own abstract `Lock` step for what `PidLock` details |
| `PidLock` | proxy.pid between the processes of one repository, file operation by file operation | |
| `Discovery` | bridges and unerrd processes around spawn.lock, unerrd.pid and unerrd.sock | answers of `ensure` stand for `ProcessManager` |
| `Outbox` | abstract: what the push promises to the producers of telemetry | |
| `PushDrain` | one tick of the drain: cursor, rounds, requests, truncation, save | implements `Outbox` |
| `GraphHolder` | watcher, graph holder, reindex runs, drift drain of one proxy | |
| `Conversation` | abstract: what a bridge promises an IDE | |
| `BridgeRelay` | one bridge between its IDE and a proxy that comes and goes | implements `Conversation`; `Found` stands for `Discovery`, a lost pid file for `PidLock` |
| `GraphDatabase` | the store, its worker client and the worker thread of one proxy | its timeouts and failures are the upsets of `GraphHolder` |
| `Entitlements` | one machine's login, plan and conventions: refresh job and commands | |
| `Transcripts` | claims of hooks, transcripts of agents, and the pass of unerrd | its rows are appended to what `PushDrain` drains |
| `MC*` | the instances TLC checks: symmetry, view and the concrete rows | extend the modules above |
| `*_proofs` | the theorems | extend the module and TLAPS; `LockFiles_proofs` extends both `Discovery` and `PidLock` |

In every module a step is what the code runs from one `await` to the next (within one process
nothing else can run there), or one file operation where other processes share the file. A
handler's trailing work belongs to its step. Definitions bear the names of the code where
possible, and `map` in `PROJECT.json` gives the lines of each.

### ProcessManager

`cur` is `repos.get(key)`. Every ManagedRepo object ever created is an *entry* (`ent`), so that
an object the map has dropped, but a waiter or a closure still holds, stays in the model. The
child forked for entry *e* is process *e*; `External` is a proxy somebody else started. `call`
says at which await each `ensure()` call stands, and then what its bridge does.

| Code | Action |
|---|---|
| ensure() up to the first await; after `isSockConnectable` | `EnsureStart`, `ProbeSettles` |
| tryAdopt(): socket probe, health probe, after `killProcessAndWait` | `ConnectProbeSettles`, `HealthProbeSettles`, `KillDone` |
| waitForReady() and its timer | `Wait` (within the steps), `Timeout` |
| spawn(), the child's `error` event | `Spawn` (within `Miss`), `ForkFails` |
| handleChildMessage, handleChildExit | `HandleReady`, `HandleExit` |
| connect, disconnect | `Connect`, `BridgeEnds`, `Disconnect` |
| stop, shutdownChild's 10 s timer, idle sweep | `Stop`, `KillTimer`, `IdleSweep` |
| probeLiveness, reapDuplicateChildren | `ProbeLiveness`, `Reap` |
| shutdownAll, exit and crash of unerrd | `ShutdownAll`, `DaemonExit`, `Restart` |
| the proxies | `Lock`, `Listen`, `SendReady`, `Heartbeat`, `Leave`, `Exit`, `SigKill`, `Crash`, `Freeze`, `Thaw` |

`flags` holds what is under way for a process: a signal, a shutdown message, an armed kill timer,
a `ready` message, an exit event. The exit event follows the messages already in the IPC pipe.
`SweepClears` is the end of `shutdownAll`'s wait for a proxy that only proxy.pid named, whose files it
then clears. unerrd starts on a repository with nothing, the files of a dead proxy, a proxy at work,
or two; or (`crashed`) its own child has served and died this moment, so that two calls meet an entry
that is `running` and a socket nobody answers.

Abstractions: in `ProbeLiveness` ping and strike are one step; grace period and idle time are
left out (a sweep may come at any time, counted as an upset); pids are not given away again;
`ensure` is not called while unerrd stops; only one repository key, for keys share nothing here. The
bounds are `MaxCalls` calls and `MaxEntries` entries, and an assumption says there are more than two
entries per call: a call forks once and adopts once, so no guard on the number of entries cuts one short
or keeps two calls from being inside `tryAdopt()` together.

### PidLock

`file` holds a process, nothing, or a torn body, because `writeFileSync` truncates before it
writes. `pc` follows `proxy.ts`: `Check` (read and parse), `ProbeSettles` (the health probe with
its retry), `KillWedged` (`killAndWaitForExit`, then `acquire()` once more, `second`), `Remove`,
`Truncate` and `Write` (`becomePrimary`), `Beat`, `Leave`. Faults: `Crash`, `Freeze`, `Thaw`,
and `Recycle` (the pid of a dead proxy goes to another program). `witness` is a history variable:
the holder a process has had in front of it since it was started. The old file format without a
port and the Windows branch are left out.

### Discovery

`bridge` is the pass of `discoverWithRetry` and of the loop around it: probe, ensure, spawn once
per pass under `spawn.lock`, wait, converge on the new version after an upgrade. `stage` is an
unerrd from `acquirePidLock` to its exit. `Reclaim` and `Unlink` are the two halves of
`reclaimIfStale`. In the code each unlink goes by path, whatever is there by then; so it does
here. Writing the lock's body and spawning are one step. Timeouts that elapse although an unerrd
is on its way are upsets; those that elapse because none is, are not; an `ensure` that fails or times
out although unerrd serves is one too. A bridge loses its proxy when unerrd stops it (`Doomed`), and may
lose it when unerrd is killed (`Orphaned`): the proxies it has forked exit when the IPC channel closes
(`cli-main.ts:991, 1003-1012`), those it has adopted stay. `reused` are the dead processes whose pid
another program has now, which `acquirePidLock` and `reclaimIfStale` take for the old ones
(`PidReused`). The `refused` answer is in `BridgeRelay`; the exit on a closed stdin is left out.

### PushDrain and Outbox

A row is (segment, n). `base` is how many rows were truncated away, an offset counts rows in the
file as it is. `Read` is a round of `readSegmentFrom`; `Accepted`, `Deferred`, `Rejected` and
`Unanswered` are the answers to one request (a 2xx with per-row results, with deferrals, a
terminal 4xx, anything that holds the cursor); `ApplyCombinedAck` moves the offsets;
`CheckSegments` and `Clean` are the two halves of truncating and reaping; `Save` renames the
cursor file. `Abort` ends a tick anywhere, the moment before the save included. Which batches share a
request is nondeterministic within the row cap. Two history variables: `slipped` collects the rows
appended between the size check and the truncation, a loss that the comment at
`cloud/sync/drainers/ingest.ts:409` accepts; `stranded` the segments emptied by a tick that then did not
save, or while another drain was at work.

Lines have unit length and all parse: byte caps and torn lines are left out, and so are the
per-stream path, the timer and its backoff, `seq.json`, the wire projection and parking by age.
Losing the entitlement is `Gated`. `Outbox` has two variables: what was produced and what is
settled. `PushDrain` implements it with `produced <- Appended`, `settled <- Settled`.

### GraphHolder

A file is a version number; the graph holds, per file, the version it was built from. `Notify`
is the watcher's debounced batch with `notifyFileChange`; `IdleFires` and `RetryFires` are the
timers; `Trigger` is `triggerRebuild()`; `CheckEnds`, `Read`, `IncrementalDone`, `FullWrite`,
`FullDone`, `InfraFails`, `DataFails` and `FullFails` are the runs with their then, catch and
finally handlers, which follow one another in one turn; `SwapDrain` and `DriftDone` are
`drainDrift()` of `proxy.ts`. Left out: the drift cooldown, `dispose`, `forceRebuild`, the
content-hash cutoff, the first index.

### BridgeRelay and Conversation

`phase` says where the bridge stands and with it who listens to stdin: the interceptor
(discovering, announcing), the queue of a connection not yet open (connecting), the relay
(relaying), a handler that finds the socket destroyed (dying), nobody (reporting, failing,
sleeping). A request is a frame with an id.

| Code | Action |
|---|---|
| `preBufferHandler`, `stdinDataHandler` | `Take`, in `Ask`, `AskHalf` (a chunk ends inside a frame) and `AskRest` |
| discoverWithRetry, connectRepo, disconnectRepo, backoff | `Found`, `Announced`, `Reported`, `Wake`; `Fade` when nothing keeps the process alive |
| the refusal of an unerrd of an older build | `Refused` |
| connect, error and close handlers, cleanup() | `Connected`, `ConnectFails`, `Destroyed`, `Close`, with `Cleanup` |
| ingestFromIde, ingestFromProxy, fireFallback, drainInflight | `Ingest`, `IngestFromProxy`, `FallbackFires`, `Drained` |
| heartbeat: a ping, three misses with and without a living pid | `Beat`, `BeatSpared`, `BeatReaps` |
| end of stdin and its grace period | `IdeLeaves`, `GraceOver` |
| the proxy | `ProxyAnswers`, `Pong`, `PeerChanges` |

`lost` is a history variable: the requests of which nobody knows any more. Left out:
notifications and session events. `sniffed` says that the interceptor has seen the id of `initialize`,
which the refusal then answers. `Conversation` has three variables: the requests asked, the number of
answers to each, and whether the bridge is `over`. It admits one second answer, that of the
refusal to `initialize` (`Refuse`), after which the bridge says nothing any more.

### GraphDatabase

`op` is what the caller of each operation knows; `queue` is the write chain; `pending`, `probe` and
`degraded` are the client's; `inbox`, `busy`, `open`, `staged`, `applied` and `replies` the worker's.

| Code | Action |
|---|---|
| write(), transact() put on `writeChain`, their turn, the end of one | `Queue`, `StartWrite`, `StartTx`, `Settle` (within the ends) |
| query(), a direct `run()` | `Run` |
| the timers of store and client | `TimeoutRun`, `TimeoutTx`, `RequestTimeout` |
| onMessage with the continuation of whoever waits | `AnswerRun`, `AnswerBegin`, `AnswerStmtMore`, `AnswerStmtLast`, `AnswerStmtThrow`, `AnswerCommit`, `AnswerAbort`, `LateReply` |
| onWorkerDeath, failAll, close | `WorkerDies`, `ExitSeen`, `Close`, `Terminate` |
| the worker's message loop and the native calls it awaits | `Dispatch`, `FinishRead`, `FinishWrite`, `FinishStmt`, `FinishCommit` |

The callback of a transaction may let a failed statement be and go on, to the commit too, as those of
`intelligence/incremental-indexer.ts:259-330, 346-354` do, or throw: both are steps
(`AnswerStmtMore`, `AnswerStmtLast` with `ok` FALSE, and `AnswerStmtThrow`). A native call may wait for
the writer lock or end with an error ("database is locked").

Left out: opening the database, the counters, a `run()` after the worker was replaced (the proxy
recycles itself then), the queries.

### Entitlements

Three files and a marker (`creds`, `cache`, `doc`, `marker`), which `readFileSync` and `writeFileSync`
touch without a lock from unerrd's job and from any number of commands; `pc` and `req` say at which
request each process is and what it has read before. A token stands for the machine's login to one
team, `past` is a history variable.

| Code | Action |
|---|---|
| runEntitlementRefreshOnce | `JobSkips`, `JobStarts`, `JobRefreshed`, `JobRevoked`, `JobFails`, `Synced` |
| effectiveTier, refreshEntitlements | `Honoured`, `Refreshed` |
| runLogin, device flow or token, refreshAndDescribePlan | `LoginStarts`, `Renewed`, `LoggedIn`, `Primed` |
| logout, whoami, conventions pull | `LogoutStarts`, `LogoutEnds`, `WhoamiStarts`, `WhoamiAnswered`, `PullStarts`, `Synced` |
| handleRevokedToken, from anywhere | `HandleRevoked`, in `JobRevoked` and `ShellRevoked` |
| server, team, clock, user, unerrd | `Answer`, `Disconnect`, `Tick`, `SetClock`, `Interrupt`, `Restart` |

Times are kept relative, so that the state space is finite: the age of the claims, how far
`max_server_time` is ahead of the server, how far the machine's clock is. Left out: `UNERR_TOKEN`,
keychain or file, the login ledger, the notification latch, pushes of conventions; the off-switch is
an upset that makes a run skip.

### Transcripts

A transcript is an inode, which file it is of all that were ever made, and a number of turns (what
`buildTurns` makes one of); `NewFile` gives a file an inode that is new, that of a file which is gone, or
its own (rewritten in place), and `Recycled` says the latter two. `claims` are in the order of
`observed_at`; `shipped` is the set of transcript rows in the event store, by the three things their id
is made of, `dropped` those whose append failed without a word (`SomeLost`). `Prompt`,
`Stop`, `Write`, `Replace` and `Interrupt` are the agents and their hooks; `PassStarts`, `Skip`, `Take`,
`Read`, `Save` and `Sweep` are `materializeClaimedTranscripts`, with an await between any two of them,
in which agents write. `Resolved` is `resolveClaudeFile` (the file the claim names, or the newest),
`From`, `Start` and `End` say where a read begins and ends. Faults: `ReadFails`, `SaveFails`, `Crash`,
a late pass (`Tick` without one), an append that fails. `overlap`, `missed` and
`dropped` are history variables. Left out: Cursor's SQLite branch, turn and row numbers, the local cache, torn lines, the byte cap.

## 3. The runs

All runs switch off TLC's deadlock check: their bounds end a behaviour (no more edits, rows,
entries or upsets), and sessions and processes end. That nothing hangs is what the liveness
properties say.

### Runs that pass

| Run | Instance | Distinct states | What it shows |
|---|---|---|---|
| `pm_safety` | 2 callers with bridges, 3 entries, breaker at 2, 2 upsets; nothing, a proxy at work or the files of a dead one at the start | 470 000 | blocked callers and waiter lists agree, an ended startup has woken all its waiters, the current startup can settle and its child handle is not dangling, a starting child is taken down only by its last waiter |
| `pm_liveness` | 2 callers, 3 entries, breaker at 1, 1 upset; also two proxies at the start | 158 000 | every ensure() is answered, two holders of graph.db do not last, `pm stop` leaves no proxy |
| `pid_lock` | 3 processes, any number of crashes, freezes and recycled pids | 53 000 | a holder at work keeps the lock, a wedged one is never outlived by its successor, acquire() ends, the file comes back |
| `discovery` | 2 bridges, one upgraded, 3 unerrd processes, 1 upset, 4 scenes at the start | 188 000 | spawn.lock has a spawner, a lone unerrd keeps its files, sessions are connected |
| `push` | 2 segments of 2 rows, one row refused and one invalid, 1 held answer, 1 tick cut short anywhere but before the save | 61 000 | no row is lost outside the documented window; the drain implements `Outbox` |
| `graph_holder` | 2 files with 2 edits, 2 run slots, all kinds of run, 1 upset of any kind | 146 000 | no edit is forgotten unless it was reported late or a data error left two runs, and until then one reindex is at work at a time; every edit reaches the graph and the drift backlog is drained, timeouts included |
| `relay` | 3 requests, 2 of which the catalogue can answer, 2 upsets (a proxy dies or hangs, a pid file is lost) | 53 000 | the relay implements `Conversation`; every request is answered but those lost in the gaps named in section 5, initialize and tools/list even while the proxy hangs; a bridge whose IDE leaves ends |
| `graph_database` | a write beside a transaction of 2 statements, a transaction beside a read or a direct run, two writes with a read; breaker at 1, recycling at 2 | 151 000 | "done" is in the database, a failed write and part of a transaction are not, the chain keeps its writers apart and in order but for timeouts, the breaker's probe is never lost, every call ends, a transaction that fails is discarded |
| `entitlements` | 2 tokens, the job and a command, grace 1, skew 1, 1 upset (a failed request, an unsigned plan, a clock set wrong, a restart, the off-switch) | 492 000 | no plan or document outlives its login but in two named ways, the marker is true, a valid login is not wiped, a lasting login has a usable plan again and again, a disconnected machine's lapses |
| `transcripts` | 2 conversations of 2 turns under one session, 2 files, 2 claims, 1 turn per read, 1 upset | 1 468 000 | no turn before a saved offset is missing from the store; the last turns of a conversation are shipped |

Why the bounds are enough. Two callers are what it takes for one to change the map under the
other; `pm_ensure` gives each one call and five entries, so that both can be in `tryAdopt()` at once,
fork and adopt past each other, from a cold repository with one upset and from a child that has just
died under its entry (that death is the upset). `pm_stop` has two upsets, so that a freeze, a
crash, a failed fork, an idle recycle or a `pm stop` of the repository goes with the stop of unerrd,
which is one itself. Three processes around one pid file give a holder, a
newcomer that judges it, and one that interferes. Three unerrd processes give an old one, its
replacement, and the double start. A second row after the refused one and a second segment beside
it show what a bad row does to its followers and its neighbours. Two edits per file are needed for
an edit of a file that a run has read; file limit 1 with two files makes both sizes of a run occur,
and the cadences 1 and 2 make checking and periodic full runs occur. `MaxRuns` 2 is the largest
number of runs one data error leads to. Of three requests one each can be answered by the
catalogue, by the proxy and by an error, and one can be held, in flight and late; two upsets break
a second connection after a first one, or a connection while its proxy hangs. In `graph_database` the
mixes put each kind of operation beside each that can hurt it; with the breaker at 1 a single timeout
opens it, so that probe, rejection and recovery occur within three operations. Two tokens are what it
takes for one login's request to be answered under another's, or after the first was disconnected;
grace and skew of 1 make a plan that lapses at once under a wrong clock. Two turns with one per read
make a read that leaves a turn for the next pass; the time to live of 1 interval after a quiet window
of 1 leaves exactly the two passes these turns need, so that one pass fewer loses one. Two files are
either two conversations or one that was replaced.

The type invariants are proved for every instance (`TypeCorrect`), and only those of `Discovery` and
`Transcripts`, which say more than types, are checked again in these runs.

### Runs that TLC must find violated

Each checks one statement of the repository that its code does not keep.

| Run | Statement | What happens |
|---|---|---|
| `graph_late` | "paths added by edits that arrived during the rebuild ... must survive", `intelligence/graph-holder.ts:528` | a captured file edited again after it was read adds nothing to the set, and success removes it |
| `transcript_claims` | "a claim is NEVER swept before its transcript is materialized", `tracking/transcript-claim.ts:25` | the passes look at the latest claim of a session only: a second conversation under the same session hides the first, whose claims are swept by age with nothing shipped |

Six more configurations of the same kind are kept for the reader, outside the set listed in
`PROJECT.json`; TLC finds each property violated within two minutes.

| Configuration, module | Property, statement | What happens |
|---|---|---|
| `pid_two_primaries`, `MCPidLock` | `SingleInstance`: "single-instance enforcement", `proxy/pid-lock.ts:2` | the judgement of the file (99) and its removal (131, 138) or creation (194) are separate, and an empty file counts as stale: two primaries |
| `disc_converge`, `MCDiscovery` | `UpgradeConnects`: "re-spawns a fresh daemon on the new on-disk version", `entrypoints/cli-main.ts:1522` | the old unerrd closes its socket (`daemon.ts:453`) long before it gives up unerrd.pid (461); the replacement meets the pid and exits; the pass spawns only once |
| `push_crash`, `MCPushDrain` | `ZeroLoss`: "effectively exactly-once with zero loss", `cloud/sync/push-cursor.ts:9` | a death, or a failed save, between truncation (`ingest.ts:412`) and save (`push-reporter.ts:316`) leaves an offset into a file that is gone; it skips the rows that come next |
| `graph_leak`, `MCGraphDatabase` | `GivenUpIsDiscarded`: "the tx is discarded on the worker regardless", `intelligence/cozo-worker-client.ts:367` | when `begin` is answered after its request timed out nobody knows the id (157, 364), and an abort is refused while the breaker's probe is in flight (236): the worker keeps the transaction, with the writer lock if a statement has run |
| `transcript_lost`, `MCTranscripts` | `Durable`: "the byte offset advances only after the turns are durably enqueued", `tracking/transcript-drainer.ts:13-14` | `appendEvent` swallows what the file system refuses (`events/event-store.ts:152-165`), and the offset moves all the same (`transcript-drainer.ts:254`) |
| `plan_lags`, `MCEntitlements` | `PlanCatchesUp`: "the daemon's periodic job will catch up", `commands/login.ts:48` | a revoked answer has ended the timer chain (`refresh-job.ts:228`); a later login whose first refresh fails or is interrupted is not refreshed until unerrd restarts |

A seventh, `push_removal` (`MCPushDrain`, 386 000 states), passes: `NothingLost` with a removal's drain
beside the loop and a tick cut short at the save.

The passing runs say what holds all the same: `HeldLockDenies` beside `SingleInstance`,
`ConnectsWhenServed` beside `UpgradeConnects`, `NothingLost` beside `ZeroLoss`, `NoEditForgotten`
beside `EditsSurvive`, `FailedIsDiscarded` beside `GivenUpIsDiscarded`, `LoginGetsPlan` beside
`PlanCatchesUp`, `FinalTurnsShip` beside `ClaimsShip`, `NothingSkipped` beside `Durable`.

### Fairness

Only what an event loop or the kernel guarantees is fair, always weakly: a timer that is armed
fires, a promise or probe under way settles, a message or signal on its way arrives, a process
that is not blocked takes its next step, a periodic task (push loop, liveness probe, reaper,
heartbeat) comes round again. Not fair: callers, edits and producers, operators (stop, shutdown),
upgrades, faults and recoveries from them (thawing), the idle sweep, the ageing of spawn.lock.
Two details: a shutdown of unerrd is fair only once it has been told; in `ProcessManager` the
waiter's own timer is fair like every timer, so that "answered" may mean "rejected after six
minutes". In `BridgeRelay` the IDE is not fair, the proxy answers unless it hangs, and `Found` is
fair: what it stands for is `BridgeConnects` of `Discovery`, with the premises that has. In
`GraphDatabase` the worker takes messages from its inbox but native work never has to end: the timers
alone must settle every call. In `Entitlements` requests end in an answer or a timeout and the job's
timer fires; commands need not go on, but for the continuation of a login that was answered. In
`Transcripts` the push loop comes round and a pass goes on; agents and hooks are not fair.

Premises in the liveness properties, each for a limit of the code. `StopLeavesNone` has no premise
on what came before; it names what a stop leaves behind (`Spared`): proxies unerrd has neither a handle on
nor the pid of, and blocked ones that are no entry's any more or whose handle has delivered a signal
before (section 5).
`BridgeConnects` is about behaviours without upsets from a start without an old version (with one
see `UpgradeConnects`); `ConnectsWhenServed` covers everything else, failed ensures and killed unerrd
processes included, and supposes an unerrd that stays. `EverythingSettles` is of rows outside a stranded
segment. `GraphCatchesUp` excludes
failed full runs, which are not tried again, and the two causes of forgotten edits.
`DriftDrained` also excludes a trigger that finds the counter above zero and no path: it
returns without a swap, and nobody drains. `EveryoneAnswered` excludes a proxy that hangs for
good, which the heartbeat spares as long as its pid lives; `CatalogueAnswers` does not.
`EveryoneAnswered` also counts what is `lost`, the requests held when an old unerrd refuses among them.
`DetachEnds` excludes an end of stdin that nobody notices (section 5). `LoginGetsPlan` excludes logins
that change for ever, tokens revoked by the team, and a clock behind the server's. `FinalTurnsShip`
excludes a second conversation that comes while claims of the first are kept (`overlap`: that is the
case of `transcript_claims`), behaviours in which a prompt ends without a stop hook, a read, append or
save fails, or an interval passes without a pass (`missed`): a failed append loses the turn, each of the
others costs the time to live a pass, of which the instance has none to spare, the code eight. It is
also of transcripts whose inode was no other's.

## 4. The proofs

The theorems hold for any number of callers, processes, bridges, files, rows, requests and upsets, from the
named assumptions in the modules only: bounds are natural numbers, thresholds positive, the marks
`None`, `Nobody` and `Torn` are no processes, sets of callers and files are finite.

* **ProcessManager_proofs**: `TypeCorrect`, `WaitersRegistered`, `NobodyForgotten`,
  `EntriesAreBacked`, `LastWaiterKills`. That an ended
  startup leaves no waiter behind is not inductive: `HandleExit` wakes waiters only when the status
  is `starting`, `HandleReady` acts on whatever `cur` is, and `Spawn` writes to a fresh entry. The
  invariant adds `StartingHasChild`, `FreshIsUnused`, `CurrentIsMade`, and the two-way agreement of
  waiter lists and blocked calls, without which waking "all waiters" says nothing of the callers.
  `EntryIsBacked` needs one thing more, `Reports`: the IPC channel of the child is still open, for a
  process that dies without one is never reported. The steps fall into those that leave every open
  channel its news (`StayBacked`) and give no entry a process (`NoNewClaim`), and the five that do
  not: fork, adoption, exit, failed fork, and the end of unerrd.
* **LockFiles_proofs**, for the files by which processes agree who goes on. Of `Discovery`: `TypeCorrect`,
  `LockIsFreed`, `LoneUnerrdKeepsFiles`. The lock's owner is at its attempt or
  crashed: every exit from the attempt unlinks, and unlinking another's lock is harmless to the
  statement. A lone unerrd is safe because everyone who comes reads its pid first. Of `PidLock`:
  `ProxyTypeCorrect`, `HolderIsKept`, `WedgedNeverRevives`. `WitnessHolds` carries the
  argument: whoever has had the same holder in front of it since its start either has not read the
  file or is probing exactly that holder, so the probe succeeds. `RetryAfterKill` says that a second
  acquire() begins only after the wedged holder is dead or about to be.
* **PushDrain_proofs**: `TypeCorrect`, `DrainImplementsOutbox` and `NoRowLost`, for any number of drains and
  wherever ticks are cut short. The invariant says, station by station, that everything before the
  cursor in memory is settled, likewise everything before the offset on disk, and that the
  batches of a round lie between the cursor and their `next`, of each segment that is not
  `stranded`. A segment never leaves that set and enters it by two steps only, an emptying beside
  another drain and an end between emptying and save. The cursor on disk is excepted, too, while the
  drain that emptied a segment is about to save (`SavedKept`, `UnsavedKept`); then the step is one drain's, and what
  it leaves alone of the others stays sound (`OneDrain`). `DrainImplementsOutbox` is the safety
  half of `EverythingSettles`: every step is one of `Outbox` or changes nothing it knows of. It needs
  only that whatever a drain carries was appended (`OutboxInv`): a tick cut short may leave
  rows behind for good, but it settles none that is not there and takes none back.
* **GraphHolder_proofs**: `TypeCorrect`, `EditsKept`, `OneRunWhileCalm`. `EditsSurvive` is not
  inductive: a run that commits an old version must leave the path announced. The strengthening is
  `ReadsAreFresh`: what a run has read is current, or the watcher has the newer change, or the
  holder tracks it outside of what the run will drop. `SingleRun` makes sure that no other run drops
  it, and `RunsInStage` ties what a run may write to what it has read.
* **BridgeRelay_proofs**: `TypeCorrect` and `RelayImplementsConversation`, the refinement of
  `Conversation`. That nothing is answered twice is not inductive. The invariant says that whoever
  may still answer has an unanswered request before him: what is held or in flight is unanswered
  (`WaitersOpen`), a frame of the proxy is for a request in flight or one marked late, never both
  (`ProxyFramesKnown`), and no mark outlives its connection (`PhasesApart`). `Refused` may come
  when the interceptor has answered `initialize`, so it maps to `Refuse`, never to `Answer`; that it ends the
  conversation is part of the refinement.
* **GraphDatabase_proofs**: `TypeCorrect`, `ProbeNeverLost`, `DoneIsTrue`, `NothingHalfApplied`,
  `OneWriterInOrder`. The probe is
  proved together with the types, because a reply is matched by its place among the pending requests: what is
  forgotten is one place, and the lemmas on `Append`, `RemoveAt` and `Tail` say what stays. "Done" is
  not inductive: the reply that says so is under way first, so the invariant adds `AnswersTrue`, that
  every reply which claims success is of an operation in the database. `NothingHalfApplied`
  (`AppliedWhole`) needs most: a failed commit may still be in the worker, and a transaction whose
  timer fired goes on. `Fate` follows every request on its way: posted once, it is ahead of the
  worker's answer or behind it, never both (`Single`), also when nobody waits for it any more. What an
  operation may still do follows from where its requests are (`OpFate`), and where the statements of a
  transaction are fits where its callback is (`TxFate`): a commit is under way only when the
  callback has returned, and all it ran with success is staged: a statement that failed leaves nothing, whether the
  callback throws or goes on. `OneWriterInOrder` (`ChainInOrder`) rests on `Fate` and on
  `Line`: whatever is queued before an operation that has started is settled (`QueueOrder`); of a settled
  operation nothing is on its way to the worker, unless its caller was told of a timeout (`Spent`); and a
  transaction that failed but is still open has its abort in the inbox, ahead of all that the
  next operation posts (`Kept`, `Clear`). That the inbox is a queue then gives the order of the effects.
  TLC checked `Line` on two transactions (168 000 states) before it was proved.
* **Entitlements_proofs**: `TypeCorrect`, `PlansEndWithLogin`, `MarkerTellsTheTruth`, `LoginsAreKept`.
  `RequestsMatch` carries the argument: as long as no login has changed under a request (`past`), what
  every process has read before its request is the stored login and document still, so that what it
  writes after it belongs there. `RevokedIsTrue` says that an answer "revoked" is of a token the team
  has disconnected. `MarkerTellsTheTruth` has the exception its property names: a login that was wiped
  while another request of the job was under way, whose answer then clears the marker.
* **Transcripts_proofs**: `TypeCorrect`, `CursorBehindStore`. `NothingSkipped` speaks of
  the saved offsets only; the invariant says the same of the offsets a pass has in memory and of
  the place where a read starts (`Sound`, `ReadSound`), for these are what is saved next. What it says
  is that the turns were given to the store (`Stored`), whose append may have failed. It is kept for the first
  file of each inode (`First`); `OwnInode`, that two transcripts never have one inode at a time, is why an offset
  taken from a file that was replaced meanwhile says nothing of the new one. TLC checked this invariant on
  the instance of `transcripts` first. The lemma `SweepIsByAge` is about the model itself: `Sweep` cuts
  the claims at a place, where the code goes through them one by one; since they lie in the order
  of their ages there is one such place in every state.

All safety invariants and action properties the runs check are proved. Model-checked only: the
liveness properties, the liveness half of `EverythingSettles` among them, for fairness and ENABLED are
beyond the proof system. Where a proof needs induction on numbers it takes the least element of a set
(`WFMin` of the library, as in `CutExists`), since the induction rules proper take a predicate as
their parameter, which the provers cannot instantiate.

## 5. What else the models show

Behaviours met while modelling that no statement of the repository contradicts outright, or that
a property excludes by a premise:

* A caller whose fork failed adopts an external proxy and displaces the starting entry that
  another caller waits on (`daemon/process-manager.ts:762`). The waiter is answered only by its
  own timeout; the comment at 719-724 has the simultaneous start in mind, not this order.
* The exit of a displaced child is counted as a startup failure of the entry that replaced it.
* Bridges of a replaced entry are no longer counted, so a proxy in use may be recycled as idle.
* A child with a blocked event loop that was already sent SIGTERM by a ready timeout survives
  `pm stop`: `shutdownChild` escalates only when `!child.killed` (1259), which the first signal has
  set. So does a child that blocks after its entry was displaced, and a proxy that proxy.pid does not name and
  no handle leads to, although "`pm stop` ... must leave ZERO repo proxies behind" (the comment at 952-954).
  `Spared` are these three; `pm_stop` shows that a stop leaves no other.
* Two bridges may both spawn an unerrd when one of them reads spawn.lock before its body is there.
* A terminal 4xx gives up the rows of every stream in the request, those of the blameless ones too.
* The callbacks of the indexer swallow failed statements and commit the rest
  (`intelligence/incremental-indexer.ts:259-330, 346-354`): `AppliedWhole` is of the statements the callback was
  told had succeeded.
* A program that gets the pid in an unerrd.pid left by a hard kill keeps every new unerrd from starting for as
  long as it runs (`entrypoints/daemon.ts:66-82`).
* A full rebuild that fails is not tried again before the next edit.
* The fallback of a failed incremental run is started in its catch handler without being awaited
  (`intelligence/graph-holder.ts:491`): the finally handler (494-500) then clears `rebuilding` at once,
  while the full run is at work. `isRebuilding()`, which the drift drain relies on
  (`proxy/proxy.ts:3265`), is false, and the next edit starts a second run beside it.
  `OneRebuildWhileCalm` is premised on no data error for this reason.
* `intelligence/local-graph.ts:436` says of a transaction that "on any throw it aborts and nothing
  applies". When the commit's request times out it may still apply afterwards. So may a write whose
  caller was told of a timeout; a later write of the chain may then overtake it (`ChainInOrder` and
  `AppliedWhole` name the exceptions).
* A request for an earlier login that is answered after a logout or another login writes the plan or
  document of the earlier one (`credentials.ts:353-356` deletes the cache so that no plan outlives the
  login); answered with "revoked", it wipes the new login, sets its marker and ends the job's chain.
* login drops a stored token that is still valid when its renewal merely failed (`commands/login.ts:128`),
  and leaves the cache and the document of its team to whoever logs in next. The conditional GET sends
  only the version of the document: another team's document of the same version is "not modified", and
  the stored one stays.
* `max_server_time` takes the machine's clock into account (`cloud/plan/entitlements.ts:275, 286`): when
  that was fast once, a valid plan is refused after the clock has been put right, until the refreshed
  time passes it. Hence the `skew < 0` of `LoginGetsPlan`.
* A successful answer to a request of the job that was under way when another process found the machine
  disconnected clears the marker (`cloud/plan/refresh-job.ts`): the machine then has neither a login nor
  a word about it. `MarkerIsTrue` excepts a login that changes with a request under way.
* Claims of prompts bear the session of the proxy, those of stop hooks the session of the last event in
  the repository, perhaps a bridge's. The id of a transcript row includes it
  (`tracking/transcript-drainer.ts:223-228`), so the same turn is shipped under several ids, although
  line 12 there says that "a re-emit collapses server-side"; each life of a proxy reads from the head.
* Stop hooks leave the agent's session id out of their claims (`hooks/stop-hooks.ts:271`), so that these
  stand for whatever file is the newest when the pass comes.
* A failed append loses the turns of that read for good (`Durable`, above).
* Offsets are compared by inode only (`tracking/transcript-drainer.ts:159-162`): in a file that was rewritten
  in place and has grown past the offset, or that got the inode of one that is gone, reading goes on
  at the old offset, and the turns before it are never shipped.
* `buildTurns` follows one child of each node (`tracking/agent-transcript/claude-jsonl.ts:284-287`): the
  siblings in a batch never become turns, and the offset passes them.
* Claims are swept only by a pass that runs: with the reading of transcripts switched off the directory
  grows without bound. A transcript with more left than about eight passes read (2 MB each) outlives
  its claims when nothing else is said in it.
* An error of the watcher drops its events.
* A removal drains the repository beside the loop (`cloud/sync/repo-removal.ts:51`), which
  `daemon/push-reporter.ts:236-238` calls safe because the server drops duplicates. The two cursors
  are not: when one drain truncates a segment, the offset the other holds lies beyond the rows that
  come next, which it skips or truncates. `NothingLost` excepts the segments emptied that
  way (`stranded`); `ZeroLoss`, which does not, is violated with `Drains = {loop, removal}`, too.
* The bridge loses requests: those written between two connections, when stdin flows without a
  listener (`entrypoints/cli-main.ts:1402`); those held for a connection that fails, although
  `entrypoints/cli-main.ts:1219` says they "reach the proxy once it's up", or when an old unerrd refuses; those that find the
  socket destroyed and its close event still due (`proxy/bridge.ts:209`); and a frame that the end
  of a connection cuts in two. The last two never were in flight, so no error answers them.
* A bridge may outlive its IDE: the end of stdin goes unnoticed between two connections, while
  `connectRepo` is awaited, or when the connection breaks within the grace period.
* The refusal of a stale daemon answers `initialize` a second time when the interceptor has
  answered it before (`entrypoints/cli-main.ts:1343`), as its last words. `proxy/bridge-catalog.ts:226` calls an id that
  is answered twice a violation; `Conversation` admits this one.

## 6. What is not modelled

The components above without a module, each with its reason in `PROJECT.json`. The repository has some
155 000 lines, of which the models cover the few thousand where processes, timers and files have to
agree. Most of the rest is extraction (grammars, queries and the database's Datalog), ranking and
rendering for tool calls, configuration of agents and IDEs, and display: functions of data that hold no
state between calls, which unit tests reach and a state machine says nothing about. Next in weight
come the tool calls of a proxy with their caches and counters, which one event loop runs one after the
other.

The registry (`daemon/registry.ts`) is read and rewritten whole by several processes without a lock.
That one of two concurrent changes is lost needs no model to be seen (line 213); the code states no
property that would then hold all the same.

Within the modelled components: wording of errors, logging, metrics, the health endpoints, Windows,
and the abstractions named in section 2. The contents of the graph, the parsers and the queries are
data; the models say when they are rebuilt and from which versions, never what they contain.
`Discovery` and `ProcessManager` are not composed into one state machine, nor are `GraphHolder` and
`GraphDatabase`: what passes between them is one request with one answer, late or never, and each of the
two has the other's answers as its environment; the products would be far beyond TLC.

## 7. Plan

Done, in the order of importance: process manager, pid lock, discovery, push, graph refresh, bridge
relay, database client, entitlements with login and conventions, transcripts, each with its runs and
theorems. What a next step would take up:

1. The timer of the push loop with its backoff, and the pass of `Transcripts` in it, so that one
   behaviour leads from a turn to the cloud.
2. The session caches of a proxy (what an agent has been shown, across compactions and reconnections).
3. The update of the binary with its health check and rollback.
