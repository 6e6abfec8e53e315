# MinusWorkflows: a TLA+ model

MinusWorkflows runs AI coding agents through a pipeline of phases (architect,
planner, builder, auditor, evolve) from node processes on the user's machine,
and keeps what the agents learn in a Rust service, OCR-Memory, with PostgreSQL,
PNG files and a cache behind it. This directory holds the specification of the
system, the configurations that model-check it and the proofs about it.

`PROJECT.json` lists, for every definition that models code, the lines it
models; for every run, what it checks; and the hazards of the code, each at its
line with the properties that watch it.

## The system

### Node side (`utils/`, `bin/`)

| Part | State it keeps | Operations | Works with |
|---|---|---|---|
| Pipeline executor, `pipeline_executor.js` | per session directory: `.lock`, `state.json`, `receipts/`, `DIAGNOSTIC.md`, `checkpoints/` | `run`, `resume`, the retry loop, lock, save, load | agent runner, verifier, schemas, taxonomy, tracer |
| Agent runner, `agent_runner.js`, `cli_adapter.js` | log files; the WAL file of an attempt; the child process and its idle timer | invoke one agent (CLI or HTTP), serial, parallel with serial retry | budget tracker, tracer |
| Budget tracker, `budget_tracker.js` | `budget_session.json`: limit, spent; one file for all processes of a project | check, record, reset, sums over traces | agent runner, `minus budget` |
| Receipt schemas, `pipeline_schemas.js` | none | extract and validate a receipt | executor, agent runner |
| Taxonomy, verifier, pytest parser | none | classify a failure; run the tests and count | executor |
| Tracer, `tracer.js` | `trace.jsonl`, append only | open, close, emit, render | everything |
| Memory pruner, `memory_pruner.js` | `EVOLUTION.md`, its archive | summarise when over 50 KB | the evolve phase |
| Installer, `install.js` | commands and skills in the users' homes; `.memory`, `skill_versions.json` in the project | copy, link, scaffold, track | registry, skill sync |
| Skill registry and sync, `skill_registry.js`, `skill_sync.js` | the skill that lists the skills, `skill_registry.json`; links | rebuild; link what is missing | installer |
| Command line, `minus.js` | none of its own | start, resume, sessions, keys, budget | all of the above |

### Rust side (`ocr_memory_rust/`)

| Part | State it keeps | Operations | Works with |
|---|---|---|---|
| Store and retrieve, `main.rs`, `retriever.rs`, `renderer.rs`, `embedder.rs` | tables episodes, visual_memories, text_logs; PNG files; background tasks | store, retrieve, active recall, embedding | cache, webhook, vision API |
| Cache, `main.rs` | JSON files (lite) or Redis keys with a version per project | get, set, invalidate | store, retrieve |
| Retention, `main.rs` | the same tables and files, an archive directory | one run | the cron script |
| Keys, `api_keys.rs` | api_keys, audit log | authenticate, create, revoke, rotate, list | every request |
| Rate limiter, `main.rs` | a window and a counter per key | one check per request | every request |
| Scrubber, telemetry, schema | none, or set once | | start-up, store |

### What is hard

* **Several processes, one directory.** Nothing but `.lock` keeps two `run`s
  from one session, and `resume` writes before it asks for the lock. The file
  system's calls interleave freely: each `writeFileSync` truncates and then
  fills, and the lock file is created and then written.
* **Crashes.** A node process dies between any two calls, or inside one. There
  is no recovery step: the next `run` or `resume` reads what is there.
* **Retries and leftovers.** Attempts are counted per call, WAL files per
  attempt number; halting, resuming and running again must fit together.
* **Awaits.** Agents run for minutes; the state object is held all the while.
* **On the Rust side**, every handler is a sequence of awaits on the database,
  the file system and the cache, with background tasks that outlive it.

What makes each part correct: for the executor, a record of phases that is never
wrong however it was interrupted, one worker at a time, and a session that can be
finished; for the agents, an outcome for every invocation and costs that add up;
for the memory service, rows, PNGs, embeddings and cached answers that belong
together; for retention, that the oldest go; for keys, that what was revoked
stays revoked and scopes are kept; for the limiter, a bound on requests per
minute; for pruner and tracer, that nothing is lost.

## Plan

In order of importance. Each module takes its limits as CONSTANTS, has one action
per operation, and uses no RECURSIVE operator where something is proved.

1. Done: `PipelineSession`, `PipelineExecutor`: the session's promise, the
   processes that keep it, the refinement between them.
2. Done: `EpisodeTables`, `MemoryService`: store, retrieve, cache, embedding and
   retention for concurrent requests on the tables as PostgreSQL keeps them.
3. Done: `AgentFleet`, the budget file and the lists of agents that share it;
   `Receipts` and `AgentProcess`, one invocation up to the receipt in its output.
4. Done: `KeyRing` and `RateLimiter`, what a request passes before its handler.
5. Done: `TraceTree`, `MemoryPruner`, `SkillInstall`.

What is left: an abstract memory of what a retrieve may return, refined by the
service with the Redis cache; the choice of model for a retry (failure taxonomy)
and the test counts, each against a reference definition.

Every invariant and action property of the passing runs is proved, and the refinement of
`PipelineSession` with one process. What several processes promise of a session is still
to be stated: `resume` writes `state.json` before it asks for the lock, so it is less.

## PipelineExecutor

`PipelineExecutor.tla` models `pipeline_executor.js` and what one agent
invocation does to the session. One action is one file-system call with the
computation up to the next one, since that is what other processes and crashes
can come between.

| In the model | In the code |
|---|---|
| `lock` | `.lock`: who created it, and whether what can be read in it is nothing, a recent or an old timestamp |
| `state`, `mem[p]` | `state.json` and the `state` object of process p; `Torn` is a file that is not JSON |
| `open[p]` | the file p has truncated and not yet filled (`writeFileSync` is two steps) |
| `receipts`, `diagnostic`, `wal` | `receipts/*.json`, `DIAGNOSTIC.md`, `checkpoints/*.out` |
| `todo[p]`, `dropped[p]` | the rest of the `phases` argument of `run`; the phases `resume` filtered out of it. The list is kept whole and the filter is a set, so that no filtering recursion is needed |
| `attempt[p]`, `pc[p]` | the loop variable of `runPhaseWithRetry`; the next step |
| `accepted`, `robbed` | history, read by properties only: phases an agent delivered without a check failing; that the lock of a live holder was unlinked |

`CallRun` and `CallResume` are the callers. `CallerRuns` says what kind of
session `run` is called on by id (none yet, interrupted, or halted); `resume`
takes halted ones, as in the code. `LockOpen` to `LockUnlink` are `acquireLock`
with its retry, `Release` the `finally`. `Load`, `SkipPhase`, `BeginPhase`,
`Commit`, `Halt`, `Finish` are the loop of `run`; `Attempt`, `GiveUp`, `Invoke`,
`BudgetStops`, `Agent...`, `Verifier...` and `WriteReceipt` that of
`runPhaseWithRetry`. `FillState`, `FillReceipt`, `FillDiagnostic` are the second
halves of the writes. If two processes have a file truncated at once, the second
to fill it may leave the tail of a longer text behind: `FillState` then may leave
`Torn`. `Crash` forgets a process's memory and leaves the files.

`PipelineSession.tla` is what a user may rely on: phases recorded in the plan's
order, each after its receipt, none taken back, complete only when all are; or
the session lost whole. It knows no process, lock or write.

Not in the model: prompts, token counts, trace and log lines; directories (made
before use); a child process that outlives its dead parent (its output has
nowhere to go; what it does to the working tree is outside the session); hints
to `resume`; a `PIPELINE_RETRY_LIMIT` that is not a number.

### Properties

* `TypeOK`.
* `CompletedWereAccepted`, `NoPhaseTwice`: the record `phases_completed` is sound
  however processes overwrite each other's state.
* `CompletedHaveReceipts`: one process at a time, every recorded phase has its
  receipt on disk.
* `HaltIsExplained`: a halted session has the diagnostic of the phase it halted
  in, and its attempts were spent.
* `EarlierOutputConsumed`: no attempt runs while the partial output of an
  attempt with a lower number waits.
* `ExclusiveUnlessRobbed`: only unlinking a live holder's lock breaks mutual
  exclusion; the unchecked unlink in `releaseLock` alone does not.
* `ImplementsSession`: the refinement of PipelineSession. The session's record
  is the one in `state.json`, or the one that is being written.
* `EventuallyComplete`, `EveryCallEnds`: liveness.
* `MutualExclusion`, `UnfinishedIsHalted`, `FinishedSkippedNothing`: what the
  repository says and the code does not keep; see Disagreements.

### Runs

| Run | Instance | Shows |
|---|---|---|
| `executor_crash` | 1 process, 3 phases (the middle one verified), 2 attempts, CLI agents, budget, ageing locks, 2 crashes; 85 thousand states | TypeOK, CompletedHaveReceipts, HaltIsExplained, EarlierOutputConsumed, ImplementsSession, EventuallyComplete |
| `executor_race` | 2 processes (symmetric), 2 phases (the second verified), 1 attempt, ageing locks, 1 crash; 7 million states | CompletedWereAccepted, NoPhaseTwice, ExclusiveUnlessRobbed |
| `executor_live` | 2 processes, 1 phase, ageing locks, 1 crash; 404 thousand states | EventuallyComplete, EveryCallEnds |
| `executor_lock` | 2 processes, 1 phase | MutualExclusion is violated |
| `executor_budget` | 1 process, 1 phase, budget | UnfinishedIsHalted is violated |
| `executor_grow` | 1 process, a plan and a longer one | FinishedSkippedNothing is violated |

Why these bounds are enough. Three phases have one before and one after the
verified one; two attempts have a first, a retry and a giving up, and a WAL file
of attempt 1 that attempt 2 consumes. The second crash can hit the recovery from
the first. With two processes, a third adds only the unlinking of a file created
by somebody who is neither the reader nor the first holder; the theorems cover
any number. `MaxCrashes` is the one bound in a guard. Symmetry is used in the
run without liveness properties and only over the processes, which nothing
distinguishes.

### Fairness

`Fairness` says that a process that was called goes on: node's event loop runs
the next callback, and the agent and the test run it waits for end. The first is
the code's; the second holds of agents the watchdog can end, and is an assumption
otherwise (an HTTP body that stalls, a child that ignores SIGTERM). `AgentExits`
is fair as a whole: an agent may fail every time.

The runs use `FairSpec`, `Spec` with that and nothing more, and `EveryCallEnds`
needs nothing more. `Perseverance` is an assumption on people and agents and not
on the code, so it is a hypothesis of `EventuallyComplete` and not a part of the
specification: callers come back to a session that is not complete, a limit is
raised at last, an agent that is given its chance again and again succeeds, and
ten minutes pass over a lock left behind. It is what it takes for a session to be
finished, and `EventuallyComplete` says that the code puts nothing in the way, but
for two things its statement names: a torn `state.json` and a robbed lock.

### Disagreements

* **`executor_lock`.** The lock file is created empty and written in a second
  call. Who reads it in between takes it for stale (timestamp 0), unlinks it and
  goes on: two holders.
* **`executor_budget`.** The budget stop is thrown out of `run`. The session is
  then neither complete nor halted and `minus resume` refuses it.
* **`executor_grow`.** `resume` computes the rest from the list of the first
  call. A phase that a later call added and that failed is dropped, and the
  session is said to be complete.

## MemoryService

`EpisodeTables.tla` holds the tables and what each statement of `store_memory`
and `retention_run` does to them; `MemoryService.tla` the handlers that issue the
statements, the PNG files, the embedding task, the cache, and the death of the
service. One action is what a handler does between two awaits, or one call to the
file system.

PostgreSQL is modelled as the code meets it, at READ COMMITTED, which is what
sqlx gives when nothing else is asked for:

* An INSERT of an id waits for an open transaction that has inserted the same id,
  and, with ON CONFLICT DO NOTHING, takes no lock when the id is there.
* A DELETE is two steps. It finds the rows committed when it starts; then it waits
  until none of them is deleted by an open transaction, and deletes those that
  are still there. Rows committed in between are not seen.
* A row that refers to an episode needs the episode to be there, and keeps it from
  being deleted until its transaction ends.
* A store and a retention run may wait for each other (`MayCross`). The database
  makes either fail: `StoreRollsBack` or `RetentionCannotDelete`.

| In the model | In the code |
|---|---|
| `episodes`, `vectors`, `created` | the rows of `episodes`, their `embedding` and `created_at` |
| `images[e]`, `texts[e]` | the stores whose rows `visual_memories` and `text_logs` hold of episode e |
| `tx[s]` | the open transaction of store s: what its DELETE found, what it has deleted, what it has inserted |
| `png[e]` | the store that last wrote `{episode_id}.png`; `"torn"` is a file written in part |
| `pc[s]`, `task[s]` | the next statement of `store_memory`; the spawned embedding task |
| `version`, `cache` | the project's version in Redis (0 for ever on disk); the cached answers by the version in their key |
| `rpc[r]`, `key[r]`, `left[r]` | `retrieve_memory`: its next step, the version in its key, the ids found whose texts it has still to read |
| `answer[r]`, `told[r]` | for each episode, how many changes its texts had seen when it was searched; the episodes whose texts are in the answer |
| `step`, `victims`, `victim` | `retention_run` |
| `stored`, `change`, `floor`, `missed`, `mixed` | history, read by properties only |

An answer is represented by what it is an answer *of*: for each episode, the count
`changes[e]` of changes to its texts when the search looked at it. One project and
one query are modelled: keys of different projects or queries never meet.

A retrieve searches as the code does. The vector search takes, in one statement, ids
of rows that have an embedding, up to `Nearest` of them, and then reads the texts of
each in a statement of its own. If one of these fails, or no text is found, the text
search asks for all at once, and if that fails the answer is empty
(`main.rs:517-522`). Whatever the answer is, it is cached under the version read at
the beginning: an empty one, and one that leaves out episodes whose embedding is
still being computed, like any other.

A fault (`MaxFaults`) is any call that fails, wherever it is, also where the code
ignores it: the SELECT of the image paths in a retention run (`main.rs:744`), after
which the DELETE goes on and the files stay; the removal of a file (`main.rs:772`); a
call to the cache; a search.

Not in the model: which texts rank first (any episodes may be the nearest); the vision
tier; webhooks; the archive copy; `sharpen_cold_memories`, whose query
(`resolution_width < 1024`) finds no row that the code writes; two retention runs
at once; a Redis that forgets its versions.

### Properties

* `TypeOK`, with `NoneLeftOpen`: a store that has ended has no open transaction.
* `FreshAnswers`: a retrieve that begins after a store was answered never answers from
  a search made before that store, wherever in its handler every other request was. An
  episode may still be left out, by a search that failed or for want of an embedding,
  if that search was made after the store: so the code does it, and the empty or
  incomplete answer is cached too. The property is promised while no call that reads or
  increments the version has failed (`~missed`): the code ignores such a failure.
* `RowsTogether`: the episode, its images and its texts are there together, and no
  text outlives the image row of its store.
* `QuietEpisodesAgree`: when nobody is at work on an episode, its file, rows and
  embedding are of one store, or all gone, unless it is `mixed`. An episode is `mixed`
  from the moment two work on it at once, or a call for it fails (one whose failure
  nobody hears of too), until a store begins that has it to itself. Until then the code
  may leave the image of one store with the texts of another, rows whose file a
  later, failing store has removed, or a file without rows. So the property says that
  one store that is alone and succeeds puts right whatever was left.
* `StoresEnd`: every store ends, whoever holds the rows that it waits for.
* `TextFromOneStore`, `VictimsAreOldest`: see Disagreements.

### Runs

| Run | Instance | Shows |
|---|---|---|
| `memory_cache` | Redis, 1 episode, 2 stores, 1 reader, 1 retention run by age, 1 fault; 1.4 million states | TypeOK, FreshAnswers, QuietEpisodesAgree, RowsTogether, StoresEnd |
| `memory_disk` | disk cache, 1 episode, 2 stores, 2 readers | FreshAnswers is violated |
| `memory_texts` | 1 episode, 4 stores | TextFromOneStore is violated |
| `memory_retention` | cap of 1, 2 episodes, 2 stores | VictimsAreOldest is violated |

A reader that ends may begin again, so one of them both fills the cache and is
served from it; two stores are the fewest that overlap. A fault is
any call that fails, or the death of the service: one, anywhere. With one episode,
`Nearest` = 1 lets the vector search find it or nothing. `MaxRuns` and
`MaxFaults` are the bounds in guards. For the two safety properties in which more
actors might matter, FreshAnswers and RowsTogether, the theorems cover any number.
More actors do matter for TextFromOneStore, which holds for three stores of an
episode and is violated by four. Symmetry is used in the violation runs only.

Fairness: a store whose next statement can go on goes on. tokio polls a task
whose await is ready, and PostgreSQL ends a wait when the lock is let go or by
finding a deadlock. Nothing is assumed of readers, tasks or the retention run.

### Disagreements

* **`memory_disk`.** The disk cache has no versions: an answer read before a store
  and cached after it stays, for every retrieve until it expires.
* **`memory_texts`.** Stores that waited at the first DELETE see neither the rows
  they waited for nor those put in their place, and no longer wait for each other
  at the second. Two of them leave their texts side by side, each `seq_index`
  twice.
* **`memory_retention`.** `ORDER BY created_at ASC OFFSET max` are the newest
  episodes and not the oldest.

Others are in the model and have no run of their own:

* `vector_search` looks only at rows with an embedding (`retriever.rs:218`), and the
  text search is asked only when that has found no text at all (`main.rs:335-345`). An
  episode whose embedding is still being computed, or has failed, is left out as soon
  as another one has an embedding, and the answer without it is cached for 300 s.
  `README.md:123` has "falling back to trigram search if no embedding exists", and
  `docs/api.md:110` says of the text search "Always available as final fallback."
* A store writes its PNG over that of an earlier store of the episode and removes it
  when its own transaction fails (`main.rs:253`): the committed rows of the earlier
  one then name a file that is gone. `CHANGELOG.md:120` has "Atomic DB transactions in
  `store_memory` with filesystem rollback on failure".
* A text search that fails is an answer without results, with status 200, cached for
  300 s (`main.rs:522`, `348`).
* A retention run whose SELECT of the paths fails, or whose removal of a file does,
  counts the episode as deleted and leaves the file (`main.rs:744`, `772`).

## AgentFleet

The node processes that run lists of agents, `invokeAgentsSerial` and
`invokeAgentsParallel`, over one `budget_session.json`. A process is
single-threaded, so what follows the end of one of its agents is not interrupted by
its other agents, but by other processes and by its death: reading the budget and
adding, truncating the file, filling it and writing the event are four steps.

| In the model | In the code |
|---|---|
| `budget` | the file: `Blank` is absent or empty, `Garbled` no JSON; `getSessionBudget` takes either for no limit and nothing spent |
| `mode`, `pending`, `branch` | which loop a process is in, what it has not come to, and what `results` holds; `"absent"` is what a stopped loop has left `undefined` |
| `held`, `due` | the object that `recordCost` writes back; the cost it is about to emit |
| `traced` | the sum of `cost.recorded` in the process's trace, which `minus budget` adds up |
| `owed`, `givenLimit`, `disturbed` | history: what agents have cost; the limit in the beginning; that two recorded at once, one read while another wrote, or one died recording |

* `SpentNeverOverstated`: lost updates and torn files only ever lose spending, so
  nobody is refused too early.
* `SpentExact`: with `~disturbed`, nothing is lost.
* `OvershootBounded`: `checkBudget()` is asked with an estimate of 0; the limit is
  passed by what was running at the time, one agent for a serial list and all for
  a parallel one.
* `WindowWithinTotal`: the 30-day sum over traces is at most the all-time sum.
* `HolesFollowAFailure`: where the results have a hole, the failure is before it.
* `SuccessesKept`, `FleetEnds`: the serial half runs nothing again that succeeded,
  and every call ends.

Not in the model: prices and token estimates (a cost is a number), `minus budget`'s
change of limit, per-day buckets of the traces.

## Receipts and AgentProcess

`AgentProcess` is one `invokeAgent`: a child whose chunks go to a checkpoint file,
or an HTTP request, up to the executor's verdict on the receipt in the output.
`Receipts` holds `extractReceipt` as a fold over a text, and beside it what a
receipt is, without regard to how it is found. A text is a sequence of what the
scan and `JSON.parse` tell apart (a brace, the members of a receipt, a string with a
brace in it, other text), not of characters.

| In the model | In the code |
|---|---|
| `link` | how far the invocation is: the child runs, has exited, its pipes are closed; or connecting, reading, read; answered; node has died |
| `said`, `heard` | what was written into the pipe or the body; the chunks that the `data` handler or `fetch` has had |
| `watch`, `quiet` | the idle timer, and that PHASE_IDLE_TIMEOUT_MS have gone by without a chunk |
| `wal` | `checkpoints/<phase>.attempt_<k>.out` |
| `outcome`, `output` | `result.ok`, `result.output` |

* `OkIsComplete`: what is delivered is all of it, of a child that ended well and in
  time; the code waits for `close` and not for `exit`.
* `WalKeepsOutput`: until code 0, the checkpoint holds what was heard.
* `ReceiptIsLast`: with braces matched, `extractReceipt` finds the last receipt that
  is in no other object.
* `ReceiptFound`: what the code's comment says of all output; see Disagreements.
* `InvocationEnds`: with the fairness below.

Not in the model: stderr, which is only logged; the text of commands and bodies.

## TraceTree

`trace.jsonl` as runs, attempts, agents and verifiers write it, with the clock in
milliseconds (several lines may share one), and `renderTrace`'s tree of it at any
moment. `CutRun` is a process that dies or is stopped by the budget: none of its
spans is closed, and the next run writes behind them.

`spans` and `points` are the lines, `stack` the spans open in the running process,
`tracing`, `phaseNo` and `tryNo` the place in `run` and `runPhaseWithRetry`.

* `SpansNested`: roots are runs; what is under a closed span is closed and inside it.
* `EventsInsideSpans`: an event is drawn under a span open when it was written.
* `CostNearItsAgent`: `cost.recorded` names no span and comes after its agent's has
  closed. `findNearestOpenSpan` puts it under an ancestor, or under a span opened in
  the same millisecond; never under one left open by a dead process.

Not in the model: the drawing; two processes that write one trace.

## MemoryPruner

`pruneIfNeeded` of any number of processes beside evolve agents that append. A file
is the set of lessons in it; a summary is any part of what was read. Reading,
archiving, summarising, truncating and filling are steps of their own.

* `NothingLost`: a lesson written down while nobody pruned is in `EVOLUTION.md` or
  in the archive from then on. Lessons that come while a model is being asked are
  `late`: the code overwrites them, and the property leaves them out.

## SkillInstall

`install.js` with `skill_registry.js` inside it and `skill_sync.js` beside it, one
step per call on disk: a skill is removed, linked, looked for, its directory made, its
file filled; `.memory` is looked for, made, given `sessions` and then its template.
Pipelines and evolve agents use `.memory` at any moment, also between two of these
steps (`UseProject`). Between installs the package gets new versions and may be moved,
leaving links that lead nowhere.

Each call may fail or be killed (`CallFails`, `Interrupt`), leaving what it was to
write, or to remove, whole, in part or not at all (`HalfWritten`). Where the code
catches it the install goes on with a warning: a command's copy, the rebuild of the
registry, the versions. Where it does not, the install throws with the rest undone:
`rmSync`, `copyRecursive`, which is called from a `catch` and in no `try`, and all of
`scaffoldProject`. `BootstrapGraph` is the call that waits for another program.

| In the model | In the code |
|---|---|
| `place`, `version`, `listing` | where the package is, the content of its skills, and the skill that lists them |
| `commands`, `skillsDir` | `~/.claude/commands`, `~/.gemini/skills`: nothing, a link into a place, or a copy, which may be in part |
| `tracked`, `memDir`, `sessions`, `notes` | `skill_versions.json`, `.memory`, `.memory/sessions`, `EVOLUTION.md` |
| `at`, `left` | the next step, and the rest of the loop, of the install and of `skill_sync` |
| `failed`, `spoilt`, `mishaps` | history of this install: commands it has only warned of; skills on which `skill_sync` broke off meanwhile; what else went wrong: a call that threw, a race, a warning |
| `listed`, `rounds`, `breaks` | history: the list this install began with; the installs done since the package changed; the calls that have failed |

* `InstalledIsCurrent`: when an install is done, every skill of the package is in every
  home in its version, whatever earlier installs left and `skill_sync` did meanwhile,
  unless the install warned of it or `skill_sync` broke off in the middle of copying it;
  and `skill_versions.json` says what the package is, unless that was warned of. The
  list of skills is that of before the rebuild.
* `SecondInstallSettles`: the second install of a package brings the right list, where
  both could rebuild it.
* `ThrowsOnlyIfDisturbed`: an install throws because a call of its own failed, because
  of a link into where the package was before, or because somebody made the directory
  between its look at it and its `mkdirSync`; what interrupted installs and
  `skill_sync` leave behind never makes one throw.
* `LessonsKept`: no install writes its template over lessons, not after an interrupted
  one either, except over those written while that install was between making
  `.memory` and writing the template (`install.js:185-190`): the code does overwrite
  these.

That an install ends is not a property of this code: `bootstrapGraph`
(`install.js:166`) waits for another program without a time-out.

Not in the model: `CONTEXT.md` and `.vault`, made if absent and left alone;
`.gitignore`; a package that changes while an install or `skill_sync` is at work; the
scanner, which only prints.

## KeyRing

The table `api_keys`, administrators who create, revoke and rotate, and clients who
send requests. Creating and revoking are one statement, rotating is a SELECT and an
UPDATE with others between. Raw keys are numbers in the order they are made; 0 is
`API_KEY`.

| In the model | In the code |
|---|---|
| `keys` | the rows: whose hash, for which project (`Global` is NULL), whether `expires_at` is unset, to come or past |
| `rotating`, `seen` | `rotate_key` between its statements |
| `asking`, `withKey`, `scope`, `working` | a request: its header, the `ResolvedKey`, the project its handler works on |
| `grants`, `replaced`, `revoked`, `spent` | history: answers with raw keys; keys rotated away; keys revoked; requests sent with a key that was over |

* `GrantsHold`: a raw key that was answered with is its row's until it is rotated
  away or the row is revoked, though rotations overlap.
* `SpentStaysOut`: a request sent after its key was rotated away, revoked or expired
  is not let in, and who is let in works on a project the key was made for.

Not in the model: the audit log and lists, which are read by people; the
administrator's key, which is one comparison; two keys with one hash.

## RateLimiter

`rate_limit_middleware`: a counter and the start of its window per header, the clock
read before the mutex is asked for (`ReadClock`, `Count`), and the pruning of a map
that has grown. Counts stop at one more than the limit, where nothing tells them
apart.

* `TwiceTheLimit`: wherever the windows fall, at most twice the limit passes in a
  minute less the longest wait for the mutex; and who is refused shares the last
  minute with as many requests as the limit lets.

Not in the model: a system clock that is set back; a service that is started again,
which begins with an empty map.

### Runs of these modules

| Run | Instance | Shows |
|---|---|---|
| `parts` | fleet: 2 processes, 2 tasks each, a cost of 1, limit 1, 1 death; agent: 3 pieces of output out of 5; trace: 2 phases (the second verified), 2 attempts, 2 runs, 4 ms; pruner: 3 lessons, 2 pruners, threshold 2; install: 1 skill and the list, both homes, 2 versions, 2 places, 1 call that fails; keys: 1 key, 2 rotations, 1 client, 4 raw keys, 2 projects; limiter: 2 requests, 2 headers, limit 1, a minute of 2 s, a wait of 1 s, 5 s, 1 entry; 1.27 million states | PartsTypeOK, which is the type invariants of the seven, and the other 22 properties above |
| `receipt_brace` | the agent part, with pieces whose braces do not match | ReceiptFound is violated |

`MCParts` works one module in each behaviour and leaves the others as they begin,
because they share no variable: all pairs of their states would add nothing.

Why the bounds are enough. Two processes are the fewest that overlap on the budget
file, and two tasks have one before and one after a failure; a third process adds
only another lost update, and the theorems cover any number. Three pieces hold two
receipts with text around or between them, or one split into an object and its
inside. Two runs of two phases have a cut run behind which another writes, and four
milliseconds let each pair of lines share a time or not. Two rotations overlap, with
a revocation or another's request anywhere; four raw keys are the one created and
one for each rotation, with one to spare. Two windows fall into the five seconds of
the limiter, with a request in each that read the clock before the other ended, and
two headers exceed the one entry at which the map is pruned. A second version and a
second place leave old copies and links behind, and the one call that fails is any, with
installs before and after it: the theorems cover any number of either. `MaxDeaths`, `MaxSaid`,
`MaxRuns`, `MaxTime`, `MaxVersion`, `MaxPlace`, `MaxBreaks`, `MaxRaw`, `MaxWait` and
`MaxClock` are the bounds in guards.

Fairness. `FleetFairness`: an agent ends and the event loop goes on. That is what
AgentProcess shows, with `AgentFairness`: timers fire, bytes and ends that are on
their way arrive, a child that was sent SIGTERM exits and its pipes close, and
`fetch` gives up on a body that has gone silent (its own timeout; the code's timer is
cleared at the headers). A child that ignores SIGTERM, or a descendant that keeps the
pipe, makes an invocation wait for ever: that is outside the assumption and in the
code. A process may die at any time. Installs, keys, limiter, trace and pruner have no
liveness property and no fairness: an install waits, for as long as it takes, for a
program that is not part of this code.

### Disagreements

* **`receipt_brace`.** `extractReceipt` counts braces in strings and lets its depth
  go negative. Output that ends with a receipt, but has an unmatched brace before it
  or a brace in a string of it, is taken for output without one, and the attempt
  fails.

Others were met without a run of their own:

* `receiptInstructions` (`pipeline_executor.js:503`) asks an agent for `phase`,
  `status` and `summary`, "a JSON block matching this schema"
  (`pipeline_schemas.js:8`) needs others: a receipt that is only what the prompt
  asked for is rejected.
* The budget's error says "Raise BUDGET_HARD_LIMIT in .env"
  (`budget_tracker.js:42`): `checkBudget` reads the limit from the file and never
  from there; only what `minus budget` prints is (`minus.js:715`).
* `readSessionCost` (`minus.js:587`) reads a file that nothing writes.
* "Succeeded results are preserved" (`agent_runner.js:277`): a refusal by the budget
  in the serial half is thrown, and all results with it.
* The list of skills is one build behind after an install (`install.js:222`).
* A `.memory` without `EVOLUTION.md` is never seeded (`install.js:184`), and a
  pipeline run before the install makes one.
* A link that leads nowhere stops each later install at that skill
  (`install.js:97`), while `skill_sync` counts it as installed.
* Rotating a key that is revoked meanwhile, or has expired, answers 200 with a raw
  key that never works (`api_keys.rs:278`: the number of rows is not looked at, and
  `expires_at` is kept).
* With `API_KEY` unset and no key in the table, authentication is said to be off:
  "If `API_KEY` is not set in the environment, auth is skipped on all routes"
  (`docs/api.md:18`; so too `docs/api.md:5`, `README.md:152`, `CHANGELOG.md:72`, the
  comment at `.env.example:29`, and `state.rs:35` and `:91`). `auth_middleware` then
  answers 401 to every request: to one without a header at once (`api_keys.rs:80`), to
  any other because neither a row nor `API_KEY` matches. KeyRing has `API_KEY` set.
* `key_manager.js:47` prints "revoked" for an error answer too.
* "max 60 requests/minute" (`main.rs:653`): the text and the headers say 60 whatever
  `RATE_LIMIT_RPM` is, and around the end of a window it is twice the limit.

## Proofs

`PipelineExecutor_proofs.tla` proves, for any set of processes, phases and plans,
any retry limit and any number of crashes, under the assumptions that
PipelineExecutor states on its constants (`NoPhase` is no phase, plans are
sequences of phases, the markers for absent and torn files are no file
contents):

* `TypeCorrect`: Spec => []TypeOK. TypeOK is not inductive: a step that takes the
  head of `todo[p]` or writes `mem[p]` needs to know that there is one.
  `LocalOK` adds, per label, that the session is loaded and the phase at hand
  exists; `TypeInv` is both.
* `LockExcludes`: Spec => []ExclusiveUnlessRobbed. The invariant `LockInv`:
  until a live holder's file is unlinked, the file on disk is the one the holder
  created. Two holders would both own one file.
* `CompletedAccepted`, `RecordedOnce`: from `RecordInv`. What makes it inductive
  is that it is said of every copy of the record, in the file and in each
  process's memory, whether or not the process still holds the lock; so a stale
  copy written over a newer one is sound too. Inside an iteration of the loop,
  the copy does not hold the phase at hand; past the checks, that phase was
  accepted.

`MemoryService_proofs.tla` proves, for any stores, readers and episodes, any cap,
and any number of retention runs and faults, from `ServiceAssumption`:

* `TypeCorrect`: Spec => []TypeOK. TypeOK is inductive: that no transaction is left
  open by a store that has ended is a part of it.
* `TogetherAlways`: Spec => []RowsTogether, from `RowInv`. What makes it inductive is
  `TextsFollow`: of the stores whose image rows a transaction has deleted, it has
  found, and then deleted, every text that is still there. Those stores have
  committed and commit no more (`Ended`), so nobody brings such a text back while
  the transaction goes on. No lock is used in the argument: what waits for what
  decides whether texts of several stores pile up, and not whether rows go together.
* `FreshAlways`: Backend = "redis" implies Spec => []FreshAnswers, from `FreshInv`.
  Its heart, `VersionInv`, says that a version stands for what was stored when it was
  made: readers with one key began under one promise, those with the current version
  under that of now, and what is cached under a version keeps its promise. It is said
  of every search a reader may be in the middle of, of one that failed and of one that
  found nothing, so it does not matter what an answer that is cached tells of. The INCR
  is safe because neither a key nor an entry has the version it makes.
* `QuietAlways`: Spec => []QuietEpisodesAgree, from `QuietInv`. The property speaks of
  episodes nobody works on, so QuietInv says for the others who works (one store with
  its task, or the retention run, and never two: `QuietOn`) and how far it has come:
  a transaction has found, then deleted, all rows there are (`Replacing`), a
  committed store's rows are the only ones (`Rewritten`), and a retention run knows
  whether there was a file (`SweepOn`). A step on another episode changes none of it
  (`Elsewhere`). A call that fails, also one whose failure is ignored, makes the episode
  `mixed`, about which nothing is said; a store that begins alone takes it out again,
  and what QuietInv says of a store at its beginning holds of any rows and any file.

`SoloExecutor_proofs.tla` extends PipelineExecutor_proofs with what only one process at a
time keeps (`Procs = {p}`), for any plans, retry limit and number of crashes:

* `ReceiptsStay`: Spec => []CompletedHaveReceipts, from `KeptInv`. Not inductive by
  itself, because a receipt is gone while it is written again. `KeptInv` adds that
  the phase at hand is in no record, in the file or in memory, so that nothing on
  disk refers to the receipt that is gone.
* `HaltsExplained`: Spec => []HaltIsExplained, where callers do not `run` a halted
  session by id. `HaltInv` says that a halted session is on disk only while nobody
  works on it, so the diagnostic is not touched under it, and ties the retry count
  to the attempt (`Counted`). Its assumption on CallerRuns is needed: `run` on a
  halted session works on while the file says halted.
* `EarlierConsumed`: Spec => []EarlierOutputConsumed, from `ConsumedInv`: an attempt
  consumes what the one before it left and writes only under its own number.
* `SessionImplemented`: Spec => ImplementsSession, for one plan in which no phase comes
  twice and callers as in HaltsExplained. The refinement mapping takes for the session
  what state.json holds or, while it is torn, what it is being given. `PlanInv` says
  that the record is a beginning of the plan, and that the loop stands at the phase
  due or at one that is complete, so `Phase(p)` is `Due` (`AtPhase`); with KeptInv its
  receipt is there when it is committed, with HaltInv the session is open. Then each
  action is one step of PipelineSession or leaves the session as it is
  (`SessionStep`); a crash with a torn file is `Lose`.

`AgentFleet_proofs.tla`, for any processes, tasks, costs and deaths:

* `FleetTypeCorrect`: FleetTypeOK is inductive.
* `NeverOverstated`, from `NothingAdded`: said of the file and of every copy a
  process is about to write, so a stale copy is no more than is owed either.
* `Exact`, from `OneWriter`: undisturbed, at most one process holds a copy, and that
  copy has all.
* `HolesExplained`, `KeepsSuccesses`, from `ListInv`: a serial loop has come to
  exactly the tasks before the next one, and nothing before it has failed.
* `WindowAlways`: what the traces say was spent, together with the costs that are on
  their way from the file to a trace, is no more than is owed (`TracedWithinOwed`), and
  until the file is disturbed it lacks at most the one cost that is being recorded
  (`DueKnown`).
* `OvershootAlways`, from `RoomInv` and `Capped`: undisturbed, what is owed exceeds the
  limit by no more than the agents the processes still have room for may cost. An agent
  that ends takes its cost and gives its room back; one is started only when the file is
  below the limit, and then a cost that is on its way to the file is covered by the room
  of the agent that has ended.

`Sums.tla` holds what these proofs say of sums over a finite set, and the induction
behind it. The library's induction theorems take a predicate, which no prover here can
choose; `NatSetInduction` and `SubsetInduction` are stated about the set of what has the
property, and come from the least element a set of numbers has. In the same way the
functions that `SumFunctionOnSet`, `FlattenSeq`, `FoldLeftDomain` and `Ancestry` define
by recursion are shown to exist: up to each n there is one (`PartialIsDefined`,
`FlattenedIsDefined`, `ScansIsDefined`, `UpIsDefined`).

`Invocation_proofs.tla`, of AgentProcess and TraceTree:

* `OkComplete` and `WalKept`, from `AgentInv`. It adds to the two properties which
  stages are a child's and which a request's, and that nothing is delivered before the
  invocation is answered; that the last chunk is heard before `close` is the guard of
  one step.
* `AgentTypeCorrect`: AgentInv is needed, since a chunk that is appended to the
  checkpoint continues it only because the checkpoint holds all that was heard.
* `ReceiptIsLastAlways`, from `ExtractsLast`, which is about texts only. `ScanOK` says
  what the scan knows after n characters: the level there, where the outermost brace that
  is open stands, and all outermost pairs up to there, in their order. A receipt at level
  0 is such a pair (`ReceiptIsOutermost`) and no two of them end in one place, so the
  last block that parses and the last receipt are one.
* `TraceTypeCorrect`, `SpansNestedAlways`, `EventsInsideAlways`, `CostNearAlways`, from
  `TraceInv`. `TreeInv` says that the spans on the stack are a path from a run down and open,
  that all below a closed span is closed, and that what is off the stack is older: left
  open before the run began, or closed before later lines of the stack were opened. `PlaceOfRun` ties the height of the stack and the names on it to
  the phase and the attempt. `PointsInv` says what is known of an event's span from the
  time it was written on. For a cost (`CostOK`): of all spans there are, one that was
  open at that time and is not above the agent's span was opened before the attempt's,
  so it is not the nearest, or is later than the agent's and of the same millisecond.
  Spans of dead processes look open for ever; what keeps them away is that they were
  opened before everything of the next run.

`RequestChecks_proofs.tla`, of KeyRing and RateLimiter:

* `KeyTypeCorrect`; `GrantsHoldAlways` from `TableInv`, in which raw keys are made once
  and an answered one is in its row, replaced or revoked; `SpentStaysOutAlways` from
  `RequestInv`, which says that what was over stays over.
* `LimiterTypeCorrect`, `TwiceTheLimitAlways`, from `LimiterInv`. `Bounded` says of each
  length of time how many requests can have passed in it, by how it lies to the start of
  the header's window: none if the window was over and waited out, no more than the count
  within the window, no more than that and the limit if it reaches up to a minute before
  it, and at least the count if the whole window is within it. Without an entry (never
  made, or pruned) a minute has at most the limit. `Refusals` keeps the second half of
  the property. A request reads the clock before it has the mutex, so each of these
  is off by the longest wait.

`Parts_proofs.tla`, of MemoryPruner, SkillInstall and MCParts:

* `NothingEverLost`, from `LossInv`: of what is in the file, whoever prunes has read all
  that is neither archived nor late, and whoever overwrites it has archived what it read,
  of which its summary is a part. `PruneTypeCorrect`: PruneTypeOK is inductive.
* `InstallTypeCorrect`, from `InstallTypeInv`, which adds that commands and links are
  kept for the listed skills only.
* `LessonsAreKept`, from `LessonInv`: between making `.memory` and seeding, lessons are
  there only if they came `early`; an install that finds `.memory` never seeds.
* `ThrowsExplained`, from `ThrowInv`: what an install has seen before it makes a directory
  stays as it was unless it was overtaken (`LookedInv` of the skills' directories,
  `ScaffoldInv` of the project's), and a directory it has made is there when it is filled.
  `SyncBesideThrow` is the part of the proof about `skill_sync`.
* `InstalledCurrent`, from `CurrentInv`: what a loop has come to is in its home and stays,
  whatever `skill_sync` puts there (`SyncBesideCurrent`), and what could not be written
  is among what was warned of; the list that is installed is the one of before the
  rebuild.
* `SecondSettles`, from that and `SettleInv`: once rebuilt, the list is the package's
  until the package changes or a rebuild fails.
* `PartsTypesCorrect`: MCSpec => []PartsTypeOK. A behaviour of MCParts is a behaviour of
  each of the seven components (`SideBySide`), so what is proved of one alone holds
  in the runs too.

Assumptions on the constants, beyond their kinds: there are finitely many processes
that run agents (`FleetAssumption`), which the sums over them need; a skill has a first
version and the package a first place, and the marker `Nothing` is no link and no copy
(`InstallAssumption`).

Model-checked only: the liveness properties, EventuallyComplete, EveryCallEnds,
StoresEnd, FleetEnds and InvocationEnds, for the prover has no rules for
fairness.

## Not modelled

* The scrubber: expressions and an optional language model over one string.
* The failure taxonomy: it picks wording, and for one class the model of the next
  attempt; no state depends on it. Parsing of test counts: text matching.
* The scanner, wizards, dialogues, docker start-up, reports, benchmarks: input and
  output.
* Active recall (`sharpen_cold_memories`): its query finds nothing but rows of an
  older version.
* Migration, configuration and metrics at start-up: done once, before any request.
* What one call leaves out of each modelled part is said in its section.

## Running

In this directory:

    tlc -workers 2 -config executor_crash.cfg MCPipelineExecutor.tla
    tlc -workers 2 -config memory_cache.cfg MCMemoryService.tla
    tlc -workers 2 -config parts.cfg MCParts.tla
    tlc -workers 2 -config receipt_brace.cfg MCParts.tla
    tlapm PipelineExecutor_proofs.tla
    tlapm SoloExecutor_proofs.tla
    tlapm MemoryService_proofs.tla
    tlapm AgentFleet_proofs.tla
    tlapm Sums.tla
    tlapm Invocation_proofs.tla
    tlapm RequestChecks_proofs.tla
    tlapm Parts_proofs.tla
