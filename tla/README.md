# SignalOS: a TLA+ verification project

SignalOS is a desktop application (Tauri shell, Python sidecar) in which AI
agents build a software product under a *gate walk*: the delivery goes through
the gates G0 to G5, at each gate an agent works on the shared workspace, and a
founder gives a verdict. The last gate releases the product: the approved bytes
are committed and pushed. This directory models the parts of it where control
is hard to test: who owns the workspace, what a verdict, a reopen or a crash
does to the walk, what may be shipped, how the build drives its tasks to green,
how an agent run is metered and resumed, how parallel tasks are claimed and
merged, how a running delivery is cancelled and how the desktop shell replaces
the engine under all of it.

All paths below are relative to the repository; `go` abbreviates
`python/signalos_lib/product/gate_orchestrator.py` and `ipc` abbreviates
`python/signalos_ipc_server.py`, `sb` is `product/subagent_build.py`, `al` is
`product/agent_loop.py`.

## 1. Inventory

| Component | State | Operations | What is hard | What makes it correct |
|---|---|---|---|---|
| **Delivery lock** (`go` 1962-2105) | one lock file per workspace: owner token, pid, host, time | acquire (link, read, probe, unlink, retry), release | several processes; a judgement that is old when acted upon; crashes; a lock of another host | at most one live delivery; a dead one never blocks the workspace |
| **Gate walk** (`go`, `GateOrchestrator`) | `DeliveryState` in memory and in `delivery.json`; canonical signatures; G4 attribution record | start, run a gate, six verdicts, reopen, resume | durable effects in sequence with a crash between any two; edits of the tree meanwhile; stale evidence | no gate is skipped; only what was verified and approved ships |
| **Release finalization** (`go` 2750-3700, `sign.py`) | `release_finalization` marker, HEAD, remote branch, finalization lock | verify, persist, sign, seal, commit, push, read receipts, recover | timeouts after a successful push; retries; release truth recomputed much later | "ready" is true when it is said; a pending release is resolved |
| **Sidecar requests** (`ipc` 1061-2002, 3477-3520) | `_ACTIVE_DELIVERIES`, `_ACTIVE_DELIVERY_WORKERS`, cancel flags, `cancel-requested.json` | deliver, verdict, reopen, resume on the worker thread; cancel on the reader thread | the two threads share everything and take no lock | an answered cancel holds |
| **Task stores, worker pool** (`task_store.py`, `postgres_task_store.py`, `product/executor.py` 40-160) | rows: status, attempts, lease; `in_flight`; report | claim, heartbeat, complete, fail, read back | threads; leases that lapse; database errors that were applied or not | a task is run by one worker, is never dropped, and is reported as the store has it |
| Signatures, audit chain (`sign.py`, `audit_replay.py`) | signature blocks, hash-chained audit log | sign, revoke, verify, replay | append while another process appends | a revoked or drifted signature never counts |
| **Finalization lock** (`go` 3330-3400) | `g5-release.lock` | acquire, release | the same as the delivery lock | one finalizer per workspace |
| **Agent loop** (`al`) | messages, call count, streaks; `state.json`, `conversation.jsonl`, tool ledger; container | provider turn, dispatch, govern, audit, publish, resume | a crash between two files; a failing ledger, sandbox or revert; a provider that answers anything | the budget survives a crash; no un-audited success; protected files come back; it ends |
| **G4 build** (`sb`) | task plan, traceability matrix, progress ratchet, reviews | draft, measure, fix, Definition of Done, integrate, review, record | flaky suites; fixers that break what was green; seats that land nothing; cancel | evidence only behind every wall; converge or stall; no work on a red prerequisite |
| **Worktrees, merge queue** (`executor.py` 215-359) | git worktrees, base branch | add, commit, merge, abort, remove | failure after a successful merge | what is reported as done is what was merged |
| Gate review packets | packet per gate run | build, render | none (pure function of files) | shows what was run |
| **Desktop shell** (`src-tauri/src/sidecar.rs`) | engine processes, sender slot, status record, bounded queues | start, restart, send, stop, handshake, exit event | async tasks under two locks; a full queue | the status tells the truth; a replaced engine ends; every engine is judged |
| Wave engine, fleet runtime, full pipeline engine | wave state, agent records | plan, run, record | mostly sequential | order of waves |
| Dependency broker and proxy | lockfiles, allow list | resolve, serve | network | installs only what was approved |
| Pause markers, sessions, tenants, projects | small files | set, clear, select | little | - |
| Enforcement (hooks, policy, sandbox) | policy files | check | none (predicates) | - |
| Frontend | UI store | render events | event order | - |

How they interact. The shell starts the sidecar and exchanges JSON lines with
it. The sidecar's *reader* thread puts requests into a queue and answers
`agent:cancel` itself; the *worker* thread serves the others one by one, each by
calling an orchestrator object. The orchestrator acquires the delivery lock,
runs a gate (agent loop; at G4 the build, whose tasks may go through the worker
pool), persists `delivery.json` and returns. A verdict signs through
`sign.py`, whose signer reads `delivery.json` back from disk. At G5 the
orchestrator finalizes the release under a second lock, with git. After a crash
everything is rebuilt from the files.

`PROJECT.json` lists the components with what is and is not modelled, the
hazards with the line where each bites, and the source lines of every
definition.

## 2. Modules

| Module | Models | Size of its state |
|---|---|---|
| `DeliveryLock` | the delivery and the finalization lock, one step per file-system call | any set of orchestrators, processes, hosts |
| `GateWalk` | one delivery from G0 to the pushed release | any number of gates, any budgets |
| `SidecarCancel` | worker and reader thread around one delivery | finite, no constants |
| `WorkerPool` | `run_worker_pool` on either task store, in the shared tree or in worktrees | any number of workers, tasks, attempts |
| `SidecarLifecycle` | the shell's engine manager: calls, writer and reader tasks, engines | any number of calls, clients, engines, any queue |
| `SubagentBuild` | the build gate: tasks, fix loops, integration, reviews, evidence | any plan, acceptance cases, budgets |
| `BuildContract` | what the build gate promises, abstractly | any plan |
| `AgentLoop` | one governed agent run and its resumes | any budgets |
| `DeliveryLockProofs`, `GateWalkProofs`, `WorkerPoolProofs`, `SidecarLifecycleProofs`, `SubagentBuildProofs`, `AgentLoopProofs`, `SidecarCancelProofs` | theorems | |
| `MC*` | instances for TLC | |

Definitions called `X_Something` with the comment MUTANT stand for plausible
mistakes in the code modelled by `X`; no specification uses them. Each property
is violated when one of them takes the place of `X`.

The modules meet at narrow interfaces. `GateWalk` has one Boolean `locked` for
the lock that `DeliveryLock` describes in detail, and treats a busy
finalization lock as an outcome (`FinalizerBusy`). `SidecarCancel` reduces the
walk to its status, because the handlers treat a cancel by status alone;
conversely `GateWalk` has no cancel. `SubagentBuild` is what happens inside the
build step (`PrepareBuild` to `BuildRecorded`) of `GateWalk`, which only uses its
outcome; `BuildContract` states that outcome without the agents. A seat of
`SubagentBuild` is one run of `AgentLoop`, and any other gate run is one too.
`WorkerPool` is the older parallel executor of generation packets. The engine
process of `SidecarLifecycle` is the program of `SidecarCancel`.

### DeliveryLock

`lock` is the content of the file (owner and which of its acquisitions), `old`
the files past `_LOCK_TTL_SECONDS`, `holding` the orchestrators with
`_delivery_lock_held`. Acquire is `Begin`, `LinkWins` or `LinkRefused`
(`_write_delivery_lock`, `os.link`), `Read`, `JudgeOwn` / `JudgeLive` /
`JudgeStale` (`_delivery_lock_is_live`: the pid on the same host, the age
otherwise), `UnlinkRetry` / `UnlinkGiveUp`. Release is `ReleaseBegin`,
`ReleaseRead`, `ReleaseUnlink`. An unlink removes *whatever file has the name
now*, as `Path.unlink` does. `which` selects the lock: the finalization lock
takes the same steps but is not re-entrant, compares a token per acquisition,
reclaims in its first round only (`Refuses`) and gives up when the stale file
is gone already (`Overtaken`). `robbed` is a history variable: the holders whose
file was removed by somebody else's unlink. A pid is not reused in the model.

### GateWalk

`mem` and `disk` are the same record type (`DeliveryState`); `Persist` writes
both, and every handler is split where it makes something durable, so that
`Crash` can fall between any two durable effects and the delivery continues
from `disk`, `sigs`, `proof`, `head` and `origin`.

- Runs: `Deliver`, `RunGate`, `BuildRefused`, `PrepareBuild`, `BuildDone` (the
  attribution record), `BuildRecorded` (the checkpoint).
- Verdicts: `ApproveG0`, `ApproveGate`, `ApproveBuild`, `Scan`,
  `ApproveRelease`, `Sign`, `Commit`, `CommitRelease`, `RequestChanges`,
  `Reject`, `Waive`.
- Reopen: `Reopen` (revokes durably), `ReopenDone` (checkpoint).
- Release: `Finalize`, `Demote`, `StageAndCommit`, `Push`, `ShipFails`,
  `Receipt`, `FinalizerBusy`.
- Resume: `Resume`, `ResumeReconciled`, `ResumeRefused`, `ResumeComplete`,
  `Recheck`.
- Environment: `Crash`, `Edit`, `Drift`, `RepoMoves`, and the founder's separate
  G0 transaction `FounderG0`.

The checks (`VerifyG5`, `VerifyCompleted`, `ReleaseProofOnDisk`, `MarkerOk`,
`ReceiptsHold`, `SignerAccepts`, `Reconcilable`) are predicates on the same
state, in the order in which the code consults them.

Abstractions: a tree is one digest, used for the product sources and for the
release tree alike; artifacts are "signature valid or not"; a drifted signature
becomes valid again only by signing; a completed run of the release gate
rewrites its artifact and so voids its signature; security gate and runtime
proof are one Boolean. Failing writes of `delivery.json` and exceptions that
escape `_run_gate` are left out here (the latter are in `SidecarCancel`). The
counters of `DeliveryState` are bounded by the code's own budgets. `abandoned`,
`verified`, `screened`, `approved` and `orphaned` are history variables:
`approved` is the founder's standing approval of G5, `orphaned` says that a
resume disowned the G5 signature (`ResumeRefused`) and left it on disk.

### SidecarCancel

One worker program counter (`wpc`) and one reader program counter (`rpc`). The
reader may take a step between any two statements of the worker that touch
shared state. `active` and `working` are the two registries, `flag` and
`marker` the volatile and the durable form of a cancel, `ref` the orchestrator
object that the reader looked up at the beginning of its handler: the worker
may have replaced it since (`"old"`), and then the reader's writes go to an
object that nobody uses but still reach the file. `lock` is `"lost"` when it
belongs to an object that nothing refers to any more. `answer` and `late` are
history variables. Setting a status, writing it and giving the lock back is one
step of the worker (`Terminalize`), because no step of the reader in between can
tell the difference; the reader's own sequence is split statement by statement,
because the worker's handlers can. Plain agent runs without a delivery, and
write errors of the marker, are left out. The status test in front of an
approval at G4 is over-approximated.

### WorkerPool

Postgres operations are single statements and single steps; the in-memory
operations are split where another thread can run (`ClaimScan`, `ScanTask`,
`TakeRunning`, `TakeLease`; `Fail`, `FailLease`). Time is one Boolean per task,
"the lease has lapsed"; it does not lapse while the heartbeat thread renews it.
The `*Raises` actions are database errors: a call raises with or without having
been applied. With `isolated` a task runs in a git worktree of its own:
`RunInWorktree`, `MergeBranch` (atomic, under `merge_lock`; a conflict is
aborted and dead-letters the task), `Tidy` (the `finally` clause, whose
exception takes the place of the result). `merged` is the set of tasks with a
merge commit, `midMerge` a repository left inside a merge by a failed abort.
The contents of a branch are reduced to "conflicts or not".

### SidecarLifecycle

A generation is one start of the engine, with its own queue, process, writer
and reader task. The manager has two locks, and every step holds at most one:
`Store` writes the sender, `Publish` the status; the exit of an engine is
`Terminated`, `Compare` (under the status lock), `ClearSender` (under the
sender's). `Replace` sends Stop with `try_send` and so loses it when the queue
is full. A process that loses its stdin ends by itself. The capability
handshake is `Probe`, `Answer`, `Timeout`. Message texts and the environment of
the child process are left out.

### SubagentBuild and BuildContract

The product is the set of acceptance cases that work. A seat (implementer,
fixer, reviewer, evidence agent) is dispatched (`Dispatch`), changes the product
as often as it likes (`Work`; a reviewer only reads) and ends, by itself or
because its infrastructure fails (`InfrastructureFails`, which also covers the
contained test runs). A test run sees the working cases minus flaky ones, or
fails to run, and may be red by its exit code alone. `StartTask` and `Draft` begin
a task; `GateCheck` and `IntegrationCheck` measure the product and charge
the ratchet (`Observe`: `_TaskProgressGate`); `FixTask` and `FixIntegration` are
the fix loops; `DodRefuses`, `DodHolds`, `DodFix` the Definition of Done;
`ReviewPasses`, `ReviewFails`, `ReviewFix`, `ReviewBlocks` the two reviews;
`WriteEvidence` the record. A task with a red or skipped prerequisite is skipped
(`Block`).

`Cancel` may come at any step, while a seat works too. The code looks at it
before a task, before a seat is dispatched, and once per provider turn
(`SeesCancel`), so the seat goes on changing the product until its turn is over,
and one whose last turn it is ends as if nothing had happened. `seat` is the seat
at work; `late`, the seats that ended after the cancel, `spent`, `checked` and
`passed` are history variables.

`BuildContract` has a verdict per task, a stage and a result. The refinement
mapping takes a settled row to "good", a failed or blocked one to "bad", and the
program counter to the stage.

### AgentLoop

A conversation is the number of its tool answers, of the answers that report
success and of the calls still open. `mode` is the step of the loop; `saved`,
`conv`, `rows` and `tampered` are what survives a crash: `state.json`,
`conversation.jsonl`, the ledger, and how many forbidden changes of protected
files are in the workspace. A change is forbidden under a blocking rule; what a
rule in warn or off mode lets through is not counted. `Resume` gets its adapter
from the request, not from the run it resumes: a run with tools may be resumed
with a model that has none, and the other way round.
`_persist_state` is two steps, since it replaces two files. The model and the
provider may answer anything; the ledger, the sandbox, the revert of a protected
file and the container's teardown may fail. History variables: `executed` tool
calls; `lost` loops, ended without saving their count; `dropped`, the charges that a
resume without tools struck from `state.json`; `excused`, the forbidden changes
a fault left in place.

## 3. Runs

| Run | Question | Result |
|---|---|---|
| `lock_contention` | both locks; three orchestrators, two of this host and one of another, one of them acquiring twice; crashes and expiry | holds: a second holder exists only after an unlink removed a working holder's file, only an overtaken judgement or the TTL of another host does that, and a dead process of this host never blocks |
| `lock_exclusion` | is the delivery lock exclusive? | violated (finding 1) |
| `pool_drain` | both stores, with and without worktrees; two workers, two tasks, two attempts, conflicting merges, two errors of the database or of git | holds: with Postgres and no error claims are exclusive, the report agrees with the store and what is reported done is what was merged; always, a pool that returned drops nothing, and it returns unless a worker dies |
| `walk_cascade` | four gates, waivers, conditions, rework, a reopen of every gate (parked or persisted), a crash | holds: no gap in the walk, an approval that was taken back does not ship (but see the disowned signature below), only releasable deliveries ship, a record of success belongs to a complete walk |
| `walk_ship` | production profile; edits, drift, foreign commits, moved branch, a rejection, a crash | holds: only verified trees ship, on fresh safety evidence; agents run under the lock except after a demoted release; a pending release is resolved |
| `walk_rework` | is a gate open only after its last run ended? | violated (finding 2) |
| `cancel_inflight` | any sequence of requests, cancels, restarts, rival deliveries | holds: a cancel left to a registered worker is remembered until the run is over, nothing works after it, and the run ends |
| `cancel_window` | does every answered cancel hold? | violated (finding 3) |
| `engine_service` | the first start racing a restart, a client that fills the queue, a failed spawn, crash or stream error | holds: the status follows the newest engine, a replaced engine ends even when Stop did not fit, every engine answers its handshake or is flagged |
| `engine_restart` | does a restart in which nothing fails leave an engine that can be sent commands? | violated (finding 4) |
| `build_gate` | two builds of three chained tasks, a flaky case, seats that leave anything or nothing, failing infrastructure, a cancel and a crash at any step | holds: evidence only behind every wall, no work on a red prerequisite, fix loops converge or stall, at most the seat at work outlives a cancel and only the evidence agent's last turn completes after it, the build keeps `BuildContract` and ends |
| `agent_resume` | a seat, a gate run and a text run; three calls in turns of two, two faults at any step, two resumes with either kind of adapter | holds: the budget survives but for one turn per lost loop and the charges a resume without tools drops, the saved conversation is charged to the same measure, a success is audited, protected files come back, every run ends |

### Bounds, and why they are enough

- *Gates.* `Last = 2` keeps exactly the three gates the code distinguishes: G0,
  the build gate and the release gate. `Last = 3` adds one ordinary gate, which
  the cascade of a reopen needs: something below, at and above its target.
- *Trees.* Two: a property about trees can only be broken by the wrong one.
- *Crashes.* One crash falls between any two durable effects. After it the
  delivery is a state like any other, on which the one-crash instance starts
  again only through other founder actions; the theorems have no such bound.
- *Budgets.* 0 or 1 rework, rejection and reopen, so that both sides of each
  test occur.
- *Lock.* Three orchestrators are needed for "judged, overtaken, taken by a
  third"; two hosts for the two liveness rules; a second acquisition for
  re-entry; three attempts as in the code.
- *Pool.* Two workers and two tasks give every race of a pair; two attempts
  give a retry and a last failure; two errors let a retry of an error fail too.
- *Cancel.* No bounds: TLC explores the whole module.
- *Engines.* Two generations and two calls give every race of an old engine's
  exit with a new one's start; a queue of one is full after one request.
- *Build.* A chain of three tasks is the shortest on which a skipped task must
  block another one; two cases of the tasks, one of them flaky, let a suite
  rotate; a case no task owns fails integration alone; two stall rounds and a
  guard of four let each of them end a loop; a second build starts over a cut
  off one.
- *Agent loop.* A limit of three in turns of two is passed in the middle of a
  turn; two faults let a crash follow a failed revert or ledger; two resumes let
  one without tools drop the count and one with tools go on from there.

Deadlock is not checked where the system may really stop: nobody has to call
again once a pool has returned, a delivery has stopped or the lock is free. In
`SidecarCancel` it is checked.

### Fairness, and what in the code justifies it

- `DeliveryLock`: a call that has begun goes on. Nobody must begin or crash.
- `GateWalk` (`FairSpec`, used by `PendingReleaseResolves`): handlers run to
  their end, since agent loops, builds and git calls have budgets or timeouts;
  the founder resumes a delivery that is not in memory; finalization, commit
  and push, tried again and again, succeed some time (strong fairness: each
  resume tries once and may fail). Somebody who edits the tree or moves the
  branch for ever is excluded by the property itself.
- `WorkerPool`: threads are scheduled, `run_task` returns, and an unrenewed
  lease lapses because time passes. Heartbeats are not fair.
- `SidecarCancel`: both threads go on; a gate run ends because of its budgets.
  Requests, cancels, restarts and rivals are never forced.
- `SidecarLifecycle`: the async runtime runs every task that is ready, an engine
  notices the end of its input, the handshake timer fires. Nobody must restart,
  send, answer or crash.
- `SubagentBuild`, `AgentLoop`: a step that has begun ends, because provider
  calls, commands and test runs have timeouts. Cancels, crashes and resumes are
  never forced.

## 4. Findings

1. **Delivery lock is not exclusive** (`go` 2071). The reclaim unlinks by name
   after judging an earlier read. If the owner has released and another live
   orchestrator published in between, that lock is removed and both hold the
   workspace. `lock_contention` shows that this is the only way, and that the
   finalization lock has the same one.
2. **A crash during rework reopens the old review** (`go` 2381). Approve writes
   a checkpoint before it dispatches the next run, the other verdicts do not:
   after a crash the gate is open for a verdict on whatever was left, and the
   feedback is lost.
3. **A cancel is undone** (`ipc` 1665). The reader terminalizes a delivery which
   a handler that has not registered (or never registers) is working on; the
   handler's next checkpoint overwrites the cancelled status.
4. **A restart can disconnect the new engine** (`sidecar.rs` 492). The exit of
   the old engine is compared with the generation under one lock and clears the
   sender under another, while the new sender is stored before the new
   generation is published: it removes the new engine's sender.

Seen while modelling, without a run of its own:

- in-memory claims double (`task_store.py` 52, "atomic; never double-claims"):
  the test and the three writes of a claim are not atomic between threads.
  `NeverDropped` holds all the same; exclusiveness is claimed for Postgres only;
- an exception of `fail` or `get` leaves `in_flight` raised, and the other
  workers of the pool poll for ever; a claim whose answer is lost lets the pool
  return with a running row;
- a merged task fails when `git worktree remove` raises in the `finally` clause,
  and the same exception makes a dead-lettered conflict retryable;
- a release demoted to blocked stays registered after its lock was given back:
  its rework runs unlocked (`go` 2326; `UnlockedOnlyAfterDemotion` states that
  this is the only case);
- a disowned G5 signature can ship a withdrawn approval (`go` 3542 to 3612, "a
  pending/verified marker plus a canonical strict G5 signature proves a crash
  occurred after signing"): a recovery that refuses to reconcile marks the
  release failed and leaves the signature. If the files are restored, the
  founder approves again (the marker is pending, the signer refuses because the
  signature exists), asks for changes instead, and the sidecar crashes during
  that rework, the next recovery takes the old signature for the crash of a
  fresh approval. It takes two crashes and interference with the files, more
  than `walk_cascade` has; the proof of `ShipNeedsApproval` failed on it, and the
  property now names it (`orphaned`) as the only exception;
- the recomputation of release truth asks for the persisted
  `release_verification.ok` (`go` 3062), so one resume at a bad moment makes a
  shipped release not-ready for good;
- conditions are never cleared (`go` 2276); a waived gate cannot be reopened
  (2587); the release tree is captured after the independent check (1352);
- a delivery refused by the lock stays registered because `start()` never
  returns `active_run_id` (`ipc` 1177); a cancel that interleaves with a reopen
  or a resumed start can leave the lock with an object nothing refers to (1677);
- the requirements review is not asked again after the quality review's fixer
  reworked the product (`sb` 3107); a stale `BUILD_EVIDENCE` of an earlier build
  stays when the evidence agent writes none (3132); tasks beyond `max_tasks` are
  cut off (692); a prerequisite later in the plan counts as satisfied while it
  is pending (1342); a task that is green before it starts skips the Definition
  of Done (2776);
- a cancel is polled once per provider turn, while `al` 1321 says "between tool
  calls": the rest of the turn still writes the product. Nothing polls after the
  evidence agent (`sb` 3188 to 3205), so a build cancelled during its last turn
  is recorded and reported as completed; `CancelIsFinal` states that this is the
  only way;
- a resume with an adapter that cannot call tools saves the whole conversation
  with a count of 0 (`al` 2156). If its one call fails, the next resume with
  tools has a fresh budget; `dropped` measures this in `BudgetHolds` and
  `SavedTalkIsCharged`, which are false without it;
- a turn stopped in the middle leaves unanswered calls in the saved
  conversation; the ledger's sequence restarts at 1 after a resume; a file over 2 MB
  cannot be reverted; a failed teardown changes the result but not `state.json`.

## 5. Proofs

TLAPS proves, for every value of the constants that satisfies the named
assumptions of each module:

- `DeliveryLockProofs` (`LockAssumption`), for both locks: `TypeCorrect`; `Exclusivity`, that
  two holders exist only if one was robbed; `ReclaimIsJustified`, that robbing
  needs an overtaken or a foreign-host judgement.
  The inductive invariant `IInv` adds to the types that an unrobbed holder owns
  the file (`HolderOwnsFile`), where the owner of the file can be in the
  protocol (`OwnerPlace`, `HolderPlace`), and what a pending judgement or unlink
  knows of the ticket it read (`OwnJudgement`, `Judged`: a ticket judged stale on
  its own host belongs to a dead process, and stays so), and that a finalizer
  leaves no file of an earlier acquisition behind (`Current`). Exclusivity alone
  is not inductive: it says nothing about the file.
- `GateWalkProofs` (`WalkAssumption`): `TypeCorrect`; `NoGateSkipped`;
  `ShipsOnlyVerified`; `ShipsOnlyReleasable`; `ShipsOnlyApproved`;
  `ShipsOnlyScreened`; `ShippedIsComplete`; `RunsOwnTheWorkspace`.
  `WalkInOrder` is not inductive because of reopen: when the walk falls back to
  gate *g*, gates below it must be signed or waived, and the target is only known
  to be a *signed* gate. `Closed` says that everything below any signed gate is
  signed or waived; it survives the cascade because waivers at or below the target
  stay. `ReopenPending` says that a reopen in progress aims at a signed gate
  with budget left. `WalkInv` is the conjunction, for `mem` and for `disk`,
  because a crash replaces one by the other. `ProofInv` follows a verified
  digest from the attribution record to HEAD and to the remote branch. `ShipInv`
  carries what `Finalize` established to the push, across all interference.
  The other four rest on `DeliveryInv`, `WalkInv` with seven more parts. `Synced`:
  memory and checkpoint differ only while a gate runs. `LockInv`: a delivery in
  memory without the lock has its release gate signed. `ScreenInv`: nothing at
  or above the current gate is signed but the release gate, so a build that
  runs is not signed, and evidence that counts is newer than the signed build.
  `BuildInv`: the checkpoint has the build gate unsigned while it runs and until
  its record is followed by a checkpoint, so a crash between the two does not
  lend an old signature to the new build.
  `StatusInv` says at which statements a delivery is complete or parked.
  `DoneInv`: a state recorded as shipped is complete, and no handler that
  changes a walk holds it. `ApprovalInv` is the argument about the founder's last
  word: a G5 signature beside a checkpoint that still awaits the verdict comes
  from an approval that stands and was cut off by a crash, or from one whose
  reopen was cut off and that recovery cannot reconcile (`Void`), or was
  disowned. `ShipNeedsApproval` is not inductive without it because the
  recovery after a crash trusts the signature and not the founder.
- `WorkerPoolProofs` (`PoolAssumption`, which asks for at least one worker, as
  `executor.py` 145 makes sure of): `PoolTypes`; `ExclusiveClaims`, that with
  Postgres and no failed call no task is executed by two workers;
  `NothingDropped`; `ReportIsTrue`; `MergesAreReported`. For the exclusive
  claims `Owns` says that an executing worker's task is running and its lease is
  renewed by that worker's own heartbeat, hence not claimable. The range of
  `in_flight` needs `Counted`: it is the cardinality of the set of workers
  between raising and lowering it, together with those that died there.
  `NothingDropped` needs somebody who is left for every task (`Kept`, as long as
  no worker died): one that will claim it and whose scan has not passed it, one
  that has it in its hands, or one on its way to report it. `ReportIsTrue` and `MergesAreReported` add
  what a worker between an outcome and its report knows (`Agreed`, `Merging`).
- `SidecarLifecycleProofs` (`SetupAssumption`, `CapAssumption`,
  `BoundAssumption`): `LifecycleTypeCorrect`, which includes that no queue
  exceeds its capacity; `StatusIsTrue`, that the status follows the newest
  engine. The strengthening `GenerationsInOrder`: generations are given out in
  order and no reader is ahead of the status.
- `SubagentBuildProofs` (`PlanAssumption`, `BudgetAssumption`):
  `BuildTypeCorrect`; `RedStopsTheChain`; `EvidenceBehindWalls`;
  `FixLoopsConverge`; `ContractKept`, the refinement of `BuildContract`;
  `CancelStopsTheBuild`, how much of a build outlives a cancel.
  `Typed` adds to the types that a loop is entered below its guard and measured
  below its stall limit (`Shaped`), and at which steps a seat can be at work
  (`Seated`). `Matrix` says that exactly the rows below the current
  task are final and that a row which is not red rests on earlier rows that are
  not red; this is what makes the transitive rule inductive, whose witness is
  the set of rows that are not red. `Positions` ties the program counter to the
  matrix, `Walls` to the history of validation and review. `Ratchet` bounds the
  charged cycles by the rank of the best product seen; it needs one more cycle
  while a seat's work has landed and is not yet measured. The refinement is
  proved action by action from `Typed`, `Matrix` and `Positions`. For the cancel
  `Counted` says that nobody ended late before it was asked for, and that the
  seats that ended late and the one at work are at most one together: a seat is
  dispatched only before the cancel.
- `AgentLoopProofs` (`LoopAssumption`): `LoopTypeCorrect`; `SavedTalkCharged`;
  `BudgetSurvives`; `SuccessAudited`; `ProtectedFilesRestored`.
  `LoopInv` adds to the types the shape of the control state (`Shape`), that an
  answer is charged before it exists (`Charged`: in the count in force or among
  the charges dropped by a resume), and that the count in memory is ahead of the
  saved one by at most the calls of one turn (`Ahead`). `Metered` is the budget with the count in force instead of the limit: the limit alone is
  not inductive, because a crash falls back to an older count.
- `SidecarCancelProofs` (no constants): `WorkersAreDiscarded`;
  `ToldCancelSurvives`; `CancelledRunStaysQuiet`. TLC explores this module
  completely, so the proof adds no generality but the argument: a worker that was
  told has the flag, and the marker as soon as the reader has written it, or its
  run is over (`Told`); a marker is removed only by a handler whose terminal
  status is on disk (`Mirrored`, `FirstGate`) or by a reader that withdrew the
  answer first (`Withdrawn`); hence the marker outlives everything but the end of
  the run (`Remembered`), and a request that begins later finds the one or the
  other (`Harmless`).

Only model-checked: all liveness (`CrashNeverDeadlocks`, `EndsOrDies`,
`PendingReleaseResolves`, `InFlightCancelEnds`, `ReplacedEnginesEnd`,
`NeverBlind`, `BuildEnds`, `LoopEnds`), which is out of the prover's reach
together with `ENABLED`. Every invariant and every action property of a passing
run is a theorem. What a recursive definition computes for every
input cannot be proved with this prover; no module has one.

## 6. Not modelled

The project models the part of the repository in which several actors share
state or durable state outlives an actor: about a twentieth of its lines. The
rest is mostly one of the following, and a state machine of it would say nothing
a unit test does not:

- text: prompts, templates, stack definitions and generators (`stacks.py`,
  `generation.py`, `agent_dispatch.py`), panels and reports;
- predicates over files: governance rules, secret and quality scans, policy,
  packet and plan parsing. Where a modelled action consults one, its answer is a
  choice;
- drivers that run the program from outside (`scripts/`, CI, benchmarks);
- sequential CLI pipelines: `delivery.py` and the older orchestrator,
  `repair_loop.py`, the wave engine, whose steps call what is modelled here;
- network services: the dependency broker and proxy, the providers;
- small files set and read by one actor (pause markers, sessions, tenants,
  projects), and the frontend's reducers.

Inside the modelled components the following is left out: failing writes of
`delivery.json`; the audit chain and the git calls of the finalizer, which
appear in `GateWalk` only by what the walk sees of them; the first commit of an
empty repository; the parsing of plans and reports; the test weakening guard.
The notes in `PROJECT.json` say this component by component.

## 7. Plan

Done, in this order: `DeliveryLock`, `GateWalk`, `WorkerPool`, `SidecarCancel`,
`SidecarLifecycle`, `SubagentBuild` with `BuildContract`, `AgentLoop`, the
worktrees in `WorkerPool`, the finalization lock in `DeliveryLock`, and the
theorems above. Next, by importance:

1. A refinement of `GateWalk`: an abstract walk (sign, waive, reopen, ship) that
   the durable checkpoint implements through every crash, and its proof from
   `DeliveryInv`.
2. `ReleaseFinalizer`: `finalize_g5_release` with two trees (sources and
   release tree), seal, staging, commit, push with a timeout after success;
   `GateWalk`'s `StageAndCommit`, `Push` and `ShipFails` as its abstract
   specification.
3. The lock with no owner in `SidecarCancel` (`ipc` 1677) as a property of its
   own.
4. `AuditChain`: append, hash chain and replay.
5. `WaveEngine`.

Runs stay one per question; where a new module answers an old question in more
detail its run takes the old one's place.

## 8. Running it

    tlc -config MCGateWalk_ship.cfg MCGateWalk
    tlapm GateWalkProofs.tla

Each run takes between seconds and under three minutes with two workers, each
proof module a few minutes at most.
