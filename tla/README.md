# KernelGYM in TLA+

KernelGYM evaluates GPU kernels as a service. An HTTP API turns a request into a workflow, the
workflow submits tasks to Redis, GPU and CPU worker processes take the tasks, a GPU worker runs
each in a CUDA child process from a warm pool, and a monitor supervises the workers. Redis is the
only shared store; every decision that must be atomic is a Lua script. What is hard about the
program is what happens between two scripts: processes die, replies get lost, leases expire,
operators cancel, GPUs fault.

These modules model that part. `src/...` below is the repository.

## Inventory

| Component | State | Operations | What makes it correct | Module |
|---|---|---|---|---|
| GPU task store: Lua scripts in `server/task_manager.py`, `server/workflow_lifecycle.py` | task hash (status, `assigned_worker`, `claim_*`), queues `resource:gpu` and `worker:<id>`, lists `inflight:<worker>`, tombstones, cancel markers | submit, force-refresh, claim, mark, return, acknowledge, requeue, freeze, finalize, cancel, queue-wait requeue | a task is in one place; a claim can be recovered; nothing fenced starts; a result is final | `TaskStore` |
| GPU worker, `worker/gpu_worker.py` | current and retained task, running/stopping flags, remembered claim tokens | processing loop, `_process_task` and its exception paths, containment, `stop()` | a task runs on one GPU at a time; no outcome while a child may be alive; every claim is resolved | `TaskClaims` |
| Subprocess pool, `worker/subprocess_pool.py` | idle/busy/retiring children, pending replacements, pool generation, health, tickets | execute, return, retire, replenish, recover from a fault, shut down | capacity accounting; no child untracked; the validation context is alone; "safe" means all reaped | `WarmPool` |
| Proof that a child is gone, same file | `/proc` tree of a session, `_STARTING_` and `_ACTIVE_WORKER_IDENTITIES` | attest, freeze, audit, kill, verify, forget | nothing that could be seen survives a proven reap; PIDs given out again are not mistaken | `ChildReap` |
| CUDA child and evaluation pipeline, `subprocess_pool.py`, `toolkit/kernelbench/pipeline.py`, `correctness.py` | task and result channels, CUDA context, trial counts | handshake, task loop, stages, trials, commit barrier, grading | no ordinary result after a fault; a verdict rests on trials; an answer is the task's own | `CudaTask` |
| Worker monitor, `worker/worker_monitor.py` | process maps, restart queue, restart budgets, expectations | check, restart, kill and drain, spawn, reconcile a dead generation, quarantine | no replacement beside a live CUDA child; bounded restarts; stale requests do nothing; no worker forgotten | `Supervision` |
| Quarantine latch, `utils/gpu_quarantine.py`, `page_user_notifier.py`, `scripts/manage_gpu_quarantine.py` | durable files, Redis hashes, notification state | write, read (merge, repair), claim and finish a notification, clear | fails closed; a cleared latch stays cleared; one page | `QuarantineLatch` |
| Workflow lifecycle, `server/workflow_lifecycle.py` with `api/server.py::_execute_workflow` and `server/scheduler.py` | parent hash, result hash, lease, deadline, active index, children set | accept, renew, run, wait, finish, reconcile, watch | one outcome per generation; every generation ends; the answer belongs to the request | `WorkflowLifecycle` |
| KernelBench controller `workflow/kernelbench.py`, reference cache, CPU worker `worker/cpu_worker.py` | stage results, cached timings, CPU queue, task in hand | handle_request, get/put/preload, pop, mark, compile, complete, discard records | artifact and kernel on one host; a timing belongs to the code; a compile task is lost only with its worker | `Evaluation` |
| Worker registry and balancer, `TaskManager` | worker hashes, round-robin index | register, heartbeat, select | only fresh workers are chosen | selection in `Evaluation` |
| API server, node allocation, `api/server.py` | node maps | endpoints | a node name has one host | not modelled |
| Code retry manager, `server/code_retry_manager.py` | retry counts, sorted-set queue | schedule, get ready | no caller; only its string classifier is used | not modelled |
| Service CLI, `cli/service.py` | process ids | preflight, start, shutdown | GPU workers stop before Redis | not modelled |
| Compilation backends and measurement tools | compile cache with file locks | compile, run, profile | numeric | not modelled |
| Error classification, schemas, settings | none | string and data handling | out of scope | not modelled |

Components interact through Redis, except: the GPU worker calls its pool; the pool starts the CUDA
child and talks to it over two channels; the monitor signals worker processes; the API server starts
one controller coroutine per generation it owns; the latch also lives in files shared by the
processes of a host.

The behaviours that are hard are listed, line by line, under `hazards` in `PROJECT.json`.

## Modules

| Module | Stands for |
|---|---|
| `TaskStore` | the Redis records of tasks and every script on them, one atomic operator each |
| `TaskClaims` (EXTENDS `TaskStore`) | GPU worker processes around the store: gate, recovery, claim scan, execution, commit, containment, shutdown, crash, supervision |
| `ExclusiveExecution` | what store and workers promise together; `TaskClaims` implements it |
| `WarmPool` | the pool of CUDA children of one worker process, its threads and its shutdown |
| `CudaTask` | one CUDA child, its handle, and the evaluation of several tasks in it |
| `ChildReap` | the process table of a worker's session and the proof that a child is gone |
| `Supervision` | the monitor over the generations of one worker process |
| `QuarantineLatch` | the latch of one GPU in files and Redis, its notifications and its clear |
| `WorkflowLifecycle` | one workflow parent id: requests, controller, lease, deadline, reconciliation, waiters |
| `Evaluation` | KernelBench evaluations over hosts, CPU compile workers, GPU workers and the reference cache |
| `MC<module>` | constants for TLC |
| `TaskClaims_proofs` | theorems: types of store and worker processes, claims, fences, tickets, waiting tasks, exclusive execution, and the refinement of `ExclusiveExecution` |
| `WarmPool_proofs`, `ChildReap_proofs`, `WorkflowLifecycle_proofs`, `Evaluation_proofs`, `Supervision_proofs`, `QuarantineLatch_proofs`, `CudaTask_proofs` | theorems: the types and all safety properties of the module |

How they fit: each module keeps its own component in full and its neighbours as an assumption that
another module is about. `TaskClaims` takes from the pool that a task ends when its child's fate is
known (`ChildDone`, `PoolShutSafe`, `ReapUnproven`), which is `FaultIsContained` and
`SafeShutdownIsEmpty` of `WarmPool`; `WarmPool` takes from a handle that a proven reap leaves nothing
(`Reap`), which is `ReapIsComplete` and `CrashedLeavesNobody` of `ChildReap` with their exceptions, and the grade of a fault, which is
`SeverityIsTrue` of `CudaTask`. `TaskClaims` takes from the monitor that there is one process per
worker id and that a session is drained before the next, which is `OneGeneration` of `Supervision` but for a
`lost` generation: an unproved drain of `TaskClaims` always latches the GPU, and the monitor's may fail to.
Both take the latch as one value, which `QuarantineLatch` justifies with `AdmissionIsClosed`.
`Evaluation` takes of a parent that it is open or ended, its lease and its marker, whose handling is the
subject of `WorkflowLifecycle`, and a GPU run as one piece, the subject of `TaskClaims`. These links are read, not checked: the modules are not
composed, since each is near the limit of what TLC enumerates.

### TaskStore

`status`, `assigned` and `claim` are fields of the task hash; `queue` and `inflight` the lists;
`tokens` counts the uuids drawn; `tombstone` is the set of ids with a `cancelled:` key; `parent`
reduces the workflow parent of `Children` to open (the guard lets it act), lapsed (a lease,
deadline or tombstone forbids it) and ended (its terminal commit ran). `Allowed` is
`WORKFLOW_GUARD_LUA`, `CancelMarked` the marker check of the worker. Queues are sets: each push
follows a removal of the same id in the same script, and no property depends on the order.

Scripts with several exits are split where the caller behaves differently (`MarkProcessing` and
`RefuseProcessing`, `MayFinalize` and `FinalizeTask`), and kept in one operator where it does not
(`RequeueTask`, `CancelTask`).

### TaskClaims

`gw[w]` is the process behind the stable worker id `w`. It has two coroutines: the processing loop
(`pc`) and `stop()` (`stop`). An action is the code between two awaits on Redis or on the pool, so
the coroutines of one process, the other workers and the control plane interleave as they do on an
event loop. `held` is `_task_claims`, `current` is `current_task`, `retained` is
`_shutdown_retained_task_id`, `deferred` the local `deferred_claims`.

`live[w]` is the set of tasks that a CUDA child on `w`'s GPU *may* be executing. It outlives the
process: after `Crash` it stays until the supervisor proves the session drained (`ProveDrained`) or
latches the GPU (`DrainUnproven`). `latch` is the set of workers under a physical quarantine.

Three assumptions are part of the model. There is one live process per worker id (the supervisor's
`_kill_worker_process` before every spawn). There is one key prefix. Redis failures are modelled
where the code has a path for them: terminal writes, the freeze, and the failure write of `stop()`.
`SlowRedis = FALSE` adds that a reply is not lost after its commit, and that the loop's reads
between the end of a child and its commit finish before `stop()` has reaped the pool; with
`SlowRedis = TRUE` both may happen.

Left out: the 32-id and 200-id scan limits (a scan takes any number of ids), TTLs of task records,
the failure of reads, the health states of the pool other than latched, and the pair
`LREM`/`HGETALL` of recovery, which is one step because a token never returns.

### WorkflowLifecycle

`rec`, `result`, `lease`, `active` are the parent's keys; `req` is each HTTP handler, `run` each
controller coroutine; `verdicts` are reconciliations that have read and not yet committed, which
the watchdog, status queries, waiters, `cancel_task` and a second server all make. `log` is a
history: the content each generation was accepted with and the outcomes committed for it. Time is
two nondeterministic steps, `LeaseExpires` and `DeadlinePasses`. Pending and processing parents are
one status, `active`, since every script treats them alike; failure reasons are merged. A child is
reduced to what its parent reads, and `WorkChild` lets it do what `TaskClaims` lets a task do.

### WarmPool

`pool` is the pool's lists, counters, epochs and health in one record; `tickets` are the active
replenishment tickets, `thread[k]` the thread that constructs child `k` with the callback that
registers it, `call[c]` the coroutine in `execute_task`, `stop` the one shutdown. `proc` says what of
a child's process tree may exist: an `"exited"` or `"stillborn"` child has no proof yet that its tree
is empty. A step is a section under `pool.lock`, the end of a blocking shutdown or constructor, or the
end of a wait; `Reap(S, ok)` is the shutdown of several children side by side of which `ok` are proven.

`Task(c)` is `_get_idle_worker`, `execute_task` with its exits (result, retirement, context fault,
device fault, time-out, crash), context-fault validation and hard recovery; `Replenish(k)` is
`_ensure_capacity_locked` and its threads up to back-off and `_mark_failed`; `Stop` is
`_shutdown_once`.

Abstractions: one coroutine calls the pool, because `GPUWorker` runs one task at a time. Callbacks the
event loop refuses, spawn slots of the host, statistics, the zombie reaper thread and the top-up of the
health poll are left out, and so is `_contain_unexpected_hard_recovery_failure`, the path for an
unexpected exception. A constructor that fails before a fault with an unconfirmed reap
does not suppress the fresh probe (`subprocess_pool.py:2802`): that is `"stillborn"` in `ProbeIsAlone`.
`MaxGen` bounds the pool generations in which a new fault appears.

### CudaTask

`par` is `PersistentWorker` with its `execute_task`, `child` is `_persistent_worker_loop` with the task
in it, `inq` and `pipe` the two channels, `ctx` the CUDA context of the child. A fault is asynchronous:
`ctx.fault` is set when a kernel runs and is met at whatever call synchronizes next. A text is reduced to
the class that its markers give it (`_classify_cuda_fault`); `out` is what the pool is told.

The stages of `pipeline.py` are one action each: reference, candidate, trials of `correctness.py`,
decoy and Triton checks, performance, memory, then the cleanup and the commit barrier. Compilation and
measurement are outcomes of their stage, and NCU profiling is merged into the last one. Left out: tasks of
type `evaluation`, malformed channel messages, the order of trial kinds other than that each fourth has no
perturbation. Running out of budget or stopping early is a choice. `Recycle` is the pool's proven reap.

### ChildReap

`proc` is the process table of the worker's session: state, pending signal, parent, group and the
start ticks that tell two processes of one PID apart. `hnd` is each `PersistentWorker` handle with its
constructor and shutdown, `freeze` its pass of `_freeze_worker_process_tree`, `starting` and `active`
the two registries. Processes fork, take a group of their own, exit and are collected between any two
steps; a signal to a process that is stopping lands late. `MaxBorn` bounds the processes,
`MaxMisses` the deadlines that pass.

A PID may return, even while it is used as a group id, but not between `Process.start` and the
identity read, which the code assumes too. Nobody joins another
child's group; sessions left with `setsid`, the resource tracker and `SIGCONT` are out of scope, as
`docs/design-doc/GPU_FAULT_CONTAINMENT.md` says of the first.

`_snapshot_linux_processes` lists `/proc` and then opens each entry. The audit after a crash stops nobody,
so it is modelled that way: `List`, one `Read` for each entry, in any order, into `look`, and the verdict
`Audit`, which starts over if it met somebody it does not know. The listing itself is one step. In the
freeze listing and reading are one step (`Snapshot`): a freeze counts only when two passes agree, and by
the second listing the group has its stop signal and everybody the first pass marked is stopped. A child of
one of them was therefore forked before that listing and is read, unless it has ended; what it left then is
an orphan, `Hidden` whether or not its entry was read.

`of` and `cut` are histories. `of` is the handle whose child founded the family. `cut` marks whom a proof
does not promise about. For the audit (`CrashedLeavesNobody`, where the verdict sets it afresh) that is `Missed`: a process
forked after the listing, by one that ended before its own entry was read, or read below a PID that
changed hands after the listing. It is met, see `unread_fork` below. For the freeze (`ReapIsComplete`) it is a process, and what it forks, that had no ancestry to the leader
and was outside of its group when the freeze was complete (an orphan in a group of its own), and one that
was given the leader's own PID during the freeze. The second needs four processes, the leader ending after
the first `killpg` and an orphan that forks: the passes then look at a group that has changed hands. The
run, with three, does not reach it; a larger instance does, and the proof needs it excluded.

### Supervision

A generation is one worker process: its leader and the CUDA children in its session. `sweep` and
`restart` are the two coroutines of the monitor, with the point they are at and what they have read;
`map`, `beat` and `budget` are in Redis, `queue`, `inProgress` and `held` in the monitor. `SweepStep` is
the health check and the persistent expectation, `RestartStep` the restart loop with budget, kill, drain
proof, spawn, cleanup and recovery watch, `Time` heartbeat age and key expiry, `World` the worker, the
kernel and the operator. `"reused"` is a PID that another process has, `"usurped"` one whose new owner
leads a session of that number. `unproven` is a history: the processes started since the last evidence
of recovery. The code means it to stay within the attempts; after an operator's clear there may be one
more (`extra_restart` below), and that is what `RestartsAreBounded` says.

The handle `held` goes as soon as the leader is waited for (`Collect`, `Looks`, `ExamineMapped`), in the middle
of a stop as well, when nothing is proved of the session yet. So a cleanup after a failed registration may end with
neither map entry nor handle, and then the session has only its physical latch; if Redis and the file refuse that
too, a later kill finds nothing to prove (`worker_monitor.py:2339`) and spawns beside it. `lost` names these
generations: `SessionIsAccounted` and `OneGeneration` say that nothing else puts a session out of sight, and
`FailsClosed` is the claim without the exception (`second_session` below).

Assumptions: the sweep does not stay inside one worker for the five seconds of a restart
(`SweepIsQuick`); a leader is a zombie only while it is the monitor's child; what has become of a PID is
followed as long as the map names it; the operator's clear keeps the guards of the script. The monitor does not crash and Redis keeps its process map. A latch that the worker
writes is a physical one.

### QuarantineLatch

`file` and `redis` hold a replica of the device's record and one per worker; `lock` is the device lock;
`loc[a]` is the coroutine of a process or a monitor with the record in its hands. `Writes` is
`write_gpu_quarantine`, `Reads` is `read_gpu_quarantine` with its repair under the lock, `Notifies`
claim, page, outcome, durable mark and restored mark, `Clears` the operator's script, `Crash` and `Lose`
the ends of a process and of Redis' memory. `held`, `cleared` and `delivered` are histories.

Only records that carry a scope and an event id are modelled, on one GPU; the alias scan of the clear
before its lock and the guards of the command line are left out; the back-off between pages is a choice.
`BlindSpec` adds monitors that read without a device, which the code does when a process entry is gone.

### Evaluation

`ctl[x]` is the controller of a generation, `child` the records of its children, `cpu` and `gpu` the
queues, `worker[v]` a CPU compile worker with the task and the deferred tasks in its hands, `memory` and
`redis` the reference cache, `artifact` the host that holds what was compiled. `Controls` is
`handle_request` with its split stages, `Compiles` the loop of `cpu_worker.py` over `get_next_task`,
`Start`/`End` a GPU run, `DiscardRead`/`Discard` the cleanup of a speed test.

A parent ends in two steps, as in the code. `Lapse` (lease or deadline) and `Cancel` (the marker) close the guard of
its children, `Allowed`; its children stay `pending` until `Fail` or `Commit`, the finish script, ends them. In
between a worker may pop such a child and drop it: `Scan` at the marker, `Mark` at the guard, `Skip` on the GPU side.
A completion of the compile worker is one unconditional write; if its reply is lost (`unsure`) the worker's
`except` path writes a second time (`Recompile`).

Generations are uuids in the code and numbers here. The cancellation of a child by a client, refused requests, prefixes of older releases, expiry of
records, the queues of single workers and `kernel_simple` are left out. Which heartbeats are fresh is any set.
A cached entry always carries usable figures, and a dataset entry always names its code.

### Mutants

Every property has one: an operator named `<definition>_<fault>` beside the definition it replaces, with
the mistake its comment states. TLC refutes the property with each of them.

## Runs

All bounds are constants of the cfgs.

| Run | Checks | Instance |
|---|---|---|
| `claims_one_worker` | ClaimOwnsTask, ClaimIsRecoverable, PendingIsQueued, ExecutionIsFenced, NoStartAfterFence | one worker, three instances, three claims, a standalone task that suits no node and a workflow child, `SlowRedis` |
| `claims_two_workers` | ImplementsExclusive | two workers compete for one task, two instances each |
| `claims_resolved` | ClaimIsResolved | liveness of one worker and two tasks, of which one suits no node and is deferred; two claims, two instances |
| `warm_pool` | SafeShutdownIsEmpty, ProbeIsAlone, HandlesAreKept, CapacityIsBounded, FaultIsContained | pool of two, four children, faults in two pool generations |
| `pool_settles` | RecoveryEnds, PoolRefills | liveness of a pool of one with three children |
| `cuda_task` | SeverityIsTrue, AnswerIsOwn, RightIsEarned | three tasks of five trials |
| `child_reap` | ReapIsComplete, CrashedLeavesNobody, ServingIsRegistered | two handles, three PIDs, three processes, one missed deadline |
| `supervision` | OneGeneration, SessionIsAccounted, RestartsAreBounded, OnlyTheDeadAreReplaced, WorkerIsServed | three generations, one restart attempt, two faults, one clear; liveness included |
| `quarantine_latch` | AdmissionIsClosed, OnePagePerGeneration, ClearedStaysCleared | two workers, a process, a monitor and an operator, two latches, one fault; readers that know the device |
| `parent_two_requests` | FirstCommitWins, ActiveIsFollowed, AnswerIsTheOutcome, PendingChildHasParent | two requests, so up to two generations |
| `parent_two_stages` | NoSuccessAfterFence, EveryParentEnds, EveryWaitEnds | two stages, whose children can be deleted on their own; liveness |
| `evaluation` | ArtifactIsLocal, ReferenceIsOwn, AnswerIsOfGeneration, OnlyTheDeadLoseTasks, NothingIsResurrected | two requests on one problem with different references, one asked again; two hosts, compile workers and servers; one fault: a lapse, a cancellation, a lost reply, or the end of a worker or server |

Deadlock checking is off where a system that has used its bounds, or its last generation or task, may stop;
`quarantine_latch` keeps it on.

Why the bounds are enough. The store treats tasks independently, except in a scan, a recovery pass
and a parent's end; two tasks make each of those meet a second one. Two workers make every race for
a task. A second instance meets what the first one left, a third meets what a failed recovery left;
with three claims a task can be claimed, lost and claimed again beside another. Two requests give a
generation a predecessor. `claims_two_workers` has one task because its properties speak of one task
and several GPUs. A pool of two has a child that is innocent of the other's fault, and a later
pool generation has threads of an earlier one that finish late. Five trials contain one without a
perturbation between those with; a third task meets a child that has been recycled. Two handles with
three PIDs let one child's number be given to the other and to a process it forks. Three generations let a
request name the first, and be served when the second is gone; two faults let a registration fail and the latch after it. Two latches are one that is cleared and the
next; a process and a monitor on different workers are the two that may race the operator. `evaluation` has one
fault, so two of them together (a lapse and a worker that ends) are covered by its theorems only, which have no bound.

### Fairness

`TaskClaims!FairSpec`: weak fairness of a process's own coroutines (asyncio runs what is ready, and
each task has a timeout), of the start of a process and of the drain proof or latch (the monitor's
loop retries). Nothing is assumed of signals, crashes, operators or clients. `Execute` is fair as a
whole: which way a task ends is not chosen by fairness. `ClaimIsResolved` makes two
exceptions: a latch, because a quarantined GPU waits for an operator, and a claim that its live process has forgotten
(`Forgotten`), because the return of another deferred claim raised; the run meets that case, and shows that the claim
is resolved once the worker is replaced.

`WorkflowLifecycle!FairSpec`: the deadline passes, some server's watchdog keeps looking
(`watch()` catches every exception and loops), and a handler whose server lives keeps polling
(`wait()`). Controllers are not assumed to make progress; the deadline replaces them.

`WarmPool!FairSpec`: the coroutine of a task, each constructor thread and the shutdown go on (each
blocking call has a deadline in the code). Nothing makes a task fault, a child exit or the pool close, and
neither a drain nor a constructor is made to time out: `RecoveryEnds` holds without the deadlines.

`Supervision!FairSpec`: both coroutines run (each is a loop that catches what it meets) and a heartbeat
that nobody writes grows old. The worker, the kernel and the operator owe nothing. `WorkerIsServed`
makes an exception while the PID of the last leader is another process's, see `reused_pid` below.

## What is proved

With `tlapm`, from the ASSUMEs of the modules only: for all sets of tasks, workers, requests, servers,
agents, children and process numbers, all plans and affinities, and all bounds. Three theorems about `TaskClaims` have a
hypothesis besides, given with them. Every theorem with `[]` follows from an inductive invariant `Inv`
by `Init => Inv`, `Inv /\ [Next]_vars => Inv'` and `Inv => property`.

Some assumptions only say what a name is not: `Nowhere \notin Hosts` (`Evaluation`; the code's `None`, no
node chosen), `Nobody \notin Agents \cup {Operator}` (`QuarantineLatch`; a lock that is free), and in
`WarmPool` and `ChildReap` that no task, child or PID is `None`, no PID is `Outer` (the
GPU worker itself), and a task is not a child.

### Store and workers

The scripts are few and the actions many, so each proof goes through `StepMoves`: a step of
`TaskClaims` is one of a handful of moves of the store (`StoreMove`), and each move keeps the invariant.

| Theorem | Inductive invariant, and why the property alone is not inductive |
|---|---|
| `TypeCorrect`: `TypeOK` | `Typed` adds `HandsFull`: a process between claim and release has a task in hand, else its next script would be called for nobody |
| `ClaimsOwnTheirTasks`: `ClaimOwnsTask` | `AllSafe` adds what the scripts rely on: a claim names the queue it came from, an unclaimed task waits in the shared queue or its worker's and not in both, an id without a hash waits nowhere |
| `ClaimsAreRecoverable`: `ClaimIsRecoverable` | inductive over the moves: an entry leaves `inflight` with its claim, or when its token is superseded |
| `NothingStartsAfterFence`: `NoStartAfterFence` | only `MarkProcessing` raises the status, and its guard is `Allowed` |
| `TicketsAlways` | a token that is remembered was drawn, for that task and that worker; tokens do not return |
| `PendingTasksWait`: `PendingIsQueued` | `Waits` with the tickets: the one script that drops a claim without a queue, `AckClaim`, is called only for a task that was dead when the worker looked and can no longer run (`AcksOK`) |
| `ExecutionStaysFenced`: `ExecutionIsFenced` | `Orderly`: the marks `current` and `retained` agree with where both coroutines are (`MarksOK`), the process holds the claims it works under (`HoldsOK`), a child is alive only where its claim is left alone (`LiveOK`) |
| `ExecutionIsExclusive`: `ImplementsExclusive` | `Orderly` again: every step of `TaskClaims` is a step of `ExclusiveExecution` or a stutter. "Nobody executes it" of a terminal write follows from `LiveOwned` |

`ExecutionStaysFenced` assumes `Apart`: one worker, or no `SlowRedis`. It is false with two workers and
lost replies, which `late_failure` below shows. `ExecutionIsExclusive` assumes `~SlowRedis`: with lost
replies `second_outcome` below replaces a published outcome. Both are as the runs
have them (`claims_one_worker` with `SlowRedis`, `claims_two_workers` without). An intermediate
fact is that a step of another worker cannot touch what a worker holds (`Undisturbed`): every script
compares the token, and the unclaimed pipeline is out of reach of `~SlowRedis`.

### Workflow parents

`LifecycleTypes`, `OneOutcomeWins` (`FirstCommitWins`), `OwedIsFollowed` (`ActiveIsFollowed`),
`PendingChildrenHaveParents` (`PendingChildHasParent`), `AnswersAreOutcomes` (`AnswerIsTheOutcome`),
`NoLateSuccess` (`NoSuccessAfterFence`). The types already need an argument: a generation is created by a request
that has not been accepted before, so generations and unaccepted requests together are at most the
requests (`Budget`, by cardinality). `LogOK` then ties the record to the history: an accepted generation
is the active one and owes an outcome, or has exactly one. The parent's keys change in five ways
(`ParentMove`), and outcomes are only added, so answers stay right.

### Evaluation

`EvaluationTypes`, `KernelFollowsArtifact` (`ArtifactIsLocal`), `ReferenceStaysOwn` (`ReferenceIsOwn`),
`AnswersStayApart` (`AnswerIsOfGeneration`), `WaitingTasksAreKept` (`OnlyTheDeadLoseTasks`),
`RecordsStayWhole` (`NothingIsResurrected`). `Inv` has a part for each thing that is shared: a controller
acts for the generation in force only, and what it timed is of its own code (`RunOK`); a child record is
whole or absent and names its generation (`ChildOK`); a compile worker has in hand what it took
(`WorkerOK`) and no two work on one task (`Alone`);
what a cleanup or a lost reply named belongs to a generation that is over (`EndOK`), and a guard once closed stays so
for its generation, which is why a dropped child never counts as waiting again; a cached entry's hash is of the code it was timed
with (`EntryOK`); from the choice of a node to the kernel's submission, compile child, artifact and target name
one host (`SplitOK`).

### Supervision

`SupervisionTypes`, `SessionsStayAccounted` (`SessionIsAccounted`), `GenerationsStayApart`
(`OneGeneration`), `RestartsStayBounded` (`RestartsAreBounded`), `NoLiveReplacement`
(`OnlyTheDeadAreReplaced`). `Sight`: generations are born in order, map and
retained handle name one process between them, a spawn finds both empty, and a leader that runs is under one of
them (`Led`), so that a physical latch can be lifted, without children on the GPU, only from what has no process.
The first two theorems except `lost` generations, as their properties do. `Recovery`: processes
without evidence plus the attempt under way are within the budget spent, exactly before the first clear
(`Owned`, because `restart_in_progress` then has one owner), and by one more after it. `Careful`: a
request that skips the recovery check names a leader that has ended, and the dead stay dead.

Proving `RestartsAreBounded` refuted its earlier form, at most the attempts, which the small instance of
the run satisfies; a fourth generation shows the extra restart (`extra_restart`).

### Quarantine latch

`LatchTypes`, `AdmissionStaysClosed` (`AdmissionIsClosed`), `ClearIsFinal` (`ClearedStaysCleared`),
`PagesAreSingle` (`OnePagePerGeneration`), for readers with a device (`Spec`; `BlindSpec` is what `revived_latch` refutes).
The lock's holder is the only agent whose record may
still be written (`Owners`). Each generation has one scope and, as a latch of a worker, one worker:
the invariant claims two functions `S` and `O` that say so and that files, hashes and hands agree with (`Named`); a new
latch extends them. A record in any replica is of a generation not reported as cleared. An
acknowledged latch is in the device's file (`Acked`), and the files are read before anything else is
believed. A delivered page is recorded in the files or about to be, by the one holder (`Pages1`), is in
no hash a reader could restore it from (`Pages2`), and is not in a hand that would page it again (`Pages3`).

### CUDA child

`CudaTypes`, `SeverityStaysTrue` (`SeverityIsTrue`), `AnswersStayOwn` (`AnswerIsOwn`), `RightStaysEarned`
(`RightIsEarned`). `ChannelsOK` says for each point of the child what its channels may hold: a child with a
task in hand has empty ones and sends one message for it. So a handle that waits (`RunOK`) finds the answer to its own
task, and its counts agree with the child's. `ContextOK`: a child that takes tasks has a context without a
fault. `ErrorOK`: a barrier that was crossed left nothing, and an error called final is the one of the last
synchronize. While the pool relies on what it was told, the child is at rest and the context cannot change
(`OutcomeOK`). All stages of an evaluation are one kind of step to the channels (`StageMove`); through the
trials, `passed + skipped = run` holds exactly as long as there is no mismatch (`TrialOK`).

### Warm pool

`PoolTypes`, `PoolNeverOverfills` (`CapacityIsBounded`), `PoolKeepsHandles` (`HandlesAreKept`),
`ProbeRunsAlone` (`ProbeIsAlone`), `SafeShutdownLeavesNobody` (`SafeShutdownIsEmpty`), `FaultsAreContained`
(`FaultIsContained`). `PoolInv` carries:

- `Roles`: each child is held by one holder: idle and busy children are members, and a child that a
  coroutine, a constructor thread or a probe has in its hands is in nobody else's. `NewIsUnknown` and
  `NewIsStarting`: a child under construction is in no set that somebody is shutting down.
- `Shapes`, `Ticketed`: what the coroutines, the threads and the shutdown have in their hands at each point;
  each constructor, retirement and recovery under way has its ticket, of no future generation.
- `RetireIsCounted` (within `Typed`): the retirement counter is the number of children that coroutines still
  owe it, each counted once, so a late return never takes it below zero.
- `Fits`: members and pending replacements are at most the size of the pool. A new pool
  generation starts with no pending replacement, or with that of its recovery in an empty pool, and a thread
  of an older one gives nothing back.
- `EmptyWhenDown`, `QuarantineLasts`, `QuarantineIsOld`, `EpochsOK`: a pool that is closing, suspect or
  quarantined has no members, a failed proof leaves it quarantined, and what began before the quarantine or
  in an earlier epoch can tell that it did.
- `ValidationOK`, `FaultsOK`, `RecoveryOK`, `ContainmentOK`: one validation at a time and generation; a
  fault of an earlier epoch was contained or is about to be; constructors and retirements under way during
  a recovery are older than it; every child that may run is in the set under containment or in the hands of
  an older constructor or retirement, for which the recovery waits.
- `AllHandled`, `ShutdownOK`: every child with a process has a handle that the pool, a coroutine, a thread or
  the shutdown will act on, and a shutdown that is reported as safe has waited for each of them.

Neither `ProbeIsAlone` nor `SafeShutdownIsEmpty` is inductive alone: both depend on what a constructor
that was started before the fault does with its child when it comes back.

### Reap of a child

`ReapTypes`, `ReapLeavesNobodyInSight` (`ReapIsComplete`), `AuditLeavesNobody` (`CrashedLeavesNobody`),
`ServiceStaysRegistered` (`ServingIsRegistered`). Every action does one of three things to a process
(`Evolves`): it goes, it stays the same generation with its signals pending, or it comes, as the founder of
a family or forked by one that acts. A generation that is there was there before (`SameBack`), so what a
handle has found gone stays gone. With that, `ReapInv` says for each handle:

- A parent that is there is alive and of the same family (`Families`). A registered identity is the child of
  the handle that registered it (`Registered`), so the audit, which passes over the descendants of the other
  registered leaders, passes over nobody of its own, except below a PID that changed hands after the listing
  (`KnownAreOthers`, by the closure that `Below` is, over the snapshot).
- The audit: whoever was born before the listing is to be read still, or was read as the generation it is
  (`Listed`); what was read keeps its family, and whoever has its parent's PID since the listing is its
  parent, because a parent is older than its child (`Families`, `EntryOK`): `LookOK`. A verdict then leaves
  nobody but whom it missed (`UnmissedAreKnown`, `NobodyLeft`).
- A child in service leads its group (`Attested`). The release of another handle with the same identity would
  need that group empty, or that generation gone (`AuditsTheGone`).
- The freeze: the pass has stopped the group (`GroupHalted`), what a pass found frozen stays so
  (`MarkedFrozen`), and after the snapshot a process not known has no parent among those the earlier pass
  marked (`UnknownApart`). When two passes agree, everybody below the leader is therefore known, by
  induction along the ancestry (`SettledCatches`, through the closure that `Descendants` is), and frozen, so
  it cannot fork (`Caught`); after the kill nobody of them is alive (`Cleared`). With one pass this fails at
  `UnknownApart`, which is the mutant `Settle_Once`.

`PoolInv` and `ReapInv` were also checked by TLC on the instances of the runs, and `ReapInv` on one child with
five and six processes.

### Only model-checked

- `ClaimIsResolved`, `RecoveryEnds`, `PoolRefills`, `EveryParentEnds`, `EveryWaitEnds`, `WorkerIsServed`: liveness under fairness,
  out of the prover's reach, as is ENABLED.
- That the links between modules hold (what `WarmPool` assumes of `ChildReap`, `TaskClaims` of `WarmPool` and
  so on): neither checked nor proved, see "How they fit".

## Where code and text disagree

Met while modelling. Each is a property of its module with a cfg of its own in this directory, with which
TLC finds the counterexample (`tlc -config <name>.cfg <module>`); they are not part of the runs above.

| cfg, property | Module | What happens |
|---|---|---|
| `lost_return`, OwnClaimIsAttended | `MCTaskClaims` | `get_next_task` gives back deferred claims in a `finally` block. If one was cancelled meanwhile, `_return_claim_to_source` raises (`task_manager.py:1294`, `1652`), the exception replaces the started task, and the task stays `processing` under a claim of a live process that does not execute it ("This process owns the attempt", `1435`), until the process is replaced |
| `stuck_processing`, ProcessingIsClaimed | `MCTaskClaims` | a task cancelled between recovery's marker check and its requeue (`task_manager.py:318`) loses its claim and stays `processing` with no result, "rather than leaving it indefinitely in `processing`" (`GPU_FAULT_CONTAINMENT.md:38`) |
| `second_outcome`, TerminalIsFinal | `MCTaskClaims` | a terminal commit whose reply is lost is taken for a failure; the shutdown then finds no claim and overwrites the published outcome with "Worker shutdown" (`task_manager.py:1741`), "instead of publishing an ordinary retry failure" (line 38) |
| `late_failure`, ExecutionIsFenced | `MCTaskClaims` | the same unconditional write (`task_manager.py:1685`) can hit another worker's attempt, if the task is refreshed and claimed between its read and its write; line 34: "a late result from an old process cannot complete, fail, remove, or requeue a replacement process's attempt" |
| `other_content`, AnswerMatchesRequest | `MCWorkflowLifecycle` | `accept()` decides in a script and reads the record back in a second call (`workflow_lifecycle.py:289`). If the generation it created or joined has ended and the id was refreshed with other content, the request follows the other generation and returns its result ("Conflicting content while active returns HTTP 409", `HTTP_API.md:461`) |
| `late_rewrite`, DiscardedStayAway | `MCEvaluation` | a CPU worker whose `complete_task` was written but lost its reply completes the task again in its `except` path (`cpu_worker.py:140`), without a condition (`task_manager.py:1742`); if the cleanup of a speed test has discarded the records meanwhile, a partial one comes back ("built-in service probes whose results must not become reusable result-cache entries", docstring of `discard_task_records`) |
| `ordinary_end`, OrdinaryEndIsContained | `MCWarmPool` | a failed constructor quarantines the pool before the busy children are reaped (`subprocess_pool.py:3103`); a task that times out on one of them takes the quarantine for a finished containment and ends ordinarily while its child may be alive ("Never turn that state into an ordinary retry/result", `3608`). `TaskClaims` assumes containment here (`ChildDone`); `FaultIsContained` states what remains: the pool serves nobody after it |
| `zombie_leader`, CrashIsAudited | `MCChildReap` | a crashed leader that nobody has collected counts as present, so the tree is frozen from it and not audited; what it had forked has no ancestry to it any more and outlives the proven reap ("Prove that a crashed worker left no unknown process in its outer SID", `subprocess_pool.py:438`) |
| `unread_fork`, NobodyIsUnknown | `MCChildReap` | the audit after a crash lists `/proc` and then reads each entry (`subprocess_pool.py:355`-370), and stops nobody: an orphan that forks after the listing and ends before its entry is read leaves a child that the audit never saw, and the reap is proven (same docstring, `438`) |
| `skipped_reference`, SkippedReferenceIsExcluded | `MCCudaTask` | a reference that raises under a perturbation is skipped (`correctness.py:1268`), and if it raised a sticky CUDA fault, the next trial's inputs raise it again outside of the candidate's code: the kernel is recorded as incorrect, though the perturbation is "excluded from the correctness denominator" (`HTTP_API.md:238`) |
| `reused_pid`, ExpectedWorkerRuns | `MCSupervision` | when the PID of a dead leader names another process, each request to restart the worker is dropped as stale and made again by the next sweep (`worker_monitor.py:1517`), without end; the comment at `1476` says "ensure expected workers are running even if their heartbeat keys are missing or their PIDs are dead" |
| `second_session`, FailsClosed | `MCSupervision` | a spawn that is not registered and whose stop fails loses its handle when the leader is waited for (`worker_monitor.py:2019`), before its session is proved empty; if the latch cannot be written, the next kill finds neither map nor handle, returns True (`2339`), and a second generation starts beside the living session. The comment at `741` says "Admission still fails closed because the caller refuses to delete the old PID map or spawn": it does for a registered one |
| `extra_restart`, QuarantineBeforeNext | `MCSupervision` | a sweep that reads the latch takes the worker out of `restart_in_progress` while a restart is under way (`worker_monitor.py:1380`); after the operator's clear nothing ties the flag to that restart, so an admission that opened earlier gives the budget back under an attempt already reserved, and one process more is started than "one bounded restart, or persist quarantine before attempt N+1" (`1116`) allows |
| `revived_latch`, NeverRevived | `MCQuarantineLatch` | a monitor that reads a latch without knowing its device (`worker_monitor.py:1526`) writes it back to Redis without the lock (`gpu_quarantine.py:642`), after an operator has cleared it; the comment at `638` says "a clear that won the lock can therefore never be revived by a stale pre-clear snapshot" |

## Not modelled

- Node allocation of the API server (`api/server.py:251`: check and set of a node name are separate calls).
- The stale-copy removal of the queue-wait monitor, which no task needs: one that waits is in one queue, its
  worker's or the shared one (`QueuedAtHome`, a conjunct of the invariant `Safe` proved in
  `TaskClaims_proofs`).
- TTL expiry of task records, heartbeats and statistics of the GPU worker, the round-robin index.
- The code retry manager's counters and queue, which nothing calls.
- The service CLI, which starts and waits for processes and edits the monitor's process maps once it has
  stopped the monitor; compilation backends, with the file locks of the
  compile cache, and measurement tools; error classification, schemas and settings, which keep no state
  that processes share.

## Plan

Modules: node allocation with the queue-wait monitor (small, over Redis keys only), then the compile cache and
its locks.

Theorems: every safety property that a run checks is proved. What is left is to compose: `WarmPool` with the
handles of `ChildReap` in place of `Reap`, and `TaskClaims` with an abstract pool that `WarmPool` implements.
