# FerroEdge: a TLA+ verification project

FerroEdge runs user-supplied WebAssembly on a fleet of edge nodes. A control
plane (`services/control-plane`) accepts tasks over HTTP, chooses an edge node,
sends the task by gRPC, retries, and keeps the results in memory. Each edge
node (`services/edge-node`) admits a limited number of calls, fetches and
compiles modules through a cache, and runs them in a sandbox
(`crates/wasm-runtime`). This directory models the parts of that code where
concurrency, failure and time decide whether it is right, checks them with TLC,
and proves the main results with TLAPS for every value of the constants.

## The system

| Part | State | Operations | Hard because |
|---|---|---|---|
| Circuit breaker (`circuit_breaker.rs`) | per node: state, failure count, time of last failure | `allow_request` (with a side effect), `record_success`, `record_failure` | every scheduling sweep asks every breaker; reports arrive late and out of order |
| Scheduler (`scheduler/`) | none (a cursor in `AppState`) | least-loaded, round-robin | decides on a load figure up to 10 s old |
| Node table, health checker (`health.rs`, `register_node`) | `AppState.nodes` | register, probe a snapshot, write back | probe answers are written to an entry that may have changed; registration is sent once, and a restarted control plane has forgotten it |
| Connection pool (`connection_pool.rs`) | channel per node id | `get_or_create` | channels outlive the address they were made for |
| Task dispatch (`handlers.rs`, `dispatch_task`) | `AppState.tasks` and counters; locals of each task | schedule, queue, call, retry, give up, store | one `RwLock`, many awaits, a client that may leave at each of them |
| ExecuteTask handler (`grpc.rs`) | semaphore, `NodeState` counters | admit, count in, resolve, run, count out | counters are kept by hand on each way out; a dropped call leaves a thread running |
| Module cache (`cache.rs`) | LRU of compiled modules, statistics | `get_cached`, `get_or_compile`, `invalidate` | the mutex is released during compilation |
| Sandbox (`sandbox.rs`) | one engine epoch, a store per run | `execute`, `execute_compiled` | all runs share the epoch; timers race with compilation, completion and cancellation |
| Module registry and distribution (`registry.rs`, `downloader.rs`, `/cache/warm`) | modules by name and version | upload, pre-warm, download, verify | pre-warming, downloads, expiries and restarts of either side are unordered with executions; a cache hit is not verified |
| Task API (`submit_task`, `submit_tasks_batch`, `get_task`) | none of its own | resolve inputs, dispatch or spawn, wait, answer | a bad item ends a batch after earlier items were spawned; a client may leave |

Interaction: HTTP handlers, the health checker and every `dispatch_task` share
`AppState` behind a single tokio `RwLock`; the dispatcher calls edge nodes over
the pooled channels; an edge node's handler uses the cache and the sandbox; the
health probe carries the edge node's `active_tasks` back to the scheduler.

What makes each part correct, and where it is stated:

- circuit breaker: its three fields agree, an open circuit admits nobody during
  its cooldown, whoever schedules, and is left eventually (`BreakerConsistent`,
  `CooldownHeld`, `OpenNodeSpared`, `OpenIsLeft`);
- node table and scheduler: the healthy flags and the loads settle on the truth
  (`HealthConverges`, `LoadConverges`), and what a leaked count costs
  (`LeaksShutNodeOut`);
- dispatch: retries go to fresh nodes within their limits, failures are
  justified, the retry loop cannot go round for ever, every task gets at most one final result and the counters agree
  with the results, every task settles (`RetryDiscipline`, `FailureJustified`,
  `ResultWhenDone`, `CountersAgree`, `QueuedBounds`, `ImplementsTaskService`,
  `WorkBounded`, `SettlesUnlessQueued`; `QueuedTaskSettles` and
  `RetriedCountsTasks`, refuted);
- ExecuteTask handler: the counters account for every call
  (`ActiveAccounting`, `ExecutionAccounting`; `ActiveIsCurrent`, refuted);
- module cache: bounded size, exact statistics (`TypeOK`, `BytesMatch`,
  `EvictionsExact`);
- sandbox: a run times out for a reason, and a run whose time is over ends
  (`TimeoutExplained`, `InTimeTimerEndsRun`; `TimeoutEnforced`, refuted);
- distribution: a task runs the module it names, unless another life of the
  control plane registered other bytes under that name, and a damaged download
  is never run (`HashHonoured`); the nodes come to agree with the registry
  (`RegistryPrevails`);
- task API: what has started when a request ends is known and still accounted
  for, and a request whose tasks end comes to an end (`EndedRequests`,
  `RequestsEnd`).

## Modules

| Module | Models | State and actions |
|---|---|---|
| `CircuitBreaker` | `circuit_breaker.rs` | operators on a breaker record; time is the ticks since the last failure, saturating at the cooldown |
| `BreakerClients` | one breaker in use | attempts that are admitted, then succeed, fail or vanish; sweeps for other tasks; ticks |
| `Scheduler` | `scheduler/`, the strategy switch | the set of nodes that may be picked |
| `NodeTable` | `AppState.nodes`, `health.rs`, registration in both services | `StartNode`, `Listen`, `Drain`, `StopNode`, `RegisterNode`, `LoseRegistration`, `StartRound`, `Probe`, `ApplyProbe`, `RestartControlPlane` |
| `TaskService` | what the control plane promises of a task | `Submit`, `Succeed`, `Fail`, `Abandon` |
| `Dispatch` | `dispatch_task` with everything it touches; composes `NodeTable`, `Scheduler`, `CircuitBreaker` | `pc[t]` is the await where the task's future is suspended; one action per critical section of the lock |
| `EdgeNode` | `execute_task` in `grpc.rs` | `call[c]` is the await where the call is suspended |
| `Fleet` | an edge node under the control plane's eyes; composes `EdgeNode` and `NodeTable` | calls are picked by least-loaded scheduling, arrive or get lost; the probe reports the node's `active_tasks`; the process starts, drains and stops |
| `Distribution` | `registry.rs`, `upload_module`, `warm_nodes`, `resolve_task_inputs`, `get_module_bytes`, `downloader.rs`, `/cache/warm`, the module path of `execute_task` | one `name:version`: the registry, warm requests, each node's cache entry and its age, the calls that use it; damaged downloads; restarts of either side |
| `TaskApi` | `submit_task`, `submit_tasks_batch`, what `get_task` looks at; extends `TaskService` | `req[r]` is how far the handler is, `pos[r]` the item it resolves next, `panicked` the spawned tasks whose handle yields a `JoinError` |
| `ModuleCache` | `cache.rs` | the LRU as a sequence, one action per critical section of the mutex |
| `Sandbox` | `sandbox.rs` | caller, blocking thread and timer of each run, the shared epoch |
| `*Proofs` | theorems and lemmas, see below | |
| `MC*` | values for function-valued constants | |

Definitions named `Mutant: ...` in their comment are wrong on purpose: each is
put in the place of the definition that follows it to show that a property
notices. `PROJECT.json` says which goes with which, and maps every definition
to its lines of code.

Modelling decisions that matter:

- **The lock.** Every critical section of `AppState` is one step, guarded by
  `WriteFree` or `ReadFree`. Only line 287 of `handlers.rs` holds a guard
  across an await; it gets two steps, `WakeQueued` (the read guard of the
  right-hand side) and `BlockOnWrite` (the wait for the write lock, which has
  no successor because the task itself holds the guard it waits for).
- **The pool's own mutex.** `get_or_create` is called after the `AppState` guard
  has been dropped (`handlers.rs` lines 206-207), so `CountRetry` (line 300),
  `Connect` (the read section) and `OpenChannel` (the pool) are three steps, and
  a channel may still be opened while another task wedges the lock.
- **Cancellation.** axum drops the future of `POST /tasks` when its client
  disconnects, and tonic drops an `ExecuteTask` future when its stream is
  reset. Tasks of `POST /tasks/batch` are spawned and cannot be dropped
  (`Batched`).
- **An RPC** ends in one of four ways. Success, an execution failure and
  `ResourceExhausted` need somebody who listens at the address the pooled
  channel dials (`Reached`); a transport failure may always happen. The answer
  (`Reply`) and its report to the breaker (`ReportSuccess`, `ReportFailure`) are
  separate steps: the node may be gone when its success is recorded.
- **Sleeps** (500 ms, 100 ms) are not states: a task may be delayed anywhere.
  The 1 s sleep of a queued task is a state because the gauge counts it.
- **Breaker entries** that do not exist yet are default breakers, which is what
  `entry().or_default()` makes of them.
- **A restart of the control plane** empties what `AppState` holds. `NodeTable`
  and `Fleet` show what that does to the table, `Distribution` what it does to
  modules; in `Dispatch`, whose tasks all end with the process, it would only
  begin another run of the model. `stored` in `Distribution` is a history
  variable: what each life of the control plane registered.
- **A graceful stop.** On a signal the edge node stops accepting and finishes the
  calls it has (`main.rs` lines 92-95, `serve_with_shutdown`): `Drain`, while
  `HandlerStep` goes on. `StopNode` ends the process, drained or killed, with
  whatever calls it then has.
- **Damaged bytes.** A download yields the registry's bytes or `Garbled`, which
  no hash matches. A warm request carries no hash, so nothing could notice
  there; its body is assumed to arrive intact or not at all.
- **Panics.** A spawned `dispatch_task` may panic anywhere (`Panic` in
  `TaskApi`). The batch then answers 200 with "error" in the place of its id
  (`handlers.rs` line 734) and no result is ever stored.
- **`abort`** of a timer task does not stop one that is being polled, so
  `Return` in `Sandbox` may leave the timer armed to fire later.
- **One module key.** The registry and the caches are keyed by `name:version`
  and never look across keys, so `Distribution` follows one key and lets other
  modules appear as evictions.
- **Two notions of capacity.** A node registers no `max_concurrent_tasks`
  (`main.rs` lines 100-106), so the control plane assumes 10 (`handlers.rs` line
  812) whatever `MAX_TASKS` the node admits; `Fleet` keeps `Capacity` and
  `Permits` apart (both are 1 in the run, the theorems hold for any pair).
- **Round-robin** picks any candidate: the order of a `HashMap`'s values is
  unspecified and changes between calls.
- **Metrics** of the telemetry crate, log lines and trace ids are left out.

## Runs

Passing runs:

| Run | Shows | Bounds |
|---|---|---|
| `breaker` | fields agree, the cooldown holds, an open circuit is left | threshold 2, cooldown 2, 4 attempts: enough to open, re-open from half-open, and have reports outstanding at each |
| `dispatch` | retry limits, justified failures, gauge, counters, results, nodes with open circuits spared, refinement of `TaskService`, permanence of the wedge | 2 tasks (one batch), 3 nodes and 3 attempts, threshold 1 so that one task's failures shut nodes for the other, which then has to queue. The limits on attempts and on waits for capacity are reachable; the one on queueing is not, because the first queueing already blocks |
| `dispatch_churn` | with nodes that come, go and move: each step uses up some of a bounded number, and the task settles unless it queues | 1 task, 2 nodes, 2 starts or stops, a running health checker, an unusable address, round-robin |
| `fleet` | the node's accounts, the table's loads and healthy flags agreeing with the truth in the end, leaks shutting the node out | 2 nodes and 2 addresses (a node can move to the other's), 2 calls on 1 permit (so calls are refused), assumed capacity 1 (so that one leak fills it and the other call tells whether the node is still offered), loads up to 2, 3 starts, drains, stops or restarts |
| `distribution` | the hash honoured although downloads may be damaged, the registry prevailing | 1 node, 2 blobs, 2 calls, TTL 2, 1 restart of the control plane: two calls and a warm request race for one entry, in two lives. Nodes do not interact, so one is enough |
| `task_api` | ended requests, and that a request whose tasks end is answered | a single task, a batch of 3 with a limit of 3, one of 4, an empty one |
| `module_cache` | statistics exact until two insertions of one module or an `invalidate` overlap; the size bounded and evictions never overcounted, always | 2 callers, 3 modules in a cache of 2, TTL 2, at most 6 misses, sizes 1, 2, 4 so that sums identify their terms |
| `sandbox` | timeouts explained, in-time timers effective, although timers of other runs and of ended runs fire too | 2 runs, one looping |

Runs that TLC must refute, each a sentence of the repository that the code does
not live up to (quotations are under `findings` in `PROJECT.json`):

| Run | What happens |
|---|---|
| `dispatch_queued` | a task that had to queue blocks itself for ever (`handlers.rs` line 287), and the control plane with it; `dispatch` and the theorem `WedgePermanent` show that nothing recovers it |
| `dispatch_retried` | one task with three attempts raises `total_retried` twice (`handlers.rs` line 300), where `state.rs` line 38 counts "Tasks that were retried at least once" |
| `edge_node_active` | `active_tasks` leaks on a failed download or compilation and on cancellation |
| `sandbox_enforced` | a timeout that elapses before the store exists is lost |

Other differences between words and code that the models show, without a run of
their own:

- `circuit_breaker.rs` line 20 says "one probe request is allowed"; a half-open
  breaker admits every request. The diagram at its lines 4-10 has no edge from
  Open to Closed; `record_success` of an earlier attempt takes it
  (`CooldownHeld` allows exactly that).
- `SYSTEM_DESIGN.md` line 148 minimises `active_tasks / max_concurrent_tasks`;
  `select_least_loaded` compares `active_tasks`.
- `SYSTEM_DESIGN.md` line 187 records failures on `ResourceExhausted` too; that
  arm of `dispatch_task` does not touch the breaker (`RpcExhausted`).
- `SYSTEM_DESIGN.md` line 273 includes a registered node "immediately"; a probe
  of its old address that failed may be written back afterwards and take it out
  until the next round (`ApplyProbe`). `HealthConverges` shows that it comes
  back.
- `state.rs` line 40 says of `queued` "Tasks currently queued"; a client that
  leaves while queued leaves it raised (`QueuedBounds` says by how much).
- `SYSTEM_DESIGN.md` lines 272-273 have a node register "with its gRPC address"
  and be included "immediately"; `get_or_create` (`connection_pool.rs` line 46)
  returns the channel pooled for the id whatever the address, and nothing evicts
  it, so a node that registers elsewhere is called at its old address
  (`GetOrCreate`, `Reached` in `Dispatch`).
- `README.md` line 81 speaks of "per-task timeout enforcement"; the epoch that a
  timer advances (`sandbox.rs` lines 121 and 174) is the engine's, so it
  interrupts every run on the node and each reports its own `timeout_ms`
  (`TimeoutExplained` says what is true).
- `SYSTEM_DESIGN.md` line 280 lets an operator raise `MAX_TASKS`; least-loaded
  scheduling goes on assuming 10 per node.
- `edge.proto` line 8 says of the hash "used for cache validation"; a cache hit
  does not look at it (`Lookup` in `Distribution`), only a download does. After
  a restart of the control plane and an upload of other bytes under the same
  name and version, tasks run the old module until its entry expires.
- `SYSTEM_DESIGN.md` lines 93 and 258 fail a task on a hash mismatch, with
  `InvalidWasm`. The refusal is a gRPC status, which the dispatcher takes for a
  transport failure of that node: it reports to the breaker and tries another.
- `SYSTEM_DESIGN.md` line 255 says of a module that exceeds its memory "node not
  penalised"; every answer with `success` false puts the node among the tried
  ones and records a failure with its breaker (`handlers.rs` lines 371-388,
  `ReportFailure` in `Dispatch`).
- `handlers.rs` line 691 says a batch resolves "WASM sources upfront"; each item
  is spawned before the next is resolved, so a bad one ends the request after
  earlier ones have started (`EndedRequests`).
- `README.md` line 90 promises "zero cold-start for registered modules";
  pre-warming is best effort, once, to the nodes healthy at that moment, and
  unordered with the first execution.
- `README.md` line 257 offers `GET /tasks/:id` "while the task is in-flight"; an
  id is only returned when its `dispatch_task` has returned (`Answer` in
  `TaskApi`), and "pending" is also the answer for an id nobody was given and
  for a task that was dropped or panicked.
- `tests/tests/stress_test.rs` line 234 asserts `active_tasks <=
  max_concurrent_tasks`; leaked counts break it (`ActiveAccounting`), and a
  node with that many is then sent nothing (`LeaksShutNodeOut`).
- `grpc.rs` line 44 says the semaphore "Limits the number of simultaneously
  executing WASM tasks"; a cancelled call gives its permit back while its thread
  runs on ("orphaned" in `EdgeNode`).
- `cache.rs` line 58 calls `total_wasm_bytes` a "Running sum of wasm_bytes for
  currently-cached entries"; two callers that compile one module at once count
  it twice (or subtract an entry that stays), and `invalidate`, which has no
  caller, subtracts nothing. `README.md` line 456
  says compilation "is paid once per module per node"; concurrent misses each
  pay it.
- `SYSTEM_DESIGN.md` line 254 reports a timeout as such; a run that was refused
  memory earlier reports `MemoryLimitExceeded` (`WasmError`).

Deadlock is not checked where the system may really stop: tasks, calls and runs
are finite in number. `breaker`, `fleet`,
`distribution` and `module_cache` check it.

### Fairness

- `BreakerClients`: time passes, and other tasks keep being scheduled
  (`WF(Tick)`, `WF(Sweep)`). Nothing is assumed of the attempts.
- `NodeTable`: the health loop ticks every 10 s and each probe has a 2 s
  timeout; a started process listens; an HTTP request is delivered or fails.
  `Fleet` takes this over, and its run sets `Flaky` to FALSE: nothing can
  converge if live nodes fail probes for ever. Nothing is assumed of its calls.
- `Distribution`: time passes, a call that has its bytes goes on, and a warm
  request ends (its client has a 30 s timeout). A download may hang: that client
  has none. `RegistryPrevails` needs no more, because an entry nobody refreshes
  expires and only downloads from the present registry can replace it.
- `TaskApi`: handlers go on. Nothing is assumed of the tasks they started, since
  one that has to queue never returns; `RequestsEnd` is about requests each of
  whose started tasks ends, with a result or in a panic.
- `Dispatch`: tokio polls every runnable task, and every RPC returns. The
  second is an assumption about edge nodes: the call has no deadline.
- `Sandbox`: threads are scheduled, timers fire, host code returns and a due
  interrupt is taken. Nothing is assumed of WASM code.

## Proofs

All theorems hold for every value of the constants that satisfies the named
assumptions (finite sets of tasks, calls, runs and nodes; positive limits).

- `BreakerClientsProofs`: `BreakerSafety` and `BreakerHoldsCooldown`, from
  lemmas that each operation on a breaker keeps `Consistent`. `Consistent` is
  inductive because a half-open breaker remembers its count: that is what makes
  `Closed <=> failure_count < threshold` survive.
- `TaskApiProofs`: first `TaskService`, whose counters agree with its results
  because each step moves one task between two statuses (`TaskServiceSafety`,
  for a finite set of tasks), and whose results are final. Then the API over it:
  `ApiInv` says of every item of every request whether its task can have
  started, settled or been abandoned, given how far the request is; `ApiSafety`
  and `ApiEndedRequests` are its consequences.
  `EndedRequests` alone is not inductive: it does not say where `pos` is for
  each place of the handler, nor that every started item lies before it. `ApiImplementsTaskService` shows that
  the API's steps are steps of the service or invisible to it, so
  `ApiAccounting` carries the service's results over.
- `DispatchProofs`: `DispatchSafety` proves the inductive invariant (types,
  breakers, `RetryDiscipline`, `FailureJustified`, `ResultWhenDone`).
  `RetryDiscipline` carries the argument: `error_retries` is the size of
  `tried`, and the node being called is never in it, so each failure adds
  exactly one node and one attempt; the limits are bounds on counters that
  only the arm in question advances. On it rest
  - `WedgePermanent` (what the lock guards; the pool has a mutex of its own and
    is not among it), `QueuedGauge`, `DispatchCounters` and
    `DispatchImplementsTaskService` (initial states map to initial states, each
    step to a step or a stutter; `DispatchResultsFinal` follows);
  - `DispatchRetried`, what `total_retried` does count (`RetriedBounds`, in that
    module): it lies between two sums over the tasks.
    Each sum is the cardinality of a set of pairs `<<task, i>>`, so no induction
    is needed: a lemma says that the set gains one pair when one task's
    number grows by one. The strengthening `RetriedInv` takes the task's place
    into account: an attempt is in `total_retried` from `CountRetry` on, before
    it has failed;
  - `DispatchSparesOpenNodes`: of all steps only a selection gives a task a
    target, and it excludes nodes that cool down; of all reports only a success
    takes a circuit out of `Open`;
  - `DispatchWorkBounded`: `StepsLeft` is a natural number that every step of a
    task lowers and nothing raises, so a task takes at most
    `6 * (MaxAttempts + MaxCapacityWaits + 1) + 8` steps. This is the safety
    half of `SettlesUnlessQueued`; the other half is fairness;
  - `DispatchImplementsNodeTable`: the table's theorems hold under dispatching.
- `NodeTableProofs`: `TableSafety`, by one lemma on table steps that
  `DispatchProofs` and `FleetProofs` reuse; `TableProbesFindEntries`, which
  justifies that `ApplyProbe` has no branch for a missing entry.
- `ModuleCacheProofs`: `CacheTypes` (the LRU list never exceeds its capacity and
  never lists a module twice), `CacheBytes` and `CacheEvictions`, of which one
  half needs no proviso: whatever overlaps, entries and evictions never exceed
  the misses that are over. `BytesMatch` is again about the cardinality of a
  set of pairs, and lemmas say which modules remain in the list after a pop, a
  promotion and a put. The capacity must be part of the invariant: `Insert`
  subtracts the oldest entry exactly when the list is full, and `put` pops it
  exactly then.
- `FleetProofs`: `EdgeNodeSafety` for the handler alone, then `FleetSafety` for
  the composition, from which the accounts follow one by one. The invariant
  relates three counters to the number of calls in three sets of states; each
  step moves one call, and a counting lemma says how that changes each number;
  a stop of the process empties all three. `LeaksPermanent` shows that no step
  leaves `ShutOut` while the process and the registration last: leaked calls
  never move, `active_tasks` counts at least them, so every probe of the node's
  own address brings the table a number the scheduler refuses, and
  `ShutOut` excludes the answers that would not be the node's own.
  `FleetImplementsNodeTable`: each step of the composition is a step of the
  table or leaves it alone.
- `DistributionProofs`: `DistributionSafety` proves that every blob in a cache,
  in a warm request or past the hash check of a call was registered in some
  life, that each life registers at most one, and that a call's hash is the blob
  of the life it was born in. Bytes that are still to be checked are left free.
  `HashHonoured` follows: a running call has a registered blob, and if it is not
  the one of its own life it is another's.
- `SandboxProofs`: `SandboxSafety`. The strengthening: the epoch is the number
  of timers that fired, and a store's deadline is one more than the number that
  had fired when it was created, so a due interrupt means a timer has fired
  since. `SandboxTypes` restates its types.

Every invariant and every action property that a run checks is proved.
Model-checked only: the liveness properties (`OpenIsLeft`, `HealthConverges`,
`LoadConverges`, `RegistryPrevails`, `SettlesUnlessQueued`, `RequestsEnd`,
`InTimeTimerEndsRun`). They rest on fairness, which is about `ENABLED`, and the
prover does not reason about that.

## Not modelled

- The round-robin cursor: it indexes the values of a `HashMap`, whose order is
  unspecified, so no balance can be promised and any candidate may be picked.
  The functions of `round_robin.rs` have no caller; the
  strategy that runs is the arm at `handlers.rs` lines 174-188.
- Handlers that only read (`GET /nodes`, `/modules`, `/stats`, `/metrics`),
  telemetry, configuration, HTTP routes, generated gRPC code, the load tester:
  no state of the system's own.
- A node that accepts `ExecuteTask` and never answers: nothing in the code ends
  such a call, and `SettlesUnlessQueued` assumes it away.
- A running node that the control plane does not know, because its one
  registration was lost or forgotten: it stays unknown until its process
  restarts; every property of the table is about registered nodes.
- A warm request whose body is damaged on the way (see above).
- Whose timer interrupted a run: `TimeoutExplained` allows any run's, because
  the epoch is shared.
- What WASM code computes, and the bytes that pass through linear memory.
- Names and versions that contain a colon, which the key `name:version` cannot
  tell apart.

## Plan

1. Safety halves of the other liveness properties, as `WorkBounded` is for
   `SettlesUnlessQueued`: that a round of the health checker has an end, that an
   entry nobody refreshes only grows older, that a fired timer stays due.
2. `System`: `Dispatch` over `Fleet`'s nodes in place of the free choice of an
   RPC's outcome, and when "all nodes persistently at capacity" is then true.
3. `StateLock`: the FIFO `RwLock`, to justify `ReadFree` and `WriteFree` by
   refinement.
