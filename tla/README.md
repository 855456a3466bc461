# Formal model of reactr: the Wasm instance pool and the Reactr facade

This directory holds TLA+ models of:
* the concurrency-heavy core of reactr's WebAssembly host embedding (`src/unnamed/part_000`, the `rwasm` runtime package);
* the `graphql_query` host function (`src/rwasm/api/api_graphql.go`);
* the `Reactr` facade (`src/rt/reactr.go`) over a scheduler core modelled from spec.md.
Each model has TLC configurations that check it on small instances. Some
properties are also proved with TLAPS for every value of the constants.

## The system and its parts

| Part | Source | How it interacts |
|---|---|---|
| Wasm environment: `instances`, the round-robin cursor `instIndex`, `w.lock` | part_000:59-70, 94-265 | Worker goroutines call `useInstance`. The autoscaler calls `addInstance` and `removeInstance`. |
| Per-instance `access` semaphore (`semaphore.Weighted(1)`), `ctx`, `ffiResult` | part_000:72-83, 396-416 | `useInstance` holds `access` for a whole job. `removeInstance` takes it before trimming and closing. |
| Process-wide `instanceMapper` (identifier → env UUID and instance index) | part_000:53, 318-372 | `useInstance` registers a random identifier. Host functions resolve it back to an instance. |
| `instanceAtIndex` | part_000:111-120 | Used by `instanceForIdentifier` under `w.lock.RLock`. |
| Guest memory glue (`readMemory`, `writeMemory`, ...) | part_000:418-476 | Dereferences `wasmerInst`, which `removeInstance` sets to nil. |
| `graphql_query` host function | api_graphql.go:26-53 | Resolves the identifier, reads guest memory, uses `inst.Ctx()`, stages the response with `SetFFIResult`. |
| Reactr facade (`New`, `Do`, `DoWithCaps`, `Register*`, `Schedule`, `Listen`) | rt/reactr.go:30-147 | Delegates to the scheduler core. Writes `caps.doFunc`, through which running jobs submit sub-jobs. `Listen` turns bus messages into jobs and job outcomes into replies. |
| Scheduler core, workers, retries, timeouts, promises | spec.md 4.1 only | Not under `src/`. Runs jobs and completes their promises. |

## Modules

* `WasmEnv.tla` models one environment, N worker goroutines (`Users`) and one
  autoscaler (`Scaler`).
  * **State.**
    * `instances` is `w.instances`, a sequence of instance ids. Go index `i` is element `i+1`.
    * `instIndex` is the cursor.
    * `holder[i]` is who holds `inst.access`.
    * `closed` holds the instances whose `wasmerInst` is nil; `accessNil` those whose `access` is nil.
    * `ffiResult[i]` and `ctx[i]` name the job that staged or bound them.
    * `mapper` is `instanceMapper`.
    * Each user has a program counter `pc` and its locals `inst`, `idx`, `ident`, `target`.
    * The autoscaler's program counter is `spc`, and `snap` is the instance its `removeInstance` grabbed.
    * `panicked` records a Go runtime panic. A panic ends the process: every action is guarded by `Running`.
  * **Actions.** A critical section under `w.lock` is one step. Each step the code takes outside the lock is a step of its own:
    * `useInstance` is `Pick` (lines 226-238), then `Acquire` or `AcquireNil` (241), `DrawIdent` / `DrawFails` / `StoreIdent` (`setupNewIdentifier`, 318-338: the `Load` and the `Store` are separate steps), `SetupInstance` (252-253), `EnterGuest` / `EnterClosed` (`instFunc`: `writeMemory` reads `wasmerInst`), the guest's host calls, `ReturnFromGuest`, `ClearInstance` (259-260), `RemoveIdent` (263) and `Release` (the deferred 242).
    * The guest's host calls are `GraphQLResolve`, `GraphQLCall` and `GraphQLStage` for `graphql_query`, and `GetFFIResult` for `useFFIResult`.
    * `removeInstance` is its four lock-dance steps: `RemoveSnapshot` (181-191), `RemoveAcquire` (194), `RemoveTrim` (199-205), then `RemoveRelease` and `RemoveNilAccess` (208-216).
    * `addInstance` is one step `AddInstance`, since it runs entirely under `w.lock`.
  * **`ResolveIdent`** is `instanceForIdentifier` together with `instanceAtIndex`, including its `len <= idx-1` test.
  * **Abstraction.** Bytes, queries, module compilation and the identifier's 31-bit range are abstracted away: identifiers are a small set `Idents`, and the instances a run may create are bounded by `MaxInstances`.
  * **From the spec, not the code.** The autoscaler's policy (grow up to `autoscale_max`, shrink down to `pool_size`, one resize at a time) and the guest's return are modelled from the spec, since their code is not under `src/`.
* `MCWasmEnv.tla` instantiates the model for TLC: two model-value users, identifiers `{0, 1}`, and user symmetry.
* `WasmEnvProofs.tla` and `WasmEnvUseProofs.tla` hold the TLAPS proofs, the second extending the first.
* `Reactr.tla` models any number of Reactrs (`Reactrs`), each with its own core, and the jobs, bus messages and Capabilities objects they share.
  * **State.**
    * `doFunc[c]` is the core that Capabilities object `c`'s `doFunc` submits to. Capabilities are pointers in the code, so one object can be registered with several Reactrs.
    * `pool[r][t]` is the caps of the pool of type `t` on `r`'s core (`NoCaps`: not registered).
    * `watched` and `listening` are the Schedules and bus types.
    * Per job: its core, type, caps override, parent job, state (`free`, `queued`, `running`, `ended`), retries used, and its promise.
    * Per message: whether the handler has it, is waiting in `Then()`, or replied, with the job it made and the reply it sent (topic and parent ID).
  * **Facade actions, from reactr.go.**
    * `Init` is `New`.
    * `DoWithCaps` also covers `Do` (caps `NoCaps`). It writes `doFunc[c]` when `c` is not nil, then calls `core.do`.
    * `RegisterWithCaps` writes `doFunc[c]` unconditionally, then registers. `Register` is `RegisterWithCaps` with `r.defaultCaps`.
    * `Schedule` is `core.watch`, and `Listen` subscribes.
    * The handler `Listen` installs is two steps:
      * `Handle` submits the job through `helper` and blocks in `Then()`.
      * `Reply` classifies the outcome with `ReplyFor` (lines 101-135) and sends it.
  * **Core actions, from spec.md 4.1** (the core's source is not in this repository):
    * `CoreDo` (inside every submission) queues the job on its pool, or fails it with NoWorker.
    * `Start` is a worker dequeueing the job.
    * `SubJob` is a running job calling its caps' `doFunc`.
    * `Finish` ends a run with a value or error. A transient failure is re-queued while retries remain; otherwise the promise is completed unless a timeout completed it already.
    * `TimeOut` fails a pending promise of a running job, and the run goes on.
    * `ScheduleFires` is a watched Schedule submitting a job.
  * **Abstraction.** Job data and results are abstracted to their kind: nil, bytes, string, struct, unmarshalable struct, grav.Message, and the five errors.
  * The core actions are there so that the facade's code can be checked against a scheduler that behaves as spec.md says; no property about the core itself is claimed, since its code is not here to check it against.
* `MCReactr.tla` gives the model values for TLC, and `ReactrProofs.tla` holds the proof of the type invariant.

## Runs

| Run | Config | Expect | What it shows |
|---|---|---|---|
| autoscale | `wasmenv_autoscale.cfg` | pass | Two users with two jobs of up to two host calls each, a pool of 1..2 instances, 3 instances ever created. Checks `TypeOK`, `ExclusiveUse` (no two jobs, and not a job and the trimming autoscaler, share an instance), `GuestOnPooledInstance` (guest code runs only on an open instance still at the index it was picked at), `CursorInRange`, and `UseInv`, the inductive invariant the proofs of the first two rest on. 1.16 M distinct states. |
| liveness | `wasmenv_liveness.cfg` | pass | Both properties assume `GuestsEnd`: every guest run returns and every GraphQL request answers (the code cannot guarantee either). `JobCompletes`: every job that picked an instance leaves `useInstance`, or the process panics. `RemoveCompletes`: a started `removeInstance` finishes, or the process panics. So neither the lock/semaphore dance nor a forgotten `Release` starves a job or the remover. |
| remove_race | `wasmenv_remove_race.cfg` | violation | `RemovedInstanceNotClaimed`, which is the claim of the comment at part_000:176, fails in 8 states. A job picks instance 2. The autoscaler then snapshots it, acquires its free semaphore, trims and closes it. The job goes on to a nil semaphore or a closed instance. |
| ident_race | `wasmenv_ident_race.cfg` | violation | `IdentRoundTrip` fails in 9 states. Two jobs both `Load` the same free identifier before either `Store`s it. The second store wins, and the first job's host calls reach the other job's instance. |
| reactr_facade | `reactr_facade.cfg` | pass | Two Reactrs, one user Capabilities object, one type, one message, two jobs in all, one retry. Checks `TypeOK`: `doFunc`, pools, subscriptions, jobs and replies stay well typed, and no job is retried more often than the retries option allows. |
| reactr_liveness | `reactr_liveness.cfg` | pass | One Reactr, two messages. `ListenReplies`: every message the handler took is replied to, even when a run never ends, because the timeout fails its promise and `Then()` returns. |
| reactr_shared_caps | `reactr_shared_caps.cfg` | violation | `SubJobsStayInScheduler` fails in 6 states. r1 registers with `c1` and runs a job; r2 registers with `c1`; the job's sub-job goes to r2's core. |
| reactr_reply_shape | `reactr_reply_shape.cfg` | violation | `ReplyShape` fails in 8 states. A job returns a grav.Message, and `Listen` replies with it unchanged. |

**Why the bounds suffice.** Every hazard needs at most two jobs and one resize:
* the pick/remove race needs one job and one shrink;
* the identifier race needs two jobs and a two-identifier space;
* the cursor edge needs the cursor on the last slot of a pool that shrinks.

Two jobs per user and two host calls per job let a second job reuse an instance after a removal, and let a second host call see the first one's staged result. The panics for all five reasons (nil semaphore, nil `wasmerInst` in `instFunc` and in `readMemory`, nil ctx, index out of range) are reached in the autoscale run's state space.

For Reactr, two jobs are enough for a sub-job, or for a second Reactr reusing the caps, and one retry makes both branches of the retry test reachable. Two Reactrs are the least for shared caps. A third job did not finish within 15 minutes and adds no new ordering of the steps of one job.

**Fairness** (wasmenv liveness run only). `Fairness` covers the host's own steps, `HostStep(u)`, and the autoscaler's:
* each user's host steps are weakly fair, since the Go scheduler runs every runnable goroutine;
* `Acquire(u)` and `RemoveAcquire` are strongly fair, since `semaphore.Weighted` queues waiters in FIFO order, so a waiter that is repeatedly able to get the semaphore gets it;
* the rest of `removeInstance` is weakly fair.
The guest's own moves, `ReturnFromGuest` and the external `GraphQLCall`, carry no fairness: a guest may loop and a server may never answer. The properties take their termination as the hypothesis `GuestsEnd` instead. No semaphore wait in the code occurs inside a `w.lock` section, which is why the lock sections can be single steps.

**Fairness** (reactr_liveness):
* `Start`, `TimeOut` and `Reply` are weakly fair: workers and handlers are goroutines, and the timeout is a timer.
* `Finish` has no fairness, since a guest may loop forever. The properties therefore rest on the timeout, which is what spec.md says it is for.

**Mutants.** Each property of a passing run is broken by a plausible bug in the code it is about:
* `AddInstanceUnbounded` ignores `autoscale_max`;
* `AcquireNoWait` skips the semaphore, which breaks `ExclusiveUse`;
* `RemoveAcquireNoWait` trims without the semaphore, which breaks `GuestOnPooledInstance` and `UseInv`;
* `RemoveTrimKeepCursor` drops lines 200-202;
* `ReleaseForgotten` drops the deferred `Release`, which breaks both `JobCompletes` and `RemoveCompletes`;
* `FinishRetryOffByOne` retries once too often, and `ReplyNilSilent` sends nothing for a nil result, as the comment at reactr.go:89 says.

## Findings

1. **Use after remove** (part_000:241). `useInstance` acquires the semaphore of an instance it read under the lock only after unlocking. `removeInstance` can remove and close that instance in between. The job then panics on the nil semaphore, on the nil `wasmerInst`, or in a host function on the nil ctx.
2. **Identifier collision** (part_000:327/336). `Load` then `Store` is not atomic. `LoadOrStore` would be. The same race lets `graphql_query` stage a result on another job's instance, where `SetFFIResult`'s ignored error (api_graphql.go:51) hides the lost result.
3. `instanceAtIndex`'s bound test is off by one (part_000:115). The index `len(w.instances)` reaches the slice access and panics. It is reachable only after a shrink, through a stale identifier.

4. **Shared caps leave their scheduler** (reactr.go:53, 81). `caps.doFunc` is overwritten whenever a Capabilities object is passed to `DoWithCaps` or `RegisterWithCaps`. A job running with it on one Reactr then submits its sub-jobs to another Reactr's core, contrary to spec.md section 9.
5. **Message results bypass the reply shape** (reactr.go:115-118). A grav.Message returned by a job is sent as it is: it has the job's type and the job's parent ID, not a `reactr.*` topic and the request's parent ID (spec.md section 6, scenario 7). The comment at line 89 ("if the result is nil, nothing is sent") is also stale: line 114 sends a nil-result reply. Doing what the comment says would leave a message unanswered, as `ReplyNilSilent` shows.

## Proofs

`WasmEnvProofs.tla` proves, for every value of the constants satisfying `ConstAssumption`:

* `TypeCorrect`: `Spec => []TypeOK`.
* `CursorAlwaysInRange`: `Spec => []CursorInRange`.

Both rest on the inductive invariant `IInv == TypeOK /\ ScalerInv /\ UserBounds /\ CursorInRange`, with lemmas `InitIInv` and `NextIInv`. `TypeOK` alone is not inductive, for three reasons:

* **Pool length.** `RemoveTrim` shortens the pool, so it keeps the length at or above `pool_size` only because the snapshot step checked `Len > PoolMin`, and only the autoscaler changes the length in between. That is the first conjunct of `ScalerInv`. The second says that `snap` names an instance while a removal is in progress.
* **Counters.** The job and host-call counters stay within their bounds only because a user in the middle of a job (or a host call) has not yet counted it. That is `UserBounds`.
* **Cursor.** `CursorInRange` needs the same `Len > PoolMin >= 1` fact when the trim moves a last-slot cursor back.

The proof of `NextIInv` has one case per action. Each case has one step per conjunct of `IInv`. The type of each variable the action changes is a step of its own. Lemmas on `Front` and `Append` come from `SequenceTheorems`. TLC checks `IInv` as part of `UseInv` on the autoscale run.

`WasmEnvUseProofs.tla` proves `UseInvariant` (`Spec => []UseInv`), `ExclusiveUseHolds` (`Spec => []ExclusiveUse`) and `GuestOnPooledInstanceHolds` (`Spec => []GuestOnPooledInstance`). Neither property is inductive by itself. The strengthening is `UseInv == IInv /\ HolderInv /\ PoolInv`:
* `HolderInv` ties the semaphore to the program counters. A user between `Pick` and `Release` has an instance, a user between `Acquire` and `Release` is its `holder`, and the autoscaler holds `snap` from its acquire to its release. Both acquires wait for `holder = NoUser`, so two holders of one instance would need two different values of `holder[i]`. That is `ExclusiveUse`.
* `PoolInv` ties the pool to the picks. Until the trim, `snap` is the last instance. An open instance a user picked is still at its index, except in the one state after the trim has taken it out and before it is closed. A guest's instance is open. The trim removes only `snap`, which the autoscaler holds, so a user's instance keeps its index. That is `GuestOnPooledInstance`.
The step proof `NextUse` has one case per action. Lemmas `Frozen`, `MoveWithin` and `Leave` cover the three shapes of a user step. TLC checks `UseInv` on the autoscale run.

`ReactrProofs.tla` proves, under `ReactrAssumption`, for every number of Reactrs, types, capabilities, messages, jobs and retries, `ReactrTypeCorrect` (`Spec => []TypeOK`). `TypeOK` is not inductive. `SubJob` calls `doFunc[RunCaps(j)]`, and `RunCaps(j)` is a caps object only if the job's pool exists. The strengthening is `TInv == TypeOK /\ WorkerInv`. `CoreDo` queues a job only on a registered pool, and `RegisterWithCaps` never takes a pool away. `CoreDoTypes` proves the submission step once, for all four callers. `NextTInv` has one case per action.

**Only model-checked.** TLAPS cannot reason about fairness or `ENABLED` here, so the liveness properties stay with TLC:
* `JobCompletes` and `RemoveCompletes`;
* `ListenReplies`.
The violations of the four `violation` runs are counterexamples TLC finds. They need no proof.

## Not modelled, and the plan

* **`internals`** compiles and caches the module under `w.lock`. Its failure leaves the pool unchanged.
* **Memory marshalling** is data handling on guest pointers, such as `readMemory`'s unchecked slice at line 425. Only its dereference of `wasmerInst` is modelled.
* **Environments** are never deleted from `environments`, so the `environment does not exist` branch of `instanceForIdentifier` is unreachable. One environment is modelled.

* **Guest memory bounds.** `readMemory` slices guest memory at a guest-chosen pointer and size with no bounds check (part_000:425). A bad argument is a Go panic decided by the guest's input alone, with no host state or interleaving involved. Memory contents are abstracted away.
* **Parts of the scheduler core.** Its source is not in this repository. Native pool autoscaling, pre-warming and shutdown change no promise and no reply, and are left out. Re-registering a type keeps its pool; the spec does not say otherwise.
* **`GraphQLQueryHandler`** (api_graphql.go:10-24) only unpacks the five arguments.
* **Read-only facade methods.** `IsRegistered` is used as a guard. `Reactr.Job` is `NewJob`.

Next stages:
1. Compose the Reactr core with `WasmEnv`, so that a Wasm job's run is a `useInstance`, and the timeout recycles the instance (scenario 4).
2. Several environments sharing the process-wide `instanceMapper`.
