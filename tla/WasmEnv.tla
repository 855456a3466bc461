------------------------------- MODULE WasmEnv -------------------------------
(***************************************************************************)
(* One Wasm environment of rwasm (src/unnamed/part_000, the rwasm package):*)
(* its instance pool with the round-robin cursor, each instance's access   *)
(* semaphore, ffiResult slot and bound ctx, and the process-wide           *)
(* instanceMapper that maps a random identifier to an instance index.      *)
(*                                                                         *)
(* Actors:                                                                 *)
(*   - Users: goroutines of the worker pool, each running jobs through     *)
(*     useInstance; the guest code a job runs makes host calls             *)
(*     (graphql_query, get_ffi_result) with the identifier it was given.   *)
(*   - one autoscaler, which grows the pool with addInstance and shrinks   *)
(*     it with the four-step removeInstance lock dance.                    *)
(* Every critical section of the environment's RWMutex is one step; the    *)
(* steps that the code runs outside that lock are steps of their own.  A   *)
(* Go runtime panic ends the whole process: it sets `panicked` and nothing *)
(* moves afterwards.                                                       *)
(***************************************************************************)
EXTENDS Integers, Sequences, SequencesExt, FiniteSets

CONSTANTS
    Users,         \* goroutines that call useInstance
    Scaler,        \* the autoscaler goroutine (holder of a semaphore)
    NoUser,        \* nil ctx / nil ffiResult / free semaphore
    Idents,        \* the identifier space of randomIdentifier
    PoolMin,       \* pool_size: the autoscaler never shrinks below it
    PoolMax,       \* autoscale_max: the autoscaler never grows above it
    MaxInstances,  \* bound on the instances ever created
    MaxJobs,       \* bound on the jobs each user runs
    MaxHostCalls   \* bound on the host calls of one guest run

ASSUME ConstAssumption ==
    /\ IsFiniteSet(Users) /\ Users # {}
    /\ Scaler \notin Users /\ NoUser \notin Users /\ NoUser # Scaler
    /\ Idents \subseteq Nat /\ IsFiniteSet(Idents)
    /\ Cardinality(Idents) >= Cardinality(Users)
    /\ PoolMin \in Nat \ {0}
    /\ PoolMax \in Nat /\ PoolMin <= PoolMax
    /\ MaxInstances \in Nat /\ PoolMax <= MaxInstances
    /\ MaxJobs \in Nat /\ MaxHostCalls \in Nat

InstIds == 1..MaxInstances     \* the *wasmInstance objects
NoInst == 0                    \* a nil *wasmInstance
Unmapped == -1                 \* instanceMapper.Load(ident) finds nothing
NoIdent == -1
None == "none"                 \* no panic so far
PanicWhy == {None, "nil semaphore in useInstance",
             "nil wasmer instance in instFunc",
             "nil wasmer instance in readMemory", "nil ctx in graphql_query",
             "index out of range in instanceAtIndex"}
ResolveErr == -1               \* instanceForIdentifier returns an error
ResolvePanic == -2             \* instanceAtIndex indexes out of range

VARIABLES
    instances,   \* w.instances, as a sequence of instance ids
    instIndex,   \* w.instIndex, the round-robin cursor (0-based)
    nextInst,    \* the id the next addInstance gives its instance
    closed,      \* instances whose wasmerInst was closed and set to nil
    accessNil,   \* instances whose access semaphore was set to nil
    holder,      \* holder[i]: who holds inst.access of instance i
    ffiResult,   \* ffiResult[i]: the user whose host call staged it, or nil
    ctx,         \* ctx[i]: the user whose job ctx is bound to instance i
    mapper,      \* instanceMapper: ident -> InstIndex, or Unmapped
    pc,          \* pc[u]: where user u is in useInstance / its guest
    inst,        \* inst[u]: the instance useInstance picked
    idx,         \* idx[u]: the index it picked it at
    ident,       \* ident[u]: the identifier setupNewIdentifier drew
    target,      \* target[u]: the instance a pending host call resolved
    calls,       \* calls[u]: host calls made by the current guest run
    jobs,        \* jobs[u]: jobs user u has finished
    spc,         \* where the autoscaler is in removeInstance
    snap,        \* the instance removeInstance snapshotted in step 1
    panicked     \* None, or why the Go runtime panicked

userVars == <<pc, inst, idx, ident, target, calls, jobs>>
vars == <<instances, instIndex, nextInst, closed, accessNil, holder,
          ffiResult, ctx, mapper, userVars, spc, snap, panicked>>

UserPC == {"idle", "acquire", "draw", "store", "setup", "enter", "guest",
           "hcall", "hstage", "clear", "unmap", "release"}
ScalerPC == {"idle", "r_acquire", "r_trim", "r_release", "r_nil"}

(* The Go index i of w.instances is element i+1 of the sequence.           *)
GoIndices == 0 .. Len(instances) - 1
At(i) == instances[i + 1]

Running == panicked = None

(***************************************************************************)
(* instanceForIdentifier(ident, needsFFIResult) together with              *)
(* instanceAtIndex: the instance it returns, ResolveErr for an error      *)
(* return, ResolvePanic when w.instances[idx] is out of range.  instanceAtIndex rejects *)
(* only len(w.instances) <= idx-1, so idx = len(w.instances) reaches the   *)
(* slice access.  The environment is never deleted from `environments`.    *)
(***************************************************************************)
ResolveIdent(x, needsFFI) ==
    LET i == mapper[x] IN
    CASE i = Unmapped                            -> ResolveErr
      [] Len(instances) <= i - 1                 -> ResolveErr
      [] i >= Len(instances)                     -> ResolvePanic
      [] needsFFI /\ ffiResult[At(i)] # NoUser   -> ResolveErr
      [] OTHER                                   -> At(i)

MapPut(m, x, v) == [m EXCEPT ![x] = v]
MapDelete(m, x) == [m EXCEPT ![x] = Unmapped]

-----------------------------------------------------------------------------
(* newEnvironment plus the pool's pre-warm: PoolMin instances were added.  *)
Init ==
    /\ instances = [k \in 1..PoolMin |-> k]
    /\ instIndex = 0
    /\ nextInst = PoolMin + 1
    /\ closed = {}
    /\ accessNil = {}
    /\ holder = [i \in InstIds |-> NoUser]
    /\ ffiResult = [i \in InstIds |-> NoUser]
    /\ ctx = [i \in InstIds |-> NoUser]
    /\ mapper = [x \in Idents |-> Unmapped]
    /\ pc = [u \in Users |-> "idle"]
    /\ inst = [u \in Users |-> NoInst]
    /\ idx = [u \in Users |-> -1]
    /\ ident = [u \in Users |-> NoIdent]
    /\ target = [u \in Users |-> NoInst]
    /\ calls = [u \in Users |-> 0]
    /\ jobs = [u \in Users |-> 0]
    /\ spc = "idle"
    /\ snap = NoInst
    /\ panicked = None

Panic(why) ==
    /\ panicked' = why
    /\ UNCHANGED <<instances, instIndex, nextInst, closed, accessNil, holder,
                   ffiResult, ctx, mapper, userVars, spc, snap>>

Goto(u, l) == pc' = [pc EXCEPT ![u] = l]

-----------------------------------------------------------------------------
(*************************** useInstance ***********************************)

(* Under w.lock: advance the cursor, read the index and the instance.  The *)
(* guard is the slice access w.instances[instIndex]: CursorInRange shows   *)
(* that it never fails, so its index-out-of-range panic is left out.       *)
NextCursor == IF instIndex = Len(instances) - 1 THEN 0 ELSE instIndex + 1

Pick(u) ==
    /\ Running /\ pc[u] = "idle" /\ jobs[u] < MaxJobs
    /\ NextCursor \in GoIndices
    /\ instIndex' = NextCursor
    /\ idx' = [idx EXCEPT ![u] = NextCursor]
    /\ inst' = [inst EXCEPT ![u] = At(NextCursor)]
    /\ Goto(u, "acquire")
    /\ UNCHANGED <<instances, nextInst, closed, accessNil, holder, ffiResult,
                   ctx, mapper, ident, target, calls, jobs, spc, snap, panicked>>

(* Mutant: the job does not wait for the semaphore.                       *)
AcquireNoWait(u) ==
    /\ Running /\ pc[u] = "acquire"
    /\ inst[u] \notin accessNil
    /\ holder' = [holder EXCEPT ![inst[u]] = u]
    /\ Goto(u, "draw")
    /\ UNCHANGED <<instances, instIndex, nextInst, closed, accessNil,
                   ffiResult, ctx, mapper, inst, idx, ident, target, calls,
                   jobs, spc, snap, panicked>>

(* inst.access.Acquire: blocks until the semaphore is free.                *)
Acquire(u) ==
    /\ Running /\ pc[u] = "acquire"
    /\ inst[u] \notin accessNil
    /\ holder[inst[u]] = NoUser
    /\ holder' = [holder EXCEPT ![inst[u]] = u]
    /\ Goto(u, "draw")
    /\ UNCHANGED <<instances, instIndex, nextInst, closed, accessNil,
                   ffiResult, ctx, mapper, inst, idx, ident, target, calls,
                   jobs, spc, snap, panicked>>

(* removeInstance has already set inst.access to nil.                      *)
AcquireNil(u) ==
    /\ Running /\ pc[u] = "acquire"
    /\ inst[u] \in accessNil
    /\ Panic("nil semaphore in useInstance")

(* setupNewIdentifier: draw, and re-draw while instanceMapper has it.  The *)
(* Load and the Store are two separate steps.                              *)
DrawIdent(u) ==
    /\ Running /\ pc[u] = "draw"
    /\ \E x \in Idents :
          /\ mapper[x] = Unmapped
          /\ ident' = [ident EXCEPT ![u] = x]
    /\ Goto(u, "store")
    /\ UNCHANGED <<instances, instIndex, nextInst, closed, accessNil, holder,
                   ffiResult, ctx, mapper, inst, idx, target, calls, jobs,
                   spc, snap, panicked>>

(* randomIdentifier fails: useInstance returns the error; the deferred     *)
(* Release frees the semaphore.                                            *)
DrawFails(u) ==
    /\ Running /\ pc[u] = "draw"
    /\ holder' = [holder EXCEPT ![inst[u]] = NoUser]
    /\ Goto(u, "idle")
    /\ jobs' = [jobs EXCEPT ![u] = @ + 1]
    /\ inst' = [inst EXCEPT ![u] = NoInst]
    /\ idx' = [idx EXCEPT ![u] = -1]
    /\ UNCHANGED <<instances, instIndex, nextInst, closed, accessNil,
                   ffiResult, ctx, mapper, ident, target, calls, spc, snap,
                   panicked>>

StoreIdent(u) ==
    /\ Running /\ pc[u] = "store"
    /\ mapper' = MapPut(mapper, ident[u], idx[u])
    /\ Goto(u, "setup")
    /\ UNCHANGED <<instances, instIndex, nextInst, closed, accessNil, holder,
                   ffiResult, ctx, inst, idx, ident, target, calls, jobs,
                   spc, snap, panicked>>

(* inst.ffiResult = nil; inst.ctx = ctx                                    *)
SetupInstance(u) ==
    /\ Running /\ pc[u] = "setup"
    /\ ffiResult' = [ffiResult EXCEPT ![inst[u]] = NoUser]
    /\ ctx' = [ctx EXCEPT ![inst[u]] = u]
    /\ Goto(u, "enter")
    /\ UNCHANGED <<instances, instIndex, nextInst, closed, accessNil, holder,
                   mapper, inst, idx, ident, target, calls, jobs, spc, snap,
                   panicked>>

(* instFunc: the Runnable writes its input with writeMemory, which reads   *)
(* w.wasmerInst.Exports; on a closed instance that field is nil.           *)
EnterGuest(u) ==
    /\ Running /\ pc[u] = "enter"
    /\ inst[u] \notin closed
    /\ Goto(u, "guest")
    /\ calls' = [calls EXCEPT ![u] = 0]
    /\ UNCHANGED <<instances, instIndex, nextInst, closed, accessNil, holder,
                   ffiResult, ctx, mapper, inst, idx, ident, target, jobs,
                   spc, snap, panicked>>

EnterClosed(u) ==
    /\ Running /\ pc[u] = "enter"
    /\ inst[u] \in closed
    /\ Panic("nil wasmer instance in instFunc")
-----------------------------------------------------------------------------
(************************ host calls of the guest **************************)

(* graphql_query: InstanceForIdentifier(identifier, true); an error is     *)
(* logged as potential malicious activity and the call returns -1.         *)
HostCallDone(u) == calls' = [calls EXCEPT ![u] = @ + 1]

GraphQLResolve(u) ==
    /\ Running /\ pc[u] = "guest" /\ calls[u] < MaxHostCalls
    /\ LET r == ResolveIdent(ident[u], TRUE) IN
       \/ /\ r = ResolveErr
          /\ HostCallDone(u)
          /\ UNCHANGED <<instances, instIndex, nextInst, closed, accessNil,
                         holder, ffiResult, ctx, mapper, pc, inst, idx,
                         ident, target, jobs, spc, snap, panicked>>
       \/ /\ r = ResolvePanic
          /\ Panic("index out of range in instanceAtIndex")
       \/ /\ r \in InstIds
          /\ target' = [target EXCEPT ![u] = r]
          /\ Goto(u, "hcall")
          /\ UNCHANGED <<instances, instIndex, nextInst, closed, accessNil,
                         holder, ffiResult, ctx, mapper, inst, idx, ident,
                         calls, jobs, spc, snap, panicked>>

(* inst.ReadMemory of the endpoint and query (a closed instance has a nil  *)
(* wasmerInst), then inst.Ctx().GraphQLClient.Do(...): a nil ctx panics;   *)
(* the client may fail, and the call then returns -1.                      *)
GraphQLCall(u) ==
    /\ Running /\ pc[u] = "hcall"
    /\ \/ /\ target[u] \in closed
          /\ Panic("nil wasmer instance in readMemory")
       \/ /\ target[u] \notin closed /\ ctx[target[u]] = NoUser
          /\ Panic("nil ctx in graphql_query")
       \/ /\ target[u] \notin closed /\ ctx[target[u]] # NoUser
          /\ \/ Goto(u, "hstage")
                /\ UNCHANGED calls
             \/ Goto(u, "guest")
                /\ HostCallDone(u)
          /\ UNCHANGED <<instances, instIndex, nextInst, closed, accessNil,
                         holder, ffiResult, ctx, mapper, inst, idx, ident,
                         target, jobs, spc, snap, panicked>>

(* inst.SetFFIResult(respBytes): the error of an already set ffiResult is  *)
(* ignored and the length is returned all the same.                        *)
GraphQLStage(u) ==
    /\ Running /\ pc[u] = "hstage"
    /\ ffiResult' = [ffiResult EXCEPT ![target[u]] =
                        IF @ = NoUser THEN u ELSE @]
    /\ Goto(u, "guest")
    /\ HostCallDone(u)
    /\ UNCHANGED <<instances, instIndex, nextInst, closed, accessNil, holder,
                   ctx, mapper, inst, idx, ident, target, jobs, spc, snap,
                   panicked>>

(* get_ffi_result: InstanceForIdentifier(ident, false), then useFFIResult, *)
(* which fails on a nil ffiResult and otherwise returns it and clears it.  *)
GetFFIResult(u) ==
    /\ Running /\ pc[u] = "guest" /\ calls[u] < MaxHostCalls
    /\ LET r == ResolveIdent(ident[u], FALSE) IN
       \/ /\ r = ResolvePanic
          /\ Panic("index out of range in instanceAtIndex")
       \/ /\ r # ResolvePanic
          /\ ffiResult' = IF r \in InstIds
                            THEN [ffiResult EXCEPT ![r] = NoUser]
                            ELSE ffiResult
          /\ HostCallDone(u)
          /\ UNCHANGED <<instances, instIndex, nextInst, closed, accessNil,
                         holder, ctx, mapper, pc, inst, idx, ident, target,
                         jobs, spc, snap, panicked>>

(* The guest's run_e returns (after return_result or return_error).        *)
ReturnFromGuest(u) ==
    /\ Running /\ pc[u] = "guest"
    /\ Goto(u, "clear")
    /\ UNCHANGED <<instances, instIndex, nextInst, closed, accessNil, holder,
                   ffiResult, ctx, mapper, inst, idx, ident, target, calls,
                   jobs, spc, snap, panicked>>

(************************* end of useInstance ******************************)

(* inst.ctx = nil; inst.ffiResult = nil                                    *)
ClearInstance(u) ==
    /\ Running /\ pc[u] = "clear"
    /\ ctx' = [ctx EXCEPT ![inst[u]] = NoUser]
    /\ ffiResult' = [ffiResult EXCEPT ![inst[u]] = NoUser]
    /\ Goto(u, "unmap")
    /\ UNCHANGED <<instances, instIndex, nextInst, closed, accessNil, holder,
                   mapper, inst, idx, ident, target, calls, jobs, spc, snap,
                   panicked>>

(* removeIdentifier(ident)                                                 *)
RemoveIdent(u) ==
    /\ Running /\ pc[u] = "unmap"
    /\ mapper' = MapDelete(mapper, ident[u])
    /\ Goto(u, "release")
    /\ UNCHANGED <<instances, instIndex, nextInst, closed, accessNil, holder,
                   ffiResult, ctx, inst, idx, ident, target, calls, jobs,
                   spc, snap, panicked>>

(* Mutant: the deferred Release is missing.                                *)
ReleaseForgotten(u) ==
    /\ Running /\ pc[u] = "release"
    /\ Goto(u, "idle")
    /\ jobs' = [jobs EXCEPT ![u] = @ + 1]
    /\ inst' = [inst EXCEPT ![u] = NoInst]
    /\ idx' = [idx EXCEPT ![u] = -1]
    /\ ident' = [ident EXCEPT ![u] = NoIdent]
    /\ target' = [target EXCEPT ![u] = NoInst]
    /\ UNCHANGED <<instances, instIndex, nextInst, closed, accessNil, holder,
                   ffiResult, ctx, mapper, calls, spc, snap, panicked>>

(* the deferred inst.access.Release(1); the job is over.                   *)
Release(u) ==
    /\ Running /\ pc[u] = "release"
    /\ holder' = [holder EXCEPT ![inst[u]] = NoUser]
    /\ Goto(u, "idle")
    /\ jobs' = [jobs EXCEPT ![u] = @ + 1]
    /\ inst' = [inst EXCEPT ![u] = NoInst]
    /\ idx' = [idx EXCEPT ![u] = -1]
    /\ ident' = [ident EXCEPT ![u] = NoIdent]
    /\ target' = [target EXCEPT ![u] = NoInst]
    /\ UNCHANGED <<instances, instIndex, nextInst, closed, accessNil,
                   ffiResult, ctx, mapper, calls, spc, snap, panicked>>

-----------------------------------------------------------------------------
(*************************** the autoscaler ********************************)

(* Mutant: the autoscaler ignores autoscale_max.                           *)
AddInstanceUnbounded ==
    /\ Running /\ spc = "idle"
    /\ nextInst <= MaxInstances
    /\ instances' = Append(instances, nextInst)
    /\ nextInst' = nextInst + 1
    /\ UNCHANGED <<instIndex, closed, accessNil, holder, ffiResult, ctx,
                   mapper, userVars, spc, snap, panicked>>

(* addInstance, entirely under w.lock: NewInstance, _start, init, append.  *)
(* Its error returns leave the pool as it was.                             *)
AddInstance ==
    /\ Running /\ spc = "idle"
    /\ Len(instances) < PoolMax /\ nextInst <= MaxInstances
    /\ instances' = Append(instances, nextInst)
    /\ nextInst' = nextInst + 1
    /\ UNCHANGED <<instIndex, closed, accessNil, holder, ffiResult, ctx,
                   mapper, userVars, spc, snap, panicked>>

(* removeInstance step 1, under RLock: grab the last instance (the len 0   *)
(* early return is out of reach: the pool never shrinks below pool_size).   *)
RemoveSnapshot ==
    /\ Running /\ spc = "idle"
    /\ Len(instances) > PoolMin
    /\ snap' = Last(instances)
    /\ spc' = "r_acquire"
    /\ UNCHANGED <<instances, instIndex, nextInst, closed, accessNil, holder,
                   ffiResult, ctx, mapper, userVars, panicked>>

(* Mutant: step 2 does not wait for the semaphore.                         *)
RemoveAcquireNoWait ==
    /\ Running /\ spc = "r_acquire"
    /\ holder' = [holder EXCEPT ![snap] = Scaler]
    /\ spc' = "r_trim"
    /\ UNCHANGED <<instances, instIndex, nextInst, closed, accessNil,
                   ffiResult, ctx, mapper, userVars, snap, panicked>>

(* step 2: acquire its semaphore, outside the lock.                        *)
RemoveAcquire ==
    /\ Running /\ spc = "r_acquire"
    /\ holder[snap] = NoUser
    /\ holder' = [holder EXCEPT ![snap] = Scaler]
    /\ spc' = "r_trim"
    /\ UNCHANGED <<instances, instIndex, nextInst, closed, accessNil,
                   ffiResult, ctx, mapper, userVars, snap, panicked>>

(* Mutant: the cursor is not moved back when it pointed at the last slot.  *)
RemoveTrimKeepCursor ==
    /\ Running /\ spc = "r_trim"
    /\ instances' = Front(instances)
    /\ spc' = "r_release"
    /\ UNCHANGED <<instIndex, nextInst, closed, accessNil, holder, ffiResult,
                   ctx, mapper, userVars, snap, panicked>>

(* step 3, under w.lock: fix the cursor and shorten the slice.             *)
RemoveTrim ==
    /\ Running /\ spc = "r_trim"
    /\ instIndex' = IF instIndex = Len(instances) - 1 THEN instIndex - 1
                                                     ELSE instIndex
    /\ instances' = Front(instances)
    /\ spc' = "r_release"
    /\ UNCHANGED <<nextInst, closed, accessNil, holder, ffiResult, ctx,
                   mapper, userVars, snap, panicked>>

(* step 4: Close, nil the fields, Release(1) ...                           *)
RemoveRelease ==
    /\ Running /\ spc = "r_release"
    /\ closed' = closed \cup {snap}
    /\ ctx' = [ctx EXCEPT ![snap] = NoUser]
    /\ ffiResult' = [ffiResult EXCEPT ![snap] = NoUser]
    /\ holder' = [holder EXCEPT ![snap] = NoUser]
    /\ spc' = "r_nil"
    /\ UNCHANGED <<instances, instIndex, nextInst, accessNil, mapper,
                   userVars, snap, panicked>>

(* ... and inst.access = nil.                                              *)
RemoveNilAccess ==
    /\ Running /\ spc = "r_nil"
    /\ accessNil' = accessNil \cup {snap}
    /\ spc' = "idle"
    /\ snap' = NoInst
    /\ UNCHANGED <<instances, instIndex, nextInst, closed, holder, ffiResult,
                   ctx, mapper, userVars, panicked>>

-----------------------------------------------------------------------------
(* Every user has run its jobs and the autoscaler is between decisions, or *)
(* the process has panicked.                                               *)
Terminated ==
    \/ ~Running
    \/ /\ \A u \in Users : pc[u] = "idle" /\ jobs[u] = MaxJobs
       /\ spc = "idle"

User(u) ==
    \/ Pick(u) \/ Acquire(u) \/ AcquireNil(u)
    \/ DrawIdent(u) \/ DrawFails(u) \/ StoreIdent(u) \/ SetupInstance(u)
    \/ EnterGuest(u) \/ EnterClosed(u)
    \/ GraphQLResolve(u) \/ GraphQLCall(u) \/ GraphQLStage(u)
    \/ GetFFIResult(u) \/ ReturnFromGuest(u)
    \/ ClearInstance(u) \/ RemoveIdent(u) \/ Release(u)

Autoscaler ==
    \/ AddInstance \/ RemoveSnapshot \/ RemoveAcquire \/ RemoveTrim
    \/ RemoveRelease \/ RemoveNilAccess

Next ==
    \/ \E u \in Users : User(u)
    \/ Autoscaler
    \/ Terminated /\ UNCHANGED vars

Spec == Init /\ [][Next]_vars
-----------------------------------------------------------------------------
(******************************* properties ********************************)

TypeOK ==
    /\ instances \in Seq(InstIds)
    /\ Len(instances) \in PoolMin..PoolMax
    /\ instIndex \in Int
    /\ nextInst \in 1..MaxInstances + 1
    /\ closed \subseteq InstIds /\ accessNil \subseteq InstIds
    /\ holder \in [InstIds -> Users \cup {Scaler, NoUser}]
    /\ ffiResult \in [InstIds -> Users \cup {NoUser}]
    /\ ctx \in [InstIds -> Users \cup {NoUser}]
    /\ mapper \in [Idents -> Nat \cup {Unmapped}]
    /\ pc \in [Users -> UserPC]
    /\ inst \in [Users -> InstIds \cup {NoInst}]
    /\ idx \in [Users -> Nat \cup {-1}]
    /\ ident \in [Users -> Idents \cup {NoIdent}]
    /\ target \in [Users -> InstIds \cup {NoInst}]
    /\ calls \in [Users -> 0..MaxHostCalls]
    /\ jobs \in [Users -> 0..MaxJobs]
    /\ spc \in ScalerPC
    /\ snap \in InstIds \cup {NoInst}
    /\ panicked \in PanicWhy

(* User u holds inst.access: from the Acquire to the deferred Release.     *)
InGate(u) == pc[u] \in {"draw", "store", "setup", "enter", "guest", "hcall",
                         "hstage", "clear", "unmap", "release"}
InGuest(u) == pc[u] \in {"guest", "hcall", "hstage"}

(***************************************************************************)
(* The access semaphore gives each instance to one job at a time: no two   *)
(* users are between Acquire and Release on the same instance, and no user *)
(* is while removeInstance holds it to trim the slice and close it.        *)
(***************************************************************************)
ExclusiveUse ==
    /\ \A u, v \in Users :
          (u # v /\ InGate(u) /\ InGate(v)) => inst[u] # inst[v]
    /\ \A u \in Users :
          (InGate(u) /\ spc \in {"r_trim", "r_release"}) => inst[u] # snap

(***************************************************************************)
(* While guest code runs, its instance is still in the pool at the index   *)
(* useInstance picked it at, and it has not been closed: removeInstance's  *)
(* semaphore step keeps it from trimming an instance a job is running on.  *)
(***************************************************************************)
GuestOnPooledInstance ==
    \A u \in Users :
        InGuest(u) =>
            /\ idx[u] \in GoIndices
            /\ At(idx[u]) = inst[u]
            /\ inst[u] \notin closed

(***************************************************************************)
(* The round-robin cursor of useInstance always names a slot of the pool,  *)
(* across grows, and shrinks that decrement it only when it is the last.   *)
(***************************************************************************)
CursorInRange == instIndex \in GoIndices

(***************************************************************************)
(* The comment on removeInstance: once it has acquired the semaphore,      *)
(* anyone vying for the instance is done with it.  So no job that picked   *)
(* an instance still holds it when the instance is closed.                 *)
(***************************************************************************)
RemovedInstanceNotClaimed ==
    \A u \in Users : pc[u] # "idle" => inst[u] \notin closed

(***************************************************************************)
(* setupNewIdentifier re-draws on a collision, so the identifier a job     *)
(* holds maps, from its Store until its removeIdentifier, to the index of  *)
(* the instance the job is using.                                          *)
(***************************************************************************)
IdentRoundTrip ==
    \A u \in Users :
        pc[u] \in {"setup", "enter", "guest", "hcall", "hstage", "clear", "unmap"}
            => mapper[ident[u]] = idx[u]

(***************************************************************************)
(* The strengthening of TypeOK and CursorInRange that makes them inductive:*)
(* between removeInstance's snapshot and its trim the pool is larger than  *)
(* pool_size (only the autoscaler changes its length), the snapshot names  *)
(* an instance, and a user between Pick and Release, or inside a host      *)
(* call, has not yet counted the job or the call.                          *)
(***************************************************************************)
ScalerInv ==
    /\ spc \in {"r_acquire", "r_trim"} => Len(instances) > PoolMin
    /\ spc # "idle" => snap \in InstIds

UserBounds ==
    \A u \in Users :
        /\ pc[u] # "idle" => jobs[u] < MaxJobs
        /\ pc[u] \in {"hcall", "hstage"} => calls[u] < MaxHostCalls

IInv == TypeOK /\ ScalerInv /\ UserBounds /\ CursorInRange

(***************************************************************************)
(* The strengthening that makes ExclusiveUse and GuestOnPooledInstance     *)
(* inductive.  HolderInv: the semaphore records who is inside: a user from *)
(* Acquire to Release holds its instance's access, and removeInstance     *)
(* holds the snapshot's from its acquire to its release.  PoolInv: until   *)
(* the trim, the snapshot is the last instance; an open instance a user    *)
(* picked is still at the index it was picked at, unless the trim has just *)
(* taken it out and not yet closed it; a guest's instance is open.         *)
(***************************************************************************)
HolderInv ==
    /\ \A u \in Users : pc[u] # "idle" => inst[u] \in InstIds
    /\ \A u \in Users : InGate(u) => holder[inst[u]] = u
    /\ spc \in {"r_trim", "r_release"} => holder[snap] = Scaler

PoolInv ==
    /\ spc \in {"r_acquire", "r_trim"} => Last(instances) = snap
    /\ \A u \in Users :
          (/\ pc[u] # "idle" /\ inst[u] \notin closed
           /\ ~(spc = "r_release" /\ snap = inst[u]))
            => idx[u] \in GoIndices /\ At(idx[u]) = inst[u]
    /\ \A u \in Users : InGuest(u) => inst[u] \notin closed

UseInv == IInv /\ HolderInv /\ PoolInv

(***************************************************************************)
(* Fairness.  The host's own steps are scheduled weakly fairly, since the  *)
(* Go scheduler runs every runnable goroutine.  The semaphore.Weighted     *)
(* serves waiters in FIFO order, which strong fairness of the two acquires *)
(* stands for.  A removeInstance that has begun runs to its end.  The     *)
(* guest's own moves carry no fairness: whether it calls the host, whether *)
(* it returns, and whether the GraphQL server answers are up to the guest  *)
(* and the network.                                                        *)
(***************************************************************************)
HostStep(u) ==
    \/ Acquire(u) \/ AcquireNil(u)
    \/ DrawIdent(u) \/ DrawFails(u) \/ StoreIdent(u) \/ SetupInstance(u)
    \/ EnterGuest(u) \/ EnterClosed(u) \/ GraphQLStage(u)
    \/ ClearInstance(u) \/ RemoveIdent(u) \/ Release(u)

Fairness ==
    /\ \A u \in Users : WF_vars(HostStep(u)) /\ SF_vars(Acquire(u))
    /\ SF_vars(RemoveAcquire)
    /\ WF_vars(RemoveTrim \/ RemoveRelease \/ RemoveNilAccess)

FairSpec == Spec /\ Fairness

(* Each guest run eventually returns, and each GraphQL request it makes    *)
(* eventually gets an answer or an error.                                  *)
GuestsEnd ==
    \A u \in Users : WF_vars(ReturnFromGuest(u)) /\ WF_vars(GraphQLCall(u))

(***************************************************************************)
(* useInstance's semaphore and lock dance never gets stuck: if every guest *)
(* run ends, a job that has picked an instance returns from useInstance    *)
(* (the deferred Release runs on every path), unless the process panics.  *)
(***************************************************************************)
JobCompletes ==
    GuestsEnd =>
        \A u \in Users : (pc[u] = "acquire") ~> (pc[u] = "idle" \/ ~Running)

(***************************************************************************)
(* removeInstance, waiting on the semaphore of the instance it removes     *)
(* outside the lock, is not starved by the jobs that hold it: if every     *)
(* guest run ends, a started removal finishes, unless the process panics.  *)
(***************************************************************************)
RemoveCompletes ==
    GuestsEnd => ((spc = "r_acquire") ~> (spc = "idle" \/ ~Running))
=============================================================================
