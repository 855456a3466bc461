-------------------------- MODULE WasmEnvUseProofs --------------------------
(***************************************************************************)
(* Proofs that the access semaphore of an instance gives it to one job at  *)
(* a time (ExclusiveUse), and that guest code runs only on an instance     *)
(* still in the pool at the index useInstance picked it at                 *)
(* (GuestOnPooledInstance), for every value of the constants.              *)
(*                                                                         *)
(* Both rest on UseInv == IInv /\ HolderInv /\ PoolInv.  HolderInv ties    *)
(* the semaphore's holder to the program counters: whoever is between      *)
(* Acquire and Release holds it.  PoolInv ties the pool to the users'      *)
(* picks: removeInstance trims only the instance it snapshotted, which is  *)
(* the last one, and only while it holds its semaphore, so an instance a   *)
(* job holds is never trimmed.                                             *)
(***************************************************************************)
EXTENDS WasmEnvProofs

(* Trimming the last element leaves the others where they were.            *)
LEMMA FrontElem ==
    ASSUME NEW S, NEW s \in Seq(S), Len(s) > 0, NEW i \in 1..Len(s) - 1
    PROVE  Front(s)[i] = s[i]
  <1>1. \A k \in 1..Len(s) - 1 : s[k] \in S
    BY ElementOfSeq
  <1>2. SubSeq(s, 1, Len(s) - 1)[i] = s[1 + i - 1]
    BY <1>1, SubSeqProperties
  <1> QED
    BY <1>2 DEF Front

LEMMA HolderDistinct == Scaler # NoUser
  BY ConstAssumption

(* A step that moves no user's program counter and leaves the semaphores,  *)
(* the picks, the pool, the closed set and the autoscaler alone.           *)
LEMMA Frozen ==
    ASSUME HolderInv, PoolInv,
           pc' = pc, holder' = holder, inst' = inst, idx' = idx,
           instances' = instances, closed' = closed, spc' = spc, snap' = snap
    PROVE  HolderInv' /\ PoolInv'
  BY DEF HolderInv, PoolInv, InGate, InGuest, GoIndices, At

(* User u moves from one label to another inside useInstance: it neither   *)
(* enters the semaphore's section nor a guest on a closed instance.        *)
LEMMA MoveWithin ==
    ASSUME HolderInv, PoolInv, pc \in [Users -> UserPC],
           NEW u \in Users, NEW l,
           pc' = [pc EXCEPT ![u] = l], pc[u] # "idle", l # "idle",
           InGate(u)' => InGate(u),
           InGuest(u)' => inst[u] \notin closed,
           holder' = holder, inst' = inst, idx' = idx,
           instances' = instances, closed' = closed, spc' = spc, snap' = snap
    PROVE  HolderInv' /\ PoolInv'
  <1>1. \A v \in Users \ {u} : pc'[v] = pc[v]
    OBVIOUS
  <1>2. HolderInv'
    BY <1>1 DEF HolderInv, InGate
  <1>3. PoolInv'
    BY <1>1 DEF PoolInv, InGuest, GoIndices, At
  <1> QED
    BY <1>2, <1>3

(* User u leaves useInstance and releases its instance's semaphore         *)
(* (the deferred Release, on the normal path or after a failed draw).      *)
LEMMA Leave ==
    ASSUME HolderInv, PoolInv, pc \in [Users -> UserPC],
           holder \in [InstIds -> Users \cup {Scaler, NoUser}],
           inst \in [Users -> InstIds \cup {NoInst}],
           idx \in [Users -> Nat \cup {-1}],
           NEW u \in Users, InGate(u),
           pc' = [pc EXCEPT ![u] = "idle"],
           holder' = [holder EXCEPT ![inst[u]] = NoUser],
           inst' = [inst EXCEPT ![u] = NoInst],
           idx' = [idx EXCEPT ![u] = -1],
           instances' = instances, closed' = closed, spc' = spc, snap' = snap
    PROVE  HolderInv' /\ PoolInv'
  <1>1. holder[inst[u]] = u /\ inst[u] \in InstIds
    BY DEF HolderInv, InGate
  <1>2. \A v \in Users \ {u} : InGate(v) => inst[v] # inst[u]
    BY <1>1 DEF HolderInv
  <1>3. spc \in {"r_trim", "r_release"} => snap # inst[u]
    BY <1>1, ConstFacts DEF HolderInv
  <1>4. HolderInv'
    <2>1. \A v \in Users : pc'[v] # "idle" => inst'[v] \in InstIds
      BY DEF HolderInv
    <2>2. \A v \in Users : InGate(v)' => holder'[inst'[v]] = v
      BY <1>1, <1>2 DEF HolderInv, InGate
    <2>3. spc' \in {"r_trim", "r_release"} => holder'[snap'] = Scaler
      BY <1>1, <1>3 DEF HolderInv
    <2> QED
      BY <2>1, <2>2, <2>3 DEF HolderInv
  <1>5. PoolInv'
    BY DEF PoolInv, InGuest, GoIndices, At
  <1> QED
    BY <1>4, <1>5

LEMMA InitUse == Init => HolderInv /\ PoolInv
  BY DEF Init, HolderInv, PoolInv, InGate, InGuest

(***************************************************************************)
(* Every step keeps HolderInv and PoolInv.  The user steps inside          *)
(* useInstance only move a program counter (MoveWithin) or panic (Frozen); *)
(* Pick, Acquire and the two ways out (Leave) touch the semaphore or the   *)
(* pick; each step of the autoscaler has a case of its own.                *)
(***************************************************************************)
LEMMA NextUse == IInv /\ HolderInv /\ PoolInv /\ [Next]_vars
                    => HolderInv' /\ PoolInv'
  <1> SUFFICES ASSUME IInv, HolderInv, PoolInv, [Next]_vars
               PROVE  HolderInv' /\ PoolInv'
    OBVIOUS
  <1> USE DEF Running, Goto, userVars
  <1>0. /\ pc \in [Users -> UserPC]
        /\ holder \in [InstIds -> Users \cup {Scaler, NoUser}]
        /\ inst \in [Users -> InstIds \cup {NoInst}]
        /\ idx \in [Users -> Nat \cup {-1}]
        /\ instances \in Seq(InstIds)
        /\ spc # "idle" => snap \in InstIds
        /\ spc \in {"r_acquire", "r_trim"} => Len(instances) > PoolMin
    BY DEF IInv, TypeOK, ScalerInv
  <1>1. ASSUME NEW u \in Users, Pick(u) PROVE HolderInv' /\ PoolInv'
    <2>1. NextCursor \in 0..Len(instances) - 1
      BY <1>1 DEF Pick, GoIndices
    <2>2. At(NextCursor) \in InstIds
      BY <2>1, <1>0, ElementOfSeq DEF At
    <2>3. /\ pc[u] = "idle" /\ pc' = [pc EXCEPT ![u] = "acquire"]
          /\ inst' = [inst EXCEPT ![u] = At(NextCursor)]
          /\ idx' = [idx EXCEPT ![u] = NextCursor]
          /\ holder' = holder /\ instances' = instances /\ closed' = closed
          /\ spc' = spc /\ snap' = snap
      BY <1>1 DEF Pick
    <2>4. HolderInv'
      BY <2>2, <2>3, <1>0 DEF HolderInv, InGate
    <2>5. PoolInv'
      BY <2>1, <2>3, <1>0 DEF PoolInv, InGuest, GoIndices, At
    <2> QED
      BY <2>4, <2>5
  <1>2. ASSUME NEW u \in Users, Acquire(u) PROVE HolderInv' /\ PoolInv'
    <2>1. /\ pc[u] = "acquire" /\ pc' = [pc EXCEPT ![u] = "draw"]
          /\ holder[inst[u]] = NoUser
          /\ holder' = [holder EXCEPT ![inst[u]] = u]
          /\ inst' = inst /\ idx' = idx /\ instances' = instances
          /\ closed' = closed /\ spc' = spc /\ snap' = snap
      BY <1>2 DEF Acquire
    <2>2. inst[u] \in InstIds
      BY <2>1 DEF HolderInv
    <2>3. \A v \in Users : InGate(v) => inst[v] # inst[u]
      BY <2>1, ConstFacts DEF HolderInv
    <2>4. spc \in {"r_trim", "r_release"} => snap # inst[u]
      BY <2>1, HolderDistinct DEF HolderInv
    <2>5. HolderInv'
      <3>1. \A v \in Users : InGate(v)' => holder'[inst'[v]] = v
        BY <2>1, <2>2, <2>3, <1>0 DEF HolderInv, InGate
      <3>2. spc' \in {"r_trim", "r_release"} => holder'[snap'] = Scaler
        BY <2>1, <2>2, <2>4, <1>0 DEF HolderInv
      <3> QED
        BY <3>1, <3>2, <2>1, <1>0 DEF HolderInv
    <2>6. PoolInv'
      BY <2>1, <1>0 DEF PoolInv, InGuest, GoIndices, At
    <2> QED
      BY <2>5, <2>6
  <1>3. ASSUME NEW u \in Users, AcquireNil(u) \/ EnterClosed(u)
        PROVE HolderInv' /\ PoolInv'
    BY <1>3, Frozen DEF AcquireNil, EnterClosed, Panic
  <1>4. ASSUME NEW u \in Users, DrawIdent(u) \/ StoreIdent(u) \/ SetupInstance(u)
        PROVE HolderInv' /\ PoolInv'
    <2>1. CASE DrawIdent(u)
      BY <2>1, <1>0, MoveWithin DEF DrawIdent, InGate, InGuest
    <2>2. CASE StoreIdent(u)
      BY <2>2, <1>0, MoveWithin DEF StoreIdent, InGate, InGuest
    <2>3. CASE SetupInstance(u)
      BY <2>3, <1>0, MoveWithin DEF SetupInstance, InGate, InGuest
    <2> QED
      BY <1>4, <2>1, <2>2, <2>3
  <1>5. ASSUME NEW u \in Users, EnterGuest(u) PROVE HolderInv' /\ PoolInv'
    BY <1>5, <1>0, MoveWithin DEF EnterGuest, InGate, InGuest
  <1>6. ASSUME NEW u \in Users, GraphQLResolve(u) PROVE HolderInv' /\ PoolInv'
    <2>1. CASE pc' = pc
      BY <1>6, <2>1, Frozen DEF GraphQLResolve, Panic
    <2>2. CASE pc' # pc
      <3>1. /\ pc[u] = "guest" /\ pc' = [pc EXCEPT ![u] = "hcall"]
            /\ holder' = holder /\ inst' = inst /\ idx' = idx
            /\ instances' = instances /\ closed' = closed
            /\ spc' = spc /\ snap' = snap
        BY <1>6, <2>2 DEF GraphQLResolve, Panic
      <3>2. inst[u] \notin closed
        BY <3>1 DEF PoolInv, InGuest
      <3> QED
        BY <3>1, <3>2, <1>0, MoveWithin DEF InGate, InGuest
    <2> QED
      BY <2>1, <2>2
  <1>7. ASSUME NEW u \in Users, GraphQLCall(u) PROVE HolderInv' /\ PoolInv'
    <2>1. CASE pc' = pc
      BY <1>7, <2>1, Frozen DEF GraphQLCall, Panic
    <2>2. CASE pc' # pc
      <3>1. /\ pc[u] = "hcall" /\ target[u] \notin closed
            /\ \/ pc' = [pc EXCEPT ![u] = "hstage"]
               \/ pc' = [pc EXCEPT ![u] = "guest"]
            /\ holder' = holder /\ inst' = inst /\ idx' = idx
            /\ instances' = instances /\ closed' = closed
            /\ spc' = spc /\ snap' = snap
        BY <1>7, <2>2 DEF GraphQLCall, Panic
      <3>2. inst[u] \notin closed
        BY <3>1 DEF PoolInv, InGuest
      <3> QED
        BY <3>1, <3>2, <1>0, MoveWithin DEF InGate, InGuest
    <2> QED
      BY <2>1, <2>2
  <1>8. ASSUME NEW u \in Users, GraphQLStage(u) PROVE HolderInv' /\ PoolInv'
    <2>1. inst[u] \notin closed
      BY <1>8 DEF GraphQLStage, PoolInv, InGuest
    <2> QED
      BY <1>8, <2>1, <1>0, MoveWithin DEF GraphQLStage, HostCallDone, InGate, InGuest
  <1>9. ASSUME NEW u \in Users, GetFFIResult(u) PROVE HolderInv' /\ PoolInv'
    BY <1>9, Frozen DEF GetFFIResult, Panic, HostCallDone
  <1>10. ASSUME NEW u \in Users, ReturnFromGuest(u) \/ ClearInstance(u) \/ RemoveIdent(u)
         PROVE HolderInv' /\ PoolInv'
    <2>1. CASE ReturnFromGuest(u)
      BY <2>1, <1>0, MoveWithin DEF ReturnFromGuest, InGate, InGuest
    <2>2. CASE ClearInstance(u)
      BY <2>2, <1>0, MoveWithin DEF ClearInstance, InGate, InGuest
    <2>3. CASE RemoveIdent(u)
      BY <2>3, <1>0, MoveWithin DEF RemoveIdent, InGate, InGuest
    <2> QED
      BY <1>10, <2>1, <2>2, <2>3
  <1>11. ASSUME NEW u \in Users, DrawFails(u) \/ Release(u) PROVE HolderInv' /\ PoolInv'
    <2>1. CASE DrawFails(u)
      BY <2>1, <1>0, Leave DEF DrawFails, InGate
    <2>2. CASE Release(u)
      BY <2>2, <1>0, Leave DEF Release, InGate
    <2> QED
      BY <1>11, <2>1, <2>2
  <1>12. CASE AddInstance
    <2>1. /\ spc = "idle" /\ nextInst \in InstIds
          /\ instances' = Append(instances, nextInst)
          /\ pc' = pc /\ holder' = holder /\ inst' = inst /\ idx' = idx
          /\ closed' = closed /\ spc' = spc /\ snap' = snap
      BY <1>12 DEF AddInstance, IInv, TypeOK, InstIds
    <2>2. /\ Len(instances') = Len(instances) + 1
          /\ \A i \in 1..Len(instances) : instances'[i] = instances[i]
      BY <2>1, <1>0, AppendProperties
    <2>3. HolderInv'
      BY <2>1 DEF HolderInv, InGate
    <2>4. PoolInv'
      BY <2>1, <2>2 DEF PoolInv, InGuest, GoIndices, At
    <2> QED
      BY <2>3, <2>4
  <1>13. CASE RemoveSnapshot
    <2>1. /\ spc = "idle" /\ spc' = "r_acquire" /\ snap' = Last(instances)
          /\ pc' = pc /\ holder' = holder /\ inst' = inst /\ idx' = idx
          /\ instances' = instances /\ closed' = closed
      BY <1>13 DEF RemoveSnapshot
    <2> QED
      BY <2>1 DEF HolderInv, PoolInv, InGate, InGuest, GoIndices, At
  <1>14. CASE RemoveAcquire
    <2>1. /\ spc = "r_acquire" /\ spc' = "r_trim"
          /\ holder[snap] = NoUser
          /\ holder' = [holder EXCEPT ![snap] = Scaler]
          /\ pc' = pc /\ inst' = inst /\ idx' = idx /\ snap' = snap
          /\ instances' = instances /\ closed' = closed
      BY <1>14 DEF RemoveAcquire
    <2>2. snap \in InstIds
      BY <2>1, <1>0
    <2>3. \A v \in Users : InGate(v) => inst[v] # snap
      BY <2>1, ConstFacts DEF HolderInv
    <2>4. HolderInv'
      BY <2>1, <2>2, <2>3, <1>0 DEF HolderInv, InGate
    <2>5. PoolInv'
      BY <2>1 DEF PoolInv, InGuest, GoIndices, At
    <2> QED
      BY <2>4, <2>5
  <1>15. CASE RemoveTrim
    <2>1. /\ spc = "r_trim" /\ spc' = "r_release"
          /\ instances' = Front(instances)
          /\ pc' = pc /\ holder' = holder /\ inst' = inst /\ idx' = idx
          /\ closed' = closed /\ snap' = snap
      BY <1>15 DEF RemoveTrim
    <2>2. Len(instances) > 0 /\ Last(instances) = snap
      BY <2>1, <1>0, ConstFacts DEF PoolInv
    <2>3. Len(instances') = Len(instances) - 1
      BY <2>1, <2>2, <1>0, FrontType
    <2>4. HolderInv'
      BY <2>1 DEF HolderInv, InGate
    <2>5. ASSUME NEW v \in Users, pc[v] # "idle", inst[v] \notin closed,
                 snap # inst[v]
          PROVE  /\ idx[v] \in 0..Len(instances') - 1
                 /\ instances'[idx[v] + 1] = inst[v]
      <3>1. idx[v] \in 0..Len(instances) - 1 /\ instances[idx[v] + 1] = inst[v]
        BY <2>1, <2>5 DEF PoolInv, GoIndices, At
      <3>2. idx[v] # Len(instances) - 1
        BY <3>1, <2>2, <2>5 DEF Last
      <3>3. idx[v] + 1 \in 1..Len(instances) - 1
        BY <3>1, <3>2
      <3>4. instances'[idx[v] + 1] = instances[idx[v] + 1]
        BY <3>3, <2>1, <2>2, <1>0, FrontElem
      <3> QED
        BY <3>1, <3>2, <3>4, <2>3
    <2>6. PoolInv'
      BY <2>1, <2>5 DEF PoolInv, InGuest, GoIndices, At
    <2> QED
      BY <2>4, <2>6
  <1>16. CASE RemoveRelease
    <2>1. /\ spc = "r_release" /\ spc' = "r_nil"
          /\ closed' = closed \cup {snap}
          /\ holder' = [holder EXCEPT ![snap] = NoUser]
          /\ pc' = pc /\ inst' = inst /\ idx' = idx /\ snap' = snap
          /\ instances' = instances
      BY <1>16 DEF RemoveRelease
    <2>2. \A v \in Users : InGate(v) => inst[v] # snap
      BY <2>1, ConstFacts DEF HolderInv
    <2>3. HolderInv'
      BY <2>1, <2>2, <1>0 DEF HolderInv, InGate
    <2>4. PoolInv'
      BY <2>1, <2>2 DEF PoolInv, InGuest, InGate, GoIndices, At
    <2> QED
      BY <2>3, <2>4
  <1>17. CASE RemoveNilAccess
    <2>1. /\ spc = "r_nil" /\ spc' = "idle"
          /\ pc' = pc /\ holder' = holder /\ inst' = inst /\ idx' = idx
          /\ instances' = instances /\ closed' = closed
      BY <1>17 DEF RemoveNilAccess
    <2> QED
      BY <2>1 DEF HolderInv, PoolInv, InGate, InGuest, GoIndices, At
  <1>18. CASE UNCHANGED vars
    BY <1>18, Frozen DEF vars
  <1> QED
    BY <1>1, <1>2, <1>3, <1>4, <1>5, <1>6, <1>7, <1>8, <1>9, <1>10, <1>11,
       <1>12, <1>13, <1>14, <1>15, <1>16, <1>17, <1>18
    DEF Next, User, Autoscaler, Terminated

(* useInstance's Pick, Acquire and Release, and removeInstance's lock      *)
(* dance, keep the strengthened invariant in every reachable state.        *)
THEOREM UseInvariant == Spec => []UseInv
  <1>1. Init => UseInv
    BY InitIInv, InitUse DEF UseInv
  <1>2. UseInv /\ [Next]_vars => UseInv'
    BY NextIInv, NextUse DEF UseInv
  <1> QED
    BY <1>1, <1>2, PTL DEF Spec

(***************************************************************************)
(* The access semaphore gives each instance to one job at a time, and not  *)
(* to a job while removeInstance trims and closes it: two users inside     *)
(* useInstance's Acquire..Release hold different instances.               *)
(***************************************************************************)
THEOREM ExclusiveUseHolds == Spec => []ExclusiveUse
  <1>1. UseInv => ExclusiveUse
    <2> SUFFICES ASSUME HolderInv PROVE ExclusiveUse
      BY DEF UseInv
    <2>1. \A u, v \in Users : (u # v /\ InGate(u) /\ InGate(v)) => inst[u] # inst[v]
      BY DEF HolderInv
    <2>2. \A u \in Users : (InGate(u) /\ spc \in {"r_trim", "r_release"}) => inst[u] # snap
      BY ConstFacts DEF HolderInv
    <2> QED
      BY <2>1, <2>2 DEF ExclusiveUse
  <1> QED
    BY <1>1, UseInvariant, PTL

(***************************************************************************)
(* Guest code runs only on an open instance that is still in the pool at   *)
(* the index useInstance picked it at: removeInstance cannot trim or close *)
(* an instance while a job holds its semaphore.                            *)
(***************************************************************************)
THEOREM GuestOnPooledInstanceHolds == Spec => []GuestOnPooledInstance
  <1>1. UseInv => GuestOnPooledInstance
    <2> SUFFICES ASSUME HolderInv, PoolInv, NEW u \in Users, InGuest(u)
                 PROVE  /\ idx[u] \in GoIndices
                        /\ At(idx[u]) = inst[u]
                        /\ inst[u] \notin closed
      BY DEF UseInv, GuestOnPooledInstance
    <2>1. holder[inst[u]] = u /\ inst[u] \notin closed /\ pc[u] # "idle"
      BY DEF HolderInv, PoolInv, InGate, InGuest
    <2>2. ~(spc = "r_release" /\ snap = inst[u])
      BY <2>1, ConstFacts DEF HolderInv
    <2> QED
      BY <2>1, <2>2 DEF PoolInv
  <1> QED
    BY <1>1, UseInvariant, PTL
=============================================================================
