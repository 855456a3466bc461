---------------------------- MODULE WasmEnvProofs ----------------------------
(***************************************************************************)
(* Proofs about WasmEnv for every value of the constants: the type         *)
(* invariant and the round-robin cursor bound of useInstance, through the  *)
(* inductive invariant IInv.                                               *)
(***************************************************************************)
EXTENDS WasmEnv, SequenceTheorems, TLAPS

(* Trimming the last element of a non-empty sequence, and appending one.  *)
LEMMA FrontType ==
    ASSUME NEW S, NEW s \in Seq(S), Len(s) > 0
    PROVE  /\ Front(s) \in Seq(S)
           /\ Len(Front(s)) = Len(s) - 1
  <1>1. /\ SubSeq(s, 1, Len(s) - 1) \in Seq(S)
        /\ Len(SubSeq(s, 1, Len(s) - 1)) = Len(s) - 1
    BY SubSeqProperties
  <1> QED
    BY <1>1 DEF Front

LEMMA AppendType ==
    ASSUME NEW S, NEW s \in Seq(S), NEW e \in S
    PROVE  /\ Append(s, e) \in Seq(S)
           /\ Len(Append(s, e)) = Len(s) + 1
  BY AppendProperties

(* The facts about the constants that the inductive step uses.           *)
LEMMA ConstFacts ==
    /\ PoolMin \in Nat \ {0}
    /\ PoolMax \in Nat /\ PoolMin <= PoolMax
    /\ MaxInstances \in Nat /\ PoolMax <= MaxInstances
    /\ MaxJobs \in Nat /\ MaxHostCalls \in Nat
    /\ Scaler \notin Users /\ NoUser \notin Users
  BY ConstAssumption

USE ConstFacts

LEMMA InitIInv == Init => IInv
  <1> SUFFICES ASSUME Init PROVE IInv
    OBVIOUS
  <1>1. [k \in 1..PoolMin |-> k] \in Seq(InstIds)
        /\ Len([k \in 1..PoolMin |-> k]) = PoolMin
    BY DEF InstIds
  <1>2. TypeOK
    BY <1>1 DEF Init, TypeOK, InstIds, NoInst, Unmapped, NoIdent, UserPC,
                ScalerPC, PanicWhy, None
  <1>3. ScalerInv /\ UserBounds
    BY DEF Init, ScalerInv, UserBounds
  <1>4. CursorInRange
    BY <1>1 DEF Init, CursorInRange, GoIndices, userVars
  <1>5. QED
    BY <1>2, <1>3, <1>4 DEF IInv
(***************************************************************************)
(* Every step preserves IInv: one case per action of a user and of the     *)
(* autoscaler, and under each the four parts of IInv.  Only the autoscaler *)
(* changes the pool's length, and only Pick and RemoveTrim move the cursor.*)
(***************************************************************************)
LEMMA NextIInv == IInv /\ [Next]_vars => IInv'
  <1> SUFFICES ASSUME IInv, [Next]_vars PROVE IInv'
    OBVIOUS
  <1> USE DEF InstIds, NoInst, Unmapped, NoIdent, UserPC, ScalerPC, PanicWhy,
              None, Running, Goto, HostCallDone, GoIndices, userVars
  <1>0. TypeOK /\ ScalerInv /\ UserBounds /\ CursorInRange
    BY DEF IInv
  <1>1. ASSUME NEW u \in Users, Pick(u) PROVE IInv'
    <2>1. TypeOK'
      <3>1. instIndex' \in Int
        BY <1>1, <1>0 DEF Pick, NextCursor, At, TypeOK, UserBounds
      <3>2. idx' \in [Users -> Nat \cup {-1}]
        BY <1>1, <1>0 DEF Pick, NextCursor, At, TypeOK, UserBounds
      <3>3. inst' \in [Users -> InstIds \cup {NoInst}]
        <4>1. NextCursor \in 0..Len(instances) - 1
          BY <1>1 DEF Pick
        <4>2. At(NextCursor) \in InstIds
          <5>1. instances \in Seq(InstIds)
            BY <1>0 DEF TypeOK
          <5>2. NextCursor + 1 \in 1..Len(instances)
            BY <4>1
          <5>3. QED
            BY <5>1, <5>2, ElementOfSeq DEF At
        <4>3. inst' = [inst EXCEPT ![u] = At(NextCursor)]
          BY <1>1 DEF Pick
        <4>4. QED
          BY <4>2, <4>3, <1>0 DEF TypeOK
      <3>4. pc' \in [Users -> UserPC]
        BY <1>1, <1>0 DEF Pick, NextCursor, At, TypeOK, UserBounds
      <3>5. QED
        BY <3>1, <3>2, <3>3, <3>4, <1>1, <1>0 DEF Pick, TypeOK
    <2>2. ScalerInv'
      BY <1>1, <1>0 DEF Pick, NextCursor, At, TypeOK, ScalerInv
    <2>3. UserBounds'
      BY <1>1, <1>0 DEF Pick, NextCursor, At, TypeOK, UserBounds
    <2>4. CursorInRange'
      BY <1>1, <1>0 DEF Pick, NextCursor, At, TypeOK, CursorInRange
    <2> QED
      BY <2>1, <2>2, <2>3, <2>4 DEF IInv
  <1>2. ASSUME NEW u \in Users, Acquire(u) PROVE IInv'
    <2>1. TypeOK'
      BY <1>2, <1>0 DEF Acquire, TypeOK
    <2>2. ScalerInv'
      BY <1>2, <1>0 DEF Acquire, ScalerInv
    <2>3. UserBounds'
      BY <1>2, <1>0 DEF Acquire, TypeOK, UserBounds
    <2>4. CursorInRange'
      BY <1>2, <1>0 DEF Acquire, CursorInRange
    <2> QED
      BY <2>1, <2>2, <2>3, <2>4 DEF IInv
  <1>3. ASSUME NEW u \in Users, AcquireNil(u) PROVE IInv'
    <2>1. TypeOK'
      BY <1>3, <1>0 DEF AcquireNil, Panic, TypeOK
    <2>2. ScalerInv'
      BY <1>3, <1>0 DEF AcquireNil, Panic, ScalerInv
    <2>3. UserBounds'
      BY <1>3, <1>0 DEF AcquireNil, Panic, TypeOK, UserBounds
    <2>4. CursorInRange'
      BY <1>3, <1>0 DEF AcquireNil, Panic, CursorInRange
    <2> QED
      BY <2>1, <2>2, <2>3, <2>4 DEF IInv
  <1>4. ASSUME NEW u \in Users, DrawIdent(u) PROVE IInv'
    <2>1. TypeOK'
      BY <1>4, <1>0 DEF DrawIdent, TypeOK
    <2>2. ScalerInv'
      BY <1>4, <1>0 DEF DrawIdent, ScalerInv
    <2>3. UserBounds'
      BY <1>4, <1>0 DEF DrawIdent, TypeOK, UserBounds
    <2>4. CursorInRange'
      BY <1>4, <1>0 DEF DrawIdent, CursorInRange
    <2> QED
      BY <2>1, <2>2, <2>3, <2>4 DEF IInv
  <1>5. ASSUME NEW u \in Users, DrawFails(u) PROVE IInv'
    <2>1. TypeOK'
      <3>1. holder' \in [InstIds -> Users \cup {Scaler, NoUser}]
        BY <1>5, <1>0 DEF DrawFails, TypeOK
      <3>2. pc' \in [Users -> UserPC]
        BY <1>5, <1>0 DEF DrawFails, TypeOK
      <3>3. jobs' \in [Users -> 0..MaxJobs]
        <4>1. jobs[u] < MaxJobs
          BY <1>5, <1>0 DEF DrawFails, UserBounds
        <4>2. jobs' = [jobs EXCEPT ![u] = jobs[u] + 1]
          BY <1>5 DEF DrawFails
        <4>0. jobs \in [Users -> 0..MaxJobs]
          BY <1>0 DEF TypeOK
        <4>3. QED
          BY <4>0, <4>1, <4>2
      <3>4. inst' \in [Users -> InstIds \cup {NoInst}] /\ idx' \in [Users -> Nat \cup {-1}]
        BY <1>5, <1>0 DEF DrawFails, TypeOK
      <3>5. QED
        BY <3>1, <3>2, <3>3, <3>4, <1>5, <1>0 DEF DrawFails, TypeOK
    <2>2. ScalerInv'
      BY <1>5, <1>0 DEF DrawFails, ScalerInv
    <2>3. UserBounds'
      BY <1>5, <1>0 DEF DrawFails, TypeOK, UserBounds
    <2>4. CursorInRange'
      BY <1>5, <1>0 DEF DrawFails, CursorInRange
    <2> QED
      BY <2>1, <2>2, <2>3, <2>4 DEF IInv
  <1>6. ASSUME NEW u \in Users, StoreIdent(u) PROVE IInv'
    <2>1. TypeOK'
      <3>1. mapper' \in [Idents -> Nat \cup {Unmapped}]
        BY <1>6, <1>0 DEF StoreIdent, MapPut, TypeOK, UserBounds
      <3>2. pc' \in [Users -> UserPC]
        BY <1>6, <1>0 DEF StoreIdent, MapPut, TypeOK, UserBounds
      <3>3. QED
        BY <3>1, <3>2, <1>6, <1>0 DEF StoreIdent, MapPut, TypeOK
    <2>2. ScalerInv'
      BY <1>6, <1>0 DEF StoreIdent, MapPut, ScalerInv
    <2>3. UserBounds'
      BY <1>6, <1>0 DEF StoreIdent, MapPut, TypeOK, UserBounds
    <2>4. CursorInRange'
      BY <1>6, <1>0 DEF StoreIdent, MapPut, CursorInRange
    <2> QED
      BY <2>1, <2>2, <2>3, <2>4 DEF IInv
  <1>7. ASSUME NEW u \in Users, SetupInstance(u) PROVE IInv'
    <2>1. TypeOK'
      BY <1>7, <1>0 DEF SetupInstance, TypeOK
    <2>2. ScalerInv'
      BY <1>7, <1>0 DEF SetupInstance, ScalerInv
    <2>3. UserBounds'
      BY <1>7, <1>0 DEF SetupInstance, TypeOK, UserBounds
    <2>4. CursorInRange'
      BY <1>7, <1>0 DEF SetupInstance, CursorInRange
    <2> QED
      BY <2>1, <2>2, <2>3, <2>4 DEF IInv
  <1>8. ASSUME NEW u \in Users, EnterGuest(u) PROVE IInv'
    <2>1. TypeOK'
      BY <1>8, <1>0 DEF EnterGuest, TypeOK
    <2>2. ScalerInv'
      BY <1>8, <1>0 DEF EnterGuest, ScalerInv
    <2>3. UserBounds'
      BY <1>8, <1>0 DEF EnterGuest, TypeOK, UserBounds
    <2>4. CursorInRange'
      BY <1>8, <1>0 DEF EnterGuest, CursorInRange
    <2> QED
      BY <2>1, <2>2, <2>3, <2>4 DEF IInv
  <1>9. ASSUME NEW u \in Users, EnterClosed(u) PROVE IInv'
    <2>1. TypeOK'
      BY <1>9, <1>0 DEF EnterClosed, Panic, TypeOK
    <2>2. ScalerInv'
      BY <1>9, <1>0 DEF EnterClosed, Panic, ScalerInv
    <2>3. UserBounds'
      BY <1>9, <1>0 DEF EnterClosed, Panic, TypeOK, UserBounds
    <2>4. CursorInRange'
      BY <1>9, <1>0 DEF EnterClosed, Panic, CursorInRange
    <2> QED
      BY <2>1, <2>2, <2>3, <2>4 DEF IInv
  <1>10. ASSUME NEW u \in Users, GraphQLResolve(u) PROVE IInv'
    <2>1. TypeOK'
      <3>1. calls' \in [Users -> 0..MaxHostCalls]
        <4>1. calls[u] < MaxHostCalls
          BY <1>10 DEF GraphQLResolve, Panic, ResolveErr, ResolvePanic
        <4>2. calls' = calls \/ calls' = [calls EXCEPT ![u] = calls[u] + 1]
          BY <1>10 DEF GraphQLResolve, Panic, ResolveErr, ResolvePanic, Panic
        <4>0. calls \in [Users -> 0..MaxHostCalls]
          BY <1>0 DEF TypeOK
        <4>3. QED
          BY <4>0, <4>1, <4>2
      <3>2. panicked' \in PanicWhy
        BY <1>10, <1>0 DEF GraphQLResolve, Panic, ResolveErr, ResolvePanic, TypeOK, UserBounds
      <3>3. target' \in [Users -> InstIds \cup {NoInst}]
        BY <1>10, <1>0 DEF GraphQLResolve, Panic, ResolveErr, ResolvePanic, TypeOK, UserBounds
      <3>4. pc' \in [Users -> UserPC]
        BY <1>10, <1>0 DEF GraphQLResolve, Panic, ResolveErr, ResolvePanic, TypeOK, UserBounds
      <3>5. QED
        BY <3>1, <3>2, <3>3, <3>4, <1>10, <1>0 DEF GraphQLResolve, Panic, TypeOK
    <2>2. ScalerInv'
      BY <1>10, <1>0 DEF GraphQLResolve, Panic, ResolveErr, ResolvePanic, ScalerInv
    <2>3. UserBounds'
      BY <1>10, <1>0 DEF GraphQLResolve, Panic, ResolveErr, ResolvePanic, TypeOK, UserBounds
    <2>4. CursorInRange'
      BY <1>10, <1>0 DEF GraphQLResolve, Panic, ResolveErr, ResolvePanic, CursorInRange
    <2> QED
      BY <2>1, <2>2, <2>3, <2>4 DEF IInv
  <1>11. ASSUME NEW u \in Users, GraphQLCall(u) PROVE IInv'
    <2>1. TypeOK'
      <3>1. calls' \in [Users -> 0..MaxHostCalls]
        <4>1. calls[u] < MaxHostCalls
          BY <1>11, <1>0 DEF UserBounds, GraphQLCall
        <4>2. calls' = calls \/ calls' = [calls EXCEPT ![u] = calls[u] + 1]
          BY <1>11 DEF GraphQLCall, Panic, Panic
        <4>0. calls \in [Users -> 0..MaxHostCalls]
          BY <1>0 DEF TypeOK
        <4>3. QED
          BY <4>0, <4>1, <4>2
      <3>2. panicked' \in PanicWhy
        BY <1>11, <1>0 DEF GraphQLCall, Panic, TypeOK, UserBounds
      <3>3. pc' \in [Users -> UserPC]
        BY <1>11, <1>0 DEF GraphQLCall, Panic, TypeOK, UserBounds
      <3>4. QED
        BY <3>1, <3>2, <3>3, <1>11, <1>0 DEF GraphQLCall, Panic, TypeOK
    <2>2. ScalerInv'
      BY <1>11, <1>0 DEF GraphQLCall, Panic, ScalerInv
    <2>3. UserBounds'
      BY <1>11, <1>0 DEF GraphQLCall, Panic, TypeOK, UserBounds
    <2>4. CursorInRange'
      BY <1>11, <1>0 DEF GraphQLCall, Panic, CursorInRange
    <2> QED
      BY <2>1, <2>2, <2>3, <2>4 DEF IInv
  <1>12. ASSUME NEW u \in Users, GraphQLStage(u) PROVE IInv'
    <2>1. TypeOK'
      <3>1. calls' \in [Users -> 0..MaxHostCalls]
        BY <1>12, <1>0 DEF GraphQLStage, TypeOK, UserBounds
      <3>2. ffiResult' \in [InstIds -> Users \cup {NoUser}]
        BY <1>12, <1>0 DEF GraphQLStage, TypeOK, UserBounds
      <3>3. pc' \in [Users -> UserPC]
        BY <1>12, <1>0 DEF GraphQLStage, TypeOK, UserBounds
      <3>4. QED
        BY <3>1, <3>2, <3>3, <1>12, <1>0 DEF GraphQLStage, TypeOK
    <2>2. ScalerInv'
      BY <1>12, <1>0 DEF GraphQLStage, ScalerInv
    <2>3. UserBounds'
      BY <1>12, <1>0 DEF GraphQLStage, TypeOK, UserBounds
    <2>4. CursorInRange'
      BY <1>12, <1>0 DEF GraphQLStage, CursorInRange
    <2> QED
      BY <2>1, <2>2, <2>3, <2>4 DEF IInv
  <1>13. ASSUME NEW u \in Users, GetFFIResult(u) PROVE IInv'
    <2>1. TypeOK'
      <3>1. calls' \in [Users -> 0..MaxHostCalls]
        <4>1. calls[u] < MaxHostCalls
          BY <1>13 DEF GetFFIResult, Panic, ResolvePanic
        <4>2. calls' = calls \/ calls' = [calls EXCEPT ![u] = calls[u] + 1]
          BY <1>13 DEF GetFFIResult, Panic, ResolvePanic, Panic
        <4>0. calls \in [Users -> 0..MaxHostCalls]
          BY <1>0 DEF TypeOK
        <4>3. QED
          BY <4>0, <4>1, <4>2
      <3>2. panicked' \in PanicWhy
        BY <1>13, <1>0 DEF GetFFIResult, Panic, ResolvePanic, TypeOK, UserBounds
      <3>3. ffiResult' \in [InstIds -> Users \cup {NoUser}]
        BY <1>13, <1>0 DEF GetFFIResult, Panic, ResolvePanic, TypeOK, UserBounds
      <3>4. QED
        BY <3>1, <3>2, <3>3, <1>13, <1>0 DEF GetFFIResult, Panic, TypeOK
    <2>2. ScalerInv'
      BY <1>13, <1>0 DEF GetFFIResult, Panic, ResolvePanic, ScalerInv
    <2>3. UserBounds'
      BY <1>13, <1>0 DEF GetFFIResult, Panic, ResolvePanic, TypeOK, UserBounds
    <2>4. CursorInRange'
      BY <1>13, <1>0 DEF GetFFIResult, Panic, CursorInRange
    <2> QED
      BY <2>1, <2>2, <2>3, <2>4 DEF IInv
  <1>14. ASSUME NEW u \in Users, ReturnFromGuest(u) PROVE IInv'
    <2>1. TypeOK'
      BY <1>14, <1>0 DEF ReturnFromGuest, TypeOK
    <2>2. ScalerInv'
      BY <1>14, <1>0 DEF ReturnFromGuest, ScalerInv
    <2>3. UserBounds'
      BY <1>14, <1>0 DEF ReturnFromGuest, TypeOK, UserBounds
    <2>4. CursorInRange'
      BY <1>14, <1>0 DEF ReturnFromGuest, CursorInRange
    <2> QED
      BY <2>1, <2>2, <2>3, <2>4 DEF IInv
  <1>15. ASSUME NEW u \in Users, ClearInstance(u) PROVE IInv'
    <2>1. TypeOK'
      BY <1>15, <1>0 DEF ClearInstance, TypeOK
    <2>2. ScalerInv'
      BY <1>15, <1>0 DEF ClearInstance, ScalerInv
    <2>3. UserBounds'
      BY <1>15, <1>0 DEF ClearInstance, TypeOK, UserBounds
    <2>4. CursorInRange'
      BY <1>15, <1>0 DEF ClearInstance, CursorInRange
    <2> QED
      BY <2>1, <2>2, <2>3, <2>4 DEF IInv
  <1>16. ASSUME NEW u \in Users, RemoveIdent(u) PROVE IInv'
    <2>1. TypeOK'
      BY <1>16, <1>0 DEF RemoveIdent, MapDelete, TypeOK
    <2>2. ScalerInv'
      BY <1>16, <1>0 DEF RemoveIdent, MapDelete, ScalerInv
    <2>3. UserBounds'
      BY <1>16, <1>0 DEF RemoveIdent, MapDelete, TypeOK, UserBounds
    <2>4. CursorInRange'
      BY <1>16, <1>0 DEF RemoveIdent, MapDelete, CursorInRange
    <2> QED
      BY <2>1, <2>2, <2>3, <2>4 DEF IInv
  <1>17. ASSUME NEW u \in Users, Release(u) PROVE IInv'
    <2>1. TypeOK'
      <3>1. holder' \in [InstIds -> Users \cup {Scaler, NoUser}]
        BY <1>17, <1>0 DEF Release, TypeOK, UserBounds
      <3>2. pc' \in [Users -> UserPC]
        BY <1>17, <1>0 DEF Release, TypeOK, UserBounds
      <3>3. jobs' \in [Users -> 0..MaxJobs]
        <4>1. jobs[u] < MaxJobs
          BY <1>17, <1>0 DEF Release, UserBounds
        <4>2. jobs' = [jobs EXCEPT ![u] = jobs[u] + 1]
          BY <1>17 DEF Release
        <4>0. jobs \in [Users -> 0..MaxJobs]
          BY <1>0 DEF TypeOK
        <4>3. QED
          BY <4>0, <4>1, <4>2
      <3>4. inst' \in [Users -> InstIds \cup {NoInst}]
        BY <1>17, <1>0 DEF Release, TypeOK, UserBounds
      <3>5. idx' \in [Users -> Nat \cup {-1}]
        BY <1>17, <1>0 DEF Release, TypeOK, UserBounds
      <3>6. ident' \in [Users -> Idents \cup {NoIdent}]
        BY <1>17, <1>0 DEF Release, TypeOK, UserBounds
      <3>7. target' \in [Users -> InstIds \cup {NoInst}]
        BY <1>17, <1>0 DEF Release, TypeOK, UserBounds
      <3>8. QED
        BY <3>1, <3>2, <3>3, <3>4, <3>5, <3>6, <3>7, <1>17, <1>0 DEF Release, TypeOK
    <2>2. ScalerInv'
      BY <1>17, <1>0 DEF Release, ScalerInv
    <2>3. UserBounds'
      BY <1>17, <1>0 DEF Release, TypeOK, UserBounds
    <2>4. CursorInRange'
      BY <1>17, <1>0 DEF Release, CursorInRange
    <2> QED
      BY <2>1, <2>2, <2>3, <2>4 DEF IInv
  <1>18. CASE AddInstance
    <2>1. TypeOK'
      BY <1>18, <1>0, AppendType DEF AddInstance, TypeOK
    <2>2. ScalerInv'
      BY <1>18, <1>0, AppendType DEF AddInstance, TypeOK, ScalerInv
    <2>3. UserBounds'
      BY <1>18, <1>0 DEF AddInstance, TypeOK, UserBounds
    <2>4. CursorInRange'
      BY <1>18, <1>0, AppendType DEF AddInstance, TypeOK, CursorInRange
    <2> QED
      BY <2>1, <2>2, <2>3, <2>4 DEF IInv
  <1>19. CASE RemoveSnapshot
    <2>1. TypeOK'
      BY <1>19, <1>0, ElementOfSeq DEF RemoveSnapshot, Last, TypeOK
    <2>2. ScalerInv'
      BY <1>19, <1>0, ElementOfSeq DEF RemoveSnapshot, Last, TypeOK, ScalerInv
    <2>3. UserBounds'
      BY <1>19, <1>0, ElementOfSeq DEF RemoveSnapshot, Last, TypeOK, UserBounds
    <2>4. CursorInRange'
      BY <1>19, <1>0, ElementOfSeq DEF RemoveSnapshot, Last, TypeOK, CursorInRange
    <2> QED
      BY <2>1, <2>2, <2>3, <2>4 DEF IInv
  <1>20. CASE RemoveAcquire
    <2>1. TypeOK'
      BY <1>20, <1>0 DEF RemoveAcquire, TypeOK
    <2>2. ScalerInv'
      BY <1>20, <1>0 DEF RemoveAcquire, TypeOK, ScalerInv
    <2>3. UserBounds'
      BY <1>20, <1>0 DEF RemoveAcquire, TypeOK, UserBounds
    <2>4. CursorInRange'
      BY <1>20, <1>0 DEF RemoveAcquire, TypeOK, CursorInRange
    <2> QED
      BY <2>1, <2>2, <2>3, <2>4 DEF IInv
  <1>21. CASE RemoveTrim
    <2>1. TypeOK'
      <3>1. Len(instances) > PoolMin
        BY <1>21, <1>0 DEF RemoveTrim, ScalerInv
      <3>2. instances' \in Seq(InstIds) /\ Len(instances') = Len(instances) - 1
        BY <3>1, <1>21, <1>0, FrontType DEF RemoveTrim, TypeOK
      <3>3. instIndex' \in Int
        BY <1>21, <1>0 DEF RemoveTrim, TypeOK
      <3>0. Len(instances) \in PoolMin..PoolMax
        BY <1>0 DEF TypeOK
      <3>4. Len(instances') \in PoolMin..PoolMax
        BY <3>0, <3>1, <3>2
      <3>5. QED
        BY <3>2, <3>3, <3>4, <1>21, <1>0 DEF RemoveTrim, TypeOK
    <2>2. ScalerInv'
      BY <1>21, <1>0, FrontType DEF RemoveTrim, TypeOK, ScalerInv
    <2>3. UserBounds'
      BY <1>21, <1>0, FrontType DEF RemoveTrim, TypeOK, UserBounds
    <2>4. CursorInRange'
      BY <1>21, <1>0, FrontType DEF RemoveTrim, TypeOK, ScalerInv, CursorInRange
    <2> QED
      BY <2>1, <2>2, <2>3, <2>4 DEF IInv
  <1>22. CASE RemoveRelease
    <2>1. TypeOK'
      BY <1>22, <1>0 DEF RemoveRelease, TypeOK, ScalerInv
    <2>2. ScalerInv'
      BY <1>22, <1>0 DEF RemoveRelease, TypeOK, ScalerInv
    <2>3. UserBounds'
      BY <1>22, <1>0 DEF RemoveRelease, TypeOK, UserBounds
    <2>4. CursorInRange'
      BY <1>22, <1>0 DEF RemoveRelease, TypeOK, CursorInRange
    <2> QED
      BY <2>1, <2>2, <2>3, <2>4 DEF IInv
  <1>23. CASE RemoveNilAccess
    <2>1. TypeOK'
      BY <1>23, <1>0 DEF RemoveNilAccess, TypeOK, ScalerInv
    <2>2. ScalerInv'
      BY <1>23, <1>0 DEF RemoveNilAccess, TypeOK, ScalerInv
    <2>3. UserBounds'
      BY <1>23, <1>0 DEF RemoveNilAccess, TypeOK, UserBounds
    <2>4. CursorInRange'
      BY <1>23, <1>0 DEF RemoveNilAccess, TypeOK, CursorInRange
    <2> QED
      BY <2>1, <2>2, <2>3, <2>4 DEF IInv
  <1>24. CASE UNCHANGED vars
    BY <1>24 DEF vars, userVars, IInv, TypeOK, ScalerInv, UserBounds,
                  CursorInRange
  <1> QED
    BY <1>1, <1>2, <1>3, <1>4, <1>5, <1>6, <1>7, <1>8, <1>9, <1>10, <1>11, <1>12, <1>13, <1>14, <1>15, <1>16, <1>17, <1>18, <1>19, <1>20, <1>21, <1>22, <1>23, <1>24
    DEF Next, User, Autoscaler, Terminated
-----------------------------------------------------------------------------
(* The pool's state keeps its types in every reachable state: in           *)
(* particular the pool never shrinks below autoscale_min nor grows past      *)
(* autoscale_max, and the ffiResult, ctx and access bookkeeping only ever    *)
(* names real jobs and instances.                                            *)
THEOREM TypeCorrect == Spec => []TypeOK
  <1>1. IInv => TypeOK
    BY DEF IInv
  <1>2. QED
    BY <1>1, InitIInv, NextIInv, PTL DEF Spec

(* useInstance's cursor: w.instIndex is a valid index of w.instances after  *)
(* every step, including removeInstance's trim of the last slot, so the      *)
(* slice access w.instances[w.instIndex] never indexes out of range.         *)
THEOREM CursorAlwaysInRange == Spec => []CursorInRange
  <1>1. IInv => CursorInRange
    BY DEF IInv
  <1>2. QED
    BY <1>1, InitIInv, NextIInv, PTL DEF Spec
=============
