---------------------------- MODULE ReactrProofs ----------------------------
(***************************************************************************)
(* TLAPS proof that Reactr.tla's facade over the scheduler core keeps its  *)
(* state well typed, for every number of Reactrs, types, capabilities,     *)
(* messages, jobs and retries.                                             *)
(***************************************************************************)
EXTENDS Reactr, TLAPS

USE ReactrAssumption

(***************************************************************************)
(* Type correctness.  TypeOK is not inductive by itself: SubJob submits    *)
(* through doFunc[RunCaps(j)], which names a core only when the running    *)
(* job has a core and a pool of its type there.  WorkerInv says so, and    *)
(* TypeOK /\ WorkerInv is inductive.  TypeOK is split in the job half,     *)
(* which core.do changes, and the facade half.                             *)
(***************************************************************************)
JobTypeOK ==
    /\ jcore \in [JobIds -> Reactrs \cup {NoCore}]
    /\ jtype \in [JobIds -> Types]
    /\ jcaps \in [JobIds -> Caps \cup {NoCaps}]
    /\ jparent \in [JobIds -> JobIds \cup {NoJob}]
    /\ jstate \in [JobIds -> {"free", "queued", "running", "ended"}]
    /\ jtries \in [JobIds -> 0..Retries]
    /\ promise \in [JobIds -> {NotIssued, Pending} \cup Outcomes]
    /\ nextJob \in 1..MaxJobs + 1

FacadeTypeOK ==
    /\ doFunc \in [Caps -> Reactrs \cup {NoCore}]
    /\ pool \in [Reactrs -> [Types -> Caps \cup {NoCaps}]]
    /\ watched \in [Reactrs -> SUBSET Types]
    /\ listening \in [Reactrs -> SUBSET Types]
    /\ mstate \in [Msgs -> {"unsent", "waiting", "replied", "dropped"}]
    /\ mjob \in [Msgs -> JobIds \cup {NoJob}]

TInv == TypeOK /\ WorkerInv

LEMMA TypeSplit == TypeOK <=> JobTypeOK /\ FacadeTypeOK
  BY DEF TypeOK, JobTypeOK, FacadeTypeOK

(* core.do keeps the jobs well typed, and queues a job only on a pool.     *)
LEMMA CoreDoTypes ==
    ASSUME JobTypeOK, WorkerInv, NEW r \in Reactrs, NEW t \in Types,
           NEW c \in Caps \cup {NoCaps}, NEW par \in JobIds \cup {NoJob},
           CoreDo(r, t, c, par), pool' = pool
    PROVE  JobTypeOK' /\ WorkerInv'
  <1> DEFINE j == nextJob
  <1>1. /\ j \in JobIds /\ nextJob' = j + 1
        /\ jcore' = [jcore EXCEPT ![j] = r]
        /\ jtype' = [jtype EXCEPT ![j] = t]
        /\ jcaps' = [jcaps EXCEPT ![j] = c]
        /\ jparent' = [jparent EXCEPT ![j] = par]
        /\ jtries' = jtries
    BY DEF CoreDo
  <1>2. \/ /\ pool[r][t] # NoCaps
           /\ jstate' = [jstate EXCEPT ![j] = "queued"]
           /\ promise' = [promise EXCEPT ![j] = Pending]
        \/ /\ jstate' = [jstate EXCEPT ![j] = "ended"]
           /\ promise' = [promise EXCEPT ![j] = "noworker"]
    BY DEF CoreDo, IsRegistered
  <1>3. JobTypeOK'
    <2>1. nextJob' \in 1..MaxJobs + 1
      BY <1>1 DEF JobIds
    <2>2. promise' \in [JobIds -> {NotIssued, Pending} \cup Outcomes]
      BY <1>1, <1>2 DEF JobTypeOK, Outcomes, ErrorKinds
    <2>3. jstate' \in [JobIds -> {"free", "queued", "running", "ended"}]
      BY <1>1, <1>2 DEF JobTypeOK
    <2> QED
      BY <1>1, <2>1, <2>2, <2>3 DEF JobTypeOK
  <1>4. WorkerInv'
    BY <1>1, <1>2 DEF WorkerInv, JobTypeOK
  <1> QED
    BY <1>3, <1>4

LEMMA InitTInv == Init => TInv
  <1> SUFFICES ASSUME Init PROVE TInv
    OBVIOUS
  <1>1. JobTypeOK
    BY DEF Init, JobTypeOK, JobIds, NotIssued
  <1>2. FacadeTypeOK
    BY DEF Init, FacadeTypeOK, Caps
  <1>3. WorkerInv
    BY DEF Init, WorkerInv
  <1> QED
    BY <1>1, <1>2, <1>3, TypeSplit DEF TInv

(* A step that leaves the jobs alone keeps them well typed and queued on   *)
(* pools, as long as no registered pool disappears.                        *)
LEMMA JobsUnchanged ==
    ASSUME JobTypeOK, WorkerInv,
           UNCHANGED <<jcore, jtype, jcaps, jparent, jstate, jtries, promise, nextJob>>,
           \A r \in Reactrs, t \in Types : pool[r][t] # NoCaps => pool'[r][t] # NoCaps
    PROVE  JobTypeOK' /\ WorkerInv'
  BY DEF JobTypeOK, WorkerInv

(* Every step of the facade or the core keeps TInv.                        *)
LEMMA NextTInv == TInv /\ [Next]_vars => TInv'
<1>0. TypeOK' <=> JobTypeOK' /\ FacadeTypeOK'
  BY DEF TypeOK, JobTypeOK, FacadeTypeOK
<1> SUFFICES ASSUME JobTypeOK, FacadeTypeOK, WorkerInv, [Next]_vars
             PROVE  JobTypeOK' /\ FacadeTypeOK' /\ WorkerInv'
  BY <1>0, TypeSplit DEF TInv
<1> USE DEF jobVars, msgVars
<1>1. ASSUME NEW r \in Reactrs, NEW t \in Types,
             NEW c \in UserCaps \cup {NoCaps}, DoWithCaps(r, t, c)
      PROVE  JobTypeOK' /\ FacadeTypeOK' /\ WorkerInv'
  <2>1. JobTypeOK' /\ WorkerInv'
    BY <1>1, CoreDoTypes DEF DoWithCaps, Caps
  <2>2. doFunc' \in [Caps -> Reactrs \cup {NoCore}]
    BY <1>1 DEF DoWithCaps, FacadeTypeOK, Caps
  <2>3. FacadeTypeOK'
    BY <1>1, <2>2 DEF DoWithCaps, FacadeTypeOK
  <2> QED
    BY <2>1, <2>3
<1>2. ASSUME NEW r \in Reactrs, NEW t \in Types, NEW c \in Caps,
             RegisterWithCaps(r, t, c)
      PROVE  JobTypeOK' /\ FacadeTypeOK' /\ WorkerInv'
  <2>1. /\ doFunc' = [doFunc EXCEPT ![c] = r]
        /\ pool' = [pool EXCEPT ![r][t] = IF pool[r][t] # NoCaps THEN @ ELSE c]
    BY <1>2 DEF RegisterWithCaps, IsRegistered
  <2>2. \A x \in Reactrs, y \in Types : pool[x][y] # NoCaps => pool'[x][y] # NoCaps
    BY <2>1 DEF FacadeTypeOK
  <2>3. JobTypeOK' /\ WorkerInv'
    BY <1>2, <2>2, JobsUnchanged DEF RegisterWithCaps
  <2>4. FacadeTypeOK'
    BY <1>2, <2>1 DEF RegisterWithCaps, FacadeTypeOK
  <2> QED
    BY <2>3, <2>4
<1>3. ASSUME NEW r \in Reactrs, NEW t \in Types, Schedule(r, t) \/ Listen(r, t)
      PROVE  JobTypeOK' /\ FacadeTypeOK' /\ WorkerInv'
  BY <1>3, JobsUnchanged DEF Schedule, Listen, FacadeTypeOK
<1>4. ASSUME NEW r \in Reactrs, NEW t \in Types, ScheduleFires(r, t)
      PROVE  JobTypeOK' /\ FacadeTypeOK' /\ WorkerInv'
  <2>1. JobTypeOK' /\ WorkerInv'
    BY <1>4, CoreDoTypes DEF ScheduleFires
  <2> QED
    BY <1>4, <2>1 DEF ScheduleFires, FacadeTypeOK
<1>5. ASSUME NEW r \in Reactrs, NEW m \in Msgs, Handle(r, m)
      PROVE  JobTypeOK' /\ FacadeTypeOK' /\ WorkerInv'
  <2>1. PICK t \in listening[r] : CoreDo(r, t, NoCaps, NoJob)
    BY <1>5 DEF Handle
  <2>2. t \in Types /\ nextJob \in JobIds
    BY <2>1 DEF FacadeTypeOK, CoreDo
  <2>3. JobTypeOK' /\ WorkerInv'
    BY <1>5, <2>1, <2>2, CoreDoTypes DEF Handle
  <2>4. FacadeTypeOK'
    BY <1>5, <2>2 DEF Handle, FacadeTypeOK
  <2> QED
    BY <2>3, <2>4
<1>6. ASSUME NEW m \in Msgs, Reply(m)
      PROVE  JobTypeOK' /\ FacadeTypeOK' /\ WorkerInv'
  BY <1>6, JobsUnchanged DEF Reply, FacadeTypeOK
<1>7. ASSUME NEW j \in JobIds, Start(j)
      PROVE  JobTypeOK' /\ FacadeTypeOK' /\ WorkerInv'
  BY <1>7 DEF Start, JobTypeOK, FacadeTypeOK, WorkerInv
<1>8. ASSUME NEW j \in JobIds, SubJob(j)
      PROVE  JobTypeOK' /\ FacadeTypeOK' /\ WorkerInv'
  <2>1. jstate[j] = "running" /\ doFunc[RunCaps(j)] # NoCore
    BY <1>8 DEF SubJob
  <2>2. jcore[j] \in Reactrs /\ pool[jcore[j]][jtype[j]] # NoCaps
    BY <2>1 DEF WorkerInv
  <2>3. RunCaps(j) \in Caps
    BY <2>2 DEF RunCaps, JobTypeOK, FacadeTypeOK
  <2>4. doFunc[RunCaps(j)] \in Reactrs
    BY <2>1, <2>3 DEF FacadeTypeOK
  <2>5. PICK t \in Types : CoreDo(doFunc[RunCaps(j)], t, NoCaps, j)
    BY <1>8 DEF SubJob
  <2>6. JobTypeOK' /\ WorkerInv'
    BY <1>8, <2>4, <2>5, CoreDoTypes DEF SubJob
  <2> QED
    BY <1>8, <2>6 DEF SubJob, FacadeTypeOK
<1>9. ASSUME NEW j \in JobIds, Finish(j)
      PROVE  JobTypeOK' /\ FacadeTypeOK' /\ WorkerInv'
  <2>1. PICK o \in RunEnds :
          \/ /\ jtries[j] < Retries
             /\ jstate' = [jstate EXCEPT ![j] = "queued"]
             /\ jtries' = [jtries EXCEPT ![j] = jtries[j] + 1]
             /\ promise' = promise
          \/ /\ jstate' = [jstate EXCEPT ![j] = "ended"]
             /\ promise' = [promise EXCEPT ![j] = IF @ = Pending THEN o ELSE @]
             /\ jtries' = jtries
    BY <1>9 DEF Finish
  <2>2. o \in Outcomes
    BY DEF RunEnds, Outcomes, ValueKinds, ErrorKinds
  <2>3. jtries' \in [JobIds -> 0..Retries]
    BY <2>1 DEF JobTypeOK
  <2>4. JobTypeOK'
    BY <1>9, <2>1, <2>2, <2>3 DEF Finish, JobTypeOK
  <2>5. WorkerInv'
    <3>1. jstate[j] = "running" /\ UNCHANGED <<pool, jcore, jtype>>
      BY <1>9 DEF Finish
    <3>2. jcore[j] \in Reactrs /\ pool[jcore[j]][jtype[j]] # NoCaps
      BY <3>1 DEF WorkerInv
    <3>3. \A i \in JobIds : i # j => jstate'[i] = jstate[i]
      BY <2>1 DEF JobTypeOK
    <3> QED
      BY <3>1, <3>2, <3>3 DEF WorkerInv
  <2> QED
    BY <1>9, <2>4, <2>5 DEF Finish, FacadeTypeOK
<1>10. ASSUME NEW j \in JobIds, TimeOut(j)
       PROVE  JobTypeOK' /\ FacadeTypeOK' /\ WorkerInv'
  BY <1>10 DEF TimeOut, JobTypeOK, FacadeTypeOK, WorkerInv, Outcomes, ErrorKinds
<1>11. CASE UNCHANGED vars
  BY <1>11 DEF vars, JobTypeOK, FacadeTypeOK, WorkerInv
<1> QED
  BY <1>1, <1>2, <1>3, <1>4, <1>5, <1>6, <1>7, <1>8, <1>9, <1>10, <1>11
  DEF Next, Facade, Core, Register, Caps

(* The facade's and the core's state keeps its types in every reachable    *)
(* state: every sub-job goes through the doFunc of caps that exist and     *)
(* name a core, and a job's retries never pass the pool's retries option.  *)
THEOREM ReactrTypeCorrect == Spec => []TypeOK
  <1>1. TInv => TypeOK
    BY DEF TInv
  <1> QED
    BY <1>1, InitTInv, NextTInv, PTL DEF Spec
=============================================================================
