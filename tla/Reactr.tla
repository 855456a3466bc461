-------------------------------- MODULE Reactr --------------------------------
(***************************************************************************)
(* The Reactr facade (src/rt/reactr.go) over the scheduler core it drives. *)
(*                                                                         *)
(* The facade's operations are translated from reactr.go: New, Do,        *)
(* DoWithCaps, Register, RegisterWithCaps, Schedule, Listen and the        *)
(* handler Listen installs on the bus.  The core (core.do, core.register,  *)
(* core.watch and the workers behind them) is not in this repository; it   *)
(* is modelled from spec.md section 4.1: a job is queued on the pool of    *)
(* its type, or fails with NoWorker; a worker runs it; a transient failure *)
(* is retried up to the pool's retries option; a timeout fails the promise *)
(* while the run goes on; a running job may submit sub-jobs through the    *)
(* doFunc of the Capabilities it runs with.                                *)
(*                                                                         *)
(* Capabilities objects are shared by pointer: doFunc[c] is the core that  *)
(* c.doFunc submits to.                                                    *)
(***************************************************************************)
EXTENDS Naturals, FiniteSets

CONSTANTS
    Reactrs,     \* Reactr objects, each made by New with its own core
    Types,       \* job types
    UserCaps,    \* Capabilities objects the embedding program builds
    Msgs,        \* bus messages of a listened type
    MaxJobs,     \* bound on the jobs created, by any path
    Retries,     \* the retries option of every pool
    NoCore, NoCaps, NoJob

ASSUME ReactrAssumption ==
    /\ IsFiniteSet(Reactrs) /\ Reactrs # {}
    /\ IsFiniteSet(Types) /\ Types # {}
    /\ IsFiniteSet(UserCaps) /\ IsFiniteSet(Msgs)
    /\ MaxJobs \in Nat /\ Retries \in Nat
    /\ NoCore \notin Reactrs /\ NoJob \notin Nat
    /\ NoCaps \notin UserCaps

(* r.defaultCaps, built by DefaultCaps() in New.                           *)
DefaultCaps(r) == <<"defaultCaps", r>>
Caps == UserCaps \cup {DefaultCaps(r) : r \in Reactrs}
JobIds == 1..MaxJobs

NotIssued == "none"
Pending == "pending"

(* What Result.Then() returns: a value, or an error.                       *)
ValueKinds == {"nil", "bytes", "string", "struct", "unmarshalable", "message"}
ErrorKinds == {"run_err", "fatal", "transient", "timeout", "noworker"}
Outcomes == ValueKinds \cup ErrorKinds
(* What one run of a Runnable ends with.                                   *)
RunEnds == ValueKinds \cup {"run_err", "fatal", "transient"}

(* A message's ParentID(), and the one a job sets on a grav.Message it     *)
(* returns.                                                                *)
ParentOf(m) == <<"parent", m>>
JobMsgParent == <<"parent", "job">>
JobMsgTopic == "job's own message type"

VARIABLES
    doFunc,      \* doFunc[c]: the core c.doFunc submits to
    pool,        \* pool[r][t]: the caps the pool of type t on r's core runs with
    watched,     \* watched[r]: the types r's core has a Schedule for
    listening,   \* listening[r]: the types r.Listen subscribed to
    jcore,       \* the core a job was submitted to
    jtype,
    jcaps,       \* job.caps: a per-job override, or NoCaps
    jparent,     \* the job whose run submitted it, or NoJob
    jstate,      \* "free", "queued", "running", "ended"
    jtries,      \* retries used so far
    promise,     \* the job's Result
    nextJob,
    mstate,      \* "unsent", "waiting" (in helper(...).Then()), "replied"
    mjob,        \* the job Listen's handler made for the message
    reply        \* the message it replied with

vars == <<doFunc, pool, watched, listening, jcore, jtype, jcaps, jparent,
          jstate, jtries, promise, nextJob, mstate, mjob, reply>>
jobVars == <<jcore, jtype, jcaps, jparent, jstate, jtries, promise, nextJob>>
msgVars == <<mstate, mjob, reply>>

NoReply == [topic |-> "none", parent |-> <<"parent", "none">>]

(* IsRegistered: r.core.hasWorker(jobType).                                *)
IsRegistered(r, t) == pool[r][t] # NoCaps

(***************************************************************************)
(* core.do(job), from the spec: the job goes to the pool of its type, or   *)
(* its promise fails with NoWorker at once.  It is job number nextJob.     *)
(***************************************************************************)
CoreDo(r, t, c, par) ==
    LET j == nextJob IN
    /\ j \in JobIds
    /\ nextJob' = j + 1
    /\ jcore' = [jcore EXCEPT ![j] = r]
    /\ jtype' = [jtype EXCEPT ![j] = t]
    /\ jcaps' = [jcaps EXCEPT ![j] = c]
    /\ jparent' = [jparent EXCEPT ![j] = par]
    /\ IF IsRegistered(r, t)
         THEN /\ jstate' = [jstate EXCEPT ![j] = "queued"]
              /\ promise' = [promise EXCEPT ![j] = Pending]
         ELSE /\ jstate' = [jstate EXCEPT ![j] = "ended"]
              /\ promise' = [promise EXCEPT ![j] = "noworker"]
    /\ UNCHANGED jtries

(* The Capabilities a running job sees: its override, or its pool's.       *)
RunCaps(j) == IF jcaps[j] # NoCaps THEN jcaps[j] ELSE pool[jcore[j]][jtype[j]]

(* Listen's reply to message m for a job outcome o (reactr.go 100-135).    *)
ReplyFor(m, o) ==
    CASE o = "run_err"
              -> [topic |-> "reactr.runerr", parent |-> ParentOf(m)]
      [] o \in ErrorKinds \cup {"unmarshalable"}
              -> [topic |-> "reactr.joberr", parent |-> ParentOf(m)]
      [] o = "nil"
              -> [topic |-> "reactr.nil", parent |-> ParentOf(m)]
      [] o = "message"
              -> [topic |-> JobMsgTopic, parent |-> JobMsgParent]
      [] OTHER
              -> [topic |-> "reactr.result", parent |-> ParentOf(m)]

-----------------------------------------------------------------------------
(* New, for every Reactr: a fresh core with no pools, and defaultCaps.     *)
Init ==
    /\ doFunc = [c \in Caps |-> NoCore]
    /\ pool = [r \in Reactrs |-> [t \in Types |-> NoCaps]]
    /\ watched = [r \in Reactrs |-> {}]
    /\ listening = [r \in Reactrs |-> {}]
    /\ jcore = [j \in JobIds |-> NoCore]
    /\ jtype = [j \in JobIds |-> CHOOSE t \in Types : TRUE]
    /\ jcaps = [j \in JobIds |-> NoCaps]
    /\ jparent = [j \in JobIds |-> NoJob]
    /\ jstate = [j \in JobIds |-> "free"]
    /\ jtries = [j \in JobIds |-> 0]
    /\ promise = [j \in JobIds |-> NotIssued]
    /\ nextJob = 1
    /\ mstate = [m \in Msgs |-> "unsent"]
    /\ mjob = [m \in Msgs |-> NoJob]
    /\ reply = [m \in Msgs |-> NoReply]

(* DoWithCaps(job, caps); Do(job) is DoWithCaps(job, nil).  A non-nil      *)
(* caps gets caps.doFunc = r.core.do and becomes job.caps.                 *)
DoWithCaps(r, t, c) ==
    /\ doFunc' = IF c # NoCaps THEN [doFunc EXCEPT ![c] = r] ELSE doFunc
    /\ CoreDo(r, t, c, NoJob)
    /\ UNCHANGED <<pool, watched, listening, msgVars>>

(* RegisterWithCaps: caps.doFunc = r.core.do, whether or not the type is   *)
(* registered already, then core.register, which makes the pool of a new   *)
(* type and keeps the pool of a registered one (spec 3: a pool is created  *)
(* on register).  Register is RegisterWithCaps with r.defaultCaps.          *)
RegisterWithCaps(r, t, c) ==
    /\ doFunc' = [doFunc EXCEPT ![c] = r]
    /\ pool' = [pool EXCEPT ![r][t] = IF IsRegistered(r, t) THEN @ ELSE c]
    /\ UNCHANGED <<watched, listening, jobVars, msgVars>>

Register(r, t) == RegisterWithCaps(r, t, DefaultCaps(r))

(* Schedule: core.watch(s).                                                *)
Schedule(r, t) ==
    /\ t \notin watched[r]
    /\ watched' = [watched EXCEPT ![r] = @ \cup {t}]
    /\ UNCHANGED <<doFunc, pool, listening, jobVars, msgVars>>

(* A watched Schedule fires and the core does a job of its type (spec).   *)
ScheduleFires(r, t) ==
    /\ t \in watched[r]
    /\ CoreDo(r, t, NoCaps, NoJob)
    /\ UNCHANGED <<doFunc, pool, watched, listening, msgVars>>

(* Listen: pod.OnType(msgType, handler).                                   *)
Listen(r, t) ==
    /\ t \notin listening[r]
    /\ listening' = [listening EXCEPT ![r] = @ \cup {t}]
    /\ UNCHANGED <<doFunc, pool, watched, jobVars, msgVars>>

(* The handler receives m: helper(msg.Data()) does r.Do(NewJob(msgType,    *)
(* data)) and waits in Then().                                             *)
Handle(r, m) ==
    /\ mstate[m] = "unsent"
    /\ \E t \in listening[r] : CoreDo(r, t, NoCaps, NoJob)
    /\ mstate' = [mstate EXCEPT ![m] = "waiting"]
    /\ mjob' = [mjob EXCEPT ![m] = nextJob]
    /\ UNCHANGED <<doFunc, pool, watched, listening, reply>>

(* Mutant: as the comment on Listen says, nothing is sent for a nil result. *)
ReplyNilSilent(m) ==
    /\ mstate[m] = "waiting"
    /\ promise[mjob[m]] \notin {NotIssued, Pending}
    /\ mstate' = [mstate EXCEPT ![m] =
                    IF promise[mjob[m]] = "nil" THEN "dropped" ELSE "replied"]
    /\ reply' = [reply EXCEPT ![m] =
                    IF promise[mjob[m]] = "nil" THEN @
                    ELSE ReplyFor(m, promise[mjob[m]])]
    /\ UNCHANGED <<doFunc, pool, watched, listening, jobVars, mjob>>

(* Then() returns; the reply is built from the outcome and sent with      *)
(* pod.ReplyTo(msg, replyMsg).                                             *)
Reply(m) ==
    /\ mstate[m] = "waiting"
    /\ promise[mjob[m]] \notin {NotIssued, Pending}
    /\ mstate' = [mstate EXCEPT ![m] = "replied"]
    /\ reply' = [reply EXCEPT ![m] = ReplyFor(m, promise[mjob[m]])]
    /\ UNCHANGED <<doFunc, pool, watched, listening, jobVars, mjob>>

-----------------------------------------------------------------------------
(***************** the scheduler core, from spec.md 4.1 ********************)

(* A worker of the job's pool dequeues it.                                 *)
Start(j) ==
    /\ jstate[j] = "queued"
    /\ jstate' = [jstate EXCEPT ![j] = "running"]
    /\ UNCHANGED <<doFunc, pool, watched, listening, jcore, jtype, jcaps,
                   jparent, jtries, promise, nextJob, msgVars>>

(* A running job submits a sub-job through the doFunc of its caps; every   *)
(* caps a job can run with had doFunc set by DoWithCaps or Register.       *)
SubJob(j) ==
    /\ jstate[j] = "running"
    /\ doFunc[RunCaps(j)] # NoCore
    /\ \E t \in Types : CoreDo(doFunc[RunCaps(j)], t, NoCaps, j)
    /\ UNCHANGED <<doFunc, pool, watched, listening, msgVars>>

(* Mutant: one retry too many (<= for <).                                  *)
FinishRetryOffByOne(j) ==
    /\ jstate[j] = "running"
    /\ \E o \in RunEnds :
          IF o = "transient" /\ jtries[j] <= Retries /\ promise[j] = Pending
            THEN /\ jstate' = [jstate EXCEPT ![j] = "queued"]
                 /\ jtries' = [jtries EXCEPT ![j] = @ + 1]
                 /\ UNCHANGED promise
            ELSE /\ jstate' = [jstate EXCEPT ![j] = "ended"]
                 /\ promise' = [promise EXCEPT ![j] =
                                  IF @ = Pending THEN o ELSE @]
                 /\ UNCHANGED jtries
    /\ UNCHANGED <<doFunc, pool, watched, listening, jcore, jtype, jcaps,
                   jparent, nextJob, msgVars>>

(* The run ends.  A transient failure is re-queued while retries remain   *)
(* and the promise is still pending; otherwise the promise is completed    *)
(* with the outcome, unless a timeout completed it already.                *)
Finish(j) ==
    /\ jstate[j] = "running"
    /\ \E o \in RunEnds :
          IF o = "transient" /\ jtries[j] < Retries /\ promise[j] = Pending
            THEN /\ jstate' = [jstate EXCEPT ![j] = "queued"]
                 /\ jtries' = [jtries EXCEPT ![j] = @ + 1]
                 /\ UNCHANGED promise
            ELSE /\ jstate' = [jstate EXCEPT ![j] = "ended"]
                 /\ promise' = [promise EXCEPT ![j] =
                                  IF @ = Pending THEN o ELSE @]
                 /\ UNCHANGED jtries
    /\ UNCHANGED <<doFunc, pool, watched, listening, jcore, jtype, jcaps,
                   jparent, nextJob, msgVars>>

(* timeout_seconds elapses: the promise fails, the run goes on.            *)
TimeOut(j) ==
    /\ jstate[j] = "running" /\ promise[j] = Pending
    /\ promise' = [promise EXCEPT ![j] = "timeout"]
    /\ UNCHANGED <<doFunc, pool, watched, listening, jcore, jtype, jcaps,
                   jparent, jstate, jtries, nextJob, msgVars>>

-----------------------------------------------------------------------------
(* All jobs made and ended, no handler waiting: the program may stop.     *)
Quiescent ==
    /\ nextJob > MaxJobs
    /\ \A j \in JobIds : jstate[j] = "ended"
    /\ \A m \in Msgs : mstate[m] # "waiting"

Facade ==
    \E r \in Reactrs :
        \/ \E t \in Types, c \in UserCaps \cup {NoCaps} : DoWithCaps(r, t, c)
        \/ \E t \in Types, c \in UserCaps : RegisterWithCaps(r, t, c)
        \/ \E t \in Types : Register(r, t) \/ Schedule(r, t)
                            \/ ScheduleFires(r, t) \/ Listen(r, t)
        \/ \E m \in Msgs : Handle(r, m)

Core ==
    \E j \in JobIds : Start(j) \/ SubJob(j) \/ Finish(j) \/ TimeOut(j)

Next ==
    \/ Facade
    \/ \E m \in Msgs : Reply(m)
    \/ Core
    \/ Quiescent /\ UNCHANGED vars

Spec == Init /\ [][Next]_vars

(* Workers and handlers are scheduled weakly fairly and the timeout timer  *)
(* fires; a Runnable's run itself may never end (a guest that loops).      *)
Fairness ==
    /\ \A j \in JobIds : WF_vars(Start(j)) /\ WF_vars(TimeOut(j))
    /\ \A m \in Msgs : WF_vars(Reply(m))

FairSpec == Spec /\ Fairness
-----------------------------------------------------------------------------
(******************************* properties ********************************)

TypeOK ==
    /\ doFunc \in [Caps -> Reactrs \cup {NoCore}]
    /\ pool \in [Reactrs -> [Types -> Caps \cup {NoCaps}]]
    /\ watched \in [Reactrs -> SUBSET Types]
    /\ listening \in [Reactrs -> SUBSET Types]
    /\ jcore \in [JobIds -> Reactrs \cup {NoCore}]
    /\ jtype \in [JobIds -> Types]
    /\ jcaps \in [JobIds -> Caps \cup {NoCaps}]
    /\ jparent \in [JobIds -> JobIds \cup {NoJob}]
    /\ jstate \in [JobIds -> {"free", "queued", "running", "ended"}]
    /\ jtries \in [JobIds -> 0..Retries]
    /\ promise \in [JobIds -> {NotIssued, Pending} \cup Outcomes]
    /\ nextJob \in 1..MaxJobs + 1
    /\ mstate \in [Msgs -> {"unsent", "waiting", "replied", "dropped"}]
    /\ mjob \in [Msgs -> JobIds \cup {NoJob}]

(* The strengthening that makes TypeOK inductive (ReactrProofs): a queued *)
(* or running job has a core and a pool of its type there, so the caps it  *)
(* runs with, and their doFunc, exist when SubJob calls it.                *)
WorkerInv ==
    \A j \in JobIds :
        jstate[j] \in {"queued", "running"} =>
            /\ jcore[j] \in Reactrs
            /\ pool[jcore[j]][jtype[j]] # NoCaps

(* Listen: every message the handler took is eventually replied to (the   *)
(* comment on Listen says a nil result is not replied to; the code does). *)
ListenReplies ==
    \A m \in Msgs : mstate[m] = "waiting" ~> mstate[m] = "replied"

(***************************************************************************)
(* spec.md 9: a capability override inherits the parent's job-dispatch    *)
(* function "so nested job submissions stay within the same scheduler".   *)
(* A sub-job goes to the core its parent runs on.                          *)
(***************************************************************************)
SubJobsStayInScheduler ==
    \A j \in JobIds :
        jparent[j] # NoJob => jcore[j] = jcore[jparent[j]]

(***************************************************************************)
(* spec.md 6 and scenario 7: Listen replies on the result, nil, run_err or *)
(* job_err topic, with the parent ID of the message it answers.            *)
(***************************************************************************)
ReplyShape ==
    \A m \in Msgs :
        mstate[m] = "replied" =>
            /\ reply[m].topic \in {"reactr.result", "reactr.nil",
                                   "reactr.runerr", "reactr.joberr"}
            /\ reply[m].parent = ParentOf(m)
=============================================================================
