--------------------------- MODULE SchedulerProofs ---------------------------
(***************************************************************************)
(* Theorems about the owner of the jobs, for any number of processes.      *)
(***************************************************************************)
EXTENDS Scheduler, TLAPS

(* A process runs jobs only while it holds the lock: from its first refresh to
   the last job that a shutdown waits for. *)
JobsUnderLock == \A p \in Procs : running[p] # {} => lock = p

SchedulerInv == SchedulerTypeOK /\ JobsUnderLock

(* A process that goes leaves neither jobs nor the lock behind. *)
LEMMA GonePreserves ==
  ASSUME SchedulerInv, NEW p \in Procs, Gone(p)
  PROVE  SchedulerInv'
<1>. USE SchedulerAssumption DEF SchedulerInv, SchedulerTypeOK, Gone
<1>1. SchedulerTypeOK'
  OBVIOUS
<1>2. JobsUnderLock'
  BY DEF JobsUnderLock
<1>. QED BY <1>1, <1>2

(* Only the holder of the lock comes to run a job. *)
LEMMA LifespanPreserves ==
  ASSUME SchedulerInv, NEW p \in Procs, Lifespan(p)
  PROVE  SchedulerInv'
<1>. USE SchedulerAssumption DEF SchedulerInv, SchedulerTypeOK, JobsUnderLock
<1>1. CASE Start(p)
  <2>1. CASE p \in Disabled \/ lock # None
    BY <1>1, <2>1 DEF Start, memory
  <2>2. CASE p \notin Disabled /\ lock = None
    <3>1. \A q \in Procs : running[q] = {}
      BY <2>2
    <3>2. "refresh" \in Jobs
      BY DEF Jobs
    <3>. QED BY <1>1, <2>2, <3>1, <3>2 DEF Start, memory
  <2>. QED BY <2>1, <2>2
<1>2. CASE Started(p)
  BY <1>2 DEF Started, memory
<1>3. CASE Stop(p)
  <2>1. CASE Gone(p)
    BY <2>1, GonePreserves
  <2>2. CASE /\ stage[p] = "owner"
             /\ stage' = [stage EXCEPT ![p] = "stopping"]
             /\ UNCHANGED <<lock, running, memory, settings>>
    BY <2>2 DEF memory
  <2>. QED BY <1>3, <2>1, <2>2 DEF Stop
<1>4. CASE StartFails(p) \/ Stopped(p) \/ Crash(p)
  BY <1>4, GonePreserves DEF StartFails, Stopped, Crash
<1>. QED BY <1>1, <1>2, <1>3, <1>4 DEF Lifespan

(* Refreshing, firing and finishing leave the lock with its owner. *)
LEMMA JobsPreserve ==
  ASSUME SchedulerInv, NEW p \in Procs,
         Refresh(p) \/ \E job \in Jobs : Fire(p, job) \/ Finish(p, job)
  PROVE  SchedulerInv'
<1>. USE DEF SchedulerInv, SchedulerTypeOK, JobsUnderLock
<1>1. ASSUME NEW job \in Jobs, Fire(p, job)
      PROVE  SchedulerInv'
  BY <1>1 DEF Fire, memory
<1>2. ASSUME NEW job \in Jobs, Finish(p, job)
      PROVE  SchedulerInv'
  BY <1>2 DEF Finish, memory
<1>3. CASE RefreshReads(p)
  BY <1>3 DEF RefreshReads
<1>4. CASE RefreshInstalls(p)
  BY <1>4 DEF RefreshInstalls, RefreshEnds
<1>5. CASE RefreshFails(p)
  BY <1>5 DEF RefreshFails, RefreshEnds
<1>. QED BY <1>1, <1>2, <1>3, <1>4, <1>5 DEF Refresh

(* The lock, the stages and the jobs agree after every step. *)
THEOREM SchedulerInvariant == SchedulerSpec => []SchedulerInv
<1>1. SchedulerInit => SchedulerInv
  BY SchedulerAssumption DEF SchedulerInit, SchedulerInv, SchedulerTypeOK, JobsUnderLock
<1>2. SchedulerInv /\ [SchedulerNext]_schedulerVars => SchedulerInv'
  <2>. SUFFICES ASSUME SchedulerInv, [SchedulerNext]_schedulerVars
                PROVE  SchedulerInv'
    OBVIOUS
  <2>1. ASSUME NEW p \in Procs, Lifespan(p)
        PROVE  SchedulerInv'
    BY <2>1, LifespanPreserves
  <2>2. ASSUME NEW p \in Procs,
               Refresh(p) \/ \E job \in Jobs : Fire(p, job) \/ Finish(p, job)
        PROVE  SchedulerInv'
    BY <2>2, JobsPreserve
  <2>3. CASE ChangeSettings \/ UNCHANGED schedulerVars
    BY <2>3 DEF ChangeSettings, schedulerVars, memory, SchedulerInv, SchedulerTypeOK, JobsUnderLock
  <2>. QED BY <2>1, <2>2, <2>3 DEF SchedulerNext
<1>. QED BY <1>1, <1>2, PTL DEF SchedulerSpec

(* Every reachable state has its type, and the lock is held by the one process
   that is starting, owning or stopping the jobs. *)
THEOREM SchedulerTypeCorrect == SchedulerSpec => []SchedulerTypeOK
<1>1. SchedulerInv => SchedulerTypeOK
  BY DEF SchedulerInv
<1>. QED BY <1>1, SchedulerInvariant, PTL

(* Jobs of two processes never run side by side, for any number of processes. *)
THEOREM OneProcessRunsJobs == SchedulerSpec => []JobsOfOneProcess
<1>1. SchedulerInv => JobsOfOneProcess
  BY DEF SchedulerInv, JobsUnderLock, JobsOfOneProcess
<1>. QED BY <1>1, SchedulerInvariant, PTL
=============================================================================
