----------------------------- MODULE Scheduler -----------------------------
(***************************************************************************)
(* jobs/scheduler.py under the lifespan of main.py: of the local processes *)
(* the one that holds the scheduler's file lock runs the jobs -- recovery  *)
(* and the refresh of the schedule every minute, the daily synchronization *)
(* when its trigger is due.  Each process runs a job in one thread at a    *)
(* time (max_instances=1); shutting down waits for the jobs that run, a    *)
(* crash takes them along, and the lock goes when its holder goes.         *)
(*                                                                         *)
(* refresh reads the settings in one step and installs the trigger in a    *)
(* later one; an administrator may change them in between.                 *)
(***************************************************************************)
EXTENDS FiniteSets

CONSTANTS
  Procs,      \* processes on this host
  Disabled,   \* those configured without scheduler
  Schedules,  \* daily_sync_time with timezone
  None

Jobs == {"recover", "refresh", "daily"}

ASSUME SchedulerAssumption ==
  /\ Disabled \subseteq Procs
  /\ None \notin Procs \cup Schedules

VARIABLES
  stage,     \* where the lifespan of each process is
  lock,      \* holder of the file lock
  running,   \* jobs under way, per process
  read,      \* what the refresh under way has read
  schedule,  \* self.schedule: the last schedule taken over
  trigger,   \* the trigger of daily-lead-sync
  settings   \* the schedule in the database

memory == <<read, schedule, trigger>>
schedulerVars == <<stage, lock, running, read, schedule, trigger, settings>>

SchedulerTypeOK ==
  /\ stage \in [Procs -> {"down", "starting", "idle", "owner", "stopping"}]
  /\ lock \in Procs \cup {None}
  /\ running \in [Procs -> SUBSET Jobs]
  /\ read \in [Procs -> Schedules \cup {None}]
  /\ schedule \in [Procs -> Schedules \cup {None}]
  /\ trigger \in [Procs -> Schedules \cup {None}]
  /\ settings \in Schedules
  /\ \A p \in Procs : stage[p] \in {"starting", "owner", "stopping"} <=> lock = p

SchedulerInit ==
  /\ stage = [p \in Procs |-> "down"]
  /\ lock = None
  /\ running = [p \in Procs |-> {}]
  /\ read = [p \in Procs |-> None]
  /\ schedule = [p \in Procs |-> None]
  /\ trigger = [p \in Procs |-> None]
  /\ settings \in Schedules

-----------------------------------------------------------------------------
(* start: only one process gets the lock; its first refresh runs right away. *)
Start(p) ==
  /\ stage[p] = "down"
  /\ IF p \in Disabled \/ lock # None
     THEN /\ stage' = [stage EXCEPT ![p] = "idle"]
          /\ UNCHANGED <<lock, running>>
     ELSE /\ stage' = [stage EXCEPT ![p] = "starting"]
          /\ lock' = p
          /\ running' = [running EXCEPT ![p] = {"refresh"}]
  /\ UNCHANGED <<memory, settings>>

Started(p) ==
  /\ stage[p] = "starting" /\ running[p] = {}
  /\ stage' = [stage EXCEPT ![p] = "owner"]
  /\ UNCHANGED <<lock, running, memory, settings>>

(* The process ends; nothing of it is left. *)
Gone(p) ==
  /\ stage' = [stage EXCEPT ![p] = "down"]
  /\ lock' = IF lock = p THEN None ELSE lock
  /\ running' = [running EXCEPT ![p] = {}]
  /\ read' = [read EXCEPT ![p] = None]
  /\ schedule' = [schedule EXCEPT ![p] = None]
  /\ trigger' = [trigger EXCEPT ![p] = None]
  /\ UNCHANGED settings

(* A job cannot be added or the scheduler not started: start raises, and with
   it the lifespan. *)
StartFails(p) ==
  /\ stage[p] = "starting" /\ running[p] = {}
  /\ Gone(p)

(* The interval of a job, or its cron trigger, is due. *)
Fire(p, job) ==
  /\ stage[p] = "owner"
  /\ job \notin running[p]
  /\ job = "daily" => trigger[p] # None
  /\ running' = [running EXCEPT ![p] = @ \cup {job}]
  /\ UNCHANGED <<stage, lock, memory, settings>>

(* A synchronization or a recovery sweep ends, in whatever way. *)
Finish(p, job) ==
  /\ job \in running[p] \ {"refresh"}
  /\ running' = [running EXCEPT ![p] = @ \ {job}]
  /\ UNCHANGED <<stage, lock, memory, settings>>

RefreshReads(p) ==
  /\ "refresh" \in running[p] /\ read[p] = None
  /\ read' = [read EXCEPT ![p] = settings]
  /\ UNCHANGED <<stage, lock, running, schedule, trigger, settings>>

RefreshEnds(p) ==
  /\ running' = [running EXCEPT ![p] = @ \ {"refresh"}]
  /\ read' = [read EXCEPT ![p] = None]
  /\ UNCHANGED <<stage, lock, settings>>

RefreshInstalls(p) ==
  /\ "refresh" \in running[p] /\ read[p] # None
  /\ trigger' = [trigger EXCEPT ![p] = IF read[p] # schedule[p] THEN read[p] ELSE @]
  /\ schedule' = [schedule EXCEPT ![p] = read[p]]
  /\ RefreshEnds(p)

(* Mutant: self.schedule is set before add_job, which then fails. *)
RefreshFailsRemembering(p) ==
  /\ "refresh" \in running[p]
  /\ schedule' = [schedule EXCEPT ![p] = IF read[p] # None THEN read[p] ELSE @]
  /\ RefreshEnds(p)
  /\ UNCHANGED trigger

(* The database or add_job failed: logged, and tried again in a minute. *)
RefreshFails(p) ==
  /\ "refresh" \in running[p]
  /\ RefreshEnds(p)
  /\ UNCHANGED <<schedule, trigger>>

(* stop: no job fires any more; a process that owns nothing is gone at once. *)
Stop(p) ==
  \/ stage[p] = "idle" /\ Gone(p)
  \/ /\ stage[p] = "owner"
     /\ stage' = [stage EXCEPT ![p] = "stopping"]
     /\ UNCHANGED <<lock, running, memory, settings>>

(* Mutant: the lock is released while jobs still run (shutdown(wait=False)). *)
StoppedLeavingJobs(p) ==
  /\ stage[p] = "stopping"
  /\ stage' = [stage EXCEPT ![p] = "down"]
  /\ lock' = None
  /\ UNCHANGED <<running, memory, settings>>

(* shutdown(wait=True) returned. *)
Stopped(p) ==
  /\ stage[p] = "stopping" /\ running[p] = {}
  /\ Gone(p)

Crash(p) == stage[p] # "down" /\ Gone(p)

(* PATCH /admin/settings, served by any process. *)
ChangeSettings ==
  /\ settings' \in Schedules
  /\ UNCHANGED <<stage, lock, running, memory>>

Refresh(p) == RefreshReads(p) \/ RefreshInstalls(p) \/ RefreshFails(p)

Lifespan(p) == Start(p) \/ Started(p) \/ StartFails(p) \/ Stop(p) \/ Stopped(p) \/ Crash(p)

SchedulerNext ==
  \/ \E p \in Procs : Lifespan(p) \/ Refresh(p) \/ \E job \in Jobs : Fire(p, job) \/ Finish(p, job)
  \/ ChangeSettings

SchedulerSpec == SchedulerInit /\ [][SchedulerNext]_schedulerVars

(***************************************************************************)
(* Fairness: an interval job fires again and again and comes to an end,    *)
(* and refreshing does not fail every single time.                         *)
(***************************************************************************)
SchedulerFairness ==
  \A p \in Procs :
    /\ WF_schedulerVars(Fire(p, "refresh"))
    /\ WF_schedulerVars(Refresh(p))
    /\ SF_schedulerVars(RefreshReads(p))
    /\ SF_schedulerVars(RefreshInstalls(p))

FairSchedulerSpec == SchedulerSpec /\ SchedulerFairness

-----------------------------------------------------------------------------
(* Jobs of two processes never run side by side, over overlapping reloads,
   slow shutdowns and crashes: a process lets go of the lock only after its
   last job (scheduler.py:86-93).  Recovery and LeadSync rely on this when they
   model one recovery job and one daily synchronization. *)
JobsOfOneProcess ==
  \A p, q \in Procs : running[p] # {} /\ running[q] # {} => p = q

(* Once the settings are left alone, the owner's trigger comes to be the one
   they ask for, whatever refreshes failed or read an older value before. *)
ScheduleFollowsSettings ==
  \A p \in Procs, s \in Schedules :
    <>[](stage[p] = "owner" /\ settings = s) => <>[](trigger[p] = s)
=============================================================================
