----------------------------- MODULE Maintenance -----------------------------
(***************************************************************************)
(* The maintenance protocol of src/src/dashboard.cpp: management jobs run  *)
(* in processes of their own; a job that prepares or saves a workload has  *)
(* inference paused before it is launched, and whoever first finds its     *)
(* record final - the monitor thread, a handler that asks for the job, or  *)
(* the next submission - reloads the registries and resumes inference.     *)
(*                                                                         *)
(* Jobs::mutex orders all of that, except the pause endpoint, which does   *)
(* not take it.  The worker manager appears only with what the protocol    *)
(* calls: pause_inference, resume_inference, reload_after_maintenance and  *)
(* the status, against requests that come and go (Residency has the rest). *)
(***************************************************************************)
EXTENDS Integers

CONSTANTS
  Operators,   \* threads that serve the dashboard's routes
  Monitor,     \* the thread that polls the active job every 250 ms
  Jobs,        \* job IDs; a finite supply bounds the run
  MaxLeases,   \* bound: requests under way at once
  Slow,        \* calls of pause_inference whose 30 s may elapse
  None

Actors == Operators \cup {Monitor}
Actions == {"prepare", "other"}   \* workload.prepare and .save; every other one

\* What a job's file says of it.
RecordType == [state : {"running", "completed", "failed"}, action : Actions]

ASSUME MaintenanceAssumption ==
  /\ Monitor \notin Operators
  /\ None \notin Jobs \cup Actors \cup RecordType
  /\ MaxLeases \in Nat
  /\ Slow \subseteq {"pause", "submit"}

VARIABLES
  paused, ready,    \* of the manager
  leases,           \* requests that hold a worker
  loaded,           \* is any worker resident?
  warming,          \* the startup thread still runs
  mutex,            \* who holds Jobs::mutex
  active, maintenance, resume_after,   \* of Jobs
  record,           \* the job's file: its state and action, or None
  process,          \* the job's process
  pc, call,         \* where each thread is, and in which call
  answered          \* history: the last answer leaves inference paused

inference == <<paused, ready, leases, loaded, warming>>
jobs == <<mutex, active, maintenance, resume_after>>
files == <<record, process>>
threads == <<pc, call>>
vars == <<inference, jobs, files, threads, answered>>

TypeOK ==
  /\ {paused, ready, loaded, warming, maintenance, resume_after, answered} \subseteq BOOLEAN
  /\ leases \in 0..MaxLeases
  /\ mutex \in Actors \cup {None}
  /\ active \in Jobs \cup {None}
  /\ record \in [Jobs -> RecordType \cup {None}]
  /\ process \in [Jobs -> {"none", "running", "exited", "killed"}]
  /\ pc \in [Actors -> {"idle", "draining", "reloading", "resuming", "recording", "free",
                         "pausing", "launching"}]
  /\ call \in [Actors -> {"none", "get", "pause"} \cup Actions]

Init ==
  /\ paused = FALSE /\ ready = FALSE /\ leases = 0 /\ loaded = FALSE /\ warming = TRUE
  /\ mutex = None /\ active = None /\ maintenance = FALSE /\ resume_after = FALSE
  /\ record = [j \in Jobs |-> None]
  /\ process = [j \in Jobs |-> "none"]
  /\ pc = [a \in Actors |-> "idle"]
  /\ call = [a \in Actors |-> "none"]
  /\ answered = FALSE

-----------------------------------------------------------------------------
(* Requests, the startup thread and the sweeper                            *)

\* A request is admitted and gets a worker; until ready_ is first set, only
\* the startup thread does, one worker after the other.
Admit ==
  /\ ~paused /\ leases < MaxLeases
  /\ ready \/ (warming /\ leases = 0)
  /\ leases' = leases + 1 /\ loaded' = TRUE
  /\ UNCHANGED <<paused, ready, warming, jobs, files, threads, answered>>

\* Mutated form of Finish: a route that releases its worker twice.
FinishTwice ==
  /\ leases > 0
  /\ leases' = leases - 2
  /\ UNCHANGED <<paused, ready, loaded, warming, jobs, files, threads, answered>>

Finish ==
  /\ leases > 0
  /\ leases' = leases - 1
  /\ UNCHANGED <<paused, ready, loaded, warming, jobs, files, threads, answered>>

\* The sweeper stops the last idle worker.
Sweep ==
  /\ leases = 0 /\ loaded
  /\ loaded' = FALSE
  /\ UNCHANGED <<paused, ready, leases, warming, jobs, files, threads, answered>>

\* prewarm ends; if it fails, ready_ is left as it is.
StartupEnds(fine) ==
  /\ warming
  /\ warming' = FALSE
  /\ ready' = (ready \/ fine)
  /\ UNCHANGED <<paused, leases, loaded, jobs, files, threads, answered>>

-----------------------------------------------------------------------------
(* pause_inference and resume_inference                                    *)

Enter(a, place, what) ==
  /\ pc' = [pc EXCEPT ![a] = place]
  /\ call' = [call EXCEPT ![a] = what]

\* The thread answers its request and gives up Jobs::mutex if it holds it.
Answer(a) ==
  /\ Enter(a, "idle", "none")
  /\ mutex' = IF mutex = a THEN None ELSE mutex

\* Drained: every worker is unloaded, and the call goes on.
PauseReturns(a, what) ==
  /\ leases = 0
  /\ loaded' = FALSE
  /\ IF what = "pause"
       THEN Enter(a, "idle", "none") /\ answered' = TRUE
       ELSE Enter(a, "launching", what) /\ UNCHANGED answered

PauseBegins(a, what) ==
  /\ ready \/ paused
  /\ paused' = TRUE /\ ready' = FALSE
  /\ UNCHANGED <<leases, warming, jobs, files>>
  /\ \/ PauseReturns(a, what)
     \/ leases > 0 /\ Enter(a, "draining", what) /\ UNCHANGED <<loaded, answered>>

\* POST /admin/inference/pause: Jobs::mutex is not taken.
PausePost(a) == pc[a] = "idle" /\ PauseBegins(a, "pause")

\* The wait of pause_inference sees its predicate hold.
PauseDrained(a) ==
  /\ pc[a] = "draining"
  /\ PauseReturns(a, call[a])
  /\ UNCHANGED <<paused, ready, leases, warming, jobs, files>>

PauseTimesOut(a) ==
  /\ pc[a] = "draining" /\ leases > 0
  /\ (IF call[a] = "pause" THEN "pause" ELSE "submit") \in Slow
  /\ paused' = FALSE /\ ready' = TRUE
  /\ Answer(a)
  /\ UNCHANGED <<leases, loaded, warming, active, maintenance, resume_after, files, answered>>

resume_inference == paused' = FALSE /\ ready' = TRUE /\ UNCHANGED <<leases, loaded, warming>>

\* Mutated form of ResumePost: the active job is not looked at.
ResumeAnyTime(a) ==
  /\ pc[a] = "idle" /\ mutex = None
  /\ resume_inference
  /\ answered' = FALSE
  /\ UNCHANGED <<jobs, files, threads>>

\* POST /admin/inference/resume: refused while a job is active.
ResumePost(a) ==
  /\ pc[a] = "idle" /\ mutex = None /\ active = None
  /\ resume_inference
  /\ answered' = FALSE
  /\ UNCHANGED <<jobs, files, threads>>

-----------------------------------------------------------------------------
(* Collecting the active job: Jobs::get                                    *)

\* Mutated form of Final: the state in the record is not looked at.
FinalOrNot(j) == record[j] # None

\* The record no longer says that the job is running.
Final(j) == record[j] # None /\ record[j].state # "running"

\* Where a thread that has collected the job, or found none, goes on.
Collected(a, what) ==
  IF what = "get" THEN Enter(a, "idle", "none") /\ mutex' = None
                  ELSE Enter(a, "free", what) /\ mutex' = a

\* Mutated form of Clear: active keeps the job.
ClearMaintenance(a, what) ==
  /\ active' = active /\ maintenance' = FALSE
  /\ UNCHANGED resume_after
  /\ Collected(a, what)

Clear(a, what) ==
  /\ active' = None /\ maintenance' = FALSE
  /\ UNCHANGED resume_after
  /\ Collected(a, what)

\* A thread takes Jobs::mutex and looks at the active job: none (a submission
\* goes on), a final one (it is collected), or a running one (a submission is
\* refused, a get answers; neither changes anything).
Look(a, what) ==
  /\ pc[a] = "idle" /\ mutex = None
  /\ \/ /\ active = None /\ what # "get"
        /\ Collected(a, what)
        /\ UNCHANGED <<active, maintenance, resume_after>>
     \/ /\ active # None /\ Final(active) /\ maintenance
        /\ Enter(a, "reloading", what) /\ mutex' = a
        /\ UNCHANGED <<active, maintenance, resume_after>>
     \/ /\ active # None /\ Final(active) /\ ~maintenance
        /\ Clear(a, what)
     \/ /\ active # None /\ ~Final(active)
        /\ UNCHANGED <<jobs, threads>>
  /\ UNCHANGED <<inference, files, answered>>

\* The job counts as failed unless the registries were reloaded.
Recorded(fine) ==
  record' = IF fine THEN record ELSE [record EXCEPT ![active].state = "failed"]

\* reload_after_maintenance refuses a manager that is not paused and empty,
\* and registries it cannot validate; the job then counts as failed.
Reload(a, fine) ==
  /\ pc[a] = "reloading"
  /\ fine => paused /\ ~loaded
  /\ IF resume_after
       THEN /\ Enter(a, IF fine THEN "resuming" ELSE "recording", call[a])
            /\ UNCHANGED <<jobs, record>>
       ELSE Clear(a, call[a]) /\ Recorded(fine)
  /\ UNCHANGED <<inference, process, answered>>

\* Mutated form of ResumeCollected: a failed reload does not resume.
ResumeReloaded(a) ==
  /\ pc[a] \in {"resuming", "recording"}
  /\ IF pc[a] = "resuming" THEN resume_inference ELSE UNCHANGED inference
  /\ Clear(a, call[a])
  /\ Recorded(pc[a] = "resuming")
  /\ UNCHANGED <<process, answered>>

\* Inference that was not paused before the job is resumed after it, whether
\* the registries were reloaded or not.
ResumeCollected(a) ==
  /\ pc[a] \in {"resuming", "recording"}
  /\ resume_inference
  /\ Clear(a, call[a])
  /\ Recorded(pc[a] = "resuming")
  /\ UNCHANGED <<process, answered>>

-----------------------------------------------------------------------------
(* Jobs::submit, once the previous job is collected                        *)

\* Mutated form of ReadStatus: the status is read when inference is paused.
ReadStatusPaused(a) ==
  /\ pc[a] = "free"
  /\ maintenance' = (call[a] = "prepare")
  /\ resume_after' = FALSE
  /\ Enter(a, IF call[a] = "prepare" THEN "pausing" ELSE "launching", call[a])
  /\ UNCHANGED <<inference, mutex, active, files, answered>>

ReadStatus(a) ==
  /\ pc[a] = "free"
  /\ maintenance' = (call[a] = "prepare")
  /\ resume_after' = ~paused
  /\ Enter(a, IF call[a] = "prepare" THEN "pausing" ELSE "launching", call[a])
  /\ UNCHANGED <<inference, mutex, active, files, answered>>

\* host.pause(): it throws during startup.
SubmitPauses(a) ==
  /\ pc[a] = "pausing"
  /\ \/ PauseBegins(a, call[a])
     \/ /\ ~ready /\ ~paused
        /\ Answer(a)
        /\ UNCHANGED <<inference, active, maintenance, resume_after, files, answered>>

\* The record is written and the process spawned.
Launch(a, j) ==
  /\ pc[a] = "launching" /\ record[j] = None
  /\ record' = [record EXCEPT ![j] = [state |-> "running", action |-> call[a]]]
  /\ process' = [process EXCEPT ![j] = "running"]
  /\ active' = j
  /\ Answer(a)
  /\ UNCHANGED <<inference, maintenance, resume_after, answered>>

\* The record cannot be written: the submission fails and leaves inference
\* as host.pause() left it.
RecordFails(a) ==
  /\ pc[a] = "launching"
  /\ Answer(a)
  /\ answered' = (answered \/ maintenance)
  /\ UNCHANGED <<inference, active, maintenance, resume_after, files>>

\* posix_spawn fails: inference is resumed.
SpawnFails(a, j) ==
  /\ pc[a] = "launching" /\ record[j] = None
  /\ record' = [record EXCEPT ![j] = [state |-> "running", action |-> call[a]]]
  /\ IF maintenance /\ resume_after THEN resume_inference ELSE UNCHANGED inference
  /\ maintenance' = FALSE
  /\ Answer(a)
  /\ UNCHANGED <<active, resume_after, process, answered>>

-----------------------------------------------------------------------------
(* The job's process: dashboard_job_command                                *)

ProcessEnds(j, state) ==
  /\ process[j] = "running"
  /\ process' = [process EXCEPT ![j] = "exited"]
  /\ record' = [record EXCEPT ![j].state = state]
  /\ UNCHANGED <<inference, jobs, threads, answered>>

\* It is killed, or cannot write its record: the record stays "running".
ProcessDies(j) ==
  /\ process[j] = "running"
  /\ process' = [process EXCEPT ![j] = "killed"]
  /\ UNCHANGED <<inference, jobs, record, threads, answered>>

-----------------------------------------------------------------------------

Collect(a) == ResumeCollected(a) \/ \E fine \in BOOLEAN : Reload(a, fine)

Submit(a) ==
  \/ ReadStatus(a) \/ SubmitPauses(a) \/ RecordFails(a)
  \/ \E j \in Jobs : Launch(a, j) \/ SpawnFails(a, j)

Operate(o) ==
  \/ PausePost(o) \/ PauseDrained(o) \/ PauseTimesOut(o) \/ ResumePost(o)
  \/ \E what \in Actions \cup {"get"} : Look(o, what)
  \/ Collect(o) \/ Submit(o)

Next ==
  \/ Admit \/ Finish \/ Sweep \/ \E fine \in BOOLEAN : StartupEnds(fine)
  \/ \E o \in Operators : Operate(o)
  \/ Look(Monitor, "get") \/ Collect(Monitor)
  \/ \E j \in Jobs : ProcessDies(j) \/ \E state \in {"completed", "failed"} : ProcessEnds(j, state)

Spec == Init /\ [][Next]_vars

\* The monitor polls for ever, a thread inside Jobs::get goes on, and a
\* process ends if nothing kills it.
Fairness ==
  /\ WF_vars(Look(Monitor, "get"))
  /\ \A a \in Actors : WF_vars(Collect(a))
  /\ \A j \in Jobs : WF_vars(\E state \in {"completed", "failed"} : ProcessEnds(j, state))

FairSpec == Spec /\ Fairness

-----------------------------------------------------------------------------
(* Properties                                                              *)

\* From the launch of a job that prepares or saves a workload until inference
\* is resumed after it, nothing is served and no worker is in memory, however
\* pauses, resumes and other submissions interleave (docs/api.md:139: the job
\* "drains/unloads models for safe engine/artifact installation").
MaintenanceIsPaused ==
  active # None /\ maintenance => paused /\ leases = 0 /\ ~loaded

\* At most one management job runs, although active is cleared by whichever
\* thread looks first (docs/apps.md: "the same serialized preparation job").
JobsSerialised ==
  \A j, k \in Jobs : process[j] = "running" /\ process[k] = "running" => j = k

\* Inference is not left paused by accident: with no job active and no call
\* under way it is paused only if the last answer to an operator leaves it so
\* (a pause that succeeded, or a submission that failed after its pause).
NotStranded ==
  paused /\ active = None /\ (\A a \in Actors : pc[a] = "idle") => answered

\* The active job is collected, unless its process died.
JobCollected ==
  \A j \in Jobs : active = j ~> active # j \/ process[j] = "killed"

\* Inference that a job interrupted is resumed, also when the job or the
\* reload fails, unless the process died.
ServingResumes ==
  \A j \in Jobs :
    active = j /\ maintenance /\ resume_after ~> ~paused \/ process[j] = "killed"

=============================================================================
