-------------------------- MODULE MaintenanceProofs --------------------------
(***************************************************************************)
(* Jobs are serialised, maintenance is silent and nothing is stranded, for *)
(* any number of operators and jobs.                                       *)
(***************************************************************************)
EXTENDS Maintenance, TLAPS

\* Where a submission is between looking at the active job and its answer.
Submitting(a) ==
  pc[a] \in {"free", "pausing", "launching"} \/ (pc[a] = "draining" /\ call[a] # "pause")

\* Where a thread that found the active job final is.
Collecting(a) == pc[a] \in {"reloading", "resuming", "recording"}

\* What Jobs::mutex protects.
Locked ==
  \A a \in Actors :
    /\ Submitting(a) => mutex = a /\ active = None /\ call[a] \in Actions
    /\ Collecting(a) => /\ mutex = a /\ active # None /\ Final(active) /\ maintenance
                         /\ call[a] \in Actions \cup {"get"}

\* A process that runs is the active job's and has not written its last state.
Owned ==
  \A j \in Jobs : process[j] = "running" =>
    active = j /\ record[j] # None /\ record[j].state = "running"

\* The types the arguments below need.
ThreadsTyped ==
  /\ pc \in [Actors -> {"idle", "draining", "reloading", "resuming", "recording", "free",
                         "pausing", "launching"}]
  /\ call \in [Actors -> {"none", "get", "pause"} \cup Actions]
  /\ mutex \in Actors \cup {None}

FilesTyped ==
  /\ active \in Jobs \cup {None}
  /\ record \in [Jobs -> RecordType \cup {None}]
  /\ process \in [Jobs -> {"none", "running", "exited", "killed"}]

Serial == ThreadsTyped /\ FilesTyped /\ Locked /\ Owned

\* Requests, the startup thread and the sweeper do not touch Jobs.
LEMMA ManagerStep ==
  ASSUME Serial, Admit \/ Finish \/ Sweep \/ \E fine \in BOOLEAN : StartupEnds(fine)
  PROVE  Serial'
BY DEF Serial, ThreadsTyped, FilesTyped, Locked, Owned, Submitting, Collecting, Final,
       Admit, Finish, Sweep, StartupEnds, jobs, files, threads

\* A pause moves its thread only; a submission that waits keeps the mutex.
LEMMA PauseStep ==
  ASSUME Serial, NEW a \in Actors,
         PausePost(a) \/ PauseDrained(a) \/ PauseTimesOut(a) \/ ResumePost(a)
  PROVE  Serial'
BY DEF Serial, ThreadsTyped, FilesTyped, Locked, Owned, Submitting, Collecting, Final,
       PausePost, PauseBegins, PauseReturns, PauseDrained, PauseTimesOut, ResumePost,
       Enter, Answer, jobs, files, threads, Actions

\* A thread that looks at the active job takes the mutex, and clears active
\* only for a final record.
LEMMA LookStep ==
  ASSUME Serial, NEW a \in Actors, NEW what \in Actions \cup {"get"}, Look(a, what)
  PROVE  Serial'
BY MaintenanceAssumption
   DEF Serial, ThreadsTyped, FilesTyped, Locked, Owned, Submitting, Collecting, Final,
       Look, Clear, Collected, Enter, jobs, files, threads, Actions

\* The collecting thread clears active, whose process has ended.
LEMMA CollectStep ==
  ASSUME Serial, NEW a \in Actors, Collect(a)
  PROVE  Serial'
BY MaintenanceAssumption
   DEF Serial, ThreadsTyped, FilesTyped, Locked, Owned, Submitting, Collecting, Final,
       RecordType, Collect, Reload, ResumeCollected, Recorded, Clear, Collected, Enter, jobs, Actions

\* A submission's own steps: with the mutex and no active job.
LEMMA SubmitStep ==
  ASSUME Serial, NEW a \in Actors, Submit(a)
  PROVE  Serial'
<1> USE DEF Serial, ThreadsTyped, FilesTyped, Locked, Owned, Submitting, Collecting, Final,
            Enter, Answer, jobs, files, Actions, RecordType
<1>1. CASE ReadStatus(a)
  BY <1>1 DEF ReadStatus
<1>2. CASE SubmitPauses(a)
  BY <1>2 DEF SubmitPauses, PauseBegins, PauseReturns
<1>3. CASE RecordFails(a)
  BY <1>3 DEF RecordFails
<1>4. ASSUME NEW j \in Jobs, Launch(a, j)
      PROVE  Serial'
  <2>1. /\ mutex = a /\ active = None
        /\ call[a] \in Actions
    BY <1>4 DEF Launch
  <2>2. FilesTyped' /\ ThreadsTyped'
    BY <1>4, <2>1 DEF Launch
  <2>3. Owned'
    BY <1>4, <2>1, MaintenanceAssumption DEF Launch
  <2>4. Locked'
    BY <1>4, <2>1, MaintenanceAssumption DEF Launch
  <2> QED
    BY <2>2, <2>3, <2>4
<1>5. ASSUME NEW j \in Jobs, SpawnFails(a, j)
      PROVE  Serial'
  BY <1>5 DEF SpawnFails
<1> QED
  BY <1>1, <1>2, <1>3, <1>4, <1>5 DEF Submit

\* A process writes its own record and ends.
LEMMA ProcessStep ==
  ASSUME Serial, NEW j \in Jobs,
         ProcessDies(j) \/ \E state \in {"completed", "failed"} : ProcessEnds(j, state)
  PROVE  Serial'
BY DEF Serial, ThreadsTyped, FilesTyped, Locked, Owned, Submitting, Collecting, Final,
       RecordType, ProcessDies, ProcessEnds, jobs, threads

\* Every step keeps jobs serialised.
LEMMA NextSerial ==
  ASSUME Serial, [Next]_vars
  PROVE  Serial'
<1>1. CASE UNCHANGED vars
  BY <1>1 DEF vars, inference, jobs, files, threads, Serial, ThreadsTyped, FilesTyped, Locked,
              Owned, Submitting, Collecting, Final
<1>2. ASSUME NEW o \in Operators, Operate(o)
      PROVE  Serial'
  BY <1>2, PauseStep, LookStep, CollectStep, SubmitStep DEF Operate, Actors
<1>3. CASE Look(Monitor, "get") \/ Collect(Monitor)
  BY <1>3, LookStep, CollectStep DEF Actors
<1> QED
  BY <1>1, <1>2, <1>3, ManagerStep, ProcessStep DEF Next

\* Jobs::mutex orders submissions and collections, and a process that runs is
\* the active job's (src/src/dashboard.cpp:195-263).
THEOREM SerialInvariant == Spec => []Serial
<1>1. Init => Serial
  BY DEF Init, Serial, ThreadsTyped, FilesTyped, Locked, Owned, Submitting, Collecting
<1>2. Serial /\ [Next]_vars => Serial'
  BY NextSerial
<1> QED
  BY <1>1, <1>2, PTL DEF Spec

\* However submissions, polls and answers interleave, one job's process runs
\* at a time (active under Jobs::mutex, src/src/dashboard.cpp:195-263).
THEOREM JobsAreSerialised == Spec => []JobsSerialised
<1>1. Serial => JobsSerialised
  BY DEF Serial, Owned, JobsSerialised
<1> QED
  BY <1>1, SerialInvariant, PTL

-----------------------------------------------------------------------------
(* Maintenance is paused                                                   *)

Silent == paused /\ leases = 0 /\ ~loaded

\* Where inference must already be paused for MaintenanceIsPaused to survive:
\* a submission that drains or is about to launch, and a job to be collected.
Prepared ==
  /\ active # None /\ maintenance => Silent
  /\ \A a \in Actors :
       /\ pc[a] = "draining" /\ call[a] # "pause" => paused
       /\ pc[a] = "launching" /\ maintenance => Silent

CountTyped == leases \in Nat

Hushed == Serial /\ CountTyped /\ Prepared

\* Nothing is admitted while inference is paused.
LEMMA ManagerHushed ==
  ASSUME Hushed, Admit \/ Finish \/ Sweep \/ \E fine \in BOOLEAN : StartupEnds(fine)
  PROVE  CountTyped' /\ Prepared'
BY DEF Hushed, CountTyped, Prepared, Silent, Admit, Finish, Sweep, StartupEnds,
       jobs, files, threads

\* Only a submission's own timeout ends a pause, and it holds the mutex then.
LEMMA PauseHushed ==
  ASSUME Hushed, "pause" \notin Slow, NEW a \in Actors,
         PausePost(a) \/ PauseDrained(a) \/ PauseTimesOut(a) \/ ResumePost(a)
  PROVE  CountTyped' /\ Prepared'
<1> USE DEF Hushed, CountTyped, Prepared, Silent, Serial, ThreadsTyped, Locked, Submitting,
            Enter, jobs, files
<1>1. CASE PausePost(a)
  BY <1>1 DEF PausePost, PauseBegins, PauseReturns
<1>2. CASE PauseDrained(a)
  BY <1>2 DEF PauseDrained, PauseReturns
<1>3. CASE PauseTimesOut(a)
  BY <1>3 DEF PauseTimesOut, Answer
<1>4. CASE ResumePost(a)
  BY <1>4, MaintenanceAssumption DEF ResumePost, resume_inference, threads
<1> QED
  BY <1>1, <1>2, <1>3, <1>4

\* Looking at the active job leaves inference alone.
LEMMA LookHushed ==
  ASSUME Hushed, NEW a \in Actors, NEW what \in Actions \cup {"get"}, Look(a, what)
  PROVE  CountTyped' /\ Prepared'
BY DEF Hushed, CountTyped, Prepared, Silent, Serial, ThreadsTyped, Locked, Submitting,
       Look, Clear, Collected, Enter, inference, jobs, files, threads, Actions

\* Inference is resumed in the step that clears active.
LEMMA CollectHushed ==
  ASSUME Hushed, NEW a \in Actors, Collect(a)
  PROVE  CountTyped' /\ Prepared'
BY DEF Hushed, CountTyped, Prepared, Silent, Serial, ThreadsTyped, Locked, Submitting,
       Collecting, Collect, Reload, ResumeCollected, resume_inference, Clear, Collected,
       Enter, inference, jobs, Actions

\* A job that needs it is launched with inference drained.
LEMMA SubmitHushed ==
  ASSUME Hushed, NEW a \in Actors, Submit(a)
  PROVE  CountTyped' /\ Prepared'
<1> USE DEF Hushed, CountTyped, Prepared, Silent, Serial, ThreadsTyped, Locked, Submitting,
            Enter, Answer, inference, jobs, files
<1>1. CASE ReadStatus(a)
  BY <1>1 DEF ReadStatus
<1>2. CASE SubmitPauses(a)
  BY <1>2 DEF SubmitPauses, PauseBegins, PauseReturns
<1>3. CASE RecordFails(a)
  BY <1>3 DEF RecordFails
<1>4. ASSUME NEW j \in Jobs, Launch(a, j)
      PROVE  CountTyped' /\ Prepared'
  BY <1>4 DEF Launch
<1>5. ASSUME NEW j \in Jobs, SpawnFails(a, j)
      PROVE  CountTyped' /\ Prepared'
  BY <1>5 DEF SpawnFails, resume_inference
<1> QED
  BY <1>1, <1>2, <1>3, <1>4, <1>5 DEF Submit

\* Every step keeps inference paused for maintenance.
LEMMA NextHushed ==
  ASSUME Hushed, "pause" \notin Slow, [Next]_vars
  PROVE  Hushed'
<1>1. Serial'
  BY NextSerial DEF Hushed
<1>2. CASE UNCHANGED vars
  BY <1>1, <1>2 DEF vars, inference, jobs, files, threads, Hushed, CountTyped, Prepared, Silent
<1>3. ASSUME NEW o \in Operators, Operate(o)
      PROVE  CountTyped' /\ Prepared'
  BY <1>3, PauseHushed, LookHushed, CollectHushed, SubmitHushed DEF Operate, Actors
<1>4. CASE Look(Monitor, "get") \/ Collect(Monitor)
  BY <1>1, <1>4, LookHushed, CollectHushed DEF Actors, Hushed
<1>5. ASSUME NEW j \in Jobs,
             ProcessDies(j) \/ \E state \in {"completed", "failed"} : ProcessEnds(j, state)
      PROVE  CountTyped' /\ Prepared'
  BY <1>5 DEF ProcessDies, ProcessEnds, Hushed, CountTyped, Prepared, Silent, inference,
              jobs, threads
<1> QED
  BY <1>1, <1>2, <1>3, <1>4, <1>5, ManagerHushed DEF Next, Hushed

\* If the 30 s of an operator's own pause never elapse while requests drain,
\* no engine is started or serves while a job replaces engines and artifacts.
\* (The premise is needed: such a timeout undoes the pause a submission waits
\* behind, as the run MaintenanceUnpaused shows.)
THEOREM MaintenanceIsSilent ==
  ASSUME "pause" \notin Slow
  PROVE  Spec => []MaintenanceIsPaused
<1>1. Init => Hushed
  BY DEF Init, Hushed, Serial, ThreadsTyped, FilesTyped, Locked, Owned, Submitting, Collecting,
         CountTyped, Prepared
<1>2. Hushed /\ [Next]_vars => Hushed'
  BY NextHushed
<1>3. Hushed => MaintenanceIsPaused
  BY DEF Hushed, Prepared, Silent, MaintenanceIsPaused
<1> QED
  BY <1>1, <1>2, <1>3, PTL DEF Spec

-----------------------------------------------------------------------------
(* Inference is not left paused                                            *)

\* Why inference may be paused: an operator was told so or waits to be, or a
\* submission, or the job that it launched, is going to resume it.
PauseReasons ==
  \/ answered
  \/ \E a \in Actors : pc[a] = "draining" /\ call[a] = "pause"
  \/ /\ maintenance /\ resume_after
     /\ \/ active # None
        \/ \E a \in Actors : pc[a] = "launching" \/ (pc[a] = "draining" /\ call[a] # "pause")

\* A submission that is about to pause and will not resume found it paused.
StatusHolds ==
  \A a \in Actors : pc[a] = "pausing" => maintenance /\ (resume_after \/ paused)

Excused == (paused => PauseReasons) /\ StatusHolds

LEMMA ManagerExcused ==
  ASSUME Serial, Excused, Admit \/ Finish \/ Sweep \/ \E fine \in BOOLEAN : StartupEnds(fine)
  PROVE  Excused'
BY DEF Excused, PauseReasons, StatusHolds, Admit, Finish, Sweep, StartupEnds, jobs, threads

\* A pause is answered or ends; while a submission holds the mutex no other
\* thread resumes.
LEMMA PauseExcused ==
  ASSUME Serial, Excused, "pause" \notin Slow, NEW a \in Actors,
         PausePost(a) \/ PauseDrained(a) \/ PauseTimesOut(a) \/ ResumePost(a)
  PROVE  Excused'
<1> USE DEF Excused, PauseReasons, StatusHolds, Serial, ThreadsTyped, Locked, Submitting,
            Enter, jobs
<1>1. CASE PausePost(a)
  BY <1>1 DEF PausePost, PauseBegins, PauseReturns
<1>2. CASE PauseDrained(a)
  BY <1>2 DEF PauseDrained, PauseReturns
<1>3. CASE PauseTimesOut(a)
  BY <1>3 DEF PauseTimesOut, Answer
<1>4. CASE ResumePost(a)
  BY <1>4, MaintenanceAssumption DEF ResumePost, resume_inference, threads
<1> QED
  BY <1>1, <1>2, <1>3, <1>4

LEMMA LookExcused ==
  ASSUME Serial, Excused, NEW a \in Actors, NEW what \in Actions \cup {"get"}, Look(a, what)
  PROVE  Excused'
BY DEF Excused, PauseReasons, StatusHolds, Serial, ThreadsTyped, Locked, Submitting,
       Look, Clear, Collected, Enter, inference, jobs, threads, Actions

\* A job that must be resumed after is cleared by the step that resumes.
LEMMA CollectExcused ==
  ASSUME Serial, Excused, NEW a \in Actors, Collect(a)
  PROVE  Excused'
BY DEF Excused, PauseReasons, StatusHolds, Serial, ThreadsTyped, Locked, Submitting,
       Collecting, Collect, Reload, ResumeCollected, resume_inference, Clear, Collected,
       Enter, inference, jobs, Actions

\* A submission resumes what it paused, hands that over to its job, or says so.
LEMMA SubmitExcused ==
  ASSUME Serial, Excused, NEW a \in Actors, Submit(a)
  PROVE  Excused'
<1> USE DEF Excused, PauseReasons, StatusHolds, Serial, ThreadsTyped, FilesTyped, Locked,
            Submitting, Enter, Answer, inference, jobs
<1>1. CASE ReadStatus(a)
  BY <1>1 DEF ReadStatus, Actions
<1>2. CASE SubmitPauses(a)
  BY <1>2 DEF SubmitPauses, PauseBegins, PauseReturns, Actions
<1>3. CASE RecordFails(a)
  BY <1>3 DEF RecordFails
<1>4. ASSUME NEW j \in Jobs, Launch(a, j)
      PROVE  Excused'
  BY <1>4, MaintenanceAssumption DEF Launch
<1>5. ASSUME NEW j \in Jobs, SpawnFails(a, j)
      PROVE  Excused'
  BY <1>5 DEF SpawnFails, resume_inference
<1> QED
  BY <1>1, <1>2, <1>3, <1>4, <1>5 DEF Submit

LEMMA NextExcused ==
  ASSUME Serial, Excused, "pause" \notin Slow, [Next]_vars
  PROVE  Excused'
<1>1. CASE UNCHANGED vars
  BY <1>1 DEF vars, inference, jobs, threads, Excused, PauseReasons, StatusHolds
<1>2. ASSUME NEW o \in Operators, Operate(o)
      PROVE  Excused'
  BY <1>2, PauseExcused, LookExcused, CollectExcused, SubmitExcused DEF Operate, Actors
<1>3. CASE Look(Monitor, "get") \/ Collect(Monitor)
  BY <1>3, LookExcused, CollectExcused DEF Actors
<1>4. ASSUME NEW j \in Jobs,
             ProcessDies(j) \/ \E state \in {"completed", "failed"} : ProcessEnds(j, state)
      PROVE  Excused'
  BY <1>4 DEF ProcessDies, ProcessEnds, Excused, PauseReasons, StatusHolds, inference, jobs,
              threads
<1> QED
  BY <1>1, <1>2, <1>3, <1>4, ManagerExcused DEF Next

\* Unless an operator's own pause times out, inference is never left paused by
\* accident: when no job is active and no call is under way, it is paused only
\* if the last answer to an operator leaves it so.
THEOREM NothingIsStranded ==
  ASSUME "pause" \notin Slow
  PROVE  Spec => []NotStranded
<1>1. Init => Excused
  BY DEF Init, Excused, StatusHolds
<1>2. Serial /\ Excused /\ [Next]_vars => Excused'
  BY NextExcused
<1>3. Excused => NotStranded
  BY DEF Excused, PauseReasons, NotStranded
<1> QED
  BY <1>1, <1>2, <1>3, SerialInvariant, PTL DEF Spec

-----------------------------------------------------------------------------
(* Types                                                                   *)

\* The conditions of the manager and of Jobs, and the requests under way.
Counted ==
  /\ {paused, ready, loaded, warming, maintenance, resume_after, answered} \subseteq BOOLEAN
  /\ leases \in 0..MaxLeases

LEMMA ManagerCounted ==
  ASSUME Counted, Admit \/ Finish \/ Sweep \/ \E fine \in BOOLEAN : StartupEnds(fine)
  PROVE  Counted'
<1> USE MaintenanceAssumption
<1>1. CASE Admit
  BY <1>1 DEF Counted, Admit, jobs
<1>2. CASE Finish
  BY <1>2 DEF Counted, Finish, jobs
<1>3. CASE Sweep
  BY <1>3 DEF Counted, Sweep, jobs
<1>4. ASSUME NEW fine \in BOOLEAN, StartupEnds(fine)
      PROVE  Counted'
  BY <1>4 DEF Counted, StartupEnds, jobs
<1> QED
  BY <1>1, <1>2, <1>3, <1>4

LEMMA ThreadCounted ==
  ASSUME Counted, NEW a \in Actors,
         \/ PausePost(a) \/ PauseDrained(a) \/ PauseTimesOut(a) \/ ResumePost(a)
         \/ \E what \in Actions \cup {"get"} : Look(a, what)
         \/ Collect(a) \/ Submit(a)
  PROVE  Counted'
<1> USE DEF Counted, inference, jobs
<1>1. CASE PausePost(a) \/ PauseDrained(a)
  BY <1>1 DEF PausePost, PauseDrained, PauseBegins, PauseReturns
<1>2. CASE PauseTimesOut(a) \/ ResumePost(a)
  BY <1>2 DEF PauseTimesOut, ResumePost, resume_inference
<1>3. ASSUME NEW what \in Actions \cup {"get"}, Look(a, what)
      PROVE  Counted'
  BY <1>3 DEF Look, Clear, Collected
<1>4. CASE Collect(a)
  BY <1>4 DEF Collect, Reload, ResumeCollected, Clear, Collected, resume_inference
<1>5. CASE ReadStatus(a)
  BY <1>5 DEF ReadStatus
<1>6. CASE SubmitPauses(a)
  BY <1>6 DEF SubmitPauses, PauseBegins, PauseReturns
<1>7. CASE RecordFails(a)
  BY <1>7 DEF RecordFails
<1>8. ASSUME NEW j \in Jobs, Launch(a, j) \/ SpawnFails(a, j)
      PROVE  Counted'
  BY <1>8 DEF Launch, SpawnFails, resume_inference
<1> QED
  BY <1>1, <1>2, <1>3, <1>4, <1>5, <1>6, <1>7, <1>8 DEF Submit

LEMMA NextCounted ==
  ASSUME Counted, [Next]_vars
  PROVE  Counted'
<1>1. CASE UNCHANGED vars
  BY <1>1 DEF vars, inference, jobs, Counted
<1>2. ASSUME NEW o \in Operators, Operate(o)
      PROVE  Counted'
  BY <1>2, ThreadCounted DEF Operate, Actors
<1>3. CASE Look(Monitor, "get") \/ Collect(Monitor)
  BY <1>3, ThreadCounted DEF Actors
<1>4. ASSUME NEW j \in Jobs,
             ProcessDies(j) \/ \E state \in {"completed", "failed"} : ProcessEnds(j, state)
      PROVE  Counted'
  BY <1>4 DEF ProcessDies, ProcessEnds, inference, jobs, Counted
<1> QED
  BY <1>1, <1>2, <1>3, <1>4, ManagerCounted DEF Next

\* Whatever the interleaving, the number of requests under way never falls
\* below zero, the mutex has one holder, and a record that is written stays a
\* job's record (the manager's lease count and Jobs, src/src/dashboard.cpp:195-263).
THEOREM ProtocolTyped == Spec => []TypeOK
<1>1. Init => Counted
  <2>1. Init => {paused, ready, loaded, warming, maintenance, resume_after, answered} \subseteq BOOLEAN
    BY Zenon DEF Init
  <2>2. Init => leases \in 0..MaxLeases
    BY MaintenanceAssumption DEF Init
  <2> QED
    BY <2>1, <2>2 DEF Counted
<1>2. Serial /\ Counted => TypeOK
  BY DEF Serial, ThreadsTyped, FilesTyped, Counted, TypeOK
<1> QED
  BY <1>1, <1>2, NextCounted, SerialInvariant, PTL DEF Spec

=============================================================================
