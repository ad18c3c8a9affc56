------------------------------- MODULE Process -------------------------------
(***************************************************************************)
(* lib/process.go: the job supervisor every plugin runs on.                *)
(*                                                                         *)
(* A process counts its jobs in a sync.WaitGroup that starts at one for    *)
(* the "main job"; Terminate releases that one and spawns the callbacks    *)
(* registered with OnTerminate; a goroutine closes doneCh when the count   *)
(* reaches zero.  Shutdown terminates and waits for doneCh or a deadline,  *)
(* Close cancels the context of every job and waits for doneCh.            *)
(*                                                                         *)
(* Jobs are Services (a watcher, an http server: they register a callback  *)
(* first and then run until they are told to stop or fail) and Tasks (an   *)
(* event handler: it ends by itself).                                      *)
(* Callers are goroutines outside the process: the signal handler and the  *)
(* graceful shutdown goroutine of lib/signals.go.                          *)
(***************************************************************************)
EXTENDS Integers, FiniteSets

CONSTANTS
  Service,               \* long-running jobs
  Task,                  \* short jobs
  Caller                 \* goroutines calling Shutdown and Close

ASSUME JobsAssumption ==
  /\ IsFiniteSet(Service)
  /\ IsFiniteSet(Task)
  /\ Service \intersect Task = {}

Job == Service \union Task

VARIABLES
  job,                   \* [Job -> status]
  critical,              \* was the job spawned with SpawnCriticalJob?
  onTerminate,           \* [Service -> status of its terminate callback]
  jobs,                  \* counter of the sync.WaitGroup
  once,                  \* progress of the sync.Once of terminate
  terminated,            \* the flag of the same name
  doneCh,                \* is doneCh closed?
  cancelled,             \* has the process context been cancelled?
  caller                 \* [Caller -> status]

vars == <<job, critical, onTerminate, jobs, once, terminated, doneCh,
          cancelled, caller>>

\* "failing": a critical job that returned an error and left the WaitGroup,
\* but whose goroutine has yet to get through process.Terminate(); then "failed".
JobStatus == {"new", "running", "failing", "failed", "ended"}
CallbackStatus == {"none", "listed", "running", "ended"}
CallerStatus == {"idle", "terminating", "waiting", "timedout", "closing",
                 "returned"}

TypeOK ==
  /\ job \in [Job -> JobStatus]
  /\ critical \in [Job -> BOOLEAN]
  /\ onTerminate \in [Service -> CallbackStatus]
  /\ jobs \in Nat        \* a negative WaitGroup counter is a panic
  /\ once \in {"idle", "running", "done"}
  /\ terminated \in BOOLEAN
  /\ doneCh \in BOOLEAN
  /\ cancelled \in BOOLEAN
  /\ caller \in [Caller -> CallerStatus]

RunningJobs == {j \in Job : job[j] = "running"}
RunningCallbacks == {s \in Service : onTerminate[s] = "running"}
ListedCallbacks == {s \in Service : onTerminate[s] = "listed"}

-----------------------------------------------------------------------------
(***************************************************************************)
(* NewProcess                                                              *)
(***************************************************************************)
Init ==
  /\ job = [j \in Job |-> "new"]
  /\ critical = [j \in Job |-> FALSE]
  /\ onTerminate = [s \in Service |-> "none"]
  /\ jobs = 1
  /\ once = "idle"
  /\ terminated = FALSE
  /\ doneCh = FALSE
  /\ cancelled = FALSE
  /\ caller = [c \in Caller |-> "idle"]

(***************************************************************************)
(* SpawnJob and SpawnCriticalJob.  The caller is a running job, or the     *)
(* creator while the main job is counted: either holds the count above     *)
(* zero, so that the doneCh check and jobs.Add are one step.               *)
(***************************************************************************)
MaySpawn == RunningJobs # {} \/ once # "done"

Spawn(j) ==
  /\ job[j] = "new"
  /\ MaySpawn
  /\ ~doneCh
  /\ job' = [job EXCEPT ![j] = "running"]
  /\ \E isCritical \in BOOLEAN : critical' = [critical EXCEPT ![j] = isCritical]
  /\ jobs' = jobs + 1
  /\ UNCHANGED <<onTerminate, once, terminated, doneCh, cancelled, caller>>

(***************************************************************************)
(* A service calls OnTerminate: the callback is appended to the list, or   *)
(* spawned at once when the process has already been terminated.           *)
(***************************************************************************)
\* A slip: the callback is always appended to the list.
OnTerminateAlwaysLists(s) ==
  /\ job[s] = "running"
  /\ onTerminate[s] = "none"
  /\ onTerminate' = [onTerminate EXCEPT ![s] = "listed"]
  /\ UNCHANGED <<job, critical, jobs, once, terminated, doneCh, cancelled,
                 caller>>

OnTerminate(s) ==
  /\ job[s] = "running"
  /\ onTerminate[s] = "none"
  /\ IF terminated
       THEN /\ onTerminate' = [onTerminate EXCEPT ![s] = "running"]
            /\ jobs' = jobs + 1
       ELSE /\ onTerminate' = [onTerminate EXCEPT ![s] = "listed"]
            /\ UNCHANGED jobs
  /\ UNCHANGED <<job, critical, once, terminated, doneCh, cancelled, caller>>

(***************************************************************************)
(* The goroutine of a job after DoJob returned: jobs.Done(), then          *)
(* Terminate() for the error of a critical job.  The error is not kept.    *)
(***************************************************************************)
\* A slip: the error path forgets jobs.Done().
JobDoneUnlessFailed(j, failed) ==
  /\ job[j] = "running"
  /\ job' = [job EXCEPT ![j] = IF failed /\ critical[j] THEN "failing"
                                                        ELSE "ended"]
  /\ jobs' = IF failed THEN jobs ELSE jobs - 1
  /\ UNCHANGED <<critical, onTerminate, once, terminated, doneCh, cancelled,
                 caller>>

JobDone(j, failed) ==
  /\ job[j] = "running"
  /\ job' = [job EXCEPT ![j] = IF failed /\ critical[j] THEN "failing"
                                                        ELSE "ended"]
  /\ jobs' = jobs - 1
  /\ UNCHANGED <<critical, onTerminate, once, terminated, doneCh, cancelled,
                 caller>>

TaskReturn(t) == \E failed \in BOOLEAN : JobDone(t, failed)

\* A service is told to stop by its callback, from the moment that runs, or by
\* the process context.
ToldToStop(s) == cancelled \/ onTerminate[s] \in {"running", "ended"}

\* Returning nil takes no order to stop: a watcher does it whenever its stream
\* is cancelled, also by the other side.
ServiceStop(s) ==
  /\ onTerminate[s] # "none"
  /\ JobDone(s, FALSE)

\* A service may fail at any time after it registered its callback.
ServiceFail(s) ==
  /\ onTerminate[s] # "none"
  /\ JobDone(s, TRUE)

CallbackReturn(s) ==
  /\ onTerminate[s] = "running"
  /\ onTerminate' = [onTerminate EXCEPT ![s] = "ended"]
  /\ jobs' = jobs - 1
  /\ UNCHANGED <<job, critical, once, terminated, doneCh, cancelled, caller>>

(***************************************************************************)
(* terminate: the body of the sync.Once under the lock, then jobs.Done()   *)
(* for the main job.  Every other goroutine that calls Terminate is held   *)
(* by the Once until the first one is through.                             *)
(***************************************************************************)
WantsTermination ==
  \/ \E c \in Caller : caller[c] = "terminating"
  \/ \E j \in Job : job[j] = "failing"

\* A slip: the callbacks are not spawned.
TerminateBodySilent ==
  /\ WantsTermination
  /\ once = "idle"
  /\ once' = "running"
  /\ terminated' = TRUE
  /\ UNCHANGED <<job, critical, onTerminate, jobs, doneCh, cancelled, caller>>

TerminateBody ==
  /\ WantsTermination
  /\ once = "idle"
  /\ once' = "running"
  /\ terminated' = TRUE
  /\ onTerminate' = [s \in Service |-> IF onTerminate[s] = "listed"
                                         THEN "running" ELSE onTerminate[s]]
  /\ jobs' = jobs + Cardinality(ListedCallbacks)
  /\ UNCHANGED <<job, critical, doneCh, cancelled, caller>>

\* Two slips: without the sync.Once, and without jobs.Done().
ReleaseAgain ==
  /\ once \in {"running", "done"}
  /\ WantsTermination
  /\ once' = "done"
  /\ jobs' = jobs - 1
  /\ UNCHANGED <<job, critical, onTerminate, terminated, doneCh, cancelled,
                 caller>>
ReleaseNothing ==
  /\ once = "running"
  /\ once' = "done"
  /\ UNCHANGED <<job, critical, onTerminate, jobs, terminated, doneCh, cancelled,
                 caller>>

ReleaseMainJob ==
  /\ once = "running"
  /\ once' = "done"
  /\ jobs' = jobs - 1
  /\ UNCHANGED <<job, critical, onTerminate, terminated, doneCh, cancelled,
                 caller>>

\* The goroutine of a failed critical job gets through Terminate().
FailedJobEnds(j) ==
  /\ job[j] = "failing"
  /\ once = "done"
  /\ job' = [job EXCEPT ![j] = "failed"]
  /\ UNCHANGED <<critical, onTerminate, jobs, once, terminated, doneCh,
                 cancelled, caller>>

(***************************************************************************)
(* jobs.Wait(); close(doneCh)                                              *)
(***************************************************************************)
\* A slip: doneCh is closed by terminate instead of by the last job.
CloseDoneChEarly ==
  /\ terminated
  /\ ~doneCh
  /\ doneCh' = TRUE
  /\ UNCHANGED <<job, critical, onTerminate, jobs, once, terminated,
                 cancelled, caller>>

CloseDoneCh ==
  /\ jobs = 0
  /\ ~doneCh
  /\ doneCh' = TRUE
  /\ UNCHANGED <<job, critical, onTerminate, jobs, once, terminated,
                 cancelled, caller>>

-----------------------------------------------------------------------------
(***************************************************************************)
(* Shutdown and Close, as gracefulShutdown of lib/signals.go uses them:    *)
(* Close alone (second SIGINT), or Shutdown and, past its deadline, Close. *)
(***************************************************************************)
CallerStep(c, from, to) ==
  /\ caller[c] = from
  /\ caller' = [caller EXCEPT ![c] = to]
  /\ UNCHANGED <<job, critical, onTerminate, jobs, once, terminated, doneCh>>

Shutdown(c) == CallerStep(c, "idle", "terminating") /\ UNCHANGED cancelled

ShutdownWait(c) ==
  /\ once = "done"
  /\ CallerStep(c, "terminating", "waiting")
  /\ UNCHANGED cancelled

ShutdownReturn(c) ==
  /\ doneCh
  /\ CallerStep(c, "waiting", "returned")
  /\ UNCHANGED cancelled

ShutdownTimeout(c) == CallerStep(c, "waiting", "timedout") /\ UNCHANGED cancelled

Close(c) ==
  /\ \E from \in {"idle", "timedout"} : CallerStep(c, from, "closing")
  /\ cancelled' = TRUE

CloseReturn(c) ==
  /\ doneCh
  /\ CallerStep(c, "closing", "returned")
  /\ UNCHANGED cancelled

-----------------------------------------------------------------------------
Next ==
  \/ \E j \in Job : Spawn(j) \/ FailedJobEnds(j)
  \/ \E t \in Task : TaskReturn(t)
  \/ \E s \in Service :
       OnTerminate(s) \/ ServiceStop(s) \/ ServiceFail(s) \/ CallbackReturn(s)
  \/ TerminateBody
  \/ ReleaseMainJob
  \/ CloseDoneCh
  \/ \E c \in Caller :
       \/ Shutdown(c) \/ ShutdownWait(c) \/ ShutdownReturn(c)
       \/ ShutdownTimeout(c) \/ Close(c) \/ CloseReturn(c)

(***************************************************************************)
(* Goroutines make progress, tasks and callbacks end, a service that was   *)
(* told to stop stops, a deadline passes.  Nobody has to spawn a job, to   *)
(* fail or to ask for termination.                                         *)
(***************************************************************************)
Fairness ==
  /\ \A t \in Task : WF_vars(TaskReturn(t))
  /\ \A s \in Service : /\ WF_vars(OnTerminate(s))
                        /\ WF_vars(ToldToStop(s) /\ ServiceStop(s))
                        /\ WF_vars(CallbackReturn(s))
  /\ \A j \in Job : WF_vars(FailedJobEnds(j))
  /\ WF_vars(TerminateBody)
  /\ WF_vars(ReleaseMainJob)
  /\ WF_vars(CloseDoneCh)
  /\ \A c \in Caller :
       /\ WF_vars(ShutdownWait(c))
       /\ WF_vars(ShutdownReturn(c) \/ ShutdownTimeout(c))
       /\ WF_vars(caller[c] = "timedout" /\ Close(c))
       /\ WF_vars(CloseReturn(c))

Spec == Init /\ [][Next]_vars
FairSpec == Spec /\ Fairness

-----------------------------------------------------------------------------
(***************************************************************************)
(* The WaitGroup counts exactly the running jobs, the running callbacks    *)
(* and, until terminate has released it, the main job: it never goes       *)
(* negative (a panic) and never reaches zero early.                        *)
(***************************************************************************)
WaitGroupExact ==
  jobs = Cardinality(RunningJobs) + Cardinality(RunningCallbacks)
           + (IF once = "done" THEN 0 ELSE 1)

(***************************************************************************)
(* "doneCh is closed when all the jobs are completed": nothing runs, no    *)
(* callback is still waiting to be run, and termination was asked for.     *)
(***************************************************************************)
DoneMeansDrained ==
  doneCh => /\ terminated
            /\ RunningJobs = {}
            /\ RunningCallbacks = {}
            /\ ListedCallbacks = {}

(***************************************************************************)
(* A terminate callback is never lost in the race between OnTerminate and  *)
(* Terminate: once the process is terminated no callback is only listed.   *)
(***************************************************************************)
NoLostCallback == terminated => ListedCallbacks = {}

(***************************************************************************)
(* The graceful shutdown of lib/signals.go ends, by Shutdown or by the     *)
(* Close that follows its deadline.                                        *)
(***************************************************************************)
GracefulShutdownEnds ==
  \A c \in Caller : caller[c] = "terminating" ~> caller[c] = "returned"

(***************************************************************************)
(* Process implements the abstract life cycle, and its promise that a      *)
(* process whose termination has begun goes down, whatever its jobs do.    *)
(***************************************************************************)
Phase == IF doneCh THEN "down" ELSE IF terminated THEN "terminating" ELSE "up"
Live == {<<"job", j>> : j \in RunningJobs}
          \union {<<"callback", s>> : s \in RunningCallbacks}
AllWork == ({"job"} \X Job) \union ({"callback"} \X Service)

Abstract == INSTANCE Lifecycle WITH Work <- AllWork, phase <- Phase, live <- Live

ImplementsLifecycle == Abstract!LifecycleSpec
ImplementsEventuallyDown == Abstract!EventuallyDown
=============================================================================
