---------------------------- MODULE ProcessProofs ----------------------------
(***************************************************************************)
(* Proofs about Process, for any finite sets of services and tasks and any *)
(* set of callers.  The argument: the WaitGroup counts exactly what runs   *)
(* (WaitGroupExact); the counter is zero when doneCh is closed and stays   *)
(* zero, since only a running job can spawn once terminate is through; and *)
(* the lock held by terminate and OnTerminate leaves no callback behind.   *)
(***************************************************************************)
EXTENDS Process, TLAPS, FiniteSetTheorems

\* The flag read by OnTerminate is set inside the body of the Once.
OnceFlag == terminated <=> once # "idle"

\* The goroutine that closes doneCh has seen the counter at zero.
DoneMeansZero == doneCh => jobs = 0

ProcessInv ==
  /\ TypeOK
  /\ WaitGroupExact
  /\ OnceFlag
  /\ NoLostCallback
  /\ DoneMeansZero

-----------------------------------------------------------------------------
(***************************************************************************)
(* The running jobs and the callbacks are finite sets.                     *)
(***************************************************************************)
LEMMA FiniteRunning ==
  /\ IsFiniteSet(RunningJobs)     /\ Cardinality(RunningJobs) \in Nat
  /\ IsFiniteSet(RunningCallbacks) /\ Cardinality(RunningCallbacks) \in Nat
  /\ IsFiniteSet(ListedCallbacks)  /\ Cardinality(ListedCallbacks) \in Nat
<1>1. IsFiniteSet(Job)
  BY JobsAssumption, FS_Union DEF Job
<1>2. /\ RunningJobs \in SUBSET Job
      /\ RunningCallbacks \in SUBSET Service
      /\ ListedCallbacks \in SUBSET Service
  BY DEF RunningJobs, RunningCallbacks, ListedCallbacks
<1>3. /\ IsFiniteSet(RunningJobs)
      /\ IsFiniteSet(RunningCallbacks)
      /\ IsFiniteSet(ListedCallbacks)
  BY <1>1, <1>2, JobsAssumption, FS_Subset
<1> QED BY <1>3, FS_CardinalityType

(***************************************************************************)
(* A set of running jobs or callbacks that is empty has cardinality zero   *)
(* and only then.                                                          *)
(***************************************************************************)
LEMMA ZeroMeansNone ==
  /\ Cardinality(RunningJobs) = 0 <=> RunningJobs = {}
  /\ Cardinality(RunningCallbacks) = 0 <=> RunningCallbacks = {}
BY FiniteRunning, FS_EmptySet

(***************************************************************************)
(* With the invariant, a counter at zero means that terminate is through   *)
(* and nothing runs.                                                       *)
(***************************************************************************)
LEMMA ZeroMeansDrained ==
  ASSUME WaitGroupExact, jobs = 0
  PROVE  once = "done" /\ RunningJobs = {} /\ RunningCallbacks = {}
<1>1. /\ Cardinality(RunningJobs) = 0
      /\ Cardinality(RunningCallbacks) = 0
      /\ once = "done"
  BY FiniteRunning DEF WaitGroupExact
<1> QED BY <1>1, ZeroMeansNone

-----------------------------------------------------------------------------
(***************************************************************************)
(* The invariant holds of a new process.                                   *)
(***************************************************************************)
LEMMA InitInv == Init => ProcessInv
<1> SUFFICES ASSUME Init PROVE ProcessInv
  OBVIOUS
<1>1. TypeOK
  <2>1. /\ job \in [Job -> JobStatus]
        /\ critical \in [Job -> BOOLEAN]
        /\ onTerminate \in [Service -> CallbackStatus]
        /\ caller \in [Caller -> CallerStatus]
    BY DEF Init, JobStatus, CallbackStatus, CallerStatus
  <2>2. /\ jobs \in Nat
        /\ once \in {"idle", "running", "done"}
    BY DEF Init
  <2>3. terminated \in BOOLEAN /\ doneCh \in BOOLEAN /\ cancelled \in BOOLEAN
    BY DEF Init
  <2> QED BY <2>1, <2>2, <2>3 DEF TypeOK
<1>2. RunningJobs = {} /\ RunningCallbacks = {} /\ ListedCallbacks = {}
  BY DEF Init, RunningJobs, RunningCallbacks, ListedCallbacks, Job
<1>3. WaitGroupExact
  BY <1>2, FS_EmptySet DEF Init, WaitGroupExact
<1>4. OnceFlag /\ NoLostCallback /\ DoneMeansZero
  BY <1>2 DEF Init, OnceFlag, NoLostCallback, DoneMeansZero
<1> QED BY <1>1, <1>3, <1>4 DEF ProcessInv

(***************************************************************************)
(* A job that starts adds one to the count, one that leaves takes one.     *)
(***************************************************************************)
LEMMA JobJoins ==
  ASSUME TypeOK, NEW j \in Job, job[j] # "running",
         job' = [job EXCEPT ![j] = "running"]
  PROVE  Cardinality(RunningJobs') = Cardinality(RunningJobs) + 1
<1>1. RunningJobs' = RunningJobs \union {j} /\ j \notin RunningJobs
  BY DEF RunningJobs, TypeOK
<1> QED BY <1>1, FiniteRunning, FS_AddElement

LEMMA JobLeaves ==
  ASSUME TypeOK, NEW j \in Job, job[j] = "running", NEW s, s # "running",
         job' = [job EXCEPT ![j] = s]
  PROVE  Cardinality(RunningJobs') = Cardinality(RunningJobs) - 1
<1>1. RunningJobs' = RunningJobs \ {j} /\ j \in RunningJobs
  BY DEF RunningJobs, TypeOK
<1> QED BY <1>1, FiniteRunning, FS_RemoveElement

-----------------------------------------------------------------------------
(***************************************************************************)
(* Every step preserves the invariant, one lemma per operation that        *)
(* touches the WaitGroup.                                                  *)
(***************************************************************************)
LEMMA SpawnInv ==
  ASSUME ProcessInv, NEW j \in Job, Spawn(j)
  PROVE  ProcessInv'
<1> USE DEF ProcessInv
<1>1. TypeOK'
  BY DEF Spawn, TypeOK, JobStatus
<1>2. Cardinality(RunningJobs') = Cardinality(RunningJobs) + 1
  BY JobJoins DEF Spawn
<1>3. RunningCallbacks' = RunningCallbacks /\ ListedCallbacks' = ListedCallbacks
  BY DEF Spawn, RunningCallbacks, ListedCallbacks
<1>4. WaitGroupExact'
  BY <1>2, <1>3, FiniteRunning DEF Spawn, WaitGroupExact
<1>5. OnceFlag' /\ NoLostCallback' /\ DoneMeansZero'
  BY <1>3 DEF Spawn, OnceFlag, NoLostCallback, DoneMeansZero
<1> QED BY <1>1, <1>4, <1>5

LEMMA OnTerminateInv ==
  ASSUME ProcessInv, NEW s \in Service, OnTerminate(s)
  PROVE  ProcessInv'
<1> USE DEF ProcessInv
<1>1. TypeOK'
  BY DEF OnTerminate, TypeOK, CallbackStatus
<1>2. RunningJobs' = RunningJobs /\ s \in RunningJobs
  BY DEF OnTerminate, RunningJobs, Job
<1>3. jobs # 0
  BY <1>2, ZeroMeansDrained
<1>4. CASE terminated
  <2>1. RunningCallbacks' = RunningCallbacks \union {s} /\ s \notin RunningCallbacks
    BY <1>4 DEF OnTerminate, RunningCallbacks, TypeOK
  <2>2. Cardinality(RunningCallbacks') = Cardinality(RunningCallbacks) + 1
    BY <2>1, FiniteRunning, FS_AddElement
  <2>3. WaitGroupExact'
    BY <1>2, <1>4, <2>2, FiniteRunning DEF OnTerminate, WaitGroupExact
  <2>4. ListedCallbacks' = ListedCallbacks
    BY <1>4 DEF OnTerminate, ListedCallbacks, TypeOK
  <2>5. OnceFlag' /\ NoLostCallback' /\ DoneMeansZero'
    BY <1>3, <2>4 DEF OnTerminate, OnceFlag, NoLostCallback, DoneMeansZero
  <2> QED BY <1>1, <2>3, <2>5
<1>5. CASE ~terminated
  <2>1. RunningCallbacks' = RunningCallbacks
    BY <1>5 DEF OnTerminate, RunningCallbacks, TypeOK
  <2>2. WaitGroupExact'
    BY <1>2, <1>5, <2>1 DEF OnTerminate, WaitGroupExact
  <2>3. OnceFlag' /\ NoLostCallback' /\ DoneMeansZero'
    BY <1>5, <1>3 DEF OnTerminate, OnceFlag, NoLostCallback, DoneMeansZero
  <2> QED BY <1>1, <2>2, <2>3
<1> QED BY <1>4, <1>5

LEMMA JobDoneInv ==
  ASSUME ProcessInv, NEW j \in Job, NEW failed \in BOOLEAN, JobDone(j, failed)
  PROVE  ProcessInv'
<1> USE DEF ProcessInv
<1> DEFINE after == IF failed /\ critical[j] THEN "failing" ELSE "ended"
<1>0. jobs # 0
  <2>1. j \in RunningJobs
    BY DEF JobDone, RunningJobs
  <2> QED BY <2>1, ZeroMeansDrained
<1>1. TypeOK'
  BY <1>0 DEF JobDone, TypeOK, JobStatus
<1>2. Cardinality(RunningJobs') = Cardinality(RunningJobs) - 1
  <2>1. after # "running" /\ job' = [job EXCEPT ![j] = after] /\ job[j] = "running"
    BY DEF JobDone
  <2> HIDE DEF after
  <2> QED BY <2>1, JobLeaves
<1>3. RunningCallbacks' = RunningCallbacks /\ ListedCallbacks' = ListedCallbacks
  BY DEF JobDone, RunningCallbacks, ListedCallbacks
<1>4. WaitGroupExact'
  BY <1>2, <1>3, FiniteRunning DEF JobDone, WaitGroupExact
<1>5. j \in RunningJobs
  BY DEF JobDone, RunningJobs
<1>6. ~doneCh
  BY <1>5, ZeroMeansDrained DEF DoneMeansZero
<1>7. OnceFlag' /\ NoLostCallback' /\ DoneMeansZero'
  BY <1>3, <1>6 DEF JobDone, OnceFlag, NoLostCallback, DoneMeansZero
<1> QED BY <1>1, <1>4, <1>7

LEMMA CallbackReturnInv ==
  ASSUME ProcessInv, NEW s \in Service, CallbackReturn(s)
  PROVE  ProcessInv'
<1> USE DEF ProcessInv
<1>0. jobs # 0
  <2>1. s \in RunningCallbacks
    BY DEF CallbackReturn, RunningCallbacks
  <2> QED BY <2>1, ZeroMeansDrained
<1>1. TypeOK'
  BY <1>0 DEF CallbackReturn, TypeOK, CallbackStatus
<1>2. RunningCallbacks' = RunningCallbacks \ {s} /\ s \in RunningCallbacks
  BY DEF CallbackReturn, RunningCallbacks, TypeOK
<1>3. Cardinality(RunningCallbacks') = Cardinality(RunningCallbacks) - 1
  BY <1>2, FiniteRunning, FS_RemoveElement
<1>4. RunningJobs' = RunningJobs /\ ListedCallbacks' = ListedCallbacks
  BY DEF CallbackReturn, RunningJobs, ListedCallbacks, TypeOK
<1>5. WaitGroupExact'
  BY <1>3, <1>4, FiniteRunning DEF CallbackReturn, WaitGroupExact
<1>6. ~doneCh
  BY <1>2, ZeroMeansDrained DEF DoneMeansZero
<1>7. OnceFlag' /\ NoLostCallback' /\ DoneMeansZero'
  BY <1>4, <1>6 DEF CallbackReturn, OnceFlag, NoLostCallback, DoneMeansZero
<1> QED BY <1>1, <1>5, <1>7

LEMMA TerminateBodyInv ==
  ASSUME ProcessInv, TerminateBody
  PROVE  ProcessInv'
<1> USE DEF ProcessInv
<1>1. TypeOK'
  <2>1. jobs' \in Nat
    BY FiniteRunning DEF TerminateBody, TypeOK
  <2> QED BY <2>1 DEF TerminateBody, TypeOK, CallbackStatus
<1>2. RunningJobs' = RunningJobs
  BY DEF TerminateBody, RunningJobs
<1>3. RunningCallbacks' = RunningCallbacks \union ListedCallbacks
  BY DEF TerminateBody, RunningCallbacks, ListedCallbacks
<1>4. RunningCallbacks \intersect ListedCallbacks = {}
  BY DEF RunningCallbacks, ListedCallbacks
<1>5. Cardinality(RunningCallbacks')
        = Cardinality(RunningCallbacks) + Cardinality(ListedCallbacks)
  <2>1. Cardinality(RunningCallbacks \union ListedCallbacks)
          = Cardinality(RunningCallbacks) + Cardinality(ListedCallbacks)
              - Cardinality(RunningCallbacks \intersect ListedCallbacks)
    BY FiniteRunning, FS_Union
  <2>2. Cardinality(RunningCallbacks \intersect ListedCallbacks) = 0
    BY <1>4, FS_EmptySet
  <2> QED BY <1>3, <2>1, <2>2, FiniteRunning
<1>6. WaitGroupExact'
  BY <1>2, <1>5, FiniteRunning DEF TerminateBody, WaitGroupExact
<1>7. ListedCallbacks' = {}
  BY DEF TerminateBody, ListedCallbacks
<1>8. ~doneCh
  BY ZeroMeansDrained DEF TerminateBody, DoneMeansZero
<1>9. OnceFlag' /\ NoLostCallback' /\ DoneMeansZero'
  BY <1>7, <1>8 DEF TerminateBody, OnceFlag, NoLostCallback, DoneMeansZero
<1> QED BY <1>1, <1>6, <1>9

LEMMA ReleaseMainJobInv ==
  ASSUME ProcessInv, ReleaseMainJob
  PROVE  ProcessInv'
<1> USE DEF ProcessInv
<1>0. jobs # 0
  BY ZeroMeansDrained DEF ReleaseMainJob
<1>1. TypeOK'
  BY <1>0 DEF ReleaseMainJob, TypeOK
<1>2. /\ RunningJobs' = RunningJobs
      /\ RunningCallbacks' = RunningCallbacks
      /\ ListedCallbacks' = ListedCallbacks
  BY DEF ReleaseMainJob, RunningJobs, RunningCallbacks, ListedCallbacks
<1>3. WaitGroupExact'
  BY <1>2, FiniteRunning DEF ReleaseMainJob, WaitGroupExact
<1>4. ~doneCh
  BY ZeroMeansDrained DEF ReleaseMainJob, DoneMeansZero
<1>5. OnceFlag' /\ NoLostCallback' /\ DoneMeansZero'
  BY <1>2, <1>4 DEF ReleaseMainJob, OnceFlag, NoLostCallback, DoneMeansZero
<1> QED BY <1>1, <1>3, <1>5

\* Steps that leave the WaitGroup and the jobs that run as they are.
QuietStep ==
  \/ \E j \in Job : FailedJobEnds(j)
  \/ CloseDoneCh
  \/ \E c \in Caller :
       \/ Shutdown(c) \/ ShutdownWait(c) \/ ShutdownReturn(c)
       \/ ShutdownTimeout(c) \/ Close(c) \/ CloseReturn(c)
  \/ UNCHANGED vars

LEMMA QuietStepInv ==
  ASSUME ProcessInv, QuietStep
  PROVE  ProcessInv'
<1> USE DEF ProcessInv
<1>1. /\ UNCHANGED <<jobs, onTerminate, once, terminated>>
      /\ RunningJobs' = RunningJobs
      /\ TypeOK'
      /\ doneCh' => jobs' = 0
  <2>1. CASE \E j \in Job : FailedJobEnds(j)
    BY <2>1 DEF FailedJobEnds, RunningJobs, TypeOK, JobStatus, DoneMeansZero
  <2>2. CASE CloseDoneCh
    BY <2>2 DEF CloseDoneCh, RunningJobs, TypeOK
  <2>3. CASE \E c \in Caller :
               \/ Shutdown(c) \/ ShutdownWait(c) \/ ShutdownReturn(c)
               \/ ShutdownTimeout(c) \/ Close(c) \/ CloseReturn(c)
    <3>1. PICK c \in Caller, from \in CallerStatus, to \in CallerStatus :
                 CallerStep(c, from, to) /\ cancelled' \in {cancelled, TRUE}
      BY <2>3 DEF Shutdown, ShutdownWait, ShutdownReturn, ShutdownTimeout,
                  Close, CloseReturn, CallerStatus
    <3> QED BY <3>1 DEF CallerStep, RunningJobs, TypeOK, DoneMeansZero
  <2>4. CASE UNCHANGED vars
    BY <2>4 DEF vars, RunningJobs, TypeOK, DoneMeansZero
  <2> QED BY <2>1, <2>2, <2>3, <2>4 DEF QuietStep
<1>2. RunningCallbacks' = RunningCallbacks /\ ListedCallbacks' = ListedCallbacks
  BY <1>1 DEF RunningCallbacks, ListedCallbacks
<1>3. WaitGroupExact' /\ OnceFlag' /\ NoLostCallback' /\ DoneMeansZero'
  BY <1>1, <1>2 DEF WaitGroupExact, OnceFlag, NoLostCallback, DoneMeansZero
<1> QED BY <1>1, <1>3

LEMMA NextInv == ProcessInv /\ [Next]_vars => ProcessInv'
<1> SUFFICES ASSUME ProcessInv, [Next]_vars PROVE ProcessInv'
  OBVIOUS
<1>1. CASE \E j \in Job : Spawn(j)
  BY <1>1, SpawnInv
<1>2. CASE \E t \in Task : TaskReturn(t)
  BY <1>2, JobDoneInv DEF TaskReturn, Job
<1>3. CASE \E s \in Service : OnTerminate(s)
  BY <1>3, OnTerminateInv
<1>4. CASE \E s \in Service : ServiceStop(s) \/ ServiceFail(s)
  BY <1>4, JobDoneInv DEF ServiceStop, ServiceFail, Job
<1>5. CASE \E s \in Service : CallbackReturn(s)
  BY <1>5, CallbackReturnInv
<1>6. CASE TerminateBody
  BY <1>6, TerminateBodyInv
<1>7. CASE ReleaseMainJob
  BY <1>7, ReleaseMainJobInv
<1>8. CASE QuietStep
  BY <1>8, QuietStepInv
<1> QED
  BY <1>1, <1>2, <1>3, <1>4, <1>5, <1>6, <1>7, <1>8 DEF Next, QuietStep

-----------------------------------------------------------------------------
(***************************************************************************)
(* The inductive invariant holds in every state of the process.            *)
(***************************************************************************)
THEOREM ProcessInvariant == Spec => []ProcessInv
<1> QED BY InitInv, NextInv, PTL DEF Spec

(***************************************************************************)
(* The variables keep their types.                                         *)
(***************************************************************************)
THEOREM TypeCorrect == Spec => []TypeOK
<1>1. ProcessInv => TypeOK
  BY DEF ProcessInv
<1> QED BY <1>1, ProcessInvariant, PTL

(***************************************************************************)
(* The WaitGroup counts exactly the running jobs, the running callbacks    *)
(* and the main job.                                                       *)
(***************************************************************************)
THEOREM WaitGroupCorrect == Spec => []WaitGroupExact
<1>1. ProcessInv => WaitGroupExact
  BY DEF ProcessInv
<1> QED BY <1>1, ProcessInvariant, PTL

(***************************************************************************)
(* doneCh is closed only when termination was asked for, no job and no     *)
(* callback runs and no registered callback was left out.                  *)
(***************************************************************************)
THEOREM DoneCorrect == Spec => []DoneMeansDrained
<1>1. ProcessInv => DoneMeansDrained
  BY ZeroMeansDrained
     DEF ProcessInv, DoneMeansDrained, DoneMeansZero, OnceFlag, NoLostCallback
<1> QED BY <1>1, ProcessInvariant, PTL

(***************************************************************************)
(* The part of the promise to go down that needs no fairness: termination  *)
(* never has everyone wait for everyone.  Until doneCh is closed there is  *)
(* a goroutine whose next step waits for nobody: terminate has the main    *)
(* job to release, a task or a callback returns, a service registers its   *)
(* callback or was told to stop, or the counter is zero.                   *)
(***************************************************************************)
SomebodyActs ==
  \/ once = "running"
  \/ \E t \in Task : job[t] = "running"
  \/ \E s \in Service : /\ job[s] = "running"
                        /\ onTerminate[s] = "none" \/ ToldToStop(s)
  \/ \E s \in Service : onTerminate[s] = "running"
  \/ jobs = 0

NeverStuck == terminated /\ ~doneCh => SomebodyActs

THEOREM NeverStuckCorrect == Spec => []NeverStuck
<1>1. ASSUME ProcessInv, terminated
      PROVE  SomebodyActs
  <2>1. CASE once = "running"
    BY <2>1 DEF SomebodyActs
  <2>2. CASE once = "done" /\ RunningJobs = {} /\ RunningCallbacks = {}
    <3>1. Cardinality(RunningJobs) = 0 /\ Cardinality(RunningCallbacks) = 0
      BY <2>2, FS_EmptySet
    <3>2. jobs = 0
      BY <1>1, <2>2, <3>1 DEF ProcessInv, WaitGroupExact
    <3> QED BY <3>2 DEF SomebodyActs
  <2>3. CASE RunningCallbacks # {}
    BY <2>3 DEF RunningCallbacks, SomebodyActs
  <2>4. ASSUME NEW j \in RunningJobs
        PROVE  SomebodyActs
    <3>1. CASE j \in Task
      BY <2>4, <3>1 DEF RunningJobs, SomebodyActs
    <3>2. CASE j \in Service
      <4>1. onTerminate[j] \in CallbackStatus /\ onTerminate[j] # "listed"
        BY <1>1, <3>2 DEF ProcessInv, TypeOK, NoLostCallback, ListedCallbacks
      <4>2. onTerminate[j] = "none" \/ ToldToStop(j)
        BY <4>1 DEF CallbackStatus, ToldToStop
      <4> QED BY <2>4, <3>2, <4>2 DEF RunningJobs, SomebodyActs
    <3> QED BY <2>4, <3>1, <3>2 DEF RunningJobs, Job
  <2>5. once \in {"running", "done"}
    BY <1>1 DEF ProcessInv, TypeOK, OnceFlag
  <2> QED BY <2>1, <2>2, <2>3, <2>4, <2>5
<1>2. ProcessInv => NeverStuck
  BY <1>1 DEF NeverStuck
<1> QED BY <1>2, ProcessInvariant, PTL

-----------------------------------------------------------------------------
(***************************************************************************)
(* Refinement.  A job or callback that starts or ends is the abstract      *)
(* Start or Finish of its piece of work; everything else leaves Live as    *)
(* it is.                                                                  *)
(***************************************************************************)
LEMMA LiveUnchanged ==
  ASSUME RunningJobs' = RunningJobs, RunningCallbacks' = RunningCallbacks
  PROVE  Live' = Live
BY DEF Live

LEMMA JobStarts ==
  ASSUME NEW j \in Job, j \notin RunningJobs,
         RunningJobs' = RunningJobs \union {j},
         RunningCallbacks' = RunningCallbacks
  PROVE  Live' = Live \union {<<"job", j>>} /\ <<"job", j>> \notin Live
BY DEF Live

LEMMA JobFinishes ==
  ASSUME NEW j \in Job, j \in RunningJobs,
         RunningJobs' = RunningJobs \ {j},
         RunningCallbacks' = RunningCallbacks
  PROVE  Live' = Live \ {<<"job", j>>} /\ <<"job", j>> \in Live
BY DEF Live

LEMMA CallbackStarts ==
  ASSUME NEW s \in Service, s \notin RunningCallbacks,
         RunningJobs' = RunningJobs,
         RunningCallbacks' = RunningCallbacks \union {s}
  PROVE  Live' = Live \union {<<"callback", s>>} /\ <<"callback", s>> \notin Live
BY DEF Live

LEMMA CallbackFinishes ==
  ASSUME NEW s \in Service, s \in RunningCallbacks,
         RunningJobs' = RunningJobs,
         RunningCallbacks' = RunningCallbacks \ {s}
  PROVE  Live' = Live \ {<<"callback", s>>} /\ <<"callback", s>> \in Live
BY DEF Live

\* A job leaving the WaitGroup is the abstract Finish.
LEMMA JobDoneRefines ==
  ASSUME TypeOK, NEW j \in Job, NEW failed \in BOOLEAN, JobDone(j, failed)
  PROVE  Abstract!Finish(<<"job", j>>)
<1>1. /\ j \in RunningJobs
      /\ RunningJobs' = RunningJobs \ {j}
      /\ RunningCallbacks' = RunningCallbacks
  BY DEF JobDone, RunningJobs, RunningCallbacks, TypeOK
<1>2. Phase' = Phase
  BY DEF JobDone, Phase
<1> QED BY <1>1, <1>2, JobFinishes DEF Abstract!Finish

LEMMA StepRefines ==
  ASSUME ProcessInv, ProcessInv', [Next]_vars
  PROVE  [Abstract!LifecycleNext]_(Abstract!lifecycleVars)
<1> USE DEF ProcessInv, Abstract!LifecycleNext, Abstract!lifecycleVars
<1>1. ASSUME NEW j \in Job, Spawn(j)
      PROVE  Abstract!Start(<<"job", j>>)
  <2>1. /\ j \notin RunningJobs
        /\ RunningJobs' = RunningJobs \union {j}
        /\ RunningCallbacks' = RunningCallbacks
    BY <1>1 DEF Spawn, RunningJobs, RunningCallbacks, TypeOK
  <2>2. Phase' = Phase /\ Phase # "down"
    BY <1>1 DEF Spawn, Phase
  <2> QED BY <2>1, <2>2, JobStarts DEF Abstract!Start
<1>2. ASSUME NEW s \in Service, OnTerminate(s)
      PROVE  Abstract!Start(<<"callback", s>>) \/ UNCHANGED <<Phase, Live>>
  <2>1. Phase' = Phase /\ RunningJobs' = RunningJobs
    BY <1>2 DEF OnTerminate, Phase, RunningJobs
  <2>2. CASE terminated
    <3>1. /\ s \notin RunningCallbacks
          /\ RunningCallbacks' = RunningCallbacks \union {s}
      BY <1>2, <2>2 DEF OnTerminate, RunningCallbacks, TypeOK
    <3>2. s \in RunningJobs
      BY <1>2 DEF OnTerminate, RunningJobs, Job
    <3>3. Phase # "down"
      BY <3>2, ZeroMeansDrained DEF Phase, DoneMeansZero
    <3> QED BY <2>1, <3>1, <3>3, CallbackStarts DEF Abstract!Start
  <2>3. CASE ~terminated
    <3>1. RunningCallbacks' = RunningCallbacks
      BY <1>2, <2>3 DEF OnTerminate, RunningCallbacks, TypeOK
    <3> QED BY <2>1, <3>1, LiveUnchanged
  <2> QED BY <2>2, <2>3
<1>3. ASSUME NEW s \in Service, CallbackReturn(s)
      PROVE  Abstract!Finish(<<"callback", s>>)
  <2>1. /\ s \in RunningCallbacks
        /\ RunningJobs' = RunningJobs
        /\ RunningCallbacks' = RunningCallbacks \ {s}
    BY <1>3 DEF CallbackReturn, RunningJobs, RunningCallbacks, TypeOK
  <2>2. Phase' = Phase
    BY <1>3 DEF CallbackReturn, Phase
  <2> QED BY <2>1, <2>2, CallbackFinishes DEF Abstract!Finish
<1>4. ASSUME TerminateBody
      PROVE  Abstract!BeginTermination
  <2>1. Phase = "up" /\ Phase' = "terminating"
    <3>1. ~terminated /\ terminated'
      BY <1>4 DEF TerminateBody, OnceFlag
    <3>2. ~doneCh /\ ~doneCh'
      BY <1>4, ZeroMeansDrained DEF TerminateBody, DoneMeansZero
    <3> QED BY <3>1, <3>2 DEF Phase
  <2>2. RunningJobs' = RunningJobs
    BY <1>4 DEF TerminateBody, RunningJobs
  <2>3. RunningCallbacks' = RunningCallbacks \union ListedCallbacks
    BY <1>4 DEF TerminateBody, RunningCallbacks, ListedCallbacks
  <2> DEFINE W == {<<"callback", s>> : s \in ListedCallbacks}
  <2>4. Live' = Live \union W
    BY <2>2, <2>3 DEF Live
  <2>5. W \in SUBSET AllWork
    BY DEF AllWork, ListedCallbacks
  <2> QED BY <2>1, <2>4, <2>5 DEF Abstract!BeginTermination
<1>5. ASSUME ReleaseMainJob
      PROVE  UNCHANGED <<Phase, Live>>
  <2>1. /\ RunningJobs' = RunningJobs
        /\ RunningCallbacks' = RunningCallbacks
        /\ Phase' = Phase
    BY <1>5 DEF ReleaseMainJob, RunningJobs, RunningCallbacks, Phase
  <2> QED BY <2>1, LiveUnchanged
<1>6. ASSUME CloseDoneCh
      PROVE  Abstract!GoDown
  <2>1. RunningJobs = {} /\ RunningCallbacks = {} /\ terminated
    BY <1>6, ZeroMeansDrained DEF CloseDoneCh, OnceFlag
  <2>2. Phase = "terminating" /\ Phase' = "down"
    BY <1>6, <2>1 DEF CloseDoneCh, Phase
  <2>3. Live = {}
    BY <2>1 DEF Live
  <2>4. Live' = Live
    BY <1>6 DEF CloseDoneCh, Live, RunningJobs, RunningCallbacks
  <2> QED BY <2>2, <2>3, <2>4 DEF Abstract!GoDown
<1>7. ASSUME NEW j \in Job, FailedJobEnds(j)
      PROVE  UNCHANGED <<Phase, Live>>
  <2>1. /\ RunningJobs' = RunningJobs
        /\ RunningCallbacks' = RunningCallbacks
        /\ Phase' = Phase
    BY <1>7 DEF FailedJobEnds, RunningJobs, RunningCallbacks, Phase, TypeOK
  <2> QED BY <2>1, LiveUnchanged
<1>8. ASSUME UNCHANGED <<job, onTerminate, terminated, doneCh>>
      PROVE  UNCHANGED <<Phase, Live>>
  BY <1>8 DEF Phase, Live, RunningJobs, RunningCallbacks
<1>9. ASSUME NEW c \in Caller,
             \/ Shutdown(c) \/ ShutdownWait(c) \/ ShutdownReturn(c)
             \/ ShutdownTimeout(c) \/ Close(c) \/ CloseReturn(c)
      PROVE  UNCHANGED <<Phase, Live>>
  BY <1>8, <1>9 DEF Shutdown, ShutdownWait, ShutdownReturn, ShutdownTimeout,
                    Close, CloseReturn, CallerStep
<1>10. CASE \E j \in Job : Spawn(j)
  BY <1>1, <1>10 DEF AllWork
<1>11. CASE \/ \E t \in Task : TaskReturn(t)
            \/ \E s \in Service : ServiceStop(s) \/ ServiceFail(s)
  <2>1. PICK j \in Job, failed \in BOOLEAN : JobDone(j, failed)
    BY <1>11 DEF TaskReturn, ServiceStop, ServiceFail, Job
  <2>2. Abstract!Finish(<<"job", j>>)
    BY <2>1, JobDoneRefines
  <2> QED BY <2>2 DEF AllWork
<1>12. CASE \E s \in Service : OnTerminate(s) \/ CallbackReturn(s)
  BY <1>2, <1>3, <1>12 DEF AllWork
<1>13. CASE \/ TerminateBody \/ ReleaseMainJob \/ CloseDoneCh
            \/ \E j \in Job : FailedJobEnds(j)
            \/ \E c \in Caller :
                 \/ Shutdown(c) \/ ShutdownWait(c) \/ ShutdownReturn(c)
                 \/ ShutdownTimeout(c) \/ Close(c) \/ CloseReturn(c)
  BY <1>4, <1>5, <1>6, <1>7, <1>9, <1>13
<1>14. CASE UNCHANGED vars
  BY <1>8, <1>14 DEF vars
<1> QED BY <1>10, <1>11, <1>12, <1>13, <1>14 DEF Next

(***************************************************************************)
(* The process implements the abstract life cycle.                         *)
(***************************************************************************)
THEOREM ProcessRefinesLifecycle == Spec => ImplementsLifecycle
<1>1. Init => Abstract!LifecycleInit
  <2> SUFFICES ASSUME Init PROVE Abstract!LifecycleInit
    OBVIOUS
  <2>1. RunningJobs = {} /\ RunningCallbacks = {}
    BY DEF Init, RunningJobs, RunningCallbacks
  <2> QED BY <2>1 DEF Init, Abstract!LifecycleInit, Phase, Live
<1>2. ProcessInv /\ ProcessInv' /\ [Next]_vars
        => [Abstract!LifecycleNext]_(Abstract!lifecycleVars)
  BY StepRefines
<1> QED
  BY <1>1, <1>2, ProcessInvariant, PTL
  DEF Spec, ImplementsLifecycle, Abstract!LifecycleSpec
=============================================================================
