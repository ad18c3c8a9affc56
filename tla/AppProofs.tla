------------------------------ MODULE AppProofs ------------------------------
(***************************************************************************)
(* Proofs about App, for any event handlers, with and without a webhook    *)
(* server.  First, every step of App is a step of Process or leaves its    *)
(* variables alone, so that what ProcessProofs shows holds of App.  Then   *)
(* an invariant about readiness, which needs to know that the late address *)
(* of the http server arrives only once, and one about errors: a job that  *)
(* is over has finished, and a main job that finished without an error has *)
(* seen all services finish without one.                                   *)
(***************************************************************************)
EXTENDS App, ProcessProofs

\* Statements of App.run that only a plugin with webhooks gets to.
WebhookOnly == pc \in {"spawnHttp", "awaitHttp", "setup"} => HasWebhook

HttpReadyOnce ==
  HasWebhook => /\ awaitsAddr => ~ready[http]
                /\ httpOk => ready[http]

Over == {"failing", "failed", "ended"}

OverMeansFinished == \A j \in ServiceJob : job[j] \in Over => finished[j]

\* A service registers its callback before it does anything else.
FinishedIsRegistered == \A s \in Service : finished[s] => onTerminate[s] # "none"

MainVerdict ==
  finished[main] /\ ~err[main] => \A s \in Service : finished[s] /\ ~err[s]

RunnerInStep ==
  /\ runner \in {"waiting", "returned"} => job[main] # "new"
  /\ runner = "returned" => doneCh

ReadyInv == AppTypeOK /\ WebhookOnly /\ HttpReadyOnce /\ ReadyIsTruthful
ErrorInv == FinishedIsRegistered /\ OverMeansFinished /\ MainVerdict /\ RunnerInStep

-----------------------------------------------------------------------------
(***************************************************************************)
(* Who is who among the jobs.                                              *)
(***************************************************************************)
LEMMA Roles ==
  /\ main \in Task /\ main \in ServiceJob /\ main \notin Service
  /\ watcher \in Service /\ watcher # main
  /\ Service \subseteq ServiceJob /\ ServiceJob \subseteq Job
  /\ Handler \subseteq Task /\ Handler \intersect ServiceJob = {}
  /\ HasWebhook => http \in Service /\ http # main /\ http # watcher
  /\ \A s \in Service : s = watcher \/ s = http
  /\ loop \in Caller /\ graceful \in Caller
BY AppAssumption, JobsAssumption DEF ServiceJob, Job, HasWebhook

(***************************************************************************)
(* Every step of App is a step of the supervisor or leaves it alone.  Only *)
(* a plugin with webhooks gets to the statement that spawns the http job.  *)
(***************************************************************************)
LEMMA MainStepOfProcess ==
  ASSUME WebhookOnly, Main
  PROVE  [Next]_vars
<1>1. CASE MainSpawn(http, "spawnHttp", "awaitHttp")
  <2>1. http \in Job /\ Spawn(http)
    BY <1>1, Roles DEF MainSpawn, SpawnCritical, MainAt, WebhookOnly
  <2> QED BY <2>1 DEF Next
<1>2. CASE MainSpawn(watcher, "spawnWatcher", "awaitWatcher")
  <2>1. watcher \in Job /\ Spawn(watcher)
    BY <1>2, Roles DEF MainSpawn, SpawnCritical
  <2> QED BY <2>1 DEF Next
<1>3. CASE MainInit \/ MainAwaitHttp \/ MainSetup \/ MainAwaitWatcher \/ MainWait
  BY <1>3 DEF MainInit, MainAwaitHttp, MainSetup, MainAwaitWatcher, MainWait,
              MainReturns
<1> QED BY <1>1, <1>2, <1>3 DEF Main

LEMMA JobExitOfProcess ==
  ASSUME AppTypeOK, FinishedIsRegistered, NEW j \in ServiceJob, JobExit(j)
  PROVE  Next
<1>1. finished[j] /\ err[j] \in BOOLEAN /\ JobDone(j, err[j])
  BY DEF JobExit, AppTypeOK
<1>2. CASE j = main
  BY <1>1, <1>2, Roles DEF TaskReturn, Next
<1>3. CASE j \in Service
  <2>1. onTerminate[j] # "none"
    BY <1>1, <1>3 DEF FinishedIsRegistered
  <2>2. CASE err[j]
    BY <1>1, <1>3, <2>1, <2>2 DEF ServiceFail, Next
  <2>3. CASE ~err[j]
    BY <1>1, <1>3, <2>1, <2>3 DEF ServiceStop, Next
  <2> QED BY <1>1, <2>2, <2>3
<1> QED BY <1>2, <1>3 DEF ServiceJob

LEMMA StepOfProcess ==
  ASSUME AppTypeOK, WebhookOnly, FinishedIsRegistered, [AppNext]_allVars
  PROVE  [Next]_vars
<1>1. CASE RunNewProcess \/ RunReturn
  BY <1>1 DEF RunNewProcess, RunReturn
<1>2. CASE RunSpawnMain
  <2>1. main \in Job /\ (Spawn(main) \/ UNCHANGED vars)
    BY <1>2, Roles DEF RunSpawnMain, SpawnCritical
  <2> QED BY <2>1 DEF Next
<1>3. CASE Main
  BY <1>3, MainStepOfProcess
<1>4. CASE \E j \in ServiceJob : JobExit(j)
  BY <1>4, JobExitOfProcess
<1>5. CASE \E s \in Service : ServiceRegister(s) \/ ServiceReturn(s)
  BY <1>5 DEF ServiceRegister, ServiceReturn, Next
<1>6. CASE WatcherReady \/ HttpListen \/ HttpReady
  BY <1>6 DEF WatcherReady, HttpListen, HttpReady
<1>7. CASE \E h \in Handler : SpawnHandler(h) \/ HandlerReturn(h)
  BY <1>7, Roles DEF SpawnHandler, HandlerReturn, Next, Job
<1>8. CASE Supervisor
  BY <1>8 DEF Supervisor, Next
<1>9. CASE SigTerm \/ SigInt \/ GracefulStart \/ SecondSigInt \/ GracefulStep
  BY <1>9, Roles DEF SigTerm, SigInt, GracefulStart, SecondSigInt, GracefulStep, Next
<1>10. CASE UNCHANGED allVars
  BY <1>10 DEF allVars
<1> QED
  BY <1>1, <1>2, <1>3, <1>4, <1>5, <1>6, <1>7, <1>8, <1>9, <1>10 DEF AppNext

-----------------------------------------------------------------------------
(***************************************************************************)
(* What a step does to the jobs: none becomes new again, a service job is  *)
(* over only after it finished, and doneCh and the registered callbacks    *)
(* stay.                                                                   *)
(***************************************************************************)
JobsGoOn ==
  /\ \A j \in ServiceJob : /\ job[j] # "new" => job'[j] # "new"
                           /\ job'[j] \in Over => job[j] \in Over \/ finished[j]
  /\ \A s \in Service : onTerminate[s] # "none" => onTerminate'[s] # "none"
  /\ doneCh => doneCh'

LEMMA SpawnGoesOn ==
  ASSUME TypeOK, NEW j \in Job, Spawn(j)
  PROVE  JobsGoOn
BY Roles DEF Spawn, TypeOK, JobsGoOn, Over

LEMMA StepGoesOn ==
  ASSUME TypeOK, [AppNext]_allVars
  PROVE  JobsGoOn
<1> USE Roles DEF JobsGoOn, Over, TypeOK
<1>1. CASE UNCHANGED vars
  BY <1>1 DEF vars
<1>2. CASE RunNewProcess \/ RunReturn \/ WatcherReady \/ HttpListen \/ HttpReady
  BY <1>1, <1>2 DEF RunNewProcess, RunReturn, WatcherReady, HttpListen, HttpReady
<1>3. CASE RunSpawnMain
  BY <1>1, <1>3, SpawnGoesOn DEF RunSpawnMain, SpawnCritical
<1>4. CASE Main
  <2>1. CASE \/ MainInit \/ MainAwaitHttp \/ MainSetup \/ MainAwaitWatcher
             \/ MainWait
    BY <1>1, <2>1 DEF MainInit, MainAwaitHttp, MainSetup, MainAwaitWatcher,
                      MainWait, MainReturns
  <2>2. CASE \/ MainSpawn(http, "spawnHttp", "awaitHttp")
             \/ MainSpawn(watcher, "spawnWatcher", "awaitWatcher")
    BY <2>2 DEF MainSpawn, SpawnCritical, Spawn
  <2> QED BY <1>4, <2>1, <2>2 DEF Main
<1>5. CASE \E j \in ServiceJob : JobExit(j)
  BY <1>5 DEF JobExit, JobDone
<1>6. CASE \E s \in Service : ServiceRegister(s)
  BY <1>6 DEF ServiceRegister, OnTerminate
<1>7. CASE \E s \in Service : ServiceReturn(s)
  BY <1>1, <1>7 DEF ServiceReturn
<1>8. CASE \E h \in Handler : SpawnHandler(h)
  BY <1>8, SpawnGoesOn DEF SpawnHandler, Job
<1>9. CASE \E h \in Handler : HandlerReturn(h)
  BY <1>9 DEF HandlerReturn, TaskReturn, JobDone
<1>10. CASE Supervisor
  <2>1. CASE TerminateBody \/ ReleaseMainJob \/ CloseDoneCh
    BY <2>1 DEF TerminateBody, ReleaseMainJob, CloseDoneCh
  <2>2. CASE \E j \in Job : FailedJobEnds(j)
    BY <2>2 DEF FailedJobEnds
  <2>3. CASE \E s \in Service : CallbackReturn(s)
    BY <2>3 DEF CallbackReturn
  <2> QED BY <1>10, <2>1, <2>2, <2>3 DEF Supervisor
<1>11. CASE SigTerm \/ SigInt \/ GracefulStart \/ SecondSigInt \/ GracefulStep
  BY <1>1, <1>11 DEF SigTerm, SigInt, GracefulStart, SecondSigInt, GracefulStep,
       Shutdown, ShutdownWait, ShutdownReturn, ShutdownTimeout, Close, CloseReturn,
       CallerStep
<1>12. CASE UNCHANGED allVars
  BY <1>1, <1>12 DEF allVars
<1> QED
  BY <1>2, <1>3, <1>4, <1>5, <1>6, <1>7, <1>8, <1>9, <1>10, <1>11, <1>12
  DEF AppNext

-----------------------------------------------------------------------------
(***************************************************************************)
(* Readiness.                                                              *)
(***************************************************************************)
LEMMA ReadyInit == AppInit => ReadyInv
BY Roles DEF AppInit, ReadyInv, AppTypeOK, WebhookOnly, HttpReadyOnce, ReadyIsTruthful

LEMMA ReadyStep ==
  ASSUME ReadyInv, [AppNext]_allVars
  PROVE  ReadyInv'
<1> USE Roles DEF ReadyInv, AppTypeOK, WebhookOnly, HttpReadyOnce, ReadyIsTruthful
<1>1. CASE UNCHANGED <<pc, serviceVars, httpOk, listenVars>>
           /\ runner' \in {"start", "created", "waiting", "returned", "panicked", "misused"}
           /\ signals' \in {"waiting", "shutdown", "closing", "returned", "lost", "ignored"}
           /\ interrupt' \in {"none", "go", "running", "lost"}
  BY <1>1 DEF serviceVars, listenVars
<1>2. CASE RunNewProcess \/ RunSpawnMain \/ RunReturn
  BY <1>1, <1>2 DEF RunNewProcess, RunSpawnMain, RunReturn
<1>3. ASSUME NEW place \in {"init", "spawnHttp", "awaitHttp", "setup", "spawnWatcher",
                             "awaitWatcher", "wait"},
             MainGoes(place), UNCHANGED serviceVars,
             httpOk' = httpOk \/ (HasWebhook /\ httpOk' = ready[http]),
             place \in {"spawnHttp", "awaitHttp", "setup"} => HasWebhook
      PROVE  ReadyInv'
  BY <1>3 DEF MainGoes, serviceVars, listenVars
<1>4. ASSUME NEW j \in ServiceJob, NEW failed \in BOOLEAN, Finish(j, failed),
             UNCHANGED <<runner, pc, httpOk, listenVars, signals, interrupt>>
      PROVE  ReadyInv'
  BY <1>4 DEF Finish, listenVars
<1>5. CASE Main
  <2>1. CASE \E failed \in BOOLEAN : MainReturns(failed)
    BY <1>4, <2>1 DEF MainReturns
  <2>2. CASE MainInit
    BY <1>3, <2>1, <2>2 DEF MainInit
  <2>3. CASE MainSpawn(http, "spawnHttp", "awaitHttp")
    BY <1>3, <2>3 DEF MainSpawn, MainAt
  <2>4. CASE MainAwaitHttp
    BY <1>3, <2>1, <2>4 DEF MainAwaitHttp, MainAt
  <2>5. CASE MainSetup
    BY <1>3, <2>1, <2>5 DEF MainSetup, MainAt
  <2>6. CASE MainSpawn(watcher, "spawnWatcher", "awaitWatcher")
    BY <1>3, <2>6 DEF MainSpawn, MainAt
  <2>7. CASE MainAwaitWatcher
    <3> DEFINE bothReady == (HasWebhook => httpOk) /\ ready[watcher]
    <3>1. CASE MainReturns(TRUE)
      BY <2>1, <3>1
    <3>2. CASE SetReady(main, bothReady) /\ MainGoes("wait") /\ UNCHANGED httpOk
      <4>1. bothReady \in BOOLEAN /\ (bothReady => \A s \in Service : ready[s])
        BY DEF HasWebhook
      <4> HIDE DEF bothReady
      <4>2. /\ ready' = [ready EXCEPT ![main] = bothReady]
            /\ readyCh' = [readyCh EXCEPT ![main] = TRUE]
            /\ pc' = "wait"
            /\ UNCHANGED <<runner, finished, err, httpOk, listener, awaitsAddr,
                           signals, interrupt>>
        BY <3>2 DEF SetReady, MainGoes, listenVars
      <4>3. AppTypeOK'
        BY <4>1, <4>2
      <4> QED BY <4>1, <4>2, <4>3
    <3> QED BY <2>7, <3>1, <3>2 DEF MainAwaitWatcher
  <2>8. CASE MainWait
    <3> DEFINE someErr == \E s \in Service : err[s]
    <3>1. MainReturns(someErr) /\ someErr \in BOOLEAN
      BY <2>8 DEF MainWait
    <3> HIDE DEF someErr
    <3> QED BY <2>1, <3>1
  <2> QED BY <1>5, <2>2, <2>3, <2>4, <2>5, <2>6, <2>7, <2>8 DEF Main
<1>6. CASE \/ \E j \in ServiceJob : JobExit(j)
           \/ \E s \in Service : ServiceRegister(s)
           \/ \E h \in Handler : SpawnHandler(h) \/ HandlerReturn(h)
           \/ Supervisor /\ UNCHANGED appVars
           \/ UNCHANGED allVars
  <2>1. UNCHANGED appVars
    BY <1>6 DEF JobExit, ServiceRegister, SpawnHandler, HandlerReturn, allVars
  <2> QED BY <1>1, <2>1 DEF appVars, serviceVars, listenVars
<1>7. CASE \E s \in Service : ServiceReturn(s)
  BY <1>4, <1>7 DEF ServiceReturn
<1>8. CASE WatcherReady
  BY <1>8 DEF WatcherReady, SetReady, listenVars
<1>9. CASE HttpListen
  BY <1>9 DEF HttpListen, serviceVars
<1>10. CASE HttpReady
  BY <1>10 DEF HttpReady, SetReady
<1>11. CASE SigTerm \/ SigInt \/ GracefulStart \/ SecondSigInt \/ GracefulStep
  BY <1>1, <1>11 DEF SigTerm, SigInt, GracefulStart, SecondSigInt, GracefulStep,
                     SignalsGo, appVars, serviceVars, listenVars
<1> QED BY <1>2, <1>5, <1>6, <1>7, <1>8, <1>9, <1>10, <1>11 DEF AppNext

-----------------------------------------------------------------------------
(***************************************************************************)
(* Errors.                                                                 *)
(***************************************************************************)
LEMMA ErrorInit == AppInit => ErrorInv
BY Roles DEF AppInit, Init, ErrorInv, FinishedIsRegistered, OverMeansFinished,
             MainVerdict, RunnerInStep, Over

\* A step that finishes no job.
LEMMA NobodyFinishes ==
  ASSUME AppTypeOK, ErrorInv, JobsGoOn, UNCHANGED <<finished, err>>,
         \/ UNCHANGED runner
         \/ runner' \notin {"waiting", "returned"}
         \/ runner' = "waiting" /\ job'[main] # "new"
         \/ runner = "waiting" /\ runner' = "returned" /\ doneCh'
  PROVE  ErrorInv'
<1>1. FinishedIsRegistered' /\ OverMeansFinished' /\ MainVerdict'
  BY DEF ErrorInv, FinishedIsRegistered, OverMeansFinished, MainVerdict, JobsGoOn
<1>2. RunnerInStep'
  BY Roles DEF ErrorInv, RunnerInStep, JobsGoOn
<1> QED BY <1>1, <1>2 DEF ErrorInv

\* A service finishes.  MainVerdict stands, as main has not finished well yet.
LEMMA ServiceFinishes ==
  ASSUME AppTypeOK, ErrorInv, NEW s \in Service, ServiceReturn(s)
  PROVE  ErrorInv'
<1>1. /\ ~finished[s] /\ onTerminate[s] # "none"
      /\ UNCHANGED <<vars, runner>>
      /\ \E failed \in BOOLEAN : Finish(s, failed)
  BY DEF ServiceReturn, Serving
<1>2. /\ finished' = [finished EXCEPT ![s] = TRUE]
      /\ finished'[main] = finished[main] /\ err'[main] = err[main]
      /\ UNCHANGED <<job, onTerminate, doneCh>>
  BY <1>1, Roles DEF Finish, AppTypeOK, vars
<1>3. FinishedIsRegistered' /\ OverMeansFinished' /\ RunnerInStep'
  BY <1>1, <1>2, Roles
  DEF ErrorInv, FinishedIsRegistered, OverMeansFinished, RunnerInStep, AppTypeOK
<1>4. ~(finished[main] /\ ~err[main])
  BY <1>1 DEF ErrorInv, MainVerdict
<1>5. MainVerdict'
  BY <1>2, <1>4 DEF MainVerdict
<1> QED BY <1>3, <1>5 DEF ErrorInv

\* The main job finishes: with an error, or after all services did so well.
LEMMA MainFinishes ==
  ASSUME AppTypeOK, ErrorInv, NEW failed \in BOOLEAN, MainReturns(failed),
         failed \/ \A s \in Service : finished[s] /\ ~err[s]
  PROVE  ErrorInv'
<1>1. /\ finished' = [finished EXCEPT ![main] = TRUE]
      /\ err' = [err EXCEPT ![main] = failed]
      /\ UNCHANGED <<job, onTerminate, doneCh, runner>>
  BY DEF MainReturns, Finish, vars
<1>2. finished'[main] /\ err'[main] = failed
  BY <1>1, Roles DEF AppTypeOK
<1>3. \A s \in Service : finished'[s] = finished[s] /\ err'[s] = err[s]
  BY <1>1, Roles DEF AppTypeOK
<1>4. FinishedIsRegistered' /\ RunnerInStep'
  BY <1>1, <1>3 DEF ErrorInv, FinishedIsRegistered, RunnerInStep
<1>5. OverMeansFinished'
  BY <1>1, <1>2 DEF ErrorInv, OverMeansFinished, AppTypeOK
<1>6. MainVerdict'
  BY <1>2, <1>3 DEF MainVerdict
<1> QED BY <1>4, <1>5, <1>6 DEF ErrorInv

LEMMA ErrorStep ==
  ASSUME TypeOK, AppTypeOK, ErrorInv, [AppNext]_allVars
  PROVE  ErrorInv'
<1>1. JobsGoOn
  BY StepGoesOn
<1>2. CASE UNCHANGED <<finished, err, runner>>
  BY <1>1, <1>2, NobodyFinishes
<1>3. CASE RunNewProcess \/ RunReturn
  BY <1>1, <1>3, NobodyFinishes DEF RunNewProcess, RunReturn, serviceVars, vars
<1>4. CASE RunSpawnMain
  <2>1. UNCHANGED <<finished, err>>
    BY <1>4 DEF RunSpawnMain, serviceVars
  <2>2. runner' = "waiting" => job'[main] # "new"
    BY <1>4, Roles DEF RunSpawnMain, SpawnCritical, Spawn, TypeOK
  <2>3. runner' \in {"waiting", "panicked", "misused"}
    BY <1>4 DEF RunSpawnMain
  <2> QED BY <1>1, <2>1, <2>2, <2>3, NobodyFinishes
<1>5. CASE Main
  <2>1. CASE MainReturns(TRUE)
    BY <2>1, MainFinishes
  <2>2. CASE MainWait
    <3> DEFINE someErr == \E s \in Service : err[s]
    <3>1. /\ MainReturns(someErr) /\ someErr \in BOOLEAN
          /\ someErr \/ \A s \in Service : finished[s] /\ ~err[s]
      BY <2>2 DEF MainWait
    <3> HIDE DEF someErr
    <3> QED BY <3>1, MainFinishes
  <2>3. CASE MainInit \/ MainAwaitHttp \/ MainSetup
    BY <1>2, <2>1, <2>3 DEF MainInit, MainAwaitHttp, MainSetup, MainGoes, serviceVars
  <2>4. CASE MainAwaitWatcher
    BY <1>2, <2>1, <2>4 DEF MainAwaitWatcher, MainGoes, SetReady
  <2>5. CASE \/ MainSpawn(http, "spawnHttp", "awaitHttp")
             \/ MainSpawn(watcher, "spawnWatcher", "awaitWatcher")
    BY <1>2, <2>5 DEF MainSpawn, MainGoes, serviceVars
  <2> QED BY <1>5, <2>2, <2>3, <2>4, <2>5 DEF Main
<1>6. CASE \/ \E j \in ServiceJob : JobExit(j)
           \/ \E s \in Service : ServiceRegister(s)
           \/ \E h \in Handler : SpawnHandler(h) \/ HandlerReturn(h)
           \/ Supervisor /\ UNCHANGED appVars
           \/ UNCHANGED allVars
  BY <1>2, <1>6 DEF JobExit, ServiceRegister, SpawnHandler, HandlerReturn, allVars,
                    appVars
<1>7. CASE \E s \in Service : ServiceReturn(s)
  BY <1>7, ServiceFinishes
<1>8. CASE WatcherReady \/ HttpListen \/ HttpReady
  BY <1>2, <1>8 DEF WatcherReady, HttpListen, HttpReady, SetReady, serviceVars
<1>9. CASE SigTerm \/ SigInt \/ GracefulStart \/ SecondSigInt \/ GracefulStep
  BY <1>2, <1>9 DEF SigTerm, SigInt, GracefulStart, SecondSigInt, GracefulStep,
                    SignalsGo, appVars, serviceVars
<1> QED BY <1>3, <1>4, <1>5, <1>6, <1>7, <1>8, <1>9 DEF AppNext

-----------------------------------------------------------------------------
AppInv == ProcessInv /\ ReadyInv /\ ErrorInv

(***************************************************************************)
(* The inductive invariant of the application.                             *)
(***************************************************************************)
THEOREM AppInvariant == AppSpec => []AppInv
<1>1. AppInit => AppInv
  BY InitInv, ReadyInit, ErrorInit DEF AppInit, AppInv
<1>2. AppInv /\ [AppNext]_allVars => AppInv'
  <2> SUFFICES ASSUME AppInv, [AppNext]_allVars PROVE AppInv'
    OBVIOUS
  <2>1. ProcessInv'
    BY StepOfProcess, NextInv DEF AppInv, ReadyInv, ErrorInv
  <2>2. ReadyInv'
    BY ReadyStep DEF AppInv
  <2>3. ErrorInv'
    BY ErrorStep DEF AppInv, ProcessInv, ReadyInv
  <2> QED BY <2>1, <2>2, <2>3 DEF AppInv
<1> QED BY <1>1, <1>2, PTL DEF AppSpec

(***************************************************************************)
(* The plugins use the supervisor as Process describes it, so what is      *)
(* proved of Process holds of every plugin.                                *)
(***************************************************************************)
THEOREM AppUsesProcess == AppSpec => UsesProcess
<1>1. AppInit => Init
  BY DEF AppInit
<1>2. AppInv /\ [AppNext]_allVars => [Next]_vars
  BY StepOfProcess DEF AppInv, ReadyInv, ErrorInv
<1> QED BY <1>1, <1>2, AppInvariant, PTL DEF AppSpec, UsesProcess, Spec

(***************************************************************************)
(* The variables of the application keep their types; a job that finished  *)
(* or got ready has told those who wait for it.                            *)
(***************************************************************************)
THEOREM AppTypeCorrect == AppSpec => []AppTypeOK
<1>1. AppInv => AppTypeOK
  BY DEF AppInv, ReadyInv
<1> QED BY <1>1, AppInvariant, PTL

(***************************************************************************)
(* A plugin that says it is ready has had all its services ready.          *)
(***************************************************************************)
THEOREM ReadyCorrect == AppSpec => []ReadyIsTruthful
<1>1. AppInv => ReadyIsTruthful
  BY DEF AppInv, ReadyInv
<1> QED BY <1>1, AppInvariant, PTL

(***************************************************************************)
(* App.Run returns without an error only when no service had one.          *)
(***************************************************************************)
THEOREM ErrorsCorrect == AppSpec => []ServiceErrorReported
<1>1. AppInv => ServiceErrorReported
  <2> SUFFICES ASSUME AppInv, runner = "returned", ~err[main]
               PROVE  \A s \in Service : ~err[s]
    BY DEF ServiceErrorReported
  <2>1. DoneMeansDrained
    BY ZeroMeansDrained
    DEF AppInv, ProcessInv, DoneMeansDrained, DoneMeansZero, OnceFlag, NoLostCallback
  <2>2. job[main] # "running" /\ job[main] # "new" /\ job[main] \in JobStatus
    BY <2>1, Roles
    DEF AppInv, ErrorInv, RunnerInStep, DoneMeansDrained, RunningJobs, ProcessInv, TypeOK
  <2>3. finished[main]
    BY <2>2, Roles DEF AppInv, ErrorInv, OverMeansFinished, Over, JobStatus
  <2> QED BY <2>3 DEF AppInv, ErrorInv, MainVerdict
<1> QED BY <1>1, AppInvariant, PTL

(***************************************************************************)
(* When App.Run returns nothing is left running.                           *)
(***************************************************************************)
THEOREM RunReturnsLastCorrect == AppSpec => []RunReturnsLast
<1>1. AppInv => RunReturnsLast
  <2> SUFFICES ASSUME AppInv, runner = "returned"
               PROVE  /\ \A j \in Job : job[j] # "running"
                      /\ \A s \in Service : onTerminate[s] \notin {"listed", "running"}
    BY DEF RunReturnsLast
  <2>1. DoneMeansDrained /\ doneCh
    BY ZeroMeansDrained
    DEF AppInv, ProcessInv, DoneMeansDrained, DoneMeansZero, OnceFlag, NoLostCallback,
        ErrorInv, RunnerInStep
  <2> QED
    BY <2>1 DEF DoneMeansDrained, RunningJobs, RunningCallbacks, ListedCallbacks
<1> QED BY <1>1, AppInvariant, PTL
=============================================================================
