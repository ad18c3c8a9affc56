--------------------------------- MODULE App ---------------------------------
(***************************************************************************)
(* One plugin process from main() to exit: the signal goroutine of         *)
(* lib/signals.go, App.Run and the main job App.run of the plugins, the    *)
(* readiness and the error of each ServiceJob (lib/process.go), the        *)
(* watcher job and, in a plugin with webhooks, the http job, all of them   *)
(* running on the job supervisor of module Process.                        *)
(*                                                                         *)
(* Every action is an action of Process or leaves its variables unchanged, *)
(* and restricts it to what the code of the plugins really asks for.       *)
(***************************************************************************)
EXTENDS Process

CONSTANTS
  main,                  \* App.run
  watcher,               \* the watcher job
  http,                  \* the webhook server, if it is one of Service
  Handler,               \* event handlers the watcher spawns
  loop,                  \* the goroutine of ServeSignals
  graceful               \* the goroutine of the first SIGINT

ASSUME AppAssumption ==
  /\ watcher \in Service
  /\ Service \subseteq {watcher, http}
  /\ main \notin Handler
  /\ Task = Handler \union {main}
  /\ Caller = {loop, graceful}
  /\ loop # graceful
  /\ watcher # http

HasWebhook == http \in Service
ServiceJob == Service \union {main}

VARIABLES
  runner,                \* App.Run, the main goroutine
  pc,                    \* App.run, the main job
  ready,                 \* serviceJob.ready
  readyCh,               \* is serviceJob.readyCh closed?
  finished,              \* is serviceJob.doneCh closed?
  err,                   \* serviceJob.err # nil
  httpOk,                \* the local of App.run
  listener,              \* the listener of the http server
  awaitsAddr,            \* does a goroutine wait for its address?
  signals,               \* the ServeSignals loop
  interrupt              \* gracefulShutdown of the first SIGINT

appVars == <<runner, pc, ready, readyCh, finished, err, httpOk, listener,
             awaitsAddr, signals, interrupt>>
listenVars == <<listener, awaitsAddr>>
serviceVars == <<ready, readyCh, finished, err>>
allVars == <<vars, appVars>>

AppTypeOK ==
  /\ runner \in {"start", "created", "waiting", "returned", "panicked", "misused"}
  /\ pc \in {"init", "spawnHttp", "awaitHttp", "setup", "spawnWatcher",
             "awaitWatcher", "wait"}
  /\ ready \in [ServiceJob -> BOOLEAN]
  /\ readyCh \in [ServiceJob -> BOOLEAN]
  /\ finished \in [ServiceJob -> BOOLEAN]
  /\ err \in [ServiceJob -> BOOLEAN]
  /\ httpOk \in BOOLEAN
  /\ listener \in {"none", "open", "failed"}
  /\ awaitsAddr \in BOOLEAN
  /\ signals \in {"waiting", "shutdown", "closing", "returned", "lost", "ignored"}
  /\ interrupt \in {"none", "go", "running", "lost"}
  /\ \A j \in ServiceJob : finished[j] \/ ready[j] => readyCh[j]

AppInit ==
  /\ Init
  /\ runner = "start"
  /\ pc = "init"
  /\ ready = [j \in ServiceJob |-> FALSE]
  /\ readyCh = [j \in ServiceJob |-> FALSE]
  /\ finished = [j \in ServiceJob |-> FALSE]
  /\ err = [j \in ServiceJob |-> FALSE]
  /\ httpOk = FALSE
  /\ listener = "none"
  /\ awaitsAddr = TRUE
  /\ signals = "waiting"
  /\ interrupt = "none"

-----------------------------------------------------------------------------
(***************************************************************************)
(* serviceJob: finish closes readyCh if nobody did and doneCh, and keeps   *)
(* the error; SetReady stores the flag and closes readyCh once.            *)
(***************************************************************************)
\* A slip: a job that ends without having been ready leaves readyCh open.
FinishLeavesReadyCh(j, failed) ==
  /\ finished' = [finished EXCEPT ![j] = TRUE]
  /\ err' = [err EXCEPT ![j] = failed]
  /\ UNCHANGED <<ready, readyCh>>

Finish(j, failed) ==
  /\ readyCh' = [readyCh EXCEPT ![j] = TRUE]
  /\ finished' = [finished EXCEPT ![j] = TRUE]
  /\ err' = [err EXCEPT ![j] = failed]
  /\ UNCHANGED ready

SetReady(j, ok) ==
  /\ ready' = [ready EXCEPT ![j] = ok]
  /\ readyCh' = [readyCh EXCEPT ![j] = TRUE]
  /\ UNCHANGED <<finished, err>>

\* The function of a service job has returned; its goroutine goes on.
\* A slip: the goroutine of the job is not counted by the WaitGroup.
JobExitUncounted(j) ==
  /\ finished[j]
  /\ job[j] = "running"
  /\ job' = [job EXCEPT ![j] = IF err[j] /\ critical[j] THEN "failing" ELSE "ended"]
  /\ UNCHANGED <<critical, onTerminate, jobs, once, terminated, doneCh,
                 cancelled, caller, appVars>>

JobExit(j) ==
  /\ finished[j]
  /\ JobDone(j, err[j])
  /\ UNCHANGED appVars

\* A slip: SpawnJob instead of SpawnCriticalJob.
SpawnPlain(j) == Spawn(j) /\ ~critical'[j]

SpawnCritical(j) == Spawn(j) /\ critical'[j]

-----------------------------------------------------------------------------
(***************************************************************************)
(* App.Run.  Until it has run NewProcess the embedded *lib.Process is nil. *)
(***************************************************************************)
NilProcess == runner = "start"

RunNewProcess ==
  /\ runner = "start"
  /\ runner' = "created"
  /\ UNCHANGED <<vars, pc, serviceVars, httpOk, listenVars, signals, interrupt>>

\* SpawnCriticalJob panics on a finished process.  Between the last
\* jobs.Done() and the close of doneCh it adds to a WaitGroup whose Wait has
\* been released, which the sync package forbids.
RunSpawnMain ==
  /\ runner = "created"
  /\ \/ /\ SpawnCritical(main)
        /\ runner' = "waiting"
     \/ /\ doneCh
        /\ runner' = "panicked"
        /\ UNCHANGED vars
     \/ /\ jobs = 0 /\ ~doneCh
        /\ runner' = "misused"
        /\ UNCHANGED vars
  /\ UNCHANGED <<pc, serviceVars, httpOk, listenVars, signals, interrupt>>

\* A slip: waiting for the main job instead of the process.
RunReturnEarly ==
  /\ runner = "waiting"
  /\ finished[main]
  /\ runner' = "returned"
  /\ UNCHANGED <<vars, pc, serviceVars, httpOk, listenVars, signals, interrupt>>

\* <-a.Process.Done(); return a.Err()
RunReturn ==
  /\ runner = "waiting"
  /\ doneCh
  /\ runner' = "returned"
  /\ UNCHANGED <<vars, pc, serviceVars, httpOk, listenVars, signals, interrupt>>

-----------------------------------------------------------------------------
(***************************************************************************)
(* App.run: checks, then the http job and the set-up of the remote side in *)
(* a plugin with webhooks, then the watcher job, then wait for their end.  *)
(***************************************************************************)
MainAt(place) == job[main] = "running" /\ ~finished[main] /\ pc = place

MainGoes(place) ==
  /\ pc' = place
  /\ UNCHANGED <<runner, listenVars, signals, interrupt>>

MainReturns(failed) ==
  /\ Finish(main, failed)
  /\ UNCHANGED <<vars, runner, pc, httpOk, listenVars, signals, interrupt>>

MainInit ==
  /\ MainAt("init")
  /\ \/ /\ MainGoes(IF HasWebhook THEN "spawnHttp" ELSE "spawnWatcher")
        /\ UNCHANGED <<vars, serviceVars, httpOk>>
     \/ MainReturns(TRUE)

MainSpawn(s, place, next) ==
  /\ MainAt(place)
  /\ SpawnCritical(s)
  /\ MainGoes(next)
  /\ UNCHANGED <<serviceVars, httpOk>>

\* WaitReady selects between readyCh and the context; with the flag of a job
\* that ended without being ready the plugins go on.
MainAwaitHttp ==
  /\ MainAt("awaitHttp")
  /\ \/ /\ readyCh[http]
        /\ httpOk' = ready[http]
        /\ MainGoes("setup")
        /\ UNCHANGED <<vars, serviceVars>>
     \/ cancelled /\ MainReturns(TRUE)

MainSetup ==
  /\ MainAt("setup")
  /\ \/ /\ MainGoes("spawnWatcher")
        /\ UNCHANGED <<vars, serviceVars, httpOk>>
     \/ MainReturns(TRUE)

\* Two slips: the result of the http job is forgotten, and only a watcher
\* that gets ready ends the wait.
MainAwaitWatcherOnly ==
  /\ MainAt("awaitWatcher")
  /\ \/ /\ readyCh[watcher]
        /\ SetReady(main, ready[watcher])
        /\ MainGoes("wait")
        /\ UNCHANGED <<vars, httpOk>>
     \/ cancelled /\ MainReturns(TRUE)
MainAwaitReadyOnly ==
  /\ MainAt("awaitWatcher")
  /\ ready[watcher]
  /\ SetReady(main, HasWebhook => httpOk)
  /\ MainGoes("wait")
  /\ UNCHANGED <<vars, httpOk>>

MainAwaitWatcher ==
  /\ MainAt("awaitWatcher")
  /\ \/ /\ readyCh[watcher]
        /\ SetReady(main, (HasWebhook => httpOk) /\ ready[watcher])
        /\ MainGoes("wait")
        /\ UNCHANGED <<vars, httpOk>>
     \/ cancelled /\ MainReturns(TRUE)

\* A slip: only the error of the watcher is returned.
MainWaitWatcherErr ==
  /\ MainAt("wait")
  /\ \A s \in Service : finished[s]
  /\ MainReturns(err[watcher])

MainWait ==
  /\ MainAt("wait")
  /\ \A s \in Service : finished[s]
  /\ MainReturns(\E s \in Service : err[s])

Main ==
  \/ MainInit
  \/ MainSpawn(http, "spawnHttp", "awaitHttp")
  \/ MainAwaitHttp
  \/ MainSetup
  \/ MainSpawn(watcher, "spawnWatcher", "awaitWatcher")
  \/ MainAwaitWatcher
  \/ MainWait

-----------------------------------------------------------------------------
(***************************************************************************)
(* The services: register the callback, become ready, serve, return.       *)
(***************************************************************************)
Serving(s) == job[s] = "running" /\ onTerminate[s] # "none" /\ ~finished[s]

ServiceRegister(s) == OnTerminate(s) /\ UNCHANGED appVars

\* The watcher reconnects and calls SetReady(true) again.
WatcherReady ==
  /\ Serving(watcher)
  /\ ~ready[watcher]
  /\ SetReady(watcher, TRUE)
  /\ UNCHANGED <<vars, runner, pc, httpOk, listenVars, signals, interrupt>>

HttpListen ==
  /\ HasWebhook /\ Serving(http)
  /\ listener = "none"
  /\ listener' \in {"open", "failed"}
  /\ UNCHANGED <<vars, runner, pc, serviceVars, httpOk, awaitsAddr, signals, interrupt>>

\* The goroutine that waits for the address may be late: the server, and the
\* process, can be done by then.
HttpReady ==
  /\ HasWebhook
  /\ listener # "none" /\ awaitsAddr
  /\ SetReady(http, listener = "open")
  /\ awaitsAddr' = FALSE
  /\ UNCHANGED <<vars, runner, pc, httpOk, listener, signals, interrupt>>

\* Told to stop a service returns nil, as the watcher also does when the auth
\* server cancels its stream; a service may fail at any time, and a server
\* without a listener always does.
Listening(s) == s = http => listener = "open"
MustReturn(s) == ToldToStop(s) \/ (s = http /\ listener = "failed")

ServiceReturn(s) ==
  /\ Serving(s)
  /\ s = http => listener # "none"
  /\ \/ (ToldToStop(s) \/ s = watcher) /\ Listening(s) /\ Finish(s, FALSE)
     \/ Finish(s, TRUE)
  /\ UNCHANGED <<vars, runner, pc, httpOk, listenVars, signals, interrupt>>

\* process.Spawn in the event loop of the watcher.
SpawnHandler(h) ==
  /\ Serving(watcher) /\ ready[watcher]
  /\ Spawn(h) /\ ~critical'[h]
  /\ UNCHANGED appVars

HandlerReturn(h) == TaskReturn(h) /\ UNCHANGED appVars

Supervisor ==
  \/ TerminateBody
  \/ ReleaseMainJob
  \/ CloseDoneCh
  \/ \E j \in Job : FailedJobEnds(j)
  \/ \E s \in Service : CallbackReturn(s)

-----------------------------------------------------------------------------
(***************************************************************************)
(* ServeSignals.  Methods of a nil process return at once: the signal is   *)
(* consumed and nothing happens.  SIGTERM leads to "shutdown" or "lost", a *)
(* second SIGINT to "closing" or "ignored".                                *)
(***************************************************************************)
SignalsGo(to) ==
  /\ signals' = to
  /\ UNCHANGED <<runner, pc, serviceVars, httpOk, listenVars, interrupt>>

SigTerm ==
  /\ signals = "waiting"
  /\ \/ NilProcess /\ SignalsGo("lost") /\ UNCHANGED vars
     \/ ~NilProcess /\ Shutdown(loop) /\ SignalsGo("shutdown")

alreadyInterrupted == interrupt # "none"

SigInt ==
  /\ signals = "waiting"
  /\ ~alreadyInterrupted
  /\ interrupt' = "go"
  /\ UNCHANGED <<vars, runner, pc, serviceVars, httpOk, listenVars, signals>>

\* go gracefulShutdown()
GracefulStart ==
  /\ interrupt = "go"
  /\ \/ NilProcess /\ interrupt' = "lost" /\ UNCHANGED vars
     \/ ~NilProcess /\ interrupt' = "running" /\ Shutdown(graceful)
  /\ UNCHANGED <<runner, pc, serviceVars, httpOk, listenVars, signals>>

SecondSigInt ==
  /\ signals = "waiting"
  /\ alreadyInterrupted
  /\ \/ NilProcess /\ SignalsGo("ignored") /\ UNCHANGED vars
     \/ ~NilProcess /\ Close(loop) /\ SignalsGo("closing")

\* gracefulShutdown and the return of the loop.
GracefulStep ==
  /\ \E c \in Caller :
       \/ ShutdownWait(c) \/ ShutdownReturn(c) \/ ShutdownTimeout(c)
       \/ caller[c] = "timedout" /\ Close(c)
       \/ CloseReturn(c)
  /\ IF caller'[loop] = "returned" THEN SignalsGo("returned")
                                   ELSE UNCHANGED appVars
-----------------------------------------------------------------------------
AppNext ==
  \/ RunNewProcess \/ RunSpawnMain \/ RunReturn
  \/ Main
  \/ \E j \in ServiceJob : JobExit(j)
  \/ \E s \in Service : ServiceRegister(s) \/ ServiceReturn(s)
  \/ WatcherReady \/ HttpListen \/ HttpReady
  \/ \E h \in Handler : SpawnHandler(h) \/ HandlerReturn(h)
  \/ Supervisor /\ UNCHANGED appVars
  \/ SigTerm \/ SigInt \/ GracefulStart \/ SecondSigInt \/ GracefulStep

(***************************************************************************)
(* Goroutines run, remote calls of App.run end (they have timeouts), a     *)
(* service that is told to stop returns, and the http server listens or    *)
(* fails to.                                                               *)
(* No signal, event or failure is owed to us, nor does the watcher ever    *)
(* have to get through to the auth server.                                 *)
(***************************************************************************)
AppFairness ==
  /\ WF_allVars(RunNewProcess) /\ WF_allVars(RunSpawnMain) /\ WF_allVars(RunReturn)
  /\ WF_allVars(Main)
  /\ \A j \in ServiceJob : WF_allVars(JobExit(j))
  /\ \A s \in Service :
       /\ WF_allVars(ServiceRegister(s))
       /\ WF_allVars(MustReturn(s) /\ ServiceReturn(s))
  /\ WF_allVars(HttpListen) /\ WF_allVars(HttpReady)
  /\ \A h \in Handler : WF_allVars(HandlerReturn(h))
  /\ WF_allVars(Supervisor /\ UNCHANGED appVars)
  /\ WF_allVars(GracefulStart) /\ WF_allVars(GracefulStep)

AppSpec == AppInit /\ [][AppNext]_allVars /\ AppFairness

-----------------------------------------------------------------------------
(***************************************************************************)
(* The composition uses the supervisor as Process describes it.            *)
(***************************************************************************)
UsesProcess == Spec

(***************************************************************************)
(* "WaitReady waits for http and watcher service to start up." (app.go of  *)
(* the plugins): the app is ready only after every service was.            *)
(***************************************************************************)
ReadyIsTruthful == ready[main] => \A s \in Service : ready[s]

(***************************************************************************)
(* main.go prints "Successfully shut down" only when Run returned nil: the *)
(* error of a service is never swallowed, whatever the order in which the  *)
(* services, the main job and the signals end the process.                 *)
(***************************************************************************)
ServiceErrorReported ==
  runner = "returned" /\ ~err[main] => \A s \in Service : ~err[s]

(***************************************************************************)
(* When App.Run returns, and with it main(), no service and no handler is  *)
(* cut short by the exit of the program.                                   *)
(***************************************************************************)
RunReturnsLast ==
  runner = "returned" => /\ \A j \in Job : job[j] # "running"
                         /\ \A s \in Service : onTerminate[s] \notin {"listed", "running"}

Exited == runner \in {"returned", "panicked", "misused"}

(***************************************************************************)
(* A Shutdown that reached the process ends the program, whatever part of  *)
(* the start-up it meets and whether or not a second SIGINT follows.  (The *)
(* Close of a second SIGINT does not when the first was lost on the nil    *)
(* process: nobody releases the main job then.)                            *)
(***************************************************************************)
SignalStops == (\E c \in Caller : caller[c] = "terminating") ~> Exited

(***************************************************************************)
(* A plugin does not live on with half of its services: the failure of one *)
(* ends the program, also when it comes during the start-up.               *)
(***************************************************************************)
ServiceFailureStops == (\E j \in ServiceJob : err[j]) ~> Exited

(***************************************************************************)
(* SIGTERM is for "graceful shutdown" (lib/signals.go): the program ends   *)
(* after the loop has received it, here with no SIGINT before it.          *)
(***************************************************************************)
SigTermStops == signals \in {"shutdown", "lost"} /\ interrupt = "none" ~> Exited

(***************************************************************************)
(* The assertion of SpawnCriticalJob, "spawning a job on a finished        *)
(* process", never fires.                                                  *)
(***************************************************************************)
NoSpawnOnFinished == runner # "panicked"
=============================================================================
