------------------------------- MODULE Services -------------------------------
(***************************************************************************)
(* The two service jobs of the plugins with webhooks under one process.    *)
(* Both are critical: the failure of one terminates the process, and so    *)
(* stops the other.  The supervisor itself is in Process; here it is the   *)
(* two flags it shows to its jobs.                                         *)
(***************************************************************************)
EXTENDS Naturals

CONSTANTS MaxEvents, MaxFaults, Connection

ASSUME ServicesAssumption == MaxEvents \in Nat \ {0} /\ MaxFaults \in Nat

VARIABLES
  terminated, closed,    \* the process
  watcher, stream, happened, spawned, faults,
  http, connection

W == INSTANCE WatcherJob
H == INSTANCE HttpServer

processVars == <<terminated, closed>>
watcherVars == <<watcher, stream, happened, spawned, faults>>
httpVars == <<http, connection>>
vars == <<processVars, watcherVars, httpVars>>

Init ==
  /\ terminated = FALSE /\ closed = FALSE
  /\ W!Init /\ H!Init

\* A signal.
Terminate ==
  /\ ~terminated
  /\ terminated' = TRUE
  /\ UNCHANGED <<closed, watcherVars, httpVars>>

\* The end of a graceful shutdown that takes too long, or a second signal.
Close ==
  /\ terminated /\ ~closed
  /\ closed' = TRUE
  /\ UNCHANGED <<terminated, watcherVars, httpVars>>

CriticalJobFails ==
  /\ watcher.pc = "failed" \/ http.pc = "failed"
  /\ ~terminated
  /\ terminated' = TRUE
  /\ UNCHANGED <<closed, watcherVars, httpVars>>

Next ==
  \/ Terminate \/ Close \/ CriticalJobFails
  \/ W!Next /\ UNCHANGED <<processVars, httpVars>>
  \/ H!Next /\ UNCHANGED <<processVars, watcherVars>>

Spec == Init /\ [][Next]_vars

\* Goroutines go on, calls are answered or time out; nobody has to send a
\* signal, and handlers of requests may take for ever.
FairSpec == Spec /\ WF_vars(CriticalJobFails) /\ W!Fairness /\ H!Fairness

-----------------------------------------------------------------------------
(***************************************************************************)
(* The variables keep their types.                                         *)
(***************************************************************************)
TypeOK == W!TypeOK /\ H!TypeOK

(***************************************************************************)
(* When the process is terminated, or one of the two jobs fails, both jobs *)
(* end, their callbacks return and no connection stays open, at whatever   *)
(* step the termination meets them.                                        *)
(***************************************************************************)
ServicesStop ==
  terminated \/ watcher.pc = "failed" \/ http.pc = "failed" ~>
    /\ watcher.pc \in {"failed", "done"} /\ http.pc \in {"failed", "done"}
    /\ watcher.callback = "called" /\ http.callback = "returned"
    /\ H!Open = {}

SpawnedInOrder == W!SpawnedInOrder
NothingMissed == W!NothingMissed
StuckOnlyIfGivenUp == W!StuckOnlyIfGivenUp
ListensAgain == W!ListensAgain
ShutdownIsGraceful == H!ShutdownIsGraceful
=============================================================================
