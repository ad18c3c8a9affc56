------------------------------ MODULE Lifecycle ------------------------------
(***************************************************************************)
(* What lib.Process promises to the application built on it, without the   *)
(* WaitGroup, the sync.Once and the channels it is built from: work is     *)
(* started and finished while the process is up or terminating, terminating*)
(* is a one-way step that may itself start the terminate callbacks, and    *)
(* the process goes down only when nothing is left running.                *)
(***************************************************************************)
CONSTANT Work            \* jobs and terminate callbacks a process can run

VARIABLES
  phase,                 \* "up", "terminating" or "down"
  live                   \* the work that is running

lifecycleVars == <<phase, live>>

LifecycleInit ==
  /\ phase = "up"
  /\ live = {}

Start(w) ==
  /\ phase # "down"
  /\ w \notin live
  /\ live' = live \union {w}
  /\ UNCHANGED phase

Finish(w) ==
  /\ w \in live
  /\ live' = live \ {w}
  /\ UNCHANGED phase

\* Termination starts the callbacks W registered so far.
BeginTermination ==
  /\ phase = "up"
  /\ phase' = "terminating"
  /\ \E W \in SUBSET Work : live' = live \union W

GoDown ==
  /\ phase = "terminating"
  /\ live = {}
  /\ phase' = "down"
  /\ UNCHANGED live

LifecycleNext ==
  \/ \E w \in Work : Start(w) \/ Finish(w)
  \/ BeginTermination
  \/ GoDown

LifecycleSpec == LifecycleInit /\ [][LifecycleNext]_lifecycleVars

(***************************************************************************)
(* Once termination has begun the process eventually goes down.            *)
(***************************************************************************)
EventuallyDown == phase = "terminating" ~> phase = "down"
=============================================================================
