------------------------------ MODULE WatcherJob ------------------------------
(***************************************************************************)
(* The watcher job of the plugins with webhooks: it connects to the auth   *)
(* server, spawns a handler for every event, and connects again when the   *)
(* connection is lost, until it is told to stop.                           *)
(*                                                                         *)
(* Every connection has a goroutine of its own (run), which receives from  *)
(* the stream of the server and hands one event at a time to the job, over *)
(* a channel without a buffer.  The job gives a connection up when its     *)
(* first message does not come in time, and then reads no more from it.    *)
(*                                                                         *)
(* The process is seen through terminated and closed.  The auth server is  *)
(* external.                                                               *)
(***************************************************************************)
EXTENDS Naturals, Sequences, SequencesExt

CONSTANTS
  MaxEvents,             \* bound on the events of the auth server
  MaxFaults              \* bound on failed and lost connections and time-outs

VARIABLES
  terminated, closed,    \* the process: Terminate, Close were called
  watcher,               \* the job
  stream,                \* [Conn -> the goroutine of the connection]
  happened,              \* auth server: number of events so far
  spawned,               \* events for which a handler was spawned
  faults                 \* number of faults so far

watcherVars == <<watcher, stream, happened, spawned, faults>>

Conn == 1..(MaxFaults + 1)
EventID == 1..MaxEvents
Error == {"none", "connection", "eof", "canceled", "other"}

\* conn: the connection in use; cancel: was the context of the job cancelled?
WatcherState ==
  [pc : {"start", "connect", "waiting", "loop", "failed", "done"},
   conn : {0} \union Conn, cancel : BOOLEAN, callback : {"none", "listed", "called"}]

\* since: events that had happened when the server began to send;
\* gaveUp: observer, the job left it before its first message.
StreamState ==
  [run : {"none", "dialing", "receiving", "sending", "ended"},
   init : BOOLEAN, event : {0} \union EventID, err : Error, close : BOOLEAN,
   queue : Seq({0} \union EventID), since : {0} \union EventID, gaveUp : BOOLEAN]

NoStream ==
  [run |-> "none", init |-> FALSE, event |-> 0, err |-> "none", close |-> FALSE,
   queue |-> <<>>, since |-> 0, gaveUp |-> FALSE]

TypeOK ==
  /\ terminated \in BOOLEAN /\ closed \in BOOLEAN
  /\ watcher \in WatcherState
  /\ stream \in [Conn -> StreamState]
  /\ happened \in {0} \union EventID
  /\ spawned \in Seq(EventID)
  /\ faults \in 0..MaxFaults

Init ==
  /\ watcher = [pc |-> "start", conn |-> 0, cancel |-> FALSE, callback |-> "none"]
  /\ stream = [c \in Conn |-> NoStream]
  /\ happened = 0
  /\ spawned = <<>>
  /\ faults = 0

At(pc) == watcher.pc = pc
CtxDone == watcher.cancel \/ closed
StreamDone(c) == stream[c].close \/ CtxDone
Fault == faults < MaxFaults /\ faults' = faults + 1

-----------------------------------------------------------------------------
(***************************************************************************)
(* The job and its callback: OnTerminate lists the callback, or runs it at *)
(* once when the process was terminated before.                            *)
(***************************************************************************)
\* A slip: a callback that comes late is only listed.
RegisterOnly ==
  /\ At("start")
  /\ watcher' = [watcher EXCEPT !.pc = "connect",
                   !.callback = IF terminated THEN "none" ELSE "listed"]
  /\ UNCHANGED <<stream, happened, spawned, faults>>

Register ==
  /\ At("start")
  /\ watcher' = [watcher EXCEPT !.pc = "connect", !.callback = "listed"]
  /\ UNCHANGED <<stream, happened, spawned, faults>>

Cancel ==
  /\ terminated
  /\ watcher.callback = "listed"
  /\ watcher' = [watcher EXCEPT !.callback = "called", !.cancel = TRUE]
  /\ UNCHANGED <<stream, happened, spawned, faults>>

\* newWatcher: a connection is a goroutine and a context.
WatchRequests ==
  /\ At("connect")
  /\ watcher' = [watcher EXCEPT !.pc = "waiting", !.conn = @ + 1]
  /\ stream' = [stream EXCEPT ![watcher.conn + 1].run = "dialing"]
  /\ UNCHANGED <<happened, spawned, faults>>

\* Two slips: the end of the stream is taken for a cancellation; a cancelled
\* watcher connects again.
AfterErrorEOF(err) ==
  CASE err = "connection" -> "connect"
    [] err \in {"eof", "canceled"} -> "done"
    [] OTHER -> "failed"

AfterErrorRetry(err) ==
  IF err = "other" THEN "failed" ELSE "connect"

\* What the job does with the error of its event loop.
AfterError(err) ==
  CASE err \in {"connection", "eof"} -> "connect"
    [] err = "canceled" -> "done"
    [] OTHER -> "failed"

\* The event loop returns and closes its watcher.
EndLoop(err, gaveUp) ==
  /\ watcher' = [watcher EXCEPT !.pc = AfterError(err)]
  /\ stream' = [stream EXCEPT ![watcher.conn].close = TRUE,
                              ![watcher.conn].gaveUp = gaveUp]
  /\ UNCHANGED <<happened, spawned>>

\* A slip: the first event is taken for the first message.
WaitInitByEvent ==
  LET s == stream[watcher.conn] IN
  /\ At("waiting")
  /\ \/ /\ s.run = "sending"
        /\ watcher' = [watcher EXCEPT !.pc = "loop"]
        /\ stream' = [stream EXCEPT ![watcher.conn].run = "receiving",
                                    ![watcher.conn].event = 0]
        /\ UNCHANGED <<happened, spawned, faults>>
     \/ s.run = "ended" /\ EndLoop(s.err, FALSE) /\ UNCHANGED faults

\* Of the ways that are open the runtime picks any.
WaitInit ==
  LET s == stream[watcher.conn] IN
  /\ At("waiting")
  /\ \/ /\ s.init
        /\ watcher' = [watcher EXCEPT !.pc = "loop"]
        /\ UNCHANGED <<stream, happened, spawned, faults>>
     \/ Fault /\ EndLoop("connection", TRUE)
     \/ s.run = "ended" /\ EndLoop(s.err, FALSE) /\ UNCHANGED faults
     \/ CtxDone /\ EndLoop("canceled", TRUE) /\ UNCHANGED faults

\* Two slips: the loop also ends with its context; the handlers share the
\* variable of the event.
EventLoopUntilDone ==
  LET c == watcher.conn
      s == stream[c]
  IN
  /\ At("loop")
  /\ UNCHANGED faults
  /\ \/ /\ s.run = "sending"
        /\ stream' = [stream EXCEPT ![c].run = "receiving", ![c].event = 0]
        /\ spawned' = Append(spawned, s.event)
        /\ UNCHANGED <<watcher, happened>>
     \/ s.run = "ended" /\ EndLoop(s.err, FALSE)
     \/ CtxDone /\ EndLoop("canceled", FALSE)

EventLoopLatest ==
  LET c == watcher.conn
      s == stream[c]
  IN
  /\ At("loop")
  /\ UNCHANGED faults
  /\ \/ /\ s.run = "sending"
        /\ stream' = [stream EXCEPT ![c].run = "receiving", ![c].event = 0]
        /\ spawned' = Append(spawned, happened)
        /\ UNCHANGED <<watcher, happened>>
     \/ s.run = "ended" /\ EndLoop(s.err, FALSE)

eventLoop ==
  LET c == watcher.conn
      s == stream[c]
  IN
  /\ At("loop")
  /\ UNCHANGED faults
  /\ \/ /\ s.run = "sending"
        /\ stream' = [stream EXCEPT ![c].run = "receiving", ![c].event = 0]
        /\ spawned' = Append(spawned, s.event)
        /\ UNCHANGED <<watcher, happened>>
     \/ s.run = "ended" /\ EndLoop(s.err, FALSE)

JobStep == Register \/ WatchRequests \/ WaitInit \/ eventLoop

-----------------------------------------------------------------------------
(***************************************************************************)
(* The goroutine of a connection.                                          *)
(***************************************************************************)
End(c, err) ==
  stream' = [stream EXCEPT ![c] =
    [NoStream EXCEPT !.run = "ended", !.err = err, !.close = stream[c].close]]

\* WatchEvents waits for the server to be ready.
WatchEvents(c) ==
  /\ stream[c].run = "dialing"
  /\ UNCHANGED <<watcher, happened, spawned>>
  /\ \/ /\ stream' = [stream EXCEPT ![c].run = "receiving", ![c].queue = <<0>>,
                                    ![c].since = happened]
        /\ UNCHANGED faults
     \/ StreamDone(c) /\ End(c, "canceled") /\ UNCHANGED faults
     \/ Fault /\ \E err \in {"connection", "other"} : End(c, err)

\* The first message is 0, the others are events.
Recv(c) ==
  LET q == stream[c].queue IN
  /\ stream[c].run = "receiving"
  /\ UNCHANGED <<watcher, happened, spawned>>
  /\ \/ /\ q # <<>> /\ Head(q) = 0
        /\ stream' = [stream EXCEPT ![c].init = TRUE, ![c].queue = Tail(q)]
        /\ UNCHANGED faults
     \/ /\ q # <<>> /\ Head(q) # 0
        /\ stream' = [stream EXCEPT ![c].run = "sending", ![c].event = Head(q),
                                    ![c].queue = Tail(q)]
        /\ UNCHANGED faults
     \/ StreamDone(c) /\ End(c, "canceled") /\ UNCHANGED faults
     \/ Fault /\ \E err \in {"connection", "eof", "canceled", "other"} : End(c, err)

Run(c) == WatchEvents(c) \/ Recv(c)

\* An event is sent to whoever is connected, and not kept for the others.
Happen ==
  /\ happened < MaxEvents
  /\ happened' = happened + 1
  /\ stream' = [c \in Conn |->
       IF stream[c].run \in {"receiving", "sending"} /\ ~stream[c].close
         THEN [stream[c] EXCEPT !.queue = Append(@, happened + 1)] ELSE stream[c]]
  /\ UNCHANGED <<watcher, spawned, faults>>

Next == JobStep \/ Cancel \/ (\E c \in Conn : Run(c)) \/ Happen

-----------------------------------------------------------------------------
(***************************************************************************)
(* Handlers are spawned in the order of the events, none twice, also       *)
(* across connections.                                                     *)
(***************************************************************************)
SpawnedInOrder ==
  \A i, j \in DOMAIN spawned : i < j => spawned[i] < spawned[j]

(***************************************************************************)
(* While the connection in use lasts nothing is missed: every event since  *)
(* the server began to send has a handler or is on its way.                *)
(***************************************************************************)
NothingMissed ==
  LET s == stream[watcher.conn] IN
  At("loop") /\ s.run \in {"receiving", "sending"} =>
    \A e \in (s.since + 1)..happened :
      \/ e \in Range(spawned) \union Range(s.queue)
      \/ s.run = "sending" /\ s.event = e

(***************************************************************************)
(* The goroutine of a connection that is not in use any more is stuck with *)
(* an event only when the job gave up waiting for the first message.       *)
(***************************************************************************)
StuckOnlyIfGivenUp ==
  \A c \in Conn :
    stream[c].run = "sending" /\ stream[c].close => stream[c].gaveUp

(***************************************************************************)
(* A lost connection is made again, unless the process is terminated, the  *)
(* job is cancelled, or the server cancelled the stream: then the job ends *)
(* without an error and the plugin hears of nothing any more.              *)
(***************************************************************************)
ListensAgain ==
  At("connect") ~>
    \/ At("loop") \/ terminated \/ closed
    \/ \E c \in Conn : c = watcher.conn /\ stream[c].err = "canceled"

Fairness ==
  /\ WF_watcherVars(JobStep)
  /\ WF_watcherVars(Cancel)
  /\ \A c \in Conn : WF_watcherVars(Run(c))
=============================================================================
