------------------------------ MODULE HttpServer ------------------------------
(***************************************************************************)
(* The HTTP service job of the plugins with webhooks: it listens and       *)
(* serves, its callback shuts the server down when the process is          *)
(* terminated, and a goroutine closes it when the context of the job ends. *)
(*                                                                         *)
(* The server of net/http is external.  Its Shutdown stops the listener,   *)
(* which makes Serve return at once, and waits for the open connections;   *)
(* its Close cuts them.                                                    *)
(***************************************************************************)
EXTENDS Naturals

CONSTANTS Connection

VARIABLES
  terminated, closed,    \* the process: Terminate, Close were called
  http,                  \* the job, its callback and the server
  connection             \* [Connection -> what became of its request]

httpVars == <<http, connection>>

\* shutdown, cut: Shutdown, Close of the server were called.
HttpState ==
  [pc : {"start", "listen", "serve", "serving", "failed", "done"},
   callback : {"none", "listed", "running", "returned"},
   shutdown : BOOLEAN, cut : BOOLEAN]

TypeOK ==
  /\ http \in HttpState
  /\ connection \in [Connection -> {"none", "open", "answered", "cut"}]

Init ==
  /\ http = [pc |-> "start", callback |-> "none", shutdown |-> FALSE, cut |-> FALSE]
  /\ connection = [q \in Connection |-> "none"]

At(pc) == http.pc = pc
Open == {q \in Connection : connection[q] = "open"}
Returned == http.pc \in {"failed", "done"}
CtxDone == Returned \/ closed

-----------------------------------------------------------------------------
(***************************************************************************)
(* ServiceJob and ListenAndServe.                                          *)
(***************************************************************************)
Register ==
  /\ At("start")
  /\ http' = [http EXCEPT !.pc = "listen", !.callback = "listed"]
  /\ UNCHANGED connection

\* The address may be in use.
Listen ==
  /\ At("listen")
  /\ \E pc \in {"serve", "failed"} : http' = [http EXCEPT !.pc = pc]
  /\ UNCHANGED connection

\* A server that was shut down or closed does not serve.
Serve ==
  /\ At("serve")
  /\ http' = [http EXCEPT !.pc = IF http.shutdown \/ http.cut THEN "done" ELSE "serving"]
  /\ UNCHANGED connection

\* Serve returns ErrServerClosed, which is no error, or because of the listener.
ServeReturns ==
  /\ At("serving")
  /\ http' = [http EXCEPT !.pc = IF http.shutdown \/ http.cut THEN "done" ELSE "failed"]
  /\ UNCHANGED connection

\* The goroutine that waits for the end of the context of the job.
CloseServer ==
  /\ ~At("start")
  /\ CtxDone
  /\ ~http.cut
  /\ http' = [http EXCEPT !.cut = TRUE]
  /\ connection' = [q \in Connection |-> IF q \in Open THEN "cut" ELSE connection[q]]

-----------------------------------------------------------------------------
(***************************************************************************)
(* The callback: ShutdownWithTimeout.                                      *)
(***************************************************************************)
Shutdown ==
  /\ terminated
  /\ http.callback = "listed"
  /\ http' = [http EXCEPT !.callback = "running", !.shutdown = TRUE]
  /\ UNCHANGED connection

\* All connections are done with, or the five seconds are over.
ShutdownReturns ==
  /\ http.callback = "running"
  /\ http' = [http EXCEPT !.callback = "returned"]
  /\ UNCHANGED connection

-----------------------------------------------------------------------------
(***************************************************************************)
(* Requests of others.                                                     *)
(***************************************************************************)
Accept(q) ==
  /\ At("serving") /\ ~http.shutdown /\ ~http.cut
  /\ connection[q] = "none"
  /\ connection' = [connection EXCEPT ![q] = "open"]
  /\ UNCHANGED http

Answer(q) ==
  /\ connection[q] = "open"
  /\ connection' = [connection EXCEPT ![q] = "answered"]
  /\ UNCHANGED http

Next ==
  \/ Register \/ Listen \/ Serve \/ ServeReturns
  \/ CloseServer
  \/ Shutdown \/ ShutdownReturns
  \/ \E q \in Connection : Accept(q) \/ Answer(q)

\* Serve may go on for ever, but not when the server is shut down or closed.
Fairness ==
  /\ WF_httpVars(Register \/ Listen \/ Serve)
  /\ WF_httpVars((http.shutdown \/ http.cut) /\ ServeReturns)
  /\ WF_httpVars(CloseServer)
  /\ WF_httpVars(Shutdown)
  /\ WF_httpVars(ShutdownReturns)

-----------------------------------------------------------------------------
(***************************************************************************)
(* "Shutdown stops the server gracefully": a request that is being served  *)
(* when the callback shuts the server down is not cut off while the        *)
(* callback still waits for it, unless the process is closed or serving    *)
(* has failed.                                                             *)
(***************************************************************************)
ShutdownIsGraceful ==
  [][\A q \in Connection :
       connection[q] = "open" /\ connection'[q] = "cut" /\ http.callback = "running"
         => closed \/ At("failed")]_httpVars
=============================================================================
