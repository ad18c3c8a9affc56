----------------------------- MODULE ServicesProofs ---------------------------
(***************************************************************************)
(* Proofs about Services, for any number of events, faults and HTTP        *)
(* connections.  The argument: what the connection in use still brings is  *)
(* in order and newer than everything handled (CurrentFits), a new         *)
(* connection starts empty, and one that is not in use any more has ended  *)
(* or was given up (ClosedFits).                                           *)
(***************************************************************************)
EXTENDS Services, Sequences, SequencesExt, TLAPS

Running(s) == s.run \in {"receiving", "sending"}

\* A connection with the record s is right when h events have happened: what
\* it still brings is in order, the first message (0) before the events.
StreamFits(s, h) ==
  /\ \A i, k \in DOMAIN s.queue : i < k => s.queue[i] < s.queue[k]
  /\ \A i \in DOMAIN s.queue : s.queue[i] <= h
  /\ s.since <= h
  /\ s.run = "sending" =>
       /\ s.event \in W!EventID /\ s.event <= h
       /\ \A i \in DOMAIN s.queue : s.event < s.queue[i]

\* The connection in use, with the events p handled.
CurrentFits(s, p, h) ==
  /\ \A i \in DOMAIN p :
       /\ \A k \in DOMAIN s.queue : s.queue[k] = 0 \/ p[i] < s.queue[k]
       /\ s.run = "sending" => p[i] < s.event
  /\ Running(s) /\ ~s.close =>
       \A e \in (s.since + 1)..h :
         \/ e \in Range(p) \union Range(s.queue)
         \/ s.run = "sending" /\ s.event = e

\* A closed connection has ended or was given up.
ClosedFits(s) == s.close => s.run = "ended" \/ s.gaveUp

\* Every connection but the first is paid for by a fault.
Paid ==
  /\ watcher.pc \in {"start", "connect"} => watcher.conn <= faults
  /\ watcher.conn <= faults + 1
  /\ watcher.pc \in {"waiting", "loop"} =>
       /\ watcher.conn \in W!Conn
       /\ ~stream[watcher.conn].close
       /\ stream[watcher.conn].err \in {"connection", "eof"} => watcher.conn <= faults

Unused == \A c \in W!Conn : watcher.conn < c => stream[c] = W!NoStream

StreamsFit ==
  \A c \in W!Conn :
    /\ StreamFits(stream[c], happened)
    /\ ClosedFits(stream[c])
    /\ c = watcher.conn => CurrentFits(stream[c], spawned, happened)

SpawnedFit ==
  /\ W!SpawnedInOrder
  /\ \A i \in DOMAIN spawned : spawned[i] <= happened

ServicesInv == TypeOK /\ Paid /\ Unused /\ StreamsFit /\ SpawnedFit

-----------------------------------------------------------------------------
(***************************************************************************)
(* Queues: what is taken from the front and added at the end.              *)
(***************************************************************************)
LEMMA TailQueue ==
  ASSUME NEW S, NEW q \in Seq(S), q # <<>>
  PROVE  /\ Tail(q) \in Seq(S) /\ Head(q) \in S /\ Head(q) = q[1] /\ 1 \in DOMAIN q
         /\ \A i \in DOMAIN Tail(q) :
              i \in Nat \ {0} /\ i + 1 \in DOMAIN q /\ Tail(q)[i] = q[i + 1]
         /\ Range(q) = {Head(q)} \union Range(Tail(q))
<1>1. /\ Tail(q) \in Seq(S) /\ Len(Tail(q)) = Len(q) - 1 /\ Len(q) \in Nat \ {0}
      /\ DOMAIN q = 1..Len(q) /\ DOMAIN Tail(q) = 1..Len(Tail(q))
      /\ \A i \in 1..Len(Tail(q)) : Tail(q)[i] = q[i + 1]
  OBVIOUS
<1>2. Head(q) = q[1] /\ 1 \in DOMAIN q /\ Head(q) \in S
  BY <1>1
<1>3. \A i \in DOMAIN Tail(q) :
        i \in Nat \ {0} /\ i + 1 \in DOMAIN q /\ Tail(q)[i] = q[i + 1]
  BY <1>1
<1>4. \A i \in DOMAIN q : i = 1 \/ (i - 1 \in DOMAIN Tail(q) /\ Tail(q)[i - 1] = q[i])
  BY <1>1
<1>5. Range(q) \subseteq {Head(q)} \union Range(Tail(q))
  BY <1>2, <1>4 DEF Range
<1>6. {Head(q)} \union Range(Tail(q)) \subseteq Range(q)
  BY <1>2, <1>3 DEF Range
<1> QED BY <1>1, <1>2, <1>3, <1>5, <1>6

LEMMA AppendQueue ==
  ASSUME NEW S, NEW q \in Seq(S), NEW e \in S
  PROVE  /\ Append(q, e) \in Seq(S)
         /\ DOMAIN q = 1..Len(q) /\ Len(q) \in Nat
         /\ DOMAIN Append(q, e) = 1..(Len(q) + 1)
         /\ \A i \in DOMAIN q : Append(q, e)[i] = q[i]
         /\ Append(q, e)[Len(q) + 1] = e
         /\ Range(Append(q, e)) = Range(q) \union {e}
<1>1. /\ Append(q, e) \in Seq(S)
      /\ DOMAIN q = 1..Len(q) /\ Len(q) \in Nat
      /\ DOMAIN Append(q, e) = 1..(Len(q) + 1)
      /\ \A i \in 1..Len(q) : Append(q, e)[i] = q[i]
      /\ Append(q, e)[Len(q) + 1] = e
  OBVIOUS
<1>2. DOMAIN Append(q, e) = DOMAIN q \union {Len(q) + 1}
  BY <1>1
<1>3. Range(Append(q, e)) = Range(q) \union {e}
  BY <1>1, <1>2 DEF Range
<1> QED BY <1>1, <1>3

(***************************************************************************)
(* The types of the parts of a connection, and a new one.                  *)
(***************************************************************************)
LEMMA StreamType ==
  ASSUME NEW s \in W!StreamState
  PROVE  /\ s.queue \in Seq({0} \union W!EventID)
         /\ s.event \in Nat /\ s.since \in Nat
         /\ \A i \in DOMAIN s.queue : i \in Nat /\ s.queue[i] \in Nat
<1>1. W!EventID \subseteq Nat
  BY ServicesAssumption DEF W!EventID
<1>2. s.queue \in Seq({0} \union W!EventID)
  BY DEF W!StreamState
<1>3. \A i \in DOMAIN s.queue : i \in Nat /\ s.queue[i] \in {0} \union W!EventID
  BY <1>2
<1>4. s.event \in {0} \union W!EventID /\ s.since \in {0} \union W!EventID
  BY DEF W!StreamState
<1>5. \A n \in {0} \union W!EventID : n \in Nat
  BY <1>1
<1>6. \A i \in DOMAIN s.queue : i \in Nat /\ s.queue[i] \in Nat
  BY <1>3, <1>5
<1> QED BY <1>2, <1>4, <1>5, <1>6

LEMMA NewStream ==
  ASSUME NEW p, NEW h \in Nat
  PROVE  /\ W!NoStream \in W!StreamState
         /\ StreamFits(W!NoStream, h) /\ ClosedFits(W!NoStream)
         /\ CurrentFits(W!NoStream, p, h)
<1>1. W!NoStream \in W!StreamState
  BY DEF W!NoStream, W!StreamState, W!Error
<1>2. W!NoStream.queue = <<>> /\ W!NoStream.run = "none" /\ W!NoStream.close = FALSE
      /\ W!NoStream.since = 0
  BY DEF W!NoStream
<1>3. DOMAIN W!NoStream.queue = {}
  BY <1>2
<1> QED BY <1>1, <1>2, <1>3 DEF StreamFits, ClosedFits, CurrentFits, Running

(***************************************************************************)
(* What the invariant says of one connection.                              *)
(***************************************************************************)
LEMMA OneStream ==
  ASSUME ServicesInv, NEW c \in W!Conn
  PROVE  /\ stream[c] \in W!StreamState
         /\ StreamFits(stream[c], happened) /\ ClosedFits(stream[c])
         /\ c = watcher.conn => CurrentFits(stream[c], spawned, happened)
         /\ c \in Nat /\ happened \in Nat /\ watcher.conn \in Nat /\ faults \in Nat
         /\ stream[c] # W!NoStream => c <= watcher.conn
BY ServicesAssumption
   DEF ServicesInv, TypeOK, W!TypeOK, W!WatcherState, StreamsFit, Unused, W!Conn, W!EventID

(***************************************************************************)
(* A step that changes one connection, which is in use already.            *)
(***************************************************************************)
LEMMA StreamStep ==
  ASSUME ServicesInv, NEW c \in W!Conn, NEW s \in W!StreamState,
         c <= watcher.conn,
         stream' = [stream EXCEPT ![c] = s],
         UNCHANGED <<processVars, httpVars, happened, spawned>>,
         watcher' \in W!WatcherState, watcher'.conn = watcher.conn,
         faults' \in 0..MaxFaults,
         StreamFits(s, happened), ClosedFits(s),
         c = watcher.conn => CurrentFits(s, spawned, happened),
         Paid'
  PROVE  ServicesInv'
<1>1. TypeOK'
  BY DEF ServicesInv, TypeOK, W!TypeOK, H!TypeOK, processVars, httpVars
<1>2. c \in Nat /\ watcher.conn \in Nat
  BY OneStream
<1>3. \A d \in W!Conn : stream'[d] = IF d = c THEN s ELSE stream[d]
  BY DEF ServicesInv, TypeOK, W!TypeOK
<1>4. Unused'
  <2> SUFFICES ASSUME NEW d \in W!Conn, watcher'.conn < d PROVE stream'[d] = W!NoStream
    BY DEF Unused
  <2>1. d # c /\ watcher.conn < d
    BY <1>2
  <2> QED BY <2>1, <1>3 DEF ServicesInv, Unused
<1>5. StreamsFit'
  <2> SUFFICES ASSUME NEW d \in W!Conn
               PROVE  /\ StreamFits(stream'[d], happened)
                      /\ ClosedFits(stream'[d])
                      /\ d = watcher.conn => CurrentFits(stream'[d], spawned, happened)
    BY DEF StreamsFit
  <2> QED BY <1>3, OneStream
<1>6. SpawnedFit'
  BY DEF ServicesInv, SpawnedFit, W!SpawnedInOrder
<1> QED BY <1>1, <1>4, <1>5, <1>6 DEF ServicesInv

(***************************************************************************)
(* A step that leaves the connections and the events alone.                *)
(***************************************************************************)
LEMMA QuietStep ==
  ASSUME ServicesInv, UNCHANGED <<stream, happened, spawned, faults>>,
         watcher' \in W!WatcherState, watcher'.conn = watcher.conn,
         Paid', H!TypeOK', terminated' \in BOOLEAN, closed' \in BOOLEAN
  PROVE  ServicesInv'
<1>1. TypeOK'
  BY DEF ServicesInv, TypeOK, W!TypeOK
<1>2. Unused' /\ StreamsFit'
  BY DEF ServicesInv, Unused, StreamsFit
<1>3. SpawnedFit'
  BY DEF ServicesInv, SpawnedFit, W!SpawnedInOrder
<1> QED BY <1>1, <1>2, <1>3 DEF ServicesInv

-----------------------------------------------------------------------------
(***************************************************************************)
(* The steps of the job.                                                   *)
(***************************************************************************)
LEMMA JobTypes ==
  ASSUME ServicesInv
  PROVE  /\ watcher \in W!WatcherState /\ watcher.conn \in Nat
         /\ faults \in 0..MaxFaults /\ faults \in Nat /\ MaxFaults \in Nat
         /\ stream \in [W!Conn -> W!StreamState]
         /\ terminated \in BOOLEAN /\ closed \in BOOLEAN /\ H!TypeOK
BY ServicesAssumption DEF ServicesInv, TypeOK, W!TypeOK, W!WatcherState, W!Conn

LEMMA RegisterInv ==
  ASSUME ServicesInv, UNCHANGED <<processVars, httpVars>>, W!Register \/ W!Cancel
  PROVE  ServicesInv'
<1>1. /\ watcher' \in W!WatcherState /\ watcher'.conn = watcher.conn
      /\ UNCHANGED <<stream, happened, spawned, faults>>
      /\ \/ watcher'.pc = watcher.pc
         \/ watcher'.pc = "connect" /\ watcher.pc = "start"
  BY JobTypes DEF W!Register, W!Cancel, W!WatcherState, W!At
<1>2. Paid'
  BY <1>1 DEF ServicesInv, Paid
<1>3. H!TypeOK' /\ terminated' \in BOOLEAN /\ closed' \in BOOLEAN
  BY JobTypes DEF H!TypeOK, processVars, httpVars
<1> QED BY <1>1, <1>2, <1>3, QuietStep

LEMMA WatchRequestsInv ==
  ASSUME ServicesInv, UNCHANGED <<processVars, httpVars>>, W!WatchRequests
  PROVE  ServicesInv'
<1> DEFINE c == watcher.conn + 1
           s == [W!NoStream EXCEPT !.run = "dialing"]
<1>1. c \in W!Conn /\ c \in Nat /\ watcher.conn <= faults /\ watcher.conn < c
  BY JobTypes DEF ServicesInv, Paid, W!WatchRequests, W!At, W!Conn
<1>2. stream[c] = W!NoStream
  BY <1>1 DEF ServicesInv, Unused
<1>3. /\ stream' = [stream EXCEPT ![c] = s]
      /\ watcher' = [watcher EXCEPT !.pc = "waiting", !.conn = c]
      /\ UNCHANGED <<happened, spawned, faults>>
  BY <1>2 DEF W!WatchRequests
<1>4. /\ s \in W!StreamState /\ s.queue = <<>> /\ s.run = "dialing" /\ ~s.close
      /\ s.since = 0 /\ s.err = "none"
  <2>1. /\ W!NoStream.queue = <<>> /\ W!NoStream.close = FALSE /\ W!NoStream.since = 0
        /\ W!NoStream.err = "none"
    BY DEF W!NoStream
  <2>2. W!NoStream \in W!StreamState
    BY DEF W!NoStream, W!StreamState, W!Error
  <2> QED BY <2>1, <2>2 DEF W!StreamState
<1>5. StreamFits(s, happened) /\ ClosedFits(s) /\ CurrentFits(s, spawned, happened)
  <2>1. DOMAIN s.queue = {}
    BY <1>4
  <2>2. happened \in Nat
    BY <1>1, OneStream
  <2> QED BY <1>4, <2>1, <2>2 DEF StreamFits, ClosedFits, CurrentFits, Running
<1>6. /\ watcher' \in W!WatcherState /\ watcher'.conn = c /\ watcher'.pc = "waiting"
  BY <1>1, <1>3, JobTypes DEF W!WatcherState
<1> HIDE DEF s
<1>7. \A d \in W!Conn : stream'[d] = IF d = c THEN s ELSE stream[d]
  BY <1>3, JobTypes
<1>8. TypeOK'
  <2>1. stream' \in [W!Conn -> W!StreamState]
    BY <1>3, <1>4, JobTypes
  <2> QED BY <1>3, <1>6, <2>1 DEF ServicesInv, TypeOK, W!TypeOK, H!TypeOK, processVars, httpVars
<1>9. Paid'
  <2>1. stream'[c] = s /\ faults' = faults
    BY <1>1, <1>3, <1>7
  <2>2. c <= faults + 1
    BY <1>1, JobTypes
  <2> QED BY <1>1, <1>4, <1>6, <2>1, <2>2 DEF Paid, W!Conn
<1>10. Unused'
  <2> SUFFICES ASSUME NEW d \in W!Conn, c < d PROVE stream'[d] = W!NoStream
    BY <1>6 DEF Unused
  <2>1. d # c /\ watcher.conn < d
    BY <1>1, JobTypes DEF W!Conn
  <2> QED BY <2>1, <1>7 DEF ServicesInv, Unused
<1>11. StreamsFit'
  <2> SUFFICES ASSUME NEW d \in W!Conn
               PROVE  /\ StreamFits(stream'[d], happened)
                      /\ ClosedFits(stream'[d])
                      /\ d = c => CurrentFits(stream'[d], spawned, happened)
    BY <1>3, <1>6 DEF StreamsFit
  <2> QED BY <1>5, <1>7, OneStream
<1>12. SpawnedFit'
  BY <1>3 DEF ServicesInv, SpawnedFit, W!SpawnedInOrder
<1> QED BY <1>8, <1>9, <1>10, <1>11, <1>12 DEF ServicesInv

\* The loop ends with an error that, if it makes the job connect again, has been
\* paid for.
LEMMA EndLoopInv ==
  ASSUME ServicesInv, UNCHANGED <<processVars, httpVars>>,
         watcher.pc \in {"waiting", "loop"},
         NEW err \in W!Error, NEW gaveUp \in BOOLEAN,
         W!EndLoop(err, gaveUp),
         faults' \in 0..MaxFaults, faults <= faults',
         err \in {"connection", "eof"} => watcher.conn <= faults',
         gaveUp \/ stream[watcher.conn].run = "ended"
  PROVE  ServicesInv'
<1> DEFINE c == watcher.conn
           s == [stream[c] EXCEPT !.close = TRUE, !.gaveUp = gaveUp]
<1>1. c \in W!Conn /\ c <= faults + 1 /\ ~stream[c].close
  BY DEF ServicesInv, Paid
<1>2. stream[c] \in W!StreamState
  BY <1>1, JobTypes
<1>3. /\ s \in W!StreamState /\ s.close = TRUE /\ s.gaveUp = gaveUp
      /\ s.run = stream[c].run /\ s.queue = stream[c].queue
      /\ s.event = stream[c].event /\ s.since = stream[c].since
  BY <1>2 DEF W!StreamState
<1>4. /\ stream' = [stream EXCEPT ![c] = s]
      /\ watcher' = [watcher EXCEPT !.pc = W!AfterError(err)]
      /\ UNCHANGED <<happened, spawned>>
  BY <1>1, JobTypes DEF W!EndLoop
<1>5. W!AfterError(err) \in {"connect", "done", "failed"}
  BY DEF W!AfterError
<1>6. W!AfterError(err) = "connect" => err \in {"connection", "eof"}
  BY DEF W!AfterError
<1>7. /\ watcher' \in W!WatcherState /\ watcher'.conn = c
      /\ watcher'.pc = W!AfterError(err)
  BY <1>4, <1>5, JobTypes DEF W!WatcherState
<1>8. Paid'
  <2>1. c <= faults' + 1
    BY <1>1, JobTypes
  <2> QED BY <1>5, <1>6, <1>7, <2>1 DEF Paid
<1>9. StreamFits(s, happened) /\ ClosedFits(s)
  <2>1. StreamFits(stream[c], happened)
    BY <1>1, OneStream
  <2>2. ClosedFits(s)
    BY <1>3 DEF ClosedFits
  <2> HIDE DEF s
  <2> QED BY <1>3, <2>1, <2>2 DEF StreamFits
<1>10. CurrentFits(s, spawned, happened)
  <2>1. CurrentFits(stream[c], spawned, happened)
    BY <1>1, OneStream
  <2> HIDE DEF s
  <2> QED BY <1>3, <2>1 DEF CurrentFits, Running
<1> HIDE DEF s
<1>11. c <= watcher.conn
  BY <1>1 DEF W!Conn
<1> QED BY <1>1, <1>3, <1>4, <1>7, <1>8, <1>9, <1>10, <1>11, StreamStep

\* A job that reads an error the stream ended with has paid for it.
LEMMA StreamEnded ==
  ASSUME ServicesInv, UNCHANGED <<processVars, httpVars, faults>>,
         watcher.pc \in {"waiting", "loop"},
         stream[watcher.conn].run = "ended",
         W!EndLoop(stream[watcher.conn].err, FALSE)
  PROVE  ServicesInv'
<1>1. /\ watcher.conn \in W!Conn
      /\ stream[watcher.conn].err \in {"connection", "eof"} => watcher.conn <= faults
  BY DEF ServicesInv, Paid
<1>2. stream[watcher.conn].err \in W!Error
  BY <1>1, JobTypes DEF W!StreamState
<1>3. faults' \in 0..MaxFaults /\ faults <= faults'
  BY JobTypes
<1> QED BY <1>1, <1>2, <1>3, EndLoopInv

LEMMA WaitInitInv ==
  ASSUME ServicesInv, UNCHANGED <<processVars, httpVars>>, W!WaitInit
  PROVE  ServicesInv'
<1> USE DEF W!At
<1>1. watcher.pc = "waiting"
  BY DEF W!WaitInit
<1>2. CASE /\ stream[watcher.conn].init
           /\ watcher' = [watcher EXCEPT !.pc = "loop"]
           /\ UNCHANGED <<stream, happened, spawned, faults>>
  <2>1. /\ watcher' \in W!WatcherState /\ watcher'.conn = watcher.conn
        /\ watcher'.pc = "loop"
    BY <1>2, JobTypes DEF W!WatcherState
  <2>2. Paid'
    BY <1>1, <1>2, <2>1 DEF ServicesInv, Paid
  <2>3. H!TypeOK' /\ terminated' \in BOOLEAN /\ closed' \in BOOLEAN
    BY JobTypes DEF H!TypeOK, processVars, httpVars
  <2> QED BY <1>2, <2>1, <2>2, <2>3, QuietStep
<1>3. CASE W!Fault /\ W!EndLoop("connection", TRUE)
  <2>1. faults' \in 0..MaxFaults /\ faults <= faults' /\ watcher.conn <= faults'
    BY <1>1, <1>3, JobTypes DEF W!Fault, ServicesInv, Paid
  <2> QED BY <1>1, <1>3, <2>1, EndLoopInv DEF W!Error
<1>4. CASE /\ stream[watcher.conn].run = "ended"
           /\ W!EndLoop(stream[watcher.conn].err, FALSE) /\ UNCHANGED faults
  BY <1>1, <1>4, StreamEnded
<1>5. CASE W!CtxDone /\ W!EndLoop("canceled", TRUE) /\ UNCHANGED faults
  <2>1. faults' \in 0..MaxFaults /\ faults <= faults'
    BY <1>5, JobTypes
  <2> QED BY <1>1, <1>5, <2>1, EndLoopInv DEF W!Error
<1> QED BY <1>2, <1>3, <1>4, <1>5 DEF W!WaitInit

\* The event goes from the connection to a handler.
LEMMA SpawnInv ==
  ASSUME ServicesInv, UNCHANGED <<processVars, httpVars, watcher, happened, faults>>,
         watcher.pc = "loop", stream[watcher.conn].run = "sending",
         stream' = [stream EXCEPT ![watcher.conn].run = "receiving",
                                  ![watcher.conn].event = 0],
         spawned' = Append(spawned, stream[watcher.conn].event)
  PROVE  ServicesInv'
<1> DEFINE c == watcher.conn
           e == stream[c].event
           s == [stream[c] EXCEPT !.run = "receiving", !.event = 0]
<1>1. /\ c \in W!Conn /\ ~stream[c].close
      /\ stream[c].err \in {"connection", "eof"} => c <= faults
  BY DEF ServicesInv, Paid
<1>2. /\ stream[c] \in W!StreamState /\ StreamFits(stream[c], happened)
      /\ CurrentFits(stream[c], spawned, happened) /\ ClosedFits(stream[c])
  BY <1>1, OneStream
<1>3. /\ s \in W!StreamState /\ s.close = stream[c].close /\ s.run = "receiving"
      /\ s.queue = stream[c].queue /\ s.since = stream[c].since /\ s.err = stream[c].err
  BY <1>2 DEF W!StreamState
<1>4. \A d \in W!Conn : stream'[d] = IF d = c THEN s ELSE stream[d]
  BY JobTypes
<1>5. e \in W!EventID /\ e <= happened /\ \A k \in DOMAIN s.queue : e < s.queue[k]
  BY <1>2, <1>3 DEF StreamFits
<1>6. spawned \in Seq(W!EventID) /\ happened \in Nat /\ W!EventID \subseteq Nat
  BY <1>1, OneStream, ServicesAssumption DEF ServicesInv, TypeOK, W!TypeOK, W!EventID
<1>7. /\ spawned' \in Seq(W!EventID)
      /\ DOMAIN spawned = 1..Len(spawned) /\ Len(spawned) \in Nat
      /\ DOMAIN spawned' = 1..(Len(spawned) + 1)
      /\ \A i \in DOMAIN spawned : spawned'[i] = spawned[i]
      /\ spawned'[Len(spawned) + 1] = e
      /\ Range(spawned') = Range(spawned) \union {e}
  BY <1>5, <1>6, AppendQueue
<1>8. \A i \in DOMAIN spawned' :
        \/ i \in DOMAIN spawned /\ spawned'[i] = spawned[i]
        \/ i = Len(spawned) + 1 /\ spawned'[i] = e
  BY <1>7
<1>9. s \in W!StreamState /\ StreamFits(s, happened) /\ ClosedFits(s)
  <2> HIDE DEF s
  <2> QED BY <1>1, <1>2, <1>3 DEF StreamFits, ClosedFits
<1>10. CurrentFits(s, spawned', happened)
  <2>1. \A i \in DOMAIN spawned', k \in DOMAIN s.queue :
          s.queue[k] = 0 \/ spawned'[i] < s.queue[k]
    <3> HIDE DEF s, e
    <3> QED BY <1>2, <1>3, <1>5, <1>8 DEF CurrentFits
  <2>2. Running(s) /\ ~s.close =>
          \A d \in (s.since + 1)..happened : d \in Range(spawned') \union Range(s.queue)
    <3>1. \A d \in (s.since + 1)..happened :
            d \in Range(spawned) \union Range(s.queue) \/ e = d
      BY <1>1, <1>2, <1>3 DEF CurrentFits, Running
    <3> QED BY <1>7, <3>1
  <2> HIDE DEF s, e
  <2> QED BY <1>3, <2>1, <2>2 DEF CurrentFits
<1>11. TypeOK'
  <2>1. stream' \in [W!Conn -> W!StreamState]
    BY <1>3, JobTypes
  <2> QED BY <1>7, <2>1 DEF ServicesInv, TypeOK, W!TypeOK, H!TypeOK, processVars, httpVars
<1>12. Paid'
  <2>1. stream'[c] = s
    BY <1>1, <1>4
  <2> HIDE DEF s
  <2> QED BY <1>1, <1>3, <2>1 DEF ServicesInv, Paid
<1>13. Unused'
  <2> SUFFICES ASSUME NEW d \in W!Conn, c < d PROVE stream'[d] = W!NoStream
    BY DEF Unused
  <2>1. d # c
    BY JobTypes
  <2> QED BY <2>1, <1>4 DEF ServicesInv, Unused
<1>14. StreamsFit'
  <2> SUFFICES ASSUME NEW d \in W!Conn
               PROVE  /\ StreamFits(stream'[d], happened)
                      /\ ClosedFits(stream'[d])
                      /\ d = c => CurrentFits(stream'[d], spawned', happened)
    BY DEF StreamsFit
  <2> HIDE DEF s
  <2> QED BY <1>4, <1>9, <1>10, OneStream
<1>15. SpawnedFit'
  <2>1. \A i \in DOMAIN spawned : spawned[i] < e /\ spawned[i] <= happened
    BY <1>2 DEF CurrentFits, ServicesInv, SpawnedFit
  <2>2. \A i, k \in DOMAIN spawned : i < k => spawned[i] < spawned[k]
    BY DEF ServicesInv, SpawnedFit, W!SpawnedInOrder
  <2> HIDE DEF e
  <2>3. \A i \in DOMAIN spawned' : spawned'[i] <= happened
    BY <1>5, <1>8, <2>1
  <2>4. \A i, k \in DOMAIN spawned' : i < k => spawned'[i] < spawned'[k]
    <3> SUFFICES ASSUME NEW i \in DOMAIN spawned', NEW k \in DOMAIN spawned', i < k
                 PROVE  spawned'[i] < spawned'[k]
      OBVIOUS
    <3>1. i \in DOMAIN spawned /\ spawned'[i] = spawned[i]
      BY <1>7
    <3> QED BY <1>8, <2>1, <2>2, <3>1
  <2> QED BY <2>3, <2>4 DEF SpawnedFit, W!SpawnedInOrder
<1> QED BY <1>11, <1>12, <1>13, <1>14, <1>15 DEF ServicesInv

LEMMA EventLoopInv ==
  ASSUME ServicesInv, UNCHANGED <<processVars, httpVars>>, W!eventLoop
  PROVE  ServicesInv'
<1>1. watcher.pc = "loop" /\ UNCHANGED faults
  BY DEF W!eventLoop, W!At
<1>2. CASE stream[watcher.conn].run = "ended"
           /\ W!EndLoop(stream[watcher.conn].err, FALSE)
  BY <1>1, <1>2, StreamEnded
<1>3. CASE stream[watcher.conn].run = "sending" /\ UNCHANGED <<watcher, happened>>
           /\ stream' = [stream EXCEPT ![watcher.conn].run = "receiving",
                                       ![watcher.conn].event = 0]
           /\ spawned' = Append(spawned, stream[watcher.conn].event)
  BY <1>1, <1>3, SpawnInv
<1> QED BY <1>2, <1>3 DEF W!eventLoop

-----------------------------------------------------------------------------
(***************************************************************************)
(* The steps of the goroutine of a connection.                             *)
(***************************************************************************)
\* A step of the goroutine keeps what is paid for: an error that makes the job
\* connect again costs a fault.
LEMMA RunStep ==
  ASSUME ServicesInv, UNCHANGED <<processVars, httpVars, watcher, happened, spawned>>,
         NEW c \in W!Conn, stream[c].run \in {"dialing", "receiving"},
         NEW s \in W!StreamState, stream' = [stream EXCEPT ![c] = s],
         s.close = stream[c].close,
         faults' \in 0..MaxFaults, faults <= faults',
         s.err \in {"connection", "eof"} =>
           s.err = stream[c].err \/ faults' = faults + 1,
         StreamFits(s, happened), ClosedFits(s),
         c = watcher.conn => CurrentFits(s, spawned, happened)
  PROVE  ServicesInv'
<1>1. stream[c] # W!NoStream
  BY DEF W!NoStream
<1>2. c <= watcher.conn
  BY <1>1, OneStream
<1>3. \A d \in W!Conn : stream'[d] = IF d = c THEN s ELSE stream[d]
  BY JobTypes
<1>4. Paid'
  <2>1. watcher.conn <= faults' + 1 /\ (watcher.conn <= faults => watcher.conn <= faults')
        /\ (faults' = faults + 1 => watcher.conn <= faults')
    BY JobTypes DEF ServicesInv, Paid
  <2> QED BY <1>3, <2>1 DEF ServicesInv, Paid
<1> QED BY <1>2, <1>4, JobTypes, StreamStep

\* The goroutine ends; nobody asks any more what it brings.
LEMMA EndInv ==
  ASSUME ServicesInv, UNCHANGED <<processVars, httpVars, watcher, happened, spawned>>,
         NEW c \in W!Conn, stream[c].run \in {"dialing", "receiving"},
         NEW err \in W!Error, W!End(c, err),
         faults' \in 0..MaxFaults, faults <= faults',
         err \in {"connection", "eof"} => faults' = faults + 1
  PROVE  ServicesInv'
<1> DEFINE s == [W!NoStream EXCEPT !.run = "ended", !.err = err, !.close = stream[c].close]
<1>1. stream[c] \in W!StreamState /\ happened \in Nat
  BY OneStream
<1>2. stream' = [stream EXCEPT ![c] = s]
  BY DEF W!End
<1>3. /\ W!NoStream \in W!StreamState /\ W!NoStream.queue = <<>> /\ W!NoStream.since = 0
  BY DEF W!NoStream, W!StreamState, W!Error
<1>4. /\ s \in W!StreamState /\ s.run = "ended" /\ s.err = err /\ s.close = stream[c].close
      /\ s.queue = <<>> /\ s.since = 0
  BY <1>1, <1>3 DEF W!StreamState
<1> HIDE DEF s
<1>5. DOMAIN s.queue = {}
  BY <1>4
<1>6. StreamFits(s, happened) /\ ClosedFits(s) /\ CurrentFits(s, spawned, happened)
  BY <1>1, <1>4, <1>5 DEF StreamFits, ClosedFits, CurrentFits, Running
<1> QED BY <1>2, <1>4, <1>6, RunStep

\* A fault is one more, within the bound; otherwise their number stays.
LEMMA FaultTypes ==
  ASSUME ServicesInv
  PROVE  /\ W!Fault => faults' \in 0..MaxFaults /\ faults <= faults' /\ faults' = faults + 1
         /\ UNCHANGED faults => faults' \in 0..MaxFaults /\ faults <= faults'
BY JobTypes DEF W!Fault

LEMMA WatchEventsInv ==
  ASSUME ServicesInv, UNCHANGED <<processVars, httpVars>>,
         NEW c \in W!Conn, W!WatchEvents(c)
  PROVE  ServicesInv'
<1>1. stream[c].run = "dialing" /\ UNCHANGED <<watcher, happened, spawned>>
  BY DEF W!WatchEvents
<1>2. CASE /\ stream' = [stream EXCEPT ![c].run = "receiving", ![c].queue = <<0>>,
                                       ![c].since = happened]
           /\ UNCHANGED faults
  <2> DEFINE s == [stream[c] EXCEPT !.run = "receiving", !.queue = <<0>>, !.since = happened]
  <2>1. /\ stream[c] \in W!StreamState /\ happened \in Nat /\ ClosedFits(stream[c])
        /\ happened \in {0} \union W!EventID
    BY OneStream DEF ServicesInv, TypeOK, W!TypeOK
  <2>2. stream' = [stream EXCEPT ![c] = s]
    BY <1>2, JobTypes
  <2>3. <<0>> \in Seq({0} \union W!EventID)
    OBVIOUS
  <2>4. /\ s \in W!StreamState /\ s.run = "receiving" /\ s.queue = <<0>>
        /\ s.since = happened /\ s.close = stream[c].close /\ s.err = stream[c].err
        /\ s.gaveUp = stream[c].gaveUp
    BY <2>1, <2>3 DEF W!StreamState
  <2> HIDE DEF s
  <2>5. DOMAIN s.queue = {1} /\ s.queue[1] = 0
    BY <2>4
  <2>6. StreamFits(s, happened)
    BY <2>1, <2>4, <2>5 DEF StreamFits
  <2>7. ClosedFits(s)
    BY <1>1, <2>1, <2>4 DEF ClosedFits
  <2>8. CurrentFits(s, spawned, happened)
    <3>1. (s.since + 1)..happened = {}
      BY <2>1, <2>4
    <3> QED BY <2>4, <2>5, <3>1 DEF CurrentFits
  <2>9. faults' \in 0..MaxFaults /\ faults <= faults'
    BY <1>2, FaultTypes
  <2> QED BY <1>1, <2>2, <2>4, <2>6, <2>7, <2>8, <2>9, RunStep
<1>3. CASE W!End(c, "canceled") /\ UNCHANGED faults
  BY <1>1, <1>3, FaultTypes, EndInv DEF W!Error
<1>4. CASE W!Fault /\ \E err \in {"connection", "other"} : W!End(c, err)
  BY <1>1, <1>4, FaultTypes, EndInv DEF W!Error
<1> QED BY <1>2, <1>3, <1>4 DEF W!WatchEvents

\* The first message, or an event, is taken from the queue.
LEMMA TakeInv ==
  ASSUME ServicesInv, UNCHANGED <<processVars, httpVars, watcher, happened, spawned, faults>>,
         NEW c \in W!Conn, stream[c].run = "receiving", stream[c].queue # <<>>,
         NEW s \in W!StreamState, stream' = [stream EXCEPT ![c] = s],
         s.queue = Tail(stream[c].queue),
         s.since = stream[c].since, s.close = stream[c].close, s.err = stream[c].err,
         s.gaveUp = stream[c].gaveUp,
         \/ s.run = "receiving" /\ Head(stream[c].queue) = 0
         \/ s.run = "sending" /\ s.event = Head(stream[c].queue) /\ s.event # 0
  PROVE  ServicesInv'
<1> DEFINE q == stream[c].queue
<1>1. /\ stream[c] \in W!StreamState /\ StreamFits(stream[c], happened)
      /\ ClosedFits(stream[c]) /\ happened \in Nat
      /\ c = watcher.conn => CurrentFits(stream[c], spawned, happened)
  BY OneStream
<1>2. q \in Seq({0} \union W!EventID) /\ s.queue = Tail(q)
  BY <1>1 DEF W!StreamState
<1> HIDE DEF q
<1>3. /\ Head(q) \in {0} \union W!EventID /\ Head(q) = q[1] /\ 1 \in DOMAIN q
      /\ \A i \in DOMAIN s.queue :
           i \in Nat \ {0} /\ i + 1 \in DOMAIN q /\ s.queue[i] = q[i + 1]
      /\ Range(q) = {Head(q)} \union Range(s.queue)
  BY <1>2, TailQueue DEF q
<1>4. /\ \A i, k \in DOMAIN q : i < k => q[i] < q[k]
      /\ \A i \in DOMAIN q : q[i] <= happened
      /\ stream[c].since <= happened
  BY <1>1 DEF StreamFits, q
<1>5. /\ \A i, k \in DOMAIN s.queue : i < k => s.queue[i] < s.queue[k]
      /\ \A i \in DOMAIN s.queue : s.queue[i] <= happened /\ Head(q) < s.queue[i]
  BY <1>3, <1>4
<1>6. StreamFits(s, happened)
  <2>1. s.run = "sending" => s.event = Head(q) /\ s.event \in W!EventID
    BY <1>3 DEF q
  <2> QED BY <1>3, <1>4, <1>5, <2>1 DEF StreamFits
<1>7. ClosedFits(s)
  BY <1>1 DEF ClosedFits
<1>8. ASSUME c = watcher.conn PROVE CurrentFits(s, spawned, happened)
  <2>1. \A i \in DOMAIN spawned, k \in DOMAIN q : q[k] = 0 \/ spawned[i] < q[k]
    BY <1>1, <1>8 DEF CurrentFits, q
  <2>2. \A i \in DOMAIN spawned :
          /\ \A k \in DOMAIN s.queue : s.queue[k] = 0 \/ spawned[i] < s.queue[k]
          /\ s.run = "sending" => spawned[i] < s.event
    BY <1>3, <2>1 DEF q
  <2>3. ~s.close =>
          \A e \in (s.since + 1)..happened : e \in Range(spawned) \union Range(q)
    BY <1>1, <1>8 DEF CurrentFits, Running, q
  <2>4. \A e \in (s.since + 1)..happened :
          e \in Range(q) => e \in Range(s.queue) \/ (s.run = "sending" /\ s.event = e)
    <3> SUFFICES ASSUME NEW e \in (s.since + 1)..happened, e \in Range(q), e \notin Range(s.queue)
                 PROVE  s.run = "sending" /\ s.event = e
      OBVIOUS
    <3>1. e = Head(q)
      BY <1>3
    <3>2. e # 0
      <4>1. s.since \in Nat
        BY StreamType
      <4> QED BY <1>1, <4>1
    <3> QED BY <3>1, <3>2 DEF q
  <2> QED BY <2>2, <2>3, <2>4 DEF CurrentFits
<1> QED BY <1>6, <1>7, <1>8, FaultTypes, RunStep

LEMMA RecvInv ==
  ASSUME ServicesInv, UNCHANGED <<processVars, httpVars>>,
         NEW c \in W!Conn, W!Recv(c)
  PROVE  ServicesInv'
<1> DEFINE q == stream[c].queue
<1>1. stream[c].run = "receiving" /\ UNCHANGED <<watcher, happened, spawned>>
  BY DEF W!Recv
<1>2. stream[c] \in W!StreamState /\ q \in Seq({0} \union W!EventID)
  BY OneStream, StreamType
<1>3. CASE /\ q # <<>> /\ Head(q) = 0 /\ UNCHANGED faults
           /\ stream' = [stream EXCEPT ![c].init = TRUE, ![c].queue = Tail(q)]
  <2> DEFINE s == [stream[c] EXCEPT !.init = TRUE, !.queue = Tail(q)]
  <2>1. Tail(q) \in Seq({0} \union W!EventID)
    BY <1>2, <1>3, TailQueue
  <2>2. /\ s \in W!StreamState /\ s.queue = Tail(q) /\ s.run = "receiving"
        /\ s.since = stream[c].since /\ s.close = stream[c].close
        /\ s.err = stream[c].err /\ s.gaveUp = stream[c].gaveUp
    BY <1>1, <1>2, <2>1 DEF W!StreamState
  <2>3. stream' = [stream EXCEPT ![c] = s]
    BY <1>3, JobTypes
  <2> HIDE DEF s
  <2> QED BY <1>1, <1>3, <2>2, <2>3, TakeInv
<1>4. CASE /\ q # <<>> /\ Head(q) # 0 /\ UNCHANGED faults
           /\ stream' = [stream EXCEPT ![c].run = "sending", ![c].event = Head(q),
                                       ![c].queue = Tail(q)]
  <2> DEFINE s == [stream[c] EXCEPT !.run = "sending", !.event = Head(q), !.queue = Tail(q)]
  <2>1. Tail(q) \in Seq({0} \union W!EventID) /\ Head(q) \in {0} \union W!EventID
    BY <1>2, <1>4, TailQueue
  <2>2. /\ s \in W!StreamState /\ s.queue = Tail(q) /\ s.run = "sending"
        /\ s.event = Head(q) /\ s.since = stream[c].since /\ s.close = stream[c].close
        /\ s.err = stream[c].err /\ s.gaveUp = stream[c].gaveUp
    BY <1>2, <2>1 DEF W!StreamState
  <2>3. stream' = [stream EXCEPT ![c] = s]
    BY <1>4, JobTypes
  <2> HIDE DEF s
  <2> QED BY <1>1, <1>4, <2>2, <2>3, TakeInv
<1>5. CASE W!End(c, "canceled") /\ UNCHANGED faults
  BY <1>1, <1>5, FaultTypes, EndInv DEF W!Error
<1>6. CASE W!Fault /\ \E err \in {"connection", "eof", "canceled", "other"} : W!End(c, err)
  BY <1>1, <1>6, FaultTypes, EndInv DEF W!Error
<1> QED BY <1>3, <1>4, <1>5, <1>6 DEF W!Recv

-----------------------------------------------------------------------------
(***************************************************************************)
(* An event of the auth server.                                            *)
(***************************************************************************)
\* What an event does to one connection.
LEMMA EventStream ==
  ASSUME ServicesInv, NEW c \in W!Conn, happened < MaxEvents,
         NEW p, p = spawned, NEW s, NEW h, h = happened + 1,
         s = IF Running(stream[c]) /\ ~stream[c].close
               THEN [stream[c] EXCEPT !.queue = Append(@, h)] ELSE stream[c]
  PROVE  /\ s \in W!StreamState /\ s.close = stream[c].close /\ s.err = stream[c].err
         /\ StreamFits(s, h) /\ ClosedFits(s)
         /\ c = watcher.conn => CurrentFits(s, p, h)
         /\ stream[c] = W!NoStream => s = stream[c]
<1> DEFINE q == stream[c].queue
<1>1. /\ stream[c] \in W!StreamState /\ StreamFits(stream[c], happened)
      /\ ClosedFits(stream[c]) /\ happened \in Nat /\ h \in W!EventID /\ h \in Nat
      /\ c = watcher.conn => CurrentFits(stream[c], spawned, happened)
  BY OneStream, ServicesAssumption DEF W!EventID
<1>2. /\ q \in Seq({0} \union W!EventID) /\ stream[c].event \in Nat /\ stream[c].since \in Nat
      /\ \A i \in DOMAIN q : i \in Nat /\ q[i] \in Nat
  BY <1>1, StreamType
<1>3. stream[c] = W!NoStream => s = stream[c]
  BY DEF W!NoStream, Running
<1>4. \A i \in DOMAIN spawned : spawned[i] <= happened
  BY DEF ServicesInv, SpawnedFit
<1>5. \A i \in DOMAIN spawned : spawned[i] \in Nat
  <2>1. spawned \in Seq(W!EventID) /\ W!EventID \subseteq Nat
    BY ServicesAssumption DEF ServicesInv, TypeOK, W!TypeOK, W!EventID
  <2> QED BY <2>1
<1>6. CASE ~(Running(stream[c]) /\ ~stream[c].close)
  <2>1. s = stream[c]
    BY <1>6
  <2>2. StreamFits(s, h)
    <3>1. \A n \in Nat : n <= happened => n <= h
      BY <1>1
    <3>2. /\ \A i, k \in DOMAIN q : i < k => q[i] < q[k]
          /\ \A i \in DOMAIN q : q[i] <= h
          /\ stream[c].since <= h
      BY <1>1, <1>2, <3>1 DEF StreamFits
    <3>3. stream[c].run = "sending" =>
            /\ stream[c].event \in W!EventID /\ stream[c].event <= h
            /\ \A i \in DOMAIN q : stream[c].event < q[i]
      BY <1>1, <1>2, <3>1 DEF StreamFits
    <3> QED BY <2>1, <3>2, <3>3 DEF StreamFits
  <2>3. c = watcher.conn => CurrentFits(s, p, h)
    BY <1>1, <1>6, <2>1 DEF CurrentFits
  <2> QED BY <1>1, <2>1, <2>2, <2>3
<1>7. CASE Running(stream[c]) /\ ~stream[c].close
  <2>1. Append(q, h) \in Seq({0} \union W!EventID)
    BY <1>1, <1>2, AppendQueue
  <2>2. s = [stream[c] EXCEPT !.queue = Append(q, h)]
    BY <1>7
  <2>3. /\ s \in W!StreamState /\ s.queue = Append(q, h) /\ s.run = stream[c].run
        /\ s.event = stream[c].event /\ s.since = stream[c].since
        /\ s.close = stream[c].close /\ s.err = stream[c].err
        /\ s.gaveUp = stream[c].gaveUp
    BY <1>1, <2>1, <2>2 DEF W!StreamState
  <2>4. /\ DOMAIN q = 1..Len(q) /\ Len(q) \in Nat
        /\ DOMAIN s.queue = 1..(Len(q) + 1)
        /\ \A i \in DOMAIN q : s.queue[i] = q[i]
        /\ s.queue[Len(q) + 1] = h
        /\ Range(s.queue) = Range(q) \union {h}
    <3> HIDE DEF q
    <3>1. q \in Seq({0} \union W!EventID) /\ h \in {0} \union W!EventID
      BY <1>1, <1>2
    <3>2. /\ DOMAIN q = 1..Len(q) /\ Len(q) \in Nat
          /\ DOMAIN Append(q, h) = 1..(Len(q) + 1)
          /\ \A i \in DOMAIN q : Append(q, h)[i] = q[i]
          /\ Append(q, h)[Len(q) + 1] = h
          /\ Range(Append(q, h)) = Range(q) \union {h}
      BY <3>1, AppendQueue
    <3> QED BY <2>3, <3>2
  <2> HIDE DEF q
  <2>5. \A i \in DOMAIN s.queue :
          \/ i \in DOMAIN q /\ s.queue[i] = q[i]
          \/ i = Len(q) + 1 /\ s.queue[i] = h
    BY <2>4
  <2>6. StreamFits(s, h)
    <3>1. /\ \A i, k \in DOMAIN q : i < k => q[i] < q[k]
          /\ \A i \in DOMAIN q : q[i] <= happened /\ q[i] < h
          /\ stream[c].since <= happened
          /\ stream[c].run = "sending" =>
               /\ stream[c].event \in W!EventID /\ stream[c].event <= happened
               /\ \A i \in DOMAIN q : stream[c].event < q[i]
      BY <1>1, <1>2 DEF StreamFits, q
    <3>2. \A i, k \in DOMAIN s.queue : i < k => s.queue[i] < s.queue[k]
      <4> SUFFICES ASSUME NEW i \in DOMAIN s.queue, NEW k \in DOMAIN s.queue, i < k
                   PROVE  s.queue[i] < s.queue[k]
        OBVIOUS
      <4>1. i \in DOMAIN q /\ s.queue[i] = q[i]
        BY <2>4
      <4> QED BY <2>5, <3>1, <4>1
    <3>3. \A i \in DOMAIN s.queue : s.queue[i] <= h
      BY <1>1, <1>2, <2>5, <3>1 DEF q
    <3>4. s.since <= h
      BY <1>1, <1>2, <2>3, <3>1
    <3>5. s.run = "sending" => s.event \in W!EventID /\ s.event <= h /\ s.event < h
      BY <1>1, <1>2, <2>3, <3>1
    <3>6. s.run = "sending" => \A i \in DOMAIN s.queue : s.event < s.queue[i]
      BY <2>3, <2>5, <3>1, <3>5
    <3> QED BY <3>2, <3>3, <3>4, <3>5, <3>6 DEF StreamFits
  <2>7. ClosedFits(s)
    BY <1>1, <2>3 DEF ClosedFits
  <2>8. ASSUME c = watcher.conn PROVE CurrentFits(s, p, h)
    <3>1. /\ \A i \in DOMAIN p :
               /\ \A k \in DOMAIN q : q[k] = 0 \/ p[i] < q[k]
               /\ s.run = "sending" => p[i] < s.event
          /\ \A e \in (s.since + 1)..happened :
               \/ e \in Range(p) \union Range(q)
               \/ s.run = "sending" /\ s.event = e
      BY <1>1, <1>7, <2>3, <2>8 DEF CurrentFits, q
    <3>2. \A i \in DOMAIN p : p[i] < h
      BY <1>1, <1>4, <1>5
    <3>3. \A i \in DOMAIN p : \A k \in DOMAIN s.queue : s.queue[k] = 0 \/ p[i] < s.queue[k]
      BY <2>5, <3>1, <3>2
    <3>4. \A e \in (s.since + 1)..h : e = h \/ e \in (s.since + 1)..happened
      BY <1>1, <1>2, <2>3
    <3>5. \A e \in (s.since + 1)..h :
            \/ e \in Range(p) \union Range(s.queue)
            \/ s.run = "sending" /\ s.event = e
      BY <2>4, <3>1, <3>4
    <3> QED BY <3>1, <3>3, <3>5 DEF CurrentFits
  <2> QED BY <1>3, <2>3, <2>6, <2>7, <2>8
<1> QED BY <1>6, <1>7

LEMMA HappenInv ==
  ASSUME ServicesInv, UNCHANGED <<processVars, httpVars>>, W!Happen
  PROVE  ServicesInv'
<1>1. /\ happened < MaxEvents /\ happened' = happened + 1
      /\ UNCHANGED <<watcher, spawned, faults>>
      /\ stream' = [c \in W!Conn |->
           IF Running(stream[c]) /\ ~stream[c].close
             THEN [stream[c] EXCEPT !.queue = Append(@, happened')] ELSE stream[c]]
  BY DEF W!Happen, Running
<1>2. \A c \in W!Conn :
        /\ stream'[c] \in W!StreamState
        /\ stream'[c].close = stream[c].close /\ stream'[c].err = stream[c].err
        /\ StreamFits(stream'[c], happened') /\ ClosedFits(stream'[c])
        /\ c = watcher.conn => CurrentFits(stream'[c], spawned, happened')
        /\ stream[c] = W!NoStream => stream'[c] = stream[c]
  <2> TAKE c \in W!Conn
  <2>1. stream'[c] = IF Running(stream[c]) /\ ~stream[c].close
                       THEN [stream[c] EXCEPT !.queue = Append(@, happened')] ELSE stream[c]
    BY <1>1
  <2> QED BY <1>1, <2>1, EventStream
<1>3. happened \in Nat /\ happened' \in {0} \union W!EventID
  BY <1>1, ServicesAssumption DEF ServicesInv, TypeOK, W!TypeOK, W!EventID
<1>4. TypeOK'
  <2>1. stream' \in [W!Conn -> W!StreamState]
    BY <1>1, <1>2
  <2> QED BY <1>1, <1>3, <2>1 DEF ServicesInv, TypeOK, W!TypeOK, H!TypeOK, processVars, httpVars
<1>5. Paid'
  BY <1>1, <1>2 DEF ServicesInv, Paid
<1>6. Unused'
  BY <1>1, <1>2 DEF ServicesInv, Unused
<1>7. StreamsFit'
  BY <1>1, <1>2 DEF StreamsFit
<1>8. SpawnedFit'
  <2>1. \A i \in DOMAIN spawned : spawned[i] \in Nat
    <3>1. spawned \in Seq(W!EventID) /\ W!EventID \subseteq Nat
      BY ServicesAssumption DEF ServicesInv, TypeOK, W!TypeOK, W!EventID
    <3>2. \A i \in DOMAIN spawned : spawned[i] \in W!EventID
      BY <3>1
    <3> QED BY <3>1, <3>2
  <2>2. \A i \in DOMAIN spawned : spawned[i] <= happened'
    BY <1>1, <1>3, <2>1 DEF ServicesInv, SpawnedFit
  <2> QED BY <1>1, <2>2 DEF ServicesInv, SpawnedFit, W!SpawnedInOrder
<1> QED BY <1>4, <1>5, <1>6, <1>7, <1>8 DEF ServicesInv

-----------------------------------------------------------------------------
(***************************************************************************)
(* The steps of the HTTP job, of the process, and all together.            *)
(***************************************************************************)
LEMMA HttpInv ==
  ASSUME ServicesInv, UNCHANGED <<processVars, watcherVars>>, H!Next
  PROVE  ServicesInv'
<1>1. H!TypeOK
  BY JobTypes
<1>2. H!TypeOK'
  BY <1>1 DEF H!Next, H!TypeOK, H!HttpState, H!At, H!Open, H!Register, H!Listen, H!Serve,
              H!ServeReturns, H!CloseServer, H!Shutdown, H!ShutdownReturns, H!Accept, H!Answer
<1>3. Paid'
  BY DEF ServicesInv, Paid, watcherVars
<1> QED BY <1>2, <1>3, JobTypes, QuietStep DEF processVars, watcherVars

LEMMA FlagsInv ==
  ASSUME ServicesInv, Terminate \/ Close \/ CriticalJobFails \/ UNCHANGED vars
  PROVE  ServicesInv'
<1>1. /\ UNCHANGED <<watcherVars, httpVars>>
      /\ terminated' \in BOOLEAN /\ closed' \in BOOLEAN
  BY JobTypes DEF Terminate, Close, CriticalJobFails, vars, processVars
<1>2. H!TypeOK'
  BY <1>1, JobTypes DEF H!TypeOK, httpVars
<1>3. Paid'
  BY <1>1 DEF ServicesInv, Paid, watcherVars
<1> QED BY <1>1, <1>2, <1>3, JobTypes, QuietStep DEF watcherVars

LEMMA ServicesInit ==
  ASSUME Init
  PROVE  ServicesInv
<1>1. /\ watcher = [pc |-> "start", conn |-> 0, cancel |-> FALSE, callback |-> "none"]
      /\ stream = [c \in W!Conn |-> W!NoStream]
      /\ happened = 0 /\ spawned = <<>> /\ faults = 0
      /\ W!NoStream \in W!StreamState /\ DOMAIN spawned = {} /\ MaxFaults \in Nat
  BY NewStream, ServicesAssumption DEF Init, W!Init
<1>2. TypeOK
  <2>1. /\ spawned \in Seq(W!EventID) /\ faults \in 0..MaxFaults
        /\ stream \in [W!Conn -> W!StreamState]
    BY <1>1
  <2>2. watcher \in W!WatcherState
    BY <1>1 DEF W!WatcherState
  <2>3. W!TypeOK
    BY <1>1, <2>1, <2>2 DEF Init, W!TypeOK
  <2>4. H!TypeOK
    BY DEF Init, H!Init, H!TypeOK, H!HttpState
  <2> QED BY <2>3, <2>4 DEF TypeOK
<1>3. Paid /\ Unused
  BY <1>1 DEF Paid, Unused
<1>4. StreamsFit
  BY <1>1, NewStream DEF StreamsFit
<1>5. SpawnedFit
  BY <1>1 DEF SpawnedFit, W!SpawnedInOrder
<1> QED BY <1>2, <1>3, <1>4, <1>5 DEF ServicesInv

LEMMA ServicesNext ==
  ASSUME ServicesInv, [Next]_vars
  PROVE  ServicesInv'
<1>1. CASE W!Next /\ UNCHANGED <<processVars, httpVars>>
  BY <1>1, RegisterInv, WatchRequestsInv, WaitInitInv, EventLoopInv, WatchEventsInv,
     RecvInv, HappenInv DEF W!Next, W!JobStep, W!Run
<1>2. CASE H!Next /\ UNCHANGED <<processVars, watcherVars>>
  BY <1>2, HttpInv
<1>3. CASE Terminate \/ Close \/ CriticalJobFails \/ UNCHANGED vars
  BY <1>3, FlagsInv
<1> QED BY <1>1, <1>2, <1>3 DEF Next

(***************************************************************************)
(* The inductive invariant holds in every behaviour of the two jobs.       *)
(***************************************************************************)
THEOREM ServicesInvariant == Spec => []ServicesInv
<1>1. Init => ServicesInv
  BY ServicesInit
<1>2. ServicesInv /\ [Next]_vars => ServicesInv'
  BY ServicesNext
<1> QED BY <1>1, <1>2, PTL DEF Spec

(***************************************************************************)
(* The state of both jobs and of the connections has its type; there are   *)
(* never more connections than one and one for every fault.                *)
(***************************************************************************)
THEOREM ServicesTypeCorrect == Spec => []TypeOK
<1>1. ServicesInv => TypeOK
  BY DEF ServicesInv
<1> QED BY <1>1, ServicesInvariant, PTL

(***************************************************************************)
(* Handlers are spawned in the order of the events and never twice for one *)
(* event, however often the watcher connects again.                        *)
(***************************************************************************)
THEOREM OrderCorrect == Spec => []SpawnedInOrder
<1>1. ServicesInv => SpawnedInOrder
  BY DEF ServicesInv, SpawnedFit, SpawnedInOrder
<1> QED BY <1>1, ServicesInvariant, PTL

(***************************************************************************)
(* While a connection lasts every event since the server began to send on  *)
(* it has a handler or is on its way.                                      *)
(***************************************************************************)
THEOREM NothingMissedCorrect == Spec => []NothingMissed
<1>1. ServicesInv => NothingMissed
  <2> SUFFICES ASSUME ServicesInv, watcher.pc = "loop", Running(stream[watcher.conn]),
                      NEW e \in (stream[watcher.conn].since + 1)..happened
               PROVE  \/ e \in Range(spawned) \union Range(stream[watcher.conn].queue)
                      \/ /\ stream[watcher.conn].run = "sending"
                         /\ stream[watcher.conn].event = e
    BY DEF NothingMissed, W!NothingMissed, W!At, Running, Range, W!Range
  <2>1. watcher.conn \in W!Conn /\ ~stream[watcher.conn].close
    BY DEF ServicesInv, Paid
  <2>2. CurrentFits(stream[watcher.conn], spawned, happened)
    BY <2>1, OneStream
  <2> QED BY <2>1, <2>2 DEF CurrentFits
<1> QED BY <1>1, ServicesInvariant, PTL

(***************************************************************************)
(* The goroutine of a connection that is not in use any more is stuck with *)
(* an event only if the job gave up waiting for its first message.         *)
(***************************************************************************)
THEOREM StuckCorrect == Spec => []StuckOnlyIfGivenUp
<1>1. ServicesInv => StuckOnlyIfGivenUp
  BY DEF ServicesInv, StreamsFit, ClosedFits, StuckOnlyIfGivenUp, W!StuckOnlyIfGivenUp
<1> QED BY <1>1, ServicesInvariant, PTL
-----------------------------------------------------------------------------
(***************************************************************************)
(* The parts of the liveness properties that need no fairness.  The        *)
(* invariant adds what the callbacks have done, and how a connection       *)
(* opens.                                                                  *)
(***************************************************************************)
\* A job that has registered has a callback, and a callback leaves its flag.
CallbacksFit ==
  /\ watcher.pc # "start" => watcher.callback # "none"
  /\ watcher.callback = "called" => watcher.cancel
  /\ http.pc # "start" => http.callback # "none"
  /\ http.callback \in {"running", "returned"} => http.shutdown

\* A server that was closed has no connection left.
CutFits == http.cut => H!Open = {}

\* Before the first message was received it is the next one to come.
FirstIsFirst(s) ==
  /\ s.run = "receiving" /\ ~s.init => s.queue # <<>> /\ Head(s.queue) = 0
  /\ s.run = "sending" => s.init

\* The connection in use has its goroutine.
GoroutineRuns ==
  watcher.pc \in {"waiting", "loop"} => stream[watcher.conn].run # "none"

GoOnInv ==
  /\ CallbacksFit /\ CutFits /\ GoroutineRuns
  /\ \A c \in W!Conn : FirstIsFirst(stream[c])

\* One connection changes, and not back to one that was never made.
LEMMA OneStreamGoesOn ==
  ASSUME ServicesInv, GoOnInv, UNCHANGED httpVars, CallbacksFit',
         NEW c \in W!Conn, NEW s, FirstIsFirst(s), s.run # "none",
         stream' = [stream EXCEPT ![c] = s],
         watcher'.conn = c \/ UNCHANGED watcher \/ watcher'.pc \notin {"waiting", "loop"}
  PROVE  GoOnInv'
<1>1. stream \in [W!Conn -> W!StreamState]
  BY JobTypes
<1>2. \A d \in W!Conn : stream'[d] = IF d = c THEN s ELSE stream[d]
  BY <1>1
<1>3. CutFits'
  BY DEF GoOnInv, CutFits, H!Open, httpVars
<1>4. GoroutineRuns'
  <2>1. CASE watcher'.conn = c
    BY <1>2, <2>1 DEF GoroutineRuns
  <2>2. CASE UNCHANGED watcher
    <3>1. watcher.pc \in {"waiting", "loop"} => watcher.conn \in W!Conn
      BY DEF ServicesInv, Paid
    <3> QED BY <1>2, <2>2, <3>1 DEF GoOnInv, GoroutineRuns
  <2>3. CASE watcher'.pc \notin {"waiting", "loop"}
    BY <2>3 DEF GoroutineRuns
  <2> QED BY <2>1, <2>2, <2>3
<1>5. \A d \in W!Conn : FirstIsFirst(stream'[d])
  BY <1>2 DEF GoOnInv
<1> QED BY <1>3, <1>4, <1>5 DEF GoOnInv

\* The event loop returns.
LEMMA EndLoopGoesOn ==
  ASSUME ServicesInv, GoOnInv, UNCHANGED httpVars,
         watcher.pc \in {"waiting", "loop"}, NEW err, NEW gaveUp \in BOOLEAN,
         W!EndLoop(err, gaveUp)
  PROVE  GoOnInv'
<1> DEFINE s == [stream[watcher.conn] EXCEPT !.close = TRUE, !.gaveUp = gaveUp]
<1>1. /\ watcher.conn \in W!Conn /\ stream[watcher.conn] \in W!StreamState
      /\ stream \in [W!Conn -> W!StreamState] /\ watcher \in W!WatcherState
  BY JobTypes DEF ServicesInv, Paid
<1>2. stream' = [stream EXCEPT ![watcher.conn] = s]
  BY <1>1 DEF W!EndLoop, W!StreamState
<1>3. /\ s.run = stream[watcher.conn].run /\ s.init = stream[watcher.conn].init
      /\ s.queue = stream[watcher.conn].queue
  BY <1>1 DEF W!StreamState
<1> HIDE DEF s
<1>4. FirstIsFirst(s) /\ s.run # "none"
  BY <1>1, <1>3 DEF GoOnInv, GoroutineRuns, FirstIsFirst
<1>5. /\ watcher'.conn = watcher.conn /\ watcher'.callback = watcher.callback
      /\ watcher'.cancel = watcher.cancel
  BY <1>1 DEF W!EndLoop, W!WatcherState
<1>6. CallbacksFit'
  BY <1>1, <1>5 DEF GoOnInv, CallbacksFit, httpVars
<1> QED BY <1>1, <1>2, <1>4, <1>5, <1>6, OneStreamGoesOn

\* Only the job moves, and stays at the connection it has.
LEMMA QuietGoesOn ==
  ASSUME GoOnInv, UNCHANGED <<httpVars, stream>>, CallbacksFit',
         watcher'.conn = watcher.conn,
         watcher'.pc \in {"waiting", "loop"} => watcher.pc \in {"waiting", "loop"}
  PROVE  GoOnInv'
BY DEF GoOnInv, CutFits, GoroutineRuns, H!Open, httpVars

LEMMA JobGoesOn ==
  ASSUME ServicesInv, GoOnInv, UNCHANGED <<processVars, httpVars>>, W!JobStep \/ W!Cancel
  PROVE  GoOnInv'
<1>1. /\ watcher \in W!WatcherState /\ stream \in [W!Conn -> W!StreamState]
      /\ watcher.pc \in {"waiting", "loop"} => watcher.conn \in W!Conn
  BY JobTypes DEF ServicesInv, Paid
<1>2. CASE W!Register
  BY <1>1, <1>2, QuietGoesOn
     DEF W!Register, W!At, W!WatcherState, GoOnInv, CallbacksFit, httpVars
<1>3. CASE W!Cancel
  BY <1>1, <1>3, QuietGoesOn
     DEF W!Cancel, W!WatcherState, GoOnInv, CallbacksFit, httpVars
<1>4. CASE W!WatchRequests
  <2> DEFINE c == watcher.conn + 1
             s == [stream[c] EXCEPT !.run = "dialing"]
  <2>1. c \in W!Conn /\ watcher'.conn = c
    <3>1. watcher.conn <= faults /\ faults \in 0..MaxFaults /\ watcher.conn \in Nat
      BY <1>1, <1>4, JobTypes, ServicesAssumption
         DEF ServicesInv, Paid, TypeOK, W!TypeOK, W!WatchRequests, W!At, W!WatcherState, W!Conn
    <3>2. c \in W!Conn
      BY <3>1, ServicesAssumption DEF W!Conn
    <3> QED BY <1>1, <1>4, <3>2 DEF W!WatchRequests, W!WatcherState
  <2>2. stream' = [stream EXCEPT ![c] = s]
    BY <1>4 DEF W!WatchRequests
  <2>3. FirstIsFirst(s) /\ s.run # "none"
    BY <1>1, <2>1 DEF FirstIsFirst, W!StreamState
  <2>4. CallbacksFit'
    BY <1>1, <1>4 DEF W!WatchRequests, W!At, W!WatcherState, GoOnInv, CallbacksFit, httpVars
  <2> QED BY <2>1, <2>2, <2>3, <2>4, OneStreamGoesOn
<1>5. CASE W!WaitInit
  <2>1. watcher.pc = "waiting"
    BY <1>5 DEF W!WaitInit, W!At
  <2>2. CASE watcher' = [watcher EXCEPT !.pc = "loop"] /\ UNCHANGED stream
    BY <1>1, <2>1, <2>2, QuietGoesOn DEF W!WatcherState, GoOnInv, CallbacksFit, httpVars
  <2>3. CASE \E err \in W!Error, gaveUp \in BOOLEAN : W!EndLoop(err, gaveUp)
    BY <2>1, <2>3, EndLoopGoesOn
  <2>4. stream[watcher.conn].err \in W!Error
    BY <1>1, <2>1 DEF W!StreamState
  <2>5. {"connection", "canceled"} \subseteq W!Error
    BY DEF W!Error
  <2>6. \/ watcher' = [watcher EXCEPT !.pc = "loop"] /\ UNCHANGED stream
        \/ W!EndLoop("connection", TRUE) \/ W!EndLoop("canceled", TRUE)
        \/ W!EndLoop(stream[watcher.conn].err, FALSE)
    BY <1>5 DEF W!WaitInit
  <2> QED BY <2>2, <2>3, <2>4, <2>5, <2>6
<1>6. CASE W!eventLoop
  <2> DEFINE c == watcher.conn
             s == [stream[c] EXCEPT !.run = "receiving", !.event = 0]
  <2>1. watcher.pc = "loop"
    BY <1>6 DEF W!eventLoop, W!At
  <2>2. CASE W!EndLoop(stream[c].err, FALSE)
    BY <2>1, <2>2, EndLoopGoesOn
  <2>3. CASE /\ stream[c].run = "sending" /\ UNCHANGED watcher
             /\ stream' = [stream EXCEPT ![c].run = "receiving", ![c].event = 0]
    <3>1. c \in W!Conn /\ stream[c] \in W!StreamState
      BY <1>1, <2>1
    <3>2. stream' = [stream EXCEPT ![c] = s]
      BY <1>1, <2>3, <3>1
    <3>3. s.run = "receiving" /\ s.init = stream[c].init
      BY <3>1 DEF W!StreamState
    <3>4. FirstIsFirst(s)
      BY <2>3, <3>1, <3>3 DEF GoOnInv, FirstIsFirst
    <3>5. CallbacksFit'
      BY <2>3 DEF GoOnInv, CallbacksFit, httpVars
    <3> QED BY <2>3, <3>1, <3>2, <3>3, <3>4, <3>5, OneStreamGoesOn
  <2> QED BY <1>6, <2>2, <2>3 DEF W!eventLoop
<1> QED BY <1>2, <1>3, <1>4, <1>5, <1>6 DEF W!JobStep

\* The goroutine of a connection.
LEMMA RunGoesOn ==
  ASSUME ServicesInv, GoOnInv, UNCHANGED <<processVars, httpVars>>,
         NEW c \in W!Conn, W!Run(c)
  PROVE  GoOnInv'
<1> DEFINE q == stream[c].queue
<1>1. /\ stream \in [W!Conn -> W!StreamState] /\ stream[c] \in W!StreamState
      /\ FirstIsFirst(stream[c]) /\ UNCHANGED watcher
  BY JobTypes DEF GoOnInv, W!Run, W!WatchEvents, W!Recv
<1>2. CallbacksFit'
  BY <1>1 DEF GoOnInv, CallbacksFit, httpVars
<1>3. ASSUME NEW s, FirstIsFirst(s), s.run # "none", stream' = [stream EXCEPT ![c] = s]
      PROVE  GoOnInv'
  BY <1>1, <1>2, <1>3, OneStreamGoesOn
<1>4. ASSUME NEW err, W!End(c, err)
      PROVE  GoOnInv'
  <2> DEFINE s == [W!NoStream EXCEPT !.run = "ended", !.err = err, !.close = stream[c].close]
  <2>1. FirstIsFirst(s) /\ s.run # "none"
    BY DEF FirstIsFirst, W!NoStream
  <2>2. stream' = [stream EXCEPT ![c] = s]
    BY <1>4 DEF W!End
  <2> QED BY <1>3, <2>1, <2>2
<1>5. CASE stream' = [stream EXCEPT ![c].run = "receiving", ![c].queue = <<0>>,
                                    ![c].since = happened]
  <2> DEFINE s == [stream[c] EXCEPT !.run = "receiving", !.queue = <<0>>, !.since = happened]
  <2>1. s.run = "receiving" /\ s.queue = <<0>>
    BY <1>1 DEF W!StreamState
  <2>2. FirstIsFirst(s)
    BY <2>1 DEF FirstIsFirst
  <2>3. stream' = [stream EXCEPT ![c] = s]
    BY <1>1, <1>5
  <2> QED BY <1>3, <2>1, <2>2, <2>3
<1>6. CASE stream' = [stream EXCEPT ![c].init = TRUE, ![c].queue = Tail(q)]
           /\ stream[c].run = "receiving"
  <2> DEFINE s == [stream[c] EXCEPT !.init = TRUE, !.queue = Tail(q)]
  <2>1. s.run = "receiving" /\ s.init
    BY <1>1, <1>6 DEF W!StreamState
  <2>2. stream' = [stream EXCEPT ![c] = s]
    BY <1>1, <1>6
  <2> QED BY <1>3, <2>1, <2>2 DEF FirstIsFirst
<1>7. CASE /\ stream' = [stream EXCEPT ![c].run = "sending", ![c].event = Head(q),
                                       ![c].queue = Tail(q)]
           /\ stream[c].run = "receiving" /\ Head(q) # 0
  <2> DEFINE s == [stream[c] EXCEPT !.run = "sending", !.event = Head(q), !.queue = Tail(q)]
  <2>1. s.run = "sending" /\ s.init = stream[c].init
    BY <1>1 DEF W!StreamState
  <2>2. stream[c].init
    BY <1>1, <1>7 DEF FirstIsFirst, W!StreamState
  <2>3. stream' = [stream EXCEPT ![c] = s]
    BY <1>1, <1>7
  <2> QED BY <1>3, <2>1, <2>2, <2>3 DEF FirstIsFirst
<1>8. CASE W!WatchEvents(c)
  BY <1>4, <1>5, <1>8 DEF W!WatchEvents
<1>9. CASE W!Recv(c)
  BY <1>4, <1>6, <1>7, <1>9 DEF W!Recv
<1> QED BY <1>8, <1>9 DEF W!Run

\* An event goes to the end of the queues.
LEMMA HappenGoesOn ==
  ASSUME ServicesInv, GoOnInv, UNCHANGED <<processVars, httpVars>>, W!Happen
  PROVE  GoOnInv'
<1>1. \A c \in W!Conn :
        /\ stream[c] \in W!StreamState
        /\ stream'[c] = IF stream[c].run \in {"receiving", "sending"} /\ ~stream[c].close
                          THEN [stream[c] EXCEPT !.queue = Append(@, happened + 1)]
                          ELSE stream[c]
  BY JobTypes DEF W!Happen
<1>2. UNCHANGED watcher /\ happened + 1 \in W!EventID
  BY JobTypes, ServicesAssumption DEF W!Happen, ServicesInv, TypeOK, W!TypeOK, W!EventID
<1>3. \A c \in W!Conn :
        FirstIsFirst(stream'[c]) /\ (stream[c].run # "none" => stream'[c].run # "none")
  <2> TAKE c \in W!Conn
  <2> DEFINE q == stream[c].queue
             n == Append(q, happened + 1)
  <2>1. FirstIsFirst(stream[c]) /\ q \in Seq({0} \union W!EventID)
    BY <1>1, StreamType DEF GoOnInv
  <2>2. q # <<>> => n # <<>> /\ Head(n) = Head(q)
    BY <1>2, <2>1
  <2>3. CASE stream'[c] = stream[c]
    BY <2>1, <2>3
  <2>4. CASE stream'[c] = [stream[c] EXCEPT !.queue = n]
    <3>1. /\ stream'[c].run = stream[c].run /\ stream'[c].init = stream[c].init
          /\ stream'[c].queue = n
      BY <1>1, <2>4 DEF W!StreamState
    <3> HIDE DEF n
    <3> QED BY <2>1, <2>2, <3>1 DEF FirstIsFirst
  <2> QED BY <1>1, <2>3, <2>4
<1>4. GoroutineRuns'
  BY <1>2, <1>3 DEF ServicesInv, Paid, GoOnInv, GoroutineRuns
<1>5. CallbacksFit' /\ CutFits'
  BY <1>2 DEF GoOnInv, CallbacksFit, CutFits, H!Open, httpVars
<1> QED BY <1>3, <1>4, <1>5 DEF GoOnInv

LEMMA HttpGoesOn ==
  ASSUME ServicesInv, GoOnInv, UNCHANGED <<processVars, watcherVars>>, H!Next
  PROVE  GoOnInv'
<1>1. http \in H!HttpState /\ UNCHANGED <<watcher, stream>>
  BY JobTypes DEF H!TypeOK, watcherVars
<1>2. CallbacksFit'
  BY <1>1 DEF GoOnInv, CallbacksFit, H!HttpState, H!Next, H!At, H!Register, H!Listen, H!Serve,
              H!ServeReturns, H!CloseServer, H!Shutdown, H!ShutdownReturns, H!Accept, H!Answer
<1>3. CutFits'
  <2>1. CASE H!CloseServer
    <3>1. \A r \in Connection : connection'[r] # "open"
      BY <2>1 DEF H!CloseServer, H!Open
    <3> QED BY <3>1 DEF CutFits, H!Open
  <2>2. CASE \E r \in Connection : H!Accept(r)
    BY <2>2 DEF H!Accept, CutFits
  <2>3. CASE \E r \in Connection : H!Answer(r)
    BY <2>3, JobTypes DEF H!Answer, H!TypeOK, GoOnInv, CutFits, H!Open
  <2>4. CASE \/ H!Register \/ H!Listen \/ H!Serve \/ H!ServeReturns
             \/ H!Shutdown \/ H!ShutdownReturns
    BY <1>1, <2>4 DEF GoOnInv, CutFits, H!Open, H!HttpState, H!Register, H!Listen, H!Serve,
                      H!ServeReturns, H!Shutdown, H!ShutdownReturns
  <2> QED BY <2>1, <2>2, <2>3, <2>4 DEF H!Next
<1> QED BY <1>1, <1>2, <1>3 DEF GoOnInv, GoroutineRuns

LEMMA GoOnInvariant == Spec => []GoOnInv
<1>1. Init => GoOnInv
  BY DEF Init, W!Init, H!Init, GoOnInv, CallbacksFit, CutFits, GoroutineRuns, FirstIsFirst,
         W!NoStream
<1>2. ServicesInv /\ GoOnInv /\ [Next]_vars => GoOnInv'
  <2> SUFFICES ASSUME ServicesInv, GoOnInv, [Next]_vars PROVE GoOnInv'
    OBVIOUS
  <2>1. CASE W!Next /\ UNCHANGED <<processVars, httpVars>>
    BY <2>1, JobGoesOn, RunGoesOn, HappenGoesOn DEF W!Next
  <2>2. CASE H!Next /\ UNCHANGED <<processVars, watcherVars>>
    BY <2>2, HttpGoesOn
  <2>3. CASE Terminate \/ Close \/ CriticalJobFails \/ UNCHANGED vars
    BY <2>3 DEF Terminate, Close, CriticalJobFails, vars, watcherVars, httpVars, GoOnInv,
                CallbacksFit, CutFits, GoroutineRuns, H!Open
  <2> QED BY <2>1, <2>2, <2>3 DEF Next
<1> QED BY <1>1, <1>2, ServicesInvariant, PTL DEF Spec

(***************************************************************************)
(* The first message of a connection is the first thing the job hears of   *)
(* it: no event is handed on before it was received, and while the job     *)
(* waits for it the connection is being made, was lost, or the message is  *)
(* here or next in the stream.  The wait hangs on the server only, not on  *)
(* an event that took the place of the message.                            *)
(***************************************************************************)
FirstMessageFirst ==
  /\ \A c \in W!Conn : stream[c].run = "sending" => stream[c].init
  /\ watcher.pc = "waiting" =>
       LET s == stream[watcher.conn] IN
       \/ s.init \/ s.run \in {"dialing", "ended"}
       \/ s.run = "receiving" /\ s.queue # <<>> /\ Head(s.queue) = 0

THEOREM FirstMessageFirstCorrect == Spec => []FirstMessageFirst
<1>1. ASSUME ServicesInv, GoOnInv
      PROVE  FirstMessageFirst
  <2>1. \A c \in W!Conn : stream[c].run = "sending" => stream[c].init
    BY <1>1 DEF GoOnInv, FirstIsFirst
  <2>2. ASSUME watcher.pc = "waiting"
        PROVE  LET s == stream[watcher.conn] IN
               \/ s.init \/ s.run \in {"dialing", "ended"}
               \/ s.run = "receiving" /\ s.queue # <<>> /\ Head(s.queue) = 0
    <3>1. watcher.conn \in W!Conn
      BY <1>1, <2>2 DEF ServicesInv, Paid
    <3>2. stream[watcher.conn] \in W!StreamState /\ FirstIsFirst(stream[watcher.conn])
          /\ stream[watcher.conn].run # "none"
      BY <1>1, <2>2, <3>1, JobTypes DEF GoOnInv, GoroutineRuns
    <3> QED BY <3>2 DEF FirstIsFirst, W!StreamState
  <2> QED BY <2>1, <2>2 DEF FirstMessageFirst
<1> QED BY <1>1, ServicesInvariant, GoOnInvariant, PTL

(***************************************************************************)
(* The part of ServicesStop that needs no fairness: after the termination  *)
(* neither job waits for what nobody will do.  Until the watcher job has   *)
(* ended and its callback was called, the job, its callback or the         *)
(* goroutine of its connection has a step that needs no server and no      *)
(* time-out; until the HTTP job has ended, its callback has returned and   *)
(* no connection is open, so has the job, its callback or the goroutine    *)
(* that closes the server.                                                 *)
(***************************************************************************)
WatcherStopped == watcher.pc \in {"failed", "done"} /\ watcher.callback = "called"

WatcherActs ==
  \/ watcher.pc \in {"start", "connect"} \/ watcher.callback = "listed"
  \/ /\ watcher.pc = "waiting"
     /\ W!CtxDone \/ stream[watcher.conn].run = "ended"
  \/ /\ watcher.pc = "loop"
     /\ \/ stream[watcher.conn].run \in {"sending", "ended"}
        \/ stream[watcher.conn].run \in {"dialing", "receiving"}
           /\ W!StreamDone(watcher.conn)

HttpStopped == H!Returned /\ http.callback = "returned" /\ H!Open = {}

HttpActs ==
  \/ http.pc \in {"start", "listen", "serve"} \/ http.callback \in {"listed", "running"}
  \/ http.pc = "serving" /\ (http.shutdown \/ http.cut)
  \/ http.pc # "start" /\ H!CtxDone /\ ~http.cut

StopNeverStuck ==
  terminated => (WatcherStopped \/ WatcherActs) /\ (HttpStopped \/ HttpActs)

THEOREM StopNeverStuckCorrect == Spec => []StopNeverStuck
<1>1. ASSUME ServicesInv, GoOnInv
      PROVE  WatcherStopped \/ WatcherActs
  <2>1. watcher \in W!WatcherState
    BY <1>1, JobTypes
  <2>2. CASE watcher.pc \in {"start", "connect"} \/ watcher.callback = "listed"
    BY <2>2 DEF WatcherActs
  <2>3. CASE watcher.pc \notin {"start", "connect"} /\ watcher.callback # "listed"
    <3>1. watcher.callback = "called" /\ watcher.cancel
      BY <1>1, <2>1, <2>3 DEF GoOnInv, CallbacksFit, W!WatcherState
    <3>2. CASE watcher.pc \in {"failed", "done"}
      BY <3>1, <3>2 DEF WatcherStopped
    <3>3. CASE watcher.pc = "waiting"
      BY <3>1, <3>3 DEF WatcherActs, W!CtxDone
    <3>4. CASE watcher.pc = "loop"
      <4>1. watcher.conn \in W!Conn
        BY <1>1, <3>4 DEF ServicesInv, Paid
      <4>2. stream[watcher.conn] \in W!StreamState /\ stream[watcher.conn].run # "none"
        BY <1>1, <3>4, <4>1, JobTypes DEF GoOnInv, GoroutineRuns
      <4>3. stream[watcher.conn].run \in {"sending", "ended", "dialing", "receiving"}
        BY <4>2 DEF W!StreamState
      <4> QED BY <3>1, <3>4, <4>3 DEF WatcherActs, W!StreamDone, W!CtxDone
    <3> QED BY <2>1, <2>3, <3>2, <3>3, <3>4 DEF W!WatcherState
  <2> QED BY <2>2, <2>3
<1>2. ASSUME ServicesInv, GoOnInv
      PROVE  HttpStopped \/ HttpActs
  <2>1. http \in H!HttpState
    BY <1>2, JobTypes DEF H!TypeOK
  <2>2. CASE http.pc = "serving"
    BY <1>2, <2>1, <2>2 DEF GoOnInv, CallbacksFit, H!HttpState, HttpActs
  <2>3. CASE H!Returned
    BY <1>2, <2>1, <2>3 DEF GoOnInv, CallbacksFit, CutFits, H!HttpState, H!Returned, H!CtxDone,
                            HttpActs, HttpStopped
  <2> QED BY <2>1, <2>2, <2>3 DEF H!HttpState, H!Returned, HttpActs
<1>3. ServicesInv /\ GoOnInv => StopNeverStuck
  BY <1>1, <1>2 DEF StopNeverStuck
<1> QED BY <1>3, ServicesInvariant, GoOnInvariant, PTL
=============================================================================
