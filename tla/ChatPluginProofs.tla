--------------------------- MODULE ChatPluginProofs --------------------------
(***************************************************************************)
(* Proofs about ChatPlugin, for any sets of requests, channels, handlers   *)
(* and timestamps and any bounds.  The argument: a handler is about one    *)
(* request from its start to its end (HandlerTrue), works only with        *)
(* messages about it (DataIsOwn) and shows only a status that the request  *)
(* has had when its event was sent; the history of a request only grows.   *)
(* The second part counts the messages, the third follows a request for    *)
(* which nothing went wrong.                                               *)
(***************************************************************************)
EXTENDS ChatPlugin, Counting, TLAPS

\* What the control state of a handler says about its locals.
HandlerTrue ==
  \A h \in Handler :
    IF handler[h].pc = "idle" THEN handler[h] = Idle
    ELSE /\ handler[h].req \in Request
         /\ handler[h].status \in history[handler[h].req]
         /\ handler[h].pc \in {"recipients", "posting", "saving"}
              <=> handler[h].status = "PENDING"

\* A message that was never posted has its first status.
FreshPending == \A m \in Message : about[m] = Nobody => shown[m] = "PENDING"

\* The part of DataIsOwn about the handlers, without the idle ones.
HandlerDataOwn ==
  \A h \in Handler : \A m \in handler[h].data : about[m] = handler[h].req

ChatInv ==
  /\ TypeOK
  /\ HandlerTrue
  /\ FreshPending
  /\ ShownIsTrue
  /\ HandlerDataOwn
  /\ \A r \in Request : \A m \in pluginData[r] : about[m] = r

-----------------------------------------------------------------------------
(***************************************************************************)
(* The record of a handler without work, and of one that starts.           *)
(***************************************************************************)
LEMMA HandlerRecords ==
  /\ Idle \in HandlerState
  /\ \A r \in Request, s \in Status :
       /\ Spawned(r, s) \in HandlerState
       /\ Spawned(r, s).req = r
       /\ Spawned(r, s).status = s
       /\ Spawned(r, s).data = {}
       /\ Spawned(r, s).pc = IF s = "PENDING" THEN "recipients" ELSE "reading"
BY DEF Idle, HandlerState, Spawned, Status, Resolution

(***************************************************************************)
(* The status of a request in each of its states.                          *)
(***************************************************************************)
LEMMA StatusType ==
  \A s \in {"pending", "approved", "denied", "deleted"} :
    /\ StatusOf(s) \in Status
    /\ StatusOf(s) = "PENDING" <=> s = "pending"
BY DEF StatusOf, Status, Resolution

(***************************************************************************)
(* The excuses of a request stay within the list.                          *)
(***************************************************************************)
LEMMA BlameType ==
  ASSUME TypeOK, NEW r \in Request, NEW what \in SUBSET Excuse, Blame(r, what)
  PROVE  excuses' \in [Request -> SUBSET Excuse]
BY DEF TypeOK, Blame

(***************************************************************************)
(* Every step on the auth server keeps the invariant: the status of the    *)
(* event enters the history before a handler is spawned with it.           *)
(***************************************************************************)
LEMMA ChangeInv ==
  ASSUME ChatInv, NEW r \in Request,
         NEW from \in SUBSET {"none", "pending", "approved", "denied"},
         NEW to \in {"pending", "approved", "denied", "deleted"},
         Change(r, from, to)
  PROVE  ChatInv'
<1> DEFINE st == StatusOf(to)
<1>1. st \in Status
  BY StatusType
<1>2. /\ history' = [history EXCEPT ![r] = @ \union {st}]
      /\ \A q \in Request : history[q] \subseteq history'[q]
      /\ st \in history'[r]
      /\ history' \in [Request -> SUBSET Status]
  BY <1>1 DEF Change, ChatInv, TypeOK
<1>3. UNCHANGED <<pluginData, about, shown, connected, faults>>
  BY DEF Change, chatVars
<1>4. /\ state' \in [Request -> {"none", "pending", "approved", "denied", "deleted"}]
      /\ pendingEvents' \in [Request -> Nat]
  BY DEF Change, ChatInv, TypeOK
<1>5. \/ handler' = handler
      \/ \E h \in Handler : handler[h] = Idle /\ handler' = [handler EXCEPT ![h] = Spawned(r, st)]
  BY DEF Change, onWatcherEvent
<1>6. excuses' \in [Request -> SUBSET Excuse]
  <2>1. \E what \in SUBSET {"overlap", "reposted", "event lost"} : Blame(r, what)
    BY DEF Change, onWatcherEvent
  <2>2. {"overlap", "reposted", "event lost"} \subseteq Excuse
    BY DEF Excuse
  <2> QED BY <2>1, <2>2, BlameType DEF ChatInv
<1>7. handler' \in [Handler -> HandlerState]
  BY <1>1, <1>5, HandlerRecords DEF ChatInv, TypeOK
<1>8. TypeOK'
  BY <1>2, <1>3, <1>4, <1>6, <1>7 DEF ChatInv, TypeOK
<1>9. HandlerTrue'
  <2>1. CASE handler' = handler
    BY <1>2, <2>1 DEF ChatInv, HandlerTrue, TypeOK, HandlerState
  <2>2. ASSUME NEW h \in Handler, handler' = [handler EXCEPT ![h] = Spawned(r, st)]
        PROVE  HandlerTrue'
    <3>1. handler'[h] = Spawned(r, st)
      BY <2>2 DEF ChatInv, TypeOK
    <3>2. \A g \in Handler \ {h} : handler'[g] = handler[g]
      BY <2>2 DEF ChatInv, TypeOK
    <3> QED BY <1>1, <1>2, <3>1, <3>2, HandlerRecords DEF ChatInv, HandlerTrue
  <2> QED BY <1>5, <2>1, <2>2
<1>10. HandlerDataOwn'
  BY <1>1, <1>3, <1>5, HandlerRecords DEF ChatInv, TypeOK, HandlerDataOwn
<1>11. FreshPending' /\ ShownIsTrue'
  BY <1>2, <1>3 DEF ChatInv, TypeOK, FreshPending, ShownIsTrue
<1> QED BY <1>3, <1>8, <1>9, <1>10, <1>11 DEF ChatInv

-----------------------------------------------------------------------------
(***************************************************************************)
(* A step of a handler that ends it, or moves it on without touching the   *)
(* stores, keeps the invariant.                                            *)
(***************************************************************************)
LEMMA MoveInv ==
  ASSUME ChatInv, NEW h \in Handler, NEW new \in HandlerState,
         Goto(h, new),
         UNCHANGED <<authVars, chatVars, connected>>,
         pluginData' \in [Request -> SUBSET Message],
         \A r \in Request : \A m \in pluginData'[r] : about[m] = r,
         excuses' \in [Request -> SUBSET Excuse], faults' \in Nat,
         \/ new = Idle
         \/ /\ handler[h].pc # "idle"  /\ new.pc # "idle"
            /\ new.req = handler[h].req
            /\ new.status = handler[h].status
            /\ new.pc \in {"recipients", "posting", "saving"}
                 <=> handler[h].pc \in {"recipients", "posting", "saving"}
            /\ \A m \in new.data : about[m] = new.req
  PROVE  ChatInv'
<1>1. /\ handler' \in [Handler -> HandlerState]
      /\ handler'[h] = new
      /\ \A g \in Handler \ {h} : handler'[g] = handler[g]
  BY DEF Goto, ChatInv, TypeOK
<1>2. /\ state' = state /\ history' = history /\ pendingEvents' = pendingEvents
      /\ about' = about /\ shown' = shown /\ connected' = connected
  BY DEF authVars, chatVars
<1>3. TypeOK'
  BY <1>1, <1>2 DEF ChatInv, TypeOK
<1>4. HandlerTrue'
  BY <1>1, <1>2 DEF ChatInv, HandlerTrue, Idle
<1>5. HandlerDataOwn'
  BY <1>1, <1>2 DEF ChatInv, HandlerDataOwn, Idle
<1>6. FreshPending' /\ ShownIsTrue'
  BY <1>2 DEF ChatInv, FreshPending, ShownIsTrue
<1> QED BY <1>2, <1>3, <1>4, <1>5, <1>6 DEF ChatInv

(***************************************************************************)
(* The bookkeeping of faults keeps its type.                               *)
(***************************************************************************)
LEMMA FaultType ==
  ASSUME ChatInv, NEW r \in Request, NoFault \/ Fault(r)
  PROVE  excuses' \in [Request -> SUBSET Excuse] /\ faults' \in Nat
<1>1. CASE NoFault
  BY <1>1 DEF ChatInv, TypeOK, NoFault
<1>2. CASE Fault(r)
  <2>1. {"call failed"} \in SUBSET Excuse
    BY DEF Excuse
  <2>2. faults \in Nat /\ faults' = faults + 1
    BY <1>2 DEF ChatInv, TypeOK, Fault
  <2>3. faults' \in Nat
    BY <2>2
  <2>4. excuses' \in [Request -> SUBSET Excuse]
    BY <1>2, <2>1, BlameType DEF ChatInv, Fault
  <2> QED BY <2>3, <2>4
<1> QED BY <1>1, <1>2

(***************************************************************************)
(* A handler that is not idle is about a request.                          *)
(***************************************************************************)
LEMMA BusyHandler ==
  ASSUME ChatInv, NEW h \in Handler, handler[h].pc # "idle"
  PROVE  /\ handler[h] \in HandlerState
         /\ handler[h].req \in Request
         /\ handler[h].req # Nobody
         /\ handler[h].status \in history[handler[h].req]
         /\ handler[h].pc \in {"recipients", "posting", "saving"}
              <=> handler[h].status = "PENDING"
BY ChatAssumption DEF ChatInv, TypeOK, HandlerTrue

(***************************************************************************)
(* Broadcast, whether the call fails or not, at most makes a free message  *)
(* one about the request of the handler.                                   *)
(***************************************************************************)
LEMMA BroadcastInv ==
  ASSUME ChatInv, NEW h \in Handler, Broadcast(h)
  PROVE  ChatInv'
<1> DEFINE r == handler[h].req
<1>1. handler[h].pc = "posting"
  BY DEF Broadcast, At
<1>2. /\ handler[h] \in HandlerState
      /\ r \in Request
      /\ r # Nobody
      /\ handler[h].status \in history[r]
      /\ handler[h].status = "PENDING"
  BY <1>1, BusyHandler
<1>3. PICK c \in handler[h].channels :
        (\E m \in {c} \X Stamp : Posted(h, m)) \/ NotPosted(h, c)
  BY DEF Broadcast
<1>4. c \in Channel
  BY <1>2, <1>3 DEF HandlerState
<1>5. UNCHANGED <<state, history, pendingEvents, pluginData, shown, connected>>
  BY DEF Broadcast, authVars
<1>6. excuses' \in [Request -> SUBSET Excuse] /\ faults' \in Nat
  BY <1>2, <1>3, FaultType DEF Posted, NotPosted
<1>7. \/ about' = about
      \/ \E m \in Message : about[m] = Nobody /\ about' = [about EXCEPT ![m] = r]
  BY <1>3, <1>4 DEF Posted, NotPosted, NewMessage, Message
<1>8. /\ about' \in [Message -> Request \union {Nobody}]
      /\ \A m \in Message : about[m] # Nobody => about'[m] = about[m]
      /\ \A m \in Message : about'[m] = about[m] \/ (about[m] = Nobody /\ about'[m] = r)
  BY <1>2, <1>7 DEF ChatInv, TypeOK
<1> DEFINE Moved(data, channels, failed) ==
      /\ handler' = [handler EXCEPT ![h] =
           [handler[h] EXCEPT !.channels = channels, !.data = data, !.failed = failed]]
      /\ \A m \in data : about'[m] = r
    Some == \E data \in SUBSET Message, channels \in SUBSET Channel, failed \in BOOLEAN :
              Moved(data, channels, failed)
<1>8a. Some
  <2>1. CASE NotPosted(h, c)
    <3>1. handler' = [handler EXCEPT ![h] =
             [handler[h] EXCEPT !.channels = handler[h].channels \ {c},
                                !.data = handler[h].data, !.failed = TRUE]]
      BY <1>2, <2>1 DEF NotPosted, Goto, HandlerState
    <3>2. \A m \in handler[h].data : about'[m] = r
      BY <1>2, <1>8 DEF ChatInv, HandlerDataOwn, HandlerState
    <3> QED BY <1>2, <3>1, <3>2 DEF HandlerState
  <2>2. ASSUME NEW m \in {c} \X Stamp, Posted(h, m)
        PROVE  Some
    <3>1. m \in Message /\ m[1] = c
      BY <1>4, <2>2 DEF Message
    <3>2. handler' = [handler EXCEPT ![h] =
             [handler[h] EXCEPT !.channels = handler[h].channels \ {c},
                                !.data = handler[h].data \union {m},
                                !.failed = handler[h].failed]]
      BY <1>2, <2>2, <3>1 DEF Posted, Goto, HandlerState
    <3>3. about'[m] = r
      BY <2>2, <3>1 DEF Posted, NewMessage, ChatInv, TypeOK
    <3>4. \A n \in handler[h].data : about'[n] = r
      BY <1>2, <1>8 DEF ChatInv, HandlerDataOwn, HandlerState
    <3>5. /\ handler[h].data \union {m} \in SUBSET Message
          /\ handler[h].channels \ {c} \in SUBSET Channel
          /\ handler[h].failed \in BOOLEAN
      BY <1>2, <3>1 DEF HandlerState
    <3>6. Moved(handler[h].data \union {m}, handler[h].channels \ {c}, handler[h].failed)
      BY <3>2, <3>3, <3>4
    <3> QED BY <3>5, <3>6
  <2> QED BY <1>3, <2>1, <2>2
<1>9. PICK data \in SUBSET Message, channels \in SUBSET Channel, failed \in BOOLEAN :
        Moved(data, channels, failed)
  BY <1>8a
<1>10. /\ handler' \in [Handler -> HandlerState]
       /\ handler'[h].pc = "posting"
       /\ handler'[h].req = r
       /\ handler'[h].status = handler[h].status
       /\ handler'[h].data = data
       /\ \A g \in Handler \ {h} : handler'[g] = handler[g]
  BY <1>1, <1>2, <1>9 DEF ChatInv, TypeOK, HandlerState
<1>11. TypeOK'
  BY <1>5, <1>6, <1>8, <1>10 DEF ChatInv, TypeOK
<1>12. HandlerTrue'
  BY <1>2, <1>5, <1>10 DEF ChatInv, HandlerTrue
<1>13. HandlerDataOwn'
  <2> SUFFICES ASSUME NEW g \in Handler, NEW m \in handler'[g].data
               PROVE  about'[m] = handler'[g].req
    BY DEF HandlerDataOwn
  <2>1. CASE g = h
    BY <1>9, <1>10, <2>1
  <2>2. CASE g # h
    <3>1. handler'[g] = handler[g] /\ m \in Message /\ about[m] = handler[g].req
      BY <1>10, <2>2 DEF ChatInv, TypeOK, HandlerState, HandlerDataOwn
    <3>2. handler[g].pc # "idle"
      BY <3>1 DEF ChatInv, HandlerTrue, Idle
    <3> QED BY <1>8, <3>1, <3>2, BusyHandler
  <2> QED BY <2>1, <2>2
<1>14. FreshPending'
  BY <1>2, <1>5, <1>8 DEF ChatInv, FreshPending
<1>15. ShownIsTrue'
  BY <1>2, <1>5, <1>8 DEF ChatInv, FreshPending, ShownIsTrue
<1>16. \A q \in Request : \A m \in pluginData'[q] : about'[m] = q
  BY <1>5, <1>8, ChatAssumption DEF ChatInv, TypeOK
<1> QED BY <1>11, <1>12, <1>13, <1>14, <1>15, <1>16 DEF ChatInv

(***************************************************************************)
(* updateMessages shows the status of its handler on messages about the    *)
(* request of its handler.                                                 *)
(***************************************************************************)
LEMMA UpdateInv ==
  ASSUME ChatInv, NEW h \in Handler, UpdateMessages(h)
  PROVE  ChatInv'
<1> DEFINE r == handler[h].req
<1>1. handler[h].pc = "updating"
  BY DEF UpdateMessages, At
<1>2. /\ handler[h] \in HandlerState
      /\ r \in Request
      /\ r # Nobody
      /\ handler[h].status \in history[r] \intersect Status
  BY <1>1, BusyHandler DEF HandlerState
<1>3. UNCHANGED <<state, history, pendingEvents, pluginData, about, connected>>
  BY DEF UpdateMessages, authVars
<1>4. PICK m \in handler[h].data :
        /\ NoFault \/ Fault(r)
        /\ shown' = shown \/ shown' = [shown EXCEPT ![m] = handler[h].status]
        /\ \E failed \in BOOLEAN : Goto(h, [handler[h] EXCEPT !.data = @ \ {m}, !.failed = failed])
  <2>1. PICK m \in handler[h].data :
          \/ /\ Show(h, m)
             /\ NoFault
             /\ Goto(h, [handler[h] EXCEPT !.data = @ \ {m}])
          \/ /\ Fault(r)
             /\ UNCHANGED shown \/ Show(h, m)
             /\ Goto(h, [handler[h] EXCEPT !.data = @ \ {m}, !.failed = TRUE])
    BY DEF UpdateMessages
  <2>2. [handler[h] EXCEPT !.data = @ \ {m}]
          = [handler[h] EXCEPT !.data = @ \ {m}, !.failed = handler[h].failed]
    BY <1>2 DEF HandlerState
  <2> QED BY <1>2, <2>1, <2>2 DEF Show, HandlerState
<1>5. m \in Message /\ about[m] = r
  BY <1>2, <1>4 DEF ChatInv, HandlerDataOwn, HandlerState
<1>6. excuses' \in [Request -> SUBSET Excuse] /\ faults' \in Nat
  BY <1>2, <1>4, FaultType
<1>7. /\ handler' \in [Handler -> HandlerState]
      /\ handler'[h].pc = "updating"
      /\ handler'[h].req = r
      /\ handler'[h].status = handler[h].status
      /\ handler'[h].data \subseteq handler[h].data
      /\ \A g \in Handler \ {h} : handler'[g] = handler[g]
  <2>1. PICK failed \in BOOLEAN :
          handler' = [handler EXCEPT ![h] =
                        [handler[h] EXCEPT !.data = @ \ {m}, !.failed = failed]]
    BY <1>4 DEF Goto
  <2> DEFINE new == [handler[h] EXCEPT !.data = @ \ {m}, !.failed = failed]
  <2>2. /\ new \in HandlerState
        /\ new.pc = "updating"
        /\ new.req = r
        /\ new.status = handler[h].status
        /\ new.data \subseteq handler[h].data
    BY <1>1, <1>2 DEF HandlerState
  <2> HIDE DEF new
  <2>3. handler' = [handler EXCEPT ![h] = new]
    BY <2>1 DEF new
  <2> QED BY <2>2, <2>3 DEF ChatInv, TypeOK
<1>8. /\ shown' \in [Message -> Status]
      /\ \A n \in Message : shown'[n] = shown[n] \/ (n = m /\ shown'[n] = handler[h].status)
  BY <1>2, <1>4 DEF ChatInv, TypeOK
<1>9. TypeOK'
  BY <1>3, <1>6, <1>7, <1>8 DEF ChatInv, TypeOK
<1>10. HandlerTrue'
  <2>1. handler[h].status # "PENDING"
    BY <1>1, BusyHandler
  <2> QED BY <1>2, <1>3, <1>7, <2>1 DEF ChatInv, HandlerTrue
<1>11. HandlerDataOwn'
  BY <1>3, <1>7 DEF ChatInv, HandlerDataOwn
<1>12. FreshPending' /\ ShownIsTrue'
  BY <1>2, <1>3, <1>5, <1>8 DEF ChatInv, FreshPending, ShownIsTrue
<1> QED BY <1>3, <1>9, <1>10, <1>11, <1>12 DEF ChatInv

(***************************************************************************)
(* setPluginData saves only messages about the request of its handler.     *)
(***************************************************************************)
LEMMA SaveInv ==
  ASSUME ChatInv, NEW h \in Handler, setPluginData(h)
  PROVE  ChatInv'
<1> DEFINE r == handler[h].req
<1>1. handler[h] \in HandlerState /\ r \in Request
  BY BusyHandler DEF setPluginData, At
<1>2. /\ NoFault \/ Fault(r)
      /\ pluginData' = pluginData \/ pluginData' = [pluginData EXCEPT ![r] = handler[h].data]
      /\ Goto(h, Idle)
      /\ UNCHANGED <<authVars, chatVars, connected>>
  BY DEF setPluginData, End
<1>3. /\ handler[h].data \in SUBSET Message
      /\ \A m \in handler[h].data : about[m] = r
  BY <1>1 DEF ChatInv, HandlerDataOwn, HandlerState
<1>4. /\ pluginData' \in [Request -> SUBSET Message]
      /\ \A q \in Request : \A m \in pluginData'[q] : about[m] = q
  BY <1>1, <1>2, <1>3 DEF ChatInv, TypeOK
<1>5. excuses' \in [Request -> SUBSET Excuse] /\ faults' \in Nat
  BY <1>1, <1>2, FaultType
<1> QED BY <1>2, <1>4, <1>5, MoveInv, HandlerRecords

(***************************************************************************)
(* The steps of a handler that only look at the stores.                    *)
(***************************************************************************)
LEMMA ReadInv ==
  ASSUME ChatInv, NEW h \in Handler,
         \/ getMessageRecipients(h) \/ BroadcastDone(h)
         \/ getPluginData(h) \/ UpdateDone(h)
  PROVE  ChatInv'
<1> DEFINE r == handler[h].req
<1>1. /\ handler[h].pc # "idle"
      /\ handler[h] \in HandlerState
      /\ r \in Request
  <2>1. handler[h].pc # "idle"
    BY DEF getMessageRecipients, BroadcastDone, getPluginData, UpdateDone, At
  <2> QED BY <2>1, BusyHandler
<1>2. /\ UNCHANGED <<authVars, pluginData, chatVars, connected>>
      /\ NoFault \/ Fault(r)
  BY DEF getMessageRecipients, BroadcastDone, getPluginData, UpdateDone, NoFault
<1>3. /\ pluginData' \in [Request -> SUBSET Message]
      /\ \A q \in Request : \A m \in pluginData'[q] : about[m] = q
  BY <1>2 DEF ChatInv, TypeOK
<1>4. excuses' \in [Request -> SUBSET Excuse] /\ faults' \in Nat
  BY <1>1, <1>2, FaultType
<1>5. CASE Goto(h, Idle)
  BY <1>2, <1>3, <1>4, <1>5, MoveInv, HandlerRecords
<1>6. \A m \in handler[h].data : about[m] = r
  BY DEF ChatInv, HandlerDataOwn
<1>7. ASSUME NEW channels \in SUBSET Channel, handler[h].pc = "recipients",
             Goto(h, [handler[h] EXCEPT !.pc = "posting", !.channels = channels])
      PROVE  ChatInv'
  <2> DEFINE new == [handler[h] EXCEPT !.pc = "posting", !.channels = channels]
  <2>1. /\ new \in HandlerState
        /\ new.pc = "posting"
        /\ new.req = r
        /\ new.status = handler[h].status
        /\ new.data = handler[h].data
    BY <1>1 DEF HandlerState
  <2>2. Goto(h, new)
    BY <1>7
  <2> HIDE DEF new
  <2> QED BY <1>1, <1>2, <1>3, <1>4, <1>6, <1>7, <2>1, <2>2, MoveInv
<1>8. ASSUME handler[h].pc = "posting", Goto(h, [handler[h] EXCEPT !.pc = "saving"])
      PROVE  ChatInv'
  <2> DEFINE new == [handler[h] EXCEPT !.pc = "saving"]
  <2>1. /\ new \in HandlerState
        /\ new.pc = "saving"
        /\ new.req = r
        /\ new.status = handler[h].status
        /\ new.data = handler[h].data
    BY <1>1 DEF HandlerState
  <2>2. Goto(h, new)
    BY <1>8
  <2> HIDE DEF new
  <2> QED BY <1>1, <1>2, <1>3, <1>4, <1>6, <1>8, <2>1, <2>2, MoveInv
<1>9. ASSUME handler[h].pc = "reading",
             Goto(h, [handler[h] EXCEPT !.pc = "updating", !.data = pluginData[r]])
      PROVE  ChatInv'
  <2> DEFINE new == [handler[h] EXCEPT !.pc = "updating", !.data = pluginData[r]]
  <2>1. /\ new \in HandlerState
        /\ new.pc = "updating"
        /\ new.req = r
        /\ new.status = handler[h].status
        /\ new.data = pluginData[r]
    BY <1>1 DEF ChatInv, TypeOK, HandlerState
  <2>2. Goto(h, new)
    BY <1>9
  <2>3. \A m \in pluginData[r] : about[m] = r
    BY <1>1 DEF ChatInv
  <2> HIDE DEF new
  <2> QED BY <1>1, <1>2, <1>3, <1>4, <1>9, <2>1, <2>2, <2>3, MoveInv
<1>10. CASE getMessageRecipients(h)
  BY <1>5, <1>7, <1>10 DEF getMessageRecipients, End, At
<1>11. CASE BroadcastDone(h)
  BY <1>5, <1>8, <1>11 DEF BroadcastDone, End, At
<1>12. CASE getPluginData(h)
  BY <1>5, <1>9, <1>12 DEF getPluginData, End, At
<1>13. CASE UpdateDone(h)
  BY <1>5, <1>13 DEF UpdateDone, End
<1> QED BY <1>10, <1>11, <1>12, <1>13

-----------------------------------------------------------------------------
(***************************************************************************)
(* The invariant holds initially, and every step keeps it.                 *)
(***************************************************************************)
LEMMA InitInv == Init => ChatInv
<1> SUFFICES ASSUME Init PROVE ChatInv
  OBVIOUS
<1>1. /\ \A h \in Handler : handler[h] = Idle
      /\ Idle.pc = "idle" /\ Idle.data = {}
  BY DEF Init, Idle
<1>2. TypeOK
  BY HandlerRecords DEF Init, TypeOK, Status, Resolution
<1> QED BY <1>1, <1>2 DEF Init, ChatInv, HandlerTrue, FreshPending, ShownIsTrue, HandlerDataOwn

LEMMA NextInv == ChatInv /\ [Next]_vars => ChatInv'
<1> SUFFICES ASSUME ChatInv, [Next]_vars PROVE ChatInv'
  OBVIOUS
<1>1. ASSUME NEW r \in Request,
             Create(r) \/ Review(r) \/ Approve(r) \/ Deny(r) \/ Delete(r)
      PROVE  ChatInv'
  BY <1>1, ChangeInv DEF Create, Review, Approve, Deny, Delete
<1>2. ASSUME NEW r \in Request, ExpireData(r)
      PROVE  ChatInv'
  <2>1. /\ UNCHANGED <<state, history, pendingEvents, about, shown, connected, handler, faults>>
        /\ pluginData' = [pluginData EXCEPT ![r] = {}]
    BY <1>2 DEF ExpireData, authVars, chatVars
  <2>2. excuses' \in [Request -> SUBSET Excuse]
    <3>1. {"data expired"} \in SUBSET Excuse
      BY DEF Excuse
    <3> QED BY <1>2, <3>1, BlameType DEF ExpireData, ChatInv
  <2>3. TypeOK'
    BY <2>1, <2>2 DEF ChatInv, TypeOK
  <2>4. \A q \in Request : \A m \in pluginData'[q] : about'[m] = q
    BY <2>1 DEF ChatInv, TypeOK
  <2> QED
    BY <2>1, <2>3, <2>4 DEF ChatInv, HandlerTrue, FreshPending, ShownIsTrue, HandlerDataOwn
<1>3. ASSUME NEW h \in Handler, HandlerStep(h)
      PROVE  ChatInv'
  BY <1>3, BroadcastInv, UpdateInv, SaveInv, ReadInv DEF HandlerStep
<1>4. ASSUME UNCHANGED <<authVars, pluginData, chatVars, handler, excuses>>,
             faults' \in Nat, connected' \in BOOLEAN
      PROVE  ChatInv'
  BY <1>4 DEF authVars, chatVars, ChatInv, TypeOK, HandlerTrue, FreshPending,
              ShownIsTrue, HandlerDataOwn
<1>5. CASE Disconnect \/ Reconnect
  <2>1. UNCHANGED <<authVars, pluginData, chatVars, handler, excuses>>
    BY <1>5 DEF Disconnect, Reconnect
  <2>2. faults \in Nat /\ (faults' = faults \/ faults' = faults + 1)
    BY <1>5 DEF Disconnect, Reconnect, ChatInv, TypeOK
  <2>3. faults' \in Nat
    BY <2>2
  <2>4. connected' \in BOOLEAN
    BY <1>5 DEF Disconnect, Reconnect
  <2> QED BY <1>4, <2>1, <2>3, <2>4
<1>6. CASE Crash
  <2>1. /\ UNCHANGED <<state, history, pendingEvents, pluginData, about, shown>>
        /\ \A h \in Handler : handler'[h] = Idle
        /\ handler' \in [Handler -> HandlerState]
        /\ faults' \in Nat /\ connected' = FALSE
    BY <1>6, HandlerRecords DEF Crash, authVars, chatVars, ChatInv, TypeOK
  <2>2. excuses' \in [Request -> SUBSET Excuse]
    <3>1. {"crash"} \in SUBSET Excuse
      BY DEF Excuse
    <3> QED BY <1>6, <3>1 DEF Crash, ChatInv, TypeOK
  <2>3. TypeOK'
    BY <2>1, <2>2 DEF ChatInv, TypeOK
  <2>4. HandlerTrue' /\ HandlerDataOwn'
    BY <2>1 DEF HandlerTrue, HandlerDataOwn, Idle
  <2>5. FreshPending' /\ ShownIsTrue'
    BY <2>1 DEF ChatInv, FreshPending, ShownIsTrue
  <2> QED BY <2>1, <2>3, <2>4, <2>5 DEF ChatInv
<1>7. CASE UNCHANGED vars
  <2>1. UNCHANGED <<authVars, pluginData, chatVars, handler, excuses>>
    BY <1>7 DEF vars, authVars, chatVars
  <2>2. faults' \in Nat /\ connected' \in BOOLEAN
    BY <1>7 DEF vars, ChatInv, TypeOK
  <2> QED BY <1>4, <2>1, <2>2
<1> QED BY <1>1, <1>2, <1>3, <1>5, <1>6, <1>7 DEF Next, AuthServer

(***************************************************************************)
(* The inductive invariant of the chat plugins.                            *)
(***************************************************************************)
THEOREM ChatInvariant == Spec => []ChatInv
BY InitInv, NextInv, PTL DEF Spec

(***************************************************************************)
(* Every variable keeps its type.                                          *)
(***************************************************************************)
THEOREM ChatTypeCorrect == Spec => []TypeOK
<1>1. ChatInv => TypeOK
  BY DEF ChatInv
<1> QED BY <1>1, ChatInvariant, PTL

(***************************************************************************)
(* A message shows only what its request has been: the watcher's handlers  *)
(* may overlap, fail and crash in any way.                                 *)
(***************************************************************************)
THEOREM ShownCorrect == Spec => []ShownIsTrue
<1>1. ChatInv => ShownIsTrue
  BY DEF ChatInv
<1> QED BY <1>1, ChatInvariant, PTL

(***************************************************************************)
(* The plugin data of a request, and the messages a handler holds, are the *)
(* request's own.                                                          *)
(***************************************************************************)
THEOREM DataCorrect == Spec => []DataIsOwn
<1>1. ChatInv => DataIsOwn
  <2> SUFFICES ASSUME ChatInv PROVE DataIsOwn
    OBVIOUS
  <2>1. \A r \in Request : pluginData[r] \subseteq MessagesOf(r)
    BY DEF ChatInv, TypeOK, MessagesOf
  <2>2. \A h \in Handler : handler[h].data \subseteq MessagesOf(handler[h].req)
    BY DEF ChatInv, TypeOK, HandlerDataOwn, HandlerState, MessagesOf
  <2> QED BY <2>1, <2>2 DEF DataIsOwn
<1> QED BY <1>1, ChatInvariant, PTL

-----------------------------------------------------------------------------
(***************************************************************************)
(* Every step of the plugin is a step of the notice board or none.         *)
(***************************************************************************)
LEMMA StepRefinesBoard ==
  ChatInv /\ [Next]_vars => [Board!BoardNext]_(Board!boardVars)
<1> SUFFICES ASSUME ChatInv, [Next]_vars
             PROVE  Board!BoardNext \/ UNCHANGED <<history, about, shown>>
  BY DEF Board!boardVars
<1>1. ASSUME NEW r \in Request,
             NEW from, NEW to \in {"pending", "approved", "denied", "deleted"},
             Change(r, from, to)
      PROVE  Board!BoardNext
  <2>1. Board!Happen(r, StatusOf(to))
    BY <1>1 DEF Change, chatVars, Board!Happen
  <2>2. StatusOf(to) \in Board!Resolutions \union {"PENDING"}
    BY StatusType DEF Status, Resolution, Board!Resolutions
  <2> QED BY <2>1, <2>2 DEF Board!BoardNext
<1>2. ASSUME NEW h \in Handler, Broadcast(h)
      PROVE  Board!BoardNext \/ UNCHANGED <<history, about, shown>>
  <2>1. /\ handler[h] \in HandlerState
        /\ handler[h].req \in Request
        /\ handler[h].status \in history[handler[h].req]
        /\ handler[h].status = "PENDING"
    BY <1>2, BusyHandler DEF Broadcast, At
  <2>2. UNCHANGED <<history, shown>>
    BY <1>2 DEF Broadcast, authVars
  <2>3. PICK c \in handler[h].channels :
          (\E m \in {c} \X Stamp : Posted(h, m)) \/ NotPosted(h, c)
    BY <1>2 DEF Broadcast
  <2>4. \/ about' = about
        \/ \E m \in {c} \X Stamp : NewMessage(h, m)
    BY <2>3 DEF Posted, NotPosted
  <2>5. ASSUME NEW m \in {c} \X Stamp, NewMessage(h, m)
        PROVE  Board!BoardNext
    <3>1. m \in Message
      BY <2>1, <2>5 DEF Message, HandlerState
    <3>2. Board!Announce(handler[h].req, m)
      BY <2>1, <2>2, <2>5 DEF NewMessage, Board!Announce
    <3> QED BY <2>1, <3>1, <3>2 DEF Board!BoardNext
  <2> QED BY <2>2, <2>4, <2>5
<1>3. ASSUME NEW h \in Handler, UpdateMessages(h)
      PROVE  Board!BoardNext \/ UNCHANGED <<history, about, shown>>
  <2>1. /\ handler[h] \in HandlerState
        /\ handler[h].req \in Request
        /\ handler[h].req # Nobody
        /\ handler[h].status \in history[handler[h].req]
        /\ handler[h].status # "PENDING"
    BY <1>3, BusyHandler DEF UpdateMessages, At
  <2>2. UNCHANGED <<history, about>>
    BY <1>3 DEF UpdateMessages, authVars
  <2>3. PICK m \in handler[h].data : shown' = shown \/ Show(h, m)
    BY <1>3 DEF UpdateMessages
  <2>4. m \in Message /\ about[m] = handler[h].req
    BY <2>1, <2>3 DEF HandlerState, ChatInv, HandlerDataOwn
  <2>5. handler[h].status \in Board!Resolutions
    BY <2>1 DEF HandlerState, Status, Resolution, Board!Resolutions
  <2>6. CASE Show(h, m)
    <3>1. Board!Amend(m, handler[h].status)
      BY <2>1, <2>2, <2>4, <2>5, <2>6 DEF Show, Board!Amend
    <3> QED BY <2>4, <2>5, <3>1 DEF Board!BoardNext
  <2> QED BY <2>2, <2>3, <2>6
<1>4. CASE \E r \in Request : AuthServer(r)
  <2>1. PICK r \in Request : AuthServer(r)
    BY <1>4
  <2>2. CASE Create(r) \/ Review(r) \/ Approve(r) \/ Deny(r) \/ Delete(r)
    BY <1>1, <2>2 DEF Create, Review, Approve, Deny, Delete
  <2>3. CASE ExpireData(r)
    BY <2>3 DEF ExpireData, authVars, chatVars
  <2> QED BY <2>1, <2>2, <2>3 DEF AuthServer
<1>5. CASE \E h \in Handler : HandlerStep(h)
  <2>1. PICK h \in Handler : HandlerStep(h)
    BY <1>5
  <2>2. CASE \/ getMessageRecipients(h) \/ BroadcastDone(h) \/ setPluginData(h)
             \/ getPluginData(h) \/ UpdateDone(h)
    BY <2>2 DEF getMessageRecipients, BroadcastDone, setPluginData,
                getPluginData, UpdateDone, authVars, chatVars
  <2> QED BY <1>2, <1>3, <2>1, <2>2 DEF HandlerStep
<1>6. CASE Disconnect \/ Reconnect \/ Crash
  BY <1>6 DEF Disconnect, Reconnect, Crash, authVars, chatVars
<1>7. CASE UNCHANGED vars
  BY <1>7 DEF vars
<1> QED BY <1>4, <1>5, <1>6, <1>7 DEF Next

(***************************************************************************)
(* The chat plugins implement the notice board.                            *)
(***************************************************************************)
THEOREM ChatRefinesBoard == Spec => ImplementsBoard
<1>1. Init => Board!BoardInit
  BY DEF Init, Board!BoardInit
<1>2. ChatInv /\ [Next]_vars => [Board!BoardNext]_(Board!boardVars)
  BY StepRefinesBoard
<1> QED
  BY <1>1, <1>2, ChatInvariant, PTL DEF Spec, ImplementsBoard, Board!BoardSpec

-----------------------------------------------------------------------------
(***************************************************************************)
(* NoDuplicates: a pending event is a licence to post once to a channel.   *)
(* A handler holds it from its start until its turn for that channel, then *)
(* it is spent on at most one message; the messages in the channel and the *)
(* handlers still to post there are together no more than the events.      *)
(***************************************************************************)

\* The messages of a request in a channel, and the handlers that may still
\* post one there.
Brought(r, c) == {m \in MessagesOf(r) : m[1] = c}
Posters(r, c) ==
  {h \in Active(r) : \/ handler[h].pc = "recipients"
                     \/ handler[h].pc = "posting" /\ c \in handler[h].channels}

Licensed ==
  \A r \in Request, c \in Channel :
    Within(Brought(r, c), Posters(r, c), pendingEvents[r])

(***************************************************************************)
(* What a step may do with the licences of a request for a channel.        *)
(***************************************************************************)
LicenceStep(r, c) ==
  \/ /\ Brought(r, c)' \subseteq Brought(r, c)
     /\ Posters(r, c)' \subseteq Posters(r, c)
     /\ pendingEvents[r] <= pendingEvents'[r]
  \/ \E m \in Message, h \in Posters(r, c) :
       /\ Brought(r, c)' \subseteq Brought(r, c) \union {m}
       /\ Posters(r, c)' \subseteq Posters(r, c) \ {h}
       /\ pendingEvents'[r] = pendingEvents[r]
  \/ \E h \in Handler :
       /\ Brought(r, c)' \subseteq Brought(r, c)
       /\ Posters(r, c)' \subseteq Posters(r, c) \union {h}
       /\ pendingEvents'[r] = pendingEvents[r] + 1

(***************************************************************************)
(* Steps of that kind keep the count.                                      *)
(***************************************************************************)
LEMMA LicenceCounts ==
  ASSUME TypeOK, TypeOK', Licensed, \A r \in Request, c \in Channel : LicenceStep(r, c)
  PROVE  Licensed'
<1> SUFFICES ASSUME NEW r \in Request, NEW c \in Channel
             PROVE  Within(Brought(r, c)', Posters(r, c)', pendingEvents'[r])
  BY DEF Licensed, Within
<1> DEFINE A == Brought(r, c)
           B == Posters(r, c)
           A1 == Brought(r, c)'
           B1 == Posters(r, c)'
           n == pendingEvents[r]
           k == pendingEvents'[r]
<1>1. Within(A, B, n)
  BY DEF Licensed
<1>2. n \in Nat /\ k \in Nat
  BY DEF TypeOK
<1>3. \/ A1 \subseteq A /\ B1 \subseteq B /\ n <= k
      \/ \E m \in Message, h \in B :
           A1 \subseteq A \union {m} /\ B1 \subseteq B \ {h} /\ k = n
      \/ \E h \in Handler :
           A1 \subseteq A /\ B1 \subseteq B \union {h} /\ k = n + 1
  BY DEF LicenceStep
<1> HIDE DEF A, B, A1, B1, n, k
<1>4. Within(A1, B1, k)
  <2>1. CASE A1 \subseteq A /\ B1 \subseteq B /\ n <= k
    BY <1>1, <1>2, <2>1, CountShrinks
  <2>2. ASSUME NEW m \in Message, NEW h \in B,
               A1 \subseteq A \union {m}, B1 \subseteq B \ {h}, k = n
        PROVE  Within(A1, B1, k)
    <3>1. A1 \in SUBSET (A \union {m}) /\ B1 \in SUBSET (B \ {h})
      BY <2>2
    <3>2. Within(A1, B1, n)
      BY <1>1, <1>2, <3>1, CountTraded
    <3> QED BY <2>2, <3>2
  <2>3. ASSUME NEW h \in Handler,
               A1 \subseteq A, B1 \subseteq B \union {h}, k = n + 1
        PROVE  Within(A1, B1, k)
    BY <1>1, <1>2, <2>3, CountGrows
  <2> QED BY <1>3, <2>1, <2>2, <2>3
<1> QED BY <1>4 DEF A1, B1, k

-----------------------------------------------------------------------------
(***************************************************************************)
(* An event of the auth server: a pending one is the licence of the        *)
(* handler it spawns.                                                      *)
(***************************************************************************)
LEMMA ChangeLicensed ==
  ASSUME ChatInv, Licensed, NEW r \in Request,
         NEW from \in SUBSET {"none", "pending", "approved", "denied"},
         NEW to \in {"pending", "approved", "denied", "deleted"},
         Change(r, from, to)
  PROVE  Licensed'
<1> DEFINE st == StatusOf(to)
<1>0. ChatInv'
  BY ChangeInv
<1>1. st \in Status /\ (st = "PENDING" <=> to = "pending")
  BY StatusType
<1>2. about' = about
  BY DEF Change, chatVars
<1>3. \A q \in Request :
        pendingEvents'[q] = IF q = r /\ to = "pending" THEN pendingEvents[q] + 1
                            ELSE pendingEvents[q]
  BY DEF Change, ChatInv, TypeOK
<1>4. \/ handler' = handler
      \/ \E h \in Handler : handler[h] = Idle /\ handler' = [handler EXCEPT ![h] = Spawned(r, st)]
  BY DEF Change, onWatcherEvent
<1> SUFFICES ASSUME NEW q \in Request, NEW c \in Channel
             PROVE  LicenceStep(q, c)
  BY <1>0, LicenceCounts DEF ChatInv
<1>5. Brought(q, c)' = Brought(q, c)
  BY <1>2 DEF Brought, MessagesOf
<1>6. CASE q = r /\ to = "pending"
  <2>1. pendingEvents'[q] = pendingEvents[q] + 1
    BY <1>3, <1>6
  <2>2. CASE handler' = handler
    <3>1. Posters(q, c)' = Posters(q, c)
      BY <2>2 DEF Posters, Active
    <3>2. pendingEvents[q] <= pendingEvents'[q]
      BY <2>1 DEF ChatInv, TypeOK
    <3> QED BY <1>5, <3>1, <3>2 DEF LicenceStep
  <2>3. ASSUME NEW h \in Handler, handler' = [handler EXCEPT ![h] = Spawned(r, st)]
        PROVE  LicenceStep(q, c)
    <3>1. \A g \in Handler \ {h} : handler'[g] = handler[g]
      BY <2>3 DEF ChatInv, TypeOK
    <3>2. Posters(q, c)' \subseteq Posters(q, c) \union {h}
      BY <3>1 DEF Posters, Active
    <3> QED BY <1>5, <2>1, <3>2 DEF LicenceStep
  <2> QED BY <1>4, <2>2, <2>3
<1>7. CASE ~(q = r /\ to = "pending")
  <2>1. pendingEvents[q] <= pendingEvents'[q]
    BY <1>3, <1>7 DEF ChatInv, TypeOK
  <2>2. CASE handler' = handler
    BY <1>5, <2>1, <2>2 DEF LicenceStep, Posters, Active
  <2>3. ASSUME NEW h \in Handler, handler' = [handler EXCEPT ![h] = Spawned(r, st)]
        PROVE  LicenceStep(q, c)
    <3>1. /\ handler'[h] = Spawned(r, st)
          /\ \A g \in Handler \ {h} : handler'[g] = handler[g]
      BY <2>3 DEF ChatInv, TypeOK
    <3>2. handler'[h].req = r /\ (to # "pending" => handler'[h].pc = "reading")
      BY <1>1, <3>1, HandlerRecords
    <3>3. Posters(q, c)' \subseteq Posters(q, c)
      BY <1>7, <3>1, <3>2 DEF Posters, Active
    <3> QED BY <1>5, <2>1, <3>3 DEF LicenceStep
  <2> QED BY <1>4, <2>2, <2>3
<1> QED BY <1>6, <1>7

(***************************************************************************)
(* Broadcast trades the licence of a handler for a channel for at most one *)
(* message there, whether its call fails or not.                           *)
(***************************************************************************)
LEMMA BroadcastLicensed ==
  ASSUME ChatInv, Licensed, NEW h \in Handler, Broadcast(h)
  PROVE  Licensed'
<1> DEFINE r == handler[h].req
<1>1. handler[h].pc = "posting"
  BY DEF Broadcast, At
<1>2. handler[h] \in HandlerState /\ r \in Request /\ r # Nobody
  BY <1>1, BusyHandler
<1>3. PICK c \in handler[h].channels :
        (\E m \in {c} \X Stamp : Posted(h, m)) \/ NotPosted(h, c)
  BY DEF Broadcast
<1>4. c \in Channel
  BY <1>2, <1>3 DEF HandlerState
<1>5. pendingEvents' = pendingEvents
  BY DEF Broadcast, authVars
<1>6. \/ about' = about
      \/ \E m \in Message : /\ m[1] = c
                            /\ about[m] = Nobody
                            /\ about' = [about EXCEPT ![m] = r]
  BY <1>3, <1>4 DEF Posted, NotPosted, NewMessage, Message
<1>7. \E data, failed :
        handler' = [handler EXCEPT ![h] =
          [handler[h] EXCEPT !.channels = handler[h].channels \ {c},
                             !.data = data, !.failed = failed]]
  <2>1. CASE NotPosted(h, c)
    <3>1. handler' = [handler EXCEPT ![h] =
             [handler[h] EXCEPT !.channels = handler[h].channels \ {c},
                                !.data = handler[h].data, !.failed = TRUE]]
      BY <1>2, <2>1 DEF NotPosted, Goto, HandlerState
    <3> QED BY <3>1
  <2>2. ASSUME NEW m \in {c} \X Stamp, Posted(h, m)
        PROVE  handler' = [handler EXCEPT ![h] =
                 [handler[h] EXCEPT !.channels = handler[h].channels \ {c},
                                    !.data = handler[h].data \union {m},
                                    !.failed = handler[h].failed]]
    <3>1. m[1] = c
      BY <2>2
    <3> QED BY <1>2, <2>2, <3>1 DEF Posted, Goto, HandlerState
  <2> QED BY <1>3, <2>1, <2>2
<1>8. /\ handler'[h].pc = "posting"
      /\ handler'[h].channels = handler[h].channels \ {c}
      /\ handler'[h].req = r
      /\ \A g \in Handler \ {h} : handler'[g] = handler[g]
  BY <1>1, <1>2, <1>7 DEF ChatInv, TypeOK, HandlerState
<1>9. ChatInv'
  BY BroadcastInv
<1> SUFFICES ASSUME NEW q \in Request, NEW d \in Channel
             PROVE  LicenceStep(q, d)
  BY <1>9, LicenceCounts DEF ChatInv
<1>10. Posters(q, d)' \subseteq Posters(q, d)
  BY <1>1, <1>8 DEF Posters, Active
<1>11. pendingEvents[q] <= pendingEvents'[q] /\ pendingEvents'[q] = pendingEvents[q]
  BY <1>5 DEF ChatInv, TypeOK
<1>12. CASE about' = about
  <2>1. Brought(q, d)' = Brought(q, d)
    BY <1>12 DEF Brought, MessagesOf
  <2> QED BY <1>10, <1>11, <2>1 DEF LicenceStep
<1>13. ASSUME NEW m \in Message, m[1] = c, about[m] = Nobody,
              about' = [about EXCEPT ![m] = r]
       PROVE  LicenceStep(q, d)
  <2>1. /\ about'[m] = r
        /\ \A n \in Message \ {m} : about'[n] = about[n]
    BY <1>13 DEF ChatInv, TypeOK
  <2>2. CASE q = r /\ d = c
    <3>1. Brought(q, d)' \subseteq Brought(q, d) \union {m}
      BY <2>1 DEF Brought, MessagesOf
    <3>2. h \in Posters(q, d) /\ h \notin Posters(q, d)'
      BY <1>1, <1>3, <1>8, <2>2 DEF Posters, Active
    <3> QED BY <1>10, <1>11, <3>1, <3>2 DEF LicenceStep
  <2>3. CASE ~(q = r /\ d = c)
    <3>1. Brought(q, d)' \subseteq Brought(q, d)
      BY <1>13, <2>1, <2>3 DEF Brought, MessagesOf
    <3> QED BY <1>10, <1>11, <3>1 DEF LicenceStep
  <2> QED BY <2>2, <2>3
<1> QED BY <1>6, <1>12, <1>13

(***************************************************************************)
(* A step that brings no handler to posting and posts nothing keeps the    *)
(* count.                                                                  *)
(***************************************************************************)
LEMMA QuietLicensed ==
  ASSUME ChatInv, ChatInv', Licensed, about' = about, pendingEvents' = pendingEvents,
         \A h \in Handler :
           \/ handler'[h] = handler[h]
           \/ handler'[h].pc \notin {"recipients", "posting"}
           \/ handler[h].pc = "recipients" /\ handler'[h].req = handler[h].req
  PROVE  Licensed'
<1> SUFFICES ASSUME NEW q \in Request, NEW c \in Channel
             PROVE  LicenceStep(q, c)
  BY LicenceCounts DEF ChatInv
<1>1. Posters(q, c)' \subseteq Posters(q, c)
  BY DEF Posters, Active
<1>2. Brought(q, c)' = Brought(q, c)
  BY DEF Brought, MessagesOf
<1>3. pendingEvents[q] <= pendingEvents'[q]
  BY DEF ChatInv, TypeOK
<1> QED BY <1>1, <1>2, <1>3 DEF LicenceStep

(***************************************************************************)
(* Every step keeps the count.                                             *)
(***************************************************************************)
LEMMA NextLicensed ==
  ASSUME ChatInv, ChatInv', Licensed, [Next]_vars
  PROVE  Licensed'
<1>1. ASSUME NEW r \in Request, AuthServer(r)
      PROVE  Licensed'
  <2>1. CASE Create(r)
    BY <2>1, ChangeLicensed DEF Create
  <2>2. CASE Review(r)
    BY <2>2, ChangeLicensed DEF Review
  <2>3. CASE Approve(r)
    BY <2>3, ChangeLicensed DEF Approve
  <2>4. CASE Deny(r)
    BY <2>4, ChangeLicensed DEF Deny
  <2>5. CASE Delete(r)
    BY <2>5, ChangeLicensed DEF Delete
  <2>6. CASE ExpireData(r)
    BY <2>6, QuietLicensed DEF ExpireData, authVars, chatVars
  <2> QED BY <1>1, <2>1, <2>2, <2>3, <2>4, <2>5, <2>6 DEF AuthServer
<1>2. ASSUME NEW h \in Handler, HandlerStep(h)
      PROVE  Licensed'
  <2>1. handler[h] \in HandlerState /\ handler \in [Handler -> HandlerState]
    BY DEF ChatInv, TypeOK
  <2>2. CASE getMessageRecipients(h)
    <3>1. /\ handler[h].pc = "recipients"
          /\ about' = about /\ pendingEvents' = pendingEvents
      BY <2>2 DEF getMessageRecipients, At, authVars, chatVars
    <3>2. \E new : /\ handler' = [handler EXCEPT ![h] = new]
                   /\ new.pc = "idle" \/ new.req = handler[h].req
      BY <2>1, <2>2 DEF getMessageRecipients, End, Goto, Idle, HandlerState
    <3>3. \A g \in Handler : \/ handler'[g] = handler[g]
                             \/ handler'[g].pc = "idle"
                             \/ g = h /\ handler'[g].req = handler[h].req
      BY <2>1, <3>2
    <3> QED BY <3>1, <3>3, QuietLicensed
  <2>3. CASE Broadcast(h)
    BY <2>3, BroadcastLicensed
  <2>4. CASE \/ BroadcastDone(h) \/ setPluginData(h) \/ getPluginData(h)
             \/ UpdateMessages(h) \/ UpdateDone(h)
    <3>1. about' = about /\ pendingEvents' = pendingEvents
      BY <2>4 DEF BroadcastDone, setPluginData, getPluginData, UpdateMessages,
                  UpdateDone, authVars, chatVars
    <3>2. Goto(h, Idle) \/ \E new \in HandlerState : Goto(h, new) /\ new.pc \in {"saving", "updating"}
      <4>1. [handler[h] EXCEPT !.pc = "saving"] \in HandlerState
        BY <2>1 DEF HandlerState
      <4>2. [handler[h] EXCEPT !.pc = "saving"].pc = "saving"
        BY <2>1 DEF HandlerState
      <4>3. CASE BroadcastDone(h)
        BY <4>1, <4>2, <4>3 DEF BroadcastDone, End
      <4>4. CASE setPluginData(h) \/ UpdateDone(h)
        BY <4>4 DEF setPluginData, UpdateDone, End
      <4>5. CASE getPluginData(h)
        <5> DEFINE r == handler[h].req
                   new == [handler[h] EXCEPT !.pc = "updating", !.data = pluginData[r]]
        <5>1. r \in Request /\ pluginData[r] \in SUBSET Message
          BY <4>5, BusyHandler DEF getPluginData, At, ChatInv, TypeOK
        <5>2. new \in HandlerState /\ new.pc = "updating"
          BY <2>1, <5>1 DEF HandlerState
        <5>3. Goto(h, Idle) \/ Goto(h, new)
          BY <4>5 DEF getPluginData, End
        <5> QED BY <5>2, <5>3
      <4>6. CASE UpdateMessages(h)
        <5>1. PICK m \in handler[h].data :
                \/ Goto(h, [handler[h] EXCEPT !.data = @ \ {m}])
                \/ Goto(h, [handler[h] EXCEPT !.data = @ \ {m}, !.failed = TRUE])
          BY <4>6 DEF UpdateMessages
        <5>2. handler[h].pc = "updating"
          BY <4>6 DEF UpdateMessages, At
        <5>3. /\ [handler[h] EXCEPT !.data = @ \ {m}] \in HandlerState
              /\ [handler[h] EXCEPT !.data = @ \ {m}].pc = "updating"
          BY <2>1, <5>2 DEF HandlerState
        <5>4. /\ [handler[h] EXCEPT !.data = @ \ {m}, !.failed = TRUE] \in HandlerState
              /\ [handler[h] EXCEPT !.data = @ \ {m}, !.failed = TRUE].pc = "updating"
          BY <2>1, <5>2 DEF HandlerState
        <5> QED BY <5>1, <5>3, <5>4
      <4> QED BY <2>4, <4>3, <4>4, <4>5, <4>6
    <3>3. \A g \in Handler : \/ handler'[g] = handler[g]
                             \/ handler'[g].pc \in {"idle", "saving", "updating"}
      BY <2>1, <3>2 DEF Goto, Idle
    <3> QED BY <3>1, <3>3, QuietLicensed
  <2> QED BY <1>2, <2>2, <2>3, <2>4 DEF HandlerStep
<1>3. CASE Disconnect \/ Reconnect
  BY <1>3, QuietLicensed DEF Disconnect, Reconnect, authVars, chatVars
<1>4. CASE Crash
  <2>1. \A h \in Handler : handler'[h].pc = "idle"
    BY <1>4 DEF Crash, Idle
  <2> QED BY <1>4, <2>1, QuietLicensed DEF Crash, authVars, chatVars
<1>5. CASE UNCHANGED vars
  BY <1>5, QuietLicensed DEF vars
<1> QED BY <1>1, <1>2, <1>3, <1>4, <1>5 DEF Next

(***************************************************************************)
(* At the start there is nothing to count.                                 *)
(***************************************************************************)
LEMMA InitLicensed == Init => Licensed
<1> SUFFICES ASSUME Init, NEW r \in Request, NEW c \in Channel
             PROVE  Within(Brought(r, c), Posters(r, c), pendingEvents[r])
  BY DEF Licensed
<1>1. Brought(r, c) = {}
  BY ChatAssumption DEF Init, Brought, MessagesOf
<1>2. Posters(r, c) = {}
  BY DEF Init, Posters, Active, Idle
<1>3. pendingEvents[r] = 0
  BY DEF Init
<1> QED BY <1>1, <1>2, <1>3, FS_EmptySet DEF Within

(***************************************************************************)
(* A pending event brings at most one message to a channel, also when      *)
(* calls fail with and without effect, handlers of the request run at the  *)
(* same time and the plugin crashes.                                       *)
(***************************************************************************)
THEOREM ChatNoDuplicates == Spec => []NoDuplicates
<1>1. ChatInv /\ Licensed => NoDuplicates
  <2> SUFFICES ASSUME ChatInv, Licensed, NEW r \in Request, NEW c \in Channel
               PROVE  Cardinality(Brought(r, c)) <= pendingEvents[r]
    BY DEF NoDuplicates, Brought
  <2>1. /\ Cardinality(Brought(r, c)) \in Nat
        /\ Cardinality(Posters(r, c)) \in Nat
        /\ Cardinality(Brought(r, c)) + Cardinality(Posters(r, c)) <= pendingEvents[r]
    BY FS_CardinalityType DEF Licensed, Within
  <2>2. pendingEvents[r] \in Nat
    BY DEF ChatInv, TypeOK
  <2> QED BY <2>1, <2>2
<1> QED
  BY <1>1, InitLicensed, NextLicensed, ChatInvariant, PTL DEF Spec

-----------------------------------------------------------------------------
(***************************************************************************)
(* CorrectOrExcused: while nothing went wrong for a request, its handlers  *)
(* follow each other, each with the status of the request's state, and the *)
(* plugin data names all messages whenever no handler is posting.          *)
(***************************************************************************)

\* What a handler of a request knows while nothing went wrong for it.
HandlerClean(h) ==
  LET r == handler[h].req
      pc == handler[h].pc
  IN
  /\ handler[h].status = StatusOf(state[r])
  /\ ~handler[h].failed
  /\ pc = "recipients" => MessagesOf(r) = {}
  /\ pc \in {"posting", "saving"} =>
       /\ handler[h].data = MessagesOf(r)
       /\ \A m \in MessagesOf(r) : shown[m] = "PENDING"
  /\ pc \in {"reading", "updating"} => pluginData[r] = MessagesOf(r)
  /\ pc = "updating" =>
       \A m \in MessagesOf(r) \ handler[h].data : shown[m] = handler[h].status

Clean(r) ==
  /\ \A g, h \in Active(r) : g = h
  /\ \A h \in Active(r) : HandlerClean(h)
  /\ Active(r) = {} => Correct(r) /\ pluginData[r] = MessagesOf(r)
  /\ state[r] = "none" => Active(r) = {} /\ MessagesOf(r) = {}

CleanOrExcused == \A r \in Request : excuses[r] = {} => Clean(r)

(***************************************************************************)
(* A fault of a call and a blame leave a trace, and traces stay.           *)
(***************************************************************************)
LEMMA BlameStays ==
  ASSUME TypeOK, NEW r \in Request, NEW what, Blame(r, what)
  PROVE  /\ excuses'[r] = excuses[r] \union what
         /\ \A q \in Request \ {r} : excuses'[q] = excuses[q]
BY DEF TypeOK, Blame

LEMMA FaultStays ==
  ASSUME TypeOK, NEW r \in Request, NoFault \/ Fault(r)
  PROVE  /\ \A q \in Request : excuses[q] \subseteq excuses'[q]
         /\ excuses'[r] = {} => NoFault
<1>1. CASE NoFault
  BY <1>1 DEF NoFault
<1>2. CASE Fault(r)
  <2>1. /\ excuses'[r] = excuses[r] \union {"call failed"}
        /\ \A q \in Request \ {r} : excuses'[q] = excuses[q]
    BY <1>2, BlameStays DEF Fault
  <2>2. "call failed" \in excuses'[r]
    BY <2>1
  <2> QED BY <2>1, <2>2
<1> QED BY <1>1, <1>2

(***************************************************************************)
(* A request of which a step touches neither state, data, messages nor     *)
(* handlers stays clean.                                                   *)
(***************************************************************************)
LEMMA UntouchedClean ==
  ASSUME NEW r \in Request, Clean(r),
         state'[r] = state[r], pluginData'[r] = pluginData[r],
         \A m \in Message : about'[m] = r <=> about[m] = r,
         \A m \in MessagesOf(r) : shown'[m] = shown[m],
         \A h \in Handler : \/ handler'[h] = handler[h]
                            \/ handler[h].req # r /\ handler'[h].req # r
  PROVE  Clean(r)'
<1>1. MessagesOf(r)' = MessagesOf(r)
  BY DEF MessagesOf
<1>2. /\ Active(r)' = Active(r)
      /\ \A h \in Active(r) : handler'[h] = handler[h]
  BY DEF Active
<1>3. Correct(r)' <=> Correct(r)
  BY <1>1 DEF Correct
<1>4. ASSUME NEW h \in Active(r)
      PROVE  HandlerClean(h)'
  <2>1. handler'[h] = handler[h] /\ handler[h].req = r
    BY <1>2 DEF Active
  <2>2. HandlerClean(h)
    BY DEF Clean
  <2> QED BY <1>1, <2>1, <2>2 DEF HandlerClean
<1> QED BY <1>1, <1>2, <1>3, <1>4 DEF Clean

(***************************************************************************)
(* The only handler of a clean request moves on, or ends.                  *)
(***************************************************************************)
LEMMA OnlyHandler ==
  ASSUME ChatInv, NEW h \in Handler, handler[h].pc # "idle",
         NEW r, r = handler[h].req, Clean(r)
  PROVE  /\ r \in Request /\ r # Nobody
         /\ Active(r) = {h}
         /\ HandlerClean(h)
         /\ state[r] \in {"pending", "approved", "denied", "deleted"}
<1>1. r \in Request /\ r # Nobody
  BY BusyHandler
<1>2. h \in Active(r)
  BY DEF Active
<1> QED BY <1>1, <1>2 DEF Clean, ChatInv, TypeOK

LEMMA CleanMoves ==
  ASSUME ChatInv, NEW h \in Handler, handler[h].pc # "idle",
         NEW r, r = handler[h].req, Clean(r),
         handler'[h].req = r,
         \A g \in Handler \ {h} : handler'[g] = handler[g],
         state' = state, HandlerClean(h)'
  PROVE  Clean(r)'
<1>1. Active(r) = {h} /\ state[r] # "none"
  BY OnlyHandler
<1>2. Active(r)' = {h}
  BY <1>1 DEF Active
<1>3. (\A g, f \in Active(r) : g = f)'
  BY <1>2
<1>4. (\A g \in Active(r) : HandlerClean(g))'
  BY <1>2
<1>5. Active(r)' # {} /\ state'[r] # "none"
  BY <1>1, <1>2
<1> QED BY <1>3, <1>4, <1>5 DEF Clean

LEMMA CleanEnds ==
  ASSUME ChatInv, NEW h \in Handler, handler[h].pc # "idle",
         NEW r, r = handler[h].req, Clean(r),
         handler'[h] = Idle,
         \A g \in Handler \ {h} : handler'[g] = handler[g],
         state' = state,
         Correct(r)',
         pluginData'[r] = MessagesOf(r)'
  PROVE  Clean(r)'
<1>1. Active(r) = {h} /\ state[r] # "none" /\ r # Nobody
  BY OnlyHandler
<1>2. handler'[h].req = Nobody
  BY DEF Idle
<1>3. Active(r)' = {}
  BY <1>1, <1>2 DEF Active
<1> QED BY <1>1, <1>3 DEF Clean

-----------------------------------------------------------------------------
(***************************************************************************)
(* An event finds a clean request without a handler and, when it is the    *)
(* pending one, without messages: otherwise it is blamed.                  *)
(***************************************************************************)
LEMMA ChangeClean ==
  ASSUME ChatInv, CleanOrExcused, NEW r \in Request,
         NEW from \in SUBSET {"none", "pending", "approved", "denied"},
         NEW to \in {"pending", "approved", "denied", "deleted"},
         Change(r, from, to)
  PROVE  CleanOrExcused'
<1> DEFINE st == StatusOf(to)
<1>1. st \in Status /\ (st = "PENDING" <=> to = "pending")
  BY StatusType
<1>2. /\ about' = about /\ shown' = shown /\ pluginData' = pluginData
      /\ state' = [state EXCEPT ![r] = to]
  BY DEF Change, chatVars
<1>3. \/ /\ connected
         /\ \E h \in Handler : /\ handler[h] = Idle
                               /\ handler' = [handler EXCEPT ![h] = Spawned(r, st)]
         /\ Blame(r, (IF Active(r) # {} THEN {"overlap"} ELSE {}) \union
                     (IF st = "PENDING" /\ MessagesOf(r) # {}
                        THEN {"reposted"} ELSE {}))
      \/ Blame(r, {"event lost"}) /\ handler' = handler
  BY DEF Change, onWatcherEvent
<1>4. state'[r] = to /\ \A q \in Request \ {r} : state'[q] = state[q]
  BY <1>2 DEF ChatInv, TypeOK
<1> SUFFICES ASSUME NEW q \in Request, excuses'[q] = {}
             PROVE  Clean(q)'
  BY DEF CleanOrExcused
<1>5. CASE q # r
  <2>1. excuses[q] = {}
    BY <1>3, <1>5, BlameStays DEF ChatInv
  <2>2. Clean(q)
    BY <2>1 DEF CleanOrExcused
  <2>3. \A h \in Handler : \/ handler'[h] = handler[h]
                           \/ handler[h].req # q /\ handler'[h].req # q
    <3>1. CASE handler' = handler
      BY <3>1
    <3>2. ASSUME NEW h \in Handler, handler[h] = Idle,
                 handler' = [handler EXCEPT ![h] = Spawned(r, st)]
          PROVE  \A g \in Handler : \/ handler'[g] = handler[g]
                                    \/ handler[g].req # q /\ handler'[g].req # q
      <4>1. /\ handler'[h] = Spawned(r, st)
            /\ \A g \in Handler \ {h} : handler'[g] = handler[g]
        BY <3>2 DEF ChatInv, TypeOK
      <4>2. handler'[h].req = r
        BY <1>1, <4>1, HandlerRecords
      <4>3. handler[h].req = Nobody
        BY <3>2 DEF Idle
      <4> QED BY <1>5, <4>1, <4>2, <4>3, ChatAssumption
    <3> QED BY <1>3, <3>1, <3>2
  <2> QED BY <1>2, <1>4, <1>5, <2>2, <2>3, UntouchedClean
<1>6. CASE q = r
  <2>1. /\ excuses[r] = {}
        /\ Active(r) = {}
        /\ st = "PENDING" => MessagesOf(r) = {}
        /\ \E h \in Handler : /\ handler[h] = Idle
                              /\ handler' = [handler EXCEPT ![h] = Spawned(r, st)]
    <3> DEFINE told == (IF Active(r) # {} THEN {"overlap"} ELSE {}) \union
                       (IF st = "PENDING" /\ MessagesOf(r) # {}
                          THEN {"reposted"} ELSE {})
    <3>1. CASE Blame(r, {"event lost"})
      <4>1. excuses'[r] = excuses[r] \union {"event lost"}
        BY <3>1, BlameStays DEF ChatInv
      <4> QED BY <1>6, <4>1
    <3>2. CASE Blame(r, told)
      <4>1. excuses'[r] = excuses[r] \union told
        BY <3>2, BlameStays DEF ChatInv
      <4>2. excuses[r] = {} /\ told = {}
        BY <1>6, <4>1
      <4>3. Active(r) = {} /\ ~(st = "PENDING" /\ MessagesOf(r) # {})
        BY <4>2
      <4> QED BY <1>3, <3>2, <4>2, <4>3, <1>6, <3>1
    <3> QED BY <1>3, <3>1, <3>2
  <2>2. Clean(r)
    BY <2>1 DEF CleanOrExcused
  <2>3. PICK h \in Handler : handler' = [handler EXCEPT ![h] = Spawned(r, st)]
    BY <2>1
  <2>4. /\ handler'[h] = Spawned(r, st)
        /\ \A g \in Handler \ {h} : handler'[g] = handler[g]
    BY <2>3 DEF ChatInv, TypeOK
  <2>5. /\ handler'[h].req = r
        /\ handler'[h].status = st
        /\ handler'[h].failed = FALSE
        /\ handler'[h].pc = IF st = "PENDING" THEN "recipients" ELSE "reading"
    BY <1>1, <2>4, HandlerRecords DEF Spawned, Idle
  <2>6. MessagesOf(r)' = MessagesOf(r)
    BY <1>2 DEF MessagesOf
  <2>7. Active(r)' = {h}
    BY <2>1, <2>4, <2>5 DEF Active
  <2>8. pluginData'[r] = MessagesOf(r)
    BY <1>2, <2>1, <2>2 DEF Clean
  <2>9. HandlerClean(h)'
    BY <1>4, <2>1, <2>5, <2>6, <2>8 DEF HandlerClean
  <2> QED BY <1>4, <1>6, <2>7, <2>9 DEF Clean
<1> QED BY <1>5, <1>6

-----------------------------------------------------------------------------
(***************************************************************************)
(* A step of a handler does not touch another request than its own.        *)
(***************************************************************************)
LEMMA OthersClean ==
  ASSUME ChatInv, CleanOrExcused, NEW h \in Handler, handler[h].pc # "idle",
         state' = state,
         NEW q \in Request, q # handler[h].req, excuses'[q] = {},
         excuses[q] \subseteq excuses'[q],
         pluginData'[q] = pluginData[q],
         \A m \in Message : \/ about'[m] = about[m]
                            \/ about[m] = Nobody /\ about'[m] = handler[h].req,
         \A m \in Message : shown'[m] = shown[m] \/ about[m] = handler[h].req,
         \A g \in Handler \ {h} : handler'[g] = handler[g],
         handler'[h] = Idle \/ handler'[h].req = handler[h].req
  PROVE  Clean(q)'
<1>1. handler[h].req \in Request
  BY BusyHandler
<1>2. Clean(q)
  BY DEF CleanOrExcused
<1>3. \A m \in Message : about'[m] = q <=> about[m] = q
  BY ChatAssumption
<1>4. \A m \in MessagesOf(q) : shown'[m] = shown[m]
  BY DEF MessagesOf
<1>5. \A g \in Handler : \/ handler'[g] = handler[g]
                         \/ handler[g].req # q /\ handler'[g].req # q
  BY ChatAssumption DEF Idle
<1> QED BY <1>2, <1>3, <1>4, <1>5, UntouchedClean

(***************************************************************************)
(* What ChatInv says of the messages of a busy handler and its request.    *)
(***************************************************************************)
LEMMA OwnMessages ==
  ASSUME ChatInv, NEW h \in Handler, handler[h].pc # "idle",
         NEW r, r = handler[h].req
  PROVE  /\ r \in Request /\ r # Nobody
         /\ handler \in [Handler -> HandlerState]
         /\ handler[h] \in HandlerState
         /\ handler[h].data \subseteq MessagesOf(r)
         /\ pluginData[r] \subseteq MessagesOf(r)
         /\ MessagesOf(r) \subseteq Message
         /\ excuses \in [Request -> SUBSET Excuse]
<1>1. r \in Request /\ r # Nobody /\ handler[h] \in HandlerState
  BY BusyHandler
<1>2. handler[h].data \subseteq Message /\ pluginData[r] \subseteq Message
  BY <1>1 DEF HandlerState, ChatInv, TypeOK
<1> QED BY <1>1, <1>2 DEF ChatInv, TypeOK, HandlerDataOwn, MessagesOf

(***************************************************************************)
(* The recipients are looked up while the request has no messages.         *)
(***************************************************************************)
LEMMA RecipientsClean ==
  ASSUME ChatInv, CleanOrExcused, NEW h \in Handler, getMessageRecipients(h)
  PROVE  CleanOrExcused'
<1>1. PICK r : r = handler[h].req
  OBVIOUS
<1>2. handler[h].pc = "recipients"
  BY DEF getMessageRecipients, At
<1>3. UNCHANGED <<state, pluginData, about, shown, excuses>>
  BY DEF getMessageRecipients, authVars, chatVars
<1>4. PICK new : Goto(h, new) /\ (new = Idle \/ \E channels :
        new = [handler[h] EXCEPT !.pc = "posting", !.channels = channels])
  BY DEF getMessageRecipients, End
<1>5. handler'[h] = new /\ \A g \in Handler \ {h} : handler'[g] = handler[g]
  BY <1>4 DEF Goto, ChatInv, TypeOK
<1>6. \/ new = Idle
      \/ /\ new.pc = "posting" /\ new.req = r
         /\ new.status = handler[h].status
         /\ new.data = handler[h].data
         /\ new.failed = handler[h].failed
  BY <1>1, <1>2, <1>4, OwnMessages DEF HandlerState
<1> SUFFICES ASSUME NEW q \in Request, excuses'[q] = {}
             PROVE  Clean(q)'
  BY DEF CleanOrExcused
<1>7. CASE q # r
  BY <1>1, <1>2, <1>3, <1>5, <1>6, <1>7, OthersClean
<1>8. CASE q = r
  <2>1. Clean(r)
    BY <1>3, <1>8 DEF CleanOrExcused
  <2>2. HandlerClean(h) /\ MessagesOf(r) = {}
    BY <1>1, <1>2, <2>1, OnlyHandler DEF HandlerClean
  <2>3. /\ handler[h].data = {} /\ pluginData[r] = {}
        /\ MessagesOf(r)' = {}
    BY <1>1, <1>2, <1>3, <2>2, OwnMessages DEF MessagesOf
  <2>4. CASE new = Idle
    <3>1. Correct(r)' /\ pluginData'[r] = MessagesOf(r)'
      BY <1>3, <2>3 DEF Correct
    <3> QED BY <1>1, <1>2, <1>3, <1>5, <1>8, <2>1, <2>4, <3>1, CleanEnds
  <2>5. CASE new # Idle
    <3>1. HandlerClean(h)'
      BY <1>1, <1>3, <1>5, <1>6, <2>2, <2>3, <2>5 DEF HandlerClean
    <3>2. handler'[h].req = r
      BY <1>5, <1>6, <2>5
    <3> QED BY <1>1, <1>2, <1>3, <1>5, <1>8, <2>1, <3>1, <3>2, CleanMoves
  <2> QED BY <2>4, <2>5
<1> QED BY <1>7, <1>8

(***************************************************************************)
(* Broadcast: a call that fails is blamed, one that does not puts its      *)
(* message among those of the handler.                                     *)
(***************************************************************************)
LEMMA BroadcastClean ==
  ASSUME ChatInv, CleanOrExcused, NEW h \in Handler, Broadcast(h)
  PROVE  CleanOrExcused'
<1>1. PICK r : r = handler[h].req
  OBVIOUS
<1>2. handler[h].pc = "posting"
  BY DEF Broadcast, At
<1>3. UNCHANGED <<state, pluginData, shown>>
  BY DEF Broadcast, authVars
<1>4. /\ r \in Request /\ r # Nobody
      /\ handler[h] \in HandlerState /\ handler \in [Handler -> HandlerState]
  BY <1>1, <1>2, OwnMessages
<1>5. PICK c \in handler[h].channels :
        (\E m \in {c} \X Stamp : Posted(h, m)) \/ NotPosted(h, c)
  BY DEF Broadcast
<1>6. c \in Channel
  BY <1>4, <1>5 DEF HandlerState
<1>7. \/ about' = about
      \/ \E m \in Message : about[m] = Nobody /\ about' = [about EXCEPT ![m] = r]
  BY <1>1, <1>5, <1>6 DEF Posted, NotPosted, NewMessage, Message
<1>8. \A m \in Message : \/ about'[m] = about[m]
                         \/ about[m] = Nobody /\ about'[m] = r
  BY <1>7 DEF ChatInv, TypeOK
<1>9. /\ handler'[h].req = r
      /\ \A g \in Handler \ {h} : handler'[g] = handler[g]
  <2>1. CASE NotPosted(h, c)
    BY <1>1, <1>4, <2>1 DEF NotPosted, Goto, HandlerState
  <2>2. ASSUME NEW m \in {c} \X Stamp, Posted(h, m)
        PROVE  /\ handler'[h].req = r
               /\ \A g \in Handler \ {h} : handler'[g] = handler[g]
    BY <1>1, <1>4, <2>2 DEF Posted, Goto, HandlerState
  <2> QED BY <1>5, <2>1, <2>2
<1>10. NoFault \/ Fault(r)
  BY <1>1, <1>5 DEF Posted, NotPosted
<1> SUFFICES ASSUME NEW q \in Request, excuses'[q] = {}
             PROVE  Clean(q)'
  BY DEF CleanOrExcused
<1>11. excuses[q] \subseteq excuses'[q] /\ (q = r => NoFault)
  BY <1>4, <1>10, FaultStays DEF ChatInv
<1>12. CASE q # r
  BY <1>1, <1>2, <1>3, <1>8, <1>9, <1>11, <1>12, OthersClean
<1>13. CASE q = r
  <2>1. Clean(r)
    BY <1>11, <1>13 DEF CleanOrExcused
  <2>2. /\ HandlerClean(h)
        /\ handler[h].data = MessagesOf(r)
        /\ \A m \in MessagesOf(r) : shown[m] = "PENDING"
    BY <1>1, <1>2, <2>1, OnlyHandler DEF HandlerClean
  <2>3. ~NotPosted(h, c)
    <3> SUFFICES ASSUME NotPosted(h, c)
                 PROVE  FALSE
      OBVIOUS
    <3>1. Blame(r, {"call failed"})
      BY <1>1 DEF NotPosted, Fault
    <3>2. excuses'[r] = excuses[r] \union {"call failed"}
      BY <1>4, <3>1, BlameStays DEF ChatInv
    <3> QED BY <1>13, <3>2
  <2>4. PICK m \in {c} \X Stamp : Posted(h, m)
    BY <1>5, <2>3
  <2>5. m \in Message /\ about[m] = Nobody /\ about' = [about EXCEPT ![m] = r]
    BY <1>1, <1>6, <2>4 DEF Posted, NewMessage, Message
  <2>6. MessagesOf(r)' = MessagesOf(r) \union {m}
    BY <2>5 DEF MessagesOf, ChatInv, TypeOK
  <2>7. /\ handler'[h].pc = "posting"
        /\ handler'[h].status = handler[h].status
        /\ handler'[h].failed = handler[h].failed
        /\ handler'[h].data = handler[h].data \union {m}
    BY <1>2, <1>4, <2>4 DEF Posted, Goto, HandlerState
  <2>8. shown[m] = "PENDING"
    BY <2>5 DEF ChatInv, FreshPending
  <2>9. HandlerClean(h)'
    BY <1>1, <1>3, <1>9, <2>2, <2>6, <2>7, <2>8 DEF HandlerClean
  <2> QED BY <1>1, <1>2, <1>3, <1>9, <1>13, <2>1, <2>9, CleanMoves
<1> QED BY <1>12, <1>13

(***************************************************************************)
(* The loop of Broadcast is over without a failure: the data is saved.     *)
(***************************************************************************)
LEMMA BroadcastDoneClean ==
  ASSUME ChatInv, CleanOrExcused, NEW h \in Handler, BroadcastDone(h)
  PROVE  CleanOrExcused'
<1>1. PICK r : r = handler[h].req
  OBVIOUS
<1>2. handler[h].pc = "posting"
  BY DEF BroadcastDone, At
<1>3. UNCHANGED <<state, pluginData, about, shown, excuses>>
  BY DEF BroadcastDone, authVars, chatVars
<1>4. PICK new : /\ Goto(h, new)
                 /\ \/ new = Idle /\ handler[h].failed
                    \/ new = [handler[h] EXCEPT !.pc = "saving"]
  BY DEF BroadcastDone, End
<1>5. handler'[h] = new /\ \A g \in Handler \ {h} : handler'[g] = handler[g]
  BY <1>4 DEF Goto, ChatInv, TypeOK
<1>6. \/ new = Idle /\ handler[h].failed
      \/ /\ new.pc = "saving" /\ new.req = r
         /\ new.status = handler[h].status
         /\ new.data = handler[h].data
         /\ new.failed = handler[h].failed
  BY <1>1, <1>2, <1>4, OwnMessages DEF HandlerState
<1> SUFFICES ASSUME NEW q \in Request, excuses'[q] = {}
             PROVE  Clean(q)'
  BY DEF CleanOrExcused
<1>7. CASE q # r
  BY <1>1, <1>2, <1>3, <1>5, <1>6, <1>7, OthersClean
<1>8. CASE q = r
  <2>1. Clean(r)
    BY <1>3, <1>8 DEF CleanOrExcused
  <2>2. HandlerClean(h)
    BY <1>1, <1>2, <2>1, OnlyHandler
  <2>4. MessagesOf(r)' = MessagesOf(r)
    BY <1>3 DEF MessagesOf
  <2>5. HandlerClean(h)' /\ handler'[h].req = r
    BY <1>1, <1>2, <1>3, <1>5, <1>6, <2>2, <2>4 DEF HandlerClean
  <2> QED BY <1>1, <1>2, <1>3, <1>5, <1>8, <2>1, <2>5, CleanMoves
<1> QED BY <1>7, <1>8

(***************************************************************************)
(* The data of a clean request is saved as long as it is pending.          *)
(***************************************************************************)
LEMMA SavingClean ==
  ASSUME ChatInv, CleanOrExcused, NEW h \in Handler, setPluginData(h)
  PROVE  CleanOrExcused'
<1>1. PICK r : r = handler[h].req
  OBVIOUS
<1>2. handler[h].pc = "saving"
  BY DEF setPluginData, At
<1>3. UNCHANGED <<state, about, shown>>
  BY DEF setPluginData, authVars, chatVars
<1>4. /\ r \in Request /\ r # Nobody
      /\ handler[h] \in HandlerState /\ handler \in [Handler -> HandlerState]
  BY <1>1, <1>2, OwnMessages
<1>5. handler'[h] = Idle /\ \A g \in Handler \ {h} : handler'[g] = handler[g]
  BY <1>4 DEF setPluginData, End, Goto
<1>6. NoFault \/ Fault(r)
  BY <1>1 DEF setPluginData
<1>7. \A q \in Request \ {r} : pluginData'[q] = pluginData[q]
  BY <1>1, <1>4 DEF setPluginData, ChatInv, TypeOK
<1> SUFFICES ASSUME NEW q \in Request, excuses'[q] = {}
             PROVE  Clean(q)'
  BY DEF CleanOrExcused
<1>8. excuses[q] \subseteq excuses'[q] /\ (q = r => NoFault)
  BY <1>4, <1>6, FaultStays DEF ChatInv
<1>9. CASE q # r
  BY <1>1, <1>2, <1>3, <1>5, <1>7, <1>8, <1>9, OthersClean
<1>10. CASE q = r
  <2>1. Clean(r)
    BY <1>8, <1>10 DEF CleanOrExcused
  <2>2. /\ HandlerClean(h)
        /\ state[r] \in {"pending", "approved", "denied", "deleted"}
        /\ handler[h].status = StatusOf(state[r])
        /\ handler[h].data = MessagesOf(r)
        /\ \A m \in MessagesOf(r) : shown[m] = "PENDING"
    BY <1>1, <1>2, <2>1, OnlyHandler DEF HandlerClean
  <2>3. state[r] = "pending" /\ StatusOf(state[r]) = "PENDING"
    BY <1>2, <2>2, BusyHandler, StatusType
  <2>4. ~Fault(r)
    <3> SUFFICES ASSUME Fault(r)
                 PROVE  FALSE
      OBVIOUS
    <3>1. excuses'[r] = excuses[r] \union {"call failed"}
      BY <1>4, BlameStays DEF Fault, ChatInv
    <3> QED BY <1>10, <3>1
  <2>5. pluginData' = [pluginData EXCEPT ![r] = handler[h].data]
    BY <1>1, <2>3, <2>4 DEF setPluginData
  <2>6. pluginData'[r] = MessagesOf(r)
    BY <1>4, <2>2, <2>5 DEF ChatInv, TypeOK
  <2>7. MessagesOf(r)' = MessagesOf(r)
    BY <1>3 DEF MessagesOf
  <2>8. Correct(r)'
    BY <1>3, <2>2, <2>3, <2>7 DEF Correct
  <2> QED BY <1>1, <1>2, <1>3, <1>5, <1>10, <2>1, <2>6, <2>7, <2>8, CleanEnds
<1> QED BY <1>9, <1>10

(***************************************************************************)
(* The data that is read names all messages of a clean request.            *)
(***************************************************************************)
LEMMA ReadingClean ==
  ASSUME ChatInv, CleanOrExcused, NEW h \in Handler, getPluginData(h)
  PROVE  CleanOrExcused'
<1>1. PICK r : r = handler[h].req
  OBVIOUS
<1>2. handler[h].pc = "reading"
  BY DEF getPluginData, At
<1>3. UNCHANGED <<state, pluginData, about, shown>>
  BY DEF getPluginData, authVars, chatVars
<1>4. /\ r \in Request /\ r # Nobody
      /\ handler[h] \in HandlerState /\ handler \in [Handler -> HandlerState]
  BY <1>1, <1>2, OwnMessages
<1>5. PICK new :
        /\ Goto(h, new)
        /\ \/ Fault(r) /\ new = Idle
           \/ NoFault /\ new = Idle /\ pluginData[r] = {}
           \/ NoFault /\ new = [handler[h] EXCEPT !.pc = "updating", !.data = pluginData[r]]
  BY <1>1 DEF getPluginData, End
<1>6. handler'[h] = new /\ \A g \in Handler \ {h} : handler'[g] = handler[g]
  BY <1>4, <1>5 DEF Goto
<1>7. \/ Fault(r) /\ new = Idle
      \/ NoFault /\ new = Idle /\ pluginData[r] = {}
      \/ /\ NoFault
         /\ new.pc = "updating" /\ new.req = r
         /\ new.status = handler[h].status
         /\ new.data = pluginData[r]
         /\ new.failed = handler[h].failed
  BY <1>1, <1>4, <1>5 DEF HandlerState
<1> SUFFICES ASSUME NEW q \in Request, excuses'[q] = {}
             PROVE  Clean(q)'
  BY DEF CleanOrExcused
<1>8. excuses[q] \subseteq excuses'[q]
  BY <1>4, <1>5, FaultStays DEF ChatInv
<1>9. CASE q # r
  BY <1>1, <1>2, <1>3, <1>6, <1>7, <1>8, <1>9, OthersClean
<1>10. CASE q = r
  <2>1. Clean(r)
    BY <1>8, <1>10 DEF CleanOrExcused
  <2>2. HandlerClean(h) /\ pluginData[r] = MessagesOf(r)
    BY <1>1, <1>2, <2>1, OnlyHandler DEF HandlerClean
  <2>3. ~Fault(r)
    <3> SUFFICES ASSUME Fault(r)
                 PROVE  FALSE
      OBVIOUS
    <3>1. excuses'[r] = excuses[r] \union {"call failed"}
      BY <1>4, BlameStays DEF Fault, ChatInv
    <3> QED BY <1>10, <3>1
  <2>4. MessagesOf(r)' = MessagesOf(r)
    BY <1>3 DEF MessagesOf
  <2>5. CASE new = Idle /\ pluginData[r] = {}
    <3>1. Correct(r)' /\ pluginData'[r] = MessagesOf(r)'
      BY <1>3, <2>2, <2>4, <2>5 DEF Correct
    <3> QED BY <1>1, <1>2, <1>3, <1>6, <1>10, <2>1, <2>5, <3>1, CleanEnds
  <2>6. CASE /\ new.pc = "updating" /\ new.req = r
             /\ new.status = handler[h].status
             /\ new.data = pluginData[r]
             /\ new.failed = handler[h].failed
    <3>1. HandlerClean(h)' /\ handler'[h].req = r
      BY <1>1, <1>3, <1>6, <2>2, <2>4, <2>6 DEF HandlerClean
    <3> QED BY <1>1, <1>2, <1>3, <1>6, <1>10, <2>1, <3>1, CleanMoves
  <2> QED BY <1>7, <2>3, <2>5, <2>6
<1> QED BY <1>9, <1>10

(***************************************************************************)
(* A message leaves the data of its handler once it shows the status.      *)
(***************************************************************************)
LEMMA UpdateClean ==
  ASSUME ChatInv, CleanOrExcused, NEW h \in Handler, UpdateMessages(h)
  PROVE  CleanOrExcused'
<1>1. PICK r : r = handler[h].req
  OBVIOUS
<1>2. handler[h].pc = "updating"
  BY DEF UpdateMessages, At
<1>3. UNCHANGED <<state, pluginData, about>>
  BY DEF UpdateMessages, authVars
<1>4. /\ r \in Request /\ r # Nobody
      /\ handler[h] \in HandlerState /\ handler \in [Handler -> HandlerState]
      /\ handler[h].data \subseteq MessagesOf(r)
      /\ MessagesOf(r) \subseteq Message
  BY <1>1, <1>2, OwnMessages
<1>5. PICK m \in handler[h].data :
        \/ /\ Show(h, m)
           /\ NoFault
           /\ Goto(h, [handler[h] EXCEPT !.data = @ \ {m}])
        \/ /\ Fault(r)
           /\ UNCHANGED shown \/ Show(h, m)
           /\ Goto(h, [handler[h] EXCEPT !.data = @ \ {m}, !.failed = TRUE])
  BY <1>1 DEF UpdateMessages
<1>6. m \in Message /\ about[m] = r
  BY <1>4 DEF MessagesOf
<1>7. /\ handler'[h].req = r
      /\ \A g \in Handler \ {h} : handler'[g] = handler[g]
  <2>1. CASE Goto(h, [handler[h] EXCEPT !.data = @ \ {m}])
    BY <1>1, <1>4, <2>1 DEF Goto, HandlerState
  <2>2. CASE Goto(h, [handler[h] EXCEPT !.data = @ \ {m}, !.failed = TRUE])
    BY <1>1, <1>4, <2>2 DEF Goto, HandlerState
  <2> QED BY <1>5, <2>1, <2>2
<1>8. \A n \in Message : shown'[n] = shown[n] \/ about[n] = r
  BY <1>5, <1>6 DEF Show, ChatInv, TypeOK
<1>9. NoFault \/ Fault(r)
  BY <1>5
<1> SUFFICES ASSUME NEW q \in Request, excuses'[q] = {}
             PROVE  Clean(q)'
  BY DEF CleanOrExcused
<1>10. excuses[q] \subseteq excuses'[q]
  BY <1>4, <1>9, FaultStays DEF ChatInv
<1>11. CASE q # r
  BY <1>1, <1>2, <1>3, <1>7, <1>8, <1>10, <1>11, OthersClean
<1>12. CASE q = r
  <2>1. Clean(r)
    BY <1>10, <1>12 DEF CleanOrExcused
  <2>2. /\ HandlerClean(h)
        /\ pluginData[r] = MessagesOf(r)
        /\ \A n \in MessagesOf(r) \ handler[h].data : shown[n] = handler[h].status
    BY <1>1, <1>2, <2>1, OnlyHandler DEF HandlerClean
  <2>3. ~Fault(r)
    <3> SUFFICES ASSUME Fault(r)
                 PROVE  FALSE
      OBVIOUS
    <3>1. excuses'[r] = excuses[r] \union {"call failed"}
      BY <1>4, BlameStays DEF Fault, ChatInv
    <3> QED BY <1>12, <3>1
  <2>4. MessagesOf(r)' = MessagesOf(r)
    BY <1>3 DEF MessagesOf
  <2>5. /\ handler'[h].pc = "updating"
        /\ handler'[h].status = handler[h].status
        /\ handler'[h].failed = handler[h].failed
        /\ handler'[h].data = handler[h].data \ {m}
    BY <1>2, <1>4, <1>5, <2>3 DEF Goto, HandlerState
  <2>6. shown' = [shown EXCEPT ![m] = handler[h].status]
    BY <1>5, <2>3 DEF Show
  <2>7. \A n \in MessagesOf(r) \ (handler[h].data \ {m}) : shown'[n] = handler[h].status
    BY <1>4, <1>6, <2>2, <2>6 DEF ChatInv, TypeOK
  <2>8. HandlerClean(h)'
    BY <1>1, <1>3, <1>7, <2>2, <2>4, <2>5, <2>7 DEF HandlerClean
  <2> QED BY <1>1, <1>2, <1>3, <1>7, <1>12, <2>1, <2>8, CleanMoves
<1> QED BY <1>11, <1>12

(***************************************************************************)
(* When no message is left all of them show the status.                    *)
(***************************************************************************)
LEMMA UpdateDoneClean ==
  ASSUME ChatInv, CleanOrExcused, NEW h \in Handler, UpdateDone(h)
  PROVE  CleanOrExcused'
<1>1. PICK r : r = handler[h].req
  OBVIOUS
<1>2. handler[h].pc = "updating" /\ handler[h].data = {}
  BY DEF UpdateDone, At
<1>3. UNCHANGED <<state, pluginData, about, shown, excuses>>
  BY DEF UpdateDone, authVars, chatVars
<1>4. handler'[h] = Idle /\ \A g \in Handler \ {h} : handler'[g] = handler[g]
  BY DEF UpdateDone, End, Goto, ChatInv, TypeOK
<1> SUFFICES ASSUME NEW q \in Request, excuses'[q] = {}
             PROVE  Clean(q)'
  BY DEF CleanOrExcused
<1>5. CASE q # r
  BY <1>1, <1>2, <1>3, <1>4, <1>5, OthersClean
<1>6. CASE q = r
  <2>1. Clean(r)
    BY <1>3, <1>6 DEF CleanOrExcused
  <2>2. HandlerClean(h)
    BY <1>1, <1>2, <2>1, OnlyHandler
  <2>3. /\ pluginData[r] = MessagesOf(r)
        /\ \A m \in MessagesOf(r) : shown[m] = StatusOf(state[r])
    BY <1>1, <1>2, <2>2 DEF HandlerClean
  <2>4. MessagesOf(r)' = MessagesOf(r)
    BY <1>3 DEF MessagesOf
  <2>5. Correct(r)' /\ pluginData'[r] = MessagesOf(r)'
    BY <1>3, <2>3, <2>4 DEF Correct
  <2> QED BY <1>1, <1>2, <1>3, <1>4, <1>6, <2>1, <2>5, CleanEnds
<1> QED BY <1>5, <1>6

(***************************************************************************)
(* A crash is blamed by every request it takes a handler from; the data of *)
(* a request that expires is blamed too.                                   *)
(***************************************************************************)
LEMMA CrashClean ==
  ASSUME ChatInv, CleanOrExcused, Crash
  PROVE  CleanOrExcused'
<1> SUFFICES ASSUME NEW q \in Request, excuses'[q] = {}
             PROVE  Clean(q)'
  BY DEF CleanOrExcused
<1>1. Active(q) = {} /\ excuses[q] = {}
  BY DEF Crash
<1>2. Clean(q)
  BY <1>1 DEF CleanOrExcused
<1>3. \A h \in Handler : handler[h].req # q /\ handler'[h].req # q
  BY <1>1, ChatAssumption DEF Active, Crash, Idle
<1>4. UNCHANGED <<state, pluginData, about, shown>>
  BY DEF Crash, authVars, chatVars
<1> QED BY <1>2, <1>3, <1>4, UntouchedClean

LEMMA ExpireClean ==
  ASSUME ChatInv, CleanOrExcused, NEW r \in Request, ExpireData(r)
  PROVE  CleanOrExcused'
<1> SUFFICES ASSUME NEW q \in Request, excuses'[q] = {}
             PROVE  Clean(q)'
  BY DEF CleanOrExcused
<1>1. UNCHANGED <<state, about, shown, handler>>
  BY DEF ExpireData, authVars, chatVars
<1>2. /\ excuses'[r] = excuses[r] \union {"data expired"}
      /\ \A p \in Request \ {r} : excuses'[p] = excuses[p]
  BY BlameStays DEF ExpireData, ChatInv
<1>3. q # r /\ excuses[q] = {}
  BY <1>2
<1>4. pluginData'[q] = pluginData[q]
  BY <1>3 DEF ExpireData, ChatInv, TypeOK
<1>5. Clean(q)
  BY <1>3 DEF CleanOrExcused
<1> QED BY <1>1, <1>4, <1>5, UntouchedClean

(***************************************************************************)
(* Every step keeps it.                                                    *)
(***************************************************************************)
LEMMA NextClean ==
  ASSUME ChatInv, CleanOrExcused, [Next]_vars
  PROVE  CleanOrExcused'
<1>1. ASSUME NEW r \in Request, AuthServer(r)
      PROVE  CleanOrExcused'
  <2>1. CASE Create(r)
    BY <2>1, ChangeClean DEF Create
  <2>2. CASE Review(r)
    BY <2>2, ChangeClean DEF Review
  <2>3. CASE Approve(r)
    BY <2>3, ChangeClean DEF Approve
  <2>4. CASE Deny(r)
    BY <2>4, ChangeClean DEF Deny
  <2>5. CASE Delete(r)
    BY <2>5, ChangeClean DEF Delete
  <2> QED BY <1>1, <2>1, <2>2, <2>3, <2>4, <2>5, ExpireClean DEF AuthServer
<1>2. ASSUME NEW h \in Handler, HandlerStep(h)
      PROVE  CleanOrExcused'
  BY <1>2, RecipientsClean, BroadcastClean, BroadcastDoneClean, SavingClean,
     ReadingClean, UpdateClean, UpdateDoneClean DEF HandlerStep
<1>3. CASE Disconnect \/ Reconnect \/ UNCHANGED vars
  <2>1. UNCHANGED <<state, pluginData, about, shown, handler, excuses>>
    BY <1>3 DEF Disconnect, Reconnect, vars, authVars, chatVars
  <2> SUFFICES ASSUME NEW q \in Request, excuses'[q] = {}
               PROVE  Clean(q)'
    BY DEF CleanOrExcused
  <2>2. Clean(q)
    BY <2>1 DEF CleanOrExcused
  <2> QED BY <2>1, <2>2, UntouchedClean
<1> QED BY <1>1, <1>2, <1>3, CrashClean DEF Next

(***************************************************************************)
(* When no handler of a request is left, its messages show its state       *)
(* unless one of the listed things went wrong for it.                      *)
(***************************************************************************)
THEOREM ChatCorrectOrExcused == Spec => []CorrectOrExcused
<1>1. Init => CleanOrExcused
  <2> SUFFICES ASSUME Init, NEW r \in Request
               PROVE  Clean(r)
    BY DEF CleanOrExcused
  <2>1. MessagesOf(r) = {} /\ Active(r) = {} /\ pluginData[r] = {}
    BY ChatAssumption DEF Init, MessagesOf, Active, Idle
  <2> QED BY <2>1 DEF Clean, Correct
<1>2. CleanOrExcused => CorrectOrExcused
  BY DEF CleanOrExcused, Clean, CorrectOrExcused
<1> QED
  BY <1>1, <1>2, NextClean, ChatInvariant, PTL DEF Spec
=============================================================================
