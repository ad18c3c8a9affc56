----------------------------- MODULE ChatPlugin ------------------------------
(***************************************************************************)
(* The Slack and Mattermost plugins (access/slack, access/mattermost):     *)
(* the life of an access request in the channels.                          *)
(*                                                                         *)
(* The watcher spawns one job for each event it receives, so the handlers  *)
(* of one request run concurrently and in any order.  A PUT of a pending   *)
(* request is broadcast and the posted messages are saved in the plugin    *)
(* data of the request; a PUT of a resolved one and a DELETE read the      *)
(* plugin data back and update every message found there.  Every remote    *)
(* call can fail, also because the 5 s of the handler are over, and a call *)
(* that fails may still have had its effect.  Events sent while the        *)
(* watcher is not connected are lost.                                      *)
(*                                                                         *)
(* The auth server and the chat server are external: what they do is taken *)
(* from how the plugins use them.                                          *)
(***************************************************************************)
EXTENDS Naturals, FiniteSets

CONSTANTS
  Request, Channel, Handler,
  Stamp,                 \* timestamps (slack), post ids (mattermost)
  Nobody,                \* no request
  MaxPending,            \* bound on the pending PUT events of one request
  MaxFaults              \* bound on failed calls, lost connections, crashes

ASSUME ChatAssumption == Nobody \notin Request

VARIABLES
  state,                 \* auth server: [Request -> state]
  pluginData,            \* auth server: [Request -> messages in plugin data]
  about, shown,          \* chat server: request and status of a message
  connected,             \* is the watcher connected?
  handler,               \* [Handler -> control state and locals]
  history,               \* statuses a request has had
  pendingEvents,         \* number of pending PUT events of a request
  excuses,               \* what went wrong for a request
  faults                 \* number of faults so far

authVars == <<state, history, pendingEvents>>
chatVars == <<about, shown>>
vars == <<state, pluginData, about, shown, connected, handler, history,
          pendingEvents, excuses, faults>>

\* A message is found by its channel and its timestamp or post id.  A channel
\* is what it is addressed by: in Slack the name and the id of a channel are
\* two of them.
Message == Channel \X Stamp

Resolution == {"APPROVED", "DENIED", "EXPIRED"}
Status == Resolution \union {"PENDING"}
Excuse == {"call failed", "event lost", "crash", "overlap", "reposted",
           "data expired"}

\* A slip: the name of the operation instead of the status.
StatusOfOperation(s) == CASE s = "pending"  -> "PENDING"
                          [] s = "approved" -> "APPROVED"
                          [] s = "denied"   -> "DENIED"
                          [] s = "deleted"  -> "DELETED"

\* StatusOf(s): what the messages of a request in state s should show.
StatusOf(s) == CASE s = "pending"  -> "PENDING"
                 [] s = "approved" -> "APPROVED"
                 [] s = "denied"   -> "DENIED"
                 [] s = "deleted"  -> "EXPIRED"

HandlerState ==
  [pc : {"idle", "recipients", "posting", "saving", "reading", "updating"},
   req : Request \union {Nobody},
   status : Status,
   channels : SUBSET Channel,       \* still to be posted to
   data : SUBSET Message,           \* posted so far, or still to be updated
   failed : BOOLEAN]                \* did a call of the loop fail?

Idle == [pc |-> "idle", req |-> Nobody, status |-> "PENDING",
         channels |-> {}, data |-> {}, failed |-> FALSE]

TypeOK ==
  /\ state \in [Request -> {"none", "pending", "approved", "denied", "deleted"}]
  /\ pluginData \in [Request -> SUBSET Message]
  /\ about \in [Message -> Request \union {Nobody}]
  /\ shown \in [Message -> Status]
  /\ connected \in BOOLEAN
  /\ handler \in [Handler -> HandlerState]
  /\ history \in [Request -> SUBSET Status]
  /\ pendingEvents \in [Request -> Nat]
  /\ excuses \in [Request -> SUBSET Excuse]
  /\ faults \in Nat

Init ==
  /\ state = [r \in Request |-> "none"]
  /\ pluginData = [r \in Request |-> {}]
  /\ about = [m \in Message |-> Nobody]
  /\ shown = [m \in Message |-> "PENDING"]
  /\ connected = TRUE
  /\ handler = [h \in Handler |-> Idle]
  /\ history = [r \in Request |-> {}]
  /\ pendingEvents = [r \in Request |-> 0]
  /\ excuses = [r \in Request |-> {}]
  /\ faults = 0

Active(r) == {h \in Handler : handler[h].req = r}
MessagesOf(r) == {m \in Message : about[m] = r}

Blame(r, what) == excuses' = [excuses EXCEPT ![r] = @ \union what]

\* A fault of a remote call made for request r.
Fault(r) ==
  /\ faults < MaxFaults
  /\ faults' = faults + 1
  /\ Blame(r, {"call failed"})
NoFault == UNCHANGED <<faults, excuses>>

-----------------------------------------------------------------------------
(***************************************************************************)
(* Auth server.  A request is created, reviewed, resolved (approved may    *)
(* become denied, never the other way round) and deleted.  Every change is *)
(* an event, which the connected watcher turns into a job at once.         *)
(***************************************************************************)
\* A slip: a pending event of a request already announced updates its messages.
SpawnedRefresh(r, status) ==
  [Idle EXCEPT !.pc = IF status = "PENDING" /\ MessagesOf(r) = {}
                        THEN "recipients" ELSE "reading",
               !.req = r,
               !.status = status]

Spawned(r, status) ==
  [Idle EXCEPT !.pc = IF status = "PENDING" THEN "recipients" ELSE "reading",
               !.req = r,
               !.status = status]

\* A slip: DELETE events are ignored.
onPutEventOnly(r, status) ==
  IF connected /\ status # "EXPIRED"
    THEN /\ \E h \in Handler :
              /\ handler[h] = Idle
              /\ handler' = [handler EXCEPT ![h] = Spawned(r, status)]
         /\ Blame(r, (IF Active(r) # {} THEN {"overlap"} ELSE {}) \union
                     (IF status = "PENDING" /\ MessagesOf(r) # {}
                        THEN {"reposted"} ELSE {}))
    ELSE /\ UNCHANGED <<handler, excuses>>

onWatcherEvent(r, status) ==
  IF connected
    THEN /\ \E h \in Handler :
              /\ handler[h] = Idle
              /\ handler' = [handler EXCEPT ![h] = Spawned(r, status)]
         /\ Blame(r, (IF Active(r) # {} THEN {"overlap"} ELSE {}) \union
                     (IF status = "PENDING" /\ MessagesOf(r) # {}
                        THEN {"reposted"} ELSE {}))
    ELSE /\ Blame(r, {"event lost"})
         /\ UNCHANGED handler

Change(r, from, to) ==
  /\ state[r] \in from
  /\ state' = [state EXCEPT ![r] = to]
  /\ history' = [history EXCEPT ![r] = @ \union {StatusOf(to)}]
  /\ pendingEvents' = [pendingEvents EXCEPT ![r] = IF to = "pending" THEN @ + 1 ELSE @]
  /\ onWatcherEvent(r, StatusOf(to))
  /\ UNCHANGED <<pluginData, chatVars, connected, faults>>

Create(r) == Change(r, {"none"}, "pending")
Review(r) == pendingEvents[r] < MaxPending /\ Change(r, {"pending"}, "pending")
Approve(r) == Change(r, {"pending"}, "approved")
Deny(r) == Change(r, {"pending", "approved"}, "denied")
Delete(r) == Change(r, {"pending", "approved", "denied"}, "deleted")

\* The plugin data has the lifetime of its request.
ExpireData(r) ==
  /\ state[r] = "deleted"
  /\ pluginData[r] # {}
  /\ pluginData' = [pluginData EXCEPT ![r] = {}]
  /\ Blame(r, {"data expired"})
  /\ UNCHANGED <<authVars, chatVars, connected, handler, faults>>

-----------------------------------------------------------------------------
(***************************************************************************)
(* onPendingRequest: recipients, Broadcast, setPluginData.                 *)
(***************************************************************************)
At(h, pc) == handler[h].pc = pc
Goto(h, new) == handler' = [handler EXCEPT ![h] = new]
End(h) == Goto(h, Idle)

\* A recipient whose lookup fails is left out; without any the job is over.
getMessageRecipients(h) ==
  /\ At(h, "recipients")
  /\ \E channels \in SUBSET Channel :
       IF channels = {} THEN End(h)
       ELSE Goto(h, [handler[h] EXCEPT !.pc = "posting", !.channels = channels])
  /\ UNCHANGED <<authVars, pluginData, chatVars, connected, excuses, faults>>

\* One turn of the loop of Broadcast: on failure the loop goes on with the
\* next channel.
NewMessage(h, m) ==
  /\ about[m] = Nobody
  /\ about' = [about EXCEPT ![m] = handler[h].req]

Posted(h, m) ==
  /\ NewMessage(h, m)
  /\ Goto(h, [handler[h] EXCEPT !.channels = @ \ {m[1]}, !.data = @ \union {m}])
  /\ NoFault

\* Two slips: a failed post is tried again, or kept among the messages.
NotPostedRetry(h, c) ==
  /\ Fault(handler[h].req)
  /\ Goto(h, [handler[h] EXCEPT !.failed = TRUE])
  /\ \/ UNCHANGED about
     \/ \E m \in {c} \X Stamp : NewMessage(h, m)

NotPostedKept(h, c) ==
  /\ Fault(handler[h].req)
  /\ \E m \in {c} \X Stamp :
       Goto(h, [handler[h] EXCEPT !.channels = @ \ {c}, !.data = @ \union {m}])
  /\ UNCHANGED about

NotPosted(h, c) ==
  /\ Fault(handler[h].req)
  /\ Goto(h, [handler[h] EXCEPT !.channels = @ \ {c}, !.failed = TRUE])
  /\ \/ UNCHANGED about
     \/ \E m \in {c} \X Stamp : NewMessage(h, m)

Broadcast(h) ==
  /\ At(h, "posting")
  /\ \E c \in handler[h].channels :
       (\E m \in {c} \X Stamp : Posted(h, m)) \/ NotPosted(h, c)
  /\ UNCHANGED <<authVars, pluginData, shown, connected>>

\* Only when nothing was posted the error ends the job; otherwise it is logged.
BroadcastDone(h) ==
  /\ At(h, "posting")
  /\ handler[h].channels = {}
  /\ IF handler[h].data = {} /\ handler[h].failed
       THEN End(h)
       ELSE Goto(h, [handler[h] EXCEPT !.pc = "saving"])
  /\ UNCHANGED <<authVars, pluginData, chatVars, connected, excuses, faults>>

\* UpdatePluginData sets the messages without an expectation.  It needs the
\* request to exist when there is no plugin data yet.
setPluginData(h) ==
  LET r == handler[h].req
      Saved == pluginData' = [pluginData EXCEPT ![r] = handler[h].data]
      NotFound == state[r] = "deleted" /\ pluginData[r] = {}
  IN
  /\ At(h, "saving")
  /\ \/ ~NotFound /\ Saved /\ NoFault
     \/ NotFound /\ UNCHANGED pluginData /\ NoFault
     \/ Fault(r) /\ (UNCHANGED pluginData \/ (~NotFound /\ Saved))
  /\ End(h)
  /\ UNCHANGED <<authVars, chatVars, connected>>

-----------------------------------------------------------------------------
(***************************************************************************)
(* updateMessages (slack), updatePosts (mattermost): read the plugin data, *)
(* then update each of its messages.                                       *)
(***************************************************************************)
getPluginData(h) ==
  LET r == handler[h].req IN
  /\ At(h, "reading")
  /\ \/ /\ NoFault
        /\ IF pluginData[r] = {} THEN End(h)
           ELSE Goto(h, [handler[h] EXCEPT !.pc = "updating", !.data = pluginData[r]])
     \/ Fault(r) /\ End(h)
  /\ UNCHANGED <<authVars, pluginData, chatVars, connected>>

\* A slip: every resolution is shown as an approval.
ShowApproved(h, m) == shown' = [shown EXCEPT ![m] = "APPROVED"]

Show(h, m) == shown' = [shown EXCEPT ![m] = handler[h].status]

\* A slip: the loop returns after the first message.
UpdateFirstMessage(h) ==
  /\ At(h, "updating")
  /\ \E m \in handler[h].data : Show(h, m)
  /\ NoFault
  /\ End(h)
  /\ UNCHANGED <<authVars, pluginData, about, connected>>

UpdateMessages(h) ==
  /\ At(h, "updating")
  /\ \E m \in handler[h].data :
       \/ /\ Show(h, m)
          /\ NoFault
          /\ Goto(h, [handler[h] EXCEPT !.data = @ \ {m}])
       \/ /\ Fault(handler[h].req)
          /\ UNCHANGED shown \/ Show(h, m)
          /\ Goto(h, [handler[h] EXCEPT !.data = @ \ {m}, !.failed = TRUE])
  /\ UNCHANGED <<authVars, pluginData, about, connected>>

UpdateDone(h) ==
  /\ At(h, "updating")
  /\ handler[h].data = {}
  /\ End(h)
  /\ UNCHANGED <<authVars, pluginData, chatVars, connected, excuses, faults>>

HandlerStep(h) ==
  \/ getMessageRecipients(h) \/ Broadcast(h) \/ BroadcastDone(h) \/ setPluginData(h)
  \/ getPluginData(h) \/ UpdateMessages(h) \/ UpdateDone(h)

-----------------------------------------------------------------------------
(***************************************************************************)
(* The watcher loses its stream and connects again, without asking for     *)
(* what it missed; the plugin crashes, and starts again disconnected.      *)
(***************************************************************************)
Disconnect ==
  /\ connected
  /\ faults < MaxFaults
  /\ faults' = faults + 1
  /\ connected' = FALSE
  /\ UNCHANGED <<authVars, pluginData, chatVars, handler, excuses>>

Reconnect ==
  /\ ~connected
  /\ connected' = TRUE
  /\ UNCHANGED <<authVars, pluginData, chatVars, handler, excuses, faults>>

Crash ==
  /\ faults < MaxFaults
  /\ faults' = faults + 1
  /\ connected' = FALSE
  /\ handler' = [h \in Handler |-> Idle]
  /\ excuses' = [r \in Request |-> IF Active(r) = {} THEN excuses[r]
                                   ELSE excuses[r] \union {"crash"}]
  /\ UNCHANGED <<authVars, pluginData, chatVars>>

AuthServer(r) ==
  Create(r) \/ Review(r) \/ Approve(r) \/ Deny(r) \/ Delete(r) \/ ExpireData(r)

Next ==
  \/ \E r \in Request : AuthServer(r)
  \/ \E h \in Handler : HandlerStep(h)
  \/ Disconnect \/ Reconnect \/ Crash

Spec == Init /\ [][Next]_vars

\* Calls end, by an answer or by the deadline of the handler.
Fairness == \A h \in Handler : WF_vars(HandlerStep(h))
FairSpec == Spec /\ Fairness

-----------------------------------------------------------------------------
Resolved(r) == state[r] \in {"approved", "denied", "deleted"}
Correct(r) == \A m \in MessagesOf(r) : shown[m] = StatusOf(state[r])

(***************************************************************************)
(* A message never shows a status its request has not had, and it shows a  *)
(* request's own status, whatever handlers run at the same time.           *)
(***************************************************************************)
ShownIsTrue ==
  \A m \in Message : about[m] # Nobody => shown[m] \in history[about[m]]

(***************************************************************************)
(* The plugin data of a request, and what a handler works with, refer only *)
(* to messages about that request.                                         *)
(***************************************************************************)
DataIsOwn ==
  /\ \A r \in Request : pluginData[r] \subseteq MessagesOf(r)
  /\ \A h \in Handler : handler[h].data \subseteq MessagesOf(handler[h].req)

(***************************************************************************)
(* A pending event brings at most one message to a channel: a channel that *)
(* is both a suggested reviewer and a configured recipient is used once,   *)
(* and nothing is posted twice after a failure.                            *)
(***************************************************************************)
NoDuplicates ==
  \A r \in Request, c \in Channel :
    Cardinality({m \in MessagesOf(r) : m[1] = c}) <= pendingEvents[r]

(***************************************************************************)
(* When no handler of a request is left, its messages show its state,      *)
(* unless one of the listed things went wrong: a call failed, an event was *)
(* lost, the plugin crashed during a handler, two handlers of the request  *)
(* overlapped, the request was announced again, its data expired.          *)
(***************************************************************************)
CorrectOrExcused ==
  \A r \in Request : Active(r) = {} /\ excuses[r] = {} => Correct(r)

(***************************************************************************)
(* Every resolution is eventually shown by all messages, or excused.       *)
(***************************************************************************)
EventuallyShown ==
  \A r \in Request :
    Resolved(r) ~> (Correct(r) \/ excuses[r] # {})

(***************************************************************************)
(* "The messages should automatically get updated to reflect the action    *)
(* you just did." (access/mattermost/README.md), checked without a single  *)
(* fault: once nothing is left to do the messages show the resolution.     *)
(***************************************************************************)
MessagesReflectAction ==
  \A r \in Request :
    Active(r) = {} /\ state[r] \in {"approved", "denied"} => Correct(r)

(***************************************************************************)
(* The plugin implements the notice board.                                 *)
(***************************************************************************)
Board == INSTANCE NoticeBoard
ImplementsBoard == Board!BoardSpec
=============================================================================
