------------------------------- MODULE Tracker --------------------------------
(***************************************************************************)
(* The GitLab, PagerDuty and JIRA plugins: an access request gets a ticket *)
(* (an issue or an incident), people decide on the ticket, and a webhook   *)
(* brings the decision back.                                               *)
(*                                                                         *)
(* Every event of the watcher and every delivery of a webhook is a job of  *)
(* its own.  A webhook reads the request, checks that it is pending, reads *)
(* the plugin data, checks that it names this ticket, sets the state and   *)
(* closes the ticket, each by a remote call; what it read may be stale     *)
(* when it is used.  Calls fail, also after their effect; webhooks are     *)
(* delivered again after an error or a lost answer, or given up.           *)
(*                                                                         *)
(* The auth server, the trackers and the people are external: what they do *)
(* is taken from how the plugins use them.                                 *)
(***************************************************************************)
EXTENDS Naturals, FiniteSets, Sequences

CONSTANTS
  Request, Ticket, Job,
  Nobody, NoTicket,
  Plugins,               \* the plugins to be checked
  MaxPending,            \* bound on the pending PUT events of a request
  MaxDecisions,          \* bound on the decisions people take
  MaxFaults              \* bound on failed calls, lost events, crashes

ASSUME TrackerAssumption ==
  /\ Nobody \notin Request
  /\ NoTicket \notin Ticket
  /\ Plugins \subseteq {"gitlab", "pagerduty", "jira"}

VARIABLES
  plugin,                \* the plugin, one of Plugins
  state,                 \* auth server: [Request -> state]
  pluginData,            \* auth server: [Request -> its ticket]
  database,              \* gitlab: [Ticket -> its request]
  ticket,                \* tracker: [Ticket -> what people see]
  asked,                 \* decisions people have taken: <<ticket, decision>>
  webhooks,              \* webhooks to be delivered: sequences of decisions
  job,                   \* [Job -> control state and locals]
  onCall, carried,       \* observers: see Desk
  pendingEvents,         \* number of pending PUT events of a request
  excused,               \* requests for which something went wrong
  faults                 \* number of faults so far

stores == <<pluginData, database>>
hooks == <<asked, webhooks>>
observers == <<onCall, carried>>
vars == <<plugin, state, pluginData, database, ticket, asked, webhooks,
          job, onCall, carried, pendingEvents, excused, faults>>

Decision == {"approved", "denied"}
Message == Ticket \X Decision

\* mark: the label of an issue at GitLab, its status at JIRA.
TicketState ==
  [about : Request \union {Nobody}, open : BOOLEAN,
   mark : Decision \union {"pending", "expired"}]

NotFiled == [about |-> Nobody, open |-> FALSE, mark |-> "pending"]

JobState ==
  [pc : {"idle", "filing", "indexing", "saving", "on call?", "reading", "expiring",
         "lookup", "checking", "matching", "setting", "closing"},
   req : Request \union {Nobody},
   ticket : Ticket \union {NoTicket},
   decision : Decision,
   stale : BOOLEAN,                 \* observer: was the request changed since its check?
   todo : Seq(Message),             \* messages of the webhook to be handled
   hook : Seq(Message)]             \* the webhook, <<>> for an event

Idle == [pc |-> "idle", req |-> Nobody, ticket |-> NoTicket,
         decision |-> "approved", stale |-> FALSE, todo |-> <<>>, hook |-> <<>>]

TypeOK ==
  /\ plugin \in Plugins
  /\ state \in [Request -> Decision \union {"none", "pending", "deleted"}]
  /\ pluginData \in [Request -> Ticket \union {NoTicket}]
  /\ database \in [Ticket -> Request \union {Nobody}]
  /\ ticket \in [Ticket -> TicketState]
  /\ asked \subseteq Message
  /\ webhooks \subseteq Seq(Message)
  /\ job \in [Job -> JobState]
  /\ onCall \subseteq Request /\ carried \subseteq Request \X Decision
  /\ pendingEvents \in [Request -> Nat]
  /\ excused \subseteq Request
  /\ faults \in Nat

Init ==
  /\ plugin \in Plugins
  /\ state = [r \in Request |-> "none"]
  /\ pluginData = [r \in Request |-> NoTicket]
  /\ database = [t \in Ticket |-> Nobody]
  /\ ticket = [t \in Ticket |-> NotFiled]
  /\ asked = {} /\ webhooks = {}
  /\ job = [j \in Job |-> Idle]
  /\ onCall = {} /\ carried = {}
  /\ pendingEvents = [r \in Request |-> 0]
  /\ excused = {}
  /\ faults = 0

TicketsOf(r) == {t \in Ticket : ticket[t].about = r}
Active(r) == {j \in Job : job[j].req = r}
EventJobs(r) == {j \in Active(r) : job[j].hook = <<>>}
AboutOf(w) == {ticket[w[i][1]].about : i \in DOMAIN w}

\* The request changes: jobs that have checked it do not notice.
Outdate(r) ==
  [j \in Job |-> IF job[j].req = r /\ job[j].pc \in {"matching", "setting"}
                   THEN [job[j] EXCEPT !.stale = TRUE] ELSE job[j]]

\* Jobs are told apart by what they do, and tickets by the order they were
\* filed in: which of the free ones is next makes no difference.
FreeJob == CHOOSE j \in Job : job[j] = Idle
NextTicket == CHOOSE t \in Ticket : ticket[t] = NotFiled

Blame(rs) == excused' = excused \union rs
NoFault == UNCHANGED <<faults, excused>>
AnotherFault == faults < MaxFaults /\ faults' = faults + 1

-----------------------------------------------------------------------------
(***************************************************************************)
(* onWatcherEvent: a job for a PUT of a pending request and for a DELETE.  *)
(***************************************************************************)
EventJob(r, pc) == [Idle EXCEPT !.pc = pc, !.req = r]

\* What may go wrong: the jobs of two events overlap, a request is announced
\* again, an event is lost.
onWatcherEvent(r, pc) ==
  \/ /\ \E j \in Job : job[j] = Idle
     /\ job' = [Outdate(r) EXCEPT ![FreeJob] = EventJob(r, pc)]
     /\ Blame(IF EventJobs(r) # {} \/ (pc = "filing" /\ TicketsOf(r) # {}) THEN {r} ELSE {})
     /\ UNCHANGED faults
  \/ /\ AnotherFault
     /\ Blame({r})
     /\ job' = Outdate(r)

Change(r, from, to) ==
  /\ state[r] \in from
  /\ state' = [state EXCEPT ![r] = to]
  /\ UNCHANGED <<plugin, stores, ticket, hooks, observers>>

Pend(r) ==
  /\ pendingEvents[r] < MaxPending
  /\ Change(r, {"none", "pending"}, "pending")
  /\ pendingEvents' = [pendingEvents EXCEPT ![r] = @ + 1]
  /\ onWatcherEvent(r, "filing")

Delete(r) ==
  /\ Change(r, {"pending", "approved", "denied"}, "deleted")
  /\ onWatcherEvent(r, "reading")
  /\ UNCHANGED pendingEvents

\* Somebody else resolves the request; the plugins ignore the event, and the
\* ticket stays open.
ResolveElsewhere(r, d) ==
  /\ Change(r, {"pending"}, d)
  /\ job' = Outdate(r)
  /\ Blame({r})
  /\ UNCHANGED <<pendingEvents, faults>>

\* The plugin data has the lifetime of its request.
ExpireData(r) ==
  /\ state[r] = "deleted"
  /\ pluginData[r] # NoTicket
  /\ pluginData' = [pluginData EXCEPT ![r] = NoTicket]
  /\ Blame({r})
  /\ UNCHANGED <<plugin, state, database, ticket, hooks, job, observers, pendingEvents, faults>>

-----------------------------------------------------------------------------
(***************************************************************************)
(* People decide on a ticket, and the tracker sends a webhook; PagerDuty   *)
(* may put several messages into one.  The label of an issue can be        *)
(* changed when it is closed; expired tickets are left alone.              *)
(***************************************************************************)
Decide(t, d) ==
  /\ ticket[t].about # Nobody
  /\ <<t, d>> \notin asked
  /\ Cardinality(asked) < MaxDecisions
  /\ IF plugin = "pagerduty" THEN ticket[t].open ELSE ticket[t].mark \notin {d, "expired"}
  /\ asked' = asked \union {<<t, d>>}
  /\ webhooks' = webhooks \union {<< <<t, d>> >>}
  /\ ticket' = IF plugin = "pagerduty" THEN ticket
               ELSE [ticket EXCEPT ![t].mark = d]
  /\ UNCHANGED <<plugin, state, stores, job, observers, pendingEvents, excused, faults>>

InDelivery(w) == \E j \in Job : job[j].hook = w

\* The messages of a webhook are about the same kind of decision: approving
\* and denying have a path each.
Batch(w1, w2) ==
  /\ plugin = "pagerduty"
  /\ w1 # w2 /\ Len(w1) = 1 /\ Len(w2) = 1
  /\ w1[1][2] = w2[1][2]
  /\ ~InDelivery(w1) /\ ~InDelivery(w2)
  /\ webhooks' = (webhooks \ {w1, w2}) \union {w1 \o w2}
  /\ UNCHANGED <<plugin, state, stores, ticket, asked, job, observers,
                 pendingEvents, excused, faults>>

Delivered(w, todo) == [Idle EXCEPT !.pc = "lookup", !.hook = w, !.todo = todo]

\* Delivering a webhook whose delivery is still in progress counts as a fault.
Deliver(w) ==
  /\ \E j \in Job : job[j] = Idle
  /\ job' = [job EXCEPT ![FreeJob] = Delivered(w, w)]
  /\ IF InDelivery(w) THEN AnotherFault ELSE UNCHANGED faults
  /\ UNCHANGED <<plugin, state, stores, ticket, hooks, observers, pendingEvents, excused>>

Redeliver(t) ==
  \E w \in webhooks : (\E i \in DOMAIN w : w[i][1] = t) /\ Deliver(w)

-----------------------------------------------------------------------------
(***************************************************************************)
(* The end of a job.  processWebhook goes on to the next message only if   *)
(* this one was handled without an error.                                  *)
(***************************************************************************)
At(j, pc) == job[j].pc = pc
Goto(j, new) == job' = [job EXCEPT ![j] = new] /\ UNCHANGED webhooks

Finish(j) ==
  LET q == job[j] IN
  IF Len(q.todo) > 1
    THEN Goto(j, Delivered(q.hook, Tail(q.todo)))
    ELSE /\ job' = [job EXCEPT ![j] = Idle]
         /\ webhooks' = webhooks \ {q.hook}

\* Requests whose decisions are lost if the sender gives up on w.
LostWith(w) == {r \in AboutOf(w) : state[r] = "pending"}

\* The job ends with an error, for which rs are to blame.  An event is not
\* repeated; a webhook may be delivered again, or the sender gives up.
Fail(j, rs) ==
  /\ job' = [job EXCEPT ![j] = Idle]
  /\ \/ Blame(rs) /\ UNCHANGED webhooks
     \/ /\ webhooks' = webhooks \ {job[j].hook}
        /\ Blame(rs \union LostWith(job[j].hook))

\* Messages behind one that is refused are never handled.
Behind(j) ==
  IF Len(job[j].todo) > 1 THEN AboutOf(Tail(job[j].todo)) ELSE {}

Refuse(j) == Fail(j, Behind(j)) /\ UNCHANGED faults
CallFails(j) == AnotherFault /\ Fail(j, {job[j].req})

-----------------------------------------------------------------------------
(***************************************************************************)
(* onPendingRequest: the ticket, the database (gitlab), the plugin data,   *)
(* and the automatic approval (pagerduty).                                 *)
(***************************************************************************)
NewTicket(j) ==
  /\ \E t \in Ticket : ticket[t] = NotFiled
  /\ ticket' = [ticket EXCEPT ![NextTicket].about = job[j].req, ![NextTicket].open = TRUE]

\* Two slips: a failed call is tried again; or taken for a success.
CreateTicketRetry(j) ==
  /\ At(j, "filing")
  /\ \/ /\ NewTicket(j)
        /\ Goto(j, [job[j] EXCEPT !.ticket = NextTicket,
                      !.pc = IF plugin = "gitlab" THEN "indexing" ELSE "saving"])
        /\ NoFault
     \/ /\ AnotherFault
        /\ UNCHANGED <<job, webhooks, excused>>
        /\ (UNCHANGED ticket \/ NewTicket(j))
  /\ UNCHANGED <<plugin, state, stores, asked, observers, pendingEvents>>

CreateTicketUnchecked(j) ==
  /\ At(j, "filing")
  /\ Goto(j, [job[j] EXCEPT !.ticket = NextTicket,
                !.pc = IF plugin = "gitlab" THEN "indexing" ELSE "saving"])
  /\ \/ NewTicket(j) /\ NoFault
     \/ AnotherFault /\ UNCHANGED <<ticket, excused>>
  /\ UNCHANGED <<plugin, state, stores, asked, observers, pendingEvents>>

CreateTicket(j) ==
  /\ At(j, "filing")
  /\ \/ /\ NewTicket(j)
        /\ Goto(j, [job[j] EXCEPT !.ticket = NextTicket,
                      !.pc = IF plugin = "gitlab" THEN "indexing" ELSE "saving"])
        /\ NoFault
     \/ CallFails(j) /\ (UNCHANGED ticket \/ NewTicket(j))
  /\ UNCHANGED <<plugin, state, stores, asked, observers, pendingEvents>>

SetRequestID(j) ==
  /\ At(j, "indexing")
  /\ \/ /\ database' = [database EXCEPT ![job[j].ticket] = job[j].req]
        /\ Goto(j, [job[j] EXCEPT !.pc = "saving"])
        /\ NoFault
     \/ CallFails(j) /\ UNCHANGED database
  /\ UNCHANGED <<plugin, state, pluginData, ticket, asked, observers, pendingEvents>>

\* UpdatePluginData sets the ticket without an expectation.  It needs the
\* request to exist when there is no plugin data yet.
setPluginData(j) ==
  LET r == job[j].req
      Saved == pluginData' = [pluginData EXCEPT ![r] = job[j].ticket]
      Exists == state[r] # "deleted" \/ pluginData[r] # NoTicket
  IN
  /\ At(j, "saving")
  /\ \/ /\ Exists /\ Saved /\ NoFault
        /\ IF plugin = "pagerduty" THEN Goto(j, [job[j] EXCEPT !.pc = "on call?"])
           ELSE Finish(j)
     \/ ~Exists /\ Refuse(j) /\ UNCHANGED pluginData
     \/ CallFails(j) /\ (UNCHANGED pluginData \/ (Exists /\ Saved))
  /\ UNCHANGED <<plugin, state, database, ticket, asked, observers, pendingEvents>>

\* A slip: the result of IsUserOnCall is not looked at.
tryAutoApproveAnyone(j) ==
  /\ At(j, "on call?")
  /\ Goto(j, [job[j] EXCEPT !.pc = "setting", !.decision = "approved"])
  /\ NoFault
  /\ UNCHANGED <<plugin, state, stores, ticket, asked, observers, pendingEvents>>

\* IsEmail, GetUserByEmail, IsUserOnCall: they only read at PagerDuty.
tryAutoApproveRequest(j) ==
  /\ At(j, "on call?")
  /\ \/ /\ onCall' = onCall \union {job[j].req}
        /\ Goto(j, [job[j] EXCEPT !.pc = "setting", !.decision = "approved"])
        /\ NoFault
     \/ Finish(j) /\ NoFault /\ UNCHANGED onCall
     \/ CallFails(j) /\ UNCHANGED onCall
  /\ UNCHANGED <<plugin, state, stores, ticket, asked, carried, pendingEvents>>

-----------------------------------------------------------------------------
(***************************************************************************)
(* onDeletedRequest: the ticket in the plugin data is marked expired.      *)
(***************************************************************************)
getTicket(j) ==
  LET r == job[j].req IN
  /\ At(j, "reading")
  /\ \/ /\ NoFault
        /\ IF pluginData[r] = NoTicket THEN Finish(j)
           ELSE Goto(j, [job[j] EXCEPT !.pc = "expiring", !.ticket = pluginData[r]])
     \/ CallFails(j)
  /\ UNCHANGED <<plugin, state, stores, ticket, asked, observers, pendingEvents>>

\* The label at GitLab and the status at JIRA say so; at PagerDuty a note does.
MarkExpired(t) ==
  ticket' = [ticket EXCEPT
    ![t].open = IF plugin = "jira" THEN @ ELSE FALSE,
    ![t].mark = IF plugin = "pagerduty" THEN @ ELSE "expired"]

\* At JIRA an issue that is not pending may have no transition to expired.
ExpireTicket(j) ==
  LET t == job[j].ticket IN
  /\ At(j, "expiring")
  /\ \/ MarkExpired(t) /\ Finish(j) /\ NoFault
     \/ /\ plugin = "jira" /\ ticket[t].mark # "pending"
        /\ Fail(j, {job[j].req})
        /\ UNCHANGED <<ticket, faults>>
     \/ CallFails(j) /\ (UNCHANGED ticket \/ MarkExpired(t))
  /\ UNCHANGED <<plugin, state, stores, asked, observers, pendingEvents>>

-----------------------------------------------------------------------------
(***************************************************************************)
(* onWebhookEvent (gitlab), onPagerdutyAction, onJIRAWebhook.              *)
(***************************************************************************)
\* Two slips: any status of an issue is taken for a decision; the request is
\* looked for in the database only.
LookupAnyStatus(j) ==
  LET t == Head(job[j].todo)[1]
      d == IF plugin = "jira" THEN ticket[t].mark ELSE Head(job[j].todo)[2]
  IN
  /\ At(j, "lookup")
  /\ Goto(j, [job[j] EXCEPT !.pc = "checking", !.req = ticket[t].about,
                !.ticket = t, !.decision = d])
  /\ NoFault
  /\ UNCHANGED <<plugin, state, stores, ticket, asked, observers, pendingEvents>>

LookupDatabaseOnly(j) ==
  LET t == Head(job[j].todo)[1]
      r == IF plugin = "gitlab" THEN database[t] ELSE ticket[t].about
  IN
  /\ At(j, "lookup")
  /\ IF r = Nobody THEN Finish(j)
     ELSE Goto(j, [job[j] EXCEPT !.pc = "checking", !.req = r, !.ticket = t,
                     !.decision = Head(job[j].todo)[2]])
  /\ NoFault
  /\ UNCHANGED <<plugin, state, stores, ticket, asked, observers, pendingEvents>>

\* The request of the message: from the database or the description (gitlab),
\* the incident key (pagerduty), the issue (jira).  JIRA is asked for the
\* status of the issue; the others take the decision from the message.
Lookup(j) ==
  LET m == Head(job[j].todo)
      t == m[1]
      r == IF plugin = "gitlab" /\ database[t] # Nobody THEN database[t]
           ELSE ticket[t].about
      d == IF plugin = "jira" THEN ticket[t].mark ELSE m[2]
  IN
  /\ At(j, "lookup")
  /\ \/ /\ d \notin Decision /\ Finish(j) /\ NoFault
     \/ /\ d \in Decision
        /\ Goto(j, [job[j] EXCEPT !.pc = "checking", !.req = r,
                      !.ticket = t, !.decision = d])
        /\ NoFault
     \/ plugin = "jira" /\ AnotherFault /\ Fail(j, {r})
  /\ UNCHANGED <<plugin, state, stores, ticket, asked, observers, pendingEvents>>

\* A slip: only a deleted request is told apart.
GetRequestAnyState(j) ==
  LET r == job[j].req IN
  /\ At(j, "checking")
  /\ \/ state[r] = "deleted" /\ Finish(j) /\ NoFault
     \/ /\ state[r] # "deleted"
        /\ Goto(j, [job[j] EXCEPT !.pc = "matching"])
        /\ NoFault
     \/ CallFails(j)
  /\ UNCHANGED <<plugin, state, stores, ticket, asked, observers, pendingEvents>>

GetRequest(j) ==
  LET r == job[j].req IN
  /\ At(j, "checking")
  /\ \/ state[r] = "deleted" /\ Finish(j) /\ NoFault
     \/ /\ state[r] \in Decision
        /\ IF plugin = "jira" THEN Finish(j) /\ NoFault ELSE Refuse(j)
     \/ /\ state[r] = "pending"
        /\ Goto(j, [job[j] EXCEPT !.pc = "matching"])
        /\ NoFault
     \/ CallFails(j)
  /\ UNCHANGED <<plugin, state, stores, ticket, asked, observers, pendingEvents>>

getPluginData(j) ==
  LET r == job[j].req IN
  /\ At(j, "matching")
  /\ \/ /\ pluginData[r] = job[j].ticket
        /\ Goto(j, [job[j] EXCEPT !.pc = "setting"])
        /\ NoFault
     \/ pluginData[r] # job[j].ticket /\ Refuse(j)
     \/ CallFails(j)
  /\ UNCHANGED <<plugin, state, stores, ticket, asked, observers, pendingEvents>>

\* The auth server takes any decision but on a denied or deleted request.
SetRequestState(j) ==
  LET r == job[j].req
      d == job[j].decision
      Allowed == state[r] \in {"pending", "approved", d}
      Set == /\ state' = [state EXCEPT ![r] = d]
             /\ carried' = carried \union {<<r, d>>}
  IN
  /\ At(j, "setting")
  /\ \/ /\ Allowed /\ Set /\ NoFault
        /\ job' = [Outdate(r) EXCEPT ![j] =
             IF plugin = "jira" THEN Idle ELSE [job[j] EXCEPT !.pc = "closing"]]
        /\ webhooks' = IF plugin = "jira" THEN webhooks \ {job[j].hook} ELSE webhooks
     \/ ~Allowed /\ Refuse(j) /\ UNCHANGED <<state, carried>>
     \/ CallFails(j) /\ UNCHANGED <<state, carried>>
     \/ /\ AnotherFault
        /\ Allowed /\ Set
        /\ job' = [Outdate(r) EXCEPT ![j] = Idle]
        /\ Blame({r} \union LostWith(job[j].hook))
        /\ webhooks' \in {webhooks, webhooks \ {job[j].hook}}
  /\ UNCHANGED <<plugin, stores, ticket, asked, onCall, pendingEvents>>

Close(t) == ticket' = [ticket EXCEPT ![t].open = FALSE]

\* A slip: an incident of an automatic approval is not resolved.
CloseTicketOfWebhook(j) ==
  /\ At(j, "closing")
  /\ \/ /\ IF job[j].hook = <<>> THEN UNCHANGED ticket ELSE Close(job[j].ticket)
        /\ Finish(j) /\ NoFault
     \/ CallFails(j) /\ (UNCHANGED ticket \/ Close(job[j].ticket))
  /\ UNCHANGED <<plugin, state, stores, asked, observers, pendingEvents>>

CloseTicket(j) ==
  /\ At(j, "closing")
  /\ \/ Close(job[j].ticket) /\ Finish(j) /\ NoFault
     \/ CallFails(j) /\ (UNCHANGED ticket \/ Close(job[j].ticket))
  /\ UNCHANGED <<plugin, state, stores, asked, observers, pendingEvents>>

JobStep(j) ==
  \/ CreateTicket(j) \/ SetRequestID(j) \/ setPluginData(j) \/ tryAutoApproveRequest(j)
  \/ getTicket(j) \/ ExpireTicket(j)
  \/ Lookup(j) \/ GetRequest(j) \/ getPluginData(j) \/ SetRequestState(j) \/ CloseTicket(j)

-----------------------------------------------------------------------------
(***************************************************************************)
(* The plugin dies and starts again; whoever sent a webhook gets an error. *)
(***************************************************************************)
Crash ==
  /\ AnotherFault
  /\ job' = [j \in Job |-> Idle]
  /\ \E lost \in SUBSET {w \in webhooks : InDelivery(w)} :
       /\ webhooks' = webhooks \ lost
       /\ Blame({r \in Request : Active(r) # {} \/ \E w \in lost : r \in LostWith(w)})
  /\ UNCHANGED <<plugin, state, stores, ticket, asked, observers, pendingEvents>>

AuthServer(r) ==
  Pend(r) \/ Delete(r) \/ ExpireData(r) \/ \E d \in Decision : ResolveElsewhere(r, d)

Sender ==
  \/ \E t \in Ticket : Redeliver(t)
  \/ \E w1, w2 \in webhooks : Batch(w1, w2)

Next ==
  \/ \E r \in Request : AuthServer(r)
  \/ \E t \in Ticket, d \in Decision : Decide(t, d)
  \/ Sender
  \/ \E j \in Job : JobStep(j)
  \/ Crash

Spec == Init /\ [][Next]_vars

\* Calls end, by an answer or by their deadline; a webhook that was not handled
\* without an error is delivered again until the sender gives up.
Fairness ==
  /\ \A j \in Job : WF_vars(JobStep(j))
  /\ \A t \in Ticket : SF_vars(Redeliver(t))

FairSpec == Spec /\ Fairness

-----------------------------------------------------------------------------
Outstanding(r) ==
  {w \in webhooks : r \in AboutOf(w)}

(***************************************************************************)
(* Plugin data, database and jobs never mix up requests and tickets,       *)
(* whatever handlers run at the same time.                                 *)
(***************************************************************************)
TicketIsOwn ==
  /\ \A r \in Request : pluginData[r] # NoTicket => ticket[pluginData[r]].about = r
  /\ \A t \in Ticket : database[t] # Nobody => ticket[t].about = database[t]
  /\ \A j \in Job : job[j].ticket # NoTicket => ticket[job[j].ticket].about = job[j].req

(***************************************************************************)
(* A pending event files at most one ticket.                               *)
(***************************************************************************)
OneTicketPerEvent ==
  \A r \in Request : Cardinality(TicketsOf(r)) <= pendingEvents[r]

(***************************************************************************)
(* What may become of a decision d that people took on a ticket of r.      *)
(***************************************************************************)
AskedFor(r, d) == \E t \in TicketsOf(r) : <<t, d>> \in asked

\* The plugin carried out another decision of theirs, or the automatic approval.
Overruled(r, d) ==
  \E o \in Decision \ {d} :
    /\ <<r, o>> \in carried
    /\ AskedFor(r, o) \/ (o = "approved" /\ r \in onCall)

DealtWith(r, d) == <<r, d>> \in carried \/ Overruled(r, d) \/ state[r] = "deleted"

(***************************************************************************)
(* Once nothing of a request is under way, every decision people took on   *)
(* its tickets was carried out by the plugin, or overruled by another of   *)
(* theirs or by the automatic approval that was, or the request is         *)
(* deleted; its tickets are closed when it is resolved and marked expired  *)
(* when it is deleted, and it has the ticket people decide on.  Unless:    *)
(* its events overlapped or announced it again, an event was lost, a call  *)
(* failed, the plugin crashed, somebody else resolved it, its plugin data  *)
(* expired, JIRA had no transition to expired, its message stood behind a  *)
(* refused one, the sender gave up while it was pending.                   *)
(***************************************************************************)
CarriedOutOrExcused ==
  \A r \in Request :
    Active(r) = {} /\ Outstanding(r) = {} /\ r \notin excused /\ state[r] # "none" =>
      /\ pluginData[r] \in TicketsOf(r)
      /\ \A d \in Decision : AskedFor(r, d) => DealtWith(r, d)
      /\ \A t \in TicketsOf(r) :
           /\ state[r] # "pending" /\ plugin # "jira" => ~ticket[t].open
           /\ state[r] = "deleted" /\ plugin # "pagerduty" => ticket[t].mark = "expired"

(***************************************************************************)
(* The plugin decides on a request only while it is pending ("cannot       *)
(* process not pending request").  One decision replaces another only when *)
(* people deny, by a webhook that has found the request pending, what was  *)
(* approved before its call; no approval, automatic or not, replaces a     *)
(* denial, and nothing that is decided comes back to a deleted request.    *)
(***************************************************************************)
DecidesPendingOnly ==
  [][\A j \in Job :
       LET r == job[j].req IN
       job[j].pc = "setting" /\ job'[j].pc # "setting" /\ state'[r] # state[r]
         => \/ state[r] = "pending"
            \/ /\ state[r] = "approved" /\ state'[r] = "denied"
               /\ job[j].stale /\ job[j].hook # <<>>]_vars

(***************************************************************************)
(* Every decision taken on a ticket is carried out by the plugin in the    *)
(* end, even if its webhook comes before the database and the plugin data  *)
(* are written and is refused at first; or another one is, the request is  *)
(* deleted, or one of the things listed for CarriedOutOrExcused went       *)
(* wrong.  What was asked for, or dealt with, or excused once stays so.    *)
(***************************************************************************)
Undecided(r) ==
  r \notin excused /\ \E d \in Decision : AskedFor(r, d) /\ ~DealtWith(r, d)

EventuallyDecided == \A r \in Request : []<>~Undecided(r)

(***************************************************************************)
(* The plugins implement the desk: nothing is approved or denied that      *)
(* nobody asked for.                                                       *)
(***************************************************************************)
TheDesk == INSTANCE Desk WITH about <- [t \in Ticket |-> ticket[t].about]
ImplementsDesk == TheDesk!DeskSpec
=============================================================================
