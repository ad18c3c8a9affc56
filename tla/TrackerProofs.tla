----------------------------- MODULE TrackerProofs ----------------------------
(***************************************************************************)
(* Proofs about Tracker, for any requests, tickets, jobs and bounds.  The  *)
(* argument: what a job holds (its ticket, its decision, what is left of   *)
(* its webhook) was asked for on a filed ticket about its request, and     *)
(* filed tickets and decisions asked for are for good (JobFits); only the  *)
(* state of a request can change under it, and then the job is stale.      *)
(***************************************************************************)
EXTENDS Tracker, TLAPS

EventPC == {"filing", "indexing", "saving", "on call?", "reading", "expiring"}
TicketPC == {"indexing", "saving", "on call?", "expiring", "checking", "matching",
             "setting", "closing"}

\* A job with the record q is right when a was asked, o are on call, the states
\* of the requests are s and the tickets k.
JobFits(q, a, o, s, k) ==
  /\ q \in JobState
  /\ q.pc \notin {"idle", "lookup"} => q.req \in Request
  /\ q.pc \in TicketPC => q.ticket \in Ticket
  /\ q.ticket # NoTicket => q.req \in Request /\ k[q.ticket].about = q.req
  /\ \A i \in DOMAIN q.todo : q.todo[i] \in a
  /\ \A i \in DOMAIN q.hook : q.hook[i] \in a
  /\ q.hook = <<>> => q.todo = <<>> /\ q.decision = "approved"
  /\ q.pc \in EventPC => q.hook = <<>>
  /\ q.pc = "lookup" => q.todo # <<>>
  /\ q.pc \in {"checking", "matching"} =>
       q.hook # <<>> /\ <<q.ticket, q.decision>> \in a
  /\ q.pc = "setting" =>
       \/ <<q.ticket, q.decision>> \in a
       \/ q.decision = "approved" /\ q.req \in o
  /\ q.pc \in {"matching", "setting"} /\ ~q.stale /\ q.hook # <<>> =>
       s[q.req] = "pending"

JobsFit == \A j \in Job : JobFits(job[j], asked, onCall, state, ticket)

StoresOwn ==
  /\ \A r \in Request : pluginData[r] # NoTicket => ticket[pluginData[r]].about = r
  /\ \A t \in Ticket : database[t] # Nobody => ticket[t].about = database[t]

\* People decide on filed tickets, and what a ticket or a webhook says of a
\* decision, somebody has decided.
AskedFiled == \A m \in asked : ticket[m[1]].about # Nobody
MarksAsked == \A t \in Ticket : ticket[t].mark \in Decision => <<t, ticket[t].mark>> \in asked
HooksAsked == \A w \in webhooks : w # <<>> /\ \A i \in DOMAIN w : w[i] \in asked

TrackerInv ==
  /\ TypeOK /\ StoresOwn /\ AskedFiled /\ MarksAsked /\ HooksAsked /\ JobsFit

-----------------------------------------------------------------------------
(***************************************************************************)
(* A job stays right while decisions are added and tickets are filed.      *)
(***************************************************************************)
LEMMA FitsPersists ==
  ASSUME NEW q, NEW a1, NEW a2, NEW o1, NEW o2, NEW s, NEW k1, NEW k2,
         JobFits(q, a1, o1, s, k1), a1 \subseteq a2, o1 \subseteq o2,
         \A t \in Ticket : k1[t].about # Nobody => k2[t].about = k1[t].about
  PROVE  JobFits(q, a2, o2, s, k2)
<1>1. q.ticket # NoTicket => q.ticket \in Ticket /\ q.req \in Request
  BY DEF JobFits, JobState
<1>2. q.ticket # NoTicket => k2[q.ticket].about = q.req
  BY <1>1, TrackerAssumption DEF JobFits
<1> QED BY <1>1, <1>2 DEF JobFits

(***************************************************************************)
(* The record a job has after its request has changed.                     *)
(***************************************************************************)
Outdated(q, r) ==
  IF q.req = r /\ q.pc \in {"matching", "setting"} THEN [q EXCEPT !.stale = TRUE] ELSE q

LEMMA FitsOutdated ==
  ASSUME NEW q, NEW a, NEW o, NEW s, NEW k, NEW r \in Request, NEW to,
         s \in [Request -> Decision \union {"none", "pending", "deleted"}],
         JobFits(q, a, o, s, k)
  PROVE  JobFits(Outdated(q, r), a, o, [s EXCEPT ![r] = to], k)
<1>1. q \in JobState
  BY DEF JobFits
<1>2. CASE q.req = r /\ q.pc \in {"matching", "setting"}
  <2> DEFINE p == [q EXCEPT !.stale = TRUE]
  <2>1. /\ p \in JobState /\ p.stale
        /\ p.pc = q.pc /\ p.req = q.req /\ p.ticket = q.ticket
        /\ p.decision = q.decision /\ p.todo = q.todo /\ p.hook = q.hook
    BY <1>1 DEF JobState
  <2>2. Outdated(q, r) = p
    BY <1>2 DEF Outdated
  <2> HIDE DEF p
  <2> QED BY <2>1, <2>2 DEF JobFits
<1>3. CASE ~(q.req = r /\ q.pc \in {"matching", "setting"})
  <2>1. Outdated(q, r) = q
    BY <1>3 DEF Outdated
  <2>2. q.pc \in {"matching", "setting"} => q.req \in Request /\ q.req # r
    BY <1>3 DEF JobFits
  <2>3. \A x \in Request : x # r => [s EXCEPT ![r] = to][x] = s[x]
    OBVIOUS
  <2> QED BY <2>1, <2>2, <2>3 DEF JobFits
<1> QED BY <1>2, <1>3

(***************************************************************************)
(* The records of jobs without work, with an event and with a webhook.     *)
(***************************************************************************)
LEMMA IdleFits ==
  ASSUME NEW a, NEW o, NEW s, NEW k
  PROVE  JobFits(Idle, a, o, s, k)
<1>1. Idle \in JobState
  BY DEF Idle, JobState, Decision
<1> QED BY <1>1 DEF JobFits, Idle, TicketPC, EventPC

LEMMA EventFits ==
  ASSUME NEW a, NEW o, NEW s, NEW k, NEW r \in Request,
         NEW pc \in {"filing", "reading"}
  PROVE  JobFits(EventJob(r, pc), a, o, s, k)
<1> DEFINE q == EventJob(r, pc)
<1>1. Idle \in JobState
  BY DEF Idle, JobState, Decision
<1>2. q \in JobState
  BY <1>1 DEF EventJob, JobState
<1>3. /\ q.pc = pc /\ q.req = r /\ q.ticket = NoTicket
      /\ q.todo = <<>> /\ q.hook = <<>> /\ q.decision = "approved"
  BY DEF EventJob, Idle
<1>4. JobFits(q, a, o, s, k)
  <2> HIDE DEF q
  <2>1. \A i \in DOMAIN <<>> : FALSE
    OBVIOUS
  <2> QED BY <1>2, <1>3, <2>1 DEF JobFits, TicketPC, EventPC
<1> QED BY <1>4

LEMMA WebhookFits ==
  ASSUME NEW a, NEW o, NEW s, NEW k,
         NEW w \in Seq(Message), NEW todo \in Seq(Message),
         w # <<>>, todo # <<>>,
         \A i \in DOMAIN w : w[i] \in a, \A i \in DOMAIN todo : todo[i] \in a
  PROVE  JobFits(Delivered(w, todo), a, o, s, k)
<1> DEFINE q == Delivered(w, todo)
<1>1. Idle \in JobState
  BY DEF Idle, JobState, Decision
<1>2. q \in JobState
  BY <1>1 DEF Delivered, JobState
<1>3. /\ q.pc = "lookup" /\ q.req = Nobody /\ q.ticket = NoTicket
      /\ q.todo = todo /\ q.hook = w
  BY DEF Delivered, Idle
<1>4. JobFits(q, a, o, s, k)
  <2> HIDE DEF q
  <2>1. \A i \in DOMAIN <<>> : FALSE
    OBVIOUS
  <2> QED BY <1>2, <1>3, <2>1 DEF JobFits, TicketPC, EventPC
<1> QED BY <1>4

(***************************************************************************)
(* The requests of a webhook are requests.                                 *)
(***************************************************************************)
LEMMA AboutType ==
  ASSUME TypeOK, AskedFiled, NEW w \in Seq(Message), \A i \in DOMAIN w : w[i] \in asked
  PROVE  AboutOf(w) \subseteq Request
<1> SUFFICES ASSUME NEW i \in DOMAIN w PROVE ticket[w[i][1]].about \in Request
  BY DEF AboutOf
<1>1. w[i] \in asked /\ w[i] \in Message
  OBVIOUS
<1>2. w[i][1] \in Ticket
  BY <1>1 DEF Message
<1>3. ticket[w[i][1]] \in TicketState
  BY <1>2 DEF TypeOK
<1> QED BY <1>1, <1>3 DEF AskedFiled, TicketState

-----------------------------------------------------------------------------
(***************************************************************************)
(* A step of a job as far as the job, the webhooks and the faults go.      *)
(***************************************************************************)
StepTo(j) ==
  /\ webhooks' \subseteq webhooks
  /\ excused' \subseteq Request /\ faults' \in Nat
  /\ \E new :
       /\ \/ JobFits(new, asked, onCall, state, ticket)
          \/ JobFits(new, asked', onCall', state', ticket')
       /\ job' = [job EXCEPT ![j] = new]

LEMMA GotoSteps ==
  ASSUME TrackerInv, NEW j \in Job, NEW new, Goto(j, new), NoFault,
         \/ JobFits(new, asked, onCall, state, ticket)
         \/ JobFits(new, asked', onCall', state', ticket')
  PROVE  StepTo(j)
BY DEF Goto, NoFault, StepTo, TrackerInv, TypeOK

LEMMA FinishSteps ==
  ASSUME TrackerInv, NEW j \in Job, Finish(j), NoFault
  PROVE  StepTo(j)
<1> DEFINE q == job[j]
<1>1. JobFits(q, asked, onCall, state, ticket) /\ q \in JobState
  BY DEF TrackerInv, JobsFit, JobFits
<1>2. CASE Len(q.todo) > 1
  <2>1. q.todo \in Seq(Message) /\ q.hook \in Seq(Message)
    BY <1>1 DEF JobState
  <2>2. /\ Tail(q.todo) \in Seq(Message) /\ Tail(q.todo) # <<>>
        /\ \A i \in DOMAIN Tail(q.todo) : Tail(q.todo)[i] \in asked
    <3>1. /\ Tail(q.todo) \in Seq(Message)
          /\ Len(Tail(q.todo)) = Len(q.todo) - 1
          /\ \A i \in 1..Len(Tail(q.todo)) : Tail(q.todo)[i] = q.todo[i + 1]
      BY <1>2, <2>1
    <3>2. \A i \in 1..Len(Tail(q.todo)) : i + 1 \in DOMAIN q.todo
      BY <2>1, <3>1
    <3>3. Tail(q.todo) # <<>>
      <4>1. Len(q.todo) \in Nat /\ Len(Tail(q.todo)) > 0
        BY <1>2, <2>1, <3>1
      <4>2. \A e : e = <<>> => Len(e) = 0
        OBVIOUS
      <4> QED BY <4>1, <4>2
    <3> QED BY <1>1, <2>1, <3>1, <3>2, <3>3 DEF JobFits
  <2>3. q.hook # <<>> /\ \A i \in DOMAIN q.hook : q.hook[i] \in asked
    BY <1>1, <1>2, <2>1 DEF JobFits
  <2>4. JobFits(Delivered(q.hook, Tail(q.todo)), asked, onCall, state, ticket)
    BY <2>1, <2>2, <2>3, WebhookFits
  <2>5. Goto(j, Delivered(q.hook, Tail(q.todo)))
    BY <1>2 DEF Finish
  <2> QED BY <2>4, <2>5, GotoSteps
<1>3. CASE ~(Len(q.todo) > 1)
  <2>1. /\ job' = [job EXCEPT ![j] = Idle]
        /\ webhooks' = webhooks \ {q.hook}
    BY <1>3 DEF Finish
  <2> QED BY <2>1, IdleFits DEF NoFault, StepTo, TrackerInv, TypeOK
<1> QED BY <1>2, <1>3

LEMMA FailSteps ==
  ASSUME TrackerInv, NEW j \in Job, NEW rs \in SUBSET Request, Fail(j, rs),
         faults' \in Nat
  PROVE  StepTo(j)
<1>1. LostWith(job[j].hook) \subseteq Request
  <2>1. /\ job[j].hook \in Seq(Message)
        /\ \A i \in DOMAIN job[j].hook : job[j].hook[i] \in asked
    BY DEF TrackerInv, JobsFit, JobFits, JobState
  <2> QED BY <2>1, AboutType DEF TrackerInv, LostWith
<1>2. excused' \subseteq Request /\ webhooks' \subseteq webhooks
  BY <1>1 DEF Fail, Blame, TrackerInv, TypeOK
<1>3. job' = [job EXCEPT ![j] = Idle]
  BY DEF Fail
<1> QED BY <1>2, <1>3, IdleFits DEF StepTo

LEMMA RefuseSteps ==
  ASSUME TrackerInv, NEW j \in Job, Refuse(j)
  PROVE  StepTo(j)
<1> DEFINE q == job[j]
<1>1. /\ q.todo \in Seq(Message)
      /\ \A i \in DOMAIN q.todo : q.todo[i] \in asked
  BY DEF TrackerInv, JobsFit, JobFits, JobState
<1>2. Behind(j) \subseteq Request
  <2>1. CASE Len(q.todo) > 1
    <3>1. /\ Tail(q.todo) \in Seq(Message)
          /\ \A i \in 1..Len(Tail(q.todo)) :
               Tail(q.todo)[i] = q.todo[i + 1] /\ i + 1 \in DOMAIN q.todo
      BY <1>1, <2>1
    <3>2. \A i \in DOMAIN Tail(q.todo) : Tail(q.todo)[i] \in asked
      BY <1>1, <3>1
    <3> QED BY <2>1, <3>1, <3>2, AboutType DEF TrackerInv, Behind
  <2> QED BY <2>1 DEF Behind
<1>3. Fail(j, Behind(j)) /\ faults' \in Nat
  BY DEF Refuse, TrackerInv, TypeOK
<1> QED BY <1>2, <1>3, FailSteps

LEMMA CallFailsSteps ==
  ASSUME TrackerInv, NEW j \in Job, job[j].req \in Request, CallFails(j)
  PROVE  StepTo(j)
<1>1. Fail(j, {job[j].req}) /\ faults' \in Nat
  BY DEF CallFails, AnotherFault, TrackerInv, TypeOK
<1> QED BY <1>1, FailSteps

-----------------------------------------------------------------------------
(***************************************************************************)
(* A step of a job that leaves the states of the requests alone keeps the  *)
(* invariant, if filed tickets stay what they are about and no ticket gets *)
(* the mark of a decision.                                                 *)
(***************************************************************************)
TicketsLast ==
  /\ ticket' \in [Ticket -> TicketState]
  /\ \A t \in Ticket :
       /\ ticket[t].about # Nobody => ticket'[t].about = ticket[t].about
       /\ ticket'[t].mark \in Decision => ticket'[t].mark = ticket[t].mark

LEMMA StepInv ==
  ASSUME TrackerInv, NEW j \in Job, StepTo(j), TicketsLast,
         onCall \subseteq onCall', onCall' \subseteq Request,
         UNCHANGED <<plugin, state, asked, carried, pendingEvents>>,
         pluginData' \in [Request -> Ticket \union {NoTicket}],
         database' \in [Ticket -> Request \union {Nobody}],
         StoresOwn'
  PROVE  TrackerInv'
<1>1. PICK new :
        /\ \/ JobFits(new, asked, onCall, state, ticket)
           \/ JobFits(new, asked', onCall', state', ticket')
        /\ job' = [job EXCEPT ![j] = new]
  BY DEF StepTo
<1>2. JobFits(new, asked', onCall', state', ticket')
  BY <1>1, FitsPersists DEF TicketsLast
<1>3. \A i \in Job : JobFits(job[i], asked', onCall', state', ticket')
  BY FitsPersists DEF TrackerInv, JobsFit, TicketsLast
<1>4. job \in [Job -> JobState] /\ new \in JobState
  BY <1>2 DEF TrackerInv, TypeOK, JobFits
<1>5. job' \in [Job -> JobState]
  BY <1>1, <1>4
<1>6. \A i \in Job : job'[i] = IF i = j THEN new ELSE job[i]
  BY <1>1, <1>4
<1>7. JobsFit'
  BY <1>2, <1>3, <1>6 DEF JobsFit
<1>8. TypeOK'
  BY <1>5 DEF TrackerInv, TypeOK, StepTo, TicketsLast
<1>9. AskedFiled'
  <2>1. \A m \in asked : m[1] \in Ticket
    BY DEF TrackerInv, TypeOK, Message
  <2> QED BY <2>1 DEF TrackerInv, AskedFiled, TicketsLast
<1>10. MarksAsked'
  BY DEF TrackerInv, MarksAsked, TicketsLast
<1>11. HooksAsked'
  BY DEF TrackerInv, HooksAsked, StepTo
<1> QED BY <1>7, <1>8, <1>9, <1>10, <1>11 DEF TrackerInv

(***************************************************************************)
(* The same when the step touches neither a ticket nor a store.            *)
(***************************************************************************)
LEMMA PlainStepInv ==
  ASSUME TrackerInv, NEW j \in Job, StepTo(j),
         onCall \subseteq onCall', onCall' \subseteq Request,
         UNCHANGED <<plugin, state, stores, ticket, asked, carried, pendingEvents>>
  PROVE  TrackerInv'
<1>1. TicketsLast
  BY DEF TicketsLast, TrackerInv, TypeOK
<1>2. /\ pluginData' \in [Request -> Ticket \union {NoTicket}]
      /\ database' \in [Ticket -> Request \union {Nobody}]
      /\ StoresOwn'
  BY DEF TrackerInv, TypeOK, StoresOwn, stores
<1>3. UNCHANGED <<plugin, state, asked, carried, pendingEvents>>
  OBVIOUS
<1> QED BY <1>1, <1>2, <1>3, StepInv

(***************************************************************************)
(* Stores that a step leaves alone stay right while tickets last.          *)
(***************************************************************************)
LEMMA StoresPersist ==
  ASSUME TrackerInv, TicketsLast, UNCHANGED stores
  PROVE  /\ pluginData' \in [Request -> Ticket \union {NoTicket}]
         /\ database' \in [Ticket -> Request \union {Nobody}]
         /\ StoresOwn'
<1>1. pluginData' = pluginData /\ database' = database
  BY DEF stores
<1>2. \A r \in Request : pluginData[r] # NoTicket => ticket'[pluginData[r]].about = r
  <2> SUFFICES ASSUME NEW r \in Request, pluginData[r] # NoTicket
               PROVE  ticket'[pluginData[r]].about = r
    OBVIOUS
  <2>1. pluginData[r] \in Ticket /\ ticket[pluginData[r]].about = r
    BY DEF TrackerInv, TypeOK, StoresOwn
  <2> QED BY <2>1, TrackerAssumption DEF TicketsLast
<1>3. \A t \in Ticket : database[t] # Nobody => ticket'[t].about = database[t]
  BY DEF TrackerInv, StoresOwn, TicketsLast
<1> QED BY <1>1, <1>2, <1>3 DEF TrackerInv, TypeOK, StoresOwn

(***************************************************************************)
(* A free ticket is one that was not filed.                                *)
(***************************************************************************)
LEMMA FreeTicket ==
  ASSUME NEW j \in Job, NewTicket(j)
  PROVE  NextTicket \in Ticket /\ ticket[NextTicket] = NotFiled
<1>1. \E t \in Ticket : ticket[t] = NotFiled
  BY DEF NewTicket
<1> QED BY <1>1 DEF NextTicket

LEMMA FilingLasts ==
  ASSUME TrackerInv, NEW j \in Job, job[j].req \in Request, NewTicket(j)
  PROVE  /\ TicketsLast
         /\ NextTicket \in Ticket
         /\ ticket[NextTicket].about = Nobody
         /\ ticket'[NextTicket].about = job[j].req
         /\ \A t \in Ticket : t # NextTicket => ticket'[t].about = ticket[t].about
<1> DEFINE n == NextTicket
<1>1. n \in Ticket /\ ticket[n] = NotFiled
  BY FreeTicket
<1>2. ticket' = [ticket EXCEPT ![n].about = job[j].req, ![n].open = TRUE]
  BY DEF NewTicket
<1>3. ticket \in [Ticket -> TicketState]
  BY DEF TrackerInv, TypeOK
<1> HIDE DEF n
<1>4. /\ \A t \in Ticket : t # n => ticket'[t] = ticket[t]
      /\ ticket'[n] = [about |-> job[j].req, open |-> TRUE, mark |-> "pending"]
      /\ ticket'[n] \in TicketState
      /\ ticket' \in [Ticket -> TicketState]
  BY <1>1, <1>2, <1>3 DEF NotFiled, TicketState
<1>5. TicketsLast
  BY <1>1, <1>4 DEF TicketsLast, NotFiled, Decision
<1> QED BY <1>1, <1>4, <1>5 DEF n, NotFiled

(***************************************************************************)
(* What is known of a job that is not idle.                                *)
(***************************************************************************)
LEMMA BusyJob ==
  ASSUME TrackerInv, NEW j \in Job
  PROVE  /\ JobFits(job[j], asked, onCall, state, ticket)
         /\ job[j] \in JobState
         /\ job[j].pc \notin {"idle", "lookup"} => job[j].req \in Request
         /\ job[j].pc \in EventPC => job[j].hook = <<>>
         /\ job[j].pc \in TicketPC =>
              job[j].ticket \in Ticket /\ ticket[job[j].ticket].about = job[j].req
<1>1. JobFits(job[j], asked, onCall, state, ticket)
  BY DEF TrackerInv, JobsFit
<1> QED BY <1>1, TrackerAssumption DEF JobFits

(***************************************************************************)
(* An event's job goes on to its next step with its ticket.                *)
(***************************************************************************)
LEMMA EventGoesOn ==
  ASSUME NEW q, NEW a, NEW o, NEW s, NEW k, NEW t \in Ticket,
         NEW pc \in {"indexing", "saving", "on call?", "expiring"},
         JobFits(q, a, o, s, k), q.req \in Request, q.hook = <<>>,
         k[t].about = q.req
  PROVE  JobFits([q EXCEPT !.ticket = t, !.pc = pc], a, o, s, k)
<1> DEFINE new == [q EXCEPT !.ticket = t, !.pc = pc]
<1>1. q \in JobState
  BY DEF JobFits
<1>2. /\ new \in JobState
      /\ new.pc = pc /\ new.req = q.req /\ new.ticket = t
      /\ new.todo = q.todo /\ new.hook = q.hook /\ new.decision = q.decision
  BY <1>1 DEF JobState
<1> HIDE DEF new
<1>3. JobFits(new, a, o, s, k)
  BY <1>2, TrackerAssumption DEF JobFits
<1> QED BY <1>3 DEF new

LEMMA TicketGoesOn ==
  ASSUME NEW q, NEW a, NEW o, NEW s, NEW k,
         NEW pc \in {"saving", "on call?", "closing"},
         JobFits(q, a, o, s, k), q.req \in Request, q.ticket \in Ticket,
         q.hook = <<>> \/ pc = "closing"
  PROVE  JobFits([q EXCEPT !.pc = pc], a, o, s, k)
<1> DEFINE new == [q EXCEPT !.pc = pc]
<1>1. q \in JobState
  BY DEF JobFits
<1>2. /\ new \in JobState
      /\ new.pc = pc /\ new.req = q.req /\ new.ticket = q.ticket
      /\ new.todo = q.todo /\ new.hook = q.hook /\ new.decision = q.decision
  BY <1>1 DEF JobState
<1> HIDE DEF new
<1>3. JobFits(new, a, o, s, k)
  BY <1>2 DEF JobFits, EventPC
<1> QED BY <1>3 DEF new

-----------------------------------------------------------------------------
(***************************************************************************)
(* The steps of onPendingRequest.                                          *)
(***************************************************************************)
LEMMA CreateTicketInv ==
  ASSUME TrackerInv, NEW j \in Job, CreateTicket(j)
  PROVE  TrackerInv'
<1>1. job[j].pc = "filing"
  BY DEF CreateTicket, At
<1>2. /\ JobFits(job[j], asked, onCall, state, ticket)
      /\ job[j].req \in Request /\ job[j].hook = <<>>
  BY <1>1, BusyJob DEF EventPC
<1>3. UNCHANGED <<plugin, state, asked, onCall, carried, pendingEvents>> /\ UNCHANGED stores
  BY DEF CreateTicket, observers
<1>4. UNCHANGED ticket \/ NewTicket(j)
  BY DEF CreateTicket
<1>5. TicketsLast
  BY <1>2, <1>4, FilingLasts DEF TicketsLast, TrackerInv, TypeOK
<1>6. StepTo(j)
  <2>1. CASE CallFails(j)
    BY <1>2, <2>1, CallFailsSteps
  <2>2. ASSUME NewTicket(j), NoFault,
               NEW pc \in {"indexing", "saving"},
               Goto(j, [job[j] EXCEPT !.ticket = NextTicket, !.pc = pc])
        PROVE  StepTo(j)
    <3>1. NextTicket \in Ticket /\ ticket'[NextTicket].about = job[j].req
      BY <1>2, <2>2, FilingLasts
    <3>2. JobFits(job[j], asked', onCall', state', ticket')
      BY <1>2, <1>3, <1>5, FitsPersists DEF TicketsLast
    <3>3. JobFits([job[j] EXCEPT !.ticket = NextTicket, !.pc = pc],
                  asked', onCall', state', ticket')
      BY <1>2, <3>1, <3>2, EventGoesOn
    <3> QED BY <2>2, <3>3, GotoSteps
  <2> QED BY <2>1, <2>2 DEF CreateTicket
<1> QED
  <2>1. onCall \subseteq onCall' /\ onCall' \subseteq Request
    BY <1>3 DEF TrackerInv, TypeOK
  <2> QED BY <1>3, <1>5, <1>6, <2>1, StoresPersist, StepInv

LEMMA SetRequestIDInv ==
  ASSUME TrackerInv, NEW j \in Job, SetRequestID(j)
  PROVE  TrackerInv'
<1>1. job[j].pc = "indexing"
  BY DEF SetRequestID, At
<1>2. /\ JobFits(job[j], asked, onCall, state, ticket)
      /\ job[j].req \in Request /\ job[j].hook = <<>>
      /\ job[j].ticket \in Ticket /\ ticket[job[j].ticket].about = job[j].req
  BY <1>1, BusyJob DEF EventPC, TicketPC
<1>3. UNCHANGED <<plugin, state, pluginData, ticket, asked, onCall, carried, pendingEvents>>
  BY DEF SetRequestID, observers
<1>4. TicketsLast
  BY <1>3 DEF TicketsLast, TrackerInv, TypeOK
<1>5. StepTo(j)
  <2>1. CASE CallFails(j)
    BY <1>2, <2>1, CallFailsSteps
  <2>2. CASE NoFault /\ Goto(j, [job[j] EXCEPT !.pc = "saving"])
    BY <1>2, <2>2, TicketGoesOn, GotoSteps
  <2> QED BY <2>1, <2>2 DEF SetRequestID
<1>6. database' = database \/ database' = [database EXCEPT ![job[j].ticket] = job[j].req]
  BY DEF SetRequestID
<1>7. /\ database' \in [Ticket -> Request \union {Nobody}]
      /\ \A t \in Ticket : database'[t] # Nobody => ticket[t].about = database'[t]
  BY <1>2, <1>6 DEF TrackerInv, TypeOK, StoresOwn
<1>8. StoresOwn' /\ pluginData' \in [Request -> Ticket \union {NoTicket}]
  BY <1>3, <1>7 DEF TrackerInv, TypeOK, StoresOwn
<1>9. onCall \subseteq onCall' /\ onCall' \subseteq Request
  BY <1>3 DEF TrackerInv, TypeOK
<1> QED BY <1>3, <1>4, <1>5, <1>7, <1>8, <1>9, StepInv

LEMMA SetPluginDataInv ==
  ASSUME TrackerInv, NEW j \in Job, setPluginData(j)
  PROVE  TrackerInv'
<1> DEFINE r == job[j].req
<1>1. job[j].pc = "saving"
  BY DEF setPluginData, At
<1>2. /\ JobFits(job[j], asked, onCall, state, ticket)
      /\ r \in Request /\ job[j].hook = <<>>
      /\ job[j].ticket \in Ticket /\ ticket[job[j].ticket].about = r
  BY <1>1, BusyJob DEF EventPC, TicketPC
<1>3. UNCHANGED <<plugin, state, database, ticket, asked, onCall, carried, pendingEvents>>
  BY DEF setPluginData, observers
<1>4. TicketsLast
  BY <1>3 DEF TicketsLast, TrackerInv, TypeOK
<1>5. StepTo(j)
  <2>1. CASE CallFails(j)
    BY <1>2, <2>1, CallFailsSteps
  <2>2. CASE NoFault /\ Goto(j, [job[j] EXCEPT !.pc = "on call?"])
    BY <1>2, <2>2, TicketGoesOn, GotoSteps
  <2>3. CASE NoFault /\ Finish(j)
    BY <2>3, FinishSteps
  <2>4. CASE Refuse(j)
    BY <2>4, RefuseSteps
  <2> QED BY <2>1, <2>2, <2>3, <2>4 DEF setPluginData
<1>6. pluginData' = pluginData \/ pluginData' = [pluginData EXCEPT ![r] = job[j].ticket]
  BY DEF setPluginData
<1>7. /\ pluginData' \in [Request -> Ticket \union {NoTicket}]
      /\ \A x \in Request : pluginData'[x] # NoTicket => ticket[pluginData'[x]].about = x
  BY <1>2, <1>6 DEF TrackerInv, TypeOK, StoresOwn
<1>8. StoresOwn' /\ database' \in [Ticket -> Request \union {Nobody}]
  BY <1>3, <1>7 DEF TrackerInv, TypeOK, StoresOwn
<1>9. onCall \subseteq onCall' /\ onCall' \subseteq Request
  BY <1>3 DEF TrackerInv, TypeOK
<1> QED BY <1>3, <1>4, <1>5, <1>7, <1>8, <1>9, StepInv

LEMMA AutoApproveInv ==
  ASSUME TrackerInv, NEW j \in Job, tryAutoApproveRequest(j)
  PROVE  TrackerInv'
<1> DEFINE q == job[j]
           new == [q EXCEPT !.pc = "setting", !.decision = "approved"]
<1>1. q.pc = "on call?"
  BY DEF tryAutoApproveRequest, At
<1>2. /\ JobFits(q, asked, onCall, state, ticket)
      /\ q \in JobState /\ q.req \in Request /\ q.hook = <<>> /\ q.ticket \in Ticket
  BY <1>1, BusyJob DEF EventPC, TicketPC
<1>3. UNCHANGED <<plugin, state, stores, ticket, asked, carried, pendingEvents>>
  BY DEF tryAutoApproveRequest
<1>4. onCall \subseteq onCall' /\ onCall' \subseteq Request
  BY <1>2 DEF tryAutoApproveRequest, TrackerInv, TypeOK
<1>5. StepTo(j)
  <2>1. CASE CallFails(j)
    BY <1>2, <2>1, CallFailsSteps
  <2>2. CASE NoFault /\ Finish(j)
    BY <2>2, FinishSteps
  <2>3. CASE onCall' = onCall \union {q.req} /\ Goto(j, new) /\ NoFault
    <3>1. JobFits(q, asked', onCall', state', ticket')
      BY <1>2, <1>3, <1>4, FitsPersists
    <3>2. /\ new \in JobState
          /\ new.pc = "setting" /\ new.decision = "approved"
          /\ new.req = q.req /\ new.ticket = q.ticket
          /\ new.todo = q.todo /\ new.hook = q.hook
      BY <1>2 DEF JobState, Decision
    <3>3. new.req \in onCall'
      BY <2>3, <3>2
    <3>4. JobFits(new, asked', onCall', state', ticket')
      <4> HIDE DEF new
      <4> QED BY <1>2, <3>1, <3>2, <3>3 DEF JobFits, EventPC, TicketPC
    <3> QED BY <2>3, <3>4, GotoSteps
  <2> QED BY <2>1, <2>2, <2>3 DEF tryAutoApproveRequest
<1> QED BY <1>3, <1>4, <1>5, PlainStepInv

-----------------------------------------------------------------------------
(***************************************************************************)
(* The steps of onDeletedRequest and the end of a decision.                *)
(***************************************************************************)
LEMMA GetTicketInv ==
  ASSUME TrackerInv, NEW j \in Job, getTicket(j)
  PROVE  TrackerInv'
<1> DEFINE q == job[j]
           t == pluginData[q.req]
<1>1. q.pc = "reading"
  BY DEF getTicket, At
<1>2. /\ JobFits(q, asked, onCall, state, ticket)
      /\ q.req \in Request /\ q.hook = <<>>
  BY <1>1, BusyJob DEF EventPC
<1>3. /\ UNCHANGED <<plugin, state, stores, ticket, asked, carried, pendingEvents>>
      /\ onCall' = onCall
  BY DEF getTicket, observers
<1>4. StepTo(j)
  <2>1. CASE CallFails(j)
    BY <1>2, <2>1, CallFailsSteps
  <2>2. CASE NoFault /\ Finish(j)
    BY <2>2, FinishSteps
  <2>3. CASE /\ NoFault /\ t # NoTicket
             /\ Goto(j, [q EXCEPT !.pc = "expiring", !.ticket = t])
    <3>1. t \in Ticket /\ ticket[t].about = q.req
      BY <1>2, <2>3 DEF TrackerInv, TypeOK, StoresOwn
    <3>2. [q EXCEPT !.pc = "expiring", !.ticket = t] = [q EXCEPT !.ticket = t, !.pc = "expiring"]
      BY <1>2 DEF JobFits, JobState
    <3>3. JobFits([q EXCEPT !.ticket = t, !.pc = "expiring"], asked, onCall, state, ticket)
      BY <1>2, <3>1, EventGoesOn
    <3> QED BY <2>3, <3>2, <3>3, GotoSteps
  <2> QED BY <2>1, <2>2, <2>3 DEF getTicket
<1>5. onCall \subseteq onCall' /\ onCall' \subseteq Request
  BY <1>3 DEF TrackerInv, TypeOK
<1> QED BY <1>3, <1>4, <1>5, PlainStepInv

LEMMA MarkLasts ==
  ASSUME TrackerInv, NEW t \in Ticket,
         \/ ticket' = ticket
         \/ MarkExpired(t)
         \/ Close(t)
  PROVE  TicketsLast
<1>1. ticket \in [Ticket -> TicketState]
  BY DEF TrackerInv, TypeOK
<1>2. CASE ticket' = ticket
  BY <1>1, <1>2 DEF TicketsLast
<1>3. ASSUME NEW open \in BOOLEAN, NEW mark \in {ticket[t].mark, "expired"},
             ticket' = [ticket EXCEPT ![t].open = open, ![t].mark = mark]
      PROVE  TicketsLast
  <2>1. mark \in Decision \union {"pending", "expired"}
    BY <1>1, <1>3 DEF TicketState
  <2>2. /\ ticket' \in [Ticket -> TicketState]
        /\ \A x \in Ticket : ticket'[x].about = ticket[x].about
        /\ \A x \in Ticket : x # t => ticket'[x].mark = ticket[x].mark
        /\ ticket'[t].mark = mark
    BY <1>1, <1>3, <2>1 DEF TicketState
  <2> QED BY <1>3, <2>2 DEF TicketsLast, Decision
<1>4. CASE MarkExpired(t)
  <2>1. ticket' = [ticket EXCEPT
          ![t].open = IF plugin = "jira" THEN ticket[t].open ELSE FALSE,
          ![t].mark = IF plugin = "pagerduty" THEN ticket[t].mark ELSE "expired"]
    BY <1>1, <1>4 DEF MarkExpired
  <2>2. ticket[t].open \in BOOLEAN
    BY <1>1 DEF TicketState
  <2> QED BY <1>3, <2>1, <2>2
<1>5. CASE Close(t)
  <2>1. /\ ticket' \in [Ticket -> TicketState]
        /\ \A x \in Ticket : ticket'[x].about = ticket[x].about /\ ticket'[x].mark = ticket[x].mark
    BY <1>1, <1>5 DEF Close, TicketState
  <2> QED BY <2>1 DEF TicketsLast
<1> QED BY <1>2, <1>4, <1>5

LEMMA ExpireTicketInv ==
  ASSUME TrackerInv, NEW j \in Job, ExpireTicket(j)
  PROVE  TrackerInv'
<1> DEFINE t == job[j].ticket
<1>1. job[j].pc = "expiring"
  BY DEF ExpireTicket, At
<1>2. job[j].req \in Request /\ t \in Ticket
  BY <1>1, BusyJob DEF TicketPC
<1>3. /\ UNCHANGED <<plugin, state, asked, carried, pendingEvents>>
      /\ UNCHANGED stores /\ onCall' = onCall
  BY DEF ExpireTicket, observers
<1>4. ticket' = ticket \/ MarkExpired(t)
  BY DEF ExpireTicket
<1>5. TicketsLast
  BY <1>2, <1>4, MarkLasts
<1>6. StepTo(j)
  <2>1. CASE CallFails(j)
    BY <1>2, <2>1, CallFailsSteps
  <2>2. CASE NoFault /\ Finish(j)
    BY <2>2, FinishSteps
  <2>3. CASE Fail(j, {job[j].req}) /\ UNCHANGED faults
    <3>1. faults' \in Nat /\ {job[j].req} \in SUBSET Request
      BY <1>2, <2>3 DEF TrackerInv, TypeOK
    <3> QED BY <2>3, <3>1, FailSteps
  <2> QED BY <2>1, <2>2, <2>3 DEF ExpireTicket
<1>7. onCall \subseteq onCall' /\ onCall' \subseteq Request
  BY <1>3 DEF TrackerInv, TypeOK
<1> QED BY <1>3, <1>5, <1>6, <1>7, StoresPersist, StepInv

LEMMA CloseTicketInv ==
  ASSUME TrackerInv, NEW j \in Job, CloseTicket(j)
  PROVE  TrackerInv'
<1> DEFINE t == job[j].ticket
<1>1. job[j].pc = "closing"
  BY DEF CloseTicket, At
<1>2. job[j].req \in Request /\ t \in Ticket
  BY <1>1, BusyJob DEF TicketPC
<1>3. /\ UNCHANGED <<plugin, state, asked, carried, pendingEvents>>
      /\ UNCHANGED stores /\ onCall' = onCall
  BY DEF CloseTicket, observers
<1>4. ticket' = ticket \/ Close(t)
  BY DEF CloseTicket
<1>5. TicketsLast
  BY <1>2, <1>4, MarkLasts
<1>6. StepTo(j)
  <2>1. CASE CallFails(j)
    BY <1>2, <2>1, CallFailsSteps
  <2>2. CASE NoFault /\ Finish(j)
    BY <2>2, FinishSteps
  <2> QED BY <2>1, <2>2 DEF CloseTicket
<1>7. onCall \subseteq onCall' /\ onCall' \subseteq Request
  BY <1>3 DEF TrackerInv, TypeOK
<1> QED BY <1>3, <1>5, <1>6, <1>7, StoresPersist, StepInv

-----------------------------------------------------------------------------
(***************************************************************************)
(* The steps of a webhook up to the decision.                              *)
(***************************************************************************)
LEMMA LookupInv ==
  ASSUME TrackerInv, NEW j \in Job, Lookup(j)
  PROVE  TrackerInv'
<1> DEFINE q == job[j]
           m == Head(q.todo)
           t == m[1]
           r == IF plugin = "gitlab" /\ database[t] # Nobody THEN database[t]
                ELSE ticket[t].about
           d == IF plugin = "jira" THEN ticket[t].mark ELSE m[2]
           new == [q EXCEPT !.pc = "checking", !.req = r, !.ticket = t, !.decision = d]
<1>1. q.pc = "lookup"
  BY DEF Lookup, At
<1>2. JobFits(q, asked, onCall, state, ticket) /\ q \in JobState
  BY BusyJob
<1>3. q.todo \in Seq(Message) /\ q.todo # <<>> /\ q.hook # <<>>
  BY <1>1, <1>2 DEF JobFits, JobState
<1>4. m \in asked /\ m \in Message
  <2>1. Len(q.todo) >= 1 /\ 1 \in DOMAIN q.todo /\ m = q.todo[1]
    BY <1>3
  <2> QED BY <1>2, <1>3, <2>1 DEF JobFits
<1>5. t \in Ticket /\ m[2] \in Decision /\ m = <<t, m[2]>>
  BY <1>4 DEF Message
<1>6. ticket[t].about \in Request
  <2>1. ticket[t] \in TicketState
    BY <1>5 DEF TrackerInv, TypeOK
  <2> QED BY <1>4, <2>1 DEF TrackerInv, AskedFiled, TicketState
<1>7. r \in Request /\ ticket[t].about = r
  BY <1>5, <1>6 DEF TrackerInv, StoresOwn
<1>8. d \in Decision => <<t, d>> \in asked
  BY <1>4, <1>5 DEF TrackerInv, MarksAsked
<1>9. /\ UNCHANGED <<plugin, state, stores, ticket, asked, carried, pendingEvents>>
      /\ onCall' = onCall
  BY DEF Lookup, observers
<1>10. \/ NoFault /\ Finish(j)
       \/ d \in Decision /\ Goto(j, new) /\ NoFault
       \/ AnotherFault /\ Fail(j, {r})
  BY DEF Lookup
<1> HIDE DEF m, r, d
<1>11. StepTo(j)
  <2>1. CASE NoFault /\ Finish(j)
    BY <2>1, FinishSteps
  <2>2. CASE d \in Decision /\ Goto(j, new) /\ NoFault
    <3>1. /\ new \in JobState
          /\ new.pc = "checking" /\ new.req = r /\ new.ticket = t /\ new.decision = d
          /\ new.todo = q.todo /\ new.hook = q.hook
      BY <1>2, <1>5, <1>7, <2>2 DEF JobState
    <3>2. JobFits(new, asked, onCall, state, ticket)
      <4> HIDE DEF new
      <4> QED BY <1>2, <1>3, <1>5, <1>7, <1>8, <2>2, <3>1 DEF JobFits, EventPC, TicketPC
    <3> QED BY <2>2, <3>2, GotoSteps
  <2>3. CASE AnotherFault /\ Fail(j, {r})
    <3>1. faults' \in Nat /\ {r} \in SUBSET Request
      BY <1>7, <2>3 DEF AnotherFault, TrackerInv, TypeOK
    <3> QED BY <2>3, <3>1, FailSteps
  <2> QED BY <1>10, <2>1, <2>2, <2>3
<1>12. onCall \subseteq onCall' /\ onCall' \subseteq Request
  BY <1>9 DEF TrackerInv, TypeOK
<1> QED BY <1>9, <1>11, <1>12, PlainStepInv

LEMMA GetRequestInv ==
  ASSUME TrackerInv, NEW j \in Job, GetRequest(j)
  PROVE  TrackerInv'
<1> DEFINE q == job[j]
           new == [q EXCEPT !.pc = "matching"]
<1>1. q.pc = "checking"
  BY DEF GetRequest, At
<1>2. /\ JobFits(q, asked, onCall, state, ticket) /\ q \in JobState
      /\ q.req \in Request /\ q.ticket \in Ticket
  BY <1>1, BusyJob DEF TicketPC
<1>3. /\ UNCHANGED <<plugin, state, stores, ticket, asked, carried, pendingEvents>>
      /\ onCall' = onCall
  BY DEF GetRequest, observers
<1>4. StepTo(j)
  <2>1. CASE CallFails(j)
    BY <1>2, <2>1, CallFailsSteps
  <2>2. CASE NoFault /\ Finish(j)
    BY <2>2, FinishSteps
  <2>3. CASE Refuse(j)
    BY <2>3, RefuseSteps
  <2>4. CASE state[q.req] = "pending" /\ Goto(j, new) /\ NoFault
    <3>1. /\ new \in JobState
          /\ new.pc = "matching" /\ new.req = q.req /\ new.ticket = q.ticket
          /\ new.decision = q.decision /\ new.todo = q.todo /\ new.hook = q.hook
      BY <1>2 DEF JobState
    <3>2. JobFits(new, asked, onCall, state, ticket)
      <4> HIDE DEF new
      <4> QED BY <1>1, <1>2, <2>4, <3>1 DEF JobFits, EventPC
    <3> QED BY <2>4, <3>2, GotoSteps
  <2> QED BY <2>1, <2>2, <2>3, <2>4 DEF GetRequest
<1>5. onCall \subseteq onCall' /\ onCall' \subseteq Request
  BY <1>3 DEF TrackerInv, TypeOK
<1> QED BY <1>3, <1>4, <1>5, PlainStepInv

LEMMA GetPluginDataInv ==
  ASSUME TrackerInv, NEW j \in Job, getPluginData(j)
  PROVE  TrackerInv'
<1> DEFINE q == job[j]
           new == [q EXCEPT !.pc = "setting"]
<1>1. q.pc = "matching"
  BY DEF getPluginData, At
<1>2. /\ JobFits(q, asked, onCall, state, ticket) /\ q \in JobState
      /\ q.req \in Request /\ q.ticket \in Ticket
  BY <1>1, BusyJob DEF TicketPC
<1>3. /\ UNCHANGED <<plugin, state, stores, ticket, asked, carried, pendingEvents>>
      /\ onCall' = onCall
  BY DEF getPluginData, observers
<1>4. StepTo(j)
  <2>1. CASE CallFails(j)
    BY <1>2, <2>1, CallFailsSteps
  <2>2. CASE Refuse(j)
    BY <2>2, RefuseSteps
  <2>3. CASE Goto(j, new) /\ NoFault
    <3>1. /\ new \in JobState
          /\ new.pc = "setting" /\ new.req = q.req /\ new.ticket = q.ticket
          /\ new.decision = q.decision /\ new.stale = q.stale
          /\ new.todo = q.todo /\ new.hook = q.hook
      BY <1>2 DEF JobState
    <3>2. JobFits(new, asked, onCall, state, ticket)
      <4> HIDE DEF new
      <4> QED BY <1>1, <1>2, <3>1 DEF JobFits, EventPC
    <3> QED BY <2>3, <3>2, GotoSteps
  <2> QED BY <2>1, <2>2, <2>3 DEF getPluginData
<1>5. onCall \subseteq onCall' /\ onCall' \subseteq Request
  BY <1>3 DEF TrackerInv, TypeOK
<1> QED BY <1>3, <1>4, <1>5, PlainStepInv

-----------------------------------------------------------------------------
(***************************************************************************)
(* A step that changes the state of a request makes the jobs that have     *)
(* checked it stale, and may give one job a new record.                    *)
(***************************************************************************)
LEMMA OutdateFits ==
  ASSUME TrackerInv, NEW r \in Request, NEW to
  PROVE  /\ Outdate(r) \in [Job -> JobState]
         /\ \A i \in Job :
              JobFits(Outdate(r)[i], asked, onCall, [state EXCEPT ![r] = to], ticket)
<1>1. \A i \in Job : JobFits(Outdated(job[i], r), asked, onCall, [state EXCEPT ![r] = to], ticket)
  BY FitsOutdated DEF TrackerInv, TypeOK, JobsFit
<1>2. Outdate(r) = [i \in Job |-> Outdated(job[i], r)]
  BY DEF Outdate, Outdated
<1>3. \A i \in Job : Outdated(job[i], r) \in JobState
  BY <1>1 DEF JobFits
<1> QED BY <1>1, <1>2, <1>3

LEMMA ChangeStateInv ==
  ASSUME TrackerInv, NEW r \in Request,
         NEW to \in Decision \union {"none", "pending", "deleted"},
         state' = [state EXCEPT ![r] = to],
         \/ job' = Outdate(r)
         \/ \E j \in Job : \E new : /\ JobFits(new, asked, onCall, state', ticket)
                                    /\ job' = [Outdate(r) EXCEPT ![j] = new],
         webhooks' \subseteq webhooks,
         excused' \subseteq Request, faults' \in Nat,
         pendingEvents' \in [Request -> Nat],
         carried' \subseteq Request \X Decision,
         UNCHANGED <<plugin, stores, ticket, asked, onCall>>
  PROVE  TrackerInv'
<1>1. /\ Outdate(r) \in [Job -> JobState]
      /\ \A i \in Job : JobFits(Outdate(r)[i], asked, onCall, state', ticket)
  BY OutdateFits
<1> HIDE DEF Outdate
<1>2. job' \in [Job -> JobState] /\ \A i \in Job : JobFits(job'[i], asked, onCall, state', ticket)
  <2>1. CASE job' = Outdate(r)
    BY <1>1, <2>1
  <2>2. ASSUME NEW j \in Job, NEW new, JobFits(new, asked, onCall, state', ticket),
               job' = [Outdate(r) EXCEPT ![j] = new]
        PROVE  /\ job' \in [Job -> JobState]
               /\ \A i \in Job : JobFits(job'[i], asked, onCall, state', ticket)
    <3>1. new \in JobState
      BY <2>2 DEF JobFits
    <3>2. /\ job' \in [Job -> JobState]
          /\ \A i \in Job : job'[i] = IF i = j THEN new ELSE Outdate(r)[i]
      BY <1>1, <2>2, <3>1
    <3> QED BY <1>1, <2>2, <3>2
  <2> QED BY <2>1, <2>2
<1>3. JobsFit'
  BY <1>2 DEF JobsFit
<1>4. TypeOK'
  BY <1>2 DEF TrackerInv, TypeOK, stores
<1>5. StoresOwn' /\ AskedFiled' /\ MarksAsked' /\ HooksAsked'
  BY DEF TrackerInv, StoresOwn, AskedFiled, MarksAsked, HooksAsked, stores
<1> QED BY <1>3, <1>4, <1>5 DEF TrackerInv

LEMMA SetRequestStateInv ==
  ASSUME TrackerInv, NEW j \in Job, SetRequestState(j)
  PROVE  TrackerInv'
<1> DEFINE q == job[j]
           r == q.req
           d == q.decision
           new == [q EXCEPT !.pc = "closing"]
           Set == /\ state' = [state EXCEPT ![r] = d]
                  /\ carried' = carried \union {<<r, d>>}
<1>1. q.pc = "setting"
  BY DEF SetRequestState, At
<1>2. /\ JobFits(q, asked, onCall, state, ticket) /\ q \in JobState
      /\ r \in Request /\ q.ticket \in Ticket
  BY <1>1, BusyJob DEF TicketPC
<1>3. d \in Decision
  BY <1>2 DEF JobState
<1>4. UNCHANGED <<plugin, stores, ticket, asked, onCall, pendingEvents>>
  BY DEF SetRequestState
<1>5. ASSUME Set, webhooks' \subseteq webhooks, excused' \subseteq Request, faults' \in Nat,
             NEW to \in {Idle, new}, job' = [Outdate(r) EXCEPT ![j] = to]
      PROVE  TrackerInv'
  <2>1. JobFits(Idle, asked, onCall, state', ticket)
    BY IdleFits
  <2>2. JobFits(new, asked, onCall, state', ticket)
    <3>1. JobFits(new, asked, onCall, state, ticket)
      BY <1>2, TicketGoesOn
    <3>2. new.pc = "closing"
      BY <1>2 DEF JobState
    <3> HIDE DEF new
    <3> QED BY <3>1, <3>2 DEF JobFits
  <2>3. JobFits(to, asked, onCall, state', ticket)
    BY <1>5, <2>1, <2>2
  <2>4. carried' \subseteq Request \X Decision /\ pendingEvents' \in [Request -> Nat]
    BY <1>2, <1>3, <1>4, <1>5 DEF TrackerInv, TypeOK
  <2>5. state' = [state EXCEPT ![r] = d]
        /\ \E i \in Job : \E x : /\ JobFits(x, asked, onCall, state', ticket)
                                 /\ job' = [Outdate(r) EXCEPT ![i] = x]
    BY <1>5, <2>3
  <2>6. UNCHANGED <<plugin, stores, ticket, asked, onCall>>
    BY <1>4
  <2> HIDE DEF new, Set
  <2> QED BY <1>2, <1>3, <1>5, <2>4, <2>5, <2>6, ChangeStateInv
<1>6. CASE /\ Set /\ NoFault
           /\ job' = [Outdate(r) EXCEPT ![j] = IF plugin = "jira" THEN Idle ELSE new]
           /\ webhooks' = IF plugin = "jira" THEN webhooks \ {q.hook} ELSE webhooks
  <2>1. webhooks' \subseteq webhooks /\ excused' \subseteq Request /\ faults' \in Nat
    BY <1>6 DEF NoFault, TrackerInv, TypeOK
  <2>2. (IF plugin = "jira" THEN Idle ELSE new) \in {Idle, new}
    OBVIOUS
  <2> HIDE DEF new, Set
  <2> QED BY <1>5, <1>6, <2>1, <2>2
<1>7. CASE /\ AnotherFault /\ Set
           /\ job' = [Outdate(r) EXCEPT ![j] = Idle]
           /\ Blame({r} \union LostWith(q.hook))
           /\ webhooks' \in {webhooks, webhooks \ {q.hook}}
  <2>1. LostWith(q.hook) \subseteq Request
    <3>1. q.hook \in Seq(Message) /\ \A i \in DOMAIN q.hook : q.hook[i] \in asked
      BY <1>2 DEF JobFits, JobState
    <3> QED BY <3>1, AboutType DEF TrackerInv, LostWith
  <2>2. webhooks' \subseteq webhooks /\ excused' \subseteq Request /\ faults' \in Nat
    BY <1>2, <1>7, <2>1 DEF AnotherFault, Blame, TrackerInv, TypeOK
  <2> HIDE DEF new, Set
  <2> QED BY <1>5, <1>7, <2>2
<1>8. CASE (Refuse(j) \/ CallFails(j)) /\ UNCHANGED <<state, carried>>
  <2>1. StepTo(j)
    BY <1>2, <1>8, RefuseSteps, CallFailsSteps
  <2>2. onCall \subseteq onCall' /\ onCall' \subseteq Request
    BY <1>4 DEF TrackerInv, TypeOK
  <2>3. UNCHANGED <<plugin, state, stores, ticket, asked, carried, pendingEvents>>
    BY <1>4, <1>8
  <2> QED BY <2>1, <2>2, <2>3, PlainStepInv
<1> QED BY <1>6, <1>7, <1>8 DEF SetRequestState

LEMMA JobStepInv ==
  ASSUME TrackerInv, NEW j \in Job, JobStep(j)
  PROVE  TrackerInv'
BY CreateTicketInv, SetRequestIDInv, SetPluginDataInv, AutoApproveInv, GetTicketInv,
   ExpireTicketInv, LookupInv, GetRequestInv, GetPluginDataInv, SetRequestStateInv,
   CloseTicketInv
   DEF JobStep

-----------------------------------------------------------------------------
(***************************************************************************)
(* The steps of the auth server.                                           *)
(***************************************************************************)
LEMMA FreeJobIsIdle ==
  ASSUME \E j \in Job : job[j] = Idle
  PROVE  FreeJob \in Job /\ job[FreeJob] = Idle
BY DEF FreeJob

LEMMA EventInv ==
  ASSUME TrackerInv, NEW r \in Request,
         NEW from, NEW to \in {"pending", "deleted"}, Change(r, from, to),
         NEW pc \in {"filing", "reading"}, onWatcherEvent(r, pc),
         pendingEvents' \in [Request -> Nat]
  PROVE  TrackerInv'
<1>1. /\ state' = [state EXCEPT ![r] = to]
      /\ UNCHANGED <<plugin, stores, ticket, asked, onCall>>
      /\ webhooks' \subseteq webhooks /\ carried' \subseteq Request \X Decision
  BY DEF Change, hooks, observers, TrackerInv, TypeOK
<1>2. excused' \subseteq Request /\ faults' \in Nat
  BY DEF onWatcherEvent, Blame, AnotherFault, TrackerInv, TypeOK
<1>3. \/ job' = Outdate(r)
      \/ \E j \in Job : \E new : /\ JobFits(new, asked, onCall, state', ticket)
                                 /\ job' = [Outdate(r) EXCEPT ![j] = new]
  <2>1. CASE job' = Outdate(r)
    BY <2>1
  <2>2. CASE /\ \E j \in Job : job[j] = Idle
             /\ job' = [Outdate(r) EXCEPT ![FreeJob] = EventJob(r, pc)]
    <3>1. FreeJob \in Job
      BY <2>2, FreeJobIsIdle
    <3>2. JobFits(EventJob(r, pc), asked, onCall, state', ticket)
      BY EventFits
    <3> QED BY <2>2, <3>1, <3>2
  <2> QED BY <2>1, <2>2 DEF onWatcherEvent
<1>4. to \in Decision \union {"none", "pending", "deleted"}
  OBVIOUS
<1> QED BY <1>1, <1>2, <1>3, <1>4, ChangeStateInv

LEMMA AuthServerInv ==
  ASSUME TrackerInv, NEW r \in Request, AuthServer(r)
  PROVE  TrackerInv'
<1>1. CASE Pend(r)
  <2>1. pendingEvents' \in [Request -> Nat]
    BY <1>1 DEF Pend, TrackerInv, TypeOK
  <2>2. Change(r, {"none", "pending"}, "pending") /\ onWatcherEvent(r, "filing")
    BY <1>1 DEF Pend
  <2> QED BY <2>1, <2>2, EventInv
<1>2. CASE Delete(r)
  <2>1. pendingEvents' \in [Request -> Nat]
    BY <1>2 DEF Delete, TrackerInv, TypeOK
  <2>2. /\ Change(r, {"pending", "approved", "denied"}, "deleted")
        /\ onWatcherEvent(r, "reading")
    BY <1>2 DEF Delete
  <2> QED BY <2>1, <2>2, EventInv
<1>3. ASSUME NEW d \in Decision, ResolveElsewhere(r, d)
      PROVE  TrackerInv'
  <2>1. /\ state' = [state EXCEPT ![r] = d]
        /\ job' = Outdate(r)
        /\ UNCHANGED <<plugin, stores, ticket, asked, onCall>>
        /\ webhooks' \subseteq webhooks /\ carried' \subseteq Request \X Decision
        /\ excused' \subseteq Request /\ faults' \in Nat /\ pendingEvents' \in [Request -> Nat]
    BY <1>3 DEF ResolveElsewhere, Change, Blame, hooks, observers, TrackerInv, TypeOK
  <2> QED BY <2>1, ChangeStateInv
<1>4. CASE ExpireData(r)
  <2>1. /\ UNCHANGED <<plugin, state, database, ticket, asked, webhooks, job, onCall,
                       carried, pendingEvents, faults>>
        /\ pluginData' = [pluginData EXCEPT ![r] = NoTicket]
        /\ excused' \subseteq Request
    BY <1>4 DEF ExpireData, Blame, hooks, observers, TrackerInv, TypeOK
  <2>2. TypeOK'
    BY <2>1 DEF TrackerInv, TypeOK
  <2>3. StoresOwn'
    BY <2>1 DEF TrackerInv, TypeOK, StoresOwn
  <2>4. JobsFit' /\ AskedFiled' /\ MarksAsked' /\ HooksAsked'
    BY <2>1 DEF TrackerInv, JobsFit, AskedFiled, MarksAsked, HooksAsked
  <2> QED BY <2>2, <2>3, <2>4 DEF TrackerInv
<1> QED BY <1>1, <1>2, <1>3, <1>4 DEF AuthServer

-----------------------------------------------------------------------------
(***************************************************************************)
(* The steps of the people, the sender of webhooks, and a crash.           *)
(***************************************************************************)
LEMMA DecideInv ==
  ASSUME TrackerInv, NEW t \in Ticket, NEW d \in Decision, Decide(t, d)
  PROVE  TrackerInv'
<1> DEFINE w == << <<t, d>> >>
<1>1. /\ UNCHANGED <<plugin, state, pluginData, database, job, onCall, carried,
                     pendingEvents, excused, faults>>
      /\ ticket[t].about # Nobody
      /\ asked' = asked \union {<<t, d>>}
      /\ webhooks' = webhooks \union {w}
  BY DEF Decide, stores, observers
<1>2. ticket \in [Ticket -> TicketState]
  BY DEF TrackerInv, TypeOK
<1>3. ticket' = ticket \/ ticket' = [ticket EXCEPT ![t].mark = d]
  BY DEF Decide
<1>4. /\ ticket' \in [Ticket -> TicketState]
      /\ \A x \in Ticket : ticket'[x].about = ticket[x].about
      /\ \A x \in Ticket : ticket'[x].mark = ticket[x].mark \/ (x = t /\ ticket'[x].mark = d)
  BY <1>2, <1>3 DEF TicketState
<1>5. /\ w \in Seq(Message) /\ w # <<>>
      /\ \A i \in DOMAIN w : w[i] = <<t, d>>
  <2>1. <<t, d>> \in Message
    BY DEF Message
  <2>2. w \in Seq(Message) /\ Len(w) = 1 /\ DOMAIN w = {1} /\ w[1] = <<t, d>>
    BY <2>1
  <2>3. w # <<>>
    OBVIOUS
  <2> QED BY <2>2, <2>3
<1> HIDE DEF w
<1>6. TypeOK'
  BY <1>1, <1>4, <1>5 DEF TrackerInv, TypeOK, Message
<1>7. StoresOwn'
  BY <1>1, <1>4 DEF TrackerInv, TypeOK, StoresOwn, TicketState
<1>8. AskedFiled'
  <2>1. \A m \in asked : m[1] \in Ticket
    BY DEF TrackerInv, TypeOK, Message
  <2>2. \A m \in asked' : m \in asked \/ m[1] = t
    BY <1>1
  <2> QED BY <1>1, <1>4, <2>1, <2>2 DEF TrackerInv, AskedFiled
<1>9. MarksAsked'
  BY <1>1, <1>4 DEF TrackerInv, MarksAsked
<1>10. HooksAsked'
  BY <1>1, <1>5 DEF TrackerInv, HooksAsked
<1>11. JobsFit'
  <2>1. asked \subseteq asked' /\ onCall \subseteq onCall
    BY <1>1
  <2>2. \A j \in Job : JobFits(job[j], asked', onCall, state, ticket')
    BY <1>4, <2>1, FitsPersists DEF TrackerInv, JobsFit
  <2> QED BY <1>1, <2>2 DEF JobsFit
<1> QED BY <1>6, <1>7, <1>8, <1>9, <1>10, <1>11 DEF TrackerInv

LEMMA RedeliverInv ==
  ASSUME TrackerInv, NEW t \in Ticket, Redeliver(t)
  PROVE  TrackerInv'
<1>1. PICK w \in webhooks : Deliver(w)
  BY DEF Redeliver
<1>2. FreeJob \in Job
  BY <1>1, FreeJobIsIdle DEF Deliver
<1>3. JobFits(Delivered(w, w), asked, onCall, state, ticket)
  <2>1. w \in Seq(Message) /\ w # <<>> /\ \A i \in DOMAIN w : w[i] \in asked
    BY DEF TrackerInv, TypeOK, HooksAsked
  <2> QED BY <2>1, WebhookFits
<1>4. StepTo(FreeJob)
  <2>1. job' = [job EXCEPT ![FreeJob] = Delivered(w, w)]
    BY <1>1 DEF Deliver
  <2>2. webhooks' \subseteq webhooks /\ excused' \subseteq Request /\ faults' \in Nat
    BY <1>1 DEF Deliver, AnotherFault, hooks, TrackerInv, TypeOK
  <2> QED BY <1>3, <2>1, <2>2 DEF StepTo
<1>5. /\ UNCHANGED <<plugin, state, stores, ticket, asked, carried, pendingEvents>>
      /\ onCall \subseteq onCall' /\ onCall' \subseteq Request
  BY <1>1 DEF Deliver, hooks, observers, TrackerInv, TypeOK
<1> QED BY <1>2, <1>4, <1>5, PlainStepInv

LEMMA TwoMessages ==
  ASSUME NEW u \in Seq(Message), NEW v \in Seq(Message), Len(u) = 1, Len(v) = 1
  PROVE  /\ DOMAIN u = {1} /\ DOMAIN v = {1}
         /\ u \o v \in Seq(Message) /\ Len(u \o v) = 2 /\ DOMAIN (u \o v) = {1, 2}
         /\ (u \o v)[1] = u[1] /\ (u \o v)[2] = v[1]
<1>1. \A s, t \in Seq(Message) :
        /\ s \o t \in Seq(Message) /\ Len(s \o t) = Len(s) + Len(t)
        /\ \A i \in 1..(Len(s) + Len(t)) :
             (s \o t)[i] = IF i <= Len(s) THEN s[i] ELSE t[i - Len(s)]
  OBVIOUS
<1>2. \A w \in Seq(Message) : DOMAIN w = 1..Len(w)
  OBVIOUS
<1> HIDE DEF Message
<1>3. /\ u \o v \in Seq(Message) /\ Len(u \o v) = Len(u) + Len(v)
      /\ \A i \in 1..(Len(u) + Len(v)) :
           (u \o v)[i] = IF i <= Len(u) THEN u[i] ELSE v[i - Len(u)]
  BY <1>1
<1>4. Len(u \o v) = 2 /\ (u \o v)[1] = u[1] /\ (u \o v)[2] = v[1]
  BY <1>3
<1>5. DOMAIN u = 1..1 /\ DOMAIN v = 1..1 /\ DOMAIN (u \o v) = 1..2
  BY <1>2, <1>3, <1>4
<1> QED BY <1>3, <1>4, <1>5

LEMMA BatchInv ==
  ASSUME TrackerInv, NEW w1 \in webhooks, NEW w2 \in webhooks, Batch(w1, w2)
  PROVE  TrackerInv'
<1>1. /\ UNCHANGED <<plugin, state, pluginData, database, ticket, asked, job, onCall,
                     carried, pendingEvents, excused, faults>>
      /\ webhooks' = (webhooks \ {w1, w2}) \union {w1 \o w2}
      /\ Len(w1) = 1 /\ Len(w2) = 1
  BY DEF Batch, stores, observers
<1>2. /\ w1 \in Seq(Message) /\ \A i \in DOMAIN w1 : w1[i] \in asked
      /\ w2 \in Seq(Message) /\ \A i \in DOMAIN w2 : w2[i] \in asked
  BY DEF TrackerInv, TypeOK, HooksAsked
<1>3. /\ w1 \o w2 \in Seq(Message) /\ w1 \o w2 # <<>>
      /\ \A i \in DOMAIN (w1 \o w2) : (w1 \o w2)[i] \in asked
  <2>1. /\ w1 \o w2 \in Seq(Message) /\ Len(w1 \o w2) = 2
        /\ (w1 \o w2)[1] = w1[1] /\ (w1 \o w2)[2] = w2[1]
        /\ DOMAIN (w1 \o w2) = {1, 2} /\ 1 \in DOMAIN w1 /\ 1 \in DOMAIN w2
    BY <1>1, <1>2, TwoMessages
  <2>2. \A i \in DOMAIN (w1 \o w2) : (w1 \o w2)[i] \in {w1[1], w2[1]}
    BY <2>1
  <2>3. w1 \o w2 # <<>>
    <3>1. \A e : e = <<>> => Len(e) = 0
      OBVIOUS
    <3> QED BY <2>1, <3>1
  <2> QED BY <1>2, <2>1, <2>2, <2>3
<1>4. TypeOK'
  BY <1>1, <1>3 DEF TrackerInv, TypeOK
<1>5. StoresOwn' /\ AskedFiled' /\ MarksAsked' /\ JobsFit'
  BY <1>1 DEF TrackerInv, StoresOwn, AskedFiled, MarksAsked, JobsFit
<1>6. HooksAsked'
  BY <1>1, <1>3 DEF TrackerInv, HooksAsked
<1> QED BY <1>4, <1>5, <1>6 DEF TrackerInv

LEMMA CrashInv ==
  ASSUME TrackerInv, Crash
  PROVE  TrackerInv'
<1>1. /\ UNCHANGED <<plugin, state, pluginData, database, ticket, asked, onCall,
                     carried, pendingEvents>>
      /\ job' = [j \in Job |-> Idle]
      /\ webhooks' \subseteq webhooks
      /\ excused' \subseteq Request /\ faults' \in Nat
  BY DEF Crash, AnotherFault, Blame, stores, observers, TrackerInv, TypeOK
<1>2. Idle \in JobState
  BY DEF Idle, JobState, Decision
<1>3. TypeOK'
  BY <1>1, <1>2 DEF TrackerInv, TypeOK
<1>4. StoresOwn' /\ AskedFiled' /\ MarksAsked' /\ HooksAsked'
  BY <1>1 DEF TrackerInv, StoresOwn, AskedFiled, MarksAsked, HooksAsked
<1>5. JobsFit'
  BY <1>1, IdleFits DEF JobsFit
<1> QED BY <1>3, <1>4, <1>5 DEF TrackerInv

LEMMA TrackerInit ==
  ASSUME Init
  PROVE  TrackerInv
<1>1. \A t \in Ticket : ticket[t] = NotFiled
  BY DEF Init
<1>2. TypeOK
  <2>1. Idle \in JobState /\ NotFiled \in TicketState
    BY DEF Idle, JobState, Decision, NotFiled, TicketState
  <2> QED BY <2>1 DEF Init, TypeOK
<1>3. StoresOwn /\ AskedFiled /\ HooksAsked
  BY DEF Init, StoresOwn, AskedFiled, HooksAsked
<1>4. MarksAsked
  BY <1>1 DEF MarksAsked, NotFiled, Decision
<1>5. JobsFit
  BY IdleFits DEF Init, JobsFit
<1> QED BY <1>2, <1>3, <1>4, <1>5 DEF TrackerInv

LEMMA TrackerNext ==
  ASSUME TrackerInv, [Next]_vars
  PROVE  TrackerInv'
<1>1. CASE UNCHANGED vars
  <2>1. /\ UNCHANGED <<plugin, state, pluginData, database, ticket, asked, webhooks, job,
                       onCall, carried, pendingEvents, excused, faults>>
    BY <1>1 DEF vars
  <2>2. TypeOK'
    BY <2>1 DEF TrackerInv, TypeOK
  <2>3. StoresOwn' /\ AskedFiled' /\ MarksAsked' /\ HooksAsked' /\ JobsFit'
    BY <2>1 DEF TrackerInv, StoresOwn, AskedFiled, MarksAsked, HooksAsked, JobsFit
  <2> QED BY <2>2, <2>3 DEF TrackerInv
<1>2. CASE Next
  BY <1>2, AuthServerInv, DecideInv, RedeliverInv, BatchInv, JobStepInv, CrashInv
     DEF Next, Sender
<1> QED BY <1>1, <1>2

-----------------------------------------------------------------------------
(***************************************************************************)
(* The inductive invariant holds in every behaviour of the plugins.        *)
(***************************************************************************)
THEOREM TrackerInvariant == Spec => []TrackerInv
<1>1. Init => TrackerInv
  BY TrackerInit
<1>2. TrackerInv /\ [Next]_vars => TrackerInv'
  BY TrackerNext
<1> QED BY <1>1, <1>2, PTL DEF Spec

(***************************************************************************)
(* The state of the plugins, the tracker and the webhooks has its type.    *)
(***************************************************************************)
THEOREM TrackerTypeCorrect == Spec => []TypeOK
<1>1. TrackerInv => TypeOK
  BY DEF TrackerInv
<1> QED BY <1>1, TrackerInvariant, PTL

(***************************************************************************)
(* However many handlers run at the same time, the plugin data, the        *)
(* database and the jobs name tickets about their own request only.        *)
(***************************************************************************)
THEOREM TicketsCorrect == Spec => []TicketIsOwn
<1>1. TrackerInv => TicketIsOwn
  BY DEF TrackerInv, TicketIsOwn, StoresOwn, JobsFit, JobFits
<1> QED BY <1>1, TrackerInvariant, PTL

(***************************************************************************)
(* The state of a request changes by what others do to it, which moves no  *)
(* job, or by the call of a job that decides.                              *)
(***************************************************************************)
LEMMA OutdatedPC ==
  ASSUME NEW r, NEW j \in Job
  PROVE  /\ Outdate(r)[j].pc = job[j].pc
         /\ Outdate(r)[j] \in {job[j], [job[j] EXCEPT !.stale = TRUE]}
BY DEF Outdate

LEMMA AuthServerMovesNobody ==
  ASSUME NEW r \in Request, AuthServer(r), NEW j \in Job, job[j].pc = "setting"
  PROVE  job'[j].pc = "setting"
<1>1. \/ job' = Outdate(r) \/ job' = job
      \/ \E q : /\ \E i \in Job : job[i] = Idle
                /\ job' = [Outdate(r) EXCEPT ![FreeJob] = q]
  BY DEF AuthServer, Pend, Delete, ResolveElsewhere, ExpireData, Change, onWatcherEvent
<1>2. ASSUME NEW q, \E i \in Job : job[i] = Idle, job' = [Outdate(r) EXCEPT ![FreeJob] = q]
      PROVE  job'[j].pc = "setting"
  <2>1. FreeJob # j
    <3>1. job[FreeJob] = Idle
      BY <1>2, FreeJobIsIdle
    <3> QED BY <3>1 DEF Idle
  <2>2. job'[j] = Outdate(r)[j]
    BY <1>2, <2>1 DEF Outdate
  <2> QED BY <2>2, OutdatedPC
<1> QED BY <1>1, <1>2, OutdatedPC

LEMMA OnlyItsCallDecides ==
  ASSUME TrackerInv, Next, NEW j \in Job, job[j].pc = "setting",
         job'[j].pc # "setting", state' # state
  PROVE  SetRequestState(j)
<1>1. ~\E r \in Request : AuthServer(r)
  BY AuthServerMovesNobody
<1>2. PICK i \in Job : SetRequestState(i)
  BY <1>1 DEF Next, Decide, Sender, Redeliver, Deliver, Batch, Crash, JobStep, CreateTicket,
              SetRequestID, setPluginData, tryAutoApproveRequest, getTicket, ExpireTicket,
              Lookup, GetRequest, getPluginData, CloseTicket
<1>3. ASSUME i # j PROVE FALSE
  <2>1. \/ \E q : job' = [Outdate(job[i].req) EXCEPT ![i] = q]
        \/ \E q : job' = [job EXCEPT ![i] = q]
    BY <1>2 DEF SetRequestState, Refuse, CallFails, Fail
  <2>2. \/ job'[j] = Outdate(job[i].req)[j]
        \/ job'[j] = job[j]
    BY <1>3, <2>1 DEF Outdate, TrackerInv, TypeOK
  <2> QED BY <2>2, OutdatedPC
<1> QED BY <1>2, <1>3

(***************************************************************************)
(* The plugin decides on a request only while it is pending.  One decision *)
(* replaces another only when people deny, by a webhook that has found the *)
(* request pending, what was approved before its call.                     *)
(***************************************************************************)
THEOREM DecidesCorrect == Spec => DecidesPendingOnly
<1> DEFINE Decided ==
      \A j \in Job :
        LET r == job[j].req IN
        job[j].pc = "setting" /\ job'[j].pc # "setting" /\ state'[r] # state[r]
          => \/ state[r] = "pending"
             \/ /\ state[r] = "approved" /\ state'[r] = "denied"
                /\ job[j].stale /\ job[j].hook # <<>>
<1>1. ASSUME TrackerInv, Next, NEW j \in Job, job[j].pc = "setting",
             job'[j].pc # "setting", state'[job[j].req] # state[job[j].req],
             state[job[j].req] # "pending"
      PROVE  /\ state[job[j].req] = "approved" /\ state'[job[j].req] = "denied"
             /\ job[j].stale /\ job[j].hook # <<>>
  <2> DEFINE q == job[j]
             r == q.req
  <2>1. SetRequestState(j)
    BY <1>1, OnlyItsCallDecides
  <2>2. JobFits(q, asked, onCall, state, ticket) /\ q \in JobState /\ r \in Request
    BY <1>1, BusyJob DEF TicketPC
  <2>3. state[r] \in {"pending", "approved", q.decision} /\ state' = [state EXCEPT ![r] = q.decision]
    BY <1>1, <2>1 DEF SetRequestState, Refuse, CallFails
  <2>4. state'[r] = q.decision
    BY <1>1, <2>2, <2>3 DEF TrackerInv, TypeOK
  <2>5. state[r] = "approved" /\ q.decision = "denied"
    BY <1>1, <2>2, <2>3, <2>4 DEF JobState, Decision
  <2>6. q.hook # <<>>
    BY <2>2, <2>5 DEF JobFits
  <2>7. q.stale
    BY <1>1, <2>2, <2>5, <2>6 DEF JobFits, JobState
  <2> QED BY <2>4, <2>5, <2>6, <2>7
<1>2. TrackerInv /\ [Next]_vars => [Decided]_vars
  BY <1>1
<1>3. Spec => [][Decided]_vars
  BY <1>2, TrackerInvariant, PTL DEF Spec
<1> QED BY <1>3 DEF DecidesPendingOnly

-----------------------------------------------------------------------------
(***************************************************************************)
(* Steps of the plugins as steps of the desk.                              *)
(***************************************************************************)
SameDesk ==
  /\ \A t \in Ticket : ticket'[t].about = ticket[t].about
  /\ UNCHANGED <<asked, onCall, carried>>

LEMMA DeskStutters ==
  ASSUME SameDesk
  PROVE  UNCHANGED TheDesk!deskVars
BY DEF SameDesk, TheDesk!deskVars

LEMMA CreateTicketRefines ==
  ASSUME TrackerInv, NEW j \in Job, CreateTicket(j)
  PROVE  TheDesk!DeskNext \/ SameDesk
<1>1. job[j].req \in Request
  BY BusyJob DEF CreateTicket, At, EventPC
<1>2. UNCHANGED <<asked, onCall, carried>>
  BY DEF CreateTicket, observers
<1>3. CASE UNCHANGED ticket
  BY <1>2, <1>3 DEF SameDesk
<1>4. CASE NewTicket(j)
  <2>1. PICK n \in Ticket :
          /\ ticket[n].about = Nobody /\ ticket'[n].about = job[j].req
          /\ \A t \in Ticket : t # n => ticket'[t].about = ticket[t].about
    BY <1>1, <1>4, FilingLasts
  <2>2. [t \in Ticket |-> ticket'[t].about] =
          [[t \in Ticket |-> ticket[t].about] EXCEPT ![n] = job[j].req]
    BY <2>1
  <2>3. \E x \in Ticket, r \in Request : TheDesk!File(x, r)
    BY <1>1, <1>2, <2>1, <2>2 DEF TheDesk!File
  <2> QED BY <2>3 DEF TheDesk!DeskNext
<1> QED BY <1>3, <1>4 DEF CreateTicket

LEMMA AutoApproveRefines ==
  ASSUME TrackerInv, NEW j \in Job, tryAutoApproveRequest(j)
  PROVE  TheDesk!DeskNext \/ SameDesk
<1>1. job[j].req \in Request
  BY BusyJob DEF tryAutoApproveRequest, At, EventPC
<1>2. UNCHANGED <<ticket, asked, carried>>
  BY DEF tryAutoApproveRequest
<1>3. CASE UNCHANGED onCall
  BY <1>2, <1>3 DEF SameDesk
<1>4. CASE onCall' = onCall \union {job[j].req}
  <2>1. TheDesk!FindOnCall(job[j].req)
    BY <1>2, <1>4 DEF TheDesk!FindOnCall
  <2> QED BY <1>1, <2>1 DEF TheDesk!DeskNext
<1> QED BY <1>3, <1>4 DEF tryAutoApproveRequest

LEMMA SetRequestStateRefines ==
  ASSUME TrackerInv, NEW j \in Job, SetRequestState(j)
  PROVE  TheDesk!DeskNext \/ SameDesk
<1> DEFINE r == job[j].req
           d == job[j].decision
           t == job[j].ticket
<1>1. job[j].pc = "setting"
  BY DEF SetRequestState, At
<1>2. /\ r \in Request /\ d \in Decision
      /\ t \in Ticket /\ ticket[t].about = r
      /\ \/ <<t, d>> \in asked
         \/ d = "approved" /\ r \in onCall
  BY <1>1, BusyJob DEF TicketPC, JobFits, JobState
<1>3. UNCHANGED <<ticket, asked, onCall>>
  BY DEF SetRequestState
<1>4. CASE UNCHANGED carried
  BY <1>3, <1>4 DEF SameDesk
<1>5. CASE carried' = carried \union {<<r, d>>}
  <2>1. TheDesk!Carry(r, d)
    BY <1>2, <1>3, <1>5 DEF TheDesk!Carry
  <2> QED BY <1>2, <2>1 DEF TheDesk!DeskNext, TheDesk!Decision, Decision
<1> QED BY <1>4, <1>5 DEF SetRequestState

LEMMA OtherStepsRefine ==
  ASSUME TrackerInv, NEW j \in Job,
         \/ SetRequestID(j) \/ setPluginData(j) \/ getTicket(j) \/ ExpireTicket(j)
         \/ Lookup(j) \/ GetRequest(j) \/ getPluginData(j) \/ CloseTicket(j)
  PROVE  SameDesk
<1>1. CASE ExpireTicket(j) \/ CloseTicket(j)
  <2> DEFINE t == job[j].ticket
  <2>1. /\ UNCHANGED <<asked, onCall, carried>>
        /\ ticket' = ticket \/ MarkExpired(t) \/ Close(t)
    BY <1>1 DEF ExpireTicket, CloseTicket, observers
  <2>2. ticket \in [Ticket -> TicketState]
    BY DEF TrackerInv, TypeOK
  <2>3. \A x \in Ticket : ticket'[x].about = ticket[x].about
    BY <2>1, <2>2 DEF MarkExpired, Close, TicketState
  <2> QED BY <2>1, <2>3 DEF SameDesk
<1>2. CASE \/ SetRequestID(j) \/ setPluginData(j) \/ getTicket(j)
           \/ Lookup(j) \/ GetRequest(j) \/ getPluginData(j)
  BY <1>2 DEF SetRequestID, setPluginData, getTicket, Lookup, GetRequest, getPluginData,
              observers, SameDesk
<1> QED BY <1>1, <1>2

LEMMA DecideRefines ==
  ASSUME TrackerInv, NEW t \in Ticket, NEW d \in Decision, Decide(t, d)
  PROVE  TheDesk!DeskNext
<1>1. /\ asked' = asked \union {<<t, d>>}
      /\ ticket[t].about # Nobody
      /\ UNCHANGED <<onCall, carried>>
  BY DEF Decide, observers
<1>2. ticket \in [Ticket -> TicketState]
  BY DEF TrackerInv, TypeOK
<1>3. \A x \in Ticket : ticket'[x].about = ticket[x].about
  BY <1>2 DEF Decide, TicketState
<1>4. TheDesk!Ask(t, d)
  BY <1>1, <1>3 DEF TheDesk!Ask
<1> QED BY <1>4 DEF TheDesk!DeskNext, TheDesk!Decision, Decision

LEMMA StepRefinesDesk ==
  ASSUME TrackerInv, [Next]_vars
  PROVE  [TheDesk!DeskNext]_(TheDesk!deskVars)
<1>1. SUFFICES TheDesk!DeskNext \/ SameDesk
  BY DeskStutters
<1>2. CASE UNCHANGED vars
  BY <1>2 DEF vars, SameDesk
<1>3. ASSUME NEW r \in Request, AuthServer(r)
      PROVE  SameDesk
  BY <1>3 DEF AuthServer, Pend, Delete, ExpireData, ResolveElsewhere, Change, hooks,
              observers, SameDesk
<1>4. CASE Sender
  BY <1>4 DEF Sender, Redeliver, Deliver, Batch, hooks, observers, SameDesk
<1>5. CASE Crash
  BY <1>5 DEF Crash, observers, SameDesk
<1>6. ASSUME NEW j \in Job, JobStep(j)
      PROVE  TheDesk!DeskNext \/ SameDesk
  BY <1>6, CreateTicketRefines, AutoApproveRefines, SetRequestStateRefines, OtherStepsRefine
     DEF JobStep
<1> QED BY <1>2, <1>3, <1>4, <1>5, <1>6, DecideRefines DEF Next

(***************************************************************************)
(* The plugins implement the desk: nothing is approved or denied that      *)
(* nobody asked for, and a ticket is about one request for good.           *)
(***************************************************************************)
THEOREM TrackerRefinesDesk == Spec => ImplementsDesk
<1>1. Init => TheDesk!DeskInit
  BY DEF Init, TheDesk!DeskInit, NotFiled
<1>2. TrackerInv /\ [Next]_vars => [TheDesk!DeskNext]_(TheDesk!deskVars)
  BY StepRefinesDesk
<1> QED
  BY <1>1, <1>2, TrackerInvariant, PTL DEF Spec, ImplementsDesk, TheDesk!DeskSpec

(***************************************************************************)
(* What the desk promises of a decision that was carried out, at any time  *)
(* after: it was asked for on a ticket about its request, or the request   *)
(* was approved for a user on call.                                        *)
(***************************************************************************)
Warranted ==
  \A r \in Request, d \in Decision : <<r, d>> \in carried =>
    \/ \E t \in Ticket : ticket[t].about = r /\ <<t, d>> \in asked
    \/ d = "approved" /\ r \in onCall

LEMMA DeskStepWarranted ==
  ASSUME Warranted, [TheDesk!DeskNext]_(TheDesk!deskVars)
  PROVE  Warranted'
<1> SUFFICES ASSUME NEW r \in Request, NEW d \in Decision, <<r, d>> \in carried'
             PROVE  \/ \E t \in Ticket : ticket'[t].about = r /\ <<t, d>> \in asked'
                    \/ d = "approved" /\ r \in onCall'
  BY DEF Warranted
<1>1. ASSUME \/ \E t \in Ticket : ticket[t].about = r /\ <<t, d>> \in asked
             \/ d = "approved" /\ r \in onCall,
             \A t \in Ticket : ticket[t].about \in {ticket'[t].about, Nobody},
             asked \subseteq asked', onCall \subseteq onCall'
      PROVE  \/ \E t \in Ticket : ticket'[t].about = r /\ <<t, d>> \in asked'
             \/ d = "approved" /\ r \in onCall'
  BY <1>1, TrackerAssumption
<1>2. ASSUME NEW t \in Ticket, NEW x \in Request, TheDesk!File(t, x)
      PROVE  \A y \in Ticket : ticket[y].about \in {ticket'[y].about, Nobody}
  BY <1>2 DEF TheDesk!File
<1>3. CASE \E t \in Ticket, x \in Request : TheDesk!File(t, x)
  BY <1>1, <1>2, <1>3 DEF Warranted, TheDesk!File
<1>4. ASSUME UNCHANGED [t \in Ticket |-> ticket[t].about]
      PROVE  \A t \in Ticket : ticket[t].about \in {ticket'[t].about, Nobody}
  <2>1. \A t \in Ticket : [y \in Ticket |-> ticket'[y].about][t] = [y \in Ticket |-> ticket[y].about][t]
    BY <1>4
  <2> QED BY <2>1
<1>5. CASE \/ \E t \in Ticket, e \in TheDesk!Decision : TheDesk!Ask(t, e)
           \/ \E x \in Request : TheDesk!FindOnCall(x)
           \/ UNCHANGED TheDesk!deskVars
  BY <1>1, <1>4, <1>5 DEF Warranted, TheDesk!Ask, TheDesk!FindOnCall, TheDesk!deskVars
<1>6. CASE \E x \in Request, e \in TheDesk!Decision : TheDesk!Carry(x, e)
  <2>1. \/ <<r, d>> \in carried
        \/ \E t \in Ticket : ticket[t].about = r /\ <<t, d>> \in asked
        \/ d = "approved" /\ r \in onCall
    BY <1>6 DEF TheDesk!Carry
  <2> QED BY <1>1, <1>4, <1>6, <2>1 DEF Warranted, TheDesk!Carry
<1> QED BY <1>3, <1>5, <1>6 DEF TheDesk!DeskNext

(***************************************************************************)
(* Every decision a plugin has carried out on a request was asked for on a *)
(* ticket about it, or approved it for a user on call: this holds of the   *)
(* desk, and so of the plugins that implement it.                          *)
(***************************************************************************)
THEOREM DecisionsWarranted == Spec => []Warranted
<1>1. TheDesk!DeskInit => Warranted
  BY DEF TheDesk!DeskInit, Warranted
<1>2. ImplementsDesk => []Warranted
  BY <1>1, DeskStepWarranted, PTL DEF ImplementsDesk, TheDesk!DeskSpec
<1> QED BY <1>2, TrackerRefinesDesk, PTL
=============================================================================
