------------------------- MODULE TrackerCarriedProofs -------------------------
(***************************************************************************)
(* Proofs about what becomes of tickets and decisions in Tracker, on top   *)
(* of the invariant of TrackerProofs.                                      *)
(*                                                                         *)
(* OneTicketPerEvent: a pending event is a licence to file one ticket.     *)
(*                                                                         *)
(* CarriedOutOrExcused: a webhook leaves the queue only when the requests  *)
(* of all its messages are settled (JobKnows), or somebody is blamed; and  *)
(* while nothing went wrong for a request it has one ticket, prepared by   *)
(* one job, and whoever settles it goes on to close and mark that ticket.  *)
(***************************************************************************)
EXTENDS TrackerProofs, Counting

-----------------------------------------------------------------------------
(***************************************************************************)
(* What a step of a job makes of its record: the other jobs keep theirs,   *)
(* and the job ends, goes on to the next message of its webhook, or goes   *)
(* on to another control state.                                            *)
(***************************************************************************)
OthersKeep(j) == \A i \in Job \ {j} : job'[i] = job[i]

Ends(j) ==
  \/ job'[j] = Idle
  \/ Len(job[j].todo) > 1 /\ job'[j] = Delivered(job[j].hook, Tail(job[j].todo))

Moves(j, pc, r, t) ==
  /\ job'[j].pc = pc /\ job'[j].req = r /\ job'[j].ticket = t
  /\ job'[j].hook = job[j].hook /\ job'[j].todo = job[j].todo

LEMMA JobBecomes ==
  ASSUME TrackerInv, NEW j \in Job, NEW new, job' = [job EXCEPT ![j] = new]
  PROVE  job'[j] = new /\ OthersKeep(j)
BY DEF TrackerInv, TypeOK, OthersKeep

LEMMA FinishEnds ==
  ASSUME TrackerInv, NEW j \in Job, Finish(j)
  PROVE  Ends(j) /\ OthersKeep(j)
BY JobBecomes DEF Finish, Goto, Ends

LEMMA FailEnds ==
  ASSUME TrackerInv, NEW j \in Job, NEW rs, Fail(j, rs)
  PROVE  Ends(j) /\ OthersKeep(j)
BY JobBecomes DEF Fail, Ends

LEMMA RefuseEnds ==
  ASSUME TrackerInv, NEW j \in Job, Refuse(j) \/ CallFails(j)
  PROVE  Ends(j) /\ OthersKeep(j)
BY FailEnds DEF Refuse, CallFails

LEMMA EndRecords ==
  ASSUME NEW j \in Job, Ends(j)
  PROVE  /\ job'[j].pc \in {"idle", "lookup"}
         /\ job'[j].req = Nobody /\ job'[j].ticket = NoTicket
<1>1. CASE job'[j] = Idle
  BY <1>1 DEF Idle
<1>2. CASE job'[j] = Delivered(job[j].hook, Tail(job[j].todo))
  BY <1>2 DEF Delivered, Idle
<1> QED BY <1>1, <1>2 DEF Ends

LEMMA GotoMoves ==
  ASSUME TrackerInv, NEW j \in Job, NEW new, Goto(j, new),
         new.hook = job[j].hook, new.todo = job[j].todo
  PROVE  /\ OthersKeep(j) /\ UNCHANGED webhooks
         /\ Moves(j, new.pc, new.req, new.ticket)
<1>1. job'[j] = new /\ OthersKeep(j)
  BY JobBecomes DEF Goto
<1> QED BY <1>1 DEF Goto, Moves

(***************************************************************************)
(* The steps one by one.                                                   *)
(***************************************************************************)
LEMMA CreateTicketTurn ==
  ASSUME TrackerInv, NEW j \in Job, CreateTicket(j)
  PROVE  /\ job[j].pc = "filing" /\ OthersKeep(j)
         /\ \/ CallFails(j) /\ Ends(j) /\ (UNCHANGED ticket \/ NewTicket(j))
            \/ /\ NewTicket(j) /\ NoFault /\ UNCHANGED webhooks
               /\ \E pc \in {"indexing", "saving"} : Moves(j, pc, job[j].req, NextTicket)
<1>1. job[j].pc = "filing" /\ job[j] \in JobState
  BY BusyJob DEF CreateTicket, At
<1>2. CASE CallFails(j) /\ (UNCHANGED ticket \/ NewTicket(j))
  BY <1>1, <1>2, RefuseEnds
<1>3. ASSUME NewTicket(j), NoFault,
             NEW pc \in {"indexing", "saving"},
             Goto(j, [job[j] EXCEPT !.ticket = NextTicket, !.pc = pc])
      PROVE  /\ OthersKeep(j) /\ Moves(j, pc, job[j].req, NextTicket)
             /\ UNCHANGED webhooks
  <2> DEFINE new == [job[j] EXCEPT !.ticket = NextTicket, !.pc = pc]
  <2>1. /\ new.pc = pc /\ new.req = job[j].req /\ new.ticket = NextTicket
        /\ new.hook = job[j].hook /\ new.todo = job[j].todo
    BY <1>1 DEF JobState
  <2>2. Goto(j, new)
    BY <1>3
  <2> HIDE DEF new
  <2>3. /\ OthersKeep(j) /\ UNCHANGED webhooks
        /\ Moves(j, new.pc, new.req, new.ticket)
    BY <2>1, <2>2, GotoMoves
  <2> QED BY <1>1, <1>3, <2>1, <2>3
<1> QED BY <1>1, <1>2, <1>3 DEF CreateTicket

LEMMA SetRequestIDTurn ==
  ASSUME TrackerInv, NEW j \in Job, SetRequestID(j)
  PROVE  /\ job[j].pc = "indexing" /\ OthersKeep(j)
         /\ \/ CallFails(j) /\ Ends(j)
            \/ NoFault /\ UNCHANGED webhooks /\ Moves(j, "saving", job[j].req, job[j].ticket)
<1>1. job[j].pc = "indexing" /\ job[j] \in JobState
  BY BusyJob DEF SetRequestID, At
<1>2. CASE CallFails(j)
  BY <1>1, <1>2, RefuseEnds
<1>3. CASE NoFault /\ Goto(j, [job[j] EXCEPT !.pc = "saving"])
  <2> DEFINE new == [job[j] EXCEPT !.pc = "saving"]
  <2>1. /\ new.pc = "saving" /\ new.req = job[j].req /\ new.ticket = job[j].ticket
        /\ new.hook = job[j].hook /\ new.todo = job[j].todo
    BY <1>1 DEF JobState
  <2>2. Goto(j, new)
    BY <1>3
  <2> HIDE DEF new
  <2>3. /\ OthersKeep(j) /\ UNCHANGED webhooks
        /\ Moves(j, new.pc, new.req, new.ticket)
    BY <2>1, <2>2, GotoMoves
  <2> QED BY <1>1, <1>3, <2>1, <2>3
<1> QED BY <1>2, <1>3 DEF SetRequestID

LEMMA SetPluginDataTurn ==
  ASSUME TrackerInv, NEW j \in Job, setPluginData(j)
  PROVE  LET r == job[j].req
             Saved == pluginData' = [pluginData EXCEPT ![r] = job[j].ticket]
         IN
         /\ job[j].pc = "saving" /\ OthersKeep(j)
         /\ \/ CallFails(j) /\ Ends(j) /\ (UNCHANGED pluginData \/ Saved)
            \/ /\ state[r] = "deleted" /\ UNCHANGED pluginData
               /\ Refuse(j) /\ Ends(j)
            \/ Saved /\ NoFault /\ Finish(j) /\ Ends(j)
            \/ Saved /\ NoFault /\ UNCHANGED webhooks /\ Moves(j, "on call?", r, job[j].ticket)
<1>1. job[j].pc = "saving" /\ job[j] \in JobState
  BY BusyJob DEF setPluginData, At
<1>2. CASE CallFails(j)
  BY <1>1, <1>2, RefuseEnds DEF setPluginData
<1>3. CASE Refuse(j) /\ state[job[j].req] = "deleted" /\ UNCHANGED pluginData
  BY <1>1, <1>3, RefuseEnds
<1>4. CASE /\ pluginData' = [pluginData EXCEPT ![job[j].req] = job[j].ticket]
           /\ NoFault /\ Finish(j)
  BY <1>1, <1>4, FinishEnds
<1>5. CASE /\ pluginData' = [pluginData EXCEPT ![job[j].req] = job[j].ticket]
           /\ NoFault /\ Goto(j, [job[j] EXCEPT !.pc = "on call?"])
  <2> DEFINE new == [job[j] EXCEPT !.pc = "on call?"]
  <2>1. /\ new.pc = "on call?" /\ new.req = job[j].req /\ new.ticket = job[j].ticket
        /\ new.hook = job[j].hook /\ new.todo = job[j].todo
    BY <1>1 DEF JobState
  <2>2. Goto(j, new)
    BY <1>5
  <2> HIDE DEF new
  <2>3. /\ OthersKeep(j) /\ UNCHANGED webhooks
        /\ Moves(j, new.pc, new.req, new.ticket)
    BY <2>1, <2>2, GotoMoves
  <2> QED BY <1>1, <1>5, <2>1, <2>3
<1> QED BY <1>2, <1>3, <1>4, <1>5 DEF setPluginData

LEMMA AutoApproveTurn ==
  ASSUME TrackerInv, NEW j \in Job, tryAutoApproveRequest(j)
  PROVE  /\ job[j].pc = "on call?" /\ OthersKeep(j)
         /\ \/ CallFails(j) /\ Ends(j)
            \/ NoFault /\ Finish(j) /\ Ends(j)
            \/ NoFault /\ UNCHANGED webhooks /\ Moves(j, "setting", job[j].req, job[j].ticket)
<1>1. job[j].pc = "on call?" /\ job[j] \in JobState
  BY BusyJob DEF tryAutoApproveRequest, At
<1>2. CASE CallFails(j)
  BY <1>1, <1>2, RefuseEnds
<1>3. CASE NoFault /\ Finish(j)
  BY <1>1, <1>3, FinishEnds
<1>4. CASE NoFault /\ Goto(j, [job[j] EXCEPT !.pc = "setting", !.decision = "approved"])
  <2> DEFINE new == [job[j] EXCEPT !.pc = "setting", !.decision = "approved"]
  <2>1. /\ new.pc = "setting" /\ new.req = job[j].req /\ new.ticket = job[j].ticket
        /\ new.hook = job[j].hook /\ new.todo = job[j].todo
    BY <1>1 DEF JobState
  <2>2. Goto(j, new)
    BY <1>4
  <2> HIDE DEF new
  <2>3. /\ OthersKeep(j) /\ UNCHANGED webhooks
        /\ Moves(j, new.pc, new.req, new.ticket)
    BY <2>1, <2>2, GotoMoves
  <2> QED BY <1>1, <1>4, <2>1, <2>3
<1> QED BY <1>2, <1>3, <1>4 DEF tryAutoApproveRequest

LEMMA GetTicketTurn ==
  ASSUME TrackerInv, NEW j \in Job, getTicket(j)
  PROVE  LET r == job[j].req IN
         /\ job[j].pc = "reading" /\ OthersKeep(j)
         /\ \/ CallFails(j) /\ Ends(j)
            \/ pluginData[r] = NoTicket /\ NoFault /\ Finish(j) /\ Ends(j)
            \/ NoFault /\ UNCHANGED webhooks /\ Moves(j, "expiring", r, pluginData[r])
<1>1. job[j].pc = "reading" /\ job[j] \in JobState
  BY BusyJob DEF getTicket, At
<1>2. CASE CallFails(j)
  BY <1>1, <1>2, RefuseEnds
<1>3. CASE pluginData[job[j].req] = NoTicket /\ NoFault /\ Finish(j)
  BY <1>1, <1>3, FinishEnds
<1>4. CASE /\ NoFault
           /\ Goto(j, [job[j] EXCEPT !.pc = "expiring", !.ticket = pluginData[job[j].req]])
  <2> DEFINE new == [job[j] EXCEPT !.pc = "expiring", !.ticket = pluginData[job[j].req]]
  <2>1. /\ new.pc = "expiring" /\ new.req = job[j].req /\ new.ticket = pluginData[job[j].req]
        /\ new.hook = job[j].hook /\ new.todo = job[j].todo
    BY <1>1 DEF JobState
  <2>2. Goto(j, new)
    BY <1>4
  <2> HIDE DEF new
  <2>3. /\ OthersKeep(j) /\ UNCHANGED webhooks
        /\ Moves(j, new.pc, new.req, new.ticket)
    BY <2>1, <2>2, GotoMoves
  <2> QED BY <1>1, <1>4, <2>1, <2>3
<1> QED BY <1>2, <1>3, <1>4 DEF getTicket

LEMMA ExpireTicketTurn ==
  ASSUME TrackerInv, NEW j \in Job, ExpireTicket(j)
  PROVE  /\ job[j].pc = "expiring" /\ OthersKeep(j) /\ Ends(j)
         /\ \/ CallFails(j) /\ (UNCHANGED ticket \/ MarkExpired(job[j].ticket))
            \/ Fail(j, {job[j].req}) /\ UNCHANGED ticket
            \/ MarkExpired(job[j].ticket) /\ Finish(j) /\ NoFault
BY RefuseEnds, FinishEnds, FailEnds DEF ExpireTicket, At

LEMMA CloseTicketTurn ==
  ASSUME TrackerInv, NEW j \in Job, CloseTicket(j)
  PROVE  /\ job[j].pc = "closing" /\ OthersKeep(j) /\ Ends(j)
         /\ \/ CallFails(j) /\ (UNCHANGED ticket \/ Close(job[j].ticket))
            \/ Close(job[j].ticket) /\ Finish(j) /\ NoFault
BY RefuseEnds, FinishEnds DEF CloseTicket, At

LEMMA LookupTurn ==
  ASSUME TrackerInv, NEW j \in Job, Lookup(j)
  PROVE  LET q == job[j]
             t == q.todo[1][1]
             r == ticket[t].about
         IN
         /\ q.pc = "lookup" /\ OthersKeep(j)
         /\ q.todo # <<>> /\ q.hook # <<>>
         /\ q.todo[1] \in asked /\ t \in Ticket /\ r \in Request
         /\ \/ /\ plugin = "jira" /\ ticket[t].mark \notin Decision
               /\ Finish(j) /\ NoFault /\ Ends(j)
            \/ NoFault /\ UNCHANGED webhooks /\ Moves(j, "checking", r, t)
            \/ Fail(j, {r}) /\ AnotherFault /\ Ends(j)
<1> DEFINE q == job[j]
           m == Head(q.todo)
           t == m[1]
           r == IF plugin = "gitlab" /\ database[t] # Nobody THEN database[t]
                ELSE ticket[t].about
           d == IF plugin = "jira" THEN ticket[t].mark ELSE m[2]
           new == [q EXCEPT !.pc = "checking", !.req = r, !.ticket = t, !.decision = d]
<1>1. q.pc = "lookup" /\ JobFits(q, asked, onCall, state, ticket) /\ q \in JobState
  BY BusyJob DEF Lookup, At
<1>2. q.todo \in Seq(Message) /\ q.todo # <<>> /\ q.hook # <<>>
  BY <1>1 DEF JobFits, JobState
<1>3. m = q.todo[1] /\ m \in asked /\ m \in Message
  <2>1. Len(q.todo) >= 1 /\ 1 \in DOMAIN q.todo /\ m = q.todo[1]
    BY <1>2
  <2> QED BY <1>1, <1>2, <2>1 DEF JobFits
<1>4. t \in Ticket /\ m[2] \in Decision
  BY <1>3 DEF Message
<1>5. ticket[t].about \in Request
  <2>1. ticket[t] \in TicketState
    BY <1>4 DEF TrackerInv, TypeOK
  <2> QED BY <1>3, <2>1 DEF TrackerInv, AskedFiled, TicketState
<1>6. r = ticket[t].about
  BY <1>4 DEF TrackerInv, StoresOwn
<1>7. \/ d \notin Decision /\ Finish(j) /\ NoFault
      \/ Goto(j, new) /\ NoFault
      \/ AnotherFault /\ Fail(j, {r})
  BY DEF Lookup
<1>8. CASE d \notin Decision /\ Finish(j) /\ NoFault
  <2>1. plugin = "jira" /\ ticket[t].mark \notin Decision
    BY <1>4, <1>8
  <2> QED BY <1>1, <1>2, <1>3, <1>4, <1>5, <1>8, <2>1, FinishEnds
<1>9. CASE Goto(j, new) /\ NoFault
  <2>1. /\ new.pc = "checking" /\ new.req = r /\ new.ticket = t
        /\ new.hook = q.hook /\ new.todo = q.todo
    BY <1>1 DEF JobState
  <2>2. job'[j] = new /\ OthersKeep(j) /\ UNCHANGED webhooks
    BY <1>9, JobBecomes DEF Goto
  <2> HIDE DEF new, d
  <2>3. Moves(j, "checking", r, t)
    BY <2>1, <2>2 DEF Moves
  <2> QED BY <1>1, <1>2, <1>3, <1>4, <1>5, <1>6, <1>9, <2>2, <2>3
<1>10. CASE AnotherFault /\ Fail(j, {r})
  BY <1>1, <1>2, <1>3, <1>4, <1>5, <1>6, <1>10, FailEnds
<1> QED BY <1>7, <1>8, <1>9, <1>10

LEMMA GetRequestTurn ==
  ASSUME TrackerInv, NEW j \in Job, GetRequest(j)
  PROVE  LET r == job[j].req IN
         /\ job[j].pc = "checking" /\ OthersKeep(j)
         /\ \/ CallFails(j) /\ Ends(j)
            \/ Refuse(j) /\ Ends(j)
            \/ /\ state[r] \in Decision \union {"deleted"}
               /\ Finish(j) /\ NoFault /\ Ends(j)
            \/ NoFault /\ UNCHANGED webhooks /\ Moves(j, "matching", r, job[j].ticket)
<1>1. job[j].pc = "checking" /\ job[j] \in JobState
  BY BusyJob DEF GetRequest, At
<1>2. CASE CallFails(j)
  BY <1>1, <1>2, RefuseEnds
<1>3. CASE Refuse(j)
  BY <1>1, <1>3, RefuseEnds
<1>4. CASE state[job[j].req] \in Decision \union {"deleted"} /\ Finish(j) /\ NoFault
  BY <1>1, <1>4, FinishEnds
<1>5. CASE NoFault /\ Goto(j, [job[j] EXCEPT !.pc = "matching"])
  <2> DEFINE new == [job[j] EXCEPT !.pc = "matching"]
  <2>1. /\ new.pc = "matching" /\ new.req = job[j].req /\ new.ticket = job[j].ticket
        /\ new.hook = job[j].hook /\ new.todo = job[j].todo
    BY <1>1 DEF JobState
  <2>2. Goto(j, new)
    BY <1>5
  <2> HIDE DEF new
  <2>3. /\ OthersKeep(j) /\ UNCHANGED webhooks
        /\ Moves(j, new.pc, new.req, new.ticket)
    BY <2>1, <2>2, GotoMoves
  <2> QED BY <1>1, <1>5, <2>1, <2>3
<1> QED BY <1>2, <1>3, <1>4, <1>5 DEF GetRequest

LEMMA GetPluginDataTurn ==
  ASSUME TrackerInv, NEW j \in Job, getPluginData(j)
  PROVE  LET r == job[j].req IN
         /\ job[j].pc = "matching" /\ OthersKeep(j)
         /\ \/ CallFails(j) /\ Ends(j)
            \/ Refuse(j) /\ Ends(j)
            \/ /\ pluginData[r] = job[j].ticket
               /\ NoFault /\ UNCHANGED webhooks /\ Moves(j, "setting", r, job[j].ticket)
<1>1. job[j].pc = "matching" /\ job[j] \in JobState
  BY BusyJob DEF getPluginData, At
<1>2. CASE CallFails(j)
  BY <1>1, <1>2, RefuseEnds
<1>3. CASE Refuse(j)
  BY <1>1, <1>3, RefuseEnds
<1>4. CASE /\ NoFault /\ pluginData[job[j].req] = job[j].ticket
           /\ Goto(j, [job[j] EXCEPT !.pc = "setting"])
  <2> DEFINE new == [job[j] EXCEPT !.pc = "setting"]
  <2>1. /\ new.pc = "setting" /\ new.req = job[j].req /\ new.ticket = job[j].ticket
        /\ new.hook = job[j].hook /\ new.todo = job[j].todo
    BY <1>1 DEF JobState
  <2>2. Goto(j, new)
    BY <1>4
  <2> HIDE DEF new
  <2>3. /\ OthersKeep(j) /\ UNCHANGED webhooks
        /\ Moves(j, new.pc, new.req, new.ticket)
    BY <2>1, <2>2, GotoMoves
  <2> QED BY <1>1, <1>4, <2>1, <2>3
<1> QED BY <1>2, <1>3, <1>4 DEF getPluginData

(***************************************************************************)
(* What matters of a job's record here: all but its decision and whether   *)
(* it is stale.  A change of a request leaves that alone.                  *)
(***************************************************************************)
Alike(p, q) ==
  /\ p.pc = q.pc /\ p.req = q.req /\ p.ticket = q.ticket
  /\ p.hook = q.hook /\ p.todo = q.todo

OthersAlike(j) == \A i \in Job \ {j} : Alike(job'[i], job[i])

LEMMA OutdateAlike ==
  ASSUME TrackerInv, NEW r \in Request, NEW i \in Job
  PROVE  Alike(Outdate(r)[i], job[i])
<1>1. job[i] \in JobState
  BY DEF TrackerInv, TypeOK
<1>2. Outdate(r)[i] \in {job[i], [job[i] EXCEPT !.stale = TRUE]}
  BY DEF Outdate
<1> HIDE DEF Outdate
<1> QED BY <1>1, <1>2 DEF Alike, JobState

LEMMA OutdateBecomes ==
  ASSUME TrackerInv, NEW r \in Request, NEW j \in Job, NEW new,
         job' = [Outdate(r) EXCEPT ![j] = new]
  PROVE  job'[j] = new /\ OthersAlike(j)
<1>1. job'[j] = new /\ \A i \in Job \ {j} : job'[i] = Outdate(r)[i]
  BY DEF Outdate
<1> HIDE DEF Outdate
<1> QED BY <1>1, OutdateAlike DEF OthersAlike

LEMMA KeepAlike ==
  ASSUME NEW j \in Job, OthersKeep(j)
  PROVE  OthersAlike(j)
BY DEF OthersKeep, OthersAlike, Alike

(***************************************************************************)
(* An event: a free job gets it, or it is lost.                            *)
(***************************************************************************)
LEMMA EventTurn ==
  ASSUME TrackerInv, NEW r \in Request, NEW pc, onWatcherEvent(r, pc)
  PROVE  \/ r \in excused' /\ \A i \in Job : Alike(job'[i], job[i])
         \/ /\ \E j \in Job : job[j] = Idle /\ job'[j] = EventJob(r, pc) /\ OthersAlike(j)
            /\ Blame(IF EventJobs(r) # {} \/ (pc = "filing" /\ TicketsOf(r) # {})
                       THEN {r} ELSE {})
<1>1. CASE Blame({r}) /\ job' = Outdate(r)
  <2>1. \A i \in Job : job'[i] = Outdate(r)[i]
    BY <1>1
  <2>2. r \in excused'
    BY <1>1 DEF Blame
  <2> HIDE DEF Outdate
  <2> QED BY <2>1, <2>2, OutdateAlike
<1>2. CASE /\ \E j \in Job : job[j] = Idle
           /\ job' = [Outdate(r) EXCEPT ![FreeJob] = EventJob(r, pc)]
           /\ Blame(IF EventJobs(r) # {} \/ (pc = "filing" /\ TicketsOf(r) # {})
                      THEN {r} ELSE {})
  <2>1. FreeJob \in Job /\ job[FreeJob] = Idle
    BY <1>2, FreeJobIsIdle
  <2>2. job'[FreeJob] = EventJob(r, pc) /\ OthersAlike(FreeJob)
    BY <1>2, <2>1, OutdateBecomes
  <2> QED BY <1>2, <2>1, <2>2
<1> QED BY <1>1, <1>2 DEF onWatcherEvent

LEMMA EventRecord ==
  ASSUME NEW r, NEW pc
  PROVE  /\ EventJob(r, pc).pc = pc /\ EventJob(r, pc).req = r
         /\ EventJob(r, pc).ticket = NoTicket
         /\ EventJob(r, pc).hook = <<>> /\ EventJob(r, pc).todo = <<>>
BY DEF EventJob, Idle

(***************************************************************************)
(* The decision on a request: refused, failed, or taken and then followed  *)
(* by closing the ticket, or at JIRA by nothing.                           *)
(***************************************************************************)
LEMMA SetRequestStateTurn ==
  ASSUME TrackerInv, NEW j \in Job, SetRequestState(j)
  PROVE  LET r == job[j].req
             w == job[j].hook
         IN
         /\ job[j].pc = "setting" /\ OthersAlike(j)
         /\ \/ (CallFails(j) \/ Refuse(j)) /\ Ends(j) /\ UNCHANGED state
            \/ /\ state[r] # "deleted"
               /\ \E d \in Decision : state' = [state EXCEPT ![r] = d]
               /\ \/ /\ plugin # "jira" /\ NoFault /\ UNCHANGED webhooks
                     /\ Moves(j, "closing", r, job[j].ticket)
                  \/ /\ plugin = "jira" /\ NoFault
                     /\ job'[j] = Idle /\ webhooks' = webhooks \ {w}
                  \/ /\ Blame({r} \union LostWith(w))
                     /\ job'[j] = Idle /\ webhooks' \in {webhooks, webhooks \ {w}}
<1> DEFINE q == job[j]
           r == q.req
           w == q.hook
           d == q.decision
           new == [q EXCEPT !.pc = "closing"]
           Taken == state[r] # "deleted" /\ state' = [state EXCEPT ![r] = d]
<1>1. q.pc = "setting" /\ q \in JobState /\ r \in Request /\ d \in Decision
  BY BusyJob DEF SetRequestState, At, JobState
<1>2. CASE (CallFails(j) \/ Refuse(j)) /\ UNCHANGED state
  BY <1>1, <1>2, RefuseEnds, KeepAlike
<1>3. CASE /\ Taken /\ NoFault
           /\ job' = [Outdate(r) EXCEPT ![j] = IF plugin = "jira" THEN Idle ELSE new]
           /\ webhooks' = IF plugin = "jira" THEN webhooks \ {w} ELSE webhooks
  <2>1. /\ job'[j] = IF plugin = "jira" THEN Idle ELSE new
        /\ OthersAlike(j)
    BY <1>1, <1>3, OutdateBecomes
  <2>2. /\ new.pc = "closing" /\ new.req = r /\ new.ticket = q.ticket
        /\ new.hook = q.hook /\ new.todo = q.todo
    BY <1>1 DEF JobState
  <2> HIDE DEF new
  <2>3. plugin # "jira" => Moves(j, "closing", r, q.ticket)
    BY <2>1, <2>2 DEF Moves
  <2> QED BY <1>1, <1>3, <2>1, <2>3
<1>4. CASE /\ Taken
           /\ job' = [Outdate(r) EXCEPT ![j] = Idle]
           /\ Blame({r} \union LostWith(w))
           /\ webhooks' \in {webhooks, webhooks \ {w}}
  <2>1. job'[j] = Idle /\ OthersAlike(j)
    BY <1>1, <1>4, OutdateBecomes
  <2> QED BY <1>1, <1>4, <2>1
<1>5. state[r] \in {"pending", "approved", d} => state[r] # "deleted"
  BY <1>1 DEF Decision
<1> QED BY <1>2, <1>3, <1>4, <1>5 DEF SetRequestState

-----------------------------------------------------------------------------
(***************************************************************************)
(* A pending event is a licence to file one ticket: its job holds it until *)
(* the ticket is filed, whether the call fails or not.                     *)
(***************************************************************************)

\* The jobs that may still file a ticket of a request.
Filers(r) == {j \in Active(r) : job[j].pc = "filing"}

Licensed ==
  \A r \in Request : Within(TicketsOf(r), Filers(r), pendingEvents[r])

(***************************************************************************)
(* What a step may do with the licences of a request.                      *)
(***************************************************************************)
LicenceStep(r) ==
  \/ /\ TicketsOf(r)' \subseteq TicketsOf(r)
     /\ Filers(r)' \subseteq Filers(r)
     /\ pendingEvents[r] <= pendingEvents'[r]
  \/ \E t \in Ticket, j \in Filers(r) :
       /\ TicketsOf(r)' \subseteq TicketsOf(r) \union {t}
       /\ Filers(r)' \subseteq Filers(r) \ {j}
       /\ pendingEvents'[r] = pendingEvents[r]
  \/ \E j \in Job :
       /\ TicketsOf(r)' \subseteq TicketsOf(r)
       /\ Filers(r)' \subseteq Filers(r) \union {j}
       /\ pendingEvents'[r] = pendingEvents[r] + 1

(***************************************************************************)
(* Steps of that kind keep the count.                                      *)
(***************************************************************************)
LEMMA LicenceCounts ==
  ASSUME TypeOK, TypeOK', Licensed, \A r \in Request : LicenceStep(r)
  PROVE  Licensed'
<1> SUFFICES ASSUME NEW r \in Request
             PROVE  Within(TicketsOf(r)', Filers(r)', pendingEvents'[r])
  BY DEF Licensed, Within
<1> DEFINE A == TicketsOf(r)
           B == Filers(r)
           A1 == TicketsOf(r)'
           B1 == Filers(r)'
           n == pendingEvents[r]
           k == pendingEvents'[r]
<1>1. Within(A, B, n)
  BY DEF Licensed
<1>2. n \in Nat /\ k \in Nat
  BY DEF TypeOK
<1>3. \/ A1 \subseteq A /\ B1 \subseteq B /\ n <= k
      \/ \E t \in Ticket, j \in B :
           A1 \subseteq A \union {t} /\ B1 \subseteq B \ {j} /\ k = n
      \/ \E j \in Job :
           A1 \subseteq A /\ B1 \subseteq B \union {j} /\ k = n + 1
  BY DEF LicenceStep
<1> HIDE DEF A, B, A1, B1, n, k
<1>4. Within(A1, B1, k)
  <2>1. CASE A1 \subseteq A /\ B1 \subseteq B /\ n <= k
    BY <1>1, <1>2, <2>1, CountShrinks
  <2>2. ASSUME NEW t \in Ticket, NEW j \in B,
               A1 \subseteq A \union {t}, B1 \subseteq B \ {j}, k = n
        PROVE  Within(A1, B1, k)
    <3>1. A1 \in SUBSET (A \union {t}) /\ B1 \in SUBSET (B \ {j})
      BY <2>2
    <3>2. Within(A1, B1, n)
      BY <1>1, <1>2, <3>1, CountTraded
    <3> QED BY <2>2, <3>2
  <2>3. ASSUME NEW j \in Job,
               A1 \subseteq A, B1 \subseteq B \union {j}, k = n + 1
        PROVE  Within(A1, B1, k)
    BY <1>1, <1>2, <2>3, CountGrows
  <2> QED BY <1>3, <2>1, <2>2, <2>3
<1> QED BY <1>4 DEF A1, B1, k

(***************************************************************************)
(* A step that files nothing and brings no job to filing keeps the count.  *)
(***************************************************************************)
LEMMA QuietLicensed ==
  ASSUME TrackerInv, TrackerInv', Licensed,
         \A t \in Ticket : ticket'[t].about = ticket[t].about,
         pendingEvents' = pendingEvents,
         \A j \in Job :
           \/ job'[j].pc # "filing"
           \/ job[j].pc = "filing" /\ job'[j].req = job[j].req
  PROVE  Licensed'
<1> SUFFICES ASSUME NEW r \in Request
             PROVE  LicenceStep(r)
  BY LicenceCounts DEF TrackerInv
<1>1. TicketsOf(r)' \subseteq TicketsOf(r)
  BY DEF TicketsOf
<1>2. Filers(r)' \subseteq Filers(r)
  BY DEF Filers, Active
<1>3. pendingEvents[r] <= pendingEvents'[r]
  BY DEF TrackerInv, TypeOK
<1> QED BY <1>1, <1>2, <1>3 DEF LicenceStep

(***************************************************************************)
(* Filing the ticket uses the licence up.                                  *)
(***************************************************************************)
LEMMA CreateTicketLicensed ==
  ASSUME TrackerInv, TrackerInv', Licensed, NEW j \in Job, CreateTicket(j)
  PROVE  Licensed'
<1>1. /\ job[j].pc = "filing" /\ OthersKeep(j)
      /\ \/ Ends(j) /\ (UNCHANGED ticket \/ NewTicket(j))
         \/ NewTicket(j) /\ \E pc \in {"indexing", "saving"} :
                              Moves(j, pc, job[j].req, NextTicket)
  BY CreateTicketTurn
<1>2. job'[j].pc # "filing"
  BY <1>1, EndRecords DEF Moves
<1>3. pendingEvents' = pendingEvents
  BY DEF CreateTicket
<1>4. job[j].req \in Request
  BY <1>1, BusyJob
<1>5. CASE UNCHANGED ticket
  BY <1>1, <1>2, <1>3, <1>5, QuietLicensed DEF OthersKeep
<1>6. CASE NewTicket(j)
  <2>1. PICK n \in Ticket :
          /\ ticket[n].about = Nobody /\ ticket'[n].about = job[j].req
          /\ \A t \in Ticket : t # n => ticket'[t].about = ticket[t].about
    BY <1>4, <1>6, FilingLasts
  <2> SUFFICES ASSUME NEW r \in Request
               PROVE  LicenceStep(r)
    BY LicenceCounts DEF TrackerInv
  <2>2. Filers(r)' \subseteq Filers(r) \ {j}
    BY <1>1, <1>2 DEF Filers, Active, OthersKeep
  <2>3. CASE r = job[j].req
    <3>1. j \in Filers(r)
      BY <1>1, <2>3 DEF Filers, Active
    <3>2. TicketsOf(r)' \subseteq TicketsOf(r) \union {n}
      BY <2>1 DEF TicketsOf
    <3> QED BY <1>3, <2>2, <3>1, <3>2 DEF LicenceStep
  <2>4. CASE r # job[j].req
    <3>1. TicketsOf(r)' \subseteq TicketsOf(r)
      BY <2>1, <2>4 DEF TicketsOf
    <3>2. pendingEvents[r] <= pendingEvents'[r]
      BY <1>3 DEF TrackerInv, TypeOK
    <3> QED BY <2>2, <3>1, <3>2 DEF LicenceStep
  <2> QED BY <2>3, <2>4
<1> QED BY <1>1, <1>5, <1>6

(***************************************************************************)
(* An event of a pending request is a new licence.                         *)
(***************************************************************************)
LEMMA PendLicensed ==
  ASSUME TrackerInv, TrackerInv', Licensed, NEW r \in Request, Pend(r)
  PROVE  Licensed'
<1>1. /\ ticket' = ticket
      /\ pendingEvents' = [pendingEvents EXCEPT ![r] = @ + 1]
      /\ onWatcherEvent(r, "filing")
  BY DEF Pend, Change
<1> SUFFICES ASSUME NEW x \in Request
             PROVE  LicenceStep(x)
  BY LicenceCounts DEF TrackerInv
<1>2. TicketsOf(x)' \subseteq TicketsOf(x)
  BY <1>1 DEF TicketsOf
<1>3. /\ pendingEvents[x] \in Nat
      /\ pendingEvents'[x] = IF x = r THEN pendingEvents[x] + 1 ELSE pendingEvents[x]
  BY <1>1 DEF TrackerInv, TypeOK
<1>4. CASE \A i \in Job : Alike(job'[i], job[i])
  <2>1. Filers(x)' \subseteq Filers(x)
    BY <1>4 DEF Filers, Active, Alike
  <2>2. pendingEvents[x] <= pendingEvents'[x]
    BY <1>3
  <2> QED BY <1>2, <2>1, <2>2 DEF LicenceStep
<1>5. ASSUME NEW j \in Job, job'[j] = EventJob(r, "filing"), OthersAlike(j)
      PROVE  LicenceStep(x)
  <2>1. Filers(x)' \subseteq Filers(x) \union {j}
    BY <1>5 DEF Filers, Active, OthersAlike, Alike
  <2>2. CASE x = r
    BY <1>2, <1>3, <2>1, <2>2 DEF LicenceStep
  <2>3. CASE x # r
    <3>1. job'[j].req # x
      BY <1>5, <2>3, EventRecord
    <3>2. Filers(x)' \subseteq Filers(x)
      BY <1>5, <3>1 DEF Filers, Active, OthersAlike, Alike
    <3>3. pendingEvents[x] <= pendingEvents'[x]
      BY <1>3, <2>3
    <3> QED BY <1>2, <3>2, <3>3 DEF LicenceStep
  <2> QED BY <2>2, <2>3
<1> QED BY <1>1, <1>4, <1>5, EventTurn

(***************************************************************************)
(* No other step of the environment brings a job to filing.                *)
(***************************************************************************)
LEMMA AuthServerLicensed ==
  ASSUME TrackerInv, TrackerInv', Licensed, NEW r \in Request, AuthServer(r)
  PROVE  Licensed'
<1>1. CASE Pend(r)
  BY <1>1, PendLicensed
<1>2. CASE Delete(r)
  <2>1. ticket' = ticket /\ pendingEvents' = pendingEvents /\ onWatcherEvent(r, "reading")
    BY <1>2 DEF Delete, Change
  <2>2. \A i \in Job : Alike(job'[i], job[i]) \/ job'[i] = EventJob(r, "reading")
    BY <2>1, EventTurn DEF OthersAlike
  <2>3. \A i \in Job : \/ job'[i].pc # "filing"
                       \/ job[i].pc = "filing" /\ job'[i].req = job[i].req
    BY <2>2, EventRecord DEF Alike
  <2> QED BY <2>1, <2>3, QuietLicensed
<1>3. ASSUME NEW d \in Decision, ResolveElsewhere(r, d)
      PROVE  Licensed'
  <2>1. ticket' = ticket /\ pendingEvents' = pendingEvents /\ job' = Outdate(r)
    BY <1>3 DEF ResolveElsewhere, Change
  <2>2. \A i \in Job : Alike(job'[i], job[i])
    BY <2>1, OutdateAlike
  <2>3. \A i \in Job : \/ job'[i].pc # "filing"
                       \/ job[i].pc = "filing" /\ job'[i].req = job[i].req
    BY <2>2 DEF Alike
  <2> QED BY <2>1, <2>3, QuietLicensed
<1>4. CASE ExpireData(r)
  BY <1>4, QuietLicensed DEF ExpireData
<1> QED BY <1>1, <1>2, <1>3, <1>4 DEF AuthServer

LEMMA MarkExpiredTicket ==
  ASSUME TrackerInv, NEW t \in Ticket, MarkExpired(t)
  PROVE  /\ \A x \in Ticket \ {t} : ticket'[x] = ticket[x]
         /\ ticket'[t].about = ticket[t].about
         /\ ticket'[t].open = IF plugin = "jira" THEN ticket[t].open ELSE FALSE
         /\ ticket'[t].mark = IF plugin = "pagerduty" THEN ticket[t].mark ELSE "expired"
<1> DEFINE open == IF plugin = "jira" THEN ticket[t].open ELSE FALSE
           mark == IF plugin = "pagerduty" THEN ticket[t].mark ELSE "expired"
<1>1. ticket \in [Ticket -> TicketState]
  BY DEF TrackerInv, TypeOK
<1>2. ticket' = [ticket EXCEPT ![t].open = open, ![t].mark = mark]
  BY <1>1 DEF MarkExpired
<1> HIDE DEF open, mark
<1>3. /\ \A x \in Ticket \ {t} : ticket'[x] = ticket[x]
      /\ ticket'[t].about = ticket[t].about
      /\ ticket'[t].open = open /\ ticket'[t].mark = mark
  BY <1>1, <1>2 DEF TicketState
<1> QED BY <1>3 DEF open, mark

LEMMA CloseOneTicket ==
  ASSUME TrackerInv, NEW t \in Ticket, Close(t)
  PROVE  /\ \A x \in Ticket \ {t} : ticket'[x] = ticket[x]
         /\ ticket'[t].about = ticket[t].about
         /\ ticket'[t].open = FALSE /\ ticket'[t].mark = ticket[t].mark
<1>1. ticket \in [Ticket -> TicketState]
  BY DEF TrackerInv, TypeOK
<1> QED BY <1>1 DEF Close, TicketState

LEMMA DecideTicket ==
  ASSUME TrackerInv, NEW t \in Ticket, NEW d \in Decision, Decide(t, d)
  PROVE  /\ \A x \in Ticket \ {t} : ticket'[x] = ticket[x]
         /\ ticket'[t].about = ticket[t].about
         /\ ticket'[t].open = ticket[t].open
         /\ ticket'[t].mark = IF plugin = "pagerduty" THEN ticket[t].mark ELSE d
<1>1. ticket \in [Ticket -> TicketState]
  BY DEF TrackerInv, TypeOK
<1> QED BY <1>1 DEF Decide, TicketState

LEMMA AboutSame ==
  ASSUME TrackerInv, NEW t \in Ticket,
         \/ ticket' = ticket
         \/ MarkExpired(t)
         \/ Close(t)
         \/ \E d \in Decision : Decide(t, d)
  PROVE  \A x \in Ticket : ticket'[x].about = ticket[x].about
BY MarkExpiredTicket, CloseOneTicket, DecideTicket

LEMMA OtherStepsLicensed ==
  ASSUME TrackerInv, TrackerInv', Licensed,
         \/ \E t \in Ticket, d \in Decision : Decide(t, d)
         \/ Sender
         \/ Crash
  PROVE  Licensed'
<1>1. ASSUME NEW t \in Ticket, NEW d \in Decision, Decide(t, d)
      PROVE  Licensed'
  <2>1. job' = job /\ pendingEvents' = pendingEvents
    BY <1>1 DEF Decide
  <2>2. \A x \in Ticket : ticket'[x].about = ticket[x].about
    BY <1>1, AboutSame
  <2> QED BY <2>1, <2>2, QuietLicensed
<1>2. ASSUME NEW t \in Ticket, Redeliver(t)
      PROVE  Licensed'
  <2>1. PICK w \in webhooks : Deliver(w)
    BY <1>2 DEF Redeliver
  <2>2. FreeJob \in Job
    BY <2>1, FreeJobIsIdle DEF Deliver
  <2>3. /\ ticket' = ticket /\ pendingEvents' = pendingEvents
        /\ job'[FreeJob] = Delivered(w, w) /\ OthersKeep(FreeJob)
    BY <2>1, <2>2, JobBecomes DEF Deliver
  <2>4. Delivered(w, w).pc = "lookup"
    BY DEF Delivered, Idle
  <2> QED BY <2>3, <2>4, QuietLicensed DEF OthersKeep
<1>3. ASSUME NEW w1 \in webhooks, NEW w2 \in webhooks, Batch(w1, w2)
      PROVE  Licensed'
  BY <1>3, QuietLicensed DEF Batch
<1>4. CASE Crash
  <2>1. /\ ticket' = ticket /\ pendingEvents' = pendingEvents
        /\ \A i \in Job : job'[i].pc = "idle"
    BY <1>4 DEF Crash, Idle
  <2> QED BY <2>1, QuietLicensed
<1> QED BY <1>1, <1>2, <1>3, <1>4 DEF Sender

(***************************************************************************)
(* The steps of jobs behind filing.                                        *)
(***************************************************************************)
LEMMA JobStepLicensed ==
  ASSUME TrackerInv, TrackerInv', Licensed, NEW j \in Job, JobStep(j)
  PROVE  Licensed'
<1>1. CASE CreateTicket(j)
  BY <1>1, CreateTicketLicensed
<1>2. CASE SetRequestState(j)
  <2>1. /\ OthersAlike(j)
        /\ Ends(j) \/ job'[j] = Idle \/ \E r, t : Moves(j, "closing", r, t)
    BY <1>2, SetRequestStateTurn
  <2>2. job'[j].pc # "filing"
    BY <2>1, EndRecords DEF Moves, Idle
  <2>3. \A i \in Job : \/ job'[i].pc # "filing"
                       \/ job[i].pc = "filing" /\ job'[i].req = job[i].req
    BY <2>1, <2>2 DEF OthersAlike, Alike
  <2>4. ticket' = ticket /\ pendingEvents' = pendingEvents
    BY <1>2 DEF SetRequestState
  <2> QED BY <2>3, <2>4, QuietLicensed
<1>3. ASSUME OthersKeep(j),
             Ends(j) \/ \E pc, r, t : pc # "filing" /\ Moves(j, pc, r, t),
             \A x \in Ticket : ticket'[x].about = ticket[x].about,
             pendingEvents' = pendingEvents
      PROVE  Licensed'
  <2>1. job'[j].pc # "filing"
    BY <1>3, EndRecords DEF Moves
  <2> QED BY <1>3, <2>1, QuietLicensed DEF OthersKeep
<1>4. CASE ExpireTicket(j) \/ CloseTicket(j)
  <2>1. OthersKeep(j) /\ Ends(j) /\ job[j].pc \in {"expiring", "closing"}
    BY <1>4, ExpireTicketTurn, CloseTicketTurn
  <2>2. job[j].ticket \in Ticket
    BY <2>1, BusyJob DEF TicketPC
  <2>3. ticket' = ticket \/ MarkExpired(job[j].ticket) \/ Close(job[j].ticket)
    BY <1>4 DEF ExpireTicket, CloseTicket
  <2>4. \A x \in Ticket : ticket'[x].about = ticket[x].about
    BY <2>2, <2>3, AboutSame
  <2>5. pendingEvents' = pendingEvents
    BY <1>4 DEF ExpireTicket, CloseTicket
  <2> QED BY <1>3, <2>1, <2>4, <2>5
<1>5. CASE SetRequestID(j)
  BY <1>3, <1>5, SetRequestIDTurn DEF SetRequestID
<1>6. CASE setPluginData(j)
  BY <1>3, <1>6, SetPluginDataTurn DEF setPluginData
<1>7. CASE tryAutoApproveRequest(j)
  BY <1>3, <1>7, AutoApproveTurn DEF tryAutoApproveRequest
<1>8. CASE getTicket(j)
  BY <1>3, <1>8, GetTicketTurn DEF getTicket
<1>9. CASE Lookup(j)
  BY <1>3, <1>9, LookupTurn DEF Lookup
<1>10. CASE GetRequest(j)
  BY <1>3, <1>10, GetRequestTurn DEF GetRequest
<1>11. CASE getPluginData(j)
  BY <1>3, <1>11, GetPluginDataTurn DEF getPluginData
<1> QED BY <1>1, <1>2, <1>4, <1>5, <1>6, <1>7, <1>8, <1>9, <1>10, <1>11 DEF JobStep

LEMMA InitLicensed == Init => Licensed
<1> SUFFICES ASSUME Init, NEW r \in Request
             PROVE  Within(TicketsOf(r), Filers(r), pendingEvents[r])
  BY DEF Licensed
<1>1. TicketsOf(r) = {}
  BY TrackerAssumption DEF Init, TicketsOf, NotFiled
<1>2. Filers(r) = {}
  BY DEF Init, Filers, Active, Idle
<1>3. pendingEvents[r] = 0
  BY DEF Init
<1> QED BY <1>1, <1>2, <1>3, FS_EmptySet DEF Within

LEMMA NextLicensed == TrackerInv /\ Licensed /\ [Next]_vars => Licensed'
<1> SUFFICES ASSUME TrackerInv, Licensed, [Next]_vars
             PROVE  Licensed'
  OBVIOUS
<1>1. TrackerInv'
  BY TrackerNext
<1>2. CASE UNCHANGED vars
  BY <1>2 DEF vars, Licensed, Within, TicketsOf, Filers, Active
<1>3. CASE Next
  BY <1>1, <1>3, AuthServerLicensed, OtherStepsLicensed, JobStepLicensed DEF Next
<1> QED BY <1>2, <1>3

(***************************************************************************)
(* A pending event files at most one ticket, however the jobs interleave,  *)
(* fail and crash.                                                         *)
(***************************************************************************)
THEOREM TrackerOneTicket == Spec => []OneTicketPerEvent
<1>1. TrackerInv /\ Licensed => OneTicketPerEvent
  <2> SUFFICES ASSUME TrackerInv, Licensed, NEW r \in Request
               PROVE  Cardinality(TicketsOf(r)) <= pendingEvents[r]
    BY DEF OneTicketPerEvent
  <2>1. /\ Cardinality(TicketsOf(r)) \in Nat
        /\ Cardinality(Filers(r)) \in Nat
        /\ Cardinality(TicketsOf(r)) + Cardinality(Filers(r)) <= pendingEvents[r]
    BY FS_CardinalityType DEF Licensed, Within
  <2>2. pendingEvents[r] \in Nat
    BY DEF TrackerInv, TypeOK
  <2> QED BY <2>1, <2>2
<1> QED
  BY <1>1, InitLicensed, NextLicensed, TrackerInvariant, PTL DEF Spec

-----------------------------------------------------------------------------
\* Approved, denied or deleted: never pending again.
Settled(s) == s \notin {"none", "pending"}

\* A job with the record q knows, when the states of the requests are s, the
\* tickets k and the plugin is p: that its request is deleted or settled where
\* its control state says so, that its ticket is that of its next message, and
\* that the messages of its webhook are to be handled or settled.
JobKnows(q, s, k, p) ==
  /\ q.pc \in {"reading", "expiring"} => s[q.req] = "deleted"
  /\ q.pc = "closing" => Settled(s[q.req])
  /\ q.pc \in {"checking", "matching", "setting", "closing"} /\ q.hook # <<>> =>
       q.todo # <<>> /\ q.todo[1][1] = q.ticket
  /\ \A i \in DOMAIN q.hook :
       \/ \E n \in DOMAIN q.todo : q.todo[n] = q.hook[i]
       \/ Settled(s[k[q.hook[i][1]].about])
  /\ p = "jira" => Len(q.todo) <= 1

JobsKnow == \A j \in Job : JobKnows(job[j], state, ticket, plugin)

\* At JIRA an issue people have moved is not pending any more; what is marked
\* expired is about a deleted request and, at GitLab, closed.
MarksKnow ==
  /\ plugin = "jira" => \A m \in asked : ticket[m[1]].mark # "pending"
  /\ \A t \in Ticket : ticket[t].mark = "expired" =>
       /\ ticket[t].about \in Request /\ state[ticket[t].about] = "deleted"
       /\ plugin = "gitlab" => ~ticket[t].open

HooksKnow == plugin = "jira" => \A w \in webhooks : Len(w) = 1

\* Before its first event a request has no ticket and no job.
Announced ==
  /\ \A t \in Ticket : ticket[t].about \in Request => state[ticket[t].about] # "none"
  /\ \A j \in Job : job[j].req \in Request => state[job[j].req] # "none"

AllKnow == JobsKnow /\ MarksKnow /\ HooksKnow /\ Announced

(***************************************************************************)
(* What every step does to the states of requests and to filed tickets,    *)
(* and what steps do to the messages people wait for.                      *)
(***************************************************************************)
StatesProgress ==
  \A r \in Request :
    /\ state[r] # "none" => state'[r] # "none"
    /\ state[r] = "deleted" => state'[r] = "deleted"
    /\ Settled(state[r]) => Settled(state'[r])

AboutsLast ==
  \A t \in Ticket : ticket[t].about # Nobody => ticket'[t].about = ticket[t].about

Sent(m) == \E w \in webhooks : \E i \in DOMAIN w : w[i] = m

SentKept ==
  \A m \in asked :
    LET r == ticket[m[1]].about IN
    Sent(m) /\ state[r] = "pending" /\ state'[r] = "pending" /\ r \notin excused' => Sent(m)'

LEMMA AskedAbout ==
  ASSUME TrackerInv, NEW m \in asked
  PROVE  m[1] \in Ticket /\ ticket[m[1]].about \in Request
<1>1. m[1] \in Ticket
  BY DEF TrackerInv, TypeOK, Message
<1>2. ticket[m[1]] \in TicketState
  BY <1>1 DEF TrackerInv, TypeOK
<1> QED BY <1>1, <1>2 DEF TrackerInv, AskedFiled, TicketState

(***************************************************************************)
(* What a job knows stays true, if it keeps its webhook and what is left   *)
(* of it and its new control state is right.                               *)
(***************************************************************************)
LEMMA RecordKnows ==
  ASSUME TrackerInv, JobsKnow, StatesProgress, AboutsLast, NEW i \in Job,
         NEW q, q.hook = job[i].hook, q.todo = job[i].todo,
         q.pc \in {"reading", "expiring"} => state'[q.req] = "deleted",
         q.pc = "closing" => Settled(state'[q.req]),
         q.pc \in {"checking", "matching", "setting", "closing"} /\ q.hook # <<>> =>
           q.todo # <<>> /\ q.todo[1][1] = q.ticket
  PROVE  JobKnows(q, state', ticket', plugin)
<1>1. JobKnows(job[i], state, ticket, plugin)
  BY DEF JobsKnow
<1>2. \A n \in DOMAIN q.hook : q.hook[n] \in asked
  BY BusyJob DEF JobFits
<1>3. ASSUME NEW n \in DOMAIN q.hook
      PROVE  \/ \E k \in DOMAIN q.todo : q.todo[k] = q.hook[n]
             \/ Settled(state'[ticket'[q.hook[n][1]].about])
  <2>1. /\ q.hook[n][1] \in Ticket
        /\ ticket[q.hook[n][1]].about \in Request
    BY <1>2, <1>3, AskedAbout
  <2>2. ticket'[q.hook[n][1]].about = ticket[q.hook[n][1]].about
    BY <2>1, TrackerAssumption DEF AboutsLast
  <2>3. \/ \E k \in DOMAIN q.todo : q.todo[k] = q.hook[n]
        \/ Settled(state[ticket[q.hook[n][1]].about])
    BY <1>1, <1>3 DEF JobKnows
  <2> QED BY <2>1, <2>2, <2>3 DEF StatesProgress
<1>4. plugin = "jira" => Len(q.todo) <= 1
  BY <1>1 DEF JobKnows
<1> QED BY <1>3, <1>4 DEF JobKnows

LEMMA KnowsPersists ==
  ASSUME TrackerInv, JobsKnow, StatesProgress, AboutsLast, NEW i \in Job,
         NEW q, Alike(q, job[i])
  PROVE  JobKnows(q, state', ticket', plugin)
<1>1. JobKnows(job[i], state, ticket, plugin)
  BY DEF JobsKnow
<1>2. q.pc \in {"reading", "expiring", "closing"} => q.req \in Request
  BY BusyJob DEF Alike
<1>3. q.pc \in {"reading", "expiring"} => state'[q.req] = "deleted"
  BY <1>1, <1>2 DEF JobKnows, Alike, StatesProgress
<1>4. q.pc = "closing" => Settled(state'[q.req])
  BY <1>1, <1>2 DEF JobKnows, Alike, StatesProgress
<1>5. q.pc \in {"checking", "matching", "setting", "closing"} /\ q.hook # <<>> =>
        q.todo # <<>> /\ q.todo[1][1] = q.ticket
  BY <1>1 DEF JobKnows, Alike
<1>6. q.hook = job[i].hook /\ q.todo = job[i].todo
  BY DEF Alike
<1> QED BY <1>3, <1>4, <1>5, <1>6, RecordKnows

LEMMA FreshKnows ==
  ASSUME NEW s, NEW k, NEW p, NEW q, q.hook = <<>>, q.todo = <<>>,
         q.pc \in {"reading", "expiring"} => s[q.req] = "deleted",
         q.pc # "closing"
  PROVE  JobKnows(q, s, k, p)
<1>1. Len(q.todo) = 0 /\ \A i \in DOMAIN q.hook : FALSE
  OBVIOUS
<1> QED BY <1>1 DEF JobKnows

LEMMA IdleKnows ==
  ASSUME NEW s, NEW k, NEW p
  PROVE  JobKnows(Idle, s, k, p)
BY FreshKnows DEF Idle

(***************************************************************************)
(* A message is waited for until its request is settled, or somebody is    *)
(* blamed: it suffices to look at the webhooks that are gone.              *)
(***************************************************************************)
LEMMA SentStays ==
  ASSUME \A w \in webhooks :
           \/ w \in webhooks'
           \/ \A i \in DOMAIN w : LET r == ticket[w[i][1]].about IN
                state[r] # "pending" \/ state'[r] # "pending" \/ r \in excused'
  PROVE  SentKept
BY DEF SentKept, Sent

(***************************************************************************)
(* A job that ends well has settled the message it was about, and leaves   *)
(* no other behind.                                                        *)
(***************************************************************************)
HeadSettled(j) ==
  job[j].hook # <<>> =>
    job[j].todo # <<>> /\ Settled(state[ticket[job[j].todo[1][1]].about])

LEMMA FinishKnows ==
  ASSUME TrackerInv, JobsKnow, NEW j \in Job, Finish(j), HeadSettled(j),
         StatesProgress, AboutsLast
  PROVE  /\ JobKnows(job'[j], state', ticket', plugin)
         /\ SentKept
<1> DEFINE q == job[j]
<1>1. /\ q.todo \in Seq(Message) /\ q.hook \in Seq(Message)
      /\ \A i \in DOMAIN q.hook : q.hook[i] \in asked
      /\ q.hook = <<>> => q.todo = <<>>
  BY BusyJob DEF JobFits, JobState
<1>2. JobKnows(q, state, ticket, plugin)
  BY DEF JobsKnow
<1>3. CASE Len(q.todo) > 1
  <2> DEFINE rest == Tail(q.todo)
             new == Delivered(q.hook, rest)
  <2>1. job'[j] = new /\ webhooks' = webhooks
    BY <1>3, JobBecomes DEF Finish, Goto
  <2>2. new.pc = "lookup" /\ new.hook = q.hook /\ new.todo = rest
    BY DEF Delivered, Idle
  <2>3. /\ Len(rest) = Len(q.todo) - 1
        /\ \A n \in 1..Len(rest) : rest[n] = q.todo[n + 1]
        /\ DOMAIN rest = 1..Len(rest) /\ DOMAIN q.todo = 1..Len(q.todo)
        /\ Len(q.todo) \in Nat
    BY <1>1, <1>3
  <2>4. q.hook # <<>> /\ Settled(state[ticket[q.todo[1][1]].about])
    <3>1. q.todo # <<>>
      BY <1>1, <1>3
    <3> QED BY <1>1, <3>1 DEF HeadSettled
  <2>5. ASSUME NEW i \in DOMAIN q.hook
        PROVE  \/ \E n \in DOMAIN rest : rest[n] = q.hook[i]
               \/ Settled(state'[ticket'[q.hook[i][1]].about])
    <3>1. /\ q.hook[i][1] \in Ticket
          /\ ticket[q.hook[i][1]].about \in Request
      BY <1>1, <2>5, AskedAbout
    <3>2. ticket'[q.hook[i][1]].about = ticket[q.hook[i][1]].about
      BY <3>1, TrackerAssumption DEF AboutsLast
    <3>3. CASE Settled(state[ticket[q.hook[i][1]].about])
      BY <3>1, <3>2, <3>3 DEF StatesProgress
    <3>4. ASSUME NEW n \in DOMAIN q.todo, q.todo[n] = q.hook[i]
          PROVE  \/ \E x \in DOMAIN rest : rest[x] = q.hook[i]
                 \/ Settled(state'[ticket'[q.hook[i][1]].about])
      <4>1. CASE n = 1
        BY <2>4, <3>3, <3>4, <4>1
      <4>2. CASE n # 1
        <5>1. n - 1 \in 1..Len(rest) /\ (n - 1) + 1 = n
          BY <2>3, <4>2
        <5>2. rest[n - 1] = q.todo[n]
          BY <2>3, <5>1
        <5> QED BY <2>3, <3>4, <5>1, <5>2
      <4> QED BY <4>1, <4>2
    <3> QED BY <1>2, <2>5, <3>3, <3>4 DEF JobKnows
  <2>6. plugin # "jira"
    BY <1>2, <1>3, <2>3 DEF JobKnows
  <2> HIDE DEF new, rest
  <2>7. JobKnows(new, state', ticket', plugin)
    BY <2>2, <2>5, <2>6 DEF JobKnows
  <2>8. SentKept
    BY <2>1, SentStays
  <2> QED BY <2>1, <2>7, <2>8
<1>4. CASE ~(Len(q.todo) > 1)
  <2>1. job'[j] = Idle /\ webhooks' = webhooks \ {q.hook}
    BY <1>4, JobBecomes DEF Finish
  <2>2. ASSUME NEW i \in DOMAIN q.hook
        PROVE  state[ticket[q.hook[i][1]].about] # "pending"
    <3>1. CASE Settled(state[ticket[q.hook[i][1]].about])
      BY <3>1 DEF Settled
    <3>2. ASSUME NEW n \in DOMAIN q.todo, q.todo[n] = q.hook[i]
          PROVE  state[ticket[q.hook[i][1]].about] # "pending"
      <4>1. n = 1
        BY <1>1, <1>4
      <4>2. q.hook # <<>>
        BY <1>1, <3>2
      <4> QED BY <3>2, <4>1, <4>2 DEF HeadSettled, Settled
    <3> QED BY <1>2, <2>2, <3>1, <3>2 DEF JobKnows
  <2>3. SentKept
    BY <2>1, <2>2, SentStays
  <2> QED BY <2>1, <2>3, IdleKnows
<1> QED BY <1>3, <1>4

(***************************************************************************)
(* A job that fails may take its webhook with it, but then somebody is     *)
(* blamed for what is not settled.                                         *)
(***************************************************************************)
LEMMA FailKnows ==
  ASSUME TrackerInv, NEW j \in Job, NEW rs, Fail(j, rs)
  PROVE  /\ JobKnows(job'[j], state', ticket', plugin)
         /\ SentKept
         /\ webhooks' \subseteq webhooks
         /\ rs \subseteq excused'
<1>1. job'[j] = Idle
  BY JobBecomes DEF Fail
<1>2. CASE Blame(rs) /\ UNCHANGED webhooks
  BY <1>1, <1>2, IdleKnows, SentStays DEF Blame
<1>3. CASE /\ webhooks' = webhooks \ {job[j].hook}
           /\ Blame(rs \union LostWith(job[j].hook))
  <2>1. \A i \in DOMAIN job[j].hook : LET r == ticket[job[j].hook[i][1]].about IN
          state[r] # "pending" \/ r \in excused'
    BY <1>3 DEF Blame, LostWith, AboutOf
  <2>2. SentKept
    BY <1>3, <2>1, SentStays
  <2> QED BY <1>1, <1>3, <2>2, IdleKnows DEF Blame
<1> QED BY <1>2, <1>3 DEF Fail

LEMMA CallFailsKnows ==
  ASSUME TrackerInv, NEW j \in Job, CallFails(j)
  PROVE  /\ JobKnows(job'[j], state', ticket', plugin)
         /\ SentKept
         /\ webhooks' \subseteq webhooks
         /\ job[j].req \in excused'
BY FailKnows DEF CallFails

LEMMA RefuseKnows ==
  ASSUME TrackerInv, NEW j \in Job, Refuse(j)
  PROVE  /\ JobKnows(job'[j], state', ticket', plugin)
         /\ SentKept
         /\ webhooks' \subseteq webhooks
BY FailKnows DEF Refuse

-----------------------------------------------------------------------------
(***************************************************************************)
(* AllKnow is inductive: what is common to the steps.                      *)
(***************************************************************************)
LEMMA MarksPersist ==
  ASSUME TrackerInv, MarksKnow, StatesProgress, AboutsLast, UNCHANGED <<plugin, asked>>,
         \A t \in Ticket : /\ ticket'[t].mark = ticket[t].mark
                           /\ ticket[t].mark = "expired" /\ ~ticket[t].open => ~ticket'[t].open
  PROVE  MarksKnow'
<1>1. plugin = "jira" => \A m \in asked : ticket'[m[1]].mark # "pending"
  BY AskedAbout DEF MarksKnow
<1>2. ASSUME NEW t \in Ticket, ticket'[t].mark = "expired"
      PROVE  /\ ticket'[t].about \in Request /\ state'[ticket'[t].about] = "deleted"
             /\ plugin = "gitlab" => ~ticket'[t].open
  <2>1. /\ ticket[t].about \in Request /\ state[ticket[t].about] = "deleted"
        /\ plugin = "gitlab" => ~ticket[t].open
    BY <1>2 DEF MarksKnow
  <2>2. ticket'[t].about = ticket[t].about
    BY <2>1, TrackerAssumption DEF AboutsLast
  <2> QED BY <1>2, <2>1, <2>2 DEF StatesProgress
<1> QED BY <1>1, <1>2 DEF MarksKnow

LEMMA StepKnows ==
  ASSUME TrackerInv, AllKnow, StatesProgress, AboutsLast, plugin' = plugin,
         MarksKnow', HooksKnow',
         \A i \in Job :
           \/ Alike(job'[i], job[i])
           \/ /\ JobKnows(job'[i], state', ticket', plugin)
              /\ job'[i].req \in Request => state'[job'[i].req] # "none",
         \A t \in Ticket :
           \/ ticket'[t].about = ticket[t].about
           \/ \E j \in Job : ticket'[t].about = job[j].req
  PROVE  AllKnow'
<1>1. JobsKnow'
  BY KnowsPersists DEF AllKnow, JobsKnow
<1>2. ASSUME NEW t \in Ticket, ticket'[t].about \in Request
      PROVE  state'[ticket'[t].about] # "none"
  BY <1>2 DEF AllKnow, Announced, StatesProgress
<1>3. ASSUME NEW i \in Job, job'[i].req \in Request
      PROVE  state'[job'[i].req] # "none"
  BY <1>3 DEF AllKnow, Announced, StatesProgress, Alike
<1> QED BY <1>1, <1>2, <1>3 DEF AllKnow, Announced

LEMMA JobStepKnows ==
  ASSUME TrackerInv, AllKnow, UNCHANGED <<plugin, state>>, AboutsLast,
         webhooks' \subseteq webhooks, MarksKnow',
         NEW j \in Job, OthersKeep(j), JobKnows(job'[j], state', ticket', plugin),
         \/ Ends(j)
         \/ \E pc, r, t : Moves(j, pc, r, t) /\ (r \in Request => state[r] # "none"),
         \A t \in Ticket : \/ ticket'[t].about = ticket[t].about
                           \/ ticket'[t].about = job[j].req
  PROVE  AllKnow'
<1>1. StatesProgress
  BY DEF StatesProgress
<1>2. HooksKnow'
  BY DEF AllKnow, HooksKnow
<1>3. \A i \in Job \ {j} : Alike(job'[i], job[i])
  BY KeepAlike DEF OthersAlike
<1>4. job'[j].req \in Request => state'[job'[j].req] # "none"
  BY EndRecords, TrackerAssumption DEF Moves
<1> QED BY <1>1, <1>2, <1>3, <1>4, StepKnows

LEMMA MovesKnows ==
  ASSUME TrackerInv, JobsKnow, UNCHANGED <<plugin, state>>, AboutsLast,
         NEW j \in Job, NEW pc, NEW r, NEW t, Moves(j, pc, r, t),
         pc \in {"reading", "expiring"} => state[r] = "deleted",
         pc # "closing",
         pc \in {"checking", "matching", "setting"} /\ job[j].hook # <<>> =>
           job[j].todo # <<>> /\ job[j].todo[1][1] = t
  PROVE  JobKnows(job'[j], state', ticket', plugin)
<1>1. StatesProgress
  BY DEF StatesProgress
<1> QED BY <1>1, RecordKnows DEF Moves

(***************************************************************************)
(* Steps that leave the tickets alone.                                     *)
(***************************************************************************)
LEMMA MoveKnows ==
  ASSUME TrackerInv, AllKnow, UNCHANGED <<plugin, state, ticket, asked, webhooks>>,
         NEW j \in Job, OthersKeep(j),
         NEW pc, NEW r \in Request, NEW t, Moves(j, pc, r, t), state[r] # "none",
         pc \notin {"reading", "closing"},
         pc = "expiring" => state[r] = "deleted",
         pc \in {"checking", "matching", "setting"} /\ job[j].hook # <<>> =>
           job[j].todo # <<>> /\ job[j].todo[1][1] = t
  PROVE  AllKnow' /\ SentKept
<1>1. StatesProgress /\ AboutsLast
  BY DEF StatesProgress, AboutsLast
<1>2. MarksKnow'
  BY <1>1, MarksPersist DEF AllKnow
<1>3. JobKnows(job'[j], state', ticket', plugin)
  BY <1>1, MovesKnows DEF AllKnow
<1>4. AllKnow'
  BY <1>1, <1>2, <1>3, JobStepKnows
<1> QED BY <1>4, SentStays

LEMMA EndStepKnows ==
  ASSUME TrackerInv, AllKnow, UNCHANGED <<plugin, state, asked>>,
         AboutsLast, MarksKnow',
         NEW j \in Job, OthersKeep(j), Ends(j),
         \/ CallFails(j)
         \/ Refuse(j)
         \/ \E rs : Fail(j, rs)
         \/ Finish(j) /\ HeadSettled(j),
         \A t \in Ticket : \/ ticket'[t].about = ticket[t].about
                           \/ ticket'[t].about = job[j].req
  PROVE  AllKnow' /\ SentKept
<1>1. StatesProgress
  BY DEF StatesProgress
<1>2. ASSUME webhooks' \subseteq webhooks, JobKnows(job'[j], state', ticket', plugin)
      PROVE  AllKnow'
  BY <1>2, JobStepKnows
<1>3. CASE CallFails(j) \/ Refuse(j) \/ \E rs : Fail(j, rs)
  BY <1>2, <1>3, CallFailsKnows, RefuseKnows, FailKnows
<1>4. CASE Finish(j) /\ HeadSettled(j)
  <2>1. JobKnows(job'[j], state', ticket', plugin) /\ SentKept
    BY <1>1, <1>4, FinishKnows DEF AllKnow
  <2>2. webhooks' \subseteq webhooks
    BY <1>4 DEF Finish, Goto
  <2> QED BY <1>2, <1>4, <2>1, <2>2
<1> QED BY <1>3, <1>4

LEMMA EndKnows ==
  ASSUME TrackerInv, AllKnow, UNCHANGED <<plugin, state, ticket, asked>>,
         NEW j \in Job, OthersKeep(j), Ends(j),
         \/ CallFails(j)
         \/ Refuse(j)
         \/ \E rs : Fail(j, rs)
         \/ Finish(j) /\ HeadSettled(j)
  PROVE  AllKnow' /\ SentKept
<1>1. StatesProgress /\ AboutsLast
  BY DEF StatesProgress, AboutsLast
<1>2. MarksKnow'
  BY <1>1, MarksPersist DEF AllKnow
<1> QED BY <1>1, <1>2, EndStepKnows

\* A job of an event has no message to settle.
LEMMA EventHead ==
  ASSUME TrackerInv, NEW j \in Job, job[j].pc \in EventPC
  PROVE  job[j].hook = <<>> /\ HeadSettled(j)
BY BusyJob DEF HeadSettled

\* The request of a job that is past its lookup was announced.
LEMMA JobAnnounced ==
  ASSUME TrackerInv, AllKnow, NEW j \in Job, job[j].pc \notin {"idle", "lookup"}
  PROVE  job[j].req \in Request /\ state[job[j].req] # "none"
BY BusyJob DEF AllKnow, Announced

\* The message such a job is about names its ticket, which is about its request.
LEMMA HeadAbout ==
  ASSUME TrackerInv, AllKnow, NEW j \in Job,
         job[j].pc \in {"checking", "matching", "setting", "closing"},
         Settled(state[job[j].req])
  PROVE  HeadSettled(j)
<1>1. JobKnows(job[j], state, ticket, plugin)
  BY DEF AllKnow, JobsKnow
<1>2. ticket[job[j].ticket].about = job[j].req
  BY BusyJob DEF TicketPC
<1> QED BY <1>1, <1>2 DEF JobKnows, HeadSettled

LEMMA PlainEventKnows ==
  ASSUME TrackerInv, AllKnow, NEW j \in Job,
         SetRequestID(j) \/ setPluginData(j) \/ tryAutoApproveRequest(j) \/ getTicket(j)
  PROVE  AllKnow' /\ SentKept
<1>1. UNCHANGED <<plugin, state, ticket, asked>>
  BY DEF SetRequestID, setPluginData, tryAutoApproveRequest, getTicket
<1>2. job[j].pc \in {"indexing", "saving", "on call?", "reading"} /\ OthersKeep(j)
  BY SetRequestIDTurn, SetPluginDataTurn, AutoApproveTurn, GetTicketTurn
<1>3. job[j].hook = <<>> /\ HeadSettled(j)
  BY <1>2, EventHead DEF EventPC
<1>4. job[j].req \in Request /\ state[job[j].req] # "none"
  BY <1>2, JobAnnounced
<1>5. job[j].pc = "reading" => state[job[j].req] = "deleted"
  BY DEF AllKnow, JobsKnow, JobKnows
<1>6. CASE (CallFails(j) \/ Refuse(j) \/ Finish(j)) /\ Ends(j)
  BY <1>1, <1>2, <1>3, <1>6, EndKnows
<1>7. ASSUME UNCHANGED webhooks, NEW pc \in {"saving", "on call?", "setting", "expiring"},
             pc = "expiring" => job[j].pc = "reading",
             NEW t, Moves(j, pc, job[j].req, t)
      PROVE  AllKnow' /\ SentKept
  BY <1>1, <1>2, <1>3, <1>4, <1>5, <1>7, MoveKnows
<1>8. CASE SetRequestID(j)
  BY <1>6, <1>7, <1>8, SetRequestIDTurn
<1>9. CASE setPluginData(j)
  <2>1. \/ (CallFails(j) \/ Refuse(j) \/ Finish(j)) /\ Ends(j)
        \/ UNCHANGED webhooks /\ Moves(j, "on call?", job[j].req, job[j].ticket)
    BY <1>9, SetPluginDataTurn
  <2> QED BY <1>6, <1>7, <2>1
<1>10. CASE tryAutoApproveRequest(j)
  BY <1>6, <1>7, <1>10, AutoApproveTurn
<1>11. CASE getTicket(j)
  BY <1>6, <1>7, <1>11, GetTicketTurn
<1> QED BY <1>8, <1>9, <1>10, <1>11

LEMMA LookupKnows ==
  ASSUME TrackerInv, AllKnow, NEW j \in Job, Lookup(j)
  PROVE  AllKnow' /\ SentKept
<1> DEFINE t == job[j].todo[1][1]
           r == ticket[t].about
<1>1. UNCHANGED <<plugin, state, ticket, asked>>
  BY DEF Lookup
<1>2. /\ OthersKeep(j) /\ job[j].todo # <<>>
      /\ job[j].todo[1] \in asked /\ t \in Ticket /\ r \in Request
      /\ \/ /\ plugin = "jira" /\ ticket[t].mark \notin Decision
            /\ Finish(j) /\ Ends(j)
         \/ UNCHANGED webhooks /\ Moves(j, "checking", r, t)
         \/ Fail(j, {r}) /\ Ends(j)
  BY LookupTurn
<1>3. state[r] # "none"
  BY <1>2 DEF AllKnow, Announced
<1>4. CASE plugin = "jira" /\ ticket[t].mark \notin Decision /\ Finish(j) /\ Ends(j)
  <2>1. ticket[t].mark # "pending" /\ ticket[t] \in TicketState
    BY <1>2, <1>4 DEF AllKnow, MarksKnow, TrackerInv, TypeOK
  <2>2. ticket[t].mark = "expired"
    BY <1>4, <2>1 DEF TicketState
  <2>3. HeadSettled(j)
    BY <1>2, <2>2 DEF AllKnow, MarksKnow, HeadSettled, Settled
  <2> QED BY <1>1, <1>2, <1>4, <2>3, EndKnows
<1>5. CASE UNCHANGED webhooks /\ Moves(j, "checking", r, t)
  <2> HIDE DEF r
  <2>1. job[j].todo # <<>> /\ job[j].todo[1][1] = t
    BY <1>2
  <2> HIDE DEF t
  <2> QED BY <1>1, <1>2, <1>3, <1>5, <2>1, MoveKnows
<1>6. CASE Fail(j, {r}) /\ Ends(j)
  BY <1>1, <1>2, <1>6, EndKnows
<1> QED BY <1>2, <1>4, <1>5, <1>6

LEMMA CheckKnows ==
  ASSUME TrackerInv, AllKnow, NEW j \in Job, GetRequest(j) \/ getPluginData(j)
  PROVE  AllKnow' /\ SentKept
<1>1. UNCHANGED <<plugin, state, ticket, asked>>
  BY DEF GetRequest, getPluginData
<1>2. job[j].pc \in {"checking", "matching"} /\ OthersKeep(j)
  BY GetRequestTurn, GetPluginDataTurn
<1>3. job[j].req \in Request /\ state[job[j].req] # "none"
  BY <1>2, JobAnnounced
<1>4. job[j].hook # <<>> => job[j].todo # <<>> /\ job[j].todo[1][1] = job[j].ticket
  BY <1>2 DEF AllKnow, JobsKnow, JobKnows
<1>5. \/ (CallFails(j) \/ Refuse(j)) /\ Ends(j)
      \/ /\ state[job[j].req] \in Decision \union {"deleted"}
         /\ Finish(j) /\ Ends(j)
      \/ /\ UNCHANGED webhooks
         /\ \E pc \in {"matching", "setting"} : Moves(j, pc, job[j].req, job[j].ticket)
  BY GetRequestTurn, GetPluginDataTurn
<1>6. CASE (CallFails(j) \/ Refuse(j)) /\ Ends(j)
  BY <1>1, <1>2, <1>6, EndKnows
<1>7. CASE state[job[j].req] \in Decision \union {"deleted"} /\ Finish(j) /\ Ends(j)
  <2>1. HeadSettled(j)
    BY <1>2, <1>7, HeadAbout DEF Settled, Decision
  <2> QED BY <1>1, <1>2, <1>7, <2>1, EndKnows
<1>8. ASSUME UNCHANGED webhooks, NEW pc \in {"matching", "setting"},
             Moves(j, pc, job[j].req, job[j].ticket)
      PROVE  AllKnow' /\ SentKept
  BY <1>1, <1>2, <1>3, <1>4, <1>8, MoveKnows
<1> QED BY <1>5, <1>6, <1>7, <1>8

(***************************************************************************)
(* Steps that file, mark or close a ticket.                                *)
(***************************************************************************)
LEMMA NewTicketRecord ==
  ASSUME TrackerInv, NEW j \in Job, job[j].req \in Request, NewTicket(j)
  PROVE  /\ NextTicket \in Ticket /\ ticket[NextTicket] = NotFiled
         /\ ticket'[NextTicket] = [about |-> job[j].req, open |-> TRUE, mark |-> "pending"]
         /\ \A x \in Ticket \ {NextTicket} : ticket'[x] = ticket[x]
<1> DEFINE n == NextTicket
<1>1. n \in Ticket /\ ticket[n] = NotFiled
  BY FreeTicket
<1>2. ticket' = [ticket EXCEPT ![n].about = job[j].req, ![n].open = TRUE]
  BY DEF NewTicket
<1>3. ticket \in [Ticket -> TicketState]
  BY DEF TrackerInv, TypeOK
<1> HIDE DEF n
<1>4. /\ \A x \in Ticket \ {n} : ticket'[x] = ticket[x]
      /\ ticket'[n] = [about |-> job[j].req, open |-> TRUE, mark |-> "pending"]
  BY <1>1, <1>2, <1>3 DEF NotFiled, TicketState
<1> QED BY <1>1, <1>4 DEF n

LEMMA CreateTicketKnows ==
  ASSUME TrackerInv, AllKnow, NEW j \in Job, CreateTicket(j)
  PROVE  AllKnow' /\ SentKept
<1>1. UNCHANGED <<plugin, state, asked>>
  BY DEF CreateTicket
<1>2. /\ job[j].pc = "filing" /\ OthersKeep(j)
      /\ \/ CallFails(j) /\ Ends(j) /\ (UNCHANGED ticket \/ NewTicket(j))
         \/ /\ NewTicket(j) /\ UNCHANGED webhooks
            /\ \E pc \in {"indexing", "saving"} : Moves(j, pc, job[j].req, NextTicket)
  BY CreateTicketTurn
<1>3. job[j].req \in Request /\ state[job[j].req] # "none"
  BY <1>2, JobAnnounced
<1>4. CASE CallFails(j) /\ Ends(j) /\ UNCHANGED ticket
  BY <1>1, <1>2, <1>4, EndKnows
<1>5. CASE NewTicket(j)
  <2>1. /\ AboutsLast
        /\ \A t \in Ticket : \/ ticket'[t].about = ticket[t].about
                             \/ ticket'[t].about = job[j].req
    BY <1>3, <1>5, FilingLasts DEF AboutsLast
  <2>2. StatesProgress
    BY <1>1 DEF StatesProgress
  <2>3. PICK n \in Ticket :
          /\ ticket[n] = NotFiled
          /\ ticket'[n] = [about |-> job[j].req, open |-> TRUE, mark |-> "pending"]
          /\ \A t \in Ticket \ {n} : ticket'[t] = ticket[t]
    BY <1>3, <1>5, NewTicketRecord
  <2>4. ticket[n].mark = "pending" /\ ticket'[n].mark = "pending"
    BY <2>3 DEF NotFiled
  <2>5. \A t \in Ticket : ticket'[t].mark = ticket[t].mark
    BY <2>3, <2>4
  <2>6. \A t \in Ticket : ticket[t].mark = "expired" /\ ~ticket[t].open => ~ticket'[t].open
    BY <2>3, <2>4
  <2>7. MarksKnow'
    BY <1>1, <2>1, <2>2, <2>5, <2>6, MarksPersist DEF AllKnow
  <2>8. CASE CallFails(j) /\ Ends(j)
    BY <1>1, <1>2, <2>1, <2>7, <2>8, EndStepKnows
  <2>9. ASSUME UNCHANGED webhooks, NEW pc \in {"indexing", "saving"},
               Moves(j, pc, job[j].req, NextTicket)
        PROVE  AllKnow' /\ SentKept
    <3>1. JobKnows(job'[j], state', ticket', plugin)
      BY <1>1, <2>1, <2>9, MovesKnows DEF AllKnow
    <3>2. AllKnow'
      BY <1>1, <1>2, <1>3, <2>1, <2>7, <2>9, <3>1, JobStepKnows
    <3> QED BY <2>9, <3>2, SentStays
  <2> QED BY <1>2, <2>8, <2>9
<1> QED BY <1>2, <1>4, <1>5

LEMMA ExpireTicketKnows ==
  ASSUME TrackerInv, AllKnow, NEW j \in Job, ExpireTicket(j)
  PROVE  AllKnow' /\ SentKept
<1> DEFINE t == job[j].ticket
           r == job[j].req
<1>1. UNCHANGED <<plugin, state, asked>>
  BY DEF ExpireTicket
<1>2. /\ job[j].pc = "expiring" /\ OthersKeep(j) /\ Ends(j)
      /\ \/ CallFails(j) /\ (UNCHANGED ticket \/ MarkExpired(t))
         \/ Fail(j, {r}) /\ UNCHANGED ticket
         \/ MarkExpired(t) /\ Finish(j)
  BY ExpireTicketTurn
<1>3. HeadSettled(j)
  BY <1>2, EventHead DEF EventPC
<1>4. CASE UNCHANGED ticket
  BY <1>1, <1>2, <1>3, <1>4, EndKnows
<1>5. CASE MarkExpired(t)
  <2>1. /\ r \in Request /\ state[r] = "deleted"
        /\ t \in Ticket /\ ticket[t].about = r
    BY <1>2, BusyJob DEF TicketPC, AllKnow, JobsKnow, JobKnows
  <2>2. /\ \A x \in Ticket : ticket'[x].about = ticket[x].about
        /\ \A x \in Ticket \ {t} : ticket'[x] = ticket[x]
        /\ plugin # "jira" => ticket'[t].open = FALSE
        /\ ticket'[t].mark = IF plugin = "pagerduty" THEN ticket[t].mark ELSE "expired"
    BY <1>5, <2>1, AboutSame, MarkExpiredTicket
  <2>3. plugin = "jira" => \A m \in asked : ticket'[m[1]].mark # "pending"
    BY <2>2, AskedAbout DEF AllKnow, MarksKnow
  <2>4. \A x \in Ticket : ticket'[x].mark = "expired" =>
          /\ ticket[x].about \in Request /\ state[ticket[x].about] = "deleted"
          /\ plugin = "gitlab" => ~ticket'[x].open
    BY <2>1, <2>2 DEF AllKnow, MarksKnow
  <2>5. MarksKnow'
    BY <1>1, <2>2, <2>3, <2>4 DEF MarksKnow
  <2>6. AboutsLast
    BY <2>2 DEF AboutsLast
  <2> QED BY <1>1, <1>2, <1>3, <2>2, <2>5, <2>6, EndStepKnows
<1> QED BY <1>2, <1>4, <1>5

LEMMA CloseTicketKnows ==
  ASSUME TrackerInv, AllKnow, NEW j \in Job, CloseTicket(j)
  PROVE  AllKnow' /\ SentKept
<1> DEFINE t == job[j].ticket
<1>1. UNCHANGED <<plugin, state, asked>>
  BY DEF CloseTicket
<1>2. /\ job[j].pc = "closing" /\ OthersKeep(j) /\ Ends(j)
      /\ CallFails(j) \/ Finish(j)
      /\ UNCHANGED ticket \/ Close(t)
  BY CloseTicketTurn
<1>3. HeadSettled(j)
  BY <1>2, HeadAbout DEF AllKnow, JobsKnow, JobKnows
<1>4. CASE UNCHANGED ticket
  BY <1>1, <1>2, <1>3, <1>4, EndKnows
<1>5. CASE Close(t)
  <2>1. t \in Ticket
    BY <1>2, BusyJob DEF TicketPC
  <2>2. /\ \A x \in Ticket : ticket'[x].about = ticket[x].about
        /\ \A x \in Ticket : ticket'[x].mark = ticket[x].mark
        /\ \A x \in Ticket : ~ticket[x].open => ~ticket'[x].open
    BY <1>5, <2>1, AboutSame, CloseOneTicket
  <2>3. AboutsLast /\ StatesProgress
    BY <1>1, <2>2 DEF AboutsLast, StatesProgress
  <2>4. MarksKnow'
    BY <1>1, <2>2, <2>3, MarksPersist DEF AllKnow
  <2> QED BY <1>1, <1>2, <1>3, <2>2, <2>3, <2>4, EndStepKnows
<1> QED BY <1>2, <1>4, <1>5

(***************************************************************************)
(* The decision.                                                           *)
(***************************************************************************)
LEMMA SetRequestStateKnows ==
  ASSUME TrackerInv, AllKnow, NEW j \in Job, SetRequestState(j)
  PROVE  AllKnow' /\ SentKept
<1> DEFINE q == job[j]
           r == q.req
           w == q.hook
<1>1. UNCHANGED <<plugin, ticket, asked>>
  BY DEF SetRequestState
<1>2. /\ q.pc = "setting" /\ OthersAlike(j)
      /\ \/ (CallFails(j) \/ Refuse(j)) /\ Ends(j) /\ UNCHANGED state
         \/ /\ state[r] # "deleted"
            /\ \E d \in Decision : state' = [state EXCEPT ![r] = d]
            /\ \/ /\ plugin # "jira" /\ UNCHANGED webhooks
                  /\ Moves(j, "closing", r, q.ticket)
               \/ /\ plugin = "jira"
                  /\ job'[j] = Idle /\ webhooks' = webhooks \ {w}
               \/ /\ Blame({r} \union LostWith(w))
                  /\ job'[j] = Idle /\ webhooks' \in {webhooks, webhooks \ {w}}
  BY SetRequestStateTurn
<1>3. r \in Request /\ state[r] # "none"
  BY <1>2, JobAnnounced
<1>4. /\ w # <<>> => q.todo # <<>> /\ q.todo[1][1] = q.ticket
      /\ \A i \in DOMAIN w : \/ \E n \in DOMAIN q.todo : q.todo[n] = w[i]
                             \/ Settled(state[ticket[w[i][1]].about])
      /\ plugin = "jira" => Len(q.todo) <= 1
  BY <1>2 DEF AllKnow, JobsKnow, JobKnows
<1>5. AboutsLast
  BY <1>1 DEF AboutsLast
<1>6. CASE (CallFails(j) \/ Refuse(j)) /\ Ends(j) /\ UNCHANGED state
  <2>1. OthersKeep(j)
    BY <1>6, RefuseEnds
  <2> QED BY <1>1, <1>6, <2>1, EndKnows
<1>7. ASSUME state[r] # "deleted", NEW d \in Decision, state' = [state EXCEPT ![r] = d],
             \/ /\ plugin # "jira" /\ UNCHANGED webhooks
                /\ Moves(j, "closing", r, q.ticket)
             \/ /\ plugin = "jira"
                /\ job'[j] = Idle /\ webhooks' = webhooks \ {w}
             \/ /\ Blame({r} \union LostWith(w))
                /\ job'[j] = Idle /\ webhooks' \in {webhooks, webhooks \ {w}}
      PROVE  AllKnow' /\ SentKept
  <2>1. state'[r] = d /\ Settled(d) /\ \A x \in Request \ {r} : state'[x] = state[x]
    BY <1>3, <1>7 DEF TrackerInv, TypeOK, Settled, Decision
  <2>2. StatesProgress
    BY <1>3, <1>7, <2>1 DEF StatesProgress, Settled
  <2>3. MarksKnow' /\ HooksKnow'
    <3>1. webhooks' \subseteq webhooks
      BY <1>7
    <3> QED BY <1>1, <1>5, <2>2, <3>1, MarksPersist DEF AllKnow, HooksKnow
  <2>4. /\ JobKnows(job'[j], state', ticket', plugin)
        /\ job'[j].req \in Request => state'[job'[j].req] # "none"
    <3>1. CASE job'[j] = Idle
      <4>1. JobKnows(job'[j], state', ticket', plugin)
        BY <3>1, IdleKnows
      <4>2. job'[j].req \notin Request
        BY <3>1, TrackerAssumption DEF Idle
      <4> QED BY <4>1, <4>2
    <3>2. CASE Moves(j, "closing", r, q.ticket)
      <4>1. /\ job'[j].pc = "closing" /\ job'[j].req = r /\ job'[j].ticket = q.ticket
            /\ job'[j].hook = q.hook /\ job'[j].todo = q.todo
        BY <3>2 DEF Moves
      <4>2. JobKnows(job'[j], state', ticket', plugin)
        BY <1>4, <1>5, <2>1, <2>2, <4>1, RecordKnows DEF AllKnow
      <4>3. state'[r] # "none"
        BY <1>3, <2>2 DEF StatesProgress
      <4> QED BY <4>1, <4>2, <4>3
    <3> QED BY <1>7, <3>1, <3>2
  <2>5. AllKnow'
    BY <1>1, <1>2, <1>5, <2>2, <2>3, <2>4, StepKnows DEF OthersAlike
  <2>6. SentKept
    <3>1. CASE UNCHANGED webhooks
      BY <3>1, SentStays
    <3>2. CASE plugin = "jira" /\ webhooks' = webhooks \ {w}
      <4>1. ASSUME NEW i \in DOMAIN w
            PROVE  LET x == ticket[w[i][1]].about IN
                   state[x] # "pending" \/ state'[x] # "pending"
        <5>1. CASE Settled(state[ticket[w[i][1]].about])
          BY <5>1 DEF Settled
        <5>2. ASSUME NEW n \in DOMAIN q.todo, q.todo[n] = w[i]
              PROVE  state'[ticket[w[i][1]].about] # "pending"
          <6>1. q.todo \in Seq(Message) /\ q.ticket \in Ticket /\ ticket[q.ticket].about = r
            BY <1>2, BusyJob DEF JobState, TicketPC
          <6>2. n = 1
            BY <1>4, <3>2, <5>2, <6>1
          <6>3. w # <<>>
            BY <4>1
          <6> QED BY <1>4, <2>1, <5>2, <6>1, <6>2, <6>3 DEF Settled
        <5> QED BY <1>4, <4>1, <5>1, <5>2
      <4> QED BY <3>2, <4>1, SentStays
    <3>3. CASE Blame({r} \union LostWith(w)) /\ webhooks' \in {webhooks, webhooks \ {w}}
      <4>1. \A i \in DOMAIN w : LET x == ticket[w[i][1]].about IN
              state[x] # "pending" \/ x \in excused'
        BY <3>3 DEF Blame, LostWith, AboutOf
      <4> QED BY <3>3, <4>1, SentStays
    <3> QED BY <1>7, <3>1, <3>2, <3>3
  <2> QED BY <2>5, <2>6
<1> QED BY <1>2, <1>6, <1>7

LEMMA JobStepsKnow ==
  ASSUME TrackerInv, AllKnow, NEW j \in Job, JobStep(j)
  PROVE  AllKnow' /\ SentKept
BY CreateTicketKnows, PlainEventKnows, ExpireTicketKnows, LookupKnows, CheckKnows,
   SetRequestStateKnows, CloseTicketKnows
   DEF JobStep

(***************************************************************************)
(* The steps of the environment.                                           *)
(***************************************************************************)
LEMMA AuthServerKnows ==
  ASSUME TrackerInv, AllKnow, NEW r \in Request, AuthServer(r)
  PROVE  AllKnow' /\ SentKept
<1>1. UNCHANGED <<plugin, ticket, asked, webhooks>>
  BY DEF AuthServer, Pend, Delete, ResolveElsewhere, ExpireData, Change, hooks
<1>2. SentKept /\ AboutsLast
  BY <1>1, SentStays DEF AboutsLast
<1>3. ASSUME NEW to \in Decision \union {"pending", "deleted"}, state' = [state EXCEPT ![r] = to],
             state[r] # "deleted", to = "pending" => ~Settled(state[r])
      PROVE  StatesProgress /\ state'[r] = to /\ \A x \in Request \ {r} : state'[x] = state[x]
  BY <1>3 DEF TrackerInv, TypeOK, StatesProgress, Settled, Decision
<1>4. ASSUME StatesProgress,
             \A i \in Job :
               \/ Alike(job'[i], job[i])
               \/ \E pc \in {"filing", "reading"} :
                    /\ job'[i] = EventJob(r, pc) /\ state'[r] # "none"
                    /\ pc = "reading" => state'[r] = "deleted"
      PROVE  AllKnow'
  <2>1. MarksKnow' /\ HooksKnow'
    BY <1>1, <1>2, <1>4, MarksPersist DEF AllKnow, HooksKnow
  <2>2. ASSUME NEW i \in Job, NEW pc \in {"filing", "reading"},
               job'[i] = EventJob(r, pc), state'[r] # "none",
               pc = "reading" => state'[r] = "deleted"
        PROVE  /\ JobKnows(job'[i], state', ticket', plugin)
               /\ job'[i].req \in Request => state'[job'[i].req] # "none"
    <3>1. /\ job'[i].pc = pc /\ job'[i].req = r
          /\ job'[i].hook = <<>> /\ job'[i].todo = <<>>
      BY <2>2, EventRecord
    <3> QED BY <2>2, <3>1, FreshKnows
  <2> QED BY <1>1, <1>2, <1>4, <2>1, <2>2, StepKnows
<1>5. CASE Pend(r)
  <2>1. StatesProgress /\ state'[r] = "pending"
    BY <1>3, <1>5 DEF Pend, Change, Settled
  <2>2. onWatcherEvent(r, "filing")
    BY <1>5 DEF Pend
  <2>3. \A i \in Job : Alike(job'[i], job[i]) \/ job'[i] = EventJob(r, "filing")
    BY <2>2, EventTurn DEF OthersAlike
  <2> QED BY <1>2, <1>4, <2>1, <2>3
<1>6. CASE Delete(r)
  <2>1. StatesProgress /\ state'[r] = "deleted"
    BY <1>3, <1>6 DEF Delete, Change
  <2>2. onWatcherEvent(r, "reading")
    BY <1>6 DEF Delete
  <2>3. \A i \in Job : Alike(job'[i], job[i]) \/ job'[i] = EventJob(r, "reading")
    BY <2>2, EventTurn DEF OthersAlike
  <2> QED BY <1>2, <1>4, <2>1, <2>3
<1>7. ASSUME NEW d \in Decision, ResolveElsewhere(r, d)
      PROVE  AllKnow' /\ SentKept
  <2>1. StatesProgress
    BY <1>3, <1>7 DEF ResolveElsewhere, Change, Decision
  <2>2. job' = Outdate(r)
    BY <1>7 DEF ResolveElsewhere
  <2>3. \A i \in Job : Alike(job'[i], job[i])
    BY <2>2, OutdateAlike
  <2> QED BY <1>2, <1>4, <2>1, <2>3
<1>8. CASE ExpireData(r)
  <2>1. StatesProgress /\ \A i \in Job : Alike(job'[i], job[i])
    BY <1>8 DEF ExpireData, StatesProgress, Alike
  <2> QED BY <1>2, <1>4, <2>1
<1> QED BY <1>5, <1>6, <1>7, <1>8 DEF AuthServer

LEMMA DecideKnows ==
  ASSUME TrackerInv, AllKnow, NEW t \in Ticket, NEW d \in Decision, Decide(t, d)
  PROVE  AllKnow' /\ SentKept
<1> DEFINE w == << <<t, d>> >>
<1>1. /\ UNCHANGED <<plugin, state, job>>
      /\ plugin # "pagerduty" => ticket[t].mark # "expired"
      /\ asked' = asked \union {<<t, d>>}
      /\ webhooks' = webhooks \union {w}
  BY DEF Decide
<1>2. /\ \A x \in Ticket : ticket'[x].about = ticket[x].about
      /\ \A x \in Ticket \ {t} : ticket'[x] = ticket[x]
      /\ ticket'[t].open = ticket[t].open
      /\ ticket'[t].mark = IF plugin = "pagerduty" THEN ticket[t].mark ELSE d
  BY AboutSame, DecideTicket
<1>3. StatesProgress /\ AboutsLast
  BY <1>1, <1>2 DEF StatesProgress, AboutsLast
<1>4. MarksKnow'
  <2>1. d \notin {"pending", "expired"}
    BY DEF Decision
  <2>2. plugin = "jira" => \A m \in asked' : ticket'[m[1]].mark # "pending"
    BY <1>1, <1>2, <2>1, AskedAbout DEF AllKnow, MarksKnow
  <2>3. \A x \in Ticket : ticket'[x].mark = "expired" =>
          /\ ticket'[x].about \in Request /\ state[ticket'[x].about] = "deleted"
          /\ plugin = "gitlab" => ~ticket'[x].open
    BY <1>1, <1>2, <2>1 DEF AllKnow, MarksKnow
  <2> QED BY <1>1, <2>2, <2>3 DEF MarksKnow
<1>5. HooksKnow'
  BY <1>1 DEF AllKnow, HooksKnow
<1>6. \A i \in Job : Alike(job'[i], job[i])
  BY <1>1 DEF Alike
<1>7. SentKept
  BY <1>1, SentStays
<1> QED BY <1>1, <1>2, <1>3, <1>4, <1>5, <1>6, <1>7, StepKnows

LEMMA DeliverKnows ==
  ASSUME TrackerInv, AllKnow, NEW w \in webhooks, Deliver(w)
  PROVE  AllKnow' /\ SentKept
<1>1. UNCHANGED <<plugin, state, ticket, asked, webhooks>>
  BY DEF Deliver, hooks
<1>2. FreeJob \in Job
  BY FreeJobIsIdle DEF Deliver
<1>3. job'[FreeJob] = Delivered(w, w) /\ OthersKeep(FreeJob)
  BY <1>2, JobBecomes DEF Deliver
<1>4. /\ Delivered(w, w).pc = "lookup" /\ Delivered(w, w).req = Nobody
      /\ Delivered(w, w).hook = w /\ Delivered(w, w).todo = w
  BY DEF Delivered, Idle
<1>5. plugin = "jira" => Len(w) <= 1
  <2>1. plugin = "jira" => Len(w) = 1
    BY DEF AllKnow, HooksKnow
  <2>2. \A n : n = 1 => n <= 1
    OBVIOUS
  <2> QED BY <2>1, <2>2
<1>6. JobKnows(Delivered(w, w), state', ticket', plugin)
  BY <1>4, <1>5 DEF JobKnows
<1>7. StatesProgress /\ AboutsLast
  BY <1>1 DEF StatesProgress, AboutsLast
<1>8. MarksKnow' /\ HooksKnow'
  BY <1>1, <1>7, MarksPersist DEF AllKnow, HooksKnow
<1>9. \A i \in Job :
        \/ Alike(job'[i], job[i])
        \/ /\ JobKnows(job'[i], state', ticket', plugin)
           /\ job'[i].req \in Request => state'[job'[i].req] # "none"
  BY <1>2, <1>3, <1>4, <1>6, KeepAlike, TrackerAssumption DEF OthersAlike
<1> QED BY <1>1, <1>7, <1>8, <1>9, StepKnows, SentStays

LEMMA BatchKnows ==
  ASSUME TrackerInv, AllKnow, NEW w1 \in webhooks, NEW w2 \in webhooks, Batch(w1, w2)
  PROVE  AllKnow' /\ SentKept
<1>1. /\ UNCHANGED <<plugin, state, ticket, asked, job>>
      /\ plugin = "pagerduty"
      /\ webhooks' = (webhooks \ {w1, w2}) \union {w1 \o w2}
      /\ Len(w1) = 1 /\ Len(w2) = 1
  BY DEF Batch
<1>2. StatesProgress /\ AboutsLast
  BY <1>1 DEF StatesProgress, AboutsLast
<1>3. MarksKnow' /\ HooksKnow'
  BY <1>1, <1>2, MarksPersist DEF AllKnow, HooksKnow
<1>4. \A i \in Job : Alike(job'[i], job[i])
  BY <1>1 DEF Alike
<1>5. AllKnow'
  BY <1>1, <1>2, <1>3, <1>4, StepKnows
<1>6. SentKept
  <2>1. w1 \in Seq(Message) /\ w2 \in Seq(Message)
    BY DEF TrackerInv, TypeOK
  <2>2. /\ DOMAIN w1 = {1} /\ DOMAIN w2 = {1}
        /\ DOMAIN (w1 \o w2) = {1, 2}
        /\ (w1 \o w2)[1] = w1[1] /\ (w1 \o w2)[2] = w2[1]
    BY <1>1, <2>1, TwoMessages
  <2>3. w1 \o w2 \in webhooks' /\ webhooks \ {w1, w2} \subseteq webhooks'
    BY <1>1
  <2>4. ASSUME NEW m, Sent(m)
        PROVE  Sent(m)'
    <3>1. PICK w \in webhooks : \E i \in DOMAIN w : w[i] = m
      BY <2>4 DEF Sent
    <3>2. CASE w = w1
      <4>1. 1 \in DOMAIN (w1 \o w2) /\ (w1 \o w2)[1] = m
        BY <2>2, <3>1, <3>2
      <4> QED BY <2>3, <4>1 DEF Sent
    <3>3. CASE w = w2
      <4>1. 2 \in DOMAIN (w1 \o w2) /\ (w1 \o w2)[2] = m
        BY <2>2, <3>1, <3>3
      <4> QED BY <2>3, <4>1 DEF Sent
    <3>4. CASE w \notin {w1, w2}
      BY <2>3, <3>1, <3>4 DEF Sent
    <3> QED BY <3>2, <3>3, <3>4
  <2> QED BY <2>4 DEF SentKept
<1> QED BY <1>5, <1>6

LEMMA CrashKnows ==
  ASSUME TrackerInv, AllKnow, Crash
  PROVE  AllKnow' /\ SentKept
<1>1. UNCHANGED <<plugin, state, ticket, asked>> /\ \A i \in Job : job'[i] = Idle
  BY DEF Crash
<1>2. PICK lost \in SUBSET webhooks :
        /\ webhooks' = webhooks \ lost
        /\ Blame({r \in Request : Active(r) # {} \/ \E w \in lost : r \in LostWith(w)})
  BY DEF Crash
<1>3. StatesProgress /\ AboutsLast
  BY <1>1 DEF StatesProgress, AboutsLast
<1>4. MarksKnow' /\ HooksKnow'
  BY <1>1, <1>2, <1>3, MarksPersist DEF AllKnow, HooksKnow
<1>5. \A i \in Job : /\ JobKnows(job'[i], state', ticket', plugin)
                     /\ job'[i].req \notin Request
  <2>1. Idle.req \notin Request
    BY TrackerAssumption DEF Idle
  <2> QED BY <1>1, <2>1, IdleKnows
<1>6. AllKnow'
  BY <1>1, <1>3, <1>4, <1>5, StepKnows
<1>7. ASSUME NEW w \in lost, NEW i \in DOMAIN w
      PROVE  LET r == ticket[w[i][1]].about IN state[r] # "pending" \/ r \in excused'
  <2>1. ticket[w[i][1]].about \in Request
    BY AskedAbout DEF TrackerInv, HooksAsked
  <2> QED BY <1>2, <2>1 DEF Blame, LostWith, AboutOf
<1>8. SentKept
  BY <1>2, <1>7, SentStays
<1> QED BY <1>6, <1>8

LEMMA InitKnows ==
  ASSUME Init
  PROVE  AllKnow
<1>1. JobsKnow
  BY IdleKnows DEF Init, JobsKnow
<1>2. MarksKnow /\ HooksKnow
  BY DEF Init, MarksKnow, HooksKnow, NotFiled
<1>3. Announced
  BY TrackerAssumption DEF Init, Announced, NotFiled, Idle
<1> QED BY <1>1, <1>2, <1>3 DEF AllKnow

LEMMA NextKnows ==
  ASSUME TrackerInv, AllKnow, Next
  PROVE  AllKnow' /\ SentKept
BY AuthServerKnows, DecideKnows, DeliverKnows, BatchKnows, JobStepsKnow, CrashKnows
   DEF Next, Sender, Redeliver

-----------------------------------------------------------------------------
(***************************************************************************)
(* CarriedOutOrExcused: what holds of a request while nothing went wrong   *)
(* for it, and which step still to come does what is not done yet.         *)
(***************************************************************************)
Filing(r) == \E j \in Job : job[j].req = r /\ job[j].pc = "filing"
Preparing(r) ==
  \E j \in Job : job[j].req = r /\ job[j].pc \in {"filing", "indexing", "saving"}
Deciding(r) == \E j \in Job : job[j].req = r /\ job[j].pc \in {"setting", "closing"}
Expiring(r) == \E j \in Job : job[j].req = r /\ job[j].pc \in {"reading", "expiring"}
Closing(t) == \E j \in Job : job[j].ticket = t /\ job[j].pc = "closing"

\* The parts of what holds of a request while nothing went wrong for it.
OneEventJob(r) == \A i, j \in EventJobs(r) : i = j
OneTicket(r) ==
  state[r] # "none" =>
    IF Filing(r) THEN TicketsOf(r) = {} ELSE \E t \in Ticket : TicketsOf(r) = {t}
DataSaved(r) ==
  IF Preparing(r)
    THEN state[r] = "pending" /\ pluginData[r] = NoTicket /\ ~Deciding(r)
    ELSE state[r] # "none" => pluginData[r] # NoTicket
DecisionsSent(r) ==
  state[r] = "pending" =>
    \A m \in asked : ticket[m[1]].about = r => Sent(m)
TicketsClosed(r) ==
  Settled(state[r]) /\ plugin # "jira" =>
    \A t \in TicketsOf(r) : ~ticket[t].open \/ Closing(t) \/ Expiring(r)
TicketsMarked(r) ==
  state[r] = "deleted" /\ plugin # "pagerduty" =>
    \A t \in TicketsOf(r) : ticket[t].mark = "expired" \/ Expiring(r)

Clean(r) ==
  /\ OneEventJob(r) /\ OneTicket(r) /\ DataSaved(r)
  /\ DecisionsSent(r) /\ TicketsClosed(r) /\ TicketsMarked(r)

CleanOrExcused == \A r \in Request \ excused : Clean(r)

(***************************************************************************)
(* A request stays clean while its tickets, its jobs and the webhooks it   *)
(* waits for change in these ways only.                                    *)
(***************************************************************************)
JobsFrame(r) ==
  /\ EventJobs(r)' \subseteq EventJobs(r)
  /\ Filing(r)' <=> Filing(r)
  /\ Preparing(r)' <=> Preparing(r)
  /\ Deciding(r)' => Deciding(r) \/ ~Preparing(r)
  /\ Expiring(r) => Expiring(r)'
  /\ \A t \in TicketsOf(r) : Closing(t) => Closing(t)' \/ ~ticket'[t].open

TicketsFrame(r) ==
  /\ TicketsOf(r)' = TicketsOf(r)
  /\ \A t \in TicketsOf(r) :
       /\ ~ticket[t].open => ~ticket'[t].open
       /\ ticket[t].mark = "expired" => ticket'[t].mark = "expired"

LEMMA CleanPersists ==
  ASSUME NEW r \in Request, Clean(r), JobsFrame(r), TicketsFrame(r), DecisionsSent(r)',
         state'[r] = state[r], pluginData'[r] = pluginData[r], plugin' = plugin
  PROVE  Clean(r)'
<1>1. OneEventJob(r)'
  BY DEF Clean, OneEventJob, JobsFrame
<1>2. OneTicket(r)'
  BY DEF Clean, OneTicket, JobsFrame, TicketsFrame
<1>3. DataSaved(r)'
  BY DEF Clean, DataSaved, JobsFrame
<1>4. TicketsClosed(r)'
  BY DEF Clean, TicketsClosed, JobsFrame, TicketsFrame
<1>5. TicketsMarked(r)'
  BY DEF Clean, TicketsMarked, JobsFrame, TicketsFrame
<1> QED BY <1>1, <1>2, <1>3, <1>4, <1>5 DEF Clean

(***************************************************************************)
(* Jobs of other requests, and jobs that only change in what is not of     *)
(* interest here.                                                          *)
(***************************************************************************)
LEMMA OtherJobsFrame ==
  ASSUME TrackerInv, NEW r \in Request,
         \A i \in Job : \/ Alike(job'[i], job[i])
                        \/ job[i].req # r /\ job'[i].req # r
  PROVE  JobsFrame(r)
<1>1. EventJobs(r)' \subseteq EventJobs(r)
  BY DEF EventJobs, Active, Alike
<1>2. Filing(r)' <=> Filing(r)
  BY DEF Filing, Alike
<1>3. Preparing(r)' <=> Preparing(r)
  BY DEF Preparing, Alike
<1>4. Deciding(r)' => Deciding(r)
  BY DEF Deciding, Alike
<1>5. Expiring(r) => Expiring(r)'
  BY DEF Expiring, Alike
<1>6. ASSUME NEW t \in TicketsOf(r), Closing(t)
      PROVE  Closing(t)'
  <2>1. PICK i \in Job : job[i].ticket = t /\ job[i].pc = "closing"
    BY <1>6 DEF Closing
  <2>2. job[i].req = r
    BY <2>1, BusyJob DEF TicketPC, TicketsOf
  <2>3. job'[i].ticket = t /\ job'[i].pc = "closing"
    BY <2>1, <2>2 DEF Alike
  <2> QED BY <2>3 DEF Closing
<1> QED BY <1>1, <1>2, <1>3, <1>4, <1>5, <1>6 DEF JobsFrame

LEMMA OwnJobFrame ==
  ASSUME TrackerInv, NEW r \in Request, NEW j \in Job, OthersAlike(j),
         job'[j].req = r /\ job'[j].hook = <<>> => job[j].req = r /\ job[j].hook = <<>>,
         (job'[j].req = r /\ job'[j].pc = "filing") <=> (job[j].req = r /\ job[j].pc = "filing"),
         (job'[j].req = r /\ job'[j].pc \in {"filing", "indexing", "saving"})
           <=> (job[j].req = r /\ job[j].pc \in {"filing", "indexing", "saving"}),
         job'[j].req = r /\ job'[j].pc \in {"setting", "closing"} =>
           \/ job[j].req = r /\ job[j].pc \in {"setting", "closing"}
           \/ ~Preparing(r),
         job[j].req = r /\ job[j].pc \in {"reading", "expiring"} =>
           job'[j].req = r /\ job'[j].pc \in {"reading", "expiring"},
         job[j].req = r /\ job[j].pc = "closing" =>
           \/ job'[j].ticket = job[j].ticket /\ job'[j].pc = "closing"
           \/ ~ticket'[job[j].ticket].open
  PROVE  JobsFrame(r)
<1>1. EventJobs(r)' \subseteq EventJobs(r)
  BY DEF EventJobs, Active, Alike, OthersAlike
<1>2. Filing(r)' <=> Filing(r)
  BY DEF Filing, Alike, OthersAlike
<1>3. Preparing(r)' <=> Preparing(r)
  BY DEF Preparing, Alike, OthersAlike
<1>4. Deciding(r)' => Deciding(r) \/ ~Preparing(r)
  BY DEF Deciding, Alike, OthersAlike
<1>5. Expiring(r) => Expiring(r)'
  BY DEF Expiring, Alike, OthersAlike
<1>6. ASSUME NEW t \in TicketsOf(r), Closing(t)
      PROVE  Closing(t)' \/ ~ticket'[t].open
  <2>1. PICK i \in Job : job[i].ticket = t /\ job[i].pc = "closing"
    BY <1>6 DEF Closing
  <2>2. job[i].req = r
    BY <2>1, BusyJob DEF TicketPC, TicketsOf
  <2>3. \/ job'[i].ticket = t /\ job'[i].pc = "closing"
        \/ ~ticket'[t].open
    BY <2>1, <2>2 DEF Alike, OthersAlike
  <2> QED BY <2>3 DEF Closing
<1> QED BY <1>1, <1>2, <1>3, <1>4, <1>5, <1>6 DEF JobsFrame

LEMMA TicketsSame ==
  ASSUME NEW r, \A t \in Ticket : ticket'[t].about = ticket[t].about,
         \A t \in TicketsOf(r) :
           /\ ~ticket[t].open => ~ticket'[t].open
           /\ ticket[t].mark = "expired" => ticket'[t].mark = "expired"
  PROVE  TicketsFrame(r)
BY DEF TicketsFrame, TicketsOf

LEMMA SentPersists ==
  ASSUME TrackerInv, NEW r \in Request, DecisionsSent(r), SentKept, r \notin excused',
         asked' = asked, AboutsLast, state'[r] = state[r]
  PROVE  DecisionsSent(r)'
<1> SUFFICES ASSUME state'[r] = "pending", NEW m \in asked, ticket'[m[1]].about = r
             PROVE  Sent(m)'
  BY DEF DecisionsSent
<1>1. m[1] \in Ticket /\ ticket[m[1]].about \in Request
  BY AskedAbout
<1>2. ticket[m[1]].about = r
  BY <1>1, TrackerAssumption DEF AboutsLast
<1> QED BY <1>2 DEF DecisionsSent, SentKept

(***************************************************************************)
(* The single ticket and the single event job of a clean request.          *)
(***************************************************************************)
LEMMA CleanEventJob ==
  ASSUME TrackerInv, NEW r \in Request, Clean(r), NEW j \in Job,
         job[j].req = r, job[j].pc \in EventPC \/ job[j].hook = <<>>
  PROVE  /\ \A i \in Job : job[i].req = r /\ job[i].hook = <<>> => i = j
         /\ \A i \in Job : job[i].req = r /\ job[i].pc \in EventPC => i = j
<1>1. job[j].hook = <<>>
  BY BusyJob
<1>2. \A i \in Job : job[i].req = r /\ job[i].hook = <<>> => i = j
  BY <1>1 DEF Clean, OneEventJob, EventJobs, Active
<1>3. \A i \in Job : job[i].pc \in EventPC => job[i].hook = <<>>
  BY BusyJob
<1> QED BY <1>2, <1>3

LEMMA CleanTicket ==
  ASSUME NEW r \in Request, Clean(r), NEW t \in TicketsOf(r), state[r] # "none"
  PROVE  TicketsOf(r) = {t} /\ ~Filing(r)
BY DEF Clean, OneTicket

(***************************************************************************)
(* A step that leaves a request, its tickets and its jobs alone.           *)
(***************************************************************************)
LEMMA UntouchedClean ==
  ASSUME TrackerInv, NEW r \in Request, Clean(r), SentKept, r \notin excused',
         UNCHANGED <<plugin, asked>>, AboutsLast, TicketsFrame(r),
         state'[r] = state[r], pluginData'[r] = pluginData[r],
         \A i \in Job : \/ Alike(job'[i], job[i])
                        \/ job[i].req # r /\ job'[i].req # r
  PROVE  Clean(r)'
BY OtherJobsFrame, SentPersists, CleanPersists DEF Clean

LEMMA NoTicketLeft ==
  ASSUME TrackerInv, AllKnow, NEW r \in Request, Clean(r), EventJobs(r) = {}
  PROVE  /\ ~Filing(r) /\ ~Preparing(r)
         /\ TicketsOf(r) = {} => state[r] = "none" /\ Active(r) = {} /\ pluginData[r] = NoTicket
<1>1. ~Preparing(r)
  BY BusyJob DEF Preparing, EventJobs, Active, EventPC
<1>2. ~Filing(r)
  BY <1>1 DEF Filing, Preparing
<1>3. ASSUME TicketsOf(r) = {}
      PROVE  state[r] = "none" /\ Active(r) = {} /\ pluginData[r] = NoTicket
  <2>1. state[r] = "none"
    BY <1>2, <1>3 DEF Clean, OneTicket
  <2>2. Active(r) = {}
    BY <2>1 DEF AllKnow, Announced, Active
  <2>3. pluginData[r] = NoTicket
    BY <1>3 DEF TrackerInv, TypeOK, StoresOwn, TicketsOf
  <2> QED BY <2>1, <2>2, <2>3
<1> QED BY <1>1, <1>2, <1>3

(***************************************************************************)
(* The first event of a request, and its deletion.                         *)
(***************************************************************************)
LEMMA PendClean ==
  ASSUME TrackerInv, AllKnow, NEW r \in Request, Pend(r), Clean(r), r \notin excused'
  PROVE  Clean(r)'
<1>1. /\ state' = [state EXCEPT ![r] = "pending"]
      /\ UNCHANGED <<plugin, pluginData, ticket, asked, webhooks>>
      /\ onWatcherEvent(r, "filing")
  BY DEF Pend, Change, stores, hooks
<1>2. PICK j \in Job : /\ job[j] = Idle /\ job'[j] = EventJob(r, "filing") /\ OthersAlike(j)
                       /\ Blame(IF EventJobs(r) # {} \/ TicketsOf(r) # {} THEN {r} ELSE {})
  BY <1>1, EventTurn
<1>3. EventJobs(r) = {} /\ TicketsOf(r) = {}
  BY <1>2 DEF Blame
<1>4. Active(r) = {} /\ pluginData[r] = NoTicket
  BY <1>3, NoTicketLeft
<1>5. /\ job'[j].req = r /\ job'[j].pc = "filing"
      /\ \A i \in Job \ {j} : job'[i].req # r
  BY <1>2, <1>4, EventRecord DEF OthersAlike, Alike, Active
<1>6. state'[r] = "pending"
  BY <1>1 DEF TrackerInv, TypeOK
<1>7. TicketsOf(r)' = {}
  BY <1>1, <1>3 DEF TicketsOf
<1>8. OneEventJob(r)'
  BY <1>5 DEF OneEventJob, EventJobs, Active
<1>9. OneTicket(r)'
  BY <1>5, <1>7 DEF OneTicket, Filing
<1>10. DataSaved(r)'
  <2>1. Preparing(r)' /\ ~Deciding(r)'
    BY <1>5 DEF Preparing, Deciding
  <2> QED BY <1>1, <1>4, <1>6, <2>1 DEF DataSaved
<1>11. DecisionsSent(r)'
  BY <1>1, <1>7, AskedAbout DEF DecisionsSent, TicketsOf
<1>12. TicketsClosed(r)' /\ TicketsMarked(r)'
  BY <1>6 DEF TicketsClosed, TicketsMarked, Settled
<1> QED BY <1>8, <1>9, <1>10, <1>11, <1>12 DEF Clean

LEMMA DeleteClean ==
  ASSUME TrackerInv, AllKnow, NEW r \in Request, Delete(r), Clean(r), r \notin excused'
  PROVE  Clean(r)'
<1>1. /\ state[r] # "none" /\ state' = [state EXCEPT ![r] = "deleted"]
      /\ UNCHANGED <<plugin, pluginData, ticket, asked, webhooks>>
      /\ onWatcherEvent(r, "reading")
  BY DEF Delete, Change, stores, hooks
<1>2. PICK j \in Job : /\ job[j] = Idle /\ job'[j] = EventJob(r, "reading") /\ OthersAlike(j)
                       /\ Blame(IF EventJobs(r) # {} THEN {r} ELSE {})
  BY <1>1, EventTurn
<1>3. EventJobs(r) = {}
  BY <1>2 DEF Blame
<1>4. ~Filing(r) /\ ~Preparing(r)
  BY <1>3, NoTicketLeft
<1>5. job'[j].req = r /\ job'[j].pc = "reading"
  BY <1>2, EventRecord
<1>6. state'[r] = "deleted"
  BY <1>1 DEF TrackerInv, TypeOK
<1>7. TicketsOf(r)' = TicketsOf(r)
  BY <1>1 DEF TicketsOf
<1>8. OneEventJob(r)'
  <2>1. EventJobs(r)' \subseteq {j}
    BY <1>2, <1>3 DEF EventJobs, Active, OthersAlike, Alike
  <2> QED BY <2>1 DEF OneEventJob
<1>9. ~Filing(r)' /\ ~Preparing(r)'
  BY <1>2, <1>4, <1>5 DEF Filing, Preparing, OthersAlike, Alike
<1>10. OneTicket(r)'
  BY <1>1, <1>4, <1>7, <1>9 DEF Clean, OneTicket
<1>11. DataSaved(r)'
  BY <1>1, <1>4, <1>9 DEF Clean, DataSaved
<1>12. DecisionsSent(r)'
  BY <1>6 DEF DecisionsSent
<1>13. Expiring(r)'
  BY <1>5 DEF Expiring
<1>14. TicketsClosed(r)' /\ TicketsMarked(r)'
  BY <1>13 DEF TicketsClosed, TicketsMarked
<1> QED BY <1>8, <1>10, <1>11, <1>12, <1>14 DEF Clean

LEMMA AuthServerClean ==
  ASSUME TrackerInv, AllKnow, NEW q \in Request, AuthServer(q),
         NEW r \in Request, Clean(r), r \notin excused', SentKept
  PROVE  Clean(r)'
<1>1. UNCHANGED <<plugin, ticket, asked>>
  BY DEF AuthServer, Pend, Delete, ResolveElsewhere, ExpireData, Change, hooks
<1>2. AboutsLast /\ TicketsFrame(r)
  BY <1>1 DEF AboutsLast, TicketsFrame, TicketsOf
<1>3. CASE q = r
  <2>1. ~(ExpireData(r) \/ \E d \in Decision : ResolveElsewhere(r, d))
    BY DEF ExpireData, ResolveElsewhere, Blame
  <2> QED BY <1>3, <2>1, PendClean, DeleteClean DEF AuthServer
<1>4. CASE q # r
  <2>1. state'[r] = state[r] /\ pluginData'[r] = pluginData[r]
    BY <1>4 DEF AuthServer, Pend, Delete, ResolveElsewhere, ExpireData, Change, stores,
                TrackerInv, TypeOK
  <2>2. \A i \in Job : \/ Alike(job'[i], job[i])
                       \/ job[i].req # r /\ job'[i].req # r
    <3>1. ASSUME NEW pc, onWatcherEvent(q, pc)
          PROVE  \A i \in Job : \/ Alike(job'[i], job[i])
                                \/ job[i].req # r /\ job'[i].req # r
      <4>1. \A i \in Job : \/ Alike(job'[i], job[i])
                           \/ job[i] = Idle /\ job'[i] = EventJob(q, pc)
        BY <3>1, EventTurn DEF OthersAlike
      <4>2. Idle.req # r
        BY TrackerAssumption DEF Idle
      <4> QED BY <1>4, <4>1, <4>2, EventRecord
    <3>2. ASSUME job' = Outdate(q)
          PROVE  \A i \in Job : Alike(job'[i], job[i])
      BY <3>2, OutdateAlike
    <3>3. CASE ExpireData(q)
      BY <3>3 DEF ExpireData, Alike
    <3> QED BY <3>1, <3>2, <3>3 DEF AuthServer, Pend, Delete, ResolveElsewhere
  <2> QED BY <1>1, <1>2, <2>1, <2>2, UntouchedClean
<1> QED BY <1>3, <1>4

(***************************************************************************)
(* People, the sender of webhooks, and a crash.                            *)
(***************************************************************************)
LEMMA DecideClean ==
  ASSUME TrackerInv, AllKnow, NEW t \in Ticket, NEW d \in Decision, Decide(t, d),
         NEW r \in Request, Clean(r)
  PROVE  Clean(r)'
<1> DEFINE w == << <<t, d>> >>
<1>1. /\ UNCHANGED <<plugin, state, pluginData, job>>
      /\ plugin # "pagerduty" => ticket[t].mark # "expired"
      /\ asked' = asked \union {<<t, d>>}
      /\ webhooks' = webhooks \union {w}
  BY DEF Decide, stores
<1>2. /\ \A x \in Ticket : ticket'[x].about = ticket[x].about
      /\ \A x \in Ticket \ {t} : ticket'[x] = ticket[x]
      /\ ticket'[t].open = ticket[t].open
      /\ ticket'[t].mark = IF plugin = "pagerduty" THEN ticket[t].mark ELSE d
  BY AboutSame, DecideTicket
<1>3. TicketsFrame(r)
  BY <1>1, <1>2, TicketsSame DEF TicketsOf
<1>4. JobsFrame(r)
  <2>1. \A i \in Job : Alike(job'[i], job[i])
    BY <1>1 DEF Alike
  <2> QED BY <2>1, OtherJobsFrame
<1>5. DecisionsSent(r)'
  <2> SUFFICES ASSUME state[r] = "pending", NEW m \in asked', ticket'[m[1]].about = r
               PROVE  Sent(m)'
    BY <1>1 DEF DecisionsSent
  <2>1. CASE m \in asked
    <3>1. ticket[m[1]].about = r
      BY <1>2, <2>1, AskedAbout
    <3>2. Sent(m)
      BY <2>1, <3>1 DEF Clean, DecisionsSent
    <3> QED BY <1>1, <3>2 DEF Sent
  <2>2. CASE m = <<t, d>>
    <3>1. w \in webhooks' /\ 1 \in DOMAIN w /\ w[1] = m
      BY <1>1, <2>2
    <3> HIDE DEF w
    <3> QED BY <3>1 DEF Sent
  <2> QED BY <1>1, <2>1, <2>2
<1> QED BY <1>1, <1>3, <1>4, <1>5, CleanPersists

LEMMA SenderClean ==
  ASSUME TrackerInv, AllKnow, Sender, SentKept,
         NEW r \in Request, Clean(r), r \notin excused'
  PROVE  Clean(r)'
<1>1. UNCHANGED <<plugin, state, pluginData, ticket, asked>>
  BY DEF Sender, Redeliver, Deliver, Batch, stores, hooks
<1>2. AboutsLast /\ TicketsFrame(r)
  BY <1>1 DEF AboutsLast, TicketsFrame, TicketsOf
<1>3. \A i \in Job : \/ Alike(job'[i], job[i])
                     \/ job[i].req # r /\ job'[i].req # r
  <2>1. ASSUME NEW w \in webhooks, Deliver(w)
        PROVE  \A i \in Job : \/ Alike(job'[i], job[i])
                              \/ job[i].req # r /\ job'[i].req # r
    <3>1. FreeJob \in Job /\ job[FreeJob] = Idle
      BY <2>1, FreeJobIsIdle DEF Deliver
    <3>2. job'[FreeJob] = Delivered(w, w) /\ OthersAlike(FreeJob)
      BY <2>1, <3>1, JobBecomes, KeepAlike DEF Deliver
    <3>3. Idle.req # r /\ Delivered(w, w).req # r
      BY TrackerAssumption DEF Idle, Delivered
    <3> QED BY <3>1, <3>2, <3>3 DEF OthersAlike
  <2>2. ASSUME NEW w1 \in webhooks, NEW w2 \in webhooks, Batch(w1, w2)
        PROVE  \A i \in Job : Alike(job'[i], job[i])
    BY <2>2 DEF Batch, Alike
  <2> QED BY <2>1, <2>2 DEF Sender, Redeliver
<1> QED BY <1>1, <1>2, <1>3, UntouchedClean

LEMMA CrashClean ==
  ASSUME TrackerInv, AllKnow, Crash, SentKept,
         NEW r \in Request, Clean(r), r \notin excused'
  PROVE  Clean(r)'
<1>1. UNCHANGED <<plugin, state, pluginData, ticket, asked>> /\ \A i \in Job : job'[i] = Idle
  BY DEF Crash, stores
<1>2. AboutsLast /\ TicketsFrame(r)
  BY <1>1 DEF AboutsLast, TicketsFrame, TicketsOf
<1>3. Active(r) = {}
  BY DEF Crash, Blame
<1>4. \A i \in Job : job[i].req # r /\ job'[i].req # r
  BY <1>1, <1>3, TrackerAssumption DEF Active, Idle
<1> QED BY <1>1, <1>2, <1>4, UntouchedClean

-----------------------------------------------------------------------------
(***************************************************************************)
(* The steps of jobs.  When a job ends, it leaves no trace but in what it  *)
(* was doing.                                                              *)
(***************************************************************************)
LEMMA EndFrame ==
  ASSUME TrackerInv, NEW j \in Job, OthersAlike(j), Ends(j), NEW r \in Request,
         job[j].req = r =>
           /\ job[j].pc \notin {"filing", "indexing", "saving", "reading", "expiring"}
           /\ job[j].pc = "closing" => ~ticket'[job[j].ticket].open
  PROVE  JobsFrame(r)
<1>1. job'[j].req # r
  BY EndRecords, TrackerAssumption
<1> QED BY <1>1, OwnJobFrame

\* It ends, or goes on to another control state for the same request.
LEMMA MoveFrame ==
  ASSUME TrackerInv, NEW j \in Job, OthersAlike(j), NEW r \in Request,
         NEW pc, NEW q, NEW t, Moves(j, pc, q, t),
         \/ job[j].req = q
         \/ job[j].hook # <<>> /\ job[j].pc = "lookup" /\ pc = "checking",
         job[j].req = r =>
           /\ pc = "filing" <=> job[j].pc = "filing"
           /\ pc \in {"filing", "indexing", "saving"}
                <=> job[j].pc \in {"filing", "indexing", "saving"}
           /\ pc \in {"setting", "closing"} =>
                job[j].pc \in {"setting", "closing"} \/ ~Preparing(r)
           /\ job[j].pc \in {"reading", "expiring"} => pc \in {"reading", "expiring"}
           /\ job[j].pc # "closing"
  PROVE  JobsFrame(r)
BY OwnJobFrame DEF Moves

(***************************************************************************)
(* A job that goes on or ends leaves other requests alone.                 *)
(***************************************************************************)
LEMMA OtherRequestClean ==
  ASSUME TrackerInv, NEW j \in Job, OthersAlike(j),
         Ends(j) \/ job'[j] = Idle \/ job'[j].req = job[j].req,
         NEW r \in Request, job[j].req # r,
         Clean(r), SentKept, r \notin excused',
         UNCHANGED <<plugin, asked>>, AboutsLast, TicketsFrame(r),
         state'[r] = state[r], pluginData'[r] = pluginData[r]
  PROVE  Clean(r)'
<1>1. job'[j].req # r
  BY EndRecords, TrackerAssumption DEF Idle
<1>2. \A i \in Job : \/ Alike(job'[i], job[i])
                     \/ job[i].req # r /\ job'[i].req # r
  BY <1>1 DEF OthersAlike
<1> QED BY <1>2, UntouchedClean

LEMMA CreateTicketClean ==
  ASSUME TrackerInv, AllKnow, NEW j \in Job, CreateTicket(j), SentKept,
         NEW r \in Request, Clean(r), r \notin excused'
  PROVE  Clean(r)'
<1>1. UNCHANGED <<plugin, state, pluginData, asked>>
  BY DEF CreateTicket, stores
<1>2. /\ job[j].pc = "filing" /\ OthersKeep(j) /\ OthersAlike(j)
      /\ \/ CallFails(j) /\ Ends(j) /\ (UNCHANGED ticket \/ NewTicket(j))
         \/ /\ NewTicket(j) /\ UNCHANGED webhooks
            /\ \E pc \in {"indexing", "saving"} : Moves(j, pc, job[j].req, NextTicket)
  BY CreateTicketTurn, KeepAlike
<1>3. job[j].req \in Request
  BY <1>2, BusyJob
<1>4. CASE job[j].req # r
  <2>1. AboutsLast /\ TicketsFrame(r)
    <3>1. CASE UNCHANGED ticket
      BY <3>1 DEF AboutsLast, TicketsFrame, TicketsOf
    <3>2. CASE NewTicket(j)
      <4> DEFINE n == NextTicket
      <4>1. n \in Ticket /\ ticket[n].about = Nobody /\ ticket'[n].about = job[j].req
        BY <1>3, <3>2, FilingLasts
      <4>2. \A x \in Ticket \ {n} : ticket'[x] = ticket[x]
        BY <1>3, <3>2, NewTicketRecord
      <4> HIDE DEF n
      <4>3. AboutsLast
        BY <4>1, <4>2 DEF AboutsLast
      <4>4. n \notin TicketsOf(r) /\ TicketsOf(r)' = TicketsOf(r)
        BY <1>4, <4>1, <4>2, TrackerAssumption DEF TicketsOf
      <4>5. \A x \in TicketsOf(r) : ticket'[x] = ticket[x]
        BY <4>2, <4>4 DEF TicketsOf
      <4> QED BY <4>3, <4>4, <4>5 DEF TicketsFrame
    <3> QED BY <1>2, <3>1, <3>2
  <2>2. Ends(j) \/ job'[j].req = job[j].req
    BY <1>2 DEF Moves
  <2> QED BY <1>1, <1>2, <1>4, <2>1, <2>2, OtherRequestClean
<1>5. CASE job[j].req = r
  <2>1. ~CallFails(j)
    BY <1>5, CallFailsKnows
  <2>2. PICK pc \in {"indexing", "saving"} : Moves(j, pc, r, NextTicket)
    BY <1>2, <1>5, <2>1
  <2>3. NewTicket(j)
    BY <1>2, <2>1
  <2>4. PICK n \in Ticket :
          /\ ticket[n].about = Nobody /\ ticket'[n].about = r
          /\ \A x \in Ticket : x # n => ticket'[x].about = ticket[x].about
    BY <1>3, <1>5, <2>3, FilingLasts
  <2>5. Filing(r) /\ Preparing(r)
    BY <1>2, <1>5 DEF Filing, Preparing
  <2>6. \A i \in Job : job[i].req = r /\ job[i].pc \in EventPC => i = j
    BY <1>2, <1>5, CleanEventJob DEF EventPC
  <2>7. TicketsOf(r) = {} /\ TicketsOf(r)' = {n}
    <3>1. state[r] # "none"
      BY <2>5 DEF Clean, DataSaved
    <3>2. TicketsOf(r) = {}
      BY <2>5, <3>1 DEF Clean, OneTicket
    <3> QED BY <2>4, <3>2 DEF TicketsOf
  <2>8. job'[j].req = r /\ job'[j].pc = pc /\ job'[j].hook = job[j].hook
    BY <2>2 DEF Moves
  <2>9. OneEventJob(r)'
    BY <1>2, <1>5, <2>8 DEF Clean, OneEventJob, EventJobs, Active, OthersKeep
  <2>10. ~Filing(r)'
    BY <1>2, <2>6, <2>8 DEF Filing, OthersKeep, EventPC
  <2>11. OneTicket(r)'
    BY <2>7, <2>10 DEF OneTicket
  <2>12. DataSaved(r)'
    <3>1. Preparing(r)'
      BY <2>8 DEF Preparing
    <3>2. Deciding(r)' => Deciding(r)
      BY <1>2, <2>8 DEF Deciding, OthersKeep
    <3> QED BY <1>1, <2>5, <3>1, <3>2 DEF Clean, DataSaved
  <2>13. state'[r] = "pending"
    BY <1>1, <2>5 DEF Clean, DataSaved
  <2>14. DecisionsSent(r)'
    <3> SUFFICES ASSUME NEW m \in asked, ticket'[m[1]].about = r PROVE FALSE
      BY <1>1 DEF DecisionsSent
    <3>1. m[1] \in Ticket /\ ticket[m[1]].about \in Request
      BY AskedAbout
    <3>2. m[1] # n
      BY <2>4, <3>1, TrackerAssumption
    <3> QED BY <2>4, <2>7, <3>1, <3>2 DEF TicketsOf
  <2>15. TicketsClosed(r)' /\ TicketsMarked(r)'
    BY <2>13 DEF TicketsClosed, TicketsMarked, Settled
  <2> QED BY <2>9, <2>11, <2>12, <2>14, <2>15 DEF Clean
<1> QED BY <1>4, <1>5

LEMMA SetRequestIDClean ==
  ASSUME TrackerInv, AllKnow, NEW j \in Job, SetRequestID(j), SentKept,
         NEW r \in Request, Clean(r), r \notin excused'
  PROVE  Clean(r)'
<1>1. UNCHANGED <<plugin, state, pluginData, ticket, asked>>
  BY DEF SetRequestID
<1>2. /\ job[j].pc = "indexing" /\ OthersAlike(j)
      /\ \/ CallFails(j) /\ Ends(j)
         \/ Moves(j, "saving", job[j].req, job[j].ticket)
  BY SetRequestIDTurn, KeepAlike
<1>3. AboutsLast /\ TicketsFrame(r)
  BY <1>1 DEF AboutsLast, TicketsFrame, TicketsOf
<1>4. CASE job[j].req # r
  <2>1. Ends(j) \/ job'[j].req = job[j].req
    BY <1>2 DEF Moves
  <2> QED BY <1>1, <1>2, <1>3, <1>4, <2>1, OtherRequestClean
<1>5. CASE job[j].req = r
  <2>1. Moves(j, "saving", r, job[j].ticket)
    BY <1>2, <1>5, CallFailsKnows
  <2>2. JobsFrame(r)
    BY <1>2, <1>5, <2>1, MoveFrame
  <2> QED BY <1>1, <1>3, <2>2, SentPersists, CleanPersists DEF Clean
<1> QED BY <1>4, <1>5

LEMMA SetPluginDataClean ==
  ASSUME TrackerInv, AllKnow, NEW j \in Job, setPluginData(j), SentKept,
         NEW r \in Request, Clean(r), r \notin excused'
  PROVE  Clean(r)'
<1> DEFINE Saved == pluginData' = [pluginData EXCEPT ![job[j].req] = job[j].ticket]
<1>1. UNCHANGED <<plugin, state, ticket, asked>>
  BY DEF setPluginData
<1>2. /\ job[j].pc = "saving" /\ OthersKeep(j) /\ OthersAlike(j)
      /\ \/ CallFails(j) /\ Ends(j) /\ (UNCHANGED pluginData \/ Saved)
         \/ state[job[j].req] = "deleted" /\ UNCHANGED pluginData /\ Ends(j)
         \/ Saved /\ Ends(j)
         \/ Saved /\ Moves(j, "on call?", job[j].req, job[j].ticket)
  BY SetPluginDataTurn, KeepAlike
<1>3. AboutsLast /\ TicketsFrame(r)
  BY <1>1 DEF AboutsLast, TicketsFrame, TicketsOf
<1>4. job[j].req \in Request /\ job[j].ticket \in Ticket
  BY <1>2, BusyJob DEF TicketPC
<1>5. CASE job[j].req # r
  <2>1. pluginData'[r] = pluginData[r]
    BY <1>2, <1>5 DEF TrackerInv, TypeOK
  <2>2. Ends(j) \/ job'[j].req = job[j].req
    BY <1>2 DEF Moves
  <2> QED BY <1>1, <1>2, <1>3, <1>5, <2>1, <2>2, OtherRequestClean
<1>6. CASE job[j].req = r
  <2>1. ~CallFails(j)
    BY <1>6, CallFailsKnows
  <2>2. state[r] = "pending"
    <3>1. Preparing(r)
      BY <1>2, <1>6 DEF Preparing
    <3> QED BY <3>1 DEF Clean, DataSaved
  <2>3. Saved /\ (Ends(j) \/ Moves(j, "on call?", r, job[j].ticket))
    BY <1>2, <1>6, <2>1, <2>2
  <2>4. pluginData'[r] # NoTicket
    BY <1>4, <1>6, <2>3, TrackerAssumption DEF TrackerInv, TypeOK
  <2>5. job'[j].pc \notin {"filing", "indexing", "saving"}
    BY <2>3, EndRecords DEF Moves
  <2>6. \A i \in Job : job[i].req = r /\ job[i].pc \in EventPC => i = j
    BY <1>2, <1>6, CleanEventJob DEF EventPC
  <2>7. ~Filing(r) /\ ~Filing(r)' /\ ~Preparing(r)'
    BY <1>2, <2>5, <2>6 DEF Filing, Preparing, OthersKeep, EventPC
  <2>8. OneEventJob(r)'
    <3>1. \A i \in Job : job[i].req = r /\ job[i].hook = <<>> => i = j
      BY <1>2, <1>6, CleanEventJob DEF EventPC
    <3>2. EventJobs(r)' \subseteq {j}
      BY <1>2, <3>1 DEF EventJobs, Active, OthersKeep
    <3> QED BY <3>2 DEF OneEventJob
  <2>9. OneTicket(r)'
    BY <1>1, <1>3, <2>7 DEF Clean, OneTicket, TicketsFrame
  <2>10. DataSaved(r)'
    BY <2>4, <2>7 DEF DataSaved
  <2>11. DecisionsSent(r)'
    BY <1>1, <1>3, SentPersists DEF Clean
  <2>12. TicketsClosed(r)' /\ TicketsMarked(r)'
    BY <1>1, <2>2 DEF TicketsClosed, TicketsMarked, Settled
  <2> QED BY <2>8, <2>9, <2>10, <2>11, <2>12 DEF Clean
<1> QED BY <1>5, <1>6

(***************************************************************************)
(* Steps that change nothing but the job and the webhooks.                 *)
(***************************************************************************)
LEMMA QuietClean ==
  ASSUME TrackerInv, NEW r \in Request, Clean(r), SentKept, r \notin excused',
         UNCHANGED <<plugin, state, pluginData, ticket, asked>>, JobsFrame(r)
  PROVE  Clean(r)'
<1>1. AboutsLast /\ TicketsFrame(r)
  BY DEF AboutsLast, TicketsFrame, TicketsOf
<1>2. DecisionsSent(r)'
  BY <1>1, SentPersists DEF Clean
<1> QED BY <1>1, <1>2, CleanPersists

LEMMA AutoApproveClean ==
  ASSUME TrackerInv, NEW j \in Job, tryAutoApproveRequest(j), SentKept,
         NEW r \in Request, Clean(r), r \notin excused'
  PROVE  Clean(r)'
<1>1. UNCHANGED <<plugin, state, pluginData, ticket, asked>>
  BY DEF tryAutoApproveRequest, stores
<1>2. /\ job[j].pc = "on call?" /\ OthersAlike(j)
      /\ Ends(j) \/ Moves(j, "setting", job[j].req, job[j].ticket)
  BY AutoApproveTurn, KeepAlike
<1>3. CASE Ends(j)
  <2>1. JobsFrame(r)
    BY <1>2, <1>3, EndFrame
  <2> QED BY <1>1, <2>1, QuietClean
<1>4. CASE Moves(j, "setting", job[j].req, job[j].ticket)
  <2>1. job[j].req = r => ~Preparing(r)
    BY <1>2, CleanEventJob DEF Preparing, EventPC
  <2>2. JobsFrame(r)
    BY <1>2, <1>4, <2>1, MoveFrame
  <2> QED BY <1>1, <2>2, QuietClean
<1> QED BY <1>2, <1>3, <1>4

LEMMA GetTicketClean ==
  ASSUME TrackerInv, AllKnow, NEW j \in Job, getTicket(j), SentKept,
         NEW r \in Request, Clean(r), r \notin excused'
  PROVE  Clean(r)'
<1>1. UNCHANGED <<plugin, state, pluginData, ticket, asked>>
  BY DEF getTicket, stores
<1>2. /\ job[j].pc = "reading" /\ OthersAlike(j)
      /\ \/ CallFails(j) /\ Ends(j)
         \/ pluginData[job[j].req] = NoTicket /\ Ends(j)
         \/ Moves(j, "expiring", job[j].req, pluginData[job[j].req])
  BY GetTicketTurn, KeepAlike
<1>3. CASE Ends(j)
  <2>1. ASSUME job[j].req = r
        PROVE  pluginData[r] # NoTicket
    <3>1. state[r] = "deleted"
      BY <1>2, <2>1 DEF AllKnow, JobsKnow, JobKnows
    <3> QED BY <3>1 DEF Clean, DataSaved
  <2>2. job[j].req # r
    <3>1. CASE CallFails(j)
      BY <3>1, CallFailsKnows
    <3>2. CASE pluginData[job[j].req] = NoTicket
      BY <2>1, <3>2
    <3>3. ~Moves(j, "expiring", job[j].req, pluginData[job[j].req])
      BY <1>3, EndRecords DEF Moves
    <3> QED BY <1>2, <3>1, <3>2, <3>3
  <2>3. JobsFrame(r)
    BY <1>2, <1>3, <2>2, EndFrame
  <2> QED BY <1>1, <2>3, QuietClean
<1>4. CASE Moves(j, "expiring", job[j].req, pluginData[job[j].req])
  <2>1. JobsFrame(r)
    BY <1>2, <1>4, MoveFrame
  <2> QED BY <1>1, <2>1, QuietClean
<1> QED BY <1>2, <1>3, <1>4

LEMMA LookupClean ==
  ASSUME TrackerInv, NEW j \in Job, Lookup(j), SentKept,
         NEW r \in Request, Clean(r), r \notin excused'
  PROVE  Clean(r)'
<1> DEFINE t == job[j].todo[1][1]
           x == ticket[t].about
<1>1. UNCHANGED <<plugin, state, pluginData, ticket, asked>>
  BY DEF Lookup, stores
<1>2. /\ job[j].pc = "lookup" /\ job[j].hook # <<>> /\ OthersAlike(j)
      /\ Ends(j) \/ Moves(j, "checking", x, t)
  BY LookupTurn, KeepAlike
<1> HIDE DEF x, t
<1>3. CASE Ends(j)
  <2>1. JobsFrame(r)
    BY <1>2, <1>3, EndFrame
  <2> QED BY <1>1, <2>1, QuietClean
<1>4. CASE Moves(j, "checking", x, t)
  <2>1. JobsFrame(r)
    BY <1>2, <1>4, MoveFrame
  <2> QED BY <1>1, <2>1, QuietClean
<1> QED BY <1>2, <1>3, <1>4

LEMMA CheckClean ==
  ASSUME TrackerInv, NEW j \in Job, GetRequest(j) \/ getPluginData(j), SentKept,
         NEW r \in Request, Clean(r), r \notin excused'
  PROVE  Clean(r)'
<1>1. UNCHANGED <<plugin, state, pluginData, ticket, asked>>
  BY DEF GetRequest, getPluginData, stores
<1>2. /\ job[j].pc \in {"checking", "matching"} /\ OthersAlike(j)
      /\ \/ Ends(j)
         \/ Moves(j, "matching", job[j].req, job[j].ticket)
         \/ /\ pluginData[job[j].req] = job[j].ticket
            /\ Moves(j, "setting", job[j].req, job[j].ticket)
  BY GetRequestTurn, GetPluginDataTurn, KeepAlike
<1>3. CASE Ends(j)
  <2>1. JobsFrame(r)
    BY <1>2, <1>3, EndFrame
  <2> QED BY <1>1, <2>1, QuietClean
<1>4. CASE Moves(j, "matching", job[j].req, job[j].ticket)
  <2>1. JobsFrame(r)
    BY <1>2, <1>4, MoveFrame
  <2> QED BY <1>1, <2>1, QuietClean
<1>5. CASE /\ pluginData[job[j].req] = job[j].ticket
           /\ Moves(j, "setting", job[j].req, job[j].ticket)
  <2>1. job[j].ticket # NoTicket
    BY <1>2, BusyJob, TrackerAssumption DEF TicketPC
  <2>2. job[j].req = r => ~Preparing(r)
    BY <1>5, <2>1 DEF Clean, DataSaved
  <2>3. JobsFrame(r)
    BY <1>2, <1>5, <2>2, MoveFrame
  <2> QED BY <1>1, <2>3, QuietClean
<1> QED BY <1>2, <1>3, <1>4, <1>5

(***************************************************************************)
(* The steps that finish with a ticket.                                    *)
(***************************************************************************)
LEMMA ExpireTicketClean ==
  ASSUME TrackerInv, AllKnow, NEW j \in Job, ExpireTicket(j), SentKept,
         NEW r \in Request, Clean(r), r \notin excused'
  PROVE  Clean(r)'
<1> DEFINE t == job[j].ticket
<1>1. UNCHANGED <<plugin, state, pluginData, asked>>
  BY DEF ExpireTicket, stores
<1>2. /\ job[j].pc = "expiring" /\ OthersAlike(j) /\ Ends(j)
      /\ \/ CallFails(j) /\ (UNCHANGED ticket \/ MarkExpired(t))
         \/ Fail(j, {job[j].req}) /\ UNCHANGED ticket
         \/ MarkExpired(t)
  BY ExpireTicketTurn, KeepAlike
<1>3. t \in Ticket /\ ticket[t].about = job[j].req /\ job[j].req \in Request
  BY <1>2, BusyJob DEF TicketPC
<1>4. /\ \A x \in Ticket : ticket'[x].about = ticket[x].about
      /\ \A x \in Ticket \ {t} : ticket'[x] = ticket[x]
  BY <1>2, <1>3, AboutSame, MarkExpiredTicket
<1>5. AboutsLast /\ TicketsOf(r)' = TicketsOf(r)
  BY <1>4 DEF AboutsLast, TicketsOf
<1>6. CASE job[j].req # r
  <2>1. TicketsFrame(r)
    BY <1>3, <1>4, <1>6, TicketsSame DEF TicketsOf
  <2> QED BY <1>1, <1>2, <1>5, <1>6, <2>1, OtherRequestClean
<1>7. CASE job[j].req = r
  <2>1. MarkExpired(t)
    <3>1. ~CallFails(j) /\ ~Fail(j, {job[j].req})
      BY <1>7, CallFailsKnows, FailKnows
    <3> QED BY <1>2, <3>1
  <2>2. state[r] = "deleted"
    BY <1>2, <1>7 DEF AllKnow, JobsKnow, JobKnows
  <2>3. TicketsOf(r) = {t} /\ ~Filing(r)
    BY <1>3, <1>7, <2>2, CleanTicket DEF TicketsOf
  <2>4. ~Preparing(r)
    BY <2>2 DEF Clean, DataSaved
  <2>5. job'[j].pc \in {"idle", "lookup"} /\ job'[j].req # r
    BY <1>2, EndRecords, TrackerAssumption
  <2>6. OneEventJob(r)'
    <3>1. EventJobs(r)' \subseteq EventJobs(r)
      BY <1>2, <2>5 DEF EventJobs, Active, OthersAlike, Alike
    <3> QED BY <3>1 DEF Clean, OneEventJob
  <2>7. ~Filing(r)' /\ ~Preparing(r)'
    BY <1>2, <2>3, <2>4, <2>5 DEF Filing, Preparing, OthersAlike, Alike
  <2>8. OneTicket(r)'
    BY <1>3, <1>5, <2>3, <2>7 DEF OneTicket
  <2>9. DataSaved(r)'
    BY <1>1, <2>4, <2>7 DEF Clean, DataSaved
  <2>10. DecisionsSent(r)'
    BY <1>1, <2>2 DEF DecisionsSent
  <2>11. TicketsClosed(r)' /\ TicketsMarked(r)'
    <3>1. /\ plugin # "jira" => ~ticket'[t].open
          /\ plugin # "pagerduty" => ticket'[t].mark = "expired"
      BY <1>3, <2>1, MarkExpiredTicket
    <3> QED BY <1>1, <1>5, <2>3, <3>1 DEF TicketsClosed, TicketsMarked
  <2> QED BY <2>6, <2>8, <2>9, <2>10, <2>11 DEF Clean
<1> QED BY <1>6, <1>7

LEMMA CloseTicketClean ==
  ASSUME TrackerInv, AllKnow, NEW j \in Job, CloseTicket(j), SentKept,
         NEW r \in Request, Clean(r), r \notin excused'
  PROVE  Clean(r)'
<1> DEFINE t == job[j].ticket
<1>1. UNCHANGED <<plugin, state, pluginData, asked>>
  BY DEF CloseTicket, stores
<1>2. /\ job[j].pc = "closing" /\ OthersAlike(j) /\ Ends(j)
      /\ \/ CallFails(j) /\ (UNCHANGED ticket \/ Close(t))
         \/ Close(t)
  BY CloseTicketTurn, KeepAlike
<1>3. t \in Ticket /\ ticket[t].about = job[j].req
  BY <1>2, BusyJob DEF TicketPC
<1>4. /\ \A x \in Ticket : ticket'[x].about = ticket[x].about
      /\ \A x \in Ticket : ~ticket[x].open => ~ticket'[x].open
      /\ \A x \in Ticket : ticket'[x].mark = ticket[x].mark
  BY <1>2, <1>3, AboutSame, CloseOneTicket
<1>5. AboutsLast /\ TicketsFrame(r)
  BY <1>4, TicketsSame DEF AboutsLast, TicketsOf
<1>6. JobsFrame(r)
  <2>1. ASSUME job[j].req = r
        PROVE  ~ticket'[t].open
    <3>1. Close(t)
      BY <1>2, <2>1, CallFailsKnows
    <3> QED BY <1>3, <3>1, CloseOneTicket
  <2> QED BY <1>2, <2>1, EndFrame
<1>7. DecisionsSent(r)'
  BY <1>1, <1>5, SentPersists DEF Clean
<1> QED BY <1>1, <1>5, <1>6, <1>7, CleanPersists

(***************************************************************************)
(* The decision: who takes it goes on to close the only ticket, except at  *)
(* JIRA, where it was moved before.                                        *)
(***************************************************************************)
LEMMA SetRequestStateClean ==
  ASSUME TrackerInv, AllKnow, NEW j \in Job, SetRequestState(j), SentKept,
         NEW r \in Request, Clean(r), r \notin excused'
  PROVE  Clean(r)'
<1> DEFINE q == job[j].req
           t == job[j].ticket
           w == job[j].hook
<1>1. UNCHANGED <<plugin, pluginData, ticket, asked>>
  BY DEF SetRequestState, stores
<1>2. /\ job[j].pc = "setting" /\ OthersAlike(j)
      /\ \/ Ends(j) /\ UNCHANGED state
         \/ \E d \in Decision :
              /\ state' = [state EXCEPT ![q] = d]
              /\ \/ plugin # "jira" /\ Moves(j, "closing", q, t)
                 \/ plugin = "jira" /\ job'[j] = Idle
                 \/ Blame({q} \union LostWith(w)) /\ job'[j] = Idle
  BY SetRequestStateTurn
<1>3. AboutsLast /\ TicketsFrame(r)
  BY <1>1 DEF AboutsLast, TicketsFrame, TicketsOf
<1>4. CASE Ends(j) /\ UNCHANGED state
  <2>1. JobsFrame(r)
    BY <1>2, <1>4, EndFrame
  <2> QED BY <1>1, <1>4, <2>1, QuietClean
<1>5. ASSUME NEW d \in Decision, state' = [state EXCEPT ![q] = d],
             \/ plugin # "jira" /\ Moves(j, "closing", q, t)
             \/ plugin = "jira" /\ job'[j] = Idle
             \/ Blame({q} \union LostWith(w)) /\ job'[j] = Idle
      PROVE  Clean(r)'
  <2>1. /\ q \in Request /\ state[q] # "none"
        /\ t \in Ticket /\ ticket[t].about = q
    BY <1>2, BusyJob, JobAnnounced DEF TicketPC
  <2>2. CASE q # r
    <3>1. state'[r] = state[r]
      BY <1>5, <2>2 DEF TrackerInv, TypeOK
    <3>2. job'[j] = Idle \/ job'[j].req = q
      BY <1>5 DEF Moves
    <3> QED BY <1>1, <1>2, <1>3, <2>2, <3>1, <3>2, OtherRequestClean
  <2>3. CASE q = r
    <3>1. state'[r] = d /\ d # "pending" /\ d # "deleted" /\ d # "none"
      BY <1>5, <2>1, <2>3 DEF TrackerInv, TypeOK, Decision
    <3>2. \/ plugin # "jira" /\ Moves(j, "closing", r, t)
          \/ plugin = "jira" /\ job'[j] = Idle
      BY <1>5, <2>3 DEF Blame
    <3>3. TicketsOf(r) = {t} /\ ~Filing(r)
      BY <2>1, <2>3, CleanTicket DEF TicketsOf
    <3>4. ~Preparing(r)
      <4>1. Deciding(r)
        BY <1>2, <2>3 DEF Deciding
      <4> QED BY <4>1 DEF Clean, DataSaved
    <3>5. /\ job'[j].pc \in {"idle", "closing"}
          /\ job'[j].req = r => job'[j].hook = job[j].hook
      BY <2>1, <3>2, TrackerAssumption DEF Moves, Idle
    <3>6. OneEventJob(r)'
      <4>1. EventJobs(r)' \subseteq EventJobs(r)
        BY <1>2, <2>3, <3>5 DEF EventJobs, Active, OthersAlike, Alike
      <4> QED BY <4>1 DEF Clean, OneEventJob
    <3>7. ~Filing(r)' /\ ~Preparing(r)'
      BY <1>2, <3>3, <3>4, <3>5 DEF Filing, Preparing, OthersAlike, Alike
    <3>8. OneTicket(r)'
      BY <1>3, <2>1, <3>3, <3>7 DEF OneTicket, TicketsFrame
    <3>9. DataSaved(r)'
      BY <1>1, <2>1, <2>3, <3>4, <3>7 DEF Clean, DataSaved
    <3>10. DecisionsSent(r)' /\ TicketsMarked(r)'
      BY <3>1 DEF DecisionsSent, TicketsMarked
    <3>11. TicketsClosed(r)'
      <4>1. PICK k \in Ticket : k = t
        BY <2>1
      <4>2. plugin # "jira" => Closing(k)'
        BY <3>2, <4>1 DEF Closing, Moves
      <4> QED BY <1>1, <1>3, <3>3, <4>1, <4>2 DEF TicketsClosed, TicketsFrame
    <3> QED BY <3>6, <3>8, <3>9, <3>10, <3>11 DEF Clean
  <2> QED BY <2>2, <2>3
<1> QED BY <1>2, <1>4, <1>5

-----------------------------------------------------------------------------
(***************************************************************************)
(* CleanOrExcused is an invariant.                                         *)
(***************************************************************************)
LEMMA JobStepClean ==
  ASSUME TrackerInv, AllKnow, NEW j \in Job, JobStep(j), SentKept,
         NEW r \in Request, Clean(r), r \notin excused'
  PROVE  Clean(r)'
BY CreateTicketClean, SetRequestIDClean, SetPluginDataClean, AutoApproveClean,
   GetTicketClean, ExpireTicketClean, LookupClean, CheckClean, SetRequestStateClean,
   CloseTicketClean
   DEF JobStep

LEMMA ExcusedGrows ==
  ASSUME TrackerInv, Next
  PROVE  excused \subseteq excused'
<1>1. ASSUME NEW r \in Request, AuthServer(r)
      PROVE  excused \subseteq excused'
  BY <1>1 DEF AuthServer, Pend, Delete, ResolveElsewhere, ExpireData, onWatcherEvent, Blame
<1>2. ASSUME NEW t \in Ticket, NEW d \in Decision, Decide(t, d)
      PROVE  excused \subseteq excused'
  BY <1>2 DEF Decide
<1>3. CASE Sender
  BY <1>3 DEF Sender, Redeliver, Deliver, Batch
<1>4. ASSUME NEW j \in Job, JobStep(j)
      PROVE  excused \subseteq excused'
  <2>1. ASSUME NEW rs, Fail(j, rs)
        PROVE  excused \subseteq excused'
    BY <2>1 DEF Fail, Blame
  <2> QED BY <1>4, <2>1
      DEF JobStep, CreateTicket, SetRequestID, setPluginData, tryAutoApproveRequest,
          getTicket, ExpireTicket, Lookup, GetRequest, getPluginData, SetRequestState,
          CloseTicket, NoFault, Refuse, CallFails, Blame
<1>5. CASE Crash
  BY <1>5 DEF Crash, Blame
<1> QED BY <1>1, <1>2, <1>3, <1>4, <1>5 DEF Next

LEMMA NextClean ==
  ASSUME TrackerInv, AllKnow, CleanOrExcused, Next
  PROVE  CleanOrExcused'
<1> SUFFICES ASSUME NEW r \in Request, r \notin excused'
             PROVE  Clean(r)'
  BY DEF CleanOrExcused
<1>1. Clean(r)
  BY ExcusedGrows DEF CleanOrExcused
<1>2. SentKept
  BY NextKnows
<1> QED
  BY <1>1, <1>2, AuthServerClean, DecideClean, SenderClean, JobStepClean, CrashClean
     DEF Next

LEMMA InitClean ==
  ASSUME Init
  PROVE  CleanOrExcused
<1> SUFFICES ASSUME NEW r \in Request PROVE Clean(r)
  BY DEF CleanOrExcused
<1>1. \A j \in Job : job[j].req # r
  BY TrackerAssumption DEF Init, Idle
<1>2. state[r] = "none" /\ asked = {}
  BY DEF Init
<1> QED
  BY <1>1, <1>2 DEF Clean, OneEventJob, EventJobs, Active, OneTicket, DataSaved, Preparing,
                    DecisionsSent, TicketsClosed, TicketsMarked, Settled

(***************************************************************************)
(* A request nothing is blamed for has the state the plugin gave it last:  *)
(* what others decide is blamed.                                           *)
(***************************************************************************)
StatesCarried ==
  \A r \in Request \ excused : state[r] \in Decision => <<r, state[r]>> \in carried

LEMMA StepStatesCarried ==
  ASSUME TrackerInv, StatesCarried, Next
  PROVE  StatesCarried'
<1> SUFFICES ASSUME NEW r \in Request, r \notin excused', state'[r] \in Decision
             PROVE  <<r, state'[r]>> \in carried'
  BY DEF StatesCarried
<1>1. r \notin excused /\ (state[r] \in Decision => <<r, state[r]>> \in carried)
  BY ExcusedGrows DEF StatesCarried
<1>2. ASSUME UNCHANGED state, carried \subseteq carried'
      PROVE  <<r, state'[r]>> \in carried'
  BY <1>1, <1>2
<1>3. ASSUME NEW x \in Request, AuthServer(x)
      PROVE  <<r, state'[r]>> \in carried'
  <2>1. carried' = carried /\ state \in [Request -> Decision \union {"none", "pending", "deleted"}]
    BY <1>3 DEF AuthServer, Pend, Delete, ResolveElsewhere, ExpireData, Change, observers,
                TrackerInv, TypeOK
  <2>2. CASE UNCHANGED state
    BY <1>2, <2>1, <2>2
  <2>3. ASSUME NEW to \in {"pending", "deleted"}, state' = [state EXCEPT ![x] = to]
        PROVE  <<r, state'[r]>> \in carried'
    BY <1>1, <2>1, <2>3 DEF Decision
  <2>4. ASSUME NEW d \in Decision, ResolveElsewhere(x, d)
        PROVE  <<r, state'[r]>> \in carried'
    <3>1. x # r /\ state' = [state EXCEPT ![x] = d]
      BY <2>4 DEF ResolveElsewhere, Change, Blame
    <3> QED BY <1>1, <2>1, <3>1
  <2> QED BY <1>3, <2>2, <2>3, <2>4 DEF AuthServer, Pend, Delete, ExpireData, Change
<1>4. ASSUME NEW j \in Job, SetRequestState(j)
      PROVE  <<r, state'[r]>> \in carried'
  <2> DEFINE q == job[j]
  <2>1. \/ UNCHANGED <<state, carried>>
        \/ /\ state' = [state EXCEPT ![q.req] = q.decision]
           /\ carried' = carried \union {<<q.req, q.decision>>}
    BY <1>4 DEF SetRequestState
  <2>2. state \in [Request -> Decision \union {"none", "pending", "deleted"}]
    BY DEF TrackerInv, TypeOK
  <2> HIDE DEF q
  <2> QED BY <1>1, <2>1, <2>2
<1>5. ASSUME \/ \E t \in Ticket, d \in Decision : Decide(t, d)
             \/ Sender \/ Crash
      PROVE  UNCHANGED <<state, carried>>
  BY <1>5 DEF Decide, Sender, Redeliver, Deliver, Batch, Crash, observers
<1>6. ASSUME NEW j \in Job, JobStep(j), ~SetRequestState(j)
      PROVE  UNCHANGED <<state, carried>>
  BY <1>6 DEF JobStep, CreateTicket, SetRequestID, setPluginData, tryAutoApproveRequest,
              getTicket, ExpireTicket, Lookup, GetRequest, getPluginData, CloseTicket, observers
<1> QED BY <1>2, <1>3, <1>4, <1>5, <1>6 DEF Next

LEMMA StatesCarriedInvariant == Spec => []StatesCarried
<1>1. Init => StatesCarried
  BY DEF Init, StatesCarried, Decision
<1>2. TrackerInv /\ StatesCarried /\ [Next]_vars => StatesCarried'
  <2>1. StatesCarried /\ UNCHANGED vars => StatesCarried'
    BY DEF StatesCarried, vars, observers
  <2> QED BY <2>1, StepStatesCarried
<1> QED BY <1>1, <1>2, TrackerInvariant, PTL DEF Spec

LEMMA CleanCarriedOut ==
  ASSUME TrackerInv, AllKnow, CleanOrExcused, StatesCarried, Warranted
  PROVE  CarriedOutOrExcused
<1> SUFFICES ASSUME NEW r \in Request, Active(r) = {}, Outstanding(r) = {},
                    r \notin excused, state[r] # "none"
             PROVE  /\ pluginData[r] \in TicketsOf(r)
                    /\ \A d \in Decision : AskedFor(r, d) => DealtWith(r, d)
                    /\ \A t \in TicketsOf(r) :
                         /\ state[r] # "pending" /\ plugin # "jira" => ~ticket[t].open
                         /\ state[r] = "deleted" /\ plugin # "pagerduty" =>
                              ticket[t].mark = "expired"
  BY DEF CarriedOutOrExcused
<1>1. Clean(r)
  BY DEF CleanOrExcused
<1>2. ~Filing(r) /\ ~Preparing(r) /\ ~Expiring(r)
  BY DEF Filing, Preparing, Expiring, Active
<1>3. pluginData[r] \in TicketsOf(r)
  BY <1>1, <1>2 DEF Clean, DataSaved, TrackerInv, TypeOK, StoresOwn, TicketsOf
<1>4. ASSUME NEW t \in TicketsOf(r), state[r] = "pending", NEW d \in Decision, <<t, d>> \in asked
      PROVE  FALSE
  <2>1. Sent(<<t, d>>)
    BY <1>1, <1>4 DEF Clean, DecisionsSent, TicketsOf
  <2>2. PICK w \in webhooks : \E i \in DOMAIN w : w[i] = <<t, d>>
    BY <2>1 DEF Sent
  <2>3. r \in AboutOf(w)
    BY <2>2, <1>4 DEF AboutOf, TicketsOf
  <2> QED BY <2>3 DEF Outstanding
<1>5. ASSUME NEW d \in Decision, AskedFor(r, d)
      PROVE  DealtWith(r, d)
  <2>1. state[r] # "pending"
    BY <1>4, <1>5 DEF AskedFor
  <2>2. CASE state[r] = "deleted"
    BY <2>2 DEF DealtWith
  <2>3. CASE state[r] \in Decision
    <3>1. <<r, state[r]>> \in carried
      BY <2>3 DEF StatesCarried
    <3>2. AskedFor(r, state[r]) \/ (state[r] = "approved" /\ r \in onCall)
      BY <2>3, <3>1 DEF Warranted, AskedFor, TicketsOf
    <3>3. state[r] # d => Overruled(r, d)
      BY <2>3, <3>1, <3>2 DEF Overruled
    <3> QED BY <3>1, <3>3 DEF DealtWith
  <2> QED BY <2>1, <2>2, <2>3 DEF TrackerInv, TypeOK
<1>6. ASSUME NEW t \in TicketsOf(r), state[r] # "pending", plugin # "jira"
      PROVE  ~ticket[t].open
  <2>1. ~Closing(t)
    BY <1>6, BusyJob DEF Closing, TicketPC, TicketsOf, Active
  <2> QED BY <1>1, <1>2, <1>6, <2>1 DEF Clean, TicketsClosed, Settled
<1>7. ASSUME NEW t \in TicketsOf(r), state[r] = "deleted", plugin # "pagerduty"
      PROVE  ticket[t].mark = "expired"
  BY <1>1, <1>2, <1>7 DEF Clean, TicketsMarked
<1> QED BY <1>3, <1>5, <1>6, <1>7

\* What a step leaves as it is leaves all of this as it is.
LEMMA StutterClean ==
  ASSUME AllKnow, CleanOrExcused, UNCHANGED vars
  PROVE  AllKnow' /\ CleanOrExcused'
<1> USE DEF vars, stores, hooks, observers
<1>1. AllKnow'
  BY DEF AllKnow, JobsKnow, JobKnows, MarksKnow, HooksKnow, Announced
<1>2. CleanOrExcused'
  BY DEF CleanOrExcused, Clean, OneEventJob, OneTicket, DataSaved, DecisionsSent,
         TicketsClosed, TicketsMarked, TicketsOf, EventJobs, Active, Filing, Preparing,
         Deciding, Expiring, Closing, Sent
<1> QED BY <1>1, <1>2

LEMMA CleanInvariant == Spec => [](TrackerInv /\ AllKnow /\ CleanOrExcused)
<1>1. Init => AllKnow /\ CleanOrExcused
  BY InitKnows, InitClean
<1>2. TrackerInv /\ AllKnow /\ CleanOrExcused /\ [Next]_vars => AllKnow' /\ CleanOrExcused'
  BY NextKnows, NextClean, StutterClean
<1> QED
  BY <1>1, <1>2, TrackerInvariant, PTL DEF Spec

(***************************************************************************)
(* A decision on a pending request is not lost: a webhook with it is still *)
(* to be handled, however often it was refused, handled halfway or batched *)
(* with others, unless something is blamed (see CarriedOutOrExcused).      *)
(***************************************************************************)
THEOREM TrackerLosesNoDecision ==
  Spec => [](\A r \in Request \ excused : DecisionsSent(r))
<1>1. CleanOrExcused => \A r \in Request \ excused : DecisionsSent(r)
  BY DEF CleanOrExcused, Clean
<1> QED BY <1>1, CleanInvariant, PTL

(***************************************************************************)
(* Once nothing of a request is under way, every decision people took on   *)
(* its ticket was carried out, or overruled by another of theirs or by the *)
(* automatic approval that was, or the request is deleted; and the ticket  *)
(* is closed when it is resolved and marked expired when it is deleted,    *)
(* unless something is blamed: an event that overlapped or was lost, a     *)
(* call that failed, a crash, somebody else who resolved it, plugin data   *)
(* that expired and so on (see CarriedOutOrExcused).                       *)
(***************************************************************************)
THEOREM TrackerCarriedOut == Spec => []CarriedOutOrExcused
BY CleanCarriedOut, CleanInvariant, StatesCarriedInvariant, DecisionsWarranted, PTL
=============================================================================
