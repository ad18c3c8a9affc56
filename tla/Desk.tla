--------------------------------- MODULE Desk ---------------------------------
(***************************************************************************)
(* What the plugins with tickets (issues, incidents) promise to the people *)
(* who decide: a ticket is about one request for good, and a request is    *)
(* approved or denied only as somebody has asked on a ticket about it, or  *)
(* approved because its user was found to be on call.                      *)
(***************************************************************************)
CONSTANTS Request, Ticket, Nobody

VARIABLES
  about,                 \* [Ticket -> its request, or Nobody]
  asked,                 \* decisions people have taken on tickets
  onCall,                \* requests whose user was found to be on call
  carried                \* decisions the plugin has carried out on requests

deskVars == <<about, asked, onCall, carried>>

Decision == {"approved", "denied"}

DeskInit ==
  /\ about = [t \in Ticket |-> Nobody]
  /\ asked = {}
  /\ onCall = {}
  /\ carried = {}

File(t, r) ==
  /\ about[t] = Nobody
  /\ about' = [about EXCEPT ![t] = r]
  /\ UNCHANGED <<asked, onCall, carried>>

Ask(t, d) ==
  /\ about[t] # Nobody
  /\ asked' = asked \union {<<t, d>>}
  /\ UNCHANGED <<about, onCall, carried>>

FindOnCall(r) ==
  /\ onCall' = onCall \union {r}
  /\ UNCHANGED <<about, asked, carried>>

Carry(r, d) ==
  /\ \/ \E t \in Ticket : about[t] = r /\ <<t, d>> \in asked
     \/ d = "approved" /\ r \in onCall
  /\ carried' = carried \union {<<r, d>>}
  /\ UNCHANGED <<about, asked, onCall>>

DeskNext ==
  \/ \E t \in Ticket, r \in Request : File(t, r)
  \/ \E t \in Ticket, d \in Decision : Ask(t, d)
  \/ \E r \in Request : FindOnCall(r)
  \/ \E r \in Request, d \in Decision : Carry(r, d)

DeskSpec == DeskInit /\ [][DeskNext]_deskVars
=============================================================================
