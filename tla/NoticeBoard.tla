----------------------------- MODULE NoticeBoard -----------------------------
(***************************************************************************)
(* What the chat plugins promise to the people who read the channels: a    *)
(* message is about one request for good, is posted with the status        *)
(* PENDING when the request is or was pending, and is then only ever       *)
(* changed to a resolution the request has really had.                     *)
(***************************************************************************)
CONSTANTS Request, Message, Nobody

VARIABLES
  history,               \* [Request -> statuses the request has had]
  about,                 \* [Message -> its request, or Nobody]
  shown                  \* [Message -> the status it shows]

boardVars == <<history, about, shown>>

Resolutions == {"APPROVED", "DENIED", "EXPIRED"}

BoardInit ==
  /\ history = [r \in Request |-> {}]
  /\ about = [m \in Message |-> Nobody]
  /\ shown = [m \in Message |-> "PENDING"]

Happen(r, status) ==
  /\ history' = [history EXCEPT ![r] = @ \union {status}]
  /\ UNCHANGED <<about, shown>>

Announce(r, m) ==
  /\ "PENDING" \in history[r]
  /\ about[m] = Nobody
  /\ about' = [about EXCEPT ![m] = r]
  /\ UNCHANGED <<history, shown>>

Amend(m, status) ==
  /\ about[m] # Nobody
  /\ status \in Resolutions \intersect history[about[m]]
  /\ shown' = [shown EXCEPT ![m] = status]
  /\ UNCHANGED <<history, about>>

BoardNext ==
  \/ \E r \in Request, status \in Resolutions \union {"PENDING"} : Happen(r, status)
  \/ \E r \in Request, m \in Message : Announce(r, m)
  \/ \E m \in Message, status \in Resolutions : Amend(m, status)

BoardSpec == BoardInit /\ [][BoardNext]_boardVars
=============================================================================
