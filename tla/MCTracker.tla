------------------------------ MODULE MCTracker -------------------------------
(***************************************************************************)
(* Tickets and jobs enough to file two tickets of a request and to handle  *)
(* two webhooks, or a webhook and an event, at a time, for each plugin.    *)
(***************************************************************************)
EXTENDS Tracker, TLC

CONSTANTS r1, t1, t2, j1, j2

OneRequest == {r1}
TwoTickets == {t1, t2}
TwoJobs == {j1, j2}
AllPlugins == {"gitlab", "pagerduty", "jira"}
=============================================================================
