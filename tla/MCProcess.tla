------------------------------ MODULE MCProcess ------------------------------
(***************************************************************************)
(* Process with two services, one task and two callers: enough for a       *)
(* service that registers its callback before, during and after            *)
(* termination while another one is still being spawned, and for a         *)
(* graceful shutdown racing a Close and a failing critical job.            *)
(***************************************************************************)
EXTENDS Process, TLC

CONSTANTS watcher, http, handler, graceful, fast

MCService == {watcher, http}
MCTask == {handler}
MCCaller == {graceful, fast}

=============================================================================
