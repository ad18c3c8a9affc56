-------------------------------- MODULE MCApp --------------------------------
(***************************************************************************)
(* A plugin with webhooks (http and watcher; no event is handled), and a   *)
(* chat plugin (watcher and one event handler).                            *)
(***************************************************************************)
EXTENDS App, TLC

CONSTANT handler

WebhookServices == {http, watcher}
ChatServices == {watcher}
MCHandler == {handler}
NoHandler == {}
MCTask == {handler, main}
TaskNoHandler == {main}
MCCaller == {loop, graceful}
=============================================================================
