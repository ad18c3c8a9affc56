# TLA+ specifications of the Teleport plugins

Models, model-checking runs and proofs for the access request plugins (Slack,
Mattermost, GitLab, PagerDuty, JIRA), the library they run on (`lib/`), and the
example application behind Teleport (`apps/example-nodejs-jwt`). Definitions
are translated from the Go and JavaScript code; `PROJECT.json` maps each of them
to the lines it stands for.

## 1. The system

| component | state it keeps | operations | talks to |
|---|---|---|---|
| Job supervisor, `lib/process.go` | WaitGroup, `terminated`, callbacks, `doneCh`, context | SpawnJob, SpawnCriticalJob, OnTerminate, Terminate, Shutdown, Close | every goroutine of a plugin |
| Service job, `lib/process.go` | `ready`, `readyCh`, `doneCh`, `err` | SetReady, WaitReady, finish, Done, Err | main, watcher and http jobs |
| Signals, `lib/signals.go` | `alreadyInterrupted` | SIGTERM, first and second SIGINT, deadline | Shutdown and Close of the supervisor |
| Application, `access/*/app.go`, `main.go` | main job, its locals | Run, run | supervisor, services, remote APIs |
| Watcher job, `lib/watcherjob.go`, `access/service_job.go` | stream, readiness | connect, WaitInit, spawn a handler per event, reconnect | auth server, supervisor |
| HTTP job, `lib/http.go` | listener, server | listen, serve, shut down | supervisor, webhook handlers |
| Slack, Mattermost | none of their own: plugin data at the auth server, messages at the chat server | onPendingRequest, onResolvedRequest, onDeletedRequest | auth server, chat server |
| Mattermost ETag cache | LRU of decoded results | before and after each GET | Mattermost API |
| GitLab | bolt database (hook, labels, issue to request), plugin data, issues | setup, pending and deleted request, webhook | auth server, GitLab |
| PagerDuty | plugin data, incidents | pending and deleted request, webhook actions, auto-approval | auth server, PagerDuty |
| JIRA | plugin data, issues | pending and deleted request, webhook | auth server, JIRA |
| Access client, `access/access.go` | watcher goroutine | Watch, Get/SetRequestState, plugin data | auth server |
| Terraform provider | Terraform state | create, read, update, delete per resource | auth server |
| Example JWT application, `apps/example-nodejs-jwt/app.js` | JWKS client, memoized key, requests waiting for it | load, listen, middleware, getKey, verify, page | Teleport's JWKS endpoint, browsers |
| Example plugin, configuration, logging, TLS, generated schema | none or files | | |

What makes each of them correct, and what is hard about it:

- *Supervisor*: `doneCh` closes when, and only when, everything has ended; no
  callback gets lost between `OnTerminate` and `Terminate`; a critical failure
  and a graceful shutdown bring the process down. Hard: jobs, callbacks,
  failing jobs and callers are all goroutines of their own.
- *Application*: ready only when the services are; the error of a service is
  reported; a failing service or a signal ends the program whatever step of the
  start-up it meets. Hard: termination during the start-up.
- *Watcher*: reconnects, never blocks termination. Events sent while it is
  disconnected are lost; handlers run concurrently and in any order.
- *Slack, Mattermost*: a message is about one request, is posted once per
  pending event, and ends up showing the resolution. Hard: handlers of one
  request overlap, every remote call may fail or fail after its effect, the
  handler's 5 s deadline, crashes between posting and saving.
- *GitLab, PagerDuty, JIRA*: an action sets the state of a request that is
  pending, once, and its issue or incident follows. Hard: check-then-act over
  several remote calls, half-done sequences that a webhook retry meets again.
- *Terraform provider*: the state reflects the resource. Hard: create checks
  and then upserts.
- *JWT application*: a page only for a token signed by a key of Teleport that
  is still trusted; a good token is not refused; every request is answered.
  Hard: requests share one fetch of the key, which Teleport may rotate before,
  during and after it.

`PROJECT.json` lists these hazards at the lines where they bite, with the
properties that would notice, or the reason why none does.

## 2. Modules

| module | models | kind |
|---|---|---|
| `Lifecycle` | what the supervisor promises | abstract specification |
| `Process` | `lib/process.go` with the callers of `lib/signals.go` | component |
| `App` | `App.Run`, `App.run`, service jobs, watcher and http job, `ServeSignals` on top of `Process` | composition |
| `NoticeBoard` | what the chat plugins promise to readers | abstract specification |
| `ChatPlugin` | handlers of Slack and Mattermost, watcher connection, external auth and chat server | component |
| `Desk` | what the plugins with tickets promise to the people who decide | abstract specification |
| `Tracker` | handlers and webhooks of GitLab, PagerDuty and JIRA, external auth server and trackers | component |
| `WatcherJob` | watcher job of `access/service_job.go`, watcher goroutine of `access/access.go` | component |
| `HttpServer` | service job and graceful shutdown of `lib/http.go` | component |
| `Services` | both service jobs under one process | composition |
| `JwtApp` | the example JWT application, Teleport's keys | component |
| `ProcessProofs`, `AppProofs`, `ChatPluginProofs`, `TrackerProofs`, `TrackerCarriedProofs`, `JwtProofs`, `ServicesProofs` | theorems | proofs |
| `Counting` | lemmas on two finite sets with a bounded number of elements | proofs |
| `MCProcess`, `MCApp`, `MCChatPlugin`, `MCTracker`, `MCServices`, `MCJwtApp` | instances for TLC | model checking |

### Process

| variable | code |
|---|---|
| `job`, `critical` | goroutines of `process.spawn`, its second argument; `failing` is the stretch between `jobs.Done()` and the return of `Terminate()` (process.go:85-88) |
| `onTerminate` | the list of callbacks, and the jobs they become |
| `jobs` | the WaitGroup |
| `once`, `terminated` | `sync.Once` of `terminate`: body running, main job released |
| `doneCh`, `cancelled` | the channel is closed; the context is cancelled |
| `caller` | a goroutine in `Shutdown`/`Close` as `gracefulShutdown` calls them |

One action is one stretch of code nobody can interleave with: the body of
`terminate` under its lock (`TerminateBody`) and the `jobs.Done()` after it
(`ReleaseMainJob`) are two; so are a job's `jobs.Done()` (`JobDone`) and its
`Terminate()` (`FailedJobEnds` waits for the `Once`). `Spawn` is one step
because its caller is itself counted. In `App` that assumption is not made
where the code does not meet it: see `RunSpawnMain`. Services register a
callback before they can end, tasks just end; this is what `NewWatcherJob`,
`HTTP.ServiceJob` and the handlers do. A service may fail, or end without an
error, at any time: a watcher does the latter whenever its stream is cancelled
(`IsCanceled`, watcherjob.go:47), also by the server.

### App

`App` EXTENDS `Process`; each action conjoins an action of `Process` or leaves
its variables alone, and `UsesProcess` checks exactly that. `runner` is the
main goroutine (`nil` process, created, waiting for `doneCh`), `pc` the
statements of `App.run` that wait or spawn. `ready`, `readyCh`, `finished` and
`err` are the fields of the three service jobs. `listener` and `awaitsAddr`
are `net.Listen` and the goroutine that waits for its address and may be late.
`signals` and `interrupt` are the loop of `ServeSignals` and the goroutine of
the first SIGINT: SIGTERM leads `signals` to `shutdown`, or to `lost` before
`NewProcess` has run, where methods of a nil `*Process` return at once; a second
SIGINT leads it to `closing`, or to `ignored`.

Start-up checks and the set-up of the remote side are one step each that
succeeds or fails. Not told apart from a failing main job: JIRA's `Terminate`
after a failed health check (what the error does anyway) and the error of
GitLab's `db.Close`.

### ChatPlugin

`state`, `pluginData` (external auth server), `about`, `shown` (external chat
server), `connected`, and a record per handler with its control state and
locals. A handler goes through *recipients, posting, saving* or *reading,
updating*; each remote call is one action with its three outcomes: done,
failed without effect, failed after its effect. `history`, `pendingEvents`,
`excuses` and `faults` are observers; only the bounds read them. An excuse is
recorded when a call fails, an event is lost, a crash hits a handler, two
handlers of one request overlap, a request is announced again, or its plugin
data expires: `CorrectOrExcused` says this list is complete. `Handler` bounds
the jobs at a time: an event waits until one is free. In Slack a channel is
told apart by what it is addressed by.

### Tracker

One module for the three plugins, which differ in a few places only; `plugin`
says which one it is.

| variable | code |
|---|---|
| `state`, `pluginData` | access requests and their plugin data at the auth server |
| `database` | GitLab's bolt bucket from issues to requests |
| `ticket` | the issue or incident: the request in its description, key or property, open or closed, `mark` = label (GitLab) or status (JIRA) |
| `asked`, `webhooks` | what people decided on a ticket, and webhooks not yet handled; a PagerDuty webhook may carry several messages |
| `job` | handlers of events and webhooks: statement they are at, and their locals |

A pending event goes through *filing, indexing* (GitLab), *saving* and *on
call?* (PagerDuty), a deletion through *reading, expiring*, a webhook through
*lookup, checking, matching, setting, closing*. Each is one remote call, which
succeeds, fails, or fails after its effect, also because of the deadline of
the handler. A webhook that was not handled without an error may be delivered
again (`Redeliver`), also while its first delivery is still in progress, or
its sender gives up. `Crash` stops all jobs at once. The three refusals of the
code are `Refuse`: the request is no longer pending, the plugin data names
another ticket, the auth server takes no such change. The messages of one
PagerDuty webhook are about decisions of one kind (`Batch`), as its two actions
have a path each (webhook_server.go). People decide on open incidents, and on
issues that are not expired; an issue of GitLab may be closed, as its labels can
still be changed.

`excused` is an observer with the requests for which one of these happened:
events overlapped or announced the request again, an event was lost, a call
failed, the plugin crashed, somebody else resolved the request, its plugin data
expired, JIRA had no transition to expired, a message stood behind a refused
one, the sender of a webhook gave up while the request was pending. `carried`
is what the plugin has set, `onCall` whose user it found on call. What becomes
of a decision is `DealtWith`: it was carried out; or `Overruled`, when another
decision of people's was, or the automatic approval of a user on call, after
which PagerDuty's webhook with a denial is refused (app.go:374, app.go:222); or
the request is deleted. `CarriedOutOrExcused` says that this, the tickets closed
and marked, and the list of `excused` are all that can happen. `stale` marks a
job whose request changed after the job checked it: such a job may still replace
an approval by a denial, and `DecidesPendingOnly` says it can change nothing else.

### WatcherJob, HttpServer, Services

`watcher` is the job: registered, connecting, waiting for the first message,
in its event loop. `stream` has one entry per connection for the goroutine of
`newWatcher`, which outlives the job's interest in it: its receive loop, the
event it is handing over on the unbuffered channel (`sending`), the error it
ended with. `http` is the job of `HTTP.ServiceJob` (`pc`), its terminate
callback, and whether the server was shut down or closed; `connection` is what
became of a request in progress. `CloseServer` is the goroutine of
`ListenAndServe` (http.go:210-213), which waits for the context of the job, and
the context ends with the job (process.go:84).

In `Services` the supervisor is the two flags its jobs see, `terminated` and
`closed`; what it owes them is the subject of `Process`. `WatcherJob` follows
`access/service_job.go`; the copy in `lib/watcherjob.go` differs in readiness
(in `App`) and in what handlers do (in `ChatPlugin`).

### JwtApp

`env` are the environment variables read by `app.js` and the certificate of
the proxy; `Load` makes `client` of them. `published`, `signer` and `former`
are Teleport's keys, which it rotates in phases or at once. `memo` and `fetch`
are the memoized key of the jwks-rsa client and its request in flight, with
what the endpoint has answered, which may be outdated when it arrives. A
`request` waits for the key, verifies its token with it, and is answered: 403,
a page, or 500 when the template meets a token without roles. `due` is an
observer: the request came with a good token while nothing of an earlier key
was left, and neither a failed fetch nor a rotation has excused it since.

## 3. Runs

| run | instance | shows |
|---|---|---|
| `process` | 2 services, 1 task, 2 callers | invariants, refinement of `Lifecycle` with its liveness, graceful shutdowns end |
| `app` | webhook plugin: http and watcher | readiness, errors, failure of a service at any point of the start-up |
| `app_chat` | chat plugin: watcher, one handler | Run returns last, every shutdown that reached the process ends the program |
| `app_sigterm` | same | violation: a SIGTERM before `NewProcess`, the only signal of the trace, is lost |
| `app_panic` | same | violation: spawn on a finished process |
| `chat` | 1 request, 2 channels, 2 handlers at a time, 2 pending events, 1 fault | no duplicates, completeness of the excuses, truth of messages and data, refinement of `NoticeBoard` |
| `chat_live` | 1 request, 2 channels, 3 handlers, 1 fault | resolutions get shown |
| `chat_reflects` | 1 request, 1 channel, no fault | violation: messages stay pending although nothing failed |
| `tracker` | each of 3 plugins: 1 request, 2 tickets, 2 jobs, 2 pending events, 2 decisions, 1 fault | tickets and requests do not mix, decisions carried out, overruled or excused, what may replace a decision, refinement of `Desk`; no decision stays undecided |
| `services` | 2 events, 1 fault (2 connections), 1 open request | events in order, none twice, none missed while connected; reconnection; both jobs end |
| `services_cut` | same | violation: the graceful shutdown cuts requests off |
| `jwt` | 3 keys, 2 requests, 8 environments | waiters, good tokens, certificate, retired keys, answers, recovery from a rotation |

Why these bounds are enough to be interesting:

- *Process*: two services let one register before and the other during or
  after termination; two callers let a `Close` race a `Shutdown`; the task can
  outlive its spawner.
- *ChatPlugin*: two channels make a broadcast and an update interruptible in
  the middle; two handlers at a time overlap a pending handler with a
  resolution (three with a deletion as well); three stamps are one more than a
  channel can get messages with two pending events. Several requests at a time
  are left to the proofs (`ShownIsTrue`, `DataIsOwn`, `ImplementsBoard`).
- *Tracker*: two jobs make two webhooks, a webhook and an event, or two events
  of the request overlap; two tickets are what two announcements file; two
  decisions can be opposite ones, or be put into one PagerDuty webhook. As
  with the chat, several requests are left to the proofs.
- *Services*: one fault makes an old connection and a new one overlap, two
  events can be split between them.
- *JwtApp*: with three keys a second rotation meets what the first one left;
  two requests share a fetch; the environments have one of each kind of
  address, flag, port and certificate, and one where two settings interfere.

One fault suffices for each excuse, as no property needs two faults to be at
stake. Bounds by name: `MaxPending` (pending PUT events of a request),
`MaxDecisions` (decisions people take), `MaxEvents` (events of the auth
server), `MaxFaults` (failed calls, lost connections, time-outs, crashes), and
the sizes of `Handler`, `Stamp`, `Job`, `Ticket` and `Key`.

`CHECK_DEADLOCK FALSE` everywhere: a plugin that has shut down, a request that
is deleted, and an application that could not start stop for good. Symmetry is
used in `chat` only, which checks no liveness.

Each property has a mutant in `PROJECT.json`: a plausible slip in the code,
written beside the definition it replaces, that TLC finds to violate it.

### Fairness

Goroutines and callbacks run, remote calls end (they have deadlines), a service
told to stop returns, a deadline passes. Nobody owes us a signal, an event, a
failure, a reconnection of the chat plugins, a rotation or a free auth server.

- `Process`, `App`, `Services`: weak fairness of each goroutine's next step.
  In `Services` the handler of an HTTP request may take for ever.
- `ChatPlugin`: weak fairness of each handler.
- `Tracker`: weak fairness of each job, and strong fairness of `Redeliver`
  per ticket: a webhook not yet handled is delivered again, although the job it
  needs may be busy in between. GitLab, PagerDuty and JIRA repeat a webhook
  that was answered with an error, and giving up is an excuse of its own.
- `JwtApp`: weak fairness of the end of a fetch (30 s), of its callback, of the
  expiry of the memo and of `verify`.

### Findings

1. A SIGTERM before `NewProcess` is consumed and the plugin runs on
   (`app_sigterm`). The property speaks of SIGTERM only, with no SIGINT before
   it; the forced stop of a second SIGINT is not meant.
2. A SIGTERM between `NewProcess` and `SpawnCriticalJob` makes the spawn panic;
   between the last `jobs.Done()` and the close of `doneCh` it misuses the
   WaitGroup instead: `runner = "misused"` (`app_panic`).
3. A request resolved while its pending handler is still posting keeps its
   messages pending for ever (`chat_reflects`).
4. The graceful shutdown of the HTTP server waits five seconds for requests
   that the end of the job cuts off at once: `Shutdown` makes `Serve` return,
   the job ends, its context is cancelled, the server is closed
   (`services_cut`).

Two remarks without a run. `Close` alone never returns: it cancels all jobs and
waits for `doneCh`, but only `terminate` releases the main job; in
`ServeSignals` this takes a first SIGINT lost on the nil process. And
`criticalErrors` is declared and never appended to, so it is not in the model.

## 4. Proofs

`ProcessProofs`, for any finite sets of services and tasks and any callers
(`JobsAssumption`): type correctness, `WaitGroupExact`, `DoneMeansDrained`, and
`ProcessRefinesLifecycle`. None of them is inductive alone. `ProcessInv` joins
the types and the exact count with three facts: the flag OnTerminate reads and
the `Once` agree (`OnceFlag`), a terminated process has no callback that is
only listed (`NoLostCallback`), and `doneCh` is closed only with the count at
zero, where it stays (`DoneMeansZero`). The count is an identity between a
number and cardinalities, so each step goes through lemmas on adding an element
to a finite set and removing one. The refinement maps `terminated` and `doneCh`
to the phase and the running jobs and callbacks to `live`. Of the liveness,
`NeverStuckCorrect` is the half that needs no fairness: while the process
terminates there is always a goroutine whose next step waits for nobody.

`AppProofs`, for any handlers, with and without a webhook server
(`AppAssumption`): `AppUsesProcess`, by which everything proved of `Process`
holds of the plugins, type correctness, `ReadyIsTruthful`,
`ServiceErrorReported` and `RunReturnsLast`. The step into `Process` needs an
invariant of its own: only a plugin with webhooks gets to the statement that
spawns the http job (`WebhookOnly`), and a finished service has registered its
callback (`FinishedIsRegistered`). Readiness needs that the address of the
http server arrives once, however late (`HttpReadyOnce`). Errors need that a
job is over only after it finished (`OverMeansFinished`), that a main job
without an error has seen every service finish without one (`MainVerdict`) and
that Run waits for a main job that was started and then for `doneCh`
(`RunnerInStep`); with `DoneMeansDrained` of the supervisor they follow.

`ChatPluginProofs`, for any requests, channels, handlers and stamps
(`ChatAssumption`): type correctness, `ShownIsTrue`, `DataIsOwn` and
`ChatRefinesBoard`. The inductive `ChatInv` adds what the control state of a
handler says about its locals (`HandlerTrue`: its request, a status that
request has had, posting only for a pending one), that the messages it works
with are about its request (`HandlerDataOwn`), and that a message never posted
has its first status (`FreshPending`). Symmetry and the bounds play no part.

The other two invariants need more. `ChatNoDuplicates` counts: a pending event
is a licence for one message per channel, held by its handler until it posts
there, so messages and handlers that may still post are together no more than
the events (`Licensed`; `Counting` has the arithmetic of adding to one set and
taking from another). A call that fails uses the licence up, with or without
its effect, and a crash gives it up. `ChatCorrectOrExcused` follows the
requests nothing is blamed for (`Clean`): they have one handler at a time, it
has the status of their state now, it has posted exactly what it remembers and
what it is going to save, and whenever no pending handler is left the plugin
data names all their messages. Any step that breaks this is a step that
records an excuse; so the list of excuses is complete for any number of
channels, events and faults, not only within the bounds of the run.

`TrackerProofs`, for any requests, tickets, jobs and bounds and all three
plugins (`TrackerAssumption`): type correctness, `TicketIsOwn`,
`DecidesPendingOnly` and `ImplementsDesk`. The inductive `TrackerInv` is one
predicate per job, `JobFits`: the ticket it holds is about its request, its
decision and what is left of its webhook were asked for, or its user was found
on call, and between its check and the call that sets the state the request is
pending unless the job is stale; a job of an event asks for an approval only.
While a job is at that call, only the call changes the state and ends the wait
at the same time (`OnlyItsCallDecides`). Filed tickets and decisions asked for are for
good, so a job that fits goes on fitting whatever the others do
(`FitsPersists`); only the state of a request can change under a job, and then
`Outdate` marks it (`FitsOutdated`). Each action of a job then needs its own
next record to fit (`StepInv`). JIRA reads the decision from the issue, which
needs `MarksAsked`. The refinement maps a ticket to the request it is about:
filing, deciding, finding on call and setting a state are steps of the desk,
everything else stutters. `DecisionsWarranted` shows of the desk that what was
carried out stays warranted, and takes it over to the plugins.

`TrackerCarriedProofs` is about what becomes of tickets and decisions, under the
same assumptions. `TrackerOneTicket` counts licences as above. For
`TrackerCarriedOut` one has to know why a webhook may leave the queue, and what
is still to be done for a request. Three invariants on top of `TrackerInv` say so:

- `AllKnow`, of all requests: every message of a webhook in delivery is still to
  be handled by its job or about a settled request (`JobKnows`), so that a job
  that ends well drops no decision on a pending request (`SentKept`); a job that
  expires a ticket or closes one has seen its request deleted or settled, for
  good; at JIRA a webhook has one message, and an issue people have moved is not
  pending any more (`MarksKnow`).
- `StatesCarried`, of all requests: a request that is approved or denied and not
  excused was so by the plugin. With `Warranted` of the desk, the decision that
  stands was asked for or automatic.
- `CleanOrExcused`, of requests nothing is blamed for: one job of an event at a
  time and one ticket (`OneEventJob`, `OneTicket`); the plugin data is empty
  while that job prepares the ticket, the request is then pending and nobody
  decides on it, and it is filled afterwards (`DataSaved`); a decision taken
  while the request is pending is in a webhook still to be handled
  (`DecisionsSent`); a ticket that is still open although its request is
  settled, or not marked although it is deleted, has a job that is going to
  close or mark it (`TicketsClosed`, `TicketsMarked`).

Each action of a job first gets a lemma that says what it makes of the job's
record and of the webhooks (`CreateTicketTurn` and so on: the job ends, goes on
to the next message, or goes on to another control state); the invariants
are shown from these lemmas instead of the actions. A request another job works
for is left alone (`OtherRequestClean`), and so is one whose job only moves on (`JobsFrame`); what
remains are the steps that file, save, delete, decide, close and expire. With
no job and no webhook left, `CleanOrExcused` leaves no decision on a pending
request; a request that is not pending any more got there by `StatesCarried`,
and a decision is either the one that was carried out or overruled by it: that
is `CarriedOutOrExcused`. The half of `EventuallyDecided` that needs no fairness
is a theorem this way: while a request is pending and nothing is blamed for it,
each decision on its tickets is in a webhook still to be handled
(`TrackerLosesNoDecision`).

`JwtProofs`, for any keys, requests and environments (`JwtAssumption`,
`EnvAssumption`): type correctness, `NoLostWaiter`, `GoodTokensPass`,
`CertificateChecked` and `RetiredStaysRetired`. `JwtInv` adds that a client
reaches Teleport exactly as configured (`ClientTrue`), that Teleport publishes
the key it signs with, and that while a page is due Teleport has one key and
nothing of an earlier one is left (`RequestTrue`), so that a fetch brings that
key or fails. That a retired key stays retired is an action property: trust
grows only by a key of Teleport that has not signed before (`TrustGrows`).

`ServicesProofs`, for any number of events, faults and HTTP connections
(`ServicesAssumption`): type correctness, `SpawnedInOrder`, `NothingMissed` and
`StuckOnlyIfGivenUp`. In `ServicesInv` the connection in use brings events in
order and newer than those handled, and has skipped none (`StreamFits`,
`CurrentFits`); a new connection starts with what happens from then on; every
connection but the first is paid for by a fault (`Paid`), which bounds their
number; and a connection that was closed before it ended was given up
(`ClosedFits`).
Two theorems are the halves of `ListensAgain` and `ServicesStop` that need no
fairness. `FirstMessageFirstCorrect`: a connection hands no event on before its
first message was received, so a job that waits for that message waits for the
server and never for an event that took its place. `StopNeverStuckCorrect`: once
the process is terminated, and until both jobs are down, each of them has a step
left that needs no server, no time-out and no other job. `GoOnInv` adds what they
need: a registered job has its callback, and a callback that ran has left its flag
(`CallbacksFit`), a server that was closed has no connection open (`CutFits`), and
the first message is the head of the queue until it was received
(`FirstIsFirst`).

Checked by TLC only: liveness, which is out of the prover's reach, as is
ENABLED: `GracefulShutdownEnds`, `ImplementsEventuallyDown`, `SignalStops`,
`ServiceFailureStops`, `EventuallyShown`, `EventuallyDecided`, `ListensAgain`,
`ServicesStop`, `EveryRequestAnswered`, `RotationHeals`. Every invariant, action
property and refinement of a passing run is also a theorem.

## 5. Not modelled

- Mattermost's ETag cache: two requests that decode into one shared result
  pointer are a data race on the fields of a struct inside the HTTP client;
  what either reads is decided below the level of these models.
- The set-up of hook and labels at GitLab, of extensions and custom actions at
  PagerDuty: one step of `App` that succeeds or fails. The next start finds
  what is left over by its URL or name. `LabelsChange.Diff`, a set difference
  by id, is taken as given.
- Terraform provider: each operation is one or two calls to the auth server
  without state of its own; Terraform keeps the state and orders them. A
  resource made between the check and the upsert of create is overwritten,
  which the API leaves no way to prevent. Its schema is generated.
- Example plugin: a sequential loop that stops at the first error.
- Slack: one channel configured by name and by id is two recipients and gets
  two messages; a channel is told apart by what it is addressed by.
- The Tomcat sample: a minified vendor bundle.
- Configuration, logging, TLS files, versions, message layout, test harness:
  no state of their own, or pure I/O.
