# heysnap in TLA+

TLA+ models of heysnap, checked with TLC, and their safety properties proved with TLAPS.
heysnap gives each user a personal machine ("computer") that runs an agent; a cloud server
creates the machines and is the way to them. What can go wrong here is mostly between
processes: the two ends of a websocket tunnel, a queue that is dropped while somebody
counts on it, a client that reconnects to a run that has ended, a server that is replaced
under everybody's feet. That is what these modules are about.

Paths are relative to the repository root, which `PROJECT.json` calls `src/`.
`PROJECT.json` lists the components, the runs, the mutant that each property must catch,
for each definition the source lines that it models, the hazards and the theorems.

    tlc -workers 2 -config MCTunnelHttp.cfg TunnelHttp.tla      # a run
    tlapm TunnelSchedulerProofs.tla                             # the proofs

## 1. The system

| Component | State | Operations | Status |
|---|---|---|---|
| **Tunnel send scheduler**, `packages/tunnel-protocol/src/index.ts` | a Map of queues of frames per logical connection, byte counters per queue and in total, the turn of each queue in a round, a drain timer | enqueue, enforceLimits, drainNow, removeConnection, close | modelled, proved |
| **HTTP over the tunnel**, `packages/cloud-server/src/gateway/tunnel.ts`, `packages/server/src/tunnel/client.ts` | cloud: pending requests with their timeouts, active streams; machine: pending requests, handlers, abort controllers | proxy a request, buffered or streamed; start, body, end and close frames both ways; timeout; cancellation; overload; loss of the socket | modelled, proved |
| **WebSocket routes over the tunnel**, the same files | cloud: the users' websockets by connection id; machine: the local ones, with what is kept until they open | open, data and close both ways; errors; overload; loss | modelled, proved |
| **Tunnel registry**, the same files | the tunnel of each machine, its heartbeat; at the machine the connection attempt, its timer, its back-off | authenticate, replace, heartbeat, connectSoon, connect, stop | modelled, proved |
| **Agent runs and their clients**, `packages/server/src/agent/run-manager.ts`, `http.ts`, `apps/web/src/lib/agent/agent-client.ts` | runs with their logs of envelopes and subscribers, three indexes; the client's run id, last event id, attempts; what the user sees | start, edit, follow, resume, cancel, append, end, prune; reconnect; join from a snapshot | modelled but for steering; proved |
| **Agent harnesses**, `packages/server/src/agent/harnesses` | codex: the app-server process, the table of requests, listeners, queues of turns | request, close, exit, notify; send a message, follow a turn | codex but for edits and steering, proved; pi and mock not |
| **Agent session sync**, `packages/server/src/agent/session-sync.ts` and `packages/cloud-server/src/agent-sessions` | manifest of uploaded files by hash; objects and their rows | discover, plan, put, retry | modelled |
| **Uploads**, `packages/server/src/filesystem/upload.ts`, `apps/web/src/lib/filesystem/filesystem-upload.ts` | upload sessions, temporary files, targets | create, append at an offset, complete, delete, expire | modelled; downloads change no state |
| **Filesystem session**, `packages/server/src/filesystem/websocket.ts` | one websocket's subscriptions, watcher, debounce timer | subscribe, replace the watcher, publish, close | modelled; the file operations themselves not |
| **Capability operations**, `packages/server/src/capabilities` | operation records, installations, terminals | start, progress, cancel, finish, time out, evict | records and their work; not what installers do |
| **Browser control**, `packages/server/src/browser-control/service.ts`, `apps/web/src/lib/browser` | attached clients, pending commands, output files | attach, dispatch, retry, write an output, abort, time out, clean up | modelled but for attachments |
| **Browser-view relay**, `packages/cloud-server/src/gateway/tunnel.ts` | sessions, publisher, viewers, caches | publish, view, replace, delete | modelled, with the hooks at either end; what a phone shows is proved |
| **Machine release**, `packages/machine-bootstrap` | installed releases, link to the current one, version, migrations | download, verify, switch, migrate, restart, roll back | the release script; not registration |
| **Control plane**, `packages/cloud-server/src/control-plane`, `machines`, `admin`, `provisioning` | rows of computers and machines, cloud instances | create, start, stop, delete, register, heartbeat, auto-sleep; an administrator's start, stop, restart, deletions and revocation | EC2, one computer; proved |
| Machine runtime, `packages/server/src/runtime.ts` | what runs now, safeToRestart | status, stop | not modelled: assembly |
| Accounts, the rest of admin, gateways to models and services, pricing | database rows | CRUD, stateless proxies | not modelled: nothing spans several steps |
| Database | | statements | those on computers and on session uploads, as atomic steps |
| **File browser's connection**, `apps/web/src/lib/filesystem/filesystem-connection-manager.ts` and its twin in `apps/mobile` | one websocket, its status, heartbeat and reconnection timer; pending requests; the subscribed path | connect, disconnect, reconnect, ping, subscribe, resubscribe | modelled, for both applications; proved |
| Previewer, the rest of the web and mobile applications, skills, images | | conversion, rendering, scripts | not modelled: data and I/O |

Of what is modelled, every safety property that a run checks is proved too (section 6).

How they interact. A user's browser speaks HTTP and websockets to the cloud server. The
gateway turns each request and each websocket into a *logical connection* with a random id
on the one websocket that the machine has opened to the cloud; the machine's tunnel client
turns it back into a request or a websocket to its own local server, on which the agent,
filesystem, capability and browser services listen. Both ends put their frames through a
send scheduler, which keeps one queue for each logical connection in front of the socket.
A close frame ends a logical connection; the loss of the tunnel ends all of them. The agent
service turns what a harness yields into a log of numbered envelopes that clients follow
with server-sent events, over such a connection, and so have to expect that it breaks.

Everything is a single-threaded event loop at each end. What interleaves are handlers,
timers and socket events, and two of them can come between any `await` and what follows it.

## 2. What is hard here, and what has to hold

`PROJECT.json` has the list of hazards, each at its line and with the properties that
guard it. In short:

* **Scheduler.** Two ways to the socket, a direct one and one through a queue, must keep a
  connection's frames in order. Counters run along instead of being computed and must not
  drift when queues are dropped. A timer must come back for what is queued. A limit must
  drop whoever is to blame. Bulk transfers must go on.
* **HTTP over the tunnel.** A request spans three tables at the cloud and two at the
  machine, and a frame of it may be queued, dropped with its queue, refused, or on the
  wire when anything else happens. Each caller must be answered once, with one answer and
  not a mixture; nothing must outlive the tunnel; a request that nobody waits for must stop.
* **Routes.** Three websockets in a row, each of which opens, fails and closes in its own
  time. Each direction must deliver a prefix of what was sent; the end of one side must
  reach the other whatever was queued, even when the one is still opening.
* **Agent runs.** A client must see each envelope once and in order across any number of
  reconnections, a message that is posted twice must be one run, an edit must be alone in
  its thread, and no client may hang on a run that has ended or that the server forgot.
* **Joining a run.** What a client has comes from a snapshot, what it still needs from a log,
  and the two are compared by what the snapshot shows. What comes is merged into what looks
  like the same message. Nothing that was told may be missing.
* **The app-server.** All turns share one process. Requests must not wait for a process that
  cannot answer, a turn must miss nothing that is said before its id is known, and processes
  must not pile up. An answer that comes late concerns those who wait then.
* **Registry.** Old connections authenticate, close and fail late. There must be one tunnel,
  users must be on it, and the machine must come back after crashes and lost paths.
* **File browser.** Close events of old websockets, late pongs and rejected subscriptions all
  end in the same reconnection timer. There must be one websocket, and the browser must come
  back to its directory.
* **Browser view.** A page publishes, a relay caches, a phone shows, and each of the two
  websockets comes and goes. The phone must show what the page that publishes now has, and
  a page must not lose its place to its own past.
* **Files.** Handlers await the file system while sessions expire, are deleted, aborted or
  lose their client. What is in place must be whole; what is temporary must go.
* **Watching.** Subscriptions overlap and replace each other's watcher. The directory that is
  shown must be watched in the end.
* **Records.** A limit evicts, a cancellation overtakes, a handler writes what it read long
  ago. A terminal must stay reachable; a row must tell the truth about its instance.
* **Releases.** A script with crashes between any two lines, and shell rules about failures.
  What runs must be what was verified, and what the machine says it runs.

## 3. The modules

| Module | What it is |
|---|---|
| `SeqSums` | sums of sequences, stated without recursion (`SumsTo`), so that they can be proved about |
| `SeqFilter` | the elements of a sequence that are in a set, as a function of the position, for the same reason |
| `SequenceProofs` | lemmas that the proofs share: sums after a push, a shift, a removal and a change; `Filter`; elements of sequences; induction over numbers |
| `TunnelScheduler` | TunnelSendScheduler with its socket |
| `RouteChannel` | the abstract specification of what the scheduler is to one connection |
| `TunnelSchedulerProofs` | its inductive invariant and the theorems; that it implements a `RouteChannel` for each connection |
| `TunnelLink` | one tunnel's websocket: its two ends, queues and wires; extended by the next two |
| `TunnelHttp` | a proxied HTTP request through cloud, tunnel, machine and local server |
| `TunnelHttpProofs` | its inductive invariant, and the theorems for any number of requests and chunks |
| `TunnelRoutes` | a websocket route along the same way |
| `TunnelRoutesProofs` | its inductive invariant, and the theorems for any number of routes and messages |
| `TunnelRegistry` | the connections of one machine to the cloud, their replacement and heartbeats |
| `CodexTurns` | the codex app-server's process, its client and the turns that share it |
| `AgentRuns` | the run manager, its HTTP handlers and the clients that follow runs |
| `CodexTurnsProofs` | the inductive invariant of `CodexTurns`, for any number of calls, processes and lines |
| `AgentResume` | a client that joins a run: snapshot, log, replay, and the reducer with its merging of messages |
| `AgentsProofs` | the inductive invariants of `AgentRuns` and `AgentResume`; the theorems of the run `agents` |
| `FilesystemConnection` | the file browser's websocket, at the web and the mobile application |
| `BrowserView` | a browser's view from the page that publishes it to the phone that shows it |
| `UploadSessions` | uploads of the web application to the machine |
| `BrowserControl` | commands to a user's browsers, with their output files |
| `MachineRelease` | the script that installs, updates and rolls back releases |
| `AgentSessionSync` | the sync of session files, at the machine and at the cloud |
| `FilesystemSession` | one websocket of the file browser |
| `BrowserViewRelay` | the relay of a browser's view to other devices |
| `ControlPlane` | a computer's row, identity and instance, under its user, administrators and its machine |
| `CapabilityOperations` | records and work of the operations on agent tools |
| `ConnectionsProofs` | invariants and theorems of `TunnelRegistry`, `FilesystemConnection`, `BrowserView` and of the run about them |
| `ServicesProofs` | invariants and theorems of the eight parts of the run `services`, and of the run |
| `MCAgents`, `MCConnections`, `MCServices` | several of these in one run: a behaviour is about one of them |
| other `MC...` | constants for TLC; a module whose constants a .cfg can give has none |

### TunnelScheduler

`order` and `frames` are the Map `queues` and its iteration order, `queuedBytes`,
`sentInRound` and `totalQueuedBytes` the fields of the same names, `drainTimer` whether the
timer is set. `accepted` and `handed` are histories: the number of the last frame of a
connection that was offered and that was given to the socket; `gap` has the connections of
which something was dropped. Numbers are modulo `Wrap`; the queues are shorter than that in
the run, and the proofs do not depend on it.

`enqueue`, `enforceLimits` and `drainNow` contain loops whose iterations drop queues and
call back, so they are unfolded: `pc` says in which loop the scheduler is and each iteration
is a step. No other handler runs meanwhile (each asks for `pc = "idle"`): the code has no
`await` there. `removeConnection()` inside the callbacks drops a queue that
`enforceLimits()` has already dropped and changes nothing. `Flush` is the kernel that takes
bytes from the socket's buffer.

`RouteChannel` is one connection's view: a first-in-first-out channel that may break. What
waits leaves from the front, nothing passes what waits, and it is dropped as a whole or not
at all. The scheduler implements one for each connection, under the mapping `Channel(c)` at
the end of `TunnelScheduler`; `ImplementsChannels` says so in a form that TLC checks.
`TunnelLink` relies on no more of the scheduler than this.

### TunnelLink, TunnelHttp, TunnelRoutes

For each logical connection and each direction there is the queue of the scheduler and the
wire. A frame goes straight to the wire when nothing at all is queued, and *may* be queued
at any time: other connections keep the scheduler busy. At any time the common limit may
drop a connection's queue (`UploadOverflows`, `ResponseOverflows`, `UpOverflows`,
`DownOverflows`), as `TunnelScheduler` does when other connections fill it. That is all
that other connections can do to this one, so one connection in the runs stands for each of
many. Ids are never reused: a slot is taken again only when no frame of it is left, as a
fresh id.

An end of the websocket is open, closing (no longer open, its `close` event to come) or
closed. The cloud's may also be replaced: the machine has opened another tunnel while this
one's `close` event is outstanding, and the registry ignores what it still brings. A machine
process that dies (`MachineExits`) takes everything at that end with it.

`TunnelHttp` has, at the cloud, `reply` (what the caller has got), `pending`, `timer`,
`active`, `upload` (the frame of the request that sendHttpRequest awaits), and at the
machine `machinePending`, `handler` (the await at which handleHttpRequest stands),
`controller` and `aborted`. A handler's steps are split at its awaits. `TunnelRoutes` has
the states of the user's websocket (`gateway`), of the local one (`local`), the two tables
(`known`, `inLocal`) and `pendingData`. Bodies and messages are numbered chunks; 502 and a
JSON error body are kept apart from the local server's answer, since properties tell them
apart. Streaming back-pressure, header filtering and the text of errors are left out.

### AgentRuns

`runs` are the records of the run manager, in the order of its Map; one that was pruned or
lost with the process is `gone`. A record's owner stands for its clientRunId. `client` is
the state of one call of startAgentRun, editAgentThreadUserMessage or resumeAgentRun, and
`stream` what is on its way in the response. `requests` are those that the server has not
answered; a POST whose connection broke stays there and may be handled all the same, which
is why it can be posted twice. The edit's handler awaits the thread and so is two steps,
`EditAccepted` and `EditStarts`. Envelopes keep their type only; `run_end` and `error` are
both `last`, as every line of the code treats them alike. Joining a run starts after *any*
number of envelopes; which it is is the subject of `AgentResume`.

Steering and cancelling reach the harness, which is outside; a harness may yield events,
end or fail at any time, or work for ever.

### CodexTurns

`child`, `initialized` and `readline` are fields of CodexStdioAppServerClient; `process` has
each process with the requests it has to answer (`todo`) and the lines that are not read;
`muted` are those whose readline was closed. `call` is a sendMessage() of the harness at its
awaits: the request for the thread, the attachments, the request for the turn, the loop over
notifications, the reading of the thread at the end. `Requests` is request() with
ensureInitialized() and the start of the process. An exit event may come long after the
process has ended, and after the client has another one. `AnswerArrives` and `InvalidArrives`
part what handleLine() does with an answer: a result, or the error of a request that is in
pendingRequests, is that request's own; any other error, and whatever is no message, rejects
all that are in the table, and closes the client if `initialize` is one of them. Three things
that the model shows and no document excludes: a turn whose process ends is followed for ever
(`rejectPending()` knows of requests only), so its run stays active, its thread refuses edits and
the machine is never safe to restart; an `error` notification, which belongs to every thread and
turn, ends all turns that are followed; and an error that comes for a request that was rejected
before fails the requests of other turns.

### AgentResume

`agentThread` is the thread at the agent, which may have messages of earlier turns, of the user
and of the assistant; `notices` what it has said and is not in `runLog`. `SnapshotIsRead` is
getThread(), `ThreadIsLoaded` the rest of the handler with getActiveRunForThread() and the
client's load and join, `ReplayPlaces` where getReplayAfterEventId() may end with its
representation tests, `Applied` the reducer with the buffer of deltas.

The reducer does not only look at ids. A message whose id is unknown may be merged into one of
the same role with the same text, or, of the assistant, with a text that is the beginning of its
own or the other way round (`Keys`: findEquivalentMessageKey); its id is an alias from then on
(`view.alias`), its deltas go to the message it is an alias of, but for those that are there
already (`Appended`, with `view.replayed`: replayedAssistantTextBySourceId).

A text is its length. The texts that the server has of one message are beginnings of one text, so
`startsWith` compares lengths. What texts of *different* messages have in common is left open:
wherever the client compares them, each outcome that the lengths allow is a step. One outcome
need not agree with the next, so the model has more behaviours than the code, and what holds of
it holds of the code. The ids of live events and of the snapshot are taken to be those of the
app-server's items, which are the same for both; messages of the client's own that wait for
their id are not there, since a client that joins has sent none.

Shown by the model and promised by nobody: a message that is merged replaces the other's text,
also when they are two messages of which one begins like the other (an empty one is the beginning
of all), or a user says the same thing twice in a thread: the earlier is not shown until the
thread is fetched again. Deltas can be shown twice until the
message is completed (an event that no snapshot has, as request.opened, stops the scan before
represented deltas), an item that the snapshot had unfinished stays so until the run is over,
and a run that ends between the snapshot and the lookup leaves a stale view until the next
fetch.

### TunnelRegistry

A connection is a slot with two ends and two wires. `machine` and `cloud` are the states of
the ends, `registered` the registry's Map (one machine), `reconnectTimer`, `reading`,
`cloudWebSocket`, `heartbeat`, `awaitsPong` the fields of MachineTunnelClient. Upgrades are
authenticated with an await, so they overtake each other; `close` events come when they come.
A path that is lost delivers nothing and tells nobody: heartbeats find out. A connection
attempt whose path is lost is *not* found out, since it has no time limit (`Unanswered`).
The machine's server is not running at first, and is started.

### FilesystemConnection

One module for both applications (`app`), whose managers differ in two places: a request
without an open websocket is rejected by the web's, while the mobile's schedules a
reconnection and waits (`Navigate`, `WaitTimesOut`); a page that becomes visible is the web's
alone (`Visible`). `link`, `status`, `wanted`, `timer`, `beating`, `pinged` and
`subscribedPath` are the fields of FilesystemConnectionManager, `readyState` the websockets
that it has made and that have not closed yet. `fate` says what the network does to one: "cut"
delivers nothing and tells nobody, "ended" is closed from the other side. `request` has what
the machine has to answer; after the manager has rejected a request the machine may still
answer it, and its snapshot still moves `subscribedPath` ("orphan"). A directory may be
removed: its subscription is then rejected. Reading of files, mutations and open files take
the same way through request() and are left out, as are the lengths of delays.

### BrowserView

`page` has what the hook of the web application keeps (socketRef, timer, active tab, status of
the stream), `line` each of its websockets with the state of either end (an upgrade that is
being authenticated is "asked"), the messages on their way and whether the line is cut, `session`
the relay's publisher and caches, `viewer` the state of the hook of the mobile application.
Pictures are told apart by their tab; whether the page has a last frame of a tab is left open
each time it is asked. Status of the browser, list of tabs and commands are left out: they take
the same way, or none that has a state. Two abstractions: a page sends when its line is empty,
but for what it sends at once, and the viewer handles what it is sent at once; it does not
answer, so an order between its messages and other steps makes no difference. The relay has no
heartbeat here, and a publisher that is half-open stays until it is replaced.

### UploadSessions, BrowserControl

Each await of a handler is a step, so `call` and `handler` say which call of the file system
is awaited. `UploadSessions` has the client's loop (`browser`, `chunksSent`), the session Map,
`bytesReceived`, temporary files and targets; a request whose answer was given up goes on.
`BrowserControl` has the clients by lastSeenAt, the selection with its retries, a pending
request with its client, the chunks of an output, and cleanupPendingOutputs(), which runs
beside the handler that writes. Sizes, names and several outputs of one request are left out.

### MachineRelease

`step` says where each of the two processes of the script is ("latest" before a start of the
server, "update" from the heartbeat's loop); they are not kept apart. The link, the release
directories, the marks of migrations and MACHINE_SERVER_VERSION are the disk; a directory is
whole, damaged or empty. bash ignores `set -e` in what runs as a condition, so a command that
fails is followed by the next one, as the script does. Facts that came out of the reading:
the link is switched before the migrations run, safeToRestart is read long before the
restart, and the supervisor "process" has no health check.

### AgentSessionSync, FilesystemSession, BrowserViewRelay

`AgentSessionSync` goes through discovery, plan and puts, attempt by attempt, while the files
are written to; at the cloud each put is a process (`puts`) at its await: body, check, object,
thread, version, latest. A put whose connection broke goes on. `FilesystemSession` has each
subscription at its await and names a watcher after the subscription that made it.
`BrowserViewRelay` keeps for each websocket the session its handlers hold, which may not be
the one in the Map any more.

### ControlPlane

`computer` is the row (status, and whether the instance's id is in its metadata), `instance`
the machine at the provider, `identity` the machine's row. `control` has the requests of the
user and of administrators under way and `report` the machine's, each between its read, its call
of the provider and its write. The handlers under `/admin/computers` take the same steps as the
user's own and so are the same actions; an administrator may also revoke the identity
(`RevokeIdentity`) and delete the user (`ReadUser`, `TerminationFails`, `DeleteUser`): this
reads the computers of the user, terminates them, and goes on when that fails; the rows of the
computers go with the user's (`ON DELETE CASCADE`). The provider takes a request or refuses it by
the instance's state, as EC2 does. `doubt` and `missed` are histories of the cases that
`RowsTellInstances` names: four in which a row may say what is not (the provider was told the
opposite between call and write, a heartbeat wrote what it read before, a machine registered with
a row that slept, a handler broke off) and two in which an instance outlives its row (its id was
not in the row that the deletion read; or its termination failed and the user was deleted all the
same). A handler may break off at any await, as when the process of the cloud ends.

### CapabilityOperations

`records` is the manager's Map in the order of updatedAt, `opStatus`, `opCommand` its records'
fields, `opWork` what the service does for a record, `opKnown` the ids that callers have
learnt. Expiry and the limit on records (`Pruned`, `Enforce`) are part of every operation that
calls them. A cancelled installation goes on, and its record says in the end how it went.

## 4. The runs

| Run | Question | Result | Distinct states |
|---|---|---|---|
| `scheduler` | are counters, order, limits, victims and the timer right, for one interactive and one bulk connection? | passes | 32 957 |
| `scheduler_starve` | do bulk queues progress under sustained control traffic, as a test's title says? | violated | |
| `http` | does one request come to a proper end in every case? | passes | 91 224 |
| `http_cancel` | does a cancellation always reach the machine? | violated | |
| `http_failure` | is every failure of a streamed response seen by its reader? | violated | |
| `routes` | does one route deliver in order, and end on both sides? | passes | 102 125 |
| `routes_open` | is a local websocket that fails to open answered? | violated | |
| `connections` | do the machine's tunnel, the file browser and a browser's publisher keep one connection each, and come back; does a phone show what is published? | passes | 559 802 |
| `agents` | are turns heard, runs followed and joined as they should be? | passes | 1 299 683 |
| `agents_edit` | does a retried edit get its own run? | violated | |
| `services` | do eight services keep files, records and watchers right? | passes | 1 783 912 |
| `release_verify` | is the current release one that was verified? | violated | |

**scheduler.** `CountersExact`: each queue's counter is the sum of its frames' bytes and the
total the sum of the queues'. `PrefixDelivery`: what was offered is what was handed to the
socket followed by what is queued. `NothingStranded`: outside the handlers, a queue has a
timer. `WithinLimits`: outside the handlers, nothing is over a limit. `OverflowVictim`: a
step that drops a queue drops the caller's, or a bulk one while there is any.
`BacklogDrains`: a backlog that stays is drained again and again. `ImplementsChannels`: the
refinement of `RouteChannel`. *Bounds*: frames of one
and three bytes, high water 2, low water 1, common limit 4. With these a frame can be too
large for the bulk profile, over a queue's limit, over the common one, or none; a socket can
be above, between or below its marks; two queues are what priority, turn and victim need.

**http.** `WholeRequest`: the local server is asked what the caller asked. `AnswerIntegrity`
(`BufferedIntegrity` and `StreamPrefix`): an answer is the local server's, or the 502, or for a
stream a prefix of it. `WaitingIsTimed`: a caller waits if and only if it is in the table with a
timeout. `NothingOutlivesTunnel`: the end of an end of the tunnel leaves no request there.
`Abortable`: a request to the local server can be aborted while it runs. `CallersAreTold`
(`WaitingEnds` and `LossIsTold`): callers are answered, and readers of streams whose tunnel is
lost are told. *Bounds*: bodies of at most two chunks, so that there is a first, a next and a
last; the slot is used again after each request, and after reconnections.

**routes.** `InOrder` (`PrefixUp`, `PrefixDown`): order in both directions, without gaps. The
exception in `PrefixUp` is a user whose message was too large for its profile: the close that
follows overtakes an open frame that is still queued. `RoutesEndWithTunnel`: no websocket survives
its end of the tunnel. `EndsFollow` (`LocalFollowsUser`, `UserFollowsLocal`): the end of either
side reaches the other. *Bounds*: two messages in each direction, one to be kept and one to follow
it; with three the run also passes.

**agents.** `Gapless`: across reconnections a client passes on each envelope of its run once
and in order. `StreamIsCurrent`: an open stream belongs to an active run and holds all that
its client lacks. `OneRunEach`: a message is one run while the run is remembered. `EditAlone`:
an edit does not start beside another run, though its handler awaits between check and
start. `ClientsAreServed`: a client ends up closed, told, or following a run that is still
active (`FollowsOrEnds`), and a cancellation that came before the run's id does not stay
behind (`CancelIsSent`). `TurnsAreHeard`: a request to the app-server can still be answered or
is about to be rejected (`AnswersCanCome`); nothing that a turn says is lost on the way to its
call, its end least of all, unless its process has ended (`TurnIsFollowed`); and there is one
process, except when a late exit event made the client forget it (`OneProcess`).
`JoinedViewIsWhole`: what the log told up to a joined client's place is in its view: each message
under its own key or the one it was taken for, unless a later one has taken this place; with at
least its deltas while it is said, and with exactly its text when it is completed, and nothing of
it waits in the buffer to be added again.
*Bounds*: one client that posts or joins, cancels, leaves and reconnects once, and one that
edits; logs of three envelopes and a last one, so that a stream can break before, between
and after them. Reconnections are bounded by the code (MAX_RECONNECT_ATTEMPTS); one makes a
retried POST and a resumed stream. For the app-server two turns, so
that one's failure meets the other's request; two processes, so that an exit event can be
late; two lines unread, so that an answer and a notification are on the way together; one line
that is no message. For the client that joins two messages, so that one can be taken for the
other, in each of their roles, both of the run or one of an earlier turn; texts of up to two
units, so that one is a beginning, the same or longer; an item, and an event that no snapshot has;
six events, which the start of a turn, a first message and a second one that grows take; one notice
behind the log, one fetch by the user, and one when the run is over. This part also passes by
itself with nine events (three million states) and, with its inductive invariant, with three
messages of one unit. `CHECK_DEADLOCK FALSE`: each client is one call, and when the calls or the
turn are over there is nothing left to do.

**connections.** Three parts that share no state; a behaviour is about one. `OneConnection`
(`OneTunnel`, `OneSocket`, `OneLink`, `OnePublisher`): what the registry holds is the tunnel that
is open, and no user is left on another; each client knows of all its live connections, which
are at most one, has a timer or an attempt if it has none and wants one, and its heartbeat is
about that one, so that nothing is opened twice; what is open at the relay is its publisher.
`ViewIsTrue`: when all that the page has sent has arrived, the phone has its tab and the status
of its stream, no picture while nothing is streamed, and a picture of that tab when one was
sent; without a publisher it has none. It excepts what the phone was not sent because it lags
behind, until it comes back, and what a replaced publisher sent late, until the next one.
`ComesBack`: again and again
the machine is linked (`TunnelIsBack`), or was stopped, was not started, or waits for an upgrade
that nobody will answer; again and again the file browser has its directory over a websocket
that stays (`LinkIsBack`), or was closed, or is in one of two states that the module names
(`Flaps`, `Unwatched`; see section 7); again and again each page that publishes is the relay's
publisher, or was told that it was replaced (`PublisherIsBack`). *Bounds*: three connections at
the same time (one that
closes late, one that is replaced, one that is new); two faults of any kind at the tunnel, two
events at the file browser (a user's, or the network's), and with three the run also passes, in
twice the time; two directories, one of which
disappears; two requests, so that a subscription meets a user's. At the browser view two pages,
two lines, two tabs, and two mishaps beside starts, arrivals and frames, which are free: enough
to replace a publisher, change its tab and lose a line, and for a session to be deleted under a
line that still closes. `CHECK_DEADLOCK FALSE`: a
connection that was given up rests.

**services.** Eight parts that share no state; each behaviour is about one, the others rest.
`UploadsLeaveWhole`: what is in place is whole files of one upload, and temporary directories have
an owner. `RequestsAreSound`: "ok" means that the output is in place, and a pending command has a
client. `VersionIsCurrent`: the version that decides about updates is that of the current release.
`SyncedIsStored`: a version in the database is in the storage, with its content.
`ActiveIsWatched`: the directory that is shown has a watcher that is ready. `OneRelay`: all open
websockets of a user share the session in the Map. `RowsTellInstances`: a row that says
"sleeping", "online" or nothing any more is right about the instance, but in the cases that it
names. `OperationsAreHeld`: a live terminal can be reached and cancelled, what is active is not
evicted, and what is over says how it ended. *Bounds*: two actors of each kind, three where
overlap needs a third (subscriptions, operations); files of two chunks and of none, releases
twice, one fault in each part; three requests about a computer by two callers, each its user or an
administrator, beside a registration and a heartbeat. With these every action happens and each
mutant of a property is found. Uploads, clients, requests and callers are interchangeable
(`SYMMETRY`; all properties here are invariants). `CHECK_DEADLOCK FALSE`: the calls of a part may
all be over.

**Fairness.** In all of them the event loop takes what is due, the network carries what an open
socket was given, and either end notices in time that the other is gone (each end pings every 30 s
and terminates a socket that does not answer; a response that the server ended). In the scheduler
every enqueue interrupts the enabledness of timer and flush for a moment, hence strong fairness
there. The 120 s timeout of a request fires. The websockets end their closing handshakes, and an
attempt to connect to the local server succeeds or fails. In `connections` timers fire, a machine
server that ended is restarted, the store answers, sessions greet and answer, upgrades of
publishers are authenticated or refused, and a path that was lost is noticed by the heartbeat, but
not by the relay, which has none; weak fairness is enough. `services` states none: its properties
are invariants. Nothing is assumed of users, of the local server, of an agent, of failures or of
reconnections.

**Mutants.** Each property of a passing run names a change of one mapped definition, of the
kind a slip in that code would be (a guard dropped, one table left out, a counter subtracted
twice), that TLC must find to violate it; a property of several parts has one for each part
that could go wrong by itself. They stand in the modules before the definition
that they replace and are used by nothing else.

## 5. What disagrees with its description

* `BulkProgresses` (`scheduler_starve`): drainNow() resets the turns of all queues also when
  it stops at the low-water mark, so a slow socket lets the higher priority start every round.
  A test is called "keeps bulk transfers progressing during sustained control traffic"; its
  socket takes everything in one drain.
* `CancelReaches` (`http_cancel`): cancel() queues a close frame and then removes the
  connection's queue. When the socket is busy the machine is not told.
* `ProperFailure` (`http_failure`): the machine drops a streamed response for overload and
  sends a close frame; the cloud looks close frames up among the websocket routes only, and
  the reader waits until the tunnel goes.
* `OpenAnswered` (`routes_open`): the `close` event of a local websocket that failed takes the
  queued openResult of its `error` event back.
* `EditRetried` (`agents_edit`): the check that the thread is idle comes before the look at
  the clientRunId. A retried edit is refused because its own first attempt is running.

* `CurrentIsVerified` (`release_verify`): the release script relies on `set -e`, which bash ignores
  in a function that is called as a condition. A first download that fails its check is
  installed, linked and marked as current.

The findings in `PROJECT.json` quote what the documentation or the tests say.

## 6. The proofs

The theorems are about all values of the constants that satisfy the assumptions in the
modules: that bounds are numbers, that sets of names do not contain the value that stands
for none of them, and what is named below. Each follows from an inductive invariant that is
more than the properties together; TLC finds it true on small instances.

`TunnelSchedulerProofs` proves, of `Spec` and for any set of connections, any profiles,
limits, frame sizes and `Wrap`, under the assumptions that
`TunnelScheduler` makes of its constants (`ProfileAssumption`: each connection has a priority,
a weight that is not zero and a limit; `LimitAssumption`: limits are numbers, a frame has at
least one byte): `TypeCorrect`, `CountersCorrect`, `PrefixCorrect`,
`NothingStrandedCorrect`, `LimitsCorrect` and, of steps, `VictimCorrect`. They follow from
the theorem `Invariance`, `Spec => []IInv`. `IInv` is

* `TypeOK`;
* `OrderOK`: the Map has each key once, and has exactly the queues that are not empty;
* `CountersExact`, `PrefixDelivery`, `NothingStranded`;
* `LimitsHold`: `WithinLimits`, and what holds of the limits *inside* the loops;
* `ClosedIsEmpty`: a scheduler that is closed has no queues.

Why it takes that much: that a counter does not go below zero (`TypeOK`) is true since counters
are exact; they stay exact since the queue that is dropped is one of the Map, once (`OrderOK`);
order is kept since the direct way is taken only when the total is zero, which must mean that
there is no queue (`CountersExact` with `OrderOK`, lemma `BytesOfAll`); and the limits hold at the
end of the loops because of what each loop has established before the next one (`LimitsHold`). The
proof has one lemma for each action, with a step for each conjunct that the action can disturb,
and lemmas about pushes, shifts and drops of queues (`PushFrame`, `ShiftFrame`, `AddQueue`,
`ResizeQueue`, `RemoveQueue`, `DropQueueStep`). Sums are the subject of a section of
`SequenceProofs`: `SumsTo(s, t)` says that there is a sequence of partial sums from 0 to t, so no
lemma needs induction over data or a recursive operator; the facts that are needed follow from
changing that sequence.

The same module proves the refinement, `ChannelCorrect` (`Spec => Channel(c)!Spec` for
each connection `c`) and `ChannelsCorrect` (`ImplementsChannels`). Each action is one step
of the channel it is about and leaves the others alone; the invariant is needed where an
action is for the whole scheduler: the direct way (a total of zero means that this queue
is empty), a new tunnel (nothing is left from the old one) and a fresh id.

`TunnelHttpProofs` proves all safety properties of the run `http`: `HttpTypeCorrect`,
`WholeRequestCorrect`, `AnswerCorrect`, `WaitingCorrect`, `TunnelEndCorrect`,
`AbortCorrect`. `HttpInv` has the types and, for each request,

* `Caller`, `Machine`: the tables of each end agree with each other and with its socket, and
  who has not been aborted has a controller;
* `Upload`: the frames under way come in the order start, body, end, close (`InTurn`), none of
  them after the one that sendHttpRequest awaits (`NotAfter`), and the first continues what the
  machine has of the request. A frame can be lost in the middle only with all that follow it,
  so `WholeRequest` holds: an end that arrives finds the body that belongs before it;
* `Unmade`, `Made`: no frame of a response before the local server was asked, no frame of the
  request but closes after it;
* `Buffered`, `Streamed`: counted from what the cloud has (`Stage`), each frame of the response
  is the next one of an answer of the local server, or of the 502 that takes its place, and what
  the handler awaits says which frame comes last (`BufferSender`, `StreamSender`). The second is
  required only while the machine's socket is open: one that is closing loses frames, and its
  handlers run on. After a close nothing comes (`ClosesLast`).

Both directions are the queue behind the wire (`Up`, `Down`), so that the scheduler's choice
between the direct way and the queue does not appear in the invariant. Lemmas say what each
operation of the link does to them (`UpSent`, `DownArrives`, ...), and what happens to frames in
order when the first is taken, the last are dropped and one is added (`FirstTaken`,
`SegmentKeeps`, `AppendKeeps`); one lemma for each action remains.

`TunnelRoutesProofs` proves all safety properties of the run `routes`: `RoutesTypeCorrect`,
`RoutesInOrder`, `RoutesEndCorrect`. `RoutesInv` has, for each route, the tables and the sockets
(`Tables`), that a route is opened once and before anything else (`OpensOnce`), that nothing
comes of a local websocket that has not opened (`NothingYet`), and for each direction that what
was taken is 1, 2, ... and the frames under way carry the numbers after it, up to a close
(`UpInOrder`, `DownInOrder`). `RoutesEndWithTunnel` needs that the two tables have everything
that is open; `InOrder` needs that a frame kept in `pendingData` was taken off the wire in its turn.

`AgentsProofs` proves all safety properties of the run `agents`. A step of it is a step of one
part and leaves the others alone (`AgentsInvariance`), so each part has an
invariant of its own; `AgentsTypesCorrect` (`AgentsTypeOK`) needs all.

* Runs and their clients: `TypeCorrect`, `GaplessCorrect`, `StreamIsCurrentCorrect`,
  `OneRunEachCorrect` and, of steps, `EditAloneCorrect`. `IInv` has the types, `OneRunEach`, and
  for each client that the wire holds the next envelopes of its run (`WireIsNext`) and that only
  the request of its last attempt is listened for and asks for what it lacks (`Asked`): otherwise
  a stream that a late request opens would repeat envelopes.
* The client that joins: `JoinedViewIsWholeCorrect`. The property is about the view; what makes it
  true is at the agent. `AgentInv` says of all that was said, in the log or not yet (`Said`), that
  it is true of the thread as it is (`EventsAreTrue`), that a message is started first and
  completed last (`StartsFirst`, `CompletesLast`), that messages are spoken of in their order
  (`MessagesInOrder`) and that the deltas of one are no more than its text
  (`DeltasAreText`), so that a completed text, which replaces what is shown, shows no less than
  they do. A delta that getReplayAfterEventId() passes over is represented in the snapshot, and so
  all of them are (`RepresentedDeltas`); this is where it could lose text. From the chosen place on
  `Seen` goes on envelope by envelope. A message is only taken for one that came before it
  (`AliasesAreEarlier`), which is why what is lost to a merge is always replaced by something
  later (`LaterReplace`); the deltas of an alias that were not appended are those that the text
  has already, since `replayed` counts them all. Deltas of two messages never wait together,
  since a message is complete before the next one starts, and its end flushes what waits
  (`LastWaits`).
* The turns of the codex harness, in `CodexTurnsProofs`: `TurnsAreHeardCorrect`. Where a
  notification can be, between the process that prints it and the call that handles it, is the
  invariant: what the turn has said is what was handled, what is queued and what is on the way,
  and the last of them ends the turn if it is over (`IsFollowed`). This has to hold before the
  call follows its turn, as soon as it has asked for it, since notifications may come before the
  answer; and for a process whose exit event has overtaken its lines. `AnswersAreComing` has each
  request at the process, at its answer or at the initialization; `ChildLives` and `WaitsAtChild`
  tie both to the process that the client has. An answer that cannot be placed rejects all who
  wait, which leaves nobody who could wait in vain (`InvalidArrives`). 18 kinds of steps meet 13
  conjuncts, so each step is first shown to have an effect, said field by field, and the
  conjuncts are kept by effects.

`ConnectionsProofs` proves the safety properties of the run `connections`: `TypesCorrect`,
`OneConnectionCorrect` and `ViewIsTrueCorrect`, which follow from `RegistryCorrect`,
`LinkCorrect` and `ViewCorrect` about the three parts by themselves. At the registry the machine
has a websocket, an attempt or a timer, never two of them (`Alone`), and heartbeat and
`awaitsPong` are about the websocket in use (`InUse`). At the file browser `OneLink` is almost
inductive; `Held` adds that a manager that never connected has no websocket. At the browser view
the lines and pages name each other (`PageHasLine`, `LineHasPage`), and `ViewIsTrue`, which is
about the moment when everything has arrived, needs the same of every moment before: whatever of
the page is not what the relay has cached, or the phone shows, is still on its way
(`CachedOfPage`, `ShownOfPage`), and the last message of each kind is about the page as it is
(`AboutPage`).

`ServicesProofs` proves all properties of the run `services`, each from an invariant of its
part alone; a step of the run is a step of each part or leaves it alone (`EachPartSteps`).
`ServicesTypesCorrect` (`TypeOK`) needs all of these invariants: the part that runs has one.

* `ActiveIsWatchedCorrect`: `ActiveIsCovered` follows the last subscription that was listed
  from there to its end, which `ActiveIsWatched` looks at only when all have come to theirs.
* `OneRelayCorrect`: a viewer, even one that closes, is a subscriber of the session in the Map,
  and a session that is not there has nobody (`AttachedToRelay`, `OthersAreEmpty`); a
  publisher that closes late may be of a session that is gone.
* `SyncedIsStoredCorrect`: what is no longer to be uploaded has its version (`RestIsStored`), and
  a request is between its steps what the code has made sure of (`PutIsSound`), also one that
  nobody waits for. The model gives each such request a number that is free; that there is one
  needs that they are no more than the faults there were (`PutsAreFew`), and `Min` of a set of
  numbers. Both rest on `Induction`, here proved of sets with the pigeonhole principle, where the
  library's theorem takes an operator.
* `RowsTellInstancesCorrect`, for any number of users' and administrators' requests: the conjuncts
  of the property go round. A row that says "sleeping"
  is true because the request that wrote it was (`RequestIsSound`), unless it was crossed; the
  step that tells the provider makes the row untrue and its own request a witness of that
  (`Unwritten`); the creation comes before everything (`CreationIsFirst`).
* `VersionIsCurrentCorrect`: runs of the script take turns, but for the update that waits for
  the restart it asked for (`RunsTakeTurns`); an undisturbed run finds its link (`LinkIsKept`),
  and until it has installed, what it goes back to is what MACHINE_SERVER_VERSION names
  (`PreviousIsVersion`).
* `UploadsLeaveWholeCorrect`: a client waits for the handler of its request, so that its requests
  come in their order (`OneHandler`, `RequestsInOrder`). As long as the upload can succeed
  (`CanSucceed`: after an answer that was given up it cannot), the server has counted the chunks
  the client was told of, a temporary file is what was sent of its file (`ChunksCounted`,
  `ChunksStored`, with `SentOf`), and is whole when it is moved (`MovedAtTheEnd`, `MovedIsWhole`).
* `RequestsAreSoundCorrect`: a client that is attached was seen, and whoever executes a command is
  attached (`ClientsAreSeen`, `Attended`). `ChunksAreCounted` has the chunks between the client
  that waits and the handler that goes on without it: the last one is acknowledged only after the
  output has its name.
* `OperationsAreHeldCorrect`: the property is inductive with `RecordsAreBegun` and
  `InstallingRuns`, since an installation that was cancelled goes on without its record.

The last three are about records and chunks in sequences that lose elements anywhere, and the
turns about lines of several turns in one sequence. `Filter` counts positions, so that its lemmas
(what it contains, that order and distinctness stay, that one more element is one more step)
follow from `Induction` over the positions. They are in `SequenceProofs`.

With these every invariant that a passing run checks is proved, and so are its action properties
(`OverflowVictim`, `EditAlone`) and the refinement `ImplementsChannels`. Only model-checked are
the liveness properties (`BacklogDrains`, `CallersAreTold`, `EndsFollow`, `ClientsAreServed`,
`ComesBack`; fairness and ENABLED are beyond the prover) and the six runs that expect a violation.

## 7. Not modelled, and the plan

Left out of what is modelled: frame codecs, headers, the text of errors, back-pressure of
response streams, authentication, the wire's encoding. Left out altogether: rendering, data
conversion, stateless proxies, SQL, installers, as the table in section 1 says.

Seen while reading, in the models where one covers it, and but for the first promised or excluded
by no document:

* the deletion of a user catches and logs the termination that fails, deletes the user with the
  computer's row, and answers "ok" (`packages/cloud-server/src/admin/routes.ts:366-373`); the
  instance runs on and no row names it. `docs/admin-operations.md:23-24` says "delete a user
  (terminates their cloud machines and removes the record)". `RowsTellInstances` names this as one
  of the two ways in which an instance outlives its row;
* a watcher stays open for ever when subscriptions overlap or the session closes while one
  starts; changes between a listing and its watcher's "ready" are not seen;
* messages of a replaced publisher still enter the relay's cache and reach the phone;
* the relay keeps the last frame when the tab changes, and sends a phone that comes then the
  tab first and the frame after it: it shows the old tab's picture until the next one comes;
* a phone that comes between the metadata of a frame and its image gets the new metadata with
  the old image, and the new image without metadata, which a change of the tab does not clear;
* an attempt that a page has given up may be attached after its next one, which is then closed
  as replaced and not repeated; the page stays without until it is looked at again;
* a thread's latest version may stay an older one after a failure between two rows;
* a computer that is deleted while it is created leaves its instance, whose id was not in the
  row yet; a heartbeat that overlaps a stop or a start writes the status it read before; an
  idle machine whose row says "sleeping" is not stopped;
* a machine identity that is revoked between the look at it and its activation still makes its
  computer's row "online";
* a message of the assistant that begins like the last one, and a text that the user says again,
  take the other's place in a client that joined the run (section 3);
* the error of a request to the app-server that was rejected before rejects the requests of all
  other turns, and an initialization under way;
* the answer to a machine's first registration, once lost, cannot be had again: the hash of
  the bootstrap token is cleared before it is sent;
* a terminal whose id was lost with the answer goes on until its time limit;
* the `close` event of an old websocket makes the file browser's manager schedule a
  reconnection, which replaces the good websocket, whose own `close` event does the same again:
  it may go round for ever (`Flaps`). On the mobile application a request that is made while a
  websocket is connecting starts it too, and in both a directory that is gone, which stays in
  `subscribedPath` when the navigation to it fails. A page that becomes visible in between
  clears the timer, and leaves a websocket whose heartbeat the late event has stopped
  (`Unwatched`);
* a file browser's session is started with `void` at the machine: when the first directory is
  missing the rejection is not handled;
* steering awaits the saving of attachments: the turn may be over when it is sent.

What is left, most important first:

1. The registration and heartbeat scripts of the machine with the cloud's machine routes, two
   computers of one user, the Docker provider.
2. Edits and steering at the codex harness, the pi harness with its active runs and disposed
   sessions.
3. The machine's runtime: safeToRestart against what is under way when the script restarts it.
4. Pricing of model usage as an algorithm.
