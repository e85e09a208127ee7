# Wuild: specifications, model checking and proofs

Wuild distributes a C++ build over tool servers. These modules specify the parts of it that
decide whether a build is correct and ends: the modified ninja and its remote executor, the
compiler proxy, the client that places compiler invocations and its load balancer, the frame
handlers that carry requests and answers, the channel and the bytes below them, the tool
server with its acceptor and its executor, the coordinators, and what happens to one command
line on its way from a build to a compiler and back. TLC checks the modules on small
instances; TLAPS proves the main invariants of the balancer, the client, the channel, the
server, the coordinators, the proxy and the build, and that the client implements what it
promises, for every value of the constants.

Source paths are relative to the repository; `Platform/...`, `Modules/...` and `Apps/...` are
under `src/src/`. Every definition that models code is listed with its lines in
`PROJECT.json` (`map`).

## 1. Inventory

| Component | State it keeps | Operations | Talks to | What is hard |
|---|---|---|---|---|
| Remote tool client (`Modules/RemoteTool/RemoteToolClient`) | queue of tasks, pending counter, one handler per server, availability flag | `InvokeTool`, `ProcessTasks` (own thread), `AddClient`, reply callbacks | balancer, frame handlers, coordinator client | tasks pass between callers, its thread and the handlers' threads; retries, expiry, lost connections |
| Tool balancer (`Modules/RemoteTool/ToolBalancer`) | vector of servers with cached loads, three cached totals | `UpdateClient`, `SetClientActive/Compatible`, `SetServerSideLoad`, `StartTask`, `FinishTask`, `FindFreeClient` | called by all threads of the client | caches that every operation must refresh, 16-bit arithmetic, counts from servers that may have wrapped |
| Frame handler, requests and replies (`Platform/SocketFrameHandler`) | connection state, transaction number, notifiers, queue of frames | `QueueFrame`, `SetConnectionState`, `CheckTimeouts`, `PreprocessFrame` | client, server, coordinator, proxy | an answer, a timeout and a lost connection race for one notifier; frames are shared objects |
| Frame handler, channel (same file) | segments to write, window, bytes to acknowledge, read and frame buffers | `ReadFrames`, `WriteFrames`, `CheckAndCreateConnection` | TCP socket, the peer's handler | flow control of both ends, state that outlives a connection, segments cut anywhere by TCP |
| Serialization (`Platform/ByteOrderStream`, `SocketFrame`, the frames of `Modules`) | position and end mark of a buffer | `Read`, `Write` of every frame | frame handler | reading of what has not all come yet, byte orders |
| Frame service and listener (`Platform/SocketFrameService`, `TcpListener`) | workers, `m_waitingAccept` | `Quant`, `AddWorker`, `DoAccept` | kernel, workers | the service creates, a worker's thread accepts |
| Tool server (`Modules/RemoteTool/RemoteToolServer`) | session of each worker, used threads per session, running tasks | request reader, task callback, destroy callback | service, executor, coordinator | three kinds of threads update the counts; a client's connections overlap |
| Local executor (`Modules/LocalExecutor`) | task queue, subprocesses that run, those that ended | `AddTask`, `Quant`, `SplitTask` | subprocess library, callbacks | early failures; the thread waits for a subprocess while tasks are queued; several end at once |
| Coordinator client (`Modules/Coordinator/CoordinatorClient`) | a worker per host, flags for pending sends, exclusive mode | list, announce, session frames, `StopExtraClients` | tool client and server | flags cleared before the lock, workers stopped while others start |
| Coordinator server (`Modules/Coordinator/CoordinatorServer`) | tool servers and sessions by connection | update, list, broadcast, erase | frame service | a pointer into a vector used after the unlock, copies that cross |
| Tool proxy (`Modules/ToolProxy`) | running jobs, inactivity timer, working directory; a client's single request | preprocess, compile remotely or locally, answer, leave | tool client, local executor | shutdown racing a request, clients that start proxies at the same time |
| Ninja's builder and remote executor (`Apps/Ninja`, `3rdparty/ninja`) | plan, pools, active edges, queue of results | `StartCommand`, `WaitForCommand`, `Abort`, `Cleanup` | tool client, subprocesses | callback threads against ninja's loop, an abort while commands are out |
| State rewrite (`Apps/Ninja/StateRewrite`) | ninja's graph | `RewriteStateRules` | invocation tools | no dependency of a split edge may be lost |
| Invocation tools, version checker (`Modules/InvocationTool`) | the configured tools, by id and by file | parse, complete, split, filter, prepare | all that run commands | five option lists that must agree, positions in an argument list that changes |
| Configuration (`ConfiguredApplication`, `Modules/AbstractConfig`) | settings | command line, ini file, environment | all | which setting wins |
| Files, threads, logging, applications, tests | - | - | - | wiring |

What must hold of each part:

* Balancer: a server is known once, cached loads and totals are never stale, a full server
  is not preferred to one with a free thread.
* Client: an invocation has one holder until its callback is called, once; the callback is
  called in the end, with the result of that invocation; retries are bounded; the counters
  match the requests in flight; only servers with accepted tools are used.
* Channel and bytes: frames arrive whole, in order, once, field by field, wherever TCP cuts
  them; the window counts what is on its way; both ends never block each other for good.
* Service and server: every connection gets its turn; announced counts are those of the
  tasks; a client that has gone is not announced.
* Executor: never more subprocesses running than allowed; every task is called back.
* Coordinator: what is connected and announced is listed, nothing else stays listed, and
  clients learn it; a client with several coordinators keeps one.
* Ninja: an edge runs once, after its inputs, with its own result; the counts survive an
  abort; success means that everything was built; a build that gives up leaves no output of
  a command it interrupted.
* Proxy: a proxy leaves only when it has nothing to do; a client's exit code is true; every
  client ends.
* Command lines: splitting, rewriting and sending a command changes nothing of what it
  writes.

The hazards of the code, at their lines, and the property that covers each are in
`PROJECT.json` (`hazards`).

## 2. Modules

```
NinjaBuild            graph, loop, remote executor     ToolProxy     clients, proxies, jobs
      |  (both hand commands to)                             |
      v                                                      v
RemoteInvocation          what InvokeTool promises its caller (abstract)
      ^ implemented by (ImplementsInvocation)
RemoteToolClient          client + handlers, whole frames    --EXTENDS-->  ToolBalancer
RemoteToolServer          server + executor                  --EXTENDS-->  SocketFrameService
Coordinator               coordinators, tool servers, clients
FrameChannel              two handlers below whole frames
FrameStream               one direction of a channel, byte by byte
CommandLine               one command's journey   --EXTENDS-->  ToolProvider --> Configuration
MC...                     instances for TLC

NatLemmas <-- ToolBalancerProofs <-- RemoteToolClientProofs
NatLemmas <-- FrameChannelProofs
NatLemmas <-- CoordinatorProofs
RemoteToolServerProofs      ToolProxyProofs      NinjaBuildProofs
```

### ToolBalancer

`clients` is `m_clients` (1-based; index 0 is the "not found" of `FindFreeClient`) and
`totals` the three atomics that are read without the lock. Every operation holds
`m_clientsMutex` throughout, so each is one action, and each ends in `SetClients`, the
vector with `RecalcAvailable` applied. Arithmetic is modulo 2^16 where the code's is
`uint16_t`. Of `m_connectedClients` a `ToolServerInfo` keeps the sum the balancer computes
from it (`othersUsed`). `BalancerNext` lets callers do anything the client may do, with an
index that was picked earlier.

### RemoteToolClient, RemoteInvocation

State is the client's (`requests`, `pendingTasks`, `remoteAvailable`, and `worker`, the
locals of `ProcessTasks` between its locks) and the handlers' (`conn`, `transaction`,
`notifiers`, `framesQueueOutput`, `outputSegments`). `server` is the bag of frames the
server has received on the connection: it answers them in any order, or never.

* Threads. `InvokeTool` runs on any thread. `ProcessTasks` is four steps, at its lock
  boundaries: pick, count, queue the frame, pop; between them every other thread runs.
  A handler's thread connects, loses the connection, writes, reads and checks timeouts.
* `ClearAndSendError` holds the notifiers' mutex while it runs callbacks, one notifier
  per step, in the order of the map; `QueueFrame` waits for it (`conn = "Closing"`).
* A frame is a shared object: a retry numbers it anew (`frameTransaction`), also in the
  output queue in which an older pointer to it waits; `WriteFrames` serializes the number
  it has then.
* One action each although the code has several: a callback's `FinishTask` with the
  requeueing (nothing reads both between), `QueueFrame`'s `AddNotifier` with the push
  (the handler's thread cannot tell the order, since a response needs the push), the
  expiry of one task where the code's loop expires all, the timeout of one notifier
  where the code checks all.
* `"Pending"` sockets count as connected, as `CheckConnection` takes them.

`RemoteInvocation` is the promise: none, queued, running, queued again while retries are
left, answered for good.

### SocketFrameService, RemoteToolServer

`workers` follows a connection from the backlog over the worker that has to accept it to
its erasure. `whiteList` is that of the service's configuration; a connection it does not
have leaves `waitingAccept` set (`refused`), so that no other is taken any more. `Break`
leaves a worker that is inactive and still registered. The server's
three kinds of threads interleave at their locks: a worker's reader registers the session,
counts the task and queues it in three steps; the service's thread joins a worker's
thread (the guard `reading[c] = NotReading` of `DestroyWorker`), then runs the destroy
callback; the executor's callback finishes the task, tests `m_isAlive`, and queues the
reply.

`running` and `ended` are `running_` and `finished_` of ninja's `SubprocessSet`. Only
`running` is bounded by `ThreadCount`. The thread fills it from the queue and waits only
while it is not empty (`MustWait`, `LocalExecutor.cpp:182`): in `DoWork`, where any number of
subprocesses end (`ProcessEnds`), or not at all if some have ended before; then it takes one
of them (`NextFinished`). `Launch` has the code's outcomes: a subprocess that runs, one that
has ended at once (Windows), an early failure with a callback, an input that cannot be
written and no callback.

### Coordinator

A link is a worker of a process for one coordinator; it connects again and again, and each
connection has a handler and a thread of its own at the coordinator. What a tool server
announces is the number of its latest change.

* A process starts its workers one by one (`StartWorker`) and publishes them afterwards
  (`PushWorker`); what `SetToolServerInfo` or `StopExtraClients` does between the two reaches
  the published ones only.
* The client's `Quant` clears `m_needSendToolServerInfo` in one step and reads the info under
  its lock in another (`QuantClear`, `QuantSend`), so a change may fall between.
* A reader of the coordinator updates the entry under its lock, marks it with its handler
  through the pointer that `Update` returned, copies the list, and queues the copy to all,
  each a step of its own. A vector that grows or shrinks in between makes the pointer stale:
  `slot` is the place it pointed to, `dangling` one it no longer may be used for, and what is
  then written is left open (`dangled` remembers where that happened).
* `info` is a tool server's latest change and `linkInfo` what a worker of it would announce.
  A change that comes while a worker is started and not published leaves the two apart, until
  there is another change (`missed`).
* `doubled`, `overlapped`, `early` and `missed` remember the situations in which the code
  makes no promise, and the properties name them; each is a hazard with its line in
  `PROJECT.json`.

Left out: the lists sent to tool servers (nothing reads them) and the real number of
remembered sessions (`LatestSessionsSize`). The period of list requests is abstracted to a
request that may come at any time once it is due.

### NinjaBuild

A manifest gives the edges, what each needs, which are compilations the tools can split,
and the options of the build. `Edges`, `Inputs` and `InPool` are the graph after
`RewriteStateRules`; the loop is `Builder::Build` with one action per branch (`StartRemote`,
`ReapRemote`, `StartLocal`, `ReapLocal`, `SleepSome`, `GiveUp`, ...), at its place `at`; the
`Plan` is `want`, `ready`, `readyRemote` (the loop's copy of the ready remote edges),
`delayed` and `poolUse`. Subprocesses write and exit, the client's threads write and answer,
in steps of their own. Between `Abort`'s clearing of `m_hasStart` and the joining of the
client's threads (`aborting`) late answers still push results. A client answers at once, in
the loop's thread, when the input cannot be read. A reaped command is finished by
`FinishCommand`, which may fail to record its output (`diskErrors`); one that a signal has
ended ends the build before that, uncounted and with its output left (`ReapInterrupted`).

### ToolProxy

A client waits for a proxy, starts a detached one if it finds none, asks it once and exits
with the code of the answer. A proxy takes the port or leaves; its handler reads a request
and counts it in two steps, so the inactivity timer can fire between; a job is split and
preprocessed, compiled remotely or locally, or run whole, and each callback answers and
counts down. Time is abstracted: every wait may end, every timer may have expired. The
directory is the process's, so that two requests share it (`met`).

### FrameChannel

Two ends, at most `MaxConnections` connections. The client's handler outlives them; the
server's is made anew for each. Either end leaves a connection on its own (`Leave`), by an
error, a timeout or inactivity, and loses what it has not read there. A server's handler that
the client has left behind is kept in `left` with what is still on its way to it, and reads
on (`QuantLeft`) at any time, also when the client and a new handler use the next connection;
what it writes, or has queued to it, reaches nobody. A frame that answers another
(`AnswerTo`) is queued on the handler that has taken it. One `Quant` is `ReadFrames` of the
segments that have arrived (any number of them), then `WriteFrames` of everything the
window admits: the kernel's buffer is larger than the window, so a write does not return
"try again" before the window closes. A frame is a sequence of units, and segments, the
window and the acknowledges are measured in units too. When a frame's data is preceded by
the rest of another (after a reconnect), what the parser makes of it is left open
(`Garbage`): it may wait for more, break, or take it for a frame. `queued`, `processed`, the
frames `taken` in `left`, and `forgotten` are history: the code has no such variables, and of
them only what says that a frame was not queued before, and that an answer's question was
taken, guards an action. `forgotten` says that `AckTimeout` has cleared the client's count while its read buffer
still held an acknowledge: nothing clears that buffer on a reconnect, so the acknowledge is
counted later, against other bytes.
Left out: a protocol version mismatch, unknown frame types, writes to be tried again;
status segments, and service segments that arrive in parts, are in `FrameStream`.

### FrameStream

One direction of one connection with real bytes: `ByteOrderDataStream` with its masks, every
frame type of the three protocols field by field, segments with their sizes and channel
types, the four service segments between them, and `ConsumeReadBuffer` over whatever pieces
`TcpSocket::Read` returns. A read that runs out of data leaves position and mark as the code
does; what is read without a value is left open. The sender writes while its window is open;
the window here only bounds the bytes on the wire. `TryFixDoubleQuotes`, which
joins arguments that were cut inside quotes, is part of reading a request.

### CommandLine, ToolProvider, Configuration

A state is one command and two configured hosts. The command takes one of the routes the
code has: whole, or split by `SplitTask` (proxy) or by `RewriteStateRules` (ninja, as rule and
bindings), preprocessed, compiled here, or filtered, prepared and sent, run under temporary
names with the server's tool, and written back. An argument is the sequence of its pieces,
as far as the parsers look at them. `Run` is the external compiler: what the command writes,
as a function of its arguments, of the files there are and of the compiler's version.
`Configuration` reads a host's settings from its arguments, its ini file and its environment
and the tools from the settings, and so which parts the host can play: invoke remote tools,
stand as a proxy, serve. Without its part a host ends or works alone (`ProxyEnds`, no split,
no server to answer). `ToolProvider` finds the tool of a command or an id, and
compares versions.

## 3. Runs

| Run | Instance | Checks | Shows |
|---|---|---|---|
| `balancer` | two servers, one of 2 threads whose use count may have wrapped, one that changes size and tools, a third without required tools; at most 2 tasks of ours per server; loads 0 and 3 | `BalancerTypeOK`, `ServersKnownOnce`, `CachesFresh`, `FullServerNotPreferred` | no operation leaves a cache stale, in any order |
| `client_pool` | 2 invocations, 2 servers, 1 retry | `Inv`, `OneHolder`, `BusyMatchesOutstanding`, `PendingAccounting`, `OnlyCompatibleServersUsed` | tasks and counters survive every interleaving of picks, announcements, timeouts, answers and lost connections |
| `client_one_server` | 2 invocations, 1 server that can be reached again | `ResultBelongsToTask`, `ImplementsInvocation`, `EveryInvocationAnswered` | with one server a result is that of its task; every invocation is answered |
| `client_wrong_result` | 3 invocations, 2 servers | `ResultBelongsToTask`: violated | a renumbered frame's response answers another request |
| `server` | 3 connections (a client that reconnects, another one), 2 tasks, 2 subprocesses, no white list or one without the other client's host | `Inv`, `EveryClientHasWorker`, `UsedThreadsExact`, `RunningNotOverstated`, `CalledBackOrLeftBehind`, `EveryConnectionTaken` | counts, sessions and queues over a reconnect; which tasks are left behind, and when the listener stops |
| `coordinator` | 6 deployments of up to 3 tool servers, a client and 2 coordinators | `EntriesAreOwned`, `AnnouncedIsListed`, `ClientsAreFresh`, `ExactlyOneChosen`, `FinishedIsNotActive` | lists follow connections and changes, clients follow lists |
| `build` | 7 manifests of 5 edges, 2 local jobs | `EachEdgeOnce`, `InputsAreThere`, `SuccessIsComplete`, `NoOutputLeft`, `BuildReturns` | the rewritten build is the build, over failures, interrupts and late answers |
| `proxy` | 2 clients, 2 proxies, 3 deployments | `IdleMeansNoWork`, `ExitCodeIsTrue`, `ClientEnds` | no path of a request leaves the count wrong; no client waits for ever |
| `commands` | gcc, msvc and file-updating commands and ninja rules with up to two more options in every order; hosts whose configurations differ in every way that is modelled, those that leave a host without its part included | `WritesWhatItShould`, `SplitFailsOnlyAsWhole` | the parts of a split command do what the whole does |
| `commands_remove_remote` | a command with a `removeRemote` flag first | `SentNamesItsFiles`: violated | positions in the argument list are used after it has changed |
| `wire` | 6 scripts of frames, any service segment between | `FramesArriveAsSent`, `ServicesCountOnce` | wherever TCP cuts, frames and service segments are taken once and whole |
| `channel` | a question and a request of 2 segments, their answers, all of different types, 2 connections | `WindowExact`, `FramesInOrder`, `FirstConnectionDelivers` | flow control neither overruns nor blocks; each connection's frames come out whole and in order, also from a handler that was left behind |

`Inv` is the inductive invariant of the proofs and has the module's type invariant among its
conjuncts, so the two runs that check it check types, too.

### Bounds, and why they are enough

* Two servers and two invocations give every pair of holders a task can move between and
  every pair of callbacks that can race; `InvocationAttempts = 1` gives a first attempt,
  a retry and the last failure. The third invocation of `client_wrong_result` is the one
  that is answered wrongly. Symmetry permutes the invocations, which no definition tells
  apart; it is used for invariants only.
* `MaxClients` and `MaxBusyMine` are not reached by the client's runs beyond what the
  instance allows: there are as many handlers as announced servers.
* In the server's run a session has two connections, enough for tasks of the first to end
  during the second. Two subprocesses may end in one poll and leave one behind, and a task
  that is queued then brings it back. With the white list the second client is refused
  before, between or after the connections of the first; without it the same connections are
  all taken.
* Each deployment of `coordinator` has what one hazard needs and no more: a reconnection
  with a change, a lost connection and a crash; two servers whose changes cross; three
  entries, as a pointer becomes stale only when an entry is erased before the one it
  points to and another moves; two coordinators whose first lists arrive together; a start
  during a change; a session that ends. `MaxConnects = 2` is one reconnection, `MaxInfo = 2`
  one change.
* The manifests of `build` are one generator, two compilations that need it, a program and a
  phony target: an edge that is ready at once, two that compete for the remote, one that
  waits for both. The variants have a pool of depth 1, a compilation that must stay local,
  too few remote edges, independent edges in a pool with two failures allowed, and dry runs.
* In `proxy` two clients find no proxy and start two, or one client's proxy crashes or
  leaves while the other asks.
* `commands` has every option of the parsers' lists that another list treats differently;
  two of them with the needed three arguments in every order show every pair that can
  disturb one another.
* The channel's sizes keep the order of the real ones: acknowledges and options fit the
  first window, a full segment does not fit it (8197 bytes against 3276 at the tool
  client and server), and it fits the window the options open. Two connections are one
  reconnect, the first with a fresh client handler and the second with a used one. That all
  frames differ in type lets an acknowledge stay in a read buffer, and the timeout find it
  there (`forgotten`); the request's two segments can be parted by the end of the first
  connection, and a handler that is left behind can take frames after the second connection's
  has taken some.
* `wire` cuts frames into segments of at most 40 bytes, so that most take several, and
  pieces end anywhere, in a segment's header too; one service segment anywhere
  covers every neighbourhood, as each is parsed on its own. `ByteOrder` 7 swaps every
  integer.
* Runs without a deadlock check are those whose bounds make the system stop: a bounded
  number of connections, changes, clients or frames, or one command that ends.

### Fairness

* `ProcessTasks`, a handler's clearing of notifiers, the executor and the service are
  loops of threads that always run again (`ThreadLoop`): weak fairness.
* `QueueFrame` waits for a mutex that `ClearAndSendError` holds only while it runs:
  strong fairness, since a connection may be lost over and over.
* A notifier of a connected handler is answered or times out, a queued task expires:
  weak fairness of `CheckTimeouts` and `ExpireTask`. Answers themselves are not fair.
* `Connect` is fair only in `ReconnectSpec`, the assumption that a server can be reached
  again.
* Every subprocess ends (`ProcessEnds`): strong fairness, as the executor's thread looks
  for the end of a subprocess only while it waits, and leaves the wait when another has ended.
* Build: the main thread runs on (`Loop`), every subprocess exits, and a thread of the client
  that has written an output goes on to the callback: weak fairness of each. That a task is
  answered at all is not assumed, since a client that cannot reconnect its server leaves the
  task for ever (`SocketFrameHandler.cpp:101`); `BuildReturns` says that the build returns
  unless that happens. Neither successes nor interrupts are fair.
* Proxy: clients and jobs run on, a starting proxy tries the port, an interrupted one
  leaves: weak fairness. The inactivity timer, a crash and the expiry of a client's wait
  need not happen.
* The channel's `Fairness` says the same of `Quant`: what has arrived is read, what fits
  is written, one of two idle ends sends a line test (3 to 9 s), a full window times out.
  It is written with explicit enabling conditions in place of `WF_`, which TLC would have
  to evaluate through `ENABLED` of a large action. A line test comes only when nothing is
  on the wire: the interval is far longer than a delivery.

## 4. Proofs

**`ToolBalancerProofs`** proves, for any servers, tools and bounds, that the vector is well
typed within its widths, that a server is in it once, that cached loads and totals are those
of the current fields, and that a full server is picked only if all candidates are full. The
invariant of the vector (`ClientsInv`) is inductive as it stands; `FullServerNotPreferred`
follows from fresh loads because a load equals the full weight exactly when no thread is
free (`LoadBound`), and `FindFreeClient` returns a least element (`FindFreeClientLeast`).
The totals are the last values of a function that is defined by recursion over the vector, as
`RecalcAvailable`'s loop adds them up; `NatLemmas` has the form of recursion and induction over
numbers that such a function needs (`NatRecursive`, `NatInductive`).

**`RemoteToolClientProofs`** proves `TypeOK`, `OneHolder` and `OnlyCompatibleServersUsed` for
any invocations, servers and attempts. None of the three is inductive. `Inv` adds

* `WorkerHoldsFront`: while `ProcessTasks` is between its locks, its copy is still the
  front of the queue (others only append, and the expiry is its own), so the pop takes
  off the task that was sent;
* `CompatibleOnceChecked`: a server is asked for its versions once, so nothing withdraws
  its compatibility while requests are out or about to be;
* the balancer's invariant, as an index that was picked must stay the index of its server.

`OneHolder` counts the front of the queue as no longer queued from the moment it was sent
(`Live`); each way the queue changes has a lemma (`QueueAppended`, `FrontSent`,
`FrontPopped`, `OneExpired`), and so has each way a request ends (`AnswerStep`,
`FailureStep`).

Its second part proves `BusyMatchesOutstanding` and `PendingAccounting` for fewer than 65536
invocations (`FewTasks`; with more, the 16-bit `m_busyMine` could wrap). Their conjunction (`Counts`) is inductive relative to `Inv`. The notifiers of a handler inject
into the invocations (`FewAwaited`), since each has one holder; so a count that goes up stays
below its width, and one that goes down was positive. An expired task leaves the queue and
stays in the count (`ExpiredStep`).

Its last part proves the refinement (`Refinement`): under the mapping of
`ImplementsInvocation`, the initial states map to initial states and each step of the client,
its handlers and its server is a step of `RemoteInvocation` for one invocation or a stutter.
The abstract state of a task depends on the one copy of it that is held; that there is one
(`QueuedCopies`, `AwaitedCopies`, `OneCopy`) follows from `Inv`, and with it a step that ends
a request cannot be seen as the end of two. There is a lemma per action; most are
`Untouched`, the others name the task they move.

`ResultBelongsToTask` is proved for one server (`OneServer`), the case in which it holds:
then no other handler renumbers a frame that waits in this one's queue.

**`FrameChannelProofs`** proves `ChannelTypeOK`, `WindowExact` and `FramesInOrder` for any
frames, of any lengths and types, and any sizes of segments, windows and acknowledges. The
sums and concatenations of the model are recursive functions over sequences; the first part
proves what they are of two sequences one after the other (`SizeOfConcat`, `AmountInConcat`,
`CarriedConcat`). The second follows one handler through the loops of a `Quant`:
`ConsumeReadBuffer` segment by segment, `ConsumeFrameBuffer` frame by frame, the steps of
`WriteFrames` up to the last segment that fits (`QuantEffect`), and what a failed write leaves
(`QuantFails`). `ChannelInv`, the inductive invariant, keeps two accounts:

* of bytes (`Accounts`): what an end has sent is on the wire, owed by the peer as an
  acknowledge (`Owed`), or acknowledged and not counted yet (`Unread`). On the first
  connection its count is that sum. Later the client's is no less, since a reconnect only
  takes bytes off the wire, unless `forgotten`. The count stays within the window because the
  options never make it smaller (`MinimalWindow <= Window`);
* of data (`Streams`): what the peer has read and not taken, what is on the wire, and what the
  end has not written make one stream (`Stream`). Before it come the frames that were taken,
  and for the client those of each connection that is over, with what its handler has read or
  can still read (`Past`): together one line (`Line`), whose units are in the order of the
  frames that were queued (`Ordered`), whatever a lost connection takes out of its middle, or
  a parser off the front of its part for a frame it is not. A handler that was left behind
  takes from its own part of the line, so it does not matter when. On the first connection
  the stream is the data of exactly the frames that were not taken (`Whole`), so the parser
  meets only starts of frames and never breaks; what is left of that connection is the first
  part of it (`FirstLeft`, `FirstOver`).

`Fresh` says that the first connection starts with nothing read, owed or counted, and that
what an end has left is gone. `FramesInOrder` speaks of the frames of each handler, and
of two handlers of the server by what they take, not by when: the old one may take
frames that were queued earlier after the new one has taken later ones (section 5).

**`RemoteToolServerProofs`** proves, for any connections, white lists, sessions, requests and
number of subprocesses, `TypeOK` (with the limit of those in `running_`; `finished_` has no
limit, so that `m_subprocToTask` may be longer), `OneAccepting`,
`EveryClientHasWorker`, `RunningNotOverstated` and, for fewer than 65536 requests,
`UsedThreadsExact`. The inductive `Inv` of `RemoteToolServer` adds

* `WorkerHasSession`: a worker in the reader has noted its session and is not erased, since
  its thread is joined first; without the join a counted request would bring back a client
  whose worker is gone;
* `ReaderHoldsTask`: the task a worker reads is its own and unknown to the executor, so
  counting it adds one to the tasks owed (`Counted \ finished`), and finishing one that is
  owed takes one off;
* `PollsSome`: the thread that is in `DoWork` has a subprocess that runs or has ended;
* that the tasks read, and the subprocesses that run, are finitely many.

The service's part (`OneAccepting`) rests on `m_waitingAccept` alone and is proved for
each of its operations. `UsedThreadsExact` needs one invariant more, `TaskOnce`: a task is
once in the queue, with a subprocess that runs, once among those that ended, or in the hands
of a callback, so that no callback takes off a task that was taken off before.

**`ToolProxyProofs`** proves `TypeOK`, `IdleMeansNoWork` and `ExitCodeIsTrue` for any clients,
proxies and deployments. The invariant says where a request is on each side: one that was not
sent has no job (`Unsent`), a job has a proxy (`Placed`), the count is the cardinality of the
working jobs (`Counted`), a command runs in its own directory unless two have met
(`InItsDir`), and what is answered with success has compiled (`DoneWell`, `ExitedWell`).

**`NinjaBuildProofs`** proves `TypeOK` and the four safety properties of the build for any
manifests and number of jobs. Only all of them together are inductive (`IInv`), with

* `Located`, `Apart`, `Single`: each edge that is wanted is in one place, and the results
  have it once;
* `RemoteSide`: only halves of split edges go to the client, and only while it runs;
* `PoolKept`: a pool's use is the number of its edges that are ready or run, which is why its
  depth bounds those that run;
* `Accounts`: both counts of pending commands are those of the places, until an interrupted
  command is reaped uncounted; it is also part of `EachEdgeOnce` (`Counted`);
* `Ordered`, `Kept`: what is no longer wanted has left its output, a preprocessed file until
  its compilation has been reaped;
* `Returned`, `Left`: what each outcome says of the plan and of the files.

**`CoordinatorProofs`** proves `TypeOK` and the five safety properties of `Coordinator`, for
any processes, coordinators, deployments and numbers of connections and of changes. They
cannot be proved apart: who owns an entry, what is on its way to a coordinator and what
clients were told of it depend on one another over each step of the reader. Their inductive
invariant (`IInv`) adds

* `ReadersFit`, `SlotsFit`, `MarkedHere`, `ListedOnce`: what a reader has kept across the
  unlock still fits: a slot is that of its own tool server until an entry before it is
  erased, which is when the pointer is stale (`dangling`);
* `HandlersFit`, `WorkersRun`, `FramesFit`: a lost connection's handler is erased before the
  next connection is made, or the connection is noted as doubled;
* `UpToDate`: the worker of a tool server has its latest info, unless it has `missed` a change;
* `OnItsWay`, `WillAnnounce`: a link's latest info is to be announced (`needSend`), is the
  last of what it has queued, or else of what it has sent, or else is listed.
  `AnnouncedIsListed` is its case where nothing is queued or sent;
* `Chosen`: a client stops workers once, and leaves the one it has the list from; when all
  are in `m_workers` it leaves no other;
* `ClientsAreTold`: each listed server is in a list a client has, reads or is sent, or in one
  that is being made: every change of the deque is followed by a broadcast of its reader;
* `CopiesAgree`, `NewestAgrees`: unless readers overlapped, a list that was copied is what is
  listed until it has been sent to all, and so the newest list of each client is, too;
* `Sessions`: the end of a session is the last of its frames, so none is unread once it is
  remembered.

The lemmas go by action and, within an action, by part of `IInv`. What each action leaves
alone is a lemma of its own (`...Keeps`); from these and `NextIsOneAction` follow the lemmas
that name the few actions which change a part of the state (`...Change`). Slots of the deque
are found as least members (`NatLemmas`), since `ReadStatus` takes the first match.

Its last part proves two action properties, which no run checks; they say what a step may
never do to a list:

* `LeavesOnItsOwn` (`NobodyLeavesForAnother`): a tool server leaves the list of a coordinator
  that goes on only when a broken connection of its own is erased. It follows from `IInv`: the
  erasure takes the first entry marked with its handler, and a mark is an own connection's
  (`EntriesAreOwned`). Where a stale pointer was used (`dangled`) it is false;
* `InfoGoesForward` (`ListedGoesForward`): what is listed of a tool server is never replaced
  by an older info. This takes an invariant of the infos on their way, `InfoOrder`: what a
  link has sent to a connection, what it has queued and its info ascend, the listed info is no
  newer than any of them, and only the latest connection of a link has a handler. The
  exception is a link whose latest connection was made while an older one had a handler
  (`doubled`): the older one's thread may read its frames late. That the property is false
  without it is known from a run of TLC on the instance of `coordinator`, where an info went
  back. `InfoOrder` is inductive with `IInv`; that what is on its way stays as new as any
  given info (`BehindKept`) does not depend on the list, so the entries need only be followed
  to where they come from (`EntryBefore`): the list before, or a frame just read.

Assumptions are those the modules declare: `BalancerAssumption`, `BoundsAssumption`,
`ClientAssumption` (which also keeps the names of the answers apart from the invocations),
`ServiceAssumption`, `ServerAssumption`, `ProxyAssumption`, `BuildAssumption` (finitely many
edges; a phony rule has no command to split) and `CoordinatorAssumption` (a process names a
coordinator once among its hosts, and "none" is neither a connection nor a list); TLC
evaluates each. `ChannelAssumption` has positive sizes, an acknowledge no larger than what
is not acknowledged, and `MinimalWindow <= Window`: both are 80% of a buffer, the first of
4096 bytes, which the code calls "a minimal socket buffer" (`SocketFrameHandler.cpp:39`), the
second of the smaller of the two sockets' (`:355`). `FewTasks` is a hypothesis of the three
counting theorems and `OneServer` of `ResultsAreOwn`.

Only model-checked:

* all liveness (`EveryInvocationAnswered`, `CalledBackOrLeftBehind`, `EveryConnectionTaken`,
  `FirstConnectionDelivers`, `BuildReturns`, `ClientEnds`): out of TLAPS's reach;
* `FrameStream`, which uses `Bitwise` and recursive operators;
* `CommandLine`, `ToolProvider` and `Configuration`: functions over finite sequences, checked
  over the inputs of the runs.

## 5. Disagreements found

Shown by a run:

* A response can answer another request (`client_wrong_result`,
  `Platform/SocketFrameHandler.cpp:178`).
* `removeRemote` shifts the arguments whose positions are used afterwards
  (`commands_remove_remote`, `Modules/InvocationTool/InvocationTool.cpp:140`).

Met while modelling, and left out of the properties by the condition named:

* Frame handler. A request queued between the clearing of the notifiers and a reconnect that
  never comes is not answered (`SocketFrameHandler.cpp:101`, against
  `SocketFrameHandler.h:164`; `EveryInvocationAnswered` is checked under `ReconnectSpec`).
  A reply may be queued to a destroyed handler: `m_isAlive` is tested before
  (`SocketFrameHandler.cpp:630`). Connection options are not sent after most reconnects
  (`SocketFrameHandler.cpp:604`, against `SocketFrameHandler.h:69`;
  `FirstConnectionDelivers`). Options cut by TCP are read into variables without a value. The
  read buffer is not cleared on a reconnect, while the timeout clears the count
  (`SocketFrameHandler.cpp:449`): an acknowledge of the lost connection that was left in it is
  taken off the count of the new one, which then falls short of what is on its way
  (`forgotten`). A handler of the server that its client has left reads on in its own thread
  (`SocketFrameService.cpp:102` erases it only when it has noticed), so a frame of the lost
  connection may be processed after one of the next (`FramesInOrder` says no more).
* Balancer. The network penalty is raised just before an empty queue should remove it
  (`ToolBalancer.cpp:189` against `:195`).
* Client. A tool client that was started without required tools (`WuildProxy`,
  `WuildToolExecutor`) compares no versions, though the repository's README.md:25
  promises an error; aliased tools are never compared. A server counts as free threads also for tools
  it does not have. The task at the front that no server offers holds back the ones behind it
  (`RemoteToolClient.cpp:94`). Expired tasks stay counted in `m_pendingTasks`
  (`PendingAccounting` says so).
* Server and executor. A task whose input cannot be written is not called back
  (`LocalExecutor.cpp:156` against `LocalExecutorTask.h:47`, "Called when process finished or
  on fail."; `CalledBackOrLeftBehind`). Nor is, as long as no other subprocess runs, a task
  whose subprocess ended in one poll with the last one running while nothing was queued:
  `LocalExecutor.cpp:182` asks for what has ended only while something runs, and takes one
  (`Asleep` in `CalledBackOrLeftBehind`). A refused host stops the listener, also for the
  hosts of the white list (`TcpListener.cpp:154` against `TcpConnectionParams.h:66` and
  `RemoteToolServerConfig.h:25`; `EveryConnectionTaken` holds until a host is refused). After a connection of a session was erased its used threads
  drift and may wrap to 65535 (`UsedThreadsExact`), which the `balancer` run feeds to the
  balancer. `TcpSocket::Select` waits for the connect timeout instead of its argument
  (`TcpSocket.cpp:300`).
* Coordinator. A list that was copied before a change and queued after it leaves clients with
  the older info (`overlapped`); a server whose old connection is erased after it has
  announced itself on the new one may be lost from the list (`doubled`,
  `CoordinatorServer.cpp:84`, against README.md:37); the pointer of `Update` may be stale
  (`dangled`); a client may stop the others before all have been published, and keep two
  (`early`, `CoordinatorClient.cpp:96`, against README.md:208); a change of a tool server's
  info that comes after a worker was started and before it is in `m_workers` never reaches
  that worker, whose coordinator goes on with the older info until there is another change
  (`missed`, `CoordinatorClient.cpp:60`); a session frame that comes after the last one leaves
  the session active (`late`).
* Build. The halves of a split edge lose its pool (`StateRewrite.cpp:146`, against ninja's
  `state.cc:98`); a dry run with enough remote edges starts remote commands; an interrupt is
  noticed only where a subprocess is waited for; two sources whose preprocessed names
  coincide overwrite one another (`IInvocationTool.h:58`); the build gives up without waiting
  for pending remote commands. A command that a signal has ended leaves its output behind, as
  the runner has forgotten it (`build.cc:967`; `excused`). A remote task that its client
  leaves without answer (above) keeps the loop asleep for ever (`build.cc:993`;
  `BuildReturns`).
* Proxy. A request that was read and not counted may be cut off by the inactivity timer; a
  client that queues its request after its connection was lost and before the next waits for
  ever, since timeouts are checked only while connected (`orphaned`); two requests share the
  directory (`ToolProxyServer.cpp:53`, `met`); the preprocessed file of a locally compiled
  job stays.
* Command lines. `-ofoo.o` and `/Fofoo.obj` take the next argument, `-coverage` is read as
  `-c`, a source without a dot throws, several flags in `appendRemote` are one argument, a
  rule's `-fopt=$VAR` is cut, a filtered `-I dir` leaves its directory as an input. A joined
  `/Fo:name` is followed by its own name and still takes the next argument for it
  (`MsvcCommandLineParser.cpp:148`), so that with another option behind it the command writes
  what it should not; the runs have this form only as the last argument (`JoinedLast`). An alias
  hides another tool's id (`AliasHides`). `--wuild-...=/path-with-dash` is ignored, since the
  first dash ends the group (`AbstractConfig.cpp:43`); a missing configuration file is only
  logged (`ConfiguredApplication.cpp:103`, against README.md:199); a failed write is not
  noticed on POSIX (`FileUtils.cpp:246`).

## 6. Not modelled

* Threads, logging, time: `ThreadLoop` is the fairness of the models; the rest keeps no state
  the properties depend on. Applications, status tools, tests and benchmarks are wiring and
  displays.
* Client: session statistics, compression, the destructor. Frame handler: a handler without
  acknowledges or channel types, writes to be tried again. Service: opening the socket, name
  resolution, `QueueFrameToAll` of other services than the coordinator's. Executor:
  `SyncExecTask`, temporary files.
* Ninja: restat, dyndep, logs, edges that are up to date, the display; builds are from
  scratch. Proxy: console flags, the copied environment; at shutdown, the tool client's
  callbacks after the server object is gone.
* Commands: quoting, `-MT` names, environment variables as `AbstractInvocation` treats them,
  inputs such as `-MD` without `-MF`, undefined ini variables, Windows short paths, the
  client's lists of tool servers.
* Bytes: floating point fields and the exceptions of absurd lengths.
* A composition of client, service and server through the announced counts would multiply
  the state spaces of the largest two models; instead the client's servers answer anything,
  and the counts the balancer is fed include the wrong ones the server may announce.
