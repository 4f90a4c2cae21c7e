# A TLA+ verification project for DistExp

DistExp runs distributed experiments: a Python control plane (`exp_utils/`)
starts, supervises and collects a benchmark on a set of slaves, and the
benchmark itself talks through the `rest_rpc` C++ library (`include/rest_rpc/`)
and measures frequencies with a family of sketches (`benchmark/structures/`).
This directory holds the TLA+ modules of the parts that have been modelled, the
TLC configurations that check them, and the theorems about them.

## 1. The system

### 1.1 Experiment control: `manager.py`, `worker.py`, `utils.py`, `const.py`

| part | state | operations |
|---|---|---|
| redis (on the master) | `EXP_STAT_KEY` (a string, absent after a flush), the hashes `EXP_CONFIG_GROUP` (experiment -> config), `WORKER_ACK_GROUP` (worker name -> experiment), `WORKER_HEALTH_GROUP` (worker name -> report) | single commands, each atomic |
| manager (one process, run by the user once per experiment) | `exp_start_time`, `ack_now_round`, `ack_pool_kvs`, `worker_health_info` (`last_report_ts`, `miss_cnt`), the loop it is in | flush redis, set `INIT`, copy files and launch `worker.py` on each slave, publish the config, wait for the acks and delete them, withdraw the config, set `RUNNING`, check the heartbeats, on Ctrl-C set `END`, wait for the acks again, kill the screens, copy the results; on a missing ack or heartbeat set `ERROR` and raise |
| worker (one process per slave and experiment, in a detached `screen`) | `worker_name` (from its `redis_config.json`), `exp_start_time`, the server process | poll for a config, start `basic_server`, ack, wait while the status is `INIT`, heartbeat while it is `RUNNING`, stop the server, ack again if it is `END`, poll again |
| ssh | commands that were started and have not run yet | `utils.ssh` starts a command and does not wait for it |

Manager and workers interact only through redis and ssh. What is hard: each
redis call is a step of its own and the manager's read-check-delete sequences
interleave with the workers' writes; one hash with one key and one value carries
the acks of the start *and* of the end; the name is written into the slave's file by
an ssh command that races with the one that starts the worker; an aborted or
killed manager leaves its workers behind, polling; clocks differ.

It is correct when the status is `RUNNING` only after every slave has started
its server *for this experiment*; no worker runs an experiment twice; results
are copied only when every server has stopped; an abort is not silent; every
wait ends; and a dead worker is noticed.

### 1.2 `rest_rpc` client: `rpc_client.hpp`

State: `has_connected_`, the `outbox_` of messages of which the first is being
written, `future_map_` and `callback_map_` of calls without an answer, the ids,
`sub_map_`/`key_token_set_`, the reconnect count. Operations: connect, the
calls (synchronous, with a future, with a callback), subscribe, close; the completion
handlers of the connect, the write, the head and the body of a message, be it an
answer or a published one; the heartbeat; clearing the pending calls; reconnecting. The user's threads and the io thread share the
maps under `cb_mtx_` and the outbox under `write_mtx_`; `has_connected_` is an
atomic and the socket is shared without a lock. What is hard: a close between a
registration and its write, handlers that were already queued when the socket
was closed, errors of the write and of the read that both react. It is correct when a
call is answered at most once and only by its own reply, when a non-empty outbox
is being written, and when a broken connection fails the calls in flight.

### 1.3 `rest_rpc` connection, router and server

`connection.h`: the socket of one client on the server, its read loop, the idle
timer, the queue of responses, the request id the handlers answer under.
`router.h`: the map of handlers, synchronous or asynchronous. `rpc_server.h`: the
accept loop, the map of connections, the thread that cleans it, the map of
subscriptions, publish and stop; `io_service_pool.h`: one io thread per core,
handed out round robin. What is hard: the timer against the read that resets it,
the response queue written by handlers on other threads, the clean-up threads
against accept and stop. It is correct when responses leave in order and one at
a time, a live connection is not closed by a stale timer, a dead one leaves the
map, and `stop` ends.

### 1.4 Sketches: `benchmark/structures/*.hpp`

`gxj_frequency_sketch` and `interval_sketch`, the two the others led to, and the
older `hierarchical_frequency_sketch`, `range_frequency_sketch`, `count_min_sketch`,
`exact`, with their `detail.hpp`: arrays of small counters (4 bits, saturating), rows
chosen by hashes, a binary tree over the granules of a unit, a halving done by the
caller or by a detached thread, and averages over a range of keys. What is hard:
saturation, the shift and mask arithmetic, ranges that start or end inside an
interval, the reset thread racing with increments. They are correct when an
estimate is never below the true count (up to saturation and halving), a counter
never spills into its neighbour, and an average is that of the range asked for.

### 1.5 The rest

The codec, MD5, `meta_util.hpp`, `string_view.hpp`, `nonstd_any.hpp` are pure or
vendored; `thirdparty/` is asio and msgpack; the benchmark mains, the shell scripts,
the experiment configurations and the plotting notebook have no protocol. The
sources of `basic_server` are not in the repository. None of these is modelled.

## 2. The plan

The order is that of importance: the control plane decides whether an experiment
means anything, the client carries every measured operation, the server answers
it, the sketches are what is measured.

| step | module | what | state |
|---|---|---|---|
| 1 | `ExpControl` | manager, workers, redis, ssh | done |
| 1 | `ExpLifecycle` | abstract: one experiment as its user sees it | done; `ExpControl` implements it |
| 1 | `ExpControlProofs`, `ExpSingleProofs` | theorems about 1 | done |
| 2 | `RpcClient` | the client with its io thread, its users and a server that answers | done |
| 2 | `RpcPromise` | abstract: a call is executed and answered at most once | done; `RpcClient` implements it |
| 3 | `RpcClientProofs` | one write that owns the front of the outbox; replies that find their calls; the implementation of `RpcPromise` (without reconnection); types, genuine and final replies (with it) | done |
| 4 | `RpcConnection` | the server's end: read loop, idle timer, router, response queue; it implements `RpcPromise` as well | done |
| 4 | `RpcConnectionProofs` | its safety and that implementation | done |
| 5 | `RpcServer` | accept, clean-up threads, subscriptions, stop | done |
| 5 | `RpcServerProofs` | its safety | done |
| 6 | `RpcSystem` | client and connection composed over one network | not done: the client alone has three million states at its smallest bounds (section 6) |
| 7 | `IntervalSketch` | both interval sketches: counters with saturation and halving, the tree, the detached reset, against the true counts | done |
| 7 | `IntervalSketchProofs` | no counter of a node is below the accesses of its granules | done |
| 7 | `SumsAndPowers`, `SketchRangeProofs` | sums over the nodes of a range: what `frequency` returns, in both sketches | done |

## 3. The modules

### 3.1 `ExpControl`

An action is one redis call with the local code up to the next one, so calls of
different processes interleave as they do in reality; `hgetall`, `hdel`, `hlen` are
single steps. Experiments are numbered in the order of `exp_start_time`. A worker process
is `<<slave, experiment>>`, and processes of earlier experiments stay where they
were. The variables follow the code: `mpc` and `wpc[p]` are program counters, `phase`
says which caller of `wait_ack` is running, `left` is what a `for` loop has still
to visit, `pool`, `round`, `miss` are the locals of the same meaning.

| code | actions |
|---|---|
| `manager_start_exp` | `InitExp`, `SetInit`, `LaunchWorker`, `PublishConfig`, `UnpublishConfig`, `AssertUnpublished`, `SetRunning` |
| `manager_wait_ack` | `TakeAcks`, `AcksMissing`, `ClearAck`, `AssertAcksCleared` |
| `manager_check_health`, `manager_exp_run` | `CheckHealth`, `Examine`, `RecheckHealth`, `Interrupt`, `SetEnd` |
| `manager_exp_end`, `manager_abort_exp` | `KillScreen`, `CollectResults`, `AbortExp`, `RaiseAbort` |
| `utils.ssh` | `RunSed`, `RunScreen`, `RunKillall`, `LoseSsh` |
| `worker.py` | `WorkerInit`, `QueryConfig`, `ScanConfig`, `StartServer`, `AckStart`, `WaitExpInit`, `AssertRunning`, `CheckExpRunning`, `ReportHealth`, `StopServer`, `ReadFinalStat`, `AckEnd` |
| what may go wrong | `KillWorker`, `KillManager`, `HangUpServer`, `LoseSsh` |

A manager that gives up is `"dead"` and has told the workers so (`ERROR`); one that
is killed, or interrupted outside the `try`, is `"killed"` and has told nobody. The
liveness properties excuse only the second.

Time is abstracted: a report is `"new"` or `"old"` to the manager, who compares
timestamps only with the last one it took; slaves in `BehindClocks` may report an
old one. An ssh command runs at any time after it was started, or never.

### 3.2 `ExpLifecycle`

One experiment goes through idle, starting, running, ending to finished, or fails.
It runs only when every slave's server has been started, is finished only when every
one is down. `ExpControl` maps the manager's program counter and phase to `state` and
the processes of the experiment to `server`.

### 3.3 `RpcClient`

A step of a user's thread is what it does under one lock or at one access of
`has_connected_`: `CheckConnected`, `Register`, `Write` are the three parts of
`async_call`, `Subscribe`, `KeepSubscription` those of `subscribe`. The io thread runs
the handlers `OnConnect`, `OnWrite`, `OnHead`, `OnBody` one at a time; where a handler
closes the client it goes on in the steps of `close`: `TestConnected`, `ClearConnected`,
`CloseSocket`, `ClearOutbox`, `ClearMaps`, then `ErrorCallback`, because each is an access of
the atomic or takes a lock of its own, and users run in between. A user who closes does
the same steps, so both may have passed the test and close the socket twice. One
sequence is merged: when a connect succeeds, `OnConnect` sets `has_connected_`, starts the read and
sends the subscriptions again in a single step.

asio is external and modelled as the code uses it: an operation waits with the socket
(`reading`, `writing`, or `sock = "connecting"`), completes at any time, and its
handler waits in `ready`, in the order of completion. To close or to replace the
socket aborts what waits and leaves what is in `ready`, which is where handlers
meet a state they were not written for. Completions may come in more orders than
asio's reactor produces them: what holds, holds with fewer. The server takes a
message when its write completes and answers in any order. `header_` is shared by all
writes; `WriteDone` lets the peer read the wrong one if two overlap.

`enable_auto_reconnect` sets the reconnect count to the largest `int`, so with
`AutoReconnect` the count is not used up. The heartbeat's handler runs on the io
thread and in two steps: `BeatChecks` reads `has_connected_`, `BeatWrites` appends
and writes, and a closing user runs in between. Its timer starts again however it
ended, so disabling the heartbeat changes nothing here. What the server publishes
(`Publish`) comes through the same two reads; `OnBody` passes it to the
subscription, and its failures to `call_back`. `crashed` is the message whose
handler failed an assertion.

Left out: SSL, the JAVA client with `internal_async_call`, and messages of an
unknown type or an invalid length. A body of exactly `MAX_BUF_LEN` bytes is in
neither branch of `rpc_client.hpp:502` and `510`, but no server of this library
sends one (`connection.h:50` asserts a smaller one). `sub_map_` is read by the io
thread without a lock while `subscribe` adds to it; what a broken map does then is
not in the model. A read that starts in the middle of a message of a previous
reader does not complete.

### 3.4 `RpcPromise`

The promise to one caller: the server receives a call at most once, the caller gets
at most one result, a reply or a timeout only of a call that was received, and no call
that has been reported as failed is received later. `AtMostOnce` and `Final` say what
follows from it for a caller.

### 3.5 `RpcConnection`

One connection of the server with its io thread. asio is as in 3.3: `reading`,
`writing`, `timer` are the operations that wait, `ready` the completed ones whose
handlers have not run. `OnHead`, `OnBody`, `OnWrite`, `OnTimer` are the handlers,
each with all it calls: `ReadHead` starts the timer again, `Response` appends and,
when the queue was empty, starts the write, `Close` aborts what waits. `Respond` and
`Publish` are calls of `response` from other threads, under `write_mtx_`. The kind of a
request decides what its handlers do: it is answered by `route` (also when the
function is unknown, its arguments do not unpack or it throws), answered later by the
thread of an asynchronous handler, which has asked for `request_id()` when it was called,
a subscription, a head without a body, or one that cannot be accepted. The contents
of messages, the codec and SSL are left out.

The variable `timer` is about the wait, not its handler: after `Expire` the handler is in
`ready` and no cancelling or starting of the timer takes it back, as in asio.

### 3.6 `RpcServer`

`Accept` starts a connection and `Enter`, a step later, gives it its id and enters it
in `connections_`, as the two are not under one lock and the connection is on another
io thread. `Clean` and `CleanSubs` are one pass of a clean-up thread under its mutex,
`TestStop` the test of its flag, `Wait` the beginning of a wait that ends
at any time. `stop` is the same steps for the handler of a signal and for the
destructor, `mode` says whether the user called `run()`, which returns when
the io threads have ended, or `async_run()`, after which the destructor may run
at any time. A name stands for a key with its token; `Within` says which tokens are
found in it. `publish` changes nothing here: it reads the map under the lock and appends
to the queues of connections (3.5).

### 3.7 `IntervalSketch`

One sketch, its callers and the detached threads of `try_reset`. The headers
`interval_sketch.hpp` and `gxj_frequency_sketch.hpp` have the same tables, hashes and
resets and differ in `inner_record_access` and `inner_frequency`; the variable `lazy`,
chosen in `Init` and never changed, says which one it is (`TRUE`: gxj).

| code | here |
|---|---|
| the table of each level, a word of two halves with four dyadic and four lazy counters | `Words`, `Slots`, `AllCells`; a counter counts to `MaxCount`, 15 in the code |
| `hash`, `table_index`, `offset_multiplier` | the constants `Index` and `Half`, arbitrary functions of unit and granule |
| `left`, `right`, the unit's base | `Left`, `Right`, `Base` |
| `inner_record_access`, `inner_frequency` | `record_access` and `frequency` over `Visited`, `Stops`, `Partial`, `Cut` |
| `must_reset`, `soft_reset` | `must_reset` |
| `try_reset` and `reset` in a detached thread | `try_reset`, `Load`, `Store`, `Finish` |

A node of the tree is `<<level, start>>`. The recursion over it is not transliterated:
`Visited`, `Stops`, `Partial` say in closed form which nodes it goes through, and
`RecursionAssumption` in `MCSketches` checks that against the recursion itself,
call by call, for every range of the unit.

The callers' operations are single steps, as the sketches are not thread-safe
and have one caller. The detached thread shares the counters with it without a lock, so
each word is read (`Load`) and written (`Store`) in steps of their own and
what is counted in between would be lost. `doing_reset` is a plain `bool`: the last
three assignments of `reset` may be seen in any order (`Finish`). Within them `size_`
and `ref_cnt_` are halved in one step; a caller changes neither while `doing_reset`
is seen set, and when it is cleared first a count made in between may get lost,
which only `size_` and `ref_cnt_` would show and no property counts on.

`truth` counts the accesses of each granule and saturates and ages as a counter does,
at the moment a reset is asked for. With `Patient`, `try_reset` is called only
when no thread resets.

## 4. What the runs show

| run | instance | properties | result |
|---|---|---|---|
| `control_one` | 1 experiment, 2 slaves, 1 with a lagging clock, 1 fault | `TypeOK`, `NamedHeartbeats`, `ServersStopped`, `NormalEnd`, `ManagerAssertions`, `LifecycleSpec`, `StartEnds`, `InitWaitEnds`, `ServersStop`, `DeathNoticed` | hold |
| `control_again` | 2 experiments, 1 slave, 2 faults | `ServersStarted`, `NoSecondRun`, `ConfigUnique`, `SilenceNoticed` | hold |
| `worker_assert` | no faults | `InitEndsRunning` (worker.py:111) | violated |
| `leftover_workers` | 2 experiments, no faults | `ServersStopped` (README.md:28) | violated |
| `client_close` | 2 calls, 1 subscription, 1 publication, 1 heartbeat, calls before the connection, a user who closes, 2 faults | `TypeOK`, `WriteOwnsFront`, `RepliesExpected`, `PromiseSpec` | hold |
| `client_live` | 2 calls, 1 heartbeat, automatic reconnection, 2 faults | `GenuineReplies`, `RepliesFinal`, `Answered` (without faults), `Reconnected` | hold |
| `client_outbox` | no faults | `WriteOutstanding` (rpc_client.hpp:447) | violated |
| `client_broken` | a publication, 1 fault, nobody closes | `AssertionsHold` (rpc_client.hpp:628) | violated |
| `connection` | 5 requests, one of each kind, 1 publication, the idle timer, 1 break | `TypeOK`, `WriteOwnsFront`, `OwnId`, `PromiseSpec`, `Served`, `IdleCloses` | hold |
| `server` | 2 connections, 2 names of which 1 has a token that both contain, both modes | `TypeOK`, `Tracked`, `ReportedOnce`, `TokensUsed`, `JoinedOnce`, `Forgotten`, `StopEnds` | hold |
| `sketches` | both sketches, units of 4 granules, capacity 4, counters to 3, 2 rows, 5 calls of 5 accesses that share counters, 2 threads | `TypeOK`, `NodesCount`, `NeverUnder`, `UnderByLevels`, `CountingResumes` | hold |
| `sketch_reset` | the same, `try_reset` at any time | `HalvedWhenReached` (interval_sketch.hpp:63, 460) | violated |

A fault is a killed worker or manager or a lost ssh command, for the client a broken
connection or a failed connect.

The bounds. Two slaves are the least for one of them to be ahead of the other in every
phase. In `control_one` two rounds of waiting for acks and one for a heartbeat show both a wait that
is repeated and one that is given up; `control_again`, with its two experiments (the least for one to
leave something to the next) and 1.7 million states, has no second round, only the
count of missed reports. Two
calls and a subscription give an outbox with a message that is written, one that waits
and one that is added; two faults give a connection that breaks after it was replaced. For the connection, a synchronous request, an
asynchronous one and a publication are the three ways into the response queue, and with all
three one is being written while two wait. For the server, two connections are the least for one to
be accepted while the other is cleaned or shares a token with it. For the sketches, four granules
give a tree of three levels, in which a node can be visited, cut or whole; the
accesses include one that starts inside a granule, one that goes over the end of its
unit and one of another unit; counters to 3 saturate within five calls, of
which two may be resets, and 39,862 states are reached. The theorems
below do not depend on any of these bounds.

The fairness. `WF_vars(Manager)` and `WF_vars(Worker(p))`: their loops sleep and try
again and nothing blocks them but redis; a killed process has no steps. Nothing is assumed of ssh, of
the user, of the faults. For the client `WF_vars(Handler)`, since
the io thread runs its handlers, `WF_vars(Reactor)`, since operations complete and the
server answers, and `WF_vars(User)`, since a user thread finishes the call it has begun.
Breaks, timeouts and new calls are not fair. The connection has the same fairness for its
operations and handlers, and for the asynchronous handlers, which answer in the end; `IdleCloses`
assumes besides that a running timer expires. In the server the accept handler, the two
clean-up threads and a `stop` that has begun go on; nobody has to connect, close or
stop. A detached thread of a sketch runs on (`WF_vars(reset(i))`): it takes no lock and
waits for nothing.

`CHECK_DEADLOCK FALSE` is in every configuration: experiments and calls end, and then
nothing is left to do.

### What the violations mean

* `worker_assert`: when the manager aborts a start because one slave is late, the status goes
  from `INIT` to `ERROR` and the assertion kills every other worker, with its
  server still running.
* `leftover_workers`: the workers of an aborted experiment poll on, take part in the
  next one under the same names, and the results are collected while servers run.
  With clean slaves it cannot happen (`CollectedServersStopped`).
* `client_outbox`: a failed write leaves its message in the outbox and no write
  under way. Every later message waits for it, also after a reconnection.
* `client_broken`: a published message has the id 0, which no call has. When the
  connection breaks after its head and before its body, the handler takes it for an
  answer, `call_back` finds no such call and its assertion ends the program.
* `sketch_reset`: `size_` is halved at the end of the detached reset, so a
  `try_reset` before that starts a second thread. Both halve the counters, and the
  first to end lets `record_access` go on while the other still resets, where
  accesses get lost (`NodesCount` fails).

### What the properties leave out

The README of the repository (23-24) has the slaves ack before the command to start; in the
code the config that starts the servers is published before any ack. `ServersStarted` is
about the status `RUNNING`, which comes after the acks.

`RepliesExpected` allows a failed assertion once the user has begun to close. Closing the
client (its destructor does) while the handler of a body is queued fails the assertions
of `call_back`, `rpc_client.hpp:604` and `628`: the maps have been cleared, the handler
is not aborted. With automatic reconnection they fail without a
close, after one break: a call registered before and written after `clear_cache` is
answered on the new connection. `WriteOwnsFront` and `PromiseSpec` fail there too, since
messages of both connections meet in one outbox: a call can be sent twice, and a callback that
was told of the error gets an answer as well. That is why `client_close` has no
reconnection. What is left of the promise with reconnection is `GenuineReplies` and `RepliesFinal`: a
reply or a timeout is of a call that was sent, and nothing follows a reply, a timeout or a
broken future; only a callback that was told of the error may hear again.

`Reconnected` is checked without subscriptions. With one and another message the model has a
behaviour in which handlers of the abandoned sockets reset the new one for ever.

`SilenceNoticed` says that a slave without a worker is noticed, not that one with a worker is
spared: the reports of a slave whose clock lags count as missed until they overtake the
manager's clock, and then a live experiment is aborted. How long that takes depends
on the intervals, and time is abstracted.

No property says that a broken connection is closed. It is when the read of a head fails; when
that of a body does, `read_body` reports the error and stops the timer, and nothing closes the
connection: the server keeps it. `IdleCloses` says that a silent client is cut off, not that a talking one is
spared: the handler of a timer that expired before the last message arrived closes the
connection after it. `TokensUsed` has no converse: the end of a subscription removes every token
found in its name, in use or not.

`JoinedOnce` and `StopEnds` leave out one case, a signal after `async_run()`. There the
destructor and the handler may both come to the joins, and the handler, on an io thread, joins the
thread that waits for the io threads: `stop` does not end. Nothing in the repository promises otherwise, so none of these is listed as a finding.

`NodesCount` and `NeverUnder` speak of the granules from `left` up to `right`. An access
that ends at the end of its unit has `right` 0, one that starts and ends in one granule
has `right` equal to `left`: neither is counted for any granule, in the code as in the model.
`avg_frequency` divides by a `cnt` of 0 for such a range and is not modelled.
`try_increment` returns true for a saturated counter too, against its comment, so
that `size` grows with every access. The code does not check what `GeometryAssumption`
says: a unit that is not a power of two of granules, or a capacity with too few
words for the lowest tables, is outside the model. Nothing in the
repository calls the resets; they are taken as the public interface they are.

## 5. What is proved

`ExpControlProofs`, from `WorkersAssumption` and `BoundsAssumption` only (a finite,
non-empty set of slaves; any number of experiments, rounds and faults):

| theorem | states |
|---|---|
| `TypeCorrect` | `[]TypeOK` |
| `RunningServersStarted` | `[]ServersStarted` |
| `EachExperimentOnce` | `[]NoSecondRun` |
| `OneConfig` | `[]ConfigUnique` |

The inductive invariant `IInv` adds to the properties what they rest on.
`LaunchedOnce`: a process of experiment `e` is launched once, so its name is fixed before its first
server. `AckedAfterStart`: what is acked, or about to be, has been started. `SeenAcks`: between
`hgetall` and `SetRunning` the manager's copy of the acks, deleted or not, stands for
started servers. `ConfigWindow`: a config is there only from its publication until the
acks have been taken. `FreshConfig`: a process that is going to poll has not run the config it will find. None
of the properties is inductive without them: `ServersStarted` says nothing of how the
manager came to `SetRunning`.

`ExpSingleProofs`, with the further assumption `MaxExp = 1` (clean slaves):

| theorem | states |
|---|---|
| `CollectedServersStopped` | `[]ServersStopped` |
| `NormalEnds` | `[]NormalEnd` |
| `ManagerAssertionsHold` | `[]ManagerAssertions` |
| `HeartbeatsNamed` | `[]NamedHeartbeats` |
| `ImplementsLifecycle` | `LifecycleSpec` |

`SInv` adds who acts under whose name (`OwnNames`), when a server is up (`OwnServers`),
how far manager and workers can be apart (`Phases`) and the heart of it, that acks of the
two rounds do not mix: `StartAcks`, every process has sent its ack of the
start when the manager deletes the first; `EndAcks`, an ack of the end comes from a
worker that has stopped its server. `Quiet`, which is what the last ack gives the manager, says of
each worker that its server is down and that it has not exited without that ack. The refinement is proved step by step: each
action of the manager or of a process is an action of `ExpLifecycle` or leaves its
variables unchanged.

The sketches, for any geometry that satisfies `GeometryAssumption`, any hash, any number of
calls, accesses, rows (one at least, as in the code), threads and any `MaxCount`; all but the first
with `Patient`:

| theorem | states | module |
|---|---|---|
| `SketchTypes` | `[]TypeOK`, however many threads reset at once | `IntervalSketchProofs` |
| `IntervalNodesCount` | `[]NodesCount` | `IntervalSketchProofs` |
| `IntervalNeverUnder` | `[]NeverUnder` | `SketchRangeProofs` |
| `RangeUnderByLevels` | `[]UnderByLevels` | `SketchRangeProofs` |

The invariant of `NodesCount` is `Types /\ OneThread /\ AllWorth`. `OneThread`: at most one
thread resets, and until its last three assignments `doing_reset` is set. `AllWorth` is
`NodesCount` with a reset under way: `Worth(c, v)` says that the counter `c` stands for `v` accesses, which one
that the thread has still to write must do when halved, and so must the word it has read.
`NodesCount` is not inductive, as it says nothing of a word between `Load` and `Store`.

`NeverUnder` follows from `NodesCount` by a count. Every granule of a range has an owner, a node over it at
which the recursion stops: the highest that the range holds whole (`StopAbove`). A node owns no more granules than
its width, and its estimate is not below the accesses of any of them, so the sum over the granules, put in
order of their owners (`SumByOwner`), is not above the sum over the nodes.

`UnderByLevels` needs an invariant of its own, for gxj counts an access in nodes of different
levels, and halves each by itself. `PathWorth`: for each granule there are numbers `v[k]`,
one for each of the `L = Levels - 1` levels below the root, such that the counters over the granule are
worth `v[k]` and the sum of `v` plus `L - 1` is not below the accesses. A reset keeps it:
`sum(v) <= 2 * sum(v[k] \div 2) + L` (`SumOfHalves`), so half the accesses, rounded down, are at most
`sum(v[k] \div 2) + (L + L - 1) \div 2`, which is again `L - 1` more. With a slack of one less TLC finds it
violated on the instance of `sketches`. At a query the estimates of the nodes over the granule, which
the levels keep apart, sum up to no less than the `v[k]` (`PathWorthGivesFrequency`).

`SumsAndPowers` holds what these proofs need of sums over finite sets and of powers of two. The library's induction
theorems are about an operator and cannot be used here; the module does
induction over sets instead: a set of numbers that holds 0 and with a number the next holds all, from
`WFMin` and the well-founded order of the naturals, and the same for subsets of a finite set.
`2^k` is known to the provers only by its notation; that it doubles comes from the
number of subsets of a finite set (`FS_SUBSET`).

`RpcClientProofs`, from `CallsAssumption` and `ModesAssumption` (any number of calls, callbacks,
subscriptions, publications, heartbeats, failed connects and breaks; the user closes or
not, calls early or not; the client reconnects or not):

| theorem | states |
|---|---|
| `ClientTypes` | `[]TypeOK` |
| `RepliesAreGenuine` | `[]GenuineReplies` |
| `FinalReplies` | `RepliesFinal` |

Their invariant, `HInv`, says that whatever is still to be heard, on the wire, in a read that waits
or in a handler that waits, is of a call that the server has received, in whatever order
sockets were left and replaced. `FInv` adds for `RepliesFinal` that a call that is still registered
has got no reply, and its future nothing. With the further assumption `~AutoReconnect`:

| theorem | states |
|---|---|
| `FrontWritten` | `[]WriteOwnsFront` |
| `ExpectedReplies` | `[]RepliesExpected` |
| `KeepsPromise` | `PromiseSpec` |
| `AnsweredAtMostOnce`, `ResultsFinal` | `[]AtMostOnce` and `Final` of `RpcPromise`, from `KeepsPromise` |

Their invariant, `IInv`, follows the life of the one socket. `Sockets`: the handler of `connect` waits at
most once, and before it nothing is connected. `Leaves`, proved with `IInv`:
who is between the test of `has_connected_` and the close of the socket leaves a connection that will not
come up again. `Writes` and `Reading`: one write and one read,
counted over those that wait and those whose handlers wait; a closed socket has neither.
`Outboxed`: a call is in the outbox once, and as long as anything can still be sent only its
front may have been, so no call is sent twice. `Replying`: a reply is on its way in one place
only, for a call that was sent and, until a user closes, is registered. `Calling` ties `pc`,
`pending`, `sent` and `result` of a call together. Its delicate part is `Erred`: after a failed
read the callbacks have got "error" and are still registered until `clear_cache`; they get no
second answer because by then no read waits or is completed. With automatic reconnection that
argument fails, as the next socket starts a read of its own, hence the assumption.

`RpcConnectionProofs`, from `MessagesAssumption` and `LimitsAssumption` (any number of
requests of any kinds, of publications and of broken connections, with the timer or without):

| theorem | states |
|---|---|
| `ConnectionTypes` | `[]TypeOK` |
| `FrontWritten` | `[]WriteOwnsFront` |
| `AnsweredById` | `[]OwnId` |
| `KeepsPromise` | `PromiseSpec` |
| `AnswersFinal` | `Final` of `RpcPromise`, from `KeepsPromise` |

Its invariant says of the operations of asio what the code relies on. `ReadOnce` and
`WriteOnce`: there is one read and one write, counted over those that wait and those whose
handlers wait. `ReadInTurn`: between a head and its body `req_id_` is that of the request,
since nobody starts another read in between. `Queued`: no two responses in the queue
are to one request. `Progress`: a request that was answered has its response at the front of
the queue, its write completed, or no longer in it. `WriteOwnsFront` alone is not inductive: it
says nothing of a write whose handler has still to run, during which the queue is not empty
and nobody else may start one.

`RpcServerProofs`, from the assumptions of `RpcServer` (any number of connections,
names and tokens):

| theorem | states |
|---|---|
| `ServerTypes` | `[]TypeOK` |
| `LiveTracked` | `[]Tracked` |
| `EachReportedOnce` | `[]ReportedOnce` |
| `ListedTokensUsed` | `[]TokensUsed` |
| `ThreadsJoinedOnce` | `[]JoinedOnce` |

`Connections` ties the id of a connection, its entry in the map and the reports of it
to one another; `StopOrder` ties the steps of `stop` to the mode, to who calls it and to the
threads that still run.

Every invariant and every safety property of the passing runs is a theorem. Only
model-checked: liveness, which needs `ENABLED` (`StartEnds`, `InitWaitEnds`, `ServersStop`, `DeathNoticed`,
`SilenceNoticed`, `Answered`, `Reconnected`, `Served`, `IdleCloses`, `Forgotten`, `StopEnds`,
`CountingResumes`), and that the closed form of the tree's recursion is the recursion
(`RecursionAssumption` in `MCSketches`), which is a matter of what a recursive definition
computes and is evaluated for the geometry of the run.

## 6. Not modelled

Of the sketches `count_min_sketch`, `hierarchical_frequency_sketch`, `range_frequency_sketch`
and `exact` are left out: sequential code in a straight line, for which no document
says which positions it should compute. What is hard in them is listed with the hazards in
`PROJECT.json`. Client and server are not composed: each is checked against an environment
that does what the other, the network and asio may do. `manager_init_worker`, which installs packages
once, is off by default. That `basic_server` really serves cannot be seen from this
repository. The parts of 1.5 have no state.

`thirdparty/` holds asio and msgpack, about 270,000 of the repository's 274,000 lines
of implementation. They are vendored libraries, modelled only by what the code
of this repository asks of asio.
