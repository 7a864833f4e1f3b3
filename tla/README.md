# A verification project for node-parall

node-parall (`src/lib`, JavaScript on node 0.4) is a messaging library: *channels*
of type `req`, `resp`, `pub` and `sub` hold *sockets* (connections over unix
paths, tcp, pipes or an in-process `mem` transport) and exchange framed,
optionally multipart, messages. Everything runs in one thread; the difficulty is
in callbacks that interleave: `nextTick` jobs, read and write watchers, timers,
name lookups, and connections that come and go while state about them is kept in
several objects.

This directory holds TLA+ models of the library's core, the TLC configurations
that check them on small instances, and TLAPS proofs. `PROJECT.json` lists the
runs, the mutants that show each property can fail, the source lines behind each
definition, the hazards and the findings.

## 1. Inventory

| Component | Source | State | Operations | Hard behaviour | Correct when |
|---|---|---|---|---|---|
| Request channel | `lib/req.js` | request queue, ready list, job flag, side queue; per socket ack pool, count of outgoing requests, send queue, write watcher, `_waitingforflush`; per message ack byte, `_off`, reject count | `send`, queue job, write, flush, reply, reject, connect, disconnect | partial writes, acks reused at once, rejects and disconnects that put requests back, `drain` that must come exactly when it is waited for | a request is in one place, is answered once by the endpoint that had it, and no usable socket or backlog is forgotten |
| Request socket of its own | `lib/req.js` 48-258 | ack pool, send queue, `_waitingforflush`, the handlers of each request | `send`, flush, answer, `destroySoon`, `destroy` | answers, errors and the end of the stream race for the same requests | a request is told once, by its own answer or by the socket's end |
| Response socket | `lib/resp.js` | messages its handlers keep | handle, keep, answer, reject, throw | a handler that answers and throws | one answer per request |
| Channel | `lib/channel.js` | socket list, listeners, `_closing`, `_closed`, `_closeWaitCount` | `connect`, `attach`, accept, `listen`, `close` | close while sockets connect, three callbacks that decrement one counter | `connect`/`disconnect` come in pairs, close waits for all it found, and ends |
| Connecting sockets | `lib/socket.js` 376-445, 644-805 | `ConnectWorker.slots`, `handler`, timers, pending lookups; per socket `_connecting`, `_reconnectAttempt`, descriptor, watcher | `connect`, `handlerloop`, dial, lookup, retry, destroy | several loops over the same slots, lookups that answer after a destroy | one attempt at a time, on a fresh descriptor, until decided |
| Stream socket | `lib/socket.js`, `lib/message.js` | send queue, `_off`, watchers, `__destroyOnDrain`; read buffer, multipart cache, pending descriptor | `_sendmsg`, `flush`, `_onWritable`, `_onReadable`, `parseMessage`, `pause`, `resume`, `destroySoon`, `destroy` | writes and reads that end anywhere, or take nothing, or throw | the messages read are those sent, in order; both ends end |
| memsock | `lib/memsock.js` | descriptors with their incoming data and watchers, pending connections, names | socket, bind, connect, accept, read, write, close, notify | a write nobody listens to, watchers that forget, close of two ends | in-process stream semantics |
| pub/sub | `lib/pub.js`, `lib/sub.js` | patterns and exclusions in the sub channel, in each of its sockets, in each pub socket, and in the pub channel's routing table | `subscribe`, `unsubscribe`, `exclude`, `include`, option messages, `rawPatternFilter` | four copies of one set, kept by handlers at both ends of a connection | the copies agree, the filter selects by each socket's own patterns |
| Pub send queue | `lib/pub.js` 373-438, 488-520, 602-623 | queue, its job, `DrainWaitHandle` | send, job, drain, close | one message object for all sockets | each selected socket gets the frame once, and the queue goes on |
| Workers | `lib/worker.js` | the child process, `_killsig`, options | spawn, connect, send, kill, destroy, exit, restart | an exit while a restart or a kill is due | a killed worker stays dead; nobody waits for a dead one |
| Utilities | `lib/util.js`, `index.js` | handlers of a dispatcher, the process's standard channel | dispatch, URLs | - | the right handler is called |

How they interact: a channel attaches `connect`/`close`/`drain`/`message`
listeners to its sockets; a socket's `destroy` emits `close` from `nextTick`;
the `req` and `pub` channels keep state of a socket between the channel's
`connect` and `disconnect` events; the connect worker and the name resolver call
back into sockets; a worker is a request socket whose `destroy` also kills the
process at the other end; messages are the only thing shared between processes.

## 2. Modules

| Module | Models | State -> code | Actions -> code |
|---|---|---|---|
| `Requests` | what a `req` channel promises: a request waits, is out at one endpoint, waits again, or is settled | abstract | abstract |
| `ReqChannel` | `lib/req.js` under a channel, with the send half of `lib/socket.js` it uses | one variable per field (the comment at each names it); `job` splits `_requestQueueJobRunning` into scheduled/running; `hand` is the job's local `msg`; `leaving`/`key` are the `disconnect` handler's loop; `wire`, `inbox` are the peer's end | `Send`, `Connect`, `Job*` (each pass of `processRequestQueueJob`), `OnWritable*`, `OnReply` (`_processMessage` and the reply handler of `send`), `SideFlush`, `Destroy`, `OnClose`, `Requeue*`; `Crash` is the failing assertion of `_writemsg` |
| `DirectReq` | a `ReqSocket` without a channel and the `RespSocket` it talks to | `pool` is `_ackwaitpool`, `told` the calls of each request's handlers, `held` what the responder keeps | `Send`, `OnWritable`, `Connected`, `DestroySoon`, `Destroy`, `Recv`, `Answer`, `OnAnswer`; `Handlers`, `Lookup` are the dispatcher |
| `Worker` | `lib/worker.js`, over `DirectReq` | `proc` is the child, `killsig` is `_killsig`, `target` the pid in the URL | `Connect`, `SendConnects`, `Dial`, `Kill`, `Listen`, `Die`, `OnExit`, `StartWorker`, `EmitExit`, and the steps of the socket, with `Worker.destroy` in place of `destroy` |
| `Framing` | `createMessage`, `parseMessage`: operators | - | - |
| `Stream` | both ends of one connection, over unix, tcp or memsock, over `Framing` | per end: `sendq`, `wwatch`, `rwatch`, `buf`, `cur`, `cache`; `wire`, `eof`, `due` are the kernel's or memsock's | `Send`, `OnWritable`, `Connected`, `DestroySoon`, `Destroy`, `Dial`, `Accept`, `Wake`, `OnReadable`, `RecvThrows`, `OnEnd`, `Pause`, `Resume`, `StaleNotification` |
| `Channel` | `lib/channel.js` | `waits` is `_closeWaitCount`; `life` is a socket as the channel sees it | `Connect`, `Attach`, `Accept`, `AcceptFails`, `OnConnect`, `Drop`, `DropAgain`, `OnClose`, `Listen`, `PathFree`, `Resolved`, `Listening`, `MemListening`, `Close`, `CloseThrows`, `Unlinked` |
| `ConnectWorker` | a socket from `connect()` to its connection or destruction | `slots`, `handler` and the `stray` timers; `due` are the `nextTick` callbacks; `looking`, `dialing` the lookups and attempts under way | `Connect`, `HandlerLoop`, `DialTcp`, `Dial`, `Lookup`, `Established`, `Refused`, `Destroy` |
| `PubSub` | patterns and exclusions at both ends, and the filter | `subs`/`excl` (SubChannel), `keys`/`exkeys` (SubSocket), `wire`, `list`/`longest`/`variants`/`null` (PubSocket), `routes` (PubChannel) | the four calls, `Connect`, `OnConnect`, `SubClose`, `Accept`, `On*` (each option message), `PubDestroy`, `PubGone`; `Filter` is `rawPatternFilter` |
| `PubQueue` | the send queue of a pub channel over its sockets' send queues | `count`, `ondrain`, `onclose` are the `DrainWaitHandle`; `stream` is what was written to each socket | `SendMsg`, the job (`RunUntilCut`, `RunToEnd`), `OnWritable`, `Destroy`, `OnClose` |
| `ReqChannel_proof` | theorems about `ReqChannel`, with the refinement of `Requests` | | |
| `Channel_proof`, `ConnectWorker_proof`, `PubQueue_proof`, `PubSub_proof`, `Stream_proof`, `Worker_proof` | theorems about these modules | | |
| `SequenceLemmas` | facts about sequences and numbers those proofs share | | |
| `MC*` | small instances for TLC | | |

`Worker` extends `DirectReq`, and `Stream` extends `Framing`: these are the
compositions. The other modules stand beside each other: each models the code of
the others it calls (a socket's `_sendmsg`, for instance) as far as its own
properties depend on it.

**Granularity.** JavaScript runs a callback to completion, so a callback without
a loop over shared state is one action. The request queue job and the
`disconnect` handler do loop: each pass is an action, and every other callback is
guarded by `Quiet` (neither loop is in the middle). The trailing call of each
callback (`_startRequestQueueJob`, for instance) is part of its action. An
exception that leaves a callback ends the process: `down` (`crashed` in
`ReqChannel`), after which nothing happens.

**Mutants in the modules.** A definition commented "Mutant of X" takes no part in
the specification. It is X with a plausible mistake (a dropped reset, an
off-by-one, a count compared after the decrement); putting it in the place of X
makes TLC violate the property named in `PROJECT.json`.

### Assumptions and abstractions

- `ReqChannel`: a request is `Units` write units; the header is in the first. A
  write takes any number of them, also none. A socket stands for one connection,
  from connect to close, and all requests go through the channel. `OnReply`
  fuses the peer's answer with its reading, because nothing can come between
  that the channel sees. The peer answers each whole frame at most once, in any
  order, and delivers nothing more once its stream has lost its framing.
- `DirectReq`: the responder is the code of `lib/resp.js`. A first write takes at
  least a byte, the application listens for `error`, and an exception of
  `destroySoon` ends its process. A flush really writes whenever it is called: on a
  socket that has a descriptor and is not dialed the first write throws and
  destroys the socket, on one that is dialed ("dialed": `_onConnect` has not run
  yet) whole messages may go. A request whose handlers have none for an `ERROR`
  makes `destroy` call itself for ever, and one that finds no free ack in a flush
  fails an assertion: both are `down`.
- `Worker`: the child may end at any moment, by itself, by a signal, or because a
  handler threw after it had answered. A signal sent by `kill()` may do nothing:
  worker.js:185-188 sends any, and doc/worker.md:50-52 says so. Output streams are
  left out.
- `Stream`: a byte is its message and its offset; only the length bytes have a
  value. An end that has read bytes that are no frame (`torn`) is not followed
  further. The kernel holds `Cap` bytes in each direction and takes what it has
  room for. memsock takes all, but answers 0 when nobody listens, and the write
  watcher of a mem socket never reports anything.
- `Channel`: a socket is attached to one channel; a destroyed socket raises
  `error` only with an exception; `Watched` are the sockets on which somebody
  listens for it (in the library only pub.js:334 does), `Heard` the listen calls
  with a callback, or a channel on which somebody listens for `error`. `MemSock`
  are the sockets over memsock: the destroy of one may throw (memsock.js:218, see
  `Stream` for when), to the application, which may catch that, or out of a callback
  of the library, which ends the process.
- `ConnectWorker`: timers fire in any order, so delays say nothing;
  `ConnectWorker.count` and `_reconnectSlotNo` are never read and left out. A
  socket attached with an open descriptor is not its business.
- `PubSub`: the pub channel is one; option messages arrive in order and whole. A
  source is written as `binary` (sub.js:69, 88) and read back as `ascii` (pub.js:89,
  104): `Ascii` gives for each source the key the publisher files, and two sources
  may have one.
  `pipe()` throws on its first use (pub.js:446), so no message in the filter has
  an origin, and exclusions never apply.
- `PubQueue`: what the filter picks for a message is a number of hits of each
  socket (`PubSub` says which); a write may take nothing, part, or all, or throw.

## 3. Runs

Each run names its instance in a `.cfg`; `MC*.tla` holds the sets. "States" are
distinct states.

| Run | Question | Instance | States |
|---|---|---|---|
| `MCReqChannel` | Is every request in one place, every wakeup delivered, every answer matched, with partial writes, rejects and disconnects? | 3 requests, 2 connections, 2 ack slots each, 2 write units, 2 rejects; symmetric; constraints `Clear`, `TwoRejects` | 3.4 M |
| `MCReqChannelLive` | Does the channel implement `Requests`, is every request settled, does every listening socket come back, does the job end, also when writes throw and a request with a descriptor needs a unix connection? | 2 requests (one with a descriptor), 2 connections (one unix), 2 slots, with fairness; constraint `Clear` | 0.5 M |
| `MCReqChannelReject` | *violation*: a rejected request goes on from its last offset | no faults; constraint `Clear` | |
| `MCChannel` | Do events pair, is the wait count exact, does close complete? | 2 sockets (a tcp one that may be without a descriptor, a mem one), a unix, a mem and a tcp listener (the tcp one unheard), with fairness | 0.2 M |
| `MCChannelClose` | *violation*: "emitted when the channel is completely closed" | the same | |
| `MCConnectWorker` | Is a connecting socket attempted by one at a time until it is decided, whatever the loops do? | 3 sockets (2 tcp), 2 slots, 2 retries, with fairness | 0.2 M |
| `MCPubSub` | Do routing table and pattern lists agree, does the filter pick by each socket's own patterns, and do both ends have the same exclusions? | 1 sub channel, up to 2 connections, patterns that are prefixes of each other, 4 messages, 3 sources of which two share a key; nine calls on one connection, three on two; symmetric; constraint `Apart` | 0.6 M |
| `MCPubSubKey` | *violation*: "subscribes to a specific message pattern" | the same, without exclusions and symmetry | |
| `MCStream` | Are messages delivered whole, once and in order, does no end wait without its watcher, do both ends end? | a message of one part and one, with a descriptor, of two; `Base = 3`, so a frame has at most 8 bytes; `Cap = 3`; all three transports, with fairness | 0.02 M |
| `MCPubQueue` | Does each socket get whole messages, and does the queue go on? | 3 messages of 2 bytes, 2 sockets, one of which may be picked twice, with fairness | 0.2 M |
| `MCPubQueueSent` | *violation*: "send the message to all connected sockets" | the same with 2 messages | |
| `MCWorker` | Is each request told once, is nobody left waiting for a dead process, is none started after a kill? | 3 requests (one without an `ERROR` handler), 2 slots, 2 processes, all options, with fairness | 0.5 M |

**What the properties say.**

- `AckAccounting`, `NoAckExhaustion`: the two records of the slots in use agree,
  so the "should never happen" assertion of `_writemsg` is never reached while
  nothing is blurred.
- `SocketNotForgotten`, `WakeupGuaranteed`, `NoIdleBacklog`: an open socket is in
  the ready list or has the job's drain listener, exactly one of the two; a
  listener always waits for something that will come; and whenever requests and
  sockets are there, the job is scheduled.
- `HeldOnce`, `NoRequestLost`, `ReplyCorrelation`: a request is in one queue or one
  slot, and in none once answered; it leaves them only for its answer (except
  for the `_off` damage of the finding below); an answer finds the request it
  answers.
- "While nothing is blurred": two steps of the code leave a request where it
  should not be. A first write that takes 0 bytes, which a full kernel buffer may
  answer, queues it at the socket and leaves it in the job's hand (req.js:533), and a
  slot whose number is more than the ack byte can hold gets the answers of another
  (req.js:52, 153). `Blurs` is true of just these steps, `blurred` remembers that one
  was taken. `SocketNotForgotten`, `NoAckExhaustion`,
  `HeldOnce`, `NoRequestLost`, `ReplyCorrelation` and the refinement hold up to the
  first such step, for every number of slots; `AckAccounting`, `WakeupGuaranteed`
  and `NoIdleBacklog` hold after it too.
- `ImplementsRequests`: all of that as a refinement: the abstract holder is the
  socket in whose pool the request is; each code step is one abstract step or a
  stutter.
- `EventuallySettled`, `SocketComesBack`, `JobTerminates`: liveness of the same.
  `Stale` excepts the damage of the `_off` finding, `AllGone` a channel that lost
  every connection, and `Stranded` a request with a descriptor while only
  connections that cannot carry it are ready: there the job's inner loop turns
  the ready list round for ever (req.js:489-507).
- `EventsPaired`, `ListExact`, `WaitCountExact`, `CloseCompletes`: see the comments
  in `Channel`. `CloseCompletes` excepts the ways out that the code leaves: an
  uncaught exception (`down`), a socket attached after `close()`, or that `close()`
  did not come to (`late`: `listen` and `_doListen` test fields that do not exist, so
  a closed channel may still accept, and the new socket's end then decrements a
  count it is not part of; and the destroy of a mem end may throw out of `close()` in
  the middle of its list), and one destroyed without an event (`silent`).
  `CompletelyClosed` has no exceptions. `ListExact` also says what can end the
  process. An accept that fails for want of a descriptor ends it, because
  `rescueEMFILE` is given a callback that uses `this` (channel.js:470), and so does a
  mem name that is taken, because `memsock.close` fails on a descriptor without a
  name.
- `OneAttempt`, `LoopForWaiting`, `FreshDescriptor`, `EventuallyDecided`: the connect
  worker keeps one attempt per connecting socket although several loops may run,
  never dials on an old descriptor, and every socket is decided.
- `RoutesAgree`, `LongestCovers`, `FilterExact`, `ExclusionsInStep`: the copies of
  the subscriptions agree, and the shared, growing slice of the message does not
  change what a socket gets. A socket is hit once per matching pattern:
  `FilterExact` states that multiplicity, and `SentToAll` shows what comes of it.
  `ExclusionsInStep` speaks of the sources that share their key with no other:
  including one of two that do takes away the exclusion of both.
- `InOrder` (`Stream`), `EventuallyDelivered`: what an end delivers is a prefix of
  what the other sent, with the descriptor of each message, and, if it goes on
  reading, all of it. Excepted: a first write that takes nothing, after which
  `_sendmsg` has the message in the queue twice (`doubled`: the peer gets it twice,
  or gets bytes that are no frame), and what reaches a mem end that does not
  listen (`missed`: nobody tells it when it does again).
- `NoStall`, `EndsTogether`: an open end has a started watcher or a notification
  due for all that waits; when one end goes, so does the other. A mem end has no
  write watcher: it keeps messages only after a first write that nobody listened
  to (`doubled`), or when its peer is gone. With memsock,
  closing an end that was never accepted, or the second of two, fails and ends
  the process (memsock.js:218), and so does a notification that comes after its
  watcher was freed (memsock.js:84): `down`.
- `InOrder` (`PubQueue`): what is written to a socket is a run of whole messages,
  over all waits. `EventuallyProcessed`: the queue goes on. Excepted: messages of
  which one of several sockets took only a part (`cut`: the others get them from
  the shared `_off`), and a socket that was picked twice, which
  the handle counts twice and frees once until the socket closes (`Lost`).
  `SentToAll` has neither exception.
- `SettledOnce`, `NoWaitForDead`: a request that got an ack is told once, by its own
  answer or by the end of the socket, also when the end comes while an answer is
  handled, and a dead process settles what waits for it. Requests that are only in the send
  queue of a destroyed socket are told nothing; the property says no more of them.
- `KilledForGood`: the process that runs at a `kill()`, if any, is the last: once it
  has ended, by that signal or not, none is started and there is one `exit`, also
  when the kill comes between the exit and the restart of a keepalive.

**Bounds.** `Req`, `Sock`, `MaxOut`, `Units`, `MaxRejects` (ReqChannel): three
requests and two connections with two slots are enough for a full and a half full
pool, a request that moves to the other endpoint, a backlog behind a full channel,
and slot reuse under out-of-order answers; two units give a partial write, its
flush, and a second attempt that begins in the middle. `Clear` looks no further once
something is blurred, after which most properties of these runs promise nothing (the
first blurred states are checked; the theorems cover the rest). `TwoRejects` (three
requests) leaves one request rejected twice, its last, or two rejected once, which
puts two in the side queue. `RejectBound` stops a request that is still in a second
slot from counting beyond the limit. `MaxCalls` and `MaxWire` (PubSub), and `Apart`,
by which no behaviour has both patterns and exclusions (no handler reads the ones to
change the others): because of the shared key a third pattern of a socket takes
seven calls, so nine are made as long as there is one connection, which gives lists
of three and removals from them; with two, three calls reach routes of two sockets,
two patterns, and the removal of one in both orders. `Base`, `Cap` (Stream): the
smallest `Base` in which a part carries a payload; the larger message has two parts,
so the multipart cache and a full frame occur, and a capacity of 3 bytes cuts every
frame in a different place for each order of writes and reads. `MaxMsg`, `Size`
(PubQueue): a message that is being written, one that waits, and one that comes
during the wait; two bytes are the least that can be cut. `MaxPid` (Worker): one
restart; a worker in its second process is in the same state as one in its third.
`ConnectWorker` needs no bound of its own: `MaxAttempts` is the code's parameter.
Counters of events stop at 2, "more than one".

**Deadlock.** All modules may stop in the real system (every request answered,
every socket gone), so `CHECK_DEADLOCK` is off; that they do not stop too early
is what the liveness properties say.

**Fairness.** The event loop runs every callback that is due: `nextTick` jobs,
timers, and watchers of ready descriptors (weak fairness of each such action;
JavaScript's run-to-completion makes the job's passes happen in turn). Four
assumptions concern others and are marked in the modules: the peer answers every
whole request, the resolver answers, the kernel reports what became of a
connection and carries bytes on, and a socket's peer goes on taking bytes
(`PubQueue`, and `FlushOn` of `ReqChannel`). Nothing is assumed of the
application (`Send`, `Destroy`, `close`, `kill`, `pause`, `resume`), nor of a process
that gets a signal.

## 4. Findings

Each has a run that TLC ends with a counterexample of what a comment or a document
says.

1. **`_off` survives a reject** (`MCReqChannelReject`, req.js:341): a request written
   in parts and then rejected is sent to the next endpoint from the middle, and
   the byte stream loses its framing. The same holds after a disconnect.
2. **Inverted test in `close()`** (`MCChannelClose`, channel.js:327): `close` is emitted at
   once when there is something to wait for, and never when there is not.
3. **One key for all patterns** (`MCPubSubKey`, sub.js:104): after a socket's first
   subscription no other reaches the publisher.
4. **A socket with two matching patterns stops the queue** (`MCPubQueueSent`,
   pub.js:619): the handle counts it twice, and the second push replaces the
   listener that would have counted it down. A partial write to one socket also
   makes the next one get the message from its middle (pub.js:503).

The models show more of the same kind, which the properties of the passing runs
except by the names in brackets, each at its line:

- a first write of 0 bytes puts a request at two endpoints (req.js:533), and with more
  than 255 slots the ack byte does not name the slot (req.js:153) (`blurred`);
- with a descriptor to send and no unix connection ready the job never ends
  (req.js:498) (`Stranded`);
- a channel that was closed starts to listen (channel.js:237), and the destroy of a mem
  end that was not accepted, or whose peer has closed, throws out of `close()`
  (memsock.js:218) (`late`);
- a socket destroyed without a descriptor, or whose destroy threw, raises no
  `close` (socket.js:538) (`silent`);
- a message of which the first write takes nothing is queued twice (socket.js:569)
  (`doubled`), and nobody tells a mem end that listens again what came in between
  (memsock.js:113) (`missed`);
- a keepalive whose socket was connected is not restarted: the end of the dead
  child's stream destroys the socket, `Worker.destroy` calls `kill()`, and the
  `_killsig` that sets makes the restart an `exit` (worker.js:124);
- the lookup of a name that ends after its socket was destroyed opens a descriptor
  that nothing closes (socket.js:772) (`down`).

## 5. Proofs

TLAPS checks the theorems for every value of the constants: any sockets,
requests, listeners, patterns, limits. They assume what the modules' named
ASSUMEs say (limits are positive, Nil is none of the rest, sets that are counted
are finite) and nothing about fairness or the peer.

No theorem has a hypothesis of its own. The properties that the code keeps only up
to a first write of 0 bytes, or a slot number the ack byte cannot hold, say so
themselves (`~blurred`, §3): their invariants (`HeldInv`, `LostInv`, `ReadyInv`,
`MappingInv`) are inductive in the form `~blurred => ...`, where a step of the job that
is not one of `Blurs` is shown to put the message at one place.

| Theorem | Says | Argument |
|---|---|---|
| **`ReqChannel_proof`** | | |
| `TypeCorrect` | `TypeOK` | inductive; its five parts (channel, loop, sockets, messages, peer) each have a frame lemma, and each action a step that treats the parts it writes |
| `AckCorrect` | `AckAccounting` | inductive with `TypeOK`: a slot is filled only when it was empty and freed only when it was taken (`SlotFilled`, `SlotFreed`), so the set of taken slots and the count move by one together |
| `BacklogCorrect` | `NoIdleBacklog` | inductive by itself: every callback that touches one of the lists ends in `StartJob` with the lists' new values, and the job goes idle only when one is empty |
| `WakeupCorrect` | `WakeupGuaranteed` | not inductive: a socket that connects later must start without a listener and with nothing to flush. `WakeInv` adds that, and `AckCorrect` gives `outgoing <= MaxOut`, needed when a flush ends with all slots taken |
| `HeldOnceCorrect` | `HeldOnce`, while nothing is blurred | not inductive: `HeldInv` says that queue, side queue, hand and slots are disjoint and repeat nothing (`PlaceInv`), that what the peer may still answer is in the slot its ack names (`PeerInv`), and what a connection that is gone has left (`Gone`). Each action moves a request from one place to one place |
| `ReplyCorrelated` | `ReplyCorrelation` | `PeerInv`, the second half of `HeldInv`: an ack is not reused while its answer can come |
| `NoAckExhausted` | `NoAckExhaustion` | a socket of the ready list has fewer outgoing requests than slots, and by `AckCorrect` the count is the number of taken slots: `_writemsg` finds one |
| `NoRequestLostCorrect` | `NoRequestLost` | `LostInv`, over `HeldInv`: each step that takes a request from its place puts it in another, settles it, or has met a partly written one (`_off` is not 0) |
| `SocketNotForgottenCorrect` | `SocketNotForgotten` | `ReadyInv` adds the job's local socket and the sockets that have not connected yet |
| `RequestsImplemented` | `ImplementsRequests` | `MappingInv` says for each request which abstract state the mapping (`AbsState`, `AbsHolder`) gives in terms of the places; one lemma per kind of change shows that a step is the abstract step of that request, or none |
| **`Channel_proof`** | | |
| `TypeCorrect` | `TypeOK` | with `CloseCount` (how often `close` was emitted) and the finiteness of the sets that are counted |
| `EventsPairedCorrect` | `EventsPaired` | `PairInv` gives both counts for every stage of a socket's life, also for those that never connected |
| `ListExactCorrect` | `ListExact` | inductive; its second half, what can have ended the process, has a case for each action that ends it |
| `WaitCountCorrect` | `WaitCountExact` | `WaitInv`: while nothing was attached late, the count is what is still to go, and after `close` it is 0; each callback that decrements takes one element out of one of the two sets |
| **`ConnectWorker_proof`** | | |
| `TypeCorrect` | `TypeOK` | inductive; `SlotNo` stays in its range |
| `OneAttemptCorrect` | `OneAttempt` | `AttemptInv`: a socket idles, waits in a slot, is called, looks up or dials, one of the five; the sum of `OneAttempt` follows. A slot's queue has it once, and the callbacks due have it once |
| `LoopForWaitingCorrect` | `LoopForWaiting` | a loop ends only when it has seen every slot empty, and `StartLoop` starts one whenever a slot is filled |
| `FreshDescriptorCorrect` | `FreshDescriptor` | a part of `AttemptInv` |
| **`PubSub_proof`** | | |
| `TypeCorrect` | `TypeOK` | `ListInv`: a splice is typed only if its entry is there, so the types need `ConnsInv` and `RouteInv` (what each list holds, once each); the longest pattern exists because `LongestCovers` bounds it |
| `RoutesAgreeCorrect` | `RoutesAgree` | `RouteInv` of `ListInv`, which says it for sockets that are gone too |
| `LongestCoversCorrect` | `LongestCovers` | a part of `ListInv`. The recalculation reuses the variable `length`; it cannot reset `_nullsubscriptions` wrongly, because it runs for the empty pattern only when all patterns are empty |
| `FilterExactCorrect` | `FilterExact` | at every pass of the loop over the sockets (`PickedStep`) the shared slice is the first bytes of the message, and the sockets passed are picked as often as they should be, the others not at all: `LongestCovers` makes the slice long enough for the socket's patterns (`SliceCovers`), `ConnsInv` passes each socket once |
| `ExclusionsInStepCorrect` | `ExclusionsInStep` | of each source that is `Alone` with its key. `ReplayInv`: the last option message about an exclusion that is under way says what the subscriber's end filed, and when none is, the publisher's end has it. `FiledInv` ties what is filed to the channel's set: equal once open, a part of it before |
| **`PubQueue_proof`** | | |
| `TypeCorrect` | `TypeOK` | not inductive: `count` may fall below 0, and a second `run` may be due, unless the handle's count is exact. `Waits`: it is the number of frees that listen to a close (`FreesOf`), a socket whose `ondrain` is a free has one of them, and while there are any the job runs. `Lists`: a socket is listed from its connect to its close |
| `InOrderCorrect` | `InOrder` | `OrderInv`, described below the table |
| **`Stream_proof`** | | |
| `TypeCorrect` | `TypeOK` | `TypeInv` adds that the part being read is one of its message's own. A reader goes on from a part to the next by the size in its header, so the proof needs that a part's size is what its length bytes say (`PartBounds`, from the lemmas about division), and that slices, copies and joins of streams stay sequences of bytes |
| `NoStallCorrect` | `NoStall` | `StallInv`: the end of a stream is behind the bytes of an end whose peer is destroyed (`EndTold`), who waits has something to wait for (`WaitsFor`), and a mem end that listens is told of exactly what is there (`Told`), as one that does not listen is not. `MemInv`: a write over mem takes all or nothing, so no message has an offset there, and what an end still holds was left by such a first write (`Rests`). Of a stream it matters only whether it is empty |
| `InOrderCorrect` | `InOrder` | `OrderInv`, described below the table |
| **`Worker_proof`** | | |
| `TypeCorrect` | `TypeOK` | `TypeInv` adds that what the responder may answer has an ack, which holds also after an exception has ended the requester. That an answer finds a pool needs `SettleInv`, so both theorems have one invariant, `WholeInv` |
| `SettledOnceCorrect` | `SettledOnce` | `SettleInv`: requests are told once (`ToldOnce`), acks and slots name each other (`SlotsAgree`), the send queue holds what has no ack and nothing twice (`QueueAgrees`), what is under way is at one place and in its slot (`FlightAgrees`), and a socket that was destroyed has told whoever had an ack and hears nothing more (`GoneInv`). `BeginEffect` says what the begin of a flush does to acks and pool: it counts the messages without an ack against the free slots, so `_writemsg` finds one for each |

**`OrderInv` of `Stream`.** `InOrder` speaks of the messages delivered and says nothing of the
bytes in between; what makes it inductive is where each byte belongs. A place
`<<i, k>>` is byte k of the i-th message sent, and `Leads(s, x, w, y)` says that the
bytes w are those of s from place x to place y. `Flow` then says that what a reader
has of a frame, followed by what is on the wire, leads from the place it reads at
(its delivered messages, its cached parts) to the place its peer writes at (the
messages that are not queued any more, the offset of the first that is), and that
the queue is the end of what was sent, with only its first message begun. A write
appends a stream that leads from the one place to the next (`BytesLead`), a read
cuts one off, and as a read never crosses the end of its frame it is within one
message's part (`ReadBytes`, `PartPlaces`), whose two length bytes say which
(`HeadedPart`). `Current` adds the descriptor that came with a message's first byte,
and `OwnInv` that each message is sent once, by one end, and has no offset before.
A destroyed end reads no more: it keeps what it has (`Exact`).

**`OrderInv` of `PubQueue`.** The job writes a message to the socket directly, past
what the socket keeps in its own queue. Why that does not overtake: when the job
runs, no open socket that is picked once keeps anything, because a socket that
keeps a message has a free to come (`Single`), and with frees to come the job is
not due (`Waits`). So it keeps one message at most; what was written to it, that
message and the queue are consecutive numbers up to the last one accepted (`Runs`,
`Numbered`), and its stream stands where the message's `_off` says (`Begun`). The
offset is the message's and not the socket's, so that needs `Alone`: two sockets
keep the same message only when it was cut, which is the exception of `InOrder`.
What a pass of the job does is in lemmas about its loops, each shown to be a
function of the passes (`OffExists`, `StreamsExist`, `FlushedExist`) and read off
for a socket that the message is for once (`StreamsAt`, `WholeOnce`, `CountsOnce`).

Every inductive invariant was an invariant of a TLC run over the module's
instance before it was proved.

`SequenceLemmas` has two uses of induction. The library's induction theorems take
an operator as a parameter, which the provers cannot instantiate; its
`NatLessThanWellFounded` and `WFMin` take none. `LeastNatural` draws from them that
a set of numbers has a least element, and a claim about all numbers is proved by
looking at the least one that refutes it. In this way a recursive function is shown
to exist (`IterExists`, for any loop whose passes are functions; `JoinsExist`, for
the one by which `FlattenSeq` joins streams; `GivesExists`, for the acks that a
flush gives; `FiltersExists`, for the passes of `rawPatternFilter`), and what it does
is followed step by step (`BeginEffect`, `FilterPicks`, and `BytesLead`, message by
message of a flush).

Only model-checked:

- liveness (`EventuallySettled`, `CloseCompletes` and the rest), which needs
  fairness and ENABLED;
- what the violated runs show, which are about the code as it is.

## 6. Not modelled

- `ReqSocket.send` on a socket that belongs to a channel: it takes slots behind
  the job's back.
- A socket attached to two channels.
- Several connections that wait at one memsock listener (accept takes the last
  first), and the identities of I/O watchers, which one free list recycles
  between transports.
- `pipe()` and the throttling it would drive: it throws on its first use.
- Complex patterns, which the code disables; delays, time-outs of idle sockets,
  output streams of workers, URL parsing, path names, and the content of messages.
- Scripts (`tools`, `benchmark`, `test`).

`PROJECT.json` has the hazards that wait for these.

## 7. Plan

Every safety invariant and action property of the passing runs is a theorem. What
is left is to model more:

1. `ReqSocket.send` on a socket of a channel; several connections at a mem listener.
