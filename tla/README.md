# A TLA+ model of the Knative control protocol

The modules here model the Go code under `src/pkg`: the connection between a
controller and its data plane, the service with acks on top of it, the async
command pattern built on both, the pool of connections a controller keeps, and
the reconciler that issues the certificates. TLC checks small instances, TLAPS
proves most of the safety properties for all of them. `PROJECT.json` lists the runs,
the theorems, which lines each definition models, and the hazards.

## 1. The system and its parts

| part | state | operations | what is hard |
|---|---|---|---|
| message queue (`network/message_queue.go`) | list, mutex, condition variable | `append`, `prepend`, `blockingPoll`, `unblockPoll` | wake-ups: `Signal` after unlock, `Broadcast` without the lock, context looked at without it |
| base connection (`network/base_connection.go`) | write queue, read queue, errors channel, current `net.Conn` | `consumeConnection` (closer, writer, reader), `WriteMessage`, `ReadMessage`, `cleanup` | three goroutines, a second context, a bounded channel, giving a message back |
| wire format (`message.go`, `connRead`, `connWrite`) | bytes of a stream | `WriteTo`, `ReadFrom` | several `Write` calls for one message, errors and breaks within them |
| client (`network/client_connection.go`) | retries of the dial | `StartControlClient`, `tryDial`, `reDialLoop` | reconnecting, giving up, shutdown during either |
| server (`network/server_connection.go`) | listener, `ClosedCh` | `StartControlServer`, `listenLoop` | two goroutines that shut down independently |
| service (`service/service.go`) | `waitingAcks`, handler and its lock | `SendAndWaitForAck`, `accept`, `MessageHandler` | late acks, timeouts, a goroutine for each message, handlers that call back |
| caching service (`service/service_caching_wrapper.go`) | last payload sent of each opcode | `SendAndWaitForAck` | cached what was not delivered |
| async command handler (`service/async_command_handler.go`) | none | `HandleServiceMessage`, `NotifySuccess`, `NotifyFailed` | acks before it executes; its result can be lost |
| notification store (`reconciler/*notification_store.go`) | last value of each pod | `MessageHandler`, `GetCommandResult`, `Clean...` | one value per pod, written by goroutines in any order |
| connection pool (`reconciler/connection_pool.go`) | holders by key and host | `ReconcileConnections` and the rest | dials and calls back without the lock |
| certificates reconciler (`certificates/...`) | secrets in the API server, listers, timers, the lease | `ReconcileKind`, informer handlers, `Reconcile`, `PromoteFunc` | stale reads, concurrent rotation, expiry, crashes and changes of leader |

A service calls `WriteMessage` and runs two loops that take from the read queue
and the errors channel of its connection. A controller reconciles a key: it has
the pool connect to the pods, sends a command through the caching service, and
short-circuits; the data plane acks, executes and sends a result, which the
notification store of the controller keeps, and the key is enqueued again.

Properties looked for, part by part: the queue loses and reorders nothing and
wakes its poller; the connection does the same across reconnections, reads the
messages that were written and no others, never sends on a closed channel, consumes one `net.Conn` at a time and shuts down; a call of
the service reports what happened to its message, and ends; the pool does not
leak the hosts it is given once, hands out nothing it cancelled, and converges; a status reported for a
command is that of an execution of it, and arrives; a valid CA is kept, and
certificates are renewed in time.

## 2. The modules

- `MessageQueue`: the queue, `append` in two steps (insert, signal) and
  `blockingPoll` in the steps that others can see (look at the context, lock,
  take or park, wake up). `BlockingFifo` is what it promises, without mutex and
  condition variable; `QueuePolling` is the queue with producers, a poller that
  gives messages back, and a closing context.
- `BaseConnection`: one end of a connection. It instantiates `MessageQueue`
  twice, and has one action for each step of closer, writer, reader, the loops of
  the service, and cleanup. The `net.Conn` is external and only known by the
  outcomes the code tells apart. The goroutine that calls `consumeConnection` is
  the variable `owner`, whose steps are in `ClientConnection` and
  `ServerConnection`.
- `MessageFraming`: one direction of a connection at the level of the bytes, which
  are grouped into the cells that errors can tell apart. It looks
  into what is one step of `BaseConnection`, a message written or read, and is
  checked on its own; no refinement between the two is claimed. A message that is
  given back is written again from its start.
- `Service` (instantiated by `MCService`): both ends of a connection, calls, acks
  in flight, the goroutine of each message. The messages in flight are a set:
  each is accepted by a goroutine of its own, so their order has no effect. A
  message is handled by `NoopMessageHandler` until `MessageHandler` was called,
  then by a `MessageRouter`, which may or may not know its opcode.
  A message may be acked more than once, and by an error with no text.
  `SendPromise` is what `SendAndWaitForAck` promises.
- `ConnectionPool` (instantiated by `MCConnectionPool`): several keys sharing a
  pool, each with one worker, as the work queue of a controller guarantees; `Close`
  overlaps everything. The wanted hosts are a list that may repeat a host, of which
  only the number of times matters, as the order of the dials is left open.
- `AsyncCommand`: caching service, async command handler and notification store
  in one loop with the reconciler of `docs/async_command_pattern.md`. What it
  assumes of the service below is what `SendPromise` states. The data plane may
  restart at any time, and results may be lost or not parse.
- `Certificates` (instantiated by `MCCertificates`): replicas of the controller,
  each with a lister that lags, periodic resyncs of its informer, a work queue,
  timers and a worker for each secret; optimistic updates that fail, also after they
  were made; a lease that is lost; crashes; time. Secrets are relabelled, deleted
  and created again. The resync period is that of the informers
  (`DefaultResyncPeriod` of `knative.dev/pkg/controller`, 10 hours, in `vendor/`);
  `HandleAll` passes on its updates although nothing changed.
- `*Proofs`: theorems, see section 5. `ConnectionProofs` is about client and
  server, and `BaseConnectionProofs` has the lemmas its two halves share.

Data is abstracted to what properties tell apart: messages are numbered, a
payload is whether its error has a text, a certificate is its issuer, names and
expiration. `Mutation:` definitions are variants that a run must be able to tell
from the code; no specification uses them.

## 3. Runs

| run | what it shows |
|---|---|
| `QueuePolling` | order, wake-ups, refinement of `BlockingFifo` (with its liveness) |
| `QueueLostWakeup` (violation) | `blockingPoll` misses a context closed, and the `Broadcast`, between line 41 and line 46, against its comment |
| `ClientConnection` | outbound order of two messages, errors channel, one connection at a time, retries counted anew; `consumeConnection` ends and the client shuts down, except in two named hangs: the missed wake-up, and an errors channel full and abandoned |
| `ClientReadEnds` (violation) | after giving up redialing, `ReadMessage` does not return nil, against `connection.go:27` |
| `ServerConnection` | inbound order, errors channel and shutdown of the server |
| `MessageFraming` | messages are read whole, in order and at most once whatever breaks, except after a transient error within a message or a length that does not fit its header (and, for at most once, an empty payload that is not nil); a message that was delivered is not given back to be written again; what was written is read unless the connection breaks |
| `Service` | results match verdicts, a panic of `accept` takes a second ack, no leak, a replaced handler is left by all, refinement of `SendPromise`, everything ends |
| `ServiceEmptyError` (violation) | `AckWithError` with an error whose text is empty makes the call return nil, against `pkg/service.go:53` |
| `ConnectionPool` | no leak but of hosts listed more than once, nothing cancelled is handed out, convergence after partial failure, every pooled service announced |
| `AsyncCommand` | results are real, commands repeated only after a failed call, stored results are seen, cached commands are answered except in the cases named |
| `AsyncResultLost` (violation) | the late result of an older command hides the newer one's: nil does not mean "still processing" |
| `Certificates` | a valid CA is kept, certificates are renewed in time, the CA does not expire, a controller with nothing left to do has left nothing undone; and it never gets stuck behind (deadlock) |

Bounds. Three appends let one message be in the hand of the poller, one be given
back and one arrive meanwhile. In the client, two outbound messages let one whose
write failed be given back in front of the other, and be repeated on a second
connection; an errors channel of one lets it be full with both reader and writer
waiting; in the server, two inbound
messages let one of a second connection come behind one of the first. Messages
going both ways, and more of them, are left to the proofs. Connections are not
bounded, only messages are. In `MessageFraming`
two messages, nil, empty, of one cell or of a length that does not fit, three
connections and one transient error let a message be cut on one connection and
written again on the next, in front of another one. Two calls, one within the
handler of the other, are the least that has an end both handle and wait; both
ends may read a message before `MessageHandler` is called, and the result may be
acked twice. Two keys, two hosts,
three dials let a reconcile fail half way, a host be dialed again, and one listed
twice be dropped after it was dialed twice. Two
commands, of one generation or of two, let one be a repetition of the other or be
overtaken by it. In
`Certificates`, two replicas let a deposed leader and its successor work at once.
The CA secret is installed at time 0 (`MaxInstall`), as nothing happens before, empty
or with a CA that expires at 4; a leaf made at once would be looked at only then, when
the CA has expired, and the resyncs are what saves it. Six seconds let that CA and
a leaf be renewed, with one event (a crash, a lost lease, a failed update or a change of
the secret) at any time; a secret deleted and created again takes two, and is left to
the proofs. A threshold of three is a resync period of two and `MaxLate` of one, as
tight as the proof allows. The proofs of section 5 need none of these values.

Keys, hosts and replicas are permuted by symmetry: nothing tells them apart, and
no liveness is checked with them.

Fairness. Goroutines that can run are scheduled (weak fairness of each one's
steps). A read or a write on a connection that is up may block for ever, `Accept`
waits for as long as nobody connects; nobody is made to write, call, deliver or
close a context, and of the handlers only those of the repository are made to ack.
In `MessageFraming` the reader is always there and the stream is emptied, so
writes do not block. Dials end, the 15 s timer fires, and a handler returns once
its own calls did. In `AsyncCommand` the user's handler notifies in the end, or the
data plane restarts. `Certificates` states no fairness: in place
of liveness, time does not pass for a controller that is behind by `MaxLate`, so that
one that could not go on would be a deadlock, and what it has reached whenever it is
caught up is an invariant, `CaughtUpIsCurrent`. Deadlock is not checked where the
system may come to rest: loops that ended, calls that are over, bounds that are
reached.

## 4. What the code does that its comments do not say

Besides the four violations above, the models show these, without a run of their
own: `cleanup` runs with an open context after a redial gave up
(`base_connection.go:157`); `ClosedCh` can be closed while the listener is open
(`server_connection.go:57`; `ServerEndsOrHangs` is about the channel and would not
catch it); `consumeConnection` hangs when the errors channel is full and the error
loop of the service has ended, although its comment (`base_connection.go:55`) has it
return (`StuckOnErrors`, one of the two hangs `ConsumeEndsOrHangs` names, checked
with a channel of one in place of ten); a second ack of a message makes `accept`
panic (`service.go:164`); a host listed twice in `wantConnections` is dialed twice and
the first service is lost with its `cancelFn` (`connection_pool.go:239`);
`MessageHandler` waits for running handlers
(`pkg/service.go:87`, "non blocking"); after a transient error in the midst of a
message, what follows on that connection is read out of step (`torn` in
`MessageFraming`); an empty payload that is not nil may be delivered twice
(`message.go:203`); a client that gives up redialing sends no error, only a log
(`client_connection.go:123`), where `connection.go:30` names this as what `Errors`
signals. A CA has no timer of its own and is looked at only when a leaf is. With the
values of the code (CA 10 years, leaf 30 days, threshold 24 hours) a leaf made just
before the CA enters its threshold would have it looked at weeks after it expired; the
resync every 10 hours is what has the leaves, and the CA, looked at in time, as long
as the controller is not behind by more than the 14 hours that are left
(`CANeverExpires`).

## 5. Proofs

Each `*Proofs` module but `BaseConnectionProofs`, which has lemmas only, has an
inductive invariant `IInv` (`ConnectionProofs` has two, `ClientInv` and
`ServerInv`), shown to hold initially and to be kept by every action;
the theorems follow from it. `CertificatesProofs` has a second one, `TInv`, for the
properties about time, and `ConnectionPoolProofs` adds `Shape`, `Exact` and `Told`
to `IInv` for the last two of its properties. Theorems are about `Safety`, which is
`Spec` without its fairness (the `Spec` of `ConnectionPool` has none). They hold for every
value of the constants, given the named `ASSUME` of the module (values are what
their names say, `None` is no value). TLC evaluates the assumptions in every run.

| module | proved | what `IInv` adds, and why |
|---|---|---|
| `QueuePollingProofs` | `TypeOK`, `Fifo`, `NoMissedMessage`, nil only if closed, the steps of `BlockingFifo` | nothing: the four properties are inductive together. Lemmas about sequences say what moving a message from the queue to the poller, and back, does |
| `ConnectionProofs` on `BaseConnectionProofs` | of client and server the types, `OutboundInOrder` and `InboundInOrder`, `NoSendOnClosedErrors`, `OneConnAtATime`, of the client `GivesUpAfterRetries`; over all connections `WakeupsComing` and `NilOnlyIfClosed` for both queues, and that the read queue implements the steps of `BlockingFifo` (`ReadPromise`), which `QueuePollingProofs` shows of a queue and one poller | `BaseInv`: `ClosedWhenDone` (once the closer ended there is no open `net.Conn`), `ErrsClosedLast` (when the errors channel is closed, the owner is past everything else it does), `PolledByOne` (the write queue is polled only by a writer that is polling, the read queue only once the service started, so that no poll starts with a message in hand); `Counts` and `ServiceFirst` of the client and `ServiceNotYet` of the server tie the owner's place to the rest. `WriteQueueMoves` and `ReadQueueMoves` are all that happens to a queue. The write queue implements `BlockingFifo` only connection by connection: each polls with a context of its own, and after a nil. The steps of `BaseConnection` are treated once; client and server add their own |
| `MessageFramingProofs` | `TypeOK`, `FramesIntact`, `AtMostOnceInOrder`, `DeliveredIsFinished` | `Ordered` (from what was delivered over what was read to what is on the way, messages follow the order of the queue, torn or not) and `FinalOnce` (only the last `Write` call for a message writes its final cell, and after that call it is not written again, so the cell exists in one place at most), for at most once; `InStep` (as long as nothing was torn and all lengths fit, what was read are the first cells of the message the reader is at, and the cells on the way follow them one by one up to the cell the writer is at), for frames; `WriterAt` and `ReaderAt`, which say where in a message both are, `WrittenTellsLength` (no message whose length does not fit leaves the queue) and `ConnLeft`. The lemmas say what each `Write` call adds to the stream and what a `Read` takes from it |
| `ServiceProofs` | `TypeOK`, `ResultMatchesVerdict`, `NoPanic`, `NoLeakedWaiter`, `ReplacedHandlerIsGone`, `AckDroppedOnlyAfterReturn`, `ImplementsSendPromise` | `Truthful` (an ack carries a verdict of the handler, wherever it is), `OneAck` (of a message acked once there is one ack, in one place), `AckInChannel` (the channel is closed with an ack in it or received, so that the zero value of a closed channel, which would read as success, is never received), `Undecided` (no result before the select), `Registered` (a message is written after its call registered, and the entry stays until it returns), `Reported` (what the select chose is what an ack said) and `Answered` (only kinds the handler may use) |
| `ConnectionPoolProofs` | `TypeOK`, `NoLeak`, `PooledIsLive`, `Converges`, `Announced` | `NotYetConnected` (the hosts to dial are not connected, or are repeated ones this call dialed before, although the lock was released since they were computed: only `Close` interferes, and it only removes), `Unshared` (a service being added is known to one worker), `Kept` and `Live` (the first two properties, host by host), `Shape` and `Exact` (what is connected, with what is to be dialed and without what is to be dropped, is what was wanted), `Told` (the announced hosts) |
| `AsyncCommandProofs` | `TypeOK`, that the store holds results of executions that ended so (`Stored`), `ResultIsReal`, `CachedIsAccepted`, `SentAgainOnlyAfterFailure` | `Progress` (the life of a message), `InCall`, `Stored`, and `Tracked`: a command of the current generation, with no failed call, is in its call or in the cache |
| `CertificatesProofs` | `TypeOK`, `ValidCAIsKept`, `RenewedInTime`, `CaughtUpIsCurrent`, `CANeverExpires` | `Versions` (what a worker or the lister has is the current version of the CA or an older one) and `FoundInvalid` (who is about to replace the CA found its own version invalid; time only passes), `Created` (a certificate about to be stored has an expiration); for the last three also `Covered` (for every leaf the leader has work under way or news in its informer, or the leaf is `Settled`: a current one, with a timer that is early enough and a resync before too little is left to the CA) with `CopyIsFresh`, `LeafVersions` and `ResyncAhead`, which it rests on, and `LeavesInTime`, `OldInvalid`, `CALasts`, `CALooksInTime`, which relate the clock to timers and expirations |

Assumptions beyond the constants' types. `ResultIsVerdict` and `RefinesSendPromise`
assume that no handler acks with an error of empty text, without which they are
false (run `ServiceEmptyError`). `ResyncKeepsCA` assumes that a resync period and `MaxLate` fit
in the rotation threshold: 10 hours and 24 in the code. `LeavesRenewedInTime` needs no such
assumption; that no certificate expires follows from it if `MaxLate` is less than
the threshold less one second. `Tick` bounds the time the controller is behind by
`MaxLate`.

Only model-checked: all liveness (`BlockingFifo`'s fairness, `ConsumeEndsOrHangs`,
`WriteFreesWriter`, `ClientEndsOrHangs`, `ServerEndsOrHangs`, `CallReturns`, `AckerEnds`,
`SetterReturns`, `StoredIsSeen`, `CachedIsAnswered`, `WrittenIsRead`), which is out
of the prover's reach. Every safety property a
passing run checks is proved.

## 6. Not modelled

- Of the generated reconciler, finalizers and observers, which this reconciler
  does not implement; the informers and the work queue, known as a queue that
  gives a key to one worker at a time and retries on errors. A version of a secret
  that is replaced before the lister saw it is never seen.
- A secret whose label has a value that `ReconcileKind` does not know: it looks at
  the CA as for any other, then fails, and leaves the secret as it is. Secrets whose content was corrupted.
- tls configuration, dialers and cryptography: files and secrets read once, with
  outcomes that are modelled where they are handled (a failed dial, a failed
  upgrade). The port of the listener that cannot be parsed is one of the ways in
  which `StartControlServer` fails, the one that leaves the listener open. So a client that redials with a certificate that was rotated since is
  one whose dials fail.
- A client that gave up and stays in the pool: `ClientConnection` and
  `ConnectionPool` are not composed. Nothing tells the pool, so the host counts as
  connected and is not dialed again; nothing in the repository promises otherwise.
- The lock of `ErrorHandler`, which is that of `MessageHandler` around a handler
  that cannot ack; mergers other than `PassNewValue`; two
  goroutines calling one caching service; `DialControlService` called directly, for a
  host that is connected; a second client that waits while the server consumes the first one's connection.
- Result messages not made by `MarshalBinary`: `UnmarshalBinary` panics where the
  data is too short for the lengths in it (`async_command_result.go:52`). In
  `AsyncCommand` a parser that returns an error is a lost result. The run leaves out
  failures without a text (`failedNoText`), which `Failed` and the proofs include and
  which are reported as success (`async_command_result.go:33`).
- The pod ip getter, a query of the lister without state; test code.

Connection, service and command loop are not composed into one model: it was not
tried, as the client alone, with two messages to write and none to read, has 97,000 states. `AsyncCommand` uses
of the service what `SendPromise` states; `Service` takes from the connection, as its
header says and without a refinement, that nothing is duplicated and that what is
on the wire is lost when it breaks.
