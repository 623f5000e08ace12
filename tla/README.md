# Verification of go-ring

go-ring is a Go client for Ring cameras: sign-in, REST calls, a signaling
websocket that carries live sessions with pan/tilt commands, playback and push
subscriptions, an FCM push receiver, and a CLI that views and records video.
This directory holds TLA+ models of its concurrent core, the TLC runs that check
them on small instances, and TLAPS proofs of their main invariants for every
value of the constants.

## 1. Inventory

| Part (source) | State | Operations | Hard behaviour |
|---|---|---|---|
| Signaling writer (`pkg/dependencies/websocket/writer.go`) | two queues, wake token, streak, one result channel per call | `Send`, `Run`, `queue`, `remove`, `next`, `drain` | many callers against one goroutine, cancellation while queued or being written, shutdown, starvation |
| Session core (`internal/signaling/session.go`) | pending RPCs, sequence, last pong, terminal cause, done, event queue | `Call`, `Send`, `Handle`, `Receive`, `Fail`, `Close`, two workers | six ways to end a session at once, reply correlation, timeouts, a mutex around a channel send |
| Signaling connection (`pkg/ring/signaling_connection.go`, `client_session.go`) | registries of negotiations, sessions, channels, playbacks, pushes; closed, terminal, done | `OpenSignaling`, `route`, `fail`, `Close` | route acts on a look-up made earlier; Close ends children one by one |
| Device session start (`pkg/ring/device_session_start.go`, `live_negotiation.go`) | one negotiation queue per dialog | `StartDeviceSession` and its steps | hand-over from queue to registered session, failure at every step |
| Device session commands (`pkg/ring/device_session.go`) | movement per axis, axis locks | `PanContinuous`, `TiltContinuous`, `StopPTZ`, `Close`, `watch`, `terminate` | what moves when acknowledgements are lost; stops within Close's budget |
| Playback and push subscriptions (`pkg/ring/signaling_extras.go`) | channel per dialog, once | `StartPlayback`, `SubscribePush`, keep-alives | registration against Close, full queues |
| Event websocket (`pkg/dependencies/websocket/events.go`) | message and error channels, pending error | `Receive`, `Close`, read pump | events before the error that follows them |
| Push pipeline (`pkg/ring/client_push.go`, `pkg/dependencies/push`) | three channels in a row | `ConnectPush`, `Close` | a consumer that stops |
| FCM client (`third_party/go-push-receiver`) | credentials, received ids, back-off | `Subscribe`, heartbeat | reconnect, dead connections |
| Login (`pkg/dependencies/rest/auth.go`, `pkg/ring/login_session.go`) | pending PKCE state | `Authenticate`, `Request2FACode`, refresh | failed attempts, concurrent calls |
| REST client (`pkg/dependencies/rest/client.go`) | none | request with retries | uncertain outcomes |
| SDP (`pkg/dependencies/webrtc/sdp.go`) | none | `NormalizeAnswer` | matching sections |
| Recording (`cmd/go-ring/h264_writer.go`, ...) | frame, sequence, damaged, ready | `WriteRTP` | loss, wrap-around |
| CLI (`cmd/go-ring`) | token file, key loop | commands | crash between refresh and save |

A `SignalingConnection` owns a socket, one `SignalingWriter` goroutine and one
reader goroutine. The reader's `route` hands each frame to a negotiation, a
session, a playback or a push subscription by its dialog id. A `DeviceSession`
wraps a core `Session`, whose `Send` goes through the connection to the writer.
Failure flows the other way: a failed write or read calls the connection's
`fail`, which closes `done` and terminates each child.

What makes each part correct, in one line: the *writer* answers every call once
and truthfully, never blocks, and keeps its order and its burst bound; a
*session* ends once, tells every pending call, and lets a reply complete only the
call that asked; the *connection* ends everything it owns; a *start* either
returns a registered, living session or leaves nothing behind; the *PTZ commands*
never forget a movement the camera acknowledged.
`PROJECT.json` lists the hazards at their lines.

## 2. Plan

1. `SignalingWriter` with the abstract `FrameOutbox` (done)
2. `SignalingSession` (done)
3. `DeviceHandover`: negotiation, registration and routing of one dialog (done)
4. `DevicePtz`: movement tracking, `StopPTZ` and `Close` with its budget (done)
5. `EventConnection` with the abstract `EventStream` (done)
6. `PushReceiver`: the FCM client and the translator of its events (done)
7. `LoginSession` and `TokenStore`: sign-in, refresh, and the files the CLI keeps (done)
8. `ConnectionShutdown`: the other registries, `fail`, `Close`, the reader and the writer's
   end; composes what the writer and a session promise
9. `SignalingExtras` (playback, push subscriptions)
10. `RestRetry`; `H264FrameWriter` and `SdpAnswer` as pure operators against reference
    definitions

A run is added only for a question none of the present ones can answer: new
components share runs where one instance can carry them.

Every safety invariant and every safety property of the passing runs is proved (section
6). Theorems worth proving next: that `PushReceiver` implements an abstract mailbox (a
message is handed over before the login that acknowledges it); that `DevicePtz` implements
one camera axis that is moved and stopped; and what `EventStream` and `FrameOutbox` give a
caller, stated about the abstract modules themselves.

## 3. Modules

### SignalingWriter

One step per critical section, channel operation or call out of the package.
`Requests` are the calls of `Send`; the ones in `PriorityRequests` carry a message
that `prioritySignalingMessage` accepts. `priority`, `normal`, `streak` are the
fields of the struct, `wake` the token in the wake channel, `result[r]` the content
of the result channel. `runner`, `current`, `outcome` and `draining` are the program
counter and locals of `Run`; `sender[r]` is where a call of `Send` is.

| Code | Actions |
|---|---|
| `Send` | `SendStart`, `Queue`, `TakeResult`, `GiveUp`, `Remove` |
| `Run` | `RunCheck`, `RunNext`, `RunWake`, `RunRecheck`, `RunStart`, `RunWrite`, `RunReply`, `RunFail` |
| `drain` | `RunDrain`, `RunAnswer` |
| the owner and the contexts | `CloseDone`, `Cancel` |

`RunWrite` stands for `WriteSignaling`: the frame is written, or the write fails,
or the context ends under it. `RunFail` stands for the connection's `fail`, which
closes `done` unless a `Close` has already begun. A cancelled request is told from
a closed owner by the answer only; the Go errors are not modelled.
`accepted`, `wire` and `bypassed` are history variables.

`FrameOutbox` is what callers rely on: one frame in flight, each written at most
once, one answer each, "written" only for a frame that is on the wire, and no
frame taken up after its caller has been answered. `OutboxSpec` is the refinement:
the frame in flight is the one `Run` holds between `next` and the end of `write`.

### SignalingSession

`Calls` are the invocations of `Session.Call`; `Beat` and `Expiry` are the two
workers `NewSession` starts, `Closer` calls `Close`, `Reader` calls `Fail`. All of
them may run `finish`, whose three parts are `BeginFinish` (under the mutex),
`FinishReply` and `FinishAnnounce` (close of `done`), `FinishCancel`. `Send` is
`SendContext`, `SendClosed`, `SendExpiry`, `SendAborted`, `SendReturns`, each one
look at shared state or the transport's answer. `cause[c]` is `context.Cause` of
the call's context, set by `Watch` (the watcher goroutine) or `CallerGivesUp`.
`Handle` is `HandlePong` and `HandleReply`; its event queue, which touches nothing
else of the core, is part of `DeviceHandover`. The messages `Handle`
ignores or rejects without a state change are not steps; the failure of a session
by its reader is `Fail`. Time is a clock that `Tick` advances up to `Horizon`; a
timer fires at or after its deadline. JSON bodies are abstracted to the reply's
request id and whether it names this control session or another one (`WireReplies`).
`replied` is a history variable.

`SessionService` is what callers rely on, without mutex, ids, workers or clock: a session
ends once, for one cause; the end is announced after it; each call is answered once, with
the peer's one reply to it, the cause of the end or an error of its own. `ServiceSpec` is
the refinement: the service has ended when `finish` has set `closed` and the cause, and a
call has its reply when `Handle` has taken its id out of `pending`.

### DeviceHandover

One dialog of one connection. The five goroutines and where they run:

| Goroutine | Code | Actions |
|---|---|---|
| Starter | `StartDeviceSession`, then its owner's `DeviceSession.Close` | `Start`, `Owner` |
| Reader | `readLoop`, `route`, `DeviceSession.handle` | `Route`, `Push`, `ReaderHandles`, `ReaderTerminate`, `ReadFails` |
| Watcher | `DeviceSession.watch` | `Watch` |
| Failer | `fail`, for a failed write or an ended context | `FailBegin`, `FailTerminate`, `HangUp` |
| Closer | `SignalingConnection.Close` | `CloseBegin`, `CloseSession`, `CloseDone`, `CloseHangUp`, `CloseJoin` |

`pending` and `registered` say whether `c.pending` and `c.sessions` hold the
dialog; `queue` is the negotiation's channel; `closed`, `done`, `broken` are the
connection's flag, channel and socket; `marked` and `announced` are the session's
`closed` and `done`; `unread` counts the core's event queue. `route` looks up its
target in `Route` and uses it in `Push` or `ReaderHandles`, as the code does after its
unlock. `terminate` is two steps, `Mark` and `EndCore`. The core session is open or
ended: what ends it inside is `SignalingSession`. A message is its kind. The peer sends
the messages of a start in their order (`Dialog`) and, between them, `MessageLimit`
others: an event, its close, a malformed body, a repetition. Pongs and RPC replies,
which touch the core only, and messages of other sessions are left out. Frames sent to
the peer change nothing here; a send that fails does.

### DevicePtz

`Callers` run `continuous` (a "move") and `StopPTZ` (a "stop") in a loop, `Closers`
run `closeWithContext`: the owner's, and the one `SignalingConnection.Close` calls
before it closes the connection. `lock` holds the owners of `panMu` and `tiltMu`;
`movement` and `closed` are the session's fields; `command[c]` are the arguments and
locals of a call, with the direction it replaced. `Call` is the core and the writer's queue
taking the frame or refusing it. The call then waits for the write, until `Run` has
answered or `GiveUp`, and for the reply: `Acknowledged`, `Refused` or `TimesOut`.

`Run` is the loop of the writer as far as it matters here: `Take` picks a frame whose call
waits, and `Written`, `WriteFails` and `Dropped` end it. `hand` is the frame it has picked.
A call that gives up takes its frame out of the queue, but not out of `hand`
(`writer.go:65` against `writer.go:118`): `Orphan` only removes its name from it, and
`Run`, past its look at the context, writes it later, when the caller has let go of the
axis. A move of speed zero is tracked like any other, and its frame is a stop (`FramesOf`).

`closeWithContext` is `CloseLock` twice, `MarkClosed`, and for each movement `StopCall`,
`StopSend` (which a full queue may refuse), the wait for the write, `StopGivesUp`,
`StopFailed`, and `StopAnswered` or `StopAbandoned`; then `CloseCore` and `CloseReturn`.
`spent` are the closers whose two seconds are over; `BudgetEnds` is possible while Close
waits for a mutex, the write or an answer. `Terminate`, `CoreEnds` and `ConnectionFails`
are what the rest of the library does. `stilled` (the axes a Close has written a stop for)
and `acked` (what was last acknowledged, until the session is closed) are history variables.

### EventConnection

`pump` is `processMessages` with its deferred calls (`PumpCheck`, `PumpReads`,
`ReadFails`, `PumpSend`, `PumpCancel`, `PumpHangUp`), `waiter` the goroutine of
`OpenEventsWithDialer` that closes the socket once the context has ended.
`messages` and `errors` are the two channels, `shut` how many of them `Close` has
closed, `done` who has ended the context, `holder` and `pendingErr` the mutex and the
kept error of `receiveRecord`, whose selects are `Check`, `Drain`, `Select`, `Ended`,
`Empty` and `Prioritize`. `Closers` run `Close`: `CloseBegin`, `CloseCancel`,
`CloseHangUp`, and `CloseChannels` once for each channel. Events are numbers in wire
order. A select with several ready cases takes any of them.

`EventStream` is what a consumer relies on: one queue, with the read error at its end.
`StreamSpec` is the refinement: the queue is the event channel followed by the error,
wherever that is at the moment — in its channel, kept for later, or in a receiver's hands.

### PushReceiver

| Goroutine | Code | Actions |
|---|---|---|
| Subscribe | `Client.Subscribe`, `tryToConnect`, `mcs.disconnect` | those of `Subscribe` |
| Reader of a link | `performRead`, `onDataMessage`, `mcs.handleTag` | those of `Reader` |
| Heartbeat of a link | `heartbeat.start` with its timeout callback | those of `Heart` |
| Translator | `StartWithTransports` | `TakeEvent`, `SendEvent`, `SendCancelled`, `RangeEnds` |

A link is one connection to the server; the goroutines of an old one may outlive it.
`events` counts what `Events` holds, `closed` says that it is closed, `once[l]` is the
`sync.Once` of `disconnect`. `heartbeatAck` is unbuffered: `Ack` is the send and the
receive together, and a send on it after `disconnect`, like one on closed `Events`, sets
`crashed`: the process is gone. `receivedIds` is the list of ids the next login
acknowledges; it is read, appended to and written without a lock, so an append may be
built on an older list (`loaded`). The server is external: it holds `pending`, the
messages it was not told to forget. `settled` (delivered, or given up by decryption) and
`reports` are history variables.

### LoginSession and TokenStore

`LoginSession` is `LoginSession.Authenticate` over `rest/auth.go`. A call holds the
session's mutex to its return; one HTTP request is one step that succeeds, is refused,
or whose answer is lost after the service has done its part. `call[s]` is the request
that is next, `pending` the client's `pendingPKCE`, `code[s]` the argument of the call, of
which "ask" stands for `Request2FACode`. `Close` drops the client and the challenge with it.
Ring's service is external and modelled as far as the client relies on it: how far a
challenge has come (`stage`), the codes it has delivered for one (`codes`) and by the legacy
route (`legacyCodes`), the newest refresh token of a login, and whether refresh replaces it
(`rotates`). Any request for the sign-in page, the credentials or the first verification may
be answered by a 404, which sends that call to the legacy route; the next call starts over.

`TokenStore` runs the commands of the CLI over one directory, each as a process: `login`
over a `LoginSession`, `refresh`, `logout`, `events watch`, and an application that calls
a session in any order. `save` (and `savePushCredentials`, its twin) is `SaveCreate`,
`SaveWrite`, `SaveSync`, `SaveClose`, `SaveRename`, `SaveReturns`, and each may fail, as
may the deferred `Remove`, whose error nobody sees: the temporary file is then "left".
`Killed` ends a process between any two steps and leaves its temporary file behind;
`PowerFails` ends them all, and what was renamed without having been synced is torn. A
file is the set of records it holds, a record its login, its refresh token and whether
it is synced. Lines of text, permissions and paths are left out.

## 4. Runs

| Run | Instance | Shows |
|---|---|---|
| `writer_safety` | 3 calls (2 safety, 1 normal), capacity 2, burst limit 1 | the writer's invariants and the refinement |
| `writer_liveness` | 2 calls, capacity 1 | `SendReturns`, `RunFinishes` |
| `session` | 1 call, age 2, heartbeat, response time-out and missed intervals 1, times 0..2 | correlation, one cause for all, implements `SessionService`, and nothing due stays outstanding |
| `handover` | queues of 2, one message besides those of a start | the connection's end reaches the session; a failed start leaves nothing; Start and Close return |
| `handover_lost_close`, `handover_retained` | queues of 2, one other message or none | **violated**, see below |
| `ptz` | 1 caller, 2 closers (the owner's, the connection's), 1 direction | tracking, one closer, its stop the last of the axis; commands and Close return |
| `ptz_close_stops` | 1 caller, 1 closer, 2 directions | **violated**, see below |
| `event_stream` | 2 receivers, 2 closers, capacity 1, 2 events | one ordered stream; channels closed once and last; receives and Close return |
| `push_receiver` | 1 message, 2 links, `Events` of 1 | no acknowledged message is lost, links end cleanly, the receiver stops |
| `push_channel_closes` | 1 message, 1 link, `Events` of 1 | **violated**, see below |
| `token_store` | 2 commands, at most one of which signs in, 3 calls or saves each | whole files, the newest token, one challenge, one code by each route |

Bounds. Capacity 2 with three calls lets the writer's queues fill (a third call meets
back-pressure) and lets one class overtake the other; burst limit 1 is reached
with two safety frames. The safety frames are interchangeable, hence the symmetry, and
`MCView` leaves out what neither the properties nor any later step can read: locals of
`Run` between two requests, the wake token and the streak once it drains, the end of a
context whose call is over, and how frames of different classes are interleaved on `wire`
and in `accepted`, which only `FifoPerClass` compares, within a class.
In `session` a response time-out, a heartbeat, a missed interval, the age and every
context may fall together in one unit of time, or one after the other in three;
`Horizon` lets no time pass after it. There is one call because the clocks multiply the
states: its reply may still be late, repeated or for another control session, and that it finds no *other* call either is proved for any set of calls (section 6).
The messages of a start fill its negotiation queue of two before it has read the first;
one more is enough to meet the queue, the drain or the registered session.
`DevicePtz` has no bound beyond its sets: callers repeat commands for ever, two closers
are all the code has, and a caller competes with either for both axes. What two callers
could do to each other is excluded by the axis mutex, and proved for any number of them.
One event fills the channel of `event_stream` and a second meets it full or comes before
the error. A second link of `push_receiver` is enough for the goroutines of the first to
outlive it; `Dial` stops at `LinkLimit`. In `token_store` two processes may interleave
every step of a save, a refresh or a sign-in; two sign-ins at once share no state but the
file that `save` replaces, which a sign-in beside a refresh already contends for.
`CallLimit` lets an application fail, resume and repeat, and `Mixes` is the bound on what
runs together: an application shares no file with the commands and runs beside a logout
only. The two commands are interchangeable. The theorems of section 6 hold for every value of these bounds.

Deadlock is not an error in any run: calls return, workers and commands stop, and the
system may then rest.

Findings.

* `handover_lost_close`: the peer's `close` may be pushed to the negotiation queue
  after `StartDeviceSession` has drained it (`signaling_connection.go:49`); the
  session stays active, against what
  `TestDeviceSessionRemoteCloseTerminatesMatchingSession` states.
* `handover_retained`: a session that ends between `camera_started` and its
  registration is registered after `watch` has removed it
  (`device_session_start.go:277`) and stays in the map for the connection's life.
* `ptz_close_stops`: `live-sessions.mdx:64` says that closing a session stops tracked
  movement. `Close` starts its two seconds before it asks for the axis mutexes, which a
  command in flight may hold for ten; the stop is then never sent.
* `push_channel_closes`: `push-notifications.mdx:53` says that the event channel closes
  when the connection ends. After a failed ping the heartbeat has returned
  (`heartbeat.go:137`), the reader's next heartbeat frame blocks on `heartbeatAck`
  (`mcs.go:245`), and `Close` leads to `disconnect`, which closes that channel
  (`mcs.go:57`): the blocked send panics and the process ends instead.

What is left of three of these promises is proved: at most one message is lost in the
hand-over (`OneLateMessage`); while its two seconds last, and unless the writer's queue is
full, `Close` is done with a movement only after its stop was written (`CloseStopsInTime`);
and of the senders on `Events` only a reader can meet it closed
(`OnlyReadersSendLate`).

Limits of what is stated here:

* `BurstBound` bounds *picks*. `next` counts a picked normal request, and `Run` does
  not write one whose context has ended, so a cancelled normal frame may use up the
  turn of a live one; no bound on consecutive *writes* holds.
* `Handle` is called by the connection's reader and, while `StartDeviceSession` waits
  for `camera_started` and drains, by the starter. From the registration on the two
  may handle messages out of order, so no property promises the order of the wire.
* `StopIsLast` speaks of axes a Close has written a stop for. A cancelled first move is no
  longer tracked: `Close` sends no stop for it, and `Run` may still write it afterwards. A
  stop that finds the writer's queue full (`writer.go:58-60`, `writer.go:137-139`) is not
  repeated.
* `ReceiverStops` has the premise that `Events` finds room again and again. With a channel
  of one, as in its run, that asks a consumer to keep reading; where the process has crashed
  it has stopped, too.
* `OneCodePerLogin` counts by route. A sign-in page that answers 404 once
  (`auth.go:104-107`, `auth.go:263-264`) has a code delivered by the legacy route and no
  challenge kept; the next call finds the page and has a second one delivered.
  `docs/guides/authentication.mdx:50` asks applications to avoid just that.

Disagreements read in the code that no run shows, because no property of this
directory is about them:

* `Request2FACode` after a failed sign-in returns nil without asking the service for a
  code (`auth.go:91`): the pending challenge is taken for one whose code is under way.
* `Authenticate` returns the rotation's answer as it is (`auth.go:81-83`). When that has
  no refresh token, the one of the exchange is lost and `login` saves none; `refresh` keeps the
  old one in the same case (`tokens.go:253`).
* A refresh whose answer is lost, or a process killed before its save, loses the only
  refresh token of a service that rotates. A logout can be undone, and a newer login
  overwritten, by a refresh that was under way.
* The translator passes every disconnect of the FCM client on as `PushClosed`, although
  a retry follows. Once the consumer has stopped with `Events` full, the goroutines of the
  FCM client stay blocked. After a failed ping no deadman timer is left for that link.

## 5. Fairness

`SignalingWriter`: weak fairness of `Run` and of each call of `Send` that has begun.
Goroutines are scheduled, and `WriteSignaling` carries a deadline of
`SendTimeout`. Nobody is obliged to close `done`, to cancel or to call.

`SignalingSession`: weak fairness of the program's steps taken together
(`ProgramStep`). Up to the horizon they are finitely many, so this is no more than
fairness of each goroutine. The clock need not move: `NothingStaysOverdue` says that
what is *due* is done, from the instant a deadline, the age or a context has been reached.
The transport is only assumed to honour its context (session.go:145): no fairness on
`SendReturns`, on the peer, on `Close`, `Fail` or the owner's context.

`DeviceHandover`: weak fairness of `ProgramStep`, the steps the goroutines take once they
have begun and the core's end (its greatest age); the negotiation's deadline is always
among the starter's next steps. Between two messages of the peer these are finitely many.
No fairness on the peer's messages, on a failing read of a healthy socket, or on anybody's
wish to start, close or fail.

`DevicePtz`: strong fairness of each caller inside a call, and one for the closers, because
others take a mutex again and again: `sync.Mutex` hands itself over to a goroutine that
has waited for a millisecond. Callers repeat commands for ever, so each needs its own;
closers take finitely many steps. `TimesOut` and `GiveUp` belong to the caller, `BudgetEnds`
to the closers. No fairness on `Run` or on the camera's answers.

`EventConnection`: weak fairness of `Winding` (the pump, a read of a *closed* socket, the
waiter, the closers that have begun) and of the receiver that holds `receiveMu`; strong
fairness of each receiver's taking it. The peer may stay silent and nobody need close.

`PushReceiver`: the run assumes strong fairness of `Subscribe` and of the heartbeats only
(`SenderSpec`): they may find room on `Events` and lose it to another sender, and Go serves
blocked senders in their order. Readers and the translator may stall. `FairSpec`, which the
violated run uses, adds weak fairness of the translator and strong fairness of the readers,
so that the channel stays open although everybody runs. No frame, ping failure or timeout is
promised. `ReceiverStops` and `DeadLinkGivenUp` have the premise that `Events` finds room
again and again, because nothing holds without a consumer.

`TokenStore` promises safety only: any process may be killed or wait for ever.

## 6. Proofs

The seven `...Proofs` modules extend their modules and prove, from the named
assumptions on the constants only:

* **Writer.** `OwnershipInvariant` gives `IInv`: a request is in at most one of the
  two queues, `drain`'s list and `Run`'s hands; where it is, its result channel is
  empty and (for the queues) its caller is still in `Send`. None of `ResultRoom`,
  `ReturnedNotQueued` or `OutboxSpec` is inductive without it: a request queued
  twice would be answered twice. From it follow `ResultRoomAlways`,
  `QueuesBounded` and `WriterImplementsOutbox`. `TypeCorrect`, `WakeupNotLost` and
  `BurstBounded` (which needs that `bypassed` never exceeds `streak`) have
  inductive invariants of their own. `FifoAlways` is about what is already written, so
  `OrderInv` follows a frame on its way there: `accepted` lists each request once, the
  queues and `wire` are in its order, and within a class what is written comes before what
  `Run` holds, and that before what is queued. A cancelled frame leaves from the middle of a
  queue (`OrderDropLemma`), which keeps the order of the others.
* **Session.** `SessionInvariant` gives `IInv`: ids in `pending` are at most
  `sequence`, belong to one call, and that call is between registration and
  cleanup with an empty reply channel; once `closed`, `pending` is empty, one actor
  at most is inside `finish`, and `terminal`, `done`, `cancelled` follow its
  progress. From it: `SessionTypeCorrect`, `PendingAlwaysSound`,
  `EndAlwaysReachesCalls`, `RepliesCorrelated` and the action property
  `SessionEndsOnce`. `OneCauseAlways` needs `AnswerInv`: `OneCause` speaks of calls that
  have returned, `AnswerInv` of every place where a cause waits before that (the context,
  the reply channel, the result of a send), each of which agrees with `terminal` or is no
  cause of the session's. `SessionImplementsService` rests on both and on `ReplyInv` (an id
  is answered once, for the call that registered it): each disjunct of `Next` is a step of
  `SessionService` or a stutter.
* **Handover.** `HandoverInvariant` gives `IInv`: while the starter has registered
  nothing, no other goroutine is doing anything to the session (`StartInv`), and a
  registered session of a closed connection is marked or about to be, as its core is
  ended once it is marked (`EndInv`). `EndReachesSession` is not inductive: it says
  nothing of the time before `StartDeviceSession` returns. From it:
  `EndAlwaysReachesSession`, `FailedStartClean`, `TypeCorrect`. `OneMessageLate` adds to it
  that a registered dialog is not pending (`LateInv`): `route` looks a dialog up once for
  each message, so what it still pushes to the queue after the drain is the one it held.
* **PTZ.** `PtzInvariant` gives `IInv`: who holds which mutex at which step
  (`LockInv`), that a move in flight has kept the acknowledged movement (`TrackInv`),
  that no call is under way once a closer is past the mutexes (`CloseInv`), and whose frame
  `Run` holds (`HandInv`). From it: `MovementTracked`, `OneCloserAlways`, `StopsLast` and the
  action property `StopsInTime`. `StopsLast` needs `QuietInv`: an orphaned move may outlive
  its call, but `Run` holds one frame at a time, so that it is gone when a closer's stop is
  in its hand, and no call is left to put another there. `StopsInTime` needs that a closer
  waits for an answer only to a stop that was written, and fails only for want of time,
  core or connection (`StopInv`).
* **Events.** `EventInvariant` ties the channels, the pump, the kept error and the
  receiver that holds the mutex together: the error is in one of three places at most,
  and nothing is sent once the pump has finished. From it: `TypeCorrect`,
  `ChannelsClosedLastAlways` and the refinement `EventsAreOneStream`: every step of
  `EventConnection` is a step of `EventStream` or a stutter.
* **Push.** `PushInvariant` has two parts: `LinkInv`, how far the end of each link has
  come and who is inside its `disconnect`, and `MailInv`, that an id on the list is in
  a reader's hands or settled. From it: `TypeCorrect`, `AcknowledgedNeverLost`,
  `LinksAlwaysEndCleanly`, and `OnlyReadersLate`, which justifies that the sends of
  `Subscribe` and of the heartbeats have no panicking alternative in the model.
* **Token store.** `StoreInvariant` gives `StoreInv`: what the steps of `save` leave on
  disk (`SaveInv`); who holds the newest refresh token of a login and that nobody else is
  about to save one (`HolderInv`, `GrantInv`); how a challenge, the codes of either
  route and the call that is under way go together (`CodeInv`). `SavesNewest` needs `HolderInv`: two
  refreshes may have loaded the same token, but the service accepts it once. From it:
  `TypeCorrect`, `SavesAlwaysAtomic`, `ChallengeNeverLost`, `LoginAsksOnce` and the action
  properties `AlwaysSavesNewest`, `RefreshAlwaysKept`.

Model-checked only: the liveness properties `SendReturns`, `RunFinishes`, `CallsReturn`,
`ReceiverStops`, `DeadLinkGivenUp` and `NothingStaysOverdue`. Liveness under fairness and `ENABLED` are out of the prover's reach, as
are induction over data and `RECURSIVE` operators; no module needs the latter.

## 7. Not modelled

* Generated clients and models, most of the repository's lines: data types and one
  HTTP request per function, with no behaviour to check.
* Wire encoding and JSON validation, error wording, logging, terminal handling, tests and
  tools. `SDP` and H.264 assembly are sequential functions on text and bits.
* The other children of a connection: data channels, playback sessions and push
  subscriptions, and so the registries of `route`, `fail` and `Close` that hold them;
  the dialling of `OpenSignaling`.
* The REST client's retries: one request in a loop, without state of its own.
* `PushConnection`'s queue behind the translator, a third stage of the same
  shape; the registration, framing and decryption of the FCM client.
* The viewer, the player and the recording commands of the CLI.

`PROJECT.json` gives the reason for each component, and the hazards no property covers.
