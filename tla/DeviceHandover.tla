----------------------------- MODULE DeviceHandover -----------------------------
(***************************************************************************)
(* pkg/ring: one dialog of a signaling connection, from the offer of       *)
(* StartDeviceSession to the end of the session.                           *)
(*                                                                         *)
(* Five goroutines meet here.  The Starter runs StartDeviceSession and,    *)
(* when it succeeds, may call DeviceSession.Close; the Reader is readLoop  *)
(* with route; the Watcher is DeviceSession.watch; the Failer runs the     *)
(* connection's fail for a failed write or an ended context; the Closer    *)
(* calls SignalingConnection.Close.  Each critical section of the          *)
(* connection's and of the session's mutex is a step.                      *)
(*                                                                         *)
(* The core session is open or ended (SignalingSession has its inside,     *)
(* and the pongs and replies that touch nothing else).  A message is its   *)
(* kind and names this session; "malformed" is a session_created or an     *)
(* answer that negotiation rejects.  Frames sent to the peer change no     *)
(* state here, a send that fails does.                                     *)
(***************************************************************************)
EXTENDS Naturals, Sequences

CONSTANTS QueueCapacity,  \* signaling.NegotiationQueueCapacity
          EventCapacity,  \* signaling.EventQueueCapacity
          MessageLimit    \* bound: other messages of the peer than those a start waits for

ASSUME CapacityAssumption == /\ QueueCapacity \in Nat \ {0} /\ EventCapacity \in Nat \ {0}
                             /\ MessageLimit \in Nat

VARIABLES closed,      \* c.closed
          done,        \* c.done is closed
          broken,      \* c.conn is closed: the next read fails
          pending,     \* c.pending holds the dialog
          registered,  \* c.sessions holds the dialog
          queue,       \* negotiation.events
          core,        \* the core session
          marked,      \* s.closed of the DeviceSession
          announced,   \* s.done is closed
          unread,      \* messages in the core's event queue
          ctxEnded,    \* the context StartDeviceSession was given has ended
          progress,    \* what AwaitLiveAnswer, while it runs, has accepted
          message,     \* route's argument
          read,        \* number of messages read that a start waits for ...
          extra,       \* ... and of others
          pc           \* where each goroutine is

connection == <<closed, done, broken>>
registry   == <<pending, registered>>
session    == <<core, marked, announced, unread>>
input      == <<message, read, extra>>
vars == <<connection, registry, queue, session, ctxEnded, progress, input, pc>>

Kinds  == {"session_created", "sdp", "camera_started", "event", "close", "malformed"}
Actors == {"Starter", "Reader", "Watcher", "Failer", "Closer"}

States == {"idle", "offer", "await", "create", "activate", "starting", "register", "draining",
           "drainMark", "drainKill", "terminating", "startKill", "cleanup", "returned", "failed",
           "reading", "pushing", "handling", "mark", "kill", "gone",
           "failing", "failMark", "failKill", "hangUp",
           "closeMark", "closeKill", "closeRemove", "closeAnnounce", "closeDone", "joining", "done",
           "none", "waiting", "marking", "removing", "announcing"}

Goto(a, state) == pc' = [pc EXCEPT ![a] = state]
At(a, state)   == pc[a] = state

Init == /\ closed = FALSE /\ done = FALSE /\ broken = FALSE
        /\ pending = FALSE /\ registered = FALSE /\ queue = <<>>
        /\ core = "none" /\ marked = FALSE /\ announced = FALSE /\ unread = 0
        /\ ctxEnded = FALSE
        /\ progress = "none" /\ message = "event" /\ read = 0 /\ extra = 0
        /\ pc = [a \in Actors |-> CASE a = "Reader" -> "reading"
                                    [] a = "Watcher" -> "none"
                                    [] OTHER -> "idle"]

--------------------------------------------------------------------------------
(* Parts of a DeviceSession that several goroutines run. *)

\* terminate up to its unlock: only the first sets closed and goes on to end the core.
Mark(a, next, after) ==
    \/ marked /\ Goto(a, after) /\ UNCHANGED marked
    \/ ~marked /\ marked' = TRUE /\ Goto(a, next)

EndCore == core' = IF core = "open" THEN "ended" ELSE core

\* core.Handle of a message that names this session: refused by an ended core, or by a
\* full event queue.
Accepts == core = "open" /\ unread < EventCapacity

\* DeviceSession.handle: an error of Handle or the peer's close terminates.  A malformed
\* message may be rejected for its body, or ignored because it names another session.
Deliver(a, kind, next, after) ==
    \/ /\ unread' = IF Accepts THEN unread + 1 ELSE unread
       /\ Goto(a, IF ~Accepts \/ kind = "close" THEN next ELSE after)
    \/ /\ kind = "malformed"
       /\ UNCHANGED unread
       /\ \/ Goto(a, next) \/ Goto(a, after)

--------------------------------------------------------------------------------
(* StartDeviceSession. *)

\* prepareDeviceSession, under the mutex: the dialog is pending before the offer is sent.
Prepare ==
    /\ At("Starter", "idle")
    /\ \/ (closed \/ ctxEnded) /\ Goto("Starter", "failed") /\ UNCHANGED pending
       \/ ~closed /\ ~ctxEnded /\ pending' = TRUE /\ Goto("Starter", "offer")
    /\ UNCHANGED <<connection, registered, queue, session, ctxEnded, progress, input>>

\* The offer's send; it may fail for its context, the connection or the socket.
Offer ==
    /\ At("Starter", "offer")
    /\ \/ ~done /\ Goto("Starter", "await")
       \/ Goto("Starter", "cleanup")
    /\ UNCHANGED <<connection, registry, queue, session, ctxEnded, progress, input>>

\* AwaitLiveAnswer: session_created, then the answer; other messages are skipped.
AwaitMessage ==
    /\ At("Starter", "await") /\ queue # <<>>
    /\ queue' = Tail(queue)
    /\ LET kind == Head(queue) IN
       \/ /\ kind = "session_created"
          /\ progress' = "created"
          /\ UNCHANGED pc
       \/ /\ kind = "sdp" /\ progress = "created"
          /\ progress' = "none"
          /\ Goto("Starter", "create")
       \/ /\ \/ kind \in {"close", "malformed"}
             \/ kind = "sdp" /\ progress = "none"
          /\ progress' = "none"
          /\ Goto("Starter", "cleanup")
       \/ kind \in {"camera_started", "event"} /\ UNCHANGED <<progress, pc>>
    /\ UNCHANGED <<connection, registry, session, ctxEnded, input>>

\* The other branches of the select: the deadline of the negotiation, the contexts' ends.
AwaitForever ==   \* mutant: only the connection's end is watched
    /\ At("Starter", "await") /\ done /\ Goto("Starter", "cleanup")
    /\ UNCHANGED <<connection, registry, queue, session, ctxEnded, progress, input>>
AwaitEnds ==
    /\ At("Starter", "await")
    /\ progress' = "none"
    /\ Goto("Starter", "cleanup")
    /\ UNCHANGED <<connection, registry, queue, session, ctxEnded, input>>

\* The rest of createNegotiatedDeviceSession: an answer that does not fit the offer, an
\* age already spent and an ended context fail; else the core and its watcher start.
Create ==
    /\ At("Starter", "create")
    /\ \/ /\ Goto("Starter", "cleanup") /\ UNCHANGED core
       \/ /\ ~ctxEnded
          /\ core' = "open"
          /\ pc' = [pc EXCEPT !["Starter"] = "activate", !["Watcher"] = "waiting"]
    /\ UNCHANGED <<connection, registry, queue, marked, announced, unread, ctxEnded, progress, input>>

\* activateDeviceSession: three sends, the last two through the core.
Activate ==
    /\ At("Starter", "activate")
    /\ \/ ~done /\ core = "open" /\ Goto("Starter", "starting")
       \/ Goto("Starter", "terminating")
    /\ UNCHANGED <<connection, registry, queue, session, ctxEnded, progress, input>>

\* waitForCameraStarted: the starter handles what is queued until the camera has started.
StartingMessage ==
    /\ At("Starter", "starting") /\ queue # <<>>
    /\ queue' = Tail(queue)
    /\ LET kind == Head(queue)
           skipped == kind \in {"session_created", "sdp", "malformed"}
       IN
       \/ skipped /\ UNCHANGED <<unread, pc>>
       \/ /\ ~skipped /\ ~Accepts
          /\ Goto("Starter", "terminating")
          /\ UNCHANGED unread
       \/ /\ ~skipped /\ Accepts
          /\ unread' = unread + 1
          /\ pc' = [pc EXCEPT !["Starter"] = CASE kind = "close" -> "terminating"
                                               [] kind = "camera_started" -> "register"
                                               [] OTHER -> "starting"]
    /\ UNCHANGED <<connection, registry, core, marked, announced, ctxEnded, progress, input>>

StartingEnds ==
    /\ At("Starter", "starting")   \* the same, or the dialog's end
    /\ Goto("Starter", "terminating")
    /\ UNCHANGED <<connection, registry, queue, session, ctxEnded, progress, input>>

\* Under the mutex: from pending to sessions, unless the connection has ended.
RegisterUnchecked ==   \* mutant: no look at closed
    /\ At("Starter", "register")
    /\ pending' = FALSE /\ registered' = TRUE /\ Goto("Starter", "draining")
    /\ UNCHANGED <<connection, queue, session, ctxEnded, progress, input>>
Register ==
    /\ At("Starter", "register")
    /\ pending' = FALSE
    /\ \/ closed /\ Goto("Starter", "terminating") /\ UNCHANGED registered
       \/ ~closed /\ registered' = TRUE /\ Goto("Starter", "draining")
    /\ UNCHANGED <<connection, queue, session, ctxEnded, progress, input>>

\* What is still queued is handled here; then StartDeviceSession returns.
Drain ==
    /\ At("Starter", "draining")
    /\ \/ /\ queue # <<>>
          /\ queue' = Tail(queue)
          /\ Deliver("Starter", Head(queue), "drainMark", "draining")
       \/ queue = <<>> /\ Goto("Starter", "returned") /\ UNCHANGED <<queue, unread>>
    /\ UNCHANGED <<connection, registry, core, marked, announced, ctxEnded, progress, input>>

DrainTerminate ==
    /\ \/ At("Starter", "drainMark") /\ Mark("Starter", "drainKill", "draining") /\ UNCHANGED core
       \/ At("Starter", "drainKill") /\ EndCore /\ Goto("Starter", "draining") /\ UNCHANGED marked
    /\ UNCHANGED <<connection, registry, queue, announced, unread, ctxEnded, progress, input>>

\* A start that fails after Create terminates what it created ...
StartTerminate ==
    /\ \/ At("Starter", "terminating") /\ Mark("Starter", "startKill", "cleanup") /\ UNCHANGED core
       \/ At("Starter", "startKill") /\ EndCore /\ Goto("Starter", "cleanup") /\ UNCHANGED marked
    /\ UNCHANGED <<connection, registry, queue, announced, unread, ctxEnded, progress, input>>

\* ... and every failed start removes its pending entry.
CleanupForgotten ==   \* mutant: the entry stays
    /\ At("Starter", "cleanup") /\ Goto("Starter", "failed")
    /\ UNCHANGED <<connection, registry, queue, session, ctxEnded, progress, input>>
Cleanup ==
    /\ At("Starter", "cleanup")
    /\ pending' = FALSE
    /\ Goto("Starter", "failed")
    /\ UNCHANGED <<connection, registered, queue, session, ctxEnded, progress, input>>

Start == \/ Prepare \/ Offer \/ AwaitMessage \/ AwaitEnds \/ Create \/ Activate
         \/ StartingMessage \/ StartingEnds \/ Register \/ Drain \/ DrainTerminate
         \/ StartTerminate \/ Cleanup

--------------------------------------------------------------------------------
(* readLoop and route. *)

\* A frame is read; route looks its target up under the mutex.  Without one the message
\* is dropped.  The peer sends the messages of a start in their order, and a few others;
\* a session takes those of a start as it takes any other ...
Dialog == <<"session_created", "sdp", "camera_started">>
Route ==
    /\ At("Reader", "reading") /\ ~broken
    /\ pending \/ registered
    /\ \/ read < Len(Dialog) /\ read' = read + 1 /\ message' = Dialog[read']
          /\ UNCHANGED extra
       \/ extra < MessageLimit /\ extra' = extra + 1
          /\ message' \in (IF pending THEN Kinds ELSE {"event", "close", "malformed"})
          /\ UNCHANGED read
    /\ Goto("Reader", IF pending THEN "pushing" ELSE "handling")
    /\ UNCHANGED <<connection, registry, queue, session, ctxEnded, progress>>

Routed == message' = "event" /\ UNCHANGED <<read, extra>>   \* the message has been dealt with

\* ... and uses it after the unlock.
PushAlways ==   \* mutant: a queue without a bound
    /\ At("Reader", "pushing") /\ queue' = Append(queue, message) /\ Goto("Reader", "reading")
    /\ UNCHANGED <<connection, registry, session, ctxEnded, progress>> /\ Routed
Push ==
    /\ At("Reader", "pushing")
    /\ \/ /\ Len(queue) < QueueCapacity
          /\ queue' = Append(queue, message)
          /\ Goto("Reader", "reading")
       \/ Len(queue) >= QueueCapacity /\ Goto("Reader", "failing") /\ UNCHANGED queue
    /\ UNCHANGED <<connection, registry, session, ctxEnded, progress>> /\ Routed

ReaderHandles ==
    /\ At("Reader", "handling")
    /\ Deliver("Reader", message, "mark", "reading")
    /\ UNCHANGED <<connection, registry, queue, core, marked, announced, ctxEnded, progress>> /\ Routed

ReaderTerminate ==
    /\ \/ At("Reader", "mark") /\ Mark("Reader", "kill", "reading") /\ UNCHANGED core
       \/ At("Reader", "kill") /\ EndCore /\ Goto("Reader", "reading") /\ UNCHANGED marked
    /\ UNCHANGED <<connection, registry, queue, announced, unread, ctxEnded, progress, input>>

\* A read that fails (the peer, an invalid frame, or a closed socket) ends the reader;
\* it reports the failure unless the connection is closed.
ReadFails ==
    /\ At("Reader", "reading")
    /\ broken' = TRUE
    /\ Goto("Reader", IF closed THEN "gone" ELSE "failing")
    /\ UNCHANGED <<closed, done, registry, queue, session, ctxEnded, progress, input>>

Reader == Push \/ ReaderHandles \/ ReaderTerminate \/ (broken /\ ReadFails)

--------------------------------------------------------------------------------
(* fail and Close of the connection, watch and Close of the session. *)

\* fail up to its unlock: closed, done and a copy of the sessions.  On a closed connection
\* it does nothing, so that of the others only the reader's is a step there.
FailBegin(a) ==
    /\ \/ At(a, "failing")
       \/ a = "Failer" /\ At(a, "idle") /\ ~closed
    /\ \/ /\ closed
          /\ Goto(a, "reading")
          /\ UNCHANGED <<closed, done>>
       \/ /\ ~closed
          /\ closed' = TRUE /\ done' = TRUE
          /\ Goto(a, IF registered THEN "failMark" ELSE "hangUp")
    /\ UNCHANGED <<broken, registry, queue, session, ctxEnded, progress, input>>

FailTerminate(a) ==
    /\ \/ At(a, "failMark") /\ Mark(a, "failKill", "hangUp") /\ UNCHANGED core
       \/ At(a, "failKill") /\ EndCore /\ Goto(a, "hangUp") /\ UNCHANGED marked
    /\ UNCHANGED <<connection, registry, queue, announced, unread, ctxEnded, progress, input>>

\* conn.Close, the last step of fail.
HangUp(a) ==
    /\ At(a, "hangUp")
    /\ broken' = TRUE
    /\ Goto(a, IF a = "Reader" THEN "reading" ELSE "gone")
    /\ UNCHANGED <<closed, done, registry, queue, session, ctxEnded, progress, input>>

Fail(a) == FailTerminate(a) \/ HangUp(a) \/ (At(a, "failing") /\ FailBegin(a))

\* Close of the connection up to its unlock: closed and a copy, but done stays open
\* while the children are closed.
CloseBegin ==
    /\ At("Closer", "idle")
    /\ \/ closed /\ Goto("Closer", "joining") /\ UNCHANGED closed
       \/ /\ ~closed /\ closed' = TRUE
          /\ Goto("Closer", IF registered THEN "closeMark" ELSE "closeDone")
    /\ UNCHANGED <<done, broken, registry, queue, session, ctxEnded, progress, input>>

\* closeWithContext of the session, run by the Closer and by a started session's owner:
\* the stops and the close frame, core.Close, removal, done.
CloseSession(a, after) ==
    /\ \/ At(a, "closeMark") /\ Mark(a, "closeKill", after)
          /\ UNCHANGED <<core, registry, announced>>
       \/ At(a, "closeKill") /\ EndCore /\ Goto(a, "closeRemove")
          /\ UNCHANGED <<marked, registry, announced>>
       \/ At(a, "closeRemove") /\ pending' = FALSE /\ registered' = FALSE
          /\ Goto(a, "closeAnnounce") /\ UNCHANGED <<core, marked, announced>>
       \/ At(a, "closeAnnounce") /\ announced' = TRUE /\ Goto(a, after)
          /\ UNCHANGED <<core, marked, registry>>
    /\ UNCHANGED <<connection, queue, unread, ctxEnded, progress, input>>

CloseDone ==
    /\ At("Closer", "closeDone")
    /\ done' = TRUE
    /\ Goto("Closer", "hangUp")
    /\ UNCHANGED <<closed, broken, registry, queue, session, ctxEnded, progress, input>>

CloseHangUpForgotten ==   \* mutant: waits for the reader with the socket open
    /\ At("Closer", "hangUp") /\ Goto("Closer", "joining")
    /\ UNCHANGED <<connection, registry, queue, session, ctxEnded, progress, input>>
CloseHangUp ==
    /\ At("Closer", "hangUp")
    /\ broken' = TRUE
    /\ Goto("Closer", "joining")
    /\ UNCHANGED <<closed, done, registry, queue, session, ctxEnded, progress, input>>

\* <-c.readerDone; the writer's end is SignalingWriter's RunFinishes.
CloseJoin ==
    /\ At("Closer", "joining") /\ At("Reader", "gone")
    /\ Goto("Closer", "gone")
    /\ UNCHANGED <<connection, registry, queue, session, ctxEnded, progress, input>>

Closer == CloseSession("Closer", "closeDone") \/ CloseDone \/ CloseHangUp \/ CloseJoin

\* The owner of a started session closes it.
OwnerCloses ==
    /\ At("Starter", "returned")
    /\ Goto("Starter", "closeMark")
    /\ UNCHANGED <<connection, registry, queue, session, ctxEnded, progress, input>>

\* watch: waits for the core or for the start's context, then settles the session.
Watch ==
    /\ \/ At("Watcher", "waiting") /\ (core = "ended" \/ ctxEnded) /\ Goto("Watcher", "marking")
          /\ UNCHANGED <<marked, registry, announced>>
       \/ At("Watcher", "marking") /\ marked' = TRUE /\ Goto("Watcher", "removing")
          /\ UNCHANGED <<registry, announced>>
       \/ At("Watcher", "removing") /\ pending' = FALSE /\ registered' = FALSE
          /\ Goto("Watcher", "announcing") /\ UNCHANGED <<marked, announced>>
       \/ At("Watcher", "announcing") /\ announced' = TRUE /\ Goto("Watcher", "gone")
          /\ UNCHANGED <<marked, registry>>
    /\ UNCHANGED <<connection, queue, core, unread, ctxEnded, progress, input>>

--------------------------------------------------------------------------------
(* The environment. *)

\* The core ends by itself: its age, its heartbeat, its context.
CoreEnds ==
    /\ core = "open" /\ core' = "ended"
    /\ UNCHANGED <<connection, registry, queue, marked, announced, unread, ctxEnded, progress, input, pc>>

ContextEnds ==
    /\ ~ctxEnded /\ ctxEnded' = TRUE
    /\ UNCHANGED <<connection, registry, queue, session, progress, input, pc>>

Receive ==
    /\ unread > 0 /\ unread' = unread - 1
    /\ UNCHANGED <<connection, registry, queue, core, marked, announced, ctxEnded, progress, input, pc>>

Owner == OwnerCloses \/ CloseSession("Starter", "done")

Next == \/ Start \/ Owner \/ Route \/ Reader \/ ReadFails \/ Watch
        \/ \E a \in {"Reader", "Failer"} : FailBegin(a) \/ Fail(a)
        \/ CloseBegin \/ Closer
        \/ CoreEnds \/ ContextEnds \/ Receive

Spec == Init /\ [][Next]_vars

\* What the goroutines do on their own once they have begun.
ProgramStep ==
    \/ (~At("Starter", "idle") /\ Start) \/ CloseSession("Starter", "done")
    \/ Reader \/ Fail("Reader") \/ Fail("Failer") \/ Watch \/ Closer
    \/ CoreEnds

\* Goroutines that can go on do; a core has a greatest age and a negotiation a deadline.
\* Nobody has to start, to close or to fail, and the peer may stay silent.  Between two
\* messages of the peer the goroutines have finitely many steps to take, so that one
\* fairness for all of them, which is less than one for each, is enough.
Fairness == WF_vars(ProgramStep)

FairSpec == Spec /\ Fairness

--------------------------------------------------------------------------------
(* Properties. *)

Killing == {"kill", "failKill", "startKill", "drainKill", "closeKill"}

\* Every variable holds a value of its type, and both queues keep their capacity.
TypeOK ==
    /\ closed \in BOOLEAN /\ done \in BOOLEAN /\ broken \in BOOLEAN
    /\ pending \in BOOLEAN /\ registered \in BOOLEAN
    /\ queue \in Seq(Kinds) /\ Len(queue) <= QueueCapacity
    /\ core \in {"none", "open", "ended"} /\ marked \in BOOLEAN /\ announced \in BOOLEAN
    /\ unread \in 0..EventCapacity
    /\ ctxEnded \in BOOLEAN
    /\ progress \in {"none", "created"}
    /\ message \in Kinds /\ read \in 0..Len(Dialog) /\ extra \in 0..MessageLimit
    /\ pc \in [Actors -> States]

\* The end of the connection reaches a session that StartDeviceSession has returned: fail
\* and Close take a copy of the sessions, registration looks at closed under the same
\* mutex, so the session is marked closed once the copy has been gone through, and
\* whoever marks a session ends its core (or the context that has ended does).
EndReachesSession ==
    /\ /\ closed /\ pc["Starter"] = "returned"
       /\ \A a \in Actors : pc[a] \notin {"failMark", "closeMark"}
       => marked
    /\ marked /\ core = "open" => ctxEnded \/ \E a \in Actors : pc[a] \in Killing

\* A failed start leaves no entry in pending or sessions behind, and no core that nothing ends.
FailedStartLeavesNothing ==
    pc["Starter"] = "failed" => ~pending /\ ~registered /\ (core = "open" => ctxEnded)

\* device_session_public_test.go:319, TestDeviceSessionRemoteCloseTerminatesMatchingSession:
\* a close of the peer ends the session.  One that route pushes after StartDeviceSession
\* has drained the queue is never read.
RemoteCloseEndsSession ==
    pc["Starter"] = "returned" /\ ~marked => \A i \in DOMAIN queue : queue[i] # "close"

\* What is left of that promise: of all that the peer sends to a started session, at most one
\* message is never read, the one route held when the session was registered.
OneLateMessage ==
    pc["Starter"] = "returned" => Len(queue) + (IF At("Reader", "pushing") THEN 1 ELSE 0) <= 1

\* device_session_stress_test.go:85: "iteration %d retained closed session".  A session
\* that ends before StartDeviceSession registers it stays in c.sessions.
ClosedNotRetained == pc["Starter"] = "returned" /\ pc["Watcher"] = "gone" => ~registered

InStart == pc["Starter"] \notin {"idle", "returned", "failed", "done"}
InClose == pc["Closer"] \notin {"idle", "gone"}

\* Nobody stays in a call for ever: StartDeviceSession returns although the peer is silent,
\* the owner's DeviceSession.Close returns, and so does SignalingConnection.Close, as the
\* reader it waits for leaves its loop, whatever it was handling.
CallsReturn == []<>(~InStart /\ ~InClose)
================================================================================
