---------------------------- MODULE EventConnection -----------------------------
(***************************************************************************)
(* pkg/dependencies/websocket/events.go: the account event stream.         *)
(*                                                                         *)
(* A pump reads the socket into a bounded channel and puts the read error  *)
(* that ends it into a second one.  Any number of Receivers call Receive   *)
(* or ReceiveFrame again and again, any number of Closers call Close, and  *)
(* the owner may end the context the connection was opened under.          *)
(* Events are numbered in wire order; their payload is left out.           *)
(***************************************************************************)
EXTENDS Naturals, Sequences

CONSTANTS Receivers,  \* goroutines that call Receive
          Closers,    \* those that call Close
          Capacity,   \* of messageChan
          EventLimit, \* bound: frames the peer sends
          Error,      \* the answers of Receive that are not events: the read error, ...
          Closed,     \* ... a ClosedError
          Nobody      \* no receiver; no answer yet

ASSUME CapacityAssumption == Capacity \in Nat \ {0} /\ EventLimit \in Nat
ASSUME AnswerAssumption == /\ {Error, Closed, Nobody} \cap Nat = {} /\ Nobody \notin Receivers
                           /\ Error # Closed /\ Nobody \notin {Error, Closed}

VARIABLES
    messages,   \* messageChan
    errors,     \* errChan holds the read error
    shut,       \* how many of the two channels Close has closed
    done,       \* the ended contexts: a set of "pump", "owner", "close"
    socket,     \* the socket is open
    closed,     \* ec.closed
    holder,     \* of receiveMu
    pendingErr, \* ec.pendingErr is set
    pump,       \* where processMessages is ...
    read,       \* ... and the frames it has read
    waiter,     \* the goroutine that closes the socket when the context ends
    receiver,   \* where each receiver is
    closer,     \* where each closer is
    last,       \* history: the last answer of Receive
    failed      \* history: a read has failed

channels == <<messages, errors, shut>>
session  == <<done, socket, closed>>
reading  == <<pump, read, failed>>
taking   == <<holder, pendingErr, receiver, last>>
vars == <<channels, session, reading, waiter, taking, closer>>

Init == /\ messages = <<>> /\ errors = FALSE /\ shut = 0
        /\ done = {} /\ socket = TRUE /\ closed = FALSE
        /\ holder = Nobody /\ pendingErr = FALSE
        /\ pump = "checking" /\ read = 0 /\ waiter = "waiting"
        /\ receiver = [r \in Receivers |-> "idle"]
        /\ closer = [k \in Closers |-> "idle"]
        /\ last = Nobody /\ failed = FALSE

Done == done # {}

--------------------------------------------------------------------------------
(* processMessages and the goroutine that waits for the context. *)

PumpCheck ==
    /\ pump = "checking"
    /\ pump' = IF Done THEN "cancelling" ELSE "reading"
    /\ UNCHANGED <<channels, session, read, failed, waiter, taking, closer>>

\* A frame that does not decode is skipped.  The socket's buffer may still hold a frame
\* after the socket was closed.
PumpReads ==
    /\ pump = "reading" /\ read < EventLimit
    /\ read' = read + 1
    /\ pump' \in {"sending", "checking"}
    /\ UNCHANGED <<channels, session, failed, waiter, taking, closer>>

\* The error goes out before the deferred cancel.  One pump, one error: there is room.
ReadFailsSilently ==   \* mutant: the context ends, the error is not kept
    /\ pump = "reading" /\ pump' = "cancelling" /\ failed' = TRUE
    /\ UNCHANGED <<channels, session, read, waiter, taking, closer>>
ReadFails ==
    /\ pump = "reading"
    /\ errors' = TRUE /\ failed' = TRUE
    /\ pump' = "cancelling"
    /\ UNCHANGED <<messages, shut, session, read, waiter, taking, closer>>

PumpSendOverfull ==   \* mutant: an unbounded list in place of the channel
    /\ pump = "sending" /\ messages' = Append(messages, read) /\ pump' = "checking"
    /\ UNCHANGED <<errors, shut, session, read, failed, waiter, taking, closer>>
PumpSendWaits ==   \* mutant: a bare send
    /\ pump = "sending"
    /\ Len(messages) < Capacity /\ messages' = Append(messages, read) /\ pump' = "checking"
    /\ UNCHANGED <<errors, shut, session, read, failed, waiter, taking, closer>>
PumpSend ==
    /\ pump = "sending"
    /\ \/ /\ Len(messages) < Capacity
          /\ messages' = Append(messages, read) /\ pump' = "checking"
       \/ Done /\ pump' = "cancelling" /\ UNCHANGED messages
    /\ UNCHANGED <<errors, shut, session, read, failed, waiter, taking, closer>>

\* The deferred calls, in their order.
PumpCancel ==
    /\ pump = "cancelling" /\ pump' = "closing"
    /\ done' = done \cup {"pump"}
    /\ UNCHANGED <<channels, socket, closed, read, failed, waiter, taking, closer>>

PumpHangUp ==
    /\ pump = "closing" /\ pump' = "finished"
    /\ socket' = FALSE
    /\ UNCHANGED <<channels, done, closed, read, failed, waiter, taking, closer>>

WaiterHangsUp ==
    /\ waiter = "waiting" /\ Done
    /\ waiter' = "finished" /\ socket' = FALSE
    /\ UNCHANGED <<channels, done, closed, reading, taking, closer>>

OwnerCancels ==
    /\ "owner" \notin done
    /\ done' = done \cup {"owner"}
    /\ UNCHANGED <<channels, socket, closed, reading, waiter, taking, closer>>

--------------------------------------------------------------------------------
(* receiveRecord. *)

At(r, state)   == receiver[r] = state
Goto(r, state) == receiver' = [receiver EXCEPT ![r] = state]

Answer(r, a) == /\ last' = a /\ holder' = Nobody /\ Goto(r, "idle")

\* A receive from messageChan: an event, or Closed once the channel is empty and closed.
TakeEvent(r) ==
    \/ /\ messages # <<>>
       /\ messages' = Tail(messages) /\ Answer(r, Head(messages))
    \/ /\ messages = <<>> /\ shut >= 1
       /\ Answer(r, Closed) /\ UNCHANGED messages
NoEvent == messages = <<>> /\ shut = 0

\* A receive from errChan, followed by prioritizePendingEvent.
TakeError(r) ==
    \/ /\ errors /\ errors' = FALSE
       /\ Goto(r, "prioritizing") /\ UNCHANGED <<holder, last>>
    \/ /\ ~errors /\ shut = 2
       /\ Answer(r, Closed) /\ UNCHANGED errors
NoError == ~errors /\ shut < 2

Receive(r) ==
    /\ At(r, "idle") /\ Goto(r, "locking")
    /\ UNCHANGED <<channels, session, reading, waiter, holder, pendingErr, last, closer>>

Lock(r) ==
    /\ At(r, "locking") /\ holder = Nobody
    /\ holder' = r /\ Goto(r, "checking")
    /\ UNCHANGED <<channels, session, reading, waiter, pendingErr, last, closer>>

Check(r) ==
    /\ At(r, "checking")
    /\ \/ closed /\ Answer(r, Closed)
       \/ ~closed /\ Goto(r, "draining") /\ UNCHANGED <<holder, last>>
    /\ UNCHANGED <<channels, session, reading, waiter, pendingErr, closer>>

\* A queued event first; then the error kept from an earlier call, then whatever comes.
Drain(r) ==
    /\ At(r, "draining")
    /\ \/ TakeEvent(r) /\ UNCHANGED pendingErr
       \/ /\ NoEvent /\ pendingErr
          /\ pendingErr' = FALSE /\ Answer(r, Error) /\ UNCHANGED messages
       \/ /\ NoEvent /\ ~pendingErr
          /\ Goto(r, "selecting") /\ UNCHANGED <<messages, pendingErr, holder, last>>
    /\ UNCHANGED <<errors, shut, session, reading, waiter, closer>>

SelectDeaf(r) ==   \* mutant: does not look at the context
    /\ At(r, "selecting")
    /\ \/ TakeEvent(r) /\ UNCHANGED errors
       \/ TakeError(r) /\ UNCHANGED messages
    /\ UNCHANGED <<shut, session, reading, waiter, pendingErr, closer>>
Select(r) ==
    /\ At(r, "selecting")
    /\ \/ TakeEvent(r) /\ UNCHANGED errors
       \/ TakeError(r) /\ UNCHANGED messages
       \/ Done /\ Goto(r, "ended") /\ UNCHANGED <<messages, errors, holder, last>>
    /\ UNCHANGED <<shut, session, reading, waiter, pendingErr, closer>>

\* The context has ended: an error that was queued before it, ...
EndedGeneric(r) ==   \* mutant: reports the end, not its cause
    /\ At(r, "ended") /\ Goto(r, "emptying")
    /\ UNCHANGED <<channels, session, reading, waiter, pendingErr, holder, last, closer>>
Ended(r) ==
    /\ At(r, "ended")
    /\ \/ TakeError(r)
       \/ NoError /\ Goto(r, "emptying") /\ UNCHANGED <<errors, holder, last>>
    /\ UNCHANGED <<messages, shut, session, reading, waiter, pendingErr, closer>>

\* ... then an event, then the end itself.
Empty(r) ==
    /\ At(r, "emptying")
    /\ \/ TakeEvent(r)
       \/ NoEvent /\ Answer(r, Closed) /\ UNCHANGED messages
    /\ UNCHANGED <<errors, shut, session, reading, waiter, pendingErr, closer>>

\* prioritizePendingEvent: an event puts the error off.
PrioritizeError(r) ==   \* mutant: the error overtakes
    /\ At(r, "prioritizing") /\ Answer(r, Error)
    /\ UNCHANGED <<channels, pendingErr, session, reading, waiter, closer>>
Prioritize(r) ==
    /\ At(r, "prioritizing")
    /\ \/ /\ TakeEvent(r)
          /\ pendingErr' = (messages # <<>>)
       \/ NoEvent /\ Answer(r, Error) /\ UNCHANGED <<messages, pendingErr>>
    /\ UNCHANGED <<errors, shut, session, reading, waiter, closer>>

--------------------------------------------------------------------------------
(* Close. *)

CloseTo(k, state) == closer' = [closer EXCEPT ![k] = state]

\* The second Close returns before the first has finished.
CloseBegin(k) ==
    /\ closer[k] = "idle"
    /\ closed' = TRUE
    /\ CloseTo(k, IF closed THEN "returned" ELSE "cancelling")
    /\ UNCHANGED <<channels, done, socket, reading, waiter, taking>>

CloseCancel(k) ==
    /\ closer[k] = "cancelling" /\ CloseTo(k, "closing")
    /\ done' = done \cup {"close"}
    /\ UNCHANGED <<channels, socket, closed, reading, waiter, taking>>

CloseHangUp(k) ==
    /\ closer[k] = "closing" /\ CloseTo(k, "joining")
    /\ socket' = FALSE
    /\ UNCHANGED <<channels, done, closed, reading, waiter, taking>>

\* wg.Wait, then the two channels.
CloseAtOnce(k) ==   \* mutant: does not wait
    /\ closer[k] = "joining"
    /\ shut' = shut + 1 /\ CloseTo(k, IF shut = 0 THEN "joining" ELSE "returned")
    /\ UNCHANGED <<messages, errors, session, reading, waiter, taking>>
CloseChannels(k) ==
    /\ closer[k] = "joining" /\ pump = "finished" /\ waiter = "finished"
    /\ shut' = shut + 1
    /\ CloseTo(k, IF shut = 0 THEN "joining" ELSE "returned")
    /\ UNCHANGED <<messages, errors, session, reading, waiter, taking>>

--------------------------------------------------------------------------------
(* What the goroutines must do once they can ... *)

Pump == PumpCheck \/ PumpSend \/ PumpCancel \/ PumpHangUp

\* A read of a closed socket fails; one of an open socket waits for the peer.
ReadOfClosed == ~socket /\ ReadFails

Receiving(r) == Check(r) \/ Drain(r) \/ Select(r) \/ Ended(r) \/ Empty(r) \/ Prioritize(r)
Closing(k)   == CloseCancel(k) \/ CloseHangUp(k) \/ CloseChannels(k)

\* ... and what the callers, the peer and the owner may do.
Next == \/ Pump \/ PumpReads \/ ReadFails \/ WaiterHangsUp \/ OwnerCancels
        \/ \E r \in Receivers : Receive(r) \/ Lock(r) \/ Receiving(r)
        \/ \E k \in Closers : CloseBegin(k) \/ Closing(k)

Spec == Init /\ [][Next]_vars

\* The scheduler runs the pump, the waiter and the Closes while one of them can go on, and
\* whoever holds receiveMu, which is handed over to a goroutine that has waited for long:
\* strong fairness.
Winding == \/ Pump \/ ReadOfClosed \/ WaiterHangsUp
           \/ \E k \in Closers : Closing(k)
Fairness ==
    /\ WF_vars(Winding)
    /\ WF_vars(\E r \in Receivers : Receiving(r))
    /\ \A r \in Receivers : SF_vars(Lock(r))

FairSpec == Spec /\ Fairness

--------------------------------------------------------------------------------
(* Properties. *)

InReceive == {"checking", "draining", "selecting", "ended", "emptying", "prioritizing"}

TypeOK ==
    /\ messages \in Seq(1 .. EventLimit) /\ Len(messages) <= Capacity
    /\ errors \in BOOLEAN /\ shut \in 0 .. 2
    /\ done \subseteq {"pump", "owner", "close"} /\ socket \in BOOLEAN /\ closed \in BOOLEAN
    /\ holder \in Receivers \cup {Nobody} /\ pendingErr \in BOOLEAN
    /\ pump \in {"checking", "reading", "sending", "cancelling", "closing", "finished"}
    /\ pump = "sending" => read > 0
    /\ read \in 0 .. EventLimit /\ waiter \in {"waiting", "finished"}
    /\ receiver \in [Receivers -> {"idle", "locking"} \cup InReceive]
    /\ closer \in [Closers -> {"idle", "cancelling", "closing", "joining", "returned"}]
    /\ last \in (1 .. EventLimit) \cup {Error, Closed, Nobody} /\ failed \in BOOLEAN

\* The channels are closed by one Close, after the pump's last send: neither a send on nor
\* a second close of a closed channel, which would panic, can follow.
ChannelsClosedLast ==
    /\ shut > 0 => pump = "finished"
    /\ \A j, k \in Closers :
          {closer[j], closer[k]} \subseteq {"cancelling", "closing", "joining"} => j = k
    /\ \A k \in Closers : closer[k] = "joining" => shut < 2

\* events.go:110: "Receive receives events in wire order before a terminal read error", for
\* concurrent callers too, and :228: "report the failure rather than a generic close".
\* The two channels, the error kept for later and the one in a receiver's hands are one
\* queue with the error last.
ErrorWaits == errors \/ pendingErr \/ \E r \in Receivers : receiver[r] = "prioritizing"
Queue      == IF ErrorWaits THEN Append(messages, Error) ELSE messages
Over       == closed \/ "owner" \in done

Stream == INSTANCE EventStream WITH queue <- Queue, over <- Over,
                                    Events <- 1 .. EventLimit, Nothing <- Nobody

StreamSpec == Stream!Spec

\* Once the connection has ended, for whatever reason, every call of Receive returns, the
\* ones that wait for their turn included.
ReceiveReturns ==
    \A r \in Receivers : []<>Done => []<>(receiver[r] = "idle")

\* Close returns, also with a full channel that nobody empties: one that has begun does
\* not become idle again.
CloseReturns == []<>(\A k \in Closers : closer[k] \in {"idle", "returned"})

\* Neither side of the event channels waits for the other for ever.
CallsReturn == ReceiveReturns /\ CloseReturns
================================================================================
