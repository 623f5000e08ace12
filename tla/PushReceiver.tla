------------------------------ MODULE PushReceiver ------------------------------
(***************************************************************************)
(* third_party/go-push-receiver: the FCM client behind ring.ConnectPush.   *)
(*                                                                         *)
(* Subscribe registers or checks in, dials, logs in and waits; when the    *)
(* link is lost it reports that, waits and starts again, until the caller's*)
(* context ends.  Every link has a reader, which nobody joins, and a       *)
(* heartbeat.  All of them send on one bounded channel, Events, that the   *)
(* translator of pkg/dependencies/push/receiver.go reads and Subscribe     *)
(* closes.  A send on a closed channel ends the process: crashed.          *)
(* retryDisabled is never set in this repository.                          *)
(***************************************************************************)
EXTENDS Naturals

CONSTANTS Ids,       \* persistent ids of the messages that wait at the server
          LinkLimit, \* bound: connections that are dialled
          Capacity   \* of Events

ASSUME LimitAssumption == LinkLimit \in Nat \ {0} /\ Capacity \in Nat \ {0}
ASSUME IdAssumption == Ids \cap {"none", "connected", "beat"} = {}

VARIABLES
    done,        \* the caller's context has ended
    crashed,     \* a goroutine panicked
    events,      \* how many events c.Events holds ...
    closed,      \* ... and whether Subscribe has closed it
    translator,  \* where the goroutine that ranges over Events is
    creds,       \* c.creds is set
    sub,         \* where Subscribe is
    link,        \* the connection it is on
    open,        \* per link: the socket is open
    cancelled,   \* childCtx has been cancelled
    once,        \* disconnectDm: "unused", "running", "used"
    reader,      \* where performRead is ...
    frame,       \* ... and the frame it has read
    loaded,      \* ... receivedPersistentID as it may still see it
    heart,       \* where heartbeat.start is
    receivedIds, \* c.receivedPersistentID
    pending,     \* external: messages the server has not seen acknowledged
    settled,     \* history: the messages sent on Events, and those that did not decrypt
    reports      \* history: the Disconnected events of each link

channel == <<events, closed, translator>>
links   == <<link, open, cancelled, once>>
workers == <<reader, frame, loaded, heart>>
mail    == <<receivedIds, pending, settled>>
vars == <<done, crashed, channel, creds, sub, links, workers, mail, reports>>

Links == 1..LinkLimit

Init ==
    /\ done = FALSE /\ crashed = FALSE
    /\ events = 0 /\ closed = FALSE
    /\ creds \in BOOLEAN
    \* With saved credentials the translator first sends those.
    /\ translator = IF creds THEN "sending" ELSE "taking"
    /\ sub = "top" /\ link = 0
    /\ open = [l \in Links |-> FALSE] /\ cancelled = [l \in Links |-> FALSE]
    /\ once = [l \in Links |-> "unused"]
    /\ reader = [l \in Links |-> "none"] /\ frame = [l \in Links |-> "none"]
    /\ loaded = [l \in Links |-> {}]
    /\ heart = [l \in Links |-> "none"]
    /\ receivedIds = {} /\ pending = Ids /\ settled = {}
    /\ reports = [l \in Links |-> 0]

Room == events < Capacity
Over(l) == done \/ cancelled[l]     \* childCtx

\* A send on Events: it waits for room, and there is none after the close.
EmitAlways == ~closed /\ events' = events + 1   \* mutant: the channel has no bound
Emit == Room /\ ~closed /\ events' = events + 1

CallerEnds ==
    /\ ~crashed /\ ~done /\ done' = TRUE
    /\ UNCHANGED <<crashed, channel, creds, sub, links, workers, mail, reports>>

--------------------------------------------------------------------------------
(* Subscribe. *)

Subscribing(state) == ~crashed /\ sub = state

LoopEnds ==
    /\ Subscribing("top") /\ done
    /\ sub' = "finished" /\ closed' = TRUE
    /\ UNCHANGED <<done, crashed, events, translator, creds, links, workers, mail, reports>>

\* register without credentials, checkIn with them.  Both may fail, with or without
\* ErrGcmAuthorization.  A success resets the backoff.
Prepare ==
    /\ Subscribing("top") /\ ~done
    /\ \/ ~creds /\ creds' = TRUE /\ sub' = "registered"
       \/ creds /\ sub' = "dialing" /\ UNCHANGED creds
       \/ sub' \in {"failed", "unauthorized"} /\ UNCHANGED creds
    /\ UNCHANGED <<done, crashed, channel, links, workers, mail, reports>>

Registered ==
    /\ Subscribing("registered") /\ Emit
    /\ sub' = "dialing"
    /\ UNCHANGED <<done, crashed, closed, translator, creds, links, workers, mail, reports>>

DialFails ==
    /\ Subscribing("dialing")
    /\ sub' = "failed"
    /\ UNCHANGED <<done, crashed, channel, creds, links, workers, mail, reports>>

Dial ==
    /\ Subscribing("dialing") /\ ~done /\ link < LinkLimit
    /\ link' = link + 1 /\ open' = [open EXCEPT ![link + 1] = TRUE]
    /\ sub' = "login"
    /\ UNCHANGED <<done, crashed, channel, creds, cancelled, once, workers, mail, reports>>

LoginFails ==
    /\ Subscribing("login")
    /\ sub' = "disconnecting"
    /\ UNCHANGED <<done, crashed, channel, creds, links, workers, mail, reports>>

\* The login packet lists receivedPersistentID: the server forgets those messages if the
\* packet arrives.  Then the heartbeat and the reader start.
Login ==
    /\ Subscribing("login") /\ ~done
    /\ pending' \in {pending, pending \ receivedIds}
    /\ heart' = [heart EXCEPT ![link] = "beating"]
    /\ reader' = [reader EXCEPT ![link] = "reading"]
    /\ sub' = "waiting"
    /\ UNCHANGED <<done, crashed, channel, creds, links, frame, loaded, receivedIds, settled,
                   reports>>

LinkLost ==
    /\ Subscribing("waiting")
    /\ reader[link] = "finished" \/ Over(link)
    /\ sub' = "disconnecting"
    /\ UNCHANGED <<done, crashed, channel, creds, links, workers, mail, reports>>

\* The deferred calls: disconnect waits for a disconnect of the heartbeat, then Close and
\* cancelChild.
Disconnect ==
    /\ Subscribing("disconnecting") /\ once[link] # "running"
    /\ IF once[link] = "unused"
       THEN once' = [once EXCEPT ![link] = "running"] /\ sub' = "reporting"
       ELSE sub' = "leaving" /\ UNCHANGED once
    /\ UNCHANGED <<done, crashed, channel, creds, link, open, cancelled, workers, mail, reports>>

Reports(l) == /\ Emit
              /\ reports' = [reports EXCEPT ![l] = @ + 1]
              /\ once' = [once EXCEPT ![l] = "used"]

Report ==
    /\ Subscribing("reporting") /\ Reports(link)
    /\ sub' = "leaving"
    /\ UNCHANGED <<done, crashed, closed, translator, creds, link, open, cancelled, workers, mail>>

LeaveOpen ==   \* mutant: no deferred Close
    /\ Subscribing("leaving")
    /\ cancelled' = [cancelled EXCEPT ![link] = TRUE] /\ sub' = "failed"
    /\ UNCHANGED <<done, crashed, channel, creds, link, open, once, workers, mail, reports>>
Leave ==
    /\ Subscribing("leaving")
    /\ open' = [open EXCEPT ![link] = FALSE]
    /\ cancelled' = [cancelled EXCEPT ![link] = TRUE]
    /\ sub' = "failed"
    /\ UNCHANGED <<done, crashed, channel, creds, link, once, workers, mail, reports>>

Unauthorized ==
    /\ Subscribing("unauthorized") /\ Emit
    /\ creds' = FALSE /\ sub' = "failed"
    /\ UNCHANGED <<done, crashed, closed, translator, links, workers, mail, reports>>

Retry ==
    /\ Subscribing("failed") /\ Emit
    /\ sub' = "sleeping"
    /\ UNCHANGED <<done, crashed, closed, translator, creds, links, workers, mail, reports>>

\* The tick, or the end of the context, which returns and so closes Events.
SleepDeaf ==   \* mutant: the wait does not look at the context
    /\ Subscribing("sleeping") /\ ~done /\ sub' = "top"
    /\ UNCHANGED <<done, crashed, channel, creds, links, workers, mail, reports>>
Sleep ==
    /\ Subscribing("sleeping")
    /\ \/ sub' = "top" /\ UNCHANGED closed
       \/ done /\ sub' = "finished" /\ closed' = TRUE
    /\ UNCHANGED <<done, crashed, events, translator, creds, links, workers, mail, reports>>

--------------------------------------------------------------------------------
(* performRead. *)

Reading(l, state) == ~crashed /\ reader[l] = state
Turn(l, state)    == reader' = [reader EXCEPT ![l] = state]
Forget(l, state)  == /\ Turn(l, state)    \* the frame has been dealt with
                     /\ frame' = [frame EXCEPT ![l] = "none"]
                     /\ loaded' = [loaded EXCEPT ![l] = {}]

\* A frame: the login response, a message the server still holds, or a heartbeat.  Others
\* change nothing.
Read(l) ==
    /\ Reading(l, "reading") /\ open[l]
    /\ \E f \in {"connected", "beat"} \cup pending :
        /\ frame' = [frame EXCEPT ![l] = f]
        /\ loaded' = [loaded EXCEPT ![l] = IF f \in Ids THEN receivedIds ELSE {}]
    /\ Turn(l, "handling")
    /\ UNCHANGED <<done, crashed, channel, creds, sub, links, heart, mail, reports>>

ReadFails(l) ==
    /\ Reading(l, "reading") /\ Turn(l, "finished")
    /\ UNCHANGED <<done, crashed, channel, creds, sub, links, frame, loaded, heart, mail, reports>>

HandleLogin(l) ==
    /\ Reading(l, "handling") /\ frame[l] = "connected"
    /\ receivedIds' = {} /\ Turn(l, "emitting")
    /\ UNCHANGED <<done, crashed, channel, creds, sub, links, frame, loaded, heart, pending,
                   settled, reports>>

\* The id is noted before the message is decrypted.  Two readers may race for the list,
\* and then an append may be built on an older one.  decryptData may refuse the
\* message; past its checks it dereferences the credentials, also when there are none.
HandleLate(l) ==   \* mutant: a message that finds Events full is given up
    /\ Reading(l, "handling") /\ frame[l] \in Ids /\ creds
    /\ receivedIds' = receivedIds \cup {frame[l]}
    /\ IF Room THEN Turn(l, "emitting") /\ UNCHANGED <<frame, loaded>> ELSE Forget(l, "reading")
    /\ UNCHANGED <<done, crashed, channel, creds, sub, links, heart, pending, settled,
                   reports>>
HandleMessage(l) ==
    /\ Reading(l, "handling") /\ frame[l] \in Ids
    /\ \E list \in {receivedIds, loaded[l]} : receivedIds' = list \cup {frame[l]}
    /\ \/ creds /\ Turn(l, "emitting") /\ UNCHANGED <<crashed, frame, loaded, settled>>
       \/ /\ Forget(l, "finished")
          /\ settled' = settled \cup {frame[l]} /\ UNCHANGED crashed
       \/ ~creds /\ crashed' = TRUE /\ UNCHANGED <<reader, frame, loaded, settled>>
    /\ UNCHANGED <<done, channel, creds, sub, links, heart, pending, reports>>

HandleBeat(l) ==
    /\ Reading(l, "handling") /\ frame[l] = "beat"
    /\ Forget(l, "acking")
    /\ UNCHANGED <<done, crashed, channel, creds, sub, links, heart, mail, reports>>

\* The unbuffered send on heartbeatAck: the heartbeat takes it, or disconnect has closed the
\* channel.  The answer to a ping may fail.
Ack(l) ==
    /\ Reading(l, "acking") /\ once[l] = "unused" /\ heart[l] = "beating"
    /\ \E next \in {"reading", "finished"} : Turn(l, next)
    /\ UNCHANGED <<done, crashed, channel, creds, sub, links, frame, loaded, heart, mail, reports>>

AckPanics(l) ==
    /\ Reading(l, "acking") /\ once[l] # "unused"
    /\ crashed' = TRUE
    /\ UNCHANGED <<done, channel, creds, sub, links, workers, mail, reports>>

EmitRead(l) ==
    /\ Reading(l, "emitting") /\ Emit /\ Forget(l, "reading")
    /\ settled' = settled \cup ({frame[l]} \cap Ids)
    /\ UNCHANGED <<done, crashed, closed, translator, creds, sub, links, heart, receivedIds,
                   pending, reports>>

EmitPanics(l) ==
    /\ Reading(l, "emitting") /\ closed
    /\ crashed' = TRUE
    /\ UNCHANGED <<done, channel, creds, sub, links, workers, mail, reports>>

--------------------------------------------------------------------------------
(* heartbeat.start.  Taking an acknowledgement is Ack; once heartbeatAck is closed the loop
   spins on it and never times out. *)

Beating(l, state) == ~crashed /\ heart[l] = state
Beat(l, state)    == heart' = [heart EXCEPT ![l] = state]

HeartStops(l) ==
    /\ Beating(l, "beating") /\ Over(l)
    /\ Beat(l, "finished")
    /\ UNCHANGED <<done, crashed, channel, creds, sub, links, reader, frame, loaded, mail, reports>>

PingFails(l) ==
    /\ Beating(l, "beating")
    /\ Beat(l, "finished")
    /\ UNCHANGED <<done, crashed, channel, creds, sub, links, reader, frame, loaded, mail, reports>>

Deadman(l) ==
    /\ Beating(l, "beating")
    /\ Beat(l, "expired")
    /\ UNCHANGED <<done, crashed, channel, creds, sub, links, reader, frame, loaded, mail, reports>>

Expire(l) ==
    /\ Beating(l, "expired") /\ once[l] # "running"
    /\ IF once[l] = "unused"
       THEN once' = [once EXCEPT ![l] = "running"] /\ Beat(l, "reporting")
       ELSE Beat(l, "cancelling") /\ UNCHANGED once
    /\ UNCHANGED <<done, crashed, channel, creds, sub, link, open, cancelled, reader, frame,
                   loaded, mail, reports>>

HeartReports(l) ==
    /\ Beating(l, "reporting") /\ Reports(l)
    /\ Beat(l, "cancelling")
    /\ UNCHANGED <<done, crashed, closed, translator, creds, sub, link, open, cancelled, reader,
                   frame, loaded, mail>>

HeartKeeps(l) ==   \* mutant: the deadman does not cancel
    /\ Beating(l, "cancelling") /\ Beat(l, "finished")
    /\ UNCHANGED <<done, crashed, channel, creds, sub, links, reader, frame, loaded, mail, reports>>
HeartCancels(l) ==
    /\ Beating(l, "cancelling")
    /\ cancelled' = [cancelled EXCEPT ![l] = TRUE] /\ Beat(l, "finished")
    /\ UNCHANGED <<done, crashed, channel, creds, sub, link, open, once, reader, frame, loaded,
                   mail, reports>>

--------------------------------------------------------------------------------
(* The translator: it leaves its loop when the context has ended, and then nobody reads. *)

TakeEvent ==
    /\ ~crashed /\ translator = "taking" /\ events > 0
    /\ events' = events - 1
    /\ translator' = IF done THEN "stopped" ELSE "sending"
    /\ UNCHANGED <<done, crashed, closed, creds, sub, links, workers, mail, reports>>

SendEvent ==
    /\ ~crashed /\ translator = "sending"
    /\ translator' = "taking"
    /\ UNCHANGED <<done, crashed, events, closed, creds, sub, links, workers, mail, reports>>

SendCancelled ==
    /\ ~crashed /\ translator = "sending" /\ done
    /\ translator' = "stopped"
    /\ UNCHANGED <<done, crashed, events, closed, creds, sub, links, workers, mail, reports>>

RangeEnds ==
    /\ ~crashed /\ translator = "taking" /\ events = 0 /\ closed
    /\ translator' = "stopped"
    /\ UNCHANGED <<done, crashed, events, closed, creds, sub, links, workers, mail, reports>>

Subscribe == \/ LoopEnds \/ Prepare \/ Registered \/ DialFails \/ Dial \/ LoginFails \/ Login
             \/ LinkLost \/ Disconnect \/ Report \/ Leave \/ Unauthorized \/ Retry \/ Sleep
Reader(l) == \/ Read(l) \/ ReadFails(l) \/ HandleLogin(l) \/ HandleMessage(l) \/ HandleBeat(l)
             \/ Ack(l) \/ AckPanics(l) \/ EmitRead(l) \/ EmitPanics(l)
Heart(l)  == \/ HeartStops(l) \/ PingFails(l) \/ Deadman(l) \/ Expire(l) \/ HeartReports(l)
             \/ HeartCancels(l)
Translator == TakeEvent \/ SendEvent \/ SendCancelled \/ RangeEnds

Next == \/ CallerEnds \/ Subscribe \/ Translator
        \/ \E l \in Links : Reader(l) \/ Heart(l)

Spec == Init /\ [][Next]_vars

\* A goroutine that can go on does, also one that waits for room on Events and finds it
\* again and again: Go serves waiting senders in their order.  No frame, ping failure or
\* timeout is promised; a read on a closed socket fails.
ReaderGoesOn(l) == \/ ReadFails(l) /\ ~open[l]
                   \/ HandleLogin(l) \/ HandleMessage(l) \/ HandleBeat(l)
                   \/ Ack(l) \/ AckPanics(l) \/ EmitRead(l) \/ EmitPanics(l)
HeartGoesOn(l)  == HeartStops(l) \/ Expire(l) \/ HeartReports(l) \/ HeartCancels(l)

\* Heartbeats have finitely many steps to take, so that one fairness for all is enough.
SenderFairness == SF_vars(Subscribe) /\ SF_vars(\E l \in Links : HeartGoesOn(l))
Fairness == /\ SenderFairness
            /\ WF_vars(TakeEvent \/ SendCancelled \/ RangeEnds)
            /\ \A l \in Links : SF_vars(ReaderGoesOn(l))

FairSpec == Spec /\ Fairness

\* What the liveness properties need of that: the readers and the translator may stall.
SenderSpec == Spec /\ SenderFairness

--------------------------------------------------------------------------------
(* Properties. *)

\* Every variable keeps the range the code gives it.
TypeOK ==
    /\ done \in BOOLEAN /\ crashed \in BOOLEAN /\ closed \in BOOLEAN /\ creds \in BOOLEAN
    /\ events \in 0..Capacity
    /\ translator \in {"taking", "sending", "stopped"}
    /\ sub \in {"top", "registered", "dialing", "login", "waiting", "disconnecting", "reporting",
                "leaving", "unauthorized", "failed", "sleeping", "finished"}
    /\ link \in 0..LinkLimit
    /\ open \in [Links -> BOOLEAN] /\ cancelled \in [Links -> BOOLEAN]
    /\ once \in [Links -> {"unused", "running", "used"}]
    /\ reader \in [Links -> {"none", "reading", "handling", "acking", "emitting", "finished"}]
    /\ frame \in [Links -> {"none", "connected", "beat"} \cup Ids]
    /\ loaded \in [Links -> SUBSET Ids]
    /\ heart \in [Links -> {"none", "beating", "expired", "reporting", "cancelling", "finished"}]
    /\ receivedIds \subseteq Ids /\ pending \subseteq Ids
    /\ settled \subseteq Ids
    /\ reports \in [Links -> Nat]

InHand == {frame[l] : l \in {m \in Links : reader[m] = "emitting"}}

\* A message the server was told to forget has been sent on Events, did not decrypt, or is
\* in the hands of a reader that waits for room: onDataMessage notes the id first.
AcknowledgedNotLost == Ids \ pending \subseteq settled \cup InHand

OnLink == sub \in {"login", "waiting", "disconnecting", "reporting", "leaving"}

\* However a link ended (the reader failed, the deadman or the context did it), by the time
\* Subscribe retries its socket is closed, its context cancelled, and its end was reported
\* once: two goroutines race to report it.
LinksEndCleanly ==
    \A l \in 1..link :
        IF l = link /\ OnLink
        THEN reports[l] <= 1
        ELSE ~open[l] /\ cancelled[l] /\ reports[l] = 1

\* Subscribe closes Events when it and the heartbeats have sent their last: only a reader,
\* which nobody joins, can still send on the closed channel.
OnlyReadersSendLate == closed => sub = "finished" /\ \A l \in Links : heart[l] # "reporting"

HeartsEnded == \A l \in Links : heart[l] \in {"none", "finished"}

\* Once the context has ended Subscribe and the heartbeats return, as long as Events
\* finds room again and again, whatever the readers do.
ReceiverStops ==
    []<>Room => []<>(done => crashed \/ (sub = "finished" /\ HeartsEnded))

\* The deadman of a link has fired, or its end is being or has been reported, and its
\* socket is still open.
DeadOpen(l) == open[l] /\ (heart[l] = "expired" \/ once[l] # "unused")

\* A link whose deadman fired, or whose end was reported, is given up while the consumer
\* reads.
DeadLinkGivenUp == []<>Room => []<>(crashed \/ \A l \in Links : ~DeadOpen(l))

\* docs/guides/push-notifications.mdx: "PushConnection.Close stops the receiver; its event
\* channel closes when the connection ends."
ChannelCloses == done ~> translator = "stopped"
================================================================================
