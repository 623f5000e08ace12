------------------------------- MODULE DevicePtz --------------------------------
(***************************************************************************)
(* pkg/ring/device_session.go: the continuous movements of one session.    *)
(*                                                                         *)
(* Callers run PanContinuous, TiltContinuous (a "move", of any speed) and  *)
(* StopPTZ (a "stop") again and again, each under its axis' mutex.         *)
(* Closers run closeWithContext: the owner through DeviceSession.Close and *)
(* the connection through SignalingConnection's.                           *)
(* A command is a remote call that the camera acknowledges, refuses, or    *)
(* leaves unanswered.  Its frame is queued at the connection's writer      *)
(* (SignalingWriter), whose Run may still hold it when the call is over.   *)
(*                                                                         *)
(* Speeds are left out but for zero, which tells the camera to stop; which *)
(* one a move has shows first in its frame, and is chosen there.  Steps,   *)
(* which touch no movement, are left out, and so are invalid arguments.    *)
(* Other users of the queue show in that it may be full.                   *)
(***************************************************************************)
CONSTANTS Callers,     \* goroutines that send commands
          Closers,     \* those that close the session
          Connection,  \* the one that then closes the connection
          Directions,  \* of either axis
          None         \* no direction, no owner, no frame

Axes == {"pan", "tilt"}

ASSUME ActorAssumption == Callers \cap Closers = {} /\ None \notin Callers \cup Closers
ASSUME DirectionAssumption == None \notin Directions /\ "stop" \notin Directions /\ None # "stop"

VARIABLES lock,      \* who holds panMu and tiltMu
          movement,  \* s.movement
          closed,    \* s.closed
          alive,     \* the core session has not ended
          connected, \* the connection accepts frames
          command,   \* each caller's command, with the direction it replaced
          stops,     \* the movements each closer has still to stop
          target,    \* the axis each closer is stopping
          spent,     \* closers whose two seconds are over
          hand,      \* the frame that Run has picked, and whose call waits for it
          stilled,   \* history: the axes that a Close has written a stop for
          acked,     \* history: the movement last acknowledged, until the session is closed
          pc         \* where each goroutine is

world   == <<alive, connected>>
closing == <<stops, target, spent>>
wire    == <<hand, stilled>>
vars == <<lock, movement, closed, world, command, closing, wire, acked, pc>>

Actors  == Callers \cup Closers
Command == [axis : Axes, kind : {"move", "stop"}, direction : Directions \cup {None},
            previous : Directions \cup {None}]
NoCommand == [axis |-> "pan", kind |-> "stop", direction |-> None, previous |-> None]
Still   == [a \in Axes |-> None]
Frames  == Directions \cup {"stop"}
NoFrame == [by |-> None, axis |-> "pan", frame |-> None]

\* What a call goes through, after the look at closed.
InCall       == {"calling", "writing", "waiting", "failing"}
CallerStates == {"idle", "locking", "checking"} \cup InCall
\* What a closer goes through for a movement; a full queue refuses its stop.
InStop       == {"sending", "writing", "waiting", "failing", "refused"}
CloserStates == {"idle", "lockPan", "lockTilt", "marking", "stopping", "ended", "skipped", "done"}
                   \cup InStop

Goto(a, state) == pc' = [pc EXCEPT ![a] = state]
At(a, state)   == pc[a] = state

Init == /\ lock = Still /\ movement = Still /\ closed = FALSE
        /\ alive = TRUE /\ connected = TRUE
        /\ command = [c \in Callers |-> NoCommand]
        /\ stops = [k \in Closers |-> Still] /\ target = [k \in Closers |-> "pan"]
        /\ spent = {}
        /\ hand = NoFrame /\ stilled = {} /\ acked = Still
        /\ pc = [a \in Actors |-> "idle"]

--------------------------------------------------------------------------------
(* continuous and StopPTZ. *)

Axis(c)    == command[c].axis
Release(a) == lock' = [x \in Axes |-> IF lock[x] = a THEN None ELSE lock[x]]

\* The deferred unlock, with the critical section of s.mu before it.
Return(c) == /\ Release(c) /\ Goto(c, "idle")
             /\ command' = [command EXCEPT ![c] = NoCommand]

Begin(c) ==
    /\ At(c, "idle")
    /\ \E a \in Axes :
          \/ \E d \in Directions :
                command' = [command EXCEPT ![c] = [axis |-> a, kind |-> "move",
                                                   direction |-> d, previous |-> None]]
          \/ command' = [command EXCEPT ![c] = [axis |-> a, kind |-> "stop",
                                                direction |-> None, previous |-> None]]
    /\ Goto(c, "locking")
    /\ UNCHANGED <<lock, movement, closed, world, closing, wire, acked>>

Lock(c) ==
    /\ At(c, "locking") /\ lock[Axis(c)] = None
    /\ lock' = [lock EXCEPT ![Axis(c)] = c]
    /\ Goto(c, "checking")
    /\ UNCHANGED <<movement, closed, world, command, closing, wire, acked>>

\* A closed session refuses both; a stop needs a tracked movement.
Refuse(c) ==
    /\ At(c, "checking")
    /\ closed \/ (command[c].kind = "stop" /\ movement[Axis(c)] = None)
    /\ Return(c)
    /\ UNCHANGED <<movement, closed, world, closing, wire, acked>>

\* A movement is tracked before it is sent, with any speed, and what it replaces is kept.
CheckMove(c) ==
    /\ At(c, "checking") /\ ~closed /\ command[c].kind = "move"
    /\ command' = [command EXCEPT ![c].previous = movement[Axis(c)]]
    /\ movement' = [movement EXCEPT ![Axis(c)] = command[c].direction]
    /\ Goto(c, "calling")
    /\ UNCHANGED <<lock, closed, world, closing, wire, acked>>

CheckStopUntracked(c) ==   \* mutant: sends a stop without a direction
    /\ At(c, "checking") /\ ~closed /\ command[c].kind = "stop"
    /\ command' = [command EXCEPT ![c].direction = movement[Axis(c)]]
    /\ Goto(c, "calling")
    /\ UNCHANGED <<lock, movement, closed, world, closing, wire, acked>>
CheckStop(c) ==
    /\ At(c, "checking") /\ ~closed /\ command[c].kind = "stop"
    /\ movement[Axis(c)] # None
    /\ command' = [command EXCEPT ![c].direction = movement[Axis(c)]]
    /\ Goto(c, "calling")
    /\ UNCHANGED <<lock, movement, closed, world, closing, wire, acked>>

\* Session.Call and Session.Send look at the core and at the context one after the other, and
\* the writer at its queue, which may be full.
Call(c) ==
    /\ At(c, "calling")
    /\ \/ alive /\ Goto(c, "writing")
       \/ Goto(c, "failing")
    /\ UNCHANGED <<lock, movement, closed, world, command, closing, wire, acked>>

\* A call whose context, timeout, core or connection ends takes its frame back out of the
\* queue, but not out of Run's hand.
Orphan(a) == hand' = IF hand.by = a THEN [hand EXCEPT !.by = None] ELSE hand

GiveUp(c) ==
    /\ At(c, "writing") /\ Orphan(c) /\ Goto(c, "failing")
    /\ UNCHANGED <<lock, movement, closed, world, command, closing, stilled, acked>>

\* A usable result: the movement stands, a stopped one is forgotten.
Acknowledged(c) ==
    /\ At(c, "waiting")
    /\ LET now == IF command[c].kind = "move" THEN command[c].direction ELSE None IN
       /\ acked' = IF closed THEN acked ELSE [acked EXCEPT ![Axis(c)] = now]
       /\ movement' = [movement EXCEPT ![Axis(c)] = now]
    /\ Return(c)
    /\ UNCHANGED <<closed, world, closing, wire>>

\* An error reply or a result that does not decode.
Refused(c) ==
    /\ At(c, "waiting") /\ Goto(c, "failing")
    /\ UNCHANGED <<lock, movement, closed, world, command, closing, wire, acked>>

\* The response timeout, the caller's context, the session's end.
TimesOutNever(c) ==   \* mutant: only the session's end
    /\ At(c, "waiting") /\ ~alive /\ Goto(c, "failing")
    /\ UNCHANGED <<lock, movement, closed, world, command, closing, wire, acked>>
TimesOut(c) ==
    /\ At(c, "waiting") /\ Goto(c, "failing")
    /\ UNCHANGED <<lock, movement, closed, world, command, closing, wire, acked>>

\* A failed move puts back what it replaced; a failed stop leaves the movement tracked.
MoveFailsForgetting(c) ==   \* mutant: deletes the entry
    /\ At(c, "failing") /\ command[c].kind = "move"
    /\ movement' = [movement EXCEPT ![Axis(c)] = None]
    /\ Return(c)
    /\ UNCHANGED <<closed, world, closing, wire, acked>>
MoveFails(c) ==
    /\ At(c, "failing") /\ command[c].kind = "move"
    /\ movement' = [movement EXCEPT ![Axis(c)] = command[c].previous]
    /\ Return(c)
    /\ UNCHANGED <<closed, world, closing, wire, acked>>

StopFails(c) ==
    /\ At(c, "failing") /\ command[c].kind = "stop"
    /\ Return(c)
    /\ UNCHANGED <<movement, closed, world, closing, wire, acked>>

--------------------------------------------------------------------------------
(* closeWithContext. *)

\* The context with the budget is made before the locks are asked for.
CloseBegin(k) ==
    /\ At(k, "idle") /\ Goto(k, "lockPan")
    /\ UNCHANGED <<lock, movement, closed, world, command, closing, wire, acked>>

CloseUnlocked(k, a, from, to) ==   \* mutant: closes without the axis' mutex
    /\ At(k, from) /\ Goto(k, to)
    /\ UNCHANGED <<lock, movement, closed, world, command, closing, wire, acked>>
CloseLock(k, a, from, to) ==
    /\ At(k, from) /\ lock[a] = None
    /\ lock' = [lock EXCEPT ![a] = k]
    /\ Goto(k, to)
    /\ UNCHANGED <<movement, closed, world, command, closing, wire, acked>>

\* Under the three mutexes: closed, and the movements taken over.
MarkAgain(k) ==   \* mutant: no look at closed
    /\ At(k, "marking")
    /\ closed' = TRUE /\ stops' = [stops EXCEPT ![k] = movement] /\ movement' = Still
    /\ Goto(k, "stopping")
    /\ Release(k)
    /\ UNCHANGED <<world, command, target, spent, wire, acked>>
MarkClosed(k) ==
    /\ At(k, "marking")
    /\ \/ closed /\ Goto(k, "skipped") /\ UNCHANGED <<movement, closed, stops>>
       \/ /\ ~closed /\ closed' = TRUE
          /\ stops' = [stops EXCEPT ![k] = movement]
          /\ movement' = Still
          /\ Goto(k, "stopping")
    /\ Release(k)
    /\ acked' = Still
    /\ UNCHANGED <<world, command, target, spent, wire>>

\* The next movement, in the map's order, which is any order.
StopCall(k) ==
    /\ At(k, "stopping")
    /\ \E a \in Axes :
          /\ stops[k][a] # None
          /\ \/ /\ alive /\ k \notin spent
                /\ target' = [target EXCEPT ![k] = a]
                /\ Goto(k, "sending") /\ UNCHANGED stops
             \/ /\ ~alive \/ k \in spent
                /\ stops' = [stops EXCEPT ![k][a] = None]
                /\ UNCHANGED <<target, pc>>
    /\ UNCHANGED <<lock, movement, closed, world, command, spent, wire, acked>>

StopOver(k) == /\ Goto(k, "stopping")
               /\ stops' = [stops EXCEPT ![k][target[k]] = None]
               /\ target' = [target EXCEPT ![k] = "pan"]

\* Session.Send and the writer's queue, as for a caller ...
StopSend(k) ==
    /\ At(k, "sending")
    /\ \/ alive /\ k \notin spent /\ (Goto(k, "writing") \/ Goto(k, "refused"))
       \/ (~alive \/ k \in spent \/ ~connected) /\ Goto(k, "failing")
    /\ UNCHANGED <<lock, movement, closed, world, command, closing, wire, acked>>

\* ... and an end of the wait for the write.
StopGivesUp(k) ==
    /\ At(k, "writing") /\ (~alive \/ k \in spent \/ ~connected)
    /\ Orphan(k) /\ Goto(k, "failing")
    /\ UNCHANGED <<lock, movement, closed, world, command, closing, stilled, acked>>

\* Close ignores why a stop has failed.
StopFailed(k) ==
    /\ At(k, "failing") \/ At(k, "refused")
    /\ StopOver(k)
    /\ UNCHANGED <<lock, movement, closed, world, command, spent, wire, acked>>

StopAnswered(k) ==
    /\ At(k, "waiting") /\ StopOver(k)
    /\ UNCHANGED <<lock, movement, closed, world, command, spent, wire, acked>>

\* The response timeout is longer than the budget.
StopAwaited(k) ==   \* mutant: waits for the answer
    /\ At(k, "waiting") /\ ~alive /\ StopOver(k)
    /\ UNCHANGED <<lock, movement, closed, world, command, spent, wire, acked>>
StopAbandoned(k) ==
    /\ At(k, "waiting") /\ (~alive \/ k \in spent) /\ StopOver(k)
    /\ UNCHANGED <<lock, movement, closed, world, command, spent, wire, acked>>

\* The close frame, whose failure is ignored, and core.Close.
CloseCore(k) ==
    /\ At(k, "stopping") /\ stops[k] = Still
    /\ alive' = FALSE
    /\ Goto(k, "ended")
    /\ UNCHANGED <<lock, movement, closed, connected, command, closing, wire, acked>>

\* Back in Close, which drops its context: the connection's goes on to close the connection.
CloseReturn(k) ==
    /\ At(k, "ended") \/ At(k, "skipped")
    /\ connected' = (connected /\ k # Connection)
    /\ spent' = spent \ {k}
    /\ Goto(k, "done")
    /\ UNCHANGED <<lock, movement, closed, alive, command, stops, target, wire, acked>>

\* Time passes while Close waits for a mutex, for the write or for an answer.
BudgetEnds(k) ==
    /\ k \notin spent
    /\ \/ At(k, "lockPan") /\ lock["pan"] # None
       \/ At(k, "lockTilt") /\ lock["tilt"] # None
       \/ At(k, "writing") \/ At(k, "waiting")
    /\ spent' = spent \cup {k}
    /\ UNCHANGED <<lock, movement, closed, world, command, stops, target, wire, acked, pc>>

--------------------------------------------------------------------------------
(* SignalingWriter.Run, which writes one frame at a time. *)

AxisOf(a)  == IF a \in Callers THEN Axis(a) ELSE target[a]
FramesOf(a) ==
    {"stop"} \cup IF a \in Callers /\ command[a].kind = "move" THEN {command[a].direction} ELSE {}

\* The frame is picked while its call waits for it.  Speed zero is a stop.
Take(a) ==
    /\ hand = NoFrame /\ At(a, "writing")
    /\ \E f \in FramesOf(a) : hand' = [by |-> a, axis |-> AxisOf(a), frame |-> f]
    /\ UNCHANGED <<lock, movement, closed, world, command, closing, stilled, acked, pc>>

\* Run's answer, which nobody reads when the call is over.
Answer(state) == /\ hand' = NoFrame
                 /\ IF hand.by = None THEN UNCHANGED pc ELSE Goto(hand.by, state)

\* Past its look at the context, Run writes the frame, also of a call that is over.
Written ==
    /\ hand # NoFrame /\ connected
    /\ stilled' = IF hand.by \in Closers THEN stilled \cup {hand.axis} ELSE stilled
    /\ Answer("waiting")
    /\ UNCHANGED <<lock, movement, closed, world, command, closing, acked>>

\* A failed write ends the connection: through onFailure, or, when its context has ended
\* in the middle of the frame, because the socket takes no other.
WriteFails ==
    /\ hand # NoFrame /\ connected' = FALSE
    /\ Answer("failing")
    /\ UNCHANGED <<lock, movement, closed, alive, command, closing, stilled, acked>>

\* The look finds the context of the call that is over.
Dropped ==
    /\ hand # NoFrame /\ hand.by = None
    /\ hand' = NoFrame
    /\ UNCHANGED <<lock, movement, closed, world, command, closing, stilled, acked, pc>>

--------------------------------------------------------------------------------
(* The rest of the library. *)

\* terminate and watch set closed without the axis mutexes, and stop nothing.
Terminate ==
    /\ ~closed /\ closed' = TRUE
    /\ acked' = Still
    /\ UNCHANGED <<lock, movement, world, command, closing, wire, pc>>

CoreEnds ==
    /\ alive /\ alive' = FALSE
    /\ UNCHANGED <<lock, movement, closed, connected, command, closing, wire, acked, pc>>

ConnectionFails ==
    /\ connected /\ connected' = FALSE
    /\ UNCHANGED <<lock, movement, closed, alive, command, closing, wire, acked, pc>>

\* What a goroutine inside a call does by itself ...
Proceed(c) == \/ Refuse(c) \/ CheckMove(c) \/ CheckStop(c) \/ Call(c) \/ GiveUp(c)
              \/ TimesOut(c) \/ MoveFails(c) \/ StopFails(c)

GetLock(k) == CloseLock(k, "pan", "lockPan", "lockTilt") \/ CloseLock(k, "tilt", "lockTilt", "marking")

Close(k) == \/ MarkClosed(k) \/ StopCall(k) \/ StopSend(k) \/ StopGivesUp(k)
            \/ StopAbandoned(k) \/ StopFailed(k) \/ CloseCore(k) \/ CloseReturn(k)

Run == Written \/ WriteFails \/ Dropped \/ \E a \in Actors : Take(a)

\* ... and what starts it, lets it go on, or ends the session.
Next == \/ \E c \in Callers : Begin(c) \/ Lock(c) \/ Proceed(c) \/ Acknowledged(c) \/ Refused(c)
        \/ \E k \in Closers : \/ CloseBegin(k) \/ GetLock(k) \/ Close(k)
                              \/ StopAnswered(k) \/ BudgetEnds(k)
        \/ Run \/ Terminate \/ CoreEnds \/ ConnectionFails

Spec == Init /\ [][Next]_vars

\* sync.Mutex hands itself to a goroutine that has waited for long: strong fairness.
\* Callers go on for ever, so each has its own; closers have finitely many steps to
\* take, so that one for all of them is enough.
Fairness ==
    /\ \A c \in Callers : SF_vars(Lock(c) \/ Proceed(c))
    /\ SF_vars(\E k \in Closers : GetLock(k) \/ Close(k) \/ BudgetEnds(k))

FairSpec == Spec /\ Fairness

--------------------------------------------------------------------------------
(* Properties. *)

\* Every variable holds a value of its type, and a command is sent with a direction.
TypeOK ==
    /\ lock \in [Axes -> Actors \cup {None}]
    /\ movement \in [Axes -> Directions \cup {None}]
    /\ closed \in BOOLEAN /\ alive \in BOOLEAN /\ connected \in BOOLEAN
    /\ command \in [Callers -> Command]
    /\ stops \in [Closers -> [Axes -> Directions \cup {None}]]
    /\ target \in [Closers -> Axes] /\ spent \subseteq Closers
    /\ hand \in [by : Actors \cup {None}, axis : Axes, frame : Frames \cup {None}]
    /\ stilled \subseteq Axes
    /\ acked \in [Axes -> Directions \cup {None}]
    /\ pc \in [Actors -> CallerStates \cup CloserStates]
    /\ \A c \in Callers : pc[c] \in CallerStates
    /\ \A k \in Closers : pc[k] \in CloserStates
    /\ \A c \in Callers :
          command[c].kind = "move" \/ pc[c] \in InCall => command[c].direction \in Directions

\* device_session_concurrency_test.go:28: "A failed command must not erase the next
\* acknowledged movement.  In particular, StopPTZ must still know which direction to stop
\* after competing callers race."  While nobody holds an axis of an open session, its
\* movement is the one the camera last acknowledged.
AcknowledgedTracked ==
    \A a \in Axes : ~closed /\ lock[a] = None => movement[a] = acked[a]

\* A closer that has been through the mutexes.
PastLocks(k) == pc[k] \notin {"idle", "lockPan", "lockTilt", "marking"}

\* live-sessions.mdx:64-65: Close stops what is moving.  A stop that was written for it is
\* the last the camera is told on that axis: Run has no move of it to write any more, of a call
\* that was waiting for the axis, of one that had passed its look at closed, nor of one that
\* was cancelled with its frame in Run's hand.
StopIsLast == hand.axis \in stilled => hand.frame \in {"stop", None}

\* One closer at most stops the movements, and the others do not wait for it.
OneCloserStops ==
    \A j, k \in Closers : {pc[j], pc[k]} \subseteq {"stopping"} \cup InStop => j = k

\* live-sessions.mdx:64: "The client also stops tracked continuous movement when closing a
\* session."  The budget may be over before the first stop is sent.
CloseStopsTracked ==
    [][\A k \in Closers, a \in Axes :
          stops[k][a] # None /\ stops'[k][a] = None /\ pc[k] = "stopping" /\ alive /\ connected
             => a \in stilled]_vars

\* What is left of that promise: while Close's two seconds last, on a living session and
\* connection and unless the writer's queue was full, it is done with a movement only after
\* its own stop was written.
CloseStopsInTime ==
    [][\A k \in Closers \ spent, a \in Axes :
          stops[k][a] # None /\ stops'[k][a] = None /\ pc[k] # "refused" /\ alive /\ connected
             => a \in stilled]_vars

\* Nobody waits for ever: every command returns, although the camera may never answer,
\* and so does Close, although it asks for the second mutex with the first one held and a
\* caller may hold that for the length of a call.
CallsReturn ==
    /\ \A c \in Callers : []<>(pc[c] = "idle")
    /\ []<>(\A k \in Closers : pc[k] \in {"idle", "done"})
================================================================================
