---------------------------- MODULE DevicePtzProofs -----------------------------
(***************************************************************************)
(* Theorems about DevicePtz, for any callers, closers and directions.      *)
(* AcknowledgedTracked, StopIsLast and OneCloserStops follow from who      *)
(* holds which mutex, so the inductive invariant says that first.          *)
(***************************************************************************)
EXTENDS DevicePtz, TLAPS

Holding == {"checking"} \cup InCall

\* An axis' mutex is held by the caller inside its critical section, or by a closer on
\* its way through the mutexes.
LockInv ==
    /\ \A c \in Callers, a \in Axes : lock[a] = c <=> pc[c] \in Holding /\ Axis(c) = a
    /\ \A k \in Closers : /\ lock["pan"] = k <=> pc[k] \in {"lockTilt", "marking"}
                          /\ lock["tilt"] = k <=> pc[k] = "marking"

\* In an open session, what is tracked or about to be put back is what was acknowledged.
TrackInv ==
    ~closed =>
        /\ \A c \in Callers : pc[c] \in InCall /\ command[c].kind = "move"
                                 => command[c].previous = acked[Axis(c)]
        /\ \A a \in Axes : \/ movement[a] = acked[a]
                           \/ \E c \in Callers : /\ lock[a] = c /\ pc[c] \in InCall
                                                 /\ command[c].kind = "move"

\* A closer past the mutexes has found or made the session closed, with no call under way.
CloseInv ==
    /\ \A k \in Closers : PastLocks(k) => closed /\ \A c \in Callers : pc[c] \notin InCall
    /\ OneCloserStops

\* The frame in Run's hand is that of the call that waits for it, if any still does.
HandInv ==
    hand.by # None => /\ hand.frame # None /\ pc[hand.by] = "writing"
                      /\ hand.axis = AxisOf(hand.by)
                      /\ hand.by \in Closers => hand.frame = "stop"

\* When a Close has written a stop, no call is under way and Run's hand is free of moves.
QuietInv ==
    stilled # {} => /\ closed /\ hand.frame \in {"stop", None}
                    /\ \A c \in Callers : pc[c] \notin InCall

\* A closer has nothing to stop before it has marked the session closed, waits for an answer
\* only to a stop that was written, and fails only for want of time, core or connection.
StopInv ==
    \A k \in Closers :
        /\ pc[k] \in {"idle", "lockPan", "lockTilt", "marking"} => stops[k] = Still
        /\ pc[k] = "waiting" => target[k] \in stilled
        /\ pc[k] = "failing" => ~alive \/ k \in spent \/ ~connected

IInv == TypeOK /\ LockInv /\ TrackInv /\ CloseInv /\ HandInv /\ QuietInv /\ StopInv

--------------------------------------------------------------------------------
(* Types. *)

HandType == [by : Actors \cup {None}, axis : Axes, frame : Frames \cup {None}]

\* What a command and a closer's list of movements are updated to.
LEMMA Updates ==
    ASSUME TypeOK, NEW a \in Axes, NEW d \in Directions \cup {None}
    PROVE  /\ NoCommand \in Command /\ Still \in [Axes -> Directions \cup {None}]
           /\ \A kind \in {"move", "stop"} :
                 [axis |-> a, kind |-> kind, direction |-> d, previous |-> None] \in Command
           /\ \A c \in Callers : /\ command[c] \in Command
                                 /\ [command[c] EXCEPT !.previous = d] \in Command
                                 /\ [command[c] EXCEPT !.direction = d] \in Command
           /\ \A k \in Closers : [stops EXCEPT ![k][a] = d]
                                    \in [Closers -> [Axes -> Directions \cup {None}]]
           /\ [hand EXCEPT !.by = None] \in HandType
<1>1. /\ NoCommand \in Command /\ Still \in [Axes -> Directions \cup {None}]
      /\ \A kind \in {"move", "stop"} :
            [axis |-> a, kind |-> kind, direction |-> d, previous |-> None] \in Command
  BY DEF NoCommand, Command, Axes, Still
<1>2. \A c \in Callers : /\ command[c] \in Command
                         /\ [command[c] EXCEPT !.previous = d] \in Command
                         /\ [command[c] EXCEPT !.direction = d] \in Command
  BY ZenonT(60) DEF TypeOK, Command
<1>3. \A k \in Closers : [stops EXCEPT ![k][a] = d]
                             \in [Closers -> [Axes -> Directions \cup {None}]]
  BY DEF TypeOK
<1>4. [hand EXCEPT !.by = None] \in HandType
  BY DEF TypeOK, HandType
<1> QED
  BY <1>1, <1>2, <1>3, <1>4

\* A closer's step from one state to another leaves the callers where they are.
LEMMA CloserMoves ==
    ASSUME TypeOK, NEW k \in Closers, NEW s \in CloserStates, Goto(k, s)
    PROVE  /\ pc' \in [Actors -> CallerStates \cup CloserStates]
           /\ \A c \in Callers : pc'[c] = pc[c]
           /\ \A j \in Closers : pc'[j] \in CloserStates
BY ActorAssumption DEF TypeOK, Goto, Actors

\* A caller's step from one state to another keeps the types of what it leaves alone.
LEMMA CallerMoves ==
    ASSUME TypeOK, NEW c \in Callers, NEW s \in CallerStates, Goto(c, s),
           UNCHANGED <<lock, movement, closed, alive, connected, command, stops, target,
                       spent, stilled, acked>>,
           hand' \in HandType,
           pc[c] \in InCall \/ s \notin InCall
    PROVE  TypeOK'
<1>1. /\ pc' \in [Actors -> CallerStates \cup CloserStates]
      /\ \A x \in Callers : pc'[x] \in CallerStates
      /\ \A k \in Closers : pc'[k] \in CloserStates
  BY ActorAssumption DEF TypeOK, Goto, Actors
<1>2. \A x \in Callers : pc'[x] \in InCall => pc[x] \in InCall
  BY DEF TypeOK, Goto, Actors
<1> QED
  BY <1>1, <1>2 DEF TypeOK, HandType

\* A closer's step keeps the types when what it updates has them.
LEMMA CloserTypes ==
    ASSUME TypeOK, NEW k \in Closers, NEW s \in CloserStates, Goto(k, s),
           UNCHANGED <<alive, connected, command>>, UNCHANGED closed \/ closed' = TRUE,
           lock' \in [Axes -> Actors \cup {None}],
           movement' \in [Axes -> Directions \cup {None}],
           stops' \in [Closers -> [Axes -> Directions \cup {None}]],
           target' \in [Closers -> Axes], spent' \subseteq Closers,
           hand' \in HandType, stilled' \subseteq Axes,
           acked' \in [Axes -> Directions \cup {None}]
    PROVE  TypeOK'
<1>1. /\ pc' \in [Actors -> CallerStates \cup CloserStates]
      /\ \A c \in Callers : pc'[c] = pc[c]
      /\ \A j \in Closers : pc'[j] \in CloserStates
  BY CloserMoves
<1>2. closed' \in BOOLEAN /\ alive' \in BOOLEAN /\ connected' \in BOOLEAN
  BY DEF TypeOK
<1> QED
  BY <1>1, <1>2 DEF TypeOK, HandType

\* A step of Run moves the call that waits for its frame, if any, and nothing else.
LEMMA RunMoves ==
    ASSUME TypeOK, HandInv, Run
    PROVE  /\ UNCHANGED <<lock, movement, closed, alive, command, stops, target, spent, acked>>
           /\ connected' \in BOOLEAN /\ hand' \in HandType /\ stilled' \subseteq Axes
           /\ pc' \in [Actors -> CallerStates \cup CloserStates]
           /\ \A a \in Actors : \/ pc'[a] = pc[a]
                                \/ pc[a] = "writing" /\ pc'[a] \in {"waiting", "failing"}
<1>1. NoFrame \in HandType
  BY DEF NoFrame, HandType, Axes
<1>2. hand \in HandType /\ hand.axis \in Axes
  BY DEF TypeOK, HandType
<1>3. ASSUME NEW state \in {"waiting", "failing"}, Answer(state)
      PROVE  /\ hand' \in HandType /\ pc' \in [Actors -> CallerStates \cup CloserStates]
             /\ \A a \in Actors : \/ pc'[a] = pc[a]
                                  \/ pc[a] = "writing" /\ pc'[a] = state
  <2>1. hand' \in HandType
    BY <1>1, <1>3 DEF Answer
  <2>2. CASE hand.by = None
    BY <1>3, <2>1, <2>2 DEF Answer, TypeOK
  <2>3. CASE hand.by # None
    <3>1. hand.by \in Actors /\ pc[hand.by] = "writing"
      BY <1>2, <2>3 DEF HandInv, HandType
    <3>2. pc' = [pc EXCEPT ![hand.by] = state]
      BY <1>3, <2>3 DEF Answer, Goto
    <3> QED
      BY <2>1, <3>1, <3>2 DEF TypeOK, CallerStates, InCall
  <2> QED
    BY <2>2, <2>3
<1>4. CASE Written
  BY <1>2, <1>3, <1>4 DEF Written, world, closing, TypeOK
<1>5. CASE WriteFails
  BY <1>3, <1>5 DEF WriteFails, closing, TypeOK
<1>6. CASE Dropped
  BY <1>1, <1>6 DEF Dropped, world, closing, TypeOK
<1>7. ASSUME NEW a \in Actors, Take(a)
      PROVE  /\ hand' \in HandType
             /\ UNCHANGED <<lock, movement, closed, world, command, closing, stilled, acked, pc>>
  <2>1. AxisOf(a) \in Axes
    BY DEF AxisOf, Axis, TypeOK, Command, Actors
  <2>2. FramesOf(a) \subseteq Frames
    BY DEF FramesOf, Frames, TypeOK
  <2> QED
    BY <1>7, <2>1, <2>2 DEF Take, HandType
<1>8. CASE \E a \in Actors : Take(a)
  BY <1>7, <1>8 DEF world, closing, TypeOK
<1> QED
  BY <1>4, <1>5, <1>6, <1>8 DEF Run

\* Each step keeps the types.
LEMMA TypeStep ==
    ASSUME TypeOK, HandInv, [Next]_vars
    PROVE  TypeOK'
<1> USE ActorAssumption, DirectionAssumption
    DEF TypeOK, Actors, Axes, Command, CallerStates, CloserStates, InCall, Goto, At,
        world, closing, wire, InStop, Axis, Still
<1>1. ASSUME NEW c \in Callers, Begin(c) PROVE TypeOK'
  <2> USE DEF Begin
  <2>1. PICK a \in Axes, d \in Directions \cup {None}, kind \in {"move", "stop"} :
           command' = [command EXCEPT ![c] = [axis |-> a, kind |-> kind,
                                              direction |-> d, previous |-> None]]
    BY <1>1
  <2>2. command' \in [Callers -> Command]
    BY <2>1, Updates DEF TypeOK
  <2>3. \A x \in Callers : x # c => command'[x] = command[x]
    BY <2>1 DEF TypeOK
  <2> QED
    BY <1>1, <2>2, <2>3
<1>2. ASSUME NEW c \in Callers, Lock(c) PROVE TypeOK'
  BY <1>2 DEF Lock
<1>3. ASSUME NEW c \in Callers, Refuse(c) PROVE TypeOK'
  BY <1>3 DEF Refuse, Return, Release, NoCommand
<1>4. ASSUME NEW c \in Callers, CheckMove(c) PROVE TypeOK'
  <2> DEFINE d == movement[command[c].axis]
  <2>1. command[c].axis \in Axes /\ d \in Directions \cup {None}
    OBVIOUS
  <2>2. [command[c] EXCEPT !.previous = d] \in Command
    BY <2>1, Updates
  <2>3. command' = [command EXCEPT ![c] = [command[c] EXCEPT !.previous = d]]
    BY <1>4 DEF CheckMove
  <2>4. command' \in [Callers -> Command]
    BY <2>2, <2>3
  <2>5. \A x \in Callers : /\ command'[x].direction = command[x].direction
                           /\ command'[x].kind = command[x].kind
    BY <2>3
  <2>6. command[c].direction \in Directions
    BY <1>4 DEF CheckMove
  <2>7. /\ movement' \in [Axes -> Directions \cup {None}]
        /\ UNCHANGED <<lock, closed, alive, connected, stops, target, spent, hand, stilled, acked>>
    BY <1>4, <2>1, <2>6 DEF CheckMove
  <2>8. /\ pc' \in [Actors -> CallerStates \cup CloserStates]
        /\ \A x \in Callers : pc'[x] \in CallerStates /\ (x # c => pc'[x] = pc[x])
        /\ \A k \in Closers : pc'[k] \in CloserStates
    BY <1>4 DEF CheckMove
  <2>9. \A x \in Callers : command'[x].kind = "move" \/ pc'[x] \in InCall
                             => command'[x].direction \in Directions
    BY <2>5, <2>6, <2>8
  <2> QED
    BY <2>4, <2>7, <2>8, <2>9
<1>5. ASSUME NEW c \in Callers, CheckStop(c) PROVE TypeOK'
  <2> DEFINE d == movement[command[c].axis]
  <2>1. command[c].axis \in Axes /\ d \in Directions
    BY <1>5 DEF CheckStop
  <2>2. command' = [command EXCEPT ![c] = [command[c] EXCEPT !.direction = d]]
    BY <1>5 DEF CheckStop
  <2>3. command' \in [Callers -> Command]
    <3>1. [command[c] EXCEPT !.direction = d] \in Command
      BY <2>1, Updates
    <3> QED
      BY <2>2, <3>1
  <2>4. command'[c].direction = d /\ \A x \in Callers : x # c => command'[x] = command[x]
    BY <2>2
  <2>5. UNCHANGED <<lock, movement, closed, alive, connected, stops, target, spent, hand, stilled, acked>>
    BY <1>5 DEF CheckStop
  <2>6. /\ pc' \in [Actors -> CallerStates \cup CloserStates]
        /\ \A x \in Callers : pc'[x] \in CallerStates /\ (x # c => pc'[x] = pc[x])
        /\ \A k \in Closers : pc'[k] \in CloserStates
    BY <1>5 DEF CheckStop
  <2>7. \A x \in Callers : command'[x].kind = "move" \/ pc'[x] \in InCall
                             => command'[x].direction \in Directions
    BY <2>1, <2>4, <2>6
  <2> QED
    BY <2>3, <2>5, <2>6, <2>7
<1>6. ASSUME NEW c \in Callers, Call(c) PROVE TypeOK'
  <2>1. /\ pc[c] \in InCall /\ hand' \in HandType
        /\ UNCHANGED <<lock, movement, closed, alive, connected, command, stops, target, spent,
                       stilled, acked>>
    BY <1>6 DEF Call, HandType
  <2>2. \E s \in CallerStates : Goto(c, s)
    BY <1>6 DEF Call
  <2> HIDE DEF TypeOK, Goto, CallerStates, InCall, Actors, Axes
  <2> QED
    BY <2>1, <2>2, CallerMoves
<1>7. ASSUME NEW c \in Callers, GiveUp(c) PROVE TypeOK'
  <2>1. hand' \in HandType
    <3>1. [hand EXCEPT !.by = None] \in HandType
      BY Updates
    <3> QED
      BY <1>7, <3>1 DEF GiveUp, Orphan, HandType
  <2>2. UNCHANGED <<lock, movement, closed, alive, connected, command, stops, target, spent,
                    stilled, acked>>
    BY <1>7 DEF GiveUp
  <2> QED
    BY <1>7, <2>1, <2>2, CallerMoves DEF GiveUp
<1>8. ASSUME NEW c \in Callers, TimesOut(c) PROVE TypeOK'
  BY <1>8, CallerMoves DEF TimesOut
<1>9. ASSUME NEW c \in Callers, MoveFails(c) PROVE TypeOK'
  BY <1>9 DEF MoveFails, Return, Release, NoCommand
<1>10. ASSUME NEW c \in Callers, StopFails(c) PROVE TypeOK'
  BY <1>10 DEF StopFails, Return, Release, NoCommand
<1>11. ASSUME NEW c \in Callers, Acknowledged(c) PROVE TypeOK'
  BY <1>11 DEF Acknowledged, Return, Release, NoCommand
<1>12. ASSUME NEW c \in Callers, Refused(c) PROVE TypeOK'
  BY <1>12, CallerMoves DEF Refused
<1>13. ASSUME NEW k \in Closers, CloseBegin(k) PROVE TypeOK'
  BY <1>13 DEF CloseBegin
<1>14. ASSUME NEW k \in Closers, MarkClosed(k) PROVE TypeOK'
  <2>1. stops' \in [Closers -> [Axes -> Directions \cup {None}]]
    BY <1>14 DEF MarkClosed
  <2>2. lock' \in [Axes -> Actors \cup {None}] /\ movement' \in [Axes -> Directions \cup {None}]
    BY <1>14 DEF MarkClosed, Release
  <2>3. /\ UNCHANGED closed \/ closed' = TRUE
        /\ UNCHANGED <<alive, connected, command, target, spent, hand, stilled>>
        /\ acked' \in [Axes -> Directions \cup {None}]
    BY <1>14 DEF MarkClosed
  <2>4. \E s \in CloserStates : Goto(k, s)
    BY <1>14 DEF MarkClosed
  <2>9. /\ target' \in [Closers -> Axes]
        /\ spent' \subseteq Closers
        /\ hand' \in HandType
        /\ stilled' \subseteq Axes
    BY <2>3 DEF HandType
  <2> HIDE DEF TypeOK, Goto, CloserStates, Actors, Axes
  <2> QED
    BY <2>1, <2>2, <2>3, <2>4, <2>9, CloserTypes
<1>15. ASSUME NEW k \in Closers, StopCall(k) PROVE TypeOK'
  <2>1. stops' \in [Closers -> [Axes -> Directions \cup {None}]]
    <3>1. UNCHANGED stops \/ \E a \in Axes : stops' = [stops EXCEPT ![k][a] = None]
      BY <1>15 DEF StopCall
    <3>2. \A a \in Axes : [stops EXCEPT ![k][a] = None]
                            \in [Closers -> [Axes -> Directions \cup {None}]]
      BY Updates
    <3>3. CASE UNCHANGED stops
      BY <3>3
    <3>4. CASE \E a \in Axes : stops' = [stops EXCEPT ![k][a] = None]
      <4> HIDE DEF TypeOK, Axes
      <4> QED
        BY <3>2, <3>4
    <3> QED
      BY <3>1, <3>3, <3>4
  <2>2. /\ target' \in [Closers -> Axes]
        /\ UNCHANGED <<lock, movement, closed, alive, connected, command, spent, hand, stilled, acked>>
    BY <1>15 DEF StopCall
  <2>3. UNCHANGED pc \/ (Goto(k, "sending") /\ "sending" \in CloserStates)
    BY <1>15 DEF StopCall
  <2>4. CASE UNCHANGED pc
    BY <2>1, <2>2, <2>4
  <2>5. CASE Goto(k, "sending") /\ "sending" \in CloserStates
    <3>1. /\ lock' \in [Axes -> Actors \cup {None}]
          /\ movement' \in [Axes -> Directions \cup {None}]
          /\ spent' \subseteq Closers
          /\ hand' \in HandType
          /\ stilled' \subseteq Axes
          /\ acked' \in [Axes -> Directions \cup {None}]
      BY <2>2 DEF HandType
    <3> HIDE DEF TypeOK, Goto, CloserStates, Actors, Axes
    <3> QED
      BY <2>1, <2>2, <2>5, <3>1, CloserTypes
  <2> QED
    BY <2>3, <2>4, <2>5
<1>16. ASSUME NEW k \in Closers, StopSend(k) PROVE TypeOK'
  <2>1. /\ lock' \in [Axes -> Actors \cup {None}]
        /\ movement' \in [Axes -> Directions \cup {None}]
        /\ stops' \in [Closers -> [Axes -> Directions \cup {None}]]
        /\ target' \in [Closers -> Axes] /\ spent' \subseteq Closers
        /\ hand' \in HandType /\ stilled' \subseteq Axes
        /\ acked' \in [Axes -> Directions \cup {None}]
        /\ UNCHANGED <<closed, alive, connected, command>>
    BY <1>16 DEF StopSend, HandType
  <2>2. \E s \in CloserStates : Goto(k, s)
    BY <1>16 DEF StopSend
  <2> HIDE DEF TypeOK, Goto, CloserStates, Actors, Axes
  <2> QED
    BY <2>1, <2>2, CloserTypes
<1>17. ASSUME NEW k \in Closers, StopAbandoned(k) PROVE TypeOK'
  BY <1>17 DEF StopAbandoned, StopOver
<1>18. ASSUME NEW k \in Closers, CloseCore(k) PROVE TypeOK'
  BY <1>18 DEF CloseCore
<1>19. ASSUME NEW k \in Closers, CloseReturn(k) PROVE TypeOK'
  BY <1>19 DEF CloseReturn
<1>20. ASSUME NEW k \in Closers, StopAnswered(k) PROVE TypeOK'
  <2>1. stops' \in [Closers -> [Axes -> Directions \cup {None}]]
    <3>1. UNCHANGED stops \/ stops' = [stops EXCEPT ![k][target[k]] = None]
      BY <1>20 DEF StopAnswered, StopOver
    <3>2. \A a \in Axes : [stops EXCEPT ![k][a] = None]
                            \in [Closers -> [Axes -> Directions \cup {None}]]
      BY Updates
    <3> QED
      BY <3>1, <3>2
  <2>2. /\ target' \in [Closers -> Axes]
        /\ UNCHANGED <<lock, movement, closed, alive, connected, command, spent, hand, stilled, acked>>
    BY <1>20 DEF StopAnswered, StopOver
  <2>3. Goto(k, "stopping") /\ "stopping" \in CloserStates
    BY <1>20 DEF StopAnswered, StopOver
  <2>4. /\ lock' \in [Axes -> Actors \cup {None}]
        /\ movement' \in [Axes -> Directions \cup {None}]
        /\ spent' \subseteq Closers /\ hand' \in HandType /\ stilled' \subseteq Axes
        /\ acked' \in [Axes -> Directions \cup {None}]
    BY <2>2 DEF HandType
  <2> HIDE DEF TypeOK, Goto, CloserStates
  <2> QED
    BY <2>1, <2>2, <2>3, <2>4, CloserTypes
<1>21. ASSUME NEW k \in Closers, BudgetEnds(k) PROVE TypeOK'
  BY <1>21 DEF BudgetEnds
<1>22. ASSUME NEW k \in Closers, GetLock(k) PROVE TypeOK'
  <2>1. lock' = [lock EXCEPT !["pan"] = k] \/ lock' = [lock EXCEPT !["tilt"] = k]
    BY <1>22 DEF GetLock, CloseLock
  <2>2. lock' \in [Axes -> Actors \cup {None}]
    BY <2>1
  <2>3. UNCHANGED <<movement, closed, alive, connected, command, stops, target, spent, hand, stilled, acked>>
    BY <1>22 DEF GetLock, CloseLock
  <2>4. \E t \in CloserStates : Goto(k, t)
    BY <1>22 DEF GetLock, CloseLock
  <2>9. /\ movement' \in [Axes -> Directions \cup {None}]
        /\ stops' \in [Closers -> [Axes -> Directions \cup {None}]]
        /\ target' \in [Closers -> Axes]
        /\ spent' \subseteq Closers
        /\ hand' \in HandType
        /\ stilled' \subseteq Axes
        /\ acked' \in [Axes -> Directions \cup {None}]
    BY <2>3 DEF HandType
  <2> HIDE DEF TypeOK, Goto, CloserStates, Actors, Axes
  <2> QED
    BY <2>2, <2>3, <2>4, <2>9, CloserTypes
<1>23. CASE Terminate
  BY <1>23 DEF Terminate
<1>24. CASE CoreEnds
  BY <1>24 DEF CoreEnds
<1>25. CASE ConnectionFails
  BY <1>25 DEF ConnectionFails
<1>26. CASE UNCHANGED vars
  BY <1>26 DEF vars
<1>27. ASSUME NEW k \in Closers, StopGivesUp(k) PROVE TypeOK'
  <2>1. hand' \in HandType
    <3>1. [hand EXCEPT !.by = None] \in HandType
      BY Updates
    <3> QED
      BY <1>27, <3>1 DEF StopGivesUp, Orphan, HandType
  <2>2. UNCHANGED <<lock, movement, closed, alive, connected, command, stops, target, spent,
                    stilled, acked>>
    BY <1>27 DEF StopGivesUp
  <2>3. \E s \in CloserStates : Goto(k, s)
    BY <1>27 DEF StopGivesUp
  <2>9. /\ lock' \in [Axes -> Actors \cup {None}]
        /\ movement' \in [Axes -> Directions \cup {None}]
        /\ stops' \in [Closers -> [Axes -> Directions \cup {None}]]
        /\ target' \in [Closers -> Axes]
        /\ spent' \subseteq Closers
        /\ stilled' \subseteq Axes
        /\ acked' \in [Axes -> Directions \cup {None}]
    BY <2>2 DEF HandType
  <2> HIDE DEF TypeOK, Goto, CloserStates, Actors, Axes
  <2> QED
    BY <2>1, <2>2, <2>3, <2>9, CloserTypes
<1>28. ASSUME NEW k \in Closers, StopFailed(k) PROVE TypeOK'
  <2>1. stops' \in [Closers -> [Axes -> Directions \cup {None}]]
    <3>1. stops' = [stops EXCEPT ![k][target[k]] = None]
      BY <1>28 DEF StopFailed, StopOver
    <3>2. \A a \in Axes : [stops EXCEPT ![k][a] = None]
                            \in [Closers -> [Axes -> Directions \cup {None}]]
      BY Updates
    <3> QED
      BY <3>1, <3>2
  <2>2. /\ target' \in [Closers -> Axes]
        /\ UNCHANGED <<lock, movement, closed, alive, connected, command, spent, hand, stilled, acked>>
    BY <1>28 DEF StopFailed, StopOver
  <2>3. Goto(k, "stopping") /\ "stopping" \in CloserStates
    BY <1>28 DEF StopFailed, StopOver
  <2>4. /\ lock' \in [Axes -> Actors \cup {None}]
        /\ movement' \in [Axes -> Directions \cup {None}]
        /\ spent' \subseteq Closers /\ hand' \in HandType /\ stilled' \subseteq Axes
        /\ acked' \in [Axes -> Directions \cup {None}]
    BY <2>2 DEF HandType
  <2> HIDE DEF TypeOK, Goto, CloserStates
  <2> QED
    BY <2>1, <2>2, <2>3, <2>4, CloserTypes
<1>29. CASE Run
  <2>1. \A c \in Callers : pc'[c] \in CallerStates /\ (pc'[c] \in InCall => pc[c] \in InCall)
    BY <1>29, RunMoves
  <2>2. \A k \in Closers : pc'[k] \in CloserStates
    BY <1>29, RunMoves
  <2> QED
    BY <1>29, <2>1, <2>2, RunMoves DEF HandType
<1> QED
  BY <1>1, <1>2, <1>3, <1>4, <1>5, <1>6, <1>7, <1>8, <1>9, <1>10, <1>11, <1>12, <1>13, <1>14, <1>15, <1>16, <1>17, <1>18, <1>19, <1>20, <1>21, <1>22, <1>23, <1>24, <1>25, <1>26, <1>27, <1>28, <1>29 DEF Next, Proceed, Close

\* The initial state has the types.
LEMMA InitTypes == Init => TypeOK
<1> SUFFICES ASSUME Init PROVE TypeOK
  OBVIOUS
<1>1. NoCommand \in Command /\ NoCommand.kind = "stop"
  BY DEF NoCommand, Command, Axes
<1>2. /\ Still \in [Axes -> Actors \cup {None}]
      /\ Still \in [Axes -> Directions \cup {None}]
      /\ Still \in [Axes -> Directions \cup {"stop", None}]
  BY DEF Still
<1>3. /\ stops \in [Closers -> [Axes -> Directions \cup {None}]]
      /\ target \in [Closers -> Axes]
  BY <1>2 DEF Init, Axes
<1>4. command \in [Callers -> Command] /\ \A c \in Callers : command[c].kind = "stop"
  BY <1>1 DEF Init
<1>5. pc \in [Actors -> {"idle"}]
  BY DEF Init
<1>6. NoFrame \in [by : Actors \cup {None}, axis : Axes, frame : Frames \cup {None}]
  BY DEF NoFrame, Axes
<1> QED
  BY <1>2, <1>3, <1>4, <1>5, <1>6 DEF Init, TypeOK, Actors, CallerStates, CloserStates, InCall

--------------------------------------------------------------------------------
(* Mutexes and movements. *)

\* Each step keeps the owners of the mutexes where the owners say they are.
LEMMA LockStep ==
    ASSUME TypeOK, LockInv, HandInv, [Next]_vars
    PROVE  LockInv'
<1> USE ActorAssumption
    DEF TypeOK, LockInv, Holding, InCall, Actors, Axes, Command, CallerStates, CloserStates,
        Goto, At, Axis, world, closing, wire, InStop, Frames, HandType
<1>1. ASSUME NEW c \in Callers, Begin(c) PROVE LockInv'
  BY <1>1 DEF Begin
<1>2. ASSUME NEW c \in Callers, Lock(c) PROVE LockInv'
  BY <1>2 DEF Lock
<1>3. ASSUME NEW c \in Callers, Refuse(c) PROVE LockInv'
  BY <1>3 DEF Refuse, Return, Release, NoCommand
<1>4. ASSUME NEW c \in Callers, CheckMove(c) PROVE LockInv'
  BY <1>4 DEF CheckMove
<1>5. ASSUME NEW c \in Callers, CheckStop(c) PROVE LockInv'
  BY <1>5 DEF CheckStop
<1>6. ASSUME NEW c \in Callers, Call(c) PROVE LockInv'
  BY <1>6 DEF Call
<1>7. ASSUME NEW c \in Callers, GiveUp(c) PROVE LockInv'
  BY <1>7 DEF GiveUp
<1>8. ASSUME NEW c \in Callers, TimesOut(c) PROVE LockInv'
  BY <1>8 DEF TimesOut
<1>9. ASSUME NEW c \in Callers, MoveFails(c) PROVE LockInv'
  BY <1>9 DEF MoveFails, Return, Release, NoCommand
<1>10. ASSUME NEW c \in Callers, StopFails(c) PROVE LockInv'
  BY <1>10 DEF StopFails, Return, Release, NoCommand
<1>11. ASSUME NEW c \in Callers, Acknowledged(c) PROVE LockInv'
  BY <1>11 DEF Acknowledged, Return, Release, NoCommand
<1>12. ASSUME NEW c \in Callers, Refused(c) PROVE LockInv'
  BY <1>12 DEF Refused
<1>13. ASSUME NEW k \in Closers, CloseBegin(k) PROVE LockInv'
  BY <1>13 DEF CloseBegin
<1>14. ASSUME NEW k \in Closers, MarkClosed(k) PROVE LockInv'
  BY <1>14 DEF MarkClosed, Release
<1>15. ASSUME NEW k \in Closers, StopCall(k) PROVE LockInv'
  BY <1>15 DEF StopCall
<1>16. ASSUME NEW k \in Closers, StopSend(k) PROVE LockInv'
  BY <1>16 DEF StopSend
<1>17. ASSUME NEW k \in Closers, StopAbandoned(k) PROVE LockInv'
  BY <1>17 DEF StopAbandoned, StopOver
<1>18. ASSUME NEW k \in Closers, CloseCore(k) PROVE LockInv'
  BY <1>18 DEF CloseCore
<1>19. ASSUME NEW k \in Closers, CloseReturn(k) PROVE LockInv'
  BY <1>19 DEF CloseReturn
<1>20. ASSUME NEW k \in Closers, StopAnswered(k) PROVE LockInv'
  BY <1>20 DEF StopAnswered, StopOver
<1>21. ASSUME NEW k \in Closers, BudgetEnds(k) PROVE LockInv'
  BY <1>21 DEF BudgetEnds
<1>22. ASSUME NEW k \in Closers, GetLock(k) PROVE LockInv'
  BY <1>22 DEF GetLock, CloseLock
<1>23. CASE Terminate
  BY <1>23 DEF Terminate
<1>24. CASE CoreEnds
  BY <1>24 DEF CoreEnds
<1>25. CASE ConnectionFails
  BY <1>25 DEF ConnectionFails
<1>26. CASE UNCHANGED vars
  BY <1>26 DEF vars
<1>27. ASSUME NEW k \in Closers, StopGivesUp(k) PROVE LockInv'
  BY <1>27 DEF StopGivesUp
<1>28. ASSUME NEW k \in Closers, StopFailed(k) PROVE LockInv'
  BY <1>28 DEF StopFailed, StopOver
<1>29. CASE Run
  BY <1>29, RunMoves
<1> QED
  BY <1>1, <1>2, <1>3, <1>4, <1>5, <1>6, <1>7, <1>8, <1>9, <1>10, <1>11, <1>12, <1>13,
     <1>14, <1>15, <1>16, <1>17, <1>18, <1>19, <1>20, <1>21, <1>22, <1>23, <1>24, <1>25,
     <1>26, <1>27, <1>28, <1>29 DEF Next, Proceed, Close

\* Each step of an open session keeps the movements to what was acknowledged.
LEMMA TrackStep ==
    ASSUME TypeOK, LockInv, TrackInv, HandInv, [Next]_vars
    PROVE  TrackInv'
<1> USE ActorAssumption
    DEF TypeOK, LockInv, Holding, InCall, Actors, Axes, Command, CallerStates, CloserStates,
        Goto, At, Axis, world, closing, wire, InStop, Frames, HandType, TrackInv
<1>1. ASSUME NEW c \in Callers, Begin(c) PROVE TrackInv'
  BY <1>1 DEF Begin
<1>2. ASSUME NEW c \in Callers, Lock(c) PROVE TrackInv'
  BY <1>2 DEF Lock
<1>3. ASSUME NEW c \in Callers, Refuse(c) PROVE TrackInv'
  BY <1>3 DEF Refuse, Return, Release, NoCommand
<1>4. ASSUME NEW c \in Callers, CheckMove(c) PROVE TrackInv'
  BY <1>4 DEF CheckMove
<1>5. ASSUME NEW c \in Callers, CheckStop(c) PROVE TrackInv'
  BY <1>5 DEF CheckStop
<1>6. ASSUME NEW c \in Callers, Call(c) PROVE TrackInv'
  BY <1>6 DEF Call
<1>7. ASSUME NEW c \in Callers, GiveUp(c) PROVE TrackInv'
  BY <1>7 DEF GiveUp
<1>8. ASSUME NEW c \in Callers, TimesOut(c) PROVE TrackInv'
  BY <1>8 DEF TimesOut
<1>9. ASSUME NEW c \in Callers, MoveFails(c) PROVE TrackInv'
  BY <1>9 DEF MoveFails, Return, Release, NoCommand
<1>10. ASSUME NEW c \in Callers, StopFails(c) PROVE TrackInv'
  BY <1>10 DEF StopFails, Return, Release, NoCommand
<1>11. ASSUME NEW c \in Callers, Acknowledged(c) PROVE TrackInv'
  BY <1>11 DEF Acknowledged, Return, Release, NoCommand
<1>12. ASSUME NEW c \in Callers, Refused(c) PROVE TrackInv'
  BY <1>12 DEF Refused
<1>13. ASSUME NEW k \in Closers, CloseBegin(k) PROVE TrackInv'
  BY <1>13 DEF CloseBegin
<1>14. ASSUME NEW k \in Closers, MarkClosed(k) PROVE TrackInv'
  BY <1>14 DEF MarkClosed, Release
<1>15. ASSUME NEW k \in Closers, StopCall(k) PROVE TrackInv'
  BY <1>15 DEF StopCall
<1>16. ASSUME NEW k \in Closers, StopSend(k) PROVE TrackInv'
  BY <1>16 DEF StopSend
<1>17. ASSUME NEW k \in Closers, StopAbandoned(k) PROVE TrackInv'
  BY <1>17 DEF StopAbandoned, StopOver
<1>18. ASSUME NEW k \in Closers, CloseCore(k) PROVE TrackInv'
  BY <1>18 DEF CloseCore
<1>19. ASSUME NEW k \in Closers, CloseReturn(k) PROVE TrackInv'
  BY <1>19 DEF CloseReturn
<1>20. ASSUME NEW k \in Closers, StopAnswered(k) PROVE TrackInv'
  BY <1>20 DEF StopAnswered, StopOver
<1>21. ASSUME NEW k \in Closers, BudgetEnds(k) PROVE TrackInv'
  BY <1>21 DEF BudgetEnds
<1>22. ASSUME NEW k \in Closers, GetLock(k) PROVE TrackInv'
  BY <1>22 DEF GetLock, CloseLock
<1>23. CASE Terminate
  BY <1>23 DEF Terminate
<1>24. CASE CoreEnds
  BY <1>24 DEF CoreEnds
<1>25. CASE ConnectionFails
  BY <1>25 DEF ConnectionFails
<1>26. CASE UNCHANGED vars
  BY <1>26 DEF vars
<1>27. ASSUME NEW k \in Closers, StopGivesUp(k) PROVE TrackInv'
  BY <1>27 DEF StopGivesUp
<1>28. ASSUME NEW k \in Closers, StopFailed(k) PROVE TrackInv'
  BY <1>28 DEF StopFailed, StopOver
<1>29. CASE Run
  BY <1>29, RunMoves
<1> QED
  BY <1>1, <1>2, <1>3, <1>4, <1>5, <1>6, <1>7, <1>8, <1>9, <1>10, <1>11, <1>12, <1>13,
     <1>14, <1>15, <1>16, <1>17, <1>18, <1>19, <1>20, <1>21, <1>22, <1>23, <1>24, <1>25,
     <1>26, <1>27, <1>28, <1>29 DEF Next, Proceed, Close

\* Each step keeps calls away from a closer that is past the mutexes.
LEMMA CloseStep ==
    ASSUME TypeOK, LockInv, CloseInv, HandInv, [Next]_vars
    PROVE  CloseInv'
<1> USE ActorAssumption
    DEF TypeOK, LockInv, Holding, InCall, Actors, Axes, Command, CallerStates, CloserStates,
        Goto, At, Axis, world, closing, wire, InStop, Frames, HandType, CloseInv,
        PastLocks, OneCloserStops
<1>1. ASSUME NEW c \in Callers, Begin(c) PROVE CloseInv'
  BY <1>1 DEF Begin
<1>2. ASSUME NEW c \in Callers, Lock(c) PROVE CloseInv'
  BY <1>2 DEF Lock
<1>3. ASSUME NEW c \in Callers, Refuse(c) PROVE CloseInv'
  BY <1>3 DEF Refuse, Return, Release, NoCommand
<1>4. ASSUME NEW c \in Callers, CheckMove(c) PROVE CloseInv'
  BY <1>4 DEF CheckMove
<1>5. ASSUME NEW c \in Callers, CheckStop(c) PROVE CloseInv'
  BY <1>5 DEF CheckStop
<1>6. ASSUME NEW c \in Callers, Call(c) PROVE CloseInv'
  <2>1. pc[c] = "calling" /\ UNCHANGED closed /\ c \in Actors
    BY <1>6 DEF Call
  <2>2. pc' = [pc EXCEPT ![c] = "writing"] \/ pc' = [pc EXCEPT ![c] = "failing"]
    BY <1>6 DEF Call
  <2>3. /\ \A k \in Closers : pc'[k] = pc[k]
        /\ \A x \in Callers : pc'[x] \in InCall => pc[x] \in InCall
    BY <2>1, <2>2
  <2> QED
    BY <2>1, <2>3
<1>7. ASSUME NEW c \in Callers, GiveUp(c) PROVE CloseInv'
  BY <1>7 DEF GiveUp
<1>8. ASSUME NEW c \in Callers, TimesOut(c) PROVE CloseInv'
  BY <1>8 DEF TimesOut
<1>9. ASSUME NEW c \in Callers, MoveFails(c) PROVE CloseInv'
  BY <1>9 DEF MoveFails, Return, Release, NoCommand
<1>10. ASSUME NEW c \in Callers, StopFails(c) PROVE CloseInv'
  BY <1>10 DEF StopFails, Return, Release, NoCommand
<1>11. ASSUME NEW c \in Callers, Acknowledged(c) PROVE CloseInv'
  BY <1>11 DEF Acknowledged, Return, Release, NoCommand
<1>12. ASSUME NEW c \in Callers, Refused(c) PROVE CloseInv'
  BY <1>12 DEF Refused
<1>13. ASSUME NEW k \in Closers, CloseBegin(k) PROVE CloseInv'
  BY <1>13 DEF CloseBegin
<1>14. ASSUME NEW k \in Closers, MarkClosed(k) PROVE CloseInv'
  <2>1. /\ pc[k] = "marking" /\ k \in Actors
        /\ pc' = [pc EXCEPT ![k] = "skipped"] \/ (pc' = [pc EXCEPT ![k] = "stopping"] /\ ~closed)
        /\ closed'
    BY <1>14 DEF MarkClosed
  <2>2. \A c \in Callers : pc'[c] = pc[c] /\ pc[c] \notin InCall
    <3>1. lock["pan"] = k /\ lock["tilt"] = k
      BY <2>1
    <3> QED
      BY <2>1, <3>1
  <2>3. /\ pc'[k] = "skipped" \/ (pc'[k] = "stopping" /\ ~closed)
        /\ \A j \in Closers : j # k => pc'[j] = pc[j]
    BY <2>1
  <2>4. OneCloserStops'
    BY <2>3
  <2> QED
    BY <2>1, <2>2, <2>4
<1>15. ASSUME NEW k \in Closers, StopCall(k) PROVE CloseInv'
  <2>1. pc[k] = "stopping" /\ UNCHANGED closed /\ k \in Actors
    BY <1>15 DEF StopCall
  <2>2. pc' = [pc EXCEPT ![k] = "sending"] \/ UNCHANGED pc
    BY <1>15 DEF StopCall
  <2>3. /\ \A c \in Callers : pc'[c] = pc[c]
        /\ pc'[k] \in {"sending", "stopping"} /\ \A j \in Closers : j # k => pc'[j] = pc[j]
    BY <2>1, <2>2
  <2>4. \A j \in Closers : PastLocks(j)' => PastLocks(j)
    BY <2>1, <2>3
  <2>5. OneCloserStops'
    BY <2>1, <2>3
  <2> QED
    BY <2>1, <2>3, <2>4, <2>5
<1>16. ASSUME NEW k \in Closers, StopSend(k) PROVE CloseInv'
  BY <1>16 DEF StopSend
<1>17. ASSUME NEW k \in Closers, StopAbandoned(k) PROVE CloseInv'
  BY <1>17 DEF StopAbandoned, StopOver
<1>18. ASSUME NEW k \in Closers, CloseCore(k) PROVE CloseInv'
  BY <1>18 DEF CloseCore
<1>19. ASSUME NEW k \in Closers, CloseReturn(k) PROVE CloseInv'
  BY <1>19 DEF CloseReturn
<1>20. ASSUME NEW k \in Closers, StopAnswered(k) PROVE CloseInv'
  BY <1>20 DEF StopAnswered, StopOver
<1>21. ASSUME NEW k \in Closers, BudgetEnds(k) PROVE CloseInv'
  BY <1>21 DEF BudgetEnds
<1>22. ASSUME NEW k \in Closers, GetLock(k) PROVE CloseInv'
  <2>1. /\ pc' = [pc EXCEPT ![k] = "lockTilt"] \/ pc' = [pc EXCEPT ![k] = "marking"]
        /\ UNCHANGED closed
    BY <1>22 DEF GetLock, CloseLock
  <2>2. \A x \in Actors : x # k => pc'[x] = pc[x]
    BY <2>1
  <2>3. pc'[k] \in {"lockTilt", "marking"}
    BY <2>1
  <2>4. \A j \in Closers : PastLocks(j)' => PastLocks(j) /\ pc'[j] = pc[j]
    BY <2>2, <2>3
  <2>5. OneCloserStops'
    BY <2>2, <2>3
  <2>6. \A c \in Callers : pc'[c] = pc[c]
    BY <2>2
  <2> QED
    BY <2>1, <2>4, <2>5, <2>6
<1>23. CASE Terminate
  BY <1>23 DEF Terminate
<1>24. CASE CoreEnds
  BY <1>24 DEF CoreEnds
<1>25. CASE ConnectionFails
  BY <1>25 DEF ConnectionFails
<1>26. CASE UNCHANGED vars
  BY <1>26 DEF vars
<1>27. ASSUME NEW k \in Closers, StopGivesUp(k) PROVE CloseInv'
  BY <1>27 DEF StopGivesUp
<1>28. ASSUME NEW k \in Closers, StopFailed(k) PROVE CloseInv'
  BY <1>28 DEF StopFailed, StopOver
<1>29. CASE Run
  BY <1>29, RunMoves
<1> QED
  BY <1>1, <1>2, <1>3, <1>4, <1>5, <1>6, <1>7, <1>8, <1>9, <1>10, <1>11, <1>12, <1>13,
     <1>14, <1>15, <1>16, <1>17, <1>18, <1>19, <1>20, <1>21, <1>22, <1>23, <1>24, <1>25,
     <1>26, <1>27, <1>28, <1>29 DEF Next, Proceed, Close

--------------------------------------------------------------------------------
(* Run's hand, and the movements Close stops. *)

\* What a step of an actor leaves to the others.
Apart(x) == pc'[x] = pc[x] /\ AxisOf(x)' = AxisOf(x)

\* No step of an actor that does not wait for a write touches the frame in Run's hand.
LEMMA HandKept ==
    ASSUME TypeOK, HandInv, NEW a, pc[a] # "writing", UNCHANGED hand,
           \A x \in Actors \ {a} : Apart(x)
    PROVE  HandInv'
<1>1. CASE hand.by = None
  BY <1>1 DEF HandInv
<1>2. CASE hand.by # None
  <2>1. hand.by \in Actors \ {a}
    BY <1>2 DEF HandInv, TypeOK
  <2>2. UNCHANGED hand
    OBVIOUS
  <2>3. AxisOf(hand.by)' = AxisOf(hand.by)
    BY <2>1, <2>2 DEF Apart
  <2> QED
    BY <1>2, <2>1, <2>2, <2>3 DEF HandInv, Apart
<1> QED
  BY <1>1, <1>2

\* A call that gives up leaves its frame to nobody.
LEMMA HandOrphaned ==
    ASSUME TypeOK, HandInv, NEW a, a # None, Orphan(a), \A x \in Actors \ {a} : Apart(x)
    PROVE  HandInv'
<1>1. CASE hand.by = a
  <2>1. hand'.by = None
    BY <1>1 DEF Orphan, TypeOK
  <2> QED
    BY <2>1 DEF HandInv
<1>2. CASE hand.by # a
  <2>1. UNCHANGED hand
    BY <1>2 DEF Orphan
  <2>2. CASE hand.by = None
    BY <2>1, <2>2 DEF HandInv
  <2>3. CASE hand.by # None
    <3>1. hand.by \in Actors \ {a}
      BY <1>2, <2>3 DEF TypeOK
    <3>2. AxisOf(hand.by)' = AxisOf(hand.by)
      BY <2>1, <3>1 DEF Apart
    <3> QED
      BY <2>1, <2>3, <3>1, <3>2 DEF HandInv, Apart
  <2> QED
    BY <2>2, <2>3
<1> QED
  BY <1>1, <1>2

\* A caller's step is apart from the other actors, and leaves the closers' affairs alone.
LEMMA CallersApart ==
    ASSUME TypeOK, NEW c \in Callers,
           Begin(c) \/ Lock(c) \/ Proceed(c) \/ Acknowledged(c) \/ Refused(c)
    PROVE  /\ \A x \in Actors \ {c} : Apart(x)
           /\ UNCHANGED <<closed, alive, connected, stops, target, spent, stilled>>
           /\ GiveUp(c) \/ (UNCHANGED hand /\ pc[c] # "writing")
           /\ pc'[c] \in InCall => pc[c] \in InCall \/ ~closed
<1>1. /\ UNCHANGED <<closed, alive, connected, stops, target, spent, stilled>>
      /\ \E s \in CallerStates : pc' = [pc EXCEPT ![c] = s]
      /\ UNCHANGED command \/ \E r : command' = [command EXCEPT ![c] = r]
  BY DEF Proceed, Begin, Lock, Refuse, CheckMove, CheckStop, Call, GiveUp, TimesOut, MoveFails,
         StopFails, Acknowledged, Refused, Return, world, closing, wire, At, Goto, CallerStates,
         InCall
<1>2. \A x \in Actors \ {c} : pc'[x] = pc[x]
  BY <1>1 DEF TypeOK
<1>3. \A x \in Callers \ {c} : command'[x] = command[x]
  BY <1>1 DEF TypeOK
<1>4. \A x \in Actors \ {c} : AxisOf(x)' = AxisOf(x)
  BY <1>1, <1>3 DEF AxisOf, Axis
<1>5. GiveUp(c) \/ (UNCHANGED hand /\ pc[c] # "writing")
  BY DEF Proceed, Begin, Lock, Refuse, CheckMove, CheckStop, Call, TimesOut, MoveFails,
         StopFails, Acknowledged, Refused, wire, At
<1>6. c \in Actors
  BY DEF Actors
<1>7. pc'[c] \in InCall => pc[c] \in InCall \/ ~closed
  BY <1>6 DEF Proceed, Begin, Lock, Refuse, CheckMove, CheckStop, Call, GiveUp, TimesOut, MoveFails,
         StopFails, Acknowledged, Refused, Return, At, Goto, InCall, TypeOK
<1> QED
  BY <1>1, <1>2, <1>4, <1>5, <1>7 DEF Apart

\* A closer's step is apart from the other actors.
LEMMA ClosersApart ==
    ASSUME TypeOK, NEW k \in Closers,
           CloseBegin(k) \/ GetLock(k) \/ Close(k) \/ StopAnswered(k) \/ BudgetEnds(k)
    PROVE  /\ \A x \in Actors \ {k} : Apart(x)
           /\ \A j \in Closers \ {k} : stops'[j] = stops[j] /\ (j \in spent => j \in spent')
           /\ UNCHANGED stilled /\ (closed => closed') /\ (~alive => ~alive')
           /\ ~connected => ~connected'
           /\ \/ StopGivesUp(k) \/ BudgetEnds(k)
              \/ UNCHANGED hand /\ pc[k] # "writing"
<1>1. /\ UNCHANGED pc \/ \E s \in CloserStates : pc' = [pc EXCEPT ![k] = s]
      /\ UNCHANGED target \/ \E a : target' = [target EXCEPT ![k] = a]
      /\ UNCHANGED stops \/ \E f : stops' = [stops EXCEPT ![k] = f]
      /\ spent \subseteq spent' \cup {k}
      /\ UNCHANGED <<command, stilled>>
  <2>1. CASE CloseBegin(k) \/ GetLock(k)
    BY <2>1 DEF CloseBegin, GetLock, CloseLock, closing, wire, Goto, CloserStates
  <2>2. CASE MarkClosed(k)
    BY <2>2 DEF MarkClosed, wire, Goto, CloserStates
  <2>3. CASE StopCall(k)
    BY <2>3 DEF StopCall, wire, Goto, CloserStates, InStop
  <2>4. CASE StopSend(k) \/ StopGivesUp(k)
    BY <2>4 DEF StopSend, StopGivesUp, closing, wire, Goto, CloserStates, InStop
  <2>5. CASE StopAbandoned(k) \/ StopFailed(k) \/ StopAnswered(k)
    BY <2>5 DEF StopAbandoned, StopFailed, StopAnswered, StopOver, wire, Goto, CloserStates
  <2>6. CASE CloseCore(k) \/ CloseReturn(k) \/ BudgetEnds(k)
    BY <2>6 DEF CloseCore, CloseReturn, BudgetEnds, closing, wire, Goto, CloserStates
  <2> QED
    BY <2>1, <2>2, <2>3, <2>4, <2>5, <2>6 DEF Close
<1>2. /\ (closed => closed') /\ (~alive => ~alive') /\ (~connected => ~connected')
      /\ \/ StopGivesUp(k) \/ BudgetEnds(k)
         \/ UNCHANGED hand /\ pc[k] # "writing"
  <2>1. CASE CloseBegin(k) \/ GetLock(k) \/ MarkClosed(k) \/ StopCall(k)
    BY <2>1 DEF CloseBegin, GetLock, CloseLock, MarkClosed, StopCall, world, wire, At
  <2>2. CASE StopSend(k) \/ StopAbandoned(k) \/ StopFailed(k) \/ StopAnswered(k)
    BY <2>2 DEF StopSend, StopAbandoned, StopFailed, StopAnswered, world, wire, At
  <2>3. CASE StopGivesUp(k) \/ BudgetEnds(k)
    BY <2>3 DEF StopGivesUp, BudgetEnds, world
  <2>4. CASE CloseCore(k)
    BY <2>4 DEF CloseCore, wire, At
  <2>5. CASE CloseReturn(k)
    BY <2>5 DEF CloseReturn, wire, At
  <2> QED
    BY <2>1, <2>2, <2>3, <2>4, <2>5 DEF Close
<1>3. \A x \in Actors \ {k} : pc'[x] = pc[x]
  BY <1>1 DEF TypeOK
<1>4. \A j \in Closers \ {k} : target'[j] = target[j] /\ stops'[j] = stops[j]
  BY <1>1 DEF TypeOK
<1>5. \A x \in Actors \ {k} : AxisOf(x)' = AxisOf(x)
  BY <1>1, <1>4 DEF AxisOf, Axis, Actors
<1> QED
  BY <1>1, <1>2, <1>3, <1>4, <1>5 DEF Apart

\* Each step keeps the frame in Run's hand that of the call that waits for it.
LEMMA HandStep ==
    ASSUME TypeOK, HandInv, [Next]_vars
    PROVE  HandInv'
<1>1. ASSUME NEW c \in Callers,
             Begin(c) \/ Lock(c) \/ Proceed(c) \/ Acknowledged(c) \/ Refused(c)
      PROVE  HandInv'
  <2>1. CASE GiveUp(c)
    BY <1>1, <2>1, CallersApart, HandOrphaned, ActorAssumption DEF GiveUp
  <2>2. CASE UNCHANGED hand /\ pc[c] # "writing"
    BY <1>1, <2>2, CallersApart, HandKept
  <2> QED
    BY <1>1, <2>1, <2>2, CallersApart
<1>2. ASSUME NEW k \in Closers,
             CloseBegin(k) \/ GetLock(k) \/ Close(k) \/ StopAnswered(k) \/ BudgetEnds(k)
      PROVE  HandInv'
  <2>1. CASE StopGivesUp(k)
    BY <1>2, <2>1, ClosersApart, HandOrphaned, ActorAssumption DEF StopGivesUp
  <2>2. CASE BudgetEnds(k)
    BY <2>2 DEF BudgetEnds, HandInv, AxisOf, Axis, wire
  <2>3. CASE UNCHANGED hand /\ pc[k] # "writing"
    BY <1>2, <2>3, ClosersApart, HandKept
  <2> QED
    BY <1>2, <2>1, <2>2, <2>3, ClosersApart
<1>3. CASE Terminate \/ CoreEnds \/ ConnectionFails \/ UNCHANGED vars
  BY <1>3 DEF Terminate, CoreEnds, ConnectionFails, vars, closing, wire, HandInv, AxisOf, Axis
<1>4. CASE Written \/ WriteFails \/ Dropped
  BY <1>4 DEF Written, WriteFails, Dropped, Answer, NoFrame, HandInv
<1>5. ASSUME NEW a \in Actors, Take(a) PROVE HandInv'
  <2>1. PICK f \in FramesOf(a) : hand' = [by |-> a, axis |-> AxisOf(a), frame |-> f]
    BY <1>5 DEF Take
  <2>2. f # None /\ (a \in Closers => f = "stop")
    BY ActorAssumption, DirectionAssumption, <1>5 DEF FramesOf, TypeOK, Take, At, InCall
  <2>3. pc'[a] = "writing" /\ AxisOf(a)' = AxisOf(a)
    BY <1>5 DEF Take, At, AxisOf, Axis, closing
  <2> QED
    BY <2>1, <2>2, <2>3 DEF HandInv
<1> QED
  BY <1>1, <1>2, <1>3, <1>4, <1>5 DEF Next, Run

\* Each step keeps moves out of Run's hand once a Close has written a stop.
LEMMA QuietStep ==
    ASSUME TypeOK, CloseInv, HandInv, QuietInv, [Next]_vars
    PROVE  QuietInv'
<1>1. ASSUME NEW c \in Callers,
             Begin(c) \/ Lock(c) \/ Proceed(c) \/ Acknowledged(c) \/ Refused(c)
      PROVE  QuietInv'
  <2> SUFFICES ASSUME stilled' # {}
               PROVE  /\ closed' /\ hand'.frame \in {"stop", None}
                      /\ \A x \in Callers : pc'[x] \notin InCall
    BY DEF QuietInv
  <2>1. /\ closed /\ hand.frame \in {"stop", None}
        /\ \A x \in Callers : pc[x] \notin InCall
    BY <1>1, CallersApart DEF QuietInv
  <2>2. ~GiveUp(c)
    BY <2>1 DEF GiveUp, At, InCall
  <2> QED
    BY <1>1, <2>1, <2>2, CallersApart DEF Apart, Actors
<1>2. ASSUME NEW k \in Closers,
             CloseBegin(k) \/ GetLock(k) \/ Close(k) \/ StopAnswered(k) \/ BudgetEnds(k)
      PROVE  QuietInv'
  <2>1. \A x \in Callers : pc'[x] = pc[x]
    BY <1>2, ClosersApart, ActorAssumption DEF Apart, Actors
  <2>2. hand'.frame = hand.frame
    BY <1>2, ClosersApart DEF StopGivesUp, Orphan, BudgetEnds, wire, TypeOK
  <2> QED
    BY <1>2, <2>1, <2>2, ClosersApart DEF QuietInv
<1>3. CASE Terminate \/ CoreEnds \/ ConnectionFails \/ UNCHANGED vars
  BY <1>3 DEF Terminate, CoreEnds, ConnectionFails, vars, wire, QuietInv
<1>4. CASE Run
  <2>1. UNCHANGED closed /\ \A x \in Callers : pc'[x] \in InCall => pc[x] \in InCall
    BY <1>4, RunMoves DEF Actors, InCall
  <2>2. ASSUME stilled' # {}
        PROVE  closed /\ (\A x \in Callers : pc[x] \notin InCall) /\ hand'.frame \in {"stop", None}
    <3>1. CASE stilled = {}
      <4>1. hand.by \in Closers /\ hand'.frame = None
        BY <1>4, <2>2, <3>1 DEF Run, Written, WriteFails, Dropped, Take, Answer, NoFrame
      <4>2. pc[hand.by] = "writing"
        BY <4>1, ActorAssumption DEF HandInv
      <4> QED
        BY <4>1, <4>2 DEF CloseInv, PastLocks
    <3>2. CASE stilled # {}
      <4>1. CASE Written \/ WriteFails \/ Dropped
        BY <3>2, <4>1 DEF Written, WriteFails, Dropped, Answer, NoFrame, QuietInv
      <4>2. ASSUME NEW a \in Actors, Take(a) PROVE hand'.frame = "stop"
        BY <3>2, <4>2, ActorAssumption DEF Take, At, QuietInv, InCall, FramesOf, Actors
      <4> QED
        BY <1>4, <3>2, <4>1, <4>2 DEF Run, QuietInv
    <3> QED
      BY <3>1, <3>2
  <2> QED
    BY <2>1, <2>2 DEF QuietInv
<1> QED
  BY <1>1, <1>2, <1>3, <1>4 DEF Next

\* Each step keeps what a closer waits for and why its stops fail.
LEMMA StopStep ==
    ASSUME TypeOK, HandInv, StopInv, [Next]_vars
    PROVE  StopInv'
<1> USE DEF At, Goto
<1>1. ASSUME NEW c \in Callers,
             Begin(c) \/ Lock(c) \/ Proceed(c) \/ Acknowledged(c) \/ Refused(c)
      PROVE  StopInv'
  <2>1. \A k \in Closers : pc'[k] = pc[k]
    BY <1>1, CallersApart, ActorAssumption DEF Apart, Actors
  <2> QED
    BY <1>1, <2>1, CallersApart DEF StopInv
<1>2. CASE Terminate \/ CoreEnds \/ ConnectionFails \/ UNCHANGED vars
  BY <1>2 DEF Terminate, CoreEnds, ConnectionFails, vars, closing, wire, world, StopInv
<1>3. ASSUME NEW k \in Closers,
             CloseBegin(k) \/ GetLock(k) \/ Close(k) \/ StopAnswered(k) \/ BudgetEnds(k)
      PROVE  StopInv'
  <2>1. k \in Actors /\ k \notin Callers
    BY ActorAssumption DEF Actors
  <2>2. ASSUME NEW j \in Closers \ {k}
        PROVE  /\ pc'[j] \in {"idle", "lockPan", "lockTilt", "marking"} => stops'[j] = Still
               /\ pc'[j] = "waiting" => target'[j] \in stilled'
               /\ pc'[j] = "failing" => ~alive' \/ j \in spent' \/ ~connected'
    <3>1. j \in Actors \ {k} /\ j \notin Callers
      BY ActorAssumption DEF Actors
    <3>2. pc'[j] = pc[j] /\ target'[j] = target[j]
      BY <1>3, <3>1, ClosersApart DEF Apart, AxisOf
    <3> QED
      BY <1>3, <3>2, ClosersApart DEF StopInv
  <2>3. /\ pc'[k] \in {"idle", "lockPan", "lockTilt", "marking"} => stops'[k] = Still
        /\ pc'[k] = "waiting" => target'[k] \in stilled'
        /\ pc'[k] = "failing" => ~alive' \/ k \in spent' \/ ~connected'
    <3>1. CASE CloseBegin(k) \/ GetLock(k)
      BY <2>1, <3>1 DEF CloseBegin, GetLock, CloseLock, closing, StopInv, TypeOK
    <3>2. CASE MarkClosed(k)
      BY <2>1, <3>2 DEF MarkClosed, TypeOK
    <3>3. CASE StopCall(k)
      BY <2>1, <3>3 DEF StopCall, TypeOK
    <3>4. CASE StopSend(k) \/ StopGivesUp(k)
      BY <2>1, <3>4 DEF StopSend, StopGivesUp, closing, world, TypeOK
    <3>5. CASE StopAbandoned(k) \/ StopFailed(k) \/ StopAnswered(k)
      BY <2>1, <3>5 DEF StopAbandoned, StopFailed, StopAnswered, StopOver, TypeOK
    <3>6. CASE CloseCore(k) \/ CloseReturn(k)
      BY <2>1, <3>6 DEF CloseCore, CloseReturn, TypeOK
    <3>7. CASE BudgetEnds(k)
      BY <2>1, <3>7 DEF BudgetEnds, wire, world, StopInv
    <3> QED
      BY <1>3, <3>1, <3>2, <3>3, <3>4, <3>5, <3>6, <3>7 DEF Close
  <2> QED
    BY <2>2, <2>3 DEF StopInv
<1>4. CASE Run
  <2> SUFFICES ASSUME NEW k \in Closers
               PROVE  /\ pc'[k] \in {"idle", "lockPan", "lockTilt", "marking"} => stops'[k] = Still
                      /\ pc'[k] = "waiting" => target'[k] \in stilled'
                      /\ pc'[k] = "failing" => ~alive' \/ k \in spent' \/ ~connected'
    BY DEF StopInv
  <2>1. /\ UNCHANGED <<stops, target, alive, spent>> /\ stilled \subseteq stilled'
        /\ ~connected => ~connected'
    <3>1. CASE Written \/ Dropped
      BY <1>4, <3>1, RunMoves DEF Written, Dropped, world
    <3>2. CASE WriteFails
      BY <1>4, <3>2, RunMoves DEF WriteFails
    <3>3. CASE \E a \in Actors : Take(a)
      BY <1>4, <3>3, RunMoves DEF Take, world
    <3> QED
      BY <1>4, <3>1, <3>2, <3>3 DEF Run
  <2>2. CASE pc'[k] = pc[k]
    BY <2>1, <2>2 DEF StopInv
  <2>3. CASE pc'[k] # pc[k]
    <3>1. hand.by = k /\ (Written \/ WriteFails)
      BY <1>4, <2>3 DEF Run, Written, WriteFails, Dropped, Take, Answer, TypeOK, Actors
    <3>2. k \in Actors /\ k \notin Callers /\ k # None
      BY ActorAssumption DEF Actors
    <3>3. hand.axis = target[k]
      BY <3>1, <3>2 DEF HandInv, AxisOf
    <3>4. CASE Written
      BY <2>1, <3>1, <3>2, <3>3, <3>4 DEF Written, Answer, TypeOK
    <3>5. CASE WriteFails
      BY <3>1, <3>2, <3>5 DEF WriteFails, Answer, TypeOK
    <3> QED
      BY <3>1, <3>4, <3>5
  <2> QED
    BY <2>2, <2>3
<1> QED
  BY <1>1, <1>2, <1>3, <1>4 DEF Next

--------------------------------------------------------------------------------
(* The theorems. *)

\* The inductive invariant.
THEOREM PtzInvariant == Spec => []IInv
<1>1. Init => IInv
  <2> SUFFICES ASSUME Init PROVE IInv
    OBVIOUS
  <2>1. TypeOK
    BY InitTypes
  <2>2. LockInv
    BY ActorAssumption DEF Init, LockInv, Holding, InCall, Still, Actors, Axes
  <2>3. TrackInv
    BY DEF Init, TrackInv, InCall, Still, Axes, Actors
  <2>4. CloseInv
    BY DEF Init, CloseInv, PastLocks, OneCloserStops, Actors, InStop
  <2>5. HandInv /\ QuietInv /\ StopInv
    BY DEF Init, HandInv, QuietInv, StopInv, NoFrame, Actors
  <2> QED
    BY <2>1, <2>2, <2>3, <2>4, <2>5 DEF IInv
<1>2. IInv /\ [Next]_vars => IInv'
  BY TypeStep, LockStep, TrackStep, CloseStep, HandStep, QuietStep, StopStep DEF IInv
<1> QED
  BY <1>1, <1>2, PTL DEF Spec

\* Every variable keeps its type, and a command that is called has a direction.
THEOREM TypeCorrect == Spec => []TypeOK
<1>1. IInv => TypeOK
  BY DEF IInv
<1> QED
  BY <1>1, PtzInvariant, PTL

\* device_session.go:400-466: on a free axis of an open session, StopPTZ and Close find
\* the movement the camera last acknowledged, for any number of racing callers.
THEOREM MovementTracked == Spec => []AcknowledgedTracked
<1>1. IInv => AcknowledgedTracked
  BY ActorAssumption DEF IInv, LockInv, TrackInv, AcknowledgedTracked
<1> QED
  BY <1>1, PtzInvariant, PTL

\* device_session.go:524-532: of several calls of Close one stops the movements.
THEOREM OneCloserAlways == Spec => []OneCloserStops
<1>1. IInv => OneCloserStops
  BY DEF IInv, CloseInv
<1> QED
  BY <1>1, PtzInvariant, PTL

\* device_session.go:520-556 with writer.go:101-125: after a stop that Close has written, Run
\* has no move of that axis to write, whatever was cancelled with its frame already picked.
THEOREM StopsLast == Spec => []StopIsLast
<1>1. IInv => StopIsLast
  BY DEF IInv, QuietInv, StopIsLast
<1> QED
  BY <1>1, PtzInvariant, PTL

\* device_session.go:546-566: within its two seconds, on a living session and connection and
\* unless the writer's queue was full, Close is done with a movement only after it has written
\* the stop.
THEOREM StopsInTime == Spec => CloseStopsInTime
<1> DEFINE InTime == \A k \in Closers \ spent, a \in Axes :
               stops[k][a] # None /\ stops'[k][a] = None /\ pc[k] # "refused" /\ alive /\ connected
                  => a \in stilled
<1>1. IInv /\ [Next]_vars => [InTime]_vars
  <2> SUFFICES ASSUME IInv, Next, NEW k \in Closers \ spent, NEW a \in Axes,
                      stops[k][a] # None, stops'[k][a] = None, pc[k] # "refused",
                      alive, connected
               PROVE  a \in stilled
    OBVIOUS
  <2> USE DEF At, Goto, IInv, TypeOK
  <2>1. ASSUME UNCHANGED stops PROVE FALSE
    BY <2>1
  <2>2. ASSUME NEW j \in Closers, StopOver(j), pc[j] \in {"waiting", "failing", "refused"}
        PROVE  a \in stilled
    <3>1. stops' = [stops EXCEPT ![j][target[j]] = None]
      BY <2>2 DEF StopOver
    <3>2. j = k /\ a = target[k]
      BY <3>1
    <3>3. pc[k] = "waiting"
      BY <2>2, <3>2 DEF StopInv
    <3> QED
      BY <3>2, <3>3 DEF StopInv
  <2>3. ASSUME NEW j \in Closers, MarkClosed(j) PROVE FALSE
    <3>1. stops[k] # Still
      BY DEF Still
    <3>2. j # k
      BY <2>3, <3>1 DEF MarkClosed, StopInv
    <3> QED
      BY <2>3, <3>2 DEF MarkClosed
  <2>4. ASSUME NEW j \in Closers, StopCall(j) PROVE FALSE
    <3>1. PICK x \in Axes : stops' = [stops EXCEPT ![j][x] = None] /\ (~alive \/ j \in spent)
      BY <2>1, <2>4 DEF StopCall
    <3> QED
      BY <3>1
  <2>5. ASSUME NEW j \in Closers, StopAbandoned(j) \/ StopAnswered(j) \/ StopFailed(j)
        PROVE  a \in stilled
    BY <2>2, <2>5 DEF StopAbandoned, StopAnswered, StopFailed
  <2>6. ~Run
    BY <2>1, RunMoves
  <2>7. \E j \in Closers : MarkClosed(j) \/ StopCall(j) \/ StopAbandoned(j)
                           \/ StopAnswered(j) \/ StopFailed(j)
    BY <2>1, <2>6 DEF Next, Proceed, Close, GetLock, CloseLock, closing, Begin, Lock, Refuse,
       CheckMove, CheckStop, Call, GiveUp, TimesOut, MoveFails, StopFails, Acknowledged, Refused,
       CloseBegin, StopSend, StopGivesUp, CloseCore, CloseReturn, BudgetEnds, Terminate, CoreEnds,
       ConnectionFails
  <2> QED
    BY <2>3, <2>4, <2>5, <2>7
<1> QED
  BY <1>1, PtzInvariant, PTL DEF Spec, CloseStopsInTime
================================================================================
