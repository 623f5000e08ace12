-------------------------- MODULE DeviceHandoverProofs --------------------------
(***************************************************************************)
(* Theorems about DeviceHandover, for any capacities and any number of     *)
(* messages.  The inductive invariant says how far StartDeviceSession has  *)
(* come from what the others can see: nobody but the starter acts on a     *)
(* session before it is registered.                                        *)
(***************************************************************************)
EXTENDS DeviceHandover, TLAPS

\* The parts of TypeOK: the flags, the data and the program counters.
Flags == /\ closed \in BOOLEAN /\ done \in BOOLEAN /\ broken \in BOOLEAN
         /\ pending \in BOOLEAN /\ registered \in BOOLEAN /\ marked \in BOOLEAN
         /\ announced \in BOOLEAN /\ ctxEnded \in BOOLEAN
Data  == /\ queue \in Seq(Kinds) /\ Len(queue) <= QueueCapacity
         /\ core \in {"none", "open", "ended"} /\ unread \in 0..EventCapacity
         /\ progress \in {"none", "created"}
         /\ message \in Kinds /\ read \in 0..Len(Dialog) /\ extra \in 0..MessageLimit

\* Where the starter has no core yet, and where it has registered nothing.
BeforeCreate == {"idle", "offer", "await", "create"}
Unregistered == BeforeCreate \cup {"activate", "starting", "register", "terminating",
                                   "startKill", "cleanup", "failed"}
Registered   == {"draining", "drainMark", "drainKill", "returned"}

\* What another goroutine does to a session it has found registered.
Touching == Killing \cup {"handling", "mark", "failMark", "closeMark", "closeRemove",
                          "closeAnnounce"}

\* How far the start has come decides what exists.
StartInv ==
    /\ pc["Starter"] \in Unregistered
          => ~registered /\ \A a \in Actors \ {"Starter"} : pc[a] \notin Touching
    /\ pc["Starter"] \in BeforeCreate => core = "none"
    /\ core = "none" => /\ ~marked /\ pc["Watcher"] = "none"
                        /\ pc["Starter"] \in BeforeCreate \cup {"cleanup", "failed"}
    /\ pc["Starter"] \in {"idle", "failed"} => ~pending
    /\ pc["Starter"] \in {"cleanup", "failed"} /\ core = "open" => ctxEnded

\* A mark on the session, and the end of the connection, are on their way to the core.
EndInv ==
    /\ pc["Starter"] \in Registered => registered \/ marked
    /\ pc["Starter"] \in Registered /\ closed
          => marked \/ \E a \in Actors : pc[a] \in {"failMark", "closeMark"}
    /\ pc["Watcher"] = "marking" => core = "ended" \/ ctxEnded
    /\ pc["Watcher"] \in {"removing", "announcing", "gone"} => marked
    /\ \A a \in Actors : pc[a] \in Killing \cup {"closeRemove", "closeAnnounce"} => marked
    /\ marked /\ core = "open" => ctxEnded \/ \E a \in Actors : pc[a] \in Killing

IInv == TypeOK /\ StartInv /\ EndInv

--------------------------------------------------------------------------------

\* One goroutine's step to a state of the program.
LEMMA PcType ==
    ASSUME TypeOK, NEW a \in Actors, NEW s \in States, Goto(a, s)
    PROVE  pc' \in [Actors -> States]
BY DEF TypeOK, Goto

\* TypeOK and its parts.
LEMMA TypeParts == /\ TypeOK <=> Flags /\ Data /\ pc \in [Actors -> States]
                   /\ TypeOK' <=> Flags' /\ Data' /\ pc' \in [Actors -> States]
BY DEF TypeOK, Flags, Data

\* Each step keeps the types.
LEMMA TypeStep ==
    ASSUME TypeOK, [Next]_vars
    PROVE  TypeOK'
<1> USE CapacityAssumption DEF TypeOK, Actors, Kinds, At, connection, registry, session,
       input
<1>1. CASE Prepare
  <2>1. \E s \in States : Goto("Starter", s)
    BY <1>1 DEF Prepare, States
  <2>2. pc' \in [Actors -> States]
    BY <2>1, PcType
  <2>3. Flags'
    BY <1>1, Zenon DEF Prepare, Flags
  <2>4. Data'
    BY <1>1 DEF Prepare, Data
  <2> QED
    BY <2>2, <2>3, <2>4, TypeParts
<1>2. CASE Offer
  BY <1>2 DEF Offer, Goto, States
<1>3. CASE AwaitMessage
  BY <1>3 DEF AwaitMessage, Goto, States
<1>4. CASE AwaitEnds
  BY <1>4 DEF AwaitEnds, Goto, States
<1>5. CASE Create
  BY <1>5 DEF Create, Goto, States
<1>6. CASE Activate
  BY <1>6 DEF Activate, Goto, States
<1>7. CASE StartingMessage
  BY <1>7 DEF StartingMessage, Accepts, Goto, States
<1>8. CASE StartingEnds
  BY <1>8 DEF StartingEnds, Goto, States
<1>9. CASE Register
  <2>1. \E s \in States : Goto("Starter", s)
    BY <1>9 DEF Register, States
  <2>2. pc' \in [Actors -> States]
    BY <2>1, PcType
  <2>3. Flags'
    BY <1>9, Zenon DEF Register, Flags
  <2>4. Data'
    BY <1>9 DEF Register, Data
  <2> QED
    BY <2>2, <2>3, <2>4, TypeParts
<1>10. CASE Drain
  <2>1. \E s \in States : Goto("Starter", s)
    BY <1>10 DEF Drain, Deliver, Accepts, States
  <2>2. pc' \in [Actors -> States]
    BY <2>1, PcType
  <2>3. Flags'
    BY <1>10, Zenon DEF Drain, Deliver, Accepts, Flags
  <2>4. Data'
    <3>1. queue' \in Seq(Kinds) /\ Len(queue') <= QueueCapacity
      <4>1. queue' = queue \/ (queue # <<>> /\ queue' = Tail(queue))
        BY <1>10 DEF Drain
      <4>2. queue \in Seq(Kinds) /\ Len(queue) <= QueueCapacity
        OBVIOUS
      <4> QED BY <4>1, <4>2
    <3>2. unread' \in 0..EventCapacity
      BY <1>10 DEF Drain, Deliver, Accepts
    <3>3. UNCHANGED <<core, progress, message, read, extra>>
      BY <1>10 DEF Drain
    <3> QED BY <3>1, <3>2, <3>3 DEF Data
  <2> QED
    BY <2>2, <2>3, <2>4, TypeParts
<1>11. CASE DrainTerminate
  <2>1. \E s \in States : Goto("Starter", s)
    BY <1>11 DEF DrainTerminate, Mark, EndCore, States
  <2>2. pc' \in [Actors -> States]
    BY <2>1, PcType
  <2>3. Flags'
    BY <1>11, Zenon DEF DrainTerminate, Mark, EndCore, Flags
  <2>4. Data'
    BY <1>11 DEF DrainTerminate, Mark, EndCore, Data
  <2> QED
    BY <2>2, <2>3, <2>4, TypeParts
<1>12. CASE StartTerminate
  <2>1. \E s \in States : Goto("Starter", s)
    BY <1>12 DEF StartTerminate, Mark, EndCore, States
  <2>2. pc' \in [Actors -> States]
    BY <2>1, PcType
  <2>3. Flags'
    BY <1>12, Zenon DEF StartTerminate, Mark, EndCore, Flags
  <2>4. Data'
    BY <1>12 DEF StartTerminate, Mark, EndCore, Data
  <2> QED
    BY <2>2, <2>3, <2>4, TypeParts
<1>13. CASE Cleanup
  <2>1. \E s \in States : Goto("Starter", s)
    BY <1>13 DEF Cleanup, States
  <2>2. pc' \in [Actors -> States]
    BY <2>1, PcType
  <2>3. Flags'
    BY <1>13, Zenon DEF Cleanup, Flags
  <2>4. Data'
    BY <1>13 DEF Cleanup, Data
  <2> QED
    BY <2>2, <2>3, <2>4, TypeParts
<1>14. CASE OwnerCloses
  BY <1>14 DEF OwnerCloses, Goto, States
<1>15. CASE Route
  <2>1. \E s \in States : Goto("Reader", s)
    BY <1>15 DEF Route, States
  <2>2. pc' \in [Actors -> States]
    BY <2>1, PcType
  <2>3. Flags'
    BY <1>15, Zenon DEF Route, Flags
  <2>4. Data'
    <3>1. UNCHANGED <<queue, core, unread, progress>>
      BY <1>15 DEF Route
    <3>2. read' \in 0..Len(Dialog) /\ extra' \in 0..MessageLimit
      BY <1>15 DEF Route, Dialog
    <3>3. message' \in Kinds
      <4>1. CASE message' \in Kinds
        BY <4>1
      <4>2. CASE read < Len(Dialog) /\ read' = read + 1 /\ message' = Dialog[read']
        BY <4>2 DEF Dialog
      <4> QED BY <1>15, <4>1, <4>2 DEF Route
    <3> QED BY <3>1, <3>2, <3>3 DEF Data
  <2> QED
    BY <2>2, <2>3, <2>4, TypeParts
<1>16. CASE Push
  <2>1. \E s \in States : Goto("Reader", s)
    BY <1>16 DEF Push, Routed, States
  <2>2. pc' \in [Actors -> States]
    BY <2>1, PcType
  <2>3. Flags'
    BY <1>16, Zenon DEF Push, Routed, Flags
  <2>4. Data'
    BY <1>16 DEF Push, Routed, Data
  <2> QED
    BY <2>2, <2>3, <2>4, TypeParts
<1>17. CASE ReaderHandles
  <2>1. \E s \in States : Goto("Reader", s)
    BY <1>17 DEF ReaderHandles, Deliver, Accepts, Routed, States
  <2>2. pc' \in [Actors -> States]
    BY <2>1, PcType
  <2>3. Flags'
    BY <1>17, Zenon DEF ReaderHandles, Deliver, Accepts, Routed, Flags
  <2>4. Data'
    <3>1. unread' \in 0..EventCapacity
      BY <1>17 DEF ReaderHandles, Deliver, Accepts
    <3>2. /\ message' \in Kinds
          /\ UNCHANGED <<queue, core, progress, read, extra>>
      BY <1>17 DEF ReaderHandles, Routed
    <3> QED BY <3>1, <3>2 DEF Data
  <2> QED
    BY <2>2, <2>3, <2>4, TypeParts
<1>18. CASE ReaderTerminate
  <2>1. \E s \in States : Goto("Reader", s)
    BY <1>18 DEF ReaderTerminate, Mark, EndCore, States
  <2>2. pc' \in [Actors -> States]
    BY <2>1, PcType
  <2>3. Flags'
    BY <1>18, Zenon DEF ReaderTerminate, Mark, EndCore, Flags
  <2>4. Data'
    BY <1>18 DEF ReaderTerminate, Mark, EndCore, Data
  <2> QED
    BY <2>2, <2>3, <2>4, TypeParts
<1>19. CASE ReadFails
  BY <1>19 DEF ReadFails, Goto, States
<1>20. CASE Watch
  <2>1. \E s \in States : Goto("Watcher", s)
    BY <1>20 DEF Watch, States
  <2>2. pc' \in [Actors -> States]
    BY <2>1, PcType
  <2>3. Flags'
    BY <1>20, Zenon DEF Watch, Flags
  <2>4. Data'
    BY <1>20 DEF Watch, Data
  <2> QED
    BY <2>2, <2>3, <2>4, TypeParts
<1>21. CASE CloseBegin
  <2>1. \E s \in States : Goto("Closer", s)
    BY <1>21 DEF CloseBegin, States
  <2>2. pc' \in [Actors -> States]
    BY <2>1, PcType
  <2>3. Flags'
    BY <1>21, Zenon DEF CloseBegin, Flags
  <2>4. Data'
    BY <1>21 DEF CloseBegin, Data
  <2> QED
    BY <2>2, <2>3, <2>4, TypeParts
<1>22. CASE CloseDone
  BY <1>22 DEF CloseDone, Goto, States
<1>23. CASE CloseHangUp
  BY <1>23 DEF CloseHangUp, Goto, States
<1>24. CASE CloseJoin
  BY <1>24 DEF CloseJoin, Goto, States
<1>25. CASE CoreEnds
  BY <1>25 DEF CoreEnds, Goto, States
<1>26. CASE ContextEnds
  BY <1>26 DEF ContextEnds, Goto, States
<1>28. CASE Receive
  BY <1>28 DEF Receive, Goto, States
<1>29. CASE CloseSession("Starter", "done")
  <2>1. \E s \in States : Goto("Starter", s)
    BY <1>29 DEF CloseSession, Mark, EndCore, States
  <2>2. pc' \in [Actors -> States]
    BY <2>1, PcType
  <2>3. Flags'
    BY <1>29, Zenon DEF CloseSession, Mark, EndCore, Flags
  <2>4. Data'
    BY <1>29 DEF CloseSession, Mark, EndCore, Data
  <2> QED
    BY <2>2, <2>3, <2>4, TypeParts
<1>30. CASE CloseSession("Closer", "closeDone")
  <2>1. \E s \in States : Goto("Closer", s)
    BY <1>30 DEF CloseSession, Mark, EndCore, States
  <2>2. pc' \in [Actors -> States]
    BY <2>1, PcType
  <2>3. Flags'
    BY <1>30, Zenon DEF CloseSession, Mark, EndCore, Flags
  <2>4. Data'
    BY <1>30 DEF CloseSession, Mark, EndCore, Data
  <2> QED
    BY <2>2, <2>3, <2>4, TypeParts
<1>31. ASSUME NEW a \in {"Reader", "Failer"}, FailBegin(a) PROVE TypeOK'
  <2>1. \E s \in States : Goto(a, s)
    BY <1>31 DEF FailBegin, States
  <2>2. pc' \in [Actors -> States]
    BY <2>1, PcType
  <2>3. Flags'
    BY <1>31, Zenon DEF FailBegin, Flags
  <2>4. Data'
    BY <1>31 DEF FailBegin, Data
  <2> QED
    BY <2>2, <2>3, <2>4, TypeParts
<1>32. ASSUME NEW a \in {"Reader", "Failer"}, FailTerminate(a) PROVE TypeOK'
  <2>1. \E s \in States : Goto(a, s)
    BY <1>32 DEF FailTerminate, Mark, EndCore, States
  <2>2. pc' \in [Actors -> States]
    BY <2>1, PcType
  <2>3. Flags'
    BY <1>32, Zenon DEF FailTerminate, Mark, EndCore, Flags
  <2>4. Data'
    BY <1>32 DEF FailTerminate, Mark, EndCore, Data
  <2> QED
    BY <2>2, <2>3, <2>4, TypeParts
<1>33. ASSUME NEW a \in {"Reader", "Failer"}, HangUp(a) PROVE TypeOK'
  BY <1>33 DEF HangUp, Goto, States
<1>34. CASE UNCHANGED vars
  BY <1>34 DEF vars
<1> QED
  BY <1>1, <1>2, <1>3, <1>4, <1>5, <1>6, <1>7, <1>8, <1>9, <1>10, <1>11, <1>12, <1>13,
     <1>14, <1>15, <1>16, <1>17, <1>18, <1>19, <1>20, <1>21, <1>22, <1>23, <1>24, <1>25,
     <1>26, <1>28, <1>29, <1>30, <1>31, <1>32, <1>33, <1>34 DEF Next, Start, Owner,
     Reader, Closer, Fail

\* Nobody touches a session before it is registered.
LEMMA StartStep ==
    ASSUME TypeOK, StartInv, EndInv, [Next]_vars
    PROVE  StartInv'
<1> USE DEF TypeOK, Actors, Goto, At, connection, registry, session, input, StartInv,
       BeforeCreate, Unregistered, Touching, Killing
<1>1. CASE Prepare
  BY <1>1 DEF Prepare
<1>2. CASE Offer
  BY <1>2 DEF Offer
<1>3. CASE AwaitMessage
  BY <1>3 DEF AwaitMessage
<1>4. CASE AwaitEnds
  BY <1>4 DEF AwaitEnds
<1>5. CASE Create
  BY <1>5 DEF Create
<1>6. CASE Activate
  BY <1>6 DEF Activate
<1>7. CASE StartingMessage
  BY <1>7 DEF StartingMessage, Accepts
<1>8. CASE StartingEnds
  BY <1>8 DEF StartingEnds
<1>9. CASE Register
  BY <1>9 DEF Register
<1>10. CASE Drain
  BY <1>10 DEF Drain, Deliver, Accepts
<1>11. CASE DrainTerminate
  BY <1>11 DEF DrainTerminate, Mark, EndCore
<1>12. CASE StartTerminate
  <2>1. CASE At("Starter", "terminating") /\ marked
    <3>1. core = "open" => ctxEnded
      BY <2>1 DEF EndInv
    <3> QED
      BY <1>12, <2>1, <3>1 DEF StartTerminate, Mark, EndCore
  <2>2. CASE ~(At("Starter", "terminating") /\ marked)
    BY <1>12, <2>2 DEF StartTerminate, Mark, EndCore
  <2> QED
    BY <2>1, <2>2
<1>13. CASE Cleanup
  BY <1>13 DEF Cleanup
<1>14. CASE OwnerCloses
  BY <1>14 DEF OwnerCloses
<1>15. CASE Route
  BY <1>15 DEF Route
<1>16. CASE Push
  BY <1>16 DEF Push
<1>17. CASE ReaderHandles
  BY <1>17 DEF ReaderHandles, Deliver, Accepts
<1>18. CASE ReaderTerminate
  BY <1>18 DEF ReaderTerminate, Mark, EndCore
<1>19. CASE ReadFails
  BY <1>19 DEF ReadFails
<1>20. CASE Watch
  BY <1>20 DEF Watch
<1>21. CASE CloseBegin
  BY <1>21 DEF CloseBegin
<1>22. CASE CloseDone
  BY <1>22 DEF CloseDone
<1>23. CASE CloseHangUp
  BY <1>23 DEF CloseHangUp
<1>24. CASE CloseJoin
  BY <1>24 DEF CloseJoin
<1>25. CASE CoreEnds
  BY <1>25 DEF CoreEnds
<1>26. CASE ContextEnds
  BY <1>26 DEF ContextEnds
<1>28. CASE Receive
  BY <1>28 DEF Receive
<1>29. CASE CloseSession("Starter", "done")
  BY <1>29 DEF CloseSession, Mark, EndCore
<1>30. CASE CloseSession("Closer", "closeDone")
  BY <1>30 DEF CloseSession, Mark, EndCore
<1>31. ASSUME NEW a \in {"Reader", "Failer"}, FailBegin(a) PROVE StartInv'
  BY <1>31 DEF FailBegin
<1>32. ASSUME NEW a \in {"Reader", "Failer"}, FailTerminate(a) PROVE StartInv'
  BY <1>32 DEF FailTerminate, Mark, EndCore
<1>33. ASSUME NEW a \in {"Reader", "Failer"}, HangUp(a) PROVE StartInv'
  BY <1>33 DEF HangUp
<1>34. CASE UNCHANGED vars
  BY <1>34 DEF vars
<1> QED
  BY <1>1, <1>2, <1>3, <1>4, <1>5, <1>6, <1>7, <1>8, <1>9, <1>10, <1>11, <1>12, <1>13,
     <1>14, <1>15, <1>16, <1>17, <1>18, <1>19, <1>20, <1>21, <1>22, <1>23, <1>24, <1>25,
     <1>26, <1>28, <1>29, <1>30, <1>31, <1>32, <1>33, <1>34 DEF Next, Start, Owner,
     Reader, Closer, Fail

\* The end of the connection or of the core is passed on.
LEMMA EndStep ==
    ASSUME TypeOK, StartInv, EndInv, [Next]_vars
    PROVE  EndInv'
<1> USE DEF TypeOK, Actors, Goto, At, connection, registry, session, input, StartInv,
       EndInv, BeforeCreate, Unregistered, Registered, Touching, Killing
<1>1. CASE Prepare
  BY <1>1 DEF Prepare
<1>2. CASE Offer
  BY <1>2 DEF Offer
<1>3. CASE AwaitMessage
  BY <1>3 DEF AwaitMessage
<1>4. CASE AwaitEnds
  BY <1>4 DEF AwaitEnds
<1>5. CASE Create
  BY <1>5 DEF Create
<1>6. CASE Activate
  BY <1>6 DEF Activate
<1>7. CASE StartingMessage
  BY <1>7 DEF StartingMessage, Accepts
<1>8. CASE StartingEnds
  BY <1>8 DEF StartingEnds
<1>9. CASE Register
  BY <1>9 DEF Register
<1>10. CASE Drain
  BY <1>10 DEF Drain, Deliver, Accepts
<1>11. CASE DrainTerminate
  BY <1>11 DEF DrainTerminate, Mark, EndCore
<1>12. CASE StartTerminate
  BY <1>12 DEF StartTerminate, Mark, EndCore
<1>13. CASE Cleanup
  BY <1>13 DEF Cleanup
<1>14. CASE OwnerCloses
  BY <1>14 DEF OwnerCloses
<1>15. CASE Route
  BY <1>15 DEF Route
<1>16. CASE Push
  BY <1>16 DEF Push
<1>17. CASE ReaderHandles
  BY <1>17 DEF ReaderHandles, Deliver, Accepts
<1>18. CASE ReaderTerminate
  BY <1>18 DEF ReaderTerminate, Mark, EndCore
<1>19. CASE ReadFails
  BY <1>19 DEF ReadFails
<1>20. CASE Watch
  BY <1>20 DEF Watch
<1>21. CASE CloseBegin
  BY <1>21 DEF CloseBegin
<1>22. CASE CloseDone
  BY <1>22 DEF CloseDone
<1>23. CASE CloseHangUp
  BY <1>23 DEF CloseHangUp
<1>24. CASE CloseJoin
  BY <1>24 DEF CloseJoin
<1>25. CASE CoreEnds
  BY <1>25 DEF CoreEnds
<1>26. CASE ContextEnds
  BY <1>26 DEF ContextEnds
<1>28. CASE Receive
  BY <1>28 DEF Receive
<1>29. CASE CloseSession("Starter", "done")
  BY <1>29 DEF CloseSession, Mark, EndCore
<1>30. CASE CloseSession("Closer", "closeDone")
  BY <1>30 DEF CloseSession, Mark, EndCore
<1>31. ASSUME NEW a \in {"Reader", "Failer"}, FailBegin(a) PROVE EndInv'
  BY <1>31 DEF FailBegin
<1>32. ASSUME NEW a \in {"Reader", "Failer"}, FailTerminate(a) PROVE EndInv'
  BY <1>32 DEF FailTerminate, Mark, EndCore
<1>33. ASSUME NEW a \in {"Reader", "Failer"}, HangUp(a) PROVE EndInv'
  BY <1>33 DEF HangUp
<1>34. CASE UNCHANGED vars
  BY <1>34 DEF vars
<1> QED
  BY <1>1, <1>2, <1>3, <1>4, <1>5, <1>6, <1>7, <1>8, <1>9, <1>10, <1>11, <1>12, <1>13,
     <1>14, <1>15, <1>16, <1>17, <1>18, <1>19, <1>20, <1>21, <1>22, <1>23, <1>24, <1>25,
     <1>26, <1>28, <1>29, <1>30, <1>31, <1>32, <1>33, <1>34 DEF Next, Start, Owner,
     Reader, Closer, Fail

\* The inductive invariant.
THEOREM HandoverInvariant == Spec => []IInv
<1>1. Init => IInv
  <2> SUFFICES ASSUME Init PROVE IInv
    OBVIOUS
  <2>1. pc["Starter"] = "idle" /\ pc["Reader"] = "reading" /\ pc["Watcher"] = "none"
        /\ pc["Failer"] = "idle" /\ pc["Closer"] = "idle" /\ pc \in [Actors -> States]
    BY DEF Init, Actors, States
  <2>2. Flags /\ Data
    <3>1. Flags
      BY Zenon DEF Init, Flags
    <3>2. queue \in Seq(Kinds) /\ Len(queue) = 0
      BY DEF Init
    <3>3. Data
      BY <3>2, CapacityAssumption DEF Init, Data, Kinds
    <3> QED
      BY <3>1, <3>3
  <2>3. StartInv
    BY <2>1 DEF Init, StartInv, BeforeCreate, Unregistered, Touching, Killing, Actors
  <2>4. EndInv
    BY <2>1 DEF Init, EndInv, Registered, Killing, Actors
  <2> QED
    BY <2>1, <2>2, <2>3, <2>4, TypeParts DEF IInv
<1>2. IInv /\ [Next]_vars => IInv'
  BY TypeStep, StartStep, EndStep DEF IInv
<1> QED
  BY <1>1, <1>2, PTL DEF Spec

\* Every variable keeps its type and the queues keep their capacities (live_negotiation.go,
\* signaling_connection.go:48).
THEOREM TypeCorrect == Spec => []TypeOK
<1>1. IInv => TypeOK
  BY DEF IInv
<1> QED
  BY <1>1, HandoverInvariant, PTL

\* signaling_connection.go:89-133 and device_session_start.go:268-278: fail and Close reach
\* a session that is registered while they run, and whoever marks a session ends its core.
THEOREM EndAlwaysReachesSession == Spec => []EndReachesSession
<1>1. IInv => EndReachesSession
  BY DEF IInv, EndInv, EndReachesSession, Registered
<1> QED
  BY <1>1, HandoverInvariant, PTL

\* device_session_start.go:108-138: no failed start leaves an entry or a living core.
THEOREM FailedStartClean == Spec => []FailedStartLeavesNothing
<1>1. IInv => FailedStartLeavesNothing
  BY DEF IInv, StartInv, FailedStartLeavesNothing, Unregistered
<1> QED
  BY <1>1, HandoverInvariant, PTL

--------------------------------------------------------------------------------
(* The message that comes too late. *)

\* Registration takes the dialog from pending, so that route gives the starter no more.
LateInv == /\ pc["Starter"] \in Registered => ~pending
           /\ OneLateMessage

\* Each step keeps a returned start from getting a second late message.
LEMMA LateStep ==
    ASSUME TypeOK, LateInv, [Next]_vars
    PROVE  LateInv'
<1> USE DEF TypeOK, Actors, Goto, At, connection, registry, session, input, LateInv, Registered,
       OneLateMessage
<1>1. ASSUME UNCHANGED <<pc, queue>>, pending' => pending
      PROVE  LateInv'
  BY <1>1
<1>2. CASE CoreEnds \/ ContextEnds \/ Receive \/ UNCHANGED vars
  BY <1>1, <1>2 DEF CoreEnds, ContextEnds, Receive, vars
<1>3. ASSUME NEW s \in States, Goto("Starter", s), s \notin Registered
      PROVE  LateInv'
  BY <1>3
<1>4. ASSUME NEW s \in States, Goto("Starter", s), s # "returned", UNCHANGED pending,
             pc["Starter"] \in Registered
      PROVE  LateInv'
  BY <1>4
<1>5. CASE Register
  BY <1>5 DEF Register
<1>6. CASE Drain
  <2>1. CASE queue = <<>> /\ Goto("Starter", "returned") /\ UNCHANGED queue
    <3>1. Len(queue) = 0
      BY <2>1
    <3> QED
      BY <1>6, <2>1, <3>1 DEF Drain
  <2>2. CASE queue # <<>>
    BY <1>6, <2>2 DEF Drain, Deliver
  <2> QED
    BY <1>6, <2>1, <2>2 DEF Drain
<1>7. CASE DrainTerminate
  BY <1>7 DEF DrainTerminate, Mark
<1>8. CASE Start /\ ~Register /\ ~Drain /\ ~DrainTerminate
  <2>1. pc["Starter"] \notin Registered /\ pc'["Starter"] \notin Registered
    BY <1>8 DEF Start, Prepare, Offer, AwaitMessage, AwaitEnds, Create, Activate, StartingMessage,
       StartingEnds, StartTerminate, Cleanup, Mark
  <2> QED
    BY <2>1
<1>9. CASE Owner
  <2>1. pc'["Starter"] \notin Registered
    BY <1>9 DEF Owner, OwnerCloses, CloseSession, Mark
  <2> QED
    BY <2>1
<1>10. CASE Push
  <2>1. CASE queue' = Append(queue, message)
    <3>1. Len(queue') = Len(queue) + 1 /\ Len(queue) \in Nat
      BY <2>1
    <3> QED
      BY <1>10, <3>1 DEF Push
  <2>2. CASE UNCHANGED queue
    BY <1>10, <2>2 DEF Push
  <2> QED
    BY <1>10, <2>1, <2>2 DEF Push
<1>11. CASE Route
  BY <1>11 DEF Route
<1>12. ASSUME NEW a \in Actors \ {"Starter"}, NEW s \in States \ {"pushing"}, Goto(a, s),
              UNCHANGED queue, pending' => pending
       PROVE  LateInv'
  <2>1. pc'["Starter"] = pc["Starter"] /\ (pc'["Reader"] = "pushing" => pc["Reader"] = "pushing")
    BY <1>12
  <2>2. Len(queue') = Len(queue) /\ Len(queue) \in Nat
    BY <1>12
  <2> QED
    BY <1>12, <2>1, <2>2
<1>13. CASE ReaderHandles \/ ReaderTerminate \/ ReadFails
  BY <1>13, <1>12 DEF ReaderHandles, ReaderTerminate, ReadFails, Deliver, Mark, States
<1>14. ASSUME NEW a \in {"Reader", "Failer"}, FailBegin(a) \/ Fail(a)
       PROVE  LateInv'
  BY <1>14, <1>12 DEF FailBegin, Fail, FailTerminate, HangUp, Mark, States
<1>15. CASE CloseBegin \/ Closer
  BY <1>15, <1>12 DEF CloseBegin, Closer, CloseSession, CloseDone, CloseHangUp, CloseJoin, Mark,
     States
<1>16. CASE Watch
  BY <1>16, <1>12 DEF Watch, States
<1> QED
  BY <1>2, <1>5, <1>6, <1>7, <1>8, <1>9, <1>10, <1>11, <1>13, <1>14, <1>15, <1>16
     DEF Next, Reader

\* signaling_connection.go:38-67 and device_session_start.go:268-288: a start loses at
\* most one message, for any capacities and any number of messages.
THEOREM OneMessageLate == Spec => []OneLateMessage
<1>1. Init => LateInv
  BY DEF Init, LateInv, Registered, OneLateMessage, Actors
<1>2. IInv /\ LateInv /\ [Next]_vars => LateInv'
  BY LateStep DEF IInv
<1>3. LateInv => OneLateMessage
  BY DEF LateInv
<1> QED
  BY <1>1, <1>2, <1>3, HandoverInvariant, PTL DEF Spec
================================================================================
