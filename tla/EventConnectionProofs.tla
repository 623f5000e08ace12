------------------------- MODULE EventConnectionProofs --------------------------
(***************************************************************************)
(* Theorems about EventConnection, for any receivers, closers, capacity    *)
(* and number of frames.  That the two channels are one queue needs to     *)
(* know where the error is (ErrorInv), who holds receiveMu, and what a     *)
(* receiver has already seen of the end of the context (ReceiverInv).      *)
(***************************************************************************)
EXTENDS EventConnection, TLAPS, SequenceTheorems

Active == {"cancelling", "closing", "joining"}

\* receiveMu is held by the receiver that is inside.
MutexInv == \A r \in Receivers : holder = r <=> receiver[r] \in InReceive

\* The one read error is in one place; nothing is read after it.
ErrorInv ==
    /\ ErrorWaits => failed
    /\ failed => pump \in {"cancelling", "closing", "finished"}
    /\ pump \in {"cancelling", "closing", "finished"} => failed \/ Over
    /\ "pump" \in done => pump \in {"closing", "finished"}
    /\ "close" \in done => closed
    /\ errors => ~pendingErr
    /\ \A r \in Receivers : /\ receiver[r] = "prioritizing" => ~errors /\ ~pendingErr
                            /\ receiver[r] \in {"selecting", "ended", "emptying"} => ~pendingErr

\* A receiver that has seen the context end and no error will see none later, unless the
\* consumer's side has ended the stream.
ReceiverInv ==
    \A r \in Receivers : /\ receiver[r] \in {"ended", "emptying"} => Done
                         /\ receiver[r] = "emptying" => Over \/ (failed /\ ~errors)

CloseInv ==
    /\ ChannelsClosedLast
    /\ \A k \in Closers : closer[k] # "idle" => closed
    /\ \A k \in Closers : closer[k] \in {"cancelling", "closing"} => shut = 0
    /\ shut > 0 => closed
    /\ shut = 1 => \E k \in Closers : closer[k] = "joining"

IInv == TypeOK /\ MutexInv /\ ErrorInv /\ ReceiverInv /\ CloseInv

--------------------------------------------------------------------------------
(* Types. *)

\* What a receive from messageChan and a send to it do to the channel.
LEMMA Taken ==
    ASSUME TypeOK, messages # <<>>
    PROVE  /\ Tail(messages) \in Seq(1 .. EventLimit) /\ Len(Tail(messages)) <= Capacity
           /\ Head(messages) \in 1 .. EventLimit
BY CapacityAssumption DEF TypeOK

LEMMA Sent ==
    ASSUME TypeOK, NEW e \in 1 .. EventLimit, Len(messages) < Capacity
    PROVE  /\ Append(messages, e) \in Seq(1 .. EventLimit)
           /\ Len(Append(messages, e)) <= Capacity
BY CapacityAssumption DEF TypeOK

\* Each step keeps the types.
LEMMA TypeStep ==
    ASSUME TypeOK, CloseInv, [Next]_vars
    PROVE  TypeOK'
<1> USE CapacityAssumption, AnswerAssumption
    DEF TypeOK, InReceive, Goto, At, CloseTo, channels, session, reading, taking
<1>1. CASE PumpCheck
  BY <1>1 DEF PumpCheck
<1>2. CASE PumpSend
  <2>1. \/ UNCHANGED messages
        \/ Len(messages) < Capacity /\ messages' = Append(messages, read)
    BY <1>2 DEF PumpSend
  <2>2. read \in 1 .. EventLimit
    BY <1>2, CapacityAssumption DEF PumpSend
  <2>3. messages' \in Seq(1 .. EventLimit) /\ Len(messages') <= Capacity
    BY <2>1, <2>2, Sent
  <2>4. pump' \in {"checking", "cancelling"}
    BY <1>2 DEF PumpSend
  <2>5. UNCHANGED <<errors, shut, done, socket, closed, read, failed, waiter, holder, pendingErr,
                    receiver, last, closer>>
    BY <1>2 DEF PumpSend
  <2> QED
    BY <2>3, <2>4, <2>5
<1>3. CASE PumpCancel
  BY <1>3 DEF PumpCancel
<1>4. CASE PumpHangUp
  BY <1>4 DEF PumpHangUp
<1>5. CASE PumpReads
  BY <1>5 DEF PumpReads
<1>6. CASE ReadFails
  BY <1>6 DEF ReadFails
<1>7. CASE WaiterHangsUp
  BY <1>7, ZenonT(60) DEF WaiterHangsUp
<1>8. CASE OwnerCancels
  BY <1>8 DEF OwnerCancels
<1>9. ASSUME NEW r \in Receivers, Receive(r) PROVE TypeOK'
  BY <1>9 DEF Receive
<1>10. ASSUME NEW r \in Receivers, Lock(r) PROVE TypeOK'
  BY <1>10 DEF Lock
<1>11. ASSUME NEW r \in Receivers, Check(r) PROVE TypeOK'
  BY <1>11 DEF Check, Answer
<1>12. ASSUME NEW r \in Receivers, Drain(r) PROVE TypeOK'
  <2>0. UNCHANGED messages \/ (messages # <<>> /\ messages' = Tail(messages))
    BY <1>12 DEF Drain, TakeEvent, NoEvent, Answer
  <2>1. messages' \in Seq(1 .. EventLimit) /\ Len(messages') <= Capacity
    BY <2>0, Taken
  <2>2. last' \in (1 .. EventLimit) \cup {Error, Closed, Nobody} /\ holder' \in Receivers \cup {Nobody}
    BY <1>12, Taken DEF Drain, TakeEvent, NoEvent, Answer
  <2>3. receiver' \in [Receivers -> {"idle", "locking"} \cup InReceive]
    BY <1>12 DEF Drain, TakeEvent, NoEvent, Answer
  <2>4. errors' \in BOOLEAN /\ pendingErr' \in BOOLEAN
    BY <1>12 DEF Drain, TakeEvent, NoEvent, Answer
  <2>5. UNCHANGED <<shut, done, socket, closed, pump, read, failed, waiter, closer>>
    BY <1>12 DEF Drain, TakeEvent, NoEvent, Answer
  <2> QED
    BY <2>1, <2>2, <2>3, <2>4, <2>5
<1>13. ASSUME NEW r \in Receivers, Select(r) PROVE TypeOK'
  <2>0. UNCHANGED messages \/ (messages # <<>> /\ messages' = Tail(messages))
    BY <1>13 DEF Select, TakeEvent, TakeError, Answer
  <2>1. messages' \in Seq(1 .. EventLimit) /\ Len(messages') <= Capacity
    BY <2>0, Taken
  <2>2. last' \in (1 .. EventLimit) \cup {Error, Closed, Nobody} /\ holder' \in Receivers \cup {Nobody}
    BY <1>13, Taken DEF Select, TakeEvent, TakeError, Answer
  <2>3. receiver' \in [Receivers -> {"idle", "locking"} \cup InReceive]
    BY <1>13 DEF Select, TakeEvent, TakeError, Answer
  <2>4. errors' \in BOOLEAN /\ pendingErr' \in BOOLEAN
    BY <1>13 DEF Select, TakeEvent, TakeError, Answer
  <2>5. UNCHANGED <<shut, done, socket, closed, pump, read, failed, waiter, closer>>
    BY <1>13 DEF Select, TakeEvent, TakeError, Answer
  <2> QED
    BY <2>1, <2>2, <2>3, <2>4, <2>5
<1>14. ASSUME NEW r \in Receivers, Ended(r) PROVE TypeOK'
  BY <1>14, ZenonT(60) DEF Ended, TakeError, NoError, Answer
<1>15. ASSUME NEW r \in Receivers, Empty(r) PROVE TypeOK'
  <2>0. UNCHANGED messages \/ (messages # <<>> /\ messages' = Tail(messages))
    BY <1>15 DEF Empty, TakeEvent, NoEvent, Answer
  <2>1. messages' \in Seq(1 .. EventLimit) /\ Len(messages') <= Capacity
    BY <2>0, Taken
  <2>2. last' \in (1 .. EventLimit) \cup {Error, Closed, Nobody} /\ holder' \in Receivers \cup {Nobody}
    BY <1>15, Taken DEF Empty, TakeEvent, NoEvent, Answer
  <2>3. receiver' \in [Receivers -> {"idle", "locking"} \cup InReceive]
    BY <1>15 DEF Empty, TakeEvent, NoEvent, Answer
  <2>4. errors' \in BOOLEAN /\ pendingErr' \in BOOLEAN
    BY <1>15 DEF Empty, TakeEvent, NoEvent, Answer
  <2>5. UNCHANGED <<shut, done, socket, closed, pump, read, failed, waiter, closer>>
    BY <1>15 DEF Empty, TakeEvent, NoEvent, Answer
  <2> QED
    BY <2>1, <2>2, <2>3, <2>4, <2>5
<1>16. ASSUME NEW r \in Receivers, Prioritize(r) PROVE TypeOK'
  <2>0. UNCHANGED messages \/ (messages # <<>> /\ messages' = Tail(messages))
    BY <1>16 DEF Prioritize, TakeEvent, NoEvent, Answer
  <2>1. messages' \in Seq(1 .. EventLimit) /\ Len(messages') <= Capacity
    BY <2>0, Taken
  <2>2. last' \in (1 .. EventLimit) \cup {Error, Closed, Nobody} /\ holder' \in Receivers \cup {Nobody}
    BY <1>16, Taken DEF Prioritize, TakeEvent, NoEvent, Answer
  <2>3. receiver' \in [Receivers -> {"idle", "locking"} \cup InReceive]
    BY <1>16 DEF Prioritize, TakeEvent, NoEvent, Answer
  <2>4. errors' \in BOOLEAN /\ pendingErr' \in BOOLEAN
    BY <1>16 DEF Prioritize, TakeEvent, NoEvent, Answer
  <2>5. UNCHANGED <<shut, done, socket, closed, pump, read, failed, waiter, closer>>
    BY <1>16 DEF Prioritize, TakeEvent, NoEvent, Answer
  <2> QED
    BY <2>1, <2>2, <2>3, <2>4, <2>5
<1>17. ASSUME NEW k \in Closers, CloseBegin(k) PROVE TypeOK'
  <2>1. closer' \in [Closers -> {"idle", "cancelling", "closing", "joining", "returned"}]
    BY <1>17 DEF CloseBegin
  <2>2. /\ closed' \in BOOLEAN
        /\ UNCHANGED <<done, socket>>
        /\ UNCHANGED <<messages, errors, shut, pump, read, failed, waiter, holder, pendingErr,
                       receiver, last>>
    BY <1>17 DEF CloseBegin
  <2> QED
    BY <2>1, <2>2
<1>18. ASSUME NEW k \in Closers, CloseCancel(k) PROVE TypeOK'
  <2>1. closer' \in [Closers -> {"idle", "cancelling", "closing", "joining", "returned"}]
    BY <1>18 DEF CloseCancel
  <2>2. /\ done' \subseteq {"pump", "owner", "close"}
        /\ UNCHANGED <<socket, closed>>
        /\ UNCHANGED <<messages, errors, shut, pump, read, failed, waiter, holder, pendingErr,
                       receiver, last>>
    BY <1>18 DEF CloseCancel
  <2> QED
    BY <2>1, <2>2
<1>19. ASSUME NEW k \in Closers, CloseHangUp(k) PROVE TypeOK'
  <2>1. closer' \in [Closers -> {"idle", "cancelling", "closing", "joining", "returned"}]
    BY <1>19 DEF CloseHangUp
  <2>2. /\ socket' \in BOOLEAN
        /\ UNCHANGED <<done, closed>>
        /\ UNCHANGED <<messages, errors, shut, pump, read, failed, waiter, holder, pendingErr,
                       receiver, last>>
    BY <1>19 DEF CloseHangUp
  <2> QED
    BY <2>1, <2>2
<1>20. ASSUME NEW k \in Closers, CloseChannels(k) PROVE TypeOK'
  <2>1. shut' \in 0 .. 2
    BY <1>20 DEF CloseChannels, CloseInv, ChannelsClosedLast
  <2> QED
    BY <1>20, <2>1 DEF CloseChannels
<1>21. CASE UNCHANGED vars
  BY <1>21 DEF vars
<1> QED
  BY <1>1, <1>2, <1>3, <1>4, <1>5, <1>6, <1>7, <1>8, <1>9, <1>10, <1>11, <1>12, <1>13,
     <1>14, <1>15, <1>16, <1>17, <1>18, <1>19, <1>20, <1>21
  DEF Next, Pump, Receiving, Closing

--------------------------------------------------------------------------------
(* The invariant. *)

\* Each step keeps receiveMu with the receiver that is inside.
LEMMA MutexStep ==
    ASSUME TypeOK, MutexInv, [Next]_vars
    PROVE  MutexInv'
<1> USE AnswerAssumption
    DEF TypeOK, MutexInv, InReceive, Goto, At, CloseTo, channels, session, reading, taking
<1>1. CASE PumpCheck
  BY <1>1 DEF PumpCheck
<1>2. CASE PumpSend
  BY <1>2 DEF PumpSend
<1>3. CASE PumpCancel
  BY <1>3 DEF PumpCancel
<1>4. CASE PumpHangUp
  BY <1>4 DEF PumpHangUp
<1>5. CASE PumpReads
  BY <1>5 DEF PumpReads
<1>6. CASE ReadFails
  BY <1>6 DEF ReadFails
<1>7. CASE WaiterHangsUp
  BY <1>7 DEF WaiterHangsUp
<1>8. CASE OwnerCancels
  BY <1>8 DEF OwnerCancels
<1>9. ASSUME NEW r \in Receivers, Receive(r) PROVE MutexInv'
  BY <1>9 DEF Receive
<1>10. ASSUME NEW r \in Receivers, Lock(r) PROVE MutexInv'
  BY <1>10 DEF Lock
<1>11. ASSUME NEW r \in Receivers, Check(r) PROVE MutexInv'
  BY <1>11 DEF Check, Answer
<1>12. ASSUME NEW r \in Receivers, Drain(r) PROVE MutexInv'
  BY <1>12 DEF Drain, TakeEvent, NoEvent, Answer
<1>13. ASSUME NEW r \in Receivers, Select(r) PROVE MutexInv'
  BY <1>13 DEF Select, TakeEvent, TakeError, Answer
<1>14. ASSUME NEW r \in Receivers, Ended(r) PROVE MutexInv'
  BY <1>14 DEF Ended, TakeError, NoError, Answer
<1>15. ASSUME NEW r \in Receivers, Empty(r) PROVE MutexInv'
  BY <1>15 DEF Empty, TakeEvent, NoEvent, Answer
<1>16. ASSUME NEW r \in Receivers, Prioritize(r) PROVE MutexInv'
  BY <1>16 DEF Prioritize, TakeEvent, NoEvent, Answer
<1>17. ASSUME NEW k \in Closers, CloseBegin(k) PROVE MutexInv'
  BY <1>17 DEF CloseBegin
<1>18. ASSUME NEW k \in Closers, CloseCancel(k) PROVE MutexInv'
  BY <1>18 DEF CloseCancel
<1>19. ASSUME NEW k \in Closers, CloseHangUp(k) PROVE MutexInv'
  BY <1>19 DEF CloseHangUp
<1>20. ASSUME NEW k \in Closers, CloseChannels(k) PROVE MutexInv'
  BY <1>20 DEF CloseChannels
<1>21. CASE UNCHANGED vars
  BY <1>21 DEF vars
<1> QED
  BY <1>1, <1>2, <1>3, <1>4, <1>5, <1>6, <1>7, <1>8, <1>9, <1>10, <1>11, <1>12, <1>13,
     <1>14, <1>15, <1>16, <1>17, <1>18, <1>19, <1>20, <1>21
  DEF Next, Pump, Receiving, Closing

\* Before the pump's end, only the consumer's side can have ended the context.
LEMMA WhoEnds ==
    ASSUME TypeOK, ErrorInv, pump \notin {"closing", "finished"}
    PROVE  Done => Over
<1> SUFFICES ASSUME Done PROVE Over
  OBVIOUS
<1>1. PICK x \in done : TRUE
  BY DEF Done
<1>2. x = "owner" \/ x = "close"
  BY <1>1 DEF TypeOK, ErrorInv
<1> QED
  BY <1>1, <1>2 DEF ErrorInv, Over
\* Each step keeps the error in one place.
LEMMA ErrorStep ==
    ASSUME TypeOK, MutexInv, ErrorInv, CloseInv, [Next]_vars
    PROVE  ErrorInv'
<1> USE AnswerAssumption
    DEF TypeOK, MutexInv, ErrorInv, ErrorWaits, Over, Done, InReceive, Goto, At, CloseTo,
        channels, session, reading, taking
<1>1. CASE PumpCheck
  <2>1. pump = "checking" /\ ~failed /\ "pump" \notin done
    BY <1>1 DEF PumpCheck
  <2>2. Done => Over
    BY <2>1, WhoEnds
  <2> QED
    BY <1>1, <2>1, <2>2 DEF PumpCheck
<1>2. CASE PumpSend
  <2>1. pump = "sending" /\ ~failed /\ "pump" \notin done
    BY <1>2 DEF PumpSend
  <2>2. Done => Over
    BY <2>1, WhoEnds
  <2> QED
    BY <1>2, <2>1, <2>2 DEF PumpSend
<1>3. CASE PumpCancel
  BY <1>3 DEF PumpCancel
<1>4. CASE PumpHangUp
  BY <1>4 DEF PumpHangUp
<1>5. CASE PumpReads
  BY <1>5 DEF PumpReads
<1>6. CASE ReadFails
  BY <1>6 DEF ReadFails
<1>7. CASE WaiterHangsUp
  BY <1>7 DEF WaiterHangsUp
<1>8. CASE OwnerCancels
  BY <1>8 DEF OwnerCancels
<1>9. ASSUME NEW r \in Receivers, Receive(r) PROVE ErrorInv'
  BY <1>9 DEF Receive
<1>10. ASSUME NEW r \in Receivers, Lock(r) PROVE ErrorInv'
  BY <1>10 DEF Lock
<1>11. ASSUME NEW r \in Receivers, Check(r) PROVE ErrorInv'
  BY <1>11 DEF Check, Answer
<1>12. ASSUME NEW r \in Receivers, Drain(r) PROVE ErrorInv'
  BY <1>12 DEF Drain, TakeEvent, NoEvent, Answer
<1>13. ASSUME NEW r \in Receivers, Select(r) PROVE ErrorInv'
  BY <1>13 DEF Select, TakeEvent, TakeError, Answer
<1>14. ASSUME NEW r \in Receivers, Ended(r) PROVE ErrorInv'
  BY <1>14 DEF Ended, TakeError, NoError, Answer
<1>15. ASSUME NEW r \in Receivers, Empty(r) PROVE ErrorInv'
  BY <1>15 DEF Empty, TakeEvent, NoEvent, Answer
<1>16. ASSUME NEW r \in Receivers, Prioritize(r) PROVE ErrorInv'
  BY <1>16 DEF Prioritize, TakeEvent, NoEvent, Answer
<1>17. ASSUME NEW k \in Closers, CloseBegin(k) PROVE ErrorInv'
  BY <1>17 DEF CloseBegin
<1>18. ASSUME NEW k \in Closers, CloseCancel(k) PROVE ErrorInv'
  BY <1>18 DEF CloseCancel, CloseInv
<1>19. ASSUME NEW k \in Closers, CloseHangUp(k) PROVE ErrorInv'
  BY <1>19 DEF CloseHangUp
<1>20. ASSUME NEW k \in Closers, CloseChannels(k) PROVE ErrorInv'
  BY <1>20 DEF CloseChannels
<1>21. CASE UNCHANGED vars
  BY <1>21 DEF vars
<1> QED
  BY <1>1, <1>2, <1>3, <1>4, <1>5, <1>6, <1>7, <1>8, <1>9, <1>10, <1>11, <1>12, <1>13,
     <1>14, <1>15, <1>16, <1>17, <1>18, <1>19, <1>20, <1>21
  DEF Next, Pump, Receiving, Closing

\* Each step keeps what receivers know.
LEMMA ReceiverStep ==
    ASSUME TypeOK, MutexInv, ErrorInv, ReceiverInv, CloseInv, [Next]_vars
    PROVE  ReceiverInv'
<1> USE AnswerAssumption
    DEF TypeOK, MutexInv, ErrorInv, ErrorWaits, ReceiverInv, Over, Done, InReceive, Goto, At,
        CloseTo, channels, session, reading, taking
<1>1. CASE PumpCheck
  BY <1>1 DEF PumpCheck
<1>2. CASE PumpSend
  BY <1>2 DEF PumpSend
<1>3. CASE PumpCancel
  BY <1>3 DEF PumpCancel
<1>4. CASE PumpHangUp
  BY <1>4 DEF PumpHangUp
<1>5. CASE PumpReads
  BY <1>5 DEF PumpReads
<1>6. CASE ReadFails
  BY <1>6 DEF ReadFails
<1>7. CASE WaiterHangsUp
  BY <1>7 DEF WaiterHangsUp
<1>8. CASE OwnerCancels
  BY <1>8 DEF OwnerCancels
<1>9. ASSUME NEW r \in Receivers, Receive(r) PROVE ReceiverInv'
  BY <1>9 DEF Receive
<1>10. ASSUME NEW r \in Receivers, Lock(r) PROVE ReceiverInv'
  BY <1>10 DEF Lock
<1>11. ASSUME NEW r \in Receivers, Check(r) PROVE ReceiverInv'
  BY <1>11 DEF Check, Answer
<1>12. ASSUME NEW r \in Receivers, Drain(r) PROVE ReceiverInv'
  BY <1>12 DEF Drain, TakeEvent, NoEvent, Answer
<1>13. ASSUME NEW r \in Receivers, Select(r) PROVE ReceiverInv'
  BY <1>13 DEF Select, TakeEvent, TakeError, Answer
<1>14. ASSUME NEW r \in Receivers, Ended(r) PROVE ReceiverInv'
  <2>1. /\ UNCHANGED <<done, closed, failed>> /\ Done /\ (errors' => errors)
        /\ \E s \in {"prioritizing", "emptying", "idle"} : Goto(r, s)
    BY <1>14 DEF Ended, TakeError, NoError, Answer
  <2>2. receiver'[r] = "emptying" => Over \/ (failed /\ ~errors)
    <3>1. CASE NoError
      <4>1. Over \/ failed
        BY <2>1, WhoEnds
      <4> QED
        BY <3>1, <4>1 DEF NoError
    <3>2. CASE TakeError(r)
      BY <3>2 DEF TakeError, Answer
    <3> QED
      BY <1>14, <3>1, <3>2 DEF Ended
  <2>3. \A x \in Receivers : x # r => receiver'[x] = receiver[x]
    BY <2>1
  <2>4. receiver'[r] \in {"prioritizing", "emptying", "idle"}
    BY <2>1
  <2> QED
    BY <2>1, <2>2, <2>3, <2>4
<1>15. ASSUME NEW r \in Receivers, Empty(r) PROVE ReceiverInv'
  BY <1>15 DEF Empty, TakeEvent, NoEvent, Answer
<1>16. ASSUME NEW r \in Receivers, Prioritize(r) PROVE ReceiverInv'
  BY <1>16 DEF Prioritize, TakeEvent, NoEvent, Answer
<1>17. ASSUME NEW k \in Closers, CloseBegin(k) PROVE ReceiverInv'
  BY <1>17 DEF CloseBegin
<1>18. ASSUME NEW k \in Closers, CloseCancel(k) PROVE ReceiverInv'
  BY <1>18 DEF CloseCancel
<1>19. ASSUME NEW k \in Closers, CloseHangUp(k) PROVE ReceiverInv'
  BY <1>19 DEF CloseHangUp
<1>20. ASSUME NEW k \in Closers, CloseChannels(k) PROVE ReceiverInv'
  BY <1>20 DEF CloseChannels
<1>21. CASE UNCHANGED vars
  BY <1>21 DEF vars
<1> QED
  BY <1>1, <1>2, <1>3, <1>4, <1>5, <1>6, <1>7, <1>8, <1>9, <1>10, <1>11, <1>12, <1>13,
     <1>14, <1>15, <1>16, <1>17, <1>18, <1>19, <1>20, <1>21
  DEF Next, Pump, Receiving, Closing

\* Each step keeps the channels open until the pump has ended.
LEMMA CloseStep ==
    ASSUME TypeOK, CloseInv, [Next]_vars
    PROVE  CloseInv'
<1> USE DEF TypeOK, CloseInv, ChannelsClosedLast, Active, InReceive, Goto, At, CloseTo,
        channels, session, reading, taking
<1>1. CASE PumpCheck
  BY <1>1 DEF PumpCheck
<1>2. CASE PumpSend
  BY <1>2 DEF PumpSend
<1>3. CASE PumpCancel
  BY <1>3 DEF PumpCancel
<1>4. CASE PumpHangUp
  BY <1>4 DEF PumpHangUp
<1>5. CASE PumpReads
  BY <1>5 DEF PumpReads
<1>6. CASE ReadFails
  BY <1>6 DEF ReadFails
<1>7. CASE WaiterHangsUp
  BY <1>7 DEF WaiterHangsUp
<1>8. CASE OwnerCancels
  BY <1>8 DEF OwnerCancels
<1>9. ASSUME NEW r \in Receivers, Receive(r) PROVE CloseInv'
  BY <1>9 DEF Receive
<1>10. ASSUME NEW r \in Receivers, Lock(r) PROVE CloseInv'
  BY <1>10 DEF Lock
<1>11. ASSUME NEW r \in Receivers, Check(r) PROVE CloseInv'
  BY <1>11 DEF Check, Answer
<1>12. ASSUME NEW r \in Receivers, Drain(r) PROVE CloseInv'
  BY <1>12 DEF Drain, TakeEvent, NoEvent, Answer
<1>13. ASSUME NEW r \in Receivers, Select(r) PROVE CloseInv'
  BY <1>13 DEF Select, TakeEvent, TakeError, Answer
<1>14. ASSUME NEW r \in Receivers, Ended(r) PROVE CloseInv'
  BY <1>14 DEF Ended, TakeError, NoError, Answer
<1>15. ASSUME NEW r \in Receivers, Empty(r) PROVE CloseInv'
  BY <1>15 DEF Empty, TakeEvent, NoEvent, Answer
<1>16. ASSUME NEW r \in Receivers, Prioritize(r) PROVE CloseInv'
  BY <1>16 DEF Prioritize, TakeEvent, NoEvent, Answer
<1>17. ASSUME NEW k \in Closers, CloseBegin(k) PROVE CloseInv'
  BY <1>17 DEF CloseBegin
<1>18. ASSUME NEW k \in Closers, CloseCancel(k) PROVE CloseInv'
  BY <1>18 DEF CloseCancel
<1>19. ASSUME NEW k \in Closers, CloseHangUp(k) PROVE CloseInv'
  BY <1>19 DEF CloseHangUp
<1>20. ASSUME NEW k \in Closers, CloseChannels(k) PROVE CloseInv'
  BY <1>20 DEF CloseChannels
<1>21. CASE UNCHANGED vars
  BY <1>21 DEF vars
<1> QED
  BY <1>1, <1>2, <1>3, <1>4, <1>5, <1>6, <1>7, <1>8, <1>9, <1>10, <1>11, <1>12, <1>13,
     <1>14, <1>15, <1>16, <1>17, <1>18, <1>19, <1>20, <1>21
  DEF Next, Pump, Receiving, Closing

\* The inductive invariant.
THEOREM EventInvariant == Spec => []IInv
<1>1. Init => IInv
  <2>1. Init => TypeOK
    <3>1. Init => messages \in Seq(1 .. EventLimit) /\ Len(messages) <= Capacity
      BY CapacityAssumption DEF Init
    <3>2. Init => /\ receiver \in [Receivers -> {"idle", "locking"} \cup InReceive]
                  /\ closer \in [Closers -> {"idle", "cancelling", "closing", "joining", "returned"}]
      BY DEF Init
    <3>3. Init => /\ read \in 0 .. EventLimit /\ shut \in 0 .. 2
                  /\ last \in (1 .. EventLimit) \cup {Error, Closed, Nobody}
      BY CapacityAssumption DEF Init
    <3> QED
      BY <3>1, <3>2, <3>3 DEF Init, TypeOK
  <2>2. Init => MutexInv /\ ErrorInv /\ ReceiverInv
    BY AnswerAssumption DEF Init, MutexInv, ErrorInv, ErrorWaits, ReceiverInv, InReceive, Done, Over
  <2>3. Init => CloseInv
    BY DEF Init, CloseInv, ChannelsClosedLast
  <2> QED
    BY <2>1, <2>2, <2>3 DEF IInv
<1>2. IInv /\ [Next]_vars => IInv'
  BY TypeStep, MutexStep, ErrorStep, ReceiverStep, CloseStep DEF IInv
<1> QED
  BY <1>1, <1>2, PTL DEF Spec

\* Every variable keeps its type.
THEOREM TypeCorrect == Spec => []TypeOK
<1>1. IInv => TypeOK
  BY DEF IInv
<1> QED
  BY <1>1, EventInvariant, PTL

\* The channels are closed after the pump's last send, and once.
THEOREM ChannelsClosedLastAlways == Spec => []ChannelsClosedLast
<1>1. IInv => ChannelsClosedLast
  BY DEF IInv, CloseInv
<1> QED
  BY <1>1, EventInvariant, PTL
--------------------------------------------------------------------------------
(* The two channels are one queue.  First, what a step of the queue looks like. *)

\* A step that changes neither of its parts is none.
LEMMA Stutter ==
    ASSUME UNCHANGED <<messages, failed, last>>, ErrorWaits' <=> ErrorWaits, Over' <=> Over
    PROVE  UNCHANGED Stream!vars
BY DEF Stream!vars, Queue, Over, ErrorWaits

\* An event is taken from the channel: it is the head of the queue.
LEMMA TakesEvent ==
    ASSUME TypeOK, messages # <<>>, messages' = Tail(messages), last' = Head(messages),
           UNCHANGED failed, ErrorWaits' <=> ErrorWaits, Over' <=> Over
    PROVE  Stream!Next
<1>1. messages \in Seq(1 .. EventLimit)
  BY DEF TypeOK
<1>2. /\ Append(messages, Error) # <<>> /\ Head(Append(messages, Error)) = Head(messages)
      /\ Tail(Append(messages, Error)) = Append(Tail(messages), Error)
  BY <1>1
<1>3. Queue # <<>> /\ Head(Queue) = Head(messages) /\ Queue' = Tail(Queue)
  BY <1>2 DEF Queue
<1>4. Over' = Over
  BY DEF Over
<1> QED
  BY <1>3, <1>4 DEF Stream!Next, Stream!Get

\* The error is answered: nothing was before it.
LEMMA TakesError ==
    ASSUME messages = <<>>, ErrorWaits, ~ErrorWaits', last' = Error,
           UNCHANGED <<messages, failed>>, Over' <=> Over
    PROVE  Stream!Next
<1>1. Queue = <<Error>> /\ Queue' = <<>>
  BY DEF Queue
<1>2. Queue # <<>> /\ Head(Queue) = Error /\ Queue' = Tail(Queue)
  BY <1>1
<1>3. Over' = Over
  BY DEF Over
<1> QED
  BY <1>2, <1>3 DEF Stream!Next, Stream!Get

\* The end is answered: the consumer's own, or the peer's after its error.
LEMMA AnswersClosed ==
    ASSUME Over \/ (failed /\ messages = <<>> /\ ~ErrorWaits), last' = Closed,
           UNCHANGED <<messages, failed>>, ErrorWaits' <=> ErrorWaits, Over' <=> Over
    PROVE  Stream!Next
<1>1. Queue' = Queue /\ Over' = Over
  BY DEF Queue, Over, ErrorWaits
<1>2. Over \/ (failed /\ Queue = <<>>)
  BY DEF Queue
<1> QED
  BY <1>1, <1>2 DEF Stream!Next, Stream!Refuse

\* A receive from messageChan is one of these, if the error stays where it is.
LEMMA TakeEventMaps ==
    ASSUME TypeOK, CloseInv, NEW r \in Receivers, TakeEvent(r),
           UNCHANGED failed, ErrorWaits' <=> ErrorWaits, Over' <=> Over
    PROVE  Stream!Next
<1>1. CASE messages # <<>>
  BY <1>1, TakesEvent DEF TakeEvent, Answer
<1>2. CASE messages = <<>>
  <2>1. closed /\ last' = Closed /\ UNCHANGED messages
    BY <1>2 DEF TakeEvent, Answer, CloseInv, TypeOK
  <2> QED
    BY <2>1, AnswersClosed DEF Over
<1> QED
  BY <1>1, <1>2

\* While a receiver is inside, no other one holds an error.
LEMMA OnlyHolder ==
    ASSUME TypeOK, MutexInv, NEW r \in Receivers, receiver[r] \in InReceive, NEW s,
           Goto(r, s)
    PROVE  /\ (\E x \in Receivers : receiver[x] = "prioritizing") <=> receiver[r] = "prioritizing"
           /\ (\E x \in Receivers : receiver'[x] = "prioritizing") <=> s = "prioritizing"
<1>1. \A x \in Receivers : x # r => receiver[x] # "prioritizing"
  BY DEF MutexInv, InReceive
<1> QED
  BY <1>1 DEF Goto, TypeOK

\* A receive from errChan moves the error into the receiver's hands, or finds the end.
LEMMA TakeErrorMaps ==
    ASSUME IInv, NEW r \in Receivers, receiver[r] \in InReceive \ {"prioritizing"}, TakeError(r),
           UNCHANGED <<messages, failed, pendingErr>>, Over' <=> Over
    PROVE  [Stream!Next]_(Stream!vars)
<1> USE DEF IInv
<1>1. CASE errors /\ ~errors' /\ Goto(r, "prioritizing") /\ UNCHANGED last
  <2>1. ErrorWaits' /\ ErrorWaits
    BY <1>1, OnlyHolder DEF ErrorWaits
  <2> QED
    BY <1>1, <2>1, Stutter
<1>2. CASE shut = 2 /\ UNCHANGED errors /\ Answer(r, Closed)
  <2>1. closed
    BY <1>2 DEF CloseInv
  <2>2. ErrorWaits' <=> ErrorWaits
    BY <1>2, OnlyHolder DEF ErrorWaits, Answer
  <2> QED
    BY <1>2, <2>1, <2>2, AnswersClosed DEF Answer, Over
<1> QED
  BY <1>1, <1>2 DEF TakeError

\* Each step of the connection is a step of the stream, or none.
LEMMA StreamStep ==
    ASSUME IInv, [Next]_vars
    PROVE  [Stream!Next]_(Stream!vars)
<1> USE DEF IInv, At, channels, session, reading, taking
<1>1. CASE PumpCheck
  BY <1>1, Stutter DEF PumpCheck, ErrorWaits, Over
<1>2. CASE PumpSend
  <2>1. UNCHANGED <<failed, last>> /\ (ErrorWaits' <=> ErrorWaits) /\ (Over' <=> Over)
    BY <1>2 DEF PumpSend, ErrorWaits, Over
  <2>2. CASE UNCHANGED messages
    BY <2>1, <2>2, Stutter
  <2>3. CASE messages' = Append(messages, read)
    <3>1. ~failed /\ ~ErrorWaits /\ read \in 1 .. EventLimit
      BY <1>2, CapacityAssumption DEF PumpSend, ErrorInv, TypeOK
    <3>2. Queue' = Append(Queue, read) /\ Over' = Over
      BY <2>1, <2>3, <3>1 DEF Queue, Over
    <3> QED
      BY <2>1, <3>1, <3>2 DEF Stream!Next, Stream!Put
  <2> QED
    BY <1>2, <2>2, <2>3 DEF PumpSend
<1>3. CASE PumpCancel
  BY <1>3, Stutter DEF PumpCancel, ErrorWaits, Over
<1>4. CASE PumpHangUp
  BY <1>4, Stutter DEF PumpHangUp, ErrorWaits, Over
<1>5. CASE PumpReads
  BY <1>5, Stutter DEF PumpReads, ErrorWaits, Over
<1>6. CASE ReadFails
  <2>1. ~failed /\ ~ErrorWaits /\ ErrorWaits' /\ failed' /\ UNCHANGED <<messages, last>>
    BY <1>6 DEF ReadFails, ErrorInv, ErrorWaits
  <2>2. Queue' = Append(Queue, Error) /\ Over' = Over /\ failed' = TRUE
    BY <1>6, <2>1 DEF ReadFails, Queue, Over
  <2> QED
    BY <2>1, <2>2 DEF Stream!Next, Stream!Fail
<1>7. CASE WaiterHangsUp
  BY <1>7, Stutter DEF WaiterHangsUp, ErrorWaits, Over
<1>8. CASE OwnerCancels
  <2>1. Over' = TRUE /\ UNCHANGED <<failed, last>>
    BY <1>8 DEF OwnerCancels, Over
  <2>2. Queue' = Queue
    BY <1>8 DEF OwnerCancels, Queue, ErrorWaits
  <2> QED
    BY <2>1, <2>2 DEF Stream!Next, Stream!End
<1>9. ASSUME NEW r \in Receivers, Receive(r) PROVE [Stream!Next]_(Stream!vars)
  <2>1. UNCHANGED <<messages, failed, last, errors, pendingErr>> /\ (Over' <=> Over)
    BY <1>9 DEF Receive, Over
  <2>2. \A x \in Receivers : receiver'[x] = "prioritizing" <=> receiver[x] = "prioritizing"
    BY <1>9 DEF Receive, Goto, TypeOK
  <2> QED
    BY <2>1, <2>2, Stutter DEF ErrorWaits
<1>10. ASSUME NEW r \in Receivers, Lock(r) PROVE [Stream!Next]_(Stream!vars)
  <2>1. UNCHANGED <<messages, failed, last, errors, pendingErr>> /\ (Over' <=> Over)
    BY <1>10 DEF Lock, Over
  <2>2. \A x \in Receivers : receiver'[x] = "prioritizing" <=> receiver[x] = "prioritizing"
    BY <1>10 DEF Lock, Goto, TypeOK
  <2> QED
    BY <2>1, <2>2, Stutter DEF ErrorWaits
<1>11. ASSUME NEW r \in Receivers, Check(r) PROVE [Stream!Next]_(Stream!vars)
  <2>1. UNCHANGED <<messages, failed, errors, pendingErr>> /\ (Over' <=> Over)
    BY <1>11 DEF Check, Over
  <2>2. ErrorWaits' <=> ErrorWaits
    BY <1>11, <2>1, OnlyHolder DEF Check, Answer, ErrorWaits, InReceive
  <2>3. CASE closed /\ last' = Closed
    BY <2>1, <2>2, <2>3, AnswersClosed DEF Over
  <2>4. CASE UNCHANGED last
    BY <2>1, <2>2, <2>4, Stutter
  <2> QED
    BY <1>11, <2>3, <2>4 DEF Check, Answer
<1>12. ASSUME NEW r \in Receivers, Drain(r) PROVE [Stream!Next]_(Stream!vars)
  <2>1. /\ UNCHANGED <<failed, errors>> /\ (Over' <=> Over)
        /\ ~\E x \in Receivers : receiver[x] = "prioritizing"
        /\ ~\E x \in Receivers : receiver'[x] = "prioritizing"
    BY <1>12, OnlyHolder DEF Drain, TakeEvent, Answer, Over, InReceive
  <2>2. CASE TakeEvent(r) /\ UNCHANGED pendingErr
    BY <2>1, <2>2, TakeEventMaps DEF ErrorWaits
  <2>3. CASE /\ messages = <<>> /\ pendingErr /\ ~pendingErr' /\ last' = Error /\ UNCHANGED messages
    <3>1. ErrorWaits /\ ~ErrorWaits'
      BY <2>1, <2>3 DEF ErrorWaits, ErrorInv
    <3> QED
      BY <2>1, <2>3, <3>1, TakesError
  <2>4. CASE UNCHANGED <<messages, pendingErr, last>>
    BY <2>1, <2>4, Stutter DEF ErrorWaits
  <2> QED
    BY <1>12, <2>2, <2>3, <2>4 DEF Drain, NoEvent, Answer
<1>13. ASSUME NEW r \in Receivers, Select(r) PROVE [Stream!Next]_(Stream!vars)
  <2>1. /\ UNCHANGED <<failed, pendingErr>> /\ (Over' <=> Over)
        /\ ~\E x \in Receivers : receiver[x] = "prioritizing"
    BY <1>13, OnlyHolder DEF Select, TakeEvent, TakeError, Answer, Over, InReceive
  <2>2. CASE TakeEvent(r) /\ UNCHANGED errors
    <3>1. ErrorWaits' <=> ErrorWaits
      BY <1>13, <2>1, <2>2, OnlyHolder DEF Select, TakeEvent, Answer, ErrorWaits, InReceive
    <3> QED
      BY <2>1, <2>2, <3>1, TakeEventMaps
  <2>3. CASE TakeError(r) /\ UNCHANGED messages
    BY <1>13, <2>1, <2>3, TakeErrorMaps DEF Select, InReceive
  <2>4. CASE Goto(r, "ended") /\ UNCHANGED <<messages, errors, last>>
    <3>1. ErrorWaits' <=> ErrorWaits
      BY <1>13, <2>1, <2>4, OnlyHolder DEF Select, ErrorWaits, InReceive
    <3> QED
      BY <2>1, <2>4, <3>1, Stutter
  <2> QED
    BY <1>13, <2>2, <2>3, <2>4 DEF Select
<1>14. ASSUME NEW r \in Receivers, Ended(r) PROVE [Stream!Next]_(Stream!vars)
  <2>1. UNCHANGED <<messages, failed, pendingErr>> /\ (Over' <=> Over)
    BY <1>14 DEF Ended, Over
  <2>2. CASE TakeError(r)
    BY <1>14, <2>1, <2>2, TakeErrorMaps DEF Ended, InReceive
  <2>3. CASE Goto(r, "emptying") /\ UNCHANGED <<errors, last>>
    <3>1. ErrorWaits' <=> ErrorWaits
      BY <1>14, <2>1, <2>3, OnlyHolder DEF Ended, ErrorWaits, InReceive
    <3> QED
      BY <2>1, <2>3, <3>1, Stutter
  <2> QED
    BY <1>14, <2>2, <2>3 DEF Ended
<1>15. ASSUME NEW r \in Receivers, Empty(r) PROVE [Stream!Next]_(Stream!vars)
  <2>1. /\ UNCHANGED <<failed, pendingErr, errors>> /\ (Over' <=> Over)
        /\ ~\E x \in Receivers : receiver[x] = "prioritizing"
        /\ ~\E x \in Receivers : receiver'[x] = "prioritizing"
    BY <1>15, OnlyHolder DEF Empty, TakeEvent, Answer, Over, InReceive
  <2>2. ErrorWaits' <=> ErrorWaits
    BY <2>1 DEF ErrorWaits
  <2>3. CASE TakeEvent(r)
    BY <2>1, <2>2, <2>3, TakeEventMaps
  <2>4. CASE messages = <<>> /\ last' = Closed /\ UNCHANGED messages
    <3>1. Over \/ (failed /\ ~ErrorWaits)
      BY <1>15, <2>1 DEF Empty, ReceiverInv, ErrorInv, ErrorWaits
    <3> QED
      BY <2>1, <2>2, <2>4, <3>1, AnswersClosed
  <2> QED
    BY <1>15, <2>3, <2>4 DEF Empty, NoEvent, Answer
<1>16. ASSUME NEW r \in Receivers, Prioritize(r) PROVE [Stream!Next]_(Stream!vars)
  <2>1. /\ UNCHANGED <<failed, errors>> /\ (Over' <=> Over) /\ ~errors /\ ~pendingErr
        /\ ErrorWaits /\ ~\E x \in Receivers : receiver'[x] = "prioritizing"
    BY <1>16, OnlyHolder DEF Prioritize, TakeEvent, Answer, Over, InReceive, ErrorWaits, ErrorInv
  <2>2. CASE /\ messages # <<>> /\ messages' = Tail(messages) /\ last' = Head(messages)
             /\ pendingErr'
    <3>1. ErrorWaits'
      BY <2>2 DEF ErrorWaits
    <3> QED
      BY <2>1, <2>2, <3>1, TakesEvent
  <2>3. CASE /\ messages = <<>> /\ UNCHANGED messages /\ ~pendingErr' /\ shut >= 1
             /\ last' = Closed
    <3>1. ~ErrorWaits' /\ closed
      BY <2>1, <2>3 DEF ErrorWaits, CloseInv, TypeOK
    <3>2. Queue = <<Error>> /\ Queue' = <<>> /\ Over /\ Over' = Over
      BY <2>1, <2>3, <3>1 DEF Queue, Over
    <3> QED
      BY <2>1, <2>3, <3>2 DEF Stream!Next, Stream!Swallow
  <2>4. CASE messages = <<>> /\ last' = Error /\ UNCHANGED <<messages, pendingErr>>
    <3>1. ~ErrorWaits'
      BY <2>1, <2>4 DEF ErrorWaits
    <3> QED
      BY <2>1, <2>4, <3>1, TakesError
  <2> QED
    BY <1>16, <2>2, <2>3, <2>4 DEF Prioritize, TakeEvent, NoEvent, Answer
<1>17. ASSUME NEW k \in Closers, CloseBegin(k) PROVE [Stream!Next]_(Stream!vars)
  <2>1. Over' = TRUE /\ UNCHANGED <<failed, last>>
    BY <1>17 DEF CloseBegin, Over
  <2>2. Queue' = Queue
    BY <1>17 DEF CloseBegin, Queue, ErrorWaits
  <2> QED
    BY <2>1, <2>2 DEF Stream!Next, Stream!End
<1>18. ASSUME NEW k \in Closers, CloseCancel(k) PROVE [Stream!Next]_(Stream!vars)
  BY <1>18, Stutter DEF CloseCancel, ErrorWaits, Over
<1>19. ASSUME NEW k \in Closers, CloseHangUp(k) PROVE [Stream!Next]_(Stream!vars)
  BY <1>19, Stutter DEF CloseHangUp, ErrorWaits, Over
<1>20. ASSUME NEW k \in Closers, CloseChannels(k) PROVE [Stream!Next]_(Stream!vars)
  BY <1>20, Stutter DEF CloseChannels, ErrorWaits, Over
<1>21. CASE UNCHANGED vars
  BY <1>21, Stutter DEF vars, ErrorWaits, Over
<1> QED
  BY <1>1, <1>2, <1>3, <1>4, <1>5, <1>6, <1>7, <1>8, <1>9, <1>10, <1>11, <1>12, <1>13, <1>14,
     <1>15, <1>16, <1>17, <1>18, <1>19, <1>20, <1>21
  DEF Next, Pump, Receiving, Closing

\* events.go:110 and :228: events in wire order, then the read error, then "closed".
THEOREM EventsAreOneStream == Spec => StreamSpec
<1>1. Init => Stream!Init
  BY DEF Init, Stream!Init, Queue, Over, ErrorWaits
<1>2. IInv /\ [Next]_vars => [Stream!Next]_(Stream!vars)
  BY StreamStep
<1> QED
  BY <1>1, <1>2, EventInvariant, PTL DEF Spec, StreamSpec, Stream!Spec
================================================================================
