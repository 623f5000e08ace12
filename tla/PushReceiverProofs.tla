-------------------------- MODULE PushReceiverProofs ---------------------------
(***************************************************************************)
(* Theorems about PushReceiver, for any messages, number of links and      *)
(* capacity of Events.  That a link's end is reported once needs to know   *)
(* who runs disconnect (LinkInv); that no acknowledged message is lost     *)
(* needs the ids in every copy of receivedPersistentID (MailInv).          *)
(***************************************************************************)
EXTENDS PushReceiver, TLAPS

Past(l) == l < link \/ (l = link /\ ~OnLink)

\* disconnect runs once per link, in Subscribe or in the link's heartbeat, and Subscribe
\* leaves a link only after it.
LinkInv ==
    /\ OnLink => link # 0
    /\ sub = "login" => reader[link] = "none" /\ heart[link] = "none"
    /\ sub = "reporting" => once[link] = "running"
    /\ sub = "leaving" => once[link] = "used"
    /\ \A l \in Links :
        /\ l > link => reader[l] = "none" /\ heart[l] = "none" /\ once[l] = "unused"
        /\ reports[l] = IF once[l] = "used" THEN 1 ELSE 0
        /\ heart[l] = "reporting" => once[l] = "running" /\ ~(l = link /\ sub = "reporting")
        /\ Past(l) => ~open[l] /\ cancelled[l] /\ once[l] = "used"

\* Delivered, or in the hands of a reader.
Safe == settled \cup InHand

\* Every id that a login may acknowledge is safe, in every copy of the list.
MailInv ==
    /\ AcknowledgedNotLost
    /\ ~crashed => receivedIds \subseteq Safe /\ \A l \in Links : loaded[l] \subseteq Safe

IInv == TypeOK /\ LinkInv /\ MailInv

USE DEF channel, links, workers, mail, Links

LEMMA InitInvariant == Init => IInv
<1> SUFFICES ASSUME Init PROVE IInv
    OBVIOUS
<1>1. TypeOK
  <2>1. translator \in {"taking", "sending", "stopped"}
      BY Zenon DEF Init
  <2>2. creds \in BOOLEAN
      BY DEF Init
  <2>3. events \in 0 .. Capacity /\ link \in 0 .. LinkLimit
      BY LimitAssumption DEF Init
  <2>4. /\ open \in [Links -> BOOLEAN] /\ cancelled \in [Links -> BOOLEAN]
        /\ reports \in [Links -> Nat] /\ loaded \in [Links -> SUBSET Ids]
      BY DEF Init
  <2> QED
      BY <2>1, <2>2, <2>3, <2>4 DEF Init, TypeOK
<1>2. LinkInv
    BY LimitAssumption DEF Init, LinkInv, Past, OnLink
<1>3. MailInv
    BY DEF Init, MailInv, AcknowledgedNotLost
<1> QED
    BY <1>1, <1>2, <1>3 DEF IInv

--------------------------------------------------------------------------------
(* Types. *)

LEMMA TypeStep ==
    ASSUME TypeOK, [Next]_vars
    PROVE  TypeOK'
<1> USE DEF TypeOK, Subscribing
<1>0. Emit => events' \in 0 .. Capacity
    BY LimitAssumption DEF Emit, Room
<1> USE LimitAssumption
<1>1. CASE CallerEnds
    BY <1>1 DEF CallerEnds
<1>2. CASE Subscribe
  <2>1. CASE LoopEnds
      BY <2>1 DEF LoopEnds
  <2>2. CASE Prepare
      BY <2>2 DEF Prepare
  <2>3. CASE Registered
      BY <1>0, <2>3 DEF Registered
  <2>4. CASE DialFails
      BY <2>4 DEF DialFails
  <2>5. CASE Dial
      BY <2>5 DEF Dial
  <2>6. CASE LoginFails
      BY <2>6 DEF LoginFails
  <2>7. CASE Login
      BY <2>7 DEF Login
  <2>8. CASE LinkLost
      BY <2>8 DEF LinkLost
  <2>9. CASE Disconnect
      BY <2>9 DEF Disconnect
  <2>10. CASE Report
    <3>1. reports' = [reports EXCEPT ![link] = @ + 1] /\ once' = [once EXCEPT ![link] = "used"]
        BY <2>10 DEF Report, Reports
    <3>2. reports' \in [Links -> Nat]
      <4>1. CASE link \in Links
          BY <3>1, <4>1
      <4>2. CASE link \notin Links
          BY <3>1, <4>2, reports' = [l \in Links |-> reports[l]]
      <4> QED
          BY <4>1, <4>2
    <3> QED
        BY <1>0, <2>10, <3>1, <3>2 DEF Report, Reports
  <2>11. CASE Leave
      BY <2>11 DEF Leave
  <2>12. CASE Unauthorized
      BY <1>0, <2>12 DEF Unauthorized
  <2>13. CASE Retry
      BY <1>0, <2>13 DEF Retry
  <2>14. CASE Sleep
      BY <2>14 DEF Sleep
  <2> QED
      BY <1>2, <2>1, <2>2, <2>3, <2>4, <2>5, <2>6, <2>7, <2>8, <2>9, <2>10, <2>11, <2>12,
         <2>13, <2>14 DEF Subscribe
<1>3. CASE Translator
    BY <1>3 DEF Translator, TakeEvent, SendEvent, SendCancelled, RangeEnds
<1>4. ASSUME NEW l \in Links, Reader(l) PROVE TypeOK'
  <2> USE DEF Reading, Turn, Forget
  <2>1. CASE Read(l)
    <3> PICK f \in {"connected", "beat"} \cup pending :
            /\ frame' = [frame EXCEPT ![l] = f]
            /\ loaded' = [loaded EXCEPT ![l] = IF f \in Ids THEN receivedIds ELSE {}]
        BY <2>1 DEF Read
    <3> QED
        BY <2>1 DEF Read
  <2>2. CASE ReadFails(l)
      BY <2>2 DEF ReadFails
  <2>3. CASE HandleLogin(l)
      BY <2>3 DEF HandleLogin
  <2>4. CASE HandleMessage(l)
    <3>1. PICK list \in {receivedIds, loaded[l]} : receivedIds' = list \cup {frame[l]}
        BY <2>4 DEF HandleMessage
    <3>2. receivedIds' \subseteq Ids
        BY <2>4, <3>1 DEF HandleMessage
    <3>3. CASE ~creds
        BY <2>4, <3>2, <3>3 DEF HandleMessage
    <3>4. CASE creds
        BY <2>4, <3>2, <3>4 DEF HandleMessage
    <3> QED
        BY <3>3, <3>4
  <2>5. CASE HandleBeat(l)
      BY <2>5 DEF HandleBeat
  <2>6. CASE Ack(l)
      BY <2>6 DEF Ack
  <2>7. CASE AckPanics(l)
      BY <2>7 DEF AckPanics
  <2>8. CASE EmitRead(l)
      BY <1>0, <2>8 DEF EmitRead
  <2>9. CASE EmitPanics(l)
      BY <2>9 DEF EmitPanics
  <2> QED
      BY <1>4, <2>1, <2>2, <2>3, <2>4, <2>5, <2>6, <2>7, <2>8, <2>9 DEF Reader
<1>5. ASSUME NEW l \in Links, Heart(l) PROVE TypeOK'
  <2> USE DEF Beating, Beat
  <2>1. CASE HeartStops(l)
      BY <2>1 DEF HeartStops
  <2>2. CASE Expire(l)
      BY <2>2 DEF Expire
  <2>5. CASE PingFails(l)
      BY <2>5 DEF PingFails
  <2>6. CASE Deadman(l)
      BY <2>6 DEF Deadman
  <2>3. CASE HeartReports(l)
      BY <1>0, <2>3 DEF HeartReports, Reports
  <2>4. CASE HeartCancels(l)
      BY <2>4 DEF HeartCancels
  <2> QED
      BY <1>5, <2>1, <2>2, <2>3, <2>4, <2>5, <2>6 DEF Heart
<1>6. CASE UNCHANGED vars
    BY <1>6 DEF vars
<1> QED
    BY <1>1, <1>2, <1>3, <1>4, <1>5, <1>6 DEF Next
--------------------------------------------------------------------------------
(* Links. *)

LEMMA LinkStep ==
    ASSUME TypeOK, LinkInv, [Next]_vars
    PROVE  LinkInv'
<1> USE LimitAssumption DEF TypeOK, LinkInv, Past, OnLink, Subscribing
<1>1. CASE CallerEnds \/ Translator \/ UNCHANGED vars
    BY <1>1 DEF CallerEnds, Translator, TakeEvent, SendEvent, SendCancelled, RangeEnds, vars
<1>2. CASE Subscribe
  <2>1. CASE LoopEnds \/ Prepare \/ Registered \/ DialFails \/ Unauthorized \/ Retry \/ Sleep
      BY <2>1 DEF LoopEnds, Prepare, Registered, DialFails, Unauthorized, Retry, Sleep
  <2>2. CASE Dial
      BY <2>2 DEF Dial
  <2>3. CASE LoginFails \/ LinkLost
      BY <2>3 DEF LoginFails, LinkLost
  <2>4. CASE Login
      BY <2>4 DEF Login
  <2>5. CASE Disconnect
      BY <2>5 DEF Disconnect
  <2>6. CASE Report
      BY <2>6 DEF Report, Reports
  <2>7. CASE Leave
      BY <2>7 DEF Leave
  <2> QED
      BY <1>2, <2>1, <2>2, <2>3, <2>4, <2>5, <2>6, <2>7 DEF Subscribe
<1>3. ASSUME NEW l \in Links, Reader(l) PROVE LinkInv'
  <2>1. /\ UNCHANGED <<sub, link, open, cancelled, once, heart, reports>>
        /\ reader[l] # "none" /\ \A k \in Links \ {l} : reader'[k] = reader[k]
      BY <1>3 DEF Reader, Reading, Turn, Forget, Read, ReadFails, HandleLogin, HandleMessage,
                  HandleBeat, Ack, AckPanics, EmitRead, EmitPanics
  <2>2. l <= link /\ ~(sub = "login" /\ l = link)
      BY <2>1
  <2> QED
      BY <2>1, <2>2
<1>4. ASSUME NEW l \in Links, Heart(l) PROVE LinkInv'
  <2> USE DEF Beating, Beat
  <2>1. l <= link /\ ~(sub = "login" /\ l = link)
      BY <1>4 DEF Heart, HeartStops, PingFails, Deadman, Expire, HeartReports, HeartCancels
  <2>2. CASE HeartStops(l) \/ PingFails(l) \/ Deadman(l)
      BY <2>1, <2>2 DEF HeartStops, PingFails, Deadman
  <2>3. CASE Expire(l)
      BY <2>1, <2>3 DEF Expire
  <2>4. CASE HeartReports(l)
      BY <2>1, <2>4 DEF HeartReports, Reports
  <2>5. CASE HeartCancels(l)
      BY <2>1, <2>5 DEF HeartCancels
  <2> QED
      BY <1>4, <2>2, <2>3, <2>4, <2>5 DEF Heart
<1> QED
    BY <1>1, <1>2, <1>3, <1>4 DEF Next

--------------------------------------------------------------------------------
(* Messages. *)

\* A step that takes nothing out of a reader's hands and changes no list keeps them safe.
LEMMA MailKept ==
    ASSUME MailInv, UNCHANGED <<receivedIds, settled, loaded>>,
           crashed => crashed', InHand \subseteq InHand', pending' = pending
    PROVE  MailInv'
BY DEF MailInv, AcknowledgedNotLost, Safe

\* What a reader does with a frame leaves the other readers' hands alone.
LEMMA MailStep ==
    ASSUME TypeOK, LinkInv, MailInv, [Next]_vars
    PROVE  MailInv'
<1> USE DEF TypeOK
<1>1. CASE CallerEnds \/ Translator \/ UNCHANGED vars
  <2> UNCHANGED <<receivedIds, settled, loaded, crashed, pending, reader, frame>>
      BY <1>1 DEF CallerEnds, Translator, TakeEvent, SendEvent, SendCancelled, RangeEnds, vars
  <2> QED
      BY MailKept DEF InHand
<1>2. CASE Subscribe
  <2>1. CASE Login
    <3>1. reader[link] # "emitting" /\ ~crashed
        BY <2>1 DEF Login, Subscribing, LinkInv
    <3>2. InHand \subseteq InHand'
        BY <2>1, <3>1 DEF Login, InHand
    <3>3. pending' \in {pending, pending \ receivedIds}
          /\ UNCHANGED <<receivedIds, settled, loaded, crashed>>
        BY <2>1 DEF Login
    <3> QED
        BY <3>1, <3>2, <3>3 DEF MailInv, AcknowledgedNotLost, Safe
  <2>2. CASE Subscribe /\ ~Login
    <3> UNCHANGED <<receivedIds, settled, loaded, crashed, pending, reader, frame>>
        BY <2>2 DEF Subscribe, LoopEnds, Prepare, Registered, DialFails, Dial, LoginFails,
                    LinkLost, Disconnect, Report, Leave, Unauthorized, Retry, Sleep
    <3> QED
        BY MailKept DEF InHand
  <2> QED
      BY <1>2, <2>1, <2>2
<1>3. ASSUME NEW l \in Links, Reader(l) PROVE MailInv'
  <2> USE DEF Reading, Turn, Forget
  <2>1. CASE Read(l)
    <3>1. PICK f \in {"connected", "beat"} \cup pending :
            /\ frame' = [frame EXCEPT ![l] = f]
            /\ loaded' = [loaded EXCEPT ![l] = IF f \in Ids THEN receivedIds ELSE {}]
        BY <2>1 DEF Read
    <3>2. InHand \subseteq InHand' /\ ~crashed
          /\ UNCHANGED <<receivedIds, settled, crashed, pending>>
        BY <2>1, <3>1 DEF Read, InHand
    <3>3. \A k \in Links : loaded'[k] \subseteq receivedIds \cup loaded[k]
        BY <3>1
    <3> QED
        BY <3>2, <3>3 DEF MailInv, AcknowledgedNotLost, Safe
  <2>2. CASE ReadFails(l) \/ AckPanics(l) \/ EmitPanics(l) \/ Ack(l)
    <3>1. /\ \A k \in Links : reader[k] = "emitting" => reader'[k] = "emitting"
          /\ frame' = frame
      <4>1. CASE ReadFails(l)
          BY <4>1 DEF ReadFails
      <4>2. CASE AckPanics(l) \/ EmitPanics(l)
          BY <4>2 DEF AckPanics, EmitPanics
      <4>3. CASE Ack(l)
          BY <4>3 DEF Ack
      <4> QED
          BY <2>2, <4>1, <4>2, <4>3
    <3>2. InHand \subseteq InHand'
        BY <3>1, Zenon DEF InHand
    <3> QED
        BY <2>2, <3>2 DEF ReadFails, AckPanics, EmitPanics, Ack, MailInv, AcknowledgedNotLost, Safe
  <2>3. CASE HandleLogin(l)
    <3>1. InHand \subseteq InHand'
        BY <2>3 DEF HandleLogin, InHand
    <3> QED
        BY <2>3, <3>1 DEF HandleLogin, MailInv, AcknowledgedNotLost, Safe
  <2>4. CASE HandleBeat(l)
    <3>1. InHand \subseteq InHand'
        BY <2>4 DEF HandleBeat, InHand
    <3>2. \A k \in Links : loaded'[k] \subseteq loaded[k]
        BY <2>4 DEF HandleBeat
    <3> QED
        BY <2>4, <3>1, <3>2 DEF HandleBeat, MailInv, AcknowledgedNotLost, Safe
  <2>5. CASE HandleMessage(l)
    <3>1. PICK list \in {receivedIds, loaded[l]} : receivedIds' = list \cup {frame[l]}
        BY <2>5 DEF HandleMessage
    <3>2. /\ reader[l] # "emitting" /\ ~crashed /\ pending' = pending
          /\ \A k \in Links \ {l} : reader'[k] = reader[k] /\ frame'[k] = frame[k]
        BY <2>5 DEF HandleMessage
    <3>3. settled \subseteq settled' /\ \A k \in Links : loaded'[k] \subseteq loaded[k]
        BY <2>5 DEF HandleMessage
    <3>4. ~crashed' => frame[l] \in settled' \cup InHand'
        BY <2>5 DEF HandleMessage, InHand
    <3>5. InHand \subseteq InHand'
        BY <3>2 DEF InHand
    <3> QED
        BY <3>1, <3>2, <3>3, <3>4, <3>5 DEF MailInv, AcknowledgedNotLost, Safe
  <2>6. CASE EmitRead(l)
    <3>1. InHand \cap Ids \subseteq InHand' \cup settled'
        BY <2>6 DEF EmitRead, InHand
    <3>2. /\ UNCHANGED <<receivedIds, pending, crashed>> /\ settled \subseteq settled'
          /\ \A k \in Links : loaded'[k] \subseteq loaded[k]
        BY <2>6 DEF EmitRead
    <3> QED
        BY <3>1, <3>2 DEF MailInv, AcknowledgedNotLost, Safe
  <2> QED
      BY <1>3, <2>1, <2>2, <2>3, <2>4, <2>5, <2>6 DEF Reader
<1>4. ASSUME NEW l \in Links, Heart(l) PROVE MailInv'
  <2> UNCHANGED <<receivedIds, settled, loaded, crashed, pending, reader, frame>>
      BY <1>4 DEF Heart, HeartStops, PingFails, Deadman, Expire, HeartReports, HeartCancels
  <2> QED
      BY MailKept DEF InHand
<1> QED
    BY <1>1, <1>2, <1>3, <1>4 DEF Next

--------------------------------------------------------------------------------
(* Theorems. *)

\* The inductive invariant: who runs disconnect for each link, what is left of a link when
\* Subscribe has left it, and that every copy of receivedPersistentID names safe messages.
THEOREM PushInvariant == Spec => []IInv
<1>1. IInv /\ [Next]_vars => IInv'
    BY TypeStep, LinkStep, MailStep DEF IInv
<1> QED
    BY InitInvariant, <1>1, PTL DEF Spec

\* Every variable keeps its type, and Events its bound.
THEOREM TypeCorrect == Spec => []TypeOK
<1>1. IInv => TypeOK
    BY DEF IInv
<1> QED
    BY PushInvariant, <1>1, PTL

\* No message the server was told to forget is lost, however many links come and go and
\* however slowly the readers of the old ones end (Client.onDataMessage, connect).
THEOREM AcknowledgedNeverLost == Spec => []AcknowledgedNotLost
<1>1. IInv => AcknowledgedNotLost
    BY DEF IInv, MailInv
<1> QED
    BY PushInvariant, <1>1, PTL

\* Whoever finds a link dead, Subscribe retries with its socket closed, its context
\* cancelled and its end reported once (mcs.disconnect, the deferred calls of connect).
THEOREM LinksAlwaysEndCleanly == Spec => []LinksEndCleanly
<1>1. IInv => LinksEndCleanly
  <2> SUFFICES ASSUME IInv, NEW l \in 1 .. link
               PROVE  IF l = link /\ OnLink THEN reports[l] <= 1
                      ELSE ~open[l] /\ cancelled[l] /\ reports[l] = 1
      BY DEF LinksEndCleanly
  <2>1. l \in Links
      BY LimitAssumption DEF IInv, TypeOK
  <2>2. reports[l] = IF once[l] = "used" THEN 1 ELSE 0
      BY <2>1 DEF IInv, LinkInv
  <2>3. CASE l = link /\ OnLink
      BY <2>2, <2>3
  <2>4. CASE ~(l = link /\ OnLink)
    <3>1. Past(l)
        BY <2>4, LimitAssumption DEF IInv, TypeOK, Past
    <3> QED
        BY <2>1, <2>2, <2>4, <3>1 DEF IInv, LinkInv
  <2> QED
      BY <2>3, <2>4
<1> QED
    BY PushInvariant, <1>1, PTL

\* fcm.go:48: Subscribe's deferred close of Events comes after its own last event and that
\* of every heartbeat, so that only the readers' sends can find the channel closed.
THEOREM OnlyReadersLate == Spec => []OnlyReadersSendLate
<1> DEFINE ClosedInv == closed => sub = "finished"
<1>1. Init => ClosedInv
    BY DEF Init
<1>2. ClosedInv /\ [Next]_vars => ClosedInv'
  <2> SUFFICES ASSUME ClosedInv, [Next]_vars PROVE ClosedInv'
      OBVIOUS
  <2> USE DEF Subscribing
  <2>1. CASE CallerEnds \/ Translator \/ UNCHANGED vars
      BY <2>1 DEF CallerEnds, Translator, TakeEvent, SendEvent, SendCancelled, RangeEnds, vars
  <2>2. CASE Subscribe
      BY <2>2 DEF Subscribe, LoopEnds, Prepare, Registered, DialFails, Dial, LoginFails, Login,
                  LinkLost, Disconnect, Report, Leave, Unauthorized, Retry, Sleep
  <2>3. ASSUME NEW l \in Links, Reader(l) \/ Heart(l) PROVE ClosedInv'
      BY <2>3 DEF Reader, Heart, Read, ReadFails, HandleLogin, HandleMessage, HandleBeat, Ack,
                  AckPanics, EmitRead, EmitPanics, HeartStops, PingFails, Deadman, Expire,
                  HeartReports, HeartCancels
  <2> QED
      BY <2>1, <2>2, <2>3 DEF Next
<1>3. IInv /\ ClosedInv => OnlyReadersSendLate
  <2> SUFFICES ASSUME IInv, ClosedInv, closed, NEW l \in Links PROVE heart[l] # "reporting"
      BY DEF OnlyReadersSendLate
  <2>1. CASE l > link
      BY <2>1 DEF IInv, LinkInv
  <2>2. CASE l <= link
    <3>1. Past(l)
        BY <2>2, LimitAssumption DEF IInv, TypeOK, Past, OnLink
    <3> QED
        BY <3>1 DEF IInv, LinkInv
  <2> QED
      BY <2>1, <2>2, LimitAssumption DEF IInv, TypeOK
<1> QED
    BY <1>1, <1>2, <1>3, PushInvariant, PTL DEF Spec
================================================================================
