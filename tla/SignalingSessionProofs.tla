------------------------- MODULE SignalingSessionProofs -------------------------
(***************************************************************************)
(* Theorems about SignalingSession for every set of calls and every choice *)
(* of its times.  The inductive invariant relates the mutex-protected      *)
(* state (closed, terminal, pending) to what finish does after it has      *)
(* released the mutex (the calls it still has to tell, done, cancel), and  *)
(* each entry of pending to the call that registered it.                   *)
(***************************************************************************)
EXTENDS SignalingSession, TLAPS

\* How far the end of the session has come.
EndInv ==
    /\ EndReachesCalls
    /\ \A a \in Actors : /\ pc[a] \in FinishStates => closed
                         /\ pc[a] = "cancelling" => done

\* Entries of pending and their calls.
PendingInv ==
    /\ HandleNeverBlocks
    /\ ReturnedNotPending
    /\ \A c \in Calls :
          /\ id[c] <= sequence
          /\ pc[c] \in {"idle", "register"} =>
                id[c] = 0 /\ reply[c] = "empty" /\ c \notin orphans
    /\ \A p \in pending : p[1] >= 1 /\ p[1] <= sequence

IInv == TypeOK /\ EndInv /\ PendingInv

\* What a step of actor a does to the end of the session.
EndStep(a) ==
    /\ EndInv'
    /\ closed' \in BOOLEAN /\ terminal' \in Ends \cup {"none"}
    /\ done' \in BOOLEAN /\ cancelled' \in BOOLEAN
    /\ pending' \subseteq pending
    /\ orphans' \subseteq Calls
    /\ orphans' \subseteq orphans \cup {p[2] : p \in pending}
    /\ pc' \in [Actors -> States]
    /\ \A b \in Actors : b # a => pc'[b] = pc[b]

LEMMA CallsAreActors == Calls \subseteq Actors /\ Beat \in Actors /\ Expiry \in Actors
                        /\ Closer \in Actors /\ Reader \in Actors
BY DEF Actors

LEMMA AfterFinishLemma ==
    ASSUME NEW a \in Actors
    PROVE  /\ AfterFinish(a) \in {"sendFailed", "stopped", "joining", "idle"}
           /\ a \in Calls => AfterFinish(a) = "sendFailed"
BY DEF AfterFinish

\* The unlock of finish: its caller owns the rest of the end, or finds it taken.
LEMMA BeginFinishEnd ==
    ASSUME TypeOK, EndInv, NEW a \in Actors, NEW why \in Ends, pc[a] \notin FinishStates,
           BeginFinish(a, why), UNCHANGED <<done, cancelled>>
    PROVE  /\ EndStep(a)
           /\ pc'[a] \in {"finishing", "sendFailed", "stopped", "joining", "idle"}
           /\ a \in Calls => pc'[a] \in {"finishing", "sendFailed"}
<1>1. /\ AfterFinish(a) \in {"sendFailed", "stopped", "joining", "idle"}
      /\ a \in Calls => AfterFinish(a) = "sendFailed"
  BY AfterFinishLemma
<1>2. CASE closed /\ Goto(a, AfterFinish(a)) /\ UNCHANGED <<closed, terminal, pending, orphans>>
  <2>1. pc' \in [Actors -> States] /\ pc'[a] = AfterFinish(a)
        /\ \A b \in Actors : b # a => pc'[b] = pc[b]
    BY <1>1, <1>2 DEF Goto, TypeOK, States, CallStates, FinishStates
  <2>2. EndInv'
    BY <1>1, <1>2, <2>1 DEF EndInv, EndReachesCalls, FinishStates
  <2> QED BY <1>1, <1>2, <2>1, <2>2 DEF TypeOK, EndStep
<1>3. CASE /\ ~closed /\ closed' = TRUE /\ terminal' = why
           /\ orphans' = {p[2] : p \in pending} /\ pending' = {} /\ Goto(a, "finishing")
  <2>1. pc' \in [Actors -> States] /\ pc'[a] = "finishing"
        /\ \A b \in Actors : b # a => pc'[b] = pc[b]
    BY <1>3 DEF Goto, TypeOK, States, FinishStates
  <2>2. orphans' \subseteq Calls /\ terminal' \in Ends /\ terminal' # "none"
    BY <1>3 DEF TypeOK, Ends
  <2>3. EndInv'
    BY <1>3, <2>1, <2>2 DEF EndInv, EndReachesCalls, FinishStates
  <2>4. /\ closed' \in BOOLEAN /\ done' \in BOOLEAN /\ cancelled' \in BOOLEAN
        /\ pending' \subseteq pending /\ orphans' \subseteq orphans \cup {p[2] : p \in pending}
    BY <1>3 DEF TypeOK
  <2> QED BY <2>1, <2>2, <2>3, <2>4 DEF EndStep
<1> QED BY <1>2, <1>3 DEF BeginFinish

\* A step outside finish moves one actor and leaves the end of the session alone.
LEMMA GotoEnd ==
    ASSUME TypeOK, EndInv, NEW a \in Actors, NEW s \in States \ FinishStates,
           pc[a] \notin FinishStates, Goto(a, s), closed => pending' \subseteq pending,
           UNCHANGED <<closed, terminal, done, cancelled, orphans>>
    PROVE  /\ EndInv' /\ pc' \in [Actors -> States] /\ pc'[a] = s
           /\ \A b \in Actors : b # a => pc'[b] = pc[b]
           /\ pending' \subseteq pending => EndStep(a)
<1>1. pc' \in [Actors -> States] /\ pc'[a] = s /\ \A b \in Actors : b # a => pc'[b] = pc[b]
  BY DEF Goto, TypeOK
<1>2. EndInv'
  BY <1>1 DEF EndInv, EndReachesCalls, FinishStates
<1> QED BY <1>1, <1>2 DEF EndStep, TypeOK

\* A step that moves no actor leaves it alone too.
LEMMA StayEnd ==
    ASSUME TypeOK, EndInv, pending' \subseteq pending, NEW a \in Actors,
           UNCHANGED <<closed, terminal, done, cancelled, orphans, pc>>
    PROVE  EndStep(a)
<1>1. EndInv'
  BY DEF EndInv, EndReachesCalls
<1> QED BY <1>1 DEF EndStep, TypeOK

\* A failing Send: a call looks at the error, the heartbeat worker ends the session.
LEMMA SendFailsEnd ==
    ASSUME TypeOK, EndInv, NEW a \in Calls \cup {Beat}, NEW err \in SendErrors,
           a = Beat => err \in Ends, pc[a] \notin FinishStates,
           SendFails(a, err), UNCHANGED <<done, cancelled>>
    PROVE  /\ EndStep(a) /\ sendErr' \in [Calls -> SendErrors]
           /\ a \in Calls => pc'[a] = "sendFailed"
<1>1. a \in Actors /\ Beat \notin Calls
  BY ActorsAssumption DEF Actors
<1>2. CASE a = Beat
  <2>1. err \in Ends /\ BeginFinish(a, err) /\ sendErr' = sendErr
    BY <1>2 DEF SendFails
  <2>2. EndStep(a)
    BY <1>1, <2>1, BeginFinishEnd
  <2> QED BY <1>1, <1>2, <2>1, <2>2 DEF TypeOK
<1>3. CASE a # Beat
  <2>1. /\ sendErr' = [sendErr EXCEPT ![a] = err] /\ Goto(a, "sendFailed")
        /\ UNCHANGED <<closed, terminal, pending, orphans>>
    BY <1>3 DEF SendFails
  <2>2. "sendFailed" \in States \ FinishStates
    BY DEF States, CallStates, FinishStates
  <2>3. EndStep(a) /\ pc'[a] = "sendFailed"
    BY <1>1, <2>1, <2>2, GotoEnd
  <2>4. sendErr' \in [Calls -> SendErrors]
    BY <2>1 DEF TypeOK
  <2> QED BY <2>3, <2>4
<1> QED BY <1>2, <1>3

\* The steps of finish after the unlock.
LEMMA FinishEnd ==
    ASSUME TypeOK, EndInv, NEW a \in Actors, Finish(a)
    PROVE  /\ EndStep(a) /\ pc[a] \in FinishStates
           /\ a \in Calls => pc'[a] \in FinishStates \cup {"sendFailed"}
           /\ closed
<1>1. /\ AfterFinish(a) \in {"sendFailed", "stopped", "joining", "idle"}
      /\ a \in Calls => AfterFinish(a) = "sendFailed"
  BY AfterFinishLemma
<1>2. CASE FinishReply(a)
  <2>1. /\ UNCHANGED <<closed, terminal, done, cancelled, pending>> /\ orphans' \subseteq orphans
        /\ pc[a] = "finishing"
        /\ pc' = pc \/ (orphans' = {} /\ Goto(a, "announcing"))
    BY <1>2 DEF FinishReply, shared, clocks
  <2>2. /\ pc' \in [Actors -> States] /\ pc'[a] \in {"finishing", "announcing"}
        /\ \A b \in Actors : b # a => pc'[b] = pc[b]
    BY <2>1 DEF Goto, TypeOK, States, FinishStates
  <2>3. EndInv' /\ closed
    BY <2>1, <2>2 DEF EndInv, EndReachesCalls, FinishStates, Goto
  <2> QED BY <2>1, <2>2, <2>3 DEF EndStep, TypeOK, FinishStates
<1>3. CASE FinishAnnounce(a)
  <2>1. /\ UNCHANGED <<closed, terminal, cancelled, pending, orphans>> /\ done' = TRUE
        /\ pc[a] = "announcing" /\ Goto(a, "cancelling")
    BY <1>3 DEF FinishAnnounce, routing
  <2>2. /\ pc' \in [Actors -> States] /\ pc'[a] = "cancelling"
        /\ \A b \in Actors : b # a => pc'[b] = pc[b]
    BY <2>1 DEF Goto, TypeOK, States, FinishStates
  <2>3. closed
    BY <2>1 DEF EndInv, FinishStates
  <2>4. EndInv'
    BY <2>1, <2>2, <2>3 DEF EndInv, EndReachesCalls, FinishStates
  <2> QED BY <2>1, <2>2, <2>3, <2>4 DEF EndStep, TypeOK, FinishStates
<1>4. CASE FinishCancel(a)
  <2>1. /\ UNCHANGED <<closed, terminal, done, pending, orphans>> /\ cancelled' = TRUE
        /\ pc[a] = "cancelling" /\ Goto(a, AfterFinish(a))
    BY <1>4 DEF FinishCancel, routing
  <2>2. /\ pc' \in [Actors -> States] /\ pc'[a] = AfterFinish(a)
        /\ \A b \in Actors : b # a => pc'[b] = pc[b]
    BY <1>1, <2>1 DEF Goto, TypeOK, States, CallStates, FinishStates
  <2>3. done /\ closed
    BY <2>1 DEF EndInv, FinishStates
  <2>4. EndInv'
    BY <1>1, <2>1, <2>2, <2>3 DEF EndInv, EndReachesCalls, FinishStates
  <2> QED BY <1>1, <2>1, <2>2, <2>3, <2>4 DEF EndStep, TypeOK, FinishStates
<1> QED BY <1>2, <1>3, <1>4 DEF Finish

\* Every step that adds nothing to pending, lets no call return and leaves the reply
\* channels alone keeps the entries of pending and their calls in agreement.
LEMMA PendingStep ==
    ASSUME TypeOK, PendingInv, NEW a \in Actors, EndStep(a),
           UNCHANGED <<sequence, id, reply>>,
           a \in Calls => \/ pc'[a] = pc[a]
                          \/ pc'[a] \notin {"idle", "register", "returned"}
    PROVE  PendingInv'
<1>1. \A c \in Calls : \/ pc'[c] = pc[c]
                       \/ pc'[c] \notin {"idle", "register", "returned"}
  BY DEF EndStep, Actors
<1>2. HandleNeverBlocks' /\ ReturnedNotPending'
  <2>1. SUFFICES ASSUME NEW p \in pending'
                 PROVE  /\ reply[p[2]] = "empty" /\ id[p[2]] = p[1]
                        /\ pc'[p[2]] # "returned"
    BY DEF HandleNeverBlocks, ReturnedNotPending
  <2>2. p \in pending /\ p[2] \in Calls
    BY DEF EndStep, TypeOK
  <2> QED BY <1>1, <2>2 DEF PendingInv, HandleNeverBlocks, ReturnedNotPending
<1>3. ASSUME NEW c \in Calls, pc'[c] \in {"idle", "register"}
      PROVE  id[c] = 0 /\ reply[c] = "empty" /\ c \notin orphans'
  <2>1. pc[c] \in {"idle", "register"}
    BY <1>1, <1>3
  <2>2. id[c] = 0 /\ reply[c] = "empty" /\ c \notin orphans
    BY <2>1 DEF PendingInv
  <2>3. ASSUME NEW p \in pending PROVE p[2] # c
    BY <2>2, <2>3 DEF PendingInv, HandleNeverBlocks, TypeOK
  <2> QED BY <2>2, <2>3 DEF EndStep
<1>4. \A p \in pending' : p[1] >= 1 /\ p[1] <= sequence
  BY DEF EndStep, PendingInv
<1> QED BY <1>2, <1>3, <1>4 DEF PendingInv

\* Send, of a call or of the heartbeat worker.
LEMMA SendStep ==
    ASSUME IInv, NEW a \in Calls \cup {Beat}, Send(a) \/ SendReturns(a)
    PROVE  IInv'
<1> USE DEF IInv
<1>0. a \in Actors /\ Beat \notin Calls
  BY ActorsAssumption DEF Actors
<1>1. /\ UNCHANGED <<clocks, parentEnded, done, cancelled, sequence, replied, id,
                     deadline, cause, reply, answer>>
      /\ pc[a] \in {"send", "sendClosed", "sendExpiry", "sending"}
  BY DEF Send, SendContext, SendClosed, SendExpiry, SendAborted, SendReturns
<1>2. UNCHANGED <<now, lastPong, tickAt, parentEnded, done, cancelled, sequence, replied,
                  id, deadline, cause, reply, answer>>
  BY <1>1 DEF clocks
<1>3. pc[a] \notin FinishStates
  BY <1>1 DEF FinishStates
<1>4. /\ EndStep(a) /\ sendErr' \in [Calls -> SendErrors]
      /\ a \in Calls => pc'[a] \notin {"idle", "register", "returned"}
  <2> DEFINE Goal == /\ EndStep(a) /\ sendErr' \in [Calls -> SendErrors]
                     /\ a \in Calls => pc'[a] \notin {"idle", "register", "returned"}
  <2>1. ASSUME NEW err \in SendErrors, a = Beat => err \in Ends, SendFails(a, err)
        PROVE  Goal
    BY <1>0, <1>2, <1>3, <2>1, SendFailsEnd
  <2>2. ASSUME NEW s \in {"sendClosed", "sendExpiry", "sending", "waiting", "reply"},
               Goto(a, s), UNCHANGED <<closed, terminal, pending, orphans, sendErr>>
        PROVE  Goal
    <3>1. s \in States \ FinishStates
      BY DEF States, CallStates, FinishStates
    <3>2. EndStep(a) /\ pc'[a] = s
      BY <1>0, <1>2, <1>3, <2>2, <3>1, GotoEnd
    <3> QED BY <2>2, <3>2 DEF TypeOK
  <2>3. {"context", "transport", "caller", "interrupted", "expired"} \subseteq SendErrors
        /\ {"context", "transport", "expired"} \subseteq Ends /\ Ends \subseteq SendErrors
    BY DEF SendErrors, Ends
  <2>4. CASE SendContext(a)
    BY <2>1, <2>2, <2>3, <2>4 DEF SendContext
  <2>5. CASE SendClosed(a)
    <3>1. closed => terminal \in Ends
      BY DEF TypeOK, EndInv, EndReachesCalls
    <3> QED BY <2>1, <2>2, <2>3, <2>5, <3>1 DEF SendClosed
  <2>6. CASE SendExpiry(a)
    <3>0. now \in Nat /\ MaxAge \in Nat
      BY TimesAssumption DEF TypeOK
    <3>1. CASE now < MaxAge
      <4>1. Goto(a, "sending") /\ UNCHANGED <<closed, terminal, pending, orphans, sendErr>>
        BY <2>6, <3>0, <3>1 DEF SendExpiry
      <4> QED BY <2>2, <4>1
    <3>2. CASE ~(now < MaxAge)
      <4>1. /\ BeginFinish(a, "expired")
            /\ sendErr' = IF a = Beat THEN sendErr ELSE [sendErr EXCEPT ![a] = "expired"]
        BY <2>6, <3>0, <3>2 DEF SendExpiry
      <4>2. EndStep(a) /\ (a \in Calls => pc'[a] \in {"finishing", "sendFailed"})
        BY <1>0, <1>2, <1>3, <2>3, <4>1, BeginFinishEnd
      <4>3. sendErr' \in [Calls -> SendErrors]
        BY <2>3, <4>1 DEF TypeOK
      <4> QED BY <4>2, <4>3
    <3> QED BY <3>1, <3>2
  <2>7. CASE SendAborted(a)
    BY <2>1, <2>3, <2>7 DEF SendAborted
  <2>8. CASE SendReturns(a)
    BY <2>1, <2>2, <2>3, <2>8 DEF SendReturns
  <2> QED BY <2>4, <2>5, <2>6, <2>7, <2>8 DEF Send
<1>5. PendingInv'
  BY <1>0, <1>2, <1>4, PendingStep
<1>6. TypeOK'
  BY <1>2, <1>4 DEF TypeOK, EndStep
<1> QED BY <1>4, <1>5, <1>6 DEF EndStep

\* finish after the unlock: nothing is pending any more, so a full reply channel is
\* never one of a pending call.
LEMMA FinishStep ==
    ASSUME IInv, NEW a \in Actors, Finish(a)
    PROVE  IInv'
<1> USE DEF IInv
<1>1. EndStep(a) /\ (a \in Calls => pc'[a] \in FinishStates \cup {"sendFailed"}) /\ closed
  BY FinishEnd
<1>2. UNCHANGED <<now, lastPong, tickAt, parentEnded, sequence, replied, id,
                  deadline, cause, sendErr, answer>>
  BY DEF Finish, FinishReply, FinishAnnounce, FinishCancel, clocks, routing, locals
<1>3. /\ reply' \in [Calls -> Ends \cup PeerReplies \cup {"empty"}]
      /\ \A c \in Calls : c \notin orphans => reply'[c] = reply[c]
  <2>1. terminal \in Ends
    BY <1>1 DEF TypeOK, EndInv, EndReachesCalls
  <2>2. CASE FinishReply(a)
    BY <2>1, <2>2 DEF FinishReply, TypeOK
  <2>3. CASE FinishAnnounce(a) \/ FinishCancel(a)
    BY <2>3 DEF FinishAnnounce, FinishCancel, locals, TypeOK
  <2> QED BY <2>2, <2>3 DEF Finish
<1>4. PendingInv'
  <2>1. pending' = {}
    BY <1>1 DEF EndStep, EndInv, EndReachesCalls
  <2>2. ASSUME NEW c \in Calls, pc'[c] \in {"idle", "register"}
        PROVE  id[c] = 0 /\ reply'[c] = "empty" /\ c \notin orphans'
    <3>1. pc[c] \in {"idle", "register"}
      BY <1>1, <2>2 DEF EndStep, Actors, FinishStates
    <3>2. id[c] = 0 /\ reply[c] = "empty" /\ c \notin orphans
      BY <3>1 DEF PendingInv
    <3>3. pending = {}
      BY <1>1 DEF EndInv, EndReachesCalls
    <3> QED BY <1>1, <1>3, <3>2, <3>3 DEF EndStep
  <2>3. \A c \in Calls : id'[c] <= sequence'
    BY <1>2 DEF PendingInv
  <2> QED BY <1>2, <2>1, <2>2, <2>3 DEF PendingInv, HandleNeverBlocks, ReturnedNotPending
<1>5. TypeOK'
  BY <1>1, <1>2, <1>3 DEF TypeOK, EndStep
<1> QED BY <1>1, <1>4, <1>5 DEF EndStep

\* The workers, Close and Fail.
LEMMA WorkerCloseFailStep ==
    ASSUME IInv, WorkerStep \/ CloseStart \/ Fail
    PROVE  IInv'
<1> USE DEF IInv
<1> DEFINE Moves(b) ==
        /\ EndStep(b)
        /\ UNCHANGED <<now, lastPong, parentEnded, sequence, replied, id, deadline,
                       cause, reply, sendErr, answer>>
        /\ tickAt' \in Nat
<1>1. PICK a \in {Beat, Expiry, Closer, Reader} : Moves(a)
  <2>1. {Beat, Expiry, Closer, Reader} \subseteq Actors
    BY CallsAreActors
  <2>2. {"closed", "failed", "expired", "heartbeat", "context"} \subseteq Ends
        /\ {"stopped", "late", "send", "returned"} \subseteq States \ FinishStates
        /\ {"waiting", "late", "idle", "joining"} \cap FinishStates = {}
    BY DEF Ends, States, CallStates, FinishStates
  <2>3. tickAt \in Nat /\ now \in Nat /\ Heartbeat \in Nat /\ now + Heartbeat \in Nat
    BY TimesAssumption DEF TypeOK
  <2>4. CASE BeatTick
    <3>1. PICK s \in {"stopped", "late", "send"} : Goto(Beat, s) /\ tickAt' \in Nat
      BY <2>3, <2>4 DEF BeatTick
    <3>2. /\ UNCHANGED <<now, lastPong, parentEnded, closed, terminal, done, cancelled,
                        sequence, pending, orphans, replied, id, deadline,
                        cause, reply, sendErr, answer>>
          /\ pc[Beat] = "waiting"
      BY <2>4 DEF BeatTick, shared, routing, locals
    <3>3. EndStep(Beat)
      BY <2>1, <2>2, <3>1, <3>2, GotoEnd
    <3> QED BY <3>1, <3>2, <3>3
  <2>5. ASSUME NEW b \in {Beat, Expiry, Closer, Reader}, NEW why \in Ends,
               BeginFinish(b, why), pc[b] \notin FinishStates,
               UNCHANGED <<clocks, parentEnded, done, cancelled, sequence, replied, locals>>
        PROVE  Moves(b)
    BY <2>1, <2>3, <2>5, BeginFinishEnd DEF clocks, locals
  <2>6. CASE BeatLate
    BY <2>2, <2>5, <2>6 DEF BeatLate
  <2>7. CASE ExpiryFires
    BY <2>2, <2>5, <2>7 DEF ExpiryFires
  <2>8. CASE CloseStart
    BY <2>2, <2>5, <2>8 DEF CloseStart
  <2>9. CASE Fail
    BY <2>2, <2>5, <2>9 DEF Fail
  <2>10. CASE CloseJoin
    <3>1. /\ UNCHANGED <<now, lastPong, tickAt, parentEnded, closed, terminal, done, cancelled,
                        sequence, pending, orphans, replied, id, deadline,
                        cause, reply, sendErr, answer>>
          /\ pc[Closer] = "joining" /\ Goto(Closer, "returned")
      BY <2>10 DEF CloseJoin, clocks, shared, routing, locals
    <3>2. EndStep(Closer)
      BY <2>1, <2>2, <3>1, GotoEnd
    <3> QED BY <2>3, <3>1, <3>2
  <2> QED BY <2>4, <2>6, <2>7, <2>8, <2>9, <2>10 DEF WorkerStep
<1>2. a \in Actors /\ a \notin Calls
  BY ActorsAssumption, CallsAreActors
<1>3. PendingInv'
  BY <1>1, <1>2, PendingStep
<1>4. TypeOK'
  BY <1>1 DEF TypeOK, EndStep
<1> QED BY <1>1, <1>3, <1>4 DEF EndStep

\* A call enters pending under a fresh id, with an empty reply channel.
LEMMA RegisterStep ==
    ASSUME IInv, NEW c \in Calls, CallRegister(c)
    PROVE  IInv'
<1> USE DEF IInv
<1>0. c \in Actors /\ pc[c] = "register" /\ pc[c] \notin FinishStates
      /\ {"returned", "send"} \subseteq States \ FinishStates
  BY CallsAreActors DEF CallRegister, States, CallStates, FinishStates
<1>1. /\ UNCHANGED <<now, lastPong, tickAt, parentEnded, closed, terminal, done, cancelled,
                    orphans, replied, deadline, cause, reply, sendErr>>
  BY DEF CallRegister, clocks, shared
<1>2. CASE closed
  <2>1. UNCHANGED <<sequence, pending, id>> /\ Goto(c, "returned")
        /\ answer' = [answer EXCEPT ![c] = terminal]
    BY <1>2 DEF CallRegister
  <2>2. EndStep(c) /\ terminal \in Ends /\ pending = {}
    BY <1>0, <1>1, <1>2, <2>1, GotoEnd DEF TypeOK, EndInv, EndReachesCalls
  <2>3. answer' \in [Calls -> Answers]
    BY <2>1, <2>2 DEF TypeOK, Answers
  <2>4. TypeOK'
    BY <1>1, <2>1, <2>2, <2>3 DEF TypeOK, EndStep
  <2>5. \A d \in Calls : pc'[d] \in {"idle", "register"} => pc'[d] = pc[d]
    BY <2>1, <2>2 DEF EndStep, Actors, Goto, TypeOK
  <2>6. PendingInv'
    BY <1>1, <2>1, <2>2, <2>5 DEF PendingInv, HandleNeverBlocks, ReturnedNotPending
  <2> QED BY <2>2, <2>4, <2>6 DEF EndStep
<1>3. CASE ~closed
  <2>1. /\ Goto(c, "send") /\ sequence' = sequence + 1
        /\ id' = [id EXCEPT ![c] = sequence + 1] /\ answer' = answer
        /\ pending' = {p \in pending : p[1] # sequence + 1} \cup {<<sequence + 1, c>>}
    BY <1>3 DEF CallRegister
  <2>2. /\ EndInv' /\ pc' \in [Actors -> States] /\ pc'[c] = "send"
        /\ \A b \in Actors : b # c => pc'[b] = pc[b]
    BY <1>0, <1>1, <1>3, <2>1, GotoEnd
  <2>3. /\ sequence \in Nat /\ sequence' \in Nat /\ id \in [Calls -> Nat]
        /\ id' \in [Calls -> Nat] /\ pending \subseteq Nat \X Calls
        /\ pending' \subseteq Nat \X Calls
    BY <2>1 DEF TypeOK
  <2>4. TypeOK'
    BY <1>1, <2>1, <2>2, <2>3 DEF TypeOK
  <2>5. id[c] = 0 /\ reply[c] = "empty" /\ c \notin orphans
    BY <1>0 DEF PendingInv
  <2>6. \A p \in pending' : \/ p = <<sequence + 1, c>>
                            \/ p \in pending /\ p[2] # c
    BY <2>1, <2>3, <2>5 DEF PendingInv, HandleNeverBlocks
  <2>7. \A p \in pending' : /\ reply[p[2]] = "empty" /\ id'[p[2]] = p[1]
                            /\ pc'[p[2]] # "returned"
                            /\ p[1] >= 1 /\ p[1] <= sequence + 1
    <3> TAKE p \in pending'
    <3>1. CASE p = <<sequence + 1, c>>
      BY <2>1, <2>2, <2>3, <2>5, <3>1
    <3>2. CASE p \in pending /\ p[2] # c
      BY <2>1, <2>2, <2>3, <3>2 DEF PendingInv, HandleNeverBlocks, ReturnedNotPending, Actors
    <3> QED BY <2>6, <3>1, <3>2
  <2>8. ASSUME NEW d \in Calls
        PROVE  /\ id'[d] <= sequence + 1
               /\ pc'[d] \in {"idle", "register"} =>
                      id'[d] = 0 /\ reply[d] = "empty" /\ d \notin orphans
    BY <2>1, <2>2, <2>3 DEF PendingInv, Actors
  <2>9. PendingInv'
    BY <1>1, <2>1, <2>7, <2>8 DEF PendingInv, HandleNeverBlocks, ReturnedNotPending
  <2> QED BY <2>2, <2>4, <2>9
<1> QED BY <1>2, <1>3

\* A call that returns deletes its entry first.
LEMMA CleanupStep ==
    ASSUME IInv, NEW c \in Calls, CallCleanup(c)
    PROVE  IInv'
<1> USE DEF IInv
<1>1. /\ UNCHANGED <<now, lastPong, tickAt, parentEnded, closed, terminal, done, cancelled,
                    sequence, orphans, replied, id, deadline, cause, sendErr, answer>>
      /\ pc[c] = "cleanup" /\ Goto(c, "returned")
      /\ pending' = {p \in pending : p[1] # id[c]}
      /\ reply' = [reply EXCEPT ![c] = "empty"]
  BY DEF CallCleanup, Forget, clocks, shared
<1>2. EndStep(c) /\ pc'[c] = "returned" /\ c \in Actors
  BY <1>1, CallsAreActors, GotoEnd DEF States, CallStates, FinishStates
<1>3. reply' \in [Calls -> Ends \cup PeerReplies \cup {"empty"}]
  BY <1>1 DEF TypeOK
<1>4. TypeOK'
  BY <1>1, <1>2, <1>3 DEF TypeOK, EndStep
<1>5. \A p \in pending' : p \in pending /\ p[2] \in Calls /\ p[2] # c
  BY <1>1 DEF PendingInv, HandleNeverBlocks, TypeOK
<1>6. \A d \in Calls : d # c => pc'[d] = pc[d] /\ reply'[d] = reply[d]
  BY <1>1, <1>2 DEF EndStep, Actors, TypeOK
<1>7. PendingInv'
  BY <1>1, <1>2, <1>5, <1>6 DEF PendingInv, HandleNeverBlocks, ReturnedNotPending
<1> QED BY <1>2, <1>4, <1>7 DEF EndStep

\* The other steps of a call, its watcher and its caller.
LEMMA CallStep ==
    ASSUME IInv, NEW c \in Calls, Call(c) \/ Watch(c) \/ CallerGivesUp(c)
    PROVE  IInv'
<1> USE DEF IInv
<1>0. c \in Actors /\ {"returned", "register", "cleanup"} \subseteq States \ FinishStates
      /\ {"idle", "sendFailed", "reply"} \cap FinishStates = {}
  BY CallsAreActors DEF States, CallStates, FinishStates
<1>1. CASE CallStart(c)
  <2>1. /\ UNCHANGED <<now, lastPong, tickAt, parentEnded, closed, terminal, done, cancelled,
                      sequence, pending, orphans, replied, id, cause, reply, sendErr>>
        /\ pc[c] = "idle"
    BY <1>1 DEF CallStart, clocks, shared, routing
  <2>2. PICK s \in {"returned", "register"} : Goto(c, s)
    BY <1>1 DEF CallStart
  <2>3. deadline' \in [Calls -> Nat] /\ answer' \in [Calls -> Answers]
    <3>1. now + ResponseTimeout \in Nat
      BY TimesAssumption DEF TypeOK
    <3>2. "caller" \in Answers
      BY DEF Answers, CallerEnds
    <3> QED BY <1>1, <3>1, <3>2 DEF CallStart, TypeOK
  <2>4. EndStep(c) /\ pc'[c] = s
    BY <1>0, <2>1, <2>2, GotoEnd
  <2>5. TypeOK'
    BY <2>1, <2>3, <2>4 DEF TypeOK, EndStep
  <2>6. id[c] = 0 /\ reply[c] = "empty" /\ c \notin orphans
    BY <2>1 DEF PendingInv
  <2>7. \A p \in pending : p[2] \in Calls /\ p[2] # c
    BY <2>6 DEF PendingInv, HandleNeverBlocks, TypeOK
  <2>8. \A d \in Calls : d # c => pc'[d] = pc[d]
    BY <2>4 DEF EndStep, Actors
  <2>9. PendingInv'
    BY <2>1, <2>4, <2>6, <2>7, <2>8 DEF PendingInv, HandleNeverBlocks, ReturnedNotPending
  <2> QED BY <2>4, <2>5, <2>9 DEF EndStep
<1>2. CASE CallSendFailed(c) \/ CallSelect(c)
  <2>1. /\ UNCHANGED <<now, lastPong, tickAt, parentEnded, closed, terminal, done, cancelled,
                      sequence, pending, orphans, replied, id, reply>>
        /\ pc[c] \in {"sendFailed", "reply"} /\ Goto(c, "cleanup") /\ DropLocals(c)
    BY <1>2 DEF CallSendFailed, CallSelect, clocks, shared, routing
  <2>2. answer' \in [Calls -> Answers]
    <3>1. done => terminal \in Answers
      BY DEF TypeOK, EndInv, EndReachesCalls, Answers
    <3>2. (cause[c] # "none" => cause[c] \in Answers) /\ sendErr[c] \in Answers
      BY DEF TypeOK, Answers
    <3>3. CASE CallSendFailed(c)
      BY <3>1, <3>2, <3>3 DEF CallSendFailed, TypeOK
    <3>4. CASE CallSelect(c)
      BY <3>4 DEF CallSelect, TypeOK
    <3> QED BY <1>2, <3>3, <3>4
  <2>3. EndStep(c) /\ pc'[c] = "cleanup"
    BY <1>0, <2>1, GotoEnd
  <2>3a. /\ deadline' \in [Calls -> Nat] /\ sendErr' \in [Calls -> SendErrors]
         /\ cause' \in [Calls -> Ends \cup CallerEnds \cup {"none"}]
    BY <2>1 DEF DropLocals, TypeOK, SendErrors
  <2>4. TypeOK'
    BY <2>1, <2>2, <2>3, <2>3a DEF TypeOK, EndStep
  <2>5. PendingInv'
    BY <1>0, <2>1, <2>3, PendingStep
  <2> QED BY <2>3, <2>4, <2>5 DEF EndStep
<1>3. CASE Watch(c) \/ CallerGivesUp(c)
  <2>1. UNCHANGED <<now, lastPong, tickAt, parentEnded, closed, terminal, done, cancelled,
                    sequence, pending, orphans, replied, pc, id, deadline, reply,
                    sendErr, answer>>
    BY <1>3 DEF Watch, CallerGivesUp, clocks, shared, routing
  <2>2. cause' \in [Calls -> Ends \cup CallerEnds \cup {"none"}]
    BY <1>3 DEF Watch, CallerGivesUp, CallerEnds, TypeOK
  <2>3. EndStep(c)
    BY <1>0, <2>1, StayEnd
  <2>4. TypeOK' /\ PendingInv'
    BY <1>0, <2>1, <2>2, <2>3, PendingStep DEF TypeOK, EndStep
  <2> QED BY <2>3, <2>4 DEF EndStep
<1> QED BY <1>1, <1>2, <1>3, RegisterStep, CleanupStep DEF Call

\* A peer's reply fills the channel of one pending call and takes its entry with it.
LEMMA HandleReplyStep ==
    ASSUME IInv, HandleReply
    PROVE  IInv'
<1> USE DEF IInv
<1>1. UNCHANGED <<now, lastPong, tickAt, parentEnded, closed, terminal, done, cancelled,
                  sequence, orphans, pc, id, deadline, cause, sendErr, answer>>
  BY DEF HandleReply, clocks, shared, Forget
<1>2. PICK p \in pending, whose \in WireReplies :
        /\ reply' = [reply EXCEPT ![p[2]] = "reply"]
        /\ pending' = {q \in pending : q[1] # p[1]}
        /\ replied' = replied \cup {<<p[1], whose>>}
  BY DEF HandleReply, Forget
<1>3. p[1] \in Nat /\ p[2] \in Calls /\ id[p[2]] = p[1] /\ p[1] >= 1
  BY DEF TypeOK, PendingInv, HandleNeverBlocks
<1>4. EndStep(Reader)
  BY <1>1, <1>2, StayEnd, CallsAreActors
<1>5. TypeOK'
  <2>1. "reply" \in PeerReplies
    BY DEF PeerReplies
  <2>2. /\ reply' \in [Calls -> Ends \cup PeerReplies \cup {"empty"}]
        /\ replied' \subseteq Nat \X WireReplies
    BY <1>2, <1>3, <2>1 DEF TypeOK
  <2> QED BY <1>1, <1>4, <2>2 DEF TypeOK, EndStep
<1>6. \A q \in pending' : q \in pending /\ q[2] \in Calls /\ q[2] # p[2]
  BY <1>2, <1>3 DEF PendingInv, HandleNeverBlocks, TypeOK
<1>7. \A d \in Calls : /\ d # p[2] => reply'[d] = reply[d]
                       /\ pc[d] \in {"idle", "register"} => d # p[2]
  BY <1>2, <1>3 DEF PendingInv, TypeOK
<1>8. PendingInv'
  BY <1>1, <1>6, <1>7 DEF PendingInv, HandleNeverBlocks, ReturnedNotPending
<1> QED BY <1>4, <1>5, <1>8 DEF EndStep

\* Pongs, the parent context and the clock.
LEMMA OtherStep ==
    ASSUME IInv, HandlePong \/ ParentEnds \/ Tick
    PROVE  IInv'
<1> USE DEF IInv
<1>1. UNCHANGED <<tickAt, closed, terminal, done, cancelled, sequence, pending, orphans,
                  replied, pc, id, deadline, cause, reply, sendErr, answer>>
  BY DEF HandlePong, ParentEnds, Tick, clocks, shared, routing, locals
<1>2. EndStep(Reader) /\ Reader \in Actors
  BY <1>1, StayEnd, CallsAreActors
<1>3. /\ now' \in 0..Horizon /\ lastPong' \in 0..now'
      /\ parentEnded' \in BOOLEAN
  <2>0. /\ now \in 0..Horizon /\ lastPong \in 0..now
        /\ parentEnded \in BOOLEAN /\ Horizon \in Nat
    BY TimesAssumption DEF TypeOK
  <2>1. CASE HandlePong
    BY <2>0, <2>1 DEF HandlePong
  <2>2. CASE ParentEnds
    BY <2>0, <2>2 DEF ParentEnds, clocks
  <2>3. CASE Tick
    BY <2>0, <2>3 DEF Tick
  <2> QED BY <2>1, <2>2, <2>3
<1>4. TypeOK'
  BY <1>1, <1>2, <1>3 DEF TypeOK, EndStep
<1>5. PendingInv'
  BY <1>1, <1>2, PendingStep
<1> QED BY <1>2, <1>4, <1>5 DEF EndStep

--------------------------------------------------------------------------------
(* Theorems. *)

\* The inductive invariant: types, the stages of the session's end, and the agreement
\* between the entries of pending and the calls that registered them.
THEOREM SessionInvariant == Spec => []IInv
<1>1. Init => IInv
  <2> SUFFICES ASSUME Init PROVE IInv
    OBVIOUS
  <2>1. TypeOK
    <3>1. pc \in [Actors -> States]
      BY DEF Init, States, CallStates
    <3>2. /\ id \in [Calls -> Nat] /\ deadline \in [Calls -> Nat]
          /\ cause \in [Calls -> Ends \cup CallerEnds \cup {"none"}]
          /\ reply \in [Calls -> Ends \cup PeerReplies \cup {"empty"}]
      BY DEF Init
    <3>3. sendErr \in [Calls -> SendErrors] /\ answer \in [Calls -> Answers]
      BY DEF Init, SendErrors, Answers
    <3>4. 0 \in 0..Horizon /\ 0 \in 0..0 /\ Heartbeat \in Nat
      BY TimesAssumption
    <3> QED BY <3>1, <3>2, <3>3, <3>4 DEF Init, TypeOK
  <2>2. \A a \in Actors : pc[a] \notin FinishStates
    BY DEF Init, FinishStates
  <2>3. EndInv
    BY <2>2 DEF Init, EndInv, EndReachesCalls, FinishStates
  <2>4. PendingInv
    BY DEF Init, PendingInv, HandleNeverBlocks, ReturnedNotPending
  <2> QED BY <2>1, <2>3, <2>4 DEF IInv
<1>2. IInv /\ [Next]_vars => IInv'
  <2> SUFFICES ASSUME IInv, [Next]_vars PROVE IInv'
    OBVIOUS
  <2>1. CASE \E c \in Calls : Call(c) \/ Watch(c) \/ CallerGivesUp(c)
    BY <2>1, CallStep
  <2>2. CASE \E a \in Calls \cup {Beat} : Send(a) \/ SendReturns(a)
    BY <2>2, SendStep
  <2>3. CASE \E a \in Actors : Finish(a)
    BY <2>3, FinishStep
  <2>4. CASE WorkerStep \/ CloseStart \/ Fail
    BY <2>4, WorkerCloseFailStep
  <2>5. CASE PeerStep \/ ParentEnds \/ Tick
    BY <2>5, HandleReplyStep, OtherStep DEF PeerStep
  <2>6. CASE UNCHANGED vars
    BY <2>6 DEF vars, IInv, TypeOK, EndInv, EndReachesCalls, PendingInv, HandleNeverBlocks,
                ReturnedNotPending
  <2> QED BY <2>1, <2>2, <2>3, <2>4, <2>5, <2>6 DEF Next
<1> QED BY <1>1, <1>2, PTL DEF Spec

\* Every variable keeps its type.
THEOREM SessionTypeCorrect == Spec => []TypeOK
<1>1. IInv => TypeOK
  BY DEF IInv
<1> QED BY <1>1, SessionInvariant, PTL

\* Handle never blocks on a reply channel while it holds the session's mutex, and a call
\* that has returned left no entry behind.
THEOREM PendingAlwaysSound == Spec => []PendingSound
<1>1. IInv => PendingSound
  BY DEF IInv, PendingInv, PendingSound
<1> QED BY <1>1, SessionInvariant, PTL

\* The end of a session leaves no call behind in pending.
THEOREM EndAlwaysReachesCalls == Spec => []EndReachesCalls
<1>1. IInv => EndReachesCalls
  BY DEF IInv, EndInv
<1> QED BY <1>1, SessionInvariant, PTL

\* What has ended stays ended, for the same cause.
LEMMA EndKept ==
    ASSUME [Next]_vars
    PROVE  /\ closed => closed' /\ terminal' = terminal
           /\ done => done'
<1>1. ASSUME closed
      PROVE  closed' /\ terminal' = terminal
  <2>1. \A a, why : BeginFinish(a, why) => UNCHANGED <<closed, terminal>>
    BY <1>1 DEF BeginFinish
  <2>2. \A a, err : SendFails(a, err) => UNCHANGED <<closed, terminal>>
    BY <2>1 DEF SendFails
  <2>3. CASE \E c \in Calls : Call(c) \/ Watch(c) \/ CallerGivesUp(c)
    BY <1>1, <2>3 DEF Call, CallStart, CallRegister, CallSendFailed, CallSelect, CallCleanup,
                      Watch, CallerGivesUp, shared
  <2>4. CASE \E a \in Calls \cup {Beat} : Send(a) \/ SendReturns(a)
    BY <1>1, <2>1, <2>2, <2>4 DEF Send, SendContext, SendClosed, SendExpiry, SendAborted,
                                  SendReturns
  <2>5. CASE \E a \in Actors : Finish(a)
    BY <1>1, <2>5 DEF Finish, FinishReply, FinishAnnounce, FinishCancel, shared
  <2>6. CASE WorkerStep \/ CloseStart \/ Fail
    BY <1>1, <2>1, <2>6 DEF WorkerStep, BeatTick, BeatLate, ExpiryFires, CloseJoin, CloseStart,
                            Fail, shared
  <2>7. CASE PeerStep \/ ParentEnds \/ Tick
    BY <1>1, <2>7 DEF PeerStep, HandlePong, HandleReply, ParentEnds,
                      Tick, shared
  <2>8. CASE UNCHANGED vars
    BY <1>1, <2>8 DEF vars
  <2> QED BY <1>1, <2>3, <2>4, <2>5, <2>6, <2>7, <2>8 DEF Next
<1>2. ASSUME done PROVE done'
  BY <1>2 DEF Next, Call, CallStart, CallRegister, CallSendFailed, CallSelect, CallCleanup,
       Watch, CallerGivesUp, Send, SendContext, SendClosed, SendExpiry, SendAborted,
       SendReturns, Finish, FinishReply, FinishAnnounce, FinishCancel, WorkerStep, BeatTick,
       BeatLate, ExpiryFires, CloseJoin, CloseStart, Fail, PeerStep, HandlePong, HandleReply,
       ParentEnds, Tick, shared, vars
<1> QED BY <1>1, <1>2

\* The first cause a session ends with is the one it keeps.
THEOREM SessionEndsOnce == Spec => EndsOnce
<1>1. [Next]_vars => [closed => closed' /\ terminal' = terminal]_vars
  BY EndKept
<1> QED BY <1>1, PTL DEF Spec, EndsOnce

--------------------------------------------------------------------------------
(* Replies and the calls they answer. *)

\* A reply for this control session was delivered under id n.
Delivered(n) == <<n, "ours">> \in replied

ReplyInv ==
    /\ \A c \in Calls : /\ answer[c] \in PeerReplies =>
                            Delivered(id[c]) /\ pc[c] \in {"cleanup", "returned"}
                        /\ reply[c] \in PeerReplies => Delivered(id[c])
    /\ \A c, d \in Calls : id[c] = id[d] /\ id[c] # 0 => c = d
    /\ \A r \in replied : r[1] >= 1 /\ r[1] <= sequence
    /\ \A q, r \in replied : q[1] = r[1] => q = r
    /\ \A p \in pending, r \in replied : p[1] # r[1]

\* The causes a call can end with are none of the peer's replies.
LEMMA CausesAreNoReplies ==
    /\ (Ends \cup CallerEnds \cup SendErrors) \cap PeerReplies = {}
    /\ Ends \subseteq SendErrors /\ "none" \notin PeerReplies /\ "empty" \notin PeerReplies
BY DEF Ends, CallerEnds, SendErrors, PeerReplies

\* A step that neither registers a call nor delivers a reply keeps ReplyInv, if what it
\* answers or puts in a channel is no new peer reply.
LEMMA QuietStep ==
    ASSUME IInv, IInv', ReplyInv, UNCHANGED <<id, sequence, replied>>, pending' \subseteq pending,
           \A c \in Calls : /\ \/ answer'[c] = answer[c]
                               \/ answer'[c] \notin PeerReplies
                               \/ answer'[c] = reply[c] /\ pc'[c] = "cleanup"
                            /\ reply'[c] = reply[c] \/ reply'[c] \notin PeerReplies
                            /\ pc[c] \in {"cleanup", "returned"} => pc'[c] \in {"cleanup", "returned"}
    PROVE  ReplyInv'
<1>1. ASSUME NEW c \in Calls, answer'[c] \in PeerReplies
      PROVE  Delivered(id[c]) /\ pc'[c] \in {"cleanup", "returned"}
  <2>1. CASE answer'[c] = answer[c]
    BY <1>1, <2>1 DEF ReplyInv
  <2>2. CASE answer'[c] = reply[c] /\ pc'[c] = "cleanup"
    BY <1>1, <2>2 DEF ReplyInv
  <2> QED BY <1>1, <2>1, <2>2
<1>2. ASSUME NEW c \in Calls, reply'[c] \in PeerReplies
      PROVE  Delivered(id[c])
  BY <1>2 DEF ReplyInv
<1> QED BY <1>1, <1>2 DEF ReplyInv, Delivered

\* The workers, Close and Fail move no call.
LEMMA WorkersMoveNoCall ==
    ASSUME IInv, WorkerStep \/ CloseStart \/ Fail
    PROVE  /\ pending' \subseteq pending /\ UNCHANGED locals
           /\ \A c \in Calls : /\ pc'[c] = pc[c] /\ cause'[c] = cause[c] /\ reply'[c] = reply[c]
                               /\ sendErr'[c] = sendErr[c] /\ answer'[c] = answer[c]
<1>1. UNCHANGED locals
  BY DEF WorkerStep, BeatTick, BeatLate, ExpiryFires, CloseJoin, CloseStart, Fail
<1>2. ASSUME NEW a \in {Beat, Expiry, Closer, Reader}, NEW why, BeginFinish(a, why)
      PROVE  /\ pending' \subseteq pending
             /\ \E s \in States : pc' = [pc EXCEPT ![a] = s]
  <2>1. AfterFinish(a) \in States /\ "finishing" \in States
    BY AfterFinishLemma, CallsAreActors DEF States, CallStates, FinishStates
  <2> QED BY <1>2, <2>1 DEF BeginFinish, Goto
<1>3. {"stopped", "late", "send", "returned"} \subseteq States
  BY DEF States, CallStates
<1>4. /\ pending' \subseteq pending
      /\ \E a \in {Beat, Expiry, Closer, Reader}, s \in States : pc' = [pc EXCEPT ![a] = s]
  BY <1>2, <1>3 DEF WorkerStep, BeatTick, BeatLate, ExpiryFires, CloseJoin, CloseStart, Fail,
                    routing, Goto
<1>5. \A c \in Calls : pc'[c] = pc[c]
  BY <1>4, ActorsAssumption DEF IInv, TypeOK, Actors
<1> QED BY <1>1, <1>4, <1>5 DEF locals

LEMMA ReplyStep ==
    ASSUME IInv, IInv', ReplyInv, [Next]_vars
    PROVE  ReplyInv'
<1>0. \A c \in Calls : cause[c] \notin PeerReplies /\ sendErr[c] \notin PeerReplies
  BY CausesAreNoReplies DEF IInv, TypeOK
<1>a. terminal \notin PeerReplies
  BY CausesAreNoReplies DEF IInv, TypeOK
<1>1. ASSUME NEW c \in Calls, CallRegister(c), ~closed
      PROVE  ReplyInv'
  <2>1. /\ sequence' = sequence + 1 /\ id' = [id EXCEPT ![c] = sequence + 1]
        /\ pending' = {p \in pending : p[1] # sequence + 1} \cup {<<sequence + 1, c>>}
        /\ UNCHANGED <<answer, reply, replied>> /\ pc[c] = "register" /\ Goto(c, "send")
    BY <1>1 DEF CallRegister
  <2>2. /\ sequence \in Nat /\ id \in [Calls -> Nat] /\ pc \in [Actors -> States]
        /\ \A d \in Calls : id[d] <= sequence
        /\ reply[c] = "empty"
    BY <2>1 DEF IInv, TypeOK, PendingInv
  <2>3. \A d \in Calls : d # c => id'[d] = id[d] /\ pc'[d] = pc[d]
    BY <2>1, <2>2 DEF Goto, Actors
  <2>4. answer[c] \notin PeerReplies /\ reply[c] \notin PeerReplies
    BY <2>1, <2>2, CausesAreNoReplies DEF ReplyInv
  <2>5. \A d \in Calls : /\ answer[d] \in PeerReplies =>
                              Delivered(id'[d]) /\ pc'[d] \in {"cleanup", "returned"}
                         /\ reply[d] \in PeerReplies => Delivered(id'[d])
    BY <2>3, <2>4 DEF ReplyInv
  <2>6. \A d, e \in Calls : id'[d] = id'[e] /\ id'[d] # 0 => d = e
    <3>1. id'[c] = sequence + 1
      BY <2>1, <2>2
    <3> QED BY <2>2, <2>3, <3>1 DEF ReplyInv
  <2>7. \A r \in replied : r[1] \in Nat /\ r[1] >= 1 /\ r[1] <= sequence /\ r[1] <= sequence + 1
                           /\ r[1] # sequence + 1
    BY <2>2 DEF ReplyInv, IInv, TypeOK
  <2>8. \A p \in pending', r \in replied : p[1] # r[1]
    BY <2>1, <2>7 DEF ReplyInv
  <2> QED BY <2>1, <2>5, <2>6, <2>7, <2>8 DEF ReplyInv, Delivered
<1>2. ASSUME HandleReply
      PROVE  ReplyInv'
  <2>1. PICK p \in pending :
          /\ reply' = [reply EXCEPT ![p[2]] = "reply"]
          /\ pending' = {q \in pending : q[1] # p[1]}
          /\ replied' = replied \cup {<<p[1], "ours">>}
    BY <1>2 DEF HandleReply, Forget, Ours
  <2>2. UNCHANGED <<sequence, id, pc, answer>>
    BY <1>2 DEF HandleReply
  <2>3. /\ p[1] >= 1 /\ p[1] <= sequence /\ p[2] \in Calls /\ id[p[2]] = p[1]
        /\ reply \in [Calls -> Ends \cup PeerReplies \cup {"empty"}]
    BY DEF IInv, TypeOK, PendingInv, HandleNeverBlocks
  <2> DEFINE Now(n) == <<n, "ours">> \in replied'
  <2>4. \A n : Delivered(n) => Now(n)
    BY <2>1 DEF Delivered
  <2>5. ASSUME NEW d \in Calls, reply'[d] \in PeerReplies
        PROVE  Now(id[d])
    <3>1. CASE d = p[2]
      <4>1. <<p[1], "ours">> \in replied' /\ id[d] = p[1]
        BY <2>1, <2>3, <3>1
      <4> QED BY <2>1, <4>1
    <3>2. CASE d # p[2]
      BY <2>1, <2>2, <2>3, <2>4, <2>5, <3>2 DEF ReplyInv
    <3> QED BY <3>1, <3>2
  <2>6. \A q, s \in replied' : q[1] = s[1] => q = s
    BY <2>1 DEF ReplyInv
  <2>7. \A q \in pending', s \in replied' : q[1] # s[1]
    BY <2>1 DEF ReplyInv
  <2>8. \A s \in replied' : s[1] >= 1 /\ s[1] <= sequence
    BY <2>1, <2>3 DEF ReplyInv
  <2>9. \A d \in Calls : answer[d] \in PeerReplies =>
                         Now(id[d]) /\ pc[d] \in {"cleanup", "returned"}
    BY <2>2, <2>4 DEF ReplyInv
  <2>10. \A c, d \in Calls : id[c] = id[d] /\ id[c] # 0 => c = d
    BY DEF ReplyInv
  <2>11. \A d \in Calls : /\ answer'[d] \in PeerReplies =>
                               Now(id'[d]) /\ pc'[d] \in {"cleanup", "returned"}
                          /\ reply'[d] \in PeerReplies => Now(id'[d])
    BY <2>2, <2>5, <2>9
  <2> QED BY <2>2, <2>6, <2>7, <2>8, <2>10, <2>11 DEF ReplyInv, Delivered, Now
<1>3. ASSUME NEW c \in Calls,
             \/ CallStart(c) \/ (CallRegister(c) /\ closed) \/ CallSendFailed(c) \/ CallSelect(c)
             \/ CallCleanup(c) \/ Watch(c) \/ CallerGivesUp(c)
      PROVE  ReplyInv'
  <2>1. UNCHANGED <<id, sequence, replied>> /\ pending' \subseteq pending
    BY <1>3 DEF CallStart, CallRegister, CallSendFailed, CallSelect, CallCleanup, Watch,
                CallerGivesUp, Forget, routing
  <2>2. /\ answer \in [Calls -> Answers] /\ pc \in [Actors -> States] /\ c \in Actors
        /\ reply \in [Calls -> Ends \cup PeerReplies \cup {"empty"}]
    BY CallsAreActors DEF IInv, TypeOK
  <2>3. \A d \in Calls : d # c => answer'[d] = answer[d] /\ reply'[d] = reply[d] /\ pc'[d] = pc[d]
    BY <1>3, <2>2 DEF CallStart, CallRegister, CallSendFailed, CallSelect, CallCleanup, Watch,
                CallerGivesUp, Goto, Actors
  <2>4. reply'[c] = reply[c] \/ reply'[c] \notin PeerReplies
    BY <1>3, <2>2, CausesAreNoReplies
    DEF CallStart, CallRegister, CallSendFailed, CallSelect, CallCleanup, Watch, CallerGivesUp
  <2>5. pc[c] \in {"cleanup", "returned"} => pc'[c] \in {"cleanup", "returned"}
    BY <1>3, <2>2
    DEF CallStart, CallRegister, CallSendFailed, CallSelect, CallCleanup, Watch, CallerGivesUp, Goto
  <2>6. \/ answer'[c] = answer[c] \/ answer'[c] \notin PeerReplies
        \/ answer'[c] = reply[c] /\ pc'[c] = "cleanup"
    <3>1. CASE CallSelect(c)
      BY <1>0, <1>a, <2>2, <3>1 DEF CallSelect, Goto
    <3>2. CASE CallSendFailed(c)
      BY <1>0, <1>a, <2>2, <3>2 DEF CallSendFailed
    <3>3. CASE CallStart(c)
      BY <2>2, <3>3 DEF CallStart, PeerReplies
    <3>4. CASE CallRegister(c) /\ closed
      BY <1>a, <2>2, <3>4 DEF CallRegister
    <3>5. CASE CallCleanup(c) \/ Watch(c) \/ CallerGivesUp(c)
      BY <3>5 DEF CallCleanup, Watch, CallerGivesUp
    <3> QED BY <1>3, <3>1, <3>2, <3>3, <3>4, <3>5
  <2> QED BY <2>1, <2>3, <2>4, <2>5, <2>6, QuietStep
<1>4. ASSUME NEW a \in Actors, Finish(a)
      PROVE  ReplyInv'
  <2>1. /\ UNCHANGED <<id, sequence, replied, answer>> /\ pending' = pending
    BY <1>4 DEF Finish, FinishReply, FinishAnnounce, FinishCancel, routing, locals
  <2>2. \A c \in Calls : reply'[c] = reply[c] \/ reply'[c] \notin PeerReplies
    BY <1>4, <1>a DEF Finish, FinishReply, FinishAnnounce, FinishCancel, locals, IInv, TypeOK
  <2>3. EndStep(a) /\ pc[a] \in FinishStates
    BY <1>4, FinishEnd DEF IInv
  <2>4. \A c \in Calls : pc[c] \in {"cleanup", "returned"} => pc'[c] = pc[c]
    BY <2>3 DEF EndStep, Actors, FinishStates
  <2> QED BY <2>1, <2>2, <2>4, QuietStep
<1>5. ASSUME NEW a \in Calls \cup {Beat}, Send(a) \/ SendReturns(a)
      PROVE  ReplyInv'
  <2>1. UNCHANGED <<id, sequence, replied, answer, reply>>
    BY <1>5 DEF Send, SendContext, SendClosed, SendExpiry, SendAborted, SendReturns
  <2>2. /\ pending' \subseteq pending
        /\ \A c \in Calls : pc[c] \in {"cleanup", "returned"} => pc'[c] = pc[c]
    <3>1. pc[a] \in {"send", "sendClosed", "sendExpiry", "sending"}
      BY <1>5 DEF Send, SendContext, SendClosed, SendExpiry, SendAborted, SendReturns
    <3>2. \A why : BeginFinish(a, why) => pending' \subseteq pending /\ \E s : Goto(a, s)
      BY DEF BeginFinish
    <3>3. \A err : SendFails(a, err) => pending' \subseteq pending /\ \E s : Goto(a, s)
      BY <3>2 DEF SendFails
    <3>4. pending' \subseteq pending /\ \E s : Goto(a, s)
      BY <1>5, <3>2, <3>3 DEF Send, SendContext, SendClosed, SendExpiry, SendAborted, SendReturns
    <3>5. \A c \in Calls : c # a => pc'[c] = pc[c]
      BY <3>4 DEF Goto, IInv, TypeOK, Actors
    <3> QED BY <3>1, <3>4, <3>5
  <2> QED BY <2>1, <2>2, QuietStep
<1>6. ASSUME WorkerStep \/ CloseStart \/ Fail
      PROVE  ReplyInv'
  <2>1. UNCHANGED <<id, sequence, replied, answer, reply>>
    BY <1>6 DEF WorkerStep, BeatTick, BeatLate, ExpiryFires, CloseJoin, CloseStart, Fail,
                routing, locals
  <2> QED BY <1>6, <2>1, WorkersMoveNoCall, QuietStep
<1>7. ASSUME HandlePong \/ ParentEnds \/ Tick \/ UNCHANGED vars
      PROVE  ReplyInv'
  <2>1. UNCHANGED <<id, sequence, replied, answer, reply, pc, pending>>
    BY <1>7 DEF HandlePong, ParentEnds, Tick, vars, routing, locals
  <2> QED BY <2>1, QuietStep
<1>8. CASE \E c \in Calls : Call(c) \/ Watch(c) \/ CallerGivesUp(c)
  <2>1. PICK c \in Calls : Call(c) \/ Watch(c) \/ CallerGivesUp(c)
    BY <1>8
  <2>2. CASE CallRegister(c) /\ ~closed
    BY <1>1, <2>2
  <2>3. CASE ~(CallRegister(c) /\ ~closed)
    <3>1. \/ CallStart(c) \/ (CallRegister(c) /\ closed) \/ CallSendFailed(c) \/ CallSelect(c)
          \/ CallCleanup(c) \/ Watch(c) \/ CallerGivesUp(c)
      BY <2>1, <2>3 DEF Call
    <3> QED BY <1>3, <3>1
  <2> QED BY <2>2, <2>3
<1>9. CASE PeerStep \/ ParentEnds \/ Tick \/ UNCHANGED vars
  BY <1>2, <1>7, <1>9 DEF PeerStep
<1> QED BY <1>4, <1>5, <1>6, <1>8, <1>9 DEF Next

LEMMA ReplyInvariant == Spec => []ReplyInv
<1>1. Init => ReplyInv
  BY CausesAreNoReplies DEF Init, ReplyInv
<1>2. IInv /\ IInv' /\ ReplyInv /\ [Next]_vars => ReplyInv'
  BY ReplyStep
<1> QED BY <1>1, <1>2, SessionInvariant, PTL DEF Spec

\* A peer's reply answers the call that registered its id, and no other.
THEOREM RepliesCorrelated == Spec => []ReplyCorrelated
<1>1. IInv /\ ReplyInv => ReplyCorrelated
  <2> SUFFICES ASSUME IInv, ReplyInv, NEW c \in Calls, answer[c] = "reply"
               PROVE  /\ \E r \in replied :
                            /\ r = <<id[c], "ours">>
                            /\ \A q \in replied : q[1] = id[c] => q = r
                      /\ \A d \in Calls : id[d] = id[c] => d = c
    BY DEF ReplyCorrelated
  <2>1. PICK r \in replied : r = <<id[c], "ours">>
    BY DEF ReplyInv, Delivered, PeerReplies
  <2>2. id[c] # 0
    BY <2>1 DEF ReplyInv
  <2>3. \A q \in replied : q[1] = id[c] => q = r
    BY <2>1 DEF ReplyInv
  <2>4. \A d \in Calls : id[d] = id[c] => d = c
    BY <2>2 DEF ReplyInv
  <2> QED BY <2>1, <2>3, <2>4
<1> QED BY <1>1, SessionInvariant, ReplyInvariant, PTL

--------------------------------------------------------------------------------
(* The causes calls are answered with. *)

\* Where a call keeps the session's cause it is the one the session ended with; a call has
\* its answer from its cleanup on and never an answer without a reason.
AnswerOk(c) ==
    /\ cause[c] \in Ends => done /\ cause[c] = terminal
    /\ reply[c] \in Ends => reply[c] = terminal
    /\ sendErr[c] \in Ends \ {"expired", "transport"} => sendErr[c] = terminal
    /\ sendErr[c] = "expired" => closed
    /\ pc[c] = "sendFailed" => sendErr[c] # "none"
    /\ pc[c] \in FinishStates => sendErr[c] = "expired"
    /\ pc[c] \notin {"cleanup", "returned"} => answer[c] = "none"
    /\ answer[c] \in Ends \ {"expired", "transport"} => answer[c] = terminal

AnswerInv == \A c \in Calls : AnswerOk(c)

\* A call keeps its reasons wherever it goes on to, if what its watcher and the peer add
\* is no end of the session or the one it has ended with.
LEMMA AnswerKept ==
    ASSUME IInv, AnswerInv, [Next]_vars, NEW c \in Calls,
           \/ cause'[c] = cause[c] \/ cause'[c] \notin Ends
           \/ done /\ cause'[c] = terminal,
           \/ reply'[c] = reply[c] \/ reply'[c] \notin Ends
           \/ closed /\ reply'[c] = terminal,
           sendErr'[c] = sendErr[c], answer'[c] = answer[c],
           \/ pc'[c] = pc[c]
           \/ /\ pc'[c] \notin FinishStates \cup {"sendFailed"}
              /\ pc'[c] # "returned" => answer[c] = "none"
           \/ pc[c] \in FinishStates /\ pc'[c] \in FinishStates \cup {"sendFailed"}
    PROVE  AnswerOk(c)'
<1>1. AnswerOk(c)
  BY DEF AnswerInv
<1>2. terminal \in Ends => closed /\ terminal' = terminal
  BY EndKept DEF IInv, EndInv, EndReachesCalls, Ends
<1>3. (closed => closed' /\ terminal' = terminal) /\ (done => done' /\ closed)
  BY EndKept DEF IInv, EndInv, EndReachesCalls
<1>4. "expired" # "none" /\ FinishStates \cap {"cleanup", "returned", "sendFailed"} = {}
  BY DEF FinishStates
<1> QED BY <1>1, <1>2, <1>3, <1>4 DEF AnswerOk

LEMMA AnswerStep ==
    ASSUME IInv, IInv', AnswerInv, [Next]_vars
    PROVE  AnswerInv'
<1> USE DEF IInv
<1>a. /\ cause \in [Calls -> Ends \cup CallerEnds \cup {"none"}] /\ answer \in [Calls -> Answers]
      /\ reply \in [Calls -> Ends \cup PeerReplies \cup {"empty"}]
      /\ sendErr \in [Calls -> SendErrors] /\ pc \in [Actors -> States]
      /\ Calls \subseteq Actors /\ Beat \notin Calls
  BY CallsAreActors, ActorsAssumption DEF TypeOK
<1>b. /\ closed => terminal \in Ends
      /\ done => closed
  BY DEF TypeOK, EndInv, EndReachesCalls
<1>c. {"none", "caller", "deadline", "interrupted", "empty", "reply"} \cap Ends = {}
      /\ "transport" \in Ends /\ "expired" \in Ends
  BY DEF Ends
<1>1. ASSUME NEW c \in Calls, Call(c) \/ Watch(c) \/ CallerGivesUp(c)
      PROVE  AnswerInv'
  <2>1. ASSUME NEW d \in Calls, d # c PROVE AnswerOk(d)'
    <3>1. /\ cause'[d] = cause[d] /\ reply'[d] = reply[d] /\ sendErr'[d] = sendErr[d]
          /\ answer'[d] = answer[d] /\ pc'[d] = pc[d]
      BY <1>1, <1>a, <2>1 DEF Call, CallStart, CallRegister, CallSendFailed, CallSelect,
           CallCleanup, Watch, CallerGivesUp, DropLocals, Goto
    <3> QED BY <3>1, AnswerKept
  <2>2. AnswerOk(c)
    BY DEF AnswerInv
  <2>3. ASSUME CallStart(c) PROVE AnswerOk(c)'
    <3>1. /\ UNCHANGED <<cause, reply, sendErr, closed, terminal, done>> /\ pc[c] = "idle"
          /\ \/ answer'[c] = "caller" /\ pc'[c] = "returned"
             \/ answer'[c] = answer[c] /\ pc'[c] = "register"
      BY <1>a, <2>3 DEF CallStart, Goto, shared
    <3> QED BY <1>c, <2>2, <3>1 DEF AnswerOk, FinishStates
  <2>4. ASSUME CallRegister(c) PROVE AnswerOk(c)'
    <3>1. /\ UNCHANGED <<cause, reply, sendErr, closed, terminal, done>> /\ pc[c] = "register"
          /\ \/ answer'[c] = terminal /\ pc'[c] = "returned"
             \/ answer'[c] = answer[c] /\ pc'[c] = "send"
      BY <1>a, <2>4 DEF CallRegister, Goto, shared
    <3> QED BY <2>2, <3>1 DEF AnswerOk, FinishStates
  <2>5. ASSUME CallSendFailed(c) \/ CallSelect(c) PROVE AnswerOk(c)'
    <3>1. /\ UNCHANGED <<reply, closed, terminal, done>> /\ pc'[c] = "cleanup"
          /\ cause'[c] = "none" /\ sendErr'[c] = "none"
          /\ answer'[c] \in {cause[c], sendErr[c], reply[c], terminal}
      BY <1>a, <2>5 DEF CallSendFailed, CallSelect, DropLocals, Goto, shared
    <3> QED BY <1>c, <2>2, <3>1 DEF AnswerOk, FinishStates
  <2>6. ASSUME CallCleanup(c) \/ Watch(c) \/ CallerGivesUp(c) PROVE AnswerOk(c)'
    <3>1. /\ \/ cause'[c] = cause[c] \/ cause'[c] \in {"deadline", "caller"}
             \/ done /\ cause'[c] = terminal
          /\ reply'[c] = reply[c] \/ reply'[c] = "empty"
          /\ sendErr' = sendErr /\ answer' = answer
          /\ pc'[c] = pc[c] \/ pc'[c] = "returned"
      BY <1>a, <2>6 DEF CallCleanup, Watch, CallerGivesUp, Goto
    <3> QED BY <1>c, <3>1, AnswerKept DEF FinishStates
  <2> QED BY <1>1, <2>1, <2>3, <2>4, <2>5, <2>6 DEF Call, AnswerInv
<1>2. ASSUME NEW a \in Calls \cup {Beat}, Send(a) \/ SendReturns(a)
      PROVE  AnswerInv'
  <2>1. UNCHANGED <<cause, reply, answer, done>>
    BY <1>2 DEF Send, SendContext, SendClosed, SendExpiry, SendAborted, SendReturns
  <2>2. ASSUME NEW d \in Calls, d # a PROVE AnswerOk(d)'
    <3>1. sendErr'[d] = sendErr[d] /\ pc'[d] = pc[d]
      BY <1>2, <1>a, <2>2 DEF Send, SendContext, SendClosed, SendExpiry, SendAborted,
           SendReturns, SendFails, BeginFinish, Goto
    <3> QED BY <2>1, <3>1, AnswerKept
  <2>3. ASSUME a \in Calls PROVE AnswerOk(a)'
    <3>1. AnswerOk(a) /\ a # Beat /\ pc[a] \in {"send", "sendClosed", "sendExpiry", "sending"}
      BY <1>2, <1>a, <2>3 DEF AnswerInv, Send, SendContext, SendClosed, SendExpiry,
           SendAborted, SendReturns
    <3>2. /\ closed => closed' /\ terminal' = terminal
          /\ answer[a] = "none" /\ (terminal \in Ends => closed)
      BY <1>c, <3>1, EndKept DEF AnswerOk, EndInv, EndReachesCalls
    <3>3. \/ /\ sendErr'[a] \in {"caller", "interrupted", "transport"}
             /\ pc'[a] = "sendFailed"
          \/ closed /\ sendErr'[a] = terminal /\ pc'[a] = "sendFailed"
          \/ sendErr'[a] = "expired" /\ closed' /\ pc'[a] \in {"finishing", "sendFailed"}
          \/ sendErr'[a] = sendErr[a] /\ pc'[a] \in {"sendClosed", "sendExpiry", "sending", "reply"}
      BY <1>2, <1>a, <2>3, <3>1 DEF Send, SendContext, SendClosed, SendExpiry, SendAborted,
           SendReturns, SendFails, BeginFinish, AfterFinish, Goto
    <3> QED BY <1>b, <1>c, <2>1, <3>1, <3>2, <3>3 DEF AnswerOk, FinishStates
  <2> QED BY <2>2, <2>3 DEF AnswerInv
<1>3. ASSUME NEW a \in Actors, Finish(a)
      PROVE  AnswerInv'
  <2>1. UNCHANGED <<cause, sendErr, answer>>
        /\ \A c \in Calls : reply'[c] = reply[c] \/ reply'[c] = terminal
    BY <1>3, <1>a DEF Finish, FinishReply, FinishAnnounce, FinishCancel, locals
  <2>2. /\ EndStep(a) /\ pc[a] \in FinishStates /\ closed
        /\ a \in Calls => pc'[a] \in FinishStates \cup {"sendFailed"}
    BY <1>3, FinishEnd
  <2>3. \A c \in Calls : \/ pc'[c] = pc[c]
                         \/ pc[c] \in FinishStates /\ pc'[c] \in FinishStates \cup {"sendFailed"}
    BY <1>a, <2>2 DEF EndStep
  <2> QED BY <2>1, <2>2, <2>3, AnswerKept DEF AnswerInv
<1>4. ASSUME WorkerStep \/ CloseStart \/ Fail
      PROVE  AnswerInv'
  BY <1>4, WorkersMoveNoCall, AnswerKept DEF AnswerInv
<1>5. ASSUME PeerStep \/ ParentEnds \/ Tick \/ UNCHANGED vars
      PROVE  AnswerInv'
  <2>1. /\ UNCHANGED <<cause, sendErr, answer, pc>>
        /\ \A c \in Calls : reply'[c] = reply[c] \/ reply'[c] = "reply"
    BY <1>5, <1>a DEF PeerStep, HandlePong, HandleReply, ParentEnds, Tick, vars, locals
  <2> QED BY <1>c, <2>1, AnswerKept DEF AnswerInv
<1> QED BY <1>1, <1>2, <1>3, <1>4, <1>5 DEF Next

LEMMA AnswerInvariant == Spec => []AnswerInv
<1>1. Init => AnswerInv
  <2> SUFFICES ASSUME Init, NEW c \in Calls PROVE AnswerOk(c)
    BY DEF AnswerInv
  <2>1. /\ cause[c] = "none" /\ reply[c] = "empty" /\ sendErr[c] = "none"
        /\ answer[c] = "none"
    BY DEF Init
  <2>2. pc[c] = "idle"
    BY ActorsAssumption DEF Init, Actors, Workers
  <2> QED BY <2>1, <2>2 DEF AnswerOk, Ends, FinishStates
<1>2. IInv /\ IInv' /\ AnswerInv /\ [Next]_vars => AnswerInv'
  BY AnswerStep
<1> QED BY <1>1, <1>2, SessionInvariant, PTL DEF Spec

\* A call that the end of the session answers reports the cause it ended with, although
\* the cause reaches it along four ways: the closed session it finds, its reply channel,
\* its watcher and its failed send.
THEOREM OneCauseAlways == Spec => []OneCause
<1>1. AnswerInv => OneCause
  BY DEF AnswerInv, AnswerOk, OneCause
<1> QED BY <1>1, AnswerInvariant, PTL

--------------------------------------------------------------------------------
(* The session implements SessionService. *)

\* What a step does to the service: nothing, or one of its actions.
ServiceStays == UNCHANGED <<terminal, done, RepliedTo, answer>>
ServiceStep  == Service!Next \/ ServiceStays

\* A call that takes its answer for one of the service's reasons answers in the service.
LEMMA AnswerRefines ==
    ASSUME NEW c \in Calls, NEW a, answer[c] = "none", terminal \in Ends \cup {"none"},
           answer' = [answer EXCEPT ![c] = a], UNCHANGED <<terminal, done, RepliedTo>>,
           \/ a = "reply" /\ c \in RepliedTo
           \/ a \in {terminal, "expired"} /\ terminal # "none"
           \/ a \in OwnErrors
    PROVE  Service!Next
<1>1. Service!Answer(c, a)
  BY DEF Service!Answer
<1>2. a \in Ends \cup OwnErrors \cup {"reply"}
  BY DEF Ends
<1> QED BY <1>1, <1>2 DEF Service!Next

\* finish ends the service's session, or finds it ended.
LEMMA FinishRefines ==
    ASSUME IInv, NEW a, NEW why \in Ends, BeginFinish(a, why),
           UNCHANGED <<done, RepliedTo, answer>>
    PROVE  ServiceStep
<1>1. CASE closed
  BY <1>1 DEF BeginFinish, ServiceStep, ServiceStays
<1>2. CASE ~closed
  <2>1. terminal = "none" /\ terminal' = why
    BY <1>2 DEF BeginFinish, IInv, EndInv, EndReachesCalls
  <2> QED BY <2>1 DEF Service!Next, Service!End, ServiceStep
<1> QED BY <1>1, <1>2

\* Whom the peer has replied to changes with the ids and the replies only.
LEMMA RepliedToKept ==
    ASSUME UNCHANGED <<id, replied>>
    PROVE  UNCHANGED RepliedTo
BY DEF RepliedTo

LEMMA CallRefines ==
    ASSUME IInv, ReplyInv, AnswerInv, NEW c \in Calls, Call(c)
    PROVE  ServiceStep
<1>1. /\ AnswerOk(c) /\ id \in [Calls -> Nat] /\ sequence \in Nat
      /\ terminal \in Ends \cup {"none"} /\ (closed => terminal # "none")
      /\ (done => closed)
  BY DEF AnswerInv, IInv, TypeOK, EndInv, EndReachesCalls
<1>2. CASE CallStart(c)
  <2>1. UNCHANGED <<terminal, done, RepliedTo>>
    BY <1>2, RepliedToKept DEF CallStart, shared, routing
  <2>2. "caller" \in OwnErrors /\ answer[c] = "none"
    BY <1>1, <1>2 DEF OwnErrors, CallerEnds, AnswerOk, CallStart
  <2> QED BY <1>1, <1>2, <2>1, <2>2, AnswerRefines DEF CallStart, ServiceStep, ServiceStays
<1>3. CASE CallRegister(c)
  <2>1. UNCHANGED <<terminal, done, replied>> /\ answer[c] = "none"
    BY <1>1, <1>3 DEF CallRegister, shared, AnswerOk
  <2>2. CASE closed
    <3>1. answer' = [answer EXCEPT ![c] = terminal] /\ UNCHANGED id
      BY <1>3, <2>2 DEF CallRegister
    <3> QED BY <1>1, <2>1, <2>2, <3>1, RepliedToKept, AnswerRefines DEF ServiceStep
  <2>3. CASE ~closed
    <3>1. /\ id' = [id EXCEPT ![c] = sequence + 1] /\ answer' = answer
          /\ id[c] = 0
      BY <1>3, <2>3 DEF CallRegister, IInv, PendingInv
    <3>2. \A r \in replied : r[1] \in Nat /\ r[1] # 0 /\ r[1] # sequence + 1
      BY <1>1 DEF ReplyInv, IInv, TypeOK
    <3>3. RepliedTo' = RepliedTo
      BY <1>1, <2>1, <3>1, <3>2 DEF RepliedTo
    <3> QED BY <2>1, <3>1, <3>3 DEF ServiceStep, ServiceStays
  <2> QED BY <2>2, <2>3
<1>4. CASE CallSendFailed(c) \/ CallSelect(c)
  <2>1. /\ UNCHANGED <<terminal, done, RepliedTo>> /\ answer[c] = "none"
    BY <1>1, <1>4, RepliedToKept DEF CallSendFailed, CallSelect, shared, routing, AnswerOk
  <2>2. cause[c] # "none" => \/ cause[c] \in OwnErrors
                             \/ cause[c] = terminal /\ terminal # "none"
    BY <1>1 DEF AnswerOk, IInv, TypeOK, OwnErrors
  <2>3. reply[c] # "empty" => \/ reply[c] = "reply" /\ c \in RepliedTo
                              \/ reply[c] = terminal /\ terminal # "none"
    <3>1. "none" \notin Ends /\ "empty" \notin Ends
      BY DEF Ends
    <3>2. reply[c] \in PeerReplies => c \in RepliedTo
      BY DEF ReplyInv, Delivered, RepliedTo
    <3> QED BY <1>1, <3>1, <3>2 DEF AnswerOk, IInv, TypeOK, PeerReplies
  <2>4. CASE CallSendFailed(c)
    <3>1. \/ sendErr[c] \in OwnErrors
          \/ sendErr[c] \in {terminal, "expired"} /\ terminal # "none"
      <4>1. sendErr[c] \in SendErrors /\ sendErr[c] # "none" /\ "none" \notin Ends
        BY <1>1, <2>4 DEF CallSendFailed, AnswerOk, IInv, TypeOK, Ends
      <4>2. {"caller", "transport", "interrupted"} \subseteq OwnErrors
        BY DEF OwnErrors, CallerEnds
      <4>3. sendErr[c] \in Ends \ {"expired", "transport"} => sendErr[c] = terminal
        BY <1>1 DEF AnswerOk
      <4>4. sendErr[c] = "expired" => terminal # "none"
        BY <1>1 DEF AnswerOk
      <4>5. sendErr[c] \in {"caller", "transport", "interrupted"} \cup Ends
        BY <4>1 DEF SendErrors
      <4> QED BY <4>1, <4>2, <4>3, <4>4, <4>5
    <3>2. PICK a : /\ a = IF cause[c] # "none" THEN cause[c] ELSE IF done THEN terminal ELSE sendErr[c]
                   /\ answer' = [answer EXCEPT ![c] = a]
      BY <2>4 DEF CallSendFailed
    <3>3. \/ a \in OwnErrors
          \/ a \in {terminal, "expired"} /\ terminal # "none"
      BY <1>1, <2>2, <3>1, <3>2
    <3> QED BY <1>1, <2>1, <3>2, <3>3, AnswerRefines DEF ServiceStep
  <2>5. CASE CallSelect(c)
    <3>1. PICK a : /\ \/ reply[c] # "empty" /\ a = reply[c]
                      \/ cause[c] # "none" /\ a = cause[c]
                      \/ done /\ a = terminal
                   /\ answer' = [answer EXCEPT ![c] = a]
      BY <2>5 DEF CallSelect
    <3> QED BY <1>1, <2>1, <2>2, <2>3, <3>1, AnswerRefines DEF ServiceStep
  <2> QED BY <1>4, <2>4, <2>5
<1>5. CASE CallCleanup(c)
  BY <1>5, RepliedToKept DEF CallCleanup, shared, ServiceStep, ServiceStays
<1> QED BY <1>2, <1>3, <1>4, <1>5 DEF Call

LEMMA SendRefines ==
    ASSUME IInv, NEW a \in Calls \cup {Beat}, Send(a) \/ SendReturns(a)
    PROVE  ServiceStep
<1>1. UNCHANGED <<done, RepliedTo, answer>>
  BY RepliedToKept DEF Send, SendContext, SendClosed, SendExpiry, SendAborted, SendReturns
<1>2. {"context", "transport", "expired"} \subseteq Ends
      /\ (closed => terminal \in Ends)
  BY DEF Ends, IInv, TypeOK, EndInv, EndReachesCalls
<1>3. ASSUME NEW err, a = Beat => err \in Ends, SendFails(a, err)
      PROVE  ServiceStep
  <2>1. a = Beat => BeginFinish(a, err)
    BY <1>3 DEF SendFails
  <2>2. a # Beat => UNCHANGED terminal
    BY <1>3 DEF SendFails
  <2> QED BY <1>1, <1>3, <2>1, <2>2, FinishRefines DEF ServiceStep, ServiceStays
<1>4. CASE UNCHANGED terminal
  BY <1>1, <1>4 DEF ServiceStep, ServiceStays
<1>5. CASE ~UNCHANGED terminal
  <2>1. \/ \E err : (a = Beat => err \in Ends) /\ SendFails(a, err)
        \/ BeginFinish(a, "expired")
    BY <1>2, <1>5 DEF Send, SendContext, SendClosed, SendExpiry, SendAborted, SendReturns
  <2> QED BY <1>1, <1>2, <1>3, <2>1, FinishRefines
<1> QED BY <1>4, <1>5

LEMMA HandleReplyRefines ==
    ASSUME IInv, ReplyInv, HandleReply
    PROVE  ServiceStep
<1>1. PICK p \in pending :
        /\ replied' = replied \cup {<<p[1], "ours">>}
        /\ UNCHANGED <<terminal, done, closed, id, answer>> /\ ~closed
  BY DEF HandleReply, Ours, shared
<1>2. /\ p[2] \in Calls /\ id[p[2]] = p[1] /\ p[1] # 0 /\ terminal = "none"
      /\ id \in [Calls -> Nat]
  BY <1>1 DEF IInv, TypeOK, PendingInv, HandleNeverBlocks, EndInv, EndReachesCalls
<1>3. p[2] \notin RepliedTo
  BY <1>2 DEF RepliedTo, ReplyInv
<1>4. RepliedTo' = RepliedTo \cup {p[2]}
  <2>1. \A d \in Calls : id[d] = p[1] <=> d = p[2]
    BY <1>2 DEF ReplyInv
  <2>2. /\ replied \subseteq replied' /\ <<p[1], "ours">> \in replied'
        /\ \A r \in replied' : r \in replied \/ r[1] = p[1]
    BY <1>1
  <2>3. RepliedTo \cup {p[2]} \subseteq RepliedTo'
    BY <1>1, <1>2, <2>2 DEF RepliedTo
  <2>4. RepliedTo' \subseteq RepliedTo \cup {p[2]}
    BY <1>1, <2>1, <2>2 DEF RepliedTo
  <2> QED BY <2>3, <2>4
<1>5. Service!Reply(p[2])
  BY <1>1, <1>2, <1>3, <1>4 DEF Service!Reply
<1> QED BY <1>2, <1>5 DEF Service!Next, ServiceStep

LEMMA StepRefines ==
    ASSUME IInv, ReplyInv, AnswerInv, [Next]_vars
    PROVE  ServiceStep
<1>1. CASE \E c \in Calls : Watch(c) \/ CallerGivesUp(c)
  BY <1>1, RepliedToKept DEF Watch, CallerGivesUp, shared, routing, ServiceStep, ServiceStays
<1>2. CASE \E a \in Actors : Finish(a)
  <2>1. PICK a \in Actors : Finish(a)
    BY <1>2
  <2>2. UNCHANGED <<terminal, RepliedTo, answer>> /\ (done' = done \/ FinishAnnounce(a))
    BY <2>1, RepliedToKept DEF Finish, FinishReply, FinishAnnounce, FinishCancel, shared,
       routing, locals
  <2>3. closed /\ terminal # "none" /\ done \in BOOLEAN
    BY <2>1, FinishEnd DEF IInv, TypeOK, EndInv, EndReachesCalls
  <2> QED BY <2>2, <2>3 DEF FinishAnnounce, Service!Next, Service!Announce, ServiceStep,
             ServiceStays
<1>3. CASE WorkerStep \/ CloseStart \/ Fail
  <2>1. UNCHANGED <<done, RepliedTo, answer>>
    BY <1>3, RepliedToKept DEF WorkerStep, BeatTick, BeatLate, ExpiryFires, CloseJoin,
       CloseStart, Fail, shared, routing, locals
  <2>2. \/ UNCHANGED terminal
        \/ \E a : \E why \in Ends : BeginFinish(a, why)
    BY <1>3 DEF WorkerStep, BeatTick, BeatLate, ExpiryFires, CloseJoin, CloseStart, Fail,
       shared, Ends
  <2> QED BY <2>1, <2>2, FinishRefines DEF ServiceStep, ServiceStays
<1>4. CASE HandlePong \/ ParentEnds \/ Tick \/ UNCHANGED vars
  BY <1>4, RepliedToKept DEF HandlePong, ParentEnds, Tick, vars, shared, routing, locals,
     ServiceStep, ServiceStays
<1> QED BY <1>1, <1>2, <1>3, <1>4, CallRefines, SendRefines, HandleReplyRefines
        DEF Next, PeerStep

\* A session keeps SessionService's promise for every set of calls and every choice of its
\* times: one end with one cause, and one answer to each call with a reason for it.
THEOREM SessionImplementsService == Spec => ServiceSpec
<1>1. Init => Service!Init
  <2> SUFFICES ASSUME Init PROVE Service!Init
    OBVIOUS
  <2>1. RepliedTo = {}
    BY DEF Init, RepliedTo
  <2> QED BY <2>1 DEF Init, Service!Init
<1>2. IInv /\ ReplyInv /\ AnswerInv /\ [Next]_vars => [Service!Next]_(Service!vars)
  BY StepRefines DEF ServiceStep, ServiceStays, Service!vars
<1> QED BY <1>1, <1>2, SessionInvariant, ReplyInvariant, AnswerInvariant, PTL
        DEF Spec, ServiceSpec, Service!Spec

================================================================================
