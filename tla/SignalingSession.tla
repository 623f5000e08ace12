--------------------------- MODULE SignalingSession ---------------------------
(***************************************************************************)
(* internal/signaling/session.go: one activated device session.  Calls     *)
(* (PTZ RPCs), the heartbeat worker, the expiry worker, the connection's   *)
(* reader (Handle, Fail) and a caller of Close share one mutex, one done   *)
(* channel and one context.  Any of them may run finish; the first ends    *)
(* the session, the others find it closed.                                 *)
(*                                                                         *)
(* A member of Calls is one invocation of Session.Call.  Time is a clock   *)
(* that counts units; a timer fires at or after its deadline.  Payloads    *)
(* are left out: a peer message is a pong, or a reply to a request id,     *)
(* either for this control session or a result that names another one (an  *)
(* RPC error names none and is taken like a result for this one).  The     *)
(* queue for other messages is part of DeviceHandover.                     *)
(***************************************************************************)
EXTENDS Naturals

CONSTANTS Calls,               \* the invocations of Session.Call
          Beat, Expiry,        \* the two workers NewSession starts
          Closer, Reader,      \* the goroutine that calls Close, the one that calls Fail
          Heartbeat,           \* config.Heartbeat
          MissedIntervals,     \* MissedHeartbeatIntervals
          MaxAge,              \* config.MaxAge
          ResponseTimeout,     \* RPCResponseTimeout
          Horizon              \* bound: the last instant of the clock

Workers == {Beat, Expiry}
Actors  == Calls \cup {Beat, Expiry, Closer, Reader}

ASSUME ActorsAssumption ==
    /\ Beat # Expiry /\ Beat # Closer /\ Beat # Reader
    /\ Expiry # Closer /\ Expiry # Reader /\ Closer # Reader
    /\ Calls \cap {Beat, Expiry, Closer, Reader} = {}
ASSUME TimesAssumption ==
    /\ Heartbeat \in Nat \ {0} /\ MissedIntervals \in Nat \ {0} /\ MaxAge \in Nat \ {0}
    /\ ResponseTimeout \in Nat \ {0} /\ Horizon \in Nat

VARIABLES now,          \* the clock
          parentEnded,  \* the context NewSession was given has ended
          cancelled,    \* finish has called s.cancel
          closed,       \* s.closed
          terminal,     \* s.terminal, "none" before
          done,         \* s.done is closed
          lastPong,     \* s.lastPong
          sequence,     \* s.sequence
          pending,      \* s.pending, as pairs <<request id, call>>
          orphans,      \* finish's local copy of pending: calls still to be told
          tickAt,       \* deadline of the heartbeat worker's timer
          pc,           \* where each actor is
          id,           \* the request id of each call, 0 before
          deadline,     \* each call's response deadline
          cause,        \* context.Cause(callCtx) of each call, "none" while it lives
          reply,        \* the reply channels (capacity 1), "empty" or their content
          sendErr,      \* what the call's Send returned
          answer,       \* what each call returned, "none" before
          replied       \* history: the replies Handle delivered, as <<request id, whose>>

shared  == <<closed, terminal, done, cancelled>>
routing == <<sequence, pending, orphans, replied>>
locals  == <<id, deadline, cause, reply, sendErr, answer>>
clocks  == <<now, lastPong, tickAt>>
vars == <<now, parentEnded, cancelled, closed, terminal, done, lastPong, sequence, pending,
          orphans, tickAt, pc, id, deadline, cause, reply, sendErr, answer, replied>>

\* Why a session ends: Close, Fail, its age, missed pongs, its context, a failed ping.
Ends == {"closed", "failed", "expired", "heartbeat", "context", "transport"}
PeerReplies == {"reply"}
\* Whose control session a reply on the wire is for.
WireReplies == {"ours", "other"}
CallerEnds  == {"caller", "deadline"}
\* What a call can fail with although the session lives.
OwnErrors   == CallerEnds \cup {"transport", "interrupted"}
\* "interrupted" is the context.Canceled a transport write returns when the session's
\* context, not the caller's, was cancelled under it.
SendErrors  == {"none", "caller", "transport", "interrupted"} \cup Ends
Answers == Ends \cup PeerReplies \cup CallerEnds \cup SendErrors

CallStates == {"idle", "register", "send", "sendClosed", "sendExpiry", "sending", "sendFailed",
               "reply", "cleanup", "returned"}
FinishStates == {"finishing", "announcing", "cancelling"}
States == CallStates \cup FinishStates \cup {"waiting", "late", "joining", "stopped"}

ContextEnded == parentEnded \/ cancelled

Init ==
    /\ now = 0 /\ lastPong = 0 /\ tickAt = Heartbeat
    /\ parentEnded = FALSE /\ cancelled = FALSE
    /\ closed = FALSE /\ terminal = "none" /\ done = FALSE
    /\ sequence = 0 /\ pending = {} /\ orphans = {} /\ replied = {}
    /\ pc = [a \in Actors |-> IF a \in Workers THEN "waiting" ELSE "idle"]
    /\ id = [c \in Calls |-> 0]
    /\ deadline = [c \in Calls |-> 0]
    /\ cause = [c \in Calls |-> "none"]
    /\ reply = [c \in Calls |-> "empty"]
    /\ sendErr = [c \in Calls |-> "none"]
    /\ answer = [c \in Calls |-> "none"]

Goto(a, state) == pc' = [pc EXCEPT ![a] = state]

--------------------------------------------------------------------------------
(* finish, run by any actor. *)

\* Where an actor goes on after finish.
AfterFinish(a) == IF a \in Calls THEN "sendFailed"
                  ELSE IF a \in Workers THEN "stopped"
                  ELSE IF a = Closer THEN "joining" ELSE "idle"

\* finish up to the unlock: the first caller sets the cause and takes the pending calls,
\* a later one returns at once, although done may still be open.
BeginFinishAgain(a, why) ==   \* mutant: no look at closed
    /\ closed' = TRUE /\ terminal' = why
    /\ orphans' = {p[2] : p \in pending} /\ pending' = {}
    /\ Goto(a, "finishing")
BeginFinishCopying(a, why) == \* mutant: the pending calls are told but stay in the map
    \/ closed /\ Goto(a, AfterFinish(a)) /\ UNCHANGED <<closed, terminal, pending, orphans>>
    \/ /\ ~closed /\ closed' = TRUE /\ terminal' = why
       /\ orphans' = {p[2] : p \in pending} /\ UNCHANGED pending
       /\ Goto(a, "finishing")
BeginFinish(a, why) ==
    \/ /\ closed
       /\ Goto(a, AfterFinish(a))
       /\ UNCHANGED <<closed, terminal, pending, orphans>>
    \/ /\ ~closed
       /\ closed' = TRUE
       /\ terminal' = why
       /\ orphans' = {p[2] : p \in pending}
       /\ pending' = {}
       /\ Goto(a, "finishing")

\* The non-blocking send of the cause to one pending call.
FinishReply(a) ==
    /\ pc[a] = "finishing"
    /\ \/ \E c \in orphans :
            /\ orphans' = orphans \ {c}
            /\ reply' = [reply EXCEPT ![c] = IF @ = "empty" THEN terminal ELSE @]
            /\ UNCHANGED pc
       \/ orphans = {} /\ Goto(a, "announcing") /\ UNCHANGED <<orphans, reply>>
    /\ UNCHANGED <<clocks, parentEnded, shared, sequence, pending, replied, id, deadline,
                   cause, sendErr, answer>>

FinishAnnounce(a) ==
    /\ pc[a] = "announcing"
    /\ done' = TRUE
    /\ Goto(a, "cancelling")
    /\ UNCHANGED <<clocks, parentEnded, closed, terminal, cancelled, routing, locals>>

FinishWithoutCancel(a) ==   \* mutant: s.cancel is not called
    /\ pc[a] = "cancelling" /\ Goto(a, AfterFinish(a))
    /\ UNCHANGED <<clocks, parentEnded, shared, routing, locals>>
FinishCancel(a) ==
    /\ pc[a] = "cancelling"
    /\ cancelled' = TRUE
    /\ Goto(a, AfterFinish(a))
    /\ UNCHANGED <<clocks, parentEnded, closed, terminal, done, routing, locals>>

Finish(a) == FinishReply(a) \/ FinishAnnounce(a) \/ FinishCancel(a)

--------------------------------------------------------------------------------
(* Send, run by a call or by the heartbeat worker. *)

OwnContextEnded(a) == IF a = Beat THEN ContextEnded ELSE cause[a] # "none"

\* Send returns an error: the call looks at it, the heartbeat worker ends the session.
SendFails(a, err) ==
    IF a = Beat
    THEN BeginFinish(a, err) /\ UNCHANGED sendErr
    ELSE /\ sendErr' = [sendErr EXCEPT ![a] = err]
         /\ Goto(a, "sendFailed")
         /\ UNCHANGED <<closed, terminal, pending, orphans>>

SendContext(a) ==
    /\ pc[a] = "send"
    /\ \/ /\ OwnContextEnded(a)
          /\ SendFails(a, IF a = Beat THEN "context" ELSE "caller")
       \/ /\ ~OwnContextEnded(a)
          /\ Goto(a, "sendClosed")
          /\ UNCHANGED <<closed, terminal, pending, orphans, sendErr>>
    /\ UNCHANGED <<clocks, parentEnded, done, cancelled, sequence, replied, id, deadline,
                   cause, reply, answer>>

SendClosed(a) ==
    /\ pc[a] = "sendClosed"
    /\ \/ closed /\ SendFails(a, terminal)
       \/ /\ ~closed
          /\ Goto(a, "sendExpiry")
          /\ UNCHANGED <<closed, terminal, pending, orphans, sendErr>>
    /\ UNCHANGED <<clocks, parentEnded, done, cancelled, sequence, replied, id, deadline,
                   cause, reply, answer>>

\* An aged session is ended here even before its timer is delivered.
SendExpiry(a) ==
    /\ pc[a] = "sendExpiry"
    /\ \/ /\ now < MaxAge
          /\ Goto(a, "sending")
          /\ UNCHANGED <<closed, terminal, pending, orphans, sendErr>>
       \/ /\ now >= MaxAge
          /\ BeginFinish(a, "expired")
          /\ sendErr' = IF a = Beat THEN sendErr ELSE [sendErr EXCEPT ![a] = "expired"]
    /\ UNCHANGED <<clocks, parentEnded, done, cancelled, sequence, replied, id, deadline,
                   cause, reply, answer>>

\* The transport's write returns.  It honours its context, which ends with the caller's
\* and, through AfterFunc, with the session's.
SendAborted(a) ==
    /\ pc[a] = "sending"
    /\ OwnContextEnded(a) \/ ContextEnded
    /\ SendFails(a, IF a = Beat THEN "context"
                    ELSE IF OwnContextEnded(a) THEN "caller" ELSE "interrupted")
    /\ UNCHANGED <<clocks, parentEnded, done, cancelled, sequence, replied, id, deadline,
                   cause, reply, answer>>

SendReturns(a) ==
    /\ pc[a] = "sending"
    /\ \/ SendFails(a, "transport")
       \/ /\ Goto(a, IF a = Beat THEN "waiting" ELSE "reply")
          /\ UNCHANGED <<closed, terminal, pending, orphans, sendErr>>
    /\ UNCHANGED <<clocks, parentEnded, done, cancelled, sequence, replied, id, deadline,
                   cause, reply, answer>>

Send(a) == SendContext(a) \/ SendClosed(a) \/ SendExpiry(a) \/ SendAborted(a)

--------------------------------------------------------------------------------
(* Call. *)

\* The caller's context may have ended before the call.
CallStart(c) ==
    /\ pc[c] = "idle"
    /\ \/ /\ answer' = [answer EXCEPT ![c] = "caller"]
          /\ Goto(c, "returned")
          /\ UNCHANGED deadline
       \/ /\ deadline' = [deadline EXCEPT ![c] = now + ResponseTimeout]
          /\ Goto(c, "register")
          /\ UNCHANGED answer
    /\ UNCHANGED <<clocks, parentEnded, shared, routing, id, cause, reply, sendErr>>

\* Under the mutex: a fresh id, and the reply channel is in pending before the send.
CallRegister(c) ==
    /\ pc[c] = "register"
    /\ \/ /\ closed
          /\ answer' = [answer EXCEPT ![c] = terminal]
          /\ Goto(c, "returned")
          /\ UNCHANGED <<sequence, pending, id>>
       \/ /\ ~closed
          /\ sequence' = sequence + 1
          /\ id' = [id EXCEPT ![c] = sequence + 1]
          /\ pending' = {p \in pending : p[1] # sequence + 1} \cup {<<sequence + 1, c>>}
          /\ Goto(c, "send")
          /\ UNCHANGED answer
    /\ UNCHANGED <<clocks, parentEnded, shared, orphans, replied, deadline, cause, reply,
                   sendErr>>

\* delete(s.pending, n)
ForgetNothing(n) == pending' = pending   \* mutant: the entry stays
Forget(n) == pending' = {p \in pending : p[1] # n}

\* What a call has looked at is of no use once it has its answer.
DropLocals(c) ==
    /\ deadline' = [deadline EXCEPT ![c] = 0]
    /\ cause' = [cause EXCEPT ![c] = "none"]
    /\ sendErr' = [sendErr EXCEPT ![c] = "none"]

\* After a failed send: the call's own cause, else the session's, else the error.
CallSendFailed(c) ==
    /\ pc[c] = "sendFailed"
    /\ answer' = [answer EXCEPT ![c] = IF cause[c] # "none" THEN cause[c]
                                       ELSE IF done THEN terminal ELSE sendErr[c]]
    /\ DropLocals(c)
    /\ Goto(c, "cleanup")
    /\ UNCHANGED <<clocks, parentEnded, shared, routing, id, reply>>

\* The select on the reply, the call's context and done.
CallSelect(c) ==
    /\ pc[c] = "reply"
    /\ \E a \in Answers :
          /\ \/ reply[c] # "empty" /\ a = reply[c]
             \/ cause[c] # "none" /\ a = cause[c]
             \/ done /\ a = terminal
          /\ answer' = [answer EXCEPT ![c] = a]
    /\ DropLocals(c)
    /\ Goto(c, "cleanup")
    /\ UNCHANGED <<clocks, parentEnded, shared, routing, id, reply>>

\* The deferred delete of the id, under the mutex; the reply channel dies with the call.
CallCleanup(c) ==
    /\ pc[c] = "cleanup"
    /\ Forget(id[c])
    /\ Goto(c, "returned")
    /\ reply' = [reply EXCEPT ![c] = "empty"]
    /\ UNCHANGED <<clocks, parentEnded, shared, sequence, orphans, replied, id, deadline,
                   cause, sendErr, answer>>

\* The watcher goroutine of a call, and the end of the caller's context: the first of
\* them sets the cause.  What they do to a call that has its answer nobody sees.
Unanswered == {c \in Calls : pc[c] \notin {"idle", "cleanup", "returned"}}

WatchBlindly(c) ==   \* mutant: the watcher reports the end, not its cause
    /\ cause[c] = "none" /\ c \in Unanswered
    /\ done /\ cause' = [cause EXCEPT ![c] = "context"]
    /\ UNCHANGED <<clocks, parentEnded, shared, routing, pc, id, deadline, reply, sendErr,
                   answer>>
WatchUntimed(c) ==   \* mutant: no response timeout
    /\ cause[c] = "none" /\ c \in Unanswered
    /\ done /\ cause' = [cause EXCEPT ![c] = terminal]
    /\ UNCHANGED <<clocks, parentEnded, shared, routing, pc, id, deadline, reply, sendErr,
                   answer>>
Watch(c) ==
    /\ cause[c] = "none" /\ c \in Unanswered
    /\ \/ done /\ cause' = [cause EXCEPT ![c] = terminal]
       \/ now >= deadline[c] /\ cause' = [cause EXCEPT ![c] = "deadline"]
    /\ UNCHANGED <<clocks, parentEnded, shared, routing, pc, id, deadline, reply, sendErr,
                   answer>>

CallerGivesUp(c) ==
    /\ cause[c] = "none" /\ c \in Unanswered
    /\ cause' = [cause EXCEPT ![c] = "caller"]
    /\ UNCHANGED <<clocks, parentEnded, shared, routing, pc, id, deadline, reply, sendErr,
                   answer>>

Call(c) == CallStart(c) \/ CallRegister(c) \/ CallSendFailed(c) \/ CallSelect(c) \/ CallCleanup(c)

--------------------------------------------------------------------------------
(* The workers, Close and Fail. *)

\* The heartbeat worker's select, whose timer dies with it; the age is read under the
\* mutex ...
BeatTick ==
    /\ pc[Beat] = "waiting"
    /\ \/ ContextEnded /\ Goto(Beat, "stopped") /\ tickAt' = 0
       \/ /\ now >= tickAt
          /\ IF now - lastPong >= MissedIntervals * Heartbeat
             THEN Goto(Beat, "late") /\ tickAt' = 0
             ELSE Goto(Beat, "send") /\ tickAt' = now + Heartbeat
    /\ UNCHANGED <<now, lastPong, parentEnded, shared, routing, locals>>

\* ... and used after it.
BeatLate ==
    /\ pc[Beat] = "late"
    /\ BeginFinish(Beat, "heartbeat")
    /\ UNCHANGED <<clocks, parentEnded, done, cancelled, sequence, replied, locals>>

ExpiryUntimed ==   \* mutant: no timer for the age of the session
    /\ pc[Expiry] = "waiting" /\ ContextEnded /\ BeginFinish(Expiry, "context")
    /\ UNCHANGED <<clocks, parentEnded, done, cancelled, sequence, replied, locals>>
ExpiryFires ==
    /\ pc[Expiry] = "waiting"
    /\ \/ ContextEnded /\ BeginFinish(Expiry, "context")
       \/ now >= MaxAge /\ BeginFinish(Expiry, "expired")
    /\ UNCHANGED <<clocks, parentEnded, done, cancelled, sequence, replied, locals>>

CloseStart ==
    /\ pc[Closer] = "idle"
    /\ BeginFinish(Closer, "closed")
    /\ UNCHANGED <<clocks, parentEnded, done, cancelled, sequence, replied, locals>>

\* workers.Wait
CloseJoin ==
    /\ pc[Closer] = "joining"
    /\ \A w \in Workers : pc[w] = "stopped"
    /\ Goto(Closer, "returned")
    /\ UNCHANGED <<clocks, parentEnded, shared, routing, locals>>

\* It may be called again, and then changes nothing.
Fail ==
    /\ pc[Reader] = "idle"
    /\ BeginFinish(Reader, "failed")
    /\ UNCHANGED <<clocks, parentEnded, done, cancelled, sequence, replied, locals>>

--------------------------------------------------------------------------------
(* Handle, under the mutex; a closed session takes nothing. *)

HandlePongAhead ==   \* mutant: stores the time of the next ping
    /\ ~closed /\ lastPong' = now + Heartbeat
    /\ UNCHANGED <<now, tickAt, parentEnded, shared, routing, pc, locals>>
HandlePong ==
    /\ ~closed
    /\ lastPong' = now
    /\ UNCHANGED <<now, tickAt, parentEnded, shared, routing, pc, locals>>

\* A result must name the control session.
Anyones(whose) == TRUE   \* mutant: the control session is not compared
Ours(whose) == whose = "ours"

\* A reply with a known id; any other reply is dropped.  The send on the reply channel
\* would block, holding the mutex, if the channel were full.
HandleReply ==
    /\ ~closed
    /\ \E p \in pending, whose \in WireReplies :
          /\ Ours(whose)
          /\ reply[p[2]] = "empty"
          /\ reply' = [reply EXCEPT ![p[2]] = "reply"]
          /\ Forget(p[1])
          /\ replied' = replied \cup {<<p[1], whose>>}
    /\ UNCHANGED <<clocks, parentEnded, shared, sequence, orphans, pc, id, deadline, cause,
                   sendErr, answer>>

--------------------------------------------------------------------------------
(* The environment. *)

\* Once finish has cancelled the context its parent makes no difference.
ParentEnds ==
    /\ ~ContextEnded /\ parentEnded' = TRUE
    /\ UNCHANGED <<clocks, shared, routing, pc, locals>>

Tick ==
    /\ now < Horizon /\ now' = now + 1
    /\ UNCHANGED <<lastPong, tickAt, parentEnded, shared, routing, pc, locals>>

WorkerStep == BeatTick \/ BeatLate \/ ExpiryFires \/ CloseJoin
PeerStep   == HandlePong \/ HandleReply

Next ==
    \/ \E c \in Calls : Call(c) \/ Watch(c) \/ CallerGivesUp(c)
    \/ \E a \in Calls \cup {Beat} : Send(a) \/ SendReturns(a)
    \/ \E a \in Actors : Finish(a)
    \/ WorkerStep \/ CloseStart \/ Fail
    \/ PeerStep
    \/ ParentEnds \/ Tick

Spec == Init /\ [][Next]_vars

\* What the program does on its own once a call, Close or Fail has begun.
ProgramStep ==
    \/ \E c \in Calls : (pc[c] # "idle" /\ Call(c)) \/ Watch(c)
    \/ \E a \in Calls \cup {Beat} : Send(a)
    \/ \E a \in Actors : Finish(a)
    \/ WorkerStep

\* Goroutines that can go on do, timers that are due fire, and the transport honours its
\* context ("Send must honor its context", session.go:145); it need not return otherwise,
\* and neither the peer nor the owner has to do anything.  The clock need not move: what
\* waits for a timer is said from the instant the timer is due.  Up to the horizon the
\* goroutines have finitely many steps to take, so that one fairness for all of them,
\* which is less than one for each, is enough.
Fairness == WF_vars(ProgramStep)

FairSpec == Spec /\ Fairness

--------------------------------------------------------------------------------
(* Properties. *)

\* Every variable holds a value of its type; no pong is dated in the future.
TypeOK ==
    /\ now \in 0..Horizon /\ lastPong \in 0..now /\ tickAt \in Nat
    /\ parentEnded \in BOOLEAN /\ cancelled \in BOOLEAN
    /\ closed \in BOOLEAN /\ done \in BOOLEAN /\ terminal \in Ends \cup {"none"}
    /\ sequence \in Nat /\ pending \subseteq Nat \X Calls /\ orphans \subseteq Calls
    /\ replied \subseteq Nat \X WireReplies
    /\ pc \in [Actors -> States]
    /\ id \in [Calls -> Nat] /\ deadline \in [Calls -> Nat]
    /\ cause \in [Calls -> Ends \cup CallerEnds \cup {"none"}]
    /\ reply \in [Calls -> Ends \cup PeerReplies \cup {"empty"}]
    /\ sendErr \in [Calls -> SendErrors]
    /\ answer \in [Calls -> Answers]

\* Handle never blocks on a reply channel while it holds the mutex: a call in pending
\* has an empty one, under its own id and no other.
HandleNeverBlocks ==
    \A p \in pending : reply[p[2]] = "empty" /\ id[p[2]] = p[1]

\* The end of a session reaches every call: from the moment closed is set nothing is
\* left in pending or registers in it, and done and the context follow with a cause.
EndReachesCalls ==
    /\ closed => pending = {}
    /\ done => closed
    /\ cancelled => done
    /\ closed <=> terminal # "none"
    /\ orphans # {} => \E a \in Actors : pc[a] = "finishing"

\* A peer's reply answers one call: the call that registered its id, with a reply for
\* this control session, delivered while the call was pending and with no other.
ReplyCorrelated ==
    \A c \in Calls : answer[c] = "reply" =>
        /\ \E r \in replied : /\ r = <<id[c], "ours">>
                              /\ \A q \in replied : q[1] = id[c] => q = r
        /\ \A d \in Calls : id[d] = id[c] => d = c

\* A call that has returned left no entry in pending behind.
ReturnedNotPending == \A p \in pending : pc[p[2]] # "returned"

\* What is in pending is a call under way whose reply can be delivered at once, whoever
\* ends it: the session, a reply, its deadline or its caller.
PendingSound == HandleNeverBlocks /\ ReturnedNotPending

\* A session ends once: neither a second Close, Fail or timer nor a late finish changes
\* the cause the first one set.
EndsOnce == [][closed => closed' /\ terminal' = terminal]_vars

\* A call that fails because the session ended reports the cause the session ended with
\* ("expired" aside: Send reports it by the clock while another finish is under way).
OneCause ==
    \A c \in Calls : answer[c] \in Ends \ {"expired", "transport"} => answer[c] = terminal

RepliedTo == {c \in Calls : \E r \in replied : r[1] = id[c]}

\* The promise to the callers, with a call's reply found under its request id.
Service == INSTANCE SessionService WITH
    Causes <- Ends, ended <- terminal, announced <- done, replies <- RepliedTo

\* However calls, workers, Close, Fail and the peer interleave, the session ends once, for
\* one cause, before it is announced, and takes no reply afterwards; and each call is
\* answered once, with its own reply, that cause or an error of its own.
ServiceSpec == Service!Spec

CallOverdue(c) ==
    pc[c] \notin {"idle", "returned"} /\ (cause[c] # "none" \/ now >= deadline[c])
SessionOverdue ==
    /\ closed \/ ContextEnded \/ now >= MaxAge
    /\ ~done \/ pc[Closer] \in FinishStates \cup {"joining"}
       \/ \E w \in Workers : pc[w] # "stopped"

\* Nothing that is due stays outstanding, whatever the peer does and with a transport that
\* only honours its context: a call whose response deadline has passed, or whose caller
\* has given up, returns, also on a session that lives on; a session that is closed, has
\* reached MaxAge or has lost its context closes done and lets both workers go, also one
\* with a ping in flight; and a Close that has begun returns.
NothingStaysOverdue == []<>(~SessionOverdue /\ \A c \in Calls : ~CallOverdue(c))
================================================================================
