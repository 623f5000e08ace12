---------------------------- MODULE SignalingWriter ----------------------------
(***************************************************************************)
(* pkg/dependencies/websocket/writer.go: the one goroutine (Run) that puts *)
(* frames on a signaling socket, and the goroutines that call Send.  Every *)
(* critical section of the mutex, every channel operation and every call   *)
(* out of the package is a step of its own.                                *)
(*                                                                         *)
(* A member of Requests is one call of Send with its context, its message  *)
(* and its result channel.  The message is abstracted to its class: the    *)
(* requests of PriorityRequests carry a close, a heartbeat or an explicit  *)
(* PTZ stop, the others anything else.                                     *)
(***************************************************************************)
EXTENDS Naturals, Sequences, FiniteSets

CONSTANTS Requests,          \* the calls of Send
          PriorityRequests,  \* those whose message prioritySignalingMessage accepts
          NoRequest,         \* Run holds no request
          Capacity,          \* signaling.SignalingWriteQueueCapacity
          BurstLimit         \* signaling.PriorityWriteBurstLimit

ASSUME RequestsAssumption == /\ PriorityRequests \subseteq Requests
                             /\ NoRequest \notin Requests
ASSUME BoundsAssumption == Capacity \in Nat \ {0} /\ BurstLimit \in Nat \ {0}

VARIABLES done,       \* the owner's done channel is closed
          cancelled,  \* the requests whose context has ended
          wake,       \* the wake channel (capacity 1) holds a token
          priority,   \* w.priority
          normal,     \* w.normal
          streak,     \* w.streak
          runner,     \* where Run is
          current,    \* Run's local variable request
          outcome,    \* Run's local variable err
          draining,   \* drain's local list
          result,     \* the result channels (capacity 1), "empty" or their content
          sender,     \* where each call of Send is
          answer,     \* what each call of Send returned, "none" before
          wire,       \* history: the requests whose frame was written, in order
          accepted,   \* history: the requests queue took, in order
          bypassed    \* history: priority picks in a row past a waiting normal request

queues  == <<priority, normal, streak>>
run     == <<runner, current, outcome, draining>>
sends   == <<sender, answer>>
history == <<wire, accepted, bypassed>>
vars    == <<done, cancelled, wake, queues, run, result, sends, history>>

\* The errors Send returns; "written" stands for nil.
Outcomes == {"written", "failed", "cancelled", "closed"}
Answers  == Outcomes \cup {"backpressure"}

RunnerStates == {"check", "next", "wait", "picked", "ready", "writing", "reply",
                 "failing", "drain", "answering", "finished"}
SenderStates == {"idle", "queueing", "waiting", "removing", "returned"}

Elements(q) == {q[i] : i \in DOMAIN q}
Queued == Elements(priority) \cup Elements(normal)
DropAt(q, i) == [j \in 1 .. Len(q) - 1 |-> IF j < i THEN q[j] ELSE q[j + 1]]

\* The error Run and drain give a request they do not write.
Refusal(r) == IF r \in cancelled THEN "cancelled" ELSE "closed"

Init == /\ done = FALSE
        /\ cancelled = {}
        /\ wake = FALSE
        /\ priority = <<>> /\ normal = <<>> /\ streak = 0
        /\ runner = "check" /\ current = NoRequest /\ outcome = "written"
        /\ draining = <<>>
        /\ result = [r \in Requests |-> "empty"]
        /\ sender = [r \in Requests |-> "idle"]
        /\ answer = [r \in Requests |-> "none"]
        /\ wire = <<>> /\ accepted = <<>> /\ bypassed = 0

--------------------------------------------------------------------------------
(* The callers of Send. *)

Return(r, a) == /\ sender' = [sender EXCEPT ![r] = "returned"]
                /\ answer' = [answer EXCEPT ![r] = a]

\* Send looks at its context before it does anything else.
SendStart(r) ==
    /\ sender[r] = "idle"
    /\ \/ /\ r \in cancelled
          /\ Return(r, "cancelled")
       \/ /\ r \notin cancelled
          /\ sender' = [sender EXCEPT ![r] = "queueing"]
          /\ UNCHANGED answer
    /\ UNCHANGED <<done, cancelled, wake, queues, run, result, history>>

\* The non-blocking send of the wake token.
SignalLost == wake' = wake   \* mutant: the token is forgotten
Signal == wake' = TRUE

\* queue, under the mutex: one capacity for both classes, then the wake token.
Queue(r) ==
    /\ sender[r] = "queueing"
    /\ \/ /\ Len(priority) + Len(normal) >= Capacity
          /\ Return(r, "backpressure")
          /\ UNCHANGED <<wake, priority, normal, accepted>>
       \/ /\ Len(priority) + Len(normal) < Capacity
          /\ IF r \in PriorityRequests
             THEN priority' = Append(priority, r) /\ UNCHANGED normal
             ELSE normal' = Append(normal, r) /\ UNCHANGED priority
          /\ Signal
          /\ accepted' = Append(accepted, r)
          /\ sender' = [sender EXCEPT ![r] = "waiting"]
          /\ UNCHANGED answer
    /\ UNCHANGED <<done, cancelled, streak, run, result, wire, bypassed>>

\* Send's select takes the result ...
TakeResult(r) ==
    /\ sender[r] = "waiting"
    /\ result[r] # "empty"
    /\ Return(r, result[r])
    /\ result' = [result EXCEPT ![r] = "empty"]
    /\ UNCHANGED <<done, cancelled, wake, queues, run, history>>

\* ... or the end of its context, or the end of the owner.
GiveUpOnCancelOnly(r) ==   \* mutant: the select does not watch done
    /\ sender[r] = "waiting" /\ r \in cancelled
    /\ sender' = [sender EXCEPT ![r] = "removing"]
    /\ UNCHANGED <<done, cancelled, wake, queues, run, result, answer, history>>
GiveUpAtOnce(r) ==         \* mutant: returns without remove
    /\ sender[r] = "waiting" /\ r \in cancelled /\ Return(r, "cancelled")
    /\ UNCHANGED <<done, cancelled, wake, queues, run, result, history>>
GiveUp(r) ==
    /\ sender[r] = "waiting"
    /\ r \in cancelled \/ done
    /\ sender' = [sender EXCEPT ![r] = "removing"]
    /\ UNCHANGED <<done, cancelled, wake, queues, run, result, answer, history>>

\* remove, under the mutex, and the return that follows it.
Remove(r) ==
    /\ sender[r] = "removing"
    /\ \/ \E i \in DOMAIN priority : /\ priority[i] = r
                                     /\ priority' = DropAt(priority, i)
                                     /\ UNCHANGED normal
       \/ \E i \in DOMAIN normal : /\ normal[i] = r
                                   /\ normal' = DropAt(normal, i)
                                   /\ UNCHANGED priority
       \/ r \notin Queued /\ UNCHANGED <<priority, normal>>
    /\ \E a \in {"cancelled", "closed"} :
          /\ a = "cancelled" => r \in cancelled
          /\ a = "closed" => done
          /\ Return(r, a)
    /\ bypassed' = IF normal' = <<>> THEN 0 ELSE bypassed
    /\ UNCHANGED <<done, cancelled, wake, streak, run, result, wire, accepted>>

--------------------------------------------------------------------------------
(* Run. *)

\* The non-blocking look at done at the head of the loop.
RunCheck ==
    /\ runner = "check"
    /\ runner' = IF done THEN "drain" ELSE "next"
    /\ UNCHANGED <<done, cancelled, wake, queues, current, outcome, draining, result,
                   sends, history>>

\* next, under the mutex: whose turn it is.
NormalTurnLate == normal # <<>> /\ (priority = <<>> \/ streak > BurstLimit)  \* mutant
NormalTurn == normal # <<>> /\ (priority = <<>> \/ streak >= BurstLimit)

PickNormal ==
    /\ NormalTurn
    /\ current' = Head(normal)
    /\ normal' = Tail(normal)
    /\ streak' = 0
    /\ bypassed' = 0
    /\ UNCHANGED priority

PickPriorityKeep ==     \* mutant: the picked request stays queued
    /\ priority # <<>> /\ ~NormalTurn
    /\ current' = Head(priority) /\ streak' = streak + 1 /\ bypassed' = 0
    /\ UNCHANGED <<priority, normal>>
PickPriorityNewest ==   \* mutant: takes the queue from its end
    /\ priority # <<>> /\ ~NormalTurn
    /\ current' = priority[Len(priority)] /\ priority' = DropAt(priority, Len(priority))
    /\ streak' = streak + 1 /\ bypassed' = 0
    /\ UNCHANGED normal
PickPriority ==
    /\ priority # <<>> /\ ~NormalTurn
    /\ current' = Head(priority)
    /\ priority' = Tail(priority)
    /\ streak' = streak + 1
    /\ bypassed' = IF normal = <<>> THEN 0 ELSE bypassed + 1
    /\ UNCHANGED normal

RunNextUnchecked ==   \* mutant: no look at whether next returned a request
    /\ runner = "next"
    /\ \/ /\ priority = <<>> /\ normal = <<>>
          /\ UNCHANGED <<queues, current, bypassed>>
       \/ PickNormal \/ PickPriority
    /\ runner' = "picked"
    /\ UNCHANGED <<done, cancelled, wake, outcome, draining, result, sends, wire, accepted>>
RunNext ==
    /\ runner = "next"
    /\ \/ /\ priority = <<>> /\ normal = <<>>
          /\ runner' = "wait"
          /\ UNCHANGED <<queues, current, bypassed>>
       \/ (PickNormal \/ PickPriority) /\ runner' = "picked"
    /\ UNCHANGED <<done, cancelled, wake, outcome, draining, result, sends, wire, accepted>>

\* The blocking select on wake and done.
RunWakeOnly ==   \* mutant: sleeps on wake alone
    /\ runner = "wait" /\ wake /\ wake' = FALSE /\ runner' = "check"
    /\ UNCHANGED <<done, cancelled, queues, current, outcome, draining, result, sends, history>>
RunWake ==
    /\ runner = "wait"
    /\ \/ wake /\ wake' = FALSE /\ runner' = "check"
       \/ done /\ runner' = "drain" /\ UNCHANGED wake
    /\ UNCHANGED <<done, cancelled, queues, current, outcome, draining, result, sends, history>>

\* The second look at done: a request picked after the end is refused, not written.
RunRecheck ==
    /\ runner = "picked"
    /\ \/ /\ done
          /\ result[current] = "empty"
          /\ result' = [result EXCEPT ![current] = Refusal(current)]
          /\ runner' = "drain"
       \/ /\ ~done
          /\ runner' = "ready"
          /\ UNCHANGED result
    /\ UNCHANGED <<done, cancelled, wake, queues, current, outcome, draining, sends, history>>

\* A request whose context has ended is answered without a write.
RunStart ==
    /\ runner = "ready"
    /\ \/ current \in cancelled /\ outcome' = "cancelled" /\ runner' = "reply"
       \/ current \notin cancelled /\ runner' = "writing" /\ UNCHANGED outcome
    /\ UNCHANGED <<done, cancelled, wake, queues, current, draining, result, sends, history>>

\* w.write returns: the frame is on the wire, or the socket, the encoding or the
\* write deadline failed, or the context ended under it.
RunWriteOptimist ==   \* mutant: a failed write is reported as done
    /\ runner = "writing" /\ runner' = "reply" /\ outcome' = "written"
    /\ wire' \in {wire, Append(wire, current)}
    /\ UNCHANGED <<done, cancelled, wake, queues, current, draining, result, sends,
                   accepted, bypassed>>
RunWrite ==
    /\ runner = "writing"
    /\ \/ outcome' = "written" /\ wire' = Append(wire, current)
       \/ outcome' = "failed" /\ UNCHANGED wire
       \/ current \in cancelled /\ outcome' = "cancelled" /\ UNCHANGED wire
    /\ runner' = "reply"
    /\ UNCHANGED <<done, cancelled, wake, queues, current, draining, result, sends,
                   accepted, bypassed>>

\* The send on the result channel; it would block on a full one.
RunReply ==
    /\ runner = "reply"
    /\ result[current] = "empty"
    /\ result' = [result EXCEPT ![current] = outcome]
    /\ runner' = IF outcome # "written" /\ current \notin cancelled THEN "failing" ELSE "check"
    /\ UNCHANGED <<done, cancelled, wake, queues, current, outcome, draining, sends, history>>

\* onFailure is the connection's fail: it closes done unless a Close has begun.
RunFail ==
    /\ runner = "failing"
    /\ done' \in {done, TRUE}
    /\ runner' = "check"
    /\ UNCHANGED <<cancelled, wake, queues, current, outcome, draining, result, sends, history>>

\* drain empties both queues under the mutex ...
RunDrain ==
    /\ runner = "drain"
    /\ draining' = priority \o normal
    /\ priority' = <<>> /\ normal' = <<>>
    /\ bypassed' = 0
    /\ runner' = "answering"
    /\ UNCHANGED <<done, cancelled, wake, streak, current, outcome, result, sends, wire, accepted>>

\* ... then answers the list; Run returns and closes finished.
RunAnswer ==
    /\ runner = "answering"
    /\ \/ /\ draining # <<>>
          /\ result[Head(draining)] = "empty"
          /\ result' = [result EXCEPT ![Head(draining)] = Refusal(Head(draining))]
          /\ draining' = Tail(draining)
          /\ UNCHANGED runner
       \/ /\ draining = <<>>
          /\ runner' = "finished"
          /\ UNCHANGED <<result, draining>>
    /\ UNCHANGED <<done, cancelled, wake, queues, current, outcome, sends, history>>

--------------------------------------------------------------------------------
(* The environment: the owner ends, a caller's context ends. *)

CloseDone == /\ ~done /\ done' = TRUE
             /\ UNCHANGED <<cancelled, wake, queues, run, result, sends, history>>

Cancel(r) == /\ r \notin cancelled /\ cancelled' = cancelled \cup {r}
             /\ UNCHANGED <<done, wake, queues, run, result, sends, history>>

Proceed(r) == SendStart(r) \/ Queue(r) \/ TakeResult(r) \/ GiveUp(r) \/ Remove(r)

Run == \/ RunCheck \/ RunNext \/ RunWake \/ RunRecheck \/ RunStart \/ RunWrite
       \/ RunReply \/ RunFail \/ RunDrain \/ RunAnswer

Next == \/ Run
        \/ \E r \in Requests : Proceed(r) \/ Cancel(r)
        \/ CloseDone

Spec == Init /\ [][Next]_vars

\* The Go scheduler runs every goroutine that can go on, and w.write returns: it
\* carries a deadline of signaling.SendTimeout.  Nobody has to close done, to end
\* a context or to call Send.
Fairness == /\ WF_vars(Run)
            /\ \A r \in Requests : WF_vars(sender[r] # "idle" /\ Proceed(r))

FairSpec == Spec /\ Fairness

--------------------------------------------------------------------------------
(* Properties. *)

\* Every variable holds a value of its type: the queues hold requests, the
\* result channels at most one error each, and Run holds a request while it serves one.
TypeOK ==
    /\ done \in BOOLEAN /\ wake \in BOOLEAN
    /\ cancelled \subseteq Requests
    /\ priority \in Seq(Requests) /\ normal \in Seq(Requests)
    /\ streak \in Nat /\ bypassed \in Nat
    /\ runner \in RunnerStates /\ outcome \in Outcomes
    /\ current \in Requests \cup {NoRequest}
    /\ runner \in {"picked", "ready", "writing", "reply"} => current \in Requests
    /\ draining \in Seq(Requests)
    /\ result \in [Requests -> Outcomes \cup {"empty"}]
    /\ sender \in [Requests -> SenderStates]
    /\ answer \in [Requests -> Answers \cup {"none"}]
    /\ wire \in Seq(Requests) /\ accepted \in Seq(Requests)

\* While Run sleeps in its select, a queued request has left a wake token: the
\* token sent by queue is never lost between next and the select.
NoLostWakeup == runner = "wait" /\ Queued # {} => wake

\* Run and drain never block on a result channel: whatever they are about to
\* answer still has an empty channel.
ResultRoom ==
    /\ runner \in {"picked", "ready", "writing", "reply"} => result[current] = "empty"
    /\ \A i \in DOMAIN draining : result[draining[i]] = "empty"

\* Run, blocked only in its select, keeps both queues within their one capacity, and
\* no request is both queued and already returned: remove ran before the return.
ReturnedNotQueued ==
    /\ Len(priority) + Len(normal) <= Capacity
    /\ \A r \in Requests : sender[r] = "returned" => r \notin Queued

\* A waiting normal request is passed over by at most BurstLimit priority picks.
BurstBound == bypassed <= BurstLimit

\* Two frames of one class are written in the order queue took them.
FifoPerClass ==
    \A i, j \in DOMAIN wire :
        /\ i < j
        /\ wire[i] \in PriorityRequests <=> wire[j] \in PriorityRequests
        => \E a, b \in DOMAIN accepted : a < b /\ accepted[a] = wire[i] /\ accepted[b] = wire[j]

\* The writer implements the outbox its callers rely on.
Outbox == INSTANCE FrameOutbox WITH
    sent <- Elements(wire),
    inflight <- IF runner \in {"picked", "ready", "writing"} THEN current ELSE NoRequest

OutboxSpec == Outbox!Spec

\* Every call of Send that has begun returns, even one queued after drain.
SendReturns == \A r \in Requests : sender[r] = "queueing" ~> sender[r] = "returned"

\* Once done is closed, Run answers what is queued and finishes: Close, which waits
\* for Finished, does not hang on the writer.
RunFinishes == done ~> runner = "finished"
================================================================================
