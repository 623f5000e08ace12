------------------------- MODULE SignalingWriterProofs -------------------------
(***************************************************************************)
(* Theorems about SignalingWriter for every set of requests, capacity and  *)
(* burst limit.  The inductive invariant says who owns a request: it is in *)
(* one queue, in drain's list or in Run's hands, in one of them at most,   *)
(* and whoever owns it finds its result channel empty.                     *)
(***************************************************************************)
EXTENDS SignalingWriter, TLAPS

\* No request occurs twice in a list.
Distinct(q) == \A i, j \in DOMAIN q : q[i] = q[j] => i = j

\* The request Run has taken and not yet answered.
Held == IF runner \in {"picked", "ready", "writing", "reply"} THEN {current} ELSE {}

\* The request Run has taken and may still write.
Unwritten == IF runner \in {"picked", "ready", "writing"} THEN {current} ELSE {}

\* Each request has one owner.
Ownership ==
    /\ Distinct(priority) /\ Distinct(normal) /\ Distinct(draining)
    /\ Elements(priority) \cap Elements(normal) = {}
    /\ Queued \cap Elements(draining) = {}
    /\ Held \cap (Queued \cup Elements(draining)) = {}
    /\ runner # "answering" => draining = <<>>

\* What a caller of Send may assume of its request.
Calls ==
    \A r \in Requests :
        /\ r \in Queued => sender[r] \in {"waiting", "removing"}
        /\ sender[r] \in {"idle", "queueing"} =>
              r \notin Elements(draining) /\ r \notin Held /\ result[r] = "empty"
        /\ sender[r] # "returned" => answer[r] = "none"

\* Result channels and the wire.
Answering ==
    /\ \A r \in Queued \cup Elements(draining) \cup Held : result[r] = "empty"
    /\ \A r \in Requests : result[r] = "written" => r \in Elements(wire)
    /\ runner = "reply" /\ outcome = "written" => current \in Elements(wire)
    /\ \A r \in Requests : r \in Elements(wire) =>
          /\ r \notin Queued \cup Elements(draining) \cup Unwritten
          /\ sender[r] \notin {"idle", "queueing"}

IInv == TypeOK /\ Ownership /\ Calls /\ Answering

--------------------------------------------------------------------------------
(* Lemmas on the lists of requests. *)

\* The queue without its i-th entry: remove takes out one request and keeps the rest.
LEMMA DropAtLemma ==
    ASSUME NEW q \in Seq(Requests), NEW i \in DOMAIN q
    PROVE  /\ DropAt(q, i) \in Seq(Requests)
           /\ Len(DropAt(q, i)) = Len(q) - 1
           /\ Elements(DropAt(q, i)) \subseteq Elements(q)
           /\ Distinct(q) => /\ Distinct(DropAt(q, i))
                             /\ Elements(DropAt(q, i)) = Elements(q) \ {q[i]}
<1>1. i \in 1..Len(q) /\ Len(q) \in Nat
  OBVIOUS
<1> DEFINE d == DropAt(q, i)
<1>2. d \in Seq(Requests) /\ Len(d) = Len(q) - 1
  BY <1>1 DEF DropAt
<1>3. \A j \in 1..Len(q) - 1 : d[j] = IF j < i THEN q[j] ELSE q[j + 1]
  BY <1>1 DEF DropAt
<1>4. Elements(d) \subseteq Elements(q)
  BY <1>1, <1>2, <1>3 DEF Elements
<1>5. ASSUME Distinct(q)
      PROVE  Distinct(d) /\ Elements(d) = Elements(q) \ {q[i]}
  <2>1. Distinct(d)
    <3> SUFFICES ASSUME NEW a \in 1..Len(q) - 1, NEW b \in 1..Len(q) - 1, d[a] = d[b]
                 PROVE  a = b
      BY <1>1, <1>2 DEF Distinct
    <3> QED BY <1>1, <1>3, <1>5 DEF Distinct
  <2>2. q[i] \notin Elements(d)
    BY <1>1, <1>2, <1>3, <1>5 DEF Distinct, Elements
  <2>3. ASSUME NEW x \in Elements(q), x # q[i]
        PROVE  x \in Elements(d)
    <3>1. PICK k \in 1..Len(q) : q[k] = x
      BY DEF Elements
    <3>2. CASE k < i
      BY <1>1, <1>2, <1>3, <3>1, <3>2 DEF Elements
    <3>3. CASE k > i
      <4>1. k - 1 \in 1..Len(q) - 1 /\ d[k - 1] = x
        BY <1>1, <1>3, <3>1, <3>3
      <4> QED BY <4>1, <1>2 DEF Elements
    <3> QED BY <1>1, <2>3, <3>1, <3>2, <3>3
  <2> QED BY <1>4, <2>1, <2>2, <2>3
<1> QED BY <1>2, <1>4, <1>5

\* Taking the head of a list without repetitions takes it out.
LEMMA TailLemma ==
    ASSUME NEW q \in Seq(Requests), q # <<>>
    PROVE  /\ Head(q) \in Requests /\ Head(q) \in Elements(q)
           /\ Tail(q) \in Seq(Requests) /\ Len(Tail(q)) = Len(q) - 1
           /\ Elements(Tail(q)) \subseteq Elements(q)
           /\ Distinct(q) => /\ Distinct(Tail(q))
                             /\ Elements(Tail(q)) = Elements(q) \ {Head(q)}
<1>1. Len(q) \in Nat /\ Len(q) > 0 /\ Head(q) = q[1] /\ 1 \in DOMAIN q
  OBVIOUS
<1>2. Tail(q) \in Seq(Requests) /\ Len(Tail(q)) = Len(q) - 1
  OBVIOUS
<1>3. \A j \in 1..Len(q) - 1 : Tail(q)[j] = q[j + 1]
  BY <1>1
<1>4. Elements(Tail(q)) \subseteq Elements(q)
  BY <1>1, <1>2, <1>3 DEF Elements
<1>5. ASSUME Distinct(q)
      PROVE  Distinct(Tail(q)) /\ Elements(Tail(q)) = Elements(q) \ {Head(q)}
  <2>1. Distinct(Tail(q)) /\ Head(q) \notin Elements(Tail(q))
    BY <1>1, <1>2, <1>3, <1>5 DEF Distinct, Elements
  <2>2. ASSUME NEW x \in Elements(q), x # Head(q)
        PROVE  x \in Elements(Tail(q))
    <3>1. PICK k \in 1..Len(q) : q[k] = x
      BY DEF Elements
    <3>2. k - 1 \in 1..Len(q) - 1 /\ Tail(q)[k - 1] = x
      BY <1>1, <1>3, <2>2, <3>1
    <3>3. k - 1 \in DOMAIN Tail(q)
      BY <1>1, <1>2, <3>2
    <3> QED BY <3>2, <3>3 DEF Elements
  <2> QED BY <1>4, <2>1, <2>2
<1>6. Head(q) \in Requests /\ Head(q) \in Elements(q)
  BY <1>1 DEF Elements
<1> QED BY <1>2, <1>4, <1>5, <1>6

\* Queueing a request that is not in the list keeps it without repetitions.
LEMMA AppendLemma ==
    ASSUME NEW q \in Seq(Requests), NEW r \in Requests
    PROVE  /\ Append(q, r) \in Seq(Requests) /\ Len(Append(q, r)) = Len(q) + 1
           /\ Elements(Append(q, r)) = Elements(q) \cup {r}
           /\ Distinct(q) /\ r \notin Elements(q) => Distinct(Append(q, r))
<1>1. /\ Len(q) \in Nat /\ Append(q, r) \in Seq(Requests)
      /\ Len(Append(q, r)) = Len(q) + 1
      /\ \A j \in 1..Len(q) : Append(q, r)[j] = q[j]
      /\ Append(q, r)[Len(q) + 1] = r
  OBVIOUS
<1>2. \A j \in 1..Len(q) + 1 : j \in 1..Len(q) \/ j = Len(q) + 1
  BY <1>1
<1>3. Elements(q) \cup {r} \subseteq Elements(Append(q, r))
  <2>1. ASSUME NEW x \in Elements(q) PROVE x \in Elements(Append(q, r))
    <3>1. PICK k \in 1..Len(q) : q[k] = x
      BY DEF Elements
    <3> QED BY <1>1, <3>1 DEF Elements
  <2>2. r \in Elements(Append(q, r))
    BY <1>1 DEF Elements
  <2> QED BY <2>1, <2>2
<1>4. Elements(Append(q, r)) \subseteq Elements(q) \cup {r}
  BY <1>1, <1>2 DEF Elements
<1>5. Distinct(q) /\ r \notin Elements(q) => Distinct(Append(q, r))
  BY <1>1, <1>2 DEF Distinct, Elements
<1> QED BY <1>1, <1>3, <1>4, <1>5

\* drain's list holds what the two queues held.
LEMMA ConcatLemma ==
    ASSUME NEW p \in Seq(Requests), NEW q \in Seq(Requests)
    PROVE  /\ p \o q \in Seq(Requests)
           /\ Elements(p \o q) = Elements(p) \cup Elements(q)
           /\ Distinct(p) /\ Distinct(q) /\ Elements(p) \cap Elements(q) = {}
                 => Distinct(p \o q)
<1> DEFINE c == p \o q
<1>1. /\ Len(p) \in Nat /\ Len(q) \in Nat /\ c \in Seq(Requests)
      /\ Len(c) = Len(p) + Len(q)
      /\ \A j \in 1..Len(p) + Len(q) : c[j] = IF j <= Len(p) THEN p[j] ELSE q[j - Len(p)]
  OBVIOUS
<1>2. Elements(p) \subseteq Elements(c)
  BY <1>1 DEF Elements
<1>3. Elements(q) \subseteq Elements(c)
  <2>1. ASSUME NEW x \in Elements(q) PROVE x \in Elements(c)
    <3>1. PICK k \in 1..Len(q) : q[k] = x
      BY DEF Elements
    <3>2. k + Len(p) \in 1..Len(p) + Len(q) /\ c[k + Len(p)] = x
      BY <1>1, <3>1
    <3> QED BY <1>1, <3>2 DEF Elements
  <2> QED BY <2>1
<1>4. Elements(c) \subseteq Elements(p) \cup Elements(q)
  BY <1>1 DEF Elements
<1>5. ASSUME Distinct(p), Distinct(q), Elements(p) \cap Elements(q) = {}
      PROVE  Distinct(c)
  <2> SUFFICES ASSUME NEW i \in 1..Len(p) + Len(q), NEW j \in 1..Len(p) + Len(q),
                      c[i] = c[j]
               PROVE  i = j
    BY <1>1 DEF Distinct
  <2>1. CASE i <= Len(p) /\ j <= Len(p)
    BY <1>1, <1>5, <2>1 DEF Distinct
  <2>2. CASE i > Len(p) /\ j > Len(p)
    <3>1. i - Len(p) \in DOMAIN q /\ j - Len(p) \in DOMAIN q
      BY <1>1, <2>2
    <3>2. q[i - Len(p)] = q[j - Len(p)]
      BY <1>1, <2>2
    <3>3. i - Len(p) = j - Len(p)
      BY <1>5, <3>1, <3>2 DEF Distinct
    <3> QED BY <1>1, <3>3
  <2>3. CASE i <= Len(p) /\ j > Len(p)
    <3>1. c[i] \in Elements(p)
      BY <1>1, <2>3 DEF Elements
    <3>2. j - Len(p) \in DOMAIN q /\ c[j] = q[j - Len(p)]
      BY <1>1, <2>3
    <3> QED BY <1>5, <3>1, <3>2 DEF Elements
  <2>4. CASE i > Len(p) /\ j <= Len(p)
    <3>1. c[j] \in Elements(p)
      BY <1>1, <2>4 DEF Elements
    <3>2. i - Len(p) \in DOMAIN q /\ c[i] = q[i - Len(p)]
      BY <1>1, <2>4
    <3> QED BY <1>5, <3>1, <3>2 DEF Elements
  <2> QED BY <1>1, <2>1, <2>2, <2>3, <2>4
<1> QED BY <1>1, <1>2, <1>3, <1>4, <1>5

--------------------------------------------------------------------------------
(* Type correctness. *)

\* Every step leaves every variable in its type: the queues keep requests, a result
\* channel keeps at most one error.
THEOREM TypeCorrect == Spec => []TypeOK
<1>1. Init => TypeOK
  <2> SUFFICES ASSUME Init PROVE TypeOK
    OBVIOUS
  <2>1. <<>> \in Seq(Requests)
    OBVIOUS
  <2>2. /\ priority \in Seq(Requests) /\ normal \in Seq(Requests)
        /\ draining \in Seq(Requests) /\ wire \in Seq(Requests) /\ accepted \in Seq(Requests)
    BY <2>1, Zenon DEF Init
  <2>3. /\ result \in [Requests -> Outcomes \cup {"empty"}]
        /\ sender \in [Requests -> SenderStates]
        /\ answer \in [Requests -> Answers \cup {"none"}]
    BY DEF Init, SenderStates
  <2> QED BY <2>2, <2>3 DEF Init, TypeOK, RunnerStates, Outcomes
<1>2. TypeOK /\ [Next]_vars => TypeOK'
  <2> SUFFICES ASSUME TypeOK, [Next]_vars PROVE TypeOK'
    OBVIOUS
  <2> USE DEF TypeOK, RunnerStates, SenderStates, Outcomes, Answers
  <2>1. ASSUME NEW r \in Requests, SendStart(r) PROVE TypeOK'
    BY <2>1 DEF SendStart, Return, queues, run, history
  <2>2. ASSUME NEW r \in Requests, Queue(r) PROVE TypeOK'
    <3>1. /\ Append(priority, r) \in Seq(Requests) /\ Append(normal, r) \in Seq(Requests)
          /\ Append(accepted, r) \in Seq(Requests)
      BY AppendLemma
    <3> QED BY <2>2, <3>1, ZenonT(60) DEF Queue, Signal, Return, run
  <2>3. ASSUME NEW r \in Requests, TakeResult(r) PROVE TypeOK'
    <3>1. result[r] \in Outcomes
      BY <2>3 DEF TakeResult
    <3> QED BY <2>3, <3>1 DEF TakeResult, Return, queues, run, history
  <2>4. ASSUME NEW r \in Requests, GiveUp(r) PROVE TypeOK'
    BY <2>4 DEF GiveUp, queues, run, history
  <2>5. ASSUME NEW r \in Requests, Remove(r) PROVE TypeOK'
    <3>1. /\ \A i \in DOMAIN priority : DropAt(priority, i) \in Seq(Requests)
          /\ \A i \in DOMAIN normal : DropAt(normal, i) \in Seq(Requests)
      BY DropAtLemma
    <3>2. priority' \in Seq(Requests) /\ normal' \in Seq(Requests)
      BY <2>5, <3>1 DEF Remove
    <3>3. bypassed' \in Nat
      BY <2>5 DEF Remove
    <3>4. sender' \in [Requests -> SenderStates] /\ answer' \in [Requests -> Answers \cup {"none"}]
      BY <2>5 DEF Remove, Return
    <3> QED BY <2>5, <3>2, <3>3, <3>4 DEF Remove, run
  <2>6. ASSUME NEW r \in Requests, Cancel(r) PROVE TypeOK'
    BY <2>6 DEF Cancel, queues, run, sends, history
  <2>7. CASE CloseDone
    BY <2>7 DEF CloseDone, queues, run, sends, history
  <2>8. CASE RunCheck
    BY <2>8 DEF RunCheck, queues, sends, history
  <2>9. CASE RunNext
    <3>1. CASE runner' = "wait" /\ UNCHANGED <<queues, current, bypassed>>
      BY <2>9, <3>1 DEF RunNext, queues, sends
    <3>2. CASE PickNormal /\ runner' = "picked"
      BY <2>9, <3>2, TailLemma DEF RunNext, PickNormal, NormalTurn, sends
    <3>3. CASE PickPriority /\ runner' = "picked"
      BY <2>9, <3>3, TailLemma DEF RunNext, PickPriority, NormalTurn, sends
    <3> QED BY <2>9, <3>1, <3>2, <3>3 DEF RunNext
  <2>10. CASE RunWake
    BY <2>10 DEF RunWake, queues, sends, history
  <2>11. CASE RunRecheck
    BY <2>11 DEF RunRecheck, Refusal, queues, sends, history
  <2>12. CASE RunStart
    BY <2>12 DEF RunStart, queues, sends, history
  <2>13. CASE RunWrite
    <3>1. Append(wire, current) \in Seq(Requests)
      BY <2>13, AppendLemma DEF RunWrite
    <3> QED BY <2>13, <3>1 DEF RunWrite, queues, sends
  <2>14. CASE RunReply
    BY <2>14 DEF RunReply, queues, sends, history
  <2>15. CASE RunFail
    BY <2>15 DEF RunFail, queues, sends, history
  <2>16. CASE RunDrain
    <3>1. priority \o normal \in Seq(Requests)
      BY ConcatLemma
    <3> QED BY <2>16, <3>1 DEF RunDrain, sends
  <2>17. CASE RunAnswer
    <3>1. CASE draining # <<>>
      <4>1. Head(draining) \in Requests /\ Tail(draining) \in Seq(Requests)
        BY <3>1, TailLemma
      <4>2. Refusal(Head(draining)) \in Outcomes
        BY DEF Refusal
      <4> QED BY <2>17, <3>1, <4>1, <4>2 DEF RunAnswer, queues, sends, history
    <3>2. CASE draining = <<>>
      BY <2>17, <3>2 DEF RunAnswer, queues, sends, history
    <3> QED BY <3>1, <3>2
  <2>18. CASE UNCHANGED vars
    BY <2>18 DEF vars, queues, run, sends, history
  <2> QED BY <2>1, <2>2, <2>3, <2>4, <2>5, <2>6, <2>7, <2>8, <2>9, <2>10, <2>11, <2>12,
             <2>13, <2>14, <2>15, <2>16, <2>17, <2>18 DEF Next, Run, Proceed
<1> QED BY <1>1, <1>2, PTL DEF Spec

--------------------------------------------------------------------------------
(* The wake token. *)

\* While Run sleeps with a request queued, the wake token is there: every queue call
\* puts it, and Run takes it only to go back and look at the queues.
THEOREM WakeupNotLost == Spec => []NoLostWakeup
<1>1. Init => NoLostWakeup
  BY DEF Init, NoLostWakeup
<1>2. TypeOK /\ NoLostWakeup /\ [Next]_vars => NoLostWakeup'
  <2> SUFFICES ASSUME TypeOK, NoLostWakeup, [Next]_vars PROVE NoLostWakeup'
    OBVIOUS
  <2> USE DEF NoLostWakeup, Queued
  <2>1. ASSUME NEW r \in Requests, SendStart(r) PROVE NoLostWakeup'
    BY <2>1 DEF SendStart, queues, run
  <2>2. ASSUME NEW r \in Requests, Queue(r) PROVE NoLostWakeup'
    BY <2>2 DEF Queue, Signal, run
  <2>3. ASSUME NEW r \in Requests, TakeResult(r) PROVE NoLostWakeup'
    BY <2>3 DEF TakeResult, queues, run
  <2>4. ASSUME NEW r \in Requests, GiveUp(r) PROVE NoLostWakeup'
    BY <2>4 DEF GiveUp, queues, run
  <2>5. ASSUME NEW r \in Requests, Remove(r) PROVE NoLostWakeup'
    <3>1. Elements(priority') \subseteq Elements(priority)
      BY <2>5, DropAtLemma DEF Remove, TypeOK
    <3>2. Elements(normal') \subseteq Elements(normal)
      BY <2>5, DropAtLemma DEF Remove, TypeOK
    <3> QED BY <2>5, <3>1, <3>2 DEF Remove, run
  <2>6. ASSUME NEW r \in Requests, Cancel(r) PROVE NoLostWakeup'
    BY <2>6 DEF Cancel, queues, run
  <2>7. CASE CloseDone
    BY <2>7 DEF CloseDone, queues, run
  <2>8. CASE RunNext
    <3>1. CASE priority = <<>> /\ normal = <<>> /\ UNCHANGED queues
      <4>1. Elements(priority) = {} /\ Elements(normal) = {}
        BY <3>1 DEF Elements
      <4> QED BY <3>1, <4>1 DEF queues
    <3>2. CASE runner' = "picked"
      BY <3>2
    <3> QED BY <2>8, <3>1, <3>2 DEF RunNext
  <2>9. CASE Run /\ ~RunNext
    BY <2>9 DEF Run, RunCheck, RunWake, RunRecheck, RunStart, RunWrite, RunReply, RunFail,
                RunDrain, RunAnswer
  <2>10. CASE UNCHANGED vars
    BY <2>10 DEF vars, queues, run
  <2> QED BY <2>1, <2>2, <2>3, <2>4, <2>5, <2>6, <2>7, <2>8, <2>9, <2>10 DEF Next, Proceed
<1> QED BY <1>1, <1>2, TypeCorrect, PTL DEF Spec

--------------------------------------------------------------------------------
(* Fairness between the classes. *)

\* The streak next compares with the limit never falls behind the priority picks in a
\* row past a waiting normal request.
StreakInv == bypassed <= streak /\ BurstBound

\* At most BurstLimit priority picks in a row pass over a waiting normal request.
THEOREM BurstBounded == Spec => []BurstBound
<1>1. Init => StreakInv
  BY BoundsAssumption DEF Init, StreakInv, BurstBound
<1>2. TypeOK /\ StreakInv /\ [Next]_vars => StreakInv'
  <2> SUFFICES ASSUME TypeOK, StreakInv, [Next]_vars PROVE StreakInv'
    OBVIOUS
  <2>1. streak \in Nat /\ bypassed \in Nat /\ BurstLimit \in Nat /\ bypassed <= streak
        /\ bypassed <= BurstLimit
    BY BoundsAssumption DEF TypeOK, StreakInv, BurstBound
  <2> USE <2>1 DEF StreakInv, BurstBound
  <2>2. CASE UNCHANGED <<streak, bypassed>>
    BY <2>2
  <2>3. ASSUME NEW r \in Requests, Remove(r) PROVE StreakInv'
    <3>1. streak' = streak /\ bypassed' \in {0, bypassed}
      BY <2>3 DEF Remove
    <3> QED BY <3>1
  <2>4. CASE RunNext
    <3>1. CASE UNCHANGED <<queues, bypassed>>
      BY <3>1, <2>2 DEF queues
    <3>2. CASE PickNormal
      BY <3>2 DEF PickNormal, NormalTurn
    <3>3. CASE PickPriority
      BY <3>3 DEF PickPriority, NormalTurn
    <3> QED BY <2>4, <3>1, <3>2, <3>3 DEF RunNext
  <2>5. CASE RunDrain
    BY <2>5 DEF RunDrain
  <2>6. ASSUME NEW r \in Requests,
               SendStart(r) \/ Queue(r) \/ TakeResult(r) \/ GiveUp(r) \/ Cancel(r)
        PROVE  UNCHANGED <<streak, bypassed>>
    BY <2>6 DEF SendStart, Queue, Signal, TakeResult, GiveUp, Cancel, queues, history
  <2>7. CASE Run /\ ~RunNext /\ ~RunDrain
    <3>1. UNCHANGED <<streak, bypassed>>
      BY <2>7 DEF Run, RunCheck, RunWake, RunRecheck, RunStart, RunWrite, RunReply, RunFail,
                  RunAnswer, queues, history
    <3> QED BY <3>1, <2>2
  <2>8. CASE CloseDone \/ UNCHANGED vars
    <3>1. UNCHANGED <<streak, bypassed>>
      BY <2>8 DEF CloseDone, vars, queues, history
    <3> QED BY <3>1, <2>2
  <2> QED BY <2>2, <2>3, <2>4, <2>5, <2>6, <2>7, <2>8 DEF Next, Proceed
<1>3. StreakInv => BurstBound
  BY DEF StreakInv
<1> QED BY <1>1, <1>2, <1>3, TypeCorrect, PTL DEF Spec

--------------------------------------------------------------------------------
(* Ownership of requests. *)

LEMMA InitOwnership == Init => Ownership /\ Calls /\ Answering
<1> SUFFICES ASSUME Init PROVE Ownership /\ Calls /\ Answering
  OBVIOUS
<1>1. /\ Elements(priority) = {} /\ Elements(normal) = {}
      /\ Elements(draining) = {} /\ Elements(wire) = {}
  BY DEF Init, Elements
<1>2. Distinct(priority) /\ Distinct(normal) /\ Distinct(draining)
  BY DEF Init, Distinct
<1>3. Held = {} /\ Unwritten = {} /\ Queued = {}
  BY <1>1 DEF Held, Unwritten, Init, Queued
<1>4. Ownership
  BY <1>1, <1>2, <1>3 DEF Ownership, Init
<1>5. Calls
  BY <1>1, <1>3 DEF Calls, Init
<1>6. Answering
  BY <1>1, <1>3 DEF Answering, Init
<1> QED BY <1>4, <1>5, <1>6

\* A caller's step keeps every request with its one owner.
LEMMA CallerOwnership ==
    ASSUME IInv, NEW r \in Requests, Proceed(r) \/ Cancel(r)
    PROVE  Ownership' /\ Calls' /\ Answering'
<1> USE DEF IInv
<1>1. CASE SendStart(r)
  <2>1. UNCHANGED <<priority, normal, draining, runner, current, outcome, result, wire>>
    BY <1>1 DEF SendStart, queues, run, history
  <2>2. UNCHANGED <<Queued, Elements(draining), Held, Unwritten, Elements(wire)>>
    BY <2>1 DEF Queued, Held, Unwritten
  <2>3. Ownership'
    BY <2>1, <2>2 DEF Ownership, Distinct
  <2>4. sender[r] = "idle" /\ sender' \in {[sender EXCEPT ![r] = "returned"],
                                           [sender EXCEPT ![r] = "queueing"]}
    BY <1>1 DEF SendStart, Return
  <2>5. Calls'
    BY <1>1, <2>1, <2>2, <2>4 DEF SendStart, Return, Calls, TypeOK
  <2>6. Answering'
    BY <2>1, <2>2, <2>4 DEF Answering, TypeOK
  <2> QED BY <2>3, <2>5, <2>6
<1>2. CASE Queue(r)
  <2>1. UNCHANGED <<draining, runner, current, outcome, result, wire>>
    BY <1>2 DEF Queue, Signal, run
  <2>2. UNCHANGED <<Elements(draining), Held, Unwritten, Elements(wire)>>
    BY <2>1 DEF Held, Unwritten
  <2>3. /\ sender[r] = "queueing" /\ r \notin Queued /\ r \notin Elements(draining)
        /\ r \notin Held /\ r \notin Elements(wire) /\ result[r] = "empty"
    BY <1>2 DEF Queue, Signal, Calls, Answering
  <2>4. CASE UNCHANGED <<priority, normal>> /\ Return(r, "backpressure")
    <3>1. UNCHANGED Queued
      BY <2>4 DEF Queued
    <3>2. Ownership'
      BY <2>1, <2>2, <2>4, <3>1 DEF Ownership, Distinct
    <3>3. Calls' /\ Answering'
      BY <2>1, <2>2, <2>3, <2>4, <3>1 DEF Return, Calls, Answering, TypeOK
    <3> QED BY <3>2, <3>3
  <2>5. CASE /\ sender' = [sender EXCEPT ![r] = "waiting"] /\ UNCHANGED answer
             /\ \/ priority' = Append(priority, r) /\ UNCHANGED normal
                \/ normal' = Append(normal, r) /\ UNCHANGED priority
    <3>1. /\ Queued' = Queued \cup {r}
          /\ Distinct(priority') /\ Distinct(normal')
          /\ Elements(priority') \cap Elements(normal') = {}
      <4>1. CASE priority' = Append(priority, r) /\ UNCHANGED normal
        <5>1. Elements(priority') = Elements(priority) \cup {r} /\ Distinct(priority')
          BY <2>3, <4>1, AppendLemma DEF Queued, Ownership, TypeOK
        <5> QED BY <2>3, <4>1, <5>1 DEF Queued, Ownership, Distinct
      <4>2. CASE normal' = Append(normal, r) /\ UNCHANGED priority
        <5>1. Elements(normal') = Elements(normal) \cup {r} /\ Distinct(normal')
          BY <2>3, <4>2, AppendLemma DEF Queued, Ownership, TypeOK
        <5> QED BY <2>3, <4>2, <5>1 DEF Queued, Ownership, Distinct
      <4> QED BY <2>5, <4>1, <4>2
    <3>2. Ownership'
      BY <2>1, <2>2, <2>3, <3>1 DEF Ownership, Distinct
    <3>3. Calls' /\ Answering'
      BY <2>1, <2>2, <2>3, <2>5, <3>1 DEF Calls, Answering, TypeOK
    <3> QED BY <3>2, <3>3
  <2> QED BY <1>2, <2>4, <2>5 DEF Queue, Signal
<1>3. CASE TakeResult(r)
  <2>1. UNCHANGED <<priority, normal, draining, runner, current, outcome, wire>>
    BY <1>3 DEF TakeResult, queues, run, history
  <2>2. UNCHANGED <<Queued, Elements(draining), Held, Unwritten, Elements(wire)>>
    BY <2>1 DEF Queued, Held, Unwritten
  <2>3. r \notin Queued \cup Elements(draining) \cup Held
    BY <1>3 DEF TakeResult, Answering
  <2>4. Ownership'
    BY <2>1, <2>2 DEF Ownership, Distinct
  <2>5. Calls' /\ Answering'
    BY <1>3, <2>1, <2>2, <2>3 DEF TakeResult, Return, Calls, Answering, TypeOK
  <2> QED BY <2>4, <2>5
<1>4. CASE GiveUp(r)
  <2>1. UNCHANGED <<priority, normal, draining, runner, current, outcome, result, wire, answer>>
    BY <1>4 DEF GiveUp, queues, run, history
  <2>2. UNCHANGED <<Queued, Elements(draining), Held, Unwritten, Elements(wire)>>
    BY <2>1 DEF Queued, Held, Unwritten
  <2>3. Ownership'
    BY <2>1, <2>2 DEF Ownership, Distinct
  <2>4. Calls' /\ Answering'
    BY <1>4, <2>1, <2>2 DEF GiveUp, Calls, Answering, TypeOK
  <2> QED BY <2>3, <2>4
<1>5. CASE Remove(r)
  <2>1. UNCHANGED <<draining, runner, current, outcome, result, wire>>
    BY <1>5 DEF Remove, run
  <2>2. UNCHANGED <<Elements(draining), Held, Unwritten, Elements(wire)>>
    BY <2>1 DEF Held, Unwritten
  <2>3. /\ Queued' = Queued \ {r}
        /\ Distinct(priority') /\ Distinct(normal')
        /\ Elements(priority') \cap Elements(normal') = {}
    <3>1. CASE \E i \in DOMAIN priority : /\ priority[i] = r
                                          /\ priority' = DropAt(priority, i)
                                          /\ UNCHANGED normal
      <4>1. PICK i \in DOMAIN priority : priority[i] = r /\ priority' = DropAt(priority, i)
        BY <3>1
      <4>2. Elements(priority') = Elements(priority) \ {r} /\ Distinct(priority')
        BY <4>1, DropAtLemma DEF Ownership, TypeOK
      <4>3. r \in Elements(priority)
        BY <4>1 DEF Elements
      <4> QED BY <3>1, <4>2, <4>3 DEF Ownership, Queued, Distinct
    <3>2. CASE \E i \in DOMAIN normal : /\ normal[i] = r
                                        /\ normal' = DropAt(normal, i)
                                        /\ UNCHANGED priority
      <4>1. PICK i \in DOMAIN normal : normal[i] = r /\ normal' = DropAt(normal, i)
        BY <3>2
      <4>2. Elements(normal') = Elements(normal) \ {r} /\ Distinct(normal')
        BY <4>1, DropAtLemma DEF Ownership, TypeOK
      <4>3. r \in Elements(normal)
        BY <4>1 DEF Elements
      <4> QED BY <3>2, <4>2, <4>3 DEF Ownership, Queued, Distinct
    <3>3. CASE r \notin Queued /\ UNCHANGED <<priority, normal>>
      BY <3>3 DEF Ownership, Queued, Distinct
    <3> QED BY <1>5, <3>1, <3>2, <3>3 DEF Remove
  <2>4. /\ sender' = [sender EXCEPT ![r] = "returned"]
        /\ \E a \in Answers : answer' = [answer EXCEPT ![r] = a]
    BY <1>5 DEF Remove, Return, Answers, Outcomes
  <2>5. Ownership'
    BY <2>1, <2>2, <2>3 DEF Ownership, Distinct
  <2>6. Calls' /\ Answering'
    BY <2>1, <2>2, <2>3, <2>4 DEF Calls, Answering, TypeOK
  <2> QED BY <2>5, <2>6
<1>6. CASE Cancel(r)
  <2>1. UNCHANGED <<priority, normal, draining, runner, current, outcome, result, wire,
                    sender, answer>>
    BY <1>6 DEF Cancel, queues, run, sends, history
  <2> QED BY <2>1 DEF Ownership, Calls, Answering, Queued, Held, Unwritten, Distinct
<1> QED BY <1>1, <1>2, <1>3, <1>4, <1>5, <1>6 DEF Proceed

\* So does a step of Run, of drain, or of the owner.
LEMMA RunOwnership ==
    ASSUME IInv, Run \/ CloseDone \/ UNCHANGED vars
    PROVE  Ownership' /\ Calls' /\ Answering'
<1> USE DEF IInv
<1>1. CASE RunNext
  <2>1. UNCHANGED <<draining, outcome, result, sender, answer, wire>> /\ runner = "next"
    BY <1>1 DEF RunNext, sends
  <2>2. UNCHANGED <<Elements(draining), Elements(wire)>> /\ Held = {} /\ Unwritten = {}
    BY <2>1 DEF Held, Unwritten
  <2>3. CASE UNCHANGED queues /\ runner' = "wait"
    <3>1. Held' = {} /\ Unwritten' = {} /\ UNCHANGED <<priority, normal, Queued>>
      BY <2>3 DEF Held, Unwritten, queues, Queued
    <3> QED BY <2>1, <2>2, <2>3, <3>1 DEF Ownership, Calls, Answering, Distinct
  <2>4. CASE (PickNormal \/ PickPriority) /\ runner' = "picked"
    <3>1. Held' = {current'} /\ Unwritten' = {current'}
      BY <2>4 DEF Held, Unwritten
    <3>2. /\ current' \in Requests /\ current' \in Queued /\ Queued' = Queued \ {current'}
          /\ Distinct(priority') /\ Distinct(normal')
          /\ Elements(priority') \cap Elements(normal') = {}
      <4>1. CASE PickNormal
        <5>1. /\ current' \in Requests /\ current' \in Elements(normal)
              /\ Elements(normal') = Elements(normal) \ {current'} /\ Distinct(normal')
          BY <4>1, TailLemma DEF PickNormal, NormalTurn, Ownership, TypeOK
        <5> QED BY <4>1, <5>1 DEF PickNormal, NormalTurn, Ownership, Queued, Distinct
      <4>2. CASE PickPriority
        <5>1. /\ current' \in Requests /\ current' \in Elements(priority)
              /\ Elements(priority') = Elements(priority) \ {current'} /\ Distinct(priority')
          BY <4>2, TailLemma DEF PickPriority, NormalTurn, Ownership, TypeOK
        <5> QED BY <4>2, <5>1 DEF PickPriority, NormalTurn, Ownership, Queued, Distinct
      <4> QED BY <2>4, <4>1, <4>2
    <3>3. Ownership'
      BY <2>1, <2>2, <2>4, <3>1, <3>2 DEF Ownership, Distinct
    <3>4. Calls' /\ Answering'
      BY <2>1, <2>2, <2>4, <3>1, <3>2 DEF Calls, Answering
    <3> QED BY <3>3, <3>4
  <2> QED BY <1>1, <2>3, <2>4 DEF RunNext
<1>2. CASE RunRecheck \/ RunReply
  <2>1. /\ UNCHANGED <<priority, normal, draining, current, outcome, sender, answer, wire>>
        /\ runner \in {"picked", "reply"} /\ runner' \in {"drain", "ready", "failing", "check"}
    BY <1>2 DEF RunRecheck, RunReply, queues, sends, history
  <2>2. UNCHANGED <<Queued, Elements(draining), Elements(wire)>>
    BY <2>1 DEF Queued
  <2>3. CASE runner' = "ready" /\ runner = "picked" /\ UNCHANGED result
    <3>1. UNCHANGED <<Held, Unwritten>>
      BY <2>1, <2>3 DEF Held, Unwritten
    <3> QED BY <2>1, <2>2, <2>3, <3>1 DEF Ownership, Calls, Answering, Distinct
  <2>4. CASE /\ runner' # "ready" /\ Held = {current} /\ result[current] = "empty"
             /\ \E a \in Outcomes : /\ result' = [result EXCEPT ![current] = a]
                                    /\ a = "written" => current \in Elements(wire)
    <3>1. Held' = {} /\ Unwritten' = {}
      BY <2>1, <2>4 DEF Held, Unwritten
    <3>2. Ownership'
      BY <2>1, <2>2, <2>4, <3>1 DEF Ownership, Distinct
    <3>3. Calls'
      BY <2>1, <2>2, <2>4, <3>1 DEF Calls, TypeOK
    <3>4. Answering'
      BY <2>1, <2>2, <2>4, <3>1 DEF Answering, Ownership, TypeOK
    <3> QED BY <3>2, <3>3, <3>4
  <2>5. CASE RunRecheck
    BY <2>3, <2>4, <2>5 DEF RunRecheck, Refusal, Outcomes, Held
  <2>6. CASE RunReply
    <3>1. outcome \in Outcomes
      BY DEF TypeOK
    <3> QED BY <2>4, <2>6, <3>1 DEF RunReply, Held, Answering
  <2> QED BY <1>2, <2>5, <2>6
<1>3. CASE RunStart
  <2>1. /\ UNCHANGED <<priority, normal, draining, current, result, sender, answer, wire>>
        /\ runner = "ready"
        /\ \/ runner' = "writing"
           \/ runner' = "reply" /\ outcome' = "cancelled"
    BY <1>3 DEF RunStart, queues, sends, history
  <2>2. /\ UNCHANGED <<Queued, Elements(draining), Elements(wire), Held>>
        /\ Unwritten' \subseteq Unwritten
    BY <2>1 DEF Queued, Held, Unwritten
  <2> QED BY <2>1, <2>2 DEF Ownership, Calls, Answering, Distinct
<1>4. CASE RunWrite
  <2>1. /\ UNCHANGED <<priority, normal, draining, current, result, sender, answer>>
        /\ runner = "writing" /\ runner' = "reply"
    BY <1>4 DEF RunWrite, queues, sends
  <2>2. /\ UNCHANGED <<Queued, Elements(draining), Held>>
        /\ Held = {current} /\ Unwritten' = {} /\ current \in Requests
    BY <2>1 DEF Queued, Held, Unwritten, TypeOK
  <2>3. \/ Elements(wire') = Elements(wire) \cup {current}
        \/ outcome' # "written" /\ UNCHANGED Elements(wire)
    BY <1>4, <2>2, AppendLemma DEF RunWrite, TypeOK
  <2>4. sender[current] \notin {"idle", "queueing"}
    BY <2>2 DEF Calls
  <2>5. Ownership' /\ Calls'
    BY <2>1, <2>2 DEF Ownership, Calls, Distinct
  <2>6. Answering'
    BY <2>1, <2>2, <2>3, <2>4 DEF Answering, Ownership
  <2> QED BY <2>5, <2>6
<1>5. CASE RunDrain
  <2>1. /\ UNCHANGED <<current, outcome, result, sender, answer, wire>>
        /\ runner = "drain" /\ runner' = "answering"
        /\ Elements(priority') = {} /\ Elements(normal') = {}
        /\ Distinct(priority') /\ Distinct(normal')
    BY <1>5 DEF RunDrain, sends, Elements, Distinct
  <2>2. /\ Elements(draining') = Queued /\ Distinct(draining')
    BY <1>5, ConcatLemma DEF RunDrain, Queued, Ownership, TypeOK
  <2>3. /\ Queued' = {} /\ Held = {} /\ Held' = {} /\ Unwritten' = {}
        /\ UNCHANGED Elements(wire)
    BY <2>1 DEF Queued, Held, Unwritten
  <2> QED BY <2>1, <2>2, <2>3 DEF Ownership, Calls, Answering
<1>6. CASE RunAnswer
  <2>1. /\ UNCHANGED <<priority, normal, current, outcome, sender, answer, wire>>
        /\ runner = "answering" /\ runner' \in {"answering", "finished"}
    BY <1>6 DEF RunAnswer, queues, sends, history
  <2>2. /\ UNCHANGED <<Queued, Elements(wire)>> /\ Held = {} /\ Held' = {} /\ Unwritten' = {}
    BY <2>1 DEF Queued, Held, Unwritten
  <2>3. CASE draining = <<>>
    <3>1. UNCHANGED <<result, draining, Elements(draining)>> /\ draining' = <<>>
      BY <1>6, <2>3 DEF RunAnswer
    <3> QED BY <2>1, <2>2, <3>1 DEF Ownership, Calls, Answering, Distinct
  <2>4. CASE draining # <<>>
    <3> DEFINE h == Head(draining)
    <3>1. /\ runner' = "answering" /\ draining' = Tail(draining)
          /\ \E a \in {"cancelled", "closed"} : result' = [result EXCEPT ![h] = a]
      BY <1>6, <2>4 DEF RunAnswer, Refusal
    <3>2. /\ h \in Requests /\ h \in Elements(draining) /\ Distinct(draining')
          /\ Elements(draining') = Elements(draining) \ {h}
      BY <2>4, <3>1, TailLemma DEF Ownership, TypeOK
    <3> HIDE DEF h
    <3>3. Ownership'
      BY <2>1, <2>2, <3>1, <3>2 DEF Ownership, Distinct
    <3>4. Calls'
      BY <2>1, <2>2, <3>1, <3>2 DEF Calls, TypeOK
    <3>5. Answering'
      BY <2>1, <2>2, <3>1, <3>2 DEF Answering, Ownership, TypeOK
    <3> QED BY <3>3, <3>4, <3>5
  <2> QED BY <2>3, <2>4
<1>7. CASE RunCheck \/ RunWake \/ RunFail \/ CloseDone \/ UNCHANGED vars
  <2>1. /\ UNCHANGED <<priority, normal, draining, current, outcome, result, sender, answer, wire>>
        /\ \/ UNCHANGED runner
           \/ runner \in {"check", "wait", "failing"} /\ runner' \in {"check", "next", "drain"}
    BY <1>7 DEF RunCheck, RunWake, RunFail, CloseDone, vars, queues, run, sends, history
  <2>2. UNCHANGED <<Queued, Elements(draining), Elements(wire), Held, Unwritten>>
    BY <2>1 DEF Queued, Held, Unwritten
  <2> QED BY <2>1, <2>2 DEF Ownership, Calls, Answering, Distinct
<1> QED BY <1>1, <1>2, <1>3, <1>4, <1>5, <1>6, <1>7 DEF Run

\* Every request has one owner, and whoever owns it finds its result channel empty.
THEOREM OwnershipInvariant == Spec => []IInv
<1>1. Init => Ownership /\ Calls /\ Answering
  BY InitOwnership
<1>2. TypeOK /\ Ownership /\ Calls /\ Answering /\ [Next]_vars
        => Ownership' /\ Calls' /\ Answering'
  BY CallerOwnership, RunOwnership DEF IInv, Next
<1>3. TypeOK /\ Ownership /\ Calls /\ Answering => IInv
  BY DEF IInv
<1> QED BY <1>1, <1>2, <1>3, TypeCorrect, PTL DEF Spec

\* Run and drain never block on a full result channel.
THEOREM ResultRoomAlways == Spec => []ResultRoom
<1>1. IInv => ResultRoom
  BY DEF IInv, Answering, Held, ResultRoom, Elements
<1> QED BY <1>1, OwnershipInvariant, PTL

\* No call of Send has returned while its request is still queued, and the two queues
\* together stay within the one capacity.
THEOREM QueuesBounded == Spec => []ReturnedNotQueued
<1> DEFINE Bounded == Len(priority) + Len(normal) <= Capacity
<1>1. Init => Bounded
  BY BoundsAssumption DEF Init
<1>2. TypeOK /\ Bounded /\ [Next]_vars => Bounded'
  <2> SUFFICES ASSUME TypeOK, Bounded, [Next]_vars PROVE Bounded'
    OBVIOUS
  <2>1. /\ Len(priority) \in Nat /\ Len(normal) \in Nat /\ Capacity \in Nat
        /\ priority \in Seq(Requests) /\ normal \in Seq(Requests)
    BY BoundsAssumption DEF TypeOK
  <2>2. CASE UNCHANGED <<priority, normal>>
    BY <2>2
  <2>3. ASSUME NEW r \in Requests, Queue(r) PROVE Bounded'
    <3>1. CASE UNCHANGED <<priority, normal>>
      BY <3>1
    <3>2. CASE /\ Len(priority) + Len(normal) < Capacity
               /\ \/ priority' = Append(priority, r) /\ UNCHANGED normal
                  \/ normal' = Append(normal, r) /\ UNCHANGED priority
      BY <2>1, <3>2, AppendLemma
    <3> QED BY <2>3, <3>1, <3>2 DEF Queue, Signal
  <2>4. ASSUME NEW r \in Requests, Remove(r) PROVE Bounded'
    <3>1. \/ \E i \in DOMAIN priority : priority' = DropAt(priority, i) /\ UNCHANGED normal
          \/ \E i \in DOMAIN normal : normal' = DropAt(normal, i) /\ UNCHANGED priority
          \/ UNCHANGED <<priority, normal>>
      BY <2>4 DEF Remove
    <3>2. /\ Len(priority') <= Len(priority) /\ Len(priority') \in Nat
          /\ Len(normal') <= Len(normal) /\ Len(normal') \in Nat
      BY <2>1, <3>1, DropAtLemma
    <3> QED BY <2>1, <3>2
  <2>5. CASE RunNext
    <3>1. /\ Len(priority') <= Len(priority) /\ Len(priority') \in Nat
          /\ Len(normal') <= Len(normal) /\ Len(normal') \in Nat
      BY <2>1, <2>5, TailLemma DEF RunNext, PickNormal, PickPriority, NormalTurn, queues
    <3> QED BY <2>1, <3>1
  <2>6. CASE RunDrain
    BY <2>6, BoundsAssumption DEF RunDrain
  <2>7. ASSUME NEW r \in Requests,
               SendStart(r) \/ TakeResult(r) \/ GiveUp(r) \/ Cancel(r)
        PROVE  UNCHANGED <<priority, normal>>
    BY <2>7 DEF SendStart, TakeResult, GiveUp, Cancel, queues
  <2>8. CASE (Run /\ ~RunNext /\ ~RunDrain) \/ CloseDone \/ UNCHANGED vars
    <3>1. UNCHANGED <<priority, normal>>
      BY <2>8 DEF Run, RunCheck, RunWake, RunRecheck, RunStart, RunWrite, RunReply, RunFail,
                  RunAnswer, CloseDone, vars, queues
    <3> QED BY <3>1, <2>2
  <2> QED BY <2>2, <2>3, <2>4, <2>5, <2>6, <2>7, <2>8 DEF Next, Proceed
<1>3. Spec => []Bounded
  BY <1>1, <1>2, TypeCorrect, PTL DEF Spec
<1>4. IInv /\ Bounded => ReturnedNotQueued
  BY DEF IInv, Calls, ReturnedNotQueued
<1> QED BY <1>3, <1>4, OwnershipInvariant, PTL

--------------------------------------------------------------------------------
(* The writer implements FrameOutbox. *)

\* Every step of the writer is a step of the outbox or leaves it alone: one frame at a
\* time, each at most once, "written" only for a frame on the wire, and no frame begun
\* after its caller has its answer.
THEOREM WriterImplementsOutbox == Spec => OutboxSpec
<1> DEFINE inflight == IF runner \in {"picked", "ready", "writing"} THEN current ELSE NoRequest
<1>1. Init => Outbox!Init
  BY DEF Init, Outbox!Init, Elements
<1>2. IInv /\ [Next]_vars => [Outbox!Next]_(Outbox!vars)
  <2> SUFFICES ASSUME IInv, [Next]_vars PROVE [Outbox!Next]_(Outbox!vars)
    OBVIOUS
  <2>1. NoRequest \notin Requests
    BY RequestsAssumption
  <2>2. CASE UNCHANGED <<wire, runner, current, answer>>
    <3>1. UNCHANGED Elements(wire) /\ UNCHANGED inflight
      BY <2>2
    <3> QED BY <2>2, <3>1 DEF Outbox!vars
  <2>3. ASSUME NEW r \in Requests, NEW a \in Answers,
               sender[r] # "returned", answer' = [answer EXCEPT ![r] = a],
               a = "written" => r \in Elements(wire),
               a = "backpressure" => r \notin Elements(wire) /\ r # inflight,
               UNCHANGED <<wire, runner, current>>
        PROVE  Outbox!Next
    <3>1. answer[r] = "none"
      BY <2>3 DEF IInv, Calls
    <3>2. UNCHANGED Elements(wire) /\ UNCHANGED inflight
      BY <2>3
    <3>3. Outbox!Settle(r, a)
      BY <2>3, <3>1, <3>2 DEF Outbox!Settle
    <3>4. a \in Outbox!Answers
      BY DEF Answers, Outcomes, Outbox!Answers
    <3> QED BY <3>3, <3>4 DEF Outbox!Next
  <2>4. CASE UNCHANGED <<wire, answer>> /\ inflight # NoRequest /\ inflight' = NoRequest
    <3>1. UNCHANGED Elements(wire)
      BY <2>4
    <3>2. Outbox!Abandon
      BY <2>4, <3>1 DEF Outbox!Abandon
    <3> QED BY <3>2 DEF Outbox!Next
  <2>5. ASSUME NEW r \in Requests, SendStart(r) PROVE [Outbox!Next]_(Outbox!vars)
    <3>1. UNCHANGED <<wire, runner, current>> /\ sender[r] = "idle"
      BY <2>5 DEF SendStart, run, history
    <3>2. CASE Return(r, "cancelled")
      <4>1. "cancelled" \in Answers
        BY DEF Answers, Outcomes
      <4> QED BY <2>3, <3>1, <3>2, <4>1 DEF Return
    <3>3. CASE UNCHANGED answer
      BY <2>2, <3>1, <3>3
    <3> QED BY <2>5, <3>2, <3>3 DEF SendStart
  <2>6. ASSUME NEW r \in Requests, Queue(r) PROVE [Outbox!Next]_(Outbox!vars)
    <3>1. UNCHANGED <<wire, runner, current>> /\ sender[r] = "queueing"
      BY <2>6 DEF Queue, Signal, run
    <3>2. r \notin Elements(wire) /\ r # inflight
      BY <2>1, <3>1 DEF IInv, Answering, Calls, Held
    <3>3. CASE Return(r, "backpressure")
      <4>1. "backpressure" \in Answers
        BY DEF Answers
      <4> HIDE DEF inflight
      <4> QED BY <2>3, <3>1, <3>2, <3>3, <4>1 DEF Return
    <3>4. CASE UNCHANGED answer
      BY <2>2, <3>1, <3>4
    <3> QED BY <2>6, <3>3, <3>4 DEF Queue, Signal
  <2>7. ASSUME NEW r \in Requests, TakeResult(r) PROVE [Outbox!Next]_(Outbox!vars)
    <3>1. /\ UNCHANGED <<wire, runner, current>> /\ sender[r] = "waiting"
          /\ answer' = [answer EXCEPT ![r] = result[r]]
          /\ result[r] \in Outcomes
      BY <2>7 DEF TakeResult, Return, run, history, IInv, TypeOK
    <3>2. result[r] = "written" => r \in Elements(wire)
      BY DEF IInv, Answering
    <3>3. result[r] \in Answers /\ result[r] # "backpressure"
      BY <3>1 DEF Answers, Outcomes
    <3> HIDE DEF inflight
    <3> QED BY <2>3, <3>1, <3>2, <3>3
  <2>8. ASSUME NEW r \in Requests, GiveUp(r) \/ Cancel(r) PROVE [Outbox!Next]_(Outbox!vars)
    <3>1. UNCHANGED <<wire, runner, current, answer>>
      BY <2>8 DEF GiveUp, Cancel, run, sends, history
    <3> QED BY <2>2, <3>1
  <2>9. ASSUME NEW r \in Requests, Remove(r) PROVE [Outbox!Next]_(Outbox!vars)
    <3>1. UNCHANGED <<wire, runner, current>> /\ sender[r] = "removing"
      BY <2>9 DEF Remove, run
    <3>2. PICK a \in {"cancelled", "closed"} : answer' = [answer EXCEPT ![r] = a]
      BY <2>9 DEF Remove, Return
    <3>3. a \in Answers /\ a # "written" /\ a # "backpressure"
      BY DEF Answers, Outcomes
    <3> HIDE DEF inflight
    <3> QED BY <2>3, <3>1, <3>2, <3>3
  <2>10. CASE RunNext
    <3>1. CASE runner' = "wait" /\ UNCHANGED current
      <4>1. UNCHANGED <<wire, answer, inflight>>
        BY <2>10, <3>1 DEF RunNext, sends
      <4> QED BY <4>1 DEF Outbox!vars
    <3>2. CASE (PickNormal \/ PickPriority) /\ runner' = "picked"
      <4>1. UNCHANGED <<wire, answer>> /\ inflight = NoRequest /\ inflight' = current'
        BY <2>10, <3>2 DEF RunNext, sends
      <4>2. current' \in Requests /\ current' \in Queued
        BY <3>2, TailLemma DEF PickNormal, PickPriority, NormalTurn, Queued, IInv, TypeOK
      <4>3. current' \notin Elements(wire) /\ answer[current'] = "none"
        BY <4>2 DEF IInv, Answering, Calls
      <4>4. UNCHANGED Elements(wire)
        BY <4>1
      <4>5. Outbox!Begin(current')
        BY <4>1, <4>3, <4>4 DEF Outbox!Begin
      <4> QED BY <4>2, <4>5 DEF Outbox!Next
    <3> QED BY <2>10, <3>1, <3>2 DEF RunNext, queues
  <2>11. CASE RunWrite
    <3>1. UNCHANGED answer /\ runner = "writing" /\ runner' = "reply" /\ current \in Requests
      BY <2>11 DEF RunWrite, sends, IInv, TypeOK
    <3>2. inflight = current /\ inflight' = NoRequest /\ inflight # NoRequest
      BY <2>1, <3>1
    <3>3. CASE wire' = Append(wire, current)
      <4>1. Elements(wire') = Elements(wire) \cup {current}
        BY <3>1, <3>3, AppendLemma DEF IInv, TypeOK
      <4>2. Outbox!Transmit
        BY <3>1, <3>2, <4>1 DEF Outbox!Transmit
      <4> QED BY <4>2 DEF Outbox!Next
    <3>4. CASE UNCHANGED wire
      BY <2>4, <3>1, <3>2, <3>4
    <3> QED BY <2>11, <3>3, <3>4 DEF RunWrite
  <2>12. CASE RunRecheck \/ RunStart
    <3>1. /\ UNCHANGED <<wire, answer, current>> /\ runner \in {"picked", "ready"}
          /\ runner' \in {"drain", "ready", "reply", "writing"}
      BY <2>12 DEF RunRecheck, RunStart, sends, history
    <3>2. CASE runner' \in {"ready", "writing"}
      <4>1. UNCHANGED inflight
        BY <3>1, <3>2
      <4> QED BY <3>1, <4>1 DEF Outbox!vars
    <3>3. CASE runner' \in {"drain", "reply"}
      <4>1. inflight # NoRequest /\ inflight' = NoRequest
        BY <2>1, <3>1, <3>3 DEF IInv, TypeOK
      <4> QED BY <2>4, <3>1, <4>1
    <3> QED BY <3>1, <3>2, <3>3
  <2>13. CASE RunCheck \/ RunWake \/ RunReply \/ RunFail \/ RunDrain \/ RunAnswer \/ CloseDone
              \/ UNCHANGED vars
    <3>1. UNCHANGED <<wire, answer, inflight>>
      BY <2>13 DEF RunCheck, RunWake, RunReply, RunFail, RunDrain, RunAnswer, CloseDone, vars,
                   run, sends, history
    <3> QED BY <3>1 DEF Outbox!vars
  <2> HIDE DEF inflight
  <2> QED BY <2>5, <2>6, <2>7, <2>8, <2>9, <2>10, <2>11, <2>12, <2>13 DEF Next, Run, Proceed
<1> QED BY <1>1, <1>2, OwnershipInvariant, PTL DEF Spec, OutboxSpec, Outbox!Spec

--------------------------------------------------------------------------------
(* The order of the frames of one class. *)

\* Two frames of one class keep an order; a safety frame may overtake a normal one.
SameClass(x, y) == x \in PriorityRequests <=> y \in PriorityRequests

\* In the list a, x stands before y.
Precedes(a, x, y) == \E i, j \in DOMAIN a : i < j /\ a[i] = x /\ a[j] = y

\* The frames of one class stand in q in the order of a.
InOrder(a, q) ==
    \A i, j \in DOMAIN q : i < j /\ SameClass(q[i], q[j]) => Precedes(a, q[i], q[j])

\* Each frame of T comes, in a, after those of S that are of its class.
Follows(a, S, T) == \A x \in S, y \in T : SameClass(x, y) => Precedes(a, x, y)

\* The order in which queue took the frames goes through the whole writer: what is on the
\* wire comes before the frame in Run's hand, and that before what is still queued.
OrderInv ==
    /\ Distinct(accepted)
    /\ \A r \in Elements(accepted) : sender[r] \notin {"idle", "queueing"}
    /\ Elements(priority) \subseteq PriorityRequests
    /\ Elements(normal) \cap PriorityRequests = {}
    /\ Elements(wire) \cup Unwritten \cup Queued \subseteq Elements(accepted)
    /\ InOrder(accepted, priority) /\ InOrder(accepted, normal) /\ InOrder(accepted, wire)
    /\ Follows(accepted, Elements(wire), Unwritten \cup Queued)
    /\ Follows(accepted, Unwritten, Queued)

\* What is in order in a list stays so when the list grows, and what is added at its end
\* comes after all it held.
LEMMA PrecedesLemma ==
    ASSUME NEW a \in Seq(Requests), NEW r \in Requests
    PROVE  /\ \A x, y : Precedes(a, x, y) => Precedes(Append(a, r), x, y)
           /\ \A x \in Elements(a) : Precedes(Append(a, r), x, r)
<1>1. /\ Len(a) \in Nat /\ DOMAIN a = 1..Len(a) /\ DOMAIN Append(a, r) = 1..Len(a) + 1
      /\ \A j \in 1..Len(a) : Append(a, r)[j] = a[j]
      /\ Append(a, r)[Len(a) + 1] = r
  OBVIOUS
<1>2. ASSUME NEW x, NEW y, Precedes(a, x, y)
      PROVE  Precedes(Append(a, r), x, y)
  <2>1. PICK i \in 1..Len(a), j \in 1..Len(a) : i < j /\ a[i] = x /\ a[j] = y
    BY <1>1, <1>2 DEF Precedes
  <2>2. i \in 1..Len(a) + 1 /\ j \in 1..Len(a) + 1
    BY <1>1
  <2> QED BY <1>1, <2>1, <2>2 DEF Precedes
<1>3. ASSUME NEW x \in Elements(a)
      PROVE  Precedes(Append(a, r), x, r)
  <2>1. PICK i \in 1..Len(a) : a[i] = x
    BY <1>1 DEF Elements
  <2>2. i \in 1..Len(a) + 1 /\ Len(a) + 1 \in 1..Len(a) + 1 /\ i < Len(a) + 1
    BY <1>1
  <2> QED BY <1>1, <2>1, <2>2 DEF Precedes
<1> QED BY <1>2, <1>3

\* A frame put at the end of a list in order keeps it in order when it follows them all.
LEMMA OrderAppendLemma ==
    ASSUME NEW a, NEW q \in Seq(Requests), NEW r \in Requests,
           InOrder(a, q), Follows(a, Elements(q), {r})
    PROVE  InOrder(a, Append(q, r))
<1>1. /\ Len(q) \in Nat /\ DOMAIN q = 1..Len(q) /\ DOMAIN Append(q, r) = 1..Len(q) + 1
      /\ \A j \in 1..Len(q) : Append(q, r)[j] = q[j]
      /\ Append(q, r)[Len(q) + 1] = r
  OBVIOUS
<1> SUFFICES ASSUME NEW i \in 1..Len(q) + 1, NEW j \in 1..Len(q) + 1, i < j,
                    SameClass(Append(q, r)[i], Append(q, r)[j])
             PROVE  Precedes(a, Append(q, r)[i], Append(q, r)[j])
  BY <1>1 DEF InOrder
<1>2. CASE j <= Len(q)
  <2>1. i \in 1..Len(q) /\ j \in 1..Len(q)
    BY <1>1, <1>2
  <2> QED BY <1>1, <2>1 DEF InOrder
<1>3. CASE j = Len(q) + 1
  <2>1. i \in 1..Len(q)
    BY <1>1, <1>3
  <2>2. q[i] \in Elements(q)
    BY <1>1, <2>1 DEF Elements
  <2> QED BY <1>1, <1>3, <2>1, <2>2 DEF Follows
<1> QED BY <1>1, <1>2, <1>3

\* The head of a list in order comes before the rest, which is in order.
LEMMA OrderTailLemma ==
    ASSUME NEW a, NEW q \in Seq(Requests), q # <<>>, InOrder(a, q)
    PROVE  InOrder(a, Tail(q)) /\ Follows(a, {Head(q)}, Elements(Tail(q)))
<1>1. /\ Len(q) \in Nat /\ Len(q) > 0 /\ Head(q) = q[1] /\ DOMAIN q = 1..Len(q)
      /\ DOMAIN Tail(q) = 1..Len(q) - 1
      /\ \A j \in 1..Len(q) - 1 : Tail(q)[j] = q[j + 1]
  OBVIOUS
<1>2. ASSUME NEW i \in 1..Len(q) - 1, NEW j \in 1..Len(q) - 1, i < j,
             SameClass(Tail(q)[i], Tail(q)[j])
      PROVE  Precedes(a, Tail(q)[i], Tail(q)[j])
  <2>1. i + 1 \in 1..Len(q) /\ j + 1 \in 1..Len(q) /\ i + 1 < j + 1
    BY <1>1, <1>2
  <2> QED BY <1>1, <1>2, <2>1 DEF InOrder
<1>3. ASSUME NEW j \in 1..Len(q) - 1, SameClass(Head(q), Tail(q)[j])
      PROVE  Precedes(a, Head(q), Tail(q)[j])
  <2>1. 1 \in 1..Len(q) /\ j + 1 \in 1..Len(q) /\ 1 < j + 1
    BY <1>1
  <2> QED BY <1>1, <1>3, <2>1 DEF InOrder
<1>4. InOrder(a, Tail(q))
  BY <1>1, <1>2 DEF InOrder
<1>5. Follows(a, {Head(q)}, Elements(Tail(q)))
  BY <1>1, <1>3 DEF Follows, Elements
<1> QED BY <1>4, <1>5

\* Taking a frame out of the middle keeps the order of the others.
LEMMA OrderDropLemma ==
    ASSUME NEW a, NEW q \in Seq(Requests), NEW k \in DOMAIN q, InOrder(a, q)
    PROVE  InOrder(a, DropAt(q, k))
<1>1. /\ Len(q) \in Nat /\ DOMAIN q = 1..Len(q) /\ k \in 1..Len(q)
      /\ DOMAIN DropAt(q, k) = 1..Len(q) - 1
      /\ \A j \in 1..Len(q) - 1 : DropAt(q, k)[j] = IF j < k THEN q[j] ELSE q[j + 1]
  BY DEF DropAt
<1> DEFINE at(j) == IF j < k THEN j ELSE j + 1
<1> SUFFICES ASSUME NEW i \in 1..Len(q) - 1, NEW j \in 1..Len(q) - 1, i < j,
                    SameClass(DropAt(q, k)[i], DropAt(q, k)[j])
             PROVE  Precedes(a, DropAt(q, k)[i], DropAt(q, k)[j])
  BY <1>1 DEF InOrder
<1>2. at(i) \in 1..Len(q) /\ at(j) \in 1..Len(q) /\ at(i) < at(j)
  BY <1>1
<1>3. DropAt(q, k)[i] = q[at(i)] /\ DropAt(q, k)[j] = q[at(j)]
  BY <1>1
<1> HIDE DEF at
<1> QED BY <1>1, <1>2, <1>3 DEF InOrder

\* A caller's step keeps the order: queue adds a frame behind all it took before, remove
\* takes one out.
LEMMA CallerOrder ==
    ASSUME TypeOK, OrderInv, NEW r \in Requests, Proceed(r) \/ Cancel(r)
    PROVE  OrderInv'
<1> USE DEF TypeOK
<1>1. CASE UNCHANGED <<accepted, priority, normal, wire, runner, current>>
             /\ \A s \in Requests : sender'[s] \in {"idle", "queueing"}
                                       => sender[s] \in {"idle", "queueing"}
  <2>1. UNCHANGED <<Unwritten, Queued, Elements(wire)>>
    BY <1>1 DEF Unwritten, Queued
  <2>2. Elements(accepted) \subseteq Requests
    BY DEF Elements
  <2> QED BY <1>1, <2>1, <2>2 DEF OrderInv, Distinct, InOrder, Follows, Precedes
<1>2. CASE SendStart(r) \/ TakeResult(r) \/ GiveUp(r) \/ Cancel(r)
  BY <1>1, <1>2 DEF SendStart, TakeResult, GiveUp, Cancel, Return, queues, run, sends, history
<1>3. CASE Queue(r)
  <2>1. CASE UNCHANGED accepted
    <3>1. UNCHANGED <<priority, normal>> /\ Return(r, "backpressure")
      <4>1. Append(accepted, r) # accepted
        BY AppendLemma
      <4> QED BY <1>3, <2>1, <4>1 DEF Queue
    <3> QED BY <1>1, <1>3, <2>1, <3>1 DEF Queue, Return, run
  <2>2. CASE accepted' = Append(accepted, r)
    <3>1. /\ Len(accepted) \in Nat /\ r \notin Elements(accepted)
          /\ Elements(accepted') = Elements(accepted) \cup {r}
          /\ Distinct(accepted')
      BY <1>3, <2>2, AppendLemma DEF Queue, OrderInv
    <3>2. UNCHANGED <<wire, runner, current>> /\ UNCHANGED <<Unwritten, Elements(wire)>>
      BY <1>3 DEF Queue, run, Unwritten
    <3>3. /\ \A x, y : Precedes(accepted, x, y) => Precedes(accepted', x, y)
          /\ \A x \in Elements(accepted) : Precedes(accepted', x, r)
      BY <2>2, PrecedesLemma
    <3>4. /\ sender' = [sender EXCEPT ![r] = "waiting"]
          /\ \/ r \in PriorityRequests /\ priority' = Append(priority, r) /\ UNCHANGED normal
             \/ r \notin PriorityRequests /\ normal' = Append(normal, r) /\ UNCHANGED priority
      <4>1. Append(accepted, r) # accepted
        BY AppendLemma
      <4> QED BY <1>3, <2>2, <4>1 DEF Queue
    <3>5. /\ Elements(Append(priority, r)) = Elements(priority) \cup {r}
          /\ Elements(Append(normal, r)) = Elements(normal) \cup {r}
      BY AppendLemma
    <3>6. /\ Elements(priority') \subseteq PriorityRequests
          /\ Elements(normal') \cap PriorityRequests = {}
          /\ Queued' = Queued \cup {r}
      BY <3>4, <3>5 DEF OrderInv, Queued
    <3>7. /\ InOrder(accepted', priority) /\ InOrder(accepted', normal)
          /\ InOrder(accepted', wire)
          /\ Follows(accepted', Elements(priority), {r})
          /\ Follows(accepted', Elements(normal), {r})
      <4>1. ASSUME NEW q, InOrder(accepted, q) PROVE InOrder(accepted', q)
        BY <3>3, <4>1 DEF InOrder
      <4>2. /\ Follows(accepted', Elements(priority), {r})
            /\ Follows(accepted', Elements(normal), {r})
        BY <3>3 DEF OrderInv, Follows, Queued
      <4>3. /\ InOrder(accepted, priority) /\ InOrder(accepted, normal)
            /\ InOrder(accepted, wire)
        BY DEF OrderInv
      <4> QED BY <4>1, <4>2, <4>3
    <3>8. InOrder(accepted', priority') /\ InOrder(accepted', normal')
      <4>1. /\ InOrder(accepted', Append(priority, r))
            /\ InOrder(accepted', Append(normal, r))
        BY <3>7, OrderAppendLemma
      <4> QED BY <3>4, <3>7, <4>1
    <3>9. /\ Follows(accepted', Elements(wire), Unwritten \cup Queued \cup {r})
          /\ Follows(accepted', Unwritten, Queued \cup {r})
      BY <3>3 DEF OrderInv, Follows
    <3>10. \A s \in Elements(accepted') : sender'[s] \notin {"idle", "queueing"}
      <4>1. Elements(accepted) \subseteq Requests
        BY DEF Elements
      <4> QED BY <3>1, <3>4, <4>1 DEF OrderInv
    <3> QED BY <3>1, <3>2, <3>6, <3>7, <3>8, <3>9, <3>10 DEF OrderInv
  <2> QED BY <1>3, <2>1, <2>2 DEF Queue
<1>4. CASE Remove(r)
  <2>1. \/ \E i \in DOMAIN priority : priority' = DropAt(priority, i) /\ UNCHANGED normal
        \/ \E i \in DOMAIN normal : normal' = DropAt(normal, i) /\ UNCHANGED priority
        \/ UNCHANGED <<priority, normal>>
    BY <1>4 DEF Remove
  <2>2. /\ InOrder(accepted, priority') /\ InOrder(accepted, normal')
        /\ Elements(priority') \subseteq Elements(priority)
        /\ Elements(normal') \subseteq Elements(normal)
    BY <2>1, OrderDropLemma, DropAtLemma DEF OrderInv
  <2>3. /\ UNCHANGED <<accepted, wire, runner, current>>
        /\ UNCHANGED <<Unwritten, Elements(wire), Elements(accepted)>>
        /\ sender' = [sender EXCEPT ![r] = "returned"]
    BY <1>4 DEF Remove, run, Return, Unwritten
  <2>4. Queued' \subseteq Queued
    BY <2>2 DEF Queued
  <2>5. \A s \in Elements(accepted) : sender'[s] \notin {"idle", "queueing"}
    <3>1. Elements(accepted) \subseteq Requests
      BY DEF Elements
    <3> QED BY <2>3, <3>1 DEF OrderInv
  <2>6. InOrder(accepted, wire') /\ Distinct(accepted')
    BY <2>3 DEF OrderInv
  <2> QED BY <2>2, <2>3, <2>4, <2>5, <2>6 DEF OrderInv, Follows
<1> QED BY <1>2, <1>3, <1>4 DEF Proceed

\* A step of Run keeps the order: next takes the head of a queue, a write puts the frame
\* behind those on the wire.
LEMMA RunOrder ==
    ASSUME TypeOK, OrderInv, Run
    PROVE  OrderInv'
<1> USE DEF TypeOK
<1>1. UNCHANGED <<accepted, sender>> /\ UNCHANGED Elements(accepted)
  BY DEF Run, RunCheck, RunNext, RunWake, RunRecheck, RunStart, RunWrite, RunReply, RunFail,
         RunDrain, RunAnswer, sends, history
<1>2. ASSUME UNCHANGED wire, Unwritten' \subseteq Unwritten, Queued' \subseteq Queued,
             Elements(priority') \subseteq Elements(priority),
             Elements(normal') \subseteq Elements(normal),
             InOrder(accepted, priority'), InOrder(accepted, normal')
      PROVE  OrderInv'
  <2>1. UNCHANGED Elements(wire) /\ InOrder(accepted, wire') /\ Distinct(accepted')
    BY <1>1, <1>2 DEF OrderInv
  <2> QED BY <1>1, <1>2, <2>1 DEF OrderInv, Follows
<1>3. CASE UNCHANGED <<priority, normal, wire, current>> /\ Unwritten' \subseteq Unwritten
  BY <1>2, <1>3 DEF OrderInv, Queued
<1>4. CASE RunCheck \/ RunWake \/ RunRecheck \/ RunStart \/ RunReply \/ RunFail \/ RunAnswer
  <2>1. UNCHANGED <<priority, normal, wire, current>> /\ Unwritten' \subseteq Unwritten
    BY <1>4 DEF RunCheck, RunWake, RunRecheck, RunStart, RunReply, RunFail, RunAnswer,
                queues, history, Unwritten
  <2> QED BY <1>3, <2>1
<1>5. CASE RunNext
  <2>1. CASE runner' = "wait" /\ UNCHANGED <<queues, current>>
    BY <1>3, <1>5, <2>1 DEF RunNext, queues, Unwritten
  <2>2. ASSUME NEW q, NEW p, q \in Seq(Requests), q # <<>>, runner' = "picked",
               current' = Head(q), UNCHANGED wire,
               \/ q = priority /\ p = normal /\ priority' = Tail(q) /\ normal' = p
               \/ q = normal /\ p = priority /\ normal' = Tail(q) /\ priority' = p
        PROVE  OrderInv'
    <3>1. InOrder(accepted, Tail(q)) /\ Follows(accepted, {Head(q)}, Elements(Tail(q)))
      BY <2>2, OrderTailLemma DEF OrderInv
    <3>2. Elements(Tail(q)) \subseteq Elements(q) /\ Head(q) \in Elements(q)
      BY <2>2, TailLemma
    <3>3. /\ Elements(priority') \subseteq Elements(priority)
          /\ Elements(normal') \subseteq Elements(normal)
          /\ Queued' \subseteq Queued /\ Head(q) \in Queued
      BY <2>2, <3>2 DEF Queued
    <3>4. Unwritten' = {Head(q)}
      BY <2>2 DEF Unwritten
    <3>5. Follows(accepted, {Head(q)}, Queued')
      <4>1. Follows(accepted, {Head(q)}, Elements(p))
        BY <2>2, <3>2 DEF Follows, SameClass, OrderInv
      <4>2. Queued' = Elements(Tail(q)) \cup Elements(p)
        BY <2>2 DEF Queued
      <4> QED BY <3>1, <4>1, <4>2 DEF Follows
    <3>6. InOrder(accepted, priority') /\ InOrder(accepted, normal')
      BY <2>2, <3>1 DEF OrderInv
    <3>7. UNCHANGED Elements(wire) /\ InOrder(accepted, wire') /\ Distinct(accepted')
      BY <1>1, <2>2 DEF OrderInv
    <3> QED BY <1>1, <3>3, <3>4, <3>5, <3>6, <3>7 DEF OrderInv, Follows
  <2>3. CASE PickNormal /\ runner' = "picked"
    BY <1>5, <2>2, <2>3 DEF RunNext, PickNormal, NormalTurn
  <2>4. CASE PickPriority /\ runner' = "picked"
    BY <1>5, <2>2, <2>4 DEF RunNext, PickPriority
  <2> QED BY <1>5, <2>1, <2>3, <2>4 DEF RunNext
<1>6. CASE RunWrite
  <2>1. CASE UNCHANGED wire
    BY <1>3, <1>6, <2>1 DEF RunWrite, queues, Unwritten
  <2>2. CASE wire' = Append(wire, current)
    <3>1. /\ Unwritten = {current} /\ Unwritten' = {} /\ current \in Requests
          /\ UNCHANGED <<priority, normal>>
      BY <1>6 DEF RunWrite, Unwritten, queues
    <3>2. Elements(wire') = Elements(wire) \cup Unwritten
      BY <2>2, <3>1, AppendLemma
    <3>3. InOrder(accepted, wire')
      <4>1. Follows(accepted, Elements(wire), {current})
        BY <3>1 DEF OrderInv, Follows
      <4> QED BY <2>2, <3>1, <4>1, OrderAppendLemma DEF OrderInv
    <3>4. UNCHANGED Queued /\ Distinct(accepted')
      BY <1>1, <3>1 DEF Queued, OrderInv
    <3> QED BY <1>1, <3>1, <3>2, <3>3, <3>4 DEF OrderInv, Follows
  <2> QED BY <1>6, <2>1, <2>2 DEF RunWrite
<1>7. CASE RunDrain
  <2>1. Elements(<<>>) = {} /\ InOrder(accepted, <<>>)
    BY DEF Elements, InOrder
  <2>2. /\ priority' = <<>> /\ normal' = <<>> /\ UNCHANGED wire
        /\ Unwritten' = {} /\ Queued' = {}
    BY <1>7, <2>1 DEF RunDrain, Unwritten, Queued
  <2> QED BY <1>2, <2>1, <2>2
<1> QED BY <1>4, <1>5, <1>6, <1>7 DEF Run

\* Frames of one class are written in the order queue took them, each of them once.
THEOREM FifoAlways == Spec => []FifoPerClass
<1>1. Init => OrderInv
  <2> SUFFICES ASSUME Init PROVE OrderInv
    OBVIOUS
  <2>1. /\ accepted = <<>> /\ priority = <<>> /\ normal = <<>> /\ wire = <<>>
        /\ Unwritten = {}
    BY DEF Init, Unwritten
  <2> QED BY <2>1 DEF OrderInv, Distinct, Elements, Queued, InOrder, Follows
<1>2. TypeOK /\ OrderInv /\ [Next]_vars => OrderInv'
  <2> SUFFICES ASSUME TypeOK, OrderInv, [Next]_vars PROVE OrderInv'
    OBVIOUS
  <2>1. CASE CloseDone \/ UNCHANGED vars
    <3>1. UNCHANGED <<accepted, sender, priority, normal, wire, runner, current>>
      BY <2>1 DEF CloseDone, vars, queues, run, sends, history
    <3>2. UNCHANGED <<Unwritten, Queued, Elements(wire), Elements(accepted)>>
      BY <3>1 DEF Unwritten, Queued
    <3> QED BY <3>1, <3>2 DEF OrderInv, Distinct, InOrder, Follows, Precedes
  <2> QED BY <2>1, CallerOrder, RunOrder DEF Next
<1>3. OrderInv => FifoPerClass
  BY DEF OrderInv, InOrder, SameClass, Precedes, FifoPerClass
<1> QED BY <1>1, <1>2, <1>3, TypeCorrect, PTL DEF Spec
================================================================================
