------------------------------ MODULE FrameOutbox ------------------------------
(***************************************************************************)
(* What the signaling writer promises its callers, without its queues, its *)
(* wake token or its shutdown: frames go to the socket one at a time, each *)
(* at most once, and a caller gets one answer.  An answer of "written" is  *)
(* given only for a frame that is on the wire, and a caller that already   *)
(* has an answer never sees its frame picked up afterwards: only the one   *)
(* frame that was in flight when its caller gave up may still go out.      *)
(***************************************************************************)
CONSTANTS Requests,   \* one per call of SignalingWriter.Send
          NoRequest   \* no request

VARIABLES sent,       \* the requests whose frame is on the wire
          inflight,   \* the one request the writer has taken, or NoRequest
          answer      \* what Send returned to each caller, "none" before

vars == <<sent, inflight, answer>>

\* The results Send can return; "written" stands for a nil error.
Answers == {"written", "failed", "cancelled", "closed", "backpressure"}

Init == /\ sent = {}
        /\ inflight = NoRequest
        /\ answer = [r \in Requests |-> "none"]

Begin(r) == /\ inflight = NoRequest
            /\ r \notin sent
            /\ answer[r] = "none"
            /\ inflight' = r
            /\ UNCHANGED <<sent, answer>>

Transmit == /\ inflight # NoRequest
            /\ sent' = sent \cup {inflight}
            /\ inflight' = NoRequest
            /\ UNCHANGED answer

Abandon == /\ inflight # NoRequest
           /\ inflight' = NoRequest
           /\ UNCHANGED <<sent, answer>>

Settle(r, a) == /\ answer[r] = "none"
                /\ a = "written" => r \in sent
                /\ a = "backpressure" => r \notin sent /\ r # inflight
                /\ answer' = [answer EXCEPT ![r] = a]
                /\ UNCHANGED <<sent, inflight>>

Next == \/ \E r \in Requests : Begin(r)
        \/ Transmit
        \/ Abandon
        \/ \E r \in Requests, a \in Answers : Settle(r, a)

Spec == Init /\ [][Next]_vars
================================================================================
