--------------------------- MODULE MCSignalingWriter ---------------------------
(* SignalingWriter for TLC: three calls of Send, two of them safety frames.   *)
EXTENDS SignalingWriter, TLC

CONSTANTS p1, p2, n1

MCRequests == {p1, p2, n1}
MCPriority == {p1, p2}

\* The two safety frames are interchangeable.
MCSymmetry == Permutations({p1, p2})

\* What the rest of a behaviour and the properties can still depend on: the locals of
\* Run while it serves a request, the wake token and the streak until drain, the end
\* of a context somebody can still look at, and the order of frames within a class
\* (FifoPerClass compares no frame with one of the other class).
Serving == runner \in {"picked", "ready", "writing", "reply"}
Ending  == runner \in {"drain", "answering", "finished"}
StillRead(r) == \/ sender[r] # "returned"
                \/ r \in Queued \cup Elements(draining)
                \/ Serving /\ r = current
ByClass(q) == <<SelectSeq(q, LAMBDA r : r \in MCPriority),
                SelectSeq(q, LAMBDA r : r \notin MCPriority)>>
MCView == <<done, {r \in cancelled : StillRead(r)}, ~Ending /\ wake, priority, normal,
            IF Ending THEN 0 ELSE streak, runner,
            IF Serving THEN current ELSE NoRequest,
            IF runner = "reply" THEN outcome ELSE "none",
            draining, result, sends, ByClass(wire), ByClass(accepted), bypassed>>
================================================================================
