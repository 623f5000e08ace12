------------------------------ MODULE EventStream -------------------------------
(***************************************************************************)
(* What a consumer of account events may rely on: one queue that holds the *)
(* events and, at its end, the read error that stopped them.  A stream     *)
(* that only its peer has ended never answers "closed" before it has given *)
(* that error away.                                                        *)
(***************************************************************************)
EXTENDS Sequences

CONSTANTS Events,  \* what is delivered
          Error,   \* the read error
          Closed,  \* the answer of a stream that has ended
          Nothing  \* no answer yet

VARIABLES queue,   \* events, with Error at the end
          failed,  \* the read error has been put
          over,    \* the consumer's side has closed the stream or ended its context
          last     \* the last answer of Receive

vars == <<queue, failed, over, last>>

Init == /\ queue = <<>> /\ failed = FALSE /\ over = FALSE
        /\ last = Nothing

Put == /\ ~failed
       /\ \E e \in Events : queue' = Append(queue, e)
       /\ UNCHANGED <<failed, over, last>>

Fail == /\ ~failed /\ failed' = TRUE
        /\ queue' = Append(queue, Error)
        /\ UNCHANGED <<over, last>>

End == over' = TRUE /\ UNCHANGED <<queue, failed, last>>

Get == /\ queue # <<>>
       /\ last' = Head(queue) /\ queue' = Tail(queue)
       /\ UNCHANGED <<failed, over>>

\* At once after the consumer's own end, else only after the error.
Refuse == /\ over \/ (failed /\ queue = <<>>)
          /\ last' = Closed
          /\ UNCHANGED <<queue, failed, over>>

\* An error that finds the stream closed is answered as closed.
Swallow == /\ over /\ queue = <<Error>>
           /\ queue' = <<>> /\ last' = Closed
           /\ UNCHANGED <<failed, over>>

Next == Put \/ Fail \/ End \/ Get \/ Refuse \/ Swallow

Spec == Init /\ [][Next]_vars
================================================================================
