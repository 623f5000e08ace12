---------------------------- MODULE SessionService ----------------------------
(***************************************************************************)
(* What a control session promises its callers, without workers, mutex,    *)
(* message ids or time.  A session ends once, for one cause; each call     *)
(* returns once: with the peer's one reply to it, which came while the     *)
(* session lived, with the cause of the session's end, or with an error of *)
(* its own.  SignalingSession implements it (its theorem                   *)
(* SessionImplementsService).                                              *)
(***************************************************************************)
CONSTANTS Calls,      \* the calls
          Causes,     \* why a session can end
          OwnErrors   \* what a call can fail with although the session lives

VARIABLES ended,      \* the cause the session ended with, "none" before
          announced,  \* the end is announced to those that wait for it
          replies,    \* the calls the peer has replied to
          answer      \* what each call returned, "none" before

vars == <<ended, announced, replies, answer>>

Init ==
    /\ ended = "none" /\ announced = FALSE
    /\ replies = {}
    /\ answer = [c \in Calls |-> "none"]

End(cause) ==
    /\ ended = "none" /\ ended' = cause
    /\ UNCHANGED <<announced, replies, answer>>

Announce ==
    /\ ended # "none" /\ ~announced /\ announced' = TRUE
    /\ UNCHANGED <<ended, replies, answer>>

\* The peer replies to a call once and to a living session only.
Reply(c) ==
    /\ ended = "none" /\ c \notin replies
    /\ replies' = replies \cup {c}
    /\ UNCHANGED <<ended, announced, answer>>

\* A call that notices the session's age itself says so, whatever ended the session.
Answer(c, a) ==
    /\ answer[c] = "none"
    /\ \/ a = "reply" /\ c \in replies
       \/ a \in {ended, "expired"} /\ ended # "none"
       \/ a \in OwnErrors
    /\ answer' = [answer EXCEPT ![c] = a]
    /\ UNCHANGED <<ended, announced, replies>>

Next ==
    \/ \E cause \in Causes : End(cause)
    \/ Announce
    \/ \E c \in Calls : Reply(c)
    \/ \E c \in Calls, a \in Causes \cup OwnErrors \cup {"reply"} : Answer(c, a)

Spec == Init /\ [][Next]_vars
================================================================================
