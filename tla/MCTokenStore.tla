------------------------------ MODULE MCTokenStore ------------------------------
(* TokenStore for TLC: at most one command signs in, beside any of the others; an application,
   which shares no file with them, beside a logout. *)
EXTENDS TokenStore, FiniteSets, Functions, TLC

CONSTANTS c1, c2

MCSessions == {c1, c2}

\* The commands that only hold a session are interchangeable.
MCSymmetry == Permutations(MCSessions)

MCMixes == {k \in [Commands -> Kinds] :
               /\ Cardinality({c \in Commands : k[c] \in {"login", "app"}}) <= 1
               /\ "app" \in Range(k) => "logout" \in Range(k)}
================================================================================
