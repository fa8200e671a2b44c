----------------------------- MODULE RequestReply -----------------------------
(***************************************************************************)
(* What the engine may count on when it talks to nodeconf: no answer that  *)
(* was not asked for, and at most one to each request.  That there is one  *)
(* at all is not promised.                                                 *)
(***************************************************************************)
CONSTANT Request

VARIABLES open, answered

Init == open = {} /\ answered = {}

Ask(r) == r \notin open \cup answered /\ open' = open \cup {r} /\ UNCHANGED answered

Answer(r) == r \in open /\ open' = open \ {r} /\ answered' = answered \cup {r}

\* The requests that will not be answered any more.
GiveUp == open' \subseteq open /\ UNCHANGED answered

Next == GiveUp \/ \E r \in Request : Ask(r) \/ Answer(r)

Spec == Init /\ [][Next]_<<open, answered>>
=============================================================================
