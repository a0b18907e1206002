--------------------------- MODULE BoundedService ---------------------------
(***************************************************************************)
(* What the concurrent servers of Lab 3 promise: sessions are served by    *)
(* processes of their own, at most Limit of them at any time.  Nothing is  *)
(* promised about when a session starts or how long it lasts.              *)
(***************************************************************************)
EXTENDS Naturals, FiniteSets

CONSTANTS Procs,   \* the processes that may serve a session
          Limit    \* the largest number of concurrent sessions

VARIABLE active    \* the processes that serve a session

Init == active = {}

Begin(p) == /\ p \notin active
            /\ Cardinality(active) < Limit
            /\ active' = active \cup {p}

End(p) == /\ p \in active
          /\ active' = active \ {p}

Next == \E p \in Procs : Begin(p) \/ End(p)

Spec == Init /\ [][Next]_active
=============================================================================
