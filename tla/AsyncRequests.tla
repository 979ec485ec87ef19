--------------------------- MODULE AsyncRequests ---------------------------
(***************************************************************************)
(* What an asynchronous request/handler interface promises: a request that *)
(* was made is answered, and its completion handler runs exactly once.     *)
(* MTLLibraryCache, the coalescing function cache, implements it.          *)
(***************************************************************************)
EXTENDS Naturals

CONSTANT Requests

VARIABLES asked,    \* the requests whose call has entered the cache
          replies   \* how often the handler of each request has run

vars == <<asked, replies>>

Init == /\ asked = {}
        /\ replies = [r \in Requests |-> 0]

Ask(r) == /\ r \notin asked
          /\ asked' = asked \cup {r}
          /\ UNCHANGED replies

Answer(r) == /\ r \in asked
             /\ replies[r] = 0
             /\ replies' = [replies EXCEPT ![r] = 1]
             /\ UNCHANGED asked

Next == \E r \in Requests : Ask(r) \/ Answer(r)

SafeSpec == Init /\ [][Next]_vars

Spec == SafeSpec /\ \A r \in Requests : WF_vars(Answer(r))
=============================================================================
