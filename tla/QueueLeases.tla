---------------------------- MODULE QueueLeases ----------------------------
(***************************************************************************)
(* What render threads may rely on about pooled command queues: a queue is *)
(* leased to one thread at a time, and an open pool grows only when every  *)
(* queue of it is leased.  There are no marks here that could disagree     *)
(* with the leases.  A pool that was closed still serves the threads that  *)
(* know it, one queue for one thread, but may grow as it likes.            *)
(***************************************************************************)
EXTENDS Naturals, Sequences

CONSTANTS Threads,
          InitialQueues \* the most a pool opens with

VARIABLES
  size,  \* per pool, in order of creation, how many queues it has
  open,  \* the pools that new users are led to
  lease  \* per thread, its pool and queue, or NoLease

vars == <<size, open, lease>>

NoLease == <<0, 0>>
Leased(p, q) == \E t \in Threads : lease[t] = <<p, q>>
Unleased(p) == {q \in 1..size[p] : ~Leased(p, q)}

Init ==
  /\ size \in Seq(0..InitialQueues)
  /\ open = DOMAIN size
  /\ lease = [t \in Threads |-> NoLease]

Open ==
  /\ \E n \in 0..InitialQueues : size' = Append(size, n)
  /\ open' = open \cup {Len(size) + 1}
  /\ UNCHANGED lease

Close ==
  /\ open' \subseteq open
  /\ UNCHANGED <<size, lease>>

Take(t, p, q) ==
  /\ lease[t] = NoLease /\ ~Leased(p, q)
  /\ p \in open => q \in Unleased(p) \/ Unleased(p) = {}
  /\ size' = [size EXCEPT ![p] = IF q > size[p] THEN q ELSE size[p]]
  /\ lease' = [lease EXCEPT ![t] = <<p, q>>]
  /\ UNCHANGED open

Give(t) ==
  /\ lease' = [lease EXCEPT ![t] = NoLease]
  /\ UNCHANGED <<size, open>>

Next ==
  \/ Open \/ Close
  \/ \E t \in Threads : \/ Give(t)
                        \/ \E p \in DOMAIN size : \E q \in 1..(size[p] + 1) : Take(t, p, q)

Spec == Init /\ [][Next]_vars
=============================================================================
