-------------------------- MODULE WorkflowRecords --------------------------
(***************************************************************************)
(* What the processes of a workflow may rely on about instance records: a  *)
(* record appears because its own live instance writes it, and goes        *)
(* because that instance leaves or because a live instance sweeps it for   *)
(* stale, its own instance only while its writes fail.  The files know no  *)
(* more of who is alive: a dead instance may keep its record, and a live   *)
(* one may be without until it writes it anew.                             *)
(***************************************************************************)
CONSTANT Instances

VARIABLES
  alive,    \* the instances whose relay is in a document
  recorded, \* the instances with a record in the mailbox
  failing   \* those whose writes of it fail; this may change at any time

Init == alive = {} /\ recorded = {}

(* An instance is added to a document ...                                  *)
Join(i) ==
  /\ i \notin alive /\ alive' = alive \cup {i}
  /\ \/ recorded' = recorded \cup {i}
     \/ i \in failing' /\ UNCHANGED recorded

(* ... writes its record anew ...                                          *)
Refresh(i) ==
  /\ i \in alive /\ recorded' = recorded \cup {i}
  /\ UNCHANGED alive

(* ... and leaves with its record, or leaves it behind.                    *)
Withdraw(i) ==
  /\ i \in alive /\ alive' = alive \ {i}
  /\ recorded' = recorded \ {i}

LeaveBehind(i) ==
  /\ i \in alive /\ alive' = alive \ {i}
  /\ UNCHANGED recorded

(* The record of j is taken for a dead instance's.                         *)
Sweep(i, j) ==
  /\ i \in alive /\ (j = i => i \in failing)
  /\ recorded' = recorded \ {j}
  /\ UNCHANGED alive

Next ==
  \E i \in Instances :
    \/ Join(i) \/ Refresh(i) \/ Withdraw(i) \/ LeaveBehind(i)
    \/ \E j \in Instances : Sweep(i, j)

Spec == Init /\ [][Next]_<<alive, recorded>>
=============================================================================
