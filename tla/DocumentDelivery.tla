-------------------------- MODULE DocumentDelivery --------------------------
(***************************************************************************)
(* What a workflow extension may rely on when it sends documents: each is  *)
(* looked at in the order in which it was written, an addressed one waits  *)
(* until its reader has looked at it, and takes effect at most once more   *)
(* than something went wrong.  A reader that comes back begins anew with   *)
(* whatever waits.  Nothing is said of how a reader learns that there is   *)
(* something to look at.                                                   *)
(***************************************************************************)
EXTENDS Naturals, Sequences

CONSTANTS Readers, Documents,
          Everyone, \* the addressee of a broadcast
          ReaderOf  \* the addressee of each document

VARIABLES
  written, \* the documents, in order
  waiting, \* those still there
  looked,  \* per reader, what it has looked at since it came
  effects, \* how often each addressed document took effect
  faults   \* how often something went wrong

vars == <<written, waiting, looked, effects, faults>>

Broadcast(m) == ReaderOf[m] = Everyone
IsTo(m, i) == ReaderOf[m] \in {i, Everyone}
Before(x, m) == \E j, k \in DOMAIN written : j < k /\ written[j] = x /\ written[k] = m
Entered(m) == \E j \in DOMAIN written : written[j] = m

Init ==
  /\ written = <<>> /\ waiting = {}
  /\ looked = [i \in Readers |-> {}]
  /\ effects = [m \in Documents |-> 0]
  /\ faults = 0

Write(m) ==
  /\ ~Entered(m)
  /\ written' = Append(written, m) /\ waiting' = waiting \cup {m}
  /\ UNCHANGED <<looked, effects, faults>>

(* Only a broadcast is looked at after it has gone.                        *)
Look(i, m) ==
  /\ Entered(m) /\ IsTo(m, i)
  /\ Broadcast(m) \/ m \in waiting
  /\ \A x \in waiting : IsTo(x, i) /\ Before(x, m) => x \in looked[i]
  /\ looked' = [looked EXCEPT ![i] = @ \cup {m}]
  /\ UNCHANGED written

PassOver(i, m) ==
  Look(i, m) /\ faults' \in {faults, faults + 1} /\ UNCHANGED <<waiting, effects>>
Discard(i, m) ==
  Look(i, m) /\ waiting' = waiting \ {m} /\ UNCHANGED <<effects, faults>>
TakeEffect(i, m) ==
  /\ Look(i, m) /\ ~Broadcast(m)
  /\ effects[m] <= faults
  /\ effects' = [effects EXCEPT ![m] = @ + 1]
  /\ UNCHANGED <<waiting, faults>>

Drop ==
  /\ waiting' \subseteq waiting
  /\ \A m \in waiting \ waiting' : Broadcast(m) \/ m \in looked[ReaderOf[m]]
  /\ UNCHANGED <<written, looked, effects, faults>>

(* A reader leaves or dies; something fails and nothing comes of it.       *)
Forget(i) ==
  /\ looked' = [looked EXCEPT ![i] = {}]
  /\ faults' \in {faults, faults + 1}
  /\ UNCHANGED <<written, waiting, effects>>
Fault == faults' = faults + 1 /\ UNCHANGED <<written, waiting, looked, effects>>

Next ==
  \/ Drop \/ Fault
  \/ \E m \in Documents : Write(m)
  \/ \E i \in Readers : \/ Forget(i)
                        \/ \E m \in Documents : PassOver(i, m) \/ Discard(i, m) \/ TakeEffect(i, m)

Spec == Init /\ [][Next]_vars
=============================================================================
