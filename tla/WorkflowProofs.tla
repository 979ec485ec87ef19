-------------------------- MODULE WorkflowProofs --------------------------
(***************************************************************************)
(* Proofs about the safety of the document queue, for any instances,       *)
(* documents and number of faults, and about the instance records, which   *)
(* the queue and the processes' presence have in common.                   *)
(***************************************************************************)
EXTENDS WorkflowInbox, TLAPS

(* A pass walks documents of its own, and an addressed one is removed by   *)
(* nobody else.                                                            *)
TodoOwned ==
  \A i \in Instances : \A m \in todo[i] : IsFor(m, i) /\ (Addressed(m) => m \in inbox)

RemovingApplied ==
  \A i \in Instances : \A m \in removing[i] : Addressed(m) /\ m \in seen[i]

(* A document may be applied once more than there were faults only while   *)
(* it is about to be removed, or is gone.                                  *)
AppliesCounted ==
  \A m \in Messages : Addressed(m) =>
    /\ applies[m] <= 1 + faults
    /\ m \in inbox /\ m \notin removing[AddresseeOf[m]] => applies[m] <= faults
    /\ m \notin Written => applies[m] = 0

(* A pass skips nothing older than what it still has to do.                *)
OldestFirst ==
  \A i \in Instances : \A y \in todo[i] : \A x \in inbox :
    IsFor(x, i) /\ Older(x, y) => x \in todo[i] \cup seen[i]

IInv == TypeOK /\ TodoOwned /\ RemovingApplied /\ AppliesCounted /\ OldestFirst

LEMMA AddresseeTyped ==
  ASSUME NEW m \in Messages, Addressed(m)
  PROVE  AddresseeOf[m] \in Instances /\ \A i \in Instances : IsFor(m, i) <=> i = AddresseeOf[m]
BY InboxAssumption DEF Addressed, Sessions, IsFor

LEMMA WrittenTyped == TypeOK => Written \subseteq Messages
BY DEF TypeOK, Written

LEMMA InitIInv == Init => IInv
<1> SUFFICES ASSUME Init PROVE IInv
  OBVIOUS
<1>1. written = <<>> /\ written \in Seq(Messages) /\ DOMAIN written = {} /\ Written = {}
  BY DEF Init, Written
<1>2. TypeOK
  BY <1>1, InboxAssumption DEF Init, TypeOK, IsInjective
<1>3. TodoOwned /\ RemovingApplied /\ AppliesCounted /\ OldestFirst
  BY <1>1, InboxAssumption DEF Init, TodoOwned, RemovingApplied, AppliesCounted, OldestFirst
<1> QED
  BY <1>2, <1>3 DEF IInv

----------------------------------------------------------------------------
(* Steps that touch neither files nor passes.                              *)
LEMMA Untouched ==
  ASSUME IInv, TypeOK', UNCHANGED <<inbox, written, todo, removing, seen, applies, faults>>
  PROVE  IInv'
<1>1. Written' = Written /\ \A x, y : Older(x, y)' <=> Older(x, y)
  BY DEF Written, Older
<1>2. TodoOwned' /\ RemovingApplied'
  BY DEF IInv, TodoOwned, RemovingApplied, IsFor, Addressed
<1>3. AppliesCounted'
  BY <1>1 DEF IInv, AppliesCounted, Addressed
<1>4. OldestFirst'
  BY <1>1 DEF IInv, OldestFirst, IsFor
<1> QED
  BY <1>2, <1>3, <1>4 DEF IInv

LEMMA Signalled ==
  ASSUME TypeOK, NEW heard \in SUBSET Listening, Signal(heard)
  PROVE  /\ queue' \in [Instances -> SUBSET Blocks]
         /\ \A i \in Instances : queue'[i] # {} => i \in alive /\ i \in OnArrival
<1>1. \A i \in Instances : queue'[i] = queue[i] \cup {b \in {"change"} : i \in heard}
  BY DEF Signal
<1>2. \A i \in Instances : queue[i] \subseteq Blocks /\ "change" \in Blocks
  BY DEF TypeOK, Blocks
<1>3. queue' \in [Instances -> SUBSET Blocks]
  BY <1>2 DEF Signal
<1>4. \A i \in Instances : queue'[i] # {} => i \in alive /\ i \in OnArrival
  BY <1>1 DEF TypeOK, Listening
<1> QED
  BY <1>3, <1>4

LEMMA ExtensionIInv ==
  ASSUME IInv, Start \/ Heartbeat \/ PostChangeNotification \/ Quit
  PROVE  IInv'
<1>1. /\ UNCHANGED <<inbox, written, malformed, alive, recorded, pass, todo, removing, seen,
                     applies, faults>>
      /\ extension' \in {"closed", "open", "posting"}
      /\ UNCHANGED queue \/ \E heard \in SUBSET Listening : Signal(heard)
  BY DEF Start, Heartbeat, PostChangeNotification, Quit, sent, relayVars, IInv, TypeOK,
         RootChanges, PostChange
<1>2. /\ queue' \in [Instances -> SUBSET Blocks]
      /\ \A i \in Instances : queue'[i] # {} => i \in alive /\ i \in OnArrival
  BY <1>1, Signalled DEF IInv, TypeOK
<1>3. Written' = Written
  BY <1>1 DEF Written
<1>4. TypeOK'
  BY <1>1, <1>2, <1>3 DEF IInv, TypeOK
<1> QED
  BY <1>1, <1>4, Untouched

(* A document is written: its file sorts after every other.                *)
LEMMA WrittenNext ==
  ASSUME TypeOK, NEW m \in Messages \ Written, written' = Append(written, m)
  PROVE  /\ written' \in Seq(Messages) /\ IsInjective(written') /\ Written' = Written \cup {m}
         /\ \A x, y : y # m => (Older(x, y)' <=> Older(x, y))
<1>1. /\ written \in Seq(Messages) /\ Len(written) \in Nat /\ DOMAIN written = 1..Len(written)
      /\ written' \in Seq(Messages) /\ DOMAIN written' = 1..(Len(written) + 1)
      /\ \A j \in 1..Len(written) : written'[j] = written[j]
      /\ written'[Len(written) + 1] = m
  BY DEF TypeOK
<1>2. \A j \in 1..Len(written) : written[j] # m
  BY <1>1 DEF Written
<1>3. Written' = Written \cup {m}
  BY <1>1 DEF Written
<1>4. IsInjective(written')
  BY <1>1, <1>2 DEF TypeOK, IsInjective
<1>5. ASSUME NEW x, NEW y, y # m PROVE Older(x, y)' <=> Older(x, y)
  BY <1>1, <1>5 DEF Older
<1> QED
  BY <1>1, <1>3, <1>4, <1>5

LEMMA SendDocumentIInv ==
  ASSUME IInv, NEW m \in Messages, SendDocument(m)
  PROVE  IInv'
<1>1. /\ m \notin Written /\ inbox' = inbox \cup {m} /\ written' = Append(written, m)
      /\ extension' = "posting"
      /\ UNCHANGED <<alive, recorded, pass, todo, removing, seen, applies, faults>>
      /\ UNCHANGED queue \/ Signal(Listening)
  BY DEF SendDocument, relayVars, RootChanges
<1>2. /\ written' \in Seq(Messages) /\ IsInjective(written') /\ Written' = Written \cup {m}
      /\ \A x, y : y # m => (Older(x, y)' <=> Older(x, y))
  BY <1>1, WrittenNext DEF IInv
<1>3. malformed' \subseteq Written' \cap MayBeMalformed
  BY <1>2 DEF SendDocument, IInv, TypeOK
<1>4. /\ queue' \in [Instances -> SUBSET Blocks]
      /\ \A i \in Instances : queue'[i] # {} => i \in alive /\ i \in OnArrival
  BY <1>1, Signalled DEF IInv, TypeOK
<1>5. TypeOK'
  BY <1>1, <1>2, <1>3, <1>4 DEF IInv, TypeOK
<1>6. TodoOwned' /\ RemovingApplied'
  BY <1>1 DEF IInv, TodoOwned, RemovingApplied, IsFor, Addressed
<1>7. AppliesCounted'
  BY <1>1, <1>2 DEF IInv, TypeOK, AppliesCounted, Addressed
<1>8. OldestFirst'
  <2> SUFFICES ASSUME NEW i \in Instances, NEW y \in todo[i], NEW x \in inbox \cup {m},
                      IsFor(x, i), Older(x, y)'
               PROVE  x \in todo[i] \cup seen[i]
    BY <1>1 DEF OldestFirst, IsFor
  <2>1. y # m
    BY <1>1 DEF IInv, TypeOK
  <2>2. Older(x, y)
    BY <1>2, <2>1
  <2>3. x # m
    BY <1>1, <2>2 DEF Older, Written
  <2> QED
    BY <2>2, <2>3 DEF IInv, OldestFirst
<1> QED
  BY <1>5, <1>6, <1>7, <1>8 DEF IInv

(* Files go, with or without their relay.                                  *)
LEMMA RemoveBroadcastsIInv ==
  ASSUME IInv, NEW k \in 1..Len(written), RemoveBroadcastsOlderThan(k)
  PROVE  IInv'
<1>1. /\ inbox' \subseteq inbox /\ \A m \in inbox : Addressed(m) => m \in inbox'
      /\ UNCHANGED <<written, malformed, extension, alive, recorded, queue, pass, todo,
                     removing, seen, applies, faults>>
  BY DEF RemoveBroadcastsOlderThan, Cleared, sent, relayVars
<1>2. Written' = Written /\ \A x, y : Older(x, y)' <=> Older(x, y)
  BY <1>1 DEF Written, Older
<1>3. TypeOK'
  BY <1>1, <1>2 DEF IInv, TypeOK
<1>4. TodoOwned' /\ RemovingApplied'
  BY <1>1 DEF IInv, TodoOwned, RemovingApplied, IsFor, Addressed
<1>5. AppliesCounted'
  BY <1>1, <1>2 DEF IInv, AppliesCounted, Addressed
<1>6. OldestFirst'
  BY <1>1, <1>2 DEF IInv, OldestFirst, IsFor
<1> QED
  BY <1>3, <1>4, <1>5, <1>6 DEF IInv

----------------------------------------------------------------------------
(* Relays come and go.                                                     *)
LEMMA AddedIInv ==
  ASSUME IInv, NEW i \in Instances, AddedToDocument(i)
  PROVE  IInv'
<1>1. /\ i \notin alive /\ alive' = alive \cup {i}
      /\ recorded' \in {recorded, recorded \cup {i}}
      /\ queue' = [queue EXCEPT ![i] = {b \in {"first"} : i \in OnArrival}]
      /\ UNCHANGED <<inbox, written, malformed, extension, pass, todo, removing, seen, applies,
                     faults>>
  BY DEF AddedToDocument, sent, relayVars
<1>2. Written' = Written
  BY <1>1 DEF Written
<1>3. /\ queue' \in [Instances -> SUBSET Blocks]
      /\ \A j \in Instances : queue'[j] # {} => j \in alive' /\ j \in OnArrival
  <2>1. {b \in {"first"} : i \in OnArrival} \subseteq Blocks
    BY DEF Blocks
  <2>2. queue \in [Instances -> SUBSET Blocks]
    BY DEF IInv, TypeOK
  <2>3. \A j \in Instances :
          queue'[j] = IF j = i THEN {b \in {"first"} : i \in OnArrival} ELSE queue[j]
    BY <1>1, <2>2
  <2>4. queue' \in [Instances -> SUBSET Blocks]
    BY <1>1, <2>1, <2>2
  <2>5. \A j \in Instances : queue[j] # {} => j \in alive /\ j \in OnArrival
    BY DEF IInv, TypeOK
  <2> QED
    BY <1>1, <2>3, <2>4, <2>5
<1>4. alive' \subseteq Instances /\ recorded' \subseteq Instances
  BY <1>1 DEF IInv, TypeOK
<1>5. TypeOK'
  BY <1>1, <1>2, <1>3, <1>4 DEF IInv, TypeOK
<1> QED
  BY <1>1, <1>5, Untouched

(* An instance without a pass forgets what it has seen.                    *)
LEMMA Forgets ==
  ASSUME IInv, TypeOK', NEW i \in Instances, todo'[i] = {}, removing'[i] = {},
         \A j \in Instances \ {i} : todo'[j] = todo[j] /\ removing'[j] = removing[j],
         seen' = [seen EXCEPT ![i] = {}], faults' \in {faults, faults + 1},
         removing[i] # {} => faults' = faults + 1, UNCHANGED <<inbox, written, applies>>
  PROVE  IInv'
<1>1. Written' = Written /\ \A x, y : Older(x, y)' <=> Older(x, y)
  BY DEF Written, Older
<1>2. \A j \in Instances \ {i} : seen'[j] = seen[j]
  BY DEF IInv, TypeOK
<1>3. TodoOwned' /\ RemovingApplied'
  BY <1>2 DEF IInv, TodoOwned, RemovingApplied, IsFor, Addressed
<1>4. AppliesCounted'
  <2> SUFFICES ASSUME NEW m \in Messages, Addressed(m)
               PROVE  /\ applies[m] <= 1 + faults'
                      /\ m \in inbox /\ m \notin removing'[AddresseeOf[m]] => applies[m] <= faults'
                      /\ m \notin Written => applies[m] = 0
    BY <1>1 DEF AppliesCounted, Addressed
  <2>1. AddresseeOf[m] \in Instances /\ applies[m] \in Nat /\ faults \in Nat
    BY AddresseeTyped DEF IInv, TypeOK
  <2> QED
    BY <2>1 DEF IInv, AppliesCounted
<1>5. OldestFirst'
  BY <1>1, <1>2 DEF IInv, OldestFirst, IsFor
<1> QED
  BY <1>3, <1>4, <1>5 DEF IInv

LEMMA DeallocIInv ==
  ASSUME IInv, NEW i \in Instances, Dealloc(i)
  PROVE  IInv'
<1>1. /\ i \in alive /\ pass[i] = "none" /\ alive' = alive \ {i}
      /\ recorded' \in {recorded, recorded \ {i}}
      /\ seen' = [seen EXCEPT ![i] = {}]
      /\ UNCHANGED <<inbox, written, malformed, extension, pass, todo, removing, applies, faults>>
  BY DEF Dealloc, sent
<1>2. PICK heard \in SUBSET (Listening \ {i}) :
        queue' = [j \in Instances |-> IF j = i THEN {}
                                      ELSE queue[j] \cup {b \in {"change"} : j \in heard}]
  BY DEF Dealloc
<1>3. queue' \in [Instances -> SUBSET Blocks]
  BY <1>2 DEF IInv, TypeOK, Blocks
<1>4. \A j \in Instances : queue'[j] # {} => j \in alive' /\ j \in OnArrival
  BY <1>1, <1>2 DEF IInv, TypeOK, Listening
<1>5. Written' = Written
  BY <1>1 DEF Written
<1>6. todo[i] = {} /\ removing[i] = {}
  BY <1>1 DEF IInv, TypeOK
<1>7. TypeOK'
  <2>1. seen' \in [Instances -> SUBSET Written]
    BY <1>1 DEF IInv, TypeOK
  <2>2. \A j \in Instances : pass[j] # "none" => j \in alive'
    BY <1>1 DEF IInv, TypeOK
  <2> QED
    BY <1>1, <1>3, <1>4, <1>5, <2>1, <2>2 DEF IInv, TypeOK
<1> QED
  BY <1>1, <1>6, <1>7, Forgets

(* A crash between the apply and the removal is one more fault.            *)
LEMMA CrashIInv ==
  ASSUME IInv, NEW i \in Instances, Crash(i)
  PROVE  IInv'
<1>1. /\ i \in alive /\ faults < MaxFaults /\ faults' = faults + 1 /\ alive' = alive \ {i}
      /\ queue' = [queue EXCEPT ![i] = {}] /\ pass' = [pass EXCEPT ![i] = "none"]
      /\ todo' = [todo EXCEPT ![i] = {}] /\ removing' = [removing EXCEPT ![i] = {}]
      /\ seen' = [seen EXCEPT ![i] = {}]
      /\ UNCHANGED <<inbox, written, malformed, extension, recorded, applies>>
  BY DEF Crash, sent
<1>2. Written' = Written /\ \A x, y : Older(x, y)' <=> Older(x, y)
  BY <1>1 DEF Written, Older
<1>3. TypeOK'
  <2>1. faults' \in 0..MaxFaults
    BY <1>1, InboxAssumption DEF IInv, TypeOK
  <2>2. \A j \in Instances : j # i => /\ pass'[j] = pass[j] /\ todo'[j] = todo[j]
                                      /\ removing'[j] = removing[j] /\ queue'[j] = queue[j]
    BY <1>1 DEF IInv, TypeOK
  <2>3. pass'[i] = "none" /\ todo'[i] = {} /\ removing'[i] = {} /\ queue'[i] = {}
    BY <1>1 DEF IInv, TypeOK
  <2>4. \A j \in Instances : /\ pass'[j] = "none" <=> todo'[j] = {}
                             /\ removing'[j] # {} => \E m \in todo'[j] : removing'[j] = {m}
                             /\ pass'[j] # "none" \/ queue'[j] # {} => j \in alive'
                             /\ queue'[j] # {} => j \in OnArrival
    BY <1>1, <2>2, <2>3 DEF IInv, TypeOK
  <2>5. seen' \in [Instances -> SUBSET Written]
    BY <1>1 DEF IInv, TypeOK
  <2> QED
    BY <1>1, <1>2, <2>1, <2>4, <2>5 DEF IInv, TypeOK
<1>4. /\ todo'[i] = {} /\ removing'[i] = {}
      /\ \A j \in Instances \ {i} : todo'[j] = todo[j] /\ removing'[j] = removing[j]
  BY <1>1 DEF IInv, TypeOK
<1> QED
  BY <1>1, <1>3, <1>4, Forgets

LEMMA RecordIInv ==
  ASSUME IInv, NEW i \in Instances, SweepRecord(i) \/ WriteRecord(i)
  PROVE  IInv'
<1>1. /\ recorded' \in {recorded \ {i}, recorded \cup {i}}
      /\ UNCHANGED <<inbox, written, malformed, extension, alive, queue, pass, todo, removing,
                     seen, applies, faults>>
  BY DEF SweepRecord, WriteRecord, sent, relayVars
<1>2. Written' = Written
  BY <1>1 DEF Written
<1>3. TypeOK'
  BY <1>1, <1>2 DEF IInv, TypeOK
<1> QED
  BY <1>1, <1>3, Untouched

----------------------------------------------------------------------------
(* Blocks of a main queue, and the beginning of a pass.                    *)
LEMMA FireIInv ==
  ASSUME IInv, NEW i \in Instances, Fire(i)
  PROVE  IInv'
<1>1. /\ i \in alive /\ "change" \in queue[i]
      /\ queue' = [queue EXCEPT ![i] = (@ \ {"change"}) \cup {"coalesced"}]
      /\ UNCHANGED <<inbox, written, malformed, extension, alive, recorded, pass, todo, removing,
                     seen, applies, faults>>
  BY DEF Fire, MainQueueDrains, sent, relayVars
<1>2. Written' = Written
  BY <1>1 DEF Written
<1>3. TypeOK'
  BY <1>1, <1>2 DEF IInv, TypeOK, Blocks
<1> QED
  BY <1>1, <1>3, Untouched

(* A pass begins with all there is for its instance.                       *)
LEMMA BeginPassIInv ==
  ASSUME IInv, NEW i \in alive, NEW caller \in {"block", "call"}, BeginPass(i, caller),
         queue' \in [Instances -> SUBSET Blocks], \A j \in Instances : queue'[j] \subseteq queue[j],
         UNCHANGED <<inbox, written, malformed, extension, alive, recorded, removing, seen,
                     applies, faults>>
  PROVE  IInv'
<1> DEFINE ours == InboxMessages(i)
<1>1. \/ pass' = pass /\ todo' = todo
      \/ /\ pass[i] = "none" /\ ours # {}
         /\ pass' = [pass EXCEPT ![i] = caller] /\ todo' = [todo EXCEPT ![i] = ours]
  BY DEF BeginPass
<1>2. Written' = Written /\ \A x, y : Older(x, y)' <=> Older(x, y)
  BY DEF Written, Older
<1>3. i \in Instances /\ ours \subseteq inbox /\ \A m \in inbox : m \in ours <=> IsFor(m, i)
  BY DEF IInv, TypeOK, InboxMessages
<1> HIDE DEF ours
<1>4. TypeOK'
  <2>1. CASE pass' = pass /\ todo' = todo
    BY <1>2, <2>1 DEF IInv, TypeOK
  <2>2. CASE /\ pass[i] = "none" /\ ours # {}
             /\ pass' = [pass EXCEPT ![i] = caller] /\ todo' = [todo EXCEPT ![i] = ours]
    <3>1. todo[i] = {} /\ removing[i] = {}
      BY <1>3, <2>2 DEF IInv, TypeOK
    <3>2. pass' \in [Instances -> {"none", "block", "call"}] /\ todo' \in [Instances -> SUBSET Written]
      BY <1>3, <2>2 DEF IInv, TypeOK
    <3>3. \A j \in Instances : /\ pass'[j] = "none" <=> todo'[j] = {}
                               /\ removing[j] # {} => \E m \in todo'[j] : removing[j] = {m}
                               /\ pass'[j] # "none" \/ queue'[j] # {} => j \in alive
                               /\ queue'[j] # {} => j \in OnArrival
      BY <1>3, <2>2, <3>1 DEF IInv, TypeOK
    <3> QED
      BY <1>2, <3>2, <3>3 DEF IInv, TypeOK
  <2> QED
    BY <1>1, <2>1, <2>2
<1>5. \A j \in Instances : todo'[j] = todo[j] \/ (j = i /\ todo'[j] = ours)
  BY <1>1, <1>3 DEF IInv, TypeOK
<1>6. TodoOwned' /\ RemovingApplied'
  BY <1>3, <1>5 DEF IInv, TodoOwned, RemovingApplied, IsFor, Addressed
<1>7. AppliesCounted'
  BY <1>2 DEF IInv, AppliesCounted, Addressed
<1>8. OldestFirst'
  BY <1>2, <1>3, <1>5 DEF IInv, OldestFirst, IsFor
<1> QED
  BY <1>4, <1>6, <1>7, <1>8 DEF IInv

LEMMA MailboxDidChangeIInv ==
  ASSUME IInv, NEW i \in Instances, NEW b \in Blocks, MailboxDidChange(i, b)
  PROVE  IInv'
<1>1. i \in alive /\ BeginPass(i, "block") /\ queue' = [queue EXCEPT ![i] = @ \ {b}]
  BY DEF MailboxDidChange, MainQueueDrains
<1>2. queue' \in [Instances -> SUBSET Blocks] /\ \A j \in Instances : queue'[j] \subseteq queue[j]
  BY <1>1 DEF IInv, TypeOK
<1> QED
  BY <1>1, <1>2, BeginPassIInv DEF MailboxDidChange, sent

LEMMA CallProcessInboxIInv ==
  ASSUME IInv, NEW i \in Instances, CallProcessInbox(i)
  PROVE  IInv'
<1>1. i \in alive /\ BeginPass(i, "call") /\ queue' = queue
  BY DEF CallProcessInbox
<1>2. queue' \in [Instances -> SUBSET Blocks] /\ \A j \in Instances : queue'[j] \subseteq queue[j]
  BY <1>1 DEF IInv, TypeOK
<1> QED
  BY <1>1, <1>2, BeginPassIInv DEF CallProcessInbox, sent

----------------------------------------------------------------------------
(* The loop of a pass.  A document leaves the list once it has been seen.  *)
LEMMA AdvanceTypes ==
  ASSUME IInv, NEW i \in Instances, NEW m \in todo[i], Advance(i, m)
  PROVE  /\ pass' \in [Instances -> {"none", "block", "call"}]
         /\ todo' \in [Instances -> SUBSET Written]
         /\ todo'[i] = todo[i] \ {m} /\ (pass'[i] = "none" <=> todo'[i] = {})
         /\ pass[i] # "none"
         /\ \A j \in Instances \ {i} : todo'[j] = todo[j] /\ pass'[j] = pass[j]
<1>1. /\ todo' = [todo EXCEPT ![i] = @ \ {m}]
      /\ pass' = [pass EXCEPT ![i] = IF todo[i] = {m} THEN "none" ELSE @]
  BY DEF Advance
<1>2. pass[i] # "none"
  BY DEF IInv, TypeOK
<1>3. todo'[i] = todo[i] \ {m} /\ \A j \in Instances \ {i} : todo'[j] = todo[j] /\ pass'[j] = pass[j]
  BY <1>1 DEF IInv, TypeOK
<1>4. todo' \in [Instances -> SUBSET Written] /\ pass' \in [Instances -> {"none", "block", "call"}]
  BY <1>1 DEF IInv, TypeOK
<1>5. pass'[i] = "none" <=> todo[i] = {m}
  BY <1>1, <1>2 DEF IInv, TypeOK
<1> QED
  BY <1>2, <1>3, <1>4, <1>5

(* What every branch that finishes a document does.                        *)
LEMMA FinishIInv ==
  ASSUME IInv, NEW i \in Instances, NEW m \in todo[i], Advance(i, m),
         UNCHANGED <<written, malformed, extension, alive, recorded, queue>>,
         inbox' \in {inbox, inbox \ {m}},
         removing[i] \subseteq {m}, removing' = [removing EXCEPT ![i] = {}],
         m \in seen'[i], seen' \in [Instances -> SUBSET Written],
         \A j \in Instances : seen[j] \subseteq seen'[j],
         applies' \in [Messages -> Nat],
         \A x \in Messages : Addressed(x) => applies'[x] = applies[x],
         faults' \in 0..MaxFaults, faults <= faults',
         removing[i] # {} /\ inbox' = inbox => m \notin inbox \/ faults' = faults + 1
  PROVE  IInv'
<1>1. Written' = Written /\ \A x, y : Older(x, y)' <=> Older(x, y)
  BY DEF Written, Older
<1>2. /\ pass' \in [Instances -> {"none", "block", "call"}]
      /\ todo' \in [Instances -> SUBSET Written]
      /\ todo'[i] = todo[i] \ {m} /\ (pass'[i] = "none" <=> todo'[i] = {})
      /\ pass[i] # "none"
      /\ \A j \in Instances \ {i} : todo'[j] = todo[j] /\ pass'[j] = pass[j]
  BY AdvanceTypes
<1>3. removing'[i] = {} /\ \A j \in Instances \ {i} : removing'[j] = removing[j]
  BY DEF IInv, TypeOK
<1>4. TypeOK'
  <2>1. \A j \in Instances : /\ pass'[j] = "none" <=> todo'[j] = {}
                             /\ removing'[j] # {} => \E x \in todo'[j] : removing'[j] = {x}
                             /\ pass'[j] # "none" \/ queue[j] # {} => j \in alive
                             /\ queue[j] # {} => j \in OnArrival
    <3>1. pass[i] # "none" => i \in alive
      BY DEF IInv, TypeOK
    <3>2. \A j \in Instances \ {i} :
            /\ pass[j] = "none" <=> todo[j] = {}
            /\ removing[j] # {} => \E x \in todo[j] : removing[j] = {x}
            /\ pass[j] # "none" \/ queue[j] # {} => j \in alive
      BY DEF IInv, TypeOK
    <3>3. \A j \in Instances : queue[j] # {} => j \in OnArrival
      BY DEF IInv, TypeOK
    <3> QED
      BY <1>2, <1>3, <3>1, <3>2, <3>3
  <2>2. removing' \in [Instances -> SUBSET Written] /\ inbox' \subseteq Written
    BY DEF IInv, TypeOK
  <2> QED
    BY <1>1, <1>2, <2>1, <2>2 DEF IInv, TypeOK
<1>5. m \in Messages /\ IsFor(m, i) /\ (Addressed(m) => i = AddresseeOf[m] /\ m \in inbox)
  BY AddresseeTyped, WrittenTyped DEF IInv, TypeOK, TodoOwned
<1>6. TodoOwned'
  <2> SUFFICES ASSUME NEW j \in Instances, NEW x \in todo'[j]
               PROVE  IsFor(x, j) /\ (Addressed(x) => x \in inbox')
    BY DEF TodoOwned, IsFor, Addressed
  <2>1. x \in todo[j] /\ (j = i => x # m)
    BY <1>2
  <2>2. x \in Messages /\ IsFor(x, j) /\ (Addressed(x) => x \in inbox /\ j = AddresseeOf[x])
    BY <2>1, AddresseeTyped, WrittenTyped DEF IInv, TypeOK, TodoOwned
  <2> QED
    BY <1>5, <2>1, <2>2
<1>7. RemovingApplied'
  BY <1>3 DEF IInv, RemovingApplied, Addressed
<1>8. AppliesCounted'
  <2> SUFFICES ASSUME NEW x \in Messages, Addressed(x)
               PROVE  /\ applies[x] <= 1 + faults'
                      /\ x \in inbox' /\ x \notin removing'[AddresseeOf[x]] => applies[x] <= faults'
                      /\ x \notin Written => applies[x] = 0
    BY <1>1 DEF AppliesCounted, Addressed
  <2>1. /\ applies[x] <= 1 + faults
        /\ x \in inbox /\ x \notin removing[AddresseeOf[x]] => applies[x] <= faults
        /\ x \notin Written => applies[x] = 0
        /\ applies[x] \in Nat /\ faults \in Nat /\ faults' \in Nat
    BY DEF IInv, AppliesCounted, TypeOK
  <2>2. AddresseeOf[x] \in Instances
    BY AddresseeTyped
  <2>3. CASE x = m
    BY <1>3, <1>5, <2>1, <2>2, <2>3
  <2>4. CASE x # m
    <3>1. x \in removing[AddresseeOf[x]] => x \in removing'[AddresseeOf[x]]
      BY <1>3, <2>2, <2>4
    <3> QED
      BY <2>1, <2>4, <3>1
  <2> QED
    BY <2>3, <2>4
<1>9. OldestFirst'
  <2> SUFFICES ASSUME NEW j \in Instances, NEW y \in todo'[j], NEW x \in inbox',
                      IsFor(x, j), Older(x, y)
               PROVE  x \in todo'[j] \cup seen'[j]
    BY <1>1 DEF OldestFirst, IsFor
  <2>1. y \in todo[j] /\ x \in inbox
    BY <1>2
  <2>2. x \in todo[j] \cup seen[j]
    BY <2>1 DEF IInv, OldestFirst
  <2> QED
    BY <1>2, <2>2
<1> QED
  BY <1>4, <1>6, <1>7, <1>8, <1>9 DEF IInv

LEMMA SeenGrows ==
  ASSUME IInv, NEW i \in Instances, NEW m \in todo[i], AtMessage(i, m)
  PROVE  /\ seen' \in [Instances -> SUBSET Written] /\ m \in seen'[i]
         /\ \A j \in Instances : seen[j] \subseteq seen'[j]
         /\ \A j \in Instances \ {i} : seen'[j] = seen[j]
         /\ seen'[i] = seen[i] \cup {m}
         /\ removing[i] = {} /\ removing = [removing EXCEPT ![i] = {}]
<1>1. seen' = [seen EXCEPT ![i] = @ \cup {m}] /\ removing[i] = {} /\ m \in Written
  BY DEF AtMessage, IInv, TypeOK
<1> QED
  BY <1>1 DEF IInv, TypeOK

LEMMA PassStepIInv ==
  ASSUME IInv, NEW i \in Instances, PassStep(i)
  PROVE  IInv'
<1>1. PICK m \in todo[i] : \/ Discard(i, m) \/ Veto(i, m) \/ RemoveApplied(i, m)
                           \/ \E ok \in BOOLEAN : Apply(i, m, ok)
  BY DEF PassStep
<1>2. m \in Messages /\ applies \in [Messages -> Nat] /\ faults \in Nat /\ faults \in 0..MaxFaults
  BY WrittenTyped, InboxAssumption DEF IInv, TypeOK
<1>3. ASSUME RemoveMessage(m)
      PROVE  /\ inbox' \in {inbox, inbox \ {m}} /\ faults' \in 0..MaxFaults /\ faults <= faults'
             /\ inbox' = inbox => m \notin inbox \/ faults' = faults + 1
  BY <1>2, <1>3, InboxAssumption DEF RemoveMessage
<1>4. CASE Discard(i, m)
  BY <1>2, <1>3, <1>4, SeenGrows, FinishIInv DEF Discard, sent
<1>5. CASE Veto(i, m)
  BY <1>2, <1>5, SeenGrows, FinishIInv DEF Veto, sent
<1>6. CASE RemoveApplied(i, m)
  BY <1>2, <1>3, <1>6, FinishIInv DEF RemoveApplied, sent, IInv, TypeOK, RemovingApplied
<1>7. ASSUME NEW ok \in BOOLEAN, Apply(i, m, ok)
      PROVE  IInv'
  <2>1. applies' \in [Messages -> Nat] /\ \A x \in Messages \ {m} : applies'[x] = applies[x]
    BY <1>2, <1>7 DEF Apply
  <2>2. CASE ~Addressed(m)
    BY <1>2, <1>7, <2>1, <2>2, SeenGrows, FinishIInv DEF Apply, sent
  <2>3. CASE Addressed(m)
    <3>1. /\ removing' = [removing EXCEPT ![i] = {m}] /\ removing[i] = {}
          /\ applies'[m] \in {applies[m], applies[m] + 1}
          /\ UNCHANGED <<inbox, written, malformed, extension, alive, recorded, queue, pass, todo,
                         faults>>
      BY <1>2, <1>7, <2>3, SeenGrows DEF Apply, sent
    <3>2. i = AddresseeOf[m] /\ m \in inbox /\ m \in Written
      BY <1>2, <2>3, AddresseeTyped DEF IInv, TodoOwned, TypeOK
    <3>3. Written' = Written /\ \A x, y : Older(x, y)' <=> Older(x, y)
      BY <3>1 DEF Written, Older
    <3>4. /\ seen' \in [Instances -> SUBSET Written] /\ m \in seen'[i]
          /\ \A j \in Instances : seen[j] \subseteq seen'[j]
      BY <1>7, SeenGrows DEF Apply
    <3>5. removing'[i] = {m} /\ \A j \in Instances \ {i} : removing'[j] = removing[j]
      BY <3>1 DEF IInv, TypeOK
    <3>6. TypeOK'
      <4>1. \A j \in Instances : removing'[j] # {} => \E x \in todo[j] : removing'[j] = {x}
        BY <3>5 DEF IInv, TypeOK
      <4>2. removing' \in [Instances -> SUBSET Written]
        BY <3>1, <3>2 DEF IInv, TypeOK
      <4> QED
        BY <2>1, <3>1, <3>3, <3>4, <4>1, <4>2 DEF IInv, TypeOK
    <3>7. TodoOwned' /\ RemovingApplied'
      BY <2>3, <3>1, <3>4, <3>5 DEF IInv, TodoOwned, RemovingApplied, IsFor, Addressed
    <3>8. AppliesCounted'
      BY <1>2, <2>1, <3>1, <3>2, <3>3, <3>5, AddresseeTyped DEF IInv, AppliesCounted, Addressed
    <3>9. OldestFirst'
      BY <3>1, <3>3, <3>4 DEF IInv, OldestFirst, IsFor
    <3> QED
      BY <3>6, <3>7, <3>8, <3>9 DEF IInv
  <2> QED
    BY <2>2, <2>3
<1> QED
  BY <1>1, <1>4, <1>5, <1>6, <1>7

LEMMA NextIInv == IInv /\ [Next]_vars => IInv'
<1> SUFFICES ASSUME IInv, [Next]_vars PROVE IInv'
  OBVIOUS
<1>1. CASE ExtensionStep
  BY <1>1, ExtensionIInv, SendDocumentIInv, RemoveBroadcastsIInv DEF ExtensionStep
<1>2. ASSUME NEW i \in Instances, RelayStep(i) PROVE IInv'
  BY <1>2, AddedIInv, DeallocIInv, CrashIInv, RecordIInv, CallProcessInboxIInv, PassStepIInv,
     FireIInv, MailboxDidChangeIInv DEF RelayStep, RunBlock
<1>3. CASE UNCHANGED vars
  <2>1. UNCHANGED <<inbox, written, malformed, extension, alive, recorded, queue, pass, todo,
                    removing, seen, applies, faults>> /\ Written' = Written
    BY <1>3 DEF vars, Written
  <2>2. TypeOK'
    BY <2>1 DEF IInv, TypeOK
  <2> QED
    BY <2>1, <2>2, Untouched
<1> QED
  BY <1>1, <1>2, <1>3 DEF Next

THEOREM Invariance == SafeSpec => []IInv
BY InitIInv, NextIInv, PTL DEF SafeSpec

(* The files, the records, the queues and the passes keep their types: a   *)
(* relay that is gone has no block waiting and no pass.                    *)
THEOREM InboxTypeCorrect == SafeSpec => []TypeOK
BY Invariance, PTL DEF IInv

(* processInbox applies an addressed document once, and once more for each *)
(* crash or failed removal, for any instances, documents and faults.       *)
THEOREM AppliedOncePerFault == SafeSpec => []AddressedOncePerFault
<1>1. IInv => AddressedOncePerFault
  BY DEF IInv, AppliesCounted, AddressedOncePerFault
<1> QED
  BY <1>1, Invariance, PTL

----------------------------------------------------------------------------
LEMMA PassStepSeen ==
  ASSUME IInv, NEW i \in Instances, PassStep(i)
  PROVE  \E m \in todo[i] :
           /\ (seen' = seen /\ m \in removing[i]) \/ AtMessage(i, m)
           /\ inbox' \in {inbox, inbox \ {m}}
           /\ m \in seen'[i] /\ m \in Messages /\ IsFor(m, i)
<1>1. PICK m \in todo[i] : \/ Discard(i, m) \/ Veto(i, m) \/ RemoveApplied(i, m)
                           \/ \E ok \in BOOLEAN : Apply(i, m, ok)
  BY DEF PassStep
<1>2. m \in Messages /\ IsFor(m, i)
  BY WrittenTyped DEF IInv, TypeOK, TodoOwned
<1>3. (seen' = seen /\ m \in removing[i]) \/ AtMessage(i, m)
  BY <1>1 DEF Discard, Veto, RemoveApplied, Apply
<1>4. inbox' \in {inbox, inbox \ {m}}
  BY <1>1 DEF Discard, Veto, RemoveApplied, Apply, RemoveMessage
<1>5. m \in seen'[i]
  BY <1>3, SeenGrows DEF IInv, RemovingApplied
<1> QED
  BY <1>2, <1>3, <1>4, <1>5

(* Only a pass marks a document seen.                                      *)
LEMMA NextSeen ==
  ASSUME IInv, [Next]_vars
  PROVE  \/ \E i \in Instances : PassStep(i)
         \/ /\ \A i \in Instances : seen'[i] \subseteq seen[i]
            /\ \A m \in inbox : Addressed(m) => m \in inbox'
<1>1. CASE ExtensionStep
  BY <1>1 DEF ExtensionStep, Start, Heartbeat, PostChangeNotification, Quit, SendDocument,
              RemoveBroadcastsOlderThan, Cleared, relayVars
<1>2. ASSUME NEW i \in Instances, RelayStep(i), ~PassStep(i)
      PROVE  (\A j \in Instances : seen'[j] \subseteq seen[j]) /\ inbox' = inbox
  <2>1. CASE Dealloc(i) \/ Crash(i)
    BY <2>1 DEF Dealloc, Crash, IInv, TypeOK
  <2>2. CASE ~(Dealloc(i) \/ Crash(i))
    BY <1>2, <2>2 DEF RelayStep, AddedToDocument, SweepRecord, WriteRecord, CallProcessInbox,
                      RunBlock, Fire, MailboxDidChange, relayVars
  <2> QED
    BY <2>1, <2>2
<1>3. CASE UNCHANGED vars
  BY <1>3 DEF vars
<1> QED
  BY <1>1, <1>2, <1>3 DEF Next

LEMMA NextDropsNone ==
  ASSUME IInv, [Next]_vars, NEW m \in inbox \ inbox', Addressed(m)
  PROVE  m \in seen'[AddresseeOf[m]]
<1>1. PICK i \in Instances : PassStep(i)
  BY NextSeen
<1>2. PICK x \in todo[i] : /\ inbox' \in {inbox, inbox \ {x}} /\ x \in seen'[i]
                           /\ x \in Messages /\ IsFor(x, i)
  BY <1>1, PassStepSeen
<1>3. x = m
  BY <1>2
<1> QED
  BY <1>2, <1>3, AddresseeTyped

(* The file of an addressed document goes only after its instance has      *)
(* looked at it: neither removeBroadcastsOlderThan: nor another relay's    *)
(* processInbox can take it away.                                          *)
THEOREM NothingDroppedUnhandled == SafeSpec => NeverDroppedUnhandled
<1>1. IInv /\ [Next]_vars =>
        [\A m \in inbox \ inbox' : Addressed(m) => m \in seen'[AddresseeOf[m]]]_vars
  BY NextDropsNone
<1> QED
  BY <1>1, Invariance, PTL DEF SafeSpec, NeverDroppedUnhandled

(* Only a pass under way looks at documents, and at its next one.          *)
LEMMA LooksInPass ==
  ASSUME IInv, [Next]_vars, NEW i \in Instances, NEW m \in Looks(i)
  PROVE  m \in todo[i] /\ AtMessage(i, m)
<1>1. m \in todo[i] /\ m \notin removing[i] /\ i \in alive'
      /\ (m \notin todo'[i] \/ m \in removing'[i])
  BY DEF Looks
<1>2. ~ExtensionStep /\ ~UNCHANGED vars
  BY <1>1 DEF ExtensionStep, Start, Heartbeat, PostChangeNotification, Quit, SendDocument,
              RemoveBroadcastsOlderThan, relayVars, vars
<1>3. PICK j \in Instances : RelayStep(j)
  BY <1>2 DEF Next
<1>4. ~(\/ AddedToDocument(j) \/ Dealloc(j) \/ SweepRecord(j) \/ WriteRecord(j)
        \/ \E b \in Blocks : Fire(j))
  BY <1>1 DEF AddedToDocument, Dealloc, SweepRecord, WriteRecord, Fire, relayVars
<1>5. ~Crash(j)
  BY <1>1 DEF Crash, IInv, TypeOK
<1>6. ~(CallProcessInbox(j) \/ \E b \in Blocks : MailboxDidChange(j, b))
  <2>1. ASSUME NEW caller, BeginPass(j, caller), removing' = removing
        PROVE  FALSE
    BY <1>1, <2>1 DEF BeginPass, IInv, TypeOK
  <2> QED
    BY <2>1 DEF CallProcessInbox, MailboxDidChange
<1>7. PassStep(j)
  BY <1>3, <1>4, <1>5, <1>6 DEF RelayStep, RunBlock
<1>8. PICK y \in todo[j] : \/ Discard(j, y) \/ Veto(j, y) \/ RemoveApplied(j, y)
                           \/ \E ok \in BOOLEAN : Apply(j, y, ok)
  BY <1>7 DEF PassStep
<1>9. /\ \A x \in todo[i] : x \notin todo'[i] => j = i /\ x = y
      /\ \A x \in removing'[i] : x \in removing[i] \/ (j = i /\ x = y)
  BY <1>8 DEF Discard, Veto, RemoveApplied, Apply, Advance, IInv, TypeOK
<1>10. j = i /\ y = m
  BY <1>1, <1>9
<1> QED
  BY <1>1, <1>8, <1>10 DEF Discard, Veto, RemoveApplied, Apply

LEMMA NextInOrder ==
  ASSUME IInv, [Next]_vars, NEW i \in Instances, NEW m \in Looks(i),
         NEW x \in inbox, IsFor(x, i), Older(x, m)
  PROVE  x \in seen[i] \ todo[i]
<1>1. m \in todo[i] /\ AtMessage(i, m)
  BY LooksInPass
<1>2. x \notin todo[i]
  BY <1>1 DEF AtMessage, IsNext
<1> QED
  BY <1>1, <1>2 DEF IInv, OldestFirst

(* Every pass of processInbox looks at documents, new ones and broadcasts  *)
(* it applies again, in the order in which they were written, and none is  *)
(* first looked at after a newer one, over passes that a crash or a veto   *)
(* cut short as well.                                                      *)
THEOREM DocumentsInOrder == SafeSpec => PassesInOrder
<1>1. IInv /\ [Next]_vars =>
        [\A i \in Instances : \A m \in Looks(i), x \in inbox :
           IsFor(x, i) /\ Older(x, m) => x \in seen[i] \ todo[i]]_vars
  BY NextInOrder
<1> QED
  BY <1>1, Invariance, PTL DEF SafeSpec, PassesInOrder

----------------------------------------------------------------------------
(* The queue as DocumentDelivery promises it.                              *)
LEMMA DeliveryLook ==
  ASSUME IInv, NEW i \in Instances, NEW m \in todo[i], AtMessage(i, m), UNCHANGED written
  PROVE  Delivery!Look(i, m) /\ (Delivery!Broadcast(m) <=> ~Addressed(m)) /\ m \in Messages
<1>1. /\ m \in Written /\ m \in Messages /\ IsFor(m, i) /\ (Addressed(m) => m \in inbox)
      /\ IsNext(m, todo[i]) /\ seen' = [seen EXCEPT ![i] = @ \cup {m}]
  BY WrittenTyped DEF AtMessage, IInv, TypeOK, TodoOwned
<1>2. ASSUME NEW x \in inbox, IsFor(x, i), Older(x, m) PROVE x \in seen[i]
  BY <1>1, <1>2 DEF IInv, OldestFirst, IsNext
<1>3. Delivery!Entered(m)
  BY <1>1 DEF Written, Delivery!Entered
<1>4. \A x : (Delivery!IsTo(x, i) <=> IsFor(x, i)) /\ (Delivery!Before(x, m) <=> Older(x, m))
  BY DEF Delivery!IsTo, IsFor, Delivery!Before, Older
<1>5. Delivery!Broadcast(m) <=> ~Addressed(m)
  BY DEF Delivery!Broadcast, Addressed
<1> QED
  BY <1>1, <1>2, <1>3, <1>4, <1>5 DEF Delivery!Look

LEMMA DeliveryPass ==
  ASSUME IInv, NEW i \in Instances, PassStep(i)
  PROVE  [Delivery!Next]_Delivery!vars
<1>1. PICK m \in todo[i] : \/ Discard(i, m) \/ Veto(i, m) \/ RemoveApplied(i, m)
                           \/ \E ok \in BOOLEAN : Apply(i, m, ok)
  BY DEF PassStep
<1>2. UNCHANGED written /\ m \in Messages
  BY <1>1, WrittenTyped DEF Discard, Veto, RemoveApplied, Apply, sent, IInv, TypeOK
<1>3. CASE Discard(i, m)
  <2>1. Delivery!Look(i, m) /\ UNCHANGED applies
    BY <1>2, <1>3, DeliveryLook DEF Discard
  <2>2. \/ inbox' = inbox \ {m} /\ UNCHANGED faults
        \/ inbox' = inbox /\ faults' = faults + 1
    BY <1>3 DEF Discard, RemoveMessage
  <2>3. Delivery!Discard(i, m) \/ Delivery!PassOver(i, m)
    BY <2>1, <2>2 DEF Delivery!Discard, Delivery!PassOver
  <2> QED
    BY <1>2, <2>3 DEF Delivery!Next
<1>4. CASE Veto(i, m)
  <2>1. Delivery!PassOver(i, m)
    BY <1>2, <1>4, DeliveryLook DEF Veto, Delivery!PassOver
  <2> QED
    BY <1>2, <2>1 DEF Delivery!Next
<1>5. CASE RemoveApplied(i, m)
  <2>1. m \in seen[i] /\ Addressed(m) /\ UNCHANGED <<seen, applies>>
    BY <1>5 DEF RemoveApplied, IInv, RemovingApplied
  <2>2. i = AddresseeOf[m]
    BY <1>2, <2>1, AddresseeTyped DEF IInv, TodoOwned
  <2>3. CASE inbox' = inbox \ {m} /\ UNCHANGED faults
    BY <1>2, <2>1, <2>2, <2>3 DEF Delivery!Drop, Delivery!Next
  <2>4. CASE UNCHANGED inbox /\ faults' = faults + 1
    BY <1>2, <2>1, <2>4 DEF Delivery!Fault, Delivery!Next
  <2> QED
    BY <1>5, <2>3, <2>4 DEF RemoveApplied, RemoveMessage
<1>6. ASSUME NEW ok \in BOOLEAN, Apply(i, m, ok)
      PROVE  Delivery!Next
  <2>1. /\ Delivery!Look(i, m) /\ (Delivery!Broadcast(m) <=> ~Addressed(m))
        /\ UNCHANGED <<inbox, faults>>
    BY <1>2, <1>6, DeliveryLook DEF Apply
  <2>2. applies \in [Messages -> Nat]
    BY DEF IInv, TypeOK
  <2>3. CASE ok /\ Addressed(m)
    <3>1. i = AddresseeOf[m] /\ m \in inbox /\ removing[i] = {}
      BY <1>2, <1>6, <2>3, AddresseeTyped DEF IInv, TodoOwned, Apply, AtMessage
    <3>2. applies[m] <= faults
      BY <1>2, <2>3, <3>1 DEF IInv, AppliesCounted
    <3>3. applies' = [applies EXCEPT ![m] = @ + 1]
      BY <1>6, <2>3 DEF Apply
    <3>4. Delivery!TakeEffect(i, m)
      BY <2>1, <2>3, <3>2, <3>3 DEF Delivery!TakeEffect
    <3> QED
      BY <1>2, <3>4 DEF Delivery!Next
  <2>4. CASE ~(ok /\ Addressed(m))
    <3>1. UNCHANGED applies
      BY <1>2, <1>6, <2>2, <2>4 DEF Apply
    <3>2. Delivery!PassOver(i, m)
      BY <2>1, <3>1 DEF Delivery!PassOver
    <3> QED
      BY <1>2, <3>2 DEF Delivery!Next
  <2> QED
    BY <2>3, <2>4
<1> QED
  BY <1>1, <1>3, <1>4, <1>5, <1>6

LEMMA DeliveryExtension ==
  ASSUME IInv, ExtensionStep
  PROVE  [Delivery!Next]_Delivery!vars
<1>1. ASSUME NEW m \in Messages, SendDocument(m)
      PROVE  Delivery!Next
  <2>1. ~Delivery!Entered(m)
    BY <1>1 DEF SendDocument, Written, Delivery!Entered
  <2>2. Delivery!Write(m)
    BY <1>1, <2>1 DEF SendDocument, relayVars, Delivery!Write
  <2> QED
    BY <2>2 DEF Delivery!Next
<1>2. ASSUME NEW k \in 1..Len(written), RemoveBroadcastsOlderThan(k)
      PROVE  Delivery!Next
  <2>1. /\ inbox' \subseteq inbox /\ \A m \in inbox \ inbox' : Delivery!Broadcast(m)
        /\ UNCHANGED <<written, seen, applies, faults>>
    BY <1>2 DEF RemoveBroadcastsOlderThan, Cleared, Addressed, sent, relayVars, Delivery!Broadcast
  <2> QED
    BY <2>1 DEF Delivery!Drop, Delivery!Next
<1>3. CASE Start \/ Heartbeat \/ PostChangeNotification \/ Quit
  BY <1>3 DEF Start, Heartbeat, PostChangeNotification, Quit, sent, relayVars, Delivery!vars
<1> QED
  BY <1>1, <1>2, <1>3 DEF ExtensionStep

LEMMA DeliveryRelay ==
  ASSUME IInv, NEW i \in Instances, RelayStep(i)
  PROVE  [Delivery!Next]_Delivery!vars
<1>1. CASE Dealloc(i) \/ Crash(i)
  <2>1. Delivery!Forget(i)
    BY <1>1 DEF Dealloc, Crash, sent, Delivery!Forget
  <2> QED
    BY <2>1 DEF Delivery!Next
<1>2. CASE \/ AddedToDocument(i) \/ SweepRecord(i) \/ WriteRecord(i) \/ CallProcessInbox(i)
           \/ \E b \in Blocks : RunBlock(i, b)
  BY <1>2 DEF AddedToDocument, SweepRecord, WriteRecord, CallProcessInbox, RunBlock, Fire,
              MailboxDidChange, sent, relayVars, Delivery!vars
<1> QED
  BY <1>1, <1>2, DeliveryPass DEF RelayStep

LEMMA DeliveryNext == IInv /\ [Next]_vars => [Delivery!Next]_Delivery!vars
<1>1. ASSUME UNCHANGED vars PROVE UNCHANGED Delivery!vars
  BY <1>1 DEF vars, Delivery!vars
<1> QED
  BY <1>1, DeliveryExtension, DeliveryRelay DEF Next

(* sendDocument: and processInbox together are an ordered queue that loses *)
(* no addressed document and repeats its effect only after a fault, for    *)
(* any instances, documents and faults.                                    *)
THEOREM InboxDelivers == SafeSpec => DeliveryKept
<1>1. Init => Delivery!Init
  BY DEF Init, Delivery!Init
<1> QED
  BY <1>1, Invariance, DeliveryNext, PTL DEF SafeSpec, DeliveryKept, Delivery!Spec

----------------------------------------------------------------------------
LEMMA NextRecords == TypeOK /\ [Next]_vars => [Records!Next]_<<alive, recorded>>
<1> SUFFICES ASSUME TypeOK, [Next]_vars, ~UNCHANGED <<alive, recorded>>
             PROVE  Records!Next
  OBVIOUS
<1> USE DEF Records!Next
<1>1. ~ExtensionStep
  BY DEF ExtensionStep, Start, Heartbeat, PostChangeNotification, Quit, SendDocument,
         RemoveBroadcastsOlderThan
<1>2. PICK i \in Instances : RelayStep(i)
  BY <1>1 DEF Next, vars
<1>3. CASE AddedToDocument(i)
  BY <1>3 DEF AddedToDocument, Records!Join
<1>4. CASE WriteRecord(i)
  BY <1>4 DEF WriteRecord, Records!Refresh
<1>5. CASE Dealloc(i)
  BY <1>5 DEF Dealloc, Records!Withdraw, Records!LeaveBehind
<1>6. CASE Crash(i)
  BY <1>6 DEF Crash, Records!LeaveBehind
<1>7. CASE SweepRecord(i)
  <2>1. PICK j \in alive : j \in Instances
    BY <1>7 DEF SweepRecord, TypeOK
  <2>2. Records!Sweep(j, i)
    BY <1>7, <2>1 DEF SweepRecord, Records!Sweep
  <2> QED
    BY <2>1, <2>2
<1>8. CASE CallProcessInbox(i) \/ PassStep(i) \/ \E b \in Blocks : RunBlock(i, b)
  BY <1>8 DEF CallProcessInbox, PassStep, Discard, Veto, Apply, RemoveApplied, RunBlock, Fire,
              MailboxDidChange
<1> QED
  BY <1>2, <1>3, <1>4, <1>5, <1>6, <1>7, <1>8 DEF RelayStep

(* The queue uses the records as WorkflowRecords promises them when any    *)
(* write of one may fail: a live relay's record may be missing or swept.   *)
THEOREM InboxKeepsRecords == SafeSpec => Records!Spec
<1>1. Init => Records!Init
  BY DEF Init, Records!Init
<1> QED
  BY <1>1, InboxTypeCorrect, NextRecords, PTL DEF SafeSpec, Records!Spec

----------------------------------------------------------------------------
(* The presence of the same instances.                                     *)
VARIABLES record, presence, client, beating, stale, failing, status

Presence == INSTANCE WorkflowPresence

(* The heartbeat of an instance lists its own record only when it could    *)
(* not write it.                                                           *)
OwnListedOnFailure == \A i \in Instances : i \in stale[i] => i \in failing

PInv == Presence!TypeOK /\ OwnListedOnFailure

LEMMA PresenceInit == Presence!Init => PInv
BY DEF Presence!Init, Presence!TypeOK, PInv, OwnListedOnFailure

LEMMA PresenceWrite ==
  ASSUME PInv, NEW i \in Instances, NEW ok \in BOOLEAN, Presence!WriteRecord(i, ok)
  PROVE  /\ record' \in [Instances -> {"none", "listed", "old", "stale"}]
         /\ ok => record'[i] = "listed"
         /\ Presence!Failing(i, ok) =>
              /\ failing' \subseteq Instances /\ (~ok => i \in failing')
              /\ \A j \in Instances \ {i} : j \in failing => j \in failing'
BY DEF PInv, Presence!TypeOK, Presence!WriteRecord, Presence!Failing

LEMMA PresenceRelay ==
  ASSUME PInv, NEW i \in Instances, Presence!RelayStep(i)
  PROVE  PInv'
<1> USE DEF PInv, Presence!TypeOK, OwnListedOnFailure
<1>1. CASE Presence!AddedToDocument(i)
  <2>1. PICK ok \in BOOLEAN : Presence!WriteRecord(i, ok) /\ Presence!Failing(i, ok)
    BY <1>1 DEF Presence!AddedToDocument
  <2>2. /\ record' \in [Instances -> {"none", "listed", "old", "stale"}]
        /\ failing' \subseteq Instances
        /\ \A j \in Instances \ {i} : j \in failing => j \in failing'
    BY <2>1, PresenceWrite
  <2>3. stale[i] = {}
    BY <1>1 DEF Presence!AddedToDocument
  <2>4. /\ alive' = alive \cup {i} /\ status' \in [Instances -> {"idle", "connected"}]
        /\ UNCHANGED <<presence, client, beating, stale>>
    BY <1>1 DEF Presence!AddedToDocument, Presence!RefreshStatus, Presence!LinkStatus
  <2> QED
    BY <2>2, <2>3, <2>4
<1>2. CASE Presence!ParameterChanged(i)
  <2>1. record' \in [Instances -> {"none", "listed", "old", "stale"}]
    BY <1>2, PresenceWrite DEF Presence!ParameterChanged
  <2> QED
    BY <1>2, <2>1 DEF Presence!ParameterChanged
<1>3. CASE Presence!MailboxDidChange(i)
  BY <1>3 DEF Presence!MailboxDidChange, Presence!RefreshStatus, Presence!LinkStatus
<1>4. CASE Presence!BeginHeartbeat(i)
  <2>1. PICK ok \in BOOLEAN : Presence!WriteRecord(i, ok) /\ Presence!Failing(i, ok)
    BY <1>4 DEF Presence!BeginHeartbeat
  <2>2. /\ record' \in [Instances -> {"none", "listed", "old", "stale"}]
        /\ ok => record'[i] = "listed"
        /\ failing' \subseteq Instances /\ (~ok => i \in failing')
        /\ \A j \in Instances \ {i} : j \in failing => j \in failing'
    BY <2>1, PresenceWrite
  <2>3. /\ Presence!StaleIn(record') \subseteq Instances
        /\ i \in Presence!StaleIn(record') => i \in failing'
        /\ stale' = [stale EXCEPT ![i] = Presence!StaleIn(record')]
    BY <1>4, <2>2 DEF Presence!BeginHeartbeat, Presence!StaleIn
  <2>4. /\ stale' \in [Instances -> SUBSET Instances]
        /\ \A j \in Instances : \/ stale'[j] = stale[j] /\ j # i
                                \/ j = i /\ (i \in stale'[j] => i \in failing')
    BY <2>3
  <2>5. /\ i \in alive /\ beating' = beating \cup {i}
        /\ UNCHANGED <<alive, presence, client, status>>
    BY <1>4 DEF Presence!BeginHeartbeat
  <2> QED
    BY <2>2, <2>4, <2>5
<1>5. ASSUME NEW j \in Instances, NEW ok \in BOOLEAN, Presence!RemoveStaleRecord(i, j, ok)
      PROVE  PInv'
  BY <1>5 DEF Presence!RemoveStaleRecord
<1>6. CASE Presence!EndHeartbeat(i)
  BY <1>6 DEF Presence!EndHeartbeat, Presence!RefreshStatus, Presence!LinkStatus
<1>7. CASE Presence!Dealloc(i) \/ Presence!Crash(i)
  BY <1>7 DEF Presence!Dealloc, Presence!Crash, Presence!Leave
<1>8. CASE Presence!RecordAges(i)
  BY <1>8 DEF Presence!RecordAges
<1> QED
  BY <1>1, <1>2, <1>3, <1>4, <1>5, <1>6, <1>7, <1>8
     DEF Presence!RelayStep, Presence!HeartbeatStep

LEMMA PresenceNext == PInv /\ [Presence!Next]_Presence!vars => PInv'
<1> SUFFICES ASSUME PInv, [Presence!Next]_Presence!vars PROVE PInv'
  OBVIOUS
<1>1. CASE \/ Presence!ClientStart \/ Presence!ClientHeartbeat \/ Presence!ClientStop
           \/ Presence!PresenceAges
  BY <1>1 DEF Presence!ClientStart, Presence!ClientHeartbeat, Presence!ClientStop,
              Presence!PresenceAges, PInv, Presence!TypeOK, OwnListedOnFailure
<1>2. CASE UNCHANGED Presence!vars
  BY <1>2 DEF Presence!vars, PInv, Presence!TypeOK, OwnListedOnFailure
<1> QED
  BY <1>1, <1>2, PresenceRelay DEF Presence!Next

THEOREM PresenceInvariance == Presence!SafeSpec => []PInv
BY PresenceInit, PresenceNext, PTL DEF Presence!SafeSpec

(* Only a live relay is in the middle of a heartbeat, and only there does  *)
(* it remember which records it found stale.                               *)
THEOREM PresenceTypeCorrect == Presence!SafeSpec => []Presence!TypeOK
BY PresenceInvariance, PTL DEF PInv

LEMMA PresenceRecords == PInv /\ [Presence!Next]_Presence!vars =>
                           [Presence!Records!Next]_<<alive, {i \in Instances : record[i] # "none"}>>
<1> DEFINE kept == {i \in Instances : record[i] # "none"}
<1> SUFFICES ASSUME PInv, [Presence!Next]_Presence!vars, ~UNCHANGED <<alive, kept>>
             PROVE  Presence!Records!Next
  OBVIOUS
<1>1. record \in [Instances -> {"none", "listed", "old", "stale"}]
  BY DEF PInv, Presence!TypeOK
<1>2. PICK i \in Instances : Presence!RelayStep(i)
  BY DEF Presence!Next, Presence!vars, Presence!ClientStart, Presence!ClientHeartbeat,
         Presence!ClientStop, Presence!PresenceAges
<1>3. ASSUME NEW ok \in BOOLEAN, Presence!WriteRecord(i, ok)
      PROVE  kept' = IF ok THEN kept \cup {i} ELSE kept
  BY <1>1, <1>3 DEF Presence!WriteRecord
<1>4. ASSUME NEW j \in Instances, record' = [record EXCEPT ![j] = "none"]
      PROVE  kept' = kept \ {j}
  BY <1>1, <1>4
<1> USE DEF Presence!Records!Next
<1>5. CASE Presence!AddedToDocument(i)
  <2>1. PICK ok \in BOOLEAN : Presence!WriteRecord(i, ok) /\ Presence!Failing(i, ok)
    BY <1>5 DEF Presence!AddedToDocument
  <2>2. ~ok => i \in failing'
    BY <2>1, PresenceWrite
  <2> QED
    BY <1>3, <1>5, <2>1, <2>2 DEF Presence!AddedToDocument, Presence!Records!Join
<1>6. CASE Presence!ParameterChanged(i) \/ Presence!BeginHeartbeat(i)
  <2>1. i \in alive /\ UNCHANGED alive /\ \E ok \in BOOLEAN : Presence!WriteRecord(i, ok)
    BY <1>6 DEF Presence!ParameterChanged, Presence!BeginHeartbeat
  <2> QED
    BY <1>3, <2>1 DEF Presence!Records!Refresh
<1>7. ASSUME NEW j \in Instances, NEW ok \in BOOLEAN, Presence!RemoveStaleRecord(i, j, ok)
      PROVE  Presence!Records!Next
  <2>1. i \in alive /\ (j = i => i \in failing)
    BY <1>7 DEF Presence!RemoveStaleRecord, PInv, Presence!TypeOK, OwnListedOnFailure
  <2>2. ok /\ record' = [record EXCEPT ![j] = "none"] /\ UNCHANGED alive
    BY <1>1, <1>7 DEF Presence!RemoveStaleRecord
  <2> QED
    BY <1>4, <2>1, <2>2 DEF Presence!Records!Sweep
<1>8. CASE Presence!Dealloc(i)
  <2>1. /\ i \in alive /\ alive' = alive \ {i}
        /\ record' = [record EXCEPT ![i] = "none"] \/ UNCHANGED record
    BY <1>8 DEF Presence!Dealloc, Presence!Leave
  <2> QED
    BY <1>4, <2>1 DEF Presence!Records!Withdraw, Presence!Records!LeaveBehind
<1>9. CASE Presence!Crash(i)
  BY <1>9 DEF Presence!Crash, Presence!Leave, Presence!Records!LeaveBehind
<1>10. CASE Presence!RecordAges(i)
  <2>1. PICK age \in {"old", "stale"} : record' = [record EXCEPT ![i] = age] /\ record[i] # "none"
    BY <1>10 DEF Presence!RecordAges
  <2>2. kept' = kept
    BY <1>1, <2>1
  <2> QED
    BY <1>10, <2>2 DEF Presence!RecordAges
<1>11. CASE Presence!MailboxDidChange(i) \/ Presence!EndHeartbeat(i)
  BY <1>11 DEF Presence!MailboxDidChange, Presence!EndHeartbeat
<1> QED
  BY <1>2, <1>5, <1>6, <1>7, <1>8, <1>9, <1>10, <1>11
     DEF Presence!RelayStep, Presence!HeartbeatStep

(* The record files, which age, are listed stale and removed by name one   *)
(* after the other, come and go as WorkflowRecords promises the inbox,     *)
(* whichever writes and removals fail: a live instance's record is removed *)
(* by another's sweep, or by a sweep of its own that could not write it.   *)
THEOREM PresenceKeepsRecords == Presence!SafeSpec => Presence!RecordsKept
<1>1. Presence!Init => Presence!Records!Init
  BY DEF Presence!Init, Presence!Records!Init
<1> QED
  BY <1>1, PresenceInvariance, PresenceRecords, PTL
     DEF Presence!SafeSpec, Presence!RecordsKept, Presence!Records!Spec
=============================================================================
