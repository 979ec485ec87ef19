--------------------------- MODULE WorkflowInbox ---------------------------
(***************************************************************************)
(* The document queue between a workflow extension and the instances of    *)
(* one plug-in.  FxGripWorkflowClient, in the extension's process, writes  *)
(* message files; each FxGripWorkflowRelay, on the main thread of its own  *)
(* process, is woken, lists the inbox, applies what is for it and removes  *)
(* what was addressed to it alone.                                         *)
(*                                                                         *)
(* The processes share nothing but files and wake-ups.  A wake-up is a     *)
(* distributed notification, which a process may miss, or an event of the  *)
(* root folder.  Each file operation is one step, so that a crash, another *)
(* process or a nested run loop may come between any two.                  *)
(***************************************************************************)
EXTENDS Naturals, Sequences, Functions

CONSTANTS Instances,   \* plug-in instances; an instance names its session
          Messages,    \* the documents the extension sends
          Everyone,    \* session 0
          AddresseeOf, \* the sessionID of each message
          MayBeMalformed, \* the messages whose XML may fail to parse
          OnArrival,   \* the instances with appliesOnReceive
          MaxFaults    \* bound on relay crashes and failed removals

Sessions == Instances \cup {Everyone}

ASSUME InboxAssumption ==
  /\ Everyone \notin Instances /\ AddresseeOf \in [Messages -> Sessions]
  /\ MayBeMalformed \subseteq Messages /\ OnArrival \subseteq Instances
  /\ MaxFaults \in Nat

VARIABLES
  inbox,     \* the message files of Inbox/<pluginUUID>
  written,   \* the messages ever written, in the order of their file names
  malformed, \* those of them whose XML does not parse
  extension, \* the client: "closed", "open", or owes a notification
  alive,     \* the instances whose relay is in a document
  recorded,  \* the instances with a record in the mailbox
  queue,     \* per instance, the blocks that wait for its main thread
  pass,      \* per instance, whether processInbox runs and who called it
  todo,      \* what is left of the list processInbox walks, oldest first
  removing,  \* the document just applied, its file not yet removed
  seen,      \* messages it vetted, applied or discarded while in the document
  applies,   \* how often each addressed message was applied
  faults     \* crashes and failed removals so far

vars == <<inbox, written, malformed, extension, alive, recorded, queue, pass, todo,
          removing, seen, applies, faults>>
sent == <<written, malformed>>
relayVars == <<pass, todo, removing, seen, applies>>

Blocks == {"change", "coalesced", "first"}
Written == {written[j] : j \in DOMAIN written}

TypeOK ==
  /\ written \in Seq(Messages) /\ IsInjective(written)
  /\ inbox \subseteq Written /\ malformed \subseteq Written \cap MayBeMalformed
  /\ extension \in {"closed", "open", "posting"}
  /\ alive \subseteq Instances /\ recorded \subseteq Instances
  /\ queue \in [Instances -> SUBSET Blocks]
  /\ pass \in [Instances -> {"none", "block", "call"}]
  /\ todo \in [Instances -> SUBSET Written] /\ removing \in [Instances -> SUBSET Written]
  /\ \A i \in Instances : /\ pass[i] = "none" <=> todo[i] = {}
                          /\ removing[i] # {} => \E m \in todo[i] : removing[i] = {m}
                          /\ pass[i] # "none" \/ queue[i] # {} => i \in alive
                          /\ queue[i] # {} => i \in OnArrival
  /\ seen \in [Instances -> SUBSET Written]
  /\ applies \in [Messages -> Nat]
  /\ faults \in 0..MaxFaults

Init ==
  /\ inbox = {} /\ written = <<>> /\ malformed = {}
  /\ extension = "closed"
  /\ alive = {} /\ recorded = {}
  /\ queue = [i \in Instances |-> {}]
  /\ pass = [i \in Instances |-> "none"]
  /\ todo = [i \in Instances |-> {}]
  /\ removing = [i \in Instances |-> {}]
  /\ seen = [i \in Instances |-> {}]
  /\ applies = [m \in Messages |-> 0]
  /\ faults = 0

Addressed(m) == AddresseeOf[m] # Everyone
(* A wrong filter: the session is not compared.                            *)
IsForAnyone(m, i) == m \in Messages /\ i \in Instances
IsFor(m, i) == AddresseeOf[m] \in {i, Everyone}

(* The observers of the relays are told, each on its main queue: by an     *)
(* event of the root folder, which every relay gets, or by a notification. *)
(* The block of a relay that does not apply on arrival looks at the link   *)
(* only (WorkflowPresence), so it is left out here.                        *)
Listening == alive \cap OnArrival
Signal(heard) ==
  queue' = [i \in Instances |-> queue[i] \cup {b \in {"change"} : i \in heard}]
RootUnobserved == UNCHANGED queue  \* wrong: no event source
RootChanges == Signal(Listening)
PostChange == \E heard \in SUBSET Listening : Signal(heard)

----------------------------------------------------------------------------
(* The extension.  start and each heartbeat write the presence file into   *)
(* the root folder, unless the write fails (a heartbeat then changes       *)
(* nothing); start also posts.                                             *)
Start ==
  /\ extension = "closed" /\ extension' = "posting"
  /\ RootChanges \/ UNCHANGED queue
  /\ UNCHANGED <<inbox, sent, alive, recorded, relayVars, faults>>

Heartbeat ==
  /\ extension = "open"
  /\ RootChanges
  /\ UNCHANGED <<inbox, sent, extension, alive, recorded, relayVars, faults>>

(* sendDocument: writes the file, whose name sorts after the earlier ones. *)
(* The file lies below the root folder, which changes only when Inbox      *)
(* itself had to be created.                                               *)
SendDocument(m) ==
  /\ extension = "open" /\ m \notin Written
  /\ inbox' = inbox \cup {m} /\ written' = Append(written, m)
  /\ \E bad \in SUBSET (MayBeMalformed \cap {m}) : malformed' = malformed \cup bad
  /\ extension' = "posting"
  /\ UNCHANGED queue \/ (written = <<>> /\ RootChanges)
  /\ UNCHANGED <<alive, recorded, relayVars, faults>>

PostChangeNotification ==
  /\ extension = "posting" /\ extension' = "open"
  /\ PostChange
  /\ UNCHANGED <<inbox, sent, alive, recorded, relayVars, faults>>

(* The extension is closed, or dies, before or after it has posted.        *)
Quit ==
  /\ extension # "closed" /\ extension' = "closed"
  /\ UNCHANGED <<inbox, sent, alive, recorded, queue, relayVars, faults>>

(* A wrong clearing: addressed messages go with the broadcasts.            *)
ClearedAll(old) == inbox \ old

(* What clearing leaves: only broadcasts go.                               *)
Cleared(old) == {m \in inbox : Addressed(m) \/ m \notin old}

(* removeBroadcastsOlderThan: for a plug-in with an instance record, the   *)
(* broadcasts written before some moment.                                  *)
RemoveBroadcastsOlderThan(k) ==
  /\ extension = "open" /\ recorded # {}
  /\ inbox' = Cleared({written[j] : j \in 1..k})
  /\ UNCHANGED <<sent, extension, alive, recorded, queue, relayVars, faults>>

----------------------------------------------------------------------------
(* extAddedToDocument: the record is written, or the failed write logged,  *)
(* the relay observes changes, and a first look at the inbox waits for the *)
(* main queue.                                                             *)
AddedToDocument(i) ==
  /\ i \notin alive /\ alive' = alive \cup {i}
  /\ recorded' \in {recorded, recorded \cup {i}}
  /\ queue' = [queue EXCEPT ![i] = {b \in {"first"} : i \in OnArrival}]
  /\ UNCHANGED <<inbox, sent, extension, relayVars, faults>>

(* dealloc: the record goes, or its removal fails, and the others are told *)
(* of it; what waited for the relay finds its weak reference nil.          *)
Dealloc(i) ==
  /\ i \in alive /\ pass[i] = "none"
  /\ alive' = alive \ {i} /\ recorded' \in {recorded, recorded \ {i}}
  /\ \E heard \in SUBSET (Listening \ {i}) :
       queue' = [j \in Instances |-> IF j = i THEN {}
                                     ELSE queue[j] \cup {b \in {"change"} : j \in heard}]
  /\ seen' = [seen EXCEPT ![i] = {}]
  /\ UNCHANGED <<inbox, sent, extension, pass, todo, removing, applies, faults>>

(* The plug-in's process dies at any point and leaves its record behind.   *)
Crash(i) ==
  /\ i \in alive /\ faults < MaxFaults
  /\ faults' = faults + 1
  /\ alive' = alive \ {i}
  /\ queue' = [queue EXCEPT ![i] = {}]
  /\ pass' = [pass EXCEPT ![i] = "none"]
  /\ todo' = [todo EXCEPT ![i] = {}]
  /\ removing' = [removing EXCEPT ![i] = {}]
  /\ seen' = [seen EXCEPT ![i] = {}]
  /\ UNCHANGED <<inbox, sent, extension, recorded, applies>>

(* The heartbeat of some relay sweeps a record that looks stale: that of a *)
(* dead relay, or of a live one whose heartbeat was held up or could not   *)
(* write it, its own included ...                                          *)
SweepRecord(i) ==
  /\ i \in recorded /\ alive # {}
  /\ recorded' = recorded \ {i}
  /\ UNCHANGED <<inbox, sent, extension, alive, queue, relayVars, faults>>

(* ... which writes it anew, on its next heartbeat or parameter change.    *)
WriteRecord(i) ==
  /\ i \in alive \ recorded
  /\ recorded' = recorded \cup {i}
  /\ UNCHANGED <<inbox, sent, extension, alive, queue, relayVars, faults>>

----------------------------------------------------------------------------
(* The main queue is drained between passes, and by a run loop nested in a *)
(* pass that a plain call on the main thread began (a vetting handler that *)
(* runs a panel).                                                          *)
MainQueueDrains(i) == i \in alive /\ pass[i] # "block" /\ removing[i] = {}

(* fire: notifications and folder events coalesce into one later block.    *)
Fire(i) ==
  /\ MainQueueDrains(i) /\ "change" \in queue[i]
  /\ queue' = [queue EXCEPT ![i] = (@ \ {"change"}) \cup {"coalesced"}]
  /\ UNCHANGED <<inbox, sent, extension, alive, recorded, relayVars, faults>>

(* The messages for an instance, read from the folder (wrong: from a list  *)
(* kept in memory).                                                        *)
InboxMessagesKept(i) == {m \in Written : IsFor(m, i)}
InboxMessages(i) == {m \in inbox : IsFor(m, i)}

(* processInbox, up to the loop.  A pass under way makes it return at once. *)
BeginPass(i, caller) ==
  IF pass[i] # "none" \/ InboxMessages(i) = {} THEN UNCHANGED <<pass, todo>>
  ELSE /\ pass' = [pass EXCEPT ![i] = caller]
       /\ todo' = [todo EXCEPT ![i] = InboxMessages(i)]

(* The coalesced block, or the first look, runs mailboxDidChange.          *)
MailboxDidChange(i, b) ==
  /\ MainQueueDrains(i)
  /\ b \in queue[i] \cap {"coalesced", "first"}
  /\ queue' = [queue EXCEPT ![i] = @ \ {b}]
  /\ BeginPass(i, "block")
  /\ UNCHANGED <<inbox, sent, extension, alive, recorded, removing, seen,
                 applies, faults>>

(* The plug-in calls processInbox itself.                                  *)
CallProcessInbox(i) ==
  /\ i \in alive /\ pass[i] = "none"
  /\ BeginPass(i, "call")
  /\ UNCHANGED <<inbox, sent, extension, alive, recorded, queue, removing,
                 seen, applies, faults>>

(* The list is sorted by file name (wrong: newest first).                  *)
Older(x, y) == \E j, k \in DOMAIN written : j < k /\ written[j] = x /\ written[k] = y
IsNewest(m, ms) == m \in ms /\ ~\E x \in ms : Older(m, x)
IsNext(m, ms) == m \in ms /\ ~\E x \in ms : Older(x, m)

Advance(i, m) ==
  /\ todo' = [todo EXCEPT ![i] = @ \ {m}]
  /\ pass' = [pass EXCEPT ![i] = IF todo[i] = {m} THEN "none" ELSE @]

(* removeMessage: a file that is gone counts as removed; an error is       *)
(* ignored and the file stays.                                             *)
RemoveMessage(m) ==
  \/ inbox' = inbox \ {m} /\ UNCHANGED faults
  \/ m \in inbox /\ faults < MaxFaults /\ faults' = faults + 1 /\ UNCHANGED inbox

AtMessage(i, m) ==
  /\ IsNext(m, todo[i]) /\ removing[i] = {}
  /\ seen' = [seen EXCEPT ![i] = @ \cup {m}]

(* A document that does not parse is removed, broadcast or not.            *)
Discard(i, m) ==
  /\ AtMessage(i, m) /\ m \in malformed
  /\ RemoveMessage(m)
  /\ Advance(i, m)
  /\ UNCHANGED <<sent, extension, alive, recorded, queue, removing, applies>>

(* documentHandler answers NO: the message stays in place.                 *)
Veto(i, m) ==
  /\ AtMessage(i, m) /\ m \notin malformed
  /\ Advance(i, m)
  /\ UNCHANGED <<inbox, sent, extension, alive, recorded, queue, removing,
                 applies, faults>>

(* applyDocument, with or without an error: an addressed message is to be  *)
(* removed next; a broadcast stays, and is applied anew in every pass, for *)
(* which it is not counted.                                                *)
Apply(i, m, ok) ==
  /\ AtMessage(i, m) /\ m \notin malformed
  /\ applies' = [applies EXCEPT ![m] = IF ok /\ Addressed(m) THEN @ + 1 ELSE @]
  /\ IF Addressed(m)
       THEN removing' = [removing EXCEPT ![i] = {m}] /\ UNCHANGED <<todo, pass>>
       ELSE Advance(i, m) /\ UNCHANGED removing
  /\ UNCHANGED <<inbox, sent, extension, alive, recorded, queue, faults>>

RemoveApplied(i, m) ==
  /\ m \in removing[i] /\ removing' = [removing EXCEPT ![i] = {}]
  /\ RemoveMessage(m)
  /\ Advance(i, m)
  /\ UNCHANGED <<sent, extension, alive, recorded, queue, seen, applies>>

PassStep(i) ==
  \E m \in todo[i] :
    \/ Discard(i, m) \/ Veto(i, m) \/ RemoveApplied(i, m)
    \/ \E ok \in BOOLEAN : Apply(i, m, ok)

RunBlock(i, b) == (b = "change" /\ Fire(i)) \/ MailboxDidChange(i, b)

ExtensionStep ==
  \/ Start \/ Heartbeat \/ PostChangeNotification \/ Quit
  \/ \E m \in Messages : SendDocument(m)
  \/ \E k \in 1..Len(written) : RemoveBroadcastsOlderThan(k)

RelayStep(i) ==
  \/ AddedToDocument(i) \/ Dealloc(i) \/ Crash(i) \/ SweepRecord(i) \/ WriteRecord(i)
  \/ CallProcessInbox(i) \/ PassStep(i) \/ \E b \in Blocks : RunBlock(i, b)

Next == ExtensionStep \/ \E i \in Instances : RelayStep(i)

(* An open extension posts what it owes and its heartbeat timer fires, the *)
(* main queue runs its notification blocks and its mailboxDidChange blocks *)
(* in turn, and a pass goes on; of relays that do not apply on arrival     *)
(* nothing is asked.  Nobody has to send, quit, be added or call           *)
(* processInbox.                                                           *)
Fairness ==
  /\ WF_vars(Heartbeat \/ PostChangeNotification)
  /\ \A i \in OnArrival : /\ WF_vars(PassStep(i)) /\ WF_vars(Fire(i))
                          /\ WF_vars(\E b \in Blocks : MailboxDidChange(i, b))

SafeSpec == Init /\ [][Next]_vars
Spec == SafeSpec /\ Fairness

----------------------------------------------------------------------------
(* The records, as the processes of WorkflowPresence keep them too; any    *)
(* write of one may fail.                                                  *)
Records == INSTANCE WorkflowRecords WITH failing <- Instances

(* What the extension and the plug-in see of all this is an ordered queue  *)
(* in which an addressed document waits until its instance has looked at   *)
(* it, is looked at no more once it has gone, and takes effect at most     *)
(* once more than there were crashes and failed removals.                  *)
Delivery == INSTANCE DocumentDelivery WITH
  Readers <- Instances, Documents <- Messages, ReaderOf <- AddresseeOf,
  waiting <- inbox, looked <- seen, effects <- applies
DeliveryKept == Delivery!Spec

(* Addressed documents are applied once: only a crash between the apply    *)
(* and the removal, or a removal that failed, can have one applied again,  *)
(* and each such fault only once more.  Wake-ups that pile up, nested      *)
(* passes and relays that come and go cannot.                              *)
AddressedOncePerFault ==
  \A m \in Messages : Addressed(m) => applies[m] <= 1 + faults

(* An addressed document never disappears unhandled: its file goes only    *)
(* after its instance has applied, failed to apply or discarded it,        *)
(* whatever the extension clears and whichever relays run.                 *)
NeverDroppedUnhandled ==
  [][\A m \in inbox \ inbox' : Addressed(m) => m \in seen'[AddresseeOf[m]]]_vars

(* What an instance vets, applies or discards in a step.                   *)
Looks(i) == {m \in todo[i] \ removing[i] : i \in alive' /\ m \notin todo'[i] \ removing'[i]}

(* Every pass works in the order written: an instance that looks at a      *)
(* document, for the first time or again, has looked at each older one     *)
(* that waits for it and has not left it for later in the pass.  Over      *)
(* several passes the order is of first looks only: a broadcast stays, and *)
(* the next pass applies it again, after newer documents took effect.      *)
PassesInOrder ==
  [][\A i \in Instances : \A m \in Looks(i), x \in inbox :
       IsFor(x, i) /\ Older(x, m) => x \in seen[i] \ todo[i]]_vars

(* No wake-up is lost for good while the extension stays open: an instance *)
(* that applies on arrival looks at every document for it, though it may   *)
(* miss notifications, coalesce them, or be woken in the middle of a pass  *)
(* (the presence file the extension rewrites wakes it again).              *)
Waits(m, i) == m \in inbox /\ IsFor(m, i) /\ i \in alive /\ m \notin seen[i]
EveryDocumentHandled ==
  \A m \in Messages, i \in OnArrival :
    <>[](extension # "closed") => []<>~Waits(m, i)
===========================================================================
