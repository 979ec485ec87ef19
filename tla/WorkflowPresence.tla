-------------------------- MODULE WorkflowPresence --------------------------
(***************************************************************************)
(* How plug-in instances and the workflow extension know of each other:    *)
(* each relay refreshes an instance record on a heartbeat and sweeps the   *)
(* records nobody refreshes, the extension refreshes a presence file, and  *)
(* each relay keeps a link status.  Every process has its own clock ticks  *)
(* and may stall (a panel, App Nap, sleep), so a live process's record can *)
(* age like a dead one's; the files are read and removed one at a time.    *)
(* Any write or removal of a file may fail: the code logs it and goes on.  *)
(***************************************************************************)
EXTENDS Naturals, FiniteSets

CONSTANT Instances  \* one plug-in process each

VARIABLES
  alive,    \* the instances whose relay is in a document
  record,   \* per instance, the age of its record file, if there is one
  presence, \* the age of the extension's presence file
  client,   \* FxGripWorkflowClient's isStarted
  beating,  \* the instances in the middle of a heartbeat
  stale,    \* the stale records a heartbeat listed and has yet to remove
  failing,  \* those whose write on being added, or last heartbeat, failed
  status    \* the relay's FxGripWorkflowLinkStatus

vars == <<alive, record, presence, client, beating, stale, failing, status>>

(* "listed": within the client's instanceWindow; "old": past it; "stale":  *)
(* not refreshed within four presence windows.                             *)
TypeOK ==
  /\ alive \subseteq Instances
  /\ record \in [Instances -> {"none", "listed", "old", "stale"}]
  /\ presence \in {"none", "recent", "past"}
  /\ client \in {"started", "stopped"}
  /\ beating \subseteq alive
  /\ stale \in [Instances -> SUBSET Instances]
  /\ \A i \in Instances : i \in beating \/ stale[i] = {}
  /\ failing \subseteq Instances
  /\ status \in [Instances -> {"idle", "connected"}]

Init ==
  /\ alive = {} /\ beating = {} /\ failing = {}
  /\ record = [i \in Instances |-> "none"]
  /\ presence = "none" /\ client = "stopped"
  /\ stale = [i \in Instances |-> {}]
  /\ status = [i \in Instances |-> "idle"]

LinkStatus == IF presence = "recent" THEN "connected" ELSE "idle"

(* Wrong versions: a record on disk is not dated anew; the sweep finds     *)
(* nothing; a link once connected stays so.                                *)
WriteRecordUndated(i, ok) ==
  record' = [record EXCEPT ![i] = IF ok /\ @ = "none" THEN "listed" ELSE @]
NothingStale(records) == {j \in DOMAIN records : records[j] = "expired"}
StaysConnected(i) == status' = [status EXCEPT ![i] =
                                  IF LinkStatus = "idle" THEN @ ELSE LinkStatus]

(* writeRecord: the file is dated now; a write that failed leaves it as it *)
(* was, if there is one.                                                   *)
WriteRecord(i, ok) == record' = [record EXCEPT ![i] = IF ok THEN "listed" ELSE @]
Failing(i, ok) == failing' = IF ok THEN failing \ {i} ELSE failing \cup {i}
StaleIn(records) == {j \in DOMAIN records : records[j] = "stale"}
RefreshStatus(i) == status' = [status EXCEPT ![i] = LinkStatus]

----------------------------------------------------------------------------
(* extAddedToDocument: registers the instance and reads the status.        *)
AddedToDocument(i) ==
  /\ i \notin alive /\ alive' = alive \cup {i}
  /\ \E ok \in BOOLEAN : WriteRecord(i, ok) /\ Failing(i, ok)
  /\ RefreshStatus(i)
  /\ UNCHANGED <<presence, client, beating, stale>>

(* extParameterChanged: writes the record with the new timeline range.     *)
ParameterChanged(i) ==
  /\ i \in alive /\ \E ok \in BOOLEAN : WriteRecord(i, ok)
  /\ UNCHANGED <<alive, presence, client, beating, stale, failing, status>>

(* mailboxDidChange refreshes the status, whatever has changed.            *)
MailboxDidChange(i) ==
  /\ i \in alive \ beating /\ RefreshStatus(i)
  /\ UNCHANGED <<alive, record, presence, client, beating, stale, failing>>

(* A wrong order: the records are read before its own is written.          *)
BeginHeartbeatReadsFirst(i) ==
  /\ i \in alive \ beating /\ beating' = beating \cup {i}
  /\ stale' = [stale EXCEPT ![i] = StaleIn(record)]
  /\ \E ok \in BOOLEAN : WriteRecord(i, ok) /\ Failing(i, ok)
  /\ UNCHANGED <<alive, presence, client, status>>

(* The heartbeat writes the record and reads everyone's ...                *)
BeginHeartbeat(i) ==
  /\ i \in alive \ beating /\ beating' = beating \cup {i}
  /\ \E ok \in BOOLEAN : WriteRecord(i, ok) /\ Failing(i, ok)
  /\ stale' = [stale EXCEPT ![i] = StaleIn(record')]
  /\ UNCHANGED <<alive, presence, client, status>>

(* ... removes, by name, the files it found stale, or fails to ...         *)
RemoveStaleRecord(i, j, ok) ==
  /\ j \in stale[i]
  /\ record' = [record EXCEPT ![j] = IF ok THEN "none" ELSE @]
  /\ stale' = [stale EXCEPT ![i] = @ \ {j}]
  /\ UNCHANGED <<alive, presence, client, beating, failing, status>>

(* ... and refreshes the status.                                           *)
EndHeartbeat(i) ==
  /\ i \in beating /\ stale[i] = {} /\ beating' = beating \ {i}
  /\ RefreshStatus(i)
  /\ UNCHANGED <<alive, record, presence, client, stale, failing>>

HeartbeatStep(i) ==
  \/ BeginHeartbeat(i) \/ EndHeartbeat(i)
  \/ \E j \in Instances, ok \in BOOLEAN : RemoveStaleRecord(i, j, ok)

(* dealloc removes the record, or fails to; a crash leaves it.             *)
Leave(i) ==
  /\ i \in alive /\ alive' = alive \ {i} /\ beating' = beating \ {i}
  /\ stale' = [stale EXCEPT ![i] = {}]
  /\ status' = [status EXCEPT ![i] = "idle"]
  /\ UNCHANGED <<presence, client, failing>>
Dealloc(i) ==
  /\ Leave(i) /\ i \notin beating
  /\ record' = [record EXCEPT ![i] = "none"] \/ UNCHANGED record
Crash(i) == Leave(i) /\ UNCHANGED record

----------------------------------------------------------------------------
(* The client writes the presence when it starts and on its heartbeat (a   *)
(* heartbeat whose write fails changes nothing); it takes nothing back     *)
(* when it stops.                                                          *)
ClientStart ==
  /\ client = "stopped" /\ client' = "started"
  /\ presence' = "recent" \/ UNCHANGED presence
  /\ UNCHANGED <<alive, record, beating, stale, failing, status>>
ClientHeartbeat ==
  /\ client = "started" /\ presence' = "recent"
  /\ UNCHANGED <<alive, record, client, beating, stale, failing, status>>
ClientStop ==
  /\ client = "started" /\ client' = "stopped"
  /\ UNCHANGED <<alive, record, presence, beating, stale, failing, status>>

(* Time passes for a file that is not refreshed.                           *)
RecordAges(i) ==
  /\ \/ record[i] = "listed" /\ record' = [record EXCEPT ![i] = "old"]
     \/ record[i] = "old" /\ record' = [record EXCEPT ![i] = "stale"]
  /\ UNCHANGED <<alive, presence, client, beating, stale, failing, status>>
PresenceAges ==
  /\ presence = "recent" /\ presence' = "past"
  /\ UNCHANGED <<alive, record, client, beating, stale, failing, status>>

RelayStep(i) ==
  \/ AddedToDocument(i) \/ ParameterChanged(i) \/ MailboxDidChange(i)
  \/ HeartbeatStep(i) \/ Dealloc(i) \/ Crash(i) \/ RecordAges(i)

Next ==
  \/ ClientStart \/ ClientHeartbeat \/ ClientStop \/ PresenceAges
  \/ \E i \in Instances : RelayStep(i)

(* The heartbeat timer of a live relay fires and its handler goes on, and  *)
(* a file that its owner no longer refreshes grows old.  Of the file       *)
(* system only this is asked, that a removal tried again at heartbeat      *)
(* after heartbeat succeeds in the end.                                    *)
Fairness ==
  /\ \A i \in Instances : /\ WF_vars(HeartbeatStep(i))
                          /\ WF_vars(i \notin alive /\ RecordAges(i))
                          /\ \A j \in Instances : SF_vars(RemoveStaleRecord(i, j, TRUE))
  /\ WF_vars(client = "stopped" /\ PresenceAges)

SafeSpec == Init /\ [][Next]_vars
Spec == SafeSpec /\ Fairness

----------------------------------------------------------------------------
(* The records come and go as WorkflowRecords says, on which the inbox     *)
(* relies: however a sweep that lists stale records races with the writes  *)
(* and departures of their owners before it removes them by name, only a   *)
(* live instance's record appears, and none is removed by its own sweep    *)
(* unless the heartbeat that sweeps has failed to write it.                *)
Records == INSTANCE WorkflowRecords WITH recorded <- {i \in Instances : record[i] # "none"}
RecordsKept == Records!Spec

(* An instance that lives on, with writes that succeed from some heartbeat *)
(* on, is listed by the client again and again: no sweep by others,        *)
(* however it races with the instance's own refreshes, hides it for good.  *)
LiveInstanceListed ==
  \A i \in Instances :
    <>[](i \in alive /\ i \notin failing) => []<>(record[i] = "listed")

(* The record a dead process left behind goes away for good, as long as    *)
(* any other instance lives to sweep it.                                   *)
DeadRecordSwept ==
  \A i, j \in Instances :
    i # j /\ <>[](i \in alive) /\ <>[](j \notin alive) => <>[](record[j] = "none")

(* The link status settles on what the presence file says: an extension    *)
(* that stays away is noticed although nothing announces it, and so is one *)
(* that stays.                                                             *)
StatusSettles ==
  \A i \in Instances : \A s \in {"idle", "connected"} :
    <>[](i \in alive /\ LinkStatus = s) => <>[](status[i] = s)
=============================================================================
