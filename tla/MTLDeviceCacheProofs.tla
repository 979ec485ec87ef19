------------------------ MODULE MTLDeviceCacheProofs ------------------------
(***************************************************************************)
(* Proofs about the device cache and its queues, for any devices, keys,    *)
(* threads, initial queues and bounds.                                     *)
(***************************************************************************)
EXTENDS MTLDeviceCache, FiniteSetTheorems, SequenceTheorems, TLAPS

(* A lookup that has missed is the only one, and what it missed is still   *)
(* not listed: the cache lock is its own until it adds the item.           *)
LookupSettled ==
  \A t \in Threads : thread[t].at = "missed" =>
    /\ \A u \in Threads \ {t} : thread[u].at # "missed"
    /\ \A i \in deviceCaches : ~Matches(i, thread[t].key)

IInv == TypeOK /\ QueueExclusive /\ NoQueueLeak /\ LookupsAddNoDuplicate /\ LookupSettled

NoticeKinds == {"added", "removalRequested", "wasRemoved"}

(* The first items are those of the attached devices.                      *)
LEMMA InitIInv == Init => IInv
<1> SUFFICES ASSUME Init PROVE IInv
  OBVIOUS
<1> DEFINE n == Cardinality(attached)
<1>1. n \in Nat
  BY DeviceCacheAssumption, FS_CardinalityType, FS_Subset DEF Init
<1>2. PICK order \in Bijection(1..n, attached) :
        items = [k \in 1..n |-> [device |-> order[k], format |-> DefaultFormat, plugin |-> NoPlugin]]
  BY DEF Init, DefaultKey
<1>3. order \in [1..n -> Devices]
  BY <1>2 DEF Bijection, Injection, Init
<1>4. /\ items \in Seq(ItemKey) /\ Len(items) = n
      /\ \A k \in 1..n : items[k].format = DefaultFormat /\ items[k].plugin = NoPlugin
  <2>1. \A k \in 1..n : [device |-> order[k], format |-> DefaultFormat, plugin |-> NoPlugin] \in ItemKey
    BY <1>3, DeviceCacheAssumption DEF ItemKey
  <2> HIDE DEF n
  <2> QED
    BY <1>1, <1>2, <2>1
<1>5. TypeOK
  <2>1. thread \in [Threads -> ThreadStates] /\ \A t \in Threads : ~Holding(t)
    BY DEF Init, ThreadStates, Idle, Holding
  <2>2. notices = <<>> /\ libraries = {} /\ inUse = {} /\ deviceCaches = ItemIds
        /\ attached \subseteq Devices /\ startup = "building"
        /\ poolSize \in [ItemIds -> Nat]
    BY DeviceCacheAssumption DEF Init
  <2> QED
    BY <1>4, <2>1, <2>2 DEF TypeOK
<1>6. QueueExclusive /\ NoQueueLeak
  BY DEF Init, QueueExclusive, NoQueueLeak, Holding, Idle
<1>7. LookupsAddNoDuplicate
  BY <1>4 DEF Init, LookupsAddNoDuplicate, ItemIds
<1>8. LookupSettled
  BY DEF Init, LookupSettled, Idle
<1> QED
  BY <1>5, <1>6, <1>7, <1>8 DEF IInv

(* Steps that list no new item and let no further lookup miss.             *)
LEMMA SettledKept ==
  ASSUME IInv, deviceCaches' \subseteq deviceCaches, UNCHANGED items,
         \A u \in Threads : thread'[u].at = "missed" => thread'[u] = thread[u]
  PROVE  LookupSettled'
BY DEF IInv, LookupSettled, Matches

(* A new item comes with its own pool, and nobody has a queue of it yet.   *)
LEMMA ItemAdded ==
  ASSUME TypeOK, NEW key \in ItemKey, AddItem(key)
  PROVE  /\ items' \in Seq(ItemKey) /\ Len(items') = Len(items) + 1
         /\ \A i \in ItemIds : items'[i] = items[i]
         /\ items'[Len(items) + 1] = key
         /\ deviceCaches' = deviceCaches \cup {Len(items) + 1}
         /\ deviceCaches' \subseteq ItemIds'
         /\ poolSize' \in [ItemIds' -> Nat]
         /\ Queues \subseteq Queues' /\ ThreadStates \subseteq ThreadStates'
         /\ UNCHANGED inUse
<1>1. items \in Seq(ItemKey)
  BY DEF TypeOK
<1>2. PICK first \in 0..InitialQueues :
        /\ items' = Append(items, key) /\ poolSize' = Append(poolSize, first)
        /\ deviceCaches' = deviceCaches \cup {Len(items) + 1} /\ UNCHANGED inUse
  BY DEF AddItem, NewItem
<1>3. /\ items' \in Seq(ItemKey) /\ Len(items') = Len(items) + 1
      /\ \A i \in 1..Len(items) : items'[i] = items[i]
      /\ items'[Len(items) + 1] = key
  BY <1>1, <1>2
<1>4. /\ poolSize \in Seq(Nat) /\ Len(poolSize) = Len(items)
  BY <1>1 DEF TypeOK, ItemIds
<1>5. /\ poolSize' \in Seq(Nat) /\ Len(poolSize') = Len(items) + 1
      /\ \A i \in 1..Len(items) : poolSize'[i] = poolSize[i]
  BY <1>1, <1>2, <1>4, DeviceCacheAssumption
<1>6. ItemIds \subseteq ItemIds' /\ deviceCaches' \subseteq ItemIds'
  <2>1. Len(items) \in Nat /\ deviceCaches \subseteq 1..Len(items)
    BY <1>1 DEF TypeOK, ItemIds
  <2>2. 1..Len(items') = (1..Len(items)) \cup {Len(items) + 1}
    BY <1>3, <2>1
  <2> QED
    BY <1>2, <2>1, <2>2 DEF ItemIds
<1>7. poolSize' \in [ItemIds' -> Nat]
  BY <1>3, <1>5 DEF ItemIds
<1>8. Queues \subseteq Queues'
  BY <1>5, <1>6 DEF Queues, ItemIds
<1>9. ThreadStates \subseteq ThreadStates'
  BY <1>6 DEF ThreadStates
<1> QED
  BY <1>2, <1>3, <1>6, <1>7, <1>8, <1>9 DEF ItemIds

(* The new item is listed for a key that no listed item has, unless it is  *)
(* a default item; and it is listed with no queue in use.                  *)
LEMMA ItemAddedKeeps ==
  ASSUME IInv, NEW key \in ItemKey, AddItem(key),
         \/ key.format = DefaultFormat /\ key.plugin = NoPlugin
         \/ \A i \in deviceCaches : ~Matches(i, key),
         CacheLockFree',
         thread' \in [Threads -> ThreadStates'],
         \A t \in Threads : (Holding(t)' <=> Holding(t)) /\ (Holding(t) => Held(t)' = Held(t)),
         attached' \subseteq Devices, notices' \in Seq(NoticeKinds \X Devices),
         UNCHANGED <<startup, libraries>>
  PROVE  IInv'
<1> DEFINE m == Len(items) + 1
<1> USE DEF IInv
<1>1. TypeOK'
  BY ItemAdded DEF TypeOK, NoticeKinds
<1>2. /\ deviceCaches' = deviceCaches \cup {m} /\ UNCHANGED inUse
      /\ \A i \in ItemIds : items'[i] = items[i]
      /\ items'[m] = key
  BY ItemAdded
<1>3. m \notin ItemIds /\ deviceCaches \subseteq ItemIds /\ \A b \in inUse : b[1] \in ItemIds
  <2>1. Len(items) \in Nat
    BY DEF TypeOK
  <2>2. m \notin 1..Len(items)
    BY <2>1
  <2> HIDE DEF m
  <2> QED
    BY <2>2 DEF TypeOK, Queues, ItemIds
<1> HIDE DEF m
<1>4. QueueExclusive'
  BY <1>2 DEF QueueExclusive
<1>5. NoQueueLeak'
  <2> SUFFICES ASSUME NEW b \in inUse, b[1] \in deviceCaches \cup {m}
               PROVE  \E t \in Threads : Holding(t)' /\ Held(t)' = b
    BY <1>2 DEF NoQueueLeak
  <2>1. b[1] \in deviceCaches
    BY <1>3
  <2>2. PICK t \in Threads : Holding(t) /\ Held(t) = b
    BY <2>1 DEF NoQueueLeak
  <2> QED
    BY <2>2
<1>6. LookupsAddNoDuplicate'
  <2> SUFFICES ASSUME NEW i \in deviceCaches \cup {m}, NEW j \in deviceCaches \cup {m},
                      i # j, items'[i] = items'[j]
               PROVE  items'[i].format = DefaultFormat /\ items'[i].plugin = NoPlugin
    BY <1>2 DEF LookupsAddNoDuplicate
  <2>1. CASE i \in deviceCaches /\ j \in deviceCaches
    BY <1>2, <1>3, <2>1 DEF LookupsAddNoDuplicate
  <2>2. ASSUME NEW k \in deviceCaches, items'[k] = items'[m]
        PROVE  key.format = DefaultFormat /\ key.plugin = NoPlugin
    <3>1. items[k] = key
      BY <1>2, <1>3, <2>2
    <3>2. Matches(k, key)
      BY <3>1 DEF Matches
    <3> QED
      BY <3>2
  <2>3. CASE i = m \/ j = m
    BY <1>2, <2>2, <2>3
  <2> QED
    BY <2>1, <2>3
<1>7. LookupSettled'
  BY DEF CacheLockFree, LookupSettled
<1> QED
  BY <1>1, <1>4, <1>5, <1>6, <1>7

(* Steps of Metal and of the notification handlers.                        *)
LEMMA NoticeTyped ==
  ASSUME TypeOK, notices # <<>>
  PROVE  Head(notices) \in NoticeKinds \X Devices /\ Tail(notices) \in Seq(NoticeKinds \X Devices)
BY DEF TypeOK, NoticeKinds

LEMMA NoticeStepKeeps ==
  ASSUME IInv, NoticeStep
  PROVE  IInv'
<1> USE DEF IInv
<1>1. /\ Head(notices) \in NoticeKinds \X Devices
      /\ notices' \in Seq(NoticeKinds \X Devices)
      /\ UNCHANGED <<attached, startup, thread>>
  BY NoticeTyped DEF NoticeStep, Unheard, ObserveDeviceAdded, ObserveDeviceRemovalRequested,
     ObserveDeviceWasRemoved, Deliver
<1>2. CASE ObserveDeviceAdded
  <2> DEFINE key == DefaultKey(Head(notices)[2])
  <2>1. AddItem(key) /\ UNCHANGED libraries /\ CacheLockFree'
    BY <1>1, <1>2 DEF ObserveDeviceAdded, CacheLockFree
  <2>2. key \in ItemKey /\ key.format = DefaultFormat /\ key.plugin = NoPlugin
    BY <1>1, DeviceCacheAssumption DEF DefaultKey, ItemKey
  <2> HIDE DEF key
  <2>3. ThreadStates \subseteq ThreadStates'
    BY <2>1, <2>2, ItemAdded
  <2>4. thread' \in [Threads -> ThreadStates']
    BY <1>1, <2>3 DEF TypeOK
  <2>5. \A t \in Threads : (Holding(t)' <=> Holding(t)) /\ (Holding(t) => Held(t)' = Held(t))
    BY <1>1 DEF Holding, Held
  <2>6. attached' \subseteq Devices
    BY <1>1 DEF TypeOK
  <2> QED
    BY <1>1, <2>1, <2>2, <2>4, <2>5, <2>6, ItemAddedKeeps
<1>3. CASE Unheard \/ ObserveDeviceRemovalRequested \/ ObserveDeviceWasRemoved
  <2>1. /\ deviceCaches' \subseteq deviceCaches /\ libraries' \subseteq libraries
        /\ UNCHANGED <<items, poolSize, inUse>>
    BY <1>3 DEF Unheard, ObserveDeviceRemovalRequested, ObserveDeviceWasRemoved, pools
  <2>2. /\ ItemIds' = ItemIds /\ Queues' = Queues /\ ThreadStates' = ThreadStates
        /\ \A t \in Threads : (Holding(t)' <=> Holding(t)) /\ Held(t)' = Held(t)
    BY <1>1, <2>1 DEF ItemIds, Queues, ThreadStates, Holding, Held
  <2>3. TypeOK'
    BY <1>1, <2>1, <2>2 DEF TypeOK, NoticeKinds
  <2>4. QueueExclusive' /\ NoQueueLeak'
    BY <2>1, <2>2 DEF QueueExclusive, NoQueueLeak
  <2>5. LookupsAddNoDuplicate'
    BY <2>1 DEF LookupsAddNoDuplicate
  <2>6. LookupSettled'
    BY <1>1, <2>1, SettledKept
  <2> QED
    BY <2>3, <2>4, <2>5, <2>6
<1> QED
  BY <1>2, <1>3 DEF NoticeStep

LEMMA DeviceStepKeeps ==
  ASSUME IInv, Subscribe \/ \E d \in Devices : DeviceStep(d)
  PROVE  IInv'
<1> USE DEF IInv
<1>1. /\ attached' \subseteq Devices /\ startup' \in {"building", "ready"}
      /\ libraries' \subseteq Devices
      /\ UNCHANGED <<deviceCaches, items, poolSize, inUse, thread>>
  BY DEF Subscribe, DeviceStep, PlugIn, RequestRemoval, Detach, MetalStep,
         LibraryCacheForDevice, TypeOK, pools
<1>2. notices' \in Seq(NoticeKinds \X Devices)
  <2>1. notices \in Seq(NoticeKinds \X Devices)
    BY DEF TypeOK, NoticeKinds
  <2>2. \A kind \in NoticeKinds, d \in Devices : Append(notices, <<kind, d>>) \in Seq(NoticeKinds \X Devices)
    BY <2>1
  <2>3. UNCHANGED notices \/ \E kind \in NoticeKinds, d \in Devices : notices' = Append(notices, <<kind, d>>)
    BY DEF Subscribe, DeviceStep, PlugIn, RequestRemoval, Detach, MetalStep,
           LibraryCacheForDevice, NoticeKinds
  <2> QED
    BY <2>1, <2>2, <2>3
<1>3. /\ ItemIds' = ItemIds /\ Queues' = Queues /\ ThreadStates' = ThreadStates
      /\ \A t \in Threads : (Holding(t)' <=> Holding(t)) /\ Held(t)' = Held(t)
  BY <1>1 DEF ItemIds, Queues, ThreadStates, Holding, Held
<1>4. TypeOK'
  BY <1>1, <1>2, <1>3 DEF TypeOK, NoticeKinds
<1>5. QueueExclusive' /\ NoQueueLeak' /\ LookupsAddNoDuplicate'
  BY <1>1, <1>3 DEF QueueExclusive, NoQueueLeak, LookupsAddNoDuplicate
<1>6. LookupSettled'
  BY <1>1, SettledKept
<1> QED
  BY <1>4, <1>5, <1>6

(* Steps of a render thread.                                               *)
LEMMA FindDeviceKeeps ==
  ASSUME IInv, NEW t \in Threads, NEW key \in ItemKey, FindDevice(t, key)
  PROVE  IInv'
<1> USE DEF IInv
<1>1. /\ ~Holding(t)
      /\ UNCHANGED <<attached, notices, startup, deviceCaches, libraries, items, poolSize, inUse>>
  BY DEF FindDevice, Holding, Idle, pools
<1>2. /\ thread'[t].at \in {"found", "missed"} /\ thread'[t] \in ThreadStates
      /\ \A u \in Threads \ {t} : thread'[u] = thread[u]
      /\ thread' \in [Threads -> ThreadStates]
  <2>1. PICK new : /\ thread' = [thread EXCEPT ![t] = new]
                   /\ new \in {Missed(key)} \cup {Found(i) : i \in deviceCaches}
    BY DEF FindDevice
  <2>2. new \in ThreadStates /\ new.at \in {"found", "missed"}
    BY <2>1 DEF TypeOK, ThreadStates, Found, Missed
  <2> QED
    BY <2>1, <2>2 DEF TypeOK
<1>3. \A u \in Threads : (Holding(u)' <=> Holding(u)) /\ (Holding(u) => Held(u)' = Held(u))
  BY <1>1, <1>2 DEF Holding, Held
<1>4. ItemIds' = ItemIds /\ Queues' = Queues /\ ThreadStates' = ThreadStates
  BY <1>1 DEF ItemIds, Queues, ThreadStates
<1>5. TypeOK'
  BY <1>1, <1>2, <1>3, <1>4 DEF TypeOK
<1>6. QueueExclusive' /\ LookupsAddNoDuplicate'
  BY <1>1, <1>3 DEF QueueExclusive, LookupsAddNoDuplicate
<1>7. NoQueueLeak'
  BY <1>1, <1>3 DEF NoQueueLeak
<1>8. LookupSettled'
  <2>1. CASE \E i \in deviceCaches : thread' = [thread EXCEPT ![t] = Found(i)]
    <3>1. \A u \in Threads : thread'[u].at = "missed" => thread'[u] = thread[u]
      BY <2>1 DEF TypeOK, Found
    <3> QED
      BY <1>1, <3>1, SettledKept
  <2>2. CASE /\ thread' = [thread EXCEPT ![t] = Missed(key)]
             /\ {i \in deviceCaches : Matches(i, key)} = {}
    <3>1. thread'[t].key = key /\ \A u \in Threads \ {t} : thread'[u].at # "missed"
      BY <1>2, <2>2 DEF TypeOK, Missed, FindDevice, CacheLockFree
    <3>2. \A i \in deviceCaches' : ~Matches(i, key)'
      BY <1>1, <2>2 DEF Matches
    <3> QED
      BY <3>1, <3>2 DEF LookupSettled, Matches
  <2> QED
    BY <2>1, <2>2 DEF FindDevice
<1> QED
  BY <1>5, <1>6, <1>7, <1>8

(* The lookup that missed holds the lock: its key is still not listed.     *)
LEMMA AddMissedDeviceKeeps ==
  ASSUME IInv, NEW t \in Threads, AddMissedDevice(t)
  PROVE  IInv'
<1> USE DEF IInv
<1> DEFINE key == thread[t].key
<1>1. /\ ~Holding(t) /\ key \in ItemKey
      /\ \A u \in Threads \ {t} : thread[u].at # "missed"
      /\ \A i \in deviceCaches : ~Matches(i, key)
      /\ UNCHANGED <<attached, notices, startup, libraries>>
  BY DEF AddMissedDevice, LookupSettled, TypeOK, ThreadStates, Idle, Holding
<1>2. CASE AddItem(key) /\ thread' = [thread EXCEPT ![t] = Found(Len(items) + 1)]
  <2>1. Found(Len(items) + 1) \in ThreadStates' /\ ThreadStates \subseteq ThreadStates'
    BY <1>1, <1>2, ItemAdded DEF ThreadStates, Found
  <2>2. thread' \in [Threads -> ThreadStates']
    BY <1>2, <2>1 DEF TypeOK
  <2>3. attached' \subseteq Devices /\ notices' \in Seq(NoticeKinds \X Devices)
    BY <1>1 DEF TypeOK, NoticeKinds
  <2>4. \A u \in Threads : (Holding(u)' <=> Holding(u)) /\ (Holding(u) => Held(u)' = Held(u))
    BY <1>1, <1>2 DEF TypeOK, Holding, Held, Found
  <2>5. CacheLockFree'
    BY <1>1, <1>2 DEF TypeOK, CacheLockFree, Found
  <2> HIDE DEF key
  <2> QED
    BY <1>1, <1>2, <2>2, <2>3, <2>4, <2>5, ItemAddedKeeps
<1>3. CASE thread' = [thread EXCEPT ![t] = Idle] /\ UNCHANGED <<deviceCaches, items, pools>>
  <2>1. /\ ItemIds' = ItemIds /\ Queues' = Queues /\ ThreadStates' = ThreadStates
        /\ UNCHANGED <<poolSize, inUse>>
    BY <1>3 DEF ItemIds, Queues, ThreadStates, pools
  <2>2. /\ thread' \in [Threads -> ThreadStates]
        /\ \A u \in Threads : thread'[u].at = "missed" => thread'[u] = thread[u]
    BY <1>3 DEF TypeOK, ThreadStates, Idle
  <2>3. \A u \in Threads : (Holding(u)' <=> Holding(u)) /\ (Holding(u) => Held(u)' = Held(u))
    BY <1>1, <1>3 DEF TypeOK, Holding, Held, Idle
  <2>4. TypeOK'
    BY <1>1, <1>3, <2>1, <2>2, <2>3 DEF TypeOK
  <2>5. QueueExclusive' /\ LookupsAddNoDuplicate'
    BY <1>3, <2>1, <2>3 DEF QueueExclusive, LookupsAddNoDuplicate
  <2>6. NoQueueLeak'
    BY <1>3, <2>1, <2>3 DEF NoQueueLeak
  <2>7. LookupSettled'
    BY <1>3, <2>2, SettledKept
  <2> QED
    BY <2>4, <2>5, <2>6, <2>7
<1> QED
  BY <1>2, <1>3 DEF AddMissedDevice

(* The queue handed out was free, or is new: no thread holds it.           *)
LEMMA CheckOutKeeps ==
  ASSUME IInv, NEW t \in Threads, NEW kind \in {"raw", "scoped"}, CheckOut(t, kind)
  PROVE  IInv'
<1> USE DEF IInv
<1> DEFINE i == thread[t].item
<1>1. /\ i \in ItemIds /\ poolSize[i] \in Nat /\ ~Holding(t)
      /\ UNCHANGED <<attached, notices, startup, deviceCaches, libraries, items>>
  BY DEF CheckOut, TypeOK, ThreadStates, Idle, Holding
<1>2. PICK q \in 1..(poolSize[i] + 1) :
        /\ IsNextQueue(i, q)
        /\ poolSize' = [poolSize EXCEPT ![i] = IF q > poolSize[i] THEN q ELSE poolSize[i]]
        /\ inUse' = inUse \cup {<<i, q>>}
        /\ thread' = [thread EXCEPT ![t] = Holds(i, q, kind)]
  BY DEF CheckOut
<1> HIDE DEF i
<1>3. <<i, q>> \notin inUse
  <2>1. CASE FreeQueues(i) # {}
    BY <1>2, <2>1 DEF IsNextQueue, FreeQueues
  <2>2. CASE FreeQueues(i) = {}
    <3>1. q = poolSize[i] + 1
      BY <1>2, <2>2 DEF IsNextQueue
    <3>2. <<i, q>> \notin Queues
      BY <1>1, <3>1 DEF Queues
    <3> QED
      BY <3>2 DEF TypeOK
  <2> QED
    BY <2>1, <2>2
<1>4. /\ poolSize' \in [ItemIds -> Nat] /\ \A k \in ItemIds : poolSize[k] <= poolSize'[k]
      /\ q \in 1..poolSize'[i] /\ q \in Nat
  BY <1>1, <1>2 DEF TypeOK
<1>5. ItemIds' = ItemIds /\ ThreadStates' = ThreadStates
  BY <1>1 DEF ItemIds, ThreadStates
<1>6. Queues \subseteq Queues' /\ <<i, q>> \in Queues'
  <2>1. \A b \in Queues : b[2] \in 1..poolSize'[b[1]]
    <3> SUFFICES ASSUME NEW b \in Queues PROVE b[2] \in 1..poolSize'[b[1]]
      OBVIOUS
    <3>1. b[1] \in ItemIds /\ b[2] \in 1..poolSize[b[1]]
      BY DEF Queues
    <3>2. poolSize[b[1]] \in Nat /\ poolSize'[b[1]] \in Nat
      BY <1>4, <3>1 DEF TypeOK
    <3>3. poolSize[b[1]] <= poolSize'[b[1]]
      BY <1>4, <3>1
    <3> QED
      BY <3>1, <3>2, <3>3
  <2>2. <<i, q>> \in Queues'
    BY <1>1, <1>4, <1>5 DEF Queues
  <2> QED
    BY <1>5, <2>1, <2>2 DEF Queues
<1>7. /\ Holding(t)' /\ Held(t)' = <<i, q>>
      /\ \A u \in Threads \ {t} : (Holding(u)' <=> Holding(u)) /\ Held(u)' = Held(u)
  BY <1>2 DEF TypeOK, Holding, Held, Holds
<1>8. thread' \in [Threads -> ThreadStates]
  BY <1>1, <1>2, <1>4 DEF TypeOK, ThreadStates, Holds
<1>9. TypeOK'
  BY <1>1, <1>2, <1>4, <1>5, <1>6, <1>7, <1>8 DEF TypeOK
<1>10. QueueExclusive'
  BY <1>2, <1>3, <1>7 DEF QueueExclusive
<1>11. NoQueueLeak' /\ LookupsAddNoDuplicate'
  BY <1>1, <1>2, <1>7 DEF NoQueueLeak, LookupsAddNoDuplicate
<1>12. LookupSettled'
  <2>1. \A u \in Threads : thread'[u].at = "missed" => thread'[u] = thread[u]
    BY <1>2 DEF TypeOK, Holds
  <2> QED
    BY <1>1, <2>1, SettledKept
<1> QED
  BY <1>9, <1>10, <1>11, <1>12

(* A queue handed back was held by this thread only.                       *)
LEMMA HandBackKeeps ==
  ASSUME IInv, NEW t \in Threads, GiveUp(t) \/ DeallocScoped(t) \/ ReturnToCache(t)
  PROVE  IInv'
<1> USE DEF IInv
<1>1. /\ thread' = [thread EXCEPT ![t] = Idle]
      /\ UNCHANGED <<attached, notices, startup, deviceCaches, libraries, items, poolSize>>
  BY DEF GiveUp, DeallocScoped, ReturnToCache, HandBack, MarkFree, pools
<1>2. /\ ItemIds' = ItemIds /\ Queues' = Queues /\ ThreadStates' = ThreadStates
  BY <1>1 DEF ItemIds, Queues, ThreadStates
<1>3. /\ thread' \in [Threads -> ThreadStates] /\ ~Holding(t)'
      /\ \A u \in Threads \ {t} : (Holding(u)' <=> Holding(u)) /\ Held(u)' = Held(u)
  BY <1>1 DEF TypeOK, ThreadStates, Holding, Held, Idle
<1>4. \/ UNCHANGED inUse /\ (Holding(t) => thread[t].item \notin deviceCaches)
      \/ Holding(t) /\ inUse' = inUse \ {Held(t)}
  BY DEF GiveUp, DeallocScoped, ReturnToCache, MarkFree, Holding, pools
<1>5. TypeOK'
  BY <1>1, <1>2, <1>3, <1>4 DEF TypeOK
<1>6. QueueExclusive'
  BY <1>3, <1>4 DEF QueueExclusive
<1>7. NoQueueLeak'
  <2> SUFFICES ASSUME NEW b \in inUse', b[1] \in deviceCaches
               PROVE  \E u \in Threads : Holding(u)' /\ Held(u)' = b
    BY <1>1 DEF NoQueueLeak
  <2>1. PICK u \in Threads : Holding(u) /\ Held(u) = b
    BY <1>4 DEF NoQueueLeak
  <2>2. u # t
    BY <1>4, <2>1 DEF Held
  <2> QED
    BY <1>3, <2>1, <2>2
<1>8. LookupsAddNoDuplicate'
  BY <1>1 DEF LookupsAddNoDuplicate
<1>9. LookupSettled'
  <2>1. \A u \in Threads : thread'[u].at = "missed" => thread'[u] = thread[u]
    BY <1>1 DEF TypeOK, Idle
  <2> QED
    BY <1>1, <2>1, SettledKept
<1> QED
  BY <1>5, <1>6, <1>7, <1>8, <1>9

LEMMA StutterKeeps ==
  ASSUME IInv, UNCHANGED vars
  PROVE  IInv'
BY DEF IInv, vars, pools, TypeOK, QueueExclusive, NoQueueLeak, LookupsAddNoDuplicate,
       LookupSettled, Matches, ItemIds, Queues, ThreadStates, Holding, Held

LEMMA Invariance == Spec => []IInv
<1>1. IInv /\ [Next]_vars => IInv'
  BY NoticeStepKeeps, DeviceStepKeeps, FindDeviceKeeps, AddMissedDeviceKeeps,
     CheckOutKeeps, HandBackKeeps, StutterKeeps DEF Next, ThreadStep
<1> QED
  BY InitIInv, <1>1, PTL DEF Spec

(* The items, their pools and what the threads hold keep their types: no   *)
(* thread holds a queue that no pool has.                                  *)
THEOREM DeviceCacheTypeCorrect == Spec => []TypeOK
BY Invariance, PTL DEF IInv

(* No two threads are given one command queue, whatever comes and goes     *)
(* (getNextFreeCommandQueue and both ways back).                           *)
THEOREM QueuesExclusive == Spec => []QueueExclusive
BY Invariance, PTL DEF IInv

(* The pool of a listed item loses no queue.                               *)
THEOREM QueuesNotLeaked == Spec => []NoQueueLeak
BY Invariance, PTL DEF IInv

(* Lookups never list a second item for a key.                             *)
THEOREM LookupsShareItems == Spec => []LookupsAddNoDuplicate
BY Invariance, PTL DEF IInv

(***************************************************************************)
(* The refinement of QueueLeases, by groups of steps.                      *)
(***************************************************************************)
(* A lease is a queue in a thread's hands.                                 *)
LEMMA LeasedIsHeld ==
  ASSUME TypeOK, NEW i \in ItemIds, NEW q
  PROVE  Leases!Leased(i, q) <=> \E t \in Threads : Holding(t) /\ Held(t) = <<i, q>>
<1>1. items \in Seq(ItemKey)
  BY DEF TypeOK
<1>2. i # 0
  BY <1>1 DEF ItemIds
<1> QED
  BY <1>2 DEF Leases!Leased, LeaseOf

(* Of a listed item the free queues are those nobody has on lease.         *)
LEMMA FreeIsUnleased ==
  ASSUME IInv, NEW i \in deviceCaches
  PROVE  FreeQueues(i) = Leases!Unleased(i)
<1> USE DEF IInv
<1>1. i \in ItemIds
  BY DEF TypeOK
<1>2. ASSUME NEW q \in 1..poolSize[i]
      PROVE  <<i, q>> \in inUse <=> Leases!Leased(i, q)
  <2>1. CASE <<i, q>> \in inUse
    BY <1>1, <2>1, LeasedIsHeld DEF NoQueueLeak
  <2>2. CASE <<i, q>> \notin inUse
    BY <1>1, <2>2, LeasedIsHeld DEF QueueExclusive
  <2> QED
    BY <2>1, <2>2
<1> QED
  BY <1>2 DEF FreeQueues, Leases!Unleased

LEMMA LeasesInit == Init => Leases!Init
<1> SUFFICES ASSUME Init PROVE Leases!Init
  OBVIOUS
<1>1. TypeOK
  BY InitIInv DEF IInv
<1>2. /\ poolSize \in [1..Len(items) -> 0..InitialQueues] /\ deviceCaches = 1..Len(items)
      /\ Len(items) \in Nat
  <2>1. items \in Seq(ItemKey)
    BY <1>1 DEF TypeOK
  <2>2. Len(items) \in Nat
    BY <2>1
  <2>3. poolSize \in [ItemIds -> 0..InitialQueues] /\ deviceCaches = ItemIds
    BY DEF Init
  <2> QED
    BY <2>2, <2>3 DEF ItemIds
<1>3. poolSize \in Seq(0..InitialQueues) /\ deviceCaches = DOMAIN poolSize
  BY <1>2, SeqDef
<1>4. LeaseOf = [t \in Threads |-> Leases!NoLease]
  BY DEF Init, LeaseOf, Holding, Idle, Leases!NoLease
<1> QED
  BY <1>3, <1>4 DEF Leases!Init

(* An item that is added opens its pool.                                   *)
LEMMA AddItemOpens ==
  ASSUME TypeOK, NEW key, AddItem(key), UNCHANGED LeaseOf
  PROVE  Leases!Open
<1>1. items \in Seq(ItemKey) /\ poolSize \in [1..Len(items) -> Nat]
  BY DEF TypeOK, ItemIds
<1>2. Len(poolSize) = Len(items)
  BY <1>1
<1> QED
  BY <1>2 DEF AddItem, NewItem, Leases!Open

(* The queue a thread gets is a lease nobody has.                          *)
LEMMA CheckOutTakes ==
  ASSUME IInv, NEW t \in Threads, NEW kind \in {"raw", "scoped"}, CheckOut(t, kind)
  PROVE  Leases!Next
<1> USE DEF IInv
<1> DEFINE i == thread[t].item
<1>1. /\ i \in ItemIds /\ poolSize[i] \in Nat /\ ~Holding(t) /\ UNCHANGED deviceCaches
  BY DEF CheckOut, TypeOK, ThreadStates, Idle, Holding
<1>2. PICK q \in 1..(poolSize[i] + 1) :
        /\ IsNextQueue(i, q)
        /\ poolSize' = [poolSize EXCEPT ![i] = IF q > poolSize[i] THEN q ELSE poolSize[i]]
        /\ thread' = [thread EXCEPT ![t] = Holds(i, q, kind)]
  BY DEF CheckOut
<1> HIDE DEF i
<1>3. <<i, q>> \notin inUse
  <2>1. CASE FreeQueues(i) # {}
    BY <1>2, <2>1 DEF IsNextQueue, FreeQueues
  <2>2. CASE FreeQueues(i) = {}
    <3>1. q = poolSize[i] + 1
      BY <1>2, <2>2 DEF IsNextQueue
    <3>2. <<i, q>> \notin Queues
      BY <1>1, <3>1 DEF Queues
    <3> QED
      BY <3>2 DEF TypeOK
  <2> QED
    BY <2>1, <2>2
<1>4. ~Leases!Leased(i, q)
  BY <1>1, <1>3, LeasedIsHeld DEF QueueExclusive
<1>5. i \in deviceCaches => q \in Leases!Unleased(i) \/ Leases!Unleased(i) = {}
  BY <1>2, FreeIsUnleased DEF IsNextQueue
<1>6. LeaseOf' = [LeaseOf EXCEPT ![t] = <<i, q>>]
  BY <1>2 DEF LeaseOf, Holding, Held, Holds, TypeOK
<1>7. LeaseOf[t] = Leases!NoLease
  BY <1>1 DEF LeaseOf, Leases!NoLease
<1>8. Leases!Take(t, i, q)
  BY <1>1, <1>2, <1>4, <1>5, <1>6, <1>7 DEF Leases!Take
<1>9. i \in DOMAIN poolSize
  BY <1>1 DEF TypeOK
<1> QED
  BY <1>2, <1>8, <1>9 DEF Leases!Next

LEMMA HandBackGives ==
  ASSUME IInv, NEW t \in Threads, GiveUp(t) \/ DeallocScoped(t) \/ ReturnToCache(t)
  PROVE  Leases!Next
<1>1. thread' = [thread EXCEPT ![t] = Idle] /\ UNCHANGED <<deviceCaches, poolSize>>
  BY DEF GiveUp, DeallocScoped, ReturnToCache, HandBack, MarkFree, pools
<1>2. LeaseOf' = [LeaseOf EXCEPT ![t] = <<0, 0>>]
  BY <1>1 DEF LeaseOf, Holding, Held, Idle, IInv, TypeOK
<1> QED
  BY <1>1, <1>2 DEF Leases!Next, Leases!Give, Leases!NoLease

LEMMA FindDeviceOpens ==
  ASSUME IInv, NEW t \in Threads, AddMissedDevice(t) \/ \E key \in ItemKey : FindDevice(t, key)
  PROVE  [Leases!Next]_Leases!vars
<1>1. ~Holding(t) /\ \E s : thread' = [thread EXCEPT ![t] = s] /\ s.at \in {"idle", "missed", "found"}
  BY DEF FindDevice, AddMissedDevice, Holding, Idle, Missed, Found
<1>2. UNCHANGED LeaseOf
  BY <1>1 DEF LeaseOf, Holding, Held, IInv, TypeOK
<1>3. CASE UNCHANGED <<poolSize, deviceCaches>>
  BY <1>2, <1>3 DEF Leases!vars
<1>4. CASE AddItem(thread[t].key)
  BY <1>2, <1>4, AddItemOpens DEF IInv, Leases!Next
<1> QED
  BY <1>3, <1>4 DEF FindDevice, AddMissedDevice, pools

LEMMA NoticeOpensOrCloses ==
  ASSUME IInv, NoticeStep \/ Subscribe \/ \E d \in Devices : DeviceStep(d)
  PROVE  [Leases!Next]_Leases!vars
<1>1. UNCHANGED LeaseOf
  BY DEF NoticeStep, Unheard, ObserveDeviceAdded, ObserveDeviceRemovalRequested,
     ObserveDeviceWasRemoved, Deliver, Subscribe, DeviceStep, PlugIn, RequestRemoval, Detach,
     MetalStep, LibraryCacheForDevice, LeaseOf, Holding, Held
<1>2. CASE ObserveDeviceAdded
  BY <1>1, <1>2, AddItemOpens DEF IInv, ObserveDeviceAdded, Leases!Next
<1>3. CASE ObserveDeviceRemovalRequested
  <2>1. deviceCaches' \subseteq deviceCaches /\ UNCHANGED poolSize
    BY <1>3 DEF ObserveDeviceRemovalRequested, pools
  <2> QED
    BY <1>1, <2>1 DEF Leases!Next, Leases!Close
<1>4. CASE UNCHANGED <<deviceCaches, poolSize>>
  BY <1>1, <1>4 DEF Leases!vars
<1> QED
  BY <1>2, <1>3, <1>4 DEF NoticeStep, Unheard, ObserveDeviceWasRemoved, Subscribe, DeviceStep,
     PlugIn, RequestRemoval, Detach, MetalStep, LibraryCacheForDevice, pools

LEMMA LeasesStep == IInv /\ [Next]_vars => [Leases!Next]_Leases!vars
<1>1. ASSUME UNCHANGED vars PROVE UNCHANGED Leases!vars
  BY <1>1 DEF vars, pools, Leases!vars, LeaseOf, Holding, Held
<1> QED
  BY <1>1, CheckOutTakes, HandBackGives, FindDeviceOpens, NoticeOpensOrCloses DEF Next, ThreadStep

(* The cache implements exclusive leases: the marks of listed pools are    *)
(* the leases, so no queue is given twice and none is made while one is    *)
(* free (getNextFreeCommandQueue, returnCommandQueueToCache and the        *)
(* wrapper's dealloc, with items dropped at any time).                     *)
THEOREM CacheLeasesQueues == Spec => LeasesKept
<1> QED
  BY Invariance, LeasesInit, LeasesStep, PTL DEF Spec, LeasesKept, Leases!Spec

(***************************************************************************)
(* How far a pool grows follows from the leases.                           *)
(***************************************************************************)
(* If all queues of a pool are leased and a thread has no lease, the pool  *)
(* has fewer queues than there are threads.                                *)
LEMMA LeasedOut ==
  ASSUME TypeOK, NEW i \in ItemIds, NEW t \in Threads, LeaseOf[t] = Leases!NoLease,
         Leases!Unleased(i) = {}
  PROVE  poolSize[i] + 1 <= Cardinality(Threads)
<1> DEFINE n == poolSize[i]
           others == Threads \ {t}
           user == [q \in 1..n |-> CHOOSE u \in others : LeaseOf[u] = <<i, q>>]
<1>1. n \in Nat /\ i # 0
  <2>1. items \in Seq(ItemKey)
    BY DEF TypeOK
  <2> QED
    BY <2>1 DEF TypeOK, ItemIds
<1>2. ASSUME NEW q \in 1..n PROVE \E u \in others : LeaseOf[u] = <<i, q>>
  <2>1. PICK u \in Threads : LeaseOf[u] = <<i, q>>
    BY DEF Leases!Unleased, Leases!Leased
  <2>2. u # t
    BY <1>1, <2>1 DEF Leases!NoLease
  <2> QED
    BY <2>1, <2>2
<1>3. \A q \in 1..n : user[q] \in others /\ LeaseOf[user[q]] = <<i, q>>
  BY <1>2
<1>4. \A q, r \in 1..n : user[q] = user[r] => q = r
  <2> SUFFICES ASSUME NEW q \in 1..n, NEW r \in 1..n, user[q] = user[r] PROVE q = r
    OBVIOUS
  <2>1. LeaseOf[user[q]] = <<i, q>> /\ LeaseOf[user[q]] = <<i, r>>
    BY <1>3
  <2> HIDE DEF user
  <2> QED
    BY <2>1
<1>5. user \in [1..n -> others]
  BY <1>3
<1> HIDE DEF user
<1>6. user \in Injection(1..n, others)
  BY <1>4, <1>5 DEF Injection, IsInjective
<1>7. IsFiniteSet(others) /\ Cardinality(others) = Cardinality(Threads) - 1
      /\ Cardinality(Threads) \in Nat
  BY DeviceCacheAssumption, FS_RemoveElement, FS_CardinalityType
<1>8. Cardinality(1..n) <= Cardinality(others)
  BY <1>6, <1>7, FS_Injection
<1>9. Cardinality(1..n) = n
  BY <1>1, FS_Interval
<1> HIDE DEF others
<1> QED
  BY <1>1, <1>7, <1>8, <1>9

LEMMA PoolsBoundedInit == Init => PoolsBounded
<1> SUFFICES ASSUME Init PROVE PoolsBounded
  OBVIOUS
<1>1. \A i \in deviceCaches : poolSize[i] \in 0..InitialQueues
  BY DEF Init
<1> QED
  BY <1>1, DeviceCacheAssumption DEF PoolsBounded

LEMMA PoolsBoundedStep ==
  ASSUME TypeOK, TypeOK', PoolsBounded, [Leases!Next]_Leases!vars
  PROVE  PoolsBounded'
<1>1. /\ deviceCaches \subseteq DOMAIN poolSize /\ DOMAIN poolSize = ItemIds
      /\ poolSize \in [ItemIds -> Nat] /\ ItemIds = 1..Len(items) /\ Len(items) \in Nat
  <2>1. items \in Seq(ItemKey)
    BY DEF TypeOK
  <2> QED
    BY <2>1 DEF TypeOK, ItemIds
<1>2. CASE UNCHANGED <<poolSize, deviceCaches>> \/ Leases!Close
  BY <1>2 DEF PoolsBounded, Leases!Close
<1>3. CASE Leases!Open
  <2>1. Len(poolSize) = Len(items) /\ poolSize \in Seq(Nat)
    BY <1>1
  <2>2. PICK first \in 0..InitialQueues : poolSize' = Append(poolSize, first)
    BY <1>3 DEF Leases!Open
  <2>3. \A i \in deviceCaches : poolSize'[i] = poolSize[i]
    BY <1>1, <2>1, <2>2
  <2>4. poolSize'[Len(items) + 1] <= InitialQueues
    BY <1>1, <2>1, <2>2, DeviceCacheAssumption
  <2>5. deviceCaches' = deviceCaches \cup {Len(items) + 1}
    BY <1>3, <2>1 DEF Leases!Open
  <2> QED
    BY <2>3, <2>4, <2>5 DEF PoolsBounded
<1>4. ASSUME NEW t \in Threads, NEW p \in DOMAIN poolSize, NEW q \in 1..(poolSize[p] + 1),
             Leases!Take(t, p, q)
      PROVE  PoolsBounded'
  <2>1. /\ poolSize' = [poolSize EXCEPT ![p] = IF q > poolSize[p] THEN q ELSE poolSize[p]]
        /\ UNCHANGED deviceCaches
    BY <1>4 DEF Leases!Take
  <2>2. CASE q \in 1..poolSize[p]
    <3>1. UNCHANGED poolSize
      BY <1>1, <2>1, <2>2
    <3> QED
      BY <2>1, <3>1 DEF PoolsBounded
  <2>3. CASE p \notin deviceCaches
    <3>1. \A i \in deviceCaches : poolSize'[i] = poolSize[i]
      BY <1>1, <2>1, <2>3
    <3> QED
      BY <2>1, <3>1 DEF PoolsBounded
  <2>4. CASE q = poolSize[p] + 1 /\ p \in deviceCaches
    <3>1. q \notin Leases!Unleased(p)
      BY <1>1, <2>4 DEF Leases!Unleased
    <3>2. Leases!Unleased(p) = {} /\ LeaseOf[t] = Leases!NoLease
      BY <1>4, <2>4, <3>1 DEF Leases!Take
    <3>3. poolSize[p] + 1 <= Cardinality(Threads)
      BY <1>1, <3>2, LeasedOut
    <3>4. \A i \in deviceCaches : poolSize'[i] = IF i = p THEN poolSize[p] + 1 ELSE poolSize[i]
      BY <1>1, <2>1, <2>4
    <3> QED
      BY <2>1, <3>3, <3>4 DEF PoolsBounded
  <2>5. poolSize[p] \in Nat
    BY <1>1
  <2> QED
    BY <2>2, <2>3, <2>4, <2>5
<1> QED
  BY <1>2, <1>3, <1>4 DEF Leases!Next, Leases!Give, Leases!vars

(* A listed pool never outgrows what it began with and the number of       *)
(* render threads (the growth in getNextFreeCommandQueue).                 *)
THEOREM PoolsStayBounded == Spec => []PoolsBounded
<1>1. IInv /\ IInv' /\ PoolsBounded /\ [Next]_vars => PoolsBounded'
  BY LeasesStep, PoolsBoundedStep DEF IInv
<1> QED
  BY Invariance, PoolsBoundedInit, <1>1, PTL DEF Spec
=============================================================================
