--------------------------- MODULE MTLDeviceCache ---------------------------
(***************************************************************************)
(* FxGripMTLDeviceCache and its items: the process-wide list of cache      *)
(* items, one pool of command queues per item, render threads that find an *)
(* item, check a queue out and hand it back, and Metal's device            *)
(* notifications, which arrive on Metal's own thread.                      *)
(*                                                                         *)
(* Each critical section of the cache lock or of a pool lock is one step,  *)
(* but for a lookup that misses, which asks Metal for the device and makes *)
(* an item before it lets go of the lock.  A thread that found an item, or *)
(* holds a queue, keeps the item alive after the cache has dropped it.     *)
(***************************************************************************)
EXTENDS Naturals, Sequences, FiniteSets, Functions

CONSTANTS Devices,        \* registry IDs
          Formats,        \* pixel formats, DefaultFormat among them
          DefaultFormat,  \* kFxGripMTLDeviceDefaultPixelFormat
          AnyFormat,      \* FxGripMTLPixelFormatAny, a request only
          Plugins,        \* plugin IDs, NoPlugin among them
          NoPlugin,       \* kDefaultPluginID
          Threads,        \* render threads
          InitialQueues,  \* kFxGripMTLInitialCommandQueueCount
          MaxItems,       \* bound on the items ever created
          MaxNotices      \* bound on the notifications under way at once

ASSUME DeviceCacheAssumption ==
  /\ DefaultFormat \in Formats /\ AnyFormat \notin Formats /\ NoPlugin \in Plugins
  /\ IsFiniteSet(Devices) /\ IsFiniteSet(Threads)
  /\ InitialQueues \in Nat /\ MaxItems \in Nat /\ MaxNotices \in Nat

VARIABLES
  attached,      \* the devices MTLCopyAllDevices lists
  notices,       \* Metal's notifications that are not yet posted, in order
  startup,       \* the singleton's init: "building" or "ready"
  deviceCaches,  \* _deviceCaches: the listed items, in order of creation
  libraries,     \* keys of _deviceDefaultLibraries
  items,         \* every item created: its device, format and plugin
  poolSize,      \* per item, how many queues its pool has
  inUse,         \* the queues marked InUse, each with its item
  thread         \* per thread: what it has missed, found or holds

pools == <<poolSize, inUse>>
vars == <<attached, notices, startup, deviceCaches, libraries, items, pools, thread>>

ItemKey == [device : Devices, format : Formats \cup {AnyFormat}, plugin : Plugins]
ItemIds == 1..Len(items)
Queues == {b \in ItemIds \X Nat : b[2] \in 1..poolSize[b[1]]}

DefaultKey(d) == [device |-> d, format |-> DefaultFormat, plugin |-> NoPlugin]

Idle == [at |-> "idle"]
Missed(key) == [at |-> "missed", key |-> key]
Found(i) == [at |-> "found", item |-> i]
Holds(i, q, kind) == [at |-> kind, item |-> i, queue |-> q]
Holding(t) == thread[t].at \in {"raw", "scoped"}
Held(t) == <<thread[t].item, thread[t].queue>>
ThreadStates == {Idle} \cup [at : {"missed"}, key : ItemKey] \cup [at : {"found"}, item : ItemIds]
                \cup [at : {"raw", "scoped"}, item : ItemIds, queue : Nat]

TypeOK ==
  /\ attached \subseteq Devices
  /\ notices \in Seq({"added", "removalRequested", "wasRemoved"} \X Devices)
  /\ startup \in {"building", "ready"}
  /\ deviceCaches \subseteq ItemIds
  /\ libraries \subseteq Devices
  /\ items \in Seq(ItemKey)
  /\ poolSize \in [ItemIds -> Nat]
  /\ inUse \subseteq Queues
  /\ thread \in [Threads -> ThreadStates]
  /\ \A t \in Threads : Holding(t) => Held(t) \in Queues

(* initWithDevice: a new item with its first queues, all free, put at the  *)
(* end of the list.  A queue that Metal does not give is left out.         *)
NewItem(key, i) ==
  /\ items' = Append(items, key)
  /\ deviceCaches' = deviceCaches \cup {i}
  /\ \E n \in 0..InitialQueues : poolSize' = Append(poolSize, n)

AddItem(key) ==
  /\ Len(items) < MaxItems
  /\ NewItem(key, Len(items) + 1)
  /\ UNCHANGED inUse

(* init has copied the device list and built a default item for each       *)
(* device; it has yet to subscribe to the notifications.                   *)
Init ==
  /\ attached \in SUBSET Devices
  /\ notices = <<>>
  /\ startup = "building"
  /\ \E order \in Bijection(1..Cardinality(attached), attached) :
       items = [k \in 1..Cardinality(attached) |-> DefaultKey(order[k])]
  /\ deviceCaches = ItemIds
  /\ poolSize \in [ItemIds -> 0..InitialQueues]
  /\ inUse = {}
  /\ libraries = {}
  /\ thread = [t \in Threads |-> Idle]

Subscribe ==
  /\ startup = "building"
  /\ startup' = "ready"
  /\ UNCHANGED <<attached, notices, deviceCaches, libraries, items, pools, thread>>

(* _deviceCachesLock: a lookup that has missed still holds it (wrong: a    *)
(* lookup lets go of it before it makes an item).                          *)
NobodyWaits == TRUE
CacheLockFree == \A t \in Threads : thread[t].at # "missed"

----------------------------------------------------------------------------
(* Metal: a device appears, is about to be removed at the user's request,  *)
(* or is gone, with or without such a request.                             *)
MetalStep(news, d) ==
  /\ Len(notices) < MaxNotices
  /\ notices' = Append(notices, <<news, d>>)
  /\ UNCHANGED <<startup, deviceCaches, libraries, items, pools, thread>>

PlugIn(d) == /\ d \notin attached
             /\ attached' = attached \cup {d}
             /\ MetalStep("added", d)
RequestRemoval(d) == /\ d \in attached
                     /\ \A k \in DOMAIN notices : notices[k] # <<"removalRequested", d>>
                     /\ MetalStep("removalRequested", d)
                     /\ UNCHANGED attached
Detach(d) == /\ d \in attached
             /\ attached' = attached \ {d}
             /\ MetalStep("wasRemoved", d)

(* Metal's block posts the next notification; before init has subscribed   *)
(* nobody hears it.                                                        *)
Deliver == /\ notices # <<>> /\ notices' = Tail(notices)
           /\ UNCHANGED <<attached, startup, thread>>
Unheard == /\ Deliver /\ startup = "building"
           /\ UNCHANGED <<deviceCaches, libraries, items, pools>>

(* observeDeviceAdded: adds a default item, and looks for none.            *)
ObserveDeviceAdded ==
  /\ Deliver /\ startup = "ready"
  /\ Head(notices)[1] = "added" /\ CacheLockFree
  /\ AddItem(DefaultKey(Head(notices)[2]))
  /\ UNCHANGED libraries

(* observeDeviceRemovalRequested: drops the device's items and library.    *)
ObserveDeviceRemovalRequested ==
  LET d == Head(notices)[2] IN
  /\ Deliver /\ startup = "ready"
  /\ Head(notices)[1] = "removalRequested" /\ CacheLockFree
  /\ libraries' = libraries \ {d}
  /\ deviceCaches' = {i \in deviceCaches : items[i].device # d}
  /\ UNCHANGED <<items, pools>>

(* observeDeviceRemovedRequested, the handler of WasRemoved, is empty.     *)
ObserveDeviceWasRemoved ==
  /\ Deliver /\ startup = "ready"
  /\ Head(notices)[1] = "wasRemoved"
  /\ UNCHANGED <<deviceCaches, libraries, items, pools>>

----------------------------------------------------------------------------
(* cacheItem:matchesRegistryID:pixelFormat:pluginID: *)
Matches(i, key) ==
  /\ items[i].device = key.device
  /\ key.format = AnyFormat \/ items[i].format = key.format
  /\ items[i].plugin = key.plugin

(* deviceWithRegistryID: takes the first match of the list, or misses ...  *)
FindDevice(t, key) ==
  LET hits == {i \in deviceCaches : Matches(i, key)} IN
  /\ thread[t] = Idle /\ startup = "ready" /\ CacheLockFree
  /\ \/ \E i \in hits : /\ \A j \in hits : i <= j
                       /\ thread' = [thread EXCEPT ![t] = Found(i)]
     \/ /\ hits = {} /\ Len(items) < MaxItems
        /\ thread' = [thread EXCEPT ![t] = Missed(key)]
  /\ UNCHANGED <<attached, notices, startup, deviceCaches, libraries, items, pools>>

(* ... and adds a new item if Metal still lists the device.                *)
AddMissedDevice(t) ==
  /\ thread[t].at = "missed"
  /\ IF thread[t].key.device \in attached
       THEN /\ AddItem(thread[t].key)
            /\ thread' = [thread EXCEPT ![t] = Found(Len(items) + 1)]
       ELSE /\ thread' = [thread EXCEPT ![t] = Idle]
            /\ UNCHANGED <<deviceCaches, items, pools>>
  /\ UNCHANGED <<attached, notices, startup, libraries>>

FreeQueues(i) == {q \in 1..poolSize[i] : <<i, q>> \notin inUse}

(* getNextFreeCommandQueue: the first free queue, else one more (wrong:    *)
(* always one more; one in use when none is free).                         *)
IsNextQueueNew(i, q) == q = poolSize[i] + 1
IsNextQueueInUse(i, q) ==
  IF FreeQueues(i) # {} THEN q \in FreeQueues(i) ELSE q = poolSize[i]
IsNextQueue(i, q) ==
  IF FreeQueues(i) # {} THEN q \in FreeQueues(i) /\ \A k \in FreeQueues(i) : q <= k
  ELSE q = poolSize[i] + 1

(* If Metal gives no further queue the thread leaves with nothing.         *)
CheckOut(t, kind) ==
  LET i == thread[t].item IN
  /\ thread[t].at = "found"
  /\ \E q \in 1..(poolSize[i] + 1) :
       /\ IsNextQueue(i, q)
       /\ poolSize' = [poolSize EXCEPT ![i] = IF q > poolSize[i] THEN q ELSE poolSize[i]]
       /\ inUse' = inUse \cup {<<i, q>>}
       /\ thread' = [thread EXCEPT ![t] = Holds(i, q, kind)]
  /\ UNCHANGED <<attached, notices, startup, deviceCaches, libraries, items>>
GiveUp(t) ==
  /\ thread[t].at = "found"
  /\ thread' = [thread EXCEPT ![t] = Idle]
  /\ UNCHANGED <<attached, notices, startup, deviceCaches, libraries, items, pools>>

(* A wrong return: the queue stays marked in use.                          *)
MarkFreeForgets(t) == inUse' = inUse \cup {Held(t)} /\ UNCHANGED poolSize

MarkFree(t) == inUse' = inUse \ {Held(t)} /\ UNCHANGED poolSize
HandBack(t) ==
  /\ thread' = [thread EXCEPT ![t] = Idle]
  /\ UNCHANGED <<attached, notices, startup, deviceCaches, libraries, items>>

(* A scoped wrapper returns its queue to the item it retained.             *)
DeallocScoped(t) == thread[t].at = "scoped" /\ MarkFree(t) /\ HandBack(t)

(* returnCommandQueueToCache: searches the listed items only.              *)
ReturnToCache(t) ==
  /\ thread[t].at = "raw" /\ CacheLockFree
  /\ IF thread[t].item \in deviceCaches THEN MarkFree(t) ELSE UNCHANGED pools
  /\ HandBack(t)

(* libraryCacheForDevice: for a device object the caller was given.        *)
LibraryCacheForDevice(d) ==
  /\ startup = "ready" /\ CacheLockFree
  /\ d \in attached \cup {items[i].device : i \in ItemIds}
  /\ libraries' = libraries \cup {d}
  /\ UNCHANGED <<attached, notices, startup, deviceCaches, items, pools, thread>>

ThreadStep(t) ==
  \/ \E key \in ItemKey : FindDevice(t, key)
  \/ AddMissedDevice(t)
  \/ \E kind \in {"raw", "scoped"} : CheckOut(t, kind)
  \/ GiveUp(t) \/ DeallocScoped(t) \/ ReturnToCache(t)

DeviceStep(d) == PlugIn(d) \/ RequestRemoval(d) \/ Detach(d) \/ LibraryCacheForDevice(d)

NoticeStep == \/ Unheard \/ ObserveDeviceAdded \/ ObserveDeviceRemovalRequested
              \/ ObserveDeviceWasRemoved

Next == \/ Subscribe \/ NoticeStep
        \/ \E t \in Threads : ThreadStep(t)
        \/ \E d \in Devices : DeviceStep(d)

Spec == Init /\ [][Next]_vars

----------------------------------------------------------------------------
(* Two render threads never encode into the same command queue, and a      *)
(* queue in a thread's hands is marked in use: getNextFreeCommandQueue     *)
(* cannot give it to another, whether it came back through the wrapper,    *)
(* through the cache, or its item was dropped meanwhile.                   *)
QueueExclusive ==
  /\ \A t \in Threads : Holding(t) => Held(t) \in inUse
  /\ \A t, u \in Threads : Holding(t) /\ Holding(u) /\ t # u => Held(t) # Held(u)

(* While an item is listed no queue of its pool leaks: one marked in use   *)
(* is in some thread's hands.  (Of an item the cache has dropped, a queue  *)
(* checked out raw is never marked free again: its return finds no item.)  *)
NoQueueLeak ==
  \A b \in inUse : b[1] \in deviceCaches => \E t \in Threads : Holding(t) /\ Held(t) = b

(* Concurrent misses create one item, though a lookup that has missed asks *)
(* Metal for the device before it lists a new item: however lookups,       *)
(* additions and removals interleave, no lookup adds a second item for a   *)
(* key.  Only the default key can be listed twice, by observeDeviceAdded.  *)
LookupsAddNoDuplicate ==
  \A i, j \in deviceCaches :
    i # j /\ items[i] = items[j] =>
      items[i].format = DefaultFormat /\ items[i].plugin = NoPlugin

(* However long renders go on, a listed pool has at most as many queues as *)
(* it began with or as there are render threads: queues that come back are *)
(* used again before one more is made.                                     *)
PoolsBounded ==
  \A i \in deviceCaches : poolSize[i] <= InitialQueues \/ poolSize[i] <= Cardinality(Threads)

(* The pools behave as exclusive leases: the InUse marks are the leases of *)
(* every listed pool, through returns by wrapper or cache, notifications   *)
(* and items that are dropped while their queues are out.                  *)
LeaseOf == [t \in Threads |-> IF Holding(t) THEN Held(t) ELSE <<0, 0>>]
Leases == INSTANCE QueueLeases WITH
  size <- poolSize, open <- deviceCaches, lease <- LeaseOf
LeasesKept == Leases!Spec
=============================================================================
