# FxGrip: TLA+ models, model checks and proofs

FxGrip is an Objective-C framework for building Final Cut Pro / Motion effect
plug-ins on Apple's FxPlug. Most of it is sequential glue between the host and
one effect. This project is about the parts that are not: the caches render
threads share, the files through which plug-in processes and a workflow
extension talk, the licence state that provider threads, render threads and the host
thread all touch, generations that outlive the call that began them, frames
that travel from render threads to views, and the parameter data that has to be
in the document when it is saved.

Paths below are relative to the repository root; `DC` is
`FxGrip/Utilities/FxGripMTLDeviceCache.m`, `MB` and `RL` are
`FxGrip/Workflow/FxGripWorkflowMailbox.m` and `...Relay.m`, `CL` is
`FxGripWorkflow/FxGripWorkflowClient.m`, `LI` is
`FxGrip/Extensions/Licensing/FxGripLicensing.m`, `SP` is
`FxGrip/Shader/FxGripShaderPipeline.m`, `ML` is
`FxGrip/Inference/FxGripMLVideoEffect.m`, `LM` is
`FxGrip/Parameters/LiveImage/FxGripLiveImageParameter.m`, `MM` is
`FxGrip/CustomParameter/FxGripMetaManager.m`, `MX` is
`FxGrip/Extensions/FxGripMeta.m`, `PD` is
`FxGrip/Extensions/FxGripParameterData.m`, `PB` is
`FxGrip/Parameters/FxGripParameterBaseLibrary.m` and `OB` is
`FxGrip/CustomParameter/FxGripOOBParameterAccess.m`. In `PROJECT.json` the same
paths carry the prefix `src/`.

## 1. Inventory

| Component | State | Operations | What is hard | What makes it correct |
|---|---|---|---|---|
| **Metal library cache** (`FxGripMTLLibraryCache`, DC:440-830) | `__functionCache`: name to function or NSNull placeholder; `_pendingHandlers` | asynchronous and synchronous function requests, clear, isLoading | Metal calls back on its own thread; clears and synchronous requests meet compiles under way; compiles fail | each completion handler runs exactly once; no name is stuck loading; requests share a compile |
| **Metal device cache** (`FxGripMTLDeviceCache`, `...Item`, DC:60-430, 835-1200) | the list of items, each with a pool of command queues; the dictionary of library caches | look up or create an item; check a queue out and return it (raw or through a scoped wrapper); observe Metal's device notifications | render threads share queues; items are dropped while their queues are out; notifications race with lookups | a queue has one user; none leaks; pools grow only when full; one item per key |
| **Pipeline-state cache** (in the item, DC:930-1130) | dictionary keyed by function names | look up or build | keys that say less than the state they stand for | a hit is the state that was asked for |
| **Workflow documents** (RL, MB, CL) | message files per plug-in; each relay's `processing` flag | send, notify, list, vet, apply, remove, clear broadcasts | separate processes, crashes, missed or coalesced notifications, run loops nested in a pass | handled once, in order, none lost |
| **Workflow presence** (RL, MB, CL) | one record file per instance, one presence file, each relay's link status | heartbeat, sweep, start and stop | ages instead of locks; a sweep races with a refresh | the live are listed, the dead swept, the status settles |
| **Workflow outbox and settings** (MB, CL, RL `publish...`, export) | reply files, export pulse, settings files | publish, list, remove | as for documents | a publication is seen once by the extension that waits for it |
| **Licensing** (LI, providers) | cached status, `_observedProductID`, toggle and button parameters; the provider's handlers | add to document, parameter changes, reports, reads at render | three kinds of thread, one small lock | the observation follows the product; what is shown is what is true |
| **Shader build cache** (`FxGripShaderBuildCache`, SP:562-673) | entries, build order, pending builds with a dispatch group each | look up, build on a miss, wait for a build, evict | builds overlap, nest, and are evicted while somebody waits for them | one build per key at a time; the limit; every call returns a result |
| **ML video generation** (ML) | state, clip, generation token | begin, cancel, reset, finish of a run | runs end late, after cancels and newer begins; the lock is let go between look and move | a late result is ignored; a generation ends |
| **Instance tracker** (`FxGrip/Extensions/FxGripInstanceTracker.m`) | unretained effect pointers by plug-in UUID | register, remove, enumerate | removal under a UUID that may have changed; removal at dealloc | no pointer outlives its effect |
| **Host API wrappers** (`FxGrip/APIAccessing`) | cache of vended wrappers with the host pointers they were built for | vend | lookup, build and store are separate critical sections | a wrapper is of the API the host passed in |
| **Out-of-band parameter access** (OB) | the host action window | start, flush, end | a window is opened outside every callback, and writes after it are refused | the flush comes before the end |
| **Flags, parameter data and meta stores** (PB, PD, MX, MM) | the flag word with its cache and dirty bits; a record of its app bits; the meta manager and its unsaved mark; the values the host holds of both | seed, load, merge, edit, flush | three stores with a mark each are flushed in one notification; the document's values arrive after the seeds; the host refuses writes | nothing marked clean differs from the host; the document's customizations win; one flush is enough |
| **Live image parameter** (LM) | frames by slot, dirty and in-flight slots, the pending flush, views and their count | publish a frame or textures, clear, read back, flush, register, move and release a view | render threads, Metal's completion thread and the main thread; a flush coalesces many stores | no frame is lost to a view; no staging texture is shared; slots come back |
| **Frame analysis** (`FxGrip/Utilities/FxGripTileableEffect+Analyze.m`) | records by frame index, frame duration | set up, analyse a frame, clean up, read back | a second pass with another frame duration | an index means one time |
| **Tileable effect, extensions, registrars** (`FxGrip/*.m`, `FxGrip/Extensions`) | list of extensions, notifier | forward host callbacks | order of observers | - |
| **Parameters, on-screen controls, shader encoding, space, FCPXML, inference backends, tracking** | one object each, mostly value types | declare, draw, encode, parse | numerical or layout work | - |
| **StoreKit, RealityKit** (Swift), **FxPlugStub**, **BEFoundation** | - | other providers and renderers, SDK stand-in, vendored framework | - | - |

How they meet. The host calls the effect, which notifies its extensions;
Licensing, the workflow relay and both parameter stores are such extensions,
and a flush is a notification they all get, in the order of their priorities. A render thread asks the
device cache for an item, checks a queue out of the item's pool, and takes
functions from the library cache of the device. The relay and the extension's
client share only the mailbox folder and distributed notifications. Licensing
gives the provider a block that the provider runs on a thread of its own. A
shader pipeline asks its state cache, whose build asks its library cache. The
caches and the mailbox do not call back into the effect while they hold a lock.

## 2. Modules

| Module | Models | Composition | Proofs in |
|---|---|---|---|
| `AsyncRequests` | what an asynchronous request interface promises: asked, then answered exactly once | the abstract specification | - |
| `MTLLibraryCache` | the library cache | implements `AsyncRequests` through `Promise == INSTANCE ... WITH` | `MTLLibraryCacheProofs` |
| `QueueLeases` | what render threads may rely on about queues: exclusive leases, and pools that grow only when all is leased | the abstract specification | - |
| `MTLDeviceCache` | device cache, its items and pools, Metal's notifications | cache and pools; implements `QueueLeases` (`LeasesKept`) | `MTLDeviceCacheProofs` |
| `DocumentDelivery` | what an extension may rely on when it sends: an ordered queue that loses nothing addressed and repeats an effect only after a fault | the abstract specification | - |
| `WorkflowRecords` | what instance records say: who writes, takes back and sweeps them | the abstract specification | - |
| `WorkflowInbox` | the document queue between client and relays | client, mailbox, relays; implements `DocumentDelivery` (`DeliveryKept`) and `WorkflowRecords` | `WorkflowProofs` |
| `WorkflowPresence` | records, presence file, link status | client, mailbox, relays; implements `WorkflowRecords` (`RecordsKept`) | `WorkflowProofs` |
| `Licensing` | the extension with an observing provider | extension and provider | `LicensingProofs` |
| `ShaderBuildCache` | the state cache of a pipeline with the library cache it builds from | two caches of one class | `ShaderBuildCacheProofs` |
| `MLVideoEffect` | begin, cancel, reset and late finishes of a generation | - | `MLVideoEffectProofs` |
| `LiveImage` | slots, readbacks, flushes and views of the live-image parameter | render threads, Metal, views | `LiveImageProofs` |
| `ParameterStores` | flag word, parameter data, meta manager, action windows and the flush that joins them | four classes of the effect and the host | `ParameterStoresProofs` |
| `MC...` | constants for TLC | - | - |

### MTLLibraryCache

Each `@synchronized` block is one step; the walk from one block to the next is
a step of its own. `BeginLoaded`, `BeginOwner` and `BeginWaiter` are the three
outcomes of `beginLoadingFunctionNamed:`; `RunCachedHandler` and
`StartCompile` are what the caller does after the lock. `FinishLoading` is the
locked part of Metal's completion, `RunWaiter` the loop after it.
`NewFunctionSync` holds the lock across lookup and compile. `ClearFunction` is
`clearFunctionWithName:`. A function is data the properties do not look into,
so an entry is just absent, loading or loaded. The three ways to ask for a
function (name, constants, descriptor) take the same path and differ in the
name only.

### MTLDeviceCache

Every critical section of the cache lock or a pool lock is a step, with one
exception: a lookup that misses (`FindDevice`) keeps the lock while it asks Metal
for the device and makes an item, and inserts it in a step of its own
(`AddMissedDevice`). What else takes the cache lock waits for `CacheLockFree`;
Metal's own steps and the pools do not. A pool begins with as many queues as
Metal gave (`NewItem`). `items`
keeps every item ever created, `deviceCaches` the listed ones: a thread keeps an
item it found alive after the list has dropped it. `notices` is the queue of
Metal's notifications; `startup` models the moment between the copy of the
device list and the subscription. Metal's side (`PlugIn`, `RequestRemoval`,
`Detach`) is external. The pool of an item is its size (`poolSize`) and the
queues whose InUse flag is set (`inUse`), each named by its item and its place
in the pool. `thread` is what a render thread has found or holds, raw or in a
scoped wrapper. `QueueLeases` has no such flags: there a queue is free when
nobody has it, and the refinement says that for a listed item the flags mean just
that. Of a dropped item it says only that no queue is given twice, since a raw
queue that comes back to one keeps its flag.

### WorkflowInbox

A file operation is a step. `SendDocument` writes a file,
`PostChangeNotification` announces it to any subset of the relays.
`RootChanges` is the event of the root folder, which comes when the presence
file (or `Inbox` itself) is written there. On each relay `Fire` coalesces
wake-ups into one block; `MailboxDidChange` runs it; `BeginPass` is
`processInbox` up to its loop, and `Discard`, `Veto`, `Apply` and
`RemoveApplied` are the loop's branches. A relay may crash between any two.
Instance records come in where they matter to the queue (clearing broadcasts
asks for one): `SweepRecord` takes any record, that of a stalled live relay too,
which `WriteRecord` brings back, or its own while it cannot write it. Any write
or removal of a record may fail, as the code only logs it. The details are `WorkflowPresence`'s; that both
modules keep records the same way is what `WorkflowRecords` is for, which both
implement.
The folder is a set of files, and `written` is the order of their names; a pass
walks its list (`todo`) oldest first (`IsNext`). A broadcast stays in the folder,
so every later pass vets and applies it again, after newer documents have taken
effect: order is a property of each pass (`PassesInOrder`) and, over several, of
first looks. `applies` does not count broadcasts, whose effects have no bound.
A message is a model value
with an addressee; its text is left out. `applies`, `seen` and `faults` exist
for the properties (and bound the faults).

### WorkflowPresence

Times are three ages: within the client's window, past it, past the four
presence windows of the sweep. A process that stalls lets its own record age,
so a live record may be stale. The heartbeat is three steps because it reads
all records before it removes the stale ones by name; the link status is read
last. `ClientStop` leaves the presence file behind, as `stop` does. Writes and
removals of files may fail at any time and the code goes on (RL:175, MB:446): a
relay whose writes fail (`failing`) lets its own record age and may then sweep it
itself, which `WorkflowRecords` allows for in that case only.

### Licensing

The plug-in declares neither the product nor the active state, so both are
parameters the user edits; the product may be empty, and nothing is observed
then (LI:261). A deactivation may fail and reports the status it left. The host applies an edit and only later has
`extParameterChanged:` run (`changed`). What a handler calls is a list of
steps (`HandlerOf`), since reports and render reads come between any two.
`licenseStatus` is one step: it holds the lock across the provider's answer.
`deliverStatus:` fetches the handler under the provider's lock and runs it
without, so a report may arrive after its observation has stopped.

### ShaderBuildCache

Two caches of the same class are composed as the pipelines compose them: a
build in the state cache (which has a limit) first asks the library cache
(which has none) for the one library. `Lookup` is the first critical section of
`entryForKey:`, with its three outcomes `Hit`, `Join` and `BeginBuild`; `Store`
is the second; `LeaveGroup` and `Wake` are the dispatch group. A thread's call for a
state is `outer`, the call for the library that its build makes is `inner`. Build blocks always return something (a
failure is an NSError, which is an entry), so success and failure are not told
apart. Builds of a key are numbered to tell them apart, and a number nobody
refers to is used again, so nothing is capped. `answer` shows what the last step
returned to a render. `NobodyWaitsInACircle` is stated through `Blocked` (waits
for a group that was not left) and `Owes` (will leave it).

### MLVideoEffect

`beginGenerationAtTime:`, `cancelGeneration` and `resetGeneration` take the lock
to look and bump the token, let it go, and take it again in `moveToState:`; each
hold is a step. Nothing keeps two threads from calling at once: a button on the
main thread, a subclass that runs the generation from the analysis pass
(FxGripMLVideoEffect.h:41), and `generationStateDidChange` on the generation
queue are callers of their own (`Callers`). Runs are on a concurrent queue and
are not interrupted, so any number may be under way. The clip is the token of
the run that made it. `begun`, for the properties only, is the token of the begin
that last moved to Generating: while it is the newest token that begin was not
overtaken, and of such generations the properties speak. A cancel between a
begin's two holds (ML:162, ML:164) overtakes it: the token is dead, the begin
moves to Generating all the same, and nothing but a cancel or reset ends that,
as each further begin is a no-op. So does a second begin that looks before the
first moves, if its run ends before that. One caller cannot do this to itself.
Rendering reads only and is left out, as are progress and the error object,
which move with the state.

### LiveImage

Each hold of the parameter's lock is one step, and so are the dispatch of a
flush block and the decision whether a view is onscreen, which come after the
lock. `PublishFrame` and `ClearSlot` store at once (`Store`); `Encode` copies
textures into the staging textures of the slots that are not in flight and
commits a command buffer. The code does not look whether Metal gave it a queue
and a buffer (LM:755): with nil it marks the slots in flight and adds no handler, so
that they are never released; `Encode` contains that step, and `SlotsReleased`
speaks of the slots a buffer carries. `Complete` is Metal's completion, after which its
handler takes one readback at a time: `StoreReadback`, or `ReleaseSlot` after a
GPU error or a frame that cannot be read. `BeginFlush` and `ShowBatch` are
`flushToViews`; `RegisterView`, `SeedSlot`
and `FinishRegister` a view's registration, which reads the slots one by one.
A frame is the number of its publication. `call` and `stage` are where each
thread and each command buffer is; `flushes` counts the blocks on the main
queue.

### ParameterStores

One parameter and its flag word: one bit of the host and one of the app, the
cache bit, the dirty bit. `hostFlags`, `hostStore` and `hostMeta` are what the
host holds; `document` is what was saved. `AddParameters`,
`SetDocumentValues` and `AddedToDocument` bring an instance up in the order in
which the host does, `Save` saves at any time, and after `Close` the document
is opened again. `ParameterChanged` and `StartAction` open a window, in which
the host takes writes (unless it refuses one: `Taken`); `EndWithFlush` starts a
flush in it, whose parts `FlushFlags`, `FlushMeta` and `FlushStore` run in the
order of the observers' priorities. Edits of meta entries (`EditMeta`) come from
any thread between two steps, the rest is the main thread's; `FlushMeta` is one
step because the manager's lock spans the look, the write and the clearing of the
mark (MM:560-575). Edits are modelled once the document's manager is in place:
an edit before `extAddedToDocument:` other than the configuration's, or through a
pointer to the manager that MX:168 replaces, is not. A meta entry's
value only says which edit wrote it.

## 3. Runs

| Run | Asks | Bounds and why they are enough |
|---|---|---|
| `library_cache` | the promise, and that nothing is stranded or stuck | four requests on two names, three of them on one: an owner, its waiter and the owner of the compile after a clear; two clears per name |
| `device_cache` | exclusive leases, leaks, growth, duplicates | one device, two render threads, pools that start with one queue or none (the code starts with more, unless Metal refuses; one makes the pool full with one user), two items, two notifications under way |
| `workflow_inbox` | the ordered queue of `DocumentDelivery`: once per fault, in order, never dropped; looked at in the end | two relays whose record writes may fail, one of which applies on arrival; a document for it and a broadcast that may be malformed, one crash or failed removal: wake-ups are lost, coalesced, or swallowed by a pass, and the broadcast may be cleared, discarded or looked at again |
| `workflow_presence` | records as `WorkflowRecords` says; the live are listed, the dead swept, the status settles | two instances: one to die, stall or fail to write, one to sweep; every write and removal may fail |
| `build_cache` | sharing, the limit, no circle of waits, every call returns | three render threads, three states, limit two: one builds, one waits and one evicts; builds of one state overlap with evictions of another, and all wait for the one library |
| `live_image` | no frame is lost, coalescing, staging, the view count | two slots, two publications, a thread and a view, with Metal's completion as the second thread that stores: a store while a flush is taken, a readback that ends after a newer frame, a view that registers in the middle. Two publishing threads pass too but take TLC close to four minutes; the safety part is proved for any number |
| `stores` | nothing marked clean differs from the host, customizations stay, one flush is enough | two entries, one of them configured; two edits; flag writes refused or not; any number of saves and reopenings |
| `stores_refused` | the comment "a write that fails or throws leaves the manager unsaved" | violated |
| `ml_video` | a generation that was not overtaken has its run and ends | two callers, five tokens: two begins that overlap, with a cancel and a reset between or within them, late runs of each |
| `ml_video_late` | the comment "unless a newer begin or a cancel invalidated its token" | one caller, six tokens; violated |
| `licensing` | the observation follows the product | two products and the empty one, one provider thread, edits of all three parameters |
| `licensing_verdict` | the comment on a product change | violated |

`CHECK_DEADLOCK FALSE` is set for the library cache (once every request is
answered and the clears are used up nothing is left to do) and for ML video
generation (the same, with tokens). Everywhere else deadlock is checked.

Threads in `device_cache` are symmetric, as no formula names one and the
run has no liveness property. Caps: `MaxClears`, `MaxItems`, `MaxNotices`,
`MaxFaults`, `MaxToken`, `MaxFrames` and `MaxEdits` bound counters in guards. They limit what the environment does
(clears, new devices, notices, faults, calls, frames, edits), with one exception: `MaxItems` also
stops a lookup from creating an item, so the run covers histories with at
most two items, enough for two listed items of one device, and for an
item that was dropped and replaced.

### Fairness

- Library cache: weak fairness of the running thread and of Metal's completion.
  Metal documents that a completion handler is called; a thread inside a call
  goes on. Nobody need make a request, a clear or a synchronous call.
- Inbox: an open extension posts what it owes and its heartbeat timer fires; the
  main queue of a relay that applies on arrival, which is first in, first out,
  runs its notification blocks and its `mailboxDidChange` blocks; a pass goes on.
  Nothing is asked of the other relays, and nobody need send, quit or join.
  `EveryDocumentHandled` is conditional on the extension staying open, because
  it is its heartbeat, which rewrites the presence file in the root folder,
  that makes up for a lost notification. A presence write that fails is a
  heartbeat that does not count, and a relay whose folder source could not be
  opened (MB:618) is not covered: it depends on the notifications alone.
- Presence: the heartbeat of a live relay fires, and time passes for files
  nobody refreshes. Writes may fail for ever: `LiveInstanceListed` asks that
  those of the instance it speaks of succeed from some heartbeat on, and strong fairness
  of `RemoveStaleRecord` that a removal tried at heartbeat after heartbeat
  succeeds in the end, which a file on a healthy disk does.
- Build cache: a thread inside a call goes on and a build block returns. Nobody
  need ask.
- ML video: a call goes on, the queue runs what it is given and the backend
  returns. A backend that never returns is not covered.
- Live image: Metal completes every command buffer it gave and its handler goes on, a
  thread inside a method goes on, and the main queue runs its blocks. Nobody need
  publish, register or move a view.
- Device cache, Licensing and the parameter stores have safety properties only.

### What the violations show

1. `LateResultIgnored`: `finishGenerationWithToken:` compares the token under
   the lock (ML:202) and applies the result in another hold of it. A cancel that
   runs in between returns with the state Idle, and then the cancelled clip
   appears.
2. `VerdictOfCurrentProduct`: the early return of `extParameterChanged:`
   (LI:1244) swallows a change of product made while inactive; the old
   product's verdict is still cached after reactivation. The same return keeps
   `stopObserving` (LI:1265) from ever being called when the active parameter is
   switched off, against the comment at LI:1238.
3. `MetaClean` in `stores_refused`: `saveMeta` ignores what the write returns
   (MM:571) and takes the mark away (MM:574), so that a refused write is never
   made again, against the comment at MM:572. The run `stores` checks the same
   property with a host that does not refuse this write, and it holds.

Smaller disagreements the models show, each noted with its hazard in
`PROJECT.json` and without a run of its own: a device pulled out without a
removal request stays listed, because the handler of "was removed" (DC:272) is
empty, against "when Metal reports the device's removal"; a device can get a
second default item (DC:252 against "one item per triple"); `isLoading:` turns
NO when a synchronous request stores its function although the asynchronous
compile is still in flight (DC:562); documents raise no event of the root folder
(MB:618 against "file-system events under the root folder"); an applied
broadcast is not removed (RL:279 against "each applied message is removed"); a
sweep may delete a record refreshed after it was read (MB:445), which the next
heartbeat brings back (`LiveInstanceListed`); a cancel in the middle of
another thread's begin leaves the effect generating (ML:162); slots of a nil
command buffer stay in flight (LM:791); the toggle may be written from a
status older than one a report has written meanwhile (LI:1207); a readback may
be stored over a newer frame of the CPU (LM:826); the records of a reopened
document are not loaded (PD:219).

## 4. Proofs

`MTLLibraryCacheProofs` proves, for any finite set of requests, any names and
any bound on clears, with `RequestsAssumption` and `MaxClearsAssumption` as the
only assumptions:

- `TypeCorrect`: SafeSpec => []TypeOK;
- `HandlersNeverStranded`: a handler in `_pendingHandlers` has a compile of its
  name that was promised and has not finished;
- `PlaceholdersHaveCompiles`: so has a placeholder;
- `CompilesShared`: a name has at most `1 + clears` such compiles;
- `ImplementsPromise`: SafeSpec => Promise!SafeSpec, which says no handler runs
  before its request, or twice.

The argument. The invariant `IInv` is the conjunction of `TypeOK`, the three
properties above and three facts they need: `HandlerPlaced` (a handler is in
exactly one place: with its caller, queued, in one callback's array, or run),
`CompileOrder` (a compile belongs to a call that has returned, and a callback's
array is empty until Metal calls back), and `CompileBudget`, which strengthens the bound: as long as the
entry is absent the compiles outstanding are at most the clears, so that a new
owner stays within `1 + clears`. Without `CompileBudget` the bound is not
inductive; without `HandlerPlaced` a handler taken by a callback could be one that
already ran. There is a lemma for each group of actions, and `NextIInv` puts
them together. The refinement maps `BeginLoaded`, `BeginOwner` and
`BeginWaiter` to `Ask`, `RunCachedHandler` and `RunWaiter` to `Answer`, and all
others to stuttering.

`MLVideoEffectProofs` proves, for any `Callers` and `MaxToken`,
`LifecycleTypeCorrect` (TypeOK, which says there is a clip exactly in the state
Ready) and `NewestHasRun` (GeneratingHasRun). The invariant adds that a begin under way has its token (`BeginHasToken`)
and that no begin moved with a token nobody has taken (`TokensTaken`), so that
a call which takes a new one overtakes all that was begun before: a
run's finish may be ignored only if a newer token exists or the state has
already moved. `OneCallerNeverStuck` drops the restriction to begins that were
not overtaken for a single caller: while the state is Generating there is
a run that counts, or the one call that is under way goes on to move it.

`MTLDeviceCacheProofs` proves, for any devices, keys, threads and bounds with
`DeviceCacheAssumption` (finitely many devices and threads),
`DeviceCacheTypeCorrect`, `QueuesExclusive` (QueueExclusive), `QueuesNotLeaked`
(NoQueueLeak) and `LookupsShareItems` (LookupsAddNoDuplicate). With
`LookupSettled`, which says that a lookup that has missed is the only one and its key is
still not listed, the four formulas are inductive together: the types say that a held queue is one of its pool's, so that a pool
that grows gives a queue nobody holds; exclusivity needs that no queue is marked
free while it is held, and the leak property is its converse for listed items.
Both together make the refinement `CacheLeasesQueues` (Spec => LeasesKept): in a
listed pool the queues not marked are those not leased (`FreeIsUnleased`), so
that a step which grows it is a step at which all were leased. From the abstract
step follows `PoolsStayBounded` (PoolsBounded): a pool that grows has all its queues
leased to threads other than the one that asks (`LeasedOut`, a pigeonhole over
finitely many threads).

`WorkflowProofs` proves, for any instances, messages, addressees and number
of faults with `InboxAssumption`, `InboxTypeCorrect`, `AppliedOncePerFault`
(AddressedOncePerFault), `NothingDroppedUnhandled` (NeverDroppedUnhandled) and
`DocumentsInOrder` (PassesInOrder). `AddressedOncePerFault` is not inductive:
`AppliesCounted` adds that a document which waits and is not about to be removed
was applied at most once per fault, so that a further apply stays in the bound.
This needs `TodoOwned` (an addressed document in a pass is still in the
inbox, since only its own instance removes it) and `RemovingApplied`. Order
needs `OldestFirst`: a pass that is under way skipped nothing older than what it
still has to do, except what was seen; a document sent meanwhile sorts after
all of it (`WrittenNext`). `InboxDelivers` (SafeSpec => DeliveryKept) is the
refinement of `DocumentDelivery`: `BeginPass`, wake-ups and records are stutters,
`Apply` is `TakeEffect` if it worked on an addressed document and `PassOver` if
not, `RemoveApplied` a `Drop` or a `Fault`; the guards of the abstract steps are
`OldestFirst`, `TodoOwned` and `AppliesCounted`. `InboxKeepsRecords` and, for
`WorkflowPresence` (instantiated in this module with variables of its own),
`PresenceTypeCorrect` and `PresenceKeepsRecords` show that both implement
`WorkflowRecords`. The second needs, besides the types, that a heartbeat lists its own
record as stale only if it failed to write it (`OwnListedOnFailure`), which holds
because it writes it before it reads.

`LicensingProofs` proves, for any products and provider threads with
`LicensingAssumption`, `LicensingTypeCorrect`, `NoObservationLeaks`
(NoLeakedObservation) and `ObservationFollowsProduct` (ObservesCurrentProduct).
The invariant says what is left of a handler: a start comes right after a stop
(`StopsThenStarts`, `NothingObserved`), and an active extension that observes
another product than its parameter names still has a start to make or a
parameter change to be told of (`ObservesOrWill`).

`ShaderBuildCacheProofs` proves, for any threads, states and limit with
`BuildCacheAssumption`, `BuildCacheTypeCorrect`, `BuildsNotDuplicated`
(OneBuildPerKey), `LimitNeverExceeded` (LimitKept), `AnswersAreBuilds`
(AnswersWithABuild) and `NoDeadlockOfBuilds` (NobodyWaitsInACircle). `BuildsPending` says that whoever builds a key builds its
pending build and there is no entry yet, so a thread that finds neither is the
only builder, and the key it later appends to the order is not in it;
`CallsNested` says that only a build asks for the library. `StoreOrder` is the
lemma on sequences: appending and dropping the first keeps the limit and leaves
each state at most once. `NoDeadlockOfBuilds` adds that a pending build has a
thread that makes it (`PendingBuilt`) and that a group somebody waits for was
left or will be by a thread that owes it (`WaitersServed`). The circle is then
excluded by `CallsNested`: who builds a state may wait for the library, but
who builds the library waits for nothing.

`LiveImageProofs` proves, for any threads, slots, number of publications and
finite set of views (`LiveImageAssumption`), `LiveImageTypeCorrect`,
`RedrawsCoalesced` (FlushOnItsWay), `ViewsNeverLeftBehind` (ViewsCatchUp),
`StagingNeverShared` (StagingExclusive, nil command buffers included) and `OnscreenCounted`
(OnscreenCountRight). Three facts are added: a publication whose number is not
yet given out has left no trace (`Fresh`), a handler about to store knows its
slot (`StoresASlot`), and a batch older than the store has its slot marked dirty
again (`BatchCurrent`), without which a flush could show an old frame and leave
nothing behind to repair it.

`ParameterStoresProofs` proves, for any entries, configuration and number of
edits with `StoresAssumption`, whichever writes the host refuses:
`StoresTypeCorrect`, `FlagsTruthful` (FlagsInStep) and `CustomizationsKept`
(UntouchedKept). The invariant adds that a flush runs in an open window and ends
with the record (`FlushInWindow`), that while an instance is brought up the
host holds the document it was opened from (`Documents`), and that a cached
word is marked (`CachedIsDirty`). Two theorems need a host that does not refuse
the write they are about: `EditsKeptUnlessRefused` (MetaClean, if "meta" is not
in `Refusable`; `stores_refused` shows that this is needed) and
`OneFlushIsEnough` (FlushCaptures, if "store" is not).

The types of the two caches, the inbox, presence and the build cache are proved
and not among the runs' invariants: the refinements the runs check instead are
stronger.

Model-checked only: the liveness half of `EachHandlerOnce` and every other
liveness property (the prover handles neither fairness nor ENABLED).
Out of the prover's reach in general are induction over data,
through theorems that take an operator as a parameter, and RECURSIVE operators;
the modules use none, and what needs an order is a set with an order relation
instead of a filtered sequence.

## 5. Not modelled, and why

`PROJECT.json` lists each component with its status. In the modelled ones the
following is left out: the pipeline-state dictionary; outbox, export pulse and
settings of the workflow; of ML video rendering from the clip; of Licensing the
DEBUG override, the watermark, the update check, and the buttons that do not
change the status; of the stores the parameters added and removed while the
effect is live, and menu records; of out-of-band access a second window opened
inside one. Two processes that write to one inbox are not modelled: their file
names are stamped before the files appear, so order holds for one writer whose
clock does not step back.

Not modelled at all are the instance tracker, the cache of host API wrappers and
frame analysis, each small and with its hazard in `PROJECT.json`. On-screen
controls, scenes, shaders and the inference wrappers have numerical or layout
correctness, which TLC does not reach; the document model is sequential parsing;
the Swift providers repeat interfaces modelled here; BEFoundation is a binary
with headers.

## 6. Plan

Done: the nine modules of the code with their runs, four abstract specifications
they implement, and proofs for all of them. What is left, in order of importance:

1. The instance tracker: a registry of unretained pointers keyed by the UUID an
   effect has at each call.
2. The cache of host API wrappers: look up, build and store in separate holds.
3. Frame analysis: the records of an earlier pass read with a new duration.
4. The pipeline-state dictionary of an item, the outbox and the export pulse.
5. Parameters added and removed while the effect is live, in `ParameterStores`.
6. An abstract store of the latest frames that `LiveImage` implements.
7. Licensing's remaining actions: declared products, the DEBUG override, the
   refresh button, several effects on one provider.

## 7. Running

    tlc -workers 2 -config MTLLibraryCache.cfg MCMTLLibraryCache
    tlapm MTLLibraryCacheProofs.tla

A run's module and configuration are listed in `PROJECT.json`. Operators
commented as wrong (`KeepsPlaceholder`, `IsForAnyone`, `SeedsWin`, ...) are not used by
the specifications: each is a plausible bug, and putting it in place of the
definition it precedes makes the property named in `PROJECT.json` fail.
