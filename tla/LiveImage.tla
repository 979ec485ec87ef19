----------------------------- MODULE LiveImage -----------------------------
(***************************************************************************)
(* The live-image parameter: render threads publish frames into slots,     *)
(* views on the main thread show them.                                     *)
(*                                                                         *)
(* A CPU frame is stored at once.  A texture is copied by the GPU and read *)
(* back when its command buffer completes, on a thread of Metal's.  Every  *)
(* store marks its slot dirty, and one block on the main queue redraws all *)
(* the dirty slots of all the views.  Each hold of the lock is one step;   *)
(* what a thread has read may be old by the time it takes the lock again.  *)
(***************************************************************************)
EXTENDS Naturals, FiniteSets

CONSTANTS Threads,  \* the threads that publish
          Views,    \* the strip views the inspector may make
          Slots,
          MaxFrames, \* bound on the publications
          NoView, NoSlot

ASSUME LiveImageAssumption ==
  /\ MaxFrames \in Nat /\ IsFiniteSet(Views)
  /\ NoView \notin Views /\ NoSlot \notin Slots

(* A publication is known by its number; 0 is an empty slot.  One that     *)
(* copies textures has a command buffer of that number.                    *)
Publications == 1..MaxFrames
Frames == 0..MaxFrames

VARIABLES
  frames,         \* _frames: what each slot holds
  dirty,          \* _dirtySlots
  flushScheduled, \* _flushScheduled
  inFlight,       \* _inFlightSlots
  onscreen,       \* _onscreenViewCount
  count,          \* publications so far
  call,           \* where each thread is in the method it called
  stage,          \* what has become of each command buffer
  unread,         \* its readbacks not yet released
  storing,        \* the slot whose frame its completion handler stores
  flushes,        \* the flush blocks on the main queue
  flushing,       \* the main thread is in flushToViews
  batch, copy,    \* its copies of dirty and frames
  seeding,        \* the view the main thread registers
  unseeded,       \* the slots that view has not been given
  views,          \* _views
  inWindow,       \* the views that are in a window
  shown           \* what each view shows

slotVars == <<frames, dirty, flushScheduled>>
gpuVars == <<stage, unread, storing>>
flushVars == <<flushing, batch, copy>>
viewVars == <<seeding, unseeded, views, inWindow, shown>>
vars == <<slotVars, inFlight, onscreen, count, call, gpuVars, flushes,
          flushVars, viewVars>>

Calls == {"none", "checked", "dispatch"}
Stages == {"unused", "running", "done", "store", "dispatch"}

TypeOK ==
  /\ frames \in [Slots -> Frames]
  /\ dirty \subseteq Slots /\ inFlight \subseteq Slots
  /\ flushScheduled \in BOOLEAN /\ flushing \in BOOLEAN
  /\ onscreen \in Nat /\ count \in Frames /\ flushes \in {0, 1}
  /\ call \in [Threads -> Calls]
  /\ stage \in [Publications -> Stages]
  /\ unread \in [Publications -> SUBSET Slots]
  /\ storing \in [Publications -> Slots \cup {NoSlot}]
  /\ batch \subseteq Slots /\ copy \in [Slots -> Frames]
  /\ seeding \in views \cup {NoView} /\ unseeded \subseteq Slots
  /\ views \subseteq Views /\ inWindow \subseteq Views
  /\ shown \in [Views -> [Slots -> Frames]]

Init ==
  /\ frames = [s \in Slots |-> 0] /\ dirty = {} /\ flushScheduled = FALSE
  /\ inFlight = {} /\ onscreen = 0 /\ count = 0
  /\ call = [t \in Threads |-> "none"]
  /\ stage = [n \in Publications |-> "unused"]
  /\ unread = [n \in Publications |-> {}]
  /\ storing = [n \in Publications |-> NoSlot]
  /\ flushes = 0 /\ flushing = FALSE /\ batch = {} /\ copy = [s \in Slots |-> 0]
  /\ seeding = NoView /\ unseeded = {} /\ views = {} /\ inWindow = {}
  /\ shown = [v \in Views |-> [s \in Slots |-> 0]]

----------------------------------------------------------------------------
(* storeFrame:inSlot:, its hold of the lock.  The caller that finds no     *)
(* flush scheduled owes the main queue one, once it has let the lock go.   *)
StoreCoalesced(s, frame) ==  \* wrong: only the first slot is marked
  /\ frames' = [frames EXCEPT ![s] = frame] /\ flushScheduled' = TRUE
  /\ dirty' = IF flushScheduled THEN dirty ELSE {s}
Store(s, frame) ==
  /\ frames' = [frames EXCEPT ![s] = frame]
  /\ dirty' = dirty \cup {s}
  /\ flushScheduled' = TRUE

OwesAlways(scheduled) == TRUE  \* wrong: every store dispatches a block
Owes(scheduled) == ~scheduled

(* publishFrame:, publishCGImage: and publishImageBuffer:, or              *)
(* publishTextures: and the methods that end in it: a look at the count of *)
(* views on screen.  Without one the call returns NO.                      *)
FindsViewOnscreen(t) ==
  /\ call[t] = "none" /\ onscreen > 0 /\ count < MaxFrames
  /\ call' = [call EXCEPT ![t] = "checked"]
  /\ UNCHANGED <<slotVars, inFlight, onscreen, count, gpuVars, flushes,
                 flushVars, viewVars>>

AfterStore(t) ==
  call' = [call EXCEPT ![t] = IF Owes(flushScheduled) THEN "dispatch" ELSE "none"]

PublishFrame(t, s) ==
  /\ call[t] = "checked" /\ count < MaxFrames
  /\ count' = count + 1
  /\ Store(s, count + 1) /\ AfterStore(t)
  /\ UNCHANGED <<inFlight, onscreen, gpuVars, flushes, flushVars, viewVars>>

(* clearSlot:, and clearAllSlots slot by slot.                             *)
ClearSlot(t, s) ==
  /\ call[t] = "none"
  /\ Store(s, 0) /\ AfterStore(t)
  /\ UNCHANGED <<inFlight, onscreen, count, gpuVars, flushes, flushVars,
                 viewVars>>

DispatchFlush(t) ==
  /\ call[t] = "dispatch" /\ call' = [call EXCEPT ![t] = "none"]
  /\ flushes' = flushes + 1
  /\ UNCHANGED <<slotVars, inFlight, onscreen, count, gpuVars, flushVars,
                 viewVars>>

(* The locked part of publishTextures: copies are encoded for the slots    *)
(* asked for (those of one device, whose texture can be copied) that are   *)
(* not in flight, and these are in flight from now on.  That the device    *)
(* may have given no queue, or the queue no command buffer, goes unseen:   *)
(* the copies are encoded and committed to nil, and no handler is to come. *)
EncodableUnchecked(asked) == asked  \* wrong: slots in flight are not skipped
Encodable(asked) == asked \ inFlight

Encode(t, asked, buffer) ==
  /\ call[t] = "checked" /\ count < MaxFrames
  /\ call' = [call EXCEPT ![t] = "none"]
  /\ inFlight' = inFlight \cup Encodable(asked)
  /\ IF ~buffer \/ Encodable(asked) = {} THEN UNCHANGED <<count, stage, unread>>
       ELSE /\ count' = count + 1
            /\ unread' = [unread EXCEPT ![count + 1] = Encodable(asked)]
            /\ stage' = [stage EXCEPT ![count + 1] = "running"]
  /\ UNCHANGED <<slotVars, onscreen, storing, flushes, flushVars, viewVars>>

----------------------------------------------------------------------------
(* The GPU finishes a command buffer; buffers of different queues, a new   *)
(* one for each change of device, in any order.                            *)
Complete(n) ==
  /\ stage[n] = "running" /\ stage' = [stage EXCEPT ![n] = "done"]
  /\ UNCHANGED <<slotVars, inFlight, onscreen, count, call, unread, storing,
                 flushes, flushVars, viewVars>>

(* completeReadbacks:error:, for each readback: the slot is released, then *)
(* in another hold of the lock its frame is stored.  After an error, or    *)
(* when the texture cannot be read, there is no frame to store.            *)
ReleasedWhenRead(s, frame) == IF frame THEN inFlight \ {s} ELSE inFlight  \* wrong
Released(s, frame) == inFlight \ {s}

ReleaseSlot(n, s, frame) ==
  /\ stage[n] = "done" /\ s \in unread[n]
  /\ inFlight' = Released(s, frame)
  /\ unread' = [unread EXCEPT ![n] = @ \ {s}]
  /\ storing' = [storing EXCEPT ![n] = IF frame THEN s ELSE NoSlot]
  /\ stage' = [stage EXCEPT ![n] = IF frame THEN "store" ELSE @]
  /\ UNCHANGED <<slotVars, onscreen, count, call, flushes, flushVars, viewVars>>

StoreReadback(n) ==
  /\ stage[n] = "store"
  /\ Store(storing[n], n)
  /\ storing' = [storing EXCEPT ![n] = NoSlot]
  /\ stage' = [stage EXCEPT ![n] = IF Owes(flushScheduled) THEN "dispatch" ELSE "done"]
  /\ UNCHANGED <<inFlight, onscreen, count, call, unread, flushes, flushVars,
                 viewVars>>

DispatchReadback(n) ==
  /\ stage[n] = "dispatch" /\ stage' = [stage EXCEPT ![n] = "done"]
  /\ flushes' = flushes + 1
  /\ UNCHANGED <<slotVars, inFlight, onscreen, count, call, unread, storing,
                 flushVars, viewVars>>

----------------------------------------------------------------------------
(* The main thread does one thing at a time.                               *)
MainIdle == ~flushing /\ seeding = NoView

(* flushToViews, the locked part, then the views.                          *)
TakeBatchFlagged == UNCHANGED flushScheduled /\ dirty' = {}  \* wrong
TakeBatch == flushScheduled' = FALSE /\ dirty' = {}

BeginFlush ==
  /\ MainIdle /\ flushes > 0 /\ flushes' = flushes - 1
  /\ flushing' = TRUE /\ batch' = dirty
  /\ copy' = [s \in Slots |-> IF s \in dirty THEN frames[s] ELSE 0]
  /\ TakeBatch
  /\ UNCHANGED <<frames, inFlight, onscreen, count, call, gpuVars, viewVars>>

ShowBatch ==
  /\ flushing /\ flushing' = FALSE
  /\ shown' = [v \in Views |-> [s \in Slots |->
                 IF v \in views /\ s \in batch THEN copy[s] ELSE shown[v][s]]]
  /\ batch' = {} /\ copy' = [s \in Slots |-> 0]
  /\ UNCHANGED <<slotVars, inFlight, onscreen, count, call, gpuVars, flushes,
                 seeding, unseeded, views, inWindow>>

(* registerView:, with one hold of the lock for each slot.                 *)
RegisterView(v) ==
  /\ MainIdle /\ v \notin views
  /\ views' = views \cup {v} /\ seeding' = v /\ unseeded' = Slots
  /\ UNCHANGED <<slotVars, inFlight, onscreen, count, call, gpuVars, flushes,
                 flushVars, inWindow, shown>>

SeedSlot(s) ==
  /\ seeding # NoView /\ s \in unseeded
  /\ shown' = [shown EXCEPT ![seeding][s] = frames[s]]
  /\ unseeded' = unseeded \ {s}
  /\ UNCHANGED <<slotVars, inFlight, onscreen, count, call, gpuVars, flushes,
                 flushVars, seeding, views, inWindow>>

(* liveImageViewVisibilityDidChange: the registered views in a window.     *)
Recount(registered, windowed) == onscreen' = Cardinality(registered \cap windowed)

CountOnMoveOnly == UNCHANGED onscreen  \* wrong: no recount on registering
CountRegistered == Recount(views, inWindow)

FinishRegister ==
  /\ seeding # NoView /\ unseeded = {} /\ seeding' = NoView
  /\ CountRegistered
  /\ UNCHANGED <<slotVars, inFlight, count, call, gpuVars, flushes, flushVars,
                 unseeded, views, inWindow, shown>>

(* viewDidMoveToWindow: a view that is not registered yet tells nobody.    *)
MoveView(v) ==
  /\ MainIdle
  /\ inWindow' = IF v \in inWindow THEN inWindow \ {v} ELSE inWindow \cup {v}
  /\ IF v \in views THEN Recount(views, inWindow') ELSE UNCHANGED onscreen
  /\ UNCHANGED <<slotVars, inFlight, count, call, gpuVars, flushes, flushVars,
                 seeding, unseeded, views, shown>>

(* A view out of its window is released; _views holds it weakly.           *)
ReleaseView(v) ==
  /\ MainIdle /\ v \in views \ inWindow
  /\ views' = views \ {v}
  /\ shown' = [shown EXCEPT ![v] = [s \in Slots |-> 0]]
  /\ UNCHANGED <<slotVars, inFlight, onscreen, count, call, gpuVars, flushes,
                 flushVars, seeding, unseeded, inWindow>>

ThreadStep(t) ==
  \/ FindsViewOnscreen(t)
  \/ \E s \in Slots : PublishFrame(t, s) \/ ClearSlot(t, s)
  \/ \E asked \in SUBSET Slots, buffer \in BOOLEAN : Encode(t, asked, buffer)
  \/ DispatchFlush(t)

Handler(n) ==
  \/ \E s \in Slots, frame \in BOOLEAN : ReleaseSlot(n, s, frame)
  \/ StoreReadback(n) \/ DispatchReadback(n)

MainGoesOn ==
  ShowBatch \/ FinishRegister \/ \E s \in Slots : SeedSlot(s)

Next ==
  \/ \E t \in Threads : ThreadStep(t)
  \/ \E n \in Publications : Complete(n) \/ Handler(n)
  \/ BeginFlush \/ MainGoesOn
  \/ \E v \in Views : RegisterView(v) \/ MoveView(v) \/ ReleaseView(v)

(* A thread in the middle of a call goes on, the GPU finishes what was     *)
(* committed, Metal runs the handlers, and the main thread finishes what   *)
(* it does and, since its queue is in order, gets to a flush in the end.   *)
Fairness ==
  /\ \A t \in Threads : WF_vars(DispatchFlush(t))
  /\ \A n \in Publications : WF_vars(Complete(n)) /\ WF_vars(Handler(n))
  /\ WF_vars(MainGoesOn) /\ SF_vars(BeginFlush)

Spec == Init /\ [][Next]_vars /\ Fairness

----------------------------------------------------------------------------
(* Those who will run a flush, or have it run: a thread or a completion    *)
(* handler that has yet to dispatch it, and the block on the main queue.   *)
Owing == {[by |-> "thread", of |-> t] : t \in {u \in Threads : call[u] = "dispatch"}}
         \cup {[by |-> "handler", of |-> n] : n \in {m \in Publications : stage[m] = "dispatch"}}

(* Redraws are coalesced and none is lost: while any slot is dirty exactly *)
(* one flush is on its way, and never two, whichever threads store while   *)
(* another dispatches or the main thread takes its batch.                  *)
FlushOnItsWay ==
  /\ dirty # {} => flushScheduled
  /\ IF flushScheduled
       THEN \/ flushes = 1 /\ Owing = {}
            \/ flushes = 0 /\ \E o \in Owing : Owing = {o}
       ELSE flushes = 0 /\ Owing = {}

(* A view differs from the store only in slots that a flush still brings   *)
(* it: dirty ones, and those of the batch the main thread holds.  This is  *)
(* so for a view registered while frames arrive, too.                      *)
Brought(s) == s \in dirty \/ (flushing /\ s \in batch /\ copy[s] = frames[s])
ViewsCatchUp ==
  \A v \in views, s \in Slots :
    (v = seeding /\ s \in unseeded) \/ shown[v][s] = frames[s] \/ Brought(s)

(* No staging texture is copied into while an earlier copy of its slot is  *)
(* being read: one outstanding readback per slot at most, and the slots of *)
(* the outstanding ones are marked in _inFlightSlots.  Marks of copies     *)
(* that were committed to nil are there besides.                           *)
StagingExclusive ==
  /\ UNION {unread[n] : n \in Publications} \subseteq inFlight
  /\ \A n, m \in Publications : n # m => unread[n] \cap unread[m] = {}

(* What the render threads are told of the views is right whenever none is *)
(* being registered, also for a view that was in a window before it was.   *)
OnscreenCountRight == seeding = NoView => onscreen = Cardinality(views \cap inWindow)

(* Each registered view ends up showing what its slot holds.               *)
Behind(v, s) == v \in views /\ shown[v][s] # frames[s]
EveryFrameShown == \A v \in Views, s \in Slots : Behind(v, s) ~> ~Behind(v, s)

(* A slot whose copy a command buffer carries does not stay in flight, or  *)
(* no texture would be published in it again; GPU errors and frames that   *)
(* cannot be read release it too.  (A slot whose copy was committed to nil *)
(* does stay.)                                                             *)
Carried(s) == \E n \in Publications : s \in unread[n]
SlotsReleased == \A s \in Slots : Carried(s) ~> s \notin inFlight
=============================================================================
