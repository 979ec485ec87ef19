-------------------------- MODULE LiveImageProofs --------------------------
(***************************************************************************)
(* The safety invariants of LiveImage hold for any threads, views, slots   *)
(* and number of publications.                                             *)
(*                                                                         *)
(* Three facts the invariants rest on are not among them: a publication    *)
(* whose number is not yet given out has left no trace, a handler about to *)
(* store knows its slot, and a batch that is older than the store has its  *)
(* slot marked dirty again.                                                *)
(***************************************************************************)
EXTENDS LiveImage, FiniteSetTheorems, TLAPS

Fresh == \A n \in Publications : n > count => stage[n] = "unused" /\ unread[n] = {}
StoresASlot == \A n \in Publications : stage[n] = "store" => storing[n] \in Slots
BatchCurrent ==
  \A s \in Slots : flushing /\ s \in batch => copy[s] = frames[s] \/ s \in dirty

IInv == /\ TypeOK /\ Fresh /\ StoresASlot /\ BatchCurrent
        /\ FlushOnItsWay /\ ViewsCatchUp /\ StagingExclusive /\ OnscreenCountRight

(* Initially nothing is stored, published or shown.                        *)
LEMMA InitIInv == Init => IInv
<1> SUFFICES ASSUME Init PROVE IInv
  OBVIOUS
<1> USE LiveImageAssumption DEF Init
<1>1. TypeOK
  <2>1. 0 \in Frames
    BY DEF Frames, LiveImageAssumption
  <2>2. [s \in Slots |-> 0] \in [Slots -> Frames]
    BY <2>1
  <2> QED
    BY <2>1, <2>2 DEF TypeOK, Publications, Calls, Stages
<1>2. Fresh /\ StoresASlot /\ BatchCurrent /\ ViewsCatchUp /\ StagingExclusive
  BY DEF Fresh, StoresASlot, BatchCurrent, ViewsCatchUp, StagingExclusive, Brought,
         Publications
<1>3. FlushOnItsWay
  BY DEF FlushOnItsWay, Owing, Publications
<1>4. OnscreenCountRight
  BY FS_EmptySet DEF OnscreenCountRight
<1> QED
  BY <1>1, <1>2, <1>3, <1>4 DEF IInv

(* What a store does to the slots keeps the views' debts: the slot it      *)
(* writes is dirty afterwards, every other slot is as it was.              *)
LEMMA StoreKeepsDebts ==
  ASSUME IInv, NEW s \in Slots, NEW f \in Frames, Store(s, f),
         UNCHANGED <<flushVars, viewVars>>
  PROVE  BatchCurrent' /\ ViewsCatchUp'
BY DEF IInv, TypeOK, Store, BatchCurrent, ViewsCatchUp, Brought, flushVars, viewVars

(* Nobody owes a flush more or less.                                       *)
LEMMA OwingKept ==
  ASSUME \A t \in Threads : call'[t] = "dispatch" <=> call[t] = "dispatch",
         \A n \in Publications : stage'[n] = "dispatch" <=> stage[n] = "dispatch"
  PROVE  Owing' = Owing
BY DEF Owing

(* A step that leaves the slots, the flushes and the debts alone keeps     *)
(* FlushOnItsWay.                                                          *)
LEMMA FlushKept ==
  ASSUME FlushOnItsWay, UNCHANGED <<slotVars, flushes>>, Owing' = Owing
  PROVE  FlushOnItsWay'
BY DEF FlushOnItsWay, slotVars

(* A store dispatches exactly when nothing was on its way.                 *)
LEMMA ThreadStoreStep ==
  ASSUME IInv, NEW t \in Threads, NEW s \in Slots,
         PublishFrame(t, s) \/ ClearSlot(t, s)
  PROVE  IInv'
<1> USE LiveImageAssumption DEF IInv
<1>1. PICK f \in Frames : Store(s, f)
  BY DEF PublishFrame, ClearSlot, TypeOK, Frames
<1>2. /\ call[t] # "dispatch" /\ AfterStore(t)
      /\ UNCHANGED <<inFlight, onscreen, gpuVars, flushes, flushVars, viewVars>>
      /\ count' \in count .. MaxFrames
  BY DEF PublishFrame, ClearSlot, TypeOK, Frames
<1>3. TypeOK'
  BY <1>1, <1>2 DEF TypeOK, Store, AfterStore, Calls, Frames, gpuVars, flushVars, viewVars
<1>4. Fresh' /\ StoresASlot' /\ StagingExclusive'
  BY <1>2 DEF Fresh, StoresASlot, StagingExclusive, TypeOK, gpuVars, Frames, Publications
<1>5. BatchCurrent' /\ ViewsCatchUp'
  BY <1>1, <1>2, StoreKeepsDebts
<1>6. FlushOnItsWay'
  <2>1. CASE flushScheduled
    <3>1. Owing' = Owing
      BY <1>2, <2>1, OwingKept DEF AfterStore, Owes, TypeOK, gpuVars
    <3> QED
      BY <1>1, <1>2, <2>1, <3>1 DEF FlushOnItsWay, Store
  <2>2. CASE ~flushScheduled
    <3>1. Owing = {} /\ flushes = 0
      BY <2>2 DEF FlushOnItsWay
    <3>2. Owing' = {[by |-> "thread", of |-> t]}
      BY <1>2, <2>2, <3>1 DEF Owing, AfterStore, Owes, TypeOK, gpuVars
    <3> QED
      BY <1>1, <1>2, <3>1, <3>2 DEF FlushOnItsWay, Store
  <2> QED
    BY <2>1, <2>2
<1>7. OnscreenCountRight'
  BY <1>2 DEF OnscreenCountRight, viewVars
<1> QED
  BY <1>3, <1>4, <1>5, <1>6, <1>7

(* The other store: by a completion handler, of the frame it has read.     *)
LEMMA StoreReadbackStep ==
  ASSUME IInv, NEW n \in Publications, StoreReadback(n)
  PROVE  IInv'
<1> USE LiveImageAssumption DEF IInv
<1>1. Store(storing[n], n) /\ storing[n] \in Slots /\ n \in Frames
  BY DEF StoreReadback, StoresASlot, Frames, Publications, LiveImageAssumption
<1>2. /\ UNCHANGED <<inFlight, onscreen, count, call, unread, flushes, flushVars, viewVars>>
      /\ stage[n] = "store"
      /\ stage' = [stage EXCEPT ![n] = IF Owes(flushScheduled) THEN "dispatch" ELSE "done"]
      /\ storing' = [storing EXCEPT ![n] = NoSlot]
  BY DEF StoreReadback
<1>3. TypeOK'
  BY <1>1, <1>2 DEF TypeOK, Store, Stages, Frames, flushVars, viewVars
<1>4. Fresh' /\ StoresASlot' /\ StagingExclusive'
  BY <1>2 DEF Fresh, StoresASlot, StagingExclusive, TypeOK, Owes
<1>5. BatchCurrent' /\ ViewsCatchUp'
  BY <1>1, <1>2, StoreKeepsDebts
<1>6. FlushOnItsWay'
  <2>1. CASE flushScheduled
    <3>1. Owing' = Owing
      BY <1>2, <2>1, OwingKept DEF Owes, TypeOK
    <3> QED
      BY <1>1, <1>2, <2>1, <3>1 DEF FlushOnItsWay, Store
  <2>2. CASE ~flushScheduled
    <3>1. Owing = {} /\ flushes = 0
      BY <2>2 DEF FlushOnItsWay
    <3>2. Owing' = {[by |-> "handler", of |-> n]}
      BY <1>2, <2>2, <3>1 DEF Owing, Owes, TypeOK
    <3> QED
      BY <1>1, <1>2, <3>1, <3>2 DEF FlushOnItsWay, Store
  <2> QED
    BY <2>1, <2>2
<1>7. OnscreenCountRight'
  BY <1>2 DEF OnscreenCountRight, viewVars
<1> QED
  BY <1>3, <1>4, <1>5, <1>6, <1>7

(* A dispatch turns the one debt into the one block.                       *)
LEMMA DispatchStep ==
  ASSUME IInv, (\E t \in Threads : DispatchFlush(t))
               \/ (\E n \in Publications : DispatchReadback(n))
  PROVE  IInv'
<1> USE DEF IInv
<1>1. /\ UNCHANGED <<slotVars, inFlight, onscreen, count, unread, storing, flushVars, viewVars>>
      /\ flushes' = flushes + 1
  BY DEF DispatchFlush, DispatchReadback, gpuVars
<1>2. /\ call' \in [Threads -> Calls] /\ stage' \in [Publications -> Stages]
      /\ \A n \in Publications : stage'[n] = stage[n] \/ (stage[n] = "dispatch" /\ stage'[n] = "done")
  BY DEF DispatchFlush, DispatchReadback, gpuVars, TypeOK, Calls, Stages
<1>3. /\ flushScheduled /\ flushes = 0 /\ Owing' = {}
  <2>1. CASE \E t \in Threads : DispatchFlush(t)
    <3>1. PICK t \in Threads : DispatchFlush(t)
      BY <2>1
    <3>2. [by |-> "thread", of |-> t] \in Owing
      BY <3>1 DEF DispatchFlush, Owing
    <3>3. flushScheduled /\ flushes = 0 /\ Owing = {[by |-> "thread", of |-> t]}
      BY <3>2 DEF FlushOnItsWay
    <3>4. Owing' \subseteq Owing \ {[by |-> "thread", of |-> t]}
      BY <3>1 DEF DispatchFlush, Owing, TypeOK, gpuVars
    <3> QED
      BY <3>3, <3>4
  <2>2. CASE \E n \in Publications : DispatchReadback(n)
    <3>1. PICK n \in Publications : DispatchReadback(n)
      BY <2>2
    <3>2. [by |-> "handler", of |-> n] \in Owing
      BY <3>1 DEF DispatchReadback, Owing
    <3>3. flushScheduled /\ flushes = 0 /\ Owing = {[by |-> "handler", of |-> n]}
      BY <3>2 DEF FlushOnItsWay
    <3>4. Owing' \subseteq Owing \ {[by |-> "handler", of |-> n]}
      BY <3>1 DEF DispatchReadback, Owing, TypeOK
    <3> QED
      BY <3>3, <3>4
  <2> QED
    BY <2>1, <2>2
<1>4. TypeOK'
  BY <1>1, <1>2, <1>3 DEF TypeOK, slotVars, flushVars, viewVars
<1>5. FlushOnItsWay'
  BY <1>1, <1>3 DEF FlushOnItsWay, slotVars
<1>6. Fresh' /\ StoresASlot' /\ StagingExclusive'
  BY <1>1, <1>2 DEF Fresh, StoresASlot, StagingExclusive
<1>7. BatchCurrent' /\ ViewsCatchUp' /\ OnscreenCountRight'
  BY <1>1 DEF BatchCurrent, ViewsCatchUp, Brought, OnscreenCountRight, slotVars,
              flushVars, viewVars
<1> QED
  BY <1>4, <1>5, <1>6, <1>7

(* Looking for a view, encoding, completing and releasing touch neither    *)
(* the slots nor the flush.                                                *)
LEMMA CopyStep ==
  ASSUME IInv,
         \/ \E t \in Threads : FindsViewOnscreen(t)
         \/ \E t \in Threads, asked \in SUBSET Slots, buffer \in BOOLEAN : Encode(t, asked, buffer)
         \/ \E n \in Publications : Complete(n)
         \/ \E n \in Publications, s \in Slots, f \in BOOLEAN : ReleaseSlot(n, s, f)
  PROVE  IInv'
<1> USE LiveImageAssumption DEF IInv
<1>1. UNCHANGED <<slotVars, onscreen, flushes, flushVars, viewVars>>
  BY DEF FindsViewOnscreen, Encode, Complete, ReleaseSlot
<1>2. /\ TypeOK' /\ Fresh' /\ StoresASlot' /\ StagingExclusive'
      /\ \A t \in Threads : call'[t] = "dispatch" <=> call[t] = "dispatch"
      /\ \A n \in Publications : stage'[n] = "dispatch" <=> stage[n] = "dispatch"
  <2> USE <1>1 DEF slotVars, flushVars, viewVars, gpuVars, TypeOK, Fresh, StoresASlot,
                   StagingExclusive, Calls, Stages
  <2>1. CASE \E t \in Threads : FindsViewOnscreen(t)
    BY <2>1 DEF FindsViewOnscreen
  <2>2. CASE \E t \in Threads, asked \in SUBSET Slots, buffer \in BOOLEAN : Encode(t, asked, buffer)
    <3>1. PICK t \in Threads, asked \in SUBSET Slots, buffer \in BOOLEAN : Encode(t, asked, buffer)
      BY <2>2
    <3>2. CASE ~buffer \/ Encodable(asked) = {}
      <4>1. /\ inFlight' = inFlight \cup Encodable(asked)
            /\ UNCHANGED <<count, stage, unread, storing>>
            /\ call' = [call EXCEPT ![t] = "none"] /\ call[t] = "checked"
        BY <3>1, <3>2 DEF Encode
      <4>2. Encodable(asked) \subseteq Slots
        BY DEF Encodable
      <4> QED
        BY <4>1, <4>2
    <3>3. CASE buffer /\ Encodable(asked) # {}
      <4>1. /\ count + 1 \in Publications /\ count' = count + 1
            /\ stage[count + 1] = "unused" /\ unread[count + 1] = {}
            /\ inFlight' = inFlight \cup Encodable(asked)
            /\ unread' = [unread EXCEPT ![count + 1] = Encodable(asked)]
            /\ stage' = [stage EXCEPT ![count + 1] = "running"]
            /\ call' = [call EXCEPT ![t] = "none"] /\ call[t] = "checked"
            /\ storing' = storing
        BY <3>1, <3>3 DEF Encode, Frames, Publications, LiveImageAssumption
      <4>2. Encodable(asked) \subseteq Slots \ inFlight
        BY DEF Encodable
      <4>3. TypeOK'
        BY <4>1, <4>2 DEF Frames, Publications
      <4>4. Fresh' /\ StoresASlot'
        BY <4>1 DEF Frames, Publications
      <4>5. StagingExclusive'
        BY <4>1, <4>2
      <4> QED
        BY <4>1, <4>3, <4>4, <4>5
    <3> QED
      BY <3>2, <3>3
  <2>3. CASE \E n \in Publications : Complete(n)
    BY <2>3 DEF Complete
  <2>4. CASE \E n \in Publications, s \in Slots, f \in BOOLEAN : ReleaseSlot(n, s, f)
    BY <2>4 DEF ReleaseSlot, Released
  <2> QED
    BY <2>1, <2>2, <2>3, <2>4
<1>3. FlushOnItsWay'
  BY <1>1, <1>2, OwingKept, FlushKept
<1>4. BatchCurrent' /\ ViewsCatchUp' /\ OnscreenCountRight'
  BY <1>1 DEF BatchCurrent, ViewsCatchUp, Brought, OnscreenCountRight, slotVars,
              flushVars, viewVars
<1> QED
  BY <1>2, <1>3, <1>4

(* The main thread takes its batch, with the flag and the dirty slots, and *)
(* shows it.                                                               *)
LEMMA BeginFlushStep == IInv /\ BeginFlush => IInv'
<1> SUFFICES ASSUME IInv, BeginFlush PROVE IInv'
  OBVIOUS
<1> USE DEF IInv, BeginFlush, TakeBatch, MainIdle, gpuVars, viewVars
<1>1. flushes = 1 /\ Owing = {}
  BY DEF FlushOnItsWay, TypeOK
<1>2. TypeOK'
  <2>1. copy' \in [Slots -> Frames]
    BY LiveImageAssumption DEF TypeOK, Frames, LiveImageAssumption
  <2>2. flushes' = 0
    BY <1>1
  <2>3. batch' \subseteq Slots /\ dirty' \subseteq Slots
    BY DEF TypeOK
  <2> QED
    BY <2>1, <2>2, <2>3 DEF TypeOK
<1>3. Fresh' /\ StoresASlot' /\ StagingExclusive'
  BY DEF Fresh, StoresASlot, StagingExclusive
<1>4. Owing' = Owing
  BY OwingKept
<1>5. FlushOnItsWay'
  BY <1>1, <1>4 DEF FlushOnItsWay
<1>6. BatchCurrent' /\ ViewsCatchUp' /\ OnscreenCountRight'
  BY DEF BatchCurrent, ViewsCatchUp, Brought, OnscreenCountRight, TypeOK
<1> QED
  BY <1>2, <1>3, <1>5, <1>6

LEMMA ShowBatchStep == IInv /\ ShowBatch => IInv'
<1> SUFFICES ASSUME IInv, ShowBatch PROVE IInv'
  OBVIOUS
<1> USE DEF IInv, ShowBatch, slotVars, gpuVars
<1>1. TypeOK'
  <2>1. copy' \in [Slots -> Frames]
    BY LiveImageAssumption DEF Frames, LiveImageAssumption
  <2>2. shown' \in [Views -> [Slots -> Frames]]
    BY DEF TypeOK
  <2> QED
    BY <2>1, <2>2 DEF TypeOK
<1>2. Fresh' /\ StoresASlot' /\ StagingExclusive' /\ Owing' = Owing
  BY OwingKept DEF Fresh, StoresASlot, StagingExclusive
<1>3. FlushOnItsWay'
  BY <1>2, FlushKept
<1>4. BatchCurrent' /\ OnscreenCountRight'
  BY DEF BatchCurrent, OnscreenCountRight
<1>5. ViewsCatchUp'
  BY DEF BatchCurrent, ViewsCatchUp, Brought, TypeOK
<1> QED
  BY <1>1, <1>2, <1>3, <1>4, <1>5

(* What happens to the views themselves, on the main thread.               *)
LEMMA ViewStep ==
  ASSUME IInv,
         \/ FinishRegister
         \/ \E s \in Slots : SeedSlot(s)
         \/ \E v \in Views : RegisterView(v) \/ MoveView(v) \/ ReleaseView(v)
  PROVE  IInv'
<1> USE LiveImageAssumption DEF IInv
<1>1. UNCHANGED <<slotVars, inFlight, count, call, gpuVars, flushes, flushVars>>
  BY DEF FinishRegister, SeedSlot, RegisterView, MoveView, ReleaseView
<1>2. Fresh' /\ StoresASlot' /\ StagingExclusive' /\ BatchCurrent' /\ Owing' = Owing
  BY <1>1, OwingKept DEF Fresh, StoresASlot, StagingExclusive, BatchCurrent, slotVars,
                         gpuVars, flushVars
<1>3. FlushOnItsWay'
  BY <1>1, <1>2, FlushKept
<1>4. \A seen \in SUBSET Views : Cardinality(seen) \in Nat
  BY FS_Subset, FS_CardinalityType DEF LiveImageAssumption
<1>5. TypeOK' /\ ViewsCatchUp' /\ OnscreenCountRight'
  <2> USE <1>1 DEF slotVars, gpuVars, flushVars, TypeOK, ViewsCatchUp, Brought,
                   OnscreenCountRight
  <2>1. CASE FinishRegister
    BY <2>1, <1>4 DEF FinishRegister, CountRegistered, Recount
  <2>2. CASE \E s \in Slots : SeedSlot(s)
    <3>1. PICK s \in Slots : SeedSlot(s)
      BY <2>2
    <3>2. TypeOK' /\ OnscreenCountRight'
      BY <3>1 DEF SeedSlot, LiveImageAssumption
    <3>3. ViewsCatchUp'
      BY <3>1 DEF SeedSlot
    <3> QED
      BY <3>2, <3>3
  <2>3. CASE \E v \in Views : RegisterView(v)
    BY <2>3 DEF RegisterView, MainIdle, LiveImageAssumption
  <2>4. CASE \E v \in Views : MoveView(v)
    <3>1. PICK v \in Views : MoveView(v)
      BY <2>4
    <3>2. v \notin views => views \cap inWindow' = views \cap inWindow
      BY <3>1 DEF MoveView
    <3>3. inWindow' \subseteq Views /\ onscreen' \in Nat
      <4>1. inWindow' \subseteq Views
        BY <3>1 DEF MoveView
      <4>2. Cardinality(views \cap inWindow') \in Nat
        BY <1>4
      <4> QED
        BY <3>1, <4>1, <4>2 DEF MoveView, Recount
    <3>4. TypeOK'
      BY <3>1, <3>3 DEF MoveView
    <3>5. OnscreenCountRight'
      BY <3>1, <3>2 DEF MoveView, Recount, MainIdle
    <3>6. ViewsCatchUp'
      BY <3>1 DEF MoveView
    <3> QED
      BY <3>4, <3>5, <3>6
  <2>5. CASE \E v \in Views : ReleaseView(v)
    <3>1. PICK v \in Views : ReleaseView(v)
      BY <2>5
    <3>2. views' \cap inWindow' = views \cap inWindow
      BY <3>1 DEF ReleaseView
    <3>3. shown' \in [Views -> [Slots -> Frames]]
      BY <3>1 DEF ReleaseView, Frames, LiveImageAssumption
    <3>4. TypeOK' /\ OnscreenCountRight'
      BY <3>1, <3>2, <3>3 DEF ReleaseView, MainIdle
    <3>5. ViewsCatchUp'
      BY <3>1 DEF ReleaseView, MainIdle
    <3> QED
      BY <3>4, <3>5
  <2> QED
    BY <2>1, <2>2, <2>3, <2>4, <2>5
<1> QED
  BY <1>2, <1>3, <1>5

(* The invariant is inductive.                                             *)
LEMMA NextIInv == IInv /\ [Next]_vars => IInv'
<1> SUFFICES ASSUME IInv, [Next]_vars PROVE IInv'
  OBVIOUS
<1>1. CASE \E t \in Threads : ThreadStep(t)
  BY <1>1, ThreadStoreStep, DispatchStep, CopyStep DEF ThreadStep
<1>2. CASE \E n \in Publications : Complete(n) \/ Handler(n)
  BY <1>2, StoreReadbackStep, DispatchStep, CopyStep DEF Handler
<1>3. CASE BeginFlush \/ MainGoesOn
  BY <1>3, BeginFlushStep, ShowBatchStep, ViewStep DEF MainGoesOn
<1>4. CASE \E v \in Views : RegisterView(v) \/ MoveView(v) \/ ReleaseView(v)
  BY <1>4, ViewStep
<1>5. CASE UNCHANGED vars
  <2>1. Owing' = Owing
    BY <1>5 DEF Owing, vars, gpuVars
  <2> QED
    BY <1>5, <2>1 DEF vars, slotVars, gpuVars, flushVars, viewVars, IInv, TypeOK, Fresh, StoresASlot, BatchCurrent,
         FlushOnItsWay, ViewsCatchUp, Brought, StagingExclusive, OnscreenCountRight
<1> QED
  BY <1>1, <1>2, <1>3, <1>4, <1>5 DEF Next

LEMMA Invariance == Spec => []IInv
<1> QED
  BY InitIInv, NextIInv, PTL DEF Spec

(* The variables keep their types; two flush blocks are never queued.      *)
THEOREM LiveImageTypeCorrect == Spec => []TypeOK
<1>1. IInv => TypeOK
  BY DEF IInv
<1> QED
  BY <1>1, Invariance, PTL

(* storeFrame and flushToViews: while a slot is dirty exactly one flush is *)
(* on its way.                                                             *)
THEOREM RedrawsCoalesced == Spec => []FlushOnItsWay
<1>1. IInv => FlushOnItsWay
  BY DEF IInv
<1> QED
  BY <1>1, Invariance, PTL

(* registerView, storeFrame and flushToViews: a view that differs from the *)
(* store is still owed the difference.                                     *)
THEOREM ViewsNeverLeftBehind == Spec => []ViewsCatchUp
<1>1. IInv => ViewsCatchUp
  BY DEF IInv
<1> QED
  BY <1>1, Invariance, PTL

(* publishTextures and completeReadbacks: one outstanding readback for a   *)
(* slot.                                                                   *)
THEOREM StagingNeverShared == Spec => []StagingExclusive
<1>1. IInv => StagingExclusive
  BY DEF IInv
<1> QED
  BY <1>1, Invariance, PTL

(* liveImageViewVisibilityDidChange and registerView: the count the render *)
(* threads read.                                                           *)
THEOREM OnscreenCounted == Spec => []OnscreenCountRight
<1>1. IInv => OnscreenCountRight
  BY DEF IInv
<1> QED
  BY <1>1, Invariance, PTL
=============================================================================
