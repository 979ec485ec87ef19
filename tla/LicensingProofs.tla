-------------------------- MODULE LicensingProofs ---------------------------
(***************************************************************************)
(* Proofs about the observation of a provider, for any products, provider  *)
(* threads and edits.                                                      *)
(***************************************************************************)
EXTENDS Licensing, TLAPS

Calls == {"clear", "stop", "start", "read", "toggle", "buttons"}

(* A handler that starts an observation has stopped the one before in the  *)
(* call before, and one that stops starts again.                           *)
StopsThenStarts ==
  \A k \in 1..Len(host) :
    /\ host[k] = "start" /\ k > 1 => host[k - 1] = "stop"
    /\ host[k] = "stop" => k < Len(host) /\ host[k + 1] = "start"

NothingObserved == host # <<>> /\ Head(host) = "start" => observed = NoProduct

(* What still has to happen before an active extension observes another    *)
(* product than its parameter names.                                       *)
Starts == \E k \in 1..Len(host) : host[k] = "start"
ObservesOrWill ==
  added /\ active =>
    observed = productID \/ Starts \/ "active" \in changed \/ "productID" \in changed

IInv == /\ TypeOK /\ StopsThenStarts /\ NothingObserved
        /\ NoLeakedObservation /\ ObservesOrWill

(* A call of a handler leaves the rest of it.                              *)
LEMMA HostCallTail ==
  ASSUME IInv, NEW name \in Calls, HostCall(name)
  PROVE  /\ host' \in Seq(Calls) /\ Len(host') = Len(host) - 1 /\ Len(host) \in Nat \ {0}
         /\ host[1] = name /\ \A k \in 1..Len(host') : host'[k] = host[k + 1]
         /\ StopsThenStarts'
         /\ host' # <<>> /\ Head(host') = "start" => name = "stop"
         /\ name # "start" => (Starts => Starts')
         /\ name = "stop" => Starts'
<1>1. /\ host' \in Seq(Calls) /\ Len(host') = Len(host) - 1 /\ Len(host) \in Nat \ {0}
      /\ host[1] = name /\ \A k \in 1..Len(host') : host'[k] = host[k + 1]
  BY DEF HostCall, IInv, TypeOK, Calls
<1>2. StopsThenStarts'
  BY <1>1 DEF IInv, StopsThenStarts
<1>3. host' # <<>> /\ Head(host') = "start" => name = "stop"
  <2> SUFFICES ASSUME host' # <<>>, Head(host') = "start" PROVE name = "stop"
    OBVIOUS
  <2>1. 2 \in 1..Len(host) /\ host[2] = "start"
    BY <1>1
  <2> QED
    BY <1>1, <2>1 DEF IInv, StopsThenStarts
<1>4. name # "start" => (Starts => Starts')
  <2> SUFFICES ASSUME name # "start", NEW k \in 1..Len(host), host[k] = "start" PROVE Starts'
    BY DEF Starts
  <2>1. k - 1 \in 1..Len(host') /\ host'[k - 1] = "start"
    BY <1>1
  <2> QED
    BY <2>1 DEF Starts
<1>5. name = "stop" => Starts'
  <2> SUFFICES ASSUME name = "stop" PROVE Starts'
    OBVIOUS
  <2>1. 1 \in 1..Len(host') /\ host'[1] = "start"
    BY <1>1 DEF IInv, StopsThenStarts
  <2> QED
    BY <2>1 DEF Starts
<1> QED
  BY <1>1, <1>2, <1>3, <1>4, <1>5

LEMMA InitIInv == Init => IInv
<1> SUFFICES ASSUME Init PROVE IInv
  OBVIOUS
<1>1. TypeOK
  <2>1. report \in [Reporters -> {Idle} \cup Reporting]
    BY DEF Init
  <2>2. host \in Seq({"clear", "stop", "start", "read", "toggle", "buttons"})
    BY DEF Init
  <2> QED
    BY <2>1, <2>2 DEF Init, TypeOK, Status, Named
<1>2. StopsThenStarts /\ NothingObserved /\ NoLeakedObservation /\ ObservesOrWill
  BY DEF Init, StopsThenStarts, NothingObserved, NoLeakedObservation, ObservesOrWill
<1> QED
  BY <1>1, <1>2 DEF IInv

(* Edits, and the handlers that answer them.                               *)
LEMMA EditKeeps ==
  ASSUME IInv, EditToggle \/ EditActive \/ \E p \in Named : EditProduct(p)
  PROVE  IInv'
<1> USE DEF IInv
<1>1. /\ added /\ changed' \subseteq Edits /\ changed \subseteq changed'
      /\ UNCHANGED <<truth, handlers, buttons, added, host, verdict, observed, cached, report>>
  BY DEF EditToggle, EditActive, EditProduct, Edit, TypeOK
<1>2. /\ productID' \in Named /\ active' \in BOOLEAN /\ toggle' \in BOOLEAN
      /\ active' # active => "active" \in changed'
      /\ productID' # productID => "productID" \in changed'
  BY DEF EditToggle, EditActive, EditProduct, Edit, TypeOK
<1>3. TypeOK'
  BY <1>1, <1>2 DEF TypeOK
<1>4. StopsThenStarts' /\ NothingObserved' /\ NoLeakedObservation'
  BY <1>1 DEF StopsThenStarts, NothingObserved, NoLeakedObservation
<1>5. ObservesOrWill'
  BY <1>1, <1>2 DEF ObservesOrWill, Starts
<1> QED
  BY <1>3, <1>4, <1>5

LEMMA HandlerKeeps ==
  ASSUME IInv, AddedToDocument \/ \E p \in changed : ParameterChanged(p)
  PROVE  IInv'
<1> USE DEF IInv
<1> DEFINE Handlers == {<<"stop", "start", "read", "toggle", "buttons">>, <<"read", "toggle">>,
                        <<"stop", "start">>, <<"clear", "stop", "start">>, <<>>}
<1>1. /\ UNCHANGED <<truth, handlers, productID, active, toggle, buttons, verdict, observed,
                     cached, report>>
      /\ added' \in BOOLEAN /\ changed' \subseteq Edits
  BY DEF AddedToDocument, ParameterChanged, TypeOK
<1>2. host' \in Handlers
  BY LicensingAssumption DEF AddedToDocument, ParameterChanged, HandlerOf, TypeOK
<1>3. \A h \in Handlers : h \in Seq(Calls)
  <2>1. \A name \in {"clear", "stop", "start", "read", "toggle", "buttons"} : name \in Calls
    BY DEF Calls
  <2>2. /\ <<"stop", "start", "read", "toggle", "buttons">> \in Seq(Calls)
        /\ <<"read", "toggle">> \in Seq(Calls)
    BY <2>1
  <2>3. /\ <<"stop", "start">> \in Seq(Calls) /\ <<"clear", "stop", "start">> \in Seq(Calls)
        /\ <<>> \in Seq(Calls)
    BY <2>1
  <2> QED
    BY <2>2, <2>3
<1>4. TypeOK'
  BY <1>1, <1>2, <1>3 DEF TypeOK, Calls
<1>5. StopsThenStarts' /\ NothingObserved'
  <2>1. CASE host' = <<"stop", "start", "read", "toggle", "buttons">>
    BY <2>1 DEF StopsThenStarts, NothingObserved
  <2>2. CASE host' = <<"clear", "stop", "start">>
    BY <2>2 DEF StopsThenStarts, NothingObserved
  <2>3. CASE host' = <<"stop", "start">>
    BY <2>3 DEF StopsThenStarts, NothingObserved
  <2>4. CASE host' = <<"read", "toggle">> \/ host' = <<>>
    BY <2>4 DEF StopsThenStarts, NothingObserved
  <2> QED
    BY <1>2, <2>1, <2>2, <2>3, <2>4
<1>6. NoLeakedObservation'
  BY <1>1 DEF NoLeakedObservation
<1>7. ObservesOrWill'
  <2>1. CASE AddedToDocument
    <3>1. active' => Starts'
      BY <2>1 DEF AddedToDocument, Starts
    <3> QED
      BY <3>1 DEF ObservesOrWill
  <2>2. ASSUME NEW p \in changed, ParameterChanged(p)
        PROVE  ObservesOrWill'
    <3>1. p = "active" \/ p = "productID" => (active' => Starts')
      BY <1>1, <2>2 DEF ParameterChanged, HandlerOf, Starts
    <3>2. ~Starts /\ changed' = changed \ {p} /\ UNCHANGED added
      BY <2>2 DEF ParameterChanged, Starts
    <3> QED
      BY <1>1, <3>1, <3>2 DEF ObservesOrWill
  <2> QED
    BY <2>1, <2>2
<1> QED
  BY <1>4, <1>5, <1>6, <1>7

(* The calls of a handler.                                                 *)
LEMMA HostCallKeeps ==
  ASSUME IInv, \/ StopObserving \/ StartObservingProduct \/ ClearCachedStatus
               \/ ReadStatus \/ WriteToggle \/ ApplyButtons
  PROVE  IInv'
<1> USE DEF IInv
<1>1. CASE StopObserving
  <2>1. HostCall("stop") /\ "stop" \in Calls
    BY <1>1 DEF StopObserving, Calls
  <2>2. /\ handlers' = handlers \ {observed} /\ observed' = NoProduct
        /\ UNCHANGED <<truth, productID, active, added, changed, toggle, buttons, verdict, cached, report>>
    BY <1>1 DEF StopObserving, parameterVars
  <2>3. TypeOK'
    BY <2>1, <2>2, HostCallTail DEF TypeOK, Calls, Named
  <2>4. StopsThenStarts' /\ NothingObserved' /\ Starts'
    BY <2>1, <2>2, HostCallTail DEF NothingObserved
  <2>5. NoLeakedObservation' /\ ObservesOrWill'
    BY <2>2, <2>4 DEF NoLeakedObservation, ObservesOrWill
  <2> QED
    BY <2>3, <2>4, <2>5
<1>2. CASE StartObservingProduct
  <2>1. HostCall("start") /\ "start" \in Calls
    BY <1>2 DEF StartObservingProduct, Calls
  <2>2. /\ handlers' = handlers \cup ({productID} \ {NoProduct}) /\ observed' = productID
        /\ UNCHANGED <<truth, productID, active, added, changed, toggle, buttons, verdict, cached, report>>
    BY <1>2 DEF StartObservingProduct, parameterVars
  <2>3. TypeOK'
    BY <2>1, <2>2, HostCallTail DEF TypeOK, Calls, Named
  <2>4. StopsThenStarts' /\ NothingObserved'
    BY <2>1, HostCallTail DEF NothingObserved
  <2>5. observed = NoProduct
    BY <2>1 DEF HostCall, NothingObserved
  <2>6. NoLeakedObservation' /\ ObservesOrWill'
    BY <2>2, <2>5, LicensingAssumption DEF NoLeakedObservation, ObservesOrWill, TypeOK
  <2> QED
    BY <2>3, <2>4, <2>6
<1>3. CASE ClearCachedStatus \/ ReadStatus \/ WriteToggle \/ ApplyButtons
  <2>1. PICK name \in Calls \ {"stop", "start"} : HostCall(name)
    BY <1>3 DEF ClearCachedStatus, ReadStatus, WriteToggle, ApplyButtons, Calls
  <2>2. /\ UNCHANGED <<truth, handlers, productID, active, added, changed, observed, report>>
        /\ toggle' \in BOOLEAN /\ buttons' \in BOOLEAN
    BY <1>3 DEF ClearCachedStatus, ReadStatus, WriteToggle, ApplyButtons, parameterVars, TypeOK,
       IsLicensed
  <2>3. verdict' \in Status /\ cached' \in {Nil} \cup [status : Status, of : Named]
    BY <1>3 DEF ClearCachedStatus, ReadStatus, WriteToggle, ApplyButtons, TypeOK, CachedNow
  <2>4. TypeOK'
    BY <2>1, <2>2, <2>3, HostCallTail DEF TypeOK, Calls
  <2>5. StopsThenStarts' /\ NothingObserved' /\ (Starts => Starts')
    BY <2>1, HostCallTail DEF NothingObserved
  <2>6. NoLeakedObservation' /\ ObservesOrWill'
    BY <2>2, <2>5 DEF NoLeakedObservation, ObservesOrWill
  <2> QED
    BY <2>4, <2>5, <2>6
<1> QED
  BY <1>1, <1>2, <1>3

(* Reports and reads of other threads touch neither the handlers' calls    *)
(* nor what is observed.                                                   *)
LEMMA OthersKeep ==
  ASSUME IInv, RenderReads \/ (\E r \in Reporters : ReporterStep(r)) \/ UNCHANGED vars
  PROVE  IInv'
<1> USE DEF IInv
<1>1. UNCHANGED <<handlers, productID, active, added, changed, host, verdict, observed>>
  BY DEF RenderReads, ReporterStep, StatusChanges, DeactivateLicense, Reports, ReportStep,
         parameterVars, vars
<1>2. CASE RenderReads \/ UNCHANGED vars
  <2>1. cached' \in {Nil} \cup [status : Status, of : Named]
        /\ UNCHANGED <<truth, toggle, buttons, report>>
    BY <1>2 DEF RenderReads, vars, TypeOK, CachedNow
  <2> QED
    BY <1>1, <2>1 DEF TypeOK, StopsThenStarts, NothingObserved, NoLeakedObservation,
       ObservesOrWill, Starts
<1>3. ASSUME NEW r \in Reporters, ReporterStep(r)
      PROVE  IInv'
  <2>1. truth' \in [Named -> Status]
    BY <1>3 DEF ReporterStep, StatusChanges, DeactivateLicense, ReportStep, TypeOK, Status, Named
  <2>2. ASSUME NEW p \in Named, Reports(r, p)
        PROVE  report' \in [Reporters -> {Idle} \cup Reporting]
    <3>1. [left |-> <<"cache", "toggle", "buttons">>, status |-> truth'[p], of |-> p] \in Reporting
      BY <2>1 DEF Reporting
    <3> QED
      BY <2>2, <3>1 DEF Reports, TypeOK
  <2>3. CASE ReportStep(r)
    <3>1. report[r] \in Reporting
      BY <2>3 DEF ReportStep, TypeOK, Idle
    <3>2. Len(report[r].left) # 1 =>
            [report[r] EXCEPT !.left = Tail(@)] \in Reporting
      <4>1. report[r].left \in Seq({"cache", "toggle", "buttons"}) /\ report[r].left # <<>>
        BY <3>1 DEF Reporting
      <4>2. Len(report[r].left) # 1 =>
              Tail(report[r].left) \in Seq({"cache", "toggle", "buttons"}) \ {<<>>}
        <5> DEFINE left == report[r].left
                   names == {"cache", "toggle", "buttons"}
        <5> HIDE DEF left, names
        <5>1. left \in Seq(names) /\ left # <<>>
          BY <4>1 DEF left, names
        <5>2. /\ Tail(left) \in Seq(names) /\ Len(Tail(left)) = Len(left) - 1
              /\ Len(left) \in Nat
          BY <5>1
        <5>3. Len(left) # 1 => Tail(left) # <<>>
          BY <5>2, <5>1
        <5> QED
          BY <5>2, <5>3 DEF left, names
      <4> QED
        BY <3>1, <4>2 DEF Reporting
    <3>3. report' \in [Reporters -> {Idle} \cup Reporting]
      BY <2>3, <3>2 DEF ReportStep, TypeOK
    <3>4. /\ cached' \in {Nil} \cup [status : Status, of : Named]
          /\ toggle' \in BOOLEAN /\ buttons' \in BOOLEAN
      BY <2>3, <3>1 DEF ReportStep, TypeOK, Reporting, IsLicensed
    <3> QED
      BY <1>1, <2>1, <3>3, <3>4 DEF TypeOK, StopsThenStarts, NothingObserved,
         NoLeakedObservation, ObservesOrWill, Starts
  <2>4. CASE ~ReportStep(r)
    <3>1. UNCHANGED <<toggle, buttons, cached>>
          /\ (UNCHANGED report \/ \E p \in Named : Reports(r, p))
      BY <1>3, <2>4 DEF ReporterStep, StatusChanges, DeactivateLicense, Reports, TypeOK, Named
    <3>2. report' \in [Reporters -> {Idle} \cup Reporting]
      BY <2>2, <3>1 DEF TypeOK
    <3> QED
      BY <1>1, <2>1, <3>1, <3>2 DEF TypeOK, StopsThenStarts, NothingObserved,
         NoLeakedObservation, ObservesOrWill, Starts
  <2> QED
    BY <2>3, <2>4
<1> QED
  BY <1>2, <1>3

LEMMA Invariance == Spec => []IInv
<1>1. IInv /\ [Next]_vars => IInv'
  BY EditKeeps, HandlerKeeps, HostCallKeeps, OthersKeep DEF Next, HostStep
<1> QED
  BY InitIInv, <1>1, PTL DEF Spec

(* The parameters, the handlers' calls and the reports keep their types.   *)
THEOREM LicensingTypeCorrect == Spec => []TypeOK
BY Invariance, PTL DEF IInv

(* The provider holds a handler for the observed product, and no other     *)
(* (stopObserving names what was started, and comes before every start).   *)
THEOREM NoObservationLeaks == Spec => []NoLeakedObservation
BY Invariance, PTL DEF IInv

(* When every edit is handled, an active extension observes its product.   *)
THEOREM ObservationFollowsProduct == Spec => []ObservesCurrentProduct
<1>1. IInv => ObservesCurrentProduct
  BY DEF IInv, ObservesOrWill, Starts, ObservesCurrentProduct, HostQuiet
<1> QED
  BY Invariance, <1>1, PTL
=============================================================================
