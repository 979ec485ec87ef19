----------------------- MODULE ParameterStoresProofs -----------------------
(***************************************************************************)
(* Proofs about the stores, for any entries, configuration and number of   *)
(* edits.  What holds whichever writes the host refuses is proved first;   *)
(* MetaClean and FlushCaptures then need that it refuses none of those     *)
(* they are about.                                                         *)
(***************************************************************************)
EXTENDS ParameterStores, TLAPS

(* A flush runs in an open window, and its last part is that of            *)
(* FxGripParameterData: by then nothing is cached.                         *)
FlushInWindow ==
  /\ flushing # {} => window # "none" /\ "store" \in flushing
  /\ flushing # {} /\ "flags" \notin flushing => ~word.cache
  /\ phase = "adding" /\ flushing = {} => window = "none"

(* While an instance is brought up, the document it was opened from is     *)
(* what the host will give it, and then what the host holds.               *)
Documents ==
  /\ phase = "adding" => opened = document.meta
  /\ phase = "loaded" /\ opened # NoManager => hostMeta = opened

(* A cached word is one that was written, and so marked.                   *)
CachedIsDirty == word.cache => word.dirty

IInv ==
  TypeOK /\ FlushInWindow /\ Documents /\ CachedIsDirty /\ FlagsInStep /\ UntouchedKept

(* The seeds are values, and so is what is merged from values.             *)
LEMMA SeedsTyped == Seeds \in [Entries -> Values]
BY StoresAssumption DEF Seeds, Values, Config, Absent

LEMMA MergedTyped ==
  ASSUME NEW f \in [Entries -> Values], NEW g \in [Entries -> Values]
  PROVE  Merged(f, g) \in [Entries -> Values]
BY DEF Merged

(* Initially the instance is closed, with the declared flags.              *)
LEMMA InitIInv == Init => IInv
<1> SUFFICES ASSUME Init PROVE IInv
  OBVIOUS
<1>1. TypeOK
  <2>1. word \in Words /\ hostFlags \in Bits /\ store \in Bits
    BY DEF Init, Words, Bits, Declared
  <2>2. meta \in [Entries -> Values] /\ hostMeta \in Managers /\ opened \in Managers
    BY SeedsTyped DEF Init, Managers
  <2>3. document \in [meta : Managers, store : Bits \cup {"none"}]
    <3>1. NoManager \in Managers
      BY DEF Managers
    <3> QED
      BY <3>1 DEF Init
  <2>4. edits \in 0..MaxEdits /\ edited \subseteq Entries
    BY StoresAssumption DEF Init
  <2>5. /\ phase \in Phases /\ window \in Windows /\ flushing \subseteq Parts
        /\ phase \in {"closed", "loaded"} => window = "none"
        /\ storeDirty \in BOOLEAN /\ hostStore \in Bits \cup {"none"}
        /\ ours \in BOOLEAN /\ unsaved \in BOOLEAN
    BY DEF Init, Phases, Windows
  <2> QED
    BY <2>1, <2>2, <2>3, <2>4, <2>5 DEF TypeOK
<1>2. FlushInWindow /\ Documents /\ CachedIsDirty /\ FlagsInStep /\ UntouchedKept
  BY DEF Init, FlushInWindow, Documents, CachedIsDirty, FlagsInStep, UntouchedKept, Declared
<1> QED
  BY <1>1, <1>2 DEF IInv

(* Steps of the host that bring an instance up or take it down.            *)
LEMMA DocumentStep ==
  ASSUME IInv, AddParameters \/ SetDocumentValues \/ AddedToDocument \/ Save \/ Close
  PROVE  IInv'
<1> USE DEF IInv
<1>1. CASE AddParameters
  <2>1. TypeOK'
    BY <1>1, SeedsTyped
       DEF AddParameters, TypeOK, Phases, Windows, Parts, Words, Bits, Declared, Managers
  <2>2. FlushInWindow' /\ Documents' /\ CachedIsDirty' /\ FlagsInStep' /\ UntouchedKept'
    BY <1>1 DEF AddParameters, TypeOK, FlushInWindow, Documents, CachedIsDirty, FlagsInStep,
                UntouchedKept, Parts, Declared
  <2> QED
    BY <2>1, <2>2
<1>2. CASE SetDocumentValues
  <2>1. document.meta \in Managers /\ document.store \in Bits \cup {"none"}
    BY DEF TypeOK
  <2>2. hostMeta' \in Managers /\ hostStore' \in Bits \cup {"none"} /\ ours' \in BOOLEAN
    BY <1>2, <2>1 DEF SetDocumentValues, TypeOK
  <2>3. TypeOK'
    BY <1>2, <2>2 DEF SetDocumentValues, TypeOK, FlushInWindow, Phases, flagVars, docVars
  <2>4. FlushInWindow' /\ Documents' /\ CachedIsDirty' /\ FlagsInStep' /\ UntouchedKept'
    BY <1>2 DEF SetDocumentValues, TypeOK, FlushInWindow, Documents, CachedIsDirty, FlagsInStep,
                UntouchedKept, flagVars, docVars
  <2> QED
    BY <2>3, <2>4
<1>3. CASE AddedToDocument
  <2>1. hostMeta # NoManager => Merged(hostMeta, meta) \in [Entries -> Values]
    BY MergedTyped DEF TypeOK, Managers
  <2>2. TypeOK'
    BY <1>3, <2>1 DEF AddedToDocument, TypeOK, Phases, Windows, Parts, flagVars, docVars
  <2>3. FlushInWindow' /\ Documents' /\ CachedIsDirty' /\ FlagsInStep'
    BY <1>3 DEF AddedToDocument, TypeOK, FlushInWindow, Documents, CachedIsDirty, FlagsInStep, Parts,
                flagVars, docVars
  <2>4. UntouchedKept'
    BY <1>3 DEF AddedToDocument, Documents, UntouchedKept, Merged, flagVars, docVars
  <2> QED
    BY <2>2, <2>3, <2>4
<1>4. CASE Save
  BY <1>4 DEF Save, TypeOK, FlushInWindow, Documents, CachedIsDirty, FlagsInStep, UntouchedKept,
              flagVars, metaVars
<1>5. CASE Close
  BY <1>5 DEF Close, TypeOK, Phases, FlushInWindow, Documents, CachedIsDirty, FlagsInStep,
              UntouchedKept, flagVars, metaVars, docVars
<1> QED
  BY <1>1, <1>2, <1>3, <1>4, <1>5

(* Windows open and close around the flushes.                              *)
LEMMA WindowStep ==
  ASSUME IInv, ParameterChanged \/ StartAction \/ EndWithoutFlush \/ EndWithFlush
  PROVE  IInv'
<1> USE DEF IInv
<1>1. /\ UNCHANGED <<phase, flagVars, hostStore, ours, metaVars, docVars, edited, edits>>
      /\ phase = "live"
      /\ window' \in Windows
      /\ \/ UNCHANGED flushing /\ flushing = {}
         \/ flushing' = Parts /\ window' # "none"
  BY DEF ParameterChanged, StartAction, EndWithoutFlush, EndWithFlush, MainFree, MainIn,
         FlushInside, Windows, TypeOK, FlushInWindow
<1>2. TypeOK'
  BY <1>1 DEF TypeOK, flagVars, metaVars, docVars
<1>3. FlushInWindow' /\ Documents' /\ CachedIsDirty' /\ FlagsInStep' /\ UntouchedKept'
  BY <1>1 DEF FlushInWindow, Documents, CachedIsDirty, FlagsInStep, UntouchedKept, Parts,
              flagVars, metaVars, docVars
<1> QED
  BY <1>2, <1>3

(* However a word is written, the object, the host and the record agree    *)
(* unless the word says that they may not.                                 *)
LEMMA WriteTyped ==
  ASSUME TypeOK, NEW w \in Words, NEW taken \in BOOLEAN, WriteFlags(w, taken)
  PROVE  word' \in Words /\ hostFlags' \in Bits /\ store' \in Bits /\ storeDirty' \in BOOLEAN
BY DEF TypeOK, WriteFlags, Capture, Words

LEMMA WriteInStep ==
  ASSUME TypeOK, CachedIsDirty, FlagsInStep, NEW w \in Words, NEW taken \in BOOLEAN,
         WriteFlags(w, taken)
  PROVE  CachedIsDirty' /\ FlagsInStep'
BY DEF TypeOK, CachedIsDirty, FlagsInStep, WriteFlags, Capture, Words

(* A setter or an edit between the flushes, or an edit during one.         *)
LEMMA EditStep ==
  ASSUME IInv, SetFlag \/ \E e \in Entries : EditMeta(e)
  PROVE  IInv'
<1> USE DEF IInv
<1>1. CASE SetFlag
  <2>1. PICK w \in {[word EXCEPT !.host = Flipped(@)], [word EXCEPT !.app = Flipped(@)],
                    [word EXCEPT !.cache = ~@]},
             taken \in Taken("flags") : WriteFlags(w, taken)
    BY <1>1 DEF SetFlag
  <2>2. w \in Words /\ taken \in BOOLEAN
    BY DEF TypeOK, Words, Bits, Flipped, Taken
  <2>3. TypeOK'
    BY <1>1, <2>1, <2>2, WriteTyped DEF SetFlag, TypeOK, metaVars, docVars
  <2>4. CachedIsDirty' /\ FlagsInStep'
    BY <2>1, <2>2, WriteInStep
  <2>5. FlushInWindow' /\ Documents' /\ UntouchedKept'
    BY <1>1 DEF SetFlag, FlushInWindow, Documents, UntouchedKept, metaVars, docVars
  <2> QED
    BY <2>3, <2>4, <2>5
<1>2. ASSUME NEW e \in Entries, EditMeta(e)
      PROVE  IInv'
  <2>1. meta' \in [Entries -> Values] /\ edits' \in 0..MaxEdits
    <3>1. Absent \in Values /\ edits + 2 \in Values
      BY <1>2, StoresAssumption DEF EditMeta, TypeOK, Values, Absent
    <3> QED
      BY <1>2, <3>1, StoresAssumption DEF EditMeta, TypeOK
  <2>2. TypeOK'
    BY <1>2, <2>1 DEF EditMeta, TypeOK, flagVars, docVars
  <2>3. FlushInWindow' /\ Documents' /\ CachedIsDirty' /\ FlagsInStep' /\ UntouchedKept'
    BY <1>2 DEF EditMeta, TypeOK, FlushInWindow, Documents, CachedIsDirty, FlagsInStep, UntouchedKept,
                flagVars, docVars
  <2> QED
    BY <2>2, <2>3
<1> QED
  BY <1>1, <1>2

(* The parts of a flush.                                                   *)
LEMMA FlushStep ==
  ASSUME IInv, FlushFlags \/ FlushMeta \/ FlushStore
  PROVE  IInv'
<1> USE DEF IInv
<1>1. ASSUME NEW part \in Parts, InOrder(part), Ran(part), UNCHANGED phase
      PROVE  /\ window' \in Windows /\ flushing' \subseteq Parts
             /\ phase \in {"closed", "loaded"} => window' = "none"
             /\ flushing' # {} => window' # "none" /\ "store" \in flushing'
             /\ flushing' # {} /\ "flags" \notin flushing' /\ part # "flags" => ~word.cache
             /\ phase = "adding" /\ flushing' = {} => window' = "none"
             /\ part # "store" => flushing' # {}
  BY <1>1 DEF TypeOK, FlushInWindow, InOrder, Ran, Windows, Parts
<1>2. CASE FlushFlags
  <2>1. "flags" \in Parts /\ InOrder("flags") /\ Ran("flags") /\ UNCHANGED phase
    BY <1>2 DEF FlushFlags, Parts
  <2>2. Uncached \in Words /\ ~Uncached.cache
    BY DEF TypeOK, Words, Uncached
  <2>3. /\ word' \in Words /\ ~word'.cache
        /\ hostFlags' \in Bits /\ store' \in Bits /\ storeDirty' \in BOOLEAN
        /\ CachedIsDirty' /\ FlagsInStep'
    <3>1. CASE ~word.cache
      BY <1>2, <3>1 DEF FlushFlags, flagVars, TypeOK, CachedIsDirty, FlagsInStep
    <3>2. CASE word.cache /\ WriteFlags(Uncached, TRUE)
      <4>1. ~word'.cache
        BY <2>2, <3>2 DEF WriteFlags, Words
      <4> QED
        BY <2>2, <3>2, <4>1, WriteTyped, WriteInStep
    <3>3. CASE word.cache /\ word' = Uncached /\ UNCHANGED <<hostFlags, store, storeDirty>>
      <4>1. Uncached.dirty
        BY <3>3 DEF Uncached, TypeOK, Words, CachedIsDirty
      <4> QED
        BY <2>2, <3>3, <4>1 DEF TypeOK, CachedIsDirty, FlagsInStep
    <3> QED
      BY <1>2, <3>1, <3>2, <3>3 DEF FlushFlags
  <2> QED
    BY <1>1, <1>2, <2>1, <2>3 DEF FlushFlags, TypeOK, FlushInWindow, Documents,
       UntouchedKept, metaVars, docVars
<1>3. CASE FlushMeta
  <2>1. "meta" \in Parts /\ InOrder("meta") /\ Ran("meta") /\ UNCHANGED phase
    BY <1>3 DEF FlushMeta, Parts
  <2> QED
    BY <1>1, <1>3, <2>1 DEF FlushMeta, TypeOK, FlushInWindow, Documents, CachedIsDirty, FlagsInStep,
       UntouchedKept, Managers, flagVars, docVars
<1>4. CASE FlushStore
  <2>1. "store" \in Parts /\ InOrder("store") /\ Ran("store") /\ UNCHANGED phase
    BY <1>4 DEF FlushStore, Parts
  <2> QED
    BY <1>1, <1>4, <2>1 DEF FlushStore, TypeOK, FlushInWindow, Documents, CachedIsDirty, FlagsInStep,
       UntouchedKept, metaVars, docVars
<1> QED
  BY <1>2, <1>3, <1>4

LEMMA Invariance == Spec => []IInv
<1>1. ASSUME IInv, UNCHANGED vars
      PROVE  IInv'
  BY <1>1 DEF IInv, vars, flagVars, metaVars, docVars, TypeOK, FlushInWindow, Documents,
              CachedIsDirty, FlagsInStep, UntouchedKept
<1>2. IInv /\ [Next]_vars => IInv'
  BY <1>1, DocumentStep, WindowStep, EditStep, FlushStep DEF Next
<1> QED
  BY InitIInv, <1>2, PTL DEF Spec

(* The stores keep their types: no flush leaves a window open, and no      *)
(* merge or write brings in what is not an entry or a flag.                *)
THEOREM StoresTypeCorrect == Spec => []TypeOK
BY Invariance, PTL DEF IInv

(* A word with neither mark agrees with the host and the record, whichever *)
(* writes the host refuses (parameterFlush and setParameterFlags).         *)
THEOREM FlagsTruthful == Spec => []FlagsInStep
BY Invariance, PTL DEF IInv

(* The customizations of the document survive seeding, flushing and        *)
(* reopening, whichever writes the host refuses.                           *)
THEOREM CustomizationsKept == Spec => []UntouchedKept
BY Invariance, PTL DEF IInv

----------------------------------------------------------------------------
(* A marked manager is all that differs from the host, if the host takes   *)
(* the writes of meta entries: an edit marks, and a flush writes in an     *)
(* open window.  Until the document arrives the seeds stay marked.         *)
MetaInv ==
  /\ MetaClean
  /\ phase \in {"adding", "loaded"} /\ hostMeta = NoManager =>
       unsaved \/ hostMeta = meta

LEMMA MetaStep ==
  ASSUME IInv, MetaInv, "meta" \notin Refusable, [Next]_vars
  PROVE  MetaInv'
<1> USE DEF MetaInv, MetaClean
<1>1. CASE AddParameters
  BY <1>1 DEF AddParameters
<1>2. CASE SetDocumentValues
  BY <1>2 DEF SetDocumentValues
<1>3. CASE AddedToDocument
  BY <1>3 DEF AddedToDocument
<1>4. CASE FlushMeta
  <2>1. window # "none"
    BY <1>4 DEF FlushMeta, InOrder, IInv, FlushInWindow
  <2>2. Taken("meta") = {TRUE}
    BY <2>1 DEF Taken
  <2>3. UNCHANGED <<phase, meta>>
    BY <1>4 DEF FlushMeta
  <2>4. UNCHANGED <<hostMeta, unsaved>> \/ hostMeta' = meta
    BY <1>4, <2>2 DEF FlushMeta
  <2> QED
    BY <2>3, <2>4
<1>5. ASSUME NEW e \in Entries, EditMeta(e)
      PROVE  MetaInv'
  BY <1>5 DEF EditMeta
<1>6. CASE FlushFlags \/ FlushStore \/ SetFlag
  BY <1>6 DEF FlushFlags, FlushStore, SetFlag, metaVars
<1>7. CASE Save \/ Close \/ ParameterChanged \/ StartAction \/ EndWithoutFlush \/ EndWithFlush
  BY <1>7 DEF Save, Close, ParameterChanged, StartAction, EndWithoutFlush, EndWithFlush, metaVars
<1>8. CASE UNCHANGED vars
  BY <1>8 DEF vars, metaVars
<1> QED
  BY <1>1, <1>2, <1>3, <1>4, <1>5, <1>6, <1>7, <1>8 DEF Next

(* No edit is lost between two flushes, whoever makes it and when, if the  *)
(* host takes what saveMeta writes (it ignores a refusal).                 *)
THEOREM EditsKeptUnlessRefused == "meta" \notin Refusable => (Spec => []MetaClean)
<1> SUFFICES ASSUME "meta" \notin Refusable PROVE Spec => []MetaClean
  OBVIOUS
<1>1. Init => MetaInv
  BY DEF Init, MetaInv, MetaClean
<1>2. IInv /\ MetaInv /\ [Next]_vars => MetaInv'
  BY MetaStep
<1>3. MetaInv => MetaClean
  BY DEF MetaInv
<1> QED
  BY Invariance, <1>1, <1>2, <1>3, PTL DEF Spec

----------------------------------------------------------------------------
(* What the host holds of FxGripParameterData is its record, unless the    *)
(* record is marked or the value is another instance's.                    *)
StoreInv ==
  /\ ours /\ ~storeDirty => hostStore = store
  /\ phase = "adding" /\ "store" \in flushing => ~ours

LEMMA StoreStep ==
  ASSUME IInv, StoreInv, "store" \notin Refusable, [Next]_vars
  PROVE  StoreInv'
<1> USE DEF StoreInv
<1>1. CASE AddParameters
  BY <1>1 DEF AddParameters
<1>2. CASE SetDocumentValues
  <2>1. ours' = FALSE \/ UNCHANGED <<ours, hostStore>>
    BY <1>2 DEF SetDocumentValues, IInv, TypeOK
  <2>2. UNCHANGED <<store, storeDirty>> /\ phase' = "loaded"
    BY <1>2 DEF SetDocumentValues, flagVars
  <2> QED
    BY <2>1, <2>2
<1>3. CASE FlushStore
  <2>1. Taken("store") = {TRUE} /\ "store" \notin flushing'
    BY <1>3 DEF FlushStore, InOrder, Ran, IInv, FlushInWindow, Taken
  <2>2. PICK taken \in Taken("store") \cup {phase # "adding"} :
          IF storeDirty /\ taken THEN hostStore' = store /\ ours' = TRUE
          ELSE UNCHANGED <<hostStore, ours>>
    BY <1>3 DEF FlushStore
  <2>3. UNCHANGED <<phase, store>> /\ "store" \in flushing
    BY <1>3 DEF FlushStore, InOrder
  <2>4. CASE storeDirty /\ taken
    BY <2>1, <2>2, <2>3, <2>4
  <2>5. CASE ~storeDirty
    BY <2>1, <2>2, <2>3, <2>5
  <2>6. CASE ~taken
    <3>1. phase = "adding"
      BY <2>1, <2>6
    <3> QED
      BY <2>1, <2>2, <2>3, <2>6, <3>1
  <2> QED
    BY <2>4, <2>5, <2>6
<1>4. CASE FlushFlags \/ SetFlag
  <2>1. UNCHANGED <<phase, hostStore, ours>> /\ flushing' \subseteq flushing
    BY <1>4 DEF FlushFlags, SetFlag, Ran
  <2>2. UNCHANGED <<store, storeDirty>> \/ storeDirty' = TRUE
    BY <1>4 DEF FlushFlags, SetFlag, WriteFlags, Capture, flagVars
  <2> QED
    BY <2>1, <2>2
<1>5. CASE FlushMeta
  BY <1>5 DEF FlushMeta, Ran, flagVars
<1>6. ASSUME NEW e \in Entries, EditMeta(e)
      PROVE  StoreInv'
  BY <1>6 DEF EditMeta, flagVars
<1>7. CASE \/ AddedToDocument \/ Save \/ Close \/ ParameterChanged \/ StartAction
           \/ EndWithoutFlush \/ EndWithFlush
  <2>1. UNCHANGED <<store, storeDirty, hostStore, ours>>
    BY <1>7 DEF AddedToDocument, Save, Close, ParameterChanged, StartAction,
                EndWithoutFlush, EndWithFlush, flagVars
  <2>2. phase' # "adding"
    BY <1>7 DEF AddedToDocument, Save, Close, ParameterChanged, StartAction,
                EndWithoutFlush, EndWithFlush, MainFree, MainIn
  <2> QED
    BY <2>1, <2>2
<1>8. CASE UNCHANGED vars
  BY <1>8 DEF vars, flagVars
<1> QED
  BY <1>1, <1>2, <1>3, <1>4, <1>5, <1>6, <1>7, <1>8 DEF Next

(* One flush ends with nothing cached and with the app bits that it wrote  *)
(* in the host's value, if the host takes what extFlush writes: the store  *)
(* goes last.                                                              *)
THEOREM OneFlushIsEnough == "store" \notin Refusable => (Spec => FlushCaptures)
<1> SUFFICES ASSUME "store" \notin Refusable PROVE Spec => FlushCaptures
  OBVIOUS
<1>1. Init => StoreInv
  BY DEF Init, StoreInv
<1>2. IInv /\ StoreInv /\ [Next]_vars => StoreInv'
  BY StoreStep
<1>3. IInv /\ StoreInv /\ IInv' /\ StoreInv' /\ [Next]_vars =>
        [(flushing # {} /\ flushing' = {}) =>
           /\ ~word'.cache
           /\ ours' /\ ~word'.dirty => hostStore' = word'.app]_vars
  <2> SUFFICES ASSUME IInv, IInv', StoreInv', [Next]_vars, flushing # {}, flushing' = {}
               PROVE  ~word'.cache /\ (ours' /\ ~word'.dirty => hostStore' = word'.app)
    OBVIOUS
  <2>1. FlushStore
    <3>1. "store" \in flushing
      BY DEF IInv, FlushInWindow
    <3>2. ~FlushFlags /\ ~FlushMeta
      <4>1. Ran("flags") \/ Ran("meta") => "store" \in flushing'
        BY <3>1 DEF Ran
      <4> QED
        BY <4>1 DEF FlushFlags, FlushMeta
    <3>3. ~AddParameters /\ ~AddedToDocument /\ ~EndWithFlush
      BY DEF AddParameters, AddedToDocument, EndWithFlush, FlushInside, Parts
    <3>4. UNCHANGED flushing => FALSE
      OBVIOUS
    <3> QED
      BY <3>2, <3>3, <3>4 DEF Next, vars, SetDocumentValues, Save, Close, ParameterChanged,
         StartAction, EndWithoutFlush, SetFlag, EditMeta
  <2>2. ~word'.cache /\ storeDirty' = FALSE
    BY <2>1 DEF FlushStore, IInv, FlushInWindow, InOrder
  <2> QED
    BY <2>2 DEF IInv, FlagsInStep, StoreInv
<1> QED
  BY Invariance, <1>1, <1>2, <1>3, PTL DEF Spec, FlushCaptures
=============================================================================
