-------------------------- MODULE ParameterStores --------------------------
(***************************************************************************)
(* What an effect keeps about a parameter besides its value, and how it    *)
(* gets into the document: the flag word, whose host bits go to the host   *)
(* and whose app bits to FxGripParameterData, and the meta entries of      *)
(* FxGripMetaManager.  Both stores are values of hidden custom parameters, *)
(* written by a flush in a callback of the host or in an action window     *)
(* (FxGripOOBParameterAccess); outside of both the host refuses a write.   *)
(*                                                                         *)
(* One parameter, one host bit and one app bit of its flags.  The main     *)
(* thread does everything except the edits of meta entries, which any      *)
(* thread may make between two steps.                                      *)
(***************************************************************************)
EXTENDS Integers

CONSTANTS Entries,    \* the meta entries of the parameter
          Configured, \* those its configuration declares
          Refusable,  \* the writes the host may refuse
          MaxEdits    \* bound on the edits of meta entries

ASSUME StoresAssumption ==
  Configured \subseteq Entries /\ Refusable \subseteq {"flags", "meta", "store"} /\ MaxEdits \in Nat

Absent == 0
Config == 1
Values == 0..(MaxEdits + 1)  \* every edit writes another value
NoManager == [e \in Entries |-> -1]
Bits == {"off", "on"}

VARIABLES
  phase,       \* how far the host has brought the instance up
  window,      \* whether the host listens: in a callback or in an action
  flushing,    \* the parts of a flush still to run
  word,        \* _parameterFlags of the parameter object
  hostFlags,   \* the host's bit
  store,       \* the app bit in the record of FxGripParameterData
  storeDirty,  \* its _isCacheDirty
  hostStore,   \* the value of the ParameterData parameter
  ours,        \* this instance has written that value
  meta,        \* the entries in the manager
  unsaved,     \* its _unsaved
  hostMeta,    \* the value of the InstanceMeta parameter
  document,    \* what the saved document holds
  opened,      \* the meta entries of the document when it was opened
  edited,      \* the entries edited since
  edits

flagVars == <<word, hostFlags, store, storeDirty>>
metaVars == <<meta, unsaved, hostMeta>>
docVars == <<document, opened>>
vars == <<phase, window, flushing, flagVars, hostStore, ours, metaVars, docVars,
          edited, edits>>

Phases == {"closed", "adding", "loaded", "live"}
Windows == {"none", "callback", "action", "flushing action"}
Parts == {"flags", "meta", "store"}
Words == [host : Bits, app : Bits, cache : BOOLEAN, dirty : BOOLEAN]
Managers == [Entries -> Values] \cup {NoManager}

TypeOK ==
  /\ phase \in Phases /\ window \in Windows /\ flushing \subseteq Parts
  /\ phase \in {"closed", "loaded"} => window = "none"
  /\ word \in Words /\ hostFlags \in Bits
  /\ store \in Bits /\ storeDirty \in BOOLEAN
  /\ hostStore \in Bits \cup {"none"} /\ ours \in BOOLEAN
  /\ meta \in [Entries -> Values] /\ unsaved \in BOOLEAN /\ hostMeta \in Managers
  /\ document \in [meta : Managers, store : Bits \cup {"none"}]
  /\ opened \in Managers /\ edited \subseteq Entries /\ edits \in 0..MaxEdits

Seeds == [e \in Entries |-> IF e \in Configured THEN Config ELSE Absent]
Declared == [host |-> "off", app |-> "off", cache |-> FALSE, dirty |-> FALSE]

Init ==
  /\ phase = "closed" /\ window = "none" /\ flushing = {}
  /\ word = Declared /\ hostFlags = "off" /\ store = "off" /\ storeDirty = FALSE
  /\ hostStore = "none" /\ ours = FALSE
  /\ meta = Seeds /\ unsaved = FALSE /\ hostMeta = NoManager
  /\ document = [meta |-> NoManager, store |-> "none"]
  /\ opened = NoManager /\ edited = {} /\ edits = 0

----------------------------------------------------------------------------
(* addParametersWithError: every parameter created posts an add, which     *)
(* seeds both stores, then the stores are flushed.  The host then sets the *)
(* values of the document, if it holds any.                                *)
AddParameters ==
  /\ phase = "closed" /\ phase' = "adding"
  /\ window' = "callback" /\ flushing' = Parts
  /\ word' = Declared /\ hostFlags' = Declared.host
  /\ store' = Declared.app /\ storeDirty' = TRUE
  /\ hostStore' = "none" /\ ours' = FALSE
  /\ meta' = Seeds /\ unsaved' = TRUE /\ hostMeta' = NoManager
  /\ opened' = document.meta /\ edited' = {}
  /\ UNCHANGED <<document, edits>>

SetDocumentValues ==
  /\ phase = "adding" /\ flushing = {} /\ phase' = "loaded"
  /\ hostMeta' = IF document.meta = NoManager THEN hostMeta ELSE document.meta
  /\ hostStore' = IF document.store = "none" THEN hostStore ELSE document.store
  /\ ours' = (ours /\ document.store = "none")
  /\ UNCHANGED <<window, flushing, flagVars, meta, unsaved, docVars, edited, edits>>

(* mergeSeededRecordsFrom: fills what the document's manager lacks (wrong: *)
(* the seeds win).                                                         *)
SeedsWin(loaded, seeded) ==
  [e \in Entries |-> IF seeded[e] # Absent THEN seeded[e] ELSE loaded[e]]
Merged(loaded, seeded) ==
  [e \in Entries |-> IF loaded[e] # Absent THEN loaded[e] ELSE seeded[e]]

(* pluginInstanceAddedToDocument: the manager of the document is loaded,   *)
(* the record of FxGripParameterData is there already and stays; a flush.  *)
AddedToDocument ==
  /\ phase = "loaded" /\ phase' = "live"
  /\ window' = "callback" /\ flushing' = Parts
  /\ IF hostMeta = NoManager THEN UNCHANGED <<meta, unsaved>>
       ELSE /\ meta' = Merged(hostMeta, meta)
            /\ unsaved' = (meta' # hostMeta)
  /\ UNCHANGED <<flagVars, hostStore, ours, hostMeta, docVars, edited, edits>>

(* The document is saved with the values the host has, at any time.        *)
Save ==
  /\ phase = "live"
  /\ document' = [meta |-> hostMeta, store |-> hostStore]
  /\ UNCHANGED <<phase, window, flushing, flagVars, hostStore, ours, metaVars,
                 opened, edited, edits>>

Close ==
  /\ phase = "live" /\ window = "none" /\ phase' = "closed"
  /\ UNCHANGED <<window, flushing, flagVars, hostStore, ours, metaVars, docVars,
                 edited, edits>>

----------------------------------------------------------------------------
(* The host calls parameterChanged, or a view opens an action window, with *)
(* or without a flush at its end.                                          *)
MainFree == phase = "live" /\ window = "none"

ParameterChanged ==
  /\ MainFree /\ window' = "callback"
  /\ UNCHANGED <<phase, flushing, flagVars, hostStore, ours, metaVars, docVars,
                 edited, edits>>

StartAction ==
  /\ MainFree /\ window' \in {"action", "flushing action"}
  /\ UNCHANGED <<phase, flushing, flagVars, hostStore, ours, metaVars, docVars,
                 edited, edits>>

(* parameterChanged may return early, on an error, before its flush.       *)
MainIn == phase = "live" /\ window # "none" /\ flushing = {}

EndWithoutFlush ==
  /\ MainIn /\ window \in {"callback", "action"} /\ window' = "none"
  /\ UNCHANGED <<phase, flushing, flagVars, hostStore, ours, metaVars, docVars,
                 edited, edits>>

(* endAction and parameterChanged flush while the window is open (wrong:   *)
(* the window is closed first).                                            *)
FlushOutside == window' = "none" /\ flushing' = Parts
FlushInside == UNCHANGED window /\ flushing' = Parts

EndWithFlush ==
  /\ MainIn /\ window \in {"callback", "flushing action"}
  /\ FlushInside
  /\ UNCHANGED <<phase, flagVars, hostStore, ours, metaVars, docVars, edited, edits>>

(* The window closes when the last part of a flush has run (wrong: it      *)
(* stays open).                                                            *)
RanStaysOpen(part) == flushing' = flushing \ {part} /\ UNCHANGED window
Ran(part) ==
  /\ flushing' = flushing \ {part}
  /\ window' = IF flushing = {part} THEN "none" ELSE window

(* Whether the host takes a write.                                         *)
Taken(what) == IF window = "none" THEN {FALSE} ELSE {TRUE} \cup {what \notin Refusable}

----------------------------------------------------------------------------
(* setParameterFlags: a word with the cache bit is absorbed by the         *)
(* parameter object.  Another goes to the host; if it takes it, the object *)
(* and the record of FxGripParameterData capture it.                       *)
CaptureQuietly(w) == store' = w.app /\ UNCHANGED storeDirty  \* wrong
Capture(w) == store' = w.app /\ storeDirty' = TRUE

WriteFlags(w, taken) ==
  IF w.cache
    THEN word' = [w EXCEPT !.dirty = TRUE] /\ UNCHANGED <<hostFlags, store, storeDirty>>
    ELSE IF taken
      THEN word' = [w EXCEPT !.dirty = FALSE] /\ hostFlags' = w.host /\ Capture(w)
      ELSE UNCHANGED <<word, hostFlags, store, storeDirty>>

(* A flagXxx setter flips one bit of the word and writes it.               *)
Flipped(bit) == IF bit = "on" THEN "off" ELSE "on"
SetFlag ==
  /\ phase = "live" /\ flushing = {}
  /\ \E w \in {[word EXCEPT !.host = Flipped(@)], [word EXCEPT !.app = Flipped(@)],
               [word EXCEPT !.cache = ~@]}, taken \in Taken("flags") : WriteFlags(w, taken)
  /\ UNCHANGED <<phase, window, flushing, hostStore, ours, metaVars, docVars,
                 edited, edits>>

(* setMeta, addTag and the like mark the manager.                          *)
EditMeta(e) ==
  /\ phase = "live" /\ edits < MaxEdits
  /\ edits' = edits + 1 /\ edited' = edited \cup {e}
  /\ \E value \in {Absent, edits + 2} : meta' = [meta EXCEPT ![e] = value]
  /\ unsaved' = TRUE
  /\ UNCHANGED <<phase, window, flushing, flagVars, hostStore, ours, hostMeta, docVars>>

----------------------------------------------------------------------------
(* A flush.  The parameters and the manager have one priority; the record  *)
(* of FxGripParameterData comes after them (wrong: at any time).           *)
AnyOrder(part) == part \in flushing
InOrder(part) == part \in flushing /\ (part = "store" => flushing = {"store"})

(* parameterFlush: the cache bit goes, then the word is written (wrong:    *)
(* the dirty bit goes with it).                                            *)
UncachedClean == [word EXCEPT !.cache = FALSE, !.dirty = FALSE]
Uncached == [word EXCEPT !.cache = FALSE]

FlushFlags ==
  /\ InOrder("flags") /\ Ran("flags")
  /\ IF ~word.cache THEN UNCHANGED flagVars
       ELSE \E taken \in Taken("flags") :
              IF taken THEN WriteFlags(Uncached, TRUE)
              ELSE word' = Uncached /\ UNCHANGED <<hostFlags, store, storeDirty>>
  /\ UNCHANGED <<phase, hostStore, ours, metaVars, docVars, edited, edits>>

(* saveMeta: without the setting API, which the host may not vend before   *)
(* there is a document, the manager stays unsaved; otherwise the mark is   *)
(* taken away, whatever the write returns.                                 *)
FlushMeta ==
  /\ InOrder("meta") /\ Ran("meta")
  /\ \/ ~unsaved /\ UNCHANGED <<hostMeta, unsaved>>
     \/ unsaved /\ phase = "adding" /\ UNCHANGED <<hostMeta, unsaved>>
     \/ /\ unsaved /\ unsaved' = FALSE
        /\ \E taken \in Taken("meta") : hostMeta' = IF taken THEN meta ELSE hostMeta
  /\ UNCHANGED <<phase, flagVars, hostStore, ours, meta, docVars, edited, edits>>

(* extFlush of FxGripParameterData: the mark goes, then the write, which   *)
(* is lost without the setting API.                                        *)
FlushStore ==
  /\ InOrder("store") /\ Ran("store")
  /\ storeDirty' = FALSE
  /\ \E taken \in Taken("store") \cup {phase # "adding"} :
       IF storeDirty /\ taken THEN hostStore' = store /\ ours' = TRUE
       ELSE UNCHANGED <<hostStore, ours>>
  /\ UNCHANGED <<phase, word, hostFlags, store, metaVars, docVars, edited, edits>>

Next ==
  \/ AddParameters \/ SetDocumentValues \/ AddedToDocument \/ Save \/ Close
  \/ ParameterChanged \/ StartAction \/ EndWithoutFlush \/ EndWithFlush
  \/ SetFlag \/ (\E e \in Entries : EditMeta(e))
  \/ FlushFlags \/ FlushMeta \/ FlushStore

Spec == Init /\ [][Next]_vars

----------------------------------------------------------------------------
(* A manager without unsaved changes is what the host holds: edits made    *)
(* by any thread, before, during or after a flush, are either written or   *)
(* still marked, and so are the entries the configuration fills in.        *)
MetaClean == phase = "live" /\ ~unsaved => hostMeta = meta

(* The customizations of a document win: an entry it held when it was      *)
(* opened stays as it was until somebody edits it, although the instance   *)
(* seeds, and may even write, its own before the document's arrive.        *)
UntouchedKept ==
  phase = "live" /\ opened # NoManager =>
    \A e \in Entries \ edited : opened[e] # Absent => meta[e] = opened[e]

(* flagCacheDirty tells the truth: with neither bit set, the host and the  *)
(* record of FxGripParameterData agree with the object, also after writes  *)
(* the host refused and after caching was switched on and off.             *)
FlagsInStep ==
  ~word.cache /\ ~word.dirty => hostFlags = word.host /\ store = word.app

(* One flush is enough: when it ends nothing is cached, and the app bits   *)
(* that the parameter's own flush wrote are in the value the same flush    *)
(* gave the host.                                                          *)
FlushCaptures ==
  [][(flushing # {} /\ flushing' = {}) =>
        /\ ~word'.cache
        /\ ours' /\ ~word'.dirty => hostStore' = word'.app]_vars
=============================================================================
