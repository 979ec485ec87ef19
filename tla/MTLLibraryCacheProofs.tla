----------------------- MODULE MTLLibraryCacheProofs -----------------------
(***************************************************************************)
(* Proofs about the library cache, for any finite set of requests and any  *)
(* names.  The inductive invariant joins the places a handler can be in    *)
(* with the compiles that are coming for it.                               *)
(***************************************************************************)
EXTENDS MTLLibraryCache, FiniteSetTheorems, TLAPS

(* A compile is a part of a call that has returned, and the callback array *)
(* is empty until Metal calls back.                                        *)
CompileOrder ==
  \A c \in Requests :
    /\ compile[c] # "none" => caller[c] = "returned"
    /\ compile[c] # "delivering" => waiters[c] = {}

(* An absent entry has used up one more clear than a placeholder has: that *)
(* is what lets its next request start a compile within the bound.         *)
CompileBudget ==
  \A n \in Names :
    Cardinality(Outstanding(n)) <= clears[n] + (IF functionCache[n] = "absent" THEN 0 ELSE 1)

IInv ==
  /\ TypeOK
  /\ HandlerPlaced
  /\ CompileOrder
  /\ PlaceholderHasCompile
  /\ NoStrandedHandler
  /\ CompileBudget

----------------------------------------------------------------------------
(* The compiles of a name are finitely many. *)
LEMMA OutstandingFinite ==
  ASSUME NEW n \in Names
  PROVE  IsFiniteSet(Outstanding(n)) /\ Cardinality(Outstanding(n)) \in Nat
<1>1. Outstanding(n) \subseteq Requests
  BY DEF Outstanding
<1>2. IsFiniteSet(Outstanding(n))
  BY <1>1, FS_Subset, RequestsAssumption
<1> QED
  BY <1>2, FS_CardinalityType

(* Initially nothing is asked, compiled or waited for. *)
LEMMA InitIInv == Init => IInv
<1> SUFFICES ASSUME Init PROVE IInv
  OBVIOUS
<1> USE RequestsAssumption
<1>1. TypeOK
  BY DEF Init, TypeOK, EntryKinds, CallerStates, CompileStates
<1>2. HandlerPlaced
  BY DEF Init, HandlerPlaced, Placed
<1>3. CompileOrder
  BY DEF Init, CompileOrder
<1>4. PlaceholderHasCompile /\ NoStrandedHandler
  BY DEF Init, PlaceholderHasCompile, NoStrandedHandler
<1>5. CompileBudget
  <2> SUFFICES ASSUME NEW n \in Names
               PROVE Cardinality(Outstanding(n)) <= clears[n] + 0
    BY DEF CompileBudget, Init
  <2>1. Outstanding(n) = {}
    BY DEF Outstanding, Init
  <2> QED
    BY <2>1, FS_EmptySet DEF Init
<1> QED
  BY <1>1, <1>2, <1>3, <1>4, <1>5 DEF IInv

----------------------------------------------------------------------------
(* A step that leaves the callers, the compiles, the queue and the clears  *)
(* alone and turns no entry into a placeholder or an absence keeps the     *)
(* facts about compiles.                                                   *)
LEMMA CompilesKept ==
  ASSUME IInv, NEW n \in Names, Outstanding(n)' = Outstanding(n), clears'[n] = clears[n],
         functionCache'[n] # functionCache[n] => functionCache'[n] = "loaded"
  PROVE  Cardinality(Outstanding(n)') <=
           clears'[n] + (IF functionCache'[n] = "absent" THEN 0 ELSE 1)
<1>1. Cardinality(Outstanding(n)) <= clears[n] + (IF functionCache[n] = "absent" THEN 0 ELSE 1)
  BY DEF IInv, CompileBudget
<1>2. clears[n] \in Nat /\ functionCache[n] \in EntryKinds
  BY DEF IInv, TypeOK
<1> QED
  BY <1>1, <1>2, OutstandingFinite DEF EntryKinds

(* A request that hits or waits registers no compile. *)
LEMMA BeginIInv ==
  ASSUME IInv, NEW r \in Requests, BeginLoaded(r) \/ BeginWaiter(r) \/ RunCachedHandler(r)
  PROVE  IInv'
<1> USE RequestsAssumption
<1>1. TypeOK'
  BY DEF IInv, TypeOK, BeginLoaded, BeginWaiter, RunCachedHandler, CallerStates
<1>2. HandlerPlaced'
  <2>1. CASE BeginLoaded(r)
    BY <2>1 DEF IInv, TypeOK, HandlerPlaced, Placed, BeginLoaded
  <2>2. CASE BeginWaiter(r)
    BY <2>2 DEF IInv, TypeOK, HandlerPlaced, Placed, BeginWaiter
  <2>3. CASE RunCachedHandler(r)
    BY <2>3 DEF IInv, TypeOK, HandlerPlaced, Placed, RunCachedHandler
  <2> QED
    BY <2>1, <2>2, <2>3
<1>3. CompileOrder'
  BY DEF IInv, TypeOK, CompileOrder, BeginLoaded, BeginWaiter, RunCachedHandler
<1>4. ASSUME NEW n \in Names PROVE Outstanding(n)' = Outstanding(n)
  BY DEF IInv, TypeOK, Outstanding, BeginLoaded, BeginWaiter, RunCachedHandler
<1>5. functionCache' = functionCache /\ clears' = clears
  BY DEF BeginLoaded, BeginWaiter, RunCachedHandler
<1>6. PlaceholderHasCompile'
  BY <1>4, <1>5 DEF IInv, PlaceholderHasCompile
<1>7. NoStrandedHandler'
  BY <1>4, <1>5 DEF IInv, TypeOK, NoStrandedHandler, PlaceholderHasCompile,
                    BeginLoaded, BeginWaiter, RunCachedHandler
<1>8. CompileBudget'
  BY <1>4, <1>5, CompilesKept DEF CompileBudget
<1> QED
  BY <1>1, <1>2, <1>3, <1>6, <1>7, <1>8 DEF IInv

(* The owner of a compile replaces an absence, whose budget had room. *)
LEMMA OwnerIInv ==
  ASSUME IInv, NEW r \in Requests, BeginOwner(r)
  PROVE  IInv'
<1> USE RequestsAssumption
<1> DEFINE n == NameOf[r]
<1>1. TypeOK'
  BY DEF IInv, TypeOK, BeginOwner, CallerStates, EntryKinds
<1>2. HandlerPlaced'
  <2> SUFFICES ASSUME NEW s \in Requests PROVE Placed(s)'
    BY DEF HandlerPlaced
  <2> QED
    <3>1. Placed(s)
      BY DEF IInv, HandlerPlaced
    <3>2. CASE s = r
      <4>1. runs'[r] = 0 /\ caller'[r] = "owner" /\ \A c \in Requests : r \notin waiters'[c]
        BY <3>1, <3>2 DEF IInv, TypeOK, Placed, BeginOwner
      <4>2. \A m \in Names : r \in pendingHandlers'[m] <=> m = n
        BY <3>1, <3>2 DEF IInv, TypeOK, Placed, BeginOwner
      <4> QED
        BY <3>2, <4>1, <4>2 DEF Placed
    <3>3. CASE s # r
      <4>1. \A m \in Names : s \in pendingHandlers'[m] <=> s \in pendingHandlers[m]
        BY <3>3 DEF IInv, TypeOK, BeginOwner
      <4>2. caller'[s] = caller[s] /\ runs' = runs /\ waiters' = waiters
        BY <3>3 DEF IInv, TypeOK, BeginOwner
      <4> QED
        BY <3>1, <4>1, <4>2 DEF Placed
    <3> QED
      BY <3>2, <3>3
<1>3. CompileOrder'
  BY DEF IInv, TypeOK, CompileOrder, BeginOwner
<1>4. Outstanding(n)' = Outstanding(n) \cup {r} /\ r \notin Outstanding(n)
  BY DEF IInv, TypeOK, CompileOrder, Outstanding, BeginOwner
<1>5. ASSUME NEW m \in Names, m # n PROVE Outstanding(m)' = Outstanding(m)
  BY <1>5 DEF IInv, TypeOK, Outstanding, BeginOwner
<1>6. PlaceholderHasCompile'
  BY <1>4, <1>5 DEF IInv, TypeOK, PlaceholderHasCompile, BeginOwner
<1>7. NoStrandedHandler'
  BY <1>4, <1>5 DEF IInv, TypeOK, NoStrandedHandler, BeginOwner
<1>8. CompileBudget'
  <2> SUFFICES ASSUME NEW m \in Names
               PROVE Cardinality(Outstanding(m)') <=
                       clears'[m] + (IF functionCache'[m] = "absent" THEN 0 ELSE 1)
    BY DEF CompileBudget
  <2>1. CASE m # n
    BY <1>5, <2>1, CompilesKept DEF BeginOwner, IInv, TypeOK
  <2>2. CASE m = n
    <3>1. Cardinality(Outstanding(n)) <= clears[n]
      BY <2>2, OutstandingFinite DEF IInv, CompileBudget, BeginOwner, TypeOK
    <3>2. Cardinality(Outstanding(n)') = Cardinality(Outstanding(n)) + 1
      BY <1>4, OutstandingFinite, FS_AddElement
    <3>3. functionCache'[n] = "loading" /\ clears' = clears /\ clears[n] \in Nat
      BY DEF BeginOwner, IInv, TypeOK
    <3> QED
      BY <2>2, <3>1, <3>2, <3>3, OutstandingFinite
  <2> QED
    BY <2>1, <2>2
<1> QED
  BY <1>1, <1>2, <1>3, <1>6, <1>7, <1>8 DEF IInv

(* Handing the compile to Metal leaves it outstanding. *)
LEMMA StartIInv ==
  ASSUME IInv, NEW r \in Requests, StartCompile(r)
  PROVE  IInv'
<1> USE RequestsAssumption
<1>1. TypeOK'
  BY DEF IInv, TypeOK, StartCompile, CallerStates, CompileStates
<1>2. HandlerPlaced'
  BY DEF IInv, TypeOK, HandlerPlaced, Placed, StartCompile
<1>3. CompileOrder'
  BY DEF IInv, TypeOK, CompileOrder, StartCompile
<1>4. ASSUME NEW n \in Names PROVE Outstanding(n)' = Outstanding(n)
  BY DEF IInv, TypeOK, Outstanding, StartCompile
<1>5. functionCache' = functionCache /\ clears' = clears /\ pendingHandlers' = pendingHandlers
  BY DEF StartCompile
<1>6. PlaceholderHasCompile' /\ NoStrandedHandler'
  BY <1>4, <1>5 DEF IInv, PlaceholderHasCompile, NoStrandedHandler
<1>7. CompileBudget'
  BY <1>4, <1>5, CompilesKept DEF CompileBudget
<1> QED
  BY <1>1, <1>2, <1>3, <1>6, <1>7 DEF IInv

(* A callback takes every waiting handler of the name along, so none is    *)
(* left behind when its compile stops being outstanding.                   *)
LEMMA FinishIInv ==
  ASSUME IInv, NEW c \in Requests, NEW ok \in BOOLEAN, FinishLoading(c, ok)
  PROVE  IInv'
<1> USE RequestsAssumption
<1> DEFINE n == NameOf[c]
<1>0. n \in Names
  OBVIOUS
<1>1. TypeOK'
  BY DEF IInv, TypeOK, FinishLoading, Stored, EntryKinds, CompileStates
<1>2. HandlerPlaced'
  <2> SUFFICES ASSUME NEW s \in Requests PROVE Placed(s)'
    BY DEF HandlerPlaced
  <2>1. Placed(s) /\ waiters[c] = {}
    BY DEF IInv, HandlerPlaced, CompileOrder, FinishLoading, Stored
  <2>2. CASE s \in pendingHandlers[n]
    <3>1. s \in waiters'[c] /\ runs'[s] = 0 /\ n = NameOf[s] /\ s \notin pendingHandlers'[n]
      BY <1>0, <2>1, <2>2 DEF IInv, TypeOK, Placed, FinishLoading, Stored
    <3>2. \A d \in Requests : s \in waiters'[d] => d = c
      BY <1>0, <2>1, <2>2 DEF IInv, TypeOK, Placed, FinishLoading, Stored
    <3>3. caller'[s] \notin {"idle", "hit"}
      BY <1>0, <2>1, <2>2 DEF Placed, FinishLoading, Stored
    <3>4. \A m \in Names : s \notin pendingHandlers'[m]
      BY <1>0, <2>1, <2>2 DEF IInv, TypeOK, Placed, FinishLoading, Stored
    <3> QED
      BY <3>1, <3>2, <3>3, <3>4 DEF Placed
  <2>3. CASE s \notin pendingHandlers[n]
    <3>1. \A m \in Names : s \in pendingHandlers'[m] <=> s \in pendingHandlers[m]
      BY <1>0, <2>3 DEF IInv, TypeOK, FinishLoading, Stored
    <3>2. \A d \in Requests : s \in waiters'[d] <=> s \in waiters[d]
      BY <2>1, <2>3 DEF IInv, TypeOK, FinishLoading, Stored
    <3>3. runs' = runs /\ caller' = caller
      BY DEF FinishLoading, Stored
    <3> QED
      BY <2>1, <3>1, <3>2, <3>3 DEF Placed
  <2> QED
    BY <2>2, <2>3
<1>3. CompileOrder'
  BY DEF IInv, TypeOK, CompileOrder, FinishLoading, Stored
<1>4. c \in Outstanding(n) /\ Outstanding(n)' = Outstanding(n) \ {c}
  BY DEF IInv, TypeOK, CompileOrder, Outstanding, FinishLoading, Stored
<1>5. ASSUME NEW m \in Names, m # n PROVE Outstanding(m)' = Outstanding(m)
  BY <1>5 DEF IInv, TypeOK, Outstanding, FinishLoading, Stored
<1>6. PlaceholderHasCompile'
  BY <1>5 DEF IInv, TypeOK, PlaceholderHasCompile, FinishLoading, Stored
<1>7. NoStrandedHandler'
  BY <1>5 DEF IInv, TypeOK, NoStrandedHandler, FinishLoading, Stored
<1>8. CompileBudget'
  <2> SUFFICES ASSUME NEW m \in Names
               PROVE Cardinality(Outstanding(m)') <=
                       clears'[m] + (IF functionCache'[m] = "absent" THEN 0 ELSE 1)
    BY DEF CompileBudget
  <2>1. CASE m # n
    BY <1>5, <2>1, CompilesKept DEF FinishLoading, Stored, IInv, TypeOK
  <2>2. CASE m = n
    <3>1. Cardinality(Outstanding(n)) <= clears[n] + 1
      <4>1. Cardinality(Outstanding(n)) <=
              clears[n] + (IF functionCache[n] = "absent" THEN 0 ELSE 1)
        BY <1>0 DEF IInv, CompileBudget
      <4>2. clears[n] \in Nat /\ Cardinality(Outstanding(n)) \in Nat
        BY <1>0, OutstandingFinite DEF IInv, TypeOK
      <4> QED
        BY <4>1, <4>2
    <3>2. Cardinality(Outstanding(n)') = Cardinality(Outstanding(n)) - 1
      <4>1. IsFiniteSet(Outstanding(n))
        BY <1>0, OutstandingFinite
      <4> QED
        BY <1>4, <4>1, FS_RemoveElement
    <3>3. clears' = clears /\ clears[n] \in Nat
      BY <1>0 DEF FinishLoading, Stored, IInv, TypeOK
    <3> QED
      BY <1>0, <2>2, <3>1, <3>2, <3>3, OutstandingFinite
  <2> QED
    BY <2>1, <2>2
<1> QED
  BY <1>1, <1>2, <1>3, <1>6, <1>7, <1>8 DEF IInv

(* Running one handler of the array takes it out of the array. *)
LEMMA RunWaiterIInv ==
  ASSUME IInv, NEW c \in Requests, RunWaiter(c)
  PROVE  IInv'
<1> USE RequestsAssumption
<1>0. PICK w \in waiters[c] :
        /\ runs' = [runs EXCEPT ![w] = @ + 1]
        /\ waiters' = [waiters EXCEPT ![c] = @ \ {w}]
        /\ UNCHANGED <<functionCache, pendingHandlers, caller, compile, clears>>
  BY DEF RunWaiter
<1>1. TypeOK'
  BY <1>0 DEF IInv, TypeOK
<1>2. HandlerPlaced'
  BY <1>0 DEF IInv, TypeOK, HandlerPlaced, Placed
<1>3. CompileOrder'
  BY <1>0 DEF IInv, TypeOK, CompileOrder
<1>4. ASSUME NEW n \in Names PROVE Outstanding(n)' = Outstanding(n)
  BY <1>0 DEF Outstanding
<1>5. PlaceholderHasCompile' /\ NoStrandedHandler'
  BY <1>0, <1>4 DEF IInv, PlaceholderHasCompile, NoStrandedHandler
<1>6. CompileBudget'
  BY <1>0, <1>4, CompilesKept DEF CompileBudget
<1> QED
  BY <1>1, <1>2, <1>3, <1>5, <1>6 DEF IInv

(* A synchronous store only replaces an entry by a function; a clear pays  *)
(* for the absence it makes with the clear it counts.                      *)
LEMMA StoreAndClearIInv ==
  ASSUME IInv, NEW n \in Names, NewFunctionSync(n) \/ ClearFunction(n)
  PROVE  IInv'
<1> USE RequestsAssumption
<1>1. TypeOK'
  BY DEF IInv, TypeOK, NewFunctionSync, ClearFunction, EntryKinds
<1>2. HandlerPlaced' /\ CompileOrder'
  BY DEF IInv, HandlerPlaced, Placed, CompileOrder, NewFunctionSync, ClearFunction
<1>3. ASSUME NEW m \in Names PROVE Outstanding(m)' = Outstanding(m)
  BY DEF Outstanding, NewFunctionSync, ClearFunction
<1>4. PlaceholderHasCompile' /\ NoStrandedHandler'
  BY <1>3 DEF IInv, TypeOK, PlaceholderHasCompile, NoStrandedHandler, NewFunctionSync, ClearFunction
<1>5. CompileBudget'
  <2> SUFFICES ASSUME NEW m \in Names
               PROVE Cardinality(Outstanding(m)') <=
                       clears'[m] + (IF functionCache'[m] = "absent" THEN 0 ELSE 1)
    BY DEF CompileBudget
  <2>1. CASE NewFunctionSync(n) \/ m # n
    BY <1>3, <2>1, CompilesKept DEF NewFunctionSync, ClearFunction, IInv, TypeOK
  <2>2. CASE ClearFunction(n) /\ m = n
    BY <1>3, <2>2, OutstandingFinite DEF ClearFunction, IInv, TypeOK, CompileBudget
  <2> QED
    BY <2>1, <2>2
<1> QED
  BY <1>1, <1>2, <1>4, <1>5 DEF IInv

(* Every step of the cache keeps the inductive invariant. *)
LEMMA NextIInv == IInv /\ [Next]_vars => IInv'
<1> SUFFICES ASSUME IInv, [Next]_vars PROVE IInv'
  OBVIOUS
<1>1. ASSUME NEW r \in Requests, RequestStep(r) PROVE IInv'
  BY <1>1, BeginIInv, OwnerIInv, StartIInv DEF RequestStep
<1>2. ASSUME NEW c \in Requests, CallbackStep(c) PROVE IInv'
  BY <1>2, FinishIInv, RunWaiterIInv DEF CallbackStep
<1>3. ASSUME NEW n \in Names, ClearFunction(n) \/ NewFunctionSync(n) PROVE IInv'
  BY <1>3, StoreAndClearIInv
<1>4. CASE UNCHANGED vars
  BY <1>4 DEF vars, IInv, TypeOK, HandlerPlaced, Placed, CompileOrder, PlaceholderHasCompile,
              NoStrandedHandler, CompileBudget, Outstanding
<1> QED
  BY <1>1, <1>2, <1>3, <1>4 DEF Next

(* The inductive invariant holds throughout. *)
LEMMA Invariance == SafeSpec => []IInv
BY InitIInv, NextIInv, PTL DEF SafeSpec

(* The cache's state stays well typed: an entry is absent, a placeholder   *)
(* or a function, whatever the requests and clears.                        *)
THEOREM TypeCorrect == SafeSpec => []TypeOK
<1>1. IInv => TypeOK
  BY DEF IInv
<1> QED
  BY <1>1, Invariance, PTL

(* No completion handler is stranded in _pendingHandlers, for any number   *)
(* of requests, names, clears and synchronous calls.                       *)
THEOREM HandlersNeverStranded == SafeSpec => []NoStrandedHandler
<1>1. IInv => NoStrandedHandler
  BY DEF IInv
<1> QED
  BY <1>1, Invariance, PTL

(* A loading placeholder never outlives the compiles of its name. *)
THEOREM PlaceholdersHaveCompiles == SafeSpec => []PlaceholderHasCompile
<1>1. IInv => PlaceholderHasCompile
  BY DEF IInv
<1> QED
  BY <1>1, Invariance, PTL

(* Asynchronous requests for one name share one compile, up to one more    *)
(* for each clear of its entry.                                            *)
THEOREM CompilesShared == SafeSpec => []CompilesBoundedByClears
<1>1. IInv => CompilesBoundedByClears
  <2> SUFFICES ASSUME IInv, NEW n \in Names
               PROVE  Cardinality(Outstanding(n)) <= 1 + clears[n]
    BY DEF CompilesBoundedByClears
  <2> QED
    BY OutstandingFinite DEF IInv, CompileBudget, TypeOK
<1> QED
  BY <1>1, Invariance, PTL

----------------------------------------------------------------------------
(* A step of the cache is a question, an answer, or nothing to the         *)
(* requesters.                                                             *)
LEMMA StepRefines == IInv /\ [Next]_vars => [Promise!Next]_(Promise!vars)
<1> DEFINE asked == {r \in Requests : caller[r] # "idle"}
<1> SUFFICES ASSUME IInv, [Next]_vars PROVE [Promise!Next]_(Promise!vars)
  OBVIOUS
<1> USE DEF Promise!Next, Promise!vars
<1>1. ASSUME NEW r \in Requests, BeginLoaded(r) \/ BeginOwner(r) \/ BeginWaiter(r)
      PROVE Promise!Ask(r)
  <2>1. caller[r] = "idle" /\ runs' = runs
    BY <1>1 DEF BeginLoaded, BeginOwner, BeginWaiter
  <2>2. asked' = asked \cup {r}
    BY <1>1 DEF BeginLoaded, BeginOwner, BeginWaiter, IInv, TypeOK
  <2> QED
    BY <2>1, <2>2 DEF Promise!Ask
<1>2. ASSUME NEW r \in Requests, RunCachedHandler(r)
      PROVE Promise!Answer(r)
  <2>1. asked' = asked
    BY <1>2 DEF RunCachedHandler, IInv, TypeOK
  <2>2. runs[r] = 0
    BY <1>2 DEF RunCachedHandler, IInv, HandlerPlaced, Placed
  <2>3. r \in asked
    BY <1>2 DEF RunCachedHandler
  <2>4. runs' = [runs EXCEPT ![r] = 1]
    BY <1>2, <2>2 DEF RunCachedHandler
  <2> QED
    BY <2>1, <2>2, <2>3, <2>4 DEF Promise!Answer
<1>3. ASSUME NEW r \in Requests, StartCompile(r) PROVE UNCHANGED Promise!vars
  BY <1>3 DEF StartCompile, IInv, TypeOK
<1>4. ASSUME NEW c \in Requests, NEW ok \in BOOLEAN, FinishLoading(c, ok)
      PROVE UNCHANGED Promise!vars
  BY <1>4 DEF FinishLoading, Stored
<1>5. ASSUME NEW c \in Requests, RunWaiter(c)
      PROVE \E w \in Requests : Promise!Answer(w)
  <2>1. PICK w \in waiters[c] : runs' = [runs EXCEPT ![w] = @ + 1] /\ caller' = caller
    BY <1>5 DEF RunWaiter
  <2>2. w \in Requests /\ runs[w] = 0 /\ caller[w] # "idle"
    BY <2>1 DEF IInv, TypeOK, HandlerPlaced, Placed
  <2>3. Promise!Answer(w)
    BY <2>1, <2>2 DEF Promise!Answer
  <2> QED
    BY <2>2, <2>3
<1>6. ASSUME NEW n \in Names, ClearFunction(n) \/ NewFunctionSync(n)
      PROVE UNCHANGED Promise!vars
  BY <1>6 DEF ClearFunction, NewFunctionSync
<1>7. CASE UNCHANGED vars
  BY <1>7 DEF vars
<1> QED
  BY <1>1, <1>2, <1>3, <1>4, <1>5, <1>6, <1>7 DEF Next, RequestStep, CallbackStep

(* The coalescing cache keeps the requesters' promise: no handler runs     *)
(* before its request or a second time.                                    *)
THEOREM ImplementsPromise == SafeSpec => Promise!SafeSpec
<1>1. Init => Promise!Init
  BY DEF Init, Promise!Init
<1> QED
  BY <1>1, StepRefines, Invariance, PTL DEF SafeSpec, Promise!SafeSpec
=============================================================================
