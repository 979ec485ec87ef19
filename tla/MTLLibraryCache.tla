-------------------------- MODULE MTLLibraryCache --------------------------
(***************************************************************************)
(* FxGripMTLLibraryCache: the memo of compiled Metal functions that render *)
(* threads share.  An entry is absent, a placeholder (NSNull) that marks   *)
(* an asynchronous compile, or a function.  Requests for a name whose      *)
(* placeholder is set wait in _pendingHandlers for the compile that owns   *)
(* it.  Each @synchronized block is one step; what a thread does between   *)
(* two blocks (run its handler, call Metal) is a step of its own, so every *)
(* order in which Metal's completion blocks, other requests, synchronous   *)
(* requests and clears can meet is a behaviour.                            *)
(***************************************************************************)
EXTENDS Naturals, FiniteSets

CONSTANTS Requests,   \* asynchronous calls, each with its own handler
          Names,      \* cache names (specialized name, else name)
          NameOf,     \* the name each asynchronous call asks for
          MaxClears   \* bound on the counted clears of each name

ASSUME RequestsAssumption == /\ IsFiniteSet(Requests)
                             /\ NameOf \in [Requests -> Names]
ASSUME MaxClearsAssumption == MaxClears \in Nat

VARIABLES
  functionCache,  \* __functionCache: the entry of each name
  pendingHandlers,\* _pendingHandlers: the requests that wait, per name
  caller,         \* where the requesting thread is
  compile,        \* the Metal compile a request started, if it owns one
  waiters,        \* the array finishLoading copied and is walking
  runs,           \* how often each request's handler has run
  clears          \* how many entries clearFunctionWithName: dropped, per name

vars == <<functionCache, pendingHandlers, caller, compile, waiters, runs, clears>>

EntryKinds == {"absent", "loading", "loaded"}
CallerStates == {"idle", "hit", "owner", "returned"}
CompileStates == {"none", "inflight", "delivering"}

TypeOK ==
  /\ functionCache \in [Names -> EntryKinds]
  /\ pendingHandlers \in [Names -> SUBSET Requests]
  /\ caller \in [Requests -> CallerStates]
  /\ compile \in [Requests -> CompileStates]
  /\ waiters \in [Requests -> SUBSET Requests]
  /\ runs \in [Requests -> Nat]
  /\ clears \in [Names -> Nat]

Init ==
  /\ functionCache = [n \in Names |-> "absent"]
  /\ pendingHandlers = [n \in Names |-> {}]
  /\ caller = [r \in Requests |-> "idle"]
  /\ compile = [r \in Requests |-> "none"]
  /\ waiters = [r \in Requests |-> {}]
  /\ runs = [r \in Requests |-> 0]
  /\ clears = [n \in Names |-> 0]

(* The compiles of a name that were promised and have not finished: the    *)
(* owner is on its way to Metal, or Metal has not called back.             *)
Outstanding(n) ==
  {c \in Requests : /\ NameOf[c] = n
                    /\ caller[c] = "owner" \/ compile[c] = "inflight"}

----------------------------------------------------------------------------
(* beginLoadingFunctionNamed: finds the function; its handler runs on the  *)
(* calling thread once the lock is released.                               *)
BeginLoaded(r) ==
  /\ caller[r] = "idle"
  /\ functionCache[NameOf[r]] = "loaded"
  /\ caller' = [caller EXCEPT ![r] = "hit"]
  /\ UNCHANGED <<functionCache, pendingHandlers, compile, waiters, runs, clears>>

(* A wrong BeginOwner: the placeholder is forgotten.                       *)
BeginOwnerUnmarked(r) ==
  /\ caller[r] = "idle"
  /\ functionCache[NameOf[r]] = "absent"
  /\ pendingHandlers' = [pendingHandlers EXCEPT ![NameOf[r]] = @ \cup {r}]
  /\ caller' = [caller EXCEPT ![r] = "owner"]
  /\ UNCHANGED <<functionCache, compile, waiters, runs, clears>>

(* It finds nothing: it sets the placeholder, queues its handler and owns  *)
(* the compile.                                                            *)
BeginOwner(r) ==
  /\ caller[r] = "idle"
  /\ functionCache[NameOf[r]] = "absent"
  /\ functionCache' = [functionCache EXCEPT ![NameOf[r]] = "loading"]
  /\ pendingHandlers' = [pendingHandlers EXCEPT ![NameOf[r]] = @ \cup {r}]
  /\ caller' = [caller EXCEPT ![r] = "owner"]
  /\ UNCHANGED <<compile, waiters, runs, clears>>

(* It finds a placeholder: the handler waits for the compile under way.    *)
BeginWaiter(r) ==
  /\ caller[r] = "idle"
  /\ functionCache[NameOf[r]] = "loading"
  /\ pendingHandlers' = [pendingHandlers EXCEPT ![NameOf[r]] = @ \cup {r}]
  /\ caller' = [caller EXCEPT ![r] = "returned"]
  /\ UNCHANGED <<functionCache, compile, waiters, runs, clears>>

RunCachedHandler(r) ==
  /\ caller[r] = "hit"
  /\ runs' = [runs EXCEPT ![r] = @ + 1]
  /\ caller' = [caller EXCEPT ![r] = "returned"]
  /\ UNCHANGED <<functionCache, pendingHandlers, compile, waiters, clears>>

(* The owner, past the lock, hands the compile to Metal and returns.       *)
StartCompile(r) ==
  /\ caller[r] = "owner"
  /\ caller' = [caller EXCEPT ![r] = "returned"]
  /\ compile' = [compile EXCEPT ![r] = "inflight"]
  /\ UNCHANGED <<functionCache, pendingHandlers, waiters, runs, clears>>

(* A wrong entry after a compile: a failure leaves the placeholder.        *)
KeepsPlaceholder(ok) == IF ok THEN "loaded" ELSE "loading"

(* The entry after a compile: a failure removes whatever was there.        *)
Stored(ok) == IF ok THEN "loaded" ELSE "absent"

(* Metal calls back on a thread of its own: under the lock the result is   *)
(* stored and the handlers of the name are taken, whichever compile they   *)
(* queued for.                                                             *)
FinishLoading(c, ok) ==
  LET n == NameOf[c] IN
  /\ compile[c] = "inflight"
  /\ functionCache' = [functionCache EXCEPT ![n] = Stored(ok)]
  /\ waiters' = [waiters EXCEPT ![c] = pendingHandlers[n]]
  /\ pendingHandlers' = [pendingHandlers EXCEPT ![n] = {}]
  /\ compile' = [compile EXCEPT ![c] = "delivering"]
  /\ UNCHANGED <<caller, runs, clears>>

(* Outside the lock the callback thread runs the handlers it took.         *)
RunWaiter(c) ==
  \E w \in waiters[c] :
    /\ runs' = [runs EXCEPT ![w] = @ + 1]
    /\ waiters' = [waiters EXCEPT ![c] = @ \ {w}]
    /\ UNCHANGED <<functionCache, pendingHandlers, caller, compile, clears>>

(* A synchronous request holds the lock across lookup and compile; a       *)
(* placeholder reads as a miss and success overwrites it.  A hit and a     *)
(* failed compile (storeLoadedFunction: ignores nil) change nothing.       *)
NewFunctionSync(n) ==
  /\ functionCache[n] # "loaded"
  /\ functionCache' = [functionCache EXCEPT ![n] = "loaded"]
  /\ UNCHANGED <<pendingHandlers, caller, compile, waiters, runs, clears>>

(* clearFunctionWithName: drops a function or a placeholder alike.         *)
ClearFunction(n) ==
  /\ functionCache[n] # "absent"
  /\ clears[n] < MaxClears
  /\ functionCache' = [functionCache EXCEPT ![n] = "absent"]
  /\ clears' = [clears EXCEPT ![n] = @ + 1]
  /\ UNCHANGED <<pendingHandlers, caller, compile, waiters, runs>>

RequestStep(r) ==
  \/ BeginLoaded(r) \/ BeginOwner(r) \/ BeginWaiter(r)
  \/ RunCachedHandler(r) \/ StartCompile(r)

CallbackStep(c) == (\E ok \in BOOLEAN : FinishLoading(c, ok)) \/ RunWaiter(c)

(* Everything may have been answered, with no call left to make.           *)
Next ==
  \/ \E r \in Requests : RequestStep(r) \/ CallbackStep(r)
  \/ \E n \in Names : ClearFunction(n) \/ NewFunctionSync(n)

SafeSpec == Init /\ [][Next]_vars

(* A thread inside a call goes on running, and Metal calls each completion *)
(* block; nobody has to make a request, a clear or a synchronous call.     *)
Fairness ==
  \A r \in Requests : /\ WF_vars(RunCachedHandler(r))
                      /\ WF_vars(StartCompile(r))
                      /\ WF_vars(CallbackStep(r))

Spec == SafeSpec /\ Fairness

----------------------------------------------------------------------------
(* A handler that waits has a compile that will come to fetch it: no       *)
(* order of clears, synchronous stores and failures strands one in         *)
(* _pendingHandlers.                                                       *)
NoStrandedHandler ==
  \A n \in Names : pendingHandlers[n] # {} => Outstanding(n) # {}

(* A placeholder always stands for a compile that is coming: a name can    *)
(* never be stuck in the loading state.                                    *)
PlaceholderHasCompile ==
  \A n \in Names : functionCache[n] = "loading" => Outstanding(n) # {}

(* Requests for a name share one compile; each clear of its entry can let  *)
(* one more compile run beside those under way, and nothing else can.      *)
CompilesBoundedByClears ==
  \A n \in Names : Cardinality(Outstanding(n)) <= 1 + clears[n]

(* Where the handler of a request is: with its caller, queued, in the      *)
(* array of one callback, or run.  Nowhere twice, and never nowhere.       *)
Placed(r) ==
  /\ \A n \in Names : r \in pendingHandlers[n] => n = NameOf[r]
  /\ caller[r] \in {"idle", "hit"} =>
       runs[r] = 0 /\ r \notin pendingHandlers[NameOf[r]]
  /\ caller[r] \in {"idle", "hit"} => \A c \in Requests : r \notin waiters[c]
  /\ r \in pendingHandlers[NameOf[r]] =>
       runs[r] = 0 /\ \A c \in Requests : r \notin waiters[c]
  /\ \A c \in Requests : r \in waiters[c] =>
       runs[r] = 0 /\ \A d \in Requests : r \in waiters[d] => c = d
  /\ caller[r] \in {"owner", "returned"} =>
       \/ runs[r] = 1
       \/ r \in pendingHandlers[NameOf[r]]
       \/ \E c \in Requests : r \in waiters[c]
HandlerPlaced == \A r \in Requests : Placed(r)

(* What the requesters were promised: every handler runs exactly once.     *)
Promise == INSTANCE AsyncRequests
             WITH asked <- {r \in Requests : caller[r] # "idle"},
                  replies <- runs
EachHandlerOnce == Promise!Spec
===========================================================================
