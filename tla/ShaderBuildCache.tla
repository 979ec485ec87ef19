-------------------------- MODULE ShaderBuildCache --------------------------
(***************************************************************************)
(* FxGripShaderBuildCache, as the shader and kernel pipelines use it: a    *)
(* cache of pipeline states with a limit, whose builds ask a cache of      *)
(* libraries without one.  A miss builds outside the lock; whoever else    *)
(* asks for the key waits for that build on its dispatch group and takes   *)
(* its result.  A failed build is an entry like any other (an NSError).    *)
(*                                                                         *)
(* Each critical section of the cache lock is one step; leaving the group  *)
(* and waking up from it are steps too.  A thread is in at most one call   *)
(* of each cache: a build of a state calls the library cache.              *)
(***************************************************************************)
EXTENDS Naturals, Sequences, FiniteSets, Functions

CONSTANTS Threads, \* render threads
          States,  \* keys of the state cache
          Limit,   \* kFxGripShaderPipelineStateCacheLimit
          Library, \* the key of the library each state is built from
          Builds   \* numbers to tell the builds of a key apart by

Keys == States \cup {Library}

ASSUME BuildCacheAssumption ==
  Library \notin States /\ Limit \in Nat \ {0} /\ Builds \subseteq Nat \ {0}

VARIABLES
  entries,    \* _entries: the build of each key, 0 if none
  buildOrder, \* _buildOrder of the state cache
  pending,    \* _pendingBuilds: the build under way of each key, 0 if none
  left,       \* the key and build of each group left but still waited on
  outer,      \* per thread, its call for a state
  inner,      \* per thread, the call for the library its build makes
  answer      \* what the last step returned to a render, 0 if nothing

vars == <<entries, buildOrder, pending, left, outer, inner, answer>>

Call(k, at, b) == [key |-> k, at |-> at, build |-> b]
NoCall == [at |-> "none"]
Ats == {"needs", "builds", "stored", "waits"}
Calls(keys) == {NoCall} \cup [key : keys, at : Ats, build : Builds]

(* A thread goes on in its innermost call.                                 *)
Inside(t) == inner[t] # NoCall
Top(t) == IF Inside(t) THEN inner[t] ELSE outer[t]
SetTop(t, call) ==
  IF Inside(t) THEN inner' = [inner EXCEPT ![t] = call] /\ UNCHANGED outer
  ELSE outer' = [outer EXCEPT ![t] = call] /\ UNCHANGED inner
Enter(t, call) ==
  IF call.key = Library THEN inner' = [inner EXCEPT ![t] = call] /\ UNCHANGED outer
  ELSE outer' = [outer EXCEPT ![t] = call] /\ UNCHANGED inner

Stored == {buildOrder[i] : i \in DOMAIN buildOrder}

TypeOK ==
  /\ entries \in [Keys -> Builds \cup {0}]
  /\ buildOrder \in Seq(States)
  /\ pending \in [Keys -> Builds \cup {0}]
  /\ left \subseteq Keys \X Builds
  /\ outer \in [Threads -> Calls(States)] /\ inner \in [Threads -> Calls({Library})]
  /\ answer \in Builds \cup {0}

Init ==
  /\ entries = [k \in Keys |-> 0] /\ buildOrder = <<>>
  /\ pending = [k \in Keys |-> 0]
  /\ left = {}
  /\ outer = [t \in Threads |-> NoCall] /\ inner = [t \in Threads |-> NoCall]
  /\ answer = 0

Waits(t, k, b) == Call(k, "waits", b) \in {outer[t], inner[t]}

(* The number of a new build of a key: one that nobody refers to any more. *)
Refers(t, k, b) == \E at \in Ats : Call(k, at, b) \in {outer[t], inner[t]}
Unused(k) == {b \in Builds \ {entries[k], pending[k]} : \A t \in Threads : ~Refers(t, k, b)}
IsNewBuild(k, b) == b \in Unused(k) /\ \A c \in Unused(k) : b <= c

(* A call returns build b: to the build that needed it, else to the render. *)
Return(t, b) ==
  IF Inside(t)
    THEN /\ inner' = [inner EXCEPT ![t] = NoCall]
         /\ outer' = [outer EXCEPT ![t].at = "builds"]
         /\ answer' = 0
    ELSE outer' = [outer EXCEPT ![t] = NoCall] /\ answer' = b /\ UNCHANGED inner

----------------------------------------------------------------------------
(* Which key a thread may look up now: a state if it is outside the cache, *)
(* the library if it builds a state.                                       *)
Asks(t, k) == Top(t).at = IF k = Library THEN "needs" ELSE "none"

(* entryForKey: finds an entry.                                            *)
Hit(t, k) ==
  /\ Asks(t, k) /\ entries[k] # 0
  /\ IF k = Library THEN outer' = [outer EXCEPT ![t].at = "builds"] /\ answer' = 0
     ELSE answer' = entries[k] /\ UNCHANGED outer
  /\ UNCHANGED <<entries, buildOrder, pending, left, inner>>

(* It finds a build under way and waits for it.                            *)
Join(t, k) ==
  /\ Asks(t, k) /\ entries[k] = 0 /\ pending[k] # 0
  /\ Enter(t, Call(k, "waits", pending[k]))
  /\ answer' = 0
  /\ UNCHANGED <<entries, buildOrder, pending, left>>

(* It finds neither, and builds (wrong: the pending build is not entered). *)
UnsharedBuild(k, b) == UNCHANGED pending
PendingBuild(k, b) == pending' = [pending EXCEPT ![k] = b]

BeginBuild(t, k) ==
  /\ Asks(t, k) /\ entries[k] = 0 /\ pending[k] = 0
  /\ \E b \in Builds :
       /\ IsNewBuild(k, b)
       /\ PendingBuild(k, b)
       /\ Enter(t, Call(k, IF k = Library THEN "builds" ELSE "needs", b))
  /\ answer' = 0
  /\ UNCHANGED <<entries, buildOrder, left>>

(* A wrong eviction: one key too late.                                     *)
KeptOneMore(order) == IF Len(order) > Limit + 1 THEN Tail(order) ELSE order

(* The keys that stay: the least recently built goes.                      *)
Kept(order) == IF Len(order) > Limit THEN Tail(order) ELSE order

(* Only the state cache has a limit, and an order.                         *)
Ordered(k) == IF k = Library THEN buildOrder ELSE Append(buildOrder, k)

(* The built entry is stored and the oldest evicted, under the lock.       *)
Store(t) ==
  LET k == Top(t).key IN
  /\ Top(t).at = "builds"
  /\ buildOrder' = Kept(Ordered(k))
  /\ entries' = [x \in Keys |-> IF x = k THEN Top(t).build
                                ELSE IF x \in {Library} \cup Stored' THEN entries[x] ELSE 0]
  /\ pending' = [pending EXCEPT ![k] = 0]
  /\ SetTop(t, [Top(t) EXCEPT !.at = "stored"])
  /\ answer' = 0
  /\ UNCHANGED left

(* The group is left: whoever waits on it may go on.  (Wrong: only if the  *)
(* entry was not evicted meanwhile.)                                       *)
LeaveKeptOnly(k, b) ==
  left' = IF entries[k] = b /\ \E u \in Threads : Waits(u, k, b) THEN left \cup {<<k, b>>} ELSE left
LeaveGroup(k, b) ==
  left' = IF \E u \in Threads : Waits(u, k, b) THEN left \cup {<<k, b>>} ELSE left

(* Past the lock the builder leaves the group and returns its result.      *)
Leave(t) ==
  /\ Top(t).at = "stored"
  /\ LeaveGroup(Top(t).key, Top(t).build)
  /\ Return(t, Top(t).build)
  /\ UNCHANGED <<entries, buildOrder, pending>>

(* A wrong result of a wait: the cache is read again.                      *)
ReadsAgain(t) == entries[Top(t).key]

Result(t) == Top(t).build

(* dispatch_group_wait returns once the group is left.                     *)
Wake(t) ==
  LET k == Top(t).key
      b == Top(t).build IN
  /\ Top(t).at = "waits" /\ <<k, b>> \in left
  /\ left' = IF \E u \in Threads \ {t} : Waits(u, k, b) THEN left ELSE left \ {<<k, b>>}
  /\ Return(t, Result(t))
  /\ UNCHANGED <<entries, buildOrder, pending>>

Lookup(t, k) == Hit(t, k) \/ Join(t, k) \/ BeginBuild(t, k)
GoOn(t) == Lookup(t, Library) \/ Store(t) \/ Leave(t) \/ Wake(t)
Next == \E t \in Threads : GoOn(t) \/ \E k \in States : Lookup(t, k)

SafeSpec == Init /\ [][Next]_vars

(* A thread inside a call goes on, and every build block returns; nobody   *)
(* has to ask.                                                             *)
Spec == SafeSpec /\ \A t \in Threads : WF_vars(GoOn(t))

----------------------------------------------------------------------------
Building(t, k) == \E call \in {outer[t], inner[t]} :
                    call.at \in {"needs", "builds"} /\ call.key = k

(* "One build per key": no two threads ever build the same key at once,    *)
(* and none builds a key that has an entry.                                *)
OneBuildPerKey ==
  \A t, u \in Threads : \A k \in Keys :
    Building(t, k) => entries[k] = 0 /\ (Building(u, k) => t = u)

(* The state cache keeps at most its limit, and the order it evicts by     *)
(* lists exactly its entries, each once: no entry can escape eviction, or  *)
(* be evicted in another's turn, however builds overlap.                   *)
LimitKept ==
  /\ Len(buildOrder) <= Limit
  /\ IsInjective(buildOrder)
  /\ Stored = {k \in States : entries[k] # 0}

(* A thread that waits for a group is blocked until the group is left; the *)
(* thread whose build it is has yet to leave it.                           *)
Blocked(t) == Top(t).at = "waits" /\ <<Top(t).key, Top(t).build>> \notin left
Owes(u, t) == \E call \in {outer[u], inner[u]} :
                /\ call.at \in {"needs", "builds", "stored"}
                /\ call.key = Top(t).key /\ call.build = Top(t).build

(* Nobody waits in a circle, or for a group that is never left: a blocked  *)
(* thread waits for a build of a thread that is not blocked itself, or     *)
(* that waits for the build of one that is not.                            *)
NobodyWaitsInACircle ==
  \A t \in Threads : Blocked(t) =>
    \E u \in Threads : /\ Owes(u, t)
                       /\ Blocked(u) => \E v \in Threads : Owes(v, u) /\ ~Blocked(v)

(* Every call that ends answers with a build, a waiter with the one it     *)
(* joined, even if the entry is evicted before the waiter wakes.           *)
AnswersWithABuild ==
  [][\A t \in Threads :
       outer[t] # NoCall /\ outer'[t] = NoCall => answer' # 0 /\ answer' = outer[t].build]_vars

(* Every call returns, however its waits and the builds of others nest.    *)
EveryCallReturns == \A t \in Threads : outer[t] # NoCall ~> outer[t] = NoCall
=============================================================================
