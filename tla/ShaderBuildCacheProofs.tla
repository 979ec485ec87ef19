----------------------- MODULE ShaderBuildCacheProofs -----------------------
(***************************************************************************)
(* Proofs about the sharing of builds and the limit of the state cache,    *)
(* for any threads, states and limit.                                      *)
(***************************************************************************)
EXTENDS ShaderBuildCache, TLAPS

(* A thread asks for the library only from a build of a state.             *)
CallsNested ==
  \A t \in Threads : Inside(t) => outer[t].at = "needs" /\ inner[t].at # "needs"

(* Whoever builds a key builds the pending build of it, and there is no    *)
(* entry yet.                                                              *)
Builder(call) == call.at \in {"needs", "builds"}
BuildsPending ==
  \A t \in Threads : \A call \in {outer[t], inner[t]} :
    Builder(call) => entries[call.key] = 0 /\ pending[call.key] = call.build

IInv == TypeOK /\ CallsNested /\ BuildsPending /\ OneBuildPerKey /\ LimitKept

Open(keys) == [key : keys, at : Ats, build : Builds]

LEMMA CallParts ==
  ASSUME NEW K, NEW c \in Calls(K)
  PROVE  /\ c.at = "none" <=> c = NoCall
         /\ c # NoCall => c \in Open(K)
BY DEF Calls, NoCall, Open, Ats

(* The innermost call of a thread, whichever cache it is in.               *)
LEMMA TopTyped ==
  ASSUME TypeOK, CallsNested, NEW t \in Threads
  PROVE  /\ Inside(t) => /\ Top(t) = inner[t] /\ inner[t] \in Open({Library})
                         /\ outer[t] \in Open(States) /\ inner[t].at # "needs"
                         /\ outer[t].at = "needs"
         /\ ~Inside(t) => Top(t) = outer[t] /\ inner[t] = NoCall /\ inner[t].at = "none"
         /\ Top(t).at # "none" => Top(t) \in Open(Keys)
         /\ ~Inside(t) /\ outer[t].at # "none" => outer[t] \in Open(States)
<1>1. inner[t] \in Calls({Library}) /\ outer[t] \in Calls(States)
  BY DEF TypeOK
<1>2. Inside(t) => inner[t] \in Open({Library})
  BY <1>1, CallParts DEF Inside
<1>3. outer[t].at # "none" => outer[t] \in Open(States)
  BY <1>1, CallParts
<1>4. Inside(t) => outer[t].at = "needs" /\ inner[t].at # "needs"
  BY DEF CallsNested
<1>5. NoCall.at = "none"
  BY DEF NoCall
<1>6. Open(States) \subseteq Open(Keys) /\ Open({Library}) \subseteq Open(Keys)
  BY DEF Open, Keys
<1> QED
  BY <1>2, <1>3, <1>4, <1>5, <1>6 DEF Inside, Top

LEMMA InitIInv == Init => IInv
<1> SUFFICES ASSUME Init PROVE IInv
  OBVIOUS
<1>1. buildOrder = <<>> /\ buildOrder \in Seq(States) /\ Stored = {} /\ DOMAIN buildOrder = {}
  BY DEF Init, Stored
<1>2. \A t \in Threads : outer[t] = NoCall /\ inner[t] = NoCall /\ NoCall.at = "none"
  BY DEF Init, NoCall
<1>3. TypeOK
  BY <1>1 DEF Init, TypeOK, Calls
<1>4. CallsNested /\ BuildsPending /\ OneBuildPerKey
  BY <1>2 DEF CallsNested, BuildsPending, Builder, OneBuildPerKey, Building, Inside
<1>5. LimitKept
  <2>1. {k \in States : entries[k] # 0} = {}
    BY DEF Init, Keys
  <2>2. Len(buildOrder) = 0
    BY <1>1
  <2> QED
    BY <1>1, <2>1, <2>2, BuildCacheAssumption DEF LimitKept, IsInjective
<1> QED
  BY <1>3, <1>4, <1>5 DEF IInv

(* A lookup that finds an entry.                                           *)
LEMMA HitIInv ==
  ASSUME IInv, NEW t \in Threads, NEW k \in Keys, Hit(t, k)
  PROVE  IInv'
<1>1. CASE k = Library
  <2>1. /\ outer[t] \in Open(States) /\ outer[t].at = "needs" /\ ~Inside(t)
        /\ outer' = [outer EXCEPT ![t].at = "builds"] /\ answer' = 0
        /\ UNCHANGED <<entries, buildOrder, pending, left, inner>>
    BY <1>1, TopTyped DEF Hit, Asks, IInv
  <2>2. outer'[t] \in Open(States) /\ outer'[t].at = "builds" /\ outer'[t].key = outer[t].key
        /\ outer'[t].build = outer[t].build
        /\ \A u \in Threads \ {t} : outer'[u] = outer[u]
    BY <2>1 DEF Open, Ats, IInv, TypeOK
  <2>3. TypeOK'
    BY <2>1, <2>2 DEF IInv, TypeOK, Calls, Open
  <2>4. CallsNested' /\ BuildsPending'
    BY <2>1, <2>2 DEF IInv, CallsNested, BuildsPending, Builder, Inside
  <2>5. OneBuildPerKey'
    <3>1. \A u \in Threads, x \in Keys : Building(u, x)' => Building(u, x)
      <4> SUFFICES ASSUME NEW u \in Threads, NEW x \in Keys, Building(u, x)' PROVE Building(u, x)
        OBVIOUS
      <4>1. PICK c \in {outer'[u], inner'[u]} : c.at \in {"needs", "builds"} /\ c.key = x
        BY DEF Building
      <4>2. \E d \in {outer[u], inner[u]} : d.at \in {"needs", "builds"} /\ d.key = x
        BY <2>1, <2>2, <4>1
      <4> QED
        BY <4>2 DEF Building
    <3> QED
      BY <2>1, <3>1 DEF IInv, OneBuildPerKey
  <2> QED
    BY <2>1, <2>3, <2>4, <2>5 DEF IInv, LimitKept, Stored
<1>2. CASE k # Library
  <2>1. UNCHANGED <<entries, buildOrder, pending, left, outer, inner>> /\ answer' = entries[k]
    BY <1>2 DEF Hit
  <2>2. TypeOK'
    BY <2>1 DEF IInv, TypeOK
  <2>3. CallsNested' /\ BuildsPending' /\ OneBuildPerKey'
    BY <2>1 DEF IInv, CallsNested, BuildsPending, OneBuildPerKey, Building, Inside
  <2> QED
    BY <2>1, <2>2, <2>3 DEF IInv, LimitKept, Stored
<1> QED
  BY <1>1, <1>2

(* A lookup begins a call, in the library cache from a build of a state.   *)
LEMMA EnterCall ==
  ASSUME IInv, NEW t \in Threads, NEW k \in Keys, NEW b \in Builds, NEW at \in Ats,
         Asks(t, k), Enter(t, Call(k, at, b)), k = Library => at # "needs"
  PROVE  /\ outer' \in [Threads -> Calls(States)] /\ inner' \in [Threads -> Calls({Library})]
         /\ CallsNested'
         /\ \A u \in Threads \ {t} : outer'[u] = outer[u] /\ inner'[u] = inner[u]
         /\ \A call \in {outer'[t], inner'[t]} :
              Builder(call) => call = Call(k, at, b) \/ call \in {outer[t], inner[t]}
         /\ ~Inside(t)
<1>1. ~Inside(t)
  BY TopTyped DEF Asks, IInv, Open, Ats
<1>2. inner[t] = NoCall /\ Top(t) = outer[t]
  BY <1>1, TopTyped DEF IInv
<1>3. CASE k = Library
  <2>1. /\ inner' = [inner EXCEPT ![t] = Call(k, at, b)] /\ UNCHANGED outer
        /\ outer[t].at = "needs"
    BY <1>2, <1>3 DEF Enter, Call, Asks
  <2>2. Call(k, at, b) \in Calls({Library}) /\ Call(k, at, b).at # "needs"
    BY <1>3 DEF Call, Calls
  <2> QED
    BY <1>1, <2>1, <2>2 DEF IInv, TypeOK, CallsNested, Inside
<1>4. CASE k # Library
  <2>1. outer' = [outer EXCEPT ![t] = Call(k, at, b)] /\ UNCHANGED inner
    BY <1>4 DEF Enter, Call
  <2>2. Call(k, at, b) \in Calls(States)
    BY <1>4 DEF Call, Calls, Keys
  <2> QED
    BY <1>1, <1>2, <2>1, <2>2 DEF IInv, TypeOK, CallsNested, Inside
<1> QED
  BY <1>3, <1>4

LEMMA JoinIInv ==
  ASSUME IInv, NEW t \in Threads, NEW k \in Keys, Join(t, k)
  PROVE  IInv'
<1> DEFINE call == Call(k, "waits", pending[k])
<1>1. /\ Asks(t, k) /\ Enter(t, call) /\ answer' = 0 /\ pending[k] \in Builds
      /\ UNCHANGED <<entries, buildOrder, pending, left>>
  BY DEF Join, IInv, TypeOK
<1>2. ~Builder(call)
  BY DEF Builder, Call
<1>3. /\ outer' \in [Threads -> Calls(States)] /\ inner' \in [Threads -> Calls({Library})]
      /\ CallsNested'
      /\ \A u \in Threads \ {t} : outer'[u] = outer[u] /\ inner'[u] = inner[u]
      /\ \A c \in {outer'[t], inner'[t]} : Builder(c) => c \in {outer[t], inner[t]}
  <2>1. "waits" \in Ats /\ "waits" # "needs"
    BY DEF Ats
  <2> QED
    BY <1>1, <1>2, <2>1, EnterCall
<1>4. TypeOK'
  BY <1>1, <1>3 DEF IInv, TypeOK
<1>5. BuildsPending' /\ OneBuildPerKey'
  BY <1>1, <1>3 DEF IInv, BuildsPending, OneBuildPerKey, Building, Builder
<1> QED
  BY <1>1, <1>3, <1>4, <1>5 DEF IInv, LimitKept, Stored

(* Nobody builds a key that has no pending build, so the new build is the  *)
(* only one.                                                               *)
LEMMA BeginBuildIInv ==
  ASSUME IInv, NEW t \in Threads, NEW k \in Keys, BeginBuild(t, k)
  PROVE  IInv'
<1>1. PICK b \in Builds : /\ IsNewBuild(k, b) /\ PendingBuild(k, b)
                          /\ Enter(t, Call(k, IF k = Library THEN "builds" ELSE "needs", b))
  BY DEF BeginBuild
<1> DEFINE at == IF k = Library THEN "builds" ELSE "needs"
           call == Call(k, at, b)
<1>2. /\ Asks(t, k) /\ answer' = 0 /\ entries[k] = 0 /\ pending[k] = 0
      /\ pending' = [pending EXCEPT ![k] = b]
      /\ UNCHANGED <<entries, buildOrder, left>>
  BY <1>1 DEF BeginBuild, PendingBuild
<1>3. /\ outer' \in [Threads -> Calls(States)] /\ inner' \in [Threads -> Calls({Library})]
      /\ CallsNested'
      /\ \A u \in Threads \ {t} : outer'[u] = outer[u] /\ inner'[u] = inner[u]
      /\ \A c \in {outer'[t], inner'[t]} : Builder(c) => c = call \/ c \in {outer[t], inner[t]}
  <2>1. at \in Ats /\ (k = Library => at # "needs")
    BY DEF Ats
  <2>2. Enter(t, Call(k, at, b))
    BY <1>1
  <2> HIDE DEF at
  <2> QED
    BY <1>2, <2>1, <2>2, EnterCall
<1>4. TypeOK'
  BY <1>2, <1>3 DEF IInv, TypeOK
<1>5. call.key = k /\ call.build = b
  BY DEF Call
<1>6. \A u \in Threads : \A c \in {outer[u], inner[u]} : Builder(c) => c.key # k
  BY <1>2, BuildCacheAssumption, CallParts DEF IInv, BuildsPending, TypeOK, Builder, Open
<1> HIDE DEF call
<1>7. BuildsPending'
  <2> SUFFICES ASSUME NEW u \in Threads, NEW c \in {outer'[u], inner'[u]}, Builder(c)
               PROVE  entries[c.key] = 0 /\ pending'[c.key] = c.build
    BY <1>2 DEF BuildsPending
  <2>1. CASE c \in {outer[u], inner[u]}
    BY <1>2, <1>6, <2>1 DEF IInv, BuildsPending, TypeOK
  <2>2. CASE c = call
    BY <1>2, <1>5, <2>2 DEF IInv, TypeOK
  <2> QED
    BY <1>3, <2>1, <2>2
<1>8. OneBuildPerKey'
  <2> SUFFICES ASSUME NEW u \in Threads, NEW v \in Threads, NEW x \in Keys,
                      Building(u, x)'
               PROVE  entries[x] = 0 /\ (Building(v, x)' => u = v)
    BY <1>2 DEF OneBuildPerKey
  <2>1. \A w \in Threads : Building(w, x)' => IF x = k THEN w = t ELSE Building(w, x)
    BY <1>3, <1>5, <1>6 DEF Building, Builder
  <2> QED
    BY <1>2, <2>1 DEF IInv, OneBuildPerKey
<1> QED
  BY <1>2, <1>3, <1>4, <1>7, <1>8 DEF IInv, LimitKept, Stored

(* What a step of a thread's innermost call leaves of the others.          *)
LEMMA SetTopCall ==
  ASSUME IInv, NEW t \in Threads, Top(t).at # "none", NEW at \in Ats, at # "needs",
         SetTop(t, [Top(t) EXCEPT !.at = at]), Inside(t) \/ Top(t).at # "needs"
  PROVE  /\ outer' \in [Threads -> Calls(States)] /\ inner' \in [Threads -> Calls({Library})]
         /\ CallsNested'
         /\ \A u \in Threads \ {t} : outer'[u] = outer[u] /\ inner'[u] = inner[u]
         /\ \A c \in {outer'[t], inner'[t]} :
              Builder(c) => \/ c \in {outer[t], inner[t]} /\ c # Top(t)
                            \/ c = [Top(t) EXCEPT !.at = at]
<1> DEFINE call == [Top(t) EXCEPT !.at = at]
<1>1. CASE Inside(t)
  <2>1. inner' = [inner EXCEPT ![t] = call] /\ UNCHANGED outer
    BY <1>1 DEF SetTop
  <2>2. call \in Calls({Library}) /\ call.at # "needs" /\ outer[t] # Top(t)
    BY <1>1, TopTyped DEF IInv, Calls, Open
  <2> HIDE DEF call
  <2>3. outer' \in [Threads -> Calls(States)] /\ inner' \in [Threads -> Calls({Library})]
    BY <2>1, <2>2 DEF IInv, TypeOK
  <2>4. \A u \in Threads \ {t} : outer'[u] = outer[u] /\ inner'[u] = inner[u]
    BY <2>1 DEF IInv, TypeOK
  <2>5. CallsNested'
    BY <1>1, <2>1, <2>2 DEF IInv, TypeOK, CallsNested, Inside
  <2>6. \A c \in {outer'[t], inner'[t]} :
          Builder(c) => (c \in {outer[t], inner[t]} /\ c # Top(t)) \/ c = call
    BY <1>1, <2>1, <2>2 DEF IInv, TypeOK
  <2> QED
    BY <2>3, <2>4, <2>5, <2>6 DEF call
<1>2. CASE ~Inside(t)
  <2>1. outer' = [outer EXCEPT ![t] = call] /\ UNCHANGED inner
    BY <1>2 DEF SetTop
  <2>2. call \in Calls(States) /\ inner[t] # Top(t)
    BY <1>2, TopTyped DEF IInv, Calls, Open
  <2> HIDE DEF call
  <2>3. outer' \in [Threads -> Calls(States)] /\ inner' \in [Threads -> Calls({Library})]
    BY <2>1, <2>2 DEF IInv, TypeOK
  <2>4. \A u \in Threads \ {t} : outer'[u] = outer[u] /\ inner'[u] = inner[u]
    BY <2>1 DEF IInv, TypeOK
  <2>5. CallsNested'
    BY <1>2, <2>1, <2>2 DEF IInv, TypeOK, CallsNested, Inside
  <2>6. \A c \in {outer'[t], inner'[t]} :
          Builder(c) => (c \in {outer[t], inner[t]} /\ c # Top(t)) \/ c = call
    BY <1>2, <2>1, <2>2 DEF IInv, TypeOK
  <2> QED
    BY <2>3, <2>4, <2>5, <2>6 DEF call
<1> QED
  BY <1>1, <1>2

(* The order stays within the limit and injective, and holds the new state. *)
LEMMA StoreOrder ==
  ASSUME IInv, NEW k \in States, entries[k] = 0, buildOrder' = Kept(Append(buildOrder, k))
  PROVE  /\ buildOrder' \in Seq(States) /\ Len(buildOrder') <= Limit
         /\ IsInjective(buildOrder')
         /\ k \in Stored' /\ Stored' \subseteq Stored \cup {k}
<1> DEFINE order == Append(buildOrder, k)
<1>1. /\ order \in Seq(States) /\ Len(order) = Len(buildOrder) + 1 /\ Len(order) <= Limit + 1
      /\ Len(buildOrder) \in Nat
      /\ \A i \in 1..Len(buildOrder) : order[i] = buildOrder[i]
      /\ order[Len(order)] = k
      /\ DOMAIN buildOrder = 1..Len(buildOrder)
  BY BuildCacheAssumption DEF IInv, TypeOK, LimitKept
<1>2. \A i \in 1..Len(buildOrder) : buildOrder[i] # k
  BY <1>1 DEF IInv, LimitKept, Stored
<1>3. \A i, j \in 1..Len(order) : order[i] = order[j] => i = j
  BY <1>1, <1>2 DEF IInv, LimitKept, IsInjective
<1>4. \A i \in 1..Len(order) : order[i] \in Stored \cup {k}
  BY <1>1 DEF Stored
<1> HIDE DEF order
<1>5. CASE Len(order) > Limit
  <2>1. buildOrder' = Tail(order) /\ Len(order) >= 2
    BY <1>1, <1>5, BuildCacheAssumption DEF Kept, order
  <2>2. /\ buildOrder' \in Seq(States) /\ Len(buildOrder') = Len(order) - 1
        /\ \A i \in 1..Len(buildOrder') : buildOrder'[i] = order[i + 1]
        /\ DOMAIN buildOrder' = 1..Len(buildOrder')
    BY <1>1, <2>1
  <2>3. Len(order) - 1 \in DOMAIN buildOrder' /\ buildOrder'[Len(order) - 1] = k
    BY <1>1, <2>1, <2>2
  <2>4. \A i \in DOMAIN buildOrder' : i + 1 \in 1..Len(order)
    BY <1>1, <2>2
  <2>5. IsInjective(buildOrder')
    BY <1>1, <1>3, <2>2, <2>4 DEF IsInjective
  <2>6. Len(buildOrder') <= Limit
    BY <1>1, <2>2, BuildCacheAssumption
  <2> QED
    BY <1>4, <2>2, <2>3, <2>4, <2>5, <2>6 DEF Stored
<1>6. CASE ~(Len(order) > Limit)
  <2>1. buildOrder' = order /\ DOMAIN order = 1..Len(order) /\ Len(order) \in DOMAIN order
    BY <1>1, <1>6 DEF Kept, order
  <2> QED
    BY <1>1, <1>3, <1>4, <1>6, <2>1, BuildCacheAssumption DEF Stored, IsInjective
<1> QED
  BY <1>5, <1>6

LEMMA StoreIInv ==
  ASSUME IInv, NEW t \in Threads, Store(t)
  PROVE  IInv'
<1> DEFINE k == Top(t).key
           b == Top(t).build
           call == [Top(t) EXCEPT !.at = "stored"]
<1>1. /\ Top(t).at = "builds" /\ answer' = 0 /\ UNCHANGED left
      /\ buildOrder' = Kept(Ordered(k))
      /\ entries' = [x \in Keys |-> IF x = k THEN b
                                    ELSE IF x \in {Library} \cup Stored' THEN entries[x] ELSE 0]
      /\ pending' = [pending EXCEPT ![k] = 0] /\ SetTop(t, call)
  BY DEF Store
<1>2. /\ k \in Keys /\ b \in Builds /\ b # 0 /\ entries[k] = 0
      /\ Top(t) \in {outer[t], inner[t]} /\ Builder(Top(t))
  BY <1>1, TopTyped, BuildCacheAssumption DEF IInv, Open, BuildsPending, Builder, Top
<1>3. /\ outer' \in [Threads -> Calls(States)] /\ inner' \in [Threads -> Calls({Library})]
      /\ CallsNested'
      /\ \A u \in Threads \ {t} : outer'[u] = outer[u] /\ inner'[u] = inner[u]
      /\ \A c \in {outer'[t], inner'[t]} : Builder(c) => c \in {outer[t], inner[t]} /\ c # Top(t)
  <2>1. "stored" \in Ats /\ "stored" # "needs" /\ ~Builder(call)
    <3>1. Top(t) \in Open(Keys)
      BY <1>1, TopTyped DEF IInv
    <3> QED
      BY <3>1 DEF Ats, Builder, Open
  <2> QED
    BY <1>1, <2>1, SetTopCall
<1>4. /\ buildOrder' \in Seq(States) /\ Len(buildOrder') <= Limit /\ IsInjective(buildOrder')
      /\ k \in States => k \in Stored'
      /\ Stored' \subseteq Stored \cup {k} /\ Stored' \subseteq States
  <2>1. CASE k = Library
    <3>1. buildOrder' = buildOrder
      BY <1>1, <2>1, BuildCacheAssumption DEF Ordered, Kept, IInv, TypeOK, LimitKept
    <3> QED
      BY <2>1, <3>1, BuildCacheAssumption DEF IInv, TypeOK, LimitKept, Stored
  <2>2. CASE k # Library
    <3>1. k \in States /\ buildOrder' = Kept(Append(buildOrder, k))
      BY <1>1, <1>2, <2>2 DEF Ordered, Keys
    <3>2. /\ buildOrder' \in Seq(States) /\ Len(buildOrder') <= Limit
          /\ IsInjective(buildOrder')
          /\ k \in Stored' /\ Stored' \subseteq Stored \cup {k}
      BY <1>2, <3>1, StoreOrder
    <3> QED
      BY <3>1, <3>2 DEF IInv, LimitKept
  <2> QED
    BY <2>1, <2>2
<1> HIDE DEF k, b, call
<1>5. TypeOK'
  BY <1>1, <1>2, <1>3, <1>4 DEF IInv, TypeOK
<1>6. Stored' = {x \in States : entries'[x] # 0}
  <2>1. \A x \in States : x \in Stored' <=> entries'[x] # 0
    BY <1>1, <1>2, <1>4, BuildCacheAssumption DEF IInv, LimitKept, Keys
  <2> QED
    BY <1>4, <2>1
<1>7. \A u \in Threads : \A c \in {outer'[u], inner'[u]} :
        Builder(c) => c \in {outer[u], inner[u]} /\ c.key # k /\ c.key \in Keys
  <2> SUFFICES ASSUME NEW u \in Threads, NEW c \in {outer'[u], inner'[u]}, Builder(c)
               PROVE  c \in {outer[u], inner[u]} /\ c.key # k /\ c.key \in Keys
    OBVIOUS
  <2>1. c \in {outer[u], inner[u]} /\ (u = t => c # Top(t))
    BY <1>3
  <2>2. c.key \in Keys
    BY <2>1, CallParts DEF IInv, TypeOK, Builder, Open, Keys
  <2>3. CASE u # t
    BY <1>2, <2>1, <2>2, <2>3 DEF IInv, OneBuildPerKey, Building, Builder, k
  <2>4. CASE u = t
    <3>1. Inside(t) /\ c = outer[t] /\ Top(t) = inner[t] /\ outer[t] \in Open(States)
          /\ inner[t] \in Open({Library})
      BY <2>1, <2>4, TopTyped DEF IInv, Builder
    <3> QED
      BY <2>1, <2>2, <2>4, <3>1, BuildCacheAssumption DEF Open, k
  <2> QED
    BY <2>1, <2>2, <2>3, <2>4
<1>8. BuildsPending'
  BY <1>1, <1>7 DEF IInv, BuildsPending, TypeOK
<1>9. OneBuildPerKey'
  <2>1. \A u \in Threads, x \in Keys : Building(u, x)' => Building(u, x) /\ x # k
    BY <1>7 DEF Building, Builder
  <2> QED
    BY <1>1, <2>1 DEF IInv, OneBuildPerKey
<1> QED
  BY <1>3, <1>4, <1>5, <1>6, <1>8, <1>9 DEF IInv, LimitKept

(* A call that returns: the build that needed it goes on, or the render.   *)
LEMMA ReturnCall ==
  ASSUME IInv, NEW t \in Threads, Top(t).at \in {"stored", "waits"}, Return(t, Top(t).build),
         UNCHANGED <<entries, buildOrder, pending>>, left' \subseteq left \cup {<<Top(t).key, Top(t).build>>}
  PROVE  IInv'
<1>1. Top(t) \in Open(Keys) /\ Top(t).build \in Builds
  BY TopTyped DEF IInv, Open
<1>2. left' \subseteq Keys \X Builds
  BY <1>1 DEF IInv, TypeOK, Open
<1>3. CASE Inside(t)
  <2>1. /\ inner' = [inner EXCEPT ![t] = NoCall]
        /\ outer' = [outer EXCEPT ![t].at = "builds"] /\ answer' = 0
        /\ outer[t] \in Open(States) /\ outer[t].at = "needs"
    BY <1>3, TopTyped DEF Return, IInv
  <2>2. outer'[t] \in Open(States) /\ outer'[t].at = "builds" /\ outer'[t].key = outer[t].key
        /\ outer'[t].build = outer[t].build /\ inner'[t] = NoCall
        /\ \A u \in Threads \ {t} : outer'[u] = outer[u] /\ inner'[u] = inner[u]
    BY <2>1 DEF Open, Ats, IInv, TypeOK
  <2>3. TypeOK'
    BY <1>2, <2>1, <2>2 DEF IInv, TypeOK, Calls, Open
  <2>4. CallsNested' /\ BuildsPending'
    BY <2>1, <2>2 DEF IInv, CallsNested, BuildsPending, Builder, Inside, NoCall
  <2>5. OneBuildPerKey'
    <3>1. \A u \in Threads, x \in Keys : Building(u, x)' => Building(u, x)
      <4> SUFFICES ASSUME NEW u \in Threads, NEW x \in Keys, Building(u, x)' PROVE Building(u, x)
        OBVIOUS
      <4>1. PICK c \in {outer'[u], inner'[u]} : c.at \in {"needs", "builds"} /\ c.key = x
        BY DEF Building
      <4>2. \E d \in {outer[u], inner[u]} : d.at \in {"needs", "builds"} /\ d.key = x
        <5>1. NoCall.at = "none"
          BY DEF NoCall
        <5>2. CASE u = t
          BY <2>1, <2>2, <4>1, <5>1, <5>2
        <5>3. CASE u # t
          BY <2>2, <4>1, <5>3
        <5> QED
          BY <5>2, <5>3
      <4> QED
        BY <4>2 DEF Building
    <3> QED
      BY <3>1 DEF IInv, OneBuildPerKey
  <2> QED
    BY <2>1, <2>3, <2>4, <2>5 DEF IInv, LimitKept, Stored
<1>4. CASE ~Inside(t)
  <2>1. outer' = [outer EXCEPT ![t] = NoCall] /\ answer' = Top(t).build /\ UNCHANGED inner
    BY <1>4 DEF Return
  <2>2. TypeOK'
    BY <1>1, <1>2, <2>1 DEF IInv, TypeOK, Calls
  <2>3. CallsNested' /\ BuildsPending' /\ OneBuildPerKey'
    BY <1>4, <2>1 DEF IInv, TypeOK, CallsNested, BuildsPending, Builder, OneBuildPerKey,
                      Building, Inside, NoCall
  <2> QED
    BY <2>1, <2>2, <2>3 DEF IInv, LimitKept, Stored
<1> QED
  BY <1>3, <1>4

LEMMA LeaveIInv ==
  ASSUME IInv, NEW t \in Threads, Leave(t)
  PROVE  IInv'
<1>1. left' \subseteq left \cup {<<Top(t).key, Top(t).build>>}
  BY DEF Leave, LeaveGroup
<1> QED
  BY <1>1, ReturnCall DEF Leave

LEMMA WakeIInv ==
  ASSUME IInv, NEW t \in Threads, Wake(t)
  PROVE  IInv'
<1>1. left' \subseteq left \cup {<<Top(t).key, Top(t).build>>}
  BY DEF Wake
<1> QED
  BY <1>1, ReturnCall DEF Wake, Result

LEMMA NextIInv == IInv /\ [Next]_vars => IInv'
<1> SUFFICES ASSUME IInv, [Next]_vars PROVE IInv'
  OBVIOUS
<1>1. ASSUME NEW t \in Threads, NEW k \in Keys, Lookup(t, k) PROVE IInv'
  BY <1>1, HitIInv, JoinIInv, BeginBuildIInv DEF Lookup
<1>2. ASSUME NEW t \in Threads, GoOn(t) PROVE IInv'
  <2>1. Library \in Keys
    BY DEF Keys
  <2> QED
    BY <1>1, <1>2, <2>1, StoreIInv, LeaveIInv, WakeIInv DEF GoOn
<1>3. CASE UNCHANGED vars
  <2>1. UNCHANGED <<entries, buildOrder, pending, left, outer, inner, answer>>
    BY <1>3 DEF vars
  <2>2. TypeOK' /\ CallsNested'
    BY <2>1 DEF IInv, TypeOK, CallsNested, Inside
  <2>3. BuildsPending' /\ OneBuildPerKey'
    BY <2>1 DEF IInv, BuildsPending, OneBuildPerKey, Building
  <2> QED
    BY <2>1, <2>2, <2>3 DEF IInv, LimitKept, Stored
<1>4. States \subseteq Keys
  BY DEF Keys
<1> QED
  BY <1>1, <1>2, <1>3, <1>4 DEF Next

THEOREM Invariance == SafeSpec => []IInv
BY InitIInv, NextIInv, PTL DEF SafeSpec

(* The entries, the order, the pending builds and the calls have their     *)
(* types: entryForKey: only ever holds keys of its own cache.              *)
THEOREM BuildCacheTypeCorrect == SafeSpec => []TypeOK
BY Invariance, PTL DEF IInv

(* entryForKey: "one build per key": no key is built twice at once, and    *)
(* none that has an entry, for any number of threads and states.           *)
THEOREM BuildsNotDuplicated == SafeSpec => []OneBuildPerKey
BY Invariance, PTL DEF IInv

(* The state cache keeps its limit, for any limit, and its order lists its *)
(* entries, so that the eviction of entryForKey: reaches each of them.     *)
THEOREM LimitNeverExceeded == SafeSpec => []LimitKept
BY Invariance, PTL DEF IInv

LEMMA NextAnswers ==
  ASSUME IInv, [Next]_vars, NEW t \in Threads, outer[t] # NoCall, outer'[t] = NoCall
  PROVE  answer' # 0 /\ answer' = outer[t].build
<1>1. outer[t].at # "none" /\ outer[t] \in Open(States) /\ outer[t].build \in Builds
  BY CallParts DEF IInv, TypeOK, Open
<1>2. ASSUME NEW u \in Threads, Return(u, Top(u).build)
      PROVE  answer' = outer[t].build
  <2>1. CASE Inside(u)
    BY <1>1, <1>2, <2>1 DEF Return, IInv, TypeOK, NoCall, Open
  <2>2. CASE ~Inside(u)
    BY <1>1, <1>2, <2>2 DEF Return, IInv, TypeOK, Top
  <2> QED
    BY <2>1, <2>2
<1>3. ASSUME NEW u \in Threads, NEW k \in Keys, Lookup(u, k)
      PROVE  FALSE
  <2>1. CASE Hit(u, k)
    BY <1>1, <2>1 DEF Hit, NoCall, IInv, TypeOK, Open
  <2>2. ASSUME NEW b, NEW at \in Ats, Enter(u, Call(k, at, b)) PROVE FALSE
    <3>1. Call(k, at, b) # NoCall
      BY DEF Call, NoCall, Ats
    <3> HIDE DEF Call
    <3> QED
      BY <2>2, <3>1 DEF Enter, IInv, TypeOK
  <2>3. CASE Join(u, k)
    <3>1. "waits" \in Ats
      BY DEF Ats
    <3> QED
      BY <2>2, <2>3, <3>1 DEF Join
  <2>4. CASE BeginBuild(u, k)
    <3>1. PICK b \in Builds : Enter(u, Call(k, IF k = Library THEN "builds" ELSE "needs", b))
      BY <2>4 DEF BeginBuild
    <3>2. (IF k = Library THEN "builds" ELSE "needs") \in Ats
      BY DEF Ats
    <3> QED
      BY <2>2, <3>1, <3>2
  <2> QED
    BY <1>3, <2>1, <2>3, <2>4 DEF Lookup
<1>4. ASSUME NEW u \in Threads, Store(u)
      PROVE  FALSE
  <2>1. SetTop(u, [Top(u) EXCEPT !.at = "stored"]) /\ Top(u) \in Open(Keys)
    BY <1>4, TopTyped DEF Store, IInv
  <2>2. [Top(u) EXCEPT !.at = "stored"] # NoCall
    BY <2>1 DEF Open, NoCall
  <2> QED
    BY <2>1, <2>2 DEF SetTop, IInv, TypeOK
<1>5. ASSUME NEW u \in Threads, GoOn(u)
      PROVE  answer' = outer[t].build
  <2>1. Library \in Keys
    BY DEF Keys
  <2> QED
    BY <1>2, <1>3, <1>4, <1>5, <2>1 DEF GoOn, Leave, Wake, Result
<1>6. answer' = outer[t].build
  <2>1. ~UNCHANGED vars /\ States \subseteq Keys
    BY DEF vars, Keys
  <2> QED
    BY <1>3, <1>5, <2>1 DEF Next
<1> QED
  BY <1>1, <1>6, BuildCacheAssumption

(* Every call of entryForKey: that returns gives its render the build it   *)
(* made or joined, evicted meanwhile or not.                               *)
THEOREM AnswersAreBuilds == SafeSpec => AnswersWithABuild
<1>1. IInv /\ [Next]_vars =>
        [\A t \in Threads :
           outer[t] # NoCall /\ outer'[t] = NoCall => answer' # 0 /\ answer' = outer[t].build]_vars
  BY NextAnswers
<1> QED
  BY <1>1, Invariance, PTL DEF SafeSpec, AnswersWithABuild

----------------------------------------------------------------------------
(* Waiting.  A call that a thread makes is told apart by its key and build. *)
Has(t, ats, k, b) == \E call \in {outer[t], inner[t]} :
                       call.at \in ats /\ call.key = k /\ call.build = b
Owing == {"needs", "builds", "stored"}

(* A pending build has a thread that builds it, and a wait has a build that *)
(* is still to be left, or was left.                                       *)
PendingBuilt ==
  \A k \in Keys : pending[k] # 0 => \E u \in Threads : Has(u, {"needs", "builds"}, k, pending[k])
WaitersServed ==
  \A t \in Threads, k \in Keys, b \in Builds :
    Has(t, {"waits"}, k, b) => <<k, b>> \in left \/ \E u \in Threads : Has(u, Owing, k, b)

WInv == IInv /\ PendingBuilt /\ WaitersServed

LEMMA WaitsAsFields ==
  ASSUME TypeOK, NEW t \in Threads, NEW k, NEW b
  PROVE  Waits(t, k, b) <=> Has(t, {"waits"}, k, b)
<1>1. ASSUME NEW call \in {outer[t], inner[t]}, call.at = "waits", call.key = k, call.build = b
      PROVE  call = Call(k, "waits", b)
  <2>1. call \in Open(Keys)
    BY <1>1, CallParts DEF TypeOK, Open, Keys
  <2> QED
    BY <1>1, <2>1 DEF Open, Call
<1>2. Call(k, "waits", b).at = "waits" /\ Call(k, "waits", b).key = k /\ Call(k, "waits", b).build = b
  BY DEF Call
<1> QED
  BY <1>1, <1>2 DEF Waits, Has

LEMMA InitWInv == Init => WInv
<1> SUFFICES ASSUME Init PROVE WInv
  OBVIOUS
<1>1. \A t \in Threads : outer[t].at = "none" /\ inner[t].at = "none"
  BY DEF Init, NoCall
<1> QED
  BY <1>1, InitIInv DEF Init, WInv, PendingBuilt, WaitersServed, Has

(* A step that ends no build.                                              *)
KeepsOwing ==
  \A u \in Threads : \A k, b :
    /\ Has(u, Owing, k, b) => Has(u, Owing, k, b)'
    /\ Has(u, {"needs", "builds"}, k, b) => Has(u, {"needs", "builds"}, k, b)'

(* A lookup ends no call; what it enters is new.                           *)
LEMMA LookupKeeps ==
  ASSUME WInv, NEW t \in Threads, NEW k \in Keys, Lookup(t, k)
  PROVE  /\ left' = left
         /\ KeepsOwing
         /\ \A u \in Threads : \A x, b :
              Has(u, {"waits"}, x, b)' =>
                Has(u, {"waits"}, x, b) \/ (pending[x] # 0 /\ b = pending[x] /\ x \in Keys)
         /\ \A x \in Keys : \/ pending'[x] = pending[x]
                            \/ Has(t, {"needs", "builds"}, x, pending[x])'
<1>1. /\ outer \in [Threads -> Calls(States)] /\ inner \in [Threads -> Calls({Library})]
      /\ pending \in [Keys -> Builds \cup {0}] /\ 0 \notin Builds
  BY BuildCacheAssumption DEF WInv, IInv, TypeOK
<1>2. Owing = {"needs", "builds", "stored"} /\ NoCall.at = "none"
  BY DEF Owing, NoCall
<1>3. CASE Hit(t, k)
  <2>1. /\ UNCHANGED <<pending, left, inner>>
        /\ \/ UNCHANGED outer
           \/ /\ k = Library /\ Asks(t, k)
              /\ outer' = [outer EXCEPT ![t].at = "builds"]
    BY <1>3 DEF Hit
  <2>2. CASE k = Library /\ Asks(t, k) /\ outer' = [outer EXCEPT ![t].at = "builds"]
    <3>1. ~Inside(t) /\ outer[t].at = "needs" /\ outer[t] \in Open(States)
      BY <2>2, TopTyped DEF Asks, WInv, IInv
    <3>2. /\ outer'[t].at = "builds" /\ outer'[t].key = outer[t].key
          /\ outer'[t].build = outer[t].build
          /\ \A u \in Threads \ {t} : outer'[u] = outer[u]
      BY <1>1, <2>2, <3>1 DEF Open
    <3> QED
      BY <1>2, <2>1, <3>1, <3>2 DEF Has, KeepsOwing
  <2>3. CASE UNCHANGED outer
    <3> QED
      BY <2>1, <2>3 DEF Has, KeepsOwing
  <2> QED
    BY <2>1, <2>2, <2>3
<1>4. ASSUME NEW b \in Builds, NEW at \in Ats, at # "stored", Enter(t, Call(k, at, b)), Asks(t, k),
             k = Library => at # "needs"
      PROVE  /\ KeepsOwing
             /\ \A u \in Threads : \A x, c :
                   Has(u, {"waits"}, x, c)' =>
                     Has(u, {"waits"}, x, c) \/ (at = "waits" /\ x = k /\ c = b)
             /\ Has(t, {at}, k, b)'
  <2>1. ~Inside(t)
    BY <1>4, EnterCall DEF WInv
  <2>2. inner[t] = NoCall /\ outer[t].at = IF k = Library THEN "needs" ELSE "none"
    BY <1>4, <2>1, TopTyped DEF WInv, IInv, Asks
  <2>3. \/ k = Library /\ inner' = [inner EXCEPT ![t] = Call(k, at, b)] /\ UNCHANGED outer
        \/ k # Library /\ outer' = [outer EXCEPT ![t] = Call(k, at, b)] /\ UNCHANGED inner
    BY <1>4 DEF Enter, Call
  <2>4. Call(k, at, b).at = at /\ Call(k, at, b).key = k /\ Call(k, at, b).build = b
    BY DEF Call
  <2>5. \A u \in Threads \ {t} : outer'[u] = outer[u] /\ inner'[u] = inner[u]
    BY <1>1, <2>3
  <2>6. \/ outer'[t] = outer[t] /\ inner'[t] = Call(k, at, b)
        \/ outer[t].at = "none" /\ inner'[t] = inner[t] /\ outer'[t] = Call(k, at, b)
    BY <1>1, <2>2, <2>3
  <2> HIDE DEF Call
  <2> QED
    BY <1>2, <2>2, <2>4, <2>5, <2>6 DEF Has, KeepsOwing
<1>5. CASE Join(t, k)
  <2>1. /\ pending[k] \in Builds /\ Enter(t, Call(k, "waits", pending[k])) /\ Asks(t, k)
        /\ UNCHANGED <<pending, left>> /\ "waits" \in Ats /\ pending[k] # 0
    BY <1>1, <1>5 DEF Join, Ats
  <2> QED
    BY <1>4, <2>1
<1>6. CASE BeginBuild(t, k)
  <2> DEFINE at == IF k = Library THEN "builds" ELSE "needs"
  <2>1. PICK b \in Builds : PendingBuild(k, b) /\ Enter(t, Call(k, at, b))
    BY <1>6 DEF BeginBuild
  <2>2. /\ Asks(t, k) /\ left' = left /\ pending' = [pending EXCEPT ![k] = b]
        /\ at \in Ats /\ at \in {"needs", "builds"} /\ (k = Library => at # "needs")
    BY <1>6, <2>1 DEF BeginBuild, PendingBuild, Ats
  <2> HIDE DEF at
  <2>3. /\ KeepsOwing
        /\ \A u \in Threads : \A x, c : Has(u, {"waits"}, x, c)' => Has(u, {"waits"}, x, c)
        /\ Has(t, {at}, k, b)'
    BY <1>4, <2>1, <2>2
  <2>4. Has(t, {"needs", "builds"}, k, b)'
    BY <2>2, <2>3 DEF Has
  <2> QED
    BY <1>1, <2>2, <2>3, <2>4
<1> QED
  BY <1>3, <1>5, <1>6 DEF Lookup

LEMMA LookupWInv ==
  ASSUME WInv, NEW t \in Threads, NEW k \in Keys, Lookup(t, k)
  PROVE  WInv'
<1>1. IInv'
  BY HitIInv, JoinIInv, BeginBuildIInv DEF Lookup, WInv
<1>2. /\ left' = left /\ KeepsOwing
      /\ \A u \in Threads : \A x, b :
           Has(u, {"waits"}, x, b)' =>
             Has(u, {"waits"}, x, b) \/ (pending[x] # 0 /\ b = pending[x] /\ x \in Keys)
      /\ \A x \in Keys : \/ pending'[x] = pending[x]
                         \/ Has(t, {"needs", "builds"}, x, pending[x])'
  BY LookupKeeps
<1>3. PendingBuilt'
  <2> SUFFICES ASSUME NEW x \in Keys, pending'[x] # 0
               PROVE  \E u \in Threads : Has(u, {"needs", "builds"}, x, pending[x])'
    BY DEF PendingBuilt
  <2>1. CASE pending'[x] = pending[x]
    <3>1. PICK u \in Threads : Has(u, {"needs", "builds"}, x, pending[x])
      BY <2>1 DEF WInv, PendingBuilt
    <3>2. \A b : Has(u, {"needs", "builds"}, x, b) => Has(u, {"needs", "builds"}, x, b)'
      BY <1>2 DEF KeepsOwing
    <3> QED
      BY <2>1, <3>1, <3>2 DEF Has
  <2>2. CASE Has(t, {"needs", "builds"}, x, pending[x])'
    BY <2>2
  <2> QED
    BY <1>2, <2>1, <2>2
<1>4. WaitersServed'
  <2> SUFFICES ASSUME NEW u \in Threads, NEW x \in Keys, NEW b \in Builds, Has(u, {"waits"}, x, b)'
               PROVE  <<x, b>> \in left \/ \E v \in Threads : Has(v, Owing, x, b)'
    BY <1>2 DEF WaitersServed
  <2>1. <<x, b>> \in left \/ \E v \in Threads : Has(v, Owing, x, b)
    <3>1. CASE Has(u, {"waits"}, x, b)
      BY <3>1 DEF WInv, WaitersServed
    <3>2. CASE pending[x] # 0 /\ b = pending[x]
      <4>1. PICK v \in Threads : Has(v, {"needs", "builds"}, x, b)
        BY <3>2 DEF WInv, PendingBuilt
      <4> QED
        BY <4>1 DEF Has, Owing
    <3> QED
      BY <1>2, <3>1, <3>2
  <2>2. ASSUME NEW v \in Threads, Has(v, Owing, x, b) PROVE Has(v, Owing, x, b)'
    BY <1>2, <2>2 DEF KeepsOwing, Has, Owing
  <2> QED
    BY <1>2, <2>1, <2>2
<1> QED
  BY <1>1, <1>3, <1>4 DEF WInv

LEMMA StoreWInv ==
  ASSUME WInv, NEW t \in Threads, Store(t)
  PROVE  WInv'
<1> DEFINE call == [Top(t) EXCEPT !.at = "stored"]
<1>1. /\ Top(t).at = "builds" /\ SetTop(t, call) /\ left' = left
      /\ pending' = [pending EXCEPT ![Top(t).key] = 0]
  BY DEF Store
<1>2. Top(t) \in Open(Keys)
  BY <1>1, TopTyped DEF WInv, IInv
<1>3. call.at = "stored" /\ call.key = Top(t).key /\ call.build = Top(t).build
  BY <1>2 DEF Open
<1> HIDE DEF call
<1>4. /\ \A u \in Threads \ {t} : outer'[u] = outer[u] /\ inner'[u] = inner[u]
      /\ \/ inner[t] = Top(t) /\ inner'[t] = call /\ outer'[t] = outer[t]
         \/ outer[t] = Top(t) /\ outer'[t] = call /\ inner'[t] = inner[t]
  BY <1>1 DEF SetTop, Top, WInv, IInv, TypeOK
<1>5. \A u \in Threads : \A k, b :
        /\ Has(u, Owing, k, b) => Has(u, Owing, k, b)'
        /\ Has(u, {"waits"}, k, b)' => Has(u, {"waits"}, k, b)
        /\ k # Top(t).key /\ Has(u, {"needs", "builds"}, k, b) => Has(u, {"needs", "builds"}, k, b)'
  BY <1>1, <1>3, <1>4 DEF Has, Owing
<1>6. PendingBuilt'
  <2> SUFFICES ASSUME NEW x \in Keys, pending'[x] # 0
               PROVE  \E u \in Threads : Has(u, {"needs", "builds"}, x, pending[x])'
    BY DEF PendingBuilt
  <2>1. x # Top(t).key /\ pending'[x] = pending[x]
    BY <1>1 DEF WInv, IInv, TypeOK
  <2> QED
    BY <1>5, <2>1 DEF WInv, PendingBuilt
<1>7. WaitersServed'
  BY <1>1, <1>5 DEF WInv, WaitersServed
<1> QED
  BY <1>6, <1>7, StoreIInv DEF WInv

(* A call that returns ends one wait, or one build that is then left.      *)
LEMMA ReturnKeeps ==
  ASSUME WInv, NEW t \in Threads, Top(t).at \in {"stored", "waits"}, Return(t, Top(t).build)
  PROVE  \A u \in Threads : \A k, b :
           /\ Has(u, {"needs", "builds"}, k, b) => Has(u, {"needs", "builds"}, k, b)'
           /\ Has(u, {"waits"}, k, b)' => u # t /\ Has(u, {"waits"}, k, b)
           /\ Has(u, Owing, k, b) =>
                \/ Has(u, Owing, k, b)'
                \/ u = t /\ Top(t).at = "stored" /\ k = Top(t).key /\ b = Top(t).build
<1>1. /\ outer \in [Threads -> Calls(States)] /\ inner \in [Threads -> Calls({Library})]
      /\ NoCall.at = "none"
  BY DEF WInv, IInv, TypeOK, NoCall
<1>2. CASE Inside(t)
  <2>1. /\ outer[t] \in Open(States) /\ outer[t].at = "needs" /\ Top(t) = inner[t]
        /\ inner' = [inner EXCEPT ![t] = NoCall] /\ outer' = [outer EXCEPT ![t].at = "builds"]
    BY <1>2, TopTyped DEF Return, WInv, IInv
  <2>2. /\ outer'[t].at = "builds" /\ outer'[t].key = outer[t].key
        /\ outer'[t].build = outer[t].build /\ inner'[t] = NoCall
        /\ \A u \in Threads \ {t} : outer'[u] = outer[u] /\ inner'[u] = inner[u]
    BY <1>1, <2>1 DEF Open
  <2> QED
    BY <1>1, <2>1, <2>2 DEF Has, Owing
<1>3. CASE ~Inside(t)
  <2>1. /\ Top(t) = outer[t] /\ inner[t] = NoCall
        /\ outer' = [outer EXCEPT ![t] = NoCall] /\ inner' = inner
    BY <1>3, TopTyped DEF Return, WInv, IInv
  <2>2. /\ outer'[t] = NoCall /\ inner'[t] = NoCall
        /\ \A u \in Threads \ {t} : outer'[u] = outer[u] /\ inner'[u] = inner[u]
    BY <1>1, <2>1
  <2> QED
    BY <1>1, <2>1, <2>2 DEF Has, Owing
<1> QED
  BY <1>2, <1>3

LEMMA LeaveWInv ==
  ASSUME WInv, NEW t \in Threads, Leave(t)
  PROVE  WInv'
<1>1. /\ Top(t).at = "stored" /\ LeaveGroup(Top(t).key, Top(t).build)
      /\ Return(t, Top(t).build) /\ pending' = pending
  BY DEF Leave
<1>2. PendingBuilt'
  BY <1>1, ReturnKeeps DEF WInv, PendingBuilt
<1>3. WaitersServed'
  <2> SUFFICES ASSUME NEW u \in Threads, NEW k \in Keys, NEW b \in Builds, Has(u, {"waits"}, k, b)'
               PROVE  <<k, b>> \in left' \/ \E v \in Threads : Has(v, Owing, k, b)'
    BY DEF WaitersServed
  <2>1. Has(u, {"waits"}, k, b)
    BY <1>1, ReturnKeeps
  <2>2. left \subseteq left'
    BY <1>1 DEF LeaveGroup
  <2>3. CASE k = Top(t).key /\ b = Top(t).build
    <3>1. Waits(u, k, b)
      BY <2>1, WaitsAsFields DEF WInv, IInv
    <3> QED
      BY <1>1, <2>3, <3>1 DEF LeaveGroup
  <2>4. CASE ~(k = Top(t).key /\ b = Top(t).build)
    <3>1. <<k, b>> \in left \/ \E v \in Threads : Has(v, Owing, k, b)
      BY <2>1 DEF WInv, WaitersServed
    <3> QED
      BY <1>1, <2>2, <2>4, <3>1, ReturnKeeps
  <2> QED
    BY <2>3, <2>4
<1> QED
  BY <1>2, <1>3, LeaveIInv DEF WInv

LEMMA WakeWInv ==
  ASSUME WInv, NEW t \in Threads, Wake(t)
  PROVE  WInv'
<1>1. /\ Top(t).at = "waits" /\ Return(t, Top(t).build) /\ pending' = pending
      /\ left' = IF \E u \in Threads \ {t} : Waits(u, Top(t).key, Top(t).build) THEN left
                 ELSE left \ {<<Top(t).key, Top(t).build>>}
  BY DEF Wake, Result
<1>2. PendingBuilt'
  BY <1>1, ReturnKeeps DEF WInv, PendingBuilt
<1>3. WaitersServed'
  <2> SUFFICES ASSUME NEW u \in Threads, NEW k \in Keys, NEW b \in Builds, Has(u, {"waits"}, k, b)'
               PROVE  <<k, b>> \in left' \/ \E v \in Threads : Has(v, Owing, k, b)'
    BY DEF WaitersServed
  <2>1. u # t /\ Has(u, {"waits"}, k, b)
    BY <1>1, ReturnKeeps
  <2>2. <<k, b>> \in left => <<k, b>> \in left'
    <3>1. Waits(u, k, b)
      BY <2>1, WaitsAsFields DEF WInv, IInv
    <3> QED
      BY <1>1, <2>1, <3>1
  <2>3. <<k, b>> \in left \/ \E v \in Threads : Has(v, Owing, k, b)
    BY <2>1 DEF WInv, WaitersServed
  <2> QED
    BY <1>1, <2>2, <2>3, ReturnKeeps
<1> QED
  BY <1>2, <1>3, WakeIInv DEF WInv

LEMMA NextWInv == WInv /\ [Next]_vars => WInv'
<1> SUFFICES ASSUME WInv, [Next]_vars PROVE WInv'
  OBVIOUS
<1>1. ASSUME NEW t \in Threads, GoOn(t) PROVE WInv'
  <2>1. Library \in Keys
    BY DEF Keys
  <2> QED
    BY <1>1, <2>1, LookupWInv, StoreWInv, LeaveWInv, WakeWInv DEF GoOn
<1>2. CASE UNCHANGED vars
  <2>1. UNCHANGED <<pending, left, outer, inner>> /\ IInv'
    BY <1>2, NextIInv DEF vars, WInv
  <2> QED
    BY <2>1 DEF WInv, PendingBuilt, WaitersServed, Has
<1>3. States \subseteq Keys
  BY DEF Keys
<1> QED
  BY <1>1, <1>2, <1>3, LookupWInv DEF Next

(* A thread that waits for the library is itself waited for as the builder *)
(* of a state, but the library needs no other build.                       *)
LEMMA LibraryNeverWaits ==
  ASSUME WInv, NEW t \in Threads, Blocked(t), Top(t).key = Library
  PROVE  \E u \in Threads : Owes(u, t) /\ ~Blocked(u)
<1> DEFINE b == Top(t).build
<1>1. Top(t) \in Open(Keys) /\ Top(t) \in {outer[t], inner[t]}
  BY TopTyped DEF Blocked, WInv, IInv, Top
<1>2. Has(t, {"waits"}, Library, b) /\ b \in Builds /\ Library \in Keys /\ <<Library, b>> \notin left
  BY <1>1 DEF Blocked, Has, Open, Keys
<1>3. PICK u \in Threads : Has(u, Owing, Library, b)
  BY <1>2 DEF WInv, WaitersServed
<1>4. PICK call \in {outer[u], inner[u]} : call.at \in Owing /\ call.key = Library /\ call.build = b
  BY <1>3 DEF Has
<1>5. call.at # "none" /\ call.at # "waits"
  BY <1>4 DEF Owing
<1>6. call = inner[u] /\ call # NoCall
  <2>1. outer[u].at # "none" => outer[u].key \in States
    BY CallParts DEF WInv, IInv, TypeOK, Open
  <2> QED
    BY <1>4, <1>5, <2>1, BuildCacheAssumption DEF NoCall
<1>7. ~Blocked(u)
  BY <1>5, <1>6 DEF Blocked, Top, Inside
<1> QED
  BY <1>4, <1>7 DEF Owes, Owing

LEMMA ServedWaits == WInv => NobodyWaitsInACircle
<1> SUFFICES ASSUME WInv, NEW t \in Threads, Blocked(t)
             PROVE  \E u \in Threads : /\ Owes(u, t)
                                       /\ Blocked(u) => \E v \in Threads : Owes(v, u) /\ ~Blocked(v)
  BY DEF NobodyWaitsInACircle
<1>1. Top(t) \in Open(Keys) /\ Top(t) \in {outer[t], inner[t]}
  BY TopTyped DEF Blocked, WInv, IInv, Top
<1>2. Has(t, {"waits"}, Top(t).key, Top(t).build)
  BY <1>1 DEF Blocked, Has
<1>3. PICK u \in Threads : Has(u, Owing, Top(t).key, Top(t).build)
  BY <1>1, <1>2 DEF Blocked, Open, WInv, WaitersServed
<1>4. PICK call \in {outer[u], inner[u]} :
        call.at \in Owing /\ call.key = Top(t).key /\ call.build = Top(t).build
  BY <1>3 DEF Has
<1>5. Owes(u, t)
  BY <1>4 DEF Owes, Owing
<1>6. Blocked(u) => Top(u).key = Library
  <2> SUFFICES ASSUME Blocked(u) PROVE Top(u).key = Library
    OBVIOUS
  <2>1. Inside(u)
    <3>1. ~Inside(u) => Top(u) = outer[u] /\ inner[u].at = "none"
      BY TopTyped DEF WInv, IInv
    <3> QED
      BY <1>4, <3>1 DEF Blocked, Owing
  <2> QED
    BY <2>1, TopTyped DEF WInv, IInv, Open
<1> QED
  BY <1>5, <1>6, LibraryNeverWaits

THEOREM WaitInvariance == SafeSpec => []WInv
BY InitWInv, NextWInv, PTL DEF SafeSpec

(* dispatch_group_wait under entryForKey: cannot deadlock: a wait chain    *)
(* ends, after one build that needs the library at most, at a thread that  *)
(* is not blocked, for any number of threads, states and any limit.        *)
THEOREM NoDeadlockOfBuilds == SafeSpec => []NobodyWaitsInACircle
BY WaitInvariance, ServedWaits, PTL
=============================================================================
