------------------------- MODULE MLVideoEffectProofs -------------------------
(***************************************************************************)
(* Proofs about the generation lifecycle, for any threads that call, at    *)
(* once or in turn, and any number of calls.                               *)
(***************************************************************************)
EXTENDS MLVideoEffect, TLAPS

(* A begin that is under way has its token.                                *)
BeginHasToken == \A c \in Callers : call[c] \in {"begin", "dispatch"} => mine[c] \in Tokens

(* No begin has moved with a token nobody has taken yet.                   *)
TokensTaken == begun <= token /\ \A c \in Callers : mine[c] <= token

IInv == TypeOK /\ BeginHasToken /\ TokensTaken /\ GeneratingHasRun

(* Initially nothing is generated and no token is taken.                   *)
LEMMA InitIInv == Init => IInv
BY DEF Init, IInv, TypeOK, BeginHasToken, TokensTaken, GeneratingHasRun, BegunAsNewest, Tokens

(* A call that takes a token overtakes whatever was begun before it.       *)
LEMMA CallStepIInv ==
  ASSUME IInv, NEW c \in Callers, CallStep(c)
  PROVE  IInv'
<1> USE MaxTokenAssumption DEF IInv, TypeOK, BeginHasToken, TokensTaken, Tokens
<1>1. /\ token' = token + 1 /\ token < MaxToken
      /\ UNCHANGED <<state, clip, runs, begun>>
  BY DEF CallStep, Begin, CancelGeneration, ResetGeneration, NewToken
<1>2. GeneratingHasRun'
  BY <1>1 DEF GeneratingHasRun, BegunAsNewest
<1>3. CASE Begin(c)
  <2>1. /\ call' = [call EXCEPT ![c] = "begin"]
        /\ mine' = [mine EXCEPT ![c] = token + 1]
    BY <1>3 DEF Begin, GoesOn
  <2>2. TypeOK'
    BY <1>1, <2>1
  <2>3. BeginHasToken' /\ TokensTaken'
    BY <1>1, <2>1
  <2> QED
    BY <1>2, <2>2, <2>3
<1>4. CASE CancelGeneration(c) \/ ResetGeneration(c)
  <2>1. PICK to \in {"free", "idle"} : call' = [call EXCEPT ![c] = to] /\ mine' = mine
    BY <1>4 DEF CancelGeneration, ResetGeneration, GoesOn
  <2>2. TypeOK'
    BY <1>1, <2>1
  <2>3. BeginHasToken' /\ TokensTaken'
    BY <1>1, <2>1
  <2> QED
    BY <1>2, <2>2, <2>3
<1> QED
  BY <1>3, <1>4 DEF CallStep

(* A begin that moves as the newest has its run ahead; the dispatch of     *)
(* that run puts it on its way, and one of an older run changes nothing.   *)
LEMMA CallGoesOnIInv ==
  ASSUME IInv, NEW c \in Callers, CallGoesOn(c)
  PROVE  IInv'
<1> USE MaxTokenAssumption DEF IInv, TypeOK, BeginHasToken, TokensTaken, Tokens, GoesOn
<1>1. CASE BeginMoves(c)
  <2>1. TypeOK' /\ BeginHasToken' /\ TokensTaken'
    BY <1>1 DEF BeginMoves, MoveToState
  <2>2. GeneratingHasRun'
    <3>1. SUFFICES ASSUME begun' = token' PROVE call'[c] = "dispatch" /\ mine'[c] = token'
      BY DEF GeneratingHasRun, BegunAsNewest
    <3> QED
      BY <1>1, <3>1 DEF BeginMoves
  <2> QED
    BY <2>1, <2>2
<1>2. CASE Dispatch(c)
  <2>1. TypeOK' /\ BeginHasToken' /\ TokensTaken'
    BY <1>2 DEF Dispatch
  <2>2. GeneratingHasRun'
    <3>1. SUFFICES ASSUME BegunAsNewest' PROVE GeneratingHasRun!2'
      BY DEF GeneratingHasRun
    <3>2. BegunAsNewest
      BY <1>2, <3>1 DEF Dispatch, BegunAsNewest
    <3>3. CASE token \in Tokens /\ runs[token] \in {"running", "ready", "failed"}
      BY <1>2, <3>3 DEF Dispatch
    <3>4. CASE \E d \in Callers : call[d] = "dispatch" /\ mine[d] = token
      <4>1. PICK d \in Callers : call[d] = "dispatch" /\ mine[d] = token
        BY <3>4
      <4>2. CASE d = c
        BY <1>2, <4>1, <4>2 DEF Dispatch
      <4>3. CASE d # c
        BY <1>2, <4>1, <4>3 DEF Dispatch
      <4> QED
        BY <4>2, <4>3
    <3> QED
      BY <3>2, <3>3, <3>4 DEF GeneratingHasRun
  <2> QED
    BY <2>1, <2>2
<1>3. CASE MoveToIdle(c)
  <2>1. TypeOK' /\ BeginHasToken' /\ TokensTaken'
    BY <1>3 DEF MoveToIdle, MoveToState
  <2>2. GeneratingHasRun'
    BY <1>3 DEF MoveToIdle, MoveToState, GeneratingHasRun, BegunAsNewest
  <2> QED
    BY <2>1, <2>2
<1> QED
  BY <1>1, <1>2, <1>3 DEF CallGoesOn

(* The run of the newest token is over only once the state has left        *)
(* Generating; a stale run leaves the newest one alone.                    *)
LEMMA RunStepIInv ==
  ASSUME IInv, NEW t \in Tokens, RunStep(t)
  PROVE  IInv'
<1> USE MaxTokenAssumption DEF IInv, TypeOK, BeginHasToken, TokensTaken, Tokens
<1>1. ASSUME NEW outcome \in {"ready", "failed"}, FinishGeneration(t, outcome)
      PROVE  IInv'
  <2>1. TypeOK' /\ BeginHasToken' /\ TokensTaken'
    BY <1>1 DEF FinishGeneration
  <2>2. GeneratingHasRun'
    BY <1>1 DEF FinishGeneration, GeneratingHasRun, BegunAsNewest, Current
  <2> QED
    BY <2>1, <2>2
<1>2. CASE FinishMoves(t)
  <2>1. TypeOK' /\ BeginHasToken' /\ TokensTaken'
    BY <1>2 DEF FinishMoves, MoveToState
  <2>2. GeneratingHasRun'
    BY <1>2 DEF FinishMoves, MoveToState, GeneratingHasRun, BegunAsNewest
  <2> QED
    BY <2>1, <2>2
<1> QED
  BY <1>1, <1>2 DEF RunStep

(* Every step keeps the invariant.                                         *)
LEMMA NextIInv == IInv /\ [Next]_vars => IInv'
<1> SUFFICES ASSUME IInv, [Next]_vars PROVE IInv'
  OBVIOUS
<1>1. CASE Next
  BY <1>1, CallStepIInv, CallGoesOnIInv, RunStepIInv DEF Next
<1>2. CASE UNCHANGED vars
  BY <1>2 DEF vars, IInv, TypeOK, BeginHasToken, TokensTaken, GeneratingHasRun, BegunAsNewest
<1> QED
  BY <1>1, <1>2

(* The state, clip and tokens keep their types; there is a clip exactly in *)
(* the state Ready, however many threads call at once.                     *)
THEOREM LifecycleTypeCorrect == Spec => []TypeOK
<1>1. IInv => TypeOK
  BY DEF IInv
<1> QED
  BY <1>1, InitIInv, NextIInv, PTL DEF Spec

(* A generation that was not overtaken on its way to Generating is never   *)
(* without its run, whichever threads begin, cancel and reset meanwhile.   *)
THEOREM NewestHasRun == Spec => []GeneratingHasRun
<1>1. IInv => GeneratingHasRun
  BY DEF IInv
<1> QED
  BY <1>1, InitIInv, NextIInv, PTL DEF Spec

(* With one caller no begin can be overtaken: from its look on its token   *)
(* is the newest, and a generation it has left behind is the newest's.     *)
OneAtATime ==
  \A c \in Callers :
    /\ call[c] \in {"begin", "dispatch"} => mine[c] = token
    /\ call[c] = "dispatch" => begun = token
    /\ state = "generating" /\ call[c] = "free" => begun = token

LEMMA OneCallerStep ==
  ASSUME NEW c, Callers = {c}, IInv, OneAtATime, [Next]_vars
  PROVE  OneAtATime'
<1> USE DEF OneAtATime, IInv, TypeOK, GoesOn
<1>1. CASE CallStep(c)
  BY <1>1 DEF CallStep, Begin, CancelGeneration, ResetGeneration, NewToken
<1>2. CASE CallGoesOn(c)
  BY <1>2 DEF CallGoesOn, BeginMoves, Dispatch, MoveToIdle, MoveToState
<1>3. ASSUME NEW t \in Tokens, RunStep(t)
      PROVE  OneAtATime'
  BY <1>3 DEF RunStep, FinishGeneration, FinishMoves, MoveToState
<1>4. CASE UNCHANGED vars
  BY <1>4 DEF vars
<1> QED
  BY <1>1, <1>2, <1>3, <1>4 DEF Next

(* A single thread that begins, cancels and resets never leaves the effect *)
(* generating with no run on its way: it takes two that overlap.           *)
THEOREM OneCallerNeverStuck ==
  ASSUME NEW c, Callers = {c}
  PROVE  Spec => [](state = "generating" =>
                      \/ call[c] # "free"
                      \/ token \in Tokens /\ runs[token] \in {"running", "ready", "failed"})
<1> DEFINE Stays == state = "generating" =>
                      \/ call[c] # "free"
                      \/ token \in Tokens /\ runs[token] \in {"running", "ready", "failed"}
<1>1. Init => OneAtATime
  BY DEF Init, OneAtATime
<1>2. IInv /\ OneAtATime /\ [Next]_vars => OneAtATime'
  BY OneCallerStep
<1>3. IInv /\ OneAtATime => Stays
  BY DEF IInv, OneAtATime, GeneratingHasRun, BegunAsNewest
<1> HIDE DEF Stays
<1>4. Spec => []Stays
  BY <1>1, <1>2, <1>3, InitIInv, NextIInv, PTL DEF Spec
<1> QED
  BY <1>4 DEF Stays
=============================================================================
