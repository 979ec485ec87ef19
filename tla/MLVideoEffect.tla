---------------------------- MODULE MLVideoEffect ----------------------------
(***************************************************************************)
(* FxGripMLVideoEffect: a clip that a model generates once, for seconds to *)
(* minutes, on a concurrent queue.  Callers begin, cancel and reset; a     *)
(* finished run applies its result unless a newer begin or a cancel has    *)
(* invalidated its token.                                                  *)
(*                                                                         *)
(* The lock is taken twice in each of these operations, once to look and   *)
(* once in moveToState:, and each hold of it is one step.  Nothing keeps   *)
(* two threads from calling at once: the host's main thread, its analysis  *)
(* pass, and whatever generationStateDidChange calls on the thread that    *)
(* moved the state are callers of their own.  Runs are not interrupted, so *)
(* many may be under way.                                                  *)
(***************************************************************************)
EXTENDS Naturals

CONSTANTS Callers,  \* the threads that call
          MaxToken  \* bound on the calls that take a new token

ASSUME MaxTokenAssumption == MaxToken \in Nat

Tokens == 1..MaxToken

VARIABLES
  state, \* _state
  clip,  \* _clipURL, as the token of the run that made it; 0 if nil
  token, \* _generationToken
  call,  \* per caller, what its call does next
  mine,  \* the token its begin has taken
  runs,  \* per token, where its run on the generation queue is
  begun  \* the token of the begin that last moved to Generating; for the
         \* properties only

vars == <<state, clip, token, call, mine, runs, begun>>

TypeOK ==
  /\ state \in {"idle", "generating", "ready", "failed"}
  /\ clip \in Tokens \cup {0} /\ (clip # 0 <=> state = "ready")
  /\ token \in Tokens \cup {0} /\ begun \in Tokens \cup {0}
  /\ call \in [Callers -> {"free", "begin", "dispatch", "idle"}]
  /\ mine \in [Callers -> Tokens \cup {0}]
  /\ runs \in [Tokens -> {"none", "running", "ready", "failed", "over"}]

Init ==
  /\ state = "idle" /\ clip = 0 /\ token = 0 /\ begun = 0
  /\ call = [c \in Callers |-> "free"]
  /\ mine = [c \in Callers |-> 0]
  /\ runs = [t \in Tokens |-> "none"]

(* moveToState: sets all that the lock guards at once.  (Wrong: a nil clip *)
(* leaves the old one.)                                                    *)
MoveToStateKeepsClip(s, c) == state' = s /\ clip' = IF c = 0 THEN clip ELSE c
MoveToState(s, c) == state' = s /\ clip' = c

NewToken == token < MaxToken /\ token' = token + 1
GoesOn(c, from, to) == call[c] = from /\ call' = [call EXCEPT ![c] = to]

----------------------------------------------------------------------------
(* beginGenerationAtTime: takes a token unless a generation runs, ...      *)
Begin(c) ==
  /\ state # "generating" /\ NewToken
  /\ GoesOn(c, "free", "begin")
  /\ mine' = [mine EXCEPT ![c] = token + 1]
  /\ UNCHANGED <<state, clip, runs, begun>>

(* ... moves to Generating, whatever has happened since, ...               *)
BeginMoves(c) ==
  /\ GoesOn(c, "begin", "dispatch")
  /\ MoveToState("generating", 0) /\ begun' = mine[c]
  /\ UNCHANGED <<token, mine, runs>>

(* ... and dispatches the run.                                             *)
Dispatch(c) ==
  /\ GoesOn(c, "dispatch", "free")
  /\ runs' = [runs EXCEPT ![mine[c]] = "running"]
  /\ mine' = [mine EXCEPT ![c] = 0]
  /\ UNCHANGED <<state, clip, token, begun>>

(* A wrong cancel: it moves to Idle only when nothing is running.          *)
CancelLeavesGenerating(c) ==
  /\ NewToken
  /\ GoesOn(c, "free", IF state = "generating" THEN "free" ELSE "idle")
  /\ UNCHANGED <<state, clip, mine, runs, begun>>

(* cancelGeneration invalidates the run and, if there was one, moves to    *)
(* Idle; resetGeneration moves in any case.                                *)
CancelGeneration(c) ==
  /\ NewToken
  /\ GoesOn(c, "free", IF state = "generating" THEN "idle" ELSE "free")
  /\ UNCHANGED <<state, clip, mine, runs, begun>>
ResetGeneration(c) ==
  /\ NewToken
  /\ GoesOn(c, "free", "idle")
  /\ UNCHANGED <<state, clip, mine, runs, begun>>
MoveToIdle(c) ==
  /\ GoesOn(c, "idle", "free")
  /\ MoveToState("idle", 0)
  /\ UNCHANGED <<token, mine, runs, begun>>

----------------------------------------------------------------------------
(* Wrong look: the result counts only once the state has left Generating.  *)
CurrentAfter(t) == t = token /\ state # "generating"

Current(t) == t = token /\ state = "generating"

(* The backend returns, with a clip or without, and finishGeneration looks *)
(* whether the run is current ...                                          *)
FinishGeneration(t, outcome) ==
  /\ runs[t] = "running"
  /\ runs' = [runs EXCEPT ![t] = IF Current(t) THEN outcome ELSE "over"]
  /\ UNCHANGED <<state, clip, token, call, mine, begun>>

(* ... and, after it has let go of the lock, applies its result.           *)
FinishMoves(t) ==
  /\ runs[t] \in {"ready", "failed"}
  /\ MoveToState(runs[t], IF runs[t] = "ready" THEN t ELSE 0)
  /\ runs' = [runs EXCEPT ![t] = "over"]
  /\ UNCHANGED <<token, call, mine, begun>>

CallStep(c) == Begin(c) \/ CancelGeneration(c) \/ ResetGeneration(c)
CallGoesOn(c) == BeginMoves(c) \/ Dispatch(c) \/ MoveToIdle(c)
RunStep(t) ==
  (\E outcome \in {"ready", "failed"} : FinishGeneration(t, outcome)) \/ FinishMoves(t)

Next ==
  \/ \E c \in Callers : CallStep(c) \/ CallGoesOn(c)
  \/ \E t \in Tokens : RunStep(t)

(* A call goes on, the queue runs what it is given, and a backend returns. *)
(* Nobody has to begin, cancel or reset.                                   *)
Fairness ==
  /\ \A c \in Callers : WF_vars(CallGoesOn(c))
  /\ \A t \in Tokens : WF_vars(RunStep(t))

Spec == Init /\ [][Next]_vars /\ Fairness

----------------------------------------------------------------------------
(* A begin that was not overtaken between its look and its move: no other  *)
(* call has taken a token since.                                           *)
BegunAsNewest == state = "generating" /\ begun = token

(* A generation whose begin was not overtaken has its run ahead or on its  *)
(* way, however many threads call and however late older runs end.  Of one *)
(* that was overtaken nothing is said: a cancel between the two holds of   *)
(* the lock, or a second begin that overtakes it and whose run ends first, *)
(* does leave the effect generating with no run that counts, and until the *)
(* next cancel or reset each begin is a no-op.                             *)
GeneratingHasRun ==
  BegunAsNewest =>
    \/ \E c \in Callers : call[c] = "dispatch" /\ mine[c] = token
    \/ token \in Tokens /\ runs[token] \in {"running", "ready", "failed"}

(* Such a generation ends: the state leaves Generating, for Ready or       *)
(* Failed by its run, for Idle by a cancel or a reset.                     *)
GenerationEnds == BegunAsNewest ~> state # "generating"

(* The comment on finishGenerationWithToken: "Applies a finished run's     *)
(* result unless a newer begin or a cancel invalidated its token": a clip  *)
(* that appears while no call is in progress is that of the newest token.  *)
LateResultIgnored ==
  [][(\A c \in Callers : call[c] = "free") /\ clip' \notin {0, clip} => clip' = token]_vars
=============================================================================
