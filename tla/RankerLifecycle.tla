---------------------------- MODULE RankerLifecycle ----------------------------
(***************************************************************************)
(* The ranker from training to serving: the runs of train_lightgbm         *)
(* (ModelPromotion) and the worker processes of the ranking service        *)
(* (RankingService) around one registry alias.  They share nothing else.   *)
(* The trainers are the only hand on the alias, so what RankingService     *)
(* lets anybody do, Promote, is here a run's MoveAlias.                    *)
(***************************************************************************)
EXTENDS Naturals, Sequences

CONSTANTS
  Trainer, Overlap, MaxMetric, MaxVersions, MaxFaults, MaxReadFaults,
  Worker, Handler, Compatible, Watching,
  MaxCallFaults  \* bound on the service's failing MLflow calls

ASSUME OverlapAssumption == Overlap \in BOOLEAN
ASSUME BoundAssumption ==
  /\ MaxMetric \in Nat /\ MaxVersions \in Nat
  /\ MaxFaults \in Nat /\ MaxReadFaults \in Nat /\ MaxCallFaults \in Nat
ASSUME ServiceAssumption ==
  /\ Compatible \subseteq 1..MaxVersions
  /\ Handler \cap {"lifespan", "watcher"} = {}
  /\ Watching \in BOOLEAN

VARIABLES
  aliasLog,      \* the alias of both
  versions, tracked, trainPc, mode, ndcg, clears, version, seen, exit,
  faults, readFaults, overlapped,                           \* of the trainers
  callFaults, phase, bundle, queue, pc, load, result        \* of the service

Training == INSTANCE ModelPromotion WITH pc <- trainPc
Service == INSTANCE RankingService WITH
             Version <- 1..MaxVersions, Repoint <- FALSE, MaxMoves <- MaxVersions,
             faults <- callFaults, MaxFaults <- MaxCallFaults

trainers == <<versions, tracked, trainPc, mode, ndcg, clears, version, seen, exit,
              faults, readFaults, overlapped>>
service == <<callFaults, phase, bundle, queue, pc, load, result>>
vars == <<aliasLog, trainers, service>>

TypeOK == Training!TypeOK /\ Service!TypeOK

Init == Training!Init /\ Service!Init

-------------------------------------------------------------------------------
(* A call of MLflow is served to one side at a time.                       *)

Train == Training!Next /\ UNCHANGED service

Reload(w, t) == Service!Reload(w, t) /\ UNCHANGED trainers

WatchModel(w) == Service!WatchModel(w) /\ UNCHANGED trainers

Process(w) ==
  /\ \/ Service!Boot(w) \/ Service!Stop(w)
     \/ \E h \in Handler : Service!ReloadModel(w, h)
  /\ UNCHANGED trainers

Next ==
  \/ Train
  \/ \E w \in Worker : \/ Process(w) \/ WatchModel(w)
                       \/ \E t \in Service!Task : Reload(w, t)

(* The service's own; a run may be killed, so nothing is owed by trainers. *)
Fairness ==
  \A w \in Worker : /\ WF_vars(WatchModel(w))
                    /\ \A t \in Service!Task : WF_vars(Reload(w, t))

Spec == Init /\ [][Next]_vars /\ Fairness

-------------------------------------------------------------------------------
(* What the components say of each other.                                  *)

(* Whatever the trainers do, overlapping, failing and killed, is what the  *)
(* service was verified against: an alias that only moves to new versions. *)
ImplementsService == Service!Init /\ [][Service!Next]_(Service!vars)

-------------------------------------------------------------------------------
(* From a run's holdout to what a process predicts with.                   *)

(* The metric of the run behind the booster that predicts.                 *)
ServedMetric(w) == Training!MetricOf(aliasLog[bundle[w].booster])

Serving(w) == phase[w] = "serving" /\ bundle[w] # Service!NoBundle

(* The help of --promote (train_lightgbm.py:499), where it matters: while  *)
(* runs do not overlap and the champion's metric could be read, a process  *)
(* never goes from one model to a worse one, although it reads the alias   *)
(* three times while the trainers may move it.                             *)
ServedNeverWorse ==
  [][\A w \in Worker :
       ~overlapped /\ readFaults = 0 /\ Serving(w) /\ Serving(w)'
         => ServedMetric(w)' >= ServedMetric(w)]_vars

(* What --promote is for: a run that promoted and ended well is not in     *)
(* vain.  In a process that keeps serving under loadable champions, what   *)
(* predicts is in the end at least as good as that run's model, however    *)
(* the loads met the promotions (app.py:136 and train_lightgbm.py:499).    *)
(* A run ends once and overlapped and the counters of failures never go    *)
(* back, so for them "from some moment on" says the same as "always".      *)
WinnerServed ==
  \A w \in Worker, t \in Trainer :
    <>[](/\ phase[w] = "serving" /\ (Service!HasAlias => Service!Champion \in Compatible)
         /\ mode[t] = "promote" /\ exit[t] = "ok"
         /\ ~overlapped /\ faults = 0 /\ readFaults = 0)
    => <>[](Serving(w) /\ ServedMetric(w) >= ndcg[t])
==================================================================================
