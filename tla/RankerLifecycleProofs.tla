------------------------- MODULE RankerLifecycleProofs -------------------------
(***************************************************************************)
(* Machine-checked proofs about RankerLifecycle, for every number of runs, *)
(* workers and requests and for every bound.  They take what is proved of  *)
(* the two components on their own, and what is left is where they meet:   *)
(* the alias.                                                              *)
(***************************************************************************)
EXTENDS RankerLifecycle, TLAPS

TP == INSTANCE ModelPromotionProofs WITH pc <- trainPc
SP == INSTANCE RankingServiceProofs WITH
        Version <- 1..MaxVersions, Repoint <- FALSE, MaxMoves <- MaxVersions,
        faults <- callFaults, MaxFaults <- MaxCallFaults

USE OverlapAssumption, BoundAssumption, ServiceAssumption

Step(t) ==
  \/ TP!Start(t) \/ TP!NothingToLearn(t) \/ TP!SourceDown(t) \/ TP!Train(t)
  \/ TP!LogRun(t) \/ TP!Kill(t)

-------------------------------------------------------------------------------
(* The instances of this module are those of RankerLifecycle.              *)

LEMMA SameTraining ==
  /\ Training!Init => TP!Init
  /\ Training!Next => TP!Next
  /\ \A v : Training!MetricOf(v) = TP!MetricOf(v)
BY DEF Training!registry, TP!registry, Training!run, TP!run, Training!vars, TP!vars,
       Training!Init, TP!Init, Training!HasAlias, TP!HasAlias, Training!Champion,
       TP!Champion, Training!MetricOf, TP!MetricOf, Training!Running, TP!Running,
       Training!Goto, TP!Goto, Training!Finish, TP!Finish, Training!Start, TP!Start,
       Training!NothingToLearn, TP!NothingToLearn, Training!SourceDown, TP!SourceDown,
       Training!Train, TP!Train, Training!LogMetrics, TP!LogMetrics, Training!AddVersion,
       TP!AddVersion, Training!Register, TP!Register, Training!LogArtifact, TP!LogArtifact,
       Training!Beats, TP!Beats, Training!Compare, TP!Compare, Training!ReadChampion,
       TP!ReadChampion, Training!ChampionUnreadable, TP!ChampionUnreadable,
       Training!MoveAlias, TP!MoveAlias, Training!Fault, TP!Fault, Training!TrackingFails,
       TP!TrackingFails, Training!AnswerLost, TP!AnswerLost, Training!Kill, TP!Kill,
       Training!LogRun, TP!LogRun, Training!Overlapping, TP!Overlapping, Training!Next,
       TP!Next, Training!Metric, TP!Metric, Training!Unmeasured, TP!Unmeasured,
       Training!Mode, TP!Mode

LEMMA SameService ==
  /\ Service!Init => SP!Init
  /\ [Service!Next]_(Service!vars) => [SP!Next]_(SP!vars)
  /\ Service!NoBundle = SP!NoBundle
BY DEF Service!Now, SP!Now, Service!HasAlias, SP!HasAlias, Service!Champion, SP!Champion,
       Service!Aliased, SP!Aliased, Service!AliasInit, SP!AliasInit, Service!Move, SP!Move,
       Service!Task, SP!Task, Service!Forced, SP!Forced, Service!serviceVars,
       SP!serviceVars, Service!vars, SP!vars, Service!NoBundle, SP!NoBundle, Service!Init,
       SP!Init, Service!Promote, SP!Promote, Service!Boot, SP!Boot, Service!Stop, SP!Stop,
       Service!Enter, SP!Enter, Service!ReloadModel, SP!ReloadModel, Service!WatchModel,
       SP!WatchModel, Service!Holding, SP!Holding, Service!AfterReload, SP!AfterReload,
       Service!Return, SP!Return, Service!At, SP!At, Service!Fault, SP!Fault,
       Service!Missing, SP!Missing, Service!Failed, SP!Failed, Service!SameVersion,
       SP!SameVersion, Service!Unchanged, SP!Unchanged, Service!StartLoad, SP!StartLoad,
       Service!Resolve, SP!Resolve, Service!LoadBooster, SP!LoadBooster, Service!ReadNames,
       SP!ReadNames, Service!Mismatch, SP!Mismatch, Service!Install, SP!Install,
       Service!Reload, SP!Reload, Service!Next, SP!Next

LEMMA SameTypes ==
  /\ TP!TypeOK => Training!TypeOK
  /\ SP!TypeOK => Service!TypeOK
BY DEF TP!TypeOK, Training!TypeOK, TP!Metric, Training!Metric, TP!Unmeasured, Training!Unmeasured,
       TP!Step, Training!Step, TP!Mode, Training!Mode, TP!Exit, Training!Exit,
       SP!TypeOK, Service!TypeOK, SP!Now, Service!Now, SP!Phase, Service!Phase,
       SP!Bundle, Service!Bundle, SP!Reading, Service!Reading, SP!Task, Service!Task,
       SP!Inside, Service!Inside, SP!Step, Service!Step, SP!Result, Service!Result

-------------------------------------------------------------------------------
(* The service is verified for an alias anybody may move; here the trainers*)
(* move it, and the two agree on what a move is.                           *)

LEMMA ServiceAlone ==
  ASSUME NEW w \in Worker, Process(w) \/ WatchModel(w) \/ \E t \in Service!Task : Reload(w, t)
  PROVE  Service!Next /\ UNCHANGED trainers /\ UNCHANGED aliasLog
<1>1. Service!Next /\ UNCHANGED trainers
  BY DEF Process, WatchModel, Reload, Service!Next
<1>2. UNCHANGED aliasLog
  BY DEF Process, WatchModel, Reload, Service!Boot, Service!Stop, Service!ReloadModel,
     Service!WatchModel, Service!Enter, Service!Reload, Service!Missing, Service!Failed,
     Service!Unchanged, Service!StartLoad, Service!Resolve, Service!LoadBooster,
     Service!ReadNames, Service!Mismatch, Service!Install, Service!Return
<1> QED BY <1>1, <1>2

LEMMA TrainersStep == [Next]_vars => [TP!Next]_(TP!vars)
<1> SUFFICES ASSUME [Next]_vars PROVE [TP!Next]_(TP!vars)
  OBVIOUS
<1>1. CASE Train
  BY <1>1, SameTraining DEF Train
<1>2. CASE UNCHANGED trainers /\ UNCHANGED aliasLog
  BY <1>2 DEF trainers, TP!vars, TP!registry, TP!run
<1>3. CASE UNCHANGED vars
  BY <1>2, <1>3 DEF vars
<1> QED BY <1>1, <1>2, <1>3, ServiceAlone DEF Next

LEMMA TrainersInv == Init /\ [][Next]_vars => []TP!IInv
<1>1. Init => TP!IInv
  BY SameTraining, TP!InitIInv DEF Init
<1>2. TP!IInv /\ [Next]_vars => TP!IInv'
  BY TrainersStep, TP!NextIInv
<1> QED BY <1>1, <1>2, PTL

LEMMA ServiceStep == TP!IInv /\ [Next]_vars => [Service!Next]_(Service!vars)
<1> SUFFICES ASSUME TP!IInv, [Next]_vars PROVE [Service!Next]_(Service!vars)
  OBVIOUS
<1>1. CASE Train
  <2>1. PICK t \in Trainer : Step(t)
    BY <1>1, SameTraining DEF Train, TP!Next, Step
  <2>2. CASE aliasLog' = aliasLog
    BY <1>1, <2>2 DEF Train, service, Service!vars
  <2>3. CASE /\ TP!MoveAlias(t) /\ version[t] \in 1..MaxVersions
             /\ aliasLog' = Append(aliasLog, version[t])
    <3>1. \A i \in DOMAIN aliasLog : aliasLog[i] # version[t]
      BY <2>3, TP!MoveKeeps
    <3>2. aliasLog \in Seq(1..MaxVersions) /\ Len(aliasLog) < MaxVersions
      BY <2>3 DEF TP!IInv, TP!TypeOK, TP!MoveAlias
    <3>3. Service!Move(version[t])
      BY <2>3, <3>1, <3>2 DEF Service!Move, Service!Aliased, Service!Now
    <3>4. Service!Promote(version[t])
      BY <1>1, <3>3 DEF Train, service, Service!Promote, Service!serviceVars
    <3> QED BY <2>3, <3>4 DEF Service!Next
  <2> QED BY <2>1, <2>2, <2>3, TP!LogGrows DEF Step
<1>2. CASE UNCHANGED vars
  BY <1>2 DEF vars, service, Service!vars
<1> QED BY <1>1, <1>2, ServiceAlone DEF Next

(* Whatever the runs of train_lightgbm do (overlap, fail, die), they are   *)
(* an environment for which the ranking service was verified.              *)
THEOREM ImplementsServiceTheorem == Spec => ImplementsService
<1>1. Init => Service!Init
  BY DEF Init
<1> QED BY <1>1, TrainersInv, ServiceStep, PTL DEF Spec, ImplementsService

-------------------------------------------------------------------------------
(* From the order of the alias to the order of what is served.             *)

LEMMA ServiceInv == Init /\ [][Next]_vars => []SP!IInv
<1>1. Init => SP!IInv
  BY SameService, SP!InitIInv DEF Init
<1>2. TP!IInv /\ SP!IInv /\ [Next]_vars => SP!IInv'
  BY ServiceStep, SameService, SP!NextIInv
<1> QED BY <1>1, <1>2, TrainersInv, PTL

LEMMA MetricIsNumber ==
  ASSUME TP!IInv, NEW i \in DOMAIN aliasLog
  PROVE  TP!MetricOf(aliasLog[i]) \in Nat
<1>1. versions[aliasLog[i]] \in Trainer
  BY DEF TP!IInv, TP!TypeOK, TP!AliasedInv
<1> QED BY SMTT(30), <1>1 DEF TP!IInv, TP!TypeOK, TP!MetricOf, TP!Metric, TP!Unmeasured

LEMMA ServedStep ==
  ASSUME TP!IInv, SP!IInv, [Next]_vars, ~overlapped, readFaults = 0,
         NEW w \in Worker, Serving(w), Serving(w)'
  PROVE  ServedMetric(w)' >= ServedMetric(w)
<1> DEFINE b == bundle[w].booster
           c == bundle'[w].booster
           M(k) == tracked[versions[aliasLog[k]]]
           N(k) == tracked'[versions'[aliasLog'[k]]]
<1>1. [SP!Next]_(SP!vars)
  BY ServiceStep, SameService
<1>2. b \in 1..Len(aliasLog) /\ c \in 1..Len(aliasLog') /\ b <= c
  <2>1. bundle[w] # SP!NoBundle /\ bundle'[w] # SP!NoBundle
    BY DEF Serving, Service!NoBundle, SP!NoBundle
  <2> QED BY <1>1, <2>1, SP!BoosterRises DEF SP!Now
<1>3. ServedMetric(w) = M(b) /\ ServedMetric(w)' = N(c)
  BY DEF ServedMetric, Training!MetricOf
<1>4. DOMAIN aliasLog = 1..Len(aliasLog) /\ aliasLog \in Seq(1..MaxVersions)
  BY DEF TP!IInv, TP!TypeOK
<1>5. \A k \in 1..Len(aliasLog) : M(k) \in Nat
  BY <1>4, MetricIsNumber DEF TP!MetricOf
<1> HIDE DEF M
<1>6. CASE Train
  <2>1. PICK t \in Trainer : Step(t)
    BY <1>6, SameTraining DEF Train, TP!Next, Step
  <2>2. c = b
    BY <1>6 DEF Train, service
  <2>3. aliasLog'[b] = aliasLog[b]
    BY SMTT(30), <1>2, <1>4, <2>1, TP!LogGrows DEF Step
  <2>4. tracked'[versions'[aliasLog[b]]] = M(b)
    BY <1>2, <1>4, <2>1, TP!NamedKeepsMetric DEF Step, M
  <2> QED BY <1>2, <1>3, <1>5, <2>2, <2>3, <2>4
<1>7. CASE UNCHANGED trainers /\ UNCHANGED aliasLog
  <2>1. c \in 1..Len(aliasLog)
    BY <1>2, <1>7
  <2>2. M(b) <= M(c)
    BY <1>2, <1>4, <2>1 DEF TP!IInv, TP!RisingInv, TP!MetricOf, M
  <2>3. N(c) = M(c)
    BY <1>7 DEF trainers, M
  <2> QED BY <1>2, <1>3, <1>5, <2>1, <2>2, <2>3
<1>8. CASE UNCHANGED vars
  BY <1>7, <1>8 DEF vars
<1> QED BY <1>6, <1>7, <1>8, ServiceAlone DEF Next

(* As long as runs do not overlap and the champion's metric can be read, a *)
(* process never goes from one model to one with a lower holdout score,    *)
(* although its load reads the alias three times while trainers move it.   *)
THEOREM ServedNeverWorseTheorem == Spec => ServedNeverWorse
<1>1. TP!IInv /\ SP!IInv /\ [Next]_vars
        => [\A w \in Worker :
              ~overlapped /\ readFaults = 0 /\ Serving(w) /\ Serving(w)'
                => ServedMetric(w)' >= ServedMetric(w)]_vars
  BY ServedStep
<1> QED BY <1>1, TrainersInv, ServiceInv, PTL DEF Spec, ServedNeverWorse

(* Every variable of either component keeps its type in the composition.   *)
THEOREM TypeCorrect == Spec => []TypeOK
<1>1. TP!IInv /\ SP!IInv => TypeOK
  BY SameTypes DEF TypeOK, TP!IInv, SP!IInv
<1> QED BY <1>1, TrainersInv, ServiceInv, PTL DEF Spec
================================================================================
