------------------------- MODULE ModelPromotionProofs -------------------------
(***************************************************************************)
(* Machine-checked proofs about ModelPromotion, for every number of runs,  *)
(* every grain of the metric and every bound on versions and failures.     *)
(***************************************************************************)
EXTENDS ModelPromotion, TLAPS

USE OverlapAssumption, BoundAssumption

LEMMA InitIInv == Init => IInv
<1> SUFFICES ASSUME Init PROVE IInv
  OBVIOUS
<1>1. TypeOK
  <2>1. overlapped \in BOOLEAN
    BY DEF Init
  <2> QED BY <2>1 DEF Init, TypeOK, Metric, Unmeasured, Mode, Step, Exit
<1>2. MeasuredInv /\ OwnershipInv /\ AliasedInv
  BY DEF Init, MeasuredInv, OwnershipInv, AliasedInv
<1>3. SerialInv
  BY DEF Init, SerialInv, Overlapping, Running, HasAlias
<1>4. RisingInv /\ FinishedInv /\ ChampionIsBest
  BY DEF Init, RisingInv, FinishedInv, ChampionIsBest
<1> QED BY <1>1, <1>2, <1>3, <1>4 DEF IInv

(* How a step may change the three sequences and the counters.             *)
LEMMA FinishType ==
  ASSUME TypeOK, NEW t \in Trainer, NEW e \in Exit, Finish(t, e)
  PROVE  /\ pc' \in [Trainer -> Step] /\ exit' \in [Trainer -> Exit]
         /\ pc' = [pc EXCEPT ![t] = "done"]
BY DEF TypeOK, Finish, Goto, Step

LEMMA GotoType ==
  ASSUME TypeOK, NEW t \in Trainer, NEW s \in Step, Goto(t, s)
  PROVE  pc' \in [Trainer -> Step]
BY DEF TypeOK, Goto

(* The counters of failures stay within their bounds.                      *)
LEMMA FaultType == ASSUME TypeOK, Fault PROVE faults' \in 0..MaxFaults
BY DEF TypeOK, Fault

LEMMA VersionType ==
  ASSUME TypeOK, NEW t \in Trainer, AddVersion(t)
  PROVE  /\ versions' \in Seq(Trainer) /\ Len(versions') <= MaxVersions
         /\ Len(versions') = Len(versions) + 1
         /\ DOMAIN versions = 1..Len(versions)
         /\ DOMAIN versions' = 1..(Len(versions) + 1)
         /\ \A v \in DOMAIN versions : versions'[v] = versions[v]
         /\ versions'[Len(versions) + 1] = t
         /\ Len(versions') \in 1..MaxVersions
<1>1. versions \in Seq(Trainer) /\ Len(versions) < MaxVersions
      /\ versions' = Append(versions, t)
  BY DEF TypeOK, AddVersion
<1> QED BY <1>1

LEMMA MetricType ==
  ASSUME TypeOK, OwnershipInv, AliasedInv, HasAlias
  PROVE  /\ Champion \in DOMAIN versions /\ versions[Champion] \in Trainer
         /\ MetricOf(Champion) \in Metric \cup {Unmeasured}
<1>1. Len(aliasLog) \in DOMAIN aliasLog
  BY DEF TypeOK, HasAlias
<1>2. Champion \in DOMAIN versions
  BY <1>1 DEF AliasedInv, Champion
<1> QED BY <1>2 DEF TypeOK, MetricOf

LEMMA NextType == IInv /\ [Next]_vars => TypeOK'
<1> SUFFICES ASSUME IInv, [Next]_vars PROVE TypeOK'
  OBVIOUS
<1> USE DEF IInv, registry, run
<1>o. overlapped' \in BOOLEAN
  BY DEF Next, vars, TypeOK
<1>0. /\ {"data", "metrics", "register", "artifact", "compare", "move", "done"} \subseteq Step
      /\ {"ok", "nothing to do", "infra", "killed"} \subseteq Exit
  BY DEF Step, Exit
<1>1. ASSUME NEW t \in Trainer, Start(t) PROVE TypeOK'
  BY <1>o, <1>1, <1>0, GotoType DEF Start, TypeOK
<1>2. ASSUME NEW t \in Trainer, NothingToLearn(t) \/ SourceDown(t) \/ Kill(t) PROVE TypeOK'
  BY <1>o, <1>2, <1>0, FinishType DEF NothingToLearn, SourceDown, Kill, TypeOK
<1>3. ASSUME NEW t \in Trainer, Train(t) PROVE TypeOK'
  <2>1. pc' \in [Trainer -> Step] /\ exit' \in [Trainer -> Exit]
    BY <1>3, <1>0, GotoType, FinishType DEF Train, TypeOK
  <2>2. ndcg' \in [Trainer -> Metric \cup {Unmeasured}] /\ clears' \in [Trainer -> BOOLEAN]
    BY <1>3 DEF Train, TypeOK
  <2> QED BY <1>o, <1>3, <2>1, <2>2 DEF Train, TypeOK
<1>4. ASSUME NEW t \in Trainer, LogMetrics(t) PROVE TypeOK'
  BY <1>o, <1>4, <1>0, GotoType DEF LogMetrics, TypeOK
<1>5. ASSUME NEW t \in Trainer, Register(t) PROVE TypeOK'
  <2>1. version' \in [Trainer -> 0..MaxVersions]
    BY <1>5, VersionType DEF Register, TypeOK
  <2> QED BY <1>o, <1>5, <2>1, <1>0, GotoType, VersionType DEF Register, TypeOK
<1>6. ASSUME NEW t \in Trainer, LogArtifact(t) PROVE TypeOK'
  <2>1. pc' \in [Trainer -> Step] /\ exit' \in [Trainer -> Exit]
    BY <1>6, <1>0, GotoType, FinishType DEF LogArtifact, TypeOK
  <2> QED BY <1>o, <1>6, <2>1 DEF LogArtifact, TypeOK
<1>7. ASSUME NEW t \in Trainer, NEW c \in Metric \cup {Unmeasured}, Compare(t, c),
             readFaults' \in 0..MaxReadFaults
      PROVE TypeOK'
  <2>1. pc' \in [Trainer -> Step] /\ exit' \in [Trainer -> Exit]
    BY <1>7, <1>0, GotoType, FinishType DEF Compare, TypeOK
  <2> QED BY <1>7, <2>1, <1>o DEF Compare, TypeOK
<1>8. ASSUME NEW t \in Trainer, ReadChampion(t) \/ ChampionUnreadable(t) PROVE TypeOK'
  <2>1. PICK c \in Metric \cup {Unmeasured} : Compare(t, c)
    BY <1>8, MetricType DEF ReadChampion, ChampionUnreadable
  <2>2. readFaults' \in 0..MaxReadFaults
    BY <1>8 DEF ReadChampion, ChampionUnreadable, TypeOK
  <2> QED BY <2>1, <2>2, <1>7
<1>9. ASSUME NEW t \in Trainer, MoveAlias(t) PROVE TypeOK'
  <2>1. version[t] \in DOMAIN versions
    BY <1>9 DEF MoveAlias, OwnershipInv
  <2>2. version[t] \in 1..MaxVersions /\ version[t] # 0
    BY <2>1 DEF TypeOK
  <2>3. aliasLog' = Append(aliasLog, version[t]) /\ Len(aliasLog) < MaxVersions
    BY <1>9, <2>2 DEF MoveAlias
  <2>4. aliasLog' \in Seq(1..MaxVersions) /\ Len(aliasLog') <= MaxVersions
    BY <2>2, <2>3 DEF TypeOK
  <2> QED BY <1>o, <1>9, <2>4, <1>0, FinishType DEF MoveAlias, TypeOK
<1>10. ASSUME NEW t \in Trainer, TrackingFails(t) \/ AnswerLost(t) PROVE TypeOK'
  <2>1. faults' \in 0..MaxFaults
    BY <1>10, FaultType DEF TrackingFails, AnswerLost, TypeOK
  <2>2. versions' \in Seq(Trainer) /\ Len(versions') <= MaxVersions
    BY <1>10, VersionType DEF TrackingFails, AnswerLost, TypeOK
  <2> QED BY <1>o, <1>10, <2>1, <2>2, <1>0, FinishType DEF TrackingFails, AnswerLost, TypeOK
<1>11. CASE UNCHANGED vars
  BY <1>o, <1>11 DEF vars, TypeOK
<1> QED
  BY <1>1, <1>2, <1>3, <1>4, <1>5, <1>6, <1>8, <1>9, <1>10, <1>11 DEF Next, LogRun

-------------------------------------------------------------------------------
(* A step of run t moves only t's program counter.                         *)
LEMMA OneRun ==
  ASSUME TypeOK, NEW t \in Trainer,
         \/ Start(t) \/ NothingToLearn(t) \/ SourceDown(t) \/ Train(t) \/ LogRun(t) \/ Kill(t)
  PROVE  \E s \in Step \ {"idle"} : pc' = [pc EXCEPT ![t] = s]
<1>1. \A s \in {"data", "metrics", "register", "artifact", "compare", "move", "done"} :
        s \in Step \ {"idle"}
  BY DEF Step
<1> QED
  BY <1>1 DEF Start, NothingToLearn, SourceDown, Train, LogRun, Kill, LogMetrics, Register,
     LogArtifact, ReadChampion, ChampionUnreadable, Compare, MoveAlias, TrackingFails,
     AnswerLost, Goto, Finish

(* What each kind of step does to the registry and to the run's numbers.   *)
Quiet(t) == UNCHANGED <<versions, tracked, aliasLog, ndcg, version>>

LEMMA QuietSteps ==
  ASSUME NEW t \in Trainer,
         \/ Start(t) \/ NothingToLearn(t) \/ SourceDown(t) \/ LogArtifact(t)
         \/ ReadChampion(t) \/ ChampionUnreadable(t) \/ TrackingFails(t) \/ Kill(t)
  PROVE  /\ Quiet(t)
         /\ pc'[t] = pc[t] \/ pc'[t] \in {"data", "compare", "move", "done"} \/ pc \notin [Trainer -> Step]
         /\ pc \in [Trainer -> Step] =>
              /\ pc'[t] = "data" => pc[t] = "idle"
              /\ pc'[t] = "compare" => pc[t] = "artifact"
              /\ pc'[t] = "move" => pc[t] = "compare"
              /\ pc'[t] = "done" => pc[t] # "idle"
BY DEF Quiet, Start, NothingToLearn, SourceDown, LogArtifact, ReadChampion, ChampionUnreadable,
       Compare, TrackingFails, Kill, Running, Goto, Finish, registry, run

LEMMA QuietKeeps ==
  ASSUME IInv, NEW t \in Trainer,
         \/ Start(t) \/ NothingToLearn(t) \/ SourceDown(t) \/ LogArtifact(t)
         \/ ReadChampion(t) \/ ChampionUnreadable(t) \/ TrackingFails(t) \/ Kill(t)
  PROVE  MeasuredInv' /\ OwnershipInv' /\ AliasedInv'
<1> USE DEF IInv
<1>1. UNCHANGED <<versions, tracked, aliasLog, ndcg, version>>
  BY QuietSteps DEF Quiet
<1>2. pc \in [Trainer -> Step] /\ versions \in Seq(Trainer)
  BY DEF TypeOK
<1>3. /\ \A u \in Trainer : u # t => pc'[u] = pc[u]
      /\ pc'[t] = pc[t] \/ pc'[t] \in {"data", "compare", "move", "done"}
      /\ pc'[t] = "data" => pc[t] = "idle"
      /\ pc'[t] = "compare" => pc[t] = "artifact"
      /\ pc'[t] = "move" => pc[t] = "compare"
  BY <1>2, OneRun, QuietSteps DEF LogRun
<1>4. MeasuredInv'
  BY <1>1, <1>3 DEF MeasuredInv
<1>5. \A v \in DOMAIN versions : pc'[versions[v]] \in {"artifact", "compare", "move", "done"}
  <2> SUFFICES ASSUME NEW v \in DOMAIN versions
               PROVE  pc'[versions[v]] \in {"artifact", "compare", "move", "done"}
    OBVIOUS
  <2>1. versions[v] \in Trainer /\ pc[versions[v]] \in {"artifact", "compare", "move", "done"}
    BY <1>2 DEF OwnershipInv
  <2> QED BY <1>3, <2>1
<1>6. OwnershipInv'
  BY <1>1, <1>3, <1>5 DEF OwnershipInv
<1>7. \A i \in DOMAIN aliasLog : pc'[versions[aliasLog[i]]] = "done"
  <2> SUFFICES ASSUME NEW i \in DOMAIN aliasLog
               PROVE  pc'[versions[aliasLog[i]]] = "done"
    OBVIOUS
  <2>1. versions[aliasLog[i]] \in Trainer /\ pc[versions[aliasLog[i]]] = "done"
    BY <1>2 DEF AliasedInv
  <2>2. pc[t] # "done"
    BY DEF Start, NothingToLearn, SourceDown, LogArtifact, ReadChampion, ChampionUnreadable,
           Compare, TrackingFails, Kill, Running
  <2> QED BY <1>3, <2>1, <2>2
<1>8. AliasedInv'
  BY <1>1, <1>7 DEF AliasedInv
<1> QED BY <1>4, <1>6, <1>8

LEMMA TrainKeeps ==
  ASSUME IInv, NEW t \in Trainer, Train(t) \/ LogMetrics(t)
  PROVE  MeasuredInv' /\ OwnershipInv' /\ AliasedInv'
<1> USE DEF IInv
<1>1. /\ UNCHANGED <<versions, aliasLog, version>>
      /\ pc[t] \in {"data", "metrics"}
      /\ pc'[t] \in {"metrics", "register", "done"}
      /\ \A u \in Trainer : u # t => /\ pc'[u] = pc[u] /\ ndcg'[u] = ndcg[u]
                                     /\ tracked'[u] = tracked[u]
  BY DEF Train, LogMetrics, Finish, Goto, TypeOK, registry, run
<1>2. /\ pc'[t] \in {"metrics", "register"} => ndcg'[t] # Unmeasured
      /\ pc'[t] = "register" => tracked'[t] = ndcg'[t]
  BY DEF Train, LogMetrics, Finish, Goto, TypeOK, MeasuredInv, Metric, Unmeasured, registry, run
<1>3. \A v \in DOMAIN versions : versions[v] \in Trainer /\ versions[v] # t
  <2>1. \A v \in DOMAIN versions : versions[v] \in Trainer
    BY DEF TypeOK
  <2>2. \A v \in DOMAIN versions : versions[v] # t
    BY <1>1 DEF OwnershipInv
  <2> QED BY <2>1, <2>2
<1>4. MeasuredInv'
  BY <1>1, <1>2, <1>3 DEF MeasuredInv
<1>5. OwnershipInv'
  BY <1>1, <1>3 DEF OwnershipInv
<1>6. AliasedInv'
  BY <1>1, <1>3 DEF AliasedInv
<1> QED BY <1>4, <1>5, <1>6

LEMMA RegisterKeeps ==
  ASSUME IInv, NEW t \in Trainer, Register(t) \/ AnswerLost(t)
  PROVE  MeasuredInv' /\ OwnershipInv' /\ AliasedInv'
<1> USE DEF IInv
<1> DEFINE n == Len(versions) + 1
<1>1. /\ UNCHANGED <<tracked, aliasLog, ndcg>> /\ AddVersion(t)
      /\ pc[t] = "register" /\ pc'[t] \in {"artifact", "done"}
      /\ \A u \in Trainer : u # t => pc'[u] = pc[u] /\ version'[u] = version[u]
  BY DEF Register, AnswerLost, Finish, Goto, TypeOK, registry, run
<1>2. /\ DOMAIN versions = 1..Len(versions) /\ DOMAIN versions' = 1..n
      /\ Len(versions) \in Nat /\ n \in DOMAIN versions' /\ versions'[n] = t
      /\ \A v \in DOMAIN versions : v \in DOMAIN versions' /\ versions'[v] = versions[v]
      /\ \A v \in DOMAIN versions' : v = n \/ v \in DOMAIN versions
  <2>1. versions \in Seq(Trainer) /\ versions' = Append(versions, t)
    BY <1>1 DEF TypeOK, AddVersion
  <2> QED BY <2>1
<1>3. pc'[t] = "artifact" => version'[t] = n
  <2>1. CASE Register(t)
    BY <1>1, <1>2, <2>1, VersionType DEF Register, TypeOK
  <2>2. CASE AnswerLost(t)
    BY <2>2 DEF AnswerLost, Finish, Goto, TypeOK
  <2> QED BY <2>1, <2>2
<1>4. \A v \in DOMAIN versions : versions[v] \in Trainer /\ versions[v] # t
  <2>1. \A v \in DOMAIN versions : versions[v] \in Trainer
    BY DEF TypeOK
  <2>2. \A v \in DOMAIN versions : versions[v] # t
    BY <1>1 DEF OwnershipInv
  <2> QED BY <2>1, <2>2
<1>5. tracked[t] = ndcg[t] /\ ndcg[t] # Unmeasured
  BY <1>1 DEF MeasuredInv
<1> HIDE DEF n
<1>6. MeasuredInv'
  BY <1>1, <1>2, <1>4, <1>5 DEF MeasuredInv
<1>7. OwnershipInv'
  BY <1>1, <1>2, <1>3, <1>4 DEF OwnershipInv
<1>8. AliasedInv'
  BY <1>1, <1>2, <1>4 DEF AliasedInv
<1> QED BY <1>6, <1>7, <1>8

(* A run that has come to the move has a version to name.                  *)
LEMMA MoveAppends ==
  ASSUME IInv, NEW t \in Trainer, MoveAlias(t)
  PROVE  aliasLog' = Append(aliasLog, version[t])
<1>1. version[t] \in DOMAIN versions /\ versions \in Seq(Trainer)
  BY DEF MoveAlias, IInv, OwnershipInv, TypeOK
<1>2. version[t] # 0
  BY <1>1
<1> QED BY <1>2 DEF MoveAlias

LEMMA MoveKeeps ==
  ASSUME IInv, NEW t \in Trainer, MoveAlias(t)
  PROVE  /\ MeasuredInv' /\ OwnershipInv' /\ AliasedInv'
         /\ \A i \in DOMAIN aliasLog : aliasLog[i] # version[t]
<1> USE DEF IInv
<1>1. /\ UNCHANGED <<versions, tracked, ndcg, version>>
      /\ pc[t] = "move" /\ pc'[t] = "done"
      /\ \A u \in Trainer : u # t => pc'[u] = pc[u]
      /\ aliasLog' = Append(aliasLog, version[t])
  BY MoveAppends DEF MoveAlias, Finish, Goto, TypeOK, run
<1>2. version[t] \in DOMAIN versions /\ versions[version[t]] = t
  BY <1>1 DEF OwnershipInv
<1>3. \A i \in DOMAIN aliasLog : aliasLog[i] # version[t]
  BY <1>1, <1>2 DEF AliasedInv
<1>4. aliasLog \in Seq(1..MaxVersions) /\ version[t] \in 1..MaxVersions
  BY <1>2 DEF TypeOK
<1>5. ASSUME NEW i \in DOMAIN aliasLog'
      PROVE  \/ i \in DOMAIN aliasLog /\ aliasLog'[i] = aliasLog[i]
             \/ i = Len(aliasLog) + 1 /\ aliasLog'[i] = version[t]
  BY <1>1, <1>4
<1>6. \A v \in DOMAIN versions : versions[v] \in Trainer
  BY DEF TypeOK
<1>7. MeasuredInv'
  BY <1>1 DEF MeasuredInv
<1>8. OwnershipInv'
  BY <1>1, <1>6 DEF OwnershipInv
<1>9. AliasedInv'
  <2>1. ASSUME NEW i \in DOMAIN aliasLog'
        PROVE  aliasLog'[i] \in DOMAIN versions /\ pc'[versions[aliasLog'[i]]] = "done"
    BY <1>1, <1>2, <1>5, <1>6 DEF AliasedInv
  <2>2. ASSUME NEW i \in DOMAIN aliasLog', NEW j \in DOMAIN aliasLog',
               aliasLog'[i] = aliasLog'[j]
        PROVE  i = j
    BY <1>3, <1>5, <2>2 DEF AliasedInv
  <2> QED BY <1>1, <2>1, <2>2 DEF AliasedInv
<1> QED BY <1>3, <1>7, <1>8, <1>9

-------------------------------------------------------------------------------
(* One run at a time.                                                      *)

LEMMA SerialKeeps ==
  ASSUME IInv, NEW t \in Trainer, overlapped' = (overlapped \/ Overlapping'),
         \/ Start(t) \/ NothingToLearn(t) \/ SourceDown(t) \/ Train(t) \/ LogRun(t) \/ Kill(t)
  PROVE  SerialInv'
<1> USE DEF IInv
<1> SUFFICES ASSUME ~overlapped'
             PROVE  /\ ~Overlapping'
                    /\ readFaults' = 0 =>
                         \A u \in Trainer : (pc[u] = "move" /\ HasAlias)'
                                               => ndcg'[u] > MetricOf(Champion)'
  BY DEF SerialInv
<1>0. ~overlapped /\ ~Overlapping'
  BY DEF TypeOK
<1>1. PICK s \in Step \ {"idle"} : pc' = [pc EXCEPT ![t] = s]
  BY OneRun
<1>2. pc \in [Trainer -> Step]
  BY DEF TypeOK
<1>3. \A u \in Trainer : u # t => ~Running(u)
  <2>1. CASE Running(t)
    BY <1>0, <2>1 DEF SerialInv, Overlapping
  <2>2. CASE ~Running(t)
    <3>1. Start(t)
      BY <2>2 DEF NothingToLearn, SourceDown, Train, LogRun, Kill, LogMetrics, Register,
         LogArtifact, ReadChampion, ChampionUnreadable, Compare, MoveAlias, TrackingFails,
         AnswerLost, Running
    <3>2. Running(t)' /\ \A u \in Trainer : u # t => pc'[u] = pc[u]
      BY <1>2, <3>1 DEF Start, Goto, Running
    <3> QED BY <1>0, <3>2 DEF Overlapping, Running
  <2> QED BY <2>1, <2>2
<1>4. \A u \in Trainer : Running(u)' => u = t
  BY <1>1, <1>2, <1>3 DEF Running
<1>5. ASSUME readFaults' = 0, pc'[t] = "move", HasAlias'
      PROVE  ndcg'[t] > MetricOf(Champion)'
  <2>1. pc[t] # "move" \/ UNCHANGED <<versions, tracked, aliasLog, ndcg>>
    BY <1>2, <1>5 DEF Start, NothingToLearn, SourceDown, Train, LogRun, Kill, LogMetrics, Register,
         LogArtifact, ReadChampion, ChampionUnreadable, Compare, MoveAlias, TrackingFails,
         AnswerLost, Goto, Finish
  <2>2. ReadChampion(t) \/ ChampionUnreadable(t)
    BY <1>2, <1>5 DEF Start, NothingToLearn, SourceDown, Train, LogRun, Kill, LogMetrics, Register,
         LogArtifact, MoveAlias, TrackingFails, AnswerLost, Goto, Finish
  <2>3. ~ChampionUnreadable(t)
    BY <1>5 DEF ChampionUnreadable, TypeOK
  <2>4. /\ UNCHANGED <<versions, tracked, aliasLog, ndcg>> /\ HasAlias
        /\ Beats(ndcg[t], MetricOf(Champion))
    BY <1>2, <1>5, <2>2, <2>3 DEF ReadChampion, Compare, HasAlias, Goto, Finish, registry
  <2>5. Champion \in DOMAIN versions
    BY <2>4, MetricType
  <2>6. MetricOf(Champion) # Unmeasured
    BY <2>5 DEF MeasuredInv, MetricOf
  <2> QED BY <2>4, <2>6 DEF Beats, MetricOf, Champion
<1> QED BY <1>4, <1>5 DEF Running

(* What naming a version leaves: the mover's metric is the champion's.     *)
LEMMA MovedTo ==
  ASSUME IInv, NEW t \in Trainer, MoveAlias(t)
  PROVE  MetricOf(Champion)' = ndcg[t] /\ HasAlias' /\ ndcg' = ndcg
<1> USE DEF IInv
<1>1. /\ pc[t] = "move" /\ UNCHANGED <<versions, tracked, ndcg>>
      /\ aliasLog' = Append(aliasLog, version[t])
  BY MoveAppends DEF MoveAlias, run
<1>2. version[t] \in DOMAIN versions /\ versions[version[t]] = t /\ tracked[t] = ndcg[t]
  BY <1>1 DEF OwnershipInv, MeasuredInv
<1>3. aliasLog \in Seq(1..MaxVersions) /\ version[t] \in 1..MaxVersions
  BY <1>2 DEF TypeOK
<1>4. Champion' = version[t] /\ HasAlias'
  BY <1>1, <1>3 DEF Champion, HasAlias
<1> QED BY <1>1, <1>2, <1>4 DEF MetricOf

(* The metric of a version that was named stays what it was.               *)
LEMMA NamedKeepsMetric ==
  ASSUME IInv, NEW i \in DOMAIN aliasLog, NEW t \in Trainer,
         \/ Start(t) \/ NothingToLearn(t) \/ SourceDown(t) \/ Train(t) \/ LogRun(t) \/ Kill(t)
  PROVE  tracked'[versions'[aliasLog[i]]] = tracked[versions[aliasLog[i]]]
<1> USE DEF IInv
<1> DEFINE v == aliasLog[i]
<1>1. v \in DOMAIN versions /\ versions[v] \in Trainer /\ pc[versions[v]] = "done"
  <2>1. v \in DOMAIN versions /\ pc[versions[v]] = "done"
    BY DEF AliasedInv
  <2> QED BY <2>1 DEF TypeOK
<1> HIDE DEF v
<1>2. versions'[v] = versions[v]
  <2>1. versions' = versions \/ AddVersion(t)
    BY DEF Start, NothingToLearn, SourceDown, Train, LogRun, Kill, LogMetrics,
         Register, LogArtifact, ReadChampion, ChampionUnreadable, Compare, MoveAlias, TrackingFails,
         AnswerLost, registry
  <2> QED BY <1>1, <2>1, VersionType
<1>3. versions[v] # t \/ tracked' = tracked
  BY <1>1 DEF Start, NothingToLearn, SourceDown, Train, LogRun, Kill, LogMetrics,
         Register, LogArtifact, ReadChampion, ChampionUnreadable, Compare, MoveAlias, TrackingFails,
         AnswerLost, registry, Running
<1>4. \A u \in Trainer : u # t => tracked'[u] = tracked[u]
  BY DEF TypeOK, Start, NothingToLearn, SourceDown, Train, LogRun, Kill, LogMetrics,
         Register, LogArtifact, ReadChampion, ChampionUnreadable, Compare, MoveAlias, TrackingFails,
         AnswerLost, registry
<1> QED BY <1>1, <1>2, <1>3, <1>4 DEF v

LEMMA ChampionKeepsMetric ==
  ASSUME IInv, HasAlias, NEW t \in Trainer,
         \/ Start(t) \/ NothingToLearn(t) \/ SourceDown(t) \/ Train(t) \/ LogRun(t) \/ Kill(t)
  PROVE  tracked'[versions'[Champion]] = tracked[versions[Champion]]
<1>1. Len(aliasLog) \in DOMAIN aliasLog
  BY DEF IInv, TypeOK, HasAlias
<1> QED BY <1>1, NamedKeepsMetric DEF Champion

(* The alias log only grows, and only by the run that moves it.            *)
LEMMA LogGrows ==
  ASSUME IInv, NEW t \in Trainer,
         \/ Start(t) \/ NothingToLearn(t) \/ SourceDown(t) \/ Train(t) \/ LogRun(t) \/ Kill(t)
  PROVE  \/ aliasLog' = aliasLog
         \/ /\ MoveAlias(t)
            /\ version[t] \in 1..MaxVersions
            /\ aliasLog' = Append(aliasLog, version[t])
<1> USE DEF IInv
<1>1. CASE MoveAlias(t)
  <2>1. version[t] \in DOMAIN versions
    BY <1>1 DEF MoveAlias, OwnershipInv
  <2>2. version[t] \in 1..MaxVersions
    BY <2>1 DEF TypeOK
  <2> QED BY <1>1, <2>2 DEF MoveAlias
<1>2. CASE ~MoveAlias(t)
  BY <1>2 DEF Start, NothingToLearn, SourceDown, Train, LogRun, Kill, LogMetrics,
         Register, LogArtifact, ReadChampion, ChampionUnreadable, Compare, TrackingFails,
         AnswerLost, registry
<1> QED BY <1>1, <1>2

(* Each new champion is better than the last, so better than all before.   *)
LEMMA RisingKeeps ==
  ASSUME IInv, TypeOK', AliasedInv', NEW t \in Trainer,
         overlapped' = (overlapped \/ Overlapping'),
         \/ Start(t) \/ NothingToLearn(t) \/ SourceDown(t) \/ Train(t) \/ LogRun(t) \/ Kill(t)
  PROVE  RisingInv'
<1> USE DEF IInv
<1> DEFINE M(k) == tracked[versions[aliasLog[k]]]
           N(k) == tracked'[versions'[aliasLog'[k]]]
<1> SUFFICES ASSUME ~overlapped', readFaults' = 0,
                    NEW i \in DOMAIN aliasLog', NEW j \in DOMAIN aliasLog', i <= j
             PROVE  N(i) <= N(j)
  BY DEF RisingInv, MetricOf
<1>1. ~overlapped /\ readFaults = 0
  <2>1. readFaults' = readFaults \/ readFaults' = readFaults + 1
    BY DEF Start, NothingToLearn, SourceDown, Train, LogRun, Kill, LogMetrics, Register,
         LogArtifact, ReadChampion, ChampionUnreadable, Compare, MoveAlias, TrackingFails,
         AnswerLost
  <2>2. readFaults \in Nat
    BY DEF TypeOK
  <2> QED BY <2>1, <2>2 DEF TypeOK
<1>2. aliasLog \in Seq(1..MaxVersions)
  BY DEF TypeOK
<1>3. \A k \in DOMAIN aliasLog : aliasLog'[k] = aliasLog[k] /\ N(k) = M(k)
  <2>1. \A k \in DOMAIN aliasLog : aliasLog'[k] = aliasLog[k]
    BY SMTT(30), <1>2, LogGrows
  <2> QED BY <2>1, NamedKeepsMetric
<1>4. \A k, l \in DOMAIN aliasLog : k <= l => M(k) <= M(l)
  BY <1>1 DEF RisingInv, MetricOf
<1>5. \A k \in DOMAIN aliasLog' : N(k) \in Nat
  <2>1. \A k \in DOMAIN aliasLog' : versions'[aliasLog'[k]] \in Trainer
    BY DEF TypeOK, AliasedInv
  <2>2. Metric \cup {Unmeasured} \subseteq Nat
    BY DEF Metric, Unmeasured
  <2> QED BY <2>1, <2>2 DEF TypeOK
<1> HIDE DEF M, N
<1>6. CASE aliasLog' = aliasLog
  BY <1>3, <1>4, <1>6
<1>7. CASE MoveAlias(t) /\ aliasLog' = Append(aliasLog, version[t]) /\ version[t] \in 1..MaxVersions
  <2> DEFINE n == Len(aliasLog)
  <2>1. /\ n \in Nat /\ DOMAIN aliasLog = 1..n /\ DOMAIN aliasLog' = 1..(n + 1)
        /\ Len(aliasLog') = n + 1
    BY <1>2, <1>7
  <2>2. N(n + 1) = ndcg[t]
    BY <1>7, <2>1, MovedTo DEF N, MetricOf, Champion
  <2>3. n > 0 => ndcg[t] > M(n)
    BY <1>1, <1>2, <1>7, <2>1 DEF SerialInv, MoveAlias, HasAlias, Champion, MetricOf, M
  <2> HIDE DEF n
  <2>4. CASE j \in 1..n
    BY <1>3, <1>4, <2>1, <2>4
  <2>5. CASE i = n + 1
    BY <1>5, <2>1, <2>5
  <2>6. CASE j = n + 1 /\ i \in 1..n
    <3>1. N(i) = M(i) /\ M(i) <= M(n) /\ N(n) = M(n)
      BY <1>3, <1>4, <2>1, <2>6
    <3>2. N(i) \in Nat /\ N(n) \in Nat /\ N(j) \in Nat
      BY <1>5, <2>1, <2>6
    <3> QED BY <2>1, <2>2, <2>3, <2>6, <3>1, <3>2
  <2> QED BY <2>1, <2>4, <2>5, <2>6
<1> QED BY <1>6, <1>7, LogGrows

(* Only a run that is over has an exit code.                               *)
LEMMA FinishedKeeps ==
  ASSUME IInv, NEW t \in Trainer,
         \/ Start(t) \/ NothingToLearn(t) \/ SourceDown(t) \/ Train(t) \/ LogRun(t) \/ Kill(t)
  PROVE  /\ FinishedInv'
         /\ exit[t] = "none"
         /\ \A u \in Trainer : u # t => exit'[u] = exit[u]
         /\ exit'[t] # "none" => pc'[t] = "done"
<1> USE DEF IInv
<1>1. pc[t] # "done" /\ pc \in [Trainer -> Step] /\ exit \in [Trainer -> Exit]
  BY DEF TypeOK, Start, NothingToLearn, SourceDown, Train, LogRun, Kill, LogMetrics, Register,
         LogArtifact, ReadChampion, ChampionUnreadable, Compare, MoveAlias, TrackingFails,
         AnswerLost, Running
<1>2. exit[t] = "none"
  BY <1>1 DEF FinishedInv
<1>3. /\ \A u \in Trainer : u # t => exit'[u] = exit[u] /\ pc'[u] = pc[u]
      /\ exit'[t] # "none" => pc'[t] = "done"
  BY <1>1, <1>2 DEF Start, NothingToLearn, SourceDown, Train, LogRun, Kill, LogMetrics, Register,
         LogArtifact, ReadChampion, ChampionUnreadable, Compare, MoveAlias, TrackingFails,
         AnswerLost, Goto, Finish, run
<1> QED BY <1>2, <1>3 DEF FinishedInv

(* How a run with --promote may end well: it was beaten, or it won.        *)
LEMMA EndedWell ==
  ASSUME IInv, NEW t \in Trainer, faults' = 0, readFaults' = 0,
         \/ Start(t) \/ NothingToLearn(t) \/ SourceDown(t) \/ Train(t) \/ LogRun(t) \/ Kill(t),
         mode'[t] = "promote", exit'[t] = "ok"
  PROVE  \/ ReadChampion(t) /\ HasAlias /\ ndcg[t] <= MetricOf(Champion)
         \/ MoveAlias(t)
<1> USE DEF IInv
<1>1. exit[t] = "none" /\ exit \in [Trainer -> Exit] /\ faults \in Nat /\ readFaults \in Nat
  BY FinishedKeeps DEF TypeOK
<1>2. ~TrackingFails(t) /\ ~AnswerLost(t) /\ ~ChampionUnreadable(t)
  BY <1>1 DEF TrackingFails, AnswerLost, ChampionUnreadable, Fault
<1>3. \/ Train(t) /\ mode[t] = "no-mlflow"
      \/ LogArtifact(t) /\ mode[t] # "promote"
      \/ ReadChampion(t) \/ MoveAlias(t)
  BY <1>1, <1>2 DEF Start, NothingToLearn, SourceDown, Train, LogRun, Kill, LogMetrics, Register,
         LogArtifact, Finish, Goto
<1>4. ReadChampion(t) \/ MoveAlias(t)
  BY <1>3 DEF Train, LogArtifact, run
<1>5. CASE ReadChampion(t)
  <2> DEFINE c == IF HasAlias THEN MetricOf(Champion) ELSE Unmeasured
  <2>1. ~Beats(ndcg[t], c)
    BY <1>1, <1>5 DEF ReadChampion, Compare
  <2>2. HasAlias /\ ~(ndcg[t] > MetricOf(Champion))
    BY <2>1 DEF Beats
  <2>3. ndcg[t] \in Nat /\ MetricOf(Champion) \in Nat
    BY SMTT(30), <2>2, MetricType DEF TypeOK, Metric, Unmeasured
  <2> QED BY <1>5, <2>2, <2>3
<1> QED BY <1>4, <1>5

(* The alias moves upwards, and a run's numbers are final once it is over. *)
LEMMA BestKeeps ==
  ASSUME IInv, OwnershipInv', AliasedInv', TypeOK', NEW t \in Trainer,
         overlapped' = (overlapped \/ Overlapping'),
         \/ Start(t) \/ NothingToLearn(t) \/ SourceDown(t) \/ Train(t) \/ LogRun(t) \/ Kill(t)
  PROVE  ChampionIsBest'
<1> USE DEF IInv
<1> SUFFICES ASSUME ~overlapped', faults' = 0, readFaults' = 0,
                    NEW u \in Trainer, mode'[u] = "promote", exit'[u] = "ok"
             PROVE  HasAlias' /\ ndcg'[u] <= MetricOf(Champion)'
  BY DEF ChampionIsBest
<1>1. ~overlapped /\ faults = 0 /\ readFaults = 0
  <2>1. ~overlapped
    BY DEF TypeOK
  <2>2. faults \in Nat /\ readFaults \in Nat
    BY DEF TypeOK
  <2>3. faults = 0
    <3>1. faults' = faults \/ faults' = faults + 1
      BY DEF Start, NothingToLearn, SourceDown, Train, LogRun, Kill, LogMetrics, Register,
         LogArtifact, ReadChampion, ChampionUnreadable, Compare, MoveAlias, TrackingFails,
         AnswerLost, Fault
    <3> QED BY <2>2, <3>1
  <2>4. readFaults = 0
    <3>1. readFaults' = readFaults \/ readFaults' = readFaults + 1
      BY DEF Start, NothingToLearn, SourceDown, Train, LogRun, Kill, LogMetrics, Register,
         LogArtifact, ReadChampion, ChampionUnreadable, Compare, MoveAlias, TrackingFails,
         AnswerLost
    <3> QED BY <2>2, <3>1
  <2> QED BY <2>1, <2>3, <2>4
<1>2. u # t => mode'[u] = mode[u] /\ exit'[u] = exit[u] /\ ndcg'[u] = ndcg[u]
  BY FinishedKeeps DEF TypeOK, Start, NothingToLearn, SourceDown, Train, LogRun, Kill, LogMetrics,
         Register, LogArtifact, ReadChampion, ChampionUnreadable, Compare, MoveAlias, TrackingFails,
         AnswerLost, run
<1>3. u # t => HasAlias /\ ndcg[u] <= MetricOf(Champion)
  BY <1>1, <1>2 DEF ChampionIsBest
<1>4. CASE MoveAlias(t)
  <2>1. MetricOf(Champion)' = ndcg[t] /\ HasAlias' /\ ndcg' = ndcg
    BY <1>4, MovedTo
  <2>2. HasAlias => ndcg[t] > MetricOf(Champion)
    BY <1>1, <1>4 DEF SerialInv, MoveAlias
  <2>3. Metric \cup {Unmeasured} \subseteq Nat
    BY DEF Metric, Unmeasured
  <2>4. ndcg[t] \in Nat /\ ndcg[u] \in Nat
    BY <2>3 DEF TypeOK
  <2>5. HasAlias => MetricOf(Champion) \in Nat
    BY <2>3, MetricType
  <2> QED BY <1>3, <2>1, <2>2, <2>4, <2>5
<1>5. CASE ~MoveAlias(t)
  <2>1. HasAlias /\ ndcg'[u] <= MetricOf(Champion)
    <3>1. CASE u = t
      <4>1. ReadChampion(t) /\ HasAlias /\ ndcg[t] <= MetricOf(Champion)
        BY <1>5, <3>1, EndedWell
      <4>2. ndcg' = ndcg
        BY <4>1 DEF ReadChampion, Compare
      <4> QED BY <3>1, <4>1, <4>2
    <3> QED BY <1>2, <1>3, <3>1
  <2>2. aliasLog' = aliasLog
    BY <1>5 DEF Start, NothingToLearn, SourceDown, Train, LogRun, Kill, LogMetrics,
         Register, LogArtifact, ReadChampion, ChampionUnreadable, Compare, TrackingFails,
         AnswerLost, registry
  <2>3. HasAlias' /\ Champion' = Champion
    BY <2>1, <2>2 DEF HasAlias, Champion
  <2>4. tracked'[versions'[Champion]] = tracked[versions[Champion]]
    BY <2>1, ChampionKeepsMetric
  <2> QED BY <2>1, <2>3, <2>4 DEF MetricOf
<1> QED BY <1>4, <1>5

LEMMA NextIInv == IInv /\ [Next]_vars => IInv'
<1> SUFFICES ASSUME IInv, [Next]_vars PROVE IInv'
  OBVIOUS
<1>1. TypeOK'
  BY NextType
<1>2. CASE Next
  <2>1. PICK t \in Trainer : \/ Start(t) \/ NothingToLearn(t) \/ SourceDown(t) \/ Train(t)
                            \/ LogRun(t) \/ Kill(t)
    BY <1>2 DEF Next
  <2>2. MeasuredInv' /\ OwnershipInv' /\ AliasedInv'
    BY <2>1, QuietKeeps, TrainKeeps, RegisterKeeps, MoveKeeps DEF LogRun
  <2>3. overlapped' = (overlapped \/ Overlapping')
    BY <1>2 DEF Next
  <2>4. SerialInv' /\ RisingInv' /\ FinishedInv' /\ ChampionIsBest'
    BY <1>1, <2>1, <2>2, <2>3, SerialKeeps, RisingKeeps, FinishedKeeps, BestKeeps
  <2> QED BY <1>1, <2>2, <2>4 DEF IInv
<1>3. CASE UNCHANGED vars
  BY <1>1, <1>3 DEF IInv, vars, registry, run, MeasuredInv, OwnershipInv, AliasedInv, SerialInv,
                    RisingInv, FinishedInv, ChampionIsBest, Overlapping, Running, HasAlias, Champion, MetricOf
<1> QED BY <1>2, <1>3

(* The invariant the other theorems follow from: what a run owns, what is  *)
(* on record and what the alias named, through every call of _log_run.     *)
THEOREM Invariance == Spec => []IInv
BY InitIInv, NextIInv, PTL DEF Spec

(* Every variable keeps its type.                                          *)
THEOREM TypeCorrect == Spec => []TypeOK
<1>1. IInv => TypeOK
  BY DEF IInv
<1> QED BY <1>1, Invariance, PTL

-------------------------------------------------------------------------------
(* No winner is forgotten: without overlap and failing calls the champion  *)
(* is at least as good as every run that promoted and ended well.          *)
THEOREM ChampionIsBestTheorem == Spec => []ChampionIsBest
<1>1. IInv => ChampionIsBest
  BY DEF IInv
<1> QED BY <1>1, Invariance, PTL

(* The next run always finds a metric to compare itself with, whatever     *)
(* failed or was killed between the calls of MLflow (train_lightgbm.py     *)
(* 445-478 log the metrics before anything can be promoted).               *)
THEOREM ChampionIsMeasuredTheorem == Spec => []ChampionIsMeasured
<1>1. IInv => ChampionIsMeasured
  BY MetricType DEF IInv, ChampionIsMeasured, MeasuredInv, MetricOf
<1> QED BY <1>1, Invariance, PTL

(* Runs that do not overlap and can read the registry never replace the    *)
(* champion by a model that scored no better (train_lightgbm.py:468-478).  *)
THEOREM SerialPromotionTheorem == Spec => SerialPromotion
<1>1. ASSUME IInv, [Next]_vars
      PROVE  [~overlapped /\ readFaults = 0 /\ HasAlias /\ aliasLog' # aliasLog
                => MetricOf(Champion)' > MetricOf(Champion)]_vars
  <2> SUFFICES ASSUME ~overlapped, readFaults = 0, HasAlias, aliasLog' # aliasLog
               PROVE  MetricOf(Champion)' > MetricOf(Champion)
    OBVIOUS
  <2> USE DEF IInv
  <2>1. PICK t \in Trainer : MoveAlias(t)
    BY <1>1 DEF Next, Start, NothingToLearn, SourceDown, Train, LogRun, Kill, LogMetrics, Register,
         LogArtifact, ReadChampion, ChampionUnreadable, Compare, TrackingFails,
         AnswerLost, registry, vars
  <2>2. /\ pc[t] = "move" /\ UNCHANGED <<versions, tracked>>
        /\ aliasLog' = Append(aliasLog, version[t])
    BY <2>1 DEF MoveAlias
  <2>3. version[t] \in DOMAIN versions /\ versions[version[t]] = t /\ tracked[t] = ndcg[t]
    BY <1>1, <2>2 DEF OwnershipInv, MeasuredInv
  <2>4. aliasLog \in Seq(1..MaxVersions) /\ version[t] \in 1..MaxVersions
    BY <1>1, <2>3 DEF TypeOK
  <2>5. Champion' = version[t]
    BY <2>2, <2>4 DEF Champion
  <2>6. MetricOf(Champion)' = ndcg[t]
    BY <2>2, <2>3, <2>5 DEF MetricOf
  <2>7. ndcg[t] > MetricOf(Champion)
    BY <1>1, <2>2 DEF SerialInv
  <2> QED BY <2>6, <2>7
<1> QED BY <1>1, Invariance, PTL DEF Spec, SerialPromotion

(* The trainer gives the ranking service the alias it relies on: however   *)
(* runs overlap, fail or are killed, no version is named twice.            *)
THEOREM AliasTheorem == Spec => ImplementsAliasHistory
<1>1. Init => Alias!AliasInit
  BY DEF Init, Alias!AliasInit
<1>2. ASSUME IInv, [Next]_vars PROVE [Alias!AliasNext]_aliasLog
  <2> SUFFICES ASSUME aliasLog' # aliasLog PROVE Alias!AliasNext
    OBVIOUS
  <2> USE DEF IInv
  <2>1. PICK t \in Trainer : MoveAlias(t)
    BY <1>2 DEF Next, Start, NothingToLearn, SourceDown, Train, LogRun, Kill, LogMetrics, Register,
         LogArtifact, ReadChampion, ChampionUnreadable, Compare, TrackingFails,
         AnswerLost, registry, vars
  <2>2. aliasLog \in Seq(1..MaxVersions) /\ version[t] \in 1..MaxVersions
    <3>1. version[t] \in DOMAIN versions
      BY <1>2, <2>1 DEF MoveAlias, OwnershipInv
    <3> QED BY <1>2, <3>1 DEF TypeOK
  <2>3. version[t] \notin Alias!Aliased
    BY <1>2, <2>1, <2>2, MoveKeeps DEF Alias!Aliased, Alias!Now
  <2>4. Alias!Move(version[t])
    BY <2>1, <2>3 DEF MoveAlias, Alias!Move, Alias!Now
  <2> QED BY <2>2, <2>4 DEF Alias!AliasNext
<1> QED BY <1>1, <1>2, Invariance, PTL DEF Spec, ImplementsAliasHistory, Alias!AliasSpec
===============================================================================
