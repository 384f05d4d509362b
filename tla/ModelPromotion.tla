---------------------------- MODULE ModelPromotion ----------------------------
(***************************************************************************)
(* train_lightgbm: the runs that train a ranker, register it in MLflow and *)
(* move the champion alias.  A run is a process of its own, started by its *)
(* weekly timer or by hand; runs share nothing but the registry.           *)
(*                                                                         *)
(* A run's data is reduced to the one number promotion looks at, its       *)
(* holdout NDCG@20, and to whether that is above what a random order of    *)
(* the same holdout scores.  Calls of MLflow are one step each, because    *)
(* another run, or the ranking service, can be served between any two.     *)
(***************************************************************************)
EXTENDS Naturals, Sequences

CONSTANTS
  Trainer,         \* the runs of the job
  Overlap,         \* FALSE restricts the model to runs one after the other
  MaxMetric,       \* NDCG@20 takes the values 1..MaxMetric
  MaxVersions,     \* bound on the versions registered and on the alias's moves
  MaxFaults,       \* bound on the failing calls that log, register or move
  MaxReadFaults    \* bound on the failing reads of the champion's metric

ASSUME OverlapAssumption == Overlap \in BOOLEAN
ASSUME BoundAssumption ==
  /\ MaxMetric \in Nat /\ MaxVersions \in Nat
  /\ MaxFaults \in Nat /\ MaxReadFaults \in Nat

Metric == 1..MaxMetric
Unmeasured == 0                              \* None of champion_metric
Mode == {"no-mlflow", "register", "promote"} \* --no-mlflow, neither, --promote
Step == {"idle", "data", "metrics", "register", "artifact", "compare", "move", "done"}
Exit == {"none", "ok", "nothing to do", "infra", "killed"}

VARIABLES
  versions,    \* registry: position is the version's number, value its run
  tracked,     \* run -> NDCG@20 its MLflow run holds, if any
  aliasLog,    \* the versions the alias has named, oldest first
  pc,          \* run -> its next step
  mode,        \* run -> its command line
  ndcg,        \* run -> metrics["ndcg_at_20"]
  clears,      \* run -> its metric is above its random baseline
  version,     \* run -> info.registered_model_version, 0 before it
  seen,        \* run -> what champion_metric returned
  exit,        \* run -> how its process ended
  faults, readFaults,
  overlapped   \* two runs have been going at once (history, read by no action)

registry == <<versions, tracked, aliasLog>>
run == <<mode, ndcg, clears, version, seen>>
vars == <<registry, pc, run, exit, faults, readFaults, overlapped>>

TypeOK ==
  /\ versions \in Seq(Trainer) /\ Len(versions) <= MaxVersions
  /\ tracked \in [Trainer -> Metric \cup {Unmeasured}]
  /\ aliasLog \in Seq(1..MaxVersions) /\ Len(aliasLog) <= MaxVersions
  /\ pc \in [Trainer -> Step]
  /\ mode \in [Trainer -> Mode]
  /\ ndcg \in [Trainer -> Metric \cup {Unmeasured}]
  /\ clears \in [Trainer -> BOOLEAN]
  /\ version \in [Trainer -> 0..MaxVersions]
  /\ seen \in [Trainer -> Metric \cup {Unmeasured}]
  /\ exit \in [Trainer -> Exit]
  /\ faults \in 0..MaxFaults /\ readFaults \in 0..MaxReadFaults
  /\ overlapped \in BOOLEAN

Init ==
  /\ versions = <<>> /\ aliasLog = <<>>
  /\ tracked = [t \in Trainer |-> Unmeasured]
  /\ pc = [t \in Trainer |-> "idle"]
  /\ mode = [t \in Trainer |-> "register"]
  /\ ndcg = [t \in Trainer |-> Unmeasured]
  /\ clears = [t \in Trainer |-> FALSE]
  /\ version = [t \in Trainer |-> 0]
  /\ seen = [t \in Trainer |-> Unmeasured]
  /\ exit = [t \in Trainer |-> "none"]
  /\ faults = 0 /\ readFaults = 0
  /\ overlapped = FALSE

HasAlias == aliasLog # <<>>
Champion == aliasLog[Len(aliasLog)]

(* The metric of the run behind a version, as the tracking store has it.   *)
MetricOf(v) == tracked[versions[v]]

Running(t) == pc[t] \notin {"idle", "done"}

Goto(t, step) == pc' = [pc EXCEPT ![t] = step]

Finish(t, e) ==
  /\ Goto(t, "done")
  /\ exit' = [exit EXCEPT ![t] = e]

-------------------------------------------------------------------------------
(* build: up to the trained model nothing is written anywhere.             *)

Start(t) ==
  /\ pc[t] = "idle"
  /\ Overlap \/ \A u \in Trainer : ~Running(u)
  /\ \E m \in Mode : mode' = [mode EXCEPT ![t] = m]
  /\ Goto(t, "data")
  /\ UNCHANGED <<registry, ndcg, clears, version, seen, exit, faults, readFaults>>

(* No impressions table, no interactions, nothing featurized, too little   *)
(* data, only positives, or an empty side of the temporal split.           *)
NothingToLearn(t) ==
  /\ pc[t] = "data"
  /\ Finish(t, "nothing to do")
  /\ UNCHANGED <<registry, run, faults, readFaults>>

(* ClickHouseError or ArticleServiceError.                                 *)
SourceDown(t) ==
  /\ pc[t] = "data"
  /\ Finish(t, "infra")
  /\ UNCHANGED <<registry, run, faults, readFaults>>

(* The model is trained and scored on the holdout.  One that does not beat *)
(* a random order is logged about and goes on like any other.              *)
Train(t) ==
  /\ pc[t] = "data"
  /\ \E m \in Metric : ndcg' = [ndcg EXCEPT ![t] = m]
  /\ \E b \in BOOLEAN : clears' = [clears EXCEPT ![t] = b]
  /\ IF mode[t] = "no-mlflow" THEN Finish(t, "ok")
                              ELSE Goto(t, "metrics") /\ UNCHANGED exit
  /\ UNCHANGED <<registry, mode, version, seen, faults, readFaults>>

-------------------------------------------------------------------------------
(* _log_run: from here on every exception is swallowed.                    *)

\* Mutant of LogMetrics: the metrics are left for the end of the run.
LogMetricsLater(t) ==
  /\ pc[t] = "metrics"
  /\ Goto(t, "register")
  /\ UNCHANGED <<registry, run, exit, faults, readFaults>>

(* log_params, log_metrics, set_tag                                        *)
LogMetrics(t) ==
  /\ pc[t] = "metrics"
  /\ tracked' = [tracked EXCEPT ![t] = ndcg[t]]
  /\ Goto(t, "register")
  /\ UNCHANGED <<versions, aliasLog, run, exit, faults, readFaults>>

AddVersion(t) ==
  /\ Len(versions) < MaxVersions
  /\ versions' = Append(versions, t)

\* Mutant of Register: the version is guessed, one too high.
RegisterGuesses(t) ==
  /\ pc[t] = "register"
  /\ AddVersion(t)
  /\ version' = [version EXCEPT ![t] = Len(versions') + 1]
  /\ Goto(t, "artifact")
  /\ UNCHANGED <<tracked, aliasLog, mode, ndcg, clears, seen, exit, faults, readFaults>>

(* log_model with registered_model_name: uploads and registers a version,  *)
(* and MLflow's answer to such a call names it.                            *)
Register(t) ==
  /\ pc[t] = "register"
  /\ AddVersion(t)
  /\ version' = [version EXCEPT ![t] = Len(versions')]
  /\ Goto(t, "artifact")
  /\ UNCHANGED <<tracked, aliasLog, mode, ndcg, clears, seen, exit, faults, readFaults>>

(* log_artifact; a run without --promote ends here.                        *)
LogArtifact(t) ==
  /\ pc[t] = "artifact"
  /\ IF mode[t] = "promote" THEN Goto(t, "compare") /\ UNCHANGED exit
                            ELSE Finish(t, "ok")
  /\ UNCHANGED <<registry, run, faults, readFaults>>

\* Mutant of Beats: >= instead of >.
BeatsOrTies(m, current) == current = Unmeasured \/ m >= current

\* Mutant of Beats: a lower score is taken for a better one.
BeatsBackwards(m, current) == current = Unmeasured \/ m < current

Beats(m, current) == current = Unmeasured \/ m > current

(* champion_metric returned c: compare, and remember what it said.         *)
Compare(t, c) ==
  /\ pc[t] = "compare"
  /\ seen' = [seen EXCEPT ![t] = c]
  /\ IF Beats(ndcg[t], c) THEN Goto(t, "move") /\ UNCHANGED exit
                          ELSE Finish(t, "ok")
  /\ UNCHANGED <<registry, mode, ndcg, clears, version, faults>>

ReadChampion(t) ==
  /\ Compare(t, IF HasAlias THEN MetricOf(Champion) ELSE Unmeasured)
  /\ UNCHANGED readFaults

(* Any exception inside champion_metric is None: "there is no champion".   *)
ChampionUnreadable(t) ==
  /\ readFaults < MaxReadFaults
  /\ readFaults' = readFaults + 1
  /\ Compare(t, Unmeasured)

\* Mutant of MoveAlias: the call is repeated without a look at the alias.
MoveAliasRepeated(t) ==
  /\ pc[t] = "move"
  /\ Len(aliasLog) < MaxVersions
  /\ aliasLog' = Append(aliasLog, version[t])
  /\ UNCHANGED <<versions, tracked, pc, run, exit, faults, readFaults>>

(* move_alias, where log_model reported a version.                         *)
MoveAlias(t) ==
  /\ pc[t] = "move"
  /\ Len(aliasLog) < MaxVersions
  /\ aliasLog' = IF version[t] = 0 THEN aliasLog ELSE Append(aliasLog, version[t])
  /\ Finish(t, "ok")
  /\ UNCHANGED <<versions, tracked, run, faults, readFaults>>

Fault ==
  /\ faults < MaxFaults
  /\ faults' = faults + 1

(* A call of MLflow raises: a warning is logged and the run exits 0.       *)
TrackingFails(t) ==
  /\ pc[t] \in {"metrics", "register", "artifact", "compare", "move"}
  /\ Fault
  /\ Finish(t, "ok")
  /\ UNCHANGED <<registry, run, readFaults>>

(* ... and so it does when the version was registered and only the answer  *)
(* was lost.                                                               *)
AnswerLost(t) ==
  /\ pc[t] = "register"
  /\ Fault
  /\ AddVersion(t)
  /\ Finish(t, "ok")
  /\ UNCHANGED <<tracked, aliasLog, run, readFaults>>

(* The process is killed.                                                  *)
Kill(t) ==
  /\ Running(t)
  /\ Finish(t, "killed")
  /\ UNCHANGED <<registry, run, faults, readFaults>>

-------------------------------------------------------------------------------
LogRun(t) ==
  \/ LogMetrics(t) \/ Register(t) \/ LogArtifact(t) \/ ReadChampion(t)
  \/ ChampionUnreadable(t) \/ MoveAlias(t) \/ TrackingFails(t) \/ AnswerLost(t)

Overlapping == \E t, u \in Trainer : t # u /\ Running(t) /\ Running(u)

Next ==
  /\ \E t \in Trainer :
       \/ Start(t) \/ NothingToLearn(t) \/ SourceDown(t) \/ Train(t)
       \/ LogRun(t) \/ Kill(t)
  /\ overlapped' = (overlapped \/ Overlapping')

Spec == Init /\ [][Next]_vars

-------------------------------------------------------------------------------
(* Safety.                                                                 *)

(* Promotion is a comparison: whatever failed or was killed before, the    *)
(* champion's run holds the metric the next run will ask for, because      *)
(* log_metrics comes before log_model and both before the alias moves      *)
(* (train_lightgbm.py:445-478).                                            *)
ChampionIsMeasured ==
  HasAlias => Champion \in DOMAIN versions /\ MetricOf(Champion) # Unmeasured

(* The help of --promote (train_lightgbm.py:499): the alias moves "if the  *)
(* holdout beats the champion".                                            *)
ChampionNeverWorse ==
  [][HasAlias /\ aliasLog' # aliasLog
       => MetricOf(Champion)' > MetricOf(Champion)]_vars

(* It keeps that promise as long as no two runs have overlapped and the    *)
(* registry could be read when asked, whatever else fails or is killed.    *)
SerialPromotion ==
  [][~overlapped /\ readFaults = 0 /\ HasAlias /\ aliasLog' # aliasLog
       => MetricOf(Champion)' > MetricOf(Champion)]_vars

(* And it forgets no winner: as long as no two runs have overlapped and no *)
(* call has failed, no run with --promote that ended well scored above the *)
(* champion, whoever was killed in between.                                *)
ChampionIsBest ==
  ~overlapped /\ faults = 0 /\ readFaults = 0 =>
    \A t \in Trainer :
      mode[t] = "promote" /\ exit[t] = "ok"
        => HasAlias /\ ndcg[t] <= MetricOf(Champion)

(* What the ranking service relies on about the alias: it takes no version *)
(* twice, so a version number that reads the same is the same alias value. *)
Alias == INSTANCE AliasHistory WITH
           Version <- 1..MaxVersions, Repoint <- FALSE, MaxMoves <- MaxVersions

ImplementsAliasHistory == Alias!AliasSpec

(* README.md:123 and train_lightgbm.py:224: random is the floor a ranker   *)
(* must clear to be worth deploying at all.                                *)
ChampionBeatsRandom ==
  HasAlias => clears[versions[Champion]]

(* The comment on the except (train_lightgbm.py:479): "a tracking failure  *)
(* must not lose the trained model".                                       *)
TrainedModelKept ==
  \A t \in Trainer :
    exit[t] = "ok" /\ mode[t] # "no-mlflow"
      => \E v \in DOMAIN versions : versions[v] = t

-------------------------------------------------------------------------------
(* Why they hold: the inductive invariant of the proofs.                   *)

(* A run's metric is on record before its version is registered.           *)
MeasuredInv ==
  /\ \A t \in Trainer : /\ pc[t] \in {"metrics", "register", "artifact", "compare", "move"}
                             => ndcg[t] # Unmeasured
                        /\ pc[t] \in {"register", "artifact", "compare", "move"}
                             => tracked[t] = ndcg[t]
  /\ \A v \in DOMAIN versions : tracked[versions[v]] # Unmeasured

(* A run that still has to register owns no version; one that has, owns    *)
(* the version it knows by number.                                         *)
OwnershipInv ==
  /\ \A v \in DOMAIN versions : pc[versions[v]] \in {"artifact", "compare", "move", "done"}
  /\ \A t \in Trainer : pc[t] \in {"artifact", "compare", "move"}
                          => version[t] \in DOMAIN versions /\ versions[version[t]] = t

(* The alias only ever named versions of runs that are over, each once.    *)
AliasedInv ==
  /\ \A i \in DOMAIN aliasLog : /\ aliasLog[i] \in DOMAIN versions
                                /\ pc[versions[aliasLog[i]]] = "done"
  /\ \A i, j \in DOMAIN aliasLog : aliasLog[i] = aliasLog[j] => i = j

(* Runs one at a time: what a run read of the champion is still so when it *)
(* moves the alias.                                                        *)
SerialInv ==
  ~overlapped =>
    /\ ~Overlapping
    /\ readFaults = 0 =>
         \A t \in Trainer : pc[t] = "move" /\ HasAlias => ndcg[t] > MetricOf(Champion)

(* Only a run that is over has an exit code.                               *)
FinishedInv == \A t \in Trainer : exit[t] # "none" => pc[t] = "done"

(* Runs one at a time make the alias's history a rising one.               *)
RisingInv ==
  ~overlapped /\ readFaults = 0 =>
    \A i, j \in DOMAIN aliasLog :
      i <= j => MetricOf(aliasLog[i]) <= MetricOf(aliasLog[j])

IInv ==
  /\ TypeOK /\ MeasuredInv /\ OwnershipInv /\ AliasedInv
  /\ SerialInv /\ RisingInv /\ FinishedInv /\ ChampionIsBest
===============================================================================
