---------------------------- MODULE RankingService ----------------------------
(***************************************************************************)
(* The ranking service's model: who may replace it, and with what.         *)
(*                                                                         *)
(* Each uvicorn worker runs one event loop with one ModelState.  Three     *)
(* kinds of task call ModelState.reload: the lifespan at startup (forced), *)
(* the watcher every model_watch_seconds (not forced) and the handler of   *)
(* POST /reload-model (forced).  reload holds an asyncio.Lock across two   *)
(* calls handed to a thread, and MlflowModelLoader.load asks MLflow for    *)
(* the alias three times: for the version it reports, for the booster and  *)
(* for the signature.  The alias can move between any two of them.         *)
(*                                                                         *)
(* A model is recorded by the positions in aliasLog at which its parts     *)
(* were read, so "which version" and "how old" are both visible.           *)
(***************************************************************************)
EXTENDS AliasHistory

CONSTANTS
  Worker,        \* the uvicorn worker processes
  Handler,       \* the concurrent POST /reload-model requests of a worker
  Compatible,    \* the versions whose signature feature_store accepts
  Watching,      \* model_watch_seconds > 0
  MaxFaults      \* bound on the MLflow calls that fail

ASSUME CompatibleAssumption == Compatible \subseteq Version
ASSUME HandlerAssumption == Handler \cap {"lifespan", "watcher"} = {}
ASSUME WatchingAssumption == Watching \in BOOLEAN
ASSUME FaultsAssumption == MaxFaults \in Nat

Task == {"lifespan", "watcher"} \cup Handler
Forced(t) == t # "watcher"

VARIABLES
  faults,        \* MLflow calls that have failed
  phase,         \* worker -> where its process is
  bundle,        \* worker -> ModelState._bundle
  queue,         \* worker -> ModelState._lock: its holder, then who waits
  pc,            \* worker -> task -> its next step inside reload
  load,          \* worker -> task -> what MlflowModelLoader.load has so far
  result         \* worker -> task -> its last ReloadResult

serviceVars == <<faults, phase, bundle, queue, pc, load, result>>
vars == <<aliasLog, faults, phase, bundle, queue, pc, load, result>>

NoBundle == [label |-> 0, booster |-> 0, sig |-> 0]

Reading == 0..MaxMoves
Bundle == [label : Reading, booster : Reading, sig : Reading]
Phase == {"down", "starting", "serving"}
Inside == {"resolve", "booster", "names", "install"}
Step == {"idle", "version"} \cup Inside
Result == {"none", "loaded", "unchanged", "missing", "failed", "signature_mismatch"}

TypeOK ==
  /\ aliasLog \in Seq(Version)
  /\ Now <= MaxMoves
  /\ faults \in 0..MaxFaults
  /\ phase \in [Worker -> Phase]
  /\ bundle \in [Worker -> Bundle]
  /\ queue \in [Worker -> Seq(Task)]
  /\ pc \in [Worker -> [Task -> Step]]
  /\ load \in [Worker -> [Task -> Bundle]]
  /\ result \in [Worker -> [Task -> Result]]

Init ==
  /\ AliasInit
  /\ faults = 0
  /\ phase = [w \in Worker |-> "down"]
  /\ bundle = [w \in Worker |-> NoBundle]
  /\ queue = [w \in Worker |-> <<>>]
  /\ pc = [w \in Worker |-> [t \in Task |-> "idle"]]
  /\ load = [w \in Worker |-> [t \in Task |-> NoBundle]]
  /\ result = [w \in Worker |-> [t \in Task |-> "none"]]

-------------------------------------------------------------------------------
(* The environment: the trainer, an operator, the process supervisor.      *)

Promote(v) == Move(v) /\ UNCHANGED serviceVars

(* A worker process starts: a new ModelState, and the lifespan's forced    *)
(* reload before anything else may call it.                                *)
Boot(w) ==
  /\ phase[w] = "down"
  /\ phase' = [phase EXCEPT ![w] = "starting"]
  /\ queue' = [queue EXCEPT ![w] = <<"lifespan">>]
  /\ pc' = [pc EXCEPT ![w]["lifespan"] = "version"]
  /\ UNCHANGED <<aliasLog, faults, bundle, load, result>>

(* The process ends, whatever it was doing; all of its state is memory.    *)
Stop(w) ==
  /\ phase[w] # "down"
  /\ phase' = [phase EXCEPT ![w] = "down"]
  /\ bundle' = [bundle EXCEPT ![w] = NoBundle]
  /\ queue' = [queue EXCEPT ![w] = <<>>]
  /\ pc' = [pc EXCEPT ![w] = [t \in Task |-> "idle"]]
  /\ load' = [load EXCEPT ![w] = [t \in Task |-> NoBundle]]
  /\ result' = [result EXCEPT ![w] = [t \in Task |-> "none"]]
  /\ UNCHANGED <<aliasLog, faults>>

-------------------------------------------------------------------------------
(* Calling reload.  A task that finds the lock held waits its turn.        *)

Enter(w, t) ==
  /\ phase[w] = "serving"
  /\ pc[w][t] = "idle"
  /\ queue' = [queue EXCEPT ![w] = Append(@, t)]
  /\ pc' = [pc EXCEPT ![w][t] = "version"]
  /\ UNCHANGED <<aliasLog, faults, phase, bundle, load, result>>

(* POST /reload-model                                                      *)
ReloadModel(w, h) == Enter(w, h)

(* _watch_model, one period after its last attempt ended                   *)
WatchModel(w) == Watching /\ Enter(w, "watcher")

\* Mutant of Holding: reload without the lock.
HoldingNoLock(w, t) == pc[w][t] # "idle"

Holding(w, t) == queue[w] # <<>> /\ Head(queue[w]) = t

(* reload returns r and the lock passes on.  The lifespan goes on to serve *)
(* with or without a model, except that a signature mismatch ends the      *)
(* process.                                                                *)
AfterReload(w, t, r) ==
  IF t # "lifespan" THEN phase[w]
  ELSE IF r = "signature_mismatch" THEN "down" ELSE "serving"

Return(w, t, r) ==
  /\ queue' = [queue EXCEPT ![w] = Tail(@)]
  /\ pc' = [pc EXCEPT ![w][t] = "idle"]
  /\ load' = [load EXCEPT ![w][t] = NoBundle]
  /\ result' = [result EXCEPT ![w][t] = r]
  /\ phase' = [phase EXCEPT ![w] = AfterReload(w, t, r)]
  /\ UNCHANGED aliasLog

At(w, t, step) == Holding(w, t) /\ pc[w][t] = step

Fault ==
  /\ faults < MaxFaults
  /\ faults' = faults + 1

-------------------------------------------------------------------------------
(* The steps of reload.                                                    *)

\* Mutant of Missing: the early return leaves the lock held.
MissingKeepsLock(w, t) ==
  /\ At(w, t, "version") \/ At(w, t, "resolve")
  /\ \/ ~HasAlias /\ UNCHANGED faults
     \/ Fault
  /\ pc' = [pc EXCEPT ![w][t] = "idle"]
  /\ load' = [load EXCEPT ![w][t] = NoBundle]
  /\ result' = [result EXCEPT ![w][t] = "missing"]
  /\ phase' = [phase EXCEPT ![w] = AfterReload(w, t, "missing")]
  /\ UNCHANGED <<aliasLog, queue, bundle>>

(* resolve_alias turns every failure of the registry call, and there being *)
(* no alias, into ModelUnavailable: both of its callers report "missing".  *)
Missing(w, t) ==
  /\ At(w, t, "version") \/ At(w, t, "resolve")
  /\ \/ ~HasAlias /\ UNCHANGED faults
     \/ Fault
  /\ Return(w, t, "missing")
  /\ UNCHANGED bundle

\* Mutant of Failed: a failed reload drops the model that is serving.
FailedDropsModel(w, t) ==
  /\ Holding(w, t)
  /\ pc[w][t] \in {"version", "resolve", "booster", "names"}
  /\ Fault
  /\ Return(w, t, "failed")
  /\ bundle' = [bundle EXCEPT ![w] = NoBundle]

(* Any other exception of current_version or load: configuring MLflow,     *)
(* downloading the booster, reading the model's info.                      *)
Failed(w, t) ==
  /\ Holding(w, t)
  /\ pc[w][t] \in {"version", "resolve", "booster", "names"}
  /\ Fault
  /\ Return(w, t, "failed")
  /\ UNCHANGED bundle

\* Mutant of SameVersion: any loaded model counts as up to date.
SameVersionAny(w) == bundle[w] # NoBundle

SameVersion(w) == bundle[w] # NoBundle /\ aliasLog[bundle[w].label] = Champion

\* Mutant of Unchanged: the branch forgets to return a result.
UnchangedNoResult(w, t) ==
  /\ At(w, t, "version")
  /\ HasAlias
  /\ ~Forced(t) /\ SameVersion(w)
  /\ Return(w, t, "None")
  /\ UNCHANGED <<faults, bundle>>

(* The version the bundle reports is the one the alias names: nothing to do. *)
Unchanged(w, t) ==
  /\ At(w, t, "version")
  /\ HasAlias
  /\ ~Forced(t) /\ SameVersion(w)
  /\ Return(w, t, "unchanged")
  /\ UNCHANGED <<faults, bundle>>

(* ... or there is, and load starts in a thread of its own.                *)
StartLoad(w, t) ==
  /\ At(w, t, "version")
  /\ HasAlias
  /\ Forced(t) \/ ~SameVersion(w)
  /\ pc' = [pc EXCEPT ![w][t] = "resolve"]
  /\ UNCHANGED <<aliasLog, faults, phase, bundle, queue, load, result>>

(* resolve_alias again, for the version the bundle will report.            *)
Resolve(w, t) ==
  /\ At(w, t, "resolve")
  /\ HasAlias
  /\ load' = [load EXCEPT ![w][t].label = Now]
  /\ pc' = [pc EXCEPT ![w][t] = "booster"]
  /\ UNCHANGED <<aliasLog, faults, phase, bundle, queue, result>>

(* mlflow.lightgbm.load_model("models:/<name>@<alias>")                    *)
LoadBooster(w, t) ==
  /\ At(w, t, "booster")
  /\ load' = [load EXCEPT ![w][t].booster = Now]
  /\ pc' = [pc EXCEPT ![w][t] = "names"]
  /\ UNCHANGED <<aliasLog, faults, phase, bundle, queue, result>>

\* Mutant of ReadNames: the version is resolved last instead of first.
ReadNamesThenResolve(w, t) ==
  /\ At(w, t, "names")
  /\ Champion \in Compatible
  /\ load' = [load EXCEPT ![w][t].sig = Now, ![w][t].label = Now]
  /\ pc' = [pc EXCEPT ![w][t] = "install"]
  /\ UNCHANGED <<aliasLog, faults, phase, bundle, queue, result>>

(* get_model_info of the same uri, and assert_matches of its signature.    *)
ReadNames(w, t) ==
  /\ At(w, t, "names")
  /\ Champion \in Compatible
  /\ load' = [load EXCEPT ![w][t].sig = Now]
  /\ pc' = [pc EXCEPT ![w][t] = "install"]
  /\ UNCHANGED <<aliasLog, faults, phase, bundle, queue, result>>

Mismatch(w, t) ==
  /\ At(w, t, "names")
  /\ Champion \notin Compatible
  /\ Return(w, t, "signature_mismatch")
  /\ UNCHANGED <<faults, bundle>>

(* Back on the event loop: the bundle is swapped by reference.             *)
Install(w, t) ==
  /\ At(w, t, "install")
  /\ bundle' = [bundle EXCEPT ![w] = load[w][t]]
  /\ Return(w, t, "loaded")
  /\ UNCHANGED faults

Reload(w, t) ==
  \/ Missing(w, t) \/ Failed(w, t) \/ Unchanged(w, t) \/ StartLoad(w, t)
  \/ Resolve(w, t) \/ LoadBooster(w, t) \/ ReadNames(w, t) \/ Mismatch(w, t)
  \/ Install(w, t)

Next ==
  \/ \E v \in Version : Promote(v)
  \/ \E w \in Worker :
       \/ Boot(w) \/ Stop(w) \/ WatchModel(w)
       \/ \E h \in Handler : ReloadModel(w, h)
       \/ \E t \in Task : Reload(w, t)

(* A thread's call returns or raises, the lock is handed on, and a watcher *)
(* that is switched on wakes again.  Nobody owes a request, a promotion,   *)
(* a start or a stop.                                                      *)
Fairness ==
  \A w \in Worker : /\ WF_vars(WatchModel(w))
                    /\ \A t \in Task : WF_vars(Reload(w, t))

Spec == Init /\ [][Next]_vars /\ Fairness

-------------------------------------------------------------------------------
(* Safety.                                                                 *)

(* The watcher leaves a model alone when the version it reports is the one *)
(* the alias names (state.py:69).  It may: while the alias only moves to   *)
(* new versions, a bundle that reports the current version took its        *)
(* booster and its signature from that version too, although load asked    *)
(* for the alias three times and it may have moved in between.             *)
CurrentLabelIsCurrentModel ==
  ~Repoint => \A w \in Worker :
                SameVersion(w) => bundle[w].booster = Now /\ bundle[w].sig = Now

(* What the header of state.py promises, as a refinement: the process may  *)
(* be anywhere inside reload, and seen from outside its model is one whose *)
(* signature matched, is never dropped by a failed reload and is only ever *)
(* swapped for one read later.                                             *)
Served == INSTANCE ServedModel WITH
            up <- {w \in Worker : phase[w] = "serving"},
            served <- [w \in Worker |-> bundle[w].sig]

ImplementsServedModel == Served!ServedSpec

(* The docstring of ModelUnavailable (tracking.py:24): "missing" is        *)
(* reported when no version is under the alias, not when the registry      *)
(* could not be asked.                                                     *)
MissingMeansNoAlias ==
  [][\A w \in Worker, t \in Task :
       pc[w][t] # "idle" /\ pc'[w][t] = "idle" /\ result'[w][t] = "missing"
         => ~HasAlias]_vars

(* The docstring of MlflowModelLoader (state.py:123): a model that serves  *)
(* has the feature list of this code - the booster that predicts, not only *)
(* the signature that was compared.                                        *)
ServedBoosterCompatible ==
  \A w \in Worker : bundle[w] # NoBundle => aliasLog[bundle[w].booster] \in Compatible

-------------------------------------------------------------------------------
(* Why the safety properties hold: the inductive invariant of the proofs.  *)

(* Only the holder of the lock is past the version check.                  *)
LockInv ==
  \A w \in Worker, t \in Task : pc[w][t] \in Inside => Holding(w, t)

(* The lifespan calls reload alone, and once.                              *)
LifespanInv ==
  \A w \in Worker :
    /\ phase[w] = "down" => queue[w] = <<>> /\ bundle[w] = NoBundle
    /\ phase[w] = "starting" => queue[w] = <<"lifespan">> /\ bundle[w] = NoBundle
    /\ phase[w] = "serving" => \A i \in 1..Len(queue[w]) : queue[w][i] # "lifespan"

(* The parts of a bundle were read in the order load reads them.           *)
InReadOrder(b) ==
  /\ 1 <= b.label /\ b.label <= b.booster /\ b.booster <= b.sig /\ b.sig <= Now
  /\ aliasLog[b.sig] \in Compatible

BundleInv == \A w \in Worker : bundle[w] = NoBundle \/ InReadOrder(bundle[w])

(* A load in progress is newer than the bundle it will replace.            *)
LoadInv ==
  \A w \in Worker, t \in Task :
    /\ pc[w][t] \in {"booster", "names", "install"} =>
         /\ bundle[w].sig <= load[w][t].label
         /\ 1 <= load[w][t].label /\ load[w][t].label <= Now
    /\ pc[w][t] = "names" =>
         load[w][t].label <= load[w][t].booster /\ load[w][t].booster <= Now
    /\ pc[w][t] = "install" => InReadOrder(load[w][t])

(* Without an operator's hand the alias never names a version twice.       *)
AliasInv ==
  ~Repoint => \A i, j \in 1..Now : aliasLog[i] = aliasLog[j] => i = j

IInv == TypeOK /\ LockInv /\ LifespanInv /\ BundleInv /\ LoadInv /\ AliasInv

-------------------------------------------------------------------------------
(* Liveness.                                                               *)

ServesChampion(w) ==
  /\ bundle[w] # NoBundle
  /\ aliasLog[bundle[w].booster] = Champion
  /\ aliasLog[bundle[w].sig] = Champion

(* _watch_model's docstring (app.py:136), "Picks up a promotion without a  *)
(* restart": in a process that keeps serving under a loadable champion,    *)
(* the champion ends up being the model that predicts.                     *)
PromotionPickedUp ==
  \A w \in Worker :
    <>[](phase[w] = "serving" /\ HasAlias /\ Champion \in Compatible)
      => <>[]ServesChampion(w)

(* Every call of reload returns, whatever failed and whoever else was      *)
(* waiting for the lock: no early return of state.py:58-99 keeps it.       *)
ReloadAnswered ==
  \A w \in Worker, t \in Task : pc[w][t] # "idle" ~> pc[w][t] = "idle"

(* app.py says the service is safe to run with several workers (line 7)    *)
(* and that without a watcher "/reload-model still works" (line 136): once *)
(* a request has answered that the champion was loaded, it is the champion *)
(* that the service's processes serve.                                     *)
ReloadTakesEffect ==
  \A w \in Worker, h \in Handler :
    (phase[w] = "serving" /\ result[w][h] = "loaded" /\ bundle[w].booster = Now)
      ~> (\A x \in Worker : phase[x] = "serving" => bundle[x].booster = Now)
===============================================================================
