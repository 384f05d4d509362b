------------------------ MODULE RankingServiceProofs ------------------------
(***************************************************************************)
(* Machine-checked proofs about RankingService, for every number of        *)
(* workers, handlers, versions, moves and faults.  None of them uses the   *)
(* fairness of Spec: they are about [Next]_vars.                           *)
(***************************************************************************)
EXTENDS RankingService, TLAPS

USE RepointAssumption, MovesAssumption, CompatibleAssumption, FaultsAssumption

(* NoBundle is a bundle, and a step of reload's Return keeps every type.   *)
LEMMA NoBundleType == NoBundle \in Bundle
BY DEF NoBundle, Bundle, Reading

LEMMA ReturnType ==
  ASSUME TypeOK, NEW w \in Worker, NEW t \in Task, NEW r \in Result,
         Holding(w, t), Return(w, t, r)
  PROVE  /\ aliasLog' \in Seq(Version)
         /\ Now' <= MaxMoves
         /\ phase' \in [Worker -> Phase]
         /\ queue' \in [Worker -> Seq(Task)]
         /\ pc' \in [Worker -> [Task -> Step]]
         /\ load' \in [Worker -> [Task -> Bundle]]
         /\ result' \in [Worker -> [Task -> Result]]
<1>1. queue[w] \in Seq(Task) /\ queue[w] # <<>>
  BY DEF TypeOK, Holding
<1>2. Tail(queue[w]) \in Seq(Task)
  BY <1>1
<1>3. AfterReload(w, t, r) \in Phase
  BY DEF AfterReload, TypeOK, Phase
<1>4. queue' \in [Worker -> Seq(Task)]
  BY <1>2 DEF TypeOK, Return
<1>5. phase' \in [Worker -> Phase]
  BY <1>3 DEF TypeOK, Return
<1>6. pc' \in [Worker -> [Task -> Step]]
  BY DEF TypeOK, Return, Step
<1>7. load' \in [Worker -> [Task -> Bundle]]
  BY NoBundleType DEF TypeOK, Return
<1>8. result' \in [Worker -> [Task -> Result]]
  BY DEF TypeOK, Return
<1>9. aliasLog' \in Seq(Version) /\ Now' <= MaxMoves
  BY DEF TypeOK, Return, Now
<1> QED BY <1>4, <1>5, <1>6, <1>7, <1>8, <1>9

LEMMA InitType == Init => TypeOK
<1> SUFFICES ASSUME Init PROVE TypeOK
  OBVIOUS
<1>1. aliasLog \in Seq(Version) /\ Now <= MaxMoves
  BY DEF Init, AliasInit, Now
<1> QED
  BY <1>1, NoBundleType DEF Init, TypeOK, Phase, Step, Result, Task

LEMMA FaultType == ASSUME TypeOK, Fault PROVE faults' \in 0..MaxFaults
BY DEF TypeOK, Fault

(* A read of the alias records a position of its history and moves on.     *)
LEMMA LoadStep ==
  ASSUME TypeOK, NEW w \in Worker, NEW t \in Task,
         Resolve(w, t) \/ LoadBooster(w, t) \/ ReadNames(w, t)
  PROVE  \E r \in Bundle, s \in Step :
           load' = [load EXCEPT ![w][t] = r] /\ pc' = [pc EXCEPT ![w][t] = s]
<1>1. Now \in Reading /\ load[w][t] \in Bundle
  BY DEF TypeOK, Now, Reading
<1>2. /\ [load[w][t] EXCEPT !.label = Now] \in Bundle
      /\ [load[w][t] EXCEPT !.booster = Now] \in Bundle
      /\ [load[w][t] EXCEPT !.sig = Now] \in Bundle
  BY <1>1 DEF Bundle
<1>3. "booster" \in Step /\ "names" \in Step /\ "install" \in Step
  BY DEF Step, Inside
<1>4. CASE Resolve(w, t)
  <2>1. load' = [load EXCEPT ![w][t] = [load[w][t] EXCEPT !.label = Now]]
    BY <1>4 DEF Resolve
  <2>2. pc' = [pc EXCEPT ![w][t] = "booster"]
    BY <1>4 DEF Resolve
  <2> QED BY <1>2, <1>3, <2>1, <2>2
<1>5. CASE LoadBooster(w, t)
  <2>1. load' = [load EXCEPT ![w][t] = [load[w][t] EXCEPT !.booster = Now]]
    BY <1>5 DEF LoadBooster
  <2>2. pc' = [pc EXCEPT ![w][t] = "names"]
    BY <1>5 DEF LoadBooster
  <2> QED BY <1>2, <1>3, <2>1, <2>2
<1>6. CASE ReadNames(w, t)
  <2>1. load' = [load EXCEPT ![w][t] = [load[w][t] EXCEPT !.sig = Now]]
    BY <1>6 DEF ReadNames
  <2>2. pc' = [pc EXCEPT ![w][t] = "install"]
    BY <1>6 DEF ReadNames
  <2> QED BY <1>2, <1>3, <2>1, <2>2
<1> QED BY <1>4, <1>5, <1>6

LEMMA NextType == TypeOK /\ [Next]_vars => TypeOK'
<1> SUFFICES ASSUME TypeOK, [Next]_vars PROVE TypeOK'
  OBVIOUS
<1>1. ASSUME NEW v \in Version, Promote(v) PROVE TypeOK'
  <2>1. aliasLog' = Append(aliasLog, v) /\ aliasLog \in Seq(Version) /\ Now < MaxMoves
    BY <1>1 DEF Promote, Move, TypeOK
  <2>2. aliasLog' \in Seq(Version) /\ Len(aliasLog') = Len(aliasLog) + 1
    BY <2>1
  <2> QED
    BY <1>1, <2>1, <2>2 DEF Promote, serviceVars, TypeOK, Now
<1>2. ASSUME NEW w \in Worker, Boot(w) PROVE TypeOK'
  <2>1. "lifespan" \in Task
    BY DEF Task
  <2>2. queue' \in [Worker -> Seq(Task)]
    BY <1>2, <2>1 DEF Boot, TypeOK
  <2>3. pc' \in [Worker -> [Task -> Step]]
    BY <1>2, <2>1 DEF Boot, TypeOK, Step
  <2>4. phase' \in [Worker -> Phase]
    BY <1>2 DEF Boot, TypeOK, Phase
  <2> QED
    BY <1>2, <2>2, <2>3, <2>4 DEF Boot, TypeOK, Now
<1>3. ASSUME NEW w \in Worker, Stop(w) PROVE TypeOK'
  <2>1. queue' \in [Worker -> Seq(Task)]
    BY <1>3 DEF Stop, TypeOK
  <2>2. phase' \in [Worker -> Phase] /\ bundle' \in [Worker -> Bundle]
    BY <1>3, NoBundleType DEF Stop, TypeOK, Phase
  <2>3. pc' \in [Worker -> [Task -> Step]]
    BY <1>3 DEF Stop, TypeOK, Step
  <2>4. load' \in [Worker -> [Task -> Bundle]]
    BY <1>3, NoBundleType DEF Stop, TypeOK
  <2>5. result' \in [Worker -> [Task -> Result]]
    BY <1>3 DEF Stop, TypeOK, Result
  <2> QED
    BY <1>3, <2>1, <2>2, <2>3, <2>4, <2>5 DEF Stop, TypeOK, Now
<1>4. ASSUME NEW w \in Worker, NEW t \in Task, Enter(w, t) PROVE TypeOK'
  <2>1. Append(queue[w], t) \in Seq(Task)
    BY DEF TypeOK
  <2>2. queue' \in [Worker -> Seq(Task)]
    BY <1>4, <2>1 DEF Enter, TypeOK
  <2>3. pc' \in [Worker -> [Task -> Step]]
    BY <1>4 DEF Enter, TypeOK, Step
  <2> QED
    BY <1>4, <2>2, <2>3 DEF Enter, TypeOK, Now
<1>5. ASSUME NEW w \in Worker, NEW t \in Task, Missing(w, t) PROVE TypeOK'
  <2>1. "missing" \in Result
    BY DEF Result
  <2> QED
    BY <1>5, <2>1, ReturnType, FaultType DEF Missing, At, TypeOK
<1>6. ASSUME NEW w \in Worker, NEW t \in Task, Failed(w, t) PROVE TypeOK'
  <2>1. "failed" \in Result
    BY DEF Result
  <2> QED
    BY <1>6, <2>1, ReturnType, FaultType DEF Failed, TypeOK
<1>7. ASSUME NEW w \in Worker, NEW t \in Task, Unchanged(w, t) PROVE TypeOK'
  <2>1. "unchanged" \in Result
    BY DEF Result
  <2> QED
    BY <1>7, <2>1, ReturnType DEF Unchanged, At, TypeOK
<1>8. ASSUME NEW w \in Worker, NEW t \in Task, StartLoad(w, t) PROVE TypeOK'
  BY <1>8 DEF StartLoad, TypeOK, Now, Step, Inside
<1>9. ASSUME NEW w \in Worker, NEW t \in Task,
             Resolve(w, t) \/ LoadBooster(w, t) \/ ReadNames(w, t)
      PROVE TypeOK'
  <2>1. PICK r \in Bundle, s \in Step :
          load' = [load EXCEPT ![w][t] = r] /\ pc' = [pc EXCEPT ![w][t] = s]
    BY <1>9, LoadStep
  <2>2. load' \in [Worker -> [Task -> Bundle]]
    BY <2>1 DEF TypeOK
  <2>3. pc' \in [Worker -> [Task -> Step]]
    BY <2>1 DEF TypeOK
  <2> QED
    BY <1>9, <2>2, <2>3 DEF Resolve, LoadBooster, ReadNames, TypeOK, Now
<1>10. ASSUME NEW w \in Worker, NEW t \in Task, Mismatch(w, t) PROVE TypeOK'
  <2>1. "signature_mismatch" \in Result
    BY DEF Result
  <2> QED
    BY <1>10, <2>1, ReturnType DEF Mismatch, At, TypeOK
<1>11. ASSUME NEW w \in Worker, NEW t \in Task, Install(w, t) PROVE TypeOK'
  <2>1. "loaded" \in Result
    BY DEF Result
  <2>2. bundle' \in [Worker -> Bundle]
    BY <1>11 DEF Install, TypeOK
  <2> QED
    BY <1>11, <2>1, <2>2, ReturnType DEF Install, At, TypeOK
<1>12. CASE UNCHANGED vars
  BY <1>12 DEF vars, TypeOK, Now
<1> QED
  BY <1>1, <1>2, <1>3, <1>4, <1>5, <1>6, <1>7, <1>8, <1>9, <1>10, <1>11, <1>12
     DEF Next, Reload, WatchModel, ReloadModel, Task

(* Type correctness: every result reload returns is one its callers know   *)
(* (state.py:42), and no reading is from a future of the alias's history.  *)
THEOREM TypeCorrect == Spec => []TypeOK
BY InitType, NextType, PTL DEF Spec

-----------------------------------------------------------------------------
(* The rest of the inductive invariant.                                    *)

LEMMA InitIInv == Init => IInv
<1> SUFFICES ASSUME Init PROVE IInv
  OBVIOUS
<1>1. TypeOK
  BY InitType
<1>2. LockInv /\ LoadInv
  BY DEF Init, LockInv, LoadInv, Inside
<1>3. LifespanInv /\ BundleInv
  BY DEF Init, LifespanInv, BundleInv
<1>4. AliasInv
  BY DEF Init, AliasInit, AliasInv, Now
<1> QED BY <1>1, <1>2, <1>3, <1>4 DEF IInv

(* Only the lifespan runs before the process serves, and only then.        *)
LEMMA HolderPhase ==
  ASSUME TypeOK, LifespanInv, NEW w \in Worker, NEW t \in Task, Holding(w, t)
  PROVE  /\ t = "lifespan" => phase[w] = "starting"
         /\ t # "lifespan" => phase[w] = "serving"
         /\ phase[w] = "starting" => Tail(queue[w]) = <<>>
<1>1. queue[w] \in Seq(Task) /\ queue[w] # <<>> /\ queue[w][1] = t
  BY DEF TypeOK, Holding
<1>2. 1 \in 1..Len(queue[w])
  BY <1>1
<1>3. phase[w] \in Phase
  BY DEF TypeOK
<1>4. CASE phase[w] = "down"
  BY <1>1, <1>4 DEF LifespanInv
<1>5. CASE phase[w] = "starting"
  <2>1. queue[w] = <<"lifespan">>
    BY <1>5 DEF LifespanInv
  <2>2. t = "lifespan" /\ Tail(queue[w]) = <<>>
    BY <1>1, <2>1
  <2> QED BY <1>5, <2>2
<1>6. CASE phase[w] = "serving"
  BY <1>1, <1>2, <1>6 DEF LifespanInv
<1> QED
  BY <1>3, <1>4, <1>5, <1>6 DEF Phase

(* While one task is past the version check, no other one is.              *)
LEMMA OneInside ==
  ASSUME LockInv, NEW w \in Worker, NEW t \in Task, NEW u \in Task,
         Holding(w, t), pc[w][u] \in Inside
  PROVE  u = t
BY DEF LockInv, Holding

(* Leaving reload, with or without a new bundle.                           *)
LEMMA ReturnKeeps ==
  ASSUME IInv, NEW w \in Worker, NEW t \in Task, NEW r \in Result,
         Holding(w, t), Return(w, t, r),
         \/ bundle' = bundle
         \/ /\ r = "loaded"
            /\ pc[w][t] = "install"
            /\ bundle' = [bundle EXCEPT ![w] = load[w][t]]
  PROVE  LockInv' /\ LifespanInv' /\ BundleInv' /\ LoadInv' /\ AliasInv'
<1> USE DEF IInv
<1>1. \A x \in Worker, u \in Task :
        pc'[x][u] \in Inside => x # w /\ pc'[x][u] = pc[x][u] /\ load'[x][u] = load[x][u]
  <2> SUFFICES ASSUME NEW x \in Worker, NEW u \in Task, pc'[x][u] \in Inside
               PROVE  x # w /\ pc'[x][u] = pc[x][u] /\ load'[x][u] = load[x][u]
    OBVIOUS
  <2>1. ASSUME x = w PROVE FALSE
    <3>1. u # t
      BY <2>1 DEF Return, TypeOK, Inside
    <3>2. pc[w][u] \in Inside
      BY <2>1, <3>1 DEF Return, TypeOK
    <3> QED BY <3>1, <3>2, OneInside
  <2> QED BY <2>1 DEF Return, TypeOK
<1>2. \A x \in Worker : x # w => queue'[x] = queue[x] /\ phase'[x] = phase[x]
                                /\ bundle'[x] = bundle[x]
  BY DEF Return, TypeOK
<1>3. queue'[w] = Tail(queue[w]) /\ phase'[w] = AfterReload(w, t, r)
  BY DEF Return, TypeOK
<1>4. aliasLog' = aliasLog /\ Now' = Now
  BY DEF Return, Now
<1>5. \A x \in Worker : bundle'[x] = NoBundle \/ InReadOrder(bundle'[x])
  BY <1>2 DEF TypeOK, BundleInv, LoadInv
<1>6. LockInv'
  BY <1>1, <1>2 DEF LockInv, Holding
<1>7. LifespanInv'
  <2> SUFFICES ASSUME NEW x \in Worker
               PROVE  /\ phase'[x] = "down" => queue'[x] = <<>> /\ bundle'[x] = NoBundle
                      /\ phase'[x] = "starting" =>
                           queue'[x] = <<"lifespan">> /\ bundle'[x] = NoBundle
                      /\ phase'[x] = "serving" =>
                           \A i \in 1..Len(queue'[x]) : queue'[x][i] # "lifespan"
    BY DEF LifespanInv
  <2>1. CASE x # w
    BY <1>2, <2>1 DEF LifespanInv
  <2>2. CASE x = w /\ t = "lifespan"
    <3>1. phase[w] = "starting" /\ bundle[w] = NoBundle /\ queue'[w] = <<>>
      BY <1>3, <2>2, HolderPhase DEF LifespanInv
    <3>2. phase'[w] = IF r = "signature_mismatch" THEN "down" ELSE "serving"
      BY <1>3, <2>2 DEF AfterReload
    <3>3. phase'[w] = "down" => bundle'[w] = NoBundle
      BY <3>1, <3>2
    <3> QED BY <2>2, <3>1, <3>2, <3>3
  <2>3. CASE x = w /\ t # "lifespan"
    <3>1. phase'[w] = "serving" /\ phase[w] = "serving"
      BY <1>3, <2>3, HolderPhase DEF AfterReload
    <3>2. queue[w] \in Seq(Task) /\ queue[w] # <<>>
      BY DEF TypeOK, Holding
    <3>3. \A i \in 1..Len(Tail(queue[w])) :
            i + 1 \in 1..Len(queue[w]) /\ Tail(queue[w])[i] = queue[w][i + 1]
      BY <3>2
    <3>4. \A i \in 1..Len(queue[w]) : queue[w][i] # "lifespan"
      BY <3>1 DEF LifespanInv
    <3>5. \A i \in 1..Len(queue'[w]) : queue'[w][i] # "lifespan"
      BY <1>3, <3>3, <3>4
    <3> QED BY <2>3, <3>1, <3>5
  <2> QED BY <2>1, <2>2, <2>3
<1>8. BundleInv'
  BY <1>4, <1>5 DEF BundleInv, InReadOrder
<1>9. LoadInv'
  BY <1>1, <1>2, <1>4 DEF LoadInv, InReadOrder, Inside
<1>10. AliasInv'
  BY <1>4 DEF AliasInv
<1> QED BY <1>6, <1>7, <1>8, <1>9, <1>10

(* A step of the lock's holder that only moves it on inside reload.        *)
LEMMA MoveOnKeeps ==
  ASSUME IInv, NEW w \in Worker, NEW t \in Task,
         StartLoad(w, t) \/ Resolve(w, t) \/ LoadBooster(w, t) \/ ReadNames(w, t)
  PROVE  LockInv' /\ LifespanInv' /\ BundleInv' /\ LoadInv' /\ AliasInv'
<1> USE DEF IInv
<1>1. /\ UNCHANGED <<aliasLog, phase, bundle, queue>> /\ Now' = Now
      /\ Holding(w, t)
  BY DEF StartLoad, Resolve, LoadBooster, ReadNames, At, Now
<1>2. \A x \in Worker, u \in Task :
        x # w \/ u # t => pc'[x][u] = pc[x][u] /\ load'[x][u] = load[x][u]
  BY DEF StartLoad, Resolve, LoadBooster, ReadNames, TypeOK
<1>3. LockInv'
  BY <1>1, <1>2 DEF LockInv, Holding
<1>4. LifespanInv' /\ AliasInv'
  BY <1>1 DEF LifespanInv, AliasInv
<1>5. BundleInv'
  BY <1>1 DEF BundleInv, InReadOrder
<1>6. LoadInv'
  <2>1. load[w][t] \in Bundle /\ bundle[w] \in Bundle /\ Now \in Nat
        /\ aliasLog \in Seq(Version)
    BY DEF TypeOK, Now
  <2>2. bundle[w].sig <= Now
    BY <2>1 DEF BundleInv, NoBundle, InReadOrder
  <2>3. CASE StartLoad(w, t)
    <3>1. pc'[w][t] = "resolve"
      BY <2>3 DEF StartLoad, TypeOK
    <3> QED BY <1>1, <1>2, <3>1 DEF LoadInv, InReadOrder
  <2>4. CASE Resolve(w, t)
    <3>1. pc'[w][t] = "booster" /\ load'[w][t].label = Now
      BY <2>1, <2>4 DEF Resolve, TypeOK, Bundle
    <3>2. 1 <= Now
      BY <2>1, <2>4 DEF Resolve, HasAlias, Now
    <3> QED BY <1>1, <1>2, <2>1, <2>2, <3>1, <3>2 DEF LoadInv, InReadOrder
  <2>5. CASE LoadBooster(w, t)
    <3>1. /\ pc[w][t] = "booster" /\ pc'[w][t] = "names"
          /\ load'[w][t].label = load[w][t].label /\ load'[w][t].booster = Now
      BY <2>1, <2>5 DEF LoadBooster, At, TypeOK, Bundle
    <3> QED BY <1>1, <1>2, <2>1, <3>1 DEF LoadInv, InReadOrder
  <2>6. CASE ReadNames(w, t)
    <3>1. /\ pc[w][t] = "names" /\ pc'[w][t] = "install"
          /\ load'[w][t].label = load[w][t].label
          /\ load'[w][t].booster = load[w][t].booster
          /\ load'[w][t].sig = Now
      BY <2>1, <2>6 DEF ReadNames, At, TypeOK, Bundle
    <3>2. aliasLog[Now] \in Compatible
      BY <2>6 DEF ReadNames, Champion
    <3> QED BY <1>1, <1>2, <2>1, <3>1, <3>2 DEF LoadInv, InReadOrder
  <2> QED BY <2>3, <2>4, <2>5, <2>6
<1> QED BY <1>3, <1>4, <1>5, <1>6

(* A new promotion: every position of the history keeps its version.       *)
LEMMA PromoteKeeps ==
  ASSUME IInv, NEW v \in Version, Promote(v)
  PROVE  LockInv' /\ LifespanInv' /\ BundleInv' /\ LoadInv' /\ AliasInv'
<1> USE DEF IInv
<1>1. /\ aliasLog \in Seq(Version) /\ aliasLog' = Append(aliasLog, v)
      /\ v \notin Aliased \/ Repoint
      /\ UNCHANGED <<phase, bundle, queue, pc, load>>
  BY DEF Promote, Move, serviceVars, TypeOK
<1>2. /\ Now \in Nat /\ Now' = Now + 1
      /\ \A i \in 1..Now : aliasLog'[i] = aliasLog[i]
      /\ aliasLog'[Now + 1] = v
  BY <1>1 DEF Now
<1>3. \A b \in Bundle : InReadOrder(b) => InReadOrder(b)'
  BY <1>2 DEF InReadOrder, Bundle, Reading
<1>4. LockInv' /\ LifespanInv'
  BY <1>1 DEF LockInv, LifespanInv, Holding
<1>5. BundleInv'
  BY <1>1, <1>3 DEF BundleInv, TypeOK
<1>6. LoadInv'
  <2> SUFFICES ASSUME NEW w \in Worker, NEW t \in Task
               PROVE  /\ pc[w][t] \in {"booster", "names", "install"} =>
                           /\ bundle[w].sig <= load[w][t].label
                           /\ 1 <= load[w][t].label /\ load[w][t].label <= Now'
                      /\ pc[w][t] = "names" =>
                           /\ load[w][t].label <= load[w][t].booster
                           /\ load[w][t].booster <= Now'
                      /\ pc[w][t] = "install" => InReadOrder(load[w][t])'
    BY <1>1 DEF LoadInv
  <2>1. load[w][t] \in Bundle
    BY DEF TypeOK
  <2>2. pc[w][t] = "install" => InReadOrder(load[w][t])'
    BY <1>1, <1>3, <2>1 DEF LoadInv
  <2>3. Now' = Now + 1 /\ Now \in Nat
    BY <1>2
  <2> QED BY <2>1, <2>2, <2>3 DEF LoadInv, Bundle, Reading
<1>7. AliasInv'
  <2> SUFFICES ASSUME ~Repoint, NEW i \in 1..Now', NEW j \in 1..Now',
                      aliasLog'[i] = aliasLog'[j]
               PROVE  i = j
    BY <1>1 DEF AliasInv
  <2>1. \A k \in 1..Now : aliasLog[k] # v
    BY <1>1 DEF Aliased
  <2> QED BY <1>2, <2>1 DEF AliasInv
<1> QED BY <1>4, <1>5, <1>6, <1>7

(* A process starts, ends or hands one more task to the lock's queue.      *)
LEMMA BootKeeps ==
  ASSUME IInv, NEW w \in Worker, Boot(w)
  PROVE  LockInv' /\ LifespanInv' /\ BundleInv' /\ LoadInv' /\ AliasInv'
<1> USE DEF IInv
<1>1. /\ UNCHANGED <<aliasLog, bundle, load>> /\ Now' = Now
      /\ phase[w] = "down" /\ queue[w] = <<>> /\ bundle[w] = NoBundle
  BY DEF Boot, LifespanInv, Now
<1>2. \A x \in Worker : x # w => queue'[x] = queue[x] /\ phase'[x] = phase[x]
                                /\ pc'[x] = pc[x]
  BY DEF Boot, TypeOK
<1>3. phase'[w] = "starting" /\ queue'[w] = <<"lifespan">>
  BY DEF Boot, TypeOK
<1>4. \A u \in Task : pc'[w][u] \notin Inside
  BY <1>1 DEF Boot, TypeOK, LockInv, Holding, Inside
<1>5. LockInv'
  BY <1>2, <1>4 DEF LockInv, Holding
<1>6. LifespanInv'
  BY <1>1, <1>2, <1>3 DEF LifespanInv
<1>7. BundleInv' /\ AliasInv'
  BY <1>1 DEF BundleInv, AliasInv, InReadOrder
<1>8. LoadInv'
  BY <1>1, <1>2, <1>4 DEF LoadInv, InReadOrder, Inside
<1> QED BY <1>5, <1>6, <1>7, <1>8

LEMMA StopKeeps ==
  ASSUME IInv, NEW w \in Worker, Stop(w)
  PROVE  LockInv' /\ LifespanInv' /\ BundleInv' /\ LoadInv' /\ AliasInv'
<1> USE DEF IInv
<1>1. aliasLog' = aliasLog /\ Now' = Now
  BY DEF Stop, Now
<1>2. \A x \in Worker : x # w => /\ queue'[x] = queue[x] /\ phase'[x] = phase[x]
                                /\ pc'[x] = pc[x] /\ load'[x] = load[x]
                                /\ bundle'[x] = bundle[x]
  BY DEF Stop, TypeOK
<1>3. /\ phase'[w] = "down" /\ queue'[w] = <<>> /\ bundle'[w] = NoBundle
      /\ \A u \in Task : pc'[w][u] \notin Inside
  BY DEF Stop, TypeOK, Inside
<1>4. LockInv'
  BY <1>2, <1>3 DEF LockInv, Holding
<1>5. LifespanInv'
  BY <1>2, <1>3 DEF LifespanInv
<1>6. BundleInv' /\ AliasInv'
  BY <1>1, <1>2, <1>3 DEF BundleInv, AliasInv, InReadOrder
<1>7. LoadInv'
  BY <1>1, <1>2, <1>3 DEF LoadInv, InReadOrder, Inside
<1> QED BY <1>4, <1>5, <1>6, <1>7

LEMMA EnterKeeps ==
  ASSUME IInv, NEW w \in Worker, NEW t \in Task, t # "lifespan", Enter(w, t)
  PROVE  LockInv' /\ LifespanInv' /\ BundleInv' /\ LoadInv' /\ AliasInv'
<1> USE DEF IInv
<1>1. /\ UNCHANGED <<aliasLog, phase, bundle, load>> /\ Now' = Now
      /\ phase[w] = "serving" /\ pc[w][t] = "idle"
  BY DEF Enter, Now
<1>2. \A x \in Worker : x # w => queue'[x] = queue[x] /\ pc'[x] = pc[x]
  BY DEF Enter, TypeOK
<1>3. /\ queue[w] \in Seq(Task) /\ queue'[w] = Append(queue[w], t)
      /\ \A u \in Task : pc'[w][u] \in Inside => pc'[w][u] = pc[w][u]
  BY DEF Enter, TypeOK, Inside
<1>4. /\ queue[w] # <<>> => queue'[w] # <<>> /\ Head(queue'[w]) = Head(queue[w])
      /\ \A i \in 1..Len(queue'[w]) :
           IF i = Len(queue[w]) + 1 THEN queue'[w][i] = t
           ELSE i \in 1..Len(queue[w]) /\ queue'[w][i] = queue[w][i]
  BY <1>3
<1>5. LockInv'
  BY <1>2, <1>3, <1>4 DEF LockInv, Holding
<1>6. LifespanInv'
  BY <1>1, <1>2, <1>4 DEF LifespanInv
<1>7. BundleInv' /\ AliasInv'
  BY <1>1 DEF BundleInv, AliasInv, InReadOrder
<1>8. LoadInv'
  BY <1>1, <1>2, <1>3 DEF LoadInv, InReadOrder, Inside
<1> QED BY <1>5, <1>6, <1>7, <1>8

LEMMA NextIInv == IInv /\ [Next]_vars => IInv'
<1> SUFFICES ASSUME IInv, [Next]_vars
             PROVE  LockInv' /\ LifespanInv' /\ BundleInv' /\ LoadInv' /\ AliasInv'
  BY NextType DEF IInv
<1>1. ASSUME NEW v \in Version, Promote(v)
      PROVE  LockInv' /\ LifespanInv' /\ BundleInv' /\ LoadInv' /\ AliasInv'
  BY <1>1, PromoteKeeps
<1>2. ASSUME NEW w \in Worker, Boot(w) \/ Stop(w)
      PROVE  LockInv' /\ LifespanInv' /\ BundleInv' /\ LoadInv' /\ AliasInv'
  BY <1>2, BootKeeps, StopKeeps
<1>3. ASSUME NEW w \in Worker, WatchModel(w) \/ \E h \in Handler : ReloadModel(w, h)
      PROVE  LockInv' /\ LifespanInv' /\ BundleInv' /\ LoadInv' /\ AliasInv'
  BY <1>3, EnterKeeps, HandlerAssumption DEF WatchModel, ReloadModel, Task
<1>4. ASSUME NEW w \in Worker, NEW t \in Task,
             \/ Missing(w, t) \/ Failed(w, t) \/ Unchanged(w, t)
             \/ Mismatch(w, t) \/ Install(w, t)
      PROVE  LockInv' /\ LifespanInv' /\ BundleInv' /\ LoadInv' /\ AliasInv'
  <2>1. PICK r \in Result :
          /\ Holding(w, t) /\ Return(w, t, r)
          /\ \/ bundle' = bundle
             \/ /\ r = "loaded" /\ pc[w][t] = "install"
                /\ bundle' = [bundle EXCEPT ![w] = load[w][t]]
    BY <1>4 DEF Missing, Failed, Unchanged, Mismatch, Install, At, Result
  <2> QED BY <2>1, ReturnKeeps
<1>5. ASSUME NEW w \in Worker, NEW t \in Task,
             StartLoad(w, t) \/ Resolve(w, t) \/ LoadBooster(w, t) \/ ReadNames(w, t)
      PROVE  LockInv' /\ LifespanInv' /\ BundleInv' /\ LoadInv' /\ AliasInv'
  BY <1>5, MoveOnKeeps
<1>6. CASE UNCHANGED vars
  BY <1>6 DEF vars, IInv, LockInv, LifespanInv, BundleInv, LoadInv, AliasInv,
              InReadOrder, Holding, Now
<1> QED
  BY <1>1, <1>2, <1>3, <1>4, <1>5, <1>6 DEF Next, Reload

LEMMA Invariance == Spec => []IInv
BY InitIInv, NextIInv, PTL DEF Spec

-----------------------------------------------------------------------------
(* A worker that reports the champion's version serves the champion, booster *)
(* and signature, whenever the alias moved while the bundle was being read:  *)
(* what lets the watcher compare versions only (state.py:69).                *)
THEOREM CurrentLabelTheorem == Spec => []CurrentLabelIsCurrentModel
<1>1. IInv => CurrentLabelIsCurrentModel
  <2> SUFFICES ASSUME IInv, ~Repoint, NEW w \in Worker, SameVersion(w)
               PROVE  bundle[w].booster = Now /\ bundle[w].sig = Now
    BY DEF CurrentLabelIsCurrentModel
  <2>1. bundle[w] \in Bundle /\ Now \in Nat /\ InReadOrder(bundle[w])
    BY DEF IInv, TypeOK, BundleInv, SameVersion, Now
  <2>2. bundle[w].label \in 1..Now /\ Now \in 1..Now
    BY <2>1 DEF InReadOrder, Bundle, Reading
  <2>3. bundle[w].label = Now
    BY <2>2 DEF SameVersion, Champion, IInv, AliasInv
  <2> QED BY <2>1, <2>3 DEF InReadOrder, Bundle, Reading
<1> QED BY <1>1, Invariance, PTL

-----------------------------------------------------------------------------
(* Refinement of ServedModel.                                              *)

SigOf == [w \in Worker |-> bundle[w].sig]
Serving == {w \in Worker : phase[w] = "serving"}

LEMMA InitServed == Init => Served!ServedInit
BY DEF Init, NoBundle, Served!ServedInit, Served!AliasInit, AliasInit

(* A step that leaves the history, the bundles and who serves alone.       *)
LEMMA Stutter ==
  ASSUME UNCHANGED <<aliasLog, bundle>>,
         \A w \in Worker : phase'[w] = "serving" <=> phase[w] = "serving"
  PROVE  UNCHANGED Served!servedVars
BY DEF Served!servedVars

(* Worker w goes on serving, opens or closes; the others are as they were. *)
LEMMA OnlyWorker ==
  ASSUME TypeOK, NEW w \in Worker, NEW p, NEW b,
         phase' = [phase EXCEPT ![w] = p], bundle' = [bundle EXCEPT ![w] = b]
  PROVE  /\ SigOf' = [SigOf EXCEPT ![w] = b.sig]
         /\ p = "serving" => Serving' = Serving \cup {w}
         /\ p # "serving" => Serving' = Serving \ {w}
BY DEF TypeOK, SigOf, Serving

LEMMA ReturnServed ==
  ASSUME IInv, NEW w \in Worker, NEW t \in Task, NEW r \in Result,
         Holding(w, t), Return(w, t, r), bundle' = bundle
  PROVE  [Served!ServedNext]_Served!servedVars
<1> USE DEF IInv
<1>1. aliasLog' = aliasLog /\ phase' = [phase EXCEPT ![w] = AfterReload(w, t, r)]
  BY DEF Return
<1>2. CASE t # "lifespan" \/ r = "signature_mismatch"
  <2>1. \A x \in Worker : phase'[x] = "serving" <=> phase[x] = "serving"
    BY <1>1, <1>2, HolderPhase DEF AfterReload, TypeOK
  <2> QED BY <1>1, <2>1, Stutter
<1>3. CASE t = "lifespan" /\ r # "signature_mismatch"
  <2>1. phase[w] = "starting" /\ bundle[w] = NoBundle
    BY <1>3, HolderPhase DEF LifespanInv
  <2>2. phase' = [phase EXCEPT ![w] = "serving"]
        /\ bundle' = [bundle EXCEPT ![w] = NoBundle]
    BY <1>1, <1>3, <2>1 DEF AfterReload, TypeOK
  <2>3. /\ w \notin Serving /\ Serving' = Serving \cup {w}
        /\ SigOf' = [SigOf EXCEPT ![w] = 0]
    <3>1. NoBundle.sig = 0
      BY DEF NoBundle
    <3> QED BY <2>1, <2>2, <3>1, OnlyWorker DEF Serving
  <2>4. 0 \in 0..Len(aliasLog)
    BY DEF TypeOK
  <2>5. Served!Open(w)
    BY <1>1, <2>3, <2>4 DEF Served!Open, Served!Now, Serving, SigOf
  <2> QED BY <2>5 DEF Served!ServedNext
<1> QED BY <1>2, <1>3

LEMMA InstallServed ==
  ASSUME IInv, NEW w \in Worker, NEW t \in Task, Install(w, t)
  PROVE  Served!ServedNext
<1> USE DEF IInv
<1> DEFINE i == load[w][t].sig
<1>1. /\ Holding(w, t) /\ pc[w][t] = "install" /\ aliasLog' = aliasLog
      /\ phase' = [phase EXCEPT ![w] = AfterReload(w, t, "loaded")]
      /\ bundle' = [bundle EXCEPT ![w] = load[w][t]]
  BY DEF Install, Return, At
<1>2. /\ load[w][t] \in Bundle /\ bundle[w] \in Bundle /\ Now \in Nat
      /\ bundle[w].sig <= load[w][t].label /\ InReadOrder(load[w][t])
  BY <1>1 DEF TypeOK, LoadInv, Now
<1>3. /\ i \in bundle[w].sig..Len(aliasLog) /\ i \in 0..Len(aliasLog)
      /\ Served!Loadable(i)
  <2>1. /\ i \in Nat /\ load[w][t].label \in Nat /\ load[w][t].booster \in Nat
        /\ bundle[w].sig \in Nat /\ Len(aliasLog) \in Nat
    BY <1>2 DEF Bundle, Reading, Now
  <2>2. 1 <= i /\ bundle[w].sig <= i /\ i <= Len(aliasLog) /\ aliasLog[i] \in Compatible
    BY SMTT(30), <1>2, <2>1 DEF InReadOrder, Now
  <2> QED BY <2>1, <2>2 DEF Served!Loadable, Served!Now
<1>4. phase' = [phase EXCEPT ![w] = "serving"]
  BY <1>1, HolderPhase DEF AfterReload
<1>5. SigOf' = [SigOf EXCEPT ![w] = i] /\ Serving' = Serving \cup {w}
  BY <1>1, <1>4, OnlyWorker
<1>6. CASE phase[w] = "serving"
  <2>1. w \in Serving /\ Serving' = Serving
    BY <1>5, <1>6 DEF Serving
  <2>2. SigOf[w] = bundle[w].sig
    BY DEF SigOf
  <2>3. Served!Swap(w)
    BY <1>1, <1>3, <1>5, <2>1, <2>2 DEF Served!Swap, Served!Now, Serving, SigOf
  <2> QED BY <2>3 DEF Served!ServedNext
<1>7. CASE phase[w] # "serving"
  <2>1. w \notin Serving
    BY <1>7 DEF Serving
  <2>2. Served!Open(w)
    BY <1>1, <1>3, <1>5, <2>1 DEF Served!Open, Served!Now, Serving, SigOf
  <2> QED BY <2>2 DEF Served!ServedNext
<1> QED BY <1>6, <1>7

LEMMA StopServed ==
  ASSUME IInv, NEW w \in Worker, Stop(w)
  PROVE  [Served!ServedNext]_Served!servedVars
<1> USE DEF IInv
<1>1. /\ aliasLog' = aliasLog /\ phase' = [phase EXCEPT ![w] = "down"]
      /\ bundle' = [bundle EXCEPT ![w] = NoBundle]
  BY DEF Stop
<1>2. SigOf' = [SigOf EXCEPT ![w] = 0] /\ Serving' = Serving \ {w}
  <2>1. NoBundle.sig = 0
    BY DEF NoBundle
  <2>2. SigOf' = [SigOf EXCEPT ![w] = NoBundle.sig]
    BY <1>1, OnlyWorker
  <2>3. Serving' = Serving \ {w}
    BY <1>1 DEF Serving, TypeOK
  <2> QED BY <2>1, <2>2, <2>3
<1>3. CASE phase[w] = "serving"
  <2>1. w \in Serving
    BY <1>3 DEF Serving
  <2>2. Served!Close(w)
    BY <1>1, <1>2, <2>1 DEF Served!Close, Serving, SigOf
  <2> QED BY <2>2 DEF Served!ServedNext
<1>4. CASE phase[w] # "serving"
  <2>1. phase[w] = "starting"
    BY <1>4 DEF Stop, TypeOK, Phase
  <2>2. bundle' = bundle
    BY <1>1, <2>1 DEF LifespanInv, TypeOK
  <2>3. \A x \in Worker : phase'[x] = "serving" <=> phase[x] = "serving"
    BY <1>1, <1>4 DEF TypeOK
  <2> QED BY <1>1, <2>2, <2>3, Stutter
<1> QED BY <1>3, <1>4

LEMMA NextServed ==
  IInv /\ [Next]_vars => [Served!ServedNext]_Served!servedVars
<1> SUFFICES ASSUME IInv, [Next]_vars
             PROVE  [Served!ServedNext]_Served!servedVars
  OBVIOUS
<1>1. ASSUME NEW v \in Version, Promote(v) PROVE Served!ServedNext
  <2>1. Served!Move(v)
    BY <1>1 DEF Promote, Move, Served!Move, Now, Served!Now, Aliased, Served!Aliased,
                HasAlias, Served!HasAlias, Champion, Served!Champion
  <2> QED
    BY <1>1, <2>1 DEF Promote, serviceVars, Served!Repromote, Served!ServedNext
<1>2. ASSUME NEW w \in Worker, Boot(w) PROVE UNCHANGED Served!servedVars
  BY <1>2, Stutter DEF Boot, IInv, TypeOK
<1>3. ASSUME NEW w \in Worker, NEW t \in Task, Enter(w, t)
      PROVE  UNCHANGED Served!servedVars
  BY <1>3, Stutter DEF Enter
<1>4. ASSUME NEW w \in Worker, NEW t \in Task,
             Missing(w, t) \/ Failed(w, t) \/ Unchanged(w, t) \/ Mismatch(w, t)
      PROVE  [Served!ServedNext]_Served!servedVars
  <2>1. PICK r \in Result : Holding(w, t) /\ Return(w, t, r) /\ bundle' = bundle
    BY <1>4 DEF Missing, Failed, Unchanged, Mismatch, At, Result
  <2> QED BY <2>1, ReturnServed
<1>5. ASSUME NEW w \in Worker, NEW t \in Task,
             StartLoad(w, t) \/ Resolve(w, t) \/ LoadBooster(w, t) \/ ReadNames(w, t)
      PROVE  UNCHANGED Served!servedVars
  BY <1>5, Stutter DEF StartLoad, Resolve, LoadBooster, ReadNames
<1>6. CASE UNCHANGED vars
  BY <1>6, Stutter DEF vars
<1> QED
  BY <1>1, <1>2, <1>3, <1>4, <1>5, <1>6, StopServed, InstallServed
     DEF Next, Reload, WatchModel, ReloadModel, Task

(* What the header of state.py promises, for any interleaving of promotions, *)
(* reloads, failures, starts and stops: every step of the service is a step  *)
(* of ServedModel or changes nothing a client can see.                       *)
THEOREM ServedModelTheorem == Spec => ImplementsServedModel
BY InitServed, NextServed, Invariance, PTL
   DEF Spec, ImplementsServedModel, Served!ServedSpec

-------------------------------------------------------------------------------
(* A process that keeps a model goes on with the same reading or a later   *)
(* one: what a load has read is never older than what it replaces.         *)
LEMMA BoosterRises ==
  ASSUME IInv, [Next]_vars, NEW w \in Worker, bundle[w] # NoBundle, bundle'[w] # NoBundle
  PROVE  /\ bundle[w].booster \in 1..Now /\ bundle'[w].booster \in 1..Now'
         /\ bundle[w].booster <= bundle'[w].booster
<1>1. /\ bundle \in [Worker -> Bundle] /\ bundle' \in [Worker -> Bundle]
      /\ load \in [Worker -> [Task -> Bundle]] /\ pc \in [Worker -> [Task -> Step]]
      /\ Now \in Nat /\ Now' \in Nat
  BY NextType DEF IInv, TypeOK, Now
<1>2. IInv'
  BY NextIInv
<1>3. InReadOrder(bundle[w]) /\ InReadOrder(bundle[w])'
  BY <1>2 DEF IInv, BundleInv
<1>4. ASSUME NEW b \in Bundle
      PROVE  b.label \in Nat /\ b.booster \in Nat /\ b.sig \in Nat
  BY DEF Bundle, Reading
<1>5. bundle[w].booster \in 1..Now /\ bundle'[w].booster \in 1..Now'
  BY <1>1, <1>3, <1>4 DEF InReadOrder
<1>6. bundle'[w] = bundle[w] \/ \E t \in Task : Install(w, t)
  <2>1. CASE \E x \in Worker : Stop(x)
    BY <1>1, <2>1 DEF Stop
  <2>2. CASE \E x \in Worker, t \in Task : Install(x, t)
    <3>1. PICK x \in Worker, t \in Task : Install(x, t)
      BY <2>2
    <3> QED BY <1>1, <3>1 DEF Install
  <2>3. CASE UNCHANGED bundle
    BY <2>3
  <2>4. \/ \E x \in Worker : Stop(x)
        \/ \E x \in Worker, t \in Task : Install(x, t)
        \/ UNCHANGED bundle
    <3>1. ASSUME NEW x \in Worker, NEW t \in Task, Reload(x, t)
          PROVE  Install(x, t) \/ UNCHANGED bundle
      BY <3>1
         DEF Reload, Missing, Failed, Unchanged, StartLoad, Resolve, LoadBooster, ReadNames,
             Mismatch
    <3>2. ASSUME NEW x \in Worker,
                 Boot(x) \/ WatchModel(x) \/ \E h \in Handler : ReloadModel(x, h)
          PROVE  UNCHANGED bundle
      BY <3>2 DEF Boot, WatchModel, ReloadModel, Enter
    <3>3. ASSUME NEW v \in Version, Promote(v) PROVE UNCHANGED bundle
      BY <3>3 DEF Promote, serviceVars
    <3>4. UNCHANGED vars => UNCHANGED bundle
      BY DEF vars
    <3> QED BY <3>1, <3>2, <3>3, <3>4, Zenon DEF Next
  <2> QED BY <2>1, <2>2, <2>3, <2>4
<1>7. ASSUME NEW t \in Task, Install(w, t)
      PROVE  bundle[w].booster <= bundle'[w].booster
  <2>1. bundle'[w] = load[w][t] /\ pc[w][t] = "install"
    BY <1>1, <1>7 DEF Install, At
  <2>2. bundle[w].sig <= load[w][t].label /\ InReadOrder(load[w][t])
    BY <2>1 DEF IInv, LoadInv
  <2>3. load[w][t] \in Bundle
    BY <1>1
  <2> QED BY <1>1, <1>3, <1>4, <2>1, <2>2, <2>3 DEF InReadOrder
<1>8. CASE bundle'[w] = bundle[w]
  BY <1>1, <1>4, <1>5, <1>8
<1> QED BY <1>5, <1>6, <1>7, <1>8
=============================================================================
