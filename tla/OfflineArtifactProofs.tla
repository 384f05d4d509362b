------------------------- MODULE OfflineArtifactProofs -------------------------
(***************************************************************************)
(* Machine-checked proofs about OfflineArtifact, for every number of keys, *)
(* TTL, cadence, length of a run and number of missed runs, and for each   *)
(* kind of artifact that the property is true of.                          *)
(***************************************************************************)
EXTENDS OfflineArtifact, SequenceTheorems, TLAPS

USE KindAssumption, TimeAssumption

-------------------------------------------------------------------------------
(* What a run has Redis carry out.                                         *)

LEMMA FoundKeys ==
  ASSUME NEW ks \in Found
  PROVE  \E n \in Nat \ {0} : ks \in [1..n -> Key]
<1>1. CASE ks \in TrendingList
  <2>1. ks \in [1..1 -> Key]
    BY <1>1 DEF TrendingList, Key
  <2> QED BY <2>1
<1>2. CASE ks \in Orders
  BY <1>2 DEF Orders, Key
<1>3. Found = IF Kind = "trending" THEN TrendingList ELSE Orders
  BY DEF Found, AlsLists, FeatureRows, Centroids
<1> QED BY <1>1, <1>2, <1>3

LEMMA CommandsShape ==
  ASSUME NEW ks \in Found
  PROVE  LET c == Commands(ks) IN
         /\ c \in Seq(Command) /\ c # <<>>
         /\ \A i \in DOMAIN c :
              IF Kind # "als" THEN c[i].op = "set"
              ELSE /\ c[i].op # "set"
                   /\ c[i].op = "rpush" =>
                        i < Len(c) /\ c[i + 1] = [op |-> "expire", key |-> c[i].key]
                   /\ c[i].op = "del" =>
                        i < Len(c) /\ c[i + 1] = [op |-> "rpush", key |-> c[i].key]
                   /\ c[i].op = "expire" /\ i # 1 => c[i - 1].op = "rpush"
         /\ Kind = "als" => c[1].op = "del"
<1>1. PICK n \in Nat \ {0} : ks \in [1..n -> Key]
  BY FoundKeys
<1>2. Len(ks) = n
  BY <1>1
<1> DEFINE c == Commands(ks)
<1>3. CASE Kind # "als"
  <2>1. c = [i \in 1..n |-> [op |-> "set", key |-> ks[i]]]
    BY <1>2, <1>3 DEF Commands
  <2>2. c \in [1..n -> Command]
    BY <1>1, <2>1 DEF Command
  <2>3. c \in Seq(Command) /\ Len(c) = n /\ DOMAIN c = 1..n
    BY <2>2
  <2> QED BY SMTT(30), <1>3, <2>1, <2>3
<1>4. CASE Kind = "als"
  <2> DEFINE Op(i) == <<"del", "rpush", "expire">>[1 + ((i - 1) % 3)]
             At(i) == 1 + ((i - 1) \div 3)
  <2>1. c = [i \in 1..3 * n |-> [op |-> Op(i), key |-> ks[At(i)]]]
    BY <1>2, <1>4 DEF Commands
  <2>2. \A i \in 1..3 * n : At(i) \in 1..n
    OBVIOUS
  <2>3. \A i \in 1..3 * n : /\ Op(i) \in {"del", "rpush", "expire"}
                            /\ Op(i) = "del" <=> (i - 1) % 3 = 0
                            /\ Op(i) = "rpush" <=> (i - 1) % 3 = 1
                            /\ Op(i) = "expire" <=> (i - 1) % 3 = 2
    OBVIOUS
  <2>4. \A i \in 1..3 * n : (i - 1) % 3 = 1 => /\ i < 3 * n /\ i + 1 \in 1..3 * n
                                               /\ ((i + 1) - 1) % 3 = 2
                                               /\ At(i + 1) = At(i)
    OBVIOUS
  <2>12. \A i \in 1..3 * n : (i - 1) % 3 = 0 => /\ i < 3 * n /\ i + 1 \in 1..3 * n
                                                /\ ((i + 1) - 1) % 3 = 1
                                                /\ At(i + 1) = At(i)
    OBVIOUS
  <2>10. \A i \in 1..3 * n : (i - 1) % 3 = 2 /\ i # 1 =>
                                i - 1 \in 1..3 * n /\ ((i - 1) - 1) % 3 = 1
    OBVIOUS
  <2> HIDE DEF Op, At
  <2>5. c \in [1..3 * n -> Command]
    BY <1>1, <2>1, <2>2, <2>3 DEF Command
  <2>6. c \in Seq(Command) /\ Len(c) = 3 * n /\ DOMAIN c = 1..3 * n
    BY <2>5
  <2>7. \A i \in 1..3 * n : /\ c[i].op = Op(i) /\ c[i].key = ks[At(i)]
                            /\ c[i] = [op |-> Op(i), key |-> ks[At(i)]]
    BY <2>1
  <2>8. \A i \in DOMAIN c : /\ c[i].op # "set"
                            /\ c[i].op = "rpush" =>
                                 i < Len(c) /\ c[i + 1] = [op |-> "expire", key |-> c[i].key]
    BY <2>3, <2>4, <2>6, <2>7
  <2>11. \A i \in DOMAIN c : c[i].op = "expire" /\ i # 1 => c[i - 1].op = "rpush"
    <3> SUFFICES ASSUME NEW i \in 1..3 * n, Op(i) = "expire", i # 1
                 PROVE  c[i - 1].op = "rpush"
      BY <2>6, <2>7
    <3>1. i - 1 \in 1..3 * n /\ ((i - 1) - 1) % 3 = 1
      BY <2>3, <2>10
    <3>2. Op(i - 1) = "rpush"
      BY <2>3, <3>1
    <3> QED BY <2>7, <3>1, <3>2
  <2>13. \A i \in DOMAIN c :
           c[i].op = "del" => i < Len(c) /\ c[i + 1] = [op |-> "rpush", key |-> c[i].key]
    BY <2>3, <2>6, <2>7, <2>12
  <2>9. c # <<>> /\ c[1].op = "del"
    BY <2>3, <2>6, <2>7
  <2> QED BY <1>4, <2>6, <2>8, <2>9, <2>11, <2>13
<1> QED BY <1>3, <1>4

-------------------------------------------------------------------------------
(* Type correctness.                                                       *)

LEMMA OlderType ==
  /\ \A a \in Age : Older(a) \in Age
  /\ \A a \in Age \cup {None} : Older(a) \in Age \cup {None} /\ (Older(a) = None <=> a = None)
BY DEF Older, Age, Old, None

LEMMA SpentIsAge == \A n \in 0..MaxRun : n \in Age /\ n # None
BY DEF Age, Old, None

LEMMA MishapType ==
  ASSUME TypeOK, NEW what, Mishap(what) PROVE missed' \in 0..MaxMissed
BY DEF TypeOK, Mishap

LEMMA SetType ==
  ASSUME TypeOK, NEW k \in Key, NEW a \in Age \cup {None}, NEW n \in 0..Ttl,
         n # 0 => a # None, Set(k, a, n)
  PROVE  /\ age' \in [Key -> Age \cup {None}] /\ left' \in [Key -> 0..Ttl]
         /\ \A q \in Key : left'[q] # 0 => age'[q] # None
BY DEF TypeOK, Set

LEMMA ExecuteCases ==
  ASSUME TypeOK, Execute
  PROVE  \E k \in Key :
           /\ pipe # <<>> /\ Head(pipe).key = k /\ Head(pipe) \in Command
           /\ Tail(pipe) \in Seq(Command)
           /\ \/ Head(pipe).op = "set"    /\ Set(k, spent, Expiry)
              \/ Head(pipe).op = "del"    /\ Set(k, None, 0)
              \/ Head(pipe).op = "rpush"  /\ Set(k, spent, left[k])
              \/ Head(pipe).op = "expire" /\ Set(k, age[k], IF Present(k) THEN Ttl ELSE 0)
<1>1. Head(pipe) \in Command /\ Tail(pipe) \in Seq(Command)
  BY DEF TypeOK, Execute
<1> QED BY <1>1 DEF Execute, Command

LEMMA NextType == TypeOK /\ [Next]_vars => TypeOK'
<1> SUFFICES ASSUME TypeOK, [Next]_vars PROVE TypeOK'
  OBVIOUS
<1> USE DEF redis, service, run
<1>1. CASE Tick
  <2>1. age' \in [Key -> Age \cup {None}] /\ stamp' \in Age \cup {None}
    BY <1>1, OlderType DEF Tick, TypeOK
  <2>2. left' \in [Key -> 0..Ttl]
    BY <1>1 DEF Tick, TypeOK
  <2>3. \A k \in Key : left'[k] # 0 => age'[k] # None
    BY <1>1, OlderType DEF Tick, TypeOK, Expires
  <2>4. timer' \in 0..Cadence /\ spent' \in 0..MaxRun
    BY <1>1 DEF Tick, TypeOK
  <2> QED BY <1>1, <2>1, <2>2, <2>3, <2>4 DEF Tick, TypeOK
<1>2. CASE WatchFreshness \/ WatchFails
  BY <1>2 DEF WatchFreshness, WatchFails, TypeOK
<1>3. CASE Start
  <2>1. pc' \in {"idle", "query", "write", "stamp"} /\ spent' \in 0..MaxRun
    BY <1>3 DEF Start
  <2>2. timer' \in 0..Cadence
    BY <1>3 DEF Start
  <2>3. touched' \in BOOLEAN
    BY <1>3 DEF Start
  <2>4. UNCHANGED <<age, left, stamp, gauge, watched, pipe, exit, missed>>
    BY <1>3 DEF Start
  <2> QED BY <2>1, <2>2, <2>3, <2>4 DEF TypeOK
<1>10. CASE Skip
  BY <1>10, MishapType DEF Skip, TypeOK
<1>4. CASE QueryFails \/ NothingToDo \/ NothingRecommended \/ RedisFails \/ Kill
  <2>1. missed' \in 0..MaxMissed
    BY <1>4, MishapType DEF QueryFails, NothingToDo, NothingRecommended, RedisFails, Kill
  <2>2. /\ pc' = "idle" /\ spent' = 0 /\ pipe' = <<>> /\ exit' \in {-1, 0, 1, 2}
        /\ UNCHANGED <<age, left, stamp, gauge, watched, timer, touched>>
    BY <1>4 DEF QueryFails, NothingToDo, NothingRecommended, RedisFails, Kill, End
  <2> QED BY <2>1, <2>2 DEF TypeOK
<1>5. CASE Answer
  BY <1>5, CommandsShape DEF Answer, TypeOK
<1>6. CASE Execute
  <2>1. PICK k \in Key :
          /\ Tail(pipe) \in Seq(Command)
          /\ \/ Set(k, spent, Expiry) \/ Set(k, None, 0) \/ Set(k, spent, left[k])
             \/ Set(k, age[k], IF Present(k) THEN Ttl ELSE 0)
    BY <1>6, ExecuteCases
  <2>2. spent \in Age \cup {None} /\ spent # None /\ None \in Age \cup {None}
    BY SpentIsAge DEF TypeOK
  <2>3. age[k] \in Age \cup {None} /\ left[k] \in 0..Ttl /\ Expiry \in 0..Ttl
    BY DEF TypeOK, Expiry
  <2>4. (IF Present(k) THEN Ttl ELSE 0) \in 0..Ttl /\ 0 \in 0..Ttl
    OBVIOUS
  <2>5. /\ age' \in [Key -> Age \cup {None}] /\ left' \in [Key -> 0..Ttl]
        /\ \A q \in Key : left'[q] # 0 => age'[q] # None
    <3>1. CASE Set(k, spent, Expiry)
      BY <2>2, <2>3, <3>1, SetType
    <3>2. CASE Set(k, None, 0)
      BY <2>2, <2>4, <3>2, SetType
    <3>3. CASE Set(k, spent, left[k])
      BY <2>2, <2>3, <3>3, SetType
    <3>4. CASE Set(k, age[k], IF Present(k) THEN Ttl ELSE 0)
      BY <2>3, <2>4, <3>4, SetType DEF Present
    <3> QED BY <2>1, <3>1, <3>2, <3>3, <3>4
  <2> QED BY <1>6, <2>1, <2>5 DEF Execute, TypeOK
<1>7. CASE Written
  BY <1>7 DEF Written, TypeOK
<1>8. CASE MarkFresh
  BY <1>8 DEF MarkFresh, End, TypeOK, Age, Old
<1>9. CASE UNCHANGED vars
  BY <1>9 DEF vars, TypeOK
<1> QED BY <1>1, <1>2, <1>3, <1>4, <1>5, <1>6, <1>7, <1>8, <1>9, <1>10 DEF Next

LEMMA InitType == Init => TypeOK
<1> SUFFICES ASSUME Init PROVE TypeOK
  OBVIOUS
<1>1. age \in [Key -> Age \cup {None}] /\ left \in [Key -> 0..Ttl]
  BY DEF Init
<1>2. \A k \in Key : left[k] # 0 => age[k] # None
  BY DEF Init
<1>3. watched \in BOOLEAN /\ touched \in BOOLEAN
  BY DEF Init
<1> QED BY <1>1, <1>2, <1>3 DEF Init, TypeOK

(* Ages saturate, TTLs count down to nothing, and a pipeline is made of    *)
(* commands on keys there are, whatever is missed or cut off.              *)
THEOREM TypeCorrect == Spec => []TypeOK
BY InitType, NextType, PTL DEF Spec

-------------------------------------------------------------------------------
(* The pipeline of a run.                                                  *)

(* The commands of an ALS list stay together and in their order.           *)
LEMMA PipeOrder ==
  ASSUME PipeInv, NEW i \in DOMAIN pipe
  PROVE  /\ pipe[i].op = "del" =>
              Kind = "als" /\ i < Len(pipe) /\ pipe[i + 1] = [op |-> "rpush", key |-> pipe[i].key]
         /\ pipe[i].op = "expire" /\ i # 1 => pipe[i - 1].op = "rpush"
<1>1. IF Kind # "als" THEN pipe[i].op = "set"
      ELSE /\ pipe[i].op = "del" =>
                i < Len(pipe) /\ pipe[i + 1] = [op |-> "rpush", key |-> pipe[i].key]
           /\ pipe[i].op = "expire" /\ i # 1 => pipe[i - 1].op = "rpush"
  BY Zenon DEF PipeInv
<1> QED BY <1>1

LEMMA TailOfPipe ==
  ASSUME TypeOK, pipe # <<>>
  PROVE  /\ Len(pipe) \in Nat \ {0} /\ Len(Tail(pipe)) = Len(pipe) - 1
         /\ DOMAIN Tail(pipe) = 1..Len(pipe) - 1
         /\ Head(pipe) = pipe[1]
         /\ \A i \in 1..Len(pipe) - 1 : Tail(pipe)[i] = pipe[i + 1]
         /\ DOMAIN pipe = 1..Len(pipe)
         /\ Head(pipe).key \in Key
         /\ Len(pipe) # 1 => Tail(pipe) # <<>> /\ Head(Tail(pipe)) = pipe[2]
         /\ Len(pipe) = 1 => Tail(pipe) = <<>>
<1>1. Head(pipe) \in Command
  BY DEF TypeOK
<1>2. Head(pipe).key \in Key
  BY <1>1 DEF Command
<1>3. Tail(pipe) \in Seq(Command) /\ Len(Tail(pipe)) = Len(pipe) - 1 /\ Len(pipe) \in Nat \ {0}
  BY DEF TypeOK
<1>4. Len(pipe) # 1 => Tail(pipe) # <<>> /\ Head(Tail(pipe)) = Tail(pipe)[1]
  <2>1. Len(<<>>) = 0
    OBVIOUS
  <2>2. Len(pipe) # 1 => Tail(pipe) # <<>>
    BY <1>3, <2>1
  <2> QED BY <2>2
<1>5. Len(pipe) = 1 => Tail(pipe) = <<>>
  <2> DEFINE t == Tail(pipe)
  <2>1. t \in Seq(Command) /\ (Len(pipe) = 1 => Len(t) = 0)
    BY <1>3
  <2> HIDE DEF t
  <2>2. t # <<>> => Len(t) # 0
    BY <2>1, EmptySeq
  <2> QED BY <2>1, <2>2 DEF t
<1> QED BY SMTT(30), <1>2, <1>3, <1>4, <1>5 DEF TypeOK

(* The steps after which there is no pipeline: a run has not got that far, *)
(* or it is over.                                                          *)
LEMMA PipeStep == TypeOK /\ PipeInv /\ [Next]_vars => PipeInv'
<1> SUFFICES ASSUME TypeOK, PipeInv, [Next]_vars PROVE PipeInv'
  OBVIOUS
<1> USE DEF redis, service, run
<1>1. CASE Tick \/ WatchFreshness \/ WatchFails \/ Skip \/ UNCHANGED vars
  <2>1. UNCHANGED <<pc, pipe, touched>>
    BY <1>1 DEF Tick, WatchFreshness, WatchFails, Skip, vars
  <2> QED BY <2>1 DEF PipeInv
<1>2. CASE \/ Start \/ QueryFails \/ NothingToDo \/ NothingRecommended \/ RedisFails \/ Kill
           \/ MarkFresh \/ Written
  <2>1. pipe' = <<>>
    BY <1>2
       DEF Start, QueryFails, NothingToDo, NothingRecommended, RedisFails, Kill, End, MarkFresh,
           Written, PipeInv
  <2>2. pc' # "write" /\ (pc' = "query" => ~touched')
    BY <1>2
       DEF Start, QueryFails, NothingToDo, NothingRecommended, RedisFails, Kill, End, MarkFresh,
           Written
  <2> QED BY <2>1, <2>2 DEF PipeInv
<1>3. CASE Answer
  <2>1. PICK ks \in Found : pipe' = Commands(ks)
    BY <1>3 DEF Answer
  <2>2. pc' = "write"
    BY <1>3 DEF Answer
  <2> DEFINE c == Commands(ks)
  <2>3. /\ c # <<>>
        /\ \A i \in DOMAIN c :
             IF Kind # "als" THEN c[i].op = "set"
             ELSE /\ c[i].op # "set"
                  /\ c[i].op = "rpush" =>
                       i < Len(c) /\ c[i + 1] = [op |-> "expire", key |-> c[i].key]
                  /\ c[i].op = "del" =>
                       i < Len(c) /\ c[i + 1] = [op |-> "rpush", key |-> c[i].key]
                  /\ c[i].op = "expire" /\ i # 1 => c[i - 1].op = "rpush"
    BY CommandsShape, Zenon
  <2>4. pipe' = c
    BY <2>1
  <2> HIDE DEF c
  <2> QED BY <2>2, <2>3, <2>4, Zenon DEF PipeInv
<1>4. CASE Execute
  <2>1. pipe # <<>> /\ pipe' = Tail(pipe) /\ touched' = TRUE /\ pc' = pc /\ pc = "write"
    BY <1>4 DEF Execute
  <2>3. /\ Len(pipe') = Len(pipe) - 1 /\ DOMAIN pipe' = 1..Len(pipe) - 1
        /\ Len(pipe) \in Nat
        /\ \A i \in 1..Len(pipe) - 1 :
             /\ pipe'[i] = pipe[i + 1]
             /\ i < Len(pipe) - 1 => pipe'[i + 1] = pipe[i + 2]
             /\ i # 1 => pipe'[i - 1] = pipe[i]
    <3>1. /\ Len(pipe') = Len(pipe) - 1 /\ DOMAIN pipe' = 1..Len(pipe) - 1
          /\ Len(pipe) \in Nat /\ \A i \in 1..Len(pipe) - 1 : pipe'[i] = pipe[i + 1]
      BY <2>1, TailOfPipe
    <3>2. ASSUME NEW i \in 1..Len(pipe) - 1, i < Len(pipe) - 1 PROVE pipe'[i + 1] = pipe[i + 2]
      <4>1. i + 1 \in 1..Len(pipe) - 1 /\ (i + 1) + 1 = i + 2
        BY <3>1, <3>2
      <4> QED BY <3>1, <4>1
    <3>3. ASSUME NEW i \in 1..Len(pipe) - 1, i # 1 PROVE pipe'[i - 1] = pipe[i]
      <4>1. i - 1 \in 1..Len(pipe) - 1 /\ (i - 1) + 1 = i
        BY <3>1, <3>3
      <4> QED BY <3>1, <4>1
    <3> QED BY <3>1, <3>2, <3>3
  <2>2. \A i \in DOMAIN pipe' :
          IF Kind # "als" THEN pipe'[i].op = "set"
          ELSE /\ pipe'[i].op # "set"
               /\ pipe'[i].op = "rpush" =>
                    i < Len(pipe') /\ pipe'[i + 1] = [op |-> "expire", key |-> pipe'[i].key]
               /\ pipe'[i].op = "del" =>
                    i < Len(pipe') /\ pipe'[i + 1] = [op |-> "rpush", key |-> pipe'[i].key]
               /\ pipe'[i].op = "expire" /\ i # 1 => pipe'[i - 1].op = "rpush"
    <3> SUFFICES ASSUME NEW i \in 1..Len(pipe) - 1
                 PROVE  IF Kind # "als" THEN pipe[i + 1].op = "set"
                        ELSE /\ pipe[i + 1].op # "set"
                             /\ pipe[i + 1].op = "rpush" =>
                                  /\ i < Len(pipe) - 1
                                  /\ pipe[i + 2] = [op |-> "expire", key |-> pipe[i + 1].key]
                             /\ pipe[i + 1].op = "del" =>
                                  /\ i < Len(pipe) - 1
                                  /\ pipe[i + 2] = [op |-> "rpush", key |-> pipe[i + 1].key]
                             /\ pipe[i + 1].op = "expire" => pipe[i].op = "rpush"
      BY SMTT(30), <2>3
    <3> DEFINE j == i + 1
    <3>1. j \in DOMAIN pipe /\ j + 1 = i + 2 /\ j - 1 = i /\ j # 1
      BY <2>1, TailOfPipe
    <3>2. IF Kind # "als" THEN pipe[j].op = "set"
          ELSE /\ pipe[j].op # "set"
               /\ pipe[j].op = "rpush" =>
                    j < Len(pipe) /\ pipe[j + 1] = [op |-> "expire", key |-> pipe[j].key]
               /\ pipe[j].op = "del" =>
                    j < Len(pipe) /\ pipe[j + 1] = [op |-> "rpush", key |-> pipe[j].key]
               /\ pipe[j].op = "expire" /\ j # 1 => pipe[j - 1].op = "rpush"
      BY <3>1 DEF PipeInv
    <3>3. i \in Int /\ Len(pipe) \in Int
      BY <2>1, TailOfPipe
    <3> QED BY <3>1, <3>2, <3>3
  <2> QED BY <2>1, <2>2 DEF PipeInv
<1> QED BY <1>1, <1>2, <1>3, <1>4 DEF Next

LEMMA PipeAlways == Spec => [](TypeOK /\ PipeInv)
<1>1. Init => PipeInv
  BY DEF Init, PipeInv
<1> QED BY <1>1, InitType, NextType, PipeStep, PTL DEF Spec

(* What an artifact that is not a set of ALS lists loses, it loses to its  *)
(* TTL: one transaction, or one SET, leaves no moment without a value      *)
(* (redis_store.py:138).                                                   *)
THEOREM OnlyExpiryRemovesTheorem ==
  ASSUME Kind # "als" PROVE Spec => OnlyExpiryRemoves
<1>1. ASSUME TypeOK, PipeInv, Next, NEW k \in Key, Present(k), ~Present(k)'
      PROVE  Expires(k)
  <2> USE DEF redis, service, run
  <2>1. CASE Tick
    BY <1>1, <2>1, OlderType DEF Tick, Present, TypeOK
  <2>2. CASE Execute
    <3>1. PICK q \in Key : \/ Head(pipe).op = "set" /\ Set(q, spent, Expiry)
                           \/ Head(pipe).op # "set"
      BY <1>1, <2>2, ExecuteCases
    <3>2. Head(pipe).op = "set"
      BY <1>1, <2>2, TailOfPipe DEF PipeInv, Execute
    <3>3. age' = [age EXCEPT ![q] = spent]
      BY <3>1, <3>2 DEF Set
    <3> QED BY <1>1, <3>3, SpentIsAge DEF Present, TypeOK
  <2>3. CASE ~Tick /\ ~Execute
    <3>1. age' = age
      BY <1>1, <2>3
         DEF Next, WatchFreshness, WatchFails, Start, Skip, QueryFails, NothingToDo,
             NothingRecommended, Answer, Written, MarkFresh, RedisFails, Kill
    <3> QED BY <1>1, <3>1 DEF Present
  <2> QED BY <2>1, <2>2, <2>3
<1>2. TypeOK /\ PipeInv /\ [Next]_vars =>
        [\A k \in Key : Present(k) /\ ~Present(k)' => Expires(k)]_vars
  BY <1>1 DEF vars, Present
<1> QED BY <1>2, PipeAlways, PTL DEF OnlyExpiryRemoves, Spec

(* Of an ALS list that its job rewrites, a reader misses at most the two   *)
(* commands in the middle: what DEL takes away the next command brings     *)
(* back (redis_store.py:173-175).  For the other artifacts there is no gap *)
(* at all.                                                                 *)
THEOREM OneGapTheorem == Spec => OneGapAtATime
<1>1. ASSUME TypeOK, PipeInv, Next, NEW k \in Key, Present(k), ~Present(k)'
      PROVE  Expires(k) \/ (pipe' # <<>> /\ Head(pipe') = [op |-> "rpush", key |-> k])
  <2> USE DEF redis, service, run
  <2>1. CASE Tick
    BY <1>1, <2>1, OlderType DEF Tick, Present, TypeOK
  <2>2. CASE Execute
    <3>1. PICK q \in Key : /\ pipe # <<>> /\ Head(pipe).key = q
                          /\ \/ Head(pipe).op = "del" /\ Set(q, None, 0)
                             \/ Head(pipe).op # "del" /\ age' = [age EXCEPT ![q] = spent]
                             \/ Head(pipe).op # "del" /\ age' = [age EXCEPT ![q] = age[q]]
      BY <1>1, <2>2, ExecuteCases DEF Set
    <3>2. Head(pipe).op = "del" /\ q = k
      BY <1>1, <3>1, SpentIsAge DEF Present, TypeOK, Set
    <3>3. pipe' = Tail(pipe)
      BY <2>2 DEF Execute
    <3>4. Kind = "als" /\ 1 < Len(pipe) /\ pipe[2] = [op |-> "rpush", key |-> k]
      <4>1. 1 \in DOMAIN pipe /\ pipe[1] = Head(pipe) /\ 1 + 1 = 2
        BY <1>1, <3>1, TailOfPipe
      <4> QED BY <1>1, <3>1, <3>2, <4>1, PipeOrder
    <3>5. pipe' # <<>> /\ Head(pipe') = pipe[2]
      <4>1. Len(pipe) # 1
        BY <3>4
      <4> QED BY <1>1, <3>1, <3>3, <4>1, TailOfPipe
    <3> QED BY <3>4, <3>5
  <2>3. CASE ~Tick /\ ~Execute
    <3>1. age' = age
      BY <1>1, <2>3
         DEF Next, WatchFreshness, WatchFails, Start, Skip, QueryFails, NothingToDo,
             NothingRecommended, Answer, Written, MarkFresh, RedisFails, Kill
    <3> QED BY <1>1, <3>1 DEF Present
  <2> QED BY <2>1, <2>2, <2>3
<1>2. TypeOK /\ PipeInv /\ [Next]_vars =>
        [\A k \in Key : Present(k) /\ ~Present(k)' =>
           Expires(k) \/ (pipe' # <<>> /\ Head(pipe') = [op |-> "rpush", key |-> k])]_vars
  BY <1>1 DEF vars, Present
<1> QED BY <1>2, PipeAlways, PTL DEF OneGapAtATime, Spec

-------------------------------------------------------------------------------
(* Nothing old is served.                                                  *)

(* The constants under which it expires: the artifact has a TTL, ages are  *)
(* told apart for as long as it and a run take, and no run of three        *)
(* commands a key is cut off between them.                                 *)
Expiring ==
  /\ Kind # "user_embedding"
  /\ Ttl + MaxRun <= Lifetime
  /\ Kind = "als" => Mishaps \cap {"redis", "kill"} = {}

LEMMA ExpiryTick ==
  ASSUME Expiring, TypeOK, PipeInv, ExpiryInv, Tick PROVE ExpiryInv'
<1> USE DEF Expiring
<1>1. UNCHANGED pipe
  BY DEF Tick
<1>2. pipe # <<>> => spent' = spent + 1
  BY DEF Tick, PipeInv
<1>3. \A k \in Key : /\ left[k] \in 0..Ttl /\ age[k] \in Age \cup {None}
                     /\ left'[k] = IF left[k] = 0 THEN 0 ELSE left[k] - 1
                     /\ age'[k] = IF left[k] = 1 THEN None ELSE Older(age[k])
  BY DEF Tick, TypeOK, Expires
<1>4. ASSUME NEW k \in Key, left'[k] # 0 PROVE age'[k] + left'[k] <= Ttl + MaxRun
  <2>1. left[k] # 0 /\ left[k] # 1 /\ age[k] # None
    BY <1>3, <1>4 DEF TypeOK
  <2>2. age[k] + left[k] <= Ttl + MaxRun
    BY <2>1 DEF ExpiryInv
  <2>3. age'[k] = age[k] + 1 \/ age'[k] = age[k]
    BY <1>3, <2>1 DEF Older
  <2> QED BY <1>3, <2>1, <2>2, <2>3 DEF Age
<1>5. ASSUME NEW k \in Key, Present(k)', left'[k] = 0
      PROVE  pipe' # <<>> /\ Head(pipe') = [op |-> "expire", key |-> k]
  <2>1. left[k] = 0 /\ age[k] # None
    BY <1>3, <1>5, OlderType DEF Present
  <2> QED BY <1>1, <2>1 DEF ExpiryInv, Present
<1>6. ASSUME pipe' # <<>>, Head(pipe').op = "expire"
      PROVE  age'[Head(pipe').key] = None \/ age'[Head(pipe').key] <= spent'
  <2> DEFINE k == Head(pipe).key
  <2>1. k \in Key
    BY <1>1, <1>6, TailOfPipe
  <2>2. age[k] = None \/ age[k] <= spent
    BY <1>1, <1>6 DEF ExpiryInv, Present
  <2>3. age'[k] = None \/ age'[k] = Older(age[k])
    BY <1>3, <2>1
  <2>4. CASE age[k] = None
    BY <1>1, <2>3, <2>4 DEF Older
  <2>5. CASE age[k] # None /\ age[k] <= spent
    <3>1. Older(age[k]) <= age[k] + 1
      BY <1>3, <2>1, <2>5 DEF Older, Age
    <3>2. Older(age[k]) \in Int /\ age[k] \in Int /\ spent \in Int
      BY <1>3, <2>1, <2>5 DEF Older, Age, Old, TypeOK
    <3> QED BY <1>1, <1>2, <1>6, <2>3, <2>5, <3>1, <3>2
  <2> QED BY <2>2, <2>4, <2>5
<1> QED BY <1>4, <1>5, <1>6 DEF ExpiryInv, Present

LEMMA ExpiryExecute ==
  ASSUME Expiring, TypeOK, PipeInv, ExpiryInv, Execute PROVE ExpiryInv'
<1> USE DEF Expiring
<1>1. PICK k \in Key :
        /\ pipe # <<>> /\ Head(pipe).key = k /\ Head(pipe) \in Command
        /\ \/ Head(pipe).op = "set"    /\ Set(k, spent, Expiry)
           \/ Head(pipe).op = "del"    /\ Set(k, None, 0)
           \/ Head(pipe).op = "rpush"  /\ Set(k, spent, left[k])
           \/ Head(pipe).op = "expire" /\ Set(k, age[k], IF Present(k) THEN Ttl ELSE 0)
  BY ExecuteCases
<1>2. pipe' = Tail(pipe) /\ UNCHANGED spent
  BY DEF Execute
<1>3. /\ spent \in 0..MaxRun /\ spent # None /\ left[k] \in 0..Ttl
      /\ age[k] \in Age \cup {None} /\ Expiry = Ttl
  BY SpentIsAge DEF TypeOK, Expiry
<1>4. \A q \in Key : q # k => age'[q] = age[q] /\ left'[q] = left[q]
  BY <1>1 DEF Set, TypeOK
<1>5. /\ Head(pipe).op = "set" => age'[k] = spent /\ left'[k] = Ttl
      /\ Head(pipe).op = "del" => age'[k] = None /\ left'[k] = 0
      /\ Head(pipe).op = "rpush" => age'[k] = spent /\ left'[k] = left[k]
      /\ Head(pipe).op = "expire" =>
           /\ age'[k] = age[k]
           /\ left'[k] = IF age[k] # None THEN Ttl ELSE 0
  <2>1. /\ Set(k, spent, Expiry) => age'[k] = spent /\ left'[k] = Ttl
        /\ Set(k, None, 0) => age'[k] = None /\ left'[k] = 0
        /\ Set(k, spent, left[k]) => age'[k] = spent /\ left'[k] = left[k]
        /\ Set(k, age[k], IF Present(k) THEN Ttl ELSE 0) =>
             age'[k] = age[k] /\ left'[k] = IF age[k] # None THEN Ttl ELSE 0
    BY <1>3 DEF Set, TypeOK, Present
  <2> QED BY <1>1, <2>1
<1>6. \A q \in Key : q # k /\ age'[q] # None => left'[q] # 0
  <2> SUFFICES ASSUME NEW q \in Key, q # k, age[q] # None, left[q] = 0 PROVE FALSE
    BY <1>4
  <2>1. Head(pipe) = [op |-> "expire", key |-> q]
    BY DEF ExpiryInv, Present
  <2> QED BY <1>1, <2>1
<1>7. \A q \in Key : left'[q] # 0 => age'[q] + left'[q] <= Ttl + MaxRun
  <2>1. left'[k] # 0 => age'[k] + left'[k] <= Ttl + MaxRun
    <3>1. Head(pipe).op = "expire" /\ age[k] # None => age[k] <= spent
      BY <1>1 DEF ExpiryInv, Present
    <3>2. age[k] # None => age[k] \in Int
      BY <1>3 DEF Age
    <3> QED BY <1>1, <1>3, <1>5, <3>1, <3>2 DEF Command
  <2> QED BY <1>4, <2>1 DEF ExpiryInv
<1>8. ASSUME Head(pipe).op = "rpush"
      PROVE  pipe' # <<>> /\ Head(pipe') = [op |-> "expire", key |-> k]
  <2>1. /\ 1 \in DOMAIN pipe /\ pipe[1].op = "rpush" /\ pipe[1].key = k
        /\ Len(pipe) \in Nat
    BY <1>1, <1>8, TailOfPipe
  <2>2. 1 < Len(pipe) /\ pipe[1 + 1] = [op |-> "expire", key |-> k]
    BY <2>1, <1>8 DEF PipeInv
  <2>3. Len(Tail(pipe)) # 0 /\ Tail(pipe)[1] = pipe[2]
    BY <1>1, <2>1, <2>2, TailOfPipe
  <2>4. Tail(pipe) # <<>> /\ Head(Tail(pipe)) = Tail(pipe)[1]
    BY <1>1, <2>1, <2>2, TailOfPipe
  <2> QED BY <1>2, <2>2, <2>3, <2>4
<1>9. \A q \in Key : Present(q)' /\ left'[q] = 0 =>
        pipe' # <<>> /\ Head(pipe') = [op |-> "expire", key |-> q]
  <2> SUFFICES ASSUME NEW q \in Key, age'[q] # None, left'[q] = 0
               PROVE  pipe' # <<>> /\ Head(pipe') = [op |-> "expire", key |-> q]
    BY DEF Present
  <2>1. q = k
    BY <1>6
  <2>2. Head(pipe).op = "rpush"
    BY <1>1, <1>5, <2>1 DEF Command
  <2> QED BY <1>8, <2>1, <2>2
<1>10. pipe' # <<>> /\ Head(pipe').op = "expire" =>
         age'[Head(pipe').key] = None \/ age'[Head(pipe').key] <= spent'
  <2> SUFFICES ASSUME pipe' # <<>>, Head(pipe').op = "expire"
               PROVE  Head(pipe).op = "rpush"
    BY SMTT(30), <1>2, <1>3, <1>5, <1>8
  <2>1. Len(pipe) # 1 /\ pipe[2].op = "expire"
    BY <1>1, <1>2, TailOfPipe
  <2>2. 2 \in DOMAIN pipe /\ 2 # 1 /\ 2 - 1 = 1 /\ Head(pipe) = pipe[1]
    BY <1>1, <2>1, TailOfPipe
  <2> QED BY <1>1, <2>1, <2>2, PipeOrder
<1> QED BY <1>7, <1>9, <1>10 DEF ExpiryInv, Present

LEMMA ExpiryStep == Expiring /\ TypeOK /\ PipeInv /\ ExpiryInv /\ [Next]_vars => ExpiryInv'
<1> SUFFICES ASSUME Expiring, TypeOK, PipeInv, ExpiryInv, [Next]_vars PROVE ExpiryInv'
  OBVIOUS
<1> USE DEF redis, service, run
<1>1. CASE \/ WatchFreshness \/ WatchFails \/ Skip \/ Written \/ UNCHANGED vars
  <2>1. UNCHANGED <<age, left, pipe, spent>>
    BY <1>1 DEF WatchFreshness, WatchFails, Skip, Written, vars
  <2> QED BY <2>1 DEF ExpiryInv, Present
<1>2. CASE \/ Start \/ QueryFails \/ NothingToDo \/ NothingRecommended \/ MarkFresh
           \/ RedisFails \/ Kill
  <2>1. UNCHANGED <<age, left>> /\ pipe' = <<>>
    BY <1>2
       DEF Start, QueryFails, NothingToDo, NothingRecommended, RedisFails, Kill, End, MarkFresh,
           PipeInv
  <2>2. \A k \in Key : Present(k) => left[k] # 0
    <3>1. pipe # <<>> => RedisFails \/ Kill
      BY <1>2
         DEF Start, QueryFails, NothingToDo, NothingRecommended, MarkFresh, PipeInv
    <3>2. RedisFails \/ Kill => Kind # "als"
      BY DEF RedisFails, Kill, Mishap, Expiring
    <3>3. pipe # <<>> /\ Kind # "als" => Head(pipe).op = "set"
      BY TailOfPipe DEF PipeInv
    <3> QED BY <3>1, <3>2, <3>3 DEF ExpiryInv
  <2> QED BY <2>1, <2>2 DEF ExpiryInv, Present
<1>3. CASE Answer
  <2>1. PICK ks \in Found : pipe' = Commands(ks)
    BY <1>3 DEF Answer
  <2>2. UNCHANGED <<age, left>> /\ pipe = <<>>
    BY <1>3 DEF Answer, PipeInv
  <2>3. pipe' # <<>> /\ Head(pipe') = pipe'[1] /\ 1 \in DOMAIN pipe'
    BY <2>1, CommandsShape
  <2>4. Head(pipe').op # "expire"
    BY <2>1, <2>3, CommandsShape
  <2> QED BY <2>2, <2>4 DEF ExpiryInv, Present
<1> QED BY <1>1, <1>2, <1>3, ExpiryTick, ExpiryExecute DEF Next

(* "Stale personalization expires instead of lingering" (config.py:33),    *)
(* whatever happens to the runs: a value is served for its TTL and for as  *)
(* long as the run took that wrote it, never longer.                       *)
THEOREM StaleExpiresTheorem == ASSUME Expiring PROVE Spec => []StaleExpires
<1>1. Init => ExpiryInv
  BY DEF Init, ExpiryInv, Present
<1>2. TypeOK /\ PipeInv /\ [Next]_vars /\ ExpiryInv => ExpiryInv'
  BY ExpiryStep
<1>3. TypeOK /\ ExpiryInv => StaleExpires
  <2> SUFFICES ASSUME TypeOK, ExpiryInv, NEW k \in Key, Present(k) PROVE age[k] <= Lifetime
    BY DEF StaleExpires
  <2>1. age[k] \in Int /\ left[k] \in 0..Ttl /\ spent \in 0..MaxRun
    BY DEF TypeOK, Age, Old, None
  <2>2. CASE left[k] # 0
    BY <2>1, <2>2 DEF ExpiryInv, Expiring
  <2>3. CASE left[k] = 0
    <3>1. Head(pipe).op = "expire" /\ Head(pipe).key = k /\ pipe # <<>>
      BY <2>3 DEF ExpiryInv
    <3>2. age[k] <= spent
      BY <3>1 DEF ExpiryInv
    <3> QED BY <2>1, <3>2
  <2> QED BY <2>2, <2>3
<1> QED BY <1>1, <1>2, <1>3, PipeAlways, PTL DEF Spec

-------------------------------------------------------------------------------
(* The stamp speaks of data that is there.                                 *)

LEMMA KeptStep == TypeOK /\ KeptInv /\ PipeInv /\ [Next]_vars => KeptInv'
<1> SUFFICES ASSUME TypeOK, KeptInv, PipeInv, [Next]_vars, Kind = "user_embedding"
             PROVE  \A k \in Key : left'[k] = 0
  BY DEF KeptInv
<1> USE DEF redis, service, run
<1>1. CASE Tick
  BY <1>1 DEF Tick, KeptInv
<1>2. CASE Execute
  <2>1. PICK k \in Key : \/ Head(pipe).op = "set" /\ Set(k, spent, Expiry)
                         \/ Head(pipe).op # "set"
    BY <1>2, ExecuteCases
  <2>2. Head(pipe).op = "set"
    BY <1>2, TailOfPipe DEF PipeInv, Execute
  <2> QED BY <2>1, <2>2 DEF Set, Expiry, KeptInv, TypeOK
<1>3. CASE ~Tick /\ ~Execute
  <2>1. left' = left
    BY <1>3
       DEF Next, WatchFreshness, WatchFails, Start, Skip, QueryFails, NothingToDo,
           NothingRecommended, Answer, Written, MarkFresh, RedisFails, Kill, vars
  <2> QED BY <2>1 DEF KeptInv
<1> QED BY <1>1, <1>2, <1>3

(* A tick takes nothing away that is younger than its TTL.                 *)
LEMMA WithinTick ==
  ASSUME TypeOK, KeptInv, Tick, NEW n \in Nat, n <= Lifetime,
         Kind # "user_embedding" => n + 1 < Ttl,
         NEW k \in Key, WrittenWithin(k, n)
  PROVE  /\ age'[k] # None /\ age'[k] <= n + 1
         /\ Kind # "user_embedding" => age'[k] + left'[k] >= Ttl
<1>1. /\ left[k] \in 0..Ttl /\ age[k] \in Age /\ age[k] <= n
      /\ left'[k] = IF left[k] = 0 THEN 0 ELSE left[k] - 1
      /\ age'[k] = IF left[k] = 1 THEN None ELSE Older(age[k])
  BY DEF Tick, TypeOK, Expires, WrittenWithin, Present
<1>2. left[k] # 1
  <2>1. CASE Kind = "user_embedding"
    BY <2>1 DEF KeptInv
  <2>2. CASE Kind # "user_embedding"
    BY <1>1, <2>2 DEF WrittenWithin, Age, Old
  <2> QED BY <2>1, <2>2
<1>3. age'[k] = age[k] + 1 /\ age'[k] # None
  BY <1>1, <1>2 DEF Older, Age, Old, None
<1>4. Kind # "user_embedding" => age'[k] + left'[k] >= Ttl
  BY <1>1, <1>2, <1>3 DEF WrittenWithin, Age, Old
<1>5. age'[k] <= n + 1
  BY <1>1, <1>3 DEF Age, Old
<1> QED BY <1>3, <1>4, <1>5

(* Where a key is one SET, a command leaves its key as new as can be and   *)
(* the others as they were.                                                *)
LEMMA SetWrites ==
  ASSUME Kind # "als", TypeOK, PipeInv, Execute
  PROVE  \E k \in Key :
           /\ WrittenWithin(k, spent)'
           /\ \A q \in Key \ {k} : age'[q] = age[q] /\ left'[q] = left[q]
<1>1. PICK k \in Key : \/ Head(pipe).op = "set" /\ Set(k, spent, Expiry)
                       \/ Head(pipe).op # "set"
  BY ExecuteCases
<1>2. Head(pipe).op = "set"
  BY TailOfPipe DEF PipeInv, Execute
<1>3. /\ age'[k] = spent /\ left'[k] = Expiry
      /\ \A q \in Key \ {k} : age'[q] = age[q] /\ left'[q] = left[q]
  BY <1>1, <1>2 DEF Set, TypeOK
<1>4. spent' = spent /\ spent \in Nat /\ spent # None
  BY SpentIsAge DEF Execute, TypeOK
<1> QED BY <1>3, <1>4 DEF WrittenWithin, Present, Expiry

LEMMA WroteStep ==
  Kind # "als" /\ TypeOK /\ PipeInv /\ KeptInv /\ WroteInv /\ [Next]_vars => WroteInv'
<1> SUFFICES ASSUME Kind # "als", TypeOK, PipeInv, KeptInv, WroteInv, [Next]_vars,
                    Kind # "user_embedding" => MaxRun < Ttl,
                    pc' = "stamp" \/ (pc' = "write" /\ touched')
             PROVE  \E k \in Key : WrittenWithin(k, spent)'
  BY DEF WroteInv, WrittenWithin, Present
<1> USE DEF redis, service, run
<1>1. CASE Tick
  <2>1. UNCHANGED <<pc, touched>> /\ spent' = spent + 1 /\ spent < MaxRun
    BY <1>1 DEF Tick
  <2>2. PICK k \in Key : WrittenWithin(k, spent)
    BY <2>1 DEF WroteInv
  <2>3. spent \in Nat /\ spent + 1 <= MaxRun
    BY <2>1 DEF TypeOK
  <2>4. /\ age'[k] # None /\ age'[k] <= spent + 1
        /\ Kind # "user_embedding" => age'[k] + left'[k] >= Ttl
    <3>1. spent <= Lifetime /\ (Kind # "user_embedding" => spent + 1 < Ttl)
      BY <2>3
    <3> QED BY <1>1, <2>2, <2>3, <3>1, WithinTick
  <2> QED BY <2>1, <2>3, <2>4 DEF WrittenWithin, Present
<1>2. CASE Execute
  BY <1>2, SetWrites
<1>3. CASE WatchFreshness \/ WatchFails \/ Skip \/ UNCHANGED vars
  <2>1. UNCHANGED <<age, left, pc, touched, spent>>
    BY <1>3 DEF WatchFreshness, WatchFails, Skip, vars
  <2> QED BY <2>1 DEF WroteInv, WrittenWithin, Present
<1>4. CASE Written
  <2>1. UNCHANGED <<age, left, spent>> /\ pc = "write" /\ touched
    BY <1>4 DEF Written, PipeInv, TypeOK
  <2> QED BY <2>1 DEF WroteInv, WrittenWithin, Present
<1>5. CASE Answer
  BY <1>5 DEF Answer, PipeInv
<1>6. CASE \/ Start \/ QueryFails \/ NothingToDo \/ NothingRecommended \/ MarkFresh
           \/ RedisFails \/ Kill
  BY <1>6
     DEF Start, QueryFails, NothingToDo, NothingRecommended, RedisFails, Kill, End, MarkFresh
<1> QED BY <1>1, <1>2, <1>3, <1>4, <1>5, <1>6 DEF Next

LEMMA WroteAlways ==
  ASSUME Kind # "als" PROVE Spec => [](TypeOK /\ PipeInv /\ KeptInv /\ WroteInv)
<1>1. Init => KeptInv /\ WroteInv
  BY DEF Init, KeptInv, WroteInv
<1>2. TypeOK /\ PipeInv /\ KeptInv /\ WroteInv /\ [Next]_vars => WroteInv'
  BY WroteStep
<1> QED BY <1>1, <1>2, PipeAlways, KeptStep, PTL DEF Spec

LEMMA StampStep ==
  /\ Kind # "als" /\ Ttl <= Lifetime
  /\ TypeOK /\ PipeInv /\ KeptInv /\ WroteInv /\ StampInv /\ [Next]_vars
  => StampInv'
<1> SUFFICES ASSUME Kind # "als", Ttl <= Lifetime,
                    TypeOK, PipeInv, KeptInv, WroteInv, StampInv, [Next]_vars,
                    stamp' + MaxRun < Ttl
             PROVE  \E k \in Key : WrittenWithin(k, stamp + MaxRun)'
  BY DEF StampInv, WrittenWithin, Present
<1> USE DEF redis, service, run
<1>1. CASE Tick
  <2>1. stamp \in Nat /\ stamp' = stamp + 1
    BY <1>1 DEF Tick, Older, TypeOK, Age, Old, None
  <2>2. PICK k \in Key : WrittenWithin(k, stamp + MaxRun)
    BY <2>1 DEF StampInv
  <2>3. stamp + MaxRun \in Nat /\ (stamp + MaxRun) + 1 = stamp' + MaxRun
    BY <2>1
  <2>4. /\ age'[k] # None /\ age'[k] <= (stamp + MaxRun) + 1
        /\ Kind # "user_embedding" => age'[k] + left'[k] >= Ttl
    <3>1. stamp + MaxRun <= Lifetime /\ (stamp + MaxRun) + 1 < Ttl
      BY <2>3
    <3> QED BY <1>1, <2>2, <2>3, <3>1, WithinTick
  <2> QED BY <2>3, <2>4 DEF WrittenWithin, Present
<1>2. CASE Execute
  <2>1. PICK k \in Key : /\ WrittenWithin(k, spent)'
                         /\ \A q \in Key \ {k} : age'[q] = age[q] /\ left'[q] = left[q]
    BY <1>2, SetWrites
  <2>2. stamp' = stamp /\ spent' = spent /\ spent \in 0..MaxRun
    BY <1>2 DEF Execute, TypeOK
  <2>3. PICK q \in Key : WrittenWithin(q, stamp + MaxRun)
    BY <2>2 DEF StampInv
  <2>4. CASE q = k
    <3>1. stamp \in Nat /\ age'[k] <= spent /\ age' \in [Key -> Age \cup {None}]
      BY <2>1, <2>2, NextType DEF WrittenWithin, TypeOK, Age, Old, None
    <3>2. age'[k] \in Int
      BY <3>1 DEF Age, Old, None
    <3>3. age'[k] <= stamp + MaxRun
      BY <2>2, <3>1, <3>2
    <3> QED BY <2>1, <2>2, <3>3 DEF WrittenWithin, Present
  <2>5. CASE q # k
    <3>1. age'[q] = age[q] /\ left'[q] = left[q]
      BY <2>1, <2>5
    <3> QED BY <2>2, <2>3, <3>1 DEF WrittenWithin, Present
  <2> QED BY <2>4, <2>5
<1>3. CASE MarkFresh
  <2>1. UNCHANGED <<age, left>> /\ stamp' = 0 /\ pc = "stamp" /\ spent \in 0..MaxRun
    BY <1>3 DEF MarkFresh, TypeOK
  <2>2. PICK k \in Key : WrittenWithin(k, spent)
    BY <1>3, <2>1 DEF WroteInv
  <2>3. age[k] \in Int
    BY DEF TypeOK, Age, Old, None
  <2>4. age[k] <= stamp' + MaxRun
    BY <2>1, <2>2, <2>3 DEF WrittenWithin
  <2> QED BY <2>1, <2>2, <2>4 DEF WrittenWithin, Present
<1>4. CASE ~Tick /\ ~Execute /\ ~MarkFresh
  <2>1. UNCHANGED <<age, left, stamp>>
    BY <1>4
       DEF Next, WatchFreshness, WatchFails, Start, Skip, QueryFails, NothingToDo,
           NothingRecommended, Answer, Written, RedisFails, Kill, vars
  <2> QED BY <2>1 DEF StampInv, WrittenWithin, Present
<1> QED BY <1>1, <1>2, <1>3, <1>4

(* The stamp that the staleness alert watches vouches for data: for as     *)
(* long as what a run wrote can be in Redis, some of it is there, and it   *)
(* was computed for a moment no further before the stamp than a run lasts. *)
THEOREM StampHonestTheorem ==
  ASSUME Kind # "als", Ttl <= Lifetime PROVE Spec => []StampHonest
<1>1. Init => StampInv
  BY DEF Init, StampInv, None, Old
<1>2. TypeOK /\ PipeInv /\ KeptInv /\ WroteInv /\ StampInv /\ [Next]_vars => StampInv'
  BY StampStep
<1>3. StampInv => StampHonest
  BY DEF StampInv, StampHonest, WrittenWithin
<1> QED BY <1>1, <1>2, <1>3, WroteAlways, PTL DEF Spec

-------------------------------------------------------------------------------
(* The artifact survives the runs that miss it.                            *)

(* The constants under which it does: a run is over before the next is     *)
(* due, and the TTL outlasts the runs that may miss in a row, the one      *)
(* before them and the writing.                                            *)
Enduring ==
  /\ MaxRun <= Cadence
  /\ Kind # "user_embedding" => (MaxMissed + 1) * Cadence + MaxRun < Ttl

LEMMA TimesMonotone ==
  ASSUME NEW a \in Nat, NEW b \in Nat, NEW c \in Nat, a <= b
  PROVE  a * c \in Nat /\ a * c <= b * c /\ (a + 1) * c = a * c + c
<1>1. PICK d \in Nat : b = a + d
  <2>1. b - a \in Nat /\ b = a + (b - a)
    OBVIOUS
  <2> QED BY <2>1
<1>2. d * c >= 0 /\ a * c >= 0
  OBVIOUS
<1>3. (a + d) * c = a * c + d * c
  OBVIOUS
<1> QED BY <1>1, <1>2, <1>3

LEMMA TimerStep ==
  MaxRun <= Cadence /\ TypeOK /\ TimerInv /\ [Next]_vars => TimerInv'
<1> SUFFICES ASSUME MaxRun <= Cadence, TypeOK, TimerInv, [Next]_vars PROVE TimerInv'
  OBVIOUS
<1> USE DEF redis, service, run
<1>1. CASE Tick
  <2>1. spent' = IF pc = "idle" THEN 0 ELSE spent + 1
    BY <1>1 DEF Tick
  <2>2. pc # "idle" => spent < MaxRun /\ timer + spent = Cadence
    BY <1>1 DEF Tick, TimerInv
  <2>3. timer' = (IF timer = 0 THEN 0 ELSE timer - 1) /\ pc' = pc
    BY <1>1 DEF Tick
  <2> QED BY <2>1, <2>2, <2>3 DEF TypeOK, TimerInv
<1>2. CASE \/ WatchFreshness \/ WatchFails \/ Answer \/ Execute \/ Written \/ UNCHANGED vars
  <2>1. UNCHANGED <<pc, timer, spent>> \/ (Answer /\ pc = "query" /\ UNCHANGED <<timer, spent>>)
                                       \/ (Written /\ pc = "write" /\ UNCHANGED <<timer, spent>>)
    BY <1>2 DEF WatchFreshness, WatchFails, Answer, Execute, Written, vars
  <2> QED BY <2>1 DEF TimerInv
<1>3. CASE Start
  BY <1>3 DEF Start, TimerInv
<1>4. CASE Skip
  BY <1>4 DEF Skip, TimerInv
<1>5. CASE QueryFails \/ NothingToDo \/ NothingRecommended \/ RedisFails \/ Kill \/ MarkFresh
  BY <1>5
     DEF QueryFails, NothingToDo, NothingRecommended, RedisFails, Kill, End, MarkFresh, TimerInv
<1> QED BY <1>1, <1>2, <1>3, <1>4, <1>5 DEF Next

LEMMA SinceWrittenBound ==
  ASSUME TypeOK
  PROVE  /\ SinceWritten \in Nat
         /\ SinceWritten <= (MaxMissed + 1) * Cadence + MaxRun
         /\ Tick => SinceWritten + 1 <= (MaxMissed + 1) * Cadence + MaxRun
<1>1. missed \in Nat /\ missed <= MaxMissed /\ timer \in 0..Cadence /\ spent \in 0..MaxRun
  BY DEF TypeOK
<1>2. missed * Cadence \in Nat /\ missed * Cadence <= MaxMissed * Cadence
  BY <1>1, TimesMonotone
<1>3. (MaxMissed + 1) * Cadence = MaxMissed * Cadence + Cadence /\ MaxMissed * Cadence \in Nat
  BY TimesMonotone
<1> DEFINE m == missed * Cadence
           mm == MaxMissed * Cadence
<1>4. m \in Nat /\ mm \in Nat /\ m <= mm
  BY <1>2, <1>3
<1>5. SinceWritten = IF pc = "idle" THEN m + Cadence - timer ELSE m + Cadence + spent
  BY DEF SinceWritten
<1> HIDE DEF m
<1>6. (MaxMissed + 1) * Cadence = mm + Cadence
  BY <1>3
<1> HIDE DEF mm
<1>7. /\ SinceWritten \in Nat /\ SinceWritten <= mm + Cadence + MaxRun
      /\ Tick => SinceWritten + 1 <= mm + Cadence + MaxRun
  BY <1>1, <1>4, <1>5 DEF Tick
<1> QED BY <1>6, <1>7

LEMMA SinceWrittenStep ==
  ASSUME TypeOK, TimerInv, Next
  PROVE  /\ Tick => SinceWritten' = SinceWritten + 1
         /\ MarkFresh => SinceWritten' = spent
         /\ ~Tick /\ ~MarkFresh => SinceWritten' = SinceWritten
<1> USE DEF redis, service, run
<1>1. missed \in Nat /\ timer \in 0..Cadence /\ spent \in 0..MaxRun
  BY DEF TypeOK
<1>2. missed * Cadence \in Nat /\ (missed + 1) * Cadence = missed * Cadence + Cadence
  BY <1>1, TimesMonotone
<1>3. CASE Tick
  <2>1. UNCHANGED <<pc, missed>>
    BY <1>3 DEF Tick
  <2>2. pc = "idle" => timer' = timer - 1
    BY <1>1, <1>3 DEF Tick
  <2>3. pc # "idle" => spent' = spent + 1
    BY <1>3 DEF Tick
  <2>4. SinceWritten' = IF pc = "idle" THEN missed * Cadence + Cadence - timer'
                        ELSE missed * Cadence + Cadence + spent'
    BY <2>1 DEF SinceWritten
  <2>5. ~MarkFresh
    BY <1>3 DEF Tick, MarkFresh
  <2> QED BY <1>1, <1>2, <1>3, <2>2, <2>3, <2>4, <2>5 DEF SinceWritten
<1>4. CASE MarkFresh
  <2>1. ~Tick /\ pc = "stamp" /\ pc' = "idle" /\ missed' = 0 /\ timer' = timer
    BY <1>4 DEF MarkFresh, End, Tick
  <2>2. timer + spent = Cadence
    BY <2>1 DEF TimerInv
  <2>3. SinceWritten' = 0 * Cadence + Cadence - timer
    BY <2>1 DEF SinceWritten
  <2>4. 0 * Cadence + Cadence - timer = spent
    BY <1>1, <2>2
  <2> QED BY <1>4, <2>1, <2>3, <2>4
<1>5. CASE Start
  <2>1. pc = "idle" /\ timer = 0 /\ pc' = "query" /\ spent' = 0 /\ missed' = missed
    BY <1>5 DEF Start
  <2>2. SinceWritten' = missed * Cadence + Cadence + 0 /\ SinceWritten = missed * Cadence + Cadence - 0
    BY <2>1 DEF SinceWritten
  <2>3. ~Tick /\ ~MarkFresh
    BY <2>1 DEF Tick, MarkFresh
  <2> QED BY <1>2, <2>2, <2>3
<1>6. CASE Skip
  <2>1. pc = "idle" /\ timer = 0 /\ pc' = "idle" /\ timer' = Cadence /\ missed' = missed + 1
    BY <1>6 DEF Skip, Mishap
  <2>2. /\ SinceWritten' = (missed + 1) * Cadence + Cadence - Cadence
        /\ SinceWritten = missed * Cadence + Cadence - 0
    BY <2>1 DEF SinceWritten
  <2>3. ~Tick
    BY <2>1 DEF Tick
  <2>4. ~MarkFresh
    BY <2>1 DEF MarkFresh
  <2> QED BY <1>2, <2>2, <2>3, <2>4
<1>7. CASE QueryFails \/ NothingToDo \/ NothingRecommended \/ RedisFails \/ Kill
  <2>1. pc # "idle" /\ pc' = "idle" /\ timer' = timer /\ missed' = missed + 1
    BY <1>7 DEF QueryFails, NothingToDo, NothingRecommended, RedisFails, Kill, End, Mishap
  <2>2. timer + spent = Cadence
    BY <2>1 DEF TimerInv
  <2>3. /\ SinceWritten' = (missed + 1) * Cadence + Cadence - timer
        /\ SinceWritten = missed * Cadence + Cadence + spent
    BY <2>1 DEF SinceWritten
  <2>4. ~Tick /\ ~MarkFresh
    BY <1>1, <2>1 DEF Tick, MarkFresh
  <2> QED BY <1>1, <1>2, <2>2, <2>3, <2>4
<1>8. CASE WatchFreshness \/ WatchFails \/ Answer \/ Execute \/ Written
  <2>1. /\ UNCHANGED <<missed, timer, spent>>
        /\ pc = pc' \/ (pc # "idle" /\ pc' # "idle")
    BY <1>8 DEF WatchFreshness, WatchFails, Answer, Execute, Written
  <2>2. ~Tick
    BY <1>8 DEF WatchFreshness, WatchFails, Answer, Execute, Written, Tick
  <2>3. ~MarkFresh
    BY <1>8 DEF WatchFreshness, WatchFails, Answer, Execute, Written, MarkFresh
  <2>4. SinceWritten' = SinceWritten
    BY <2>1 DEF SinceWritten
  <2> QED BY <2>2, <2>3, <2>4
<1> QED BY <1>3, <1>4, <1>5, <1>6, <1>7, <1>8 DEF Next

LEMMA LeftStep ==
  /\ Kind # "als" /\ Enduring
  /\ TypeOK /\ PipeInv /\ KeptInv /\ WroteInv /\ TimerInv /\ LeftInv /\ [Next]_vars
  => LeftInv'
<1> SUFFICES ASSUME Kind # "als", Enduring, TypeOK, PipeInv, KeptInv, WroteInv, TimerInv,
                    LeftInv, [Next]_vars, stamp' # None
             PROVE  \E k \in Key :
                      age'[k] # None /\ (Kind # "user_embedding" => left'[k] + SinceWritten' >= Ttl)
  BY DEF LeftInv, Present
<1> USE DEF redis, service, run
<1>1. SinceWritten \in Nat /\ TypeOK'
  BY SinceWrittenBound, NextType
<1>2. CASE Tick
  <2>1. SinceWritten' = SinceWritten + 1
    BY <1>2, SinceWrittenStep DEF Next
  <2>2. stamp # None
    BY <1>2, OlderType DEF Tick, TypeOK
  <2>3. PICK k \in Key : Present(k) /\ (Kind # "user_embedding" => left[k] + SinceWritten >= Ttl)
    BY <2>2 DEF LeftInv
  <2>4. /\ left[k] \in 0..Ttl
        /\ left'[k] = IF left[k] = 0 THEN 0 ELSE left[k] - 1
        /\ age'[k] = IF left[k] = 1 THEN None ELSE Older(age[k])
    BY <1>2 DEF Tick, TypeOK, Expires
  <2>5. CASE Kind = "user_embedding"
    <3>1. left[k] = 0
      BY <2>5 DEF KeptInv
    <3> QED BY <2>3, <2>4, <2>5, <3>1, OlderType DEF Present, TypeOK
  <2>6. CASE Kind # "user_embedding"
    <3> DEFINE most == (MaxMissed + 1) * Cadence
    <3>1. most \in Nat /\ most + MaxRun < Ttl
      BY <2>6 DEF Enduring
    <3>2. SinceWritten' <= most + MaxRun
      BY <1>2, <2>1, SinceWrittenBound
    <3> HIDE DEF most
    <3>3. left[k] > 1
      BY <1>1, <2>1, <2>3, <2>4, <2>6, <3>1, <3>2
    <3>4. left'[k] + SinceWritten' >= Ttl
      BY <1>1, <2>1, <2>3, <2>4, <2>6, <3>3
    <3>5. age'[k] # None
      BY <2>3, <2>4, <3>3, OlderType DEF Present, TypeOK
    <3> QED BY <3>4, <3>5
  <2> QED BY <2>5, <2>6
<1>3. CASE Execute
  <2>1. SinceWritten' = SinceWritten /\ stamp' = stamp /\ spent' = spent
    <3>1. ~Tick /\ ~MarkFresh
      BY <1>3 DEF Execute, Tick, MarkFresh
    <3> QED BY <1>3, <3>1, SinceWrittenStep DEF Next, Execute
  <2>2. PICK k \in Key : \/ Head(pipe).op = "set" /\ Set(k, spent, Expiry)
                         \/ Head(pipe).op # "set"
    BY <1>3, ExecuteCases
  <2>3. Head(pipe).op = "set"
    BY <1>3, TailOfPipe DEF PipeInv, Execute
  <2>4. age'[k] = spent /\ left'[k] = Expiry /\ spent # None
    BY <2>2, <2>3, SpentIsAge DEF Set, TypeOK
  <2> QED BY <1>1, <2>1, <2>4 DEF Expiry
<1>4. CASE MarkFresh
  <2>1. SinceWritten' = spent
    BY <1>4, SinceWrittenStep DEF Next
  <2>2. UNCHANGED <<age, left>> /\ pc = "stamp" /\ spent \in 0..MaxRun
    BY <1>4 DEF MarkFresh, TypeOK
  <2>3. Kind # "user_embedding" => MaxRun < Ttl
    <3> DEFINE most == (MaxMissed + 1) * Cadence
    <3>1. most \in Nat /\ (Kind # "user_embedding" => most + MaxRun < Ttl)
      BY DEF Enduring
    <3> HIDE DEF most
    <3> QED BY <3>1
  <2>4. PICK k \in Key : WrittenWithin(k, spent)
    BY <2>2, <2>3 DEF WroteInv
  <2>5. age[k] \in Int /\ left[k] \in 0..Ttl
    BY DEF TypeOK, Age, Old, None
  <2>6. age[k] # None /\ age[k] <= spent /\ (Kind # "user_embedding" => age[k] + left[k] >= Ttl)
    BY <2>4 DEF WrittenWithin, Present
  <2> QED BY <2>1, <2>2, <2>5, <2>6
<1>5. CASE Next /\ ~Tick /\ ~Execute /\ ~MarkFresh
  <2>1. UNCHANGED <<age, left, stamp>>
    BY <1>5
       DEF Next, WatchFreshness, WatchFails, Start, Skip, QueryFails, NothingToDo,
           NothingRecommended, Answer, Written, RedisFails, Kill
  <2>2. SinceWritten' = SinceWritten
    BY <1>5, SinceWrittenStep
  <2> QED BY <2>1, <2>2 DEF LeftInv, Present
<1>6. CASE UNCHANGED vars
  BY <1>6 DEF vars, LeftInv, Present, SinceWritten
<1> QED BY <1>2, <1>3, <1>4, <1>5, <1>6

(* Once it has been written there is something of the artifact to read,    *)
(* for ever: as many runs in a row may come to nothing as the TTL has      *)
(* periods to spare (train_als.py:17, and the timers of deploy/systemd).   *)
THEOREM SurvivesTheorem ==
  ASSUME Kind # "als", Enduring PROVE Spec => []Survives
<1>1. Init => TimerInv /\ LeftInv
  BY DEF Init, TimerInv, LeftInv
<1>2. TypeOK /\ TimerInv /\ [Next]_vars => TimerInv'
  BY TimerStep DEF Enduring
<1>3. TypeOK /\ PipeInv /\ KeptInv /\ WroteInv /\ TimerInv /\ LeftInv /\ [Next]_vars => LeftInv'
  BY LeftStep
<1>4. LeftInv => Survives
  BY DEF LeftInv, Survives
<1> QED BY <1>1, <1>2, <1>3, <1>4, WroteAlways, PTL DEF Spec
================================================================================
