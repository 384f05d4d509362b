-------------------------- MODULE OfflineArtifact --------------------------
(***************************************************************************)
(* One artifact that a timed job keeps in Redis for others to read:        *)
(*                                                                         *)
(*   trending        jobs/update_trending.py       rec:trending:top100     *)
(*   als             jobs/train_als.py             rec:user_als_candidates *)
(*   features        jobs/build_features.py        rec:*_features          *)
(*   user_embedding  jobs/build_user_embeddings.py rec:user_embedding      *)
(*                                                                         *)
(* The four jobs have one shape: note the moment, query, give up when      *)
(* there is too little, write the keys, stamp.  They differ in the Redis   *)
(* commands a key costs and in whether it expires.  An instance of this    *)
(* module is one of them.                                                  *)
(*                                                                         *)
(* Time is in ticks and everything is an age, so that time has no end:     *)
(* what is older than Old is all alike.  A value is the age of the moment  *)
(* it was computed for.                                                    *)
(***************************************************************************)
EXTENDS Integers, Sequences

CONSTANTS
  Kind,        \* which artifact
  Keys,        \* how many keys it has: users, articles, or the one list
  Ttl,         \* its *_ttl_seconds, in ticks
  Cadence,     \* the period of its systemd timer, in ticks
  MaxRun,      \* bound: a run is over within this many ticks of its moment
  MaxMissed,   \* bound: this many runs in a row may not write the artifact
  Mishaps,     \* what can keep a run from writing it, and the watcher from reading
  Lifetime     \* the age a value may reach while it is served

Key == 1..Keys

ASSUME KindAssumption == Kind \in {"trending", "als", "features", "user_embedding"}
ASSUME TimeAssumption ==
  /\ Keys \in Nat \ {0} /\ Ttl \in Nat \ {0} /\ Cadence \in Nat \ {0}
  /\ MaxRun \in Nat /\ MaxMissed \in Nat /\ Lifetime \in Nat
  /\ MaxRun <= Lifetime  \* what a run has just written is told from what is old
ASSUME MishapsAssumption ==
  Mishaps \subseteq {"skip", "query", "nothing", "redis", "kill", "watch"}

Old == Lifetime + 1
None == Old + 1      \* the age of what is not there
Age == 0..Old

VARIABLES
  age,         \* key -> age of its value, None when Redis has no such key
  left,        \* key -> ticks until it expires, 0 when it never does
  stamp,       \* age of rec:meta:<name>:updated_at
  gauge,       \* ml_artifact_age_seconds of this artifact
  watched,     \* the service has looked at the stamp in this tick
  timer,       \* ticks until the timer fires
  pc,          \* the run: its next step
  spent,       \* the run: ticks since its moment
  pipe,        \* the run: the Redis commands still to come
  touched,     \* the run has changed a key
  exit,        \* exit code of the last run, -1 when it was killed
  missed       \* runs since the artifact was last written

redis == <<age, left, stamp>>
service == <<gauge, watched>>
run == <<pc, spent, pipe, touched>>
vars == <<redis, service, timer, run, exit, missed>>

Command == [op : {"set", "del", "rpush", "expire"}, key : Key]

TypeOK ==
  /\ age \in [Key -> Age \cup {None}]
  /\ left \in [Key -> 0..Ttl]
  /\ \A k \in Key : left[k] # 0 => age[k] # None
  /\ stamp \in Age \cup {None} /\ gauge \in Age \cup {None}
  /\ watched \in BOOLEAN
  /\ timer \in 0..Cadence
  /\ pc \in {"idle", "query", "write", "stamp"}
  /\ spent \in 0..MaxRun
  /\ pipe \in Seq(Command)
  /\ touched \in BOOLEAN
  /\ exit \in {-1, 0, 1, 2}
  /\ missed \in 0..MaxMissed

Init ==
  /\ age = [k \in Key |-> None]
  /\ left = [k \in Key |-> 0]
  /\ stamp = None
  /\ gauge = None /\ watched = FALSE
  /\ timer = 0
  /\ pc = "idle" /\ spent = 0 /\ pipe = <<>> /\ touched = FALSE
  /\ exit = 0 /\ missed = 0

Present(k) == age[k] # None

-------------------------------------------------------------------------------
(* Time, and the freshness watcher of the ranking service.                 *)

Older(a) == IF a \in {Old, None} THEN a ELSE a + 1
Expires(k) == left[k] = 1

Tick ==
  /\ watched
  /\ IF pc = "idle" THEN timer > 0 ELSE spent < MaxRun
  /\ age' = [k \in Key |-> IF Expires(k) THEN None ELSE Older(age[k])]
  /\ left' = [k \in Key |-> IF left[k] = 0 THEN 0 ELSE left[k] - 1]
  /\ stamp' = Older(stamp)
  /\ timer' = IF timer = 0 THEN 0 ELSE timer - 1
  /\ spent' = IF pc = "idle" THEN 0 ELSE spent + 1
  /\ watched' = FALSE
  /\ UNCHANGED <<gauge, pc, pipe, touched, exit, missed>>

(* _watch_freshness looks far more often than once a tick.                 *)
WatchFreshness ==
  /\ ~watched
  /\ watched' = TRUE
  /\ gauge' = stamp
  /\ UNCHANGED <<redis, timer, run, exit, missed>>

(* except Exception: continue                                              *)
WatchFails ==
  /\ "watch" \in Mishaps /\ ~watched
  /\ watched' = TRUE
  /\ UNCHANGED <<redis, gauge, timer, run, exit, missed>>

-------------------------------------------------------------------------------
(* A run.                                                                  *)

Mishap(what) ==
  /\ what \in Mishaps
  /\ missed < MaxMissed
  /\ missed' = missed + 1

(* The timer fires: moment = now.  systemd never starts a unit twice.      *)
Start ==
  /\ pc = "idle" /\ timer = 0
  /\ pc' = "query" /\ spent' = 0 /\ touched' = FALSE
  /\ timer' = Cadence
  /\ UNCHANGED <<redis, service, pipe, exit, missed>>

(* The machine is asleep, or the unit is stopped.                          *)
Skip ==
  /\ pc = "idle" /\ timer = 0
  /\ Mishap("skip")
  /\ timer' = Cadence
  /\ UNCHANGED <<redis, service, run, exit>>

End(code) ==
  /\ pc' = "idle" /\ spent' = 0 /\ pipe' = <<>>
  /\ exit' = code

(* ClickHouseError, ArticleServiceError                                    *)
QueryFails ==
  /\ pc = "query"
  /\ Mishap("query")
  /\ End(2)
  /\ UNCHANGED <<redis, service, timer, touched>>

\* Mutant of NothingToDo: a run that had nothing to do marks the artifact fresh.
NothingToDoStamps ==
  /\ pc = "query"
  /\ Mishap("nothing")
  /\ End(1)
  /\ stamp' = 0
  /\ UNCHANGED <<age, left, service, timer, touched>>

(* No article clears the reach, too few users, no article, no centroid.    *)
NothingToDo ==
  /\ pc = "query"
  /\ Mishap("nothing")
  /\ End(1)
  /\ UNCHANGED <<redis, service, timer, touched>>

(* set_als_candidates of an empty mapping returns before the stamp, and    *)
(* the job reports success: every user was filtered out of the lists.      *)
NothingRecommended ==
  /\ Kind = "als" /\ pc = "query"
  /\ Mishap("nothing")
  /\ End(0)
  /\ UNCHANGED <<redis, service, timer, touched>>

(* What a run that has enough decides to write, in order, job by job.      *)
Orders ==
  {ks \in UNION {[1..n -> Key] : n \in Key} :
     \A i, j \in DOMAIN ks : ks[i] = ks[j] => i = j}

(* The articles of the aggregate, as the one list.                         *)
TrendingList == {<<1>>}

(* Users that both filters left and for whom a fresh article was found.    *)
AlsLists == Orders

(* The rows of the catalogue's articles, then those of the active users.   *)
FeatureRows == Orders

(* Users with enough embedded articles; the others keep what they had.     *)
Centroids == Orders

Found ==
  CASE Kind = "trending" -> TrendingList
    [] Kind = "als" -> AlsLists
    [] Kind = "features" -> FeatureRows
    [] Kind = "user_embedding" -> Centroids

\* Mutant of Commands: every artifact is replaced the way the ALS lists are.
CommandsNoMulti(ks) ==
  [i \in 1..3 * Len(ks) |-> [op |-> <<"del", "rpush", "expire">>[1 + ((i - 1) % 3)],
                             key |-> ks[1 + ((i - 1) \div 3)]]]

\* Mutant of Commands: the TTL is set before there is a list to carry it.
CommandsExpireFirst(ks) ==
  [i \in 1..3 * Len(ks) |-> [op |-> <<"del", "expire", "rpush">>[1 + ((i - 1) % 3)],
                             key |-> ks[1 + ((i - 1) \div 3)]]]

\* Mutant of Commands: all lists are cleared before any is filled.
CommandsClearFirst(ks) ==
  [i \in 1..3 * Len(ks) |->
     IF i <= Len(ks) THEN [op |-> "del", key |-> ks[i]]
     ELSE [op |-> <<"rpush", "expire">>[1 + ((i - Len(ks) - 1) % 2)],
           key |-> ks[1 + ((i - Len(ks) - 1) \div 2)]]]

(* The DEL, RPUSH and EXPIRE of replace_trending are one transaction and a *)
(* row or a vector is one SET; those of an ALS list are three commands.    *)
Commands(ks) ==
  IF Kind = "als"
  THEN [i \in 1..3 * Len(ks) |-> [op |-> <<"del", "rpush", "expire">>[1 + ((i - 1) % 3)],
                                  key |-> ks[1 + ((i - 1) \div 3)]]]
  ELSE [i \in 1..Len(ks) |-> [op |-> "set", key |-> ks[i]]]

Answer ==
  /\ pc = "query"
  /\ \E ks \in Found : pipe' = Commands(ks)
  /\ pc' = "write"
  /\ UNCHANGED <<redis, service, timer, spent, touched, exit, missed>>

\* Mutant of Expiry: the keys are written without a TTL.
ExpiryForgotten == 0

\* Mutant of Expiry: the TTL is counted in another unit.
ExpiryInOtherUnit == 2 * Ttl

\* Mutant of Expiry: the TTL is one tick short.
ExpiryShort == Ttl - 1

Expiry == IF Kind = "user_embedding" THEN 0 ELSE Ttl

Set(k, a, ttl) ==
  /\ age' = [age EXCEPT ![k] = a]
  /\ left' = [left EXCEPT ![k] = ttl]

(* Redis carries out the next command of the pipeline.                     *)
Execute ==
  /\ pc = "write" /\ pipe # <<>>
  /\ LET k == Head(pipe).key
         op == Head(pipe).op IN
     \/ op = "set"    /\ Set(k, spent, Expiry)
     \/ op = "del"    /\ Set(k, None, 0)
     \/ op = "rpush"  /\ Set(k, spent, left[k])
     \/ op = "expire" /\ Set(k, age[k], IF Present(k) THEN Ttl ELSE 0)
  /\ pipe' = Tail(pipe)
  /\ touched' = TRUE
  /\ UNCHANGED <<stamp, service, timer, pc, spent, exit, missed>>

Written ==
  /\ pc = "write" /\ pipe = <<>>
  /\ pc' = "stamp"
  /\ UNCHANGED <<redis, service, timer, spent, pipe, touched, exit, missed>>

(* mark_fresh, which notes the time of the writing, and exit 0.  What      *)
(* train_als still does after it is log to MLflow, where it swallows every *)
(* exception; no reader of the artifact can tell whether it has.           *)
MarkFresh ==
  /\ pc = "stamp"
  /\ stamp' = 0
  /\ End(0)
  /\ missed' = 0
  /\ UNCHANGED <<age, left, service, timer, touched>>

(* No job catches RedisError: the interpreter exits with 1.                *)
RedisFails ==
  /\ pc # "idle"
  /\ Mishap("redis")
  /\ End(1)
  /\ UNCHANGED <<redis, service, timer, touched>>

Kill ==
  /\ pc # "idle"
  /\ Mishap("kill")
  /\ End(-1)
  /\ UNCHANGED <<redis, service, timer, touched>>

Next ==
  \/ Tick \/ WatchFreshness \/ WatchFails
  \/ Start \/ Skip \/ QueryFails \/ NothingToDo \/ NothingRecommended
  \/ Answer \/ Execute \/ Written \/ MarkFresh \/ RedisFails \/ Kill

Spec == Init /\ [][Next]_vars

-------------------------------------------------------------------------------
(* What the readers of the artifact may rely on.                           *)

(* A reader never meets a gap while the job rewrites a key: it goes away   *)
(* only when its time is up (redis_store.py:138-142).  Otherwise a missing *)
(* list would not be "a cold-start user, not a failure" (train_als.py:17). *)
OnlyExpiryRemoves ==
  [][\A k \in Key : Present(k) /\ ~Present(k)' => Expires(k)]_vars

(* The three commands of an ALS list do leave a gap, but only ever one:    *)
(* what a run takes away is what its next command brings back, so a reader *)
(* misses a list for an instant, and a run that is cut off costs one user  *)
(* at most (redis_store.py:173-175).                                       *)
OneGapAtATime ==
  [][\A k \in Key : Present(k) /\ ~Present(k)' =>
       Expires(k) \/ (pipe' # <<>> /\ Head(pipe') = [op |-> "rpush", key |-> k])]_vars

(* Once it has been written, something of the artifact can be read, unless *)
(* more than MaxMissed runs in a row have not written it.                  *)
Survives == stamp # None => \E k \in Key : Present(k)

(* "stale personalization expires instead of lingering" (config.py:33):    *)
(* nothing older than Lifetime is served, however long the job is dead or  *)
(* fails - of an artifact with a TTL, and of the ALS lists as long as no   *)
(* run is cut off between two commands of a list.                          *)
StaleExpires == \A k \in Key : Present(k) => age[k] <= Lifetime

(* The stamp vouches for data: while what it speaks of can still be in     *)
(* Redis, some of it is, and is older than the stamp by a run at most.     *)
StampHonest ==
  stamp + MaxRun < Ttl => \E k \in Key : Present(k) /\ age[k] <= stamp + MaxRun

(* The gauge behind the staleness alert never makes the artifact younger   *)
(* than its stamp (service/app.py:149).  It does: while Redis cannot be    *)
(* read, the gauge keeps its value (app.py:164) and the stamp grows older. *)
GaugeNeverYounger == watched => gauge >= stamp

(* Exit 1 means that there was nothing to do "and never destroys a good    *)
(* artifact" (logs.py:7): such a run has changed no key.                   *)
ExitOneTouchesNothing == pc = "idle" /\ exit = 1 => ~touched

-------------------------------------------------------------------------------
(* Why they hold; proved in OfflineArtifactProofs, which also says for     *)
(* which artifacts and bounds.                                             *)

(* The commands of an ALS list come in threes, all others are SETs.        *)
PipeInv ==
  /\ pc # "write" => pipe = <<>>
  /\ pc = "query" => ~touched
  /\ pc = "write" /\ ~touched => pipe # <<>>
  /\ \A i \in DOMAIN pipe :
       IF Kind # "als" THEN pipe[i].op = "set"
       ELSE /\ pipe[i].op # "set"
            /\ pipe[i].op = "rpush" =>
                 i < Len(pipe) /\ pipe[i + 1] = [op |-> "expire", key |-> pipe[i].key]
            /\ pipe[i].op = "del" =>
                 i < Len(pipe) /\ pipe[i + 1] = [op |-> "rpush", key |-> pipe[i].key]
            /\ pipe[i].op = "expire" /\ i # 1 => pipe[i - 1].op = "rpush"

(* Where TTLs count down: a key that is going to expire is gone before its *)
(* value is older than the TTL and a run; one that is not is about to.     *)
ExpiryInv ==
  /\ \A k \in Key : left[k] # 0 => age[k] + left[k] <= Ttl + MaxRun
  /\ \A k \in Key : Present(k) /\ left[k] = 0 =>
       pipe # <<>> /\ Head(pipe) = [op |-> "expire", key |-> k]
  /\ pipe # <<>> /\ Head(pipe).op = "expire" =>
       \/ ~Present(Head(pipe).key)
       \/ age[Head(pipe).key] <= spent

(* A key was written for a moment at most so long ago, and its TTL has not *)
(* been counting down for longer than that.                                *)
WrittenWithin(k, ticks) ==
  /\ Present(k) /\ age[k] <= ticks
  /\ Kind # "user_embedding" => age[k] + left[k] >= Ttl

(* What a run is going to vouch for is there when it does, unless it takes *)
(* longer than the TTL.                                                    *)
WroteInv ==
  /\ Kind # "user_embedding" => MaxRun < Ttl
  /\ pc = "stamp" \/ (pc = "write" /\ touched)
  => \E k \in Key : WrittenWithin(k, spent)

(* And still is while the stamp is young.                                  *)
StampInv == stamp + MaxRun < Ttl => \E k \in Key : WrittenWithin(k, stamp + MaxRun)

(* The ticks since the start of the last run that wrote the artifact: the  *)
(* period of each run missed since, its own, and that of the run going on. *)
SinceWritten ==
  IF pc = "idle" THEN missed * Cadence + Cadence - timer
  ELSE missed * Cadence + Cadence + spent

(* A run is over before the timer fires again.                             *)
TimerInv == pc # "idle" => timer + spent = Cadence

(* As long as that the TTL of something written then has been counting.    *)
LeftInv ==
  stamp # None =>
    \E k \in Key : Present(k) /\ (Kind # "user_embedding" => left[k] + SinceWritten >= Ttl)

(* User embeddings have no TTL.                                            *)
KeptInv == Kind = "user_embedding" => \A k \in Key : left[k] = 0
=============================================================================
