-------------------------- MODULE RankRequestProofs --------------------------
(***************************************************************************)
(* Proofs about RankRequest, for any number of articles and runs, any cap  *)
(* and any model.                                                          *)
(***************************************************************************)
EXTENDS RankRequest, ListLemmas

(* Nothing has been written or read.                                       *)
LEMMA InitEstablishes == Init => IInv
<1> SUFFICES ASSUME Init PROVE IInv
  OBVIOUS
<1> USE CountsAssumption DEF Init, Article, JobRun, Written
<1>1. StateTypes
  BY DEF StateTypes
<1>2. GenInv
  BY DEF GenInv
<1>3. WriteInv /\ UserInv /\ SeenInv
  BY DEF WriteInv, UserInv, SeenInv, NotOlder
<1>4. QED
  BY <1>1, <1>2, <1>3 DEF IInv

(* An article row that is rewritten by the present run, or that goes, is   *)
(* no older than before in the eyes of any run up to the present one.      *)
LEMMA RenewalKeepsNotOlder ==
  ASSUME NEW g \in Written, NEW n \in Written, g <= n,
         NEW row \in [Article -> Written], NEW b \in Article, NEW new \in {0, n},
         catalog \in [JobRun -> SUBSET Article],
         NotOlder(g, row)
  PROVE  NotOlder(g, [row EXCEPT ![b] = new])
  BY CountsAssumption DEF NotOlder, Written, Article, JobRun

(* A step of a run of the job that changes neither a stored row nor what   *)
(* the run has read.                                                       *)
LEMMA JobKeeps ==
  ASSUME IInv,
         UNCHANGED <<articleRow, userRow, catalog, gen, pc, seenUser, seenRow>>,
         job' \in [JobRun -> {"idle", "articles", "users"}],
         unwritten' \in [JobRun -> SUBSET Article],
         \A g \in JobRun : job'[g] # "idle" => job[g] # "idle",
         \A g \in JobRun : job'[g] # "idle" => unwritten'[g] = unwritten[g],
         \A g \in JobRun : job'[g] = "users" => unwritten'[g] = {}
  PROVE  IInv'
<1> USE DEF IInv
<1>1. StateTypes'
  BY DEF StateTypes
<1>2. GenInv'
  BY DEF GenInv, StateTypes
<1>3. WriteInv'
  BY DEF WriteInv, StateTypes
<1>4. UserInv' /\ SeenInv'
  BY DEF UserInv, SeenInv, NotOlder
<1> QED BY <1>1, <1>2, <1>3, <1>4

(* Every step keeps the invariant.                                         *)
LEMMA StepKeeps == ~Overlap /\ IInv /\ [Next]_vars => IInv'
<1> SUFFICES ASSUME ~Overlap, IInv, [Next]_vars PROVE IInv'
  OBVIOUS
<1> USE CountsAssumption DEF IInv
<1>1. CASE LoadModel
  BY <1>1 DEF LoadModel, store, materializer, request, StateTypes, GenInv, WriteInv, UserInv,
              SeenInv, NotOlder
<1>2. CASE Build
  <2>0. PICK c \in (SUBSET Article) \ {{}} :
           /\ catalog' = [catalog EXCEPT ![gen + 1] = c]
           /\ unwritten' = [unwritten EXCEPT ![gen + 1] = c]
    BY <1>2 DEF Build
  <2>1. /\ \A g \in JobRun : job[g] = "idle"
        /\ gen' = gen + 1 /\ gen + 1 \in JobRun
        /\ job' = [job EXCEPT ![gen + 1] = "articles"]
        /\ UNCHANGED <<articleRow, userRow, pc, seenUser, seenRow>>
    BY <1>2 DEF Build, store, request, StateTypes, Written, JobRun
  <2>2. StateTypes'
    BY <2>0, <2>1 DEF StateTypes, Written, JobRun
  <2>3. GenInv'
    BY <2>1 DEF GenInv, StateTypes, Written, Article, JobRun
  <2>4. WriteInv'
    BY <2>0, <2>1 DEF WriteInv, StateTypes
  <2>5. \A g \in Written : g <= gen /\ g # 0 => catalog'[g] = catalog[g]
    BY <2>0, <2>1 DEF StateTypes, Written, JobRun
  <2>6. UserInv'
    BY <2>1, <2>5 DEF UserInv, NotOlder, GenInv, StateTypes
  <2>7. SeenInv'
    BY <2>1, <2>5 DEF SeenInv, NotOlder, GenInv, StateTypes
  <2>8. QED
    BY <2>2, <2>3, <2>4, <2>6, <2>7
<1>3. ASSUME NEW g \in JobRun, ArticleRowsWritten(g) PROVE IInv'
  <2>1. /\ UNCHANGED <<articleRow, userRow, catalog, gen, unwritten, pc, seenUser, seenRow>>
        /\ job[g] = "articles" /\ unwritten[g] = {} /\ job' = [job EXCEPT ![g] = "users"]
    BY <1>3 DEF ArticleRowsWritten, store, request
  <2>2. /\ job' \in [JobRun -> {"idle", "articles", "users"}]
        /\ \A n \in JobRun : /\ job'[n] # "idle" => job[n] # "idle"
                            /\ job'[n] = "users" => unwritten[n] = {}
    BY <2>1 DEF StateTypes, WriteInv
  <2> QED BY <2>1, <2>2, JobKeeps DEF StateTypes
<1>4. ASSUME NEW g \in JobRun, WriteUserRow(g) PROVE IInv'
  <2>1. /\ job[g] = "users" /\ job' = [job EXCEPT ![g] = "idle"] /\ userRow' \in {userRow, g}
        /\ UNCHANGED <<articleRow, catalog, gen, unwritten, pc, seenUser, seenRow>>
    BY <1>4 DEF WriteUserRow, request
  <2>2. g = gen /\ \A n \in JobRun : job'[n] # "idle" => job'[n] = job[n]
    BY <2>1 DEF GenInv, StateTypes
  <2>3. StateTypes' /\ GenInv'
    BY <2>1, <2>2 DEF StateTypes, GenInv, Written, JobRun
  <2>4. WriteInv' /\ SeenInv'
    BY <2>1, <2>2 DEF WriteInv, SeenInv, NotOlder
  <2>5. NotOlder(g, articleRow)
    <3>1. \A a \in catalog[g] : articleRow[a] \in {0, g}
      BY <2>1 DEF WriteInv
    <3> QED BY <3>1 DEF NotOlder, JobRun
  <2>6. UserInv'
    BY <2>1, <2>5 DEF UserInv, NotOlder
  <2>7. QED
    BY <2>3, <2>4, <2>6
<1>5. ASSUME NEW g \in JobRun, BuildFails(g) PROVE IInv'
  <2>1. /\ UNCHANGED <<articleRow, userRow, catalog, gen, pc, seenUser, seenRow>>
        /\ job' = [job EXCEPT ![g] = "idle"] /\ unwritten' = [unwritten EXCEPT ![g] = {}]
    BY <1>5 DEF BuildFails, store, request
  <2>2. /\ job' \in [JobRun -> {"idle", "articles", "users"}]
        /\ unwritten' \in [JobRun -> SUBSET Article]
    BY <2>1 DEF StateTypes
  <2>3. \A n \in JobRun :
          job'[n] # "idle" => n # g /\ job'[n] = job[n] /\ unwritten'[n] = unwritten[n]
    BY <2>1 DEF StateTypes
  <2>4. \A n \in JobRun : job'[n] = "users" => unwritten'[n] = {}
    BY <2>3 DEF WriteInv
  <2> QED BY <2>1, <2>2, <2>3, <2>4, JobKeeps
<1>6. CASE UserRowExpires
  <2>1. /\ userRow' = 0
        /\ UNCHANGED <<articleRow, catalog, job, gen, unwritten, pc, seenUser, seenRow>>
    BY <1>6 DEF UserRowExpires, materializer, request
  <2>2. StateTypes' /\ GenInv'
    BY <2>1 DEF StateTypes, GenInv, Written
  <2>3. WriteInv' /\ UserInv' /\ SeenInv'
    BY <2>1 DEF WriteInv, UserInv, SeenInv, NotOlder
  <2>4. QED
    BY <2>2, <2>3
<1>7. ASSUME NEW b \in Article,
             ArticleRowExpires(b) \/ \E g \in JobRun : WriteArticleRow(g, b)
      PROVE  IInv'
  <2>1. PICK new \in {0, gen} : articleRow' = [articleRow EXCEPT ![b] = new]
    BY <1>7 DEF WriteArticleRow, ArticleRowExpires, GenInv
  <2>2. UNCHANGED <<userRow, catalog, job, gen, pc, seenUser, seenRow>>
    BY <1>7 DEF WriteArticleRow, ArticleRowExpires, materializer, request
  <2>3. /\ unwritten' \in [JobRun -> SUBSET Article]
        /\ \A g \in JobRun : /\ unwritten'[g] \subseteq unwritten[g]
                            /\ unwritten[g] \ unwritten'[g] \subseteq {b}
    BY <1>7 DEF WriteArticleRow, ArticleRowExpires, materializer, StateTypes
  <2>4. StateTypes'
    BY <2>1, <2>2, <2>3 DEF StateTypes, Written
  <2>5. GenInv'
    BY <2>1, <2>2 DEF GenInv, StateTypes, Written
  <2>6. WriteInv'
    <3> SUFFICES ASSUME NEW g \in JobRun
                 PROVE  /\ job[g] # "idle" =>
                             \A a \in catalog[g] \ unwritten'[g] : articleRow'[a] \in {0, g}
                        /\ job[g] = "users" => unwritten'[g] = {}
      BY <2>2 DEF WriteInv
    <3>1. job[g] # "idle" =>
            g = gen /\ \A a \in catalog[g] \ unwritten[g] : articleRow[a] \in {0, g}
      BY DEF WriteInv, GenInv
    <3>2. catalog[g] \subseteq Article /\ \A a \in Article : a # b => articleRow'[a] = articleRow[a]
      BY <2>1 DEF StateTypes
    <3>3. articleRow'[b] = new
      BY <2>1 DEF StateTypes
    <3>4. ASSUME job[g] # "idle", NEW a \in catalog[g] \ unwritten'[g]
          PROVE  articleRow'[a] \in {0, g}
      <4>1. CASE a = b
        BY <3>1, <3>3, <3>4, <4>1
      <4>2. CASE a # b
        BY <2>3, <3>1, <3>2, <3>4, <4>2
      <4> QED BY <4>1, <4>2
    <3>5. job[g] = "users" => unwritten'[g] = {}
      BY <2>3 DEF WriteInv
    <3> QED BY <3>4, <3>5
  <2>7. UserInv'
    <3>1. NotOlder(userRow, articleRow')
      BY <2>1, RenewalKeepsNotOlder DEF StateTypes, GenInv, UserInv
    <3>2. QED
      BY <3>1, <2>2 DEF UserInv, NotOlder
  <2>8. SeenInv'
    <3>1. pc \in {"user_vector", "article_rows"} => NotOlder(seenUser, articleRow')
      BY <2>1, RenewalKeepsNotOlder DEF StateTypes, GenInv, SeenInv
    <3>2. QED
      BY <3>1, <2>2 DEF SeenInv, NotOlder
  <2>9. QED
    BY <2>4, <2>5, <2>6, <2>7, <2>8
<1>8. CASE Receive
  <2>1. /\ pc' \in {"done", "user_row"} /\ seenUser' = 0
        /\ seenRow' = [a \in Article |-> 0]
        /\ UNCHANGED <<articleRow, userRow, catalog, job, gen, unwritten>>
    BY <1>8 DEF Receive, Outside, store, materializer
  <2>2. StateTypes' /\ GenInv'
    BY <2>1 DEF StateTypes, GenInv, Written
  <2>3. WriteInv' /\ UserInv' /\ SeenInv'
    BY <2>1 DEF WriteInv, UserInv, SeenInv, NotOlder
  <2>4. QED
    BY <2>2, <2>3
<1>9. CASE ReadUserRow
  <2>1. /\ pc' = "user_vector" /\ seenUser' = userRow
        /\ UNCHANGED <<articleRow, userRow, catalog, job, gen, unwritten, seenRow>>
    BY <1>9 DEF ReadUserRow, Outside, store, materializer
  <2>2. StateTypes' /\ GenInv' /\ WriteInv' /\ UserInv'
    BY <2>1 DEF StateTypes, GenInv, WriteInv, UserInv, NotOlder
  <2>3. SeenInv'
    BY <2>1 DEF SeenInv, UserInv, NotOlder
  <2>4. QED
    BY <2>2, <2>3
<1>10. CASE ReadArticleRows
  <2>1. /\ pc = "article_rows" /\ pc' = "article_vectors"
        /\ seenRow' \in [Article -> Written]
        /\ \A a \in Article : seenRow'[a] \in {0, articleRow[a]}
        /\ UNCHANGED <<articleRow, userRow, catalog, job, gen, unwritten, seenUser>>
    BY <1>10 DEF ReadArticleRows, Outside, store, materializer, StateTypes, Written
  <2>2. StateTypes' /\ GenInv' /\ WriteInv' /\ UserInv'
    BY <2>1 DEF StateTypes, GenInv, WriteInv, UserInv, NotOlder
  <2>3. SeenInv'
    BY <2>1 DEF SeenInv, NotOlder, StateTypes, Written, JobRun, Article
  <2>4. QED
    BY <2>2, <2>3
<1>11. CASE ReadUserVector \/ ReadArticleVectors
  BY <1>11 DEF ReadUserVector, ReadArticleVectors, Outside, store, materializer, StateTypes,
               GenInv, WriteInv, UserInv, SeenInv, NotOlder
<1>12. CASE StoreFails \/ Rank
  BY <1>12 DEF StoreFails, Rank, Outside, store, materializer, StateTypes, GenInv, WriteInv,
               UserInv, SeenInv, NotOlder
<1>13. CASE UNCHANGED vars
  BY <1>13 DEF vars, store, materializer, request, StateTypes, GenInv, WriteInv, UserInv,
               SeenInv, NotOlder
<1>14. QED
  BY <1>1, <1>2, <1>3, <1>4, <1>5, <1>6, <1>7, <1>8, <1>9, <1>10, <1>11, <1>12, <1>13 DEF Next

(* With one run of the job at a time, the rows that are scored are never   *)
(* older than the run that described the user, whatever expires, fails or  *)
(* is rewritten between the reads.                                         *)
THEOREM UserRowTheorem ==
  ASSUME ~Overlap PROVE Spec => []UserRowNeverAhead
<1>1. IInv => UserRowNeverAhead
  BY DEF IInv, SeenInv, NotOlder, UserRowNeverAhead
<1>2. IInv /\ [Next]_vars => IInv'
  BY StepKeeps
<1>3. QED
  BY <1>1, <1>2, InitEstablishes, PTL DEF Spec

-------------------------------------------------------------------------------
(* The two parts of a pool.                                                *)

LEMMA PartsOfPool ==
  ASSUME pool \in Pool
  PROVE  /\ Len(pool) \in Nat /\ DOMAIN pool = 1..Len(pool)
         /\ \A i \in 1..Len(pool) : pool[i] \in Article
         /\ candidates \in Seq(Article) /\ overflow \in Seq(Article)
         /\ Len(candidates) = IF Len(pool) < Cap THEN Len(pool) ELSE Cap
         /\ Len(overflow) = IF Len(pool) < Cap THEN 0 ELSE Len(pool) - Cap
         /\ \A i \in 1..Len(candidates) : candidates[i] = pool[i]
         /\ \A i \in 1..Len(overflow) : overflow[i] = pool[Cap + i]
<1> USE CountsAssumption
<1>1. PICK n \in 0..MaxPool : pool \in [1..n -> Article]
  BY DEF Pool
<1>2. n \in Nat /\ Len(pool) = n /\ DOMAIN pool = 1..n
  BY <1>1
<1>3. \A i \in 1..n : pool[i] \in Article
  BY <1>1
<1> DEFINE m == IF Len(pool) < Cap THEN Len(pool) ELSE Cap
<1>4. m \in Int /\ 1 \in Int /\ m <= n /\ m >= 0
  BY <1>2
<1>5. \A i \in 1..m : pool[i] \in Article
  BY <1>2, <1>3, <1>4
<1>6. /\ SubSeq(pool, 1, m) \in Seq(Article)
      /\ Len(SubSeq(pool, 1, m)) = IF 1 <= m THEN m - 1 + 1 ELSE 0
      /\ \A i \in 1..m - 1 + 1 : SubSeq(pool, 1, m)[i] = pool[1 + i - 1]
  BY <1>4, <1>5, SubSeqProperties
<1>7. /\ candidates = SubSeq(pool, 1, m)
      /\ m - 1 + 1 = m /\ \A i \in 1..m : 1 + i - 1 = i
  BY <1>4 DEF candidates
<1> HIDE DEF m
<1>8. /\ candidates \in Seq(Article) /\ Len(candidates) = m
      /\ \A i \in 1..m : candidates[i] = pool[i]
  BY <1>4, <1>6, <1>7
<1>9. \A i \in Cap + 1..n : pool[i] \in Article
  BY <1>2, <1>3
<1>10. /\ SubSeq(pool, Cap + 1, n) \in Seq(Article)
       /\ Len(SubSeq(pool, Cap + 1, n)) = IF Cap + 1 <= n THEN n - (Cap + 1) + 1 ELSE 0
       /\ \A i \in 1..n - (Cap + 1) + 1 :
            SubSeq(pool, Cap + 1, n)[i] = pool[Cap + 1 + i - 1]
  BY SMTT(30), <1>2, <1>9, SubSeqProperties
<1>11. /\ overflow \in Seq(Article) /\ Len(overflow) = IF n < Cap THEN 0 ELSE n - Cap
       /\ \A i \in 1..Len(overflow) : overflow[i] = pool[Cap + i]
  <2>1. /\ overflow = SubSeq(pool, Cap + 1, n)
        /\ n - (Cap + 1) + 1 = n - Cap /\ \A i \in Int : Cap + 1 + i - 1 = Cap + i
    BY <1>2 DEF overflow
  <2>2. Len(overflow) = IF n < Cap THEN 0 ELSE n - Cap
    BY <1>2, <1>10, <2>1
  <2>3. \A i \in 1..Len(overflow) : i \in 1..n - (Cap + 1) + 1 /\ i \in Int
    BY <1>2, <2>1, <2>2
  <2> QED BY <1>10, <2>1, <2>2, <2>3
<1>12. m = IF Len(pool) < Cap THEN Len(pool) ELSE Cap
  BY DEF m
<1> QED BY <1>2, <1>3, <1>8, <1>11, <1>12

-------------------------------------------------------------------------------
(* What Rank answers.                                                      *)

(* The scored candidates in their order: each once, best first.            *)
LEMMA OrderedShape ==
  ASSUME pool \in Pool, NEW score \in [Article -> Scores]
  PROVE  /\ Ordered(score) \in Seq(RankedItem)
         /\ Len(Ordered(score)) = Len(candidates)
         /\ \E at \in Bijection(DOMAIN candidates, DOMAIN candidates) :
              \A k \in DOMAIN candidates : Ordered(score)[k].id = candidates[at[k]]
         /\ \A j, k \in DOMAIN candidates :
              j <= k => Ordered(score)[j].score >= Ordered(score)[k].score
<1> DEFINE s == Scored(score)
           at == Order(s)
           n == Len(candidates)
<1>1. /\ n \in Nat /\ DOMAIN candidates = 1..n
      /\ \A i \in 1..n : candidates[i] \in Article
  BY PartsOfPool
<1> HIDE DEF n
<1>2. \A i \in 1..n : score[candidates[i]] \in Int
  <2>1. \A i \in 1..n : score[candidates[i]] \in Scores
    BY <1>1
  <2>2. \A x \in Scores : x \in Int
    BY ScoresAssumption
  <2> QED BY <2>1, <2>2
<1>3. s \in [1..n -> Int] /\ \A i \in 1..n : s[i] = score[candidates[i]]
  BY <1>1, <1>2 DEF Scored
<1>4. s \in Seq(Int) /\ Len(s) = n
  BY <1>1, <1>3, FunctionIsList
<1> HIDE DEF s
<1>5. /\ at \in Bijection(1..n, 1..n)
      /\ \A k \in 1..n : at[k] \in 1..n
      /\ \A k, l \in 1..n : k <= l => s[at[k]] >= s[at[l]]
  BY <1>4, OrderProperties
<1>6. Ordered(score) = [k \in 1..n |-> [id |-> candidates[at[k]], score |-> score[candidates[at[k]]]]]
  BY <1>1 DEF Ordered, s
<1> HIDE DEF at
<1>7. \A k \in 1..n : /\ Ordered(score)[k].id = candidates[at[k]]
                      /\ Ordered(score)[k].score = s[at[k]]
  BY <1>3, <1>5, <1>6
<1>8. Ordered(score) \in [1..n -> RankedItem]
  BY <1>1, <1>5, <1>6 DEF RankedItem
<1>9. Ordered(score) \in Seq(RankedItem) /\ Len(Ordered(score)) = n
  BY <1>1, <1>8, FunctionIsList
<1>10. \A j, k \in 1..n : j <= k => Ordered(score)[j].score >= Ordered(score)[k].score
  BY <1>5, <1>7
<1> QED BY <1>1, <1>5, <1>7, <1>9, <1>10 DEF n

LEMMA AppendedShape ==
  ASSUME pool \in Pool
  PROVE  /\ Appended \in Seq(RankedItem) /\ Len(Appended) = Len(overflow)
         /\ \A k \in 1..Len(overflow) : Appended[k].id = overflow[k] /\ Appended[k].score = Zero
<1>1. /\ overflow \in Seq(Article) /\ Len(overflow) \in Nat
      /\ DOMAIN overflow = 1..Len(overflow)
      /\ \A k \in 1..Len(overflow) : overflow[k] \in Article
  BY PartsOfPool
<1>2. Appended \in [1..Len(overflow) -> RankedItem]
  BY <1>1 DEF Appended, RankedItem
<1>3. Appended \in Seq(RankedItem) /\ Len(Appended) = Len(overflow)
  BY <1>1, <1>2
<1> QED BY <1>1, <1>3 DEF Appended

(* A permutation of the first positions is one of all of them.             *)
LEMMA ExtendedPermutation ==
  ASSUME NEW n \in Nat, NEW m \in Nat, n <= m, NEW at \in Bijection(1..n, 1..n)
  PROVE  [k \in 1..m |-> IF k <= n THEN at[k] ELSE k] \in Bijection(1..m, 1..m)
<1> DEFINE All == [k \in 1..m |-> IF k <= n THEN at[k] ELSE k]
<1>1. /\ at \in [1..n -> 1..n] /\ \A k, l \in 1..n : at[k] = at[l] => k = l
      /\ \A i \in 1..n : \E k \in 1..n : at[k] = i
  BY DEF Bijection, Injection, Surjection, IsInjective
<1>2. \A k \in 1..m : IF k <= n THEN k \in 1..n /\ All[k] = at[k] /\ All[k] \in 1..n
                       ELSE All[k] = k
  BY <1>1
<1>3. 1..n \subseteq 1..m
  OBVIOUS
<1>4. All \in [1..m -> 1..m]
  BY <1>2, <1>3
<1>5. \A k, l \in 1..m : All[k] = All[l] => k = l
  <2> HIDE DEF All
  <2> SUFFICES ASSUME NEW k \in 1..m, NEW l \in 1..m, All[k] = All[l] PROVE k = l
    OBVIOUS
  <2>1. CASE k <= n /\ l <= n
    BY <1>1, <1>2, <2>1
  <2>2. CASE ~(k <= n) /\ ~(l <= n)
    BY <1>2, <2>2
  <2>3. CASE k <= n /\ ~(l <= n)
    BY <1>2, <2>3
  <2>4. CASE ~(k <= n) /\ l <= n
    BY <1>2, <2>4
  <2> QED BY <2>1, <2>2, <2>3, <2>4
<1>6. \A i \in 1..m : \E k \in 1..m : All[k] = i
  <2> SUFFICES ASSUME NEW i \in 1..m PROVE \E k \in 1..m : All[k] = i
    OBVIOUS
  <2>1. CASE i <= n
    <3>1. i \in 1..n
      BY <2>1
    <3>2. PICK k \in 1..n : at[k] = i
      BY <1>1, <3>1
    <3>3. k \in 1..m /\ k <= n
      BY <1>3
    <3> QED BY <1>2, <3>2, <3>3
  <2>2. CASE ~(i <= n)
    BY <1>2, <2>2
  <2> QED BY <2>1, <2>2
<1> HIDE DEF All
<1>7. All \in Bijection(1..m, 1..m)
  BY <1>4, <1>5, <1>6 DEF Bijection, Injection, Surjection, IsInjective
<1> QED BY <1>7 DEF All

(* A response is the pool, rearranged up to the cap.                       *)
LEMMA ResponseShape ==
  ASSUME pool \in Pool, NEW score \in [Article -> Scores]
  PROVE  LET response == Ordered(score) \o Appended IN
         /\ response \in Seq(RankedItem) /\ Len(response) = Len(pool)
         /\ \E at \in Bijection(1..Len(pool), 1..Len(pool)) :
              \A k \in 1..Len(pool) :
                response[k].id = pool[at[k]] /\ (k > Cap => at[k] = k)
         /\ \A j, k \in 1..Len(pool) :
              j <= k /\ k <= Cap => response[j].score >= response[k].score
         /\ \A k \in 1..Len(pool) : k > Cap => response[k].score = Zero
<1>0. \E m, n \in Nat :
        /\ m = Len(pool) /\ n = Len(candidates) /\ DOMAIN candidates = 1..n
        /\ n = (IF m < Cap THEN m ELSE Cap)
        /\ Len(overflow) = IF m < Cap THEN 0 ELSE m - Cap
  <2>1. Len(candidates) \in Nat /\ DOMAIN candidates = 1..Len(candidates)
    BY PartsOfPool, LenProperties
  <2> QED BY <2>1, PartsOfPool, Zenon
<1> DEFINE response == Ordered(score) \o Appended
<1>1. PICK at \in Bijection(DOMAIN candidates, DOMAIN candidates) :
        \A k \in DOMAIN candidates : Ordered(score)[k].id = candidates[at[k]]
  BY OrderedShape
<1>2. PICK m, n \in Nat :
        /\ m = Len(pool) /\ n = Len(candidates) /\ DOMAIN candidates = 1..n
        /\ n = (IF m < Cap THEN m ELSE Cap)
        /\ Len(overflow) = IF m < Cap THEN 0 ELSE m - Cap
  BY <1>0, Zenon
<1>3. n <= m /\ n <= Cap /\ Len(overflow) = m - n /\ (m # n => n = Cap)
  BY <1>2, CountsAssumption
<1>4. at \in Bijection(1..n, 1..n)
  BY <1>1, <1>2
<1>5. at \in [1..n -> 1..n]
  BY <1>4 DEF Bijection, Injection
<1> DEFINE All == [k \in 1..m |-> IF k <= n THEN at[k] ELSE k]
<1>6. All \in Bijection(1..m, 1..m)
  BY <1>3, <1>4, ExtendedPermutation
<1>7. /\ response \in Seq(RankedItem) /\ Len(response) = m
      /\ \A k \in 1..m : response[k] = IF k <= n THEN Ordered(score)[k] ELSE Appended[k - n]
  <2> DEFINE o == Ordered(score)
             a == Appended
  <2>1. /\ o \in Seq(RankedItem) /\ Len(o) = n
        /\ a \in Seq(RankedItem) /\ Len(a) = m - n
    BY <1>2, <1>3, OrderedShape, AppendedShape
  <2> HIDE DEF o, a
  <2>2. /\ o \o a \in Seq(RankedItem) /\ Len(o \o a) = n + (m - n)
        /\ \A k \in 1..n + (m - n) : (o \o a)[k] = IF k <= n THEN o[k] ELSE a[k - n]
    <3>1. /\ o \o a \in Seq(RankedItem) /\ Len(o \o a) = Len(o) + Len(a)
          /\ \A k \in 1..Len(o) + Len(a) : (o \o a)[k] = IF k <= Len(o) THEN o[k] ELSE a[k - Len(o)]
      BY <2>1, ConcatProperties, Zenon
    <3> QED BY <2>1, <3>1
  <2>3. n + (m - n) = m
    OBVIOUS
  <2> QED BY <2>2, <2>3 DEF o, a
<1>8. ASSUME NEW k \in 1..m PROVE response[k].id = pool[All[k]] /\ (k > Cap => All[k] = k)
  <2>1. CASE k <= n
    <3>1. k \in 1..n
      BY <2>1
    <3>2. at[k] \in 1..n /\ All[k] = at[k]
      BY <1>5, <2>1, <3>1
    <3>3. response[k].id = candidates[at[k]]
      BY <1>1, <1>2, <1>7, <2>1, <3>1
    <3>4. candidates[at[k]] = pool[at[k]]
      BY <1>2, <3>2, PartsOfPool
    <3>5. ~(k > Cap)
      BY <1>3, <2>1, CountsAssumption
    <3> QED BY <3>2, <3>3, <3>4, <3>5
  <2>2. CASE ~(k <= n)
    <3>1. k - n \in 1..m - n /\ n = Cap /\ Cap + (k - n) = k
      BY <1>3, <2>2
    <3>2. response[k].id = overflow[k - n]
      BY <1>3, <1>7, <2>2, <3>1, AppendedShape
    <3>3. overflow[k - n] = pool[k]
      BY <1>3, <3>1, PartsOfPool
    <3>4. All[k] = k
      BY <2>2
    <3> QED BY <3>2, <3>3, <3>4
  <2> QED BY <2>1, <2>2
<1> HIDE DEF All, response
<1>9. \E f \in Bijection(1..m, 1..m) :
        \A k \in 1..m : response[k].id = pool[f[k]] /\ (k > Cap => f[k] = k)
  BY <1>6, <1>8
<1>10. ASSUME NEW j \in 1..m, NEW k \in 1..m, j <= k, k <= Cap
       PROVE  response[j].score >= response[k].score
  <2>1. j \in 1..n /\ k \in 1..n
    BY <1>2, <1>10, CountsAssumption
  <2>2. response[j] = Ordered(score)[j] /\ response[k] = Ordered(score)[k]
    BY <1>7, <1>10, <2>1
  <2>3. Ordered(score)[j].score >= Ordered(score)[k].score
    BY <1>2, <1>10, <2>1, OrderedShape
  <2> QED BY <2>2, <2>3
<1>11. ASSUME NEW k \in 1..m, k > Cap PROVE response[k].score = Zero
  <2>1. ~(k <= n) /\ k - n \in 1..m - n
    BY <1>3, <1>11, CountsAssumption
  <2>2. response[k] = Appended[k - n]
    BY <1>7, <1>11, <2>1
  <2>3. Appended[k - n].score = Zero
    BY <1>3, <2>1, AppendedShape
  <2> QED BY <2>2, <2>3
<1> QED BY <1>2, <1>7, <1>9, <1>10, <1>11 DEF response

(* A permutation of positions keeps how often each thing occurs.           *)
LEMMA SameOccurrences ==
  ASSUME NEW n \in Nat, NEW s, NEW t, DOMAIN s = 1..n, DOMAIN t = 1..n,
         NEW at \in Bijection(1..n, 1..n), \A k \in 1..n : s[k] = t[at[k]],
         NEW x
  PROVE  Occurrences(s, x) = Occurrences(t, x)
<1> DEFINE S == {k \in 1..n : s[k] = x}
           T == {k \in 1..n : t[k] = x}
           f == [k \in S |-> at[k]]
<1>1. /\ at \in [1..n -> 1..n] /\ \A k, l \in 1..n : at[k] = at[l] => k = l
      /\ \A i \in 1..n : \E k \in 1..n : at[k] = i
  BY DEF Bijection, Injection, Surjection, IsInjective
<1>2. f \in [S -> T]
  BY <1>1
<1>3. \A k, l \in S : f[k] = f[l] => k = l
  BY <1>1
<1>4. \A i \in T : \E k \in S : f[k] = i
  BY SMTT(30), <1>1
<1>5. IsFiniteSet(S)
  BY FS_Interval, FS_Subset
<1>6. Cardinality(S) = Cardinality(T)
  <2> HIDE DEF S, T, f
  <2>1. f \in Bijection(S, T)
    BY <1>2, <1>3, <1>4 DEF Bijection, Injection, Surjection, IsInjective
  <2> QED BY <1>5, <2>1, FS_Bijection DEF ExistsBijection
<1> QED BY <1>6 DEF Occurrences

(* What a run of the job has read.                                         *)
LEMMA BuildTypes ==
  ASSUME Build, liked \in [JobRun -> SUBSET Article]
  PROVE  liked' \in [JobRun -> SUBSET Article]
<1>1. PICK c \in (SUBSET Article) \ {{}} :
        \E l \in SUBSET c : /\ catalog' = [catalog EXCEPT ![gen + 1] = c]
                           /\ liked' = [liked EXCEPT ![gen + 1] = l]
                           /\ unwritten' = [unwritten EXCEPT ![gen + 1] = c]
  BY DEF Build
<1>2. PICK l \in SUBSET c : liked' = [liked EXCEPT ![gen + 1] = l]
  BY <1>1
<1> QED BY <1>1, <1>2

(* What a row or a run of the job can be, also where runs overlap.         *)
LEMMA StateTypesStep == StateTypes /\ [Next]_vars => StateTypes'
<1> SUFFICES ASSUME StateTypes, [Next]_vars PROVE StateTypes'
  OBVIOUS
<1> USE DEF StateTypes
<1>1. CASE Build
  <2>1. gen + 1 \in JobRun /\ gen' = gen + 1 /\ gen' \in Written
    BY <1>1, CountsAssumption DEF Build, Written, JobRun
  <2>2. PICK c \in SUBSET Article : /\ catalog' = [catalog EXCEPT ![gen + 1] = c]
                                   /\ unwritten' = [unwritten EXCEPT ![gen + 1] = c]
    BY <1>1 DEF Build
  <2>3. /\ catalog' \in [JobRun -> SUBSET Article] /\ unwritten' \in [JobRun -> SUBSET Article]
        /\ job' \in [JobRun -> {"idle", "articles", "users"}]
    BY <1>1, <2>2 DEF Build
  <2> QED BY <1>1, <2>1, <2>3 DEF Build, store, request
<1>2. ASSUME NEW g \in JobRun, \/ ArticleRowsWritten(g) \/ WriteUserRow(g) \/ BuildFails(g)
                              \/ \E a \in Article : WriteArticleRow(g, a)
      PROVE  StateTypes'
  <2>1. g \in Written
    BY CountsAssumption DEF JobRun, Written
  <2>2. articleRow' \in [Article -> Written] /\ userRow' \in Written
    BY <1>2, <2>1 DEF ArticleRowsWritten, WriteUserRow, BuildFails, WriteArticleRow, store
  <2>3. /\ job' \in [JobRun -> {"idle", "articles", "users"}]
        /\ unwritten' \in [JobRun -> SUBSET Article]
    BY <1>2 DEF ArticleRowsWritten, WriteUserRow, BuildFails, WriteArticleRow
  <2>4. UNCHANGED <<catalog, gen, seenUser, seenRow>>
    BY <1>2 DEF ArticleRowsWritten, WriteUserRow, BuildFails, WriteArticleRow, request
  <2> QED BY <2>2, <2>3, <2>4
<1>3. CASE UserRowExpires \/ \E a \in Article : ArticleRowExpires(a)
  <2>1. 0 \in Written
    BY CountsAssumption DEF Written
  <2> QED BY <1>3, <2>1 DEF UserRowExpires, ArticleRowExpires, materializer, request
<1>4. CASE \/ Receive \/ ReadUserRow \/ ReadUserVector \/ ReadArticleRows \/ ReadArticleVectors
           \/ StoreFails \/ Rank \/ LoadModel \/ UNCHANGED vars
  <2>1. UNCHANGED <<articleRow, userRow, catalog, job, gen, unwritten>>
    BY <1>4 DEF Receive, ReadUserRow, ReadUserVector, ReadArticleRows, ReadArticleVectors,
                StoreFails, Rank, LoadModel, vars, Outside, store, materializer
  <2>2. 0 \in Written
    BY CountsAssumption DEF Written
  <2>3. seenUser' \in Written /\ seenRow' \in [Article -> Written]
    BY <1>4, <2>2
       DEF Receive, ReadUserRow, ReadUserVector, ReadArticleRows, ReadArticleVectors,
           StoreFails, Rank, LoadModel, vars, request
  <2> QED BY <2>1, <2>3
<1> QED BY <1>1, <1>2, <1>3, <1>4 DEF Next

LEMMA TypeStep == TypeOK /\ [Next]_vars => TypeOK'
<1> SUFFICES ASSUME StateTypes', TypeOK, [Next]_vars
             PROVE  /\ loaded' \in BOOLEAN /\ liked' \in [JobRun -> SUBSET Article]
                    /\ pc' \in {"user_row", "user_vector", "article_rows", "article_vectors",
                                "score", "done"}
                    /\ pool' \in Pool /\ status' \in {0, 200, 503}
                    /\ ranked' \in Seq(RankedItem)
  BY StateTypesStep DEF StateTypes, TypeOK
<1> USE DEF TypeOK
<1>1. CASE LoadModel
  BY <1>1 DEF LoadModel, materializer, request
<1>2. CASE Build
  <2>2. UNCHANGED <<loaded, pc, pool, status, ranked>>
    BY <1>2 DEF Build, model, request
  <2>3. liked' \in [JobRun -> SUBSET Article]
    BY <1>2, BuildTypes
  <2> QED BY <2>2, <2>3
<1>3. CASE \/ \E g \in JobRun : \/ \E a \in Article : WriteArticleRow(g, a)
                               \/ ArticleRowsWritten(g) \/ WriteUserRow(g) \/ BuildFails(g)
           \/ UserRowExpires \/ \E a \in Article : ArticleRowExpires(a)
  <2>1. UNCHANGED <<loaded, liked, pc, pool, status, ranked>>
    BY <1>3
       DEF ArticleRowsWritten, WriteUserRow, BuildFails, UserRowExpires, WriteArticleRow,
           ArticleRowExpires, model, materializer, request
  <2> QED BY <2>1
<1>4. CASE Receive
  <2>1. PICK p \in Pool : pool' = p /\ pc' \in {"done", "user_row"} /\ status' \in {0, 200, 503}
    BY <1>4 DEF Receive
  <2>2. UNCHANGED <<loaded, liked>> /\ ranked' = <<>>
    BY <1>4 DEF Receive, Outside, model, materializer
  <2> QED BY <2>1, <2>2
<1>5. CASE ReadUserRow \/ ReadUserVector \/ ReadArticleRows \/ ReadArticleVectors \/ StoreFails
  BY <1>5
     DEF ReadUserRow, ReadUserVector, ReadArticleRows, ReadArticleVectors, StoreFails, Outside,
         model, materializer
<1>6. CASE Rank
  <2>1. PICK score \in [Article -> Scores] : ranked' = Ordered(score) \o Appended
    BY <1>6 DEF Rank
  <2>2. ranked' \in Seq(RankedItem)
    BY <2>1, ResponseShape
  <2>3. pc' = "done" /\ status' = 200 /\ UNCHANGED <<loaded, liked, pool>>
    BY <1>6 DEF Rank, Outside, model, materializer
  <2> QED BY <2>2, <2>3
<1>7. CASE UNCHANGED vars
  BY <1>7 DEF vars, model, materializer, request
<1> QED BY <1>1, <1>2, <1>3, <1>4, <1>5, <1>6, <1>7 DEF Next

(* Also the items of a response have ids and scores there are, which rests *)
(* on every place of the order being taken.                                *)
THEOREM TypeCorrect == Spec => []TypeOK
<1>1. Init => TypeOK
  <2> SUFFICES ASSUME Init PROVE TypeOK
    OBVIOUS
  <2>1. pool \in Pool
    <3>1. pool \in [1..0 -> Article] /\ 0 \in 0..MaxPool
      BY CountsAssumption DEF Init
    <3> QED BY <3>1 DEF Pool
  <2>2. StateTypes
    BY InitEstablishes DEF IInv
  <2>3. liked \in [JobRun -> SUBSET Article] /\ loaded \in BOOLEAN
    BY DEF Init
  <2> QED BY <2>1, <2>2, <2>3 DEF Init, TypeOK, StateTypes
<1> QED BY <1>1, TypeStep, PTL DEF Spec

LEMMA BackStep == TypeOK /\ EveryCandidateBack /\ [Next]_vars => EveryCandidateBack'
<1> SUFFICES ASSUME TypeOK, EveryCandidateBack, [Next]_vars PROVE EveryCandidateBack'
  OBVIOUS
<1>1. CASE Rank
  <2>1. PICK score \in [Article -> Scores] : ranked' = Ordered(score) \o Appended
    BY <1>1 DEF Rank
  <2>2. pool \in Pool /\ pool' = pool
    BY <1>1 DEF TypeOK, Rank
  <2> DEFINE m == Len(pool)
             back == [k \in DOMAIN ranked' |-> ranked'[k].id]
  <2>3. /\ m \in Nat /\ DOMAIN pool = 1..m /\ ranked' \in Seq(RankedItem) /\ Len(ranked') = m
        /\ DOMAIN ranked' = 1..m
    <3>1. m \in Nat /\ DOMAIN pool = 1..m
      BY <2>2, PartsOfPool
    <3>2. ranked' \in Seq(RankedItem) /\ Len(ranked') = m
      BY <2>1, <2>2, ResponseShape
    <3> HIDE DEF m
    <3> QED BY <3>1, <3>2
  <2>4. PICK at \in Bijection(1..m, 1..m) :
          \A k \in 1..m : ranked'[k].id = pool[at[k]] /\ (k > Cap => at[k] = k)
    BY <2>1, <2>2, ResponseShape
  <2> HIDE DEF m
  <2>5. DOMAIN back = 1..m /\ \A k \in 1..m : back[k] = pool[at[k]]
    BY <2>3, <2>4
  <2>6. \A a \in Article : Occurrences(back, a) = Occurrences(pool, a)
    <3> HIDE DEF back
    <3>1. \A k \in 1..m : back[k] = pool[at[k]]
      BY <2>5
    <3>2. DOMAIN back = 1..m /\ DOMAIN pool = 1..m /\ m \in Nat
      BY <2>3, <2>5
    <3> SUFFICES ASSUME NEW a \in Article PROVE Occurrences(back, a) = Occurrences(pool, a)
      OBVIOUS
    <3> QED BY <3>1, <3>2, SameOccurrences
  <2>7. \A k \in 1..m : back[k] \in Article
    <3>1. \A k \in 1..m : ranked'[k] \in RankedItem
      BY <2>3
    <3> QED BY <2>3, <3>1 DEF RankedItem
  <2>8. SubSeq(back, Cap + 1, m) = overflow
    <3>1. /\ overflow \in Seq(Article) /\ Len(overflow) = IF m < Cap THEN 0 ELSE m - Cap
          /\ \A i \in 1..Len(overflow) : overflow[i] = pool[Cap + i]
      BY <2>2, PartsOfPool DEF m
    <3> DEFINE rest == SubSeq(back, Cap + 1, m)
    <3>2. \A i \in Cap + 1..m : back[i] \in Article
      BY <2>3, <2>7, CountsAssumption
    <3> HIDE DEF back
    <3>3. /\ rest \in Seq(Article)
          /\ Len(rest) = IF Cap + 1 <= m THEN m - (Cap + 1) + 1 ELSE 0
          /\ \A i \in 1..m - (Cap + 1) + 1 : rest[i] = back[Cap + 1 + i - 1]
      BY <2>3, <3>2, SubSeqProperties, CountsAssumption
    <3>4. Len(rest) = Len(overflow) /\ Len(rest) \in Nat
      BY <2>3, <3>1, <3>3, CountsAssumption
    <3>5. ASSUME NEW i \in 1..Len(rest) PROVE rest[i] = overflow[i]
      <4>1. /\ i \in 1..m - (Cap + 1) + 1 /\ Cap + 1 + i - 1 = Cap + i
            /\ Cap + i \in 1..m /\ Cap + i > Cap
        BY <2>3, <3>3, <3>4, CountsAssumption
      <4>2. rest[i] = back[Cap + i]
        BY <3>3, <4>1
      <4>3. back[Cap + i] = pool[Cap + i]
        BY <2>4, <2>5, <4>1
      <4> QED BY <3>1, <3>4, <4>2, <4>3
    <3> HIDE DEF rest
    <3>6. rest = overflow
      BY <3>1, <3>3, <3>4, <3>5, SeqEqual
    <3> QED BY <3>6 DEF rest
  <2>9. overflow' = overflow
    BY <2>2 DEF overflow
  <2>10. Len(back) = m
    BY <2>3, <2>5
  <2> QED BY <2>2, <2>6, <2>8, <2>9, <2>10 DEF EveryCandidateBack
<1>2. CASE Receive
  <2>1. status' = 200 => pool' = <<>> /\ ranked' = <<>>
    BY <1>2 DEF Receive
  <2>2. ASSUME pool' = <<>>, ranked' = <<>> PROVE EveryCandidateBack'
    <3>1. overflow' = <<>>
      <4>1. 0 < Cap + 1 /\ Cap + 1 \in Int /\ Len(<<>>) = 0
        BY CountsAssumption
      <4>2. SubSeq(<<>>, Cap + 1, 0) = <<>>
        BY <4>1, SubSeqEmpty
      <4> QED BY <2>2, <4>1, <4>2 DEF overflow
    <3>2. [k \in DOMAIN ranked' |-> ranked'[k].id] = <<>>
      BY <2>2
    <3>3. SubSeq(<<>>, Cap + 1, Len(<<>>)) = <<>>
      <4>1. 0 < Cap + 1 /\ Cap + 1 \in Int /\ Len(<<>>) = 0
        BY CountsAssumption
      <4> QED BY <4>1, SubSeqEmpty
    <3> QED BY <2>2, <3>1, <3>2, <3>3 DEF EveryCandidateBack
  <2> QED BY <2>1, <2>2 DEF EveryCandidateBack
<1>3. CASE StoreFails
  BY <1>3 DEF StoreFails, EveryCandidateBack
<1>4. CASE ~Rank /\ ~Receive /\ ~StoreFails
  <2>1. UNCHANGED <<pool, status, ranked>>
    BY <1>4
       DEF Next, LoadModel, Build, ArticleRowsWritten, WriteUserRow, BuildFails, UserRowExpires,
           WriteArticleRow, ArticleRowExpires, ReadUserRow, ReadUserVector, ReadArticleRows,
           ReadArticleVectors, request, vars
  <2> QED BY <2>1 DEF EveryCandidateBack, overflow
<1> QED BY <1>1, <1>2, <1>3, <1>4

(* "Every id that comes in comes back out" (routes.py, header), as often   *)
(* as it came in, for any model and any mixture of equal scores, of rows   *)
(* that are there and rows that are not, and with the rest of a long pool  *)
(* behind the others as it was.                                            *)
THEOREM EveryCandidateBackTheorem == Spec => []EveryCandidateBack
<1>1. Init => EveryCandidateBack
  BY DEF Init, EveryCandidateBack
<1> QED BY <1>1, TypeCorrect, BackStep, PTL DEF Spec

LEMMA MisorderStep ==
  TypeOK /\ OnlyTheCapMisorders /\ [Next]_vars => OnlyTheCapMisorders'
<1> SUFFICES ASSUME TypeOK, OnlyTheCapMisorders, [Next]_vars PROVE OnlyTheCapMisorders'
  OBVIOUS
<1>1. CASE Rank
  <2>1. PICK score \in [Article -> Scores] : ranked' = Ordered(score) \o Appended
    BY <1>1 DEF Rank
  <2> DEFINE m == Len(pool)
  <2>2. pool \in Pool /\ m \in Nat
    BY PartsOfPool DEF TypeOK
  <2>3. ranked' \in Seq(RankedItem) /\ Len(ranked') = m
    BY <2>1, <2>2, ResponseShape
  <2>4. /\ \A j, k \in 1..m : j <= k /\ k <= Cap => ranked'[j].score >= ranked'[k].score
        /\ \A k \in 1..m : k > Cap => ranked'[k].score = Zero
    BY <2>1, <2>2, ResponseShape
  <2> HIDE DEF m
  <2>5. DOMAIN ranked' = 1..m /\ \A k \in 1..m : ranked'[k].score \in Nat
    <3>1. DOMAIN ranked' = 1..m /\ \A k \in 1..m : ranked'[k] \in RankedItem
      BY <2>3, Domain
    <3> QED BY <3>1, ScoresAssumption DEF RankedItem
  <2>6. ASSUME NEW j \in 1..m, NEW k \in 1..m, j < k, ranked'[j].score < ranked'[k].score
        PROVE  j <= Cap /\ k > Cap /\ ranked'[j].score < Zero
    <3>1. ranked'[j].score \in Nat /\ ranked'[k].score \in Nat /\ Cap \in Nat /\ Zero \in Nat
      BY <2>5, CountsAssumption, ScoresAssumption
    <3>2. k > Cap
      BY <2>2, <2>4, <2>6, <3>1
    <3>3. ranked'[k].score = Zero
      BY <2>4, <3>2
    <3>4. j <= Cap
      BY <2>2, <2>4, <2>6, <3>1, <3>3
    <3> QED BY <2>6, <3>2, <3>3, <3>4
  <2> QED BY <2>5, <2>6 DEF OnlyTheCapMisorders
<1>2. CASE Receive
  <2>1. ranked' = <<>>
    BY <1>2 DEF Receive
  <2> QED BY <2>1 DEF OnlyTheCapMisorders
<1>3. CASE ~Rank /\ ~Receive
  <2>1. UNCHANGED ranked
    BY <1>3
       DEF Next, LoadModel, Build, ArticleRowsWritten, WriteUserRow, BuildFails, UserRowExpires,
           WriteArticleRow, ArticleRowExpires, ReadUserRow, ReadUserVector, ReadArticleRows,
           ReadArticleVectors, StoreFails, request, vars
  <2> QED BY <2>1 DEF OnlyTheCapMisorders
<1> QED BY <1>1, <1>2, <1>3

(* For any model, any cap and any pool: what was scored is in descending   *)
(* order, and an id past the cap outranks by its 0.0 only negative scores  *)
(* (routes.py:81,91).                                                      *)
THEOREM OnlyTheCapMisordersTheorem == Spec => []OnlyTheCapMisorders
<1>1. Init => OnlyTheCapMisorders
  BY DEF Init, OnlyTheCapMisorders
<1> QED BY <1>1, TypeCorrect, MisorderStep, PTL DEF Spec
==============================================================================
