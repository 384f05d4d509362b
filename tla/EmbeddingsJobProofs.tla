-------------------------- MODULE EmbeddingsJobProofs --------------------------
(***************************************************************************)
(* Machine-checked proofs about EmbeddingsJob, for every catalog, page     *)
(* size, early stop, --max-articles and number of failures.  With one run  *)
(* at a time, texts that are not turned back and an encoder of the right   *)
(* width, what a run skips is embedded as it reads now.  With any number   *)
(* of runs over a listing that only grows at its top, nothing unknown is   *)
(* left behind what is known.                                              *)
(***************************************************************************)
EXTENDS EmbeddingsFullRun, FiniteSetTheorems, TLAPS

LEMMA NothingType == Nothing \in [Article -> Revision] /\ \A a \in Article : Nothing[a] = 0
BY SizeAssumption DEF Nothing, Revision

LEMMA InitIInv == Init => IInv
<1> SUFFICES ASSUME Init PROVE IInv
  OBVIOUS
<1>1. TypeOK
  BY SizeAssumption, NothingType DEF Init, TypeOK, Step
<1>2. OrderInv /\ CarriedInv /\ TodoInv
  BY NothingType DEF Init, OrderInv, CarriedInv, TodoInv
<1> QED BY <1>1, <1>2 DEF IInv

LEMMA EndType ==
  ASSUME TypeOK, NEW r \in Runner, End(r)
  PROVE  /\ pc' \in [Runner -> Step] /\ full' \in [Runner -> BOOLEAN]
         /\ known' \in [Runner -> [Article -> Revision]]
         /\ offset' \in [Runner -> Nat] /\ clean' \in [Runner -> Nat]
         /\ pending' \in [Runner -> [Article -> Revision]]
         /\ todo' \in [Runner -> SUBSET Article]
BY NothingType DEF TypeOK, End, Step

LEMMA AccountType ==
  ASSUME TypeOK, NEW r \in Runner, NEW S
  PROVE  /\ Account(r, S) \in [Article -> Revision]
         /\ \A a \in Article : Account(r, S)[a] = text[a] \/ Account(r, S)[a] = pending[r][a]
BY SizeAssumption DEF TypeOK, Account, Revision

LEMMA EncodeType ==
  ASSUME TypeOK, NEW r \in Runner, NEW p \in [Article -> Revision], Encode(r, p)
  PROVE  /\ pc' \in [Runner -> Step] /\ full' \in [Runner -> BOOLEAN]
         /\ known' \in [Runner -> [Article -> Revision]]
         /\ offset' \in [Runner -> Nat] /\ clean' \in [Runner -> Nat]
         /\ pending' \in [Runner -> [Article -> Revision]]
         /\ todo' \in [Runner -> SUBSET Article]
<1>1. CASE p = Nothing
  BY <1>1, EndType DEF Encode
<1>2. CASE p # Nothing
  <2>1. /\ pending' = [pending EXCEPT ![r] = p] /\ UNCHANGED <<full, known, offset, clean>>
        /\ pc' = [pc EXCEPT ![r] = "vectors"]
        /\ \E S \in SUBSET Article : todo' = [todo EXCEPT ![r] = S]
    BY <1>2 DEF Encode
  <2>2. pc' \in [Runner -> Step]
    BY <2>1 DEF TypeOK, Step
  <2>3. pending' \in [Runner -> [Article -> Revision]] /\ todo' \in [Runner -> SUBSET Article]
    BY <2>1 DEF TypeOK
  <2> QED BY <2>1, <2>2, <2>3 DEF TypeOK
<1> QED BY <1>1, <1>2

LEMMA FaultType == ASSUME TypeOK, Fault PROVE faults' \in 0..MaxFaults
BY SizeAssumption DEF TypeOK, Fault

LEMMA NextType == TypeOK /\ [Next]_vars => TypeOK'
<1> SUFFICES ASSUME TypeOK, [Next]_vars PROVE TypeOK'
  OBVIOUS
<1> USE DEF catalog, store, walk
<1>1. ASSUME NEW a \in Article, PublishArticle(a) \/ UnpublishArticle(a) PROVE TypeOK'
  <2>1. a \in 0..Articles
    BY SizeAssumption DEF Article
  <2>2. listed' \subseteq Article /\ created' \in 0..Articles
    BY <1>1, <2>1 DEF PublishArticle, UnpublishArticle, TypeOK
  <2> QED BY <1>1, <2>2 DEF PublishArticle, UnpublishArticle, TypeOK
<1>2. ASSUME NEW a \in Article, EditArticle(a) PROVE TypeOK'
  <2>1. text' \in [Article -> 1..MaxText]
    BY <1>2 DEF EditArticle, TypeOK
  <2> QED BY <1>2, <2>1 DEF EditArticle, TypeOK
<1>3. ASSUME NEW r \in Runner, NEW f \in Modes, Start(r, f) PROVE TypeOK'
  <2>1. pc' \in [Runner -> Step]
    BY <1>3 DEF Start, TypeOK, Step
  <2>2. known' \in [Runner -> [Article -> Revision]]
    BY <1>3, NothingType DEF Start, TypeOK
  <2>3. full' \in [Runner -> BOOLEAN]
    BY <1>3, ModesAssumption DEF Start, TypeOK
  <2> QED BY <1>3, <2>1, <2>2, <2>3 DEF Start, TypeOK
<1>4. ASSUME NEW r \in Runner, LastPage(r) PROVE TypeOK'
  BY <1>4, AccountType, EncodeType DEF LastPage, TypeOK
<1>5. ASSUME NEW r \in Runner, NextPage(r) PROVE TypeOK'
  <2>1. pending' \in [Runner -> [Article -> Revision]]
    BY <1>5, AccountType DEF NextPage, TypeOK
  <2>2. CleanPages(r, Taken(r)) \in Nat
    BY DEF CleanPages, TypeOK
  <2>3. clean' \in [Runner -> Nat] /\ offset' \in [Runner -> Nat]
    BY <1>5, <2>2, SizeAssumption DEF NextPage, TypeOK
  <2> QED BY <1>5, <2>1, <2>3 DEF NextPage, TypeOK
<1>6. ASSUME NEW r \in Runner, SetEmbedding(r) PROVE TypeOK'
  BY <1>6 DEF SetEmbedding, TypeOK
<1>7. ASSUME NEW r \in Runner, EmbeddingsWritten(r) \/ SetFingerprints(r) PROVE TypeOK'
  <2>1. pc' \in [Runner -> Step]
    BY <1>7 DEF EmbeddingsWritten, SetFingerprints, TypeOK, Step
  <2>2. pending[r] \in [Article -> Revision] /\ fp \in [Article -> Revision]
    BY DEF TypeOK
  <2>3. CASE EmbeddingsWritten(r)
    BY <2>1, <2>2, <2>3 DEF EmbeddingsWritten, TypeOK
  <2>4. CASE SetFingerprints(r)
    <3>1. fp' = [a \in Article |-> IF pending[r][a] # 0 THEN pending[r][a] ELSE fp[a]]
      BY <2>4 DEF SetFingerprints
    <3>2. fp' \in [Article -> Revision]
      BY <2>2, <3>1
    <3> QED BY <2>1, <2>4, <3>2 DEF SetFingerprints, TypeOK
  <2> QED BY <1>7, <2>3, <2>4
<1>8. ASSUME NEW r \in Runner, MarkFresh(r) \/ WalkFails(r) \/ Kill(r) PROVE TypeOK'
  <2>1. faults' \in 0..MaxFaults
    BY <1>8, FaultType DEF MarkFresh, WalkFails, Kill, TypeOK
  <2> QED BY <1>8, <2>1, EndType DEF MarkFresh, WalkFails, Kill, TypeOK
<1>9. CASE UNCHANGED vars
  BY <1>9 DEF vars, TypeOK
<1> QED
  BY <1>1, <1>2, <1>3, <1>4, <1>5, <1>6, <1>7, <1>8, <1>9 DEF Next, Run

-------------------------------------------------------------------------------
(* What the theorem assumes of its environment.                            *)
OneRunner == \A r, q \in Runner : r = q

LEMMA EndKeeps ==
  ASSUME IInv, OneRunner, NEW r \in Runner, End(r), UNCHANGED <<vec, fp, text>>
  PROVE  OrderInv' /\ CarriedInv' /\ TodoInv'
<1>1. \A q \in Runner : q = r
  BY DEF OneRunner
<1>2. pending'[r] = Nothing /\ todo'[r] = {}
  BY DEF End, IInv, TypeOK
<1>3. OrderInv'
  BY DEF IInv, OrderInv
<1> QED BY <1>1, <1>2, <1>3, NothingType DEF CarriedInv, TodoInv

LEMMA PageKeeps ==
  ASSUME IInv, OneRunner, Misshapen = {}, NEW r \in Runner, LastPage(r) \/ NextPage(r)
  PROVE  OrderInv' /\ CarriedInv' /\ TodoInv'
<1> USE DEF IInv
<1>1. UNCHANGED <<vec, fp, text>> /\ pc[r] = "walk" /\ \A q \in Runner : q = r
  BY DEF LastPage, NextPage, catalog, store, OneRunner
<1>2. OrderInv'
  BY <1>1 DEF OrderInv
<1> DEFINE p == Account(r, Taken(r))
<1>3. /\ p \in [Article -> Revision]
      /\ \A a \in Article : p[a] = text[a] \/ p[a] = pending[r][a]
  BY AccountType
<1>4. \A a \in Article : p[a] # 0 => vec[a] <= p[a] /\ p[a] <= text[a]
  <2> SUFFICES ASSUME NEW a \in Article, p[a] # 0
               PROVE  vec[a] <= p[a] /\ p[a] <= text[a]
    OBVIOUS
  <2>1. CASE p[a] = text[a]
    <3>1. text[a] \in 1..MaxText /\ vec[a] <= text[a]
      BY DEF TypeOK, OrderInv
    <3> QED BY <2>1, <3>1
  <2>2. CASE p[a] = pending[r][a]
    BY <2>2 DEF CarriedInv
  <2> QED BY <1>3, <2>1, <2>2
<1> HIDE DEF p
<1>5. CASE End(r)
  BY <1>1, <1>5, EndKeeps
<1>6. CASE NextPage(r)
  <2>1. pending'[r] = p /\ pc'[r] = "walk" /\ todo'[r] = {}
    BY <1>1, <1>6 DEF NextPage, TypeOK, TodoInv, p
  <2> QED BY <1>1, <1>2, <1>4, <2>1 DEF CarriedInv, TodoInv
<1>7. CASE LastPage(r) /\ ~End(r)
  <2>1. /\ pending'[r] = p /\ pc'[r] = "vectors"
        /\ todo'[r] = {a \in Article : p[a] # 0} \ Misshapen
    BY <1>7 DEF LastPage, Encode, TypeOK, p
  <2> QED BY <1>1, <1>2, <1>4, <2>1 DEF CarriedInv, TodoInv
<1> QED BY <1>5, <1>6, <1>7

LEMMA WriteKeeps ==
  ASSUME IInv, OneRunner, NEW r \in Runner, SetEmbedding(r)
  PROVE  OrderInv' /\ CarriedInv' /\ TodoInv'
<1> USE DEF IInv
<1>1. PICK a \in todo[r] : /\ vec' = [vec EXCEPT ![a] = pending[r][a]]
                           /\ todo' = [todo EXCEPT ![r] = @ \ {a}]
  BY DEF SetEmbedding
<1>2. /\ UNCHANGED <<fp, text, pc, pending>> /\ pc[r] = "vectors"
      /\ \A q \in Runner : q = r
  BY DEF SetEmbedding, catalog, OneRunner
<1>3. a \in Article /\ todo'[r] = todo[r] \ {a} /\ vec'[a] = pending[r][a]
      /\ \A b \in Article : b # a => vec'[b] = vec[b]
  BY <1>1 DEF TypeOK
<1>4. pending[r][a] # 0 /\ vec[a] <= pending[r][a] /\ pending[r][a] <= text[a]
  BY <1>1, <1>3 DEF TodoInv, CarriedInv
<1>5. /\ pending[r][a] \in Nat /\ vec[a] \in Nat /\ fp[a] \in Nat /\ text[a] \in Nat
      /\ fp[a] <= vec[a]
  BY <1>3, SizeAssumption DEF TypeOK, Revision, OrderInv
<1>6. OrderInv'
  BY <1>2, <1>3, <1>4, <1>5 DEF OrderInv
<1>7. CarriedInv'
  <2> SUFFICES ASSUME NEW b \in Article, pending[r][b] # 0
               PROVE  /\ vec'[b] <= pending[r][b] /\ pending[r][b] <= text[b]
                      /\ b \in todo'[r] \/ vec'[b] = pending[r][b]
    BY <1>2 DEF CarriedInv
  <2>1. CASE b = a
    BY <1>3, <1>4, <1>5, <2>1
  <2>2. CASE b # a
    BY <1>2, <1>3, <2>2 DEF CarriedInv
  <2> QED BY <2>1, <2>2
<1>8. TodoInv'
  BY <1>2, <1>3 DEF TodoInv
<1> QED BY <1>6, <1>7, <1>8

LEMMA FingerprintKeeps ==
  ASSUME IInv, OneRunner, NEW r \in Runner, EmbeddingsWritten(r) \/ SetFingerprints(r)
  PROVE  OrderInv' /\ CarriedInv' /\ TodoInv'
<1> USE DEF IInv
<1>1. /\ UNCHANGED <<vec, text, pending, todo>> /\ \A q \in Runner : q = r
      /\ todo[r] = {} /\ pc'[r] \in {"fingerprints", "stamp"}
      /\ pc[r] \in {"vectors", "fingerprints"}
  BY DEF EmbeddingsWritten, SetFingerprints, catalog, store, walk, OneRunner, TypeOK, TodoInv
<1>2. \A a \in Article : pending[r][a] # 0 => vec[a] = pending[r][a]
  BY <1>1 DEF CarriedInv
<1>3. \A a \in Article : fp'[a] = fp[a] \/ (pending[r][a] # 0 /\ fp'[a] = pending[r][a])
  BY DEF EmbeddingsWritten, SetFingerprints, store, TypeOK
<1>4. OrderInv'
  <2> SUFFICES ASSUME NEW a \in Article PROVE fp'[a] <= vec[a] /\ vec[a] <= text[a]
    BY <1>1 DEF OrderInv
  <2>1. vec[a] \in Nat
    BY SizeAssumption DEF TypeOK, Revision
  <2> QED BY <1>2, <1>3, <2>1 DEF OrderInv
<1>5. CarriedInv'
  BY <1>1, <1>2 DEF CarriedInv
<1>6. TodoInv'
  BY <1>1 DEF TodoInv
<1> QED BY <1>4, <1>5, <1>6

LEMMA NextIInv ==
  ASSUME OneRunner, ~Revert, Misshapen = {}
  PROVE  IInv /\ [Next]_vars => IInv'
<1> SUFFICES ASSUME IInv, [Next]_vars PROVE OrderInv' /\ CarriedInv' /\ TodoInv'
  BY NextType DEF IInv
<1>1. ASSUME NEW a \in Article, PublishArticle(a) \/ UnpublishArticle(a)
      PROVE  OrderInv' /\ CarriedInv' /\ TodoInv'
  <2>1. UNCHANGED <<text, vec, fp, pc, pending, todo>>
    BY <1>1 DEF PublishArticle, UnpublishArticle, store, walk
  <2> QED BY <2>1 DEF IInv, OrderInv, CarriedInv, TodoInv
<1>2. ASSUME NEW a \in Article, EditArticle(a)
      PROVE  OrderInv' /\ CarriedInv' /\ TodoInv'
  <2>1. UNCHANGED <<vec, fp, pc, pending, todo>>
    BY <1>2 DEF EditArticle, store, walk
  <2>2. \A b \in Article : text[b] \in Nat /\ text'[b] \in Nat /\ text[b] <= text'[b]
    BY <1>2, SizeAssumption DEF EditArticle, IInv, TypeOK
  <2>3. \A b \in Article : vec[b] \in Nat /\ \A r \in Runner : pending[r][b] \in Nat
    BY SizeAssumption DEF IInv, TypeOK, Revision
  <2>4. OrderInv'
    BY <2>1, <2>2, <2>3 DEF IInv, OrderInv
  <2>5. CarriedInv'
    BY <2>1, <2>2, <2>3 DEF IInv, CarriedInv
  <2> QED BY <2>1, <2>4, <2>5 DEF IInv, TodoInv
<1>3. ASSUME NEW r \in Runner, NEW f \in Modes, Start(r, f)
      PROVE  OrderInv' /\ CarriedInv' /\ TodoInv'
  <2>1. /\ UNCHANGED <<vec, fp, text, pending, todo>> /\ pc[r] = "idle" /\ pc'[r] = "walk"
        /\ \A q \in Runner : q = r
    BY <1>3 DEF Start, catalog, store, OneRunner, IInv, TypeOK
  <2> QED BY <2>1 DEF IInv, OrderInv, CarriedInv, TodoInv
<1>4. ASSUME NEW r \in Runner, LastPage(r) \/ NextPage(r)
      PROVE  OrderInv' /\ CarriedInv' /\ TodoInv'
  BY <1>4, PageKeeps
<1>5. ASSUME NEW r \in Runner, MarkFresh(r) \/ WalkFails(r) \/ Kill(r)
      PROVE  OrderInv' /\ CarriedInv' /\ TodoInv'
  BY <1>5, EndKeeps DEF MarkFresh, WalkFails, Kill, catalog, store
<1>6. CASE UNCHANGED vars
  BY <1>6 DEF vars, catalog, store, walk, IInv, OrderInv, CarriedInv, TodoInv
<1> QED
  BY <1>1, <1>2, <1>3, <1>4, <1>5, <1>6, WriteKeeps, FingerprintKeeps DEF Next, Run

(* Type correctness, whatever the environment.                             *)
THEOREM TypeCorrect == Spec => []TypeOK
<1>1. Init => TypeOK
  BY InitIInv DEF IInv
<1> QED BY <1>1, NextType, PTL DEF Spec

(* A kill between the vectors and the fingerprints, and edits at any       *)
(* moment of a run, never leave the fingerprint of a text without its      *)
(* vector (embeddings.py:90-93 write them in this order): the article      *)
(* would be skipped by every later incremental run.                        *)
THEOREM SkippedTheorem ==
  ASSUME OneRunner, ~Revert, Misshapen = {}
  PROVE  Spec => []SkippedIsEmbedded
<1>1. IInv => SkippedIsEmbedded
  <2> SUFFICES ASSUME IInv, NEW a \in Article, fp[a] = text[a] PROVE vec[a] = text[a]
    BY DEF SkippedIsEmbedded
  <2>1. fp[a] <= vec[a] /\ vec[a] <= text[a] /\ vec[a] \in Nat /\ text[a] \in Nat
    BY SizeAssumption DEF IInv, OrderInv, TypeOK, Revision
  <2> QED BY <2>1
<1>2. IInv /\ [Next]_vars => IInv'
  BY NextIInv
<1> QED BY <1>1, <1>2, InitIInv, PTL DEF Spec

-------------------------------------------------------------------------------
(* Pages.  What an article's number of newer ones is to the listing, its   *)
(* offset: each has one, and from 0 on each is taken.                      *)

LEMMA ListedFinite ==
  ASSUME listed \subseteq Article
  PROVE  /\ IsFiniteSet(listed) /\ Cardinality(listed) \in Nat
         /\ Cardinality(listed) <= Articles
         /\ \A S \in SUBSET listed : IsFiniteSet(S) /\ Cardinality(S) \in Nat
<1> USE SizeAssumption DEF Article
<1>1. IsFiniteSet(1..Articles) /\ Cardinality(1..Articles) = Articles
  <2>1. /\ IsFiniteSet(1..Articles)
        /\ Cardinality(1..Articles) = IF 1 > Articles THEN 0 ELSE Articles - 1 + 1
    BY FS_Interval
  <2>2. (IF 1 > Articles THEN 0 ELSE Articles - 1 + 1) = Articles
    OBVIOUS
  <2> QED BY <2>1, <2>2
<1>2. IsFiniteSet(listed) /\ Cardinality(listed) <= Articles
  BY <1>1, FS_Subset
<1>3. \A S \in SUBSET listed : IsFiniteSet(S)
  BY <1>2, FS_Subset
<1> QED BY <1>2, <1>3, FS_CardinalityType

(* The newer of two articles is on an earlier place.                       *)
LEMMA NewerDescends ==
  ASSUME listed \subseteq Article, NEW a \in Article, NEW b \in listed, a < b
  PROVE  Newer(b) < Newer(a)
<1> DEFINE above(c) == {d \in listed : d > c}
<1>1. above(b) \in SUBSET above(a) /\ b \in above(a) /\ b \notin above(b)
  <2>1. a \in Int /\ b \in Int /\ \A d \in listed : d \in Int
    BY SizeAssumption DEF Article
  <2>2. \A d \in listed : d > b => d > a
    BY <2>1
  <2>3. b > a /\ ~(b > b)
    BY <2>1
  <2> QED BY <2>2, <2>3
<1>2. /\ IsFiniteSet(above(a)) /\ Cardinality(above(a)) \in Nat
      /\ IsFiniteSet(above(b)) /\ Cardinality(above(b)) \in Nat
  BY ListedFinite
<1>3. Newer(a) = Cardinality(above(a)) /\ Newer(b) = Cardinality(above(b))
  BY DEF Newer
<1> HIDE DEF above
<1>4. Cardinality(above(b)) <= Cardinality(above(a)) /\ Cardinality(above(b)) # Cardinality(above(a))
  BY <1>1, <1>2, FS_Subset
<1> QED BY <1>2, <1>3, <1>4

LEMMA NewerBound ==
  ASSUME listed \subseteq Article, NEW a \in listed
  PROVE  Newer(a) \in 0..Cardinality(listed) - 1
<1> DEFINE above == {d \in listed : d > a}
           other == listed \ {a}
<1>1. above \in SUBSET other
  BY SizeAssumption DEF Article
<1>2. /\ IsFiniteSet(other) /\ Cardinality(other) = Cardinality(listed) - 1
  BY ListedFinite, FS_RemoveElement
<1>3. Cardinality(above) <= Cardinality(other) /\ Cardinality(above) \in Nat
  BY <1>1, <1>2, FS_Subset, ListedFinite
<1>4. Newer(a) = Cardinality(above) /\ Cardinality(listed) \in Nat
  BY ListedFinite DEF Newer
<1> HIDE DEF above, other
<1> QED BY <1>2, <1>3, <1>4

LEMMA NewerInjective ==
  ASSUME listed \subseteq Article, NEW a \in listed, NEW b \in listed, Newer(a) = Newer(b)
  PROVE  a = b
<1>1. a \in Article /\ b \in Article /\ Newer(a) \in Int
  BY NewerBound
<1>2. ~(a < b) /\ ~(b < a)
  BY <1>1, NewerDescends
<1> QED BY <1>1, <1>2, SizeAssumption DEF Article

LEMMA EveryOffset ==
  ASSUME listed \subseteq Article, NEW n \in 0..Cardinality(listed) - 1
  PROVE  \E a \in listed : Newer(a) = n
<1> DEFINE places == 0..Cardinality(listed) - 1
           f == [a \in listed |-> Newer(a)]
<1>1. f \in [listed -> places] /\ \A a, b \in listed : f[a] = f[b] => a = b
  BY NewerBound, NewerInjective
<1>2. IsFiniteSet(places) /\ Cardinality(places) = Cardinality(listed)
  <2> DEFINE c == Cardinality(listed)
  <2>1. c \in Nat
    BY ListedFinite
  <2> HIDE DEF c
  <2>2. /\ IsFiniteSet(0..c - 1)
        /\ Cardinality(0..c - 1) = IF 0 > c - 1 THEN 0 ELSE (c - 1) - 0 + 1
    <3>1. 0 \in Int /\ c - 1 \in Int
      BY <2>1
    <3> QED BY <3>1, FS_Interval
  <2>3. (IF 0 > c - 1 THEN 0 ELSE (c - 1) - 0 + 1) = c
    BY <2>1
  <2> QED BY <2>2, <2>3 DEF c
<1> HIDE DEF f, places
<1>3. f \in Injection(listed, places)
  BY <1>1 DEF Injection, IsInjective
<1>4. f \in Surjection(listed, places)
  BY <1>2, <1>3, FS_Injection
<1>5. \E a \in listed : f[a] = n
  BY <1>4 DEF Surjection, places
<1> QED BY <1>5 DEF f

(* The places of a page are distinct, and there is an article on each of   *)
(* them when there is one behind them.                                     *)
LEMMA PageOfRecent ==
  ASSUME listed \subseteq Article, NEW o \in Nat, NEW n \in Nat
  PROVE  /\ IsFiniteSet(Recent(o, n)) /\ Cardinality(Recent(o, n)) \in Nat
         /\ Recent(o, n) # {} => o + Cardinality(Recent(o, n)) <= Articles
         /\ (\E a \in listed : Newer(a) >= o + n) => Cardinality(Recent(o, n)) = n
<1> DEFINE page == Recent(o, n)
           f == [a \in page |-> Newer(a)]
<1>1. page \in SUBSET listed /\ \A a \in page : o <= Newer(a) /\ Newer(a) < o + n
  BY DEF Recent
<1>2. IsFiniteSet(page) /\ Cardinality(page) \in Nat
  BY <1>1, ListedFinite
<1>3. \A a, b \in page : f[a] = f[b] => a = b
  BY <1>1, NewerInjective
<1>4. \A a \in page : Newer(a) \in Nat /\ Newer(a) <= Articles - 1
  <2> SUFFICES ASSUME NEW a \in page PROVE Newer(a) \in Nat /\ Newer(a) <= Articles - 1
    OBVIOUS
  <2>1. a \in listed
    BY <1>1
  <2>2. Newer(a) \in 0..Cardinality(listed) - 1
    BY <2>1, NewerBound
  <2>3. Cardinality(listed) \in Nat /\ Cardinality(listed) <= Articles
    BY ListedFinite
  <2> QED BY <2>2, <2>3, SizeAssumption
<1>5. ASSUME page # {} PROVE o + Cardinality(page) <= Articles
  <2> DEFINE places == o..Articles - 1
  <2>1. f \in [page -> places]
    BY <1>1, <1>4, SizeAssumption
  <2>2. o <= Articles - 1
    BY <1>1, <1>4, <1>5, SizeAssumption
  <2>3. /\ IsFiniteSet(places)
        /\ Cardinality(places) = IF o > Articles - 1 THEN 0 ELSE (Articles - 1) - o + 1
    BY SizeAssumption, FS_Interval
  <2>4. Cardinality(places) = Articles - o
    BY <2>2, <2>3, SizeAssumption
  <2> HIDE DEF page, f, places
  <2>5. f \in Injection(page, places)
    BY <1>3, <2>1 DEF Injection, IsInjective
  <2>6. Cardinality(page) <= Cardinality(places)
    BY <2>3, <2>5, FS_Injection
  <2> QED BY <1>2, <2>4, <2>6, SizeAssumption
<1>6. ASSUME NEW a \in listed, Newer(a) >= o + n PROVE Cardinality(page) = n
  <2> DEFINE places == o..o + n - 1
  <2>1. f \in [page -> places]
    BY <1>1, <1>4
  <2>2. \A k \in places : \E b \in page : f[b] = k
    <3> SUFFICES ASSUME NEW k \in places PROVE \E b \in page : f[b] = k
      OBVIOUS
    <3>1. Newer(a) \in 0..Cardinality(listed) - 1 /\ Cardinality(listed) \in Nat
      BY NewerBound, ListedFinite
    <3>2. k \in 0..Cardinality(listed) - 1
      BY <1>6, <3>1
    <3>3. PICK b \in listed : Newer(b) = k
      BY <3>2, EveryOffset
    <3>4. b \in page
      BY <3>3 DEF Recent
    <3> QED BY <3>3, <3>4
  <2>3. /\ IsFiniteSet(places)
        /\ Cardinality(places) = IF o > o + n - 1 THEN 0 ELSE (o + n - 1) - o + 1
    <3>1. o \in Int /\ o + n - 1 \in Int
      OBVIOUS
    <3> QED BY <3>1, FS_Interval
  <2>4. (IF o > o + n - 1 THEN 0 ELSE (o + n - 1) - o + 1) = n
    OBVIOUS
  <2> HIDE DEF page, f, places
  <2>5. f \in Bijection(page, places)
    BY <1>3, <2>1, <2>2 DEF Bijection, Injection, Surjection, IsInjective
  <2>6. Cardinality(places) = Cardinality(page)
    BY <1>2, <2>5, FS_Bijection DEF ExistsBijection
  <2> QED BY <2>3, <2>4, <2>6
<1> HIDE DEF f
<1> QED BY <1>2, <1>5, <1>6

-------------------------------------------------------------------------------
(* What lies behind known articles.                                        *)

(* Articles come in at the top of the listing and stay; an unchanged page  *)
(* is what it takes to stop; and no walk is cut by --max-articles.         *)
Undisturbed ==
  /\ ~LatePublish /\ Unpublish = "never"
  /\ StopAfter # 0
  /\ MaxArticles > Articles

(* What a run has accounted is known or going to be embedded.              *)
LEMMA AccountedCovers ==
  ASSUME TypeOK, ListedInv, NEW r \in Runner, NEW S \in SUBSET listed
  PROVE  /\ \A a \in S : Account(r, S)[a] # 0 \/ fp[a] # 0
         /\ \A a \in Article : pending[r][a] # 0 => Account(r, S)[a] # 0
         /\ \A a \in Article : Account(r, S)[a] # 0 => a \in S \/ pending[r][a] # 0
         /\ Changed(r, S) = {} => \A a \in S : fp[a] # 0
<1>1. \A a \in Article : text[a] # 0 /\ (known[r][a] # 0 => fp[a] # 0)
  BY SizeAssumption DEF TypeOK, ListedInv
<1>2. S \subseteq Article
  BY DEF TypeOK
<1>3. \A a \in S : a \notin Changed(r, S) => fp[a] # 0
  BY <1>1, <1>2 DEF Changed
<1> QED BY <1>1, <1>2, <1>3 DEF Account, Changed

(* The page in hand: behind it there is nothing more that is not known     *)
(* when it is the last one.                                                *)
LEMMA TakenPage ==
  ASSUME TypeOK, NEW r \in Runner, offset[r] < MaxArticles, MaxArticles > Articles
  PROVE  \E n \in Nat :
           /\ Taken(r) = Recent(offset[r], n) /\ n <= PageSize
           /\ offset[r] + PageSize < MaxArticles => n = PageSize
           /\ offset[r] + Cardinality(Taken(r)) < MaxArticles
           /\ \A a \in listed : Newer(a) >= offset[r] + n =>
                WholePage(Taken(r)) /\ Taken(r) # {}
<1> DEFINE o == offset[r]
           n == IF MaxArticles - o < PageSize THEN MaxArticles - o ELSE PageSize
<1>1. /\ o \in Nat /\ o < MaxArticles /\ listed \subseteq Article
      /\ Articles \in Nat /\ MaxArticles \in Nat /\ PageSize \in Nat \ {0}
  BY SizeAssumption DEF TypeOK
<1>2. n \in Nat /\ n <= PageSize /\ (o + PageSize < MaxArticles => n = PageSize)
  BY <1>1
<1>3. Taken(r) = Recent(o, n)
  BY DEF Taken
<1> HIDE DEF o
<1>4. /\ IsFiniteSet(Recent(o, n)) /\ Cardinality(Recent(o, n)) \in Nat
      /\ Recent(o, n) # {} => o + Cardinality(Recent(o, n)) <= Articles
      /\ (\E a \in listed : Newer(a) >= o + n) => Cardinality(Recent(o, n)) = n
  <2> HIDE DEF n
  <2> QED BY <1>1, <1>2, PageOfRecent
<1>5. o + Cardinality(Taken(r)) < MaxArticles
  <2>1. Taken(r) = {} => Cardinality(Taken(r)) = 0
    BY FS_EmptySet
  <2>2. o + Cardinality(Taken(r)) <= Articles \/ Cardinality(Taken(r)) = 0
    BY <1>3, <1>4, <2>1
  <2>3. Cardinality(Taken(r)) \in Nat
    BY <1>3, <1>4
  <2> HIDE DEF n
  <2> QED BY <1>1, <2>2, <2>3
<1>6. ASSUME NEW a \in listed, Newer(a) >= o + n PROVE WholePage(Taken(r)) /\ Taken(r) # {}
  <2>1. Newer(a) \in Nat /\ Newer(a) < Articles
    <3>1. Newer(a) \in 0..Cardinality(listed) - 1
      BY <1>1, NewerBound
    <3>2. Cardinality(listed) \in Nat /\ Cardinality(listed) <= Articles
      BY <1>1, ListedFinite
    <3> QED BY <1>1, <3>1, <3>2
  <2>2. n = PageSize
    BY <1>1, <1>6, <2>1
  <2>3. Cardinality(Taken(r)) = PageSize
    BY <1>3, <1>4, <1>6, <2>2
  <2>4. Taken(r) # {}
    BY <1>1, <2>3, FS_EmptySet
  <2> QED BY <2>3, <2>4 DEF WholePage
<1> QED BY <1>2, <1>3, <1>5, <1>6 DEF o

LEMMA ListedStep ==
  Undisturbed /\ TypeOK /\ ListedInv /\ [Next]_vars => ListedInv'
<1> SUFFICES ASSUME Undisturbed, TypeOK, ListedInv, [Next]_vars PROVE ListedInv'
  OBVIOUS
<1> USE DEF catalog, store, walk
<1>1. ASSUME NEW a \in Article, PublishArticle(a) \/ UnpublishArticle(a) PROVE ListedInv'
  <2>1. /\ a > created /\ listed' = listed \cup {a} /\ created' = a
        /\ UNCHANGED <<fp, pc, offset, known, pending>>
    BY <1>1 DEF PublishArticle, UnpublishArticle, Undisturbed
  <2>2. \A b \in listed' : b <= created'
    <3>1. a \in Int /\ created \in Int /\ \A b \in listed : b \in Int /\ b <= created
      BY SizeAssumption DEF TypeOK, Article, ListedInv
    <3> QED BY <2>1, <3>1
  <2> QED BY <2>1, <2>2 DEF ListedInv
<1>2. ASSUME NEW a \in Article, EditArticle(a) PROVE ListedInv'
  BY <1>2 DEF EditArticle, ListedInv
<1>3. ASSUME NEW r \in Runner, NEW f \in Modes, Start(r, f) PROVE ListedInv'
  <2>1. /\ UNCHANGED <<listed, created, fp, offset, pending>>
        /\ known' = [known EXCEPT ![r] = IF f THEN Nothing ELSE fp]
        /\ pc' = [pc EXCEPT ![r] = "walk"]
    BY <1>3 DEF Start
  <2>2. \A q \in Runner : \A a \in Article : known'[q][a] # 0 => fp[a] # 0
    BY <2>1, NothingType DEF ListedInv, TypeOK
  <2>3. \A q \in Runner : pc'[q] = "idle" => pc[q] = "idle"
    BY <2>1 DEF TypeOK
  <2> QED BY <2>1, <2>2, <2>3 DEF ListedInv
<1>4. ASSUME NEW r \in Runner, End(r), UNCHANGED <<listed, created, fp>> PROVE ListedInv'
  <2>1. \A q \in Runner : IF q = r THEN offset'[q] = 0 /\ pending'[q] = Nothing /\ known'[q] = Nothing
                            ELSE /\ offset'[q] = offset[q] /\ pending'[q] = pending[q]
                                 /\ known'[q] = known[q] /\ pc'[q] = pc[q]
    BY <1>4 DEF End, TypeOK
  <2> QED BY <1>4, <2>1, NothingType, SizeAssumption DEF ListedInv
<1>5. ASSUME NEW r \in Runner, LastPage(r) \/ NextPage(r), ~End(r) PROVE ListedInv'
  <2>1. /\ UNCHANGED <<listed, created, fp, known>>
        /\ pending' = [pending EXCEPT ![r] = Account(r, Taken(r))]
        /\ offset' = offset \/ (offset' = [offset EXCEPT ![r] = @ + PageSize]
                               /\ offset[r] + PageSize < MaxArticles)
        /\ pc'[r] # "idle" /\ \A q \in Runner : q # r => pc'[q] = pc[q]
    BY <1>5 DEF LastPage, NextPage, Encode, TypeOK
  <2>2. Taken(r) \in SUBSET listed
    BY DEF Taken, Recent
  <2>3. \A a \in Article : Account(r, Taken(r))[a] # 0 => a \in listed
    BY <2>2, AccountedCovers DEF ListedInv
  <2>4. \A q \in Runner : offset'[q] < MaxArticles
    BY <2>1 DEF ListedInv, TypeOK
  <2>5. \A q \in Runner : \A a \in Article : pending'[q][a] # 0 => a \in listed
    BY <2>1, <2>3 DEF ListedInv, TypeOK
  <2>6. \A q \in Runner : pc'[q] = "idle" => pending'[q] = Nothing
    BY <2>1 DEF ListedInv, TypeOK
  <2> QED BY <2>1, <2>4, <2>5, <2>6 DEF ListedInv
<1>6. ASSUME NEW r \in Runner, SetEmbedding(r) \/ EmbeddingsWritten(r) PROVE ListedInv'
  <2>1. /\ UNCHANGED <<listed, created, fp, known, offset, pending>>
        /\ \A q \in Runner : pc'[q] = "idle" => pc[q] = "idle"
    BY <1>6 DEF SetEmbedding, EmbeddingsWritten, TypeOK
  <2> QED BY <2>1 DEF ListedInv
<1>7. ASSUME NEW r \in Runner, SetFingerprints(r) PROVE ListedInv'
  <2>1. /\ UNCHANGED <<listed, created, known, offset, pending>>
        /\ \A q \in Runner : pc'[q] = "idle" => pc[q] = "idle"
        /\ \A a \in Article : fp'[a] = IF pending[r][a] # 0 THEN pending[r][a] ELSE fp[a]
    BY <1>7 DEF SetFingerprints, TypeOK
  <2> QED BY <2>1 DEF ListedInv
<1>8. CASE UNCHANGED vars
  BY <1>8 DEF vars, ListedInv
<1>9. ASSUME NEW r \in Runner, MarkFresh(r) \/ WalkFails(r) \/ Kill(r) \/ (LastPage(r) /\ End(r))
      PROVE  ListedInv'
  BY <1>4, <1>9 DEF MarkFresh, WalkFails, Kill, LastPage
<1>10. ASSUME NEW r \in Runner, NextPage(r), End(r) PROVE ListedInv'
  BY <1>4, <1>10 DEF NextPage
<1> QED BY <1>1, <1>2, <1>3, <1>5, <1>6, <1>7, <1>8, <1>9, <1>10 DEF Next, Run

LEMMA NewerGrows ==
  ASSUME listed \subseteq Article, NEW c, listed' = listed \cup {c}, NEW a
  PROVE  Newer(a) <= Newer(a)' /\ Newer(a) \in Int /\ Newer(a)' \in Int
<1> DEFINE S == {b \in listed : b > a}
           T == {b \in listed' : b > a}
<1>1. S \in SUBSET T /\ T \subseteq S \cup {c}
  OBVIOUS
<1>2. IsFiniteSet(S) /\ Cardinality(S) \in Nat
  BY ListedFinite
<1>3. Newer(a) = Cardinality(S) /\ Newer(a)' = Cardinality(T)
  BY DEF Newer
<1> HIDE DEF S, T
<1>4. IsFiniteSet(T)
  <2>1. IsFiniteSet(S \cup {c})
    BY <1>2, FS_AddElement
  <2> QED BY <1>1, <2>1, FS_Subset
<1>5. Cardinality(S) <= Cardinality(T) /\ Cardinality(T) \in Nat
  BY <1>1, <1>4, FS_Subset, FS_CardinalityType
<1> QED BY <1>2, <1>3, <1>5

(* A new article moves the others back, and has none above it.             *)
LEMMA BehindPublish ==
  ASSUME Undisturbed, TypeOK, ListedInv, BehindInv, KnownIsOldest,
         NEW c \in Article, PublishArticle(c)
  PROVE  BehindInv' /\ KnownIsOldest'
<1>1. /\ c \notin listed /\ c > created /\ listed' = listed \cup {c} /\ listed \subseteq Article
      /\ UNCHANGED <<fp, pc, offset, pending>>
  BY DEF PublishArticle, Undisturbed, store, walk, TypeOK
<1>2. \A a \in listed : a < c
  <2>1. c \in Int /\ created \in Int /\ \A a \in listed : a \in Int /\ a <= created
    BY SizeAssumption DEF TypeOK, Article, ListedInv
  <2> QED BY <1>1, <2>1
<1>3. fp[c] = 0 /\ \A r \in Runner : pending[r][c] = 0
  BY <1>1 DEF ListedInv
<1>4. \A a, b \in listed' : a < b /\ (fp[b] # 0 \/ \E r \in Runner : pending[r][b] # 0) =>
                            a \in listed /\ b \in listed
  <2>1. \A a \in listed' : a \in Int
    BY <1>1, SizeAssumption DEF Article
  <2> QED BY <1>1, <1>2, <1>3, <2>1
<1>5. \A a \in listed : Newer(a) <= Newer(a)' /\ Newer(a) \in Int /\ Newer(a)' \in Int
  BY <1>1, NewerGrows
<1>6. BehindInv'
  <2> SUFFICES ASSUME NEW r \in Runner, NEW a \in listed', NEW b \in listed',
                      a < b, pending[r][b] # 0, pc[r] = "walk" => Newer(a)' < offset[r]
               PROVE  pending[r][a] # 0 \/ fp[a] # 0
    BY <1>1 DEF BehindInv
  <2>1. a \in listed /\ b \in listed
    BY <1>4
  <2>2. pc[r] = "walk" => Newer(a) < offset[r]
    BY <1>5, <2>1 DEF TypeOK
  <2> QED BY <2>1, <2>2 DEF BehindInv
<1>7. KnownIsOldest'
  BY <1>1, <1>4 DEF KnownIsOldest
<1> QED BY <1>6, <1>7

(* A page more: what is behind an article on it is on it, or further back  *)
(* than the walk has come - or known, when the walk stops here.            *)
LEMMA BehindPage ==
  ASSUME Undisturbed, TypeOK, ListedInv, BehindInv, KnownIsOldest,
         NEW r \in Runner, LastPage(r) \/ NextPage(r), ~End(r)
  PROVE  BehindInv'
<1> DEFINE p == Account(r, Taken(r))
           o == offset[r]
<1>1. /\ UNCHANGED <<listed, fp>> /\ pc[r] = "walk" /\ listed \subseteq Article
      /\ pending' = [pending EXCEPT ![r] = p]
      /\ \A q \in Runner : q # r => pc'[q] = pc[q] /\ offset'[q] = offset[q]
  BY DEF LastPage, NextPage, Encode, catalog, store, TypeOK
<1>2. \A a \in listed : Newer(a)' = Newer(a)
  BY <1>1 DEF Newer
<1>3. PICK n \in Nat :
        /\ Taken(r) = Recent(o, n) /\ n <= PageSize
        /\ o + PageSize < MaxArticles => n = PageSize
        /\ o + Cardinality(Taken(r)) < MaxArticles
        /\ \A a \in listed : Newer(a) >= o + n => WholePage(Taken(r)) /\ Taken(r) # {}
  BY TakenPage DEF Undisturbed, ListedInv
<1>4. Taken(r) \in SUBSET listed
  BY DEF Taken, Recent
<1>5. /\ \A a \in Taken(r) : p[a] # 0 \/ fp[a] # 0
      /\ \A a \in Article : pending[r][a] # 0 => p[a] # 0
      /\ \A a \in Article : p[a] # 0 => a \in Taken(r) \/ pending[r][a] # 0
      /\ Changed(r, Taken(r)) = {} => \A a \in Taken(r) : fp[a] # 0
  BY <1>4, AccountedCovers
<1>6. \A a \in listed : Newer(a) \in Int
  BY <1>1, NewerBound
<1> HIDE DEF p
<1>7. o \in Nat
  BY DEF TypeOK
<1>8. ASSUME NEW a \in listed, NEW b \in listed, a < b, p[b] # 0, Newer(a) < o + n
      PROVE  p[a] # 0 \/ fp[a] # 0
  <2>1. CASE Newer(a) >= o
    BY <1>3, <1>5, <1>8, <2>1 DEF Recent
  <2>2. CASE Newer(a) < o
    <3>1. Newer(b) < Newer(a)
      BY <1>1, <1>8, NewerDescends
    <3>2. b \notin Taken(r)
      BY <1>3, <1>6, <1>7, <2>2, <3>1 DEF Recent
    <3>3. pending[r][b] # 0
      BY <1>1, <1>5, <1>8, <3>2
    <3>4. pending[r][a] # 0 \/ fp[a] # 0
      BY <1>1, <1>8, <2>2, <3>3 DEF BehindInv
    <3> QED BY <1>1, <1>5, <3>4
  <2> QED BY <1>6, <1>7, <2>1, <2>2
<1>9. ASSUME NEW a \in listed, Newer(a) >= o + n, LastPage(r)
      PROVE  fp[a] # 0
  <2>1. WholePage(Taken(r)) /\ Taken(r) # {}
    BY <1>3, <1>9
  <2>2. UnchangedForLong(r, Taken(r))
    <3>1. Cardinality(Taken(r)) \in Nat
      BY <1>1, <1>3, <1>7, PageOfRecent
    <3>2. ~(o + Cardinality(Taken(r)) >= MaxArticles)
      BY <1>3, <1>7, <3>1, SizeAssumption
    <3> QED BY <1>9, <2>1, <3>2 DEF LastPage
  <2>3. Changed(r, Taken(r)) = {}
    <3>1. CleanPages(r, Taken(r)) >= StopAfter /\ StopAfter \in Nat /\ StopAfter # 0
      BY <2>2, SizeAssumption DEF UnchangedForLong, Undisturbed
    <3> QED BY <3>1 DEF CleanPages
  <2>4. PICK b \in Taken(r) : fp[b] # 0
    BY <1>5, <2>1, <2>3
  <2>5. b \in listed /\ Newer(b) < o + n
    BY <1>3, <2>4 DEF Recent
  <2>6. a < b
    <3>1. a \in Int /\ b \in Int
      BY <1>1, <2>5, SizeAssumption DEF Article
    <3>2. ~(b < a)
      <4>1. Newer(b) < Newer(a)
        BY <1>3, <1>6, <1>7, <1>9, <2>5
      <4>2. b < a => Newer(a) < Newer(b)
        BY <1>1, <2>5, NewerDescends
      <4> QED BY <1>6, <2>5, <4>1, <4>2
    <3>3. a # b
      BY <1>3, <1>6, <1>7, <1>9, <2>5
    <3> QED BY <3>1, <3>2, <3>3
  <2> QED BY <2>4, <2>5, <2>6 DEF KnownIsOldest
<1>10. ASSUME NEW a \in listed, NEW b \in listed, a < b, p[b] # 0,
              pc'[r] = "walk" => Newer(a) < offset'[r]
       PROVE  p[a] # 0 \/ fp[a] # 0
  <2>1. CASE NextPage(r)
    <3>1. pc'[r] = "walk" /\ offset'[r] = o + PageSize /\ n = PageSize
      BY <1>1, <1>3, <2>1 DEF NextPage, TypeOK
    <3> QED BY <1>8, <1>10, <3>1
  <2>2. CASE LastPage(r)
    <3>1. CASE Newer(a) < o + n
      BY <1>8, <1>10, <3>1
    <3>2. CASE Newer(a) >= o + n
      BY <1>9, <2>2, <3>2
    <3> QED BY <1>3, <1>6, <1>7, <3>1, <3>2
  <2> QED BY <2>1, <2>2
<1>11. pending'[r] = p /\ \A q \in Runner : q # r => pending'[q] = pending[q]
  BY <1>1 DEF TypeOK
<1> SUFFICES ASSUME NEW q \in Runner, NEW a \in listed, NEW b \in listed,
                    a < b, pending'[q][b] # 0, pc'[q] = "walk" => Newer(a) < offset'[q]
             PROVE  pending'[q][a] # 0 \/ fp[a] # 0
  BY <1>1, <1>2 DEF BehindInv
<1>12. CASE q = r
  BY <1>10, <1>11, <1>12
<1>13. CASE q # r
  BY <1>1, <1>11, <1>13 DEF BehindInv
<1> QED BY <1>12, <1>13

LEMMA BehindStep ==
  /\ Undisturbed /\ TypeOK /\ ListedInv /\ BehindInv /\ KnownIsOldest /\ [Next]_vars
  => BehindInv' /\ KnownIsOldest'
<1> SUFFICES ASSUME Undisturbed, TypeOK, ListedInv, BehindInv, KnownIsOldest, [Next]_vars
             PROVE  BehindInv' /\ KnownIsOldest'
  OBVIOUS
<1> USE DEF catalog, store, walk
<1>1. ASSUME UNCHANGED <<listed, fp>> PROVE KnownIsOldest' /\ \A a \in Article : Newer(a)' = Newer(a)
  BY <1>1 DEF KnownIsOldest, Newer
<1>2. listed \subseteq Article
  BY DEF TypeOK
<1>3. ASSUME NEW a \in Article, UnpublishArticle(a) \/ EditArticle(a)
      PROVE  BehindInv' /\ KnownIsOldest'
  <2>1. UNCHANGED <<listed, fp, pc, offset, pending>>
    BY <1>3 DEF UnpublishArticle, EditArticle, Undisturbed
  <2> QED BY <1>1, <1>2, <2>1 DEF BehindInv
<1>4. ASSUME NEW r \in Runner, NEW f \in Modes, Start(r, f) PROVE BehindInv' /\ KnownIsOldest'
  <2>1. /\ UNCHANGED <<listed, fp, offset, pending>> /\ pending[r] = Nothing
        /\ \A q \in Runner : q # r => pc'[q] = pc[q]
    BY <1>4 DEF Start, TypeOK, ListedInv
  <2> QED BY <1>1, <1>2, <2>1, NothingType DEF BehindInv
<1>5. ASSUME NEW r \in Runner, End(r), UNCHANGED <<listed, fp>> PROVE BehindInv' /\ KnownIsOldest'
  <2>1. /\ pending'[r] = Nothing
        /\ \A q \in Runner : q # r => /\ pc'[q] = pc[q] /\ offset'[q] = offset[q]
                                      /\ pending'[q] = pending[q]
    BY <1>5 DEF End, TypeOK
  <2> QED BY <1>1, <1>2, <1>5, <2>1, NothingType DEF BehindInv
<1>6. ASSUME NEW r \in Runner, SetEmbedding(r) \/ EmbeddingsWritten(r)
      PROVE  BehindInv' /\ KnownIsOldest'
  <2>1. /\ UNCHANGED <<listed, fp, offset, pending>>
        /\ \A q \in Runner : pc'[q] = "walk" <=> pc[q] = "walk"
    BY <1>6 DEF SetEmbedding, EmbeddingsWritten, TypeOK
  <2> QED BY <1>1, <1>2, <2>1 DEF BehindInv
<1>7. ASSUME NEW r \in Runner, SetFingerprints(r) PROVE BehindInv' /\ KnownIsOldest'
  <2>1. /\ UNCHANGED <<listed, offset, pending>> /\ pc[r] = "fingerprints"
        /\ \A q \in Runner : pc'[q] = "walk" <=> pc[q] = "walk"
        /\ \A a \in Article : fp'[a] = IF pending[r][a] # 0 THEN pending[r][a] ELSE fp[a]
    BY <1>7 DEF SetFingerprints, TypeOK
  <2>2. \A a \in Article : fp[a] # 0 => fp'[a] # 0
    BY <2>1
  <2>3. \A a \in Article : Newer(a)' = Newer(a)
    BY <2>1 DEF Newer
  <2>4. BehindInv'
    BY <1>2, <2>1, <2>2, <2>3 DEF BehindInv
  <2>5. KnownIsOldest'
    <3> SUFFICES ASSUME NEW a \in listed, NEW b \in listed, a < b, fp'[b] # 0 PROVE fp'[a] # 0
      BY <2>1 DEF KnownIsOldest
    <3>1. CASE fp[b] # 0
      BY <1>2, <2>2, <3>1 DEF KnownIsOldest
    <3>2. CASE pending[r][b] # 0
      <4>1. pending[r][a] # 0 \/ fp[a] # 0
        BY <2>1, <3>2 DEF BehindInv
      <4> QED BY <1>2, <2>1, <2>2, <4>1
    <3> QED BY <1>2, <2>1, <3>1, <3>2
  <2> QED BY <2>4, <2>5
<1>8. ASSUME NEW r \in Runner, LastPage(r) \/ NextPage(r) PROVE BehindInv' /\ KnownIsOldest'
  <2>1. UNCHANGED <<listed, fp>>
    BY <1>8 DEF LastPage, NextPage
  <2> QED BY <1>1, <1>5, <1>8, <2>1, BehindPage
<1>9. ASSUME NEW r \in Runner, MarkFresh(r) \/ WalkFails(r) \/ Kill(r)
      PROVE  BehindInv' /\ KnownIsOldest'
  BY <1>5, <1>9 DEF MarkFresh, WalkFails, Kill
<1>10. CASE UNCHANGED vars
  <2>1. UNCHANGED <<listed, fp, pc, offset, pending>>
    BY <1>10 DEF vars
  <2> QED BY <1>1, <1>2, <2>1 DEF BehindInv
<1> QED
  BY <1>3, <1>4, <1>6, <1>7, <1>8, <1>9, <1>10, BehindPublish DEF Next, Run

(* "Once a whole page is already-known content, everything after it is     *)
(* older still" (embeddings.py:12), and known: with any number of runs of  *)
(* either mode at once, pages that shift under them, wrong vectors,        *)
(* failures and kills - where the listing only grows at its top and no     *)
(* walk is cut off.                                                        *)
THEOREM KnownIsOldestTheorem ==
  ASSUME Undisturbed PROVE Spec => []KnownIsOldest
<1>1. Init => ListedInv /\ BehindInv /\ KnownIsOldest
  BY NothingType, SizeAssumption DEF Init, ListedInv, BehindInv, KnownIsOldest
<1>2. TypeOK /\ ListedInv /\ [Next]_vars => ListedInv'
  BY ListedStep
<1>3. TypeOK /\ ListedInv /\ BehindInv /\ KnownIsOldest /\ [Next]_vars
      => BehindInv' /\ KnownIsOldest'
  BY BehindStep
<1> QED BY <1>1, <1>2, <1>3, TypeCorrect, PTL DEF Spec

-------------------------------------------------------------------------------
(* What a full run catches up.                                             *)

LEMMA WalkStep == TypeOK /\ WalkInv /\ [Next]_vars => WalkInv'
<1> SUFFICES ASSUME TypeOK, WalkInv, [Next]_vars PROVE WalkInv'
  OBVIOUS
<1>1. ASSUME UNCHANGED <<full, known, offset>>, \A q \in Runner : pc[q] = "idle" <=> pc'[q] = "idle"
      PROVE  WalkInv'
  BY <1>1 DEF WalkInv
<1>2. ASSUME NEW a \in Article, PublishArticle(a) \/ UnpublishArticle(a) \/ EditArticle(a)
      PROVE  WalkInv'
  BY <1>1, <1>2 DEF PublishArticle, UnpublishArticle, EditArticle, walk
<1>3. ASSUME NEW r \in Runner, NEW f \in Modes, Start(r, f) PROVE WalkInv'
  <2>1. /\ offset' = offset /\ pc' = [pc EXCEPT ![r] = "walk"]
        /\ full' = [full EXCEPT ![r] = f]
        /\ known' = [known EXCEPT ![r] = IF f THEN Nothing ELSE fp]
    BY <1>3 DEF Start
  <2> QED BY <2>1 DEF WalkInv, TypeOK
<1>4. ASSUME NEW r \in Runner, End(r) PROVE WalkInv'
  <2>1. \A q \in Runner : IF q = r THEN offset'[q] = 0 /\ ~full'[q]
                          ELSE /\ offset'[q] = offset[q] /\ full'[q] = full[q]
                               /\ known'[q] = known[q] /\ pc'[q] = pc[q]
    BY <1>4 DEF End, TypeOK
  <2> QED BY <2>1, SizeAssumption DEF WalkInv
<1>5. ASSUME NEW r \in Runner, LastPage(r), ~End(r) PROVE WalkInv'
  <2>1. pc[r] = "walk" /\ pc' = [pc EXCEPT ![r] = "vectors"] /\ UNCHANGED <<full, known, offset>>
    BY <1>5 DEF LastPage, Encode
  <2> QED BY <1>1, <2>1 DEF TypeOK
<1>6. ASSUME NEW r \in Runner, NextPage(r) PROVE WalkInv'
  <2>1. /\ pc[r] = "walk" /\ UNCHANGED <<pc, full, known>> /\ offset[r] + PageSize < MaxArticles
        /\ offset' = [offset EXCEPT ![r] = @ + PageSize]
    BY <1>6 DEF NextPage
  <2> QED BY <2>1 DEF WalkInv, TypeOK
<1>7. ASSUME NEW r \in Runner, SetEmbedding(r) \/ EmbeddingsWritten(r) \/ SetFingerprints(r)
      PROVE  WalkInv'
  <2>1. UNCHANGED <<full, known, offset>> /\ \A q \in Runner : pc[q] = "idle" <=> pc'[q] = "idle"
    BY <1>7 DEF SetEmbedding, EmbeddingsWritten, SetFingerprints, walk, TypeOK
  <2> QED BY <1>1, <2>1
<1>8. CASE UNCHANGED vars
  BY <1>1, <1>8 DEF vars, walk
<1> QED
  BY <1>2, <1>3, <1>4, <1>5, <1>6, <1>7, <1>8 DEF Next, Run, MarkFresh, WalkFails, Kill

LEMMA SteadyTypeStep ==
  ASSUME SteadyTypeOK, TypeOK, TypeOK', Remember PROVE SteadyTypeOK'
<1> DEFINE next(r) == IF Starts(r) THEN IF full'[r] THEN listed ELSE {}
                      ELSE IF Ends(r) THEN {}
                      ELSE {a \in steady[r] \cap listed' : text'[a] = text[a] /\ ~MovedUp(a)}
<1>1. steady' = [r \in Runner |-> next(r)]
  BY DEF Remember
<1>2. \A r \in Runner : next(r) \in SUBSET Article
  BY DEF SteadyTypeOK, TypeOK
<1> HIDE DEF next
<1> QED BY <1>1, <1>2 DEF SteadyTypeOK

(* What is steady after a step of a run that goes on was so before it.     *)
LEMMA SteadyBefore ==
  ASSUME FullRunInv, Remember, NEW r \in Runner, ~Starts(r), NEW a \in steady'[r]
  PROVE  /\ ~Ends(r) /\ a \in steady[r] /\ a \in Article /\ OnItsWay(r, a)
         /\ a \in listed' /\ text'[a] = text[a] /\ ~MovedUp(a)
<1>1. /\ ~Ends(r)
      /\ a \in {b \in steady[r] \cap listed' : text'[b] = text[b] /\ ~MovedUp(b)}
  BY DEF Remember
<1> QED BY <1>1 DEF FullRunInv, SteadyTypeOK, SteadyInv

(* Whatever authors do, what stays as it was has only moved down.          *)
LEMMA SteadyAuthor ==
  ASSUME FullRunInv, Remember, NEW r \in Runner, NEW a \in steady'[r], NEW c \in Article,
         PublishArticle(c) \/ UnpublishArticle(c) \/ EditArticle(c)
  PROVE  OnItsWay(r, a)'
<1>1. UNCHANGED <<vec, fp, pc, full, offset, pending, todo>>
  BY DEF PublishArticle, UnpublishArticle, EditArticle, store, walk
<1>2. ~Starts(r)
  BY <1>1 DEF Starts
<1>3. /\ OnItsWay(r, a) /\ a \in Article
      /\ a \in listed' /\ text'[a] = text[a] /\ ~MovedUp(a)
  BY <1>2, SteadyBefore
<1>4. listed \subseteq Article /\ offset[r] \in Int
  BY DEF FullRunInv, TypeOK
<1>5. Newer(a) >= offset[r] => Newer(a)' >= offset'[r]
  <2>1. CASE PublishArticle(c)
    <3>1. Newer(a) <= Newer(a)' /\ Newer(a) \in Int /\ Newer(a)' \in Int
      BY <1>4, <2>1, NewerGrows DEF PublishArticle
    <3> QED BY <1>1, <1>4, <3>1
  <2>2. CASE UnpublishArticle(c)
    <3>1. {b \in listed' : b > a} = {b \in listed : b > a}
      BY <1>3, <2>2 DEF UnpublishArticle, MovedUp
    <3> QED BY <1>1, <3>1 DEF Newer
  <2>3. CASE EditArticle(c)
    BY <1>1, <2>3 DEF EditArticle, Newer
  <2> QED BY <2>1, <2>2, <2>3
<1> QED BY <1>1, <1>3, <1>5 DEF OnItsWay

(* The listing begins at the offset of the first page.                     *)
LEMMA SteadyStart ==
  ASSUME FullRunInv, Remember, NEW r \in Runner, NEW a \in steady'[r],
         NEW q \in Runner, NEW f \in Modes, Start(q, f)
  PROVE  OnItsWay(r, a)'
<1>1. /\ UNCHANGED <<listed, text, vec, fp, offset, pending, todo>> /\ pc[q] = "idle"
      /\ pc' = [pc EXCEPT ![q] = "walk"] /\ full' = [full EXCEPT ![q] = f]
  BY DEF Start, catalog, store
<1>2. Newer(a)' = Newer(a)
  BY <1>1 DEF Newer
<1>3. CASE q = r
  <2>1. Starts(r) /\ pc'[r] = "walk" /\ offset[r] = 0
    BY <1>1, <1>3 DEF Starts, FullRunInv, TypeOK, WalkInv
  <2>2. full'[r] /\ a \in listed
    BY <2>1 DEF Remember
  <2>3. Newer(a) \in Nat
    <3>1. Newer(a) \in 0..Cardinality(listed) - 1 /\ Cardinality(listed) \in Nat
      BY <2>2, NewerBound, ListedFinite DEF FullRunInv, TypeOK
    <3> QED BY <3>1
  <2> QED BY <1>1, <1>2, <2>1, <2>2, <2>3 DEF OnItsWay
<1>4. CASE q # r
  <2>1. pc'[r] = pc[r] /\ full'[r] = full[r]
    BY <1>1, <1>4 DEF FullRunInv, TypeOK
  <2>2. OnItsWay(r, a)
    BY <2>1, SteadyBefore DEF Starts
  <2> QED BY <1>1, <1>2, <2>1, <2>2 DEF OnItsWay
<1> QED BY <1>3, <1>4

(* A full run has no reason to stop but the end of the listing: what was   *)
(* still to come is on the page, or behind it.                             *)
LEMMA SteadyPage ==
  ASSUME TypeOK, WalkInv, Misshapen = {}, MaxArticles > Articles,
         NEW r \in Runner, NEW a, OnItsWay(r, a), LastPage(r) \/ NextPage(r)
  PROVE  OnItsWay(r, a)' /\ pc'[r] # "idle"
<1>1. pc[r] = "walk" /\ UNCHANGED <<listed, text, vec, fp>>
  BY DEF LastPage, NextPage, catalog, store
<1>2. a \in Article /\ OnItsWay(r, a)
  BY DEF OnItsWay, TypeOK
<1>3. full[r] /\ a \in listed /\ known[r] = Nothing
  BY DEF OnItsWay, WalkInv
<1>4. Newer(a)' = Newer(a) /\ Newer(a) \in Int /\ offset[r] \in Nat
  BY <1>1, <1>3, NewerBound DEF Newer, TypeOK
<1> DEFINE p == Account(r, Taken(r))
           o == offset[r]
<1>5. PICK n \in Nat :
        /\ Taken(r) = Recent(o, n) /\ n <= PageSize
        /\ o + PageSize < MaxArticles => n = PageSize
        /\ o + Cardinality(Taken(r)) < MaxArticles
        /\ \A b \in listed : Newer(b) >= o + n => WholePage(Taken(r)) /\ Taken(r) # {}
  BY <1>1, TakenPage DEF WalkInv
<1>6. text[a] # 0
  BY <1>2, SizeAssumption DEF TypeOK
<1>7. pending[r][a] = text[a] \/ (Newer(a) >= o /\ Newer(a) < o + n) => p[a] = text[a]
  <2>1. a \in Taken(r) => a \in Changed(r, Taken(r))
    BY <1>2, <1>3, <1>6, NothingType DEF Changed
  <2>2. Newer(a) >= o /\ Newer(a) < o + n => a \in Taken(r)
    BY <1>3, <1>5 DEF Recent
  <2> QED BY <1>2, <2>1, <2>2 DEF Account
<1> HIDE DEF p
<1>8. CASE NextPage(r)
  <2>1. /\ UNCHANGED <<pc, full, todo>> /\ o + PageSize < MaxArticles
        /\ pending' = [pending EXCEPT ![r] = p]
        /\ offset' = [offset EXCEPT ![r] = @ + PageSize]
    BY <1>8 DEF NextPage, p
  <2>2. pending'[r] = p /\ offset'[r] = o + PageSize
    BY <1>1, <2>1 DEF TypeOK
  <2>3. Newer(a) >= o + PageSize \/ p[a] = text[a]
    BY <1>1, <1>2, <1>4, <1>5, <1>7, <2>1, SizeAssumption DEF OnItsWay
  <2> QED BY <1>1, <1>3, <1>4, <2>1, <2>2, <2>3 DEF OnItsWay
<1>9. CASE LastPage(r)
  <2>1. ~WholePage(Taken(r)) /\ Encode(r, p)
    <3>1. Cardinality(Taken(r)) \in Nat
      BY <1>1, <1>4, <1>5, PageOfRecent DEF TypeOK
    <3>2. ~(o + Cardinality(Taken(r)) >= MaxArticles)
      BY <1>4, <1>5, <3>1, SizeAssumption
    <3> QED BY <1>3, <1>9, <3>2 DEF LastPage, UnchangedForLong, p
  <2>2. Newer(a) < o + n
    BY <1>3, <1>4, <1>5, <2>1
  <2>3. p[a] = text[a]
    BY <1>2, <1>7, <2>2 DEF OnItsWay
  <2>4. p # Nothing
    BY <1>2, <1>6, <2>3, NothingType
  <2>5. /\ pending' = [pending EXCEPT ![r] = p] /\ full' = full
        /\ todo' = [todo EXCEPT ![r] = {b \in Article : p[b] # 0} \ Misshapen]
        /\ pc' = [pc EXCEPT ![r] = "vectors"]
    BY <2>1, <2>4 DEF Encode
  <2>6. pending'[r] = p /\ a \in todo'[r] /\ pc'[r] = "vectors"
    BY <1>1, <1>2, <1>6, <2>3, <2>5 DEF TypeOK
  <2> QED BY <1>1, <1>3, <2>3, <2>5, <2>6 DEF OnItsWay
<1> QED BY <1>8, <1>9

(* Then the vectors are written, and then the fingerprints.                *)
LEMMA SteadyWrite ==
  ASSUME FullRunInv, Remember, OneRunner, NEW r \in Runner, NEW a \in steady'[r],
         NEW q \in Runner, SetEmbedding(q) \/ EmbeddingsWritten(q) \/ SetFingerprints(q)
  PROVE  OnItsWay(r, a)'
<1>1. /\ q = r /\ pc[r] \in {"vectors", "fingerprints"} /\ TypeOK
      /\ UNCHANGED <<listed, text, full, offset, pending>>
  BY DEF OneRunner, SetEmbedding, EmbeddingsWritten, SetFingerprints, catalog, store, walk,
         FullRunInv
<1>2. a \in Article /\ OnItsWay(r, a)
  BY <1>1, SteadyBefore DEF Starts
<1>3. pending[r][a] = text[a] /\ full[r] /\ a \in listed /\ text[a] # 0
  BY <1>1, <1>2, SizeAssumption DEF OnItsWay, TypeOK
<1>4. CASE SetEmbedding(r)
  <2>1. PICK b \in todo[r] : /\ vec' = [vec EXCEPT ![b] = pending[r][b]]
                             /\ todo' = [todo EXCEPT ![r] = @ \ {b}]
    BY <1>4 DEF SetEmbedding
  <2>2. pc' = pc /\ fp' = fp /\ pc[r] = "vectors" /\ todo'[r] = todo[r] \ {b}
    BY <1>1, <1>4, <2>1 DEF SetEmbedding, TypeOK
  <2>3. vec'[a] = IF a = b THEN pending[r][a] ELSE vec[a]
    BY <1>1, <1>2, <2>1 DEF TypeOK
  <2> QED BY <1>1, <1>2, <1>3, <2>2, <2>3 DEF OnItsWay
<1>5. CASE EmbeddingsWritten(r)
  <2>1. /\ UNCHANGED <<vec, fp>> /\ pc[r] = "vectors" /\ todo[r] = {}
        /\ pc'[r] = "fingerprints"
    BY <1>1, <1>5 DEF EmbeddingsWritten, store, TypeOK
  <2> QED BY <1>1, <1>2, <1>3, <2>1 DEF OnItsWay
<1>6. CASE SetFingerprints(r)
  <2>1. vec' = vec /\ pc[r] = "fingerprints" /\ fp'[a] = pending[r][a] /\ pc'[r] = "stamp"
    BY <1>1, <1>2, <1>3, <1>6 DEF SetFingerprints, TypeOK
  <2> QED BY <1>1, <1>2, <1>3, <2>1 DEF OnItsWay
<1> QED BY <1>1, <1>4, <1>5, <1>6

LEMMA FullRunStep ==
  ASSUME OneRunner, Misshapen = {}, MaxArticles > Articles
  PROVE  FullRunInv /\ [HistoryNext]_historyVars => FullRunInv'
<1> SUFFICES ASSUME FullRunInv, [HistoryNext]_historyVars PROVE FullRunInv'
  OBVIOUS
<1>1. TypeOK' /\ WalkInv'
  BY NextType, WalkStep DEF FullRunInv, historyVars, HistoryNext
<1>2. CASE UNCHANGED historyVars
  <2>1. UNCHANGED <<listed, text, vec, fp, pc, full, offset, pending, todo, steady>>
    BY <1>2 DEF historyVars, vars, catalog, store, walk
  <2>2. \A a : Newer(a)' = Newer(a)
    BY <2>1 DEF Newer
  <2>3. SteadyInv'
    BY <2>1, <2>2 DEF FullRunInv, SteadyInv, OnItsWay
  <2> QED BY <1>1, <2>1, <2>3 DEF FullRunInv, SteadyTypeOK
<1>3. CASE Next /\ Remember
  <2>1. SteadyTypeOK'
    BY <1>1, <1>3, SteadyTypeStep DEF FullRunInv
  <2>2. SteadyInv'
    <3> SUFFICES ASSUME NEW r \in Runner, NEW a \in steady'[r] PROVE OnItsWay(r, a)'
      BY DEF SteadyInv
    <3>1. ASSUME NEW q \in Runner, MarkFresh(q) \/ WalkFails(q) \/ Kill(q) PROVE FALSE
      <4>1. q = r /\ pc'[r] = "idle" /\ pc[r] # "idle"
        BY <3>1 DEF OneRunner, MarkFresh, WalkFails, Kill, End, FullRunInv, TypeOK
      <4>2. ~Ends(r)
        BY <1>3, <4>1, SteadyBefore DEF Starts
      <4> QED BY <4>1, <4>2 DEF Ends
    <3>2. ASSUME NEW q \in Runner, LastPage(q) \/ NextPage(q) PROVE OnItsWay(r, a)'
      <4>1. q = r /\ pc[r] = "walk"
        BY <3>2 DEF OneRunner, LastPage, NextPage
      <4>2. OnItsWay(r, a)
        BY <1>3, <4>1, SteadyBefore DEF Starts
      <4> QED BY <3>2, <4>1, <4>2, SteadyPage DEF FullRunInv
    <3> QED
      BY <1>3, <3>1, <3>2, SteadyAuthor, SteadyStart, SteadyWrite DEF Next, Run
  <2> QED BY <1>1, <2>1, <2>2 DEF FullRunInv
<1> QED BY <1>2, <1>3 DEF HistoryNext

(* An edit to an old article "is what --full is for" (embeddings.py:13):   *)
(* whatever happened before and happens meanwhile, a full run that ends    *)
(* well leaves every article that stayed as it was with its own vector and *)
(* fingerprint - with one run at a time, vectors of the right width and no *)
(* --max-articles.                                                         *)
THEOREM FullRunTheorem ==
  ASSUME OneRunner, Misshapen = {}, MaxArticles > Articles
  PROVE  HistorySpec => FullRunCatchesUp
<1>1. HistoryInit => FullRunInv
  <2> SUFFICES ASSUME HistoryInit PROVE FullRunInv
    OBVIOUS
  <2>1. TypeOK
    BY InitIInv DEF HistoryInit, IInv
  <2>2. SteadyTypeOK /\ SteadyInv
    BY DEF HistoryInit, SteadyTypeOK, SteadyInv
  <2>3. WalkInv
    BY SizeAssumption DEF HistoryInit, Init, WalkInv
  <2> QED BY <2>1, <2>2, <2>3 DEF FullRunInv
<1>2. FullRunInv /\ [HistoryNext]_historyVars
      => [\A r \in Runner : EndsWell(r) =>
            \A a \in steady[r] : vec'[a] = text[a] /\ fp'[a] = text[a]]_historyVars
  <2> SUFFICES ASSUME FullRunInv, Next, NEW r \in Runner, EndsWell(r), NEW a \in steady[r]
               PROVE  vec'[a] = text[a] /\ fp'[a] = text[a]
    BY DEF HistoryNext
  <2>1. pc[r] # "idle" /\ pc'[r] = "idle" /\ faults' = faults /\ OnItsWay(r, a) /\ TypeOK
    BY DEF EndsWell, Ends, FullRunInv, SteadyInv
  <2>2. MarkFresh(r) \/ LastPage(r)
    <3>1. ~\E c \in Article : PublishArticle(c) \/ UnpublishArticle(c) \/ EditArticle(c)
      BY <2>1 DEF PublishArticle, UnpublishArticle, EditArticle
    <3>2. \A q \in Runner : q = r
      BY DEF OneRunner
    <3>3. ~\E f \in Modes : Start(r, f)
      BY <2>1 DEF Start
    <3>4. ~(NextPage(r) \/ SetEmbedding(r) \/ EmbeddingsWritten(r) \/ SetFingerprints(r))
      BY <2>1 DEF NextPage, SetEmbedding, EmbeddingsWritten, SetFingerprints, TypeOK
    <3>5. ~(WalkFails(r) \/ Kill(r))
      BY <2>1 DEF WalkFails, Kill, Fault, TypeOK
    <3> QED BY <3>1, <3>2, <3>3, <3>4, <3>5 DEF Next, Run
  <2>3. CASE MarkFresh(r)
    BY <2>1, <2>3 DEF MarkFresh, OnItsWay, store
  <2>4. CASE LastPage(r)
    BY <2>1, <2>4, SteadyPage DEF FullRunInv
  <2> QED BY <2>2, <2>3, <2>4
<1> QED BY <1>1, <1>2, FullRunStep, PTL DEF HistorySpec, FullRunCatchesUp
===============================================================================
