---------------------------- MODULE Queries_proofs ----------------------------
(***************************************************************************)
(* Proofs about Queries: a reader who lists tokens or approvals page by    *)
(* page misses nothing that was there all the time, whatever requests are  *)
(* handled between two pages, and hears of no token twice.                 *)
(***************************************************************************)
EXTENDS Queries, Requests_proofs

-----------------------------------------------------------------------------
(* The reader and the times of approvals come on top of Requests.          *)

(* A step of Queries is a step of Requests, or none when the reader takes  *)
(* it.                                                                     *)
LEMMA StepIsRequestsStep ==
  ASSUME [QueriesNext]_queryVars
  PROVE  [RequestsNext]_requestVars
<1>1. CASE UNCHANGED requestVars
  BY <1>1
<1>2. CASE QueriesNext
  BY <1>1, <1>2 DEF QueriesNext, RequestsNext, Begin, Read
<1>3. CASE UNCHANGED queryVars
  BY <1>1, <1>3 DEF queryVars
<1> QED BY <1>2, <1>3

(* Whoever queries, the requests are handled as if nobody did: every       *)
(* theorem about RequestsSpec holds of QueriesSpec.                        *)
THEOREM QueriesChangeNothing == QueriesSpec => RequestsSpec
<1>1. QueriesInit => RequestsInit
  BY DEF QueriesInit, RequestsInit
<1>2. [QueriesNext]_queryVars => [RequestsNext]_requestVars
  BY StepIsRequestsStep
<1> QED BY <1>1, <1>2, PTL DEF QueriesSpec, RequestsSpec

-----------------------------------------------------------------------------
(* Pages of token lists.                                                   *)

(* An id's place among others: how many of them it does not precede. *)
Place(id, rest) == Cardinality({i \in rest : i <= id})

(* The places of n ids are 1 to n, in the order of the ids. *)
LEMMA Places ==
  ASSUME NEW rest \in SUBSET TokenId
  PROVE  /\ IsFiniteSet(rest) /\ Cardinality(rest) \in Nat /\ rest \subseteq Int
         /\ \A id \in rest : Place(id, rest) \in 1..Cardinality(rest)
         /\ \A i, j \in rest : i <= j <=> Place(i, rest) <= Place(j, rest)
         /\ \A k \in 1..Cardinality(rest) : \E id \in rest : Place(id, rest) = k
<1> DEFINE n == Cardinality(rest)
           upTo(id) == {i \in rest : i <= id}
           place == [id \in rest |-> Place(id, rest)]
<1>1. IsFiniteSet(rest) /\ n \in Nat /\ rest \subseteq Int
  <2>1. IsFiniteSet(TokenId)
    BY FS_Interval, LedgerAssumption DEF TokenId
  <2>2. IsFiniteSet(rest) /\ n \in Nat
    BY <2>1, FS_Subset, FS_CardinalityType
  <2>3. rest \subseteq Int
    BY DEF TokenId
  <2> QED BY <2>2, <2>3
<1>2. ASSUME NEW id \in rest
      PROVE  IsFiniteSet(upTo(id)) /\ Place(id, rest) \in 1..n
  <2>1. IsFiniteSet(upTo(id)) /\ Cardinality(upTo(id)) <= n /\ Cardinality(upTo(id)) \in Nat
    BY <1>1, FS_Subset, FS_CardinalityType
  <2>2. id \in upTo(id)
    BY <1>1
  <2>3. Cardinality(upTo(id)) # 0
    BY <2>1, <2>2, FS_EmptySet
  <2> QED BY <1>1, <2>1, <2>3 DEF Place
<1>3. ASSUME NEW i \in rest, NEW j \in rest, i < j
      PROVE  Place(i, rest) < Place(j, rest)
  <2> i \in Int /\ j \in Int
    BY <1>1
  <2>1. upTo(i) \subseteq upTo(j) /\ j \in upTo(j) /\ j \notin upTo(i)
    <3>1. ASSUME NEW k \in rest, k <= i PROVE k <= j
      BY <1>1, <1>3, <3>1
    <3>2. upTo(i) \subseteq upTo(j)
      BY <3>1
    <3>3. j <= j /\ ~(j <= i)
      BY <1>3
    <3> QED BY <3>2, <3>3
  <2>2. Cardinality(upTo(i)) <= Cardinality(upTo(j)) /\ Cardinality(upTo(i)) # Cardinality(upTo(j))
    BY <1>2, <2>1, FS_Subset
  <2> QED BY <1>2, <2>2 DEF Place
<1>4. \A i, j \in rest : i <= j <=> Place(i, rest) <= Place(j, rest)
  <2> TAKE i, j \in rest
  <2>1. i \in Int /\ j \in Int
    BY <1>1
  <2>2. Place(i, rest) \in 1..n /\ Place(j, rest) \in 1..n
    BY <1>2
  <2> HIDE DEF n
  <2> QED BY <1>1, <1>3, <2>1, <2>2
<1>5. place \in Surjection(rest, 1..n)
  <2>1. place \in [rest -> 1..n]
    BY <1>2
  <2>2. \A i, j \in rest : place[i] = place[j] => i = j
    <3> TAKE i, j \in rest
    <3>1. i \in Int /\ j \in Int
      BY <1>1
    <3>2. Place(i, rest) \in 1..n /\ Place(j, rest) \in 1..n
      BY <1>2
    <3> HIDE DEF n
    <3> QED BY <1>1, <1>3, <3>1, <3>2
  <2>3. place \in Injection(rest, 1..n)
    <3> HIDE DEF place
    <3> QED BY <2>1, <2>2 DEF Injection, IsInjective
  <2>4. IsFiniteSet(1..n) /\ Cardinality(1..n) = n
    BY <1>1, FS_Interval
  <2> HIDE DEF place
  <2> QED BY <2>3, <2>4, FS_Injection
<1>6. \A k \in 1..n : \E id \in rest : Place(id, rest) = k
  BY <1>5 DEF Surjection
<1> QED BY <1>1, <1>2, <1>4, <1>6

(* A page is empty when there is nothing to list, and has all ids up to    *)
(* its last one.                                                           *)
FirstOf(page, rest) ==
  /\ page = <<>> => rest = {}
  /\ page # <<>> =>
       /\ Last(page) \in {page[i] : i \in DOMAIN page}
       /\ \A id : id \in {page[i] : i \in DOMAIN page} <=> id \in rest /\ id <= Last(page)

(* The first ids of rest in ascending order are such a page. *)
LEMMA AscendingPage ==
  ASSUME NEW rest \in SUBSET TokenId, NEW take \in Nat \ {0}
  PROVE  FirstOf(Ascending(rest, take), rest)
<1> DEFINE n == Cardinality(rest)
           m == IF take < n THEN take ELSE n
           page == Ascending(rest, take)
<1>1. /\ IsFiniteSet(rest) /\ n \in Nat /\ m \in 0..n /\ (m = 0 => n = 0)
      /\ rest \subseteq Int
      /\ \A id \in rest : Place(id, rest) \in 1..n
      /\ \A i, j \in rest : i <= j <=> Place(i, rest) <= Place(j, rest)
      /\ \A k \in 1..n : \E id \in rest : Place(id, rest) = k
  BY Places
<1>2. page = [k \in 1..m |-> CHOOSE id \in rest : Place(id, rest) = k]
  BY DEF Ascending, Place
<1> HIDE DEF m, page
<1>3. \A k \in 1..m : page[k] \in rest /\ Place(page[k], rest) = k
  BY <1>1, <1>2
<1>4. page \in [1..m -> rest] /\ Len(page) = m
  BY <1>1, <1>2, <1>3
<1>5. ASSUME page = <<>> PROVE rest = {}
  <2>1. m = 0
    BY <1>1, <1>4, <1>5
  <2> QED BY <1>1, <2>1, FS_EmptySet
<1>6. ASSUME page # <<>>
      PROVE  /\ Last(page) \in {page[i] : i \in DOMAIN page}
             /\ \A id : id \in {page[i] : i \in DOMAIN page}
                        <=> id \in rest /\ id <= Last(page)
  <2>1. m \in 1..m /\ Last(page) = page[m]
    BY <1>1, <1>4, <1>6 DEF Last
  <2>2. \A k \in 1..m : page[k] <= page[m]
    <3> TAKE k \in 1..m
    <3>1. /\ page[k] \in rest /\ Place(page[k], rest) = k
          /\ page[m] \in rest /\ Place(page[m], rest) = m
      BY <1>3, <2>1
    <3>2. page[k] <= page[m] <=> Place(page[k], rest) <= Place(page[m], rest)
      BY <1>1, <3>1
    <3>3. k <= m
      BY <1>1
    <3> QED BY <3>1, <3>2, <3>3
  <2>3. ASSUME NEW id \in rest, id <= page[m] PROVE id \in {page[i] : i \in 1..m}
    <3>1. Place(id, rest) \in 1..m
      <4>1. page[m] \in rest /\ Place(page[m], rest) = m
        BY <1>3, <2>1
      <4>2. Place(id, rest) <= m
        <5>1. id <= page[m] <=> Place(id, rest) <= Place(page[m], rest)
          BY <1>1, <4>1
        <5> QED BY <2>3, <4>1, <5>1
      <4>3. Place(id, rest) \in 1..n
        BY <1>1
      <4> HIDE DEF n
      <4> QED BY <1>1, <4>2, <4>3
    <3>2. Place(page[Place(id, rest)], rest) = Place(id, rest) /\ page[Place(id, rest)] \in rest
      BY <1>3, <3>1
    <3>3. id <= page[Place(id, rest)] /\ page[Place(id, rest)] <= id
      <4>1. Place(id, rest) <= Place(id, rest)
        BY <1>1, <3>1
      <4>2. /\ id <= page[Place(id, rest)]
              <=> Place(id, rest) <= Place(page[Place(id, rest)], rest)
            /\ page[Place(id, rest)] <= id
              <=> Place(page[Place(id, rest)], rest) <= Place(id, rest)
        BY <1>1, <3>2
      <4> QED BY <3>2, <4>1, <4>2
    <3>4. id \in Int /\ page[Place(id, rest)] \in Int
      BY <1>1, <3>2
    <3>5. id = page[Place(id, rest)]
      BY <3>3, <3>4
    <3> QED BY <3>1, <3>5
  <2> QED BY <1>3, <1>4, <2>1, <2>2, <2>3
<1> QED BY <1>5, <1>6 DEF FirstOf, page

-----------------------------------------------------------------------------
(* Pages of approvals.                                                     *)

(* An order of a finite set's elements has each of them once. *)
LEMMA OrderHasAll ==
  ASSUME NEW D, IsFiniteSet(D), NEW q \in SetToSeqs(D)
  PROVE  /\ Cardinality(D) \in Nat
         /\ q \in [1..Cardinality(D) -> D]
         /\ \A s \in D : \E i \in 1..Cardinality(D) : q[i] = s
<1> DEFINE n == Cardinality(D)
<1>1. n \in Nat
  BY FS_CardinalityType
<1>2. q \in [1..n -> D] /\ \A i, j \in 1..n : i # j => q[i] # q[j]
  BY DEF SetToSeqs
<1>3. q \in Injection(1..n, D)
  BY <1>2 DEF Injection, IsInjective
<1>4. Cardinality(1..n) = n
  BY <1>1, FS_Interval
<1>5. q \in Surjection(1..n, D)
  BY <1>3, <1>4, FS_Injection
<1> QED BY <1>1, <1>2, <1>5 DEF Surjection

(* A page that starts after the approval of prev, or from the start when   *)
(* that one is gone: it is empty when all approvals are as late as that    *)
(* of prev, and otherwise has all that are neither as late as that one nor *)
(* past the page's own last one.                                           *)
LEMMA ApprovalsPage ==
  ASSUME NEW D, IsFiniteSet(D), NEW stamps \in [D -> Nat], NEW prev, NEW take \in Nat \ {0},
         NEW page \in PagesAfter(LatestFirst(stamps), prev, take)
  PROVE  /\ page = <<>> => \A s \in D : prev \in D /\ stamps[s] >= stamps[prev]
         /\ page # <<>> =>
              /\ Last(page) \in {page[i] : i \in DOMAIN page}
              /\ {page[i] : i \in DOMAIN page} \subseteq D
              /\ \A s \in D :
                   stamps[s] > stamps[Last(page)] =>
                     \/ s \in {page[i] : i \in DOMAIN page}
                     \/ prev \in D /\ stamps[s] >= stamps[prev]
<1>1. PICK q \in LatestFirst(stamps) :
        page = LET before == {i \in DOMAIN q : q[i] = prev}
                   start == IF before = {} THEN 0 ELSE CHOOSE i \in before : TRUE
               IN SubSeq(q, start + 1, IF start + take < Len(q) THEN start + take ELSE Len(q))
  BY DEF PagesAfter
<1> DEFINE n == Cardinality(D)
           before == {i \in DOMAIN q : q[i] = prev}
           start == IF before = {} THEN 0 ELSE CHOOSE i \in before : TRUE
           end == IF start + take < n THEN start + take ELSE n
<1>2. /\ n \in Nat /\ q \in [1..n -> D] /\ \A s \in D : \E i \in 1..n : q[i] = s
      /\ \A i, j \in 1..n : i < j => stamps[q[i]] >= stamps[q[j]]
  <2>1. q \in SetToSeqs(D) /\ \A i, j \in DOMAIN q : i < j => stamps[q[i]] >= stamps[q[j]]
    BY DEF LatestFirst
  <2>2. n \in Nat /\ q \in [1..n -> D] /\ \A s \in D : \E i \in 1..n : q[i] = s
    BY <2>1, OrderHasAll
  <2> QED BY <2>1, <2>2
<1> HIDE DEF n
<1>3. DOMAIN q = 1..n /\ q \in Seq(D) /\ Len(q) = n
  BY <1>2
<1>4. /\ start \in 0..n
      /\ start # 0 => q[start] = prev /\ prev \in D
  BY <1>2, <1>3
<1>5. page = SubSeq(q, start + 1, end)
  BY <1>1, <1>3
<1> HIDE DEF before, start
<1>6. /\ end \in start..n
      /\ end = start => start = n
  BY <1>2, <1>4
<1> HIDE DEF end
<1>7. /\ page \in Seq(D) /\ Len(page) = end - start
      /\ \A k \in 1..(end - start) : page[k] = q[start + k]
  <2>1. start \in Int /\ end \in Int /\ 0 <= start /\ start <= end /\ end <= Len(q)
    BY <1>2, <1>3, <1>4, <1>6
  <2>2. \A i \in (start + 1)..end : q[i] \in D
    BY <1>2, <1>3, <2>1
  <2> HIDE DEF start, end
  <2>3. page = [k \in 1..(end - start) |-> q[start + k]]
    BY <1>5, <2>1
  <2>4. \A k \in 1..(end - start) : start + k \in (start + 1)..end
    BY <2>1
  <2>5. page \in [1..(end - start) -> D] /\ end - start \in Nat
    BY <2>1, <2>2, <2>3, <2>4
  <2> QED BY <2>3, <2>5
<1>8. DOMAIN page = 1..(end - start)
  BY <1>7
<1>9. ASSUME page = <<>>, NEW s \in D PROVE prev \in D /\ stamps[s] >= stamps[prev]
  <2>1. start = n
    BY <1>2, <1>4, <1>6, <1>7, <1>9
  <2>2. PICK j \in 1..n : q[j] = s
    BY <1>2
  <2>3. start # 0 /\ start \in 1..n
    BY <1>2, <2>1, <2>2
  <2>4. j = start \/ j < start
    BY <1>2, <2>1, <2>2
  <2>5. stamps[s] \in Nat
    OBVIOUS
  <2> QED BY <1>2, <1>4, <2>2, <2>3, <2>4, <2>5
<1>10. ASSUME page # <<>>
       PROVE  /\ Last(page) = q[end] /\ end \in 1..n
              /\ Last(page) \in {page[i] : i \in DOMAIN page}
  <2>1. Len(page) # 0
    BY <1>7, <1>10
  <2>2. end - start \in 1..(end - start) /\ end \in 1..n /\ start + (end - start) = end
    BY <1>2, <1>4, <1>6, <1>7, <2>1
  <2>3. Last(page) = page[end - start]
    BY <1>7 DEF Last
  <2> QED BY <1>7, <1>8, <2>2, <2>3
<1>11. ASSUME page # <<>>, NEW s \in D, stamps[s] > stamps[Last(page)]
       PROVE  \/ s \in {page[i] : i \in DOMAIN page}
              \/ prev \in D /\ stamps[s] >= stamps[prev]
  <2>1. PICK j \in 1..n : q[j] = s
    BY <1>2
  <2>2. Last(page) = q[end] /\ end \in 1..n
    BY <1>10, <1>11
  <2>3. stamps[s] \in Nat /\ stamps[q[end]] \in Nat
    BY <1>2, <2>2
  <2>4. j < end
    <3>1. j # end
      BY <1>11, <2>1, <2>2, <2>3
    <3>2. ~(end < j)
      BY <1>2, <1>11, <2>1, <2>2, <2>3
    <3> QED BY <2>1, <2>2, <3>1, <3>2
  <2>5. CASE start < j
    <3>1. j - start \in 1..(end - start) /\ start + (j - start) = j
      BY <1>4, <1>6, <2>1, <2>4, <2>5
    <3> QED BY <1>7, <1>8, <2>1, <3>1
  <2>6. CASE j <= start
    <3>1. start # 0 /\ start \in 1..n
      BY <1>2, <1>4, <2>1, <2>6
    <3>2. j = start \/ j < start
      BY <1>4, <2>1, <2>6
    <3>3. stamps[s] >= stamps[q[start]]
      BY <1>2, <2>1, <2>3, <3>1, <3>2
    <3> QED BY <1>4, <3>1, <3>3
  <2> QED BY <1>4, <2>1, <2>5, <2>6
<1>12. {page[i] : i \in DOMAIN page} \subseteq D
  BY <1>7
<1> QED BY <1>9, <1>10, <1>11, <1>12

-----------------------------------------------------------------------------
(* The invariant of the reader.                                            *)

(* The times of a map's approvals: one for each spender, none in the       *)
(* future.                                                                 *)
Stamped(m, stamps) == stamps \in [DOMAIN MapOf(m) -> 0..now]

CreatedInv ==
  /\ \A id \in TokenId : Stamped(token_approvals[id], token_created_at[id])
  /\ \A a \in Account : Stamped(collection_approvals[a], collection_created_at[a])

(* The numbers the log's history gives the executions of a request do not  *)
(* run ahead of their count.                                               *)
Numbered ==
  \A e \in transactions :
    e.nth <= Cardinality({f \in transactions : f.request = e.request /\ f.tx.from = e.tx.from})

ListsTokens(l) == l.list \in {"tokens", "tokens_of"}

WalkType ==
  walk \in [listing : Listing, status : {"idle", "reading", "done"},
            prev : Nat \cup Account \cup {None}, listed : SUBSET (TokenId \cup Account),
            repeated : BOOLEAN]

(* A reader of tokens has got those up to prev that were there throughout, *)
(* and nothing beyond prev.                                                *)
TokensUpToPrev(w, kept, present) ==
  /\ w.prev \in Nat
  /\ \A i \in w.listed : i \in Nat /\ i <= w.prev
  /\ kept \subseteq present
  /\ \A i \in kept : i <= w.prev => i \in w.listed

(* A reader of approvals has got prev and those later than prev that were  *)
(* there throughout: what took a place after it since then, prev itself    *)
(* included, is as late as the present.                                    *)
ApprovalsSincePrev(w, kept, stamps) ==
  /\ w.prev # None => w.prev \in w.listed
  /\ kept \subseteq Untied(stamps)
  /\ w.prev \in DOMAIN stamps =>
       \A i \in kept : stamps[i] > stamps[w.prev] => i \in w.listed

ReaderInv ==
  /\ WalkType
  /\ walk.status = "idle" => walk.prev = Start(walk.listing) /\ walk.listed = {}
  /\ walk.status = "reading" =>
       IF ListsTokens(walk.listing)
         THEN TokensUpToPrev(walk, throughout, DOMAIN ItemsNow(walk.listing))
         ELSE ApprovalsSincePrev(walk, throughout, ItemsNow(walk.listing))
  /\ walk.status = "done" => throughout \subseteq walk.listed
  /\ ListsTokens(walk.listing) => ~walk.repeated

QueriesInv == RequestsTypeInv /\ LedgerPromises /\ Numbered /\ CreatedInv /\ ReaderInv

(* It holds at the start, with the reader idle. *)
LEMMA QueriesInvInit == QueriesInit => QueriesInv
<1> SUFFICES ASSUME QueriesInit PROVE QueriesInv
  OBVIOUS
<1>1. PICK w \in Workloads :
        /\ StartWith(w)
        /\ \E l \in w.reads :
             walk = [listing |-> l, status |-> "idle", prev |-> Start(l), listed |-> {},
                     repeated |-> FALSE]
  BY DEF QueriesInit
<1>2. RequestsTypeInv /\ LedgerPromises
  BY <1>1, RequestsTypeInvInit, LedgerPromisesAtStart DEF RequestsInit
<1>3. Numbered
  BY <1>1 DEF StartWith, Numbered
<1>4. CreatedInv
  <2>1. now = 0 /\ NoApprovals \in [DOMAIN MapOf(None) -> 0..now]
    BY <1>1 DEF StartWith, NoApprovals, MapOf
  <2> QED BY <1>1, <2>1 DEF StartWith, QueriesInit, CreatedInv, Stamped
<1>5. ReaderInv
  <2>1. PICK l \in Listing :
          walk = [listing |-> l, status |-> "idle", prev |-> Start(l), listed |-> {},
                  repeated |-> FALSE]
    BY <1>1, WorkloadsAssumption
  <2>2. Start(l) \in Nat \cup Account \cup {None}
    BY DEF Start
  <2> QED BY <2>1, <2>2 DEF ReaderInv, WalkType
<1> QED BY <1>2, <1>3, <1>4, <1>5 DEF QueriesInv

-----------------------------------------------------------------------------
(* Executions of a request are told apart by their number.                 *)

(* A transaction that is logged is one more. *)
LEMMA LoggedIsNew ==
  ASSUME RequestsTypeInv, Numbered, NEW r, NEW from, NEW time, time # None,
         LogTransaction(r, from, time)
  PROVE  transactions' # transactions /\ Numbered'
<1> DEFINE of(q, a, T) == {f \in T : f.request = q /\ f.tx.from = a}
           new == [request |-> r, tx |-> Transaction(r, from, time), at |-> now,
                   nth |-> Cardinality(of(r, from, transactions)) + 1]
<1>1. transactions' = transactions \cup {new}
  BY DEF LogTransaction
<1>2. /\ IsFiniteSet(transactions)
      /\ \A e \in transactions : e.nth \in Nat
  BY DEF RequestsTypeInv, RequestsTypeOK, Execution
<1>3. \A q, a : IsFiniteSet(of(q, a, transactions)) /\ Cardinality(of(q, a, transactions)) \in Nat
  BY <1>2, FS_Subset, FS_CardinalityType
<1>4. /\ new.request = r /\ new.tx.from = from
      /\ new.nth = Cardinality(of(r, from, transactions)) + 1
  BY DEF Transaction
<1> HIDE DEF new
<1>5. \A e \in transactions : e.nth <= Cardinality(of(e.request, e.tx.from, transactions))
  BY DEF Numbered
<1> HIDE DEF of
<1>6. new \notin transactions
  BY <1>3, <1>4, <1>5
<1>7. /\ of(r, from, transactions') = of(r, from, transactions) \cup {new}
      /\ new \notin of(r, from, transactions)
      /\ \A q, a : q # r \/ a # from => of(q, a, transactions') = of(q, a, transactions)
  BY <1>1, <1>4, <1>6 DEF of
<1>8. Cardinality(of(r, from, transactions')) = Cardinality(of(r, from, transactions)) + 1
  BY <1>3, <1>7, FS_AddElement
<1>9. \A e \in transactions' : e.nth <= Cardinality(of(e.request, e.tx.from, transactions'))
  <2> TAKE e \in transactions'
  <2>1. CASE e = new
    BY <1>3, <1>4, <1>8, <2>1
  <2>2. CASE e \in transactions /\ e.request = r /\ e.tx.from = from
    <3>1. e.nth \in Nat /\ e.nth <= Cardinality(of(r, from, transactions))
      BY <1>2, <1>5, <2>2
    <3> QED BY <1>3, <1>8, <2>2, <3>1
  <2>3. CASE e \in transactions /\ (e.request # r \/ e.tx.from # from)
    BY <1>5, <1>7, <2>3
  <2> QED BY <1>1, <2>1, <2>2, <2>3
<1> QED BY <1>1, <1>6, <1>9 DEF Numbered, of

LEMMA NumberedStep ==
  ASSUME RequestsTypeInv, Numbered, [RequestsNext]_requestVars
  PROVE  Numbered'
<1>1. CASE UNCHANGED transactions
  BY <1>1 DEF Numbered
<1>2. CASE LogStep
  BY <1>2, LoggedIsNew, LedgerAssumption DEF LogStep
<1> QED BY <1>1, <1>2, NextTransactionStep DEF TransactionStep

-----------------------------------------------------------------------------
(* The times of approvals.                                                 *)

(* Map n has no spender that m does not have. *)
NoMore(n, m) == DOMAIN MapOf(n) \subseteq DOMAIN MapOf(m)

(* Inserting an approval adds its spender. *)
LEMMA PutSpenders ==
  ASSUME NEW m \in ApprovalMap \cup {None}, NEW s \in Account, NEW a \in Approval
  PROVE  DOMAIN MapOf(Put(MapOf(m), s, a)) = DOMAIN MapOf(m) \cup {s}
<1>1. Put(MapOf(m), s, a) \in ApprovalMap
  BY MapOfType, PutType
<1>2. MapOf(Put(MapOf(m), s, a)) = Put(MapOf(m), s, a)
  BY <1>1, LedgerAssumption DEF MapOf
<1> QED BY <1>2 DEF Put

(* The other operations on a map add none. *)
LEMMA RemovalSpenders ==
  ASSUME NEW m \in ApprovalMap \cup {None}, NEW s
  PROVE  /\ NoMore(None, m)
         /\ m # None => NoMore(Revoked(m, s), m)
         /\ NoMore(Purged(m, s), m)
<1>1. DOMAIN MapOf(None) = {}
  BY DEF MapOf, NoApprovals
<1>2. DOMAIN MapOf(NoApprovals) = {}
  BY NoApprovalsType, LedgerAssumption DEF MapOf, NoApprovals
<1>3. ASSUME m # None PROVE DOMAIN MapOf(Drop(m, s)) \subseteq DOMAIN MapOf(m)
  <2>1. Drop(m, s) \in ApprovalMap
    BY <1>3, DropType
  <2>2. MapOf(Drop(m, s)) = Drop(m, s) /\ MapOf(m) = m
    BY <1>3, <2>1, LedgerAssumption DEF MapOf
  <2> QED BY <2>2 DEF Drop
<1>4. CASE m = None
  BY <1>1, <1>4 DEF NoMore, Purged
<1>5. CASE m # None
  BY <1>1, <1>2, <1>3, <1>5 DEF NoMore, Revoked, Purged
<1> QED BY <1>4, <1>5

(* The only spenders a request adds are those of an approval that is       *)
(* executed, and the transaction shows it.                                 *)
AddsOnly(r) ==
  /\ \A id \in TokenId : \A s \in DOMAIN MapOf(token_approvals'[id]) :
       \/ s \in DOMAIN MapOf(token_approvals[id])
       \/ r.op = "37approve" /\ r.id = id /\ r.spender = s /\ transactions' # transactions
  /\ \A a \in Account : \A s \in DOMAIN MapOf(collection_approvals'[a]) :
       \/ s \in DOMAIN MapOf(collection_approvals[a])
       \/ r.op = "37approve_coll" /\ r.from = a /\ r.spender = s /\ transactions' # transactions

LEMMA RemovingAddsNothing ==
  ASSUME NEW r,
         \A id \in TokenId : NoMore(token_approvals'[id], token_approvals[id]),
         \A a \in Account : NoMore(collection_approvals'[a], collection_approvals[a])
  PROVE  AddsOnly(r)
BY DEF AddsOnly, NoMore

LEMMA HandleAddsOnly ==
  ASSUME TypeOK, RequestsTypeInv, Numbered, NEW r \in Request, Handle(r)
  PROVE  AddsOnly(r)
<1> DEFINE noMoreOnTokens == \A id \in TokenId : NoMore(token_approvals'[id], token_approvals[id])
           noMoreOnCollections ==
             \A a \in Account : NoMore(collection_approvals'[a], collection_approvals[a])
<1>0. /\ token_approvals \in [TokenId -> ApprovalMap \cup {None}]
      /\ collection_approvals \in [Account -> ApprovalMap \cup {None}]
  BY DEF TypeOK
<1>1. CASE UNCHANGED approvalVars
  BY <1>1 DEF approvalVars, AddsOnly
<1>2. CASE Refuse
  BY <1>1, <1>2 DEF Refuse, ledgerVars, vars, approvalVars
<1>3. CASE icrc7_transfer(r) \/ burn_nft(r)
  BY <1>1, <1>2, <1>3 DEF icrc7_transfer, Icrc7Transfer, burn_nft, BurnNft, approvalVars
<1>4. CASE icrc37_approve_token(r) /\ ~Refuse
  <2> DEFINE approval == [from |-> r.from, expires_at |-> r.expires_at]
  <2>1. r \in ApproveTokenArg
    BY <1>4, RequestKinds DEF icrc37_approve_token
  <2>2. /\ r.op = "37approve" /\ r.id \in TokenId /\ r.spender \in Account
        /\ approval \in Approval /\ r.created_at_time # None
    BY <2>1, LedgerAssumption DEF ApproveTokenArg, Approval
  <2>3. /\ ApproveToken(r.from, r.id, r.spender, r.expires_at)
        /\ LogTransaction(r, r.from, r.created_at_time)
    BY <1>4 DEF icrc37_approve_token
  <2>4. /\ token_approvals' = [token_approvals EXCEPT ![r.id] =
             Put(MapOf(token_approvals[r.id]), r.spender, approval)]
        /\ collection_approvals' = collection_approvals
    BY <1>0, <2>2, <2>3 DEF ApproveToken
  <2>5. transactions' # transactions
    BY <2>2, <2>3, LoggedIsNew
  <2> HIDE DEF approval
  <2>6. DOMAIN MapOf(token_approvals'[r.id]) = DOMAIN MapOf(token_approvals[r.id]) \cup {r.spender}
    BY <1>0, <2>2, <2>4, PutSpenders
  <2> QED BY <1>0, <2>2, <2>4, <2>5, <2>6 DEF AddsOnly
<1>5. CASE icrc37_approve_collection(r) /\ ~Refuse
  <2> DEFINE approval == [from |-> r.from, expires_at |-> r.expires_at]
  <2>1. r \in ApproveCollectionArg
    BY <1>5, RequestKinds DEF icrc37_approve_collection
  <2>2. /\ r.op = "37approve_coll" /\ r.from \in Account /\ r.spender \in Account
        /\ approval \in Approval /\ r.created_at_time # None
    BY <2>1, LedgerAssumption DEF ApproveCollectionArg, Approval
  <2>3. /\ ApproveCollection(r.from, r.spender, r.expires_at)
        /\ LogTransaction(r, r.from, r.created_at_time)
    BY <1>5 DEF icrc37_approve_collection
  <2>4. /\ collection_approvals' = [collection_approvals EXCEPT ![r.from] =
             Put(MapOf(collection_approvals[r.from]), r.spender, approval)]
        /\ token_approvals' = token_approvals
    BY <1>0, <2>2, <2>3 DEF ApproveCollection
  <2>5. transactions' # transactions
    BY <2>2, <2>3, LoggedIsNew
  <2> HIDE DEF approval
  <2>6. DOMAIN MapOf(collection_approvals'[r.from])
          = DOMAIN MapOf(collection_approvals[r.from]) \cup {r.spender}
    BY <1>0, <2>2, <2>4, PutSpenders
  <2> QED BY <1>0, <2>2, <2>4, <2>5, <2>6 DEF AddsOnly
<1>6. CASE icrc37_revoke_token_approvals(r) /\ ~Refuse
  <2>1. r.id \in TokenId
    BY <1>6, RequestKinds DEF icrc37_revoke_token_approvals, RevokeTokenApprovalArg
  <2>2. RevokeTokenApprovals(r.from, r.id, r.spender)
    BY <1>6 DEF icrc37_revoke_token_approvals
  <2>3. /\ token_approvals[r.id] # None
        /\ token_approvals' =
             [token_approvals EXCEPT ![r.id] = Revoked(token_approvals[r.id], r.spender)]
        /\ collection_approvals' = collection_approvals
    BY <1>0, <2>1, <2>2 DEF RevokeTokenApprovals
  <2>4. NoMore(token_approvals'[r.id], token_approvals[r.id])
    BY <1>0, <2>1, <2>3, RemovalSpenders
  <2>5. noMoreOnTokens /\ noMoreOnCollections
    BY <1>0, <2>3, <2>4 DEF NoMore
  <2> QED BY <2>5, RemovingAddsNothing
<1>7. CASE icrc37_revoke_collection_approvals(r) /\ ~Refuse
  <2> DEFINE from == [owner |-> r.caller, subaccount |-> None]
  <2>1. /\ from \in Account /\ collection_approvals[from] # None
        /\ collection_approvals' =
             [collection_approvals EXCEPT ![from] = Revoked(collection_approvals[from], r.spender)]
        /\ token_approvals' = token_approvals
    BY <1>0, <1>7 DEF icrc37_revoke_collection_approvals, RevokeCollectionApprovals
  <2> HIDE DEF from
  <2>2. NoMore(collection_approvals'[from], collection_approvals[from])
    BY <1>0, <2>1, RemovalSpenders
  <2>3. noMoreOnTokens /\ noMoreOnCollections
    BY <1>0, <2>1, <2>2 DEF NoMore
  <2> QED BY <2>3, RemovingAddsNothing
<1>8. CASE icrc37_transfer_from(r) /\ ~Refuse
  <2> DEFINE owner == tokens_list[r.id]
             tokenPurged == [token_approvals EXCEPT ![r.id] = Purged(@, r.spender)]
             collectionPurged == [collection_approvals EXCEPT ![owner] = Purged(@, r.spender)]
  <2>1. r.id \in TokenId
    BY <1>8, RequestKinds DEF icrc37_transfer_from, TransferFromArg
  <2>2. TransferFrom(r.spender, r.id, r.from, r.to)
    BY <1>8 DEF icrc37_transfer_from
  <2>3. \/ token_approvals' = tokenPurged /\ collection_approvals' = collectionPurged
        \/ /\ token_approvals' = [tokenPurged EXCEPT ![r.id] = None]
           /\ collection_approvals' = [collectionPurged EXCEPT ![r.from] = None]
    BY <2>2 DEF TransferFrom
  <2>4. \A id \in TokenId : NoMore(tokenPurged[id], token_approvals[id])
    BY <1>0, RemovalSpenders DEF NoMore
  <2>5. \A a \in Account : NoMore(collectionPurged[a], collection_approvals[a])
    BY <1>0, RemovalSpenders DEF NoMore
  <2>6. DOMAIN tokenPurged = TokenId /\ DOMAIN collectionPurged = Account
    BY <1>0
  <2>7. /\ \A id \in TokenId : NoMore(None, token_approvals[id])
        /\ \A a \in Account : NoMore(None, collection_approvals[a])
    BY <1>0, RemovalSpenders
  <2> HIDE DEF tokenPurged, collectionPurged
  <2>8. noMoreOnTokens
    <3> TAKE id \in TokenId
    <3>1. token_approvals'[id] = tokenPurged[id] \/ token_approvals'[id] = None
      BY <2>3, <2>6
    <3> QED BY <2>4, <2>7, <3>1
  <2>9. noMoreOnCollections
    <3> TAKE a \in Account
    <3>1. collection_approvals'[a] = collectionPurged[a] \/ collection_approvals'[a] = None
      BY <2>3, <2>6
    <3> QED BY <2>5, <2>7, <3>1
  <2> QED BY <2>8, <2>9, RemovingAddsNothing
<1> QED BY <1>2, <1>3, <1>4, <1>5, <1>6, <1>7, <1>8 DEF Handle

(* Times after a step: the present one, or that of before. *)
NowOrBefore(before, after) ==
  \A s \in DOMAIN after :
    \/ after[s] = now
    \/ s \in DOMAIN before /\ after[s] = before[s]

(* Restamping a map that has at most one new spender, the one given. *)
LEMMA Restamped ==
  ASSUME now \in Nat, NEW m, NEW n, NEW stamps, Stamped(m, stamps), NEW given,
         \A s \in DOMAIN MapOf(n) : s \in DOMAIN MapOf(m) \/ s = given
  PROVE  /\ Stamped(n, Stamps(n, stamps, given))
         /\ NowOrBefore(stamps, Stamps(n, stamps, given))
BY DEF Stamped, Stamps, NowOrBefore

LEMMA StampsStep ==
  ASSUME now \in Nat, now' = now, CreatedInv, NEW r, AddsOnly(r), StampApprovals(r)
  PROVE  /\ CreatedInv'
         /\ \A id \in TokenId : NowOrBefore(token_created_at[id], token_created_at'[id])
         /\ \A a \in Account :
              NowOrBefore(collection_created_at[a], collection_created_at'[a])
<1> DEFINE onToken(id) == IF (r.op = "37approve" /\ transactions' # transactions) /\ r.id = id
                            THEN r.spender ELSE None
           onCollection(a) ==
             IF (r.op = "37approve_coll" /\ transactions' # transactions) /\ r.from = a
               THEN r.spender ELSE None
<1>1. /\ token_created_at' = [id \in TokenId |->
           Stamps(token_approvals'[id], token_created_at[id], onToken(id))]
      /\ collection_created_at' = [a \in Account |->
           Stamps(collection_approvals'[a], collection_created_at[a], onCollection(a))]
  BY DEF StampApprovals
<1>2. ASSUME NEW id \in TokenId
      PROVE  /\ Stamped(token_approvals'[id], token_created_at'[id])
             /\ NowOrBefore(token_created_at[id], token_created_at'[id])
  <2>1. Stamped(token_approvals[id], token_created_at[id])
    BY DEF CreatedInv
  <2>2. \A s \in DOMAIN MapOf(token_approvals'[id]) :
          s \in DOMAIN MapOf(token_approvals[id]) \/ s = onToken(id)
    BY DEF AddsOnly
  <2>3. token_created_at'[id] = Stamps(token_approvals'[id], token_created_at[id], onToken(id))
    BY <1>1
  <2> HIDE DEF onToken
  <2> QED BY <2>1, <2>2, <2>3, Restamped
<1>3. ASSUME NEW a \in Account
      PROVE  /\ Stamped(collection_approvals'[a], collection_created_at'[a])
             /\ NowOrBefore(collection_created_at[a], collection_created_at'[a])
  <2>1. Stamped(collection_approvals[a], collection_created_at[a])
    BY DEF CreatedInv
  <2>2. \A s \in DOMAIN MapOf(collection_approvals'[a]) :
          s \in DOMAIN MapOf(collection_approvals[a]) \/ s = onCollection(a)
    BY DEF AddsOnly
  <2>3. collection_created_at'[a] =
          Stamps(collection_approvals'[a], collection_created_at[a], onCollection(a))
    BY <1>1
  <2> HIDE DEF onCollection
  <2> QED BY <2>1, <2>2, <2>3, Restamped
<1>4. CreatedInv'
  BY <1>2, <1>3 DEF CreatedInv, Stamped, MapOf
<1> QED BY <1>2, <1>3, <1>4

-----------------------------------------------------------------------------
(* What the reader lists.                                                  *)

(* A list of tokens is one of ids, and its pages are of these ids. *)
LEMMA TokenList ==
  ASSUME TypeOK, NEW l \in Listing, ListsTokens(l)
  PROVE  /\ DOMAIN ItemsNow(l) \in SUBSET TokenId
         /\ \A prev : Pages(l, prev) = {Page(DOMAIN ItemsNow(l), prev, Take)}
<1>1. CASE l.list = "tokens"
  <2>1. DOMAIN ItemsNow(l) = LiveTokens
    BY <1>1 DEF ItemsNow, Items, LiveTokens
  <2> QED BY <1>1, <2>1 DEF Pages, icrc7_tokens, LiveTokens
<1>2. CASE l.list = "tokens_of"
  <2>1. l.account \in Account
    BY <1>2 DEF Listing
  <2>2. DOMAIN ItemsNow(l) = tokens_ids_of_account(l.account)
    BY <1>2, <2>1, LedgerAssumption
       DEF ItemsNow, Items, tokens_ids_of_account, LiveTokens, Owns
  <2> QED BY <1>2, <2>2 DEF Pages, icrc7_tokens_of, tokens_ids_of_account, LiveTokens
<1> QED BY <1>1, <1>2 DEF ListsTokens

(* A list of approvals is one of times by spender, and its pages are taken *)
(* from the orders of these.                                               *)
LEMMA ApprovalList ==
  ASSUME TypeOK, CreatedInv, NEW l \in Listing, ~ListsTokens(l)
  PROVE  /\ DOMAIN ItemsNow(l) \in SUBSET Account
         /\ ItemsNow(l) \in [DOMAIN ItemsNow(l) -> 0..now]
         /\ \A prev : Pages(l, prev) = PagesAfter(LatestFirst(ItemsNow(l)), prev, Take)
<1>1. ASSUME NEW m \in ApprovalMap \cup {None}, NEW stamps, Stamped(m, stamps)
      PROVE  DOMAIN stamps \in SUBSET Account /\ stamps \in [DOMAIN stamps -> 0..now]
  <2>1. MapOf(m) \in ApprovalMap
    BY MapOfType
  <2>2. DOMAIN MapOf(m) \in SUBSET Account
    BY <2>1 DEF ApprovalMap
  <2> QED BY <1>1, <2>2 DEF Stamped
<1>2. CASE l.list = "token_approvals"
  <2>1. l.id \in TokenId /\ ItemsNow(l) = token_created_at[l.id]
    BY <1>2 DEF Listing, ItemsNow, Items
  <2>2. token_approvals[l.id] \in ApprovalMap \cup {None}
    BY <2>1 DEF TypeOK
  <2> QED BY <1>1, <1>2, <2>1, <2>2 DEF CreatedInv, Pages, icrc37_get_token_approvals
<1>3. CASE l.list = "collection_approvals"
  <2>1. l.account \in Account /\ ItemsNow(l) = collection_created_at[l.account]
    BY <1>3 DEF Listing, ItemsNow, Items
  <2>2. collection_approvals[l.account] \in ApprovalMap \cup {None}
    BY <2>1 DEF TypeOK
  <2> QED BY <1>1, <1>3, <2>1, <2>2 DEF CreatedInv, Pages, icrc37_get_collection_approvals
<1> QED BY <1>2, <1>3 DEF Listing, ListsTokens

-----------------------------------------------------------------------------
(* The steps.                                                              *)

(* The reader's invariant outlasts a step that touches neither the reader  *)
(* nor what is listed.                                                     *)
LEMMA NothingToNotice ==
  ASSUME ReaderInv,
         UNCHANGED <<tokens_list, token_created_at, collection_created_at, walk, throughout>>
  PROVE  ReaderInv'
<1>1. ItemsNow(walk.listing)' = ItemsNow(walk.listing)
  BY DEF ItemsNow, Items
<1> QED BY <1>1 DEF ReaderInv, WalkType

(* Begin: what is there now has to be got. *)
LEMMA BeginStep ==
  ASSUME TypeOK, CreatedInv, ReaderInv, Begin
  PROVE  ReaderInv'
<1> DEFINE l == walk.listing
           items == ItemsNow(l)
<1>1. /\ walk.status = "idle" /\ walk.prev = Start(l) /\ walk.listed = {}
      /\ walk' = [walk EXCEPT !.status = "reading"]
      /\ throughout' = Untied(items)
      /\ WalkType
  BY DEF Begin, ReaderInv
<1>2. /\ walk'.status = "reading" /\ walk'.listing = l /\ walk'.prev = Start(l)
      /\ walk'.listed = {} /\ walk'.repeated = walk.repeated /\ WalkType' /\ l \in Listing
  BY <1>1 DEF WalkType
<1>3. ItemsNow(walk.listing)' = items
  BY <1>2 DEF Begin, requestVars, vars, createdVars, ItemsNow
<1>4. CASE ListsTokens(l)
  <2>1. Start(l) = 0
    BY <1>4 DEF Start, ListsTokens
  <2>2. Untied(items) \subseteq DOMAIN items /\ DOMAIN items \in SUBSET TokenId
    BY <1>2, <1>4, TokenList DEF Untied
  <2>3. \A i \in Untied(items) : ~(i <= 0)
    BY <2>2, LedgerAssumption DEF TokenId
  <2> HIDE DEF items
  <2>4. TokensUpToPrev(walk', throughout', DOMAIN items)
    BY <1>1, <1>2, <2>1, <2>2, <2>3 DEF TokensUpToPrev
  <2> QED BY <1>2, <1>3, <1>4, <2>4 DEF ReaderInv
<1>5. CASE ~ListsTokens(l)
  <2>1. Start(l) = None
    BY <1>5 DEF Start, ListsTokens
  <2>2. None \notin DOMAIN items
    BY <1>2, <1>5, ApprovalList, LedgerAssumption
  <2> HIDE DEF items
  <2>3. ApprovalsSincePrev(walk', throughout', items)
    BY <1>1, <1>2, <2>1, <2>2 DEF ApprovalsSincePrev
  <2> QED BY <1>2, <1>3, <1>5, <2>3 DEF ReaderInv
<1> QED BY <1>4, <1>5

(* Read, of a list of tokens: the page goes on where the last one ended. *)
LEMMA ReadTokensStep ==
  ASSUME TypeOK, ReaderInv, Read, ListsTokens(walk.listing)
  PROVE  ReaderInv'
<1> DEFINE l == walk.listing
           present == DOMAIN ItemsNow(l)
           rest == {i \in present : i > walk.prev}
<1>1. /\ walk.status = "reading" /\ WalkType /\ l \in Listing /\ ~walk.repeated
      /\ TokensUpToPrev(walk, throughout, present)
  BY DEF Read, ReaderInv, WalkType
<1>2. /\ present \in SUBSET TokenId
      /\ Pages(l, walk.prev) = {Page(present, walk.prev, Take)}
  BY <1>1, TokenList
<1>3. PICK page \in Pages(l, walk.prev) :
        walk' = IF page = <<>>
                  THEN [walk EXCEPT !.status = "done", !.prev = None]
                  ELSE [walk EXCEPT !.prev = Last(page),
                                    !.listed = @ \cup {page[i] : i \in DOMAIN page},
                                    !.repeated =
                                      @ \/ {page[i] : i \in DOMAIN page} \cap walk.listed # {}]
  BY DEF Read
<1>4. /\ page = <<>> => rest = {}
      /\ page # <<>> =>
           /\ Last(page) \in {page[i] : i \in DOMAIN page}
           /\ {page[i] : i \in DOMAIN page} = {i \in rest : i <= Last(page)}
  <2>1. page = Ascending(rest, Take)
    BY <1>2, <1>3 DEF Page
  <2>2. rest \in SUBSET TokenId /\ Take \in Nat \ {0}
    BY <1>2, QueriesAssumption
  <2> HIDE DEF rest
  <2>3. FirstOf(page, rest)
    BY <2>1, <2>2, AscendingPage
  <2>4. page # <<>> =>
          /\ Last(page) \in {page[i] : i \in DOMAIN page}
          /\ \A id : id \in {page[i] : i \in DOMAIN page} <=> id \in rest /\ id <= Last(page)
    BY <2>3 DEF FirstOf
  <2> QED BY <2>3, <2>4 DEF FirstOf
<1>5. throughout' = throughout /\ ItemsNow(walk.listing)' = ItemsNow(l)
  <2>1. walk'.listing = l
    BY <1>1, <1>3 DEF WalkType
  <2> QED BY <2>1 DEF Read, requestVars, vars, createdVars, ItemsNow
<1>6. present \subseteq Nat /\ walk.prev \in Nat
  BY <1>1, <1>2, LedgerAssumption DEF TokensUpToPrev, TokenId
<1> HIDE DEF present
<1>7. CASE page = <<>>
  <2>1. /\ walk'.status = "done" /\ walk'.listing = l /\ walk'.prev = None
        /\ walk'.listed = walk.listed /\ walk'.repeated = walk.repeated /\ WalkType'
    BY <1>1, <1>3, <1>7 DEF WalkType
  <2>2. throughout \subseteq walk.listed
    BY <1>1, <1>4, <1>6, <1>7 DEF TokensUpToPrev
  <2> QED BY <1>1, <1>5, <2>1, <2>2 DEF ReaderInv
<1>8. CASE page # <<>>
  <2> DEFINE got == {page[i] : i \in DOMAIN page}
             last == Last(page)
  <2>1. /\ last \in rest /\ last \in Nat /\ last > walk.prev
        /\ got = {i \in rest : i <= last}
    BY <1>4, <1>6, <1>8
  <2>2. /\ walk'.prev = last /\ walk'.listed = walk.listed \cup got
        /\ walk'.listing = l /\ walk'.status = "reading"
        /\ walk'.repeated = (walk.repeated \/ got \cap walk.listed # {})
        /\ walk'.repeated \in BOOLEAN
    BY <1>1, <1>3, <1>8 DEF WalkType
  <2> HIDE DEF got, last
  <2>3. got \subseteq TokenId
    BY <1>2, <2>1
  <2>4. WalkType'
    <3>1. walk' = [walk EXCEPT !.prev = last, !.listed = walk.listed \cup got,
                               !.repeated = (walk.repeated \/ got \cap walk.listed # {})]
      BY <1>3, <1>8 DEF got, last
    <3> QED BY <1>1, <2>1, <2>2, <2>3, <3>1 DEF WalkType
  <2>5. got \cap walk.listed = {}
    BY <1>1, <1>6, <2>1 DEF TokensUpToPrev
  <2>6. TokensUpToPrev(walk', throughout', present)
    <3>1. ASSUME NEW i \in walk'.listed PROVE i \in Nat /\ i <= last
      <4>1. CASE i \in got
        BY <1>6, <2>1, <4>1
      <4>2. CASE i \in walk.listed
        <5>1. i \in Nat /\ i <= walk.prev
          BY <1>1, <4>2 DEF TokensUpToPrev
        <5> QED BY <1>6, <2>1, <5>1
      <4> QED BY <2>2, <4>1, <4>2
    <3>2. ASSUME NEW i \in throughout, i <= last PROVE i \in walk'.listed
      <4>1. i \in present /\ i \in Nat
        BY <1>1, <1>6 DEF TokensUpToPrev
      <4>2. CASE i <= walk.prev
        BY <1>1, <2>2, <4>2 DEF TokensUpToPrev
      <4>3. CASE i > walk.prev
        BY <2>1, <2>2, <3>2, <4>1, <4>3
      <4> QED BY <1>6, <4>1, <4>2, <4>3
    <3> QED BY <1>1, <1>5, <2>1, <2>2, <3>1, <3>2 DEF TokensUpToPrev
  <2> QED BY <1>1, <1>5, <2>2, <2>4, <2>5, <2>6 DEF ReaderInv, present
<1> QED BY <1>7, <1>8

(* Read, of a list of approvals: whatever is as late as prev or later was  *)
(* got before, unless it shares the time of prev.                          *)
LEMMA ReadApprovalsStep ==
  ASSUME TypeOK, CreatedInv, ReaderInv, Read, now \in Nat, ~ListsTokens(walk.listing)
  PROVE  ReaderInv'
<1> DEFINE l == walk.listing
           stamps == ItemsNow(l)
           D == DOMAIN stamps
<1>1. /\ walk.status = "reading" /\ WalkType /\ l \in Listing
      /\ ApprovalsSincePrev(walk, throughout, stamps)
  BY DEF Read, ReaderInv, WalkType
<1>2. /\ D \in SUBSET Account /\ stamps \in [D -> Nat]
      /\ Pages(l, walk.prev) = PagesAfter(LatestFirst(stamps), walk.prev, Take)
  BY <1>1, ApprovalList
<1>3. PICK page \in Pages(l, walk.prev) :
        walk' = IF page = <<>>
                  THEN [walk EXCEPT !.status = "done", !.prev = None]
                  ELSE [walk EXCEPT !.prev = Last(page),
                                    !.listed = @ \cup {page[i] : i \in DOMAIN page},
                                    !.repeated =
                                      @ \/ {page[i] : i \in DOMAIN page} \cap walk.listed # {}]
  BY DEF Read
<1>4. throughout' = throughout /\ ItemsNow(walk.listing)' = stamps
  <2>1. walk'.listing = l
    BY <1>1, <1>3 DEF WalkType
  <2> QED BY <2>1 DEF Read, requestVars, vars, createdVars, ItemsNow
<1> HIDE DEF stamps, l
<1>5. /\ page = <<>> => \A s \in D : walk.prev \in D /\ stamps[s] >= stamps[walk.prev]
      /\ page # <<>> =>
           /\ Last(page) \in {page[i] : i \in DOMAIN page}
           /\ {page[i] : i \in DOMAIN page} \subseteq D
           /\ \A s \in D :
                stamps[s] > stamps[Last(page)] =>
                  \/ s \in {page[i] : i \in DOMAIN page}
                  \/ walk.prev \in D /\ stamps[s] >= stamps[walk.prev]
  <2>1. IsFiniteSet(D)
    BY <1>2, FS_Subset, LedgerAssumption
  <2> HIDE DEF D
  <2> QED BY <1>2, <1>3, <2>1, ApprovalsPage, QueriesAssumption
<1>6. ASSUME NEW s \in throughout, walk.prev \in D, stamps[s] >= stamps[walk.prev]
      PROVE  s \in walk.listed
  <2>1. s \in Untied(stamps) /\ s \in D
    BY <1>1 DEF ApprovalsSincePrev, Untied
  <2>2. CASE s = walk.prev
    BY <1>1, <1>2, <1>6, <2>2, LedgerAssumption DEF ApprovalsSincePrev
  <2>3. CASE s # walk.prev
    <3>1. stamps[s] # stamps[walk.prev]
      BY <1>6, <2>1, <2>3 DEF Untied
    <3>2. stamps[s] > stamps[walk.prev]
      BY <1>2, <1>6, <2>1, <3>1
    <3> QED BY <1>1, <1>6, <3>2 DEF ApprovalsSincePrev
  <2> QED BY <2>2, <2>3
<1>7. CASE page = <<>>
  <2>1. /\ walk'.status = "done" /\ walk'.listing = l /\ walk'.prev = None
        /\ walk'.listed = walk.listed /\ walk'.repeated = walk.repeated /\ WalkType'
    BY <1>1, <1>3, <1>7 DEF WalkType, l
  <2>2. throughout \subseteq walk.listed
    <3>1. throughout \subseteq D
      BY <1>1 DEF ApprovalsSincePrev, Untied
    <3> QED BY <1>5, <1>6, <1>7, <3>1
  <2> QED BY <1>1, <1>4, <2>1, <2>2 DEF ReaderInv, l
<1>8. CASE page # <<>>
  <2> DEFINE got == {page[i] : i \in DOMAIN page}
             last == Last(page)
  <2>1. /\ walk'.prev = last /\ walk'.listed = walk.listed \cup got
        /\ walk'.listing = l /\ walk'.status = "reading"
        /\ walk'.repeated = (walk.repeated \/ got \cap walk.listed # {})
        /\ walk'.repeated \in BOOLEAN
    BY <1>1, <1>3, <1>8 DEF WalkType, l
  <2>2. /\ last \in got /\ got \subseteq D
        /\ \A s \in D : stamps[s] > stamps[last] =>
             s \in got \/ (walk.prev \in D /\ stamps[s] >= stamps[walk.prev])
    BY <1>5, <1>8
  <2> HIDE DEF got, last
  <2>3. WalkType'
    <3>1. walk' = [walk EXCEPT !.prev = last, !.listed = walk.listed \cup got,
                               !.repeated = (walk.repeated \/ got \cap walk.listed # {})]
      BY <1>3, <1>8 DEF got, last
    <3>2. got \subseteq Account
      BY <1>2, <2>2
    <3> QED BY <1>1, <2>1, <2>2, <3>1, <3>2 DEF WalkType
  <2>4. ApprovalsSincePrev(walk', throughout', stamps)
    <3>1. ASSUME NEW s \in throughout, stamps[s] > stamps[last]
          PROVE  s \in walk'.listed
      <4>1. s \in D
        BY <1>1 DEF ApprovalsSincePrev, Untied
      <4>2. s \in got \/ s \in walk.listed
        BY <1>6, <2>2, <3>1, <4>1
      <4> QED BY <2>1, <4>2
    <3> QED BY <1>1, <1>4, <2>1, <2>2, <3>1 DEF ApprovalsSincePrev
  <2> QED BY <1>1, <1>4, <2>1, <2>3, <2>4 DEF ReaderInv, l
<1> QED BY <1>7, <1>8

(* Other steps make a place in a list of approvals later, or leave it. *)
LEMMA ApprovalListStep ==
  ASSUME now \in Nat, now' = now, CreatedInv, NEW r, AddsOnly(r), StampApprovals(r),
         NEW l \in Listing, ~ListsTokens(l)
  PROVE  /\ NowOrBefore(ItemsNow(l), ItemsNext(l))
         /\ \A s \in DOMAIN ItemsNext(l) : ItemsNext(l)[s] \in 0..now
<1>1. /\ CreatedInv'
      /\ \A id \in TokenId : NowOrBefore(token_created_at[id], token_created_at'[id])
      /\ \A a \in Account : NowOrBefore(collection_created_at[a], collection_created_at'[a])
  BY StampsStep
<1>2. CASE l.list = "token_approvals"
  <2>1. /\ l.id \in TokenId /\ ItemsNow(l) = token_created_at[l.id]
        /\ ItemsNext(l) = token_created_at'[l.id]
    BY <1>2 DEF Listing, ItemsNow, ItemsNext, Items
  <2>2. token_created_at'[l.id] \in [DOMAIN MapOf(token_approvals'[l.id]) -> 0..now]
    BY <1>1, <2>1 DEF CreatedInv, Stamped, MapOf
  <2> QED BY <1>1, <2>1, <2>2
<1>3. CASE l.list = "collection_approvals"
  <2>1. /\ l.account \in Account /\ ItemsNow(l) = collection_created_at[l.account]
        /\ ItemsNext(l) = collection_created_at'[l.account]
    BY <1>3 DEF Listing, ItemsNow, ItemsNext, Items
  <2>2. collection_created_at'[l.account]
          \in [DOMAIN MapOf(collection_approvals'[l.account]) -> 0..now]
    BY <1>1, <2>1 DEF CreatedInv, Stamped, MapOf
  <2> QED BY <1>1, <2>1, <2>2
<1> QED BY <1>2, <1>3 DEF Listing, ListsTokens

(* A request of somebody else, between two pages. *)
LEMMA HandleStep ==
  ASSUME now \in Nat, now' = now, CreatedInv, ReaderInv,
         NEW r, AddsOnly(r), StampApprovals(r), Notice
  PROVE  ReaderInv'
<1> DEFINE l == walk.listing
           before == ItemsNow(l)
           after == ItemsNext(l)
<1>1. walk' = walk /\ WalkType /\ WalkType' /\ l \in Listing
  BY DEF Notice, ReaderInv, WalkType
<1>2. ItemsNow(walk.listing)' = after
  BY <1>1 DEF ItemsNow, ItemsNext
<1>3. CASE walk.status # "reading"
  <2>1. throughout' = throughout
    BY <1>3 DEF Notice
  <2> QED BY <1>1, <1>3, <2>1 DEF ReaderInv
<1>4. CASE walk.status = "reading" /\ ListsTokens(l)
  <2>1. /\ throughout' \subseteq throughout /\ throughout' \subseteq DOMAIN after
    BY <1>4 DEF Notice, Untouched, Untied
  <2>2. TokensUpToPrev(walk, throughout, DOMAIN before) /\ ~walk.repeated
    BY <1>4 DEF ReaderInv
  <2> HIDE DEF before, after
  <2>3. TokensUpToPrev(walk, throughout', DOMAIN after)
    BY <2>1, <2>2 DEF TokensUpToPrev
  <2> QED BY <1>1, <1>2, <1>4, <2>2, <2>3 DEF ReaderInv
<1>5. CASE walk.status = "reading" /\ ~ListsTokens(l)
  <2>1. throughout' = throughout \cap Untouched(before, after)
    BY <1>5 DEF Notice
  <2>2. ApprovalsSincePrev(walk, throughout, before)
    BY <1>5 DEF ReaderInv
  <2>3. NowOrBefore(before, after) /\ \A s \in DOMAIN after : after[s] \in 0..now
    BY <1>1, <1>5, ApprovalListStep
  <2> HIDE DEF before, after
  <2>4. ASSUME NEW i \in throughout', walk.prev \in DOMAIN after, after[i] > after[walk.prev]
        PROVE  i \in walk.listed
    <3>1. i \in throughout /\ i \in DOMAIN after /\ before[i] = after[i]
      BY <2>1 DEF Untouched, Untied
    <3>2. after[walk.prev] # now
      BY <2>3, <2>4, <3>1
    <3>3. walk.prev \in DOMAIN before /\ after[walk.prev] = before[walk.prev]
      BY <2>3, <2>4, <3>2 DEF NowOrBefore
    <3> QED BY <2>2, <2>4, <3>1, <3>3 DEF ApprovalsSincePrev
  <2>5. throughout' \subseteq Untied(after)
    BY <2>1 DEF Untouched
  <2>6. ApprovalsSincePrev(walk, throughout', after)
    BY <2>2, <2>4, <2>5 DEF ApprovalsSincePrev
  <2> QED BY <1>1, <1>2, <1>5, <2>6 DEF ReaderInv
<1> QED BY <1>3, <1>4, <1>5

(* Each step of Queries keeps the invariant. *)
LEMMA QueriesInvNext ==
  ASSUME QueriesInv, [QueriesNext]_queryVars
  PROVE  QueriesInv'
<1>1. TypeOK /\ RequestsTypeInv /\ Numbered /\ CreatedInv /\ ReaderInv /\ now \in Nat
  BY LedgerAssumption DEF QueriesInv, LedgerPromises, TypeOK, Time
<1>2. [RequestsNext]_requestVars
  BY StepIsRequestsStep
<1>3. RequestsTypeInv' /\ LedgerPromises' /\ Numbered'
  <2>1. workload \in Workloads
    BY <1>1 DEF RequestsTypeInv, RequestsTypeOK
  <2>2. [Next]_vars
    BY <1>2, <2>1, StepIsLedgerStep
  <2>3. LedgerPromises'
    BY <2>2, LedgerPromisesStep DEF QueriesInv
  <2> QED BY <1>1, <1>2, <2>3, RequestsTypeInvStep, NumberedStep
<1>4. CreatedInv' /\ ReaderInv'
  <2>1. CASE /\ UNCHANGED <<tokens_list, token_approvals, collection_approvals, createdVars,
                            readerVars>>
             /\ now' \in Nat /\ now <= now'
    <3>1. 0..now \subseteq 0..now'
      BY <1>1, <2>1
    <3>2. CreatedInv'
      BY <1>1, <2>1, <3>1 DEF createdVars, CreatedInv, Stamped, MapOf
    <3>3. ReaderInv'
      BY <1>1, <2>1, NothingToNotice DEF createdVars, readerVars
    <3> QED BY <3>2, <3>3
  <2>2. CASE UNCHANGED queryVars
    BY <1>1, <2>1, <2>2 DEF queryVars, requestVars, vars, createdVars, readerVars
  <2>3. CASE TimePasses /\ UNCHANGED <<createdVars, readerVars>>
    BY <1>1, <2>1, <2>3 DEF TimePasses, Tick
  <2>4. CASE \E new \in workload.limits : UpdateLimits(new) /\ UNCHANGED <<createdVars, readerVars>>
    BY <1>1, <2>1, <2>4 DEF UpdateLimits, ledgerVars, vars
  <2>5. CASE \E r \in workload.requests : Handle(r) /\ StampApprovals(r) /\ Notice
    <3>1. PICK r \in workload.requests : Handle(r) /\ StampApprovals(r) /\ Notice
      BY <2>5
    <3>2. r \in Request
      BY <1>1, RequestsAssumption DEF RequestsTypeInv, RequestsTypeOK
    <3>3. now' = now
      BY <3>1, <3>2, HandleWindowStep DEF CallStep, OtherStep
    <3>4. AddsOnly(r)
      BY <1>1, <3>1, <3>2, HandleAddsOnly
    <3> QED BY <1>1, <3>1, <3>3, <3>4, HandleStep, StampsStep
  <2>6. CASE Begin
    <3>1. CreatedInv'
      BY <1>1, <2>6 DEF Begin, requestVars, vars, createdVars, CreatedInv, Stamped, MapOf
    <3> QED BY <1>1, <2>6, <3>1, BeginStep
  <2>7. CASE Read
    <3>1. CreatedInv'
      BY <1>1, <2>7 DEF Read, requestVars, vars, createdVars, CreatedInv, Stamped, MapOf
    <3> QED BY <1>1, <2>7, <3>1, ReadTokensStep, ReadApprovalsStep
  <2> QED BY <2>2, <2>3, <2>4, <2>5, <2>6, <2>7 DEF QueriesNext
<1> QED BY <1>3, <1>4 DEF QueriesInv

(* The reader's invariant holds always. *)
THEOREM ReaderFollows == QueriesSpec => []QueriesInv
<1>1. QueriesInv /\ [QueriesNext]_queryVars => QueriesInv'
  BY QueriesInvNext
<1> QED BY QueriesInvInit, <1>1, PTL DEF QueriesSpec

(* WalkMissesNothing: whatever the list, the page size, the requests and   *)
(* their order, a reader who has come to the end has got everything that   *)
(* was there, untouched, all the time.                                     *)
THEOREM WalkComplete == QueriesSpec => []WalkMissesNothing
<1>1. QueriesInv => WalkMissesNothing
  BY DEF QueriesInv, ReaderInv, WalkMissesNothing
<1> QED BY ReaderFollows, <1>1, PTL

(* TokensListedOnce: nobody is told of a token twice, since a page has no  *)
(* id up to that of the last token of the page before.                     *)
THEOREM ListedOnce == QueriesSpec => []TokensListedOnce
<1>1. QueriesInv => TokensListedOnce
  BY DEF QueriesInv, ReaderInv, ListsTokens, TokensListedOnce
<1> QED BY ReaderFollows, <1>1, PTL
=============================================================================
