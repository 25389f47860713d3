-------------------------- MODULE BlockAnswers_proofs --------------------------
(***************************************************************************)
(* Proofs about the queries of BlockIndex: an answer misses no block that  *)
(* was indexed when the query came in, whatever happens to the log, the    *)
(* index and the cache while the query waits for blocks.                   *)
(***************************************************************************)
EXTENDS BlockIndex_proofs, SequenceTheorems, WellFoundedInduction

-----------------------------------------------------------------------------
(* Sorted, the only recursive definition of the model.                     *)

(* A set of naturals that is not empty has a least one.  Applied to the    *)
(* numbers for which a claim fails, this is induction.                     *)
LEMMA LeastNat ==
  ASSUME NEW T \in SUBSET Nat, T # {}
  PROVE  \E m \in T : \A k \in T : m <= k
<1> DEFINE R == OpToRel(<, Nat)
<1>1. IsWellFoundedOn(R, Nat)
  BY NatLessThanWellFounded
<1>2. \A x, y \in Nat : y < x => <<y, x>> \in R
  BY DEF OpToRel
<1> HIDE DEF R
<1>3. PICK m \in T : \A y \in T : ~(<<y, m>> \in R)
  BY <1>1, WFMin
<1>4. ASSUME NEW k \in T PROVE m <= k
  <2>1. k \in Nat /\ m \in Nat /\ ~(<<k, m>> \in R)
    BY <1>3
  <2>2. ~(k < m)
    BY <1>2, <2>1
  <2> QED BY <2>1, <2>2
<1> QED BY <1>4

(* upto of Sorted: the first n ids, with parts[n] for the n-th. *)
Upto(f, parts, N) ==
  f = [n \in 0..N |-> IF n = 0 THEN <<>> ELSE f[n - 1] \o parts[n]]

(* There is such a function. *)
LEMMA UptoExists ==
  ASSUME NEW N \in Nat, NEW parts
  PROVE  \E f : Upto(f, parts, N)
<1> DEFINE bad == {k \in 0..N : ~ \E f : Upto(f, parts, k)}
<1> SUFFICES ASSUME bad # {} PROVE FALSE
  OBVIOUS
<1>1. PICK k \in bad : \A i \in bad : k <= i
  <2>1. bad \in SUBSET Nat
    OBVIOUS
  <2> HIDE DEF bad
  <2> QED BY <2>1, LeastNat
<1>2. k \in 0..N /\ ~ \E f : Upto(f, parts, k)
  OBVIOUS
<1>3. k # 0
  <2> DEFINE g == [n \in 0..0 |-> <<>>]
  <2>1. g = [n \in 0..0 |-> IF n = 0 THEN <<>> ELSE g[n - 1] \o parts[n]]
    OBVIOUS
  <2>2. Upto(g, parts, 0)
    BY <2>1 DEF Upto
  <2> QED BY <1>2, <2>2
<1>4. k - 1 \in 0..N /\ k - 1 \notin bad
  BY <1>1, <1>2, <1>3
<1>5. PICK f : Upto(f, parts, k - 1)
  BY <1>4
<1> DEFINE g == [n \in 0..k |-> IF n = k THEN f[k - 1] \o parts[k] ELSE f[n]]
<1>6. f = [n \in 0..(k - 1) |-> IF n = 0 THEN <<>> ELSE f[n - 1] \o parts[n]]
  BY <1>5 DEF Upto
<1>7. ASSUME NEW n \in 0..k
      PROVE  g[n] = IF n = 0 THEN <<>> ELSE g[n - 1] \o parts[n]
  <2>1. CASE n = k
    BY <1>2, <1>3, <2>1
  <2>2. CASE n # k
    <3>1. n \in 0..(k - 1) /\ g[n] = f[n]
      BY <1>2, <2>2
    <3>2. n # 0 => n - 1 \in 0..k /\ n - 1 # k /\ g[n - 1] = f[n - 1]
      BY <1>2, <3>1
    <3> QED BY <1>6, <3>1, <3>2
  <2> QED BY <2>1, <2>2
<1>8. Upto(g, parts, k)
  <2>1. g = [n \in 0..k |-> g[n]]
    OBVIOUS
  <2> HIDE DEF g
  <2> QED BY <1>7, <2>1 DEF Upto
<1> QED BY <1>2, <1>8

(* Sorted is the last value of such a function. *)
LEMMA SortedUpto ==
  ASSUME NEW listed \in [BlockId -> Nat]
  PROVE  \E f : /\ Upto(f, [n \in 1..MaxBlocks |-> [c \in 1..listed[n - 1] |-> n - 1]], MaxBlocks)
                /\ Sorted(listed) = f[MaxBlocks]
<1> DEFINE parts == [n \in 1..MaxBlocks |-> [c \in 1..listed[n - 1] |-> n - 1]]
           body(f) == [n \in 0..MaxBlocks |->
                         IF n = 0 THEN <<>> ELSE f[n - 1] \o [c \in 1..listed[n - 1] |-> n - 1]]
           upto == CHOOSE f : f = body(f)
<1>1. MaxBlocks \in Nat
  BY BlockIndexAssumption
<1>2. \A f : body(f) = [n \in 0..MaxBlocks |-> IF n = 0 THEN <<>> ELSE f[n - 1] \o parts[n]]
  <2> TAKE f
  <2>1. \A n \in 0..MaxBlocks : n # 0 => n \in 1..MaxBlocks
    BY <1>1
  <2>2. \A n \in 0..MaxBlocks : n # 0 => parts[n] = [c \in 1..listed[n - 1] |-> n - 1]
    BY <2>1
  <2> HIDE DEF parts
  <2> QED BY <2>2
<1>3. \E f : f = body(f)
  <2> HIDE DEF parts, body
  <2>1. PICK f : Upto(f, parts, MaxBlocks)
    BY <1>1, UptoExists
  <2> QED BY <1>2, <2>1 DEF Upto
<1>4. upto = body(upto)
  BY <1>3
<1>5. Sorted(listed) = upto[MaxBlocks]
  BY DEF Sorted
<1> HIDE DEF upto
<1> QED BY <1>2, <1>4, <1>5 DEF Upto

(* What the first n ids of Sorted are. *)
SortedBelow(s, listed, n) ==
  /\ s \in Seq(BlockId)
  /\ \A j \in 1..Len(s) : s[j] < n
  /\ \A j, k \in 1..Len(s) : j <= k => s[j] <= s[k]
  /\ \A i \in 0..(n - 1) : listed[i] > 0 => \E j \in 1..Len(s) : s[j] = i
  /\ (\A i \in BlockId : listed[i] <= 1) => \A j, k \in 1..Len(s) : j < k => s[j] < s[k]

(* The next id comes after those below it, as often as it is listed. *)
LEMMA SortedOneMore ==
  ASSUME NEW listed \in [BlockId -> Nat], NEW n \in 1..MaxBlocks,
         NEW s, SortedBelow(s, listed, n - 1)
  PROVE  SortedBelow(s \o [c \in 1..listed[n - 1] |-> n - 1], listed, n)
<1> DEFINE part == [c \in 1..listed[n - 1] |-> n - 1]
           new == s \o part
<1>1. /\ MaxBlocks \in Nat /\ n \in Nat /\ n - 1 \in BlockId
      /\ listed[n - 1] \in Nat
  BY BlockIndexAssumption DEF BlockId
<1>2. part \in Seq(BlockId) /\ Len(part) = listed[n - 1]
  BY <1>1
<1>3. \A c \in 1..listed[n - 1] : part[c] = n - 1
  OBVIOUS
<1>4. /\ s \in Seq(BlockId) /\ Len(s) \in Nat
      /\ \A j \in 1..Len(s) : s[j] \in BlockId /\ s[j] < n - 1
      /\ \A j, k \in 1..Len(s) : j <= k => s[j] <= s[k]
      /\ \A i \in 0..(n - 2) : listed[i] > 0 => \E j \in 1..Len(s) : s[j] = i
      /\ (\A i \in BlockId : listed[i] <= 1) => \A j, k \in 1..Len(s) : j < k => s[j] < s[k]
  BY <1>1 DEF SortedBelow
<1> HIDE DEF part
<1>5. /\ new \in Seq(BlockId) /\ Len(new) = Len(s) + listed[n - 1]
      /\ \A j \in 1..(Len(s) + listed[n - 1]) :
           new[j] = IF j <= Len(s) THEN s[j] ELSE part[j - Len(s)]
  <2>1. s \in Seq(BlockId) /\ part \in Seq(BlockId) /\ Len(part) = listed[n - 1]
    BY <1>2, <1>4
  <2>2. /\ s \o part \in Seq(BlockId) /\ Len(s \o part) = Len(s) + Len(part)
        /\ \A j \in 1..(Len(s) + Len(part)) :
             (s \o part)[j] = IF j <= Len(s) THEN s[j] ELSE part[j - Len(s)]
    BY <2>1, ConcatProperties, Zenon
  <2> QED BY <2>1, <2>2
<1> HIDE DEF new
<1>6. \A j \in 1..Len(new) : new[j] = IF j <= Len(s) THEN s[j] ELSE n - 1
  <2> TAKE j \in 1..Len(new)
  <2>1. j > Len(s) => j - Len(s) \in 1..listed[n - 1]
    BY <1>1, <1>4, <1>5
  <2> QED BY <1>3, <1>4, <1>5, <2>1
<1>8. \A j \in 1..Len(new) : new[j] \in Nat /\ new[j] <= n - 1
  <2> TAKE j \in 1..Len(new)
  <2>1. j <= Len(s) => j \in 1..Len(s)
    BY <1>4, <1>5
  <2>2. j <= Len(s) => s[j] \in Nat /\ s[j] < n - 1
    BY <1>4, <2>1 DEF BlockId
  <2> QED BY <1>1, <1>6, <2>2
<1>9. ASSUME NEW j \in 1..Len(new), NEW k \in 1..Len(new), j <= k
      PROVE  new[j] <= new[k]
  <2>1. CASE k <= Len(s)
    <3>1. j \in 1..Len(s) /\ k \in 1..Len(s)
      BY <1>4, <1>5, <1>9, <2>1
    <3> QED BY <1>4, <1>6, <1>9, <2>1, <3>1
  <2>2. CASE ~(k <= Len(s))
    <3>1. new[k] = n - 1
      BY <1>6, <2>2
    <3> QED BY <1>8, <3>1
  <2> QED BY <2>1, <2>2
<1>10. ASSUME NEW i \in 0..(n - 1), listed[i] > 0
       PROVE  \E j \in 1..Len(new) : new[j] = i
  <2>1. CASE i = n - 1
    <3>1. Len(s) + 1 \in 1..Len(new) /\ ~(Len(s) + 1 <= Len(s))
      BY <1>1, <1>4, <1>5, <1>10, <2>1
    <3> QED BY <1>6, <2>1, <3>1
  <2>2. CASE i # n - 1
    <3>1. PICK j \in 1..Len(s) : s[j] = i
      BY <1>1, <1>4, <1>10, <2>2
    <3>2. j \in 1..Len(new) /\ j <= Len(s)
      BY <1>1, <1>4, <1>5
    <3> QED BY <1>6, <3>1, <3>2
  <2> QED BY <2>1, <2>2
<1>11. \A j \in 1..Len(new) : new[j] < n
  BY <1>1, <1>8
<1>12. ASSUME \A i \in BlockId : listed[i] <= 1,
              NEW j \in 1..Len(new), NEW k \in 1..Len(new), j < k
       PROVE  new[j] < new[k]
  <2>1. listed[n - 1] <= 1
    BY <1>1, <1>12
  <2>2. j \in 1..Len(s)
    BY <1>1, <1>4, <1>5, <1>12, <2>1
  <2>3. new[j] = s[j] /\ s[j] < n - 1
    BY <1>4, <1>6, <2>2
  <2>4. CASE k <= Len(s)
    <3>1. k \in 1..Len(s) /\ new[k] = s[k]
      BY <1>4, <1>6, <2>4
    <3> QED BY <1>4, <1>12, <2>2, <2>3, <3>1
  <2>5. CASE ~(k <= Len(s))
    BY <1>6, <2>3, <2>5
  <2> QED BY <2>4, <2>5
<1> QED BY <1>5, <1>9, <1>10, <1>11, <1>12 DEF SortedBelow, new, part

(* Sorted lists every id that is listed, in ascending order. *)
LEMMA SortedHasAll ==
  ASSUME NEW listed \in [BlockId -> Nat]
  PROVE  SortedBelow(Sorted(listed), listed, MaxBlocks)
<1> DEFINE parts == [n \in 1..MaxBlocks |-> [c \in 1..listed[n - 1] |-> n - 1]]
<1>1. MaxBlocks \in Nat
  BY BlockIndexAssumption
<1>2. \A n \in 1..MaxBlocks : parts[n] = [c \in 1..listed[n - 1] |-> n - 1]
  OBVIOUS
<1>3. PICK f : Upto(f, parts, MaxBlocks) /\ Sorted(listed) = f[MaxBlocks]
  BY SortedUpto
<1> DEFINE bad == {n \in 0..MaxBlocks : ~SortedBelow(f[n], listed, n)}
<1>4. ASSUME bad # {} PROVE FALSE
  <2>1. bad \in SUBSET Nat
    BY <1>1
  <2> HIDE DEF bad, parts
  <2>2. PICK n \in bad : \A i \in bad : n <= i
    BY <1>4, <2>1, LeastNat
  <2>3. n \in 0..MaxBlocks /\ ~SortedBelow(f[n], listed, n)
    BY DEF bad
  <2>4. f[n] = IF n = 0 THEN <<>> ELSE f[n - 1] \o parts[n]
    BY <1>3, <2>3 DEF Upto
  <2>5. CASE n = 0
    <3>1. f[n] = <<>>
      BY <2>4, <2>5
    <3>2. Len(<<>>) = 0 /\ <<>> \in Seq(BlockId)
      OBVIOUS
    <3>3. SortedBelow(<<>>, listed, 0)
      BY <3>2 DEF SortedBelow
    <3> QED BY <2>3, <2>5, <3>1, <3>3
  <2>6. CASE n # 0
    <3>1. n \in 1..MaxBlocks /\ n - 1 \in 0..MaxBlocks /\ ~(n <= n - 1)
      BY <1>1, <2>3, <2>6
    <3>2. SortedBelow(f[n - 1], listed, n - 1)
      BY <2>2, <3>1 DEF bad
    <3>3. SortedBelow(f[n - 1] \o parts[n], listed, n)
      BY <1>2, <3>1, <3>2, SortedOneMore
    <3> QED BY <2>3, <2>4, <2>6, <3>3
  <2> QED BY <2>5, <2>6
<1>5. MaxBlocks \in 0..MaxBlocks
  BY <1>1
<1> HIDE DEF parts
<1> QED BY <1>3, <1>4, <1>5

-----------------------------------------------------------------------------
(* What a query asks for.                                                  *)

(* The ids all filters list, as often as the first does. *)
LEMMA CombinedType ==
  ASSUME LogType, NEW q \in Query, q.filters # <<>>
  PROVE  Combined(q.filters) \in [BlockId -> Nat]
<1>1. /\ q.filters \in Seq(Key)
      /\ index \in [Key -> [BlockId -> Nat]]
  BY BlockIndexAssumption DEF LogType
<1>2. q.filters[1] \in Key
  BY <1>1
<1>3. index[q.filters[1]] \in [BlockId -> Nat] /\ 0 \in Nat
  BY <1>1, <1>2
<1> QED BY <1>3 DEF Combined

(* What a page that begins after the first start ids of a list is. *)
PartOf(page, S, ids, start) ==
  /\ page \in Seq(S)
  /\ \A j \in DOMAIN page :
       j \in Nat /\ start + j \in 1..Len(ids) /\ page[j] = ids[start + j]

(* A page of ids is such a part of the list. *)
LEMMA PageOfPart ==
  ASSUME NEW S, NEW ids \in Seq(S), NEW start \in Nat, NEW length \in Nat
  PROVE  PartOf(PageOf(ids, start, length), S, ids, start)
<1> DEFINE end == IF start + length < Len(ids) THEN start + length ELSE Len(ids)
           page == SubSeq(ids, start + 1, end)
<1>1. Len(ids) \in Nat /\ start + 1 \in Int /\ end \in Int /\ end <= Len(ids)
  OBVIOUS
<1>2. PageOf(ids, start, length) = page
  BY DEF PageOf
<1> HIDE DEF end
<1>3. \A i \in (start + 1)..end : ids[i] \in S
  <2> TAKE i \in (start + 1)..end
  <2>1. i \in 1..Len(ids)
    BY <1>1
  <2> QED BY <2>1, ElementOfSeq
<1>4. /\ page \in Seq(S)
      /\ Len(page) = IF start + 1 <= end THEN end - (start + 1) + 1 ELSE 0
      /\ \A j \in 1..(end - (start + 1) + 1) : page[j] = ids[start + 1 + j - 1]
  BY <1>1, <1>3, SubSeqProperties
<1> HIDE DEF page
<1>5. ASSUME NEW j \in DOMAIN page
      PROVE  /\ j \in Nat /\ start + j \in 1..Len(ids)
             /\ page[j] = ids[start + j]
  <2>1. j \in 1..Len(page)
    BY <1>4, <1>5, LenProperties
  <2> DEFINE len == end - (start + 1) + 1
  <2>2. j \in 1..(end - (start + 1) + 1) /\ start + 1 + j - 1 = start + j
    <3>1. len \in Int /\ (start + 1 <= end <=> len >= 1)
      BY <1>1
    <3>2. Len(page) = IF start + 1 <= end THEN len ELSE 0
      BY <1>4
    <3> HIDE DEF len
    <3>3. j \in Int /\ j >= 1 /\ j <= len
      BY <2>1, <3>1, <3>2
    <3>4. start + 1 + j - 1 = start + j
      BY <3>3
    <3> QED BY <3>1, <3>3, <3>4 DEF len
  <2>3. j \in Nat /\ j >= 1 /\ start + j <= end
    BY <1>1, <2>2
  <2>4. start + j \in 1..Len(ids)
    BY <1>1, <2>3
  <2> QED BY <1>4, <2>2, <2>3, <2>4
<1> QED BY <1>2, <1>4, <1>5 DEF PartOf

(* The first page is the whole list, or a full page of it. *)
LEMMA PageOfFirst ==
  ASSUME NEW S, NEW ids \in Seq(S), NEW start, NEW length \in Nat, start = 0
  PROVE  \/ PageOf(ids, start, length) = ids
         \/ /\ PageOf(ids, start, length) \in Seq(S)
            /\ Len(PageOf(ids, start, length)) = length
            /\ length <= Len(ids)
            /\ \A j \in 1..length : PageOf(ids, start, length)[j] = ids[j]
<1>1. start + 1 = 1 /\ start + length = length /\ Len(ids) \in Nat
  OBVIOUS
<1>2. CASE length < Len(ids)
  <2> DEFINE page == SubSeq(ids, 1, length)
  <2>1. PageOf(ids, start, length) = page
    BY <1>1, <1>2 DEF PageOf
  <2>2. \A j \in 1..length : ids[j] \in S
    <3> TAKE j \in 1..length
    <3>1. j \in 1..Len(ids)
      BY <1>1, <1>2
    <3> QED BY <3>1, ElementOfSeq
  <2>3. /\ page \in Seq(S)
        /\ Len(page) = IF 1 <= length THEN length - 1 + 1 ELSE 0
        /\ \A j \in 1..(length - 1 + 1) : page[j] = ids[1 + j - 1]
    BY <1>1, <1>2, <2>2, SubSeqProperties
  <2> HIDE DEF page
  <2>4. Len(page) = length /\ \A j \in 1..length : page[j] = ids[j]
    BY <2>3
  <2> QED BY <1>1, <1>2, <2>1, <2>3, <2>4
<1>3. CASE ~(length < Len(ids))
  <2>1. PageOf(ids, start, length) = SubSeq(ids, 1, Len(ids))
    BY <1>1, <1>3 DEF PageOf
  <2> QED BY <2>1, SubSeqFull
<1> QED BY <1>2, <1>3

(* A query asks for ids. *)
LEMMA RequestedType ==
  ASSUME LogType, NEW q \in Query
  PROVE  Requested(q) \in Seq(Nat)
<1>1. q.start \in Nat /\ q.length \in Nat /\ last_block_id \in Nat
  BY BlockIndexAssumption DEF LogType
<1>2. CASE q.filters = <<>>
  <2>1. Start(q) \in Nat
    BY <1>1 DEF Start
  <2>2. Requested(q) = [n \in 1..q.length |-> Start(q) + n - 1]
    BY <1>2 DEF Requested
  <2>3. \A n \in 1..q.length : Start(q) + n - 1 \in Nat
    BY <1>1, <2>1
  <2> QED BY <1>1, <2>2, <2>3
<1>3. CASE q.filters # <<>>
  <2> DEFINE ids == Sorted(Combined(q.filters))
  <2>1. ids \in Seq(BlockId)
    BY <1>3, CombinedType, SortedHasAll DEF SortedBelow
  <2>2. ids \in Seq(Nat)
    <3>1. BlockId \subseteq Nat
      BY DEF BlockId
    <3> HIDE DEF ids
    <3> QED BY <2>1, <3>1, SeqMonotonic
  <2>3. Requested(q) = PageOf(ids, q.start, q.length)
    BY <1>3 DEF Requested
  <2> HIDE DEF ids
  <2>4. PartOf(PageOf(ids, q.start, q.length), Nat, ids, q.start)
    BY <1>1, <2>2, PageOfPart
  <2> QED BY <2>3, <2>4 DEF PartOf
<1> QED BY <1>2, <1>3

(* A query for the first of the blocks that match its filters.             *)
AsksForFirst(q) == q.filters # <<>> /\ q.start = 0

(* The page is full, and id i comes after all of it.                       *)
LeftOut(page, length, i) == Len(page) = length /\ \A n \in DOMAIN page : page[n] <= i

(* Such a query asks for every id that all its filters list, up to the     *)
(* last of a full page.                                                    *)
LEMMA RequestedFirst ==
  ASSUME LogType, NEW q \in Query, AsksForFirst(q), NEW i \in BlockId,
         \A k \in DOMAIN q.filters : index[q.filters[k]][i] > 0
  PROVE  \/ \E n \in DOMAIN Requested(q) : Requested(q)[n] = i
         \/ LeftOut(Requested(q), q.length, i)
<1> DEFINE listed == Combined(q.filters)
           ids == Sorted(listed)
           page == PageOf(ids, q.start, q.length)
<1>1. /\ listed \in [BlockId -> Nat]
      /\ q.start = 0 /\ q.length \in Nat
      /\ MaxBlocks \in Nat
  BY CombinedType, BlockIndexAssumption DEF AsksForFirst
<1>2. listed[i] > 0
  <2>1. 1 \in DOMAIN q.filters
    <3>1. q.filters \in Seq(Key) /\ q.filters # <<>>
      BY BlockIndexAssumption DEF AsksForFirst
    <3> QED BY <3>1, EmptySeq, LenProperties
  <2> QED BY <2>1 DEF Combined
<1>3. Requested(q) = page
  BY DEF Requested, AsksForFirst
<1> HIDE DEF listed
<1>4. SortedBelow(ids, listed, MaxBlocks)
  BY <1>1, SortedHasAll
<1> HIDE DEF ids
<1>5. /\ ids \in Seq(BlockId) /\ Len(ids) \in Nat
      /\ \A j, k \in 1..Len(ids) : j <= k => ids[j] <= ids[k]
  BY <1>4 DEF SortedBelow
<1>6. PICK m \in 1..Len(ids) : ids[m] = i
  BY <1>2, <1>4 DEF SortedBelow, BlockId
<1>7. \/ page = ids
      \/ /\ page \in Seq(BlockId) /\ Len(page) = q.length /\ q.length <= Len(ids)
         /\ \A j \in 1..q.length : page[j] = ids[j]
  BY <1>1, <1>5, PageOfFirst
<1> HIDE DEF page
<1>8. CASE page = ids
  BY <1>3, <1>5, <1>6, <1>8
<1>9. ASSUME page \in Seq(BlockId), Len(page) = q.length, q.length <= Len(ids),
             \A j \in 1..q.length : page[j] = ids[j]
      PROVE  (\E n \in DOMAIN page : page[n] = i) \/ LeftOut(page, q.length, i)
  <2>1. DOMAIN page = 1..q.length
    BY <1>9
  <2>2. CASE m <= q.length
    <3>1. m \in 1..q.length
      BY <1>1, <1>6, <2>2
    <3> QED BY <1>6, <1>9, <2>1, <3>1
  <2>3. CASE ~(m <= q.length)
    <3>1. ASSUME NEW n \in 1..q.length PROVE page[n] <= i
      <4>1. n \in 1..Len(ids) /\ n <= m
        BY <1>1, <1>5, <1>6, <1>9, <2>3
      <4>2. ids[n] <= ids[m]
        BY <1>5, <4>1
      <4> QED BY <1>6, <1>9, <4>2
    <3> QED BY <1>9, <2>1, <3>1 DEF LeftOut
  <2> QED BY <2>2, <2>3
<1> QED BY <1>3, <1>7, <1>8, <1>9

(* Strictly ascending, as answers without duplicates are. *)
Ascends(page) == \A m, n \in DOMAIN page : m < n => page[m] < page[n]

(* What a query asks for strictly ascends as long as no list holds an id   *)
(* twice.                                                                  *)
LEMMA RequestedAscends ==
  ASSUME LogType, NEW q \in Query, \A k \in Key, i \in BlockId : index[k][i] <= 1
  PROVE  Ascends(Requested(q))
<1>1. q.start \in Nat /\ q.length \in Nat /\ last_block_id \in Nat
  BY BlockIndexAssumption DEF LogType
<1>2. CASE q.filters = <<>>
  <2>1. Start(q) \in Nat
    BY <1>1 DEF Start
  <2>2. Requested(q) = [n \in 1..q.length |-> Start(q) + n - 1]
    BY <1>2 DEF Requested
  <2> QED BY <1>1, <2>1, <2>2 DEF Ascends
<1>3. CASE q.filters # <<>>
  <2> DEFINE listed == Combined(q.filters)
             ids == Sorted(listed)
             page == PageOf(ids, q.start, q.length)
  <2>1. Requested(q) = page
    BY <1>3 DEF Requested
  <2>2. listed \in [BlockId -> Nat]
    BY <1>3, CombinedType
  <2>3. \A i \in BlockId : listed[i] <= 1
    <3>1. q.filters[1] \in Key
      <4>1. q.filters \in Seq(Key)
        BY BlockIndexAssumption
      <4> QED BY <1>3, <4>1
    <3> QED BY <3>1 DEF Combined
  <2> HIDE DEF listed
  <2>4. SortedBelow(ids, listed, MaxBlocks)
    BY <2>2, SortedHasAll
  <2> HIDE DEF ids
  <2>5. ids \in Seq(BlockId) /\ \A j, k \in 1..Len(ids) : j < k => ids[j] < ids[k]
    BY <2>3, <2>4 DEF SortedBelow
  <2>6. \A j \in DOMAIN page :
          j \in Nat /\ q.start + j \in 1..Len(ids) /\ page[j] = ids[q.start + j]
    <3>1. PartOf(page, BlockId, ids, q.start)
      BY <1>1, <2>5, PageOfPart
    <3> HIDE DEF page
    <3> QED BY <3>1 DEF PartOf
  <2> HIDE DEF page
  <2>7. ASSUME NEW m \in DOMAIN page, NEW n \in DOMAIN page, m < n
        PROVE  page[m] < page[n]
    <3>1. q.start + m < q.start + n
      BY <1>1, <2>6, <2>7
    <3> QED BY <2>5, <2>6, <3>1
  <2> QED BY <2>1, <2>7 DEF Ascends
<1> QED BY <1>2, <1>3

-----------------------------------------------------------------------------
(* The invariant.                                                          *)

(* What IndexInv leaves open of the types. *)
TypeInv ==
  /\ archived \in 0..Len(ledger)
  /\ tasks \in [Job \cup Caller -> Task \cup {None}]
  /\ failures \in 0..MaxFailures

(* All filters of a query list the block. *)
Matches(block, q) == \A k \in DOMAIN q.filters : Listings(block, q.filters[k]) > 0

(* A query for the first matching blocks has, or still asks for, every one *)
(* that was indexed when it came in and is not behind a full page; the     *)
(* answer it waits for is of a log that has these, and it has ended only   *)
(* if it asks for no more.                                                 *)
CallerOK(task, log) ==
  /\ task.query \in Query
  /\ task.last_block_id <= Len(log)
  /\ task.step \in {"answered", "archive"} => task.last_block_id <= task.len
  /\ task.step = "done" => task.want = {}
  /\ AsksForFirst(task.query) =>
       \A i \in 0..(task.last_block_id - 1) :
         Matches(log[i + 1], task.query) =>
           i \in task.got \cup task.want \/ LeftOut(task.page, task.query.length, i)

AnswersInv ==
  /\ IndexInv
  /\ TypeInv
  /\ \A c \in Caller : tasks[c] # None => CallerOK(tasks[c], ledger)

(* The log, of an invariant that says more. *)
LEMMA LogFacts ==
  ASSUME IndexInv
  PROVE  ledger \in Seq(Block) /\ Len(ledger) \in Nat /\ Len(ledger) <= MaxBlocks
<1>1. ledger \in Seq(Block) /\ Len(ledger) <= MaxBlocks
  BY DEF IndexInv, LogType
<1> QED BY <1>1

(* It holds at the start. *)
LEMMA AnswersInvInit == Init => AnswersInv
<1> SUFFICES ASSUME Init PROVE AnswersInv
  OBVIOUS
<1>1. TypeInv
  <2>1. Len(ledger) = 0 /\ MaxFailures \in Nat
    BY BlockIndexAssumption DEF Init
  <2> QED BY <2>1 DEF Init, TypeInv
<1> QED BY <1>1, IndexInvInit DEF Init, AnswersInv

(* A call goes on as long as the log does not lose a block. *)
LEMMA CallKept ==
  ASSUME IndexInv, NEW task, CallerOK(task, ledger), task.last_block_id \in Nat,
         NEW log \in Seq(Block), Len(ledger) <= Len(log),
         \A i \in 0..(Len(ledger) - 1) : log[i + 1] = ledger[i + 1]
  PROVE  CallerOK(task, log)
<1>1. Len(ledger) \in Nat /\ Len(log) \in Nat
  BY DEF IndexInv, LogType
<1>2. task.last_block_id <= Len(ledger) /\ task.last_block_id <= Len(log)
  BY <1>1 DEF CallerOK
<1>3. \A i \in 0..(task.last_block_id - 1) : log[i + 1] = ledger[i + 1]
  BY <1>1, <1>2
<1> QED BY <1>2, <1>3 DEF CallerOK

(* A step of the ledger touches no task. *)
LEMMA LedgerKeepsAnswers ==
  ASSUME AnswersInv, (\E block \in Block : AppendBlock(block)) \/ ArchiveBlock
  PROVE  TypeInv' /\ \A c \in Caller : tasks'[c] # None => CallerOK(tasks'[c], ledger')
<1>0. UNCHANGED <<tasks, failures>>
  BY DEF AppendBlock, ArchiveBlock
<1>1. /\ ledger \in Seq(Block) /\ Len(ledger) \in Nat /\ archived \in 0..Len(ledger)
      /\ IndexInv /\ TypeInv /\ UNCHANGED <<tasks, failures>>
  BY <1>0, LogFacts DEF AnswersInv, TypeInv
<1>2. /\ ledger' \in Seq(Block) /\ Len(ledger) <= Len(ledger')
      /\ archived' \in 0..Len(ledger')
      /\ \A i \in 0..(Len(ledger) - 1) : ledger'[i + 1] = ledger[i + 1]
  <2>1. CASE \E block \in Block : AppendBlock(block)
    BY <1>1, <2>1 DEF AppendBlock
  <2>2. CASE ArchiveBlock
    BY <1>1, <2>2 DEF ArchiveBlock
  <2> QED BY <2>1, <2>2
<1>3. TypeInv'
  BY <1>1, <1>2 DEF TypeInv
<1>4. ASSUME NEW c \in Caller, tasks[c] # None
      PROVE  CallerOK(tasks[c], ledger')
  <2>1. CallerOK(tasks[c], ledger) /\ tasks[c].last_block_id \in Nat
    BY <1>1, <1>4 DEF AnswersInv, TypeInv, Task
  <2> QED BY <1>1, <1>2, <2>1, CallKept
<1> QED BY <1>1, <1>3, <1>4

(* A step of one task touches no other. *)
LEMMA OneTask ==
  ASSUME AnswersInv, NEW t \in Job \cup Caller, NEW task \in Task \cup {None},
         tasks' = [tasks EXCEPT ![t] = task], UNCHANGED <<ledger, archived>>,
         failures' \in 0..MaxFailures,
         t \in Caller /\ task # None => CallerOK(task, ledger)
  PROVE  TypeInv' /\ \A c \in Caller : tasks'[c] # None => CallerOK(tasks'[c], ledger')
<1>1. TypeInv'
  BY DEF AnswersInv, TypeInv
<1>2. tasks'[t] = task /\ \A u \in Job \cup Caller : u # t => tasks'[u] = tasks[u]
  BY DEF AnswersInv, TypeInv
<1> QED BY <1>1, <1>2 DEF AnswersInv

(* The task that get_all_blocks begins. *)
LEMMA FetchType ==
  ASSUME LogType, NEW query \in Query \cup {None}, NEW page \in Seq(Nat), NEW ids \in SUBSET Nat
  PROVE  Fetch(last_block_id, query, page, ids) \in Task
<1>1. cache \subseteq BlockId /\ last_block_id \in Nat
  BY BlockIndexAssumption DEF LogType, BlockId
<1> QED BY <1>1 DEF Fetch, Task

(* A job begins, or ends at once. *)
LEMMA UpdateIndexKeepsAnswers ==
  ASSUME AnswersInv, NEW job \in Job, UpdateIndex(job)
  PROVE  TypeInv' /\ \A c \in Caller : tasks'[c] # None => CallerOK(tasks'[c], ledger')
<1> DEFINE ids == last_block_id .. (last_block_id + BlockBatchSize - 1)
<1>1. /\ LogType /\ ids \in SUBSET Nat /\ failures \in 0..MaxFailures /\ job \notin Caller
      /\ UNCHANGED <<ledger, archived, failures>>
  BY BlockIndexAssumption DEF AnswersInv, IndexInv, LogType, TypeInv, UpdateIndex
<1>2. CASE UNCHANGED tasks
  BY <1>1, <1>2 DEF AnswersInv, TypeInv
<1>3. CASE tasks' = [tasks EXCEPT ![job] = Fetch(last_block_id, None, <<>>, ids)]
  <2>1. <<>> \in Seq(Nat)
    OBVIOUS
  <2> HIDE DEF ids
  <2>2. Fetch(last_block_id, None, <<>>, ids) \in Task
    BY <1>1, <2>1, FetchType
  <2> QED BY <1>1, <1>3, <2>2, OneTask
<1> QED BY <1>2, <1>3 DEF UpdateIndex

(* A query comes in: what is indexed by then it asks for. *)
LEMMA GetBlocksKeepsAnswers ==
  ASSUME AnswersInv, NEW caller \in Caller, NEW q \in Query, GetBlocks(caller, q)
  PROVE  TypeInv' /\ \A c \in Caller : tasks'[c] # None => CallerOK(tasks'[c], ledger')
<1> DEFINE page == Requested(q)
           ids == {page[n] : n \in DOMAIN page}
           task == Fetch(last_block_id, q, page, ids)
<1>1. /\ LogType /\ Listed(last_block_id) /\ NeverAhead /\ failures \in 0..MaxFailures
      /\ UNCHANGED <<ledger, archived, failures>>
      /\ tasks' = [tasks EXCEPT ![caller] = task]
  BY DEF AnswersInv, IndexInv, TypeInv, GetBlocks
<1>2. page \in Seq(Nat)
  BY <1>1, RequestedType
<1> HIDE DEF page
<1>3. ids \in SUBSET Nat
  BY <1>2
<1>4. task \in Task
  <2> HIDE DEF ids
  <2> QED BY <1>1, <1>2, <1>3, FetchType
<1>5. /\ task.query = q /\ task.last_block_id = last_block_id
      /\ task.want = ids \ cache /\ task.got = ids \cap cache /\ task.page = page
      /\ task.step = IF ids \subseteq cache THEN "done" ELSE "ledger"
  BY DEF Fetch
<1>6. ASSUME AsksForFirst(q), NEW i \in 0..(last_block_id - 1), Matches(ledger[i + 1], q)
      PROVE  i \in ids \/ LeftOut(page, q.length, i)
  <2>1. i \in BlockId
    BY <1>1, BlockIndexAssumption DEF LogType, NeverAhead, BlockId
  <2>2. ASSUME NEW k \in DOMAIN q.filters PROVE index[q.filters[k]][i] > 0
    <3>1. q.filters[k] \in Key
      BY BlockIndexAssumption
    <3> QED BY <1>1, <1>6, <3>1 DEF Listed, ListedAt, Matches
  <2> QED BY <1>1, <1>6, <2>1, <2>2, RequestedFirst DEF page
<1> HIDE DEF task, ids
<1>7. CallerOK(task, ledger)
  BY <1>1, <1>5, <1>6 DEF CallerOK, NeverAhead
<1> QED BY <1>1, <1>4, <1>7, OneTask

(* The ledger answers: its log has all that was indexed. *)
LEMMA LedgerAnswersKeepsAnswers ==
  ASSUME AnswersInv, NEW t \in Job \cup Caller, LedgerAnswers(t)
  PROVE  TypeInv' /\ \A c \in Caller : tasks'[c] # None => CallerOK(tasks'[c], ledger')
<1> DEFINE task == [tasks[t] EXCEPT !.step = "answered", !.len = Len(ledger),
                                    !.archived = archived]
<1>1. /\ tasks[t] \in Task /\ Len(ledger) \in Nat /\ archived \in Nat
      /\ failures \in 0..MaxFailures
      /\ UNCHANGED <<ledger, archived, failures>>
      /\ tasks' = [tasks EXCEPT ![t] = task]
      /\ t \in Caller => CallerOK(tasks[t], ledger)
  <2>1. /\ UNCHANGED <<ledger, archived, failures>>
        /\ tasks' = [tasks EXCEPT ![t] = task] /\ tasks[t] # None
    BY DEF LedgerAnswers
  <2> HIDE DEF task
  <2>2. Len(ledger) \in Nat /\ TypeInv
    BY DEF AnswersInv, IndexInv, LogType
  <2>3. t \in Caller => CallerOK(tasks[t], ledger)
    BY <2>1 DEF AnswersInv
  <2> QED BY <2>1, <2>2, <2>3 DEF TypeInv
<1>2. /\ task \in Task /\ task.query = tasks[t].query /\ task.step = "answered"
      /\ task.last_block_id = tasks[t].last_block_id /\ task.len = Len(ledger)
      /\ task.want = tasks[t].want /\ task.got = tasks[t].got /\ task.page = tasks[t].page
  BY <1>1 DEF Task
<1> HIDE DEF task
<1>3. t \in Caller => CallerOK(task, ledger)
  BY <1>1, <1>2 DEF CallerOK
<1> QED BY <1>1, <1>2, <1>3, OneTask

(* The answer refers to the archive. *)
LEMMA ToArchiveKeepsAnswers ==
  ASSUME AnswersInv, NEW t \in Job \cup Caller, LedgerReply(t), InArchive(tasks[t]) # {}
  PROVE  TypeInv' /\ \A c \in Caller : tasks'[c] # None => CallerOK(tasks'[c], ledger')
<1> DEFINE task == [tasks[t] EXCEPT !.step = "archive"]
<1>1. /\ tasks[t] \in Task /\ tasks[t].step = "answered" /\ failures \in 0..MaxFailures
      /\ UNCHANGED <<ledger, archived, failures>>
      /\ tasks' = [tasks EXCEPT ![t] = task]
      /\ t \in Caller => CallerOK(tasks[t], ledger)
  BY DEF AnswersInv, TypeInv, LedgerReply
<1>2. /\ task \in Task /\ task.query = tasks[t].query /\ task.step = "archive"
      /\ task.last_block_id = tasks[t].last_block_id /\ task.len = tasks[t].len
      /\ task.want = tasks[t].want /\ task.got = tasks[t].got /\ task.page = tasks[t].page
  BY <1>1 DEF Task
<1> HIDE DEF task
<1>3. t \in Caller => CallerOK(task, ledger)
  BY <1>1, <1>2 DEF CallerOK
<1> QED BY <1>1, <1>2, <1>3, OneTask

(* A chunk is absorbed: of what the query asked for with it, the log had   *)
(* everything that was indexed.                                            *)
LEMMA AbsorbKeepsAnswers ==
  ASSUME AnswersInv, NEW t \in Job \cup Caller, tasks[t] # None,
         tasks[t].step \in {"answered", "archive"}, Absorb(t, tasks[t]),
         UNCHANGED <<ledger, archived, failures>>
  PROVE  TypeInv' /\ \A c \in Caller : tasks'[c] # None => CallerOK(tasks'[c], ledger')
<1> DEFINE old == tasks[t]
           ids == Answered(old)
           want == old.want \ NextChunk(old.want)
           got == old.got \cup ids
           task == [old EXCEPT !.want = want, !.got = got,
                               !.step = IF want = {} THEN "done" ELSE "ledger",
                               !.len = 0, !.archived = 0]
<1>1. /\ old \in Task /\ old.len \in 0..Len(ledger) /\ Len(ledger) \in Nat
      /\ Len(ledger) <= MaxBlocks /\ failures' \in 0..MaxFailures
      /\ t \in Caller => CallerOK(old, ledger)
  <2>1. IndexInv /\ TypeInv /\ (t \in Caller => CallerOK(old, ledger))
    BY DEF AnswersInv
  <2>2. old \in Task /\ failures' \in 0..MaxFailures
    BY <2>1 DEF TypeInv
  <2>3. Len(ledger) \in Nat /\ Len(ledger) <= MaxBlocks /\ TaskOK(t)
    BY <2>1, LogFacts DEF IndexInv
  <2> QED BY <2>1, <2>2, <2>3 DEF TaskOK
<1>2. CASE tasks' = [tasks EXCEPT ![t] = None]
  BY <1>1, <1>2, OneTask
<1>3. CASE tasks' = [tasks EXCEPT ![t] = task]
  <2>1. /\ ids = NextChunk(old.want) \cap 0..(old.len - 1)
        /\ NextChunk(old.want) \subseteq old.want
    BY DEF Answered, NextChunk
  <2>2. ids \subseteq BlockId
    BY <1>1, <2>1, BlockIndexAssumption DEF BlockId
  <2> HIDE DEF ids, want, got
  <2>3. want \in SUBSET Nat /\ got \in SUBSET BlockId
    BY <1>1, <2>2 DEF Task, want, got
  <2>4. /\ task \in Task /\ task.query = old.query
        /\ task.last_block_id = old.last_block_id
        /\ task.want = want /\ task.got = got /\ task.page = old.page
        /\ task.step = IF want = {} THEN "done" ELSE "ledger"
    BY <1>1, <2>3 DEF Task
  <2> HIDE DEF task
  <2>5. ASSUME t \in Caller
        PROVE  CallerOK(task, ledger)
    <3>1. CallerOK(old, ledger) /\ old.last_block_id <= old.len /\ old.last_block_id \in Nat
      BY <1>1, <2>5 DEF CallerOK, Task
    <3>2. ASSUME NEW i \in 0..(old.last_block_id - 1), i \in old.got \cup old.want
          PROVE  i \in got \cup want
      <4>1. i \in 0..(old.len - 1)
        BY <1>1, <3>1
      <4> QED BY <2>1, <3>2, <4>1 DEF got, want
    <3>3. task.step \notin {"answered", "archive"} /\ (task.step = "done" => task.want = {})
      BY <2>4
    <3> QED BY <2>4, <3>1, <3>2, <3>3 DEF CallerOK
  <2> HIDE DEF old
  <2> QED BY <1>1, <1>3, <2>4, <2>5, OneTask
<1> QED BY <1>2, <1>3 DEF Absorb

(* A task that fails or has been answered leaves. *)
LEMMA LeavingKeepsAnswers ==
  ASSUME AnswersInv, NEW t \in Job \cup Caller, CallFails(t) \/ (t \in Caller /\ Return(t))
  PROVE  TypeInv' /\ \A c \in Caller : tasks'[c] # None => CallerOK(tasks'[c], ledger')
<1>1. failures' \in 0..MaxFailures
  BY BlockIndexAssumption DEF AnswersInv, TypeInv, CallFails, Return
<1> QED BY <1>1, OneTask DEF CallFails, Return

(* Each step of BlockIndex keeps the invariant. *)
LEMMA AnswersInvNext ==
  ASSUME AnswersInv, [Next]_vars
  PROVE  AnswersInv'
<1>1. IndexInv'
  BY IndexInvNext DEF AnswersInv
<1> SUFFICES TypeInv' /\ \A c \in Caller : tasks'[c] # None => CallerOK(tasks'[c], ledger')
  BY <1>1 DEF AnswersInv
<1>2. CASE (\E block \in Block : AppendBlock(block)) \/ ArchiveBlock
  BY <1>2, LedgerKeepsAnswers
<1>3. CASE \E job \in Job : UpdateIndex(job)
  BY <1>3, UpdateIndexKeepsAnswers
<1>4. CASE \E caller \in Caller, q \in Query : GetBlocks(caller, q)
  BY <1>4, GetBlocksKeepsAnswers
<1>5. ASSUME NEW t \in Job \cup Caller, Progress(t)
      PROVE  TypeInv' /\ \A c \in Caller : tasks'[c] # None => CallerOK(tasks'[c], ledger')
  <2>1. CASE LedgerAnswers(t)
    BY <2>1, LedgerAnswersKeepsAnswers
  <2>2. CASE LedgerReply(t) /\ InArchive(tasks[t]) = {}
    BY <2>2, AbsorbKeepsAnswers DEF LedgerReply
  <2>3. CASE LedgerReply(t) /\ InArchive(tasks[t]) # {}
    BY <2>3, ToArchiveKeepsAnswers
  <2>4. CASE ArchiveReply(t)
    BY <2>4, AbsorbKeepsAnswers DEF ArchiveReply
  <2> QED BY <1>5, <2>1, <2>2, <2>3, <2>4 DEF Progress
<1>6. CASE \E t \in Job \cup Caller : CallFails(t)
  BY <1>6, LeavingKeepsAnswers
<1>7. CASE \E caller \in Caller : Return(caller)
  BY <1>7, LeavingKeepsAnswers
<1>8. CASE UNCHANGED vars
  BY <1>8 DEF vars, AnswersInv, TypeInv
<1> QED BY <1>2, <1>3, <1>4, <1>5, <1>6, <1>7, <1>8 DEF Next

(* It holds always. *)
LEMMA AnswersInvariant == Spec => []AnswersInv
<1>1. AnswersInv /\ [Next]_vars => AnswersInv'
  BY AnswersInvNext
<1> QED BY AnswersInvInit, <1>1, PTL DEF Spec

-----------------------------------------------------------------------------
(* The results.                                                            *)

(* The variables of BlockIndex keep their types: the index has no id the   *)
(* log does not have, and pages have no id below 0.                        *)
THEOREM BlockIndexIsTyped == Spec => []IndexTypeOK
<1>1. AnswersInv => IndexTypeOK
  BY BlockIndexAssumption
     DEF AnswersInv, IndexInv, LogType, TypeInv, IndexTypeOK, BlockId
<1> QED BY <1>1, AnswersInvariant, PTL

(* AnswersComplete: however often overlapping jobs have listed a block,    *)
(* the first page of a query has every matching block that was indexed     *)
(* when it came in, unless the page is full and ends before the block.     *)
THEOREM AnswersMissNothing == Spec => []AnswersComplete
<1>1. AnswersInv => AnswersComplete
  BY DEF AnswersInv, CallerOK, AsksForFirst, LeftOut, Matches, AnswersComplete
<1> QED BY <1>1, AnswersInvariant, PTL

-----------------------------------------------------------------------------
(* Answers without duplicates.                                             *)

(* No block names an account in two fields it is listed under. *)
NoDoubles == \A block \in Block, k \in Key : Listings(block, k) <= 1

(* An exact index then has no id twice in a list. *)
LEMMA ListedAtMostOnce ==
  ASSUME NoDoubles, ExactInv
  PROVE  \A k \in Key, i \in BlockId : index[k][i] <= 1
<1> SUFFICES ASSUME NEW k \in Key, NEW i \in BlockId PROVE index[k][i] <= 1
  OBVIOUS
<1>1. index[k][i] = IF i < last_block_id THEN Listings(ledger[i + 1], k) ELSE 0
  BY DEF ExactInv, IndexExact
<1>2. CASE i < last_block_id
  <2>1. ledger[i + 1] \in Block
    BY <1>2, LogFacts DEF ExactInv, IndexInv, LogType, NeverAhead, BlockId
  <2>2. Listings(ledger[i + 1], k) \in Nat /\ Listings(ledger[i + 1], k) <= 1
    BY <2>1, ListingsNat, BlockIndexAssumption DEF NoDoubles
  <2> QED BY <1>1, <1>2, <2>2
<1> QED BY <1>1, <1>2

(* The page of a call is that it came with. *)
LEMMA PageKept ==
  ASSUME AnswersInv, [Next]_vars, NEW c \in Caller, tasks'[c] # None
  PROVE  \/ tasks[c] # None /\ tasks'[c].page = tasks[c].page
         \/ \E q \in Query : tasks'[c].page = Requested(q)
<1>1. tasks \in [Job \cup Caller -> Task \cup {None}] /\ Job \cap Caller = {}
  BY BlockIndexAssumption DEF AnswersInv, TypeInv
<1>2. CASE tasks'[c] = tasks[c]
  BY <1>2
<1>3. ASSUME NEW t \in Job \cup Caller, NEW task, tasks' = [tasks EXCEPT ![t] = task],
             tasks[t] # None, task = None \/ task.page = tasks[t].page
      PROVE  \/ tasks[c] # None /\ tasks'[c].page = tasks[c].page
             \/ \E q \in Query : tasks'[c].page = Requested(q)
  <2>1. tasks'[t] = task /\ (c # t => tasks'[c] = tasks[c])
    BY <1>1, <1>3
  <2> QED BY <1>3, <2>1
<1>4. CASE (\E block \in Block : AppendBlock(block)) \/ ArchiveBlock \/ UNCHANGED vars
  BY <1>2, <1>4 DEF AppendBlock, ArchiveBlock, vars
<1>5. ASSUME NEW job \in Job, UpdateIndex(job)
      PROVE  tasks'[c] = tasks[c]
  BY <1>1, <1>5 DEF UpdateIndex
<1>6. ASSUME NEW caller \in Caller, NEW q \in Query, GetBlocks(caller, q)
      PROVE  tasks'[c] = tasks[c] \/ tasks'[c].page = Requested(q)
  <2> DEFINE task == Fetch(last_block_id, q, Requested(q),
                           {Requested(q)[n] : n \in DOMAIN Requested(q)})
  <2>1. tasks' = [tasks EXCEPT ![caller] = task]
    BY <1>6 DEF GetBlocks
  <2>2. task.page = Requested(q)
    BY DEF Fetch
  <2> HIDE DEF task
  <2> QED BY <1>1, <2>1, <2>2
<1>7. ASSUME NEW t \in Job \cup Caller, tasks[t] # None, Absorb(t, tasks[t])
      PROVE  \/ tasks[c] # None /\ tasks'[c].page = tasks[c].page
             \/ \E q \in Query : tasks'[c].page = Requested(q)
  <2> DEFINE old == tasks[t]
             want == old.want \ NextChunk(old.want)
             got == old.got \cup Answered(old)
             task == [old EXCEPT !.want = want, !.got = got,
                                 !.step = IF want = {} THEN "done" ELSE "ledger",
                                 !.len = 0, !.archived = 0]
  <2>1. tasks' = [tasks EXCEPT ![t] = None] \/ tasks' = [tasks EXCEPT ![t] = task]
    BY <1>7 DEF Absorb
  <2>2. tasks[t] \in Task
    BY <1>1, <1>7
  <2> HIDE DEF want, got
  <2>3. task.page = tasks[t].page
    BY <2>2 DEF Task
  <2> HIDE DEF task
  <2> QED BY <1>3, <1>7, <2>1, <2>3
<1>8. ASSUME NEW t \in Job \cup Caller, Progress(t)
      PROVE  \/ tasks[c] # None /\ tasks'[c].page = tasks[c].page
             \/ \E q \in Query : tasks'[c].page = Requested(q)
  <2>1. CASE LedgerAnswers(t)
    <3> DEFINE task == [tasks[t] EXCEPT !.step = "answered", !.len = Len(ledger),
                                        !.archived = archived]
    <3>1. tasks' = [tasks EXCEPT ![t] = task] /\ tasks[t] # None
      BY <2>1 DEF LedgerAnswers
    <3>2. task.page = tasks[t].page
      BY <1>1, <3>1 DEF Task
    <3> HIDE DEF task
    <3> QED BY <1>3, <3>1, <3>2
  <2>2. CASE LedgerReply(t) /\ InArchive(tasks[t]) # {}
    <3> DEFINE task == [tasks[t] EXCEPT !.step = "archive"]
    <3>1. tasks' = [tasks EXCEPT ![t] = task] /\ tasks[t] # None
      BY <2>2 DEF LedgerReply
    <3>2. task.page = tasks[t].page
      BY <1>1, <3>1 DEF Task
    <3> HIDE DEF task
    <3> QED BY <1>3, <3>1, <3>2
  <2> QED BY <1>7, <1>8, <2>1, <2>2 DEF Progress, LedgerReply, ArchiveReply
<1>9. ASSUME NEW t \in Job \cup Caller, CallFails(t) \/ (t \in Caller /\ Return(t))
      PROVE  \/ tasks[c] # None /\ tasks'[c].page = tasks[c].page
             \/ \E q \in Query : tasks'[c].page = Requested(q)
  BY <1>3, <1>9 DEF CallFails, Return
<1> QED BY <1>2, <1>4, <1>5, <1>6, <1>8, <1>9 DEF Next

(* The pages of the calls in flight strictly ascend. *)
PagesAscend == \A c \in Caller : tasks[c] # None => Ascends(tasks[c].page)

(* Calls keep their pages, and new ones ask for what lists without        *)
(* duplicates give.                                                        *)
LEMMA PagesAscendStep ==
  ASSUME NoDoubles, AnswersInv, ExactInv, PagesAscend, [Next]_vars
  PROVE  PagesAscend'
<1> SUFFICES ASSUME NEW c \in Caller, tasks'[c] # None PROVE Ascends(tasks'[c].page)
  BY DEF PagesAscend, Ascends
<1>1. CASE tasks[c] # None /\ tasks'[c].page = tasks[c].page
  BY <1>1 DEF PagesAscend
<1>2. ASSUME NEW q \in Query, tasks'[c].page = Requested(q)
      PROVE  Ascends(tasks'[c].page)
  <2>1. LogType /\ \A k \in Key, i \in BlockId : index[k][i] <= 1
    BY ListedAtMostOnce DEF ExactInv, IndexInv
  <2> QED BY <1>2, <2>1, RequestedAscends
<1> QED BY <1>1, <1>2, PageKept

(* AnswersStrictlyAscend: nothing but overlapping jobs and blocks that     *)
(* name an account twice makes an answer hold a block twice.  Archival,    *)
(* failing calls, cached blocks and queries that overlap do not.           *)
THEOREM AnswersAscend ==
  ASSUME OneJob, NoDoubles
  PROVE  Spec => []AnswersStrictlyAscend
<1>1. Init => AnswersInv /\ ExactInv /\ PagesAscend
  <2>1. Init => ExactInv
    BY ExactInvInit
  <2>2. Init => PagesAscend
    BY DEF Init, PagesAscend
  <2> QED BY <2>1, <2>2, AnswersInvInit
<1>2. AnswersInv /\ ExactInv /\ PagesAscend /\ [Next]_vars
        => (AnswersInv /\ ExactInv /\ PagesAscend)'
  BY AnswersInvNext, ExactInvNext, PagesAscendStep
<1>3. PagesAscend => AnswersStrictlyAscend
  BY DEF PagesAscend, Ascends, AnswersStrictlyAscend
<1> QED BY <1>1, <1>2, <1>3, PTL DEF Spec
=============================================================================
