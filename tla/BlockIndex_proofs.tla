-------------------------- MODULE BlockIndex_proofs --------------------------
(***************************************************************************)
(* Proofs about BlockIndex, for every log, batch size, number of jobs and  *)
(* calls in flight, and any queries: the index has no gaps.                *)
(***************************************************************************)
EXTENDS BlockIndex, FiniteSetTheorems, TLAPS

-----------------------------------------------------------------------------
(* Lists.                                                                  *)

(* A block is listed under a key a natural number of times. *)
LEMMA ListingsNat ==
  ASSUME NEW block \in BlockContent, NEW key \in Key
  PROVE  Listings(block, key) \in Nat
<1>1. CASE key.type = "account"
  <2> DEFINE fields == {"from", "to", "spender"}
             hits == {f \in AccountFields(block.btype) : block[f] = key.of}
  <2>1. AccountFields(block.btype) \subseteq fields
    BY DEF AccountFields, BlockContent, BlockType
  <2>2. IsFiniteSet(fields)
    <3>1. IsFiniteSet({"from"})
      BY FS_Singleton
    <3>2. IsFiniteSet({"from"} \cup {"to"})
      BY <3>1, FS_AddElement
    <3>3. IsFiniteSet(({"from"} \cup {"to"}) \cup {"spender"})
      BY <3>2, FS_AddElement
    <3>4. fields = ({"from"} \cup {"to"}) \cup {"spender"}
      OBVIOUS
    <3> QED BY <3>3, <3>4
  <2>3. Cardinality(hits) \in Nat
    BY <2>1, <2>2, FS_Subset, FS_CardinalityType
  <2> QED BY <1>1, <2>3 DEF Listings
<1>2. CASE key.type = "btype"
  BY <1>2 DEF Listings
<1>3. CASE key.type = "token"
  BY <1>3 DEF Listings
<1> QED BY <1>1, <1>2, <1>3 DEF Key

(* The log, the index and the cache are well typed. *)
LogType ==
  /\ ledger \in Seq(Block)
  /\ Len(ledger) <= MaxBlocks
  /\ cache \subseteq 0..(Len(ledger) - 1)
  /\ index \in [Key -> [BlockId -> Nat]]
  /\ last_block_id \in Nat
  /\ tasks = [t \in Job \cup Caller |-> tasks[t]]

(* Block i is listed under all of its keys. *)
ListedAt(i) == \A k \in Key : Listings(ledger[i + 1], k) > 0 => index[k][i] > 0

Listed(n) == \A i \in 0..(n - 1) : ListedAt(i)

(* Indexing blocks of the log lists them, and forgets nothing. *)
LEMMA AddBlocksStep ==
  ASSUME LogType, NEW got, got \subseteq 0..(Len(ledger) - 1), UNCHANGED ledger,
         AddBlocksToIndex(got)
  PROVE  /\ index' \in [Key -> [BlockId -> Nat]]
         /\ \A i \in 0..(Len(ledger) - 1) : ListedAt(i) => ListedAt(i)'
         /\ \A i \in got : ListedAt(i)'
<1>1. /\ index \in [Key -> [BlockId -> Nat]]
      /\ Len(ledger) \in Nat
      /\ Len(ledger) <= MaxBlocks
      /\ MaxBlocks \in Nat
      /\ \A i \in 0..(Len(ledger) - 1) : i \in BlockId /\ ledger[i + 1] \in BlockContent
  BY BlockIndexAssumption DEF LogType, BlockId
<1> DEFINE new(k, i) == index[k][i] + Listings(ledger[i + 1], k)
<1>2. ASSUME NEW k \in Key, NEW i \in 0..(Len(ledger) - 1)
      PROVE  /\ new(k, i) \in Nat
             /\ index[k][i] > 0 => new(k, i) > 0
             /\ Listings(ledger[i + 1], k) > 0 => new(k, i) > 0
  <2>1. Listings(ledger[i + 1], k) \in Nat /\ index[k][i] \in Nat
    BY <1>1, ListingsNat
  <2> QED BY <2>1
<1> HIDE DEF new
<1>3. index' = [k \in Key |-> [i \in BlockId |-> IF i \in got THEN new(k, i) ELSE index[k][i]]]
  BY DEF AddBlocksToIndex, new
<1>4. ASSUME NEW k \in Key, NEW i \in BlockId
      PROVE  (IF i \in got THEN new(k, i) ELSE index[k][i]) \in Nat
  BY <1>1, <1>2
<1>5. index' \in [Key -> [BlockId -> Nat]]
  BY <1>3, <1>4
<1>6. ASSUME NEW i \in 0..(Len(ledger) - 1), ListedAt(i) \/ i \in got
      PROVE  ListedAt(i)'
  <2> SUFFICES ASSUME NEW k \in Key, Listings(ledger[i + 1], k) > 0 PROVE index'[k][i] > 0
    BY DEF ListedAt
  <2>1. index'[k][i] = IF i \in got THEN new(k, i) ELSE index[k][i]
    BY <1>1, <1>3
  <2> QED BY <1>2, <1>6, <2>1 DEF ListedAt
<1> QED BY <1>5, <1>6

-----------------------------------------------------------------------------
(* get_all_blocks for an update job.                                       *)

Batch(first) == first..(first + BlockBatchSize - 1)

(* A job that has all it can get of its batch from a log of length n, and  *)
(* asks for the next chunk.  Above every chunk but the last there is a     *)
(* block it found in the cache, so the log has all of the chunk.           *)
LEMMA ChunkAnswered ==
  ASSUME NEW first \in Nat, NEW n \in Nat, first <= n,
         NEW want \in SUBSET Batch(first), Batch(first) \ want \subseteq 0..(n - 1)
  PROVE  /\ want \ NextChunk(want) # {} =>
              (Batch(first) \ want) \cup (NextChunk(want) \cap 0..(n - 1)) =
                Batch(first) \ (want \ NextChunk(want))
         /\ want \ NextChunk(want) = {} =>
              (Batch(first) \ want) \cup (NextChunk(want) \cap 0..(n - 1)) =
                Batch(first) \cap 0..(n - 1)
<1> DEFINE rest == want \ NextChunk(want)
           got == Batch(first) \ want
           ids == NextChunk(want) \cap 0..(n - 1)
<1>1. BlockBatchSize \in Nat
  BY BlockIndexAssumption
<1>2. ASSUME rest # {}
      PROVE  NextChunk(want) \subseteq 0..(n - 1)
  <2>1. PICK x \in rest : TRUE
    BY <1>2
  <2> SUFFICES ASSUME NEW c \in NextChunk(want) PROVE c \in 0..(n - 1)
    OBVIOUS
  <2>2. PICK m \in want : (\A j \in want : m <= j) /\ m..c \subseteq want
    BY DEF NextChunk
  <2>3. x \in want /\ ~(m..x \subseteq want)
    BY <2>1, <2>2 DEF NextChunk
  <2>4. PICK y \in m..x : y \notin want
    BY <2>3
  <2>5. /\ c \in Int /\ m \in Int /\ x \in Int
        /\ m >= first /\ x <= first + BlockBatchSize - 1 /\ c >= first
    BY <1>1, <2>2, <2>3 DEF NextChunk, Batch
  <2>6. y \in Batch(first)
    BY <1>1, <2>4, <2>5 DEF Batch
  <2>7. y \in 0..(n - 1)
    BY <2>4, <2>6
  <2>8. c < y
    BY <2>2, <2>4, <2>5, <2>7
  <2> QED BY <2>5, <2>7, <2>8
<1>3. rest # {} => got \cup ids = Batch(first) \ rest
  BY <1>2 DEF NextChunk
<1>4. rest = {} => got \cup ids = Batch(first) \cap 0..(n - 1)
  <2> SUFFICES ASSUME rest = {} PROVE got \cup ids = Batch(first) \cap 0..(n - 1)
    OBVIOUS
  <2>1. NextChunk(want) = want
    BY DEF NextChunk
  <2> QED BY <2>1
<1> QED BY <1>3, <1>4

(* What the log has of a batch is an interval. *)
LEMMA BatchPart ==
  ASSUME NEW first \in Nat, NEW n \in Nat, first <= n
  PROVE  \E m \in Nat :
           /\ Batch(first) \cap 0..(n - 1) = first..(m - 1)
           /\ first <= m
           /\ m <= n
           /\ Cardinality(Batch(first) \cap 0..(n - 1)) = m - first
<1>1. BlockBatchSize \in Nat
  BY BlockIndexAssumption
<1> DEFINE m == IF n < first + BlockBatchSize THEN n ELSE first + BlockBatchSize
<1>2. m \in Nat /\ first <= m /\ m <= n
  BY <1>1
<1>3. Batch(first) \cap 0..(n - 1) = first..(m - 1)
  BY <1>1 DEF Batch
<1>4. Cardinality(first..(m - 1)) = m - first
  <2>1. first > m - 1 => m - first = 0
    BY <1>2
  <2> HIDE DEF m
  <2>2. first \in Int /\ m - 1 \in Int
    BY <1>2
  <2>3. Cardinality(first..(m - 1)) = IF first > m - 1 THEN 0 ELSE m - 1 - first + 1
    BY <2>2, FS_Interval
  <2> QED BY <1>2, <2>1, <2>3
<1> QED BY <1>2, <1>3, <1>4

-----------------------------------------------------------------------------
(* The inductive invariant.                                                *)

(* A record with the fields of a task. *)
Fields(r) ==
  r \in [last_block_id : {r.last_block_id}, query : {r.query}, page : {r.page},
         want : {r.want}, got : {r.got}, step : {r.step}, len : {r.len},
         archived : {r.archived}]

(* A task has the fields of a task, and an answer it has not handled yet   *)
(* is of a log no longer than the log is now.                              *)
TaskOK(t) ==
  LET task == tasks[t] IN
  /\ Fields(task)
  /\ task.step \in {"answered", "archive"} => task.len \in 0..Len(ledger)

(* A job began at a block up to which the index was complete, however far  *)
(* last_block_id has moved since, and it has all of its batch but the      *)
(* missing ids.                                                            *)
JobOK(t) ==
  LET task == tasks[t] IN
  /\ task.last_block_id \in 0..Len(ledger)
  /\ Listed(task.last_block_id)
  /\ task.want \subseteq Batch(task.last_block_id)
  /\ task.got = Batch(task.last_block_id) \ task.want
  /\ task.got \subseteq 0..(Len(ledger) - 1)
  /\ task.step \in {"answered", "archive"} =>
       task.last_block_id <= task.len /\ task.got \subseteq 0..(task.len - 1)

IndexInv ==
  /\ LogType
  /\ NeverAhead
  /\ Listed(last_block_id)
  /\ \A t \in Job \cup Caller : tasks[t] # None => TaskOK(t)
  /\ \A j \in Job : tasks[j] # None => JobOK(j)

LEMMA IndexInvInit == Init => IndexInv
<1> SUFFICES ASSUME Init PROVE IndexInv
  OBVIOUS
<1>1. LogType
  BY BlockIndexAssumption DEF Init, LogType
<1>2. NeverAhead /\ Listed(last_block_id)
  BY DEF Init, NeverAhead, Listed
<1> QED BY <1>1, <1>2 DEF Init, IndexInv

(* The log does not shrink and what is listed stays listed. *)
Grows ==
  /\ Len(ledger') \in Nat
  /\ Len(ledger) <= Len(ledger')
  /\ \A i \in 0..(Len(ledger) - 1) : ListedAt(i) => ListedAt(i)'

(* What such a step does not touch stays as the invariant says. *)
LEMMA TaskKept ==
  ASSUME IndexInv, Grows, NEW t \in Job \cup Caller, tasks'[t] = tasks[t]
  PROVE  /\ tasks'[t] # None => TaskOK(t)'
         /\ t \in Job => (tasks'[t] # None => JobOK(t)')
<1>1. Len(ledger) \in Nat
  BY DEF IndexInv, LogType
<1>2. tasks'[t] # None => TaskOK(t)'
  BY <1>1 DEF IndexInv, TaskOK, Fields, Grows
<1>3. ASSUME t \in Job, tasks'[t] # None
      PROVE  JobOK(t)'
  BY <1>1, <1>3 DEF IndexInv, JobOK, Grows, Listed, Batch
<1> QED BY <1>2, <1>3

(* What is listed up to a block of the log remains so. *)
LEMMA ListedKept ==
  ASSUME IndexInv, Grows, UNCHANGED last_block_id
  PROVE  NeverAhead' /\ Listed(last_block_id)'
<1>1. Len(ledger) \in Nat /\ last_block_id \in Nat
  BY DEF IndexInv, LogType
<1> QED BY <1>1 DEF IndexInv, NeverAhead, Grows, Listed

(* A step that leaves ledger and index alone lets nothing shrink. *)
LEMMA UnchangedGrows ==
  ASSUME IndexInv, UNCHANGED <<ledger, index>>
  PROVE  Grows
BY DEF IndexInv, LogType, Grows, ListedAt

-----------------------------------------------------------------------------
(* Every action preserves the invariant.                                   *)

(* The ledger appends and archives. *)
LEMMA LedgerStep ==
  ASSUME IndexInv, (\E block \in Block : AppendBlock(block)) \/ ArchiveBlock
  PROVE  IndexInv'
<1>1. UNCHANGED <<cache, index, last_block_id, tasks>>
  BY DEF AppendBlock, ArchiveBlock
<1>2. /\ ledger' \in Seq(Block)
      /\ Len(ledger') <= MaxBlocks
      /\ Len(ledger) <= Len(ledger')
      /\ Len(ledger) \in Nat
      /\ Len(ledger') \in Nat
      /\ \A i \in 0..(Len(ledger) - 1) : ledger'[i + 1] = ledger[i + 1]
  <2>1. CASE UNCHANGED ledger
    BY <2>1 DEF IndexInv, LogType
  <2>2. CASE \E block \in Block : AppendBlock(block)
    BY <2>2, BlockIndexAssumption DEF IndexInv, LogType, AppendBlock
  <2> QED BY <2>1, <2>2 DEF ArchiveBlock
<1>3. Grows
  BY <1>1, <1>2 DEF Grows, ListedAt
<1>4. LogType'
  BY <1>1, <1>2 DEF IndexInv, LogType
<1> QED BY <1>1, <1>3, <1>4, TaskKept, ListedKept DEF IndexInv

(* Ending or failing tasks only leave. *)
LEMMA TaskLeaves ==
  ASSUME IndexInv, NEW t \in Job \cup Caller, tasks' = [tasks EXCEPT ![t] = None],
         UNCHANGED <<ledger, cache, index, last_block_id>>
  PROVE  IndexInv'
<1>1. Grows
  BY UnchangedGrows
<1>2. LogType'
  BY DEF IndexInv, LogType
<1>3. \A u \in Job \cup Caller : tasks'[u] = None \/ tasks'[u] = tasks[u]
  BY DEF IndexInv, LogType
<1> QED BY <1>1, <1>2, <1>3, TaskKept, ListedKept DEF IndexInv

(* The end of an update job: it has exactly the blocks first..m-1 of the   *)
(* log, and the index was complete below first.                            *)
LEMMA EndUpdateStep ==
  ASSUME IndexInv, UNCHANGED ledger,
         NEW first \in Nat, NEW n \in 0..Len(ledger), first <= n, Listed(first),
         NEW got, got = Batch(first) \cap 0..(n - 1), EndUpdate(first, got)
  PROVE  /\ Grows
         /\ index' \in [Key -> [BlockId -> Nat]]
         /\ last_block_id' \in Nat
         /\ NeverAhead'
         /\ Listed(last_block_id)'
<1>1. Len(ledger) \in Nat /\ n \in Nat
  BY DEF IndexInv, LogType
<1>2. PICK m \in Nat : /\ got = first..(m - 1)
                       /\ first <= m
                       /\ m <= n
                       /\ Cardinality(got) = m - first
  BY <1>1, BatchPart
<1>3. got \subseteq 0..(Len(ledger) - 1)
  BY <1>1
<1>4. /\ index' \in [Key -> [BlockId -> Nat]]
      /\ \A i \in 0..(Len(ledger) - 1) : ListedAt(i) => ListedAt(i)'
      /\ \A i \in got : ListedAt(i)'
  BY <1>3, AddBlocksStep DEF IndexInv, LogType, EndUpdate
<1>5. last_block_id' = m
  BY <1>2 DEF EndUpdate, NextBlockId
<1>6. \A i \in 0..(m - 1) : ListedAt(i)'
  <2> SUFFICES ASSUME NEW i \in 0..(m - 1) PROVE ListedAt(i)'
    OBVIOUS
  <2>1. CASE i < first
    BY <1>1, <1>2, <1>4, <2>1 DEF Listed
  <2>2. CASE i >= first
    BY <1>2, <1>4, <2>2
  <2> QED BY <1>2, <2>1, <2>2
<1>7. Listed(last_block_id)'
  BY <1>5, <1>6 DEF Listed
<1> QED BY <1>1, <1>2, <1>4, <1>5, <1>7 DEF Grows, NeverAhead

(* A job starts. *)
LEMMA UpdateIndexStep ==
  ASSUME IndexInv, NEW job \in Job, UpdateIndex(job)
  PROVE  IndexInv'
<1> DEFINE first == last_block_id
<1>1. /\ first \in Nat
      /\ Len(ledger) \in Nat
      /\ first <= Len(ledger)
      /\ Listed(first)
      /\ UNCHANGED <<ledger, cache>>
  BY DEF IndexInv, LogType, NeverAhead, UpdateIndex
<1>2. CASE Batch(first) \subseteq cache
  <2>1. /\ EndUpdate(first, Batch(first))
        /\ UNCHANGED tasks
    BY <1>2 DEF UpdateIndex, Batch
  <2>2. Batch(first) = Batch(first) \cap 0..(Len(ledger) - 1)
    BY <1>2 DEF IndexInv, LogType
  <2>3. /\ Grows
        /\ index' \in [Key -> [BlockId -> Nat]]
        /\ last_block_id' \in Nat
        /\ NeverAhead'
        /\ Listed(last_block_id)'
    <3>1. Len(ledger) \in 0..Len(ledger)
      BY <1>1
    <3> QED BY <1>1, <2>1, <2>2, <3>1, EndUpdateStep
  <2>4. LogType'
    BY <1>1, <2>1, <2>3 DEF IndexInv, LogType
  <2> QED BY <2>1, <2>3, <2>4, TaskKept DEF IndexInv
<1>3. CASE ~(Batch(first) \subseteq cache)
  <2> DEFINE task == Fetch(first, None, <<>>, Batch(first))
  <2>1. /\ tasks' = [tasks EXCEPT ![job] = task]
        /\ UNCHANGED <<index, last_block_id>>
    BY <1>3 DEF UpdateIndex, Batch
  <2>2. Grows
    BY <1>1, <2>1, UnchangedGrows
  <2>3. LogType'
    BY <1>1, <2>1 DEF IndexInv, LogType
  <2>4. /\ tasks'[job] = task
        /\ \A u \in Job \cup Caller : u # job => tasks'[u] = tasks[u]
    BY <2>1 DEF IndexInv, LogType
  <2>5. TaskOK(job)'
    BY <1>3, <2>4 DEF TaskOK, Fields, Fetch
  <2>6. JobOK(job)'
    <3>1. /\ task.last_block_id = first
          /\ task.want = Batch(first) \ cache
          /\ task.got = Batch(first) \cap cache
          /\ task.step = "ledger"
      BY <1>3 DEF Fetch
    <3>2. cache \subseteq 0..(Len(ledger) - 1)
      BY DEF IndexInv, LogType
    <3>3. \A i \in 0..(first - 1) : ListedAt(i)'
      BY <1>1, <2>2 DEF Grows, Listed
    <3> HIDE DEF task
    <3>4. /\ tasks'[job].last_block_id \in 0..Len(ledger')
          /\ \A i \in 0..(tasks'[job].last_block_id - 1) : ListedAt(i)'
      BY <1>1, <2>4, <3>1, <3>3
    <3> QED BY <1>1, <2>1, <2>4, <3>1, <3>2, <3>4 DEF JobOK, Listed
  <2>7. \A u \in Job \cup Caller : u # job =>
          /\ tasks'[u] # None => TaskOK(u)'
          /\ u \in Job => (tasks'[u] # None => JobOK(u)')
    BY <2>2, <2>4, TaskKept
  <2> HIDE DEF task
  <2> QED BY <2>1, <2>2, <2>3, <2>5, <2>6, <2>7, ListedKept DEF IndexInv
<1> QED BY <1>2, <1>3

(* A query starts. *)
LEMMA GetBlocksStep ==
  ASSUME IndexInv, NEW caller \in Caller, NEW q \in Query, GetBlocks(caller, q)
  PROVE  IndexInv'
<1> DEFINE page == Requested(q)
           ids == {page[n] : n \in DOMAIN page}
           task == Fetch(last_block_id, q, page, ids)
<1>1. /\ tasks' = [tasks EXCEPT ![caller] = task]
      /\ UNCHANGED <<ledger, cache, index, last_block_id>>
  BY DEF GetBlocks
<1>2. Grows
  BY <1>1, UnchangedGrows
<1>3. LogType'
  BY <1>1 DEF IndexInv, LogType
<1>4. /\ tasks'[caller] = task
      /\ \A u \in Job \cup Caller : u # caller => tasks'[u] = tasks[u]
      /\ caller \notin Job
  BY <1>1, BlockIndexAssumption DEF IndexInv, LogType
<1>5. TaskOK(caller)'
  BY <1>4 DEF TaskOK, Fields, Fetch
<1>6. \A u \in Job \cup Caller : u # caller =>
        /\ tasks'[u] # None => TaskOK(u)'
        /\ u \in Job => (tasks'[u] # None => JobOK(u)')
  BY <1>2, <1>4, TaskKept
<1> HIDE DEF task
<1> QED BY <1>1, <1>2, <1>3, <1>4, <1>5, <1>6, ListedKept DEF IndexInv

(* A step of a task that leaves the log and the index alone. *)
LEMMA TaskStep ==
  ASSUME IndexInv, NEW t \in Job \cup Caller, NEW task, tasks' = [tasks EXCEPT ![t] = task],
         UNCHANGED <<ledger, index, last_block_id>>,
         cache' \subseteq 0..(Len(ledger) - 1),
         tasks'[t] = task => TaskOK(t)' /\ (t \in Job => JobOK(t)')
  PROVE  IndexInv'
<1>1. Grows
  BY UnchangedGrows
<1>2. LogType'
  BY DEF IndexInv, LogType
<1>3. /\ tasks'[t] = task
      /\ \A u \in Job \cup Caller : u # t => tasks'[u] = tasks[u]
  BY DEF IndexInv, LogType
<1>4. \A u \in Job \cup Caller : u # t =>
        /\ tasks'[u] # None => TaskOK(u)'
        /\ u \in Job => (tasks'[u] # None => JobOK(u)')
  BY <1>1, <1>3, TaskKept
<1> QED BY <1>1, <1>2, <1>3, <1>4, ListedKept DEF IndexInv

(* A job that goes on keeps the block it began at, and all below it listed. *)
LEMMA FirstKept ==
  ASSUME IndexInv, Grows, NEW t \in Job, tasks[t] # None,
         tasks'[t].last_block_id = tasks[t].last_block_id
  PROVE  /\ tasks'[t].last_block_id \in 0..Len(ledger')
         /\ \A i \in 0..(tasks'[t].last_block_id - 1) : ListedAt(i)'
<1>1. Len(ledger) \in Nat /\ JobOK(t)
  BY DEF IndexInv, LogType
<1> QED BY <1>1 DEF JobOK, Listed, Grows

(* The ledger executes a request: its log has all that the task got so     *)
(* far.                                                                    *)
LEMMA LedgerAnswersStep ==
  ASSUME IndexInv, NEW t \in Job \cup Caller, LedgerAnswers(t)
  PROVE  IndexInv'
<1> DEFINE task == [tasks[t] EXCEPT !.step = "answered", !.len = Len(ledger),
                                    !.archived = archived]
<1>1. /\ tasks[t] # None
      /\ tasks' = [tasks EXCEPT ![t] = task]
      /\ UNCHANGED <<ledger, cache, index, last_block_id>>
  BY DEF LedgerAnswers
<1>2. Len(ledger) \in Nat /\ TaskOK(t) /\ (t \in Job => JobOK(t))
  <2>1. Len(ledger) \in Nat
    BY DEF IndexInv, LogType
  <2> QED BY <1>1, <2>1 DEF IndexInv
<1>3. /\ Fields(task)
      /\ task.last_block_id = tasks[t].last_block_id
      /\ task.want = tasks[t].want
      /\ task.got = tasks[t].got
      /\ task.step = "answered"
      /\ task.len = Len(ledger)
  <2>1. Fields(tasks[t])
    BY <1>2 DEF TaskOK
  <2> QED BY <2>1, Zenon DEF Fields
<1> HIDE DEF task
<1>4. ASSUME tasks'[t] = task
      PROVE  TaskOK(t)'
  BY <1>1, <1>2, <1>3, <1>4 DEF TaskOK, Fields
<1>5. ASSUME tasks'[t] = task, t \in Job
      PROVE  JobOK(t)'
  <2>1. Grows
    BY <1>1, UnchangedGrows
  <2>2. /\ tasks'[t].last_block_id \in 0..Len(ledger')
        /\ \A i \in 0..(tasks'[t].last_block_id - 1) : ListedAt(i)'
    BY <1>1, <1>3, <1>5, <2>1, FirstKept
  <2> QED BY <1>1, <1>2, <1>3, <1>5, <2>2 DEF JobOK, Listed
<1>6. cache' \subseteq 0..(Len(ledger) - 1)
  BY <1>1 DEF IndexInv, LogType
<1> QED BY <1>1, <1>4, <1>5, <1>6, TaskStep

(* An answer refers to the archive. *)
LEMMA ToArchiveStep ==
  ASSUME IndexInv, NEW t \in Job \cup Caller, tasks[t] # None, tasks[t].step = "answered",
         tasks' = [tasks EXCEPT ![t].step = "archive"],
         UNCHANGED <<ledger, cache, index, last_block_id>>
  PROVE  IndexInv'
<1> DEFINE task == [tasks[t] EXCEPT !.step = "archive"]
<1>1. tasks' = [tasks EXCEPT ![t] = task]
  OBVIOUS
<1>2. Len(ledger) \in Nat /\ TaskOK(t) /\ (t \in Job => JobOK(t))
  <2>1. Len(ledger) \in Nat
    BY DEF IndexInv, LogType
  <2> QED BY <2>1 DEF IndexInv
<1>3. /\ Fields(task)
      /\ task.last_block_id = tasks[t].last_block_id
      /\ task.want = tasks[t].want
      /\ task.got = tasks[t].got
      /\ task.step = "archive"
      /\ task.len = tasks[t].len
  <2>1. Fields(tasks[t])
    BY <1>2 DEF TaskOK
  <2> QED BY <2>1, Zenon DEF Fields
<1> HIDE DEF task
<1>4. ASSUME tasks'[t] = task
      PROVE  TaskOK(t)'
  BY <1>2, <1>3, <1>4 DEF TaskOK, Fields
<1>5. ASSUME tasks'[t] = task, t \in Job
      PROVE  JobOK(t)'
  <2>1. Grows
    BY UnchangedGrows
  <2>2. /\ tasks'[t].last_block_id \in 0..Len(ledger')
        /\ \A i \in 0..(tasks'[t].last_block_id - 1) : ListedAt(i)'
    BY <1>3, <1>5, <2>1, FirstKept
  <2> QED BY <1>2, <1>3, <1>5, <2>2 DEF JobOK, Listed
<1>6. cache' \subseteq 0..(Len(ledger) - 1)
  BY DEF IndexInv, LogType
<1> QED BY <1>1, <1>4, <1>5, <1>6, TaskStep

(* A job absorbs a chunk: if it wants more it has all of the batch but     *)
(* what it wants, and if it has ended it has what the log had of its batch *)
(* when the ledger answered last.                                          *)
LEMMA AbsorbedBatch ==
  ASSUME IndexInv, NEW t \in Job, tasks[t] # None,
         tasks[t].step \in {"answered", "archive"}
  PROVE  LET old == tasks[t]
             want == old.want \ NextChunk(old.want)
             got == old.got \cup Answered(old)
         IN  /\ old.last_block_id \in 0..old.len
             /\ Listed(old.last_block_id)
             /\ want # {} => got = Batch(old.last_block_id) \ want
             /\ want = {} => got = Batch(old.last_block_id) \cap 0..(old.len - 1)
             /\ want \subseteq Batch(old.last_block_id)
             /\ got \subseteq 0..(Len(ledger) - 1)
<1> DEFINE old == tasks[t]
           ids == Answered(old)
           want == old.want \ NextChunk(old.want)
           got == old.got \cup ids
<1>1. Len(ledger) \in Nat /\ old.len \in 0..Len(ledger) /\ JobOK(t)
  <2>1. Len(ledger) \in Nat
    BY DEF IndexInv, LogType
  <2> QED BY <2>1 DEF IndexInv, TaskOK
<1>2. ids \subseteq 0..(Len(ledger) - 1)
  BY <1>1 DEF Answered
<1>3. /\ old.last_block_id \in 0..old.len
      /\ old.want \subseteq Batch(old.last_block_id)
      /\ old.got = Batch(old.last_block_id) \ old.want
      /\ old.got \subseteq 0..(old.len - 1)
      /\ old.got \subseteq 0..(Len(ledger) - 1)
      /\ Listed(old.last_block_id)
  BY <1>1 DEF JobOK
<1>4. old.last_block_id \in Nat /\ old.len \in Nat /\ old.last_block_id <= old.len
  BY <1>1, <1>3
<1>5. /\ ids = NextChunk(old.want) \cap 0..(old.len - 1)
      /\ want = old.want \ NextChunk(old.want)
      /\ got = old.got \cup ids
  BY DEF Answered
<1> HIDE DEF old, ids, want, got
<1>6. /\ want # {} => old.got \cup ids = Batch(old.last_block_id) \ want
      /\ want = {} => old.got \cup ids = Batch(old.last_block_id) \cap 0..(old.len - 1)
  <2>1. /\ old.want \in SUBSET Batch(old.last_block_id)
        /\ Batch(old.last_block_id) \ old.want \subseteq 0..(old.len - 1)
    BY <1>3
  <2> QED BY <1>3, <1>4, <1>5, <2>1, ChunkAnswered
<1>7. /\ old.last_block_id \in 0..old.len
      /\ Listed(old.last_block_id)
      /\ want # {} => got = Batch(old.last_block_id) \ want
      /\ want = {} => got = Batch(old.last_block_id) \cap 0..(old.len - 1)
      /\ want \subseteq Batch(old.last_block_id)
      /\ got \subseteq 0..(Len(ledger) - 1)
  BY <1>2, <1>3, <1>4, <1>5, <1>6
<1> QED BY <1>7 DEF old, ids, want, got

(* A chunk is absorbed, and a job that has all it can get ends.            *)
LEMMA AbsorbStep ==
  ASSUME IndexInv, NEW t \in Job \cup Caller, tasks[t] # None,
         tasks[t].step \in {"answered", "archive"}, Absorb(t, tasks[t]), UNCHANGED ledger
  PROVE  IndexInv'
<1> DEFINE old == tasks[t]
           ids == Answered(old)
           want == old.want \ NextChunk(old.want)
           got == old.got \cup ids
<1>1. /\ Len(ledger) \in Nat
      /\ Fields(old)
      /\ old.len \in 0..Len(ledger)
      /\ t \in Job => JobOK(t)
  <2>1. Len(ledger) \in Nat
    BY DEF IndexInv, LogType
  <2> QED BY <2>1 DEF IndexInv, TaskOK
<1>2. /\ cache' \subseteq 0..(Len(ledger) - 1)
      /\ ids \subseteq 0..(Len(ledger) - 1)
  <2>1. ids \subseteq 0..(Len(ledger) - 1)
    BY <1>1 DEF Answered
  <2>2. cache' = cache \cup ids
    BY DEF Absorb
  <2> QED BY <2>1, <2>2 DEF IndexInv, LogType
<1>3. ASSUME t \in Job
      PROVE  /\ old.last_block_id \in 0..old.len
             /\ Listed(old.last_block_id)
             /\ want # {} => got = Batch(old.last_block_id) \ want
             /\ want = {} => got = Batch(old.last_block_id) \cap 0..(old.len - 1)
             /\ want \subseteq Batch(old.last_block_id)
             /\ got \subseteq 0..(Len(ledger) - 1)
  BY <1>3, AbsorbedBatch
<1>4. CASE want = {} /\ t \in Job
  <2>1. /\ EndUpdate(old.last_block_id, got)
        /\ tasks' = [tasks EXCEPT ![t] = None]
    BY <1>4 DEF Absorb
  <2>2. /\ Grows
        /\ index' \in [Key -> [BlockId -> Nat]]
        /\ last_block_id' \in Nat
        /\ NeverAhead'
        /\ Listed(last_block_id)'
    <3>1. /\ old.last_block_id \in Nat
          /\ old.len \in 0..Len(ledger)
          /\ old.last_block_id <= old.len
          /\ Listed(old.last_block_id)
          /\ got = Batch(old.last_block_id) \cap 0..(old.len - 1)
      BY <1>1, <1>3, <1>4
    <3> HIDE DEF old, got
    <3> QED BY <2>1, <3>1, EndUpdateStep
  <2>3. LogType'
    BY <1>2, <2>1, <2>2 DEF IndexInv, LogType
  <2>4. \A u \in Job \cup Caller : tasks'[u] = None \/ tasks'[u] = tasks[u]
    BY <2>1 DEF IndexInv, LogType
  <2> QED BY <2>2, <2>3, <2>4, TaskKept DEF IndexInv
<1>5. CASE ~(want = {} /\ t \in Job)
  <2> DEFINE task == [old EXCEPT !.want = want, !.got = got,
                                 !.step = IF want = {} THEN "done" ELSE "ledger",
                                 !.len = 0, !.archived = 0]
  <2>1. /\ tasks' = [tasks EXCEPT ![t] = task]
        /\ UNCHANGED <<index, last_block_id>>
    BY <1>5 DEF Absorb
  <2> HIDE DEF want, got
  <2>2. /\ Fields(task)
        /\ task.last_block_id = old.last_block_id
        /\ task.want = want
        /\ task.got = got
        /\ task.step = IF want = {} THEN "done" ELSE "ledger"
    BY <1>1, Zenon DEF Fields
  <2> HIDE DEF task, old
  <2>3. task.step \notin {"answered", "archive"}
    BY <2>2
  <2>4. ASSUME tasks'[t] = task
        PROVE  TaskOK(t)'
    BY <2>2, <2>3, <2>4 DEF TaskOK, Fields
  <2>5. ASSUME tasks'[t] = task, t \in Job
        PROVE  JobOK(t)'
    <3>1. Grows
      BY <2>1, UnchangedGrows
    <3>2. /\ tasks'[t].last_block_id \in 0..Len(ledger')
          /\ \A i \in 0..(tasks'[t].last_block_id - 1) : ListedAt(i)'
      BY <2>2, <2>5, <3>1, FirstKept DEF old
    <3> QED BY <1>3, <1>5, <2>2, <2>3, <2>5, <3>2 DEF JobOK, Listed
  <2> QED BY <1>2, <2>1, <2>4, <2>5, TaskStep
<1> QED BY <1>4, <1>5

LEMMA IndexInvNext == IndexInv /\ [Next]_vars => IndexInv'
<1> SUFFICES ASSUME IndexInv, [Next]_vars PROVE IndexInv'
  OBVIOUS
<1>1. CASE (\E block \in Block : AppendBlock(block)) \/ ArchiveBlock
  BY <1>1, LedgerStep
<1>2. CASE \E job \in Job : UpdateIndex(job)
  BY <1>2, UpdateIndexStep
<1>3. CASE \E caller \in Caller, q \in Query : GetBlocks(caller, q)
  BY <1>3, GetBlocksStep
<1>4. ASSUME NEW t \in Job \cup Caller, Progress(t)
      PROVE  IndexInv'
  <2>1. CASE LedgerAnswers(t)
    BY <2>1, LedgerAnswersStep
  <2>2. CASE LedgerReply(t) /\ InArchive(tasks[t]) = {}
    BY <2>2, AbsorbStep DEF LedgerReply
  <2>3. CASE LedgerReply(t) /\ InArchive(tasks[t]) # {}
    BY <2>3, ToArchiveStep DEF LedgerReply
  <2>4. CASE ArchiveReply(t)
    BY <2>4, AbsorbStep DEF ArchiveReply
  <2> QED BY <1>4, <2>1, <2>2, <2>3, <2>4 DEF Progress
<1>5. CASE \E t \in Job \cup Caller : CallFails(t)
  BY <1>5, TaskLeaves DEF CallFails
<1>6. CASE \E caller \in Caller : Return(caller)
  BY <1>6, TaskLeaves DEF Return
<1>7. CASE UNCHANGED vars
  <2>1. Grows /\ LogType'
    BY <1>7, UnchangedGrows DEF IndexInv, LogType, vars
  <2> QED BY <1>7, <2>1, TaskKept, ListedKept DEF IndexInv, vars
<1> QED BY <1>1, <1>2, <1>3, <1>4, <1>5, <1>6, <1>7 DEF Next

LEMMA IndexInvariant == Spec => []IndexInv
  BY IndexInvInit, IndexInvNext, PTL DEF Spec

-----------------------------------------------------------------------------
(* The results.                                                            *)

(* Whatever jobs overlap and fail, the last_block_id they write never      *)
(* points beyond the ledger's log.                                         *)
THEOREM IndexNotAhead == Spec => []NeverAhead
<1>1. IndexInv => NeverAhead
  BY DEF IndexInv
<1> QED BY <1>1, IndexInvariant, PTL

(* Every block below last_block_id is listed under each of its keys,       *)
(* however jobs overlap, fail and find blocks in the cache or the archive. *)
THEOREM IndexHasNoGaps == Spec => []IndexComplete
<1>1. IndexInv => IndexComplete
  BY DEF IndexInv, Listed, ListedAt, IndexComplete
<1> QED BY <1>1, IndexInvariant, PTL

-----------------------------------------------------------------------------
(* What jobs that do not overlap do better.                                *)

OneJob == \A i, j \in Job : i = j

(* Every block that is indexed is listed as often as add_block_to_index    *)
(* lists it once, and no other is listed at all.                           *)
IndexExact ==
  \A k \in Key, i \in BlockId :
    index[k][i] = IF i < last_block_id THEN Listings(ledger[i + 1], k) ELSE 0

(* The only job in flight goes on from where the index ends.               *)
ExactInv ==
  /\ IndexInv
  /\ IndexExact
  /\ \A j \in Job : tasks[j] # None => tasks[j].last_block_id = last_block_id

(* At the start nothing is listed. *)
LEMMA ExactInvInit == Init => ExactInv
<1>1. Init => IndexExact
  BY DEF Init, IndexExact, BlockId
<1> QED BY <1>1, IndexInvInit DEF Init, ExactInv

(* The end of a job that began where the index ends still. *)
LEMMA ExactEnd ==
  ASSUME ExactInv, UNCHANGED ledger, NEW n \in 0..Len(ledger), last_block_id <= n,
         NEW got, got = Batch(last_block_id) \cap 0..(n - 1), EndUpdate(last_block_id, got)
  PROVE  IndexExact'
<1>1. /\ Len(ledger) \in Nat /\ Len(ledger) <= MaxBlocks /\ MaxBlocks \in Nat
      /\ last_block_id \in Nat /\ n \in Nat
      /\ \A i \in BlockId : i < Len(ledger) => ledger[i + 1] \in BlockContent
  <2>1. ledger \in Seq(Block) /\ last_block_id \in Nat /\ Len(ledger) <= MaxBlocks
    BY DEF ExactInv, IndexInv, LogType
  <2> QED BY <2>1, BlockIndexAssumption DEF BlockId
<1>2. PICK m \in Nat : /\ got = last_block_id..(m - 1)
                       /\ last_block_id <= m
                       /\ m <= n
                       /\ Cardinality(got) = m - last_block_id
  BY <1>1, BatchPart
<1>3. last_block_id' = m
  BY <1>1, <1>2 DEF EndUpdate, NextBlockId
<1>4. ASSUME NEW k \in Key, NEW i \in BlockId
      PROVE  index'[k][i] = IF i < m THEN Listings(ledger[i + 1], k) ELSE 0
  <2>1. index'[k][i] = IF i \in got THEN index[k][i] + Listings(ledger[i + 1], k)
                                    ELSE index[k][i]
    BY DEF EndUpdate, AddBlocksToIndex
  <2>2. index[k][i] = IF i < last_block_id THEN Listings(ledger[i + 1], k) ELSE 0
    BY DEF ExactInv, IndexExact
  <2>3. i \in Nat
    BY DEF BlockId
  <2>4. CASE i \in got
    <3>1. i < m /\ ~(i < last_block_id) /\ i < Len(ledger)
      BY <1>1, <1>2, <2>3, <2>4
    <3>2. Listings(ledger[i + 1], k) \in Nat
      BY <1>1, <3>1, ListingsNat
    <3>3. 0 + Listings(ledger[i + 1], k) = Listings(ledger[i + 1], k)
      BY <3>2
    <3> QED BY <2>1, <2>2, <2>4, <3>1, <3>3
  <2>5. CASE i \notin got
    <3>1. i < m <=> i < last_block_id
      BY <1>1, <1>2, <2>3, <2>5
    <3> QED BY <2>1, <2>2, <2>5, <3>1
  <2> QED BY <2>4, <2>5
<1> QED BY <1>3, <1>4 DEF IndexExact

(* What is indexed stays when the log grows. *)
LEMMA ExactKept ==
  ASSUME ExactInv, UNCHANGED <<index, last_block_id>>,
         \A i \in 0..(Len(ledger) - 1) : ledger'[i + 1] = ledger[i + 1]
  PROVE  IndexExact'
<1>1. \A i \in BlockId : i < last_block_id => i \in 0..(Len(ledger) - 1)
  BY DEF ExactInv, IndexInv, LogType, NeverAhead, BlockId
<1> QED BY <1>1 DEF ExactInv, IndexExact

(* Each step keeps the index exact. *)
LEMMA ExactInvNext ==
  ASSUME OneJob, ExactInv, [Next]_vars
  PROVE  ExactInv'
<1>0. IndexInv /\ IndexInv' /\ Len(ledger) \in Nat /\ ledger \in Seq(Block)
  <2>1. IndexInv /\ ledger \in Seq(Block)
    BY DEF ExactInv, IndexInv, LogType
  <2> QED BY <2>1, IndexInvNext
<1> DEFINE Firsts == \A j \in Job : tasks[j] # None => tasks[j].last_block_id = last_block_id
<1>1. DOMAIN tasks = Job \cup Caller /\ Job \cap Caller = {} /\ Firsts
  BY <1>0, BlockIndexAssumption DEF IndexInv, LogType, ExactInv
<1>2. ASSUME UNCHANGED <<index, last_block_id, tasks>>,
             UNCHANGED ledger \/ \E block \in Block : AppendBlock(block)
      PROVE  ExactInv'
  <2>1. \A i \in 0..(Len(ledger) - 1) : ledger'[i + 1] = ledger[i + 1]
    BY <1>0, <1>2 DEF AppendBlock
  <2> QED BY <1>0, <1>1, <1>2, <2>1, ExactKept DEF ExactInv
<1>3. ASSUME NEW t \in Job \cup Caller, NEW task, tasks' = [tasks EXCEPT ![t] = task],
             UNCHANGED <<ledger, index, last_block_id>>,
             t \in Job => task = None \/ task.last_block_id = last_block_id
      PROVE  ExactInv'
  <2>1. Firsts'
    BY <1>1, <1>3
  <2> QED BY <1>0, <1>3, <2>1, ExactKept DEF ExactInv
<1>4. ASSUME NEW job \in Job, tasks'[job] = None, IndexExact'
      PROVE  ExactInv'
  <2>1. \A j \in Job : tasks'[j] = None
    BY <1>4 DEF OneJob
  <2> QED BY <1>0, <1>4, <2>1 DEF ExactInv
<1> HIDE DEF Firsts
<1>5. CASE (\E block \in Block : AppendBlock(block)) \/ ArchiveBlock
  BY <1>2, <1>5 DEF AppendBlock, ArchiveBlock
<1>6. ASSUME NEW job \in Job, UpdateIndex(job)
      PROVE  ExactInv'
  <2>1. CASE Batch(last_block_id) \subseteq cache
    <3>1. /\ EndUpdate(last_block_id, Batch(last_block_id)) /\ UNCHANGED <<tasks, ledger>>
          /\ tasks[job] = None
      BY <1>6, <2>1 DEF UpdateIndex, Batch
    <3>2. /\ Batch(last_block_id) = Batch(last_block_id) \cap 0..(Len(ledger) - 1)
          /\ Len(ledger) \in 0..Len(ledger) /\ last_block_id <= Len(ledger)
      BY <1>0, <2>1 DEF IndexInv, LogType, NeverAhead
    <3>3. IndexExact'
      BY <3>1, <3>2, ExactEnd
    <3> QED BY <1>4, <3>1, <3>3
  <2>2. CASE ~(Batch(last_block_id) \subseteq cache)
    <3> DEFINE task == Fetch(last_block_id, None, <<>>, Batch(last_block_id))
    <3>1. /\ tasks' = [tasks EXCEPT ![job] = task]
          /\ UNCHANGED <<ledger, index, last_block_id>>
      BY <1>6, <2>2 DEF UpdateIndex, Batch
    <3>2. task.last_block_id = last_block_id
      BY DEF Fetch
    <3> HIDE DEF task
    <3> QED BY <1>3, <3>1, <3>2
  <2> QED BY <2>1, <2>2
<1>7. ASSUME NEW caller \in Caller, NEW q \in Query, GetBlocks(caller, q)
      PROVE  ExactInv'
  BY <1>1, <1>3, <1>7 DEF GetBlocks
<1>8. ASSUME NEW t \in Job \cup Caller, Progress(t)
      PROVE  ExactInv'
  <2>0. /\ t \in Job /\ tasks[t] # None => tasks[t].last_block_id = last_block_id
        /\ tasks[t] # None => TaskOK(t)
    BY <1>0, <1>1 DEF Firsts, IndexInv
  <2>1. CASE LedgerAnswers(t)
    <3> DEFINE task == [tasks[t] EXCEPT !.step = "answered", !.len = Len(ledger),
                                        !.archived = archived]
    <3>1. /\ tasks' = [tasks EXCEPT ![t] = task] /\ tasks[t] # None
          /\ UNCHANGED <<ledger, index, last_block_id>>
      BY <2>1 DEF LedgerAnswers
    <3>2. task.last_block_id = tasks[t].last_block_id
      BY <2>0, <3>1 DEF TaskOK, Fields
    <3> HIDE DEF task
    <3> QED BY <1>3, <2>0, <3>1, <3>2
  <2>2. CASE LedgerReply(t) /\ InArchive(tasks[t]) # {}
    <3> DEFINE task == [tasks[t] EXCEPT !.step = "archive"]
    <3>1. /\ tasks' = [tasks EXCEPT ![t] = task] /\ tasks[t] # None
          /\ UNCHANGED <<ledger, index, last_block_id>>
      BY <2>2 DEF LedgerReply
    <3>2. task.last_block_id = tasks[t].last_block_id
      BY <2>0, <3>1 DEF TaskOK, Fields
    <3> HIDE DEF task
    <3> QED BY <1>3, <2>0, <3>1, <3>2
  <2>3. ASSUME tasks[t] # None, tasks[t].step \in {"answered", "archive"},
               Absorb(t, tasks[t]), UNCHANGED ledger
        PROVE  ExactInv'
    <3> DEFINE old == tasks[t]
               want == old.want \ NextChunk(old.want)
               got == old.got \cup Answered(old)
    <3>1. CASE want = {} /\ t \in Job
      <4>1. EndUpdate(last_block_id, got) /\ tasks' = [tasks EXCEPT ![t] = None]
        BY <2>0, <2>3, <3>1 DEF Absorb
      <4>2. /\ got = Batch(last_block_id) \cap 0..(old.len - 1)
            /\ last_block_id \in 0..old.len
        BY <1>0, <2>0, <2>3, <3>1, AbsorbedBatch
      <4>3. old.len \in 0..Len(ledger) /\ last_block_id <= old.len
        BY <1>0, <2>0, <2>3, <4>2 DEF TaskOK
      <4> HIDE DEF got
      <4>4. IndexExact'
        BY <2>3, <4>1, <4>2, <4>3, ExactEnd
      <4>5. tasks'[t] = None
        BY <1>1, <4>1
      <4> QED BY <1>4, <3>1, <4>4, <4>5
    <3>2. CASE ~(want = {} /\ t \in Job)
      <4> DEFINE task == [old EXCEPT !.want = want, !.got = got,
                                     !.step = IF want = {} THEN "done" ELSE "ledger",
                                     !.len = 0, !.archived = 0]
      <4>1. tasks' = [tasks EXCEPT ![t] = task] /\ UNCHANGED <<index, last_block_id>>
        BY <2>3, <3>2 DEF Absorb
      <4> HIDE DEF want, got
      <4>2. task.last_block_id = tasks[t].last_block_id
        BY <2>0, <2>3 DEF TaskOK, Fields
      <4> HIDE DEF task
      <4> QED BY <1>3, <2>0, <2>3, <4>1, <4>2
    <3> QED BY <3>1, <3>2
  <2> QED BY <1>8, <2>1, <2>2, <2>3 DEF Progress, LedgerReply, ArchiveReply
<1>9. ASSUME NEW t \in Job \cup Caller, CallFails(t) \/ (t \in Caller /\ Return(t))
      PROVE  ExactInv'
  BY <1>3, <1>9 DEF CallFails, Return
<1>10. CASE UNCHANGED vars
  BY <1>2, <1>10 DEF vars
<1> QED BY <1>5, <1>6, <1>7, <1>8, <1>9, <1>10 DEF Next

(* As long as jobs do not overlap, the index holds every block as often as *)
(* one add_block_to_index lists it: however often a job fails and the next *)
(* one begins again, nothing is listed twice.                              *)
THEOREM OneJobListsExactly ==
  ASSUME OneJob
  PROVE  Spec => []IndexExact
<1>1. Init => ExactInv
  BY ExactInvInit
<1>2. ExactInv /\ [Next]_vars => ExactInv'
  BY ExactInvNext
<1>3. ExactInv => IndexExact
  BY DEF ExactInv
<1> QED BY <1>1, <1>2, <1>3, PTL DEF Spec
=============================================================================
