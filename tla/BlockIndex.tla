------------------------------ MODULE BlockIndex ------------------------------
(***************************************************************************)
(* The index canister: a timer job reads the ledger's block log batch by   *)
(* batch and lists every block under its accounts, its type and its token; *)
(* get_blocks answers queries from these lists.  Both fetch blocks through *)
(* get_all_blocks, which looks into a cache, asks the ledger for the runs  *)
(* of missing ids one after the other, and follows the ledger's references *)
(* to an archive.  It awaits every answer, so jobs and queries overlap     *)
(* with each other, with the growth of the log and with its archival: a    *)
(* job fires every minute, whether the one before has ended or not.        *)
(*                                                                         *)
(* External: the ledger and its archive.  The ledger answers a request     *)
(* with the requested blocks its log has when it executes it, those it has *)
(* archived as a reference to the archive.  Calls may fail.  Assumed: the  *)
(* answer is complete, for as many blocks as a batch or a page has.  The   *)
(* log is a library whose limits on an answer the ledger configures        *)
(* (init.rs:162), and what it does beyond them is not in the repository.   *)
(*                                                                         *)
(* Abstracted: a block is its type, accounts and token, a cached block its *)
(* id (the log never changes a block).  A list counts how often it holds   *)
(* an id: readers sort it.  One archive stands for several.  All types the *)
(* ledger writes are known to the index, so add_block_to_index does not    *)
(* fail.  cleanup_cache changes nothing: it borrows the cache mutably      *)
(* while it iterates over it, and traps whenever there is an entry to      *)
(* remove.  Stopped upgrades keep all of the state.                        *)
(*                                                                         *)
(* An operator just before the one it resembles (NextBlockIdReread before  *)
(* NextBlockId) is a faulty variant, which the properties rule out.        *)
(***************************************************************************)
EXTENDS Integers, FiniteSets, Sequences

CONSTANTS
  Account,          \* the accounts in blocks
  Principal,        \* those without subaccount: their text is that of a principal
  TokenId,
  None,             \* no account, no token, no task, no query
  Block,            \* the blocks the ledger logs in a run
  Query,            \* the arguments get_blocks is called with in a run
  BlockBatchSize,   \* BLOCK_BATCH_SIZE
  MaxBlocks,        \* bound on the length of the log
  MaxArchived,      \* bound on the blocks the ledger moves to the archive
  Job,              \* the update jobs that can overlap, a bound
  Caller,           \* the get_blocks calls that can overlap, a bound
  MaxFailures       \* bound on the calls to the ledger and the archive that fail

BlockType == {"7mint", "7burn", "7xfer", "7update_token", "37approve", "37approve_coll",
              "37revoke", "37revoke_coll", "37xfer"}

BlockContent == [btype : BlockType, from : Account \cup {None}, to : Account \cup {None},
                 spender : Account \cup {None}, tid : TokenId \cup {None}]

BlockId == 0..(MaxBlocks - 1)

(* IndexType: what blocks are listed under; under the name of another      *)
(* block type no list exists.                                              *)
Key == [type : {"account"}, of : Principal] \cup
       [type : {"btype"}, of : {block.btype : block \in Block}] \cup
       [type : {"token"}, of : TokenId]

ASSUME BlockIndexAssumption ==
  /\ Principal \subseteq Account
  /\ None \notin Account
  /\ None \notin TokenId
  /\ Block \subseteq BlockContent
  /\ None \notin Query
  /\ \A q \in Query : q.filters \in Seq(Key) /\ q.start \in Nat /\ q.length \in Nat
  /\ Job \cap Caller = {}
  /\ BlockBatchSize \in Nat \ {0}
  /\ MaxBlocks \in Nat
  /\ MaxArchived \in Nat
  /\ MaxFailures \in Nat

VARIABLES
  ledger,         \* the ledger's block log, ledger[i + 1] is block i
  archived,       \* the blocks below this id have moved to the archive
  cache,          \* the ids of the blocks in __CACHE
  index,          \* __INDEX: index[key][id] is how often id is listed under key
  last_block_id,  \* the id of the next block to index
  tasks,          \* the update jobs and get_blocks calls in flight
  failures        \* calls that failed so far

vars == <<ledger, archived, cache, index, last_block_id, tasks, failures>>

(* A task awaits the ledger ("ledger"), has its answer on the way          *)
(* ("answered": the log's length and archived part when it was given),     *)
(* awaits the archive ("archive"), or, a query, has ended ("done").        *)
(* last_block_id is its value when the task began, page the ids a query    *)
(* asks get_all_blocks for, got its ret_blocks, want the ids missing yet.  *)
Task == [last_block_id : Nat, query : Query \cup {None}, page : Seq(Nat),
         want : SUBSET Nat, got : SUBSET BlockId,
         step : {"ledger", "answered", "archive", "done"}, len : Nat, archived : Nat]

Init ==
  /\ ledger = <<>>
  /\ archived = 0
  /\ cache = {}
  /\ index = [k \in Key |-> [i \in BlockId |-> 0]]
  /\ last_block_id = 0
  /\ tasks = [t \in Job \cup Caller |-> None]
  /\ failures = 0

-----------------------------------------------------------------------------
(* The index.                                                              *)

AccountFields(btype) ==
  CASE btype = "7mint" -> {"to"}
    [] btype \in {"7xfer", "7burn"} -> {"from", "to"}
    [] btype = "37xfer" -> {"from", "spender", "to"}
    [] btype \in {"37approve", "37revoke", "37revoke_coll"} -> {"from", "spender"}
    [] btype \in {"7update_token", "37approve_coll"} -> {"from"}

TokenInBlock(block) ==
  IF block.btype \in {"37xfer", "37approve_coll", "37revoke_coll"} THEN None ELSE block.tid

(* How often a block is listed under a key: an account that occurs in two  *)
(* fields of the block is listed twice.                                    *)
Listings(block, key) ==
  CASE key.type = "account" ->
         Cardinality({f \in AccountFields(block.btype) : block[f] = key.of})
    [] key.type = "btype" -> IF block.btype = key.of THEN 1 ELSE 0
    [] key.type = "token" -> IF TokenInBlock(block) = key.of THEN 1 ELSE 0

(* add_block_to_index for each of the blocks: what is listed already is    *)
(* listed once more.                                                       *)
AddBlocksToIndex(ids) ==
  index' = [k \in Key |-> [i \in BlockId |->
    IF i \in ids THEN index[k][i] + Listings(ledger[i + 1], k) ELSE index[k][i]]]

(* Counts on from the value read when the job began, and overwrites what   *)
(* other jobs have written since.                                          *)
NextBlockIdReread(first, got) == last_block_id' = last_block_id + Cardinality(got)
NextBlockId(first, got) == last_block_id' = first + Cardinality(got)

EndUpdate(first, got) ==
  /\ AddBlocksToIndex(got)
  /\ NextBlockId(first, got)

-----------------------------------------------------------------------------
(* Starting.                                                               *)

Fetch(first, query, page, ids) ==
  [last_block_id |-> first, query |-> query, page |-> page,
   want |-> ids \ cache, got |-> ids \cap cache,
   step |-> IF ids \subseteq cache THEN "done" ELSE "ledger", len |-> 0, archived |-> 0]

(* update_index; when the whole batch is in the cache it ends at once. *)
UpdateIndex(job) ==
  LET ids == last_block_id .. (last_block_id + BlockBatchSize - 1)
  IN
  /\ tasks[job] = None
  /\ IF ids \subseteq cache
       THEN /\ EndUpdate(last_block_id, ids)
            /\ UNCHANGED tasks
       ELSE /\ tasks' = [tasks EXCEPT ![job] = Fetch(last_block_id, None, <<>>, ids)]
            /\ UNCHANGED <<index, last_block_id>>
  /\ UNCHANGED <<ledger, archived, cache, failures>>

(* The listed ids in ascending order, as often as they are listed. *)
Sorted(listed) ==
  LET upto[n \in 0..MaxBlocks] ==
        IF n = 0 THEN <<>> ELSE upto[n - 1] \o [c \in 1..listed[n - 1] |-> n - 1]
  IN upto[MaxBlocks]

(* The first filter's list, restricted to what the other lists contain. *)
Combined(filters) ==
  [i \in BlockId |->
     IF \A k \in DOMAIN filters : index[filters[k]][i] > 0 THEN index[filters[1]][i] ELSE 0]

PageOfLessLast(ids, start, length) ==
  SubSeq(ids, start + 1, IF start + length < Len(ids) THEN start + length ELSE Len(ids) - 1)
PageOf(ids, start, length) ==
  SubSeq(ids, start + 1, IF start + length < Len(ids) THEN start + length ELSE Len(ids))

(* Without filters a descending answer ends with the last block indexed,   *)
(* wherever the query wants to start.                                      *)
StartUnsaturated(q) == IF q.sort_by = "Ascending" THEN q.start ELSE last_block_id - q.length
Start(q) ==
  IF q.sort_by = "Ascending" THEN q.start
  ELSE IF last_block_id > q.length THEN last_block_id - q.length ELSE 0

Requested(q) ==
  IF q.filters = <<>>
    THEN [n \in 1..q.length |-> Start(q) + n - 1]
    ELSE PageOf(Sorted(Combined(q.filters)), q.start, q.length)

GetBlocks(caller, q) ==
  LET page == Requested(q)
      ids == {page[n] : n \in DOMAIN page}
  IN
  /\ tasks[caller] = None
  /\ tasks' = [tasks EXCEPT ![caller] = Fetch(last_block_id, q, page, ids)]
  /\ UNCHANGED <<ledger, archived, cache, index, last_block_id, failures>>

-----------------------------------------------------------------------------
(* get_all_blocks.                                                         *)

(* The first of the groups of consecutive ids. *)
NextChunk(want) ==
  {i \in want : \E m \in want : (\A j \in want : m <= j) /\ m..i \subseteq want}

(* The ledger executes the request. *)
LedgerAnswers(t) ==
  /\ tasks[t] # None
  /\ tasks[t].step = "ledger"
  /\ tasks' = [tasks EXCEPT ![t].step = "answered",
                            ![t].len = Len(ledger), ![t].archived = archived]
  /\ UNCHANGED <<ledger, archived, cache, index, last_block_id, failures>>

(* The blocks the ledger answers with, and those of them in the archive.   *)
AnsweredLive(task) == NextChunk(task.want) \cap task.archived..(task.len - 1)
Answered(task) == NextChunk(task.want) \cap 0..(task.len - 1)
InArchive(task) == Answered(task) \cap 0..(task.archived - 1)

(* The blocks of a chunk go to the cache and to ret_blocks.  The next      *)
(* chunk is asked for; after the last one an update job indexes what it    *)
(* got in ascending order, and a query is answered.                        *)
Absorb(t, task) ==
  LET ids == Answered(task)
      want == task.want \ NextChunk(task.want)
      got == task.got \cup ids
  IN
  /\ cache' = cache \cup ids
  /\ IF want = {} /\ t \in Job
       THEN /\ EndUpdate(task.last_block_id, got)
            /\ tasks' = [tasks EXCEPT ![t] = None]
       ELSE /\ tasks' = [tasks EXCEPT
                 ![t] = [task EXCEPT !.want = want, !.got = got,
                                     !.step = IF want = {} THEN "done" ELSE "ledger",
                                     !.len = 0, !.archived = 0]]
            /\ UNCHANGED <<index, last_block_id>>

LedgerReply(t) ==
  /\ tasks[t] # None
  /\ tasks[t].step = "answered"
  /\ IF InArchive(tasks[t]) = {}
       THEN Absorb(t, tasks[t])
       ELSE /\ tasks' = [tasks EXCEPT ![t].step = "archive"]
            /\ UNCHANGED <<cache, index, last_block_id>>
  /\ UNCHANGED <<ledger, archived, failures>>

(* Only now the live blocks of the chunk are taken, too. *)
ArchiveReply(t) ==
  /\ tasks[t] # None
  /\ tasks[t].step = "archive"
  /\ Absorb(t, tasks[t])
  /\ UNCHANGED <<ledger, archived, failures>>

(* A failed call traps the task: what it cached before stays. *)
CallFails(t) ==
  /\ failures < MaxFailures
  /\ tasks[t] # None
  /\ tasks[t].step \in {"ledger", "archive"}
  /\ failures' = failures + 1
  /\ tasks' = [tasks EXCEPT ![t] = None]
  /\ UNCHANGED <<ledger, archived, cache, index, last_block_id>>

(* The caller receives the answer. *)
Return(caller) ==
  /\ tasks[caller] # None
  /\ tasks[caller].step = "done"
  /\ tasks' = [tasks EXCEPT ![caller] = None]
  /\ UNCHANGED <<ledger, archived, cache, index, last_block_id, failures>>

-----------------------------------------------------------------------------
(* The ledger canister.                                                    *)

AppendBlock(block) ==
  /\ Len(ledger) < MaxBlocks
  /\ ledger' = Append(ledger, block)
  /\ UNCHANGED <<archived, cache, index, last_block_id, tasks, failures>>

ArchiveBlock ==
  /\ archived < Len(ledger)
  /\ archived < MaxArchived
  /\ archived' = archived + 1
  /\ UNCHANGED <<ledger, cache, index, last_block_id, tasks, failures>>

Progress(t) == LedgerAnswers(t) \/ LedgerReply(t) \/ ArchiveReply(t)

Next ==
  \/ \E block \in Block : AppendBlock(block)
  \/ ArchiveBlock
  \/ \E job \in Job : UpdateIndex(job)
  \/ \E caller \in Caller, q \in Query : GetBlocks(caller, q)
  \/ \E t \in Job \cup Caller : Progress(t) \/ CallFails(t)
  \/ \E caller \in Caller : Return(caller)

(* The job fires every minute, and the IC answers every call.              *)
Spec ==
  /\ Init
  /\ [][Next]_vars
  /\ WF_vars(\E job \in Job : UpdateIndex(job))
  /\ \A job \in Job : WF_vars(Progress(job))

-----------------------------------------------------------------------------
(* Properties.                                                             *)

(* Every variable stays in the set its Rust type allows. *)
IndexTypeOK ==
  /\ ledger \in Seq(Block)
  /\ Len(ledger) <= MaxBlocks
  /\ archived \in 0..Len(ledger)
  /\ cache \subseteq BlockId
  /\ index \in [Key -> [BlockId -> Nat]]
  /\ last_block_id \in Nat
  /\ tasks \in [Job \cup Caller -> Task \cup {None}]
  /\ failures \in 0..MaxFailures

(* The index never claims to be ahead of the log, although jobs overwrite  *)
(* last_block_id with a count that began from an older value.              *)
NeverAhead == last_block_id <= Len(ledger)

(* Every block below last_block_id is listed under its accounts, its type  *)
(* and its token: overlapping jobs, cached blocks in the middle of a       *)
(* batch, archival during a job and failing calls leave no gap.            *)
IndexComplete ==
  \A i \in 0..(last_block_id - 1) :
    \A k \in Key : Listings(ledger[i + 1], k) > 0 => index[k][i] > 0

(* The first page of a query misses no block that matches its filters and  *)
(* was indexed when it came in, although overlapping jobs list blocks      *)
(* again and pages are cut from the lists with their duplicates.  Only the *)
(* end of a full page leaves blocks out: a page shorter than the length    *)
(* asked for tells its reader that there is no more.                       *)
AnswersComplete ==
  \A c \in Caller :
    tasks[c] # None /\ tasks[c].step = "done" =>
      LET q == tasks[c].query
          page == tasks[c].page
          LeftOut(i) == Len(page) = q.length /\ \A n \in DOMAIN page : page[n] <= i
      IN
      q.filters # <<>> /\ q.start = 0 =>
        \A i \in 0..(tasks[c].last_block_id - 1) :
          (\A k \in DOMAIN q.filters : Listings(ledger[i + 1], q.filters[k]) > 0)
            => i \in tasks[c].got \/ LeftOut(i)

(* When the log stops growing and calls stop failing, the index reaches    *)
(* its end and stays there, whatever the jobs still in flight overwrite.   *)
IndexCatchesUp == <>[](last_block_id = Len(ledger))

(* An answer, which gives the blocks it got in the order of the page,      *)
(* lists every block once: its ids strictly ascend (descending answers are *)
(* the reverse).                                                           *)
AnswersStrictlyAscend ==
  \A c \in Caller :
    tasks[c] # None /\ tasks[c].step = "done" =>
      LET page == tasks[c].page
          given == {n \in DOMAIN page : page[n] \in tasks[c].got} IN
        \A m, n \in given : m < n => page[m] < page[n]
=============================================================================
