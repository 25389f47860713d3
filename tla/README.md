# A verification development of origyn-nft

TLA+ specifications of the two canisters of this repository, `core_nft` (an
ICRC-7/ICRC-37 NFT collection with media uploads) and `index_icrc7` (an index
over its block log), and of the command line tool's upload, with TLC configurations for small instances and TLAPS
proofs for all instances.

## 1. Inventory

| component | code | state | operations | where |
|---|---|---|---|---|
| token ledger | `core_nft`: `updates/management.rs`, `updates/icrc7.rs`, `state.rs` | `tokens_list`, `tokens_list_by_owner`, `last_token_id`, `__METADATA`, collection settings | `mint`, `update_nft_metadata`, `update_collection_metadata`, `burn_nft`, `icrc7_transfer` | `NftLedger` |
| approvals | `updates/icrc37.rs` | `__TOKEN_APPROVALS`, `__COLLECTION_APPROVALS` | approve, revoke (token and collection), `icrc37_transfer_from` | `NftLedger` |
| block log | library `bity_ic_icrc3` | blocks, archives | `icrc3_add_transaction`, `icrc3_get_blocks` | replay in `NftLedger`, blocks in `BlockIndex` |
| admission | `guards.rs` 47-73, `icrc37.rs` 21-48, `icrc7.rs` 38-65, `utils.rs` | `sliding_window_guards`, `tx_window`, `permitted_drift`, `max_memo_size` | rate limit, memo size, `created_at_time`, what the log takes for a duplicate | `Requests` |
| management lock, permissions | `guards.rs`, `types/permissions.rs` | `principal_guards`, `user_permissions` | `GuardManagement`, grant, revoke | `Uploads` |
| uploads | `updates/management.rs` 373-659, `types/sub_canister.rs` | `internal_filestorage`, the manager of storage canisters, `media_redirections`, `ASSET_ROUTER` | `init_upload`, `store_chunk`, `finalize_upload`, `cancel_upload` | `Uploads` |
| garbage collector | `jobs/upload_garbage_collector.rs` | none of its own | a daily run | `Uploads` |
| storage canister | only a wasm in the repository | uploads, files | external | `Uploads` |
| install, upgrade | `lifecycle/` | | `init`, `pre_upgrade`, `post_upgrade` | `Init`, `Uploads!Upgrade` |
| index jobs | `index_icrc7`: `jobs.rs`, `blocks.rs`, `index.rs`, `cache.rs` | `__INDEX`, `__CACHE`, `last_block_id` | `update_index` every minute | `BlockIndex` |
| index queries | `update/get_blocks.rs` | reads the above, fills the cache | `get_blocks` | `BlockIndex` |
| queries | `queries/icrc7.rs`, `queries/icrc37.rs` | none of their own | `icrc7_tokens`, `icrc7_tokens_of`, `icrc37_get_token_approvals`, `icrc37_get_collection_approvals`, `icrc7_balance_of` | `Queries`, `NftLedger` |
| command line tool | `cmdline/src/` | none that lasts | `upload_file`: one call per chunk | `UploadTool` |
| HTTP, codecs, cycles, UI, scripts | | | | see section 7 |

**How they interact.** A message of a canister runs atomically up to its next
`await`; at an `await` it gives way to other messages. The ledger's handlers do
not await: each call is one step. The upload handlers await the storage
canisters and the management canister, under a lock that admits one management
call at a time; the garbage collector awaits without the lock. The index awaits
the ledger and its archives, without any lock, from timer jobs and from
`get_blocks` calls that overlap freely. A trap undoes what was done since the
last `await`, and no more. Clients repeat requests whose answer they did not get,
read lists in pages of one call each, and, as the command line tool does, make
several calls for one purpose, between which anybody else's calls run.

**What is hard.** Two indices over tokens maintained by hand in five methods; a
log that may refuse a block half way through a batch; approvals that vanish
without a block; copies of state (an entry, a clone of the manager, a counter,
a list of files) that are read before an `await` and written or used after it;
a request split in chunks while the log grows and is archived; requests that
arrive twice, late, or at the edge of a window; lists that change between two
pages; a client that does not read its answers. `PROJECT.json`
lists them as hazards, each at its line with the properties that cover it.

**What makes each component correct.** The ledger: the indices agree, the log
yields the state, ids are issued once and in order. Approvals: those in force are those
the log yields, given by the present owner, within the limit. Uploads: the lock
is exclusive and always released, permissions hold throughout a call, entries
stay on known canisters, what is published was finalized and stays so as far as the
core has a say. Index: never ahead of the
log, no gaps, complete answers without repetition, catching up in the end.
Requests: the limit on calls holds in every period, a repeated request is executed
once. Queries: a reader misses nothing that stayed and hears of no token twice. Tool: what it reports is so.

## 2. Modules

| module | content |
|---|---|
| `OwnershipRegistry` | the abstract promise about tokens: `Issue`, `Move`, `Retire`, `SetCap` |
| `NftLedger` | tokens, approvals, metadata, log; refines `OwnershipRegistry` (`Registry`) |
| `Requests` | extends `NftLedger`: sliding window, limits, repeated and late requests, the log's memory |
| `Queries` | extends `Requests`: the listings and a reader who walks one page by page |
| `Uploads` | lock, permissions, uploads, storage canisters, garbage collector, upgrade |
| `UploadTool` | extends `Uploads`: the tool's `upload_file` as one client among the others |
| `BlockIndex` | ledger log and archive as seen by the index, jobs, cache, lists, queries |
| `MCNftLedger`, `MCQueries`, `MCUploads`, `MCUploadTool`, `MCBlockIndex` | small instances for TLC |
| `NftLedger_proofs`, `NftApprovals_proofs`, `Requests_proofs`, `Queries_proofs`, `Uploads_proofs`, `UploadTool_proofs`, `BlockIndex_proofs`, `BlockAnswers_proofs` | theorems |

`PROJECT.json` maps every definition to the lines it stands for. In each
specification a few operators are faulty variants (`BurnNftUnlogged` before
`BurnNft`): substituting one for the real definition makes the named property
fail, which shows that the property depends on that piece of code.

**`NftLedger`.** `tokens_list[id]` is the owner of a token or `None`;
`tokens_list_by_owner[a][id]` is how often `id` occurs in the vector of `a`, so
that a double listing is visible; approvals are partial functions from spenders
to `[from, expires_at]`, and `None` when the stable map has no entry. The log
is represented by its replay: the owners and approvals a reader of all blocks
ends up with. Batches run item by item without rollback
(`atomic_batch_transfers` only refuses batches that are too long), so an item
is an action; `mint` treats its batch as a whole and is one action, with the
alternative that the log refuses block k+1. `TransferFrom` has the alternative
that the call fails after it removed expired approvals. Calls that fail and
change nothing are stuttering steps.

**`Requests`.** A request is a record with the arguments of its call, its memo
(a size) and its `created_at_time`. The requests of a `workload` can be delivered any
number of times in any order, which covers a client that repeats a request and
a message that is late. Each handler is the window, then the handler of
`NftLedger` under its checks of memo and time and the log's duplicate
detection, or a refusal that leaves the ledger alone and still counts for the
window. `guard_sliding_window` keeps the calls that are recent enough *and* adds
the new one; `admitted` and `transactions` are histories for the properties.
`icrc37_revoke_token_approvals` consults the window for the first item of its batch
only, so an item may also go uncounted. `StartWith` is a minted
collection: `log_window` is what `init` makes of the installed `tx_window` (`LogWindowOf`),
`limits_so_far` a history of the limits. `UpdateLimits` is
`update_collection_metadata`, which changes the limits of the canister and not the
window of the log.

**`Queries`.** `StampApprovals` gives approvals their `created_at`, by which they
are listed. Each query is an operator over the present state. A page of tokens is the
sequence of ids after `prev`, each at the place its rank among them gives it
(`Ascending`); approvals of the same time have no order between them, so a page of
approvals is one of a set. `walk` is a
reader of one listing: `Begin`, then one `Read` per page with the last item as
`prev`, until a page is empty. `throughout` holds the items nobody has touched since `Begin`.

**`Uploads`.** A management call that awaits is a record in `calls`, with what
the handler keeps over the await: the path, the canister, the timestamp it read,
the clone of the manager and the loop over its canisters. `StartOnUpload` is
the part of `store_chunk`, `finalize_upload` and `cancel_upload` before the
await; `StorageExecutes` is the request at the storage canister, which executes it
or answers with an error; `SizeReply`, `CreateReply` and the four `...Reply` actions
are what follows each await. `created` holds the canisters that exist, whether the
manager knows them or not. `FinalizeUploadTraps` is the reply in which
`http.rs` 48-50 traps on the redirection. `Accepted` says when the storage canister executes a request: that it
refuses to store to or finalize a finalized upload its interface says; that it refuses to cancel one it
does not (`can.did` 9 has only `UploadNotInitialized`), so both answers are in the model. `GcStart`, `GcLooksAt` and `GcCancels` are the garbage
collector, which cancels whatever it copied, finalized files included; `collected` is a
history of the finalized files it had cancelled. `Upgrade` is an upgrade of the stopped canister.

**`UploadTool`.** `tool` is the run of the tool: `None`, the call it waits for, or
"between" two calls. The answer of `init_upload` and `store_chunk` is not read
(`calls/uploads.rs` 10-32), so an error in it leads to the next call like an Ok
(`GetsError`); only a failed call (`GivesUp`) and the answer to `finalize_upload` end a
run. `reported` holds the paths whose URL it printed. All other principals, and other
runs of the tool, are `Others`: the clients of `Uploads`.

**`BlockIndex`.** A job or a query in flight is a record in `tasks`. `Fetch` is
the look into the cache, `NextChunk` the grouping of missing ids,
`LedgerAnswers` the moment the ledger executes the request (the answer carries the
log's length and archived part at that moment), `LedgerReply` and
`ArchiveReply` the continuation. `Absorb` caches a chunk and, after the last one, ends
the task: a job lists its blocks and overwrites `last_block_id`. `CallFails` traps
the task and keeps what it cached. The lists count occurrences, so that
repetitions are visible, and pages are cut from them copy by copy. The answer of the ledger to a chunk
is taken to be full as far as its log goes: the limits of the log library's answers
are not in the repository (`init.rs` 162-172 of `core_nft` configures it).

## 3. Runs

| run | instance | shows |
|---|---|---|
| `ledger_tokens` | 3 accounts, the anonymous one among them, 2 ids, batches up to 2, caps 1 and 2, 1 metadata entry, approvals without expiry | `TypeOK`, `ByOwnerConsistent`, `LogReplaysOwners`, `ApprovalsOnIssuedTokens`, `MetadataKeptByMint`, `ImplementsRegistry` |
| `ledger_approvals` | 3 accounts, two of them of one principal, 1 id, expiry at 1, clock up to 1, limit 1 | `LogReplaysApprovals`, `ApprovalsWithinLimit` |
| `ledger_burned_balance` | as `ledger_tokens` | counterexample to `BalanceMatchesTokens` |
| `ledger_stale_approvals` | as `ledger_approvals` | counterexample to `ApprovalsOfPresentOwner` |
| `uploads_calls` | 2 principals, 2 paths, 1 canister | `TypeOK`, `LockMatchesCalls`, `CallsStayAuthorised`, `LockReleased` |
| `queries` | 4 accounts, two of them of one principal, 3 ids, 5 workloads of requests, window of 2 calls in 2, installed with no `tx_window`, 1 or 2, 2 drifts, pages of 1 | `RequestsTypeOK`, `RateLimited`, `ExecutedOnce`, `WalkMissesNothing`, `TokensListedOnce` |
| `requests_unconfigured` | the workload `Retries`, no limit configured | counterexample to `NoDuplicates` |
| `uploads_files` | the tool and 1 principal, 2 paths with one route, 2 canisters | `UploadsOnKnownCanisters`, `RedirectionsServed`, `RouterServesRedirections`, `ReportedIsPublished`, `FinalizedForGood` |
| `uploads_collected` | as `uploads_files` | counterexample to `UploadsBacked` |
| `index_jobs` | 2 jobs, 1 caller, 3 blocks of which 1 may be archived, batch 3, pages of 3, 1 failure | `IndexTypeOK`, `NeverAhead`, `IndexComplete`, `AnswersComplete`, `IndexCatchesUp` |
| `index_spender`, `index_overlap` | 1 job and a block of a spender; 2 jobs and 2 mints | counterexamples to `AnswersStrictlyAscend` |

**Bounds.** Two ids are enough for a batch, for an id that is reused after a
failed mint, and for an owner who keeps one token when another moves. Two
accounts with a third that differs only by subaccount, or is anonymous, are
the cases the guards tell apart. One approval and a limit of one bring every
insertion to the limit. One clock step separates "before" and "at" an expiry,
and a file younger or older than `DayInMs`. Two paths with one route are the
two spellings (`a.png`, `/a.png`) the code normalises; two canisters are one
that serves and one that is passed over, or created and forgotten. With three blocks a
batch has a first, a middle and a last block, so that a cached block in the
middle splits it into two chunks; two jobs and one query give every kind of overlap, and list
a block up to three times, so that copies of two blocks overflow a page. `MaxArchived` bounds the
blocks that move to the archive: one is enough for a request that goes to both.
The tool is run for one path; the two spellings differ in nothing the code tells
apart, so the other would only repeat it. In `queries` each behaviour draws its requests from one
workload, with a bound on the clock of its own (`until`): `Retries` and
`Regrants` have transfers, approvals and revocations with late copies and
`until` past the window, so that copies arrive on time, too early and too late;
`CollectionRegrants` does the same for the collection; `Moves` lets tokens leave an account,
return and be burned while the clock stands still, since the order of tokens
does not depend on it; `Grants` gives three spenders approvals at two times, renews
and revokes them. A page of one item puts a change between any two items. A log whose
millisecond has 4 nanoseconds (`NanosPerMilli`) outlasts a `tx_window` of 1 with the drift of 1 at both
ends by the least there is; when the window is widened to 2 it does not, and `ExecutedOnce` says nothing more of that
behaviour. Two
calls in a window of two are the least with calls of different age in it, and with one that is dropped
while another is kept.
All bounds are CONSTANTS and are named as bounds where they are declared.
In `NftLedger` `Spender`, `Expiry` and `MaxTokenId` bound what a run tries.

**The violations** are disagreements between the code and its tests. They are
described as findings in `PROJECT.json`: approvals survive `icrc7_transfer`; a burned
token stays in the balance; the garbage collector cancels fresh uploads and leaves
their entries; `get_blocks` answers a block twice after a transfer of a spender to
himself, or after two overlapping jobs; a collection installed without a `tx_window`
executes a late copy of a transfer again.

## 4. Fairness

`Uploads` assumes weak fairness of the steps of calls in flight
(`WF_vars(CallProgress)`): the Internet Computer answers every request,
if only with a rejection, and runs the callback. Nothing makes callers, collector
or clock act. There is at most one call in flight (`LockMatchesCalls`), so fairness of
the disjunction is fairness of that call. `LockReleased` also needs that
`init_upload` does not try canisters for ever, which its loop guarantees.

`BlockIndex` assumes weak fairness of each job's continuation, for the same
reason, and of starting some job: the timer fires every minute, forever. It is not
assumed that a particular job slot starts, that the log grows or that calls
succeed; that the log stops growing and calls stop failing comes from the bounds
`MaxBlocks` and `MaxFailures`.

## 5. Proofs

The theorems hold for every value of the constants that satisfies the
assumptions declared in the modules (`LedgerAssumption`, `UploadsAssumption`,
`RequestsAssumption`, `QueriesAssumption`, `WorkloadsAssumption`,
`ToolAssumption`, `BlockIndexAssumption`); TLC evaluates each in the runs of its module.
They say what the Rust types say (`None` is not an account, ids and limits are naturals) and that a workload consists of
requests, limits and listings, with these of substance: the limit on approvals is at least
1, as `init.rs` 120-122 requires; accounts are finitely many; and a reader asks for pages of
at least one item.

* `NftLedger_proofs` proves the invariants one on top of the other. `TypeOK` is
  inductive, and so is `ByOwnerConsistent` given `TypeOK`: its clause on ids not
  issued yet is what makes it so, since a mint adds one listing to an id, which must
  have had none. It also implies that a token that exists was issued
  (`LiveIsIssued`), on which the replay of the log rests: the blocks a failed mint
  left behind concern ids no token has. The theorems are `TypeCorrect`,
  `IndicesConsistent`, `LogTellsOwners`, `NoApprovalsBeforeMint`,
  `MintKeepsMetadata`, and `LedgerImplementsRegistry`: every ledger step is
  `Issue`, `Move`, `Retire`, `SetCap` or a stutter of `OwnershipRegistry`.
* `NftApprovals_proofs` adds `ApprovalsLimited` (each map is finite and each
  insertion is guarded) and `LogTellsApprovals`. The latter rests on lemmas
  about maps of approvals: an expired approval stays expired, so dropping one,
  and putting or revoking others, commutes with the restriction to those alive.
* `Requests_proofs` shows first that every request, repeated, late or refused, is a ledger
  step or changes nothing of the ledger (`RequestsTakeLedgerSteps`). The collection a workload
  starts from, minted and granted before, satisfies the ledger's invariants, so they hold
  behind the admission too (`RequestsKeepLedgerPromises`). `RequestsAreTyped` is inductive.
  `RateIsLimited` rests on what the window maintains (`WindowInv`): the calls it
  keeps are among those let through, no more than the limit, and those it no longer keeps are
  at least as old as it is long. So of the calls of a period that ends now all are kept, and a period that
  ended earlier has seen no call since. `RequestsExecutedOnce` is about
  the states in which the log has outlasted the requests, under all limits so far, discussed
  below; it rests on an invariant of the log: a transaction with a `created_at_time` was on time under
  some limits of the past when it was executed, and the next copy that is on time finds it in
  the log's memory.
* `Queries_proofs`: a reader changes nothing of what `Requests` specifies
  (`QueriesChangeNothing`), so its theorems hold with readers. `WalkComplete` and `ListedOnce` use `QueriesInv`, whose part about the reader says
  what `prev` stands for. Of tokens it has got all up to `prev` that were there
  throughout, and none beyond; a page is an initial segment of the ids after `prev`
  whatever happened since. Of approvals it has got `prev` and all later than `prev`
  that were there throughout. When `prev` is revoked the next page starts from the
  first item; when it is given again it comes among the first, as do all approvals put or renewed since,
  because they bear the present time, and no approval a later one (`CreatedInv`). Either way the
  reader goes back, which may repeat approvals but skips none.
* `UploadTool_proofs` proves `ReportedIsPublished`. `ToolInv` adds to `UploadsInv` that the call
  the tool waits for is the one in flight, which the lock guarantees,
  so an Ok answer to `finalize_upload` is of an upload on the
  tool's path, whoever began it, and that what was reported is
  finalized or was collected since. `ToolImplementsUploads` states that the
  composition behaves as `Uploads`, so the theorems of `Uploads_proofs` hold with the tool.
* `Uploads_proofs` uses `UploadsInv`: type invariant, lock, permissions, the three
  invariants on files, and `CallsConsistent`, which says what the one call in
  flight relies on when its reply is handled: for `init_upload`, that its path is still
  free and its clone of the manager misses no canister; for the other methods, that
  the entry is still listed and not finalized, on a canister the manager
  knows; and that a finalization answered "ok" has been executed. Without
  it a reply could insert anything; that it is inductive rests on the lock.
  The theorems are `TypeCorrect`, `ManagementIsExclusive`,
  `NoCallLosesItsPermission`, `ManagerKnowsUploads`, `PublishedFilesStay`,
  `RouterAgrees` and `FinalizedEntriesStay`.
* `BlockIndex_proofs` uses `IndexInv`: every job began at a block below which
  everything is listed (`Listed`), however `last_block_id` has moved since, and has all
  of its batch but the ids it still misses (`JobOK`). The key lemma is `ChunkAnswered`: every chunk
  but the last is followed by a cached block, which was in the log when it was
  cached, so the ledger answers the chunk in full. Hence what a job has got in
  the end is an initial segment of its batch, and its count of blocks leads to the
  next one: `IndexNotAhead` and `IndexHasNoGaps`. `OneJobListsExactly` has the hypothesis that
  there is one job: then each block below `last_block_id` is listed exactly as often
  as `add_block_to_index` lists it, and no other, so a job that fails after it cached some
  blocks and is repeated lists nothing twice.
* `BlockAnswers_proofs` is about `get_blocks`. `Sorted`, which turns the counted lists into
  a sequence, is a recursive function; lemmas about it (`SortedHasAll`) are proved by least
  counterexample, from the well-foundedness of the naturals: it ascends, holds exactly what
  is listed, and ascends strictly if nothing is listed twice. `AnswersInv` adds to
  `IndexInv` what a caller's task has (`CallerOK`): every matching block that was indexed when the
  query came in is got, still asked for, or lies behind a full first page (`LeftOut`), and the answer it waits for is of a log at
  least that long. The theorems are `BlockIndexIsTyped` and `AnswersMissNothing`.
  `AnswersAscend` is the counterpart of the two findings about `get_blocks`: with
  one job, and no block that names an account twice, every answer ascends strictly. So these
  are the only causes; archival, failing calls, the cache and queries that overlap with
  the job and each other are not.

**What single execution takes.** `LogOutlastsRequests`: the log remembers
transactions for longer than a request can be on time, under the limits configured so far. `init` gives the log
the installed `tx_window`, read as milliseconds (it is nanoseconds elsewhere), and 0 when none is installed
(`init.rs` 109-112); `update_collection_metadata` changes the canister's window and not
the log's. Installed with a window, the factor of a million gives the log room to spare,
until the window is raised a million times or the drift is (`init.rs` 88 puts a size in bytes
in its place). Installed without one, which is the default, the log
remembers nothing, and a repeated transfer that finds the token back in its place
is executed again: the run `requests_unconfigured`. The predicate is part of the
property, not an assumption about the constants, so the theorem is about every installation and says
nothing of that one. `icrc7_transfer` ignores `from_subaccount`, so the late copy of a transfer
that finds the token in another account of the same principal is a new transaction for
the log; `ExecutedOnce` therefore counts executions out of one account, and the run has a
principal with two.

**What keeps a published file.** The core never cancels a finalized upload itself
(`management.rs` 619-622), but the collector sends `cancel_upload` for one without a look at its
state. Whether the file survives that is up to the storage canister, whose interface names no such
refusal. `RedirectionsServed` and `ReportedIsPublished`, and their theorems, therefore say that
the file behind an address was finalized, and is still unless the collector
cancelled it (`FinalizedUnlessCollected`).

**What the reader may miss.** `WalkMissesNothing` excepts approvals with the same
`created_at` as another: they are listed in the order of a hash map, which may differ from
page to page, and TLC finds one that is missed without the exception.

**Only model-checked.** `LockReleased` and `IndexCatchesUp`, which are liveness
properties and beyond the prover. All other properties of the passing runs are proved; those of
the violation runs are false.

## 6. Plan

Done: the ledger with its approvals, the requests that reach it, its listings,
uploads with lock and collector, the tool, the index, and the proofs of all their
safety properties. Next, in this order:

1. `group_consecutive_block_ids` against a reference definition: the chunks a job asks for
   are consecutive, disjoint, no longer than the code allows and cover what it misses.
2. An upgrade with calls in flight, to state what stopping the canister is needed for.
3. The metadata in the log: `7update_token` blocks and their replay.

## 7. Not modelled

`icrc37_is_approved`, which does not tell what `transfer_from` accepts: it looks collection approvals up under the spender, not the owner, whatever their expiry
(`queries/icrc37.rs` 183), takes any `from_subaccount`, and answers for burned tokens. That the two agree is no property
of this code. Queries that return one value: the settings of the collection, metadata, supported
standards, block types, consent messages. The conversions of metadata and values
(`value_custom.rs`, `wrapped_values.rs`), which are functions of their argument and keep no state; certification and
headers of HTTP answers; cycles funding; logging. Of the command line tool the
commands that make a single call (mint, permissions) and those that make or check a
metadata text. The web interface, scripts and generated interface files: no
state changes of their own. The position of an item in a batch, except where the code
treats the first one differently; an empty batch, which changes nothing. The
storage canister, the log, its archive and the sub-canister manager are libraries or
binaries outside the repository; they are modelled as externals, as far as the
code relies on them. The log's duplicate detection, also a library, is modelled as a
memory of transactions over a window; an upgrade of a canister with calls in flight, which
stopping it first prevents, is left out.
