------------------------------ MODULE NftLedger ------------------------------
(***************************************************************************)
(* The ledger of the core_nft canister: tokens, their owners, ICRC-37      *)
(* approvals, and the ICRC-3 block log the handlers write.                 *)
(*                                                                         *)
(* Every handler modelled here runs without an await, so one call is one   *)
(* step.  A call on a batch handles its items one after the other, each    *)
(* with its own result and no rollback of the earlier ones: an action is   *)
(* one item (mint, which logs and stores its batch as a whole, is one      *)
(* action).  A call that returns an error and leaves the state alone is a  *)
(* stuttering step; the error paths that do change something are part of   *)
(* their action.                                                           *)
(*                                                                         *)
(* Abstracted: memo and timestamps of a request (a request whose           *)
(* created_at_time or memo is refused changes nothing, and its timestamp   *)
(* is not stored), the permission guard of mint, update_nft_metadata and   *)
(* update_collection_metadata, the management lock those methods and       *)
(* burn_nft take and release within the call, and the rate limiter in      *)
(* front of the ICRC-7/ICRC-37 calls, which can only refuse a call.        *)
(*                                                                         *)
(* An operator just before the one it resembles (RevokedToNone before      *)
(* Revoked) is a faulty variant, which the properties rule out.            *)
(***************************************************************************)
EXTENDS Integers, FiniteSets, Sequences

CONSTANTS
  Account,        \* accounts: records [owner, subaccount]
  Spender,        \* the accounts approvals are given to in a run, a bound
  Anonymous,      \* the anonymous principal
  None,           \* Option::None: no owner, no map, no expiry, no spender, no subaccount
  MaxTokenId,     \* bound on the ids a run issues
  MaxBatch,       \* bound on the tokens of one mint call
  MaxTime,        \* bound on the clock
  Expiry,         \* the expires_at values approvals are given, a bound
  MaxApprovals,   \* max_approvals_per_token_or_collection, fixed at install
  SupplyCaps,     \* the supply caps the collection is configured with
  BatchSizes,     \* the max_update_batch_size values it is configured with
  MetadataEntry   \* metadata entries, each one with a key of its own

AnonymousAccount == [owner |-> Anonymous, subaccount |-> None]

TokenId == 1..MaxTokenId
Time == 0..MaxTime

Approval == [from : Account, expires_at : Expiry]

(* A map of approvals, keyed by the spender. *)
ApprovalMap == UNION {[S -> Approval] : S \in SUBSET Account}
NoApprovals == [s \in {} |-> None]

Settings == [supply_cap : SupplyCaps, max_update_batch_size : BatchSizes]
MintRequest == [token_owner : Account, metadata : SUBSET MetadataEntry]

ASSUME LedgerAssumption ==
  /\ None \notin Account
  /\ None \notin ApprovalMap
  /\ None \notin Nat
  /\ IsFiniteSet(Account)
  /\ Spender \subseteq Account
  /\ MaxTokenId \in Nat \ {0}
  /\ MaxBatch \in Nat
  /\ MaxTime \in Nat
  /\ Expiry \subseteq Nat \cup {None}
  /\ MaxApprovals \in Nat \ {0}
  /\ SupplyCaps \subseteq Nat
  /\ SupplyCaps # {}
  /\ BatchSizes \subseteq Nat
  /\ BatchSizes # {}

VARIABLES
  tokens_list,            \* tokens_list[id]: the token's owner, None when there is no such token
  tokens_list_by_owner,   \* tokens_list_by_owner[a][id]: how often id is listed under account a
  last_token_id,          \* the id the next mint starts from
  token_approvals,        \* token_approvals[id]: a map of approvals, or None
  collection_approvals,   \* collection_approvals[a]: a map of approvals, or None
  metadata,               \* metadata[id]: the entries stored under id
  settings,               \* the collection's supply cap and batch limit
  log,                    \* what replaying the block log from its start yields
  now                     \* the IC clock

tokenVars == <<tokens_list, tokens_list_by_owner, last_token_id>>
approvalVars == <<token_approvals, collection_approvals>>
vars == <<tokens_list, tokens_list_by_owner, last_token_id, token_approvals,
          collection_approvals, metadata, settings, log, now>>

-----------------------------------------------------------------------------
(* Maps of approvals.                                                      *)

MapOf(m) == IF m = None THEN NoApprovals ELSE m

Put(m, spender, approval) ==
  [s \in DOMAIN m \cup {spender} |-> IF s = spender THEN approval ELSE m[s]]

Drop(m, spender) == [s \in DOMAIN m \ {spender} |-> m[s]]

(* Revoking names one spender, or none to drop them all. *)
RevokedToNone(m, spender) == IF spender = None THEN None ELSE Drop(m, spender)
Revoked(m, spender) == IF spender = None THEN NoApprovals ELSE Drop(m, spender)

Expired(approval, t) == approval.expires_at # None /\ approval.expires_at <= t

Live(m, t) == [s \in {r \in DOMAIN m : ~Expired(m[r], t)} |-> m[s]]

-----------------------------------------------------------------------------
(* The block log.  It is represented by its replay: the owners and         *)
(* approvals a reader of all blocks so far ends up with.                   *)

Replay == [owner : [TokenId -> Account \cup {None}],
           token_approvals : [TokenId -> ApprovalMap],
           collection_approvals : [Account -> ApprovalMap]]

(* How a reader takes one block into account. *)
ApplyBlock(r, b) ==
  CASE b.op = "7xfer" -> [r EXCEPT !.owner[b.tid] = b.to]
    [] b.op = "7burn" -> [r EXCEPT !.owner[b.tid] = None]
    [] b.op = "37xfer" ->
         [r EXCEPT !.owner[b.tid] = b.to,
                   !.token_approvals[b.tid] = NoApprovals,
                   !.collection_approvals[b.from] = NoApprovals]
    [] b.op = "37approve" ->
         [r EXCEPT !.token_approvals[b.tid] =
            Put(@, b.spender, [from |-> b.from, expires_at |-> b.exp])]
    [] b.op = "37approve_coll" ->
         [r EXCEPT !.collection_approvals[b.from] =
            Put(@, b.spender, [from |-> b.from, expires_at |-> b.exp])]
    [] b.op = "37revoke" -> [r EXCEPT !.token_approvals[b.tid] = Revoked(@, b.spender)]
    [] b.op = "37revoke_coll" -> [r EXCEPT !.collection_approvals[b.from] = Revoked(@, b.spender)]
    [] OTHER -> r

(* The 7mint blocks of the ids in Ids; to[id] is the new owner of id. *)
ApplyMints(r, Ids, to) ==
  [r EXCEPT !.owner = [id \in TokenId |-> IF id \in Ids THEN to[id] ELSE @[id]]]

(* icrc3_add_transaction returns Ok: the block is appended. *)
icrc3_add_transaction(b) == log' = ApplyBlock(log, b)

-----------------------------------------------------------------------------
(* The two indices over tokens.                                            *)

OwnsOrUnknown(account, id) == tokens_list[id] \in {account, None}
Owns(account, id) == tokens_list[id] = account

TokenExists(id) == tokens_list[id] # None

LiveTokens == {id \in TokenId : tokens_list[id] # None}

(* tokens_list_by_owner[to].push(id) *)
Push(byOwner, to, id) == [byOwner EXCEPT ![to][id] = @ + 1]

(* tokens_list_by_owner[from].retain(|x| x != id) *)
RetainAll(byOwner, from, id) == byOwner
Retain(byOwner, from, id) == [byOwner EXCEPT ![from][id] = 0]

MoveToken(id, to) ==
  /\ tokens_list' = [tokens_list EXCEPT ![id] = to]
  /\ tokens_list_by_owner' = Retain(Push(tokens_list_by_owner, to, id), tokens_list[id], id)

-----------------------------------------------------------------------------
Init ==
  /\ tokens_list = [id \in TokenId |-> None]
  /\ tokens_list_by_owner = [a \in Account |-> [id \in TokenId |-> 0]]
  /\ last_token_id = 1
  /\ token_approvals = [id \in TokenId |-> None]
  /\ collection_approvals = [a \in Account |-> None]
  /\ metadata = [id \in TokenId |-> {}]
  /\ settings \in Settings
  /\ log = [owner |-> [id \in TokenId |-> None],
            token_approvals |-> [id \in TokenId |-> NoApprovals],
            collection_approvals |-> [a \in Account |-> NoApprovals]]
  /\ now = 0

Tick ==
  /\ now < MaxTime
  /\ now' = now + 1
  /\ UNCHANGED <<tokens_list, tokens_list_by_owner, last_token_id, token_approvals,
                 collection_approvals, metadata, settings, log>>

(* The optional fields of the request overwrite the settings one by one;   *)
(* nothing relates the new cap to the tokens that exist.                   *)
UpdateCollectionMetadata(new) ==
  /\ settings' = new
  /\ UNCHANGED <<tokens_list, tokens_list_by_owner, last_token_id, token_approvals,
                 collection_approvals, metadata, log, now>>

current_token_id_by_supply == Cardinality(LiveTokens) + 1
current_token_id == last_token_id

NewIds(reqs) == current_token_id .. (current_token_id + Len(reqs) - 1)

(* The metadata of the whole batch is stored first, the blocks are logged  *)
(* one by one, and the tokens are created once all of them are in the log. *)
(* When the log refuses block k+1 the call returns an error: the k blocks  *)
(* before it and the metadata stay, the tokens are not created and the     *)
(* next mint starts from the same id.                                      *)
Mint(reqs) ==
  LET Ids == NewIds(reqs)
      request == [id \in Ids |-> reqs[id - current_token_id + 1]]
      to == [id \in Ids |-> request[id].token_owner]
  IN
  /\ Len(reqs) <= settings.max_update_batch_size
  /\ Cardinality(LiveTokens) + Len(reqs) <= settings.supply_cap
  /\ Ids \subseteq TokenId
  /\ metadata' = [id \in TokenId |->
                    metadata[id] \cup (IF id \in Ids THEN request[id].metadata ELSE {})]
  /\ \/ \E k \in 0..(Len(reqs) - 1) :
          /\ log' = ApplyMints(log, current_token_id .. (current_token_id + k - 1), to)
          /\ UNCHANGED tokenVars
     \/ /\ log' = ApplyMints(log, Ids, to)
        /\ last_token_id' = current_token_id + Len(reqs)
        /\ tokens_list' = [id \in TokenId |-> IF id \in Ids THEN to[id] ELSE tokens_list[id]]
        /\ tokens_list_by_owner' =
             [a \in Account |-> [id \in TokenId |->
                tokens_list_by_owner[a][id] + (IF id \in Ids /\ to[id] = a THEN 1 ELSE 0)]]
  /\ UNCHANGED <<token_approvals, collection_approvals, settings, now>>

(* Replaces the whole metadata of an existing token, before the            *)
(* "7update_token" block is logged: it is replaced even when the log then  *)
(* refuses the block.                                                      *)
UpdateNftMetadata(id, entries) ==
  /\ TokenExists(id)
  /\ metadata' = [metadata EXCEPT ![id] = entries]
  /\ UNCHANGED <<tokens_list, tokens_list_by_owner, last_token_id, token_approvals,
                 collection_approvals, settings, log, now>>

(* Only tokens_list forgets the token: its entry under the owner, its      *)
(* approvals and its metadata stay.                                        *)
BurnNftUnlogged(caller, id) ==
  /\ TokenExists(id)
  /\ tokens_list[id].owner = caller
  /\ tokens_list' = [tokens_list EXCEPT ![id] = None]
  /\ UNCHANGED <<tokens_list_by_owner, last_token_id, token_approvals,
                 collection_approvals, metadata, settings, log, now>>
BurnNft(caller, id) ==
  /\ TokenExists(id)
  /\ tokens_list[id].owner = caller
  /\ icrc3_add_transaction([op |-> "7burn", tid |-> id, from |-> tokens_list[id]])
  /\ tokens_list' = [tokens_list EXCEPT ![id] = None]
  /\ UNCHANGED <<tokens_list_by_owner, last_token_id, token_approvals,
                 collection_approvals, metadata, settings, now>>

-----------------------------------------------------------------------------
(* ICRC-7                                                                  *)

(* The caller's principal must own the token; from_subaccount is ignored   *)
(* and no approval is touched.  A block the log reports as a duplicate     *)
(* changes nothing.                                                        *)
Icrc7Transfer(caller, id, to) ==
  /\ caller # Anonymous
  /\ TokenExists(id)
  /\ tokens_list[id].owner = caller
  /\ to.owner # Anonymous
  /\ tokens_list[id] # to
  /\ icrc3_add_transaction([op |-> "7xfer", tid |-> id, from |-> tokens_list[id], to |-> to])
  /\ MoveToken(id, to)
  /\ UNCHANGED <<last_token_id, token_approvals, collection_approvals, metadata, settings, now>>

-----------------------------------------------------------------------------
(* ICRC-37.  from_account is the caller's principal with the subaccount    *)
(* the request names.                                                      *)

HasRoomForOneMore(m) == Cardinality(DOMAIN MapOf(m)) <= MaxApprovals
HasRoom(m) == Cardinality(DOMAIN MapOf(m)) < MaxApprovals

ApproveToken(from_account, id, spender, expires_at) ==
  /\ Owns(from_account, id)
  /\ spender # AnonymousAccount
  /\ HasRoom(token_approvals[id])
  /\ icrc3_add_transaction([op |-> "37approve", tid |-> id, from |-> from_account,
                            spender |-> spender, exp |-> expires_at])
  /\ token_approvals' = [token_approvals EXCEPT ![id] =
       Put(MapOf(@), spender, [from |-> from_account, expires_at |-> expires_at])]
  /\ UNCHANGED <<tokens_list, tokens_list_by_owner, last_token_id,
                 collection_approvals, metadata, settings, now>>

(* The caller must own some token, under whatever subaccount.              *)
ApproveCollection(from_account, spender, expires_at) ==
  /\ spender # AnonymousAccount
  /\ \E id \in LiveTokens : tokens_list[id].owner = from_account.owner
  /\ HasRoom(collection_approvals[from_account])
  /\ icrc3_add_transaction([op |-> "37approve_coll", from |-> from_account,
                            spender |-> spender, exp |-> expires_at])
  /\ collection_approvals' = [collection_approvals EXCEPT ![from_account] =
       Put(MapOf(@), spender, [from |-> from_account, expires_at |-> expires_at])]
  /\ UNCHANGED <<tokens_list, tokens_list_by_owner, last_token_id,
                 token_approvals, metadata, settings, now>>

(* spender = None revokes every approval of the token.                     *)
RevokeTokenApprovals(from_account, id, spender) ==
  /\ Owns(from_account, id)
  /\ token_approvals[id] # None
  /\ icrc3_add_transaction([op |-> "37revoke", tid |-> id, from |-> from_account,
                            spender |-> spender])
  /\ token_approvals' = [token_approvals EXCEPT ![id] = Revoked(@, spender)]
  /\ UNCHANGED <<tokens_list, tokens_list_by_owner, last_token_id,
                 collection_approvals, metadata, settings, now>>

(* Always the caller's account without subaccount, whatever the request    *)
(* says.                                                                   *)
RevokeCollectionApprovals(caller, spender) ==
  LET from_account == [owner |-> caller, subaccount |-> None] IN
  /\ from_account \in Account
  /\ collection_approvals[from_account] # None
  /\ icrc3_add_transaction([op |-> "37revoke_coll", from |-> from_account, spender |-> spender])
  /\ collection_approvals' =
       [collection_approvals EXCEPT ![from_account] = Revoked(@, spender)]
  /\ UNCHANGED <<tokens_list, tokens_list_by_owner, last_token_id,
                 token_approvals, metadata, settings, now>>

(* The map m holds an approval of spender that has not expired.            *)
Approves(m, spender) ==
  /\ spender \in DOMAIN MapOf(m)
  /\ ~Expired(MapOf(m)[spender], now)

(* Looking an approval up removes it when it has expired.                  *)
PurgedOnUse(m, spender) == IF spender \in DOMAIN MapOf(m) THEN Drop(m, spender) ELSE m
Purged(m, spender) ==
  IF spender \in DOMAIN MapOf(m) /\ Expired(MapOf(m)[spender], now)
    THEN Drop(m, spender) ELSE m

(* The lookups, and what they remove, precede the authorisation check:     *)
(* expired approvals go even if the call is then refused.  A transfer      *)
(* drops the token's approvals and every collection approval of `from`,    *)
(* including when `from` keeps other tokens.                               *)
TransferFrom(spender, id, from, to) ==
  LET owner == tokens_list[id]
      authorised == /\ owner = from
                    /\ \/ spender = from
                       \/ Approves(token_approvals[id], spender)
                       \/ Approves(collection_approvals[owner], spender)
      tokenPurged == [token_approvals EXCEPT ![id] = Purged(@, spender)]
      collectionPurged == [collection_approvals EXCEPT ![owner] = Purged(@, spender)]
  IN
  /\ TokenExists(id)
  /\ from # to
  /\ to # AnonymousAccount
  /\ \/ /\ authorised
        /\ icrc3_add_transaction([op |-> "37xfer", tid |-> id, from |-> from, to |-> to,
                                  spender |-> spender])
        /\ MoveToken(id, to)
        /\ token_approvals' = [tokenPurged EXCEPT ![id] = None]
        /\ collection_approvals' = [collectionPurged EXCEPT ![from] = None]
     \/ \* not authorised, or the log refused the block
        /\ token_approvals' = tokenPurged
        /\ collection_approvals' = collectionPurged
        /\ UNCHANGED <<log, tokens_list, tokens_list_by_owner>>
  /\ UNCHANGED <<last_token_id, metadata, settings, now>>

-----------------------------------------------------------------------------
Caller == {a.owner : a \in Account}

MintBatches == UNION {[1..n -> MintRequest] : n \in 1..MaxBatch}

Next ==
  \/ Tick
  \/ \E new \in Settings : UpdateCollectionMetadata(new)
  \/ \E reqs \in MintBatches : Mint(reqs)
  \/ \E id \in TokenId, entries \in SUBSET MetadataEntry : UpdateNftMetadata(id, entries)
  \/ \E caller \in Caller, id \in TokenId : BurnNft(caller, id)
  \/ \E caller \in Caller, id \in TokenId, to \in Account : Icrc7Transfer(caller, id, to)
  \/ \E a \in Account, id \in TokenId, s \in Spender, e \in Expiry : ApproveToken(a, id, s, e)
  \/ \E a \in Account, s \in Spender, e \in Expiry : ApproveCollection(a, s, e)
  \/ \E a \in Account, id \in TokenId, s \in Spender \cup {None} : RevokeTokenApprovals(a, id, s)
  \/ \E caller \in Caller, s \in Spender \cup {None} : RevokeCollectionApprovals(caller, s)
  \/ \E s \in Account, id \in TokenId, from, to \in Account : TransferFrom(s, id, from, to)

Spec == Init /\ [][Next]_vars

-----------------------------------------------------------------------------
(* Properties.                                                             *)

(* Every variable stays in the set its Rust type allows. *)
TypeOK ==
  /\ tokens_list \in [TokenId -> Account \cup {None}]
  /\ tokens_list_by_owner \in [Account -> [TokenId -> Nat]]
  /\ last_token_id \in 1..(MaxTokenId + 1)
  /\ token_approvals \in [TokenId -> ApprovalMap \cup {None}]
  /\ collection_approvals \in [Account -> ApprovalMap \cup {None}]
  /\ metadata \in [TokenId -> SUBSET MetadataEntry]
  /\ settings \in Settings
  /\ log \in Replay
  /\ now \in Time

(* The two indices agree.  A token that exists is listed exactly once,     *)
(* under its owner, and nowhere else, through every mix of mints,          *)
(* transfers by owner or spender and transfers back; a burned one stays    *)
(* listed once, under the account that burned it; an id that was not       *)
(* issued, failed mints included, is listed nowhere.                       *)
ListedUnder(id, a) ==
  \A b \in Account : tokens_list_by_owner[b][id] = (IF b = a THEN 1 ELSE 0)

ByOwnerConsistent ==
  \A id \in TokenId :
    /\ TokenExists(id) => ListedUnder(id, tokens_list[id])
    /\ id < last_token_id => \E a \in Account : ListedUnder(id, a)
    /\ id >= last_token_id => \A b \in Account : tokens_list_by_owner[b][id] = 0

(* The block log tells the owners: a token that exists belongs to whom the *)
(* replay of the log says, even after mint calls that failed half way; a   *)
(* token that only the log knows has an id not issued yet, so a later mint *)
(* settles it, and a burned token is burned in the log too.                *)
LogReplaysOwners ==
  \A id \in TokenId :
    \/ log.owner[id] = tokens_list[id]
    \/ id >= last_token_id /\ tokens_list[id] = None

(* The block log tells the approvals: those in force now are the ones a    *)
(* reader of the log computes, although expired ones are removed without a *)
(* block and 37xfer blocks do not list the approvals they end.             *)
LogReplaysApprovals ==
  /\ \A id \in TokenId :
       Live(MapOf(token_approvals[id]), now) = Live(log.token_approvals[id], now)
  /\ \A a \in Account :
       Live(MapOf(collection_approvals[a]), now) = Live(log.collection_approvals[a], now)

(* No token or account ever has more than max_approvals_per_token_or_      *)
(* collection approvals, expired ones counted.                             *)
ApprovalsWithinLimit ==
  /\ \A id \in TokenId : Cardinality(DOMAIN MapOf(token_approvals[id])) <= MaxApprovals
  /\ \A a \in Account : Cardinality(DOMAIN MapOf(collection_approvals[a])) <= MaxApprovals

(* Approvals are only ever given on tokens that were issued: the approvals *)
(* a failed mint's id might collect would pass to its later owner.         *)
ApprovalsOnIssuedTokens ==
  \A id \in TokenId : token_approvals[id] # None => id < last_token_id

(* No mint touches the metadata of a token that exists, although mint      *)
(* stores its metadata, under ids it derives, before it knows whether the  *)
(* log takes the blocks: also one that is refused at its first block, and  *)
(* one whose ids earlier failed mints have used.                           *)
MetadataKeptByMint ==
  [][\A reqs \in MintBatches :
       Mint(reqs) => \A id \in LiveTokens : metadata'[id] = metadata[id]]_vars

(* The ledger implements the registry of tokens it is meant to be.         *)
Registry == INSTANCE OwnershipRegistry
  WITH owner <- tokens_list, next_id <- last_token_id, cap <- settings.supply_cap

ImplementsRegistry == Registry!Spec

(* icrc7_balance_of *)
BalanceOf(account) ==
  LET listed == tokens_list_by_owner[account]
      total[n \in 0..MaxTokenId] == IF n = 0 THEN 0 ELSE total[n - 1] + listed[n]
  IN total[MaxTokenId]

(* The balances the ledger reports are those of the tokens that exist.     *)
BalanceMatchesTokens ==
  \A a \in Account : BalanceOf(a) = Cardinality({id \in LiveTokens : Owns(a, id)})

(* An approval in force on a token was given by its present owner: the     *)
(* approvals of earlier owners are reset by a transfer.                    *)
ApprovalsOfPresentOwner ==
  \A id \in LiveTokens :
    LET m == Live(MapOf(token_approvals[id]), now) IN
      \A s \in DOMAIN m : m[s].from = tokens_list[id]
=============================================================================
