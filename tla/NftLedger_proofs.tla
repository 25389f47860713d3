--------------------------- MODULE NftLedger_proofs ---------------------------
(***************************************************************************)
(* Proofs about NftLedger, for every set of accounts, every bound and      *)
(* every configuration LedgerAssumption allows.                            *)
(***************************************************************************)
EXTENDS NftLedger, TLAPS

-----------------------------------------------------------------------------
(* Maps of approvals are closed under the operations of the handlers.      *)

(* An approval map is a function from some accounts to approvals. *)
LEMMA ApprovalMapIs ==
  ASSUME NEW S \in SUBSET Account, NEW m \in [S -> Approval]
  PROVE  m \in ApprovalMap
  BY DEF ApprovalMap

(* The map without approvals is one. *)
LEMMA NoApprovalsType == NoApprovals \in ApprovalMap
<1>1. NoApprovals \in [{} -> Approval]
  BY DEF NoApprovals
<1> QED BY <1>1, ApprovalMapIs

(* A missing map counts as an empty one. *)
LEMMA MapOfType ==
  ASSUME NEW m \in ApprovalMap \cup {None}
  PROVE  MapOf(m) \in ApprovalMap
  BY NoApprovalsType DEF MapOf

(* Inserting an approval yields an approval map. *)
LEMMA PutType ==
  ASSUME NEW m \in ApprovalMap, NEW s \in Account, NEW a \in Approval
  PROVE  Put(m, s, a) \in ApprovalMap
<1>1. PICK S \in SUBSET Account : m \in [S -> Approval]
  BY DEF ApprovalMap
<1>2. Put(m, s, a) \in [S \cup {s} -> Approval]
  BY <1>1 DEF Put
<1> QED BY <1>2, ApprovalMapIs

(* So does removing one. *)
LEMMA DropType ==
  ASSUME NEW m \in ApprovalMap, NEW s
  PROVE  Drop(m, s) \in ApprovalMap
<1>1. PICK S \in SUBSET Account : m \in [S -> Approval]
  BY DEF ApprovalMap
<1>2. Drop(m, s) \in [S \ {s} -> Approval]
  BY <1>1 DEF Drop
<1> QED BY <1>2, ApprovalMapIs

(* And revoking one spender or all of them. *)
LEMMA RevokedType ==
  ASSUME NEW m \in ApprovalMap, NEW s
  PROVE  Revoked(m, s) \in ApprovalMap
  BY DropType, NoApprovalsType DEF Revoked

(* Looking a spender up leaves a missing map missing. *)
LEMMA PurgedType ==
  ASSUME NEW m \in ApprovalMap \cup {None}, NEW s
  PROVE  Purged(m, s) \in ApprovalMap \cup {None}
<1>1. CASE m = None
  BY <1>1 DEF Purged, MapOf, NoApprovals
<1>2. CASE m # None
  BY <1>2, DropType DEF Purged
<1> QED BY <1>1, <1>2

-----------------------------------------------------------------------------
(* Type correctness.                                                       *)

(* The initial state is well typed. *)
LEMMA InitType == Init => TypeOK
<1> SUFFICES ASSUME Init PROVE TypeOK
  OBVIOUS
<1> USE LedgerAssumption DEF Init, TokenId
<1>1. log \in Replay
  BY NoApprovalsType DEF Replay
<1>2. now \in Time /\ last_token_id \in 1..(MaxTokenId + 1)
  BY DEF Time
<1> QED BY <1>1, <1>2 DEF TypeOK

(* Reading one more block keeps the replay well typed. *)
LEMMA ApplyBlockType ==
  ASSUME NEW r \in Replay, NEW b,
         b.op \in {"7xfer", "37xfer"} => b.to \in Account,
         b.op \in {"37xfer", "37approve_coll", "37revoke_coll"} => b.from \in Account,
         b.op \in {"37approve", "37approve_coll"} =>
           b.spender \in Account /\ b.from \in Account /\ b.exp \in Expiry
  PROVE  ApplyBlock(r, b) \in Replay
<1> DEFINE approval == [from |-> b.from, expires_at |-> b.exp]
<1>1. /\ r.owner \in [TokenId -> Account \cup {None}]
      /\ r.token_approvals \in [TokenId -> ApprovalMap]
      /\ r.collection_approvals \in [Account -> ApprovalMap]
      /\ r = [owner |-> r.owner, token_approvals |-> r.token_approvals,
              collection_approvals |-> r.collection_approvals]
  BY DEF Replay
<1>2. CASE b.op = "7xfer"
  BY <1>1, <1>2 DEF ApplyBlock, Replay
<1>3. CASE b.op = "7burn"
  BY <1>1, <1>3 DEF ApplyBlock, Replay
<1>4. CASE b.op = "37xfer"
  BY <1>1, <1>4, NoApprovalsType DEF ApplyBlock, Replay
<1>5. CASE b.op = "37approve"
  <2>1. approval \in Approval
    BY <1>5 DEF Approval
  <2>2. \A id \in TokenId : Put(r.token_approvals[id], b.spender, approval) \in ApprovalMap
    BY <1>1, <1>5, <2>1, PutType
  <2> QED BY <1>1, <1>5, <2>2 DEF ApplyBlock, Replay
<1>6. CASE b.op = "37approve_coll"
  <2>1. approval \in Approval
    BY <1>6 DEF Approval
  <2>2. \A a \in Account : Put(r.collection_approvals[a], b.spender, approval) \in ApprovalMap
    BY <1>1, <1>6, <2>1, PutType
  <2> QED BY <1>1, <1>6, <2>2 DEF ApplyBlock, Replay
<1>7. CASE b.op = "37revoke"
  <2>1. \A id \in TokenId : Revoked(r.token_approvals[id], b.spender) \in ApprovalMap
    BY <1>1, RevokedType
  <2> QED BY <1>1, <1>7, <2>1 DEF ApplyBlock, Replay
<1>8. CASE b.op = "37revoke_coll"
  <2>1. \A a \in Account : Revoked(r.collection_approvals[a], b.spender) \in ApprovalMap
    BY <1>1, RevokedType
  <2> QED BY <1>1, <1>8, <2>1 DEF ApplyBlock, Replay
<1>9. CASE b.op \notin {"7xfer", "7burn", "37xfer", "37approve", "37approve_coll",
                        "37revoke", "37revoke_coll"}
  BY <1>9 DEF ApplyBlock
<1> QED BY <1>2, <1>3, <1>4, <1>5, <1>6, <1>7, <1>8, <1>9

(* The indices stay well typed when a token is pushed to one account and   *)
(* retained from another.                                                  *)
LEMMA MoveTokenType ==
  ASSUME TypeOK, NEW id \in TokenId, NEW to \in Account, tokens_list[id] \in Account,
         MoveToken(id, to)
  PROVE  /\ tokens_list' \in [TokenId -> Account \cup {None}]
         /\ tokens_list_by_owner' \in [Account -> [TokenId -> Nat]]
<1> DEFINE pushed == Push(tokens_list_by_owner, to, id)
<1>1. pushed \in [Account -> [TokenId -> Nat]]
  BY DEF TypeOK, Push
<1>2. Retain(pushed, tokens_list[id], id) \in [Account -> [TokenId -> Nat]]
  BY <1>1 DEF Retain
<1> QED BY <1>2 DEF MoveToken, TypeOK

(* An account that owns a token is an account. *)
LEMMA OwnerIsAccount ==
  ASSUME TypeOK, NEW id \in TokenId, tokens_list[id] # None
  PROVE  tokens_list[id] \in Account
  BY DEF TypeOK

(* One lemma per action: the step keeps the state well typed. *)
LEMMA TickType == TypeOK /\ Tick => TypeOK'
  BY LedgerAssumption DEF TypeOK, Tick, Time

(* Any settings the configuration allows may be set. *)
LEMMA UpdateCollectionMetadataType ==
  ASSUME TypeOK, NEW new \in Settings, UpdateCollectionMetadata(new)
  PROVE  TypeOK'
  BY DEF TypeOK, UpdateCollectionMetadata

(* A mint request gives each of its ids an owner. *)
LEMMA MintOwners ==
  ASSUME TypeOK, NEW reqs \in MintBatches
  PROVE  /\ Len(reqs) \in Nat
         /\ Len(reqs) >= 1
         /\ \A id \in NewIds(reqs) :
              /\ id - current_token_id + 1 \in 1..Len(reqs)
              /\ reqs[id - current_token_id + 1] \in MintRequest
<1>1. PICK n \in 1..MaxBatch : reqs \in [1..n -> MintRequest]
  BY DEF MintBatches
<1>2. Len(reqs) = n
  BY <1>1, LedgerAssumption
<1>3. last_token_id \in Nat
  BY LedgerAssumption DEF TypeOK
<1> QED BY <1>1, <1>2, <1>3 DEF NewIds, current_token_id

(* The blocks of minted tokens keep the replay well typed. *)
LEMMA ApplyMintsType ==
  ASSUME NEW r \in Replay, NEW Ids, NEW to, \A id \in Ids : to[id] \in Account
  PROVE  ApplyMints(r, Ids, to) \in Replay
<1> DEFINE o == [id \in TokenId |-> IF id \in Ids THEN to[id] ELSE r.owner[id]]
<1>1. /\ r.owner \in [TokenId -> Account \cup {None}]
      /\ r.token_approvals \in [TokenId -> ApprovalMap]
      /\ r.collection_approvals \in [Account -> ApprovalMap]
  BY DEF Replay
<1>2. o \in [TokenId -> Account \cup {None}]
  BY <1>1
<1>3. ApplyMints(r, Ids, to) =
        [owner |-> o, token_approvals |-> r.token_approvals,
         collection_approvals |-> r.collection_approvals]
  BY DEF ApplyMints, Replay
<1> QED BY <1>1, <1>2, <1>3 DEF Replay

(* Minting, complete or stopped half way, keeps the state well typed. *)
LEMMA MintType ==
  ASSUME TypeOK, NEW reqs \in MintBatches, Mint(reqs)
  PROVE  TypeOK'
<1> DEFINE Ids == NewIds(reqs)
           request == [id \in Ids |-> reqs[id - current_token_id + 1]]
           to == [id \in Ids |-> request[id].token_owner]
<1>1. \A id \in Ids : to[id] \in Account /\ request[id].metadata \in SUBSET MetadataEntry
  <2>1. \A id \in Ids : request[id] \in MintRequest
    BY MintOwners
  <2> QED BY <2>1 DEF MintRequest
<1>2. metadata' \in [TokenId -> SUBSET MetadataEntry]
  <2>1. metadata' = [id \in TokenId |->
                      metadata[id] \cup (IF id \in Ids THEN request[id].metadata ELSE {})]
    BY DEF Mint
  <2> HIDE DEF Ids, request, to
  <2> QED BY <2>1, <1>1 DEF TypeOK
<1>3. log' \in Replay
  <2>1. ASSUME NEW k \in 0..(Len(reqs) - 1),
               log' = ApplyMints(log, current_token_id .. (current_token_id + k - 1), to)
        PROVE  log' \in Replay
    <3>1. current_token_id .. (current_token_id + k - 1) \subseteq Ids
      BY MintOwners, LedgerAssumption DEF NewIds, current_token_id, TypeOK
    <3> HIDE DEF Ids, request, to
    <3> QED BY <2>1, <3>1, <1>1, ApplyMintsType DEF TypeOK
  <2>2. ASSUME log' = ApplyMints(log, Ids, to)
        PROVE  log' \in Replay
    <3> HIDE DEF Ids, request, to
    <3> QED BY <2>2, <1>1, ApplyMintsType DEF TypeOK
  <2> QED BY <2>1, <2>2 DEF Mint
<1>4. /\ tokens_list' \in [TokenId -> Account \cup {None}]
      /\ tokens_list_by_owner' \in [Account -> [TokenId -> Nat]]
      /\ last_token_id' \in 1..(MaxTokenId + 1)
  <2>1. CASE UNCHANGED tokenVars
    BY <2>1 DEF TypeOK, tokenVars
  <2>2. CASE /\ last_token_id' = current_token_id + Len(reqs)
             /\ tokens_list' = [id \in TokenId |-> IF id \in Ids THEN to[id] ELSE tokens_list[id]]
             /\ tokens_list_by_owner' =
                  [a \in Account |-> [id \in TokenId |->
                     tokens_list_by_owner[a][id] + (IF id \in Ids /\ to[id] = a THEN 1 ELSE 0)]]
    <3>1. last_token_id' \in 1..(MaxTokenId + 1)
      <4>1. Ids \subseteq TokenId
        BY DEF Mint
      <4>2. last_token_id \in Nat /\ last_token_id >= 1
        BY LedgerAssumption DEF TypeOK
      <4>3. current_token_id + Len(reqs) - 1 \in Ids
        BY <4>2, MintOwners DEF NewIds, current_token_id
      <4> QED BY <2>2, <4>1, <4>2, <4>3, MintOwners, LedgerAssumption DEF TokenId, current_token_id
    <3> HIDE DEF Ids, request, to
    <3>2. tokens_list' \in [TokenId -> Account \cup {None}]
      BY <2>2, <1>1 DEF TypeOK
    <3>3. tokens_list_by_owner' \in [Account -> [TokenId -> Nat]]
      BY <2>2 DEF TypeOK
    <3> QED BY <3>1, <3>2, <3>3
  <2> QED BY <2>1, <2>2 DEF Mint
<1>5. UNCHANGED <<token_approvals, collection_approvals, settings, now>>
  BY DEF Mint
<1> QED BY <1>2, <1>3, <1>4, <1>5 DEF TypeOK

(* Replacing a token's metadata keeps the state well typed. *)
LEMMA UpdateNftMetadataType ==
  ASSUME TypeOK, NEW id \in TokenId, NEW entries \in SUBSET MetadataEntry,
         UpdateNftMetadata(id, entries)
  PROVE  TypeOK'
  BY DEF TypeOK, UpdateNftMetadata

(* So does burning a token. *)
LEMMA BurnNftType ==
  ASSUME TypeOK, NEW caller, NEW id \in TokenId, BurnNft(caller, id)
  PROVE  TypeOK'
<1>1. log' \in Replay
  BY ApplyBlockType DEF BurnNft, icrc3_add_transaction, TypeOK
<1>2. tokens_list' \in [TokenId -> Account \cup {None}]
  BY DEF BurnNft, TypeOK
<1> QED BY <1>1, <1>2 DEF BurnNft, TypeOK

(* A transfer by the owner keeps the state well typed. *)
LEMMA Icrc7TransferType ==
  ASSUME TypeOK, NEW caller, NEW id \in TokenId, NEW to \in Account,
         Icrc7Transfer(caller, id, to)
  PROVE  TypeOK'
<1>1. log' \in Replay
  BY ApplyBlockType DEF Icrc7Transfer, icrc3_add_transaction, TypeOK
<1>2. tokens_list[id] \in Account
  BY OwnerIsAccount DEF Icrc7Transfer, TokenExists
<1>3. /\ tokens_list' \in [TokenId -> Account \cup {None}]
      /\ tokens_list_by_owner' \in [Account -> [TokenId -> Nat]]
  BY <1>2, MoveTokenType DEF Icrc7Transfer
<1> QED BY <1>1, <1>3 DEF Icrc7Transfer, TypeOK

(* Approving a spender for a token does. *)
LEMMA ApproveTokenType ==
  ASSUME TypeOK, NEW a \in Account, NEW id \in TokenId, NEW s \in Spender, NEW e \in Expiry,
         ApproveToken(a, id, s, e)
  PROVE  TypeOK'
<1> s \in Account
  BY LedgerAssumption
<1>1. log' \in Replay
  BY ApplyBlockType DEF ApproveToken, icrc3_add_transaction, TypeOK
<1>2. [from |-> a, expires_at |-> e] \in Approval
  BY DEF Approval
<1>3. \A i \in TokenId :
        Put(MapOf(token_approvals[i]), s, [from |-> a, expires_at |-> e]) \in ApprovalMap
  BY <1>2, PutType, MapOfType DEF TypeOK
<1>4. token_approvals' \in [TokenId -> ApprovalMap \cup {None}]
  BY <1>3 DEF ApproveToken, TypeOK
<1> QED BY <1>1, <1>4 DEF ApproveToken, TypeOK

(* Approving a spender for a collection does. *)
LEMMA ApproveCollectionType ==
  ASSUME TypeOK, NEW a \in Account, NEW s \in Spender, NEW e \in Expiry,
         ApproveCollection(a, s, e)
  PROVE  TypeOK'
<1> s \in Account
  BY LedgerAssumption
<1>1. log' \in Replay
  BY ApplyBlockType DEF ApproveCollection, icrc3_add_transaction, TypeOK
<1>2. [from |-> a, expires_at |-> e] \in Approval
  BY DEF Approval
<1>3. \A b \in Account :
        Put(MapOf(collection_approvals[b]), s, [from |-> a, expires_at |-> e]) \in ApprovalMap
  BY <1>2, PutType, MapOfType DEF TypeOK
<1>4. collection_approvals' \in [Account -> ApprovalMap \cup {None}]
  BY <1>3 DEF ApproveCollection, TypeOK
<1> QED BY <1>1, <1>4 DEF ApproveCollection, TypeOK

(* Revoking a token's approvals does. *)
LEMMA RevokeTokenApprovalsType ==
  ASSUME TypeOK, NEW a \in Account, NEW id \in TokenId, NEW s, RevokeTokenApprovals(a, id, s)
  PROVE  TypeOK'
<1>1. log' \in Replay
  BY ApplyBlockType DEF RevokeTokenApprovals, icrc3_add_transaction, TypeOK
<1>2. Revoked(token_approvals[id], s) \in ApprovalMap
  BY RevokedType DEF RevokeTokenApprovals, TypeOK
<1>3. token_approvals' \in [TokenId -> ApprovalMap \cup {None}]
  BY <1>2 DEF RevokeTokenApprovals, TypeOK
<1> QED BY <1>1, <1>3 DEF RevokeTokenApprovals, TypeOK

(* Revoking an account's approvals does. *)
LEMMA RevokeCollectionApprovalsType ==
  ASSUME TypeOK, NEW caller, NEW s, RevokeCollectionApprovals(caller, s)
  PROVE  TypeOK'
<1> DEFINE a == [owner |-> caller, subaccount |-> None]
<1>1. a \in Account /\ collection_approvals[a] # None
  BY DEF RevokeCollectionApprovals
<1>2. log' \in Replay
  BY <1>1, ApplyBlockType DEF RevokeCollectionApprovals, icrc3_add_transaction, TypeOK
<1>3. Revoked(collection_approvals[a], s) \in ApprovalMap
  BY <1>1, RevokedType DEF TypeOK
<1>4. collection_approvals' \in [Account -> ApprovalMap \cup {None}]
  BY <1>3 DEF RevokeCollectionApprovals, TypeOK
<1> QED BY <1>2, <1>4 DEF RevokeCollectionApprovals, TypeOK

(* And a transfer by a spender does, refused or not. *)
LEMMA TransferFromType ==
  ASSUME TypeOK, NEW s \in Account, NEW id \in TokenId, NEW from \in Account, NEW to \in Account,
         TransferFrom(s, id, from, to)
  PROVE  TypeOK'
<1> DEFINE owner == tokens_list[id]
           tokenPurged == [token_approvals EXCEPT ![id] = Purged(@, s)]
           collectionPurged == [collection_approvals EXCEPT ![owner] = Purged(@, s)]
<1>1. owner \in Account
  BY OwnerIsAccount DEF TransferFrom, TokenExists
<1>2. tokenPurged \in [TokenId -> ApprovalMap \cup {None}]
  BY PurgedType DEF TypeOK
<1>3. collectionPurged \in [Account -> ApprovalMap \cup {None}]
  BY <1>1, PurgedType DEF TypeOK
<1>4. CASE /\ icrc3_add_transaction([op |-> "37xfer", tid |-> id, from |-> from, to |-> to,
                                     spender |-> s])
           /\ MoveToken(id, to)
           /\ token_approvals' = [tokenPurged EXCEPT ![id] = None]
           /\ collection_approvals' = [collectionPurged EXCEPT ![from] = None]
           /\ UNCHANGED <<last_token_id, metadata, settings, now>>
  <2>1. log' \in Replay
    BY <1>4, ApplyBlockType DEF icrc3_add_transaction, TypeOK
  <2>2. /\ tokens_list' \in [TokenId -> Account \cup {None}]
        /\ tokens_list_by_owner' \in [Account -> [TokenId -> Nat]]
    BY <1>1, <1>4, MoveTokenType
  <2> HIDE DEF tokenPurged, collectionPurged
  <2> QED BY <1>2, <1>3, <1>4, <2>1, <2>2 DEF TypeOK
<1>5. CASE /\ token_approvals' = tokenPurged
           /\ collection_approvals' = collectionPurged
           /\ UNCHANGED <<log, tokens_list, tokens_list_by_owner>>
           /\ UNCHANGED <<last_token_id, metadata, settings, now>>
  <2> HIDE DEF tokenPurged, collectionPurged
  <2> QED BY <1>2, <1>3, <1>5 DEF TypeOK
<1> QED BY <1>4, <1>5 DEF TransferFrom

(* Every step keeps the state well typed. *)
LEMMA TypeOKStep == TypeOK /\ [Next]_vars => TypeOK'
<1> SUFFICES ASSUME TypeOK, [Next]_vars PROVE TypeOK'
  OBVIOUS
<1>1. CASE Next
  BY <1>1, TickType, UpdateCollectionMetadataType, MintType, UpdateNftMetadataType,
     BurnNftType, Icrc7TransferType, ApproveTokenType, ApproveCollectionType,
     RevokeTokenApprovalsType, RevokeCollectionApprovalsType, TransferFromType DEF Next
<1>2. CASE UNCHANGED vars
  BY <1>2 DEF vars, TypeOK
<1> QED BY <1>1, <1>2

(* Every variable of the ledger stays in the set of its Rust type, for any *)
(* accounts, configuration and bounds.                                     *)
THEOREM TypeCorrect == Spec => []TypeOK
  BY InitType, TypeOKStep, PTL DEF Spec

-----------------------------------------------------------------------------
(* The two indices over tokens and the block log.                          *)

(* A token that exists was issued. *)
LEMMA LiveIsIssued ==
  ASSUME TypeOK, ByOwnerConsistent, NEW id \in TokenId, TokenExists(id)
  PROVE  id < last_token_id
<1>1. tokens_list[id] \in Account
  BY OwnerIsAccount DEF TokenExists
<1>2. tokens_list_by_owner[tokens_list[id]][id] = 1
  BY <1>1 DEF ByOwnerConsistent, ListedUnder
<1>3. ~(id >= last_token_id)
  BY <1>1, <1>2 DEF ByOwnerConsistent
<1> QED BY <1>3, LedgerAssumption DEF TypeOK, TokenId

(* Listing a token under its new owner and delisting it from the previous  *)
(* one leaves the indices consistent.                                      *)
LEMMA MoveTokenConsistent ==
  ASSUME TypeOK, ByOwnerConsistent, NEW id \in TokenId, NEW to \in Account,
         TokenExists(id), tokens_list[id] # to, MoveToken(id, to), UNCHANGED last_token_id
  PROVE  ByOwnerConsistent'
<1> DEFINE owner == tokens_list[id]
<1>1. owner \in Account
  BY OwnerIsAccount DEF TokenExists
<1>2. id < last_token_id
  BY LiveIsIssued
<1>3. \A b \in Account : \A i \in TokenId :
        tokens_list_by_owner'[b][i] =
          IF i # id THEN tokens_list_by_owner[b][i]
          ELSE IF b = owner THEN 0
          ELSE IF b = to THEN tokens_list_by_owner[b][i] + 1
          ELSE tokens_list_by_owner[b][i]
  BY <1>1 DEF MoveToken, Push, Retain, TypeOK
<1>4. \A i \in TokenId : tokens_list'[i] = IF i = id THEN to ELSE tokens_list[i]
  BY DEF MoveToken, TypeOK
<1>5. \A b \in Account : tokens_list_by_owner[b][id] = IF b = owner THEN 1 ELSE 0
  BY DEF ByOwnerConsistent, ListedUnder
<1>6. ListedUnder(id, to)'
  BY <1>3, <1>5 DEF ListedUnder
<1>7. ASSUME NEW i \in TokenId, i # id
      PROVE  /\ TokenExists(i)' => ListedUnder(i, tokens_list[i])'
             /\ i < last_token_id' => \E a \in Account : ListedUnder(i, a)'
             /\ i >= last_token_id' => \A b \in Account : tokens_list_by_owner'[b][i] = 0
  BY <1>3, <1>4, <1>7 DEF ByOwnerConsistent, ListedUnder, TokenExists
<1>8. /\ ListedUnder(id, tokens_list[id])'
      /\ \E a \in Account : ListedUnder(id, a)'
      /\ ~(id >= last_token_id')
  BY <1>2, <1>4, <1>6, LedgerAssumption DEF TypeOK, TokenId
<1> QED BY <1>7, <1>8 DEF ByOwnerConsistent

(* A mint that completes lists each new token once, under its new owner.   *)
LEMMA MintConsistent ==
  ASSUME TypeOK, ByOwnerConsistent, NEW reqs \in MintBatches, Mint(reqs)
  PROVE  ByOwnerConsistent'
<1> DEFINE Ids == NewIds(reqs)
           request == [id \in Ids |-> reqs[id - current_token_id + 1]]
           to == [id \in Ids |-> request[id].token_owner]
<1>1. \A id \in Ids : to[id] \in Account
  BY MintOwners DEF MintRequest
<1>2. CASE UNCHANGED tokenVars
  BY <1>2 DEF tokenVars, ByOwnerConsistent, ListedUnder, TokenExists
<1>3. CASE /\ last_token_id' = current_token_id + Len(reqs)
           /\ tokens_list' = [id \in TokenId |-> IF id \in Ids THEN to[id] ELSE tokens_list[id]]
           /\ tokens_list_by_owner' =
                [a \in Account |-> [id \in TokenId |->
                   tokens_list_by_owner[a][id] + (IF id \in Ids /\ to[id] = a THEN 1 ELSE 0)]]
  <2>1. ASSUME NEW i \in TokenId
        PROVE  /\ i \in Ids <=> i >= last_token_id /\ i < last_token_id'
               /\ i < last_token_id => i < last_token_id'
               /\ i >= last_token_id' => i >= last_token_id
               /\ i >= last_token_id <=> ~(i < last_token_id)
    BY <1>3, MintOwners, LedgerAssumption DEF NewIds, current_token_id, TypeOK, TokenId
  <2> HIDE DEF Ids, request, to
  <2>2. ASSUME NEW i \in TokenId, i \in Ids
        PROVE  /\ tokens_list'[i] = to[i]
               /\ \A b \in Account : tokens_list_by_owner'[b][i] = IF b = to[i] THEN 1 ELSE 0
    <3>1. \A b \in Account : tokens_list_by_owner[b][i] = 0
      BY <2>1, <2>2 DEF ByOwnerConsistent
    <3> QED BY <1>3, <2>2, <3>1
  <2>3. ASSUME NEW i \in TokenId, i \notin Ids
        PROVE  /\ tokens_list'[i] = tokens_list[i]
               /\ \A b \in Account : tokens_list_by_owner'[b][i] = tokens_list_by_owner[b][i]
    BY <1>3, <2>3 DEF TypeOK
  <2>4. ASSUME NEW i \in TokenId, i \in Ids
        PROVE  /\ TokenExists(i)' => ListedUnder(i, tokens_list[i])'
               /\ i < last_token_id' => \E a \in Account : ListedUnder(i, a)'
               /\ i >= last_token_id' => \A b \in Account : tokens_list_by_owner'[b][i] = 0
    <3>1. i < last_token_id' /\ ~(i >= last_token_id')
      BY <2>1, <2>4, <1>3, MintOwners, LedgerAssumption
         DEF TypeOK, TokenId, current_token_id
    <3> QED BY <1>1, <2>2, <2>4, <3>1 DEF ListedUnder
  <2>5. ASSUME NEW i \in TokenId, i \notin Ids
        PROVE  /\ TokenExists(i)' => ListedUnder(i, tokens_list[i])'
               /\ i < last_token_id' => \E a \in Account : ListedUnder(i, a)'
               /\ i >= last_token_id' => \A b \in Account : tokens_list_by_owner'[b][i] = 0
    BY <2>1, <2>3, <2>5 DEF ByOwnerConsistent, ListedUnder, TokenExists
  <2> QED BY <2>4, <2>5 DEF ByOwnerConsistent
<1> QED BY <1>2, <1>3 DEF Mint

(* Every step keeps the indices consistent. *)
LEMMA ByOwnerConsistentStep == TypeOK /\ ByOwnerConsistent /\ [Next]_vars => ByOwnerConsistent'
<1> SUFFICES ASSUME TypeOK, ByOwnerConsistent, [Next]_vars PROVE ByOwnerConsistent'
  OBVIOUS
<1>1. CASE UNCHANGED tokenVars
  BY <1>1 DEF tokenVars, ByOwnerConsistent, ListedUnder, TokenExists
<1>2. ASSUME NEW reqs \in MintBatches, Mint(reqs) PROVE ByOwnerConsistent'
  BY <1>2, MintConsistent
<1>3. ASSUME NEW caller, NEW id \in TokenId, BurnNft(caller, id) PROVE ByOwnerConsistent'
  <2>1. \A i \in TokenId : TokenExists(i)' => TokenExists(i) /\ tokens_list'[i] = tokens_list[i]
    BY <1>3 DEF BurnNft, TokenExists, TypeOK
  <2>2. UNCHANGED <<tokens_list_by_owner, last_token_id>>
    BY <1>3 DEF BurnNft
  <2> QED BY <2>1, <2>2 DEF ByOwnerConsistent, ListedUnder
<1>4. ASSUME NEW caller, NEW id \in TokenId, NEW to \in Account, Icrc7Transfer(caller, id, to)
      PROVE  ByOwnerConsistent'
  BY <1>4, MoveTokenConsistent DEF Icrc7Transfer
<1>5. ASSUME NEW s \in Account, NEW id \in TokenId, NEW from \in Account, NEW to \in Account,
             TransferFrom(s, id, from, to)
      PROVE  ByOwnerConsistent'
  <2>1. CASE UNCHANGED <<tokens_list, tokens_list_by_owner>>
    BY <1>1, <1>5, <2>1 DEF TransferFrom, tokenVars
  <2>2. CASE tokens_list[id] = from /\ MoveToken(id, to)
    BY <1>5, <2>2, MoveTokenConsistent DEF TransferFrom
  <2> QED BY <1>5, <2>1, <2>2 DEF TransferFrom
<1>6. CASE UNCHANGED vars
  BY <1>1, <1>6 DEF vars, tokenVars
<1>7. CASE Next
  BY <1>1, <1>2, <1>3, <1>4, <1>5, <1>7
     DEF Next, tokenVars, Tick, UpdateCollectionMetadata, UpdateNftMetadata, ApproveToken,
         ApproveCollection, RevokeTokenApprovals, RevokeCollectionApprovals
<1> QED BY <1>6, <1>7

(* A token that exists is listed once, under its owner, and an id that was *)
(* not issued nowhere: icrc7_tokens_of, icrc7_balance_of and               *)
(* icrc7_owner_of speak of the same owners.                                *)
THEOREM IndicesConsistent == Spec => []ByOwnerConsistent
<1>1. Init => ByOwnerConsistent
  <2> SUFFICES ASSUME Init PROVE ByOwnerConsistent
    OBVIOUS
  <2>1. \A id \in TokenId : ~TokenExists(id) /\ ~(id < last_token_id)
    BY LedgerAssumption DEF Init, TokenId, TokenExists
  <2>2. \A id \in TokenId, b \in Account : tokens_list_by_owner[b][id] = 0
    BY DEF Init
  <2> QED BY <2>1, <2>2 DEF ByOwnerConsistent
<1>2. TypeOK /\ ByOwnerConsistent /\ [Next]_vars => ByOwnerConsistent'
  BY ByOwnerConsistentStep
<1> QED BY <1>1, <1>2, TypeCorrect, PTL DEF Spec

(* What each kind of block does to the owners a reader computes. *)
LEMMA ApplyBlockOwner ==
  ASSUME NEW r \in Replay, NEW b
  PROVE  /\ b.op \in {"7xfer", "37xfer"} =>
              ApplyBlock(r, b).owner = [r.owner EXCEPT ![b.tid] = b.to]
         /\ b.op = "7burn" => ApplyBlock(r, b).owner = [r.owner EXCEPT ![b.tid] = None]
         /\ b.op \in {"37approve", "37approve_coll", "37revoke", "37revoke_coll"} =>
              ApplyBlock(r, b).owner = r.owner
<1>1. r = [owner |-> r.owner, token_approvals |-> r.token_approvals,
           collection_approvals |-> r.collection_approvals]
  BY DEF Replay
<1>2. CASE b.op = "7xfer"
  BY <1>1, <1>2 DEF ApplyBlock
<1>3. CASE b.op = "7burn"
  BY <1>1, <1>3 DEF ApplyBlock
<1>4. CASE b.op = "37xfer"
  BY <1>1, <1>4 DEF ApplyBlock
<1>5. CASE b.op = "37approve"
  BY <1>1, <1>5 DEF ApplyBlock
<1>6. CASE b.op = "37approve_coll"
  BY <1>1, <1>6 DEF ApplyBlock
<1>7. CASE b.op = "37revoke"
  BY <1>1, <1>7 DEF ApplyBlock
<1>8. CASE b.op = "37revoke_coll"
  BY <1>1, <1>8 DEF ApplyBlock
<1> QED BY <1>2, <1>3, <1>4, <1>5, <1>6, <1>7, <1>8

(* A mint, complete or not, logs ids no token has yet. *)
LEMMA MintLogged ==
  ASSUME TypeOK, ByOwnerConsistent, LogReplaysOwners, NEW reqs \in MintBatches, Mint(reqs)
  PROVE  LogReplaysOwners'
<1> DEFINE Ids == NewIds(reqs)
           request == [id \in Ids |-> reqs[id - current_token_id + 1]]
           to == [id \in Ids |-> request[id].token_owner]
<1>1. log \in Replay /\ last_token_id \in Nat
  BY LedgerAssumption DEF TypeOK
<1>2. ASSUME NEW S, log' = ApplyMints(log, S, to)
      PROVE  \A id \in TokenId : log'.owner[id] = IF id \in S THEN to[id] ELSE log.owner[id]
  <2> HIDE DEF Ids, request, to
  <2> QED BY <1>1, <1>2 DEF ApplyMints, Replay
<1>3. \A id \in TokenId : id >= last_token_id => tokens_list[id] = None
  BY <1>1, LiveIsIssued DEF TokenExists, TokenId
<1>4. CASE /\ \E k \in 0..(Len(reqs) - 1) :
                log' = ApplyMints(log, current_token_id .. (current_token_id + k - 1), to)
           /\ UNCHANGED tokenVars
  <2>1. PICK k \in 0..(Len(reqs) - 1) :
          log' = ApplyMints(log, current_token_id .. (current_token_id + k - 1), to)
    BY <1>4
  <2>2. \A id \in TokenId : id \notin (current_token_id .. (current_token_id + k - 1)) =>
          log'.owner[id] = log.owner[id]
    BY <1>2, <2>1
  <2>3. \A id \in TokenId : id \in (current_token_id .. (current_token_id + k - 1)) =>
          id >= last_token_id
    BY DEF current_token_id
  <2>4. UNCHANGED <<tokens_list, last_token_id>>
    BY <1>4 DEF tokenVars
  <2> HIDE DEF to
  <2> QED BY <1>3, <2>2, <2>3, <2>4 DEF LogReplaysOwners
<1>5. CASE /\ log' = ApplyMints(log, Ids, to)
           /\ last_token_id' = current_token_id + Len(reqs)
           /\ tokens_list' = [id \in TokenId |-> IF id \in Ids THEN to[id] ELSE tokens_list[id]]
  <2>1. \A id \in TokenId : log'.owner[id] = IF id \in Ids THEN to[id] ELSE log.owner[id]
    BY <1>2, <1>5
  <2>2. \A id \in TokenId :
          id >= last_token_id /\ id \notin Ids => id >= last_token_id'
    BY <1>1, <1>5, MintOwners DEF NewIds, current_token_id, TokenId
  <2> HIDE DEF Ids, request, to
  <2>3. \A id \in TokenId : tokens_list'[id] = IF id \in Ids THEN to[id] ELSE tokens_list[id]
    BY <1>5
  <2> QED BY <2>1, <2>2, <2>3 DEF LogReplaysOwners
<1> QED BY <1>4, <1>5 DEF Mint

(* Every step leaves the owners and the log in agreement. *)
LEMMA LogReplaysOwnersStep ==
  TypeOK /\ ByOwnerConsistent /\ LogReplaysOwners /\ [Next]_vars => LogReplaysOwners'
<1> SUFFICES ASSUME TypeOK, ByOwnerConsistent, LogReplaysOwners, [Next]_vars
             PROVE  LogReplaysOwners'
  OBVIOUS
<1>1. log \in Replay /\ log.owner \in [TokenId -> Account \cup {None}]
  BY DEF TypeOK, Replay
<1>2. CASE log'.owner = log.owner /\ UNCHANGED <<tokens_list, last_token_id>>
  BY <1>2 DEF LogReplaysOwners
<1>3. ASSUME NEW id \in TokenId, NEW o,
             tokens_list' = [tokens_list EXCEPT ![id] = o],
             log'.owner = [log.owner EXCEPT ![id] = o],
             UNCHANGED last_token_id
      PROVE  LogReplaysOwners'
  BY <1>1, <1>3 DEF LogReplaysOwners, TypeOK
<1>4. ASSUME NEW reqs \in MintBatches, Mint(reqs) PROVE LogReplaysOwners'
  BY <1>4, MintLogged
<1>5. ASSUME NEW caller, NEW id \in TokenId, BurnNft(caller, id) PROVE LogReplaysOwners'
  <2> DEFINE b == [op |-> "7burn", tid |-> id, from |-> tokens_list[id]]
  <2>1. log' = ApplyBlock(log, b)
    BY <1>5 DEF BurnNft, icrc3_add_transaction
  <2>2. ApplyBlock(log, b).owner = [log.owner EXCEPT ![id] = None]
    <3>1. b.op = "7burn" /\ b.tid = id
      OBVIOUS
    <3> HIDE DEF b
    <3> QED BY <1>1, <3>1, ApplyBlockOwner
  <2>3. log'.owner = [log.owner EXCEPT ![id] = None]
    BY <2>1, <2>2
  <2> HIDE DEF b
  <2> QED BY <1>3, <1>5, <2>3 DEF BurnNft
<1>6. ASSUME NEW caller, NEW id \in TokenId, NEW to \in Account, Icrc7Transfer(caller, id, to)
      PROVE  LogReplaysOwners'
  <2> DEFINE b == [op |-> "7xfer", tid |-> id, from |-> tokens_list[id], to |-> to]
  <2>1. log' = ApplyBlock(log, b)
    BY <1>6 DEF Icrc7Transfer, icrc3_add_transaction
  <2>2. ApplyBlock(log, b).owner = [log.owner EXCEPT ![id] = to]
    <3>1. b.op = "7xfer" /\ b.tid = id /\ b.to = to
      OBVIOUS
    <3> HIDE DEF b
    <3> QED BY <1>1, <3>1, ApplyBlockOwner
  <2>3. log'.owner = [log.owner EXCEPT ![id] = to]
    BY <2>1, <2>2
  <2> HIDE DEF b
  <2> QED BY <1>3, <1>6, <2>3 DEF Icrc7Transfer, MoveToken
<1>7. ASSUME NEW a, NEW id \in TokenId, NEW s, NEW e, ApproveToken(a, id, s, e)
      PROVE  LogReplaysOwners'
  <2> DEFINE b == [op |-> "37approve", tid |-> id, from |-> a, spender |-> s, exp |-> e]
  <2>1. log' = ApplyBlock(log, b)
    BY <1>7 DEF ApproveToken, icrc3_add_transaction
  <2>2. ApplyBlock(log, b).owner = log.owner
    BY <1>1, ApplyBlockOwner
  <2>3. log'.owner = log.owner
    BY <2>1, <2>2
  <2> HIDE DEF b
  <2> QED BY <1>2, <1>7, <2>3 DEF ApproveToken
<1>8. ASSUME NEW a, NEW s, NEW e, ApproveCollection(a, s, e) PROVE LogReplaysOwners'
  <2> DEFINE b == [op |-> "37approve_coll", from |-> a, spender |-> s, exp |-> e]
  <2>1. log' = ApplyBlock(log, b)
    BY <1>8 DEF ApproveCollection, icrc3_add_transaction
  <2>2. ApplyBlock(log, b).owner = log.owner
    BY <1>1, ApplyBlockOwner
  <2>3. log'.owner = log.owner
    BY <2>1, <2>2
  <2> HIDE DEF b
  <2> QED BY <1>2, <1>8, <2>3 DEF ApproveCollection
<1>9. ASSUME NEW a, NEW id, NEW s, RevokeTokenApprovals(a, id, s) PROVE LogReplaysOwners'
  <2> DEFINE b == [op |-> "37revoke", tid |-> id, from |-> a, spender |-> s]
  <2>1. log' = ApplyBlock(log, b)
    BY <1>9 DEF RevokeTokenApprovals, icrc3_add_transaction
  <2>2. ApplyBlock(log, b).owner = log.owner
    BY <1>1, ApplyBlockOwner
  <2>3. log'.owner = log.owner
    BY <2>1, <2>2
  <2> HIDE DEF b
  <2> QED BY <1>2, <1>9, <2>3 DEF RevokeTokenApprovals
<1>10. ASSUME NEW caller, NEW s, RevokeCollectionApprovals(caller, s) PROVE LogReplaysOwners'
  <2> DEFINE b == [op |-> "37revoke_coll", spender |-> s,
                 from |-> [owner |-> caller, subaccount |-> None]]
  <2>1. log' = ApplyBlock(log, b)
    BY <1>10 DEF RevokeCollectionApprovals, icrc3_add_transaction
  <2>2. ApplyBlock(log, b).owner = log.owner
    BY <1>1, ApplyBlockOwner
  <2>3. log'.owner = log.owner
    BY <2>1, <2>2
  <2> HIDE DEF b
  <2> QED BY <1>2, <1>10, <2>3 DEF RevokeCollectionApprovals
<1>11. ASSUME NEW s, NEW id \in TokenId, NEW from, NEW to, TransferFrom(s, id, from, to)
       PROVE  LogReplaysOwners'
  <2>1. CASE UNCHANGED <<log, tokens_list>>
    BY <1>2, <1>11, <2>1 DEF TransferFrom
  <2>2. CASE /\ icrc3_add_transaction([op |-> "37xfer", tid |-> id, from |-> from, to |-> to,
                                       spender |-> s])
             /\ MoveToken(id, to)
    <3> DEFINE b == [op |-> "37xfer", tid |-> id, from |-> from, to |-> to, spender |-> s]
    <3>1. log' = ApplyBlock(log, b)
      BY <2>2 DEF icrc3_add_transaction
    <3>2. ApplyBlock(log, b).owner = [log.owner EXCEPT ![id] = to]
      <4>1. b.op = "37xfer" /\ b.tid = id /\ b.to = to
        OBVIOUS
      <4> HIDE DEF b
      <4> QED BY <1>1, <4>1, ApplyBlockOwner
    <3>3. log'.owner = [log.owner EXCEPT ![id] = to]
      BY <3>1, <3>2
    <3> HIDE DEF b
    <3> QED BY <1>3, <1>11, <2>2, <3>3 DEF TransferFrom, MoveToken
  <2> QED BY <1>11, <2>1, <2>2 DEF TransferFrom
<1>12. CASE UNCHANGED <<log, tokens_list, last_token_id>>
  BY <1>2, <1>12
<1>13. CASE UNCHANGED vars
  BY <1>12, <1>13 DEF vars
<1>14. CASE Next
  BY <1>4, <1>5, <1>6, <1>7, <1>8, <1>9, <1>10, <1>11, <1>12, <1>14
     DEF Next, Tick, UpdateCollectionMetadata, UpdateNftMetadata
<1> QED BY <1>13, <1>14

(* A reader of the block log learns the owner of every token that exists,  *)
(* whatever mints failed half way before it was issued.                    *)
THEOREM LogTellsOwners == Spec => []LogReplaysOwners
<1>1. Init => LogReplaysOwners
  BY DEF Init, LogReplaysOwners
<1>2. TypeOK /\ ByOwnerConsistent /\ LogReplaysOwners /\ [Next]_vars => LogReplaysOwners'
  BY LogReplaysOwnersStep
<1> QED BY <1>1, <1>2, TypeCorrect, IndicesConsistent, PTL DEF Spec

-----------------------------------------------------------------------------
(* What an id collects before it is issued, and what a mint leaves alone.  *)

(* Ids are issued in order: last_token_id never decreases. *)
LEMMA LastTokenIdGrows ==
  ASSUME TypeOK, [Next]_vars
  PROVE  last_token_id' >= last_token_id
<1>1. last_token_id \in Nat
  BY LedgerAssumption DEF TypeOK
<1>2. ASSUME NEW reqs \in MintBatches, Mint(reqs) PROVE last_token_id' >= last_token_id
  BY <1>1, <1>2, MintOwners DEF Mint, tokenVars, current_token_id
<1>3. CASE UNCHANGED last_token_id
  BY <1>1, <1>3
<1>4. CASE UNCHANGED vars
  BY <1>3, <1>4 DEF vars
<1>5. CASE Next
  <2>1. UNCHANGED last_token_id \/ \E reqs \in MintBatches : Mint(reqs)
    <3>1. Tick => UNCHANGED last_token_id
      BY DEF Tick
    <3>2. \A caller, id, to : \/ BurnNft(caller, id)
                             \/ Icrc7Transfer(caller, id, to)
                             => UNCHANGED last_token_id
      BY DEF BurnNft, Icrc7Transfer
    <3>3. \A s, id, from, to : TransferFrom(s, id, from, to) => UNCHANGED last_token_id
      BY DEF TransferFrom
    <3> QED BY <1>5, <3>1, <3>2, <3>3
         DEF Next, UpdateCollectionMetadata, UpdateNftMetadata,
             ApproveToken, ApproveCollection, RevokeTokenApprovals, RevokeCollectionApprovals
  <2> QED BY <1>2, <1>3, <2>1
<1> QED BY <1>4, <1>5

(* Only tokens that exist are approved for, and those were issued. *)
LEMMA ApprovalsOnIssuedTokensStep ==
  TypeOK /\ ByOwnerConsistent /\ ApprovalsOnIssuedTokens /\ [Next]_vars
    => ApprovalsOnIssuedTokens'
<1> SUFFICES ASSUME TypeOK, ByOwnerConsistent, ApprovalsOnIssuedTokens, [Next]_vars
             PROVE  ApprovalsOnIssuedTokens'
  OBVIOUS
<1>1. ASSUME NEW i \in TokenId, i < last_token_id PROVE i < last_token_id'
  <2>1. last_token_id \in Int /\ last_token_id' \in Int
    <3>1. TypeOK'
      BY TypeOKStep
    <3> QED BY <3>1, LedgerAssumption DEF TypeOK
  <2> QED BY <1>1, <2>1, LastTokenIdGrows, LedgerAssumption DEF TokenId
<1>2. CASE UNCHANGED token_approvals
  BY <1>1, <1>2 DEF ApprovalsOnIssuedTokens
<1>3. ASSUME NEW id \in TokenId, TokenExists(id),
             \A i \in TokenId : i # id => token_approvals'[i] = token_approvals[i]
      PROVE  ApprovalsOnIssuedTokens'
  BY <1>1, <1>3, LiveIsIssued DEF ApprovalsOnIssuedTokens
<1>4. ASSUME NEW a \in Account, NEW id \in TokenId, NEW s, NEW e, ApproveToken(a, id, s, e)
      PROVE  ApprovalsOnIssuedTokens'
  <2>1. TokenExists(id)
    BY <1>4, LedgerAssumption DEF ApproveToken, Owns, TokenExists
  <2> QED BY <1>3, <1>4, <2>1 DEF ApproveToken, TypeOK
<1>5. ASSUME NEW a \in Account, NEW id \in TokenId, NEW s, RevokeTokenApprovals(a, id, s)
      PROVE  ApprovalsOnIssuedTokens'
  <2>1. TokenExists(id)
    BY <1>5, LedgerAssumption DEF RevokeTokenApprovals, Owns, TokenExists
  <2> QED BY <1>3, <1>5, <2>1 DEF RevokeTokenApprovals, TypeOK
<1>6. ASSUME NEW s, NEW id \in TokenId, NEW from, NEW to, TransferFrom(s, id, from, to)
      PROVE  ApprovalsOnIssuedTokens'
  BY <1>3, <1>6 DEF TransferFrom, TypeOK
<1>7. CASE UNCHANGED vars
  BY <1>2, <1>7 DEF vars
<1>8. CASE Next
  BY <1>2, <1>4, <1>5, <1>6, <1>8
     DEF Next, Tick, UpdateCollectionMetadata, Mint, UpdateNftMetadata, BurnNft,
         Icrc7Transfer, ApproveCollection, RevokeCollectionApprovals
<1> QED BY <1>7, <1>8

(* An id that was not issued collects no approvals, so that its first      *)
(* owner starts without any.                                               *)
THEOREM NoApprovalsBeforeMint == Spec => []ApprovalsOnIssuedTokens
<1>1. Init => ApprovalsOnIssuedTokens
  BY DEF Init, ApprovalsOnIssuedTokens
<1> QED BY <1>1, ApprovalsOnIssuedTokensStep, TypeCorrect, IndicesConsistent, PTL DEF Spec

(* No mint, complete or not, writes the metadata of a token that exists:   *)
(* the ids it derives from last_token_id are above those of all tokens.    *)
THEOREM MintKeepsMetadata == Spec => MetadataKeptByMint
<1> DEFINE Kept == \A reqs \in MintBatches :
                     Mint(reqs) => \A id \in LiveTokens : metadata'[id] = metadata[id]
<1>1. TypeOK /\ ByOwnerConsistent => [Kept]_vars
  <2> SUFFICES ASSUME TypeOK, ByOwnerConsistent,
                      NEW reqs \in MintBatches, Mint(reqs), NEW id \in LiveTokens
               PROVE  metadata'[id] = metadata[id]
    OBVIOUS
  <2>1. id \in TokenId /\ id < last_token_id
    BY LiveIsIssued DEF LiveTokens, TokenExists
  <2>2. id \notin NewIds(reqs)
    BY <2>1, LedgerAssumption DEF NewIds, current_token_id, TypeOK, TokenId
  <2> QED BY <2>1, <2>2 DEF Mint, TypeOK
<1> QED BY <1>1, TypeCorrect, IndicesConsistent, PTL DEF Spec, MetadataKeptByMint

-----------------------------------------------------------------------------
(* The ledger implements the registry: a complete mint is Issue, a burn    *)
(* Retire, a transfer of either kind Move, new settings SetCap, and every  *)
(* other step leaves the registry's variables alone.                       *)

(* Moving a token is a Move of the registry. *)
LEMMA MoveIsMove ==
  ASSUME NEW id \in TokenId, NEW to \in Account, TokenExists(id), tokens_list[id] # to,
         MoveToken(id, to), UNCHANGED <<last_token_id, settings>>
  PROVE  Registry!Next
<1>1. Registry!Move(id, to)
  BY DEF Registry!Move, MoveToken, TokenExists
<1> QED BY <1>1 DEF Registry!Next, Registry!TokenId, TokenId

(* A mint that completes issues the ids of its batch, one that fails half  *)
(* way changes nothing the registry sees.                                  *)
LEMMA MintIsIssue ==
  ASSUME TypeOK, NEW reqs \in MintBatches, Mint(reqs)
  PROVE  Registry!Next \/ UNCHANGED Registry!vars
<1> DEFINE Ids == NewIds(reqs)
           request == [id \in Ids |-> reqs[id - current_token_id + 1]]
           to == [id \in Ids |-> request[id].token_owner]
           n == Len(reqs)
<1>1. CASE UNCHANGED tokenVars
  BY <1>1 DEF Mint, tokenVars, Registry!vars
<1>2. CASE /\ last_token_id' = current_token_id + Len(reqs)
           /\ tokens_list' = [id \in TokenId |-> IF id \in Ids THEN to[id] ELSE tokens_list[id]]
  <2>1. Ids = last_token_id..(last_token_id + n - 1)
    BY DEF NewIds, current_token_id
  <2>2. n \in Nat /\ n >= 1 /\ last_token_id \in Nat /\ last_token_id >= 1
    BY MintOwners, LedgerAssumption DEF TypeOK
  <2>3. n \in 1..MaxTokenId /\ last_token_id + n - 1 <= MaxTokenId
    <3>1. Ids \subseteq TokenId
      BY DEF Mint
    <3>2. last_token_id + n - 1 \in Ids
      BY <2>1, <2>2
    <3> QED BY <2>2, <3>1, <3>2, LedgerAssumption DEF TokenId
  <2>4. to \in [last_token_id..(last_token_id + n - 1) -> Account]
    <3>1. \A id \in Ids : to[id] \in Account
      BY MintOwners DEF MintRequest
    <3>2. to = [id \in Ids |-> to[id]]
      OBVIOUS
    <3> HIDE DEF to, n, Ids
    <3>3. to \in [Ids -> Account]
      BY <3>1, <3>2
    <3> QED BY <2>1, <3>3
  <2>5. Registry!Supply + n <= settings.supply_cap
    <3>1. Registry!Supply = Cardinality(LiveTokens)
      BY DEF Registry!Supply, Registry!TokenId, LiveTokens, TokenId, Cardinality, Registry!Cardinality
    <3> QED BY <3>1 DEF Mint
  <2>6. UNCHANGED settings
    BY DEF Mint
  <2>7. Registry!Issue(n, to)
    <3> HIDE DEF to, n, Ids
    <3>1. tokens_list' = [id \in Registry!TokenId |->
            IF id \in last_token_id..(last_token_id + n - 1) THEN to[id] ELSE tokens_list[id]]
      BY <1>2, <2>1 DEF Registry!TokenId, TokenId
    <3>2. last_token_id' = last_token_id + n
      BY <1>2 DEF n, current_token_id
    <3> QED BY <2>3, <2>5, <2>6, <3>1, <3>2 DEF Registry!Issue
  <2> HIDE DEF to, n, Ids
  <2> QED BY <2>3, <2>4, <2>7 DEF Registry!Next
<1> QED BY <1>1, <1>2 DEF Mint

(* Every step of the ledger is a step of the registry or a stutter. *)
LEMMA RegistryStep ==
  ASSUME TypeOK, [Next]_vars
  PROVE  [Registry!Next]_(Registry!vars)
<1>1. CASE UNCHANGED <<tokens_list, last_token_id, settings>>
  BY <1>1 DEF Registry!vars
<1>2. ASSUME NEW new \in Settings, UpdateCollectionMetadata(new) PROVE Registry!Next
  <2>1. settings'.supply_cap \in Nat
    BY <1>2, LedgerAssumption DEF UpdateCollectionMetadata, Settings
  <2> QED BY <1>2, <2>1 DEF UpdateCollectionMetadata, Registry!Next, Registry!SetCap
<1>3. ASSUME NEW reqs \in MintBatches, Mint(reqs)
      PROVE  Registry!Next \/ UNCHANGED Registry!vars
  BY <1>3, MintIsIssue
<1>4. ASSUME NEW caller, NEW id \in TokenId, BurnNft(caller, id) PROVE Registry!Next
  <2>1. Registry!Retire(id)
    BY <1>4 DEF BurnNft, TokenExists, Registry!Retire
  <2> QED BY <2>1 DEF Registry!Next, Registry!TokenId, TokenId
<1>5. ASSUME NEW caller, NEW id \in TokenId, NEW to \in Account, Icrc7Transfer(caller, id, to)
      PROVE  Registry!Next
  BY <1>5, MoveIsMove DEF Icrc7Transfer
<1>6. ASSUME NEW s, NEW id \in TokenId, NEW from, NEW to \in Account,
             TransferFrom(s, id, from, to)
      PROVE  Registry!Next \/ UNCHANGED Registry!vars
  <2>1. CASE UNCHANGED tokens_list
    BY <1>6, <2>1 DEF TransferFrom, Registry!vars
  <2>2. CASE tokens_list[id] = from /\ MoveToken(id, to)
    BY <1>6, <2>2, MoveIsMove DEF TransferFrom
  <2> QED BY <1>6, <2>1, <2>2 DEF TransferFrom
<1>7. CASE UNCHANGED vars
  BY <1>1, <1>7 DEF vars
<1>8. CASE Next
  BY <1>1, <1>2, <1>3, <1>4, <1>5, <1>6, <1>8
     DEF Next, Tick, UpdateNftMetadata, ApproveToken, ApproveCollection, RevokeTokenApprovals,
         RevokeCollectionApprovals
<1> QED BY <1>7, <1>8

(* The ledger keeps the promises of the registry: ids issued once and in   *)
(* order, the supply never raised beyond the cap, a token moved only       *)
(* between different accounts, a burned token gone for good.               *)
THEOREM LedgerImplementsRegistry == Spec => ImplementsRegistry
<1>1. Init => Registry!Init
  <2> SUFFICES ASSUME Init PROVE Registry!Init
    OBVIOUS
  <2>1. settings.supply_cap \in Nat
    BY LedgerAssumption DEF Init, Settings
  <2> QED BY <2>1 DEF Init, Registry!Init, Registry!TokenId, TokenId
<1>2. TypeOK /\ [Next]_vars => [Registry!Next]_(Registry!vars)
  BY RegistryStep
<1> QED BY <1>1, <1>2, TypeCorrect, PTL DEF Spec, ImplementsRegistry, Registry!Spec
=============================================================================
