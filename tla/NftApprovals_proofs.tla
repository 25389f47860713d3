------------------------- MODULE NftApprovals_proofs -------------------------
(***************************************************************************)
(* Proofs about the approvals of NftLedger: their number, and what a       *)
(* reader of the block log knows of them.                                  *)
(***************************************************************************)
EXTENDS NftLedger_proofs, FiniteSetTheorems

-----------------------------------------------------------------------------
(* The number of approvals.                                                *)

(* A map, or its absence, that respects max_approvals_per_token_or_        *)
(* collection.                                                             *)
WithinLimit(m) == Cardinality(DOMAIN MapOf(m)) <= MaxApprovals

(* The spenders of a map are finitely many accounts. *)
LEMMA FiniteDomain ==
  ASSUME NEW m \in ApprovalMap
  PROVE  IsFiniteSet(DOMAIN m) /\ Cardinality(DOMAIN m) \in Nat
<1>1. DOMAIN m \subseteq Account
  BY DEF ApprovalMap
<1>2. IsFiniteSet(DOMAIN m)
  BY <1>1, FS_Subset, LedgerAssumption
<1> QED BY <1>2, FS_CardinalityType

(* No map is within the limit. *)
LEMMA NoneWithinLimit == WithinLimit(None) /\ WithinLimit(NoApprovals)
<1>1. DOMAIN MapOf(None) = {} /\ DOMAIN MapOf(NoApprovals) = {}
  BY DEF MapOf, NoApprovals
<1>2. Cardinality({}) = 0
  BY FS_EmptySet
<1> QED BY <1>1, <1>2, LedgerAssumption DEF WithinLimit

(* Adding a spender to a map that has room stays within the limit, a       *)
(* spender it already has included.                                        *)
LEMMA PutWithinLimit ==
  ASSUME NEW m \in ApprovalMap \cup {None}, NEW s \in Account, NEW a \in Approval, HasRoom(m)
  PROVE  WithinLimit(Put(MapOf(m), s, a))
<1> DEFINE D == DOMAIN MapOf(m)
           p == Put(MapOf(m), s, a)
<1>1. MapOf(m) \in ApprovalMap /\ p \in ApprovalMap
  BY MapOfType, PutType
<1>2. IsFiniteSet(D) /\ Cardinality(D) \in Nat
  BY <1>1, FiniteDomain
<1>3. MapOf(p) = p /\ DOMAIN p = D \cup {s}
  BY <1>1, LedgerAssumption DEF MapOf, Put
<1>4. Cardinality(D \cup {s}) = IF s \in D THEN Cardinality(D) ELSE Cardinality(D) + 1
  BY <1>2, FS_AddElement
<1>5. Cardinality(D) < MaxApprovals
  BY DEF HasRoom
<1> HIDE DEF D, p
<1>6. Cardinality(D \cup {s}) <= MaxApprovals
  BY <1>2, <1>4, <1>5, LedgerAssumption
<1> QED BY <1>3, <1>6 DEF WithinLimit, p

(* Removing spenders does. *)
LEMMA DropWithinLimit ==
  ASSUME NEW m \in ApprovalMap, NEW s, WithinLimit(m)
  PROVE  WithinLimit(Drop(m, s))
<1>1. Drop(m, s) \in ApprovalMap
  BY DropType
<1>2. MapOf(m) = m /\ MapOf(Drop(m, s)) = Drop(m, s)
  BY <1>1, LedgerAssumption DEF MapOf
<1>3. DOMAIN Drop(m, s) \subseteq DOMAIN m
  BY DEF Drop
<1>4. Cardinality(DOMAIN Drop(m, s)) <= Cardinality(DOMAIN m)
  BY <1>3, FiniteDomain, FS_Subset
<1>5. Cardinality(DOMAIN Drop(m, s)) \in Nat /\ Cardinality(DOMAIN m) \in Nat
  BY <1>1, FiniteDomain
<1>6. Cardinality(DOMAIN m) <= MaxApprovals
  BY <1>2 DEF WithinLimit
<1>7. Cardinality(DOMAIN Drop(m, s)) <= MaxApprovals
  BY <1>4, <1>5, <1>6, LedgerAssumption
<1> QED BY <1>2, <1>7 DEF WithinLimit

(* Revoking, and purging an expired approval, are removals. *)
LEMMA RemovalsWithinLimit ==
  ASSUME NEW m \in ApprovalMap \cup {None}, NEW s, WithinLimit(m)
  PROVE  /\ m # None => WithinLimit(Revoked(m, s))
         /\ WithinLimit(Purged(m, s))
<1>1. m # None => WithinLimit(Revoked(m, s))
  BY DropWithinLimit, NoneWithinLimit DEF Revoked
<1>2. CASE m = None
  <2>1. Purged(m, s) = m
    BY <1>2 DEF Purged, MapOf, NoApprovals
  <2> QED BY <1>1, <2>1
<1>3. CASE m # None
  BY <1>1, <1>3, DropWithinLimit DEF Purged
<1> QED BY <1>2, <1>3

(* Every step keeps the approvals within the limit. *)
LEMMA ApprovalsWithinLimitStep ==
  TypeOK /\ ApprovalsWithinLimit /\ [Next]_vars => ApprovalsWithinLimit'
<1> DEFINE TokensWithin(t) == \A id \in TokenId : WithinLimit(t[id])
           CollectionsWithin(c) == \A a \in Account : WithinLimit(c[a])
<1> SUFFICES ASSUME TypeOK, ApprovalsWithinLimit, [Next]_vars PROVE ApprovalsWithinLimit'
  OBVIOUS
<1>1. TokensWithin(token_approvals) /\ CollectionsWithin(collection_approvals)
  BY DEF ApprovalsWithinLimit, WithinLimit
<1>2. SUFFICES TokensWithin(token_approvals') /\ CollectionsWithin(collection_approvals')
  BY DEF ApprovalsWithinLimit, WithinLimit, MapOf
<1>3. /\ token_approvals \in [TokenId -> ApprovalMap \cup {None}]
      /\ collection_approvals \in [Account -> ApprovalMap \cup {None}]
  BY DEF TypeOK
<1>4. ASSUME NEW a \in Account, NEW id \in TokenId, NEW s \in Spender, NEW e \in Expiry,
             ApproveToken(a, id, s, e)
      PROVE  TokensWithin(token_approvals') /\ CollectionsWithin(collection_approvals')
  <2>1. WithinLimit(Put(MapOf(token_approvals[id]), s, [from |-> a, expires_at |-> e]))
    BY <1>3, <1>4, PutWithinLimit, LedgerAssumption DEF ApproveToken, Approval
  <2> QED BY <1>1, <1>3, <1>4, <2>1 DEF ApproveToken
<1>5. ASSUME NEW a \in Account, NEW s \in Spender, NEW e \in Expiry,
             ApproveCollection(a, s, e)
      PROVE  TokensWithin(token_approvals') /\ CollectionsWithin(collection_approvals')
  <2>1. WithinLimit(Put(MapOf(collection_approvals[a]), s, [from |-> a, expires_at |-> e]))
    BY <1>3, <1>5, PutWithinLimit, LedgerAssumption DEF ApproveCollection, Approval
  <2> QED BY <1>1, <1>3, <1>5, <2>1 DEF ApproveCollection
<1>6. ASSUME NEW a, NEW id \in TokenId, NEW s, RevokeTokenApprovals(a, id, s)
      PROVE  TokensWithin(token_approvals') /\ CollectionsWithin(collection_approvals')
  <2>1. WithinLimit(Revoked(token_approvals[id], s))
    BY <1>1, <1>3, <1>6, RemovalsWithinLimit DEF RevokeTokenApprovals
  <2> QED BY <1>1, <1>3, <1>6, <2>1 DEF RevokeTokenApprovals
<1>7. ASSUME NEW caller, NEW s, RevokeCollectionApprovals(caller, s)
      PROVE  TokensWithin(token_approvals') /\ CollectionsWithin(collection_approvals')
  <2> DEFINE a == [owner |-> caller, subaccount |-> None]
  <2>1. a \in Account /\ WithinLimit(Revoked(collection_approvals[a], s))
    BY <1>1, <1>3, <1>7, RemovalsWithinLimit DEF RevokeCollectionApprovals
  <2> QED BY <1>1, <1>3, <1>7, <2>1 DEF RevokeCollectionApprovals
<1>8. ASSUME NEW s \in Account, NEW id \in TokenId, NEW from \in Account, NEW to \in Account,
             TransferFrom(s, id, from, to)
      PROVE  TokensWithin(token_approvals') /\ CollectionsWithin(collection_approvals')
  <2> DEFINE owner == tokens_list[id]
             tokenPurged == [token_approvals EXCEPT ![id] = Purged(@, s)]
             collectionPurged == [collection_approvals EXCEPT ![owner] = Purged(@, s)]
  <2>1. owner \in Account
    BY <1>8, OwnerIsAccount DEF TransferFrom, TokenExists
  <2>2. /\ WithinLimit(Purged(token_approvals[id], s))
        /\ WithinLimit(Purged(collection_approvals[owner], s))
    BY <1>1, <1>3, <2>1, RemovalsWithinLimit
  <2>3. TokensWithin(tokenPurged) /\ CollectionsWithin(collectionPurged)
    BY <1>1, <1>3, <2>1, <2>2
  <2>4. /\ tokenPurged \in [TokenId -> ApprovalMap \cup {None}]
        /\ collectionPurged \in [Account -> ApprovalMap \cup {None}]
    BY <1>3, <2>1, PurgedType
  <2>5. \/ token_approvals' = tokenPurged /\ collection_approvals' = collectionPurged
        \/ /\ token_approvals' = [tokenPurged EXCEPT ![id] = None]
           /\ collection_approvals' = [collectionPurged EXCEPT ![from] = None]
    BY <1>8 DEF TransferFrom
  <2> HIDE DEF tokenPurged, collectionPurged
  <2> QED BY <2>3, <2>4, <2>5, NoneWithinLimit
<1>9. CASE UNCHANGED <<token_approvals, collection_approvals>>
  BY <1>1, <1>9
<1>10. CASE UNCHANGED vars
  BY <1>9, <1>10 DEF vars
<1>11. CASE Next
  BY <1>4, <1>5, <1>6, <1>7, <1>8, <1>9, <1>11
     DEF Next, Tick, UpdateCollectionMetadata, Mint, UpdateNftMetadata, BurnNft, Icrc7Transfer
<1> QED BY <1>10, <1>11

(* No token and no account ever has more approvals than                    *)
(* max_approvals_per_token_or_collection.                                  *)
THEOREM ApprovalsLimited == Spec => []ApprovalsWithinLimit
<1>1. Init => ApprovalsWithinLimit
  BY NoneWithinLimit DEF Init, ApprovalsWithinLimit, WithinLimit
<1> QED BY <1>1, ApprovalsWithinLimitStep, TypeCorrect, PTL DEF Spec

-----------------------------------------------------------------------------
(* The approvals in force and those of the log.                            *)

(* At time t, the map m of the state and the map l of the log hold the     *)
(* same approvals in force.                                                *)
SameLive(m, l, t) == Live(MapOf(m), t) = Live(l, t)

(* The approval m gives s is in force at t. *)
LiveIn(m, s, t) == s \in DOMAIN m /\ ~Expired(m[s], t)

(* Two maps hold the same approvals in force when they agree on every      *)
(* spender either of them has in force.                                    *)
LEMMA LiveEqual ==
  ASSUME NEW m \in ApprovalMap, NEW l \in ApprovalMap, NEW t
  PROVE  Live(m, t) = Live(l, t) <=>
           \A s : /\ LiveIn(m, s, t) <=> LiveIn(l, s, t)
                  /\ LiveIn(m, s, t) => m[s] = l[s]
<1> DEFINE D(x) == {r \in DOMAIN x : ~Expired(x[r], t)}
<1>1. Live(m, t) = [s \in D(m) |-> m[s]] /\ Live(l, t) = [s \in D(l) |-> l[s]]
  BY DEF Live
<1>2. \A s : (s \in D(m) <=> LiveIn(m, s, t)) /\ (s \in D(l) <=> LiveIn(l, s, t))
  BY DEF LiveIn
<1> HIDE DEF D
<1>3. ASSUME Live(m, t) = Live(l, t)
      PROVE  \A s : /\ LiveIn(m, s, t) <=> LiveIn(l, s, t)
                    /\ LiveIn(m, s, t) => m[s] = l[s]
  <2>1. D(m) = D(l)
    <3>1. DOMAIN Live(m, t) = D(m) /\ DOMAIN Live(l, t) = D(l)
      BY <1>1
    <3> QED BY <1>3, <3>1
  <2>2. ASSUME NEW s \in D(m) PROVE m[s] = l[s]
    <3>1. Live(m, t)[s] = m[s] /\ Live(l, t)[s] = l[s]
      BY <1>1, <2>1
    <3> QED BY <1>3, <3>1
  <2> QED BY <1>2, <2>1, <2>2
<1>4. ASSUME \A s : /\ LiveIn(m, s, t) <=> LiveIn(l, s, t)
                    /\ LiveIn(m, s, t) => m[s] = l[s]
      PROVE  Live(m, t) = Live(l, t)
  <2>1. D(m) = D(l) /\ \A s \in D(m) : m[s] = l[s]
    BY <1>2, <1>4
  <2> QED BY <1>1, <2>1
<1> QED BY <1>3, <1>4

(* Time only ends approvals: maps that agree now agree later. *)
LEMMA SameLiveLater ==
  ASSUME NEW m \in ApprovalMap \cup {None}, NEW l \in ApprovalMap,
         NEW t \in Nat, NEW u \in Nat, t <= u, SameLive(m, l, t)
  PROVE  SameLive(m, l, u)
<1>1. MapOf(m) \in ApprovalMap
  BY MapOfType
<1>2. ASSUME NEW x \in ApprovalMap, NEW s, LiveIn(x, s, u) PROVE LiveIn(x, s, t)
  <2>1. x[s] \in Approval
    BY <1>2 DEF LiveIn, ApprovalMap
  <2>2. x[s].expires_at \in Nat \cup {None}
    BY <2>1, LedgerAssumption DEF Approval
  <2>3. x[s].expires_at = None \/ ~(x[s].expires_at <= u)
    BY <1>2 DEF LiveIn, Expired
  <2>4. x[s].expires_at = None \/ ~(x[s].expires_at <= t)
    BY <2>2, <2>3
  <2> QED BY <1>2, <2>4 DEF LiveIn, Expired
<1>3. \A s : /\ LiveIn(MapOf(m), s, t) <=> LiveIn(l, s, t)
             /\ LiveIn(MapOf(m), s, t) => MapOf(m)[s] = l[s]
  BY <1>1, LiveEqual DEF SameLive
<1>4. \A s : /\ LiveIn(MapOf(m), s, u) <=> LiveIn(l, s, u)
             /\ LiveIn(MapOf(m), s, u) => MapOf(m)[s] = l[s]
  BY <1>1, <1>2, <1>3 DEF LiveIn
<1> QED BY <1>1, <1>4, LiveEqual DEF SameLive

(* Giving both the same approval keeps them in agreement. *)
LEMMA SameLivePut ==
  ASSUME NEW m \in ApprovalMap \cup {None}, NEW l \in ApprovalMap, NEW t,
         NEW s \in Account, NEW a \in Approval, SameLive(m, l, t)
  PROVE  SameLive(Put(MapOf(m), s, a), Put(l, s, a), t)
<1> DEFINE x == MapOf(m)
           px == Put(x, s, a)
           pl == Put(l, s, a)
<1>1. x \in ApprovalMap /\ px \in ApprovalMap /\ pl \in ApprovalMap
  BY MapOfType, PutType
<1>2. MapOf(px) = px
  BY <1>1, LedgerAssumption DEF MapOf
<1>3. \A r : /\ LiveIn(x, r, t) <=> LiveIn(l, r, t)
             /\ LiveIn(x, r, t) => x[r] = l[r]
  BY <1>1, LiveEqual DEF SameLive
<1>4. \A r : /\ LiveIn(px, r, t) <=> LiveIn(pl, r, t)
             /\ LiveIn(px, r, t) => px[r] = pl[r]
  <2> HIDE DEF x
  <2> QED BY <1>3 DEF LiveIn, Put
<1>5. Live(px, t) = Live(pl, t)
  <2> HIDE DEF x, px, pl
  <2> QED BY <1>1, <1>4, LiveEqual
<1> QED BY <1>2, <1>5 DEF SameLive

(* So does removing a spender from both. *)
LEMMA SameLiveDrop ==
  ASSUME NEW m \in ApprovalMap, NEW l \in ApprovalMap, NEW t, NEW s, SameLive(m, l, t)
  PROVE  SameLive(Drop(m, s), Drop(l, s), t)
<1> DEFINE dm == Drop(m, s)
           dl == Drop(l, s)
<1>1. dm \in ApprovalMap /\ dl \in ApprovalMap
  BY DropType
<1>2. MapOf(dm) = dm /\ MapOf(m) = m
  BY <1>1, LedgerAssumption DEF MapOf
<1>3. \A r : /\ LiveIn(m, r, t) <=> LiveIn(l, r, t)
             /\ LiveIn(m, r, t) => m[r] = l[r]
  BY <1>2, LiveEqual DEF SameLive
<1>4. \A r : /\ LiveIn(dm, r, t) <=> LiveIn(dl, r, t)
             /\ LiveIn(dm, r, t) => dm[r] = dl[r]
  BY <1>3 DEF LiveIn, Drop
<1>5. Live(dm, t) = Live(dl, t)
  <2> HIDE DEF dm, dl
  <2> QED BY <1>1, <1>4, LiveEqual
<1> QED BY <1>2, <1>5 DEF SameLive

(* A missing map and an empty one agree. *)
LEMMA SameLiveEmpty ==
  ASSUME NEW t
  PROVE  SameLive(None, NoApprovals, t) /\ SameLive(NoApprovals, NoApprovals, t)
  BY DEF SameLive, MapOf

(* Revoking the same spender, or all, from both keeps them in agreement. *)
LEMMA SameLiveRevoked ==
  ASSUME NEW m \in ApprovalMap, NEW l \in ApprovalMap, NEW t, NEW s, SameLive(m, l, t)
  PROVE  SameLive(Revoked(m, s), Revoked(l, s), t)
  BY SameLiveDrop, SameLiveEmpty DEF Revoked

(* Removing an expired approval from the state alone does not show. *)
LEMMA SameLivePurged ==
  ASSUME NEW m \in ApprovalMap \cup {None}, NEW l \in ApprovalMap, NEW s,
         SameLive(m, l, now)
  PROVE  SameLive(Purged(m, s), l, now)
<1>1. CASE Purged(m, s) = m
  BY <1>1
<1>2. CASE Purged(m, s) # m
  <2>1. /\ Purged(m, s) = Drop(m, s)
        /\ s \in DOMAIN MapOf(m)
        /\ Expired(MapOf(m)[s], now)
    BY <1>2 DEF Purged
  <2>2. m \in ApprovalMap /\ MapOf(m) = m
    BY <2>1 DEF MapOf, NoApprovals
  <2>3. Drop(m, s) \in ApprovalMap /\ MapOf(Drop(m, s)) = Drop(m, s)
    BY <2>2, DropType, LedgerAssumption DEF MapOf
  <2>4. \A r : /\ LiveIn(Drop(m, s), r, now) <=> LiveIn(m, r, now)
               /\ LiveIn(Drop(m, s), r, now) => Drop(m, s)[r] = m[r]
    BY <2>1, <2>2 DEF LiveIn, Drop
  <2>5. Live(Drop(m, s), now) = Live(m, now)
    BY <2>2, <2>3, <2>4, LiveEqual
  <2> QED BY <2>1, <2>2, <2>3, <2>5 DEF SameLive
<1> QED BY <1>1, <1>2

(* What each kind of block does to the approvals a reader computes.        *)

(* A reader's state is a record of three parts. *)
LEMMA ReplayParts ==
  ASSUME NEW r \in Replay
  PROVE  r = [owner |-> r.owner, token_approvals |-> r.token_approvals,
              collection_approvals |-> r.collection_approvals]
BY DEF Replay

(* The block of a transfer or a burn. *)
LEMMA BlockOfTransfer ==
  ASSUME NEW r \in Replay, NEW b, b.op \in {"7xfer", "7burn"}
  PROVE  /\ ApplyBlock(r, b).token_approvals = r.token_approvals
         /\ ApplyBlock(r, b).collection_approvals = r.collection_approvals
BY ReplayParts DEF ApplyBlock

(* The block of a transfer by a spender. *)
LEMMA BlockOfTransferFrom ==
  ASSUME NEW r \in Replay, NEW b, b.op = "37xfer"
  PROVE  /\ ApplyBlock(r, b).token_approvals =
              [r.token_approvals EXCEPT ![b.tid] = NoApprovals]
         /\ ApplyBlock(r, b).collection_approvals =
              [r.collection_approvals EXCEPT ![b.from] = NoApprovals]
<1>1. r = [owner |-> r.owner, token_approvals |-> r.token_approvals,
           collection_approvals |-> r.collection_approvals]
  BY ReplayParts
<1>2. ApplyBlock(r, b) = [r EXCEPT !.owner[b.tid] = b.to,
                                   !.token_approvals[b.tid] = NoApprovals,
                                   !.collection_approvals[b.from] = NoApprovals]
  BY DEF ApplyBlock
<1> QED BY <1>1, <1>2

(* The block of an approval of a token. *)
LEMMA BlockOfTokenApproval ==
  ASSUME NEW r \in Replay, NEW b, b.op = "37approve"
  PROVE  /\ ApplyBlock(r, b).token_approvals =
              [r.token_approvals EXCEPT ![b.tid] =
                Put(r.token_approvals[b.tid], b.spender,
                    [from |-> b.from, expires_at |-> b.exp])]
         /\ ApplyBlock(r, b).collection_approvals = r.collection_approvals
BY ReplayParts DEF ApplyBlock

(* The block of an approval of the collection. *)
LEMMA BlockOfCollectionApproval ==
  ASSUME NEW r \in Replay, NEW b, b.op = "37approve_coll"
  PROVE  /\ ApplyBlock(r, b).token_approvals = r.token_approvals
         /\ ApplyBlock(r, b).collection_approvals =
              [r.collection_approvals EXCEPT ![b.from] =
                Put(r.collection_approvals[b.from], b.spender,
                    [from |-> b.from, expires_at |-> b.exp])]
BY ReplayParts DEF ApplyBlock

(* The block of a revocation of a token's approvals. *)
LEMMA BlockOfTokenRevocation ==
  ASSUME NEW r \in Replay, NEW b, b.op = "37revoke"
  PROVE  /\ ApplyBlock(r, b).token_approvals =
              [r.token_approvals EXCEPT ![b.tid] =
                Revoked(r.token_approvals[b.tid], b.spender)]
         /\ ApplyBlock(r, b).collection_approvals = r.collection_approvals
BY ReplayParts DEF ApplyBlock

(* The block of a revocation of the collection's approvals. *)
LEMMA BlockOfCollectionRevocation ==
  ASSUME NEW r \in Replay, NEW b, b.op = "37revoke_coll"
  PROVE  /\ ApplyBlock(r, b).token_approvals = r.token_approvals
         /\ ApplyBlock(r, b).collection_approvals =
              [r.collection_approvals EXCEPT ![b.from] =
                Revoked(r.collection_approvals[b.from], b.spender)]
BY ReplayParts DEF ApplyBlock

(* The map of one token, or of one account, changes in the state and in    *)
(* the log alike, and the others in neither.                               *)
LEMMA ReplayedTogether ==
  ASSUME TypeOK, LogReplaysApprovals, UNCHANGED now,
         NEW id \in TokenId, NEW a \in Account,
         NEW tm, NEW tl, NEW cm, NEW cl,
         token_approvals' = [token_approvals EXCEPT ![id] = tm],
         log'.token_approvals = [log.token_approvals EXCEPT ![id] = tl],
         SameLive(tm, tl, now),
         collection_approvals' = [collection_approvals EXCEPT ![a] = cm],
         log'.collection_approvals = [log.collection_approvals EXCEPT ![a] = cl],
         SameLive(cm, cl, now)
  PROVE  LogReplaysApprovals'
<1>1. /\ token_approvals \in [TokenId -> ApprovalMap \cup {None}]
      /\ collection_approvals \in [Account -> ApprovalMap \cup {None}]
      /\ log.token_approvals \in [TokenId -> ApprovalMap]
      /\ log.collection_approvals \in [Account -> ApprovalMap]
  BY DEF TypeOK, Replay
<1>2. \A i \in TokenId : SameLive(token_approvals'[i], log'.token_approvals[i], now)
  BY <1>1 DEF LogReplaysApprovals, SameLive
<1>3. \A b \in Account : SameLive(collection_approvals'[b], log'.collection_approvals[b], now)
  BY <1>1 DEF LogReplaysApprovals, SameLive
<1> QED BY <1>2, <1>3 DEF LogReplaysApprovals, SameLive, Live, MapOf

(* Every step leaves the approvals in force and the log in agreement. *)
LEMMA LogReplaysApprovalsStep ==
  TypeOK /\ LogReplaysApprovals /\ [Next]_vars => LogReplaysApprovals'
<1> SUFFICES ASSUME TypeOK, LogReplaysApprovals, [Next]_vars PROVE LogReplaysApprovals'
  OBVIOUS
<1>1. /\ token_approvals \in [TokenId -> ApprovalMap \cup {None}]
      /\ collection_approvals \in [Account -> ApprovalMap \cup {None}]
      /\ log \in Replay
      /\ log.token_approvals \in [TokenId -> ApprovalMap]
      /\ log.collection_approvals \in [Account -> ApprovalMap]
      /\ now \in Nat
  BY LedgerAssumption DEF TypeOK, Replay, Time
<1>2. /\ \A i \in TokenId : SameLive(token_approvals[i], log.token_approvals[i], now)
      /\ \A b \in Account : SameLive(collection_approvals[b], log.collection_approvals[b], now)
  BY DEF LogReplaysApprovals, SameLive
<1>3. CASE /\ UNCHANGED <<token_approvals, collection_approvals, now>>
           /\ log'.token_approvals = log.token_approvals
           /\ log'.collection_approvals = log.collection_approvals
  BY <1>3 DEF LogReplaysApprovals, Live, MapOf
<1>4. CASE Tick
  <2>1. now' = now + 1 /\ UNCHANGED <<token_approvals, collection_approvals, log>>
    BY <1>4 DEF Tick
  <2>2. now' \in Nat /\ now <= now'
    BY <1>1, <2>1
  <2>3. /\ \A i \in TokenId : SameLive(token_approvals[i], log.token_approvals[i], now')
        /\ \A b \in Account : SameLive(collection_approvals[b], log.collection_approvals[b], now')
    BY <1>1, <1>2, <2>2, SameLiveLater
  <2> QED BY <2>1, <2>3 DEF LogReplaysApprovals, SameLive, Live, MapOf
<1>5. ASSUME NEW reqs \in MintBatches, Mint(reqs) PROVE LogReplaysApprovals'
  <2>1. \A S, to : /\ ApplyMints(log, S, to).token_approvals = log.token_approvals
                   /\ ApplyMints(log, S, to).collection_approvals = log.collection_approvals
    BY <1>1 DEF ApplyMints, Replay
  <2>2. /\ log'.token_approvals = log.token_approvals
        /\ log'.collection_approvals = log.collection_approvals
    BY <1>5, <2>1 DEF Mint
  <2> QED BY <1>3, <1>5, <2>2 DEF Mint
<1>6. ASSUME NEW caller, NEW id, BurnNft(caller, id) PROVE LogReplaysApprovals'
  <2>1. /\ log'.token_approvals = log.token_approvals
        /\ log'.collection_approvals = log.collection_approvals
    <3> DEFINE b == [op |-> "7burn", tid |-> id, from |-> tokens_list[id]]
    <3>1. b.op \in {"7xfer", "7burn"} /\ log' = ApplyBlock(log, b)
      BY <1>6 DEF BurnNft, icrc3_add_transaction
    <3> HIDE DEF b
    <3> QED BY <1>1, <3>1, BlockOfTransfer
  <2> QED BY <1>3, <1>6, <2>1 DEF BurnNft
<1>7. ASSUME NEW caller, NEW id, NEW to, Icrc7Transfer(caller, id, to)
      PROVE  LogReplaysApprovals'
  <2>1. /\ log'.token_approvals = log.token_approvals
        /\ log'.collection_approvals = log.collection_approvals
    <3> DEFINE b == [op |-> "7xfer", tid |-> id, from |-> tokens_list[id], to |-> to]
    <3>1. b.op \in {"7xfer", "7burn"} /\ log' = ApplyBlock(log, b)
      BY <1>7 DEF Icrc7Transfer, icrc3_add_transaction
    <3> HIDE DEF b
    <3> QED BY <1>1, <3>1, BlockOfTransfer
  <2> QED BY <1>3, <1>7, <2>1 DEF Icrc7Transfer
<1>8. ASSUME NEW a \in Account, NEW id \in TokenId, NEW s \in Spender, NEW e \in Expiry,
             ApproveToken(a, id, s, e)
      PROVE  LogReplaysApprovals'
  <2> DEFINE ap == [from |-> a, expires_at |-> e]
             tm == Put(MapOf(token_approvals[id]), s, ap)
             tl == Put(log.token_approvals[id], s, ap)
             b == [op |-> "37approve", tid |-> id, from |-> a, spender |-> s, exp |-> e]
  <2>1. /\ log'.token_approvals = [log.token_approvals EXCEPT ![id] = tl]
        /\ log'.collection_approvals = log.collection_approvals
    <3>1. /\ b.op = "37approve" /\ b.tid = id /\ b.from = a /\ b.spender = s /\ b.exp = e
          /\ log' = ApplyBlock(log, b)
      BY <1>8 DEF ApproveToken, icrc3_add_transaction
    <3> HIDE DEF b
    <3> QED BY <1>1, <3>1, BlockOfTokenApproval
  <2>2. s \in Account /\ ap \in Approval
    BY LedgerAssumption DEF Approval
  <2>3. SameLive(tm, tl, now)
    BY <1>1, <1>2, <2>2, SameLivePut
  <2>4. /\ token_approvals' = [token_approvals EXCEPT ![id] = tm]
        /\ UNCHANGED <<collection_approvals, now>>
    BY <1>1, <1>8 DEF ApproveToken
  <2>5. /\ log'.collection_approvals =
             [log.collection_approvals EXCEPT ![a] = log.collection_approvals[a]]
        /\ collection_approvals' =
             [collection_approvals EXCEPT ![a] = collection_approvals[a]]
    BY <1>1, <2>1, <2>4
  <2> HIDE DEF tm, tl, b
  <2> QED BY <1>2, <2>1, <2>3, <2>4, <2>5, ReplayedTogether
<1>9. ASSUME NEW a \in Account, NEW s \in Spender, NEW e \in Expiry,
             ApproveCollection(a, s, e)
      PROVE  LogReplaysApprovals'
  <2> DEFINE ap == [from |-> a, expires_at |-> e]
             cm == Put(MapOf(collection_approvals[a]), s, ap)
             cl == Put(log.collection_approvals[a], s, ap)
  <2>1. /\ log'.token_approvals = log.token_approvals
        /\ log'.collection_approvals = [log.collection_approvals EXCEPT ![a] = cl]
    <3> DEFINE b == [op |-> "37approve_coll", from |-> a, spender |-> s, exp |-> e]
    <3>1. /\ b.op = "37approve_coll" /\ b.from = a /\ b.spender = s /\ b.exp = e
          /\ log' = ApplyBlock(log, b)
      BY <1>9 DEF ApproveCollection, icrc3_add_transaction
    <3> HIDE DEF b
    <3> QED BY <1>1, <3>1, BlockOfCollectionApproval
  <2>2. s \in Account /\ ap \in Approval
    BY LedgerAssumption DEF Approval
  <2>3. SameLive(cm, cl, now)
    BY <1>1, <1>2, <2>2, SameLivePut
  <2>4. /\ collection_approvals' = [collection_approvals EXCEPT ![a] = cm]
        /\ UNCHANGED <<token_approvals, now>>
    BY <1>1, <1>9 DEF ApproveCollection
  <2>5. PICK id \in TokenId : TRUE
    BY LedgerAssumption DEF TokenId
  <2>6. /\ log'.token_approvals =
             [log.token_approvals EXCEPT ![id] = log.token_approvals[id]]
        /\ token_approvals' = [token_approvals EXCEPT ![id] = token_approvals[id]]
    BY <1>1, <2>1, <2>4
  <2> HIDE DEF cm, cl
  <2> QED BY <1>2, <2>1, <2>3, <2>4, <2>6, ReplayedTogether
<1>10. ASSUME NEW a \in Account, NEW id \in TokenId, NEW s, RevokeTokenApprovals(a, id, s)
       PROVE  LogReplaysApprovals'
  <2> DEFINE tm == Revoked(token_approvals[id], s)
             tl == Revoked(log.token_approvals[id], s)
  <2>1. /\ log'.token_approvals = [log.token_approvals EXCEPT ![id] = tl]
        /\ log'.collection_approvals = log.collection_approvals
    <3> DEFINE b == [op |-> "37revoke", tid |-> id, from |-> a, spender |-> s]
    <3>1. /\ b.op = "37revoke" /\ b.tid = id /\ b.spender = s
          /\ log' = ApplyBlock(log, b)
      BY <1>10 DEF RevokeTokenApprovals, icrc3_add_transaction
    <3> HIDE DEF b
    <3> QED BY <1>1, <3>1, BlockOfTokenRevocation
  <2>2. SameLive(tm, tl, now)
    BY <1>1, <1>2, <1>10, SameLiveRevoked DEF RevokeTokenApprovals
  <2>3. /\ token_approvals' = [token_approvals EXCEPT ![id] = tm]
        /\ UNCHANGED <<collection_approvals, now>>
    BY <1>1, <1>10 DEF RevokeTokenApprovals
  <2>4. /\ log'.collection_approvals =
             [log.collection_approvals EXCEPT ![a] = log.collection_approvals[a]]
        /\ collection_approvals' =
             [collection_approvals EXCEPT ![a] = collection_approvals[a]]
    BY <1>1, <2>1, <2>3
  <2> HIDE DEF tm, tl
  <2> QED BY <1>2, <2>1, <2>2, <2>3, <2>4, ReplayedTogether
<1>11. ASSUME NEW caller, NEW s, RevokeCollectionApprovals(caller, s)
       PROVE  LogReplaysApprovals'
  <2> DEFINE a == [owner |-> caller, subaccount |-> None]
             cm == Revoked(collection_approvals[a], s)
             cl == Revoked(log.collection_approvals[a], s)
  <2>1. a \in Account /\ collection_approvals[a] # None
    BY <1>11 DEF RevokeCollectionApprovals
  <2>2. /\ log'.token_approvals = log.token_approvals
        /\ log'.collection_approvals = [log.collection_approvals EXCEPT ![a] = cl]
    <3> DEFINE b == [op |-> "37revoke_coll", from |-> a, spender |-> s]
    <3>1. /\ b.op = "37revoke_coll" /\ b.from = a /\ b.spender = s
          /\ log' = ApplyBlock(log, b)
      BY <1>11 DEF RevokeCollectionApprovals, icrc3_add_transaction
    <3> HIDE DEF b
    <3> QED BY <1>1, <3>1, BlockOfCollectionRevocation
  <2>3. SameLive(cm, cl, now)
    BY <1>1, <1>2, <2>1, SameLiveRevoked
  <2>4. /\ collection_approvals' = [collection_approvals EXCEPT ![a] = cm]
        /\ UNCHANGED <<token_approvals, now>>
    BY <1>1, <1>11 DEF RevokeCollectionApprovals
  <2>5. PICK id \in TokenId : TRUE
    BY LedgerAssumption DEF TokenId
  <2>6. /\ log'.token_approvals =
             [log.token_approvals EXCEPT ![id] = log.token_approvals[id]]
        /\ token_approvals' = [token_approvals EXCEPT ![id] = token_approvals[id]]
    BY <1>1, <2>2, <2>4
  <2> HIDE DEF a, cm, cl
  <2> QED BY <1>2, <2>1, <2>2, <2>3, <2>4, <2>6, ReplayedTogether
<1>12. ASSUME NEW s, NEW id \in TokenId, NEW from \in Account, NEW to,
              TransferFrom(s, id, from, to)
       PROVE  LogReplaysApprovals'
  <2> DEFINE owner == tokens_list[id]
             tm == Purged(token_approvals[id], s)
             cm == Purged(collection_approvals[owner], s)
             tokenPurged == [token_approvals EXCEPT ![id] = Purged(@, s)]
             collectionPurged == [collection_approvals EXCEPT ![owner] = Purged(@, s)]
  <2>1. owner \in Account
    BY <1>12, OwnerIsAccount DEF TransferFrom, TokenExists
  <2>2. /\ tokenPurged = [token_approvals EXCEPT ![id] = tm]
        /\ collectionPurged = [collection_approvals EXCEPT ![owner] = cm]
    BY <1>1, <2>1
  <2>3. UNCHANGED now
    BY <1>12 DEF TransferFrom
  <2>4. CASE /\ owner = from
             /\ icrc3_add_transaction([op |-> "37xfer", tid |-> id, from |-> from, to |-> to,
                                       spender |-> s])
             /\ token_approvals' = [tokenPurged EXCEPT ![id] = None]
             /\ collection_approvals' = [collectionPurged EXCEPT ![from] = None]
    <3>1. /\ log'.token_approvals = [log.token_approvals EXCEPT ![id] = NoApprovals]
          /\ log'.collection_approvals = [log.collection_approvals EXCEPT ![from] = NoApprovals]
      <4> DEFINE b == [op |-> "37xfer", tid |-> id, from |-> from, to |-> to, spender |-> s]
      <4>1. b.op = "37xfer" /\ b.tid = id /\ b.from = from /\ log' = ApplyBlock(log, b)
        BY <2>4 DEF icrc3_add_transaction
      <4> HIDE DEF b
      <4> QED BY <1>1, <4>1, BlockOfTransferFrom
    <3>2. /\ token_approvals' = [token_approvals EXCEPT ![id] = None]
          /\ collection_approvals' = [collection_approvals EXCEPT ![from] = None]
      BY <1>1, <2>4
    <3> QED BY <2>3, <3>1, <3>2, SameLiveEmpty, ReplayedTogether
  <2>5. CASE /\ token_approvals' = tokenPurged
             /\ collection_approvals' = collectionPurged
             /\ UNCHANGED log
    <3>1. SameLive(tm, log.token_approvals[id], now)
      BY <1>1, <1>2, SameLivePurged
    <3>2. SameLive(cm, log.collection_approvals[owner], now)
      BY <1>1, <1>2, <2>1, SameLivePurged
    <3>3. /\ log'.token_approvals =
               [log.token_approvals EXCEPT ![id] = log.token_approvals[id]]
          /\ log'.collection_approvals =
               [log.collection_approvals EXCEPT ![owner] = log.collection_approvals[owner]]
      BY <1>1, <2>1, <2>5
    <3>4. /\ token_approvals' = [token_approvals EXCEPT ![id] = tm]
          /\ collection_approvals' = [collection_approvals EXCEPT ![owner] = cm]
      BY <2>2, <2>5
    <3> HIDE DEF owner, tm, cm
    <3> QED BY <2>1, <2>3, <3>1, <3>2, <3>3, <3>4, ReplayedTogether
  <2> QED BY <1>12, <2>4, <2>5 DEF TransferFrom
<1>13. CASE UNCHANGED <<token_approvals, collection_approvals, now, log>>
  BY <1>3, <1>13
<1>14. CASE UNCHANGED vars
  BY <1>13, <1>14 DEF vars
<1>15. CASE Next
  <2>1. Spender \subseteq Account
    BY LedgerAssumption
  <2> QED BY <1>4, <1>5, <1>6, <1>7, <1>8, <1>9, <1>10, <1>11, <1>12, <1>13, <1>15, <2>1
          DEF Next, UpdateCollectionMetadata, UpdateNftMetadata
<1> QED BY <1>14, <1>15

(* A reader of the block log computes the approvals that are in force,     *)
(* although expired ones leave the state without a block.                  *)
THEOREM LogTellsApprovals == Spec => []LogReplaysApprovals
<1>1. Init => LogReplaysApprovals
  BY DEF Init, LogReplaysApprovals, MapOf
<1>2. TypeOK /\ LogReplaysApprovals /\ [Next]_vars => LogReplaysApprovals'
  BY LogReplaysApprovalsStep
<1> QED BY <1>1, <1>2, TypeCorrect, PTL DEF Spec
=============================================================================
