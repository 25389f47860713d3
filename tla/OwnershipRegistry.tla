-------------------------- MODULE OwnershipRegistry --------------------------
(***************************************************************************)
(* What the NFT collection promises about its tokens, whatever the way the *)
(* canister stores them and whoever is allowed to ask for a change:        *)
(*                                                                         *)
(*   - ids are issued in increasing order, without gaps, each one once;    *)
(*   - a batch is issued only while the supply stays within the cap;       *)
(*   - a token moves from one account to a different one;                  *)
(*   - a burned token never comes back.                                    *)
(*                                                                         *)
(* NftLedger implements this module.                                       *)
(***************************************************************************)
EXTENDS Integers, FiniteSets

CONSTANTS
  Account,      \* the accounts a token can belong to
  None,         \* the absence of an account
  MaxTokenId    \* bound on the ids a run issues

VARIABLES
  owner,        \* owner[id]: the account that holds token id, or None
  next_id,      \* the id the next issued token gets
  cap           \* the supply cap in force

vars == <<owner, next_id, cap>>

TokenId == 1..MaxTokenId

Supply == Cardinality({id \in TokenId : owner[id] # None})

Init ==
  /\ owner = [id \in TokenId |-> None]
  /\ next_id = 1
  /\ cap \in Nat

(* A batch of n new tokens goes to the accounts the caller names. *)
Issue(n, to) ==
  /\ Supply + n <= cap
  /\ next_id + n - 1 <= MaxTokenId
  /\ owner' = [id \in TokenId |->
                 IF id \in next_id..(next_id + n - 1) THEN to[id] ELSE owner[id]]
  /\ next_id' = next_id + n
  /\ UNCHANGED cap

Move(id, to) ==
  /\ owner[id] \notin {None, to}
  /\ owner' = [owner EXCEPT ![id] = to]
  /\ UNCHANGED <<next_id, cap>>

Retire(id) ==
  /\ owner[id] # None
  /\ owner' = [owner EXCEPT ![id] = None]
  /\ UNCHANGED <<next_id, cap>>

SetCap ==
  /\ cap' \in Nat
  /\ UNCHANGED <<owner, next_id>>

Next ==
  \/ \E n \in 1..MaxTokenId : \E to \in [next_id..(next_id + n - 1) -> Account] : Issue(n, to)
  \/ \E id \in TokenId : \E to \in Account : Move(id, to)
  \/ \E id \in TokenId : Retire(id)
  \/ SetCap

Spec == Init /\ [][Next]_vars
=============================================================================
