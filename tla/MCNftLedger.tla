---------------------------- MODULE MCNftLedger ----------------------------
(* Small instances of NftLedger. *)
EXTENDS NftLedger

CONSTANTS alice, bob, vault

(* Two users and the anonymous account. *)
MCPlainAccounts ==
  {[owner |-> p, subaccount |-> None] : p \in {alice, bob, Anonymous}}

(* Two users, one of them with a subaccount as well. *)
MCSubaccounts ==
  {[owner |-> alice, subaccount |-> None], [owner |-> alice, subaccount |-> vault],
   [owner |-> bob, subaccount |-> None]}

(* The spenders among them: another user, and another account of a user. *)
MCSpenders ==
  {[owner |-> bob, subaccount |-> None], [owner |-> alice, subaccount |-> vault]}

MCBob == {[owner |-> bob, subaccount |-> None]}
=============================================================================
