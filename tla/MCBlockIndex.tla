----------------------------- MODULE MCBlockIndex -----------------------------
(* Small instances of BlockIndex. *)
EXTENDS BlockIndex

CONSTANTS alice, bob, vault, j1, j2, client

(* A mint, a transfer from alice to the account bob keeps under a          *)
(* subaccount, and a transfer bob makes to himself as a spender.           *)
MCMint == [btype |-> "7mint", from |-> None, to |-> alice, spender |-> None, tid |-> 1]
MCTransfer == [btype |-> "7xfer", from |-> alice, to |-> vault, spender |-> None, tid |-> 1]
MCTransferFrom == [btype |-> "37xfer", from |-> alice, to |-> bob, spender |-> bob, tid |-> 1]

MCTransfers == {MCTransfer}
MCMints == {MCMint}
MCBlocksOfSpender == {MCTransferFrom}

(* The first three of alice's blocks of the token: all she has, until jobs *)
(* overlap and list some of them again; the second block, which the query  *)
(* caches between the blocks a job asks for; the newest block.             *)
MCQueries ==
  {[filters |-> <<[type |-> "token", of |-> 1], [type |-> "account", of |-> alice]>>,
    start |-> 0, length |-> 3, sort_by |-> "Ascending"],
   [filters |-> <<>>, start |-> 1, length |-> 1, sort_by |-> "Ascending"],
   [filters |-> <<>>, start |-> 0, length |-> 1, sort_by |-> "Descending"]}

MCMintQuery ==
  {[filters |-> <<[type |-> "btype", of |-> "7mint"]>>,
    start |-> 0, length |-> 6, sort_by |-> "Ascending"]}

MCBobQuery ==
  {[filters |-> <<[type |-> "account", of |-> bob]>>,
    start |-> 0, length |-> 6, sort_by |-> "Ascending"]}
=============================================================================
