----------------------------- MODULE MCQueries -----------------------------
(* A small instance of Queries: workloads that bring out one thing each.   *)
EXTENDS Queries

CONSTANTS alice, bob, carol, savings

Plain(p) == [owner |-> p, subaccount |-> None]

Savings == [owner |-> alice, subaccount |-> savings]

MCSpenders == {Plain(p) : p \in {alice, bob, carol}}
MCAccounts == MCSpenders \cup {Savings}

Transfer(from, id, to, time, memo) ==
  [op |-> "7xfer", caller |-> from, id |-> id, to |-> Plain(to), memo |-> memo,
   created_at_time |-> time]
Approve(from, id, spender, expires_at, time) ==
  [op |-> "37approve", from |-> Plain(from), id |-> id, spender |-> Plain(spender),
   expires_at |-> expires_at, memo |-> 0, created_at_time |-> time]
ApproveColl(from, spender, time) ==
  [op |-> "37approve_coll", from |-> Plain(from), spender |-> Plain(spender),
   expires_at |-> None, memo |-> 0, created_at_time |-> time]
Revoke(from, id, spender, time) ==
  [op |-> "37revoke", from |-> Plain(from), id |-> id, spender |-> spender, memo |-> 0,
   created_at_time |-> time]
RevokeColl(caller, spender, time) ==
  [op |-> "37revoke_coll", caller |-> caller, spender |-> spender, memo |-> 0,
   created_at_time |-> time]
TakeFrom(spender, id, from, to, time) ==
  [op |-> "37xfer", spender |-> Plain(spender), id |-> id, from |-> Plain(from),
   to |-> Plain(to), memo |-> 0, created_at_time |-> time]
Burn(caller, id) == [op |-> "7burn", caller |-> caller, id |-> id]

Of(p) == [list |-> "tokens_of", account |-> Plain(p)]
ApprovalsOn(id) == [list |-> "token_approvals", id |-> id]
ApprovalsOf(p) == [list |-> "collection_approvals", account |-> Plain(p)]

LimitsOf(tx_windows, drifts) ==
  [tx_window : tx_windows, permitted_drift : drifts, max_memo_size : {1}]

AllHers == [id \in TokenId |-> Plain(alice)]

(* A transfer and its ways back, to another account too, with late copies, *)
(* the same without a created_at_time, and a memo that is too long.        *)
Retries ==
  [requests |-> {Transfer(alice, 1, bob, 1, 0), Transfer(bob, 1, alice, 1, 0),
                 [Transfer(bob, 1, alice, None, 0) EXCEPT !.to = Savings],
                 Transfer(bob, 1, alice, None, 0), Transfer(alice, 1, bob, 1, 2)},
   owners |-> AllHers, limits |-> LimitsOf({None, 1}, {None, 0}), until |-> 4,
   reads |-> {Of(alice)}]

(* An approval that expires, revoked and used, with late copies.           *)
Regrants ==
  [requests |-> {Approve(alice, 1, bob, 2, 1), Revoke(alice, 1, Plain(bob), 0),
                 TakeFrom(bob, 1, alice, carol, 1), TakeFrom(carol, 1, carol, alice, None)},
   owners |-> AllHers, limits |-> LimitsOf({1, 2}, {None, 0}), until |-> 4,
   reads |-> {ApprovalsOn(1)}]

(* The same for the collection. *)
CollectionRegrants ==
  [requests |-> {ApproveColl(alice, bob, 1), ApproveColl(alice, carol, 1),
                 RevokeColl(alice, Plain(bob), None), TakeFrom(bob, 2, alice, bob, 2)},
   owners |-> AllHers, limits |-> LimitsOf({1}, {None, 0}), until |-> 3,
   reads |-> {ApprovalsOf(alice)}]

(* Tokens that leave an account, return to it and are burned.              *)
Moves ==
  [requests |-> {Transfer(alice, id, bob, None, 0) : id \in TokenId}
                  \cup {Transfer(bob, id, alice, None, 0) : id \in TokenId}
                  \cup {Burn(alice, 2)},
   owners |-> AllHers, limits |-> LimitsOf({None}, {None}), until |-> 0,
   reads |-> {Of(alice), [list |-> "tokens"]}]

(* Approvals of three spenders, given, renewed and revoked.                *)
Grants ==
  [requests |-> {Approve(alice, 1, p, None, 1) : p \in {alice, bob, carol}}
                  \cup {Approve(alice, 1, bob, None, 2), Revoke(alice, 1, Plain(carol), None)},
   owners |-> AllHers, limits |-> LimitsOf({1}, {None}), until |-> 3,
   reads |-> {ApprovalsOn(1)}]

MCWorkloads == {Retries, Regrants, CollectionRegrants, Moves, Grants}

(* A collection that is configured with no limits at all. *)
Unconfigured ==
  [Retries EXCEPT !.limits =
     {[tx_window |-> None, permitted_drift |-> None, max_memo_size |-> None]}]

MCUnconfigured == {Unconfigured}
=============================================================================
