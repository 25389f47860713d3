------------------------------ MODULE Requests ------------------------------
(***************************************************************************)
(* The requests that reach the ledger: what stands between a client's      *)
(* ICRC-7 or ICRC-37 call and the handler's effect in NftLedger.           *)
(*                                                                         *)
(* A client that gets no answer sends its request again, and a request may *)
(* be delivered late: any request may arrive any number of times, at any   *)
(* time and in any order.  The canister has three means against that: the  *)
(* sliding window that limits the calls on a token, the created_at_time    *)
(* that has to be near the present, and the block log that refuses a       *)
(* transaction it has had lately.                                          *)
(*                                                                         *)
(* Every handler may also answer with an error and leave the ledger alone: *)
(* it refuses the request, or the log refuses the block.  The call counts  *)
(* for the window all the same.                                            *)
(*                                                                         *)
(* The tokens are minted already; minting and the metadata calls need a    *)
(* permission and are not limited, see NftLedger.                          *)
(*                                                                         *)
(* An operator just before the one it resembles is a faulty variant, which *)
(* the properties rule out.                                                *)
(***************************************************************************)
EXTENDS NftLedger

CONSTANTS
  Workloads,            \* [requests, owners, limits, until]: what clients send, whose the
                        \* tokens are at first, the limits the collection is configured
                        \* with, and a bound on the clock
  WindowCalls,          \* SLIDING_WINDOW_CALLS
  WindowDuration,       \* SLIDING_WINDOW_DURATION_NS
  TxWindows,            \* the tx_window values the collection is configured with
  Drifts,               \* its permitted_drift values
  MemoSizes,            \* its max_memo_size values
  DefaultTxWindow,      \* DEFAULT_TX_WINDOW
  DefaultDrift,         \* DEFAULT_PERMITTED_DRIFT
  DefaultMemoSize,      \* DEFAULT_MAX_MEMO_SIZE
  NanosPerMilli         \* the nanoseconds in a millisecond

Option(S) == S \cup {None}

(* The arguments of the calls, one item each.  memo is its size in bytes.  *)
TransferArg ==
  [op : {"7xfer"}, caller : Caller, id : TokenId, to : Account,
   memo : Nat, created_at_time : Option(Nat)]
ApproveTokenArg ==
  [op : {"37approve"}, from : Account, id : TokenId, spender : Spender,
   expires_at : Expiry, memo : Nat, created_at_time : Nat]
ApproveCollectionArg ==
  [op : {"37approve_coll"}, from : Account, spender : Spender,
   expires_at : Expiry, memo : Nat, created_at_time : Nat]
RevokeTokenApprovalArg ==
  [op : {"37revoke"}, from : Account, id : TokenId, spender : Option(Spender),
   memo : Nat, created_at_time : Option(Nat)]
RevokeCollectionApprovalArg ==
  [op : {"37revoke_coll"}, caller : Caller, spender : Option(Spender),
   memo : Nat, created_at_time : Option(Nat)]
TransferFromArg ==
  [op : {"37xfer"}, spender : Account, id : TokenId, from : Account, to : Account,
   memo : Nat, created_at_time : Option(Nat)]

BurnArg == [op : {"7burn"}, caller : Caller, id : TokenId]

Request == TransferArg \cup ApproveTokenArg \cup ApproveCollectionArg
             \cup RevokeTokenApprovalArg \cup RevokeCollectionApprovalArg \cup TransferFromArg
             \cup BurnArg

(* The keys of the sliding window: a token id, or 0 for the collection.    *)
Collection == 0
Key == TokenId \cup {Collection}

Limits == [tx_window : TxWindows, permitted_drift : Drifts, max_memo_size : MemoSizes]

ASSUME RequestsAssumption ==
  /\ \A w \in Workloads : /\ w.requests \subseteq Request
                          /\ w.owners \in [TokenId -> Account]
                          /\ w.limits \subseteq Limits
                          /\ w.until \in Time
  /\ WindowCalls \in Nat \ {0}
  /\ WindowDuration \in Nat \ {0}
  /\ TxWindows \subseteq Option(Nat)
  /\ Drifts \subseteq Option(Nat)
  /\ MemoSizes \subseteq Option(Nat)
  /\ DefaultTxWindow \in Nat
  /\ DefaultDrift \in Nat
  /\ DefaultMemoSize \in Nat
  /\ NanosPerMilli \in Nat \ {0}

VARIABLES
  workload,                \* what the clients of this behaviour send, again and again
  limits,                  \* tx_window, permitted_drift and max_memo_size of the collection
  limits_so_far,           \* every value limits has had, a history
  log_window,              \* for how long the block log remembers a transaction
  sliding_window_guards,   \* sliding_window_guards[key]: the calls kept, [n, at]
  admitted,                \* admitted[key]: every call let through so far, a history
  transactions             \* every transaction logged with a created_at_time, a history

ledgerVars == vars
windowVars == <<sliding_window_guards, admitted>>
configVars == <<workload, log_window, limits, limits_so_far>>
requestVars == <<vars, workload, limits, limits_so_far, log_window, sliding_window_guards,
                 admitted, transactions>>

-----------------------------------------------------------------------------
(* The sliding window.                                                     *)

(* now - timestamp < duration, saturating at 0 *)
KeptTooShort(key) == {c \in sliding_window_guards[key] : now - c.at < WindowDuration - 1}
Kept(key) == {c \in sliding_window_guards[key] : now - c.at < WindowDuration}

HasRoomInWindowForOneMore(key) == Cardinality(Kept(key)) <= WindowCalls
HasRoomInWindow(key) == Cardinality(Kept(key)) < WindowCalls

(* The call is let through, whatever the handler makes of it.  The n-th    *)
(* call on a key is [n, at].                                               *)
guard_sliding_window(key) ==
  LET call == [n |-> Cardinality(admitted[key]) + 1, at |-> now] IN
  /\ HasRoomInWindow(key)
  /\ sliding_window_guards' = [sliding_window_guards EXCEPT ![key] = Kept(key) \cup {call}]
  /\ admitted' = [admitted EXCEPT ![key] = @ \cup {call}]

-----------------------------------------------------------------------------
(* The limits on a request.                                                *)

OrDefault(option, default) == IF option = None THEN default ELSE option

tx_window(l) == OrDefault(l.tx_window, DefaultTxWindow)
permitted_drift(l) == OrDefault(l.permitted_drift, DefaultDrift)

check_memo(memo) == memo <= OrDefault(limits.max_memo_size, DefaultMemoSize)

(* The window of icrc7_transfer is wider than that of the approvals: the   *)
(* drift is allowed at both ends.                                          *)
TransferOnTime(time) ==
  /\ time <= now + permitted_drift(limits)
  /\ now <= time + tx_window(limits) + permitted_drift(limits)

NotInFuture(created_at_time) == created_at_time <= now + permitted_drift(limits)
verify_approval_timing(created_at_time) ==
  /\ created_at_time <= now + permitted_drift(limits)
  /\ now <= created_at_time + tx_window(limits)

OnTimeIfGiven(created_at_time) ==
  created_at_time # None => verify_approval_timing(created_at_time)

-----------------------------------------------------------------------------
(* The block log's memory.  Two requests are one transaction when they     *)
(* agree in everything the block records, the sender included.             *)

Transaction(r, from, time) == [request |-> [r EXCEPT !.created_at_time = time], from |-> from]

ForgotTransaction(tx) == TRUE
Unknown(tx) == \A e \in transactions : e.tx = tx => e.at + log_window <= now

(* The log may refuse a block for reasons of its own; one without a        *)
(* created_at_time it need not recognise.  nth counts the times request r  *)
(* was executed out of the account.                                        *)
LogTransaction(r, from, time) ==
  LET tx == Transaction(r, from, time)
      earlier == {e \in transactions : e.request = r /\ e.tx.from = from}
  IN
  IF time = None
  THEN UNCHANGED transactions
  ELSE /\ Unknown(tx)
       /\ transactions' = transactions \cup
            {[request |-> r, tx |-> tx, at |-> now, nth |-> Cardinality(earlier) + 1]}

(* The call is over and the ledger is what it was. *)
Refuse == UNCHANGED <<ledgerVars, transactions>>

-----------------------------------------------------------------------------
(* The handlers.                                                           *)

(* A request without created_at_time is logged with the present time. *)
icrc7_transfer(r) ==
  LET time == OrDefault(r.created_at_time, now) IN
  /\ r.op = "7xfer"
  /\ guard_sliding_window(r.id)
  /\ \/ /\ check_memo(r.memo)
        /\ TransferOnTime(time)
        /\ Icrc7Transfer(r.caller, r.id, r.to)
        /\ LogTransaction(r, tokens_list[r.id], time)
     \/ Refuse

icrc37_approve_token(r) ==
  /\ r.op = "37approve"
  /\ guard_sliding_window(r.id)
  /\ \/ /\ verify_approval_timing(r.created_at_time)
        /\ ApproveToken(r.from, r.id, r.spender, r.expires_at)
        /\ LogTransaction(r, r.from, r.created_at_time)
     \/ Refuse

icrc37_approve_collection(r) ==
  /\ r.op = "37approve_coll"
  /\ guard_sliding_window(Collection)
  /\ \/ /\ verify_approval_timing(r.created_at_time)
        /\ ApproveCollection(r.from, r.spender, r.expires_at)
        /\ LogTransaction(r, r.from, r.created_at_time)
     \/ Refuse

(* The window is consulted once a call, for the token of the first item:   *)
(* an item further on in its batch is not counted.                         *)
icrc37_revoke_token_approvals(r) ==
  /\ r.op = "37revoke"
  /\ guard_sliding_window(r.id) \/ UNCHANGED windowVars
  /\ \/ /\ OnTimeIfGiven(r.created_at_time)
        /\ RevokeTokenApprovals(r.from, r.id, r.spender)
        /\ LogTransaction(r, r.from, r.created_at_time)
     \/ Refuse

icrc37_revoke_collection_approvals(r) ==
  /\ r.op = "37revoke_coll"
  /\ guard_sliding_window(Collection)
  /\ \/ /\ OnTimeIfGiven(r.created_at_time)
        /\ RevokeCollectionApprovals(r.caller, r.spender)
        /\ LogTransaction(r, [owner |-> r.caller, subaccount |-> None], r.created_at_time)
     \/ Refuse

(* Of a refused transfer_from the removal of expired approvals remains     *)
(* when the refusal came after the look-up.                                *)
icrc37_transfer_from(r) ==
  /\ r.op = "37xfer"
  /\ guard_sliding_window(r.id)
  /\ \/ /\ OnTimeIfGiven(r.created_at_time)
        /\ TransferFrom(r.spender, r.id, r.from, r.to)
        /\ IF tokens_list' # tokens_list
             THEN LogTransaction(r, r.from, r.created_at_time)
             ELSE UNCHANGED transactions
     \/ Refuse

(* Not limited, and logged with the present time. *)
burn_nft(r) ==
  /\ r.op = "7burn"
  /\ BurnNft(r.caller, r.id)
  /\ UNCHANGED <<windowVars, transactions>>

Handle(r) ==
  /\ \/ icrc7_transfer(r)
     \/ icrc37_approve_token(r)
     \/ icrc37_approve_collection(r)
     \/ icrc37_revoke_token_approvals(r)
     \/ icrc37_revoke_collection_approvals(r)
     \/ icrc37_transfer_from(r)
     \/ burn_nft(r)
  /\ UNCHANGED configVars

-----------------------------------------------------------------------------
(* The log gets its window at installation, from a tx_window that is taken *)
(* for milliseconds here and for nanoseconds by the checks above.          *)
LogWindowOf(l) == IF l.tx_window = None THEN 0 ELSE l.tx_window * NanosPerMilli

(* Clients find a collection that is minted. *)
StartWith(w) ==
  /\ workload = w
  /\ tokens_list = w.owners
  /\ tokens_list_by_owner =
       [a \in Account |-> [id \in TokenId |-> IF w.owners[id] = a THEN 1 ELSE 0]]
  /\ last_token_id = MaxTokenId + 1
  /\ token_approvals = [id \in TokenId |-> None]
  /\ collection_approvals = [a \in Account |-> None]
  /\ metadata = [id \in TokenId |-> {}]
  /\ settings \in Settings
  /\ log = [owner |-> w.owners,
            token_approvals |-> [id \in TokenId |-> NoApprovals],
            collection_approvals |-> [a \in Account |-> NoApprovals]]
  /\ now = 0
  /\ limits \in w.limits
  /\ limits_so_far = {limits}
  /\ log_window = LogWindowOf(limits)
  /\ sliding_window_guards = [key \in Key |-> {}]
  /\ admitted = [key \in Key |-> {}]
  /\ transactions = {}

RequestsInit == \E w \in Workloads : StartWith(w)

TimePasses ==
  /\ now < workload.until
  /\ Tick
  /\ UNCHANGED <<configVars, windowVars, transactions>>

UpdateLimitsToDefaults(new) ==
  /\ limits' = [tx_window |-> OrDefault(new.tx_window, DefaultTxWindow),
                permitted_drift |-> OrDefault(new.permitted_drift, DefaultDrift),
                max_memo_size |-> OrDefault(new.max_memo_size, DefaultMemoSize)]
  /\ limits_so_far' = limits_so_far \cup {limits'}
  /\ UNCHANGED <<ledgerVars, workload, log_window, windowVars, transactions>>

(* update_collection_metadata: a limit the request leaves out stays, and   *)
(* the log keeps the window it was created with.                           *)
UpdateLimits(new) ==
  /\ limits' = [l \in DOMAIN limits |-> OrDefault(new[l], limits[l])]
  /\ limits_so_far' = limits_so_far \cup {limits'}
  /\ UNCHANGED <<ledgerVars, workload, log_window, windowVars, transactions>>

RequestsNext ==
  \/ TimePasses
  \/ \E new \in workload.limits : UpdateLimits(new)
  \/ \E r \in workload.requests : Handle(r)

RequestsSpec == RequestsInit /\ [][RequestsNext]_requestVars

-----------------------------------------------------------------------------
(* Properties.                                                             *)

Call == [n : Nat, at : Nat]
Execution == [request : Request, tx : [request : Request, from : Account],
              at : Nat, nth : Nat]

(* The variables stay in the sets their Rust types allow; the log's        *)
(* history has the shape the other properties rely on.                     *)
RequestsTypeOK ==
  /\ now \in Time
  /\ workload \in Workloads
  /\ limits \in Limits
  /\ limits \in limits_so_far /\ limits_so_far \subseteq Limits
  /\ log_window \in Nat
  /\ sliding_window_guards \in [Key -> SUBSET Call]
  /\ admitted \in [Key -> SUBSET Call]
  /\ transactions \subseteq Execution

(* The sliding window limits the calls on every token, and those on the    *)
(* collection: however they are spread, no period of the window's length   *)
(* sees more than SLIDING_WINDOW_CALLS that the window let through,        *)
(* although the calls kept are only brought up to date when the next one   *)
(* comes.  The items of a revocation's batch after the first pass by it:   *)
(* of them there is no limit.                                              *)
CallsWithin(key, t) == {c \in admitted[key] : t - WindowDuration < c.at /\ c.at <= t}

RateLimited ==
  \A key \in Key, t \in Time : Cardinality(CallsWithin(key, t)) <= WindowCalls

(* The log remembers for longer than a request can be on time, under all   *)
(* the limits it has seen: tx_window after its creation and the drift at   *)
(* both ends.  A collection installed without a tx_window has a log that   *)
(* remembers nothing, and never meets it.                                  *)
LogOutlastsRequests ==
  \A l, m \in limits_so_far :
    tx_window(m) + permitted_drift(m) + permitted_drift(l) < log_window

(* No request that bears a created_at_time is executed twice out of one    *)
(* account: its copy is found in the log, for which both transfers have    *)
(* the error Duplicate in the interface.                                   *)
NoDuplicates == \A e \in transactions : e.request.created_at_time # None => e.nth = 1

(* Requests are executed once, however often and late they are delivered,  *)
(* as long as the limits leave the log the time to remember them: a late   *)
(* copy of a transfer does not move the token again after it came back,    *)
(* and one of an approval does not restore it after it was revoked.  A     *)
(* transfer names no account, and may be executed out of each its caller   *)
(* has.                                                                    *)
ExecutedOnce == LogOutlastsRequests => NoDuplicates
=============================================================================
