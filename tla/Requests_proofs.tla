--------------------------- MODULE Requests_proofs ---------------------------
(***************************************************************************)
(* Proofs about Requests: its types, the limit on the rate of calls, the   *)
(* single execution of a request that bears a created_at_time, and what    *)
(* the ledger promises under the requests it admits.                       *)
(*                                                                         *)
(* A step touches the sliding window, the clock and the log's memory in    *)
(* few ways, whatever the handler does to the ledger.  Two lemmas about    *)
(* the handlers sum them up; the invariants are proved from the sums.      *)
(***************************************************************************)
EXTENDS Requests, NftApprovals_proofs

(* The ways a step may touch the sliding window and the clock. *)
ClockStep == now' = now + 1 /\ UNCHANGED windowVars
CallStep == now' = now /\ \E key \in Key : guard_sliding_window(key)
OtherStep == now' = now /\ UNCHANGED windowVars
WindowStep == ClockStep \/ CallStep \/ OtherStep

(* A request is of the kind its op says. *)
LEMMA RequestKinds ==
  ASSUME NEW r \in Request
  PROVE  /\ r.op = "7xfer" => r \in TransferArg
         /\ r.op = "37approve" => r \in ApproveTokenArg
         /\ r.op = "37approve_coll" => r \in ApproveCollectionArg
         /\ r.op = "37revoke" => r \in RevokeTokenApprovalArg
         /\ r.op = "37revoke_coll" => r \in RevokeCollectionApprovalArg
         /\ r.op = "37xfer" => r \in TransferFromArg
         /\ r.op = "7burn" => r \in BurnArg
BY DEF Request, TransferArg, ApproveTokenArg, ApproveCollectionArg,
   RevokeTokenApprovalArg, RevokeCollectionApprovalArg, TransferFromArg, BurnArg

(* Every handler leaves the clock alone, and lets at most one call through. *)
LEMMA HandleWindowStep ==
  ASSUME NEW r \in Request, Handle(r)
  PROVE  CallStep \/ OtherStep
<1>1. CASE icrc7_transfer(r)
  <2>1. r \in TransferArg
    BY <1>1, RequestKinds DEF icrc7_transfer
  <2>2. r.id \in Key
    BY <2>1 DEF TransferArg, Key
  <2>3. guard_sliding_window(r.id)
    BY <1>1 DEF icrc7_transfer
  <2>4. now' = now
    BY <1>1 DEF icrc7_transfer, Icrc7Transfer, Refuse, ledgerVars, vars
  <2> QED BY <2>2, <2>3, <2>4 DEF CallStep
<1>2. CASE icrc37_approve_token(r)
  <2>1. r \in ApproveTokenArg
    BY <1>2, RequestKinds DEF icrc37_approve_token
  <2>2. r.id \in Key
    BY <2>1 DEF ApproveTokenArg, Key
  <2>3. guard_sliding_window(r.id)
    BY <1>2 DEF icrc37_approve_token
  <2>4. now' = now
    BY <1>2 DEF icrc37_approve_token, ApproveToken, Refuse, ledgerVars, vars
  <2> QED BY <2>2, <2>3, <2>4 DEF CallStep
<1>3. CASE icrc37_approve_collection(r)
  <2>1. guard_sliding_window(Collection) /\ Collection \in Key
    BY <1>3 DEF icrc37_approve_collection, Key
  <2>2. now' = now
    BY <1>3 DEF icrc37_approve_collection, ApproveCollection, Refuse, ledgerVars, vars
  <2> QED BY <2>1, <2>2 DEF CallStep
<1>4. CASE icrc37_revoke_token_approvals(r)
  <2>1. r \in RevokeTokenApprovalArg
    BY <1>4, RequestKinds DEF icrc37_revoke_token_approvals
  <2>2. r.id \in Key
    BY <2>1 DEF RevokeTokenApprovalArg, Key
  <2>3. guard_sliding_window(r.id) \/ UNCHANGED windowVars
    BY <1>4 DEF icrc37_revoke_token_approvals
  <2>4. now' = now
    BY <1>4 DEF icrc37_revoke_token_approvals, RevokeTokenApprovals, Refuse, ledgerVars, vars
  <2> QED BY <2>2, <2>3, <2>4 DEF CallStep, OtherStep
<1>5. CASE icrc37_revoke_collection_approvals(r)
  <2>1. guard_sliding_window(Collection) /\ Collection \in Key
    BY <1>5 DEF icrc37_revoke_collection_approvals, Key
  <2>2. now' = now
    BY <1>5 DEF icrc37_revoke_collection_approvals, RevokeCollectionApprovals, Refuse,
       ledgerVars, vars
  <2> QED BY <2>1, <2>2 DEF CallStep
<1>6. CASE icrc37_transfer_from(r)
  <2>1. r \in TransferFromArg
    BY <1>6, RequestKinds DEF icrc37_transfer_from
  <2>2. r.id \in Key
    BY <2>1 DEF TransferFromArg, Key
  <2>3. guard_sliding_window(r.id)
    BY <1>6 DEF icrc37_transfer_from
  <2>4. now' = now
    BY <1>6 DEF icrc37_transfer_from, TransferFrom, Refuse, ledgerVars, vars
  <2> QED BY <2>2, <2>3, <2>4 DEF CallStep
<1>7. CASE burn_nft(r)
  BY <1>7 DEF burn_nft, BurnNft, OtherStep
<1> QED
  BY <1>1, <1>2, <1>3, <1>4, <1>5, <1>6, <1>7 DEF Handle

LEMMA NextWindowStep ==
  ASSUME workload \in Workloads, [RequestsNext]_requestVars
  PROVE  WindowStep
<1> USE RequestsAssumption
<1>1. CASE TimePasses
  BY <1>1 DEF TimePasses, Tick, WindowStep, ClockStep
<1>2. ASSUME NEW new \in workload.limits, UpdateLimits(new)
      PROVE  WindowStep
  BY <1>2 DEF UpdateLimits, WindowStep, OtherStep, ledgerVars, vars
<1>3. ASSUME NEW r \in workload.requests, Handle(r)
      PROVE  WindowStep
  <2>1. r \in Request
    OBVIOUS
  <2> QED BY <2>1, <1>3, HandleWindowStep DEF WindowStep
<1>4. CASE UNCHANGED requestVars
  BY <1>4 DEF requestVars, vars, WindowStep, OtherStep, windowVars
<1> QED
  BY <1>1, <1>2, <1>3, <1>4 DEF RequestsNext

-----------------------------------------------------------------------------
(* The sliding window and its history. *)

(* What guard_sliding_window maintains: the calls it no longer keeps are   *)
(* as old as the window is long.                                           *)
KeptAreRecent ==
  \A key \in Key :
    /\ sliding_window_guards[key] \subseteq admitted[key]
    /\ \A c \in admitted[key] :
         /\ c.at <= now
         /\ c \notin sliding_window_guards[key] => c.at + WindowDuration <= now
    /\ IsFiniteSet(sliding_window_guards[key])
    /\ Cardinality(sliding_window_guards[key]) <= WindowCalls

(* RateLimited for all times, those past the bound of a run included. *)
RateLimitedAlways ==
  \A key \in Key, t \in Nat :
    /\ IsFiniteSet(CallsWithin(key, t))
    /\ Cardinality(CallsWithin(key, t)) <= WindowCalls

WindowTypeOK ==
  /\ now \in Nat
  /\ sliding_window_guards \in [Key -> SUBSET Call]
  /\ admitted \in [Key -> SUBSET Call]
  /\ \A key \in Key : IsFiniteSet(admitted[key])

WindowInv == WindowTypeOK /\ KeptAreRecent /\ RateLimitedAlways

LEMMA WindowInvInit == RequestsInit => WindowInv
<1> SUFFICES ASSUME RequestsInit PROVE WindowInv
  OBVIOUS
<1> USE RequestsAssumption
<1>1. now = 0
  BY DEF RequestsInit, StartWith
<1>2. sliding_window_guards = [key \in Key |-> {}] /\ admitted = [key \in Key |-> {}]
  BY DEF RequestsInit, StartWith
<1>3. WindowTypeOK
  BY <1>1, <1>2, FS_EmptySet DEF WindowTypeOK
<1>4. KeptAreRecent
  BY <1>2, FS_EmptySet DEF KeptAreRecent
<1>5. RateLimitedAlways
  <2> SUFFICES ASSUME NEW key \in Key, NEW t \in Nat
               PROVE  /\ IsFiniteSet(CallsWithin(key, t))
                      /\ Cardinality(CallsWithin(key, t)) <= WindowCalls
    BY DEF RateLimitedAlways
  <2>1. CallsWithin(key, t) = {}
    BY <1>2 DEF CallsWithin
  <2> QED BY <2>1, FS_EmptySet
<1> QED BY <1>3, <1>4, <1>5 DEF WindowInv

(* Of all calls, those in a period that reaches up to the present are kept. *)
LEMMA RecentAreKept ==
  ASSUME NEW all \in SUBSET Call, NEW kept, NEW time \in Nat, NEW t \in Nat,
         time <= t, IsFiniteSet(kept),
         \A c \in all : c \notin kept => c.at + WindowDuration <= time
  PROVE  LET within == {c \in all : t - WindowDuration < c.at /\ c.at <= t}
         IN IsFiniteSet(within) /\ Cardinality(within) <= Cardinality(kept)
<1> DEFINE within == {c \in all : t - WindowDuration < c.at /\ c.at <= t}
<1>1. within \subseteq kept
  <2> SUFFICES ASSUME NEW c \in within, c \notin kept PROVE FALSE
    OBVIOUS
  <2>1. c.at \in Nat /\ c.at + WindowDuration <= time /\ t - WindowDuration < c.at
    BY DEF Call
  <2> QED BY <2>1, RequestsAssumption
<1> QED BY <1>1, FS_Subset

LEMMA KeptSubset ==
  ASSUME WindowInv, NEW key \in Key
  PROVE  /\ Kept(key) \subseteq sliding_window_guards[key]
         /\ IsFiniteSet(Kept(key))
         /\ Cardinality(Kept(key)) \in Nat
<1>1. Kept(key) \subseteq sliding_window_guards[key]
  BY DEF Kept
<1>2. IsFiniteSet(sliding_window_guards[key])
  BY DEF WindowInv, KeptAreRecent
<1>3. IsFiniteSet(Kept(key))
  BY <1>1, <1>2, FS_Subset
<1> QED BY <1>1, <1>3, FS_CardinalityType

(* A call that is let through: the history grows by one call of now, and   *)
(* what is kept is what is recent, that call included.                     *)
LEMMA WindowInvCall ==
  ASSUME WindowInv, NEW key \in Key, guard_sliding_window(key), now' = now
  PROVE  WindowInv'
<1> USE RequestsAssumption
<1> DEFINE call == [n |-> Cardinality(admitted[key]) + 1, at |-> now]
<1>1. /\ now \in Nat
      /\ sliding_window_guards \in [Key -> SUBSET Call]
      /\ admitted \in [Key -> SUBSET Call]
      /\ IsFiniteSet(admitted[key])
  BY DEF WindowInv, WindowTypeOK
<1>2. /\ sliding_window_guards' = [sliding_window_guards EXCEPT ![key] = Kept(key) \cup {call}]
      /\ admitted' = [admitted EXCEPT ![key] = @ \cup {call}]
      /\ Cardinality(Kept(key)) < WindowCalls
  BY DEF guard_sliding_window, HasRoomInWindow
<1>3. call \in Call /\ call.at = now
  <2>1. Cardinality(admitted[key]) \in Nat
    BY <1>1, FS_CardinalityType
  <2> QED BY <1>1, <2>1 DEF Call
<1> HIDE DEF call
<1>4. Kept(key) \subseteq sliding_window_guards[key] /\ IsFiniteSet(Kept(key))
      /\ Cardinality(Kept(key)) \in Nat
  BY KeptSubset
<1>5. /\ sliding_window_guards'[key] = Kept(key) \cup {call}
      /\ admitted'[key] = admitted[key] \cup {call}
      /\ \A k \in Key \ {key} : /\ sliding_window_guards'[k] = sliding_window_guards[k]
                                /\ admitted'[k] = admitted[k]
  BY <1>1, <1>2
<1>6. WindowTypeOK'
  <2>1. Kept(key) \cup {call} \in SUBSET Call /\ admitted[key] \cup {call} \in SUBSET Call
    BY <1>1, <1>3, <1>4
  <2>2. IsFiniteSet(admitted[key] \cup {call})
    BY <1>1, FS_AddElement
  <2>3. \A k \in Key : IsFiniteSet(admitted'[k])
    BY <1>5, <2>2 DEF WindowInv, WindowTypeOK
  <2>4. sliding_window_guards' \in [Key -> SUBSET Call] /\ admitted' \in [Key -> SUBSET Call]
    BY <1>1, <1>2, <2>1
  <2> QED BY <1>1, <2>3, <2>4 DEF WindowTypeOK
<1>7. KeptAreRecent'
  <2> SUFFICES ASSUME NEW k \in Key
               PROVE  /\ sliding_window_guards'[k] \subseteq admitted'[k]
                      /\ \A c \in admitted'[k] :
                           /\ c.at <= now
                           /\ c \notin sliding_window_guards'[k] => c.at + WindowDuration <= now
                      /\ IsFiniteSet(sliding_window_guards'[k])
                      /\ Cardinality(sliding_window_guards'[k]) <= WindowCalls
    BY DEF KeptAreRecent
  <2>1. CASE k # key
    BY <1>5, <2>1 DEF WindowInv, KeptAreRecent
  <2>2. CASE k = key
    <3>1. sliding_window_guards[key] \subseteq admitted[key]
      BY DEF WindowInv, KeptAreRecent
    <3>2. sliding_window_guards'[k] \subseteq admitted'[k]
      BY <1>4, <1>5, <2>2, <3>1
    <3>3. ASSUME NEW c \in admitted'[k]
          PROVE  /\ c.at <= now
                 /\ c \notin sliding_window_guards'[k] => c.at + WindowDuration <= now
      <4>1. CASE c = call
        BY <1>1, <1>3, <1>5, <2>2, <4>1
      <4>2. CASE c # call
        <5>1. c \in admitted[key]
          BY <1>5, <2>2, <3>3, <4>2
        <5>2. c.at \in Nat
          BY <1>1, <5>1 DEF Call
        <5>3. c.at <= now
          BY <5>1 DEF WindowInv, KeptAreRecent
        <5>4. CASE c \notin sliding_window_guards[key]
          BY <5>1, <5>3, <5>4 DEF WindowInv, KeptAreRecent
        <5>5. CASE c \in sliding_window_guards[key] /\ c \notin Kept(key)
          <6>1. ~(now - c.at < WindowDuration)
            BY <5>5 DEF Kept
          <6> QED BY <1>1, <5>2, <5>3, <6>1
        <5>6. CASE c \in Kept(key)
          BY <1>5, <2>2, <5>3, <5>6
        <5> QED BY <5>4, <5>5, <5>6
      <4> QED BY <4>1, <4>2
    <3>4. /\ IsFiniteSet(Kept(key) \cup {call})
          /\ Cardinality(Kept(key) \cup {call}) <= Cardinality(Kept(key)) + 1
      <4>1. /\ IsFiniteSet(Kept(key) \cup {call})
            /\ Cardinality(Kept(key) \cup {call}) =
                 IF call \in Kept(key) THEN Cardinality(Kept(key)) ELSE Cardinality(Kept(key)) + 1
        BY <1>4, FS_AddElement, Zenon
      <4> QED BY <1>4, <4>1
    <3>5. Cardinality(Kept(key) \cup {call}) \in Nat
      BY <3>4, FS_CardinalityType
    <3>6. Cardinality(Kept(key) \cup {call}) <= WindowCalls
      BY <1>2, <1>4, <3>4, <3>5
    <3> QED BY <1>5, <2>2, <3>2, <3>3, <3>4, <3>6
  <2> QED BY <2>1, <2>2
<1>8. RateLimitedAlways'
  <2> SUFFICES ASSUME NEW k \in Key, NEW t \in Nat
               PROVE  /\ IsFiniteSet(CallsWithin(k, t)')
                      /\ Cardinality(CallsWithin(k, t)') <= WindowCalls
    BY DEF RateLimitedAlways
  <2>1. CallsWithin(k, t)' = {c \in admitted'[k] : t - WindowDuration < c.at /\ c.at <= t}
    BY DEF CallsWithin
  <2>2. CASE t < now
    <3>1. CallsWithin(k, t)' = CallsWithin(k, t)
      BY <1>1, <1>3, <1>5, <2>1, <2>2 DEF CallsWithin
    <3> QED BY <3>1 DEF WindowInv, RateLimitedAlways
  <2>3. CASE now <= t
    <3> DEFINE all == admitted'[k]
               kept == sliding_window_guards'[k]
               within == {c \in all : t - WindowDuration < c.at /\ c.at <= t}
    <3>1. all \in SUBSET Call
      BY <1>6 DEF WindowTypeOK
    <3>2. /\ IsFiniteSet(kept)
          /\ Cardinality(kept) <= WindowCalls
          /\ \A c \in all : c \notin kept => c.at + WindowDuration <= now
      BY <1>7 DEF KeptAreRecent
    <3>3. CallsWithin(k, t)' = within
      BY <2>1
    <3> HIDE DEF all, kept
    <3>4. IsFiniteSet(within) /\ Cardinality(within) <= Cardinality(kept)
      BY <1>1, <2>3, <3>1, <3>2, RecentAreKept
    <3>5. Cardinality(within) \in Nat /\ Cardinality(kept) \in Nat
      BY <3>2, <3>4, FS_CardinalityType
    <3> HIDE DEF within
    <3>6. Cardinality(within) <= WindowCalls
      BY <3>2, <3>4, <3>5
    <3> QED BY <3>3, <3>4, <3>6
  <2> QED BY <1>1, <2>2, <2>3
<1> QED BY <1>6, <1>7, <1>8 DEF WindowInv

(* Time passing makes the calls that are not kept older still. *)
LEMMA WindowInvClock ==
  ASSUME WindowInv, ClockStep
  PROVE  WindowInv'
<1> USE RequestsAssumption
<1>1. /\ now \in Nat /\ now' = now + 1
      /\ sliding_window_guards' = sliding_window_guards
      /\ admitted' = admitted
      /\ admitted \in [Key -> SUBSET Call]
  BY DEF WindowInv, WindowTypeOK, ClockStep, windowVars
<1>2. WindowTypeOK'
  BY <1>1 DEF WindowInv, WindowTypeOK
<1>3. KeptAreRecent'
  <2> SUFFICES ASSUME NEW key \in Key, NEW c \in admitted[key]
               PROVE  /\ c.at <= now + 1
                      /\ c \notin sliding_window_guards[key] => c.at + WindowDuration <= now + 1
    BY <1>1 DEF WindowInv, KeptAreRecent
  <2>1. c.at \in Nat
    BY <1>1 DEF Call
  <2>2. /\ c.at <= now
        /\ c \notin sliding_window_guards[key] => c.at + WindowDuration <= now
    BY DEF WindowInv, KeptAreRecent
  <2> QED BY <1>1, <2>1, <2>2
<1>4. RateLimitedAlways'
  BY <1>1 DEF WindowInv, RateLimitedAlways, CallsWithin
<1> QED BY <1>2, <1>3, <1>4 DEF WindowInv

LEMMA WindowInvStep ==
  ASSUME WindowInv, WindowStep
  PROVE  WindowInv'
<1>1. CASE ClockStep
  BY <1>1, WindowInvClock
<1>2. CASE CallStep
  BY <1>2, WindowInvCall DEF CallStep
<1>3. CASE OtherStep
  BY <1>3 DEF OtherStep, windowVars, WindowInv, WindowTypeOK, KeptAreRecent,
     RateLimitedAlways, CallsWithin
<1> QED BY <1>1, <1>2, <1>3 DEF WindowStep

(* The workload of a behaviour is one of those given. *)
LEMMA WorkloadKept == RequestsSpec => [](workload \in Workloads)
<1>1. RequestsInit => workload \in Workloads
  BY DEF RequestsInit, StartWith
<1>2. workload \in Workloads /\ [RequestsNext]_requestVars => (workload \in Workloads)'
  BY DEF RequestsNext, TimePasses, UpdateLimits, Handle, configVars, requestVars
<1> QED BY <1>1, <1>2, PTL DEF RequestsSpec

(* No token, and not the collection, ever sees more than                   *)
(* SLIDING_WINDOW_CALLS calls within the length of the window.             *)
THEOREM RateIsLimited == RequestsSpec => []RateLimited
<1>1. RequestsInit => WindowInv
  BY WindowInvInit
<1>2. WindowInv /\ workload \in Workloads /\ [RequestsNext]_requestVars => WindowInv'
  BY NextWindowStep, WindowInvStep
<1>3. WindowInv => RateLimited
  BY RequestsAssumption, LedgerAssumption DEF WindowInv, RateLimitedAlways, RateLimited, Time
<1> QED BY <1>1, <1>2, <1>3, WorkloadKept, PTL DEF RequestsSpec

-----------------------------------------------------------------------------
(* What the handlers log. *)

Logged == Request \ BurnArg

(* A handler logs request r on time, or nothing that bears a time. *)
OnTime(time) ==
  /\ time <= now + permitted_drift(limits)
  /\ now <= time + tx_window(limits) + permitted_drift(limits)

LogStep ==
  \E r \in Logged, from \in Account, time \in Nat :
    /\ now' = now
    /\ LogTransaction(r, from, time)
    /\ OnTime(time)
    /\ r.created_at_time # None => time = r.created_at_time

TransactionStep == UNCHANGED transactions \/ LogStep

TokensTyped == tokens_list \in [TokenId -> Account \cup {None}]

LEMMA LimitsTyped ==
  ASSUME NEW l \in Limits
  PROVE  tx_window(l) \in Nat /\ permitted_drift(l) \in Nat
BY RequestsAssumption DEF Limits, tx_window, permitted_drift, OrDefault, Option

LEMMA LoggedKinds ==
  Logged = TransferArg \cup ApproveTokenArg \cup ApproveCollectionArg
             \cup RevokeTokenApprovalArg \cup RevokeCollectionApprovalArg \cup TransferFromArg
BY DEF Logged, Request, TransferArg, ApproveTokenArg, ApproveCollectionArg,
   RevokeTokenApprovalArg, RevokeCollectionApprovalArg, TransferFromArg, BurnArg

(* The stricter window of the approvals lies within that of the transfers. *)
LEMMA ApprovalOnTime ==
  ASSUME now \in Nat, limits \in Limits, NEW time \in Nat, verify_approval_timing(time)
  PROVE  OnTime(time)
<1>1. tx_window(limits) \in Nat /\ permitted_drift(limits) \in Nat
  BY LimitsTyped
<1> QED BY <1>1 DEF verify_approval_timing, OnTime

LEMMA HandleLogStep ==
  ASSUME now \in Nat, limits \in Limits, TokensTyped, NEW r \in Request, Handle(r)
  PROVE  TransactionStep
<1> USE LedgerAssumption
<1>1. CASE icrc7_transfer(r)
  <2> DEFINE time == OrDefault(r.created_at_time, now)
  <2>1. r \in TransferArg
    BY <1>1, RequestKinds DEF icrc7_transfer
  <2>2. time \in Nat /\ (r.created_at_time # None => time = r.created_at_time)
    BY <2>1 DEF TransferArg, Option, OrDefault
  <2>3. CASE Refuse
    BY <2>3 DEF Refuse, TransactionStep
  <2>4. CASE ~Refuse
    <3>1. /\ TransferOnTime(time)
          /\ Icrc7Transfer(r.caller, r.id, r.to)
          /\ LogTransaction(r, tokens_list[r.id], time)
      BY <1>1, <2>4 DEF icrc7_transfer
    <3>2. tokens_list[r.id] \in Account /\ tokens_list[r.id].owner = r.caller /\ now' = now
      BY <2>1, <3>1 DEF TransferArg, TokensTyped, Icrc7Transfer, TokenExists
    <3>4. OnTime(time)
      BY <3>1 DEF TransferOnTime, OnTime
    <3>5. r \in Logged
      BY <2>1, LoggedKinds
    <3> HIDE DEF time
    <3>6. LogStep
      BY <2>2, <3>1, <3>2, <3>4, <3>5 DEF LogStep
    <3> QED BY <3>6 DEF TransactionStep
  <2> QED BY <2>3, <2>4
<1>2. CASE icrc37_approve_token(r)
  <2>1. r \in ApproveTokenArg
    BY <1>2, RequestKinds DEF icrc37_approve_token
  <2>2. CASE Refuse
    BY <2>2 DEF Refuse, TransactionStep
  <2>3. CASE ~Refuse
    <3>1. /\ verify_approval_timing(r.created_at_time)
          /\ ApproveToken(r.from, r.id, r.spender, r.expires_at)
          /\ LogTransaction(r, r.from, r.created_at_time)
      BY <1>2, <2>3 DEF icrc37_approve_token
    <3>2. r \in Logged /\ r.from \in Account /\ r.created_at_time \in Nat
      BY <2>1, LoggedKinds DEF ApproveTokenArg
    <3>3. now' = now
      BY <3>1 DEF ApproveToken
    <3>4. LogStep
      BY <3>1, <3>2, <3>3, ApprovalOnTime DEF LogStep
    <3> QED BY <3>4 DEF TransactionStep
  <2> QED BY <2>2, <2>3
<1>3. CASE icrc37_approve_collection(r)
  <2>1. r \in ApproveCollectionArg
    BY <1>3, RequestKinds DEF icrc37_approve_collection
  <2>2. CASE Refuse
    BY <2>2 DEF Refuse, TransactionStep
  <2>3. CASE ~Refuse
    <3>1. /\ verify_approval_timing(r.created_at_time)
          /\ ApproveCollection(r.from, r.spender, r.expires_at)
          /\ LogTransaction(r, r.from, r.created_at_time)
      BY <1>3, <2>3 DEF icrc37_approve_collection
    <3>2. r \in Logged /\ r.from \in Account /\ r.created_at_time \in Nat
      BY <2>1, LoggedKinds DEF ApproveCollectionArg
    <3>3. now' = now
      BY <3>1 DEF ApproveCollection
    <3>4. LogStep
      BY <3>1, <3>2, <3>3, ApprovalOnTime DEF LogStep
    <3> QED BY <3>4 DEF TransactionStep
  <2> QED BY <2>2, <2>3
<1>4. CASE icrc37_revoke_token_approvals(r)
  <2>1. r \in RevokeTokenApprovalArg
    BY <1>4, RequestKinds DEF icrc37_revoke_token_approvals
  <2>2. CASE UNCHANGED transactions
    BY <2>2 DEF TransactionStep
  <2>3. CASE ~UNCHANGED transactions
    <3>1. /\ OnTimeIfGiven(r.created_at_time)
          /\ RevokeTokenApprovals(r.from, r.id, r.spender)
          /\ LogTransaction(r, r.from, r.created_at_time)
      BY <1>4, <2>3 DEF icrc37_revoke_token_approvals, Refuse
    <3>2. r \in Logged /\ r.from \in Account
      BY <2>1, LoggedKinds DEF RevokeTokenApprovalArg
    <3>3. r.created_at_time # None
      BY <2>3, <3>1 DEF LogTransaction
    <3>4. r.created_at_time \in Nat /\ verify_approval_timing(r.created_at_time)
      BY <2>1, <3>1, <3>3 DEF RevokeTokenApprovalArg, Option, OnTimeIfGiven
    <3>5. now' = now
      BY <3>1 DEF RevokeTokenApprovals
    <3>6. LogStep
      BY <3>1, <3>2, <3>4, <3>5, ApprovalOnTime DEF LogStep
    <3> QED BY <3>6 DEF TransactionStep
  <2> QED BY <2>2, <2>3
<1>5. CASE icrc37_revoke_collection_approvals(r)
  <2> DEFINE from == [owner |-> r.caller, subaccount |-> None]
  <2>1. r \in RevokeCollectionApprovalArg
    BY <1>5, RequestKinds DEF icrc37_revoke_collection_approvals
  <2>2. CASE UNCHANGED transactions
    BY <2>2 DEF TransactionStep
  <2>3. CASE ~UNCHANGED transactions
    <3>1. /\ OnTimeIfGiven(r.created_at_time)
          /\ RevokeCollectionApprovals(r.caller, r.spender)
          /\ LogTransaction(r, from, r.created_at_time)
      BY <1>5, <2>3 DEF icrc37_revoke_collection_approvals, Refuse
    <3>2. r \in Logged
      BY <2>1, LoggedKinds DEF RevokeCollectionApprovalArg
    <3>3. r.created_at_time # None
      BY <2>3, <3>1 DEF LogTransaction
    <3>4. r.created_at_time \in Nat /\ verify_approval_timing(r.created_at_time)
      BY <2>1, <3>1, <3>3 DEF RevokeCollectionApprovalArg, Option, OnTimeIfGiven
    <3>5. now' = now /\ from \in Account
      BY <3>1 DEF RevokeCollectionApprovals
    <3> HIDE DEF from
    <3>6. LogStep
      BY <3>1, <3>2, <3>4, <3>5, ApprovalOnTime DEF LogStep
    <3> QED BY <3>6 DEF TransactionStep
  <2> QED BY <2>2, <2>3
<1>6. CASE icrc37_transfer_from(r)
  <2>1. r \in TransferFromArg
    BY <1>6, RequestKinds DEF icrc37_transfer_from
  <2>2. CASE UNCHANGED transactions
    BY <2>2 DEF TransactionStep
  <2>3. CASE ~UNCHANGED transactions
    <3>1. /\ OnTimeIfGiven(r.created_at_time)
          /\ TransferFrom(r.spender, r.id, r.from, r.to)
          /\ LogTransaction(r, r.from, r.created_at_time)
      BY <1>6, <2>3 DEF icrc37_transfer_from, Refuse
    <3>2. r \in Logged /\ r.from \in Account
      BY <2>1, LoggedKinds DEF TransferFromArg
    <3>3. r.created_at_time # None
      BY <2>3, <3>1 DEF LogTransaction
    <3>4. r.created_at_time \in Nat /\ verify_approval_timing(r.created_at_time)
      BY <2>1, <3>1, <3>3 DEF TransferFromArg, Option, OnTimeIfGiven
    <3>5. now' = now
      BY <3>1 DEF TransferFrom
    <3>6. LogStep
      BY <3>1, <3>2, <3>4, <3>5, ApprovalOnTime DEF LogStep
    <3> QED BY <3>6 DEF TransactionStep
  <2> QED BY <2>2, <2>3
<1>7. CASE burn_nft(r)
  BY <1>7 DEF burn_nft, TransactionStep
<1> QED
  BY <1>1, <1>2, <1>3, <1>4, <1>5, <1>6, <1>7 DEF Handle

-----------------------------------------------------------------------------
(* The configuration. *)

(* No step forgets limits that were in force, or changes the log's window. *)
LEMMA ConfigStep ==
  ASSUME [RequestsNext]_requestVars
  PROVE  limits_so_far \subseteq limits_so_far' /\ log_window' = log_window
<1>1. CASE TimePasses
  BY <1>1 DEF TimePasses, configVars
<1>2. ASSUME NEW new \in workload.limits, UpdateLimits(new)
      PROVE  limits_so_far \subseteq limits_so_far' /\ log_window' = log_window
  BY <1>2 DEF UpdateLimits
<1>3. ASSUME NEW r \in workload.requests, Handle(r)
      PROVE  limits_so_far \subseteq limits_so_far' /\ log_window' = log_window
  BY <1>3 DEF Handle, configVars
<1>4. CASE UNCHANGED requestVars
  BY <1>4 DEF requestVars
<1> QED BY <1>1, <1>2, <1>3, <1>4 DEF RequestsNext

-----------------------------------------------------------------------------
(* Types. *)

(* The type invariant with what it needs to be inductive: a token's owner  *)
(* is an account, and the histories are finite.                            *)
RequestsTypeInv ==
  /\ RequestsTypeOK
  /\ TokensTyped
  /\ \A key \in Key : IsFiniteSet(admitted[key])
  /\ IsFiniteSet(transactions)

LEMMA RequestsTypeInvInit == RequestsInit => RequestsTypeInv
<1> SUFFICES ASSUME NEW w \in Workloads, StartWith(w) PROVE RequestsTypeInv
  BY DEF RequestsInit
<1> USE RequestsAssumption, LedgerAssumption
<1>1. RequestsTypeOK
  <2>1. limits \in Limits /\ limits_so_far = {limits} /\ log_window = LogWindowOf(limits)
    BY DEF StartWith
  <2>2. log_window \in Nat
    <3>1. CASE limits.tx_window = None
      BY <2>1, <3>1 DEF LogWindowOf
    <3>2. CASE limits.tx_window # None
      <4>1. limits.tx_window \in Nat
        BY <2>1, <3>2 DEF Limits, Option
      <4>2. \A n, m \in Nat : n * m \in Nat
        OBVIOUS
      <4>3. limits.tx_window * NanosPerMilli \in Nat
        BY <4>1, <4>2
      <4> QED BY <2>1, <3>2, <4>3 DEF LogWindowOf
    <3> QED BY <3>1, <3>2
  <2> QED BY <2>1, <2>2 DEF StartWith, RequestsTypeOK, Time
<1>2. TokensTyped
  BY DEF StartWith, TokensTyped
<1>3. /\ \A key \in Key : IsFiniteSet(admitted[key])
      /\ IsFiniteSet(transactions)
  BY FS_EmptySet DEF StartWith
<1> QED BY <1>1, <1>2, <1>3 DEF RequestsTypeInv

(* A token goes to the account the request names. *)
LEMMA TokensTypedHandle ==
  ASSUME TokensTyped, NEW r \in Request, Handle(r)
  PROVE  TokensTyped'
<1>1. CASE tokens_list' = tokens_list
  BY <1>1 DEF TokensTyped
<1>2. ASSUME NEW id, NEW to \in Account, MoveToken(id, to)
      PROVE  TokensTyped'
  BY <1>2 DEF TokensTyped, MoveToken
<1>3. CASE icrc7_transfer(r)
  <2>1. r \in TransferArg
    BY <1>3, RequestKinds DEF icrc7_transfer
  <2>2. r.to \in Account
    BY <2>1 DEF TransferArg
  <2>3. MoveToken(r.id, r.to) \/ tokens_list' = tokens_list
    BY <1>3 DEF icrc7_transfer, Icrc7Transfer, Refuse, ledgerVars, vars
  <2> QED BY <1>1, <1>2, <2>2, <2>3
<1>4. CASE icrc37_transfer_from(r)
  <2>1. r \in TransferFromArg
    BY <1>4, RequestKinds DEF icrc37_transfer_from
  <2>2. r.to \in Account
    BY <2>1 DEF TransferFromArg
  <2>3. MoveToken(r.id, r.to) \/ tokens_list' = tokens_list
    BY <1>4 DEF icrc37_transfer_from, TransferFrom, Refuse, ledgerVars, vars
  <2> QED BY <1>1, <1>2, <2>2, <2>3
<1>5. CASE burn_nft(r)
  <2>1. tokens_list' = [tokens_list EXCEPT ![r.id] = None]
    BY <1>5 DEF burn_nft, BurnNft
  <2> QED BY <2>1 DEF TokensTyped
<1>6. CASE icrc37_approve_token(r)
  BY <1>1, <1>6 DEF icrc37_approve_token, ApproveToken, Refuse, ledgerVars, vars
<1>7. CASE icrc37_approve_collection(r)
  BY <1>1, <1>7 DEF icrc37_approve_collection, ApproveCollection, Refuse, ledgerVars, vars
<1>8. CASE icrc37_revoke_token_approvals(r)
  BY <1>1, <1>8 DEF icrc37_revoke_token_approvals, RevokeTokenApprovals, Refuse, ledgerVars, vars
<1>9. CASE icrc37_revoke_collection_approvals(r)
  BY <1>1, <1>9 DEF icrc37_revoke_collection_approvals, RevokeCollectionApprovals, Refuse,
     ledgerVars, vars
<1> QED
  BY <1>3, <1>4, <1>5, <1>6, <1>7, <1>8, <1>9 DEF Handle

(* What is logged is a request with its time, and the account it is from.  *)
LEMMA TransactionTyped ==
  ASSUME NEW r \in Logged, NEW from \in Account, NEW time \in Nat
  PROVE  Transaction(r, from, time) \in [request : Request, from : Account]
<1>1. [r EXCEPT !.created_at_time = time] \in Request
  <2>1. CASE r \in TransferArg
    <3>1. [r EXCEPT !.created_at_time = time] \in TransferArg
      BY <2>1 DEF TransferArg, Option
    <3> QED BY <3>1 DEF Request
  <2>2. CASE r \in ApproveTokenArg
    <3>1. [r EXCEPT !.created_at_time = time] \in ApproveTokenArg
      BY <2>2 DEF ApproveTokenArg
    <3> QED BY <3>1 DEF Request
  <2>3. CASE r \in ApproveCollectionArg
    <3>1. [r EXCEPT !.created_at_time = time] \in ApproveCollectionArg
      BY <2>3 DEF ApproveCollectionArg
    <3> QED BY <3>1 DEF Request
  <2>4. CASE r \in RevokeTokenApprovalArg
    <3>1. [r EXCEPT !.created_at_time = time] \in RevokeTokenApprovalArg
      BY <2>4 DEF RevokeTokenApprovalArg, Option
    <3> QED BY <3>1 DEF Request
  <2>5. CASE r \in RevokeCollectionApprovalArg
    <3>1. [r EXCEPT !.created_at_time = time] \in RevokeCollectionApprovalArg
      BY <2>5 DEF RevokeCollectionApprovalArg, Option
    <3> QED BY <3>1 DEF Request
  <2>6. CASE r \in TransferFromArg
    <3>1. [r EXCEPT !.created_at_time = time] \in TransferFromArg
      BY <2>6 DEF TransferFromArg, Option
    <3> QED BY <3>1 DEF Request
  <2> QED BY <2>1, <2>2, <2>3, <2>4, <2>5, <2>6, LoggedKinds
<1> QED BY <1>1 DEF Transaction

LEMMA TransactionsTyped ==
  ASSUME now \in Nat, transactions \subseteq Execution, IsFiniteSet(transactions),
         TransactionStep
  PROVE  transactions' \subseteq Execution /\ IsFiniteSet(transactions')
<1>1. CASE UNCHANGED transactions
  BY <1>1
<1>2. CASE LogStep
  <2>1. PICK r \in Logged, from \in Account, time \in Nat : LogTransaction(r, from, time)
    BY <1>2 DEF LogStep
  <2> DEFINE tx == Transaction(r, from, time)
             earlier == {e \in transactions : e.request = r /\ e.tx.from = from}
             new == [request |-> r, tx |-> tx, at |-> now, nth |-> Cardinality(earlier) + 1]
  <2>2. time # None
    BY LedgerAssumption
  <2>3. transactions' = transactions \cup {new}
    BY <2>1, <2>2 DEF LogTransaction
  <2>4. Cardinality(earlier) \in Nat
    <3>1. IsFiniteSet(earlier)
      BY FS_Subset
    <3> QED BY <3>1, FS_CardinalityType
  <2>5. tx \in [request : Request, from : Account]
    BY TransactionTyped
  <2> HIDE DEF tx, earlier
  <2>6. new \in Execution
    BY <2>4, <2>5 DEF Execution, Logged
  <2> HIDE DEF new
  <2> QED BY <2>3, <2>6, FS_AddElement
<1> QED BY <1>1, <1>2 DEF TransactionStep

LEMMA WindowTyped ==
  ASSUME now \in Nat, WindowStep,
         sliding_window_guards \in [Key -> SUBSET Call], admitted \in [Key -> SUBSET Call],
         \A key \in Key : IsFiniteSet(admitted[key])
  PROVE  /\ sliding_window_guards' \in [Key -> SUBSET Call]
         /\ admitted' \in [Key -> SUBSET Call]
         /\ \A key \in Key : IsFiniteSet(admitted'[key])
<1>1. CASE UNCHANGED windowVars
  BY <1>1 DEF windowVars
<1>2. CASE CallStep
  <2>1. PICK key \in Key : guard_sliding_window(key)
    BY <1>2 DEF CallStep
  <2> DEFINE call == [n |-> Cardinality(admitted[key]) + 1, at |-> now]
  <2>2. call \in Call
    <3>1. Cardinality(admitted[key]) \in Nat
      BY FS_CardinalityType
    <3> QED BY <3>1 DEF Call
  <2>3. /\ sliding_window_guards' = [sliding_window_guards EXCEPT ![key] = Kept(key) \cup {call}]
        /\ admitted' = [admitted EXCEPT ![key] = @ \cup {call}]
    BY <2>1 DEF guard_sliding_window
  <2> HIDE DEF call
  <2>4. Kept(key) \cup {call} \in SUBSET Call /\ admitted[key] \cup {call} \in SUBSET Call
    BY <2>2 DEF Kept
  <2>5. IsFiniteSet(admitted[key] \cup {call})
    BY FS_AddElement
  <2> QED BY <2>3, <2>4, <2>5
<1> QED BY <1>1, <1>2 DEF WindowStep, ClockStep, OtherStep

LEMMA NextTransactionStep ==
  ASSUME RequestsTypeInv, [RequestsNext]_requestVars
  PROVE  TransactionStep
<1>0. /\ now \in Nat /\ limits \in Limits /\ TokensTyped
      /\ workload.requests \subseteq Request
  BY RequestsAssumption, LedgerAssumption DEF RequestsTypeInv, RequestsTypeOK, Time
<1>1. CASE TimePasses
  BY <1>1 DEF TimePasses, TransactionStep
<1>2. ASSUME NEW new \in workload.limits, UpdateLimits(new)
      PROVE  TransactionStep
  BY <1>2 DEF UpdateLimits, TransactionStep
<1>3. ASSUME NEW r \in workload.requests, Handle(r)
      PROVE  TransactionStep
  BY <1>0, <1>3, HandleLogStep
<1>4. CASE UNCHANGED requestVars
  BY <1>4 DEF requestVars, TransactionStep
<1> QED
  BY <1>1, <1>2, <1>3, <1>4 DEF RequestsNext

LEMMA RequestsTypeInvStep ==
  ASSUME RequestsTypeInv, [RequestsNext]_requestVars
  PROVE  RequestsTypeInv'
<1> USE RequestsAssumption, LedgerAssumption
<1>0. /\ now \in Nat /\ now \in Time /\ limits \in Limits /\ workload \in Workloads
      /\ TokensTyped /\ workload.requests \subseteq Request
      /\ sliding_window_guards \in [Key -> SUBSET Call] /\ admitted \in [Key -> SUBSET Call]
      /\ \A key \in Key : IsFiniteSet(admitted[key])
      /\ transactions \subseteq Execution /\ IsFiniteSet(transactions)
      /\ limits \in limits_so_far /\ limits_so_far \subseteq Limits /\ log_window \in Nat
      /\ workload.limits \subseteq Limits
  BY DEF RequestsTypeInv, RequestsTypeOK, Time
<1>1. /\ sliding_window_guards' \in [Key -> SUBSET Call] /\ admitted' \in [Key -> SUBSET Call]
      /\ \A key \in Key : IsFiniteSet(admitted'[key])
  <2>1. WindowStep
    BY <1>0, NextWindowStep
  <2> QED BY <1>0, <2>1, WindowTyped
<1>2. transactions' \subseteq Execution /\ IsFiniteSet(transactions')
  BY <1>0, NextTransactionStep, TransactionsTyped
<1>3. now' \in Time /\ limits' \in Limits /\ workload' \in Workloads /\ TokensTyped'
  <2>1. CASE TimePasses
    BY <1>0, <2>1 DEF TimePasses, Tick, Time, TokensTyped, configVars
  <2>2. ASSUME NEW new \in workload.limits, UpdateLimits(new)
        PROVE  now' \in Time /\ limits' \in Limits /\ workload' \in Workloads /\ TokensTyped'
    <3>1. limits' = [l \in DOMAIN limits |-> OrDefault(new[l], limits[l])]
      BY <2>2 DEF UpdateLimits
    <3>2. limits' \in Limits
      BY <1>0, <3>1 DEF Limits, OrDefault
    <3> QED BY <1>0, <2>2, <3>2 DEF UpdateLimits, ledgerVars, vars, TokensTyped
  <2>3. ASSUME NEW r \in workload.requests, Handle(r)
        PROVE  now' \in Time /\ limits' \in Limits /\ workload' \in Workloads /\ TokensTyped'
    <3>1. r \in Request
      BY <1>0
    <3>2. now' = now
      BY <2>3, <3>1, HandleWindowStep DEF CallStep, OtherStep
    <3>3. TokensTyped'
      BY <1>0, <2>3, <3>1, TokensTypedHandle
    <3> QED BY <1>0, <2>3, <3>2, <3>3 DEF Handle, configVars
  <2>4. CASE UNCHANGED requestVars
    BY <1>0, <2>4 DEF requestVars, vars, TokensTyped
  <2> QED BY <2>1, <2>2, <2>3, <2>4 DEF RequestsNext
<1>4. limits' \in limits_so_far' /\ limits_so_far' \subseteq Limits /\ log_window' \in Nat
  <2>1. limits_so_far' = limits_so_far \cup {limits'}
    <3>1. CASE TimePasses
      BY <1>0, <3>1 DEF TimePasses, configVars
    <3>2. ASSUME NEW new \in workload.limits, UpdateLimits(new)
          PROVE  limits_so_far' = limits_so_far \cup {limits'}
      BY <3>2 DEF UpdateLimits
    <3>3. ASSUME NEW r \in workload.requests, Handle(r)
          PROVE  limits_so_far' = limits_so_far \cup {limits'}
      BY <1>0, <3>3 DEF Handle, configVars
    <3>4. CASE UNCHANGED requestVars
      BY <1>0, <3>4 DEF requestVars
    <3> QED BY <3>1, <3>2, <3>3, <3>4 DEF RequestsNext
  <2> QED BY <1>0, <1>3, <2>1, ConfigStep
<1> QED BY <1>1, <1>2, <1>3, <1>4 DEF RequestsTypeInv, RequestsTypeOK

(* The variables of Requests keep their types. *)
THEOREM RequestsAreTyped == RequestsSpec => []RequestsTypeOK
<1>1. RequestsInit => RequestsTypeInv
  BY RequestsTypeInvInit
<1>2. RequestsTypeInv /\ [RequestsNext]_requestVars => RequestsTypeInv'
  BY RequestsTypeInvStep
<1>3. RequestsTypeInv => RequestsTypeOK
  BY DEF RequestsTypeInv
<1> QED BY <1>1, <1>2, <1>3, PTL DEF RequestsSpec

-----------------------------------------------------------------------------
(* A request is executed once. *)

(* The invariant: no execution lies in the future, and of a request with a *)
(* created_at_time the log has the transaction that a copy out of the same *)
(* account would be, its time is not past that of the execution by more    *)
(* than some drift allowed, and no other execution came before if the log  *)
(* outlasts the requests.                                                  *)
LoggedOnTime(e) ==
  \E l \in limits_so_far : e.request.created_at_time <= e.at + permitted_drift(l)

OnceInv ==
  \A e \in transactions :
    /\ e.at <= now
    /\ e.request.created_at_time # None =>
         /\ e.tx = Transaction(e.request, e.tx.from, e.request.created_at_time)
         /\ LoggedOnTime(e)
         /\ LogOutlastsRequests => e.nth = 1

(* The log would refuse a copy: it comes too late to be on time, or finds  *)
(* the first one in the log.                                               *)
LEMMA NoLateCopy ==
  ASSUME LogOutlastsRequests, now \in Nat, log_window \in Nat,
         limits \in limits_so_far, limits_so_far \subseteq Limits,
         NEW e \in transactions, e \in Execution, LoggedOnTime(e),
         e.request.created_at_time \in Nat, OnTime(e.request.created_at_time),
         Unknown(e.tx)
  PROVE  FALSE
<1> DEFINE time == e.request.created_at_time
<1>1. PICK l \in limits_so_far : time <= e.at + permitted_drift(l)
  BY DEF LoggedOnTime
<1>2. /\ tx_window(limits) \in Nat /\ permitted_drift(limits) \in Nat
      /\ permitted_drift(l) \in Nat /\ e.at \in Nat
  BY LimitsTyped DEF Execution
<1>3. e.at + log_window <= now
  BY DEF Unknown
<1>4. now <= time + tx_window(limits) + permitted_drift(limits)
  BY DEF OnTime
<1>5. tx_window(limits) + permitted_drift(limits) + permitted_drift(l) < log_window
  BY DEF LogOutlastsRequests
<1> QED BY <1>1, <1>2, <1>3, <1>4, <1>5

(* What held under more limits holds under fewer. *)
LEMMA OutlastedBefore ==
  ASSUME [RequestsNext]_requestVars, LogOutlastsRequests'
  PROVE  LogOutlastsRequests
<1>1. limits_so_far \subseteq limits_so_far' /\ log_window' = log_window
  BY ConfigStep
<1> QED BY <1>1 DEF LogOutlastsRequests, tx_window, permitted_drift

LEMMA OnceInvLog ==
  ASSUME RequestsTypeInv, OnceInv, LogStep, [RequestsNext]_requestVars
  PROVE  OnceInv'
<1> USE LedgerAssumption
<1>1. /\ now \in Nat /\ transactions \subseteq Execution /\ log_window \in Nat
      /\ limits \in limits_so_far /\ limits_so_far \subseteq Limits
  BY DEF RequestsTypeInv, RequestsTypeOK, Time
<1>2. PICK r \in Logged, from \in Account, time \in Nat :
        /\ now' = now
        /\ LogTransaction(r, from, time)
        /\ OnTime(time)
        /\ r.created_at_time # None => time = r.created_at_time
  BY DEF LogStep
<1> DEFINE tx == Transaction(r, from, time)
           earlier == {e \in transactions : e.request = r /\ e.tx.from = from}
           new == [request |-> r, tx |-> tx, at |-> now, nth |-> Cardinality(earlier) + 1]
<1>3. Unknown(tx) /\ transactions' = transactions \cup {new}
  BY <1>2 DEF LogTransaction
<1>4. ASSUME r.created_at_time # None, LogOutlastsRequests
      PROVE  earlier = {}
  <2>1. time = r.created_at_time
    BY <1>2, <1>4
  <2> SUFFICES ASSUME NEW e \in earlier PROVE FALSE
    OBVIOUS
  <2>2. e \in transactions /\ e \in Execution /\ e.request = r /\ e.tx.from = from
    BY <1>1
  <2>3. e.tx = tx /\ LoggedOnTime(e)
    <3>1. /\ e.tx = Transaction(e.request, e.tx.from, e.request.created_at_time)
          /\ LoggedOnTime(e)
      BY <1>4, <2>2 DEF OnceInv
    <3> QED BY <2>1, <2>2, <3>1
  <2>4. Unknown(e.tx)
    BY <1>3, <2>3
  <2>5. e.request.created_at_time \in Nat /\ OnTime(e.request.created_at_time)
    BY <1>2, <2>1, <2>2
  <2> QED BY <1>1, <1>4, <2>2, <2>3, <2>4, <2>5, NoLateCopy
<1>5. new.at <= now
  BY <1>1
<1>6. ASSUME r.created_at_time # None
      PROVE  /\ new.tx = Transaction(r, new.tx.from, r.created_at_time)
             /\ LoggedOnTime(new)
             /\ LogOutlastsRequests => new.nth = 1
  <2>1. time = r.created_at_time
    BY <1>2, <1>6
  <2>2. LogOutlastsRequests => Cardinality(earlier) = 0
    BY <1>4, <1>6, FS_EmptySet
  <2>3. time <= now + permitted_drift(limits)
    BY <1>2 DEF OnTime
  <2>4. new.tx = Transaction(r, new.tx.from, r.created_at_time)
    BY <2>1 DEF Transaction
  <2> HIDE DEF earlier, tx
  <2>5. LoggedOnTime(new)
    BY <1>1, <2>1, <2>3 DEF LoggedOnTime
  <2> QED BY <2>2, <2>4, <2>5
<1>7. new.request = r
  OBVIOUS
<1> HIDE DEF new, tx, earlier
<1>8. limits_so_far \subseteq limits_so_far'
  BY ConfigStep
<1> SUFFICES ASSUME NEW e \in transactions'
             PROVE  /\ e.at <= now'
                    /\ e.request.created_at_time # None =>
                         /\ e.tx = Transaction(e.request, e.tx.from,
                                               e.request.created_at_time)
                         /\ LoggedOnTime(e)'
                         /\ LogOutlastsRequests' => e.nth = 1
  BY DEF OnceInv, LoggedOnTime
<1>9. ASSUME LoggedOnTime(e) PROVE LoggedOnTime(e)'
  BY <1>8, <1>9 DEF LoggedOnTime, permitted_drift
<1>10. CASE e = new
  BY <1>2, <1>5, <1>6, <1>7, <1>9, <1>10, OutlastedBefore
<1>11. CASE e \in transactions
  BY <1>2, <1>9, <1>11, OutlastedBefore DEF OnceInv
<1> QED BY <1>3, <1>10, <1>11

LEMMA OnceInvStep ==
  ASSUME RequestsTypeInv, OnceInv, [RequestsNext]_requestVars
  PROVE  OnceInv'
<1> USE LedgerAssumption
<1>1. CASE LogStep
  BY <1>1, OnceInvLog
<1>2. CASE UNCHANGED transactions
  <2>1. now \in Nat /\ workload \in Workloads /\ transactions \subseteq Execution
    BY DEF RequestsTypeInv, RequestsTypeOK, Time
  <2>2. now' = now \/ now' = now + 1
    BY <2>1, NextWindowStep DEF WindowStep, ClockStep, CallStep, OtherStep
  <2>3. limits_so_far \subseteq limits_so_far'
    BY ConfigStep
  <2> SUFFICES ASSUME NEW e \in transactions
               PROVE  /\ e.at <= now'
                      /\ e.request.created_at_time # None =>
                           /\ e.tx = Transaction(e.request, e.tx.from,
                                                 e.request.created_at_time)
                           /\ LoggedOnTime(e)'
                           /\ LogOutlastsRequests' => e.nth = 1
    BY <1>2 DEF OnceInv, LoggedOnTime
  <2>4. e.at <= now'
    <3>1. e.at \in Nat /\ e.at <= now
      BY <2>1 DEF Execution, OnceInv
    <3> QED BY <2>1, <2>2, <3>1
  <2>5. ASSUME LoggedOnTime(e) PROVE LoggedOnTime(e)'
    BY <2>3, <2>5 DEF LoggedOnTime, permitted_drift
  <2> QED BY <2>4, <2>5, OutlastedBefore DEF OnceInv
<1> QED BY <1>1, <1>2, NextTransactionStep DEF TransactionStep

(* However often a request that bears a created_at_time is delivered, it   *)
(* is executed once out of an account, as long as the log outlasts the     *)
(* requests under the limits configured so far.                            *)
THEOREM RequestsExecutedOnce == RequestsSpec => []ExecutedOnce
<1>1. RequestsInit => RequestsTypeInv /\ OnceInv
  <2>1. RequestsInit => transactions = {}
    BY DEF RequestsInit, StartWith
  <2> QED BY <2>1, RequestsTypeInvInit DEF OnceInv
<1>2. RequestsTypeInv /\ OnceInv /\ [RequestsNext]_requestVars => (RequestsTypeInv /\ OnceInv)'
  BY RequestsTypeInvStep, OnceInvStep
<1>3. OnceInv => ExecutedOnce
  BY DEF OnceInv, ExecutedOnce, NoDuplicates
<1> QED BY <1>1, <1>2, <1>3, PTL DEF RequestsSpec

-----------------------------------------------------------------------------
(* Requests come to the ledger as its own actions, so that what they find  *)
(* at the start and the steps of NftLedger's proofs give its promises.     *)

(* Whatever a handler does with a request, the ledger takes one of its     *)
(* steps or none.                                                          *)
LEMMA HandleIsLedgerStep ==
  ASSUME NEW r \in Request, Handle(r)
  PROVE  [Next]_vars
<1>1. CASE Refuse
  BY <1>1 DEF Refuse, ledgerVars
<1>2. CASE icrc7_transfer(r) /\ ~Refuse
  <2>1. r \in TransferArg
    BY <1>2, RequestKinds DEF icrc7_transfer
  <2>2. r.caller \in Caller /\ r.id \in TokenId /\ r.to \in Account
    BY <2>1 DEF TransferArg
  <2> QED BY <1>2, <2>2 DEF icrc7_transfer, Next
<1>3. CASE icrc37_approve_token(r) /\ ~Refuse
  <2>1. r \in ApproveTokenArg
    BY <1>3, RequestKinds DEF icrc37_approve_token
  <2>2. /\ r.from \in Account /\ r.id \in TokenId
        /\ r.spender \in Spender /\ r.expires_at \in Expiry
    BY <2>1 DEF ApproveTokenArg
  <2> QED BY <1>3, <2>2 DEF icrc37_approve_token, Next
<1>4. CASE icrc37_approve_collection(r) /\ ~Refuse
  <2>1. r \in ApproveCollectionArg
    BY <1>4, RequestKinds DEF icrc37_approve_collection
  <2>2. r.from \in Account /\ r.spender \in Spender /\ r.expires_at \in Expiry
    BY <2>1 DEF ApproveCollectionArg
  <2> QED BY <1>4, <2>2 DEF icrc37_approve_collection, Next
<1>5. CASE icrc37_revoke_token_approvals(r) /\ ~Refuse
  <2>1. r \in RevokeTokenApprovalArg
    BY <1>5, RequestKinds DEF icrc37_revoke_token_approvals
  <2>2. r.from \in Account /\ r.id \in TokenId /\ r.spender \in Spender \cup {None}
    BY <2>1 DEF RevokeTokenApprovalArg, Option
  <2> QED BY <1>5, <2>2 DEF icrc37_revoke_token_approvals, Next
<1>6. CASE icrc37_revoke_collection_approvals(r) /\ ~Refuse
  <2>1. r \in RevokeCollectionApprovalArg
    BY <1>6, RequestKinds DEF icrc37_revoke_collection_approvals
  <2>2. r.caller \in Caller /\ r.spender \in Spender \cup {None}
    BY <2>1 DEF RevokeCollectionApprovalArg, Option
  <2> QED BY <1>6, <2>2 DEF icrc37_revoke_collection_approvals, Next
<1>7. CASE icrc37_transfer_from(r) /\ ~Refuse
  <2>1. r \in TransferFromArg
    BY <1>7, RequestKinds DEF icrc37_transfer_from
  <2>2. r.spender \in Account /\ r.id \in TokenId /\ r.from \in Account /\ r.to \in Account
    BY <2>1 DEF TransferFromArg
  <2> QED BY <1>7, <2>2 DEF icrc37_transfer_from, Next
<1>8. CASE burn_nft(r)
  <2>1. r \in BurnArg
    BY <1>8, RequestKinds DEF burn_nft
  <2>2. r.caller \in Caller /\ r.id \in TokenId
    BY <2>1 DEF BurnArg
  <2> QED BY <1>8, <2>2 DEF burn_nft, Next
<1> QED BY <1>1, <1>2, <1>3, <1>4, <1>5, <1>6, <1>7, <1>8 DEF Handle

(* The same of every step. *)
LEMMA StepIsLedgerStep ==
  ASSUME workload \in Workloads, [RequestsNext]_requestVars
  PROVE  [Next]_vars
<1>1. CASE TimePasses
  BY <1>1 DEF TimePasses, Next
<1>2. ASSUME NEW new \in workload.limits, UpdateLimits(new) PROVE [Next]_vars
  BY <1>2 DEF UpdateLimits, ledgerVars
<1>3. ASSUME NEW r \in workload.requests, Handle(r) PROVE [Next]_vars
  BY <1>3, HandleIsLedgerStep, RequestsAssumption
<1>4. CASE UNCHANGED requestVars
  BY <1>4 DEF requestVars, vars
<1> QED BY <1>1, <1>2, <1>3, <1>4 DEF RequestsNext

(* What NftLedger's theorems say of the ledger on its own. *)
LedgerPromises ==
  /\ TypeOK
  /\ ByOwnerConsistent
  /\ LogReplaysOwners
  /\ ApprovalsOnIssuedTokens
  /\ ApprovalsWithinLimit
  /\ LogReplaysApprovals

(* A minted collection keeps them. *)
LEMMA LedgerPromisesAtStart ==
  ASSUME NEW w \in Workloads, StartWith(w)
  PROVE  LedgerPromises
<1> USE LedgerAssumption DEF StartWith
<1>1. w.owners \in [TokenId -> Account]
  BY RequestsAssumption
<1>2. TypeOK
  <2>1. log \in Replay
    BY <1>1, NoApprovalsType DEF Replay
  <2>2. now \in Time /\ last_token_id \in 1..(MaxTokenId + 1)
    BY DEF Time
  <2>3. tokens_list \in [TokenId -> Account \cup {None}]
    BY <1>1
  <2> QED BY <2>1, <2>2, <2>3 DEF TypeOK
<1>3. ByOwnerConsistent
  <2> SUFFICES ASSUME NEW id \in TokenId
               PROVE  ListedUnder(id, tokens_list[id]) /\ id < last_token_id
    BY <1>1 DEF ByOwnerConsistent, TokenId
  <2>1. ListedUnder(id, tokens_list[id])
    BY <1>1 DEF ListedUnder
  <2> QED BY <2>1 DEF TokenId
<1>4. LogReplaysOwners /\ ApprovalsOnIssuedTokens
  BY DEF LogReplaysOwners, ApprovalsOnIssuedTokens
<1>5. ApprovalsWithinLimit
  BY NoneWithinLimit DEF ApprovalsWithinLimit, WithinLimit
<1>6. LogReplaysApprovals
  BY DEF LogReplaysApprovals, MapOf
<1> QED BY <1>2, <1>3, <1>4, <1>5, <1>6 DEF LedgerPromises

(* And every step does. *)
LEMMA LedgerPromisesStep ==
  ASSUME LedgerPromises, [Next]_vars
  PROVE  LedgerPromises'
BY TypeOKStep, ByOwnerConsistentStep, LogReplaysOwnersStep, ApprovalsOnIssuedTokensStep,
   ApprovalsWithinLimitStep, LogReplaysApprovalsStep DEF LedgerPromises

(* Requests only ever make the ledger take its own steps, repeated, late   *)
(* and refused ones included.                                              *)
THEOREM RequestsTakeLedgerSteps == RequestsSpec => [][Next]_vars
<1>1. workload \in Workloads /\ [RequestsNext]_requestVars => [Next]_vars
  BY StepIsLedgerStep
<1> QED BY <1>1, WorkloadKept, PTL DEF RequestsSpec

(* So the ledger keeps its promises whatever requests it admits: indices,  *)
(* approvals and log agree although the collection was minted before and   *)
(* copies of requests are executed or refused at any time.                 *)
THEOREM RequestsKeepLedgerPromises == RequestsSpec => []LedgerPromises
<1>1. RequestsInit => LedgerPromises
  BY LedgerPromisesAtStart DEF RequestsInit
<1>2. LedgerPromises /\ [Next]_vars => LedgerPromises'
  BY LedgerPromisesStep
<1> QED BY <1>1, <1>2, RequestsTakeLedgerSteps, PTL DEF RequestsSpec
=============================================================================
