---------------------------- MODULE Uploads_proofs ----------------------------
(***************************************************************************)
(* Proofs about Uploads, for every set of callers, paths and canisters,    *)
(* and any clock.                                                          *)
(***************************************************************************)
EXTENDS Uploads, FiniteSetTheorems, TLAPS

-----------------------------------------------------------------------------
(* The lock.                                                               *)

(* The lock can be taken only when no call is in flight. *)
LEMMA FreeMeansNoCall ==
  ASSUME LockMatchesCalls, LockIsFree
  PROVE  calls = {} /\ principal_guards = {}
<1>1. SUFFICES ASSUME NEW c \in calls PROVE FALSE
  BY DEF LockMatchesCalls
<1>2. principal_guards = {c.caller}
  BY <1>1 DEF LockMatchesCalls
<1>3. Cardinality({c.caller}) = 1
  BY FS_Singleton
<1> QED BY <1>2, <1>3 DEF LockIsFree, MAX_CONCURRENT

(* A step of a call either keeps its caller and the lock, or ends it and   *)
(* gives the lock back; in both cases the one call in flight is its.       *)
LEMMA AdvanceKeepsLock ==
  ASSUME LockMatchesCalls, NEW call \in calls, NEW next, next.caller = call.caller,
         Advance(call, next), UNCHANGED principal_guards
  PROVE  LockMatchesCalls' /\ calls' = {next}
<1>1. calls = {call}
  BY DEF LockMatchesCalls
<1>2. calls' = {next}
  BY <1>1 DEF Advance
<1>3. principal_guards = {call.caller}
  BY <1>1 DEF LockMatchesCalls
<1> QED BY <1>2, <1>3 DEF LockMatchesCalls

(* Returning leaves no call and a free lock. *)
LEMMA ReturnFreesLock ==
  ASSUME LockMatchesCalls, NEW call \in calls, Return(call)
  PROVE  LockMatchesCalls' /\ calls' = {} /\ principal_guards' = {}
<1>1. calls = {call} /\ principal_guards = {call.caller}
  BY DEF LockMatchesCalls
<1> QED BY <1>1 DEF Return, Drop, LockMatchesCalls

(* A new call finds none, and holds the lock. *)
LEMMA StartTakesLock ==
  ASSUME LockMatchesCalls, NEW caller, NEW next, next.caller = caller,
         GuardManagement(caller), calls' = calls \cup {next}
  PROVE  LockMatchesCalls' /\ calls = {} /\ calls' = {next}
<1>1. calls = {} /\ principal_guards = {}
  BY FreeMeansNoCall DEF GuardManagement, LockIsFree
<1> QED BY <1>1 DEF GuardManagement, LockMatchesCalls

-----------------------------------------------------------------------------
(* Type correctness.                                                       *)

(* The calls init_upload may turn into are calls. *)
LEMMA NextTriesType ==
  ASSUME NEW call \in Call, NEW next \in NextTries(call)
  PROVE  /\ next \in Call
         /\ next.caller = call.caller
         /\ next.op = call.op
         /\ next.path = call.path
         /\ next.manager = call.manager
         /\ next.todo \subseteq call.todo
         /\ \/ next.step = "create"
            \/ next.step = "size" /\ next.canister \in call.todo
<1>1. CASE call.todo = {}
  <2>1. next = [call EXCEPT !.step = "create", !.canister = None]
    BY <1>1 DEF NextTries
  <2> QED BY <1>1, <2>1 DEF Call
<1>2. CASE call.todo # {}
  <2>1. PICK c \in call.todo :
          next = [call EXCEPT !.step = "size", !.canister = c, !.todo = @ \ {c}]
    BY <1>2 DEF NextTries
  <2>2. c \in Canister /\ call.todo \ {c} \in SUBSET Canister
    BY DEF Call
  <2> QED BY <2>1, <2>2 DEF Call
<1> QED BY <1>1, <1>2

(* So is the first of them. *)
LEMMA FirstTryType ==
  ASSUME TypeOK, NEW caller \in Principal, NEW path \in Path, InitUpload(caller, path)
  PROVE  \E next \in Call :
           /\ calls' = calls \cup {next}
           /\ next.caller = caller
           /\ next.op = "init_upload"
           /\ next.path = path
           /\ next.manager = sub_canisters
           /\ next.todo \subseteq sub_canisters
           /\ \/ next.step = "create"
              \/ next.step = "size" /\ next.canister \in sub_canisters
<1> DEFINE call == [caller |-> caller, path |-> path, op |-> "init_upload", step |-> "size",
                    canister |-> None, init_timestamp |-> 0, todo |-> sub_canisters,
                    manager |-> sub_canisters, last |-> FALSE]
<1>1. call \in Call
  BY UploadsAssumption DEF Call, TypeOK, Time
<1>2. PICK next \in NextTries(call) : calls' = calls \cup {next}
  BY DEF InitUpload
<1> QED BY <1>1, <1>2, NextTriesType

(* Storage canisters keep well-typed uploads. *)
LEMMA ExecutesType ==
  ASSUME TypeOK, NEW op, NEW c, NEW path, NEW answer, Executes(op, c, path, answer)
  PROVE  storage' \in [Canister -> [Path -> UploadState \cup {None}]]
<1>1. storage \in [Canister -> [Path -> UploadState \cup {None}]]
  BY DEF TypeOK
<1>2. CASE UNCHANGED storage
  BY <1>1, <1>2
<1>3. CASE \E after \in UploadState \cup {None} : storage' = [storage EXCEPT ![c][path] = after]
  <2>1. PICK after \in UploadState \cup {None} : storage' = [storage EXCEPT ![c][path] = after]
    BY <1>3
  <2>2. CASE c \in Canister
    <3>1. [storage[c] EXCEPT ![path] = after] \in [Path -> UploadState \cup {None}]
      BY <1>1, <2>2
    <3>2. storage' = [storage EXCEPT ![c] = [storage[c] EXCEPT ![path] = after]]
      BY <2>1
    <3> QED BY <1>1, <3>1, <3>2
  <2>3. CASE c \notin Canister
    BY <1>1, <2>1, <2>3
  <2> QED BY <2>2, <2>3
<1> QED BY <1>2, <1>3 DEF Executes

(* Recording an upload keeps the file store well typed. *)
LEMMA InsertType ==
  ASSUME TypeOK, NEW path \in Path, NEW state \in UploadState, NEW canister \in Canister,
         NEW t \in Time, Insert(path, state, canister, t)
  PROVE  internal_filestorage' \in [Path -> InternalFilestorageData \cup {None}]
  BY DEF TypeOK, Insert, InternalFilestorageData

(* What a call in flight relies on when its reply is handled.  init_upload *)
(* holds a clone of the manager that misses no canister, and its path is   *)
(* still free; the other methods hold the entry of an upload that is still *)
(* listed, not finalized, on a canister the manager knows.                 *)
CallsConsistent ==
  \A call \in calls :
    LET data == internal_filestorage[call.path] IN
    /\ call.op = "init_upload" =>
         /\ data = None
         /\ sub_canisters \subseteq call.manager
         /\ call.todo \subseteq call.manager
         /\ call.step # "create" => call.canister \in call.manager
    /\ call.op # "init_upload" =>
         /\ data # None
         /\ data.state # "Finalized"
         /\ call.canister \in sub_canisters
         /\ call.step \notin {"size", "create"}
    /\ call.op = "finalize_upload" /\ call.step = "ok" =>
         FinalizedUnlessCollected(call.canister, call.path)

(* The core canister lists the file as finalized at c. *)
FinalizedAt(c, path) ==
  LET data == internal_filestorage[path] IN
  /\ data # None
  /\ data.state = "Finalized"
  /\ data.canister = c

(* A redirection leads to the canister of a file that is listed so, and    *)
(* that canister has finalized what is listed so.  Together these make     *)
(* RedirectionsServed: since the entry of a finalized upload stays, and a  *)
(* call in flight has an entry that is not finalized, no call touches a    *)
(* published file.                                                         *)
RedirectionsListed ==
  \A r \in Route :
    media_redirections[r] # None =>
      \E path \in Path : RouteOf[path] = r /\ FinalizedAt(media_redirections[r], path)

ListedStored ==
  \A path \in Path, c \in Canister :
    FinalizedAt(c, path) => FinalizedUnlessCollected(c, path)

(* The inductive invariant. *)
UploadsInv ==
  /\ TypeOK
  /\ LockMatchesCalls
  /\ CallsStayAuthorised
  /\ CallsConsistent
  /\ UploadsOnKnownCanisters
  /\ RedirectionsListed
  /\ ListedStored
  /\ RouterServesRedirections

(* It holds initially. *)
LEMMA UploadsInvInit == Init => UploadsInv
<1> SUFFICES ASSUME Init PROVE UploadsInv
  OBVIOUS
<1>1. TypeOK
  BY UploadsAssumption DEF Init, TypeOK, Time
<1>2. RedirectionsListed /\ ListedStored
  BY DEF Init, RedirectionsListed, ListedStored, FinalizedAt
<1> QED BY <1>1, <1>2
        DEF Init, UploadsInv, LockMatchesCalls, CallsStayAuthorised, CallsConsistent,
            UploadsOnKnownCanisters, RouterServesRedirections

(* A request changes nothing but the upload it is about. *)
LEMMA ExecutesElsewhere ==
  ASSUME TypeOK, NEW op, NEW c, NEW path, NEW answer, Executes(op, c, path, answer),
         NEW d \in Canister, NEW q \in Path, q # path \/ d # c
  PROVE  storage'[d][q] = storage[d][q]
<1>1. CASE UNCHANGED storage
  BY <1>1
<1>2. CASE \E after \in UploadState \cup {None} : storage' = [storage EXCEPT ![c][path] = after]
  BY <1>2 DEF TypeOK
<1> QED BY <1>1, <1>2 DEF Executes

(* What is published and stored depends on the entries, the redirections,  *)
(* the files and the history alone.                                        *)
LEMMA StillPublished ==
  ASSUME RedirectionsListed, ListedStored,
         UNCHANGED <<internal_filestorage, media_redirections>>,
         \A d \in Canister, q \in Path :
           FinalizedAt(d, q) /\ FinalizedUnlessCollected(d, q)
             => FinalizedUnlessCollected(d, q)'
  PROVE  RedirectionsListed' /\ ListedStored'
BY DEF RedirectionsListed, ListedStored, FinalizedAt

-----------------------------------------------------------------------------
(* Every action preserves the invariant.                                   *)

(* Granting and revoking wait for the lock, so they find no call in flight *)
(* whose caller could lose its permission.                                 *)
LEMMA PermissionStep ==
  ASSUME UploadsInv, NEW caller \in Principal, NEW principal \in Principal,
         NEW permission \in Permission,
         \/ GrantPermission(caller, principal, permission)
         \/ RevokePermission(caller, principal, permission)
  PROVE  UploadsInv'
<1>1. /\ UNCHANGED <<principal_guards, internal_filestorage, sub_canisters,
                     media_redirections, asset_router, calls, gc_files, gc_request,
                     created, storage, collected, now>>
      /\ LockIsFree
  BY DEF GrantPermission, RevokePermission, coreVars, gcVars, externalVars
<1>2. calls = {}
  BY <1>1, FreeMeansNoCall DEF UploadsInv
<1>3. user_permissions' \in [Principal -> SUBSET Permission]
  BY DEF UploadsInv, TypeOK, GrantPermission, RevokePermission
<1>4. TypeOK'
  BY <1>1, <1>3 DEF UploadsInv, TypeOK
<1>5. LockMatchesCalls' /\ CallsStayAuthorised' /\ CallsConsistent'
  BY <1>1, <1>2 DEF UploadsInv, LockMatchesCalls, CallsStayAuthorised, CallsConsistent
<1>6. UploadsOnKnownCanisters' /\ RouterServesRedirections'
  BY <1>1 DEF UploadsInv, UploadsOnKnownCanisters, RouterServesRedirections
<1>7. RedirectionsListed' /\ ListedStored'
  BY <1>1, StillPublished DEF UploadsInv, FinalizedUnlessCollected
<1> QED BY <1>4, <1>5, <1>6, <1>7 DEF UploadsInv

(* What a step that only starts a call has to establish. *)
LEMMA StartStep ==
  ASSUME UploadsInv, NEW caller \in Principal, NEW next \in Call, next.caller = caller,
         has_permission(caller, "UpdateUploads"), GuardManagement(caller),
         calls' = calls \cup {next},
         UNCHANGED <<user_permissions, coreVars, gcVars, externalVars, now>>,
         {next} = calls' => CallsConsistent'
  PROVE  UploadsInv'
<1>1. UNCHANGED <<user_permissions, internal_filestorage, sub_canisters,
                  media_redirections, asset_router, gc_files, gc_request, created,
                  storage, collected, now>>
  BY DEF coreVars, gcVars, externalVars
<1>2. LockMatchesCalls' /\ calls' = {next}
  BY StartTakesLock DEF UploadsInv
<1>3. TypeOK'
  BY <1>1, <1>2 DEF UploadsInv, TypeOK, GuardManagement
<1>4. CallsStayAuthorised'
  BY <1>1, <1>2 DEF CallsStayAuthorised, has_permission
<1>5. UploadsOnKnownCanisters' /\ RouterServesRedirections'
  BY <1>1 DEF UploadsInv, UploadsOnKnownCanisters, RouterServesRedirections
<1>6. RedirectionsListed' /\ ListedStored'
  BY <1>1, StillPublished DEF UploadsInv, FinalizedUnlessCollected
<1> QED BY <1>2, <1>3, <1>4, <1>5, <1>6 DEF UploadsInv

(* init_upload starts on a free path with a complete clone. *)
LEMMA InitUploadStep ==
  ASSUME UploadsInv, NEW caller \in Principal, NEW path \in Path, InitUpload(caller, path)
  PROVE  UploadsInv'
<1>1. PICK next \in Call :
        /\ calls' = calls \cup {next}
        /\ next.caller = caller
        /\ next.op = "init_upload"
        /\ next.path = path
        /\ next.manager = sub_canisters
        /\ next.todo \subseteq sub_canisters
        /\ \/ next.step = "create"
           \/ next.step = "size" /\ next.canister \in sub_canisters
  BY FirstTryType DEF UploadsInv
<1>2. /\ UNCHANGED <<internal_filestorage, sub_canisters, storage>>
      /\ internal_filestorage[path] = None
  BY DEF InitUpload, coreVars, externalVars
<1>3. {next} = calls' => CallsConsistent'
  BY <1>1, <1>2 DEF CallsConsistent
<1> QED BY <1>1, <1>3, StartStep DEF InitUpload

(* The other methods start on a listed upload that is not finalized; its   *)
(* canister is always known, so they never drop it.                        *)
LEMMA UploadStep ==
  ASSUME UploadsInv, NEW caller \in Principal, NEW path \in Path,
         NEW op \in {"store_chunk", "finalize_upload", "cancel_upload"},
         StartOnUpload(op, caller, path)
  PROVE  UploadsInv' /\ UNCHANGED internal_filestorage
<1> DEFINE data == internal_filestorage[path]
           next == [caller |-> caller, path |-> path, op |-> op, step |-> "sent",
                    canister |-> data.canister, init_timestamp |-> data.init_timestamp,
                    todo |-> {}, manager |-> {}, last |-> FALSE]
<1>1. /\ data # None
      /\ data.state # "Finalized"
      /\ has_permission(caller, "UpdateUploads")
  BY DEF StartOnUpload, Proceeds
<1>2. data \in InternalFilestorageData /\ data.canister \in sub_canisters
  BY <1>1 DEF UploadsInv, TypeOK, UploadsOnKnownCanisters
<1>3. /\ GuardManagement(caller)
      /\ calls' = calls \cup {next}
      /\ UNCHANGED <<user_permissions, coreVars, gcVars, externalVars, now>>
  BY <1>2 DEF StartOnUpload, coreVars
<1>4. next \in Call
  BY <1>2 DEF Call, InternalFilestorageData
<1>5. {next} = calls' => CallsConsistent'
  BY <1>1, <1>2, <1>3 DEF CallsConsistent, coreVars
<1> HIDE DEF next
<1>6. next.caller = caller
  BY DEF next
<1>7. UploadsInv'
  BY <1>1, <1>3, <1>4, <1>5, <1>6, StartStep
<1> QED BY <1>3, <1>7 DEF coreVars

(* What a call in flight is. *)
LEMMA CallType ==
  ASSUME UploadsInv, NEW call \in calls
  PROVE  /\ call \in Call
         /\ call.caller \in Principal
         /\ call.path \in Path
         /\ calls = {call}
         /\ call.op # "init_upload" => call.canister \in Canister
         /\ call.op = "init_upload" /\ call.step # "create" => call.canister \in Canister
<1>1. call \in Call /\ sub_canisters \subseteq Canister
  BY DEF UploadsInv, TypeOK
<1>2. calls = {call}
  BY DEF UploadsInv, LockMatchesCalls
<1>3. call.manager \subseteq Canister
  BY <1>1 DEF Call
<1>4. /\ call.op # "init_upload" => call.canister \in sub_canisters
      /\ call.op = "init_upload" /\ call.step # "create" => call.canister \in call.manager
  BY DEF UploadsInv, CallsConsistent
<1> QED BY <1>1, <1>2, <1>3, <1>4 DEF Call

(* What a step that carries a call on has to establish. *)
LEMMA AdvanceStep ==
  ASSUME UploadsInv, NEW call \in calls, NEW next \in Call, next.caller = call.caller,
         Advance(call, next),
         UNCHANGED <<user_permissions, principal_guards, coreVars, gcVars, collected, now>>,
         created' \subseteq Canister,
         storage' \in [Canister -> [Path -> UploadState \cup {None}]],
         \A d \in Canister, q \in Path : q # call.path => storage'[d][q] = storage[d][q],
         {next} = calls' => CallsConsistent'
  PROVE  UploadsInv'
<1>1. UNCHANGED <<user_permissions, principal_guards, internal_filestorage, sub_canisters,
                  media_redirections, asset_router, gc_files, gc_request, now>>
  BY DEF coreVars, gcVars
<1>2. LockMatchesCalls' /\ calls' = {next}
  BY <1>1, AdvanceKeepsLock DEF UploadsInv
<1>3. TypeOK'
  BY <1>1, <1>2 DEF UploadsInv, TypeOK
<1>4. CallsStayAuthorised'
  BY <1>1, <1>2 DEF UploadsInv, CallsStayAuthorised, has_permission
<1>5. RedirectionsListed' /\ ListedStored'
  <2>1. \A c \in Canister : ~FinalizedAt(c, call.path)
    BY DEF UploadsInv, CallsConsistent, FinalizedAt
  <2> QED BY <1>1, <2>1, StillPublished DEF UploadsInv, FinalizedUnlessCollected
<1>6. UploadsOnKnownCanisters' /\ RouterServesRedirections'
  BY <1>1 DEF UploadsInv, UploadsOnKnownCanisters, RouterServesRedirections
<1> QED BY <1>2, <1>3, <1>4, <1>5, <1>6 DEF UploadsInv

(* What a step that ends a call has to establish. *)
LEMMA ReturnStep ==
  ASSUME UploadsInv, NEW call \in calls, Return(call),
         UNCHANGED <<user_permissions, gcVars, storage, collected, now>>,
         created' \subseteq Canister,
         internal_filestorage' \in [Path -> InternalFilestorageData \cup {None}],
         sub_canisters' \subseteq Canister,
         media_redirections' \in [Route -> Canister \cup {None}],
         UploadsOnKnownCanisters', RedirectionsListed', ListedStored',
         RouterServesRedirections'
  PROVE  UploadsInv'
<1>1. LockMatchesCalls' /\ calls' = {} /\ principal_guards' = {}
  BY ReturnFreesLock DEF UploadsInv
<1>2. TypeOK'
  BY <1>1 DEF UploadsInv, TypeOK, gcVars, RouterServesRedirections
<1>3. CallsStayAuthorised' /\ CallsConsistent'
  BY <1>1 DEF CallsStayAuthorised, CallsConsistent
<1> QED BY <1>1, <1>2, <1>3 DEF UploadsInv

(* The storage canister's answer: a finalization it confirms is in effect. *)
LEMMA StorageStep ==
  ASSUME UploadsInv, NEW call \in calls, StorageExecutes(call)
  PROVE  UploadsInv'
<1>1. PICK answer \in {"ok", "err"} :
        /\ Executes(call.op, call.canister, call.path, answer)
        /\ Advance(call, [call EXCEPT !.step = answer])
  BY DEF StorageExecutes
<1> DEFINE next == [call EXCEPT !.step = answer]
<1>2. /\ call.step = "sent"
      /\ UNCHANGED <<user_permissions, principal_guards, coreVars, gcVars, created,
                     collected, now>>
  BY DEF StorageExecutes
<1>3. /\ call \in Call
      /\ call.path \in Path
      /\ call.canister \in Canister
  BY <1>2, CallType
<1>4. /\ next \in Call
      /\ next.caller = call.caller
      /\ next.op = call.op
      /\ next.path = call.path
      /\ next.canister = call.canister
      /\ next.manager = call.manager
      /\ next.todo = call.todo
      /\ next.step = answer
  BY <1>3 DEF Call
<1>5. storage' \in [Canister -> [Path -> UploadState \cup {None}]]
  BY <1>1, ExecutesType DEF UploadsInv
<1>6. \A d \in Canister, q \in Path : q # call.path => storage'[d][q] = storage[d][q]
  BY <1>1, ExecutesElsewhere DEF UploadsInv
<1>7. call.op = "finalize_upload" /\ answer = "ok"
        => FinalizedUnlessCollected(call.canister, call.path)'
  <2> SUFFICES ASSUME call.op = "finalize_upload", answer = "ok"
               PROVE  FinalizedUnlessCollected(call.canister, call.path)'
    OBVIOUS
  <2>1. PICK after \in UploadState \cup {None} :
          /\ <<"finalize_upload", storage[call.canister][call.path], after>> \in Accepted
          /\ storage' = [storage EXCEPT ![call.canister][call.path] = after]
    BY <1>1 DEF Executes
  <2>2. after = "Finalized"
    BY <2>1 DEF Accepted
  <2>3. storage \in [Canister -> [Path -> UploadState \cup {None}]]
    BY DEF UploadsInv, TypeOK
  <2> QED BY <1>3, <2>1, <2>2, <2>3 DEF FinalizedUnlessCollected
<1>8. created' \subseteq Canister
  BY <1>2 DEF UploadsInv, TypeOK
<1>9. CASE {next} = calls'
  <2>1. CallsConsistent
    BY DEF UploadsInv
  <2> HIDE DEF next
  <2>2. CallsConsistent'
    BY <2>1, <1>2, <1>4, <1>7, <1>9 DEF CallsConsistent, coreVars
  <2> QED BY <1>1, <1>2, <1>4, <1>5, <1>6, <1>8, <2>2, AdvanceStep DEF next
<1>10. calls' = {next}
  BY <1>1, CallType DEF Advance
<1> QED BY <1>9, <1>10

(* Trying the next canister keeps the clone and the canister in it. *)
LEMMA NextTryStep ==
  ASSUME UploadsInv, NEW call \in calls, call.op = "init_upload",
         NEW next \in NextTries(call), Advance(call, next),
         UNCHANGED <<user_permissions, principal_guards, coreVars, gcVars,
                     externalVars, now>>
  PROVE  UploadsInv'
<1>1. call \in Call /\ CallsConsistent
  BY CallType DEF UploadsInv
<1>2. /\ next \in Call
      /\ next.caller = call.caller
      /\ next.op = call.op
      /\ next.path = call.path
      /\ next.manager = call.manager
      /\ next.todo \subseteq call.todo
      /\ \/ next.step = "create"
         \/ next.step = "size" /\ next.canister \in call.todo
  BY <1>1, NextTriesType
<1>3. {next} = calls' => CallsConsistent'
  BY <1>1, <1>2 DEF CallsConsistent, coreVars, externalVars
<1>4. /\ created' \subseteq Canister
      /\ UNCHANGED <<storage, collected>>
      /\ storage' \in [Canister -> [Path -> UploadState \cup {None}]]
  BY DEF UploadsInv, TypeOK, externalVars
<1> QED BY <1>2, <1>3, <1>4, AdvanceStep

(* The answer of get_storage_size. *)
LEMMA SizeStep ==
  ASSUME UploadsInv, NEW call \in calls, SizeReply(call)
  PROVE  UploadsInv'
<1>1. call.op = "init_upload"
  BY DEF SizeReply, UploadsInv, CallsConsistent
<1>2. PICK next \in {[call EXCEPT !.step = "sent"]} \cup NextTries(call) : Advance(call, next)
  BY DEF SizeReply
<1>3. UNCHANGED <<user_permissions, principal_guards, coreVars, gcVars, externalVars, now>>
  BY DEF SizeReply
<1>4. CASE next \in NextTries(call)
  BY <1>1, <1>2, <1>3, <1>4, NextTryStep
<1>5. CASE next = [call EXCEPT !.step = "sent"]
  <2>1. call \in Call /\ CallsConsistent /\ call.step = "size"
    BY CallType DEF UploadsInv, SizeReply
  <2>2. /\ next \in Call
        /\ next.caller = call.caller
        /\ next.op = call.op
        /\ next.path = call.path
        /\ next.canister = call.canister
        /\ next.manager = call.manager
        /\ next.todo = call.todo
        /\ next.step = "sent"
    BY <1>5, <2>1 DEF Call
  <2>3. {next} = calls' => CallsConsistent'
    BY <1>1, <1>3, <2>1, <2>2 DEF CallsConsistent, coreVars, externalVars
  <2>4. /\ created' \subseteq Canister
        /\ UNCHANGED <<storage, collected>>
        /\ storage' \in [Canister -> [Path -> UploadState \cup {None}]]
    BY <1>3 DEF UploadsInv, TypeOK, externalVars
  <2> QED BY <1>2, <1>3, <2>2, <2>3, <2>4, AdvanceStep
<1> QED BY <1>2, <1>4, <1>5

(* The answer of create_canister: the clone gains the new canister. *)
LEMMA CreateStep ==
  ASSUME UploadsInv, NEW call \in calls, CreateReply(call)
  PROVE  UploadsInv'
<1>1. /\ call.step = "create"
      /\ UNCHANGED <<user_permissions, coreVars, gcVars, storage, collected, now>>
  BY DEF CreateReply
<1>2. /\ call \in Call
      /\ call.op = "init_upload"
      /\ CallsConsistent
  BY <1>1, CallType DEF UploadsInv, CallsConsistent
<1>3. ASSUME NEW c \in Canister,
             created' = created \cup {c},
             Advance(call, [call EXCEPT !.step = "sent", !.canister = c,
                                        !.manager = @ \cup {c}, !.last = TRUE]),
             UNCHANGED principal_guards
      PROVE  UploadsInv'
  <2> DEFINE next == [call EXCEPT !.step = "sent", !.canister = c,
                                  !.manager = @ \cup {c}, !.last = TRUE]
  <2>1. call.manager \cup {c} \in SUBSET Canister
    BY <1>2 DEF Call
  <2>2. /\ next \in Call
        /\ next.caller = call.caller
        /\ next.op = call.op
        /\ next.path = call.path
        /\ next.canister = c
        /\ next.manager = call.manager \cup {c}
        /\ next.todo = call.todo
        /\ next.step = "sent"
    BY <1>2, <2>1 DEF Call
  <2> HIDE DEF next
  <2>3. {next} = calls' => CallsConsistent'
    BY <1>1, <1>2, <2>2 DEF CallsConsistent, coreVars
  <2>4. /\ created' \subseteq Canister
        /\ storage' = storage
        /\ storage' \in [Canister -> [Path -> UploadState \cup {None}]]
    BY <1>1, <1>3 DEF UploadsInv, TypeOK
  <2>5. Advance(call, next)
    BY <1>3 DEF next
  <2> QED BY <1>1, <1>3, <2>2, <2>3, <2>4, <2>5, AdvanceStep
<1>4. ASSUME created' \in {created} \cup {created \cup {c} : c \in Canister},
             Return(call)
      PROVE  UploadsInv'
  <2>1. created' \subseteq Canister
    BY <1>4 DEF UploadsInv, TypeOK
  <2>2. UNCHANGED <<internal_filestorage, sub_canisters, media_redirections,
                    asset_router, storage, collected>>
    BY <1>1 DEF coreVars
  <2>3. /\ internal_filestorage' \in [Path -> InternalFilestorageData \cup {None}]
        /\ sub_canisters' \subseteq Canister
        /\ media_redirections' \in [Route -> Canister \cup {None}]
        /\ UploadsOnKnownCanisters'
        /\ RouterServesRedirections'
    BY <2>2 DEF UploadsInv, TypeOK, UploadsOnKnownCanisters, RouterServesRedirections
  <2>4. RedirectionsListed' /\ ListedStored'
    BY <2>2, StillPublished DEF UploadsInv, FinalizedUnlessCollected
  <2> QED BY <1>1, <1>4, <2>1, <2>3, <2>4, ReturnStep
<1> QED BY <1>3, <1>4 DEF CreateReply

(* A new entry in the place of one that was not finalized: the published   *)
(* files are those of the others.                                          *)
LEMMA OtherEntriesPublished ==
  ASSUME RedirectionsListed, ListedStored, NEW p \in Path,
         \A c \in Canister : ~FinalizedAt(c, p),
         \A c \in Canister : FinalizedAt(c, p)' => FinalizedUnlessCollected(c, p)',
         \A path \in Path : path # p =>
           internal_filestorage'[path] = internal_filestorage[path],
         media_redirections \in [Route -> Canister \cup {None}],
         UNCHANGED <<storage, collected, media_redirections>>
  PROVE  RedirectionsListed' /\ ListedStored'
<1>1. ASSUME NEW c \in Canister, NEW path \in Path, FinalizedAt(c, path)
      PROVE  FinalizedAt(c, path)'
  BY <1>1 DEF FinalizedAt
<1>2. RedirectionsListed'
  BY <1>1 DEF RedirectionsListed
<1>3. ListedStored'
  <2> SUFFICES ASSUME NEW path \in Path, NEW c \in Canister, FinalizedAt(c, path)'
               PROVE  FinalizedUnlessCollected(c, path)'
    BY DEF ListedStored
  <2>1. CASE path = p
    BY <2>1
  <2>2. CASE path # p
    BY <2>2 DEF ListedStored, FinalizedAt, FinalizedUnlessCollected
  <2> QED BY <2>1, <2>2
<1> QED BY <1>2, <1>3

(* init_upload's last reply: the clone it writes back knows the canisters  *)
(* of all uploads, and the entry it inserts was free.                      *)
LEMMA InitReplyStep ==
  ASSUME UploadsInv, NEW call \in calls, InitUploadReply(call)
  PROVE  /\ UploadsInv'
         /\ \A path \in Path : internal_filestorage[path] # None =>
              internal_filestorage'[path] = internal_filestorage[path]
<1>1. /\ call.op = "init_upload"
      /\ UNCHANGED <<user_permissions, media_redirections, asset_router, gcVars,
                     externalVars, now>>
  BY DEF InitUploadReply
<1>2. /\ call \in Call
      /\ call.path \in Path
      /\ internal_filestorage[call.path] = None
      /\ sub_canisters \subseteq call.manager
      /\ call.manager \subseteq Canister
      /\ call.step # "create" => call.canister \in call.manager
  BY <1>1, CallType DEF UploadsInv, CallsConsistent, Call
<1>3. /\ created' \subseteq Canister
      /\ media_redirections' \in [Route -> Canister \cup {None}]
      /\ RouterServesRedirections'
      /\ UNCHANGED <<storage, collected>>
  BY <1>1 DEF UploadsInv, TypeOK, RouterServesRedirections, externalVars
<1>4. CASE /\ call.step = "ok"
           /\ WriteBack(call)
           /\ Insert(call.path, "Init", call.canister, now)
           /\ Return(call)
  <2>1. call.canister \in Canister /\ now \in Time /\ "Init" \in UploadState
    BY <1>2, <1>4 DEF UploadsInv, TypeOK, UploadState
  <2>2. internal_filestorage' \in [Path -> InternalFilestorageData \cup {None}]
    BY <1>2, <1>4, <2>1, InsertType DEF UploadsInv
  <2>3. /\ sub_canisters' = call.manager
        /\ internal_filestorage'[call.path].canister = call.canister
        /\ \A path \in Path : path # call.path =>
             internal_filestorage'[path] = internal_filestorage[path]
    BY <1>2, <1>4 DEF WriteBack, Insert, UploadsInv, TypeOK
  <2>6. internal_filestorage'[call.path].state = "Init"
    BY <1>2, <1>4 DEF Insert, UploadsInv, TypeOK
  <2>7. RedirectionsListed' /\ ListedStored'
    BY <1>1, <1>2, <1>3, <2>3, <2>6, OtherEntriesPublished DEF UploadsInv, FinalizedAt
  <2>4. UploadsOnKnownCanisters'
    BY <1>2, <1>4, <2>3 DEF UploadsInv, UploadsOnKnownCanisters
  <2>5. UploadsInv'
    BY <1>1, <1>2, <1>3, <1>4, <2>2, <2>3, <2>4, <2>7, ReturnStep
  <2> QED BY <1>2, <2>3, <2>5
<1>5. ASSUME UNCHANGED <<sub_canisters, internal_filestorage>>
      PROVE  /\ internal_filestorage' \in [Path -> InternalFilestorageData \cup {None}]
             /\ sub_canisters' \subseteq Canister
             /\ UploadsOnKnownCanisters'
             /\ RedirectionsListed'
             /\ ListedStored'
  BY <1>1, <1>3, <1>5, StillPublished
     DEF UploadsInv, TypeOK, UploadsOnKnownCanisters, FinalizedUnlessCollected
<1>6. CASE /\ \E next \in NextTries(call) : Advance(call, next)
           /\ UNCHANGED <<sub_canisters, internal_filestorage, principal_guards>>
  BY <1>1, <1>6, NextTryStep DEF coreVars
<1>7. CASE /\ Return(call)
           /\ UNCHANGED <<sub_canisters, internal_filestorage>>
  <2>1. UploadsInv'
    BY <1>1, <1>3, <1>5, <1>7, ReturnStep
  <2> QED BY <1>7, <2>1
<1> QED BY <1>4, <1>6, <1>7 DEF InitUploadReply

(* The replies of the other methods find the entry they read still listed  *)
(* and not finalized.  A confirmed finalization publishes a file that is   *)
(* served.                                                                 *)
LEMMA UploadReplyStep ==
  ASSUME UploadsInv, NEW call \in calls,
         \/ StoreChunkReply(call) \/ CancelUploadReply(call)
         \/ FinalizeUploadReply(call) \/ FinalizeUploadTraps(call)
  PROVE  /\ UploadsInv'
         /\ \A path \in Path : path # call.path =>
              internal_filestorage'[path] = internal_filestorage[path]
         /\ internal_filestorage[call.path].state # "Finalized"
<1>1. /\ call.op # "init_upload"
      /\ Return(call)
      /\ UNCHANGED <<user_permissions, sub_canisters, gcVars, externalVars, now>>
  BY DEF StoreChunkReply, FinalizeUploadReply, FinalizeUploadTraps, CancelUploadReply, coreVars
<1>2. /\ call.path \in Path
      /\ call.canister \in Canister
      /\ call.canister \in sub_canisters
      /\ internal_filestorage[call.path].state # "Finalized"
      /\ call.init_timestamp \in Time
  BY <1>1, CallType DEF UploadsInv, CallsConsistent, Call
<1>3. \/ UNCHANGED internal_filestorage
      \/ internal_filestorage' = [internal_filestorage EXCEPT ![call.path] = None]
      \/ \E state \in UploadState :
           Insert(call.path, state, call.canister, call.init_timestamp)
  BY DEF StoreChunkReply, FinalizeUploadReply, FinalizeUploadTraps, CancelUploadReply,
         UploadState, coreVars
<1>4. internal_filestorage' \in [Path -> InternalFilestorageData \cup {None}]
  <2>1. CASE \E state \in UploadState :
               Insert(call.path, state, call.canister, call.init_timestamp)
    BY <1>2, <2>1, InsertType DEF UploadsInv
  <2>2. CASE ~ \E state \in UploadState :
               Insert(call.path, state, call.canister, call.init_timestamp)
    BY <1>3, <2>2 DEF UploadsInv, TypeOK
  <2> QED BY <2>1, <2>2
<1>5. /\ \A path \in Path : path # call.path =>
           internal_filestorage'[path] = internal_filestorage[path]
      /\ \/ internal_filestorage'[call.path] = internal_filestorage[call.path]
         \/ internal_filestorage'[call.path] = None
         \/ internal_filestorage'[call.path].canister = call.canister
  <2>1. internal_filestorage \in [Path -> InternalFilestorageData \cup {None}]
    BY DEF UploadsInv, TypeOK
  <2>2. CASE UNCHANGED internal_filestorage
    BY <2>2
  <2>3. CASE internal_filestorage' = [internal_filestorage EXCEPT ![call.path] = None]
    BY <1>2, <2>1, <2>3
  <2>4. ASSUME NEW state \in UploadState,
               Insert(call.path, state, call.canister, call.init_timestamp)
        PROVE  /\ \A path \in Path : path # call.path =>
                    internal_filestorage'[path] = internal_filestorage[path]
               /\ internal_filestorage'[call.path].canister = call.canister
    BY <1>2, <2>1, <2>4 DEF Insert
  <2> QED BY <1>3, <2>2, <2>3, <2>4
<1>6. UploadsOnKnownCanisters'
  BY <1>1, <1>2, <1>5 DEF UploadsInv, UploadsOnKnownCanisters
<1>7. /\ UNCHANGED <<created, storage, collected>>
      /\ created' \subseteq Canister
      /\ sub_canisters' \subseteq Canister
  BY <1>1 DEF externalVars, UploadsInv, TypeOK
<1>8. CASE /\ UNCHANGED <<media_redirections, asset_router>>
           /\ \/ UNCHANGED internal_filestorage
              \/ internal_filestorage' = [internal_filestorage EXCEPT ![call.path] = None]
              \/ Insert(call.path, "InProgress", call.canister, call.init_timestamp)
  <2>1. /\ media_redirections' \in [Route -> Canister \cup {None}]
        /\ RouterServesRedirections'
    BY <1>8 DEF UploadsInv, TypeOK, RouterServesRedirections
  <2>2. \A c \in Canister : ~FinalizedAt(c, call.path) /\ ~FinalizedAt(c, call.path)'
    BY <1>2, <1>8 DEF FinalizedAt, Insert, UploadsInv, TypeOK
  <2>3. RedirectionsListed' /\ ListedStored'
    BY <1>2, <1>5, <1>7, <1>8, <2>2, OtherEntriesPublished DEF UploadsInv, TypeOK
  <2>4. UploadsInv'
    BY <1>1, <1>4, <1>6, <1>7, <2>1, <2>3, ReturnStep
  <2> QED BY <1>2, <1>5, <2>4
<1>9. CASE /\ call.op = "finalize_upload"
           /\ call.step = "ok"
           /\ asset_router' = [asset_router EXCEPT ![RouteOf[call.path]] = call.canister]
           /\ media_redirections' =
                [media_redirections EXCEPT ![RouteOf[call.path]] = call.canister]
           /\ Insert(call.path, "Finalized", call.canister, call.init_timestamp)
  <2>1. FinalizedUnlessCollected(call.canister, call.path)
    BY <1>9 DEF UploadsInv, CallsConsistent
  <2>2. /\ media_redirections' \in [Route -> Canister \cup {None}]
        /\ RouterServesRedirections'
    BY <1>2, <1>9 DEF UploadsInv, TypeOK, RouterServesRedirections
  <2>3. internal_filestorage'[call.path] =
          [state |-> "Finalized", canister |-> call.canister,
           init_timestamp |-> call.init_timestamp]
    BY <1>2, <1>9 DEF Insert, UploadsInv, TypeOK
  <2>4. /\ FinalizedAt(call.canister, call.path)'
        /\ \A c \in Canister : FinalizedAt(c, call.path)' => c = call.canister
    <3>1. internal_filestorage'[call.path] # None
      <4>1. internal_filestorage'[call.path] \in InternalFilestorageData
        BY <1>2, <2>3 DEF InternalFilestorageData, UploadState
      <4> QED BY <4>1, UploadsAssumption
    <3> QED BY <2>3, <3>1 DEF FinalizedAt
  <2>5. \A c \in Canister : ~FinalizedAt(c, call.path)
    BY <1>2 DEF FinalizedAt
  <2>6. ASSUME NEW c \in Canister, NEW path \in Path, FinalizedAt(c, path)
        PROVE  FinalizedAt(c, path)'
    BY <1>5, <2>5, <2>6 DEF FinalizedAt
  <2>7. RedirectionsListed'
    <3> SUFFICES ASSUME NEW r \in Route, NEW c, c = media_redirections'[r], c # None
                 PROVE  \E path \in Path : RouteOf[path] = r /\ FinalizedAt(c, path)'
      BY DEF RedirectionsListed, FinalizedAt
    <3>1. CASE r = RouteOf[call.path]
      BY <1>2, <1>9, <2>4, <3>1 DEF UploadsInv, TypeOK
    <3>2. CASE r # RouteOf[call.path]
      <4>1. c = media_redirections[r] /\ c \in Canister
        BY <1>9, <3>2 DEF UploadsInv, TypeOK
      <4>2. PICK path \in Path : RouteOf[path] = r /\ FinalizedAt(c, path)
        BY <4>1 DEF UploadsInv, RedirectionsListed
      <4> QED BY <2>6, <4>1, <4>2
    <3> QED BY <3>1, <3>2
  <2>8. ListedStored'
    <3> SUFFICES ASSUME NEW path \in Path, NEW c \in Canister, FinalizedAt(c, path)'
                 PROVE  FinalizedUnlessCollected(c, path)'
      BY DEF ListedStored
    <3>1. CASE path = call.path
      BY <1>7, <2>1, <2>4, <3>1 DEF FinalizedUnlessCollected
    <3>2. CASE path # call.path
      BY <1>5, <1>7, <3>2 DEF UploadsInv, ListedStored, FinalizedAt, FinalizedUnlessCollected
    <3> QED BY <3>1, <3>2
  <2>9. UploadsInv'
    BY <1>1, <1>4, <1>6, <1>7, <2>2, <2>7, <2>8, ReturnStep
  <2> QED BY <1>2, <1>5, <2>9
<1> QED BY <1>8, <1>9 DEF StoreChunkReply, FinalizeUploadReply, FinalizeUploadTraps,
        CancelUploadReply, coreVars

(* The garbage collector, an upgrade and the clock leave the lock, the     *)
(* calls and the entries of the uploads alone.                             *)
LEMMA BackgroundStep ==
  ASSUME UploadsInv,
         UNCHANGED <<user_permissions, principal_guards, internal_filestorage,
                     sub_canisters, media_redirections, calls, created>>,
         asset_router' = media_redirections,
         gc_files' \subseteq GcFile,
         gc_request' \in GcFile \cup {None},
         now' \in Time,
         storage' \in [Canister -> [Path -> UploadState \cup {None}]],
         collected' \subseteq Canister \X Path,
         \A d \in Canister, q \in Path :
           FinalizedUnlessCollected(d, q) => FinalizedUnlessCollected(d, q)'
  PROVE  UploadsInv'
<1>1. TypeOK'
  BY DEF UploadsInv, TypeOK, RouterServesRedirections
<1>2. LockMatchesCalls' /\ CallsStayAuthorised' /\ UploadsOnKnownCanisters'
  BY DEF UploadsInv, LockMatchesCalls, CallsStayAuthorised, has_permission,
         UploadsOnKnownCanisters
<1>3. RedirectionsListed' /\ ListedStored' /\ RouterServesRedirections'
  BY StillPublished DEF UploadsInv, RouterServesRedirections
<1>4. CallsConsistent'
  <2> SUFFICES ASSUME NEW call \in calls PROVE CallsConsistent!(call)'
    BY DEF CallsConsistent
  <2>1. call.path \in Path /\ (call.op # "init_upload" => call.canister \in Canister)
    BY CallType
  <2> QED BY <2>1 DEF UploadsInv, CallsConsistent
<1> QED BY <1>1, <1>2, <1>3, <1>4 DEF UploadsInv

(* A run of the garbage collector begins with the uploads as they are. *)
LEMMA GcStartStep ==
  ASSUME UploadsInv, GcStart
  PROVE  UploadsInv'
<1>1. UNCHANGED <<user_permissions, principal_guards, internal_filestorage, sub_canisters,
                  media_redirections, asset_router, calls, gc_request, created, storage,
                  collected, now>>
  BY DEF GcStart, coreVars, externalVars
<1>2. gc_files' \subseteq GcFile
  <2> SUFFICES ASSUME NEW path \in Path, internal_filestorage[path] # None
               PROVE  [path |-> path, canister |-> internal_filestorage[path].canister,
                       init_timestamp |-> internal_filestorage[path].init_timestamp] \in GcFile
    BY DEF GcStart
  <2>1. internal_filestorage[path] \in InternalFilestorageData
    BY DEF UploadsInv, TypeOK
  <2> QED BY <2>1 DEF GcFile, InternalFilestorageData
<1> QED BY <1>1, <1>2, BackgroundStep
        DEF UploadsInv, TypeOK, RouterServesRedirections, FinalizedUnlessCollected

(* It looks at one upload after the other ... *)
LEMMA GcLooksAtStep ==
  ASSUME UploadsInv, NEW file \in gc_files, GcLooksAt(file)
  PROVE  UploadsInv'
<1>1. UNCHANGED <<user_permissions, principal_guards, internal_filestorage, sub_canisters,
                  media_redirections, asset_router, calls, created, storage, collected, now>>
  BY DEF GcLooksAt, coreVars, externalVars
<1>2. gc_files' \subseteq GcFile /\ gc_request' \in GcFile \cup {None}
  BY DEF GcLooksAt, UploadsInv, TypeOK
<1> QED BY <1>1, <1>2, BackgroundStep
        DEF UploadsInv, TypeOK, RouterServesRedirections, FinalizedUnlessCollected

(* ... and what its cancellations take away is in the history. *)
LEMMA GcCancelsStep ==
  ASSUME UploadsInv, GcCancels
  PROVE  UploadsInv'
<1>1. UNCHANGED <<user_permissions, principal_guards, internal_filestorage, sub_canisters,
                  media_redirections, asset_router, calls, gc_files, created, now>>
  BY DEF GcCancels, coreVars
<1> DEFINE c == gc_request.canister
           path == gc_request.path
<1>2. PICK answer \in {"ok", "err"} : Executes("cancel_upload", c, path, answer)
  BY DEF GcCancels
<1>6. c \in Canister /\ path \in Path
  BY DEF GcCancels, UploadsInv, TypeOK, GcFile
<1>7. collected' = IF storage[c][path] = "Finalized" /\ storage'[c][path] # "Finalized"
                     THEN collected \cup {<<c, path>>}
                     ELSE collected
  BY DEF GcCancels
<1> HIDE DEF c, path
<1>3. storage' \in [Canister -> [Path -> UploadState \cup {None}]]
  BY <1>2, ExecutesType DEF UploadsInv
<1>4. ASSUME NEW d \in Canister, NEW q \in Path, FinalizedUnlessCollected(d, q)
      PROVE  FinalizedUnlessCollected(d, q)'
  <2>1. CASE d = c /\ q = path
    BY <1>4, <1>7, <2>1 DEF FinalizedUnlessCollected
  <2>2. CASE ~(d = c /\ q = path)
    <3>1. storage'[d][q] = storage[d][q]
      BY <1>2, <2>2, ExecutesElsewhere DEF UploadsInv
    <3>2. collected \subseteq collected'
      BY <1>7
    <3> QED BY <1>4, <3>1, <3>2 DEF FinalizedUnlessCollected
  <2> QED BY <2>1, <2>2
<1>5. /\ gc_request' \in GcFile \cup {None}
      /\ collected' \subseteq Canister \X Path
  BY <1>6, <1>7 DEF GcCancels, UploadsInv, TypeOK
<1> QED BY <1>1, <1>3, <1>4, <1>5, BackgroundStep
        DEF UploadsInv, TypeOK, RouterServesRedirections

(* An upgrade rebuilds the router; the clock only advances. *)
LEMMA UpgradeOrTickStep ==
  ASSUME UploadsInv, Upgrade \/ Tick
  PROVE  UploadsInv'
<1>1. UNCHANGED <<user_permissions, principal_guards, internal_filestorage, sub_canisters,
                  media_redirections, calls, gc_files, gc_request, created, storage, collected>>
  BY DEF Upgrade, Tick, coreVars, gcVars, externalVars
<1>2. asset_router' = media_redirections
  BY DEF Upgrade, Tick, UploadsInv, RouterServesRedirections, coreVars
<1>3. now' \in Time
  BY UploadsAssumption DEF Upgrade, Tick, UploadsInv, TypeOK, Time
<1> QED BY <1>1, <1>2, <1>3, BackgroundStep DEF UploadsInv, TypeOK, FinalizedUnlessCollected

(* Every step of the specification preserves the invariant, and keeps the  *)
(* entry of a finalized upload.                                            *)
LEMMA UploadsInvNext ==
  ASSUME UploadsInv, [Next]_vars
  PROVE  /\ UploadsInv'
         /\ \A path \in Path :
              LET data == internal_filestorage[path] IN
                data # None /\ data.state = "Finalized" => internal_filestorage'[path] = data
<1>1. ASSUME NEW caller \in Principal, NEW principal \in Principal,
             NEW permission \in Permission,
             \/ GrantPermission(caller, principal, permission)
             \/ RevokePermission(caller, principal, permission)
      PROVE  UploadsInv' /\ UNCHANGED internal_filestorage
  BY <1>1, PermissionStep DEF GrantPermission, RevokePermission, coreVars
<1>2. ASSUME NEW caller \in Principal, NEW path \in Path, InitUpload(caller, path)
      PROVE  UploadsInv' /\ UNCHANGED internal_filestorage
  BY <1>2, InitUploadStep DEF InitUpload, coreVars
<1>3. ASSUME NEW caller \in Principal, NEW path \in Path,
             \/ StoreChunk(caller, path)
             \/ FinalizeUpload(caller, path)
             \/ CancelUpload(caller, path)
      PROVE  UploadsInv' /\ UNCHANGED internal_filestorage
  BY <1>3, UploadStep DEF StoreChunk, FinalizeUpload, CancelUpload
<1>4. ASSUME NEW call \in calls,
             StorageExecutes(call) \/ SizeReply(call) \/ CreateReply(call)
      PROVE  UploadsInv' /\ UNCHANGED internal_filestorage
  BY <1>4, StorageStep, SizeStep, CreateStep DEF StorageExecutes, SizeReply, CreateReply, coreVars
<1>5. CASE \E call \in calls : InitUploadReply(call)
  BY <1>5, InitReplyStep
<1>6. CASE \E call \in calls :
             \/ StoreChunkReply(call) \/ CancelUploadReply(call)
             \/ FinalizeUploadReply(call) \/ FinalizeUploadTraps(call)
  BY <1>6, UploadReplyStep
<1>7. CASE GcStart \/ (\E file \in gc_files : GcLooksAt(file)) \/ GcCancels
  <2>1. UploadsInv'
    BY <1>7, GcStartStep, GcLooksAtStep, GcCancelsStep
  <2> QED BY <1>7, <2>1 DEF GcStart, GcLooksAt, GcCancels, coreVars
<1>8. CASE Upgrade \/ Tick
  <2>1. UploadsInv'
    BY <1>8, UpgradeOrTickStep
  <2> QED BY <1>8, <2>1 DEF Upgrade, Tick, coreVars
<1>9. CASE UNCHANGED vars
  <2>1. UploadsInv'
    BY <1>9 DEF vars, UploadsInv, TypeOK, LockMatchesCalls, CallsStayAuthorised,
                has_permission, CallsConsistent, UploadsOnKnownCanisters,
                RedirectionsListed, ListedStored, FinalizedAt, FinalizedUnlessCollected,
                RouterServesRedirections
  <2> QED BY <1>9, <2>1 DEF vars
<1> QED BY <1>1, <1>2, <1>3, <1>4, <1>5, <1>6, <1>7, <1>8, <1>9 DEF Next, CallProgress

-----------------------------------------------------------------------------
(* The theorems.                                                           *)

(* The invariant holds in every reachable state. *)
LEMMA UploadsInvariant == Spec => []UploadsInv
<1>1. UploadsInv /\ [Next]_vars => UploadsInv'
  BY UploadsInvNext
<1> QED BY <1>1, UploadsInvInit, PTL DEF Spec

(* The state of the management side is always well typed. *)
THEOREM TypeCorrect == Spec => []TypeOK
<1>1. UploadsInv => TypeOK
  BY DEF UploadsInv
<1> QED BY <1>1, UploadsInvariant, PTL

(* GuardManagement keeps management calls apart over all their awaits, and *)
(* no way out of a method leaves it held.                                  *)
THEOREM ManagementIsExclusive == Spec => []LockMatchesCalls
<1>1. UploadsInv => LockMatchesCalls
  BY DEF UploadsInv
<1> QED BY <1>1, UploadsInvariant, PTL

(* Whoever revokes a permission does so before or after an upload call,    *)
(* never in the middle of one.                                             *)
THEOREM NoCallLosesItsPermission == Spec => []CallsStayAuthorised
<1>1. UploadsInv => CallsStayAuthorised
  BY DEF UploadsInv
<1> QED BY <1>1, UploadsInvariant, PTL

(* Writing back a clone of the storage manager never loses the canister of *)
(* an upload.                                                              *)
THEOREM ManagerKnowsUploads == Spec => []UploadsOnKnownCanisters
<1>1. UploadsInv => UploadsOnKnownCanisters
  BY DEF UploadsInv
<1> QED BY <1>1, UploadsInvariant, PTL

(* What is listed as published is so. *)
LEMMA PublishedServed == UploadsInv => RedirectionsServed
BY DEF UploadsInv, TypeOK, RedirectionsListed, ListedStored, RedirectionsServed

(* A published address always leads to a finalized file, whatever calls    *)
(* come, fail and trap: only a cancel of the garbage collector, accepted   *)
(* by the storage canister, ever takes one away.                           *)
THEOREM PublishedFilesStay == Spec => []RedirectionsServed
BY PublishedServed, UploadsInvariant, PTL

(* The HTTP router agrees with the saved redirections across upgrades.     *)
THEOREM RouterAgrees == Spec => []RouterServesRedirections
<1>1. UploadsInv => RouterServesRedirections
  BY DEF UploadsInv
<1> QED BY <1>1, UploadsInvariant, PTL

(* The entry of a finalized upload never changes again.                    *)
THEOREM FinalizedEntriesStay == Spec => FinalizedForGood
<1>1. UploadsInv /\ [Next]_vars =>
        [\A path \in Path :
           LET data == internal_filestorage[path] IN
             data # None /\ data.state = "Finalized" => internal_filestorage'[path] = data]_vars
  BY UploadsInvNext
<1> QED BY <1>1, UploadsInvariant, PTL DEF Spec, FinalizedForGood
=============================================================================
