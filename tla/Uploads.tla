------------------------------- MODULE Uploads -------------------------------
(***************************************************************************)
(* The management side of the core_nft canister: the lock in front of the  *)
(* management methods, the permissions, the upload of media files to the   *)
(* storage canisters, the daily upload garbage collector, and upgrades.    *)
(*                                                                         *)
(* The upload methods await the storage canisters, so a call is several    *)
(* steps: it starts, each request it sends is executed by the storage      *)
(* canister or refused, and its reply is handled.  Other calls, the        *)
(* garbage collector and the clock run in between; the lock is all that    *)
(* keeps two management calls apart.                                       *)
(*                                                                         *)
(* External: the storage canister keeps an upload per path and answers Ok  *)
(* or an error.  Its interface names the errors of store_chunk and of      *)
(* finalize_upload on a finalized upload, and none for cancel_upload: it   *)
(* may cancel one or refuse to.  Its methods do not await, so a request is *)
(* executed once and answered, or not executed at all (retry_async then    *)
(* sends it up to three times; only the last outcome matters here).        *)
(* create_canister of the sub-canister manager may fail after the canister *)
(* exists.                                                                 *)
(*                                                                         *)
(* Abstracted: bytes, hashes and sizes of files (an upload may be refused  *)
(* for lack of room, a chunk as invalid, a finalization as incomplete);    *)
(* file_path is a model value and RouteOf its normal form with the leading *)
(* '/'; the URL a route redirects to is the canister in it.                *)
(*                                                                         *)
(* An operator just before the one it resembles (GuardManagementUnheld     *)
(* before GuardManagement) is a faulty variant, which the properties rule  *)
(* out.                                                                    *)
(***************************************************************************)
EXTENDS Integers, FiniteSets

CONSTANTS
  Principal,    \* callers
  Admin,        \* the principals the canister is installed with all permissions for
  Path,         \* file paths
  RouteOf,      \* RouteOf[path]: the path the redirection of the file is served under
  Canister,     \* bound on the storage canisters that can be created
  None,
  DayInMs,      \* DAY_IN_MS, in the unit of the clock
  MaxTime       \* bound on the clock

MAX_CONCURRENT == 1

Permission == {"ManageAuthorities", "UpdateUploads"}
Route == {RouteOf[p] : p \in Path}
Time == 0..MaxTime

UploadState == {"Init", "InProgress", "Finalized"}
InternalFilestorageData ==
  [state : UploadState, canister : Canister, init_timestamp : Time]

(* A management call between two of its messages.  step: "size" and        *)
(* "create" wait for get_storage_size and create_canister, "sent" for the  *)
(* storage canister to execute the request, "ok" and "err" carry its       *)
(* answer back.  todo and manager are the loop and the clone of            *)
(* init_upload; last says that its canister is the newly created one.      *)
Call == [caller : Principal, path : Path,
         op : {"init_upload", "store_chunk", "finalize_upload", "cancel_upload"},
         step : {"size", "create", "sent", "ok", "err"},
         canister : Canister \cup {None}, init_timestamp : Time,
         todo : SUBSET Canister, manager : SUBSET Canister, last : BOOLEAN]

GcFile == [path : Path, canister : Canister, init_timestamp : Time]

ASSUME UploadsAssumption ==
  /\ Admin \subseteq Principal
  /\ RouteOf \in [Path -> {RouteOf[p] : p \in Path}]
  /\ None \notin Canister
  /\ None \notin InternalFilestorageData
  /\ None \notin GcFile
  /\ None \notin UploadState
  /\ MaxTime \in Nat
  /\ DayInMs \in Nat

VARIABLES
  user_permissions,     \* user_permissions[p]: the permissions of p
  principal_guards,     \* the principals that hold a GuardManagement
  internal_filestorage, \* internal_filestorage[path]: the upload, or None
  sub_canisters,        \* the storage canisters the manager knows, all installed
  media_redirections,   \* media_redirections[route]: the canister redirected to, or None
  asset_router,         \* what ASSET_ROUTER serves: not kept across upgrades
  calls,                \* the management calls in flight
  gc_files,             \* the files a run of the garbage collector has yet to look at
  gc_request,           \* the file whose cancellation it awaits, or None
  created,              \* the storage canisters that exist
  storage,              \* storage[c][path]: the upload at storage canister c, or None
  collected,            \* history: the finalized files the collector had cancelled
  now                   \* the IC clock

coreVars == <<internal_filestorage, sub_canisters, media_redirections, asset_router>>
gcVars == <<gc_files, gc_request>>
externalVars == <<created, storage, collected>>
vars == <<user_permissions, principal_guards, internal_filestorage, sub_canisters,
          media_redirections, asset_router, calls, gc_files, gc_request, created,
          storage, collected, now>>

Init ==
  /\ user_permissions = [p \in Principal |-> IF p \in Admin THEN Permission ELSE {}]
  /\ principal_guards = {}
  /\ internal_filestorage = [path \in Path |-> None]
  /\ sub_canisters = {}
  /\ media_redirections = [r \in Route |-> None]
  /\ asset_router = [r \in Route |-> None]
  /\ calls = {}
  /\ gc_files = {}
  /\ gc_request = None
  /\ created = {}
  /\ storage = [c \in Canister |-> [path \in Path |-> None]]
  /\ collected = {}
  /\ now = 0

-----------------------------------------------------------------------------
(* The lock and the permissions.                                           *)

(* GuardManagement::new; the guard is dropped when the method returns.     *)
GuardManagementUnheld(caller) ==
  /\ Cardinality(principal_guards) < MAX_CONCURRENT
  /\ caller \in Principal
  /\ UNCHANGED principal_guards
GuardManagement(caller) ==
  /\ Cardinality(principal_guards) < MAX_CONCURRENT
  /\ principal_guards' = principal_guards \cup {caller}

Drop(caller) == principal_guards' = principal_guards \ {caller}

has_permission(caller, permission) == permission \in user_permissions[caller]

(* Granting and revoking do not await: they take and drop the lock within  *)
(* one message, and are refused while an upload call is in flight.         *)
LockIsFree == Cardinality(principal_guards) < MAX_CONCURRENT

GrantPermission(caller, principal, permission) ==
  /\ has_permission(caller, "ManageAuthorities")
  /\ LockIsFree
  /\ user_permissions' = [user_permissions EXCEPT ![principal] = @ \cup {permission}]
  /\ UNCHANGED <<principal_guards, coreVars, calls, gcVars, externalVars, now>>

(* Every copy of a permission granted several times goes. *)
RevokePermissionUnlocked(caller, principal, permission) ==
  /\ has_permission(caller, "ManageAuthorities")
  /\ user_permissions' = [user_permissions EXCEPT ![principal] = @ \ {permission}]
  /\ UNCHANGED <<principal_guards, coreVars, calls, gcVars, externalVars, now>>
RevokePermission(caller, principal, permission) ==
  /\ has_permission(caller, "ManageAuthorities")
  /\ LockIsFree
  /\ user_permissions' = [user_permissions EXCEPT ![principal] = @ \ {permission}]
  /\ UNCHANGED <<principal_guards, coreVars, calls, gcVars, externalVars, now>>

-----------------------------------------------------------------------------
(* Calls in flight.                                                        *)

Advance(call, next) == calls' = (calls \ {call}) \cup {next}

Return(call) ==
  /\ calls' = calls \ {call}
  /\ Drop(call.caller)

Insert(path, state, canister, init_timestamp) ==
  internal_filestorage' = [internal_filestorage EXCEPT ![path] =
    [state |-> state, canister |-> canister, init_timestamp |-> init_timestamp]]

(* The next canister init_upload tries, in any order; it creates one when  *)
(* none is left.                                                           *)
NextTriesAgain(call) ==
  IF call.todo = {}
    THEN {[call EXCEPT !.step = "create", !.canister = None]}
    ELSE {[call EXCEPT !.step = "size", !.canister = c] : c \in call.todo}
NextTries(call) ==
  IF call.todo = {}
    THEN {[call EXCEPT !.step = "create", !.canister = None]}
    ELSE {[call EXCEPT !.step = "size", !.canister = c, !.todo = @ \ {c}] : c \in call.todo}

(* Starts with a clone of the manager. *)
InitUpload(caller, path) ==
  LET call == [caller |-> caller, path |-> path, op |-> "init_upload", step |-> "size",
               canister |-> None, init_timestamp |-> 0, todo |-> sub_canisters,
               manager |-> sub_canisters, last |-> FALSE]
  IN
  /\ has_permission(caller, "UpdateUploads")
  /\ GuardManagement(caller)
  /\ internal_filestorage[path] = None
  /\ \E next \in NextTries(call) : calls' = calls \cup {next}
  /\ UNCHANGED <<user_permissions, coreVars, gcVars, externalVars, now>>

(* store_chunk, finalize_upload and cancel_upload read the upload's entry, *)
(* keep what they read over the await, and send the request on.  An upload *)
(* on a canister the manager does not know is dropped.                     *)
ProceedsToCancel(op, state) ==
  <<op, state>> \in {<<"store_chunk", "Init">>, <<"store_chunk", "InProgress">>,
                    <<"finalize_upload", "InProgress">>, <<"cancel_upload", "Init">>,
                    <<"cancel_upload", "InProgress">>, <<"cancel_upload", "Finalized">>}
Proceeds(op, state) ==
  <<op, state>> \in {<<"store_chunk", "Init">>, <<"store_chunk", "InProgress">>,
                    <<"finalize_upload", "InProgress">>,
                    <<"cancel_upload", "Init">>, <<"cancel_upload", "InProgress">>}

StartOnUpload(op, caller, path) ==
  LET data == internal_filestorage[path] IN
  /\ has_permission(caller, "UpdateUploads")
  /\ data # None
  /\ Proceeds(op, data.state)
  /\ IF data.canister \in sub_canisters
       THEN /\ GuardManagement(caller)
            /\ calls' = calls \cup
                 {[caller |-> caller, path |-> path, op |-> op, step |-> "sent",
                   canister |-> data.canister, init_timestamp |-> data.init_timestamp,
                   todo |-> {}, manager |-> {}, last |-> FALSE]}
            /\ UNCHANGED internal_filestorage
       ELSE /\ LockIsFree
            /\ internal_filestorage' = [internal_filestorage EXCEPT ![path] = None]
            /\ UNCHANGED <<principal_guards, calls>>
  /\ UNCHANGED <<user_permissions, sub_canisters, media_redirections, asset_router,
                 gcVars, externalVars, now>>

StoreChunk(caller, path) == StartOnUpload("store_chunk", caller, path)
FinalizeUpload(caller, path) == StartOnUpload("finalize_upload", caller, path)
CancelUpload(caller, path) == StartOnUpload("cancel_upload", caller, path)

-----------------------------------------------------------------------------
(* The storage canisters.                                                  *)

(* The requests a storage canister accepts: the operation, the state of    *)
(* the upload before and the state after it.                               *)
Accepted ==
  {<<"init_upload", None, "Init">>,
   <<"store_chunk", "Init", "InProgress">>, <<"store_chunk", "InProgress", "InProgress">>,
   <<"finalize_upload", "InProgress", "Finalized">>,
   <<"cancel_upload", "Init", None>>, <<"cancel_upload", "InProgress", None>>,
   <<"cancel_upload", "Finalized", None>>}

(* It executes the request, or answers with an error and changes nothing.  *)
Executes(op, c, path, answer) ==
  \/ /\ answer = "ok"
     /\ \E after \in UploadState \cup {None} :
          /\ <<op, storage[c][path], after>> \in Accepted
          /\ storage' = [storage EXCEPT ![c][path] = after]
  \/ /\ answer = "err"
     /\ UNCHANGED storage

(* Executed, or rejected three times. *)
StorageExecutes(call) ==
  /\ call.step = "sent"
  /\ \E answer \in {"ok", "err"} :
       /\ Executes(call.op, call.canister, call.path, answer)
       /\ Advance(call, [call EXCEPT !.step = answer])
  /\ UNCHANGED <<user_permissions, principal_guards, coreVars, gcVars, created, collected, now>>

(* get_storage_size: the file fits, or the canister is passed over. *)
SizeReply(call) ==
  /\ call.step = "size"
  /\ \E next \in {[call EXCEPT !.step = "sent"]} \cup NextTries(call) : Advance(call, next)
  /\ UNCHANGED <<user_permissions, principal_guards, coreVars, gcVars, externalVars, now>>

(* create_canister: the clone of the manager learns of the new canister.   *)
(* On an error the call returns, and a canister created until then is      *)
(* forgotten.                                                              *)
CreateReply(call) ==
  /\ call.step = "create"
  /\ \/ \E c \in Canister \ created :
          /\ created' = created \cup {c}
          /\ Advance(call, [call EXCEPT !.step = "sent", !.canister = c,
                                        !.manager = @ \cup {c}, !.last = TRUE])
          /\ UNCHANGED principal_guards
     \/ /\ created' \in {created} \cup {created \cup {c} : c \in Canister}
        /\ Return(call)
  /\ UNCHANGED <<user_permissions, coreVars, gcVars, storage, collected, now>>

-----------------------------------------------------------------------------
(* Replies.                                                                *)

WriteBackNothing(call) == call.op = "init_upload" /\ UNCHANGED sub_canisters
WriteBack(call) == sub_canisters' = call.manager

(* The clone of the manager is written back with the upload's entry.  When *)
(* a canister refuses the upload the next one is tried; when the new one   *)
(* does, the call returns and the clone that knows it is dropped.          *)
InitUploadReply(call) ==
  /\ call.op = "init_upload"
  /\ \/ /\ call.step = "ok"
        /\ WriteBack(call)
        /\ Insert(call.path, "Init", call.canister, now)
        /\ Return(call)
     \/ /\ call.step = "err"
        /\ ~call.last
        /\ \E next \in NextTries(call) : Advance(call, next)
        /\ UNCHANGED <<sub_canisters, internal_filestorage, principal_guards>>
     \/ /\ call.step = "err"
        /\ call.last
        /\ Return(call)
        /\ UNCHANGED <<sub_canisters, internal_filestorage>>
  /\ UNCHANGED <<user_permissions, media_redirections, asset_router, gcVars,
                 externalVars, now>>

(* Inserts the entry it read before the await, whatever it is by now. *)
StoreChunkReply(call) ==
  /\ call.op = "store_chunk"
  /\ \/ /\ call.step = "ok"
        /\ Insert(call.path, "InProgress", call.canister, call.init_timestamp)
     \/ /\ call.step = "err"
        /\ UNCHANGED internal_filestorage
  /\ Return(call)
  /\ UNCHANGED <<user_permissions, sub_canisters, media_redirections, asset_router,
                 gcVars, externalVars, now>>

FinalizeUploadReplyRawPath(call) ==
  LET under(routes) == [r \in DOMAIN routes \cup {call.path} |->
                          IF r = call.path THEN call.canister ELSE routes[r]]
  IN
  /\ call.op = "finalize_upload"
  /\ \/ /\ call.step = "ok"
        /\ asset_router' = under(asset_router)
        /\ media_redirections' = under(media_redirections)
        /\ Insert(call.path, "Finalized", call.canister, call.init_timestamp)
     \/ /\ call.step = "err"
        /\ UNCHANGED <<asset_router, media_redirections, internal_filestorage>>
  /\ Return(call)
  /\ UNCHANGED <<user_permissions, sub_canisters, gcVars, externalVars, now>>
FinalizeUploadReply(call) ==
  /\ call.op = "finalize_upload"
  /\ \/ /\ call.step = "ok"
        /\ asset_router' = [asset_router EXCEPT ![RouteOf[call.path]] = call.canister]
        /\ media_redirections' =
             [media_redirections EXCEPT ![RouteOf[call.path]] = call.canister]
        /\ Insert(call.path, "Finalized", call.canister, call.init_timestamp)
     \/ /\ call.step = "err"
        /\ UNCHANGED <<asset_router, media_redirections, internal_filestorage>>
  /\ Return(call)
  /\ UNCHANGED <<user_permissions, sub_canisters, gcVars, externalVars, now>>

(* add_redirection traps when the router cannot be certified: what the     *)
(* callback did is undone, and the guard dropped when it is cleaned up.    *)
FinalizeUploadTraps(call) ==
  /\ call.op = "finalize_upload"
  /\ call.step = "ok"
  /\ Return(call)
  /\ UNCHANGED <<user_permissions, coreVars, gcVars, externalVars, now>>

CancelUploadReply(call) ==
  /\ call.op = "cancel_upload"
  /\ \/ /\ call.step = "ok"
        /\ internal_filestorage' = [internal_filestorage EXCEPT ![call.path] = None]
     \/ /\ call.step = "err"
        /\ UNCHANGED internal_filestorage
  /\ Return(call)
  /\ UNCHANGED <<user_permissions, sub_canisters, media_redirections, asset_router,
                 gcVars, externalVars, now>>

-----------------------------------------------------------------------------
(* The upload garbage collector: no lock, and the entries stay.            *)

(* Once a day: all files, as they are now. *)
GcStart ==
  /\ gc_files = {}
  /\ gc_request = None
  /\ gc_files' =
       {[path |-> path, canister |-> internal_filestorage[path].canister,
         init_timestamp |-> internal_filestorage[path].init_timestamp] :
          path \in {p \in Path : internal_filestorage[p] # None}}
  /\ UNCHANGED <<user_permissions, principal_guards, coreVars, calls, gc_request,
                 externalVars, now>>

GcLooksAt(file) ==
  /\ gc_request = None
  /\ gc_files' = gc_files \ {file}
  /\ gc_request' = IF file.init_timestamp + DayInMs > now THEN file ELSE None
  /\ UNCHANGED <<user_permissions, principal_guards, coreVars, calls, externalVars, now>>

(* The state of the file is not looked at, and the answer is only logged.  *)
GcCancels ==
  LET c == gc_request.canister
      path == gc_request.path
  IN
  /\ gc_request # None
  /\ \E answer \in {"ok", "err"} : Executes("cancel_upload", c, path, answer)
  /\ collected' = IF storage[c][path] = "Finalized" /\ storage'[c][path] # "Finalized"
                    THEN collected \cup {<<c, path>>}
                    ELSE collected
  /\ gc_request' = None
  /\ UNCHANGED <<user_permissions, principal_guards, coreVars, calls, gc_files, created, now>>

-----------------------------------------------------------------------------
(* An upgrade of the stopped canister: no call is in flight.  The state    *)
(* survives, the router is built again from the redirections.              *)
UpgradeKeepingNoRoutes ==
  /\ calls = {}
  /\ gc_files = {}
  /\ gc_request = None
  /\ asset_router' = [r \in Route |-> None]
  /\ UNCHANGED <<user_permissions, principal_guards, internal_filestorage, sub_canisters,
                 media_redirections, calls, gcVars, externalVars, now>>
Upgrade ==
  /\ calls = {}
  /\ gc_files = {}
  /\ gc_request = None
  /\ asset_router' = media_redirections
  /\ UNCHANGED <<user_permissions, principal_guards, internal_filestorage, sub_canisters,
                 media_redirections, calls, gcVars, externalVars, now>>

Tick ==
  /\ now < MaxTime
  /\ now' = now + 1
  /\ UNCHANGED <<user_permissions, principal_guards, coreVars, calls, gcVars, externalVars>>

-----------------------------------------------------------------------------
CallProgress ==
  \E call \in calls :
    \/ StorageExecutes(call)
    \/ SizeReply(call)
    \/ CreateReply(call)
    \/ InitUploadReply(call)
    \/ StoreChunkReply(call)
    \/ FinalizeUploadReply(call)
    \/ FinalizeUploadTraps(call)
    \/ CancelUploadReply(call)

Next ==
  \/ \E caller, principal \in Principal, permission \in Permission :
       \/ GrantPermission(caller, principal, permission)
       \/ RevokePermission(caller, principal, permission)
  \/ \E caller \in Principal, path \in Path :
       \/ InitUpload(caller, path)
       \/ StoreChunk(caller, path)
       \/ FinalizeUpload(caller, path)
       \/ CancelUpload(caller, path)
  \/ CallProgress
  \/ GcStart
  \/ \E file \in gc_files : GcLooksAt(file)
  \/ GcCancels
  \/ Upgrade
  \/ Tick

(* The IC answers every request in the end, and runs the callbacks.        *)
Spec == Init /\ [][Next]_vars /\ WF_vars(CallProgress)

-----------------------------------------------------------------------------
(* Properties.                                                             *)

(* Every variable stays in the set its Rust type allows; redirections are  *)
(* recorded, in the state and in the router, under the normal form of the  *)
(* path.                                                                   *)
TypeOK ==
  /\ user_permissions \in [Principal -> SUBSET Permission]
  /\ principal_guards \subseteq Principal
  /\ internal_filestorage \in [Path -> InternalFilestorageData \cup {None}]
  /\ sub_canisters \subseteq Canister
  /\ media_redirections \in [Route -> Canister \cup {None}]
  /\ asset_router \in [Route -> Canister \cup {None}]
  /\ calls \subseteq Call
  /\ gc_files \subseteq GcFile
  /\ gc_request \in GcFile \cup {None}
  /\ created \subseteq Canister
  /\ storage \in [Canister -> [Path -> UploadState \cup {None}]]
  /\ collected \subseteq Canister \X Path
  /\ now \in Time

(* The lock is held exactly while a call is in flight, by its caller, over *)
(* every await and until every way a method can return; there is at most   *)
(* one such call.                                                          *)
LockMatchesCalls ==
  /\ principal_guards = {call.caller : call \in calls}
  /\ \A c, d \in calls : c = d

(* A permission is not taken from a caller while its call is under way.    *)
CallsStayAuthorised ==
  \A call \in calls : has_permission(call.caller, "UpdateUploads")

(* The manager knows the canister of every upload: writing back the clone  *)
(* init_upload took before its awaits loses none.                          *)
UploadsOnKnownCanisters ==
  \A path \in Path :
    internal_filestorage[path] # None => internal_filestorage[path].canister \in sub_canisters

(* A finalized upload stays as it is: no late reply, cancellation or new   *)
(* upload of the path replaces its entry.                                  *)
FinalizedForGood ==
  [][\A path \in Path :
       LET data == internal_filestorage[path] IN
         data # None /\ data.state = "Finalized" => internal_filestorage'[path] = data]_vars

(* The canister has the file finalized, or only the collector's cancel can *)
(* have taken it away.                                                     *)
FinalizedUnlessCollected(c, path) ==
  storage[c][path] = "Finalized" \/ <<c, path>> \in collected

(* A redirection leads to a canister that finalized a file of that route,  *)
(* and still serves it unless it let the garbage collector cancel it: no   *)
(* reply, early, late or an error, and no management call publishes an     *)
(* address without a file or takes the file behind one away.               *)
RedirectionsServed ==
  \A r \in Route :
    media_redirections[r] # None =>
      \E path \in Path :
        RouteOf[path] = r /\ FinalizedUnlessCollected(media_redirections[r], path)

(* The router serves the redirections the state records, before and after  *)
(* an upgrade.                                                             *)
RouterServesRedirections == asset_router = media_redirections

(* The lock is always given back. *)
LockReleased == principal_guards # {} ~> principal_guards = {}

(* An upload that is listed as not finalized can be carried on or          *)
(* cancelled: its storage canister knows it, unless a call is changing it. *)
UploadsBacked ==
  \A path \in Path :
    LET data == internal_filestorage[path] IN
      data # None /\ data.state # "Finalized" /\ ~(\E call \in calls : call.path = path)
        => storage[data.canister][path] # None
=============================================================================
