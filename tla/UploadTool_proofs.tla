-------------------------- MODULE UploadTool_proofs --------------------------
(***************************************************************************)
(* Proofs about UploadTool: a run of the tool makes no step that Uploads   *)
(* does not have, so what is proved of Uploads holds beside it; and what   *)
(* the tool reports is published for good.                                 *)
(***************************************************************************)
EXTENDS UploadTool, Uploads_proofs

(* The tool waits for the call in flight, and what it reported is so.      *)
ToolTypeOK == tool \in Run \cup {None} /\ reported \subseteq Destination

WaitsForCall ==
  tool # None /\ tool.at # "between" =>
    \E call \in calls : call.op = tool.at /\ call.path = tool.path

Published(path) ==
  /\ internal_filestorage[path] # None
  /\ internal_filestorage[path].state = "Finalized"
  /\ media_redirections[RouteOf[path]] # None

ToolInv ==
  /\ UploadsInv
  /\ ToolTypeOK
  /\ WaitsForCall
  /\ \A path \in reported : Published(path)

-----------------------------------------------------------------------------
(* A step of the system is a step of Uploads. *)
LEMMA ToolStepIsUploadsStep ==
  ASSUME ToolTypeOK, [ToolNext]_systemVars
  PROVE  [Next]_vars
<1> USE ToolAssumption
<1>1. ASSUME NEW op, NEW path \in Path, Sends(op, path)
      PROVE  [Next]_vars
  <2>1. CASE Starts(op, path)
    BY <2>1 DEF Starts, Next
  <2>2. CASE AnswersError(op, path)
    BY <2>2 DEF AnswersError
  <2> QED BY <1>1, <2>1, <2>2 DEF Sends
<1>2. CASE \E path \in Destination : UploadFile(path)
  BY <1>1, <1>2 DEF UploadFile
<1>3. CASE Continues
  <2>1. tool.path \in Path
    BY <1>3 DEF Continues, ToolTypeOK, Run
  <2> QED BY <1>1, <1>3, <2>1 DEF Continues
<1>4. CASE Progresses
  BY <1>4 DEF Progresses, Next
<1>5. CASE GivesUp
  BY <1>5 DEF GivesUp
<1>6. CASE Others
  BY <1>6 DEF Others, Next
<1>7. CASE UNCHANGED systemVars
  BY <1>7 DEF systemVars
<1> QED BY <1>2, <1>3, <1>4, <1>5, <1>6, <1>7 DEF ToolNext

(* No step of Uploads takes a redirection away. *)
LEMMA NothingUnpublished ==
  ASSUME UploadsInv, [Next]_vars, NEW r \in Route, media_redirections[r] # None
  PROVE  media_redirections'[r] # None
<1>1. CASE UNCHANGED media_redirections
  BY <1>1
<1>2. ASSUME NEW call \in calls, FinalizeUploadReply(call)
      PROVE  media_redirections'[r] # None
  <2>1. call.canister # None
    BY <1>2, CallType, UploadsAssumption DEF FinalizeUploadReply
  <2>2. CASE media_redirections' =
               [media_redirections EXCEPT ![RouteOf[call.path]] = call.canister]
    BY <2>1, <2>2 DEF UploadsInv, TypeOK
  <2> QED BY <1>1, <1>2, <2>2 DEF FinalizeUploadReply
<1>3. ASSUME NEW call \in calls,
             \/ StorageExecutes(call) \/ SizeReply(call) \/ CreateReply(call)
             \/ InitUploadReply(call) \/ StoreChunkReply(call) \/ CancelUploadReply(call)
             \/ FinalizeUploadTraps(call)
      PROVE  UNCHANGED media_redirections
  BY <1>3 DEF StorageExecutes, SizeReply, CreateReply, InitUploadReply, StoreChunkReply,
     CancelUploadReply, FinalizeUploadTraps, coreVars
<1>4. CASE CallProgress
  BY <1>1, <1>2, <1>3, <1>4 DEF CallProgress
<1>5. ASSUME NEW caller \in Principal, NEW principal \in Principal, NEW permission \in Permission,
             \/ GrantPermission(caller, principal, permission)
             \/ RevokePermission(caller, principal, permission)
      PROVE  UNCHANGED media_redirections
  BY <1>5 DEF GrantPermission, RevokePermission, coreVars
<1>6. ASSUME NEW caller \in Principal, NEW path \in Path,
             \/ InitUpload(caller, path) \/ StoreChunk(caller, path)
             \/ FinalizeUpload(caller, path) \/ CancelUpload(caller, path)
      PROVE  UNCHANGED media_redirections
  BY <1>6 DEF InitUpload, StoreChunk, FinalizeUpload, CancelUpload, StartOnUpload, coreVars
<1>7. CASE \/ GcStart \/ (\E file \in gc_files : GcLooksAt(file)) \/ GcCancels
           \/ Upgrade \/ Tick \/ UNCHANGED vars
  BY <1>1, <1>7 DEF GcStart, GcLooksAt, GcCancels, Upgrade, Tick, coreVars, vars
<1> QED BY <1>1, <1>4, <1>5, <1>6, <1>7 DEF Next

LEMMA StaysPublished ==
  ASSUME ToolInv, [Next]_vars, NEW path \in reported
  PROVE  Published(path)'
<1>1. path \in Path /\ RouteOf[path] \in Route /\ UploadsInv /\ Published(path)
  BY ToolAssumption DEF ToolInv, ToolTypeOK, Route
<1>2. internal_filestorage'[path] = internal_filestorage[path]
  BY <1>1, UploadsInvNext DEF Published
<1> QED BY <1>1, <1>2, NothingUnpublished DEF Published

-----------------------------------------------------------------------------
(* The tool's call. *)

LEMMA OneCall ==
  ASSUME UploadsInv, NEW call \in calls
  PROVE  calls = {call} /\ call \in Call
BY DEF UploadsInv, LockMatchesCalls, TypeOK

(* Nobody starts a call while one is in flight. *)
LEMMA OthersLeaveCall ==
  ASSUME UploadsInv, NEW call \in calls, Others
  PROVE  calls' = calls
<1>1. ~LockIsFree
  BY FreeMeansNoCall DEF UploadsInv
<1>2. ASSUME NEW caller \in Principal, NEW path \in Path,
             \/ InitUpload(caller, path) \/ StoreChunk(caller, path)
             \/ FinalizeUpload(caller, path) \/ CancelUpload(caller, path)
      PROVE  FALSE
  BY <1>1, <1>2 DEF InitUpload, StoreChunk, FinalizeUpload, CancelUpload, StartOnUpload,
     GuardManagement, LockIsFree
<1>3. ASSUME NEW caller \in Principal, NEW principal \in Principal, NEW permission \in Permission,
             \/ GrantPermission(caller, principal, permission)
             \/ RevokePermission(caller, principal, permission)
      PROVE  calls' = calls
  BY <1>3 DEF GrantPermission, RevokePermission
<1>4. CASE GcStart \/ (\E file \in gc_files : GcLooksAt(file)) \/ GcCancels \/ Upgrade \/ Tick
  BY <1>4 DEF GcStart, GcLooksAt, GcCancels, Upgrade, Tick
<1> QED BY <1>2, <1>3, <1>4 DEF Others

(* A call that is not over is still the same call. *)
LEMMA CallStays ==
  ASSUME UploadsInv, NEW call \in calls, CallProgress, calls' # {}
  PROVE  \E next \in calls' : next.op = call.op /\ next.path = call.path
<1>1. calls = {call} /\ call \in Call
  BY OneCall
<1>2. ASSUME NEW next, Advance(call, next), next.op = call.op, next.path = call.path
      PROVE  \E n \in calls' : n.op = call.op /\ n.path = call.path
  BY <1>2 DEF Advance
<1>3. ASSUME Return(call) PROVE FALSE
  BY <1>1, <1>3 DEF Return
<1>4. ASSUME NEW next \in NextTries(call)
      PROVE  next.op = call.op /\ next.path = call.path
  BY <1>1, <1>4 DEF NextTries, Call
<1>5. CASE StorageExecutes(call)
  BY <1>1, <1>2, <1>5 DEF StorageExecutes, Call
<1>6. CASE SizeReply(call)
  <2>1. PICK next \in {[call EXCEPT !.step = "sent"]} \cup NextTries(call) : Advance(call, next)
    BY <1>6 DEF SizeReply
  <2>2. next.op = call.op /\ next.path = call.path
    BY <1>1, <1>4, <2>1 DEF Call
  <2> QED BY <1>2, <2>1, <2>2
<1>7. CASE CreateReply(call)
  <2>1. PICK c \in Canister :
          Advance(call, [call EXCEPT !.step = "sent", !.canister = c,
                                     !.manager = @ \cup {c}, !.last = TRUE])
    BY <1>3, <1>7 DEF CreateReply
  <2> QED BY <1>1, <1>2, <2>1 DEF Call
<1>8. CASE InitUploadReply(call)
  BY <1>2, <1>3, <1>4, <1>8 DEF InitUploadReply
<1>9. CASE \/ StoreChunkReply(call) \/ CancelUploadReply(call)
           \/ FinalizeUploadReply(call) \/ FinalizeUploadTraps(call)
  BY <1>3, <1>9 DEF StoreChunkReply, FinalizeUploadReply, FinalizeUploadTraps, CancelUploadReply
<1> QED BY <1>1, <1>5, <1>6, <1>7, <1>8, <1>9 DEF CallProgress

(* An Ok that ends a finalize_upload has published the file. *)
LEMMA OkPublishes ==
  ASSUME UploadsInv, NEW call \in calls, CallProgress, calls' = {},
         call.step = "ok", call.op = "finalize_upload", ~FinalizeUploadTraps(call)
  PROVE  Published(call.path)'
<1>1. calls = {call} /\ call \in Call /\ TypeOK
  BY OneCall DEF UploadsInv
<1>2. FinalizeUploadReply(call)
  BY <1>1 DEF CallProgress, StorageExecutes, SizeReply, CreateReply, InitUploadReply,
     StoreChunkReply, CancelUploadReply
<1>3. /\ call.path \in Path /\ RouteOf[call.path] \in Route
      /\ call.canister \in Canister /\ call.init_timestamp \in Time
  BY <1>1, CallType DEF UploadsInv, CallsConsistent, TypeOK, Call, Route
<1>5. /\ media_redirections'[RouteOf[call.path]] = call.canister
      /\ internal_filestorage'[call.path] =
           [state |-> "Finalized", canister |-> call.canister,
            init_timestamp |-> call.init_timestamp]
  BY <1>1, <1>2, <1>3 DEF FinalizeUploadReply, Insert, TypeOK
<1>6. /\ call.canister # None
      /\ internal_filestorage'[call.path] \in InternalFilestorageData
  BY <1>3, <1>5, UploadsAssumption DEF InternalFilestorageData, UploadState
<1> QED BY <1>5, <1>6, UploadsAssumption DEF Published

-----------------------------------------------------------------------------
(* The invariant. *)

LEMMA GoesOnTyped ==
  ASSUME reported \subseteq Destination, NEW path \in Destination, GoesOn(path)
  PROVE  ToolTypeOK' /\ WaitsForCall' /\ UNCHANGED reported
BY DEF GoesOn, ToolTypeOK, Run, WaitsForCall

LEMMA StopsTyped ==
  ASSUME reported \subseteq Destination, Stops
  PROVE  ToolTypeOK' /\ WaitsForCall' /\ UNCHANGED reported
BY DEF Stops, ToolTypeOK, WaitsForCall

(* A call the tool sends is the one in flight, or it goes on at once. *)
LEMMA SendsStep ==
  ASSUME ToolTypeOK, NEW path \in Destination,
         NEW op \in {"init_upload", "store_chunk", "finalize_upload"}, Sends(op, path)
  PROVE  ToolTypeOK' /\ WaitsForCall' /\ UNCHANGED reported
<1>0. reported \subseteq Destination
  BY DEF ToolTypeOK
<1>1. CASE GetsError(op, path)
  BY <1>0, <1>1, GoesOnTyped, StopsTyped DEF GetsError
<1>2. CASE /\ Starts(op, path)
           /\ calls' # calls
           /\ tool' = [at |-> op, path |-> path]
           /\ UNCHANGED reported
  <2>1. \E call \in calls' : call.op = op /\ call.path = path
    <3>1. CASE op = "init_upload"
      <4>1. PICK next \in NextTries([caller |-> ToolCaller, path |-> path, op |-> "init_upload",
                     step |-> "size", canister |-> None, init_timestamp |-> 0,
                     todo |-> sub_canisters, manager |-> sub_canisters, last |-> FALSE]) :
              calls' = calls \cup {next}
        BY <1>2, <3>1 DEF Starts, InitUpload
      <4>2. next.op = "init_upload" /\ next.path = path
        BY <4>1 DEF NextTries
      <4> QED BY <3>1, <4>1, <4>2
    <3>2. CASE op # "init_upload"
      <4>1. StartOnUpload(op, ToolCaller, path)
        BY <1>2, <3>2 DEF Starts, StoreChunk, FinalizeUpload
      <4> QED BY <1>2, <4>1 DEF StartOnUpload
    <3> QED BY <3>1, <3>2
  <2> QED BY <1>0, <1>2, <2>1 DEF ToolTypeOK, Run, WaitsForCall
<1> QED BY <1>1, <1>2 DEF Sends

LEMMA ProgressesStep ==
  ASSUME ToolInv, Progresses
  PROVE  /\ ToolTypeOK' /\ WaitsForCall'
         /\ \A path \in reported' : path \in reported \/ Published(path)'
<1>0. UploadsInv /\ ToolTypeOK /\ reported \subseteq Destination
  BY DEF ToolInv, ToolTypeOK
<1>1. CASE tool # None /\ tool.at # "between" /\ calls' = {}
  <2>1. PICK path \in Destination : path = tool.path
    BY <1>0, <1>1 DEF ToolTypeOK, Run
  <2>2. PICK call \in calls : call.op = tool.at /\ call.path = path
    BY <1>1, <2>1 DEF ToolInv, WaitsForCall
  <2>3. calls = {call}
    BY <1>0, OneCall
  <2>4. CASE /\ call.step = "ok" /\ ~FinalizeUploadTraps(call)
             /\ tool.at = "finalize_upload"
             /\ tool' = None /\ reported' = reported \cup {path}
    <3>1. Published(call.path)'
      BY <1>0, <1>1, <2>2, <2>4, OkPublishes DEF Progresses
    <3>2. Published(path)'
      BY <2>2, <3>1
    <3> QED BY <1>0, <2>4, <3>2 DEF ToolTypeOK, WaitsForCall
  <2>5. CASE GoesOn(path) \/ Stops
    BY <1>0, <2>5, GoesOnTyped, StopsTyped
  <2> QED BY <1>1, <2>1, <2>3, <2>4, <2>5 DEF Progresses, GetsOk, GetsError
<1>2. CASE ~(tool # None /\ tool.at # "between" /\ calls' = {})
  <2>1. UNCHANGED toolVars /\ CallProgress
    BY <1>2 DEF Progresses
  <2>2. WaitsForCall'
    <3> SUFFICES ASSUME tool # None, tool.at # "between"
                 PROVE  \E call \in calls' : call.op = tool.at /\ call.path = tool.path
      BY <2>1 DEF WaitsForCall, toolVars
    <3>1. PICK call \in calls : call.op = tool.at /\ call.path = tool.path
      BY DEF ToolInv, WaitsForCall
    <3> QED BY <1>0, <1>2, <2>1, <3>1, CallStays
  <2> QED BY <1>0, <2>1, <2>2 DEF ToolTypeOK, toolVars
<1> QED BY <1>1, <1>2

LEMMA ToolInvNext ==
  ASSUME ToolInv, [ToolNext]_systemVars
  PROVE  ToolInv'
<1>0. UploadsInv /\ ToolTypeOK /\ reported \subseteq Destination
  BY DEF ToolInv, ToolTypeOK
<1>1. [Next]_vars
  BY <1>0, ToolStepIsUploadsStep
<1>2. UploadsInv'
  BY <1>0, <1>1, UploadsInvNext
<1>3. /\ ToolTypeOK' /\ WaitsForCall'
      /\ \A path \in reported' : path \in reported \/ Published(path)'
  <2>1. CASE \E path \in Destination : UploadFile(path)
    BY <1>0, <2>1, SendsStep DEF UploadFile
  <2>2. CASE Continues
    <3>1. tool.path \in Destination
      BY <1>0, <2>2 DEF Continues, ToolTypeOK, Run
    <3> QED BY <1>0, <2>2, <3>1, SendsStep DEF Continues
  <2>3. CASE Progresses
    BY <2>3, ProgressesStep
  <2>4. CASE GivesUp
    BY <1>0, <2>4, StopsTyped DEF GivesUp
  <2>5. CASE Others /\ UNCHANGED toolVars
    <3>1. WaitsForCall'
      <4> SUFFICES ASSUME tool # None, tool.at # "between"
                   PROVE  \E call \in calls' : call.op = tool.at /\ call.path = tool.path
        BY <2>5 DEF WaitsForCall, toolVars
      <4>1. PICK call \in calls : call.op = tool.at /\ call.path = tool.path
        BY DEF ToolInv, WaitsForCall
      <4> QED BY <1>0, <2>5, <4>1, OthersLeaveCall
    <3> QED BY <1>0, <2>5, <3>1 DEF ToolTypeOK, toolVars
  <2>6. CASE UNCHANGED systemVars
    BY <1>0, <2>6 DEF systemVars, vars, ToolTypeOK, WaitsForCall, ToolInv
  <2> QED BY <2>1, <2>2, <2>3, <2>4, <2>5, <2>6 DEF ToolNext
<1>4. \A path \in reported' : Published(path)'
  BY <1>1, <1>3, StaysPublished
<1> QED BY <1>2, <1>3, <1>4 DEF ToolInv

LEMMA PublishedIsServed == ToolInv => ReportedIsPublished
<1> SUFFICES ASSUME ToolInv, NEW path \in reported
             PROVE  /\ internal_filestorage[path] # None
                    /\ internal_filestorage[path].state = "Finalized"
                    /\ FinalizedUnlessCollected(internal_filestorage[path].canister, path)
                    /\ asset_router[RouteOf[path]] # None
                    /\ \E p \in Path : /\ RouteOf[p] = RouteOf[path]
                                       /\ FinalizedUnlessCollected(
                                            asset_router[RouteOf[path]], p)
  BY DEF ReportedIsPublished
<1>1. path \in Path /\ RouteOf[path] \in Route /\ Published(path)
  BY ToolAssumption DEF ToolInv, ToolTypeOK, Route
<1>2. asset_router = media_redirections /\ RedirectionsServed
  BY PublishedServed DEF ToolInv, UploadsInv, RouterServesRedirections
<1>3. internal_filestorage[path].canister \in Canister
  BY <1>1 DEF ToolInv, UploadsInv, TypeOK, InternalFilestorageData, Published
<1>4. FinalizedUnlessCollected(internal_filestorage[path].canister, path)
  BY <1>1, <1>3 DEF ToolInv, UploadsInv, ListedStored, FinalizedAt, Published
<1> QED BY <1>1, <1>2, <1>4 DEF Published, RedirectionsServed

(* What the command line tool reports as uploaded is published, and stays  *)
(* so, whatever other callers and upgrades do; only the collector's cancel *)
(* can take the file from a storage canister that lets it.                 *)
THEOREM ToolReportsWhatIsPublished == ToolSpec => []ReportedIsPublished
<1>1. ToolInit => ToolInv
  BY UploadsInvInit DEF ToolInit, ToolInv, ToolTypeOK, WaitsForCall
<1>2. ToolInv /\ [ToolNext]_systemVars => ToolInv'
  BY ToolInvNext
<1> QED BY <1>1, <1>2, PublishedIsServed, PTL DEF ToolSpec

(* Beside the tool the management side behaves as Uploads says: what is    *)
(* proved there holds here.                                                *)
THEOREM ToolImplementsUploads == ToolSpec => Init /\ [][Next]_vars
<1>1. ToolInit => ToolInv /\ Init
  BY UploadsInvInit DEF ToolInit, ToolInv, ToolTypeOK, WaitsForCall
<1>2. ToolInv /\ [ToolNext]_systemVars => ToolInv' /\ [Next]_vars
  BY ToolInvNext, ToolStepIsUploadsStep DEF ToolInv
<1> QED BY <1>1, <1>2, PTL DEF ToolSpec
=============================================================================
