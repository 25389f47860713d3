----------------------------- MODULE UploadTool -----------------------------
(***************************************************************************)
(* The command line tool as a client of Uploads: upload_file calls         *)
(* init_upload, store_chunk for one chunk after the other, and             *)
(* finalize_upload, and prints the URL of the file.                        *)
(*                                                                         *)
(* An answer is Ok or an error of the method; or the call fails, since the *)
(* canister rejects it or no answer comes in time.  The tool stops at a    *)
(* failed call.  It does not read the answers of init_upload and           *)
(* store_chunk: an error in them goes unnoticed, and the next call is made *)
(* all the same.                                                           *)
(*                                                                         *)
(* The tool can be stopped at any time, and run again; other principals,   *)
(* and other runs of the tool, make their calls as in Uploads, and a call  *)
(* nobody waits for any more, or one that arrives late, is one of those.   *)
(*                                                                         *)
(* Abstracted: the file and the number of its chunks.                      *)
(***************************************************************************)
EXTENDS Uploads

CONSTANTS
  ToolCaller,   \* the identity the tool signs its calls with
  Destination   \* the paths it is run for; other runs, for any path, are among the others

ASSUME ToolAssumption == ToolCaller \in Principal /\ Destination \subseteq Path

VARIABLES
  tool,       \* the run of the tool: the call it waits for, or "between" two calls
  reported    \* the paths whose URL a run has printed

toolVars == <<tool, reported>>
systemVars == <<vars, tool, reported>>

Run == [at : {"init_upload", "store_chunk", "finalize_upload", "between"}, path : Destination]

-----------------------------------------------------------------------------
(* The canister's side of a call.                                          *)

Starts(op, path) ==
  \/ op = "init_upload" /\ InitUpload(ToolCaller, path)
  \/ op = "store_chunk" /\ StoreChunk(ToolCaller, path)
  \/ op = "finalize_upload" /\ FinalizeUpload(ToolCaller, path)

(* It answers with an error at once, and changes nothing: another call is  *)
(* in flight, or the upload is not in the state for it.                    *)
AnswersError(op, path) ==
  LET data == internal_filestorage[path] IN
  /\ has_permission(ToolCaller, "UpdateUploads")
  /\ \/ ~LockIsFree
     \/ op = "init_upload" /\ data # None
     \/ op # "init_upload" /\ data = None
     \/ op # "init_upload" /\ data # None /\ ~Proceeds(op, data.state)
  /\ UNCHANGED vars

-----------------------------------------------------------------------------
(* upload_file.                                                            *)

(* With an error, or with the URL. *)
Stops == tool' = None /\ UNCHANGED reported

GoesOn(path) == tool' = [at |-> "between", path |-> path] /\ UNCHANGED reported

GetsOk(op, path) ==
  IF op = "finalize_upload"
    THEN tool' = None /\ reported' = reported \cup {path}
    ELSE GoesOn(path)

GetsErrorUnnoticed(op, path) == GetsOk(op, path)
GetsError(op, path) == IF op = "finalize_upload" THEN Stops ELSE GoesOn(path)

Sends(op, path) ==
  \/ /\ Starts(op, path)
     /\ IF calls' # calls
          THEN tool' = [at |-> op, path |-> path] /\ UNCHANGED reported
          ELSE GetsError(op, path)
  \/ /\ AnswersError(op, path)
     /\ GetsError(op, path)

UploadFile(path) == tool = None /\ Sends("init_upload", path)

(* The next chunk, or no chunk is left. *)
Continues ==
  /\ tool # None
  /\ tool.at = "between"
  /\ \E op \in {"store_chunk", "finalize_upload"} : Sends(op, tool.path)

(* The call the tool waits for is the one in flight, see LockMatchesCalls. *)
Progresses ==
  /\ CallProgress
  /\ IF tool # None /\ tool.at # "between" /\ calls' = {}
       THEN IF \E call \in calls : call.step = "ok" /\ ~FinalizeUploadTraps(call)
              THEN GetsOk(tool.at, tool.path)
              ELSE GetsError(tool.at, tool.path)
       ELSE UNCHANGED toolVars

(* A rejected call, a lost answer, or whoever runs the tool ends it. *)
GivesUp ==
  /\ tool # None
  /\ Stops
  /\ UNCHANGED vars

ToolInit == Init /\ tool = None /\ reported = {}

Others ==
  \/ \E caller, principal \in Principal, permission \in Permission :
       \/ GrantPermission(caller, principal, permission)
       \/ RevokePermission(caller, principal, permission)
  \/ \E caller \in Principal, path \in Path :
       \/ InitUpload(caller, path)
       \/ StoreChunk(caller, path)
       \/ FinalizeUpload(caller, path)
       \/ CancelUpload(caller, path)
  \/ GcStart
  \/ \E file \in gc_files : GcLooksAt(file)
  \/ GcCancels
  \/ Upgrade
  \/ Tick

ToolNext ==
  \/ \E path \in Destination : UploadFile(path)
  \/ Continues
  \/ Progresses
  \/ GivesUp
  \/ Others /\ UNCHANGED toolVars

ToolSpec == ToolInit /\ [][ToolNext]_systemVars

-----------------------------------------------------------------------------
(* Properties.                                                             *)

(* What the tool reports is so, for good: the file whose URL it printed is *)
(* finalized, at the core canister and at its storage canister, and the    *)
(* URL redirects to a file of that route; only the garbage collector can   *)
(* have had the files cancelled, if the storage canister lets it.  That    *)
(* holds although the tool ignores most errors, whoever else uploads to    *)
(* the path and cancels uploads, and after upgrades.                       *)
ReportedIsPublished ==
  \A path \in reported :
    LET data == internal_filestorage[path]
        server == asset_router[RouteOf[path]]
    IN
    /\ data # None /\ data.state = "Finalized"
    /\ FinalizedUnlessCollected(data.canister, path)
    /\ server # None
    /\ \E p \in Path : RouteOf[p] = RouteOf[path] /\ FinalizedUnlessCollected(server, p)
=============================================================================
