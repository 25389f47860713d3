---------------------------- MODULE MCUploadTool ----------------------------
(* A small instance of UploadTool. *)
EXTENDS UploadTool

CONSTANTS admin, c1, c2

(* Two spellings of one route. *)
MCPath == {"a.png", "/a.png"}
MCRouteOf == [p \in MCPath |-> "/a.png"]
=============================================================================
