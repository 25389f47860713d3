------------------------------ MODULE MCUploads ------------------------------
(* Small instances of Uploads. *)
EXTENDS Uploads

CONSTANTS admin, user, c1, c2

(* Two spellings of one route. *)
MCPath == {"a.png", "/a.png"}
MCRouteOf == [p \in MCPath |-> "/a.png"]
=============================================================================
