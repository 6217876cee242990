----------------------------- MODULE FilesStore -----------------------------
(***************************************************************************)
(* Files implements ObjectStore: the chunk rows are the parts, and a file  *)
(* is offered while its status is AVAILABLE, with the content its hash was *)
(* computed from.  It does as long as nothing is deleted and requests in   *)
(* flight for one chunk carry the same bytes.                              *)
(***************************************************************************)
EXTENDS Files

Store == INSTANCE ObjectStore WITH
    Objects <- FileIds,
    parts   <- [f \in FileIds |-> Content(f)],
    offered <- [f \in FileIds |->
                  IF files[f].status = "available" THEN files[f].hash ELSE Null]

(* Every behaviour of the handlers, with their stale rows and their        *)
(* failures, is one of the object store: a file becomes available only     *)
(* with all its chunks, and with nothing but the bytes stored for them.    *)
StoreSpec == Store!Spec

=============================================================================
