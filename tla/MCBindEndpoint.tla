--------------------------- MODULE MCBindEndpoint --------------------------
(* Bounds for BindEndpoint: three artipc slots hold the accepting artipc *)
(* and two accepted ones.                                                 *)
EXTENDS BindEndpoint

MCSlots == {1, 2, 3}
MCListenOk == {"ok"}

(* Something other than a stale socket file is at the bind path. *)
MCListenUnlinkError == {"ok", "unlink_error"}
=============================================================================
