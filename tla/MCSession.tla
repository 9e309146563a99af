----------------------------- MODULE MCSession -----------------------------
(* Instantiation of Session for TLC. *)
EXTENDS Session

(* Every header a peer can send: good, wrong signature, not a peer. *)
MCPeerHdrs == {"valid", "badsig", "notpeer"}

(* A well-behaved peer frames every message as MSG_NORMAL. *)
MCFrameTypes == {1}

(* A misbehaving peer also sends MSG_SHMEM (type byte 2). *)
MCFrameTypesShmem == {1, 2}

=============================================================================
