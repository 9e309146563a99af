------------------------- MODULE MCConnectEndpoint -------------------------
EXTENDS ConnectEndpoint

(* The nanomsg defaults (a zero maximum) and a doubling range. *)
MCIvlOptions == {[ivl |-> 1, max |-> 0], [ivl |-> 1, max |-> 4]}

(* A maximum set below the initial interval. *)
MCIvlOptionsLowMax == {[ivl |-> 2, max |-> 1]}
=============================================================================
