----------------------------- MODULE MCFraming -----------------------------
(* Instantiation of Framing for TLC: two-valued bytes and a two-byte      *)
(* length field stand for 256-valued bytes and the 8-byte field.          *)
EXTENDS Framing

(* Messages of payload size 0, 1 and 2, one with a header chunk: the     *)
(* empty frame, a one-byte body and a split payload.                     *)
MCMessages ==
    {[hdr |-> <<>>, body |-> <<>>],
     [hdr |-> <<>>, body |-> <<1>>],
     [hdr |-> <<1>>, body |-> <<0>>]}
=============================================================================
