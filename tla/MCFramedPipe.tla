---------------------------- MODULE MCFramedPipe ----------------------------
(* Binary bytes and two-byte headers: lengths 1 to 3, so that a header byte   *)
(* may be zero and payload bytes look like headers.                           *)
EXTENDS FramedPipe

MCMessage == {<<0>>, <<1, 0>>, <<0, 1, 1>>}
MCUnreadable == {<<0>>}
=============================================================================
