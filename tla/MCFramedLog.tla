----------------------------- MODULE MCFramedLog -----------------------------
(* A request of two fragments that are also a request each, of which one saves. *)
EXTENDS FramedLog

MCRequest == {<<"a", "b">>, <<"a">>, <<"b">>}
MCSaves == {<<"b">>}
==============================================================================
