------------------------------- MODULE MCEcho -------------------------------
(* Small terminals and lines for EchoLine. *)
EXTENDS EchoLine
SomeWords == {<<"a">>, <<" ">>, <<"^", "C">>}
OneWord == {<<"a">>}
Clock == <<"r">>
None == <<>>
=============================================================================
