---------------------------- MODULE MessageIdsMC ----------------------------
(* A small instance of MessageIds for TLC.                                 *)
EXTENDS MessageIds

ARequestIds == {<<"r1">>, <<"r2">>}
APaths      == {<<"/ask">>}
APrompts    == {<<"yes">>, <<"no">>}
=============================================================================
