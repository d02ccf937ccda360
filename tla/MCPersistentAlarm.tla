------------------------- MODULE MCPersistentAlarm -------------------------
(* PersistentAlarm for TLC: the sequences its constants stand for. *)
EXTENDS PersistentAlarm

LookbackSteps == <<1, 2>>
ForwardSteps == <<2, 4>>
Readings == {<<>>, <<"active">>, <<"normal">>,
             <<"active", "normal">>, <<"normal", "active">>, <<"bad">>}
=============================================================================
