---------------------------- MODULE MCSerialLine ----------------------------
(* A line a filter is for, and an answer.                                   *)
EXTENDS SerialLine

MCTexts == {<<"+", "U">>, <<"O", "K">>}
MCPrefixes == {<<"+", "U">>}
=============================================================================
