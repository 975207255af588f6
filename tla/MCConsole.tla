----------------------------- MODULE MCConsole ------------------------------
(* Instances of Console for TLC: four columns, two rows of text. *)
EXTENDS Console

MCTitle == <<"T">>
MCRule  == <<"-", "-", "-", "-">>
MCTimes == {<<"0", "0">>, <<"0", "1">>}
MCPutsAtArgs == {<< <<"c">>, 2>>}
MCPutsArgs == {<<"a", "\n", "a">>}
MCPutcArgs == {"a", "\n", "\t", "\\b"}
=============================================================================
