---------------------------- MODULE MCTerminal ------------------------------
(* Instances of Terminal for TLC: nine keys, three rows of text, a prompt  *)
(* in the first or the last row, also one that ends between two tab stops. *)
EXTENDS Terminal

MCKeys == {"a", "\n", "\t", "\\b", "lshift", "caps", "esc", "prtsc", "f11"}
MCBefore == {<<>>, <<"a">>, <<"\n", "\n">>}
=============================================================================
