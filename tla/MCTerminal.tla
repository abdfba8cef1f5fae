----------------------------- MODULE MCTerminal -----------------------------
(* Bounded instance of Terminal: three issues, a list of two, two streams,  *)
(* a text that holds a key, and every way to cut the input into reads.      *)
EXTENDS Terminal

MCPasted == {<<"q">>}
MCPressed == {"up", "down", "esc", "enter", "tab", "G", "q"}
=============================================================================
