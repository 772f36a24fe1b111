----------------------------- MODULE MCMainLoop -----------------------------
(* An instance of MainLoop for TLC: a ring of three slots, so that it      *)
(* fills up and its indices wrap around.                                   *)
EXTENDS MainLoop

Down(key) == [key |-> key, released |-> FALSE]
Up(key) == [key |-> key, released |-> TRUE]
SomeBytes == {NOISE, Down("LSHIFT"), Up("LSHIFT"), Down("CAPSLOCK"), Down("a")}
=============================================================================
