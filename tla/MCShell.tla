------------------------------- MODULE MCShell ------------------------------
(* An instance of Shell for TLC: a first line of up to five characters and *)
(* later ones of up to two, two arguments, a history of two lines, rows    *)
(* that a line can fill, and a ring of two lines on a screen that is lower *)
(* and on one that is higher, and on one whose rows are padded.            *)
EXTENDS Shell
MCPrompt == <<"$">>
MCHistory == <<"e">>
MCClear == <<"e", "e">>
MCEcho == <<"e", "e", "e">>
MCTexts == {<<"e", "e", "e", "e">>}
MCHeights == {1, 2, 3}
MCPitch == [h \in MCHeights |-> IF h = 2 THEN 5 ELSE 3]
=============================================================================
