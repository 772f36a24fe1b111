----------------------------- MODULE Scrollback -----------------------------
(***************************************************************************)
(* What the terminal remembers: the last lines of the text written since   *)
(* it was cleared, the last of them being the one written to.              *)
(***************************************************************************)
EXTENDS Naturals, Sequences, SequencesExt

CONSTANTS Chars, Cols, MaxLines
VARIABLE lines

Line == SeqOf(Chars, Cols)

LastOf(n, s) == IF Len(s) > n THEN SubSeq(s, Len(s) - n + 1, Len(s)) ELSE s

Init == lines = <<<<>>>>

\* The last line becomes l; a full one is followed by an empty one.
Write(l) ==
    lines' = LET written == Front(lines) \o <<l>>
             IN  IF Len(l) = Cols THEN LastOf(MaxLines, written \o <<<<>>>>) ELSE written

Put(c) == Write(Append(Last(lines), c))
Newline == lines' = LastOf(MaxLines, lines \o <<<<>>>>)
Backspace == Last(lines) # <<>> /\ Write(Front(Last(lines)))
Clear == lines' = <<<<>>>>

Next == Newline \/ Backspace \/ Clear \/ \E c \in Chars : Put(c)
Spec == Init /\ [][Next]_lines
=============================================================================
