------------------------------- MODULE MCFiles ------------------------------
(* Instances of Files for TLC: archives of up to three entries, of no      *)
(* byte, one, a whole block and a byte more, and two names; and pictures   *)
(* in files by themselves.                                                 *)
EXTENDS Files

Octal(n) == <<Filler, n \div 8, n % 8, Filler>>
File(name, n) ==
    [name |-> name, len |-> n, text |-> n, field |-> Octal(n), is_dir |-> FALSE,
     info |-> NoPicture]
Dir(name) == [File(name, 0) EXCEPT !.is_dir = TRUE]
Binary(name, n) == [File(name, n) EXCEPT !.text = 2]  \* A NUL after two bytes.
Entries == {File(name, n) : name \in {"a", "b"}, n \in {0, 1, 8, 9}}
           \cup {Dir("b"), Binary("b", 8)}

\* Pictures that fit the screen and that do not, with and without padding,
\* stored either way, of two bytes of headers; and some that are not drawn.
Info(w, h, bpp) ==
    [signature |-> "BM", compression |-> 0, bpp |-> bpp, width |-> w, height |-> h,
     data_offset |-> 2]
Infos ==
    {Info(w, h, bpp) : w \in 1 .. 3, h \in {-3, -2, 1, 2}, bpp \in {24, 32}}
    \cup {Info(1, 1, 8), [Info(1, 1, 24) EXCEPT !.compression = 1]}
Album == {[Binary("a", 2 + rows(i) * row_stride(i)) EXCEPT !.info = i] : i \in Infos}

MCScreen == [width |-> 3, height |-> 3]
MCCorner == <<1, 1>>
MCArchives == SeqOf(Entries, 3) \cup {<<e>> : e \in Album}
=============================================================================
