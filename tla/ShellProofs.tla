-------------------------------- MODULE ShellProofs ----------------------------------
(***************************************************************************)
(* For every screen, ring, prompt and length of the buffers: the screen    *)
(* shows the text at the end of the ring (and, where its rows are not      *)
(* padded, nothing else), the ring holds the last lines written (it        *)
(* implements Scrollback), the history the last lines entered, and what    *)
(* the user reads after the prompt is what Enter will run.                 *)
(*                                                                         *)
(* The screen is kept by drawing single cells, the ring by moving indices; *)
(* they agree because each line is text and then NULs up to the cursor     *)
(* (Lines) and the screen is full before it is scrolled back (Cursor).     *)
(* The line shown is that of the buffer because every output ends with a   *)
(* newline or a cleared screen and then the prompt (Prompted), so that the *)
(* prompt starts a row; Echoing relates what is left to print, the row and *)
(* the buffer while the prompt is printed and the keys are echoed.         *)
(*                                                                         *)
(* The parser and the commands are recursive functions.  That they have    *)
(* values of their types is shown by induction on finite ranges, from the  *)
(* least element at which it would fail.  So is what the parser has found  *)
(* after each character (Marked): the words are numbered by how many begin *)
(* before them, and the blanks up to the last argument are marked.         *)
(***************************************************************************)
EXTENDS Shell, SequenceTheorems, FiniteSetTheorems, WellFoundedInduction, TLAPS

(* A cell of the ring, the slots of the ring and the rows of the screen. *)
Cell == Chars \cup {NUL}
Slots == 0 .. SCROLLBACK_LINES - 1
Rows == [Columns -> Chars \cup {Remains}]

(* The types of what the terminal keeps. *)
TermTypeOK ==
    /\ max_rows \in Nat \ {0} /\ max_rows \in ScreenHeights
    /\ line_buffer \in [Slots -> [Columns -> Cell]]
    /\ buffer_start \in Slots /\ buffer_count \in 1 .. SCROLLBACK_LINES
    /\ scroll_offset \in Nat
    /\ terminal_row \in Nat /\ terminal_col \in Columns
    /\ screen \in [ScreenRows -> Rows]

(* A line holds n characters and then NULs. *)
Holds(line, n) == \A c \in Columns : line[c] = NUL <=> c >= n

(* Every line of the ring is text and then NULs; the cursor is behind the *)
(* text of the last one.                                                  *)
Lines ==
    /\ \A i \in 0 .. buffer_count - 1 : \E n \in 0 .. max_cols : Holds(get_line(i), n)
    /\ Holds(get_line(buffer_count - 1), terminal_col)

(* The screen is full before the view can be scrolled back. *)
Cursor == terminal_row >= buffer_count - 1 \/ terminal_row >= max_rows - 1

(* The inductive invariant of the terminal. *)
TermInv == TermTypeOK /\ Lines /\ Cursor /\ ScreenShowsTail

-----------------------------------------------------------------------------
(* Numbers, recursion and sequences *)

(* Min is the least element of a set of numbers. *)
LEMMA Least ==
    ASSUME NEW S \in SUBSET Nat, S # {}
    PROVE  Min(S) \in S /\ \A y \in S : Min(S) <= y
<1> DEFINE R == {ss \in Nat \X Nat : ss[1] < ss[2]}
<1>1. IsWellFoundedOn(R, Nat)
  BY NatLessThanWellFounded DEF OpToRel
<1>2. \A x, y \in S : <<y, x>> \in R <=> y < x
  OBVIOUS
<1> HIDE DEF R
<1>3. PICK x \in S : \A y \in S : ~(<<y, x>> \in R)
  BY <1>1, WFMin
<1>4. ASSUME NEW y \in S PROVE x <= y
  <2>1. ~(y < x)
    BY <1>2, <1>3
  <2>2. x \in Nat /\ y \in Nat
    OBVIOUS
  <2> QED
    BY <2>1, <2>2
<1> QED
  BY <1>4 DEF Min

(* Induction up to n. *)
LEMMA Upward ==
    ASSUME NEW n \in Nat, NEW P, 0 \in P, \A k \in 1 .. n : k - 1 \in P => k \in P
    PROVE  \A k \in 0 .. n : k \in P
<1> DEFINE Bad == {k \in 0 .. n : k \notin P}
<1> SUFFICES ASSUME Bad # {} PROVE FALSE
  OBVIOUS
<1>1. Bad \in SUBSET Nat /\ \A k \in Bad : k \in 0 .. n /\ k \notin P
  OBVIOUS
<1>2. \A k \in 0 .. n : k \notin P => k \in Bad
  OBVIOUS
<1> HIDE DEF Bad
<1>3. PICK k \in Bad : \A j \in Bad : k <= j
  BY <1>1, Least
<1>4. k \in 1 .. n /\ k \notin P
  BY <1>1
<1>5. k - 1 \in 0 .. n /\ ~(k <= k - 1)
  BY <1>4
<1> QED
  BY <1>2, <1>3, <1>4, <1>5

(* A function defined from each value to the next, by a table. *)
Follows(g, n, A, base, table) ==
    /\ g \in [0 .. n -> A] /\ g[0] = base
    /\ \A k \in 1 .. n : g[k] = table[<<g[k - 1], k>>]

(* Such a function exists: by induction on how far it is defined. *)
LEMMA Recursion ==
    ASSUME NEW n \in Nat, NEW A, NEW base \in A, NEW F \in [A \X (1 .. n) -> A]
    PROVE  \E g : Follows(g, n, A, base, F)
<1> DEFINE Solves(g, m) ==
              /\ g \in [0 .. m -> A] /\ g[0] = base
              /\ \A k \in 1 .. m : g[k] = F[<<g[k - 1], k>>]
           P == {m \in 0 .. n : \E g : Solves(g, m)}
<1>1. 0 \in P
  <2>1. Solves([k \in 0 .. 0 |-> base], 0)
    OBVIOUS
  <2>2. \E g : Solves(g, 0)
    BY <2>1
  <2> HIDE DEF Solves
  <2> QED
    BY <2>2
<1>2. ASSUME NEW m \in 1 .. n, m - 1 \in P PROVE m \in P
  <2>1. PICK g : Solves(g, m - 1)
    BY <1>2
  <2> DEFINE h == [k \in 0 .. m |-> IF k = m THEN F[<<g[m - 1], m>>] ELSE g[k]]
  <2>2. m - 1 \in 0 .. m - 1 /\ m # 0 /\ 0 \in 0 .. m /\ 0 \in 0 .. m - 1
    OBVIOUS
  <2>3. F[<<g[m - 1], m>>] \in A
    BY <2>1, <2>2
  <2>4. \A k \in 0 .. m : k # m => k \in 0 .. m - 1
    OBVIOUS
  <2>5. h \in [0 .. m -> A] /\ h[0] = base /\ h[m] = F[<<g[m - 1], m>>]
        /\ \A k \in 0 .. m - 1 : h[k] = g[k]
    BY <2>1, <2>2, <2>3, <2>4
  <2> HIDE DEF h
  <2>6. ASSUME NEW k \in 1 .. m PROVE h[k] = F[<<h[k - 1], k>>]
    <3>1. k - 1 \in 0 .. m - 1 /\ h[k - 1] = g[k - 1]
      BY <2>5
    <3>2. CASE k = m
      BY <2>5, <3>1, <3>2
    <3>3. CASE k # m
      <4>1. k \in 1 .. m - 1 /\ k \in 0 .. m - 1
        BY <3>3
      <4> QED
        BY <2>1, <2>5, <3>1, <4>1
    <3> QED
      BY <3>2, <3>3
  <2>7. Solves(h, m)
    BY <2>5, <2>6
  <2> HIDE DEF Solves
  <2>8. m \in 0 .. n /\ \E e : Solves(e, m)
    BY <2>7
  <2> QED
    BY <2>8
<1> HIDE DEF P
<1>3. n \in P
  BY <1>1, <1>2, Upward
<1> QED
  BY <1>3 DEF P, Follows

(* A function on 1 .. n is a sequence. *)
LEMMA FunctionIsSeq ==
    ASSUME NEW S, NEW n \in Nat, NEW g \in [1 .. n -> S]
    PROVE  g \in Seq(S) /\ Len(g) = n
  BY SeqDef

(* The last of some lines is replaced. *)
LEMMA LastReplaced ==
    ASSUME NEW S, NEW s \in Seq(S), Len(s) > 0, NEW e \in S
    PROVE  Front(s) \o <<e>> = [s EXCEPT ![Len(s)] = e]
<1>0. Len(s) \in Nat
  BY LenProperties
<1>1. /\ Front(s) \in Seq(S) /\ Len(Front(s)) = Len(s) - 1
      /\ \A i \in 1 .. Len(s) - 1 : Front(s)[i] = s[i]
  <2>1. \A i \in 1 .. Len(s) - 1 : s[i] \in S
    BY <1>0, ElementOfSeq
  <2> HIDE <1>0
  <2>2. /\ SubSeq(s, 1, Len(s) - 1) \in Seq(S)
        /\ Len(SubSeq(s, 1, Len(s) - 1)) = IF 1 <= Len(s) - 1 THEN (Len(s) - 1) - 1 + 1 ELSE 0
        /\ \A i \in 1 .. (Len(s) - 1) - 1 + 1 : SubSeq(s, 1, Len(s) - 1)[i] = s[1 + i - 1]
    BY <1>0, <2>1, SubSeqProperties
  <2>3. PICK n \in Nat : n = Len(s)
    BY <1>0
  <2>4. /\ n > 0 /\ (n - 1) - 1 + 1 = n - 1
        /\ (IF 1 <= n - 1 THEN (n - 1) - 1 + 1 ELSE 0) = n - 1
        /\ \A i \in 1 .. n - 1 : 1 + i - 1 = i
    BY <2>3
  <2> QED
    BY <2>2, <2>3, <2>4 DEF Front
<1>2. <<e>> \in Seq(S) /\ Len(<<e>>) = 1 /\ <<e>>[1] = e
  OBVIOUS
<1>3. /\ Front(s) \o <<e>> \in Seq(S) /\ Len(Front(s) \o <<e>>) = Len(s)
      /\ \A i \in 1 .. Len(s) : (Front(s) \o <<e>>)[i] = IF i <= Len(s) - 1 THEN s[i] ELSE e
  <2>1. /\ Front(s) \o <<e>> \in Seq(S)
        /\ Len(Front(s) \o <<e>>) = Len(Front(s)) + Len(<<e>>)
        /\ \A i \in 1 .. Len(Front(s)) + Len(<<e>>) : (Front(s) \o <<e>>)[i] =
                     IF i <= Len(Front(s)) THEN Front(s)[i] ELSE <<e>>[i - Len(Front(s))]
    BY <1>1, <1>2, ConcatProperties
  <2> QED
    BY <1>0, <1>1, <1>2, <2>1
<1>4. Len(s) \in 1 .. Len(s)
  BY <1>0
<1>5. /\ [s EXCEPT ![Len(s)] = e] \in Seq(S) /\ Len([s EXCEPT ![Len(s)] = e]) = Len(s)
      /\ \A i \in 1 .. Len(s) : [s EXCEPT ![Len(s)] = e][i] = IF i = Len(s) THEN e ELSE s[i]
  BY <1>4, ExceptSeq
<1>6. \A i \in 1 .. Len(s) : (i <= Len(s) - 1) <=> i # Len(s)
  BY <1>0
<1>7. \A i \in 1 .. Len(s) : (Front(s) \o <<e>>)[i] = [s EXCEPT ![Len(s)] = e][i]
  BY <1>3, <1>5, <1>6
<1> QED
  BY <1>3, <1>5, <1>7, SeqEqual

(* The last m of some lines and another one. *)
LEMMA LastOfMore ==
    ASSUME NEW S, NEW s \in Seq(S), NEW w \in Seq(S), Len(w) = 1, NEW m \in Nat \ {0}, Len(s) <= m
    PROVE  \A u : u = Abs!LastOf(m, s \o w) =>
           /\ u \in Seq(S) /\ Len(u) = IF Len(s) < m THEN Len(s) + 1 ELSE m
           /\ \A i \in 1 .. Len(u) : u[i] = IF i = Len(u) THEN w[1] ELSE s[i + (Len(s) + 1 - Len(u))]
<1>0. Len(s) \in Nat
  BY LenProperties
<1>1. PICK t : t = s \o w
  OBVIOUS
<1>2. /\ t \in Seq(S) /\ Len(t) = Len(s) + 1
      /\ \A i \in 1 .. Len(s) + 1 : t[i] = IF i <= Len(s) THEN s[i] ELSE w[1]
  <2>1. /\ t \in Seq(S)
        /\ Len(t) = Len(s) + Len(w)
        /\ \A i \in 1 .. Len(s) + Len(w) : t[i] = IF i <= Len(s) THEN s[i] ELSE w[i - Len(s)]
    BY <1>1, ConcatProperties
  <2>2. \A i \in 1 .. Len(s) + 1 : ~(i <= Len(s)) => i - Len(s) = 1
    BY <1>0
  <2> QED
    BY <1>0, <2>1, <2>2
<1>3. PICK u : u = Abs!LastOf(m, t)
  OBVIOUS
<1>4. /\ u \in Seq(S) /\ Len(u) = IF Len(s) < m THEN Len(s) + 1 ELSE m
      /\ \A i \in 1 .. Len(u) : u[i] = IF i = Len(u) THEN w[1] ELSE s[i + (Len(s) + 1 - Len(u))]
  <2>1. CASE Len(s) < m
    <3>1. u = t
      BY <1>0, <1>2, <1>3, <2>1 DEF Abs!LastOf
    <3> QED
      BY <1>0, <1>2, <2>1, <3>1
  <2>2. CASE Len(s) = m
    <3>0. PICK k \in Nat : k = m + 1
      OBVIOUS
    <3>1. u = SubSeq(t, 2, k)
      BY <1>0, <1>2, <1>3, <2>2, <3>0 DEF Abs!LastOf
    <3>2. \A i \in 2 .. k : t[i] \in S
      BY <1>0, <1>2, <2>2, <3>0, ElementOfSeq
    <3> HIDE <1>2, <3>0
    <3>3. /\ SubSeq(t, 2, k) \in Seq(S)
          /\ Len(SubSeq(t, 2, k)) = IF 2 <= k THEN k - 2 + 1 ELSE 0
          /\ \A i \in 1 .. k - 2 + 1 : SubSeq(t, 2, k)[i] = t[2 + i - 1]
      BY <3>2, SubSeqProperties
    <3>4. u \in Seq(S) /\ Len(u) = m /\ \A i \in 1 .. m : u[i] = t[2 + i - 1]
      BY <3>0, <3>1, <3>3
    <3>5. ASSUME NEW i \in 1 .. m PROVE u[i] = IF i = m THEN w[1] ELSE s[i + 1]
      <4>1. u[i] = t[i + 1]
        BY <3>4
      <4>2. i + 1 \in 1 .. Len(s) + 1 /\ (i + 1 <= Len(s) <=> i # m)
        BY <2>2
      <4> QED
        BY <1>2, <4>1, <4>2
    <3>6. Len(s) + 1 - Len(u) = 1
      BY <1>0, <2>2, <3>4
    <3> QED
      BY <2>2, <3>4, <3>5, <3>6
  <2> QED
    BY <1>0, <2>1, <2>2
<1> HIDE <1>2
<1>5. u = Abs!LastOf(m, s \o w)
  BY <1>1, <1>3
<1> QED
  BY <1>4, <1>5, Zenon

-----------------------------------------------------------------------------
(* What is assumed of the rows, the ring and the characters. *)
LEMMA Constants ==
    /\ max_cols \in Nat \ {0} /\ SCROLLBACK_LINES \in Nat \ {0}
    /\ NUL \notin Chars /\ Space \in Chars
  BY TerminalAssumption, ShellAssumption

(* Products of numbers grow with their factors. *)
LEMMA Monotone ==
    ASSUME NEW a \in Nat, NEW b \in Nat, NEW k \in Nat, a <= b
    PROVE  a * k \in Nat /\ a * k <= b * k
<1>1. PICK d \in Nat : b = a + d
  <2>1. b - a \in Nat /\ b = a + (b - a)
    OBVIOUS
  <2> QED
    BY <2>1
<1>2. a * k \in Nat /\ d * k \in Nat
  OBVIOUS
<1>3. b * k = a * k + d * k
  BY <1>1
<1> QED
  BY <1>2, <1>3

(* Where the i-th line after slot s is, without a remainder. *)
LEMMA SlotIs ==
    ASSUME NEW s \in Slots, NEW i \in 0 .. SCROLLBACK_LINES
    PROVE  /\ Slot(s, i) = IF s + i < SCROLLBACK_LINES THEN s + i ELSE s + i - SCROLLBACK_LINES
           /\ Slot(s, i) \in Slots
<1>1. SCROLLBACK_LINES \in Nat \ {0} /\ s \in Nat /\ i \in Nat
  BY Constants DEF Slots
<1> QED
  BY <1>1 DEF Slot, Slots

(* Fewer lines than the ring has never share a slot. *)
LEMMA SlotsDiffer ==
    ASSUME NEW s \in Slots, NEW i \in 0 .. SCROLLBACK_LINES - 1, NEW j \in 0 .. SCROLLBACK_LINES - 1,
           Slot(s, i) = Slot(s, j)
    PROVE  i = j
<1>1. i \in 0 .. SCROLLBACK_LINES /\ j \in 0 .. SCROLLBACK_LINES
  BY Constants
<1>2. /\ Slot(s, i) = IF s + i < SCROLLBACK_LINES THEN s + i ELSE s + i - SCROLLBACK_LINES
      /\ Slot(s, j) = IF s + j < SCROLLBACK_LINES THEN s + j ELSE s + j - SCROLLBACK_LINES
  BY <1>1, SlotIs
<1>3. SCROLLBACK_LINES \in Nat /\ s \in 0 .. SCROLLBACK_LINES - 1
  BY Constants DEF Slots
<1>4. (IF s + i < SCROLLBACK_LINES THEN s + i ELSE s + i - SCROLLBACK_LINES)
      = (IF s + j < SCROLLBACK_LINES THEN s + j ELSE s + j - SCROLLBACK_LINES)
  BY <1>2
<1> HIDE <1>2
<1> QED
  BY <1>3, <1>4

(* The slots seen from the next one, and once around the ring. *)
LEMMA Following ==
    ASSUME NEW s \in Slots
    PROVE  /\ Slot(s, 1) \in Slots
           /\ Slot(s, SCROLLBACK_LINES) = s
           /\ \A i \in 0 .. SCROLLBACK_LINES - 1 : Slot(Slot(s, 1), i) = Slot(s, i + 1)
           /\ Slot(Slot(s, 1), SCROLLBACK_LINES - 1) = s
<1>1. SCROLLBACK_LINES \in Nat \ {0} /\ 1 \in 0 .. SCROLLBACK_LINES /\ s \in Nat
  BY Constants DEF Slots
<1>2. Slot(s, 1) = (IF s + 1 < SCROLLBACK_LINES THEN s + 1 ELSE s + 1 - SCROLLBACK_LINES)
      /\ Slot(s, 1) \in Slots
  BY <1>1, SlotIs
<1>3. Slot(s, SCROLLBACK_LINES) = s
  BY <1>1, SlotIs DEF Slots
<1>4. ASSUME NEW i \in 0 .. SCROLLBACK_LINES - 1 PROVE Slot(Slot(s, 1), i) = Slot(s, i + 1)
  <2>1. i \in 0 .. SCROLLBACK_LINES /\ i + 1 \in 0 .. SCROLLBACK_LINES
    BY <1>1
  <2>2. Slot(Slot(s, 1), i) = IF Slot(s, 1) + i < SCROLLBACK_LINES THEN Slot(s, 1) + i
                              ELSE Slot(s, 1) + i - SCROLLBACK_LINES
    BY <1>2, <2>1, SlotIs
  <2>3. Slot(s, i + 1) = IF s + (i + 1) < SCROLLBACK_LINES THEN s + (i + 1)
                         ELSE s + (i + 1) - SCROLLBACK_LINES
    BY <2>1, SlotIs
  <2> QED
    BY <1>1, <1>2, <2>2, <2>3 DEF Slots
<1> QED
  BY <1>1, <1>2, <1>3, <1>4

(* The lines after a new one has been added to a buffer. *)
LEMMA NewLine ==
    ASSUME TermTypeOK, NEW buffer \in [Slots -> [Columns -> Cell]], add_new_line(buffer)
    PROVE  /\ line_buffer' \in [Slots -> [Columns -> Cell]]
           /\ buffer_start' \in Slots /\ buffer_count' \in 1 .. SCROLLBACK_LINES
           /\ buffer_count' = buffer_count + 1 \/ (buffer_count' = buffer_count /\ buffer_count = SCROLLBACK_LINES)
           /\ line_buffer'[Slot(buffer_start', buffer_count' - 1)] = EmptyLine
           /\ \A i \in 0 .. buffer_count' - 2 :
                 line_buffer'[Slot(buffer_start', i)] =
                     buffer[Slot(buffer_start, i + (buffer_count + 1 - buffer_count'))]
<1>0. /\ SCROLLBACK_LINES \in Nat \ {0} /\ buffer_count \in 1 .. SCROLLBACK_LINES /\ buffer_start \in Slots
      /\ Slot(buffer_start, buffer_count) \in Slots /\ EmptyLine \in [Columns -> Cell]
  BY Constants, SlotIs DEF TermTypeOK, EmptyLine, Cell
<1>1. CASE buffer_count < SCROLLBACK_LINES
  <2>1. /\ buffer_count' = buffer_count + 1 /\ buffer_start' = buffer_start
        /\ line_buffer' = [buffer EXCEPT ![Slot(buffer_start, buffer_count)] = EmptyLine]
    BY <1>1 DEF add_new_line
  <2>2. ASSUME NEW i \in 0 .. buffer_count - 1
        PROVE  line_buffer'[Slot(buffer_start, i)] = buffer[Slot(buffer_start, i)]
    <3>1. Slot(buffer_start, i) \in Slots /\ Slot(buffer_start, i) # Slot(buffer_start, buffer_count)
      BY <1>0, <1>1, SlotIs, SlotsDiffer
    <3> QED
      BY <2>1, <3>1
  <2> QED
    BY <1>0, <1>1, <2>1, <2>2
<1>2. CASE buffer_count = SCROLLBACK_LINES
  <2>1. /\ buffer_count' = buffer_count /\ buffer_start' = Slot(buffer_start, 1)
        /\ line_buffer' = [buffer EXCEPT ![buffer_start] = EmptyLine]
    BY <1>0, <1>2, Following DEF add_new_line
  <2>2. ASSUME NEW i \in 0 .. buffer_count - 2
        PROVE  line_buffer'[Slot(buffer_start', i)] = buffer[Slot(buffer_start, i + 1)]
    <3>1. Slot(buffer_start', i) = Slot(buffer_start, i + 1)
      BY <1>0, <1>2, <2>1, Following
    <3>2. Slot(buffer_start, 0) = buffer_start /\ i + 1 \in 0 .. SCROLLBACK_LINES - 1 /\ 0 \in 0 .. SCROLLBACK_LINES - 1
      BY <1>0, <1>2, SlotIs DEF Slots
    <3>3. Slot(buffer_start, i + 1) \in Slots /\ Slot(buffer_start, i + 1) # buffer_start
      BY <1>0, <3>2, SlotIs, SlotsDiffer
    <3> QED
      BY <2>1, <3>1, <3>3
  <2>3. Slot(buffer_start', buffer_count' - 1) = buffer_start
    BY <1>0, <1>2, <2>1, Following
  <2> QED
    BY <1>0, <1>2, <2>1, <2>2, <2>3, Following
<1> QED
  BY <1>0, <1>1, <1>2

-----------------------------------------------------------------------------
(* A line ends and the next one begins. *)

(* An empty line is shown by a blank row. *)
LEMMA Emptiness ==
    /\ Holds(EmptyLine, 0) /\ EmptyLine \in [Columns -> Cell]
    /\ \A row : BlankRow(row) => \A c \in Columns : CellShows(row[c], EmptyLine[c])
  BY Constants DEF Cell, EmptyLine, Holds, Columns, BlankRow

(* fb_clear leaves nothing of rows that have no padding: the last pixel of *)
(* a cell lies in the rows of the screen.                                  *)
LEMMA Clearing ==
    ASSUME max_rows \in ScreenHeights, NEW s \in [ScreenRows -> Rows]
    PROVE  /\ fb_clear(s) \in [ScreenRows -> Rows]
           /\ \A r \in ScreenRows : BlankRow(fb_clear(s)[r])
<1> DEFINE height == max_rows * FONT_HEIGHT + below
           Pixels(r, c) == (c * FONT_WIDTH .. (c + 1) * FONT_WIDTH - 1)
                               \X (r * FONT_HEIGHT .. (r + 1) * FONT_HEIGHT - 1)
           Cleared(r, c) == {p \in Pixels(r, c) : p[2] * pitch + p[1] < width * height}
           Kept(r, c) == IF Cleared(r, c) = {} THEN s[r][c]
                         ELSE IF Cleared(r, c) = Pixels(r, c) \/ s[r][c] = Space THEN Space
                         ELSE Remains
<1>1. fb_clear(s) = [r \in ScreenRows |-> [c \in Columns |-> Kept(r, c)]]
  BY DEF fb_clear
<1>2. \A r \in ScreenRows : \A c \in Columns : Kept(r, c) \in Chars \cup {Remains}
  BY Constants DEF Rows
<1>3. ASSUME ~Padded, NEW r \in ScreenRows, NEW c \in Columns
      PROVE  Cleared(r, c) = Pixels(r, c) /\ Pixels(r, c) # {}
  <2>1. PICK FW \in Nat \ {0}, FH \in Nat \ {0}, w \in Nat, rows \in Nat \ {0}, cols \in Nat \ {0} :
           /\ FW = FONT_WIDTH /\ FH = FONT_HEIGHT /\ w = width /\ w = pitch
           /\ rows = max_rows /\ cols = max_cols /\ cols * FW <= w
    BY <1>3, TerminalAssumption DEF Padded, pitch
  <2>2. PICK h \in Nat : h = height /\ rows * FH <= h
    BY <2>1, TerminalAssumption
  <2>3. r \in Nat /\ r + 1 <= rows /\ c \in Nat /\ c + 1 <= cols
    BY <2>1 DEF ScreenRows, Columns
  <2>4. /\ (r + 1) * FH <= rows * FH /\ (c + 1) * FW <= cols * FW
        /\ (r + 1) * FH \in Nat /\ (c + 1) * FW \in Nat
    BY <2>1, <2>3, Monotone
  <2>5. ASSUME NEW p \in Pixels(r, c) PROVE p[2] * pitch + p[1] < width * height
    <3>1. PICK x \in Nat, y \in Nat : x = p[1] /\ y = p[2] /\ x + 1 <= (c + 1) * FW /\ y + 1 <= (r + 1) * FH
      BY <2>1, <2>3, <2>4
    <3>2. x + 1 <= w /\ y + 1 <= h
      BY <2>1, <2>2, <2>4, <3>1
    <3>3. (y + 1) * w <= h * w /\ (y + 1) * w = y * w + w /\ h * w = w * h
      BY <3>2, Monotone
    <3>4. y * w + x < w * h
      BY <3>2, <3>3
    <3> QED
      BY <2>1, <2>2, <3>1, <3>4
  <2>6. <<c * FW, r * FH>> \in Pixels(r, c)
    BY <2>1, <2>3
  <2> QED
    BY <2>5, <2>6
<1> HIDE DEF Kept
<1>4. \A r \in ScreenRows : \A c \in Columns : CellShows(fb_clear(s)[r][c], NUL)
  BY <1>1, <1>3 DEF CellShows, Kept
<1> QED
  BY <1>1, <1>2, <1>4 DEF BlankRow, Rows

(* Whether rows are padded never changes. *)
LEMMA SameScreen ==
    ASSUME max_rows' = max_rows
    PROVE  /\ \A cell, char : CellShows(cell, char)' <=> CellShows(cell, char)
           /\ \A row : BlankRow(row)' <=> BlankRow(row)
  BY DEF BlankRow, CellShows, Padded, pitch, Columns

(* The current line, now l, ends and an empty one follows. *)
EndLine(l, drawn) ==
    /\ add_new_line([line_buffer EXCEPT ![Current] = l]) /\ NextRow(drawn)
    /\ UNCHANGED <<max_rows, scroll_offset>>

(* The current line is l, and the screen shows that. *)
Shows(l, drawn) ==
    /\ l \in [Columns -> Cell] /\ \E n \in 0 .. max_cols : Holds(l, n)
    /\ drawn \in [ScreenRows -> Rows]
    /\ scroll_offset = 0 =>
          /\ \A c \in Columns : CellShows(drawn[ScreenRow][c], l[c])
          /\ \A r \in ScreenRows \ {ScreenRow} : drawn[r] = screen[r]

(* The lines after it. *)
LEMMA LinesAfter ==
    ASSUME TermInv, NEW l \in [Columns -> Cell], NEW drawn, EndLine(l, drawn)
    PROVE  /\ line_buffer' \in [Slots -> [Columns -> Cell]]
           /\ buffer_start' \in Slots /\ buffer_count' \in 1 .. SCROLLBACK_LINES
           /\ buffer_count' = buffer_count + 1 \/ (buffer_count' = buffer_count /\ buffer_count = SCROLLBACK_LINES)
           /\ get_line(buffer_count - 1)' = EmptyLine
           /\ buffer_count' > 1 => line_buffer'[Slot(buffer_start', buffer_count' - 2)] = l
           /\ \A i \in 0 .. buffer_count' - 3 :
                 line_buffer'[Slot(buffer_start', i)] =
                     get_line(i + (buffer_count + 1 - buffer_count'))
<1> DEFINE buffer == [line_buffer EXCEPT ![Current] = l]
<1>1. /\ buffer_count - 1 \in 0 .. SCROLLBACK_LINES - 1 /\ buffer_start \in Slots
      /\ SCROLLBACK_LINES \in Nat /\ buffer_count \in 1 .. SCROLLBACK_LINES
  BY Constants DEF TermInv, TermTypeOK
<1>2. Current \in Slots
  BY <1>1, SlotIs DEF Current
<1>3. buffer \in [Slots -> [Columns -> Cell]] /\ buffer[Current] = l
  BY <1>2 DEF TermInv, TermTypeOK
<1>4. ASSUME NEW i \in 0 .. buffer_count - 2 PROVE buffer[Slot(buffer_start, i)] = get_line(i)
  <2>1. Slot(buffer_start, i) \in Slots /\ Slot(buffer_start, i) # Current
    BY <1>1, SlotIs, SlotsDiffer DEF Current
  <2> QED
    BY <2>1, <1>2 DEF get_line, TermInv, TermTypeOK
<1>5. TermTypeOK /\ add_new_line(buffer)
  BY DEF EndLine, TermInv
<1> HIDE DEF buffer
<1>6. /\ line_buffer' \in [Slots -> [Columns -> Cell]]
      /\ buffer_start' \in Slots /\ buffer_count' \in 1 .. SCROLLBACK_LINES
      /\ buffer_count' = buffer_count + 1 \/ (buffer_count' = buffer_count /\ buffer_count = SCROLLBACK_LINES)
      /\ line_buffer'[Slot(buffer_start', buffer_count' - 1)] = EmptyLine
      /\ \A i \in 0 .. buffer_count' - 2 :
                 line_buffer'[Slot(buffer_start', i)] =
                     buffer[Slot(buffer_start, i + (buffer_count + 1 - buffer_count'))]
  BY <1>3, <1>5, NewLine
<1>7. buffer_count' > 1 => line_buffer'[Slot(buffer_start', buffer_count' - 2)] = l
  <2>0. buffer_count' \in Int /\ buffer_count \in Int
    BY <1>1, <1>6
  <2>3. \A x, y \in Int : /\ x > 1 => x - 2 \in 0 .. x - 2
                          /\ x - 2 + (y + 1 - x) = y - 1
    OBVIOUS
  <2>1. buffer_count' > 1 => buffer_count' - 2 \in 0 .. buffer_count' - 2
    BY <2>0, <2>3
  <2>2. buffer_count' - 2 + (buffer_count + 1 - buffer_count') = buffer_count - 1
    BY <2>0, <2>3
  <2> QED
    BY <1>3, <1>6, <2>1, <2>2 DEF Current
<1>8. ASSUME NEW i \in 0 .. buffer_count' - 3
      PROVE  line_buffer'[Slot(buffer_start', i)] = get_line(i + (buffer_count + 1 - buffer_count'))
  <2>1. /\ buffer_count' \in Int /\ buffer_count \in Int /\ i \in Int
        /\ buffer_count' = buffer_count + 1 \/ buffer_count' = buffer_count
    BY <1>1, <1>6
  <2>2. \A x, y, j \in Int :
          (x = y + 1 \/ x = y) /\ j \in 0 .. x - 3 =>
              j \in 0 .. x - 2 /\ j + (y + 1 - x) \in 0 .. y - 2
    OBVIOUS
  <2>3. i \in 0 .. buffer_count' - 2 /\ i + (buffer_count + 1 - buffer_count') \in 0 .. buffer_count - 2
    BY <2>1, <2>2
  <2> QED
    BY <1>4, <1>6, <2>3
<1> QED
  BY <1>6, <1>7, <1>8 DEF get_line

(* The cursor after it. *)
LEMMA RowAfter ==
    ASSUME TermInv, NEW drawn \in [ScreenRows -> Rows], NextRow(drawn), UNCHANGED <<max_rows, scroll_offset>>
    PROVE  /\ terminal_row' \in Nat /\ terminal_col' = 0 /\ screen' \in [ScreenRows -> Rows]
           /\ ScreenRow \in ScreenRows /\ ScreenRow' \in ScreenRows
           /\ \/ scroll_offset > 0 /\ screen' = drawn /\ terminal_row' = terminal_row + 1
              \/ /\ scroll_offset = 0 /\ screen' = drawn /\ ScreenRow' = ScreenRow + 1
                 /\ terminal_row' = terminal_row + 1
              \/ /\ scroll_offset = 0 /\ ScreenRow = max_rows - 1 /\ ScreenRow' = max_rows - 1
                 /\ terminal_row' = max_rows - 1
                 /\ \A r \in ScreenRows : r < max_rows - 1 => screen'[r] = drawn[r + 1]
                 /\ BlankRow(screen'[max_rows - 1])
<1> DEFINE last == [c \in Columns |-> IF below > 0 /\ Padded THEN Remains ELSE Space]
<1>1. /\ max_rows \in Nat \ {0} /\ max_rows' = max_rows /\ terminal_row \in Nat /\ scroll_offset \in Nat
      /\ terminal_col' = 0
  BY DEF TermInv, TermTypeOK, NextRow
<1>5. last \in Rows /\ BlankRow(last)
  BY Constants DEF Rows, BlankRow, CellShows
<1> HIDE DEF last
<1>2. ScreenRow \in ScreenRows
  BY <1>1 DEF ScreenRow, ScreenRows
<1>3. CASE terminal_row + 1 >= max_rows /\ scroll_offset = 0
  <2>1. terminal_row' = max_rows - 1 /\ screen' = hardware_scroll(drawn)
    BY <1>3 DEF NextRow
  <2>2. screen' = [r \in ScreenRows |-> IF r + 1 \in ScreenRows THEN drawn[r + 1] ELSE last]
    BY <2>1 DEF hardware_scroll, last
  <2>3. ScreenRow = max_rows - 1 /\ ScreenRow' = max_rows - 1
    BY <1>1, <1>3, <2>1 DEF ScreenRow
  <2>4. screen' \in [ScreenRows -> Rows]
    BY <1>1, <1>5, <2>2
  <2>5. \A r \in ScreenRows : screen'[r] = IF r < max_rows - 1 THEN drawn[r + 1] ELSE last
    BY <1>1, <2>2 DEF ScreenRows
  <2>6. max_rows - 1 \in ScreenRows
    BY <1>1 DEF ScreenRows
  <2> QED
    BY <1>1, <1>2, <1>3, <1>5, <2>1, <2>3, <2>4, <2>5, <2>6
<1>4. CASE ~(terminal_row + 1 >= max_rows /\ scroll_offset = 0)
  <2>1. terminal_row' = terminal_row + 1 /\ screen' = drawn
    BY <1>4 DEF NextRow
  <2>2. ScreenRow' \in ScreenRows /\ (scroll_offset = 0 => ScreenRow' = ScreenRow + 1)
    BY <1>1, <1>4, <2>1 DEF ScreenRow, ScreenRows
  <2> QED
    BY <1>1, <1>2, <1>4, <2>1, <2>2
<1> QED
  BY <1>3, <1>4

(* Each line is still text and then NULs. *)
LEMMA EndLineLines ==
    ASSUME TermInv, NEW l, NEW drawn, Shows(l, drawn), EndLine(l, drawn)
    PROVE  Lines'
<1>0. PICK start \in Slots, count \in 1 .. SCROLLBACK_LINES :
          start = buffer_start' /\ count = buffer_count'
  BY LinesAfter DEF Shows
<1>1. /\ count = buffer_count + 1 \/ count = buffer_count
      /\ get_line(buffer_count - 1)' = EmptyLine
      /\ count > 1 => line_buffer'[Slot(start, count - 2)] = l
      /\ \A i \in 0 .. count - 3 :
             line_buffer'[Slot(start, i)] = get_line(i + (buffer_count + 1 - count))
  BY <1>0, LinesAfter DEF Shows
<1>4. line_buffer'[Slot(start, count - 1)] = EmptyLine
  BY <1>0, <1>1 DEF get_line
<1>5. count = buffer_count + 1 \/ count = buffer_count
  BY <1>1
<1>2. terminal_col' = 0 /\ 0 \in 0 .. max_cols /\ buffer_count \in 1 .. SCROLLBACK_LINES
  BY Constants DEF EndLine, NextRow, TermInv, TermTypeOK
<1>3. ASSUME NEW i \in 0 .. count - 1
      PROVE  \E n \in 0 .. max_cols : Holds(line_buffer'[Slot(start, i)], n)
  <2>1. CASE i = count - 1
    BY <1>2, <1>4, <2>1, Emptiness
  <2>2. CASE i = count - 2
    <3>1. count > 1
      BY <2>2
    <3> QED
      BY <1>1, <2>2, <3>1 DEF Shows
  <2>3. CASE i \in 0 .. count - 3
    <3>1. i + (buffer_count + 1 - count) \in 0 .. buffer_count - 1
      BY <1>2, <1>5, <2>3
    <3> QED
      BY <1>1, <2>3, <3>1 DEF TermInv, Lines
  <2> QED
    BY <2>1, <2>2, <2>3
<1> QED
  BY <1>0, <1>2, <1>3, <1>4, Emptiness DEF Lines, get_line

(* What the rows of the screen show after it. *)
LEMMA EndLineRows ==
    ASSUME TermInv, NEW l, NEW drawn, Shows(l, drawn), EndLine(l, drawn), scroll_offset = 0,
           NEW row \in Nat, row = ScreenRow'
    PROVE  /\ row \in ScreenRows /\ BlankRow(screen'[row])
           /\ row = ScreenRow + 1 \/ row = ScreenRow
           /\ \A i \in 1 .. row : screen'[row - i] = drawn[ScreenRow - (i - 1)]
           /\ \A r \in ScreenRows : r > row => BlankRow(screen'[r])
<1>1. /\ max_rows \in Nat \ {0} /\ ScreenRow \in ScreenRows /\ row \in ScreenRows
      /\ \/ screen' = drawn /\ row = ScreenRow + 1
         \/ /\ ScreenRow = max_rows - 1 /\ row = max_rows - 1
            /\ \A r \in ScreenRows : r < max_rows - 1 => screen'[r] = drawn[r + 1]
            /\ BlankRow(screen'[max_rows - 1])
  BY RowAfter DEF Shows, EndLine, TermInv, TermTypeOK, ScreenRows
<1>2. \A r \in ScreenRows : r > ScreenRow => BlankRow(drawn[r])
  <2>1. \A r \in ScreenRows : r > ScreenRow => r \in ScreenRows \ {ScreenRow}
    BY <1>1 DEF ScreenRows
  <2>2. \A r \in ScreenRows \ {ScreenRow} : drawn[r] = screen[r]
    BY DEF Shows
  <2> QED
    BY <2>1, <2>2 DEF TermInv, ScreenShowsTail
<1>3. CASE screen' = drawn /\ row = ScreenRow + 1
  <2>1. BlankRow(screen'[row]) /\ \A r \in ScreenRows : r > row => BlankRow(screen'[r])
    BY <1>1, <1>2, <1>3 DEF ScreenRows
  <2>2. ASSUME NEW i \in 1 .. row PROVE row - i = ScreenRow - (i - 1)
    BY <1>1, <1>3 DEF ScreenRows
  <2> QED
    BY <1>1, <1>3, <2>1, <2>2
<1>4. CASE /\ ScreenRow = max_rows - 1 /\ row = max_rows - 1
           /\ \A r \in ScreenRows : r < max_rows - 1 => screen'[r] = drawn[r + 1]
           /\ BlankRow(screen'[max_rows - 1])
  <2>1. ASSUME NEW i \in 1 .. row PROVE screen'[row - i] = drawn[ScreenRow - (i - 1)]
    <3>1. row - i \in ScreenRows /\ row - i < max_rows - 1 /\ (row - i) + 1 = ScreenRow - (i - 1)
      BY <1>1, <1>4 DEF ScreenRows
    <3> QED
      BY <1>4, <3>1
  <2>2. \A r \in ScreenRows : ~(r > row)
    BY <1>1, <1>4 DEF ScreenRows
  <2> QED
    BY <1>1, <1>4, <2>1, <2>2
<1> QED
  BY <1>1, <1>3, <1>4

(* The screen still shows the tail, scrolled by a row or not. *)
LEMMA EndLineShown ==
    ASSUME TermInv, NEW l, NEW drawn, Shows(l, drawn), EndLine(l, drawn)
    PROVE  ScreenShowsTail' /\ Cursor' /\ TermTypeOK'
<1>1. PICK start \in Slots, count \in 1 .. SCROLLBACK_LINES :
          start = buffer_start' /\ count = buffer_count'
  BY LinesAfter DEF Shows
<1>2. /\ line_buffer' \in [Slots -> [Columns -> Cell]]
      /\ count = buffer_count + 1 \/ count = buffer_count
      /\ get_line(buffer_count - 1)' = EmptyLine
      /\ count > 1 => line_buffer'[Slot(start, count - 2)] = l
      /\ \A i \in 0 .. count - 3 :
             line_buffer'[Slot(start, i)] = get_line(i + (buffer_count + 1 - count))
  BY <1>1, LinesAfter DEF Shows
<1>3. line_buffer'[Slot(start, count - 1)] = EmptyLine
  BY <1>1, <1>2 DEF get_line
<1>4. /\ max_rows' = max_rows /\ scroll_offset' = scroll_offset /\ scroll_offset \in Nat
      /\ max_rows \in Nat \ {0} /\ buffer_count \in 1 .. SCROLLBACK_LINES /\ terminal_row \in Nat
      /\ max_rows \in ScreenHeights
  BY DEF EndLine, TermInv, TermTypeOK
<1>5. PICK row \in Nat : row = ScreenRow'
  BY <1>4, RowAfter DEF Shows, EndLine, ScreenRows
<1>6. /\ terminal_row' \in Nat /\ terminal_col' = 0 /\ screen' \in [ScreenRows -> Rows]
      /\ ScreenRow \in ScreenRows
      /\ terminal_row' = terminal_row + 1 \/ terminal_row' = max_rows - 1
  BY RowAfter DEF Shows, EndLine
<1>7. TermTypeOK'
  BY <1>1, <1>2, <1>4, <1>6, Constants DEF TermTypeOK, ScreenRows, Columns
<1>8. ASSUME scroll_offset = 0
      PROVE  /\ \A i \in 0 .. count - 1 : \A c \in Columns :
                   i <= row => CellShows(screen'[row - i][c], line_buffer'[Slot(start, count - 1 - i)][c])
             /\ \A r \in ScreenRows : r > row => BlankRow(screen'[r])
  <2>1. /\ row \in ScreenRows /\ BlankRow(screen'[row])
        /\ row = ScreenRow + 1 \/ row = ScreenRow
        /\ \A i \in 1 .. row : screen'[row - i] = drawn[ScreenRow - (i - 1)]
        /\ \A r \in ScreenRows : r > row => BlankRow(screen'[r])
    BY <1>5, <1>8, EndLineRows
  <2>2. ScreenRow \in Nat
    BY <1>4, <1>6 DEF ScreenRows
  <2>3. ASSUME NEW i \in 0 .. count - 1, NEW c \in Columns, i <= row
        PROVE  CellShows(screen'[row - i][c], line_buffer'[Slot(start, count - 1 - i)][c])
    <3>1. CASE i = 0
      <4>1. row - i = row /\ count - 1 - i = count - 1
        BY <3>1
      <4> QED
        BY <1>3, <2>1, <4>1, Emptiness
    <3>2. CASE i = 1
      <4>1. count - 1 - i = count - 2 /\ count > 1 /\ i \in 1 .. row /\ ScreenRow - (i - 1) = ScreenRow
        BY <2>2, <2>3, <3>2
      <4>2. screen'[row - i] = drawn[ScreenRow]
        BY <2>1, <4>1
      <4> QED
        BY <1>2, <1>8, <4>1, <4>2 DEF Shows
    <3>3. CASE i > 1
      <4>1. /\ i \in 1 .. row /\ count - 1 - i \in 0 .. count - 3
            /\ count - 1 - i + (buffer_count + 1 - count) = buffer_count - 1 - (i - 1)
        BY <1>4, <2>3, <3>3
      <4>2. i - 1 \in 0 .. buffer_count - 1 /\ i - 1 <= ScreenRow
            /\ ScreenRow - (i - 1) \in ScreenRows \ {ScreenRow}
        <5>1. count = buffer_count + 1 \/ count = buffer_count
          BY <1>2
        <5>2. row = ScreenRow + 1 \/ row = ScreenRow
          BY <2>1
        <5>3. ScreenRow \in 0 .. max_rows - 1
          BY <1>6 DEF ScreenRows
        <5> QED
          BY <1>4, <2>2, <2>3, <3>3, <5>1, <5>2, <5>3 DEF ScreenRows
      <4>3. screen'[row - i] = screen[ScreenRow - (i - 1)]
        BY <1>8, <2>1, <4>1, <4>2 DEF Shows
      <4>4. CellShows(screen[ScreenRow - (i - 1)][c], get_line(buffer_count - 1 - (i - 1))[c])
        BY <1>8, <4>2 DEF TermInv, ScreenShowsTail
      <4>5. line_buffer'[Slot(start, count - 1 - i)] = get_line(buffer_count - 1 - (i - 1))
        BY <1>2, <4>1
      <4> QED
        BY <4>3, <4>4, <4>5
    <3> QED
      BY <2>3, <3>1, <3>2, <3>3
  <2> QED
    BY <2>1, <2>3
<1>9. ScreenShowsTail'
  <2>1. scroll_offset > 0 => scroll_offset + max_rows <= count
    <3>1. scroll_offset > 0 => scroll_offset + max_rows <= buffer_count
      BY DEF TermInv, ScreenShowsTail
    <3> QED
      BY <1>2, <1>4, <3>1
  <2> QED
    BY <1>1, <1>4, <1>5, <1>8, <2>1, SameScreen DEF ScreenShowsTail, get_line, ScreenRows
<1>10. Cursor'
  <2>1. terminal_row >= buffer_count - 1 \/ terminal_row >= max_rows - 1
    BY DEF TermInv, Cursor
  <2>2. PICK tr \in Nat : tr = terminal_row' /\ (tr = terminal_row + 1 \/ tr = max_rows - 1)
    BY <1>6
  <2>3. tr >= count - 1 \/ tr >= max_rows - 1
    BY <1>2, <1>4, <2>1, <2>2
  <2> QED
    BY <1>1, <1>4, <2>2, <2>3 DEF Cursor
<1> QED
  BY <1>7, <1>9, <1>10

(* Ending the current line preserves the invariant of the terminal. *)
LEMMA EndLineKept ==
    ASSUME TermInv, NEW l, NEW drawn, Shows(l, drawn), EndLine(l, drawn)
    PROVE  TermInv'
  BY EndLineLines, EndLineShown DEF TermInv

-----------------------------------------------------------------------------
(* The operations of the terminal *)

(* The line being written to, and its row of the screen. *)
LEMMA CurrentLine ==
    ASSUME TermInv
    PROVE  /\ Current \in Slots /\ line_buffer[Current] = get_line(buffer_count - 1)
           /\ line_buffer[Current] \in [Columns -> Cell] /\ Holds(line_buffer[Current], terminal_col)
           /\ terminal_col \in Columns /\ terminal_col \in Nat /\ terminal_col \in 0 .. max_cols
           /\ ScreenRow \in ScreenRows
<1>1. buffer_count - 1 \in 0 .. SCROLLBACK_LINES /\ buffer_start \in Slots
  BY Constants DEF TermInv, TermTypeOK
<1>2. Current \in Slots
  BY <1>1, SlotIs DEF Current
<1>3. ScreenRow \in ScreenRows
  BY DEF TermInv, TermTypeOK, ScreenRow, ScreenRows
<1> QED
  BY <1>2, <1>3, Constants DEF TermInv, TermTypeOK, Lines, Current, get_line, Columns

(* One cell of the current line is written and drawn. *)
LEMMA CellShown ==
    ASSUME TermInv, NEW col \in Columns, NEW cell \in Cell, NEW n \in 0 .. max_cols,
           Holds([line_buffer[Current] EXCEPT ![col] = cell], n),
           NEW glyph \in Chars, CellShows(glyph, cell)
    PROVE  Shows([line_buffer[Current] EXCEPT ![col] = cell], Draw(col, glyph))
<1> DEFINE l == [line_buffer[Current] EXCEPT ![col] = cell]
           drawn == Draw(col, glyph)
<1>1. l \in [Columns -> Cell] /\ \A c \in Columns : l[c] = IF c = col THEN cell ELSE line_buffer[Current][c]
  BY CurrentLine
<1>2. screen \in [ScreenRows -> Rows]
  BY DEF TermInv, TermTypeOK
<1>3. screen[ScreenRow] \in [Columns -> Chars \cup {Remains}]
  BY <1>2, CurrentLine DEF Rows
<1>4. drawn \in [ScreenRows -> Rows]
  BY <1>2, <1>3, CurrentLine DEF Draw, Rows
<1>5. ASSUME scroll_offset = 0
      PROVE  /\ \A r \in ScreenRows \ {ScreenRow} : drawn[r] = screen[r]
             /\ \A c \in Columns : drawn[ScreenRow][c] = IF c = col THEN glyph ELSE screen[ScreenRow][c]
  <2>1. drawn = [screen EXCEPT ![ScreenRow] = [screen[ScreenRow] EXCEPT ![col] = glyph]]
    BY <1>5 DEF Draw
  <2> HIDE DEF drawn
  <2> QED
    BY <1>2, <1>3, <2>1, CurrentLine
<1>6. ASSUME scroll_offset = 0, NEW c \in Columns
      PROVE  CellShows(screen[ScreenRow][c], line_buffer[Current][c])
  <2>1. 0 \in 0 .. buffer_count - 1 /\ 0 <= ScreenRow /\ ScreenRow - 0 = ScreenRow
        /\ buffer_count - 1 - 0 = buffer_count - 1
    BY CurrentLine DEF TermInv, TermTypeOK, ScreenRows
  <2> QED
    BY <1>6, <2>1, CurrentLine DEF TermInv, ScreenShowsTail
<1> HIDE DEF l, drawn
<1>7. Holds(l, n)
  BY DEF l
<1> QED
  BY <1>1, <1>4, <1>5, <1>6, <1>7 DEF Shows, l, drawn

(* The current line is edited. *)
LEMMA EditKept ==
    ASSUME TermInv, NEW l, NEW drawn, Shows(l, drawn),
           line_buffer' = [line_buffer EXCEPT ![Current] = l], screen' = drawn,
           terminal_col' \in Columns, Holds(l, terminal_col'),
           UNCHANGED <<max_rows, buffer_start, buffer_count, scroll_offset, terminal_row>>
    PROVE  TermInv'
<1>1. Current \in Slots /\ buffer_start \in Slots /\ buffer_count \in 1 .. SCROLLBACK_LINES
      /\ line_buffer \in [Slots -> [Columns -> Cell]] /\ SCROLLBACK_LINES \in Nat
  BY CurrentLine, Constants DEF TermInv, TermTypeOK
<1>2. get_line(buffer_count - 1)' = l
  BY <1>1, CurrentLine DEF get_line, Current
<1>3. ASSUME NEW i \in 0 .. buffer_count - 2 PROVE get_line(i)' = get_line(i)
  <2>1. Slot(buffer_start, i) \in Slots /\ Slot(buffer_start, i) # Current
    BY <1>1, SlotIs, SlotsDiffer DEF Current
  <2> QED
    BY <1>1, <2>1 DEF get_line
<1>4. TermTypeOK'
  BY <1>1 DEF TermInv, TermTypeOK, Shows, ScreenRows
<1>5. Lines'
  <2>1. ASSUME NEW i \in 0 .. buffer_count - 1
        PROVE  \E n \in 0 .. max_cols : Holds(get_line(i)', n)
    <3>1. CASE i = buffer_count - 1
      BY <1>2, <3>1 DEF Shows
    <3>2. CASE i # buffer_count - 1
      <4>1. i \in 0 .. buffer_count - 2
        BY <1>1, <3>2
      <4> QED
        BY <1>3, <4>1 DEF TermInv, Lines
    <3> QED
      BY <3>1, <3>2
  <2>2. Holds(get_line(buffer_count - 1)', terminal_col')
    BY <1>2
  <2> QED
    BY <2>1, <2>2 DEF Lines
<1>6. ScreenRow' = ScreenRow /\ ScreenRow \in ScreenRows /\ ScreenRows' = ScreenRows
  BY CurrentLine DEF ScreenRow, ScreenRows
<1>7. Cursor'
  BY DEF Cursor, TermInv
<1>8. ScreenShowsTail'
  <2>1. ASSUME scroll_offset = 0, NEW i \in 0 .. buffer_count - 1, NEW c \in Columns, i <= ScreenRow
        PROVE  CellShows(drawn[ScreenRow - i][c], get_line(buffer_count - 1 - i)'[c])
    <3>1. CASE i = 0
      <4>1. ScreenRow - i = ScreenRow /\ buffer_count - 1 - i = buffer_count - 1
        BY <1>1, <1>6, <3>1 DEF ScreenRows, TermInv, TermTypeOK
      <4> QED
        BY <1>2, <2>1, <4>1 DEF Shows
    <3>2. CASE i > 0
      <4>1. /\ ScreenRow - i \in ScreenRows \ {ScreenRow}
            /\ buffer_count - 1 - i \in 0 .. buffer_count - 2
        BY <1>1, <1>6, <2>1, <3>2 DEF ScreenRows, TermInv, TermTypeOK
      <4>2. drawn[ScreenRow - i] = screen[ScreenRow - i]
        BY <2>1, <4>1 DEF Shows
      <4> QED
        BY <1>3, <2>1, <4>1, <4>2 DEF TermInv, ScreenShowsTail
    <3> QED
      BY <3>1, <3>2
  <2>2. ASSUME scroll_offset = 0, NEW r \in ScreenRows, r > ScreenRow PROVE BlankRow(drawn[r])
    <3>1. r # ScreenRow
      BY <1>6, <2>2 DEF ScreenRows
    <3> QED
      BY <2>2, <3>1 DEF Shows, TermInv, ScreenShowsTail
  <2> QED
    BY <1>6, <2>1, <2>2, SameScreen DEF ScreenShowsTail, TermInv
<1> QED
  BY <1>4, <1>5, <1>7, <1>8 DEF TermInv

(* A newline ends the current line as it is. *)
LEMMA NewlineIs ==
    ASSUME TermInv, Newline
    PROVE  EndLine(line_buffer[Current], screen) /\ Shows(line_buffer[Current], screen)
<1>1. [line_buffer EXCEPT ![Current] = line_buffer[Current]] = line_buffer
  BY DEF TermInv, TermTypeOK
<1>2. EndLine(line_buffer[Current], screen)
  BY <1>1 DEF Newline, EndLine
<1>3. ASSUME scroll_offset = 0, NEW c \in Columns
      PROVE  CellShows(screen[ScreenRow][c], line_buffer[Current][c])
  <2>1. 0 \in 0 .. buffer_count - 1 /\ 0 <= ScreenRow /\ ScreenRow - 0 = ScreenRow
        /\ buffer_count - 1 - 0 = buffer_count - 1
    BY CurrentLine DEF TermInv, TermTypeOK, ScreenRows
  <2> QED
    BY <1>3, <2>1, CurrentLine DEF TermInv, ScreenShowsTail
<1> QED
  BY <1>2, <1>3, CurrentLine DEF Shows, TermInv, TermTypeOK

(* The current line with c at the cursor. *)
Typed(c) == [line_buffer[Current] EXCEPT ![terminal_col] = c]

(* The current line with c behind it, and the cell drawn for that. *)
LEMMA TypedLine ==
    ASSUME TermInv, NEW c \in Chars
    PROVE  /\ Holds(Typed(c), terminal_col + 1) /\ terminal_col + 1 \in 0 .. max_cols
           /\ Shows(Typed(c), Draw(terminal_col, c))
           /\ [line_buffer EXCEPT ![Current][terminal_col] = c] = [line_buffer EXCEPT ![Current] = Typed(c)]
<1>1. c # NUL /\ c \in Cell /\ CellShows(c, c)
  BY Constants DEF Cell, CellShows
<1>2. Holds(Typed(c), terminal_col + 1) /\ terminal_col + 1 \in 0 .. max_cols
  BY <1>1, CurrentLine, Constants DEF Holds, Columns, Typed
<1> QED
  BY <1>1, <1>2, CurrentLine, CellShown DEF Typed

(* terminal_putchar writes c, and ends a line that is full then. *)
LEMMA PutCharIs ==
    ASSUME TermInv, NEW c \in Chars, PutChar(c)
    PROVE  \/ /\ terminal_col + 1 < max_cols /\ terminal_col' = terminal_col + 1
              /\ line_buffer' = [line_buffer EXCEPT ![Current] = Typed(c)]
              /\ screen' = Draw(terminal_col, c)
              /\ UNCHANGED <<max_rows, buffer_start, buffer_count, scroll_offset, terminal_row>>
           \/ /\ terminal_col + 1 = max_cols /\ terminal_col' = 0
              /\ EndLine(Typed(c), Draw(terminal_col, c))
<1>1. terminal_col + 1 >= max_cols => terminal_col + 1 = max_cols
  BY CurrentLine, Constants DEF Columns
<1> QED
  BY <1>1, TypedLine DEF PutChar, EndLine, NextRow

(* Writing a character preserves the invariant. *)
LEMMA PutCharKept ==
    ASSUME TermInv, NEW c \in Chars, PutChar(c)
    PROVE  TermInv'
<1>1. CASE terminal_col + 1 < max_cols
  <2>1. terminal_col + 1 \in Columns
    BY <1>1, CurrentLine, Constants DEF Columns
  <2>3. terminal_col' = terminal_col + 1
    BY <1>1, PutCharIs, CurrentLine, Constants
  <2>4. terminal_col + 1 # max_cols
    BY <1>1, CurrentLine, Constants
  <2>5. terminal_col' \in Columns /\ Holds(Typed(c), terminal_col')
    BY <2>1, <2>3, TypedLine
  <2>2. /\ line_buffer' = [line_buffer EXCEPT ![Current] = Typed(c)]
        /\ screen' = Draw(terminal_col, c)
        /\ UNCHANGED <<max_rows, buffer_start, buffer_count, scroll_offset, terminal_row>>
    BY <2>4, PutCharIs
  <2> QED
    BY <2>2, <2>5, TypedLine, EditKept
<1>2. CASE ~(terminal_col + 1 < max_cols)
  BY <1>2, PutCharIs, TypedLine, EndLineKept
<1> QED
  BY <1>1, <1>2

(* The current line without the character before the cursor. *)
Erased == [line_buffer[Current] EXCEPT ![terminal_col - 1] = NUL]

(* The current line without its last character. *)
LEMMA ErasedLine ==
    ASSUME TermInv, terminal_col > 0
    PROVE  /\ terminal_col - 1 \in Columns
           /\ Holds(Erased, terminal_col - 1) /\ Shows(Erased, Draw(terminal_col - 1, Space))
           /\ [line_buffer EXCEPT ![Current][terminal_col - 1] = NUL] = [line_buffer EXCEPT ![Current] = Erased]
<1>1. NUL \in Cell /\ CellShows(Space, NUL) /\ terminal_col - 1 \in Columns /\ terminal_col - 1 \in 0 .. max_cols
  BY CurrentLine, Constants DEF Cell, CellShows, Columns
<1>2. Holds(Erased, terminal_col - 1)
  <2>1. \A c \in Columns : Erased[c] = IF c = terminal_col - 1 THEN NUL ELSE line_buffer[Current][c]
    BY CurrentLine DEF Erased
  <2>2. \A c \in Columns : c \in Nat
    BY DEF Columns
  <2> QED
    BY <2>1, <2>2, CurrentLine DEF Holds
<1> QED
  BY <1>1, <1>2, CurrentLine, CellShown, Constants DEF Erased

(* terminal_backspace preserves the invariant. *)
LEMMA BackspaceKept ==
    ASSUME TermInv, terminal_backspace
    PROVE  TermInv'
  BY ErasedLine, EditKept DEF terminal_backspace

(* terminal_clear preserves the invariant, whatever the view was. *)
LEMMA ClearKept ==
    ASSUME TermInv, terminal_clear
    PROVE  TermInv'
<1>1. /\ max_rows \in Nat \ {0} /\ max_rows' = max_rows /\ line_buffer' = EmptyBuffer /\ buffer_start' = 0
      /\ buffer_count' = 1 /\ terminal_row' = 0 /\ terminal_col' = 0 /\ scroll_offset' = 0
      /\ screen' = fb_clear(screen)
  BY DEF terminal_clear, TermInv, TermTypeOK
<1>2. ScreenRows' = ScreenRows /\ ScreenRow' = 0 /\ 0 \in ScreenRows
  BY <1>1 DEF ScreenRows, ScreenRow
<1>3. Slot(0, 0) = 0 /\ 0 \in Slots /\ get_line(0)' = EmptyLine
  BY <1>1, Constants, SlotIs DEF Slots, get_line, EmptyBuffer
<1>8. screen' \in [ScreenRows -> Rows] /\ \A r \in ScreenRows : BlankRow(screen'[r])
  BY <1>1, Clearing DEF TermInv, TermTypeOK
<1>4. TermTypeOK'
  BY <1>1, <1>2, <1>3, <1>8, Constants, Emptiness
     DEF TermInv, TermTypeOK, EmptyBuffer, Slots, Columns
<1>5. Lines'
  BY <1>1, <1>3, Emptiness, Constants DEF Lines
<1>6. Cursor'
  BY <1>1, <1>2 DEF Cursor
<1>7. ScreenShowsTail'
  BY <1>1, <1>2, <1>3, <1>8, Emptiness, SameScreen DEF ScreenShowsTail
<1> QED
  BY <1>4, <1>5, <1>6, <1>7 DEF TermInv

(* redraw_screen draws a line up to its first NUL, which is all of it. *)
LEMMA DrawnIs ==
    ASSUME TermInv, NEW i \in 0 .. buffer_count - 1, NEW row \in Rows, BlankRow(row)
    PROVE  /\ Drawn(get_line(i), row) \in Rows
           /\ \A c \in Columns : CellShows(Drawn(get_line(i), row)[c], get_line(i)[c])
<1>1. PICK n \in 0 .. max_cols : Holds(get_line(i), n)
  BY DEF TermInv, Lines
<1>2. get_line(i) \in [Columns -> Cell]
  <2>1. i \in 0 .. SCROLLBACK_LINES
    BY Constants DEF TermInv, TermTypeOK
  <2> QED
    BY <2>1, SlotIs DEF get_line, TermInv, TermTypeOK
<1>3. ASSUME NEW d \in Columns PROVE (\E k \in 0 .. d : get_line(i)[k] = NUL) <=> get_line(i)[d] = NUL
  <2>1. \A k \in 0 .. d : k \in Columns /\ k <= d
    BY Constants DEF Columns
  <2>2. d \in 0 .. d
    BY DEF Columns
  <2> QED
    BY <1>1, <2>1, <2>2 DEF Holds, Columns
<1>4. Drawn(get_line(i), row) =
        [d \in Columns |-> IF get_line(i)[d] = NUL THEN row[d] ELSE get_line(i)[d]]
  BY <1>3 DEF Drawn
<1> QED
  BY <1>2, <1>4 DEF Rows, Cell, BlankRow, CellShows

(* Redrawing the screen at another offset preserves the invariant. *)
LEMMA ScrollKept ==
    ASSUME TermInv, NEW offset \in Nat, ScrollTo(offset), buffer_count > max_rows,
           offset + max_rows <= buffer_count
    PROVE  TermInv'
<1>1. /\ max_rows \in Nat \ {0} /\ buffer_count \in 1 .. SCROLLBACK_LINES /\ terminal_row \in Nat
      /\ UNCHANGED <<max_rows, ring, cursor>> /\ scroll_offset' = offset
  BY DEF ScrollTo, TermInv, TermTypeOK
<1>2. /\ screen' \in [ScreenRows -> Rows]
      /\ \A r \in ScreenRows : \A c \in Columns :
            CellShows(screen'[r][c], get_line(buffer_count - max_rows - offset + r)[c])
  <2> DEFINE blank == fb_clear(screen)
  <2>4. \A r \in ScreenRows : blank[r] \in Rows /\ BlankRow(blank[r])
    BY <1>1, Clearing DEF TermInv, TermTypeOK
  <2>1. screen' = [r \in ScreenRows |-> Drawn(get_line(buffer_count - max_rows - offset + r), blank[r])]
    <3>1. \A r \in ScreenRows : r < max_rows
      BY <1>1 DEF ScreenRows
    <3> QED
      BY <1>1, <3>1 DEF ScrollTo, redraw_screen
  <2>2. \A r \in ScreenRows : buffer_count - max_rows - offset + r \in 0 .. buffer_count - 1
    BY <1>1 DEF ScreenRows
  <2> HIDE DEF blank
  <2> QED
    BY <2>1, <2>2, <2>4, DrawnIs
<1>3. ScreenRow = max_rows - 1 /\ ScreenRow' = ScreenRow /\ ScreenRows' = ScreenRows
  <2>1. terminal_row >= max_rows - 1
    BY <1>1 DEF TermInv, Cursor
  <2> QED
    BY <1>1, <2>1 DEF ScreenRow, ScreenRows, cursor
<1>4. TermTypeOK' /\ Lines'
  BY <1>1, <1>2, <1>3 DEF TermInv, TermTypeOK, Lines, ring, cursor, get_line
<1>5. Cursor'
  BY <1>1, <1>3 DEF TermInv, Cursor, ring, cursor
<1>6. ScreenShowsTail'
  <2>1. ASSUME offset = 0, NEW i \in 0 .. buffer_count - 1, NEW c \in Columns, i <= ScreenRow
        PROVE  CellShows(screen'[ScreenRow - i][c], get_line(buffer_count - 1 - i)[c])
    <3>1. ScreenRow - i \in ScreenRows /\ buffer_count - max_rows - offset + (ScreenRow - i) = buffer_count - 1 - i
      BY <1>1, <1>3, <2>1 DEF ScreenRows
    <3> QED
      BY <1>2, <3>1
  <2>2. \A r \in ScreenRows : ~(r > max_rows - 1)
    BY <1>1 DEF ScreenRows
  <2> QED
    BY <1>1, <1>3, <2>1, <2>2, SameScreen DEF ScreenShowsTail, ring, get_line
<1> QED
  BY <1>4, <1>5, <1>6 DEF TermInv

-----------------------------------------------------------------------------
(* The terminal as a whole *)

(* terminal_init establishes the invariant. *)
LEMMA TermInitial == terminal_init => TermInv
<1> SUFFICES ASSUME terminal_init PROVE TermInv
  OBVIOUS
<1>1. /\ max_rows \in Nat \ {0} /\ max_rows \in ScreenHeights
      /\ line_buffer = EmptyBuffer /\ buffer_start = 0
      /\ buffer_count = 1 /\ terminal_row = 0 /\ terminal_col = 0 /\ scroll_offset = 0
      /\ screen = fb_clear([r \in ScreenRows |-> [c \in Columns |-> Remains]])
  BY TerminalAssumption DEF terminal_init
<1>2. ScreenRow = 0 /\ 0 \in ScreenRows
  BY <1>1 DEF ScreenRows, ScreenRow
<1>3. Slot(0, 0) = 0 /\ 0 \in Slots /\ get_line(0) = EmptyLine
  BY <1>1, Constants, SlotIs DEF Slots, get_line, EmptyBuffer
<1>8. screen \in [ScreenRows -> Rows] /\ \A r \in ScreenRows : BlankRow(screen[r])
  <2>1. [r \in ScreenRows |-> [c \in Columns |-> Remains]] \in [ScreenRows -> Rows]
    BY DEF Rows
  <2> QED
    BY <1>1, <2>1, Clearing
<1>4. TermTypeOK
  BY <1>1, <1>2, <1>3, <1>8, Constants, Emptiness DEF TermTypeOK, EmptyBuffer, Slots, Columns
<1>5. Lines
  BY <1>1, <1>3, Emptiness, Constants DEF Lines
<1>6. Cursor
  BY <1>1, <1>2 DEF Cursor
<1>7. ScreenShowsTail
  BY <1>1, <1>2, <1>3, <1>8, Emptiness DEF ScreenShowsTail
<1> QED
  BY <1>4, <1>5, <1>6, <1>7 DEF TermInv

Scrolls == terminal_scroll_up \/ terminal_scroll_down \/ terminal_scroll_to_bottom

(* The keys that scroll preserve the invariant. *)
LEMMA ScrollsKept ==
    ASSUME TermInv, Scrolls
    PROVE  TermInv'
<1>1. /\ max_rows \in Nat \ {0} /\ buffer_count \in Nat /\ scroll_offset \in Nat
      /\ scroll_offset > 0 => scroll_offset + max_rows <= buffer_count
  BY Constants DEF TermInv, TermTypeOK, ScreenShowsTail
<1>2. CASE terminal_scroll_up
  <2>1. /\ scroll_offset + 1 \in Nat /\ buffer_count > max_rows
        /\ (scroll_offset + 1) + max_rows <= buffer_count
    BY <1>1, <1>2 DEF terminal_scroll_up
  <2> QED
    BY <1>2, <2>1, ScrollKept DEF terminal_scroll_up
<1>3. CASE terminal_scroll_down
  <2>1. /\ scroll_offset - 1 \in Nat /\ buffer_count > max_rows
        /\ (scroll_offset - 1) + max_rows <= buffer_count
    BY <1>1, <1>3 DEF terminal_scroll_down
  <2> QED
    BY <1>3, <2>1, ScrollKept DEF terminal_scroll_down
<1>4. CASE terminal_scroll_to_bottom
  <2>1. 0 \in Nat /\ buffer_count > max_rows /\ 0 + max_rows <= buffer_count
    BY <1>1, <1>4 DEF terminal_scroll_to_bottom
  <2> QED
    BY <1>4, <2>1, ScrollKept DEF terminal_scroll_to_bottom
<1> QED
  BY <1>2, <1>3, <1>4 DEF Scrolls

(* So does everything the kernel does to the terminal. *)
LEMMA TerminalKept ==
    ASSUME TermInv,
           \/ Newline \/ terminal_backspace \/ terminal_clear \/ Scrolls
           \/ UNCHANGED terminal
           \/ \E c \in Chars : PutChar(c)
    PROVE  TermInv'
<1>1. CASE Newline
  BY <1>1, NewlineIs, EndLineKept
<1>2. CASE terminal_backspace
  BY <1>2, BackspaceKept
<1>3. CASE terminal_clear
  BY <1>3, ClearKept
<1>4. CASE Scrolls
  BY <1>4, ScrollsKept
<1>5. CASE UNCHANGED terminal
  BY <1>5, SameScreen DEF terminal, ring, cursor, TermInv, TermTypeOK, Lines, Cursor, ScreenShowsTail,
              ScreenRow, ScreenRows, get_line
<1>6. ASSUME NEW c \in Chars, PutChar(c) PROVE TermInv'
  BY <1>6, PutCharKept
<1> QED
  BY <1>1, <1>2, <1>3, <1>4, <1>5, <1>6

-----------------------------------------------------------------------------
(* What the ring remembers *)

(* What Scrollback calls lines. *)
Remembered == [i \in 1 .. buffer_count |-> TextOf(get_line(i - 1))]

(* The text of a line. *)
LEMMA TextIs ==
    ASSUME NEW line \in [Columns -> Cell], NEW n \in 0 .. max_cols, Holds(line, n)
    PROVE  /\ TextOf(line) \in Seq(Chars) /\ Len(TextOf(line)) = n
           /\ \A i \in 1 .. n : TextOf(line)[i] = line[i - 1]
<1> DEFINE text == {c \in Columns : \A k \in 0 .. c : line[k] # NUL}
<1>1. max_cols \in Nat /\ n \in Nat /\ n <= max_cols
  BY Constants
<1>2. \A c \in Columns : c \in Nat /\ \A k \in 0 .. c : k \in Columns /\ k <= c
  BY <1>1 DEF Columns
<1>3. ASSUME NEW c \in Columns PROVE (\A k \in 0 .. c : line[k] # NUL) <=> c < n
  <2>1. c \in 0 .. c
    BY <1>2
  <2> QED
    BY <1>1, <1>2, <2>1 DEF Holds
<1>4. text = 0 .. n - 1
  <2>1. \A c \in 0 .. n - 1 : c \in Columns /\ c < n
    BY <1>1 DEF Columns
  <2>2. \A c \in Columns : c < n => c \in 0 .. n - 1
    BY <1>1, <1>2
  <2> QED
    BY <1>3, <2>1, <2>2
<1>5. Cardinality(0 .. n - 1) = n
  <2>1. 0 \in Int /\ n - 1 \in Int /\ (IF 0 > n - 1 THEN 0 ELSE (n - 1) - 0 + 1) = n
    BY <1>1
  <2> QED
    BY <2>1, FS_Interval
<1>6. TextOf(line) = [c \in 1 .. n |-> line[c - 1]]
  BY <1>4, <1>5 DEF TextOf
<1>7. ASSUME NEW i \in 1 .. n PROVE line[i - 1] \in Chars
  <2>1. i - 1 \in Columns /\ ~(i - 1 >= n)
    BY <1>1 DEF Columns
  <2> QED
    BY <2>1 DEF Holds, Cell
<1>8. TextOf(line) \in [1 .. n -> Chars]
  BY <1>6, <1>7
<1> QED
  BY <1>1, <1>6, <1>8, FunctionIsSeq

(* The text of each line of the ring; the last is up to the cursor. *)
LEMMA RememberedIs ==
    ASSUME TermInv
    PROVE  /\ Remembered \in Seq(Seq(Chars)) /\ Len(Remembered) = buffer_count
           /\ buffer_count \in 1 .. SCROLLBACK_LINES /\ buffer_count \in Nat \ {0}
           /\ \A i \in 1 .. buffer_count : Remembered[i] = TextOf(get_line(i - 1))
           /\ Remembered[buffer_count] = TextOf(line_buffer[Current])
           /\ Len(TextOf(line_buffer[Current])) = terminal_col
<1>1. buffer_count \in 1 .. SCROLLBACK_LINES /\ SCROLLBACK_LINES \in Nat
  BY Constants DEF TermInv, TermTypeOK
<1>2. ASSUME NEW i \in 1 .. buffer_count PROVE TextOf(get_line(i - 1)) \in Seq(Chars)
  <2>1. i - 1 \in 0 .. buffer_count - 1 /\ i - 1 \in 0 .. SCROLLBACK_LINES
    BY <1>1
  <2>2. get_line(i - 1) \in [Columns -> Cell]
    BY <2>1, SlotIs DEF get_line, TermInv, TermTypeOK
  <2> QED
    BY <2>1, <2>2, TextIs DEF TermInv, Lines
<1>3. Remembered \in [1 .. buffer_count -> Seq(Chars)]
  BY <1>2 DEF Remembered
<1>4. Remembered \in Seq(Seq(Chars)) /\ Len(Remembered) = buffer_count
  BY <1>1, <1>3, FunctionIsSeq
<1>5. \A i \in 1 .. buffer_count : Remembered[i] = TextOf(get_line(i - 1))
  BY DEF Remembered
<1>6. Remembered[buffer_count] = TextOf(line_buffer[Current])
  BY <1>1, <1>5, CurrentLine
<1>7. Len(TextOf(line_buffer[Current])) = terminal_col
  BY CurrentLine, TextIs
<1>8. buffer_count \in 1 .. SCROLLBACK_LINES /\ buffer_count \in Nat \ {0}
  BY <1>1
<1> QED
  BY <1>4, <1>5, <1>6, <1>7, <1>8

(* The same of the next state. *)
LEMMA RememberedNext ==
    TermInv => /\ Remembered \in Seq(Seq(Chars)) /\ Len(Remembered) = buffer_count
               /\ \A i \in 1 .. buffer_count : Remembered[i] = TextOf(get_line(i - 1))
  BY RememberedIs

(* The current line becomes l. *)
LEMMA RememberedEdit ==
    ASSUME TermInv, TermInv', NEW l, line_buffer' = [line_buffer EXCEPT ![Current] = l],
           UNCHANGED <<buffer_start, buffer_count>>
    PROVE  Remembered' = [Remembered EXCEPT ![buffer_count] = TextOf(l)]
<1>1. /\ buffer_count \in 1 .. SCROLLBACK_LINES /\ SCROLLBACK_LINES \in Nat /\ buffer_start \in Slots
      /\ Current \in Slots /\ line_buffer \in [Slots -> [Columns -> Cell]]
  BY Constants, CurrentLine DEF TermInv, TermTypeOK
<1>2. ASSUME NEW i \in 1 .. buffer_count
      PROVE  get_line(i - 1)' = IF i = buffer_count THEN l ELSE get_line(i - 1)
  <2>1. i - 1 \in 0 .. SCROLLBACK_LINES - 1 /\ buffer_count - 1 \in 0 .. SCROLLBACK_LINES - 1
        /\ i - 1 \in 0 .. SCROLLBACK_LINES /\ (i # buffer_count => i - 1 # buffer_count - 1)
    BY <1>1
  <2>2. Slot(buffer_start, i - 1) \in Slots
    BY <1>1, <2>1, SlotIs
  <2>3. i # buffer_count => Slot(buffer_start, i - 1) # Current
    BY <1>1, <2>1, SlotsDiffer DEF Current
  <2> QED
    BY <1>1, <2>2, <2>3 DEF get_line, Current
<1>3. Remembered' = [i \in 1 .. buffer_count |-> TextOf(get_line(i - 1)')]
  BY DEF Remembered, TextOf
<1>4. Remembered' = [i \in 1 .. buffer_count |->
                        IF i = buffer_count THEN TextOf(l) ELSE TextOf(get_line(i - 1))]
  BY <1>2, <1>3
<1> QED
  BY <1>4 DEF Remembered

(* The current line becomes l and another one begins. *)
LEMMA RememberedEnd ==
    ASSUME TermInv, TermInv', NEW l \in [Columns -> Cell], NEW drawn, EndLine(l, drawn),
           TextOf(l) \in Seq(Chars)
    PROVE  Remembered' =
               Abs!LastOf(SCROLLBACK_LINES,
                          [Remembered EXCEPT ![buffer_count] = TextOf(l)] \o <<<<>>>>)
<1> DEFINE s == [Remembered EXCEPT ![buffer_count] = TextOf(l)]
           t == Abs!LastOf(SCROLLBACK_LINES, s \o <<<<>>>>)
<1>1. /\ s \in Seq(Seq(Chars)) /\ Len(s) = buffer_count /\ s[buffer_count] = TextOf(l)
      /\ \A i \in 1 .. buffer_count - 1 : s[i] = TextOf(get_line(i - 1))
  <2>1. buffer_count \in 1 .. Len(Remembered)
    BY RememberedIs
  <2>2. /\ s \in Seq(Seq(Chars)) /\ Len(s) = Len(Remembered)
        /\ \A j \in 1 .. Len(Remembered) : s[j] = IF j = buffer_count THEN TextOf(l) ELSE Remembered[j]
    BY <2>1, RememberedIs, ExceptSeq
  <2>3. \A i \in 1 .. buffer_count - 1 : i \in 1 .. buffer_count /\ i # buffer_count
    BY RememberedIs
  <2> HIDE DEF s
  <2>4. \A i \in 1 .. buffer_count - 1 : s[i] = TextOf(get_line(i - 1))
    BY <2>2, <2>3, RememberedIs
  <2> QED
    BY <2>1, <2>2, <2>4, RememberedIs
<1> HIDE DEF s
<1>2. /\ SCROLLBACK_LINES \in Nat \ {0} /\ buffer_count \in 1 .. SCROLLBACK_LINES /\ <<>> \in Seq(Chars)
      /\ buffer_count \in Nat
  BY Constants, RememberedIs
<1>3. /\ t \in Seq(Seq(Chars))
      /\ Len(t) = IF buffer_count < SCROLLBACK_LINES THEN buffer_count + 1 ELSE SCROLLBACK_LINES
      /\ \A i \in 1 .. Len(t) :
            t[i] = IF i = Len(t) THEN <<>> ELSE s[i + (buffer_count + 1 - Len(t))]
  <2>1. Len(s) <= SCROLLBACK_LINES
    BY <1>1, <1>2
  <2>2. PICK D : D = Seq(Chars)
    OBVIOUS
  <2>3. s \in Seq(D) /\ <<>> \in D
    BY <1>1, <1>2, <2>2
  <2>4. PICK e \in D : e = <<>>
    BY <2>3
  <2>5. PICK w : w = <<e>>
    OBVIOUS
  <2>7. w \in Seq(D) /\ Len(w) = 1 /\ w[1] = e
    BY <2>5
  <2>8. t = Abs!LastOf(SCROLLBACK_LINES, s \o w)
    BY <2>4, <2>5
  <2> HIDE DEF t
  <2>6. /\ t \in Seq(D)
        /\ Len(t) = IF Len(s) < SCROLLBACK_LINES THEN Len(s) + 1 ELSE SCROLLBACK_LINES
        /\ \A i \in 1 .. Len(t) : t[i] = IF i = Len(t) THEN w[1] ELSE s[i + (Len(s) + 1 - Len(t))]
    BY <1>2, <2>1, <2>3, <2>7, <2>8, LastOfMore
  <2> QED
    BY <1>1, <2>2, <2>4, <2>6, <2>7
<1> HIDE DEF t
<1>4. PICK start \in Slots, count \in 1 .. SCROLLBACK_LINES :
         /\ start = buffer_start' /\ count = buffer_count'
         /\ count = buffer_count + 1 \/ (count = buffer_count /\ buffer_count = SCROLLBACK_LINES)
         /\ get_line(buffer_count - 1)' = EmptyLine
         /\ count > 1 => line_buffer'[Slot(start, count - 2)] = l
         /\ \A i \in 0 .. count - 3 :
                line_buffer'[Slot(start, i)] = get_line(i + (buffer_count + 1 - count))
  BY LinesAfter
<1>5. Len(t) = count
  BY <1>2, <1>3, <1>4
<1>6. /\ Remembered' \in Seq(Seq(Chars)) /\ Len(Remembered') = count
      /\ \A i \in 1 .. count : Remembered'[i] = TextOf(line_buffer'[Slot(start, i - 1)])
  <2>1. (TermInv => /\ Remembered \in Seq(Seq(Chars)) /\ Len(Remembered) = buffer_count
                    /\ \A i \in 1 .. buffer_count : Remembered[i] = TextOf(get_line(i - 1)))'
    BY RememberedNext, PTL
  <2> HIDE DEF Remembered
  <2>2. \A i \in 1 .. count : Remembered'[i] = TextOf(line_buffer[Slot(buffer_start, i - 1)])'
    BY <1>4, <2>1 DEF get_line
  <2>3. \A i \in 1 .. count : TextOf(line_buffer[Slot(buffer_start, i - 1)])' = TextOf(line_buffer'[Slot(start, i - 1)])
    BY <1>4 DEF TextOf
  <2> QED
    BY <1>4, <2>1, <2>2, <2>3
<1>7. ASSUME NEW i \in 1 .. count PROVE Remembered'[i] = t[i]
  <2>1. CASE i = count
    <3>1. line_buffer'[Slot(start, i - 1)] = EmptyLine
      BY <1>4, <2>1 DEF get_line
    <3>2. TextOf(EmptyLine) \in Seq(Chars) /\ Len(TextOf(EmptyLine)) = 0
      BY Emptiness, Constants, TextIs
    <3>3. TextOf(EmptyLine) = <<>>
      BY <3>2, EmptySeq
    <3> QED
      BY <1>3, <1>5, <1>6, <2>1, <3>1, <3>3
  <2>2. CASE i = count - 1
    <3>1. line_buffer'[Slot(start, i - 1)] = l
      <4>1. i - 1 = count - 2 /\ count > 1
        BY <2>2
      <4> QED
        BY <1>4, <4>1
    <3>2. i + (buffer_count + 1 - count) = buffer_count /\ i # count
      BY <1>2, <2>2
    <3>3. t[i] = s[buffer_count]
      BY <1>3, <1>5, <3>2
    <3> QED
      BY <1>1, <1>6, <3>1, <3>3
  <2>3. CASE i \in 1 .. count - 2
    <3>0. count = buffer_count + 1 \/ count = buffer_count
      BY <1>4
    <3> DEFINE j == i + (buffer_count + 1 - count)
    <3>1. /\ i - 1 \in 0 .. count - 3 /\ j \in 1 .. buffer_count - 1
          /\ (i - 1) + (buffer_count + 1 - count) = j - 1
      BY <1>2, <2>3, <3>0
    <3>2. line_buffer'[Slot(start, i - 1)] = get_line((i - 1) + (buffer_count + 1 - count))
      BY <1>4, <3>1
    <3>3. t[i] = s[j]
      <4>1. i \in 1 .. Len(t) /\ i # Len(t) /\ i + (buffer_count + 1 - Len(t)) = j
        BY <1>5, <2>3
      <4> QED
        BY <1>3, <4>1
    <3> HIDE DEF j
    <3> QED
      BY <1>1, <1>6, <3>1, <3>2, <3>3
  <2> QED
    BY <2>1, <2>2, <2>3
<1>8. Remembered' = t
  <2>1. PICK D : D = Seq(Chars)
    OBVIOUS
  <2>2. Remembered' \in Seq(D) /\ t \in Seq(D)
    BY <1>3, <1>6, <2>1
  <2> QED
    BY <1>5, <1>6, <1>7, <2>2, SeqEqual
<1> QED
  BY <1>8 DEF s, t

(* A step that changes the last line. *)
LEMMA Writes ==
    ASSUME TermInv, NEW text \in Seq(Chars),
           Remembered' = IF Len(text) = max_cols
                         THEN Abs!LastOf(SCROLLBACK_LINES,
                                         [Remembered EXCEPT ![buffer_count] = text] \o <<<<>>>>)
                         ELSE [Remembered EXCEPT ![buffer_count] = text]
    PROVE  Abs!Write(text)
<1>1. PICK D : D = Seq(Chars)
  OBVIOUS
<1>2. Remembered \in Seq(D) /\ Len(Remembered) > 0 /\ text \in D /\ Len(Remembered) = buffer_count
  BY <1>1, RememberedIs
<1>3. Front(Remembered) \o <<text>> = [Remembered EXCEPT ![buffer_count] = text]
  <2>1. PICK r : r = Remembered
    OBVIOUS
  <2>2. r \in Seq(D) /\ Len(r) > 0
    BY <1>2, <2>1
  <2>3. Front(r) \o <<text>> = [r EXCEPT ![Len(r)] = text]
    BY <1>2, <2>2, LastReplaced
  <2> QED
    BY <1>2, <2>1, <2>3
<1>4. Remembered' = IF Len(text) = max_cols
                    THEN Abs!LastOf(SCROLLBACK_LINES, (Front(Remembered) \o <<text>>) \o <<<<>>>>)
                    ELSE Front(Remembered) \o <<text>>
  BY <1>3
<1> QED
  BY <1>4 DEF Abs!Write, Abs!Front, Front, Remembered

(* A character is written. *)
LEMMA PutIsPut ==
    ASSUME TermInv, TermInv', NEW c \in Chars, PutChar(c)
    PROVE  Abs!Put(c)
<1> DEFINE text == Append(TextOf(line_buffer[Current]), c)
<1>1. text \in Seq(Chars) /\ Len(text) = terminal_col + 1
  BY CurrentLine, TextIs, AppendProperties
<1>2. TextOf(Typed(c)) = text
  <2>1. Typed(c) \in [Columns -> Cell] /\ terminal_col \in Nat
    BY TypedLine, CurrentLine DEF Shows
  <2>2. /\ TextOf(Typed(c)) \in Seq(Chars) /\ Len(TextOf(Typed(c))) = terminal_col + 1
        /\ \A i \in 1 .. terminal_col + 1 : TextOf(Typed(c))[i] = Typed(c)[i - 1]
    BY <2>1, TypedLine, TextIs
  <2>3. ASSUME NEW i \in 1 .. terminal_col + 1 PROVE TextOf(Typed(c))[i] = text[i]
    <3>1. /\ TextOf(line_buffer[Current]) \in Seq(Chars)
          /\ Len(TextOf(line_buffer[Current])) = terminal_col
          /\ \A j \in 1 .. terminal_col : TextOf(line_buffer[Current])[j] = line_buffer[Current][j - 1]
      BY CurrentLine, TextIs
    <3>2. /\ \A j \in 1 .. terminal_col : text[j] = TextOf(line_buffer[Current])[j]
          /\ text[terminal_col + 1] = c
      BY <3>1, AppendProperties
    <3>3. CASE i = terminal_col + 1
      <4>1. i - 1 = terminal_col
        BY <2>1, <3>3
      <4> QED
        BY <2>2, <3>2, <3>3, <4>1, CurrentLine DEF Typed
    <3>4. CASE i \in 1 .. terminal_col
      <4>1. i - 1 \in Columns /\ i - 1 # terminal_col
        BY <2>1, <3>4, CurrentLine, Constants DEF Columns
      <4>2. Typed(c)[i - 1] = line_buffer[Current][i - 1]
        BY <4>1, CurrentLine DEF Typed
      <4> QED
        BY <2>2, <3>1, <3>2, <3>4, <4>2
    <3>5. i = terminal_col + 1 \/ i \in 1 .. terminal_col
      BY <2>1
    <3> QED
      BY <3>3, <3>4, <3>5
  <2> HIDE DEF text
  <2> QED
    BY <1>1, <2>2, <2>3, SeqEqual
<1>3. Remembered[buffer_count] = TextOf(line_buffer[Current])
  BY RememberedIs
<1> HIDE DEF text
<1>4. ASSUME terminal_col + 1 = max_cols PROVE Abs!Write(text)
  <2>1. EndLine(Typed(c), Draw(terminal_col, c)) /\ Typed(c) \in [Columns -> Cell]
    <3>1. ~(terminal_col + 1 < max_cols)
      BY <1>4, CurrentLine, Constants
    <3> QED
      BY <3>1, PutCharIs, TypedLine DEF Shows
  <2>2. Remembered' = Abs!LastOf(SCROLLBACK_LINES,
                                 [Remembered EXCEPT ![buffer_count] = text] \o <<<<>>>>)
    BY <1>1, <1>2, <2>1, RememberedEnd
  <2> QED
    BY <1>1, <1>4, <2>2, Writes
<1>5. ASSUME terminal_col + 1 # max_cols PROVE Abs!Write(text)
  <2>1. /\ line_buffer' = [line_buffer EXCEPT ![Current] = Typed(c)]
        /\ UNCHANGED <<buffer_start, buffer_count>>
    BY <1>5, PutCharIs
  <2>2. Remembered' = [Remembered EXCEPT ![buffer_count] = text]
    BY <1>2, <2>1, RememberedEdit
  <2> QED
    BY <1>1, <1>5, <2>2, Writes
<1>6. Abs!Write(text)
  BY <1>4, <1>5
<1>7. Abs!Last(Remembered) = TextOf(line_buffer[Current])
  BY <1>3, RememberedIs DEF Abs!Last
<1> QED
  BY <1>6, <1>7 DEF Abs!Put, Remembered, text

(* A character is erased. *)
LEMMA BackspaceIsBackspace ==
    ASSUME TermInv, TermInv', terminal_backspace
    PROVE  Abs!Backspace
<1> DEFINE text == TextOf(Erased)
           old == TextOf(line_buffer[Current])
<1>1. /\ old \in Seq(Chars) /\ Len(old) = terminal_col /\ terminal_col > 0 /\ terminal_col \in Nat
      /\ \A j \in 1 .. terminal_col : old[j] = line_buffer[Current][j - 1]
  BY CurrentLine, TextIs DEF terminal_backspace
<1>2. /\ text \in Seq(Chars) /\ Len(text) = terminal_col - 1
      /\ \A i \in 1 .. terminal_col - 1 : text[i] = Erased[i - 1]
  <2>1. terminal_col - 1 \in 0 .. max_cols
    BY <1>1, CurrentLine, Constants
  <2> QED
    BY <1>1, <2>1, ErasedLine, TextIs DEF Shows
<1> HIDE DEF text, old
<1>3. text = Front(old)
  <2>1. \A i \in 1 .. terminal_col - 1 : old[i] \in Chars
    BY <1>1, ElementOfSeq
  <2>2. 1 \in Int /\ terminal_col - 1 \in Int
    BY <1>1
  <2>3. /\ SubSeq(old, 1, terminal_col - 1) \in Seq(Chars)
        /\ Len(SubSeq(old, 1, terminal_col - 1)) =
               IF 1 <= terminal_col - 1 THEN (terminal_col - 1) - 1 + 1 ELSE 0
        /\ \A i \in 1 .. (terminal_col - 1) - 1 + 1 : SubSeq(old, 1, terminal_col - 1)[i] = old[1 + i - 1]
    BY <2>1, <2>2, SubSeqProperties
  <2>4. /\ (terminal_col - 1) - 1 + 1 = terminal_col - 1
        /\ (IF 1 <= terminal_col - 1 THEN (terminal_col - 1) - 1 + 1 ELSE 0) = terminal_col - 1
        /\ \A i \in 1 .. terminal_col - 1 : 1 + i - 1 = i
    BY <1>1
  <2>5. Front(old) = SubSeq(old, 1, terminal_col - 1)
    BY <1>1 DEF Front
  <2>6. ASSUME NEW i \in 1 .. terminal_col - 1 PROVE text[i] = Front(old)[i]
    <3>1. i - 1 \in Columns /\ i - 1 # terminal_col - 1 /\ i \in 1 .. terminal_col
      BY <1>1, CurrentLine, Constants DEF Columns
    <3>2. Erased[i - 1] = line_buffer[Current][i - 1]
      BY <3>1, CurrentLine DEF Erased
    <3> QED
      BY <1>1, <1>2, <2>3, <2>4, <2>5, <3>1, <3>2
  <2> QED
    BY <1>2, <2>3, <2>4, <2>5, <2>6, SeqEqual
<1>4. Remembered' = [Remembered EXCEPT ![buffer_count] = text]
  BY <1>1, ErasedLine, RememberedEdit DEF terminal_backspace, text
<1>5. Len(text) # max_cols
  BY <1>1, <1>2, CurrentLine, Constants DEF Columns
<1>6. Abs!Write(text)
  BY <1>2, <1>4, <1>5, Writes
<1>7. Abs!Last(Remembered) = old
  BY RememberedIs DEF Abs!Last, old
<1>8. old # <<>>
  BY <1>1
<1>9. Abs!Front(old) = text
  BY <1>3 DEF Abs!Front, Front
<1> QED
  BY <1>6, <1>7, <1>8, <1>9 DEF Abs!Backspace, Remembered

(* A new line begins. *)
LEMMA NewlineIsNewline ==
    ASSUME TermInv, TermInv', Newline
    PROVE  Abs!Newline
<1>1. TextOf(line_buffer[Current]) \in Seq(Chars)
  BY CurrentLine, TextIs
<1>2. [Remembered EXCEPT ![buffer_count] = TextOf(line_buffer[Current])] = Remembered
  <2>1. Remembered[buffer_count] = TextOf(line_buffer[Current])
    BY RememberedIs
  <2> QED
    BY <2>1 DEF Remembered
<1>3. Remembered' = Abs!LastOf(SCROLLBACK_LINES, Remembered \o <<<<>>>>)
  BY <1>1, <1>2, NewlineIs, CurrentLine, RememberedEnd
<1> QED
  BY <1>3 DEF Abs!Newline, Remembered

(* One empty line is remembered. *)
LEMMA RememberedNothing ==
    TermInv /\ buffer_count = 1 /\ get_line(0) = EmptyLine => Remembered = <<<<>>>>
<1> SUFFICES ASSUME TermInv, buffer_count = 1, get_line(0) = EmptyLine
             PROVE  Remembered = <<<<>>>>
  OBVIOUS
<1>1. TextOf(EmptyLine) \in Seq(Chars) /\ Len(TextOf(EmptyLine)) = 0
  BY Emptiness, Constants, TextIs
<1>2. TextOf(EmptyLine) = <<>>
  BY <1>1, EmptySeq
<1>3. Remembered[1] = <<>> /\ Remembered \in Seq(Seq(Chars)) /\ Len(Remembered) = 1
  BY <1>2, RememberedIs
<1> QED
  BY <1>3

(* Clearing the terminal forgets every line but an empty one. *)
LEMMA ClearIsClear ==
    ASSUME TermInv, TermInv', terminal_clear
    PROVE  Abs!Clear
<1>1. buffer_count' = 1 /\ line_buffer' = EmptyBuffer /\ buffer_start' = 0
  BY DEF terminal_clear
<1>2. Slot(0, 0) = 0 /\ 0 \in Slots
  BY Constants, SlotIs DEF Slots
<1>3. get_line(0)' = EmptyLine
  BY <1>1, <1>2, Constants DEF get_line, EmptyBuffer, Slots
<1>4. (TermInv /\ buffer_count = 1 /\ get_line(0) = EmptyLine => Remembered = <<<<>>>>)'
  BY RememberedNothing, PTL
<1>5. EmptyLine' = EmptyLine
  BY DEF EmptyLine
<1>6. Remembered' = <<<<>>>>
  BY <1>1, <1>3, <1>4, <1>5
<1> QED
  BY <1>6 DEF Abs!Clear, Remembered

(* Whatever the terminal does, the ring remembers what it should. *)
LEMMA TerminalRemembers ==
    ASSUME TermInv, TermInv',
           \/ Newline \/ terminal_backspace \/ terminal_clear \/ Scrolls
           \/ UNCHANGED terminal
           \/ \E c \in Chars : PutChar(c)
    PROVE  Abs!Next \/ UNCHANGED Remembered
<1>1. CASE Newline \/ terminal_backspace \/ terminal_clear
  BY <1>1, NewlineIsNewline, BackspaceIsBackspace, ClearIsClear DEF Abs!Next
<1>2. CASE Scrolls \/ UNCHANGED terminal
  <2>1. UNCHANGED ring
    BY <1>2 DEF Scrolls, terminal_scroll_up, terminal_scroll_down, terminal_scroll_to_bottom,
                ScrollTo, terminal, ring
  <2> QED
    BY <2>1 DEF ring, Remembered, get_line, TextOf
<1>3. ASSUME NEW c \in Chars, PutChar(c) PROVE Abs!Next
  <2>1. Abs!Put(c)
    BY <1>3, PutIsPut
  <2> QED
    BY <2>1 DEF Abs!Next
<1> QED
  BY <1>1, <1>2, <1>3

-----------------------------------------------------------------------------
(* What the shell prints *)

(* What leaves the cursor at the beginning of a line, and all output. *)
Ends == {"\n", "clear"}
Out == Chars \cup Ends

(* What is assumed of keys, prompt and buffers. *)
LEMMA ShellConstants ==
    /\ Space \in Keys /\ Keys \subseteq Chars /\ Mark \in Chars /\ Ends \cap Chars = {}
    /\ Prompt \in Seq(Chars) /\ Len(Prompt) < max_cols /\ Len(Prompt) \in Nat
    /\ SHELL_BUFFER_SIZE \in Nat \ {0} /\ HISTORY_SIZE \in Nat \ {0}
<1>1. Keys \cup {Mark} \subseteq Chars /\ Prompt \in Seq(Chars)
  BY ShellAssumption
<1>2. Len(Prompt) \in Nat
  BY <1>1, LenProperties
<1> QED
  BY <1>1, <1>2, ShellAssumption DEF Ends

(* A part of a line. *)
LEMMA Part ==
    ASSUME NEW S, NEW s \in Seq(S), NEW i \in Nat \ {0}, NEW j \in Nat, j <= Len(s)
    PROVE  SubSeq(s, i, j) \in Seq(S)
<1>1. \A k \in i .. j : k \in 1 .. Len(s)
  BY LenProperties
<1>2. \A k \in i .. j : s[k] \in S
  BY <1>1, ElementOfSeq
<1> QED
  BY <1>2, SubSeqProperties

(* A line without its leading blanks is a line. *)
LEMMA SkipBlanksType ==
    ASSUME NEW cmd \in Seq(Keys)
    PROVE  SkipBlanks(cmd) \in Seq(Keys)
<1> DEFINE S == {p \in 1 .. Len(cmd) : cmd[p] # Space} \cup {Len(cmd) + 1}
<1>1. Len(cmd) \in Nat
  BY LenProperties
<1>2. S \in SUBSET Nat /\ S # {} /\ \A p \in S : p \in Nat \ {0}
  BY <1>1
<1>3. SkipBlanks(cmd) = SubSeq(cmd, Min(S), Len(cmd))
  BY DEF SkipBlanks
<1> HIDE DEF S
<1>4. Min(S) \in Nat \ {0}
  BY <1>2, Least
<1> QED
  BY <1>1, <1>3, <1>4, Part

(* A word of a line is made of keys. *)
LEMMA StringAtType ==
    ASSUME NEW cmd \in Seq(Keys), NEW nuls \in SUBSET (1 .. Len(cmd)), NEW p \in 1 .. Len(cmd)
    PROVE  StringAt(cmd, nuls, p) \in Seq(Keys)
<1> DEFINE S == {n \in nuls \cup {Len(cmd) + 1} : n >= p}
<1>1. Len(cmd) \in Nat
  BY LenProperties
<1>2. S \in SUBSET Nat /\ Len(cmd) + 1 \in S /\ \A n \in S : n \in Nat \ {0}
  <2>1. \A n \in nuls \cup {Len(cmd) + 1} : n \in Nat \ {0}
    BY <1>1
  <2>2. Len(cmd) + 1 >= p
    BY <1>1
  <2> QED
    BY <2>1, <2>2
<1>3. StringAt(cmd, nuls, p) = SubSeq(cmd, p, Min(S) - 1)
  BY DEF StringAt
<1> HIDE DEF S
<1>4. Min(S) \in S /\ Min(S) <= Len(cmd) + 1
  BY <1>2, Least
<1>5. Min(S) - 1 \in Nat /\ Min(S) - 1 <= Len(cmd)
  <2>1. PICK m \in Nat \ {0} : m = Min(S)
    BY <1>2, <1>4
  <2> QED
    BY <1>1, <1>4, <2>1
<1> QED
  BY <1>1, <1>3, <1>5, Part

(* What parse_command has of a line of n characters. *)
Parsed(n) == [starts : Seq(1 .. n), nuls : SUBSET (1 .. n), in_word : BOOLEAN]

(* A step of parse_command marks positions of the line. *)
LEMMA ParseCharType ==
    ASSUME NEW n \in Nat, NEW parsed \in Parsed(n), NEW p \in 1 .. n, NEW c
    PROVE  ParseChar(parsed, p, c) \in Parsed(n)
<1>1. Append(parsed.starts, p) \in Seq(1 .. n)
  BY AppendProperties DEF Parsed
<1>2. parsed.nuls \cup {p} \in SUBSET (1 .. n)
  BY DEF Parsed
<1> QED
  BY <1>1, <1>2 DEF ParseChar, Parsed

(* The steps of parse_command. *)
LEMMA ParseSteps ==
    ASSUME NEW cmd \in Seq(Keys)
    PROVE  \E parsed :
              /\ parse_command(cmd) = parsed[Len(cmd)] /\ parsed[0] = NoWordYet
              /\ \A p \in 1 .. Len(cmd) : parsed[p] = ParseChar(parsed[p - 1], p, cmd[p])
              /\ \A p \in 0 .. Len(cmd) : parsed[p] \in Parsed(Len(cmd))
<1> DEFINE n == Len(cmd)
           F == [x \in Parsed(n) \X (1 .. n) |-> ParseChar(x[1], x[2], cmd[x[2]])]
           Is(f) == f = [p \in 0 .. n |-> IF p = 0 THEN NoWordYet
                                          ELSE ParseChar(f[p - 1], p, cmd[p])]
           P(f) == {k \in 0 .. n : f[k] \in Parsed(n)}
<1>1. n \in Nat
  BY LenProperties
<1>2. NoWordYet \in Parsed(n)
  BY EmptySeq DEF NoWordYet, Parsed
<1>3. F \in [Parsed(n) \X (1 .. n) -> Parsed(n)]
  BY <1>1, ParseCharType
<1>4. \A a \in Parsed(n), p \in 1 .. n : F[<<a, p>>] = ParseChar(a, p, cmd[p])
  OBVIOUS
<1> HIDE DEF F, n
<1>5. \E f : Is(f)
  <2>1. PICK g \in [0 .. n -> Parsed(n)] :
           g[0] = NoWordYet /\ \A p \in 1 .. n : g[p] = F[<<g[p - 1], p>>]
    <3>1. \E g : Follows(g, n, Parsed(n), NoWordYet, F)
      BY <1>1, <1>2, <1>3, Recursion
    <3> QED
      BY <3>1 DEF Follows
  <2>2. ASSUME NEW p \in 0 .. n
        PROVE  g[p] = IF p = 0 THEN NoWordYet ELSE ParseChar(g[p - 1], p, cmd[p])
    <3>1. CASE p = 0
      BY <2>1, <3>1
    <3>2. CASE p # 0
      <4>1. p \in 1 .. n /\ p - 1 \in 0 .. n
        BY <1>1, <3>2
      <4> QED
        BY <1>4, <2>1, <3>2, <4>1
    <3> QED
      BY <3>1, <3>2
  <2>3. Is(g)
    BY <2>2
  <2> QED
    BY <2>3
<1> DEFINE parsed == CHOOSE f : Is(f)
<1>6. parse_command(cmd) = parsed[n]
  BY DEF parse_command, n
<1>7. Is(parsed)
  BY <1>5
<1> HIDE DEF parsed
<1>8. parsed[0] = NoWordYet /\ \A p \in 1 .. n : parsed[p] = ParseChar(parsed[p - 1], p, cmd[p])
  <2>1. 0 \in 0 .. n /\ \A p \in 1 .. n : p \in 0 .. n /\ p # 0
    BY <1>1
  <2> QED
    BY <1>7, <2>1
<1>9. 0 \in P(parsed)
  BY <1>1, <1>2, <1>8
<1>10. ASSUME NEW p \in 1 .. n, p - 1 \in P(parsed) PROVE p \in P(parsed)
  BY <1>1, <1>8, <1>10, ParseCharType
<1>11. \A p \in 0 .. n : parsed[p] \in Parsed(n)
  <2> DEFINE Q == P(parsed)
  <2>1. 0 \in Q /\ \A p \in 1 .. n : p - 1 \in Q => p \in Q
    BY <1>9, <1>10
  <2>2. \A p \in Q : parsed[p] \in Parsed(n)
    OBVIOUS
  <2> HIDE DEF Q
  <2>3. \A p \in 0 .. n : p \in Q
    BY <1>1, <2>1, Upward
  <2> QED
    BY <2>2, <2>3
<1> QED
  BY <1>6, <1>8, <1>11 DEF n

(* parse_command marks positions of the line it is given. *)
LEMMA ParseType ==
    ASSUME NEW cmd \in Seq(Keys)
    PROVE  parse_command(cmd) \in Parsed(Len(cmd))
<1>1. Len(cmd) \in 0 .. Len(cmd)
  BY LenProperties
<1> QED
  BY <1>1, ParseSteps

(* Strings one after the other. *)
LEMMA Concat3 ==
    ASSUME NEW S, NEW a \in Seq(S), NEW b \in Seq(S), NEW c \in Seq(S)
    PROVE  a \o b \o c \in Seq(S)
<1>1. a \o b \in Seq(S)
  BY ConcatProperties
<1> QED
  BY <1>1, ConcatProperties

(* echo joins its arguments to characters. *)
LEMMA JoinedType ==
    ASSUME NEW args, NEW n \in Nat, Len(args) = n, \A k \in 1 .. n : args[k] \in Seq(Chars)
    PROVE  Joined(args) \in Seq(Chars)
<1> DEFINE Step(x, k) == IF k < 2 THEN <<>>
                         ELSE x \o args[k] \o IF k < n THEN <<Space>> ELSE <<>>
           F == [x \in Seq(Chars) \X (1 .. n) |-> Step(x[1], x[2])]
           Is(f) == f = [k \in 0 .. n |->
                            IF k < 2 THEN <<>>
                            ELSE f[k - 1] \o args[k] \o IF k < n THEN <<Space>> ELSE <<>>]
           Q(f) == {k \in 0 .. n : f[k] \in Seq(Chars)}
<1>2. <<>> \in Seq(Chars) /\ <<Space>> \in Seq(Chars)
  BY EmptySeq, Constants
<1>3. ASSUME NEW x \in Seq(Chars), NEW k \in 1 .. n PROVE Step(x, k) \in Seq(Chars)
  <2>1. (IF k < n THEN <<Space>> ELSE <<>>) \in Seq(Chars)
    BY <1>2
  <2>2. x \o args[k] \o (IF k < n THEN <<Space>> ELSE <<>>) \in Seq(Chars)
    BY <2>1, Concat3
  <2> QED
    BY <1>2, <2>2
<1>4. F \in [Seq(Chars) \X (1 .. n) -> Seq(Chars)]
  BY <1>3
<1>5. \A a \in Seq(Chars), k \in 1 .. n : F[<<a, k>>] = Step(a, k)
  OBVIOUS
<1> HIDE DEF F
<1>6. \E f : Is(f)
  <2>1. PICK g : Follows(g, n, Seq(Chars), <<>>, F)
    BY <1>2, <1>4, Recursion
  <2>2. g \in [0 .. n -> Seq(Chars)] /\ g[0] = <<>> /\ \A k \in 1 .. n : g[k] = F[<<g[k - 1], k>>]
    BY <2>1 DEF Follows
  <2>3. ASSUME NEW k \in 0 .. n PROVE g[k] = Step(g[k - 1], k)
    <3>1. CASE k = 0
      BY <2>2, <3>1
    <3>2. CASE k # 0
      <4>1. k \in 1 .. n /\ k - 1 \in 0 .. n
        BY <3>2
      <4> HIDE DEF Step
      <4> QED
        BY <1>5, <2>2, <4>1
    <3> QED
      BY <3>1, <3>2
  <2>4. Is(g)
    BY <2>2, <2>3
  <2> HIDE DEF Is
  <2> QED
    BY <2>4
<1> DEFINE text == CHOOSE f : Is(f)
<1>7. Joined(args) = text[n]
  BY DEF Joined
<1>8. Is(text)
  BY <1>6
<1> HIDE DEF text
<1>9. \A k \in 0 .. n : text[k] = Step(text[k - 1], k)
  BY <1>8
<1> DEFINE P == Q(text)
<1>10. 0 \in P
  <2>1. 0 \in 0 .. n
    OBVIOUS
  <2>2. text[0] = <<>>
    BY <1>9, <2>1
  <2> QED
    BY <1>2, <2>1, <2>2
<1>11. ASSUME NEW k \in 1 .. n, k - 1 \in P PROVE k \in P
  <2>1. k \in 0 .. n /\ text[k] = Step(text[k - 1], k)
    BY <1>9
  <2> HIDE DEF Step
  <2> QED
    BY <1>3, <1>11, <2>1
<1>12. n \in P
  <2>1. n \in 0 .. n
    OBVIOUS
  <2> HIDE DEF P
  <2> QED
    BY <1>10, <1>11, <2>1, Upward
<1> QED
  BY <1>7, <1>12

(* Text that ends with a newline or clears the screen. *)
Ended == {s \in Seq(Out) : s # <<>> /\ s[Len(s)] \in Ends}

(* Text that is given an end has one. *)
LEMMA EndedMore ==
    ASSUME NEW s \in Seq(Out), NEW c \in Ends
    PROVE  s \o <<c>> \in Ended
<1>1. <<c>> \in Seq(Out) /\ Len(<<c>>) = 1 /\ <<c>>[1] = c
  BY DEF Out
<1>2. PICK w : w = <<c>>
  OBVIOUS
<1>3. w \in Seq(Out) /\ Len(w) = 1 /\ w[1] = c
  BY <1>1, <1>2
<1>4. /\ s \o w \in Seq(Out) /\ Len(s \o w) = Len(s) + 1 /\ Len(s) \in Nat
      /\ \A i \in 1 .. Len(s) + 1 : (s \o w)[i] = IF i <= Len(s) THEN s[i] ELSE w[i - Len(s)]
  <2>1. /\ s \o w \in Seq(Out) /\ Len(s \o w) = Len(s) + Len(w)
        /\ \A i \in 1 .. Len(s) + Len(w) : (s \o w)[i] = IF i <= Len(s) THEN s[i] ELSE w[i - Len(s)]
    BY <1>3, ConcatProperties
  <2>2. Len(s) \in Nat
    BY LenProperties
  <2> QED
    BY <1>3, <2>1, <2>2
<1>5. Len(s) + 1 \in 1 .. Len(s) + 1 /\ ~(Len(s) + 1 <= Len(s)) /\ (Len(s) + 1) - Len(s) = 1
  BY <1>4
<1>6. (s \o w)[Len(s) + 1] = c
  BY <1>3, <1>4, <1>5
<1>7. s \o w # <<>>
  BY <1>4
<1>8. s \o w \in Ended
  BY <1>4, <1>6, <1>7 DEF Ended
<1> QED
  BY <1>2, <1>8

(* The history command ends each line it prints. *)
LEMMA ListingType ==
    ASSUME NEW lines, NEW n \in Nat, Len(lines) = n, \A k \in 1 .. n : lines[k] \in Seq(Chars)
    PROVE  Listing(lines) \in Ended
<1> DEFINE Step(x, k) == IF k = 0 THEN <<Mark, "\n">> ELSE x \o lines[k] \o <<"\n">>
           F == [x \in Ended \X (1 .. n) |-> Step(x[1], x[2])]
           Is(f) == f = [k \in 0 .. n |->
                            IF k = 0 THEN <<Mark, "\n">> ELSE f[k - 1] \o lines[k] \o <<"\n">>]
           Q(f) == {k \in 0 .. n : f[k] \in Ended}
<1>2. <<Mark, "\n">> \in Ended
  <2>1. <<Mark, "\n">> \in Seq(Out) /\ Len(<<Mark, "\n">>) = 2 /\ <<Mark, "\n">>[2] = "\n"
    BY ShellConstants DEF Out, Ends
  <2> QED
    BY <2>1 DEF Ended, Ends
<1>3. ASSUME NEW x \in Ended, NEW k \in 1 .. n PROVE Step(x, k) \in Ended
  <2>1. x \in Seq(Out) /\ lines[k] \in Seq(Out) /\ "\n" \in Ends
    BY SeqMonotonic DEF Ended, Out, Ends
  <2>2. x \o lines[k] \in Seq(Out)
    BY <2>1, ConcatProperties
  <2>3. x \o lines[k] \o <<"\n">> \in Ended
    BY <2>1, <2>2, EndedMore
  <2> QED
    BY <2>3
<1>4. F \in [Ended \X (1 .. n) -> Ended]
  BY <1>3
<1>5. \A a \in Ended, k \in 1 .. n : F[<<a, k>>] = Step(a, k)
  OBVIOUS
<1> HIDE DEF F
<1>6. \E f : Is(f)
  <2>1. PICK g : Follows(g, n, Ended, <<Mark, "\n">>, F)
    BY <1>2, <1>4, Recursion
  <2>2. /\ g \in [0 .. n -> Ended] /\ g[0] = <<Mark, "\n">>
        /\ \A k \in 1 .. n : g[k] = F[<<g[k - 1], k>>]
    BY <2>1 DEF Follows
  <2>3. ASSUME NEW k \in 0 .. n PROVE g[k] = Step(g[k - 1], k)
    <3>1. CASE k = 0
      BY <2>2, <3>1
    <3>2. CASE k # 0
      <4>1. k \in 1 .. n /\ k - 1 \in 0 .. n
        BY <3>2
      <4> HIDE DEF Step
      <4> QED
        BY <1>5, <2>2, <4>1
    <3> QED
      BY <3>1, <3>2
  <2>4. Is(g)
    BY <2>2, <2>3
  <2> HIDE DEF Is
  <2> QED
    BY <2>4
<1> DEFINE text == CHOOSE f : Is(f)
<1>7. Listing(lines) = text[n]
  BY DEF Listing
<1>8. Is(text)
  BY <1>6
<1> HIDE DEF text
<1>9. \A k \in 0 .. n : text[k] = Step(text[k - 1], k)
  BY <1>8
<1> DEFINE P == Q(text)
<1>10. 0 \in P
  BY <1>2, <1>9
<1>11. ASSUME NEW k \in 1 .. n, k - 1 \in P PROVE k \in P
  <2>1. k \in 0 .. n /\ text[k] = Step(text[k - 1], k)
    BY <1>9
  <2> HIDE DEF Step
  <2> QED
    BY <1>3, <1>11, <2>1
<1>12. n \in P
  <2>1. n \in 0 .. n
    OBVIOUS
  <2> HIDE DEF P
  <2> QED
    BY <1>10, <1>11, <2>1, Upward
<1> QED
  BY <1>7, <1>12

(* Whatever comes before it, text that ends so ends so. *)
LEMMA EndedAfter ==
    ASSUME NEW s \in Seq(Out), NEW t \in Ended
    PROVE  s \o t \in Ended
<1>1. t \in Seq(Out) /\ t # <<>> /\ t[Len(t)] \in Ends
  BY DEF Ended
<1>2. /\ s \o t \in Seq(Out) /\ Len(s \o t) = Len(s) + Len(t)
      /\ \A i \in 1 .. Len(s) + Len(t) : (s \o t)[i] = IF i <= Len(s) THEN s[i] ELSE t[i - Len(s)]
  BY <1>1, ConcatProperties
<1>3. Len(s) \in Nat /\ Len(t) \in Nat \ {0}
  BY <1>1, LenProperties, EmptySeq
<1>4. \A i, j \in Nat : j > 0 => i + j \in 1 .. i + j /\ ~(i + j <= i) /\ (i + j) - i = j
  OBVIOUS
<1>5. (s \o t)[Len(s) + Len(t)] = t[Len(t)]
  BY <1>2, <1>3, <1>4
<1>6. s \o t # <<>>
  BY <1>2, <1>3
<1> QED
  BY <1>1, <1>2, <1>5, <1>6 DEF Ended

(* The arguments of a command, and its handler. *)
LEMMA ExecuteType ==
    ASSUME NEW command \in Seq(Keys), shell_execute(command)
    PROVE  /\ argv' \in Seq(Seq(Keys))
           /\ ran' \in Commands \cup {Unknown, None}
<1> DEFINE cmd == SkipBlanks(command)
           parsed == parse_command(cmd)
<1>1. cmd \in Seq(Keys)
  BY SkipBlanksType
<1>2. parsed \in Parsed(Len(cmd))
  BY <1>1, ParseType
<1>3. CASE cmd = <<>>
  BY <1>3 DEF shell_execute
<1>4. CASE cmd # <<>>
  <2>1. /\ argv' = [k \in DOMAIN parsed.starts |-> StringAt(cmd, parsed.nuls, parsed.starts[k])]
        /\ ran' = IF argv'[1] \in Commands THEN argv'[1] ELSE Unknown
    BY <1>4 DEF shell_execute
  <2> HIDE DEF cmd, parsed
  <2>2. /\ parsed.starts \in Seq(1 .. Len(cmd)) /\ parsed.nuls \in SUBSET (1 .. Len(cmd))
        /\ DOMAIN parsed.starts = 1 .. Len(parsed.starts) /\ Len(parsed.starts) \in Nat
    BY <1>2, LenProperties DEF Parsed
  <2>3. ASSUME NEW k \in 1 .. Len(parsed.starts)
        PROVE  StringAt(cmd, parsed.nuls, parsed.starts[k]) \in Seq(Keys)
    <3>1. parsed.starts[k] \in 1 .. Len(cmd)
      BY <2>2, ElementOfSeq
    <3> QED
      BY <1>1, <2>2, <3>1, StringAtType
  <2>4. argv' \in [1 .. Len(parsed.starts) -> Seq(Keys)]
    BY <2>1, <2>2, <2>3
  <2>5. argv' \in Seq(Seq(Keys))
    BY <2>2, <2>4, FunctionIsSeq
  <2> QED
    BY <2>1, <2>5
<1> QED
  BY <1>3, <1>4

(* Each command prints nothing or text that ends so. *)
LEMMA OutputType ==
    ASSUME NEW handler \in Commands \cup {Unknown, None}, NEW args, NEW lines,
           Joined(args) \in Seq(Chars), Listing(lines) \in Ended
    PROVE  Output(handler, args, lines) \in Ended \cup {<<>>}
<1>1. "\n" \in Ends /\ "clear" \in Ends /\ <<>> \in Seq(Out)
  BY EmptySeq DEF Ends
<1>2. <<"clear">> \in Ended
  BY <1>1 DEF Ended, Out
<1>3. Joined(args) \o <<"\n">> \in Ended
  <2>1. Joined(args) \in Seq(Out)
    BY SeqMonotonic DEF Out
  <2> QED
    BY <1>1, <2>1, EndedMore
<1>4. <<Mark, "\n">> \in Ended
  <2>1. <<Mark, "\n">> \in Seq(Out) /\ Len(<<Mark, "\n">>) = 2 /\ <<Mark, "\n">>[2] = "\n"
    BY ShellConstants DEF Out, Ends
  <2> QED
    BY <1>1, <2>1 DEF Ended
<1> QED
  BY <1>2, <1>3, <1>4 DEF Output, Commands

(* What is still to be printed ends with the prompt, or with a part of it; *)
(* what comes before the prompt ends with the beginning of a line.         *)
Prompted(t) ==
    /\ t \in Seq(Out)
    /\ \A i \in 1 .. Len(Prompt) :
          Len(t) + i > Len(Prompt) => t[Len(t) + i - Len(Prompt)] = Prompt[i]
    /\ Len(t) > Len(Prompt) => t[Len(t) - Len(Prompt)] \in Ends

(* The first prompt. *)
LEMMA PromptedFirst == Prompted(Prompt)
<1>1. Prompt \in Seq(Out) /\ Len(Prompt) \in Nat
  BY ShellConstants, SeqMonotonic DEF Out
<1>2. \A i \in 1 .. Len(Prompt) : Len(Prompt) + i - Len(Prompt) = i
  BY <1>1
<1> QED
  BY <1>1, <1>2 DEF Prompted

(* Printing a character leaves the rest of the prompt. *)
LEMMA PromptedTail ==
    ASSUME NEW t, Prompted(t), t # <<>>
    PROVE  /\ Prompted(Tail(t)) /\ Len(Tail(t)) = Len(t) - 1 /\ Len(t) \in Nat \ {0}
           /\ Head(t) = t[1] /\ Head(t) \in Out
<1>1. /\ t \in Seq(Out) /\ Tail(t) \in Seq(Out) /\ Len(Tail(t)) = Len(t) - 1
      /\ \A i \in 1 .. Len(Tail(t)) : Tail(t)[i] = t[i + 1]
      /\ Head(t) = t[1] /\ Head(t) \in Out /\ Len(t) \in Nat \ {0}
  BY HeadTailProperties, EmptySeq DEF Prompted
<1>2. PICK n \in Nat \ {0}, m \in Nat : n = Len(t) /\ m = Len(Prompt)
  BY <1>1, ShellConstants
<1>3. ASSUME NEW i \in 1 .. m, (n - 1) + i > m PROVE Tail(t)[(n - 1) + i - m] = Prompt[i]
  <2>1. /\ (n - 1) + i - m \in 1 .. n - 1 /\ ((n - 1) + i - m) + 1 = n + i - m
        /\ n + i > m
    BY <1>3
  <2>2. t[n + i - m] = Prompt[i]
    BY <1>2, <2>1 DEF Prompted
  <2> QED
    BY <1>1, <1>2, <2>1, <2>2
<1>4. ASSUME n - 1 > m PROVE Tail(t)[(n - 1) - m] \in Ends
  <2>1. (n - 1) - m \in 1 .. n - 1 /\ ((n - 1) - m) + 1 = n - m /\ n > m
    BY <1>4
  <2>2. t[n - m] \in Ends
    BY <1>2, <2>1 DEF Prompted
  <2> QED
    BY <1>1, <1>2, <2>1, <2>2
<1> QED
  BY <1>1, <1>2, <1>3, <1>4 DEF Prompted

(* The output of a command and the next prompt. *)
LEMMA PromptedAfter ==
    ASSUME NEW s \in Ended
    PROVE  Prompted(s \o Prompt) /\ Len(s \o Prompt) > Len(Prompt)
<1>1. s \in Seq(Out) /\ s # <<>> /\ s[Len(s)] \in Ends /\ Prompt \in Seq(Out)
  BY ShellConstants, SeqMonotonic DEF Ended, Out
<1>2. PICK t : t = s \o Prompt
  OBVIOUS
<1>3. /\ t \in Seq(Out) /\ Len(t) = Len(s) + Len(Prompt)
      /\ \A i \in 1 .. Len(s) + Len(Prompt) : t[i] = IF i <= Len(s) THEN s[i] ELSE Prompt[i - Len(s)]
  BY <1>1, <1>2, ConcatProperties
<1>4. PICK n \in Nat \ {0}, m \in Nat : n = Len(s) /\ m = Len(Prompt)
  BY <1>1, ShellConstants, EmptySeq
<1>5. ASSUME NEW i \in 1 .. m PROVE t[(n + m) + i - m] = Prompt[i]
  <2>1. /\ (n + m) + i - m \in 1 .. n + m /\ ~((n + m) + i - m <= n)
        /\ ((n + m) + i - m) - n = i
    OBVIOUS
  <2> QED
    BY <1>3, <1>4, <2>1
<1>6. t[(n + m) - m] = s[n]
  <2>1. (n + m) - m \in 1 .. n + m /\ (n + m) - m <= n /\ (n + m) - m = n
    OBVIOUS
  <2> QED
    BY <1>3, <1>4, <2>1
<1>7. Prompted(t)
  BY <1>1, <1>3, <1>4, <1>5, <1>6 DEF Prompted
<1>8. Len(t) > Len(Prompt)
  BY <1>3, <1>4
<1> QED
  BY <1>2, <1>7, <1>8

-----------------------------------------------------------------------------
(* The history *)

(* The types of what shell_add_history keeps. *)
HistoryOK ==
    /\ history \in [0 .. HISTORY_SIZE - 1 -> Seq(Keys)]
    /\ history_count \in 0 .. HISTORY_SIZE

(* The history as a sequence, oldest first. *)
LEMMA RecentIs ==
    HistoryOK => /\ Recent \in Seq(Seq(Keys)) /\ Len(Recent) = history_count /\ history_count \in Nat
                 /\ \A i \in 1 .. history_count :
                       Recent[i] = history[i - 1] /\ Recent[i] \in Seq(Keys)
<1> SUFFICES ASSUME HistoryOK
             PROVE  /\ Recent \in Seq(Seq(Keys)) /\ Len(Recent) = history_count /\ history_count \in Nat
                    /\ \A i \in 1 .. history_count :
                          Recent[i] = history[i - 1] /\ Recent[i] \in Seq(Keys)
  OBVIOUS
<1>1. history_count \in Nat /\ \A i \in 1 .. history_count : i - 1 \in 0 .. HISTORY_SIZE - 1
  BY ShellConstants DEF HistoryOK
<1>2. \A i \in 1 .. history_count : history[i - 1] \in Seq(Keys)
  BY <1>1 DEF HistoryOK
<1>3. Recent \in [1 .. history_count -> Seq(Keys)]
  BY <1>2 DEF Recent
<1> QED
  BY <1>1, <1>2, <1>3, FunctionIsSeq DEF Recent

(* A line is added: one slot is written, after a shift when there is none. *)
LEMMA AddIs ==
    ASSUME HistoryOK, NEW cmd \in Seq(Keys), add_to_history(cmd)
    PROVE  /\ HistoryOK'
           /\ history_count' = IF history_count < HISTORY_SIZE THEN history_count + 1 ELSE HISTORY_SIZE
           /\ history'[history_count' - 1] = cmd
           /\ \A i \in 1 .. history_count' :
                 i # history_count' => history'[i - 1] = history[(i - 1) + (history_count + 1 - history_count')]
<1>0. HISTORY_SIZE \in Nat \ {0} /\ history_count \in Nat /\ history_count <= HISTORY_SIZE
      /\ DOMAIN history = 0 .. HISTORY_SIZE - 1
  BY ShellConstants DEF HistoryOK
<1>1. CASE history_count < HISTORY_SIZE
  <2>1. history' = [history EXCEPT ![history_count] = cmd] /\ history_count' = history_count + 1
    BY <1>0, <1>1 DEF add_to_history, Stored
  <2>2. history_count \in 0 .. HISTORY_SIZE - 1
    BY <1>0, <1>1
  <2>3. HistoryOK'
    BY <1>0, <1>1, <2>1, <2>2 DEF HistoryOK
  <2>4. ASSUME NEW i \in 1 .. history_count PROVE history'[i - 1] = history[i - 1]
    <3>1. i - 1 \in 0 .. HISTORY_SIZE - 1 /\ i - 1 # history_count
      BY <1>0, <1>1
    <3> QED
      BY <2>1, <3>1 DEF HistoryOK
  <2>5. history'[history_count] = cmd
    BY <2>1, <2>2 DEF HistoryOK
  <2>6. \A i \in 1 .. history_count + 1 :
           /\ i # history_count + 1 => i \in 1 .. history_count
           /\ (i - 1) + (history_count + 1 - (history_count + 1)) = i - 1
    BY <1>0
  <2>7. (history_count + 1) - 1 = history_count
    BY <1>0
  <2> QED
    BY <1>1, <2>1, <2>3, <2>4, <2>5, <2>6, <2>7
<1>2. CASE history_count = HISTORY_SIZE
  <2>1. history' = [Shifted EXCEPT ![HISTORY_SIZE - 1] = cmd]
    BY <1>0, <1>2 DEF add_to_history, Stored
  <2>2. history_count' = HISTORY_SIZE
    BY <1>0, <1>2 DEF add_to_history, Stored
  <2>3. /\ Shifted \in [0 .. HISTORY_SIZE - 1 -> Seq(Keys)]
        /\ \A i \in 0 .. HISTORY_SIZE - 2 : Shifted[i] = history[i + 1]
    <3>1. \A i \in 0 .. HISTORY_SIZE - 2 : i \in 0 .. HISTORY_SIZE - 1 /\ i + 1 \in 0 .. HISTORY_SIZE - 1
      BY <1>0
    <3> QED
      BY <1>0, <3>1 DEF Shifted, HistoryOK
  <2>4. HISTORY_SIZE - 1 \in 0 .. HISTORY_SIZE - 1
    BY <1>0
  <2>5. HistoryOK'
    BY <1>0, <2>1, <2>2, <2>3, <2>4 DEF HistoryOK
  <2>6. history'[HISTORY_SIZE - 1] = cmd
    BY <2>1, <2>3, <2>4
  <2>7. ASSUME NEW i \in 1 .. HISTORY_SIZE, i # HISTORY_SIZE
        PROVE  history'[i - 1] = history[(i - 1) + 1]
    <3>1. i - 1 \in 0 .. HISTORY_SIZE - 2 /\ i - 1 \in 0 .. HISTORY_SIZE - 1 /\ i - 1 # HISTORY_SIZE - 1
      BY <1>0, <2>7
    <3> QED
      BY <2>1, <2>3, <3>1
  <2>8. history_count + 1 - HISTORY_SIZE = 1 /\ ~(history_count < HISTORY_SIZE)
    BY <1>0, <1>2
  <2>9. \A i \in 1 .. HISTORY_SIZE :
           i # HISTORY_SIZE => history'[i - 1] = history[(i - 1) + (history_count + 1 - HISTORY_SIZE)]
    BY <2>7, <2>8
  <2> QED
    BY <2>2, <2>5, <2>6, <2>8, <2>9
<1> QED
  BY <1>0, <1>1, <1>2

(* The history is then the last lines entered. *)
LEMMA RecentAfter ==
    ASSUME HistoryOK, NEW cmd \in Seq(Keys), add_to_history(cmd)
    PROVE  Recent' = Abs!LastOf(HISTORY_SIZE, Append(Recent, cmd))
<1>0. PICK D, s : D = Seq(Keys) /\ s = Recent
  OBVIOUS
<1>1. PICK n \in Nat : n = history_count /\ D = Seq(Keys) /\ s = Recent
  BY <1>0, RecentIs
<1>2. /\ s \in Seq(D) /\ Len(s) = n /\ cmd \in D /\ n <= HISTORY_SIZE /\ HISTORY_SIZE \in Nat \ {0}
      /\ \A i \in 1 .. n : s[i] = history[i - 1]
  BY <1>1, RecentIs, ShellConstants DEF HistoryOK
<1>3. PICK w : w = <<cmd>>
  OBVIOUS
<1>4. w \in Seq(D) /\ Len(w) = 1 /\ w[1] = cmd
  BY <1>2, <1>3
<1>5. Append(s, cmd) = s \o w
  BY <1>2, <1>3, AppendIsConcat
<1>6. PICK u : u = Abs!LastOf(HISTORY_SIZE, s \o w)
  OBVIOUS
<1>7. /\ u \in Seq(D) /\ Len(u) = IF n < HISTORY_SIZE THEN n + 1 ELSE HISTORY_SIZE
      /\ \A i \in 1 .. Len(u) : u[i] = IF i = Len(u) THEN w[1] ELSE s[i + (n + 1 - Len(u))]
  <2>1. /\ u \in Seq(D) /\ Len(u) = IF Len(s) < HISTORY_SIZE THEN Len(s) + 1 ELSE HISTORY_SIZE
        /\ \A i \in 1 .. Len(u) : u[i] = IF i = Len(u) THEN w[1] ELSE s[i + (Len(s) + 1 - Len(u))]
    <3>1. s \in Seq(D) /\ Len(s) <= HISTORY_SIZE /\ HISTORY_SIZE \in Nat \ {0}
      BY <1>2
    <3> HIDE <1>2
    <3>2. PICK m \in Nat \ {0} : m = HISTORY_SIZE
      BY <3>1
    <3>3. s \in Seq(D) /\ Len(s) <= m /\ w \in Seq(D) /\ Len(w) = 1
      BY <1>4, <3>1, <3>2
    <3> HIDE <3>1, <3>2
    <3>4. \A x : x = Abs!LastOf(m, s \o w) =>
             /\ x \in Seq(D) /\ Len(x) = IF Len(s) < m THEN Len(s) + 1 ELSE m
             /\ \A i \in 1 .. Len(x) :
                   x[i] = IF i = Len(x) THEN w[1] ELSE s[i + (Len(s) + 1 - Len(x))]
      BY <3>3, LastOfMore
    <3>5. u = Abs!LastOf(m, s \o w)
      BY <1>6, <3>2
    <3> QED
      BY <3>2, <3>4, <3>5
  <2> QED
    BY <1>2, <2>1
<1>8. PICK m \in Nat : m = Len(u)
  BY <1>2, <1>7
<1>9. m = history_count' /\ HistoryOK' /\ (m = n + 1 \/ (m = n /\ n = HISTORY_SIZE)) /\ m > 0
  BY <1>1, <1>2, <1>7, <1>8, AddIs
<1>10. /\ history'[m - 1] = cmd
       /\ \A i \in 1 .. m : i # m => history'[i - 1] = history[(i - 1) + (n + 1 - m)]
  BY <1>1, <1>9, AddIs
<1>11. /\ Recent' \in Seq(D) /\ Len(Recent') = m
       /\ \A i \in 1 .. m : Recent'[i] = history'[i - 1]
  <2>1. (HistoryOK => /\ Recent \in Seq(Seq(Keys)) /\ Len(Recent) = history_count /\ history_count \in Nat
                 /\ \A i \in 1 .. history_count :
                       Recent[i] = history[i - 1] /\ Recent[i] \in Seq(Keys))'
    BY RecentIs, PTL
  <2> QED
    BY <1>1, <1>9, <2>1
<1>12. ASSUME NEW i \in 1 .. m PROVE Recent'[i] = u[i]
  <2>1. CASE i = m
    BY <1>4, <1>7, <1>8, <1>10, <1>11, <2>1
  <2>2. CASE i # m
    <3>1. i + (n + 1 - m) \in 1 .. n /\ (i + (n + 1 - m)) - 1 = (i - 1) + (n + 1 - m)
      <4>1. m = n + 1 \/ m = n
        BY <1>9
      <4> HIDE <1>9
      <4> QED
        BY <2>2, <4>1
    <3>2. u[i] = s[i + (n + 1 - m)]
      BY <1>7, <1>8, <2>2
    <3> QED
      BY <1>2, <1>10, <1>11, <2>2, <3>1, <3>2
  <2> QED
    BY <2>1, <2>2
<1>13. Recent' = u
  BY <1>7, <1>8, <1>11, <1>12, SeqEqual
<1> QED
  BY <1>1, <1>5, <1>6, <1>13

-----------------------------------------------------------------------------
(* The invariant *)

(* The line begins with n characters of the prompt and the line entered so *)
(* far, and the cursor is behind them.                                     *)
Echo(line, col, n, entered) ==
    /\ col = n + Len(entered)
    /\ \A i \in 1 .. n : line[i - 1] = Prompt[i]
    /\ \A i \in 1 .. Len(entered) : line[n + i - 1] = entered[i]

(* Keys are echoed once everything is printed; the cursor is then behind the *)
(* prompt and the line entered, unless that line is longer than the row.     *)
Echoing ==
    /\ todo # <<>> => command_buffer = <<>> /\ ~wrapped
    /\ Len(todo) <= Len(Prompt) /\ ~wrapped =>
          Echo(line_buffer[Current], terminal_col, Len(Prompt) - Len(todo), command_buffer)

(* The line entered fits its buffer. *)
BufferOK ==
    /\ command_buffer \in Seq(Keys) /\ Len(command_buffer) <= SHELL_BUFFER_SIZE - 1
    /\ wrapped \in BOOLEAN

(* The inductive invariant of the shell on its terminal. *)
Inv == TermInv /\ HistoryOK /\ BufferOK /\ Prompted(todo) /\ Echoing

(* A key is echoed. *)
LEMMA EchoKey ==
    ASSUME TermInv, NEW n \in Nat, NEW cmd \in Seq(Keys), NEW c \in Chars,
           terminal_col + 1 < max_cols,
           Echo(line_buffer[Current], terminal_col, n, cmd)
    PROVE  Echo(Typed(c), terminal_col + 1, n, Append(cmd, c))
<1>0. PICK m \in Nat : m = Len(cmd)
  BY LenProperties
<1>t. PICK t : t = Append(cmd, c)
  OBVIOUS
<1>1. m = Len(cmd) /\ t = Append(cmd, c)
  BY <1>0, <1>t
<1>2. cmd \in Seq(Chars)
  BY ShellConstants, SeqMonotonic
<1>3. Len(t) = m + 1 /\ (\A i \in 1 .. m : t[i] = cmd[i]) /\ t[m + 1] = c
  BY <1>1, <1>2, AppendProperties
<1>4. /\ terminal_col = n + m /\ \A i \in 1 .. n : line_buffer[Current][i - 1] = Prompt[i]
      /\ \A i \in 1 .. m : line_buffer[Current][n + i - 1] = cmd[i]
  BY <1>1 DEF Echo
<1>5. \A k \in Columns : Typed(c)[k] = IF k = n + m THEN c ELSE line_buffer[Current][k]
  BY <1>4, CurrentLine DEF Typed
<1>6. n + m + 1 < max_cols /\ max_cols \in Nat
  BY <1>4, Constants
<1>7. ASSUME NEW i \in 1 .. n PROVE Typed(c)[i - 1] = Prompt[i]
  <2>1. i - 1 \in Columns /\ i - 1 # n + m
    BY <1>6 DEF Columns
  <2> QED
    BY <1>4, <1>5, <2>1
<1>8. ASSUME NEW i \in 1 .. m + 1 PROVE Typed(c)[n + i - 1] = t[i]
  <2>1. n + i - 1 \in Columns /\ (n + i - 1 = n + m <=> i = m + 1)
    BY <1>6 DEF Columns
  <2>2. CASE i = m + 1
    BY <1>3, <1>5, <2>1, <2>2
  <2>3. CASE i # m + 1
    <3>1. i \in 1 .. m
      BY <2>3
    <3> QED
      BY <1>3, <1>4, <1>5, <2>1, <2>3, <3>1
  <2> QED
    BY <2>2, <2>3
<1>9. terminal_col + 1 = n + (m + 1)
  BY <1>4
<1> QED
  BY <1>1, <1>3, <1>7, <1>8, <1>9 DEF Echo

(* A character of the prompt is written. *)
LEMMA EchoPrompt ==
    ASSUME TermInv, NEW n \in Nat, n < Len(Prompt),
           Echo(line_buffer[Current], terminal_col, n, <<>>)
    PROVE  /\ Prompt[n + 1] \in Chars /\ terminal_col + 1 < max_cols
           /\ Echo(Typed(Prompt[n + 1]), terminal_col + 1, n + 1, <<>>)
<1>1. terminal_col = n /\ \A i \in 1 .. n : line_buffer[Current][i - 1] = Prompt[i]
  BY DEF Echo
<1>2. /\ n + 1 \in 1 .. Len(Prompt) /\ Len(Prompt) \in Nat /\ Len(Prompt) < max_cols /\ max_cols \in Nat
      /\ Prompt[n + 1] \in Chars
  BY ShellConstants, Constants, ElementOfSeq
<1>3. n + 1 < max_cols
  BY <1>2
<1>4. \A k \in Columns : Typed(Prompt[n + 1])[k] = IF k = n THEN Prompt[n + 1] ELSE line_buffer[Current][k]
  BY <1>1, CurrentLine DEF Typed
<1>5. ASSUME NEW i \in 1 .. n + 1 PROVE Typed(Prompt[n + 1])[i - 1] = Prompt[i]
  <2>1. i - 1 \in Columns /\ (i - 1 = n <=> i = n + 1)
    BY <1>2, <1>3 DEF Columns
  <2>2. i # n + 1 => i \in 1 .. n
    OBVIOUS
  <2> QED
    BY <1>1, <1>4, <2>1, <2>2
<1> QED
  BY <1>1, <1>2, <1>3, <1>5 DEF Echo

(* A key is erased. *)
LEMMA EchoErase ==
    ASSUME TermInv, NEW n \in Nat, NEW cmd \in Seq(Keys), cmd # <<>>,
           Echo(line_buffer[Current], terminal_col, n, cmd)
    PROVE  terminal_col > 0 /\ Echo(Erased, terminal_col - 1, n, Front(cmd))
<1>1. PICK m \in Nat \ {0} : m = Len(cmd)
  BY EmptySeq
<1>2. /\ terminal_col = n + m /\ \A i \in 1 .. n : line_buffer[Current][i - 1] = Prompt[i]
      /\ \A i \in 1 .. m : line_buffer[Current][n + i - 1] = cmd[i]
  BY <1>1 DEF Echo
<1>3. Len(Front(cmd)) = m - 1 /\ \A i \in 1 .. m - 1 : Front(cmd)[i] = cmd[i]
  <2>1. \A i \in 1 .. m - 1 : cmd[i] \in Keys
    BY <1>1, ElementOfSeq
  <2>2. Front(cmd) = SubSeq(cmd, 1, m - 1)
    BY <1>1 DEF Front
  <2>3. /\ Len(SubSeq(cmd, 1, m - 1)) = IF 1 <= m - 1 THEN (m - 1) - 1 + 1 ELSE 0
        /\ \A i \in 1 .. (m - 1) - 1 + 1 : SubSeq(cmd, 1, m - 1)[i] = cmd[1 + i - 1]
    BY <2>1, SubSeqProperties
  <2>4. /\ (m - 1) - 1 + 1 = m - 1 /\ (IF 1 <= m - 1 THEN (m - 1) - 1 + 1 ELSE 0) = m - 1
        /\ \A i \in 1 .. m - 1 : 1 + i - 1 = i
    OBVIOUS
  <2> QED
    BY <2>2, <2>3, <2>4
<1>4. n + m < max_cols /\ max_cols \in Nat
  BY <1>2, CurrentLine, Constants DEF Columns
<1>5. terminal_col > 0 /\ terminal_col - 1 = n + (m - 1)
  BY <1>2
<1>6. \A k \in Columns : k # n + (m - 1) => Erased[k] = line_buffer[Current][k]
  BY <1>5, CurrentLine DEF Erased
<1>7. ASSUME NEW i \in 1 .. n PROVE Erased[i - 1] = Prompt[i]
  <2>1. i - 1 \in Columns /\ i - 1 # n + (m - 1)
    BY <1>4 DEF Columns
  <2> QED
    BY <1>2, <1>6, <2>1
<1>8. ASSUME NEW i \in 1 .. m - 1 PROVE Erased[n + i - 1] = cmd[i]
  <2>1. n + i - 1 \in Columns /\ n + i - 1 # n + (m - 1) /\ i \in 1 .. m
    BY <1>4 DEF Columns
  <2> QED
    BY <1>2, <1>6, <2>1
<1> QED
  BY <1>3, <1>5, <1>7, <1>8 DEF Echo

-----------------------------------------------------------------------------
(* The steps of the shell *)

(* A line that was changed in place is the current line after it. *)
LEMMA CurrentNext ==
    ASSUME TermInv, NEW l, line_buffer' = [line_buffer EXCEPT ![Current] = l],
           UNCHANGED <<buffer_start, buffer_count>>
    PROVE  line_buffer'[Current'] = l
  BY CurrentLine DEF Current, TermInv, TermTypeOK

(* A typed key preserves the invariant: the echo extends the line shown. *)
LEMMA TypeKept ==
    ASSUME Inv, NEW c \in Keys, Type(c)
    PROVE  Inv'
<1>1. /\ todo = <<>> /\ Len(command_buffer) < SHELL_BUFFER_SIZE - 1 /\ PutChar(c)
      /\ command_buffer' = Append(command_buffer, c)
      /\ wrapped' = (wrapped \/ terminal_col' = 0)
      /\ UNCHANGED <<history, history_count, todo>>
  BY DEF Type, Idle, memory
<1>2. c \in Chars /\ TermInv /\ command_buffer \in Seq(Keys)
  BY ShellConstants DEF Inv, BufferOK
<1>3. TermInv'
  BY <1>1, <1>2, PutCharKept
<1>4. HistoryOK'
  BY <1>1 DEF Inv, HistoryOK
<1>5. BufferOK'
  <2>1. command_buffer' \in Seq(Keys) /\ Len(command_buffer') = Len(command_buffer) + 1
    BY <1>1, <1>2, AppendProperties
  <2>2. Len(command_buffer) \in Nat /\ SHELL_BUFFER_SIZE \in Nat
    BY <1>2, LenProperties, ShellConstants
  <2>3. Len(command_buffer) + 1 <= SHELL_BUFFER_SIZE - 1
    BY <1>1, <2>2
  <2> QED
    BY <1>1, <2>1, <2>3 DEF BufferOK
<1>6. Prompted(todo)'
  BY <1>1 DEF Inv, Prompted
<1>7. Echoing'
  <2>1. Len(todo) = 0 /\ Len(Prompt) \in Nat /\ Len(Prompt) - 0 = Len(Prompt)
    BY <1>1, ShellConstants
  <2>2. ASSUME ~wrapped' PROVE Echo(line_buffer'[Current'], terminal_col', Len(Prompt), command_buffer')
    <3>1. ~wrapped /\ terminal_col' # 0
      BY <1>1, <2>2
    <3>2. Echo(line_buffer[Current], terminal_col, Len(Prompt), command_buffer)
      BY <2>1, <3>1 DEF Inv, Echoing
    <3>3. /\ terminal_col + 1 < max_cols /\ terminal_col' = terminal_col + 1
          /\ line_buffer' = [line_buffer EXCEPT ![Current] = Typed(c)]
          /\ UNCHANGED <<buffer_start, buffer_count>>
      BY <1>1, <1>2, <3>1, PutCharIs
    <3>4. line_buffer'[Current'] = Typed(c)
      BY <1>2, <3>3, CurrentNext
    <3> QED
      BY <1>1, <1>2, <2>1, <3>2, <3>3, <3>4, EchoKey
  <2> QED
    BY <1>1, <2>1, <2>2 DEF Echoing
<1> QED
  BY <1>3, <1>4, <1>5, <1>6, <1>7 DEF Inv

(* Backspace removes the same character from the buffer and the screen. *)
LEMMA EraseKept ==
    ASSUME Inv, Erase
    PROVE  Inv'
<1>1. /\ todo = <<>> /\ command_buffer # <<>> /\ command_buffer' = Front(command_buffer)
      /\ terminal_backspace \/ (terminal_col = 0 /\ UNCHANGED terminal)
      /\ UNCHANGED <<history, history_count, todo, wrapped>>
  BY DEF Erase, Idle, memory
<1>2. TermInv /\ command_buffer \in Seq(Keys)
  BY DEF Inv, BufferOK
<1>3. TermInv'
  BY <1>1, <1>2, TerminalKept
<1>4. HistoryOK'
  BY <1>1 DEF Inv, HistoryOK
<1>5. BufferOK'
  <2>1. PICK m \in Nat \ {0} : m = Len(command_buffer)
    BY <1>1, <1>2, EmptySeq
  <2>2. \A i \in 1 .. m - 1 : command_buffer[i] \in Keys
    BY <1>2, <2>1, ElementOfSeq
  <2>3. command_buffer' = SubSeq(command_buffer, 1, m - 1)
    BY <1>1, <2>1 DEF Front
  <2>4. /\ SubSeq(command_buffer, 1, m - 1) \in Seq(Keys)
        /\ Len(SubSeq(command_buffer, 1, m - 1)) = IF 1 <= m - 1 THEN (m - 1) - 1 + 1 ELSE 0
    BY <2>2, SubSeqProperties
  <2>5. (IF 1 <= m - 1 THEN (m - 1) - 1 + 1 ELSE 0) = m - 1
    OBVIOUS
  <2>6. m <= SHELL_BUFFER_SIZE - 1 /\ SHELL_BUFFER_SIZE \in Nat
    BY <2>1, ShellConstants DEF Inv, BufferOK
  <2>7. m - 1 <= SHELL_BUFFER_SIZE - 1
    BY <2>6
  <2> QED
    BY <1>1, <2>3, <2>4, <2>5, <2>7 DEF Inv, BufferOK
<1>6. Prompted(todo)'
  BY <1>1 DEF Inv, Prompted
<1>7. Echoing'
  <2>1. Len(todo) = 0 /\ Len(Prompt) \in Nat /\ Len(Prompt) - 0 = Len(Prompt)
    BY <1>1, ShellConstants
  <2>2. ASSUME ~wrapped PROVE Echo(line_buffer'[Current'], terminal_col', Len(Prompt), command_buffer')
    <3>1. Echo(line_buffer[Current], terminal_col, Len(Prompt), command_buffer)
      BY <2>1, <2>2 DEF Inv, Echoing
    <3>2. terminal_col > 0 /\ Echo(Erased, terminal_col - 1, Len(Prompt), Front(command_buffer))
      BY <1>1, <1>2, <2>1, <3>1, EchoErase
    <3>3. terminal_backspace
      BY <1>1, <3>2
    <3>4. /\ line_buffer' = [line_buffer EXCEPT ![Current] = Erased]
          /\ terminal_col' = terminal_col - 1 /\ UNCHANGED <<buffer_start, buffer_count>>
      BY <1>2, <3>2, <3>3, ErasedLine DEF terminal_backspace
    <3>5. line_buffer'[Current'] = Erased
      BY <1>2, <3>4, CurrentNext
    <3> QED
      BY <1>1, <3>2, <3>4, <3>5
  <2> QED
    BY <1>1, <2>1, <2>2 DEF Echoing
<1> QED
  BY <1>3, <1>4, <1>5, <1>6, <1>7 DEF Inv

(* Enter empties the buffer; what it prints ends with the prompt. *)
LEMMA EnterKept ==
    ASSUME Inv, Enter
    PROVE  /\ Inv' /\ UNCHANGED terminal
           /\ Recent' = IF command_buffer # <<>>
                        THEN Abs!LastOf(HISTORY_SIZE, Append(Recent, command_buffer)) ELSE Recent
<1>1. command_buffer' = <<>> /\ wrapped' = FALSE /\ UNCHANGED terminal
  BY DEF Enter
<1>2. TermInv'
  BY <1>1, TerminalKept DEF Inv
<1>3. BufferOK'
  <2>1. <<>> \in Seq(Keys) /\ Len(<<>>) = 0 /\ 0 <= SHELL_BUFFER_SIZE - 1
    BY EmptySeq, ShellConstants
  <2> QED
    BY <1>1, <2>1 DEF BufferOK
<1>4. <<"\n">> \in Ended /\ <<"\n">> \in Seq(Out)
  BY DEF Ended, Out, Ends
<1>5. CASE command_buffer = <<>>
  <2>1. UNCHANGED <<history, history_count>> /\ todo' = <<"\n">> \o Prompt
    BY <1>5 DEF Enter, memory
  <2>2. HistoryOK' /\ Recent' = Recent
    BY <2>1 DEF Inv, HistoryOK, Recent
  <2>3. Prompted(todo') /\ Len(todo') > Len(Prompt)
    BY <1>4, <2>1, PromptedAfter
  <2>4. Prompted(todo)'
    BY <2>3 DEF Prompted
  <2>5. Len(todo') \in Nat
    BY <2>3, LenProperties DEF Prompted
  <2>6. Echoing'
    BY <1>1, <2>3, <2>5, ShellConstants DEF Echoing
  <2> QED
    BY <1>1, <1>2, <1>3, <1>5, <2>2, <2>4, <2>6 DEF Inv
<1>6. CASE command_buffer # <<>>
  <2>1. /\ add_to_history(command_buffer) /\ shell_execute(command_buffer)
        /\ todo' = <<"\n">> \o Output(ran', argv', Recent') \o Prompt
    BY <1>6 DEF Enter
  <2>2. HistoryOK /\ command_buffer \in Seq(Keys)
    BY DEF Inv, BufferOK
  <2>3. HistoryOK' /\ Recent' = Abs!LastOf(HISTORY_SIZE, Append(Recent, command_buffer))
    BY <2>1, <2>2, AddIs, RecentAfter
  <2>4. Listing(Recent') \in Ended
    <3>1. (HistoryOK => /\ Recent \in Seq(Seq(Keys)) /\ Len(Recent) = history_count /\ history_count \in Nat
                 /\ \A i \in 1 .. history_count :
                       Recent[i] = history[i - 1] /\ Recent[i] \in Seq(Keys))'
      BY RecentIs, PTL
    <3>2. PICK n \in Nat : n = history_count' /\ Len(Recent') = n /\ \A i \in 1 .. n : Recent'[i] \in Seq(Keys)
      BY <2>3, <3>1
    <3>3. \A i \in 1 .. n : Recent'[i] \in Seq(Chars)
      BY <3>2, ShellConstants, SeqMonotonic
    <3> QED
      BY <3>2, <3>3, ListingType
  <2>5. Joined(argv') \in Seq(Chars) /\ ran' \in Commands \cup {Unknown, None}
    <3>1. argv' \in Seq(Seq(Keys)) /\ ran' \in Commands \cup {Unknown, None}
      BY <2>1, <2>2, ExecuteType
    <3>2. PICK n \in Nat : n = Len(argv')
      BY <3>1, LenProperties
    <3>3. PICK D : D = Seq(Keys)
      OBVIOUS
    <3>4. argv' \in Seq(D)
      BY <3>1, <3>3
    <3>5. \A k \in 1 .. n : argv'[k] \in D
      BY <3>2, <3>4, ElementOfSeq
    <3>6. \A k \in 1 .. n : argv'[k] \in Seq(Chars)
      BY <3>3, <3>5, ShellConstants, SeqMonotonic
    <3> QED
      BY <3>1, <3>2, <3>6, JoinedType
  <2>6. Output(ran', argv', Recent') \in Ended \cup {<<>>}
    BY <2>4, <2>5, OutputType
  <2>7. PICK s : s = <<"\n">> \o Output(ran', argv', Recent')
    OBVIOUS
  <2>8. s \in Ended
    <3>1. CASE Output(ran', argv', Recent') = <<>>
      <4>1. s = <<"\n">>
        BY <1>4, <2>7, <3>1, ConcatEmptySeq
      <4> QED
        BY <1>4, <4>1
    <3>2. CASE Output(ran', argv', Recent') \in Ended
      BY <1>4, <2>7, <3>2, EndedAfter
    <3> QED
      BY <2>6, <3>1, <3>2
  <2>9. Prompted(todo') /\ Len(todo') > Len(Prompt)
    BY <2>1, <2>7, <2>8, PromptedAfter
  <2>10. Prompted(todo)'
    BY <2>9 DEF Prompted
  <2>11. Len(todo') \in Nat
    BY <2>9, LenProperties DEF Prompted
  <2>12. Echoing'
    BY <1>1, <2>9, <2>11, ShellConstants DEF Echoing
  <2> QED
    BY <1>1, <1>2, <1>3, <1>6, <2>3, <2>10, <2>12 DEF Inv
<1> QED
  BY <1>5, <1>6

(* printk writes the next character, or clears the screen. *)
LEMMA PrintkIs ==
    ASSUME Inv, Printk
    PROVE  /\ todo # <<>> /\ todo' = Tail(todo)
           /\ \/ Head(todo) = "\n" /\ Newline
              \/ Head(todo) = "clear" /\ terminal_clear
              \/ Head(todo) \in Chars /\ PutChar(Head(todo))
           /\ UNCHANGED <<command_buffer, history, history_count, wrapped>>
<1>1. todo # <<>> /\ Prompted(todo)
  BY DEF Printk, Inv
<1>2. Head(todo) \in Out
  BY <1>1, PromptedTail
<1>3. Head(todo) \in Chars => Head(todo) # "\n" /\ Head(todo) # "clear"
  BY ShellConstants DEF Ends
<1> QED
  BY <1>1, <1>2, <1>3 DEF Printk, memory, Out, Ends

(* Printing preserves it: a prompt starts at the beginning of a line. *)
LEMMA PrintkKept ==
    ASSUME Inv, Printk
    PROVE  Inv'
<1>1. TermInv'
  BY PrintkIs, TerminalKept DEF Inv
<1>2. HistoryOK' /\ BufferOK'
  BY PrintkIs DEF Inv, HistoryOK, BufferOK
<1>3. Prompted(todo) /\ todo # <<>> /\ todo' = Tail(todo)
  BY PrintkIs DEF Inv
<1>4. Prompted(Tail(todo)) /\ Len(Tail(todo)) = Len(todo) - 1 /\ Head(todo) = todo[1]
  BY <1>3, PromptedTail
<1>5. Prompted(todo)'
  BY <1>3, <1>4 DEF Prompted
<1>6. PICK n \in Nat \ {0}, m \in Nat : n = Len(todo) /\ m = Len(Prompt)
  BY <1>3, PromptedTail, ShellConstants
<1>7. command_buffer = <<>> /\ ~wrapped /\ command_buffer' = <<>> /\ ~wrapped'
  BY <1>3, PrintkIs DEF Inv, Echoing
<1>8. ASSUME n - 1 <= m PROVE Echo(line_buffer'[Current'], terminal_col', m - (n - 1), <<>>)
  <2>1. CASE n = m + 1
    <3>1. todo[1] \in Ends
      <4>1. n > m /\ n - m = 1
        BY <2>1
      <4> QED
        BY <1>3, <1>6, <4>1 DEF Prompted
    <3>2. Newline \/ terminal_clear
      BY <1>4, <3>1, PrintkIs, ShellConstants
    <3>3. terminal_col' = 0
      BY <3>2 DEF Newline, NextRow, terminal_clear
    <3>4. m - (n - 1) = 0
      BY <2>1
    <3> QED
      BY <3>3, <3>4 DEF Echo
  <2>2. CASE n <= m
    <3>1. m - n \in Nat /\ m - n < m /\ (m - n) + 1 = m - (n - 1) /\ (m - n) + 1 \in 1 .. m
          /\ n + ((m - n) + 1) > m /\ n + ((m - n) + 1) - m = 1
      BY <2>2
    <3>2. Head(todo) = Prompt[(m - n) + 1]
      BY <1>3, <1>4, <1>6, <3>1 DEF Prompted
    <3>3. Echo(line_buffer[Current], terminal_col, m - n, <<>>)
      BY <1>6, <1>7, <2>2 DEF Inv, Echoing
    <3>4. /\ Head(todo) \in Chars /\ terminal_col + 1 < max_cols
          /\ Echo(Typed(Head(todo)), terminal_col + 1, (m - n) + 1, <<>>)
      BY <1>6, <3>1, <3>2, <3>3, EchoPrompt DEF Inv
    <3>5. PutChar(Head(todo))
      BY <3>4, PrintkIs, ShellConstants DEF Ends
    <3>6. terminal_col + 1 # max_cols
      BY <3>4, CurrentLine, Constants DEF Inv
    <3>7. /\ terminal_col' = terminal_col + 1
          /\ line_buffer' = [line_buffer EXCEPT ![Current] = Typed(Head(todo))]
          /\ UNCHANGED <<buffer_start, buffer_count>>
      BY <3>4, <3>5, <3>6, PutCharIs DEF Inv
    <3>8. line_buffer'[Current'] = Typed(Head(todo))
      BY <3>7, CurrentNext DEF Inv
    <3> QED
      BY <3>1, <3>4, <3>7, <3>8
  <2> QED
    BY <1>8, <2>1, <2>2
<1>9. Echoing'
  BY <1>3, <1>4, <1>6, <1>7, <1>8 DEF Echoing
<1> QED
  BY <1>1, <1>2, <1>5, <1>9 DEF Inv

(* Scrolling touches neither the shell nor the ring. *)
LEMMA ScrollStepKept ==
    ASSUME Inv, Scroll
    PROVE  Inv' /\ Scrolls /\ UNCHANGED <<history, history_count>>
<1>1. Scrolls /\ UNCHANGED <<command_buffer, history, history_count, todo, wrapped>>
  BY DEF Scroll, Scrolls, memory
<1>2. UNCHANGED <<ring, cursor>>
  BY <1>1 DEF Scrolls, terminal_scroll_up, terminal_scroll_down, terminal_scroll_to_bottom, ScrollTo
<1>3. TermInv'
  BY <1>1, TerminalKept DEF Inv
<1>4. Prompted(todo)' /\ HistoryOK' /\ BufferOK'
  BY <1>1 DEF Inv, Prompted, HistoryOK, BufferOK
<1>5. Echoing'
  BY <1>1, <1>2 DEF Inv, Echoing, ring, cursor, Current, Echo
<1> QED
  BY <1>1, <1>3, <1>4, <1>5 DEF Inv

(* The initial state satisfies the invariant. *)
LEMMA Initially == Init => Inv
<1> SUFFICES ASSUME Init PROVE Inv
  OBVIOUS
<1>1. TermInv
  BY TermInitial DEF Init
<1>2. HistoryOK
  BY EmptySeq, ShellConstants DEF Init, HistoryOK
<1>3. BufferOK
  BY EmptySeq, ShellConstants DEF Init, BufferOK
<1>4. Prompted(todo)
  BY PromptedFirst DEF Init
<1>5. Echoing
  <2>1. todo = Prompt /\ command_buffer = <<>> /\ ~wrapped /\ terminal_col = 0
    BY DEF Init, terminal_init
  <2>2. Len(Prompt) - Len(todo) = 0 /\ 0 + Len(command_buffer) = 0
    BY <2>1, ShellConstants
  <2> QED
    BY <2>1, <2>2 DEF Echoing, Echo
<1> QED
  BY <1>1, <1>2, <1>3, <1>4, <1>5 DEF Inv

(* Every step preserves the invariant, and does to the terminal and the *)
(* history one of the things they are specified by.                     *)
LEMMA StepKept ==
    ASSUME Inv, [Next]_vars
    PROVE  /\ Inv'
           /\ \/ Newline \/ terminal_backspace \/ terminal_clear \/ Scrolls
              \/ UNCHANGED terminal
              \/ \E c \in Chars : PutChar(c)
           /\ ~(Enter /\ command_buffer # <<>>) => Recent' = Recent
<1>1. CASE Enter
  BY <1>1, EnterKept
<1>2. CASE Erase
  BY <1>2, EraseKept DEF Erase, memory, Recent
<1>3. CASE Printk
  BY <1>3, PrintkKept, PrintkIs DEF Recent
<1>4. CASE Scroll
  BY <1>4, ScrollStepKept DEF Recent
<1>5. ASSUME NEW c \in Keys, Type(c)
      PROVE  Inv' /\ PutChar(c) /\ c \in Chars /\ Recent' = Recent
  BY <1>5, TypeKept, ShellConstants DEF Type, memory, Recent
<1>6. CASE UNCHANGED vars
  <2>1. UNCHANGED <<terminal, command_buffer, history, history_count, todo, wrapped>>
    BY <1>6 DEF vars, memory
  <2>2. TermInv'
    BY <2>1, TerminalKept DEF Inv
  <2>3. Prompted(todo)' /\ HistoryOK' /\ BufferOK'
    BY <2>1 DEF Inv, Prompted, HistoryOK, BufferOK
  <2>4. Echoing'
    BY <2>1 DEF Inv, Echoing, terminal, ring, cursor, Current, Echo
  <2> QED
    BY <2>1, <2>2, <2>3, <2>4 DEF Inv, Recent
<1> QED
  BY <1>1, <1>2, <1>3, <1>4, <1>5, <1>6 DEF Next

(* Inv holds in every state. *)
LEMMA Invariance == Spec => []Inv
<1>1. Inv /\ [Next]_vars => Inv'
  BY StepKept
<1> QED
  BY <1>1, Initially, PTL DEF Spec

-----------------------------------------------------------------------------
(* The words of a line *)

(* Words are counted by where they begin. *)
LEMMA Counting ==
    ASSUME NEW line \in Seq(Keys)
    PROVE  /\ WordStarts(line) \in SUBSET (1 .. Len(line)) /\ IsFiniteSet(WordStarts(line))
           /\ \A p : Before(line, p) \subseteq WordStarts(line)
                     /\ IsFiniteSet(Before(line, p)) /\ Cardinality(Before(line, p)) \in Nat
           /\ Cardinality(WordStarts(line)) \in Nat
<1>1. Len(line) \in Nat
  BY LenProperties
<1>2. IsFiniteSet(1 .. Len(line))
  BY <1>1, FS_Interval
<1>3. WordStarts(line) \in SUBSET (1 .. Len(line))
  BY DEF WordStarts
<1>4. IsFiniteSet(WordStarts(line))
  BY <1>2, <1>3, FS_Subset
<1>5. ASSUME NEW p
      PROVE  Before(line, p) \in SUBSET WordStarts(line) /\ IsFiniteSet(Before(line, p))
  <2>1. Before(line, p) \in SUBSET WordStarts(line)
    BY DEF Before
  <2> QED
    BY <1>4, <2>1, FS_Subset
<1> QED
  BY <1>3, <1>4, <1>5, FS_CardinalityType

(* One more begins before p + 1 if one begins at p. *)
LEMMA CountOne ==
    ASSUME NEW line \in Seq(Keys), NEW p \in Nat
    PROVE  Cardinality(Before(line, p + 1)) =
           IF p \in WordStarts(line) THEN Cardinality(Before(line, p)) + 1
                                     ELSE Cardinality(Before(line, p))
<1>0. \A q \in WordStarts(line) : q \in Nat
  BY Counting
<1>1. CASE p \in WordStarts(line)
  <2>0. \A q \in WordStarts(line) : q < p + 1 <=> q < p \/ q = p
    BY <1>0
  <2>1. Before(line, p + 1) = Before(line, p) \cup {p}
    BY <1>1, <2>0 DEF Before
  <2>2. p \notin Before(line, p)
    BY DEF Before
  <2> QED
    BY <1>1, <2>1, <2>2, Counting, FS_AddElement
<1>2. CASE p \notin WordStarts(line)
  <2>1. Before(line, p + 1) = Before(line, p)
    BY <1>0, <1>2 DEF Before
  <2> QED
    BY <1>2, <2>1
<1> QED
  BY <1>1, <1>2

(* Fewer begin before the one further left. *)
LEMMA CountOrder ==
    ASSUME NEW line \in Seq(Keys), NEW a \in WordStarts(line), NEW b \in WordStarts(line), a < b
    PROVE  Cardinality(Before(line, a)) + 1 <= Cardinality(Before(line, b))
<1>1. a \in Nat /\ b \in Nat
  BY Counting
<1>2. Before(line, a + 1) \in SUBSET Before(line, b)
  <2>1. \A q \in WordStarts(line) : q \in Nat /\ (q < a + 1 => q < b)
    BY <1>1, Counting
  <2> QED
    BY <2>1 DEF Before
<1>3. Cardinality(Before(line, a + 1)) <= Cardinality(Before(line, b))
  BY <1>2, Counting, FS_Subset
<1> QED
  BY <1>1, <1>3, CountOne

(* The k-th word is the one before which k - 1 begin. *)
LEMMA StartIs ==
    ASSUME NEW line \in Seq(Keys), NEW p \in WordStarts(line), NEW k \in Nat,
           Cardinality(Before(line, p)) = k - 1
    PROVE  WordStart(line, k) = p
<1> DEFINE S == {q \in WordStarts(line) : Cardinality(Before(line, q)) = k - 1}
<1>1. ASSUME NEW q \in WordStarts(line), Cardinality(Before(line, q)) = k - 1 PROVE q = p
  <2>1. p \in Nat /\ q \in Nat
    BY Counting
  <2>2. ~(p < q) /\ ~(q < p)
    BY <1>1, CountOrder
  <2> QED
    BY <2>1, <2>2
<1> QED
  BY <1>1 DEF WordStart

(* There are as many words as begin before the end of the line. *)
LEMMA CountAll ==
    ASSUME NEW line \in Seq(Keys)
    PROVE  Before(line, Len(line) + 1) = WordStarts(line)
<1>1. Len(line) \in Nat
  BY LenProperties
<1>2. \A q \in 1 .. Len(line) : q < Len(line) + 1
  BY <1>1
<1> QED
  BY <1>2, Counting DEF Before

(* What is known of words after p characters of the line, from behind the  *)
(* first d on: those found so far, in order, and the blanks before the end *)
(* of the search.                                                          *)
Reached(s, p) == IF Len(s.starts) = SHELL_MAX_ARGS THEN s.starts[SHELL_MAX_ARGS] ELSE p

Numbered(line, d, starts) ==
    \A k \in 1 .. Len(starts) :
        /\ starts[k] + d \in WordStarts(line)
        /\ Cardinality(Before(line, starts[k] + d)) = k - 1

Marked(line, d, p, s) ==
    /\ Len(s.starts) <= SHELL_MAX_ARGS
    /\ \A k \in 1 .. Len(s.starts) : s.starts[k] <= p
    /\ Numbered(line, d, s.starts)
    /\ \A q \in 1 .. Len(line) - d :
          q \in s.nuls <=> q <= Reached(s, p) /\ line[q + d] = Space
    /\ Len(s.starts) < SHELL_MAX_ARGS =>
          /\ Cardinality(Before(line, p + d + 1)) = Len(s.starts)
          /\ s.in_word <=> p > 0 /\ line[p + d] # Space

(* Nothing is found before the first character. *)
LEMMA MarkedFirst ==
    ASSUME NEW line \in Seq(Keys), NEW d \in 0 .. Len(line), \A q \in 1 .. d : line[q] = Space
    PROVE  Marked(line, d, 0, NoWordYet)
<1>1. d \in Nat /\ Len(line) \in Nat /\ SHELL_MAX_ARGS \in Nat \ {0}
  BY ShellAssumption, LenProperties
<1>2. NoWordYet.starts = <<>> /\ NoWordYet.nuls = {} /\ NoWordYet.in_word = FALSE
      /\ Len(NoWordYet.starts) = 0
  BY DEF NoWordYet
<1>3. Before(line, 0 + d + 1) = {}
  <2>1. \A q \in 1 .. Len(line) : q < 0 + d + 1 => q \in 1 .. d
    BY <1>1
  <2> QED
    BY <2>1 DEF Before, WordStarts
<1>4. Cardinality(Before(line, 0 + d + 1)) = 0
  BY <1>3, FS_EmptySet
<1>5. Reached(NoWordYet, 0) = 0
  BY <1>1, <1>2 DEF Reached
<1> QED
  BY <1>1, <1>2, <1>4, <1>5 DEF Marked, Numbered

(* One character more: a blank is marked until the last argument has begun, *)
(* and a word begins behind a blank.                                       *)
LEMMA MarkedNext ==
    ASSUME NEW line \in Seq(Keys), NEW d \in 0 .. Len(line), \A q \in 1 .. d : line[q] = Space,
           NEW p \in 1 .. Len(line) - d, NEW s \in Parsed(Len(line) - d),
           Marked(line, d, p - 1, s)
    PROVE  Marked(line, d, p, ParseChar(s, p, line[p + d]))
<1>1. /\ d \in Nat /\ Len(line) \in Nat /\ SHELL_MAX_ARGS \in Nat \ {0} /\ p \in Nat /\ p > 0
      /\ p + d \in 1 .. Len(line) /\ p + d \in Nat /\ p - 1 + d + 1 = p + d
  BY ShellAssumption, LenProperties
<1>2. /\ s.starts \in Seq(1 .. Len(line) - d) /\ s.nuls \in SUBSET (1 .. Len(line) - d)
      /\ s.in_word \in BOOLEAN /\ Len(s.starts) \in Nat
  BY LenProperties DEF Parsed
<1>3. PICK n \in Nat : n = Len(s.starts)
  BY <1>2
<1>4. \A k \in 1 .. n : s.starts[k] \in 1 .. Len(line) - d
  BY <1>2, <1>3, ElementOfSeq
<1>5. CASE n = SHELL_MAX_ARGS
  <2>1. ParseChar(s, p, line[p + d]) = s
    BY <1>3, <1>5 DEF ParseChar
  <2>2. Reached(s, p - 1) = Reached(s, p)
    BY <1>3, <1>5 DEF Reached
  <2>3. \A k \in 1 .. Len(s.starts) : s.starts[k] <= p
    BY <1>1, <1>3, <1>4 DEF Marked
  <2>4. Len(s.starts) <= SHELL_MAX_ARGS /\ Numbered(line, d, s.starts)
    BY DEF Marked
  <2>5. \A q \in 1 .. Len(line) - d : q \in s.nuls <=> q <= Reached(s, p) /\ line[q + d] = Space
    BY <2>2 DEF Marked
  <2>6. ~(Len(s.starts) < SHELL_MAX_ARGS)
    BY <1>1, <1>3, <1>5
  <2> QED
    BY <2>1, <2>3, <2>4, <2>5, <2>6 DEF Marked
<1>6. CASE n # SHELL_MAX_ARGS /\ line[p + d] = Space
  <2> DEFINE t == ParseChar(s, p, line[p + d])
  <2>1. t.starts = s.starts /\ t.nuls = s.nuls \cup {p} /\ t.in_word = FALSE
    BY <1>2, <1>3, <1>6 DEF ParseChar, Parsed
  <2> HIDE DEF t
  <2>2. n < SHELL_MAX_ARGS
    BY <1>1, <1>3, <1>6 DEF Marked
  <2>3. p + d \notin WordStarts(line)
    BY <1>6 DEF WordStarts
  <2>4. Cardinality(Before(line, p + d + 1)) = n
    BY <1>1, <1>3, <2>2, <2>3, CountOne DEF Marked
  <2>5. Reached(s, p - 1) = p - 1 /\ Reached(t, p) = p
    BY <1>1, <1>3, <2>1, <2>2 DEF Reached
  <2>6. ASSUME NEW q \in 1 .. Len(line) - d
        PROVE  q \in t.nuls <=> q <= p /\ line[q + d] = Space
    <3>1. q \in s.nuls <=> q <= p - 1 /\ line[q + d] = Space
      BY <2>5 DEF Marked
    <3>2. q <= p <=> q <= p - 1 \/ q = p
      BY <1>1
    <3> QED
      BY <1>6, <2>1, <3>1, <3>2
  <2>7. \A k \in 1 .. Len(t.starts) : t.starts[k] <= p
    BY <1>1, <1>3, <1>4, <2>1 DEF Marked
  <2>8. Len(t.starts) <= SHELL_MAX_ARGS /\ Numbered(line, d, t.starts)
    BY <2>1 DEF Marked
  <2>9. t.in_word <=> p > 0 /\ line[p + d] # Space
    BY <1>6, <2>1
  <2> QED
    BY <1>3, <2>1, <2>4, <2>5, <2>6, <2>7, <2>8, <2>9 DEF Marked, t
<1>7. CASE n # SHELL_MAX_ARGS /\ line[p + d] # Space /\ s.in_word
  <2>1. ParseChar(s, p, line[p + d]) = s
    BY <1>3, <1>7 DEF ParseChar
  <2>2. n < SHELL_MAX_ARGS
    BY <1>1, <1>3, <1>7 DEF Marked
  <2>3. p - 1 > 0 /\ line[p - 1 + d] # Space
    BY <1>3, <1>7, <2>2 DEF Marked
  <2>4. p + d \notin WordStarts(line)
    <3>1. p + d > 1 /\ p + d - 1 = p - 1 + d
      BY <1>1, <2>3
    <3> QED
      BY <2>3, <3>1 DEF WordStarts
  <2>5. Cardinality(Before(line, p + d + 1)) = n
    BY <1>1, <1>3, <2>2, <2>4, CountOne DEF Marked
  <2>6. Reached(s, p - 1) = p - 1 /\ Reached(s, p) = p
    BY <1>1, <1>3, <2>2 DEF Reached
  <2>7. ASSUME NEW q \in 1 .. Len(line) - d
        PROVE  q \in s.nuls <=> q <= p /\ line[q + d] = Space
    <3>1. q \in s.nuls <=> q <= p - 1 /\ line[q + d] = Space
      BY <2>6 DEF Marked
    <3>2. q <= p <=> q <= p - 1 \/ q = p
      BY <1>1
    <3> QED
      BY <1>7, <3>1, <3>2
  <2>8. \A k \in 1 .. Len(s.starts) : s.starts[k] <= p
    BY <1>1, <1>3, <1>4 DEF Marked
  <2>9. Len(s.starts) <= SHELL_MAX_ARGS /\ Numbered(line, d, s.starts)
    BY DEF Marked
  <2> QED
    BY <1>1, <1>3, <1>7, <2>1, <2>5, <2>6, <2>7, <2>8, <2>9 DEF Marked
<1>8. CASE n # SHELL_MAX_ARGS /\ line[p + d] # Space /\ ~s.in_word
  <2> DEFINE t == ParseChar(s, p, line[p + d])
  <2>1. t.starts = Append(s.starts, p) /\ t.nuls = s.nuls /\ t.in_word = TRUE
    BY <1>2, <1>3, <1>8 DEF ParseChar, Parsed
  <2> HIDE DEF t
  <2>2. n < SHELL_MAX_ARGS
    BY <1>1, <1>3, <1>8 DEF Marked
  <2>3. ~(p - 1 > 0 /\ line[p - 1 + d] # Space)
    BY <1>3, <1>8, <2>2 DEF Marked
  <2>4. p + d \in WordStarts(line)
    <3>1. ASSUME p + d > 1 PROVE line[p + d - 1] = Space
      <4>1. CASE p = 1
        <5>1. p + d - 1 = d /\ d \in 1 .. d
          BY <1>1, <3>1, <4>1
        <5> QED
          BY <5>1
      <4>2. CASE p > 1
        <5>1. p + d - 1 = p - 1 + d /\ p - 1 > 0
          BY <1>1, <4>2
        <5> QED
          BY <2>3, <5>1
      <4> QED
        BY <1>1, <4>1, <4>2
    <3> QED
      BY <1>1, <1>8, <3>1 DEF WordStarts
  <2>5. Cardinality(Before(line, p + d)) = n
    BY <1>1, <1>3, <2>2 DEF Marked
  <2>6. Cardinality(Before(line, p + d + 1)) = n + 1
    BY <1>1, <2>4, <2>5, CountOne
  <2>7. /\ Len(t.starts) = n + 1 /\ t.starts[n + 1] = p
        /\ \A k \in 1 .. n : t.starts[k] = s.starts[k]
    BY <1>2, <1>3, <2>1, AppendProperties
  <2>8. Reached(s, p - 1) = p - 1 /\ Reached(t, p) = p
    BY <1>1, <1>3, <2>2, <2>7 DEF Reached
  <2>9. ASSUME NEW q \in 1 .. Len(line) - d
        PROVE  q \in t.nuls <=> q <= p /\ line[q + d] = Space
    <3>1. q \in s.nuls <=> q <= p - 1 /\ line[q + d] = Space
      BY <2>8 DEF Marked
    <3>2. q <= p <=> q <= p - 1 \/ q = p
      BY <1>1
    <3> QED
      BY <1>8, <2>1, <3>1, <3>2
  <2>10. ASSUME NEW k \in 1 .. n + 1
         PROVE  /\ t.starts[k] <= p /\ t.starts[k] + d \in WordStarts(line)
                /\ Cardinality(Before(line, t.starts[k] + d)) = k - 1
    <3>1. CASE k = n + 1
      BY <1>1, <2>4, <2>5, <2>7, <3>1
    <3>2. CASE k # n + 1
      <4>1. k \in 1 .. n
        BY <3>2
      <4>2. t.starts[k] = s.starts[k] /\ s.starts[k] \in 1 .. Len(line) - d /\ s.starts[k] <= p - 1
        BY <1>3, <1>4, <2>7, <4>1 DEF Marked
      <4> QED
        BY <1>1, <1>3, <4>1, <4>2 DEF Marked, Numbered
    <3> QED
      BY <3>1, <3>2
  <2>11. Len(t.starts) <= SHELL_MAX_ARGS
    BY <1>1, <2>2, <2>7
  <2>12. Numbered(line, d, t.starts)
    BY <2>7, <2>10 DEF Numbered
  <2>13. t.in_word <=> p > 0 /\ line[p + d] # Space
    BY <1>1, <1>8, <2>1
  <2> QED
    BY <2>6, <2>7, <2>8, <2>9, <2>10, <2>11, <2>12, <2>13 DEF Marked, t
<1> QED
  BY <1>2, <1>5, <1>6, <1>7, <1>8

(* So it is with all of what is left of the line. *)
LEMMA MarkedAll ==
    ASSUME NEW line \in Seq(Keys), NEW d \in 0 .. Len(line), \A q \in 1 .. d : line[q] = Space,
           NEW cmd \in Seq(Keys), Len(cmd) = Len(line) - d,
           \A q \in 1 .. Len(cmd) : cmd[q] = line[q + d]
    PROVE  Marked(line, d, Len(cmd), parse_command(cmd))
<1>1. Len(cmd) \in Nat
  BY LenProperties
<1>2. PICK parsed : /\ parse_command(cmd) = parsed[Len(cmd)] /\ parsed[0] = NoWordYet
                    /\ \A p \in 1 .. Len(cmd) : parsed[p] = ParseChar(parsed[p - 1], p, cmd[p])
                    /\ \A p \in 0 .. Len(cmd) : parsed[p] \in Parsed(Len(cmd))
  BY ParseSteps
<1> DEFINE Q == {p \in 0 .. Len(cmd) : Marked(line, d, p, parsed[p])}
<1>3. 0 \in Q
  <2>1. 0 \in 0 .. Len(cmd)
    BY <1>1
  <2> QED
    BY <1>2, <2>1, MarkedFirst
<1>4. ASSUME NEW p \in 1 .. Len(cmd), p - 1 \in Q PROVE p \in Q
  <2>1. p \in 0 .. Len(cmd) /\ p - 1 \in 0 .. Len(cmd) /\ p \in 1 .. Len(line) - d
    BY <1>1
  <2>2. Marked(line, d, p - 1, parsed[p - 1]) /\ parsed[p - 1] \in Parsed(Len(line) - d)
    BY <1>2, <1>4, <2>1
  <2>3. parsed[p] = ParseChar(parsed[p - 1], p, line[p + d])
    BY <1>2
  <2>4. Marked(line, d, p, parsed[p])
    BY <2>1, <2>2, <2>3, MarkedNext
  <2> QED
    BY <2>1, <2>4
<1>5. Len(cmd) \in Q
  <2>1. Len(cmd) \in 0 .. Len(cmd)
    BY <1>1
  <2> HIDE DEF Q
  <2>2. \A p \in 1 .. Len(cmd) : p - 1 \in Q => p \in Q
    BY <1>4
  <2> QED
    BY <1>1, <1>3, <2>1, <2>2, Upward
<1> QED
  BY <1>2, <1>5

(* A word ends before the first blank behind it, or with the line. *)
LEMMA EndIs ==
    ASSUME NEW line \in Seq(Keys), NEW p \in Nat, NEW e \in p .. Len(line),
           \A q \in p .. e : line[q] # Space, e < Len(line) => line[e + 1] = Space
    PROVE  WordEnd(line, p) = e
<1>1. Len(line) \in Nat
  BY LenProperties
<1>2. ASSUME NEW f \in p .. Len(line),
             \A q \in p .. f : line[q] # Space, f < Len(line) => line[f + 1] = Space
      PROVE  f = e
  <2>1. ~(f < e)
    <3>1. f < e => f < Len(line) /\ f + 1 \in p .. e
      BY <1>1
    <3> QED
      BY <1>2, <3>1
  <2>2. ~(e < f)
    <3>1. e < f => e < Len(line) /\ e + 1 \in p .. f
      BY <1>1
    <3> QED
      BY <1>2, <3>1
  <2> QED
    BY <1>1, <2>1, <2>2
<1> QED
  BY <1>2 DEF WordEnd

(* Where the string that begins with a word ends. *)
LEMMA StringIs ==
    ASSUME NEW line \in Seq(Keys), NEW d \in 0 .. Len(line), NEW n \in Nat, n = Len(line) - d,
           NEW s \in Parsed(n), Marked(line, d, n, s), NEW k \in 1 .. Len(s.starts)
    PROVE  /\ s.starts[k] \in 1 .. n
           /\ \E m \in s.starts[k] .. n :
                 /\ Min({b \in s.nuls \cup {n + 1} : b >= s.starts[k]}) = m + 1
                 /\ m + d = IF k = SHELL_MAX_ARGS THEN Len(line) ELSE WordEnd(line, s.starts[k] + d)
<1>0. /\ Len(line) \in Nat /\ d \in Nat /\ SHELL_MAX_ARGS \in Nat \ {0}
      /\ s.starts \in Seq(1 .. n) /\ s.nuls \in SUBSET (1 .. n)
  BY ShellAssumption, LenProperties DEF Parsed
<1>1. PICK l \in Nat : l = Len(s.starts) /\ k \in 1 .. l /\ l <= SHELL_MAX_ARGS
  BY <1>0, LenProperties DEF Marked
<1>2. \A i \in 1 .. l : s.starts[i] \in 1 .. n
  BY <1>0, <1>1, ElementOfSeq
<1>3. PICK a \in 1 .. n : a = s.starts[k]
  BY <1>1, <1>2
<1>4. a + d \in WordStarts(line) /\ Cardinality(Before(line, a + d)) = k - 1
  BY <1>1, <1>3 DEF Marked, Numbered
<1>5. line[a + d] # Space
  BY <1>4 DEF WordStarts
<1> DEFINE S == {b \in s.nuls \cup {n + 1} : b >= a}
<1>6. S \in SUBSET Nat /\ n + 1 \in S
  <2>1. \A b \in s.nuls \cup {n + 1} : b \in Nat
    BY <1>0
  <2> QED
    BY <2>1
<1>7. PICK m \in Int : m = Min(S) - 1
  <2> HIDE DEF S
  <2>1. Min(S) \in Nat
    BY <1>6, Least
  <2> QED
    BY <2>1
<1>8. m + 1 = Min(S) /\ m + 1 \in S /\ \A b \in S : m + 1 <= b
  <2> HIDE DEF S
  <2>1. Min(S) \in Nat /\ Min(S) \in S /\ \A b \in S : Min(S) <= b
    BY <1>6, Least
  <2> QED
    BY <1>7, <2>1
<1>9. \A q \in 1 .. n : q \in s.nuls <=> q <= Reached(s, n) /\ line[q + d] = Space
  BY <1>0 DEF Marked
<1>10. m + 1 \in s.nuls \cup {n + 1} /\ m + 1 >= a /\ m + 1 <= n + 1
  BY <1>6, <1>8
<1>11. m \in a .. n
  <2>1. ASSUME m + 1 = a PROVE FALSE
    <3>1. a # n + 1
      OBVIOUS
    <3>2. a \in s.nuls
      BY <1>10, <2>1, <3>1
    <3> QED
      BY <1>5, <1>9, <3>2
  <2> QED
    BY <1>10, <2>1
<1>12. \A b \in s.nuls : b >= a => m + 1 <= b
  BY <1>8
<1>13. CASE k = SHELL_MAX_ARGS
  <2>1. Reached(s, n) = a
    BY <1>1, <1>3, <1>13 DEF Reached
  <2>2. m + 1 \notin s.nuls
    <3>1. ~(m + 1 <= a)
      BY <1>11
    <3>2. m + 1 \in s.nuls => m + 1 \in 1 .. n
      BY <1>0
    <3> QED
      BY <1>9, <2>1, <3>1, <3>2
  <2>3. m = n
    BY <1>10, <2>2
  <2>4. m + d = Len(line)
    BY <1>0, <2>3
  <2> QED
    BY <1>3, <1>8, <1>11, <1>13, <2>4
<1>14. CASE k # SHELL_MAX_ARGS
  <2>1. ASSUME NEW q \in a + d .. m + d, line[q] = Space PROVE FALSE
    <3>1. PICK b \in a .. m : b + d = q
      <4>1. q - d \in a .. m /\ (q - d) + d = q
        BY <1>0
      <4> QED
        BY <4>1
    <3>2. b \in 1 .. n /\ ~(m + 1 <= b) /\ b >= a
      BY <1>11
    <3>3. ~(b <= Reached(s, n))
      BY <1>9, <1>12, <2>1, <3>1, <3>2
    <3>4. l = SHELL_MAX_ARGS
      BY <1>1, <3>2, <3>3 DEF Reached
    <3>5. PICK t \in 1 .. n : t = s.starts[l] /\ Reached(s, n) = t
      BY <1>1, <1>2, <3>4 DEF Reached
    <3>6. t + d \in WordStarts(line) /\ Cardinality(Before(line, t + d)) = l - 1
      BY <1>1, <3>4, <3>5 DEF Marked, Numbered
    <3>7. a < t
      <4>1. k < l
        BY <1>1, <1>14, <3>4
      <4>2. ~(t + d < a + d) /\ t # a
        BY <1>1, <1>4, <3>6, <4>1, CountOrder
      <4> QED
        BY <1>0, <4>2
    <3>8. t + d > 1 /\ t + d - 1 = (t - 1) + d /\ t - 1 \in 1 .. n /\ t - 1 >= a /\ t - 1 <= t
      <4>1. t \in Nat /\ d \in Nat /\ n \in Nat /\ a \in Nat /\ a >= 1 /\ t <= n
        BY <1>0
      <4> QED
        BY <3>7, <4>1
    <3>9. line[(t - 1) + d] = Space
      BY <3>6, <3>8 DEF WordStarts
    <3>10. t - 1 \in s.nuls
      BY <1>9, <3>5, <3>8, <3>9
    <3>11. m + 1 <= t - 1
      BY <1>12, <3>8, <3>10
    <3>12. b <= t
      BY <3>11
    <3> QED
      BY <3>3, <3>5, <3>12
  <2>2. ASSUME m + d < Len(line) PROVE line[m + d + 1] = Space
    <3>1. m < n /\ m + 1 # n + 1 /\ m + 1 \in 1 .. n /\ m + 1 + d = m + d + 1
      BY <1>0, <1>11, <2>2
    <3>2. m + 1 \in s.nuls
      BY <1>10, <3>1
    <3> QED
      BY <1>9, <3>1, <3>2
  <2>3. m + d \in a + d .. Len(line) /\ a + d \in Nat
    BY <1>0, <1>11
  <2>4. WordEnd(line, a + d) = m + d
    BY <2>1, <2>2, <2>3, EndIs
  <2> QED
    BY <1>3, <1>8, <1>11, <1>14, <2>4
<1> QED
  BY <1>13, <1>14

(* The blanks that shell_execute skips are the first d characters. *)
LEMMA BlanksSkipped ==
    ASSUME NEW line \in Seq(Keys)
    PROVE  \E d \in 0 .. Len(line) :
              /\ Len(SkipBlanks(line)) = Len(line) - d
              /\ \A q \in 1 .. d : line[q] = Space
              /\ \A q \in 1 .. Len(line) - d : SkipBlanks(line)[q] = line[q + d]
              /\ d < Len(line) => line[d + 1] # Space
<1> DEFINE Solid == {p \in 1 .. Len(line) : line[p] # Space}
           S == Solid \cup {Len(line) + 1}
<1>1. PICK l \in Nat : l = Len(line)
  BY LenProperties
<1>2. S \in SUBSET Nat /\ l + 1 \in S /\ \A p \in S : p \in 1 .. l + 1
  BY <1>1
<1>3. \A q \in 1 .. l : line[q] # Space => q \in S
  BY <1>1
<1>4. \A q \in S : q # l + 1 => line[q] # Space
  BY <1>1
<1>5. SkipBlanks(line) = SubSeq(line, Min(S), l)
  BY <1>1 DEF SkipBlanks
<1> HIDE DEF S
<1>6. Min(S) \in S /\ \A q \in S : Min(S) <= q
  BY <1>2, Least
<1>7. PICK d \in 0 .. l : d + 1 = Min(S)
  <2>1. Min(S) \in 1 .. l + 1
    BY <1>2, <1>6
  <2>2. Min(S) - 1 \in 0 .. l /\ (Min(S) - 1) + 1 = Min(S)
    BY <2>1
  <2> QED
    BY <2>2
<1>8. ASSUME NEW q \in 1 .. d PROVE line[q] = Space
  <2>1. q \in 1 .. l /\ ~(d + 1 <= q)
    OBVIOUS
  <2> QED
    BY <1>3, <1>6, <1>7, <2>1
<1>9. d < l => line[d + 1] # Space
  BY <1>4, <1>6, <1>7
<1>10. /\ Len(SkipBlanks(line)) = l - d
       /\ \A q \in 1 .. l - d : SkipBlanks(line)[q] = line[q + d]
  <2>1. \A q \in d + 1 .. l : line[q] \in Keys
    <3>1. \A q \in d + 1 .. l : q \in 1 .. l
      OBVIOUS
    <3> QED
      BY <1>1, <3>1, ElementOfSeq
  <2>0. PICK b \in Int : b = d + 1
    BY <1>1
  <2>2. PICK t : t = SubSeq(line, b, l)
    OBVIOUS
  <2>3. SkipBlanks(line) = t
    BY <1>5, <1>7, <2>0, <2>2
  <2>4. /\ Len(t) = IF b <= l THEN l - b + 1 ELSE 0
        /\ \A q \in 1 .. l - b + 1 : t[q] = line[b + q - 1]
    BY <2>0, <2>1, <2>2, SubSeqProperties
  <2>5. \A q \in 1 .. l - d : b + q - 1 = q + d /\ q \in 1 .. l - b + 1
    BY <2>0
  <2>6. Len(t) = l - d
    BY <2>0, <2>4
  <2> QED
    BY <2>3, <2>4, <2>5, <2>6
<1> QED
  BY <1>1, <1>8, <1>9, <1>10

(* There are as many strings as words are wanted. *)
LEMMA NumberIs ==
    ASSUME NEW line \in Seq(Keys), NEW d \in 0 .. Len(line), NEW n \in Nat, n = Len(line) - d,
           NEW s \in Parsed(n), Marked(line, d, n, s)
    PROVE  Len(s.starts) = Min({Cardinality(WordStarts(line)), SHELL_MAX_ARGS})
<1> DEFINE S == {Cardinality(WordStarts(line)), SHELL_MAX_ARGS}
<1>1. /\ Len(line) \in Nat /\ d \in Nat /\ n + d + 1 = Len(line) + 1
      /\ SHELL_MAX_ARGS \in Nat \ {0} /\ s.starts \in Seq(1 .. n)
  BY ShellAssumption, LenProperties DEF Parsed
<1>2. PICK l \in Nat, c \in Nat : l = Len(s.starts) /\ c = Cardinality(WordStarts(line))
  BY <1>1, Counting, LenProperties
<1>3. l <= c /\ l <= SHELL_MAX_ARGS /\ (l = c \/ l = SHELL_MAX_ARGS)
  <2>1. CASE l = SHELL_MAX_ARGS
    <3>0. l \in 1 .. l
      BY <1>1, <2>1
    <3>1. s.starts[l] \in 1 .. n
      BY <1>1, <1>2, <3>0, ElementOfSeq
    <3>2. PICK p \in Nat : p = s.starts[l] + d
      BY <1>1, <3>1
    <3>3. p \in WordStarts(line) /\ Cardinality(Before(line, p)) = l - 1
      BY <1>2, <3>0, <3>2 DEF Marked, Numbered
    <3>4. Cardinality(Before(line, p + 1)) = l
      BY <3>3, CountOne
    <3>5. Before(line, p + 1) \in SUBSET WordStarts(line)
      BY Counting
    <3>6. Cardinality(Before(line, p + 1)) <= c
      BY <1>2, <3>5, Counting, FS_Subset
    <3> QED
      BY <2>1, <3>4, <3>6
  <2>2. CASE l # SHELL_MAX_ARGS
    <3>1. l < SHELL_MAX_ARGS
      BY <1>1, <1>2, <2>2 DEF Marked
    <3>2. Cardinality(Before(line, n + d + 1)) = l
      BY <1>2, <3>1 DEF Marked
    <3> QED
      BY <1>1, <1>2, <3>1, <3>2, CountAll
  <2> QED
    BY <2>1, <2>2
<1>4. S \in SUBSET Nat /\ S = {c, SHELL_MAX_ARGS}
  BY <1>1, <1>2
<1>5. Min(S) \in S /\ \A y \in S : Min(S) <= y
  <2>1. S # {}
    OBVIOUS
  <2> HIDE DEF S
  <2> QED
    BY <1>4, <2>1, Least
<1>6. Min(S) \in {c, SHELL_MAX_ARGS} /\ Min(S) <= c /\ Min(S) <= SHELL_MAX_ARGS
  BY <1>4, <1>5
<1>7. Min(S) = l
  <2> HIDE DEF S
  <2>1. PICK x \in {c, SHELL_MAX_ARGS} : x = Min(S) /\ x <= c /\ x <= SHELL_MAX_ARGS
    BY <1>6
  <2> QED
    BY <1>1, <1>3, <2>1
<1> QED
  BY <1>2, <1>7

(* Part of what is left of a line is part of the line. *)
LEMMA PartOfRest ==
    ASSUME NEW line \in Seq(Keys), NEW d \in 0 .. Len(line), NEW cmd,
           \A q \in 1 .. Len(line) - d : cmd[q] = line[q + d],
           NEW a \in 1 .. Len(line) - d, NEW m \in a .. Len(line) - d
    PROVE  SubSeq(cmd, a, m) = SubSeq(line, a + d, m + d)
<1>1. PICK l \in Nat : l = Len(line) /\ d \in Nat
  BY LenProperties
<1>2. PICK b \in Int, e \in Int : b = a + d /\ e = m + d
  BY <1>1
<1>3. PICK t, u : t = SubSeq(cmd, a, m) /\ u = SubSeq(line, b, e)
  OBVIOUS
<1>4. \A q \in b .. e : q \in 1 .. l
  BY <1>1, <1>2
<1>5. \A q \in b .. e : line[q] \in Keys
  BY <1>1, <1>4, ElementOfSeq
<1>6. \A q \in a .. m : q \in 1 .. l - d /\ q + d \in b .. e
  BY <1>1, <1>2
<1>7. \A q \in a .. m : cmd[q] \in Keys
  BY <1>1, <1>5, <1>6
<1>8. /\ t \in Seq(Keys) /\ Len(t) = (IF a <= m THEN m - a + 1 ELSE 0)
      /\ \A i \in 1 .. m - a + 1 : t[i] = cmd[a + i - 1]
  <2>1. a \in Int /\ m \in Int
    BY <1>1
  <2> QED
    BY <1>3, <1>7, <2>1, SubSeqProperties
<1>9. /\ u \in Seq(Keys) /\ Len(u) = (IF b <= e THEN e - b + 1 ELSE 0)
      /\ \A i \in 1 .. e - b + 1 : u[i] = line[b + i - 1]
  BY <1>3, <1>5, SubSeqProperties
<1>10. (IF a <= m THEN m - a + 1 ELSE 0) = m - a + 1 /\ (IF b <= e THEN e - b + 1 ELSE 0) = m - a + 1
       /\ e - b + 1 = m - a + 1
  BY <1>1, <1>2
<1>11. ASSUME NEW i \in 1 .. m - a + 1 PROVE t[i] = u[i]
  <2>1. PICK q \in a .. m : q = a + i - 1 /\ q + d = b + i - 1
    <3>1. a + i - 1 \in a .. m /\ (a + i - 1) + d = b + i - 1
      BY <1>1, <1>2
    <3> QED
      BY <3>1
  <2>2. cmd[q] = line[q + d]
    BY <1>1, <1>6
  <2> QED
    BY <1>8, <1>9, <1>10, <2>1, <2>2
<1>12. t = u
  BY <1>8, <1>9, <1>10, <1>11, SeqEqual
<1> QED
  BY <1>2, <1>3, <1>12

(* What shell_execute makes of a line. *)
LEMMA WordsAre ==
    ASSUME NEW line \in Seq(Keys), shell_execute(line)
    PROVE  /\ argv' = Words(line)
           /\ ran' = IF argv' = <<>> THEN None
                     ELSE IF argv'[1] \in Commands THEN argv'[1] ELSE Unknown
<1>1. PICK d \in 0 .. Len(line) :
         /\ Len(SkipBlanks(line)) = Len(line) - d
         /\ \A q \in 1 .. d : line[q] = Space
         /\ \A q \in 1 .. Len(line) - d : SkipBlanks(line)[q] = line[q + d]
         /\ d < Len(line) => line[d + 1] # Space
  BY BlanksSkipped
<1>2. PICK cmd : cmd = SkipBlanks(line)
  OBVIOUS
<1>3. PICK n \in Nat : n = Len(line) - d /\ Len(cmd) = n
  <2>1. Len(line) \in Nat
    BY LenProperties
  <2> QED
    BY <1>1, <1>2, <2>1
<1>4. PICK s : s = parse_command(cmd)
  OBVIOUS
<1>5. cmd \in Seq(Keys)
  BY <1>2, SkipBlanksType
<1>6. s \in Parsed(n)
  BY <1>3, <1>4, <1>5, ParseType
<1>7. Marked(line, d, n, s)
  BY <1>1, <1>2, <1>3, <1>4, <1>5, MarkedAll
<1>8. PICK l \in Nat : /\ l = Len(s.starts) /\ DOMAIN s.starts = 1 .. l
                       /\ l = Min({Cardinality(WordStarts(line)), SHELL_MAX_ARGS})
  <2>1. s.starts \in Seq(1 .. n)
    BY <1>6 DEF Parsed
  <2>2. Len(s.starts) \in Nat /\ DOMAIN s.starts = 1 .. Len(s.starts)
    BY <2>1, LenProperties
  <2> QED
    BY <1>3, <1>6, <1>7, <2>2, NumberIs
<1>9. ASSUME NEW k \in 1 .. l
      PROVE  StringAt(cmd, s.nuls, s.starts[k]) =
             SubSeq(line, WordStart(line, k),
                    IF k = SHELL_MAX_ARGS THEN Len(line) ELSE WordEnd(line, WordStart(line, k)))
  <2>1. PICK a \in 1 .. n : a = s.starts[k]
    BY <1>3, <1>6, <1>7, <1>8, StringIs
  <2>2. PICK m \in a .. n :
           /\ Min({b \in s.nuls \cup {n + 1} : b >= a}) = m + 1
           /\ m + d = IF k = SHELL_MAX_ARGS THEN Len(line) ELSE WordEnd(line, a + d)
    <3>0. k \in 1 .. Len(s.starts) /\ n = Len(line) - d
      BY <1>3, <1>8
    <3>1. \E m \in s.starts[k] .. n :
             /\ Min({b \in s.nuls \cup {n + 1} : b >= s.starts[k]}) = m + 1
             /\ m + d = IF k = SHELL_MAX_ARGS THEN Len(line) ELSE WordEnd(line, s.starts[k] + d)
      BY <1>6, <1>7, <3>0, StringIs, Zenon
    <3> QED
      BY <2>1, <3>1
  <2>3. WordStart(line, k) = a + d
    <3>1. a + d \in WordStarts(line) /\ Cardinality(Before(line, a + d)) = k - 1
      BY <1>7, <1>8, <2>1 DEF Marked, Numbered
    <3> QED
      BY <3>1, StartIs
  <2>4. StringAt(cmd, s.nuls, a) = SubSeq(cmd, a, m)
    <3>1. (m + 1) - 1 = m
      OBVIOUS
    <3> QED
      BY <1>3, <2>2, <3>1 DEF StringAt
  <2>5. SubSeq(cmd, a, m) = SubSeq(line, a + d, m + d)
    <3>1. a \in 1 .. Len(line) - d /\ m \in a .. Len(line) - d
      BY <1>3
    <3> QED
      BY <1>1, <1>2, <3>1, PartOfRest
  <2> QED
    BY <2>1, <2>2, <2>3, <2>4, <2>5
<1>10. CASE cmd = <<>>
  <2>1. ran' = None /\ argv' = <<>>
    BY <1>2, <1>10 DEF shell_execute
  <2>2. l = 0
    <3>1. n = 0
      BY <1>3, <1>10
    <3>2. s.starts \in Seq(1 .. 0)
      BY <1>6, <3>1 DEF Parsed
    <3>3. l = 0
      <4>1. ASSUME l > 0 PROVE FALSE
        <5>1. 1 \in 1 .. l
          BY <4>1
        <5>2. s.starts[1] \in 1 .. 0
          BY <1>8, <3>2, <5>1, ElementOfSeq
        <5> QED
          BY <5>2
      <4> QED
        BY <4>1
    <3> QED
      BY <3>3
  <2>3. PICK w : w = Words(line)
    OBVIOUS
  <2>4. w \in [1 .. 0 -> {}]
    BY <1>8, <2>2, <2>3 DEF Words
  <2>5. w = <<>>
    <3>1. w \in Seq({}) /\ Len(w) = 0
      BY <2>4, FunctionIsSeq
    <3> QED
      BY <3>1, EmptySeq
  <2> QED
    BY <2>1, <2>3, <2>5
<1>11. CASE cmd # <<>>
  <2>1. /\ argv' = [k \in DOMAIN s.starts |-> StringAt(cmd, s.nuls, s.starts[k])]
        /\ ran' = IF argv'[1] \in Commands THEN argv'[1] ELSE Unknown
    BY <1>2, <1>4, <1>11 DEF shell_execute
  <2>2. argv' = Words(line)
    BY <1>8, <1>9, <2>1 DEF Words
  <2>3. l # 0
    <3>1. n # 0
      BY <1>3, <1>5, <1>11, EmptySeq
    <3>2. d + 1 \in WordStarts(line)
      <4>1. d + 1 \in 1 .. Len(line) /\ d < Len(line)
        BY <1>3, <3>1
      <4>2. d + 1 > 1 => (d + 1) - 1 \in 1 .. d
        BY <1>3
      <4> QED
        BY <1>1, <4>1, <4>2 DEF WordStarts
    <3>3. Cardinality(WordStarts(line)) \in Nat \ {0}
      BY <3>2, Counting, FS_EmptySet
    <3>4. PICK c \in Nat \ {0}, x \in Nat \ {0} : c = Cardinality(WordStarts(line)) /\ x = SHELL_MAX_ARGS
      BY <3>3, ShellAssumption
    <3> DEFINE S == {c, x}
    <3>5. Min(S) \in S
      <4>1. S \in SUBSET Nat /\ S # {}
        OBVIOUS
      <4> HIDE DEF S
      <4> QED
        BY <4>1, Least
    <3> QED
      BY <1>8, <3>4, <3>5
  <2>4. argv' # <<>>
    BY <1>8, <2>1, <2>3
  <2> QED
    BY <2>1, <2>2, <2>4
<1> QED
  BY <1>10, <1>11


-----------------------------------------------------------------------------
(* The theorems *)

(* While it is not scrolled back, the screen shows the end of the ring, the *)
(* current line in the row of the cursor; scrolled back, the view stays in  *)
(* the ring (terminal_putchar, redraw_screen and the calls that scroll).    *)
THEOREM ScreenIsTail == Spec => []ScreenShowsTail
<1>1. Inv => ScreenShowsTail
  BY DEF Inv, TermInv
<1> QED
  BY <1>1, Invariance, PTL

(* The ring implements the list of the last lines written, with newlines,  *)
(* backspaces and clears at any place: add_new_line, terminal_putchar,     *)
(* terminal_backspace and terminal_clear refine the actions of Scrollback. *)
THEOREM RingIsTail == Spec => RingHoldsTail
<1>1. Init => Abs!Init
  <2> SUFFICES ASSUME Init PROVE Abs!Init
    OBVIOUS
  <2>1. TermInv
    BY Initially DEF Inv
  <2>2. buffer_count = 1 /\ line_buffer = EmptyBuffer /\ buffer_start = 0
    BY DEF Init, terminal_init
  <2>3. Slot(0, 0) = 0 /\ 0 \in Slots
    BY Constants, SlotIs DEF Slots
  <2>4. get_line(0) = EmptyLine
    BY <2>2, <2>3, Constants DEF get_line, EmptyBuffer, Slots
  <2>5. Remembered = <<<<>>>>
    BY <2>1, <2>2, <2>4, RememberedNothing
  <2> QED
    BY <2>5 DEF Abs!Init, Remembered
<1>2. ASSUME Inv, Inv', [Next]_vars PROVE Abs!Next \/ UNCHANGED Remembered
  BY <1>2, StepKept, TerminalRemembers DEF Inv
<1>3. Inv /\ Inv' /\ [Next]_vars =>
         [Abs!Next]_([i \in 1 .. buffer_count |-> TextOf(get_line(i - 1))])
  BY <1>2 DEF Remembered
<1> QED
  BY <1>1, <1>3, Invariance, PTL DEF Spec, RingHoldsTail, Abs!Spec

(* However many lines are entered, history holds the last of them, oldest *)
(* first: shell_add_history shifts nothing out of order.                  *)
THEOREM HistoryKept == Spec => HistoryIsRecent
<1>1. ASSUME Inv, [Next]_vars
      PROVE  Recent' = IF command_buffer # <<>> /\ Enter
                       THEN Abs!LastOf(HISTORY_SIZE, Append(Recent, command_buffer))
                       ELSE Recent
  BY <1>1, StepKept, EnterKept
<1> QED
  BY <1>1, Invariance, PTL DEF Spec, HistoryIsRecent

(* The line the user sees after the prompt is the one Enter will run, also   *)
(* after any typing, erasing, scrolling and printing, unless it has wrapped. *)
THEOREM LineShown == Spec => []EchoShown
<1>1. ASSUME Inv PROVE EchoShown
  <2>1. command_buffer \in Line
    <3>1. command_buffer \in [1 .. Len(command_buffer) -> Keys] /\ Len(command_buffer) \in Nat
      BY <1>1, LenProperties DEF Inv, BufferOK
    <3>2. Len(command_buffer) \in 0 .. SHELL_BUFFER_SIZE - 1
      BY <1>1, <3>1, ShellConstants DEF Inv, BufferOK
    <3> QED
      BY <3>1, <3>2 DEF Line, SeqOf
  <2>2. ASSUME todo = <<>>, ~wrapped
        PROVE  TextOf(get_line(buffer_count - 1)) = Prompt \o command_buffer
    <3>1. TermInv /\ command_buffer \in Seq(Chars) /\ Prompt \in Seq(Chars)
      BY <1>1, ShellConstants, SeqMonotonic DEF Inv, BufferOK
    <3>2. PICK n \in Nat, m \in Nat : n = Len(Prompt) /\ m = Len(command_buffer)
      BY <3>1, LenProperties
    <3>3. Len(todo) = 0 /\ n - 0 = n
      BY <2>2
    <3>4. Echo(line_buffer[Current], terminal_col, n, command_buffer)
      BY <1>1, <2>2, <3>2, <3>3 DEF Inv, Echoing
    <3>5. PICK t, u : t = TextOf(line_buffer[Current]) /\ u = Prompt \o command_buffer
      OBVIOUS
    <3>6. /\ t \in Seq(Chars) /\ Len(t) = terminal_col
          /\ \A i \in 1 .. terminal_col : t[i] = line_buffer[Current][i - 1]
      BY <3>1, <3>5, CurrentLine, TextIs
    <3>7. /\ u \in Seq(Chars) /\ Len(u) = n + m
          /\ \A i \in 1 .. n + m : u[i] = IF i <= n THEN Prompt[i] ELSE command_buffer[i - n]
      BY <3>1, <3>2, <3>5, ConcatProperties
    <3>8. /\ terminal_col = n + m
          /\ \A i \in 1 .. n : line_buffer[Current][i - 1] = Prompt[i]
          /\ \A i \in 1 .. m : line_buffer[Current][n + i - 1] = command_buffer[i]
      BY <3>2, <3>4 DEF Echo
    <3>9. ASSUME NEW i \in 1 .. n + m PROVE t[i] = u[i]
      <4>1. CASE i <= n
        <5>1. i \in 1 .. n
          BY <4>1
        <5> QED
          BY <3>6, <3>7, <3>8, <4>1, <5>1
      <4>2. CASE ~(i <= n)
        <5>1. i - n \in 1 .. m /\ n + (i - n) - 1 = i - 1
          BY <4>2
        <5> QED
          BY <3>6, <3>7, <3>8, <4>2, <5>1
      <4> QED
        BY <4>1, <4>2
    <3>10. t = u
      BY <3>6, <3>7, <3>8, <3>9, SeqEqual
    <3> QED
      BY <3>1, <3>5, <3>10, CurrentLine
  <2> QED
    BY <2>1, <2>2 DEF EchoShown
<1>2. Inv => EchoShown
  BY <1>1
<1> QED
  BY <1>2, Invariance, PTL

(* Whatever line is entered, with any blanks before, between and behind its *)
(* words, the handler its first word names is called with exactly its words *)
(* as arguments, the last one allowed being the rest of the line: the NULs  *)
(* parse_command writes end every argument where its word ends.             *)
THEOREM ArgumentsAreWords == Spec => RunsTheWords
<1>1. ASSUME Inv, [Next]_vars, Enter, command_buffer # <<>>
      PROVE  /\ argv' = Words(command_buffer)
             /\ ran' = IF argv' = <<>> THEN None
                       ELSE IF argv'[1] \in Commands THEN argv'[1] ELSE Unknown
  <2>1. command_buffer \in Seq(Keys)
    BY <1>1 DEF Inv, BufferOK
  <2>2. shell_execute(command_buffer)
    BY <1>1 DEF Enter
  <2> QED
    BY <2>1, <2>2, WordsAre
<1> QED
  BY <1>1, Invariance, PTL DEF Spec, RunsTheWords
=============================================================================
