------------------------------ MODULE Terminal ------------------------------
(***************************************************************************)
(* The text terminal of display/terminal.c: a cursor, a ring of the last   *)
(* lines, and the screen, which is drawn in three ways: character by       *)
(* character, by moving its pixels up, and anew from the ring.  While the  *)
(* view is scrolled back, only the ring is written.                        *)
(*                                                                         *)
(* A cell of the screen holds the glyph last drawn there, without colour,  *)
(* or Remains of what was shown before, where it has been cleared in part  *)
(* or nothing has been drawn yet.  The rows of a framebuffer may be longer *)
(* in memory (pitch) than on the screen (width).                           *)
(*                                                                         *)
(* No caller writes '\r', and none runs while another thread is in the     *)
(* terminal: the shell's thread is the only one that prints.  Module Shell *)
(* is that thread.                                                         *)
(***************************************************************************)
EXTENDS Naturals, Sequences, FiniteSets

CONSTANTS Chars,             \* printable characters; one may be Space
          Space,
          max_cols,
          ScreenHeights,     \* the heights a framebuffer can give the screen
          SCROLLBACK_LINES,
          FONT_WIDTH, FONT_HEIGHT, \* of a cell, in pixels
          width,             \* pixels of a row that are shown
          Pitch,             \* and in memory, on a screen of each height
          below              \* rows of pixels below the last row of text

NUL == "\\0"
Remains == "remains"

ASSUME TerminalAssumption ==
    /\ max_cols \in Nat \ {0} /\ ScreenHeights \subseteq Nat \ {0}
    /\ SCROLLBACK_LINES \in Nat \ {0} /\ {NUL, Remains} \cap Chars = {}
    /\ {FONT_WIDTH, FONT_HEIGHT} \subseteq Nat \ {0}
    /\ width \in Nat /\ Pitch \in [ScreenHeights -> Nat] /\ below \in Nat
    /\ max_cols * FONT_WIDTH <= width /\ \A h \in ScreenHeights : width <= Pitch[h]
    /\ below < FONT_HEIGHT

VARIABLES
    max_rows,                    \* set once, by terminal_init
    line_buffer, buffer_start, buffer_count,  \* the ring
    scroll_offset,               \* lines the view is scrolled back
    terminal_row, terminal_col,
    screen                       \* what each cell shows

ring == <<line_buffer, buffer_start, buffer_count>>
cursor == <<terminal_row, terminal_col>>
terminal == <<max_rows, ring, scroll_offset, cursor, screen>>

Columns == 0 .. max_cols - 1
ScreenRows == 0 .. max_rows - 1
EmptyLine == [c \in Columns |-> NUL]
pitch == Pitch[max_rows]
Padded == pitch > width

Slot(start, index) == (start + index) % SCROLLBACK_LINES
get_line(index) == line_buffer[Slot(buffer_start, index)]
Current == Slot(buffer_start, buffer_count - 1)

EmptyBuffer == [i \in 0 .. SCROLLBACK_LINES - 1 |-> EmptyLine]

(* Pixels are cleared as if the rows of the framebuffer had no padding.    *)
fb_clear(s) ==
    LET height == max_rows * FONT_HEIGHT + below
        Pixels(r, c) == (c * FONT_WIDTH .. (c + 1) * FONT_WIDTH - 1)
                            \X (r * FONT_HEIGHT .. (r + 1) * FONT_HEIGHT - 1)
        Cleared(r, c) == {p \in Pixels(r, c) : p[2] * pitch + p[1] < width * height}
        Cell(r, c) == IF Cleared(r, c) = {} THEN s[r][c]
                      ELSE IF Cleared(r, c) = Pixels(r, c) \/ s[r][c] = Space THEN Space
                      ELSE Remains
    IN  [r \in ScreenRows |-> [c \in Columns |-> Cell(r, c)]]

terminal_init ==
    /\ max_rows \in ScreenHeights
    /\ line_buffer = EmptyBuffer /\ buffer_start = 0 /\ buffer_count = 1
    /\ terminal_row = 0 /\ terminal_col = 0
    /\ scroll_offset = 0
    /\ screen = fb_clear([r \in ScreenRows |-> [c \in Columns |-> Remains]])

-----------------------------------------------------------------------------
(* Drawing *)

ScreenRow == IF terminal_row < max_rows THEN terminal_row ELSE max_rows - 1

\* draw_char at column c, when the view shows the current line.
Draw(c, glyph) ==
    IF scroll_offset = 0 THEN [screen EXCEPT ![ScreenRow][c] = glyph] ELSE screen

\* The last row is cleared, but for what moves up from below the text.
hardware_scroll(s) ==
    LET last == [c \in Columns |-> IF below > 0 /\ Padded THEN Remains ELSE Space]
    IN  [r \in ScreenRows |-> IF r + 1 \in ScreenRows THEN s[r + 1] ELSE last]

\* A line of the ring is drawn up to its first NUL.
Drawn(line, row) ==
    [c \in Columns |-> IF \E k \in 0 .. c : line[k] = NUL THEN row[c] ELSE line[c]]

redraw_screen(offset) ==
    LET visible == IF buffer_count < max_rows THEN buffer_count ELSE max_rows
        first == IF buffer_count > max_rows THEN buffer_count - max_rows - offset ELSE 0
        blank == fb_clear(screen)
    IN  [r \in ScreenRows |->
            IF r < visible THEN Drawn(get_line(first + r), blank[r]) ELSE blank[r]]

-----------------------------------------------------------------------------
(* Writing *)

\* add_new_line, after the buffer has become this one.
add_new_line(buffer) ==
    IF buffer_count < SCROLLBACK_LINES
    THEN /\ buffer_count' = buffer_count + 1 /\ UNCHANGED buffer_start
         /\ line_buffer' = [buffer EXCEPT ![Slot(buffer_start, buffer_count)] = EmptyLine]
    ELSE /\ buffer_start' = Slot(buffer_start, 1) /\ UNCHANGED buffer_count
         /\ line_buffer' = [buffer EXCEPT ![Slot(buffer_start, buffer_count)] = EmptyLine]

NextRowOffByOne(drawn) ==  \* Faulty: scrolls one line late.
    /\ terminal_col' = 0
    /\ IF terminal_row >= max_rows /\ scroll_offset = 0
       THEN terminal_row' = max_rows - 1 /\ screen' = hardware_scroll(drawn)
       ELSE terminal_row' = terminal_row + 1 /\ screen' = drawn

\* The cursor goes to the next line of a screen on which drawn is shown.
NextRow(drawn) ==
    /\ terminal_col' = 0
    /\ IF terminal_row + 1 >= max_rows /\ scroll_offset = 0
       THEN terminal_row' = max_rows - 1 /\ screen' = hardware_scroll(drawn)
       ELSE terminal_row' = terminal_row + 1 /\ screen' = drawn

Newline ==
    /\ add_new_line(line_buffer) /\ NextRow(screen)
    /\ UNCHANGED <<max_rows, scroll_offset>>

PutChar(c) ==
    LET written == [line_buffer EXCEPT ![Current][terminal_col] = c]
        drawn == Draw(terminal_col, c)
    IN  /\ \/ /\ terminal_col + 1 < max_cols
              /\ line_buffer' = written /\ screen' = drawn
              /\ terminal_col' = terminal_col + 1
              /\ UNCHANGED <<buffer_start, buffer_count, terminal_row>>
           \/ /\ terminal_col + 1 >= max_cols
              /\ add_new_line(written) /\ NextRow(drawn)
        /\ UNCHANGED <<max_rows, scroll_offset>>

BackspaceOnScreen ==  \* Faulty: the ring keeps the character.
    /\ terminal_col > 0 /\ terminal_col' = terminal_col - 1
    /\ screen' = Draw(terminal_col - 1, Space)
    /\ UNCHANGED <<max_rows, ring, scroll_offset, terminal_row>>

terminal_backspace ==
    /\ terminal_col > 0 /\ terminal_col' = terminal_col - 1
    /\ line_buffer' = [line_buffer EXCEPT ![Current][terminal_col - 1] = NUL]
    /\ screen' = Draw(terminal_col - 1, Space)
    /\ UNCHANGED <<max_rows, buffer_start, buffer_count, scroll_offset, terminal_row>>

terminal_clear ==
    /\ line_buffer' = EmptyBuffer /\ buffer_start' = 0 /\ buffer_count' = 1
    /\ terminal_row' = 0 /\ terminal_col' = 0
    /\ scroll_offset' = 0 /\ screen' = fb_clear(screen)
    /\ UNCHANGED max_rows

-----------------------------------------------------------------------------
(* Scrolling back *)

ScrollTo(offset) ==
    /\ scroll_offset' = offset /\ screen' = redraw_screen(offset)
    /\ UNCHANGED <<max_rows, ring, cursor>>

terminal_scroll_up ==
    /\ buffer_count > max_rows /\ scroll_offset < buffer_count - max_rows
    /\ ScrollTo(scroll_offset + 1)

terminal_scroll_down == scroll_offset # 0 /\ ScrollTo(scroll_offset - 1)
terminal_scroll_to_bottom == scroll_offset # 0 /\ ScrollTo(0)

-----------------------------------------------------------------------------
(* Properties *)

\* A cell shows a character of a line, and is blank behind it, but for the
\* remains that fb_clear leaves of padded rows.
CellShows(cell, char) == IF char = NUL THEN Padded \/ cell = Space ELSE cell = char
BlankRow(row) == \A c \in Columns : CellShows(row[c], NUL)

(* At the bottom the screen shows the last lines of the ring, the current  *)
(* one in the cursor's row, whether it was drawn as it was written, moved  *)
(* up, or drawn anew after any amount of output in the background; and     *)
(* nothing below it.  A view that is scrolled back stays in the ring.      *)
ScreenShowsTail ==
    /\ scroll_offset = 0 =>
          \A i \in 0 .. buffer_count - 1 : \A c \in Columns :
              i <= ScreenRow =>
                  CellShows(screen[ScreenRow - i][c], get_line(buffer_count - 1 - i)[c])
    /\ scroll_offset = 0 => \A r \in ScreenRows : r > ScreenRow => BlankRow(screen[r])
    /\ scroll_offset > 0 => scroll_offset + max_rows <= buffer_count

\* The characters of a line, which ends at its first NUL.
TextOf(line) ==
    LET text == {c \in Columns : \A k \in 0 .. c : line[k] # NUL}
    IN  [c \in 1 .. Cardinality(text) |-> line[c - 1]]

Abs == INSTANCE Scrollback WITH
    Cols <- max_cols, MaxLines <- SCROLLBACK_LINES,
    lines <- [i \in 1 .. buffer_count |-> TextOf(get_line(i - 1))]

(* The ring always holds the last lines of what was written, with the      *)
(* cursor at the end of the last one, wherever the view is.                *)
RingHoldsTail == Abs!Spec
=============================================================================
