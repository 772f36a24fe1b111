-------------------------------- MODULE Shell -------------------------------
(***************************************************************************)
(* The shell of shell/shell.c on the terminal: the line being edited and   *)
(* its echo, the history, how a line becomes a command with arguments, and *)
(* what the command prints, character by character.                        *)
(*                                                                         *)
(* A string is the sequence of its characters before the NUL; buffer_pos   *)
(* is the length of command_buffer.  The handlers that only print text     *)
(* (help, info, uptime, meminfo, ls) are alike: a character and a newline  *)
(* stand for their lines.  Module Files has cat; those that wait, draw or  *)
(* stop the machine are left out.                                          *)
(***************************************************************************)
EXTENDS Terminal, SequencesExt, FiniteSetsExt

CONSTANTS Keys,                \* the printable keys
          Prompt,              \* a string
          ClearName, EchoName, HistoryName, \* names of commands
          Texts,               \* names of the commands that only print
          Mark,                \* stands for any other text
          SHELL_BUFFER_SIZE, HISTORY_SIZE, SHELL_MAX_ARGS,
          MaxRow,              \* bound: rows written while scrolled back
          MaxLater             \* bound: characters of a line after the first

ASSUME ShellAssumption ==
    /\ Space \in Keys /\ Keys \cup {Mark} \subseteq Chars /\ {"\n", "clear"} \cap Chars = {}
    /\ Prompt \in Seq(Chars) /\ Len(Prompt) < max_cols
    /\ SHELL_BUFFER_SIZE \in Nat \ {0} /\ HISTORY_SIZE \in Nat \ {0}
    /\ SHELL_MAX_ARGS \in Nat \ {0}

VARIABLES
    command_buffer,
    history, history_count,
    ran, argv,  \* the last handler called, and with what
    todo,       \* what is still to be printed; "clear" clears the screen
    wrapped     \* the line being edited has filled a row

memory == <<history, history_count>>
call == <<ran, argv>>
vars == <<terminal, command_buffer, memory, call, todo, wrapped>>

None == <<>>                   \* no handler
Unknown == <<Mark>>            \* the message for an unknown command
Commands == {ClearName, EchoName, HistoryName} \cup Texts

\* shell_init: the banner is left out.
Init ==
    /\ terminal_init /\ todo = Prompt /\ wrapped = FALSE
    /\ command_buffer = <<>>
    /\ history = [i \in 0 .. HISTORY_SIZE - 1 |-> <<>>] /\ history_count = 0
    /\ ran = None /\ argv = <<>>

-----------------------------------------------------------------------------
(* add_to_history, and shell_get_history_item's lines, oldest first *)

Recent == [i \in 1 .. history_count |-> history[i - 1]]

Stored(slots, count, cmd) ==
    history' = [slots EXCEPT ![count] = cmd] /\ history_count' = count + 1

ShiftOneTooFew ==  \* Faulty: the last line is not moved.
    [i \in DOMAIN history |-> IF i + 2 \in DOMAIN history THEN history[i + 1] ELSE history[i]]

Shifted ==
    [i \in DOMAIN history |-> IF i + 1 \in DOMAIN history THEN history[i + 1] ELSE history[i]]

add_to_history(cmd) ==
    IF history_count >= HISTORY_SIZE
    THEN Stored(Shifted, HISTORY_SIZE - 1, cmd)
    ELSE Stored(history, history_count, cmd)

-----------------------------------------------------------------------------
(* parse_command: blanks become NULs, until the last argument has begun.   *)

NoWordYet == [starts |-> <<>>, nuls |-> {}, in_word |-> FALSE]

IgnoreLimit(parsed, p, c) ==  \* Faulty: NULs are also written after the last argument.
    IF c = Space THEN [parsed EXCEPT !.nuls = @ \cup {p}, !.in_word = FALSE]
    ELSE IF ~parsed.in_word /\ Len(parsed.starts) < SHELL_MAX_ARGS
    THEN [parsed EXCEPT !.starts = Append(@, p), !.in_word = TRUE]
    ELSE parsed

\* The character c, at position p, after those before it.
ParseChar(parsed, p, c) ==
    IF Len(parsed.starts) = SHELL_MAX_ARGS THEN parsed
    ELSE IF c = Space THEN [parsed EXCEPT !.nuls = @ \cup {p}, !.in_word = FALSE]
    ELSE IF ~parsed.in_word
    THEN [parsed EXCEPT !.starts = Append(@, p), !.in_word = TRUE]
    ELSE parsed

parse_command(cmd) ==
    LET parsed[p \in 0 .. Len(cmd)] ==
            IF p = 0 THEN NoWordYet ELSE ParseChar(parsed[p - 1], p, cmd[p])
    IN  parsed[Len(cmd)]

\* The string that begins at position p of the parsed line.
StringAt(cmd, nuls, p) ==
    SubSeq(cmd, p, Min({n \in nuls \cup {Len(cmd) + 1} : n >= p}) - 1)

\* shell_execute skips leading blanks first.
SkipBlanks(cmd) ==
    SubSeq(cmd, Min({p \in 1 .. Len(cmd) : cmd[p] # Space} \cup {Len(cmd) + 1}), Len(cmd))

shell_execute(command) ==
    LET cmd == SkipBlanks(command)
        parsed == parse_command(cmd)
    IN  IF cmd = <<>> THEN ran' = None /\ argv' = <<>>
        ELSE /\ argv' = [k \in DOMAIN parsed.starts |->
                            StringAt(cmd, parsed.nuls, parsed.starts[k])]
             /\ ran' = IF argv'[1] \in Commands THEN argv'[1] ELSE Unknown

\* The arguments of echo, with blanks between them.
Joined(args) ==
    LET text[k \in 0 .. Len(args)] ==
            IF k < 2 THEN <<>>
            ELSE text[k - 1] \o args[k] \o IF k < Len(args) THEN <<Space>> ELSE <<>>
    IN  text[Len(args)]

\* A heading, and the lines of the history.
Listing(lines) ==
    LET text[k \in 0 .. Len(lines)] ==
            IF k = 0 THEN <<Mark, "\n">> ELSE text[k - 1] \o lines[k] \o <<"\n">>
    IN  text[Len(lines)]

Output(handler, args, lines) ==
    CASE handler = ClearName -> <<"clear">>
      [] handler = EchoName -> Joined(args) \o <<"\n">>
      [] handler = HistoryName -> Listing(lines)
      [] handler \in Texts \cup {Unknown} -> <<Mark, "\n">>
      [] handler = None -> <<>>

-----------------------------------------------------------------------------
(* shell_process_char.  The main loop takes the next key when the last one *)
(* has been dealt with; the view may be scrolled in between.               *)

Idle == todo = <<>> /\ (scroll_offset > 0 => terminal_row < MaxRow)

Type(c) ==
    /\ Idle /\ Len(command_buffer) < SHELL_BUFFER_SIZE - 1
    /\ history_count > 0 => Len(command_buffer) < MaxLater
    /\ command_buffer' = Append(command_buffer, c)
    /\ PutChar(c) /\ wrapped' = (wrapped \/ terminal_col' = 0)
    /\ UNCHANGED <<memory, call, todo>>

EraseAlways ==  \* Faulty: the prompt can be erased.
    /\ Idle
    /\ command_buffer' = (IF command_buffer = <<>> THEN <<>> ELSE Front(command_buffer))
    /\ terminal_backspace \/ (terminal_col = 0 /\ UNCHANGED terminal)
    /\ UNCHANGED <<memory, call, todo, wrapped>>

\* The terminal ignores a backspace at the beginning of a row.
Erase ==
    /\ Idle /\ command_buffer # <<>> /\ command_buffer' = Front(command_buffer)
    /\ terminal_backspace \/ (terminal_col = 0 /\ UNCHANGED terminal)
    /\ UNCHANGED <<memory, call, todo, wrapped>>

Enter ==
    /\ Idle
    /\ IF command_buffer # <<>>
       THEN /\ add_to_history(command_buffer) /\ shell_execute(command_buffer)
            /\ todo' = <<"\n">> \o Output(ran', argv', Recent') \o Prompt
       ELSE UNCHANGED <<memory, call>> /\ todo' = <<"\n">> \o Prompt
    /\ command_buffer' = <<>> /\ wrapped' = FALSE
    /\ UNCHANGED terminal

\* printk and the handlers write the next character.
Printk ==
    /\ todo # <<>> /\ todo' = Tail(todo)
    /\ CASE Head(todo) = "\n" -> Newline
         [] Head(todo) = "clear" -> terminal_clear
         [] OTHER -> PutChar(Head(todo))
    /\ UNCHANGED <<command_buffer, memory, call, wrapped>>

Scroll ==
    /\ todo = <<>>
    /\ terminal_scroll_up \/ terminal_scroll_down \/ terminal_scroll_to_bottom
    /\ UNCHANGED <<command_buffer, memory, call, todo, wrapped>>

Next == Enter \/ Erase \/ Printk \/ Scroll \/ \E c \in Keys : Type(c)
Spec == Init /\ [][Next]_vars

-----------------------------------------------------------------------------
(* Properties *)

Line == SeqOf(Keys, SHELL_BUFFER_SIZE - 1)

(* The row of the cursor shows the prompt and exactly the line that Enter  *)
(* would run, as long as the line has not filled a row, and whatever was   *)
(* printed, cleared, scrolled or erased before; the line and its NUL fit   *)
(* the buffer.                                                             *)
EchoShown ==
    /\ command_buffer \in Line
    /\ todo = <<>> /\ ~wrapped => TextOf(get_line(buffer_count - 1)) = Prompt \o command_buffer

(* The history is the last lines entered, oldest first, also after it has  *)
(* been shifted any number of times.                                       *)
HistoryIsRecent ==
    [][Recent' = IF command_buffer # <<>> /\ Enter
                 THEN Abs!LastOf(HISTORY_SIZE, Append(Recent, command_buffer))
                 ELSE Recent]_vars

\* The words of a line, counted by where they begin; the last one allowed is
\* the rest of the line.
WordStarts(line) ==
    {p \in 1 .. Len(line) : line[p] # Space /\ (p > 1 => line[p - 1] = Space)}
Before(line, p) == {q \in WordStarts(line) : q < p}
WordStart(line, k) ==
    CHOOSE p \in WordStarts(line) : Cardinality(Before(line, p)) = k - 1
WordEnd(line, p) ==
    CHOOSE e \in p .. Len(line) :
        /\ \A q \in p .. e : line[q] # Space
        /\ e < Len(line) => line[e + 1] = Space
Words(line) ==
    [k \in 1 .. Min({Cardinality(WordStarts(line)), SHELL_MAX_ARGS}) |->
        SubSeq(line, WordStart(line, k),
               IF k = SHELL_MAX_ARGS THEN Len(line) ELSE WordEnd(line, WordStart(line, k)))]

(* Entering a line runs the command its first word names, with the words   *)
(* of the line as its arguments.                                           *)
RunsTheWords ==
    [][Enter /\ command_buffer # <<>> =>
         /\ argv' = Words(command_buffer)
         /\ ran' = IF argv' = <<>> THEN None
                   ELSE IF argv'[1] \in Commands THEN argv'[1] ELSE Unknown]_vars
=============================================================================
