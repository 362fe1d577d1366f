------------------------------- MODULE Terminal -------------------------------
(***************************************************************************)
(* The shell and the screen: what onKeyEvent (jshell/main.cpp) does to the *)
(* command buffer and, through the output library, to the console.  A key  *)
(* press is handled before the next is looked at, and the screen belongs   *)
(* to the shell alone, so one key press is one step; what interrupts can   *)
(* do in between is in Shell.                                              *)
(***************************************************************************)
EXTENDS CommandLine, Console

CONSTANTS
  Characters,      \* what can be typed
  Prompt,          \* "> "
  Unknown,         \* "Unknown command: "
  MemStat,         \* the characters of the command "memstat"
  Report           \* the lines memstat prints; the numbers vary

ASSUME TerminalAssumption ==
  /\ Characters \subseteq Glyphs /\ Terminator \notin Characters
  /\ Prompt \in Seq(Glyphs) /\ Unknown \in Seq(Glyphs) /\ Report \in Seq(Seq(Glyphs))
  /\ Prompt # <<>>
  \* what is printed between two flushes never reaches the top of the screen
  /\ Len(Prompt) + MaxCommand <= Width * (Height - 2)
  /\ Len(Unknown) + MaxCommand <= Width * (Height - 2)
  /\ \A i \in DOMAIN Report : Len(Report[i]) < Width * (Height - 2)

tvars == <<command, console>>

\* out << ... << endl
PrintLine(con, string) == flushText(TextOutString(con, string \o <<NewLine>>))

resetCommand(con) == flushText(TextOutString(con, Prompt))

\* One step back, a space over the character, and back again.
EraseOnScreenForward(con) ==                  \* mutant: not back again
  LET back == SetCursorPos(con, con.cursor_x - 1, con.cursor_y)
  IN  flushText(putChar(back, Blank))
EraseOnScreen(con) ==
  LET back == SetCursorPos(con, con.cursor_x - 1, con.cursor_y)
      over == flushText(putChar(back, Blank))
  IN  flushText(SetCursorPos(over, over.cursor_x - 1, over.cursor_y))

\* onCommand, when the buffer is not empty.
onCommand(con) ==
  CASE Text = <<>> -> con
    [] Text = MemStat -> FoldLeft(PrintLine, con, Report)
    [] Text = PowerOff -> con
    [] OTHER -> PrintLine(con, Unknown \o Text)

\* A character that would leave the terminator no room is left out: see Shell.
Type(c) ==
  /\ shell_running /\ cmd_length < MaxCommand - 1
  /\ AppendCharacter(c)
  /\ console' = flushText(putChar(console, c))

Erase ==
  /\ shell_running
  /\ EraseCharacter
  /\ console' = flushText(EraseOnScreen(console))

Enter ==
  /\ shell_running
  /\ RunCommand
  /\ console' = flushText(resetCommand(onCommand(putChar(console, NewLine))))

\* main, on any row that the kernel's own output has reached.
Init ==
  /\ CommandInit
  /\ \E row \in Row : console = resetCommand(Cleared(row))

Next == (\E c \in Characters : Type(c)) \/ Erase \/ Enter

Spec == Init /\ [][Next]_tvars

-----------------------------------------------------------------------------
\* The text that ends at the cursor is the prompt and the command, and what
\* is behind the cursor is blank: a command that wraps, scrolls the screen or
\* is erased across the left margin stays the text that Enter will run, though
\* the cursor may then stand left of its row.
CommandShown ==
  LET line == Prompt \o [i \in 1 .. cmd_length |-> curr_shell_cmd[i - 1]]
      cursor == console.cursor_x + console.cursor_y * Width
  IN  /\ cursor >= Len(line)
      /\ \A i \in 1 .. Len(line) :
           console.text_buffer[cursor - Len(line) + i - 1] = line[i]
      /\ \A i \in TextIndex : i >= cursor => console.text_buffer[i] = Blank
=============================================================================
