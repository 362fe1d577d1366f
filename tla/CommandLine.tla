----------------------------- MODULE CommandLine -----------------------------
(***************************************************************************)
(* The command buffer of the shell (jshell/main.cpp): what the handling of *)
(* one key press does to it.  Shell drives it from the keyboard, Terminal  *)
(* shows it on the screen.                                                 *)
(***************************************************************************)
EXTENDS Naturals

CONSTANTS
  Terminator,    \* the zero byte
  PowerOff,      \* the characters of the command "poweroff"
  MaxCommand     \* MAX_CMD_LENGTH (100)

ASSUME CommandAssumption == MaxCommand \in Nat \ {0}

VARIABLES
  curr_shell_cmd,      \* the buffer, zero-terminated
  cmd_length, shell_running

command == <<curr_shell_cmd, cmd_length, shell_running>>

CommandInit ==
  /\ curr_shell_cmd = [i \in 0 .. MaxCommand - 1 |-> Terminator]
  /\ cmd_length = 0 /\ shell_running = TRUE

AppendUnterminated(c) ==                      \* mutant: no terminator
  /\ curr_shell_cmd' = [curr_shell_cmd EXCEPT ![cmd_length] = c]
  /\ cmd_length' = cmd_length + 1
  /\ UNCHANGED shell_running
AppendCharacter(c) ==
  /\ curr_shell_cmd' = [curr_shell_cmd EXCEPT ![cmd_length] = c,
                                              ![cmd_length + 1] = Terminator]
  /\ cmd_length' = cmd_length + 1
  /\ UNCHANGED shell_running

EraseCharacter ==
  /\ cmd_length > 0
  /\ cmd_length' = cmd_length - 1
  /\ curr_shell_cmd' = [curr_shell_cmd EXCEPT ![cmd_length'] = Terminator]
  /\ UNCHANGED shell_running

\* The string strcmp reads: up to the first terminator.
Text ==
  LET end == CHOOSE n \in 0 .. MaxCommand - 1 :
               /\ curr_shell_cmd[n] = Terminator
               /\ \A i \in 0 .. n - 1 : curr_shell_cmd[i] # Terminator
  IN  [i \in 1 .. end |-> curr_shell_cmd[i - 1]]

\* onCommand, then resetCommand; the other commands print and go on.
RunCommand ==
  /\ shell_running' = (Text # PowerOff)
  /\ cmd_length' = 0
  /\ curr_shell_cmd' = [curr_shell_cmd EXCEPT ![0] = Terminator]

-----------------------------------------------------------------------------
\* The buffer is a string of cmd_length characters at every system call: each
\* of the three writers leaves the terminator right behind the last one, so
\* nothing of an erased or an earlier command comes back.
CommandTerminated ==
  /\ cmd_length \in 0 .. MaxCommand - 1
  /\ \A i \in 0 .. cmd_length : curr_shell_cmd[i] = Terminator <=> i = cmd_length
=============================================================================
