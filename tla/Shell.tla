-------------------------------- MODULE Shell --------------------------------
(***************************************************************************)
(* The shell (jshell/main.cpp) reading the keyboard through the user       *)
(* library (library/keyboard/keyboard.cpp).  A key event and the state of  *)
(* the shift keys are separate system calls, so interrupts come between    *)
(* them.  Nothing keeps a command within its buffer: a session goes on     *)
(* from command to command until one is too long.  What the screen shows   *)
(* is left to Terminal.                                                    *)
(***************************************************************************)
EXTENDS Keyboard, CommandLine, Keys

CONSTANT
  MaxEvents                 \* bound: scancodes that arrive

VARIABLES
  pc,          \* "poll", "event", "right", "character", "stopped", "overrun"
  event, upper,        \* locals: the key, the answer about the shift keys
  arrived,             \* how many scancodes have arrived
  typed                \* history: the keys of the command, as far as not erased

ASSUME ShellAssumption ==
  /\ {KEY_BACKSPACE, KEY_ENTER, KEY_LSHIFT, KEY_RSHIFT} \subseteq Keys
  /\ MaxEvents \in Nat
\* keyToAscii makes a zero byte of no key that it has a character for.
ASSUME CharactersAssumption ==
  /\ \A k \in Letters, u \in BOOLEAN : Letter(k, u) # Terminator
  /\ \A k \in Plain : PlainCharacter(k) # Terminator

locals == <<pc, event, upper>>
svars == <<kvars, locals, command, arrived, typed>>

ShellInit ==
  /\ KeyboardInit /\ CommandInit
  /\ pc = "poll" /\ event = 0 /\ upper = FALSE
  /\ arrived = 0 /\ typed = <<>>

Arrival ==
  /\ arrived < MaxEvents
  /\ Interrupt
  /\ arrived' = arrived + 1
  /\ UNCHANGED <<locals, command, typed>>

\* getKeyEvent in the loop of main: nothing and releases make it poll again.
Poll ==
  /\ pc = "poll" /\ shell_running
  /\ syscallGetKeyEvent
  /\ IF result' \in Keys THEN pc' = "event" /\ event' = result'
                         ELSE UNCHANGED <<pc, event>>
  /\ UNCHANGED <<upper, command, arrived, typed>>

\* keyToAscii: the second question only if the first answer is no.
AskLeftShift ==
  /\ pc = "event" /\ event \in Letters
  /\ upper' = key_states[KEY_LSHIFT]
  /\ pc' = IF upper' THEN "character" ELSE "right"
  /\ UNCHANGED <<kvars, event, command, arrived, typed>>

AskRightShift ==
  /\ pc = "right"
  /\ upper' = key_states[KEY_RSHIFT]
  /\ pc' = "character"
  /\ UNCHANGED <<kvars, event, command, arrived, typed>>

AskNothing ==
  /\ pc = "event" /\ event \in Plain
  /\ upper' = FALSE
  /\ pc' = "character"
  /\ UNCHANGED <<kvars, event, command, arrived, typed>>

Character == IF event \in Letters THEN Letter(event, upper) ELSE PlainCharacter(event)

Type ==
  /\ pc = "character" /\ cmd_length + 1 < MaxCommand
  /\ AppendCharacter(Character)
  /\ typed' = Append(typed, event)
  /\ pc' = "poll"
  /\ UNCHANGED <<kvars, event, upper, arrived>>

\* The same at the end of the buffer.  The character has the last place and the
\* zero byte is written behind it: what that hits is not defined, and the model
\* ends there.
Overrun ==
  /\ pc = "character" /\ cmd_length + 1 >= MaxCommand
  /\ curr_shell_cmd' = [curr_shell_cmd EXCEPT ![cmd_length] = Character]
  /\ cmd_length' = cmd_length + 1
  /\ typed' = Append(typed, event)
  /\ pc' = "overrun"
  /\ UNCHANGED <<kvars, event, upper, shell_running, arrived>>

Erase ==
  /\ pc = "event" /\ event = KEY_BACKSPACE
  /\ EraseCharacter
  /\ typed' = SubSeq(typed, 1, Len(typed) - 1)
  /\ pc' = "poll"
  /\ UNCHANGED <<kvars, event, upper, arrived>>

Execute ==
  /\ pc = "event" /\ event = KEY_ENTER
  /\ RunCommand
  /\ typed' = <<>>
  /\ pc' = IF shell_running' THEN "poll" ELSE "stopped"
  /\ UNCHANGED <<kvars, event, upper, arrived>>

OtherKeyStuck ==                              \* mutant: handled again and again
  /\ pc = "event"
  /\ event \notin Letters \cup Plain \cup {KEY_ENTER}
  /\ event = KEY_BACKSPACE => cmd_length = 0
  /\ UNCHANGED svars
OtherKey ==
  /\ pc = "event"
  /\ event \notin Letters \cup Plain \cup {KEY_ENTER}
  /\ event = KEY_BACKSPACE => cmd_length = 0
  /\ pc' = "poll"
  /\ UNCHANGED <<kvars, event, upper, command, arrived, typed>>

Program ==
  \/ Poll \/ AskLeftShift \/ AskRightShift \/ AskNothing
  \/ Type \/ Overrun \/ Erase \/ Execute \/ OtherKey

ShellNext == Arrival \/ Program

\* The program is the only one on the processor: it goes on.
ShellSpec == ShellInit /\ [][ShellNext]_svars /\ WF_svars(Program)

-----------------------------------------------------------------------------
\* What Enter will run is what was typed: the buffer holds the characters of
\* the keys that were read and not erased, each its own, with a terminator
\* behind the last, whatever the interrupts do between the system calls and
\* however long the session is, until a command is as long as the buffer.
CommandIsTyped ==
  pc # "overrun" =>
    /\ CommandTerminated
    /\ [i \in 1 .. cmd_length |-> KeyOf(curr_shell_cmd[i - 1])] = typed

\* Every event that arrives is read, or the shell has stopped or overrun its
\* buffer, or the ring has overflowed and forgotten it: the program never stops
\* polling.
EventsTaken == hasKeyEvent ~> (~hasKeyEvent \/ pc \in {"stopped", "overrun"})
=============================================================================
