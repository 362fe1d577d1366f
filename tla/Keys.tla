--------------------------------- MODULE Keys ---------------------------------
(***************************************************************************)
(* The keys of programs (library/keyboard): the scancodes of the enum Key, *)
(* and the character that keyToAscii makes of one.                         *)
(***************************************************************************)
EXTENDS Naturals, Sequences

\* The enum, for the keys with a character of their own and for those that
\* the shell looks for.
Code == [q |-> 16, w |-> 17, e |-> 18, r |-> 19, t |-> 20, y |-> 21, u |-> 22, i |-> 23,
         o |-> 24, p |-> 25, a |-> 30, s |-> 31, d |-> 32, f |-> 33, g |-> 34, h |-> 35,
         j |-> 36, k |-> 37, l |-> 38, z |-> 44, x |-> 45, c |-> 46, v |-> 47, b |-> 48,
         n |-> 49, m |-> 50]
KEY_0 == 11
KEY_9 == 10
KEY_SPACE == 57
KEY_BACKSPACE == 14
KEY_ENTER == 28
KEY_LSHIFT == 42
KEY_RSHIFT == 54

top_chars == <<"q", "w", "e", "r", "t", "y", "u", "i", "o", "p">>
mid_chars == <<"a", "s", "d", "f", "g", "h", "j", "k", "l">>
low_chars == <<"z", "x", "c", "v", "b", "n", "m">>

Letters == Code.q .. Code.p \cup Code.a .. Code.l \cup Code.z .. Code.m
\* The digits have the scancodes 2 to 11, the zero behind the nine: nothing is
\* at least the zero's and at most the nine's.
Plain == {KEY_SPACE} \cup (KEY_0 .. KEY_9)

LetterRowAbove(key, upper) ==                     \* mutant: one row looks at the row above
  [char |-> IF key < Code.a THEN top_chars[key - Code.q + 1]
            ELSE IF key < Code.z THEN mid_chars[key - Code.a + 1]
            ELSE mid_chars[key - Code.z + 1],
   upper |-> upper]
Letter(key, upper) ==
  [char |-> IF key < Code.a THEN top_chars[key - Code.q + 1]
            ELSE IF key < Code.z THEN mid_chars[key - Code.a + 1]
            ELSE low_chars[key - Code.z + 1],
   upper |-> upper]

PlainCharacter(key) == [char |-> IF key = KEY_SPACE THEN " " ELSE "digit", upper |-> FALSE]

\* The key that a character stands for.
KeyOf(character) == IF character.char = " " THEN KEY_SPACE ELSE Code[character.char]
=============================================================================
