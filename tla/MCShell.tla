------------------------------- MODULE MCShell -------------------------------
(* A letter of the first row and the last of the third, a digit, the space,  *)
(* and the keys that are looked for.  "poweroff" is one letter.              *)
EXTENDS Shell

SomeKeys == {Code.p, Code.m, 2, KEY_SPACE, KEY_LSHIFT, KEY_RSHIFT, KEY_BACKSPACE, KEY_ENTER}
ZeroByte == [char |-> "zero", upper |-> FALSE]
PowerOffText == <<[char |-> "p", upper |-> FALSE]>>
=============================================================================
