------------------------------ MODULE MCTerminal ------------------------------
(* A screen of three columns and five rows: a prompt and a command of five   *)
(* characters are longer than a row and end in any column; the last row      *)
(* scrolls.                                                                  *)
EXTENDS Terminal

CONSTANTS blank, block, newline, zero, a, b, prompt, unknown, used

AllGlyphs == {blank, a, b, prompt, unknown, used}
CharactersAB == {a, b}
PromptText == <<prompt>>
UnknownText == <<unknown>>
MemStatText == <<a, a>>
PowerOffText == <<a, a, a, a>>
ReportText == <<<<used>>, <<used, used, used>>>>
=============================================================================
