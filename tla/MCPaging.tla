------------------------------- MODULE MCPaging -------------------------------
(* Five tables of five entries.  The tables are in pages 5 to 9, as 4 MB is   *)
(* the second table; the program lies behind the low memory, the heap behind  *)
(* the frame bits and in a table of its own, the frame buffer in the last     *)
(* table, behind the end of the RAM.                                          *)
EXTENDS Paging

FirstTablesOrder == <<1, 2, 0>>
BootPages == <<0, 1, 2, 10, 11>>
FramebufferPages == <<23, 24>>
ProgramPages == <<3, 4>>
HeapPages == {12, 13, 14, 15, 16}
=============================================================================
