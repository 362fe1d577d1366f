------------------------------- MODULE KeyQueue -------------------------------
(***************************************************************************)
(* What the keyboard driver promises its readers: the scancodes in the     *)
(* order of their interrupts, each once.  A queue of QueueSize slots that  *)
(* tells full from empty by its two indexes holds QueueSize - 1 of them;   *)
(* the next one makes it forget them all.                                  *)
(***************************************************************************)
EXTENDS Naturals, Sequences

CONSTANTS QueueSize, Scancodes

VARIABLES queue, result     \* result: what the last read answered, 0 for none

QInit == queue = <<>> /\ result = 0

Arrive == \E scancode \in Scancodes :
  /\ queue' = IF Len(queue) = QueueSize - 1 THEN <<>> ELSE Append(queue, scancode)
  /\ UNCHANGED result

Take ==
  \/ queue # <<>> /\ result' = Head(queue) /\ queue' = Tail(queue)
  \/ queue = <<>> /\ result' = 0 /\ UNCHANGED queue

QNext == Arrive \/ Take

QSpec == QInit /\ [][QNext]_<<queue, result>>
=============================================================================
