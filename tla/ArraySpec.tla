------------------------------ MODULE ArraySpec ------------------------------
(***************************************************************************)
(* What Array and String promise: every object is a sequence of its own,   *)
(* and a call changes the object it is made on and no other.               *)
(***************************************************************************)
EXTENDS Integers, SequencesExt

CONSTANTS
  Default      \* what Type() makes

VARIABLES
  value,       \* the sequence that each living object is
  call,        \* the last call, with its arguments
  answer,      \* what it returned
  halted       \* the call never came back

\* The value of the object after call c.
Promised(c) ==
  CASE c.op = "construct" -> <<>>
    [] c.op = "text"      -> c.items
    [] c.op \in {"copy", "assign"} -> value[c.of]
    [] c.op = "plus"      -> value[c.of] \o value[c.and]
    [] c.op = "push"      -> Append(value[c.on], c.item)
    [] c.op = "insert"    -> InsertAt(value[c.on], c.index + 1, c.item)
    [] c.op = "insertAll" ->
         SubSeq(value[c.on], 1, c.index) \o value[c.of]
           \o SubSeq(value[c.on], c.index + 1, Len(value[c.on]))
    [] c.op = "erase"     ->
         SubSeq(value[c.on], 1, c.start)
           \o SubSeq(value[c.on], c.end + 1, Len(value[c.on]))
    [] OTHER              -> value[c.on]

Answered(c) ==
  CASE c.op = "getCharArr" -> <<value[c.on]>>
    [] c.op = "find"  -> <<SelectInSeq(value[c.on] \o <<c.item>>, LAMBDA x : x = c.item) - 1>>
    [] c.op = "equal" -> <<value[c.on] = value[c.of]>>
    [] OTHER -> <<>>

\* Nothing inserted at the front: the loop of insert has no end.
Endless(c) ==
  \/ c.op = "insertAll" /\ c.index = 0 /\ value[c.of] = <<>>
  \/ c.op = "plus" /\ value[c.of] = <<>> /\ value[c.and] = <<>>

AInit == value = <<>> /\ answer = <<>> /\ halted = FALSE

Call ==
  /\ call'.op # "none" /\ ~halted /\ ~Endless(call')
  /\ value' = IF call'.op = "destruct" THEN [o \in DOMAIN value \ {call'.on} |-> value[o]]
              ELSE [o \in DOMAIN value \cup {call'.on} |->
                      IF o = call'.on THEN Promised(call') ELSE value[o]]
  /\ answer' = Answered(call')
  /\ UNCHANGED halted

Halt == Endless(call') /\ halted' = TRUE

ANext == Call \/ Halt

ASpec == AInit /\ [][ANext]_<<value, call, answer, halted>>
=============================================================================
