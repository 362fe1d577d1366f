------------------------------- MODULE Streams -------------------------------
(***************************************************************************)
(* The two streams of text: debug::out of the kernel, on the serial port   *)
(* (kernel/qemuDebug), and out of programs, on the console (library/out).  *)
(* Both remember between two statements how to print numbers; the debug    *)
(* stream puts the level of the message at the start of every line.        *)
(* What is printed within one statement is not interrupted by another.     *)
(***************************************************************************)
EXTENDS Numbers

CONSTANTS
  Levels,       \* 0, 1, 2: DEBUG_INFO, DEBUG_WARNING, DEBUG_ERROR
  Words, Numerals, Sixteenths, Sizes,   \* what is printed
  MaxLine       \* bound: things printed in a line

VARIABLES
  stream,       \* the statics: which stream it is, DEBUG_LEVEL of the build,
                \* the mode and, for debug, the level and has_written_in_line
  line,         \* what has reached the device since the last end of a line
  said          \* history: the level and mode asked for, how many things
                \* were printed in this line, the last and where it begins

outs == <<stream, line, said>>

Nothing == [kind |-> "nothing"]
Unsaid == [level |-> 0, hex |-> FALSE, count |-> 0, item |-> Nothing, at |-> 0]

StreamInit ==
  /\ \/ \E level \in Levels :
          stream = [debug |-> TRUE, threshold |-> level, hex |-> FALSE, level |-> 0, written |-> FALSE]
     \/ stream = [debug |-> FALSE, threshold |-> 0, hex |-> FALSE, level |-> 0, written |-> FALSE]
  /\ line = <<>> /\ said = Unsaid

Tag(level) == <<<<"[INFO] ">>, <<"[WARN] ">>, <<"[ERROR] ">>>>[level + 1]

\* The characters one operator<< prints.  The library makes a String of a
\* double first, which knows nothing of the mode.
Printed(item) ==
  CASE item.kind = "word" -> <<item.word>>
    [] item.kind = "number" -> Text(item.n, stream.hex)
    [] item.kind = "fraction" -> Fraction(item.n, stream.debug /\ stream.hex)
    [] item.kind = "size" -> printSize(item.n)

\* debug::_out_stream::operator<<(char), for all the characters.
debugOut(text) ==
  IF stream.level < stream.threshold THEN UNCHANGED <<stream, line>>
  ELSE /\ line' = (IF stream.written THEN line ELSE Tag(stream.level)) \o text
       /\ stream' = [stream EXCEPT !.written = TRUE]

Say(item) ==
  /\ said.count < MaxLine
  /\ IF stream.debug THEN debugOut(Printed(item))
     ELSE line' = line \o Printed(item) /\ UNCHANGED stream
  /\ said' = [said EXCEPT !.count = @ + 1, !.item = item,
                          !.at = IF line' = line THEN Len(line) ELSE Len(line') - Len(Printed(item))]

Hex ==
  /\ ~stream.hex
  /\ stream' = [stream EXCEPT !.hex = TRUE]
  /\ said' = [said EXCEPT !.hex = TRUE, !.item = Nothing]
  /\ UNCHANGED line

Dec ==
  /\ stream.hex
  /\ stream' = [stream EXCEPT !.hex = FALSE]
  /\ said' = [said EXCEPT !.hex = FALSE, !.item = Nothing]
  /\ UNCHANGED line

\* Callers give the level at the start of a message.
Level(level) ==
  /\ stream.debug /\ said.count = 0
  /\ stream' = [stream EXCEPT !.level = level]
  /\ said' = [said EXCEPT !.level = level]
  /\ UNCHANGED line

\* endl: the line break is filtered like any character, and on the console it
\* is flushed.  What was asked for is forgotten.
EndLine(left) ==
  /\ stream' = left
  /\ line' = IF stream.debug /\ stream.level < stream.threshold THEN line ELSE <<>>
  /\ said' = Unsaid

EndlKeepsLevel ==                             \* mutant: the level stays
  EndLine([stream EXCEPT !.hex = FALSE, !.written = @ /\ stream.level < stream.threshold])
EndlKeepsMode ==                              \* mutant: the mode stays
  EndLine([stream EXCEPT !.level = 0, !.written = @ /\ stream.level < stream.threshold])
Endl ==
  EndLine([stream EXCEPT !.hex = FALSE, !.level = 0,
                         !.written = @ /\ stream.level < stream.threshold])

StreamNext ==
  \/ \E w \in Words : Say([kind |-> "word", word |-> w])
  \/ \E n \in Numerals : Say([kind |-> "number", n |-> n])
  \/ \E n \in Sixteenths : Say([kind |-> "fraction", n |-> n])
  \/ ~stream.debug /\ ~stream.hex /\ \E n \in Sizes : Say([kind |-> "size", n |-> n])
  \/ Hex \/ Dec \/ Endl
  \/ \E level \in Levels : Level(level)

StreamSpec == StreamInit /\ [][StreamNext]_outs

-----------------------------------------------------------------------------
\* A line on the serial port is the message of one level, its own, with the
\* tag once and in front; a filtered message leaves nothing behind.
LinesTagged ==
  stream.debug =>
    LET tags == {Tag(level)[1] : level \in Levels}
    IN  IF said.count = 0 \/ said.level < stream.threshold THEN line = <<>>
        ELSE \A i \in DOMAIN line : line[i] \in tags <=> i = 1 /\ line[i] = Tag(said.level)[1]

\* What was printed last reads as what it was: hexadecimal only if asked for
\* since the last end of a line, signs and leading digits in place.  The
\* exceptions are exact: the smallest int, which has no negative; fractions
\* below a tenth, whose zeros behind the point are lost, and below zero, which
\* get a second sign; and sizes of 2 GB on, which are negative ints.
Readably(text, item) ==
  CASE item.kind = "number" ->
         IF said.hex THEN ReadHexadecimal(text, item.n)
                     ELSE ReadDecimal(text, item.n) <=> item.n # MinInt
    [] item.kind = "fraction" ->
         (said.hex /\ stream.debug) \/
         (ReadFraction(text, item.n) <=> item.n % 16 = 0 \/ (item.n > 0 /\ item.n % 16 > 1))
    [] item.kind = "size" ->
         ReadSize(text, item.n) <=>
           /\ item.n >= 0
           /\ LET part == IF item.n < 1073741824 THEN item.n \div 1024 ELSE item.n \div 1048576
              IN  item.n >= 1048576 => (((part % 1024) * 100) \div 1024) \notin 1 .. 9
    [] OTHER -> TRUE
NumbersReadable ==
  said.item # Nothing /\ said.level >= stream.threshold
    => Readably(SubSeq(line, said.at + 1, Len(line)), said.item)

\* Whatever was printed before, and however: what a statement prints arrives
\* under the level it was given and reads as what it was.
OutputReadable == LinesTagged /\ NumbersReadable
=============================================================================
