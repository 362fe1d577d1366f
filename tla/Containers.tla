------------------------------ MODULE Containers ------------------------------
(***************************************************************************)
(* Array (library/array) and String (library/string): objects that own a   *)
(* buffer each, in blocks of BlockSize items, over the heap's new and      *)
(* delete.  Calls are functions from a store to a store, as one calls the  *)
(* other; the loops run in the order of the code, over the same buffer     *)
(* they write to.  A caller passes items that lie in no array, inserts     *)
(* inside an array, pops from one that is not empty and assigns no array   *)
(* to itself: every caller in the repository does so.                      *)
(***************************************************************************)
EXTENDS Integers, FiniteSets, SequencesExt

CONSTANTS
  Names,        \* objects
  Parameter,    \* the copy that insert(Array) is called with
  Items, Default, Terminator,
  BlockSize,    \* _BLOCK_SIZE (16)
  Junk,         \* an item nobody has written
  Texts,        \* C strings
  MaxSize,      \* bound: items of an array
  MaxOverwritten,  \* bound: buffers that are lost
  MaxBuffers    \* bound: buffers, those that were lost included

ASSUME ContainersAssumption ==
  /\ Parameter \notin Names /\ Texts \subseteq Seq(Items) /\ BlockSize \in Nat \ {0}
  /\ Default \in Items /\ Terminator \notin Items /\ Junk \notin Items \cup {Terminator}
  /\ MaxBuffers \in Nat

VARIABLES
  store,        \* the objects, the buffers on the heap, and whether a call
                \* has gone outside its buffer
  overwritten,  \* history: assignments to an object that had a buffer
  call, answer, halted

avars == <<store, overwritten, call, answer, halted>>

Null == 0
Buffers == 1 .. MaxBuffers
Empty == [data |-> Null, size |-> 0, physical_size |-> 0]

Up(from, to) == [k \in 1 .. to - from + 1 |-> from + k - 1]
Down(from, to) == [k \in 1 .. from - to + 1 |-> from - k + 1]

-----------------------------------------------------------------------------
(* The heap, and operator[] without a check of its index.                  *)
With(f, k, x) == [l \in DOMAIN f \cup {k} |-> IF l = k THEN x ELSE f[l]]

Fresh(s) == CHOOSE b \in Buffers \ DOMAIN s.memory : TRUE
New(s, b, n) == [s EXCEPT !.memory = With(@, b, [i \in 0 .. n - 1 |-> Junk])]
Delete(s, b) == [s EXCEPT !.memory = [c \in DOMAIN @ \ {b} |-> @[c]]]

Inside(s, b, i) == b \in DOMAIN s.memory /\ i \in DOMAIN s.memory[b]
Load(s, b, i) == IF Inside(s, b, i) THEN s.memory[b][i] ELSE Junk
Store(s, b, i, item) ==
  IF Inside(s, b, i) THEN [s EXCEPT !.memory[b][i] = item] ELSE [s EXCEPT !.outside = TRUE]

Get(s, o, i) == Load(s, s.arrays[o].data, i)
Put(s, o, i, item) == Store(s, s.arrays[o].data, i, item)
Size(s, o) == s.arrays[o].size

\* for(i : indices) to[i] = from[i + shift], and the same with one item.
Move(s, to, from, shift, indices) ==
  FoldLeft(LAMBDA t, i : Store(t, to, i, Load(t, from, i + shift)), s, indices)
Fill(s, b, item, indices) == FoldLeft(LAMBDA t, i : Store(t, b, i, item), s, indices)

-----------------------------------------------------------------------------
(* Array.                                                                  *)
Construct(s, o) == [s EXCEPT !.arrays = With(@, o, Empty)]
Destruct(s, o) ==
  [Delete(s, s.arrays[o].data) EXCEPT !.arrays = [p \in DOMAIN @ \ {o} |-> @[p]]]

\* operator=, and the copy constructor, which calls it.
CopyShared(s, o, p) ==                        \* mutant: the buffer is shared
  [s EXCEPT !.arrays = With(@, o, s.arrays[p])]
Copy(s, o, p) ==
  LET b == Fresh(s)
      new == New([s EXCEPT !.arrays = With(@, o, [s.arrays[p] EXCEPT !.data = b])],
                 b, s.arrays[p].physical_size)
  IN  Move(new, b, s.arrays[p].data, 0, Up(0, Size(s, p) - 1))

reserve(s, o, n) ==
  LET old == s.arrays[o].data
      blocks == ((n + BlockSize - 1) \div BlockSize) * BlockSize
      b == Fresh(s)
      new == New([s EXCEPT !.arrays[o].physical_size = blocks], b, blocks)
      copied == Move(new, b, old, 0, Up(0, Size(s, o) - 1))
  IN  IF blocks > s.arrays[o].physical_size
        THEN [Delete(copied, old) EXCEPT !.arrays[o].data = b]
        ELSE s

resize(s, o, n) ==
  LET room == reserve(s, o, n)
      filled == Fill(room, room.arrays[o].data, Default, Up(Size(s, o), n - 1))
  IN  [filled EXCEPT !.arrays[o].size = n]

erase(s, o, start, end) ==
  LET n == Size(s, o) - (end - start)
      b == s.arrays[o].data
  IN  resize(Move(s, b, b, end - start, Up(start, n - 1)), o, n)

insertItemUpwards(s, o, item, index) ==       \* mutant: shifts in the wrong order
  LET room == resize(s, o, Size(s, o) + 1)
      b == room.arrays[o].data
  IN  Put(Move(room, b, b, -1, Up(index + 1, Size(s, o))), o, index, item)
insertItem(s, o, item, index) ==
  LET room == resize(s, o, Size(s, o) + 1)
      b == room.arrays[o].data
  IN  Put(Move(room, b, b, -1, Down(Size(s, o), index + 1)), o, index, item)

push(s, o, item) == insertItem(s, o, item, Size(s, o))

\* The array to insert is passed by value.  When nothing is inserted at the
\* front, the index of the loop never gets below 0, as an unsigned number.
insertAll(s, o, p, index) ==
  LET n == Size(s, p)
      room == resize(Copy(s, Parameter, p), o, Size(s, o) + n)
      b == room.arrays[o].data
      moved == Move(room, b, b, -n, Down(Size(s, o) + n - 1, index + n))
      filled == Move(moved, b, moved.arrays[Parameter].data, -index, Up(index, index + n - 1))
  IN  Destruct(filled, Parameter)

Endless(s, p, index) == index + Size(s, p) = 0

pop(s, o) == erase(s, o, Size(s, o) - 1, Size(s, o))
clear(s, o) == erase(s, o, 0, Size(s, o))

find(s, o, item) ==
  LET found == {i \in 0 .. Size(s, o) - 1 : Get(s, o, i) = item}
  IN  IF found = {} THEN Size(s, o) ELSE CHOOSE i \in found : \A j \in found : i <= j

-----------------------------------------------------------------------------
(* String.                                                                 *)
FromText(s, o, text) == FoldLeft(LAMBDA t, c : push(t, o, c), reserve(Construct(s, o), o, Len(text)), text)

getCharArr(s, o) == Put(reserve(s, o, Size(s, o) + 1), o, Size(s, o), Terminator)

\* What a reader of the pointer sees: up to the first zero byte.
CString(s, o) ==
  LET end == CHOOSE n \in 0 .. s.arrays[o].physical_size :
               /\ Get(s, o, n) \in {Terminator, Junk}
               /\ \A i \in 0 .. n - 1 : Get(s, o, i) \notin {Terminator, Junk}
  IN  [i \in 1 .. end |-> Get(s, o, i - 1)]

Equal(s, o, p) ==
  /\ Size(s, o) = Size(s, p)
  /\ \A i \in 0 .. Size(s, o) - 1 : Get(s, o, i) = Get(s, p, i)

Plus(s, r, o, p) == insertAll(Copy(s, r, o), r, p, Size(s, o))

-----------------------------------------------------------------------------
(* One call of a program at a time.                                        *)
Objects == DOMAIN store.arrays
Value(o) == [i \in 1 .. Size(store, o) |-> Get(store, o, i - 1)]
Room(n) == Cardinality(Buffers \ DOMAIN store.memory) >= n
Positions(o) == 0 .. Size(store, o)

Returns(c, new, result) ==
  /\ ~halted
  /\ call' = c /\ store' = new /\ answer' = result
  /\ UNCHANGED halted

Init ==
  /\ store = [arrays |-> <<>>, memory |-> <<>>, outside |-> FALSE]
  /\ overwritten = 0
  /\ call = [op |-> "none"] /\ answer = <<>> /\ halted = FALSE

Birth(o) ==
  /\ o \notin Objects /\ Room(3)
  /\ \/ Returns([op |-> "construct", on |-> o], Construct(store, o), <<>>)
     \/ \E text \in Texts :
          Returns([op |-> "text", on |-> o, items |-> text], FromText(store, o, text), <<>>)
     \/ \E p \in Objects :
          Returns([op |-> "copy", on |-> o, of |-> p], Copy(store, o, p), <<>>)
     \/ \E p, q \in Objects :
          /\ Size(store, p) + Size(store, q) \in 1 .. MaxSize
          /\ Returns([op |-> "plus", on |-> o, of |-> p, and |-> q], Plus(store, o, p, q), <<>>)
  /\ UNCHANGED overwritten

Death(o) ==
  /\ Returns([op |-> "destruct", on |-> o], Destruct(store, o), <<>>)
  /\ UNCHANGED overwritten

\* The buffer the object had is not given back.
Assign(o, p) ==
  /\ o # p /\ Room(3) /\ overwritten < MaxOverwritten
  /\ Returns([op |-> "assign", on |-> o, of |-> p], Copy(store, o, p), <<>>)
  /\ overwritten' = overwritten + (IF store.arrays[o].data = Null THEN 0 ELSE 1)

Extend(o) ==
  /\ Room(2)
  /\ \/ \E item \in Items, index \in Positions(o) :
          /\ Size(store, o) < MaxSize
          /\ Returns([op |-> "insert", on |-> o, item |-> item, index |-> index],
                     insertItem(store, o, item, index), <<>>)
     \/ \E item \in Items :
          /\ Size(store, o) < MaxSize
          /\ Returns([op |-> "push", on |-> o, item |-> item], push(store, o, item), <<>>)
     \/ \E p \in Objects, index \in Positions(o) :
          /\ Size(store, o) + Size(store, p) <= MaxSize
          /\ ~Endless(store, p, index)
          /\ Returns([op |-> "insertAll", on |-> o, of |-> p, index |-> index],
                     insertAll(store, o, p, index), <<>>)
  /\ UNCHANGED overwritten

\* The loop of insert runs out of the buffer, and off the mapped memory.
InsertNothing(o, p) ==
  /\ ~halted /\ Endless(store, p, 0)
  /\ call' = [op |-> "insertAll", on |-> o, of |-> p, index |-> 0]
  /\ halted' = TRUE
  /\ UNCHANGED <<store, overwritten, answer>>

Shrink(o) ==
  /\ \/ \E start \in Positions(o) : \E end \in start .. Size(store, o) :
          Returns([op |-> "erase", on |-> o, start |-> start, end |-> end],
                  erase(store, o, start, end), <<>>)
     \/ /\ Size(store, o) > 0
        /\ Returns([op |-> "erase", on |-> o, start |-> Size(store, o) - 1, end |-> Size(store, o)],
                   pop(store, o), <<>>)
     \/ Returns([op |-> "erase", on |-> o, start |-> 0, end |-> Size(store, o)],
                clear(store, o), <<>>)
  /\ UNCHANGED overwritten

Ask(o) ==
  /\ \/ /\ Room(1)
        /\ LET new == getCharArr(store, o)
           IN  Returns([op |-> "getCharArr", on |-> o], new, <<CString(new, o)>>)
     \/ \E item \in Items :
          Returns([op |-> "find", on |-> o, item |-> item], store, <<find(store, o, item)>>)
     \/ \E p \in Objects :
          Returns([op |-> "equal", on |-> o, of |-> p], store, <<Equal(store, o, p)>>)
  /\ UNCHANGED overwritten

Next ==
  \/ \E o \in Names : Birth(o)
  \/ \E o \in Objects : Death(o) \/ Extend(o) \/ Shrink(o) \/ Ask(o)
  \/ \E o, p \in Objects : Assign(o, p) \/ InsertNothing(o, p)

Spec == Init /\ [][Next]_avars

-----------------------------------------------------------------------------
\* Who owns what is on the heap, after any sequence of calls: every array has
\* a buffer of its own, of physical_size items in whole blocks, that holds all
\* its items; no call has read or written outside of one; and no buffer is
\* lost but by an assignment to an array that had one.
BuffersOwned ==
  LET owned == {o \in Objects : store.arrays[o].data # Null}
  IN  /\ ~store.outside /\ Objects \subseteq Names
      /\ \A o, p \in owned : store.arrays[o].data = store.arrays[p].data => o = p
      /\ \A o \in Objects :
           LET a == store.arrays[o]
           IN  /\ a.size <= a.physical_size /\ a.physical_size % BlockSize = 0
               /\ IF o \in owned
                    THEN a.data \in DOMAIN store.memory
                         /\ DOMAIN store.memory[a.data] = 0 .. a.physical_size - 1
                    ELSE a.physical_size = 0
      /\ Cardinality(DOMAIN store.memory) = Cardinality(owned) + overwritten

\* Arrays and strings behave as the sequences they stand for, and as values:
\* what is done to one never shows in another, though items are moved one by
\* one inside the buffer and buffers are given back and used again.
Promise == INSTANCE ArraySpec WITH value <- [o \in Objects |-> Value(o)]
ArraysAreSequences == Promise!ASpec
=============================================================================
