------------------------------- MODULE Keyboard -------------------------------
(***************************************************************************)
(* The keyboard driver (kernel/keyboard/keyboard.cpp): an interrupt        *)
(* handler that puts scancodes into a ring and keeps the state of every    *)
(* key, and two system calls that read them.  The gate of int 0x40 is an   *)
(* interrupt gate: a system call runs with interrupts off, so a call and   *)
(* the handler never interleave within each other.                         *)
(***************************************************************************)
EXTENDS Naturals, Sequences

CONSTANTS
  QueueSize,   \* EVENT_QUEUE_SIZE (100)
  Up,          \* what a release adds to the scancode of its key (0x80)
  Keys         \* scancodes of the keys of the keyboard

ASSUME KeyboardAssumption ==
  /\ QueueSize \in Nat \ {0} /\ Up \in Nat \ {0}
  /\ Keys \subseteq 1 .. Up - 1

VARIABLES key_events_queue, key_states, queue_top, queue_bottom,
          result       \* what the last syscallGetKeyEvent returned

ring == <<key_events_queue, queue_top, queue_bottom>>
kvars == <<ring, key_states, result>>

Slots == 0 .. QueueSize - 1
Scancodes == Keys \cup {k + Up : k \in Keys}

\* The index after i, back to 0 at the end of the array.
After(i) == IF i + 1 = QueueSize THEN 0 ELSE i + 1

hasKeyEvent == queue_top # queue_bottom

KeyboardInit ==
  /\ key_events_queue = [i \in Slots |-> 0]
  /\ key_states = [k \in 0 .. Up - 1 |-> FALSE]
  /\ queue_top = 0 /\ queue_bottom = 0
  /\ result = 0

\* The handler does not look whether the ring is full.
keyboardCallback(scancode) ==
  /\ key_events_queue' = [key_events_queue EXCEPT ![queue_top] = scancode]
  /\ key_states' = IF scancode > Up THEN [key_states EXCEPT ![scancode - Up] = FALSE]
                                    ELSE [key_states EXCEPT ![scancode] = TRUE]
  /\ queue_top' = After(queue_top)
  /\ UNCHANGED <<queue_bottom, result>>

\* A key repeats while it is held, and is released only when it was pressed.
KeyDown(k) == keyboardCallback(k)
KeyUp(k) == key_states[k] /\ keyboardCallback(k + Up)

GetKeyEventUncleared ==      \* mutant: reads the slot it has just cleared
  /\ hasKeyEvent
  /\ result' = 0
  /\ key_events_queue' = [key_events_queue EXCEPT ![queue_bottom] = 0]
  /\ queue_bottom' = After(queue_bottom)
  /\ UNCHANGED <<key_states, queue_top>>
GetKeyEvent ==
  /\ hasKeyEvent
  /\ result' = key_events_queue[queue_bottom]
  /\ key_events_queue' = [key_events_queue EXCEPT ![queue_bottom] = 0]
  /\ queue_bottom' = After(queue_bottom)
  /\ UNCHANGED <<key_states, queue_top>>

GetNoKeyEvent ==
  /\ ~hasKeyEvent
  /\ result' = 0
  /\ UNCHANGED <<ring, key_states>>

syscallGetKeyEvent == GetKeyEvent \/ GetNoKeyEvent

\* syscallGetKeyState changes nothing; Shell reads key_states through it.
Interrupt == \E k \in Keys : KeyDown(k) \/ KeyUp(k)

KeyboardNext == Interrupt \/ syscallGetKeyEvent

KeyboardSpec == KeyboardInit /\ [][KeyboardNext]_kvars

-----------------------------------------------------------------------------
\* The indexes stay in the array and every slot holds a scancode or nothing.
KeyboardTypeOK ==
  /\ key_events_queue \in [Slots -> Scancodes \cup {0}]
  /\ key_states \in [0 .. Up - 1 -> BOOLEAN]
  /\ queue_top \in Slots /\ queue_bottom \in Slots
  /\ result \in Scancodes \cup {0}

\* The unread scancodes, from queue_bottom up to queue_top.
Unread == IF queue_top >= queue_bottom THEN queue_top - queue_bottom
                                       ELSE queue_top + QueueSize - queue_bottom
Slot(i) == IF queue_bottom + i - 1 < QueueSize THEN queue_bottom + i - 1
                                               ELSE queue_bottom + i - 1 - QueueSize
UnreadEvents == [i \in 1 .. Unread |-> key_events_queue[Slot(i)]]

Queue == INSTANCE KeyQueue WITH queue <- UnreadEvents

\* The ring is a first-in first-out queue of QueueSize - 1 places that
\* forgets everything on one event too many: no event comes twice, none comes
\* before an earlier one, and a slot is never read before it is written.
RingIsQueue == Queue!QSpec
=============================================================================
