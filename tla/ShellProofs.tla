------------------------------ MODULE ShellProofs ------------------------------
(***************************************************************************)
(* The keyboard and the shell over it, for every size of the ring and of   *)
(* the command buffer and every set of keys: the ring of the driver is the *)
(* queue of KeyQueue, read by any program or by the shell, and what Enter  *)
(* runs is what was typed, wherever interrupts come in.                    *)
(***************************************************************************)
EXTENDS Shell, SequenceTheorems, TLAPS

-----------------------------------------------------------------------------
(* The driver.                                                             *)

\* A press is below Up, a release above it, both are scancodes and none is 0.
LEMMA ScancodeRange ==
  ASSUME NEW k \in Keys
  PROVE  /\ k \in Scancodes /\ k + Up \in Scancodes
         /\ k \in 0 .. Up - 1 /\ ~(k > Up)
         /\ k + Up > Up /\ (k + Up) - Up = k
  BY KeyboardAssumption DEF Scancodes

LEMMA AfterInSlots ==
  ASSUME NEW i \in Slots
  PROVE  After(i) \in Slots
  BY KeyboardAssumption DEF After, Slots

-----------------------------------------------------------------------------
LEMMA CallbackTyped ==
  ASSUME KeyboardTypeOK, NEW scancode \in Scancodes, keyboardCallback(scancode),
         scancode > Up => scancode - Up \in 0 .. Up - 1,
         ~(scancode > Up) => scancode \in 0 .. Up - 1
  PROVE  KeyboardTypeOK'
  BY AfterInSlots DEF KeyboardTypeOK, keyboardCallback

LEMMA GetTyped ==
  ASSUME KeyboardTypeOK, syscallGetKeyEvent
  PROVE  KeyboardTypeOK'
  BY AfterInSlots
  DEF KeyboardTypeOK, syscallGetKeyEvent, GetKeyEvent, GetNoKeyEvent, ring

LEMMA InterruptIsCallback ==
  ASSUME Interrupt
  PROVE  \E scancode \in Scancodes :
           /\ keyboardCallback(scancode)
           /\ scancode > Up => scancode - Up \in 0 .. Up - 1
           /\ ~(scancode > Up) => scancode \in 0 .. Up - 1
<1>1. PICK k \in Keys : KeyDown(k) \/ KeyUp(k)
  BY DEF Interrupt
<1>2. CASE KeyDown(k)
  BY <1>2, ScancodeRange DEF KeyDown
<1>3. CASE KeyUp(k)
  BY <1>3, ScancodeRange DEF KeyUp
<1>4. QED
  BY <1>1, <1>2, <1>3

\* The indexes stay in the array and the slots hold scancodes.
THEOREM KeyboardTyped == KeyboardSpec => []KeyboardTypeOK
<1>1. KeyboardInit => KeyboardTypeOK
  BY KeyboardAssumption DEF KeyboardInit, KeyboardTypeOK, Slots
<1>2. KeyboardTypeOK /\ [KeyboardNext]_kvars => KeyboardTypeOK'
  <2>1. SUFFICES ASSUME KeyboardTypeOK, [KeyboardNext]_kvars
                 PROVE  KeyboardTypeOK'
    OBVIOUS
  <2>2. CASE Interrupt
    BY <2>1, <2>2, InterruptIsCallback, CallbackTyped
  <2>3. CASE syscallGetKeyEvent
    BY <2>1, <2>3, GetTyped
  <2>4. CASE UNCHANGED kvars
    BY <2>1, <2>4 DEF KeyboardTypeOK, kvars, ring
  <2>5. QED
    BY <2>1, <2>2, <2>3, <2>4 DEF KeyboardNext
<1>3. QED
  BY <1>1, <1>2, PTL DEF KeyboardSpec

-----------------------------------------------------------------------------
(* The unread events as a sequence.                                        *)

LEMMA UnreadRange ==
  ASSUME KeyboardTypeOK
  PROVE  /\ Unread \in 0 .. QueueSize - 1
         /\ Unread = 0 <=> ~hasKeyEvent
         /\ \A i \in 1 .. Unread : Slot(i) \in Slots
  BY KeyboardAssumption DEF KeyboardTypeOK, Slots, Unread, Slot, hasKeyEvent

LEMMA UnreadIsSeq ==
  ASSUME KeyboardTypeOK
  PROVE  /\ UnreadEvents \in Seq(Scancodes \cup {0})
         /\ Len(UnreadEvents) = Unread
         /\ \A i \in 1 .. Unread : UnreadEvents[i] = key_events_queue[Slot(i)]
<1>1. /\ Unread \in Nat
      /\ \A i \in 1 .. Unread : key_events_queue[Slot(i)] \in Scancodes \cup {0}
  BY UnreadRange, KeyboardAssumption DEF KeyboardTypeOK
<1>2. UnreadEvents \in [1 .. Unread -> Scancodes \cup {0}]
  BY <1>1 DEF UnreadEvents
<1>3. UnreadEvents \in Seq(Scancodes \cup {0})
  BY <1>1, <1>2
<1>4. QED
  BY <1>1, <1>2, <1>3, LenProperties DEF UnreadEvents

\* The same of the next state.
LEMMA UnreadIsSeqNext ==
  ASSUME KeyboardTypeOK'
  PROVE  /\ UnreadEvents' \in Seq(Scancodes \cup {0})
         /\ Len(UnreadEvents') = Unread'
         /\ \A i \in 1 .. Unread' : UnreadEvents'[i] = key_events_queue'[Slot(i)']
<1>1. /\ Unread' \in Nat
      /\ \A i \in 1 .. Unread' : Slot(i)' \in Slots
  <2>1. /\ QueueSize \in Nat \ {0}
        /\ queue_top' \in 0 .. QueueSize - 1 /\ queue_bottom' \in 0 .. QueueSize - 1
    BY KeyboardAssumption DEF KeyboardTypeOK, Slots
  <2>2. \A t, b \in 0 .. QueueSize - 1 :
          /\ (IF t >= b THEN t - b ELSE t + QueueSize - b) \in Nat
          /\ \A i \in 1 .. (IF t >= b THEN t - b ELSE t + QueueSize - b) :
               (IF b + i - 1 < QueueSize THEN b + i - 1 ELSE b + i - 1 - QueueSize) \in Slots
    BY <2>1 DEF Slots
  <2>3. Unread' \in Nat /\ \A i \in 1 .. Unread' : Slot(i)' \in Slots
    BY <2>1, <2>2 DEF Unread, Slot
  <2>4. QED
    BY <2>3
<1>2. \A i \in 1 .. Unread' : key_events_queue'[Slot(i)'] \in Scancodes \cup {0}
  BY <1>1 DEF KeyboardTypeOK
<1>3. UnreadEvents' \in [1 .. Unread' -> Scancodes \cup {0}]
  BY <1>1, <1>2 DEF UnreadEvents
<1>4. UnreadEvents' \in Seq(Scancodes \cup {0})
  BY <1>1, <1>3
<1>5. QED
  BY <1>1, <1>2, <1>3, <1>4, LenProperties DEF UnreadEvents

\* One event more: it comes last, or it makes the indexes meet.
LEMMA CallbackArrives ==
  ASSUME KeyboardTypeOK, KeyboardTypeOK', NEW scancode \in Scancodes,
         keyboardCallback(scancode)
  PROVE  UnreadEvents' = IF Len(UnreadEvents) = QueueSize - 1 THEN <<>>
                         ELSE Append(UnreadEvents, scancode)
<1> DEFINE E == Scancodes \cup {0}
<1>0. /\ UnreadEvents \in Seq(E) /\ Len(UnreadEvents) = Unread
      /\ \A i \in 1 .. Unread : UnreadEvents[i] = key_events_queue[Slot(i)]
  BY UnreadIsSeq
<1>1. /\ UnreadEvents' \in Seq(E) /\ Len(UnreadEvents') = Unread'
      /\ \A i \in 1 .. Unread' : UnreadEvents'[i] = key_events_queue'[Slot(i)']
  BY UnreadIsSeqNext
<1>2. CASE Unread = QueueSize - 1
  <2>1. Unread' = 0
    BY <1>2, KeyboardAssumption
    DEF KeyboardTypeOK, keyboardCallback, Unread, After, Slots
  <2>2. QED
    BY <1>0, <1>1, <1>2, <2>1, EmptySeq
<1>3. CASE Unread # QueueSize - 1
  <2>0. /\ QueueSize \in Nat \ {0}
        /\ queue_top \in 0 .. QueueSize - 1 /\ queue_bottom \in 0 .. QueueSize - 1
        /\ queue_top' = IF queue_top + 1 = QueueSize THEN 0 ELSE queue_top + 1
        /\ queue_bottom' = queue_bottom
    BY KeyboardAssumption DEF KeyboardTypeOK, keyboardCallback, After, Slots
  <2>1. /\ Unread \in Nat
        /\ Unread' = Unread + 1
        /\ \A i \in 1 .. Unread : Slot(i)' = Slot(i) /\ Slot(i) # queue_top
        /\ Slot(Unread)' = queue_top
    <3>1. Unread \in Nat /\ Unread' = Unread + 1
      BY <1>3, <2>0 DEF Unread
    <3>2. \A i \in 1 .. Unread : Slot(i)' = Slot(i)
      BY <2>0 DEF Slot
    <3>3. \A i \in 1 .. Unread : Slot(i) # queue_top
      BY <2>0 DEF Slot, Unread
    <3>4. Slot(Unread)' = queue_top
      BY <1>3, <2>0 DEF Slot, Unread
    <3>5. QED
      BY <3>1, <3>2, <3>3, <3>4
  <2>2. \A i \in 1 .. Unread : key_events_queue'[Slot(i)'] = key_events_queue[Slot(i)]
    BY <2>1, UnreadRange DEF KeyboardTypeOK, keyboardCallback
  <2>3. key_events_queue'[Slot(Unread)'] = scancode
    BY <2>1 DEF KeyboardTypeOK, keyboardCallback
  <2>4. scancode \in E
    OBVIOUS
  <2>5. /\ Append(UnreadEvents, scancode) \in Seq(E)
        /\ Len(Append(UnreadEvents, scancode)) = Unread + 1
        /\ \A i \in 1 .. Unread : Append(UnreadEvents, scancode)[i] = UnreadEvents[i]
        /\ Append(UnreadEvents, scancode)[Unread + 1] = scancode
    BY <1>0, <2>4, AppendProperties
  <2>6. \A i \in 1 .. Unread + 1 : UnreadEvents'[i] = Append(UnreadEvents, scancode)[i]
    <3>1. TAKE i \in 1 .. Unread + 1
    <3>2. CASE i \in 1 .. Unread
      <4>1. i \in 1 .. Unread' /\ UnreadEvents'[i] = key_events_queue'[Slot(i)']
        BY <1>1, <2>1, <3>1
      <4>2. QED
        BY <1>0, <2>2, <2>5, <3>2, <4>1
    <3>3. CASE i = Unread + 1
      <4>1. i \in 1 .. Unread' /\ UnreadEvents'[i] = key_events_queue'[Slot(i)']
        BY <1>1, <2>1, <3>1
      <4>2. UnreadEvents'[i] = key_events_queue'[Slot(Unread)']
        BY <2>1, <3>3, <4>1
      <4>3. UnreadEvents'[i] = scancode
        BY <2>3, <4>2
      <4>4. QED
        BY <2>5, <3>3, <4>3
    <3>4. i \in 1 .. Unread \/ i = Unread + 1
      <4>1. \A n \in Nat : \A j \in 1 .. n + 1 : j \in 1 .. n \/ j = n + 1
        OBVIOUS
      <4>2. QED
        BY <2>1, <3>1, <4>1
    <3>5. QED
      BY <3>2, <3>3, <3>4
  <2>7. UnreadEvents' = Append(UnreadEvents, scancode)
    BY <1>1, <2>1, <2>5, <2>6, SeqEqual
  <2>8. QED
    BY <1>0, <1>3, <2>7
<1>4. QED
  BY <1>2, <1>3

\* One event fewer: the oldest.
LEMMA GetTakes ==
  ASSUME KeyboardTypeOK, KeyboardTypeOK', GetKeyEvent
  PROVE  /\ UnreadEvents # <<>>
         /\ result' = Head(UnreadEvents)
         /\ UnreadEvents' = Tail(UnreadEvents)
<1> DEFINE E == Scancodes \cup {0}
<1>0. /\ UnreadEvents \in Seq(E) /\ Len(UnreadEvents) = Unread
      /\ \A i \in 1 .. Unread : UnreadEvents[i] = key_events_queue[Slot(i)]
  BY UnreadIsSeq
<1>1. /\ UnreadEvents' \in Seq(E) /\ Len(UnreadEvents') = Unread'
      /\ \A i \in 1 .. Unread' : UnreadEvents'[i] = key_events_queue'[Slot(i)']
  BY UnreadIsSeqNext
<1>2. /\ Unread \in Nat \ {0}
      /\ Unread' = Unread - 1
      /\ Slot(1) = queue_bottom
      /\ \A i \in 1 .. Unread - 1 : Slot(i)' = Slot(i + 1) /\ Slot(i + 1) # queue_bottom
  <2>0. /\ QueueSize \in Nat \ {0}
        /\ queue_top \in 0 .. QueueSize - 1 /\ queue_bottom \in 0 .. QueueSize - 1
        /\ queue_bottom' = IF queue_bottom + 1 = QueueSize THEN 0 ELSE queue_bottom + 1
        /\ queue_top' = queue_top /\ queue_top # queue_bottom
    BY KeyboardAssumption DEF KeyboardTypeOK, GetKeyEvent, hasKeyEvent, After, Slots
  <2>1. Unread \in Nat \ {0} /\ Unread' = Unread - 1
    BY <2>0 DEF Unread
  <2>2. Slot(1) = queue_bottom
    BY <2>0 DEF Slot
  <2>3. \A i \in 1 .. Unread - 1 : Slot(i)' = Slot(i + 1)
    BY <2>0 DEF Slot, Unread
  <2>4. \A i \in 1 .. Unread - 1 : Slot(i + 1) # queue_bottom
    BY <2>0 DEF Slot, Unread
  <2>5. QED
    BY <2>1, <2>2, <2>3, <2>4
<1>3. UnreadEvents # <<>>
  BY <1>0, <1>2, EmptySeq
<1>4. result' = Head(UnreadEvents)
  BY <1>0, <1>2, <1>3 DEF GetKeyEvent
<1>5. /\ Tail(UnreadEvents) \in Seq(E)
      /\ Len(Tail(UnreadEvents)) = Unread - 1
      /\ \A i \in 1 .. Unread - 1 : Tail(UnreadEvents)[i] = UnreadEvents[i + 1]
  BY <1>0, <1>3, HeadTailProperties
<1>6. \A i \in 1 .. Unread - 1 : key_events_queue'[Slot(i)'] = key_events_queue[Slot(i + 1)]
  BY <1>2, UnreadRange DEF KeyboardTypeOK, GetKeyEvent
<1>7. \A i \in 1 .. Unread - 1 : UnreadEvents'[i] = Tail(UnreadEvents)[i]
  <2> TAKE i \in 1 .. Unread - 1
  <2>1. i \in 1 .. Unread' /\ i + 1 \in 1 .. Unread
    BY <1>2
  <2>2. UnreadEvents'[i] = key_events_queue'[Slot(i)']
    BY <1>1, <2>1
  <2>3. UnreadEvents[i + 1] = key_events_queue[Slot(i + 1)]
    BY <1>0, <2>1
  <2> QED BY <1>5, <1>6, <2>2, <2>3
<1>8. UnreadEvents' = Tail(UnreadEvents)
  BY <1>1, <1>2, <1>5, <1>7, SeqEqual
<1>9. QED
  BY <1>3, <1>4, <1>8

LEMMA NoEventIsEmpty ==
  ASSUME KeyboardTypeOK
  PROVE  ~hasKeyEvent => UnreadEvents = <<>>
  BY UnreadRange, UnreadIsSeq, EmptySeq

-----------------------------------------------------------------------------
\* The ring implements the queue that forgets when it is full: events come in
\* the order of their interrupts, each at most once, for every ring size.
THEOREM RingImplementsQueue == KeyboardSpec => RingIsQueue
<1>1. KeyboardInit => Queue!QInit
  <2>1. SUFFICES ASSUME KeyboardInit PROVE Queue!QInit
    OBVIOUS
  <2>2. KeyboardTypeOK
    BY <2>1, KeyboardAssumption DEF KeyboardInit, KeyboardTypeOK, Slots
  <2>3. QED
    BY <2>1, <2>2, NoEventIsEmpty DEF KeyboardInit, hasKeyEvent, Queue!QInit
<1>2. KeyboardTypeOK /\ KeyboardTypeOK' /\ [KeyboardNext]_kvars
        => [Queue!QNext]_<<UnreadEvents, result>>
  <2>1. SUFFICES ASSUME KeyboardTypeOK, KeyboardTypeOK', [KeyboardNext]_kvars
                 PROVE  [Queue!QNext]_<<UnreadEvents, result>>
    OBVIOUS
  <2>2. CASE Interrupt
    <3>1. PICK scancode \in Scancodes : keyboardCallback(scancode)
      BY <2>2, InterruptIsCallback
    <3>2. UnreadEvents' = IF Len(UnreadEvents) = QueueSize - 1 THEN <<>>
                          ELSE Append(UnreadEvents, scancode)
      BY <2>1, <3>1, CallbackArrives
    <3>3. UNCHANGED result
      BY <3>1 DEF keyboardCallback
    <3>4. QED
      BY <3>2, <3>3 DEF Queue!QNext, Queue!Arrive
  <2>3. CASE GetKeyEvent
    BY <2>1, <2>3, GetTakes DEF Queue!QNext, Queue!Take
  <2>4. CASE GetNoKeyEvent
    <3>1. UnreadEvents = <<>> /\ result' = 0
      BY <2>1, <2>4, NoEventIsEmpty DEF GetNoKeyEvent
    <3>2. UnreadEvents' = UnreadEvents
      BY <2>4 DEF GetNoKeyEvent, ring, UnreadEvents, Unread, Slot
    <3>3. QED
      BY <3>1, <3>2 DEF Queue!QNext, Queue!Take
  <2>5. CASE UNCHANGED kvars
    BY <2>5 DEF kvars, ring, UnreadEvents, Unread, Slot
  <2>6. QED
    BY <2>1, <2>2, <2>3, <2>4, <2>5 DEF KeyboardNext, syscallGetKeyEvent
<1>3. QED
  BY <1>1, <1>2, KeyboardTyped, PTL DEF KeyboardSpec, RingIsQueue, Queue!QSpec

-----------------------------------------------------------------------------
(* The rows of letters that keyToAscii looks a key up in agree with the    *)
(* scancodes of the enum.                                                  *)

LEMMA TopRow ==
  ASSUME NEW j \in 1 .. 10
  PROVE  Code[top_chars[j]] = j + 15 /\ top_chars[j] # " "
<1> DEFINE c == top_chars[j]
           v == Code[c]
<1>1. /\ (j = 1 => c = "q") /\ (j = 2 => c = "w") /\ (j = 3 => c = "e") /\ (j = 4 => c = "r")
      /\ (j = 5 => c = "t") /\ (j = 6 => c = "y") /\ (j = 7 => c = "u") /\ (j = 8 => c = "i")
      /\ (j = 9 => c = "o") /\ (j = 10 => c = "p")
  BY DEF top_chars
<1> HIDE DEF c
<1>2. /\ (c = "q" => v = 16) /\ (c = "w" => v = 17) /\ (c = "e" => v = 18)
      /\ (c = "r" => v = 19) /\ (c = "t" => v = 20) /\ (c = "y" => v = 21)
      /\ (c = "u" => v = 22) /\ (c = "i" => v = 23) /\ (c = "o" => v = 24)
      /\ (c = "p" => v = 25)
  BY DEF Code, v
<1>3. \/ j = 1 \/ j = 2 \/ j = 3 \/ j = 4 \/ j = 5 \/ j = 6 \/ j = 7 \/ j = 8 \/ j = 9 \/ j = 10
  OBVIOUS
<1>4. c # " "
  BY <1>1, <1>3
<1> HIDE DEF v
<1>5. v = j + 15
  BY <1>1, <1>2, <1>3
<1> QED BY <1>4, <1>5 DEF c, v

LEMMA MidRow ==
  ASSUME NEW j \in 1 .. 9
  PROVE  Code[mid_chars[j]] = j + 29 /\ mid_chars[j] # " "
<1> DEFINE c == mid_chars[j]
           v == Code[c]
<1>1. /\ (j = 1 => c = "a") /\ (j = 2 => c = "s") /\ (j = 3 => c = "d") /\ (j = 4 => c = "f")
      /\ (j = 5 => c = "g") /\ (j = 6 => c = "h") /\ (j = 7 => c = "j") /\ (j = 8 => c = "k")
      /\ (j = 9 => c = "l")
  BY DEF mid_chars
<1> HIDE DEF c
<1>2. /\ (c = "a" => v = 30) /\ (c = "s" => v = 31) /\ (c = "d" => v = 32)
      /\ (c = "f" => v = 33) /\ (c = "g" => v = 34) /\ (c = "h" => v = 35)
      /\ (c = "j" => v = 36) /\ (c = "k" => v = 37) /\ (c = "l" => v = 38)
  BY DEF Code, v
<1>3. \/ j = 1 \/ j = 2 \/ j = 3 \/ j = 4 \/ j = 5 \/ j = 6 \/ j = 7 \/ j = 8 \/ j = 9
  OBVIOUS
<1>4. c # " "
  BY <1>1, <1>3
<1> HIDE DEF v
<1>5. v = j + 29
  BY <1>1, <1>2, <1>3
<1> QED BY <1>4, <1>5 DEF c, v

LEMMA LowRow ==
  ASSUME NEW j \in 1 .. 7
  PROVE  Code[low_chars[j]] = j + 43 /\ low_chars[j] # " "
<1> DEFINE c == low_chars[j]
           v == Code[c]
<1>1. /\ (j = 1 => c = "z") /\ (j = 2 => c = "x") /\ (j = 3 => c = "c") /\ (j = 4 => c = "v")
      /\ (j = 5 => c = "b") /\ (j = 6 => c = "n") /\ (j = 7 => c = "m")
  BY DEF low_chars
<1> HIDE DEF c
<1>2. /\ (c = "z" => v = 44) /\ (c = "x" => v = 45) /\ (c = "c" => v = 46)
      /\ (c = "v" => v = 47) /\ (c = "b" => v = 48) /\ (c = "n" => v = 49)
      /\ (c = "m" => v = 50)
  BY DEF Code, v
<1>3. \/ j = 1 \/ j = 2 \/ j = 3 \/ j = 4 \/ j = 5 \/ j = 6 \/ j = 7
  OBVIOUS
<1>4. c # " "
  BY <1>1, <1>3
<1> HIDE DEF v
<1>5. v = j + 43
  BY <1>1, <1>2, <1>3
<1> QED BY <1>4, <1>5 DEF c, v

\* Every character that is typed stands for the key it was made of.
LEMMA LetterOfKey ==
  ASSUME NEW k \in Letters, NEW shifted
  PROVE  KeyOf(Letter(k, shifted)) = k
<1>1. /\ Code.q = 16 /\ Code.p = 25 /\ Code.a = 30 /\ Code.l = 38
      /\ Code.z = 44 /\ Code.m = 50
  BY DEF Code
<1>2. k \in 16 .. 25 \/ k \in 30 .. 38 \/ k \in 44 .. 50
  BY <1>1 DEF Letters
<1>3. ASSUME NEW c, c # " "
      PROVE  KeyOf([char |-> c, upper |-> shifted]) = Code[c]
  BY <1>3 DEF KeyOf
<1>4. CASE k \in 16 .. 25
  <2> DEFINE j == k - 15
             c == top_chars[j]
  <2>1. j \in 1 .. 10 /\ k = j + 15 /\ k < 30 /\ k - 16 + 1 = j
    BY <1>4
  <2>2. Letter(k, shifted) = [char |-> c, upper |-> shifted]
    BY <1>1, <2>1 DEF Letter
  <2> HIDE DEF j
  <2>3. Code[c] = k /\ c # " "
    BY <2>1, TopRow
  <2> QED BY <1>3, <2>2, <2>3
<1>5. CASE k \in 30 .. 38
  <2> DEFINE j == k - 29
             c == mid_chars[j]
  <2>1. j \in 1 .. 9 /\ k = j + 29 /\ ~ (k < 30) /\ k < 44 /\ k - 30 + 1 = j
    BY <1>5
  <2>2. Letter(k, shifted) = [char |-> c, upper |-> shifted]
    BY <1>1, <2>1 DEF Letter
  <2> HIDE DEF j
  <2>3. Code[c] = k /\ c # " "
    BY <2>1, MidRow
  <2> QED BY <1>3, <2>2, <2>3
<1>6. CASE k \in 44 .. 50
  <2> DEFINE j == k - 43
             c == low_chars[j]
  <2>1. j \in 1 .. 7 /\ k = j + 43 /\ ~ (k < 30) /\ ~ (k < 44) /\ k - 44 + 1 = j
    BY <1>6
  <2>2. Letter(k, shifted) = [char |-> c, upper |-> shifted]
    BY <1>1, <2>1 DEF Letter
  <2> HIDE DEF j
  <2>3. Code[c] = k /\ c # " "
    BY <2>1, LowRow
  <2> QED BY <1>3, <2>2, <2>3
<1> QED BY <1>2, <1>4, <1>5, <1>6

LEMMA PlainOfKey ==
  ASSUME NEW k \in Plain
  PROVE  KeyOf(PlainCharacter(k)) = k
<1>1. k = KEY_SPACE
  BY DEF Plain, KEY_0, KEY_9
<1> QED BY <1>1 DEF PlainCharacter, KeyOf

-----------------------------------------------------------------------------
(* The shell leaves the ring to the driver.                                *)

LEMMA ShellKeyboard == [ShellNext]_svars => [KeyboardNext]_kvars
<1> SUFFICES ASSUME [ShellNext]_svars PROVE [KeyboardNext]_kvars
  OBVIOUS
<1>1. CASE Arrival
  BY <1>1 DEF Arrival, KeyboardNext
<1>2. CASE Poll
  BY <1>2 DEF Poll, KeyboardNext
<1>3. CASE UNCHANGED kvars
  BY <1>3
<1> QED BY <1>1, <1>2, <1>3
    DEF ShellNext, Program, AskLeftShift, AskRightShift, AskNothing, Type, Overrun, Erase,
        Execute, OtherKey, svars

\* The system calls of the shell, at any rate and among any other steps of
\* it, keep the ring the queue that KeyQueue promises.
THEOREM ShellReadsQueue == ShellSpec => RingIsQueue
<1>1. ShellInit => KeyboardInit
  BY DEF ShellInit
<1>2. ShellSpec => KeyboardSpec
  BY <1>1, ShellKeyboard, PTL DEF ShellSpec, KeyboardSpec
<1> QED BY <1>2, RingImplementsQueue, PTL

-----------------------------------------------------------------------------
(* The command, until one is as long as the buffer.                        *)

Typeable == {Letter(k, u) : k \in Letters, u \in BOOLEAN} \cup {PlainCharacter(k) : k \in Plain}

InHand == pc \in {"event", "right", "character"}

LocalsInv ==
  /\ pc \in {"poll", "event", "right", "character", "stopped", "overrun"}
  /\ InHand => event \in Keys
  /\ pc = "right" => event \in Letters
  /\ pc = "character" => event \in Letters \cup Plain
  /\ upper \in BOOLEAN

BufferInv ==
  /\ curr_shell_cmd \in [0 .. MaxCommand - 1 -> Typeable \cup {Terminator}]
  /\ CommandTerminated
  /\ typed \in Seq(Keys) /\ Len(typed) = cmd_length
  /\ \A i \in 1 .. cmd_length : KeyOf(curr_shell_cmd[i - 1]) = typed[i]

ShellInv == LocalsInv /\ (pc # "overrun" => BufferInv)

LEMMA TypeableNotTerminator == Terminator \notin Typeable
BY CharactersAssumption DEF Typeable

LEMMA InitShell == ShellInit => ShellInv
<1> SUFFICES ASSUME ShellInit PROVE ShellInv
  OBVIOUS
<1>1. MaxCommand \in Nat \ {0}
  BY CommandAssumption
<1>2. LocalsInv
  BY DEF ShellInit, LocalsInv, InHand
<1>3. BufferInv
  BY <1>1 DEF ShellInit, CommandInit, BufferInv, CommandTerminated
<1> QED BY <1>2, <1>3 DEF ShellInv

\* Steps that leave the command alone.
LEMMA SameBuffer ==
  ASSUME BufferInv, UNCHANGED <<command, typed>>
  PROVE  BufferInv'
BY DEF BufferInv, CommandTerminated, command

LEMMA TypeStep ==
  ASSUME KeyboardTypeOK, ShellInv, Type
  PROVE  ShellInv'
<1> DEFINE c == Character
           n == cmd_length
<1>1. pc = "character" /\ n + 1 < MaxCommand /\ AppendCharacter(c) /\ typed' = Append(typed, event)
      /\ pc' = "poll" /\ UNCHANGED <<kvars, event, upper, arrived>>
  BY DEF Type
<1>0. BufferInv
  BY <1>1 DEF ShellInv
<1>2. event \in Keys /\ event \in Letters \cup Plain /\ upper \in BOOLEAN
  BY <1>1 DEF ShellInv, LocalsInv, InHand
<1>3. c \in Typeable /\ KeyOf(c) = event
  <2>1. CASE event \in Letters
    BY <1>2, <2>1, LetterOfKey DEF Typeable, Character
  <2>2. CASE event \notin Letters
    BY <1>2, <2>2, PlainOfKey DEF Typeable, Character
  <2> QED BY <2>1, <2>2
<1> HIDE DEF c
<1>4. c # Terminator
  BY <1>3, TypeableNotTerminator
<1>6. MaxCommand \in Nat /\ n \in Nat
  BY <1>0, CommandAssumption DEF BufferInv, CommandTerminated
<1>7. n \in 0 .. MaxCommand - 2 /\ n + 1 \in 0 .. MaxCommand - 1
  BY <1>1, <1>6
<1>8. /\ cmd_length' = n + 1
      /\ curr_shell_cmd' \in [0 .. MaxCommand - 1 -> Typeable \cup {Terminator}]
      /\ curr_shell_cmd'[n] = c /\ curr_shell_cmd'[n + 1] = Terminator
      /\ \A i \in 0 .. n - 1 : curr_shell_cmd'[i] = curr_shell_cmd[i]
  <2>1. /\ cmd_length' = n + 1
        /\ curr_shell_cmd' = [curr_shell_cmd EXCEPT ![n] = c, ![n + 1] = Terminator]
    BY <1>1 DEF AppendCharacter
  <2>2. curr_shell_cmd \in [0 .. MaxCommand - 1 -> Typeable \cup {Terminator}]
    BY <1>0 DEF BufferInv
  <2> HIDE DEF n
  <2> QED BY <1>3, <1>6, <1>7, <2>1, <2>2
<1>9. /\ \A i \in 0 .. n : curr_shell_cmd[i] = Terminator <=> i = n
      /\ typed \in Seq(Keys) /\ Len(typed) = n
      /\ \A i \in 1 .. n : KeyOf(curr_shell_cmd[i - 1]) = typed[i]
  BY <1>0 DEF BufferInv, CommandTerminated
<1> HIDE DEF n
<1>10. \A i \in 0 .. n + 1 : curr_shell_cmd'[i] = Terminator <=> i = n + 1
  <2> SUFFICES ASSUME NEW i \in 0 .. n + 1
               PROVE  curr_shell_cmd'[i] = Terminator <=> i = n + 1
    OBVIOUS
  <2>1. i = n + 1 \/ i = n \/ i \in 0 .. n - 1
    BY <1>6
  <2>2. CASE i \in 0 .. n - 1
    <3>1. i \in 0 .. n /\ i # n /\ i # n + 1
      BY <1>6, <2>2
    <3> QED BY <1>8, <1>9, <2>2, <3>1
  <2>3. n # n + 1
    BY <1>6
  <2> QED BY <1>4, <1>8, <2>1, <2>2, <2>3
<1>11. typed' \in Seq(Keys) /\ Len(typed') = n + 1
       /\ typed'[n + 1] = event /\ \A i \in 1 .. n : typed'[i] = typed[i]
  BY <1>1, <1>2, <1>9
<1>12. \A i \in 1 .. n + 1 : KeyOf(curr_shell_cmd'[i - 1]) = typed'[i]
  <2> SUFFICES ASSUME NEW i \in 1 .. n + 1
               PROVE  KeyOf(curr_shell_cmd'[i - 1]) = typed'[i]
    OBVIOUS
  <2>1. CASE i = n + 1
    <3>1. i - 1 = n
      BY <1>6, <2>1
    <3> QED BY <1>3, <1>8, <1>11, <2>1, <3>1
  <2>2. CASE i # n + 1
    <3>1. i \in 1 .. n /\ i - 1 \in 0 .. n - 1
      BY <1>6, <2>2
    <3> QED BY <1>8, <1>9, <1>11, <3>1
  <2> QED BY <2>1, <2>2
<1>13. BufferInv'
  BY <1>7, <1>8, <1>10, <1>11, <1>12 DEF BufferInv, CommandTerminated
<1>14. LocalsInv'
  BY <1>1, <1>2 DEF LocalsInv, InHand
<1> QED BY <1>13, <1>14 DEF ShellInv

\* Only the places of the program are known of a shell that has run over.
LEMMA OverrunStep ==
  ASSUME ShellInv, Overrun
  PROVE  ShellInv'
BY DEF ShellInv, LocalsInv, InHand, Overrun

LEMMA EraseStep ==
  ASSUME KeyboardTypeOK, ShellInv, Erase
  PROVE  ShellInv'
<1> DEFINE n == cmd_length
<1>1. /\ pc = "event" /\ n > 0 /\ cmd_length' = n - 1
      /\ curr_shell_cmd' = [curr_shell_cmd EXCEPT ![n - 1] = Terminator]
      /\ typed' = SubSeq(typed, 1, Len(typed) - 1) /\ pc' = "poll"
      /\ UNCHANGED <<kvars, event, upper, arrived>>
  BY DEF Erase, EraseCharacter
<1>2. /\ curr_shell_cmd \in [0 .. MaxCommand - 1 -> Typeable \cup {Terminator}]
      /\ n \in 0 .. MaxCommand - 1 /\ MaxCommand \in Nat
      /\ \A i \in 0 .. n : curr_shell_cmd[i] = Terminator <=> i = n
      /\ typed \in Seq(Keys) /\ Len(typed) = n
      /\ \A i \in 1 .. n : KeyOf(curr_shell_cmd[i - 1]) = typed[i]
  BY <1>1, CommandAssumption DEF ShellInv, BufferInv, CommandTerminated
<1> HIDE DEF n
<1>5. /\ curr_shell_cmd' \in [0 .. MaxCommand - 1 -> Typeable \cup {Terminator}]
      /\ curr_shell_cmd'[n - 1] = Terminator
      /\ \A i \in 0 .. n - 2 : curr_shell_cmd'[i] = curr_shell_cmd[i]
  BY <1>1, <1>2
<1>6. typed' \in Seq(Keys) /\ Len(typed') = n - 1 /\ \A i \in 1 .. n - 1 : typed'[i] = typed[i]
  BY <1>1, <1>2
<1>7. \A i \in 0 .. n - 1 : curr_shell_cmd'[i] = Terminator <=> i = n - 1
  <2> SUFFICES ASSUME NEW i \in 0 .. n - 1
               PROVE  curr_shell_cmd'[i] = Terminator <=> i = n - 1
    OBVIOUS
  <2>1. i \in 0 .. n /\ i # n /\ (i = n - 1 \/ i \in 0 .. n - 2)
    BY <1>2
  <2> QED BY <1>2, <1>5, <2>1
<1>8. \A i \in 1 .. n - 1 : KeyOf(curr_shell_cmd'[i - 1]) = typed'[i]
  <2> SUFFICES ASSUME NEW i \in 1 .. n - 1
               PROVE  KeyOf(curr_shell_cmd'[i - 1]) = typed'[i]
    OBVIOUS
  <2>1. i \in 1 .. n /\ i - 1 \in 0 .. n - 2
    BY <1>2
  <2> QED BY <1>2, <1>5, <1>6, <2>1
<1>9. n - 1 \in 0 .. MaxCommand - 1
  BY <1>1, <1>2
<1>10. BufferInv'
  BY <1>1, <1>5, <1>6, <1>7, <1>8, <1>9 DEF BufferInv, CommandTerminated
<1>11. LocalsInv'
  BY <1>1 DEF ShellInv, LocalsInv, InHand
<1> QED BY <1>10, <1>11 DEF ShellInv

LEMMA ExecuteStep ==
  ASSUME KeyboardTypeOK, ShellInv, Execute
  PROVE  ShellInv'
<1>1. /\ pc = "event" /\ cmd_length' = 0
      /\ curr_shell_cmd' = [curr_shell_cmd EXCEPT ![0] = Terminator]
      /\ typed' = <<>> /\ pc' \in {"poll", "stopped"}
      /\ UNCHANGED <<kvars, event, upper, arrived>>
  BY DEF Execute, RunCommand
<1>2. /\ curr_shell_cmd \in [0 .. MaxCommand - 1 -> Typeable \cup {Terminator}]
      /\ cmd_length \in Nat
  BY <1>1, CommandAssumption DEF ShellInv, BufferInv, CommandTerminated
<1>3. MaxCommand \in Nat \ {0} /\ 0 \in 0 .. MaxCommand - 1
  BY CommandAssumption
<1>5. BufferInv'
  BY <1>1, <1>2, <1>3 DEF BufferInv, CommandTerminated
<1>6. LocalsInv'
  BY <1>1 DEF ShellInv, LocalsInv, InHand
<1> QED BY <1>5, <1>6 DEF ShellInv

LEMMA ArrivalStep ==
  ASSUME ShellInv, Arrival
  PROVE  ShellInv'
<1>1. UNCHANGED <<locals, command, typed>>
  BY DEF Arrival
<1>2. BufferInv => BufferInv'
  BY <1>1, SameBuffer
<1> QED BY <1>1, <1>2 DEF ShellInv, LocalsInv, InHand, locals

LEMMA PollStep ==
  ASSUME ShellInv, Poll
  PROVE  ShellInv'
<1>1. /\ pc = "poll" /\ UNCHANGED <<upper, command, typed>>
      /\ IF result' \in Keys THEN pc' = "event" /\ event' = result'
                             ELSE UNCHANGED <<pc, event>>
  BY DEF Poll
<1>2. BufferInv'
  BY <1>1, SameBuffer DEF ShellInv
<1> QED BY <1>1, <1>2 DEF ShellInv, LocalsInv, InHand

\* The questions about the shift keys, and keys that do nothing.
LEMMA QuietStep ==
  ASSUME KeyboardTypeOK, ShellInv, AskLeftShift \/ AskRightShift \/ AskNothing \/ OtherKey
  PROVE  ShellInv'
<1>1. UNCHANGED <<event, command, typed>> /\ InHand /\ pc # "overrun"
  BY DEF AskLeftShift, AskRightShift, AskNothing, OtherKey, InHand
<1>2. key_states[KEY_LSHIFT] \in BOOLEAN /\ key_states[KEY_RSHIFT] \in BOOLEAN
  <2>1. KEY_LSHIFT \in 0 .. Up - 1 /\ KEY_RSHIFT \in 0 .. Up - 1
    BY ShellAssumption, ScancodeRange
  <2> QED BY <2>1 DEF KeyboardTypeOK
<1>3. BufferInv'
  BY <1>1, SameBuffer DEF ShellInv
<1>4. LocalsInv'
  <2>1. CASE AskLeftShift
    BY <1>1, <1>2, <2>1 DEF AskLeftShift, ShellInv, LocalsInv, InHand
  <2>2. CASE AskRightShift
    BY <1>1, <1>2, <2>2 DEF AskRightShift, ShellInv, LocalsInv, InHand
  <2>3. CASE AskNothing \/ OtherKey
    BY <1>1, <2>3 DEF AskNothing, OtherKey, ShellInv, LocalsInv, InHand
  <2> QED BY <2>1, <2>2, <2>3
<1> QED BY <1>3, <1>4 DEF ShellInv

LEMMA NextShell ==
  ASSUME KeyboardTypeOK, ShellInv, [ShellNext]_svars
  PROVE  ShellInv'
<1>1. CASE UNCHANGED svars
  <2>1. UNCHANGED <<locals, command, typed>>
    BY <1>1 DEF svars
  <2>2. BufferInv => BufferInv'
    BY <2>1, SameBuffer
  <2> QED BY <2>1, <2>2 DEF ShellInv, LocalsInv, InHand, locals
<1> QED BY <1>1, ArrivalStep, PollStep, QuietStep, TypeStep, OverrunStep, EraseStep, ExecuteStep
    DEF ShellNext, Program

\* What Enter will run is what was typed, in a session of any length and until
\* a command is as long as the buffer: no interrupt between two system calls
\* drops a character or puts it twice or out of order, and nothing of an earlier
\* command comes back.
THEOREM CommandAlwaysTyped == ShellSpec => []CommandIsTyped
<1>1. ShellInit => ShellInv
  BY InitShell
<1>2. KeyboardTypeOK /\ ShellInv /\ [ShellNext]_svars => ShellInv'
  BY NextShell
<1>3. ShellInv => CommandIsTyped
  <2> SUFFICES ASSUME ShellInv, pc # "overrun"
               PROVE  /\ CommandTerminated
                      /\ [i \in 1 .. cmd_length |-> KeyOf(curr_shell_cmd[i - 1])] = typed
    BY DEF CommandIsTyped
  <2>1. /\ typed \in Seq(Keys) /\ Len(typed) = cmd_length /\ CommandTerminated
        /\ \A i \in 1 .. cmd_length : KeyOf(curr_shell_cmd[i - 1]) = typed[i]
    BY DEF ShellInv, BufferInv
  <2>2. typed = [i \in 1 .. cmd_length |-> typed[i]]
    BY <2>1
  <2> QED BY <2>1, <2>2
<1>4. ShellSpec => KeyboardSpec
  <2>1. ShellInit => KeyboardInit
    BY DEF ShellInit
  <2> QED BY <2>1, ShellKeyboard, PTL DEF ShellSpec, KeyboardSpec
<1> QED BY <1>1, <1>2, <1>3, <1>4, KeyboardTyped, PTL DEF ShellSpec
=============================================================================
