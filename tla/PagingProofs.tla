----------------------------- MODULE PagingProofs -----------------------------
(***************************************************************************)
(* Theorems about Paging, for every size of the RAM and of the tables and  *)
(* every list of pages that the boot, the frame buffer, the program and    *)
(* the heaps ask for.                                                      *)
(***************************************************************************)
EXTENDS Paging, FiniteSetTheorems, TLAPS

-----------------------------------------------------------------------------
(* Pages and tables.                                                       *)

LEMMA TablesFit ==
  ASSUME NEW P \in Nat \ {0}, NEW T \in 0 .. P - 1, NEW t \in 0 .. P - 1
  PROVE  T * P + t \in 0 .. P * P - 1
<1>1. T * P + P <= P * P
  <2>1. PICK d \in Nat : P = T + 1 + d
    <3>1. P - T - 1 \in Nat /\ P = T + 1 + (P - T - 1)
      OBVIOUS
    <3> QED BY <3>1
  <2>2. P * P = (T + 1 + d) * P
    BY <2>1
  <2>3. (T + 1 + d) * P = T * P + P + d * P
    OBVIOUS
  <2>4. d * P >= 0
    OBVIOUS
  <2> QED BY <2>2, <2>3, <2>4
<1>2. T * P \in Nat /\ P * P \in Nat
  OBVIOUS
<1> QED BY <1>1, <1>2

LEMMA TablePageIsPage ==
  ASSUME NEW t \in Table
  PROVE  TablePage(t) \in Page
BY TablesFit, SizeAssumption DEF TablePage, Table, Page

LEMMA TablePageInjective ==
  ASSUME NEW t \in Table, NEW u \in Table, TablePage(t) = TablePage(u)
  PROVE  t = u
<1> DEFINE base == TableOfTables * PerTable
<1>1. base \in Nat
  BY SizeAssumption DEF Table
<1>2. base + t = base + u
  BY DEF TablePage
<1> HIDE DEF base
<1> QED BY <1>1, <1>2 DEF Table

LEMMA DivFits ==
  ASSUME NEW P \in Nat \ {0}, NEW p \in 0 .. P * P - 1
  PROVE  p \div P \in 0 .. P - 1
<1> DEFINE q == p \div P
<1>1. q \in Nat /\ q * P <= p
  OBVIOUS
<1>2. q < P
  <2> SUFFICES ASSUME q >= P PROVE FALSE
    BY <1>1
  <2>1. q * P >= P * P
    BY <1>1
  <2> QED BY <1>1, <2>1
<1> QED BY <1>1, <1>2

LEMMA TableOfIsTable ==
  ASSUME NEW p \in Page
  PROVE  TableOf(p) \in Table
BY DivFits, SizeAssumption DEF TableOf, Table, Page

LEMMA TableIsPage ==
  Table \subseteq Page /\ 0 \in Page
<1>1. \A t \in Table : t \in 0 .. PerTable * PerTable - 1
  <2> TAKE t \in Table
  <2>1. 0 \in 0 .. PerTable - 1 /\ 0 * PerTable + t = t /\ t \in 0 .. PerTable - 1
    BY SizeAssumption DEF Table
  <2> QED BY <2>1, TablesFit, SizeAssumption
<1>2. 0 \in Table
  BY SizeAssumption DEF Table
<1> QED BY <1>1, <1>2 DEF Page

-----------------------------------------------------------------------------
(* The inductive invariant.  What the loops still have to map tells why    *)
(* identityMapPage finds its frame as it was when it looked: no page of    *)
(* the boot needs a new table, and the frame buffer lies behind the RAM,   *)
(* from which the frame of a new table comes.                              *)

MappedIsTaken == \A p \in Page : pages[p].frame # 0 => pages[p].frame \in free_frames

TablesLoop ==
  phase = "tables" =>
    /\ wanted = None
    /\ Len(todo) <= Len(FirstTables)
    /\ \A i \in DOMAIN todo : todo[i] \in Table
    /\ free_frames = {TablePage(t) : t \in 0 .. Len(FirstTables) - Len(todo) - 1}
    /\ \A k \in DOMAIN FirstTables :
         FirstTables[k] \in tables_allocated \/ \E i \in DOMAIN todo : todo[i] = FirstTables[k]

IdentityLoops ==
  /\ phase # "tables" => \A k \in DOMAIN FirstTables : FirstTables[k] \in tables_allocated
  /\ phase = "boot" => \A i \in DOMAIN todo : TableOf(todo[i]) \in tables_allocated
  /\ phase = "framebuffer" => \A i \in DOMAIN todo : todo[i] >= Total

Checked ==
  phase \in {"boot", "framebuffer"} /\ wanted # None =>
    /\ todo # <<>> /\ wanted = Head(todo)
    /\ wanted \notin free_frames

FrameInv ==
  TypeOK /\ FramesExclusive /\ MappedIsTaken /\ TablesLoop /\ IdentityLoops /\ Checked

LEMMA EntryFrame ==
  ASSUME TypeOK, NEW p \in Page
  PROVE  pages[p] \in Entry /\ pages[p].frame \in Frame
BY DEF TypeOK, Entry

LEMMA MappedType ==
  ASSUME NEW f \in Frame
  PROVE  Mapped(f) \in Entry /\ Mapped(f).frame = f
BY DEF Mapped, Entry

\* A page gets a frame that is free: no two pages share one.
LEMMA FreeFrameMapped ==
  ASSUME TypeOK, FramesExclusive, MappedIsTaken,
         NEW f \in Frame, f \notin free_frames, NEW p \in Page,
         pages' = [pages EXCEPT ![p] = Mapped(f)], SetFrame(f)
  PROVE  /\ FramesExclusive' /\ MappedIsTaken'
         /\ pages' \in [Page -> Entry]
         /\ free_frames' \subseteq Frame /\ allocated_frames' \in Int
<1>1. free_frames' = free_frames \cup {f} /\ allocated_frames' \in Int
  BY SizeAssumption DEF SetFrame, TypeOK, Frame, Page
<1>2. \A q \in Page : pages'[q].frame = IF q = p THEN f ELSE pages[q].frame
  BY MappedType DEF TypeOK
<1>3. pages' \in [Page -> Entry]
  BY MappedType DEF TypeOK
<1>4. FramesExclusive'
  BY <1>2 DEF FramesExclusive, MappedIsTaken
<1>5. MappedIsTaken'
  BY <1>1, <1>2 DEF MappedIsTaken
<1> QED BY <1>1, <1>3, <1>4, <1>5 DEF TypeOK

LEMMA FirstFreeIsFree ==
  ASSUME NEW f, FirstFree(f)
  PROVE  f \in Frame /\ f \notin free_frames /\ f < Total
BY DEF FirstFree

LEMMA TailOfList ==
  ASSUME NEW S, NEW s \in Seq(S), s # <<>>
  PROVE  /\ Head(s) \in S /\ Head(s) = s[1] /\ 1 \in DOMAIN s
         /\ Tail(s) \in Seq(S) /\ Len(Tail(s)) = Len(s) - 1 /\ Len(s) >= 1
         /\ \A i \in DOMAIN Tail(s) : i + 1 \in DOMAIN s /\ Tail(s)[i] = s[i + 1]
         /\ \A i \in DOMAIN s : i = 1 \/ (i - 1 \in DOMAIN Tail(s) /\ Tail(s)[i - 1] = s[i])
OBVIOUS

-----------------------------------------------------------------------------
(* The actions.                                                            *)

LEMMA InitInv == Init => FrameInv
<1> SUFFICES ASSUME Init PROVE FrameInv
  OBVIOUS
<1>1. 0 \in Page /\ 0 \in Frame /\ Table \subseteq Page
  BY TableIsPage DEF Frame
<1>2. FirstTables \in Seq(Page) /\ FirstTables \in Seq(Table)
  BY <1>1, LayoutAssumption
<1>3. TypeOK
  BY <1>1, <1>2 DEF Init, TypeOK, Unmapped, Entry, Frame
<1>4. FramesExclusive /\ MappedIsTaken
  BY DEF Init, FramesExclusive, MappedIsTaken, Unmapped
<1>5. TablesLoop
  <2>1. {TablePage(t) : t \in 0 .. Len(FirstTables) - Len(FirstTables) - 1} = {}
    BY <1>2
  <2>2. \A i \in DOMAIN FirstTables : FirstTables[i] \in Table
    BY <1>2
  <2> QED BY <2>1, <2>2, <1>2 DEF Init, TablesLoop
<1> QED BY <1>3, <1>4, <1>5 DEF Init, FrameInv, IdentityLoops, Checked

LEMMA SetUpTableInv ==
  ASSUME FrameInv, SetUpTable
  PROVE  FrameInv'
<1> DEFINE n == Len(FirstTables) - Len(todo)
           p == TablePage(n)
           t == Head(todo)
<1>1. /\ TypeOK /\ FramesExclusive /\ MappedIsTaken /\ TablesLoop
      /\ phase = "tables" /\ todo # <<>> /\ wanted = None /\ Running
  BY DEF FrameInv, SetUpTable, TablesLoop
<1>2. /\ todo \in Seq(Page) /\ FirstTables \in Seq(Table)
      /\ Len(FirstTables) <= PerTable /\ PerTable \in Nat
  BY <1>1, LayoutAssumption, SizeAssumption DEF TypeOK
<1>3. /\ Head(todo) = todo[1] /\ 1 \in DOMAIN todo
      /\ Tail(todo) \in Seq(Page) /\ Len(Tail(todo)) = Len(todo) - 1 /\ Len(todo) >= 1
      /\ \A i \in DOMAIN Tail(todo) : i + 1 \in DOMAIN todo /\ Tail(todo)[i] = todo[i + 1]
      /\ \A i \in DOMAIN todo :
           i = 1 \/ (i - 1 \in DOMAIN Tail(todo) /\ Tail(todo)[i - 1] = todo[i])
  BY <1>1, <1>2, TailOfList
<1>4. t \in Table
  BY <1>1, <1>3 DEF TablesLoop
<1>5. /\ Len(todo) <= Len(FirstTables) /\ Len(todo) \in Nat /\ Len(FirstTables) \in Nat
  BY <1>1, <1>2 DEF TablesLoop
<1>6. n \in Table /\ \A u \in 0 .. n - 1 : u \in Table
  BY <1>2, <1>3, <1>5 DEF Table
<1>7. p \in Page /\ p \in Frame /\ TablePage(t) \in Frame
  BY <1>4, <1>6, TablePageIsPage DEF Frame
<1>8. p \notin free_frames
  <2>1. free_frames = {TablePage(u) : u \in 0 .. n - 1}
    BY <1>1 DEF TablesLoop
  <2>2. \A u \in 0 .. n - 1 : TablePage(u) # p
    <3> TAKE u \in 0 .. n - 1
    <3>1. u # n /\ u \in Table
      BY <1>6, <1>5
    <3> QED BY <3>1, <1>6, TablePageInjective
  <2> QED BY <2>1, <2>2
<1>9. /\ tables_allocated' = tables_allocated \cup {t}
      /\ physical_table_addresses' =
           [physical_table_addresses EXCEPT ![t] = TablePage(t)]
      /\ SetFrame(p) /\ pages' = [pages EXCEPT ![p] = Mapped(p)]
      /\ todo' = Tail(todo)
      /\ UNCHANGED <<phase, wanted, trap>>
  BY DEF SetUpTable
<1> HIDE DEF p, t
<1>10. /\ FramesExclusive' /\ MappedIsTaken'
       /\ pages' \in [Page -> Entry]
       /\ free_frames' \subseteq Frame /\ allocated_frames' \in Int
  BY <1>1, <1>7, <1>8, <1>9, FreeFrameMapped
<1>11. TypeOK'
  BY <1>1, <1>3, <1>4, <1>7, <1>9, <1>10 DEF TypeOK
<1>12. TablesLoop'
  <2>1. free_frames' = {TablePage(u) : u \in 0 .. Len(FirstTables) - Len(todo') - 1}
    <3>1. free_frames = {TablePage(u) : u \in 0 .. n - 1}
      BY <1>1 DEF TablesLoop
    <3>2. Len(FirstTables) - Len(todo') - 1 = n /\ n \in Nat
      BY <1>3, <1>5, <1>9
    <3>3. 0 .. n = (0 .. n - 1) \cup {n}
      BY <3>2
    <3>4. free_frames' = free_frames \cup {p}
      BY <1>9 DEF SetFrame
    <3>5. {TablePage(u) : u \in 0 .. n} = {TablePage(u) : u \in 0 .. n - 1} \cup {TablePage(n)}
      BY <3>3
    <3> QED BY <3>1, <3>2, <3>4, <3>5 DEF p
  <2>2. \A i \in DOMAIN todo' : todo'[i] \in Table
    BY <1>1, <1>3, <1>9 DEF TablesLoop
  <2>3. \A k \in DOMAIN FirstTables :
          FirstTables[k] \in tables_allocated' \/ \E i \in DOMAIN todo' : todo'[i] = FirstTables[k]
    <3> TAKE k \in DOMAIN FirstTables
    <3>1. CASE FirstTables[k] \in tables_allocated
      BY <3>1, <1>9
    <3>2. CASE \E i \in DOMAIN todo : todo[i] = FirstTables[k]
      <4>1. PICK i \in DOMAIN todo : todo[i] = FirstTables[k]
        BY <3>2
      <4>2. CASE i = 1
        BY <4>1, <4>2, <1>3, <1>9 DEF t
      <4>3. CASE i # 1
        BY <4>1, <4>3, <1>3, <1>9
      <4> QED BY <4>2, <4>3
    <3> QED BY <3>1, <3>2, <1>1 DEF TablesLoop
  <2>4. Len(todo') <= Len(FirstTables)
    BY <1>3, <1>5, <1>9
  <2> QED BY <1>1, <1>9, <2>1, <2>2, <2>3, <2>4 DEF TablesLoop
<1>13. IdentityLoops' /\ Checked'
  BY <1>1, <1>9 DEF IdentityLoops, Checked
<1> QED BY <1>10, <1>11, <1>12, <1>13 DEF FrameInv

\* Nothing that the frames depend on changes: the other conjuncts follow.
LEMMA FramesUnchanged ==
  ASSUME FramesExclusive, MappedIsTaken, UNCHANGED <<free_frames, pages>>
  PROVE  FramesExclusive' /\ MappedIsTaken'
BY DEF FramesExclusive, MappedIsTaken

LEMMA NextPhaseInv ==
  ASSUME FrameInv, NextPhase
  PROVE  FrameInv'
<1>1. /\ TypeOK /\ FramesExclusive /\ MappedIsTaken /\ TablesLoop /\ IdentityLoops
      /\ UNCHANGED <<free_frames, allocated_frames, pages, tables_allocated,
                     physical_table_addresses, wanted, trap>>
      /\ wanted = None /\ todo = <<>>
  BY DEF FrameInv, NextPhase, frames, tables
<1>2. Boot \in Seq(Page) /\ Framebuffer \in Seq(Page) /\ Program \in Seq(Page)
  BY LayoutAssumption
<1>3. TypeOK'
  BY <1>1, <1>2 DEF NextPhase, TypeOK
<1>4. FramesExclusive' /\ MappedIsTaken'
  BY <1>1, FramesUnchanged
<1>5. phase' # "tables" /\ TablesLoop'
  BY DEF NextPhase, TablesLoop
<1>6. \A k \in DOMAIN FirstTables : FirstTables[k] \in tables_allocated'
  BY <1>1 DEF TablesLoop, IdentityLoops
<1>7. phase' = "boot" => \A i \in DOMAIN todo' : TableOf(todo'[i]) \in tables_allocated'
  <2> SUFFICES ASSUME phase' = "boot"
               PROVE  \A i \in DOMAIN Boot : TableOf(Boot[i]) \in tables_allocated'
    BY DEF NextPhase
  <2> QED BY <1>6, BootAssumption
<1>8. phase' = "framebuffer" => \A i \in DOMAIN todo' : todo'[i] >= Total
  BY FramebufferAssumption DEF NextPhase
<1>9. Checked'
  BY <1>1 DEF Checked
<1> QED BY <1>3, <1>4, <1>5, <1>6, <1>7, <1>8, <1>9 DEF FrameInv, IdentityLoops

LEMMA CheckFrameInv ==
  ASSUME FrameInv, CheckFrame
  PROVE  FrameInv'
<1>1. /\ TypeOK /\ FramesExclusive /\ MappedIsTaken /\ TablesLoop /\ IdentityLoops
      /\ UNCHANGED <<free_frames, allocated_frames, pages, tables_allocated,
                     physical_table_addresses, phase, todo>>
      /\ phase \in {"boot", "framebuffer"} /\ todo # <<>> /\ wanted = None
  BY DEF FrameInv, CheckFrame, frames, tables
<1>2. Head(todo) \in Page
  BY <1>1, TailOfList DEF TypeOK
<1>3. TypeOK'
  BY <1>1, <1>2 DEF CheckFrame, TypeOK
<1>4. FramesExclusive' /\ MappedIsTaken'
  BY <1>1, FramesUnchanged
<1>5. Checked'
  BY <1>1 DEF CheckFrame, Checked
<1> QED BY <1>1, <1>3, <1>4, <1>5 DEF FrameInv, TablesLoop, IdentityLoops

LEMMA AllocateTableInv ==
  ASSUME FrameInv, AllocateTable
  PROVE  FrameInv'
<1> DEFINE t == TableOf(wanted)
           p == TablePage(t)
<1>1. /\ TypeOK /\ FramesExclusive /\ MappedIsTaken /\ TablesLoop /\ IdentityLoops /\ Checked
      /\ UNCHANGED <<phase, todo, wanted, trap>>
      /\ wanted # None /\ wanted \in Page
      /\ t \notin tables_allocated /\ tables_allocated' = tables_allocated \cup {t}
  BY DEF FrameInv, AllocateTable, TypeOK
<1>2. t \in Table /\ p \in Page
  BY <1>1, TableOfIsTable, TablePageIsPage
<1>3. phase \notin {"tables", "boot"}
  <2>1. phase # "tables"
    BY <1>1 DEF TablesLoop
  <2>2. ASSUME phase = "boot" PROVE FALSE
    <3>1. todo # <<>> /\ wanted = Head(todo)
      BY <1>1, <2>2 DEF Checked
    <3>2. 1 \in DOMAIN todo /\ Head(todo) = todo[1]
      BY <1>1, <3>1, TailOfList DEF TypeOK
    <3> QED BY <1>1, <2>2, <3>1, <3>2 DEF IdentityLoops
  <2> QED BY <2>1, <2>2
<1>4. physical_table_addresses' = [physical_table_addresses EXCEPT ![t] = pages'[p].frame]
  BY DEF AllocateTable
<1>5. /\ FramesExclusive' /\ MappedIsTaken'
      /\ pages' \in [Page -> Entry]
      /\ free_frames' \subseteq Frame /\ allocated_frames' \in Int
      /\ free_frames' = free_frames
         \/ \E f \in Frame : f < Total /\ free_frames' = free_frames \cup {f}
  <2>1. CASE pages[p].frame = 0
    <3>1. PICK f \in Frame : FirstFree(f) /\ SetFrame(f) /\ pages' = [pages EXCEPT ![p] = Mapped(f)]
      BY <2>1 DEF AllocateTable
    <3>2. f \notin free_frames /\ f < Total
      BY <3>1, FirstFreeIsFree
    <3>3. free_frames' = free_frames \cup {f}
      BY <3>1 DEF SetFrame
    <3> HIDE DEF p
    <3> QED BY <1>1, <1>2, <3>1, <3>2, <3>3, FreeFrameMapped
  <2>2. CASE pages[p].frame # 0
    <3>1. UNCHANGED <<free_frames, allocated_frames, pages>>
      BY <2>2 DEF AllocateTable, frames
    <3> QED BY <1>1, <3>1, FramesUnchanged DEF TypeOK
  <2> QED BY <2>1, <2>2
<1> HIDE DEF p, t
<1>6. pages'[p].frame \in Frame
  BY <1>2, <1>5 DEF Entry
<1>7. TypeOK'
  BY <1>1, <1>2, <1>4, <1>5, <1>6 DEF TypeOK
<1>8. IdentityLoops' /\ TablesLoop'
  BY <1>1, <1>3 DEF IdentityLoops, TablesLoop
<1>9. Checked'
  <2> SUFFICES ASSUME phase = "framebuffer" PROVE Checked'
    BY <1>1, <1>3 DEF Checked
  <2>1. todo # <<>> /\ wanted = Head(todo) /\ wanted \notin free_frames
    BY <1>1 DEF Checked
  <2>2. 1 \in DOMAIN todo /\ Head(todo) = todo[1]
    BY <1>1, <2>1, TailOfList DEF TypeOK
  <2>3. wanted >= Total
    BY <1>1, <2>1, <2>2 DEF IdentityLoops
  <2>4. wanted \notin free_frames'
    BY <1>1, <1>5, <2>1, <2>3, SizeAssumption DEF Page, Frame
  <2> QED BY <1>1, <2>1, <2>4 DEF Checked
<1> QED BY <1>5, <1>7, <1>8, <1>9 DEF FrameInv

LEMMA IdentityMapInv ==
  ASSUME FrameInv, IdentityMap
  PROVE  FrameInv'
<1>1. /\ TypeOK /\ FramesExclusive /\ MappedIsTaken /\ TablesLoop /\ IdentityLoops /\ Checked
      /\ phase \in {"boot", "framebuffer"} /\ wanted # None /\ wanted \in Page
      /\ SetFrame(wanted) /\ pages' = [pages EXCEPT ![wanted] = Mapped(wanted)]
      /\ wanted' = None /\ todo' = Tail(todo)
      /\ UNCHANGED <<tables_allocated, physical_table_addresses, phase, trap>>
  BY DEF FrameInv, IdentityMap, TypeOK, tables
<1>2. todo # <<>> /\ wanted \notin free_frames
  BY <1>1 DEF Checked
<1>3. /\ FramesExclusive' /\ MappedIsTaken'
      /\ pages' \in [Page -> Entry]
      /\ free_frames' \subseteq Frame /\ allocated_frames' \in Int
  BY <1>1, <1>2, FreeFrameMapped DEF Frame
<1>4. /\ Tail(todo) \in Seq(Page)
      /\ \A i \in DOMAIN Tail(todo) : i + 1 \in DOMAIN todo /\ Tail(todo)[i] = todo[i + 1]
  BY <1>1, <1>2, TailOfList DEF TypeOK
<1>5. TypeOK'
  BY <1>1, <1>3, <1>4 DEF TypeOK
<1>6. TablesLoop' /\ Checked'
  BY <1>1 DEF TablesLoop, Checked
<1>7. IdentityLoops'
  BY <1>1, <1>4 DEF IdentityLoops
<1> QED BY <1>3, <1>5, <1>6, <1>7 DEF FrameInv

LEMMA WantFrameInv ==
  ASSUME FrameInv, WantFrame
  PROVE  FrameInv'
<1>1. /\ TypeOK /\ FramesExclusive /\ MappedIsTaken /\ TablesLoop /\ IdentityLoops
      /\ UNCHANGED <<free_frames, allocated_frames, pages, tables_allocated,
                     physical_table_addresses, phase, trap>>
      /\ phase \in {"heap", "program", "user"}
  BY DEF FrameInv, WantFrame, frames, tables
<1>2. todo' \in Seq(Page) /\ wanted' \in Page
  <2>1. todo \in Seq(Page) /\ Heap \subseteq Page
    BY <1>1, LayoutAssumption DEF TypeOK
  <2>2. CASE wanted' \in Heap /\ UNCHANGED todo
    BY <2>1, <2>2
  <2>3. CASE todo # <<>> /\ wanted' = Head(todo) /\ todo' = Tail(todo)
    <3>1. Head(todo) \in Page /\ Tail(todo) \in Seq(Page)
      BY <2>1, <2>3, TailOfList
    <3> QED BY <2>3, <3>1
  <2> QED BY <2>2, <2>3 DEF WantFrame
<1>3. TypeOK'
  BY <1>1, <1>2 DEF TypeOK
<1>4. FramesExclusive' /\ MappedIsTaken'
  BY <1>1, FramesUnchanged
<1> QED BY <1>1, <1>3, <1>4 DEF FrameInv, TablesLoop, IdentityLoops, Checked

LEMMA AllocateFrameInv ==
  ASSUME FrameInv, AllocateFrame
  PROVE  FrameInv'
<1>1. /\ TypeOK /\ FramesExclusive /\ MappedIsTaken /\ TablesLoop /\ IdentityLoops
      /\ UNCHANGED <<tables_allocated, physical_table_addresses, phase, todo, trap>>
      /\ phase \in {"heap", "program", "user"}
      /\ wanted # None /\ wanted \in Page /\ wanted' = None
  BY DEF FrameInv, AllocateFrame, TypeOK, tables
<1>2. /\ FramesExclusive' /\ MappedIsTaken'
      /\ pages' \in [Page -> Entry]
      /\ free_frames' \subseteq Frame /\ allocated_frames' \in Int
  <2>1. CASE pages[wanted].frame = 0
    <3>1. PICK f \in Frame :
            FirstFree(f) /\ SetFrame(f) /\ pages' = [pages EXCEPT ![wanted] = Mapped(f)]
      BY <2>1 DEF AllocateFrame
    <3> QED BY <1>1, <3>1, FirstFreeIsFree, FreeFrameMapped
  <2>2. CASE pages[wanted].frame # 0
    <3>1. UNCHANGED <<free_frames, allocated_frames, pages>>
      BY <2>2 DEF AllocateFrame, frames
    <3> QED BY <1>1, <3>1, FramesUnchanged DEF TypeOK
  <2> QED BY <2>1, <2>2
<1>3. TypeOK'
  BY <1>1, <1>2 DEF TypeOK
<1> QED BY <1>1, <1>2, <1>3 DEF FrameInv, TablesLoop, IdentityLoops, Checked

LEMMA OutOfFramesInv ==
  ASSUME FrameInv, OutOfFrames
  PROVE  FrameInv'
<1>1. TableOf(wanted) \in Table
  BY TableOfIsTable DEF FrameInv, OutOfFrames, TypeOK
<1> QED BY <1>1 DEF FrameInv, OutOfFrames, TypeOK, FramesExclusive, MappedIsTaken, TablesLoop,
           IdentityLoops, Checked, frames

LEMMA FreeFrameInv ==
  ASSUME FrameInv, FreeFrame
  PROVE  FrameInv'
<1> DEFINE p == Head(todo)
<1>1. /\ TypeOK /\ FramesExclusive /\ MappedIsTaken /\ IdentityLoops
      /\ UNCHANGED <<tables_allocated, physical_table_addresses, phase, wanted, trap>>
      /\ phase = "free" /\ todo # <<>> /\ todo' = Tail(todo)
  BY DEF FrameInv, FreeFrame, tables
<1>2. p \in Page /\ Tail(todo) \in Seq(Page)
  BY <1>1, TailOfList DEF TypeOK
<1>3. /\ FramesExclusive' /\ MappedIsTaken'
      /\ pages' \in [Page -> Entry]
      /\ free_frames' \subseteq Frame /\ allocated_frames' \in Int
  <2>1. CASE pages[p].frame # 0
    <3>1. ClearFrame(pages[p].frame) /\ pages' = [pages EXCEPT ![p].frame = 0]
      BY <2>1 DEF FreeFrame
    <3> HIDE DEF p
    <3>2. free_frames' = free_frames \ {pages[p].frame} /\ allocated_frames' \in Int
      BY <1>1, <1>2, <3>1, EntryFrame, SizeAssumption DEF ClearFrame, TypeOK, Frame, Page
    <3>3. \A q \in Page : pages'[q].frame = IF q = p THEN 0 ELSE pages[q].frame
      <4>1. pages' = [pages EXCEPT ![p] = [pages[p] EXCEPT !.frame = 0]]
        BY <3>1
      <4> QED BY <4>1, <1>1, <1>2, EntryFrame DEF TypeOK, Entry
    <3>4. pages' \in [Page -> Entry]
      <4>1. pages' = [pages EXCEPT ![p] = [pages[p] EXCEPT !.frame = 0]]
        BY <3>1
      <4>2. [pages[p] EXCEPT !.frame = 0] \in Entry
        BY <1>1, <1>2, EntryFrame, TableIsPage DEF Entry, Frame
      <4> QED BY <4>1, <4>2, <1>1 DEF TypeOK
    <3>5. FramesExclusive'
      BY <1>1, <3>3 DEF FramesExclusive
    <3>6. MappedIsTaken'
      BY <1>1, <1>2, <3>2, <3>3 DEF MappedIsTaken, FramesExclusive
    <3> QED BY <1>1, <3>2, <3>4, <3>5, <3>6 DEF TypeOK
  <2>2. CASE pages[p].frame = 0
    <3>1. UNCHANGED <<free_frames, allocated_frames, pages>>
      BY <2>2 DEF FreeFrame, frames
    <3> QED BY <1>1, <3>1, FramesUnchanged DEF TypeOK
  <2> QED BY <2>1, <2>2
<1>4. TypeOK'
  BY <1>1, <1>2, <1>3 DEF TypeOK
<1> QED BY <1>1, <1>3, <1>4 DEF FrameInv, TablesLoop, IdentityLoops, Checked

LEMMA FrameInvStep ==
  ASSUME FrameInv, [Next]_vars
  PROVE  FrameInv'
<1>1. CASE SetUpTable
  BY <1>1, SetUpTableInv
<1>2. CASE NextPhase
  BY <1>2, NextPhaseInv
<1>3. CASE CheckFrame
  BY <1>3, CheckFrameInv
<1>4. CASE AllocateTable
  BY <1>4, AllocateTableInv
<1>5. CASE IdentityMap
  BY <1>5, IdentityMapInv
<1>6. CASE WantFrame
  BY <1>6, WantFrameInv
<1>7. CASE AllocateFrame
  BY <1>7, AllocateFrameInv
<1>8. CASE OutOfFrames
  BY <1>8, OutOfFramesInv
<1>9. CASE FreeFrame
  BY <1>9, FreeFrameInv
<1>10. CASE UNCHANGED vars
  BY <1>10 DEF vars, frames, tables, FrameInv, TypeOK, FramesExclusive, MappedIsTaken,
               TablesLoop, IdentityLoops, Checked
<1> QED BY <1>1, <1>2, <1>3, <1>4, <1>5, <1>6, <1>7, <1>8, <1>9, <1>10 DEF Next

LEMMA AlwaysFrameInv == Spec => []FrameInv
BY InitInv, FrameInvStep, PTL DEF Spec

\* The directory, the tables and the lists are well formed in every boot and
\* in every order of the calls.
THEOREM PagingTyped == Spec => []TypeOK
BY AlwaysFrameInv, PTL DEF FrameInv

\* No frame is ever given to two pages, whether a heap, the program, a new
\* table or an identity map asks for it.
THEOREM NoFrameShared == Spec => []FramesExclusive
BY AlwaysFrameInv, PTL DEF FrameInv

-----------------------------------------------------------------------------
(* The counter behind getUsedMemory.                                       *)

Ram(S) == {f \in S : f < Total}

LEMMA RamFinite ==
  ASSUME NEW S, S \subseteq Frame
  PROVE  IsFiniteSet(Ram(S)) /\ Cardinality(Ram(S)) \in Nat
<1>1. Ram(S) \subseteq 0 .. Total - 1
  <2>1. \A f \in Page : f \in Nat
    BY DEF Page
  <2>2. Total \in Nat
    BY <2>1, SizeAssumption
  <2>3. \A f \in Ram(S) : f \in Nat /\ f < Total
    BY <2>1 DEF Ram, Frame
  <2>4. \A f \in Nat : f < Total => f \in 0 .. Total - 1
    BY <2>2
  <2> QED BY <2>3, <2>4
<1>2. IsFiniteSet(0 .. Total - 1)
  BY FS_Interval, SizeAssumption DEF Page
<1> QED BY <1>1, <1>2, FS_Subset, FS_CardinalityType

LEMMA SetFrameCounts ==
  ASSUME TypeOK, CounterAgrees, NEW f \in Frame, SetFrame(f)
  PROVE  CounterAgrees'
<1>1. free_frames \subseteq Frame /\ allocated_frames = Cardinality(Ram(free_frames))
  BY DEF TypeOK, CounterAgrees, Ram
<1>2. CASE f \notin free_frames /\ f < Total
  <2>1. Ram(free_frames') = Ram(free_frames) \cup {f} /\ f \notin Ram(free_frames)
    BY <1>2 DEF SetFrame, Ram
  <2>2. Cardinality(Ram(free_frames) \cup {f}) = Cardinality(Ram(free_frames)) + 1
    BY <1>1, <2>1, RamFinite, FS_AddElement
  <2> QED BY <1>1, <1>2, <2>1, <2>2 DEF SetFrame, CounterAgrees, Ram
<1>3. CASE ~(f \notin free_frames /\ f < Total)
  <2>1. Ram(free_frames') = Ram(free_frames)
    BY <1>3 DEF SetFrame, Ram
  <2>2. allocated_frames' = allocated_frames
    BY <1>1, <1>3, RamFinite DEF SetFrame
  <2> QED BY <1>1, <2>1, <2>2 DEF CounterAgrees, Ram
<1> QED BY <1>2, <1>3

LEMMA ClearFrameCounts ==
  ASSUME TypeOK, CounterAgrees, NEW f \in Frame, ClearFrame(f)
  PROVE  CounterAgrees'
<1>1. free_frames \subseteq Frame /\ allocated_frames = Cardinality(Ram(free_frames))
  BY DEF TypeOK, CounterAgrees, Ram
<1>2. CASE f \in free_frames /\ f < Total
  <2>1. Ram(free_frames') = Ram(free_frames) \ {f} /\ f \in Ram(free_frames)
    BY <1>2 DEF ClearFrame, Ram
  <2>2. Cardinality(Ram(free_frames) \ {f}) = Cardinality(Ram(free_frames)) - 1
    BY <1>1, <2>1, RamFinite, FS_RemoveElement
  <2> QED BY <1>1, <1>2, <2>1, <2>2 DEF ClearFrame, CounterAgrees, Ram
<1>3. CASE ~(f \in free_frames /\ f < Total)
  <2>1. Ram(free_frames') = Ram(free_frames)
    BY <1>3 DEF ClearFrame, Ram
  <2>2. allocated_frames' = allocated_frames
    BY <1>1, <1>3, RamFinite DEF ClearFrame
  <2> QED BY <1>1, <2>1, <2>2 DEF CounterAgrees, Ram
<1> QED BY <1>2, <1>3

\* A step leaves bits and count alone, sets one frame or clears one.
LEMMA StepsOfFrames ==
  ASSUME FrameInv, [Next]_vars
  PROVE  \/ UNCHANGED <<free_frames, allocated_frames>>
         \/ \E f \in Frame : SetFrame(f) \/ ClearFrame(f)
<1>1. TypeOK
  BY DEF FrameInv
<1>2. CASE SetUpTable
  <2>1. phase = "tables" /\ SetFrame(TablePage(Len(FirstTables) - Len(todo))) /\ todo # <<>>
    BY <1>2 DEF SetUpTable
  <2>2. Len(FirstTables) - Len(todo) \in Table
    <3>1. /\ Len(todo) \in Nat /\ Len(todo) >= 1 /\ Len(FirstTables) \in Nat
          /\ Len(todo) <= Len(FirstTables) /\ Len(FirstTables) <= PerTable
      BY <1>1, <2>1, TailOfList, LayoutAssumption DEF FrameInv, TablesLoop, TypeOK
    <3> QED BY <3>1, SizeAssumption DEF Table
  <2> QED BY <2>1, <2>2, TablePageIsPage DEF Frame
<1>3. CASE AllocateTable
  BY <1>3 DEF AllocateTable, frames
<1>4. CASE IdentityMap
  BY <1>1, <1>3, <1>4 DEF IdentityMap, TypeOK, Frame
<1>5. CASE AllocateFrame
  BY <1>5 DEF AllocateFrame, frames
<1>6. CASE FreeFrame
  <2>1. Head(todo) \in Page
    BY <1>1, <1>6, TailOfList DEF FreeFrame, TypeOK
  <2> QED BY <1>1, <1>6, <2>1, EntryFrame DEF FreeFrame, frames
<1>7. CASE NextPhase \/ CheckFrame \/ WantFrame \/ OutOfFrames \/ UNCHANGED vars
  BY <1>7 DEF NextPhase, CheckFrame, WantFrame, OutOfFrames, vars, frames
<1> QED BY <1>2, <1>3, <1>4, <1>5, <1>6, <1>7 DEF Next

\* getUsedMemory always reports the number of frames of the RAM that are taken.
THEOREM UsedMemoryCounted == Spec => []CounterAgrees
<1>1. Init => CounterAgrees
  <2> SUFFICES ASSUME Init PROVE CounterAgrees
    OBVIOUS
  <2>1. {f \in free_frames : f < Total} = {}
    BY DEF Init
  <2> QED BY <2>1, FS_EmptySet DEF Init, CounterAgrees
<1>2. FrameInv /\ CounterAgrees /\ [Next]_vars => CounterAgrees'
  <2> SUFFICES ASSUME FrameInv, CounterAgrees, [Next]_vars PROVE CounterAgrees'
    OBVIOUS
  <2>1. CASE UNCHANGED <<free_frames, allocated_frames>>
    BY <2>1 DEF CounterAgrees
  <2>2. CASE \E f \in Frame : SetFrame(f) \/ ClearFrame(f)
    BY <2>2, SetFrameCounts, ClearFrameCounts DEF FrameInv
  <2> QED BY <2>1, <2>2, StepsOfFrames
<1> QED BY <1>1, <1>2, AlwaysFrameInv, PTL DEF Spec

-----------------------------------------------------------------------------
(* The layout: what the identity maps will need is untouched until they    *)
(* come, and a page of a table belongs to its table alone.                 *)

Untouched(list) == \A i \in DOMAIN list : list[i] \notin free_frames /\ pages[list[i]].frame = 0

Ahead ==
  /\ phase = "tables" => Untouched(Boot)
  /\ phase \in {"tables", "boot", "heap"} => Untouched(Framebuffer)
  /\ phase \in {"boot", "framebuffer"} =>
       /\ Untouched(todo)
       /\ \A i, j \in DOMAIN todo : todo[i] = todo[j] => i = j

\* Where the pages come from that are still to be mapped, or freed.
Sources ==
  /\ phase = "tables" => Listed(todo) \subseteq Listed(FirstTables)
  /\ phase = "boot" => Listed(todo) \subseteq Listed(Boot)
  /\ phase = "framebuffer" => Listed(todo) \subseteq Listed(Framebuffer)
  /\ phase \in {"program", "free"} => Listed(todo) \subseteq Listed(Program)
  /\ phase \in {"heap", "user"} /\ wanted # None => wanted \in Heap
  /\ phase = "program" /\ wanted # None => wanted \in Heap \cup Listed(Program)

TakenIsUsed == \A f \in free_frames : f # 0 => \E p \in Page : pages[p].frame = f
MappedIsPresent == \A p \in Page : pages[p].frame # 0 => pages[p].present

TablesSetUp ==
  /\ phase = "tables" =>
       /\ \A p \in Page : IF p \in free_frames THEN pages[p] = Mapped(p) ELSE pages[p].frame = 0
       /\ \A t \in tables_allocated :
            physical_table_addresses[t] = TablePage(t) /\ t < Len(FirstTables)
  /\ phase # "tables" =>
       \A t \in tables_allocated : pages[TablePage(t)] = Mapped(physical_table_addresses[t])

\* The stop for want of a frame may come behind the mark of a table and before
\* its frame.
TablesHalfway ==
  phase # "tables" =>
    \A t \in tables_allocated :
      \/ pages[TablePage(t)] = Mapped(physical_table_addresses[t])
      \/ t = TableOf(wanted) /\ pages[TablePage(t)].frame = 0

LayoutInv ==
  /\ Ahead /\ Sources /\ TakenIsUsed /\ MappedIsPresent
  /\ IF trap = "0x18" THEN TablesHalfway ELSE TablesSetUp
  /\ trap # "0x14"

LEMMA HeadListed ==
  ASSUME NEW S, NEW s \in Seq(S), s # <<>>
  PROVE  Head(s) \in Listed(s) /\ Listed(Tail(s)) \subseteq Listed(s)
BY TailOfList DEF Listed

LEMMA TailOnce ==
  ASSUME NEW S, NEW s \in Seq(S), s # <<>>, \A i, j \in DOMAIN s : s[i] = s[j] => i = j
  PROVE  /\ \A i \in DOMAIN Tail(s) : Tail(s)[i] # Head(s)
         /\ \A i, j \in DOMAIN Tail(s) : Tail(s)[i] = Tail(s)[j] => i = j
<1>1. /\ Head(s) = s[1] /\ 1 \in DOMAIN s
      /\ \A i \in DOMAIN Tail(s) : i + 1 \in DOMAIN s /\ Tail(s)[i] = s[i + 1]
      /\ \A i \in DOMAIN Tail(s) : i \in Nat /\ i >= 1
  BY TailOfList
<1>2. \A i \in DOMAIN Tail(s) : i + 1 # 1
  BY <1>1
<1> QED BY <1>1, <1>2

\* One page gets one free frame, in the place of none.
LEMMA FrameGivenUsed ==
  ASSUME TypeOK, TakenIsUsed, MappedIsPresent,
         NEW f \in Frame, NEW p \in Page, pages[p].frame = 0,
         pages' = [pages EXCEPT ![p] = Mapped(f)], SetFrame(f)
  PROVE  TakenIsUsed' /\ MappedIsPresent'
<1>1. free_frames' = free_frames \cup {f}
  BY DEF SetFrame
<1>2. \A q \in Page : pages'[q] = IF q = p THEN Mapped(f) ELSE pages[q]
  BY DEF TypeOK
<1>3. Mapped(f).frame = f /\ Mapped(f).present
  BY DEF Mapped
<1>4. MappedIsPresent'
  BY <1>2, <1>3 DEF MappedIsPresent
<1>5. TakenIsUsed'
  <2> SUFFICES ASSUME NEW g \in free_frames', g # 0 PROVE \E q \in Page : pages'[q].frame = g
    BY DEF TakenIsUsed
  <2>1. CASE g = f
    BY <2>1, <1>2, <1>3
  <2>2. CASE g # f
    <3>1. PICK q \in Page : pages[q].frame = g
      BY <1>1, <2>2 DEF TakenIsUsed
    <3>2. q # p
      BY <3>1
    <3> QED BY <3>1, <3>2, <1>2
  <2> QED BY <2>1, <2>2
<1> QED BY <1>4, <1>5

\* A list stays untouched when page and frame are none of its own.
LEMMA StaysUntouched ==
  ASSUME TypeOK, NEW list \in Seq(Page), Untouched(list), NEW f \in Frame, NEW p \in Page,
         f \notin Listed(list), p \notin Listed(list),
         pages' = [pages EXCEPT ![p] = Mapped(f)], SetFrame(f)
  PROVE  \A i \in DOMAIN list : list[i] \notin free_frames' /\ pages'[list[i]].frame = 0
<1>1. free_frames' = free_frames \cup {f}
  BY DEF SetFrame
<1>2. \A i \in DOMAIN list : list[i] \in Page /\ list[i] # p /\ list[i] # f
  BY DEF Listed
<1>3. \A q \in Page : q # p => pages'[q] = pages[q]
  BY DEF TypeOK
<1> QED BY <1>1, <1>2, <1>3 DEF Untouched

LEMMA ListsOfPages ==
  /\ Boot \in Seq(Page) /\ Framebuffer \in Seq(Page) /\ Program \in Seq(Page)
  /\ FirstTables \in Seq(Table) /\ Heap \subseteq Page
  /\ \A t \in Table : /\ TablePage(t) \notin Listed(Boot) /\ TablePage(t) \notin Listed(Framebuffer)
                      /\ TablePage(t) \notin Listed(Program) /\ TablePage(t) \notin Heap
  /\ \A p \in Listed(Framebuffer) : p >= Total /\ p \notin Listed(Boot) /\ p \notin Heap
<1>1. \A p \in Listed(Framebuffer) : p >= Total
  BY FramebufferAssumption DEF Listed
<1> QED BY <1>1, LayoutAssumption, ApartAssumption

LEMMA LayoutInit == Init => LayoutInv
<1> SUFFICES ASSUME Init PROVE LayoutInv
  OBVIOUS
<1>1. \A p \in Page : pages[p] = Unmapped /\ pages[p].frame = 0
  BY DEF Init, Unmapped
<1>2. Untouched(Boot) /\ Untouched(Framebuffer)
  BY <1>1, ListsOfPages DEF Init, Untouched
<1>3. Ahead /\ Sources /\ TakenIsUsed /\ MappedIsPresent
  BY <1>1, <1>2 DEF Init, Ahead, Sources, TakenIsUsed, MappedIsPresent
<1> QED BY <1>1, <1>3 DEF Init, LayoutInv, TablesSetUp

LEMMA SetUpTableLayout ==
  ASSUME FrameInv, LayoutInv, SetUpTable
  PROVE  LayoutInv'
<1> DEFINE n == Len(FirstTables) - Len(todo)
           p == TablePage(n)
           t == Head(todo)
<1>1. /\ TypeOK /\ TablesLoop /\ MappedIsTaken /\ FramesExclusive
      /\ phase = "tables" /\ todo # <<>> /\ wanted = None
      /\ Ahead /\ Sources /\ TakenIsUsed /\ MappedIsPresent /\ TablesSetUp /\ trap = "none"
  BY DEF FrameInv, LayoutInv, Running, SetUpTable, TablesLoop
<1>2. /\ SetFrame(p) /\ pages' = [pages EXCEPT ![p] = Mapped(p)]
      /\ tables_allocated' = tables_allocated \cup {t}
      /\ physical_table_addresses' = [physical_table_addresses EXCEPT ![t] = TablePage(t)]
      /\ todo' = Tail(todo) /\ UNCHANGED <<phase, wanted, trap>>
  BY DEF SetUpTable
<1>3. /\ Len(todo) \in Nat /\ Len(todo) >= 1 /\ Len(Tail(todo)) = Len(todo) - 1
      /\ Head(todo) = todo[1] /\ 1 \in DOMAIN todo
  BY <1>1, TailOfList DEF TypeOK
<1>4. /\ Len(FirstTables) \in Nat /\ Len(todo) <= Len(FirstTables) /\ Len(FirstTables) <= PerTable
  BY <1>1, ListsOfPages, LayoutAssumption DEF TablesLoop
<1>5. n \in Table /\ n \in Nat /\ \A u \in 0 .. n - 1 : u \in Table /\ u # n
  BY <1>3, <1>4, SizeAssumption DEF Table
<1>6. p \in Page /\ p \in Frame
  BY <1>5, TablePageIsPage DEF Frame
<1>7. t \in Table
  BY <1>1, <1>3 DEF TablesLoop
<1>8. t < Len(FirstTables)
  <2>1. t \in Listed(FirstTables)
    BY <1>1, HeadListed DEF Sources, TypeOK
  <2> QED BY <2>1, OrderAssumption DEF Listed
<1>9. p \notin free_frames
  <2>1. free_frames = {TablePage(u) : u \in 0 .. n - 1}
    BY <1>1 DEF TablesLoop
  <2>2. \A u \in 0 .. n - 1 : TablePage(u) # p
    BY <1>5, TablePageInjective
  <2> QED BY <2>1, <2>2
<1>10. p \notin Listed(Boot) /\ p \notin Listed(Framebuffer)
  BY <1>5, ListsOfPages
<1>11. Listed(Tail(todo)) \subseteq Listed(todo)
  BY <1>1, HeadListed DEF TypeOK
<1> HIDE DEF n, p, t
<1>12. pages[p].frame = 0
  BY <1>1, <1>6, <1>9 DEF TablesSetUp
<1>13. TakenIsUsed' /\ MappedIsPresent'
  BY <1>1, <1>2, <1>6, <1>12, FrameGivenUsed
<1>14. Ahead'
  <2>1. Untouched(Boot) /\ Untouched(Framebuffer)
    BY <1>1 DEF Ahead
  <2>2. Untouched(Boot)' /\ Untouched(Framebuffer)'
    BY <1>1, <1>2, <1>6, <1>10, <2>1, ListsOfPages, StaysUntouched DEF Untouched
  <2> QED BY <1>1, <1>2, <2>2 DEF Ahead
<1>15. Sources'
  BY <1>1, <1>2, <1>11 DEF Sources
<1>16. TablesSetUp'
  <2>1. \A q \in Page : pages'[q] = IF q = p THEN Mapped(p) ELSE pages[q]
    BY <1>1, <1>2 DEF TypeOK
  <2>2. free_frames' = free_frames \cup {p}
    BY <1>2 DEF SetFrame
  <2>3. \A q \in Page : IF q \in free_frames' THEN pages'[q] = Mapped(q) ELSE pages'[q].frame = 0
    BY <1>1, <2>1, <2>2 DEF TablesSetUp
  <2>4. \A u \in tables_allocated' :
          physical_table_addresses'[u] = TablePage(u) /\ u < Len(FirstTables)
    BY <1>1, <1>2, <1>7, <1>8 DEF TablesSetUp, TypeOK
  <2> QED BY <1>1, <1>2, <2>3, <2>4 DEF TablesSetUp
<1> QED BY <1>1, <1>2, <1>13, <1>14, <1>15, <1>16 DEF LayoutInv

LEMMA NextPhaseLayout ==
  ASSUME FrameInv, LayoutInv, NextPhase
  PROVE  LayoutInv'
<1>1. /\ TypeOK /\ TablesLoop /\ todo = <<>> /\ wanted = None
      /\ Ahead /\ Sources /\ TakenIsUsed /\ MappedIsPresent /\ TablesSetUp /\ trap = "none"
      /\ UNCHANGED <<free_frames, allocated_frames, pages, tables_allocated,
                     physical_table_addresses, wanted, trap>>
  BY DEF FrameInv, LayoutInv, Running, NextPhase, frames, tables
<1>2. \/ phase = "tables" /\ phase' = "boot" /\ todo' = Boot
      \/ phase = "boot" /\ phase' = "heap" /\ todo' = todo
      \/ phase = "heap" /\ phase' = "framebuffer" /\ todo' = Framebuffer
      \/ phase = "framebuffer" /\ phase' = "program" /\ todo' = Program
      \/ phase = "program" /\ phase' = "user" /\ todo' = todo
      \/ phase = "user" /\ phase' = "free" /\ todo' = Program
  BY DEF NextPhase
<1>3. Ahead'
  BY <1>1, <1>2, OnceAssumption DEF Ahead, Untouched
<1>4. Sources'
  BY <1>1, <1>2 DEF Sources, Listed
<1>5. TablesSetUp'
  <2>1. ASSUME phase = "tables", NEW t \in tables_allocated
        PROVE  pages[TablePage(t)] = Mapped(physical_table_addresses[t])
    <3>1. physical_table_addresses[t] = TablePage(t) /\ t < Len(FirstTables) /\ t \in Table
      BY <1>1, <2>1 DEF TablesSetUp, TypeOK
    <3>2. t \in 0 .. Len(FirstTables) - Len(todo) - 1
      BY <1>1, <3>1, ListsOfPages DEF Table
    <3>3. TablePage(t) \in free_frames
      BY <1>1, <2>1, <3>2 DEF TablesLoop
    <3> QED BY <1>1, <2>1, <3>1, <3>3, TablePageIsPage DEF TablesSetUp
  <2>2. phase' # "tables"
    BY <1>2
  <2>3. \A t \in tables_allocated : pages[TablePage(t)] = Mapped(physical_table_addresses[t])
    BY <1>1, <2>1 DEF TablesSetUp
  <2> QED BY <1>1, <2>2, <2>3 DEF TablesSetUp
<1>6. TakenIsUsed' /\ MappedIsPresent'
  BY <1>1 DEF TakenIsUsed, MappedIsPresent
<1> QED BY <1>1, <1>3, <1>4, <1>5, <1>6 DEF LayoutInv

LEMMA CheckFrameLayout ==
  ASSUME FrameInv, LayoutInv, CheckFrame
  PROVE  LayoutInv'
<1>1. /\ TypeOK /\ phase \in {"boot", "framebuffer"} /\ todo # <<>>
      /\ Ahead /\ Sources /\ TakenIsUsed /\ MappedIsPresent /\ TablesSetUp /\ trap = "none"
      /\ UNCHANGED <<free_frames, allocated_frames, pages, tables_allocated,
                     physical_table_addresses, phase, todo>>
  BY DEF FrameInv, LayoutInv, Running, CheckFrame, frames, tables
<1>2. Head(todo) \notin free_frames
  BY <1>1, TailOfList DEF TypeOK, Ahead, Untouched
<1>3. trap' = "none"
  BY <1>1, <1>2 DEF CheckFrame
<1>4. Ahead' /\ TakenIsUsed' /\ MappedIsPresent' /\ TablesSetUp'
  BY <1>1 DEF Ahead, Untouched, TakenIsUsed, MappedIsPresent, TablesSetUp
<1>5. Sources'
  BY <1>1 DEF Sources
<1> QED BY <1>3, <1>4, <1>5 DEF LayoutInv

LEMMA AllocateTableLayout ==
  ASSUME FrameInv, LayoutInv, AllocateTable
  PROVE  LayoutInv'
<1> DEFINE t == TableOf(wanted)
           p == TablePage(t)
<1>1. /\ TypeOK /\ Checked /\ IdentityLoops /\ wanted # None /\ wanted \in Page
      /\ Ahead /\ Sources /\ TakenIsUsed /\ MappedIsPresent /\ TablesSetUp /\ trap = "none"
      /\ t \notin tables_allocated /\ tables_allocated' = tables_allocated \cup {t}
      /\ physical_table_addresses' = [physical_table_addresses EXCEPT ![t] = pages'[p].frame]
      /\ UNCHANGED <<phase, todo, wanted, trap>>
  BY DEF FrameInv, LayoutInv, Running, AllocateTable, TypeOK
<1>2. t \in Table /\ p \in Page
  BY <1>1, TableOfIsTable, TablePageIsPage
<1>3. phase \notin {"tables", "boot"}
  <2>1. phase # "tables"
    BY <1>1 DEF FrameInv, TablesLoop
  <2>2. ASSUME phase = "boot" PROVE FALSE
    <3>1. todo # <<>> /\ wanted = Head(todo)
      BY <1>1, <2>2 DEF Checked
    <3>2. 1 \in DOMAIN todo /\ Head(todo) = todo[1]
      BY <1>1, <3>1, TailOfList DEF TypeOK
    <3> QED BY <1>1, <2>2, <3>1, <3>2 DEF IdentityLoops
  <2> QED BY <2>1, <2>2
<1>4. p \notin Listed(Framebuffer)
  BY <1>2, ListsOfPages
<1>5. \A u \in Table : u # t => TablePage(u) # p
  BY <1>2, TablePageInjective
<1>6. Sources'
  BY <1>1, <1>3 DEF Sources
<1>7. CASE pages[p].frame = 0
  <2>1. PICK f \in Frame : FirstFree(f) /\ SetFrame(f) /\ pages' = [pages EXCEPT ![p] = Mapped(f)]
    BY <1>7 DEF AllocateTable
  <2> HIDE DEF t, p
  <2>2. f < Total /\ f \in Nat
    BY <2>1, FirstFreeIsFree DEF Frame, Page
  <2>3. f \notin Listed(Framebuffer)
    <3>1. \A q \in Listed(Framebuffer) : q >= Total
      BY ListsOfPages
    <3> QED BY <2>2, <3>1, SizeAssumption DEF Page
  <2>4. TakenIsUsed' /\ MappedIsPresent'
    BY <1>1, <1>2, <1>7, <2>1, FrameGivenUsed
  <2>5. Ahead'
    <3>1. CASE phase = "heap"
      <4>1. Untouched(Framebuffer)
        BY <1>1, <3>1 DEF Ahead
      <4>2. Untouched(Framebuffer)'
        BY <1>1, <1>2, <1>4, <2>1, <2>3, <4>1, ListsOfPages, StaysUntouched DEF Untouched
      <4> QED BY <1>1, <3>1, <4>2 DEF Ahead
    <3>2. CASE phase = "framebuffer"
      <4>1. Untouched(todo) /\ \A i, j \in DOMAIN todo : todo[i] = todo[j] => i = j
        BY <1>1, <3>2 DEF Ahead
      <4>2. Listed(todo) \subseteq Listed(Framebuffer)
        BY <1>1, <3>2 DEF Sources
      <4>3. \A i \in DOMAIN todo : todo[i] \notin free_frames' /\ pages'[todo[i]].frame = 0
        BY <1>1, <1>2, <1>4, <2>1, <2>3, <4>1, <4>2, StaysUntouched DEF TypeOK
      <4> QED BY <1>1, <3>2, <4>1, <4>3 DEF Ahead, Untouched
    <3> QED BY <1>1, <1>3, <3>1, <3>2 DEF Ahead
  <2>6. TablesSetUp'
    <3>1. \A q \in Page : pages'[q] = IF q = p THEN Mapped(f) ELSE pages[q]
      BY <1>1, <2>1 DEF TypeOK
    <3>2. pages'[p] = Mapped(f) /\ Mapped(f).frame = f
      BY <1>2, <3>1 DEF Mapped
    <3>3. physical_table_addresses'[t] = f
      BY <1>1, <1>2, <3>2 DEF TypeOK
    <3>4. \A u \in tables_allocated :
            /\ u \in Table /\ u # t /\ TablePage(u) \in Page /\ TablePage(u) # p
            /\ physical_table_addresses'[u] = physical_table_addresses[u]
            /\ pages[TablePage(u)] = Mapped(physical_table_addresses[u])
      BY <1>1, <1>2, <1>3, <1>5, TablePageIsPage DEF TypeOK, TablesSetUp
    <3>5. \A u \in tables_allocated' : pages'[TablePage(u)] = Mapped(physical_table_addresses'[u])
      BY <1>1, <3>1, <3>2, <3>3, <3>4 DEF p
    <3> QED BY <1>1, <1>3, <3>5 DEF TablesSetUp
  <2> QED BY <1>1, <1>6, <2>4, <2>5, <2>6 DEF LayoutInv
<1>8. CASE pages[p].frame # 0
  <2>1. UNCHANGED <<free_frames, allocated_frames, pages>>
    BY <1>8 DEF AllocateTable, frames
  <2>2. pages[p] = Mapped(pages[p].frame)
    <3>1. pages[p].present /\ pages[p] \in Entry
      BY <1>1, <1>2, <1>8, EntryFrame DEF MappedIsPresent
    <3>2. pages[p].present = TRUE
      BY <3>1 DEF Entry
    <3> QED BY <3>1, <3>2 DEF Entry, Mapped
  <2> HIDE DEF t, p
  <2>3. Ahead' /\ TakenIsUsed' /\ MappedIsPresent'
    BY <1>1, <2>1 DEF Ahead, Untouched, TakenIsUsed, MappedIsPresent
  <2>4. \A u \in tables_allocated :
          /\ u # t /\ physical_table_addresses'[u] = physical_table_addresses[u]
          /\ pages[TablePage(u)] = Mapped(physical_table_addresses[u])
    BY <1>1, <1>2, <1>3 DEF TypeOK, TablesSetUp
  <2>5. physical_table_addresses'[t] = pages[p].frame
    BY <1>1, <1>2, <2>1 DEF TypeOK
  <2>6. \A u \in tables_allocated' : pages'[TablePage(u)] = Mapped(physical_table_addresses'[u])
    BY <1>1, <2>1, <2>2, <2>4, <2>5 DEF p
  <2>7. TablesSetUp'
    BY <1>1, <1>3, <2>6 DEF TablesSetUp
  <2> QED BY <1>1, <1>6, <2>3, <2>7 DEF LayoutInv
<1> QED BY <1>7, <1>8

LEMMA IdentityMapLayout ==
  ASSUME FrameInv, LayoutInv, IdentityMap
  PROVE  LayoutInv' /\ pages[wanted].frame = 0
<1>1. /\ TypeOK /\ Checked /\ wanted \in Page /\ wanted # None
      /\ phase \in {"boot", "framebuffer"}
      /\ Ahead /\ Sources /\ TakenIsUsed /\ MappedIsPresent /\ TablesSetUp /\ trap = "none"
      /\ SetFrame(wanted) /\ pages' = [pages EXCEPT ![wanted] = Mapped(wanted)]
      /\ wanted' = None /\ todo' = Tail(todo)
      /\ UNCHANGED <<tables_allocated, physical_table_addresses, phase, trap>>
  BY DEF FrameInv, LayoutInv, Running, IdentityMap, TypeOK, tables
<1>2. todo # <<>> /\ wanted = Head(todo) /\ todo \in Seq(Page)
  BY <1>1 DEF Checked, TypeOK
<1>3. /\ wanted \in Listed(todo) /\ Listed(Tail(todo)) \subseteq Listed(todo)
      /\ Tail(todo) \in Seq(Page) /\ wanted \in Frame
  BY <1>1, <1>2, HeadListed, TailOfList DEF Frame
<1>4. Untouched(todo) /\ \A i, j \in DOMAIN todo : todo[i] = todo[j] => i = j
  BY <1>1 DEF Ahead
<1>5. pages[wanted].frame = 0
  BY <1>3, <1>4 DEF Untouched, Listed
<1>6. TakenIsUsed' /\ MappedIsPresent'
  BY <1>1, <1>3, <1>5, FrameGivenUsed
<1>7. /\ wanted \notin Listed(Tail(todo)) /\ Untouched(Tail(todo))
      /\ \A i, j \in DOMAIN Tail(todo) : Tail(todo)[i] = Tail(todo)[j] => i = j
  <2>1. /\ \A i \in DOMAIN Tail(todo) : Tail(todo)[i] # Head(todo)
        /\ \A i, j \in DOMAIN Tail(todo) : Tail(todo)[i] = Tail(todo)[j] => i = j
    BY <1>2, <1>4, TailOnce
  <2>2. Untouched(Tail(todo))
    BY <1>2, <1>4, TailOfList DEF Untouched
  <2> QED BY <1>2, <2>1, <2>2 DEF Listed
<1>8. Untouched(todo)'
  BY <1>1, <1>3, <1>7, StaysUntouched DEF Untouched
<1>9. ASSUME phase = "boot" PROVE Untouched(Framebuffer)'
  <2>1. wanted \in Listed(Boot)
    BY <1>1, <1>3, <1>9 DEF Sources
  <2>2. wanted \notin Listed(Framebuffer)
    BY <2>1, ListsOfPages
  <2>3. Untouched(Framebuffer)
    BY <1>1, <1>9 DEF Ahead
  <2> QED BY <1>1, <1>3, <2>2, <2>3, ListsOfPages, StaysUntouched DEF Untouched
<1>10. Ahead'
  BY <1>1, <1>7, <1>8, <1>9 DEF Ahead
<1>11. Sources'
  BY <1>1, <1>3 DEF Sources
<1>12. TablesSetUp'
  <2>1. \A t \in Table : TablePage(t) # wanted
    BY <1>1, <1>3, ListsOfPages DEF Sources
  <2>2. \A t \in tables_allocated : t \in Table /\ pages'[TablePage(t)] = pages[TablePage(t)]
    BY <1>1, <2>1, TablePageIsPage DEF TypeOK
  <2> QED BY <1>1, <2>2 DEF TablesSetUp
<1> QED BY <1>1, <1>5, <1>6, <1>10, <1>11, <1>12 DEF LayoutInv

LEMMA WantFrameLayout ==
  ASSUME FrameInv, LayoutInv, WantFrame
  PROVE  LayoutInv'
<1>1. /\ TypeOK /\ phase \in {"heap", "program", "user"} /\ wanted = None
      /\ Ahead /\ Sources /\ TakenIsUsed /\ MappedIsPresent /\ TablesSetUp /\ trap = "none"
      /\ UNCHANGED <<free_frames, allocated_frames, pages, tables_allocated,
                     physical_table_addresses, phase, trap>>
  BY DEF FrameInv, LayoutInv, Running, WantFrame, frames, tables
<1>2. Ahead' /\ TakenIsUsed' /\ MappedIsPresent' /\ TablesSetUp'
  BY <1>1 DEF Ahead, Untouched, TakenIsUsed, MappedIsPresent, TablesSetUp
<1>3. Sources'
  <2>1. CASE wanted' \in Heap /\ UNCHANGED todo
    BY <1>1, <2>1 DEF Sources
  <2>2. CASE phase = "program" /\ todo # <<>> /\ wanted' = Head(todo) /\ todo' = Tail(todo)
    <3>1. Head(todo) \in Listed(todo) /\ Listed(Tail(todo)) \subseteq Listed(todo)
      BY <1>1, <2>2, HeadListed DEF TypeOK
    <3> QED BY <1>1, <2>2, <3>1 DEF Sources
  <2> QED BY <2>1, <2>2 DEF WantFrame
<1> QED BY <1>1, <1>2, <1>3 DEF LayoutInv

LEMMA AllocateFrameLayout ==
  ASSUME FrameInv, LayoutInv, AllocateFrame
  PROVE  LayoutInv'
<1>1. /\ TypeOK /\ phase \in {"heap", "program", "user"} /\ wanted # None /\ wanted \in Page
      /\ Ahead /\ Sources /\ TakenIsUsed /\ MappedIsPresent /\ TablesSetUp /\ trap = "none"
      /\ wanted' = None
      /\ UNCHANGED <<tables_allocated, physical_table_addresses, phase, todo, trap>>
  BY DEF FrameInv, LayoutInv, Running, AllocateFrame, TypeOK, tables
<1>2. Sources'
  BY <1>1 DEF Sources
<1>3. CASE pages[wanted].frame = 0
  <2>1. PICK f \in Frame :
          FirstFree(f) /\ SetFrame(f) /\ pages' = [pages EXCEPT ![wanted] = Mapped(f)]
    BY <1>3 DEF AllocateFrame
  <2>2. TakenIsUsed' /\ MappedIsPresent'
    BY <1>1, <1>3, <2>1, FrameGivenUsed
  <2>3. Ahead'
    <3>1. ASSUME phase = "heap" PROVE Untouched(Framebuffer)'
      <4>1. f < Total /\ f \in Nat
        BY <2>1, FirstFreeIsFree DEF Frame, Page
      <4>2. \A q \in Listed(Framebuffer) : q >= Total /\ q \notin Heap
        BY ListsOfPages
      <4>3. f \notin Listed(Framebuffer)
        BY <4>1, <4>2, SizeAssumption DEF Page
      <4>4. wanted \notin Listed(Framebuffer)
        BY <1>1, <3>1, <4>2 DEF Sources
      <4>5. Untouched(Framebuffer)
        BY <1>1, <3>1 DEF Ahead
      <4> QED BY <1>1, <2>1, <4>3, <4>4, <4>5, ListsOfPages, StaysUntouched DEF Untouched
    <3> QED BY <1>1, <3>1 DEF Ahead
  <2>4. \A t \in Table : TablePage(t) # wanted
    BY <1>1, ListsOfPages DEF Sources
  <2>5. \A t \in tables_allocated : pages'[TablePage(t)] = pages[TablePage(t)]
    BY <1>1, <2>1, <2>4, TablePageIsPage DEF TypeOK
  <2>6. TablesSetUp'
    BY <1>1, <2>5 DEF TablesSetUp
  <2> QED BY <1>1, <1>2, <2>2, <2>3, <2>6 DEF LayoutInv
<1>4. CASE pages[wanted].frame # 0
  <2>1. UNCHANGED <<free_frames, pages>>
    BY <1>4 DEF AllocateFrame, frames
  <2>2. Ahead' /\ TakenIsUsed' /\ MappedIsPresent' /\ TablesSetUp'
    BY <1>1, <2>1 DEF Ahead, Untouched, TakenIsUsed, MappedIsPresent, TablesSetUp
  <2> QED BY <1>1, <1>2, <2>2 DEF LayoutInv
<1> QED BY <1>3, <1>4

LEMMA OutOfFramesLayout ==
  ASSUME FrameInv, LayoutInv, OutOfFrames
  PROVE  LayoutInv'
<1>1. /\ trap = "none" /\ trap' = "0x18" /\ tables_allocated' \subseteq tables_allocated \cup {TableOf(wanted)}
      /\ TableOf(wanted) \in tables_allocated' \ tables_allocated =>
           pages[TablePage(TableOf(wanted))].frame = 0
      /\ Ahead /\ Sources /\ TakenIsUsed /\ MappedIsPresent /\ TablesSetUp
      /\ UNCHANGED <<free_frames, pages, physical_table_addresses, phase, todo, wanted>>
  BY DEF LayoutInv, OutOfFrames, Running, frames
<1>2. Ahead' /\ Sources' /\ TakenIsUsed' /\ MappedIsPresent'
  BY <1>1 DEF Ahead, Untouched, Sources, TakenIsUsed, MappedIsPresent
<1>3. TablesHalfway'
  BY <1>1 DEF TablesSetUp, TablesHalfway
<1> QED BY <1>1, <1>2, <1>3 DEF LayoutInv

LEMMA FreeFrameLayout ==
  ASSUME FrameInv, LayoutInv, FreeFrame
  PROVE  LayoutInv'
<1> DEFINE p == Head(todo)
<1>1. /\ TypeOK /\ FramesExclusive /\ phase = "free" /\ todo # <<>> /\ todo' = Tail(todo)
      /\ Ahead /\ Sources /\ TakenIsUsed /\ MappedIsPresent /\ TablesSetUp /\ trap = "none"
      /\ UNCHANGED <<tables_allocated, physical_table_addresses, phase, wanted, trap>>
  BY DEF FrameInv, LayoutInv, Running, FreeFrame, tables
<1>2. p \in Page /\ p \in Listed(Program) /\ Listed(Tail(todo)) \subseteq Listed(Program)
  BY <1>1, TailOfList, HeadListed DEF TypeOK, Sources
<1>3. Ahead' /\ Sources'
  BY <1>1, <1>2 DEF Ahead, Sources
<1>4. CASE pages[p].frame # 0
  <2>1. ClearFrame(pages[p].frame) /\ pages' = [pages EXCEPT ![p] = [pages[p] EXCEPT !.frame = 0]]
    BY <1>4 DEF FreeFrame
  <2> HIDE DEF p
  <2>2. \A q \in Page : q # p => pages'[q] = pages[q]
    BY <1>1, <2>1 DEF TypeOK
  <2>3. pages'[p].frame = 0
    <3>1. pages[p] \in Entry
      BY <1>1, <1>2, EntryFrame
    <3>2. pages'[p] = [pages[p] EXCEPT !.frame = 0]
      BY <1>1, <1>2, <2>1 DEF TypeOK
    <3> QED BY <3>1, <3>2 DEF Entry
  <2>4. free_frames' = free_frames \ {pages[p].frame}
    BY <2>1 DEF ClearFrame
  <2>5. TakenIsUsed'
    <3> SUFFICES ASSUME NEW g \in free_frames', g # 0 PROVE \E q \in Page : pages'[q].frame = g
      BY DEF TakenIsUsed
    <3>1. PICK q \in Page : pages[q].frame = g
      BY <1>1, <2>4 DEF TakenIsUsed
    <3>2. q # p
      BY <2>4, <3>1
    <3> QED BY <2>2, <3>1, <3>2
  <2>6. MappedIsPresent'
    BY <1>1, <2>2, <2>3 DEF MappedIsPresent
  <2>7. \A t \in tables_allocated : TablePage(t) \in Page /\ TablePage(t) # p
    BY <1>1, <1>2, ListsOfPages, TablePageIsPage DEF TypeOK
  <2>8. TablesSetUp'
    BY <1>1, <2>2, <2>7 DEF TablesSetUp
  <2> QED BY <1>1, <1>3, <2>5, <2>6, <2>8 DEF LayoutInv
<1>5. CASE pages[p].frame = 0
  <2>1. UNCHANGED <<free_frames, pages>>
    BY <1>5 DEF FreeFrame, frames
  <2>2. TakenIsUsed' /\ MappedIsPresent' /\ TablesSetUp'
    BY <1>1, <2>1 DEF TakenIsUsed, MappedIsPresent, TablesSetUp
  <2> QED BY <1>1, <1>3, <2>2 DEF LayoutInv
<1> QED BY <1>4, <1>5

LEMMA LayoutStep ==
  ASSUME FrameInv, LayoutInv, [Next]_vars
  PROVE  LayoutInv'
<1>1. CASE SetUpTable
  BY <1>1, SetUpTableLayout
<1>2. CASE NextPhase
  BY <1>2, NextPhaseLayout
<1>3. CASE CheckFrame
  BY <1>3, CheckFrameLayout
<1>4. CASE AllocateTable
  BY <1>4, AllocateTableLayout
<1>5. CASE IdentityMap
  BY <1>5, IdentityMapLayout
<1>6. CASE WantFrame
  BY <1>6, WantFrameLayout
<1>7. CASE AllocateFrame
  BY <1>7, AllocateFrameLayout
<1>8. CASE OutOfFrames
  BY <1>8, OutOfFramesLayout
<1>9. CASE FreeFrame
  BY <1>9, FreeFrameLayout
<1>10. CASE UNCHANGED vars
  BY <1>10 DEF vars, frames, tables, LayoutInv, Ahead, Untouched, Sources, TakenIsUsed,
               MappedIsPresent, TablesSetUp, TablesHalfway
<1> QED BY <1>1, <1>2, <1>3, <1>4, <1>5, <1>6, <1>7, <1>8, <1>9, <1>10 DEF Next

LEMMA AlwaysLayoutInv == Spec => []LayoutInv
BY LayoutInit, LayoutStep, AlwaysFrameInv, PTL DEF Spec

\* No frame leaks: whatever the identity maps, the heaps, the program and its
\* end do, the frames that are taken are those that some page maps.
THEOREM NoFrameLeaks == Spec => []TakenIsMapped
<1>1. FrameInv /\ LayoutInv => TakenIsMapped
  <2> SUFFICES ASSUME FrameInv, LayoutInv PROVE TakenIsMapped
    OBVIOUS
  <2>1. \A p \in Page : pages[p].frame # 0 => pages[p].frame \in free_frames
    BY DEF FrameInv, MappedIsTaken
  <2>2. \A f \in free_frames : f # 0 => \E p \in Page : pages[p].frame = f
    BY DEF LayoutInv, TakenIsUsed
  <2> QED BY <2>1, <2>2 DEF TakenIsMapped
<1> QED BY <1>1, AlwaysFrameInv, AlwaysLayoutInv, PTL

\* The table that the kernel writes is the one the processor walks, for every
\* table however late it comes, but for the one that stopped the machine
\* between its mark and its frame; and no identity map stops the machine.
THEOREM TablesAlwaysAgree == Spec => []TablesAgree
<1>1. LayoutInv => TablesAgree
  BY DEF LayoutInv, TablesSetUp, TablesHalfway, TablesAgree
<1> QED BY <1>1, AlwaysLayoutInv, PTL

\* No step changes the frame of a page that has one, until frames are freed.
THEOREM PagesKeepFrames == Spec => FramesKept
<1> DEFINE Kept == \A p \in Page : pages[p].frame # 0 /\ phase # "free"
                                     => pages'[p].frame = pages[p].frame
<1>1. ASSUME FrameInv, LayoutInv, [Next]_vars PROVE Kept
  <2>1. TypeOK
    BY <1>1 DEF FrameInv
  <2>2. ASSUME NEW q \in Page, NEW f, pages[q].frame = 0, pages' = [pages EXCEPT ![q] = Mapped(f)]
        PROVE  Kept
    BY <2>1, <2>2 DEF TypeOK
  <2>3. CASE SetUpTable
    <3> DEFINE n == Len(FirstTables) - Len(todo)
    <3>1. /\ phase = "tables" /\ todo # <<>> /\ TablesLoop /\ TablesSetUp
          /\ pages' = [pages EXCEPT ![TablePage(n)] = Mapped(TablePage(n))]
      BY <1>1, <2>3 DEF SetUpTable, Running, FrameInv, LayoutInv
    <3>2. n \in Table
      <4>1. /\ Len(todo) \in Nat /\ Len(todo) >= 1 /\ Len(FirstTables) \in Nat
            /\ Len(todo) <= Len(FirstTables) /\ Len(FirstTables) <= PerTable
        BY <2>1, <3>1, TailOfList, LayoutAssumption DEF TablesLoop, TypeOK
      <4> QED BY <4>1, SizeAssumption DEF Table
    <3> HIDE DEF n
    <3>3. TablePage(n) \in Page
      BY <3>2, TablePageIsPage
    <3>4. \A p \in Page : pages'[p] = IF p = TablePage(n) THEN Mapped(p) ELSE pages[p]
      BY <2>1, <3>1 DEF TypeOK
    <3>5. \A p \in Page : pages[p] = Mapped(p) \/ pages[p].frame = 0
      BY <3>1 DEF TablesSetUp
    <3> QED BY <3>4, <3>5
  <2>4. CASE AllocateTable
    <3> DEFINE t == TablePage(TableOf(wanted))
    <3>1. wanted \in Page
      BY <2>1, <2>4 DEF AllocateTable, TypeOK
    <3>2. t \in Page
      BY <3>1, TableOfIsTable, TablePageIsPage
    <3>3. \/ UNCHANGED pages
          \/ pages[t].frame = 0 /\ \E f \in Frame : pages' = [pages EXCEPT ![t] = Mapped(f)]
      BY <2>4 DEF AllocateTable
    <3> HIDE DEF t
    <3> QED BY <2>2, <3>2, <3>3
  <2>5. CASE IdentityMap
    <3>1. wanted \in Page /\ pages' = [pages EXCEPT ![wanted] = Mapped(wanted)]
      BY <2>1, <2>5 DEF IdentityMap, TypeOK
    <3>2. pages[wanted].frame = 0
      BY <1>1, <2>5, IdentityMapLayout
    <3> QED BY <2>2, <3>1, <3>2
  <2>6. CASE AllocateFrame
    <3>1. wanted \in Page
      BY <2>1, <2>6 DEF AllocateFrame, TypeOK
    <3>2. \/ UNCHANGED pages
          \/ pages[wanted].frame = 0
             /\ \E f \in Frame : pages' = [pages EXCEPT ![wanted] = Mapped(f)]
      BY <2>6 DEF AllocateFrame
    <3> QED BY <2>2, <3>1, <3>2
  <2>7. CASE FreeFrame
    BY <2>7 DEF FreeFrame
  <2>8. CASE NextPhase \/ CheckFrame \/ WantFrame \/ OutOfFrames \/ UNCHANGED vars
    BY <2>8 DEF NextPhase, CheckFrame, WantFrame, OutOfFrames, vars
  <2> QED BY <1>1, <2>3, <2>4, <2>5, <2>6, <2>7, <2>8 DEF Next
<1>2. FrameInv /\ LayoutInv /\ [Next]_vars => [Kept]_vars
  BY <1>1
<1> QED BY <1>2, AlwaysFrameInv, AlwaysLayoutInv, PTL DEF Spec, FramesKept
===============================================================================
