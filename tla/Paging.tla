-------------------------------- MODULE Paging --------------------------------
(***************************************************************************)
(* Physical frames and page tables of the kernel (kernel/memory) from      *)
(* mem::init on: the identity maps of the boot, the frame buffer that      *)
(* vesa::init maps, the frames that the heaps and the program get, and the *)
(* frames that kernelMain gives back behind switchToUserMode.  (As the     *)
(* program ends with a shutdown, that loop runs only if it comes back.)    *)
(*                                                                         *)
(* There is one page directory.  Its tables lie in the pages of one of     *)
(* their own, so that the kernel writes a table through the mapping that   *)
(* the table of tables holds, while the processor finds it by its physical *)
(* address.  Addresses are counted in pages, and the flags that only say   *)
(* who may write a page are left out.  The system call for a frame and the *)
(* calls inside the kernel run with no other code in between.              *)
(***************************************************************************)
EXTENDS Integers, FiniteSets, Sequences

CONSTANTS
  PerTable,      \* entries in a table, and tables in the directory (1024)
  Total,         \* total_memory, in frames
  TableOfTables, \* the table that maps the tables: 1, for they start at 4 MB
  FirstTables,   \* to_alloc: the tables set up before paging is on (1, 2, 0)
  Boot,          \* pages mem::init maps to themselves after those tables
  Framebuffer,   \* pages vesa::init maps to themselves
  Program,       \* pages kernelMain loads the program into
  Heap           \* pages the two heaps ask for, one after the other

None == -1

VARIABLES
  free_frames,               \* the frames whose bit is set: those taken
  allocated_frames,
  pages,                     \* the entries of all tables
  tables_allocated,
  physical_table_addresses,
  phase,                     \* how far the kernel has come
  todo,                      \* pages the loop of that phase has still to map
  wanted,                    \* page of the call in progress
  trap                       \* int 0x14 or 0x18, after which nothing runs

frames == <<free_frames, allocated_frames>>
tables == <<tables_allocated, physical_table_addresses>>
vars == <<frames, pages, tables, phase, todo, wanted, trap>>

-----------------------------------------------------------------------------
Page == 0 .. PerTable * PerTable - 1
Table == 0 .. PerTable - 1
Frame == Page              \* free_frames covers the whole address space
Entry == [present : BOOLEAN, frame : Frame]

Unmapped == [present |-> FALSE, frame |-> 0]
Mapped(f) == [present |-> TRUE, frame |-> f]

TableOf(p) == p \div PerTable
TablePage(t) == TableOfTables * PerTable + t
Listed(list) == {list[i] : i \in DOMAIN list}

ASSUME SizeAssumption ==
  /\ PerTable \in Nat \ {0} /\ Total \in Page
  /\ TableOfTables \in Table
ASSUME LayoutAssumption ==
  /\ FirstTables \in Seq(Table) /\ Len(FirstTables) <= PerTable
  /\ Boot \in Seq(Page) /\ Framebuffer \in Seq(Page) /\ Program \in Seq(Page)
  /\ Heap \subseteq Page
ASSUME BootAssumption ==            \* the boot maps no page of another table
  \A i \in DOMAIN Boot : \E k \in DOMAIN FirstTables : TableOf(Boot[i]) = FirstTables[k]
ASSUME FramebufferAssumption ==     \* the frame buffer is no part of the RAM
  \A i \in DOMAIN Framebuffer : Framebuffer[i] >= Total
ASSUME OrderAssumption ==           \* the tables set up first are in the first pages
  \A k \in DOMAIN FirstTables : FirstTables[k] < Len(FirstTables)
ASSUME ApartAssumption ==           \* tables and frame buffer have their pages for themselves
  /\ \A t \in Table : TablePage(t) \notin Listed(Boot) \cup Listed(Framebuffer) \cup Listed(Program) \cup Heap
  /\ Listed(Framebuffer) \cap (Listed(Boot) \cup Heap) = {}
ASSUME OnceAssumption ==            \* no page is mapped to itself twice
  /\ \A i, j \in DOMAIN Boot : Boot[i] = Boot[j] => i = j
  /\ \A i, j \in DOMAIN Framebuffer : Framebuffer[i] = Framebuffer[j] => i = j

Running == trap = "none"

\* setFrame: the count is of the frames of the RAM.
SetFrameUncounted(f) ==                       \* mutant: counts all frames
  /\ free_frames' = free_frames \cup {f}
  /\ allocated_frames' = allocated_frames + 1
SetFrame(f) ==
  /\ free_frames' = free_frames \cup {f}
  /\ allocated_frames' =
       allocated_frames + (IF f \notin free_frames /\ f < Total THEN 1 ELSE 0)

ClearFrame(f) ==
  /\ free_frames' = free_frames \ {f}
  /\ allocated_frames' =
       allocated_frames - (IF f \in free_frames /\ f < Total THEN 1 ELSE 0)

\* getFirstFreeFrame, when it has one.
FirstFree(f) ==
  /\ f \in Frame \ free_frames /\ f < Total
  /\ \A g \in Frame : g < f => g \in free_frames
NoneFree == \A f \in Frame : f < Total => f \in free_frames

-----------------------------------------------------------------------------
(* mem::init before paging: tables 1, 2 and 0, and the pages of the first  *)
(* three tables: pages of their own, which cannot be taken yet.            *)
SetUpTable ==
  /\ Running /\ phase = "tables" /\ todo # <<>>
  /\ LET t == Head(todo)
         p == TablePage(Len(FirstTables) - Len(todo))
     IN  /\ tables_allocated' = tables_allocated \cup {t}
         /\ physical_table_addresses' =
              [physical_table_addresses EXCEPT ![t] = TablePage(t)]
         /\ SetFrame(p)
         /\ pages' = [pages EXCEPT ![p] = Mapped(p)]
  /\ todo' = Tail(todo)
  /\ UNCHANGED <<phase, wanted, trap>>

\* The next loop: the first megabyte, the stack, the rest of the directory,
\* the frame bits; then paging is on and the kernel heap begins to allocate.
NextPhase ==
  /\ Running /\ todo = <<>> /\ wanted = None
  /\ \/ phase = "tables" /\ phase' = "boot" /\ todo' = Boot
     \/ phase = "boot" /\ phase' = "heap" /\ UNCHANGED todo
     \/ phase = "heap" /\ phase' = "framebuffer" /\ todo' = Framebuffer
     \/ phase = "framebuffer" /\ phase' = "program" /\ todo' = Program
     \/ phase = "program" /\ phase' = "user" /\ UNCHANGED todo
     \/ phase = "user" /\ phase' = "free" /\ todo' = Program
  /\ UNCHANGED <<frames, pages, tables, wanted, trap>>

\* identityMapPage looks at the frame first.
CheckFrame ==
  /\ Running /\ phase \in {"boot", "framebuffer"} /\ todo # <<>> /\ wanted = None
  /\ IF Head(todo) \in free_frames
       THEN trap' = "0x14" /\ UNCHANGED wanted
       ELSE wanted' = Head(todo) /\ UNCHANGED trap
  /\ UNCHANGED <<frames, pages, tables, phase, todo>>

\* getPage for a page whose table is missing: allocateFrame for the page of
\* the table, then its physical address.  Memory that nobody has written
\* holds zeros on the machine the Makefile runs, so the entries are unmapped.
AllocateTableStale ==         \* mutant: the address before the frame is there
  /\ Running /\ wanted # None
  /\ LET t == TableOf(wanted)
         p == TablePage(t)
     IN  /\ t \notin tables_allocated
         /\ tables_allocated' = tables_allocated \cup {t}
         /\ \E f \in Frame :
              /\ FirstFree(f)
              /\ SetFrame(f)
              /\ pages' = [pages EXCEPT ![p] = Mapped(f)]
         /\ physical_table_addresses' =
              [physical_table_addresses EXCEPT ![t] = pages[p].frame]
  /\ UNCHANGED <<phase, todo, wanted, trap>>
AllocateTable ==
  /\ Running /\ wanted # None
  /\ LET t == TableOf(wanted)
         p == TablePage(t)
     IN  /\ t \notin tables_allocated
         /\ tables_allocated' = tables_allocated \cup {t}
         /\ IF pages[p].frame = 0
              THEN \E f \in Frame :
                     /\ FirstFree(f)
                     /\ SetFrame(f)
                     /\ pages' = [pages EXCEPT ![p] = Mapped(f)]
              ELSE UNCHANGED <<frames, pages>>
         /\ physical_table_addresses' =
              [physical_table_addresses EXCEPT ![t] = pages'[p].frame]
  /\ UNCHANGED <<phase, todo, wanted, trap>>

\* The rest of identityMapPage, whatever happened since it looked.
IdentityMap ==
  /\ Running /\ phase \in {"boot", "framebuffer"} /\ wanted # None
  /\ TableOf(wanted) \in tables_allocated
  /\ SetFrame(wanted)
  /\ pages' = [pages EXCEPT ![wanted] = Mapped(wanted)]
  /\ wanted' = None
  /\ todo' = Tail(todo)
  /\ UNCHANGED <<tables, phase, trap>>

\* Calls of allocateFrame: by kernelMain for the pages of the program, by the
\* system call for any page of a heap.
WantFrame ==
  /\ Running /\ wanted = None
  /\ \/ /\ phase \in {"heap", "program", "user"}
        /\ wanted' \in Heap
        /\ UNCHANGED todo
     \/ /\ phase = "program" /\ todo # <<>>
        /\ wanted' = Head(todo)
        /\ todo' = Tail(todo)
  /\ UNCHANGED <<frames, pages, tables, phase, trap>>

AllocateFrameAlways ==                        \* mutant: maps a page again
  /\ Running /\ phase \in {"heap", "program", "user"} /\ wanted # None
  /\ TableOf(wanted) \in tables_allocated
  /\ \E f \in Frame :
       /\ FirstFree(f)
       /\ SetFrame(f)
       /\ pages' = [pages EXCEPT ![wanted] = Mapped(f)]
  /\ wanted' = None
  /\ UNCHANGED <<tables, phase, todo, trap>>
AllocateFrameUnmarked ==                      \* mutant: the bit is not set
  /\ Running /\ phase \in {"heap", "program", "user"} /\ wanted # None
  /\ TableOf(wanted) \in tables_allocated
  /\ IF pages[wanted].frame = 0
       THEN \E f \in Frame :
              /\ FirstFree(f)
              /\ pages' = [pages EXCEPT ![wanted] = Mapped(f)]
       ELSE UNCHANGED pages
  /\ wanted' = None
  /\ UNCHANGED <<frames, tables, phase, todo, trap>>
AllocateFrame ==
  /\ Running /\ phase \in {"heap", "program", "user"} /\ wanted # None
  /\ TableOf(wanted) \in tables_allocated
  /\ IF pages[wanted].frame = 0
       THEN \E f \in Frame :
              /\ FirstFree(f)
              /\ SetFrame(f)
              /\ pages' = [pages EXCEPT ![wanted] = Mapped(f)]
       ELSE UNCHANGED <<frames, pages>>
  /\ wanted' = None
  /\ UNCHANGED <<tables, phase, todo, trap>>

\* getFirstFreeFrame finds none.  When the frame was for a table, getPage has
\* marked the table before it asked.
OutOfFrames ==
  /\ Running /\ wanted # None /\ NoneFree
  /\ LET t == TableOf(wanted)
     IN  \/ /\ t \notin tables_allocated /\ pages[TablePage(t)].frame = 0
            /\ tables_allocated' = tables_allocated \cup {t}
         \/ /\ t \in tables_allocated
            /\ phase \in {"heap", "program", "user"} /\ pages[wanted].frame = 0
            /\ UNCHANGED tables_allocated
  /\ trap' = "0x18"
  /\ UNCHANGED <<frames, pages, physical_table_addresses, phase, todo, wanted>>

\* freeFrame, in the loop of kernelMain: the present bit stays.
FreeFrame ==
  /\ Running /\ phase = "free" /\ todo # <<>>
  /\ LET p == Head(todo)
     IN  IF pages[p].frame # 0
           THEN /\ ClearFrame(pages[p].frame)
                /\ pages' = [pages EXCEPT ![p].frame = 0]
           ELSE UNCHANGED <<frames, pages>>
  /\ todo' = Tail(todo)
  /\ UNCHANGED <<tables, phase, wanted, trap>>

Init ==
  /\ free_frames = {} /\ allocated_frames = 0
  /\ pages = [p \in Page |-> Unmapped]
  /\ tables_allocated = {}
  /\ physical_table_addresses = [t \in Table |-> 0]
  /\ phase = "tables" /\ todo = FirstTables
  /\ wanted = None /\ trap = "none"

Next ==
  \/ SetUpTable \/ NextPhase \/ CheckFrame \/ AllocateTable \/ IdentityMap
  \/ WantFrame \/ AllocateFrame \/ OutOfFrames \/ FreeFrame

Spec == Init /\ [][Next]_vars

-----------------------------------------------------------------------------
\* The entries hold frames, the bits are of frames, the lists hold pages.
TypeOK ==
  /\ free_frames \subseteq Frame /\ allocated_frames \in Int
  /\ pages \in [Page -> Entry]
  /\ tables_allocated \subseteq Table
  /\ physical_table_addresses \in [Table -> Frame]
  /\ phase \in {"tables", "boot", "heap", "framebuffer", "program", "user", "free"}
  /\ todo \in Seq(Page)
  /\ wanted \in Page \cup {None}
  /\ trap \in {"none", "0x14", "0x18"}

\* No two pages share a frame: a table never overlays a page, the heap never
\* gets a frame that holds the kernel, the program or a table.  (Frame 0 is
\* what an entry without a frame says.)
FramesExclusive ==
  \A p, q \in Page : p # q /\ pages[p].frame # 0 => pages[p].frame # pages[q].frame

\* A frame is taken exactly when some page maps it: none leaks, and none in
\* use can be handed out again.
TakenIsMapped == free_frames \ {0} = {pages[p].frame : p \in Page} \ {0}

\* getUsedMemory reports the frames of the RAM that are taken.
CounterAgrees == allocated_frames = Cardinality({f \in free_frames : f < Total})

\* What the kernel writes into a table is what the processor walks: the page
\* of every table leads to the physical address in the directory, and none of
\* their frames is in the way of an identity map, of the boot or of the frame
\* buffer.  Only the machine that stopped for want of a frame may be left with
\* a table that is marked and has neither: that of the page it wanted.
TablesAgree ==
  /\ phase # "tables" =>
       \A t \in tables_allocated :
         \/ pages[TablePage(t)] = Mapped(physical_table_addresses[t])
         \/ trap = "0x18" /\ t = TableOf(wanted) /\ pages[TablePage(t)].frame = 0
  /\ trap # "0x14"

\* A page keeps its frame, and with it what it holds, until it is freed,
\* however often a heap asks for it again.
FramesKept ==
  [][\A p \in Page : pages[p].frame # 0 /\ phase # "free"
       => pages'[p].frame = pages[p].frame]_vars
=============================================================================
